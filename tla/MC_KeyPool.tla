------------------------------ MODULE MC_KeyPool ------------------------------
(* Small instance of KeyPool: two accounts and a foreign address, a        *)
(* default pool of one key, refill and reset sizes -1, 0 and 2, and four    *)
(* keys in all, so that the pool runs dry while locked.                    *)
EXTENDS KeyPool

CONSTANTS A1, A2, F

MCAccounts == {A1, A2}
MCForeign == {F}
MCKeypoolSize == 1
MCSizes == {-1, 0, 2}
MCMaxKeys == 4
MCMaxUnlocks == 2
=============================================================================
