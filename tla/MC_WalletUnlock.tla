--------------------------- MODULE MC_WalletUnlock ---------------------------
(* Small instance of WalletUnlock: two timeouts so that a short unlock can  *)
(* follow a long one, three unlock calls and three further RPC calls.      *)
EXTENDS WalletUnlock

MCTimeouts == {0, 1, 3}
MCStartTime == 1
MCMaxUnlocks == 3
MCMaxRPC == 3
=============================================================================
