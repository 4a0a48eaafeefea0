----------------------------- MODULE WalletLock -----------------------------
(***************************************************************************)
(* What the unlock / relock life cycle of rpcwallet.cpp promises the rest  *)
(* of the wallet, without threads, clocks or schedules.                    *)
(*                                                                         *)
(* The wallet is locked, unlocked, or unlocked for minting only.  It is    *)
(* unlocked only from the locked state, in one of the two modes; it can be *)
(* locked at any time; a send RPC commits a transaction only while it is   *)
(* not locked; and an unlocked wallet does not stay unlocked forever.      *)
(* Send is allowed in the mint-only mode: mergecoins checks IsLocked()    *)
(* only, and MergeCoins is not known to refuse, so the promise is weaker   *)
(* than the mint-only rule of the spec.                                    *)
(***************************************************************************)
EXTENDS Naturals

VARIABLES
    status,   \* "locked", "unlocked" or "mintonly"
    spent     \* number of transactions the send RPCs committed

absvars == <<status, spent>>

Modes == {"unlocked", "mintonly"}

Init ==
    /\ status = "locked"
    /\ spent = 0

Unlock(mode) ==
    /\ status = "locked"
    /\ status' = mode
    /\ UNCHANGED spent

Lock ==
    /\ status' = "locked"
    /\ UNCHANGED spent

Send ==
    /\ status # "locked"
    /\ spent' = spent + 1
    /\ UNCHANGED status

Next == (\E mode \in Modes : Unlock(mode)) \/ Lock \/ Send

Safety == Init /\ [][Next]_absvars

Spec == Safety /\ WF_absvars(Lock)
=============================================================================
