---------------------------- MODULE WalletUnlock ----------------------------
(***************************************************************************)
(* The unlock / relock life cycle of an encrypted wallet (rpcwallet.cpp).  *)
(*                                                                         *)
(* walletpassphrase decrypts the keys and starts a ThreadCleanWallet-      *)
(* Passphrase thread per call.  The relocker threads share the global      *)
(* nWalletUnlockTime under cs_nWalletUnlockTime: the first one that finds  *)
(* it 0 stores its wake time and sleeps in a loop until that time has      *)
(* passed, then zeroes it and locks the wallet; a later one only moves the *)
(* wake time forward.  walletlock locks the wallet and zeroes the time.    *)
(* The send RPCs are gated by IsLocked() or by EnsureWalletIsUnlocked(),   *)
(* which also refuses a wallet unlocked for minting only, as SendMoney     *)
(* does itself.                                                            *)
(*                                                                         *)
(* RPC handlers are atomic steps (the dispatcher runs a wallet command     *)
(* under cs_main and cs_wallet); relocker threads are independent steps.   *)
(* Each section a relocker runs while holding cs_nWalletUnlockTime is one  *)
(* step.  Time is in seconds; nWalletUnlockTime = 0 means "no relock".     *)
(***************************************************************************)
EXTENDS Naturals, FiniteSets

CONSTANTS
    Timeouts,     \* <timeout> arguments of walletpassphrase, in seconds
    StartTime,    \* GetTimeMillis() when the node starts, in seconds
    MaxUnlocks,   \* bound on walletpassphrase calls (= relocker threads)
    MaxRPC        \* bound on the other state-changing RPC calls

ASSUME TimeoutsAssumption == Timeouts \subseteq Nat /\ Timeouts # {}
ASSUME StartTimeAssumption == StartTime \in Nat \ {0}
ASSUME BoundsAssumption == MaxUnlocks \in Nat /\ MaxRPC \in Nat

VARIABLES
    now,          \* GetTimeMillis() / 1000
    locked,       \* pwalletMain->IsLocked()
    mintOnly,     \* fWalletUnlockMintOnly
    unlockTime,   \* nWalletUnlockTime (0: no relock scheduled)
    rl,           \* rl[t]: state of the relocker thread started by call t
    spawned,      \* number of walletpassphrase calls that started a thread
    rpcs,         \* number of walletlock and send calls made
    sends,        \* number of transactions the send RPCs committed
    deadline      \* history: now + timeout of the walletpassphrase call
                  \* that opened the current unlock session

vars == <<now, locked, mintOnly, unlockTime, rl, spawned, rpcs, sends, deadline>>

Threads == 1..MaxUnlocks

(* A relocker thread: "none" before NewThread, "spawned" between NewThread *)
(* and its first ENTER_CRITICAL_SECTION, "sleep" inside Sleep(nToSleep)    *)
(* with cs_nWalletUnlockTime released, "done" once it has returned.        *)
PCs == {"none", "spawned", "sleep", "done"}

RelockerState == [pc : PCs, timeout : Timeouts \cup {0}, until : Nat]

NoThread == [pc |-> "none", timeout |-> 0, until |-> 0]

TypeOK ==
    /\ now \in Nat
    /\ locked \in BOOLEAN
    /\ mintOnly \in BOOLEAN
    /\ unlockTime \in Nat
    /\ rl \in [Threads -> RelockerState]
    /\ spawned \in 0..MaxUnlocks
    /\ rpcs \in 0..MaxRPC
    /\ sends \in Nat
    /\ deadline \in Nat

(* A crypted wallet is locked after loading; the globals start zeroed.     *)
Init ==
    /\ now = StartTime
    /\ locked = TRUE
    /\ mintOnly = FALSE
    /\ unlockTime = 0
    /\ rl = [t \in Threads |-> NoThread]
    /\ spawned = 0
    /\ rpcs = 0
    /\ sends = 0
    /\ deadline = 0

-----------------------------------------------------------------------------
(***************************************************************************)
(* RPC handlers.                                                           *)
(***************************************************************************)

(* Mutant of walletpassphrase: the thread is handed the timeout in         *)
(* milliseconds, as if *pnSleepTime were scaled twice.                      *)
walletpassphraseMsTimeout(tm, mo) ==
    /\ spawned < MaxUnlocks
    /\ locked
    /\ locked' = FALSE
    /\ rl' = [rl EXCEPT ![spawned + 1] =
                [pc |-> "spawned", timeout |-> tm * 1000, until |-> 0]]
    /\ spawned' = spawned + 1
    /\ mintOnly' = mo
    /\ deadline' = now + tm
    /\ UNCHANGED <<now, unlockTime, rpcs, sends>>

(* walletpassphrase <passphrase> <timeout> [mintonly]: refused unless the  *)
(* wallet is locked; a wrong or empty passphrase throws before any change. *)
(* On success: Unlock, NewThread(ThreadTopUpKeyPool), NewThread(ThreadClean*)
(* WalletPassphrase, timeout), then fWalletUnlockMintOnly := mintonly.     *)
walletpassphrase(tm, mo) ==
    /\ spawned < MaxUnlocks
    /\ locked
    /\ locked' = FALSE
    /\ rl' = [rl EXCEPT ![spawned + 1] =
                [pc |-> "spawned", timeout |-> tm, until |-> 0]]
    /\ spawned' = spawned + 1
    /\ mintOnly' = mo
    /\ deadline' = now + tm
    /\ UNCHANGED <<now, unlockTime, rpcs, sends>>

(* Mutant of walletlock: the wake time is zeroed but Lock() is forgotten.  *)
walletlockNoLock ==
    /\ rpcs < MaxRPC
    /\ unlockTime' = 0
    /\ rpcs' = rpcs + 1
    /\ UNCHANGED <<now, locked, mintOnly, rl, spawned, sends, deadline>>

(* walletlock: under cs_nWalletUnlockTime, Lock() and zero the wake time.  *)
walletlock ==
    /\ rpcs < MaxRPC
    /\ locked' = TRUE
    /\ unlockTime' = 0
    /\ rpcs' = rpcs + 1
    /\ UNCHANGED <<now, mintOnly, rl, spawned, sends, deadline>>

(* EnsureWalletIsUnlocked: throws if locked or unlocked for minting only.  *)
EnsureWalletIsUnlocked == ~locked /\ ~mintOnly

(* A send RPC that passed its unlock check and committed a transaction.    *)
(* Balance and creation failures throw without changing the wallet, so    *)
(* they are stuttering steps.                                              *)
Commit ==
    /\ rpcs < MaxRPC
    /\ rpcs' = rpcs + 1
    /\ sends' = sends + 1
    /\ UNCHANGED <<now, locked, mintOnly, unlockTime, rl, spawned, deadline>>

(* CWallet::SendMoney (wallet.cpp): refuses with an error string while    *)
(* the wallet is unlocked for minting only, else creates and commits the   *)
(* transaction; the caller rethrows a non-empty error.                     *)
SendMoney == ~mintOnly /\ Commit

(* Mutant of sendtoaddress: the IsLocked() check is dropped.              *)
sendtoaddressNoLockCheck == SendMoney

(* sendtoaddress: checks IsLocked(), then SendMoney.                       *)
sendtoaddress == ~locked /\ SendMoney

(* mergecoins: checks only IsLocked() before MergeCoins.                   *)
mergecoins == ~locked /\ Commit

(* sendfrom: EnsureWalletIsUnlocked() before SendMoney.                     *)
sendfrom == EnsureWalletIsUnlocked /\ SendMoney

(* sendmany: EnsureWalletIsUnlocked() before CreateTransaction and         *)
(* CommitTransaction.                                                      *)
sendmany == EnsureWalletIsUnlocked /\ Commit

-----------------------------------------------------------------------------
(***************************************************************************)
(* ThreadCleanWalletPassphrase.                                            *)
(***************************************************************************)

(* Mutant of LoopPass: the loop breaks on an expired wake time and zeroes  *)
(* nWalletUnlockTime, but never calls Lock().                              *)
LoopPassNoLock(t, ut) ==
    \/ /\ ut = 0
       /\ rl' = [rl EXCEPT ![t].pc = "done"]
       /\ unlockTime' = 0
       /\ UNCHANGED locked
    \/ /\ ut # 0
       /\ ut <= now
       /\ rl' = [rl EXCEPT ![t].pc = "done"]
       /\ unlockTime' = 0
       /\ UNCHANGED locked
    \/ /\ ut # 0
       /\ ut > now
       /\ rl' = [rl EXCEPT ![t].pc = "sleep", ![t].until = ut]
       /\ unlockTime' = ut
       /\ UNCHANGED locked

(* Mutant of LoopPass: the loop breaks on an expired wake time and calls   *)
(* Lock(), but leaves nWalletUnlockTime set.                               *)
LoopPassNoZero(t, ut) ==
    \/ /\ ut = 0
       /\ rl' = [rl EXCEPT ![t].pc = "done"]
       /\ unlockTime' = 0
       /\ UNCHANGED locked
    \/ /\ ut # 0
       /\ ut <= now
       /\ rl' = [rl EXCEPT ![t].pc = "done"]
       /\ unlockTime' = ut
       /\ locked' = TRUE
    \/ /\ ut # 0
       /\ ut > now
       /\ rl' = [rl EXCEPT ![t].pc = "sleep", ![t].until = ut]
       /\ unlockTime' = ut
       /\ UNCHANGED locked

(* One pass of the for(;;) loop with cs_nWalletUnlockTime held, given the  *)
(* value ut of nWalletUnlockTime: break on 0; break when the wake time has *)
(* passed, and then, nWalletUnlockTime being non-zero, zero it and Lock(); *)
(* otherwise LEAVE the section and Sleep(ut - now).                        *)
LoopPass(t, ut) ==
    \/ /\ ut = 0
       /\ rl' = [rl EXCEPT ![t].pc = "done"]
       /\ unlockTime' = 0
       /\ UNCHANGED locked
    \/ /\ ut # 0
       /\ ut <= now
       /\ rl' = [rl EXCEPT ![t].pc = "done"]
       /\ unlockTime' = 0
       /\ locked' = TRUE
    \/ /\ ut # 0
       /\ ut > now
       /\ rl' = [rl EXCEPT ![t].pc = "sleep", ![t].until = ut]
       /\ unlockTime' = ut
       /\ UNCHANGED locked

(* The thread computes nMyWakeTime and enters the section.  If no relock   *)
(* is scheduled it schedules its own and runs the loop; otherwise it only  *)
(* moves nWalletUnlockTime forward to nMyWakeTime and returns.             *)
RelockerStart(t) ==
    /\ rl[t].pc = "spawned"
    /\ LET myWake == now + rl[t].timeout IN
       IF unlockTime = 0
       THEN LoopPass(t, myWake)
       ELSE /\ rl' = [rl EXCEPT ![t].pc = "done"]
            /\ unlockTime' = IF unlockTime < myWake THEN myWake ELSE unlockTime
            /\ UNCHANGED locked
    /\ UNCHANGED <<now, mintOnly, spawned, rpcs, sends, deadline>>

(* Sleep returns once the time it was given has passed; the thread         *)
(* re-enters the section and runs the next pass of the loop.               *)
RelockerWake(t) ==
    /\ rl[t].pc = "sleep"
    /\ now >= rl[t].until
    /\ LoopPass(t, unlockTime)
    /\ UNCHANGED <<now, mintOnly, spawned, rpcs, sends, deadline>>

RelockerStep(t) == RelockerStart(t) \/ RelockerWake(t)

(* The clock advances while a relocker sleeps towards a later time.  A     *)
(* started thread reaches its first critical section within the second     *)
(* NewThread created it in.                                                *)
Tick ==
    /\ \A t \in Threads : rl[t].pc # "spawned"
    /\ \E t \in Threads : rl[t].pc = "sleep" /\ now < rl[t].until
    /\ now' = now + 1
    /\ UNCHANGED <<locked, mintOnly, unlockTime, rl, spawned, rpcs, sends, deadline>>

-----------------------------------------------------------------------------
Next ==
    \/ \E tm \in Timeouts, mo \in BOOLEAN : walletpassphrase(tm, mo)
    \/ walletlock
    \/ sendtoaddress
    \/ mergecoins
    \/ sendfrom
    \/ sendmany
    \/ \E t \in Threads : RelockerStep(t)
    \/ Tick

(* The OS runs every started thread, and the clock keeps going.  Nothing   *)
(* obliges a client to call an RPC.                                        *)
Fairness ==
    /\ \A t \in Threads : WF_vars(RelockerStart(t)) /\ WF_vars(RelockerWake(t))
    /\ WF_vars(Tick)

Spec == Init /\ [][Next]_vars /\ Fairness

(* The lock status the rest of the wallet sees: IsLocked(), and otherwise  *)
(* fWalletUnlockMintOnly (which keeps its stale value while locked).       *)
LockStatus ==
    IF locked THEN "locked" ELSE IF mintOnly THEN "mintonly" ELSE "unlocked"

Abstract == INSTANCE WalletLock WITH status <- LockStatus, spent <- sends

-----------------------------------------------------------------------------
(***************************************************************************)
(* Properties.                                                             *)
(***************************************************************************)

(* Relock coverage: while the wallet is unlocked some relocker thread will *)
(* still act on it -- one not yet in its first critical section, or one    *)
(* sleeping in ThreadCleanWalletPassphrase's loop that wakes no later than *)
(* the scheduled nWalletUnlockTime.  A thread that leaves its loop without *)
(* Lock(), a walletlock that zeroes the schedule but leaves the keys, or a *)
(* sleeper that oversleeps the schedule breaks it.                         *)
RelockCovered ==
    ~locked =>
        \/ \E t \in Threads : rl[t].pc = "spawned"
        \/ \E t \in Threads : rl[t].pc = "sleep" /\ rl[t].until <= unlockTime

(* getinfo reports unlocked_until = nWalletUnlockTime / 1000, read without *)
(* cs_nWalletUnlockTime.  Whatever instant the read sees, a non-zero value *)
(* is backed: some relocker thread sleeps towards a time no later than it, *)
(* so the relock getinfo announces is one a thread will carry out.  Every  *)
(* way out of the relocker loop must zero the time, and a thread may only  *)
(* extend a time that a sleeper already covers.                            *)
UnlockedUntilBacked ==
    unlockTime # 0 =>
        \E t \in Threads : rl[t].pc = "sleep" /\ rl[t].until <= unlockTime

(* No early relock: a relocker thread never locks the wallet before the    *)
(* timeout requested by the walletpassphrase call that opened the current  *)
(* session has run out, even when a thread of an earlier session has not   *)
(* yet reached its first critical section.                                 *)
RelockNotEarly ==
    [][(\E t \in Threads : RelockerStep(t)) /\ ~locked /\ locked'
         => now >= deadline]_vars

(* Refinement: the RPC handlers and relocker threads together implement   *)
(* the abstract lock life cycle of WalletLock -- walletpassphrase unlocks  *)
(* only a locked wallet and sets the mode, walletlock and a relocker's     *)
(* Lock() lock, no other step changes the status or the mode, every send   *)
(* RPC commits only while unlocked, and the relockers' fairness makes the  *)
(* abstract Lock happen.  A send handler that skips its IsLocked() check,  *)
(* or a relocker that forgets Lock(), breaks it.                           *)
ImplementsWalletLock == Abstract!Spec

(* Relock liveness: an unlocked wallet is eventually locked again.         *)
EventuallyRelocked == [](~locked => <>locked)

=============================================================================
