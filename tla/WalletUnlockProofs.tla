------------------------- MODULE WalletUnlockProofs -------------------------
(***************************************************************************)
(* Proofs about WalletUnlock for every value of the constants: the type   *)
(* invariant, and that an unlocked wallet always has a relocker thread    *)
(* that will act on it (RelockCovered).                                    *)
(***************************************************************************)
EXTENDS WalletUnlock, TLAPS

(* Threads with an id above the number of walletpassphrase calls have not *)
(* been started, so walletpassphrase never overwrites a running thread.   *)
Fresh == \A t \in Threads : t > spawned => rl[t].pc = "none"

(* The clock never reads 0, so nMyWakeTime = now + timeout is never the   *)
(* "no relock" value; a sleeping thread waits for a non-zero time.        *)
Positive ==
    /\ now >= 1
    /\ \A t \in Threads : rl[t].pc = "sleep" => rl[t].until >= 1

(* A scheduled relock has a sleeper that wakes no later than it.          *)
Scheduled ==
    unlockTime # 0 =>
        \E t \in Threads : rl[t].pc = "sleep" /\ rl[t].until <= unlockTime

(* The inductive invariant.                                                *)
IInv == TypeOK /\ Fresh /\ Positive /\ Scheduled /\ RelockCovered

-----------------------------------------------------------------------------
LEMMA InitIInv == Init => IInv
  <1> SUFFICES ASSUME Init PROVE IInv
    OBVIOUS
  <1>1. NoThread \in RelockerState
    BY DEF NoThread, RelockerState, PCs
  <1>2. TypeOK
    <2>1. rl \in [Threads -> RelockerState]
      BY <1>1 DEF Init
    <2>2. now \in Nat /\ unlockTime \in Nat /\ sends \in Nat /\ deadline \in Nat
      BY StartTimeAssumption DEF Init
    <2>3. locked \in BOOLEAN /\ mintOnly \in BOOLEAN
      BY Zenon DEF Init
    <2>4. spawned \in 0..MaxUnlocks /\ rpcs \in 0..MaxRPC
      BY BoundsAssumption DEF Init
    <2>5. QED
      BY <2>1, <2>2, <2>3, <2>4 DEF TypeOK
  <1>3. Fresh /\ Positive
    BY StartTimeAssumption DEF Init, Fresh, Positive, NoThread
  <1>4. Scheduled /\ RelockCovered
    BY DEF Init, Scheduled, RelockCovered
  <1>5. QED
    BY <1>2, <1>3, <1>4 DEF IInv

(* walletpassphrase starts thread spawned + 1, which Fresh says is unused. *)
LEMMA PassphraseIInv ==
  ASSUME IInv, NEW tm \in Timeouts, NEW mo \in BOOLEAN, walletpassphrase(tm, mo)
  PROVE  IInv'
  <1> DEFINE n == spawned + 1
  <1>1. n \in Threads /\ rl[n].pc = "none"
    <2>1. spawned \in 0..MaxUnlocks /\ spawned < MaxUnlocks
      BY DEF walletpassphrase, IInv, TypeOK
    <2>2. n \in Threads /\ n > spawned
      BY <2>1, BoundsAssumption DEF Threads
    <2>3. QED
      BY <2>2 DEF IInv, Fresh
  <1>2. TypeOK'
    <2>1. [pc |-> "spawned", timeout |-> tm, until |-> 0] \in RelockerState
      BY DEF RelockerState, PCs
    <2>2. rl' \in [Threads -> RelockerState]
      BY <1>1, <2>1 DEF walletpassphrase, IInv, TypeOK
    <2>3. spawned' \in 0..MaxUnlocks
      BY BoundsAssumption DEF walletpassphrase, IInv, TypeOK
    <2>4. deadline' \in Nat
      BY TimeoutsAssumption DEF walletpassphrase, IInv, TypeOK
    <2>5. locked' \in BOOLEAN /\ mintOnly' \in BOOLEAN
      BY Zenon DEF walletpassphrase
    <2>6. now' \in Nat /\ unlockTime' \in Nat /\ rpcs' \in 0..MaxRPC /\ sends' \in Nat
      BY DEF walletpassphrase, IInv, TypeOK
    <2>7. QED
      BY <2>2, <2>3, <2>4, <2>5, <2>6 DEF TypeOK
  <1>3. Fresh'
    BY DEF walletpassphrase, IInv, TypeOK, Fresh, Threads
  <1>4. Positive'
    BY <1>1 DEF walletpassphrase, IInv, TypeOK, Positive
  <1>5. Scheduled'
    BY <1>1 DEF walletpassphrase, IInv, TypeOK, Scheduled
  <1>6. RelockCovered'
    BY <1>1 DEF walletpassphrase, IInv, TypeOK, RelockCovered
  <1>7. QED
    BY <1>2, <1>3, <1>4, <1>5, <1>6 DEF IInv

LEMMA WalletlockIInv ==
  ASSUME IInv, walletlock
  PROVE  IInv'
  <1>1. TypeOK'
    BY BoundsAssumption DEF walletlock, IInv, TypeOK
  <1>2. (Fresh /\ Positive)'
    BY DEF walletlock, IInv, Fresh, Positive
  <1>3. (Scheduled /\ RelockCovered)'
    BY DEF walletlock, Scheduled, RelockCovered
  <1>4. QED
    BY <1>1, <1>2, <1>3 DEF IInv

LEMMA CommitIInv ==
  ASSUME IInv, Commit
  PROVE  IInv'
  <1>1. TypeOK'
    <2>1. rpcs' \in 0..MaxRPC /\ sends' \in Nat
      BY BoundsAssumption DEF Commit, IInv, TypeOK
    <2>2. locked' \in BOOLEAN /\ mintOnly' \in BOOLEAN
      BY Zenon DEF Commit, IInv, TypeOK
    <2>3. QED
      BY <2>1, <2>2 DEF Commit, IInv, TypeOK
  <1>2. (Fresh /\ Positive /\ Scheduled /\ RelockCovered)'
    BY DEF Commit, IInv, Fresh, Positive, Scheduled, RelockCovered
  <1>3. QED
    BY <1>1, <1>2 DEF IInv

LEMMA TickIInv ==
  ASSUME IInv, Tick
  PROVE  IInv'
  <1>1. TypeOK'
    <2>1. now' \in Nat
      BY DEF Tick, IInv, TypeOK
    <2>2. locked' \in BOOLEAN /\ mintOnly' \in BOOLEAN
      BY Zenon DEF Tick, IInv, TypeOK
    <2>3. QED
      BY <2>1, <2>2 DEF Tick, IInv, TypeOK
  <1>2. (Fresh /\ Positive)'
    BY DEF Tick, IInv, TypeOK, Fresh, Positive
  <1>3. (Scheduled /\ RelockCovered)'
    BY DEF Tick, IInv, Scheduled, RelockCovered
  <1>4. QED
    BY <1>1, <1>2, <1>3 DEF IInv

(* The two ways a relocker thread rewrites its own record keep the type.   *)
LEMMA DoneType ==
  ASSUME rl \in [Threads -> RelockerState], NEW t \in Threads
  PROVE  [rl EXCEPT ![t].pc = "done"] \in [Threads -> RelockerState]
  BY DEF RelockerState, PCs

LEMMA SleepType ==
  ASSUME rl \in [Threads -> RelockerState], NEW t \in Threads, NEW u \in Nat
  PROVE  [rl EXCEPT ![t].pc = "sleep", ![t].until = u] \in [Threads -> RelockerState]
  BY Zenon DEF RelockerState, PCs

(* A relocker step that rewrites only the record of a started thread t,   *)
(* leaving it done or asleep until a non-zero time, keeps the invariant   *)
(* once the step re-establishes Scheduled and RelockCovered itself.        *)
LEMMA RelockerFrame ==
  ASSUME IInv, NEW t \in Threads, rl[t].pc # "none",
         rl' \in [Threads -> RelockerState],
         \A s \in Threads \ {t} : rl'[s] = rl[s],
         rl'[t].pc = "sleep" => rl'[t].until >= 1,
         unlockTime' \in Nat, locked' \in BOOLEAN,
         UNCHANGED <<now, mintOnly, spawned, rpcs, sends, deadline>>,
         Scheduled', RelockCovered'
  PROVE  IInv'
  <1>1. t <= spawned
    BY BoundsAssumption DEF IInv, TypeOK, Fresh, Threads
  <1>2. mintOnly' \in BOOLEAN
    BY Zenon DEF IInv, TypeOK
  <1>3. TypeOK'
    BY <1>2 DEF IInv, TypeOK
  <1>4. Fresh'
    BY <1>1 DEF IInv, TypeOK, Fresh, Threads
  <1>5. Positive'
    BY DEF IInv, Positive
  <1>6. QED
    BY <1>3, <1>4, <1>5 DEF IInv

(* A starting thread either schedules the relock for now + timeout and     *)
(* sleeps (or locks at once for a zero timeout), or finds one scheduled,   *)
(* whose sleeper still covers the wallet, and only moves it forward.       *)
LEMMA StartIInv ==
  ASSUME IInv, NEW t \in Threads, RelockerStart(t)
  PROVE  IInv'
  <1> DEFINE myWake == now + rl[t].timeout
  <1>1. /\ rl[t].pc = "spawned" /\ rl[t].pc # "none"
        /\ myWake \in Nat /\ myWake # 0
    BY TimeoutsAssumption DEF RelockerStart, IInv, TypeOK, Positive, RelockerState
  <1>2. UNCHANGED <<now, mintOnly, spawned, rpcs, sends, deadline>>
    BY DEF RelockerStart
  <1>3. CASE unlockTime = 0 /\ myWake <= now
    <2>1. LoopPass(t, myWake)
      BY <1>3 DEF RelockerStart
    <2>2. ~(myWake > now)
      BY <1>1, <1>3 DEF IInv, TypeOK
    <2>3. rl' = [rl EXCEPT ![t].pc = "done"] /\ unlockTime' = 0 /\ locked' = TRUE
      BY Zenon, <1>1, <2>1, <2>2 DEF LoopPass
    <2>4. /\ rl' \in [Threads -> RelockerState]
          /\ \A s \in Threads \ {t} : rl'[s] = rl[s]
          /\ rl'[t].pc = "done"
      BY <2>3, DoneType DEF IInv, TypeOK
    <2>5. locked' \in BOOLEAN /\ Scheduled' /\ RelockCovered'
      BY Zenon, <2>3 DEF Scheduled, RelockCovered
    <2>6. QED
      BY <1>1, <1>2, <2>3, <2>4, <2>5, RelockerFrame
  <1>4. CASE unlockTime = 0 /\ myWake > now
    <2>1. LoopPass(t, myWake)
      BY <1>4 DEF RelockerStart
    <2>2. /\ rl' = [rl EXCEPT ![t].pc = "sleep", ![t].until = myWake]
          /\ unlockTime' = myWake
          /\ locked' = locked
      <3>1. ~(myWake <= now)
        BY <1>1, <1>4 DEF IInv, TypeOK
      <3>2. QED
        BY Zenon, <1>1, <1>4, <2>1, <3>1 DEF LoopPass
    <2>3. /\ rl' \in [Threads -> RelockerState]
          /\ \A s \in Threads \ {t} : rl'[s] = rl[s]
          /\ rl'[t].pc = "sleep" /\ rl'[t].until = myWake
      <3>0. rl \in [Threads -> RelockerState]
        BY DEF IInv, TypeOK
      <3>1. rl' \in [Threads -> RelockerState]
        BY Zenon, <1>1, <2>2, <3>0, SleepType
      <3>2. QED
        BY <2>2, <3>1
    <2>4. locked' \in BOOLEAN
      BY Zenon, <2>2 DEF IInv, TypeOK
    <2>5. Scheduled' /\ RelockCovered'
      BY <1>1, <2>2, <2>3 DEF Scheduled, RelockCovered
    <2>6. QED
      BY <1>1, <1>2, <2>2, <2>3, <2>4, <2>5, RelockerFrame
  <1>5. CASE unlockTime # 0
    <2>1. /\ rl' = [rl EXCEPT ![t].pc = "done"]
          /\ unlockTime' = IF unlockTime < myWake THEN myWake ELSE unlockTime
          /\ locked' = locked
      BY <1>5 DEF RelockerStart
    <2>2. /\ rl' \in [Threads -> RelockerState]
          /\ \A s \in Threads \ {t} : rl'[s] = rl[s]
          /\ rl'[t].pc = "done"
      BY <2>1, DoneType DEF IInv, TypeOK
    <2>3. unlockTime' \in Nat /\ unlockTime <= unlockTime'
      BY <1>1, <2>1 DEF IInv, TypeOK
    <2>4. PICK s \in Threads : rl[s].pc = "sleep" /\ rl[s].until <= unlockTime
      BY <1>5 DEF IInv, Scheduled
    <2>5. s # t
      BY <1>1, <2>4
    <2>6. rl'[s].pc = "sleep" /\ rl'[s].until <= unlockTime'
      BY <2>2, <2>3, <2>4, <2>5 DEF IInv, TypeOK, RelockerState
    <2>7. Scheduled' /\ RelockCovered'
      BY <2>6 DEF Scheduled, RelockCovered
    <2>8. locked' \in BOOLEAN
      BY Zenon, <2>1 DEF IInv, TypeOK
    <2>9. QED
      BY <1>1, <1>2, <2>2, <2>3, <2>7, <2>8, RelockerFrame
  <1>6. QED
    BY <1>1, <1>3, <1>4, <1>5 DEF IInv, TypeOK

(* A waking thread breaks on a zeroed schedule (the wallet, if unlocked,   *)
(* then has a thread that has not started yet: no sleeper waits for 0),    *)
(* locks on an expired one, or sleeps again until the scheduled time.      *)
LEMMA WakeIInv ==
  ASSUME IInv, NEW t \in Threads, RelockerWake(t)
  PROVE  IInv'
  <1>1. /\ rl[t].pc = "sleep" /\ rl[t].pc # "none"
        /\ LoopPass(t, unlockTime)
        /\ UNCHANGED <<now, mintOnly, spawned, rpcs, sends, deadline>>
    BY DEF RelockerWake
  <1>2. rl \in [Threads -> RelockerState] /\ unlockTime \in Nat /\ now \in Nat
    BY DEF IInv, TypeOK
  <1>3. CASE unlockTime = 0
    <2>1. rl' = [rl EXCEPT ![t].pc = "done"] /\ unlockTime' = 0 /\ locked' = locked
      BY Zenon, <1>1, <1>3 DEF LoopPass
    <2>2. /\ rl' \in [Threads -> RelockerState]
          /\ \A s \in Threads \ {t} : rl'[s] = rl[s]
      BY <1>2, <2>1, DoneType
    <2>3. locked' \in BOOLEAN
      BY Zenon, <2>1 DEF IInv, TypeOK
    <2>4. RelockCovered'
      <3>1. SUFFICES ASSUME ~locked PROVE RelockCovered'
        BY <2>1 DEF RelockCovered
      <3>2. ~\E s \in Threads : rl[s].pc = "sleep" /\ rl[s].until <= unlockTime
        BY <1>2, <1>3 DEF IInv, Positive, RelockerState
      <3>3. PICK s \in Threads : rl[s].pc = "spawned"
        BY <3>1, <3>2 DEF IInv, RelockCovered
      <3>4. s # t /\ rl'[s].pc = "spawned"
        BY <1>1, <2>2, <3>3
      <3>5. QED
        BY <3>4 DEF RelockCovered
    <2>5. Scheduled'
      BY <2>1 DEF Scheduled
    <2>6. QED
      BY <1>1, <1>2, <2>1, <2>2, <2>3, <2>4, <2>5, RelockerFrame
  <1>4. CASE unlockTime # 0 /\ unlockTime <= now
    <2>1. ~(unlockTime > now)
      BY <1>2, <1>4
    <2>2. rl' = [rl EXCEPT ![t].pc = "done"] /\ unlockTime' = 0 /\ locked' = TRUE
      BY Zenon, <1>1, <1>4, <2>1 DEF LoopPass
    <2>3. /\ rl' \in [Threads -> RelockerState]
          /\ \A s \in Threads \ {t} : rl'[s] = rl[s]
      BY <1>2, <2>2, DoneType
    <2>4. locked' \in BOOLEAN /\ Scheduled' /\ RelockCovered'
      BY Zenon, <2>2 DEF Scheduled, RelockCovered
    <2>5. QED
      BY <1>1, <2>2, <2>3, <2>4, RelockerFrame
  <1>5. CASE unlockTime # 0 /\ unlockTime > now
    <2>1. ~(unlockTime <= now)
      BY <1>2, <1>5
    <2>2. /\ rl' = [rl EXCEPT ![t].pc = "sleep", ![t].until = unlockTime]
          /\ unlockTime' = unlockTime
          /\ locked' = locked
      BY Zenon, <1>1, <1>5, <2>1 DEF LoopPass
    <2>3. rl' \in [Threads -> RelockerState]
      BY Zenon, <1>2, <2>2, SleepType
    <2>4. /\ \A s \in Threads \ {t} : rl'[s] = rl[s]
          /\ rl'[t].pc = "sleep" /\ rl'[t].until = unlockTime
      BY <2>2, <2>3
    <2>5. locked' \in BOOLEAN
      BY Zenon, <2>2 DEF IInv, TypeOK
    <2>6. Scheduled' /\ RelockCovered'
      BY <1>2, <2>2, <2>4 DEF Scheduled, RelockCovered
    <2>7. rl'[t].pc = "sleep" => rl'[t].until >= 1
      BY <1>2, <1>5, <2>4
    <2>8. QED
      BY <1>1, <1>2, <2>2, <2>3, <2>4, <2>5, <2>6, <2>7, RelockerFrame
  <1>6. QED
    BY <1>2, <1>3, <1>4, <1>5

(* Every step of the specification keeps the inductive invariant.          *)
LEMMA NextIInv == IInv /\ [Next]_vars => IInv'
  <1> SUFFICES ASSUME IInv, [Next]_vars PROVE IInv'
    OBVIOUS
  <1>1. CASE \E tm \in Timeouts, mo \in BOOLEAN : walletpassphrase(tm, mo)
    BY <1>1, PassphraseIInv
  <1>2. CASE walletlock
    BY <1>2, WalletlockIInv
  <1>3. CASE sendtoaddress \/ mergecoins \/ sendfrom \/ sendmany
    BY <1>3, CommitIInv DEF SendMoney, sendtoaddress, mergecoins, sendfrom, sendmany
  <1>4. CASE \E t \in Threads : RelockerStep(t)
    BY <1>4, StartIInv, WakeIInv DEF RelockerStep
  <1>5. CASE Tick
    BY <1>5, TickIInv
  <1>6. CASE UNCHANGED vars
    BY <1>6 DEF vars, IInv, TypeOK, Fresh, Positive, Scheduled, RelockCovered
  <1>7. QED
    BY <1>1, <1>2, <1>3, <1>4, <1>5, <1>6 DEF Next

-----------------------------------------------------------------------------
(* Type correctness of the unlock/relock life cycle: every reachable state *)
(* of walletpassphrase, walletlock, the send RPCs and the relocker threads *)
(* satisfies TypeOK, for every timeout set and every bound.                *)
THEOREM TypeCorrect == Spec => []TypeOK
  <1>1. IInv => TypeOK
    BY DEF IInv
  <1>2. QED
    BY InitIInv, NextIInv, <1>1, PTL DEF Spec

(* Relock coverage for every value of the constants: whenever the wallet   *)
(* is unlocked, some ThreadCleanWalletPassphrase thread is still to start  *)
(* or sleeps towards a time no later than nWalletUnlockTime.               *)
THEOREM RelockCoveredInvariant == Spec => []RelockCovered
  <1>1. IInv => RelockCovered
    BY DEF IInv
  <1>2. QED
    BY InitIInv, NextIInv, <1>1, PTL DEF Spec
(* What getinfo reports as unlocked_until is backed, for every value of   *)
(* the constants: a non-zero nWalletUnlockTime always has a relocker      *)
(* thread sleeping towards a time no later than it.                       *)
THEOREM UnlockedUntilBackedInvariant == Spec => []UnlockedUntilBacked
  <1>1. IInv => UnlockedUntilBacked
    BY DEF IInv, Scheduled, UnlockedUntilBacked
  <1>2. QED
    BY InitIInv, NextIInv, <1>1, PTL DEF Spec

-----------------------------------------------------------------------------
(***************************************************************************)
(* Refinement of WalletLock (the safety part; its fairness is a liveness  *)
(* property left to TLC).                                                  *)
(***************************************************************************)

(* The initial state of a loaded crypted wallet is the abstract locked     *)
(* state with no transaction sent.                                         *)
LEMMA InitRefines == Init => Abstract!Init
  BY DEF Init, Abstract!Init, LockStatus

(* A relocker step either leaves the lock flag alone or sets it, and       *)
(* touches neither the mode nor the send count.                            *)
LEMMA RelockerRefines ==
  ASSUME NEW t \in Threads, RelockerStep(t)
  PROVE  [Abstract!Next]_Abstract!absvars
  <1>1. UNCHANGED <<mintOnly, sends>>
    BY DEF RelockerStep, RelockerStart, RelockerWake
  <1>2. UNCHANGED locked \/ locked' = TRUE
    BY DEF RelockerStep, RelockerStart, RelockerWake, LoopPass
  <1>3. CASE UNCHANGED locked
    BY <1>1, <1>3 DEF Abstract!absvars, LockStatus
  <1>4. CASE locked' = TRUE
    <2>1. Abstract!Lock
      BY <1>1, <1>4 DEF Abstract!Lock, LockStatus
    <2>2. QED
      BY <2>1 DEF Abstract!Next
  <1>5. QED
    BY <1>2, <1>3, <1>4

(* Every step maps to an abstract step or a stutter: walletpassphrase to   *)
(* Unlock in the mode mintonly selects, walletlock to Lock, a committing   *)
(* send RPC (whose guard implies ~locked) to Send, Tick to a stutter.      *)
LEMMA StepRefines == [Next]_vars => [Abstract!Next]_Abstract!absvars
  <1> SUFFICES ASSUME [Next]_vars PROVE [Abstract!Next]_Abstract!absvars
    OBVIOUS
  <1>1. CASE \E tm \in Timeouts, mo \in BOOLEAN : walletpassphrase(tm, mo)
    <2>1. PICK tm \in Timeouts, mo \in BOOLEAN : walletpassphrase(tm, mo)
      BY <1>1
    <2>2. Abstract!Unlock(IF mo THEN "mintonly" ELSE "unlocked")
      BY <2>1 DEF walletpassphrase, Abstract!Unlock, LockStatus
    <2>3. (IF mo THEN "mintonly" ELSE "unlocked") \in Abstract!Modes
      BY DEF Abstract!Modes
    <2>4. QED
      BY <2>2, <2>3 DEF Abstract!Next
  <1>2. CASE walletlock
    BY <1>2 DEF walletlock, Abstract!Next, Abstract!Lock, LockStatus
  <1>3. CASE sendtoaddress \/ mergecoins \/ sendfrom \/ sendmany
    <2>1. ~locked /\ Commit
      BY <1>3 DEF SendMoney, sendtoaddress, mergecoins, sendfrom, sendmany,
                  EnsureWalletIsUnlocked
    <2>2. Abstract!Send
      BY <2>1 DEF Commit, Abstract!Send, LockStatus
    <2>3. QED
      BY <2>2 DEF Abstract!Next
  <1>4. CASE \E t \in Threads : RelockerStep(t)
    BY <1>4, RelockerRefines
  <1>5. CASE Tick
    BY <1>5 DEF Tick, Abstract!absvars, LockStatus
  <1>6. CASE UNCHANGED vars
    BY <1>6 DEF vars, Abstract!absvars, LockStatus
  <1>7. QED
    BY <1>1, <1>2, <1>3, <1>4, <1>5, <1>6 DEF Next

(* The handlers and threads of rpcwallet.cpp implement the abstract lock   *)
(* life cycle, for every value of the constants: unlock only from locked,  *)
(* a send only while unlocked, the status changed by no other step.        *)
THEOREM RefinesWalletLockSafety == Spec => Abstract!Safety
  BY InitRefines, StepRefines, PTL DEF Spec, Abstract!Safety
=============================================================================
