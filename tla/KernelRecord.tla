---------------------------- MODULE KernelRecord ----------------------------
(***************************************************************************)
(* The kernel records of the wallet UI (kernelrecord.h, stun.cpp): one    *)
(* record per owned output of a shown wallet transaction, its coin-age     *)
(* helpers and the memoised probability of minting within n minutes.      *)
(*                                                                         *)
(* GetAdjustedTime() is the variable now, which only moves forward.  The  *)
(* probability is a double; it is represented by what it is computed from *)
(* (the difficulty and, per factor of the product, the per-slot coin age  *)
(* and the exponent), so two calls return the same double exactly when    *)
(* their representations are equal.  A factor (1 - p)^e with p = 0 or     *)
(* e = 0 is 1 and is written <<0, 0>>; a product of such factors gives     *)
(* probability 0, written <<>>, which is also the initial prevProbability. *)
(***************************************************************************)
EXTENDS Integers, Sequences

CONSTANTS
    COIN,          \* satoshi per coin
    OneDay,        \* nOneDay
    MinAge,        \* nStakeMinAge
    MaxAge,        \* nStakeMaxAge
    RewardPerCoinDay,  \* GetProofOfStakeReward, per coin-day
    Txs,           \* wallet transactions the UI may decompose
    Starts,        \* GetAdjustedTime() when the records are built
    Steps,         \* how far GetAdjustedTime() moves in one step
    Horizon,       \* bound on GetAdjustedTime()
    Difficulties,  \* difficulty arguments (positive)
    Minutes        \* minutes arguments

ASSUME AgeAssumption ==
    /\ COIN \in Nat \ {0} /\ OneDay \in Nat \ {0}
    /\ MinAge \in Nat /\ MaxAge \in Nat /\ RewardPerCoinDay \in Nat

ASSUME ArgsAssumption ==
    /\ Starts \subseteq Nat /\ Steps \subseteq Nat \ {0} /\ Horizon \in Nat
    /\ Difficulties \subseteq Nat \ {0} /\ Minutes \subseteq Nat

ASSUME TxsAssumption ==
    \A wtx \in Txs :
        /\ wtx.time \in Nat
        /\ wtx.vout \in Seq([mine : BOOLEAN, value : Nat, spent : BOOLEAN])

Minimum(a, b) == IF a < b THEN a ELSE b
Maximum(a, b) == IF a < b THEN b ELSE a

(* The spec's stand-in for the network's reward schedule: monotone.       *)
GetProofOfStakeReward(coinAge) == coinAge * RewardPerCoinDay

(* showTransaction: immature coinbases and untrusted transactions are     *)
(* not shown.                                                              *)
showTransaction(wtx) == ~(wtx.coinbase /\ wtx.depth < 2) /\ wtx.trusted

(* decomposeOutput: one record per IsMine output nOut, idx left at 0, the *)
(* cache at its constructor values.  parts is indexed by nOut, which keeps *)
(* the order of the vector.                                                *)
decomposeOutput(wtx) ==
    [nOut \in IF showTransaction(wtx)
               THEN {n \in DOMAIN wtx.vout : wtx.vout[n].mine} ELSE {} |->
        [hash |-> wtx.hash, nTime |-> wtx.time, nValue |-> wtx.vout[nOut].value,
         idx |-> 0, spent |-> wtx.vout[nOut].spent,
         prevMinutes |-> 0, prevDifficulty |-> 0, prevProbability |-> <<>>]]

(* getCoinDay with GetAdjustedTime() = t.                                  *)
getCoinDay(r, t) ==
    LET nWeight == t - r.nTime - MinAge
    IN  IF nWeight < 0 THEN 0
        ELSE (r.nValue * Minimum(nWeight, MaxAge)) \div (COIN * OneDay)

(* getPoSReward(minutes) with GetAdjustedTime() = t.                       *)
getPoSReward(r, t, minutes) ==
    LET nWeight == t - r.nTime + minutes * 60
    IN  IF nWeight < MinAge THEN 0
        ELSE GetProofOfStakeReward((r.nValue * nWeight) \div (COIN * OneDay))

(* Mutant of StakeWeight: the weight is clamped at nStakeMaxAge before     *)
(* nStakeMinAge is subtracted.                                             *)
StakeWeightEarlyClamp(r, t, timeOffset) ==
    LET Weight == Minimum(t - r.nTime + timeOffset, MaxAge) - MinAge
    IN  Maximum((r.nValue * Weight) \div (COIN * OneDay), 0)

(* Mutant of StakeWeight: the max(..., 0) is dropped.                     *)
StakeWeightSigned(r, t, timeOffset) ==
    LET Weight == Minimum(t - r.nTime + timeOffset, MinAge + MaxAge) - MinAge
    IN  (r.nValue * Weight) \div (COIN * OneDay)

(* The coin age getProbToMintStake divides by 2^32 * difficulty.  C++     *)
(* truncates a negative quotient towards zero and \div floors it; the     *)
(* max(..., 0) makes both 0.                                              *)
StakeWeight(r, t, timeOffset) ==
    LET Weight == Minimum(t - r.nTime + timeOffset, MinAge + MaxAge) - MinAge
    IN  Maximum((r.nValue * Weight) \div (COIN * OneDay), 0)

(* The probability getProbToMintWithinNMinutes computes at time t: one    *)
(* factor pow(1 - p_i, nOneDay) per full day i, then pow(1 - p_d, 60 * m). *)
ProbOf(r, difficulty, minutes, t) ==
    LET d == minutes \div (60 * 24)
        m == minutes % (60 * 24)
        E(i) == IF i < d THEN OneDay ELSE 60 * m
        W(i) == StakeWeight(r, t, i * OneDay)
        f == [i \in 0..d |-> IF E(i) = 0 \/ W(i) = 0 THEN <<0, 0>> ELSE <<W(i), E(i)>>]
    IN  IF \A i \in 0..d : f[i] = <<0, 0>> THEN <<>> ELSE <<difficulty, f>>

VARIABLES
    now,       \* GetAdjustedTime()
    recs,      \* the records decomposeOutput returned, with their caches
    answer,    \* what the last getProbToMintWithinNMinutes call returned
    asked,     \* its arguments: record, difficulty, minutes, time
    cachedAt   \* history: when each record's prevProbability was computed

vars == <<now, recs, answer, asked, cachedAt>>

Init ==
    /\ \E wtx \in Txs : recs = decomposeOutput(wtx) /\ now \in {wtx.time + s : s \in Starts}
    /\ answer = <<>>
    /\ asked = [rec |-> 0, difficulty |-> 0, minutes |-> 0, at |-> 0]
    /\ cachedAt = [k \in DOMAIN recs |-> 0]

(* The clock moves forward.                                                *)
Tick ==
    /\ \E s \in Steps : now + s <= Horizon /\ now' = now + s
    /\ UNCHANGED <<recs, answer, asked, cachedAt>>

(* Mutant of getProbToMintWithinNMinutes: the memo is keyed on the        *)
(* difficulty alone.                                                       *)
getProbToMintWithinNMinutesDifficultyKey(k, difficulty, minutes) ==
    LET r == recs[k]
    IN  /\ IF difficulty # r.prevDifficulty
           THEN /\ recs' = [recs EXCEPT ![k].prevProbability = ProbOf(r, difficulty, minutes, now),
                                        ![k].prevDifficulty = difficulty,
                                        ![k].prevMinutes = minutes]
                /\ cachedAt' = [cachedAt EXCEPT ![k] = now]
           ELSE UNCHANGED <<recs, cachedAt>>
        /\ answer' = recs'[k].prevProbability
        /\ asked' = [rec |-> k, difficulty |-> difficulty, minutes |-> minutes, at |-> now]
        /\ UNCHANGED now

(* getProbToMintWithinNMinutes(difficulty, minutes) on record k: recompute *)
(* and memoise unless (difficulty, minutes) is the memoised pair.          *)
getProbToMintWithinNMinutes(k, difficulty, minutes) ==
    LET r == recs[k]
    IN  /\ IF difficulty # r.prevDifficulty \/ minutes # r.prevMinutes
           THEN /\ recs' = [recs EXCEPT ![k].prevProbability = ProbOf(r, difficulty, minutes, now),
                                        ![k].prevDifficulty = difficulty,
                                        ![k].prevMinutes = minutes]
                /\ cachedAt' = [cachedAt EXCEPT ![k] = now]
           ELSE UNCHANGED <<recs, cachedAt>>
        /\ answer' = recs'[k].prevProbability
        /\ asked' = [rec |-> k, difficulty |-> difficulty, minutes |-> minutes, at |-> now]
        /\ UNCHANGED now

Next ==
    \/ Tick
    \/ \E k \in DOMAIN recs, d \in Difficulties, m \in Minutes :
          getProbToMintWithinNMinutes(k, d, m)

Spec == Init /\ [][Next]_vars

-----------------------------------------------------------------------------
IsProb(p) ==
    \/ p = <<>>
    \/ /\ p[1] \in Difficulties
       /\ \E m \in Minutes : DOMAIN p[2] = 0..(m \div (60 * 24))
       /\ \A i \in DOMAIN p[2] : p[2][i] \in Nat \X Nat

TypeOK ==
    /\ now \in Nat
    /\ \A k \in DOMAIN recs :
          /\ recs[k].nTime \in Nat /\ recs[k].nValue \in Nat
          /\ recs[k].prevMinutes \in Minutes \cup {0}
          /\ recs[k].prevDifficulty \in Difficulties \cup {0}
          /\ IsProb(recs[k].prevProbability)
    /\ IsProb(answer)
    /\ cachedAt \in [DOMAIN recs -> Nat]

(* The per-slot coin age of getProbToMintStake at offset i days is the     *)
(* coin age getCoinDay reports i days later: the two helpers clamp the     *)
(* weight in different ways (min(age + off, min + max) - min against      *)
(* min(age - min, max) after a test for a negative weight) and must agree *)
(* for every age, so that the probability shown belongs to the coin age   *)
(* shown beside it.                                                       *)
ProbWeightIsCoinDay ==
    \A k \in DOMAIN recs, i \in 0..(Horizon \div OneDay) :
        StakeWeight(recs[k], now, i * OneDay) = getCoinDay(recs[k], now + i * OneDay)

(* The memoised answer is for the arguments asked: what a call of         *)
(* getProbToMintWithinNMinutes returns was computed, at or before the    *)
(* call, for the same record, difficulty and minutes.                     *)
AnswerForAskedArgs ==
    asked.rec # 0 =>
        /\ cachedAt[asked.rec] <= asked.at
        /\ answer = ProbOf(recs[asked.rec], asked.difficulty, asked.minutes, cachedAt[asked.rec])

(* The memoised answer is current (spec 4.4 memoises on (difficulty,      *)
(* minutes) only): what a call returns is the probability at the time of  *)
(* the call.                                                               *)
AnswerIsCurrent ==
    asked.rec # 0 => answer = ProbOf(recs[asked.rec], asked.difficulty, asked.minutes, asked.at)
=============================================================================
