------------------------- MODULE KernelRecordProofs -------------------------
(***************************************************************************)
(* Proofs about the kernel record helpers: getProbToMintStake and        *)
(* getCoinDay compute the same coin age, for every value of the network   *)
(* parameters, and so in every reachable state; the probability memo      *)
(* answers for the arguments asked; and the model is type correct.        *)
(***************************************************************************)
EXTENDS KernelRecord, SequenceTheorems, TLAPS

(* Sign facts of integer products and quotients.                           *)
LEMMA MulNonPos ==
    ASSUME NEW a \in Nat, NEW b \in Int, b <= 0
    PROVE  a * b \in Int /\ a * b <= 0
  BY SMT

LEMMA DivSign ==
    ASSUME NEW y \in Int, NEW K \in Nat \ {0}
    PROVE  /\ y <= 0 => y \div K <= 0
           /\ y \in Nat => y \div K \in Nat
  BY SMT

(* The per-slot coin age of getProbToMintStake at offset off equals the   *)
(* coin age getCoinDay reports off seconds later, for every record of a    *)
(* non-negative value and every time and offset.                          *)
LEMMA StakeWeightCoinDay ==
    ASSUME NEW r, r.nValue \in Nat, r.nTime \in Int, NEW t \in Int, NEW off \in Int
    PROVE  StakeWeight(r, t, off) = getCoinDay(r, t + off)
<1> DEFINE v == r.nValue
           x == t + off - r.nTime - MinAge
           w == Minimum(x, MaxAge)
           K == COIN * OneDay
<1>1. K \in Nat \ {0} /\ MinAge \in Nat /\ MaxAge \in Nat
  BY AgeAssumption
<1>2. x \in Int /\ w \in Int
  BY <1>1 DEF Minimum
<1>3. Minimum(t - r.nTime + off, MinAge + MaxAge) - MinAge = w
  BY <1>1 DEF Minimum
<1>4. StakeWeight(r, t, off) = Maximum((v * w) \div K, 0)
  BY <1>3 DEF StakeWeight
<1>5. CASE x < 0
  <2>1. w <= 0
    BY <1>5, <1>1, <1>2 DEF Minimum
  <2>2. v * w \in Int /\ v * w <= 0
    BY <2>1, <1>2, MulNonPos
  <2>3. (v * w) \div K \in Int /\ (v * w) \div K <= 0
    BY <2>2, <1>1, DivSign
  <2>4. getCoinDay(r, t + off) = 0
    BY <1>5, <1>1 DEF getCoinDay
  <2>. QED
    BY <2>3, <2>4, <1>4 DEF Maximum
<1>6. CASE ~(x < 0)
  <2>1. w \in Nat
    BY <1>6, <1>1, <1>2 DEF Minimum
  <2>2. (v * w) \div K \in Nat
    BY <2>1, <1>1, DivSign
  <2>3. getCoinDay(r, t + off) = (v * w) \div K
    BY <1>6, <1>1 DEF getCoinDay
  <2>. QED
    BY <2>2, <2>3, <1>4 DEF Maximum
<1>. QED
  BY <1>5, <1>6

(* The record fields the coin-age helpers read: whatever the memo does,   *)
(* the clock is an integer and each record keeps a value in Nat and a     *)
(* time in Nat.                                                           *)
Fields == {"hash", "nTime", "nValue", "idx", "spent",
           "prevMinutes", "prevDifficulty", "prevProbability"}

ValuesTyped ==
    /\ now \in Nat
    /\ \A k \in DOMAIN recs :
          /\ DOMAIN recs[k] = Fields
          /\ recs[k].nValue \in Nat
          /\ recs[k].nTime \in Nat

LEMMA InitValuesTyped == Init => ValuesTyped
<1> SUFFICES ASSUME Init PROVE ValuesTyped
  OBVIOUS
<1>1. PICK wtx \in Txs : recs = decomposeOutput(wtx) /\ now \in {wtx.time + s : s \in Starts}
  BY DEF Init
<1>2. wtx.time \in Nat /\ wtx.vout \in Seq([mine : BOOLEAN, value : Nat, spent : BOOLEAN])
  BY TxsAssumption
<1>3. now \in Nat
  BY <1>1, <1>2, ArgsAssumption
<1>4. ASSUME NEW k \in DOMAIN recs
      PROVE  DOMAIN recs[k] = Fields /\ recs[k].nValue \in Nat /\ recs[k].nTime \in Nat
  <2>1. k \in DOMAIN wtx.vout
    BY <1>1 DEF decomposeOutput
  <2> DEFINE Out == [mine : BOOLEAN, value : Nat, spent : BOOLEAN]
  <2>0. wtx.vout \in Seq(Out) /\ k \in 1..Len(wtx.vout)
    <3>1. wtx.vout \in Seq(Out)
      BY <1>2
    <3>. QED
      BY <3>1, <2>1, LenProperties
  <2>2. wtx.vout[k] \in Out
    <3>1. wtx.vout \in [1..Len(wtx.vout) -> Out]
      BY <2>0, LenProperties, Zenon
    <3>. QED
      BY <3>1, <2>0, Zenon
  <2>3. wtx.vout[k].value \in Nat
    BY <2>2, Zenon
  <2>. QED
    BY <1>1, <1>2, <2>3 DEF decomposeOutput, Fields
<1>. QED
  BY <1>3, <1>4 DEF ValuesTyped

LEMMA NextValuesTyped == ValuesTyped /\ [Next]_vars => ValuesTyped'
<1> SUFFICES ASSUME ValuesTyped, [Next]_vars PROVE ValuesTyped'
  OBVIOUS
<1>1. CASE Tick
  BY <1>1, ArgsAssumption DEF Tick, ValuesTyped
<1>2. ASSUME NEW k \in DOMAIN recs, NEW d \in Difficulties, NEW m \in Minutes,
             getProbToMintWithinNMinutes(k, d, m)
      PROVE  ValuesTyped'
  <2>1. CASE d # recs[k].prevDifficulty \/ m # recs[k].prevMinutes
    <3>1. recs' = [recs EXCEPT ![k].prevProbability = ProbOf(recs[k], d, m, now),
                               ![k].prevDifficulty = d,
                               ![k].prevMinutes = m]
      BY <1>2, <2>1 DEF getProbToMintWithinNMinutes
    <3>. QED
      BY <3>1, <1>2 DEF getProbToMintWithinNMinutes, ValuesTyped, Fields
  <2>2. CASE ~(d # recs[k].prevDifficulty \/ m # recs[k].prevMinutes)
    BY <1>2, <2>2 DEF getProbToMintWithinNMinutes, ValuesTyped
  <2>. QED
    BY <2>1, <2>2
<1>3. CASE UNCHANGED vars
  BY <1>3 DEF vars, ValuesTyped
<1>. QED
  BY <1>1, <1>2, <1>3 DEF Next

(* In every reachable state the probability of each record is computed   *)
(* from the coin ages getCoinDay reports at the start of each day.        *)
THEOREM ProbWeightIsCoinDayInvariant == Spec => []ProbWeightIsCoinDay
<1>1. ValuesTyped => ProbWeightIsCoinDay
  <2> SUFFICES ASSUME ValuesTyped,
                      NEW k \in DOMAIN recs, NEW i \in 0..(Horizon \div OneDay)
               PROVE  StakeWeight(recs[k], now, i * OneDay) = getCoinDay(recs[k], now + i * OneDay)
    BY DEF ProbWeightIsCoinDay
  <2>1. i * OneDay \in Int
    BY AgeAssumption
  <2>. QED
    BY <2>1, StakeWeightCoinDay DEF ValuesTyped
<1>. QED
  BY <1>1, InitValuesTyped, NextValuesTyped, PTL DEF Spec
-----------------------------------------------------------------------------
(***************************************************************************)
(* The memo of getProbToMintWithinNMinutes answers for the arguments      *)
(* asked (AnswerForAskedArgs).                                            *)
(***************************************************************************)

(* ProbOf reads only the value and the time of a record, so the memo      *)
(* fields a call writes do not change what it computes.                   *)
LEMMA ProbOfMemoFree ==
    \A r1, r2, d, m, t :
        r1.nTime = r2.nTime /\ r1.nValue = r2.nValue =>
            ProbOf(r1, d, m, t) = ProbOf(r2, d, m, t)
  BY DEF ProbOf, StakeWeight

(* A record's memo, once filled, is the probability for its memoised      *)
(* arguments at the time c it was computed.                               *)
MemoOK(r, c) ==
    r.prevDifficulty # 0 =>
        r.prevProbability = ProbOf(r, r.prevDifficulty, r.prevMinutes, c)

(* The last call left its arguments in the memo of its record and         *)
(* returned that memo.                                                    *)
LastCall ==
    asked.rec # 0 =>
        /\ asked.rec \in DOMAIN recs
        /\ asked.difficulty # 0
        /\ cachedAt[asked.rec] <= asked.at
        /\ recs[asked.rec].prevDifficulty = asked.difficulty
        /\ recs[asked.rec].prevMinutes = asked.minutes
        /\ answer = recs[asked.rec].prevProbability

(* The inductive invariant: every memo was computed no later than now and *)
(* is sound, and the last answer is the memo of the last call.            *)
MemoInv ==
    /\ ValuesTyped
    /\ cachedAt \in [DOMAIN recs -> Nat]
    /\ \A k \in DOMAIN recs : cachedAt[k] <= now /\ MemoOK(recs[k], cachedAt[k])
    /\ LastCall

(* decomposeOutput builds every record with an empty memo.                *)
LEMMA InitMemoInv == Init => MemoInv
<1> SUFFICES ASSUME Init PROVE MemoInv
  OBVIOUS
<1>1. ValuesTyped
  BY InitValuesTyped
<1>2. PICK wtx \in Txs : recs = decomposeOutput(wtx)
  BY DEF Init
<1>3. \A k \in DOMAIN recs : recs[k].prevDifficulty = 0
  BY <1>2 DEF decomposeOutput
<1>4. cachedAt \in [DOMAIN recs -> Nat] /\ \A k \in DOMAIN recs : cachedAt[k] = 0
  BY DEF Init
<1>5. \A k \in DOMAIN recs : cachedAt[k] <= now /\ MemoOK(recs[k], cachedAt[k])
  BY <1>1, <1>3, <1>4 DEF ValuesTyped, MemoOK
<1>6. LastCall
  BY DEF Init, LastCall
<1>. QED
  BY <1>1, <1>4, <1>5, <1>6 DEF MemoInv

(* The clock only moves forward, so memos stay in the past.               *)
LEMMA TickMemoInv == MemoInv /\ Tick => MemoInv'
  BY ArgsAssumption DEF MemoInv, Tick, ValuesTyped, MemoOK, LastCall

(* A call that finds its arguments memoised returns the memo and changes  *)
(* no record.                                                             *)
LEMMA HitMemoInv ==
  ASSUME MemoInv, NEW k \in DOMAIN recs, NEW d \in Difficulties, NEW m \in Minutes,
         getProbToMintWithinNMinutes(k, d, m),
         d = recs[k].prevDifficulty, m = recs[k].prevMinutes
  PROVE  MemoInv'
<1>1. UNCHANGED <<recs, cachedAt, now>>
  BY DEF getProbToMintWithinNMinutes
<1>2. answer' = recs[k].prevProbability
      /\ asked' = [rec |-> k, difficulty |-> d, minutes |-> m, at |-> now]
  BY <1>1 DEF getProbToMintWithinNMinutes
<1>3. ValuesTyped'
  BY <1>1 DEF MemoInv, ValuesTyped
<1>4. d # 0
  BY ArgsAssumption
<1>5. LastCall'
  BY <1>1, <1>2, <1>4 DEF MemoInv, LastCall
<1>. QED
  BY <1>1, <1>3, <1>5 DEF MemoInv

(* A call with other arguments recomputes the memo of its record at the   *)
(* current time and returns it; the other records keep theirs.            *)
LEMMA MissMemoInv ==
  ASSUME MemoInv, NEW k \in DOMAIN recs, NEW d \in Difficulties, NEW m \in Minutes,
         getProbToMintWithinNMinutes(k, d, m),
         d # recs[k].prevDifficulty \/ m # recs[k].prevMinutes
  PROVE  MemoInv'
<1> DEFINE P == ProbOf(recs[k], d, m, now)
<1>1. /\ recs' = [recs EXCEPT ![k].prevProbability = P, ![k].prevDifficulty = d,
                               ![k].prevMinutes = m]
      /\ cachedAt' = [cachedAt EXCEPT ![k] = now]
      /\ answer' = recs'[k].prevProbability
      /\ asked' = [rec |-> k, difficulty |-> d, minutes |-> m, at |-> now]
      /\ now' = now
  BY Zenon DEF getProbToMintWithinNMinutes
<1>2. DOMAIN recs[k] = Fields
  BY DEF MemoInv, ValuesTyped
<1>3. DOMAIN recs' = DOMAIN recs /\ \A j \in DOMAIN recs \ {k} : recs'[j] = recs[j]
  BY <1>1, Zenon
<1>4. /\ recs'[k].nTime = recs[k].nTime /\ recs'[k].nValue = recs[k].nValue
      /\ recs'[k].prevProbability = P /\ recs'[k].prevDifficulty = d
      /\ recs'[k].prevMinutes = m /\ DOMAIN recs'[k] = Fields
  BY <1>1, <1>2 DEF Fields
<1>5. ProbOf(recs'[k], d, m, now) = P
  <2>1. ProbOf(recs'[k], d, m, now) = ProbOf(recs[k], d, m, now)
    BY <1>4 DEF ProbOf, StakeWeight
  <2>. QED
    BY <2>1
<1>6. MemoOK(recs'[k], now)
  BY <1>4, <1>5 DEF MemoOK
<1>7. ValuesTyped'
  <2>1. now' \in Nat
    BY <1>1 DEF MemoInv, ValuesTyped
  <2>2. ASSUME NEW j \in DOMAIN recs'
        PROVE  /\ DOMAIN recs'[j] = Fields
               /\ recs'[j].nValue \in Nat
               /\ recs'[j].nTime \in Nat
    <3>1. CASE j = k
      BY <1>4, <3>1 DEF MemoInv, ValuesTyped
    <3>2. CASE j # k
      BY <1>3, <3>2 DEF MemoInv, ValuesTyped
    <3>. QED
      BY <3>1, <3>2
  <2>. QED
    BY <2>1, <2>2 DEF ValuesTyped
<1>8. cachedAt' \in [DOMAIN recs' -> Nat]
  BY <1>1, <1>3 DEF MemoInv, ValuesTyped
<1>9. ASSUME NEW j \in DOMAIN recs'
      PROVE  cachedAt'[j] <= now' /\ MemoOK(recs'[j], cachedAt'[j])
  <2>1. CASE j = k
    BY <1>1, <1>6, <2>1 DEF MemoInv, ValuesTyped
  <2>2. CASE j # k
    BY <1>1, <1>3, <2>2 DEF MemoInv
  <2>. QED
    BY <2>1, <2>2
<1>10. LastCall'
  <2>1. d # 0
    BY ArgsAssumption
  <2>2. cachedAt'[k] = now
    BY <1>1 DEF MemoInv
  <2>3. asked'.rec = k /\ asked'.difficulty = d /\ asked'.minutes = m /\ asked'.at = now
    BY <1>1
  <2>4. k \in DOMAIN recs'
    BY <1>3
  <2>5. cachedAt'[asked'.rec] <= asked'.at
    BY <2>2, <2>3 DEF MemoInv, ValuesTyped
  <2>. QED
    BY <1>1, <1>4, <2>1, <2>3, <2>4, <2>5 DEF LastCall
<1>. QED
  BY <1>7, <1>8, <1>9, <1>10 DEF MemoInv

(* Every step keeps MemoInv.                                               *)
LEMMA NextMemoInv == MemoInv /\ [Next]_vars => MemoInv'
<1> SUFFICES ASSUME MemoInv, [Next]_vars PROVE MemoInv'
  OBVIOUS
<1>1. CASE Tick
  BY <1>1, TickMemoInv
<1>2. ASSUME NEW k \in DOMAIN recs, NEW d \in Difficulties, NEW m \in Minutes,
             getProbToMintWithinNMinutes(k, d, m)
      PROVE  MemoInv'
  <2>1. CASE d = recs[k].prevDifficulty /\ m = recs[k].prevMinutes
    BY <1>2, <2>1, HitMemoInv
  <2>2. CASE d # recs[k].prevDifficulty \/ m # recs[k].prevMinutes
    BY <1>2, <2>2, MissMemoInv
  <2>. QED
    BY <2>1, <2>2
<1>3. CASE UNCHANGED vars
  BY <1>3 DEF vars, MemoInv, ValuesTyped, MemoOK, LastCall
<1>. QED
  BY <1>1, <1>2, <1>3 DEF Next

(* What getProbToMintWithinNMinutes returns was computed, no later than   *)
(* the call, for the record, difficulty and minutes of the call, in every *)
(* reachable state and for every value of the constants.                  *)
THEOREM AnswerForAskedArgsInvariant == Spec => []AnswerForAskedArgs
<1>1. MemoInv => AnswerForAskedArgs
  <2> SUFFICES ASSUME MemoInv, asked.rec # 0
               PROVE  /\ cachedAt[asked.rec] <= asked.at
                      /\ answer = ProbOf(recs[asked.rec], asked.difficulty,
                                         asked.minutes, cachedAt[asked.rec])
    BY DEF AnswerForAskedArgs
  <2>1. asked.rec \in DOMAIN recs
    BY DEF MemoInv, LastCall
  <2>2. MemoOK(recs[asked.rec], cachedAt[asked.rec])
    BY <2>1 DEF MemoInv
  <2>. QED
    BY <2>2 DEF MemoInv, LastCall, MemoOK
<1>. QED
  BY <1>1, InitMemoInv, NextMemoInv, PTL DEF Spec
-----------------------------------------------------------------------------
(***************************************************************************)
(* Type correctness: every memo and every answer is a well-formed        *)
(* probability representation.                                            *)
(***************************************************************************)

(* The per-slot coin age is a natural number: max(..., 0) of an integer   *)
(* quotient.                                                               *)
LEMMA StakeWeightNat ==
    ASSUME NEW r, r.nValue \in Nat, r.nTime \in Nat, NEW t \in Int, NEW off \in Int
    PROVE  StakeWeight(r, t, off) \in Nat
  BY AgeAssumption DEF StakeWeight, Minimum, Maximum

(* ProbOf returns <<>> or the difficulty with one pair of naturals per    *)
(* day slot of the minutes asked.                                          *)
LEMMA ProbOfIsProb ==
    ASSUME NEW r, r.nValue \in Nat, r.nTime \in Nat, NEW diff \in Difficulties,
           NEW mins \in Minutes, NEW t \in Nat
    PROVE  IsProb(ProbOf(r, diff, mins, t))
<1> DEFINE dd == mins \div (60 * 24)
           mm == mins % (60 * 24)
           E(i) == IF i < dd THEN OneDay ELSE 60 * mm
           W(i) == StakeWeight(r, t, i * OneDay)
           f == [i \in 0..dd |-> IF E(i) = 0 \/ W(i) = 0 THEN <<0, 0>> ELSE <<W(i), E(i)>>]
<1>1. ProbOf(r, diff, mins, t) = IF \A i \in 0..dd : f[i] = <<0, 0>> THEN <<>> ELSE <<diff, f>>
  BY DEF ProbOf
<1>2. ASSUME NEW i \in 0..dd PROVE f[i] \in Nat \X Nat
  <2>1. W(i) \in Nat
    <3>1. i * OneDay \in Int
      BY AgeAssumption, ArgsAssumption
    <3>. QED
      BY <3>1, StakeWeightNat
  <2>2. E(i) \in Nat
    BY AgeAssumption, ArgsAssumption
  <2>. QED
    BY <2>1, <2>2
<1>3. IsProb(<<diff, f>>)
  <2>1. DOMAIN f = 0..(mins \div (60 * 24))
    OBVIOUS
  <2>. QED
    BY <1>2, <2>1 DEF IsProb
<1>4. IsProb(<<>>)
  BY DEF IsProb
<1>. QED
  BY <1>1, <1>3, <1>4

(* TypeOK together with the value typing is inductive.                    *)
TypeInv == ValuesTyped /\ TypeOK

LEMMA InitTypeInv == Init => TypeInv
<1> SUFFICES ASSUME Init PROVE TypeInv
  OBVIOUS
<1>1. ValuesTyped
  BY InitValuesTyped
<1>2. PICK wtx \in Txs : recs = decomposeOutput(wtx)
  BY DEF Init
<1>3. \A k \in DOMAIN recs : /\ recs[k].prevMinutes = 0 /\ recs[k].prevDifficulty = 0
                             /\ recs[k].prevProbability = <<>>
  BY <1>2 DEF decomposeOutput
<1>4. TypeOK
  BY <1>1, <1>3 DEF Init, TypeOK, ValuesTyped, IsProb
<1>. QED
  BY <1>1, <1>4 DEF TypeInv

LEMMA NextTypeInv == TypeInv /\ [Next]_vars => TypeInv'
<1> SUFFICES ASSUME TypeInv, [Next]_vars PROVE TypeInv'
  OBVIOUS
<1>0. ValuesTyped'
  BY NextValuesTyped DEF TypeInv
<1>1. CASE Tick
  BY <1>0, <1>1, ArgsAssumption DEF Tick, TypeInv, TypeOK
<1>2. ASSUME NEW k \in DOMAIN recs, NEW d \in Difficulties, NEW m \in Minutes,
             getProbToMintWithinNMinutes(k, d, m)
      PROVE  TypeInv'
  <2>1. CASE d = recs[k].prevDifficulty /\ m = recs[k].prevMinutes
    <3>1. UNCHANGED <<recs, cachedAt, now>> /\ answer' = recs[k].prevProbability
      BY <1>2, <2>1 DEF getProbToMintWithinNMinutes
    <3>. QED
      BY <1>0, <3>1 DEF TypeInv, TypeOK
  <2>2. CASE d # recs[k].prevDifficulty \/ m # recs[k].prevMinutes
    <3> DEFINE P == ProbOf(recs[k], d, m, now)
    <3>1. /\ recs' = [recs EXCEPT ![k].prevProbability = P, ![k].prevDifficulty = d,
                                   ![k].prevMinutes = m]
          /\ cachedAt' = [cachedAt EXCEPT ![k] = now]
          /\ answer' = recs'[k].prevProbability
          /\ now' = now
      BY <1>2, <2>2, Zenon DEF getProbToMintWithinNMinutes
    <3>2. DOMAIN recs[k] = Fields
      BY DEF TypeInv, ValuesTyped
    <3>3. DOMAIN recs' = DOMAIN recs /\ \A j \in DOMAIN recs \ {k} : recs'[j] = recs[j]
      BY <3>1, Zenon
    <3>4. /\ recs'[k].nTime = recs[k].nTime /\ recs'[k].nValue = recs[k].nValue
          /\ recs'[k].prevProbability = P /\ recs'[k].prevDifficulty = d
          /\ recs'[k].prevMinutes = m
      BY <3>1, <3>2 DEF Fields
    <3>5. IsProb(P)
      BY ProbOfIsProb DEF TypeInv, ValuesTyped
    <3>6. \A j \in DOMAIN recs' :
              /\ recs'[j].nTime \in Nat /\ recs'[j].nValue \in Nat
              /\ recs'[j].prevMinutes \in Minutes \cup {0}
              /\ recs'[j].prevDifficulty \in Difficulties \cup {0}
              /\ IsProb(recs'[j].prevProbability)
      BY <3>3, <3>4, <3>5 DEF TypeInv, TypeOK
    <3>7. cachedAt' \in [DOMAIN recs' -> Nat]
      BY <3>1, <3>3 DEF TypeInv, TypeOK
    <3>8. IsProb(answer')
      BY <3>1, <3>4, <3>5
    <3>. QED
      BY <1>0, <3>1, <3>6, <3>7, <3>8 DEF TypeInv, TypeOK
  <2>. QED
    BY <2>1, <2>2
<1>3. CASE UNCHANGED vars
  BY <1>3 DEF vars, TypeInv, TypeOK, ValuesTyped, IsProb
<1>. QED
  BY <1>1, <1>2, <1>3 DEF Next

(* Type correctness of the kernel-record model for every value of the    *)
(* constants: every memo, and every answer of getProbToMintWithinNMinutes, *)
(* is <<>> or a difficulty with one pair of naturals per day slot.        *)
THEOREM TypeCorrect == Spec => []TypeOK
<1>1. TypeInv => TypeOK
  BY DEF TypeInv
<1>. QED
  BY <1>1, InitTypeInv, NextTypeInv, PTL DEF Spec
=============================================================================
