----------------------- MODULE ListTransactionsProofs -----------------------
(***************************************************************************)
(* Proofs about listtransactions paging: for every stream of items, every  *)
(* int width and all counts and froms whose sum is an int, the handler     *)
(* returns exactly the reference page.                                     *)
(*                                                                         *)
(* The reverse walk is followed by the invariant that ret, followed by the *)
(* rows of the items still to visit, is the whole newest-first row stream. *)
(* On leaving the loop, either every item was visited or ret already holds *)
(* nCount + nFrom rows; in both cases the clamped erase leaves the page.   *)
(***************************************************************************)
EXTENDS ListTransactions, SequenceTheorems, NaturalsInduction, WellFoundedInduction, TLAPS

(* INT_MAX for the build's int.                                            *)
IntMax == 2^(IntWidth - 1) - 1

(* What the theorem asks of the arguments: count + from is an int (the     *)
(* list_transactions_overflow run shows what happens otherwise), and the   *)
(* account has no more rows than (int)ret.size() can count.                *)
NoOverflow ==
    /\ \A c \in Counts \cup {10}, f \in Froms \cup {0} :
          c >= 0 /\ f >= 0 => c + f <= IntMax
    /\ \A s \in Streams : Len(NewestFirst(s)) <= IntMax

Rows == Seq(Nat \X Nat)

(* The type of every variable, the sign checks, and the walk's bounds.     *)
TInv ==
    /\ stream \in Streams /\ nParams \in NParams
    /\ args \in (Counts \cup {10}) \X (Froms \cup {0})
    /\ nCount \in Int /\ nFrom \in Int
    /\ pc \in {"args", "loop", "trim", "done", "error", "ub"}
    /\ it \in 0..Len(stream)
    /\ ret \in Rows
    /\ pc \in {"loop", "trim"} => nCount >= 0 /\ nFrom >= 0

(* What the walk has built: ret followed by the rows of items 1..it is the *)
(* whole newest-first stream; the loop is left with every item visited or  *)
(* nCount + nFrom rows; and the result is the reference page.             *)
PInv ==
    /\ pc # "ub"
    /\ pc \in {"args", "loop", "trim"} => nCount = args[1] /\ nFrom = args[2]
    /\ pc = "args" => ret = <<>>
    /\ pc \in {"loop", "trim"} => ret \o RowsDown(stream)[it] = NewestFirst(stream)
    /\ pc = "trim" => it = 0 \/ Len(ret) >= nCount + nFrom
    /\ pc = "done" => ret = Page(stream, args[1], args[2])

IInv == TInv /\ PInv

-----------------------------------------------------------------------------
(* int addition is exact when the sum is an int.                           *)
LEMMA IntAddExact ==
    ASSUME NEW a \in Int, NEW b \in Int, 0 <= a + b, a + b <= IntMax
    PROVE  IntAdd(a, b) = a + b
<1> DEFINE h == 2^(IntWidth - 1)
<1>1. h \in Int
  BY IntAssumption
<1>2. h >= 1 /\ a + b + h \in 0..(2 * h - 1)
  BY <1>1 DEF IntMax
<1>3. (a + b + h) % (2 * h) = a + b + h
  BY <1>1, <1>2
<1>4. IntAdd(a, b) = ((a + b + h) % (2 * h)) - h
  BY Zenon DEF IntAdd
<1>. QED
  BY <1>1, <1>3, <1>4

(* INT_MAX is an integer.                                                  *)
LEMMA IntMaxInt == IntMax \in Int
  BY IntAssumption DEF IntMax

(* The rows of one item are a sequence of row identifiers, one per row.    *)
LEMMA RowsOfType ==
    ASSUME NEW s \in Seq(Nat), NEW k \in 1..Len(s)
    PROVE  RowsOf(s, k) \in Rows /\ Len(RowsOf(s, k)) = s[k]
<1>1. s[k] \in Nat
  OBVIOUS
<1>2. \A j \in 1..s[k] : <<k, j>> \in Nat \X Nat
  OBVIOUS
<1>. QED
  BY <1>1, <1>2 DEF RowsOf, Rows

(* The recursive function RowsDown unfolds to its defining equation.       *)
LEMMA RowsDownDef ==
    ASSUME NEW s
    PROVE  \A k \in Nat : RowsDown(s)[k] = IF k = 0 THEN <<>> ELSE RowsOf(s, k) \o RowsDown(s)[k - 1]
<1> DEFINE Def(v, k) == RowsOf(s, k) \o v
           f == RowsDown(s)
<1>1. NatInductiveDefHypothesis(f, <<>>, Def)
  BY DEF NatInductiveDefHypothesis, RowsDown
<1>2. NatInductiveDefConclusion(f, <<>>, Def)
  <2> HIDE DEF Def, f
  <2>. QED
    BY <1>1, NatInductiveDef
<1>. QED
  BY <1>2 DEF NatInductiveDefConclusion

(* Every RowsDown(s)[k] is a sequence of row identifiers.                  *)
LEMMA RowsDownType ==
    ASSUME NEW s \in Seq(Nat)
    PROVE  \A k \in 0..Len(s) : RowsDown(s)[k] \in Rows
<1> DEFINE f == RowsDown(s)
<1>1. \A k \in Nat : f[k] = IF k = 0 THEN <<>> ELSE RowsOf(s, k) \o f[k - 1]
  BY RowsDownDef
<1> HIDE DEF f
<1> DEFINE T == {k \in 0..Len(s) : f[k] \notin Rows}
<1>2. SUFFICES ASSUME T # {} PROVE FALSE
  BY DEF f
<1>3. T \subseteq Nat
  OBVIOUS
<1>4. PICK x \in T : \A y \in T : ~(<<y, x>> \in OpToRel(<, Nat))
  BY <1>2, <1>3, NatLessThanWellFounded, WFMin, Zenon
<1>5. \A y \in T : ~(y < x)
  BY <1>3, <1>4, Zenon DEF OpToRel
<1>6. f[0] \in Rows
  <2>1. f[0] = <<>>
    BY <1>1
  <2>. QED
    BY <2>1, EmptySeq DEF Rows
<1>7. x \in 1..Len(s)
  BY <1>6
<1>8. f[x - 1] \in Rows
  BY <1>5, <1>7
<1>9. RowsOf(s, x) \in Rows
  BY <1>7, RowsOfType
<1>10. f[x] = RowsOf(s, x) \o f[x - 1]
  <2>1. x \in Nat /\ x # 0
    BY <1>7
  <2>. QED
    BY <1>1, <2>1, Zenon
<1>11. f[x] \in Rows
  BY <1>8, <1>9, <1>10, ConcatProperties DEF Rows
<1>. QED
  BY <1>7, <1>11

(* The arguments are ints.                                                 *)
LEMMA ArgsInt == Counts \cup Froms \subseteq Int /\ Streams \subseteq Seq(Nat)
  BY ArgsAssumption

(* std::reverse keeps a sequence of row identifiers one.                   *)
LEMMA ReverseType ==
    ASSUME NEW r \in Rows
    PROVE  Reverse(r) \in Rows
<1>1. Len(r) \in Nat /\ \A i \in 1..Len(r) : r[i] \in Nat \X Nat
  BY LenProperties, ElementOfSeq DEF Rows
<1>2. \A i \in 1..Len(r) : r[Len(r) - i + 1] \in Nat \X Nat
  BY <1>1
<1>. QED
  BY <1>1, <1>2, IsASeq DEF Reverse, Rows

(* The clamps of the trim: what the erase keeps, and that it stays in ret. *)
LEMMA TrimClamp ==
    ASSUME NEW L \in Nat, NEW c \in Nat, NEW f \in Nat
    PROVE  LET from  == IF f > L THEN L ELSE f
               count == IF IntAdd(from, c) > L THEN L - from ELSE c
               last  == IntAdd(from, count)
           IN  c + f <= IntMax /\ L <= IntMax =>
                 /\ from \in 0..L /\ count \in Nat
                 /\ last = from + count /\ last \in from..L
                 /\ IntAdd(from, c) = from + c
<1> DEFINE from  == IF f > L THEN L ELSE f
<1> SUFFICES ASSUME c + f <= IntMax, L <= IntMax
             PROVE  /\ from \in 0..L
                    /\ IntAdd(from, c) = from + c
                    /\ LET count == IF IntAdd(from, c) > L THEN L - from ELSE c
                       IN  /\ count \in Nat
                           /\ IntAdd(from, count) = from + count
                           /\ IntAdd(from, count) \in from..L
  OBVIOUS
<1>1. from \in 0..L /\ from <= f
  OBVIOUS
<1>0. IntMax \in Int
  BY IntMaxInt
<1>2. IntAdd(from, c) = from + c
  <2>1. 0 <= from + c /\ from + c <= IntMax
    BY <1>0, <1>1
  <2>. QED
    BY <2>1, IntAddExact
<1> DEFINE count == IF from + c > L THEN L - from ELSE c
<1>3. count \in Nat /\ from + count \in from..L
  BY <1>1, <1>2
<1>4. IntAdd(from, count) = from + count
  <2>1. 0 <= from + count /\ from + count <= IntMax
    BY <1>0, <1>1, <1>3
  <2>2. count \in Int /\ from \in Int
    BY <1>1, <1>3
  <2> HIDE DEF count, from
  <2>. QED
    BY <2>1, <2>2, IntAddExact
<1>. QED
  BY <1>1, <1>2, <1>3, <1>4

-----------------------------------------------------------------------------
(* The initial state satisfies TInv.                                       *)
LEMMA InitTInv == Init => TInv
<1> SUFFICES ASSUME Init PROVE TInv
  OBVIOUS
<1>1. stream \in Seq(Nat)
  BY ArgsInt DEF Init
<1>2. nCount \in Counts \cup {10} /\ nFrom \in Froms \cup {0}
  BY DEF Init
<1>3. nCount \in Int /\ nFrom \in Int
  BY <1>2, ArgsInt
<1>4. <<>> \in Rows /\ Len(stream) \in Nat
  BY <1>1, EmptySeq, LenProperties DEF Rows
<1>. QED
  BY <1>2, <1>3, <1>4 DEF Init, TInv

(* The argument checks keep TInv.                                          *)
LEMMA CheckArgsTInv ==
    ASSUME TInv, CheckArgs
    PROVE  TInv'
<1>1. Len(stream) \in Nat
  BY ArgsInt, LenProperties DEF TInv
<1>. QED
  BY <1>1 DEF CheckArgs, TInv

(* A pass of the reverse loop keeps TInv.                                  *)
LEMMA IterateTInv ==
    ASSUME TInv, Iterate
    PROVE  TInv'
<1>1. stream \in Seq(Nat) /\ Len(stream) \in Nat
  BY ArgsInt, LenProperties DEF TInv
<1>2. CASE it = 0
  BY <1>2 DEF Iterate, TInv
<1>3. CASE it # 0
  <2>1. it \in 1..Len(stream)
    BY <1>3 DEF TInv
  <2>2. RowsOf(stream, it) \in Rows
    BY <1>1, <2>1, RowsOfType
  <2>3. ret \o RowsOf(stream, it) \in Rows
    BY <2>2, ConcatProperties DEF TInv, Rows
  <2>4. ret' = ret \o RowsOf(stream, it) /\ it' = it - 1
        /\ pc = "loop" /\ pc' \in {"trim", "loop"}
        /\ UNCHANGED <<stream, nParams, nCount, nFrom, args>>
    BY <1>3 DEF Iterate
  <2>. QED
    BY <2>1, <2>3, <2>4 DEF TInv
<1>. QED
  BY <1>2, <1>3

(* The trim keeps TInv: the part of ret it keeps lies inside ret.          *)
LEMMA TrimTInv ==
    ASSUME TInv, Trim
    PROVE  TInv'
<1> DEFINE L == Len(ret)
           from  == IF nFrom > L THEN L ELSE nFrom
           count == IF IntAdd(from, nCount) > L THEN L - from ELSE nCount
           last  == IntAdd(from, count)
<1>1. L \in Nat /\ nCount \in Nat /\ nFrom \in Nat
  BY LenProperties DEF Trim, TInv, Rows
<1>2. from \in 0..L /\ count \in Int
  BY <1>1
<1>3. CASE last \in from..L
  <2>1. /\ ret' = Reverse(SubSeq(ret, from + 1, last))
        /\ pc' = "done" /\ nFrom' = from /\ nCount' = count
        /\ UNCHANGED <<stream, nParams, it, args>>
    BY <1>3 DEF Trim
  <2>2. \A i \in (from + 1)..last : ret[i] \in Nat \X Nat
    BY <1>1, <1>2, <1>3, ElementOfSeq DEF TInv, Rows
  <2>3. SubSeq(ret, from + 1, last) \in Rows
    BY <1>2, <1>3, <2>2, SubSeqProperties DEF Rows
  <2>4. ret' \in Rows
    BY <2>1, <2>3, ReverseType
  <2>. QED
    BY <1>2, <2>1, <2>4 DEF TInv
<1>4. CASE ~(last \in from..L)
  <2>1. pc' = "ub" /\ UNCHANGED <<ret, nFrom, nCount, stream, nParams, it, args>>
    BY <1>4 DEF Trim
  <2>. QED
    BY <2>1 DEF TInv
<1>. QED
  BY <1>3, <1>4

(* Every step keeps TInv.                                                  *)
LEMMA NextTInv == TInv /\ [Next]_vars => TInv'
<1> SUFFICES ASSUME TInv, [Next]_vars PROVE TInv'
  OBVIOUS
<1>1. CASE CheckArgs
  BY <1>1, CheckArgsTInv
<1>2. CASE Iterate
  BY <1>2, IterateTInv
<1>3. CASE Trim
  BY <1>3, TrimTInv
<1>4. CASE UNCHANGED vars
  BY <1>4 DEF vars, TInv
<1>. QED
  BY <1>1, <1>2, <1>3, <1>4 DEF Next

(* listtransactions keeps every variable in its type for every int width   *)
(* and all arguments, overflowing ones included: the walk stays inside the *)
(* item list and the rows it keeps are rows of ret.                        *)
THEOREM TypeCorrect == Spec => []TypeOK
<1>1. TInv => TypeOK
  BY DEF TInv, TypeOK, Rows
<1>. QED
  BY <1>1, InitTInv, NextTInv, PTL DEF Spec

-----------------------------------------------------------------------------
(* The initial state satisfies PInv.                                       *)
LEMMA InitPInv == Init => PInv
  BY DEF Init, PInv

(* What NoOverflow gives at a state of TInv: the arguments of the call add *)
(* up to an int, and the stream has at most INT_MAX rows.                  *)
LEMMA ArgsFit ==
    ASSUME NoOverflow, TInv, args[1] >= 0, args[2] >= 0
    PROVE  args[1] + args[2] <= IntMax /\ Len(NewestFirst(stream)) <= IntMax
<1>1. args[1] \in Counts \cup {10} /\ args[2] \in Froms \cup {0}
  BY DEF TInv
<1>. QED
  BY <1>1 DEF NoOverflow, TInv

(* The argument checks keep PInv: the walk starts with ret empty and every *)
(* item still to visit.                                                    *)
LEMMA CheckArgsPInv ==
    ASSUME TInv, PInv, CheckArgs
    PROVE  PInv'
<1>1. stream \in Seq(Nat) /\ Len(stream) \in Nat
  BY ArgsInt, LenProperties DEF TInv
<1>2. RowsDown(stream)[Len(stream)] \in Rows
  BY <1>1, RowsDownType
<1>3. <<>> \o RowsDown(stream)[Len(stream)] = NewestFirst(stream)
  BY <1>2, ConcatEmptySeq DEF Rows, NewestFirst
<1>4. pc = "args" /\ ret = <<>>
  BY DEF CheckArgs, PInv
<1>. QED
  BY <1>3, <1>4 DEF CheckArgs, PInv

(* A pass of the reverse loop keeps PInv: the rows it pushes are those of  *)
(* the newest item not yet visited, and it leaves the loop at nCount +     *)
(* nFrom rows because that sum is an int.                                  *)
LEMMA IteratePInv ==
    ASSUME NoOverflow, TInv, PInv, Iterate
    PROVE  PInv'
<1>0. pc = "loop" /\ nCount = args[1] /\ nFrom = args[2]
      /\ nCount \in Nat /\ nFrom \in Nat
  BY DEF Iterate, PInv, TInv
<1>1. stream \in Seq(Nat) /\ Len(stream) \in Nat
  BY ArgsInt, LenProperties DEF TInv
<1>2. CASE it = 0
  BY <1>0, <1>2 DEF Iterate, PInv
<1>3. CASE it # 0
  <2> DEFINE R == RowsDown(stream)
             P == RowsOf(stream, it)
  <2>1. it \in 1..Len(stream) /\ it \in Nat
    BY <1>3 DEF TInv
  <2>2. R[it] = P \o R[it - 1]
    <3>1. it # 0
      BY <2>1
    <3>. QED
      BY <2>1, <3>1, RowsDownDef, Zenon
  <2>3. P \in Rows /\ R[it - 1] \in Rows /\ ret \in Rows
    BY <1>1, <2>1, RowsOfType, RowsDownType DEF TInv
  <2>4. (ret \o P) \o R[it - 1] = NewestFirst(stream)
    <3>0. \A x, y, z \in Rows : (x \o y) \o z = x \o (y \o z)
      <4> SUFFICES ASSUME NEW x \in Rows, NEW y \in Rows, NEW z \in Rows
                   PROVE  (x \o y) \o z = x \o (y \o z)
        OBVIOUS
      <4> DEFINE S == Nat \X Nat
      <4>1. x \in Seq(S) /\ y \in Seq(S) /\ z \in Seq(S)
        BY DEF Rows
      <4> HIDE DEF S
      <4>. QED
        BY <4>1, ConcatAssociative
    <3>1. (ret \o P) \o R[it - 1] = ret \o (P \o R[it - 1])
      <4> HIDE DEF R, P
      <4>. QED
        BY <3>0, <2>3
    <3>. QED
      BY <1>0, <2>2, <3>1 DEF PInv
  <2>5. IntAdd(nCount, nFrom) = nCount + nFrom
    <3>1. nCount + nFrom <= IntMax
      BY <1>0, ArgsFit
    <3>. QED
      BY <1>0, <3>1, IntAddExact
  <2>6. /\ ret' = ret \o P /\ it' = it - 1
        /\ pc' = IF Len(ret') >= IntAdd(nCount, nFrom) THEN "trim" ELSE "loop"
        /\ UNCHANGED <<stream, nParams, nCount, nFrom, args>>
    BY <1>3 DEF Iterate
  <2>. QED
    BY <1>0, <2>4, <2>5, <2>6 DEF PInv
<1>. QED
  BY <1>2, <1>3

(* Two sequences that agree up to n have the same slices up to n.          *)
AgreeUpTo(p, q, n) == \A i \in 1..n : p[i] = q[i]

LEMMA SubSeqOfPrefix ==
    ASSUME NEW p \in Rows, NEW q \in Rows, NEW m \in Nat, NEW n \in Nat,
           n <= Len(p), n <= Len(q), AgreeUpTo(p, q, n)
    PROVE  SubSeq(p, m + 1, n) = SubSeq(q, m + 1, n)
<1> DEFINE S == Nat \X Nat
<1>1. p \in Seq(S) /\ q \in Seq(S)
  BY DEF Rows
<1>2. \A i \in (m + 1)..n : p[i] \in S /\ q[i] \in S
  BY <1>1, ElementOfSeq
<1> DEFINE A == SubSeq(p, m + 1, n)
           B == SubSeq(q, m + 1, n)
<1>3. A \in Seq(S) /\ B \in Seq(S)
  BY <1>1, <1>2
<1>4. Len(A) = Len(B)
  BY <1>1
<1>5. \A i \in 1..Len(A) : A[i] = B[i]
  <2> SUFFICES ASSUME NEW i \in 1..Len(A) PROVE A[i] = B[i]
    OBVIOUS
  <2>1. i \in 1..(n - m) /\ m + i \in 1..n
    BY <1>1
  <2>2. A[i] = p[m + i] /\ B[i] = q[m + i]
    BY <1>1, <2>1
  <2>3. p[m + i] = q[m + i]
    BY <2>1 DEF AgreeUpTo
  <2>. QED
    BY <2>2, <2>3
<1>6. A = B
  <2> HIDE DEF A, B, S
  <2>1. Len(A) = Len(B) /\ \A i \in 1..Len(A) : A[i] = B[i]
    BY <1>4, <1>5
  <2>. QED
    BY <1>3, <2>1, SeqEqual, Zenon
<1>. QED
  BY <1>6

(* The trim keeps PInv: ret is a prefix of the newest-first stream that is *)
(* either all of it or holds nCount + nFrom rows, so the clamped erase     *)
(* keeps rows nFrom + 1 .. nFrom + nCount of the stream, as far as there   *)
(* are any, and the reverse gives the reference page.                      *)
LEMMA TrimPInv ==
    ASSUME NoOverflow, TInv, PInv, Trim
    PROVE  PInv'
<1> DEFINE L == Len(ret)
           c == nCount
           f == nFrom
           all == NewestFirst(stream)
           R == RowsDown(stream)[it]
           from  == IF f > L THEN L ELSE f
           count == IF IntAdd(from, c) > L THEN L - from ELSE c
           last  == IntAdd(from, count)
           lo == IF f < Len(all) THEN f ELSE Len(all)
           hi == IF f + c < Len(all) THEN f + c ELSE Len(all)
<1>0. pc = "trim" /\ c = args[1] /\ f = args[2] /\ c \in Nat /\ f \in Nat
      /\ ret \in Rows /\ L \in Nat /\ ret \o R = all
      /\ (it = 0 \/ L >= c + f)
  BY LenProperties DEF Trim, PInv, TInv, Rows
<1>1. c + f <= IntMax /\ Len(all) <= IntMax
  BY <1>0, ArgsFit
<1>2. R \in Rows
  BY ArgsInt, RowsDownType DEF TInv
<1>3. /\ all \in Rows
      /\ Len(all) = L + Len(R) /\ Len(R) \in Nat
      /\ AgreeUpTo(ret, all, L)
  <2> DEFINE S == Nat \X Nat
  <2>1. ret \in Seq(S) /\ R \in Seq(S)
    BY <1>0, <1>2 DEF Rows
  <2> HIDE DEF S, R, all
  <2>2. /\ ret \o R \in Seq(S)
        /\ Len(ret \o R) = Len(ret) + Len(R)
        /\ \A i \in 1..(Len(ret) + Len(R)) :
              (ret \o R)[i] = IF i <= Len(ret) THEN ret[i] ELSE R[i - Len(ret)]
    BY <2>1, ConcatProperties
  <2>3. Len(R) \in Nat
    BY <2>1, LenProperties
  <2>. QED
    BY <1>0, <2>2, <2>3 DEF AgreeUpTo, Rows, S
<1>4. IntMax \in Int
  BY IntMaxInt
<1>5. /\ from \in 0..L /\ count \in Nat
      /\ last = from + count /\ last \in from..L
      /\ IntAdd(from, c) = from + c
  <2>1. L <= IntMax
    BY <1>1, <1>3, <1>4
  <2>. QED
    BY <1>0, <1>1, <2>1, TrimClamp
<1>6. from = lo /\ last = hi
  <2>1. CASE it = 0
    <3>1. R = <<>>
      BY <2>1, RowsDownDef
    <3>2. Len(all) = L
      BY <1>3, <3>1
    <3>. QED
      BY <1>0, <1>5, <3>2
  <2>2. CASE it # 0
    <3>1. L >= c + f
      BY <1>0, <2>2
    <3>2. from = f /\ count = c
      BY <1>0, <1>5, <3>1
    <3>. QED
      BY <1>0, <1>3, <1>5, <3>1, <3>2
  <2>. QED
    BY <2>1, <2>2
<1>7. SubSeq(ret, from + 1, last) = SubSeq(all, lo + 1, hi)
  <2>1. last <= Len(ret) /\ last <= Len(all) /\ from \in Nat /\ last \in Nat
    BY <1>0, <1>3, <1>5
  <2>2. AgreeUpTo(ret, all, last)
    BY <1>3, <1>5 DEF AgreeUpTo
  <2>3. SubSeq(ret, from + 1, last) = SubSeq(all, from + 1, last)
    <3> HIDE DEF from, last, all
    <3>. QED
      BY <1>0, <1>3, <2>1, <2>2, SubSeqOfPrefix
  <2>. QED
    BY <1>6, <2>3
<1>8. /\ ret' = Reverse(SubSeq(ret, from + 1, last))
      /\ pc' = "done" /\ UNCHANGED <<stream, args>>
  BY <1>5 DEF Trim
<1>9. Page(stream, args[1], args[2]) = Reverse(SubSeq(all, lo + 1, hi))
  BY <1>0 DEF Page
<1>. QED
  BY <1>7, <1>8, <1>9 DEF PInv


(* Every step keeps PInv, given that the arguments cannot overflow.        *)
LEMMA NextPInv ==
    ASSUME NoOverflow, TInv, PInv, [Next]_vars
    PROVE  PInv'
<1>1. CASE CheckArgs
  BY <1>1, CheckArgsPInv
<1>2. CASE Iterate
  BY <1>2, IteratePInv
<1>3. CASE Trim
  BY <1>3, TrimPInv
<1>4. CASE UNCHANGED vars
  BY <1>4 DEF PInv, vars, NewestFirst, Page
<1>. QED
  BY <1>1, <1>2, <1>3, <1>4 DEF Next

(* listtransactions returns exactly the reference page, newest-first rows  *)
(* nFrom + 1 .. nFrom + nCount put back in oldest-first order, and never   *)
(* reaches the undefined erase, for every stream, count and from whose     *)
(* sum fits in an int (the overflow run shows the precondition is needed). *)
THEOREM PageIsReferenceInvariant ==
    ASSUME NoOverflow
    PROVE  Spec => []PageIsReference
<1>1. Init => IInv
  BY InitTInv, InitPInv DEF IInv
<1>2. IInv /\ [Next]_vars => IInv'
  BY NextTInv, NextPInv DEF IInv
<1>3. IInv => PageIsReference
  BY DEF IInv, PInv, PageIsReference
<1>. QED
  BY <1>1, <1>2, <1>3, PTL DEF Spec

=============================================================================
