-------------------------- MODULE AccountingProofs --------------------------
(***************************************************************************)
(* Order positions are never reused and moves stay balanced, for every    *)
(* set of accounts and amounts and every bound.                           *)
(***************************************************************************)
EXTENDS Accounting, TLAPS

(* Everything the database holds lies below its counter, and the         *)
(* in-memory counter is never behind the database's.                      *)
Below ==
    /\ posNext \in Nat /\ dbPosNext \in Nat /\ dbPosNext <= posNext
    /\ \A e \in entries : e.pos \in Nat /\ e.pos < dbPosNext
    /\ txPos \in Seq(Nat)
    /\ \A i \in DOMAIN txPos : txPos[i] < dbPosNext

IInv == TypeOK /\ Below /\ OrderPosUnique /\ MovesBalanced

LEMMA InitIInv == Init => IInv
  BY AccountingAssumption DEF Init, IInv, TypeOK, Below, OrderPosUnique, MovesBalanced

LEMMA MoveIInv ==
    ASSUME IInv, NEW from \in Accounts, NEW to \in Accounts, NEW amt \in Amounts,
           NEW committed \in BOOLEAN, movecmd(from, to, amt, committed)
    PROVE  IInv'
<1> DEFINE d == Debit(posNext, from, to, amt)
           c == Credit(posNext, from, to, amt)
<1>1. amt \in Nat /\ amt >= MinInput /\ MinInput \in Nat \ {0} /\ MaxPos \in Nat
      /\ posNext + 2 <= MaxPos
  BY AccountingAssumption DEF movecmd
<1>2. CASE committed
  <2>1. entries' = entries \cup {d, c} /\ dbPosNext' = posNext + 2
        /\ posNext' = posNext + 2 /\ txPos' = txPos
    BY <1>2 DEF movecmd
  <2> DEFINE R == [pos : 0..MaxPos, account : Accounts,
                   amount : {a \in Int : a >= MinInput \/ -a >= MinInput},
                   other : Accounts]
  <2>a. posNext \in Nat
    BY DEF IInv, Below
  <2>b. d \in R
    BY <1>1, <2>a DEF Debit
  <2>c. c \in R
    BY <1>1, <2>a DEF Credit
  <2>2. TypeOK'
    BY <1>1, <2>1, <2>a, <2>b, <2>c DEF IInv, TypeOK
  <2>3. Below'
    BY <1>1, <2>1 DEF IInv, Below, Debit, Credit
  <2>4. OrderPosUnique'
    <3>1. \A e \in entries : e.pos < posNext
      BY DEF IInv, Below
    <3>. QED
      BY <3>1, <2>1, <1>1 DEF IInv, Below, OrderPosUnique, Debit, Credit
  <2>5. MovesBalanced'
    <3>1. Credit(d.pos, d.account, d.other, -d.amount) = c /\ d.amount < 0
      BY <1>1, <2>a DEF Debit, Credit
    <3>2. Debit(c.pos - 1, c.other, c.account, c.amount) = d /\ c.amount > 0
      BY <1>1, <2>a DEF Debit, Credit
    <3>. QED
      BY <3>1, <3>2, <2>1 DEF IInv, MovesBalanced
  <2>. QED
    BY <2>2, <2>3, <2>4, <2>5 DEF IInv
<1>3. CASE ~committed
  <2>1. UNCHANGED <<entries, dbPosNext, txPos>> /\ posNext' = posNext + 2
    BY <1>3 DEF movecmd
  <2>. QED
    BY <1>1, <2>1 DEF IInv, TypeOK, Below, OrderPosUnique, MovesBalanced, movecmd
<1>. QED
  BY <1>2, <1>3

LEMMA AddIInv == IInv /\ AddToWallet => IInv'
<1> SUFFICES ASSUME IInv, AddToWallet PROVE IInv'
  OBVIOUS
<1>1. MaxPos \in Nat
  BY AccountingAssumption
<1>2. txPos' = Append(txPos, posNext) /\ posNext' = posNext + 1
      /\ dbPosNext' = posNext + 1 /\ entries' = entries
  BY DEF AddToWallet
<1>3. DOMAIN txPos' = 1..(Len(txPos) + 1) /\ txPos'[Len(txPos) + 1] = posNext
      /\ \A i \in 1..Len(txPos) : txPos'[i] = txPos[i]
  BY <1>2 DEF IInv, Below
<1>4. TypeOK'
  BY <1>1, <1>2 DEF IInv, TypeOK, AddToWallet
<1>5. Below'
  BY <1>2, <1>3 DEF IInv, Below
<1>6. OrderPosUnique'
  BY <1>2, <1>3 DEF IInv, Below, OrderPosUnique
<1>7. MovesBalanced'
  BY <1>2 DEF IInv, MovesBalanced
<1>. QED
  BY <1>4, <1>5, <1>6, <1>7 DEF IInv

LEMMA RestartIInv == IInv /\ Restart => IInv'
  BY DEF IInv, Restart, TypeOK, Below, OrderPosUnique, MovesBalanced

LEMMA NextIInv == IInv /\ [Next]_vars => IInv'
<1> SUFFICES ASSUME IInv, [Next]_vars PROVE IInv'
  OBVIOUS
<1>1. CASE \E from, to \in Accounts, amt \in Amounts, committed \in BOOLEAN :
              movecmd(from, to, amt, committed)
  BY <1>1, MoveIInv
<1>2. CASE AddToWallet
  BY <1>2, AddIInv
<1>3. CASE Restart
  BY <1>3, RestartIInv
<1>4. CASE UNCHANGED vars
  BY <1>4 DEF vars, IInv, TypeOK, Below, OrderPosUnique, MovesBalanced
<1>. QED
  BY <1>1, <1>2, <1>3, <1>4 DEF Next

(* No order position is ever given to two accounting entries, or to an   *)
(* entry and a wallet transaction, whichever movecmd commits fail and     *)
(* whenever the wallet restarts.                                          *)
THEOREM OrderPosUniqueInvariant == Spec => []OrderPosUnique
<1>1. IInv => OrderPosUnique
  BY DEF IInv
<1>. QED
  BY <1>1, InitIInv, NextIInv, PTL DEF Spec

(* Every committed debit of movecmd has its credit, and every credit its *)
(* debit, in every reachable state.                                       *)
THEOREM MovesBalancedInvariant == Spec => []MovesBalanced
<1>1. IInv => MovesBalanced
  BY DEF IInv
<1>. QED
  BY <1>1, InitIInv, NextIInv, PTL DEF Spec

(* The accounting state keeps its type in every reachable state: every    *)
(* entry movecmd commits has a position below the bound, accounts of the   *)
(* wallet and an amount of at least the minimum input in magnitude, and   *)
(* the in-memory and stored nOrderPosNext stay in range, across failed    *)
(* commits and restarts.                                                   *)
THEOREM TypeCorrect == Spec => []TypeOK
<1>1. IInv => TypeOK
  BY DEF IInv
<1>. QED
  BY <1>1, InitIInv, NextIInv, PTL DEF Spec
=============================================================================
