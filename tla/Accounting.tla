----------------------------- MODULE Accounting -----------------------------
(***************************************************************************)
(* move <fromaccount> <toaccount> <amount> (movecmd, rpcwallet.cpp) and   *)
(* the global order positions it draws from.                              *)
(*                                                                         *)
(* movecmd writes a debit and a credit accounting entry in one database   *)
(* transaction; each entry takes the next order position from            *)
(* pwalletMain->IncOrderPosNext(&walletdb), which bumps the in-memory     *)
(* counter and writes the new value inside the same transaction.  The    *)
(* RPC runs under the wallet lock, so the handler is one step; a failed   *)
(* TxnBegin changes nothing, a failed TxnCommit rolls back the database   *)
(* but not the in-memory counter.  Wallet transactions take positions     *)
(* too (AddToWallet, outside src/) and a restart reloads the counter from  *)
(* the database (LoadWallet, outside src/).                               *)
(***************************************************************************)
EXTENDS Integers, Sequences

CONSTANTS
    Accounts,   \* account names (never "*": AccountFromValue rejects it)
    Amounts,    \* values of params[2] after AmountFromValue
    MinInput,   \* nMinimumInputValue
    MaxPos      \* bound on order positions

ASSUME AccountingAssumption ==
    /\ Amounts \subseteq Nat /\ MinInput \in Nat \ {0} /\ MaxPos \in Nat

VARIABLES
    entries,    \* accounting entries committed to the wallet database
    txPos,      \* order positions of the wallet transactions, in order
    posNext,    \* pwalletMain->nOrderPosNext
    dbPosNext   \* the "orderposnext" record of the wallet database

vars == <<entries, txPos, posNext, dbPosNext>>

Init ==
    /\ entries = {}
    /\ txPos = <<>>
    /\ posNext = 0
    /\ dbPosNext = 0

(* The debit and credit movecmd writes when nOrderPosNext is p.            *)
Debit(p, from, to, amt) == [pos |-> p, account |-> from, amount |-> -amt, other |-> to]
Credit(p, from, to, amt) == [pos |-> p + 1, account |-> to, amount |-> amt, other |-> from]

(* Mutant of movecmd: the order position counter is not written with the *)
(* entries.                                                               *)
movecmdNoCounterWrite(from, to, amt, committed) ==
    /\ amt >= MinInput
    /\ posNext + 2 <= MaxPos
    /\ posNext' = posNext + 2
    /\ IF committed
       THEN entries' = entries \cup {Debit(posNext, from, to, amt), Credit(posNext, from, to, amt)}
       ELSE UNCHANGED entries
    /\ UNCHANGED <<txPos, dbPosNext>>

(* Mutant of movecmd: the debit is written before the transaction begins. *)
movecmdDebitOutsideTxn(from, to, amt, committed) ==
    /\ amt >= MinInput
    /\ posNext + 2 <= MaxPos
    /\ posNext' = posNext + 2
    /\ IF committed
       THEN /\ entries' = entries \cup {Debit(posNext, from, to, amt), Credit(posNext, from, to, amt)}
            /\ dbPosNext' = posNext + 2
       ELSE /\ entries' = entries \cup {Debit(posNext, from, to, amt)}
            /\ dbPosNext' = posNext + 1
    /\ UNCHANGED txPos

(* Mutant of movecmd: the nMinimumInputValue check is dropped.            *)
movecmdNoMinimum(from, to, amt, committed) ==
    /\ posNext + 2 <= MaxPos
    /\ posNext' = posNext + 2
    /\ IF committed
       THEN /\ entries' = entries \cup {Debit(posNext, from, to, amt), Credit(posNext, from, to, amt)}
            /\ dbPosNext' = posNext + 2
       ELSE UNCHANGED <<entries, dbPosNext>>
    /\ UNCHANGED txPos

(* movecmd: reject an amount below nMinimumInputValue, then debit and     *)
(* credit with two IncOrderPosNext calls in one transaction; committed   *)
(* tells whether TxnCommit succeeds.                                      *)
movecmd(from, to, amt, committed) ==
    /\ amt >= MinInput
    /\ posNext + 2 <= MaxPos
    /\ posNext' = posNext + 2
    /\ IF committed
       THEN /\ entries' = entries \cup {Debit(posNext, from, to, amt), Credit(posNext, from, to, amt)}
            /\ dbPosNext' = posNext + 2
       ELSE UNCHANGED <<entries, dbPosNext>>
    /\ UNCHANGED txPos

(* AddToWallet of a new transaction: IncOrderPosNext() without a         *)
(* transaction writes the counter at once.                                *)
AddToWallet ==
    /\ posNext + 1 <= MaxPos
    /\ txPos' = Append(txPos, posNext)
    /\ posNext' = posNext + 1
    /\ dbPosNext' = posNext + 1
    /\ UNCHANGED entries

(* A restart: LoadWallet reads nOrderPosNext from the database.          *)
Restart ==
    /\ posNext' = dbPosNext
    /\ UNCHANGED <<entries, txPos, dbPosNext>>

Next ==
    \/ \E from, to \in Accounts, amt \in Amounts, committed \in BOOLEAN :
          movecmd(from, to, amt, committed)
    \/ AddToWallet
    \/ Restart

Spec == Init /\ [][Next]_vars

-----------------------------------------------------------------------------
TypeOK ==
    /\ entries \subseteq [pos : 0..MaxPos, account : Accounts,
                          amount : {a \in Int : a >= MinInput \/ -a >= MinInput},
                          other : Accounts]
    /\ txPos \in Seq(0..MaxPos)
    /\ posNext \in 0..MaxPos /\ dbPosNext \in 0..MaxPos

(* Order positions are global and never reused (spec 3 and 6): no two     *)
(* committed accounting entries, and no entry and wallet transaction,     *)
(* share a position, across failed commits and restarts.  It rests on    *)
(* the counter being written in the same transaction as the entries.     *)
OrderPosUnique ==
    /\ \A e1, e2 \in entries : e1.pos = e2.pos => e1 = e2
    /\ \A i, j \in DOMAIN txPos : txPos[i] = txPos[j] => i = j
    /\ \A e \in entries, i \in DOMAIN txPos : e.pos # txPos[i]

(* Moves are balanced (spec 8.4): every committed debit has its credit    *)
(* committed and the other way round, whatever commits failed, so the     *)
(* accounting entries always sum to zero.                                 *)
MovesBalanced ==
    \A e \in entries :
        \/ e.amount < 0 /\ Credit(e.pos, e.account, e.other, -e.amount) \in entries
        \/ e.amount > 0 /\ Debit(e.pos - 1, e.other, e.account, e.amount) \in entries
=============================================================================
