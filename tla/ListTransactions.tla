-------------------------- MODULE ListTransactions --------------------------
(***************************************************************************)
(* Paging of listtransactions [account] [count] [from] (rpcwallet.cpp).   *)
(*                                                                         *)
(* OrderedTxItems gives the wallet transactions and accounting entries of *)
(* the account in order-position order.  Walking it from the newest, each *)
(* item appends its JSON rows to ret (ListTransactions pushes one row per *)
(* generated, sent and received part that passes the account filter,      *)
(* AcentryToJSON one per entry), and the walk stops once ret holds        *)
(* nCount + nFrom rows.  ret is then cut to [nFrom, nFrom + nCount) and   *)
(* reversed to oldest-first.                                              *)
(*                                                                         *)
(* An item is abstracted to the number of rows it produces; row <<k, j>>   *)
(* is the j-th row item k pushes.  int arithmetic keeps IntWidth bits:     *)
(* signed overflow is undefined in C++, and the build computes it in a     *)
(* two's-complement register, so it wraps.                                 *)
(*                                                                         *)
(* The module uses no community module, so that ListTransactionsProofs     *)
(* can reason about it: std::reverse and the flattened row stream are      *)
(* written here as an explicit function and a recursive function.          *)
(***************************************************************************)
EXTENDS Integers, Sequences

CONSTANTS
    IntWidth,   \* bits of int
    Streams,    \* possible results of OrderedTxItems: rows per item, oldest first
    Counts,     \* values of params[1] (count)
    Froms,      \* values of params[2] (from)
    NParams     \* possible values of params.size()

ASSUME IntAssumption == IntWidth \in 4..32
ASSUME ArgsAssumption ==
    /\ Streams \subseteq Seq(Nat)
    /\ Counts \cup Froms \subseteq -(2^(IntWidth - 1))..(2^(IntWidth - 1) - 1)
    /\ NParams \subseteq 0..4

(* int addition as the build computes it.                                  *)
IntAdd(a, b) ==
    LET h == 2^(IntWidth - 1)
    IN  ((a + b + h) % (2 * h)) - h

(* The JSON rows item k of stream s pushes.                                *)
RowsOf(s, k) == [j \in 1..s[k] |-> <<k, j>>]

(* std::reverse(ret.begin(), ret.end()).                                   *)
Reverse(r) == [i \in 1..Len(r) |-> r[Len(r) - i + 1]]

VARIABLES
    stream,    \* OrderedTxItems(acentries, strAccount)
    nParams,   \* params.size()
    nCount,    \* int nCount
    nFrom,     \* int nFrom
    it,        \* the reverse iterator: items 1..it are still to visit
    ret,       \* Array ret
    pc,        \* "args", "loop", "trim", "done", "error" (a throw),
               \* "ub" (an iterator advanced outside ret)
    args       \* history: <<count, from>> as passed

vars == <<stream, nParams, nCount, nFrom, it, ret, pc, args>>

(* Omitted params keep their defaults: count 10, from 0.                   *)
Init ==
    /\ stream \in Streams
    /\ nParams \in NParams
    /\ nCount \in IF nParams > 1 THEN Counts ELSE {10}
    /\ nFrom \in IF nParams > 2 THEN Froms ELSE {0}
    /\ it = 0
    /\ ret = <<>>
    /\ pc = "args"
    /\ args = <<nCount, nFrom>>

(* Mutant of CheckArgs: the walk starts one past the newest item.          *)
CheckArgsPastEnd ==
    /\ pc = "args"
    /\ IF nParams > 3 \/ nCount < 0 \/ nFrom < 0
       THEN pc' = "error" /\ UNCHANGED it
       ELSE pc' = "loop" /\ it' = Len(stream) + 1
    /\ UNCHANGED <<stream, nParams, nCount, nFrom, ret, args>>

(* The argument checks: at most three params, no negative count or from. *)
CheckArgs ==
    /\ pc = "args"
    /\ IF nParams > 3 \/ nCount < 0 \/ nFrom < 0
       THEN pc' = "error" /\ UNCHANGED it
       ELSE pc' = "loop" /\ it' = Len(stream)
    /\ UNCHANGED <<stream, nParams, nCount, nFrom, ret, args>>

(* One pass of the reverse loop: push the rows of the item, break once    *)
(* (int)ret.size() >= nCount + nFrom; the loop also ends at rend().        *)
Iterate ==
    /\ pc = "loop"
    /\ IF it = 0
       THEN pc' = "trim" /\ UNCHANGED <<it, ret>>
       ELSE /\ ret' = ret \o RowsOf(stream, it)
            /\ it' = it - 1
            /\ pc' = IF Len(ret') >= IntAdd(nCount, nFrom) THEN "trim" ELSE "loop"
    /\ UNCHANGED <<stream, nParams, nCount, nFrom, args>>

(* Mutant of Trim: std::reverse is forgotten.                              *)
TrimNoReverse ==
    /\ pc = "trim"
    /\ LET from  == IF nFrom > Len(ret) THEN Len(ret) ELSE nFrom
           count == IF IntAdd(from, nCount) > Len(ret) THEN Len(ret) - from ELSE nCount
           last  == IntAdd(from, count)
       IN  IF last \in from..Len(ret)
           THEN /\ ret' = SubSeq(ret, from + 1, last)
                /\ pc' = "done"
                /\ nFrom' = from /\ nCount' = count
           ELSE /\ pc' = "ub"
                /\ UNCHANGED <<ret, nFrom, nCount>>
    /\ UNCHANGED <<stream, nParams, it, args>>

(* Clamp nFrom and nCount to ret, erase [nFrom + nCount, end) and         *)
(* [begin, nFrom), reverse.  std::advance(last, nFrom + nCount) outside  *)
(* [begin, end] is undefined.                                             *)
Trim ==
    /\ pc = "trim"
    /\ LET from  == IF nFrom > Len(ret) THEN Len(ret) ELSE nFrom
           count == IF IntAdd(from, nCount) > Len(ret) THEN Len(ret) - from ELSE nCount
           last  == IntAdd(from, count)
       IN  IF last \in from..Len(ret)
           THEN /\ ret' = Reverse(SubSeq(ret, from + 1, last))
                /\ pc' = "done"
                /\ nFrom' = from /\ nCount' = count
           ELSE /\ pc' = "ub"
                /\ UNCHANGED <<ret, nFrom, nCount>>
    /\ UNCHANGED <<stream, nParams, it, args>>

Next == CheckArgs \/ Iterate \/ Trim

Spec == Init /\ [][Next]_vars

-----------------------------------------------------------------------------
TypeOK ==
    /\ stream \in Streams
    /\ nParams \in NParams
    /\ nCount \in Int /\ nFrom \in Int
    /\ it \in 0..Len(stream)
    /\ ret \in Seq(Nat \X Nat)
    /\ pc \in {"args", "loop", "trim", "done", "error", "ub"}

(* The reference: all rows of the account newest first, then skip from,   *)
(* take count, and return them oldest first (spec 4.8).                   *)
(* RowsDown(s)[k]: the rows of items k, k - 1, ..., 1, newest first.      *)
RowsDown(s) ==
    LET f[k \in Nat] == IF k = 0 THEN <<>> ELSE RowsOf(s, k) \o f[k - 1]
    IN  f
NewestFirst(s) == RowsDown(s)[Len(s)]

Page(s, count, from) ==
    LET all == NewestFirst(s)
        lo  == IF from < Len(all) THEN from ELSE Len(all)
        hi  == IF from + count < Len(all) THEN from + count ELSE Len(all)
    IN  Reverse(SubSeq(all, lo + 1, hi))

(* The page is right: a call with valid arguments returns exactly the      *)
(* reference page, whatever count and from are, and never advances an      *)
(* iterator outside ret.  It rests on the early break of the reverse loop, *)
(* the two clamps and the erase order together.                            *)
PageIsReference ==
    /\ pc # "ub"
    /\ pc = "done" => ret = Page(stream, args[1], args[2])
=============================================================================
