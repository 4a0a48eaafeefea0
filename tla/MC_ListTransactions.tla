------------------------- MODULE MC_ListTransactions -------------------------
(***************************************************************************)
(* Streams of up to four items producing zero to two rows each; an 8-bit *)
(* int, so that count + from can overflow in the second configuration.    *)
(***************************************************************************)
EXTENDS ListTransactions

MCWidth == 8
MCStreams == UNION {[1..n -> 0..2] : n \in 0..4}
(* No params, all three, and one too many.                                *)
MCNParams == {0, 3, 4}

(* Counts and froms around the number of rows, and negative ones.         *)
MCSmall == -1..7

(* Also the largest ints, whose sum overflows.                            *)
MCLarge == (-1..3) \cup {126, 127}
=============================================================================
