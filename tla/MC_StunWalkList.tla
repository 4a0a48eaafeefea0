--------------------------- MODULE MC_StunWalkList ---------------------------
(***************************************************************************)
(* The walk of GetExternalIPbySTUN over a list of the real length,         *)
(* StunSrvListQty = 893 = 19 * 47, with a 64-bit rnd and every server      *)
(* timing out, so that every walk runs to the attempt bound.               *)
(***************************************************************************)
EXTENDS StunWalk

MCQty == 893
MCBytes == 8
MCBufSize == 1024

(* rnd arguments: all 0xff bytes, the do-while's fixed point, on which     *)
(* every rnd ends after eight passes; all zero bytes, which a shift        *)
(* without the fill would keep; one whose first pass gives step 0, so that *)
(* the do-while repeats; and ones whose step is 323 = 17 * 19 and          *)
(* 329 = 7 * 47, which share a factor with 893.                            *)
MCRnds ==
    { [i \in 1..8 |-> 255],
      [i \in 1..8 |-> 0],
      <<0, 0, 0, 0, 0, 2, 64, 5>>,
      <<0, 0, 0, 0, 0, 0, 6, 0>>,
      <<0, 0, 0, 0, 0, 0, 12, 0>> }

Timeout == [kind |-> "timeout", size |-> 0, msglen |-> 0, attrs |-> <<>>]

MCReplies == [s \in 0..(MCQty - 1) |-> {Timeout}]
=============================================================================
