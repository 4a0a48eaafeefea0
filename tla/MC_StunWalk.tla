----------------------------- MODULE MC_StunWalk -----------------------------
(***************************************************************************)
(* A list of six servers (6 = 2 * 3, so that some steps share a factor     *)
(* with the list size, as 893 = 19 * 47 does), a 64-bit rnd, and every     *)
(* reply the parser distinguishes.                                         *)
(***************************************************************************)
EXTENDS StunWalk

MCQty == 6
MCBytes == 8
MCBufSize == 1024

(* The low two bytes give every pos and, with the third, every step        *)
(* residue, step 0 included, so that the do-while repeats; the top byte    *)
(* and bytes five and six are set in some, so that they pass through the   *)
(* shifts and the uint16_t truncation of pos drops them.  The all-0xff     *)
(* rnd is the do-while's fixed point.                                      *)
MCRnds ==
    {<<h1, 0, 0, 0, h5, h6, a, b>> :
        h1 \in {0, 255}, h5 \in {0, 1}, h6 \in {0, 7}, a \in 0..7, b \in 0..15}
    \cup {[i \in 1..8 |-> 255]}

Mapped8 == [type |-> "MAPPED", len |-> 8]
Other4 == [type |-> "OTHER", len |-> 4]

(* Datagrams: a well-formed BIND response; a header with no attribute; a  *)
(* MAPPED-ADDRESS followed by two stray bytes (-21 after the copy); a     *)
(* truncated MAPPED-ADDRESS (-22); a runt (-20); an empty datagram (-12); *)
(* an oversized datagram of zeros whose header claims 2000 bytes.         *)
Good     == [kind |-> "datagram", size |-> 40, msglen |-> 20, attrs |-> <<Other4, Mapped8>>]
NoAttr   == [kind |-> "datagram", size |-> 20, msglen |-> 0, attrs |-> <<>>]
Trailing == [kind |-> "datagram", size |-> 34, msglen |-> 14, attrs |-> <<Mapped8>>]
Cut      == [kind |-> "datagram", size |-> 28, msglen |-> 12, attrs |-> <<Mapped8>>]
Runt     == [kind |-> "datagram", size |-> 12, msglen |-> 0, attrs |-> <<>>]
Empty    == [kind |-> "datagram", size |-> 0, msglen |-> 0, attrs |-> <<>>]
Jumbo    == [kind |-> "datagram", size |-> 1500, msglen |-> 2000, attrs |-> <<>>]

Fail(k) == [kind |-> k, size |-> 0, msglen |-> 0, attrs |-> <<>>]

MCReplies ==
    [s \in 0..5 |->
        CASE s = 0 -> {Fail("timeout")}
          [] s = 1 -> {Fail("timeout"), Good, Trailing}
          [] s = 2 -> {Fail("unresolved")}
          [] s = 3 -> {Fail("timeout"), NoAttr, Cut}
          [] s = 4 -> {Fail("nosocket"), Fail("nobind"), Fail("sendfail"), Runt, Empty}
          [] s = 5 -> {Fail("timeout"), Jumbo}]
=============================================================================
