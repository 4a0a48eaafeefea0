---------------------------- MODULE StunWalkProofs ----------------------------
(***************************************************************************)
(* Proofs about the STUN probe of stun.cpp.                                *)
(*                                                                         *)
(* The parse of a reply walks its attribute headers with a recursive       *)
(* function.  What that function computes for every datagram is proved by *)
(* the library's theorems on recursive functions over intervals of         *)
(* naturals: FiniteNatInductiveDef unfolds the definition and              *)
(* FiniteNatInductiveDefType carries a set that every pass stays in.       *)
(***************************************************************************)
EXTENDS StunWalk, NaturalsInduction, WellFoundedInduction, TLAPS

(* The states of stun_handle_packet's while (len) loop that account for    *)
(* the len0 bytes it was given: what is left plus what data has advanced   *)
(* by is len0, and *mapped holds memset's zero or the server's address.   *)
Loop(len0, s) ==
    {st \in [left : Nat, off : Nat, map : {Zeroed, s}, ret : Int] :
        st.left + st.off = len0}

LEMMA AttrPassLoop ==
    \A st, a, s, len0 :
        st \in Loop(len0, s) /\ a \in AttrHeaders => AttrPass(st, a, s) \in Loop(len0, s)
<1> SUFFICES ASSUME NEW st, NEW a, NEW s, NEW len0,
                    st \in Loop(len0, s), a \in AttrHeaders
             PROVE  AttrPass(st, a, s) \in Loop(len0, s)
    OBVIOUS
<1> DEFINE x == a.len + AttrHdrSize
<1>0. st = [left |-> st.left, off |-> st.off, map |-> st.map, ret |-> st.ret]
    BY Zenon DEF Loop
<1>1. a.len \in Nat
    BY Zenon DEF AttrHeaders
<1>7. a.len + AttrHdrSize \in Nat
    BY <1>1 DEF AttrHdrSize
<1>2. CASE st.left = 0 \/ st.ret < 0
    <2>1. AttrPass(st, a, s) = st
        BY <1>2, Zenon DEF AttrPass
    <2>2. QED
        BY <2>1
<1>3. CASE ~(st.left = 0 \/ st.ret < 0) /\ st.left < AttrHdrSize
    <2>1. AttrPass(st, a, s) = [left |-> st.left, off |-> st.off, map |-> st.map, ret |-> -21]
        BY <1>0, <1>3, Zenon DEF AttrPass
    <2>2. QED
        BY <2>1 DEF Loop
<1>4. CASE ~(st.left = 0 \/ st.ret < 0) /\ ~(st.left < AttrHdrSize) /\ x > st.left
    <2>1. AttrPass(st, a, s) = [left |-> st.left, off |-> st.off, map |-> st.map, ret |-> -22]
        BY <1>0, <1>4, Zenon DEF AttrPass
    <2>2. QED
        BY <2>1 DEF Loop
<1>5. CASE ~(st.left = 0 \/ st.ret < 0) /\ ~(st.left < AttrHdrSize) /\ ~(x > st.left)
    <2>1. AttrPass(st, a, s) =
            [left |-> st.left - x, off |-> st.off + x,
             map |-> IF a.type = "MAPPED" /\ a.len = 8 THEN s ELSE st.map, ret |-> st.ret]
        BY <1>0, <1>5, Zenon DEF AttrPass
    <2>2. QED
        BY <2>1, <1>7, <1>5 DEF Loop
<1>6. QED
    BY <1>2, <1>3, <1>4, <1>5

LEMMA ZeroTailLoop ==
    \A st, s, len0 : st \in Loop(len0, s) => ZeroTail(st) \in Loop(len0, s)
<1> SUFFICES ASSUME NEW st, NEW s, NEW len0, st \in Loop(len0, s)
             PROVE  ZeroTail(st) \in Loop(len0, s)
    OBVIOUS
<1> DEFINE zeros == AttrHdrSize * (st.left \div AttrHdrSize)
<1>0. st = [left |-> st.left, off |-> st.off, map |-> st.map, ret |-> st.ret]
    BY Zenon DEF Loop
<1>1. CASE st.left = 0 \/ st.ret < 0
    BY <1>1 DEF ZeroTail
<1>2. CASE ~(st.left = 0 \/ st.ret < 0)
    <2>1. zeros \in 0..st.left
        BY DEF Loop, AttrHdrSize
    <2>2. ZeroTail(st) =
            [left |-> st.left - zeros, off |-> st.off + zeros, map |-> st.map,
             ret |-> IF st.left % AttrHdrSize = 0 THEN st.ret ELSE -21]
        BY <1>0, <1>2, Zenon DEF ZeroTail
    <2>3. QED
        BY <2>1, <2>2 DEF Loop
<1>3. QED
    BY <1>1, <1>2
(* The '\0' that stun_handle_packet writes after a parse that got past    *)
(* the header lies within the res bytes recvfrom returned: the attribute  *)
(* walk and the zero tail never move data beyond the len it was given.    *)
(* And *mapped then holds memset's zero or the address of this server.    *)
LEMMA HandlePacketNul ==
    ASSUME NEW d, NEW res \in Int, NEW s \in Int,
           d.msglen \in Nat, d.attrs \in Seq(AttrHeaders), res >= HdrSize
    PROVE  /\ HandlePacket(d, res, s).nul \in HdrSize..res
           /\ HandlePacket(d, res, s).map \in {Zeroed, s}
<1> DEFINE len0 == IF d.msglen < res - HdrSize THEN d.msglen ELSE res - HdrSize
           n == Len(d.attrs)
           first == [left |-> len0, off |-> 0, map |-> Zeroed, ret |-> res]
           Def(v, k) == AttrPass(v, d.attrs[k], s)
           pass == CHOOSE p : p = [k \in 0..n |-> IF k = 0 THEN first
                                                   ELSE AttrPass(p[k - 1], d.attrs[k], s)]
<1>1. n \in Nat /\ len0 \in 0..(res - HdrSize)
    BY DEF HdrSize
<1>2. FiniteNatInductiveDefHypothesis(pass, first, Def, 0, n)
    BY DEF FiniteNatInductiveDefHypothesis
<1>3. first \in Loop(len0, s)
    BY <1>1 DEF Loop, Zeroed
<1>4. \A v \in Loop(len0, s), k \in (0 + 1)..n : Def(v, k) \in Loop(len0, s)
    <2>1. \A k \in (0 + 1)..n : d.attrs[k] \in AttrHeaders
        OBVIOUS
    <2>2. QED
        BY <2>1, AttrPassLoop, Zenon
<1>5. pass \in [0..n -> Loop(len0, s)]
    <2>1. pass = [k \in 0..n |-> IF k = 0 THEN first ELSE Def(pass[k - 1], k)]
        <3> HIDE DEF Def
        <3>1. FiniteNatInductiveDefConclusion(pass, first, Def, 0, n)
            BY <1>1, <1>2, FiniteNatInductiveDef
        <3>2. QED
            BY <3>1 DEF FiniteNatInductiveDefConclusion
    <2> HIDE DEF Def, pass, first
    <2> DEFINE T == {k \in 0..n : pass[k] \notin Loop(len0, s)}
    <2>2. SUFFICES ASSUME T # {} PROVE FALSE
        BY <2>1
    <2>3. T \subseteq Nat
        BY <1>1
    <2>4. PICK x \in T : \A y \in T : ~(<<y, x>> \in OpToRel(<, Nat))
        BY <2>2, <2>3, NatLessThanWellFounded, WFMin, Zenon
    <2>5. \A y \in T : ~(y < x)
        BY <2>3, <2>4, Zenon DEF OpToRel
    <2>6. pass[0] = first
        BY <1>1, <2>1
    <2>7. x \in 1..n
        BY <1>1, <1>3, <2>6
    <2>8. pass[x - 1] \in Loop(len0, s)
        BY <2>5, <2>7
    <2>9. pass[x] = Def(pass[x - 1], x)
        BY <2>1, <2>7
    <2>10. QED
        BY <1>4, <2>7, <2>8, <2>9
<1>6. ZeroTail(pass[n]) \in Loop(len0, s)
    BY <1>1, <1>5, ZeroTailLoop
<1>7. /\ HandlePacket(d, res, s).nul = HdrSize + ZeroTail(pass[n]).off
      /\ HandlePacket(d, res, s).map = ZeroTail(pass[n]).map
    <2>1. ~(res < HdrSize)
        BY DEF HdrSize
    <2>2. QED
        BY <2>1, Zenon DEF HandlePacket
<1> HIDE DEF pass
<1>8. ZeroTail(pass[n]).off \in 0..len0 /\ ZeroTail(pass[n]).map \in {Zeroed, s}
    BY <1>6 DEF Loop
<1>9. QED
    BY <1>1, <1>7, <1>8 DEF HdrSize

(* The list size is a natural of at least 2.                              *)
LEMMA QtyNat == StunSrvListQty \in Nat /\ StunSrvListQty >= 2
    BY QtyAssumption

(* Whatever server p answers, the index StunRequest reports for the '\0'  *)
(* write is -1 (no datagram parsed) or lies inside reply_buf: recvfrom is  *)
(* given one byte less than the buffer.                                    *)
LEMMA RequestOutcomeNul ==
    ASSUME NEW p \in Servers, NEW o \in Replies[p]
    PROVE  RequestOutcome(p, o).nul \in -1..(BufSize - 1)
<1>1. /\ BufSize \in Nat
      /\ o.kind \in ReplyKinds /\ o.size \in Int /\ o.msglen \in Nat
      /\ o.attrs \in Seq(AttrHeaders)
    BY RepliesAssumption, Zenon
<1>2. p \in Int
    BY QtyNat DEF Servers
<1>3. Received(o) \in Int /\ Received(o) <= BufSize - 1
    BY <1>1 DEF Received
<1>4. CASE o.kind \in {"unresolved", "nosocket", "nobind", "sendfail", "timeout"}
    <2>1. RequestOutcome(p, o).nul = -1
        BY <1>4, Zenon DEF RequestOutcome
    <2>2. QED
        BY <1>1, <2>1
<1>5. CASE o.kind = "datagram" /\ Received(o) <= 0
    <2>0. ~(Received(o) > 0)
        BY <1>3, <1>5
    <2>1. RequestOutcome(p, o).nul = -1
        BY <1>5, <2>0, Zenon DEF RequestOutcome
    <2>2. QED
        BY <1>1, <2>1
<1>6. CASE o.kind = "datagram" /\ Received(o) > 0 /\ Received(o) < HdrSize
    <2>0. ~(Received(o) <= 0)
        BY <1>3, <1>6
    <2>1. RequestOutcome(p, o) = HandlePacket(o, Received(o), p)
        BY <1>6, <2>0, Zenon DEF RequestOutcome
    <2>2. HandlePacket(o, Received(o), p).nul = -1
        BY <1>6, Zenon DEF HandlePacket
    <2>3. QED
        BY <1>1, <2>1, <2>2
<1>7. CASE o.kind = "datagram" /\ Received(o) >= HdrSize
    <2>1. Received(o) > 0 /\ ~(Received(o) <= 0)
        BY <1>3, <1>7 DEF HdrSize
    <2>2. RequestOutcome(p, o) = HandlePacket(o, Received(o), p)
        BY <1>7, <2>1, Zenon DEF RequestOutcome
    <2>3. HandlePacket(o, Received(o), p).nul \in HdrSize..Received(o)
        BY <1>1, <1>2, <1>3, <1>7, HandlePacketNul
    <2>4. QED
        BY <1>1, <1>3, <2>2, <2>3 DEF HdrSize
<1>8. QED
    BY <1>1, <1>3, <1>4, <1>5, <1>6, <1>7 DEF ReplyKinds, HdrSize

(* Every prefix of the bytes of rnd leaves a residue mod n.                *)
LEMMA HornerModRange ==
    ASSUME NEW r \in [1..RndBytes -> Bytes], NEW n \in Nat \ {0}
    PROVE  \A k \in 0..RndBytes : HornerMod(r, n)[k] \in 0..(n - 1)
<1> DEFINE f == HornerMod(r, n)
<1>1. \A k \in Nat : f[k] = IF k = 0 THEN 0 ELSE (f[k - 1] * 256 + r[k]) % n
    <2> DEFINE Def(v, k) == (v * 256 + r[k]) % n
    <2>1. NatInductiveDefHypothesis(f, 0, Def)
        BY DEF NatInductiveDefHypothesis, HornerMod
    <2>2. NatInductiveDefConclusion(f, 0, Def)
        <3> HIDE DEF Def, f
        <3>. QED
            BY <2>1, NatInductiveDef
    <2>. QED
        BY <2>2 DEF NatInductiveDefConclusion
<1> HIDE DEF f
<1> DEFINE T == {k \in 0..RndBytes : f[k] \notin 0..(n - 1)}
<1>2. SUFFICES ASSUME T # {} PROVE FALSE
    BY DEF f
<1>3. T \subseteq Nat
    BY WidthAssumption
<1>4. PICK x \in T : \A y \in T : ~(<<y, x>> \in OpToRel(<, Nat))
    BY <1>2, <1>3, NatLessThanWellFounded, WFMin, Zenon
<1>5. \A y \in T : ~(y < x)
    BY <1>3, <1>4, Zenon DEF OpToRel
<1>6. f[0] = 0
    BY <1>1
<1>7. x \in 1..RndBytes
    BY <1>3, <1>6, WidthAssumption
<1>8. f[x - 1] \in 0..(n - 1) /\ r[x] \in Bytes
    BY <1>5, <1>7, WidthAssumption
<1>9. f[x] = (f[x - 1] * 256 + r[x]) % n
    <2>1. x \in Nat /\ x # 0
        BY <1>7
    <2>. QED
        BY <1>1, <2>1, Zenon
<1>10. f[x] \in 0..(n - 1)
    <2>1. f[x - 1] \in Int
        BY <1>8
    <2>2. r[x] \in Int
        <3>1. \A y \in Bytes : y \in Int
            BY DEF Bytes
        <3>. QED
            BY <1>8, <3>1, Zenon
    <2>3. f[x - 1] * 256 + r[x] \in Int
        BY <2>1, <2>2
    <2>. QED
        BY <1>9, <2>3
<1>. QED
    BY <1>7, <1>10

(* rnd % n is a residue mod n.                                             *)
LEMMA RndModRange ==
    ASSUME NEW r \in [1..RndBytes -> Bytes], NEW n \in Nat \ {0}
    PROVE  RndMod(r, n) \in 0..(n - 1)
BY HornerModRange, WidthAssumption DEF RndMod

(* The inductive invariant: rnd keeps its bytes, pos and step stay        *)
(* integers, and the last '\0' write is inside reply_buf.                 *)
NulInv ==
    /\ rnd \in [1..RndBytes -> Bytes] /\ pos \in Int /\ step \in Int
    /\ nulAt \in -1..(BufSize - 1)

LEMMA InitNulInv == Init => NulInv
<1> SUFFICES ASSUME Init PROVE NulInv
    OBVIOUS
<1>1. rnd \in [1..RndBytes -> Bytes]
    BY WidthAssumption DEF Init
<1>2. pos \in Int
    BY <1>1, WidthAssumption DEF Init, Low16, Bytes
<1>3. QED
    BY <1>1, <1>2, RepliesAssumption DEF Init, NulInv

LEMMA NextNulInv == NulInv /\ [Next]_vars => NulInv'
<1> SUFFICES ASSUME NulInv, [Next]_vars PROVE NulInv'
    OBVIOUS
<1>1. CASE PickStep
    <2>1. rnd' \in [1..RndBytes -> Bytes]
        BY <1>1, WidthAssumption DEF PickStep, ShiftFill, NulInv, Bytes
    <2>2. RndMod(rnd', StunSrvListQty) \in 0..(StunSrvListQty - 1)
        BY <2>1, QtyNat, RndModRange
    <2>3. step' \in Int
        <3>1. 2^16 = 65536
            OBVIOUS
        <3>. QED
            BY <1>1, <2>2, <3>1, QtyNat DEF PickStep
    <2>4. QED
        BY <1>1, <2>1, <2>3 DEF PickStep, NulInv
<1>2. CASE Probe
    <2> DEFINE p == (pos + step) % StunSrvListQty
    <2>1. p \in Servers
        BY QtyNat DEF NulInv, Servers
    <2>2. PICK o \in Replies[p] : nulAt' = RequestOutcome(p, o).nul /\ pos' = p
        BY <1>2, Zenon DEF Probe
    <2>3. UNCHANGED <<rnd, step>>
        BY <1>2 DEF Probe
    <2>4. QED
        BY <2>1, <2>2, <2>3, RequestOutcomeNul DEF NulInv, Servers
<1>3. CASE GiveUp
    BY <1>3 DEF GiveUp, NulInv
<1>4. CASE UNCHANGED vars
    BY <1>4 DEF vars, NulInv
<1>5. QED
    BY <1>1, <1>2, <1>3, <1>4 DEF Next

(* NulInsideBuffer for every list size, rnd width, buffer size and every   *)
(* set of replies: stun_handle_packet's '\0' never lands past reply_buf.  *)
THEOREM NulInsideBufferInvariant == Spec => []NulInsideBuffer
<1>1. NulInv => NulInsideBuffer
    BY RepliesAssumption DEF NulInv, NulInsideBuffer
<1>2. QED
    BY InitNulInv, NextNulInv, <1>1, PTL DEF Spec
(* Whatever server p answers, StunRequest leaves *mapped as it was, or     *)
(* sets it to memset's zero or to p's address: never to another server's. *)
LEMMA RequestOutcomeMap ==
    ASSUME NEW p \in Servers, NEW o \in Replies[p]
    PROVE  RequestOutcome(p, o).map \in {mapped, Zeroed, p}
<1>1. /\ BufSize \in Nat
      /\ o.kind \in ReplyKinds /\ o.size \in Int /\ o.msglen \in Nat
      /\ o.attrs \in Seq(AttrHeaders)
    BY RepliesAssumption, Zenon
<1>2. p \in Int
    BY QtyNat DEF Servers
<1>3. Received(o) \in Int
    BY <1>1 DEF Received
<1>4. CASE o.kind \in {"unresolved", "nosocket", "nobind", "sendfail", "timeout"}
    <2>1. RequestOutcome(p, o).map = mapped
        BY <1>4, Zenon DEF RequestOutcome
    <2>2. QED
        BY <2>1
<1>5. CASE o.kind = "datagram" /\ Received(o) <= 0
    <2>0. ~(Received(o) > 0)
        BY <1>3, <1>5
    <2>1. RequestOutcome(p, o).map = mapped
        BY <1>5, <2>0, Zenon DEF RequestOutcome
    <2>2. QED
        BY <2>1
<1>6. CASE o.kind = "datagram" /\ Received(o) > 0 /\ Received(o) < HdrSize
    <2>0. ~(Received(o) <= 0)
        BY <1>3, <1>6
    <2>1. RequestOutcome(p, o) = HandlePacket(o, Received(o), p)
        BY <1>6, <2>0, Zenon DEF RequestOutcome
    <2>2. HandlePacket(o, Received(o), p).map = Zeroed
        BY <1>6, Zenon DEF HandlePacket
    <2>3. QED
        BY <2>1, <2>2
<1>7. CASE o.kind = "datagram" /\ Received(o) >= HdrSize
    <2>1. Received(o) > 0 /\ ~(Received(o) <= 0)
        BY <1>3, <1>7 DEF HdrSize
    <2>2. RequestOutcome(p, o) = HandlePacket(o, Received(o), p)
        BY <1>7, <2>1, Zenon DEF RequestOutcome
    <2>3. HandlePacket(o, Received(o), p).map \in {Zeroed, p}
        BY <1>1, <1>2, <1>3, <1>7, HandlePacketNul
    <2>4. QED
        BY <2>2, <2>3
<1>8. QED
    BY <1>1, <1>3, <1>4, <1>5, <1>6, <1>7 DEF ReplyKinds, HdrSize

LEMMA InitTypeOK == Init => TypeOK
<1> SUFFICES ASSUME Init PROVE TypeOK
    OBVIOUS
<1>1. rnd \in [1..RndBytes -> Bytes]
    BY WidthAssumption DEF Init
<1>2. rnd[RndBytes - 1] \in Bytes /\ rnd[RndBytes] \in Bytes
    <2>1. RndBytes - 1 \in 1..RndBytes /\ RndBytes \in 1..RndBytes
        BY WidthAssumption
    <2>2. QED
        BY <1>1, <2>1, Zenon
<1>3. Low16(rnd) \in 0..(2^16 - 1)
    <2>1. 2^16 = 65536
        OBVIOUS
    <2>2. \A a, b \in Bytes : a * 256 + b \in 0..(2^16 - 1)
        BY <2>1 DEF Bytes
    <2>3. QED
        BY <1>2, <2>2, Zenon DEF Low16
<1>4. QED
    BY <1>1, <1>3, QtyNat, RepliesAssumption
    DEF Init, TypeOK, Attempts, Servers, Unset, Zeroed

LEMMA NextTypeOK == TypeOK /\ [Next]_vars => TypeOK'
<1> SUFFICES ASSUME TypeOK, [Next]_vars PROVE TypeOK'
    OBVIOUS
<1>0. 2^16 = 65536
    OBVIOUS
<1>1. CASE PickStep
    <2>1. rnd' \in [1..RndBytes -> Bytes]
        BY <1>1, WidthAssumption DEF PickStep, ShiftFill, TypeOK, Bytes
    <2>2. RndMod(rnd', StunSrvListQty) \in 0..(StunSrvListQty - 1)
        BY <2>1, QtyNat, RndModRange
    <2>3. step' \in 0..(StunSrvListQty - 1)
        BY <1>0, <1>1, <2>2, QtyAssumption DEF PickStep
    <2>4. attempt' \in 0..Attempts /\ pc' \in {"pick", "walk", "done"}
        BY <1>1, QtyNat DEF PickStep, TypeOK, Attempts
    <2>5. QED
        BY <1>1, <2>1, <2>3, <2>4 DEF PickStep, TypeOK
<1>2. CASE Probe
    <2> DEFINE p == (pos + step) % StunSrvListQty
               out(o) == RequestOutcome(p, o)
    <2>1. p \in Servers
        BY QtyNat DEF TypeOK, Servers
    <2>2. PICK o \in Replies[p] :
            /\ pos' = p /\ srv' = p /\ mapped' = out(o).map /\ nulAt' = out(o).nul
            /\ tried' = tried \cup {p} /\ probes' = probes + 1
            /\ IF out(o).rc >= 0
               THEN pc' = "done" /\ result' = attempt /\ attempt' = attempt
               ELSE attempt' = attempt + 1 /\ UNCHANGED <<pc, result>>
        BY <1>2, Zenon DEF Probe
    <2>3. attempt < Attempts /\ UNCHANGED <<rnd, step>>
        BY <1>2 DEF Probe
    <2>4. mapped' \in Servers \cup {Unset, Zeroed}
        BY <2>1, <2>2, RequestOutcomeMap DEF TypeOK
    <2>5. nulAt' \in -1..BufSize
        BY <2>1, <2>2, RequestOutcomeNul, RepliesAssumption
    <2>6. /\ attempt' \in 0..Attempts /\ pc' \in {"pick", "walk", "done"}
          /\ result' \in -1..(Attempts - 1)
        <3>1. CASE out(o).rc >= 0
            BY <2>2, <2>3, <3>1, QtyNat DEF TypeOK, Attempts
        <3>2. CASE ~(out(o).rc >= 0)
            BY <2>2, <2>3, <3>2, QtyNat DEF TypeOK, Attempts
        <3>3. QED
            BY <3>1, <3>2
    <2>7. pos' \in 0..(2^16 - 1) /\ srv' \in Servers \cup {-1} /\ tried' \subseteq Servers
        <3>1. \A x \in Servers : x \in 0..(2^16 - 1)
            BY <1>0, QtyAssumption DEF Servers
        <3>2. tried \cup {p} \subseteq Servers
            BY <2>1 DEF TypeOK
        <3>3. QED
            BY <2>1, <2>2, <3>1, <3>2, Zenon
    <2>8. QED
        BY <2>2, <2>3, <2>4, <2>5, <2>6, <2>7 DEF TypeOK
<1>3. CASE GiveUp
    BY <1>3, QtyNat DEF GiveUp, TypeOK, Attempts
<1>4. CASE UNCHANGED vars
    BY <1>4 DEF vars, TypeOK
<1>5. QED
    BY <1>1, <1>2, <1>3, <1>4 DEF Next

(* TypeOK for every list size below 2^16, every rnd width of 2 to 8      *)
(* bytes and every set of replies: pos and step stay within their         *)
(* uint16_t, attempt within 2 * StunSrvListQty, and *mapped only ever     *)
(* holds the address of a server of the list.                             *)
THEOREM TypeCorrect == Spec => []TypeOK
BY InitTypeOK, NextTypeOK, PTL DEF Spec

=============================================================================
