------------------------------ MODULE StunWalk ------------------------------
(***************************************************************************)
(* The external-IP probe of stun.cpp: GetExternalIPbySTUN walks the STUN   *)
(* server list with a pseudo-random (pos, step) pair taken from its 64-bit *)
(* argument and sends one BIND request per attempt (StunRequest,           *)
(* StunRequest2) until a reply parses (stun_handle_packet returns >= 0)    *)
(* or 2 * StunSrvListQty - 1 attempts have failed.                         *)
(*                                                                         *)
(* A server's answer to one request is a member of Replies[s]: a failure   *)
(* before any datagram is read (kind "unresolved", "nosocket", "nobind",  *)
(* "sendfail", "timeout"), or a datagram (kind "datagram").  A datagram is *)
(* abstracted to its size, the message length its header advertises, and *)
(* the list of attribute headers (type, value length) its payload starts  *)
(* with; the bytes after them, up to its size, are zero.  The mapped       *)
(* address is identified by the server whose reply wrote it.               *)
(*                                                                         *)
(* The uint64_t rnd is kept as its RndBytes bytes, most significant first, *)
(* so that the model has the real width although TLC's integers are 32     *)
(* bits: the shift is a shift of the byte sequence, and rnd % n is worked  *)
(* out from the bytes by Horner's rule.                                    *)
(***************************************************************************)
EXTENDS Integers, Sequences

CONSTANTS
    StunSrvListQty,  \* number of entries of StunSrvList
    RndBytes,        \* bytes of the rnd argument (uint64_t: 8)
    Rnds,            \* rnd arguments the caller may pass
    BufSize,         \* sizeof(reply_buf)
    Replies          \* Replies[s]: what server s may answer to one request

ASSUME QtyAssumption == StunSrvListQty \in Nat /\ 2 <= StunSrvListQty /\ StunSrvListQty < 2^16
Bytes == 0..255

ASSUME WidthAssumption == RndBytes \in 2..8 /\ Rnds \subseteq [1..RndBytes -> Bytes]

Servers == 0..(StunSrvListQty - 1)

(* How one request ends: a failure before any datagram is read, or one.   *)
ReplyKinds == {"unresolved", "nosocket", "nobind", "sendfail", "timeout", "datagram"}

(* An attribute header: its type (STUN_MAPPED_ADDRESS or another) and    *)
(* the ntohs value of its length field (a uint16_t).                       *)
AttrHeaders == [type : {"MAPPED", "OTHER"}, len : Nat]

(* Every server answers something; a datagram's size is what recvfrom     *)
(* returns (an int, -1 on error), the advertised length is the ntohs of a  *)
(* uint16_t, a natural, and the payload starts with attribute headers.     *)
(* reply_buf has a size (1024 in StunRequest2).                            *)
ASSUME RepliesAssumption ==
    /\ BufSize \in Nat
    /\ \A s \in Servers : /\ Replies[s] # {}
                          /\ \A o \in Replies[s] :
                                /\ o.kind \in ReplyKinds
                                /\ o.size \in Int
                                /\ o.msglen \in Nat
                                /\ o.attrs \in Seq(AttrHeaders)

(* Contents of *mapped that no server wrote: the caller's, or memset's.   *)
Unset == -2
Zeroed == -1

(* sizeof(struct stun_header) and sizeof(struct stun_attr).                *)
HdrSize == 20
AttrHdrSize == 4

VARIABLES
    rnd,       \* the local rnd of GetExternalIPbySTUN, as its bytes
    pos,       \* uint16_t pos
    step,      \* uint16_t step
    attempt,   \* uint16_t attempt
    pc,        \* "pick": in the do-while choosing step; "walk"; "done"
    srv,       \* *srv: the server of the last attempt (-1 before any)
    mapped,    \* *mapped: Unset, Zeroed after memset, or the server whose
               \* MAPPED-ADDRESS attribute was copied into it
    result,    \* return value of GetExternalIPbySTUN once pc = "done"
    nulAt,     \* index of reply_buf the last parse wrote '\0' at (-1: none)
    tried,     \* history: the servers a request was sent to
    probes     \* history: the number of requests sent

vars == <<rnd, pos, step, attempt, pc, srv, mapped, result, nulAt, tried, probes>>

-----------------------------------------------------------------------------
(***************************************************************************)
(* Parsing a reply: recvfrom, then stun_handle_packet with stun_get_mapped *)
(* as the callback.                                                        *)
(***************************************************************************)

(* Mutant of Received: recvfrom is given all of reply_buf.                 *)
ReceivedFullBuffer(d) == IF d.size < BufSize THEN d.size ELSE BufSize

(* recvfrom(sock, reply_buf, sizeof(reply_buf) - 1, ...): a longer UDP     *)
(* datagram is cut to the buffer less one byte.                            *)
Received(d) == IF d.size < BufSize - 1 THEN d.size ELSE BufSize - 1

(* One pass of the while (len) loop of stun_handle_packet on the next     *)
(* attribute header a, from the loop state st (bytes left, offset of data *)
(* past the header, what *mapped holds, ret): once the loop has left it   *)
(* changes nothing; it refuses a remainder shorter than an attribute      *)
(* header (-21) or than the attribute (-22); otherwise it runs the        *)
(* callback stun_get_mapped, which copies a MAPPED-ADDRESS of length 8,   *)
(* and advances data and len by the attribute's length.                   *)
AttrPass(st, a, s) ==
    LET x == a.len + AttrHdrSize
    IN  IF st.left = 0 \/ st.ret < 0 THEN st
        ELSE IF st.left < AttrHdrSize THEN [st EXCEPT !.ret = -21]
        ELSE IF x > st.left THEN [st EXCEPT !.ret = -22]
        ELSE [st EXCEPT !.left = st.left - x, !.off = st.off + x,
                        !.map = IF a.type = "MAPPED" /\ a.len = 8
                                THEN s ELSE st.map]

(* The zero bytes after the listed attributes are attributes of length 0, *)
(* consumed four at a time until fewer than four are left (-21).          *)
ZeroTail(st) ==
    LET zeros == AttrHdrSize * (st.left \div AttrHdrSize)
    IN  IF st.left = 0 \/ st.ret < 0 THEN st
        ELSE [st EXCEPT !.left = st.left - zeros, !.off = st.off + zeros,
                        !.ret = IF st.left % AttrHdrSize = 0 THEN st.ret ELSE -21]

(* stun_handle_packet on the first res bytes of datagram d, with          *)
(* stun_get_mapped as the callback: refuse a runt (-20), cut len to the  *)
(* advertised message length, walk the attributes (one AttrPass each, a   *)
(* recursive function over them) and the zero tail, and write '\0' at    *)
(* data.                                                                   *)
HandlePacket(d, res, s) ==
    LET len0 == IF d.msglen < res - HdrSize THEN d.msglen ELSE res - HdrSize
        pass[k \in 0..Len(d.attrs)] ==
            IF k = 0
            THEN [left |-> len0, off |-> 0, map |-> Zeroed, ret |-> res]
            ELSE AttrPass(pass[k - 1], d.attrs[k], s)
        fin == ZeroTail(pass[Len(d.attrs)])
    IN  IF res < HdrSize
        THEN [rc |-> -20, map |-> Zeroed, nul |-> -1]
        ELSE [rc |-> fin.ret, map |-> fin.map, nul |-> HdrSize + fin.off]

(* StunRequest for server s answering o: the return code, the new value of *)
(* *mapped (memset to zero once a datagram has been read), and the index   *)
(* of the '\0' write.                                                      *)
RequestOutcome(s, o) ==
    CASE o.kind = "unresolved" -> [rc |-> -1,  map |-> mapped, nul |-> -1]
      [] o.kind = "nosocket"   -> [rc |-> -2,  map |-> mapped, nul |-> -1]
      [] o.kind = "nobind"     -> [rc |-> -3,  map |-> mapped, nul |-> -1]
      [] o.kind = "sendfail"   -> [rc |-> -10, map |-> mapped, nul |-> -1]
      [] o.kind = "timeout"    -> [rc |-> -11, map |-> mapped, nul |-> -1]
      [] o.kind = "datagram" /\ Received(o) <= 0 ->
                                  [rc |-> -12, map |-> mapped, nul |-> -1]
      [] o.kind = "datagram" /\ Received(o) > 0 ->
                                  HandlePacket(o, Received(o), s)

-----------------------------------------------------------------------------
(***************************************************************************)
(* GetExternalIPbySTUN.                                                    *)
(***************************************************************************)

(* Mutant of Attempts: the walk stops after one round of the list.         *)
AttemptsOneRound == StunSrvListQty

(* The for loop runs while attempt < StunSrvListQty * 2.                   *)
Attempts == StunSrvListQty * 2

(* HornerMod(r, n)[k]: the number the first k bytes of r spell, mod n.     *)
HornerMod(r, n) ==
    LET f[k \in Nat] == IF k = 0 THEN 0 ELSE (f[k - 1] * 256 + r[k]) % n
    IN  f

(* rnd % n for a uint64_t given by its bytes.                              *)
RndMod(r, n) == HornerMod(r, n)[RndBytes]

(* The low 16 and the low 32 bits of rnd.                                  *)
Low16(r) == r[RndBytes - 1] * 256 + r[RndBytes]
Low32(r) == ((r[RndBytes - 3] * 256 + r[RndBytes - 2]) * 256 + r[RndBytes - 1]) * 256 + r[RndBytes]

(* rnd = (rnd >> 8) | 0xff00000000000000: the bytes move down one place    *)
(* and the top byte, clear after the shift, becomes 0xff.                  *)
ShiftFill(r) == [i \in 1..RndBytes |-> IF i = 1 THEN 255 ELSE r[i - 1]]

(* Mutant of Init: pos is declared uint32_t and keeps the low 32 bits.     *)
InitWidePos ==
    /\ rnd \in Rnds
    /\ pos = Low32(rnd)
    /\ step = 0
    /\ attempt = 0
    /\ pc = "pick"
    /\ srv = -1
    /\ mapped = Unset
    /\ result = 0
    /\ nulAt = -1
    /\ tried = {}
    /\ probes = 0

(* uint16_t pos = rnd: the low 16 bits.                                    *)
Init ==
    /\ rnd \in Rnds
    /\ pos = Low16(rnd)
    /\ step = 0
    /\ attempt = 0
    /\ pc = "pick"
    /\ srv = -1
    /\ mapped = Unset
    /\ result = 0
    /\ nulAt = -1
    /\ tried = {}
    /\ probes = 0

(* Mutant of PickStep: the shift without filling the top byte.             *)
PickStepNoFill ==
    /\ pc = "pick"
    /\ rnd' = [i \in 1..RndBytes |-> IF i = 1 THEN 0 ELSE rnd[i - 1]]
    /\ step' = RndMod(rnd', StunSrvListQty) % 2^16
    /\ pc' = IF step' = 0 THEN "pick" ELSE "walk"
    /\ attempt' = IF step' = 0 THEN attempt ELSE 1
    /\ UNCHANGED <<pos, srv, mapped, result, nulAt, tried, probes>>

(* One pass of the do-while: rnd = (rnd >> 8) | 0xff00000000000000, whose *)
(* top byte is clear before the OR; step = rnd % StunSrvListQty; repeat    *)
(* while step == 0.                                                        *)
PickStep ==
    /\ pc = "pick"
    /\ rnd' = ShiftFill(rnd)
    /\ step' = RndMod(rnd', StunSrvListQty) % 2^16
    /\ pc' = IF step' = 0 THEN "pick" ELSE "walk"
    /\ attempt' = IF step' = 0 THEN attempt ELSE 1
    /\ UNCHANGED <<pos, srv, mapped, result, nulAt, tried, probes>>

(* One attempt: pos = (pos + step) % StunSrvListQty; StunRequest to it,    *)
(* with *srv set to its name; return attempt when rc >= 0.                 *)
Probe ==
    /\ pc = "walk"
    /\ attempt < Attempts
    /\ LET p == (pos + step) % StunSrvListQty IN
       \E o \in Replies[p] :
         LET out == RequestOutcome(p, o) IN
         /\ pos' = p
         /\ srv' = p
         /\ mapped' = out.map
         /\ nulAt' = out.nul
         /\ tried' = tried \cup {p}
         /\ probes' = probes + 1
         /\ IF out.rc >= 0
            THEN pc' = "done" /\ result' = attempt /\ attempt' = attempt
            ELSE attempt' = attempt + 1 /\ UNCHANGED <<pc, result>>
    /\ UNCHANGED <<rnd, step>>

(* The loop ends without an answer: return -1.                             *)
GiveUp ==
    /\ pc = "walk"
    /\ ~(attempt < Attempts)
    /\ pc' = "done"
    /\ result' = -1
    /\ UNCHANGED <<rnd, pos, step, attempt, srv, mapped, nulAt, tried, probes>>

Next == PickStep \/ Probe \/ GiveUp

(* The probe runs on one thread; every request ends by the select timeout. *)
Spec == Init /\ [][Next]_vars /\ WF_vars(Next)

-----------------------------------------------------------------------------
(***************************************************************************)
(* Properties.                                                             *)
(***************************************************************************)

TypeOK ==
    /\ rnd \in [1..RndBytes -> Bytes]
    /\ pos \in 0..(2^16 - 1)
    /\ step \in 0..(StunSrvListQty - 1)
    /\ attempt \in 0..Attempts
    /\ pc \in {"pick", "walk", "done"}
    /\ srv \in Servers \cup {-1}
    /\ mapped \in Servers \cup {Unset, Zeroed}
    /\ result \in -1..(Attempts - 1)
    /\ nulAt \in -1..BufSize
    /\ tried \subseteq Servers
    /\ probes \in Nat

GCD(a, b) == CHOOSE g \in 1..b : /\ a % g = 0 /\ b % g = 0
                                /\ \A h \in 1..b : a % h = 0 /\ b % h = 0 => h <= g

(* Full coverage for a step prime to the list size: when the walk gives    *)
(* up, every server of StunSrvList has been sent a request.  It takes the  *)
(* step loop, the modular walk and the attempt bound of the for loop       *)
(* together to hold.                                                       *)
CoprimeCoverage ==
    pc = "done" /\ result = -1 /\ GCD(step, StunSrvListQty) = 1 => tried = Servers

(* No server skipped (the comment above GetExternalIPbySTUN: a "uniuqe way *)
(* over server list"): whenever the walk gives up, every server has been  *)
(* tried.                                                                  *)
NoServerSkipped == pc = "done" /\ result = -1 => tried = Servers

(* A successful probe returns the address the answering server mapped    *)
(* (spec 6: "returns the mapped sockaddr_in on success").                 *)
MappedOnSuccess == pc = "done" /\ result >= 0 => mapped = srv

(* The '\0' that stun_handle_packet writes after the parsed attributes     *)
(* ("we write past the size of the buffer passed by the caller") stays     *)
(* inside reply_buf, for every datagram size and advertised length.        *)
NulInsideBuffer == nulAt < BufSize

(* Termination: the do-while that picks a non-zero step and the walk both *)
(* end, whatever rnd is.  After RndBytes passes rnd is all 0xff bytes and  *)
(* stays so, so the do-while ends for every rnd exactly when 2^64 - 1 is   *)
(* not a multiple of StunSrvListQty.                                       *)
EventuallyDone == <>(pc = "done")

=============================================================================
