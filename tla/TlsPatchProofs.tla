--------------------------- MODULE TlsPatchProofs ---------------------------
(***************************************************************************)
(* Proofs about the rewrite of a TLS stream.                               *)
(*                                                                         *)
(* First, that it never patches a secret into a connection it may not      *)
(* leave on, for any number of threads, connections, writes and losses,    *)
(* any segments, either BIO and any record layout. The property is not     *)
(* inductive: what tc_egress_patch stores comes from tc_pending, which the *)
(* kprobe filled from xor_pending. PolicyInv says of each of these maps    *)
(* what the next program relies on.                                        *)
(*                                                                         *)
(* Then, for connections whose library writes to the socket itself         *)
(* (crypto/tls, and OpenSSL with a socket BIO): the types, and that a      *)
(* deferred tag correction is never overtaken. The layout invariant says   *)
(* that records lie one behind the other in the stream; a flush of a       *)
(* memory BIO sends several records whose positions are defined by         *)
(* recursion, which is why it is left to TLC.                              *)
(*                                                                         *)
(* Last, a lemma that the proofs about records need: while one thread of   *)
(* the process writes, the patches of a write are bridged to its own       *)
(* connection. With two threads they are not.                              *)
(***************************************************************************)
EXTENDS TlsPatch, TLAPS, WellFoundedInduction, FiniteSetTheorems

----------------------------------------------------------------------------
(* The policy.                                                             *)

\* Entries of xor_pending and tc_pending are records of their fields.
XorShape(e) == e = [id |-> e.id, conn |-> e.conn, len |-> e.len,
                    patches |-> e.patches, memory |-> e.memory, old |-> e.old]
TcShape(e)  == e = [id |-> e.id, ssl |-> e.ssl, len |-> e.len,
                    patches |-> e.patches, active |-> e.active, seq |-> e.seq]

XorBound == xor # None => XorShape(xor) /\ \A p \in xor.patches : p.secret \in Bound

TcAllowed ==
  /\ tc = [c \in Conn |-> tc[c]]
  /\ \A c \in Conn : tc[c] # None =>
       /\ TcShape(tc[c])
       /\ \A p \in tc[c].patches : p.secret \in Bound /\ c \in Allowed[p.secret]

PatchedAllowed == patched = [c \in Conn |-> patched[c]] /\ SecretOnlyWhereAllowed

PolicyInv == XorBound /\ TcAllowed /\ PatchedAllowed

----------------------------------------------------------------------------
\* Nothing is staged, bridged or patched at first.
LEMMA PolicyInit == Init => PolicyInv
BY DEF Init, PolicyInv, XorBound, TcAllowed, PatchedAllowed, SecretOnlyWhereAllowed

\* The write uprobes stage patches of bound secrets only (XorPatches), or leave
\* xor_pending as it is.
LEMMA WriteKeepsPolicy ==
  ASSUME PolicyInv, NEW t \in Thread, NEW c \in Conn, NEW pl \in Payload, SslWrite(t, c, pl)
  PROVE  PolicyInv'
<1>1. UNCHANGED <<tc, patched>>
  BY DEF SslWrite, peerVars
<1>2. XorBound'
  <2>1. CASE XorPatches(pl) = {}
    BY <2>1 DEF SslWrite, PolicyInv, XorBound, XorShape
  <2>2. CASE XorPatches(pl) # {}
    <3>1. xor' = [id |-> writes + 1, conn |-> c, len |-> pl.len,
                  patches |-> XorPatches(pl), memory |-> MemoryBio[c], old |-> FALSE]
      BY <2>2 DEF SslWrite
    <3>2. \A p \in XorPatches(pl) : p.secret \in Bound
      BY DEF XorPatches
    <3>3. QED
      BY <3>1, <3>2 DEF XorBound, XorShape
  <2>3. QED
    BY <2>1, <2>2
<1>3. QED
  BY <1>1, <1>2 DEF PolicyInv, TcAllowed, PatchedAllowed, SecretOnlyWhereAllowed

\* The kprobe writes to tc_pending of c only patches FilterPatches keeps for c.
LEMMA BridgeKeepsPolicy ==
  ASSUME XorBound, TcAllowed, NEW c, Bridge(c)
  PROVE  XorBound' /\ TcAllowed'
<1> DEFINE kept == FilterPatches(c, xor.patches)
           entry == TcEntry(c)
<1>1. xor' = xor \/ xor' = None
  BY DEF Bridge, BridgeTo, Leftover
<1>2. XorBound'
  BY <1>1 DEF XorBound, XorShape
<1>3. tc' = tc \/ (xor # None /\ tc' = [tc EXCEPT ![c] = entry])
  BY DEF Bridge, BridgeTo, Leftover
<1>4. CASE tc' = tc
  BY <1>2, <1>4 DEF TcAllowed
<1>5. CASE xor # None /\ tc' = [tc EXCEPT ![c] = entry]
  <2>1. \A p \in kept : p.secret \in Bound /\ c \in Allowed[p.secret]
    BY <1>5 DEF XorBound, FilterPatches
  <2>2. TcShape(entry) /\ entry.patches = kept
    BY DEF TcShape, TcEntry
  <2> HIDE DEF entry, kept
  <2>3. tc' = [d \in Conn |-> tc'[d]] /\ (c \in Conn => tc'[c] = entry)
        /\ \A d \in Conn \ {c} : tc'[d] = tc[d]
    BY <1>5 DEF TcAllowed
  <2>4. ASSUME NEW d \in Conn, tc'[d] # None
        PROVE  /\ TcShape(tc'[d])
               /\ \A p \in tc'[d].patches : p.secret \in Bound /\ d \in Allowed[p.secret]
    <3>1. CASE d = c
      BY <3>1, <2>1, <2>2, <2>3, <2>4
    <3>2. CASE d # c
      BY <3>2, <2>3, <2>4 DEF TcAllowed
    <3>3. QED
      BY <3>1, <3>2
  <2>5. TcAllowed'
    BY <2>3, <2>4 DEF TcAllowed
  <2>6. QED
    BY <1>2, <2>5
<1>6. QED
  BY <1>3, <1>4, <1>5

\* A segment delivered with the patches ps, all allowed on c, or lost.
LEMMA DeliverKeepsPolicy ==
  ASSUME PatchedAllowed, NEW c \in Conn, NEW hi, NEW ps, NEW fs, Deliver(c, hi, ps, fs),
         \A p \in ps : p.secret \in Bound /\ c \in Allowed[p.secret]
  PROVE  PatchedAllowed'
<1>1. patched' = patched \/ patched' = [patched EXCEPT ![c] = @ \cup ps]
  BY DEF Deliver
<1>2. QED
  BY <1>1 DEF PatchedAllowed, SecretOnlyWhereAllowed

\* tc_egress_patch patches the packets of c with patches of tc_pending of c.
LEMMA EgressKeepsPolicy ==
  ASSUME PolicyInv, NEW c \in Conn, Egress(c)
  PROVE  PolicyInv'
<1>1. PICK hi : EgressTag(c, hi) \/ EgressPass(c, hi) \/ EgressPatch(c, hi)
  BY DEF Egress
<1>2. CASE EgressTag(c, hi)
  <2>1. UNCHANGED <<xor, tc>> /\ \E fs : Deliver(c, hi, {}, fs)
    BY <1>2 DEF EgressTag
  <2>2. PatchedAllowed'
    BY <2>1, DeliverKeepsPolicy DEF PolicyInv
  <2>3. QED
    BY <2>1, <2>2 DEF PolicyInv, XorBound, TcAllowed
<1>3. CASE EgressPass(c, hi)
  <2>1. UNCHANGED <<xor, tc>> /\ Deliver(c, hi, {}, {})
    BY <1>3 DEF EgressPass
  <2>2. PatchedAllowed'
    BY <2>1, DeliverKeepsPolicy DEF PolicyInv
  <2>3. QED
    BY <2>1, <2>2 DEF PolicyInv, XorBound, TcAllowed
<1>4. CASE EgressPatch(c, hi)
  <2>1. PICK tg \in Targets(c, sent[c], hi) :
          /\ tc' = [tc EXCEPT ![c].active = FALSE]
          /\ \E fs : Deliver(c, hi, Applied(c, tg, hi), fs)
    BY <1>4 DEF EgressPatch
  <2>2. xor' = xor
    BY <1>4 DEF EgressPatch
  <2>3. tc[c] # None
    BY <2>1 DEF Targets
  <2>4. \A p \in Applied(c, tg, hi) : p.secret \in Bound /\ c \in Allowed[p.secret]
    BY <2>3 DEF Applied, PolicyInv, TcAllowed
  <2>5. PatchedAllowed'
    BY <2>1, <2>4, DeliverKeepsPolicy DEF PolicyInv
  <2>6. TcAllowed'
    <3>1. TcShape(tc[c]) /\ tc = [d \in Conn |-> tc[d]]
      BY <2>3 DEF PolicyInv, TcAllowed
    <3>2. tc'[c] = [tc[c] EXCEPT !.active = FALSE]
          /\ (\A d \in Conn \ {c} : tc'[d] = tc[d]) /\ tc' = [d \in Conn |-> tc'[d]]
      BY <2>1, <3>1
    <3>3. TcShape(tc'[c]) /\ tc'[c].patches = tc[c].patches
      BY <3>1, <3>2 DEF TcShape
    <3>4. QED
      BY <2>3, <3>2, <3>3 DEF PolicyInv, TcAllowed
  <2>7. QED
    BY <2>2, <2>5, <2>6 DEF PolicyInv, XorBound
<1>5. QED
  BY <1>1, <1>2, <1>3, <1>4

\* Every step preserves the invariant, one action after the other.
LEMMA PolicyStep == PolicyInv /\ [Next]_vars => PolicyInv'
<1> SUFFICES ASSUME PolicyInv, [Next]_vars
             PROVE  PolicyInv'
  OBVIOUS
<1>1. CASE UNCHANGED vars
  BY <1>1 DEF vars, appVars, sendVars, peerVars, PolicyInv, XorBound, TcAllowed,
              PatchedAllowed, SecretOnlyWhereAllowed
<1>2. CASE \E t \in Thread, c \in Conn : Handshake(t, c)
  BY <1>2 DEF Handshake, peerVars, PolicyInv, XorBound, TcAllowed, PatchedAllowed,
              SecretOnlyWhereAllowed
<1>3. CASE \E t \in Thread, c \in Conn, pl \in Payload : SslWrite(t, c, pl)
  BY <1>3, WriteKeepsPolicy
<1>4. CASE \E t \in Thread : TcpSendmsg(t)
  <2>1. PICK t \in Thread : TcpSendmsg(t)
    BY <1>4
  <2>2. Bridge(thr[t].conn) /\ patched' = patched
    BY <2>1 DEF TcpSendmsg, peerVars
  <2>3. QED
    BY <2>2, BridgeKeepsPolicy DEF PolicyInv, PatchedAllowed, SecretOnlyWhereAllowed
<1>5. CASE \E c \in Conn : Flush(c)
  <2>1. PICK c \in Conn : Flush(c)
    BY <1>5
  <2>2. Bridge(c) /\ patched' = patched
    BY <2>1 DEF Flush, peerVars
  <2>3. QED
    BY <2>2, BridgeKeepsPolicy DEF PolicyInv, PatchedAllowed, SecretOnlyWhereAllowed
<1>6. CASE Expire
  <2>1. xor # None /\ xor' = [xor EXCEPT !.old = TRUE] /\ UNCHANGED <<tc, patched>>
    BY <1>6 DEF Expire, peerVars
  <2>2. XorBound'
    BY <2>1 DEF PolicyInv, XorBound, XorShape
  <2>3. QED
    BY <2>1, <2>2 DEF PolicyInv, TcAllowed, PatchedAllowed, SecretOnlyWhereAllowed
<1>7. CASE \E s \in Secret : Revoke(s)
  BY <1>7 DEF Revoke, peerVars, PolicyInv, XorBound, TcAllowed, PatchedAllowed,
              SecretOnlyWhereAllowed
<1>8. CASE \E c \in Conn : Egress(c)
  BY <1>8, EgressKeepsPolicy
<1>9. CASE \E c \in Conn : Evict(c)
  <2>1. PICK c \in Conn : Evict(c)
    BY <1>9
  <2>2. UNCHANGED <<xor, patched>> /\ (tc' = tc \/ tc' = [tc EXCEPT ![c] = None])
    BY <2>1 DEF Evict, peerVars
  <2>3. tc' = [d \in Conn |-> tc'[d]] /\ \A d \in Conn : tc'[d] = tc[d] \/ tc'[d] = None
    BY <2>2 DEF PolicyInv, TcAllowed
  <2>4. TcAllowed'
    BY <2>3 DEF PolicyInv, TcAllowed, TcShape
  <2>5. QED
    BY <2>2, <2>4 DEF PolicyInv, XorBound, PatchedAllowed, SecretOnlyWhereAllowed
<1>10. QED
  BY <1>1, <1>2, <1>3, <1>4, <1>5, <1>6, <1>7, <1>8, <1>9 DEF Next

\* No packet of a connection is ever patched with a secret the kprobe refuses
\* there or the pod is not bound to (socket_filter_patches, bpf_xor_path,
\* tc_egress_patch): threads that share xor_pending, memory BIOs that bridge it
\* again and again, and stale entries may spoil a record, never the policy.
THEOREM PolicyHolds == Spec => []SecretOnlyWhereAllowed
<1>1. PolicyInv => SecretOnlyWhereAllowed
  BY DEF PolicyInv, PatchedAllowed
<1>2. QED
  BY <1>1, PolicyInit, PolicyStep, PTL DEF Spec

----------------------------------------------------------------------------
(* The stream of connections whose library writes to the socket.           *)

SocketBio == \A c \in Conn : ~MemoryBio[c]

----------------------------------------------------------------------------
(* The inductive invariants.                                               *)

\* A thread with records to send is in a call on a connection.
CallOK == \A t \in Thread : thr[t].recs # <<>> => thr[t].conn \in Conn

\* Records lie one behind the other, all of them within what is queued.
LayoutOK ==
  \A c \in Conn :
    /\ sent[c] <= queued[c]
    /\ \A i \in 1 .. Len(stream[c]) : End(c, stream[c][i]) <= queued[c]
    /\ \A i, j \in 1 .. Len(stream[c]) :
         stream[c][i].start = stream[c][j].start => i = j

\* Nothing is ever in a memory BIO.
NoBuffer == \A c \in Conn : buf[c] = <<>>

StreamInv == TypeOK /\ CallOK /\ LayoutOK /\ NoBuffer

\* Sequence numbers of what is queued do not wrap around.
NoWrap == \A c \in Conn : ISN + queued[c] < SeqSpace

\* The pending tag correction of a connection is for an application_data
\* record whose tag has not left, and names the tag's sequence number.
Pending(c) ==
  \E i \in 1 .. Len(stream[c]) :
    LET r == stream[c][i] IN
    /\ r.kind = "app" /\ tagp[c].fix.start = r.start
    /\ tagp[c].seq = Seq32(TagPos(c, r))
    /\ sent[c] <= TagPos(c, r)

PendingOK == \A c \in Conn : tagp[c] # None => Pending(c)

TagInv == StreamInv /\ PendingOK

----------------------------------------------------------------------------
(* Numbers.                                                                *)

\* A non-empty set of numbers has a least one.
LEMMA MinIn ==
  ASSUME NEW S \in SUBSET Nat, S # {}
  PROVE  Min(S) \in S /\ \A y \in S : Min(S) <= y
<1>1. PICK x \in S : \A y \in S : ~ (<<y, x>> \in OpToRel(<, Nat))
  BY WFMin, NatLessThanWellFounded, Zenon
<1>2. OpToRel(<, Nat) = {ss \in Nat \X Nat : ss[1] < ss[2]}
  BY Zenon DEF OpToRel
<1>3. \A y \in S : x <= y
  <2> SUFFICES ASSUME NEW y \in S, y < x PROVE FALSE
    OBVIOUS
  <2>1. <<y, x>> \in {ss \in Nat \X Nat : ss[1] < ss[2]}
    OBVIOUS
  <2> QED
    BY <1>1, <1>2, <2>1, Zenon
<1> QED
  BY <1>3 DEF Min

\* n records of m hold a write of len, and all of them are needed.
LEMMA RecordCount ==
  ASSUME NEW len \in Nat \ {0}, NEW m \in Nat \ {0}
  PROVE  LET n == (len + m - 1) \div m
         IN  n \in Nat \ {0} /\ \A k \in 1 .. n : (k - 1) * m \in Nat /\ (k - 1) * m < len
<1> DEFINE n == (len + m - 1) \div m
<1>1. n \in Int /\ m * n <= len + m - 1 /\ len + m - 1 < m * (n + 1)
  OBVIOUS
<1> HIDE DEF n
<1>2. n \in Nat \ {0}
  <2> SUFFICES ASSUME n <= 0 PROVE FALSE
    BY <1>1
  <2>1. m * (n + 1) <= m
    BY <1>1
  <2> QED
    BY <1>1, <2>1
<1>3. ASSUME NEW k \in 1 .. n PROVE (k - 1) * m \in Nat /\ (k - 1) * m < len
  <2>1. (k - 1) * m <= (n - 1) * m
    BY <1>2
  <2>2. (n - 1) * m = m * n - m
    BY <1>2
  <2>3. (k - 1) * m \in Nat
    BY <1>2
  <2> QED
    BY <1>1, <1>2, <2>1, <2>2, <2>3
<1> QED
  BY <1>2, <1>3 DEF n

----------------------------------------------------------------------------
(* Records.                                                                *)

\* Where a record lies: its tag and its end are behind its header.
LEMMA RecordSize ==
  ASSUME NEW c \in Conn, NEW r, r.len \in Nat, r.start \in Nat, r.kind \in {"app", "skip"}
  PROVE  /\ RecLen(c, r) \in Nat /\ End(c, r) \in Nat
         /\ r.start < End(c, r)
         /\ r.kind = "app" => /\ TagPos(c, r) \in Nat /\ r.start <= TagPos(c, r)
                              /\ TagPos(c, r) + TagLen = End(c, r)
<1>1. HdrLen \in Nat \ {0} /\ NonceLen \in Nat /\ TypeLen \in Nat /\ TagLen \in Nat
  BY TlsPatchConstants
<1> QED
  BY <1>1 DEF RecLen, WireLen, End, TagPos

\* The placeholders of a write are numbered in their order.
LEMMA PlaceholdersType ==
  ASSUME NEW pl \in Payload
  PROVE  /\ Placeholders(pl) \in SUBSET Placeholder
         /\ \A h \in Placeholders(pl) :
              LET p == [off |-> h.off, secret |-> h.secret]
              IN  p \in pl.secrets /\ h.nth = Before(pl, p)
<1>1. pl.secrets \in SUBSET Patch /\ IsFiniteSet(pl.secrets)
  BY TlsPatchConstants
<1>2. ASSUME NEW p \in pl.secrets
      PROVE  /\ p = [off |-> p.off, secret |-> p.secret]
             /\ p.off \in Nat /\ p.secret \in Secret /\ Before(pl, p) \in Nat
  <2>1. IsFiniteSet({q \in pl.secrets : q.off < p.off})
    BY <1>1, FS_Subset
  <2>2. Before(pl, p) \in Nat
    BY <2>1, FS_CardinalityType DEF Before
  <2> QED
    BY <1>1, <2>2 DEF Patch
<1> QED
  BY <1>2 DEF Placeholders, Placeholder

\* A write becomes at least one record.
LEMMA FragmentsType ==
  ASSUME NEW id \in Nat, NEW len \in Nat \ {0},
         NEW text \in SUBSET Placeholder, NEW patches \in SUBSET Patch
  PROVE  /\ Fragments(id, len, text, patches) \in Seq(Unsent)
         /\ Len(Fragments(id, len, text, patches)) \in Nat \ {0}
<1> DEFINE n == (len + MaxRecord - 1) \div MaxRecord
           rec(k) == LET off == (k - 1) * MaxRecord
                         l   == Min({MaxRecord, len - off})
                     IN [id |-> id, kind |-> "app", off |-> off, len |-> l,
                         holds |-> {p \in text : off <= p.off /\ p.off < off + l},
                         staged |-> {p \in patches : off <= p.off /\ p.off < off + l}]
<1>1. MaxRecord \in Nat \ {0}
  BY TlsPatchConstants
<1>2. n \in Nat \ {0} /\ \A k \in 1 .. n : (k - 1) * MaxRecord \in Nat /\ (k - 1) * MaxRecord < len
  BY <1>1, RecordCount
<1>3. ASSUME NEW k \in 1 .. n PROVE rec(k) \in Unsent
  <2>1. len - (k - 1) * MaxRecord \in Nat
    BY <1>2
  <2>2. Min({MaxRecord, len - (k - 1) * MaxRecord}) \in Nat
    <3>1. {MaxRecord, len - (k - 1) * MaxRecord} \in SUBSET Nat
      BY <1>1, <2>1
    <3> QED
      BY <3>1, MinIn
  <2> QED
    BY <1>2, <2>2 DEF Unsent
<1>4. Fragments(id, len, text, patches) = [k \in 1 .. n |-> rec(k)]
  BY DEF Fragments
<1> HIDE DEF n, rec
<1> QED
  BY <1>2, <1>3, <1>4

\* The first record of a write is sent where the stream ends.
LEMMA QueueOne ==
  ASSUME NEW c \in Conn, NEW r \in Unsent, StreamInv, Queue(c, <<r>>)
  PROVE  LET new == [id |-> r.id, kind |-> r.kind, off |-> r.off, len |-> r.len,
                     holds |-> r.holds, staged |-> r.staged, start |-> queued[c]]
         IN  /\ new \in Placed
             /\ stream' = [stream EXCEPT ![c] = Append(stream[c], new)]
             /\ queued' = [queued EXCEPT ![c] = End(c, new)]
<1> DEFINE q == queued[c]
           w == WireLen(c, r)
           new == [id |-> r.id, kind |-> r.kind, off |-> r.off, len |-> r.len,
                   holds |-> r.holds, staged |-> r.staged, start |-> q]
           fcn(p) == [k \in 0 .. Len(<<r>>) |->
                        IF k = 0 THEN q ELSE p[k - 1] + WireLen(c, <<r>>[k])]
           pos == CHOOSE p : p = fcn(p)
<1>1. q \in Nat /\ new \in Placed
  BY DEF StreamInv, TypeOK, Unsent, Placed
<1>2. WireLen(c, new) = w
  BY DEF WireLen, RecLen
<1>3. \E p : p = fcn(p)
  <2> DEFINE p0 == [k \in 0 .. 1 |-> IF k = 0 THEN q ELSE q + w]
  <2>1. \A k \in 0 .. 1 : p0[k] = IF k = 0 THEN q ELSE p0[k - 1] + WireLen(c, <<r>>[k])
    OBVIOUS
  <2>2. p0 = fcn(p0)
    BY <2>1
  <2> QED
    BY <2>2
<1>4. pos = fcn(pos)
  BY <1>3
<1> HIDE DEF pos
<1>5. pos[0] = q /\ pos[1] = q + w
  BY <1>4
<1>6. /\ stream' = [stream EXCEPT ![c] =
                     @ \o [k \in 1 .. Len(<<r>>) |->
                       [id |-> <<r>>[k].id, kind |-> <<r>>[k].kind, off |-> <<r>>[k].off,
                        len |-> <<r>>[k].len, holds |-> <<r>>[k].holds,
                        staged |-> <<r>>[k].staged, start |-> pos[k - 1]]]]
      /\ queued' = [queued EXCEPT ![c] = pos[Len(<<r>>)]]
  BY DEF Queue, pos
<1>7. [k \in 1 .. Len(<<r>>) |->
         [id |-> <<r>>[k].id, kind |-> <<r>>[k].kind, off |-> <<r>>[k].off,
          len |-> <<r>>[k].len, holds |-> <<r>>[k].holds,
                        staged |-> <<r>>[k].staged, start |-> pos[k - 1]]] = <<new>>
  BY <1>5
<1>8. stream[c] \o <<new>> = Append(stream[c], new)
  BY <1>1 DEF StreamInv, TypeOK
<1> QED
  BY <1>1, <1>2, <1>5, <1>6, <1>7, <1>8 DEF End

----------------------------------------------------------------------------
(* Types and layout.                                                       *)

\* A record of the stream has its fields.
LEMMA StreamRecord ==
  ASSUME TypeOK, NEW c \in Conn, NEW i \in 1 .. Len(stream[c])
  PROVE  LET r == stream[c][i] IN
         /\ r \in Placed
         /\ r.start \in Nat /\ r.len \in Nat /\ r.kind \in {"app", "skip"}
<1>1. stream[c] \in Seq(Placed)
  BY DEF TypeOK
<1>2. stream[c][i] \in Placed
  BY <1>1
<1> QED
  BY <1>2 DEF Placed

\* The record tc_egress_patch picks is an application_data record of the
\* stream whose header is in the segment.
LEMMA TargetRecord ==
  ASSUME StreamInv, NEW c \in Conn, NEW lo \in Nat, NEW hi \in Nat,
         NEW tg \in Targets(c, lo, hi)
  PROVE  /\ tc[c] # None /\ tg.nonce \in Nat
         /\ \E i \in 1 .. Len(stream[c]) :
              /\ tg.rec = stream[c][i] /\ tg.rec.kind = "app"
              /\ lo <= tg.rec.start /\ tg.rec.start < hi
<1> DEFINE nonces == IF KnowsVersion THEN {Nonce(tc[c].ssl)} ELSE {0, NonceLen}
           fits(a) == {i \in Heads(c, lo, hi) :
                         /\ a <= i /\ i <= a + Scan
                         /\ stream[c][i].kind = "app"
                         /\ \E n \in nonces : LenMatch(c, i, n)}
           target(a) ==
             IF fits(a) # {}
             THEN [rec |-> stream[c][Min(fits(a))],
                   nonce |-> CHOOSE n \in nonces : LenMatch(c, Min(fits(a)), n)]
             ELSE [rec |-> stream[c][a], nonce |-> Max(nonces)]
<1>1. tc[c] # None /\ \E a \in FirstApp(c, lo, hi) : tg = target(a)
  BY DEF Targets
<1>2. PICK a \in FirstApp(c, lo, hi) : tg = target(a)
  BY <1>1
<1>3. HdrLen \in Nat \ {0} /\ NonceLen \in Nat
  BY TlsPatchConstants
<1>4. nonces \subseteq Nat /\ nonces # {}
  BY <1>3 DEF Nonce
<1>6. ASSUME NEW i \in Heads(c, lo, hi)
      PROVE  /\ i \in 1 .. Len(stream[c]) /\ lo <= stream[c][i].start
             /\ stream[c][i].start < hi
  <2>1. i \in 1 .. Len(stream[c]) /\ lo <= stream[c][i].start /\ stream[c][i].start + HdrLen <= hi
    BY <1>6 DEF Heads
  <2>2. stream[c][i].start \in Nat
    BY <2>1, StreamRecord DEF StreamInv
  <2> QED
    BY <1>3, <2>1, <2>2
<1>7. a \in Heads(c, lo, hi) /\ stream[c][a].kind = "app"
  BY DEF FirstApp
<1>8. CASE fits(a) # {}
  <2>1. fits(a) \in SUBSET Nat
    BY <1>6
  <2> HIDE DEF fits
  <2>2. Min(fits(a)) \in fits(a)
    BY <1>8, <2>1, MinIn
  <2> DEFINE m == Min(fits(a))
  <2> HIDE DEF m
  <2>3. m \in Heads(c, lo, hi) /\ stream[c][m].kind = "app" /\ \E n \in nonces : LenMatch(c, m, n)
    BY <2>2 DEF fits, m
  <2>4. tg = [rec |-> stream[c][m], nonce |-> CHOOSE n \in nonces : LenMatch(c, m, n)]
    BY <1>2, <1>8 DEF m
  <2> HIDE DEF nonces
  <2>5. tg.rec = stream[c][m] /\ tg.nonce \in nonces
    BY <2>3, <2>4
  <2> QED
    BY <1>1, <1>4, <1>6, <2>3, <2>5
<1>9. CASE fits(a) = {}
  <2>1. tg = [rec |-> stream[c][a], nonce |-> Max(nonces)]
    BY <1>2, <1>9
  <2>2. Max(nonces) \in nonces
    <3>1. CASE KnowsVersion
      BY <1>4, <3>1 DEF Max
    <3>2. CASE ~KnowsVersion
      <4>1. nonces = {0, NonceLen} /\ \A y \in {0, NonceLen} : NonceLen >= y
        BY <1>3, <3>2
      <4> HIDE DEF nonces
      <4> QED
        BY <4>1 DEF Max
    <3> QED
      BY <3>1, <3>2
  <2> HIDE DEF nonces
  <2>3. tg.rec = stream[c][a] /\ tg.nonce \in nonces
    BY <2>1, <2>2
  <2> QED
    BY <1>1, <1>4, <1>6, <1>7, <2>3
<1> QED
  BY <1>8, <1>9

\* What tc_egress_patch stores, and the correction it computes.
LEMMA PatchType ==
  ASSUME StreamInv, NEW c \in Conn, NEW lo \in Nat, NEW hi \in Nat,
         NEW tg \in Targets(c, lo, hi)
  PROVE  LET ps == Applied(c, tg, hi) IN
         /\ ps \subseteq [pos : Nat, off : Nat, secret : Secret, id : Nat]
         /\ Correction(c, tg, ps) \in Fix
<1> DEFINE ps == Applied(c, tg, hi)
<1>1. /\ tc[c] \in [id : Nat, ssl : Conn, len : Nat, patches : SUBSET Patch,
                    active : BOOLEAN, seq : Nat]
      /\ tg.nonce \in Nat /\ tg.rec.start \in Nat /\ HdrLen \in Nat
  <2>0. tc[c] # None /\ tg.nonce \in Nat /\ \E i \in 1 .. Len(stream[c]) : tg.rec = stream[c][i]
    BY TargetRecord
  <2>1. tc[c] # None /\ tg.nonce \in Nat /\ tg.rec.start \in Nat
    <3>1. PICK i \in 1 .. Len(stream[c]) : tg.rec = stream[c][i]
      BY <2>0
    <3>2. stream[c][i].start \in Nat
      BY StreamRecord DEF StreamInv
    <3> QED
      BY <2>0, <3>1, <3>2
  <2> QED
    BY <2>1, TlsPatchConstants DEF StreamInv, TypeOK
<1>2. ps \subseteq [pos : Nat, off : Nat, secret : Secret, id : Nat]
  BY <1>1 DEF Applied, Patch
<1> HIDE DEF ps
<1>3. Correction(c, tg, ps) \in Fix
  <2>1. {p.pos : p \in ps} \in SUBSET Nat
    BY <1>2
  <2>2. (/\ tc[c].ssl = c /\ tg.nonce = Nonce(c)
         /\ \A p \in ps : p.pos < TagPos(c, tg.rec)) \in BOOLEAN
    BY Zenon
  <2> QED
    BY <1>1, <2>1, <2>2 DEF Correction, Fix
<1> QED
  BY <1>2, <1>3 DEF ps

\* A segment that is delivered, or lost.
LEMMA DeliverType ==
  ASSUME TypeOK, NEW c \in Conn, NEW hi \in Nat,
         NEW ps \in SUBSET [pos : Nat, off : Nat, secret : Secret, id : Nat],
         NEW fs \in SUBSET Fix, Deliver(c, hi, ps, fs)
  PROVE  /\ patched' \in [Conn -> SUBSET [pos : Nat, off : Nat, secret : Secret, id : Nat]]
         /\ fixed' \in [Conn -> SUBSET Fix]
         /\ losses' \in Nat
         /\ sent' = sent \/ sent' = [sent EXCEPT ![c] = hi]
<1>1. patched' = patched \/ patched' = [patched EXCEPT ![c] = @ \cup ps]
  BY DEF Deliver
<1>2. fixed' = fixed \/ fixed' = [fixed EXCEPT ![c] = @ \cup fs]
  BY DEF Deliver
<1>3. losses' \in Nat /\ (sent' = sent \/ sent' = [sent EXCEPT ![c] = hi])
  BY DEF Deliver, TypeOK
<1>4. patched' \in [Conn -> SUBSET [pos : Nat, off : Nat, secret : Secret, id : Nat]]
  <2> DEFINE P == [pos : Nat, off : Nat, secret : Secret, id : Nat]
  <2>1. patched \in [Conn -> SUBSET P] /\ ps \in SUBSET P
    BY DEF TypeOK
  <2> HIDE DEF P
  <2>2. patched' \in [Conn -> SUBSET P]
    BY <1>1, <2>1
  <2> QED
    BY <2>2 DEF P
<1>5. fixed' \in [Conn -> SUBSET Fix]
  <2>1. fixed \in [Conn -> SUBSET Fix]
    BY DEF TypeOK
  <2> QED
    BY <1>2, <2>1
<1> QED
  BY <1>3, <1>4, <1>5

\* A call hands its records to the thread, which sends them one by one.
LEMMA EmitType ==
  ASSUME SocketBio, StreamInv, NEW t \in Thread, NEW c \in Conn,
         NEW recs \in Seq(Unsent), Emit(t, c, recs)
  PROVE  /\ thr' = [thr EXCEPT ![t] = [conn |-> c, recs |-> recs]]
         /\ thr' \in [Thread -> [conn : Conn \cup {None}, recs : Seq(Unsent)]]
         /\ CallOK' /\ buf' = buf
<1>1. thr' = [thr EXCEPT ![t] = [conn |-> c, recs |-> recs]] /\ buf' = buf
  BY DEF Emit, SocketBio
<1>2. thr' \in [Thread -> [conn : Conn \cup {None}, recs : Seq(Unsent)]]
  BY <1>1 DEF StreamInv, TypeOK
<1>3. CallOK'
  BY <1>1 DEF StreamInv, TypeOK, CallOK
<1> QED
  BY <1>1, <1>2, <1>3

\* The records of the handshake are records.
LEMMA HandshakeRecords ==
  ASSUME NEW c \in Conn
  PROVE  Hello \in Unsent /\ Finished(c) \in Unsent
  BY TlsPatchConstants DEF Hello, Finished, Unsent

\* A sequence number is a number, and does not wrap below the end of the
\* sequence space.
LEMMA SeqNumber ==
  ASSUME NEW n \in Nat
  PROVE  Seq32(n) \in Nat /\ (ISN + n < SeqSpace => Seq32(n) = ISN + n)
<1>1. ISN \in Nat /\ SeqSpace \in Nat \ {0}
  BY TlsPatchConstants
<1> QED
  BY <1>1 DEF Seq32

\* Up to the end of what is queued the sequence numbers do not wrap around.
LEMMA SeqInOrder ==
  ASSUME TypeOK, NoWrap, NEW c \in Conn, NEW n \in Nat, n <= queued[c]
  PROVE  Seq32(n) = ISN + n /\ (ISN + n) % SeqSpace = ISN + n
<1>1. ISN \in Nat /\ SeqSpace \in Nat \ {0}
  BY TlsPatchConstants
<1>2. queued[c] \in Nat /\ ISN + queued[c] < SeqSpace
  BY DEF TypeOK, NoWrap
<1>3. ISN + n \in Nat /\ ISN + n < SeqSpace
  BY <1>1, <1>2
<1>4. (ISN + n) % SeqSpace = ISN + n
  BY <1>1, <1>3
<1> QED
  BY <1>4 DEF Seq32

\* The kprobe moves well-formed entries.
LEMMA BridgeType ==
  ASSUME TypeOK, NEW c \in Conn, Bridge(c)
  PROVE  /\ xor' = xor \/ xor' = None
         /\ tc' \in [Conn -> [id : Nat, ssl : Conn, len : Nat, patches : SUBSET Patch,
                              active : BOOLEAN, seq : Nat] \cup {None}]
<1>1. xor' = xor \/ xor' = None
  BY DEF Bridge, BridgeTo, Leftover
<1>2. tc' = tc \/ (xor # None /\ tc' = [tc EXCEPT ![c] = TcEntry(c)])
  BY DEF Bridge, BridgeTo
<1>3. ASSUME xor # None
      PROVE  TcEntry(c) \in [id : Nat, ssl : Conn, len : Nat, patches : SUBSET Patch,
                             active : BOOLEAN, seq : Nat]
  <2>1. xor \in [id : Nat, conn : Conn, len : Nat, patches : SUBSET Patch,
                 memory : BOOLEAN, old : BOOLEAN]
    BY <1>3 DEF TypeOK
  <2>2. FilterPatches(c, xor.patches) \in SUBSET Patch
    BY <2>1 DEF FilterPatches
  <2>3. Seq32(queued[c]) \in Nat
    BY SeqNumber DEF TypeOK
  <2> QED
    BY <2>1, <2>2, <2>3 DEF TcEntry
<1>4. CASE tc' = tc
  BY <1>1, <1>4 DEF TypeOK
<1>5. CASE xor # None /\ tc' = [tc EXCEPT ![c] = TcEntry(c)]
  BY <1>1, <1>3, <1>5 DEF TypeOK
<1> QED
  BY <1>2, <1>4, <1>5

\* Handshakes and writes.
LEMMA StreamCalls ==
  ASSUME SocketBio, StreamInv, NEW t \in Thread, NEW c \in Conn,
         Handshake(t, c) \/ \E pl \in Payload : SslWrite(t, c, pl)
  PROVE  StreamInv'
<1>1. CASE Handshake(t, c)
  <2>1. /\ Emit(t, c, <<Hello>>) \/ Emit(t, c, <<Finished(c)>>)
        /\ opened' \in [Conn -> {"no", "hello", "yes"}]
        /\ UNCHANGED <<known, writes, xor, tc, tagp, stream, queued, sent, patched, fixed, losses>>
    BY <1>1 DEF Handshake, sendVars, peerVars, StreamInv, TypeOK
  <2>2. <<Hello>> \in Seq(Unsent) /\ <<Finished(c)>> \in Seq(Unsent)
    BY HandshakeRecords
  <2>3. /\ thr' \in [Thread -> [conn : Conn \cup {None}, recs : Seq(Unsent)]]
        /\ CallOK' /\ buf' = buf
    BY <2>1, <2>2, EmitType
  <2>4. TypeOK'
    BY <2>1, <2>3 DEF StreamInv, TypeOK
  <2> QED
    BY <2>1, <2>3, <2>4 DEF StreamInv, LayoutOK, NoBuffer
<1>2. CASE \E pl \in Payload : SslWrite(t, c, pl)
  <2>1. PICK pl \in Payload : SslWrite(t, c, pl)
    BY <1>2
  <2> DEFINE patches == XorPatches(pl)
             recs == Fragments(writes + 1, pl.len, Placeholders(pl), patches)
  <2>2. pl.len \in Nat \ {0} /\ patches \in SUBSET Patch
    BY TlsPatchConstants DEF XorPatches, Prescan
  <2>3. writes + 1 \in Nat
    BY DEF StreamInv, TypeOK
  <2>4. recs \in Seq(Unsent)
    BY <2>2, <2>3, PlaceholdersType, FragmentsType
  <2>5. /\ Emit(t, c, recs) \/ Emit(t, c, <<Hello, Finished(c)>> \o recs)
        /\ opened' \in [Conn -> {"no", "hello", "yes"}]
        /\ writes' = writes + 1
        /\ xor' = xor \/ xor' = [id |-> writes + 1, conn |-> c, len |-> pl.len,
                                 patches |-> patches, memory |-> MemoryBio[c], old |-> FALSE]
        /\ UNCHANGED <<known, tc, tagp, stream, queued, sent, patched, fixed, losses>>
    BY <2>1 DEF SslWrite, sendVars, peerVars, StreamInv, TypeOK
  <2> HIDE DEF recs, patches
  <2>6. <<Hello, Finished(c)>> \o recs \in Seq(Unsent)
    BY <2>4, HandshakeRecords
  <2>7. /\ thr' \in [Thread -> [conn : Conn \cup {None}, recs : Seq(Unsent)]]
        /\ CallOK' /\ buf' = buf
    BY <2>4, <2>5, <2>6, EmitType
  <2>8. xor' \in [id : Nat, conn : Conn, len : Nat, patches : SUBSET Patch,
                  memory : BOOLEAN, old : BOOLEAN] \cup {None}
    <3>1. MemoryBio[c] \in BOOLEAN
      BY TlsPatchConstants
    <3>2. CASE xor' = xor
      BY <3>2 DEF StreamInv, TypeOK
    <3>3. CASE xor' = [id |-> writes + 1, conn |-> c, len |-> pl.len,
                       patches |-> patches, memory |-> MemoryBio[c], old |-> FALSE]
      BY <2>2, <2>3, <3>1, <3>3
    <3> QED
      BY <2>5, <3>2, <3>3
  <2>9. TypeOK'
    BY <2>3, <2>5, <2>7, <2>8 DEF StreamInv, TypeOK
  <2> QED
    BY <2>5, <2>7, <2>9 DEF StreamInv, LayoutOK, NoBuffer
<1> QED
  BY <1>1, <1>2

\* A record is appended behind everything the socket was given.
LEMMA StreamSends ==
  ASSUME StreamInv, NEW t \in Thread, TcpSendmsg(t)
  PROVE  StreamInv'
<1> DEFINE c == thr[t].conn
           r == Head(thr[t].recs)
           rest == Tail(thr[t].recs)
           new == [id |-> r.id, kind |-> r.kind, off |-> r.off, len |-> r.len,
                   holds |-> r.holds, staged |-> r.staged, start |-> queued[c]]
<1>1. thr[t].recs \in Seq(Unsent) /\ thr[t].recs # <<>> /\ c \in Conn
  BY DEF TcpSendmsg, StreamInv, TypeOK, CallOK
<1>2. r \in Unsent /\ rest \in Seq(Unsent)
  BY <1>1
<1>3. /\ new \in Placed
      /\ stream' = [stream EXCEPT ![c] = Append(stream[c], new)]
      /\ queued' = [queued EXCEPT ![c] = End(c, new)]
  BY <1>1, <1>2, QueueOne DEF TcpSendmsg
<1>4. /\ thr' = [thr EXCEPT ![t] = [conn |-> IF rest = <<>> THEN None ELSE c, recs |-> rest]]
      /\ UNCHANGED <<known, opened, buf, writes, tagp, sent, patched, fixed, losses>>
      /\ Bridge(c)
  BY DEF TcpSendmsg, peerVars
<1> HIDE DEF c, r, rest, new
<1>5. thr' \in [Thread -> [conn : Conn \cup {None}, recs : Seq(Unsent)]]
  BY <1>1, <1>2, <1>4 DEF StreamInv, TypeOK
<1>6. CallOK'
  BY <1>1, <1>4 DEF StreamInv, TypeOK, CallOK
<1>7. new.start = queued[c] /\ queued[c] \in Nat
  BY <1>1 DEF new, StreamInv, TypeOK
<1>8. End(c, new) \in Nat /\ queued[c] < End(c, new)
  BY <1>1, <1>3, <1>7, RecordSize DEF Placed
<1>9. TypeOK'
  <2>1. stream' \in [Conn -> Seq(Placed)] /\ queued' \in [Conn -> Nat]
    BY <1>1, <1>3, <1>8 DEF StreamInv, TypeOK
  <2>2. /\ xor' = xor \/ xor' = None
        /\ tc' \in [Conn -> [id : Nat, ssl : Conn, len : Nat, patches : SUBSET Patch,
                             active : BOOLEAN, seq : Nat] \cup {None}]
    BY <1>1, <1>4, BridgeType DEF StreamInv
  <2> QED
    BY <1>4, <1>5, <2>1, <2>2 DEF StreamInv, TypeOK
<1>10. LayoutOK'
  <2> SUFFICES ASSUME NEW d \in Conn
               PROVE  /\ sent[d] <= queued'[d]
                      /\ \A i \in 1 .. Len(stream'[d]) : End(d, stream'[d][i]) <= queued'[d]
                      /\ \A i, j \in 1 .. Len(stream'[d]) :
                           stream'[d][i].start = stream'[d][j].start => i = j
    BY <1>4 DEF LayoutOK
  <2>1. CASE d # c
    <3>1. stream'[d] = stream[d] /\ queued'[d] = queued[d]
      BY <1>1, <1>3, <2>1 DEF StreamInv, TypeOK
    <3> QED
      BY <3>1 DEF StreamInv, LayoutOK
  <2>2. CASE d = c
    <3>1. /\ stream'[c] = Append(stream[c], new) /\ queued'[c] = End(c, new)
          /\ stream[c] \in Seq(Placed) /\ sent[c] \in Nat
      BY <1>1, <1>3 DEF StreamInv, TypeOK
    <3> DEFINE n == Len(stream[c])
    <3>2. /\ n \in Nat /\ Len(stream'[c]) = n + 1 /\ stream'[c][n + 1] = new
          /\ \A i \in 1 .. n : stream'[c][i] = stream[c][i]
      BY <3>1
    <3>3. ASSUME NEW i \in 1 .. n
          PROVE  /\ End(c, stream[c][i]) <= queued[c] /\ End(c, stream[c][i]) \in Nat
                 /\ stream[c][i].start \in Nat /\ stream[c][i].start < queued[c]
      <4>1. End(c, stream[c][i]) <= queued[c]
        BY <1>1 DEF StreamInv, LayoutOK
      <4>2. /\ stream[c][i].start \in Nat /\ stream[c][i].start < End(c, stream[c][i])
            /\ End(c, stream[c][i]) \in Nat
        BY <1>1, StreamRecord, RecordSize DEF StreamInv
      <4> QED
        BY <1>7, <4>1, <4>2
    <3>4. sent[c] <= queued'[c]
      BY <1>1, <1>7, <1>8, <3>1 DEF StreamInv, LayoutOK
    <3>5. \A i \in 1 .. Len(stream'[c]) : End(c, stream'[c][i]) <= queued'[c]
      BY <1>7, <1>8, <3>1, <3>2, <3>3
    <3>6. \A i, j \in 1 .. n : stream[c][i].start = stream[c][j].start => i = j
      BY <1>1 DEF StreamInv, LayoutOK
    <3>7. \A i, j \in 1 .. Len(stream'[c]) :
            stream'[c][i].start = stream'[c][j].start => i = j
      <4> SUFFICES ASSUME NEW i \in 1 .. n + 1, NEW j \in 1 .. n + 1, i # j
                   PROVE  stream'[c][i].start # stream'[c][j].start
        BY <3>2
      <4>1. CASE i \in 1 .. n /\ j \in 1 .. n
        BY <3>2, <3>6, <4>1
      <4>0. ASSUME NEW k \in 1 .. n PROVE stream'[c][k].start # stream'[c][n + 1].start
        <5>1. stream'[c][k] = stream[c][k] /\ stream'[c][n + 1] = new
          BY <3>2
        <5>2. stream[c][k].start \in Nat /\ stream[c][k].start < queued[c]
          BY <3>3
        <5> QED
          BY <1>7, <5>1, <5>2
      <4>2. CASE i = n + 1 /\ j \in 1 .. n
        BY <4>0, <4>2
      <4>3. CASE i \in 1 .. n /\ j = n + 1
        BY <4>0, <4>3
      <4> QED
        BY <3>2, <4>1, <4>2, <4>3
    <3> QED
      BY <2>2, <3>4, <3>5, <3>7
  <2> QED
    BY <2>1, <2>2
<1> QED
  BY <1>4, <1>6, <1>9, <1>10 DEF StreamInv, NoBuffer

\* The segments of a connection lie within what is queued.
LEMMA StreamEgress ==
  ASSUME StreamInv, NEW c \in Conn, Egress(c)
  PROVE  StreamInv'
<1>0. sent[c] \in Nat /\ queued[c] \in Nat
  BY DEF StreamInv, TypeOK
<1>1. PICK hi \in sent[c] + 1 .. queued[c] :
        EgressTag(c, hi) \/ EgressPass(c, hi) \/ EgressPatch(c, hi)
  BY DEF Egress
<1>2. hi \in Nat /\ hi <= queued[c]
  BY <1>0, <1>1
<1>3. UNCHANGED <<known, opened, thr, buf, writes, stream, queued, xor>>
  BY <1>1 DEF EgressTag, EgressPass, EgressPatch, appVars, sendVars
<1>4. PICK ps \in SUBSET [pos : Nat, off : Nat, secret : Secret, id : Nat], fs \in SUBSET Fix :
        Deliver(c, hi, ps, fs)
  <2>1. CASE EgressTag(c, hi)
    <3>1. tagp[c].fix \in Fix
      BY <2>1 DEF EgressTag, StreamInv, TypeOK
    <3>2. {} \in SUBSET [pos : Nat, off : Nat, secret : Secret, id : Nat]
          /\ {tagp[c].fix} \in SUBSET Fix /\ {} \in SUBSET Fix
      BY <3>1
    <3> QED
      BY <2>1, <3>2 DEF EgressTag
  <2>2. CASE EgressPass(c, hi)
    <3>1. {} \in SUBSET [pos : Nat, off : Nat, secret : Secret, id : Nat] /\ {} \in SUBSET Fix
      OBVIOUS
    <3> QED
      BY <2>2, <3>1 DEF EgressPass
  <2>3. CASE EgressPatch(c, hi)
    <3>1. PICK tg \in Targets(c, sent[c], hi) :
            LET p == Applied(c, tg, hi)
            IN  Deliver(c, hi, p, {Correction(c, tg, p)}) \/ Deliver(c, hi, p, {})
      BY <2>3 DEF EgressPatch
    <3>2. /\ Applied(c, tg, hi) \in SUBSET [pos : Nat, off : Nat, secret : Secret, id : Nat]
          /\ {Correction(c, tg, Applied(c, tg, hi))} \in SUBSET Fix /\ {} \in SUBSET Fix
      BY <1>0, <1>2, PatchType
    <3> QED
      BY <3>1, <3>2
  <2> QED
    BY <1>1, <2>1, <2>2, <2>3
<1>5. /\ patched' \in [Conn -> SUBSET [pos : Nat, off : Nat, secret : Secret, id : Nat]]
      /\ fixed' \in [Conn -> SUBSET Fix] /\ losses' \in Nat
      /\ sent' = sent \/ sent' = [sent EXCEPT ![c] = hi]
  BY <1>2, <1>4, DeliverType DEF StreamInv
<1>6. tc' \in [Conn -> [id : Nat, ssl : Conn, len : Nat, patches : SUBSET Patch,
                        active : BOOLEAN, seq : Nat] \cup {None}]
  <2>1. CASE tc' = tc
    BY <2>1 DEF StreamInv, TypeOK
  <2>2. CASE EgressPatch(c, hi)
    <3>1. tc' = [tc EXCEPT ![c].active = FALSE] /\ \E tg : tg \in Targets(c, sent[c], hi)
      BY <2>2 DEF EgressPatch
    <3>2. tc[c] # None
      BY <3>1 DEF Targets
    <3>3. tc[c] \in [id : Nat, ssl : Conn, len : Nat, patches : SUBSET Patch,
                     active : BOOLEAN, seq : Nat]
      BY <3>2 DEF StreamInv, TypeOK
    <3>4. [tc[c] EXCEPT !.active = FALSE] \in
            [id : Nat, ssl : Conn, len : Nat, patches : SUBSET Patch,
             active : BOOLEAN, seq : Nat]
      BY <3>3
    <3>5. tc' = [tc EXCEPT ![c] = [tc[c] EXCEPT !.active = FALSE]]
      BY <3>1
    <3> QED
      BY <3>4, <3>5 DEF StreamInv, TypeOK
  <2> QED
    BY <1>1, <2>1, <2>2 DEF EgressTag, EgressPass
<1>7. tagp' \in [Conn -> [seq : Nat, fix : Fix] \cup {None}]
  <2>1. CASE tagp' = tagp \/ tagp' = [tagp EXCEPT ![c] = None]
    BY <2>1 DEF StreamInv, TypeOK
  <2>2. ASSUME NEW tg \in Targets(c, sent[c], hi),
               tagp' = [tagp EXCEPT ![c] =
                          [seq |-> Seq32(TagPos(c, tg.rec)),
                           fix |-> Correction(c, tg, Applied(c, tg, hi))]]
        PROVE  tagp' \in [Conn -> [seq : Nat, fix : Fix] \cup {None}]
    <3>1. Correction(c, tg, Applied(c, tg, hi)) \in Fix
      BY <1>0, <1>2, PatchType
    <3>2. Seq32(TagPos(c, tg.rec)) \in Nat
      <4>1. TagPos(c, tg.rec) \in Nat
        <5>1. PICK i \in 1 .. Len(stream[c]) : tg.rec = stream[c][i] /\ tg.rec.kind = "app"
          BY <1>0, <1>2, TargetRecord
        <5>2. stream[c][i].start \in Nat /\ stream[c][i].len \in Nat
          BY StreamRecord DEF StreamInv
        <5> QED
          BY <5>1, <5>2, RecordSize
      <4> QED
        BY <4>1, SeqNumber
    <3> QED
      BY <2>2, <3>1, <3>2 DEF StreamInv, TypeOK
  <2> QED
    BY <1>1, <2>1, <2>2 DEF EgressTag, EgressPass, EgressPatch
<1>8. TypeOK'
  <2>1. sent' \in [Conn -> Nat]
    BY <1>2, <1>5 DEF StreamInv, TypeOK
  <2>2. /\ known' \subseteq Secret
        /\ opened' \in [Conn -> {"no", "hello", "yes"}]
        /\ thr' \in [Thread -> [conn : Conn \cup {None}, recs : Seq(Unsent)]]
        /\ buf' \in [Conn -> Seq(Unsent)]
        /\ stream' \in [Conn -> Seq(Placed)]
        /\ queued' \in [Conn -> Nat] /\ writes' \in Nat
    BY <1>3 DEF StreamInv, TypeOK
  <2>3. xor' \in [id : Nat, conn : Conn, len : Nat, patches : SUBSET Patch,
                  memory : BOOLEAN, old : BOOLEAN] \cup {None}
    BY <1>3 DEF StreamInv, TypeOK
  <2> QED
    BY <1>5, <1>6, <1>7, <2>1, <2>2, <2>3 DEF TypeOK
<1>9. CallOK' /\ NoBuffer'
  BY <1>3 DEF StreamInv, CallOK, NoBuffer
<1>10. LayoutOK'
  <2>1. \A d \in Conn : sent'[d] <= queued[d]
    BY <1>2, <1>5 DEF StreamInv, TypeOK, LayoutOK
  <2> QED
    BY <1>3, <2>1 DEF StreamInv, LayoutOK
<1> QED
  BY <1>8, <1>9, <1>10 DEF StreamInv

\* Every step keeps types and layout.
LEMMA StreamStep ==
  ASSUME SocketBio, StreamInv, [Next]_vars
  PROVE  StreamInv'
<1>1. CASE UNCHANGED vars
  BY <1>1 DEF vars, appVars, sendVars, peerVars, StreamInv, TypeOK, CallOK, LayoutOK, NoBuffer
<1>2. CASE \E t \in Thread, c \in Conn :
             Handshake(t, c) \/ \E pl \in Payload : SslWrite(t, c, pl)
  BY <1>2, StreamCalls
<1>3. CASE \E t \in Thread : TcpSendmsg(t)
  BY <1>3, StreamSends
<1>4. ~ \E c \in Conn : Flush(c)
  BY DEF Flush, StreamInv, NoBuffer
<1>5. CASE Expire
  <2>1. xor' \in [id : Nat, conn : Conn, len : Nat, patches : SUBSET Patch,
                  memory : BOOLEAN, old : BOOLEAN]
    BY <1>5 DEF Expire, StreamInv, TypeOK
  <2> QED
    BY <1>5, <2>1 DEF Expire, appVars, sendVars, peerVars, StreamInv, TypeOK, CallOK,
       LayoutOK, NoBuffer
<1>6. CASE \E s \in Secret : Revoke(s)
  BY <1>6 DEF Revoke, sendVars, peerVars, StreamInv, TypeOK, CallOK, LayoutOK, NoBuffer
<1>7. CASE \E c \in Conn : Egress(c)
  BY <1>7, StreamEgress
<1>8. CASE \E c \in Conn : Evict(c)
  BY <1>8 DEF Evict, appVars, sendVars, peerVars, StreamInv, TypeOK, CallOK, LayoutOK, NoBuffer
<1> QED
  BY <1>1, <1>2, <1>3, <1>4, <1>5, <1>6, <1>7, <1>8 DEF Next

\* Nothing has been written at first.
LEMMA StreamInit == Init => StreamInv
  BY DEF Init, StreamInv, TypeOK, CallOK, LayoutOK, NoBuffer

\* Whatever is written and however the stream is cut, every entry of
\* xor_pending, tc_pending and tc_tag_pending and every record keeps its shape,
\* on connections whose library writes to the socket.
THEOREM TypeCorrect ==
  ASSUME SocketBio
  PROVE  Spec => []TypeOK
<1>1. StreamInv /\ [Next]_vars => StreamInv'
  BY StreamStep
<1>2. StreamInv => TypeOK
  BY DEF StreamInv
<1> QED
  BY <1>1, <1>2, StreamInit, PTL DEF Spec

----------------------------------------------------------------------------
(* The deferred tag.                                                       *)

\* A segment that ends before the end of a record ends before its tag, unless
\* TCP may cut anywhere.
LEMMA CutBeforeTag ==
  ASSUME StreamInv, Cuts # "anywhere", NEW c \in Conn, NEW hi \in Nat, CutOK(c, hi),
         NEW i \in 1 .. Len(stream[c]), stream[c][i].kind = "app", hi < End(c, stream[c][i])
  PROVE  hi <= TagPos(c, stream[c][i])
<1> DEFINE r == stream[c][i]
<1>1. /\ r.start \in Nat /\ TagPos(c, r) \in Nat /\ r.start <= TagPos(c, r)
  BY StreamRecord, RecordSize DEF StreamInv
<1>2. Cuts \in {"records", "afterSecrets", "outsideTags"}
  BY TlsPatchConstants
<1>3. CASE r.start < hi
  <2>2. ~(TagPos(c, r) < hi)
    BY <1>2, <1>3 DEF CutOK
  <2> QED
    BY <1>1, <2>2
<1>4. CASE ~(r.start < hi)
  BY <1>1, <1>4
<1> QED
  BY <1>3, <1>4

\* While the stream only grows, a pending correction stays ahead of the peer.
LEMMA PendingGrows ==
  ASSUME TagInv, UNCHANGED <<tagp, sent>>,
         \A d \in Conn : \A i \in 1 .. Len(stream[d]) :
           i \in 1 .. Len(stream'[d]) /\ stream'[d][i] = stream[d][i]
  PROVE  PendingOK'
<1> SUFFICES ASSUME NEW d \in Conn, tagp[d] # None PROVE Pending(d)'
  BY DEF PendingOK
<1>1. PICK i \in 1 .. Len(stream[d]) :
        /\ stream[d][i].kind = "app" /\ tagp[d].fix.start = stream[d][i].start
        /\ tagp[d].seq = Seq32(TagPos(d, stream[d][i]))
        /\ sent[d] <= TagPos(d, stream[d][i])
  BY DEF TagInv, PendingOK, Pending
<1>2. i \in 1 .. Len(stream'[d]) /\ stream'[d][i] = stream[d][i]
  OBVIOUS
<1> QED
  BY <1>1, <1>2 DEF Pending

\* A segment leaves a pending correction behind the record it carries, or takes
\* the correction along.
LEMMA PendingEgress ==
  ASSUME TagInv, NoWrap, Cuts # "anywhere", NEW c \in Conn, Egress(c)
  PROVE  PendingOK'
<1>0. sent[c] \in Nat /\ queued[c] \in Nat /\ TagLen \in Nat /\ ISN \in Nat /\ SeqSpace \in Nat
  BY TlsPatchConstants DEF TagInv, StreamInv, TypeOK
<1>1. PICK hi \in sent[c] + 1 .. queued[c] :
        EgressTag(c, hi) \/ EgressPass(c, hi) \/ EgressPatch(c, hi)
  BY DEF Egress
<1>2. hi \in Nat /\ hi <= queued[c] /\ sent[c] < hi /\ CutOK(c, hi)
  BY <1>0, <1>1 DEF EgressTag, EgressPass, EgressPatch, Segment
<1>3. stream' = stream /\ (sent' = sent \/ sent' = [sent EXCEPT ![c] = hi])
  BY <1>1 DEF EgressTag, EgressPass, EgressPatch, Deliver, sendVars
<1>4. sent'[c] \in {sent[c], hi} /\ \A d \in Conn \ {c} : sent'[d] = sent[d]
  BY <1>3 DEF TagInv, StreamInv, TypeOK
<1>5. \A d \in Conn \ {c} : tagp'[d] = tagp[d]
  BY <1>1 DEF EgressTag, EgressPass, EgressPatch, TagInv, StreamInv, TypeOK
<1>6. ASSUME tagp'[c] # None PROVE Pending(c)'
  <2>1. CASE EgressTag(c, hi)
    <3>1. tagp[c] # None /\ tagp'[c] = tagp[c] /\ ~TagInSegment(c, sent[c], hi)
      BY <1>6, <2>1 DEF EgressTag, TagInv, StreamInv, TypeOK
    <3>2. PICK i \in 1 .. Len(stream[c]) :
            /\ stream[c][i].kind = "app" /\ tagp[c].fix.start = stream[c][i].start
            /\ tagp[c].seq = Seq32(TagPos(c, stream[c][i]))
            /\ sent[c] <= TagPos(c, stream[c][i])
      BY <3>1 DEF TagInv, PendingOK, Pending
    <3> DEFINE r == stream[c][i]
    <3>3. /\ TagPos(c, r) \in Nat /\ End(c, r) \in Nat /\ TagPos(c, r) + TagLen = End(c, r)
      BY <3>2, StreamRecord, RecordSize DEF TagInv, StreamInv
    <3>4. End(c, r) <= queued[c]
      BY DEF TagInv, StreamInv, LayoutOK
    <3> HIDE DEF r
    <3>5. /\ Seq32(sent[c]) = ISN + sent[c] /\ Seq32(hi) = ISN + hi
          /\ tagp[c].seq = ISN + TagPos(c, r)
      <4>1. sent[c] <= queued[c] /\ TagPos(c, r) <= queued[c]
        BY <1>0, <1>2, <3>3, <3>4
      <4>2. Seq32(sent[c]) = ISN + sent[c] /\ Seq32(hi) = ISN + hi
        BY <1>0, <1>2, <4>1, SeqInOrder DEF TagInv, StreamInv
      <4>3. Seq32(TagPos(c, r)) = ISN + TagPos(c, r)
        BY <3>3, <4>1, SeqInOrder DEF TagInv, StreamInv
      <4> QED
        BY <3>2, <4>2, <4>3 DEF r
    <3>6. (tagp[c].seq + TagLen) % SeqSpace = ISN + End(c, r)
      <4>1. tagp[c].seq + TagLen = ISN + End(c, r)
        BY <1>0, <3>3, <3>5
      <4>2. (ISN + End(c, r)) % SeqSpace = ISN + End(c, r)
        BY <3>3, <3>4, SeqInOrder DEF TagInv, StreamInv
      <4> QED
        BY <4>1, <4>2
    <3>7. hi < End(c, r)
      <4>1. ~(ISN + sent[c] <= ISN + TagPos(c, r) /\ ISN + End(c, r) <= ISN + hi)
        BY <3>1, <3>5, <3>6 DEF TagInSegment
      <4> QED
        BY <1>0, <1>2, <3>2, <3>3, <4>1 DEF r
    <3>8. hi <= TagPos(c, r)
      BY <1>2, <3>2, <3>7, CutBeforeTag DEF TagInv, r
    <3> QED
      BY <1>2, <1>3, <1>4, <3>1, <3>2, <3>8 DEF Pending, r
  <2>2. CASE EgressPass(c, hi)
    BY <1>6, <2>2 DEF EgressPass
  <2>3. CASE EgressPatch(c, hi)
    <3>1. PICK tg \in Targets(c, sent[c], hi) :
            /\ ~TagHere(c, tg, hi)
            /\ tagp' = [tagp EXCEPT ![c] =
                          [seq |-> Seq32(TagPos(c, tg.rec)),
                           fix |-> Correction(c, tg, Applied(c, tg, hi))]]
      BY <1>6, <2>3 DEF EgressPatch
    <3>2. PICK i \in 1 .. Len(stream[c]) : tg.rec = stream[c][i] /\ tg.rec.kind = "app"
      BY <1>0, <1>2, TargetRecord DEF TagInv
    <3>3. /\ tagp'[c].seq = Seq32(TagPos(c, stream[c][i]))
          /\ tagp'[c].fix.start = stream[c][i].start
      BY <3>1, <3>2 DEF Correction, TagInv, StreamInv, TypeOK
    <3>4. hi < End(c, stream[c][i])
      <4>1. End(c, stream[c][i]) \in Nat
        BY StreamRecord, RecordSize DEF TagInv, StreamInv
      <4> QED
        BY <1>2, <3>1, <3>2, <4>1 DEF TagHere
    <3>5. hi <= TagPos(c, stream[c][i]) /\ TagPos(c, stream[c][i]) \in Nat
      BY <1>2, <3>2, <3>4, CutBeforeTag, StreamRecord, RecordSize DEF TagInv, StreamInv
    <3>6. sent'[c] <= TagPos(c, stream[c][i])
      BY <1>0, <1>2, <1>4, <3>5
    <3> QED
      BY <1>3, <3>2, <3>3, <3>6 DEF Pending
  <2> QED
    BY <1>1, <2>1, <2>2, <2>3
<1>7. ASSUME NEW d \in Conn \ {c}, tagp'[d] # None PROVE Pending(d)'
  BY <1>3, <1>4, <1>5, <1>7 DEF TagInv, PendingOK, Pending
<1> QED
  BY <1>6, <1>7 DEF PendingOK

\* Every step keeps the deferred correction ahead of the peer.
LEMMA TagStep ==
  ASSUME SocketBio, Cuts # "anywhere", TagInv, NoWrap, [Next]_vars
  PROVE  TagInv'
<1>1. StreamInv'
  BY StreamStep DEF TagInv
<1>2. CASE \E c \in Conn : Egress(c)
  BY <1>1, <1>2, PendingEgress DEF TagInv
<1>3. CASE \E t \in Thread : TcpSendmsg(t)
  <2>1. PICK t \in Thread : TcpSendmsg(t)
    BY <1>3
  <2> DEFINE c == thr[t].conn
             r == Head(thr[t].recs)
             new == [id |-> r.id, kind |-> r.kind, off |-> r.off, len |-> r.len,
                     holds |-> r.holds, staged |-> r.staged, start |-> queued[c]]
  <2>2. c \in Conn /\ r \in Unsent
    BY <2>1 DEF TcpSendmsg, TagInv, StreamInv, TypeOK, CallOK
  <2>3. new \in Placed /\ stream' = [stream EXCEPT ![c] = Append(stream[c], new)]
    BY <2>1, <2>2, QueueOne DEF TcpSendmsg, TagInv
  <2> HIDE DEF c, new
  <2>4. ASSUME NEW d \in Conn, NEW i \in 1 .. Len(stream[d])
        PROVE  i \in 1 .. Len(stream'[d]) /\ stream'[d][i] = stream[d][i]
    <3>1. stream[d] \in Seq(Placed)
          /\ (stream'[d] = stream[d] \/ stream'[d] = Append(stream[d], new))
      BY <2>2, <2>3 DEF TagInv, StreamInv, TypeOK
    <3> QED
      BY <2>3, <3>1
  <2>5. UNCHANGED <<tagp, sent>>
    BY <2>1 DEF TcpSendmsg, peerVars
  <2>6. PendingOK'
    BY <2>4, <2>5, PendingGrows
  <2> QED
    BY <1>1, <2>6 DEF TagInv
<1>4. CASE UNCHANGED <<tagp, sent, stream>>
  <2>1. PendingOK'
    BY <1>4, PendingGrows
  <2> QED
    BY <1>1, <2>1 DEF TagInv
<1>5. ~ \E c \in Conn : Flush(c)
  BY DEF Flush, TagInv, StreamInv, NoBuffer
<1>6. CASE \E c \in Conn : Evict(c)
  <2>1. UNCHANGED <<sent, stream>> /\ \A c \in Conn : tagp'[c] = tagp[c] \/ tagp'[c] = None
    BY <1>6 DEF Evict, sendVars, peerVars, TagInv, StreamInv, TypeOK
  <2>2. PendingOK'
    BY <2>1 DEF TagInv, PendingOK, Pending
  <2> QED
    BY <1>1, <2>2 DEF TagInv
<1> QED
  BY <1>2, <1>3, <1>4, <1>5, <1>6
     DEF Next, vars, Handshake, SslWrite, Expire, Revoke, sendVars, peerVars

\* When tc_ghash_update defers a correction because the tag is not in the
\* segment, the tag does not leave before the correction is applied: however
\* many segments, losses and writes come in between, as long as TCP cuts no tag
\* in two and sequence numbers do not wrap around.
THEOREM TagStaysAhead ==
  ASSUME SocketBio, Cuts # "anywhere"
  PROVE  Spec /\ []NoWrap => []TagAhead
<1>1. Init => TagInv
  BY StreamInit DEF Init, TagInv, PendingOK
<1>2. TagInv /\ NoWrap /\ [Next]_vars => TagInv'
  BY TagStep
<1>3. TagInv => TagAhead
  <2> SUFFICES ASSUME TagInv, NEW c \in Conn, tagp[c] # None,
                      NEW j \in 1 .. Len(stream[c]), stream[c][j].start = tagp[c].fix.start
               PROVE  sent[c] <= TagPos(c, stream[c][j])
    BY DEF TagAhead
  <2>1. PICK i \in 1 .. Len(stream[c]) :
          tagp[c].fix.start = stream[c][i].start /\ sent[c] <= TagPos(c, stream[c][i])
    BY DEF TagInv, PendingOK, Pending
  <2>2. i = j
    BY <2>1 DEF TagInv, StreamInv, LayoutOK
  <2> QED
    BY <2>1, <2>2
<1> QED
  BY <1>1, <1>2, <1>3, PTL DEF Spec

----------------------------------------------------------------------------
(* The bridge of a process with one writing thread.                        *)

OneThread == \E t : Thread = {t}

\* A thread that is in no call has nothing to send.
IdleOK == \A t \in Thread : thr[t].conn = None <=> thr[t].recs = <<>>

\* A handshake that began has sent its ClientHello or is about to.
BegunOK ==
  \A c \in Conn : opened[c] # "no" => stream[c] # <<>> \/ \E t \in Thread : thr[t].conn = c

\* Staged patches are those of the call the thread is in, and at least one
\* record is sent once the connection has its keys.
StagedOK ==
  xor # None =>
    /\ ~xor.memory /\ ~xor.old
    /\ \E t \in Thread :
         /\ thr[t].conn = xor.conn /\ thr[t].recs # <<>>
         /\ stream[xor.conn] = <<>> => Len(thr[t].recs) > 1

\* tcp_sendmsg bridges the patches of a write to the connection it was written
\* on: so it is for one thread, not for two.
BridgedOwn == \A c \in Conn : tc[c] # None => tc[c].ssl = c

BridgeInv == StreamInv /\ IdleOK /\ BegunOK /\ StagedOK /\ BridgedOwn

\* A sequence is empty if its length is zero.
LEMMA NonEmpty ==
  ASSUME NEW S, NEW s \in Seq(S), Len(s) # 0
  PROVE  s # <<>>
  OBVIOUS

\* A call that puts records into the thread's hands.
LEMMA BridgeCalls ==
  ASSUME SocketBio, OneThread, BridgeInv, StreamInv', NEW t \in Thread, NEW c \in Conn,
         Handshake(t, c) \/ \E pl \in Payload : SslWrite(t, c, pl)
  PROVE  BridgeInv'
<1>1. Thread = {t}
  BY DEF OneThread
<1>2. thr[t].conn = None /\ thr[t].recs = <<>> /\ xor = None
  BY <1>1 DEF Handshake, SslWrite, Idle, BridgeInv, IdleOK, StagedOK
<1>3. UNCHANGED <<stream, tc>>
  BY DEF Handshake, SslWrite, sendVars
<1>4. None \notin Conn
  BY TlsPatchConstants
<1>5. PICK recs \in Seq(Unsent) :
        /\ thr' = [thr EXCEPT ![t] = [conn |-> c, recs |-> recs]]
        /\ recs # <<>>
        /\ \E v : opened' = [opened EXCEPT ![c] = v]
        /\ xor' # None => /\ xor'.conn = c /\ ~xor'.memory /\ ~xor'.old
                          /\ stream[c] = <<>> => Len(recs) > 1
  <2>1. CASE Handshake(t, c)
    <3>1. PICK recs \in {<<Hello>>, <<Finished(c)>>} : Emit(t, c, recs)
      BY <2>1 DEF Handshake
    <3>2. recs \in Seq(Unsent) /\ recs # <<>>
      <4>1. \A x \in Unsent : <<x>> \in Seq(Unsent) /\ Len(<<x>>) = 1
        OBVIOUS
      <4>2. recs \in Seq(Unsent) /\ Len(recs) = 1
        BY <4>1, HandshakeRecords
      <4> QED
        BY <4>2, NonEmpty
    <3>3. thr' = [thr EXCEPT ![t] = [conn |-> c, recs |-> recs]]
      BY <3>1, <3>2, EmitType DEF BridgeInv
    <3>4. xor' = None /\ \E v : opened' = [opened EXCEPT ![c] = v]
      BY <1>2, <2>1 DEF Handshake
    <3> QED
      BY <3>2, <3>3, <3>4
  <2>2. CASE \E pl \in Payload : SslWrite(t, c, pl)
    <3>1. PICK pl \in Payload : SslWrite(t, c, pl)
      BY <2>2
    <3> DEFINE patches == XorPatches(pl)
               frags == Fragments(writes + 1, pl.len, Placeholders(pl), patches)
    <3>2. frags \in Seq(Unsent) /\ Len(frags) \in Nat \ {0}
      <4>1. pl.len \in Nat \ {0} /\ patches \in SUBSET Patch
        BY TlsPatchConstants DEF XorPatches, Prescan
      <4>2. writes + 1 \in Nat
        BY DEF BridgeInv, StreamInv, TypeOK
      <4> QED
        BY <4>1, <4>2, PlaceholdersType, FragmentsType
    <3>3. /\ \/ opened[c] = "yes" /\ Emit(t, c, frags) /\ opened' = opened
             \/ Emit(t, c, <<Hello, Finished(c)>> \o frags)
                /\ opened' = [opened EXCEPT ![c] = "yes"]
          /\ xor' # None => xor'.conn = c /\ xor'.memory = MemoryBio[c] /\ ~xor'.old
      BY <1>2, <3>1 DEF SslWrite
    <3>4. ~MemoryBio[c]
      BY DEF SocketBio
    <3> HIDE DEF frags, patches
    <3>5. CASE opened[c] = "yes" /\ Emit(t, c, frags) /\ opened' = opened
      <4>1. stream[c] # <<>>
        BY <1>1, <1>2, <1>4, <3>5 DEF BridgeInv, BegunOK
      <4>2. frags # <<>>
        BY <3>2
      <4>3. thr' = [thr EXCEPT ![t] = [conn |-> c, recs |-> frags]]
        BY <3>2, <3>5, EmitType DEF BridgeInv
      <4>4. opened' = [opened EXCEPT ![c] = opened[c]]
        BY <3>5 DEF BridgeInv, StreamInv, TypeOK
      <4> QED
        BY <3>2, <3>3, <3>4, <4>1, <4>2, <4>3, <4>4
    <3>6. CASE /\ Emit(t, c, <<Hello, Finished(c)>> \o frags)
               /\ opened' = [opened EXCEPT ![c] = "yes"]
      <4> DEFINE all == <<Hello, Finished(c)>> \o frags
      <4>1. all \in Seq(Unsent) /\ Len(all) > 1 /\ all # <<>>
        BY <3>2, HandshakeRecords
      <4> HIDE DEF all
      <4>2. thr' = [thr EXCEPT ![t] = [conn |-> c, recs |-> all]]
        BY <3>6, <4>1, EmitType DEF all, BridgeInv
      <4> QED
        BY <3>3, <3>4, <3>6, <4>1, <4>2
    <3> QED
      BY <3>3, <3>5, <3>6
  <2> QED
    BY <2>1, <2>2
<1>6. thr'[t].conn = c /\ thr'[t].recs = recs
  BY <1>5 DEF BridgeInv, StreamInv, TypeOK
<1>7. IdleOK'
  BY <1>1, <1>4, <1>5, <1>6 DEF IdleOK
<1>8. BegunOK'
  <2> SUFFICES ASSUME NEW d \in Conn, opened'[d] # "no"
               PROVE  stream[d] # <<>> \/ thr'[t].conn = d
    BY <1>1, <1>3 DEF BegunOK
  <2>1. CASE d # c
    <3>1. opened'[d] = opened[d]
      BY <1>5, <2>1
    <3> QED
      BY <1>1, <1>2, <1>4, <3>1 DEF BridgeInv, BegunOK
  <2> QED
    BY <1>6, <2>1
<1>9. StagedOK'
  BY <1>1, <1>3, <1>5, <1>6 DEF StagedOK
<1>10. BridgedOwn'
  BY <1>3 DEF BridgeInv, BridgedOwn
<1> QED
  BY <1>7, <1>8, <1>9, <1>10 DEF BridgeInv

\* tcp_sendmsg bridges what its own call staged, at the latest with the second
\* record of the connection.
LEMMA BridgeSends ==
  ASSUME OneThread, ~HMayFail, BridgeInv, StreamInv', NEW t \in Thread, TcpSendmsg(t)
  PROVE  BridgeInv'
<1> DEFINE c == thr[t].conn
           r == Head(thr[t].recs)
           rest == Tail(thr[t].recs)
           new == [id |-> r.id, kind |-> r.kind, off |-> r.off, len |-> r.len,
                   holds |-> r.holds, staged |-> r.staged, start |-> queued[c]]
<1>1. Thread = {t}
  BY DEF OneThread
<1>2. thr[t].recs \in Seq(Unsent) /\ thr[t].recs # <<>> /\ c \in Conn /\ None \notin Conn
  BY TlsPatchConstants DEF TcpSendmsg, BridgeInv, StreamInv, TypeOK, CallOK
<1>3. r \in Unsent /\ rest \in Seq(Unsent) /\ (Len(thr[t].recs) > 1 => rest # <<>>)
  <2>1. \A q \in Seq(Unsent) : q # <<>> =>
          Head(q) \in Unsent /\ Tail(q) \in Seq(Unsent) /\ Len(Tail(q)) = Len(q) - 1
    OBVIOUS
  <2>2. r \in Unsent /\ rest \in Seq(Unsent) /\ Len(rest) = Len(thr[t].recs) - 1
    BY <1>2, <2>1
  <2> HIDE DEF r, rest
  <2>3. Len(thr[t].recs) > 1 => Len(rest) # 0
    BY <1>2, <2>2
  <2> QED
    BY <2>2, <2>3, NonEmpty
<1>4. new \in Placed /\ stream' = [stream EXCEPT ![c] = Append(stream[c], new)]
  BY <1>2, <1>3, QueueOne DEF TcpSendmsg, BridgeInv
<1>5. /\ thr' = [thr EXCEPT ![t] = [conn |-> IF rest = <<>> THEN None ELSE c, recs |-> rest]]
      /\ UNCHANGED opened /\ Bridge(c) /\ (stream[c] # <<>> => Keyed(c))
  BY DEF TcpSendmsg
<1> HIDE DEF c, r, rest, new
<1>6. /\ thr'[t].conn = (IF rest = <<>> THEN None ELSE c) /\ thr'[t].recs = rest
  BY <1>5 DEF BridgeInv, StreamInv, TypeOK
<1>7. stream'[c] # <<>> /\ \A d \in Conn : stream[d] # <<>> => stream'[d] # <<>>
  <2>1. stream[c] \in Seq(Placed) /\ stream'[c] = Append(stream[c], new)
    BY <1>2, <1>4 DEF BridgeInv, StreamInv, TypeOK
  <2>2. stream'[c] \in Seq(Placed) /\ Len(stream'[c]) # 0
    BY <1>4, <2>1
  <2>3. \A d \in Conn \ {c} : stream'[d] = stream[d]
    BY <1>4 DEF BridgeInv, StreamInv, TypeOK
  <2> QED
    BY <2>2, <2>3, NonEmpty
<1>8. xor # None => /\ ~xor.memory /\ ~xor.old /\ xor.conn = c
                    /\ stream[c] = <<>> => Len(thr[t].recs) > 1
  BY <1>1 DEF BridgeInv, StagedOK, c
<1>9. IdleOK'
  BY <1>1, <1>2, <1>6 DEF IdleOK
<1>10. BegunOK'
  <2> SUFFICES ASSUME NEW d \in Conn, opened[d] # "no" PROVE stream'[d] # <<>>
    BY <1>5 DEF BegunOK
  <2>1. stream[d] # <<>> \/ d = c
    BY <1>1 DEF BridgeInv, BegunOK, c
  <2> QED
    BY <1>7, <2>1
<1>11. xor' # None => xor' = xor /\ xor # None /\ ~Keyed(xor.conn)
  BY <1>5, <1>8 DEF Bridge, BridgeTo, Leftover
<1>12. StagedOK'
  <2> SUFFICES ASSUME xor' # None
               PROVE  /\ ~xor'.memory /\ ~xor'.old
                      /\ thr'[t].conn = xor'.conn /\ thr'[t].recs # <<>>
                      /\ stream'[xor'.conn] # <<>>
    BY <1>1 DEF StagedOK
  <2>1. xor' = xor /\ xor.conn = c /\ ~xor.memory /\ ~xor.old /\ stream[c] = <<>>
    BY <1>5, <1>8, <1>11
  <2>2. rest # <<>>
    BY <1>3, <1>8, <1>11, <2>1
  <2> QED
    BY <1>6, <1>7, <2>1, <2>2
<1>13. BridgedOwn'
  <2>1. tc' = tc \/ (xor # None /\ tc' = [tc EXCEPT ![c] = TcEntry(c)])
    BY <1>5 DEF Bridge, BridgeTo
  <2>2. CASE tc' = tc
    BY <2>2 DEF BridgeInv, BridgedOwn
  <2>3. CASE xor # None /\ tc' = [tc EXCEPT ![c] = TcEntry(c)]
    <3>1. TcEntry(c).ssl = c
      BY <1>8, <2>3 DEF TcEntry
    <3> QED
      BY <1>2, <2>3, <3>1 DEF BridgeInv, BridgedOwn, StreamInv, TypeOK
  <2> QED
    BY <2>1, <2>2, <2>3
<1> QED
  BY <1>9, <1>10, <1>12, <1>13 DEF BridgeInv

\* Segments use entries of tc_pending up and move none.
LEMMA BridgeEgress ==
  ASSUME BridgeInv, StreamInv', NEW c \in Conn, Egress(c)
  PROVE  BridgeInv'
<1>1. PICK hi \in sent[c] + 1 .. queued[c] :
        EgressTag(c, hi) \/ EgressPass(c, hi) \/ EgressPatch(c, hi)
  BY DEF Egress
<1>2. UNCHANGED <<opened, thr, stream, xor>>
  BY <1>1 DEF EgressTag, EgressPass, EgressPatch, appVars, sendVars
<1>3. tc' = tc \/ (tc[c] # None /\ tc' = [tc EXCEPT ![c].active = FALSE])
  BY <1>1 DEF EgressTag, EgressPass, EgressPatch, Targets
<1>4. BridgedOwn'
  <2>1. CASE tc' = tc
    BY <2>1 DEF BridgeInv, BridgedOwn
  <2>2. CASE tc[c] # None /\ tc' = [tc EXCEPT ![c].active = FALSE]
    <3>1. tc[c] \in [id : Nat, ssl : Conn, len : Nat, patches : SUBSET Patch,
                     active : BOOLEAN, seq : Nat]
      BY <2>2 DEF BridgeInv, StreamInv, TypeOK
    <3>2. [tc[c] EXCEPT !.active = FALSE].ssl = tc[c].ssl
      BY <3>1
    <3>3. tc' = [tc EXCEPT ![c] = [tc[c] EXCEPT !.active = FALSE]]
      BY <2>2
    <3> QED
      BY <2>2, <3>2, <3>3 DEF BridgeInv, BridgedOwn, StreamInv, TypeOK
  <2> QED
    BY <1>3, <2>1, <2>2
<1> QED
  BY <1>2, <1>4 DEF BridgeInv, IdleOK, BegunOK, StagedOK

\* Every step keeps the staged patches with their call.
LEMMA BridgeStep ==
  ASSUME SocketBio, OneThread, ~HMayFail, BridgeInv, [Next]_vars
  PROVE  BridgeInv'
<1>0. StreamInv'
  BY StreamStep DEF BridgeInv
<1>1. CASE \E t \in Thread, c \in Conn :
             Handshake(t, c) \/ \E pl \in Payload : SslWrite(t, c, pl)
  BY <1>0, <1>1, BridgeCalls
<1>2. CASE \E t \in Thread : TcpSendmsg(t)
  BY <1>0, <1>2, BridgeSends
<1>3. CASE \E c \in Conn : Egress(c)
  BY <1>0, <1>3, BridgeEgress
<1>4. ~Expire /\ ~ \E c \in Conn : Flush(c)
  BY DEF Expire, Flush, BridgeInv, StagedOK, StreamInv, NoBuffer
<1>5. CASE UNCHANGED <<opened, thr, stream, xor, tc>>
  BY <1>0, <1>5 DEF BridgeInv, IdleOK, BegunOK, StagedOK, BridgedOwn
<1>6. CASE \E c \in Conn : Evict(c)
  <2>1. /\ UNCHANGED <<opened, thr, stream, xor>>
        /\ \A c \in Conn : tc'[c] = tc[c] \/ tc'[c] = None
    BY <1>6 DEF Evict, appVars, sendVars, BridgeInv, StreamInv, TypeOK
  <2> QED
    BY <1>0, <2>1 DEF BridgeInv, IdleOK, BegunOK, StagedOK, BridgedOwn
<1> QED
  BY <1>1, <1>2, <1>3, <1>4, <1>5, <1>6 DEF Next, vars, appVars, sendVars, Revoke
=============================================================================
