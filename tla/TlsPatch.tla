------------------------------ MODULE TlsPatch ------------------------------
(***************************************************************************)
(* The rewrite of one process's TLS stream (pkg/ebpf/bpf/tls_uprobe.c):    *)
(* the write uprobes stage the patches of a write in xor_pending (one      *)
(* entry per process), the kprobe on tcp_sendmsg filters them by the       *)
(* socket and bridges them to tc_pending (one entry per connection),       *)
(* tc_egress_patch applies them to the segment that carries the record and *)
(* tc_ghash_update corrects the authentication tag, at once or, when the   *)
(* tag is in a later segment, through tc_tag_pending.                      *)
(*                                                                         *)
(* A byte of a record is a unit of length; HdrLen, NonceLen, TypeLen and   *)
(* TagLen stand for 5, 8, 1 and 16, and a placeholder is one unit long. A  *)
(* position counts units from the start of the connection's stream, and    *)
(* Seq turns it into a TCP sequence number. Which patches may leave on a   *)
(* connection (socket_filter_patches) is the constant Allowed.             *)
(*                                                                         *)
(* Simplifications: ciphertext is never mistaken for a record header; a    *)
(* connection has its own tc_dest_key for as long as it exists; a lost     *)
(* segment is sent again before any later one. A correction is made with   *)
(* the key of the connection whose SSL object staged the patches; which    *)
(* key the probes take for it is the subject of HKey.                      *)
(***************************************************************************)
EXTENDS Naturals, Sequences, FiniteSets, FiniteSetsExt

CONSTANTS
  Thread,       \* threads of the process
  Conn,         \* its client TLS connections
  Secret,       \* secrets whose placeholders it writes
  Bound,        \* secrets bound to its pod (secret_acl)
  Allowed,      \* Allowed[s]: the connections s may leave on
  Payload,      \* what it writes: [len, secrets : set of [off, secret]]
  Version,      \* Version[c]: "1.2" or "1.3"
  KnowsVersion, \* is the offset of the TLS version known to the probes?
  MemoryBio,    \* MemoryBio[c]: the records of c go through a memory BIO
  Pipelined,    \* writes do not wait for the previous one to leave
  LazyHandshake,\* the first write performs the handshake
  HMayFail,     \* reading H may fail on an established connection
  Evicts,       \* entries of tc_pending and tc_tag_pending may be evicted
  HdrLen, NonceLen, TypeLen, TagLen, FinishedLen,
  MaxRecord,    \* plaintext of a full record
  MaxMatches,   \* XOR_MAX_MATCHES
  Leading,      \* TC_MAX_LEADING_RECORDS
  Scan,         \* TC_MAX_SCAN_RECORDS
  ISN, SeqSpace,\* initial sequence number; 2^32
  Cuts,         \* where TCP may cut the stream into segments: between records,
                \* after the placeholders of a record, outside tags, anywhere
  MaxWrites,    \* bound on the number of writes
  MaxLosses,    \* bound on the number of lost segments
  PartsLost,    \* may a segment that ends or begins inside a record be lost?
  None

Patch == [off : Nat, secret : Secret]
\* A placeholder in a record: where in its write, and how many are before it.
Placeholder == [off : Nat, secret : Secret, nth : Nat]

ASSUME TlsPatchConstants ==
  /\ Bound \subseteq Secret
  /\ Allowed \in [Secret -> SUBSET Conn]
  /\ \A pl \in Payload : /\ pl.len \in Nat \ {0}
                         /\ pl.secrets \in SUBSET Patch /\ IsFiniteSet(pl.secrets)
                         /\ \A p \in pl.secrets : p.off < pl.len
  /\ Version \in [Conn -> {"1.2", "1.3"}]
  /\ MemoryBio \in [Conn -> BOOLEAN]
  /\ {KnowsVersion, Pipelined, LazyHandshake, HMayFail, Evicts, PartsLost} \subseteq BOOLEAN
  /\ {HdrLen, NonceLen, TypeLen, TagLen, MaxRecord} \subseteq Nat \ {0}
  /\ {FinishedLen, MaxMatches, Leading, Scan, ISN, MaxWrites, MaxLosses} \subseteq Nat
  /\ SeqSpace \in Nat \ {0} /\ ISN < SeqSpace
  /\ Cuts \in {"records", "afterSecrets", "outsideTags", "anywhere"}
  /\ None \notin Conn

VARIABLES
  known,    \* keys of secret_map
  opened,   \* handshake of a connection: "no", "hello" or "yes"
  thr,      \* records the call a thread is in still has to send: [conn, recs]
  buf,      \* records in a connection's memory BIO
  xor,      \* xor_pending of the process
  tc,       \* tc_pending of a connection
  tagp,     \* tc_tag_pending of a connection
  stream,   \* records a connection's socket was given
  queued,   \* end of stream
  sent,     \* what the peer received of stream
  patched,  \* patches in what the peer received
  fixed,    \* corrected tags in what the peer received
  writes,   \* number of writes so far
  losses    \* number of segments lost so far

appVars  == <<known, opened, thr, buf, writes>>
sendVars == <<stream, queued>>
peerVars == <<sent, patched, fixed, losses>>
vars     == <<appVars, sendVars, peerVars, xor, tc, tagp>>

----------------------------------------------------------------------------
(* Layout of the stream.                                                   *)

Nonce(c) == IF Version[c] = "1.2" THEN NonceLen ELSE 0
Seq32(n) == (ISN + n) % SeqSpace

\* A record: the part off .. off + len - 1 of write id (0: the handshake), the
\* placeholders in it, and which of them the uprobe staged a patch for.
Unsent == [id : Nat, kind : {"app", "skip"}, off : Nat, len : Nat,
           holds : SUBSET Placeholder, staged : SUBSET Patch]
Hello       == [id |-> 0, kind |-> "skip", off |-> 0, len |-> 1,
                holds |-> {}, staged |-> {}]
Finished(c) == [id |-> 0, kind |-> IF Version[c] = "1.3" THEN "app" ELSE "skip",
                off |-> 0, len |-> FinishedLen, holds |-> {}, staged |-> {}]

\* The length field of a record: nonce or inner type, plaintext, tag.
RecLen(c, r) ==
  IF r.kind = "skip" THEN r.len
  ELSE r.len + TagLen + IF Version[c] = "1.2" THEN NonceLen ELSE TypeLen
WireLen(c, r) == HdrLen + RecLen(c, r)
End(c, r)     == r.start + WireLen(c, r)
TagPos(c, r)  == End(c, r) - TagLen
Text(c, r)    == r.start + HdrLen + Nonce(c)

\* The records of write id: MaxRecord of plaintext each, the last one less.
Fragments(id, len, text, patches) ==
  [k \in 1 .. (len + MaxRecord - 1) \div MaxRecord |->
     LET off == (k - 1) * MaxRecord
         l   == Min({MaxRecord, len - off})
     IN [id |-> id, kind |-> "app", off |-> off, len |-> l,
         holds |-> {p \in text : off <= p.off /\ p.off < off + l},
         staged |-> {p \in patches : off <= p.off /\ p.off < off + l}]]

----------------------------------------------------------------------------
Init ==
  /\ known = Secret
  /\ opened = [c \in Conn |-> "no"]
  /\ thr = [t \in Thread |-> [conn |-> None, recs |-> <<>>]]
  /\ buf = [c \in Conn |-> <<>>]
  /\ xor = None
  /\ tc = [c \in Conn |-> None]
  /\ tagp = [c \in Conn |-> None]
  /\ stream = [c \in Conn |-> <<>>]
  /\ queued = [c \in Conn |-> 0]
  /\ sent = [c \in Conn |-> 0]
  /\ patched = [c \in Conn |-> {}]
  /\ fixed = [c \in Conn |-> {}]
  /\ writes = 0 /\ losses = 0

----------------------------------------------------------------------------
(* The application, its TLS library and the write uprobes.                 *)

Busy(c) == \E t \in Thread : thr[t].conn = c
Idle(t, c) == thr[t].conn = None /\ ~Busy(c)

\* Hand records to the socket (one tcp_sendmsg each) or to the memory BIO.
Emit(t, c, recs) ==
  IF MemoryBio[c] THEN buf' = [buf EXCEPT ![c] = @ \o recs] /\ UNCHANGED thr
  ELSE thr' = [thr EXCEPT ![t] = [conn |-> c, recs |-> recs]] /\ UNCHANGED buf

Handshake(t, c) ==
  /\ Idle(t, c)
  /\ \/ opened[c] = "no" /\ Emit(t, c, <<Hello>>)
        /\ opened' = [opened EXCEPT ![c] = "hello"]
     \/ opened[c] = "hello" /\ sent[c] = WireLen(c, Hello)
        /\ Emit(t, c, <<Finished(c)>>)
        /\ opened' = [opened EXCEPT ![c] = "yes"]
  /\ UNCHANGED <<known, writes, xor, tc, tagp, sendVars, peerVars>>

\* Placeholders before p in the write.
Before(pl, p) == Cardinality({q \in pl.secrets : q.off < p.off})
Placeholders(pl) == {[off |-> p.off, secret |-> p.secret, nth |-> Before(pl, p)] :
                       p \in pl.secrets}

\* prescan_chunk keeps the first XOR_MAX_MATCHES placeholders.
Prescan(pl) == {p \in pl.secrets : Before(pl, p) < MaxMatches}
XorPatches(pl) == {p \in Prescan(pl) : p.secret \in known \cap Bound}

\* Everything written on c has left: a request waits for its answer.
Quiet(c) ==
  /\ \A i \in 1 .. Len(buf[c]) : buf[c][i].id = 0
  /\ \A i \in 1 .. Len(stream[c]) :
       stream[c][i].id = 0 \/ End(c, stream[c][i]) <= sent[c]

\* SSL_write or Conn.Write: the uprobe stages the patches, if there are any,
\* over whatever xor_pending holds.
SslWrite(t, c, pl) ==
  LET patches == XorPatches(pl)
      recs    == Fragments(writes + 1, pl.len, Placeholders(pl), patches)
  IN
  /\ Idle(t, c) /\ writes < MaxWrites
  /\ Pipelined \/ Quiet(c)
  /\ \/ opened[c] = "yes" /\ Emit(t, c, recs) /\ UNCHANGED opened
     \/ opened[c] = "no" /\ LazyHandshake /\ ~MemoryBio[c]
        /\ Emit(t, c, <<Hello, Finished(c)>> \o recs)
        /\ opened' = [opened EXCEPT ![c] = "yes"]
  /\ writes' = writes + 1
  /\ xor' = IF patches = {} THEN xor
            ELSE [id |-> writes + 1, conn |-> c, len |-> pl.len,
                  patches |-> patches, memory |-> MemoryBio[c], old |-> FALSE]
  /\ UNCHANGED <<known, tc, tagp, sendVars, peerVars>>

\* Two seconds pass: a memory BIO entry has outlived its time.
Expire ==
  /\ xor # None /\ xor.memory /\ ~xor.old
  /\ xor' = [xor EXCEPT !.old = TRUE]
  /\ UNCHANGED <<appVars, sendVars, peerVars, tc, tagp>>

\* The secret is deleted: its key leaves secret_map.
Revoke(s) ==
  /\ s \in known
  /\ known' = known \ {s}
  /\ UNCHANGED <<opened, thr, buf, writes, xor, tc, tagp, sendVars, peerVars>>

----------------------------------------------------------------------------
(* tcp_sendmsg on connection c, and the kprobe that bridges xor_pending.   *)

\* Mutant: the destination checked is that of the write, not of the socket.
FilterStaged(c, ps) == {p \in ps : p.secret \in known /\ xor.conn \in Allowed[p.secret]}

\* socket_filter_patches
FilterPatches(c, ps) == {p \in ps : p.secret \in known /\ c \in Allowed[p.secret]}

\* H is read through the SSL object the patches were staged for, which has
\* no keys before the server answered its ClientHello.
Keyed(c) == sent[c] >= WireLen(c, Hello)

\* The tc_pending entry of the write in xor_pending.
TcEntry(c) ==
  [id |-> xor.id, ssl |-> xor.conn, len |-> xor.len, active |-> TRUE,
   patches |-> FilterPatches(c, xor.patches),
   seq |-> IF xor.memory THEN 0 ELSE Seq32(queued[c])]

\* The kprobe's early returns, one by one, then the update of tc_pending with
\* entry; used is what it leaves in xor_pending.
BridgeTo(c, entry, used) ==
  LET kept == FilterPatches(c, xor.patches)
  IN
  \/ xor = None /\ UNCHANGED <<xor, tc>>
  \/ xor # None /\ xor.old /\ xor' = None /\ UNCHANGED tc
  \/ xor # None /\ ~xor.old /\ kept = {} /\ xor' = used /\ UNCHANGED tc
  \/ xor # None /\ ~xor.old /\ kept # {} /\ (HMayFail \/ ~Keyed(xor.conn))
       /\ UNCHANGED <<xor, tc>>
  \/ xor # None /\ ~xor.old /\ kept # {} /\ Keyed(xor.conn)
       /\ tc' = [tc EXCEPT ![c] = entry] /\ xor' = used

\* A memory BIO's entry stays for the sends that follow.
Leftover == IF xor.memory THEN xor ELSE None

\* Mutant: tc_pending is only inserted into.
BridgeOnce(c) == BridgeTo(c, IF tc[c] = None THEN TcEntry(c) ELSE tc[c], Leftover)

Bridge(c) == BridgeTo(c, TcEntry(c), Leftover)

\* The socket takes recs, after what it already holds.
Queue(c, recs) ==
  LET pos[k \in 0 .. Len(recs)] ==
        IF k = 0 THEN queued[c] ELSE pos[k - 1] + WireLen(c, recs[k])
      placed == [k \in 1 .. Len(recs) |->
                   [id |-> recs[k].id, kind |-> recs[k].kind, off |-> recs[k].off,
                    len |-> recs[k].len, holds |-> recs[k].holds,
                    staged |-> recs[k].staged, start |-> pos[k - 1]]]
  IN /\ stream' = [stream EXCEPT ![c] = @ \o placed]
     /\ queued' = [queued EXCEPT ![c] = pos[Len(recs)]]

\* Socket BIO and crypto/tls: the write's own thread sends each record.
\* Nothing follows the ClientHello before the server's answer.
TcpSendmsg(t) ==
  LET c == thr[t].conn
      r == Head(thr[t].recs)
      rest == Tail(thr[t].recs)
  IN
  /\ thr[t].recs # <<>>
  /\ stream[c] # <<>> => Keyed(c)
  /\ Bridge(c)
  /\ Queue(c, <<r>>)
  /\ thr' = [thr EXCEPT ![t] = [conn |-> IF rest = <<>> THEN None ELSE c, recs |-> rest]]
  /\ UNCHANGED <<known, opened, buf, writes, tagp, peerVars>>

\* Memory BIO: any thread writes out what the BIO of c holds.
Flush(c) ==
  /\ buf[c] # <<>>
  /\ Bridge(c)
  /\ Queue(c, buf[c])
  /\ buf' = [buf EXCEPT ![c] = <<>>]
  /\ UNCHANGED <<known, opened, thr, writes, tagp, peerVars>>

----------------------------------------------------------------------------
(* tc egress: the segment of stream positions lo .. hi - 1 of c.           *)

\* Records whose header is in the segment, if it starts on a record.
Heads(c, lo, hi) ==
  LET hs == {i \in 1 .. Len(stream[c]) :
               lo <= stream[c][i].start /\ stream[c][i].start + HdrLen <= hi}
  IN IF \E i \in hs : stream[c][i].start = lo THEN hs ELSE {}

\* The first application_data record, behind at most Leading others.
FirstApp(c, lo, hi) ==
  LET heads == Heads(c, lo, hi)
  IN {i \in heads : /\ stream[c][i].kind = "app"
                    /\ i - Min(heads) <= Leading
                    /\ \A j \in heads : j < i => stream[c][j].kind = "skip"}

\* tls_appdata_reclen_match, for the explicit nonce length n
LenMatch(c, i, n) ==
  RecLen(c, stream[c][i]) = tc[c].len + TagLen + IF n = 0 THEN TypeLen ELSE n

\* write_seq names a position of the segment; 0 is no position.
InWindow(c, lo, hi) ==
  tc[c].seq > 0 => Seq32(lo) <= tc[c].seq /\ tc[c].seq < Seq32(hi)

\* The record to patch and its nonce length: the first whose length fits the
\* write, else the first application_data record.
Targets(c, lo, hi) ==
  LET nonces == IF KnowsVersion THEN {Nonce(tc[c].ssl)} ELSE {0, NonceLen}
      fits(a) == {i \in Heads(c, lo, hi) :
                    /\ a <= i /\ i <= a + Scan
                    /\ stream[c][i].kind = "app"
                    /\ \E n \in nonces : LenMatch(c, i, n)}
      target(a) ==
        IF fits(a) # {}
        THEN [rec |-> stream[c][Min(fits(a))],
              nonce |-> CHOOSE n \in nonces : LenMatch(c, Min(fits(a)), n)]
        ELSE [rec |-> stream[c][a], nonce |-> Max(nonces)]
  IN IF tc[c] # None /\ tc[c].active /\ InWindow(c, lo, hi)
     THEN {target(a) : a \in FirstApp(c, lo, hi)}
     ELSE {}

\* Mutant: the offset of a patch does not count the explicit nonce.
AppliedAtText(c, tg, hi) ==
  {[pos |-> tg.rec.start + HdrLen + p.off, off |-> p.off,
    secret |-> p.secret, id |-> tc[c].id] :
     p \in {q \in tc[c].patches : tg.rec.start + HdrLen + q.off < hi}}

\* The patches tc_egress_patch stores: those that fit in the record's length
\* and lie in the segment.
Applied(c, tg, hi) ==
  {[pos |-> tg.rec.start + HdrLen + tg.nonce + p.off, off |-> p.off,
    secret |-> p.secret, id |-> tc[c].id] :
     p \in {q \in tc[c].patches :
              /\ RecLen(c, tg.rec) > TagLen + tg.nonce
              /\ tg.rec.start + HdrLen + tg.nonce + q.off < hi}}

\* Mutant: the correction counts patches that were not applied.
CorrectionOfAll(c, tg, ps) ==
  [start |-> tg.rec.start, at |-> {tg.rec.start + HdrLen + tg.nonce + p.off : p \in tc[c].patches},
   good |-> tc[c].ssl = c /\ tg.nonce = Nonce(c)]

\* The tag correction: right if H is this connection's and the patches are
\* where the correction takes them to be, in the record's ciphertext.
Correction(c, tg, ps) ==
  [start |-> tg.rec.start, at |-> {p.pos : p \in ps},
   good |-> /\ tc[c].ssl = c /\ tg.nonce = Nonce(c)
            /\ \A p \in ps : p.pos < TagPos(c, tg.rec)]

\* tc_ghash_update: now, or when the segment with the tag passes.
TagHere(c, tg, hi) == End(c, tg.rec) <= hi

\* Mutant: a tag at the very start of the segment is missed.
TagBehindStart(c, lo, hi) ==
  /\ Seq32(lo) < tagp[c].seq
  /\ (tagp[c].seq + TagLen) % SeqSpace <= Seq32(hi)

TagInSegment(c, lo, hi) ==
  /\ Seq32(lo) <= tagp[c].seq
  /\ (tagp[c].seq + TagLen) % SeqSpace <= Seq32(hi)

CutOK(c, hi) ==
  \A i \in 1 .. Len(stream[c]) :
    LET r == stream[c][i]
        splitsTag == r.kind = "app" /\ TagPos(c, r) < hi
    IN r.start < hi /\ hi < End(c, r) =>
         CASE Cuts = "records"      -> FALSE
           [] Cuts = "afterSecrets" -> /\ r.staged # {} /\ ~splitsTag
                                       /\ \A p \in r.staged : Text(c, r) + p.off - r.off < hi
           [] Cuts = "outsideTags"  -> ~splitsTag
           [] Cuts = "anywhere"     -> TRUE

\* The segment consists of whole records.
Whole(c, hi) ==
  \A i \in 1 .. Len(stream[c]) :
    \A pos \in {sent[c], hi} : ~(stream[c][i].start < pos /\ pos < End(c, stream[c][i]))

\* What the segment does to the peer: it is delivered with patches ps and tag
\* corrections fs, or lost and sent again.
Deliver(c, hi, ps, fs) ==
  \/ /\ sent' = [sent EXCEPT ![c] = hi]
     /\ patched' = [patched EXCEPT ![c] = @ \cup ps]
     /\ fixed' = [fixed EXCEPT ![c] = @ \cup fs]
     /\ UNCHANGED losses
  \/ /\ PartsLost \/ Whole(c, hi)
     /\ losses < MaxLosses /\ losses' = losses + 1
     /\ UNCHANGED <<sent, patched, fixed>>

Segment(c, hi) == sent[c] < hi /\ hi <= queued[c] /\ CutOK(c, hi)

\* Mutant: the entry of an applied tag is emptied, not deleted.
EgressTagEmptied(c, hi) ==
  /\ Segment(c, hi) /\ tagp[c] # None
  /\ \/ /\ TagInSegment(c, sent[c], hi)
        /\ Deliver(c, hi, {}, {tagp[c].fix})
        /\ tagp' = [tagp EXCEPT ![c].fix = None]
     \/ /\ ~TagInSegment(c, sent[c], hi)
        /\ Deliver(c, hi, {}, {})
        /\ UNCHANGED tagp
  /\ UNCHANGED <<appVars, sendVars, xor, tc>>

\* A deferred tag is pending: apply it if it is in the segment, and pass.
EgressTag(c, hi) ==
  /\ Segment(c, hi) /\ tagp[c] # None
  /\ \/ /\ TagInSegment(c, sent[c], hi)
        /\ Deliver(c, hi, {}, {tagp[c].fix})
        /\ tagp' = [tagp EXCEPT ![c] = None]
     \/ /\ ~TagInSegment(c, sent[c], hi)
        /\ Deliver(c, hi, {}, {})
        /\ UNCHANGED tagp
  /\ UNCHANGED <<appVars, sendVars, xor, tc>>

\* No record of the segment is to be patched.
EgressPass(c, hi) ==
  /\ Segment(c, hi) /\ tagp[c] = None
  /\ \A tg \in Targets(c, sent[c], hi) : Applied(c, tg, hi) = {}
  /\ Deliver(c, hi, {}, {})
  /\ UNCHANGED <<appVars, sendVars, xor, tc, tagp>>

\* tc_egress_patch and its tail call, tc_ghash_update.
EgressPatch(c, hi) ==
  /\ Segment(c, hi) /\ tagp[c] = None
  /\ \E tg \in Targets(c, sent[c], hi) :
       LET ps  == Applied(c, tg, hi)
           fix == Correction(c, tg, ps)
       IN /\ ps # {}
          /\ tc' = [tc EXCEPT ![c].active = FALSE]
          /\ \/ /\ TagHere(c, tg, hi)
                /\ Deliver(c, hi, ps, {fix})
                /\ UNCHANGED tagp
             \/ /\ ~TagHere(c, tg, hi)
                /\ Deliver(c, hi, ps, {})
                /\ tagp' = [tagp EXCEPT ![c] =
                              [seq |-> Seq32(TagPos(c, tg.rec)), fix |-> fix]]
  /\ UNCHANGED <<appVars, sendVars, xor>>

Egress(c) == \E hi \in sent[c] + 1 .. queued[c] :
               EgressTag(c, hi) \/ EgressPass(c, hi) \/ EgressPatch(c, hi)

\* Both maps are LRU maps shared by every connection of the node: an entry may
\* go before it was used.
Evict(c) ==
  /\ Evicts
  /\ \/ tc[c] # None /\ tc' = [tc EXCEPT ![c] = None] /\ UNCHANGED tagp
     \/ tagp[c] # None /\ tagp' = [tagp EXCEPT ![c] = None] /\ UNCHANGED tc
  /\ UNCHANGED <<appVars, sendVars, peerVars, xor>>

----------------------------------------------------------------------------
Next ==
  \/ \E t \in Thread, c \in Conn : Handshake(t, c)
  \/ \E t \in Thread, c \in Conn, pl \in Payload : SslWrite(t, c, pl)
  \/ \E t \in Thread : TcpSendmsg(t)
  \/ \E c \in Conn : Flush(c)
  \/ Expire
  \/ \E s \in Secret : Revoke(s)
  \/ \E c \in Conn : Egress(c)
  \/ \E c \in Conn : Evict(c)

Spec == Init /\ [][Next]_vars

----------------------------------------------------------------------------
(* Properties.                                                             *)

Placed == [id : Nat, kind : {"app", "skip"}, off : Nat, len : Nat,
           holds : SUBSET Placeholder, staged : SUBSET Patch, start : Nat]
Fix    == [start : Nat, at : SUBSET Nat, good : BOOLEAN]

ASSUME NoneIsNoEntry ==
  /\ None \notin [id : Nat, conn : Conn, len : Nat, patches : SUBSET Patch,
                  memory : BOOLEAN, old : BOOLEAN]
  /\ None \notin [id : Nat, ssl : Conn, len : Nat, patches : SUBSET Patch,
                  active : BOOLEAN, seq : Nat]
  /\ None \notin [seq : Nat, fix : Fix]

\* Every map entry and every record has its shape.
TypeOK ==
  /\ known \subseteq Secret
  /\ opened \in [Conn -> {"no", "hello", "yes"}]
  /\ thr \in [Thread -> [conn : Conn \cup {None}, recs : Seq(Unsent)]]
  /\ buf \in [Conn -> Seq(Unsent)]
  /\ xor \in [id : Nat, conn : Conn, len : Nat, patches : SUBSET Patch,
              memory : BOOLEAN, old : BOOLEAN] \cup {None}
  /\ tc \in [Conn -> [id : Nat, ssl : Conn, len : Nat, patches : SUBSET Patch,
                      active : BOOLEAN, seq : Nat] \cup {None}]
  /\ tagp \in [Conn -> [seq : Nat, fix : Fix] \cup {None}]
  /\ stream \in [Conn -> Seq(Placed)]
  /\ queued \in [Conn -> Nat] /\ sent \in [Conn -> Nat]
  /\ patched \in [Conn -> SUBSET [pos : Nat, off : Nat, secret : Secret, id : Nat]]
  /\ fixed \in [Conn -> SUBSET Fix]
  /\ writes \in Nat /\ losses \in Nat

\* The records the peer received completely.
Received(c) == {r \in {stream[c][i] : i \in 1 .. Len(stream[c])} : End(c, r) <= sent[c]}

PatchesOn(c, r) == {p \in patched[c] : r.start <= p.pos /\ p.pos < End(c, r)}
FixesOn(c, r)   == {f \in fixed[c] : f.start = r.start}

\* A secret only ever reaches a connection it may leave on: whatever the
\* threads, the BIO, the segments and the losses, no packet of a connection is
\* patched with a secret socket_filter_patches refuses there.
SecretOnlyWhereAllowed ==
  \A c \in Conn : \A p \in patched[c] : c \in Allowed[p.secret] /\ p.secret \in Bound

\* The peer can decrypt every record it received, and reads what was written:
\* either tc_egress_patch left the record alone, or it patched exactly where
\* the record's own write had its placeholders and the tag was corrected for
\* these patches.
RecordsValid ==
  \A c \in Conn : \A r \in Received(c) :
    \/ PatchesOn(c, r) = {} /\ FixesOn(c, r) = {}
    \/ /\ \E f \in FixesOn(c, r) : f.good /\ f.at = {p.pos : p \in PatchesOn(c, r)}
       /\ \A p \in PatchesOn(c, r) :
            p.id = r.id /\ p.off >= r.off /\ p.pos = Text(c, r) + p.off - r.off

\* Of every write the first XOR_MAX_MATCHES placeholders are replaced in what
\* the peer received, those of them whose secret is bound to the pod, not
\* deleted, and may leave on the connection: the entry of a write is neither
\* lost on its way from xor_pending to tc_pending nor used up by another
\* record.  prescan_chunk stops at XOR_MAX_MATCHES, so a later placeholder
\* reaches the peer as it was written; and a segment that is sent again is
\* not patched again.
Replaced ==
  losses = 0 => \A c \in Conn : \A r \in Received(c) : \A h \in r.holds :
    h.nth < MaxMatches /\ h.secret \in known \cap Bound /\ c \in Allowed[h.secret] =>
      \E p \in PatchesOn(c, r) :
        p.secret = h.secret /\ p.pos = Text(c, r) + h.off - r.off

\* A deferred tag correction is still in front of the peer: the tag it is for
\* has not left without it.
TagAhead ==
  \A c \in Conn : tagp[c] # None =>
    \A i \in 1 .. Len(stream[c]) :
      stream[c][i].start = tagp[c].fix.start => sent[c] <= TagPos(c, stream[c][i])
=============================================================================
