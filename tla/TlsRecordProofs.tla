--------------------------- MODULE TlsRecordProofs ---------------------------
(***************************************************************************)
(* Proofs about the records the peer of a TLS connection reads: that it    *)
(* can decrypt every one of them and reads what was written there, and     *)
(* that none of the first XOR_MAX_MATCHES placeholders of a write reaches  *)
(* it, for any number of connections, writes, records, segments and lost   *)
(* segments of whole records.                                              *)
(*                                                                         *)
(* Both hold for a client that writes request by request from one thread   *)
(* (Regular) and for payloads that the search for the record to patch can  *)
(* tell from the handshake's last record by their length (LengthsTell).    *)
(* The argument is that an entry of tc_pending that may still be used is   *)
(* tied to one record: the first one of its write (EntryOK), that records  *)
(* before it belong to the handshake or have left, and that therefore the  *)
(* search of tc_egress_patch can only find this record (TargetIsFirst).    *)
(***************************************************************************)
EXTENDS TlsPatchProofs

----------------------------------------------------------------------------
(* Conditions.                                                             *)

\* One thread writes request by request on connections that are open, its
\* library writes to the socket, H can be read, no entry is evicted, and TCP
\* cuts no tag in two and loses no part of a record.
Regular ==
  /\ SocketBio /\ OneThread
  /\ ~HMayFail /\ ~LazyHandshake /\ ~Pipelined /\ ~PartsLost /\ ~Evicts
  /\ Cuts # "anywhere"

\* The search by length finds a write: its placeholders are in its first
\* record; a write of several records is one of TLS 1.2 and known to be; a
\* TLS 1.3 Finished record, itself application_data, has another length.
LengthsTell ==
  /\ ~KnowsVersion => NonceLen # TypeLen
  /\ \A pl \in Payload :
       /\ \A p \in Prescan(pl) : p.off < MaxRecord
       /\ pl.len > MaxRecord => KnowsVersion /\ \A c \in Conn : Version[c] = "1.2"
       /\ (\E c \in Conn : Version[c] = "1.3") =>
            /\ Scan >= 1 /\ pl.len # FinishedLen
            /\ ~KnowsVersion => pl.len + NonceLen # FinishedLen + TypeLen

\* No segment ends inside the header of a record.
HeadersWhole ==
  \A c \in Conn : \A i \in 1 .. Len(stream[c]) :
    ~(stream[c][i].start < sent[c] /\ sent[c] < stream[c][i].start + HdrLen)

----------------------------------------------------------------------------
(* The inductive invariant: what the stream is made of.                    *)

\* The records of a connection follow one another without a gap.
OrderOK ==
  \A c \in Conn :
    /\ \A i, j \in 1 .. Len(stream[c]) :
         i < j => End(c, stream[c][i]) <= stream[c][j].start
    /\ \A i \in 1 .. Len(stream[c]) :
         stream[c][i].start = IF i = 1 THEN 0 ELSE End(c, stream[c][i - 1])
    /\ queued[c] = IF Len(stream[c]) = 0 THEN 0 ELSE End(c, stream[c][Len(stream[c])])

\* The n-th record of a connection: ClientHello, Finished, then writes.
NthOK(c, n, r) ==
  /\ r.id = 0 <=> n <= 2
  /\ n = 1 => r.kind = "skip" /\ r.len = Hello.len
  /\ n = 2 => r.kind = Finished(c).kind /\ r.len = FinishedLen
  /\ n > 2 => r.kind = "app" /\ r.len <= MaxRecord

SentOK == \A c \in Conn : \A i \in 1 .. Len(stream[c]) : NthOK(c, i, stream[c][i])

HandOK ==
  \A t \in Thread : \A n \in 1 .. Len(thr[t].recs) :
    NthOK(thr[t].conn, Len(stream[thr[t].conn]) + n, thr[t].recs[n])

\* The state of the handshake counts the records it has produced.
Count(state, n) ==
  /\ state = "no" => n = 0
  /\ state = "hello" => n = 1
  /\ state = "yes" => n >= 2

OpenOK ==
  \A c \in Conn :
    /\ ~Busy(c) => Count(opened[c], Len(stream[c]))
    /\ \A t \in Thread :
         thr[t].conn = c => Count(opened[c], Len(stream[c]) + Len(thr[t].recs))

ShapeInv == OrderOK /\ SentOK /\ HandOK /\ OpenOK

----------------------------------------------------------------------------
(* The inductive invariant: what the entries of the maps are for.          *)

\* r is the first record of the write that e, an entry of xor_pending or of
\* tc_pending, has the patches of, and they are all in it.
WriteStart(r, e) ==
  /\ r.id = e.id /\ r.id # 0 /\ r.off = 0
  /\ r.len = IF e.len <= MaxRecord THEN e.len ELSE MaxRecord
  /\ \A p \in e.patches : p.off < r.len
  /\ \E pl \in Payload : pl.len = e.len

\* Of the first n records, those of writes have been received.
LeftBefore(c, n) ==
  \A i \in 1 .. n : stream[c][i].id = 0 \/ End(c, stream[c][i]) <= sent[c]

\* Staged patches are those of the record the thread sends next.
FirstOK ==
  xor # None =>
    \E t \in Thread :
      /\ thr[t].conn = xor.conn /\ Len(thr[t].recs) # 0
      /\ WriteStart(thr[t].recs[1], xor)
      /\ LeftBefore(xor.conn, Len(stream[xor.conn]))

\* The entry of tc_pending is for the m-th record of its connection.
EntryAt(c, m) ==
  /\ WriteStart(stream[c][m], tc[c])
  /\ tc[c].seq = ISN + stream[c][m].start
  /\ LeftBefore(c, m - 1)

EntryOK ==
  \A c \in Conn : tc[c] # None /\ tc[c].active =>
    \E m \in 1 .. Len(stream[c]) : EntryAt(c, m)

EntryInv == FirstOK /\ EntryOK

----------------------------------------------------------------------------
(* The inductive invariant: what the peer received.                        *)

Positions(c, r) == {p.pos : p \in PatchesOn(c, r)}

\* Patch p is where record r of its own write has the placeholder.
PatchAt(c, r, p) ==
  /\ r.start < sent[c]
  /\ r.kind = "app" /\ r.off = 0 /\ p.id = r.id /\ p.off < r.len
  /\ p.pos = Text(c, r) + p.off

\* Every patch is on a record whose tag was corrected or waits to be.
PatchedOK(c) ==
  \A p \in patched[c] :
    \E i \in 1 .. Len(stream[c]) :
      /\ PatchAt(c, stream[c][i], p)
      /\ \/ FixesOn(c, stream[c][i]) # {}
         \/ tagp[c] # None /\ tagp[c].fix.start = stream[c][i].start

\* A correction that left is the right one for the patches of its record.
FixedOK(c) ==
  \A f \in fixed[c] :
    \E i \in 1 .. Len(stream[c]) :
      /\ f.start = stream[c][i].start /\ End(c, stream[c][i]) <= sent[c]
      /\ f.good /\ f.at = Positions(c, stream[c][i])

\* So is one that waits for its tag; a part of its record has left.
DeferredOK(c) ==
  tagp[c] # None =>
    \E i \in 1 .. Len(stream[c]) :
      /\ stream[c][i].start = tagp[c].fix.start
      /\ stream[c][i].start < sent[c] /\ stream[c][i].id # 0
      /\ tagp[c].fix.good /\ tagp[c].fix.at = Positions(c, stream[c][i])

PeerOK(c) == PatchedOK(c) /\ FixedOK(c) /\ DeferredOK(c)
PeerInv == \A c \in Conn : PeerOK(c)

RecordInv == BridgeInv /\ TagInv /\ ShapeInv /\ EntryInv /\ PeerInv

----------------------------------------------------------------------------
(* What a write is made of, and what a call and a send do.                 *)

\* The records of a write: the first holds all of it or is full, the others
\* hold what is behind the first, and a placeholder is in the record that has
\* its patch.
WrittenAs(f, id, len, text, patches) ==
  /\ f \in Seq(Unsent) /\ Len(f) \in Nat \ {0}
  /\ \A n \in 1 .. Len(f) :
       /\ f[n].id = id /\ f[n].kind = "app" /\ f[n].len <= MaxRecord
       /\ \A h \in f[n].staged : h \in patches /\ (n > 1 => h.off >= MaxRecord)
       /\ \A h \in f[n].holds : h \in text /\ \A p \in patches :
            p.off = h.off => p \in f[n].staged
  /\ f[1].off = 0 /\ f[1].len = IF len <= MaxRecord THEN len ELSE MaxRecord

\* Fragments cuts a write that way.
LEMMA FragmentShape ==
  ASSUME NEW id \in Nat, NEW len \in Nat \ {0},
         NEW text \in SUBSET Placeholder, NEW patches \in SUBSET Patch
  PROVE  WrittenAs(Fragments(id, len, text, patches), id, len, text, patches)
<1> DEFINE f == Fragments(id, len, text, patches)
           m == (len + MaxRecord - 1) \div MaxRecord
           rec(n) == LET off == (n - 1) * MaxRecord
                         l   == Min({MaxRecord, len - off})
                     IN [id |-> id, kind |-> "app", off |-> off, len |-> l,
                         holds |-> {p \in text : off <= p.off /\ p.off < off + l},
                         staged |-> {p \in patches : off <= p.off /\ p.off < off + l}]
<1>1. MaxRecord \in Nat \ {0}
  BY TlsPatchConstants
<1>2. m \in Nat \ {0} /\ \A n \in 1 .. m : (n - 1) * MaxRecord \in Nat /\ (n - 1) * MaxRecord < len
  BY <1>1, RecordCount
<1>3. f = [n \in 1 .. m |-> rec(n)]
  BY DEF Fragments
<1>4. ASSUME NEW n \in 1 .. m
      PROVE  LET l == Min({MaxRecord, len - (n - 1) * MaxRecord}) IN
             l \in {MaxRecord, len - (n - 1) * MaxRecord} /\ l <= MaxRecord
                /\ l <= len - (n - 1) * MaxRecord
  <2>1. len - (n - 1) * MaxRecord \in Nat
    BY <1>2
  <2>2. {MaxRecord, len - (n - 1) * MaxRecord} \in SUBSET Nat
    BY <1>1, <2>1
  <2> QED
    BY <2>2, MinIn
<1>5. ASSUME NEW n \in 1 .. m
      PROVE  /\ rec(n).id = id /\ rec(n).kind = "app" /\ rec(n).len <= MaxRecord
             /\ \A h \in rec(n).staged : h \in patches /\ (n > 1 => h.off >= MaxRecord)
             /\ \A h \in rec(n).holds : h \in text /\ \A p \in patches :
                  p.off = h.off => p \in rec(n).staged
  <2>1. n > 1 => MaxRecord <= (n - 1) * MaxRecord
    <3>1. ASSUME n > 1 PROVE MaxRecord <= (n - 1) * MaxRecord
      <4>1. n - 2 \in Nat
        BY <1>2, <3>1
      <4>2. (n - 1) * MaxRecord = MaxRecord + (n - 2) * MaxRecord
        BY <1>1, <1>2
      <4>3. (n - 2) * MaxRecord \in Nat
        BY <1>1, <4>1
      <4> QED
        BY <1>1, <4>2, <4>3
    <3> QED
      BY <3>1
  <2>2. (n - 1) * MaxRecord \in Nat
    BY <1>2
  <2>3. \A h \in patches : h.off \in Nat
    BY DEF Patch
  <2>4. \A h \in rec(n).staged : h \in patches /\ (n - 1) * MaxRecord <= h.off
    OBVIOUS
  <2>5. rec(n).id = id /\ rec(n).kind = "app" /\ rec(n).len <= MaxRecord
    BY <1>4
  <2>7. \A h \in rec(n).holds : h \in text /\ \A p \in patches :
          p.off = h.off => p \in rec(n).staged
    OBVIOUS
  <2> HIDE DEF rec
  <2>6. ASSUME NEW h \in rec(n).staged, n > 1 PROVE h.off >= MaxRecord
    <3>1. h.off \in Nat /\ (n - 1) * MaxRecord <= h.off /\ MaxRecord <= (n - 1) * MaxRecord
      BY <2>1, <2>3, <2>4, <2>6
    <3> QED
      BY <1>1, <2>2, <3>1
  <2> QED
    BY <2>4, <2>5, <2>6, <2>7
<1>6. rec(1).off = 0 /\ rec(1).len = IF len <= MaxRecord THEN len ELSE MaxRecord
  <2>1. (1 - 1) * MaxRecord = 0
    BY <1>1
  <2>2. 1 \in 1 .. m
    BY <1>2
  <2> QED
    BY <1>1, <1>4, <2>1, <2>2
<1>7. f \in Seq(Unsent) /\ Len(f) \in Nat \ {0}
  BY FragmentsType
<1> HIDE DEF m, rec, f
<1>8. Len(f) = m /\ \A n \in 1 .. m : f[n] = rec(n)
  BY <1>2, <1>3
<1>9. WrittenAs(f, id, len, text, patches)
  BY <1>2, <1>5, <1>6, <1>7, <1>8 DEF WrittenAs
<1> QED
  BY <1>9 DEF f

\* What a write puts into the thread's hands.
LEMMA WriteShape ==
  ASSUME StreamInv, NEW pl \in Payload
  PROVE  WrittenAs(Fragments(writes + 1, pl.len, Placeholders(pl), XorPatches(pl)),
                   writes + 1, pl.len, Placeholders(pl), XorPatches(pl))
<1>1. pl.len \in Nat \ {0} /\ pl.secrets \in SUBSET Patch
  BY TlsPatchConstants
<1>2. XorPatches(pl) \in SUBSET Patch
  BY <1>1 DEF XorPatches, Prescan
<1>3. writes + 1 \in Nat
  BY DEF StreamInv, TypeOK
<1>4. Placeholders(pl) \in SUBSET Placeholder
  BY PlaceholdersType
<1> QED
  BY <1>1, <1>2, <1>3, <1>4, FragmentShape

\* A call on c hands the thread the next records of c.
LEMMA CallShape ==
  ASSUME Regular, BridgeInv, ShapeInv, NEW t \in Thread, NEW c \in Conn,
         Handshake(t, c) \/ \E pl \in Payload : SslWrite(t, c, pl)
  PROVE  \E recs \in Seq(Unsent) :
           /\ thr' = [thr EXCEPT ![t] = [conn |-> c, recs |-> recs]]
           /\ Len(recs) # 0
           /\ \A n \in 1 .. Len(recs) : NthOK(c, Len(stream[c]) + n, recs[n])
           /\ Count(opened'[c], Len(stream[c]) + Len(recs))
           /\ \A d \in Conn \ {c} : opened'[d] = opened[d]
<1>1. SocketBio /\ OneThread /\ ~LazyHandshake
  BY DEF Regular
<1>2. ~Busy(c) /\ Len(stream[c]) \in Nat /\ opened \in [Conn -> {"no", "hello", "yes"}]
  BY DEF Handshake, SslWrite, Idle, BridgeInv, StreamInv, TypeOK
<1>3. Count(opened[c], Len(stream[c]))
  BY <1>2 DEF ShapeInv, OpenOK
<1>4. \A x \in Unsent : <<x>> \in Seq(Unsent) /\ Len(<<x>>) = 1 /\ <<x>>[1] = x
  OBVIOUS
<1>5. CASE Handshake(t, c) /\ opened[c] = "no"
  <2>1. Emit(t, c, <<Hello>>) /\ opened' = [opened EXCEPT ![c] = "hello"]
    BY <1>5 DEF Handshake
  <2>2. <<Hello>> \in Seq(Unsent) /\ Len(<<Hello>>) = 1 /\ <<Hello>>[1] = Hello
    BY <1>4, HandshakeRecords
  <2>3. thr' = [thr EXCEPT ![t] = [conn |-> c, recs |-> <<Hello>>]]
    BY <1>1, <2>1, <2>2, EmitType DEF BridgeInv
  <2>4. Len(stream[c]) = 0 /\ NthOK(c, 1, Hello)
    BY <1>3, <1>5 DEF Count, NthOK, Hello
  <2>5. opened'[c] = "hello" /\ \A d \in Conn \ {c} : opened'[d] = opened[d]
    BY <1>2, <2>1
  <2> DEFINE recs == <<Hello>>
  <2> HIDE DEF recs
  <2>6. \A n \in 1 .. Len(recs) : NthOK(c, Len(stream[c]) + n, recs[n])
    BY <2>2, <2>4 DEF recs
  <2>7. Count(opened'[c], Len(stream[c]) + Len(recs))
    BY <2>2, <2>4, <2>5 DEF Count, recs
  <2>8. /\ recs \in Seq(Unsent) /\ Len(recs) # 0
        /\ thr' = [thr EXCEPT ![t] = [conn |-> c, recs |-> recs]]
    BY <2>2, <2>3 DEF recs
  <2> QED
    BY <2>5, <2>6, <2>7, <2>8
<1>6. CASE Handshake(t, c) /\ opened[c] = "hello"
  <2>1. Emit(t, c, <<Finished(c)>>) /\ opened' = [opened EXCEPT ![c] = "yes"]
    BY <1>6 DEF Handshake
  <2>2. <<Finished(c)>> \in Seq(Unsent) /\ Len(<<Finished(c)>>) = 1
        /\ <<Finished(c)>>[1] = Finished(c)
    BY <1>4, HandshakeRecords
  <2>3. thr' = [thr EXCEPT ![t] = [conn |-> c, recs |-> <<Finished(c)>>]]
    BY <1>1, <2>1, <2>2, EmitType DEF BridgeInv
  <2>4. Len(stream[c]) = 1 /\ NthOK(c, 2, Finished(c))
    BY <1>3, <1>6 DEF Count, NthOK, Finished
  <2>5. opened'[c] = "yes" /\ \A d \in Conn \ {c} : opened'[d] = opened[d]
    BY <1>2, <2>1
  <2> DEFINE recs == <<Finished(c)>>
  <2> HIDE DEF recs
  <2>6. \A n \in 1 .. Len(recs) : NthOK(c, Len(stream[c]) + n, recs[n])
    BY <2>2, <2>4 DEF recs
  <2>7. Count(opened'[c], Len(stream[c]) + Len(recs))
    BY <2>2, <2>4, <2>5 DEF Count, recs
  <2>8. /\ recs \in Seq(Unsent) /\ Len(recs) # 0
        /\ thr' = [thr EXCEPT ![t] = [conn |-> c, recs |-> recs]]
    BY <2>2, <2>3 DEF recs
  <2> QED
    BY <2>5, <2>6, <2>7, <2>8
<1>7. CASE \E pl \in Payload : SslWrite(t, c, pl)
  <2>1. PICK pl \in Payload : SslWrite(t, c, pl)
    BY <1>7
  <2> DEFINE f == Fragments(writes + 1, pl.len, Placeholders(pl), XorPatches(pl))
  <2>2. Emit(t, c, f) /\ opened' = opened /\ opened[c] = "yes"
    BY <1>1, <2>1 DEF SslWrite
  <2>3. pl.len \in Nat \ {0} /\ XorPatches(pl) \in SUBSET Patch /\ writes + 1 \in Nat \ {0}
    <3>1. XorPatches(pl) \subseteq pl.secrets
      BY DEF XorPatches, Prescan
    <3>2. pl.len \in Nat \ {0} /\ pl.secrets \in SUBSET Patch
      BY TlsPatchConstants
    <3>3. writes \in Nat
      BY DEF BridgeInv, StreamInv, TypeOK
    <3> QED
      BY <3>1, <3>2, <3>3
  <2>0. WrittenAs(f, writes + 1, pl.len, Placeholders(pl), XorPatches(pl))
    BY WriteShape DEF BridgeInv
  <2> HIDE DEF f
  <2>4. /\ f \in Seq(Unsent) /\ Len(f) \in Nat \ {0}
        /\ \A n \in 1 .. Len(f) :
             f[n].id = writes + 1 /\ f[n].kind = "app" /\ f[n].len <= MaxRecord
    BY <2>0 DEF WrittenAs
  <2>5. thr' = [thr EXCEPT ![t] = [conn |-> c, recs |-> f]]
    BY <1>1, <2>2, <2>4, EmitType DEF BridgeInv
  <2>6. Len(stream[c]) >= 2
    BY <1>3, <2>2 DEF Count
  <2>7. \A n \in 1 .. Len(f) : NthOK(c, Len(stream[c]) + n, f[n])
    BY <1>2, <2>3, <2>4, <2>6 DEF NthOK
  <2>8. Count(opened'[c], Len(stream[c]) + Len(f))
    BY <1>2, <2>2, <2>4, <2>6 DEF Count
  <2> QED
    BY <2>2, <2>4, <2>5, <2>7, <2>8
<1> QED
  BY <1>5, <1>6, <1>7 DEF Handshake

\* The record a thread sends, placed at the end of the stream.
Placing(c, r) == [id |-> r.id, kind |-> r.kind, off |-> r.off, len |-> r.len,
                  holds |-> r.holds, staged |-> r.staged, start |-> queued[c]]

\* tcp_sendmsg appends the first record in the thread's hands to the stream.
LEMMA SendShape ==
  ASSUME StreamInv, NEW t \in Thread, TcpSendmsg(t)
  PROVE  LET c == thr[t].conn
             recs == thr[t].recs
             new == Placing(c, recs[1])
             n == Len(stream[c])
         IN /\ c \in Conn /\ recs \in Seq(Unsent) /\ Len(recs) \in Nat \ {0}
            /\ thr'[t].recs \in Seq(Unsent) /\ Len(thr'[t].recs) = Len(recs) - 1
            /\ \A k \in 1 .. Len(recs) - 1 : thr'[t].recs[k] = recs[k + 1]
            /\ thr'[t].conn = IF Len(recs) = 1 THEN None ELSE c
            /\ \A u \in Thread \ {t} : thr'[u] = thr[u]
            /\ n \in Nat /\ new \in Placed /\ recs[1] \in Unsent
            /\ stream' = [stream EXCEPT ![c] = Append(stream[c], new)]
            /\ Len(stream'[c]) = n + 1 /\ stream'[c][n + 1] = new
            /\ queued' = [queued EXCEPT ![c] = End(c, new)]
            /\ \A d \in Conn : \A i \in 1 .. Len(stream[d]) :
                 i \in 1 .. Len(stream'[d]) /\ stream'[d][i] = stream[d][i]
            /\ \A d \in Conn \ {c} : stream'[d] = stream[d] /\ queued'[d] = queued[d]
            /\ queued'[c] = End(c, new)
            /\ UNCHANGED <<known, opened, buf, writes, tagp, sent, patched, fixed, losses>>
            /\ Bridge(c) /\ (Len(stream[c]) # 0 => Keyed(c))
<1> DEFINE c == thr[t].conn
           recs == thr[t].recs
           new == Placing(c, recs[1])
           n == Len(stream[c])
<1>1. recs \in Seq(Unsent) /\ recs # <<>> /\ c \in Conn
  BY DEF TcpSendmsg, StreamInv, TypeOK, CallOK
<1>2. /\ Head(recs) = recs[1] /\ recs[1] \in Unsent /\ Len(recs) \in Nat \ {0}
      /\ Tail(recs) \in Seq(Unsent) /\ Len(Tail(recs)) = Len(recs) - 1
      /\ \A k \in 1 .. Len(recs) - 1 : Tail(recs)[k] = recs[k + 1]
  <2> HIDE DEF recs
  <2>1. \A s \in Seq(Unsent) : s # <<>> =>
          /\ Head(s) = s[1] /\ s[1] \in Unsent /\ Len(s) \in Nat \ {0}
          /\ Tail(s) \in Seq(Unsent) /\ Len(Tail(s)) = Len(s) - 1
          /\ \A k \in 1 .. Len(s) - 1 : Tail(s)[k] = s[k + 1]
    OBVIOUS
  <2> QED
    BY <1>1, <2>1
<1>3. /\ new \in Placed
      /\ stream' = [stream EXCEPT ![c] = Append(stream[c], new)]
      /\ queued' = [queued EXCEPT ![c] = End(c, new)]
  BY <1>1, <1>2, QueueOne DEF TcpSendmsg, Placing
<1>4. /\ thr' = [thr EXCEPT ![t] = [conn |-> IF Tail(recs) = <<>> THEN None ELSE c,
                                    recs |-> Tail(recs)]]
      /\ UNCHANGED <<known, opened, buf, writes, tagp, sent, patched, fixed, losses>>
      /\ Bridge(c) /\ (stream[c] # <<>> => Keyed(c))
  BY DEF TcpSendmsg, peerVars
<1> HIDE DEF c, recs, new
<1>5. Tail(recs) = <<>> <=> Len(recs) = 1
  <2>1. \A s \in Seq(Unsent) : s = <<>> <=> Len(s) = 0
    OBVIOUS
  <2> QED
    BY <1>2, <2>1, SMTT(30)
<1>6. /\ thr'[t].recs = Tail(recs) /\ thr'[t].conn = IF Len(recs) = 1 THEN None ELSE c
      /\ \A u \in Thread \ {t} : thr'[u] = thr[u]
  BY <1>4, <1>5 DEF StreamInv, TypeOK
<1>7. stream \in [Conn -> Seq(Placed)] /\ queued \in [Conn -> Nat]
  BY DEF StreamInv, TypeOK
<1>8. /\ n \in Nat /\ Len(stream'[c]) = n + 1 /\ stream'[c][n + 1] = new
      /\ \A d \in Conn \ {c} : stream'[d] = stream[d] /\ queued'[d] = queued[d]
      /\ queued'[c] = End(c, new)
  BY <1>1, <1>3, <1>7
<1>9. ASSUME NEW d \in Conn, NEW i \in 1 .. Len(stream[d])
      PROVE  i \in 1 .. Len(stream'[d]) /\ stream'[d][i] = stream[d][i]
  <2>1. stream[d] \in Seq(Placed)
        /\ (stream'[d] = stream[d] \/ stream'[d] = Append(stream[d], new))
    BY <1>1, <1>3, <1>7
  <2> QED
    BY <1>3, <2>1
<1>10. Len(stream[c]) # 0 => Keyed(c)
  <2>1. \A s \in Seq(Placed) : Len(s) # 0 => s # <<>>
    OBVIOUS
  <2> QED
    BY <1>1, <1>4, <1>7, <2>1
<1> QED
  BY <1>1, <1>2, <1>3, <1>4, <1>6, <1>8, <1>9, <1>10 DEF c, recs, new

----------------------------------------------------------------------------
(* The stream: ClientHello, Finished, writes, one behind the other.        *)

\* Handshakes and writes.
LEMMA ShapeCalls ==
  ASSUME Regular, BridgeInv, ShapeInv, NEW t \in Thread, NEW c \in Conn,
         Handshake(t, c) \/ \E pl \in Payload : SslWrite(t, c, pl)
  PROVE  ShapeInv'
<1>1. Thread = {t} /\ None \notin Conn
  BY TlsPatchConstants DEF Regular, OneThread
<1>2. thr[t].conn = None /\ UNCHANGED <<stream, queued>>
  BY DEF Handshake, SslWrite, Idle, sendVars
<1>3. PICK recs \in Seq(Unsent) :
        /\ thr' = [thr EXCEPT ![t] = [conn |-> c, recs |-> recs]]
        /\ \A n \in 1 .. Len(recs) : NthOK(c, Len(stream[c]) + n, recs[n])
        /\ Count(opened'[c], Len(stream[c]) + Len(recs))
        /\ \A d \in Conn \ {c} : opened'[d] = opened[d]
  BY CallShape
<1>4. thr'[t].conn = c /\ thr'[t].recs = recs
  BY <1>3 DEF BridgeInv, StreamInv, TypeOK
<1>5. OrderOK' /\ SentOK'
  BY <1>2 DEF ShapeInv, OrderOK, SentOK
<1>6. HandOK'
  BY <1>1, <1>2, <1>3, <1>4 DEF HandOK
<1>7. OpenOK'
  <2> SUFFICES ASSUME NEW d \in Conn
               PROVE  /\ ~(thr'[t].conn = d) => Count(opened'[d], Len(stream[d]))
                      /\ thr'[t].conn = d =>
                           Count(opened'[d], Len(stream[d]) + Len(thr'[t].recs))
    BY <1>1, <1>2 DEF OpenOK, Busy
  <2>1. CASE d = c
    BY <1>3, <1>4, <2>1
  <2>2. CASE d # c
    <3>1. opened'[d] = opened[d] /\ ~Busy(d)
      BY <1>1, <1>2, <1>3, <2>2 DEF Busy
    <3> QED
      BY <1>4, <2>2, <3>1 DEF ShapeInv, OpenOK
  <2> QED
    BY <2>1, <2>2
<1> QED
  BY <1>5, <1>6, <1>7 DEF ShapeInv

\* The record sent lies where the stream ended.
LEMMA OrderSends ==
  ASSUME StreamInv, OrderOK, NEW t \in Thread, TcpSendmsg(t)
  PROVE  OrderOK'
<1> DEFINE c == thr[t].conn
           new == Placing(c, thr[t].recs[1])
           n == Len(stream[c])
<1>1. /\ c \in Conn /\ n \in Nat /\ new \in Placed
      /\ Len(stream'[c]) = n + 1 /\ stream'[c][n + 1] = new
      /\ \A i \in 1 .. n : stream'[c][i] = stream[c][i]
      /\ \A d \in Conn \ {c} : stream'[d] = stream[d] /\ queued'[d] = queued[d]
      /\ queued'[c] = End(c, new)
  BY SendShape
<1>2. new.start = queued[c]
  BY DEF Placing
<1> HIDE DEF c, new
<1> SUFFICES ASSUME NEW d \in Conn
             PROVE  /\ \A i, j \in 1 .. Len(stream'[d]) :
                         i < j => End(d, stream'[d][i]) <= stream'[d][j].start
                    /\ \A i \in 1 .. Len(stream'[d]) :
                         stream'[d][i].start = IF i = 1 THEN 0 ELSE End(d, stream'[d][i - 1])
                    /\ queued'[d] = IF Len(stream'[d]) = 0 THEN 0
                                    ELSE End(d, stream'[d][Len(stream'[d])])
  BY DEF OrderOK
<1>3. CASE d # c
  BY <1>1, <1>3 DEF OrderOK
<1>4. CASE d = c
  <2>1. \A i \in 1 .. n : End(c, stream[c][i]) <= queued[c]
    BY <1>1 DEF StreamInv, LayoutOK
  <2>2. \A i, j \in 1 .. n : i < j => End(c, stream[c][i]) <= stream[c][j].start
    BY <1>1 DEF OrderOK
  <2>3. /\ \A i \in 1 .. n : stream[c][i].start = IF i = 1 THEN 0 ELSE End(c, stream[c][i - 1])
        /\ queued[c] = IF n = 0 THEN 0 ELSE End(c, stream[c][n])
    BY <1>1 DEF OrderOK
  <2>4. ASSUME NEW i \in 1 .. n + 1, NEW j \in 1 .. n + 1, i < j
        PROVE  End(c, stream'[c][i]) <= stream'[c][j].start
    <3>1. i \in 1 .. n /\ stream'[c][i] = stream[c][i]
      BY <1>1, <2>4
    <3>2. CASE j = n + 1
      BY <1>1, <1>2, <2>1, <3>1, <3>2
    <3>3. CASE j \in 1 .. n
      BY <1>1, <2>2, <2>4, <3>1, <3>3
    <3> QED
      BY <1>1, <3>2, <3>3
  <2>5. ASSUME NEW i \in 1 .. n + 1
        PROVE  stream'[c][i].start = IF i = 1 THEN 0 ELSE End(c, stream'[c][i - 1])
    <3>1. CASE i \in 1 .. n
      <4>1. i # 1 => i - 1 \in 1 .. n
        BY <1>1, <3>1
      <4> QED
        BY <1>1, <2>3, <3>1, <4>1
    <3>2. CASE i = n + 1
      <4>1. i # 1 => n # 0 /\ i - 1 = n /\ n \in 1 .. n
        BY <1>1, <3>2
      <4>2. i = 1 => n = 0
        BY <1>1, <3>2
      <4> QED
        BY <1>1, <1>2, <2>3, <3>2, <4>1, <4>2
    <3> QED
      BY <1>1, <3>1, <3>2
  <2> QED
    BY <1>1, <1>4, <2>4, <2>5
<1> QED
  BY <1>3, <1>4

\* A thread sends the records of its connection in their order.
LEMMA ShapeSends ==
  ASSUME Regular, BridgeInv, ShapeInv, NEW t \in Thread, TcpSendmsg(t)
  PROVE  ShapeInv'
<1> DEFINE c == thr[t].conn
           recs == thr[t].recs
           new == Placing(c, recs[1])
           n == Len(stream[c])
<1>1. /\ c \in Conn /\ recs \in Seq(Unsent) /\ Len(recs) \in Nat \ {0} /\ n \in Nat
      /\ Len(thr'[t].recs) = Len(recs) - 1
      /\ \A k \in 1 .. Len(recs) - 1 : thr'[t].recs[k] = recs[k + 1]
      /\ thr'[t].conn = IF Len(recs) = 1 THEN None ELSE c
      /\ Len(stream'[c]) = n + 1 /\ stream'[c][n + 1] = new
      /\ \A i \in 1 .. n : stream'[c][i] = stream[c][i]
      /\ \A d \in Conn \ {c} : stream'[d] = stream[d]
      /\ UNCHANGED opened
  <2>1. StreamInv
    BY DEF BridgeInv
  <2> QED
    BY <2>1, SendShape, SMTT(30)
<1>2. Thread = {t} /\ None \notin Conn
  BY TlsPatchConstants DEF Regular, OneThread
<1>3. \A k \in 1 .. Len(recs) : NthOK(c, n + k, recs[k])
  BY DEF ShapeInv, HandOK
<1>4. NthOK(c, n + 1, new)
  <2>1. NthOK(c, n + 1, recs[1])
    BY <1>1, <1>3
  <2> QED
    BY <2>1 DEF NthOK, Placing
<1>5. /\ \A d \in Conn : \A i \in 1 .. Len(stream[d]) : NthOK(d, i, stream[d][i])
      /\ Count(opened[c], n + Len(recs))
      /\ \A d \in Conn \ {c} : Count(opened[d], Len(stream[d]))
  BY <1>1, <1>2 DEF ShapeInv, SentOK, OpenOK, Busy
<1> HIDE DEF c, recs, new
<1>6. SentOK'
  <2> SUFFICES ASSUME NEW d \in Conn, NEW i \in 1 .. Len(stream'[d])
               PROVE  NthOK(d, i, stream'[d][i])
    BY DEF SentOK, NthOK, Finished
  <2>1. CASE d # c
    BY <1>1, <1>5, <2>1
  <2>2. CASE d = c /\ i \in 1 .. n
    BY <1>1, <1>5, <2>2
  <2>3. CASE d = c /\ i = n + 1
    BY <1>1, <1>4, <2>3
  <2> QED
    BY <1>1, <2>1, <2>2, <2>3
<1>7. HandOK'
  <2> SUFFICES ASSUME NEW u \in Thread, NEW k \in 1 .. Len(thr'[u].recs)
               PROVE  NthOK(thr'[u].conn, Len(stream'[thr'[u].conn]) + k, thr'[u].recs[k])
    BY DEF HandOK, NthOK, Finished
  <2>0. u = t
    BY <1>2
  <2> SUFFICES NthOK(thr'[t].conn, Len(stream'[thr'[t].conn]) + k, thr'[t].recs[k])
    BY <2>0
  <2> k \in 1 .. Len(thr'[t].recs)
    BY <2>0
  <2>1. k \in 1 .. Len(recs) - 1 /\ k + 1 \in 1 .. Len(recs) /\ Len(recs) # 1
    BY <1>1, SMTT(30)
  <2>2. thr'[t].conn = c /\ thr'[t].recs[k] = recs[k + 1]
    BY <1>1, <2>1
  <2>3. Len(stream'[c]) + k = n + (k + 1)
    <3>1. Len(stream'[c]) = n + 1 /\ n \in Nat /\ k \in Nat
      BY <1>1, <2>1
    <3> HIDE DEF n
    <3> QED
      BY <3>1
  <2>4. NthOK(c, n + (k + 1), recs[k + 1])
    BY <1>3, <2>1
  <2> QED
    BY <2>2, <2>3, <2>4
<1>8. OpenOK'
  <2> SUFFICES ASSUME NEW d \in Conn
               PROVE  /\ ~(thr'[t].conn = d) => Count(opened[d], Len(stream'[d]))
                      /\ thr'[t].conn = d =>
                           Count(opened[d], Len(stream'[d]) + Len(thr'[t].recs))
    BY <1>1, <1>2 DEF OpenOK, Busy
  <2>1. CASE d # c
    BY <1>1, <1>2, <1>5, <2>1
  <2>2. CASE d = c
    <3>1. Len(stream'[c]) + Len(thr'[t].recs) = n + Len(recs)
      BY <1>1
    <3>2. thr'[t].conn # c => Len(stream'[c]) = n + Len(recs)
      BY <1>1, <1>2
    <3> QED
      BY <1>5, <2>2, <3>1, <3>2
  <2> QED
    BY <2>1, <2>2
<1>9. OrderOK'
  BY OrderSends DEF BridgeInv, ShapeInv
<1> QED
  BY <1>6, <1>7, <1>8, <1>9 DEF ShapeInv

----------------------------------------------------------------------------
(* The search of tc_egress_patch.                                          *)

\* A record ends where the ones behind it have not begun.
LEMMA Behind ==
  ASSUME StreamInv, OrderOK, NEW c \in Conn, NEW i \in 1 .. Len(stream[c]),
         NEW j \in 1 .. Len(stream[c]), i < j
  PROVE  /\ stream[c][i].start \in Nat /\ stream[c][j].start \in Nat
         /\ End(c, stream[c][i]) \in Nat
         /\ stream[c][i].start < End(c, stream[c][i])
         /\ End(c, stream[c][i]) <= stream[c][j].start
         /\ stream[c][i].start < stream[c][j].start
<1>1. /\ stream[c][i].start \in Nat /\ stream[c][i].len \in Nat
      /\ stream[c][i].kind \in {"app", "skip"}
  BY StreamRecord DEF StreamInv
<1>2. stream[c][j].start \in Nat
  BY StreamRecord DEF StreamInv
<1>3. End(c, stream[c][i]) \in Nat /\ stream[c][i].start < End(c, stream[c][i])
  BY <1>1, RecordSize
<1>4. End(c, stream[c][i]) <= stream[c][j].start
  BY DEF OrderOK
<1> QED
  BY <1>1, <1>2, <1>3, <1>4

\* The entry that tc_pending holds is for a record of a write, behind the two
\* of the handshake.
LEMMA EntryIndex ==
  ASSUME StreamInv, ShapeInv, NEW c \in Conn, NEW m \in 1 .. Len(stream[c]), EntryAt(c, m)
  PROVE  /\ m > 2 /\ stream[c][m].kind = "app"
         /\ stream[c][m].start \in Nat \ {0} /\ stream[c][m].len \in Nat
<1>1. NthOK(c, m, stream[c][m]) /\ stream[c][m].id # 0
  BY DEF ShapeInv, SentOK, EntryAt, WriteStart
<1>2. m > 2 /\ stream[c][m].kind = "app"
  BY <1>1 DEF NthOK
<1>3. stream[c][m].start \in Nat /\ stream[c][m].len \in Nat
  BY StreamRecord DEF StreamInv
<1>4. 1 \in 1 .. Len(stream[c]) /\ 1 < m
  BY <1>2
<1>5. stream[c][1].start \in Nat /\ stream[c][1].start < stream[c][m].start
  BY <1>4, Behind DEF ShapeInv
<1> QED
  BY <1>2, <1>3, <1>5

\* An entry is looked at while its record is in the segment.
LEMMA WindowIsRecord ==
  ASSUME StreamInv, ShapeInv, NoWrap, NEW c \in Conn, NEW hi \in Nat,
         sent[c] < hi, hi <= queued[c], NEW m \in 1 .. Len(stream[c]), EntryAt(c, m)
  PROVE  InWindow(c, sent[c], hi) <=> sent[c] <= stream[c][m].start /\ stream[c][m].start < hi
<1>1. ISN \in Nat /\ sent[c] \in Nat /\ queued[c] \in Nat /\ stream[c][m].start \in Nat \ {0}
  BY EntryIndex, TlsPatchConstants DEF StreamInv, TypeOK
<1>2. tc[c].seq = ISN + stream[c][m].start
  BY DEF EntryAt
<1>3. Seq32(sent[c]) = ISN + sent[c] /\ Seq32(hi) = ISN + hi
  BY <1>1, SeqInOrder DEF StreamInv
<1> QED
  BY <1>1, <1>2, <1>3 DEF InWindow

\* The nonce lengths tc_egress_patch tries.
Nonces(c) == IF KnowsVersion THEN {Nonce(tc[c].ssl)} ELSE {0, NonceLen}

\* A record as long as the write fits under the connection's own layout only.
LEMMA OwnLayout ==
  ASSUME LengthsTell, NEW c \in Conn, tc[c].ssl = c, NEW i, stream[c][i].kind = "app",
         stream[c][i].len \in Nat, stream[c][i].len = tc[c].len, NEW n \in Nonces(c)
  PROVE  LenMatch(c, i, n) <=> n = Nonce(c)
<1>1. /\ NonceLen \in Nat \ {0} /\ TypeLen \in Nat \ {0} /\ TagLen \in Nat
      /\ KnowsVersion \in BOOLEAN /\ Version[c] \in {"1.2", "1.3"}
  BY TlsPatchConstants
<1>2. RecLen(c, stream[c][i]) =
        tc[c].len + TagLen + IF Version[c] = "1.2" THEN NonceLen ELSE TypeLen
  BY DEF RecLen
<1>3. CASE KnowsVersion
  BY <1>1, <1>2, <1>3 DEF LenMatch, Nonces, Nonce
<1>4. CASE ~KnowsVersion
  <2>1. NonceLen # TypeLen /\ n \in {0, NonceLen}
    BY <1>4 DEF LengthsTell, Nonces
  <2> QED
    BY <1>1, <1>2, <2>1 DEF LenMatch, Nonce
<1> QED
  BY <1>1, <1>3, <1>4

\* Records whose header is in a segment that begins with a record.
LEMMA HeadIs ==
  ASSUME NEW c, NEW lo, NEW hi, NEW a \in Heads(c, lo, hi), NEW i
  PROVE  i \in Heads(c, lo, hi) <=> /\ i \in 1 .. Len(stream[c]) /\ lo <= stream[c][i].start
                                    /\ stream[c][i].start + HdrLen <= hi
<1> DEFINE hs == {k \in 1 .. Len(stream[c]) :
                    lo <= stream[c][k].start /\ stream[c][k].start + HdrLen <= hi}
<1>1. Heads(c, lo, hi) = hs
  BY DEF Heads
<1> QED
  BY <1>1

\* Of the records before the entry's own only the handshake's may still be
\* here.
LEMMA HandshakeBefore ==
  ASSUME StreamInv, ShapeInv, NEW c \in Conn, NEW m \in 1 .. Len(stream[c]), EntryAt(c, m),
         NEW i \in 1 .. Len(stream[c]), i < m, sent[c] <= stream[c][i].start
  PROVE  i <= 2
<1>1. sent[c] \in Nat /\ i \in 1 .. m - 1
  BY DEF StreamInv, TypeOK
<1>2. stream[c][i].id = 0 \/ End(c, stream[c][i]) <= sent[c]
  BY <1>1 DEF EntryAt, LeftBefore
<1>3. /\ stream[c][i].start \in Nat /\ End(c, stream[c][i]) \in Nat
      /\ stream[c][i].start < End(c, stream[c][i])
  BY Behind DEF ShapeInv
<1>4. stream[c][i].id = 0
  BY <1>1, <1>2, <1>3
<1>5. NthOK(c, i, stream[c][i])
  BY DEF ShapeInv, SentOK
<1> QED
  BY <1>4, <1>5 DEF NthOK

\* If the Finished record is still here, the entry's record is right behind it.
LEMMA RightBehind ==
  ASSUME StreamInv, ShapeInv, NEW c \in Conn, NEW m \in 1 .. Len(stream[c]), EntryAt(c, m),
         sent[c] <= stream[c][2].start
  PROVE  m = 3
<1>1. m > 2 /\ sent[c] \in Nat
  BY EntryIndex DEF StreamInv, TypeOK
<1> SUFFICES ASSUME m > 3 PROVE FALSE
  BY <1>1
<1>2. 3 \in 1 .. Len(stream[c]) /\ 2 \in 1 .. Len(stream[c])
  OBVIOUS
<1>3. /\ stream[c][2].start \in Nat /\ stream[c][3].start \in Nat
      /\ stream[c][2].start < stream[c][3].start
  BY <1>2, Behind DEF ShapeInv
<1>4. sent[c] <= stream[c][3].start
  BY <1>1, <1>3
<1>5. 3 <= 2
  BY <1>2, <1>4, HandshakeBefore
<1> QED
  BY <1>5

\* The first application_data record of a segment with the entry's record is
\* that record, or the Finished record of TLS 1.3 right before it.
LEMMA FirstIsNear ==
  ASSUME StreamInv, ShapeInv, NEW c \in Conn, NEW hi \in Nat,
         NEW m \in 1 .. Len(stream[c]), EntryAt(c, m),
         sent[c] <= stream[c][m].start, stream[c][m].start < hi,
         \A i \in 1 .. Len(stream[c]) :
           stream[c][i].start < hi => stream[c][i].start + HdrLen <= hi,
         NEW a \in FirstApp(c, sent[c], hi)
  PROVE  /\ a \in Heads(c, sent[c], hi) /\ m \in Heads(c, sent[c], hi)
         /\ a = m \/ (a = 2 /\ m = 3 /\ Version[c] = "1.3")
<1> DEFINE heads == Heads(c, sent[c], hi)
<1>1. /\ a \in heads /\ stream[c][a].kind = "app"
      /\ \A j \in heads : j < a => stream[c][j].kind = "skip"
  BY DEF FirstApp
<1>2. \A i : i \in heads <=> /\ i \in 1 .. Len(stream[c]) /\ sent[c] <= stream[c][i].start
                             /\ stream[c][i].start + HdrLen <= hi
  BY <1>1, HeadIs
<1> HIDE DEF heads
<1>3. m \in heads /\ m > 2 /\ stream[c][m].kind = "app"
  BY <1>2, EntryIndex
<1>4. a \in 1 .. Len(stream[c]) /\ a <= m
  <2>1. a \in 1 .. Len(stream[c]) /\ ~(m < a)
    BY <1>1, <1>2, <1>3
  <2> QED
    BY <2>1
<1>5. ASSUME a < m PROVE a = 2 /\ m = 3 /\ Version[c] = "1.3"
  <2>1. NthOK(c, a, stream[c][a]) /\ sent[c] <= stream[c][a].start
    BY <1>1, <1>2, <1>4 DEF ShapeInv, SentOK
  <2>2. a = 2
    <3>1. a # 1
      BY <1>1, <2>1 DEF NthOK
    <3>2. a <= 2
      BY <1>4, <1>5, <2>1, HandshakeBefore
    <3> QED
      BY <1>4, <3>1, <3>2
  <2>3. Version[c] = "1.3"
    BY <1>1, <2>1, <2>2 DEF NthOK, Finished
  <2>4. m = 3
    BY <2>1, <2>2, RightBehind
  <2> QED
    BY <2>2, <2>3, <2>4
<1> QED
  BY <1>1, <1>3, <1>4, <1>5 DEF heads

\* Whatever else the segment carries, tc_egress_patch patches the first record
\* of the write its entry is for, and takes its layout to be the connection's.
LEMMA TargetIsFirst ==
  ASSUME LengthsTell, BridgedOwn, StreamInv, ShapeInv, EntryOK, NoWrap,
         NEW c \in Conn, NEW hi \in Nat, sent[c] < hi, hi <= queued[c],
         \A i \in 1 .. Len(stream[c]) :
           stream[c][i].start < hi => stream[c][i].start + HdrLen <= hi,
         NEW tg \in Targets(c, sent[c], hi)
  PROVE  /\ tc[c] # None /\ tc[c].active
         /\ \E m \in 1 .. Len(stream[c]) :
              /\ EntryAt(c, m)
              /\ sent[c] <= stream[c][m].start /\ stream[c][m].start < hi
              /\ tg.rec = stream[c][m] /\ tg.nonce = Nonce(c)
<1> DEFINE fits(a) == {i \in Heads(c, sent[c], hi) :
                         /\ a <= i /\ i <= a + Scan
                         /\ stream[c][i].kind = "app"
                         /\ \E n \in Nonces(c) : LenMatch(c, i, n)}
           target(a) ==
             IF fits(a) # {}
             THEN [rec |-> stream[c][Min(fits(a))],
                   nonce |-> CHOOSE n \in Nonces(c) : LenMatch(c, Min(fits(a)), n)]
             ELSE [rec |-> stream[c][a], nonce |-> Max(Nonces(c))]
<1>1. tc[c] # None /\ tc[c].active /\ InWindow(c, sent[c], hi)
  BY DEF Targets
<1>2. tc[c].ssl = c
  BY <1>1 DEF BridgedOwn
<1>3. PICK a \in FirstApp(c, sent[c], hi) : tg = target(a)
  BY <1>1 DEF Targets, Nonces
<1>4. PICK m \in 1 .. Len(stream[c]) : EntryAt(c, m)
  BY <1>1 DEF EntryOK
<1>5. sent[c] <= stream[c][m].start /\ stream[c][m].start < hi
  BY <1>1, <1>4, WindowIsRecord
<1>6. /\ m > 2 /\ stream[c][m].kind = "app" /\ stream[c][m].len \in Nat
  BY <1>4, EntryIndex
<1>7. /\ a \in Heads(c, sent[c], hi) /\ m \in Heads(c, sent[c], hi)
      /\ a = m \/ (a = 2 /\ m = 3 /\ Version[c] = "1.3")
  BY <1>4, <1>5, FirstIsNear
<1>8. PICK pl \in Payload : pl.len = tc[c].len
  BY <1>4 DEF EntryAt, WriteStart
<1>9. /\ MaxRecord \in Nat /\ NonceLen \in Nat \ {0} /\ TypeLen \in Nat \ {0} /\ TagLen \in Nat
      /\ Scan \in Nat /\ FinishedLen \in Nat /\ tc[c].len \in Nat
      /\ KnowsVersion \in BOOLEAN /\ Version[c] \in {"1.2", "1.3"}
  BY <1>8, TlsPatchConstants
<1>10. stream[c][m].len = IF tc[c].len <= MaxRecord THEN tc[c].len ELSE MaxRecord
  BY <1>4 DEF EntryAt, WriteStart
<1>11. \A i \in Heads(c, sent[c], hi) : i \in 1 .. Len(stream[c])
  BY <1>7, HeadIs
<1>12. Nonce(c) \in Nonces(c)
  BY <1>2 DEF Nonces, Nonce
<1>13. ASSUME tc[c].len <= MaxRecord
       PROVE  tg.rec = stream[c][m] /\ tg.nonce = Nonce(c)
  <2>1. \A n \in Nonces(c) : LenMatch(c, m, n) <=> n = Nonce(c)
    BY <1>2, <1>6, <1>9, <1>10, <1>13, OwnLayout
  <2>2. m \in fits(a)
    <3>1. a <= m /\ m <= a + Scan
      BY <1>6, <1>7, <1>8, <1>9 DEF LengthsTell
    <3> QED
      BY <1>6, <1>7, <1>12, <2>1, <3>1
  <2>3. fits(a) \in SUBSET Nat /\ fits(a) # {}
    BY <1>11, <2>2
  <2> DEFINE k == Min(fits(a))
  <2>4. k \in fits(a) /\ k <= m
    <3> HIDE DEF fits
    <3> QED
      BY <2>2, <2>3, MinIn
  <2>5. k \in 1 .. Len(stream[c]) /\ a <= k /\ \E n \in Nonces(c) : LenMatch(c, k, n)
    <3> HIDE DEF k
    <3> QED
      BY <1>11, <2>4
  <2>6. tg = [rec |-> stream[c][k], nonce |-> CHOOSE n \in Nonces(c) : LenMatch(c, k, n)]
    BY <1>3, <2>3
  <2> HIDE DEF k, fits, target
  <2>7. k = m
    <3> SUFFICES ASSUME k # m PROVE FALSE
      OBVIOUS
    <3>1. k = 2 /\ a = 2 /\ Version[c] = "1.3"
      BY <1>7, <2>4, <2>5
    <3>2. NthOK(c, 2, stream[c][2])
      BY <2>5, <3>1 DEF ShapeInv, SentOK
    <3>3. RecLen(c, stream[c][2]) = FinishedLen + TagLen + TypeLen
      BY <3>1, <3>2 DEF NthOK, Finished, RecLen
    <3>4. PICK n \in Nonces(c) : LenMatch(c, 2, n)
      BY <2>5, <3>1
    <3>5. FinishedLen + TagLen + TypeLen = tc[c].len + TagLen + IF n = 0 THEN TypeLen ELSE n
      BY <3>3, <3>4 DEF LenMatch
    <3>6. /\ pl.len # FinishedLen
          /\ ~KnowsVersion => pl.len + NonceLen # FinishedLen + TypeLen
      BY <3>1 DEF LengthsTell
    <3>7. CASE KnowsVersion
      <4>1. n = 0
        BY <1>2, <3>1, <3>7 DEF Nonces, Nonce
      <4> QED
        BY <1>8, <1>9, <3>5, <3>6, <4>1, SMTT(30)
    <3>8. CASE ~KnowsVersion
      <4>1. CASE n = 0
        BY <1>8, <1>9, <3>5, <3>6, <4>1
      <4>2. CASE n = NonceLen
        <5> DEFINE l == tc[c].len
        <5>1. l \in Nat /\ FinishedLen + TagLen + TypeLen = l + TagLen + NonceLen
          BY <1>9, <3>5, <4>2
        <5> HIDE DEF l
        <5>2. FinishedLen + TypeLen = l + NonceLen
          <6>1. FinishedLen \in Nat /\ TypeLen \in Nat /\ TagLen \in Nat /\ NonceLen \in Nat
            BY <1>9
          <6> QED
            BY <5>1, <6>1
        <5> QED
          BY <1>8, <3>6, <3>8, <5>2 DEF l
      <4> QED
        BY <3>8, <4>1, <4>2 DEF Nonces
    <3> QED
      BY <1>9, <3>7, <3>8
  <2>8. (CHOOSE n \in Nonces(c) : LenMatch(c, m, n)) = Nonce(c)
    BY <1>12, <2>1
  <2> QED
    BY <2>6, <2>7, <2>8
<1>14. ASSUME tc[c].len > MaxRecord
       PROVE  tg.rec = stream[c][m] /\ tg.nonce = Nonce(c)
  <2>1. KnowsVersion /\ Version[c] = "1.2"
    BY <1>8, <1>14 DEF LengthsTell
  <2>2. a = m /\ Nonces(c) = {NonceLen} /\ Nonce(c) = NonceLen
    BY <1>2, <1>7, <2>1 DEF Nonces, Nonce
  <2>3. fits(a) = {}
    <3> SUFFICES ASSUME NEW i \in fits(a) PROVE FALSE
      OBVIOUS
    <3>1. /\ i \in 1 .. Len(stream[c]) /\ i > 2
          /\ stream[c][i].kind = "app" /\ LenMatch(c, i, NonceLen)
      BY <1>6, <1>11, <2>2
    <3>2. stream[c][i].len \in Nat /\ stream[c][i].len <= MaxRecord
      BY <3>1, StreamRecord DEF StreamInv, ShapeInv, SentOK, NthOK
    <3>3. RecLen(c, stream[c][i]) = stream[c][i].len + TagLen + NonceLen
      BY <2>1, <3>1 DEF RecLen
    <3>4. RecLen(c, stream[c][i]) = tc[c].len + TagLen + NonceLen
      BY <1>9, <3>1 DEF LenMatch
    <3> DEFINE l == stream[c][i].len
    <3>5. l \in Nat /\ l <= MaxRecord /\ l + TagLen + NonceLen = tc[c].len + TagLen + NonceLen
      BY <3>2, <3>3, <3>4
    <3> HIDE DEF l, fits
    <3> QED
      BY <1>9, <1>14, <3>5
  <2>4. tg = [rec |-> stream[c][m], nonce |-> Max({NonceLen})]
    BY <1>3, <2>2, <2>3
  <2>5. Max({NonceLen}) = NonceLen
    BY <1>9 DEF Max
  <2> QED
    BY <2>2, <2>4, <2>5
<1> QED
  BY <1>1, <1>4, <1>5, <1>9, <1>13, <1>14

----------------------------------------------------------------------------
(* The entries of xor_pending and tc_pending.                              *)

\* What has left stays so while the stream grows.
LEMMA LeftGrows ==
  ASSUME StreamInv, NEW c \in Conn, NEW n \in Nat, n <= Len(stream[c]), LeftBefore(c, n),
         \A i \in 1 .. Len(stream[c]) : stream'[c][i] = stream[c][i],
         sent[c] <= sent'[c], sent'[c] \in Nat
  PROVE  LeftBefore(c, n)'
<1> SUFFICES ASSUME NEW i \in 1 .. n
             PROVE  stream'[c][i].id = 0 \/ End(c, stream'[c][i]) <= sent'[c]
  BY DEF LeftBefore, End, WireLen, RecLen
<1>1. i \in 1 .. Len(stream[c]) /\ stream'[c][i] = stream[c][i]
  OBVIOUS
<1>2. stream[c][i].id = 0 \/ End(c, stream[c][i]) <= sent[c]
  BY DEF LeftBefore
<1>3. End(c, stream[c][i]) \in Nat
  <2>1. /\ stream[c][i].start \in Nat /\ stream[c][i].len \in Nat
        /\ stream[c][i].kind \in {"app", "skip"}
    BY <1>1, StreamRecord DEF StreamInv
  <2> QED
    BY <2>1, RecordSize
<1>4. sent[c] \in Nat
  BY DEF StreamInv, TypeOK
<1> QED
  BY <1>1, <1>2, <1>3, <1>4

\* An entry stays tied to its record while the stream grows.
LEMMA EntryGrows ==
  ASSUME StreamInv, NEW c \in Conn, NEW m \in 1 .. Len(stream[c]), EntryAt(c, m),
         \A i \in 1 .. Len(stream[c]) :
           i \in 1 .. Len(stream'[c]) /\ stream'[c][i] = stream[c][i],
         sent[c] <= sent'[c], sent'[c] \in Nat, tc'[c] = tc[c]
  PROVE  m \in 1 .. Len(stream'[c]) /\ EntryAt(c, m)'
<1>1. LeftBefore(c, m - 1)'
  BY LeftGrows DEF EntryAt
<1> QED
  BY <1>1 DEF EntryAt, WriteStart

\* A write stages the patches of its first record; a handshake stages nothing.
LEMMA EntryCalls ==
  ASSUME Regular, LengthsTell, BridgeInv, ShapeInv, EntryInv, NEW t \in Thread, NEW c \in Conn,
         Handshake(t, c) \/ \E pl \in Payload : SslWrite(t, c, pl)
  PROVE  EntryInv'
<1>1. Thread = {t} /\ SocketBio /\ ~LazyHandshake /\ ~Pipelined /\ None \notin Conn
  BY TlsPatchConstants DEF Regular, OneThread
<1>2. UNCHANGED <<stream, sent, tc>>
  BY DEF Handshake, SslWrite, sendVars, peerVars
<1>3. EntryOK'
  BY <1>2 DEF EntryInv, EntryOK, EntryAt, WriteStart, LeftBefore
<1>4. xor = None
  <2>1. thr[t].conn = None
    BY DEF Handshake, SslWrite, Idle
  <2> QED
    BY <1>1, <2>1 DEF BridgeInv, StagedOK, IdleOK
<1>5. CASE Handshake(t, c)
  <2>1. xor' = None
    BY <1>4, <1>5 DEF Handshake
  <2> QED
    BY <1>3, <2>1 DEF EntryInv, FirstOK
<1>6. CASE \E pl \in Payload : SslWrite(t, c, pl)
  <2>1. PICK pl \in Payload : SslWrite(t, c, pl)
    BY <1>6
  <2> DEFINE ps == XorPatches(pl)
             f == Fragments(writes + 1, pl.len, Placeholders(pl), ps)
             new == [id |-> writes + 1, conn |-> c, len |-> pl.len,
                     patches |-> ps, memory |-> MemoryBio[c], old |-> FALSE]
  <2>2. /\ Quiet(c) /\ Emit(t, c, f)
        /\ xor' = IF ps = {} THEN xor ELSE new
    BY <1>1, <2>1 DEF SslWrite
  <2>3. pl.len \in Nat \ {0} /\ ps \in SUBSET Patch /\ writes + 1 \in Nat \ {0} /\ MaxRecord \in Nat
    <3>1. pl.len \in Nat \ {0} /\ pl.secrets \in SUBSET Patch /\ MaxRecord \in Nat
      BY TlsPatchConstants
    <3>2. ps \in SUBSET Patch
      BY <3>1 DEF XorPatches, Prescan
    <3>3. writes + 1 \in Nat \ {0}
      BY DEF BridgeInv, StreamInv, TypeOK
    <3> QED
      BY <3>1, <3>2, <3>3
  <2>4. \A p \in ps : p.off \in Nat /\ p.off < pl.len /\ p.off < MaxRecord
    <3>1. \A p \in ps : p \in Prescan(pl) /\ p \in pl.secrets
      BY DEF XorPatches, Prescan
    <3>2. \A p \in pl.secrets : p.off < pl.len
      BY TlsPatchConstants
    <3>3. \A p \in Prescan(pl) : p.off < MaxRecord
      BY DEF LengthsTell
    <3>4. \A p \in ps : p.off \in Nat
      BY <2>3 DEF Patch
    <3> QED
      BY <3>1, <3>2, <3>3, <3>4
  <2>5. /\ f \in Seq(Unsent) /\ Len(f) \in Nat \ {0} /\ f[1].id = writes + 1
        /\ f[1].off = 0 /\ f[1].len = IF pl.len <= MaxRecord THEN pl.len ELSE MaxRecord
    <3>1. WrittenAs(f, writes + 1, pl.len, Placeholders(pl), ps)
      BY WriteShape DEF BridgeInv
    <3> HIDE DEF f
    <3> QED
      BY <3>1 DEF WrittenAs
  <2> HIDE DEF ps, f
  <2>6. thr'[t].conn = c /\ thr'[t].recs = f
    <3>1. thr' = [thr EXCEPT ![t] = [conn |-> c, recs |-> f]]
      BY <1>1, <2>2, <2>5, EmitType DEF BridgeInv
    <3> QED
      BY <3>1 DEF BridgeInv, StreamInv, TypeOK
  <2>7. CASE ps = {}
    BY <1>3, <1>4, <2>2, <2>7 DEF EntryInv, FirstOK
  <2>8. CASE ps # {}
    <3>1. xor' = new
      BY <2>2, <2>8
    <3>2. WriteStart(f[1], new)
      BY <2>3, <2>4, <2>5 DEF WriteStart
    <3>3. LeftBefore(c, Len(stream[c]))'
      BY <1>2, <2>2 DEF Quiet, LeftBefore
    <3>4. WriteStart(thr'[t].recs[1], xor')
      BY <2>6, <3>1, <3>2
    <3>5. xor'.conn = c /\ Len(thr'[t].recs) # 0
      BY <2>5, <2>6, <3>1
    <3>6. FirstOK'
      BY <1>1, <2>6, <3>3, <3>4, <3>5 DEF FirstOK, WriteStart
    <3> QED
      BY <1>3, <3>6 DEF EntryInv
  <2> QED
    BY <2>7, <2>8
<1> QED
  BY <1>5, <1>6

\* The kprobe bridges what is staged with the first record of the write, and
\* notes where in the stream this record is.
LEMMA EntrySends ==
  ASSUME Regular, NoWrap, BridgeInv, ShapeInv, EntryInv, NEW t \in Thread, TcpSendmsg(t)
  PROVE  EntryInv' /\ xor' = None
<1> DEFINE recs == thr[t].recs
<1>0. PICK c \in Conn, n \in Nat : c = thr[t].conn /\ n = Len(stream[c])
  BY SendShape DEF BridgeInv
<1> DEFINE new == Placing(c, recs[1])
<1>1. /\ Len(recs) \in Nat \ {0}
      /\ Len(stream'[c]) = n + 1 /\ stream'[c][n + 1] = new
      /\ \A d \in Conn : \A i \in 1 .. Len(stream[d]) :
           i \in 1 .. Len(stream'[d]) /\ stream'[d][i] = stream[d][i]
      /\ sent' = sent /\ Bridge(c) /\ (n # 0 => Keyed(c))
  BY <1>0, SendShape DEF BridgeInv
<1>2. Thread = {t} /\ ~HMayFail
  BY DEF Regular, OneThread
<1>3. ASSUME xor # None
      PROVE  /\ xor.conn = c /\ ~xor.memory /\ ~xor.old /\ WriteStart(recs[1], xor)
             /\ LeftBefore(c, n) /\ Keyed(c)
  <2>1. xor.conn = c /\ ~xor.memory /\ ~xor.old /\ WriteStart(recs[1], xor) /\ LeftBefore(c, n)
    BY <1>0, <1>2, <1>3 DEF BridgeInv, StagedOK, EntryInv, FirstOK
  <2>2. NthOK(c, n + 1, recs[1]) /\ recs[1].id # 0
    BY <1>0, <1>1, <2>1 DEF ShapeInv, HandOK, WriteStart
  <2>3. n # 0
    BY <1>1, <2>2 DEF NthOK
  <2> QED
    BY <1>1, <2>1, <2>3
<1>4. xor' = None
  BY <1>1, <1>2, <1>3 DEF Bridge, BridgeTo, Leftover
<1>5. tc' = tc \/ (xor # None /\ tc' = [tc EXCEPT ![c] = TcEntry(c)])
  BY <1>1 DEF Bridge, BridgeTo
<1>6. new.start = queued[c] /\ queued[c] \in Nat /\ tc \in [Conn ->
        [id : Nat, ssl : Conn, len : Nat, patches : SUBSET Patch,
         active : BOOLEAN, seq : Nat] \cup {None}] /\ \A d \in Conn : sent[d] \in Nat
  BY <1>1 DEF Placing, BridgeInv, StreamInv, TypeOK
<1>7. ASSUME NEW d \in Conn, tc'[d] = tc[d], tc'[d] # None, tc'[d].active
      PROVE  \E m \in 1 .. Len(stream'[d]) : EntryAt(d, m)'
  <2>1. PICK m \in 1 .. Len(stream[d]) : EntryAt(d, m)
    BY <1>7 DEF EntryInv, EntryOK
  <2>2. m \in 1 .. Len(stream'[d]) /\ EntryAt(d, m)'
    BY <1>1, <1>6, <1>7, <2>1, EntryGrows DEF BridgeInv
  <2> QED
    BY <2>2
<1>8. ASSUME xor # None, tc' = [tc EXCEPT ![c] = TcEntry(c)]
      PROVE  \E m \in 1 .. Len(stream'[c]) : EntryAt(c, m)'
  <2> DEFINE e == TcEntry(c)
  <2>1. tc'[c] = e
    BY <1>1, <1>6, <1>8
  <2>2. e.seq = ISN + queued[c]
    BY <1>1, <1>3, <1>6, <1>8, SeqInOrder DEF TcEntry, BridgeInv, StreamInv
  <2>3. WriteStart(new, e)
    <3>1. e.id = xor.id /\ e.len = xor.len /\ \A p \in e.patches : p \in xor.patches
      BY DEF TcEntry, FilterPatches
    <3>2. new.id = recs[1].id /\ new.off = recs[1].off /\ new.len = recs[1].len
      BY DEF Placing
    <3> HIDE DEF new, e
    <3> QED
      BY <1>3, <1>8, <3>1, <3>2 DEF WriteStart
  <2>4. LeftBefore(c, n)'
    BY <1>0, <1>1, <1>3, <1>6, <1>8, LeftGrows DEF BridgeInv
  <2> HIDE DEF e, new
  <2>5. EntryAt(c, n + 1)'
    <3>1. (n + 1) - 1 = n
      BY <1>1
    <3>2. WriteStart(stream'[c][n + 1], tc'[c])
      BY <1>1, <2>1, <2>3
    <3>3. tc'[c].seq = ISN + stream'[c][n + 1].start
      BY <1>1, <1>6, <2>1, <2>2
    <3> QED
      BY <2>4, <3>1, <3>2, <3>3 DEF EntryAt, WriteStart
  <2>6. n + 1 \in 1 .. Len(stream'[c])
    BY <1>1
  <2> QED
    BY <2>5, <2>6
<1>9. EntryOK'
  <2> SUFFICES ASSUME NEW d \in Conn, tc'[d] # None, tc'[d].active
               PROVE  \E m \in 1 .. Len(stream'[d]) : EntryAt(d, m)'
    BY DEF EntryOK
  <2>1. CASE tc'[d] = tc[d]
    BY <1>7, <2>1
  <2>2. CASE tc'[d] # tc[d]
    <3>1. xor # None /\ tc' = [tc EXCEPT ![c] = TcEntry(c)]
      BY <1>5, <2>2
    <3>2. d = c
      BY <1>6, <2>2, <3>1
    <3> QED
      BY <1>8, <3>1, <3>2
  <2> QED
    BY <2>1, <2>2
<1> QED
  BY <1>4, <1>9 DEF EntryInv, FirstOK

\* A segment moves what was sent ahead and may use the connection's entry up.
LEMMA EgressShape ==
  ASSUME StreamInv, NEW c \in Conn, Egress(c)
  PROVE  /\ UNCHANGED <<known, opened, thr, buf, writes, stream, queued, xor>>
         /\ \A d \in Conn : sent'[d] \in Nat /\ sent[d] <= sent'[d]
         /\ \A d \in Conn : tc'[d] = tc[d] \/ (d = c /\ tc[c] # None /\ ~tc'[c].active)
<1>0. /\ sent \in [Conn -> Nat] /\ queued[c] \in Nat
      /\ tc \in [Conn -> [id : Nat, ssl : Conn, len : Nat, patches : SUBSET Patch,
                          active : BOOLEAN, seq : Nat] \cup {None}]
  BY DEF StreamInv, TypeOK
<1>1. PICK hi \in sent[c] + 1 .. queued[c] :
        EgressTag(c, hi) \/ EgressPass(c, hi) \/ EgressPatch(c, hi)
  BY DEF Egress
<1>2. UNCHANGED <<known, opened, thr, buf, writes, stream, queued, xor>>
  BY <1>1 DEF EgressTag, EgressPass, EgressPatch, appVars, sendVars
<1>3. sent' = sent \/ sent' = [sent EXCEPT ![c] = hi]
  BY <1>1 DEF EgressTag, EgressPass, EgressPatch, Deliver
<1>4. \A d \in Conn : sent'[d] \in Nat /\ sent[d] <= sent'[d]
  BY <1>0, <1>1, <1>3
<1>5. tc' = tc \/ (tc[c] # None /\ tc' = [tc EXCEPT ![c].active = FALSE])
  BY <1>1 DEF EgressTag, EgressPass, EgressPatch, Targets
<1>6. CASE tc' = tc
  BY <1>2, <1>4, <1>6
<1>7. CASE tc[c] # None /\ tc' = [tc EXCEPT ![c].active = FALSE]
  <2>1. tc[c] \in [id : Nat, ssl : Conn, len : Nat, patches : SUBSET Patch,
                   active : BOOLEAN, seq : Nat]
    BY <1>0, <1>7
  <2>2. tc' = [tc EXCEPT ![c] = [tc[c] EXCEPT !.active = FALSE]]
    BY <1>7
  <2>3. tc'[c] = [tc[c] EXCEPT !.active = FALSE] /\ \A d \in Conn \ {c} : tc'[d] = tc[d]
    BY <1>0, <2>2
  <2>4. ~tc'[c].active
    BY <2>1, <2>3
  <2> QED
    BY <1>2, <1>4, <1>7, <2>3, <2>4
<1> QED
  BY <1>5, <1>6, <1>7

\* Segments change no record and move no entry.
LEMMA EntryEgress ==
  ASSUME StreamInv, ShapeInv, EntryInv, NEW c \in Conn, Egress(c)
  PROVE  ShapeInv' /\ EntryInv'
<1>1. /\ UNCHANGED <<known, opened, thr, buf, writes, stream, queued, xor>>
      /\ \A d \in Conn : sent'[d] \in Nat /\ sent[d] <= sent'[d]
      /\ \A d \in Conn : tc'[d] = tc[d] \/ (d = c /\ tc[c] # None /\ ~tc'[c].active)
  BY EgressShape
<1>2. ShapeInv'
  BY <1>1 DEF ShapeInv, OrderOK, SentOK, HandOK, OpenOK, Busy
<1>3. EntryOK'
  <2> SUFFICES ASSUME NEW d \in Conn, tc'[d] # None, tc'[d].active
               PROVE  \E m \in 1 .. Len(stream'[d]) : EntryAt(d, m)'
    BY DEF EntryOK
  <2>1. tc'[d] = tc[d]
    BY <1>1
  <2>2. PICK m \in 1 .. Len(stream[d]) : EntryAt(d, m)
    BY <2>1 DEF EntryInv, EntryOK
  <2>3. m \in 1 .. Len(stream'[d]) /\ EntryAt(d, m)'
    BY <1>1, <2>1, <2>2, EntryGrows
  <2> QED
    BY <2>3
<1>4. FirstOK'
  <2> SUFFICES ASSUME xor # None PROVE FirstOK'
    BY <1>1 DEF FirstOK
  <2>1. PICK d \in Conn : d = xor.conn
    BY DEF StreamInv, TypeOK
  <2>2. PICK t \in Thread :
          /\ thr[t].conn = d /\ Len(thr[t].recs) # 0
          /\ WriteStart(thr[t].recs[1], xor) /\ LeftBefore(d, Len(stream[d]))
    BY <2>1 DEF EntryInv, FirstOK
  <2>3. PICK n \in Nat : n = Len(stream[d])
    BY DEF StreamInv, TypeOK
  <2>4. LeftBefore(d, n)'
    BY <1>1, <2>2, <2>3, LeftGrows
  <2>5. n' = n /\ Len(stream'[d]) = n
    BY <1>1, <2>3
  <2> QED
    BY <1>1, <2>1, <2>2, <2>4, <2>5 DEF FirstOK, WriteStart
<1> QED
  BY <1>2, <1>3, <1>4 DEF EntryInv

----------------------------------------------------------------------------
(* What the peer received.                                                 *)

\* A position lies in one record only.
LEMMA OneRecord ==
  ASSUME StreamInv, OrderOK, NEW c \in Conn, NEW i \in 1 .. Len(stream[c]),
         NEW j \in 1 .. Len(stream[c]), NEW pos \in Nat,
         stream[c][i].start <= pos, pos < End(c, stream[c][i]),
         stream[c][j].start <= pos, pos < End(c, stream[c][j])
  PROVE  i = j
<1>1. ASSUME NEW a \in 1 .. Len(stream[c]), NEW b \in 1 .. Len(stream[c]), a < b,
             pos < End(c, stream[c][a]), stream[c][b].start <= pos
      PROVE  FALSE
  <2>1. /\ End(c, stream[c][a]) \in Nat /\ stream[c][b].start \in Nat
        /\ End(c, stream[c][a]) <= stream[c][b].start
    BY <1>1, Behind
  <2> QED
    BY <1>1, <2>1
<1>2. ~(i < j) /\ ~(j < i)
  BY <1>1
<1> QED
  BY <1>2

\* What lies in the plaintext of a record lies before its tag.
LEMMA InText ==
  ASSUME StreamInv, NEW c \in Conn, NEW i \in 1 .. Len(stream[c]), stream[c][i].kind = "app",
         NEW off \in Nat, off < stream[c][i].len
  PROVE  LET r == stream[c][i] IN
         /\ Text(c, r) + off \in Nat /\ r.start <= Text(c, r) + off
         /\ Text(c, r) + off < TagPos(c, r) /\ Text(c, r) + off < End(c, r)
<1> DEFINE r == stream[c][i]
<1>1. r.start \in Nat /\ r.len \in Nat
  BY StreamRecord DEF StreamInv
<1>2. /\ HdrLen \in Nat /\ NonceLen \in Nat /\ TypeLen \in Nat /\ TagLen \in Nat
      /\ Version[c] \in {"1.2", "1.3"}
  BY TlsPatchConstants
<1>3. RecLen(c, r) = r.len + TagLen + IF Version[c] = "1.2" THEN NonceLen ELSE TypeLen
  BY DEF RecLen
<1> DEFINE st == r.start
           ln == r.len
           rl == RecLen(c, r)
<1>4. /\ st \in Nat /\ ln \in Nat /\ off < ln
      /\ rl = ln + TagLen + IF Version[c] = "1.2" THEN NonceLen ELSE TypeLen
      /\ Text(c, r) = st + HdrLen + IF Version[c] = "1.2" THEN NonceLen ELSE 0
      /\ End(c, r) = st + (HdrLen + rl) /\ TagPos(c, r) = (st + (HdrLen + rl)) - TagLen
  BY <1>1, <1>3 DEF Text, Nonce, End, WireLen, TagPos
<1> HIDE DEF r, st, ln, rl
<1>5. /\ Text(c, r) + off \in Nat /\ st <= Text(c, r) + off
      /\ Text(c, r) + off < TagPos(c, r) /\ Text(c, r) + off < End(c, r)
  <2>1. CASE Version[c] = "1.2"
    BY <1>2, <1>4, <2>1
  <2>2. CASE Version[c] = "1.3"
    BY <1>2, <1>4, <2>2
  <2> QED
    BY <1>2, <2>1, <2>2
<1> QED
  BY <1>5 DEF r, st

\* What tc_egress_patch stores lies where the record of the write has its
\* placeholders, and the correction is the right one for it.
LEMMA PatchShape ==
  ASSUME LengthsTell, BridgedOwn, StreamInv, ShapeInv, EntryOK, NoWrap,
         NEW c \in Conn, NEW hi \in Nat, sent[c] < hi, hi <= queued[c],
         \A i \in 1 .. Len(stream[c]) :
           stream[c][i].start < hi => stream[c][i].start + HdrLen <= hi,
         NEW tg \in Targets(c, sent[c], hi)
  PROVE  \E m \in 1 .. Len(stream[c]) :
           LET r == stream[c][m]
               ps == Applied(c, tg, hi)
           IN /\ tc[c] # None /\ EntryAt(c, m) /\ tg.rec = r
              /\ sent[c] <= r.start /\ r.start < hi
              /\ \A p \in ps : /\ p.id = r.id /\ p.off \in Nat /\ p.off < r.len
                               /\ p.pos = Text(c, r) + p.off
              /\ Correction(c, tg, ps) = [start |-> r.start, at |-> {p.pos : p \in ps},
                                          good |-> TRUE]
<1>1. PICK m \in 1 .. Len(stream[c]) :
        /\ EntryAt(c, m)
        /\ sent[c] <= stream[c][m].start /\ stream[c][m].start < hi
        /\ tg.rec = stream[c][m] /\ tg.nonce = Nonce(c)
  BY TargetIsFirst
<1>2. tc[c] # None /\ tc[c].ssl = c
  BY TargetIsFirst DEF BridgedOwn
<1> DEFINE r == stream[c][m]
           ps == Applied(c, tg, hi)
<1>3. r.kind = "app" /\ r.len \in Nat
  BY <1>1, EntryIndex
<1>4. \A q \in tc[c].patches : q.off \in Nat /\ q.off < r.len
  <2>1. tc[c].patches \in SUBSET Patch
    BY <1>2 DEF StreamInv, TypeOK
  <2> QED
    BY <1>1, <2>1 DEF EntryAt, WriteStart, Patch
<1>5. tc[c].id = r.id
  BY <1>1 DEF EntryAt, WriteStart
<1>6. ASSUME NEW p \in ps
      PROVE  /\ p.id = r.id /\ p.off \in Nat /\ p.off < r.len /\ p.pos = Text(c, r) + p.off
  <2>1. PICK q \in tc[c].patches :
          p = [pos |-> tg.rec.start + HdrLen + tg.nonce + q.off, off |-> q.off,
               secret |-> q.secret, id |-> tc[c].id]
    BY <1>6 DEF Applied
  <2>2. p.pos = r.start + HdrLen + Nonce(c) + q.off /\ p.off = q.off /\ p.id = tc[c].id
    BY <1>1, <2>1
  <2> QED
    BY <1>4, <1>5, <2>2 DEF Text
<1> HIDE DEF ps
<1>7. \A p \in ps : p.pos < TagPos(c, r)
  BY <1>3, <1>6, InText
<1>8. Correction(c, tg, ps) = [start |-> r.start, at |-> {p.pos : p \in ps}, good |-> TRUE]
  <2>1. (/\ tc[c].ssl = c /\ tg.nonce = Nonce(c)
         /\ \A p \in ps : p.pos < TagPos(c, tg.rec)) = TRUE
    BY <1>1, <1>2, <1>7
  <2> QED
    BY <1>1, <2>1 DEF Correction
<1> QED
  BY <1>1, <1>2, <1>6, <1>8 DEF ps

\* A record of the stream ends behind its start.
LEMMA RecordEnd ==
  ASSUME StreamInv, NEW c \in Conn, NEW i \in 1 .. Len(stream[c])
  PROVE  LET r == stream[c][i] IN
         /\ r.start \in Nat /\ End(c, r) \in Nat /\ r.start + HdrLen <= End(c, r)
         /\ r.start < End(c, r)
<1> DEFINE r == stream[c][i]
<1>1. r.start \in Nat /\ r.len \in Nat /\ r.kind \in {"app", "skip"}
  BY StreamRecord DEF StreamInv
<1>2. HdrLen \in Nat
  BY TlsPatchConstants
<1> HIDE DEF r
<1>3. RecLen(c, r) \in Nat /\ End(c, r) \in Nat /\ r.start < End(c, r)
  BY <1>1, RecordSize
<1>4. End(c, r) = r.start + (HdrLen + RecLen(c, r))
  BY DEF End, WireLen
<1> QED
  BY <1>1, <1>2, <1>3, <1>4 DEF r

\* Growth of the stream and of what was sent changes nothing for the records
\* that are patched.
LEMMA PeerGrows ==
  ASSUME StreamInv, NEW c \in Conn, PeerOK(c),
         \A i \in 1 .. Len(stream[c]) :
           i \in 1 .. Len(stream'[c]) /\ stream'[c][i] = stream[c][i],
         sent[c] <= sent'[c], sent'[c] \in Nat,
         patched'[c] = patched[c], fixed'[c] = fixed[c], tagp'[c] = tagp[c]
  PROVE  PeerOK(c)'
<1>0. sent[c] \in Nat
  BY DEF StreamInv, TypeOK
<1>1. \A i \in 1 .. Len(stream[c]) :
        /\ stream[c][i].start < sent[c] => stream[c][i].start < sent'[c]
        /\ End(c, stream[c][i]) <= sent[c] => End(c, stream[c][i]) <= sent'[c]
  BY <1>0, RecordEnd
<1>2. PatchedOK(c)'
  <2> SUFFICES ASSUME NEW p \in patched[c]
               PROVE  \E i \in 1 .. Len(stream'[c]) :
                        /\ PatchAt(c, stream[c][i], p)'
                        /\ \/ FixesOn(c, stream[c][i])' # {}
                           \/ tagp'[c] # None /\ tagp'[c].fix.start = stream'[c][i].start
    BY DEF PatchedOK, PatchAt, FixesOn, Text
  <2>1. PICK i \in 1 .. Len(stream[c]) :
          /\ PatchAt(c, stream[c][i], p)
          /\ \/ FixesOn(c, stream[c][i]) # {}
             \/ tagp[c] # None /\ tagp[c].fix.start = stream[c][i].start
    BY DEF PeerOK, PatchedOK
  <2>2. i \in 1 .. Len(stream'[c]) /\ stream'[c][i] = stream[c][i]
    OBVIOUS
  <2>3. PatchAt(c, stream[c][i], p)'
    BY <1>1, <2>1, <2>2 DEF PatchAt, Text
  <2>4. FixesOn(c, stream[c][i])' = FixesOn(c, stream[c][i])
    BY <2>2 DEF FixesOn
  <2> QED
    BY <2>1, <2>2, <2>3, <2>4
<1>3. ASSUME NEW i \in 1 .. Len(stream[c])
      PROVE  Positions(c, stream[c][i])' = Positions(c, stream[c][i])
  BY DEF Positions, PatchesOn, End, WireLen, RecLen
<1>4. FixedOK(c)'
  <2> SUFFICES ASSUME NEW f \in fixed[c]
               PROVE  \E i \in 1 .. Len(stream'[c]) :
                        /\ f.start = stream'[c][i].start /\ End(c, stream'[c][i]) <= sent'[c]
                        /\ f.good /\ f.at = Positions(c, stream[c][i])'
    BY DEF FixedOK, End, WireLen, RecLen
  <2>1. PICK i \in 1 .. Len(stream[c]) :
          /\ f.start = stream[c][i].start /\ End(c, stream[c][i]) <= sent[c]
          /\ f.good /\ f.at = Positions(c, stream[c][i])
    BY DEF PeerOK, FixedOK
  <2>2. i \in 1 .. Len(stream'[c]) /\ stream'[c][i] = stream[c][i]
    OBVIOUS
  <2> QED
    BY <1>1, <1>3, <2>1, <2>2
<1>5. DeferredOK(c)'
  <2> SUFFICES ASSUME tagp[c] # None
               PROVE  \E i \in 1 .. Len(stream'[c]) :
                        /\ stream'[c][i].start = tagp[c].fix.start
                        /\ stream'[c][i].start < sent'[c] /\ stream'[c][i].id # 0
                        /\ tagp[c].fix.good /\ tagp[c].fix.at = Positions(c, stream[c][i])'
    BY DEF DeferredOK
  <2>1. PICK i \in 1 .. Len(stream[c]) :
          /\ stream[c][i].start = tagp[c].fix.start
          /\ stream[c][i].start < sent[c] /\ stream[c][i].id # 0
          /\ tagp[c].fix.good /\ tagp[c].fix.at = Positions(c, stream[c][i])
    BY DEF PeerOK, DeferredOK
  <2>2. i \in 1 .. Len(stream'[c]) /\ stream'[c][i] = stream[c][i]
    OBVIOUS
  <2> QED
    BY <1>1, <1>3, <2>1, <2>2
<1> QED
  BY <1>2, <1>4, <1>5 DEF PeerOK

\* A segment is delivered with its patches and corrections, or lost.
LEMMA DeliverShape ==
  ASSUME StreamInv, NEW c \in Conn, NEW hi \in Nat, NEW ps, NEW fs, Deliver(c, hi, ps, fs)
  PROVE  /\ \/ /\ sent'[c] = hi /\ patched'[c] = patched[c] \cup ps
               /\ fixed'[c] = fixed[c] \cup fs /\ losses' = losses
            \/ /\ PartsLost \/ Whole(c, hi)
               /\ sent'[c] = sent[c] /\ patched'[c] = patched[c] /\ fixed'[c] = fixed[c]
               /\ losses' = losses + 1
         /\ \A d \in Conn \ {c} : sent'[d] = sent[d] /\ patched'[d] = patched[d]
                                  /\ fixed'[d] = fixed[d]
<1>1. /\ sent \in [Conn -> Nat]
      /\ patched \in [Conn -> SUBSET [pos : Nat, off : Nat, secret : Secret, id : Nat]]
      /\ fixed \in [Conn -> SUBSET Fix]
  BY DEF StreamInv, TypeOK
<1>2. CASE /\ sent' = [sent EXCEPT ![c] = hi]
           /\ patched' = [patched EXCEPT ![c] = @ \cup ps]
           /\ fixed' = [fixed EXCEPT ![c] = @ \cup fs]
           /\ UNCHANGED losses
  BY <1>1, <1>2
<1>3. CASE /\ PartsLost \/ Whole(c, hi)
           /\ losses < MaxLosses /\ losses' = losses + 1
           /\ UNCHANGED <<sent, patched, fixed>>
  BY <1>3
<1> QED
  BY <1>2, <1>3 DEF Deliver

\* The headers of a segment's records are in it, be it delivered or lost.
LEMMA HeadersIn ==
  ASSUME StreamInv, ~PartsLost, HeadersWhole', UNCHANGED stream,
         NEW c \in Conn, NEW hi \in Nat, NEW ps, NEW fs, Deliver(c, hi, ps, fs)
  PROVE  \A i \in 1 .. Len(stream[c]) :
           stream[c][i].start < hi => stream[c][i].start + HdrLen <= hi
<1> SUFFICES ASSUME NEW i \in 1 .. Len(stream[c]), stream[c][i].start < hi
             PROVE  stream[c][i].start + HdrLen <= hi
  OBVIOUS
<1>1. /\ stream[c][i].start \in Nat /\ End(c, stream[c][i]) \in Nat /\ HdrLen \in Nat
      /\ stream[c][i].start + HdrLen <= End(c, stream[c][i])
  BY RecordEnd, TlsPatchConstants
<1>2. sent'[c] = hi \/ Whole(c, hi)
  BY DeliverShape
<1>3. CASE sent'[c] = hi
  <2>1. ~(stream[c][i].start < hi /\ hi < stream[c][i].start + HdrLen)
    BY <1>3 DEF HeadersWhole
  <2> QED
    BY <1>1, <2>1
<1>4. CASE Whole(c, hi)
  <2>1. ~(stream[c][i].start < hi /\ hi < End(c, stream[c][i]))
    BY <1>4 DEF Whole
  <2> QED
    BY <1>1, <2>1
<1> QED
  BY <1>2, <1>3, <1>4

\* The deferred correction of a record leaves with its tag, and cannot be lost:
\* the segment with the tag begins inside the record.
LEMMA PeerTag ==
  ASSUME ~PartsLost, TagInv, NoWrap, NEW c \in Conn, PeerOK(c), tagp[c] # None,
         NEW hi \in Nat, sent[c] < hi, hi <= queued[c], TagInSegment(c, sent[c], hi),
         Deliver(c, hi, {}, {tagp[c].fix}), tagp'[c] = None, stream' = stream
  PROVE  PeerOK(c)'
<1>0. /\ sent[c] \in Nat /\ TagLen \in Nat \ {0} /\ ISN \in Nat /\ StreamInv
      /\ queued[c] \in Nat
  BY TlsPatchConstants DEF TagInv, StreamInv, TypeOK
<1>1. PICK i \in 1 .. Len(stream[c]) :
        /\ stream[c][i].start = tagp[c].fix.start
        /\ stream[c][i].start < sent[c] /\ stream[c][i].id # 0
        /\ tagp[c].fix.good /\ tagp[c].fix.at = Positions(c, stream[c][i])
  BY DEF PeerOK, DeferredOK
<1> DEFINE r == stream[c][i]
<1>2. /\ r.kind = "app" /\ tagp[c].seq = Seq32(TagPos(c, r)) /\ sent[c] <= TagPos(c, r)
  <2>1. PICK j \in 1 .. Len(stream[c]) :
          /\ stream[c][j].kind = "app" /\ tagp[c].fix.start = stream[c][j].start
          /\ tagp[c].seq = Seq32(TagPos(c, stream[c][j])) /\ sent[c] <= TagPos(c, stream[c][j])
    BY DEF TagInv, PendingOK, Pending
  <2>2. i = j
    BY <1>1, <2>1 DEF TagInv, StreamInv, LayoutOK
  <2> QED
    BY <2>1, <2>2
<1>3. /\ TagPos(c, r) \in Nat /\ End(c, r) \in Nat /\ TagPos(c, r) + TagLen = End(c, r)
      /\ End(c, r) <= queued[c]
  BY <1>0, <1>2, StreamRecord, RecordSize DEF StreamInv, LayoutOK
<1> DEFINE tp == TagPos(c, r)
           e == End(c, r)
<1>4. e <= hi
  <2>1. Seq32(hi) = ISN + hi /\ Seq32(tp) = ISN + tp
    <3>1. tp <= queued[c]
      BY <1>0, <1>3
    <3> QED
      BY <1>0, <1>3, <3>1, SeqInOrder DEF StreamInv
  <2>2. (ISN + e) % SeqSpace = ISN + e
    BY <1>0, <1>3, SeqInOrder DEF StreamInv
  <2>3. tagp[c].seq + TagLen = ISN + e
    <3>1. tagp[c].seq = ISN + tp
      BY <1>2, <2>1
    <3> HIDE DEF tp, e
    <3> QED
      BY <1>0, <1>3, <3>1 DEF tp, e
  <2>4. ISN + e <= ISN + hi
    BY <2>1, <2>2, <2>3 DEF TagInSegment
  <2> HIDE DEF e
  <2> QED
    BY <1>0, <1>3, <2>4 DEF e
<1>5. ~Whole(c, hi)
  <2>1. sent[c] < e
    <3> HIDE DEF tp, e
    <3> QED
      BY <1>0, <1>2, <1>3 DEF tp, e
  <2> QED
    BY <1>1, <2>1 DEF Whole
<1>6. sent'[c] = hi /\ patched'[c] = patched[c] /\ fixed'[c] = fixed[c] \cup {tagp[c].fix}
  <2>1. sent'[c] = hi /\ patched'[c] = patched[c] \cup {} /\ fixed'[c] = fixed[c] \cup {tagp[c].fix}
    BY <1>0, <1>5, DeliverShape
  <2> QED
    BY <2>1
<1> HIDE DEF r, tp, e
<1>7. \A j \in 1 .. Len(stream[c]) :
        /\ stream[c][j].start < sent[c] => stream[c][j].start < hi
        /\ End(c, stream[c][j]) <= sent[c] => End(c, stream[c][j]) <= hi
  BY <1>0, RecordEnd
<1>8. \A j \in 1 .. Len(stream[c]) : Positions(c, stream[c][j])' = Positions(c, stream[c][j])
  BY <1>6 DEF Positions, PatchesOn, End, WireLen, RecLen
<1>9. PatchedOK(c)'
  <2> SUFFICES ASSUME NEW p \in patched[c]
               PROVE  \E j \in 1 .. Len(stream[c]) :
                        PatchAt(c, stream[c][j], p)' /\ FixesOn(c, stream[c][j])' # {}
    BY <1>6 DEF PatchedOK, PatchAt, FixesOn, Text
  <2>1. PICK j \in 1 .. Len(stream[c]) :
          /\ PatchAt(c, stream[c][j], p)
          /\ \/ FixesOn(c, stream[c][j]) # {}
             \/ tagp[c].fix.start = stream[c][j].start
    BY DEF PeerOK, PatchedOK
  <2>2. PatchAt(c, stream[c][j], p)'
    BY <1>6, <1>7, <2>1 DEF PatchAt, Text
  <2>3. FixesOn(c, stream[c][j])' # {}
    BY <1>6, <2>1 DEF FixesOn
  <2> QED
    BY <2>2, <2>3
<1>10. FixedOK(c)'
  <2> SUFFICES ASSUME NEW f \in fixed[c] \cup {tagp[c].fix}
               PROVE  \E j \in 1 .. Len(stream[c]) :
                        /\ f.start = stream[c][j].start /\ End(c, stream[c][j]) <= hi
                        /\ f.good /\ f.at = Positions(c, stream[c][j])
    BY <1>6, <1>8 DEF FixedOK, End, WireLen, RecLen
  <2>1. CASE f \in fixed[c]
    <3>1. PICK j \in 1 .. Len(stream[c]) :
            /\ f.start = stream[c][j].start /\ End(c, stream[c][j]) <= sent[c]
            /\ f.good /\ f.at = Positions(c, stream[c][j])
      BY <2>1 DEF PeerOK, FixedOK
    <3> QED
      BY <1>7, <3>1
  <2>2. CASE f = tagp[c].fix
    BY <1>1, <1>4, <2>2 DEF e, r
  <2> QED
    BY <2>1, <2>2
<1>11. DeferredOK(c)'
  BY DEF DeferredOK
<1> QED
  BY <1>9, <1>10, <1>11 DEF PeerOK

\* A record no part of which was sent has no patches.
LEMMA Untouched ==
  ASSUME StreamInv, OrderOK, NEW c \in Conn, PatchedOK(c),
         NEW m \in 1 .. Len(stream[c]), sent[c] <= stream[c][m].start
  PROVE  PatchesOn(c, stream[c][m]) = {}
<1> SUFFICES ASSUME NEW p \in patched[c], stream[c][m].start <= p.pos,
                    p.pos < End(c, stream[c][m])
             PROVE  FALSE
  BY DEF PatchesOn
<1>1. PICK i \in 1 .. Len(stream[c]) : PatchAt(c, stream[c][i], p)
  BY DEF PatchedOK
<1>2. p.off \in Nat
  BY DEF StreamInv, TypeOK
<1>3. /\ p.pos \in Nat /\ stream[c][i].start <= p.pos /\ p.pos < End(c, stream[c][i])
  BY <1>1, <1>2, InText DEF PatchAt
<1>4. i = m
  BY <1>3, OneRecord
<1>5. stream[c][i].start < sent[c] /\ sent[c] \in Nat /\ stream[c][m].start \in Nat
  BY <1>1, RecordEnd DEF PatchAt, StreamInv, TypeOK
<1> QED
  BY <1>4, <1>5

\* New patches in the text of the record m are on this record and no other.
LEMMA NewPatches ==
  ASSUME StreamInv, OrderOK, NEW c \in Conn, NEW m \in 1 .. Len(stream[c]),
         stream[c][m].kind = "app", PatchesOn(c, stream[c][m]) = {}, stream' = stream,
         NEW ps, patched'[c] = patched[c] \cup ps,
         \A p \in ps : /\ p.off \in Nat /\ p.off < stream[c][m].len
                       /\ p.pos = Text(c, stream[c][m]) + p.off
  PROVE  /\ Positions(c, stream[c][m])' = {p.pos : p \in ps}
         /\ \A i \in 1 .. Len(stream[c]) : i # m =>
              Positions(c, stream[c][i])' = Positions(c, stream[c][i])
<1>1. ASSUME NEW p \in ps
      PROVE  /\ p.pos \in Nat /\ stream[c][m].start <= p.pos /\ p.pos < End(c, stream[c][m])
  BY <1>1, InText
<1>2. PatchesOn(c, stream[c][m])' = ps
  <2>1. \A p \in patched[c] : ~(stream[c][m].start <= p.pos /\ p.pos < End(c, stream[c][m]))
    BY DEF PatchesOn
  <2>2. PatchesOn(c, stream[c][m])' =
          {p \in patched[c] \cup ps : stream[c][m].start <= p.pos /\ p.pos < End(c, stream[c][m])}
    BY DEF PatchesOn, End, WireLen, RecLen
  <2> QED
    BY <1>1, <2>1, <2>2
<1>3. ASSUME NEW i \in 1 .. Len(stream[c]), i # m
      PROVE  PatchesOn(c, stream[c][i])' = PatchesOn(c, stream[c][i])
  <2>1. PatchesOn(c, stream[c][i])' =
          {p \in patched[c] \cup ps : stream[c][i].start <= p.pos /\ p.pos < End(c, stream[c][i])}
    BY DEF PatchesOn, End, WireLen, RecLen
  <2>2. ASSUME NEW p \in ps, stream[c][i].start <= p.pos, p.pos < End(c, stream[c][i])
        PROVE  FALSE
    BY <1>1, <1>3, <2>2, OneRecord
  <2> QED
    BY <2>1, <2>2 DEF PatchesOn
<1> QED
  BY <1>2, <1>3 DEF Positions

\* The patches of a delivered segment are on a record the peer had nothing of,
\* and the correction is for these patches.
LEMMA PeerPatch ==
  ASSUME ~PartsLost, LengthsTell, BridgedOwn, StreamInv, ShapeInv, EntryOK, NoWrap,
         HeadersWhole', NEW c \in Conn, PeerOK(c), NEW hi \in Nat,
         sent[c] < hi, hi <= queued[c], EgressPatch(c, hi)
  PROVE  PeerOK(c)'
<1>0. /\ sent[c] \in Nat /\ stream' = stream /\ tagp[c] = None
      /\ tagp \in [Conn -> [seq : Nat, fix : Fix] \cup {None}]
  BY DEF StreamInv, TypeOK, EgressPatch, sendVars
<1>1. PICK tg \in Targets(c, sent[c], hi) :
        LET ps == Applied(c, tg, hi)
            fix == Correction(c, tg, ps)
        IN \/ /\ TagHere(c, tg, hi) /\ Deliver(c, hi, ps, {fix}) /\ tagp' = tagp
           \/ /\ ~TagHere(c, tg, hi) /\ Deliver(c, hi, ps, {})
              /\ tagp' = [tagp EXCEPT ![c] = [seq |-> Seq32(TagPos(c, tg.rec)), fix |-> fix]]
  BY DEF EgressPatch
<1> DEFINE ps == Applied(c, tg, hi)
           fix == Correction(c, tg, ps)
<1>2. PICK fs : Deliver(c, hi, ps, fs)
  BY <1>1
<1>3. \A i \in 1 .. Len(stream[c]) :
        stream[c][i].start < hi => stream[c][i].start + HdrLen <= hi
  BY <1>0, <1>2, HeadersIn
<1>4. PICK m \in 1 .. Len(stream[c]) :
        LET r == stream[c][m]
        IN /\ tc[c] # None /\ EntryAt(c, m) /\ tg.rec = r
           /\ sent[c] <= r.start /\ r.start < hi
           /\ \A p \in ps : /\ p.id = r.id /\ p.off \in Nat /\ p.off < r.len
                            /\ p.pos = Text(c, r) + p.off
           /\ fix = [start |-> r.start, at |-> {p.pos : p \in ps}, good |-> TRUE]
  BY <1>3, PatchShape
<1> DEFINE r == stream[c][m]
<1>5. r.kind = "app" /\ r.off = 0 /\ r.id # 0
  BY <1>4, EntryIndex DEF EntryAt, WriteStart
<1> HIDE DEF ps, fix
<1>6. r.start \in Nat /\ End(c, r) \in Nat /\ PatchesOn(c, r) = {}
  BY <1>4, RecordEnd, Untouched DEF PeerOK, ShapeInv
<1>7. Seq32(TagPos(c, tg.rec)) \in Nat /\ fix \in Fix
  <2>1. TagPos(c, r) \in Nat
    BY <1>5, StreamRecord, RecordSize DEF StreamInv
  <2>2. Seq32(TagPos(c, r)) \in Nat
    BY <2>1, SeqNumber
  <2>3. fix \in Fix
    BY <1>0, PatchType DEF ps, fix
  <2> QED
    BY <1>4, <2>2, <2>3
<1>8. \/ /\ End(c, r) <= hi /\ Deliver(c, hi, ps, {fix}) /\ tagp'[c] = None
      \/ /\ ~(End(c, r) <= hi) /\ Deliver(c, hi, ps, {})
         /\ tagp'[c] # None /\ tagp'[c].fix = fix
  <2>1. CASE TagHere(c, tg, hi)
    BY <1>0, <1>1, <1>4, <2>1 DEF TagHere, ps, fix
  <2>2. CASE ~TagHere(c, tg, hi)
    <3>1. tagp'[c] = [seq |-> Seq32(TagPos(c, tg.rec)), fix |-> fix]
      BY <1>0, <1>1, <2>2 DEF ps, fix
    <3>2. tagp'[c].fix = fix /\ Deliver(c, hi, ps, {})
      BY <1>1, <2>2, <3>1 DEF ps, fix
    <3>3. tagp'[c] # None
      <4>1. tagp'[c] \in [seq : Nat, fix : Fix]
        BY <3>1, <1>7 DEF ps, fix
      <4> QED
        BY <4>1, NoneIsNoEntry
    <3> QED
      BY <1>4, <2>2, <3>2, <3>3 DEF TagHere
  <2> QED
    BY <2>1, <2>2
<1>9. \/ /\ sent'[c] = hi /\ patched'[c] = patched[c] \cup ps
         /\ \/ End(c, r) <= hi /\ fixed'[c] = fixed[c] \cup {fix} /\ tagp'[c] = None
            \/ fixed'[c] = fixed[c] /\ tagp'[c] # None /\ tagp'[c].fix = fix
      \/ /\ sent'[c] = sent[c] /\ patched'[c] = patched[c] /\ fixed'[c] = fixed[c]
         /\ tagp'[c] = None
  <2>1. CASE End(c, r) <= hi
    <3>1. Deliver(c, hi, ps, {fix}) /\ tagp'[c] = None
      BY <1>8, <2>1
    <3> QED
      BY <2>1, <3>1, DeliverShape
  <2>2. CASE ~(End(c, r) <= hi)
    <3>1. Deliver(c, hi, ps, {}) /\ tagp'[c] # None /\ tagp'[c].fix = fix
      BY <1>8, <2>2
    <3>2. ~Whole(c, hi)
      BY <1>4, <1>6, <2>2 DEF Whole
    <3>3. sent'[c] = hi /\ patched'[c] = patched[c] \cup ps /\ fixed'[c] = fixed[c] \cup {}
      BY <3>1, <3>2, DeliverShape
    <3> QED
      BY <3>1, <3>3
  <2> QED
    BY <2>1, <2>2
<1>10. CASE /\ sent'[c] = sent[c] /\ patched'[c] = patched[c] /\ fixed'[c] = fixed[c]
            /\ tagp'[c] = None
  <2>1. \A i \in 1 .. Len(stream[c]) :
          i \in 1 .. Len(stream'[c]) /\ stream'[c][i] = stream[c][i]
    BY <1>0
  <2> QED
    BY <1>0, <1>10, <2>1, PeerGrows
<1>11. CASE /\ sent'[c] = hi /\ patched'[c] = patched[c] \cup ps
            /\ \/ End(c, r) <= hi /\ fixed'[c] = fixed[c] \cup {fix} /\ tagp'[c] = None
               \/ fixed'[c] = fixed[c] /\ tagp'[c] # None /\ tagp'[c].fix = fix
  <2>1. /\ Positions(c, stream[c][m])' = {p.pos : p \in ps}
        /\ \A i \in 1 .. Len(stream[c]) : i # m =>
             Positions(c, stream[c][i])' = Positions(c, stream[c][i])
    <3>1. /\ OrderOK /\ patched'[c] = patched[c] \cup ps
          /\ stream[c][m].kind = "app" /\ PatchesOn(c, stream[c][m]) = {}
      BY <1>5, <1>6, <1>11 DEF ShapeInv
    <3>2. \A p \in ps : /\ p.off \in Nat /\ p.off < stream[c][m].len
                        /\ p.pos = Text(c, stream[c][m]) + p.off
      BY <1>4
    <3> QED
      BY <1>0, <3>1, <3>2, NewPatches
  <2>2. \A i \in 1 .. Len(stream[c]) :
          /\ stream[c][i].start < sent[c] => stream[c][i].start < hi
          /\ End(c, stream[c][i]) <= sent[c] => End(c, stream[c][i]) <= hi /\ i # m
    BY <1>0, <1>4, RecordEnd
  <2>3. fix.start = r.start /\ fix.good /\ fix.at = {p.pos : p \in ps}
    BY <1>4
  <2>4. PatchedOK(c)'
    <3> SUFFICES ASSUME NEW p \in patched[c] \cup ps
                 PROVE  \E j \in 1 .. Len(stream[c]) :
                          /\ PatchAt(c, stream[c][j], p)'
                          /\ \/ FixesOn(c, stream[c][j])' # {}
                             \/ tagp'[c] # None /\ tagp'[c].fix.start = stream[c][j].start
      BY <1>0, <1>11 DEF PatchedOK, PatchAt, FixesOn, Text
    <3>1. CASE p \in patched[c]
      <4>1. PICK j \in 1 .. Len(stream[c]) :
              PatchAt(c, stream[c][j], p) /\ FixesOn(c, stream[c][j]) # {}
        BY <1>0, <3>1 DEF PeerOK, PatchedOK
      <4>2. PatchAt(c, stream[c][j], p)'
        BY <1>0, <1>11, <2>2, <4>1 DEF PatchAt, Text
      <4>3. FixesOn(c, stream[c][j])' # {}
        BY <1>0, <1>11, <4>1 DEF FixesOn
      <4> QED
        BY <4>2, <4>3
    <3>2. CASE p \in ps
      <4>1. PatchAt(c, stream[c][m], p)'
        BY <1>0, <1>4, <1>5, <1>11, <3>2 DEF PatchAt, Text
      <4>2. fix \in fixed'[c] => FixesOn(c, stream[c][m])' # {}
        BY <1>0, <2>3 DEF FixesOn
      <4> QED
        BY <1>11, <2>3, <4>1, <4>2
    <3> QED
      BY <3>1, <3>2
  <2>5. FixedOK(c)'
    <3> SUFFICES ASSUME NEW f \in fixed'[c]
                 PROVE  \E j \in 1 .. Len(stream[c]) :
                          /\ f.start = stream[c][j].start /\ End(c, stream[c][j]) <= hi
                          /\ f.good /\ f.at = Positions(c, stream[c][j])'
      BY <1>0, <1>11 DEF FixedOK, End, WireLen, RecLen
    <3>1. CASE f \in fixed[c]
      <4>1. PICK j \in 1 .. Len(stream[c]) :
              /\ f.start = stream[c][j].start /\ End(c, stream[c][j]) <= sent[c]
              /\ f.good /\ f.at = Positions(c, stream[c][j])
        BY <3>1 DEF PeerOK, FixedOK
      <4> QED
        BY <2>1, <2>2, <4>1
    <3>2. CASE f = fix /\ End(c, r) <= hi
      BY <2>1, <2>3, <3>2
    <3> QED
      BY <1>11, <3>1, <3>2
  <2>6. DeferredOK(c)'
    <3> SUFFICES ASSUME tagp'[c] # None
                 PROVE  \E j \in 1 .. Len(stream[c]) :
                          /\ stream[c][j].start = tagp'[c].fix.start
                          /\ stream[c][j].start < hi /\ stream[c][j].id # 0
                          /\ tagp'[c].fix.good
                          /\ tagp'[c].fix.at = Positions(c, stream[c][j])'
      BY <1>0, <1>11 DEF DeferredOK
    <3> QED
      BY <1>4, <1>5, <1>11, <2>1, <2>3
  <2> QED
    BY <2>4, <2>5, <2>6 DEF PeerOK
<1> QED
  BY <1>9, <1>10, <1>11

\* A segment of a connection.
LEMMA PeerEgress ==
  ASSUME Regular, LengthsTell, RecordInv, NoWrap, HeadersWhole', NEW c \in Conn, Egress(c)
  PROVE  PeerInv'
<1>0. /\ StreamInv /\ TagInv /\ BridgedOwn /\ ShapeInv /\ EntryOK /\ PeerInv /\ ~PartsLost
      /\ sent[c] \in Nat /\ queued[c] \in Nat
      /\ tagp \in [Conn -> [seq : Nat, fix : Fix] \cup {None}]
  BY DEF RecordInv, BridgeInv, StreamInv, TypeOK, EntryInv, Regular
<1>1. PICK hi \in sent[c] + 1 .. queued[c] :
        EgressTag(c, hi) \/ EgressPass(c, hi) \/ EgressPatch(c, hi)
  BY DEF Egress
<1>2. hi \in Nat /\ sent[c] < hi /\ hi <= queued[c]
  BY <1>0, <1>1
<1>3. /\ stream' = stream
      /\ \A d \in Conn : sent'[d] \in Nat /\ sent[d] <= sent'[d]
  BY <1>0, EgressShape
<1>4. ASSUME NEW d \in Conn, patched'[d] = patched[d], fixed'[d] = fixed[d], tagp'[d] = tagp[d]
      PROVE  PeerOK(d)'
  <2>1. \A i \in 1 .. Len(stream[d]) :
          i \in 1 .. Len(stream'[d]) /\ stream'[d][i] = stream[d][i]
    BY <1>3
  <2>2. PeerOK(d)
    BY <1>0 DEF PeerInv
  <2> QED
    BY <1>0, <1>3, <1>4, <2>1, <2>2, PeerGrows
<1>5. ASSUME NEW d \in Conn \ {c} PROVE PeerOK(d)'
  <2>1. tagp'[d] = tagp[d]
    BY <1>0, <1>1 DEF EgressTag, EgressPass, EgressPatch
  <2>2. PICK ps, fs : Deliver(c, hi, ps, fs)
    BY <1>1 DEF EgressTag, EgressPass, EgressPatch
  <2>3. patched'[d] = patched[d] /\ fixed'[d] = fixed[d]
    BY <1>0, <1>2, <2>2, DeliverShape
  <2> QED
    BY <1>4, <2>1, <2>3
<1>6. ASSUME Deliver(c, hi, {}, {}), tagp' = tagp PROVE PeerOK(c)'
  <2>1. /\ patched'[c] = patched[c] \cup {} \/ patched'[c] = patched[c]
        /\ fixed'[c] = fixed[c] \cup {} \/ fixed'[c] = fixed[c]
    BY <1>0, <1>2, <1>6, DeliverShape
  <2>2. patched'[c] = patched[c] /\ fixed'[c] = fixed[c]
    BY <2>1
  <2> QED
    BY <1>4, <1>6, <2>2
<1>7. PeerOK(c)'
  <2>1. CASE EgressTag(c, hi) /\ TagInSegment(c, sent[c], hi)
    <3>1. /\ tagp[c] # None /\ Deliver(c, hi, {}, {tagp[c].fix})
          /\ tagp' = [tagp EXCEPT ![c] = None]
      BY <2>1 DEF EgressTag
    <3>2. tagp'[c] = None /\ PeerOK(c)
      BY <1>0, <3>1 DEF PeerInv
    <3> QED
      BY <1>0, <1>2, <1>3, <2>1, <3>1, <3>2, PeerTag
  <2>2. CASE EgressTag(c, hi) /\ ~TagInSegment(c, sent[c], hi)
    <3>1. Deliver(c, hi, {}, {}) /\ tagp' = tagp
      BY <2>2 DEF EgressTag
    <3> QED
      BY <1>6, <3>1
  <2>3. CASE EgressPass(c, hi)
    <3>1. Deliver(c, hi, {}, {}) /\ tagp' = tagp
      BY <2>3 DEF EgressPass
    <3> QED
      BY <1>6, <3>1
  <2>4. CASE EgressPatch(c, hi)
    <3>1. PeerOK(c)
      BY <1>0 DEF PeerInv
    <3> QED
      BY <1>0, <1>2, <2>4, <3>1, PeerPatch
  <2> QED
    BY <1>1, <2>1, <2>2, <2>3, <2>4
<1> QED
  BY <1>5, <1>7 DEF PeerInv

----------------------------------------------------------------------------
(* The theorem on the records the peer received.                           *)

\* Nothing is written, stored or received at the start.
LEMMA RecordInit == Init => RecordInv
<1> SUFFICES ASSUME Init PROVE RecordInv
  OBVIOUS
<1>1. BridgeInv /\ TagInv
  BY StreamInit DEF Init, BridgeInv, TagInv, PendingOK, IdleOK, BegunOK, StagedOK, BridgedOwn
<1>2. (\A c \in Conn : Len(stream[c]) = 0) /\ (\A t \in Thread : Len(thr[t].recs) = 0)
  BY DEF Init
<1>3. OrderOK /\ SentOK /\ HandOK
  BY <1>2 DEF Init, OrderOK, SentOK, HandOK
<1>4. OpenOK
  BY <1>2 DEF Init, OpenOK, Count
<1>5. EntryInv /\ PeerInv
  BY DEF Init, EntryInv, FirstOK, EntryOK, PeerInv, PeerOK, PatchedOK, FixedOK, DeferredOK
<1> QED
  BY <1>1, <1>3, <1>4, <1>5 DEF RecordInv, ShapeInv

\* Every step keeps the entries on their records and the records valid.
LEMMA RecordStep ==
  ASSUME Regular, LengthsTell, RecordInv, NoWrap, HeadersWhole', [Next]_vars
  PROVE  RecordInv'
<1>0. /\ SocketBio /\ OneThread /\ ~HMayFail /\ Cuts # "anywhere"
      /\ BridgeInv /\ StreamInv /\ TagInv /\ ShapeInv /\ EntryInv /\ PeerInv
  BY DEF Regular, RecordInv, BridgeInv
<1>1. BridgeInv' /\ TagInv'
  BY <1>0, BridgeStep, TagStep
<1>2. ASSUME \A d \in Conn : \A i \in 1 .. Len(stream[d]) :
               i \in 1 .. Len(stream'[d]) /\ stream'[d][i] = stream[d][i],
             UNCHANGED <<sent, patched, fixed, tagp>>
      PROVE  PeerInv'
  <2>1. \A d \in Conn : sent[d] \in Nat /\ sent[d] <= sent'[d] /\ sent'[d] \in Nat
    BY <1>0, <1>2 DEF StreamInv, TypeOK
  <2>2. ASSUME NEW d \in Conn PROVE PeerOK(d)'
    <3>1. PeerOK(d)
      BY <1>0 DEF PeerInv
    <3> QED
      BY <1>0, <1>2, <2>1, <3>1, PeerGrows
  <2> QED
    BY <2>2 DEF PeerInv
<1>3. ASSUME NEW t \in Thread, NEW c \in Conn,
             Handshake(t, c) \/ \E pl \in Payload : SslWrite(t, c, pl)
      PROVE  RecordInv'
  <2>1. UNCHANGED <<stream, sent, patched, fixed, tagp>>
    BY <1>3 DEF Handshake, SslWrite, sendVars, peerVars
  <2>2. PeerInv'
    BY <1>2, <2>1
  <2>3. ShapeInv' /\ EntryInv'
    BY <1>0, <1>3, ShapeCalls, EntryCalls
  <2> QED
    BY <1>1, <2>2, <2>3 DEF RecordInv
<1>4. ASSUME NEW t \in Thread, TcpSendmsg(t) PROVE RecordInv'
  <2>1. /\ UNCHANGED <<sent, patched, fixed, tagp>>
        /\ \A d \in Conn : \A i \in 1 .. Len(stream[d]) :
             i \in 1 .. Len(stream'[d]) /\ stream'[d][i] = stream[d][i]
    BY <1>0, <1>4, SendShape
  <2>2. PeerInv'
    BY <1>2, <2>1
  <2>3. ShapeInv' /\ EntryInv'
    BY <1>0, <1>4, ShapeSends, EntrySends
  <2> QED
    BY <1>1, <2>2, <2>3 DEF RecordInv
<1>5. ASSUME NEW c \in Conn, Egress(c) PROVE RecordInv'
  <2>1. PeerInv'
    BY <1>5, PeerEgress
  <2>2. ShapeInv' /\ EntryInv'
    BY <1>0, <1>5, EntryEgress
  <2> QED
    BY <1>1, <2>1, <2>2 DEF RecordInv
<1>6. CASE UNCHANGED <<opened, thr, xor, tc, tagp, stream, queued, sent, patched, fixed>>
  <2>1. PeerInv'
    BY <1>2, <1>6
  <2>2. ShapeInv'
    BY <1>0, <1>6 DEF ShapeInv, OrderOK, SentOK, HandOK, OpenOK, Busy
  <2>3. EntryInv'
    BY <1>0, <1>6 DEF EntryInv, FirstOK, EntryOK, EntryAt, WriteStart, LeftBefore
  <2> QED
    BY <1>1, <2>1, <2>2, <2>3 DEF RecordInv
<1>7. ~Expire /\ ~ \E c \in Conn : Flush(c)
  BY <1>0 DEF Expire, Flush, BridgeInv, StagedOK, StreamInv, NoBuffer
<1>8. ASSUME NEW s \in Secret, Revoke(s)
      PROVE  UNCHANGED <<opened, thr, xor, tc, tagp, stream, queued, sent, patched, fixed>>
  BY <1>8 DEF Revoke, sendVars, peerVars
<1>9. CASE UNCHANGED vars
  BY <1>6, <1>9 DEF vars, appVars, sendVars, peerVars
<1>10. ~ \E c \in Conn : Evict(c)
  BY DEF Evict, Regular
<1> QED
  BY <1>3, <1>4, <1>5, <1>6, <1>7, <1>8, <1>9, <1>10 DEF Next

\* What the invariant says of a record the peer received.
LEMMA RecordInvValid == RecordInv => RecordsValid
<1> SUFFICES ASSUME RecordInv, NEW c \in Conn, NEW r \in Received(c)
             PROVE  \/ PatchesOn(c, r) = {} /\ FixesOn(c, r) = {}
                    \/ /\ \E f \in FixesOn(c, r) : f.good /\ f.at = {p.pos : p \in PatchesOn(c, r)}
                       /\ \A p \in PatchesOn(c, r) :
                            p.id = r.id /\ p.off >= r.off /\ p.pos = Text(c, r) + p.off - r.off
  BY DEF RecordsValid
<1>0. /\ StreamInv /\ OrderOK /\ PendingOK /\ PatchedOK(c) /\ FixedOK(c)
      /\ sent[c] \in Nat /\ TagLen \in Nat \ {0}
  BY TlsPatchConstants DEF RecordInv, TagInv, StreamInv, TypeOK, ShapeInv, PeerInv, PeerOK
<1>1. PICK i \in 1 .. Len(stream[c]) : r = stream[c][i] /\ End(c, r) <= sent[c]
  BY DEF Received
<1>2. ASSUME NEW p \in PatchesOn(c, r)
      PROVE  /\ p.id = r.id /\ p.off >= r.off /\ p.pos = Text(c, r) + p.off - r.off
             /\ FixesOn(c, r) # {}
  <2>1. p \in patched[c] /\ r.start <= p.pos /\ p.pos < End(c, r)
    BY DEF PatchesOn
  <2>2. PICK j \in 1 .. Len(stream[c]) :
          /\ PatchAt(c, stream[c][j], p)
          /\ \/ FixesOn(c, stream[c][j]) # {}
             \/ tagp[c] # None /\ tagp[c].fix.start = stream[c][j].start
    BY <1>0, <2>1 DEF PatchedOK
  <2>3. p.off \in Nat
    BY <1>0, <2>1 DEF StreamInv, TypeOK
  <2>4. /\ p.pos \in Nat /\ stream[c][j].start <= p.pos /\ p.pos < End(c, stream[c][j])
    BY <1>0, <2>2, <2>3, InText DEF PatchAt
  <2>5. i = j
    BY <1>0, <1>1, <2>1, <2>4, OneRecord
  <2>6. p.id = r.id /\ r.off = 0 /\ p.pos = Text(c, r) + p.off /\ r.kind = "app"
    BY <1>1, <2>2, <2>5 DEF PatchAt
  <2>7. p.off >= r.off /\ p.pos = Text(c, r) + p.off - r.off
    BY <2>3, <2>4, <2>6
  <2>8. FixesOn(c, r) # {}
    <3> SUFFICES ASSUME tagp[c] # None, tagp[c].fix.start = r.start PROVE FALSE
      BY <1>1, <2>2, <2>5
    <3>1. PICK k \in 1 .. Len(stream[c]) :
            tagp[c].fix.start = stream[c][k].start /\ sent[c] <= TagPos(c, stream[c][k])
      BY <1>0 DEF PendingOK, Pending
    <3>2. k = i
      BY <1>0, <1>1, <3>1 DEF StreamInv, LayoutOK
    <3>3. TagPos(c, r) \in Nat /\ End(c, r) \in Nat /\ TagPos(c, r) + TagLen = End(c, r)
      BY <1>0, <1>1, <2>6, StreamRecord, RecordSize DEF StreamInv
    <3> QED
      BY <1>0, <1>1, <3>1, <3>2, <3>3
  <2> QED
    BY <2>6, <2>7, <2>8
<1>3. ASSUME NEW f \in FixesOn(c, r)
      PROVE  f.good /\ f.at = {p.pos : p \in PatchesOn(c, r)}
  <2>1. f \in fixed[c] /\ f.start = r.start
    BY DEF FixesOn
  <2>2. PICK j \in 1 .. Len(stream[c]) :
          f.start = stream[c][j].start /\ f.good /\ f.at = Positions(c, stream[c][j])
    BY <1>0, <2>1 DEF FixedOK
  <2>3. i = j
    BY <1>0, <1>1, <2>1, <2>2 DEF StreamInv, LayoutOK
  <2> QED
    BY <1>1, <2>2, <2>3 DEF Positions
<1> QED
  BY <1>2, <1>3

\* The peer can decrypt every record it received and reads there what was
\* written, whatever the connections, the lengths of the writes, the segments
\* TCP cuts the records into and the whole records it loses: every record that
\* tc_egress_patch touched was patched exactly where its own write had the
\* placeholders, and tc_ghash_update corrected its tag for these patches.
THEOREM RecordsStayValid ==
  ASSUME Regular, LengthsTell
  PROVE  Spec /\ []NoWrap /\ []HeadersWhole => []RecordsValid
<1>1. RecordInv /\ NoWrap /\ HeadersWhole' /\ [Next]_vars => RecordInv'
  BY RecordStep
<1> QED
  BY <1>1, RecordInit, RecordInvValid, PTL DEF Spec

----------------------------------------------------------------------------
(* Placeholders.                                                           *)

\* TCP cuts a record at most behind all of its placeholders, and the search
\* skips the record that completes the handshake.
CutsBehind == Cuts \in {"records", "afterSecrets"} /\ Leading >= 1

\* The placeholders of a write are in its first record: in the thread's hands
\* their patches are still staged, in the stream they lie within the text.
HeldOK ==
  /\ \A t \in Thread : \A n \in 1 .. Len(thr[t].recs) : \A h \in thr[t].recs[n].staged :
       n = 1 /\ xor # None /\ h \in xor.patches
  /\ \A c \in Conn : \A i \in 1 .. Len(stream[c]) : \A h \in stream[c][i].staged :
       stream[c][i].off = 0 /\ stream[c][i].id # 0 /\ h.off < stream[c][i].len

\* What prescan_chunk found of the placeholders of a record is staged with it, as
\* far as the secrets have not been deleted since.
Found(r) ==
  \A h \in r.holds : h.nth < MaxMatches /\ h.secret \in known \cap Bound =>
    [off |-> h.off, secret |-> h.secret] \in r.staged

FoundOK ==
  /\ \A t \in Thread : \A n \in 1 .. Len(thr[t].recs) : Found(thr[t].recs[n])
  /\ \A c \in Conn : \A i \in 1 .. Len(stream[c]) : Found(stream[c][i])

\* What follows the ClientHello was sent after the peer received it.
AnsweredOK == \A c \in Conn : Len(stream[c]) > 1 => End(c, stream[c][1]) <= sent[c]

\* The peer has a part of a record only if the record has placeholders, and
\* then it has its header.
SplitOK ==
  \A c \in Conn : \A i \in 1 .. Len(stream[c]) :
    stream[c][i].start < sent[c] /\ sent[c] < End(c, stream[c][i]) =>
      stream[c][i].staged # {} /\ stream[c][i].start + HdrLen <= sent[c]

\* Placeholder h of record r, no part of which has left, has a patch waiting.
Awaits(c, r, h) ==
  /\ sent[c] <= r.start
  /\ tc[c] # None /\ tc[c].active /\ tc[c].seq = ISN + r.start
  /\ h \in tc[c].patches

\* Placeholder h of record r was replaced.
Gone(c, r, h) == \E p \in patched[c] : p.secret = h.secret /\ p.pos = Text(c, r) + h.off

WaitOK ==
  losses = 0 => \A c \in Conn : \A i \in 1 .. Len(stream[c]) : \A h \in stream[c][i].staged :
    h.secret \in known /\ c \in Allowed[h.secret] =>
      Awaits(c, stream[c][i], h) \/ Gone(c, stream[c][i], h)

ReplaceInv == RecordInv /\ HeldOK /\ FoundOK /\ AnsweredOK /\ SplitOK /\ WaitOK

\* Headers are whole, as far as the peer received the stream.
LEMMA SplitHeaders == StreamInv /\ SplitOK => HeadersWhole
<1> SUFFICES ASSUME StreamInv, SplitOK, NEW c \in Conn, NEW i \in 1 .. Len(stream[c]),
                    stream[c][i].start < sent[c], sent[c] < stream[c][i].start + HdrLen
             PROVE  FALSE
  BY DEF HeadersWhole
<1>1. /\ sent[c] \in Nat /\ HdrLen \in Nat
      /\ stream[c][i].start \in Nat /\ End(c, stream[c][i]) \in Nat
      /\ stream[c][i].start + HdrLen <= End(c, stream[c][i])
  BY RecordEnd, TlsPatchConstants DEF StreamInv, TypeOK
<1>2. sent[c] < End(c, stream[c][i])
  BY <1>1
<1>3. stream[c][i].start + HdrLen <= sent[c]
  BY <1>2 DEF SplitOK
<1> QED
  BY <1>1, <1>3

\* A segment ends between records or behind the placeholders of one.
LEMMA SplitCut ==
  ASSUME CutsBehind, StreamInv, HeldOK, NEW c \in Conn, NEW hi \in Nat, CutOK(c, hi),
         NEW i \in 1 .. Len(stream[c]), stream[c][i].start < hi, hi < End(c, stream[c][i])
  PROVE  LET r == stream[c][i] IN
         /\ r.staged # {} /\ r.start + HdrLen <= hi
         /\ \A h \in r.staged : Text(c, r) + h.off < hi
<1> DEFINE r == stream[c][i]
<1>1. Cuts \in {"records", "afterSecrets"}
  BY DEF CutsBehind
<1>2. Cuts # "records"
  BY DEF CutOK
<1>3. r.staged # {} /\ \A h \in r.staged : Text(c, r) + h.off - r.off < hi
  BY <1>1, <1>2 DEF CutOK
<1>4. r \in Placed /\ r.start \in Nat
  BY StreamRecord DEF StreamInv
<1>5. /\ HdrLen \in Nat /\ Nonce(c) \in Nat
  BY TlsPatchConstants DEF Nonce
<1>6. ASSUME NEW h \in r.staged PROVE Text(c, r) + h.off < hi /\ r.start + HdrLen <= hi
  <2>1. r.off = 0 /\ h.off \in Nat
    BY <1>4 DEF HeldOK, Placed, Patch
  <2>2. Text(c, r) = r.start + HdrLen + Nonce(c)
    BY DEF Text
  <2> HIDE DEF r
  <2>3. Text(c, r) + h.off - r.off < hi
    BY <1>3
  <2> QED
    BY <1>4, <1>5, <2>1, <2>2, <2>3
<1> QED
  BY <1>3, <1>6

\* Where records are cut.
LEMMA SplitEgress ==
  ASSUME CutsBehind, StreamInv, HeldOK, SplitOK, NEW c \in Conn, Egress(c)
  PROVE  SplitOK'
<1>0. sent \in [Conn -> Nat] /\ queued[c] \in Nat
  BY DEF StreamInv, TypeOK
<1>1. PICK hi \in sent[c] + 1 .. queued[c] :
        EgressTag(c, hi) \/ EgressPass(c, hi) \/ EgressPatch(c, hi)
  BY DEF Egress
<1>2. hi \in Nat /\ CutOK(c, hi)
  BY <1>0, <1>1 DEF EgressTag, EgressPass, EgressPatch, Segment
<1>3. stream' = stream /\ (sent' = sent \/ sent' = [sent EXCEPT ![c] = hi])
  BY <1>1 DEF EgressTag, EgressPass, EgressPatch, Deliver, sendVars
<1> SUFFICES ASSUME NEW d \in Conn, NEW i \in 1 .. Len(stream[d]),
                    stream[d][i].start < sent'[d], sent'[d] < End(d, stream[d][i])
             PROVE  stream[d][i].staged # {} /\ stream[d][i].start + HdrLen <= sent'[d]
  BY <1>3 DEF SplitOK, End, WireLen, RecLen
<1>4. CASE sent'[d] = sent[d]
  BY <1>4 DEF SplitOK
<1>5. CASE d = c /\ sent'[c] = hi
  BY <1>2, <1>5, SplitCut
<1> QED
  BY <1>0, <1>3, <1>4, <1>5

\* The record sent is behind what the peer received.
LEMMA SplitSends ==
  ASSUME StreamInv, SplitOK, NEW t \in Thread, TcpSendmsg(t)
  PROVE  SplitOK'
<1>0. PICK c \in Conn, n \in Nat : c = thr[t].conn /\ n = Len(stream[c])
  BY SendShape
<1> DEFINE new == Placing(c, thr[t].recs[1])
<1>1. /\ Len(stream'[c]) = n + 1 /\ stream'[c][n + 1] = new
      /\ \A i \in 1 .. n : stream'[c][i] = stream[c][i]
      /\ \A d \in Conn \ {c} : stream'[d] = stream[d]
      /\ sent' = sent
  BY <1>0, SendShape
<1>2. new.start = queued[c] /\ queued[c] \in Nat /\ sent[c] \in Nat /\ sent[c] <= queued[c]
  BY DEF Placing, StreamInv, TypeOK, LayoutOK
<1> HIDE DEF new
<1> SUFFICES ASSUME NEW d \in Conn, NEW i \in 1 .. Len(stream'[d]),
                    stream'[d][i].start < sent[d], sent[d] < End(d, stream'[d][i])
             PROVE  stream'[d][i].staged # {} /\ stream'[d][i].start + HdrLen <= sent[d]
  BY <1>1 DEF SplitOK, End, WireLen, RecLen
<1>3. CASE i \in 1 .. Len(stream[d])
  <2>1. stream'[d][i] = stream[d][i]
    BY <1>0, <1>1, <1>3
  <2> QED
    BY <1>3, <2>1 DEF SplitOK
<1>4. CASE i \notin 1 .. Len(stream[d])
  <2>1. d = c /\ i = n + 1
    BY <1>0, <1>1, <1>4
  <2> QED
    BY <1>1, <1>2, <2>1
<1> QED
  BY <1>3, <1>4

\* A second record is sent when the peer received the ClientHello.
LEMMA AnsweredSends ==
  ASSUME StreamInv, ShapeInv, AnsweredOK, NEW t \in Thread, TcpSendmsg(t)
  PROVE  AnsweredOK'
<1>0. PICK c \in Conn, n \in Nat : c = thr[t].conn /\ n = Len(stream[c])
  BY SendShape
<1>1. /\ Len(stream'[c]) = n + 1
      /\ \A d \in Conn : \A i \in 1 .. Len(stream[d]) : stream'[d][i] = stream[d][i]
      /\ \A d \in Conn \ {c} : stream'[d] = stream[d]
      /\ sent' = sent /\ (n # 0 => Keyed(c))
  BY <1>0, SendShape
<1> SUFFICES ASSUME NEW d \in Conn, Len(stream'[d]) > 1
             PROVE  End(d, stream'[d][1]) <= sent[d]
  BY <1>1 DEF AnsweredOK, End, WireLen, RecLen
<1>2. CASE d # c
  BY <1>1, <1>2 DEF AnsweredOK
<1>3. CASE d = c
  <2>1. n # 0 /\ 1 \in 1 .. Len(stream[c]) /\ Keyed(c) /\ stream'[c][1] = stream[c][1]
    BY <1>0, <1>1, <1>3
  <2>2. NthOK(c, 1, stream[c][1]) /\ stream[c][1].start = 0
    BY <2>1 DEF ShapeInv, SentOK, OrderOK
  <2>3. End(c, stream[c][1]) = WireLen(c, Hello)
    <3>1. RecLen(c, stream[c][1]) = RecLen(c, Hello) /\ RecLen(c, Hello) = 1
      BY <2>2 DEF NthOK, RecLen, Hello
    <3>2. HdrLen \in Nat
      BY TlsPatchConstants
    <3> QED
      BY <2>2, <3>1, <3>2 DEF End, WireLen
  <2> QED
    BY <1>3, <2>1, <2>3 DEF Keyed
<1> QED
  BY <1>2, <1>3

\* The placeholders a write has patches for are in its first record.
LEMMA HeldCalls ==
  ASSUME Regular, LengthsTell, BridgeInv, HeldOK, NEW t \in Thread, NEW c \in Conn,
         Handshake(t, c) \/ \E pl \in Payload : SslWrite(t, c, pl)
  PROVE  HeldOK'
<1>1. Thread = {t} /\ SocketBio /\ ~LazyHandshake
  BY DEF Regular, OneThread
<1>2. UNCHANGED stream
  BY DEF Handshake, SslWrite, sendVars
<1> SUFFICES ASSUME NEW n \in 1 .. Len(thr'[t].recs), NEW h \in thr'[t].recs[n].staged
             PROVE  n = 1 /\ xor' # None /\ h \in xor'.patches
  BY <1>1, <1>2 DEF HeldOK
<1>3. ASSUME NEW recs \in Seq(Unsent), Emit(t, c, recs)
      PROVE  thr'[t].recs = recs
  <2>1. thr' = [thr EXCEPT ![t] = [conn |-> c, recs |-> recs]]
    BY <1>1, <1>3, EmitType DEF BridgeInv
  <2> QED
    BY <2>1 DEF BridgeInv, StreamInv, TypeOK
<1>4. CASE Handshake(t, c)
  <2>1. PICK r \in {Hello, Finished(c)} : Emit(t, c, <<r>>)
    BY <1>4 DEF Handshake
  <2>2. r \in Unsent /\ r.staged = {}
    <3>1. Hello \in Unsent /\ Finished(c) \in Unsent
      BY HandshakeRecords
    <3>2. Hello.staged = {} /\ Finished(c).staged = {}
      BY DEF Hello, Finished
    <3> QED
      BY <3>1, <3>2
  <2>3. <<r>> \in Seq(Unsent) /\ Len(<<r>>) = 1 /\ <<r>>[1] = r
    BY <2>2
  <2>4. thr'[t].recs = <<r>>
    BY <1>3, <2>1, <2>3
  <2>5. n = 1
    BY <2>3, <2>4
  <2> QED
    BY <2>2, <2>3, <2>4, <2>5
<1>5. CASE \E pl \in Payload : SslWrite(t, c, pl)
  <2>1. PICK pl \in Payload : SslWrite(t, c, pl)
    BY <1>5
  <2> DEFINE ps == XorPatches(pl)
             f == Fragments(writes + 1, pl.len, Placeholders(pl), ps)
             new == [id |-> writes + 1, conn |-> c, len |-> pl.len,
                     patches |-> ps, memory |-> MemoryBio[c], old |-> FALSE]
  <2>2. Emit(t, c, f) /\ xor' = IF ps = {} THEN xor ELSE new
    BY <1>1, <2>1 DEF SslWrite
  <2>3. pl.len \in Nat \ {0} /\ ps \in SUBSET Patch /\ writes + 1 \in Nat /\ MaxRecord \in Nat
    <3>1. pl.len \in Nat \ {0} /\ pl.secrets \in SUBSET Patch /\ MaxRecord \in Nat
      BY TlsPatchConstants
    <3>2. ps \in SUBSET Patch
      BY <3>1 DEF XorPatches, Prescan
    <3>3. writes + 1 \in Nat
      BY DEF BridgeInv, StreamInv, TypeOK
    <3> QED
      BY <3>1, <3>2, <3>3
  <2>4. /\ f \in Seq(Unsent)
        /\ \A k \in 1 .. Len(f) : \A g \in f[k].staged : g \in ps /\ (k > 1 => g.off >= MaxRecord)
    <3>1. WrittenAs(f, writes + 1, pl.len, Placeholders(pl), ps)
      BY WriteShape DEF BridgeInv
    <3> HIDE DEF f
    <3> QED
      BY <3>1 DEF WrittenAs
  <2>5. \A p \in ps : p.off \in Nat /\ p.off < MaxRecord
    BY <2>3 DEF LengthsTell, XorPatches, Patch
  <2> HIDE DEF f, ps, new
  <2>6. thr'[t].recs = f
    BY <1>3, <2>2, <2>4
  <2>7. n \in 1 .. Len(f) /\ h \in ps /\ (n > 1 => h.off >= MaxRecord)
    BY <2>4, <2>6
  <2>8. n = 1
    BY <2>3, <2>5, <2>7
  <2>9. xor' = new /\ new.patches = ps
    BY <2>2, <2>7 DEF new
  <2>10. new # None
    <3>1. MemoryBio[c] \in BOOLEAN
      BY TlsPatchConstants
    <3>2. new \in [id : Nat, conn : Conn, len : Nat, patches : SUBSET Patch,
                  memory : BOOLEAN, old : BOOLEAN]
      BY <2>3, <3>1 DEF new
    <3> QED
      BY <3>2, NoneIsNoEntry
  <2> QED
    BY <2>7, <2>8, <2>9, <2>10
<1> QED
  BY <1>4, <1>5

\* A record with placeholders goes out first, and their patches with it.
LEMMA HeldSends ==
  ASSUME Regular, BridgeInv, EntryInv, HeldOK, NEW t \in Thread, TcpSendmsg(t)
  PROVE  HeldOK'
<1> DEFINE recs == thr[t].recs
<1>0. PICK c \in Conn, n \in Nat : c = thr[t].conn /\ n = Len(stream[c])
  BY SendShape DEF BridgeInv
<1> DEFINE new == Placing(c, recs[1])
<1>1. /\ Len(recs) \in Nat \ {0} /\ Len(thr'[t].recs) = Len(recs) - 1
      /\ \A k \in 1 .. Len(recs) - 1 : thr'[t].recs[k] = recs[k + 1]
      /\ Len(stream'[c]) = n + 1 /\ stream'[c][n + 1] = new
      /\ \A i \in 1 .. n : stream'[c][i] = stream[c][i]
      /\ \A d \in Conn \ {c} : stream'[d] = stream[d]
  BY <1>0, SendShape DEF BridgeInv
<1>2. Thread = {t}
  BY DEF Regular, OneThread
<1>3. new.staged = recs[1].staged /\ new.off = recs[1].off /\ new.id = recs[1].id
      /\ new.len = recs[1].len
  BY DEF Placing
<1>4. \A k \in 1 .. Len(recs) : \A h \in recs[k].staged : k = 1 /\ xor # None /\ h \in xor.patches
  BY DEF HeldOK
<1>5. ASSUME NEW h \in new.staged PROVE new.off = 0 /\ new.id # 0 /\ h.off < new.len
  <2>1. xor # None /\ h \in xor.patches
    <3>1. h \in recs[1].staged /\ 1 \in 1 .. Len(recs)
      BY <1>1, <1>3
    <3> QED
      BY <1>4, <3>1
  <2>2. WriteStart(recs[1], xor)
    BY <1>2, <2>1 DEF EntryInv, FirstOK
  <2> QED
    BY <1>3, <2>1, <2>2 DEF WriteStart
<1> HIDE DEF new, recs
<1>6. ASSUME NEW k \in 1 .. Len(thr'[t].recs), NEW h \in thr'[t].recs[k].staged
      PROVE  FALSE
  <2>1. k \in 1 .. Len(recs) - 1 /\ k + 1 \in 1 .. Len(recs) /\ k + 1 # 1
    BY <1>1
  <2>2. h \in recs[k + 1].staged
    BY <1>1, <2>1
  <2> QED
    BY <1>4, <2>1, <2>2
<1>7. ASSUME NEW d \in Conn, NEW i \in 1 .. Len(stream'[d]), NEW h \in stream'[d][i].staged
      PROVE  stream'[d][i].off = 0 /\ stream'[d][i].id # 0 /\ h.off < stream'[d][i].len
  <2>1. CASE i \in 1 .. Len(stream[d])
    <3>1. stream'[d][i] = stream[d][i]
      BY <1>0, <1>1, <2>1
    <3> QED
      BY <2>1, <3>1 DEF HeldOK
  <2>2. CASE i \notin 1 .. Len(stream[d])
    <3>1. d = c /\ i = n + 1
      BY <1>0, <1>1, <2>2
    <3> QED
      BY <1>1, <1>5, <3>1
  <2> QED
    BY <2>1, <2>2
<1> QED
  BY <1>2, <1>6, <1>7 DEF HeldOK

\* The records of a write: all placeholders but those behind the last match are
\* staged with the record they are in.
LEMMA FoundCalls ==
  ASSUME Regular, BridgeInv, FoundOK, NEW t \in Thread, NEW c \in Conn,
         Handshake(t, c) \/ \E pl \in Payload : SslWrite(t, c, pl)
  PROVE  FoundOK'
<1>1. SocketBio /\ ~LazyHandshake /\ Thread = {t}
  BY DEF Regular, OneThread
<1>2. UNCHANGED <<known, stream>>
  BY DEF Handshake, SslWrite, sendVars
<1> SUFFICES ASSUME NEW n \in 1 .. Len(thr'[t].recs), NEW h \in thr'[t].recs[n].holds,
                    h.nth < MaxMatches, h.secret \in known \cap Bound
             PROVE  [off |-> h.off, secret |-> h.secret] \in thr'[t].recs[n].staged
  BY <1>1, <1>2 DEF FoundOK, Found
<1>3. ASSUME NEW recs \in Seq(Unsent), Emit(t, c, recs)
      PROVE  thr'[t].recs = recs
  <2>1. thr' = [thr EXCEPT ![t] = [conn |-> c, recs |-> recs]]
    BY <1>1, <1>3, EmitType DEF BridgeInv
  <2> QED
    BY <2>1 DEF BridgeInv, StreamInv, TypeOK
<1>4. CASE Handshake(t, c)
  <2>1. PICK r \in {Hello, Finished(c)} : Emit(t, c, <<r>>)
    BY <1>4 DEF Handshake
  <2>2. r \in Unsent /\ r.holds = {}
    <3>1. Hello \in Unsent /\ Finished(c) \in Unsent
      BY HandshakeRecords
    <3>2. Hello.holds = {} /\ Finished(c).holds = {}
      BY DEF Hello, Finished
    <3> QED
      BY <3>1, <3>2
  <2>3. <<r>> \in Seq(Unsent) /\ Len(<<r>>) = 1 /\ <<r>>[1] = r
    BY <2>2
  <2>4. thr'[t].recs = <<r>>
    BY <1>3, <2>1, <2>3
  <2>5. n = 1
    BY <2>3, <2>4
  <2> QED
    BY <2>2, <2>3, <2>4, <2>5
<1>5. CASE \E pl \in Payload : SslWrite(t, c, pl)
  <2>1. PICK pl \in Payload : SslWrite(t, c, pl)
    BY <1>5
  <2> DEFINE ps == XorPatches(pl)
             text == Placeholders(pl)
             f == Fragments(writes + 1, pl.len, text, ps)
             p == [off |-> h.off, secret |-> h.secret]
  <2>2. Emit(t, c, f)
    BY <1>1, <2>1 DEF SslWrite
  <2>3. WrittenAs(f, writes + 1, pl.len, text, ps)
    BY WriteShape DEF BridgeInv
  <2> HIDE DEF f, text, ps
  <2>4. /\ f \in Seq(Unsent)
        /\ \A k \in 1 .. Len(f) : \A g \in f[k].holds :
             g \in text /\ \A q \in ps : q.off = g.off => q \in f[k].staged
    BY <2>3 DEF WrittenAs
  <2>5. thr'[t].recs = f
    BY <1>3, <2>2, <2>4
  <2>6. h \in text /\ \A q \in ps : q.off = h.off => q \in f[n].staged
    BY <2>4, <2>5
  <2>7. p \in pl.secrets /\ h.nth = Before(pl, p)
    BY <2>6, PlaceholdersType DEF text
  <2>8. p.off = h.off /\ p.secret = h.secret
    OBVIOUS
  <2> HIDE DEF p
  <2>9. p \in ps
    BY <2>7, <2>8 DEF ps, XorPatches, Prescan
  <2> QED
    BY <2>5, <2>6, <2>8, <2>9 DEF p
<1> QED
  BY <1>4, <1>5

\* A record takes its placeholders and their patches along into the stream.
LEMMA FoundSends ==
  ASSUME Regular, BridgeInv, FoundOK, NEW t \in Thread, TcpSendmsg(t)
  PROVE  FoundOK'
<1> DEFINE recs == thr[t].recs
<1>0. PICK c \in Conn, n \in Nat : c = thr[t].conn /\ n = Len(stream[c])
  BY SendShape DEF BridgeInv
<1> DEFINE new == Placing(c, recs[1])
<1>1. /\ Len(recs) \in Nat \ {0} /\ Len(thr'[t].recs) = Len(recs) - 1
      /\ \A k \in 1 .. Len(recs) - 1 : thr'[t].recs[k] = recs[k + 1]
      /\ Len(stream'[c]) = n + 1 /\ stream'[c][n + 1] = new
      /\ \A i \in 1 .. n : stream'[c][i] = stream[c][i]
      /\ \A d \in Conn \ {c} : stream'[d] = stream[d]
      /\ known' = known
  BY <1>0, SendShape DEF BridgeInv
<1>2. Thread = {t}
  BY DEF Regular, OneThread
<1>3. \A k \in 1 .. Len(recs) : Found(recs[k])
  BY DEF FoundOK
<1>4. Found(new)
  <2>1. new.holds = recs[1].holds /\ new.staged = recs[1].staged
    BY DEF Placing
  <2>2. Found(recs[1])
    BY <1>1, <1>3
  <2> HIDE DEF new, recs
  <2> QED
    BY <2>1, <2>2 DEF Found
<1> HIDE DEF new, recs
<1>5. ASSUME NEW k \in 1 .. Len(thr'[t].recs) PROVE Found(thr[t].recs[k])'
  <2>1. k \in 1 .. Len(recs) - 1 /\ k + 1 \in 1 .. Len(recs)
    BY <1>1
  <2>2. thr'[t].recs[k] = recs[k + 1] /\ Found(recs[k + 1])
    BY <1>1, <1>3, <2>1
  <2> QED
    BY <1>1, <2>2 DEF Found
<1>6. ASSUME NEW d \in Conn, NEW i \in 1 .. Len(stream'[d]) PROVE Found(stream[d][i])'
  <2>1. CASE i \in 1 .. Len(stream[d])
    <3>1. stream'[d][i] = stream[d][i]
      BY <1>0, <1>1, <2>1
    <3>2. Found(stream[d][i])
      BY <2>1 DEF FoundOK
    <3> QED
      BY <1>1, <3>1, <3>2 DEF Found
  <2>2. CASE i \notin 1 .. Len(stream[d])
    <3>1. d = c /\ i = n + 1
      BY <1>0, <1>1, <2>2
    <3> QED
      BY <1>1, <1>4, <3>1 DEF Found
  <2> QED
    BY <2>1, <2>2
<1> QED
  BY <1>2, <1>5, <1>6 DEF FoundOK

\* tcp_sendmsg leaves the patches of the record it sends in tc_pending, and
\* replaces an entry only when the record it was for has left.
LEMMA WaitSends ==
  ASSUME Regular, NoWrap, RecordInv, HeldOK, WaitOK, NEW t \in Thread, TcpSendmsg(t)
  PROVE  WaitOK'
<1> DEFINE recs == thr[t].recs
<1>a. BridgeInv /\ StreamInv /\ ShapeInv /\ EntryInv
  BY DEF RecordInv, BridgeInv
<1>0. PICK c \in Conn, n \in Nat : c = thr[t].conn /\ n = Len(stream[c])
  BY <1>a, SendShape
<1> DEFINE new == Placing(c, recs[1])
<1>1. /\ Len(recs) \in Nat \ {0}
      /\ Len(stream'[c]) = n + 1 /\ stream'[c][n + 1] = new
      /\ \A i \in 1 .. n : stream'[c][i] = stream[c][i]
      /\ \A d \in Conn \ {c} : stream'[d] = stream[d]
      /\ UNCHANGED <<known, sent, patched, losses>> /\ Bridge(c) /\ (n # 0 => Keyed(c))
  BY <1>a, <1>0, SendShape
<1>2. Thread = {t} /\ ~HMayFail
  BY DEF Regular, OneThread
<1>3. ASSUME xor # None
      PROVE  xor.conn = c /\ ~xor.memory /\ ~xor.old /\ LeftBefore(c, n) /\ Keyed(c)
  <2>1. xor.conn = c /\ ~xor.memory /\ ~xor.old /\ WriteStart(recs[1], xor) /\ LeftBefore(c, n)
    BY <1>a, <1>0, <1>2, <1>3 DEF BridgeInv, StagedOK, EntryInv, FirstOK
  <2>2. NthOK(c, n + 1, recs[1]) /\ recs[1].id # 0
    BY <1>a, <1>0, <1>1, <2>1 DEF ShapeInv, HandOK, WriteStart
  <2>3. n # 0
    BY <1>1, <2>2 DEF NthOK
  <2> QED
    BY <1>1, <2>1, <2>3
<1>4. /\ new.start = queued[c] /\ new.staged = recs[1].staged
      /\ queued[c] \in Nat /\ sent[c] \in Nat /\ sent[c] <= queued[c]
      /\ tc \in [Conn -> [id : Nat, ssl : Conn, len : Nat, patches : SUBSET Patch,
                          active : BOOLEAN, seq : Nat] \cup {None}]
  BY <1>a DEF Placing, StreamInv, TypeOK, LayoutOK
<1>5. tc' = tc \/ (xor # None /\ tc' = [tc EXCEPT ![c] = TcEntry(c)])
  BY <1>1 DEF Bridge, BridgeTo
<1> SUFFICES ASSUME losses = 0, NEW d \in Conn, NEW i \in 1 .. Len(stream'[d]),
                    NEW h \in stream'[d][i].staged, h.secret \in known, d \in Allowed[h.secret]
             PROVE  Awaits(d, stream[d][i], h)' \/ Gone(d, stream[d][i], h)'
  BY <1>1 DEF WaitOK, Awaits, Gone, Text
<1>6. CASE i \in 1 .. Len(stream[d])
  <2>1. stream'[d][i] = stream[d][i]
    BY <1>0, <1>1, <1>6
  <2>2. CASE Gone(d, stream[d][i], h)
    BY <1>1, <2>1, <2>2 DEF Gone, Text
  <2>3. CASE Awaits(d, stream[d][i], h)
    <3>1. tc'[d] = tc[d]
      <4> SUFFICES ASSUME tc'[d] # tc[d] PROVE FALSE
        OBVIOUS
      <4>1. xor # None /\ d = c
        BY <1>4, <1>5
      <4>2. stream[c][i].id = 0 \/ End(c, stream[c][i]) <= sent[c]
        BY <1>0, <1>3, <1>6, <4>1 DEF LeftBefore
      <4>3. stream[c][i].id # 0
        BY <1>6, <2>1, <4>1 DEF HeldOK
      <4>4. /\ stream[c][i].start \in Nat /\ End(c, stream[c][i]) \in Nat
            /\ stream[c][i].start < End(c, stream[c][i])
        BY <1>a, <1>6, <4>1, RecordEnd
      <4>5. sent[c] <= stream[c][i].start
        BY <2>3, <4>1 DEF Awaits
      <4> QED
        BY <1>4, <4>2, <4>3, <4>4, <4>5
    <3> QED
      BY <1>1, <2>1, <2>3, <3>1 DEF Awaits
  <2> QED
    BY <1>6, <2>1, <2>2, <2>3 DEF WaitOK
<1>7. CASE i \notin 1 .. Len(stream[d])
  <2>1. d = c /\ i = n + 1 /\ stream'[c][i] = new
    BY <1>0, <1>1, <1>7
  <2>2. xor # None /\ h \in xor.patches
    <3>1. h \in recs[1].staged
      BY <1>4, <2>1
    <3> QED
      BY <1>1, <3>1 DEF HeldOK
  <2>3. h \in FilterPatches(c, xor.patches)
    BY <2>1, <2>2 DEF FilterPatches
  <2>4. tc' = [tc EXCEPT ![c] = TcEntry(c)]
    BY <1>1, <1>2, <1>3, <2>2, <2>3 DEF Bridge, BridgeTo
  <2>5. tc'[c] = TcEntry(c)
    BY <1>4, <2>4
  <2>6. tc'[c] # None
    <3>1. TcEntry(c) \in [id : Nat, ssl : Conn, len : Nat, patches : SUBSET Patch,
                          active : BOOLEAN, seq : Nat]
      <4>1. xor \in [id : Nat, conn : Conn, len : Nat, patches : SUBSET Patch,
                     memory : BOOLEAN, old : BOOLEAN]
        BY <1>a, <2>2 DEF StreamInv, TypeOK
      <4>2. Seq32(queued[c]) \in Nat
        BY <1>4, SeqNumber
      <4>3. FilterPatches(c, xor.patches) \in SUBSET Patch
        BY <4>1 DEF FilterPatches
      <4> QED
        BY <4>1, <4>2, <4>3 DEF TcEntry
    <3> QED
      BY <2>5, <3>1, NoneIsNoEntry
  <2>7. /\ TcEntry(c).active /\ h \in TcEntry(c).patches
        /\ TcEntry(c).seq = ISN + queued[c]
    BY <1>a, <1>3, <1>4, <2>2, <2>3, SeqInOrder DEF TcEntry, StreamInv
  <2> HIDE DEF new
  <2>8. Awaits(d, stream[d][i], h)'
    BY <1>1, <1>4, <2>1, <2>5, <2>6, <2>7 DEF Awaits
  <2> QED
    BY <2>8
<1> QED
  BY <1>6, <1>7

\* No correction is pending when the record of an entry is about to leave: the
\* records of earlier writes have left with their tags.
LEMMA NoTagBefore ==
  ASSUME TagInv, ShapeInv, NEW c \in Conn, DeferredOK(c), NEW m \in 1 .. Len(stream[c]),
         EntryAt(c, m), sent[c] <= stream[c][m].start
  PROVE  tagp[c] = None
<1> SUFFICES ASSUME tagp[c] # None PROVE FALSE
  OBVIOUS
<1>0. StreamInv /\ OrderOK /\ sent[c] \in Nat /\ TagLen \in Nat \ {0}
  BY TlsPatchConstants DEF TagInv, StreamInv, TypeOK, ShapeInv
<1>1. PICK i \in 1 .. Len(stream[c]) :
        /\ stream[c][i].start = tagp[c].fix.start
        /\ stream[c][i].start < sent[c] /\ stream[c][i].id # 0
  BY DEF DeferredOK
<1>2. stream[c][i].kind = "app" /\ sent[c] <= TagPos(c, stream[c][i])
  <2>1. PICK j \in 1 .. Len(stream[c]) :
          /\ stream[c][j].kind = "app" /\ tagp[c].fix.start = stream[c][j].start
          /\ sent[c] <= TagPos(c, stream[c][j])
    BY DEF TagInv, PendingOK, Pending
  <2>2. i = j
    BY <1>1, <2>1 DEF TagInv, StreamInv, LayoutOK
  <2> QED
    BY <2>1, <2>2
<1>3. /\ TagPos(c, stream[c][i]) \in Nat /\ End(c, stream[c][i]) \in Nat
      /\ TagPos(c, stream[c][i]) + TagLen = End(c, stream[c][i])
  BY <1>0, <1>2, StreamRecord, RecordSize DEF StreamInv
<1>4. i < m
  <2>1. i # m
    BY <1>0, <1>1, RecordEnd
  <2>2. ~(m < i)
    <3> SUFFICES ASSUME m < i PROVE FALSE
      OBVIOUS
    <3>1. /\ stream[c][m].start \in Nat /\ stream[c][i].start \in Nat
          /\ stream[c][m].start < stream[c][i].start
      BY <1>0, Behind
    <3> QED
      BY <1>0, <1>1, <3>1
  <2> QED
    BY <2>1, <2>2
<1>5. End(c, stream[c][i]) <= sent[c]
  <2>1. i \in 1 .. m - 1
    BY <1>4
  <2> QED
    BY <1>1, <2>1 DEF EntryAt, LeftBefore
<1> QED
  BY <1>0, <1>2, <1>3, <1>5

\* The segment with the record of an entry begins with a record, at the
\* earliest with the second of the connection.
LEMMA BeginsWithRecord ==
  ASSUME StreamInv, ShapeInv, HeldOK, AnsweredOK, SplitOK, NEW c \in Conn,
         NEW m \in 1 .. Len(stream[c]), EntryAt(c, m), sent[c] <= stream[c][m].start
  PROVE  \E k \in 2 .. m :
           /\ stream[c][k].start = sent[c]
           /\ \A i \in 1 .. Len(stream[c]) : sent[c] <= stream[c][i].start => k <= i
<1> DEFINE S == {i \in 1 .. Len(stream[c]) : sent[c] <= stream[c][i].start}
           k == Min(S)
<1>0. sent[c] \in Nat /\ m > 2
  BY EntryIndex DEF StreamInv, TypeOK
<1>1. k \in S /\ \A i \in S : k <= i
  <2>1. S \in SUBSET Nat /\ m \in S
    OBVIOUS
  <2> HIDE DEF S
  <2> QED
    BY <2>1, MinIn
<1>2. k \in 1 .. Len(stream[c]) /\ sent[c] <= stream[c][k].start /\ k <= m
  <2>1. m \in S
    OBVIOUS
  <2> HIDE DEF k
  <2> QED
    BY <1>1, <2>1
<1>3. \A i \in 1 .. Len(stream[c]) : sent[c] <= stream[c][i].start => k <= i
  <2> HIDE DEF k
  <2> QED
    BY <1>1
<1> HIDE DEF k, S
<1>4. k # 1
  <2> SUFFICES ASSUME k = 1 PROVE FALSE
    OBVIOUS
  <2>1. 1 \in 1 .. Len(stream[c]) /\ Len(stream[c]) > 1
    BY <1>0
  <2>2. End(c, stream[c][1]) <= sent[c]
    BY <2>1 DEF AnsweredOK
  <2>3. /\ stream[c][1].start \in Nat /\ End(c, stream[c][1]) \in Nat
        /\ stream[c][1].start < End(c, stream[c][1])
    BY <2>1, RecordEnd
  <2> QED
    BY <1>0, <1>2, <2>2, <2>3
<1>5. PICK j \in 1 .. Len(stream[c]) : j = k - 1 /\ j \in 1 .. m - 1
  <2>1. k - 1 \in 1 .. Len(stream[c]) /\ k - 1 \in 1 .. m - 1
    BY <1>2, <1>4
  <2> QED
    BY <2>1
<1>6. /\ stream[c][j].start \in Nat /\ End(c, stream[c][j]) \in Nat
      /\ stream[c][j].start < End(c, stream[c][j])
  BY RecordEnd
<1>7. stream[c][j].start < sent[c]
  <2>1. ~(sent[c] <= stream[c][j].start)
    BY <1>2, <1>3, <1>5
  <2> QED
    BY <1>0, <1>6, <2>1
<1>8. stream[c][k].start = End(c, stream[c][j])
  <2>1. stream[c][k].start = IF k = 1 THEN 0 ELSE End(c, stream[c][k - 1])
    BY <1>2 DEF ShapeInv, OrderOK
  <2> QED
    BY <1>4, <1>5, <2>1
<1>9. End(c, stream[c][j]) <= sent[c]
  <2>1. stream[c][j].id = 0 \/ End(c, stream[c][j]) <= sent[c]
    BY <1>5 DEF EntryAt, LeftBefore
  <2>2. CASE stream[c][j].id = 0
    <3>1. stream[c][j].staged = {}
      BY <2>2 DEF HeldOK
    <3>2. ~(sent[c] < End(c, stream[c][j]))
      BY <1>7, <3>1 DEF SplitOK
    <3> QED
      BY <1>0, <1>6, <3>2
  <2> QED
    BY <2>1, <2>2
<1>10. stream[c][k].start = sent[c]
  BY <1>0, <1>2, <1>6, <1>8, <1>9
<1>11. k \in 2 .. m
  BY <1>2, <1>4
<1> QED
  BY <1>3, <1>10, <1>11

\* tc_egress_patch finds an application_data record in this segment.
LEMMA FirstAppThere ==
  ASSUME CutsBehind, StreamInv, ShapeInv, HeldOK, AnsweredOK, SplitOK, NEW c \in Conn,
         NEW m \in 1 .. Len(stream[c]), EntryAt(c, m), sent[c] <= stream[c][m].start,
         NEW hi \in Nat, stream[c][m].start < hi, sent[c] < hi,
         \A i \in 1 .. Len(stream[c]) :
           stream[c][i].start < hi => stream[c][i].start + HdrLen <= hi
  PROVE  FirstApp(c, sent[c], hi) # {}
<1> DEFINE heads == Heads(c, sent[c], hi)
<1>0. m > 2 /\ stream[c][m].kind = "app" /\ Leading \in Nat /\ Leading >= 1
  BY EntryIndex, TlsPatchConstants DEF CutsBehind
<1>1. PICK k \in 2 .. m :
        /\ stream[c][k].start = sent[c]
        /\ \A i \in 1 .. Len(stream[c]) : sent[c] <= stream[c][i].start => k <= i
  BY BeginsWithRecord
<1>2. k \in 1 .. Len(stream[c]) /\ sent[c] \in Nat
  BY <1>1 DEF StreamInv, TypeOK
<1>3. k \in heads
  <2> DEFINE hs == {i \in 1 .. Len(stream[c]) :
                      sent[c] <= stream[c][i].start /\ stream[c][i].start + HdrLen <= hi}
  <2>1. k \in hs
    BY <1>1, <1>2
  <2>2. heads = hs
    BY <1>1, <2>1 DEF Heads
  <2> QED
    BY <2>1, <2>2
<1>4. \A i : i \in heads <=> /\ i \in 1 .. Len(stream[c]) /\ sent[c] <= stream[c][i].start
                             /\ stream[c][i].start + HdrLen <= hi
  BY <1>3, HeadIs
<1> HIDE DEF heads
<1>5. Min(heads) = k
  <2>1. heads \in SUBSET Nat /\ \A i \in heads : k <= i
    BY <1>1, <1>4
  <2>2. Min(heads) \in heads /\ Min(heads) <= k
    BY <1>3, <2>1, MinIn
  <2> DEFINE x == Min(heads)
  <2>3. x \in heads /\ x <= k
    BY <2>2
  <2> HIDE DEF x
  <2>4. x \in Nat /\ k <= x /\ k \in Nat
    BY <1>2, <2>1, <2>3
  <2>5. x = k
    BY <2>3, <2>4
  <2> QED
    BY <2>5 DEF x
<1>6. m \in heads
  BY <1>4
<1>7. \A j \in heads : j < m => j = 2
  <2> SUFFICES ASSUME NEW j \in heads, j < m PROVE j = 2
    OBVIOUS
  <2>1. j \in 1 .. Len(stream[c]) /\ sent[c] <= stream[c][j].start
    BY <1>4
  <2>2. j <= 2 /\ k <= j
    BY <1>1, <2>1, HandshakeBefore
  <2> QED
    BY <1>1, <2>1, <2>2
<1>8. ASSUME NEW a \in heads, stream[c][a].kind = "app", a - k <= Leading,
             \A j \in heads : j < a => stream[c][j].kind = "skip"
      PROVE  FirstApp(c, sent[c], hi) # {}
  BY <1>5, <1>8 DEF FirstApp, heads
<1>9. CASE k = m
  <2>1. \A j \in heads : ~(j < m)
    BY <1>1, <1>4, <1>9
  <2>2. m - k <= Leading
    BY <1>0, <1>2, <1>9
  <2> QED
    BY <1>0, <1>6, <1>8, <2>1, <2>2
<1>10. CASE k # m
  <2>1. k = 2 /\ m = 3
    <3>1. k < m
      BY <1>1, <1>2, <1>10
    <3>2. k = 2
      BY <1>3, <1>7, <3>1
    <3>3. sent[c] <= stream[c][2].start
      BY <1>3, <1>4, <3>2
    <3> QED
      BY <3>2, <3>3, RightBehind
  <2>2. stream[c][2].kind \in {"app", "skip"}
    BY <1>2, <2>1, StreamRecord DEF StreamInv
  <2>3. CASE stream[c][2].kind = "app"
    <3>1. \A j \in heads : ~(j < k)
      BY <1>1, <1>4
    <3>2. k - k <= Leading
      BY <1>0, <1>2
    <3> QED
      BY <1>3, <1>8, <2>1, <2>3, <3>1, <3>2
  <2>4. CASE stream[c][2].kind = "skip"
    <3>1. m - k <= Leading
      BY <1>0, <2>1
    <3> QED
      BY <1>0, <1>6, <1>7, <1>8, <2>4, <3>1
  <2> QED
    BY <2>2, <2>3, <2>4
<1> QED
  BY <1>9, <1>10

\* Then it has a record to patch.
LEMMA TargetThere ==
  ASSUME NEW c, NEW lo, NEW hi, tc[c] # None, tc[c].active, InWindow(c, lo, hi),
         FirstApp(c, lo, hi) # {}
  PROVE  Targets(c, lo, hi) # {}
<1> DEFINE fits(a) == {i \in Heads(c, lo, hi) :
                         /\ a <= i /\ i <= a + Scan
                         /\ stream[c][i].kind = "app"
                         /\ \E n \in Nonces(c) : LenMatch(c, i, n)}
           target(a) ==
             IF fits(a) # {}
             THEN [rec |-> stream[c][Min(fits(a))],
                   nonce |-> CHOOSE n \in Nonces(c) : LenMatch(c, Min(fits(a)), n)]
             ELSE [rec |-> stream[c][a], nonce |-> Max(Nonces(c))]
<1>1. Targets(c, lo, hi) = {target(a) : a \in FirstApp(c, lo, hi)}
  BY DEF Targets, Nonces
<1> HIDE DEF target
<1>2. PICK a \in FirstApp(c, lo, hi) : TRUE
  OBVIOUS
<1>3. target(a) \in {target(b) : b \in FirstApp(c, lo, hi)}
  OBVIOUS
<1> QED
  BY <1>1, <1>3

\* The record an entry is for is told by the entry's sequence number.
LEMMA SeqTells ==
  ASSUME StreamInv, NEW c \in Conn, NEW i \in 1 .. Len(stream[c]),
         NEW j \in 1 .. Len(stream[c]), EntryAt(c, j), tc[c].seq = ISN + stream[c][i].start
  PROVE  j = i
<1>1. tc[c].seq = ISN + stream[c][j].start
  BY DEF EntryAt
<1>2. stream[c][j].start \in Nat /\ stream[c][i].start \in Nat /\ ISN \in Nat
  BY RecordEnd, TlsPatchConstants
<1> DEFINE a == stream[c][j].start
           b == stream[c][i].start
<1>3. a \in Nat /\ b \in Nat /\ ISN + a = ISN + b
  BY <1>1, <1>2
<1> HIDE DEF a, b
<1>4. a = b
  BY <1>2, <1>3
<1> QED
  BY <1>4 DEF a, b, StreamInv, LayoutOK

\* It stores the patch of every placeholder of the record.
LEMMA PatchThere ==
  ASSUME CutsBehind, LengthsTell, BridgedOwn, StreamInv, ShapeInv, EntryOK, HeldOK, NoWrap,
         NEW c \in Conn, NEW hi \in Nat, sent[c] < hi, hi <= queued[c], CutOK(c, hi),
         \A i \in 1 .. Len(stream[c]) :
           stream[c][i].start < hi => stream[c][i].start + HdrLen <= hi,
         NEW m \in 1 .. Len(stream[c]), EntryAt(c, m), stream[c][m].start < hi,
         NEW h \in stream[c][m].staged, h \in tc[c].patches,
         NEW tg \in Targets(c, sent[c], hi)
  PROVE  \E p \in Applied(c, tg, hi) :
           p.secret = h.secret /\ p.pos = Text(c, stream[c][m]) + h.off
<1> DEFINE r == stream[c][m]
<1>1. tg.rec = r /\ tg.nonce = Nonce(c)
  <2>1. PICK j \in 1 .. Len(stream[c]) :
          EntryAt(c, j) /\ tg.rec = stream[c][j] /\ tg.nonce = Nonce(c)
    BY TargetIsFirst
  <2>2. tc[c].seq = ISN + stream[c][m].start
    BY DEF EntryAt
  <2>3. j = m
    BY <2>1, <2>2, SeqTells
  <2> QED
    BY <2>1, <2>3
<1>2. r.kind = "app" /\ r.start \in Nat /\ r.len \in Nat /\ h.off \in Nat /\ h.off < r.len
  <2>1. r \in Placed
    BY StreamRecord DEF StreamInv
  <2>2. h.off \in Nat
    BY <2>1 DEF Placed, Patch
  <2>3. h.off < r.len
    BY DEF HeldOK
  <2> QED
    BY <2>2, <2>3, EntryIndex
<1>3. Text(c, r) + h.off < hi
  <2>1. CASE hi < End(c, r)
    BY <2>1, SplitCut
  <2>2. CASE ~(hi < End(c, r))
    <3>1. Text(c, r) + h.off \in Nat /\ Text(c, r) + h.off < End(c, r)
      BY <1>2, InText
    <3>2. End(c, r) \in Nat
      BY RecordEnd
    <3> QED
      BY <2>2, <3>1, <3>2
  <2> QED
    BY <2>1, <2>2
<1>4. RecLen(c, r) > TagLen + tg.nonce
  <2>1. /\ NonceLen \in Nat /\ TypeLen \in Nat /\ TagLen \in Nat /\ Version[c] \in {"1.2", "1.3"}
    BY TlsPatchConstants
  <2>2. RecLen(c, r) = r.len + TagLen + IF Version[c] = "1.2" THEN NonceLen ELSE TypeLen
    BY <1>2 DEF RecLen
  <2>3. tg.nonce = IF Version[c] = "1.2" THEN NonceLen ELSE 0
    BY <1>1 DEF Nonce
  <2> HIDE DEF r
  <2> QED
    BY <1>2, <2>1, <2>2, <2>3
<1> DEFINE p == [pos |-> tg.rec.start + HdrLen + tg.nonce + h.off, off |-> h.off,
                 secret |-> h.secret, id |-> tc[c].id]
<1>5. tg.rec.start + HdrLen + tg.nonce = Text(c, r)
  BY <1>1 DEF Text
<1>6. h \in {q \in tc[c].patches :
               /\ RecLen(c, tg.rec) > TagLen + tg.nonce
               /\ tg.rec.start + HdrLen + tg.nonce + q.off < hi}
  BY <1>1, <1>3, <1>4, <1>5
<1>7. p \in Applied(c, tg, hi)
  BY <1>6 DEF Applied
<1>8. p.secret = h.secret /\ p.pos = Text(c, r) + h.off
  BY <1>5
<1> HIDE DEF p
<1> QED
  BY <1>7, <1>8

\* A placeholder waits while its record does, and leaves replaced.
LEMMA WaitEgress ==
  ASSUME Regular, LengthsTell, CutsBehind, NoWrap, ReplaceInv, HeadersWhole',
         NEW c \in Conn, Egress(c)
  PROVE  WaitOK'
<1>0. /\ StreamInv /\ TagInv /\ BridgedOwn /\ ShapeInv /\ EntryOK /\ PeerInv /\ ~PartsLost
      /\ HeldOK /\ AnsweredOK /\ SplitOK /\ WaitOK
      /\ sent[c] \in Nat /\ queued[c] \in Nat /\ losses \in Nat
  BY DEF ReplaceInv, RecordInv, BridgeInv, StreamInv, TypeOK, EntryInv, Regular
<1>1. PICK hi \in sent[c] + 1 .. queued[c] :
        EgressTag(c, hi) \/ EgressPass(c, hi) \/ EgressPatch(c, hi)
  BY DEF Egress
<1>2. hi \in Nat /\ sent[c] < hi /\ hi <= queued[c] /\ CutOK(c, hi)
  BY <1>0, <1>1 DEF EgressTag, EgressPass, EgressPatch, Segment
<1>3. /\ stream' = stream /\ known' = known
      /\ \A d \in Conn : tc'[d] = tc[d] \/ (d = c /\ tc[c] # None /\ ~tc'[c].active)
  BY <1>0, EgressShape
<1>4. PICK ps, fs : Deliver(c, hi, ps, fs)
  BY <1>1 DEF EgressTag, EgressPass, EgressPatch
<1> SUFFICES ASSUME losses' = 0, NEW d \in Conn, NEW i \in 1 .. Len(stream[d]),
                    NEW h \in stream[d][i].staged, h.secret \in known, d \in Allowed[h.secret]
             PROVE  Awaits(d, stream[d][i], h)' \/ Gone(d, stream[d][i], h)'
  BY <1>3 DEF WaitOK, Awaits, Gone, Text
<1>5. losses = 0 /\ sent'[c] = hi /\ \A p \in patched[c] : p \in patched'[c]
  BY <1>0, <1>2, <1>4, DeliverShape
<1>6. Awaits(d, stream[d][i], h) \/ Gone(d, stream[d][i], h)
  BY <1>0, <1>5 DEF WaitOK
<1>7. CASE d # c
  <2>1. sent'[d] = sent[d] /\ patched'[d] = patched[d] /\ tc'[d] = tc[d]
    BY <1>0, <1>2, <1>3, <1>4, <1>7, DeliverShape
  <2> QED
    BY <1>3, <1>6, <2>1 DEF Awaits, Gone, Text
<1>8. CASE d = c /\ Gone(c, stream[c][i], h)
  BY <1>3, <1>5, <1>8 DEF Gone, Text
<1>9. CASE d = c /\ Awaits(c, stream[c][i], h)
  <2>0. i \in 1 .. Len(stream[c]) /\ h \in stream[c][i].staged
    BY <1>9
  <2>1. /\ tc[c] # None /\ tc[c].active /\ tc[c].seq = ISN + stream[c][i].start
        /\ h \in tc[c].patches /\ sent[c] <= stream[c][i].start
    BY <1>9 DEF Awaits
  <2>2. EntryAt(c, i)
    <3>1. PICK j \in 1 .. Len(stream[c]) : EntryAt(c, j)
      BY <1>0, <2>1 DEF EntryOK
    <3>2. j = i
      BY <1>0, <2>0, <2>1, <3>1, SeqTells
    <3> QED
      BY <3>1, <3>2
  <2>3. \A j \in 1 .. Len(stream[c]) :
          stream[c][j].start < hi => stream[c][j].start + HdrLen <= hi
    BY <1>0, <1>2, <1>3, <1>4, HeadersIn
  <2>4. CASE ~(stream[c][i].start < hi)
    <3>1. Targets(c, sent[c], hi) = {}
      <4>1. ~InWindow(c, sent[c], hi)
        BY <1>0, <1>2, <2>0, <2>2, <2>4, WindowIsRecord
      <4> QED
        BY <4>1 DEF Targets
    <3>2. tc' = tc
      BY <1>1, <3>1 DEF EgressTag, EgressPass, EgressPatch
    <3>3. hi <= stream[c][i].start
      <4>1. stream[c][i].start \in Nat
        BY <1>0, <2>0, RecordEnd
      <4> QED
        BY <1>2, <2>4, <4>1
    <3>4. Awaits(c, stream[c][i], h)'
      BY <1>3, <1>5, <2>1, <3>2, <3>3 DEF Awaits
    <3> QED
      BY <1>9, <3>4
  <2>5. CASE stream[c][i].start < hi
    <3>1. tagp[c] = None
      <4>1. DeferredOK(c)
        BY <1>0 DEF PeerInv, PeerOK
      <4> QED
        BY <1>0, <2>0, <2>1, <2>2, <4>1, NoTagBefore
    <3>2. FirstApp(c, sent[c], hi) # {}
      BY <1>0, <1>2, <2>0, <2>1, <2>2, <2>3, <2>5, FirstAppThere
    <3>3. InWindow(c, sent[c], hi)
      BY <1>0, <1>2, <2>0, <2>1, <2>2, <2>5, WindowIsRecord
    <3>4. Targets(c, sent[c], hi) # {}
      BY <2>1, <3>2, <3>3, TargetThere
    <3>5. ASSUME NEW tg \in Targets(c, sent[c], hi)
          PROVE  \E p \in Applied(c, tg, hi) :
                   p.secret = h.secret /\ p.pos = Text(c, stream[c][i]) + h.off
      BY <1>0, <1>2, <2>0, <2>1, <2>2, <2>3, <2>5, PatchThere
    <3>6. EgressPatch(c, hi)
      <4>1. ~EgressPass(c, hi)
        BY <3>4, <3>5 DEF EgressPass
      <4>2. ~EgressTag(c, hi)
        BY <3>1 DEF EgressTag
      <4> QED
        BY <1>1, <4>1, <4>2
    <3>7. PICK tg \in Targets(c, sent[c], hi) :
            \E gs \in {{Correction(c, tg, Applied(c, tg, hi))}, {}} :
              Deliver(c, hi, Applied(c, tg, hi), gs)
      BY <3>6 DEF EgressPatch
    <3>8. patched'[c] = patched[c] \cup Applied(c, tg, hi)
      BY <1>0, <1>2, <1>5, <3>7, DeliverShape
    <3>9. PICK p \in Applied(c, tg, hi) :
            p.secret = h.secret /\ p.pos = Text(c, stream[c][i]) + h.off
      BY <3>5
    <3>10. p \in patched'[c]
      BY <3>8, <3>9
    <3>11. Gone(c, stream[c][i], h)'
      BY <1>3, <3>9, <3>10 DEF Gone, Text
    <3> QED
      BY <1>9, <3>11
  <2> QED
    BY <2>4, <2>5
<1> QED
  BY <1>6, <1>7, <1>8, <1>9

----------------------------------------------------------------------------
(* The theorem on placeholders.                                            *)

\* No thread waits and no connection holds a segment at the start.
LEMMA ReplaceInit == Init => ReplaceInv
<1> SUFFICES ASSUME Init PROVE ReplaceInv
  OBVIOUS
<1>1. (\A c \in Conn : Len(stream[c]) = 0) /\ (\A t \in Thread : Len(thr[t].recs) = 0)
  BY DEF Init
<1>2. HeldOK /\ FoundOK /\ AnsweredOK /\ SplitOK /\ WaitOK
  BY <1>1 DEF HeldOK, FoundOK, AnsweredOK, SplitOK, WaitOK
<1> QED
  BY <1>2, RecordInit DEF ReplaceInv

\* Every step keeps the patch of a placeholder waiting for its record.
LEMMA ReplaceStep ==
  ASSUME Regular, LengthsTell, CutsBehind, ReplaceInv, NoWrap, [Next]_vars
  PROVE  ReplaceInv'
<1>0. /\ RecordInv /\ BridgeInv /\ StreamInv /\ ShapeInv /\ EntryInv
      /\ HeldOK /\ FoundOK /\ AnsweredOK /\ SplitOK /\ WaitOK
      /\ SocketBio /\ OneThread /\ ~HMayFail
  BY DEF ReplaceInv, RecordInv, BridgeInv, Regular
<1>1. StreamInv'
  BY <1>0, StreamStep
<1>2. ASSUME SplitOK' PROVE HeadersWhole' /\ RecordInv'
  <2>1. (StreamInv /\ SplitOK => HeadersWhole)'
    BY SplitHeaders, PTL
  <2>2. HeadersWhole'
    BY <1>1, <1>2, <2>1
  <2> QED
    BY <1>0, <2>2, RecordStep
<1>3. ASSUME UNCHANGED <<stream, sent>> PROVE SplitOK' /\ AnsweredOK'
  BY <1>0, <1>3 DEF SplitOK, AnsweredOK, End, WireLen, RecLen
<1>4. ASSUME UNCHANGED <<stream, sent, tc, patched, losses>>, known' \subseteq known
      PROVE  WaitOK'
  BY <1>0, <1>4 DEF WaitOK, Awaits, Gone, Text
<1>5. ASSUME NEW t \in Thread, NEW c \in Conn,
             Handshake(t, c) \/ \E pl \in Payload : SslWrite(t, c, pl)
      PROVE  ReplaceInv'
  <2>1. UNCHANGED <<known, stream, sent, tc, patched, losses>>
    BY <1>5 DEF Handshake, SslWrite, sendVars, peerVars
  <2>2. SplitOK' /\ AnsweredOK' /\ WaitOK'
    BY <1>3, <1>4, <2>1
  <2>3. HeldOK' /\ FoundOK'
    BY <1>0, <1>5, HeldCalls, FoundCalls
  <2> QED
    BY <1>2, <2>2, <2>3 DEF ReplaceInv
<1>6. ASSUME NEW t \in Thread, TcpSendmsg(t) PROVE ReplaceInv'
  <2>1. SplitOK' /\ AnsweredOK'
    BY <1>0, <1>6, SplitSends, AnsweredSends
  <2>2. HeldOK' /\ FoundOK' /\ WaitOK'
    BY <1>0, <1>6, HeldSends, FoundSends, WaitSends
  <2> QED
    BY <1>2, <2>1, <2>2 DEF ReplaceInv
<1>7. ASSUME NEW c \in Conn, Egress(c) PROVE ReplaceInv'
  <2>1. SplitOK'
    BY <1>0, <1>7, SplitEgress
  <2>2. /\ UNCHANGED <<known, thr, stream, xor>>
        /\ \A d \in Conn : sent'[d] \in Nat /\ sent[d] <= sent'[d]
    BY <1>0, <1>7, EgressShape
  <2>3. HeldOK' /\ FoundOK'
    BY <1>0, <2>2 DEF HeldOK, FoundOK, Found
  <2>4. AnsweredOK'
    <3> SUFFICES ASSUME NEW d \in Conn, Len(stream[d]) > 1
                 PROVE  End(d, stream[d][1]) <= sent'[d]
      BY <2>2 DEF AnsweredOK, End, WireLen, RecLen
    <3>1. 1 \in 1 .. Len(stream[d]) /\ sent[d] \in Nat
      BY <1>0 DEF StreamInv, TypeOK
    <3>2. End(d, stream[d][1]) <= sent[d] /\ End(d, stream[d][1]) \in Nat
      BY <1>0, <3>1, RecordEnd DEF AnsweredOK
    <3> QED
      BY <2>2, <3>1, <3>2
  <2>5. HeadersWhole' /\ RecordInv'
    BY <1>2, <2>1
  <2>6. WaitOK'
    BY <1>7, <2>5, WaitEgress
  <2> QED
    BY <2>1, <2>3, <2>4, <2>5, <2>6 DEF ReplaceInv
<1>8. ASSUME UNCHANGED <<thr, xor, stream, sent, tc, patched, losses>>, known' \subseteq known
      PROVE  ReplaceInv'
  <2>1. SplitOK' /\ AnsweredOK' /\ WaitOK'
    BY <1>3, <1>4, <1>8
  <2>2. HeldOK' /\ FoundOK'
    BY <1>0, <1>8 DEF HeldOK, FoundOK, Found
  <2> QED
    BY <1>2, <2>1, <2>2 DEF ReplaceInv
<1>9. ~Expire /\ ~ \E c \in Conn : Flush(c)
  BY <1>0 DEF Expire, Flush, BridgeInv, StagedOK, StreamInv, NoBuffer
<1>10. ASSUME NEW s \in Secret, Revoke(s) PROVE ReplaceInv'
  <2>1. UNCHANGED <<thr, xor, stream, sent, tc, patched, losses>> /\ known' \subseteq known
    BY <1>10 DEF Revoke, sendVars, peerVars
  <2> QED
    BY <1>8, <2>1
<1>11. CASE UNCHANGED vars
  BY <1>8, <1>11 DEF vars, appVars, sendVars, peerVars
<1>12. ~ \E c \in Conn : Evict(c)
  BY DEF Evict, Regular
<1> QED
  BY <1>5, <1>6, <1>7, <1>9, <1>10, <1>11, <1>12 DEF Next

\* What the invariant says of the placeholders the peer received.
LEMMA ReplaceInvReplaced == ReplaceInv => Replaced
<1> SUFFICES ASSUME ReplaceInv, losses = 0, NEW c \in Conn, NEW r \in Received(c),
                    NEW g \in r.holds, g.nth < MaxMatches, g.secret \in known \cap Bound,
                    c \in Allowed[g.secret]
             PROVE  \E p \in PatchesOn(c, r) :
                      p.secret = g.secret /\ p.pos = Text(c, r) + g.off - r.off
  BY DEF Replaced
<1>0. StreamInv /\ ShapeInv /\ HeldOK /\ FoundOK /\ WaitOK /\ sent[c] \in Nat
  BY DEF ReplaceInv, RecordInv, BridgeInv, StreamInv, TypeOK
<1>1. PICK i \in 1 .. Len(stream[c]) : r = stream[c][i] /\ End(c, r) <= sent[c]
  BY DEF Received
<1> DEFINE h == [off |-> g.off, secret |-> g.secret]
<1>10. /\ h \in r.staged /\ h.off = g.off /\ h.secret = g.secret
       /\ h.secret \in known /\ c \in Allowed[h.secret]
  BY <1>0, <1>1 DEF FoundOK, Found
<1> HIDE DEF h
<1>2. r.start \in Nat /\ End(c, r) \in Nat /\ r.start < End(c, r)
  BY <1>0, <1>1, RecordEnd
<1>3. PICK p \in patched[c] : p.secret = h.secret /\ p.pos = Text(c, r) + h.off
  <2>1. ~Awaits(c, r, h)
    BY <1>0, <1>1, <1>2 DEF Awaits
  <2>2. Gone(c, r, h)
    BY <1>0, <1>1, <1>10, <2>1 DEF WaitOK
  <2> QED
    BY <2>2 DEF Gone
<1>4. r.off = 0 /\ r.id # 0 /\ h.off < r.len
  BY <1>0, <1>1, <1>10 DEF HeldOK
<1>5. r.kind = "app"
  <2>1. NthOK(c, i, r)
    BY <1>0, <1>1 DEF ShapeInv, SentOK
  <2> QED
    BY <1>4, <2>1 DEF NthOK
<1>6. h.off \in Nat
  <2>1. r \in Placed
    BY <1>0, <1>1, StreamRecord DEF StreamInv
  <2> QED
    BY <1>10, <2>1 DEF Placed, Patch
<1>7. /\ Text(c, r) + h.off \in Nat /\ r.start <= Text(c, r) + h.off
      /\ Text(c, r) + h.off < End(c, r)
  BY <1>0, <1>1, <1>4, <1>5, <1>6, InText
<1>8. p \in PatchesOn(c, r)
  BY <1>3, <1>7 DEF PatchesOn
<1>9. p.pos = Text(c, r) + h.off - r.off
  <2>1. h.off - r.off = h.off
    BY <1>4, <1>6
  <2> QED
    BY <1>3, <2>1
<1> QED
  BY <1>3, <1>8, <1>9, <1>10

\* None of the first XOR_MAX_MATCHES placeholders of a write reaches the peer, if
\* its secret is bound to the pod and may leave on the connection: however many
\* connections, writes and records there are, the patches staged in xor_pending
\* are bridged to tc_pending before anything replaces them, and tc_egress_patch
\* meets the very record they are for. Nothing is said of later placeholders,
\* which prescan_chunk does not look at. TCP may cut a record behind its staged
\* placeholders, and loses no segment.
THEOREM PlaceholdersReplaced ==
  ASSUME Regular, LengthsTell, CutsBehind
  PROVE  Spec /\ []NoWrap => []Replaced
<1>1. ReplaceInv /\ NoWrap /\ [Next]_vars => ReplaceInv'
  BY ReplaceStep
<1> QED
  BY <1>1, ReplaceInit, ReplaceInvReplaced, PTL DEF Spec

\* When TCP cuts records only behind their placeholders, no header is cut in
\* two, and the records the peer receives are valid without that condition.
THEOREM RecordsValidBehind ==
  ASSUME Regular, LengthsTell, CutsBehind
  PROVE  Spec /\ []NoWrap => []RecordsValid
<1>1. ReplaceInv /\ NoWrap /\ [Next]_vars => ReplaceInv'
  BY ReplaceStep
<1>2. ReplaceInv => RecordsValid
  BY RecordInvValid DEF ReplaceInv
<1> QED
  BY <1>1, <1>2, ReplaceInit, PTL DEF Spec
=============================================================================
