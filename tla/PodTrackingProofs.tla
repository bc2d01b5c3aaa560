------------------------- MODULE PodTrackingProofs -------------------------
(***************************************************************************)
(* Proofs about PodTracking, for any pods, containers, inodes and number   *)
(* of failed attaches: a pod has one patch program, tcAttached tells the   *)
(* truth about it, nothing of a pod that ended stays behind, and a running *)
(* container is never untracked.                                           *)
(*                                                                         *)
(* The last two rest on where a container can be found: whatever records   *)
(* it is undone by the reconciler (attach, exited), by the reconcile under *)
(* way (rec.gone) or by its own goroutine (prep).  The first two rest on   *)
(* who may touch the entry of a live pod's inode: until an inode outlives  *)
(* its netns in a record (unpinned), only the pod's own containers do.     *)
(***************************************************************************)
EXTENDS PodTracking, TLAPS

----------------------------------------------------------------------------
(* The inductive invariant.                                                *)

\* Live pods have netns of their own; containers live in live pods; a status
\* lists no container before it started.
NodeOK ==
  /\ \A p \in Pod : /\ pod[p] = "new" => progs[p] = 0
                    /\ pod[p] # "new" => ino[p] \in Inode
  /\ \A p, q \in Pod : pod[p] = "live" /\ pod[q] = "live" /\ ino[p] = ino[q] => p = q
  /\ \A g \in Cgroup :
       /\ ctr[g] # "none" => pod[PodOf[g]] # "new"
       /\ Alive(g) => pod[PodOf[g]] = "live"
       /\ g \in listed => ctr[g] \in {"script", "running", "exited"}

\* A reconcile works on one tracked pod, which is queued again if it ends
\* meanwhile; the containers it gave up are those that exited.
RecOK ==
  /\ rec.pc # "bind" => rec.gone = {}
  /\ rec.pc # "idle" => /\ rec.pod \in Pod /\ rec.pod \in tracked
                        /\ pod[rec.pod] = "live" \/ rec.pod \in queued
                        /\ rec.ids \cup rec.gone \cup rec.todo \subseteq CgroupsOf(rec.pod)
                        /\ \A g \in rec.gone : ctr[g] = "exited"
                        /\ \A g \in rec.todo : attach[g] # "none"
  /\ att[Rec].pc # "idle" => rec.pc = "attach" /\ att[Rec].cg \in rec.todo

\* An attach is about a container; a goroutine's is about its own.
ThreadOK ==
  /\ \A t \in Thread : /\ att[t].pc # "idle" => att[t].cg \in Cgroup
                       /\ att[t].pc \in {"tc", "fd"} => ctr[att[t].cg] # "none"
  /\ \A g \in Cgroup : att[Nri(g)].pc # "idle" => att[Nri(g)].cg = g /\ prep[g] = "bound"

\* A container that PrepareContainer claimed waits for it; while its pod
\* lives it is tracked, or recorded as exited.
PrepOK ==
  \A g \in Cgroup :
    /\ prep[g] = "claimed" => ctr[g] = "created"
    /\ prep[g] # "idle" => ctr[g] # "none"
    /\ prep[g] \in {"claimed", "bound"} =>
         /\ Alive(g) => attach[g] # "none"
         /\ pod[PodOf[g]] = "live" => attach[g] # "none" \/ g \in exited

\* Whatever is kept for a container has someone who will release it, and a
\* container that is tracked and lives is listed or about to be.
TrackOK ==
  /\ \A p \in Pod : /\ p \notin tracked => p \notin boundPod \cup dns
                    /\ pod[p] = "over" /\ p \notin queued => p \notin tracked
  /\ \A g \in Cgroup :
       /\ PodOf[g] \notin tracked => attach[g] = "none" /\ g \notin exited \cup started \cup bound
       /\ netnsOf[g] # None => attach[g] # "none" \/ g \in exited
       /\ g \in paths \cup links => attach[g] # "none" \/ prep[g] = "bound" \/ g \in rec.gone
       /\ attach[g] # "none" => ctr[g] # "none"
       /\ attach[g] # "none" /\ Alive(g) => g \in listed \cup started

\* Only its own containers record the inode of a pod; an attach under way has
\* the reservation while the pod lives; no other pod has an inode of which an
\* attach has a descriptor; the entry has one when the program is attached.
TcOK ==
  /\ \A p \in Pod \ unpinned : \A g \in Cgroup :
       pod[p] = "live" /\ netnsOf[g] = ino[p] => PodOf[g] = p
  /\ \A t \in Thread : LET g == att[t].cg IN
       /\ att[t].pc \in {"tc", "fd"} /\ pod[PodOf[g]] = "live" /\ PodOf[g] \notin unpinned =>
            tc[ino[PodOf[g]]] = [by |-> t, fd |-> FALSE]
       /\ att[t].pc = "fd" =>
            \A q \in Pod : pod[q] = "live" /\ ino[q] = ino[PodOf[g]] => q = PodOf[g]
  /\ \A p \in Pod \ unpinned : pod[p] = "live" =>
       progs[p] = IF tc[ino[p]] # None /\ tc[ino[p]].fd THEN 1 ELSE 0

TrackInv == TypeOK /\ NodeOK /\ RecOK /\ ThreadOK /\ PrepOK /\ TrackOK /\ TcOK

----------------------------------------------------------------------------
(* Threads, pods and their containers.                                     *)

\* The threads that attach are different ones.
LEMMA Threads ==
  /\ Rec \in Thread /\ Poll \in Thread
  /\ \A g \in Cgroup : Retry(g) \in Thread /\ Nri(g) \in Thread
  /\ \A g : Nri(g) # Rec /\ Nri(g) # Poll /\ Retry(g) # Rec
  /\ \A g, h : Retry(g) # Nri(h) /\ (Nri(g) = Nri(h) => g = h)
  /\ Poll # Rec
BY DEF Rec, Poll, Retry, Nri, Thread

\* A container belongs to one pod, and is among its containers.
LEMMA PodOfFacts ==
  \A g \in Cgroup : PodOf[g] \in Pod /\ \A p : g \in CgroupsOf(p) <=> PodOf[g] = p
BY TcAttachAssumption DEF CgroupsOf

\* No other live pod has an inode of which an attach has a descriptor.
LEMMA OpenInode ==
  ASSUME TrackInv, NEW t \in Thread, att[t].pc = "fd", NEW q \in Pod, pod[q] = "live",
         ino[q] = ino[PodOf[att[t].cg]]
  PROVE  q = PodOf[att[t].cg]
BY DEF TrackInv, TcOK

\* Nothing is tracked at first.
LEMMA TrackInit == Init => TrackInv
<1> SUFFICES ASSUME Init PROVE TrackInv
  OBVIOUS
<1>1. /\ ctr = [g \in Cgroup |-> "none"] /\ ino = [p \in Pod |-> None] /\ progs = [p \in Pod |-> 0]
      /\ paths = {} /\ links = {} /\ netnsOf = [g \in Cgroup |-> None]
      /\ tc = [i \in Inode |-> None] /\ att = [t \in Thread |-> NoAttach] /\ fails = 0
  BY DEF Init, AttachInit
<1>2. /\ pod = [p \in Pod |-> "new"] /\ listed = {} /\ queued = {} /\ rec = NoRec
      /\ tracked = {} /\ exited = {} /\ started = {}
      /\ attach = [g \in Cgroup |-> "none"] /\ prep = [g \in Cgroup |-> "idle"]
      /\ execs = {} /\ retries = {} /\ bound = {} /\ boundPod = {} /\ dns = {} /\ unpinned = {}
  BY DEF Init
<1>3. \A t \in Thread : att[t].pc = "idle"
  BY <1>1 DEF NoAttach
<1>4. TypeOK
  <2>1. att \in [Thread -> [pc : {"idle", "tc", "fd", "back"}, cg : Cgroup \cup {None}, ok : BOOLEAN]]
    BY <1>1 DEF NoAttach
  <2>2. fails \in 0 .. MaxFails /\ progs \in [Pod -> Nat]
    BY <1>1, TcAttachAssumption
  <2>3. AttachTypeOK
    BY <1>1, <2>1, <2>2 DEF AttachTypeOK
  <2>4. rec \in [pc : {"idle", "bind", "attach"}, pod : Pod \cup {None}, ids : SUBSET Cgroup,
                 gone : SUBSET Cgroup, todo : SUBSET Cgroup, dns : BOOLEAN]
    BY <1>2 DEF NoRec
  <2>5. QED
    BY <1>2, <2>3, <2>4 DEF TypeOK
<1>5. NodeOK
  BY <1>1, <1>2, PodOfFacts DEF NodeOK, Alive
<1>6. RecOK
  BY <1>2, <1>3, Threads DEF RecOK, NoRec
<1>7. ThreadOK
  BY <1>3, Threads DEF ThreadOK
<1>8. PrepOK /\ TrackOK
  BY <1>1, <1>2 DEF PrepOK, TrackOK
<1>9. TcOK
  BY <1>2, <1>3 DEF TcOK
<1>10. QED
  BY <1>4, <1>5, <1>6, <1>7, <1>8, <1>9 DEF TrackInv

----------------------------------------------------------------------------
(* The node.                                                               *)

\* A pod is created on an inode no live pod has.
LEMMA CreatePodStep ==
  ASSUME TrackInv, NEW p \in Pod, CreatePod(p)
  PROVE  TrackInv'
<1>1. PICK i \in Inode :
        /\ Free(i, {q \in Pod : pod[q] = "live" \/ q \in dns})
        /\ ino' = [ino EXCEPT ![p] = i]
        /\ unpinned' = IF \E g \in Cgroup : netnsOf[g] = i THEN unpinned \cup {p} ELSE unpinned
  BY DEF CreatePod
<1>2. /\ pod[p] = "new" /\ pod' = [pod EXCEPT ![p] = "live"] /\ queued' = queued \cup {p}
      /\ UNCHANGED <<listed, ctr, rec, tracked, attach, exited, started, prep, execs, retries, bound,
                     boundPod, dns, progs, paths, links, netnsOf, tc, att, fails>>
  BY DEF CreatePod, tracking, events, bindings, manager
<1>3. /\ \A q \in Pod : pod[q] = "live" => ino[q] # i
      /\ tc[i] # None => ~tc[i].fd
      /\ \A t \in Thread : att[t].pc = "fd" => ino[PodOf[att[t].cg]] # i
  BY <1>1 DEF Free
<1>4. /\ pod'[p] = "live" /\ \A q \in Pod : q # p => pod'[q] = pod[q]
      /\ ino'[p] = i /\ \A q \in Pod : q # p => ino'[q] = ino[q]
      /\ unpinned \subseteq unpinned' /\ unpinned' \subseteq unpinned \cup {p}
      /\ p \notin unpinned' => \A g \in Cgroup : netnsOf[g] # i
  BY <1>1, <1>2 DEF TrackInv, TypeOK, AttachTypeOK
<1>5. \A g \in Cgroup : Alive(g)' = Alive(g) /\ (ctr[g] # "none" => PodOf[g] # p)
  BY <1>2 DEF TrackInv, NodeOK, Alive
<1>6. TypeOK'
  BY <1>1, <1>2 DEF TrackInv, TypeOK, AttachTypeOK
<1>7. NodeOK'
  BY <1>2, <1>3, <1>4, <1>5, PodOfFacts DEF TrackInv, NodeOK
<1>8. RecOK' /\ ThreadOK'
  BY <1>2, <1>4 DEF TrackInv, RecOK, ThreadOK, TypeOK
<1>9. PrepOK'
  BY <1>2, <1>4, <1>5, PodOfFacts DEF TrackInv, PrepOK
<1>10. TrackOK'
  BY <1>2, <1>4, <1>5 DEF TrackInv, TrackOK
<1>11. TcOK'
  <2>1. ASSUME NEW q \in Pod, q \notin unpinned', NEW g \in Cgroup, pod'[q] = "live", netnsOf'[g] = ino'[q]
        PROVE  PodOf[g] = q
    BY <1>2, <1>4, <2>1 DEF TrackInv, TcOK
  <2>2. \A t \in Thread : att[t].pc \in {"tc", "fd"} =>
          att[t].cg \in Cgroup /\ PodOf[att[t].cg] \in Pod \ {p}
    BY <1>5, PodOfFacts DEF TrackInv, ThreadOK
  <2>3. ASSUME NEW t \in Thread, att[t].pc \in {"tc", "fd"}, pod'[PodOf[att[t].cg]] = "live",
               PodOf[att[t].cg] \notin unpinned'
        PROVE  tc'[ino'[PodOf[att[t].cg]]] = [by |-> t, fd |-> FALSE]
    BY <1>2, <1>4, <2>2, <2>3 DEF TrackInv, TcOK
  <2>4. ASSUME NEW t \in Thread, att[t].pc = "fd", NEW q \in Pod, pod'[q] = "live",
               ino'[q] = ino'[PodOf[att[t].cg]]
        PROVE  q = PodOf[att[t].cg]
    <3>1. PodOf[att[t].cg] # p /\ ino'[PodOf[att[t].cg]] = ino[PodOf[att[t].cg]]
      BY <1>4, <2>2, <2>4
    <3>2. ino'[q] # i
      BY <1>3, <2>4, <3>1
    <3>3. q # p /\ pod[q] = "live" /\ ino[q] = ino[PodOf[att[t].cg]]
      BY <1>4, <2>4, <3>1, <3>2
    <3>4. QED
      BY <2>4, <3>3, OpenInode
  <2>5. ASSUME NEW q \in Pod, q \notin unpinned', pod'[q] = "live"
        PROVE  progs'[q] = IF tc'[ino'[q]] # None /\ tc'[ino'[q]].fd THEN 1 ELSE 0
    <3>1. CASE q = p
      BY <1>2, <1>3, <1>4, <3>1 DEF TrackInv, NodeOK
    <3>2. CASE q # p
      BY <1>2, <1>4, <2>5, <3>2 DEF TrackInv, TcOK
    <3>3. QED
      BY <3>1, <3>2
  <2>6. QED
    BY <1>2, <2>1, <2>3, <2>4, <2>5 DEF TcOK
<1>12. QED
  BY <1>6, <1>7, <1>8, <1>9, <1>10, <1>11 DEF TrackInv

\* What happens to containers, and a pod that ends, do not disturb the entries
\* of tcAttached.
LEMMA TcKept ==
  ASSUME TrackInv, UNCHANGED <<ino, unpinned, progs, netnsOf, tc, att>>,
         \A p \in Pod : pod'[p] = "live" => pod[p] = "live"
  PROVE  TcOK'
<1>1. \A t \in Thread : att[t].pc \in {"tc", "fd"} => PodOf[att[t].cg] \in Pod
  BY PodOfFacts DEF TrackInv, ThreadOK
<1>2. QED
  BY <1>1 DEF TrackInv, TcOK

\* The runtime creates a container of a live pod.
LEMMA CreateContainerStep ==
  ASSUME TrackInv, NEW h \in Cgroup, CreateContainer(h)
  PROVE  TrackInv'
<1>1. /\ pod[PodOf[h]] = "live" /\ ctr[h] = "none" /\ ctr' = [ctr EXCEPT ![h] = "created"]
      /\ UNCHANGED <<unpinned, pod, listed, ino, queued, rec, tracked, attach, exited, started, prep,
                     execs, retries, bound, boundPod, dns, progs, paths, links, netnsOf, tc, att, fails>>
  BY DEF CreateContainer, tracking, events, bindings, manager
<1>2. ctr'[h] = "created" /\ \A g \in Cgroup : g # h => ctr'[g] = ctr[g]
  BY <1>1 DEF TrackInv, TypeOK, AttachTypeOK
<1>3. TypeOK'
  BY <1>1 DEF TrackInv, TypeOK, AttachTypeOK
<1>4. NodeOK'
  BY <1>1, <1>2 DEF TrackInv, NodeOK, Alive
<1>5. RecOK'
  BY <1>1, <1>2 DEF TrackInv, RecOK, TypeOK
<1>6. ThreadOK'
  BY <1>1, <1>2 DEF TrackInv, ThreadOK
<1>7. PrepOK' /\ TrackOK'
  BY <1>1, <1>2 DEF TrackInv, PrepOK, TrackOK, Alive
<1>8. TcOK'
  BY <1>1, <1>2, TcKept DEF Alive
<1>9. QED
  BY <1>3, <1>4, <1>5, <1>6, <1>7, <1>8 DEF TrackInv

\* A container starts, or its script runs the program.
LEMMA StartContainerStep ==
  ASSUME TrackInv, NEW h \in Cgroup, StartContainer(h)
  PROVE  TrackInv'
<1>1. /\ (ctr[h] = "created" /\ prep[h] # "claimed") \/ ctr[h] = "script"
      /\ ctr' = [ctr EXCEPT ![h] = IF @ = "script" \/ h \in LibTls THEN "running" ELSE "script"]
      /\ execs' = execs \cup {h}
      /\ UNCHANGED <<unpinned, pod, listed, ino, queued, rec, tracked, attach, exited, started, prep,
                     retries, bound, boundPod, dns, progs, paths, links, netnsOf, tc, att, fails>>
  BY DEF StartContainer, tracking, bindings, manager
<1>2. ctr'[h] \in {"script", "running"} /\ \A g \in Cgroup : g # h => ctr'[g] = ctr[g]
  BY <1>1 DEF TrackInv, TypeOK, AttachTypeOK
<1>3. Alive(h) /\ \A g \in Cgroup : Alive(g)' = Alive(g)
  BY <1>1, <1>2 DEF Alive
<1>4. TypeOK'
  BY <1>1 DEF TrackInv, TypeOK, AttachTypeOK
<1>5. NodeOK'
  BY <1>1, <1>2, <1>3 DEF TrackInv, NodeOK
<1>6. RecOK'
  BY <1>1, <1>2 DEF TrackInv, RecOK, TypeOK
<1>7. ThreadOK'
  BY <1>1, <1>2 DEF TrackInv, ThreadOK
<1>8. PrepOK'
  BY <1>1, <1>2, <1>3 DEF TrackInv, PrepOK
<1>9. TrackOK'
  BY <1>1, <1>2, <1>3 DEF TrackInv, TrackOK
<1>10. TcOK'
  BY <1>1, <1>3, TcKept
<1>11. QED
  BY <1>4, <1>5, <1>6, <1>7, <1>8, <1>9, <1>10 DEF TrackInv

\* A container exits.
LEMMA ExitContainerStep ==
  ASSUME TrackInv, NEW h \in Cgroup, ExitContainer(h)
  PROVE  TrackInv'
<1>1. /\ ctr[h] \in {"script", "running"} /\ ctr' = [ctr EXCEPT ![h] = "exited"]
      /\ UNCHANGED <<unpinned, pod, listed, ino, queued, rec, tracked, attach, exited, started, prep,
                     execs, retries, bound, boundPod, dns, progs, paths, links, netnsOf, tc, att, fails>>
  BY DEF ExitContainer, tracking, events, bindings, manager
<1>2. ctr'[h] = "exited" /\ \A g \in Cgroup : g # h => ctr'[g] = ctr[g]
  BY <1>1 DEF TrackInv, TypeOK, AttachTypeOK
<1>3. \A g \in Cgroup : Alive(g)' => Alive(g)
  BY <1>2 DEF Alive
<1>4. TypeOK'
  BY <1>1 DEF TrackInv, TypeOK, AttachTypeOK
<1>5. NodeOK'
  BY <1>1, <1>2, <1>3 DEF TrackInv, NodeOK
<1>6. RecOK'
  BY <1>1, <1>2 DEF TrackInv, RecOK, TypeOK
<1>7. ThreadOK'
  BY <1>1, <1>2 DEF TrackInv, ThreadOK
<1>8. PrepOK'
  BY <1>1, <1>2, <1>3 DEF TrackInv, PrepOK
<1>9. TrackOK'
  BY <1>1, <1>2, <1>3 DEF TrackInv, TrackOK
<1>10. TcOK'
  BY <1>1, <1>3, TcKept
<1>11. QED
  BY <1>4, <1>5, <1>6, <1>7, <1>8, <1>9, <1>10 DEF TrackInv

\* A status that leaves a living container out leaves out one that has not
\* started.
LEMMA UpdateStatusStep ==
  ASSUME TrackInv, NEW p \in Pod, UpdateStatus(p)
  PROVE  TrackInv'
<1>1. /\ pod[p] = "live" /\ listed' = (listed \ CgroupsOf(p)) \cup Running(p)
      /\ queued' = queued \cup {p}
      /\ UNCHANGED <<unpinned, pod, ctr, ino, rec, tracked, attach, exited, started, prep,
                     execs, retries, bound, boundPod, dns, progs, paths, links, netnsOf, tc, att, fails>>
  BY DEF UpdateStatus, tracking, events, bindings, manager
<1>2. /\ Running(p) \subseteq Cgroup
      /\ \A g \in listed' : g \in listed \/ ctr[g] \in {"script", "running"}
      /\ \A g \in Cgroup : g \in listed /\ Alive(g) => g \in listed'
  BY <1>1 DEF TrackInv, NodeOK, Running, Alive, CgroupsOf
<1>3. \A g \in Cgroup : Alive(g)' = Alive(g)
  BY <1>1 DEF Alive
<1>4. TypeOK'
  BY <1>1, <1>2 DEF TrackInv, TypeOK, AttachTypeOK
<1>5. NodeOK'
  BY <1>1, <1>2, <1>3 DEF TrackInv, NodeOK
<1>6. RecOK' /\ ThreadOK' /\ PrepOK'
  BY <1>1, <1>3 DEF TrackInv, RecOK, ThreadOK, PrepOK
<1>7. TrackOK'
  BY <1>1, <1>2, <1>3 DEF TrackInv, TrackOK
<1>8. TcOK'
  BY <1>1, <1>3, TcKept
<1>9. QED
  BY <1>4, <1>5, <1>6, <1>7, <1>8 DEF TrackInv

\* A pod ends with its containers and is queued for handleDelete.
LEMMA EndPodStep ==
  ASSUME TrackInv, NEW p \in Pod, EndPod(p)
  PROVE  TrackInv'
<1>1. /\ pod[p] = "live" /\ \A g \in CgroupsOf(p) : ~Alive(g)
      /\ pod' = [pod EXCEPT ![p] = "over"]
      /\ listed' = listed \ CgroupsOf(p) /\ queued' = queued \cup {p}
      /\ UNCHANGED <<unpinned, ctr, ino, rec, tracked, attach, exited, started, prep,
                     execs, retries, bound, boundPod, dns, progs, paths, links, netnsOf, tc, att, fails>>
  BY DEF EndPod, tracking, events, bindings, manager
<1>2. /\ pod'[p] = "over" /\ \A q \in Pod : q # p => pod'[q] = pod[q]
      /\ \A g \in Cgroup : Alive(g)' = Alive(g) /\ (Alive(g) => PodOf[g] # p)
      /\ \A g \in Cgroup : g \in listed /\ Alive(g) => g \in listed'
  BY <1>1 DEF TrackInv, TypeOK, Alive, CgroupsOf
<1>3. TypeOK'
  BY <1>1 DEF TrackInv, TypeOK, AttachTypeOK
<1>4. NodeOK'
  BY <1>1, <1>2, PodOfFacts DEF TrackInv, NodeOK
<1>5. RecOK' /\ ThreadOK'
  BY <1>1, <1>2 DEF TrackInv, RecOK, ThreadOK
<1>6. PrepOK'
  BY <1>1, <1>2, PodOfFacts DEF TrackInv, PrepOK
<1>7. TrackOK'
  BY <1>1, <1>2 DEF TrackInv, TrackOK
<1>8. TcOK'
  BY <1>1, <1>2, TcKept
<1>9. QED
  BY <1>3, <1>4, <1>5, <1>6, <1>7, <1>8 DEF TrackInv

----------------------------------------------------------------------------
(* The reconciler.                                                         *)

\* Records of inodes come from living containers and go when they are
\* released; as long as the entries of live pods stay, TcOK does.
LEMMA TcSame ==
  ASSUME TrackInv, UNCHANGED <<pod, ctr, ino, unpinned, progs>>,
         \A t \in Thread : att'[t].pc \in {"tc", "fd"} => att'[t] = att[t],
         \A g \in Cgroup : \/ netnsOf'[g] \in {netnsOf[g], None}
                           \/ Alive(g) /\ netnsOf'[g] = ino[PodOf[g]],
         \A q \in Pod \ unpinned : pod[q] = "live" => tc'[ino[q]] = tc[ino[q]]
  PROVE  TcOK'
<1>1. ASSUME NEW q \in Pod \ unpinned, NEW g \in Cgroup, pod[q] = "live", netnsOf'[g] = ino[q]
      PROVE  PodOf[g] = q
  <2>1. ino[q] # None
    <3>1. ino[q] \in Inode
      BY <1>1 DEF TrackInv, NodeOK
    <3>2. QED
      BY <3>1, TcAttachAssumption
  <2>2. CASE netnsOf'[g] = netnsOf[g]
    <3>1. \A a \in Pod \ unpinned : \A b \in Cgroup :
            pod[a] = "live" /\ netnsOf[b] = ino[a] => PodOf[b] = a
      BY DEF TrackInv, TcOK
    <3>2. netnsOf[g] = ino[q]
      BY <1>1, <2>2
    <3>3. QED
      BY <1>1, <3>1, <3>2
  <2>3. CASE Alive(g) /\ netnsOf'[g] = ino[PodOf[g]]
    <3>1. PodOf[g] \in Pod /\ pod[PodOf[g]] = "live" /\ ino[PodOf[g]] = ino[q]
      BY <1>1, <2>3, PodOfFacts DEF TrackInv, NodeOK
    <3>2. \A a, b \in Pod : pod[a] = "live" /\ pod[b] = "live" /\ ino[a] = ino[b] => a = b
      BY DEF TrackInv, NodeOK
    <3>3. QED
      BY <1>1, <3>1, <3>2
  <2>4. QED
    BY <1>1, <2>1, <2>2, <2>3
<1>2. ASSUME NEW t \in Thread, att[t].pc \in {"tc", "fd"}, pod[PodOf[att[t].cg]] = "live",
             PodOf[att[t].cg] \notin unpinned
      PROVE  tc'[ino[PodOf[att[t].cg]]] = [by |-> t, fd |-> FALSE]
  <2>1. PodOf[att[t].cg] \in Pod
    BY <1>2, PodOfFacts DEF TrackInv, ThreadOK
  <2>2. tc[ino[PodOf[att[t].cg]]] = [by |-> t, fd |-> FALSE]
    BY <1>2 DEF TrackInv, TcOK
  <2>3. QED
    BY <1>2, <2>1, <2>2
<1>3. ASSUME NEW q \in Pod \ unpinned, pod[q] = "live"
      PROVE  progs[q] = IF tc'[ino[q]] # None /\ tc'[ino[q]].fd THEN 1 ELSE 0
  BY <1>3 DEF TrackInv, TcOK
<1>4. \A t \in Thread : att[t].pc = "fd" =>
        \A q \in Pod : pod[q] = "live" /\ ino[q] = ino[PodOf[att[t].cg]] => q = PodOf[att[t].cg]
  BY DEF TrackInv, TcOK
<1>5. QED
  BY <1>1, <1>2, <1>3, <1>4 DEF TcOK

\* Releasing what other pods' containers recorded leaves a live pod its entry.
LEMMA ReleaseKeeps ==
  ASSUME TrackInv, NEW ns, NEW G \in SUBSET Cgroup, NEW q \in Pod \ unpinned, pod[q] = "live",
         \A g \in G : ns[g] # ino[q]
  PROVE  TcReleased(ns, G)[ino[q]] = tc[ino[q]]
<1>1. ino[q] \in Inode
  BY DEF TrackInv, NodeOK
<1>2. QED
  BY <1>1 DEF TcReleased

\* A release leaves the netns records and tcAttached well formed.
LEMMA ReleaseTypes ==
  ASSUME TypeOK, NEW ns \in [Cgroup -> Inode \cup {None}], NEW G \in SUBSET Cgroup
  PROVE  /\ NetnsReleased(ns, G) \in [Cgroup -> Inode \cup {None}]
         /\ TcReleased(ns, G) \in [Inode -> TcEntry \cup {None}]
BY DEF TypeOK, AttachTypeOK, NetnsReleased, TcReleased

\* handleDelete releases everything of a pod that ended.
LEMMA ReconcileGoneStep ==
  ASSUME TrackInv, NEW p \in Pod, ReconcileGone(p)
  PROVE  TrackInv'
<1>1. /\ rec.pc = "idle" /\ p \in queued /\ pod[p] = "over" /\ queued' = queued \ {p}
      /\ UNCHANGED <<pod, listed, ctr, ino, unpinned, rec, prep, execs, retries, progs, att, fails>>
  BY DEF ReconcileGone, world, events
<1>2. \A g \in Cgroup : Alive(g)' = Alive(g) /\ (Alive(g) => PodOf[g] # p)
  BY <1>1 DEF TrackInv, NodeOK, Alive
<1>3. ThreadOK' /\ rec.gone = {}
  BY <1>1 DEF TrackInv, ThreadOK, RecOK
<1>4. CASE p \notin tracked
  <2>1. UNCHANGED <<paths, links, netnsOf, tc, bound, boundPod, dns, tracked, attach, exited, started>>
    BY <1>4 DEF ReconcileGone, manager, bindings, tracking
  <2>2. TypeOK' /\ NodeOK' /\ RecOK' /\ PrepOK' /\ TrackOK'
    BY <1>1, <1>2, <1>4, <2>1 DEF TrackInv, TypeOK, AttachTypeOK, NodeOK, RecOK, PrepOK, TrackOK
  <2>3. TcOK'
    BY <1>1, <1>2, <2>1, TcKept
  <2>4. QED
    BY <1>3, <2>2, <2>3 DEF TrackInv
<1>5. CASE p \in tracked
  <2> DEFINE mine == {g \in CgroupsOf(p) : attach[g] # "none"}
             all == mine \cup (exited \cap CgroupsOf(p))
  <2>1. /\ paths' = paths \ mine /\ links' = links \ mine
        /\ netnsOf' = NetnsReleased(netnsOf, all) /\ tc' = TcReleased(netnsOf, all)
        /\ bound' = bound \ CgroupsOf(p) /\ boundPod' = boundPod \ {p} /\ dns' = dns \ {p}
        /\ tracked' = tracked \ {p}
        /\ attach' = [g \in Cgroup |-> IF PodOf[g] = p THEN "none" ELSE attach[g]]
        /\ exited' = exited \ CgroupsOf(p) /\ started' = started \ CgroupsOf(p)
    BY <1>5 DEF ReconcileGone, UntrackExited
  <2>2. /\ mine \subseteq Cgroup /\ all \subseteq Cgroup
        /\ \A g \in Cgroup : /\ g \in mine <=> PodOf[g] = p /\ attach[g] # "none"
                             /\ g \in all <=> PodOf[g] = p /\ (attach[g] # "none" \/ g \in exited)
    BY PodOfFacts DEF CgroupsOf
  <2> HIDE DEF mine, all
  <2>3. TypeOK'
    BY <1>1, <2>1, <2>2, ReleaseTypes DEF TrackInv, TypeOK, AttachTypeOK
  <2>4. NodeOK' /\ RecOK'
    BY <1>1, <1>2, <2>1 DEF TrackInv, NodeOK, RecOK
  <2>5. /\ \A g \in Cgroup : /\ PodOf[g] = p => attach'[g] = "none" /\ g \notin exited' \cup started' \cup bound'
                             /\ PodOf[g] # p => /\ attach'[g] = attach[g]
                                                /\ g \in exited' <=> g \in exited
                                                /\ g \in started' <=> g \in started
                                                /\ g \in bound' <=> g \in bound
        /\ \A g \in Cgroup : netnsOf'[g] = IF g \in all THEN None ELSE netnsOf[g]
    BY <2>1, PodOfFacts DEF NetnsReleased
  <2>6. PrepOK'
    BY <1>1, <1>2, <2>5 DEF TrackInv, PrepOK
  <2>7. TrackOK'
    <3>1. \A g \in Cgroup : netnsOf'[g] # None => attach'[g] # "none" \/ g \in exited'
      BY <2>2, <2>5 DEF TrackInv, TrackOK
    <3>2. \A g \in Cgroup : g \in paths' \cup links' => attach'[g] # "none" \/ prep[g] = "bound"
      BY <1>3, <2>1, <2>2, <2>5 DEF TrackInv, TrackOK
    <3>3. \A q \in Pod : /\ q \notin tracked' => q \notin boundPod' \cup dns'
                         /\ pod[q] = "over" /\ q \notin queued' => q \notin tracked'
      BY <1>1, <2>1 DEF TrackInv, TrackOK
    <3>4. \A g \in Cgroup :
            PodOf[g] \notin tracked' => attach'[g] = "none" /\ g \notin exited' \cup started' \cup bound'
      BY <2>1, <2>5, PodOfFacts DEF TrackInv, TrackOK
    <3>5. \A g \in Cgroup : /\ attach'[g] # "none" => ctr[g] # "none"
                            /\ attach'[g] # "none" /\ Alive(g) => g \in listed \cup started'
      BY <2>5 DEF TrackInv, TrackOK
    <3>6. QED
      BY <1>1, <1>2, <3>1, <3>2, <3>3, <3>4, <3>5 DEF TrackOK
  <2>8. TcOK'
    <3>1. ASSUME NEW q \in Pod \ unpinned, pod[q] = "live"
          PROVE  tc'[ino[q]] = tc[ino[q]]
      <4>1. \A g \in all : netnsOf[g] # ino[q]
        BY <1>1, <2>2, <3>1 DEF TrackInv, TcOK
      <4>2. QED
        BY <2>1, <2>2, <3>1, <4>1, ReleaseKeeps
    <3>2. \A g \in Cgroup : netnsOf'[g] \in {netnsOf[g], None}
      BY <2>5
    <3>3. QED
      BY <1>1, <3>1, <3>2, TcSame
  <2>9. QED
    BY <1>3, <2>3, <2>4, <2>6, <2>7, <2>8 DEF TrackInv
<1>6. QED
  BY <1>4, <1>5

\* What an attach of the DNS rewrite leaves alone.
LEMMA RewriteEffect ==
  ASSUME TypeOK, NEW p \in Pod, NEW ok \in BOOLEAN, AttachDNSRewrite(p, ok)
  PROVE  fails' \in 0 .. MaxFails /\ dns \subseteq dns' /\ dns' \subseteq dns \cup {p}
<1>1. /\ ~ok => fails < MaxFails
      /\ fails' = IF ok THEN fails ELSE fails + 1
      /\ dns' = IF ok THEN dns \cup {p} ELSE dns
  BY DEF AttachDNSRewrite
<1>2. fails \in 0 .. MaxFails /\ MaxFails \in Nat
  BY TcAttachAssumption DEF TypeOK, AttachTypeOK
<1>3. QED
  BY <1>1, <1>2

\* Steps that at most track, queue and bind a live pod, and attach its rewrite.
LEMMA PodBoundStep ==
  ASSUME TrackInv, NEW p \in Pod, pod[p] = "live",
         UNCHANGED <<pod, listed, ctr, ino, unpinned, rec, attach, exited, started, prep, execs, retries,
                     bound, progs, paths, links, netnsOf, tc, att>>,
         fails' \in 0 .. MaxFails, dns \subseteq dns', dns' \subseteq dns \cup {p},
         tracked' = tracked \cup {p}, boundPod' \subseteq boundPod \cup {p},
         queued' \subseteq queued, \A q \in queued : q # p => q \in queued'
  PROVE  TrackInv'
<1>1. \A g \in Cgroup : Alive(g)' = Alive(g)
  BY DEF Alive
<1>2. TypeOK'
  BY DEF TrackInv, TypeOK, AttachTypeOK
<1>3. NodeOK' /\ ThreadOK' /\ PrepOK'
  BY <1>1 DEF TrackInv, NodeOK, ThreadOK, PrepOK
<1>4. RecOK'
  BY DEF TrackInv, RecOK
<1>5. TrackOK'
  BY <1>1 DEF TrackInv, TrackOK
<1>6. TcOK'
  BY <1>1, TcKept
<1>7. QED
  BY <1>2, <1>3, <1>4, <1>5, <1>6 DEF TrackInv

\* Reconcile binds the pod's address and attaches the DNS rewrite.
LEMMA ReconcileNetworkStep ==
  ASSUME TrackInv, NEW p \in Pod, NEW ok \in BOOLEAN, NEW pending \in BOOLEAN,
         ReconcileNetwork(p, ok, pending)
  PROVE  TrackInv'
<1>1. /\ pod[p] = "live" /\ AttachDNSRewrite(p, ok) /\ tracked' = tracked \cup {p}
      /\ boundPod' = IF pending /\ ok THEN boundPod \cup {p} ELSE boundPod
      /\ queued' = IF pending /\ ok THEN queued \ {p} ELSE queued
      /\ UNCHANGED <<pod, listed, ctr, ino, unpinned, rec, attach, exited, started, prep, execs, retries,
                     bound, progs, paths, links, netnsOf, tc, att>>
  BY DEF ReconcileNetwork, world, events, manager
<1>2. fails' \in 0 .. MaxFails /\ dns \subseteq dns' /\ dns' \subseteq dns \cup {p}
  BY <1>1, RewriteEffect DEF TrackInv
<1>3. /\ boundPod' \subseteq boundPod \cup {p} /\ queued' \subseteq queued
      /\ \A q \in queued : q # p => q \in queued'
  BY <1>1
<1>4. QED
  BY <1>1, <1>2, <1>3, PodBoundStep

\* Reconcile returns early: what the status lists does not run.
LEMMA ReconcileEarlyStep ==
  ASSUME TrackInv, NEW p \in Pod, NEW ok \in BOOLEAN, ReconcileEarly(p, ok)
  PROVE  TrackInv'
<1>1. /\ pod[p] = "live" /\ AttachDNSRewrite(p, ok) /\ tracked' = tracked \cup {p}
      /\ UNCHANGED <<pod, listed, ctr, ino, unpinned, queued, rec, attach, exited, started, prep, execs,
                     retries, bound, boundPod, progs, paths, links, netnsOf, tc, att>>
  BY DEF ReconcileEarly, world, events, manager
<1>2. fails' \in 0 .. MaxFails /\ dns \subseteq dns' /\ dns' \subseteq dns \cup {p}
  BY <1>1, RewriteEffect DEF TrackInv
<1>3. QED
  BY <1>1, <1>2, PodBoundStep

\* PrepareSandbox tracks the pod before its containers exist.
LEMMA PrepareSandboxStep ==
  ASSUME TrackInv, NEW p \in Pod, NEW ok \in BOOLEAN, PrepareSandbox(p, ok)
  PROVE  TrackInv'
<1>1. /\ pod[p] = "live" /\ AttachDNSRewrite(p, ok) /\ tracked' = tracked \cup {p}
      /\ boundPod' = IF ok THEN boundPod \cup {p} ELSE boundPod
      /\ UNCHANGED <<pod, listed, ctr, ino, unpinned, queued, rec, attach, exited, started, prep, execs,
                     retries, bound, progs, paths, links, netnsOf, tc, att>>
  BY DEF PrepareSandbox, world, events, manager
<1>2. fails' \in 0 .. MaxFails /\ dns \subseteq dns' /\ dns' \subseteq dns \cup {p}
  BY <1>1, RewriteEffect DEF TrackInv
<1>3. boundPod' \subseteq boundPod \cup {p}
  BY <1>1
<1>4. QED
  BY <1>1, <1>2, <1>3, PodBoundStep

\* What a reconcile gives up has exited: a container that lives and is tracked
\* is listed, or was started by PrepareContainer.
LEMMA ReconcileStartStep ==
  ASSUME TrackInv, NEW p \in Pod, NEW ok \in BOOLEAN, ReconcileStart(p, ok)
  PROVE  TrackInv'
<1> DEFINE ids == Containers(p)
           gone == {g \in CgroupsOf(p) \ ids : attach[g] # "none"}
           fresh == {g \in ids : attach[g] = "none"}
           todo == {g \in ids : attach[g] # "attached"}
<1>1. /\ rec.pc = "idle" /\ p \in queued /\ pod[p] = "live" /\ AttachDNSRewrite(p, ok)
      /\ attach' = [g \in Cgroup |-> IF g \in gone THEN "none"
                                     ELSE IF g \in fresh THEN "pending" ELSE attach[g]]
      /\ exited' = (exited \ fresh) \cup gone
      /\ started' = started \ (CgroupsOf(p) \ (ids \ listed))
      /\ rec' = [pc |-> "bind", pod |-> p, ids |-> ids, gone |-> gone, dns |-> ok, todo |-> todo]
      /\ tracked' = tracked \cup {p} /\ queued' = queued \ {p}
      /\ UNCHANGED <<pod, listed, ctr, ino, unpinned, prep, execs, retries, bound, boundPod, progs,
                     paths, links, netnsOf, tc, att>>
  BY DEF ReconcileStart, world, events, manager
<1>2. fails' \in 0 .. MaxFails /\ dns \subseteq dns' /\ dns' \subseteq dns \cup {p}
  BY <1>1, RewriteEffect DEF TrackInv
<1>3. \A g \in Cgroup : Alive(g)' = Alive(g)
  BY <1>1 DEF Alive
<1>4. /\ ids \subseteq Cgroup /\ gone \subseteq Cgroup /\ todo \subseteq Cgroup
      /\ \A g \in Cgroup :
           /\ g \in ids <=> PodOf[g] = p /\ g \in listed \cup started /\ Alive(g)
           /\ g \in gone <=> PodOf[g] = p /\ g \notin ids /\ attach[g] # "none"
           /\ g \in fresh <=> g \in ids /\ attach[g] = "none"
           /\ g \in todo <=> g \in ids /\ attach[g] # "attached"
  BY DEF Containers, CgroupsOf
<1>5. \A g \in Cgroup : g \in started' <=> g \in started /\ (PodOf[g] = p => g \in ids \ listed)
  BY <1>1 DEF CgroupsOf
<1> HIDE DEF ids, gone, fresh, todo
<1>6. \A g \in gone : ctr[g] = "exited"
  <2>1. \A g \in gone : ~Alive(g) /\ ctr[g] # "none"
    BY <1>4 DEF TrackInv, TrackOK
  <2>2. QED
    BY <1>4, <2>1 DEF Alive, TrackInv, TypeOK, AttachTypeOK
<1>7. /\ rec'.pc = "bind" /\ rec'.pod = p /\ rec'.ids = ids /\ rec'.gone = gone /\ rec'.todo = todo
      /\ rec' \in [pc : {"idle", "bind", "attach"}, pod : Pod \cup {None}, ids : SUBSET Cgroup,
                   gone : SUBSET Cgroup, todo : SUBSET Cgroup, dns : BOOLEAN]
  BY <1>1, <1>4
<1>8. /\ attach' \in [Cgroup -> {"none", "pending", "attached"}]
      /\ \A g \in Cgroup : attach'[g] = IF g \in gone THEN "none"
                                        ELSE IF g \in fresh THEN "pending" ELSE attach[g]
  BY <1>1 DEF TrackInv, TypeOK
<1>9. TypeOK'
  BY <1>1, <1>2, <1>4, <1>7, <1>8 DEF TrackInv, TypeOK, AttachTypeOK
<1>10. NodeOK' /\ ThreadOK'
  BY <1>1, <1>3 DEF TrackInv, NodeOK, ThreadOK
<1>11. RecOK'
  <2>1. att[Rec].pc = "idle"
    BY <1>1 DEF TrackInv, RecOK
  <2>2. ids \cup gone \cup todo \subseteq CgroupsOf(p)
    BY <1>4 DEF CgroupsOf
  <2>3. \A g \in todo : attach'[g] # "none"
    BY <1>4, <1>8
  <2>4. QED
    BY <1>1, <1>6, <1>7, <2>1, <2>2, <2>3 DEF RecOK
<1>12. PrepOK'
  <2>1. ASSUME NEW g \in Cgroup, Alive(g), attach[g] # "none"
        PROVE  attach'[g] # "none"
    BY <1>6, <1>8, <2>1 DEF Alive
  <2>2. ASSUME NEW g \in Cgroup, attach[g] # "none" \/ g \in exited
        PROVE  attach'[g] # "none" \/ g \in exited'
    BY <1>1, <1>8, <2>2
  <2>3. QED
    BY <1>1, <1>3, <2>1, <2>2 DEF TrackInv, PrepOK
<1>13. TrackOK'
  <2>1. \A q \in Pod : /\ q \notin tracked' => q \notin boundPod' \cup dns'
                       /\ pod[q] = "over" /\ q \notin queued' => q \notin tracked'
    BY <1>1, <1>2 DEF TrackInv, TrackOK
  <2>2. \A g \in Cgroup :
          PodOf[g] \notin tracked' => attach'[g] = "none" /\ g \notin exited' \cup started' \cup bound'
    BY <1>1, <1>4, <1>5, <1>8 DEF TrackInv, TrackOK
  <2>3. \A g \in Cgroup : netnsOf[g] # None => attach'[g] # "none" \/ g \in exited'
    BY <1>1, <1>8 DEF TrackInv, TrackOK
  <2>4. rec.gone = {}
    BY <1>1 DEF TrackInv, RecOK
  <2>5. \A g \in Cgroup : g \in paths \cup links => attach'[g] # "none" \/ prep[g] = "bound" \/ g \in gone
    BY <1>8, <2>4 DEF TrackInv, TrackOK
  <2>6. \A g \in Cgroup : attach'[g] # "none" => ctr[g] # "none"
    <3>1. \A g \in Cgroup : g \in ids => ctr[g] # "none"
      BY <1>4 DEF Alive
    <3>2. QED
      BY <1>4, <1>8, <3>1 DEF TrackInv, TrackOK
  <2>7. \A g \in Cgroup : attach'[g] # "none" /\ Alive(g) => g \in listed \cup started'
    BY <1>4, <1>5, <1>8 DEF TrackInv, TrackOK
  <2>8. QED
    BY <1>1, <1>3, <1>7, <2>1, <2>2, <2>3, <2>5, <2>6, <2>7 DEF TrackOK
<1>14. TcOK'
  BY <1>1, <1>3, TcKept
<1>15. QED
  BY <1>9, <1>10, <1>11, <1>12, <1>13, <1>14 DEF TrackInv

\* BindPodSecrets, and the release of the containers that exited.
LEMMA ReconcileBindStep ==
  ASSUME TrackInv, ReconcileBind
  PROVE  TrackInv'
<1>1. /\ rec.pc = "bind" /\ paths' = paths \ rec.gone /\ links' = links \ rec.gone
      /\ bound' = (bound \ CgroupsOf(rec.pod)) \cup rec.ids /\ boundPod' = boundPod \cup {rec.pod}
      /\ rec' = [rec EXCEPT !.pc = "attach", !.gone = {}, !.ids = {}]
      /\ UNCHANGED <<pod, listed, ctr, ino, unpinned, queued, tracked, attach, exited, started, prep,
                     execs, retries, dns, progs, netnsOf, tc, att, fails>>
  BY DEF ReconcileBind, UntrackExited, world, tracking, events
<1>2. /\ rec.pod \in Pod /\ rec.pod \in tracked /\ rec.ids \subseteq CgroupsOf(rec.pod)
      /\ \A g \in Cgroup : g \in bound' => g \in bound \/ PodOf[g] = rec.pod
      /\ rec.ids \subseteq Cgroup
  BY <1>1 DEF TrackInv, RecOK, CgroupsOf
<1>3. /\ rec'.pc = "attach" /\ rec'.gone = {} /\ rec'.ids = {} /\ rec'.pod = rec.pod /\ rec'.todo = rec.todo
      /\ rec' \in [pc : {"idle", "bind", "attach"}, pod : Pod \cup {None}, ids : SUBSET Cgroup,
                   gone : SUBSET Cgroup, todo : SUBSET Cgroup, dns : BOOLEAN]
  BY <1>1 DEF TrackInv, TypeOK
<1>4. \A g \in Cgroup : Alive(g)' = Alive(g)
  BY <1>1 DEF Alive
<1>5. TypeOK'
  BY <1>1, <1>2, <1>3 DEF TrackInv, TypeOK, AttachTypeOK
<1>6. NodeOK' /\ ThreadOK' /\ PrepOK'
  BY <1>1, <1>4 DEF TrackInv, NodeOK, ThreadOK, PrepOK
<1>7. RecOK'
  BY <1>1, <1>3 DEF TrackInv, RecOK
<1>8. TrackOK'
  BY <1>1, <1>2, <1>3, <1>4 DEF TrackInv, TrackOK
<1>9. TcOK'
  BY <1>1, <1>4, TcKept
<1>10. QED
  BY <1>5, <1>6, <1>7, <1>8, <1>9 DEF TrackInv

\* Reconcile ends, with or without a requeue.
LEMMA ReconcileEndStep ==
  ASSUME TrackInv, ReconcileEnd
  PROVE  TrackInv'
<1>1. /\ rec.pc = "attach" /\ rec.todo = {} /\ rec' = NoRec
      /\ queued' = IF ~rec.dns \/ \E g \in CgroupsOf(rec.pod) : attach[g] = "pending"
                   THEN queued \cup {rec.pod} ELSE queued
      /\ UNCHANGED <<pod, listed, ctr, ino, unpinned, tracked, attach, exited, started, prep, execs, retries,
                     bound, boundPod, dns, progs, paths, links, netnsOf, tc, att, fails>>
  BY DEF ReconcileEnd, world, tracking, events, bindings, manager
<1>2. /\ queued \subseteq queued' /\ queued' \subseteq Pod
  BY <1>1 DEF TrackInv, TypeOK, RecOK
<1>3. /\ rec'.pc = "idle" /\ rec'.gone = {}
      /\ rec' \in [pc : {"idle", "bind", "attach"}, pod : Pod \cup {None}, ids : SUBSET Cgroup,
                   gone : SUBSET Cgroup, todo : SUBSET Cgroup, dns : BOOLEAN]
  BY <1>1 DEF NoRec
<1>4. \A g \in Cgroup : Alive(g)' = Alive(g)
  BY <1>1 DEF Alive
<1>5. TypeOK'
  BY <1>1, <1>2, <1>3 DEF TrackInv, TypeOK, AttachTypeOK
<1>6. NodeOK' /\ ThreadOK' /\ PrepOK'
  BY <1>1, <1>4 DEF TrackInv, NodeOK, ThreadOK, PrepOK
<1>7. RecOK'
  BY <1>1, <1>3 DEF TrackInv, RecOK
<1>8. TrackOK'
  BY <1>1, <1>2, <1>4 DEF TrackInv, TrackOK, RecOK
<1>9. TcOK'
  BY <1>1, <1>4, TcKept
<1>10. QED
  BY <1>5, <1>6, <1>7, <1>8, <1>9 DEF TrackInv

----------------------------------------------------------------------------
(* Attaches.                                                               *)

\* An attach that begins reserves a free inode, or ends.
LEMMA BeginEffect ==
  ASSUME TrackInv, NEW t \in Thread, NEW g \in Cgroup, AttachBegin(t, g)
  PROVE  /\ UNCHANGED <<ctr, ino, progs, paths, netnsOf, fails>>
         /\ links' \in {links, links \cup {g}}
         /\ \A u \in Thread : u # t => att'[u] = att[u]
         /\ att' \in [Thread -> [pc : {"idle", "tc", "fd", "back"}, cg : Cgroup \cup {None}, ok : BOOLEAN]]
         /\ att'[t].pc # "idle" => att'[t].cg = g
         /\ att'[t].pc = "back" => t \in {Rec, Nri(g)}
         /\ \/ tc' = tc /\ att'[t].pc \notin {"tc", "fd"}
            \/ /\ Alive(g) /\ tc[ino[PodOf[g]]] = None /\ att'[t].pc = "tc"
               /\ tc' = [tc EXCEPT ![ino[PodOf[g]]] = [by |-> t, fd |-> FALSE]]
<1> DEFINE i == ino[PodOf[g]]
           typ == [pc : {"idle", "tc", "fd", "back"}, cg : Cgroup \cup {None}, ok : BOOLEAN]
<1>1. UNCHANGED <<ctr, ino, progs, paths, netnsOf, fails>>
  BY DEF AttachBegin
<1>2. att \in [Thread -> typ]
  BY DEF TrackInv, TypeOK, AttachTypeOK
<1>3. \A b \in BOOLEAN : /\ AttachEnd(t, g, b) \in typ /\ AttachEnd(t, g, b).pc \notin {"tc", "fd"}
                         /\ AttachEnd(t, g, b).pc # "idle" => AttachEnd(t, g, b).cg = g
                         /\ AttachEnd(t, g, b).pc = "back" => t \in {Rec, Nri(g)}
  BY DEF AttachEnd, NoAttach
<1>4. \/ /\ links' = links \cup {g} /\ tc' = tc /\ att' = [att EXCEPT ![t] = AttachEnd(t, g, TRUE)]
      \/ /\ Alive(g) /\ tc[i] = None /\ links' = links \cup {g}
         /\ tc' = [tc EXCEPT ![i] = [by |-> t, fd |-> FALSE]]
         /\ att' = [att EXCEPT ![t] = [pc |-> "tc", cg |-> g, ok |-> TRUE]]
      \/ links' = links /\ tc' = tc /\ att' = [att EXCEPT ![t] = AttachEnd(t, g, FALSE)]
  BY DEF AttachBegin, Finds, Reserved
<1>5. [pc |-> "tc", cg |-> g, ok |-> TRUE] \in typ
  OBVIOUS
<1> HIDE DEF typ
<1>6. CASE links' = links \cup {g} /\ tc' = tc /\ att' = [att EXCEPT ![t] = AttachEnd(t, g, TRUE)]
  BY <1>1, <1>2, <1>3, <1>6 DEF typ
<1>7. CASE /\ Alive(g) /\ tc[i] = None /\ links' = links \cup {g}
           /\ tc' = [tc EXCEPT ![i] = [by |-> t, fd |-> FALSE]]
           /\ att' = [att EXCEPT ![t] = [pc |-> "tc", cg |-> g, ok |-> TRUE]]
  BY <1>1, <1>2, <1>5, <1>7 DEF typ
<1>8. CASE links' = links /\ tc' = tc /\ att' = [att EXCEPT ![t] = AttachEnd(t, g, FALSE)]
  BY <1>1, <1>2, <1>3, <1>8 DEF typ
<1>9. QED
  BY <1>4, <1>6, <1>7, <1>8

\* A reservation is made where there was none: no other attach of the pod is
\* under way, and none was made that is still in place.
LEMMA BeginTc ==
  ASSUME TrackInv, NEW t \in Thread, NEW g \in Cgroup, AttachBegin(t, g), UNCHANGED <<pod, unpinned>>
  PROVE  TcOK' /\ tc' \in [Inode -> TcEntry \cup {None}]
<1> DEFINE p == PodOf[g]
           i == ino[p]
<1>1. /\ UNCHANGED <<ctr, ino, progs, netnsOf>>
      /\ \A u \in Thread : u # t => att'[u] = att[u]
      /\ att'[t].pc # "idle" => att'[t].cg = g
  BY BeginEffect
<1>2. tc \in [Inode -> TcEntry \cup {None}]
  BY DEF TrackInv, TypeOK, AttachTypeOK
<1>3. CASE tc' = tc /\ att'[t].pc \notin {"tc", "fd"}
  <2>1. \A u \in Thread : att'[u].pc \in {"tc", "fd"} => att'[u] = att[u]
    BY <1>1, <1>3
  <2>2. QED
    BY <1>1, <1>2, <1>3, <2>1, TcSame
<1>4. CASE /\ Alive(g) /\ tc[i] = None /\ att'[t].pc = "tc"
           /\ tc' = [tc EXCEPT ![i] = [by |-> t, fd |-> FALSE]]
  <2>1. p \in Pod /\ pod[p] = "live" /\ i \in Inode
    BY <1>4, PodOfFacts DEF TrackInv, NodeOK
  <2>2. /\ tc'[i] = [by |-> t, fd |-> FALSE] /\ \A j \in Inode : j # i => tc'[j] = tc[j]
        /\ tc' \in [Inode -> TcEntry \cup {None}]
    BY <1>2, <1>4, <2>1 DEF TcEntry
  <2>3. \A q \in Pod : pod[q] = "live" => ino[q] \in Inode /\ (ino[q] = i => q = p)
    BY <2>1 DEF TrackInv, NodeOK
  <2> HIDE DEF p, i
  <2>4. \A q \in Pod \ unpinned : pod[q] = "live" =>
          progs[q] = IF tc'[ino[q]] # None /\ tc'[ino[q]].fd THEN 1 ELSE 0
    <3> SUFFICES ASSUME NEW q \in Pod \ unpinned, pod[q] = "live"
                 PROVE  progs[q] = IF tc'[ino[q]] # None /\ tc'[ino[q]].fd THEN 1 ELSE 0
      OBVIOUS
    <3>1. progs[q] = IF tc[ino[q]] # None /\ tc[ino[q]].fd THEN 1 ELSE 0
      BY DEF TrackInv, TcOK
    <3>2. CASE ino[q] = i
      BY <1>4, <2>2, <3>1, <3>2 DEF i, p
    <3>3. CASE ino[q] # i
      BY <2>2, <2>3, <3>1, <3>3
    <3>4. QED
      BY <3>2, <3>3
  <2>5. ASSUME NEW u \in Thread, att'[u].pc \in {"tc", "fd"}, pod[PodOf[att'[u].cg]] = "live",
               PodOf[att'[u].cg] \notin unpinned
        PROVE  tc'[ino[PodOf[att'[u].cg]]] = [by |-> u, fd |-> FALSE]
    <3>1. CASE u = t
      BY <1>1, <2>2, <2>5, <3>1 DEF i, p
    <3>2. CASE u # t
      <4>1. att[u].pc \in {"tc", "fd"} /\ att'[u].cg = att[u].cg /\ att[u].cg \in Cgroup
        BY <1>1, <2>5, <3>2 DEF TrackInv, ThreadOK
      <4>2. tc[ino[PodOf[att[u].cg]]] = [by |-> u, fd |-> FALSE] /\ pod[PodOf[att[u].cg]] = "live"
            /\ PodOf[att[u].cg] \in Pod
        BY <2>5, <4>1, PodOfFacts DEF TrackInv, TcOK, NodeOK
      <4>3. [by |-> u, fd |-> FALSE] # None
        <5>1. [by |-> u, fd |-> FALSE] \in TcEntry
          BY DEF TcEntry
        <5>2. QED
          BY <5>1, EntryAssumption
      <4>4. ino[PodOf[att[u].cg]] # i /\ ino[PodOf[att[u].cg]] \in Inode
        BY <1>4, <2>3, <4>2, <4>3 DEF i, p
      <4>5. QED
        BY <2>2, <4>1, <4>2, <4>4
    <3>3. QED
      BY <3>1, <3>2
  <2>6. \A q \in Pod \ unpinned : \A h \in Cgroup :
          pod[q] = "live" /\ netnsOf[h] = ino[q] => PodOf[h] = q
    BY DEF TrackInv, TcOK
  <2>7. ASSUME NEW u \in Thread, att'[u].pc = "fd", NEW q \in Pod, pod[q] = "live",
               ino[q] = ino[PodOf[att'[u].cg]]
        PROVE  q = PodOf[att'[u].cg]
    <3>1. att'[u] = att[u]
      BY <1>1, <1>4, <2>7
    <3>2. QED
      BY <2>7, <3>1, OpenInode
  <2>8. TcOK'
    BY <1>1, <2>4, <2>5, <2>6, <2>7 DEF TcOK
  <2>9. QED
    BY <2>2, <2>8
<1>5. QED
  BY <1>3, <1>4, BeginEffect

\* An attach of a tracked container, by a thread that may make it.
LEMMA BeginStep ==
  ASSUME TrackInv, NEW t \in Thread, NEW g \in Cgroup, AttachBegin(t, g),
         UNCHANGED <<pod, listed, unpinned, queued, rec, tracked, attach, exited, started, prep,
                     bound, boundPod, dns>>,
         execs' \subseteq Cgroup, retries' \subseteq Cgroup,
         t = Rec => rec.pc = "attach" /\ g \in rec.todo,
         \A h \in Cgroup : t = Nri(h) => h = g /\ prep[g] = "bound",
         g \in paths \/ attach[g] # "none" \/ prep[g] = "bound"
  PROVE  TrackInv'
<1>1. /\ UNCHANGED <<ctr, ino, progs, paths, netnsOf, fails>>
      /\ links' \in {links, links \cup {g}}
      /\ \A u \in Thread : u # t => att'[u] = att[u]
      /\ att' \in [Thread -> [pc : {"idle", "tc", "fd", "back"}, cg : Cgroup \cup {None}, ok : BOOLEAN]]
      /\ att'[t].pc # "idle" => att'[t].cg = g
      /\ att'[t].pc \in {"tc", "fd"} => Alive(g)
  BY BeginEffect
<1>2. TcOK' /\ tc' \in [Inode -> TcEntry \cup {None}]
  BY BeginTc
<1>3. \A h \in Cgroup : Alive(h)' = Alive(h) /\ (Alive(h) => ctr[h] # "none")
  BY <1>1 DEF Alive
<1>4. TypeOK'
  BY <1>1, <1>2 DEF TrackInv, TypeOK, AttachTypeOK
<1>5. NodeOK' /\ PrepOK'
  BY <1>1, <1>3 DEF TrackInv, NodeOK, PrepOK
<1>6. RecOK'
  BY <1>1, Threads DEF TrackInv, RecOK
<1>7. ThreadOK'
  BY <1>1, <1>3, Threads DEF TrackInv, ThreadOK
<1>8. TrackOK'
  BY <1>1, <1>3 DEF TrackInv, TrackOK
<1>9. QED
  BY <1>2, <1>4, <1>5, <1>6, <1>7, <1>8 DEF TrackInv

\* Reconcile attaches the next container.
LEMMA ReconcileAttachStep ==
  ASSUME TrackInv, NEW g \in Cgroup, ReconcileAttach(g)
  PROVE  TrackInv'
<1>1. /\ rec.pc = "attach" /\ g \in rec.todo /\ AttachBegin(Rec, g)
      /\ UNCHANGED <<pod, listed, unpinned, queued, rec, tracked, attach, exited, started, prep,
                     execs, retries, bound, boundPod, dns>>
  BY DEF ReconcileAttach, tracking, events, bindings
<1>2. attach[g] # "none" /\ execs \subseteq Cgroup /\ retries \subseteq Cgroup
  BY <1>1 DEF TrackInv, RecOK, TypeOK
<1>3. QED
  BY <1>1, <1>2, Threads, BeginStep

\* The goroutine of PrepareContainer attaches its container.
LEMMA PrepareAttachStep ==
  ASSUME TrackInv, NEW g \in Cgroup, PrepareAttach(g)
  PROVE  TrackInv'
<1>1. /\ prep[g] = "bound" /\ AttachBegin(Nri(g), g)
      /\ UNCHANGED <<pod, listed, unpinned, queued, rec, tracked, attach, exited, started, prep,
                     execs, retries, bound, boundPod, dns>>
  BY DEF PrepareAttach, tracking, events, bindings
<1>2. execs \subseteq Cgroup /\ retries \subseteq Cgroup
  BY DEF TrackInv, TypeOK
<1>3. QED
  BY <1>1, <1>2, Threads, BeginStep

\* An event or a retry of a cgroup that is not tracked any more is dropped.
LEMMA DroppedStep ==
  ASSUME TrackInv, UNCHANGED <<pod, listed, unpinned, queued, rec, tracked, attach, exited, started, prep,
                               bound, boundPod, dns, ctr, ino, progs, paths, links, netnsOf, tc, att, fails>>,
         execs' \subseteq Cgroup, retries' \subseteq Cgroup
  PROVE  TrackInv'
<1>1. \A h \in Cgroup : Alive(h)' = Alive(h)
  BY DEF Alive
<1>2. TypeOK'
  BY DEF TrackInv, TypeOK, AttachTypeOK
<1>3. NodeOK' /\ RecOK' /\ ThreadOK' /\ PrepOK' /\ TrackOK'
  BY <1>1 DEF TrackInv, NodeOK, RecOK, ThreadOK, PrepOK, TrackOK
<1>4. TcOK'
  BY <1>1, TcKept
<1>5. QED
  BY <1>2, <1>3, <1>4 DEF TrackInv

\* The exec poller and its retries attach a tracked container.
LEMMA PollStepStep ==
  ASSUME TrackInv, PollStep
  PROVE  TrackInv'
<1>1. execs \subseteq Cgroup /\ retries \subseteq Cgroup
  BY DEF TrackInv, TypeOK
<1>2. ASSUME NEW g \in Cgroup, PollExec(g)
      PROVE  TrackInv'
  <2>1. /\ execs' = execs \ {g} /\ retries' \in {retries, retries \cup {g}}
        /\ IF g \in paths THEN AttachBegin(Poll, g) ELSE UNCHANGED <<ctr, ino, progs, paths, links, netnsOf, tc, att, fails>>
        /\ UNCHANGED <<pod, listed, unpinned, queued, rec, tracked, attach, exited, started, prep,
                       bound, boundPod, dns>>
    BY <1>2 DEF PollExec, tracking, bindings, attachVars, manager
  <2>2. execs' \subseteq Cgroup /\ retries' \subseteq Cgroup
    BY <1>1, <2>1
  <2>3. CASE g \in paths
    BY <2>1, <2>2, <2>3, Threads, BeginStep
  <2>4. CASE g \notin paths
    BY <2>1, <2>2, <2>4, DroppedStep
  <2>5. QED
    BY <2>3, <2>4
<1>3. ASSUME NEW g \in Cgroup, RetryExec(g)
      PROVE  TrackInv'
  <2>1. /\ execs' = execs /\ retries' = retries \ {g}
        /\ IF g \in paths THEN AttachBegin(Retry(g), g)
           ELSE UNCHANGED <<ctr, ino, progs, paths, links, netnsOf, tc, att, fails>>
        /\ UNCHANGED <<pod, listed, unpinned, queued, rec, tracked, attach, exited, started, prep,
                       bound, boundPod, dns>>
    BY <1>3 DEF RetryExec, tracking, bindings, attachVars, manager
  <2>2. execs' \subseteq Cgroup /\ retries' \subseteq Cgroup
    BY <1>1, <2>1
  <2>3. CASE g \in paths
    BY <2>1, <2>2, <2>3, Threads, BeginStep
  <2>4. CASE g \notin paths
    BY <2>1, <2>2, <2>4, DroppedStep
  <2>5. QED
    BY <2>3, <2>4
<1>4. QED
  BY <1>2, <1>3 DEF PollStep

\* What a step of an attach under way leaves alone.
LEMMA AttachingStep ==
  ASSUME TrackInv, NEW t \in Thread, att[t].pc \in {"tc", "fd"},
         NEW e \in [pc : {"idle", "tc", "fd", "back"}, cg : Cgroup \cup {None}, ok : BOOLEAN],
         att' = [att EXCEPT ![t] = e], e.pc # "idle" => e.cg = att[t].cg,
         UNCHANGED <<pod, listed, unpinned, queued, rec, tracked, attach, exited, started, prep, execs, retries,
                     bound, boundPod, dns, ctr, ino, paths, links, netnsOf>>,
         fails' \in 0 .. MaxFails, progs' \in [Pod -> Nat],
         \A p \in Pod : pod[p] = "new" => progs'[p] = progs[p],
         tc' \in [Inode -> TcEntry \cup {None}], TcOK'
  PROVE  TrackInv'
<1>1. att[t].cg \in Cgroup /\ ctr[att[t].cg] # "none"
  BY DEF TrackInv, ThreadOK
<1>2. /\ att' \in [Thread -> [pc : {"idle", "tc", "fd", "back"}, cg : Cgroup \cup {None}, ok : BOOLEAN]]
      /\ att'[t].pc # "idle" => att'[t].cg = att[t].cg
      /\ \A u \in Thread : u # t => att'[u] = att[u]
  BY DEF TrackInv, TypeOK, AttachTypeOK
<1>3. \A h \in Cgroup : Alive(h)' = Alive(h)
  BY DEF Alive
<1>4. TypeOK'
  BY <1>2 DEF TrackInv, TypeOK, AttachTypeOK
<1>5. NodeOK' /\ PrepOK' /\ TrackOK'
  BY <1>3 DEF TrackInv, NodeOK, PrepOK, TrackOK
<1>6. RecOK'
  BY <1>2, Threads DEF TrackInv, RecOK
<1>7. ThreadOK'
  <2>1. \A u \in Thread : /\ att'[u].pc # "idle" => att'[u].cg \in Cgroup
                          /\ att'[u].pc \in {"tc", "fd"} => ctr[att'[u].cg] # "none"
    BY <1>1, <1>2 DEF TrackInv, ThreadOK
  <2>2. \A h \in Cgroup : Nri(h) \in Thread
                          /\ (att[Nri(h)].pc # "idle" => att[Nri(h)].cg = h /\ prep[h] = "bound")
    BY Threads DEF TrackInv, ThreadOK
  <2>3. \A h \in Cgroup : att'[Nri(h)].pc # "idle" => att'[Nri(h)].cg = h /\ prep[h] = "bound"
    <3> SUFFICES ASSUME NEW h \in Cgroup, att'[Nri(h)].pc # "idle"
                 PROVE  att'[Nri(h)].cg = h /\ prep[h] = "bound"
      OBVIOUS
    <3>1. CASE Nri(h) = t
      BY <1>2, <2>2, <3>1
    <3>2. CASE Nri(h) # t
      BY <1>2, <2>2, <3>2
    <3>3. QED
      BY <3>1, <3>2
  <2>4. QED
    BY <2>1, <2>3 DEF ThreadOK
<1>8. QED
  BY <1>4, <1>5, <1>6, <1>7 DEF TrackInv

\* How an attach ends.
LEMMA EndsAttach ==
  ASSUME NEW t \in Thread, NEW g \in Cgroup
  PROVE  LET e == AttachEnd(t, g, TRUE)
         IN  /\ e \in [pc : {"idle", "tc", "fd", "back"}, cg : Cgroup \cup {None}, ok : BOOLEAN]
            /\ e.pc \notin {"tc", "fd"} /\ (e.pc # "idle" => e.cg = g)
BY DEF AttachEnd, NoAttach

\* An attach that has a descriptor of its netns still has its reservation.
LEMMA AttachOpenStep ==
  ASSUME TrackInv, NEW t \in Thread, AttachOpen(t),
         UNCHANGED <<pod, listed, unpinned, queued, rec, tracked, attach, exited, started, prep, execs, retries,
                     bound, boundPod, dns>>
  PROVE  TrackInv'
<1> DEFINE g == att[t].cg
           e == [att[t] EXCEPT !.pc = "fd"]
<1>1. /\ att[t].pc = "tc" /\ Alive(g) /\ att' = [att EXCEPT ![t] = e]
      /\ UNCHANGED <<ctr, ino, progs, paths, links, netnsOf, tc, fails>>
  BY DEF AttachOpen, manager
<1>2. g \in Cgroup /\ PodOf[g] \in Pod /\ pod[PodOf[g]] = "live"
  BY <1>1, PodOfFacts DEF TrackInv, ThreadOK, NodeOK
<1>3. /\ e \in [pc : {"idle", "tc", "fd", "back"}, cg : Cgroup \cup {None}, ok : BOOLEAN]
      /\ e.pc = "fd" /\ e.cg = g
  BY DEF TrackInv, TypeOK, AttachTypeOK
<1> HIDE DEF e
<1>4. /\ \A u \in Thread : u # t => att'[u] = att[u]
      /\ att'[t].pc = "fd" /\ att'[t].cg = g
  BY <1>1, <1>3 DEF TrackInv, TypeOK, AttachTypeOK
<1>5. TcOK'
  <2>1. ASSUME NEW u \in Thread, att'[u].pc \in {"tc", "fd"}, pod[PodOf[att'[u].cg]] = "live",
               PodOf[att'[u].cg] \notin unpinned
        PROVE  tc[ino[PodOf[att'[u].cg]]] = [by |-> u, fd |-> FALSE]
    <3>1. att[u].pc \in {"tc", "fd"} /\ att'[u].cg = att[u].cg
      BY <1>1, <1>4, <2>1
    <3>2. QED
      BY <2>1, <3>1 DEF TrackInv, TcOK
  <2>2. ASSUME NEW u \in Thread, att'[u].pc = "fd", NEW q \in Pod, pod[q] = "live",
               ino[q] = ino[PodOf[att'[u].cg]]
        PROVE  q = PodOf[att'[u].cg]
    <3>1. CASE u = t
      BY <1>2, <1>4, <2>2, <3>1 DEF TrackInv, NodeOK
    <3>2. CASE u # t
      <4>1. att'[u] = att[u]
        BY <1>4, <3>2
      <4>2. QED
        BY <2>2, <4>1, OpenInode
    <3>3. QED
      BY <3>1, <3>2
  <2>3. QED
    BY <1>1, <2>1, <2>2 DEF TrackInv, TcOK
<1>6. fails \in 0 .. MaxFails /\ progs \in [Pod -> Nat] /\ tc \in [Inode -> TcEntry \cup {None}]
  BY DEF TrackInv, TypeOK, AttachTypeOK
<1>7. QED
  BY <1>1, <1>3, <1>5, <1>6, AttachingStep

\* A failed attach takes back its own reservation, and no other.
LEMMA AttachFailsStep ==
  ASSUME TrackInv, NEW t \in Thread, AttachFails(t),
         UNCHANGED <<pod, listed, unpinned, queued, rec, tracked, attach, exited, started, prep, execs, retries,
                     bound, boundPod, dns>>
  PROVE  TrackInv'
<1> DEFINE g == att[t].cg
           i == ino[PodOf[g]]
           e == AttachEnd(t, g, TRUE)
<1>1. /\ att[t].pc \in {"tc", "fd"} /\ att' = [att EXCEPT ![t] = e]
      /\ Alive(g) => fails < MaxFails
      /\ fails' = IF Alive(g) THEN fails + 1 ELSE fails
      /\ tc' = IF tc[i] # None /\ tc[i].by = t /\ ~tc[i].fd THEN [tc EXCEPT ![i] = None] ELSE tc
      /\ UNCHANGED <<ctr, ino, progs, paths, links, netnsOf>>
  BY DEF AttachFails
<1>2. g \in Cgroup /\ i \in Inode
  BY <1>1, PodOfFacts DEF TrackInv, ThreadOK, NodeOK
<1>3. fails' \in 0 .. MaxFails
  BY <1>1, TcAttachAssumption DEF TrackInv, TypeOK, AttachTypeOK
<1>4. /\ tc' \in [Inode -> TcEntry \cup {None}]
      /\ \A j \in Inode : \/ tc'[j] = tc[j]
                          \/ tc[j].by = t /\ ~tc[j].fd /\ tc'[j] = None
  BY <1>1, <1>2 DEF TrackInv, TypeOK, AttachTypeOK
<1>5. /\ e \in [pc : {"idle", "tc", "fd", "back"}, cg : Cgroup \cup {None}, ok : BOOLEAN]
      /\ e.pc \notin {"tc", "fd"} /\ (e.pc # "idle" => e.cg = g)
  BY <1>2, EndsAttach
<1> HIDE DEF e
<1>6. /\ \A u \in Thread : u # t => att'[u] = att[u]
      /\ att'[t].pc \notin {"tc", "fd"}
  BY <1>1, <1>5 DEF TrackInv, TypeOK, AttachTypeOK
<1> HIDE DEF g, i
<1>7. TcOK'
  <2>1. ASSUME NEW u \in Thread, att'[u].pc \in {"tc", "fd"}, pod[PodOf[att'[u].cg]] = "live",
               PodOf[att'[u].cg] \notin unpinned
        PROVE  tc'[ino[PodOf[att'[u].cg]]] = [by |-> u, fd |-> FALSE]
    <3>1. u # t /\ att[u].pc \in {"tc", "fd"} /\ att'[u].cg = att[u].cg /\ att[u].cg \in Cgroup
      BY <1>6, <2>1 DEF TrackInv, ThreadOK
    <3>2. tc[ino[PodOf[att[u].cg]]] = [by |-> u, fd |-> FALSE] /\ ino[PodOf[att[u].cg]] \in Inode
      BY <2>1, <3>1, PodOfFacts DEF TrackInv, TcOK, NodeOK
    <3>3. QED
      BY <1>4, <3>1, <3>2
  <2>2. ASSUME NEW q \in Pod \ unpinned, pod[q] = "live"
        PROVE  progs[q] = IF tc'[ino[q]] # None /\ tc'[ino[q]].fd THEN 1 ELSE 0
    <3>1. progs[q] = (IF tc[ino[q]] # None /\ tc[ino[q]].fd THEN 1 ELSE 0) /\ ino[q] \in Inode
      BY <2>2 DEF TrackInv, TcOK, NodeOK
    <3>2. QED
      BY <1>4, <3>1
  <2>3. \A q \in Pod \ unpinned : \A h \in Cgroup :
          pod[q] = "live" /\ netnsOf[h] = ino[q] => PodOf[h] = q
    BY DEF TrackInv, TcOK
  <2>4. ASSUME NEW u \in Thread, att'[u].pc = "fd", NEW q \in Pod, pod[q] = "live",
               ino[q] = ino[PodOf[att'[u].cg]]
        PROVE  q = PodOf[att'[u].cg]
    <3>1. att'[u] = att[u]
      BY <1>6, <2>4
    <3>2. QED
      BY <2>4, <3>1, OpenInode
  <2>5. QED
    BY <1>1, <2>1, <2>2, <2>3, <2>4 DEF TcOK
<1>8. progs \in [Pod -> Nat]
  BY DEF TrackInv, TypeOK, AttachTypeOK
<1>9. QED
  BY <1>1, <1>2, <1>3, <1>4, <1>7, <1>8, <1>5, AttachingStep DEF g

\* The program is attached under a reservation: it is the pod's first,
\* and if the pod ended meanwhile no live pod has its inode.
LEMMA AttachSucceedsStep ==
  ASSUME TrackInv, NEW t \in Thread, AttachSucceeds(t),
         UNCHANGED <<pod, listed, unpinned, queued, rec, tracked, attach, exited, started, prep, execs, retries,
                     bound, boundPod, dns>>
  PROVE  TrackInv'
<1> DEFINE g == att[t].cg
           p == PodOf[g]
           i == ino[p]
           e == AttachEnd(t, g, TRUE)
<1>1. /\ att[t].pc = "fd" /\ att' = [att EXCEPT ![t] = e]
      /\ progs' = [progs EXCEPT ![p] = @ + 1]
      /\ tc' = IF tc[i] # None /\ tc[i].by = t /\ ~tc[i].fd THEN [tc EXCEPT ![i].fd = TRUE] ELSE tc
      /\ UNCHANGED <<ctr, ino, paths, links, netnsOf, fails>>
  BY DEF AttachSucceeds
<1>2. g \in Cgroup
  BY <1>1 DEF TrackInv, ThreadOK
<1>3. p \in Pod /\ pod[p] # "new" /\ i \in Inode
  BY <1>1, <1>2, PodOfFacts DEF TrackInv, ThreadOK, NodeOK
<1>4. /\ e \in [pc : {"idle", "tc", "fd", "back"}, cg : Cgroup \cup {None}, ok : BOOLEAN]
      /\ e.pc \notin {"tc", "fd"} /\ (e.pc # "idle" => e.cg = g)
  BY <1>2, EndsAttach
<1> HIDE DEF g, p, i, e
<1>5. /\ tc' \in [Inode -> TcEntry \cup {None}]
      /\ \A j \in Inode : j # i => tc'[j] = tc[j]
      /\ tc[i] = [by |-> t, fd |-> FALSE] => tc'[i] \in TcEntry /\ tc'[i].fd
  <2>1. tc \in [Inode -> TcEntry \cup {None}] /\ [by |-> t, fd |-> FALSE] # None
    <3>1. [by |-> t, fd |-> FALSE] \in TcEntry
      BY DEF TcEntry
    <3>2. QED
      BY <3>1, EntryAssumption DEF TrackInv, TypeOK, AttachTypeOK
  <2>2. CASE tc[i] # None /\ tc[i].by = t /\ ~tc[i].fd
    <3>1. tc' = [tc EXCEPT ![i] = [tc[i] EXCEPT !.fd = TRUE]] /\ tc[i] \in TcEntry
      BY <1>1, <1>3, <2>1, <2>2
    <3>2. \A x \in TcEntry : [x EXCEPT !.fd = TRUE] \in TcEntry /\ [x EXCEPT !.fd = TRUE].fd
      BY DEF TcEntry
    <3>3. QED
      BY <1>3, <2>1, <3>1, <3>2
  <2>3. CASE ~(tc[i] # None /\ tc[i].by = t /\ ~tc[i].fd)
    <3>1. [by |-> t, fd |-> FALSE].by = t /\ ~[by |-> t, fd |-> FALSE].fd
      OBVIOUS
    <3>2. tc[i] # [by |-> t, fd |-> FALSE] /\ tc' = tc
      BY <1>1, <2>1, <2>3, <3>1
    <3>3. QED
      BY <2>1, <3>2
  <2>4. QED
    BY <2>2, <2>3
<1>6. /\ \A u \in Thread : u # t => att'[u] = att[u]
      /\ att'[t].pc \notin {"tc", "fd"}
  BY <1>1, <1>4 DEF TrackInv, TypeOK, AttachTypeOK
<1>7. /\ progs' \in [Pod -> Nat] /\ progs'[p] = progs[p] + 1
      /\ \A q \in Pod : q # p => progs'[q] = progs[q]
  BY <1>1, <1>3 DEF TrackInv, TypeOK, AttachTypeOK
<1>8. \A q \in Pod : pod[q] = "live" => ino[q] \in Inode /\ (ino[q] = i => q = p)
  BY <1>1 DEF TrackInv, NodeOK, TcOK, g, p, i
<1>9. pod[p] = "live" /\ p \notin unpinned => tc[i] = [by |-> t, fd |-> FALSE]
  BY <1>1 DEF TrackInv, TcOK, g, p, i
<1>10. TcOK'
  <2>1. ASSUME NEW u \in Thread, att'[u].pc \in {"tc", "fd"}, pod[PodOf[att'[u].cg]] = "live",
               PodOf[att'[u].cg] \notin unpinned
        PROVE  tc'[ino[PodOf[att'[u].cg]]] = [by |-> u, fd |-> FALSE]
    <3> DEFINE q == PodOf[att[u].cg]
    <3>1. u # t /\ att[u].pc \in {"tc", "fd"} /\ att'[u].cg = att[u].cg /\ att[u].cg \in Cgroup
      BY <1>6, <2>1 DEF TrackInv, ThreadOK
    <3>2. tc[ino[q]] = [by |-> u, fd |-> FALSE] /\ q \in Pod /\ pod[q] = "live" /\ q \notin unpinned
      BY <2>1, <3>1, PodOfFacts DEF TrackInv, TcOK, NodeOK
    <3>3. ino[q] # i
      <4> SUFFICES ASSUME ino[q] = i PROVE FALSE
        OBVIOUS
      <4>1. q = p
        BY <1>8, <3>2
      <4>2. [by |-> u, fd |-> FALSE] = [by |-> t, fd |-> FALSE]
        BY <1>9, <3>2, <4>1 DEF i
      <4>3. QED
        BY <3>1, <4>2
    <3>4. QED
      BY <1>5, <1>8, <3>1, <3>2, <3>3
  <2>2. ASSUME NEW q \in Pod \ unpinned, pod[q] = "live"
        PROVE  progs'[q] = IF tc'[ino[q]] # None /\ tc'[ino[q]].fd THEN 1 ELSE 0
    <3>1. progs[q] = (IF tc[ino[q]] # None /\ tc[ino[q]].fd THEN 1 ELSE 0) /\ ino[q] \in Inode
      BY <2>2 DEF TrackInv, TcOK, NodeOK
    <3>2. CASE q = p
      <4>1. tc[i] = [by |-> t, fd |-> FALSE] /\ tc'[i] # None /\ tc'[i].fd /\ ino[q] = i
        BY <1>5, <1>9, <2>2, <3>2, EntryAssumption DEF i
      <4>2. ~[by |-> t, fd |-> FALSE].fd
        OBVIOUS
      <4>3. QED
        BY <1>7, <3>1, <3>2, <4>1, <4>2
    <3>3. CASE q # p
      BY <1>5, <1>7, <1>8, <2>2, <3>1, <3>3
    <3>4. QED
      BY <3>2, <3>3
  <2>3. \A q \in Pod \ unpinned : \A h \in Cgroup :
          pod[q] = "live" /\ netnsOf[h] = ino[q] => PodOf[h] = q
    BY DEF TrackInv, TcOK
  <2>4. pod' = pod /\ unpinned' = unpinned /\ ino' = ino /\ ctr' = ctr /\ netnsOf' = netnsOf
    BY <1>1
  <2>5. ASSUME NEW u \in Thread, att'[u].pc = "fd", NEW q \in Pod, pod[q] = "live",
               ino[q] = ino[PodOf[att'[u].cg]]
        PROVE  q = PodOf[att'[u].cg]
    <3>1. att'[u] = att[u]
      BY <1>6, <2>5
    <3>2. QED
      BY <2>5, <3>1, OpenInode
  <2>6. QED
    BY <2>1, <2>2, <2>3, <2>4, <2>5, Zenon DEF TcOK
<1>11. fails' \in 0 .. MaxFails /\ \A q \in Pod : pod[q] = "new" => progs'[q] = progs[q]
  BY <1>1, <1>3, <1>7 DEF TrackInv, TypeOK, AttachTypeOK
<1>12. QED
  BY <1>1, <1>2, <1>5, <1>7, <1>10, <1>11, <1>4, AttachingStep DEF g

\* RecordCgroupNetns, which finds nothing for a container that exited.
LEMMA RecordedFacts ==
  ASSUME TrackInv, NEW g \in Cgroup
  PROVE  /\ Recorded(g) \in [Cgroup -> Inode \cup {None}]
         /\ \A h \in Cgroup : h # g => Recorded(g)[h] = netnsOf[h]
         /\ Recorded(g)[g] = IF Alive(g) THEN ino[PodOf[g]] ELSE netnsOf[g]
BY PodOfFacts DEF TrackInv, TypeOK, AttachTypeOK, Recorded

\* Reconcile records the outcome of an attach.
LEMMA ReconcileAttachedStep ==
  ASSUME TrackInv, ReconcileAttached
  PROVE  TrackInv'
<1> DEFINE g == att[Rec].cg
           ok == att[Rec].ok
<1>1. /\ att[Rec].pc = "back" /\ att' = [att EXCEPT ![Rec] = NoAttach]
      /\ attach' = IF ok /\ PodOf[g] \in tracked THEN [attach EXCEPT ![g] = "attached"] ELSE attach
      /\ paths' = IF ok THEN paths \cup {g} ELSE paths
      /\ netnsOf' = IF ok THEN Recorded(g) ELSE netnsOf
      /\ rec' = [rec EXCEPT !.todo = @ \ {g}]
      /\ UNCHANGED <<pod, listed, ctr, ino, unpinned, queued, tracked, exited, started, prep, execs, retries,
                     bound, boundPod, dns, progs, links, tc, fails>>
  BY DEF ReconcileAttached, Return, world, events, bindings
<1>2. /\ rec.pc = "attach" /\ g \in rec.todo /\ g \in Cgroup /\ attach[g] # "none"
      /\ rec.pod \in tracked /\ rec.gone = {}
  BY <1>1 DEF TrackInv, RecOK, CgroupsOf
<1>3. /\ rec'.pc = "attach" /\ rec'.gone = rec.gone /\ rec'.ids = rec.ids /\ rec'.pod = rec.pod
      /\ rec'.todo = rec.todo \ {g}
      /\ rec' \in [pc : {"idle", "bind", "attach"}, pod : Pod \cup {None}, ids : SUBSET Cgroup,
                   gone : SUBSET Cgroup, todo : SUBSET Cgroup, dns : BOOLEAN]
  BY <1>1, <1>2 DEF TrackInv, TypeOK
<1>4. /\ att' \in [Thread -> [pc : {"idle", "tc", "fd", "back"}, cg : Cgroup \cup {None}, ok : BOOLEAN]]
      /\ att'[Rec].pc = "idle" /\ \A u \in Thread : u # Rec => att'[u] = att[u]
  BY <1>1, Threads DEF TrackInv, TypeOK, AttachTypeOK, NoAttach
<1>5. /\ attach' \in [Cgroup -> {"none", "pending", "attached"}]
      /\ \A h \in Cgroup : (attach'[h] = "none" <=> attach[h] = "none")
  BY <1>1, <1>2 DEF TrackInv, TypeOK
<1> HIDE DEF g, ok
<1>6. /\ netnsOf' \in [Cgroup -> Inode \cup {None}]
      /\ \A h \in Cgroup : h # g => netnsOf'[h] = netnsOf[h]
      /\ netnsOf'[g] = netnsOf[g] \/ (Alive(g) /\ netnsOf'[g] = ino[PodOf[g]])
  BY <1>1, <1>2, RecordedFacts DEF TrackInv, TypeOK, AttachTypeOK
<1>7. \A h \in Cgroup : Alive(h)' = Alive(h)
  BY <1>1 DEF Alive
<1>8. paths' \subseteq paths \cup {g}
  BY <1>1
<1>9. TypeOK'
  <2>1. paths' \subseteq Cgroup
    BY <1>2, <1>8 DEF TrackInv, TypeOK, AttachTypeOK
  <2>2. AttachTypeOK'
    BY <1>1, <1>4, <1>6, <2>1 DEF TrackInv, TypeOK, AttachTypeOK
  <2>3. QED
    BY <1>1, <1>3, <1>5, <2>2 DEF TrackInv, TypeOK
<1>10. NodeOK' /\ PrepOK'
  BY <1>1, <1>5, <1>7 DEF TrackInv, NodeOK, PrepOK
<1>11. RecOK'
  BY <1>1, <1>2, <1>3, <1>4, <1>5 DEF TrackInv, RecOK, CgroupsOf
<1>12. ThreadOK'
  BY <1>1, <1>4, Threads DEF TrackInv, ThreadOK
<1>13. TrackOK'
  BY <1>1, <1>2, <1>3, <1>5, <1>6, <1>7, <1>8 DEF TrackInv, TrackOK
<1>14. TcOK'
  <2>1. \A t \in Thread : att'[t].pc \in {"tc", "fd"} => att'[t] = att[t]
    BY <1>4
  <2>2. \A h \in Cgroup : netnsOf'[h] \in {netnsOf[h], None} \/ (Alive(h) /\ netnsOf'[h] = ino[PodOf[h]])
    BY <1>6
  <2>3. QED
    BY <1>1, <2>1, <2>2, TcSame
<1>15. QED
  BY <1>9, <1>10, <1>11, <1>12, <1>13, <1>14 DEF TrackInv

----------------------------------------------------------------------------
(* PrepareContainer.                                                       *)

\* PrepareContainer claims a container that is about to start.
LEMMA PrepareClaimStep ==
  ASSUME TrackInv, NEW g \in Cgroup, PrepareClaim(g)
  PROVE  TrackInv'
<1>1. /\ ctr[g] = "created" /\ prep[g] = "idle" /\ tracked' = tracked \cup {PodOf[g]}
      /\ UNCHANGED <<pod, listed, ctr, ino, unpinned, queued, rec, exited, execs, retries, bound, boundPod, dns,
                     progs, paths, links, netnsOf, tc, att, fails>>
  BY DEF PrepareClaim, world, events, bindings, manager
<1>2. /\ Alive(g) /\ \A h \in Cgroup : Alive(h)' = Alive(h)
  BY <1>1 DEF Alive
<1>3. pod[PodOf[g]] = "live" /\ PodOf[g] \in Pod
  BY <1>2, PodOfFacts DEF TrackInv, NodeOK
<1>4. /\ prep' \in [Cgroup -> {"idle", "claimed", "bound", "done"}] /\ prep'[g] \in {"claimed", "done"}
      /\ \A h \in Cgroup : h # g => prep'[h] = prep[h]
      /\ attach' \in [Cgroup -> {"none", "pending", "attached"}] /\ attach'[g] # "none"
      /\ \A h \in Cgroup : h # g => attach'[h] = attach[h]
      /\ started' \in {started, started \cup {g}} /\ (g \in started' \/ attach[g] # "none")
  <2>1. CASE attach[g] # "none"
    BY <2>1 DEF PrepareClaim, TrackInv, TypeOK
  <2>2. CASE attach[g] = "none"
    <3>1. /\ prep' = [prep EXCEPT ![g] = "claimed"] /\ attach' = [attach EXCEPT ![g] = "attached"]
          /\ started' = started \cup {g}
      BY <2>2 DEF PrepareClaim
    <3>2. QED
      BY <3>1 DEF TrackInv, TypeOK
  <2>3. QED
    BY <2>1, <2>2
<1>5. TypeOK'
  BY <1>1, <1>3, <1>4 DEF TrackInv, TypeOK, AttachTypeOK
<1>6. NodeOK'
  BY <1>1, <1>2 DEF TrackInv, NodeOK
<1>7. RecOK'
  BY <1>1, <1>4 DEF TrackInv, RecOK, CgroupsOf
<1>8. ThreadOK'
  BY <1>1, <1>4 DEF TrackInv, ThreadOK
<1>9. PrepOK'
  BY <1>1, <1>2, <1>4 DEF TrackInv, PrepOK
<1>10. TrackOK'
  <2>1. \A q \in Pod : /\ q \notin tracked' => q \notin boundPod \cup dns
                       /\ pod[q] = "over" /\ q \notin queued => q \notin tracked'
    BY <1>1, <1>3 DEF TrackInv, TrackOK
  <2>2. \A h \in Cgroup :
          PodOf[h] \notin tracked' => attach'[h] = "none" /\ h \notin exited \cup started' \cup bound
    BY <1>1, <1>4 DEF TrackInv, TrackOK
  <2>3. \A h \in Cgroup :
          /\ netnsOf[h] # None => attach'[h] # "none" \/ h \in exited
          /\ h \in paths \cup links => attach'[h] # "none" \/ prep'[h] = "bound" \/ h \in rec.gone
          /\ attach'[h] # "none" => ctr[h] # "none"
          /\ attach'[h] # "none" /\ Alive(h) => h \in listed \cup started'
    BY <1>1, <1>2, <1>4 DEF TrackInv, TrackOK
  <2>4. QED
    BY <1>1, <1>2, <2>1, <2>2, <2>3 DEF TrackOK
<1>11. TcOK'
  BY <1>1, <1>2, TcKept
<1>12. QED
  BY <1>5, <1>6, <1>7, <1>8, <1>9, <1>10, <1>11 DEF TrackInv

\* PrepareContainer binds the container it claimed.
LEMMA PrepareBindStep ==
  ASSUME TrackInv, NEW g \in Cgroup, PrepareBind(g)
  PROVE  TrackInv'
<1>1. /\ prep[g] = "claimed" /\ prep' = [prep EXCEPT ![g] = "bound"] /\ paths' = paths \cup {g}
      /\ bound' = bound \cup {g} /\ boundPod' = boundPod \cup {PodOf[g]}
      /\ UNCHANGED <<pod, listed, ctr, ino, unpinned, queued, rec, tracked, attach, exited, started, execs,
                     retries, dns, progs, links, netnsOf, tc, att, fails>>
  BY DEF PrepareBind, world, tracking, events
<1>2. Alive(g) /\ \A h \in Cgroup : Alive(h)' = Alive(h)
  BY <1>1 DEF TrackInv, PrepOK, Alive
<1>3. attach[g] # "none" /\ PodOf[g] \in tracked /\ PodOf[g] \in Pod
  BY <1>1, <1>2, PodOfFacts DEF TrackInv, PrepOK, TrackOK
<1>4. /\ prep' \in [Cgroup -> {"idle", "claimed", "bound", "done"}] /\ prep'[g] = "bound"
      /\ \A h \in Cgroup : h # g => prep'[h] = prep[h]
  BY <1>1 DEF TrackInv, TypeOK
<1>5. TypeOK'
  BY <1>1, <1>3, <1>4 DEF TrackInv, TypeOK, AttachTypeOK
<1>6. NodeOK' /\ RecOK'
  BY <1>1, <1>2 DEF TrackInv, NodeOK, RecOK
<1>7. ThreadOK'
  BY <1>1, <1>4 DEF TrackInv, ThreadOK
<1>8. PrepOK'
  BY <1>1, <1>2, <1>4 DEF TrackInv, PrepOK
<1>9. TrackOK'
  BY <1>1, <1>2, <1>3, <1>4 DEF TrackInv, TrackOK
<1>10. TcOK'
  BY <1>1, <1>2, TcKept
<1>11. QED
  BY <1>5, <1>6, <1>7, <1>8, <1>9, <1>10 DEF TrackInv

\* The goroutine's re-check: while its pod lives, the container is tracked or
\* recorded as exited, so that it releases the netns of a pod only after it.
LEMMA PrepareAttachedStep ==
  ASSUME TrackInv, NEW g \in Cgroup, PrepareAttached(g)
  PROVE  TrackInv'
<1> DEFINE ok == att[Nri(g)].ok
           ns == IF ok THEN Recorded(g) ELSE netnsOf
<1>1. /\ att[Nri(g)].pc = "back" /\ att' = [att EXCEPT ![Nri(g)] = NoAttach]
      /\ prep' = [prep EXCEPT ![g] = "done"]
      /\ UNCHANGED <<pod, listed, ctr, ino, unpinned, queued, rec, tracked, exited, started, execs, retries,
                     bound, boundPod, dns, progs, fails>>
  BY DEF PrepareAttached, Return, world, events, bindings
<1>2. \/ /\ attach[g] # "none"
         /\ attach' = [attach EXCEPT ![g] = IF ok THEN "attached" ELSE "pending"]
         /\ netnsOf' = ns /\ UNCHANGED <<paths, links, tc>>
      \/ /\ attach[g] = "none" /\ g \in exited /\ paths' = paths \ {g} /\ links' = links \ {g}
         /\ netnsOf' = ns /\ UNCHANGED <<attach, tc>>
      \/ /\ attach[g] = "none" /\ g \notin exited /\ paths' = paths \ {g} /\ links' = links \ {g}
         /\ netnsOf' = NetnsReleased(ns, {g}) /\ tc' = TcReleased(ns, {g}) /\ UNCHANGED attach
  BY DEF PrepareAttached, UntrackExited
<1>3. prep[g] = "bound" /\ Nri(g) \in Thread
  BY <1>1, Threads DEF TrackInv, ThreadOK
<1>4. /\ att' \in [Thread -> [pc : {"idle", "tc", "fd", "back"}, cg : Cgroup \cup {None}, ok : BOOLEAN]]
      /\ att'[Nri(g)].pc = "idle" /\ \A u \in Thread : u # Nri(g) => att'[u] = att[u]
  BY <1>1, <1>3 DEF TrackInv, TypeOK, AttachTypeOK, NoAttach
<1>5. /\ prep' \in [Cgroup -> {"idle", "claimed", "bound", "done"}] /\ prep'[g] = "done"
      /\ \A h \in Cgroup : h # g => prep'[h] = prep[h]
  BY <1>1 DEF TrackInv, TypeOK
<1>6. /\ ns \in [Cgroup -> Inode \cup {None}]
      /\ \A h \in Cgroup : h # g => ns[h] = netnsOf[h]
      /\ ns[g] = netnsOf[g] \/ (Alive(g) /\ ns[g] = ino[PodOf[g]])
  BY RecordedFacts DEF TrackInv, TypeOK, AttachTypeOK
<1> HIDE DEF ok, ns
<1>7. /\ attach' \in [Cgroup -> {"none", "pending", "attached"}]
      /\ \A h \in Cgroup : (attach'[h] = "none" <=> attach[h] = "none")
      /\ paths' \subseteq paths /\ links' \subseteq links
      /\ g \in paths' \cup links' => attach[g] # "none"
  BY <1>2 DEF TrackInv, TypeOK, AttachTypeOK
<1>8. /\ netnsOf' \in [Cgroup -> Inode \cup {None}] /\ tc' \in [Inode -> TcEntry \cup {None}]
      /\ \A h \in Cgroup : h # g => netnsOf'[h] = netnsOf[h]
      /\ netnsOf'[g] \in {netnsOf[g], None} \/ (Alive(g) /\ netnsOf'[g] = ino[PodOf[g]])
      /\ netnsOf'[g] # None => attach[g] # "none" \/ g \in exited
  <2>1. CASE netnsOf' = ns /\ tc' = tc /\ (attach[g] # "none" \/ g \in exited)
    BY <1>6, <2>1 DEF TrackInv, TypeOK, AttachTypeOK
  <2>2. CASE netnsOf' = NetnsReleased(ns, {g}) /\ tc' = TcReleased(ns, {g})
    <3>1. netnsOf' \in [Cgroup -> Inode \cup {None}] /\ tc' \in [Inode -> TcEntry \cup {None}]
      BY <1>6, <2>2, ReleaseTypes DEF TrackInv
    <3>2. netnsOf'[g] = None /\ \A h \in Cgroup : h # g => netnsOf'[h] = netnsOf[h]
      BY <1>6, <2>2 DEF NetnsReleased
    <3>3. QED
      BY <3>1, <3>2
  <2>3. QED
    BY <1>2, <2>1, <2>2
<1>9. \A h \in Cgroup : Alive(h)' = Alive(h)
  BY <1>1 DEF Alive
<1>10. TypeOK'
  BY <1>1, <1>4, <1>5, <1>7, <1>8 DEF TrackInv, TypeOK, AttachTypeOK
<1>11. NodeOK'
  BY <1>1, <1>9 DEF TrackInv, NodeOK
<1>12. RecOK'
  BY <1>1, <1>4, <1>7, Threads DEF TrackInv, RecOK, CgroupsOf
<1>13. ThreadOK'
  BY <1>1, <1>4, <1>5, Threads DEF TrackInv, ThreadOK
<1>14. PrepOK'
  BY <1>1, <1>3, <1>5, <1>7, <1>9 DEF TrackInv, PrepOK
<1>15. TrackOK'
  BY <1>1, <1>5, <1>7, <1>8, <1>9 DEF TrackInv, TrackOK
<1>16. TcOK'
  <2>1. \A t \in Thread : att'[t].pc \in {"tc", "fd"} => att'[t] = att[t]
    BY <1>4
  <2>2. ASSUME NEW q \in Pod \ unpinned, pod[q] = "live"
        PROVE  tc'[ino[q]] = tc[ino[q]]
    <3>1. CASE tc' = tc
      BY <3>1
    <3>2. CASE attach[g] = "none" /\ g \notin exited /\ tc' = TcReleased(ns, {g})
      <4>1. pod[PodOf[g]] # "live" /\ ~Alive(g)
        BY <1>3, <3>2 DEF TrackInv, PrepOK
      <4>2. ns[g] # ino[q]
        BY <1>6, <2>2, <4>1 DEF TrackInv, TcOK
      <4>3. QED
        BY <2>2, <3>2, <4>2, ReleaseKeeps
    <3>3. QED
      BY <1>2, <3>1, <3>2
  <2>3. \A h \in Cgroup : netnsOf'[h] \in {netnsOf[h], None} \/ (Alive(h) /\ netnsOf'[h] = ino[PodOf[h]])
    BY <1>8
  <2>4. QED
    BY <1>1, <2>1, <2>2, <2>3, TcSame
<1>17. QED
  BY <1>10, <1>11, <1>12, <1>13, <1>14, <1>15, <1>16 DEF TrackInv

----------------------------------------------------------------------------
(* Every step, and the theorems.                                           *)

\* Every step of the node and of the actors keeps TrackInv.
LEMMA TrackNext == TrackInv /\ [Next]_vars => TrackInv'
<1> SUFFICES ASSUME TrackInv, [Next]_vars PROVE TrackInv'
  OBVIOUS
<1>1. CASE NodeStep
  BY <1>1, CreatePodStep, UpdateStatusStep, EndPodStep, CreateContainerStep, StartContainerStep,
     ExitContainerStep DEF NodeStep
<1>2. ASSUME NEW p \in Pod, ReconcileBegin(p) PROVE TrackInv'
  BY <1>2, ReconcileGoneStep, ReconcileNetworkStep, ReconcileEarlyStep, ReconcileStartStep DEF ReconcileBegin
<1>3. CASE ReconcileStep
  BY <1>3, ReconcileBindStep, ReconcileAttachedStep, ReconcileEndStep, ReconcileAttachStep DEF ReconcileStep
<1>4. ASSUME NEW p \in Pod, NEW ok \in BOOLEAN, PrepareSandbox(p, ok) PROVE TrackInv'
  BY <1>4, PrepareSandboxStep
<1>5. ASSUME NEW g \in Cgroup, PrepareClaim(g) \/ PrepareStep(g) PROVE TrackInv'
  BY <1>5, PrepareClaimStep, PrepareBindStep, PrepareAttachStep, PrepareAttachedStep DEF PrepareStep
<1>6. CASE PollStep
  BY <1>6, PollStepStep
<1>7. CASE Attaching
  <2>1. /\ AttachStep
        /\ UNCHANGED <<pod, listed, unpinned, queued, rec, tracked, attach, exited, started, prep, execs, retries,
                       bound, boundPod, dns>>
    BY <1>7 DEF Attaching, tracking, events, bindings
  <2>2. QED
    BY <2>1, AttachOpenStep, AttachFailsStep, AttachSucceedsStep DEF AttachStep
<1>8. CASE UNCHANGED vars
  <2>1. UNCHANGED <<pod, listed, unpinned, queued, rec, tracked, attach, exited, started, prep, execs, retries,
                    bound, boundPod, dns, ctr, ino, progs, paths, links, netnsOf, tc, att, fails>>
    BY <1>8 DEF vars, world, tracking, events, bindings, manager
  <2>2. execs' \subseteq Cgroup /\ retries' \subseteq Cgroup
    BY <2>1 DEF TrackInv, TypeOK
  <2>3. QED
    BY <2>1, <2>2, DroppedStep
<1>9. QED
  BY <1>1, <1>2, <1>3, <1>4, <1>5, <1>6, <1>7, <1>8 DEF Next

\* TrackInv holds throughout.
LEMMA TrackInvariant == Spec => []TrackInv
BY TrackInit, TrackNext, PTL DEF Spec

\* The maps of the reconciler and of TLSUprobeManager keep their shapes.
THEOREM TypeCorrect == Spec => []TypeOK
<1>1. TrackInv => TypeOK
  BY DEF TrackInv
<1>2. QED
  BY <1>1, TrackInvariant, PTL

\* attachTCEgress's reservation works for any number of threads, containers
\* and pods: the interface of a live pod never gets a second patch program.
THEOREM AttachedOnce == Spec => []OneProgram
<1>1. TrackInv => OneProgram
  BY DEF TrackInv, TcOK, OneProgram
<1>2. QED
  BY <1>1, TrackInvariant, PTL

\* An entry of tcAttached that holds a descriptor is about the pod that has
\* the inode now, however often inodes are given away.
THEOREM DedupIsSound == Spec => []DedupSound
<1>1. TrackInv => DedupSound
  BY DEF TrackInv, TcOK, DedupSound
<1>2. QED
  BY <1>1, TrackInvariant, PTL

\* handleDelete and the re-check of PrepareContainer's goroutine leave nothing
\* of a pod that ended, in whatever order they run.
THEOREM NothingStaysBehind == Spec => []NothingLeft
<1>1. TrackInv => NothingLeft
  <2> SUFFICES ASSUME TrackInv, NEW p \in Pod,
                      pod[p] = "over" /\ p \notin queued /\ rec.pod # p,
                      \A g \in CgroupsOf(p) : prep[g] \in {"idle", "done"}
               PROVE  /\ p \notin tracked \cup boundPod \cup dns
                      /\ \A g \in CgroupsOf(p) :
                           /\ attach[g] = "none" /\ netnsOf[g] = None
                           /\ g \notin exited \cup started \cup paths \cup links \cup bound
    BY DEF NothingLeft
  <2>1. p \notin tracked /\ p \notin boundPod \cup dns
    BY DEF TrackInv, TrackOK
  <2>2. ASSUME NEW g \in CgroupsOf(p)
        PROVE  /\ attach[g] = "none" /\ netnsOf[g] = None
               /\ g \notin exited \cup started \cup paths \cup links \cup bound
    <3>1. g \in Cgroup /\ PodOf[g] = p
      BY DEF CgroupsOf
    <3>2. attach[g] = "none" /\ g \notin exited \cup started \cup bound
      BY <2>1, <3>1 DEF TrackInv, TrackOK
    <3>3. netnsOf[g] = None
      BY <3>1, <3>2 DEF TrackInv, TrackOK
    <3>4. g \notin rec.gone
      BY <3>1 DEF TrackInv, RecOK, CgroupsOf
    <3>5. g \notin paths \cup links
      BY <3>1, <3>2, <3>4 DEF TrackInv, TrackOK
    <3>6. QED
      BY <3>2, <3>3, <3>5
  <2>3. QED
    BY <2>1, <2>2
<1>2. QED
  BY <1>1, TrackInvariant, PTL

\* What a step takes out of cgroupPaths and of the uprobe links has exited.
LEMMA UntracksExited ==
  TrackInv /\ [Next]_vars =>
    \A g \in Cgroup : ctr[g] = "running" => /\ g \in paths => g \in paths'
                                            /\ g \in links => g \in links'
<1> SUFFICES ASSUME TrackInv, [Next]_vars, NEW g \in Cgroup, ctr[g] = "running"
             PROVE  (g \in paths => g \in paths') /\ (g \in links => g \in links')
  OBVIOUS
<1> DEFINE Kept == (g \in paths => g \in paths') /\ (g \in links => g \in links')
<1>1. Alive(g)
  BY DEF Alive
<1>2. CASE paths' = paths /\ links' = links
  BY <1>2
<1>3. CASE NodeStep
  BY <1>2, <1>3 DEF NodeStep, CreatePod, UpdateStatus, EndPod, CreateContainer, StartContainer,
                    ExitContainer, manager
<1>4. ASSUME NEW p \in Pod, ReconcileGone(p) PROVE Kept
  <2>1. pod[p] = "over"
    BY <1>4 DEF ReconcileGone
  <2>2. PodOf[g] # p
    BY <1>1, <2>1 DEF TrackInv, NodeOK
  <2>3. CASE p \in tracked
    <3>1. \E mine : paths' = paths \ mine /\ links' = links \ mine /\ mine \subseteq CgroupsOf(p)
      BY <1>4, <2>3 DEF ReconcileGone, UntrackExited
    <3>2. QED
      BY <2>2, <3>1 DEF CgroupsOf
  <2>4. CASE p \notin tracked
    BY <1>4, <2>4 DEF ReconcileGone, manager
  <2>5. QED
    BY <2>3, <2>4
<1>5. ASSUME NEW p \in Pod, ReconcileBegin(p) PROVE Kept
  BY <1>2, <1>4, <1>5 DEF ReconcileBegin, ReconcileNetwork, ReconcileEarly, ReconcileStart, manager
<1>6. CASE ReconcileBind
  <2>1. paths' = paths \ rec.gone /\ links' = links \ rec.gone /\ rec.pc = "bind"
    BY <1>6 DEF ReconcileBind, UntrackExited
  <2>2. g \notin rec.gone
    BY <2>1 DEF TrackInv, RecOK
  <2>3. QED
    BY <2>1, <2>2
<1>7. ASSUME NEW t \in Thread, NEW h \in Cgroup, AttachBegin(t, h) PROVE Kept
  BY <1>7, BeginEffect
<1>8. CASE ReconcileStep
  <2>1. CASE ReconcileAttached
    BY <2>1 DEF ReconcileAttached
  <2>2. CASE ReconcileEnd
    BY <1>2, <2>2 DEF ReconcileEnd, manager
  <2>3. CASE \E h \in Cgroup : ReconcileAttach(h)
    BY <1>7, <2>3, Threads DEF ReconcileAttach
  <2>4. QED
    BY <1>6, <1>8, <2>1, <2>2, <2>3 DEF ReconcileStep
<1>9. ASSUME NEW p \in Pod, NEW ok \in BOOLEAN, PrepareSandbox(p, ok) PROVE Kept
  BY <1>2, <1>9 DEF PrepareSandbox, manager
<1>10. ASSUME NEW h \in Cgroup, PrepareClaim(h) \/ PrepareStep(h) PROVE Kept
  <2>1. CASE PrepareClaim(h)
    BY <1>2, <2>1 DEF PrepareClaim, manager
  <2>2. CASE PrepareBind(h)
    BY <2>2 DEF PrepareBind
  <2>3. CASE PrepareAttach(h)
    BY <1>7, <2>3, Threads DEF PrepareAttach
  <2>4. CASE PrepareAttached(h)
    <3>1. att[Nri(h)].pc = "back" /\ prep[h] = "bound"
      BY <2>4 DEF PrepareAttached, TrackInv, ThreadOK
    <3>2. \/ UNCHANGED <<paths, links>>
          \/ attach[h] = "none" /\ paths' = paths \ {h} /\ links' = links \ {h}
      BY <2>4 DEF PrepareAttached, UntrackExited
    <3>3. attach[h] = "none" => h # g
      BY <1>1, <3>1 DEF TrackInv, PrepOK
    <3>4. QED
      BY <3>2, <3>3
  <2>5. QED
    BY <1>10, <2>1, <2>2, <2>3, <2>4 DEF PrepareStep
<1>11. CASE PollStep
  <2>1. PICK h \in Cgroup : \/ AttachBegin(Poll, h) \/ AttachBegin(Retry(h), h)
                            \/ UNCHANGED <<paths, links>>
    BY <1>11 DEF PollStep, PollExec, RetryExec, attachVars, manager
  <2>2. QED
    BY <1>2, <1>7, <2>1, Threads
<1>12. CASE Attaching
  BY <1>2, <1>12 DEF Attaching, AttachStep, AttachOpen, AttachFails, AttachSucceeds, manager
<1>13. CASE UNCHANGED vars
  BY <1>2, <1>13 DEF vars, manager
<1>14. QED
  BY <1>3, <1>5, <1>8, <1>9, <1>10, <1>11, <1>12, <1>13 DEF Next

\* A running container stays tracked and keeps its uprobes, whatever the
\* reconciler makes of a status that is behind and of one that went before it.
THEOREM RunningIsKept == Spec => RunningKept
<1>1. TrackInv /\ [Next]_vars =>
        [\A g \in Cgroup : ctr[g] = "running" => /\ g \in paths => g \in paths'
                                                 /\ g \in links => g \in links']_vars
  BY UntracksExited
<1>2. QED
  BY <1>1, TrackInvariant, PTL DEF Spec, RunningKept
=============================================================================
