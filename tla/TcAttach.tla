------------------------------ MODULE TcAttach ------------------------------
(***************************************************************************)
(* What TLSUprobeManager (pkg/ebpf/uprobe.go) attaches for a container:    *)
(* uprobes in its TLS libraries and executable, the tc patch program in    *)
(* its pod's network namespace, and what it records to release them: the   *)
(* cgroup's path, its uprobe links, its netns.                             *)
(*                                                                         *)
(* Any number of threads attach at the same time.  The tc program must be  *)
(* attached once per netns: attachTCEgress reserves the netns inode in     *)
(* tcAttached first.  An open descriptor of the netns, of an attach under  *)
(* way or the one kept in the entry, keeps the inode from being given to   *)
(* the next pod's netns.                                                   *)
(*                                                                         *)
(* Left out: TLS offsets and strategies, pushed on the way; hosts without  *)
(* a veth; Close, which ends everything.                                   *)
(***************************************************************************)
EXTENDS Naturals

CONSTANTS
  Pod, Cgroup,
  PodOf,     \* the pod of a container's cgroup
  Inode,     \* netns inodes
  LibTls,    \* the containers whose file system has a TLS library; in any
             \* other one the command is a script that runs a program which
             \* carries its own
  MaxFails,  \* bound: tc and DNS rewrite attaches that fail
  None

ASSUME TcAttachAssumption ==
  /\ PodOf \in [Cgroup -> Pod]
  /\ LibTls \subseteq Cgroup
  /\ MaxFails \in Nat
  /\ None \notin Inode

CgroupsOf(p) == {g \in Cgroup : PodOf[g] = p}

\* The reconciler, the exec event poller, its retries and the goroutines of
\* PrepareContainer.
Rec == <<"rec", None>>
Poll == <<"poll", None>>
Retry(g) == <<"retry", g>>
Nri(g) == <<"nri", g>>
Thread == {Rec, Poll} \cup {Retry(g) : g \in Cgroup} \cup {Nri(g) : g \in Cgroup}

\* An entry of tcAttached: who reserved the inode, and whether it holds the fd.
TcEntry == [by : Thread, fd : BOOLEAN]

ASSUME EntryAssumption == None \notin TcEntry

VARIABLES
  ctr,      \* the containers: "none", "created", "script", "running",
            \* "exited"
  ino,      \* the inode of a pod's netns
  progs,    \* tc patch programs on a pod's interface
  paths,    \* cgroupPaths and tracked_cgroups
  links,    \* cgroupLinks, uprobes: the cgroups with uprobes attached
  netnsOf,  \* cgroupToNetns
  tc,       \* tcAttached: who reserved an inode, and whether it holds the fd
  att,      \* the attach a thread is in
  fails

manager == <<paths, links, netnsOf, tc>>
attachVars == <<ino, progs, manager, att, fails>>

NoAttach == [pc |-> "idle", cg |-> None, ok |-> FALSE]

AttachInit ==
  /\ ctr = [g \in Cgroup |-> "none"]
  /\ ino = [p \in Pod |-> None]
  /\ progs = [p \in Pod |-> 0]
  /\ paths = {} /\ links = {}
  /\ netnsOf = [g \in Cgroup |-> None]
  /\ tc = [i \in Inode |-> None]
  /\ att = [t \in Thread |-> NoAttach]
  /\ fails = 0

Alive(g) == ctr[g] \in {"created", "script", "running"}

\* A process's symbols are found in its file system, or, unless the process
\* is still the container runtime's, in its executable.
Finds(t, g) == Alive(g) /\ (g \in LibTls \/ (ctr[g] = "running" /\ t # Nri(g)))

------------------------------------------------------------------------------
(* AttachTLS and AttachContainerTLS.                                         *)

\* Its result is looked at by the reconciler and by PrepareContainer.
AttachEnd(t, g, ok) ==
  IF t \in {Rec, Nri(g)} THEN [pc |-> "back", cg |-> g, ok |-> ok] ELSE NoAttach

\* Mutant: an attach in progress is not noticed.
ReservedDone(i) == tc[i] # None /\ tc[i].fd

\* The LoadOrStore of attachTCEgress found an entry: attached, or in progress.
Reserved(i) == tc[i] # None

\* The uprobes, then the reservation of the netns.  An entry that is there
\* ends the attach: with an error when it is a placeholder, but the callers
\* of attachTCEgress log its errors and succeed.
AttachBegin(t, g) ==
  /\ att[t].pc = "idle"
  /\ LET i == ino[PodOf[g]]
     IN IF Finds(t, g)
        THEN /\ links' = links \cup {g}
             /\ tc' = IF Reserved(i) THEN tc ELSE [tc EXCEPT ![i] = [by |-> t, fd |-> FALSE]]
             /\ att' = [att EXCEPT ![t] = IF Reserved(i) THEN AttachEnd(t, g, TRUE)
                                          ELSE [pc |-> "tc", cg |-> g, ok |-> TRUE]]
        ELSE /\ att' = [att EXCEPT ![t] = AttachEnd(t, g, FALSE)]
             /\ UNCHANGED <<links, tc>>
  /\ UNCHANGED <<ctr, ino, progs, paths, netnsOf, fails>>

\* Mutant: a failed attach is taken for one that succeeded.
AttachFailsUnnoticed(t) ==
  /\ att[t].pc \in {"tc", "fd"}
  /\ LET g == att[t].cg
         i == ino[PodOf[g]]
     IN /\ Alive(g) => fails < MaxFails
        /\ fails' = IF Alive(g) THEN fails + 1 ELSE fails
        /\ tc' = IF tc[i] # None /\ tc[i].by = t /\ ~tc[i].fd THEN [tc EXCEPT ![i].fd = TRUE] ELSE tc
  /\ att' = [att EXCEPT ![t] = AttachEnd(t, att[t].cg, TRUE)]
  /\ UNCHANGED <<ctr, ino, progs, paths, links, netnsOf>>

\* A descriptor of the netns of the process: from here on the attach may
\* succeed after the process is gone.
AttachOpen(t) ==
  /\ att[t].pc = "tc" /\ Alive(att[t].cg)
  /\ att' = [att EXCEPT ![t].pc = "fd"]
  /\ UNCHANGED <<ctr, ino, progs, manager, fails>>

\* The attach fails, or the process is gone: the placeholder is rolled back.
AttachFails(t) ==
  /\ att[t].pc \in {"tc", "fd"}
  /\ LET g == att[t].cg
         i == ino[PodOf[g]]
     IN /\ Alive(g) => fails < MaxFails
        /\ fails' = IF Alive(g) THEN fails + 1 ELSE fails
        /\ tc' = IF tc[i] # None /\ tc[i].by = t /\ ~tc[i].fd THEN [tc EXCEPT ![i] = None] ELSE tc
  /\ att' = [att EXCEPT ![t] = AttachEnd(t, att[t].cg, TRUE)]
  /\ UNCHANGED <<ctr, ino, progs, paths, links, netnsOf>>

\* The program is attached; the placeholder, if it is still there, becomes
\* the entry that holds the netns descriptor, which is closed otherwise.
AttachSucceeds(t) ==
  /\ att[t].pc = "fd"
  /\ LET g == att[t].cg
         i == ino[PodOf[g]]
     IN /\ progs' = [progs EXCEPT ![PodOf[g]] = @ + 1]
        /\ tc' = IF tc[i] # None /\ tc[i].by = t /\ ~tc[i].fd THEN [tc EXCEPT ![i].fd = TRUE] ELSE tc
  /\ att' = [att EXCEPT ![t] = AttachEnd(t, att[t].cg, TRUE)]
  /\ UNCHANGED <<ctr, ino, paths, links, netnsOf, fails>>

AttachStep == \E t \in Thread : AttachOpen(t) \/ AttachFails(t) \/ AttachSucceeds(t)

Return(t) == att' = [att EXCEPT ![t] = NoAttach]

------------------------------------------------------------------------------
(* Tracking cgroups: the values of the maps after an operation.              *)

\* RecordCgroupNetns finds no process to stat after the container exited.
Recorded(g) == IF Alive(g) THEN [netnsOf EXCEPT ![g] = ino[PodOf[g]]] ELSE netnsOf

\* Mutant: the record is zeroed, not deleted.
NetnsZeroed(ns, G) == [g \in Cgroup |-> IF g \in G THEN 0 ELSE ns[g]]

\* ReleaseCgroupNetns of every cgroup of G: an inode nothing records any
\* more loses its entry.
NetnsReleased(ns, G) == [g \in Cgroup |-> IF g \in G THEN None ELSE ns[g]]
TcReleased(ns, G) ==
  [i \in Inode |-> IF (\E g \in G : ns[g] = i) /\ \A g \in Cgroup \ G : ns[g] # i
                   THEN None ELSE tc[i]]

\* UntrackExitedCgroup of every cgroup of G.
UntrackExited(G) ==
  /\ paths' = paths \ G
  /\ links' = links \ G

\* A netns inode the kernel may give to a new netns: no live one has it, and
\* no descriptor of it is open.
Free(i, users) ==
  /\ \A p \in users : ino[p] # i
  /\ tc[i] # None => ~tc[i].fd
  /\ \A t \in Thread : att[t].pc = "fd" => ino[PodOf[att[t].cg]] # i

AttachTypeOK ==
  /\ ctr \in [Cgroup -> {"none", "created", "script", "running", "exited"}]
  /\ ino \in [Pod -> Inode \cup {None}]
  /\ progs \in [Pod -> Nat]
  /\ paths \subseteq Cgroup /\ links \subseteq Cgroup
  /\ netnsOf \in [Cgroup -> Inode \cup {None}]
  /\ tc \in [Inode -> TcEntry \cup {None}]
  /\ att \in [Thread -> [pc : {"idle", "tc", "fd", "back"}, cg : Cgroup \cup {None}, ok : BOOLEAN]]
  /\ fails \in 0 .. MaxFails
=============================================================================
