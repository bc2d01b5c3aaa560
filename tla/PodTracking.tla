---------------------------- MODULE PodTracking ----------------------------
(***************************************************************************)
(* The pods of a node as the controller tracks them (pkg/controller):      *)
(* Reconcile and handleDelete in the one reconcile worker, PrepareSandbox  *)
(* and PrepareContainer in the calls of the container runtime (NRI) and    *)
(* the goroutines they leave behind, and the exec events of                *)
(* pkg/ebpf/uprobe.go, on top of TcAttach.                                 *)
(*                                                                         *)
(* The kubelet reports container states late, one status per pod at a      *)
(* time; the runtime waits for PrepareContainer until its timeout, which   *)
(* it may reach once the attach is in its goroutine.  A pod ends when its  *)
(* containers have exited.                                                 *)
(*                                                                         *)
(* Left out: pods that are deleted by force or disabled while containers   *)
(* run; a pod recreated under its name before the deletion is reconciled;  *)
(* exec events the ring buffer had no room for; host network pods.         *)
(***************************************************************************)
EXTENDS TcAttach

VARIABLES
  pod,      \* "new", "live", "over" (deleted, or finished)
  listed,   \* the containers the pods' statuses list as running
  queued,   \* the reconcile queue
  rec,      \* the reconcile under way
  tracked,  \* the pods of trackedPods and podKeyToUID
  attach,   \* trackedPods[uid]: "none", "pending" (false), "attached" (true)
  exited,   \* exitedCgroups
  started,  \* startedCgroups
  prep,     \* PrepareContainer: "idle", "claimed", "bound", "done"
  execs,    \* proc_events not read yet
  retries,  \* cgroups whose attach the poller retries
  bound,    \* the cgroups of m.bindings
  boundPod, \* the pods of m.bindings
  dns,      \* the pods of m.dnsRewrite
  unpinned  \* history: the pods whose netns got an inode that was recorded
            \* for a container of an earlier pod

world == <<pod, listed, ctr, ino, unpinned>>
tracking == <<tracked, attach, exited, started>>
events == <<execs, retries>>
bindings == <<bound, boundPod, dns>>
vars == <<world, queued, rec, tracking, prep, events, bindings, progs, manager, att, fails>>

NoRec == [pc |-> "idle", pod |-> None, ids |-> {}, gone |-> {}, todo |-> {}, dns |-> FALSE]

Init ==
  /\ AttachInit
  /\ pod = [p \in Pod |-> "new"]
  /\ listed = {} /\ queued = {}
  /\ rec = NoRec
  /\ tracked = {} /\ exited = {} /\ started = {}
  /\ attach = [g \in Cgroup |-> "none"]
  /\ prep = [g \in Cgroup |-> "idle"]
  /\ execs = {} /\ retries = {}
  /\ bound = {} /\ boundPod = {} /\ dns = {} /\ unpinned = {}

------------------------------------------------------------------------------
(* The node.                                                                 *)

\* A sandbox gets a netns, whose inode may be one another pod's netns had.
CreatePod(p) ==
  /\ pod[p] = "new"
  /\ \E i \in Inode :
       /\ Free(i, {q \in Pod : pod[q] = "live" \/ q \in dns})
       /\ ino' = [ino EXCEPT ![p] = i]
       /\ unpinned' = IF \E g \in Cgroup : netnsOf[g] = i THEN unpinned \cup {p} ELSE unpinned
  /\ pod' = [pod EXCEPT ![p] = "live"]
  /\ queued' = queued \cup {p}
  /\ UNCHANGED <<listed, ctr, rec, tracking, prep, events, bindings, progs, manager, att, fails>>

CreateContainer(g) ==
  /\ pod[PodOf[g]] = "live" /\ ctr[g] = "none"
  /\ ctr' = [ctr EXCEPT ![g] = "created"]
  /\ UNCHANGED <<unpinned, pod, listed, ino, queued, rec, tracking, prep, events, bindings, progs, manager, att, fails>>

\* The command runs, or the program its script runs: an exec event.
StartContainer(g) ==
  /\ \/ ctr[g] = "created" /\ prep[g] # "claimed"
     \/ ctr[g] = "script"
  /\ ctr' = [ctr EXCEPT ![g] = IF @ = "script" \/ g \in LibTls THEN "running" ELSE "script"]
  /\ execs' = execs \cup {g}
  /\ UNCHANGED <<unpinned, pod, listed, ino, queued, rec, tracking, prep, retries, bindings, progs, manager, att, fails>>

ExitContainer(g) ==
  /\ ctr[g] \in {"script", "running"}
  /\ ctr' = [ctr EXCEPT ![g] = "exited"]
  /\ UNCHANGED <<unpinned, pod, listed, ino, queued, rec, tracking, prep, events, bindings, progs, manager, att, fails>>

Running(p) == {g \in CgroupsOf(p) : ctr[g] \in {"script", "running"}}

\* The kubelet updates a pod's status.
UpdateStatus(p) ==
  /\ pod[p] = "live" /\ listed \cap CgroupsOf(p) # Running(p)
  /\ listed' = (listed \ CgroupsOf(p)) \cup Running(p)
  /\ queued' = queued \cup {p}
  /\ UNCHANGED <<unpinned, pod, ctr, ino, rec, tracking, prep, events, bindings, progs, manager, att, fails>>

EndPod(p) ==
  /\ pod[p] = "live" /\ \A g \in CgroupsOf(p) : ~Alive(g)
  /\ pod' = [pod EXCEPT ![p] = "over"]
  /\ listed' = listed \ CgroupsOf(p)
  /\ queued' = queued \cup {p}
  /\ UNCHANGED <<unpinned, ctr, ino, rec, tracking, prep, events, bindings, progs, manager, att, fails>>

NodeStep ==
  \/ \E p \in Pod : CreatePod(p) \/ UpdateStatus(p) \/ EndPod(p)
  \/ \E g \in Cgroup : CreateContainer(g) \/ StartContainer(g) \/ ExitContainer(g)

------------------------------------------------------------------------------
(* Reconcile.                                                                *)

\* The DNS rewrite of p is attached, or fails to be.
AttachDNSRewrite(p, ok) ==
  /\ ~ok => p \notin dns /\ fails < MaxFails
  /\ fails' = IF ok THEN fails ELSE fails + 1
  /\ dns' = IF ok THEN dns \cup {p} ELSE dns

\* handleDelete, for a pod that is tracked.
ReconcileGone(p) ==
  /\ rec.pc = "idle" /\ p \in queued /\ pod[p] = "over"
  /\ queued' = queued \ {p}
  /\ IF p \in tracked
     THEN LET mine == {g \in CgroupsOf(p) : attach[g] # "none"}
              all == mine \cup (exited \cap CgroupsOf(p))
          IN /\ UntrackExited(mine)
             /\ netnsOf' = NetnsReleased(netnsOf, all)
             /\ tc' = TcReleased(netnsOf, all)
             /\ bound' = bound \ CgroupsOf(p) /\ boundPod' = boundPod \ {p}
             /\ dns' = dns \ {p}
             /\ tracked' = tracked \ {p}
             /\ attach' = [g \in Cgroup |-> IF PodOf[g] = p THEN "none" ELSE attach[g]]
             /\ exited' = exited \ CgroupsOf(p) /\ started' = started \ CgroupsOf(p)
     ELSE UNCHANGED <<manager, bindings, tracking>>
  /\ UNCHANGED <<world, rec, prep, events, progs, att, fails>>

\* The status lists no running container, or the rewrite of a pending pod is
\* not attached: the network is bound, or the pod is requeued.
ReconcileNetwork(p, ok, pending) ==
  /\ rec.pc = "idle" /\ p \in queued /\ pod[p] = "live"
  /\ \/ listed \cap CgroupsOf(p) = {}
     \/ pending /\ ~ok
  /\ AttachDNSRewrite(p, ok)
  /\ tracked' = tracked \cup {p}
  /\ boundPod' = IF pending /\ ok THEN boundPod \cup {p} ELSE boundPod
  /\ queued' = IF pending /\ ok THEN queued \ {p} ELSE queued
  /\ UNCHANGED <<world, rec, attach, exited, started, prep, events, bound, progs, manager, att>>

\* None of the containers listed is there any more.
ReconcileEarly(p, ok) ==
  /\ rec.pc = "idle" /\ p \in queued /\ pod[p] = "live"
  /\ listed \cap CgroupsOf(p) # {}
  /\ \A g \in listed \cap CgroupsOf(p) : ~Alive(g)
  /\ AttachDNSRewrite(p, ok)
  /\ tracked' = tracked \cup {p}
  /\ UNCHANGED <<world, queued, rec, attach, exited, started, prep, events, bound, boundPod, progs, manager, att>>

\* Mutant: only the status says what runs.
ContainersListed(p) == {g \in CgroupsOf(p) : g \in listed /\ Alive(g)}

\* The pod's containers: listed, or about to start when PrepareContainer
\* claimed them, and still there.
Containers(p) == {g \in CgroupsOf(p) : g \in listed \cup started /\ Alive(g)}

\* The section of Reconcile under r.mu, and what leads to it.
ReconcileStart(p, ok) ==
  /\ rec.pc = "idle" /\ p \in queued /\ pod[p] = "live"
  /\ \E g \in listed \cap CgroupsOf(p) : Alive(g)
  /\ AttachDNSRewrite(p, ok)
  /\ LET ids == Containers(p)
         gone == {g \in CgroupsOf(p) \ ids : attach[g] # "none"}
         fresh == {g \in ids : attach[g] = "none"}
     IN /\ attach' = [g \in Cgroup |-> IF g \in gone THEN "none"
                                       ELSE IF g \in fresh THEN "pending" ELSE attach[g]]
        /\ exited' = (exited \ fresh) \cup gone
        /\ started' = started \ (CgroupsOf(p) \ (ids \ listed))
        /\ rec' = [pc |-> "bind", pod |-> p, ids |-> ids, gone |-> gone, dns |-> ok,
                   todo |-> {g \in ids : attach[g] # "attached"}]
  /\ tracked' = tracked \cup {p}
  /\ queued' = queued \ {p}
  /\ UNCHANGED <<world, prep, events, bound, boundPod, progs, manager, att>>

\* Mutant: nothing is bound when nothing is to be attached.
ReconcileBindsNew ==
  /\ rec.pc = "bind"
  /\ UntrackExited(rec.gone)
  /\ bound' = IF rec.todo = {} THEN bound ELSE (bound \ CgroupsOf(rec.pod)) \cup rec.ids
  /\ boundPod' = boundPod \cup {rec.pod}
  /\ rec' = [rec EXCEPT !.pc = "attach", !.gone = {}, !.ids = {}]
  /\ UNCHANGED <<world, queued, tracking, prep, events, dns, progs, netnsOf, tc, att, fails>>

\* Mutant: the netns of an exited container is released with the rest.
ReconcileReleases ==
  /\ rec.pc = "bind"
  /\ UntrackExited(rec.gone)
  /\ netnsOf' = NetnsReleased(netnsOf, rec.gone)
  /\ tc' = TcReleased(netnsOf, rec.gone)
  /\ bound' = (bound \ CgroupsOf(rec.pod)) \cup rec.ids
  /\ boundPod' = boundPod \cup {rec.pod}
  /\ rec' = [rec EXCEPT !.pc = "attach", !.gone = {}, !.ids = {}]
  /\ UNCHANGED <<world, queued, tracking, prep, events, dns, progs, att, fails>>

\* UntrackExitedCgroup of the containers that exited, and BindPodSecrets of
\* those found when the reconcile started.
ReconcileBind ==
  /\ rec.pc = "bind"
  /\ UntrackExited(rec.gone)
  /\ bound' = (bound \ CgroupsOf(rec.pod)) \cup rec.ids
  /\ boundPod' = boundPod \cup {rec.pod}
  /\ rec' = [rec EXCEPT !.pc = "attach", !.gone = {}, !.ids = {}]
  /\ UNCHANGED <<world, queued, tracking, prep, events, dns, progs, netnsOf, tc, att, fails>>

ReconcileAttach(g) ==
  /\ rec.pc = "attach" /\ g \in rec.todo
  /\ AttachBegin(Rec, g)
  /\ UNCHANGED <<pod, listed, unpinned, queued, rec, tracking, prep, events, bindings>>

ReconcileAttached ==
  /\ att[Rec].pc = "back"
  /\ LET g == att[Rec].cg
     IN /\ attach' = IF att[Rec].ok /\ PodOf[g] \in tracked THEN [attach EXCEPT ![g] = "attached"] ELSE attach
        /\ paths' = IF att[Rec].ok THEN paths \cup {g} ELSE paths
        /\ netnsOf' = IF att[Rec].ok THEN Recorded(g) ELSE netnsOf
        /\ rec' = [rec EXCEPT !.todo = @ \ {g}]
  /\ Return(Rec)
  /\ UNCHANGED <<world, queued, tracked, exited, started, prep, events, bindings, progs, links, tc, fails>>

\* Requeued when the rewrite or an attach is to be retried.
ReconcileEnd ==
  /\ rec.pc = "attach" /\ rec.todo = {}
  /\ queued' = IF ~rec.dns \/ \E g \in CgroupsOf(rec.pod) : attach[g] = "pending"
               THEN queued \cup {rec.pod} ELSE queued
  /\ rec' = NoRec
  /\ UNCHANGED <<world, tracking, prep, events, bindings, progs, manager, att, fails>>

ReconcileBegin(p) ==
  \/ ReconcileGone(p)
  \/ \E ok \in BOOLEAN :
       \/ \E pending \in BOOLEAN : ReconcileNetwork(p, ok, pending)
       \/ ReconcileEarly(p, ok)
       \/ ReconcileStart(p, ok)

ReconcileStep ==
  \/ ReconcileBind \/ ReconcileAttached \/ ReconcileEnd
  \/ \E g \in Cgroup : ReconcileAttach(g)

------------------------------------------------------------------------------
(* The container runtime's calls.                                            *)

\* PrepareSandbox, at the creation of the sandbox or of a container.
PrepareSandbox(p, ok) ==
  /\ pod[p] = "live" /\ p \notin dns
  /\ AttachDNSRewrite(p, ok)
  /\ tracked' = tracked \cup {p}
  /\ boundPod' = IF ok THEN boundPod \cup {p} ELSE boundPod
  /\ UNCHANGED <<world, queued, rec, attach, exited, started, prep, events, bound, progs, manager, att>>

\* PrepareContainer claims the container, unless the reconciler has it.
PrepareClaim(g) ==
  /\ ctr[g] = "created" /\ prep[g] = "idle"
  /\ tracked' = tracked \cup {PodOf[g]}
  /\ IF attach[g] # "none"
     THEN prep' = [prep EXCEPT ![g] = "done"] /\ UNCHANGED <<attach, started>>
     ELSE /\ prep' = [prep EXCEPT ![g] = "claimed"]
          /\ attach' = [attach EXCEPT ![g] = "attached"]
          /\ started' = started \cup {g}
  /\ UNCHANGED <<world, queued, rec, exited, events, bindings, progs, manager, att, fails>>

\* TrackCgroup and BindPodContainer.
PrepareBind(g) ==
  /\ prep[g] = "claimed"
  /\ prep' = [prep EXCEPT ![g] = "bound"]
  /\ paths' = paths \cup {g}
  /\ bound' = bound \cup {g} /\ boundPod' = boundPod \cup {PodOf[g]}
  /\ UNCHANGED <<world, queued, rec, tracking, events, dns, progs, links, netnsOf, tc, att, fails>>

PrepareAttach(g) ==
  /\ prep[g] = "bound"
  /\ AttachBegin(Nri(g), g)
  /\ UNCHANGED <<pod, listed, unpinned, queued, rec, tracking, prep, events, bindings>>

\* Mutant: what happened meanwhile is not looked at.
PrepareMarks(g) ==
  /\ att[Nri(g)].pc = "back"
  /\ attach' = [attach EXCEPT ![g] = IF att[Nri(g)].ok THEN "attached" ELSE "pending"]
  /\ netnsOf' = IF att[Nri(g)].ok THEN Recorded(g) ELSE netnsOf
  /\ prep' = [prep EXCEPT ![g] = "done"]
  /\ Return(Nri(g))
  /\ UNCHANGED <<world, queued, rec, tracked, exited, started, events, bindings, progs, paths, links, tc, fails>>

\* The end of the goroutine: the container is still tracked, or it exited
\* or its pod went meanwhile, and what was attached is released.
PrepareAttached(g) ==
  /\ att[Nri(g)].pc = "back"
  /\ LET ok == att[Nri(g)].ok
         ns == IF ok THEN Recorded(g) ELSE netnsOf
     IN \/ /\ attach[g] # "none"
           /\ attach' = [attach EXCEPT ![g] = IF ok THEN "attached" ELSE "pending"]
           /\ netnsOf' = ns
           /\ UNCHANGED <<paths, links, tc>>
        \/ /\ attach[g] = "none" /\ g \in exited
           /\ UntrackExited({g})
           /\ netnsOf' = ns
           /\ UNCHANGED <<attach, tc>>
        \/ /\ attach[g] = "none" /\ g \notin exited
           /\ UntrackExited({g})
           /\ netnsOf' = NetnsReleased(ns, {g})
           /\ tc' = TcReleased(ns, {g})
           /\ UNCHANGED attach
  /\ prep' = [prep EXCEPT ![g] = "done"]
  /\ Return(Nri(g))
  /\ UNCHANGED <<world, queued, rec, tracked, exited, started, events, bindings, progs, fails>>

PrepareStep(g) == PrepareBind(g) \/ PrepareAttach(g) \/ PrepareAttached(g)

------------------------------------------------------------------------------
(* PollExecEvents.                                                           *)

\* An exec event: an attach that finds nothing is tried again.
PollExec(g) ==
  /\ g \in execs /\ att[Poll].pc = "idle"
  /\ execs' = execs \ {g}
  /\ retries' = IF g \in paths /\ ~Finds(Poll, g) THEN retries \cup {g} ELSE retries
  /\ IF g \in paths THEN AttachBegin(Poll, g) ELSE UNCHANGED <<ctr, attachVars>>
  /\ UNCHANGED <<pod, listed, unpinned, queued, rec, tracking, prep, bindings>>

\* Two seconds later, if the cgroup is still tracked.
RetryExec(g) ==
  /\ g \in retries
  /\ retries' = retries \ {g}
  /\ IF g \in paths THEN AttachBegin(Retry(g), g) ELSE UNCHANGED <<ctr, attachVars>>
  /\ UNCHANGED <<pod, listed, unpinned, queued, rec, tracking, prep, execs, bindings>>

PollStep == \E g \in Cgroup : PollExec(g) \/ RetryExec(g)

------------------------------------------------------------------------------
Attaching == AttachStep /\ UNCHANGED <<pod, listed, unpinned, queued, rec, tracking, prep, events, bindings>>

Next ==
  \/ NodeStep
  \/ \E p \in Pod : ReconcileBegin(p)
  \/ ReconcileStep
  \/ \E p \in Pod, ok \in BOOLEAN : PrepareSandbox(p, ok)
  \/ \E g \in Cgroup : PrepareClaim(g) \/ PrepareStep(g)
  \/ PollStep
  \/ Attaching

Spec == Init /\ [][Next]_vars

\* Attaches, goroutines, exec events and their timers, statuses.  Each of these
\* steps stays enabled until it is taken, so that weak fairness of their
\* disjunction asks no more than weak fairness of each.
Background ==
  \/ Attaching
  \/ \E g \in Cgroup : PrepareStep(g)
  \/ PollStep
  \/ \E p \in Pod : UpdateStatus(p)

\* The background goes on, and the workqueue is first in, first out.
FairSpec ==
  /\ Spec
  /\ WF_vars(Background) /\ WF_vars(ReconcileStep)
  /\ \A p \in Pod : SF_vars(ReconcileBegin(p))

------------------------------------------------------------------------------
\* The maps of the controller and of the manager keep their shapes.
TypeOK ==
  /\ AttachTypeOK
  /\ pod \in [Pod -> {"new", "live", "over"}]
  /\ listed \subseteq Cgroup /\ queued \subseteq Pod
  /\ rec \in [pc : {"idle", "bind", "attach"}, pod : Pod \cup {None}, ids : SUBSET Cgroup,
              gone : SUBSET Cgroup, todo : SUBSET Cgroup, dns : BOOLEAN]
  /\ tracked \subseteq Pod
  /\ attach \in [Cgroup -> {"none", "pending", "attached"}]
  /\ exited \subseteq Cgroup /\ started \subseteq Cgroup
  /\ prep \in [Cgroup -> {"idle", "claimed", "bound", "done"}]
  /\ execs \subseteq Cgroup /\ retries \subseteq Cgroup
  /\ bound \subseteq Cgroup /\ boundPod \subseteq Pod /\ dns \subseteq Pod /\ unpinned \subseteq Pod

\* However many threads attach, and whichever container comes and goes, a
\* pod's interface has at most one patch program: two would patch every
\* record twice (uprobe.go:603-640, 1126-1133).
OneProgram == \A p \in Pod \ unpinned : pod[p] = "live" => progs[p] <= 1

\* An entry of tcAttached with a descriptor is about the netns that has the
\* inode now: the pod is patched, and no earlier pod's entry keeps the
\* program from being attached (uprobe.go:600-603).
DedupSound ==
  \A p \in Pod \ unpinned :
    pod[p] = "live" /\ tc[ino[p]] # None /\ tc[ino[p]].fd => progs[p] = 1

\* Whatever was under way when a pod ended, nothing stays tracked, bound,
\* attached or recorded for it once its end is reconciled and the goroutines
\* of its containers are done (handleDelete, PrepareContainer's re-check).
\* The netns descriptor is not part of it: see the README.
NothingLeft ==
  \A p \in Pod :
    /\ pod[p] = "over" /\ p \notin queued /\ rec.pod # p
    /\ \A g \in CgroupsOf(p) : prep[g] \in {"idle", "done"}
    => /\ p \notin tracked \cup boundPod \cup dns
       /\ \A g \in CgroupsOf(p) :
            /\ attach[g] = "none" /\ netnsOf[g] = None
            /\ g \notin exited \cup started \cup paths \cup links \cup bound

\* A container that runs is never untracked, although the status the
\* reconciler works from may not list it yet (startedCgroups).
RunningKept ==
  [][\A g \in Cgroup : ctr[g] = "running" =>
       /\ g \in paths => g \in paths'
       /\ g \in links => g \in links']_vars

\* A container that keeps running gets its uprobes and its pod's secrets, and
\* the pod its DNS rewrite, for good, whatever raced its start: a binding lost
\* to a reconcile that began before it, an attach that failed before the
\* command ran, a status that came late.
Served ==
  <>[](\A g \in Cgroup :
         ctr[g] = "running" => g \in bound /\ g \in links /\ PodOf[g] \in dns)

\* "returning nil would mask an in-flight failure (if that goroutine deletes
\* its placeholder, the caller who got nil won't retry and the pod stays
\* unpatched)" (uprobe.go:614-617): with no attach that fails by itself, the
\* pod of a container that keeps running gets its patch program.
Patched ==
  <>[](\A g \in Cgroup : ctr[g] = "running" => progs[PodOf[g]] = 1)
=============================================================================
