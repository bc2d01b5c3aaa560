---------------------------- MODULE SecretBinding ----------------------------
(***************************************************************************)
(* The secrets the data plane may rewrite and the pods that may redeem     *)
(* them: SyncSecrets and the Bind/Unbind operations of TLSUprobeManager    *)
(* (pkg/ebpf/uprobe.go, sync.go, secret_binding.go), driven by the secret  *)
(* sync controller (pkg/controller/secret_sync.go) and by the pod          *)
(* reconciler.                                                             *)
(*                                                                         *)
(* secret_map is written by the one sync worker without a lock, one key    *)
(* per step.  secret_acl and vip_pod_host are only written under bindMu:   *)
(* a section under it is one action, which is sound because it writes each *)
(* key at most once and the data plane reads single keys.  Any of the map  *)
(* operations of a section may fail; the sections log it and go on.        *)
(*                                                                         *)
(* Left out: the virtual IPs between the two halves of a sync (VirtualIP); *)
(* the second, Huffman-coded key of a placeholder, which goes wherever the *)
(* first goes; secrets the sync skips (host too long, shadow too short).   *)
(***************************************************************************)
EXTENDS Naturals, FiniteSets

CONSTANTS
  Pod, Cgroup, Addr, Secret, Owner, Host, Placeholder,
  None,        \* no secret, no host
  AllKeys,     \* Ref.Keys == nil: every data key of the owner
  AnyHost,     \* the all-zero host of vip_pod_host
  CgroupsOf,   \* the containers of a pod
  AddrsOf,     \* the address sets a pod may have; two pods may share one
  RefsOf,      \* the reference sets a pod may have
  OwnerOf,     \* the Secret object a data key belongs to
  Versions,    \* what the source may say of a secret: [key, host]
  MaxChanges,  \* bound: changes of the source
  MaxFaults    \* bound: sections with a failed operation

Version == [key : Placeholder, host : Host \cup {None}]
Ref == [owner : Owner, keys : {AllKeys} \cup SUBSET Secret]
Binding == [cgroups : SUBSET Cgroup, addrs : SUBSET Addr, refs : SUBSET Ref]

\* The zero podBinding, which m.bindings returns for a pod without one.
NoBinding == [cgroups |-> {}, addrs |-> {}, refs |-> {}]

ASSUME PodsAssumption ==
  /\ CgroupsOf \in [Pod -> SUBSET Cgroup]
  /\ AddrsOf \in [Pod -> SUBSET SUBSET Addr]
  /\ RefsOf \in [Pod -> SUBSET SUBSET Ref]
  /\ \A p, q \in Pod : p # q => CgroupsOf[p] \cap CgroupsOf[q] = {}

\* The shadow generator gives no two secrets one placeholder prefix.
ASSUME SecretsAssumption ==
  /\ OwnerOf \in [Secret -> Owner]
  /\ Versions \in [Secret -> SUBSET Version]
  /\ None \notin Version
  /\ \A s, t \in Secret : \A v \in Versions[s], w \in Versions[t] :
       v.key = w.key => s = t

ASSUME BoundsAssumption == MaxChanges \in Nat /\ MaxFaults \in Nat

VARIABLES
  source,        \* the secret source: [Secret -> a version or None]
  secretMap,     \* secret_map: [Placeholder -> the secret and its host, or None]
  sync,          \* the sync worker: where it is, its snapshot, its keys to do
  lastSnapshot,  \* m.lastSnapshot
  bindings,      \* m.bindings
  acl,           \* secret_acl
  podHost,       \* vip_pod_host
  audit,         \* m.bindingMode == SecretBindingAudit
  faulty,        \* the maps with a failed operation since their last full sync
  changes, faults

world == <<source, changes>>
maps == <<acl, podHost>>
vars == <<source, secretMap, sync, lastSnapshot, bindings, acl, podHost,
          audit, faulty, changes, faults>>

Snapshots == [Secret -> Version \cup {None}]
NoSecrets == [s \in Secret |-> None]
Idle == [pc |-> "idle", snap |-> NoSecrets, todo |-> {}]

------------------------------------------------------------------------------
(* What bindings grant over a snapshot.                                      *)

\* indexSecrets and secretsByRef.each
Granted(snap, refs) ==
  {s \in Secret : /\ snap[s] # None
                  /\ \E r \in refs : /\ r.owner = OwnerOf[s]
                                     /\ r.keys = AllKeys \/ s \in r.keys}

\* Mutant: the data keys a reference is restricted to are ignored.
OwnersACL(snap, b) ==
  b.cgroups \X {snap[s].key : s \in {t \in Secret : /\ snap[t] # None
                                                     /\ \E r \in b.refs : r.owner = OwnerOf[t]}}

SecretACL(snap, b) ==
  b.cgroups \X {snap[s].key : s \in Granted(snap, b.refs)}

\* Mutant: an empty host counts as a host.
HostsOrEmpty(snap, refs) == {snap[s].host : s \in Granted(snap, refs)}

HostsOf(snap, refs) == {snap[s].host : s \in Granted(snap, refs)} \ {None}

VipPodHosts(snap, b) ==
  b.addrs \X (IF audit THEN {AnyHost} ELSE HostsOf(snap, b.refs))

AllACL(snap, bs) == UNION {SecretACL(snap, bs[p]) : p \in Pod}
AllPodHosts(snap, bs) == UNION {VipPodHosts(snap, bs[p]) : p \in Pod}

------------------------------------------------------------------------------
(* Map operations.                                                           *)

MapNames == {"secret_map", "secret_acl", "vip_pod_host"}

\* The operations of failed may fail: within the bound, and on the record.
Fail(failed, synced) ==
  /\ failed # {} => faults < MaxFaults
  /\ faulty' = (faulty \ synced) \cup failed
  /\ faults' = IF failed = {} THEN faults ELSE faults + 1

\* The sets of operations among ops that may fail.
Failing(ops) == IF faults < MaxFaults THEN SUBSET ops ELSE {{}}

\* add and drop applied to map, but for the entries of bad, whose operation fails.
Edit(map, add, drop, bad) == (map \ (drop \ bad)) \cup (add \ bad)

\* A section under bindMu edits both maps.  synced names the maps it leaves
\* complete when no operation on them fails.
Section(addACL, dropACL, addHosts, dropHosts, synced) ==
  \E badACL \in Failing((addACL \ acl) \cup (dropACL \cap acl)),
     badHosts \in Failing((addHosts \ podHost) \cup (dropHosts \cap podHost)) :
    /\ Fail((IF badACL = {} THEN {} ELSE {"secret_acl"})
              \cup (IF badHosts = {} THEN {} ELSE {"vip_pod_host"}), synced)
    /\ acl' = Edit(acl, addACL, dropACL, badACL)
    /\ podHost' = Edit(podHost, addHosts, dropHosts, badHosts)

------------------------------------------------------------------------------
(* The secret source and the sync worker.                                    *)

Init ==
  /\ source \in [Secret -> {None} \cup UNION {Versions[s] : s \in Secret}]
  /\ \A s \in Secret : source[s] \in Versions[s] \cup {None}
  /\ secretMap = [k \in Placeholder |-> None]
  /\ sync = Idle
  /\ lastSnapshot = NoSecrets
  /\ bindings = [p \in Pod |-> NoBinding]
  /\ acl = {}
  /\ podHost = {}
  /\ audit \in BOOLEAN
  /\ faulty = {}
  /\ changes = 0
  /\ faults = 0

\* A Secret or its shadow is created, changed or deleted.
ChangeSecret(s, v) ==
  /\ changes < MaxChanges
  /\ v \in (Versions[s] \cup {None}) \ {source[s]}
  /\ source' = [source EXCEPT ![s] = v]
  /\ changes' = changes + 1
  /\ UNCHANGED <<secretMap, sync, lastSnapshot, bindings, maps, audit, faulty, faults>>

\* Mutant: a sync with nothing new is skipped.
StartSyncIfChanged ==
  /\ sync.pc = "idle" /\ source # lastSnapshot
  /\ sync' = [pc |-> "upsert", snap |-> source, todo |-> {s \in Secret : source[s] # None}]
  /\ Fail({}, {"secret_map"})
  /\ UNCHANGED <<world, secretMap, lastSnapshot, bindings, maps, audit>>

\* SyncSecrets: an event, the backoff after an error or the resync period
\* starts one; a failed Snapshot leaves everything as it is.
StartSync ==
  /\ sync.pc = "idle"
  /\ sync' = [pc |-> "upsert", snap |-> source, todo |-> {s \in Secret : source[s] # None}]
  /\ Fail({}, {"secret_map"})
  /\ UNCHANGED <<world, secretMap, lastSnapshot, bindings, maps, audit>>

\* What applySecrets wants secret_map to hold.
WantedEntry(snap, k) ==
  IF \E s \in Secret : snap[s] # None /\ snap[s].key = k
  THEN LET s == CHOOSE t \in Secret : snap[t] # None /\ snap[t].key = k
       IN  [secret |-> s, host |-> snap[s].host]
  ELSE None

StaleKeys(snap) == {k \in Placeholder : secretMap[k] # None /\ WantedEntry(snap, k) = None}

\* One Update of applySecrets.
UpsertSecret(s, ok) ==
  /\ sync.pc = "upsert" /\ s \in sync.todo
  /\ Fail(IF ok THEN {} ELSE {"secret_map"}, {})
  /\ secretMap' = IF ok THEN [secretMap EXCEPT ![sync.snap[s].key] =
                                [secret |-> s, host |-> sync.snap[s].host]]
                         ELSE secretMap
  /\ sync' = [sync EXCEPT !.todo = @ \ {s}]
  /\ UNCHANGED <<world, lastSnapshot, bindings, maps, audit>>

\* Mutant: only keys the last snapshot had are looked at.
ListStaleKnown ==
  /\ sync.pc = "upsert" /\ sync.todo = {}
  /\ sync' = [sync EXCEPT !.pc = "prune",
                          !.todo = {k \in StaleKeys(sync.snap) : WantedEntry(lastSnapshot, k) = None}]
  /\ UNCHANGED <<world, secretMap, lastSnapshot, bindings, maps, audit, faulty, faults>>

\* applySecrets iterates over the map for the keys to prune.
ListStale ==
  /\ sync.pc = "upsert" /\ sync.todo = {}
  /\ sync' = [sync EXCEPT !.pc = "prune", !.todo = StaleKeys(sync.snap)]
  /\ UNCHANGED <<world, secretMap, lastSnapshot, bindings, maps, audit, faulty, faults>>

\* One Delete of applySecrets.
PruneKey(k, ok) ==
  /\ sync.pc = "prune" /\ k \in sync.todo
  /\ Fail(IF ok THEN {} ELSE {"secret_map"}, {})
  /\ secretMap' = IF ok THEN [secretMap EXCEPT ![k] = None] ELSE secretMap
  /\ sync' = [sync EXCEPT !.todo = @ \ {k}]
  /\ UNCHANGED <<world, lastSnapshot, bindings, maps, audit>>

\* The section of SyncSecrets under bindMu: syncSecretACL and syncVipPodHost.
BindSync ==
  /\ sync.pc = "prune" /\ sync.todo = {}
  /\ lastSnapshot' = sync.snap
  /\ LET wantACL == AllACL(sync.snap, bindings)
         wantHosts == AllPodHosts(sync.snap, bindings)
     IN  Section(wantACL, acl \ wantACL, wantHosts, podHost \ wantHosts,
                 {"secret_acl", "vip_pod_host"})
  /\ sync' = Idle
  /\ UNCHANGED <<world, secretMap, bindings, audit>>

------------------------------------------------------------------------------
(* Bindings.                                                                 *)

\* Mutant: what a pod lost is revoked, whoever else may hold it.
BindAlone(p, b) ==
  /\ bindings' = [bindings EXCEPT ![p] = b]
  /\ LET addACL == SecretACL(lastSnapshot, b)
         addHosts == VipPodHosts(lastSnapshot, b)
     IN  Section(addACL, SecretACL(lastSnapshot, bindings[p]) \ addACL,
                 addHosts, VipPodHosts(lastSnapshot, bindings[p]) \ addHosts, {})
  /\ UNCHANGED <<world, secretMap, sync, lastSnapshot, audit>>

\* bindLocked and revokeLostLocked.
Bind(p, b) ==
  /\ bindings' = [bindings EXCEPT ![p] = b]
  /\ LET addACL == SecretACL(lastSnapshot, b)
         addHosts == VipPodHosts(lastSnapshot, b)
         lostACL == SecretACL(lastSnapshot, bindings[p]) \ addACL
         lostHosts == VipPodHosts(lastSnapshot, bindings[p]) \ addHosts
     IN  Section(addACL, lostACL \ AllACL(lastSnapshot, bindings'),
                 addHosts, lostHosts \ AllPodHosts(lastSnapshot, bindings'), {})
  /\ UNCHANGED <<world, secretMap, sync, lastSnapshot, audit>>

BindPodSecrets(p, addrs, cgs, refs) ==
  Bind(p, [cgroups |-> cgs, addrs |-> addrs, refs |-> refs])

BindPodNetwork(p, addrs, refs) ==
  Bind(p, [cgroups |-> bindings[p].cgroups, addrs |-> addrs, refs |-> refs])

BindPodContainer(p, addrs, cg, refs) ==
  Bind(p, [cgroups |-> bindings[p].cgroups \cup {cg},
           addrs |-> IF bindings[p].addrs # {} THEN bindings[p].addrs ELSE addrs,
           refs |-> refs])

\* secret_acl loses the entries of the pod's cgroups; the addresses may be
\* another pod's by now, so vip_pod_host is synced as a whole.
UnbindPod(p) ==
  /\ bindings[p] # NoBinding
  /\ bindings' = [bindings EXCEPT ![p] = NoBinding]
  /\ LET wantHosts == AllPodHosts(lastSnapshot, bindings')
         staleACL == {e \in acl : e[1] \in bindings[p].cgroups}
     IN  IF bindings[p].addrs # {}
         THEN Section({}, staleACL, wantHosts, podHost \ wantHosts, {"vip_pod_host"})
         ELSE Section({}, staleACL, {}, {}, {})
  /\ UNCHANGED <<world, secretMap, sync, lastSnapshot, audit>>

------------------------------------------------------------------------------
SyncStep ==
  \/ StartSync
  \/ \E s \in Secret, ok \in BOOLEAN : UpsertSecret(s, ok)
  \/ ListStale
  \/ \E k \in Placeholder, ok \in BOOLEAN : PruneKey(k, ok)
  \/ BindSync

PodStep(p) ==
  \/ \E addrs \in AddrsOf[p], refs \in RefsOf[p] :
       \/ \E cgs \in SUBSET CgroupsOf[p] : BindPodSecrets(p, addrs, cgs, refs)
       \/ BindPodNetwork(p, addrs, refs)
       \/ \E cg \in CgroupsOf[p] : BindPodContainer(p, addrs, cg, refs)
  \/ UnbindPod(p)

Next ==
  \/ SyncStep
  \/ \E p \in Pod : PodStep(p)
  \/ \E s \in Secret : \E v \in Versions[s] \cup {None} : ChangeSecret(s, v)

Spec == Init /\ [][Next]_vars

\* The workqueue retries a failed sync with backoff and requests another one
\* every ResyncPeriod after a good one, and a sync never waits.
FairSpec == Spec /\ WF_vars(SyncStep)

------------------------------------------------------------------------------
(* Properties.                                                               *)

Entry == [secret : Secret, host : Host \cup {None}]

\* The shapes of the maps and of the manager's fields; the source only offers
\* a secret's own versions, and a binding only holds the pod's own cgroups.
TypeOK ==
  /\ source \in Snapshots /\ lastSnapshot \in Snapshots
  /\ \A s \in Secret : {source[s], lastSnapshot[s], sync.snap[s]} \subseteq Versions[s] \cup {None}
  /\ secretMap \in [Placeholder -> Entry \cup {None}]
  /\ sync \in [pc : {"idle", "upsert", "prune"}, snap : Snapshots, todo : SUBSET (Secret \cup Placeholder)]
  /\ bindings \in [Pod -> Binding]
  /\ \A p \in Pod : bindings[p].cgroups \subseteq CgroupsOf[p]
  /\ acl \subseteq Cgroup \X Placeholder
  /\ podHost \subseteq Addr \X (Host \cup {AnyHost})
  /\ audit \in BOOLEAN
  /\ faulty \subseteq MapNames
  /\ changes \in 0 .. MaxChanges /\ faults \in 0 .. MaxFaults

\* The incremental grants and revocations of bindLocked, revokeLostLocked and
\* UnbindPod leave secret_acl and vip_pod_host as a full sync over the same
\* snapshot would (uprobe.go:2329-2444): an address two pods share, a cgroup
\* that went away or a reference that changed loses neither too much nor too
\* little.
BindingsExact ==
  /\ "secret_acl" \notin faulty => acl = AllACL(lastSnapshot, bindings)
  /\ "vip_pod_host" \notin faulty => podHost = AllPodHosts(lastSnapshot, bindings)

\* Between syncs secret_map holds the last snapshot, unless an operation of
\* the sync failed (applySecrets, sync.go:67-243).
SecretsExact ==
  sync.pc = "idle" /\ "secret_map" \notin faulty =>
    \A k \in Placeholder : secretMap[k] = WantedEntry(lastSnapshot, k)

\* The pairs of Entitlement.
Entitled ==
  UNION {bindings[p].cgroups \X Granted(lastSnapshot, bindings[p].refs) : p \in Pod}

Redeemable ==
  {e \in Cgroup \X Secret : \E k \in Placeholder :
     <<e[1], k>> \in acl /\ secretMap[k] # None /\ secretMap[k].secret = e[2]}

Leftover ==
  IF "secret_acl" \notin faulty THEN {}
  ELSE {e \in Cgroup \X Secret : \E v \in Versions[e[2]] : <<e[1], v.key>> \in acl} \ Entitled

Promise == INSTANCE Entitlement
  WITH entitled <- Entitled, redeemable <- Redeemable, leftover <- Leftover,
       faulty <- "secret_acl" \in faulty

\* Every step keeps the promise of the bindings: a container never redeems a
\* secret that it is not entitled to and was not left with by a failed
\* delete, although SyncSecrets writes secret_map outside bindMu, before it
\* records the snapshot the grants are computed from (uprobe.go:2247-2258).
KeepsPromise == Promise!Init /\ [][Promise!Next]_(Promise!vars)

\* A failed revocation is undone by a later sync.
FaultsSettle == Promise!Settles

\* Once the source is quiet and map operations succeed, the retried and
\* periodic syncs (secret_sync.go:44-55) make every map agree with the source
\* and the bindings for good.
Heals ==
  <>[](/\ lastSnapshot = source
       /\ \A k \in Placeholder : secretMap[k] = WantedEntry(source, k)
       /\ acl = AllACL(source, bindings)
       /\ podHost = AllPodHosts(source, bindings))
=============================================================================
