------------------------ MODULE SecretBindingProofs ------------------------
(***************************************************************************)
(* Proofs about SecretBinding, for any pods, containers, addresses,        *)
(* references and secrets, any changes of the source and any number of     *)
(* failed map operations: the maps hold what the bindings grant, and the   *)
(* maps together implement Entitlement.                                    *)
(*                                                                         *)
(* The promise needs both maps: a pair is redeemable when secret_acl has   *)
(* the container with a placeholder and secret_map has the placeholder     *)
(* with the secret. They are written under different locks and from        *)
(* different snapshots, and EntryOK is what makes that harmless: whichever *)
(* snapshot wrote it, an entry is under a placeholder of its own secret,   *)
(* and no placeholder is ever another secret's.                            *)
(***************************************************************************)
EXTENDS SecretBinding, TLAPS

----------------------------------------------------------------------------
(* The inductive invariant.                                                *)

\* An entry of secret_map is under one of its secret's placeholders.
EntryOK ==
  \A k \in Placeholder : secretMap[k] # None =>
    \E v \in Versions[secretMap[k].secret] : v.key = k

\* A sync works on secrets first, on placeholders then.
PhaseOK ==
  /\ sync.pc = "upsert" => \A s \in Secret : s \in sync.todo => sync.snap[s] # None
  /\ sync.pc = "prune" => sync.todo \subseteq Placeholder

\* Secrets that are not to be written any more are in secret_map.
UpsertOK ==
  sync.pc = "upsert" /\ "secret_map" \notin faulty =>
    \A s \in Secret : sync.snap[s] # None /\ s \notin sync.todo =>
      secretMap[sync.snap[s].key] = [secret |-> s, host |-> sync.snap[s].host]

\* Placeholders that are not to be deleted any more are as wanted.
PruneOK ==
  sync.pc = "prune" /\ "secret_map" \notin faulty =>
    \A k \in Placeholder :
      IF k \in sync.todo THEN WantedEntry(sync.snap, k) = None
                         ELSE secretMap[k] = WantedEntry(sync.snap, k)

BindInv ==
  /\ TypeOK /\ BindingsExact /\ SecretsExact
  /\ EntryOK /\ PhaseOK /\ UpsertOK /\ PruneOK

----------------------------------------------------------------------------
(* Placeholders, grants and sections.                                      *)

\* What a snapshot says of a secret: one of its own versions.
Sane(snap) == snap \in Snapshots /\ \A s \in Secret : snap[s] \in Versions[s] \cup {None}

\* A version of a secret is a placeholder of this secret and a host.
LEMMA VersionFacts ==
  ASSUME NEW s \in Secret, NEW v \in Versions[s]
  PROVE  /\ v \in Version /\ v # None /\ v.key \in Placeholder /\ v.host \in Host \cup {None}
         /\ \A t \in Secret : \A w \in Versions[t] : w.key = v.key => t = s
BY SecretsAssumption DEF Version

\* The entry wanted for a secret's placeholder is this secret's.
LEMMA WantedOfSecret ==
  ASSUME NEW snap, Sane(snap), NEW s \in Secret, snap[s] # None
  PROVE  WantedEntry(snap, snap[s].key) = [secret |-> s, host |-> snap[s].host]
<1> DEFINE k == snap[s].key
           P(t) == snap[t] # None /\ snap[t].key = k
<1>1. \A t \in Secret : P(t) => t = s
  BY VersionFacts DEF Sane
<1>2. (CHOOSE t \in Secret : P(t)) = s
  BY <1>1
<1>3. QED
  BY <1>2 DEF WantedEntry

\* A placeholder no secret of a snapshot has is not wanted.
LEMMA WantedOfNone ==
  ASSUME NEW snap, NEW k, \A s \in Secret : snap[s] # None => snap[s].key # k
  PROVE  WantedEntry(snap, k) = None
BY DEF WantedEntry

\* Who is in secret_acl for a placeholder of s, as a full sync leaves it, is
\* granted s itself.
LEMMA ACLMeansGranted ==
  ASSUME NEW snap, Sane(snap), NEW bs, NEW g, NEW s \in Secret, NEW v \in Versions[s],
         <<g, v.key>> \in AllACL(snap, bs)
  PROVE  \E p \in Pod : g \in bs[p].cgroups /\ s \in Granted(snap, bs[p].refs)
<1>1. PICK p \in Pod : <<g, v.key>> \in SecretACL(snap, bs[p])
  BY DEF AllACL
<1>2. PICK t \in Granted(snap, bs[p].refs) : v.key = snap[t].key /\ g \in bs[p].cgroups
  BY <1>1 DEF SecretACL
<1>3. t \in Secret /\ snap[t] \in Versions[t]
  BY <1>2 DEF Granted, Sane
<1>4. t = s
  BY <1>2, <1>3, VersionFacts
<1>5. QED
  BY <1>2, <1>4

\* What a section does to the maps, when operations may fail, and when the map
\* is not on record for it.
LEMMA SectionEffect ==
  ASSUME TypeOK, NEW addACL, NEW dropACL, NEW addHosts, NEW dropHosts,
         NEW synced \in SUBSET {"secret_acl", "vip_pod_host"},
         Section(addACL, dropACL, addHosts, dropHosts, synced)
  PROVE  /\ faulty' \subseteq MapNames /\ faults' \in 0 .. MaxFaults
         /\ "secret_map" \in faulty' <=> "secret_map" \in faulty
         /\ acl' \subseteq acl \cup addACL /\ podHost' \subseteq podHost \cup addHosts
         /\ "secret_acl" \notin faulty' =>
              /\ acl' = (acl \ dropACL) \cup addACL
              /\ "secret_acl" \notin faulty \/ "secret_acl" \in synced
         /\ "vip_pod_host" \notin faulty' =>
              /\ podHost' = (podHost \ dropHosts) \cup addHosts
              /\ "vip_pod_host" \notin faulty \/ "vip_pod_host" \in synced
<1>1. PICK badACL, badHosts :
        /\ Fail((IF badACL = {} THEN {} ELSE {"secret_acl"})
                  \cup (IF badHosts = {} THEN {} ELSE {"vip_pod_host"}), synced)
        /\ acl' = Edit(acl, addACL, dropACL, badACL)
        /\ podHost' = Edit(podHost, addHosts, dropHosts, badHosts)
  BY DEF Section
<1> DEFINE failed == (IF badACL = {} THEN {} ELSE {"secret_acl"})
                       \cup (IF badHosts = {} THEN {} ELSE {"vip_pod_host"})
<1>2. /\ faulty' = (faulty \ synced) \cup failed
      /\ failed # {} => faults < MaxFaults
      /\ faults' = IF failed = {} THEN faults ELSE faults + 1
  BY <1>1 DEF Fail
<1>3. /\ "secret_acl" \in failed <=> badACL # {}
      /\ "vip_pod_host" \in failed <=> badHosts # {}
      /\ failed \subseteq {"secret_acl", "vip_pod_host"}
  OBVIOUS
<1> HIDE DEF failed
<1>4. faults' \in 0 .. MaxFaults
  BY <1>2, BoundsAssumption DEF TypeOK
<1>5. faulty' \subseteq MapNames /\ ("secret_map" \in faulty' <=> "secret_map" \in faulty)
  BY <1>2, <1>3 DEF TypeOK, MapNames
<1>6. acl' \subseteq acl \cup addACL /\ podHost' \subseteq podHost \cup addHosts
  BY <1>1 DEF Edit
<1>7. "secret_acl" \notin faulty' =>
        /\ acl' = (acl \ dropACL) \cup addACL
        /\ "secret_acl" \notin faulty \/ "secret_acl" \in synced
  BY <1>1, <1>2, <1>3 DEF Edit
<1>8. "vip_pod_host" \notin faulty' =>
        /\ podHost' = (podHost \ dropHosts) \cup addHosts
        /\ "vip_pod_host" \notin faulty \/ "vip_pod_host" \in synced
  BY <1>1, <1>2, <1>3 DEF Edit
<1>9. QED
  BY <1>4, <1>5, <1>6, <1>7, <1>8

\* What bindings grant is made of the pods' cgroups and addresses.
LEMMA GrantTypes ==
  ASSUME NEW snap, Sane(snap), NEW b \in Binding
  PROVE  /\ SecretACL(snap, b) \subseteq b.cgroups \X Placeholder
         /\ SecretACL(snap, b) \subseteq Cgroup \X Placeholder
         /\ VipPodHosts(snap, b) \subseteq Addr \X (Host \cup {AnyHost})
<1>1. b.cgroups \subseteq Cgroup /\ b.addrs \subseteq Addr
  BY DEF Binding
<1>2. ASSUME NEW s \in Granted(snap, b.refs)
      PROVE  snap[s].key \in Placeholder /\ snap[s].host \in Host \cup {None}
  BY VersionFacts DEF Granted, Sane
<1>3. SecretACL(snap, b) \subseteq b.cgroups \X Placeholder
  BY <1>2 DEF SecretACL
<1>4. HostsOf(snap, b.refs) \subseteq Host
  BY <1>2 DEF HostsOf
<1>5. VipPodHosts(snap, b) \subseteq Addr \X (Host \cup {AnyHost})
  BY <1>1, <1>4 DEF VipPodHosts
<1>6. QED
  BY <1>1, <1>3, <1>5

\* Grants pair containers and placeholders, addresses and hosts.
LEMMA AllGrantTypes ==
  ASSUME NEW snap, Sane(snap), NEW bs \in [Pod -> Binding]
  PROVE  /\ AllACL(snap, bs) \subseteq Cgroup \X Placeholder
         /\ AllPodHosts(snap, bs) \subseteq Addr \X (Host \cup {AnyHost})
BY GrantTypes DEF AllACL, AllPodHosts

\* A change of one pod's binding, applied to maps that are as a full sync
\* leaves them: what the pod gets, without what it lost and no pod holds.
LEMMA RebindACL ==
  ASSUME NEW snap, NEW bs, NEW p \in Pod, NEW b, NEW cs,
         cs[p] = b, \A q \in Pod \ {p} : cs[q] = bs[q]
  PROVE  LET add == SecretACL(snap, b)
             lost == SecretACL(snap, bs[p]) \ add
         IN  AllACL(snap, cs) = (AllACL(snap, bs) \ (lost \ AllACL(snap, cs))) \cup add
<1>1. /\ SecretACL(snap, b) \subseteq AllACL(snap, cs)
      /\ \A e : e \in AllACL(snap, cs) <=> \E q \in Pod : e \in SecretACL(snap, cs[q])
      /\ \A e : e \in AllACL(snap, bs) <=> \E q \in Pod : e \in SecretACL(snap, bs[q])
  BY DEF AllACL
<1>2. QED
  BY <1>1

\* Binding a pod again adds its hosts and takes those no pod has any more.
LEMMA RebindHosts ==
  ASSUME NEW snap, NEW bs, NEW p \in Pod, NEW b, NEW cs,
         cs[p] = b, \A q \in Pod \ {p} : cs[q] = bs[q]
  PROVE  LET add == VipPodHosts(snap, b)
             lost == VipPodHosts(snap, bs[p]) \ add
         IN  AllPodHosts(snap, cs) = (AllPodHosts(snap, bs) \ (lost \ AllPodHosts(snap, cs))) \cup add
<1>1. /\ VipPodHosts(snap, b) \subseteq AllPodHosts(snap, cs)
      /\ \A e : e \in AllPodHosts(snap, cs) <=> \E q \in Pod : e \in VipPodHosts(snap, cs[q])
      /\ \A e : e \in AllPodHosts(snap, bs) <=> \E q \in Pod : e \in VipPodHosts(snap, bs[q])
  BY DEF AllPodHosts
<1>2. QED
  BY <1>1

\* Nothing is granted to a pod without a binding; the entries of its cgroups
\* are no other pod's.
LEMMA UnboundACL ==
  ASSUME NEW snap, Sane(snap), NEW bs, NEW p \in Pod,
         \A q \in Pod : bs[q] \in Binding /\ bs[q].cgroups \subseteq CgroupsOf[q],
         NEW cs, cs[p] = NoBinding, \A q \in Pod \ {p} : cs[q] = bs[q]
  PROVE  AllACL(snap, cs) = {e \in AllACL(snap, bs) : e[1] \notin bs[p].cgroups}
<1>1. /\ \A e : e \in AllACL(snap, cs) <=> \E q \in Pod : e \in SecretACL(snap, cs[q])
      /\ \A e : e \in AllACL(snap, bs) <=> \E q \in Pod : e \in SecretACL(snap, bs[q])
  BY DEF AllACL
<1>2. SecretACL(snap, NoBinding) = {}
  BY DEF SecretACL, NoBinding
<1>3. \A q \in Pod : \A e \in SecretACL(snap, bs[q]) : e[1] \in bs[q].cgroups
  BY GrantTypes
<1>4. \A q \in Pod \ {p} : bs[q].cgroups \cap bs[p].cgroups = {}
  BY PodsAssumption
<1>5. QED
  BY <1>1, <1>2, <1>3, <1>4

\* A pod without an address has nothing in vip_pod_host to take.
LEMMA UnboundHosts ==
  ASSUME NEW snap, NEW bs, NEW p \in Pod, bs[p].addrs = {},
         NEW cs, cs[p] = NoBinding, \A q \in Pod \ {p} : cs[q] = bs[q]
  PROVE  AllPodHosts(snap, cs) = AllPodHosts(snap, bs)
<1>1. /\ \A e : e \in AllPodHosts(snap, cs) <=> \E q \in Pod : e \in VipPodHosts(snap, cs[q])
      /\ \A e : e \in AllPodHosts(snap, bs) <=> \E q \in Pod : e \in VipPodHosts(snap, bs[q])
  BY DEF AllPodHosts
<1>2. VipPodHosts(snap, NoBinding) = {} /\ VipPodHosts(snap, bs[p]) = {}
  BY DEF VipPodHosts, NoBinding
<1>3. QED
  BY <1>1, <1>2

----------------------------------------------------------------------------
(* The steps of the sync worker.                                           *)

\* The type invariant makes the three snapshots sane.
LEMMA SaneSnapshots ==
  ASSUME TypeOK PROVE Sane(source) /\ Sane(lastSnapshot) /\ Sane(sync.snap)
BY DEF TypeOK, Sane, Snapshots

\* A failed write of secret_map is on record for secret_map alone.
LEMMA FailEffect ==
  ASSUME TypeOK, NEW failed \in SUBSET {"secret_map"}, NEW synced \in SUBSET {"secret_map"},
         Fail(failed, synced)
  PROVE  /\ faulty' \subseteq MapNames /\ faults' \in 0 .. MaxFaults
         /\ "secret_acl" \in faulty' <=> "secret_acl" \in faulty
         /\ "vip_pod_host" \in faulty' <=> "vip_pod_host" \in faulty
         /\ "secret_map" \notin faulty' =>
              failed = {} /\ ("secret_map" \notin faulty \/ "secret_map" \in synced)
<1>1. /\ faulty' = (faulty \ synced) \cup failed
      /\ failed # {} => faults < MaxFaults
      /\ faults' = IF failed = {} THEN faults ELSE faults + 1
  BY DEF Fail
<1>2. faults' \in 0 .. MaxFaults
  BY <1>1, BoundsAssumption DEF TypeOK
<1>3. faulty' \subseteq MapNames
  BY <1>1 DEF TypeOK, MapNames
<1>4. QED
  BY <1>1, <1>2, <1>3

\* Steps that leave the maps under bindMu alone keep them exact.
LEMMA MapsLeftAlone ==
  ASSUME BindingsExact, UNCHANGED <<lastSnapshot, bindings, maps, audit>>,
         "secret_acl" \in faulty' <=> "secret_acl" \in faulty,
         "vip_pod_host" \in faulty' <=> "vip_pod_host" \in faulty
  PROVE  BindingsExact'
<1>1. acl' = acl /\ podHost' = podHost /\ lastSnapshot' = lastSnapshot
        /\ bindings' = bindings /\ audit' = audit
  BY DEF maps
<1>2. AllPodHosts(lastSnapshot, bindings)' = AllPodHosts(lastSnapshot, bindings)
  BY <1>1 DEF AllPodHosts, VipPodHosts
<1>3. QED
  BY <1>1, <1>2 DEF BindingsExact

\* The maps and the bindings are empty at first.
LEMMA BindInit == Init => BindInv
<1> SUFFICES ASSUME Init PROVE BindInv
  OBVIOUS
<1>1. \A k : WantedEntry(NoSecrets, k) = None
  BY DEF WantedEntry, NoSecrets
<1>2. /\ \A bs, snap : (\A p \in Pod : bs[p] = NoBinding) => AllACL(snap, bs) = {}
      /\ \A bs, snap : (\A p \in Pod : bs[p] = NoBinding) => AllPodHosts(snap, bs) = {}
  BY DEF AllACL, AllPodHosts, SecretACL, VipPodHosts, NoBinding
<1>3. NoBinding \in Binding /\ NoBinding.cgroups = {}
  BY DEF NoBinding, Binding
<1>4. \A s \in Secret : Versions[s] \subseteq Version
  BY SecretsAssumption
<1>5. TypeOK
  <2>1. source \in Snapshots /\ NoSecrets \in Snapshots /\ sync.snap = NoSecrets
    BY <1>4 DEF Init, Snapshots, NoSecrets, Idle
  <2>2. \A s \in Secret : {source[s], lastSnapshot[s], sync.snap[s]} \subseteq Versions[s] \cup {None}
    BY <2>1 DEF Init, NoSecrets
  <2>3. sync \in [pc : {"idle", "upsert", "prune"}, snap : Snapshots, todo : SUBSET (Secret \cup Placeholder)]
    BY <2>1 DEF Init, Idle
  <2>4. bindings \in [Pod -> Binding] /\ \A p \in Pod : bindings[p].cgroups \subseteq CgroupsOf[p]
    BY <1>3 DEF Init
  <2>5. QED
    BY <2>1, <2>2, <2>3, <2>4, BoundsAssumption DEF TypeOK, Init
<1>6. BindingsExact
  BY <1>2 DEF BindingsExact, Init
<1>7. SecretsExact /\ EntryOK
  BY <1>1 DEF SecretsExact, EntryOK, Init
<1>8. PhaseOK /\ UpsertOK /\ PruneOK
  BY DEF PhaseOK, UpsertOK, PruneOK, Init, Idle
<1>9. QED
  BY <1>5, <1>6, <1>7, <1>8 DEF BindInv

\* The source of the secrets changes.
LEMMA ChangeSecretStep ==
  ASSUME BindInv, NEW s \in Secret, NEW v \in Versions[s] \cup {None}, ChangeSecret(s, v)
  PROVE  BindInv'
<1>1. /\ UNCHANGED <<secretMap, sync, lastSnapshot, bindings, acl, podHost, audit, faulty, faults>>
      /\ source' = [source EXCEPT ![s] = v] /\ changes' = changes + 1 /\ changes < MaxChanges
  BY DEF ChangeSecret, maps
<1>2. v \in Version \cup {None}
  BY SecretsAssumption
<1>3. source' \in Snapshots /\ \A t \in Secret : source'[t] \in Versions[t] \cup {None}
  BY <1>1, <1>2 DEF BindInv, TypeOK, Snapshots
<1>4. changes' \in 0 .. MaxChanges
  BY <1>1, BoundsAssumption DEF BindInv, TypeOK
<1>5. TypeOK'
  BY <1>1, <1>3, <1>4 DEF BindInv, TypeOK
<1>6. BindingsExact'
  BY <1>1, MapsLeftAlone DEF BindInv, maps
<1>7. SecretsExact' /\ EntryOK' /\ PhaseOK' /\ UpsertOK' /\ PruneOK'
  BY <1>1 DEF BindInv, SecretsExact, EntryOK, PhaseOK, UpsertOK, PruneOK
<1>8. QED
  BY <1>5, <1>6, <1>7 DEF BindInv

\* SyncSecrets takes a snapshot.
LEMMA StartSyncStep ==
  ASSUME BindInv, StartSync
  PROVE  BindInv'
<1>1. /\ UNCHANGED <<source, changes, secretMap, lastSnapshot, bindings, acl, podHost, audit>>
      /\ sync' = [pc |-> "upsert", snap |-> source, todo |-> {s \in Secret : source[s] # None}]
  BY DEF StartSync, maps, world
<1>2. /\ faulty' \subseteq MapNames /\ faults' \in 0 .. MaxFaults
      /\ "secret_acl" \in faulty' <=> "secret_acl" \in faulty
      /\ "vip_pod_host" \in faulty' <=> "vip_pod_host" \in faulty
  <2>1. Fail({}, {"secret_map"})
    BY DEF StartSync
  <2>2. QED
    BY <2>1, FailEffect DEF BindInv
<1>3. TypeOK'
  BY <1>1, <1>2 DEF BindInv, TypeOK
<1>4. BindingsExact'
  BY <1>1, <1>2, MapsLeftAlone DEF BindInv, maps
<1>5. SecretsExact' /\ EntryOK' /\ PhaseOK' /\ UpsertOK' /\ PruneOK'
  BY <1>1 DEF BindInv, SecretsExact, EntryOK, PhaseOK, UpsertOK, PruneOK
<1>6. QED
  BY <1>3, <1>4, <1>5 DEF BindInv

\* applySecrets writes an entry of secret_map, or fails to.
LEMMA UpsertStep ==
  ASSUME BindInv, NEW s \in Secret, NEW ok \in BOOLEAN, UpsertSecret(s, ok)
  PROVE  BindInv'
<1> DEFINE v == sync.snap[s]
<1>1. /\ sync.pc = "upsert" /\ s \in sync.todo
      /\ UNCHANGED <<source, changes, lastSnapshot, bindings, acl, podHost, audit>>
      /\ secretMap' = IF ok THEN [secretMap EXCEPT ![v.key] = [secret |-> s, host |-> v.host]]
                            ELSE secretMap
      /\ sync' = [sync EXCEPT !.todo = @ \ {s}]
  BY DEF UpsertSecret, maps, world
<1>2. /\ faulty' \subseteq MapNames /\ faults' \in 0 .. MaxFaults
      /\ "secret_acl" \in faulty' <=> "secret_acl" \in faulty
      /\ "vip_pod_host" \in faulty' <=> "vip_pod_host" \in faulty
      /\ "secret_map" \notin faulty' => ok /\ "secret_map" \notin faulty
  <2>1. Fail(IF ok THEN {} ELSE {"secret_map"}, {})
    BY DEF UpsertSecret
  <2>2. QED
    BY <2>1, FailEffect DEF BindInv
<1>3. Sane(sync.snap) /\ v \in Versions[s] /\ v \in Version
      /\ v.key \in Placeholder /\ [secret |-> s, host |-> v.host] \in Entry
  BY <1>1, SaneSnapshots, VersionFacts DEF BindInv, PhaseOK, Sane, Entry
<1> DEFINE e == [secret |-> s, host |-> v.host]
<1>4. /\ sync'.pc = "upsert" /\ sync'.snap = sync.snap /\ sync'.todo = sync.todo \ {s}
      /\ sync' \in [pc : {"idle", "upsert", "prune"}, snap : Snapshots, todo : SUBSET (Secret \cup Placeholder)]
  BY <1>1 DEF BindInv, TypeOK
<1>5. /\ secretMap' \in [Placeholder -> Entry \cup {None}]
      /\ \A k \in Placeholder : secretMap'[k] = IF ok /\ k = v.key THEN e ELSE secretMap[k]
  BY <1>1, <1>3 DEF BindInv, TypeOK
<1> HIDE DEF v
<1>6. TypeOK'
  BY <1>1, <1>2, <1>4, <1>5 DEF BindInv, TypeOK
<1>7. BindingsExact'
  BY <1>1, <1>2, MapsLeftAlone DEF BindInv, maps
<1>8. SecretsExact' /\ PruneOK'
  BY <1>4 DEF SecretsExact, PruneOK
<1>9. EntryOK'
  BY <1>3, <1>5 DEF BindInv, EntryOK
<1>10. PhaseOK'
  BY <1>1, <1>4 DEF BindInv, PhaseOK
<1>11. UpsertOK'
  <2> SUFFICES ASSUME "secret_map" \notin faulty', NEW t \in Secret, sync.snap[t] # None,
                      t \notin sync'.todo
               PROVE  secretMap'[sync.snap[t].key] = [secret |-> t, host |-> sync.snap[t].host]
    BY <1>4 DEF UpsertOK
  <2>1. ok /\ "secret_map" \notin faulty
    BY <1>2
  <2>2. CASE t = s
    BY <2>1, <2>2, <1>3, <1>5 DEF v
  <2>3. CASE t # s
    <3>1. sync.snap[t] \in Versions[t] /\ sync.snap[t].key \in Placeholder /\ sync.snap[t].key # v.key
      BY <1>3, <2>3, VersionFacts DEF Sane
    <3>2. t \notin sync.todo
      BY <1>4, <2>3
    <3>3. secretMap[sync.snap[t].key] = [secret |-> t, host |-> sync.snap[t].host]
      BY <1>1, <2>1, <3>2 DEF BindInv, UpsertOK
    <3>4. QED
      BY <1>5, <3>1, <3>3
  <2>4. QED
    BY <2>2, <2>3
<1>12. QED
  BY <1>6, <1>7, <1>8, <1>9, <1>10, <1>11 DEF BindInv

\* applySecrets lists the entries to delete.
LEMMA ListStaleStep ==
  ASSUME BindInv, ListStale
  PROVE  BindInv'
<1>1. /\ sync.pc = "upsert" /\ sync.todo = {}
      /\ sync' = [sync EXCEPT !.pc = "prune", !.todo = StaleKeys(sync.snap)]
      /\ UNCHANGED <<source, changes, secretMap, lastSnapshot, bindings, acl, podHost, audit, faulty, faults>>
  BY DEF ListStale, maps, world
<1>2. StaleKeys(sync.snap) \subseteq Placeholder
  BY DEF StaleKeys
<1>3. /\ sync'.pc = "prune" /\ sync'.snap = sync.snap /\ sync'.todo = StaleKeys(sync.snap)
      /\ sync' \in [pc : {"idle", "upsert", "prune"}, snap : Snapshots, todo : SUBSET (Secret \cup Placeholder)]
  BY <1>1, <1>2 DEF BindInv, TypeOK
<1>4. TypeOK'
  BY <1>1, <1>3 DEF BindInv, TypeOK
<1>5. BindingsExact'
  BY <1>1, MapsLeftAlone DEF BindInv, maps
<1>6. SecretsExact' /\ UpsertOK' /\ EntryOK' /\ PhaseOK'
  BY <1>1, <1>2, <1>3 DEF BindInv, SecretsExact, UpsertOK, EntryOK, PhaseOK
<1>7. PruneOK'
  <2> SUFFICES ASSUME "secret_map" \notin faulty, NEW k \in Placeholder, k \notin StaleKeys(sync.snap)
               PROVE  secretMap[k] = WantedEntry(sync.snap, k)
    BY <1>1, <1>3 DEF PruneOK, StaleKeys
  <2>1. CASE \E s \in Secret : sync.snap[s] # None /\ sync.snap[s].key = k
    <3>1. PICK s \in Secret : sync.snap[s] # None /\ sync.snap[s].key = k
      BY <2>1
    <3>2. secretMap[k] = [secret |-> s, host |-> sync.snap[s].host]
      BY <1>1, <3>1 DEF BindInv, UpsertOK
    <3>3. QED
      BY <3>1, <3>2, SaneSnapshots, WantedOfSecret DEF BindInv
  <2>2. CASE ~ \E s \in Secret : sync.snap[s] # None /\ sync.snap[s].key = k
    BY <2>2, WantedOfNone DEF StaleKeys
  <2>3. QED
    BY <2>1, <2>2
<1>8. QED
  BY <1>4, <1>5, <1>6, <1>7 DEF BindInv

\* applySecrets deletes an entry of secret_map, or fails to.
LEMMA PruneStep ==
  ASSUME BindInv, NEW k \in Placeholder, NEW ok \in BOOLEAN, PruneKey(k, ok)
  PROVE  BindInv'
<1>1. /\ sync.pc = "prune" /\ k \in sync.todo
      /\ UNCHANGED <<source, changes, lastSnapshot, bindings, acl, podHost, audit>>
      /\ secretMap' = IF ok THEN [secretMap EXCEPT ![k] = None] ELSE secretMap
      /\ sync' = [sync EXCEPT !.todo = @ \ {k}]
  BY DEF PruneKey, maps, world
<1>2. /\ faulty' \subseteq MapNames /\ faults' \in 0 .. MaxFaults
      /\ "secret_acl" \in faulty' <=> "secret_acl" \in faulty
      /\ "vip_pod_host" \in faulty' <=> "vip_pod_host" \in faulty
      /\ "secret_map" \notin faulty' => ok /\ "secret_map" \notin faulty
  <2>1. Fail(IF ok THEN {} ELSE {"secret_map"}, {})
    BY DEF PruneKey
  <2>2. QED
    BY <2>1, FailEffect DEF BindInv
<1>3. /\ sync'.pc = "prune" /\ sync'.snap = sync.snap /\ sync'.todo = sync.todo \ {k}
      /\ sync' \in [pc : {"idle", "upsert", "prune"}, snap : Snapshots, todo : SUBSET (Secret \cup Placeholder)]
  BY <1>1 DEF BindInv, TypeOK
<1>4. /\ secretMap' \in [Placeholder -> Entry \cup {None}]
      /\ \A j \in Placeholder : secretMap'[j] = IF ok /\ j = k THEN None ELSE secretMap[j]
  BY <1>1 DEF BindInv, TypeOK
<1>5. TypeOK'
  BY <1>1, <1>2, <1>3, <1>4 DEF BindInv, TypeOK
<1>6. BindingsExact'
  BY <1>1, <1>2, MapsLeftAlone DEF BindInv, maps
<1>7. SecretsExact' /\ UpsertOK' /\ PhaseOK'
  BY <1>1, <1>3 DEF BindInv, SecretsExact, UpsertOK, PhaseOK
<1>8. EntryOK'
  BY <1>4 DEF BindInv, EntryOK
<1>9. PruneOK'
  BY <1>1, <1>2, <1>3, <1>4 DEF BindInv, PruneOK
<1>10. QED
  BY <1>5, <1>6, <1>7, <1>8, <1>9 DEF BindInv

----------------------------------------------------------------------------
(* The sections under bindMu.                                              *)

\* What holds after a section whose maps are of the right type and exact.
LEMMA BoundStep ==
  ASSUME BindInv, UNCHANGED <<source, changes, secretMap, sync, lastSnapshot, audit>>,
         bindings' \in [Pod -> Binding],
         \A p \in Pod : bindings'[p].cgroups \subseteq CgroupsOf[p],
         acl' \subseteq Cgroup \X Placeholder, podHost' \subseteq Addr \X (Host \cup {AnyHost}),
         faulty' \subseteq MapNames, faults' \in 0 .. MaxFaults,
         "secret_map" \in faulty' <=> "secret_map" \in faulty,
         "secret_acl" \notin faulty' => acl' = AllACL(lastSnapshot, bindings'),
         "vip_pod_host" \notin faulty' => podHost' = AllPodHosts(lastSnapshot, bindings')
  PROVE  BindInv'
<1>1. TypeOK'
  BY DEF BindInv, TypeOK
<1>2. AllPodHosts(lastSnapshot, bindings)' = AllPodHosts(lastSnapshot, bindings')
  BY DEF AllPodHosts, VipPodHosts
<1>3. BindingsExact'
  BY <1>2 DEF BindingsExact
<1>4. SecretsExact' /\ EntryOK' /\ PhaseOK' /\ UpsertOK' /\ PruneOK'
  BY DEF BindInv, SecretsExact, EntryOK, PhaseOK, UpsertOK, PruneOK
<1>5. QED
  BY <1>1, <1>3, <1>4 DEF BindInv

\* SyncSecrets records the snapshot and writes the grants.
LEMMA BindSyncStep ==
  ASSUME BindInv, BindSync
  PROVE  BindInv' /\ acl' \subseteq acl \cup AllACL(lastSnapshot', bindings')
<1> DEFINE wantACL == AllACL(sync.snap, bindings)
           wantHosts == AllPodHosts(sync.snap, bindings)
<1>1. /\ sync.pc = "prune" /\ sync.todo = {} /\ sync' = Idle /\ lastSnapshot' = sync.snap
      /\ Section(wantACL, acl \ wantACL, wantHosts, podHost \ wantHosts, {"secret_acl", "vip_pod_host"})
      /\ UNCHANGED <<source, changes, secretMap, bindings, audit>>
  BY DEF BindSync, world
<1>2. Sane(sync.snap) /\ bindings \in [Pod -> Binding]
  BY SaneSnapshots DEF BindInv, TypeOK
<1>3. wantACL \subseteq Cgroup \X Placeholder /\ wantHosts \subseteq Addr \X (Host \cup {AnyHost})
  BY <1>2, AllGrantTypes
<1>4. AllPodHosts(lastSnapshot, bindings)' = wantHosts
  BY <1>1 DEF AllPodHosts, VipPodHosts
<1>5. AllACL(lastSnapshot, bindings)' = wantACL
  BY <1>1
<1> HIDE DEF wantACL, wantHosts
<1>6. /\ faulty' \subseteq MapNames /\ faults' \in 0 .. MaxFaults
      /\ "secret_map" \in faulty' <=> "secret_map" \in faulty
      /\ acl' \subseteq acl \cup wantACL /\ podHost' \subseteq podHost \cup wantHosts
      /\ "secret_acl" \notin faulty' => acl' = (acl \ (acl \ wantACL)) \cup wantACL
      /\ "vip_pod_host" \notin faulty' => podHost' = (podHost \ (podHost \ wantHosts)) \cup wantHosts
  BY <1>1, SectionEffect DEF BindInv
<1>7. TypeOK'
  <2>1. acl' \subseteq Cgroup \X Placeholder /\ podHost' \subseteq Addr \X (Host \cup {AnyHost})
    BY <1>3, <1>6 DEF BindInv, TypeOK
  <2>2. /\ NoSecrets \in Snapshots /\ \A s \in Secret : NoSecrets[s] = None
        /\ sync'.snap = NoSecrets
        /\ sync' \in [pc : {"idle", "upsert", "prune"}, snap : Snapshots, todo : SUBSET (Secret \cup Placeholder)]
    BY <1>1 DEF Idle, NoSecrets, Snapshots
  <2>3. lastSnapshot' \in Snapshots
        /\ \A s \in Secret : {source'[s], lastSnapshot'[s], sync'.snap[s]} \subseteq Versions[s] \cup {None}
    BY <1>1, <1>2, <2>2 DEF BindInv, TypeOK, Sane
  <2>4. QED
    BY <1>1, <1>6, <2>1, <2>2, <2>3 DEF BindInv, TypeOK
<1>8. BindingsExact'
  <2>1. (acl \ (acl \ wantACL)) \cup wantACL = wantACL
        /\ (podHost \ (podHost \ wantHosts)) \cup wantHosts = wantHosts
    OBVIOUS
  <2>2. QED
    BY <1>4, <1>5, <1>6, <2>1 DEF BindingsExact
<1>9. SecretsExact'
  BY <1>1, <1>6 DEF BindInv, SecretsExact, PruneOK
<1>10. EntryOK' /\ PhaseOK' /\ UpsertOK' /\ PruneOK'
  BY <1>1 DEF BindInv, EntryOK, PhaseOK, UpsertOK, PruneOK, Idle
<1>11. QED
  BY <1>5, <1>6, <1>7, <1>8, <1>9, <1>10 DEF BindInv

\* A pod is bound: its grants change, and what it lost is revoked.
LEMMA BindStep ==
  ASSUME BindInv, NEW p \in Pod, NEW b \in Binding, b.cgroups \subseteq CgroupsOf[p], Bind(p, b)
  PROVE  BindInv' /\ acl' \subseteq acl \cup AllACL(lastSnapshot', bindings')
<1> DEFINE addACL == SecretACL(lastSnapshot, b)
           addHosts == VipPodHosts(lastSnapshot, b)
           lostACL == SecretACL(lastSnapshot, bindings[p]) \ addACL
           lostHosts == VipPodHosts(lastSnapshot, bindings[p]) \ addHosts
           nextACL == AllACL(lastSnapshot, bindings')
           nextHosts == AllPodHosts(lastSnapshot, bindings')
<1>1. /\ bindings' = [bindings EXCEPT ![p] = b]
      /\ Section(addACL, lostACL \ nextACL, addHosts, lostHosts \ nextHosts, {})
      /\ UNCHANGED <<source, changes, secretMap, sync, lastSnapshot, audit>>
  BY DEF Bind, world
<1>2. Sane(lastSnapshot) /\ bindings \in [Pod -> Binding]
  BY SaneSnapshots DEF BindInv, TypeOK
<1>3. /\ bindings'[p] = b /\ \A q \in Pod \ {p} : bindings'[q] = bindings[q]
      /\ bindings' \in [Pod -> Binding]
      /\ \A q \in Pod : bindings'[q].cgroups \subseteq CgroupsOf[q]
  BY <1>1 DEF BindInv, TypeOK
<1>4. addACL \subseteq Cgroup \X Placeholder /\ addHosts \subseteq Addr \X (Host \cup {AnyHost})
  BY <1>2, GrantTypes
<1>5. nextACL = (AllACL(lastSnapshot, bindings) \ (lostACL \ nextACL)) \cup addACL
  BY <1>2, <1>3, RebindACL
<1>6. nextHosts = (AllPodHosts(lastSnapshot, bindings) \ (lostHosts \ nextHosts)) \cup addHosts
  BY <1>2, <1>3, RebindHosts
<1> HIDE DEF addACL, addHosts, lostACL, lostHosts, nextACL, nextHosts
<1>7. /\ faulty' \subseteq MapNames /\ faults' \in 0 .. MaxFaults
      /\ "secret_map" \in faulty' <=> "secret_map" \in faulty
      /\ acl' \subseteq acl \cup addACL /\ podHost' \subseteq podHost \cup addHosts
      /\ "secret_acl" \notin faulty' =>
           "secret_acl" \notin faulty /\ acl' = (acl \ (lostACL \ nextACL)) \cup addACL
      /\ "vip_pod_host" \notin faulty' =>
           "vip_pod_host" \notin faulty /\ podHost' = (podHost \ (lostHosts \ nextHosts)) \cup addHosts
  BY <1>1, SectionEffect DEF BindInv
<1>8. "secret_acl" \notin faulty' => acl' = nextACL
  BY <1>5, <1>7 DEF BindInv, BindingsExact
<1>9. "vip_pod_host" \notin faulty' => podHost' = nextHosts
  BY <1>6, <1>7 DEF BindInv, BindingsExact
<1>10. acl' \subseteq Cgroup \X Placeholder /\ podHost' \subseteq Addr \X (Host \cup {AnyHost})
  BY <1>4, <1>7 DEF BindInv, TypeOK
<1>11. BindInv'
  BY <1>1, <1>3, <1>7, <1>8, <1>9, <1>10, BoundStep DEF nextACL, nextHosts
<1>12. acl' \subseteq acl \cup nextACL
  BY <1>5, <1>7
<1>13. QED
  BY <1>1, <1>11, <1>12 DEF nextACL

\* UnbindPod revokes what the pod had and no other pod has.
LEMMA UnbindStep ==
  ASSUME BindInv, NEW p \in Pod, UnbindPod(p)
  PROVE  BindInv' /\ acl' \subseteq acl
<1> DEFINE wantHosts == AllPodHosts(lastSnapshot, bindings')
           staleACL == {e \in acl : e[1] \in bindings[p].cgroups}
           nextACL == AllACL(lastSnapshot, bindings')
<1>1. /\ bindings' = [bindings EXCEPT ![p] = NoBinding]
      /\ UNCHANGED <<source, changes, secretMap, sync, lastSnapshot, audit>>
  BY DEF UnbindPod, world
<1>2. Sane(lastSnapshot) /\ bindings \in [Pod -> Binding]
        /\ \A q \in Pod : bindings[q].cgroups \subseteq CgroupsOf[q]
  BY SaneSnapshots DEF BindInv, TypeOK
<1>3. /\ bindings'[p] = NoBinding /\ \A q \in Pod \ {p} : bindings'[q] = bindings[q]
      /\ bindings' \in [Pod -> Binding]
      /\ \A q \in Pod : bindings'[q].cgroups \subseteq CgroupsOf[q]
  BY <1>1, <1>2 DEF NoBinding, Binding
<1>4. wantHosts \subseteq Addr \X (Host \cup {AnyHost})
  BY <1>2, <1>3, AllGrantTypes
<1>5. nextACL = {e \in AllACL(lastSnapshot, bindings) : e[1] \notin bindings[p].cgroups}
  BY <1>2, <1>3, UnboundACL
<1>6. bindings[p].addrs = {} => wantHosts = AllPodHosts(lastSnapshot, bindings)
  BY <1>2, <1>3, UnboundHosts
<1>7. \/ bindings[p].addrs # {}
         /\ Section({}, staleACL, wantHosts, podHost \ wantHosts, {"vip_pod_host"})
      \/ bindings[p].addrs = {} /\ Section({}, staleACL, {}, {}, {})
  BY DEF UnbindPod
<1> HIDE DEF wantHosts, staleACL, nextACL
<1>8. /\ faulty' \subseteq MapNames /\ faults' \in 0 .. MaxFaults
      /\ "secret_map" \in faulty' <=> "secret_map" \in faulty
      /\ acl' \subseteq acl
      /\ "secret_acl" \notin faulty' => "secret_acl" \notin faulty /\ acl' = acl \ staleACL
  <2>1. CASE Section({}, staleACL, wantHosts, podHost \ wantHosts, {"vip_pod_host"})
    BY <2>1, SectionEffect DEF BindInv
  <2>2. CASE Section({}, staleACL, {}, {}, {})
    BY <2>2, SectionEffect DEF BindInv
  <2>3. QED
    BY <1>7, <2>1, <2>2
<1>9. /\ podHost' \subseteq podHost \cup wantHosts
      /\ "vip_pod_host" \notin faulty' => podHost' = wantHosts
  <2>1. CASE bindings[p].addrs # {}
    <3>1. /\ podHost' \subseteq podHost \cup wantHosts
          /\ "vip_pod_host" \notin faulty' => podHost' = (podHost \ (podHost \ wantHosts)) \cup wantHosts
      BY <1>7, <2>1, SectionEffect DEF BindInv
    <3>2. (podHost \ (podHost \ wantHosts)) \cup wantHosts = wantHosts
      OBVIOUS
    <3>3. QED
      BY <3>1, <3>2
  <2>2. CASE bindings[p].addrs = {}
    <3>1. Section({}, staleACL, {}, {}, {})
      BY <1>7, <2>2
    <3>2. /\ podHost' \subseteq podHost
          /\ "vip_pod_host" \notin faulty' => "vip_pod_host" \notin faulty /\ podHost' = podHost
      <4>1. ASSUME NEW none, none = {}, Section({}, staleACL, none, none, {})
            PROVE  /\ podHost' \subseteq podHost \cup none
                   /\ "vip_pod_host" \notin faulty' =>
                        "vip_pod_host" \notin faulty /\ podHost' = (podHost \ none) \cup none
        <5>1. TypeOK /\ {} \in SUBSET {"secret_acl", "vip_pod_host"}
          BY DEF BindInv
        <5>2. QED
          BY <4>1, <5>1, SectionEffect
      <4>2. QED
        BY <3>1, <4>1
    <3>3. QED
      BY <1>6, <2>2, <3>2 DEF BindInv, BindingsExact
  <2>3. QED
    BY <2>1, <2>2
<1>10. "secret_acl" \notin faulty' => acl' = nextACL
  BY <1>5, <1>8 DEF BindInv, BindingsExact, staleACL
<1>11. acl' \subseteq Cgroup \X Placeholder /\ podHost' \subseteq Addr \X (Host \cup {AnyHost})
  BY <1>4, <1>8, <1>9 DEF BindInv, TypeOK
<1>12. BindInv'
  BY <1>1, <1>3, <1>8, <1>9, <1>10, <1>11, BoundStep DEF nextACL, wantHosts
<1>13. QED
  BY <1>8, <1>12

----------------------------------------------------------------------------
(* Every step, and what it adds to secret_acl.                             *)

\* Every step keeps BindInv.
LEMMA BindNext ==
  ASSUME BindInv, [Next]_vars
  PROVE  BindInv' /\ acl' \subseteq acl \cup AllACL(lastSnapshot', bindings')
<1>1. CASE SyncStep
  <2>1. CASE StartSync
    BY <2>1, StartSyncStep DEF StartSync, maps
  <2>2. CASE \E s \in Secret, ok \in BOOLEAN : UpsertSecret(s, ok)
    BY <2>2, UpsertStep DEF UpsertSecret, maps
  <2>3. CASE ListStale
    BY <2>3, ListStaleStep DEF ListStale, maps
  <2>4. CASE \E k \in Placeholder, ok \in BOOLEAN : PruneKey(k, ok)
    BY <2>4, PruneStep DEF PruneKey, maps
  <2>5. CASE BindSync
    BY <2>5, BindSyncStep
  <2>6. QED
    BY <1>1, <2>1, <2>2, <2>3, <2>4, <2>5 DEF SyncStep
<1>2. ASSUME NEW p \in Pod, PodStep(p)
      PROVE  BindInv' /\ acl' \subseteq acl \cup AllACL(lastSnapshot', bindings')
  <2>1. /\ bindings[p] \in Binding /\ bindings[p].cgroups \subseteq CgroupsOf[p]
        /\ bindings[p].cgroups \subseteq Cgroup /\ bindings[p].addrs \subseteq Addr
        /\ CgroupsOf[p] \subseteq Cgroup
    BY PodsAssumption DEF BindInv, TypeOK, Binding
  <2>2. ASSUME NEW addrs \in AddrsOf[p], NEW refs \in RefsOf[p],
               \/ \E cgs \in SUBSET CgroupsOf[p] : BindPodSecrets(p, addrs, cgs, refs)
               \/ BindPodNetwork(p, addrs, refs)
               \/ \E cg \in CgroupsOf[p] : BindPodContainer(p, addrs, cg, refs)
        PROVE  \E b \in Binding : b.cgroups \subseteq CgroupsOf[p] /\ Bind(p, b)
    <3>1. addrs \subseteq Addr /\ refs \subseteq Ref
      BY PodsAssumption
    <3>2. \A cgs \in SUBSET CgroupsOf[p], as \in SUBSET Addr :
            LET b == [cgroups |-> cgs, addrs |-> as, refs |-> refs]
            IN  b \in Binding /\ b.cgroups \subseteq CgroupsOf[p]
      BY <2>1, <3>1 DEF Binding
    <3>3. CASE \E cgs \in SUBSET CgroupsOf[p] : BindPodSecrets(p, addrs, cgs, refs)
      BY <3>1, <3>2, <3>3 DEF BindPodSecrets
    <3>4. CASE BindPodNetwork(p, addrs, refs)
      BY <2>1, <3>1, <3>2, <3>4 DEF BindPodNetwork
    <3>5. CASE \E cg \in CgroupsOf[p] : BindPodContainer(p, addrs, cg, refs)
      <4>1. PICK cg \in CgroupsOf[p] : BindPodContainer(p, addrs, cg, refs)
        BY <3>5
      <4>2. /\ bindings[p].cgroups \cup {cg} \in SUBSET CgroupsOf[p]
            /\ (IF bindings[p].addrs # {} THEN bindings[p].addrs ELSE addrs) \in SUBSET Addr
        BY <2>1, <3>1
      <4>3. QED
        BY <3>2, <4>1, <4>2 DEF BindPodContainer
    <3>6. QED
      BY <2>2, <3>3, <3>4, <3>5
  <2>3. CASE UnbindPod(p)
    BY <2>3, UnbindStep
  <2>4. QED
    BY <1>2, <2>2, <2>3, BindStep DEF PodStep
<1>3. ASSUME NEW s \in Secret, NEW v \in Versions[s] \cup {None}, ChangeSecret(s, v)
      PROVE  BindInv' /\ acl' \subseteq acl \cup AllACL(lastSnapshot', bindings')
  BY <1>3, ChangeSecretStep DEF ChangeSecret, maps
<1>4. CASE UNCHANGED vars
  <2>1. UNCHANGED <<source, secretMap, sync, lastSnapshot, bindings, acl, podHost,
                    audit, faulty, changes, faults>>
    BY <1>4 DEF vars
  <2>2. TypeOK' /\ SecretsExact' /\ EntryOK' /\ PhaseOK' /\ UpsertOK' /\ PruneOK'
    BY <2>1 DEF BindInv, TypeOK, SecretsExact, EntryOK, PhaseOK, UpsertOK, PruneOK
  <2>3. BindingsExact'
    BY <2>1, MapsLeftAlone DEF BindInv, maps
  <2>4. QED
    BY <2>1, <2>2, <2>3 DEF BindInv
<1>5. QED
  BY <1>1, <1>2, <1>3, <1>4 DEF Next

\* BindInv holds throughout.
LEMMA BindInvariant == Spec => []BindInv
<1>1. BindInv /\ [Next]_vars => BindInv'
  BY BindNext
<1>2. QED
  BY <1>1, BindInit, PTL DEF Spec

\* The maps and the fields of TLSUprobeManager keep their shapes; in
\* particular a binding never gets another pod's cgroup.
THEOREM TypeCorrect == Spec => []TypeOK
<1>1. BindInv => TypeOK
  BY DEF BindInv
<1>2. QED
  BY <1>1, BindInvariant, PTL

\* Whatever pods come, go and share addresses, bindLocked, revokeLostLocked
\* and UnbindPod leave secret_acl and vip_pod_host as a full sync would.
THEOREM IncrementsAreExact == Spec => []BindingsExact
<1>1. BindInv => BindingsExact
  BY DEF BindInv
<1>2. QED
  BY <1>1, BindInvariant, PTL

\* Between syncs secret_map is the last snapshot, when no write of it failed.
THEOREM SyncIsExact == Spec => []SecretsExact
<1>1. BindInv => SecretsExact
  BY DEF BindInv
<1>2. QED
  BY <1>1, BindInvariant, PTL

----------------------------------------------------------------------------
(* The maps implement Entitlement.                                         *)

\* What a container redeems it is entitled to, or was left with.
RedeemsOwn ==
  /\ Entitled \subseteq Cgroup \X Secret
  /\ "secret_acl" \notin faulty => Redeemable \subseteq Entitled /\ Leftover = {}
  /\ Redeemable \subseteq Entitled \cup Leftover

\* The invariant says what a container can redeem.
LEMMA RedeemsItsOwn == BindInv => RedeemsOwn
<1> SUFFICES ASSUME BindInv PROVE RedeemsOwn
  OBVIOUS
<1>1. Sane(lastSnapshot) /\ bindings \in [Pod -> Binding]
  BY SaneSnapshots DEF BindInv, TypeOK
<1>2. Entitled \subseteq Cgroup \X Secret
  BY <1>1 DEF Entitled, Granted, Binding
<1>3. ASSUME NEW e \in Redeemable
      PROVE  e \in Cgroup \X Secret /\ \E v \in Versions[e[2]] : <<e[1], v.key>> \in acl
  BY DEF BindInv, EntryOK, Redeemable
<1>4. ASSUME "secret_acl" \notin faulty, NEW e \in Redeemable
      PROVE  e \in Entitled
  <2>1. PICK v \in Versions[e[2]] : <<e[1], v.key>> \in AllACL(lastSnapshot, bindings)
    BY <1>3, <1>4 DEF BindInv, BindingsExact
  <2>2. e[2] \in Secret /\ e = <<e[1], e[2]>>
    BY <1>3
  <2>3. \E p \in Pod : e[1] \in bindings[p].cgroups /\ e[2] \in Granted(lastSnapshot, bindings[p].refs)
    BY <1>1, <2>1, <2>2, ACLMeansGranted
  <2>4. QED
    BY <2>2, <2>3 DEF Entitled
<1>5. "secret_acl" \notin faulty => Leftover = {}
  BY DEF Leftover
<1>6. "secret_acl" \in faulty => Redeemable \subseteq Entitled \cup Leftover
  BY <1>3 DEF Leftover
<1>7. QED
  BY <1>2, <1>4, <1>5, <1>6 DEF RedeemsOwn

\* A failed operation leaves a container with what it was entitled to, or was
\* left with before.
LEMMA LeavesItsOwn ==
  ASSUME BindInv, BindInv', acl' \subseteq acl \cup AllACL(lastSnapshot', bindings'),
         NEW e \in Leftover'
  PROVE  e \in Leftover \cup Entitled
<1>1. /\ "secret_acl" \in faulty' /\ e \in Cgroup \X Secret /\ e \notin Entitled'
      /\ \E v \in Versions[e[2]] : <<e[1], v.key>> \in acl'
  BY DEF Leftover
<1>2. PICK v \in Versions[e[2]] : <<e[1], v.key>> \in acl'
  BY <1>1
<1>3. e[2] \in Secret /\ e = <<e[1], e[2]>>
  BY <1>1
<1>4. Sane(lastSnapshot) /\ Sane(lastSnapshot')
  BY DEF BindInv, TypeOK, Sane
<1>5. <<e[1], v.key>> \notin AllACL(lastSnapshot', bindings')
  <2> SUFFICES ASSUME <<e[1], v.key>> \in AllACL(lastSnapshot', bindings') PROVE FALSE
    OBVIOUS
  <2>1. \E p \in Pod : e[1] \in bindings'[p].cgroups /\ e[2] \in Granted(lastSnapshot', bindings'[p].refs)
    BY <1>3, <1>4, ACLMeansGranted
  <2>2. QED
    BY <1>1, <1>3, <2>1 DEF Entitled
<1>6. <<e[1], v.key>> \in acl
  BY <1>2, <1>5
<1>7. CASE "secret_acl" \in faulty
  BY <1>1, <1>6, <1>7 DEF Leftover
<1>8. CASE "secret_acl" \notin faulty
  <2>1. <<e[1], v.key>> \in AllACL(lastSnapshot, bindings)
    BY <1>6, <1>8 DEF BindInv, BindingsExact
  <2>2. \E p \in Pod : e[1] \in bindings[p].cgroups /\ e[2] \in Granted(lastSnapshot, bindings[p].refs)
    BY <1>3, <1>4, <2>1, ACLMeansGranted
  <2>3. QED
    BY <1>3, <2>2 DEF Entitled
<1>9. QED
  BY <1>7, <1>8

\* Every step of the maps is a step of Entitlement: grants and revocations
\* that reach the data plane, or some of them while an operation has failed.
LEMMA StepKeepsPromise ==
  BindInv /\ BindInv' /\ [Next]_vars => [Promise!Next]_(Promise!vars)
<1>1. BindInv' => RedeemsOwn'
  BY RedeemsItsOwn, PTL
<1> SUFFICES ASSUME BindInv, BindInv', [Next]_vars
             PROVE  Promise!Next
  OBVIOUS
<1>2. /\ Entitled' \subseteq Cgroup \X Secret
      /\ "secret_acl" \notin faulty' => Redeemable' \subseteq Entitled' /\ Leftover' = {}
      /\ Redeemable' \subseteq Entitled' \cup Leftover'
  BY <1>1 DEF RedeemsOwn
<1>3. Leftover' \subseteq Leftover \cup Entitled
  BY BindNext, LeavesItsOwn
<1>4. CASE "secret_acl" \notin faulty'
  <2>1. Promise!Change
    BY <1>2, <1>4 DEF Promise!Change, Promise!Pair
  <2>2. QED
    BY <2>1 DEF Promise!Next
<1>5. CASE "secret_acl" \in faulty'
  <2>1. Promise!ChangeInPart
    BY <1>2, <1>3, <1>5 DEF Promise!ChangeInPart, Promise!Pair
  <2>2. QED
    BY <2>1 DEF Promise!Next
<1>6. QED
  BY <1>4, <1>5

\* secret_map, secret_acl and the bindings implement Entitlement: no order of
\* syncs, binds, unbinds and failures lets a container redeem a secret that
\* its pod is not entitled to and was not left with by a failed delete.
THEOREM BindingKeepsPromise == Spec => KeepsPromise
<1>1. Init => Promise!Init
  <2> SUFFICES ASSUME Init PROVE Promise!Init
    OBVIOUS
  <2>1. Entitled = {}
    BY DEF Init, Entitled, NoBinding
  <2>2. Redeemable = {} /\ Leftover = {} /\ "secret_acl" \notin faulty
    BY DEF Init, Redeemable, Leftover
  <2>3. QED
    BY <2>1, <2>2 DEF Promise!Init
<1>2. QED
  BY <1>1, StepKeepsPromise, BindInvariant, PTL DEF Spec, KeepsPromise
=============================================================================
