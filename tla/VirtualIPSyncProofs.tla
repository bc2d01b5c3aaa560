------------------------- MODULE VirtualIPSyncProofs -------------------------
(***************************************************************************)
(* What a sync of VirtualIP does to the reservations and to what is        *)
(* published, for every value of the constants: when a reservation may go  *)
(* away, which hosts keep their address, and that a sync without a failure *)
(* leaves vip_ip_host and vip_host_ip agreeing.                            *)
(***************************************************************************)
EXTENDS VirtualIPProofs

----------------------------------------------------------------------------
(* The inductive invariants.                                               *)

ActiveEntryOf(e, h) == e # None /\ e.host = h /\ ~e.retired

\* A stopped controller has no sync, and none that counts as clean.
DownOK == ~up => pc = "idle" /\ ~clean

\* Until its turn a reservation is as the sync read it.
ReadOK ==
  \A ip \in FakeIP :
     /\ pc = "drop" => ipHost[ip] = existing[ip]
     /\ pc \in {"release", "prune"} /\ ip \notin ToRelease => ipHost[ip] = existing[ip]
     /\ pc = "release" /\ ip \in todo => ip \in ToRelease /\ ipHost[ip] = existing[ip]
     /\ pc = "write" /\ ip \in todo => ip \in ToWrite /\ ipHost[ip] = existing[ip]

\* The plan takes an address from its host for one of three reasons.
Taken(ip) ==
  /\ existing[ip] # None
  /\ entries[ip] = None \/ entries[ip].host # existing[ip].host
MayTake(ip) ==
  \/ ip \notin range
  \/ existing[ip].retired /\ clock - existing[ip].at >= Retention
  \/ Cardinality(Reserved(entries, FamilyOf[ip])) >= Share(range, FamilyOf[ip])
TakenOK == Syncing => \A ip \in FakeIP : Taken(ip) => MayTake(ip)

ReleaseInv == TypeInv /\ DownOK /\ ReadOK /\ TakenOK

\* The plan's active reservations are those it publishes.
PlanAgrees ==
  Syncing /\ clean =>
    /\ \A h \in Host, f \in Family :
         want[h][f] # None => entries[want[h][f]] = Active(h)
    /\ \A ip \in FakeIP :
         entries[ip] # None /\ ~entries[ip].retired =>
           want[entries[ip].host][FamilyOf[ip]] = ip

\* In a sync without a failure a reservation is as planned, or has its turn
\* still to come.
EntriesDone ==
  clean => \A ip \in FakeIP :
    /\ pc = "release" => ipHost[ip] = entries[ip] \/ ip \in todo \/ ip \in ToWrite
    /\ pc = "prune" => ipHost[ip] = entries[ip] \/ ip \in ToWrite
    /\ pc = "write" => ipHost[ip] = entries[ip] \/ ip \in todo
    /\ pc \in {"publish", "unpublish"} => ipHost[ip] = entries[ip]

\* What the drop phase leaves published for h.
AfterDrop(h) == IF h \in dropped THEN NoIPs ELSE current[h]

\* So is what is published for a host.
HostsDone ==
  clean => \A h \in Host :
    /\ pc = "drop" => hostIP[h] = IF h \in todo THEN current[h] ELSE AfterDrop(h)
    /\ pc \in {"release", "prune", "write"} => hostIP[h] = AfterDrop(h)
    /\ pc = "publish" => \/ hostIP[h] = want[h] \/ h \in todo
                         \/ h \notin ToPublish /\ hostIP[h] = AfterDrop(h)
    /\ pc = "unpublish" => hostIP[h] = want[h] \/ h \in todo

\* The hosts to drop were found to lose an address, those to unpublish have
\* none left in the plan.
DropsListed ==
  \A h \in Host : h \in todo =>
    /\ pc = "drop" => h \in dropped
    /\ pc = "unpublish" => want[h] = NoIPs

CleanInv ==
  /\ ReleaseInv /\ DropsListed
  /\ PlanAgrees /\ EntriesDone /\ HostsDone /\ CleanSyncAgrees

\* A host has one active address of a family in the plan, and what the plan
\* retires was active.
PlanUnique ==
  Syncing => \A x, y \in FakeIP, h \in Host :
    /\ ActiveEntryOf(entries[x], h) /\ ActiveEntryOf(entries[y], h)
    /\ FamilyOf[x] = FamilyOf[y]
    => x = y
PlanRetires ==
  Syncing => \A ip \in FakeIP :
    entries[ip] # None /\ entries[ip].retired /\ entries[ip] # existing[ip] =>
      ip \in range /\ ActiveEntryOf(existing[ip], entries[ip].host)

\* What is published was reserved when the sync began.
PublishedRead ==
  pc \in {"drop", "release", "prune", "write"} =>
    \A h \in Host, f \in Family :
      hostIP[h][f] # None => existing[hostIP[h][f]] = Active(h)

\* A host without a leftover is to be published with what it has, or dropped.
PublishedWanted ==
  Syncing => \A h \in Host, f \in Family :
    NoLeftover(h) /\ hostIP[h][f] # None =>
      want[h][f] = hostIP[h][f] \/ (pc = "drop" /\ h \in todo)

\* Of the watched hosts, only those with an address out of range are dropped.
DropOK ==
  pc = "drop" => \A h \in Host :
    h \in todo /\ h \in hosts =>
      ~ (NoLeftover(h) /\ \A ff \in Family : hostIP[h][ff] \in range \cup {None})

KeepInv ==
  /\ SyncInv /\ ReleaseInv
  /\ PlanUnique /\ PlanRetires
  /\ PublishedRead /\ PublishedWanted /\ DropOK /\ DropsListed

----------------------------------------------------------------------------
(* What a plan does to the reservations it is given.                       *)

quietVars == <<syncVars, ipHost, hostIP, range, up>>

\* The steps of the data plane, of the clock and of the secrets leave the
\* sync, its maps and its range alone.
LEMMA QuietStep ==
  ASSUME TypeInv,
         DataPlane \/ Tick \/ (\E h \in Host : ChangeWatched(h)) \/ UNCHANGED vars
  PROVE  UNCHANGED quietVars /\ clock' >= clock
<1>1. clock \in Nat
  BY DEF TypeInv, TypeOK
<1>2. CASE DataPlane
  <2>1. UNCHANGED <<syncVars, ipHost, hostIP, envVars>>
    BY <1>2 DEF DataPlane, DnsRead, DnsRecord, ConnectRedirect, ConnectRefused,
       DnsLookup, ConnectLookup, CloseSocket, ConnectUnreserved, ConnectDirect, mapVars
  <2> QED
    BY <1>1, <2>1 DEF quietVars, envVars
<1>3. CASE Tick \/ \E h \in Host : ChangeWatched(h)
  BY <1>1, <1>3 DEF Tick, ChangeWatched, quietVars, mapVars
<1>4. CASE UNCHANGED vars
  BY <1>1, <1>4 DEF vars, quietVars, mapVars, envVars
<1> QED
  BY <1>2, <1>3, <1>4

\* Every step keeps the types.
LEMMA TypeStep ==
  ASSUME TypeInv, [Next]_vars
  PROVE  TypeInv'
<1>1. CASE Next
  BY <1>1, TypeSync, TypeDataPlane, TypeEnvironment DEF Next
<1>2. CASE UNCHANGED vars
  BY <1>2 DEF TypeInv, TypeOK, ProgOK, vars, syncVars, mapVars, sockVars, envVars
<1> QED
  BY <1>1, <1>2

\* A settled reservation stays with its host.
LEMMA SettledHost ==
  ASSUME NEW ex \in Reservations, NEW H \in SUBSET Host, NEW rg, NEW now \in Nat,
         NEW ip \in FakeIP, Settled(ex, H, rg, now)[ip] # None
  PROVE  LET s == Settled(ex, H, rg, now)[ip] IN
         /\ ip \in Kept(ex, rg, now)
         /\ s.host = ex[ip].host
         /\ ~s.retired => /\ ex[ip].host \in H /\ s = Active(ex[ip].host)
                          /\ ip = KeepIP(ex, rg, now, ex[ip].host, FamilyOf[ip])
         /\ s.retired /\ s # ex[ip] => ~ex[ip].retired
<1> DEFINE h == ex[ip].host
           s == Settled(ex, H, rg, now)[ip]
<1>1. ip \in Kept(ex, rg, now)
  BY DEF Settled
<1>2. s = IF h \in H /\ ip = KeepIP(ex, rg, now, h, FamilyOf[ip]) THEN Active(h)
          ELSE IF ex[ip].retired THEN ex[ip] ELSE RetiredAt(h, now)
  BY <1>1, Zenon DEF Settled
<1>3. Active(h).host = h /\ ~Active(h).retired
      /\ RetiredAt(h, now).host = h /\ RetiredAt(h, now).retired
  BY DEF Active, RetiredAt
<1> QED
  BY <1>1, <1>2, <1>3

\* The plan takes an address from its host only when the address is out of
\* range, its retention is over or its family is left full.
LEMMA PlanTakes ==
  ASSUME NEW ex \in Reservations, NEW H \in SUBSET Host, NEW rg,
         NEW now \in Nat, NEW evicted \in SUBSET FakeIP,
         NEW fresh \in [Host -> HostVal],
         PlanOK(ex, H, rg, now, evicted, fresh),
         NEW ip \in FakeIP, ex[ip] # None,
         LET e == PlanEntries(ex, H, rg, now, evicted, fresh)[ip]
         IN  e = None \/ e.host # ex[ip].host
  PROVE  \/ ip \notin rg
         \/ ex[ip].retired /\ now - ex[ip].at >= Retention
         \/ Cardinality(Reserved(PlanEntries(ex, H, rg, now, evicted, fresh), FamilyOf[ip]))
              >= Share(rg, FamilyOf[ip])
<1> DEFINE e == PlanEntries(ex, H, rg, now, evicted, fresh)
           s == Settled(ex, H, rg, now)
           f == FamilyOf[ip]
<1>0. f \in Family
  BY PlanConstants
<1>1. CASE ip \in evicted
  <2>1. {x \in evicted : FamilyOf[x] = f} # {}
    BY <1>1
  <2>2. Cardinality(Reserved(e, f)) >= Share(rg, f)
    BY <1>0, <2>1, Zenon DEF PlanOK, EvictionOK
  <2> QED
    BY <2>2
<1>2. CASE s[ip] = None
  <2>1. ip \notin Kept(ex, rg, now)
    <3> SUFFICES ASSUME ip \in Kept(ex, rg, now) PROVE FALSE
      OBVIOUS
    <3>1. ex[ip] \in Entry /\ None \notin Entry
      BY PlanConstants DEF Entry, Reservations
    <3>2. ex[ip].host \in Host
      BY <3>1 DEF Entry
    <3>3. Active(ex[ip].host) \in Entry /\ RetiredAt(ex[ip].host, now) \in Entry
      BY <3>2 DEF Active, RetiredAt, Entry
    <3>4. s[ip] \in Entry
      BY <3>1, <3>3 DEF Settled
    <3> QED
      BY <1>2, <3>1, <3>4
  <2> QED
    BY <2>1 DEF Kept, RetentionOver
<1>3. CASE ip \notin evicted /\ s[ip] # None
  <2>1. s[ip].host = ex[ip].host
    BY <1>3, SettledHost
  <2>2. \A h \in Host : fresh[h][f] # ip
    BY <1>0, <1>3, PlanConstants DEF PlanOK, FreshOK
  <2>3. e[ip] = s[ip]
    BY <1>3, <2>2 DEF PlanEntries
  <2> QED
    BY <1>3, <2>1, <2>3
<1> QED
  BY <1>1, <1>2, <1>3

\* An active reservation of the plan is the address the plan gives its host.
LEMMA PlanActive ==
  ASSUME NEW ex \in Reservations, NEW H \in SUBSET Host, NEW rg,
         NEW now \in Nat, NEW evicted \in SUBSET FakeIP,
         NEW fresh \in [Host -> HostVal],
         PlanOK(ex, H, rg, now, evicted, fresh),
         NEW ip \in FakeIP,
         PlanEntries(ex, H, rg, now, evicted, fresh)[ip] # None,
         ~PlanEntries(ex, H, rg, now, evicted, fresh)[ip].retired
  PROVE  LET h == PlanEntries(ex, H, rg, now, evicted, fresh)[ip].host IN
         h \in Host /\ PlanHosts(ex, H, rg, now, fresh)[h][FamilyOf[ip]] = ip
<1> DEFINE e == PlanEntries(ex, H, rg, now, evicted, fresh)[ip]
           s == Settled(ex, H, rg, now)[ip]
           f == FamilyOf[ip]
<1>0. f \in Family /\ ip # None
  BY PlanConstants
<1>1. CASE \E h \in H : fresh[h][f] = ip
  <2> DEFINE g == CHOOSE h \in H : fresh[h][f] = ip
  <2>1. g \in H /\ fresh[g][f] = ip
    BY <1>1
  <2>2. e = Active(g)
    BY <1>1 DEF PlanEntries
  <2> HIDE DEF e, g
  <2>3. e.host = g
    BY <2>2 DEF Active
  <2>4. IPsOf(ex, rg, now, g, f) = {}
    BY <1>0, <2>1 DEF PlanOK, FreshOK, NewHosts
  <2>5. PlanHosts(ex, H, rg, now, fresh)[g][f] = ip
    BY <1>0, <2>1, <2>4 DEF PlanHosts
  <2> QED
    BY <2>1, <2>3, <2>5 DEF e
<1>2. CASE ~ \E h \in H : fresh[h][f] = ip
  <2>1. e = s
    BY <1>2 DEF PlanEntries
  <2>2. s # None /\ ~s.retired
    BY <2>1
  <2>3. /\ ip \in Kept(ex, rg, now) /\ s.host = ex[ip].host /\ ex[ip].host \in H
        /\ ip = KeepIP(ex, rg, now, ex[ip].host, f)
    BY <2>2, SettledHost
  <2>4. e.host = ex[ip].host
    BY <2>1, <2>3
  <2> HIDE DEF e
  <2>5. ip \in IPsOf(ex, rg, now, e.host, f)
    BY <2>3, <2>4 DEF IPsOf
  <2>6. PlanHosts(ex, H, rg, now, fresh)[e.host][f] = ip
    BY <1>0, <2>3, <2>4, <2>5 DEF PlanHosts
  <2> QED
    BY <2>3, <2>4, <2>6 DEF e
<1> QED
  BY <1>1, <1>2

\* What the plan newly retires was active, and is in range.
LEMMA PlanRetiresActive ==
  ASSUME NEW ex \in Reservations, NEW H \in SUBSET Host, NEW rg,
         NEW now \in Nat, NEW evicted \in SUBSET FakeIP,
         NEW fresh \in [Host -> HostVal],
         NEW ip \in FakeIP,
         LET e == PlanEntries(ex, H, rg, now, evicted, fresh)[ip]
         IN  e # None /\ e.retired /\ e # ex[ip]
  PROVE  LET e == PlanEntries(ex, H, rg, now, evicted, fresh)[ip] IN
         ip \in rg /\ ActiveEntryOf(ex[ip], e.host)
<1> DEFINE e == PlanEntries(ex, H, rg, now, evicted, fresh)[ip]
<1>1. ~ \E h \in H : fresh[h][FamilyOf[ip]] = ip
  <2> SUFFICES ASSUME \E h \in H : fresh[h][FamilyOf[ip]] = ip PROVE FALSE
    OBVIOUS
  <2>1. \E g : e = Active(g)
    BY DEF PlanEntries
  <2> QED
    BY <2>1 DEF Active
<1>2. e = Settled(ex, H, rg, now)[ip]
  BY <1>1 DEF PlanEntries
<1>3. ip \in Kept(ex, rg, now) /\ e.host = ex[ip].host /\ ~ex[ip].retired
  BY <1>2, SettledHost
<1> QED
  BY <1>3 DEF Kept, ActiveEntryOf

\* A watched host whose one active reservation of a family is in range gets
\* that address from the plan.
LEMMA PlanKeeps ==
  ASSUME NEW ex \in Reservations, NEW H \in SUBSET Host, NEW rg,
         NEW now \in Nat, NEW fresh \in [Host -> HostVal],
         NEW h \in H, NEW f \in Family, NEW ip \in FakeIP,
         ip \in rg, FamilyOf[ip] = f, ActiveEntryOf(ex[ip], h)
  PROVE  (\A x \in rg : x \in FakeIP /\ FamilyOf[x] = f /\ ActiveEntryOf(ex[x], h) => x = ip)
         => PlanHosts(ex, H, rg, now, fresh)[h][f] = ip
<1> SUFFICES ASSUME \A x \in rg :
                      x \in FakeIP /\ FamilyOf[x] = f /\ ActiveEntryOf(ex[x], h) => x = ip
             PROVE  PlanHosts(ex, H, rg, now, fresh)[h][f] = ip
  OBVIOUS
<1> DEFINE all    == IPsOf(ex, rg, now, h, f)
           active == {x \in all : ~ex[x].retired}
<1>1. ip \in all
  BY DEF ActiveEntryOf, IPsOf, Kept, RetentionOver
<1>2. active = {ip}
  <2>1. \A x \in active : x \in rg /\ x \in FakeIP /\ FamilyOf[x] = f /\ ActiveEntryOf(ex[x], h)
    BY DEF ActiveEntryOf, IPsOf, Kept
  <2>2. ip \in active
    BY <1>1 DEF ActiveEntryOf
  <2> QED
    BY <2>1, <2>2
<1>3. KeepIP(ex, rg, now, h, f) = Lowest({ip})
  BY <1>2, Zenon DEF KeepIP
<1>4. Lowest({ip}) = ip
  BY LowestIn
<1> QED
  BY <1>1, <1>3, <1>4 DEF PlanHosts

----------------------------------------------------------------------------
(* A reservation goes away only for a reason.                              *)

PhaseStep ==
  StartRelease \/ StartPrune \/ StartWrite \/ StartPublish \/ StartUnpublish

MapStep ==
  \E ok \in BOOLEAN :
    \/ \E h \in Host : DropHost(h, ok) \/ Publish(h, ok) \/ Unpublish(h, ok)
    \/ \E ip \in FakeIP : Release(ip, ok) \/ PruneUpstream(ip, ok) \/ WriteEntry(ip, ok)

\* The steps of a sync between its start and its end keep what it read and
\* planned.
LEMMA MidSync ==
  ASSUME PhaseStep \/ MapStep
  PROVE  pc # "idle" /\ up /\ UNCHANGED <<existing, current, hosts, entries, dropped, envVars>>
<1>1. CASE PhaseStep
  BY <1>1 DEF PhaseStep, StartRelease, StartPrune, StartWrite, StartPublish,
     StartUnpublish, EnterPhase
<1>2. CASE MapStep
  BY <1>2 DEF MapStep, DropHost, Publish, Unpublish, Release, PruneUpstream,
     WriteEntry, Handled
<1> QED
  BY <1>1, <1>2

\* A phase begins when the previous one is through.
LEMMA PhaseFrame ==
  ASSUME PhaseStep
  PROVE  /\ todo = {} /\ UNCHANGED <<want, ipHost, hostIP>>
         /\ clean' => clean
         /\ \/ pc = "drop" /\ pc' = "release" /\ todo' = ToRelease
            \/ pc = "release" /\ pc' = "prune"
            \/ pc = "prune" /\ pc' = "write" /\ todo' = ToWrite
            \/ pc = "write" /\ pc' = "publish" /\ todo' = ToPublish
            \/ pc = "publish" /\ pc' = "unpublish" /\ todo' = ToUnpublish
<1> USE DEF PhaseStep, StartRelease, StartPrune, StartWrite, StartPublish, StartUnpublish
<1>1. clean' => clean
  BY Zenon DEF EnterPhase
<1>2. todo = {} /\ UNCHANGED <<want, ipHost, hostIP>>
  BY DEF EnterPhase, mapVars
<1>3. \/ pc = "drop" /\ pc' = "release" /\ todo' = ToRelease
      \/ pc = "release" /\ pc' = "prune"
      \/ pc = "prune" /\ pc' = "write" /\ todo' = ToWrite
      \/ pc = "write" /\ pc' = "publish" /\ todo' = ToPublish
      \/ pc = "publish" /\ pc' = "unpublish" /\ todo' = ToUnpublish
  BY DEF EnterPhase
<1> HIDE DEF PhaseStep
<1> QED
  BY <1>1, <1>2, <1>3, Zenon

\* The ways a step can go.
LEMMA StepCases ==
  ASSUME [Next]_vars
  PROVE  \/ SyncStart \/ SyncSkipped \/ SyncDone \/ PhaseStep \/ MapStep
         \/ Stop \/ Restart
         \/ DataPlane \/ Tick \/ (\E h \in Host : ChangeWatched(h)) \/ UNCHANGED vars
<1>1. CASE SyncStep
  BY <1>1 DEF SyncStep, PhaseStep, MapStep
<1>2. CASE ~SyncStep
  BY <1>2 DEF Next, Environment
<1> QED
  BY <1>1, <1>2

\* A stop ends the sync, and no sync runs before the restart.
LEMMA DownStep ==
  ASSUME TypeInv, DownOK, [Next]_vars
  PROVE  DownOK'
<1>1. CASE SyncStart \/ SyncSkipped \/ SyncDone
  <2>1. up /\ up' = up
    BY <1>1 DEF SyncStart, SyncSkipped, SyncDone, envVars
  <2> QED
    BY <2>1 DEF DownOK
<1>2. CASE PhaseStep \/ MapStep
  BY <1>2, MidSync DEF envVars, DownOK
<1>3. CASE Stop
  BY <1>3 DEF Stop, ForgetSync, DownOK
<1>4. CASE Restart
  BY <1>4 DEF Restart, DownOK
<1>5. CASE UNCHANGED quietVars
  BY <1>5 DEF quietVars, syncVars, DownOK
<1> QED
  BY <1>1, <1>2, <1>3, <1>4, <1>5, StepCases, QuietStep

\* The plan's reasons hold when it is made, and as time passes.
LEMMA TakenStep ==
  ASSUME ReleaseInv, [Next]_vars
  PROVE  TakenOK'
<1>0. TypeInv /\ DownOK /\ TakenOK
  BY DEF ReleaseInv
<1>1. CASE SyncStart
  <2>1. PICK evicted \in SUBSET FakeIP, fresh \in [Host -> HostVal] :
          /\ PlanOK(ipHost, watched, range, clock, evicted, fresh)
          /\ entries' = PlanEntries(ipHost, watched, range, clock, evicted, fresh)
    BY <1>1 DEF SyncStart
  <2>2. ipHost \in Reservations /\ watched \in SUBSET Host /\ clock \in Nat
    BY <1>0 DEF TypeInv, TypeOK, Reservations
  <2>3. existing' = ipHost /\ range' = range /\ clock' = clock
    BY <1>1 DEF SyncStart, envVars
  <2> SUFFICES ASSUME NEW ip \in FakeIP, Taken(ip)' PROVE MayTake(ip)'
    BY DEF TakenOK
  <2>4. ipHost[ip] # None /\ (entries'[ip] = None \/ entries'[ip].host # ipHost[ip].host)
    BY <2>3 DEF Taken
  <2> QED
    BY <2>1, <2>2, <2>3, <2>4, PlanTakes DEF MayTake
<1>2. CASE SyncSkipped \/ SyncDone \/ Stop
  BY <1>2 DEF SyncSkipped, SyncDone, Stop, ForgetSync, TakenOK, Syncing
<1>3. CASE PhaseStep \/ MapStep
  <2>1. Syncing /\ UNCHANGED <<existing, entries, clock, range>>
    BY <1>3, MidSync DEF Syncing, envVars
  <2> QED
    BY <1>0, <2>1 DEF TakenOK, Taken, MayTake
<1>4. CASE Restart
  BY <1>0, <1>4 DEF Restart, DownOK, TakenOK, Syncing, syncVars
<1>5. CASE UNCHANGED quietVars /\ clock' >= clock
  <2>1. UNCHANGED <<pc, existing, entries, range>>
    BY <1>5 DEF quietVars, syncVars
  <2> SUFFICES ASSUME Syncing, NEW ip \in FakeIP, Taken(ip) PROVE MayTake(ip)'
    BY <2>1 DEF TakenOK, Taken, Syncing
  <2>2. MayTake(ip)
    BY <1>0 DEF TakenOK
  <2>3. existing[ip].at \in Nat /\ clock \in Nat /\ clock' \in Nat /\ Retention \in Nat
    BY <1>0, TypeStep, PlanConstants DEF TypeInv, TypeOK, Entry, Taken
  <2> QED
    BY <1>5, <2>1, <2>2, <2>3 DEF MayTake
<1> QED
  BY <1>0, <1>1, <1>2, <1>3, <1>4, <1>5, StepCases, QuietStep

\* Each reservation is touched in its turn only.
LEMMA ReadStep ==
  ASSUME ReleaseInv, [Next]_vars
  PROVE  ReadOK'
<1>0. TypeInv /\ DownOK /\ ReadOK
  BY DEF ReleaseInv
<1>1. CASE SyncStart
  BY <1>1 DEF SyncStart, ReadOK, mapVars
<1>2. CASE SyncSkipped \/ SyncDone \/ Stop
  BY <1>2 DEF SyncSkipped, SyncDone, Stop, ForgetSync, ReadOK
<1>3. CASE PhaseStep
  <2>1. UNCHANGED <<existing, entries, ipHost>> /\ ToRelease' = ToRelease /\ ToWrite' = ToWrite
    BY <1>3, MidSync, PhaseFrame DEF ToRelease, ToWrite
  <2>2. ToRelease \cap ToWrite = {}
    BY DEF ToRelease, ToWrite
  <2> QED
    BY <1>0, <1>3, <2>1, <2>2, PhaseFrame DEF ReadOK
<1>4. CASE MapStep
  <2>1. ToRelease' = ToRelease /\ ToWrite' = ToWrite /\ UNCHANGED <<pc, existing>>
    BY <1>4, MidSync DEF ToRelease, ToWrite, MapStep, DropHost, Publish, Unpublish,
       Release, PruneUpstream, WriteEntry
  <2>2. ASSUME NEW ok \in BOOLEAN,
               \/ \E h \in Host : DropHost(h, ok) \/ Publish(h, ok) \/ Unpublish(h, ok)
               \/ \E ip \in FakeIP : PruneUpstream(ip, ok)
        PROVE  ReadOK'
    BY <1>0, <2>1, <2>2 DEF ReadOK, DropHost, Publish, Unpublish, PruneUpstream
  <2>3. ASSUME NEW ok \in BOOLEAN, NEW ip \in FakeIP, Release(ip, ok) \/ WriteEntry(ip, ok)
        PROVE  ReadOK'
    <3>1. /\ todo' = todo \ {ip} /\ ip \in todo
          /\ \A x \in FakeIP : x # ip => ipHost'[x] = ipHost[x]
          /\ pc \in {"release", "write"}
      BY <1>0, <2>3 DEF Release, WriteEntry, Handled, TypeInv, TypeOK
    <3>2. pc = "release" => ip \in ToRelease
      BY <1>0, <3>1 DEF ReadOK
    <3> QED
      BY <1>0, <2>1, <3>1, <3>2 DEF ReadOK
  <2> QED
    BY <1>4, <2>2, <2>3 DEF MapStep
<1>5. CASE Restart
  BY <1>0, <1>5 DEF Restart, DownOK, ReadOK, syncVars
<1>6. CASE UNCHANGED quietVars
  BY <1>0, <1>6 DEF quietVars, syncVars, ReadOK, ToRelease, ToWrite
<1> QED
  BY <1>0, <1>1, <1>2, <1>3, <1>4, <1>5, <1>6, StepCases, QuietStep

\* The three parts together.
LEMMA ReleaseInvStep ==
  ASSUME ReleaseInv, [Next]_vars
  PROVE  ReleaseInv'
  BY TypeStep, DownStep, ReadStep, TakenStep DEF ReleaseInv

\* Before the first sync nothing has been read or planned.
LEMMA ReleaseInvInit == Init => ReleaseInv
  BY TypeInit DEF Init, ReleaseInv, DownOK, ReadOK, TakenOK, Syncing

\* A step that takes a reservation away carries out the plan.
LEMMA TakesForReason ==
  ASSUME ReleaseInv, [Next]_vars, NEW ip \in FakeIP, up, ipHost[ip] # None,
         ipHost'[ip] = None \/ ipHost'[ip].host # ipHost[ip].host
  PROVE  \/ ip \notin range
         \/ ipHost[ip].retired /\ clock - ipHost[ip].at >= Retention
         \/ Cardinality(Reserved(entries, FamilyOf[ip])) >= Share(range, FamilyOf[ip])
<1>0. TypeInv /\ ReadOK /\ TakenOK
  BY DEF ReleaseInv
<1>1. ipHost' # ipHost
  OBVIOUS
<1>2. MapStep
  <2>1. ~SyncStart /\ ~SyncSkipped /\ ~SyncDone /\ ~PhaseStep /\ ~Stop /\ ~Restart
    BY <1>1, PhaseFrame DEF SyncStart, SyncSkipped, SyncDone, Stop, Restart, mapVars
  <2>2. ~UNCHANGED quietVars
    BY <1>1 DEF quietVars
  <2> QED
    BY <1>0, <2>1, <2>2, StepCases, QuietStep
<1>3. PICK ok \in BOOLEAN, x \in FakeIP : Release(x, ok) \/ WriteEntry(x, ok)
  BY <1>1, <1>2 DEF MapStep, DropHost, Publish, Unpublish, PruneUpstream
<1>4. x = ip /\ ip \in todo
      /\ ipHost'[ip] = IF pc = "release" THEN None ELSE entries[ip]
  BY <1>0, <1>1, <1>3 DEF Release, WriteEntry, Handled, TypeInv, TypeOK
<1>5. ipHost[ip] = existing[ip] /\ (pc = "release" => entries[ip] = None)
  BY <1>0, <1>3, <1>4 DEF Release, WriteEntry, ReadOK, ToRelease
<1>6. Taken(ip) /\ Syncing
  BY <1>3, <1>4, <1>5 DEF Taken, Syncing, Release, WriteEntry
<1> QED
  BY <1>0, <1>5, <1>6 DEF TakenOK, MayTake

\* A reservation is never handed to another host, or dropped, while
\* applications may still cache it: whatever fails, whenever the controller
\* stops and whichever pinned map is lost, a running controller takes an
\* address away only when it is out of range, its retention is over or the
\* plan fills its family.
THEOREM ReservationsAwaitRelease == Spec => ReservedUntilReleased
<1>1. ReleaseInv /\ [Next]_vars =>
        [\A ip \in FakeIP :
           /\ up /\ ipHost[ip] # None
           /\ ipHost'[ip] = None \/ ipHost'[ip].host # ipHost[ip].host
           => \/ ip \notin range
              \/ ipHost[ip].retired /\ clock - ipHost[ip].at >= Retention
              \/ Cardinality(Reserved(entries, FamilyOf[ip])) >= Share(range, FamilyOf[ip])]_vars
  BY TakesForReason
<1>2. ReleaseInv /\ [Next]_vars => ReleaseInv'
  BY ReleaseInvStep
<1> QED
  BY <1>1, <1>2, ReleaseInvInit, PTL DEF Spec, ReservedUntilReleased

----------------------------------------------------------------------------
(* A sync without a failure leaves the maps agreeing.                      *)

\* Of a sync that is still clean, no operation has failed.
LEMMA CleanHandled ==
  ASSUME NEW x, NEW ok \in BOOLEAN, Handled(x, ok), clean'
  PROVE  clean /\ ok = TRUE
<1>1. clean /\ ok
  BY Zenon DEF Handled
<1> QED
  BY <1>1

\* sync reads the maps and plans.
LEMMA CleanStart ==
  ASSUME CleanInv, SyncStart
  PROVE  PlanAgrees' /\ EntriesDone' /\ HostsDone' /\ CleanSyncAgrees'
<1>1. PICK evicted \in SUBSET FakeIP, fresh \in [Host -> HostVal] :
        /\ PlanOK(ipHost, watched, range, clock, evicted, fresh)
        /\ entries' = PlanEntries(ipHost, watched, range, clock, evicted, fresh)
        /\ want' = PlanHosts(ipHost, watched, range, clock, fresh)
  BY DEF SyncStart
<1>2. ipHost \in Reservations /\ watched \in SUBSET Host /\ clock \in Nat
  BY DEF CleanInv, ReleaseInv, TypeInv, TypeOK, Reservations
<1>3. PlanAgrees'
  <2>1. ASSUME NEW h \in Host, NEW f \in Family, want'[h][f] # None
        PROVE  entries'[want'[h][f]] = Active(h)
    BY <1>1, <1>2, <2>1, PlanGives
  <2>2. ASSUME NEW ip \in FakeIP, entries'[ip] # None, ~entries'[ip].retired
        PROVE  want'[entries'[ip].host][FamilyOf[ip]] = ip
    BY <1>1, <1>2, <2>2, PlanActive
  <2> QED
    BY <2>1, <2>2 DEF PlanAgrees
<1>4. pc' = "drop" /\ current' = hostIP /\ hostIP' = hostIP /\ todo' = dropped'
  BY DEF SyncStart, mapVars
<1>5. EntriesDone' /\ CleanSyncAgrees'
  BY <1>4 DEF EntriesDone, CleanSyncAgrees
<1>6. HostsDone'
  BY <1>4 DEF HostsDone, AfterDrop
<1> QED
  BY <1>3, <1>5, <1>6

\* The next phase takes up what the previous ones have left.
LEMMA CleanPhase ==
  ASSUME CleanInv, PhaseStep
  PROVE  PlanAgrees' /\ EntriesDone' /\ HostsDone' /\ CleanSyncAgrees'
<1>0. /\ PlanAgrees /\ EntriesDone /\ HostsDone /\ ReadOK
      /\ todo = {} /\ UNCHANGED <<existing, current, entries, dropped, want, ipHost, hostIP>>
  BY MidSync, PhaseFrame DEF CleanInv, ReleaseInv
<1>1. ToRelease' = ToRelease /\ ToWrite' = ToWrite /\ ToPublish' = ToPublish
      /\ \A h \in Host : AfterDrop(h)' = AfterDrop(h)
  BY <1>0 DEF ToRelease, ToWrite, ToPublish, AfterDrop
<1>2. SUFFICES ASSUME clean' PROVE PlanAgrees' /\ EntriesDone' /\ HostsDone' /\ CleanSyncAgrees'
  BY DEF PlanAgrees, EntriesDone, HostsDone, CleanSyncAgrees
<1>3. clean
  BY <1>2, PhaseFrame
<1>4. PlanAgrees' /\ CleanSyncAgrees'
  BY <1>0, <1>3, MidSync, PhaseFrame DEF PlanAgrees, CleanSyncAgrees, Syncing
<1>5. EntriesDone'
  <2>1. \A ip \in FakeIP : existing[ip] = entries[ip] \/ ip \in ToRelease \/ ip \in ToWrite
    BY DEF ToRelease, ToWrite
  <2> QED
    BY <1>0, <1>1, <1>3, <2>1, PhaseFrame DEF EntriesDone, ReadOK
<1>6. HostsDone'
  <2>1. CASE pc' # "unpublish"
    BY <1>0, <1>1, <1>3, <2>1, PhaseFrame DEF HostsDone
  <2>2. CASE pc' = "unpublish"
    <3> SUFFICES ASSUME NEW h \in Host
                 PROVE  hostIP[h] = want[h] \/ h \in todo'
      BY <1>0, <2>2 DEF HostsDone
    <3>1. hostIP[h] = want[h] \/ (h \notin ToPublish /\ hostIP[h] = AfterDrop(h))
      BY <1>0, <1>3, <2>2, PhaseFrame DEF HostsDone
    <3>2. todo' = ToUnpublish
      BY <2>2, PhaseFrame
    <3> QED
      BY <3>1, <3>2 DEF ToPublish, ToUnpublish, AfterDrop
  <2> QED
    BY <2>1, <2>2
<1> QED
  BY <1>4, <1>5, <1>6

\* An operation that succeeds brings its host or its address to the plan.
LEMMA CleanMap ==
  ASSUME CleanInv, MapStep
  PROVE  PlanAgrees' /\ EntriesDone' /\ HostsDone' /\ CleanSyncAgrees'
<1>0. /\ TypeInv /\ ReadOK /\ PlanAgrees /\ EntriesDone /\ HostsDone
      /\ pc # "idle" /\ UNCHANGED <<existing, current, entries, dropped>>
  BY MidSync DEF CleanInv, ReleaseInv
<1>1. SUFFICES ASSUME clean' PROVE PlanAgrees' /\ EntriesDone' /\ HostsDone' /\ CleanSyncAgrees'
  BY DEF PlanAgrees, EntriesDone, HostsDone, CleanSyncAgrees
<1>2. ToWrite' = ToWrite /\ \A h \in Host : AfterDrop(h)' = AfterDrop(h)
  BY <1>0 DEF ToWrite, AfterDrop
<1>3. ASSUME NEW ok \in BOOLEAN, NEW h \in Host,
             DropHost(h, ok) \/ Publish(h, ok) \/ Unpublish(h, ok)
      PROVE  PlanAgrees' /\ EntriesDone' /\ HostsDone' /\ CleanSyncAgrees'
  <2>1. Handled(h, ok) /\ UNCHANGED <<pc, want, ipHost>>
        /\ pc \in {"drop", "publish", "unpublish"}
    BY <1>3 DEF DropHost, Publish, Unpublish
  <2>2. clean /\ ok = TRUE
    BY <1>1, <2>1, CleanHandled
  <2>3. h \in todo /\ todo' = todo \ {h}
    BY <2>1 DEF Handled
  <2>4. /\ \A g \in Host : g # h => hostIP'[g] = hostIP[g]
        /\ hostIP'[h] = IF pc = "publish" THEN want[h] ELSE NoIPs
    BY <1>0, <1>3, <2>2 DEF DropHost, Publish, Unpublish, TypeInv, TypeOK
  <2>5. PlanAgrees' /\ EntriesDone' /\ CleanSyncAgrees'
    BY <1>0, <1>2, <2>1, <2>2 DEF PlanAgrees, EntriesDone, CleanSyncAgrees, Syncing
  <2>6. ToPublish' = ToPublish
    BY <1>0, <2>1 DEF ToPublish
  <2>7. CASE pc = "drop"
    <3>1. h \in dropped
      BY <1>0, <2>3, <2>7 DEF CleanInv, DropsListed
    <3> QED
      BY <1>0, <1>2, <2>1, <2>2, <2>3, <2>4, <2>5, <2>7, <3>1 DEF HostsDone, AfterDrop
  <2>8. CASE pc = "publish"
    BY <1>0, <1>2, <2>1, <2>2, <2>3, <2>4, <2>5, <2>6, <2>8 DEF HostsDone
  <2>9. CASE pc = "unpublish"
    <3>1. want[h] = NoIPs
      BY <2>3, <2>9 DEF CleanInv, DropsListed
    <3> QED
      BY <1>0, <1>2, <2>1, <2>2, <2>3, <2>4, <2>5, <2>9, <3>1 DEF HostsDone
  <2> QED
    BY <2>1, <2>7, <2>8, <2>9
<1>4. ASSUME NEW ok \in BOOLEAN, NEW ip \in FakeIP,
             Release(ip, ok) \/ PruneUpstream(ip, ok) \/ WriteEntry(ip, ok)
      PROVE  PlanAgrees' /\ EntriesDone' /\ HostsDone' /\ CleanSyncAgrees'
  <2>1. Handled(ip, ok) /\ UNCHANGED <<pc, hostIP>> /\ pc \in {"release", "prune", "write"}
    BY <1>4 DEF Release, PruneUpstream, WriteEntry
  <2>2. clean /\ ok = TRUE
    BY <1>1, <2>1, CleanHandled
  <2>3. ip \in todo /\ todo' = todo \ {ip} /\ want' = want
    BY <1>4, <2>1, <2>2 DEF Handled, Release, PruneUpstream, WriteEntry
  <2>4. PlanAgrees' /\ HostsDone' /\ CleanSyncAgrees'
    BY <1>0, <1>2, <2>1, <2>2, <2>3 DEF PlanAgrees, HostsDone, CleanSyncAgrees, Syncing
  <2>5. /\ \A x \in FakeIP : x # ip => ipHost'[x] = ipHost[x]
        /\ pc = "release" => ipHost'[ip] = None
        /\ pc = "prune" => ipHost'[ip] = ipHost[ip]
        /\ pc = "write" => ipHost'[ip] = entries[ip]
    BY <1>0, <1>4, <2>2 DEF Release, PruneUpstream, WriteEntry, TypeInv, TypeOK
  <2>6. pc = "release" => entries[ip] = None
    BY <1>0, <2>3 DEF ReadOK, ToRelease
  <2>7. EntriesDone'
    BY <1>0, <1>2, <2>1, <2>2, <2>3, <2>5, <2>6 DEF EntriesDone
  <2> QED
    BY <2>4, <2>7
<1> QED
  BY <1>3, <1>4 DEF MapStep

\* The sync ends with both maps as planned, and the plan agrees with itself.
LEMMA CleanEnd ==
  ASSUME CleanInv, SyncDone
  PROVE  CleanSyncAgrees'
<1> SUFFICES ASSUME clean PROVE CleanSyncAgrees'
  BY DEF SyncDone, CleanSyncAgrees
<1>1. pc = "unpublish" /\ todo = {} /\ UNCHANGED <<ipHost, hostIP>>
  BY DEF SyncDone, mapVars
<1>2. \A h \in Host : hostIP[h] = want[h]
  BY <1>1 DEF CleanInv, HostsDone
<1>3. \A ip \in FakeIP : ipHost[ip] = entries[ip]
  BY <1>1 DEF CleanInv, EntriesDone
<1>4. PlanAgrees /\ Syncing
  BY <1>1 DEF CleanInv, Syncing
<1>5. \A ip \in FakeIP : ip # None /\ (entries[ip] # None => entries[ip].host \in Host)
  BY PlanConstants DEF CleanInv, ReleaseInv, TypeInv, TypeOK, Entry
<1> QED
  BY <1>1, <1>2, <1>3, <1>4, <1>5 DEF PlanAgrees, CleanSyncAgrees

\* The loops over hosts only get shorter.
LEMMA ListedStep ==
  ASSUME ReleaseInv, DropsListed, [Next]_vars
  PROVE  DropsListed'
<1>0. TypeInv /\ DownOK
  BY DEF ReleaseInv
<1>1. CASE SyncStart
  BY <1>1 DEF SyncStart, DropsListed
<1>2. CASE SyncSkipped \/ SyncDone \/ Stop
  BY <1>2 DEF SyncSkipped, SyncDone, Stop, ForgetSync, DropsListed
<1>3. CASE PhaseStep
  BY <1>3, PhaseFrame DEF DropsListed, ToUnpublish
<1>4. CASE MapStep
  <2>1. UNCHANGED <<pc, dropped>> /\ todo' \subseteq todo /\ (pc # "write" => want' = want)
    BY <1>4 DEF MapStep, DropHost, Publish, Unpublish, Release, PruneUpstream,
       WriteEntry, Handled
  <2> QED
    BY <2>1 DEF DropsListed
<1>5. CASE Restart
  BY <1>0, <1>5 DEF Restart, DownOK, DropsListed, syncVars
<1>6. CASE UNCHANGED quietVars
  BY <1>6 DEF quietVars, syncVars, DropsListed
<1> QED
  BY <1>0, <1>1, <1>2, <1>3, <1>4, <1>5, <1>6, StepCases, QuietStep

\* CleanInv is inductive, whatever may fail or be lost.
LEMMA CleanInvStep ==
  ASSUME CleanInv, [Next]_vars
  PROVE  CleanInv'
<1>0. ReleaseInv' /\ DropsListed'
  BY ReleaseInvStep, ListedStep DEF CleanInv
<1>1. CASE SyncStart
  BY <1>0, <1>1, CleanStart DEF CleanInv
<1>2. CASE SyncSkipped \/ Stop
  <2>1. ~clean'
    BY <1>2, Zenon DEF SyncSkipped, Stop
  <2> QED
    BY <1>0, <2>1 DEF CleanInv, PlanAgrees, EntriesDone, HostsDone, CleanSyncAgrees
<1>3. CASE SyncDone
  <2>1. pc' = "idle"
    BY <1>3 DEF SyncDone, ForgetSync
  <2> QED
    BY <1>0, <1>3, <2>1, CleanEnd DEF CleanInv, PlanAgrees, Syncing, EntriesDone, HostsDone
<1>4. CASE PhaseStep
  BY <1>0, <1>4, CleanPhase DEF CleanInv
<1>5. CASE MapStep
  BY <1>0, <1>5, CleanMap DEF CleanInv
<1>6. CASE Restart
  <2>1. ~clean'
    <3>1. ~clean /\ clean' = clean
      BY <1>6, Zenon DEF Restart, CleanInv, ReleaseInv, DownOK, syncVars
    <3> QED
      BY <3>1
  <2> QED
    BY <1>0, <2>1 DEF CleanInv, PlanAgrees, EntriesDone, HostsDone, CleanSyncAgrees
<1>7. CASE UNCHANGED quietVars
  <2>1. UNCHANGED <<pc, existing, current, entries, want, dropped, todo, clean, ipHost, hostIP>>
    BY <1>7 DEF quietVars, syncVars
  <2>2. PlanAgrees' /\ CleanSyncAgrees'
    BY <2>1 DEF CleanInv, PlanAgrees, CleanSyncAgrees, Syncing
  <2>3. EntriesDone' /\ HostsDone'
    BY <2>1 DEF CleanInv, EntriesDone, HostsDone, ToWrite, ToPublish, AfterDrop
  <2> QED
    BY <1>0, <2>2, <2>3 DEF CleanInv
<1> QED
  BY <1>1, <1>2, <1>3, <1>4, <1>5, <1>6, <1>7, StepCases, QuietStep DEF CleanInv, ReleaseInv

\* No sync has been clean yet.
LEMMA CleanInvInit == Init => CleanInv
<1> SUFFICES ASSUME Init PROVE CleanInv
  OBVIOUS
<1>1. ReleaseInv /\ DropsListed
  BY ReleaseInvInit DEF Init, DropsListed
<1>2. ~clean
  BY Zenon DEF Init
<1> QED
  BY <1>1, <1>2 DEF CleanInv, PlanAgrees, EntriesDone, HostsDone, CleanSyncAgrees

\* One sync without a failure repairs everything: whatever failed, stopped or
\* was lost before it, afterwards the active reservations of vip_ip_host are
\* exactly the addresses vip_host_ip hands out, one per host and family.
THEOREM CleanSyncRepairs == Spec => []CleanSyncAgrees
<1>1. CleanInv /\ [Next]_vars => CleanInv'
  BY CleanInvStep
<1>2. CleanInv => CleanSyncAgrees
  BY DEF CleanInv
<1> QED
  BY <1>1, <1>2, CleanInvInit, PTL DEF Spec

----------------------------------------------------------------------------
(* A watched host keeps its address.                                       *)

\* What KeepInv says of the running sync.
KeepParts == PlanUnique /\ PlanRetires /\ PublishedRead /\ PublishedWanted /\ DropOK

\* The plan confirms the addresses of a watched host that are in range, so
\* the host is not dropped.
LEMMA KeepStart ==
  ASSUME "vip_ip_host" \notin LostMaps, KeepInv, SyncStart
  PROVE  KeepParts'
<1>1. PICK evicted \in SUBSET FakeIP, fresh \in [Host -> HostVal] :
        /\ PlanOK(ipHost, watched, range, clock, evicted, fresh)
        /\ entries' = PlanEntries(ipHost, watched, range, clock, evicted, fresh)
        /\ want' = PlanHosts(ipHost, watched, range, clock, fresh)
  BY DEF SyncStart
<1>2. /\ ipHost \in Reservations /\ watched \in SUBSET Host /\ clock \in Nat
      /\ range \subseteq FakeIP
      /\ \A h \in Host, f \in Family : hostIP[h][f] \in FakeIP \cup {None}
  BY DEF KeepInv, ReleaseInv, TypeInv, TypeOK, Reservations, HostVal
<1>3. /\ pc' = "drop" /\ existing' = ipHost /\ hosts' = watched
      /\ UNCHANGED <<hostIP, range>>
      /\ todo' = {h \in Host : hostIP[h] # NoIPs /\ DropsVirtualIP(hostIP[h], want'[h])}
  BY DEF SyncStart, mapVars, envVars
<1>4. ASSUME NEW h \in Host, NEW f \in Family, hostIP[h][f] # None
      PROVE  ipHost[hostIP[h][f]] = Active(h) /\ FamilyOf[hostIP[h][f]] = f
  BY <1>4 DEF KeepInv, SyncInv, PublishedOK
<1>5. PlanUnique'
  <2> SUFFICES ASSUME NEW x \in FakeIP, NEW y \in FakeIP, NEW h \in Host,
                      ActiveEntryOf(entries'[x], h), ActiveEntryOf(entries'[y], h),
                      FamilyOf[x] = FamilyOf[y]
               PROVE  x = y
    BY DEF PlanUnique, ActiveEntryOf
  <2>1. ASSUME NEW z \in FakeIP, ActiveEntryOf(entries'[z], h)
        PROVE  want'[h][FamilyOf[z]] = z
    BY <1>1, <1>2, <2>1, PlanActive DEF ActiveEntryOf
  <2> QED
    BY <2>1
<1>6. PlanRetires'
  <2> SUFFICES ASSUME NEW ip \in FakeIP, entries'[ip] # None, entries'[ip].retired,
                      entries'[ip] # ipHost[ip]
               PROVE  ip \in range /\ ActiveEntryOf(ipHost[ip], entries'[ip].host)
    BY <1>3 DEF PlanRetires, ActiveEntryOf
  <2> QED
    BY <1>1, <1>2, PlanRetiresActive
<1>7. PublishedRead'
  BY <1>3, <1>4 DEF PublishedRead
<1>8. PublishedWanted'
  <2>1. ASSUME NEW h \in Host, NEW f \in Family, hostIP[h][f] # None, h \notin todo'
        PROVE  want'[h][f] = hostIP[h][f]
    <3>1. hostIP[h] # NoIPs
      BY <2>1 DEF NoIPs
    <3>2. ~DropsVirtualIP(hostIP[h], want'[h])
      BY <1>3, <2>1, <3>1
    <3> QED
      BY <2>1, <3>2 DEF DropsVirtualIP
  <2> QED
    BY <1>3, <2>1 DEF PublishedWanted
<1>9. DropOK'
  <2> SUFFICES ASSUME NEW h \in Host, h \in todo', h \in watched, NoLeftover(h)',
                      \A ff \in Family : hostIP[h][ff] \in range \cup {None}
               PROVE  FALSE
    BY <1>3 DEF DropOK
  <2>1. PICK f \in Family : hostIP[h][f] # None /\ hostIP[h][f] # want'[h][f]
    BY <1>3 DEF DropsVirtualIP
  <2> DEFINE ip == hostIP[h][f]
  <2>2. ip \in FakeIP /\ ip \in range /\ FamilyOf[ip] = f /\ ActiveEntryOf(ipHost[ip], h)
    BY <1>2, <1>4, <2>1, ActiveEntry DEF ActiveEntryOf
  <2>3. \A x \in range :
          x \in FakeIP /\ FamilyOf[x] = f /\ ActiveEntryOf(ipHost[x], h) => x = ip
    BY <1>3 DEF NoLeftover, ActiveEntryOf
  <2> HIDE DEF ip
  <2>4. PlanHosts(ipHost, watched, range, clock, fresh)[h][f] = ip
    <3>1. watched \in SUBSET Host /\ h \in watched /\ clock \in Nat /\ ipHost \in Reservations
      BY <1>2
    <3>2. (\A x \in range :
             x \in FakeIP /\ FamilyOf[x] = f /\ ActiveEntryOf(ipHost[x], h) => x = ip)
          => PlanHosts(ipHost, watched, range, clock, fresh)[h][f] = ip
      BY <2>2, <3>1, PlanKeeps
    <3> QED
      BY <2>3, <3>2
  <2> QED
    BY <1>1, <2>1, <2>4 DEF ip
<1> QED
  BY <1>5, <1>6, <1>7, <1>8, <1>9 DEF KeepParts

\* A phase ends with nothing left to drop.
LEMMA KeepPhase ==
  ASSUME KeepInv, PhaseStep
  PROVE  KeepParts'
<1>1. /\ pc # "idle" /\ pc' # "drop" /\ todo = {}
      /\ UNCHANGED <<existing, entries, want, hostIP, hosts, range>>
  BY MidSync, PhaseFrame DEF envVars
<1>2. \A h : NoLeftover(h)' = NoLeftover(h)
  BY <1>1 DEF NoLeftover
<1>3. PlanUnique' /\ PlanRetires' /\ DropOK'
  BY <1>1 DEF KeepInv, PlanUnique, PlanRetires, DropOK, Syncing, ActiveEntryOf
<1>4. PublishedRead'
  BY <1>1, PhaseFrame DEF KeepInv, PublishedRead
<1>5. PublishedWanted'
  BY <1>1, <1>2 DEF KeepInv, PublishedWanted, Syncing
<1> QED
  BY <1>3, <1>4, <1>5 DEF KeepParts

\* A failed write withdraws the address of a host with a leftover only.
LEMMA KeepWrite ==
  ASSUME KeepInv, NEW ip \in FakeIP, NEW ok \in BOOLEAN, WriteEntry(ip, ok)
  PROVE  PublishedWanted'
<1>1. /\ pc = "write" /\ UNCHANGED <<pc, existing, entries, hostIP, range>>
      /\ ip \in todo
  BY DEF WriteEntry, Handled, envVars
<1>2. SUFFICES ASSUME NEW h \in Host, NEW f \in Family, NoLeftover(h), hostIP[h][f] # None
               PROVE  want'[h][f] = hostIP[h][f]
  BY <1>1 DEF PublishedWanted, NoLeftover
<1> DEFINE x == hostIP[h][f]
<1>3. want[h][f] = x
  BY <1>1, <1>2 DEF KeepInv, PublishedWanted, Syncing
<1>4. want \in [Host -> HostVal] /\ x \in FakeIP
  BY <1>2 DEF KeepInv, ReleaseInv, TypeInv, TypeOK, HostVal
<1>5. /\ entries[x] = Active(h) /\ existing[x] = Active(h) /\ FamilyOf[x] = f
      /\ ip \in ToWrite
  <2>1. entries[x] = Active(h) /\ FamilyOf[x] = f
    BY <1>1, <1>2 DEF KeepInv, SyncInv, PublishedOK, Syncing
  <2>2. existing[x] = Active(h)
    BY <1>1, <1>2 DEF KeepInv, PublishedRead
  <2>3. ip \in ToWrite
    BY <1>1 DEF KeepInv, ReleaseInv, ReadOK
  <2> QED
    BY <2>1, <2>2, <2>3
<1>6. ~ (entries[ip].host = h /\ FamilyOf[ip] = f)
  <2> SUFFICES ASSUME entries[ip].host = h, FamilyOf[ip] = f PROVE FALSE
    OBVIOUS
  <2>1. ip # x /\ entries[ip] # None /\ entries[ip] # existing[ip]
    BY <1>5 DEF ToWrite
  <2>2. ActiveEntryOf(entries[x], h)
    BY <1>5, ActiveEntry DEF ActiveEntryOf
  <2>3. CASE entries[ip].retired
    <3>1. ip \in range /\ ActiveEntryOf(existing[ip], h)
      BY <1>1, <2>1, <2>3 DEF KeepInv, PlanRetires, Syncing
    <3>2. hostIP[h][FamilyOf[ip]] = ip
      BY <1>2, <3>1 DEF NoLeftover, ActiveEntryOf
    <3> QED
      BY <2>1, <3>2
  <2>4. CASE ~entries[ip].retired
    <3>1. ActiveEntryOf(entries[ip], h)
      BY <2>1, <2>4 DEF ActiveEntryOf
    <3> QED
      BY <1>1, <1>4, <1>5, <2>1, <2>2, <3>1 DEF KeepInv, PlanUnique, Syncing
  <2> QED
    BY <2>3, <2>4
<1>7. want' = want \/ want' = [want EXCEPT ![entries[ip].host][FamilyOf[ip]] = None]
  BY DEF WriteEntry
<1>8. want'[h][f] = want[h][f]
  <2>1. CASE want' = want
    BY <2>1
  <2>2. CASE want' = [want EXCEPT ![entries[ip].host][FamilyOf[ip]] = None]
    <3>1. want'[h] = IF h = entries[ip].host THEN [want[h] EXCEPT ![FamilyOf[ip]] = None]
                     ELSE want[h]
      BY <1>4, <2>2
    <3>2. want[h] \in [Family -> FakeIP \cup {None}]
      BY <1>4 DEF HostVal
    <3> QED
      BY <1>6, <3>1, <3>2
  <2> QED
    BY <1>7, <2>1, <2>2
<1> QED
  BY <1>3, <1>8

\* The other operations of a sync.
LEMMA KeepMap ==
  ASSUME "drop" \notin MayFail, KeepInv, MapStep
  PROVE  KeepParts'
<1>1. /\ pc # "idle" /\ UNCHANGED <<pc, existing, entries, hosts, range>>
      /\ todo' \subseteq todo
  <2>1. UNCHANGED pc /\ todo' \subseteq todo
    BY DEF MapStep, DropHost, Publish, Unpublish, Release, PruneUpstream, WriteEntry, Handled
  <2> QED
    BY <2>1, MidSync DEF envVars
<1>2. PlanUnique' /\ PlanRetires'
  BY <1>1 DEF KeepInv, PlanUnique, PlanRetires, Syncing, ActiveEntryOf
<1>3. ASSUME NEW ok \in BOOLEAN, NEW h \in Host,
             DropHost(h, ok) \/ Publish(h, ok) \/ Unpublish(h, ok)
      PROVE  KeepParts'
  <2>1. /\ want' = want /\ pc \in {"drop", "publish", "unpublish"}
        /\ h \in todo /\ todo' = todo \ {h}
        /\ \A g \in Host : g # h => hostIP'[g] = hostIP[g]
        /\ \/ hostIP' = hostIP /\ pc # "drop"
           \/ hostIP'[h] = NoIPs \/ (pc = "publish" /\ hostIP'[h] = want[h])
    BY <1>3 DEF DropHost, Publish, Unpublish, Handled, CanFail, KeepInv, ReleaseInv,
       TypeInv, TypeOK
  <2>2. \A g \in Host : g # h => NoLeftover(g)' = NoLeftover(g)
    BY <1>1, <2>1 DEF NoLeftover
  <2>3. hostIP' = hostIP => NoLeftover(h)' = NoLeftover(h)
    BY <1>1 DEF NoLeftover
  <2>4. hostIP'[h] = NoIPs => \A f \in Family : hostIP'[h][f] = None
    BY DEF NoIPs
  <2>5. PublishedWanted'
    BY <1>1, <2>1, <2>2, <2>3, <2>4 DEF KeepInv, PublishedWanted, Syncing
  <2>6. PublishedRead'
    BY <1>1, <2>1, <2>4 DEF KeepInv, PublishedRead
  <2>7. DropOK'
    BY <1>1, <2>1, <2>2 DEF KeepInv, DropOK
  <2> QED
    BY <1>2, <2>5, <2>6, <2>7 DEF KeepParts
<1>4. ASSUME NEW ok \in BOOLEAN, NEW ip \in FakeIP,
             Release(ip, ok) \/ PruneUpstream(ip, ok) \/ WriteEntry(ip, ok)
      PROVE  KeepParts'
  <2>1. hostIP' = hostIP /\ pc # "drop"
    BY <1>4 DEF Release, PruneUpstream, WriteEntry
  <2>2. PublishedRead' /\ DropOK'
    BY <1>1, <2>1 DEF KeepInv, PublishedRead, DropOK
  <2>3. CASE want' = want
    <3>1. \A g : NoLeftover(g)' = NoLeftover(g)
      BY <1>1, <2>1 DEF NoLeftover
    <3>2. PublishedWanted'
      BY <1>1, <2>1, <2>3, <3>1 DEF KeepInv, PublishedWanted, Syncing
    <3> QED
      BY <1>2, <2>2, <3>2 DEF KeepParts
  <2>4. CASE WriteEntry(ip, ok)
    BY <1>2, <2>2, <2>4, KeepWrite DEF KeepParts
  <2> QED
    BY <1>4, <2>3, <2>4 DEF Release, PruneUpstream
<1> QED
  BY <1>3, <1>4 DEF MapStep

\* KeepInv is inductive when dropped hosts are really dropped and the
\* reservations are not lost.
LEMMA KeepInvStep ==
  ASSUME "drop" \notin MayFail, "vip_ip_host" \notin LostMaps, KeepInv, [Next]_vars
  PROVE  KeepInv'
<1>0. ReleaseInv' /\ DropsListed' /\ SyncInv'
  <2>1. StoppedOK
    BY DEF KeepInv, ReleaseInv, DownOK, StoppedOK
  <2> QED
    BY <2>1, ReleaseInvStep, ListedStep, SyncInvStep DEF KeepInv
<1>1. SUFFICES KeepParts'
  BY <1>0 DEF KeepInv, KeepParts
<1>2. CASE SyncStart
  BY <1>2, KeepStart
<1>3. CASE PhaseStep
  BY <1>3, KeepPhase
<1>4. CASE MapStep
  BY <1>4, KeepMap
<1>5. CASE pc' = "idle"
  BY <1>5 DEF KeepParts, PlanUnique, PlanRetires, PublishedRead, PublishedWanted, DropOK,
     Syncing
<1>6. SyncSkipped \/ SyncDone \/ Stop \/ Restart => pc' = "idle"
  BY DEF SyncSkipped, SyncDone, Stop, Restart, ForgetSync, KeepInv, ReleaseInv, DownOK,
     syncVars
<1>7. CASE UNCHANGED quietVars
  <2>1. UNCHANGED <<pc, existing, entries, want, todo, hosts, hostIP, range>>
    BY <1>7 DEF quietVars, syncVars
  <2>2. \A h : NoLeftover(h)' = NoLeftover(h)
    BY <2>1 DEF NoLeftover
  <2>3. PlanUnique' /\ PlanRetires' /\ PublishedRead'
    BY <2>1 DEF KeepInv, PlanUnique, PlanRetires, PublishedRead, Syncing, ActiveEntryOf
  <2>4. PublishedWanted' /\ DropOK'
    BY <2>1, <2>2 DEF KeepInv, PublishedWanted, DropOK, Syncing
  <2> QED
    BY <2>3, <2>4 DEF KeepParts
<1> QED
  BY <1>2, <1>3, <1>4, <1>5, <1>6, <1>7, StepCases, QuietStep DEF KeepInv, ReleaseInv

\* Nothing is published before the first sync.
LEMMA KeepInvInit == Init => KeepInv
<1> SUFFICES ASSUME Init PROVE KeepInv
  OBVIOUS
<1>1. ReleaseInv /\ DropsListed /\ SyncInv
  BY ReleaseInvInit, SyncInvInit DEF Init, DropsListed
<1> QED
  BY <1>1 DEF Init, KeepInv, PlanUnique, PlanRetires, PublishedRead, PublishedWanted,
     DropOK, Syncing

\* Of the steps of a sync, only the operations on vip_host_ip touch what is
\* published, and they leave such a host what it has.
LEMMA KeepsAddress ==
  ASSUME KeepInv, [Next]_vars, NEW h \in Host, NEW f \in Family,
         up, pc # "idle", h \in hosts, hostIP[h][f] # None,
         \A ff \in Family : hostIP[h][ff] \in range \cup {None}, NoLeftover(h)
  PROVE  hostIP'[h][f] = hostIP[h][f]
<1> SUFFICES ASSUME hostIP'[h] # hostIP[h] PROVE hostIP'[h][f] = hostIP[h][f]
  OBVIOUS
<1>1. MapStep
  <2>1. ~SyncStart /\ ~SyncSkipped /\ ~SyncDone /\ ~PhaseStep /\ ~Stop /\ ~Restart
    BY PhaseFrame DEF SyncStart, SyncSkipped, SyncDone, Stop, Restart, mapVars
  <2>2. ~UNCHANGED quietVars
    BY DEF quietVars
  <2> QED
    BY <2>1, <2>2, StepCases, QuietStep DEF KeepInv, ReleaseInv
<1>2. PICK ok \in BOOLEAN, g \in Host : DropHost(g, ok) \/ Publish(g, ok) \/ Unpublish(g, ok)
  BY <1>1 DEF MapStep, Release, PruneUpstream, WriteEntry
<1>3. g = h /\ h \in todo
  BY <1>2 DEF DropHost, Publish, Unpublish, Handled, KeepInv, ReleaseInv, TypeInv, TypeOK
<1>4. pc # "drop"
  BY <1>3 DEF KeepInv, DropOK
<1>5. want[h][f] = hostIP[h][f]
  BY <1>4 DEF KeepInv, PublishedWanted, Syncing
<1>6. pc # "unpublish"
  BY <1>3, <1>5 DEF KeepInv, DropsListed, NoIPs
<1>7. hostIP'[h] = want[h]
  BY <1>2, <1>3, <1>4, <1>6 DEF DropHost, Publish, Unpublish, KeepInv, ReleaseInv,
     TypeInv, TypeOK
<1> QED
  BY <1>5, <1>7

\* A watched host keeps its fake IP: whatever else fails, no step of a sync
\* takes an address away from a host the sync was given whose addresses are
\* all in range, provided that the deletes of the drop phase succeed,
\* vip_ip_host is never lost, and no failed release has left the host a second
\* active reservation.
THEOREM WatchedHostsKeepTheirIP ==
  ASSUME "drop" \notin MayFail, "vip_ip_host" \notin LostMaps
  PROVE  Spec => WatchedKeepsIP
<1>1. KeepInv /\ [Next]_vars =>
        [\A h \in Host, f \in Family :
           /\ up /\ pc # "idle" /\ h \in hosts /\ hostIP[h][f] # None
           /\ \A ff \in Family : hostIP[h][ff] \in range \cup {None}
           /\ NoLeftover(h)
           => hostIP'[h][f] = hostIP[h][f]]_vars
  BY KeepsAddress
<1>2. KeepInv /\ [Next]_vars => KeepInv'
  BY KeepInvStep
<1> QED
  BY <1>1, <1>2, KeepInvInit, PTL DEF Spec, WatchedKeepsIP
=============================================================================
