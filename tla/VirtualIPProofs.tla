--------------------------- MODULE VirtualIPProofs ---------------------------
(***************************************************************************)
(* Proofs about VirtualIP, for any number of hosts, addresses, families,   *)
(* sockets and CPUs, any retention and capacity, and any number of stops.  *)
(*                                                                         *)
(* SyncInv is the argument behind sync's order of map operations; DataInv  *)
(* adds what the data plane relies on.                                     *)
(***************************************************************************)
EXTENDS VirtualIP, TLAPS, WellFoundedInduction

----------------------------------------------------------------------------
(* The inductive invariants.                                               *)

\* A program that runs has found its host, its fake IP and its socket.
ProgOK ==
  \A c \in Cpu :
     /\ prog[c].op # "idle" => prog[c].host \in Host /\ prog[c].ip \in FakeIP
     /\ prog[c].op = "connect" => prog[c].sock \in Socket

TypeInv == TypeOK /\ ProgOK

Syncing == pc # "idle"

\* A published address is actively reserved for its host, or vip_ip_host was
\* lost; during a sync its host keeps it, or is about to be dropped.
PublishedOK ==
  \A h \in Host, f \in Family :
     LET ip == hostIP[h][f] IN
     ip # None =>
       /\ FamilyOf[ip] = f
       /\ ipHost[ip] = Active(h) \/ (ipHost[ip] = None /\ "vip_ip_host" \in LostMaps)
       /\ Syncing => entries[ip] = Active(h) \/ (pc = "drop" /\ h \in todo)

\* What the sync means to publish is in its plan.
WantOK ==
  Syncing => \A h \in Host, f \in Family :
               LET ip == want[h][f] IN
               ip # None => entries[ip] = Active(h) /\ FamilyOf[ip] = f

\* Until reservations are written, those the plan keeps are as they were read.
KeptOK ==
  pc \in {"drop", "release", "prune"} =>
    \A ip \in FakeIP : entries[ip] # None => ipHost[ip] = existing[ip]

\* Only addresses out of the plan are released, only planned ones written.
TodoOK ==
  /\ pc = "release" => \A ip \in FakeIP : ip \in todo => entries[ip] = None
  /\ pc = "write" => \A ip \in FakeIP : ip \in todo => entries[ip] # None

\* A planned reservation is in the map, waits to be written, or failed and is
\* not published.
WrittenOK ==
  pc \in {"write", "publish", "unpublish"} =>
    \A ip \in FakeIP :
      entries[ip] # None =>
        \/ pc = "write" /\ ip \in todo
        \/ ipHost[ip] = entries[ip]
        \/ want[entries[ip].host][FamilyOf[ip]] = None

\* No sync is under way while the controller is stopped.
StoppedOK == ~up => pc = "idle"

SyncInv ==
  /\ TypeInv
  /\ PublishedOK /\ WantOK /\ KeptOK /\ TodoOK /\ WrittenOK

\* Real addresses of h an address ip of its family may lead to.
AddrsFor(h, ip) == AddrOf[h][FamilyOf[ip]]

\* Two hosts never share a published address.
Distinct ==
  \A g, h \in Host, f \in Family :
     hostIP[h][f] # None /\ hostIP[g][f] = hostIP[h][f] => g = h

\* A published address leads to its host, even while vip_ip_host is lost.
PublishedUpstream ==
  \A h \in Host, f \in Family :
     hostIP[h][f] # None => upstream[hostIP[h][f]] \subseteq AddrOf[h][f]

\* Once pruned, an address leads to the host the plan gives it to.
PrunedOK ==
  \A ip \in FakeIP :
     /\ entries[ip] # None
     /\ (pc = "prune" /\ ip \notin todo) \/ pc = "write"
     => upstream[ip] \subseteq AddrsFor(entries[ip].host, ip)

\* Without overlap, what a program looked up still holds when it goes on.
ProgFresh ==
  \A c \in Cpu :
     LET p == prog[c] IN
     /\ p.op \in {"dns", "dnsRead"} => hostIP[p.host][FamilyOf[p.ip]] = p.ip
     /\ p.op = "dnsRead" => p.cur \subseteq AddrsFor(p.host, p.ip)
     /\ p.op = "connect" => ipHost[p.ip] # None /\ ipHost[p.ip].host = p.host

DataInv ==
  /\ SyncInv /\ StoppedOK
  /\ UpstreamOfHost /\ SocketReachesHost
  /\ Distinct /\ PublishedUpstream /\ PrunedOK /\ ProgFresh

----------------------------------------------------------------------------
(* What a plan holds.                                                      *)

\* The lowest address of a non-empty set is one of its addresses.
LEMMA LowestIn ==
  ASSUME NEW S \in SUBSET FakeIP, S # {}
  PROVE  Lowest(S) \in S
<1>1. S \subseteq Nat
  BY PlanConstants
<1>2. PICK x \in S : \A y \in S : ~ (<<y, x>> \in OpToRel(<, Nat))
  BY <1>1, WFMin, NatLessThanWellFounded, Zenon
<1>3. OpToRel(<, Nat) = {ss \in Nat \X Nat : ss[1] < ss[2]}
  BY Zenon DEF OpToRel
<1>4. \A y \in S : x <= y
  <2> SUFFICES ASSUME NEW y \in S, y < x PROVE FALSE
    BY <1>1
  <2>1. <<y, x>> \in {ss \in Nat \X Nat : ss[1] < ss[2]}
    BY <1>1
  <2> QED
    BY <1>2, <1>3, <2>1, Zenon
<1> QED
  BY <1>4 DEF Lowest

\* KeepIP picks one of the host's reservations that the plan may keep.
LEMMA KeepIPIn ==
  ASSUME NEW ex, NEW rg, NEW now, NEW h, NEW f,
         IPsOf(ex, rg, now, h, f) # {}
  PROVE  KeepIP(ex, rg, now, h, f) \in IPsOf(ex, rg, now, h, f)
<1> DEFINE all    == IPsOf(ex, rg, now, h, f)
           active == {ip \in all : ~ex[ip].retired}
           cand   == IF active # {} THEN active ELSE all
<1>1. cand \subseteq all /\ all \subseteq FakeIP /\ cand # {}
  BY DEF IPsOf, Kept
<1>2. Lowest(cand) \in cand
  BY <1>1, LowestIn
<1>3. KeepIP(ex, rg, now, h, f) = Lowest(cand)
  BY Zenon DEF KeepIP
<1> QED
  BY <1>1, <1>2, <1>3

\* An active reservation is a reservation, of its host.
LEMMA ActiveEntry ==
  ASSUME NEW h \in Host
  PROVE  Active(h) \in Entry /\ Active(h) # None /\ Active(h).host = h
         /\ ~Active(h).retired
<1>1. Active(h) \in Entry
  BY DEF Active, Entry
<1>2. None \notin Entry
  BY PlanConstants DEF Entry
<1>3. Active(h).host = h /\ ~Active(h).retired
  BY DEF Active
<1> QED
  BY <1>1, <1>2, <1>3

Reservations == [FakeIP -> Entry \cup {None}]

\* Settled reservations are reservations.
LEMMA SettledType ==
  ASSUME NEW ex \in Reservations, NEW H \in SUBSET Host, NEW rg,
         NEW now \in Nat
  PROVE  Settled(ex, H, rg, now) \in Reservations
<1> SUFFICES ASSUME NEW ip \in FakeIP
             PROVE  Settled(ex, H, rg, now)[ip] \in Entry \cup {None}
  BY DEF Settled, Reservations
<1>1. ip \in Kept(ex, rg, now) => ex[ip] \in Entry
  BY DEF Kept, Reservations
<1> QED
  BY <1>1 DEF Settled, Entry, Active, RetiredAt

\* A plan's reservations and host addresses have their types.
LEMMA PlanType ==
  ASSUME NEW ex \in Reservations, NEW H \in SUBSET Host, NEW rg,
         NEW now \in Nat, NEW evicted, NEW fresh \in [Host -> HostVal]
  PROVE  /\ PlanEntries(ex, H, rg, now, evicted, fresh) \in Reservations
         /\ PlanHosts(ex, H, rg, now, fresh) \in [Host -> HostVal]
<1>1. PlanEntries(ex, H, rg, now, evicted, fresh) \in Reservations
  <2> SUFFICES ASSUME NEW ip \in FakeIP
               PROVE  PlanEntries(ex, H, rg, now, evicted, fresh)[ip] \in Entry \cup {None}
    BY DEF PlanEntries, Reservations
  <2>1. CASE \E h \in H : fresh[h][FamilyOf[ip]] = ip
    <3> DEFINE g == CHOOSE h \in H : fresh[h][FamilyOf[ip]] = ip
    <3>1. g \in Host
      BY <2>1
    <3>2. PlanEntries(ex, H, rg, now, evicted, fresh)[ip] = Active(g)
      BY <2>1 DEF PlanEntries
    <3> QED
      BY <3>1, <3>2 DEF Active, Entry
  <2>2. CASE ~ \E h \in H : fresh[h][FamilyOf[ip]] = ip
    BY <2>2, SettledType DEF PlanEntries, Reservations
  <2> QED
    BY <2>1, <2>2
<1>2. ASSUME NEW h \in Host, NEW f \in Family
      PROVE  PlanHosts(ex, H, rg, now, fresh)[h][f] \in FakeIP \cup {None}
  <2>1. CASE h \in H /\ IPsOf(ex, rg, now, h, f) # {}
    <3>1. KeepIP(ex, rg, now, h, f) \in FakeIP
      BY <2>1, KeepIPIn DEF IPsOf, Kept
    <3> QED
      BY <2>1, <3>1 DEF PlanHosts
  <2>2. CASE ~ (h \in H /\ IPsOf(ex, rg, now, h, f) # {})
    BY <2>2 DEF PlanHosts, HostVal
  <2> QED
    BY <2>1, <2>2
<1> QED
  BY <1>1, <1>2 DEF PlanHosts, HostVal

\* An address the plan gives a host is actively reserved for it in the plan,
\* and for no other: the hosts' addresses are distinct.
LEMMA PlanGives ==
  ASSUME NEW ex \in Reservations, NEW H \in SUBSET Host, NEW rg,
         NEW now \in Nat, NEW evicted \in SUBSET FakeIP,
         NEW fresh \in [Host -> HostVal],
         PlanOK(ex, H, rg, now, evicted, fresh),
         NEW h \in Host, NEW f \in Family,
         PlanHosts(ex, H, rg, now, fresh)[h][f] # None
  PROVE  LET ip == PlanHosts(ex, H, rg, now, fresh)[h][f] IN
         /\ PlanEntries(ex, H, rg, now, evicted, fresh)[ip] = Active(h)
         /\ FamilyOf[ip] = f
<1> DEFINE ip == PlanHosts(ex, H, rg, now, fresh)[h][f]
           settled == Settled(ex, H, rg, now)
<1> HIDE DEF ip
<1>0. ip \in FakeIP /\ ip # None
  <2>1. PlanHosts(ex, H, rg, now, fresh) \in [Host -> HostVal]
    BY PlanType
  <2> QED
    BY <2>1 DEF ip, HostVal
<1>1. \A g \in Host : fresh[g][f] = ip =>
        /\ g \in NewHosts(ex, H, rg, now, f)
        /\ FamilyOf[ip] = f
        /\ settled[ip] = None \/ ip \in evicted
        /\ \A k \in Host : fresh[k][f] = ip => k = g
  BY <1>0 DEF PlanOK, FreshOK
<1>2. CASE h \in H /\ IPsOf(ex, rg, now, h, f) # {}
  <2>1. ip = KeepIP(ex, rg, now, h, f)
    BY <1>2 DEF PlanHosts, ip
  <2>2. ip \in IPsOf(ex, rg, now, h, f)
    BY <1>2, <2>1, KeepIPIn
  <2>3. ip \in Kept(ex, rg, now) /\ ex[ip].host = h /\ FamilyOf[ip] = f
    BY <2>2 DEF IPsOf
  <2>4. settled[ip] = Active(h)
    BY <1>0, <1>2, <2>1, <2>3 DEF Settled
  <2>5. Active(h) # None /\ ~Active(h).retired
    BY ActiveEntry
  <2>6. ip \notin evicted
    <3> SUFFICES ASSUME ip \in evicted PROVE FALSE
      OBVIOUS
    <3>1. {x \in evicted : FamilyOf[x] = f} \subseteq Retired(settled, f)
      BY Zenon DEF PlanOK, EvictionOK
    <3>2. settled[ip].retired
      BY <2>3, <3>1 DEF Retired
    <3> QED
      BY <2>4, <2>5, <3>2
  <2>7. ~ \E g \in H : fresh[g][FamilyOf[ip]] = ip
    BY <1>1, <2>3, <2>4, <2>5, <2>6
  <2>8. PlanEntries(ex, H, rg, now, evicted, fresh)[ip] = Active(h)
    BY <1>0, <2>4, <2>6, <2>7 DEF PlanEntries
  <2> QED
    BY <2>3, <2>8 DEF ip
<1>3. CASE ~ (h \in H /\ IPsOf(ex, rg, now, h, f) # {})
  <2>1. fresh[h][f] = ip
    BY <1>3 DEF PlanHosts, ip
  <2>2. h \in H /\ FamilyOf[ip] = f
    BY <1>1, <2>1 DEF NewHosts
  <2>3. (CHOOSE g \in H : fresh[g][FamilyOf[ip]] = ip) = h
    BY <1>1, <2>1, <2>2
  <2>4. PlanEntries(ex, H, rg, now, evicted, fresh)[ip] = Active(h)
    BY <1>0, <2>1, <2>2, <2>3 DEF PlanEntries
  <2> QED
    BY <2>2, <2>4 DEF ip
<1> QED
  BY <1>2, <1>3

----------------------------------------------------------------------------
(* Type correctness.                                                       *)

\* Taking an address out of want.
LEMMA WithoutIP ==
  ASSUME NEW w \in [Host -> HostVal], NEW g, NEW k
  PROVE  [w EXCEPT ![g][k] = None] \in [Host -> HostVal]
<1> DEFINE new == [w EXCEPT ![g][k] = None]
<1>1. \A h \in Host : new[h] = IF h = g THEN [w[h] EXCEPT ![k] = None] ELSE w[h]
  OBVIOUS
<1>2. \A h \in Host : w[h] \in [Family -> FakeIP \cup {None}]
  BY DEF HostVal
<1>3. \A h \in Host : new[h] \in [Family -> FakeIP \cup {None}]
  BY <1>1, <1>2
<1> QED
  BY <1>3 DEF HostVal

\* The maps are empty and no sync runs at first.
LEMMA TypeInit == Init => TypeInv
<1> SUFFICES ASSUME Init PROVE TypeInv
  OBVIOUS
<1>1. TypeOK
  BY VirtualIPConstants DEF Init, TypeOK, NoEntries, NoHosts, NoIPs, HostVal,
     Phases, Idle, Prog
<1>2. ProgOK
  BY DEF Init, ProgOK, Idle
<1> QED
  BY <1>1, <1>2 DEF TypeInv

\* A sync's own steps on the maps keep the types.
LEMMA TypeSync ==
  ASSUME TypeInv, SyncStep
  PROVE  TypeInv'
<1> USE DEF TypeInv
<1>a. ASSUME UNCHANGED prog PROVE ProgOK'
  BY <1>a DEF ProgOK
<1>1. CASE SyncStart
  <2>1. PICK evicted \in SUBSET FakeIP, fresh \in [Host -> HostVal] :
          /\ entries' = PlanEntries(ipHost, watched, range, clock, evicted, fresh)
          /\ want' = PlanHosts(ipHost, watched, range, clock, fresh)
    BY <1>1 DEF SyncStart
  <2>2. entries' \in [FakeIP -> Entry \cup {None}] /\ want' \in [Host -> HostVal]
    BY <2>1, PlanType DEF TypeOK, Reservations
  <2>3. dropped' \subseteq Host /\ todo' \subseteq Host
    BY <1>1 DEF SyncStart
  <2>4. TypeOK'
    BY <1>1, <2>2, <2>3 DEF SyncStart, TypeOK, Phases, mapVars, sockVars, envVars
  <2> QED
    BY <1>1, <1>a, <2>4 DEF SyncStart
<1>2. CASE SyncSkipped
  <2>1. TypeOK'
    BY <1>2 DEF SyncSkipped, TypeOK, mapVars, sockVars, envVars
  <2> QED
    BY <1>2, <1>a, <2>1 DEF SyncSkipped
<1>3. CASE StartRelease \/ StartPrune \/ StartWrite \/ StartPublish \/ StartUnpublish
  <2>1. todo' \subseteq Host \cup FakeIP /\ pc' \in Phases /\ clean' \in BOOLEAN
    BY <1>3 DEF StartRelease, StartPrune, StartWrite, StartPublish,
       StartUnpublish, EnterPhase, ToRelease, StaleUpstreams, ToWrite, ToPublish,
       ToUnpublish, Phases, TypeOK
  <2>2. UNCHANGED <<existing, current, hosts, entries, want, dropped, mapVars,
                    sockVars, envVars, prog>>
    BY <1>3 DEF StartRelease, StartPrune, StartWrite, StartPublish,
       StartUnpublish, EnterPhase
  <2>3. TypeOK'
    BY <2>1, <2>2 DEF TypeOK, mapVars, sockVars, envVars
  <2> QED
    BY <1>a, <2>2, <2>3
<1>4. CASE SyncDone
  <2>1. TypeOK'
    BY <1>4 DEF SyncDone, ForgetSync, TypeOK, NoEntries, NoHosts, NoIPs, HostVal,
       Phases, mapVars, sockVars, envVars
  <2> QED
    BY <1>4, <1>a, <2>1 DEF SyncDone
<1>5. ASSUME NEW ok \in BOOLEAN, NEW h \in Host,
             DropHost(h, ok) \/ Publish(h, ok) \/ Unpublish(h, ok)
      PROVE  TypeInv'
  <2>1. hostIP' \in [Host -> HostVal]
    BY <1>5 DEF DropHost, Publish, Unpublish, TypeOK, NoIPs, HostVal
  <2>2. TypeOK'
    BY <1>5, <2>1 DEF DropHost, Publish, Unpublish, Handled, TypeOK, mapVars,
       sockVars, envVars
  <2> QED
    BY <1>5, <1>a, <2>2 DEF DropHost, Publish, Unpublish
<1>6. ASSUME NEW ok \in BOOLEAN, NEW ip \in FakeIP,
             Release(ip, ok) \/ PruneUpstream(ip, ok) \/ WriteEntry(ip, ok)
      PROVE  TypeInv'
  <2>1. ipHost' \in [FakeIP -> Entry \cup {None}]
    BY <1>6 DEF Release, PruneUpstream, WriteEntry, TypeOK
  <2>2. upstream' \in [FakeIP -> SUBSET RealAddr]
    BY <1>6 DEF Release, PruneUpstream, WriteEntry, TypeOK
  <2>3. want' \in [Host -> HostVal]
    <3>1. CASE UNCHANGED want
      BY <3>1 DEF TypeOK
    <3>2. CASE want' = [want EXCEPT ![entries[ip].host][FamilyOf[ip]] = None]
      BY <3>2, WithoutIP DEF TypeOK
    <3> QED
      BY <1>6, <3>1, <3>2 DEF Release, PruneUpstream, WriteEntry
  <2>4. TypeOK'
    BY <1>6, <2>1, <2>2, <2>3 DEF Release, PruneUpstream, WriteEntry, Handled,
       TypeOK, sockVars, envVars
  <2> QED
    BY <1>6, <1>a, <2>4 DEF Release, PruneUpstream, WriteEntry
<1> QED
  BY <1>1, <1>2, <1>3, <1>4, <1>5, <1>6 DEF SyncStep

\* So do secrets, time, stops and restarts.
LEMMA TypeEnvironment ==
  ASSUME TypeInv, Environment
  PROVE  TypeInv'
<1> USE DEF TypeInv
<1>1. CASE Tick
  BY <1>1 DEF Tick, TypeOK, ProgOK, syncVars, mapVars, sockVars
<1>2. CASE Stop
  <2>1. Idle \in Prog
    BY DEF Idle, Prog
  <2>2. prog' \in [Cpu -> Prog]
    BY <1>2, <2>1 DEF Stop, TypeOK
  <2>3. /\ existing' \in [FakeIP -> Entry \cup {None}]
        /\ entries' \in [FakeIP -> Entry \cup {None}]
        /\ current' \in [Host -> HostVal] /\ want' \in [Host -> HostVal]
    BY <1>2 DEF Stop, ForgetSync, NoEntries, NoHosts, NoIPs, HostVal
  <2>4. /\ pc' = "idle" /\ todo' = {} /\ hosts' = {} /\ dropped' = {}
        /\ stops' \in Nat
        /\ sockHost' \in [Socket -> Host \cup {None}]
        /\ sockDst' \in [Socket -> RealAddr \cup {None}]
        /\ sockFake' \in [Socket -> FakeIP \cup {None}]
        /\ UNCHANGED <<clock, watched, range, ipHost, hostIP, upstream>>
    BY <1>2 DEF Stop, ForgetSync, mapVars, TypeOK
  <2>5. up' \in BOOLEAN /\ clean' \in BOOLEAN
    BY <1>2, Zenon DEF Stop
  <2>6. TypeOK'
    BY <2>2, <2>3, <2>4, <2>5 DEF TypeOK, Phases
  <2>7. ProgOK'
    BY <1>2 DEF Stop, ProgOK, Idle
  <2> QED
    BY <2>6, <2>7
<1>3. CASE Restart
  <2>1. /\ ipHost' = NoEntries \/ ipHost' = ipHost
        /\ hostIP' = NoHosts \/ hostIP' = hostIP
        /\ upstream' = [ip \in FakeIP |-> {}] \/ upstream' = upstream
    BY <1>3 DEF Restart
  <2>2. /\ ipHost' \in [FakeIP -> Entry \cup {None}]
        /\ hostIP' \in [Host -> HostVal]
        /\ upstream' \in [FakeIP -> SUBSET RealAddr]
    BY <2>1 DEF TypeOK, NoEntries, NoHosts, NoIPs, HostVal
  <2>3. range' \subseteq FakeIP
    BY <1>3, VirtualIPConstants DEF Restart
  <2>4. TypeOK' /\ ProgOK'
    BY <1>3, <2>2, <2>3 DEF Restart, TypeOK, ProgOK, syncVars, sockVars
  <2> QED
    BY <2>4
<1>4. ASSUME NEW h \in Host, ChangeWatched(h) PROVE TypeInv'
  BY <1>4 DEF ChangeWatched, TypeOK, ProgOK, syncVars, mapVars, sockVars
<1> QED
  BY <1>1, <1>2, <1>3, <1>4 DEF Environment

\* And the data plane's programs.
LEMMA TypeDataPlane ==
  ASSUME TypeInv, DataPlane
  PROVE  TypeInv'
<1> USE DEF TypeInv
<1>a. Idle \in Prog
  BY DEF Idle, Prog
<1>1. ASSUME NEW c \in Cpu, DnsRead(c) PROVE TypeInv'
  <2>1. prog[c] \in Prog /\ upstream[prog[c].ip] \in SUBSET RealAddr
    BY <1>1 DEF DnsRead, TypeOK, ProgOK
  <2>2. prog' \in [Cpu -> Prog]
    BY <1>1, <2>1 DEF DnsRead, TypeOK, Prog
  <2>3. TypeOK'
    BY <1>1, <2>2 DEF DnsRead, TypeOK, syncVars, mapVars, sockVars, envVars
  <2>4. ProgOK'
    BY <1>1 DEF DnsRead, ProgOK, TypeOK, Prog
  <2> QED
    BY <2>3, <2>4
<1>2. ASSUME NEW c \in Cpu, DnsRecord(c) PROVE TypeInv'
  <2>1. prog[c].cur \in SUBSET RealAddr /\ prog[c].ip \in FakeIP /\ prog[c].host \in Host
    BY <1>2 DEF DnsRecord, TypeOK, ProgOK, Prog
  <2>2. AddrOf[prog[c].host][FamilyOf[prog[c].ip]] \subseteq RealAddr
    <3>1. FamilyOf[prog[c].ip] \in Family
      BY <2>1, PlanConstants
    <3> QED
      BY <2>1, <3>1, VirtualIPConstants
  <2>3. upstream' \in [FakeIP -> SUBSET RealAddr]
    BY <1>2, <2>1, <2>2 DEF DnsRecord, Recorded, TypeOK
  <2>4. prog' \in [Cpu -> Prog]
    BY <1>2, <1>a DEF DnsRecord, TypeOK
  <2>5. TypeOK'
    BY <1>2, <2>3, <2>4 DEF DnsRecord, TypeOK, syncVars, sockVars, envVars
  <2>6. ProgOK'
    BY <1>2 DEF DnsRecord, ProgOK, TypeOK, Idle
  <2> QED
    BY <2>5, <2>6
<1>3. ASSUME NEW c \in Cpu, ConnectRedirect(c) \/ ConnectRefused(c) PROVE TypeInv'
  <2>1. prog[c].host \in Host /\ prog[c].ip \in FakeIP /\ prog[c].sock \in Socket
    BY <1>3 DEF ConnectRedirect, ConnectRefused, ProgOK
  <2>2. prog' \in [Cpu -> Prog]
    BY <1>3, <1>a DEF ConnectRedirect, ConnectRefused, TypeOK
  <2>3. /\ sockHost' \in [Socket -> Host \cup {None}]
        /\ sockDst' \in [Socket -> RealAddr \cup {None}]
        /\ sockFake' \in [Socket -> FakeIP \cup {None}]
    BY <1>3, <2>1 DEF ConnectRedirect, ConnectRefused, ForgetHost, TypeOK
  <2>4. TypeOK'
    BY <1>3, <2>2, <2>3 DEF ConnectRedirect, ConnectRefused, TypeOK, syncVars,
       mapVars, envVars
  <2>5. ProgOK'
    BY <1>3 DEF ConnectRedirect, ConnectRefused, ProgOK, TypeOK, Idle
  <2> QED
    BY <2>4, <2>5
<1>4. ASSUME NEW c \in Cpu, NEW h \in Host, NEW f \in Family, DnsLookup(c, h, f)
      PROVE  TypeInv'
  <2>1. hostIP[h][f] \in FakeIP
    BY <1>4 DEF DnsLookup, TypeOK
  <2>2. prog' \in [Cpu -> Prog]
    BY <1>4, <2>1 DEF DnsLookup, TypeOK, Prog, Idle
  <2>3. TypeOK'
    BY <1>4, <2>2 DEF DnsLookup, TypeOK, syncVars, mapVars, sockVars, envVars
  <2>4. ProgOK'
    BY <1>4, <2>1 DEF DnsLookup, ProgOK, TypeOK, Idle
  <2> QED
    BY <2>3, <2>4
<1>5. ASSUME NEW c \in Cpu, NEW s \in Socket, NEW ip \in FakeIP, ConnectLookup(c, s, ip)
      PROVE  TypeInv'
  <2>1. ipHost[ip].host \in Host
    BY <1>5 DEF ConnectLookup, TypeOK, Entry
  <2>2. prog' \in [Cpu -> Prog]
    BY <1>5, <2>1 DEF ConnectLookup, TypeOK, Prog, Idle
  <2>3. TypeOK'
    BY <1>5, <2>2 DEF ConnectLookup, TypeOK, syncVars, mapVars, sockVars, envVars
  <2>4. ProgOK'
    BY <1>5, <2>1 DEF ConnectLookup, ProgOK, TypeOK, Idle
  <2> QED
    BY <2>3, <2>4
<1>6. ASSUME NEW s \in Socket,
             \/ CloseSocket(s)
             \/ \E ip \in FakeIP : ConnectUnreserved(s, ip)
             \/ \E real \in RealAddr : ConnectDirect(s, real)
      PROVE  TypeInv'
  <2>1. /\ sockHost' \in [Socket -> Host \cup {None}]
        /\ sockDst' \in [Socket -> RealAddr \cup {None}]
        /\ sockFake' \in [Socket -> FakeIP \cup {None}]
    BY <1>6 DEF CloseSocket, ConnectUnreserved, ConnectDirect, ForgetHost, TypeOK
  <2>2. UNCHANGED <<syncVars, mapVars, envVars, prog>>
    BY <1>6 DEF CloseSocket, ConnectUnreserved, ConnectDirect
  <2> QED
    BY <2>1, <2>2 DEF TypeOK, ProgOK, syncVars, mapVars, envVars
<1> QED
  BY <1>1, <1>2, <1>3, <1>4, <1>5, <1>6 DEF DataPlane

\* Every variable of the model keeps its type: no step reads a map, a plan
\* or a program's state outside of its domain.
THEOREM TypeCorrect == Spec => []TypeOK
<1>1. Init => TypeInv
  BY TypeInit
<1>2. TypeInv /\ [Next]_vars => TypeInv'
  <2> SUFFICES ASSUME TypeInv, [Next]_vars PROVE TypeInv'
    OBVIOUS
  <2>1. CASE Next
    BY <2>1, TypeSync, TypeDataPlane, TypeEnvironment DEF Next
  <2>2. CASE UNCHANGED vars
    BY <2>2 DEF TypeInv, TypeOK, ProgOK, vars, syncVars, mapVars, sockVars, envVars
  <2> QED
    BY <2>1, <2>2
<1>3. TypeInv => TypeOK
  BY DEF TypeInv
<1> QED
  BY <1>1, <1>2, <1>3, PTL DEF Spec

----------------------------------------------------------------------------
(* A published address is reserved for its host.                           *)

\* What SyncInv says beyond the types, for steps that touch none of it.
LEMMA SyncFrame ==
  ASSUME SyncInv, TypeInv',
         UNCHANGED <<pc, existing, entries, want, todo, ipHost, hostIP>>
  PROVE  SyncInv'
  BY DEF SyncInv, PublishedOK, WantOK, KeptOK, TodoOK, WrittenOK, Syncing

\* sync plans from what the maps hold: the hosts whose address the plan does
\* not confirm are the ones it drops first.
LEMMA StartsOK ==
  ASSUME SyncInv, SyncStart
  PROVE  SyncInv'
<1>1. TypeInv /\ TypeInv'
  BY TypeSync DEF SyncInv, SyncStep
<1>2. PICK evicted \in SUBSET FakeIP, fresh \in [Host -> HostVal] :
        /\ PlanOK(ipHost, watched, range, clock, evicted, fresh)
        /\ entries' = PlanEntries(ipHost, watched, range, clock, evicted, fresh)
        /\ want' = PlanHosts(ipHost, watched, range, clock, fresh)
  BY DEF SyncStart
<1>3. ASSUME NEW h \in Host, NEW f \in Family, want'[h][f] # None
      PROVE  entries'[want'[h][f]] = Active(h) /\ FamilyOf[want'[h][f]] = f
  <2>1. ipHost \in Reservations /\ watched \in SUBSET Host /\ clock \in Nat
    BY <1>1 DEF TypeInv, TypeOK, Reservations
  <2> QED
    BY <1>2, <1>3, <2>1, PlanGives
<1>4. ASSUME NEW h \in Host, NEW f \in Family, hostIP[h][f] # None, h \notin todo'
      PROVE  want'[h][f] = hostIP[h][f]
  <2>1. hostIP[h] # NoIPs
    BY <1>4 DEF NoIPs
  <2>2. ~DropsVirtualIP(hostIP[h], want'[h])
    BY <1>4, <2>1 DEF SyncStart
  <2> QED
    BY <1>4, <2>2 DEF DropsVirtualIP
<1>5. pc' = "drop" /\ existing' = ipHost /\ UNCHANGED <<ipHost, hostIP>>
  BY DEF SyncStart, mapVars
<1>6. PublishedOK'
  BY <1>3, <1>4, <1>5 DEF SyncInv, PublishedOK
<1>7. WantOK' /\ KeptOK' /\ TodoOK' /\ WrittenOK'
  BY <1>3, <1>5 DEF WantOK, KeptOK, TodoOK, WrittenOK
<1> QED
  BY <1>1, <1>6, <1>7 DEF SyncInv

\* The phases follow each other with nothing left undone.
LEMMA PhasesOK ==
  ASSUME SyncInv,
         StartRelease \/ StartPrune \/ StartWrite \/ StartPublish \/ StartUnpublish
  PROVE  SyncInv'
<1>1. TypeInv /\ TypeInv'
  BY TypeSync DEF SyncInv, SyncStep
<1>2. todo = {} /\ UNCHANGED <<existing, entries, want, ipHost, hostIP>>
  BY DEF StartRelease, StartPrune, StartWrite, StartPublish, StartUnpublish,
     EnterPhase, mapVars
<1>3. pc' # "drop" /\ pc # "idle"
  BY DEF StartRelease, StartPrune, StartWrite, StartPublish, StartUnpublish, EnterPhase
<1>4. PublishedOK' /\ WantOK'
  BY <1>2, <1>3 DEF SyncInv, PublishedOK, WantOK, Syncing
<1>5. CASE StartRelease
  BY <1>1, <1>2, <1>4, <1>5 DEF StartRelease, ToRelease, EnterPhase, SyncInv, KeptOK,
     TodoOK, WrittenOK
<1>6. CASE StartPrune
  BY <1>1, <1>2, <1>4, <1>6 DEF StartPrune, EnterPhase, SyncInv, KeptOK, TodoOK,
     WrittenOK
<1>7. CASE StartWrite
  BY <1>1, <1>2, <1>4, <1>7 DEF StartWrite, ToWrite, EnterPhase, SyncInv, KeptOK,
     TodoOK, WrittenOK
<1>8. CASE StartPublish \/ StartUnpublish
  BY <1>1, <1>2, <1>4, <1>8 DEF StartPublish, StartUnpublish, EnterPhase, SyncInv,
     KeptOK, TodoOK, WrittenOK
<1> QED
  BY <1>5, <1>6, <1>7, <1>8

\* Deleting from vip_host_ip never hurts; a delete that fails would, in the
\* drop phase.
LEMMA DeletesOK ==
  ASSUME "drop" \notin MayFail, SyncInv, NEW h \in Host, NEW ok \in BOOLEAN,
         DropHost(h, ok) \/ Unpublish(h, ok)
  PROVE  SyncInv'
<1>1. TypeInv /\ TypeInv'
  BY TypeSync DEF SyncInv, SyncStep
<1>2. UNCHANGED <<pc, existing, entries, want, ipHost>> /\ todo' = todo \ {h}
  BY DEF DropHost, Unpublish, Handled
<1>3. pc = "drop" => hostIP' = [hostIP EXCEPT ![h] = NoIPs]
  BY DEF DropHost, Unpublish, Handled, CanFail
<1>4. hostIP' = hostIP \/ hostIP' = [hostIP EXCEPT ![h] = NoIPs]
  BY DEF DropHost, Unpublish
<1>5. \A g \in Host, f \in Family :
        hostIP'[g][f] # None =>
          hostIP'[g][f] = hostIP[g][f] /\ (pc = "drop" => g # h)
  BY <1>1, <1>3, <1>4 DEF TypeInv, TypeOK, NoIPs
<1>6. PublishedOK'
  BY <1>2, <1>5 DEF SyncInv, PublishedOK, Syncing
<1>7. pc \in {"drop", "unpublish"}
  BY DEF DropHost, Unpublish
<1>8. WantOK' /\ KeptOK' /\ TodoOK' /\ WrittenOK'
  BY <1>2, <1>7 DEF SyncInv, WantOK, KeptOK, TodoOK, WrittenOK, Syncing
<1> QED
  BY <1>1, <1>6, <1>8 DEF SyncInv

\* A released address is published for nobody any more.
LEMMA ReleasesOK ==
  ASSUME SyncInv, NEW ip \in FakeIP, NEW ok \in BOOLEAN, Release(ip, ok)
  PROVE  SyncInv'
<1>1. TypeInv /\ TypeInv'
  BY TypeSync DEF SyncInv, SyncStep
<1>2. /\ UNCHANGED <<pc, existing, entries, want, hostIP>>
      /\ pc = "release" /\ todo' = todo \ {ip} /\ ip \in todo
      /\ \A x \in FakeIP : x # ip => ipHost'[x] = ipHost[x]
  BY <1>1 DEF Release, Handled, TypeInv, TypeOK
<1>3. entries[ip] = None
  BY <1>2 DEF SyncInv, TodoOK
<1>4. \A h \in Host, f \in Family : hostIP[h][f] # None =>
        hostIP[h][f] \in FakeIP /\ hostIP[h][f] # ip
  BY <1>1, <1>2, <1>3, ActiveEntry DEF SyncInv, PublishedOK, Syncing, TypeInv,
     TypeOK, HostVal
<1>5. PublishedOK'
  BY <1>2, <1>4 DEF SyncInv, PublishedOK, Syncing
<1>6. WantOK' /\ KeptOK' /\ TodoOK' /\ WrittenOK'
  BY <1>2, <1>3 DEF SyncInv, WantOK, KeptOK, TodoOK, WrittenOK, Syncing
<1> QED
  BY <1>1, <1>5, <1>6 DEF SyncInv

\* Writing a reservation leaves the published ones as they are; when it fails
\* its host is not published.
LEMMA WritesOK ==
  ASSUME SyncInv, NEW ip \in FakeIP, NEW ok \in BOOLEAN, WriteEntry(ip, ok)
  PROVE  SyncInv'
<1>1. TypeInv /\ TypeInv'
  BY TypeSync DEF SyncInv, SyncStep
<1>2. /\ UNCHANGED <<pc, existing, entries, hostIP>>
      /\ pc = "write" /\ todo' = todo \ {ip}
      /\ \A x \in FakeIP : x # ip => ipHost'[x] = ipHost[x]
      /\ IF ok THEN ipHost'[ip] = entries[ip] ELSE ipHost'[ip] = ipHost[ip]
  BY <1>1 DEF WriteEntry, Handled, TypeInv, TypeOK
<1>3. \A h \in Host, f \in Family :
        want'[h][f] = IF ~ok /\ h = entries[ip].host /\ f = FamilyOf[ip]
                        THEN None ELSE want[h][f]
  <2>1. want \in [Host -> HostVal]
    BY <1>1 DEF TypeInv, TypeOK
  <2>2. CASE ok
    BY <2>2 DEF WriteEntry
  <2>3. CASE ~ok
    <3>1. \A h \in Host :
            want'[h] = IF h = entries[ip].host
                         THEN [want[h] EXCEPT ![FamilyOf[ip]] = None] ELSE want[h]
      BY <2>1, <2>3 DEF WriteEntry
    <3>2. \A h \in Host : want[h] \in [Family -> FakeIP \cup {None}]
      BY <2>1 DEF HostVal
    <3> QED
      BY <2>3, <3>1, <3>2
  <2> QED
    BY <2>2, <2>3
<1>4. \A x \in FakeIP : entries[x] # None =>
        entries[x].host \in Host /\ FamilyOf[x] \in Family
  BY <1>1, PlanConstants DEF TypeInv, TypeOK, Entry
<1>5. PublishedOK'
  <2>1. \A h \in Host, f \in Family : hostIP[h][f] # None =>
          hostIP[h][f] \in FakeIP /\ entries[hostIP[h][f]] = Active(h)
    BY <1>1, <1>2 DEF SyncInv, PublishedOK, Syncing, TypeInv, TypeOK, HostVal
  <2> QED
    BY <1>2, <2>1 DEF SyncInv, PublishedOK, Syncing
<1>6. WantOK'
  BY <1>2, <1>3 DEF SyncInv, WantOK, Syncing
<1>7. KeptOK' /\ TodoOK'
  BY <1>2 DEF SyncInv, KeptOK, TodoOK
<1>8. WrittenOK'
  <2> SUFFICES ASSUME NEW x \in FakeIP, entries[x] # None, x \notin todo'
               PROVE  ipHost'[x] = entries[x] \/ want'[entries[x].host][FamilyOf[x]] = None
    BY <1>2 DEF WrittenOK
  <2>1. CASE x = ip
    BY <1>2, <1>3, <1>4, <2>1
  <2>2. CASE x # ip
    BY <1>2, <1>3, <1>4, <2>2 DEF SyncInv, WrittenOK
  <2> QED
    BY <2>1, <2>2
<1> QED
  BY <1>1, <1>5, <1>6, <1>7, <1>8 DEF SyncInv

\* By the time addresses are published, those still wanted are reserved.
LEMMA WantReserved ==
  ASSUME SyncInv, pc = "publish", NEW h \in Host, NEW f \in Family, want[h][f] # None
  PROVE  LET ip == want[h][f] IN
         /\ ip \in FakeIP /\ FamilyOf[ip] = f
         /\ ipHost[ip] = Active(h) /\ entries[ip] = Active(h)
<1> DEFINE ip == want[h][f]
<1>1. ip \in FakeIP
  BY DEF SyncInv, TypeInv, TypeOK, HostVal
<1>2. entries[ip] = Active(h) /\ FamilyOf[ip] = f
  BY DEF SyncInv, WantOK, Syncing
<1>3. ipHost[ip] = entries[ip]
  BY <1>1, <1>2, ActiveEntry DEF SyncInv, WrittenOK
<1> QED
  BY <1>1, <1>2, <1>3

\* What is published has been reserved before.
LEMMA PublishesOK ==
  ASSUME SyncInv, NEW h \in Host, NEW ok \in BOOLEAN, Publish(h, ok)
  PROVE  SyncInv'
<1>1. TypeInv /\ TypeInv'
  BY TypeSync DEF SyncInv, SyncStep
<1>2. /\ UNCHANGED <<pc, existing, entries, want, ipHost>>
      /\ pc = "publish"
      /\ \A g \in Host : hostIP'[g] = hostIP[g] \/ (g = h /\ hostIP'[g] = want[g])
  BY <1>1 DEF Publish, Handled, TypeInv, TypeOK
<1>3. ASSUME NEW f \in Family, want[h][f] # None
      PROVE  LET ip == want[h][f] IN
             ipHost[ip] = Active(h) /\ entries[ip] = Active(h) /\ FamilyOf[ip] = f
  BY <1>2, <1>3, WantReserved
<1>4. PublishedOK'
  BY <1>2, <1>3 DEF SyncInv, PublishedOK, Syncing
<1>5. WantOK' /\ KeptOK' /\ TodoOK' /\ WrittenOK'
  BY <1>2 DEF SyncInv, WantOK, KeptOK, TodoOK, WrittenOK, Syncing
<1> QED
  BY <1>1, <1>4, <1>5 DEF SyncInv

\* A sync that ends, at the end or because the controller stops, leaves the
\* maps as they are; a restart may find some of them empty.
LEMMA EndsOK ==
  ASSUME SyncInv, StoppedOK, SyncDone \/ Stop \/ Restart
  PROVE  SyncInv'
<1>1. TypeInv /\ TypeInv'
  BY TypeSync, TypeEnvironment DEF SyncInv, SyncStep, Environment
<1>2. CASE SyncDone \/ Stop
  <2>1. pc' = "idle" /\ UNCHANGED <<ipHost, hostIP>>
    BY <1>2 DEF SyncDone, Stop, ForgetSync, mapVars
  <2> QED
    BY <1>1, <2>1 DEF SyncInv, PublishedOK, WantOK, KeptOK, TodoOK, WrittenOK, Syncing
<1>3. CASE Restart
  <2>1. /\ UNCHANGED <<pc, existing, entries, want, todo>>
        /\ ipHost' = ipHost \/ (ipHost' = NoEntries /\ "vip_ip_host" \in LostMaps)
        /\ hostIP' = hostIP \/ hostIP' = NoHosts
    BY <1>3 DEF Restart, syncVars
  <2>2. \A h \in Host, f \in Family : hostIP'[h][f] # None =>
          hostIP[h][f] = hostIP'[h][f] /\ hostIP[h][f] \in FakeIP
    <3>1. \A h \in Host, f \in Family : hostIP[h][f] \in FakeIP \cup {None}
      BY <1>1 DEF TypeInv, TypeOK, HostVal
    <3>2. \A h \in Host, f \in Family : NoHosts[h][f] = None
      BY DEF NoHosts, NoIPs
    <3> QED
      BY <2>1, <3>1, <3>2
  <2>3. PublishedOK'
    BY <2>1, <2>2 DEF SyncInv, PublishedOK, NoEntries, Syncing
  <2>4. pc = "idle"
    BY <1>3 DEF Restart, StoppedOK
  <2> QED
    BY <1>1, <2>1, <2>3, <2>4 DEF SyncInv, WantOK, KeptOK, TodoOK, WrittenOK, Syncing
<1> QED
  BY <1>2, <1>3

\* No sync is under way while the controller is stopped.
LEMMA StoppedStep ==
  ASSUME StoppedOK, [Next]_vars
  PROVE  StoppedOK'
<1>1. CASE SyncStep
  <2>1. up /\ up' = up
    BY <1>1 DEF SyncStep, SyncStart, SyncSkipped, StartRelease, StartPrune, StartWrite,
       StartPublish, StartUnpublish, SyncDone, EnterPhase, DropHost, Publish,
       Unpublish, Release, PruneUpstream, WriteEntry, Handled, envVars
  <2> QED
    BY <2>1 DEF StoppedOK
<1>2. CASE DataPlane \/ Tick \/ (\E h \in Host : ChangeWatched(h)) \/ UNCHANGED vars
  <2>1. UNCHANGED <<up, pc>>
    BY <1>2 DEF DataPlane, DnsRead, DnsRecord, ConnectRedirect, ConnectRefused,
       DnsLookup, ConnectLookup, CloseSocket, ConnectUnreserved, ConnectDirect,
       Tick, ChangeWatched, vars, syncVars, envVars
  <2> QED
    BY <2>1 DEF StoppedOK
<1>3. CASE Stop \/ Restart
  BY <1>3 DEF Stop, Restart, ForgetSync, StoppedOK
<1> QED
  BY <1>1, <1>2, <1>3 DEF Next, Environment

\* SyncInv is inductive as long as no delete of the drop phase fails.
LEMMA SyncInvStep ==
  ASSUME "drop" \notin MayFail, SyncInv, StoppedOK, [Next]_vars
  PROVE  SyncInv'
<1>1. TypeInv'
  <2>1. CASE Next
    BY <2>1, TypeSync, TypeDataPlane, TypeEnvironment DEF Next, SyncInv
  <2>2. CASE UNCHANGED vars
    BY <2>2 DEF SyncInv, TypeInv, TypeOK, ProgOK, vars, syncVars, mapVars, sockVars,
       envVars
  <2> QED
    BY <2>1, <2>2
<1>2. CASE SyncStep
  <2>1. CASE SyncSkipped \/ \E ok \in BOOLEAN, ip \in FakeIP : PruneUpstream(ip, ok)
    <3>1. CASE SyncSkipped
      BY <1>1, <3>1, SyncFrame DEF SyncSkipped, mapVars
    <3>2. ASSUME NEW ok \in BOOLEAN, NEW ip \in FakeIP, PruneUpstream(ip, ok)
          PROVE  SyncInv'
      BY <1>1, <3>2 DEF PruneUpstream, SyncInv, PublishedOK, WantOK, KeptOK, TodoOK,
         WrittenOK, Syncing
    <3> QED
      BY <2>1, <3>1, <3>2
  <2> QED
    BY <1>2, <2>1, StartsOK, PhasesOK, DeletesOK, ReleasesOK, WritesOK, PublishesOK,
       EndsOK DEF SyncStep
<1>3. CASE DataPlane \/ Tick \/ (\E h \in Host : ChangeWatched(h)) \/ UNCHANGED vars
  <2>1. UNCHANGED <<pc, existing, entries, want, todo, ipHost, hostIP>>
    BY <1>3 DEF DataPlane, DnsRead, DnsRecord, ConnectRedirect, ConnectRefused,
       DnsLookup, ConnectLookup, CloseSocket, ConnectUnreserved, ConnectDirect,
       Tick, ChangeWatched, vars, syncVars, mapVars
  <2> QED
    BY <1>1, <2>1, SyncFrame
<1>4. CASE Stop \/ Restart
  BY <1>4, EndsOK
<1> QED
  BY <1>2, <1>3, <1>4 DEF Next, Environment

\* Before the first sync nothing is planned, written or published.
LEMMA SyncInvInit == Init => SyncInv /\ StoppedOK
<1> SUFFICES ASSUME Init PROVE SyncInv /\ StoppedOK
  OBVIOUS
<1>1. \A h \in Host, f \in Family : hostIP[h][f] = None
  BY DEF Init, NoHosts, NoIPs
<1>2. TypeInv
  BY TypeInit
<1> QED
  BY <1>1, <1>2 DEF Init, SyncInv, PublishedOK, WantOK, KeptOK, TodoOK, WrittenOK,
     StoppedOK, Syncing

\* An address in vip_host_ip is reserved for its host in vip_ip_host at every
\* point of every sync, whatever else fails, whenever the controller stops and
\* whatever range it is restarted with, provided that the deletes of the drop
\* phase succeed and vip_ip_host itself is never lost.
THEOREM ResolvableAlways ==
  ASSUME "drop" \notin MayFail, "vip_ip_host" \notin LostMaps
  PROVE  Spec => []Resolvable
<1>1. Init => SyncInv /\ StoppedOK
  BY SyncInvInit
<1>2. SyncInv /\ StoppedOK /\ [Next]_vars => (SyncInv /\ StoppedOK)'
  BY SyncInvStep, StoppedStep
<1>3. SyncInv => Resolvable
  BY ActiveEntry DEF SyncInv, PublishedOK, Resolvable
<1> QED
  BY <1>1, <1>2, <1>3, PTL DEF Spec

----------------------------------------------------------------------------
(* A fake IP leads to its host.                                            *)

\* The host, the family and the reservation of a published address.
LEMMA PublishedIP ==
  ASSUME SyncInv, NEW h \in Host, NEW f \in Family, hostIP[h][f] # None
  PROVE  LET ip == hostIP[h][f] IN
         /\ ip \in FakeIP /\ FamilyOf[ip] = f
         /\ ipHost[ip] # None => ipHost[ip].host = h
         /\ Syncing /\ pc # "drop" => entries[ip] = Active(h)
<1>1. hostIP[h][f] \in FakeIP
  BY DEF SyncInv, TypeInv, TypeOK, HostVal
<1> QED
  BY <1>1, ActiveEntry DEF SyncInv, PublishedOK

\* Without overlap no map changes under a running program, except that a
\* program may record addresses.
LEMMA ProgKept ==
  ASSUME ~Overlap, ProgFresh, SyncStep \/ Restart
  PROVE  ProgFresh'
<1>1. UNCHANGED prog
  BY DEF SyncStep, SyncStart, SyncSkipped, StartRelease, StartPrune, StartWrite,
     StartPublish, StartUnpublish, SyncDone, EnterPhase, DropHost, Publish,
     Unpublish, Release, PruneUpstream, WriteEntry, Restart
<1>2. UNCHANGED <<ipHost, hostIP>> \/ \A c \in Cpu : prog[c].op = "idle"
  <2>1. CASE \/ SyncStart \/ SyncSkipped \/ SyncDone
             \/ StartRelease \/ StartPrune \/ StartWrite \/ StartPublish \/ StartUnpublish
    BY <2>1 DEF SyncStart, SyncSkipped, StartRelease, StartPrune, StartWrite,
       StartPublish, StartUnpublish, SyncDone, EnterPhase, mapVars
  <2>2. CASE \E ok \in BOOLEAN :
               \/ \E h \in Host : DropHost(h, ok) \/ Publish(h, ok) \/ Unpublish(h, ok)
               \/ \E ip \in FakeIP : Release(ip, ok) \/ PruneUpstream(ip, ok) \/ WriteEntry(ip, ok)
    <3>1. PICK ok \in BOOLEAN :
            \/ \E h \in Host : DropHost(h, ok) \/ Publish(h, ok) \/ Unpublish(h, ok)
            \/ \E ip \in FakeIP : Release(ip, ok) \/ PruneUpstream(ip, ok) \/ WriteEntry(ip, ok)
      BY <2>2
    <3>2. CASE \E h \in Host : DropHost(h, ok) \/ Publish(h, ok) \/ Unpublish(h, ok)
      BY <3>2 DEF DropHost, Publish, Unpublish, Handled, Undisturbed
    <3>3. CASE \E ip \in FakeIP : Release(ip, ok) \/ PruneUpstream(ip, ok) \/ WriteEntry(ip, ok)
      BY <3>3 DEF Release, PruneUpstream, WriteEntry, Handled, Undisturbed
    <3> QED
      BY <3>1, <3>2, <3>3
  <2>3. CASE Restart
    BY <2>3 DEF Restart
  <2> QED
    BY <2>1, <2>2, <2>3 DEF SyncStep
<1> QED
  BY <1>1, <1>2 DEF ProgFresh

\* Steps that leave the maps, the sockets and the programs alone.
LEMMA DataFrame ==
  ASSUME DataInv, SyncInv', StoppedOK', ProgFresh', PrunedOK',
         UNCHANGED <<mapVars, sockVars>>
  PROVE  DataInv'
  BY DEF DataInv, UpstreamOfHost, SocketReachesHost, Distinct, PublishedUpstream,
     mapVars, sockVars

\* Starting a sync and moving through its phases; the phase after the prune
\* finds every planned address leading to its host.
LEMMA DataPhases ==
  ASSUME "prune" \notin MayFail, DataInv, SyncInv', StoppedOK', ProgFresh',
         \/ SyncStart \/ SyncSkipped \/ SyncDone
         \/ StartRelease \/ StartPrune \/ StartWrite \/ StartPublish \/ StartUnpublish
  PROVE  DataInv'
<1>1. UNCHANGED <<mapVars, sockVars>>
  BY DEF SyncStart, SyncSkipped, StartRelease, StartPrune, StartWrite, StartPublish,
     StartUnpublish, SyncDone, EnterPhase
<1>2. CASE StartPrune
  <2>1. pc = "release" /\ pc' = "prune" /\ UNCHANGED <<entries, existing, upstream, ipHost>>
    BY <1>2 DEF StartPrune, EnterPhase, mapVars
  <2>2. todo' = StaleUpstreams
    BY <1>2 DEF StartPrune
  <2>3. ASSUME NEW ip \in FakeIP, entries[ip] # None, ip \notin todo'
        PROVE  upstream[ip] \subseteq AddrsFor(entries[ip].host, ip)
    <3>1. upstream[ip] = {} \/ KeepsUpstream(ip)
      BY <2>2, <2>3 DEF StaleUpstreams
    <3>2. ipHost[ip] = existing[ip]
      BY <2>1, <2>3 DEF DataInv, SyncInv, KeptOK
    <3> QED
      BY <3>1, <3>2 DEF DataInv, UpstreamOfHost, KeepsUpstream, AddrsFor
  <2>4. PrunedOK'
    BY <2>1, <2>3 DEF PrunedOK
  <2> QED
    BY <1>1, <2>4, DataFrame
<1>3. CASE StartWrite
  <2>1. PrunedOK'
    BY <1>3 DEF StartWrite, EnterPhase, DataInv, PrunedOK, mapVars
  <2> QED
    BY <1>1, <2>1, DataFrame
<1>4. CASE SyncStart \/ SyncDone \/ StartRelease \/ StartPublish \/ StartUnpublish
  <2>1. pc' \notin {"prune", "write"}
    BY <1>4 DEF SyncStart, SyncDone, StartRelease, StartPublish, StartUnpublish,
       EnterPhase, ForgetSync
  <2> QED
    BY <1>1, <2>1, DataFrame DEF PrunedOK
<1>5. CASE SyncSkipped
  <2>1. PrunedOK'
    BY <1>5 DEF SyncSkipped, DataInv, PrunedOK, mapVars
  <2> QED
    BY <1>1, <2>1, DataFrame
<1> QED
  BY <1>2, <1>3, <1>4, <1>5

\* The map writes of a sync.
LEMMA DataWrites ==
  ASSUME "prune" \notin MayFail, DataInv, SyncInv', StoppedOK', ProgFresh',
         NEW ok \in BOOLEAN,
         \/ \E h \in Host : DropHost(h, ok) \/ Publish(h, ok) \/ Unpublish(h, ok)
         \/ \E ip \in FakeIP : Release(ip, ok) \/ PruneUpstream(ip, ok) \/ WriteEntry(ip, ok)
  PROVE  DataInv'
<1>a. TypeInv /\ SyncInv
  BY DEF DataInv, SyncInv
<1>b. SocketReachesHost'
  BY DEF DropHost, Publish, Unpublish, Release, PruneUpstream, WriteEntry, sockVars,
     DataInv, SocketReachesHost
<1>1. ASSUME NEW h \in Host, DropHost(h, ok) \/ Unpublish(h, ok)
      PROVE  DataInv'
  <2>1. /\ UNCHANGED <<pc, entries, ipHost, upstream>>
        /\ pc \in {"drop", "unpublish"}
        /\ hostIP' = hostIP \/ hostIP' = [hostIP EXCEPT ![h] = NoIPs]
    BY <1>1 DEF DropHost, Unpublish
  <2>2. \A g \in Host, f \in Family :
          hostIP'[g][f] # None => hostIP'[g][f] = hostIP[g][f]
    BY <1>a, <2>1 DEF TypeInv, TypeOK, NoIPs
  <2> QED
    BY <1>b, <2>1, <2>2 DEF DataInv, UpstreamOfHost, Distinct, PublishedUpstream, PrunedOK
<1>2. ASSUME NEW h \in Host, Publish(h, ok)
      PROVE  DataInv'
  <2>1. /\ UNCHANGED <<pc, entries, ipHost, upstream>>
        /\ pc = "publish"
        /\ \A g \in Host : hostIP'[g] = hostIP[g] \/ (g = h /\ hostIP'[g] = want[g])
    BY <1>2, <1>a DEF Publish, TypeInv, TypeOK
  <2>2. \A f \in Family : want[h][f] # None =>
          upstream[want[h][f]] \subseteq AddrOf[h][f]
    BY <1>a, <2>1, WantReserved, ActiveEntry DEF DataInv, UpstreamOfHost
  <2>3. PublishedUpstream'
    BY <2>1, <2>2 DEF DataInv, PublishedUpstream
  <2>4. \A g \in Host, f \in Family : hostIP'[g][f] # None =>
          entries[hostIP'[g][f]] = Active(g)
    BY <1>a, <2>1, WantReserved, PublishedIP DEF Syncing
  <2>5. Distinct'
    BY <2>4, ActiveEntry DEF Distinct
  <2> QED
    BY <1>b, <2>1, <2>3, <2>5 DEF DataInv, UpstreamOfHost, PrunedOK
<1>3. ASSUME NEW ip \in FakeIP, Release(ip, ok)
      PROVE  DataInv'
  <2>1. /\ UNCHANGED <<pc, entries, hostIP, upstream>>
        /\ pc = "release"
        /\ \A x \in FakeIP : ipHost'[x] = ipHost[x] \/ ipHost'[x] = None
    BY <1>3, <1>a DEF Release, TypeInv, TypeOK
  <2> QED
    BY <1>b, <2>1 DEF DataInv, UpstreamOfHost, Distinct, PublishedUpstream, PrunedOK
<1>4. ASSUME NEW ip \in FakeIP, PruneUpstream(ip, ok)
      PROVE  DataInv'
  <2>1. /\ UNCHANGED <<pc, entries, hostIP, ipHost>>
        /\ pc = "prune" /\ todo' = todo \ {ip}
        /\ upstream' = [upstream EXCEPT ![ip] = {}]
    BY <1>4 DEF PruneUpstream, Handled, CanFail
  <2>2. /\ upstream'[ip] = {}
        /\ \A x \in FakeIP : x # ip => upstream'[x] = upstream[x]
    BY <1>a, <2>1 DEF TypeInv, TypeOK
  <2>3. \A h \in Host, f \in Family : hostIP[h][f] # None => hostIP[h][f] \in FakeIP
    BY <1>a, PublishedIP
  <2> QED
    BY <1>b, <2>1, <2>2, <2>3 DEF DataInv, UpstreamOfHost, Distinct, PublishedUpstream,
       PrunedOK
<1>5. ASSUME NEW ip \in FakeIP, WriteEntry(ip, ok)
      PROVE  DataInv'
  <2>1. /\ UNCHANGED <<pc, entries, hostIP, upstream>>
        /\ pc = "write"
        /\ \A x \in FakeIP : ipHost'[x] = ipHost[x] \/ ipHost'[x] = entries[x]
    BY <1>5, <1>a DEF WriteEntry, TypeInv, TypeOK
  <2>2. UpstreamOfHost'
    BY <2>1 DEF DataInv, UpstreamOfHost, PrunedOK, AddrsFor
  <2> QED
    BY <1>b, <2>1, <2>2 DEF DataInv, Distinct, PublishedUpstream, PrunedOK
<1> QED
  BY <1>1, <1>2, <1>3, <1>4, <1>5

\* Stops, restarts, and everything that touches neither maps nor programs.
LEMMA DataEnvironment ==
  ASSUME ~Overlap, DataInv, SyncInv', StoppedOK', Environment \/ UNCHANGED vars
  PROVE  DataInv'
<1>1. CASE Tick \/ (\E h \in Host : ChangeWatched(h)) \/ UNCHANGED vars
  <2>1. UNCHANGED <<syncVars, mapVars, sockVars, prog>>
    BY <1>1 DEF Tick, ChangeWatched, vars
  <2>2. ProgFresh' /\ PrunedOK'
    BY <2>1 DEF DataInv, ProgFresh, PrunedOK, syncVars, mapVars
  <2> QED
    BY <2>1, <2>2, DataFrame
<1>2. CASE Stop
  <2>1. /\ UNCHANGED <<ipHost, hostIP, upstream>> /\ pc' = "idle"
        /\ \A s \in Socket : sockHost'[s] = None
        /\ \A c \in Cpu : (prog'[c] = prog[c] /\ prog[c].op # "connect") \/ prog'[c] = Idle
    BY <1>2 DEF Stop, ForgetSync, mapVars
  <2>2. ProgFresh'
    BY <2>1 DEF DataInv, ProgFresh, Idle
  <2> QED
    BY <2>1, <2>2 DEF DataInv, UpstreamOfHost, SocketReachesHost, Distinct,
       PublishedUpstream, PrunedOK
<1>3. CASE Restart
  <2>1. /\ UNCHANGED <<sockVars, prog>> /\ pc' = "idle"
        /\ ipHost' = ipHost \/ ipHost' = NoEntries
        /\ hostIP' = hostIP \/ hostIP' = NoHosts
        /\ upstream' = upstream \/ upstream' = [ip \in FakeIP |-> {}]
    BY <1>3 DEF Restart, DataInv, StoppedOK, syncVars
  <2>2. \A ip \in FakeIP :
          /\ upstream'[ip] \subseteq upstream[ip]
          /\ ipHost'[ip] # None => ipHost'[ip] = ipHost[ip]
    BY <2>1 DEF NoEntries
  <2>3. \A h \in Host, f \in Family : hostIP'[h][f] # None =>
          hostIP'[h][f] = hostIP[h][f] /\ hostIP[h][f] \in FakeIP
    <3>1. \A h \in Host, f \in Family : NoHosts[h][f] = None
      BY DEF NoHosts, NoIPs
    <3> QED
      BY <2>1, <3>1, PublishedIP DEF DataInv
  <2>4. ProgFresh'
    BY <1>3, ProgKept DEF DataInv
  <2>5. UpstreamOfHost' /\ Distinct' /\ PublishedUpstream' /\ PrunedOK'
    BY <2>1, <2>2, <2>3 DEF DataInv, UpstreamOfHost, Distinct, PublishedUpstream, PrunedOK
  <2> QED
    BY <2>1, <2>4, <2>5 DEF DataInv, SocketReachesHost, sockVars
<1> QED
  BY <1>1, <1>2, <1>3 DEF Environment

\* An answer is recorded under the fake IP of the host it is for.
LEMMA DataRecord ==
  ASSUME DataInv, SyncInv', StoppedOK', NEW c \in Cpu, DnsRecord(c)
  PROVE  DataInv'
<1> DEFINE h  == prog[c].host
           ip == prog[c].ip
<1>1. h \in Host /\ ip \in FakeIP /\ FamilyOf[ip] \in Family
  BY PlanConstants DEF DnsRecord, DataInv, SyncInv, TypeInv, ProgOK
<1>2. hostIP[h][FamilyOf[ip]] = ip /\ ip # None /\ prog[c].cur \subseteq AddrsFor(h, ip)
  BY <1>1, PlanConstants DEF DnsRecord, DataInv, ProgFresh
<1>3. upstream'[ip] \subseteq AddrsFor(h, ip)
  BY <1>1, <1>2 DEF DnsRecord, Recorded, AddrsFor, DataInv, SyncInv, TypeInv, TypeOK
<1>4. /\ \A x \in FakeIP : x # ip => upstream'[x] = upstream[x]
      /\ UNCHANGED <<syncVars, ipHost, hostIP, sockVars>>
      /\ \A d \in Cpu : prog'[d] = prog[d] \/ prog'[d] = Idle
  BY DEF DnsRecord, DataInv, SyncInv, TypeInv, TypeOK
<1>5. SyncInv
  BY DEF DataInv
<1>6. UpstreamOfHost'
  BY <1>1, <1>2, <1>3, <1>4, <1>5, PublishedIP DEF DataInv, UpstreamOfHost, AddrsFor
<1>7. PublishedUpstream'
  <2> SUFFICES ASSUME NEW g \in Host, NEW f \in Family, hostIP[g][f] # None
               PROVE  upstream'[hostIP[g][f]] \subseteq AddrOf[g][f]
    BY <1>4 DEF PublishedUpstream
  <2>1. hostIP[g][f] \in FakeIP /\ FamilyOf[hostIP[g][f]] = f
    BY <1>5, PublishedIP
  <2>2. CASE hostIP[g][f] = ip
    <3>1. g = h
      BY <1>1, <1>2, <2>1, <2>2 DEF DataInv, Distinct
    <3> QED
      BY <1>3, <2>1, <2>2, <3>1 DEF AddrsFor
  <2>3. CASE hostIP[g][f] # ip
    BY <1>4, <2>1, <2>3 DEF DataInv, PublishedUpstream
  <2> QED
    BY <2>2, <2>3
<1>8. PrunedOK'
  <2>1. pc \in {"prune", "write"} => entries[ip] = Active(h)
    BY <1>1, <1>2, <1>5, PublishedIP DEF Syncing
  <2> QED
    BY <1>1, <1>3, <1>4, <2>1, ActiveEntry DEF DataInv, PrunedOK, syncVars
<1>9. ProgFresh'
  BY <1>4 DEF DataInv, ProgFresh, Idle
<1> QED
  BY <1>4, <1>6, <1>7, <1>8, <1>9 DEF DataInv, SocketReachesHost, Distinct, sockVars

\* The other programs write no map the invariants speak of.
LEMMA DataPrograms ==
  ASSUME DataInv, SyncInv', StoppedOK', DataPlane, ~ \E c \in Cpu : DnsRecord(c)
  PROVE  DataInv'
<1>a. TypeInv /\ SyncInv
  BY DEF DataInv, SyncInv
<1>b. UNCHANGED <<syncVars, mapVars>>
  BY DEF DataPlane, DnsRead, ConnectRedirect, ConnectRefused, DnsLookup,
     ConnectLookup, CloseSocket, ConnectUnreserved, ConnectDirect
<1>c. UpstreamOfHost' /\ Distinct' /\ PublishedUpstream' /\ PrunedOK'
  BY <1>b DEF DataInv, UpstreamOfHost, Distinct, PublishedUpstream, PrunedOK,
     mapVars, syncVars
<1>d. ASSUME UNCHANGED prog PROVE ProgFresh'
  BY <1>b, <1>d DEF DataInv, ProgFresh, mapVars
<1>e. ASSUME UNCHANGED sockVars PROVE SocketReachesHost'
  BY <1>e DEF DataInv, SocketReachesHost, sockVars
<1>1. ASSUME NEW c \in Cpu, NEW h \in Host, NEW f \in Family, DnsLookup(c, h, f)
      PROVE  DataInv'
  <2>1. hostIP[h][f] # None /\ FamilyOf[hostIP[h][f]] = f
    <3>1. hostIP[h][f] # None
      BY <1>1, <1>a, PlanConstants DEF DnsLookup, TypeInv, TypeOK
    <3> QED
      BY <1>a, <3>1, PublishedIP
  <2>2. /\ prog'[c].op = "dns" /\ prog'[c].host = h /\ prog'[c].ip = hostIP[h][f]
        /\ \A d \in Cpu : d # c => prog'[d] = prog[d]
    BY <1>1, <1>a DEF DnsLookup, Idle, TypeInv, TypeOK
  <2>3. ProgFresh'
    BY <1>b, <2>1, <2>2 DEF DataInv, ProgFresh, mapVars
  <2> QED
    BY <1>1, <1>c, <1>e, <2>3 DEF DnsLookup, DataInv
<1>2. ASSUME NEW c \in Cpu, DnsRead(c) PROVE DataInv'
  <2>1. prog[c].op = "dns" /\ prog[c].host \in Host /\ prog[c].ip \in FakeIP
        /\ FamilyOf[prog[c].ip] \in Family
    BY <1>2, <1>a, PlanConstants DEF DnsRead, TypeInv, ProgOK
  <2>2. upstream[prog[c].ip] \subseteq AddrsFor(prog[c].host, prog[c].ip)
    BY <2>1, PlanConstants DEF DataInv, ProgFresh, PublishedUpstream, AddrsFor
  <2>3. /\ prog'[c].op = "dnsRead" /\ prog'[c].host = prog[c].host
        /\ prog'[c].ip = prog[c].ip /\ prog'[c].cur = upstream[prog[c].ip]
        /\ \A d \in Cpu : d # c => prog'[d] = prog[d]
    BY <1>2, <1>a DEF DnsRead, TypeInv, TypeOK, Prog
  <2>4. ProgFresh'
    BY <1>b, <2>1, <2>2, <2>3 DEF DataInv, ProgFresh, mapVars
  <2> QED
    BY <1>2, <1>c, <1>e, <2>4 DEF DnsRead, DataInv
<1>3. ASSUME NEW c \in Cpu, NEW s \in Socket, NEW ip \in FakeIP, ConnectLookup(c, s, ip)
      PROVE  DataInv'
  <2>1. /\ prog'[c].op = "connect" /\ prog'[c].host = ipHost[ip].host
        /\ prog'[c].ip = ip /\ ipHost[ip] # None
        /\ \A d \in Cpu : d # c => prog'[d] = prog[d]
    BY <1>3, <1>a DEF ConnectLookup, Idle, TypeInv, TypeOK
  <2>2. ProgFresh'
    BY <1>b, <2>1 DEF DataInv, ProgFresh, mapVars
  <2> QED
    BY <1>3, <1>c, <1>e, <2>2 DEF ConnectLookup, DataInv
<1>4. ASSUME NEW c \in Cpu, ConnectRedirect(c) \/ ConnectRefused(c) PROVE DataInv'
  <2> DEFINE s == prog[c].sock
  <2>1. /\ prog[c].op = "connect" /\ prog[c].ip \in FakeIP /\ prog[c].host \in Host
        /\ FamilyOf[prog[c].ip] \in Family
        /\ s \in Socket
    BY <1>4, <1>a, PlanConstants DEF ConnectRedirect, ConnectRefused, TypeInv, ProgOK
  <2>2. upstream[prog[c].ip] \subseteq AddrsFor(prog[c].host, prog[c].ip)
    BY <2>1 DEF DataInv, ProgFresh, UpstreamOfHost, AddrsFor
  <2>3. /\ \A t \in Socket : t # s => sockHost'[t] = sockHost[t] /\ sockDst'[t] = sockDst[t]
        /\ \/ sockHost'[s] = None
           \/ sockHost'[s] = prog[c].host /\ sockDst'[s] \in upstream[prog[c].ip]
    BY <1>4, <1>a, <2>1 DEF ConnectRedirect, ConnectRefused, ForgetHost, TypeInv, TypeOK
  <2>4. SocketReachesHost'
    <3> SUFFICES ASSUME NEW t \in Socket, sockHost'[t] # None
                 PROVE  \E f \in Family : sockDst'[t] \in AddrOf[sockHost'[t]][f]
      BY DEF SocketReachesHost
    <3>1. CASE t = s
      BY <2>1, <2>2, <2>3, <3>1 DEF AddrsFor
    <3>2. CASE t # s
      BY <2>3, <3>2 DEF DataInv, SocketReachesHost
    <3> QED
      BY <3>1, <3>2
  <2>5. \A d \in Cpu : prog'[d] = prog[d] \/ prog'[d] = Idle
    BY <1>4, <1>a DEF ConnectRedirect, ConnectRefused, TypeInv, TypeOK
  <2>6. ProgFresh'
    BY <1>b, <2>5 DEF DataInv, ProgFresh, Idle, mapVars
  <2> QED
    BY <1>c, <2>4, <2>6 DEF DataInv
<1>5. ASSUME NEW s \in Socket,
             \/ CloseSocket(s)
             \/ \E ip \in FakeIP : ConnectUnreserved(s, ip)
             \/ \E real \in RealAddr : ConnectDirect(s, real)
      PROVE  DataInv'
  <2>1. /\ UNCHANGED prog /\ sockHost'[s] = None
        /\ \A t \in Socket : t # s => sockHost'[t] = sockHost[t] /\ sockDst'[t] = sockDst[t]
    BY <1>5, <1>a DEF CloseSocket, ConnectUnreserved, ConnectDirect, ForgetHost,
       TypeInv, TypeOK
  <2>2. SocketReachesHost'
    BY <2>1 DEF DataInv, SocketReachesHost
  <2> QED
    BY <1>c, <1>d, <2>1, <2>2 DEF DataInv
<1> QED
  BY <1>1, <1>2, <1>3, <1>4, <1>5 DEF DataPlane

\* No fake IP is handed out and no address recorded at first.
LEMMA DataInvInit == Init => DataInv
<1> SUFFICES ASSUME Init PROVE DataInv
  OBVIOUS
<1>1. SyncInv /\ StoppedOK
  BY SyncInvInit
<1>2. \A h \in Host, f \in Family : hostIP[h][f] = None
  BY DEF Init, NoHosts, NoIPs
<1>3. Distinct /\ PublishedUpstream
  BY <1>2 DEF Distinct, PublishedUpstream
<1>4. UpstreamOfHost /\ PrunedOK
  BY DEF Init, UpstreamOfHost, PrunedOK
<1>5. SocketReachesHost /\ ProgFresh
  BY DEF Init, SocketReachesHost, ProgFresh, Idle
<1> QED
  BY <1>1, <1>3, <1>4, <1>5 DEF DataInv

\* Every step preserves what the data plane relies on, one action after the
\* other.
LEMMA DataInvStep ==
  ASSUME ~Overlap, "drop" \notin MayFail, "prune" \notin MayFail, DataInv, [Next]_vars
  PROVE  DataInv'
<1>1. SyncInv' /\ StoppedOK'
  BY SyncInvStep, StoppedStep DEF DataInv
<1>2. CASE SyncStep
  <2>1. ProgFresh'
    BY <1>2, ProgKept DEF DataInv
  <2> QED
    BY <1>1, <1>2, <2>1, DataPhases, DataWrites DEF SyncStep
<1>3. CASE DataPlane
  BY <1>1, <1>3, DataRecord, DataPrograms
<1>4. CASE Environment \/ UNCHANGED vars
  BY <1>1, <1>4, DataEnvironment
<1> QED
  BY <1>2, <1>3, <1>4 DEF Next

\* DataInv holds throughout.
LEMMA DataInvariant ==
  ASSUME ~Overlap, "drop" \notin MayFail, "prune" \notin MayFail
  PROVE  Spec => []DataInv
<1>1. DataInv /\ [Next]_vars => DataInv'
  BY DataInvStep
<1> QED
  BY <1>1, DataInvInit, PTL DEF Spec

\* Where a fake IP leads: vip_upstream only ever holds addresses of the host
\* the address is reserved for.  It takes the deletes of the drop and prune
\* phases to succeed, and no data-plane program to run across a map write.
\* Any pinned map may be lost in an upgrade.
THEOREM LeadsToHost ==
  ASSUME ~Overlap, "drop" \notin MayFail, "prune" \notin MayFail
  PROVE  Spec => []UpstreamOfHost
<1>1. DataInv => UpstreamOfHost
  BY DEF DataInv
<1> QED
  BY <1>1, DataInvariant, PTL

\* A secret is checked against the host its socket is really connected to:
\* under the same conditions, the host vip_connect4/6 records for a socket is
\* one of whose addresses the socket was redirected to, through closes,
\* reconnects, hand-overs of the fake IP and lost maps.
THEOREM SocketsReachTheirHost ==
  ASSUME ~Overlap, "drop" \notin MayFail, "prune" \notin MayFail
  PROVE  Spec => []SocketReachesHost
<1>1. DataInv => SocketReachesHost
  BY DEF DataInv
<1> QED
  BY <1>1, DataInvariant, PTL
=============================================================================
