------------------------------ MODULE VirtualIP ------------------------------
(***************************************************************************)
(* Virtual IP host resolution: the controller's virtualIPAllocator         *)
(* (pkg/ebpf/virtual_ip_linux.go) writing the pinned maps vip_host_ip,     *)
(* vip_ip_host and vip_upstream one system call at a time, while the data  *)
(* plane (pkg/ebpf/bpf/tls_uprobe.c) reads and writes them: tc_dns_rewrite *)
(* hands out fake IPs and records real addresses, vip_connect4/6 redirect  *)
(* connects and record the host a socket's secrets are checked against.    *)
(*                                                                         *)
(* Any map operation of a phase in MayFail may fail; the controller may    *)
(* stop between any two operations and come back with another range, or,   *)
(* after an upgrade, without the pinned maps of LostMaps.                  *)
(*                                                                         *)
(* Simplifications: a real address stands for a host's DNS record; the     *)
(* slots of vip_upstream are a set of addresses of at most UpstreamSlots;  *)
(* whether the pod may have the fake IP (vip_pod_host) is left open, an    *)
(* answer left unchanged being no step at all.                             *)
(***************************************************************************)
EXTENDS VirtualIPPlan

CONSTANTS RealAddr,      \* real addresses of the hosts
          AddrOf,        \* AddrOf[h][f]: the addresses resolvers return for h
          Socket,        \* TCP sockets of kloak pods
          Cpu,           \* CPUs running data-plane programs
          Ranges,        \* the ranges the controller may be started with
          MayFail,       \* phases of a sync whose map operations may fail
          LostMaps,      \* pinned maps a restart may find incompatible
          Overlap,       \* may a data-plane program overlap a map write?
          UpstreamSlots, \* VIP_UPSTREAM_SLOTS
          MaxTime,       \* bound on the clock
          MaxStops       \* bound on the number of controller stops

ASSUME VirtualIPConstants ==
  /\ AddrOf \in [Host -> [Family -> SUBSET RealAddr]]
  /\ Ranges \subseteq SUBSET FakeIP
  /\ Overlap \in BOOLEAN
  /\ MaxTime \in Nat /\ MaxStops \in Nat
  /\ None \notin Host /\ None \notin RealAddr

VARIABLES
  clock,     \* unix time, in units of which Retention counts
  watched,   \* hosts some secret is restricted to
  up,        \* the controller runs and its programs are attached
  stops,     \* how often the controller stopped
  range,     \* vip_config: the addresses of the configured ranges
  ipHost,    \* vip_ip_host
  hostIP,    \* vip_host_ip
  upstream,  \* vip_upstream: the addresses recorded for a fake IP
  pc,        \* the phase of virtualIPAllocator.sync
  existing,  \* sync: vip_ip_host as read at its start
  current,   \* sync: currentHosts, vip_host_ip as read at its start
  hosts,     \* sync: the watched hosts it was given
  entries,   \* sync: the planned reservations
  want,      \* sync: the planned vip_host_ip (p4.Hosts, p6.Hosts)
  dropped,   \* sync: hosts whose vip_host_ip entry goes first
  todo,      \* sync: what is left of the current phase's loop
  clean,     \* no operation of the last sync failed
  prog,      \* the data-plane program a CPU runs
  sockHost,  \* vip_sock_host
  sockDst,   \* vip_sock_dst
  sockFake   \* vip_sock: the fake IP getpeername reports

syncVars == <<pc, existing, current, hosts, entries, want, dropped, todo, clean>>
mapVars  == <<ipHost, hostIP, upstream>>
sockVars == <<sockHost, sockDst, sockFake>>
envVars  == <<clock, watched, up, stops, range>>
vars     == <<syncVars, mapVars, sockVars, envVars, prog>>

Phases == {"idle", "drop", "release", "prune", "write", "publish", "unpublish"}

Idle == [op |-> "idle", host |-> None, ip |-> None, sock |-> None, cur |-> {}]
Prog == [op : {"idle", "dns", "dnsRead", "connect"}, host : Host \cup {None},
         ip : FakeIP \cup {None}, sock : Socket \cup {None}, cur : SUBSET RealAddr]

\* Every map, every local of sync and every program's state keeps its shape:
\* keys and values are what the map definitions of tls_uprobe.c declare.
TypeOK ==
  /\ clock \in Nat /\ stops \in Nat
  /\ watched \subseteq Host
  /\ up \in BOOLEAN /\ clean \in BOOLEAN
  /\ range \subseteq FakeIP
  /\ ipHost \in [FakeIP -> Entry \cup {None}]
  /\ existing \in [FakeIP -> Entry \cup {None}]
  /\ entries \in [FakeIP -> Entry \cup {None}]
  /\ hostIP \in [Host -> HostVal]
  /\ current \in [Host -> HostVal]
  /\ want \in [Host -> HostVal]
  /\ upstream \in [FakeIP -> SUBSET RealAddr]
  /\ pc \in Phases
  /\ hosts \subseteq Host /\ dropped \subseteq Host
  /\ todo \subseteq Host \cup FakeIP
  /\ prog \in [Cpu -> Prog]
  /\ sockHost \in [Socket -> Host \cup {None}]
  /\ sockDst \in [Socket -> RealAddr \cup {None}]
  /\ sockFake \in [Socket -> FakeIP \cup {None}]

NoEntries == [ip \in FakeIP |-> None]
NoHosts   == [h \in Host |-> NoIPs]

Init ==
  /\ clock = 0 /\ stops = 0
  /\ watched \in SUBSET Host
  /\ up = TRUE
  /\ range \in Ranges
  /\ ipHost = NoEntries /\ hostIP = NoHosts
  /\ upstream = [ip \in FakeIP |-> {}]
  /\ pc = "idle" /\ clean = FALSE
  /\ existing = NoEntries /\ entries = NoEntries
  /\ current = NoHosts /\ want = NoHosts
  /\ hosts = {} /\ dropped = {} /\ todo = {}
  /\ prog = [c \in Cpu |-> Idle]
  /\ sockHost = [s \in Socket |-> None]
  /\ sockDst = [s \in Socket |-> None]
  /\ sockFake = [s \in Socket |-> None]

----------------------------------------------------------------------------
(* The controller: virtualIPAllocator.sync.                                *)

\* A system call of the controller runs while no data-plane program does,
\* unless the two may overlap.
Undisturbed == Overlap \/ \A c \in Cpu : prog[c].op = "idle"

CanFail == pc \in MayFail

\* Mutant: a host that only gains an address is dropped too.
DropsDiffering(cur, new) == cur # new

\* dropsVirtualIP: going from cur to new takes away a fake IP cur holds.
DropsVirtualIP(cur, new) ==
  \E f \in Family : cur[f] # None /\ cur[f] # new[f]

\* sync reads both maps and plans.  A plan is one planVirtualIPs allows for
\* what vip_ip_host holds; the hosts that lose an address are dropped first.
SyncStart ==
  /\ up /\ pc = "idle" /\ Undisturbed
  /\ existing' = ipHost /\ current' = hostIP /\ hosts' = watched
  /\ \E evicted \in SUBSET FakeIP, fresh \in [Host -> HostVal] :
       /\ PlanOK(ipHost, watched, range, clock, evicted, fresh)
       /\ entries' = PlanEntries(ipHost, watched, range, clock, evicted, fresh)
       /\ want' = PlanHosts(ipHost, watched, range, clock, fresh)
  /\ dropped' = {h \in Host : hostIP[h] # NoIPs /\ DropsVirtualIP(hostIP[h], want'[h])}
  /\ todo' = dropped'
  /\ pc' = "drop" /\ clean' = TRUE
  /\ UNCHANGED <<mapVars, sockVars, envVars, prog>>

\* A failed read of either map skips the sync.
SyncSkipped ==
  /\ up /\ pc = "idle" /\ "read" \in MayFail
  /\ clean' = FALSE
  /\ UNCHANGED <<pc, existing, current, hosts, entries, want, dropped, todo,
                 mapVars, sockVars, envVars, prog>>

Handled(x, ok) ==
  /\ up /\ Undisturbed
  /\ x \in todo /\ todo' = todo \ {x}
  /\ ok \/ CanFail
  /\ clean' = (clean /\ ok)

\* Delete the vip_host_ip entry of a host that loses an address.
DropHost(h, ok) ==
  /\ pc = "drop" /\ Handled(h, ok)
  /\ hostIP' = IF ok THEN [hostIP EXCEPT ![h] = NoIPs] ELSE hostIP
  /\ UNCHANGED <<pc, existing, current, hosts, entries, want, dropped,
                 ipHost, upstream, sockVars, envVars, prog>>

\* Mutant: a released reservation is zeroed, not deleted.
ReleaseZeroes(ip, ok) ==
  /\ pc = "release" /\ Handled(ip, ok)
  /\ ipHost' = IF ok THEN [ipHost EXCEPT ![ip] = Active(None)] ELSE ipHost
  /\ UNCHANGED <<pc, existing, current, hosts, entries, want, dropped,
                 hostIP, upstream, sockVars, envVars, prog>>

\* Delete a reservation the plan releases.
Release(ip, ok) ==
  /\ pc = "release" /\ Handled(ip, ok)
  /\ ipHost' = IF ok THEN [ipHost EXCEPT ![ip] = None] ELSE ipHost
  /\ UNCHANGED <<pc, existing, current, hosts, entries, want, dropped,
                 hostIP, upstream, sockVars, envVars, prog>>

\* pruneUpstreams: delete the addresses of a fake IP that leads elsewhere.
PruneUpstream(ip, ok) ==
  /\ pc = "prune" /\ Handled(ip, ok)
  /\ upstream' = IF ok THEN [upstream EXCEPT ![ip] = {}] ELSE upstream
  /\ UNCHANGED <<pc, existing, current, hosts, entries, want, dropped,
                 ipHost, hostIP, sockVars, envVars, prog>>

\* Mutant: a host whose reservation could not be written is published.
WriteEntryForgives(ip, ok) ==
  /\ pc = "write" /\ Handled(ip, ok)
  /\ ipHost' = IF ok THEN [ipHost EXCEPT ![ip] = entries[ip]] ELSE ipHost
  /\ UNCHANGED <<pc, existing, current, hosts, entries, want, dropped,
                 hostIP, upstream, sockVars, envVars, prog>>

\* Write a reservation.  Without it the address is not handed out.
WriteEntry(ip, ok) ==
  /\ pc = "write" /\ Handled(ip, ok)
  /\ ipHost' = IF ok THEN [ipHost EXCEPT ![ip] = entries[ip]] ELSE ipHost
  /\ want' = IF ok THEN want
             ELSE [want EXCEPT ![entries[ip].host][FamilyOf[ip]] = None]
  /\ UNCHANGED <<pc, existing, current, hosts, entries, dropped,
                 hostIP, upstream, sockVars, envVars, prog>>

\* Publish a host's addresses in vip_host_ip.
Publish(h, ok) ==
  /\ pc = "publish" /\ Handled(h, ok)
  /\ hostIP' = IF ok THEN [hostIP EXCEPT ![h] = want[h]] ELSE hostIP
  /\ UNCHANGED <<pc, existing, current, hosts, entries, want, dropped,
                 ipHost, upstream, sockVars, envVars, prog>>

\* Delete the entry of a host kept so far whose reservations failed.
Unpublish(h, ok) ==
  /\ pc = "unpublish" /\ Handled(h, ok)
  /\ hostIP' = IF ok THEN [hostIP EXCEPT ![h] = NoIPs] ELSE hostIP
  /\ UNCHANGED <<pc, existing, current, hosts, entries, want, dropped,
                 ipHost, upstream, sockVars, envVars, prog>>

\* Mutant: the addresses of an address that was not reserved before are kept.
KeepsUnlessReassigned(ip) ==
  /\ entries[ip] # None
  /\ existing[ip] = None \/ entries[ip].host = existing[ip].host

\* pruneUpstreams keeps the addresses of a fake IP that stays with its host.
KeepsUpstream(ip) ==
  /\ entries[ip] # None /\ existing[ip] # None
  /\ entries[ip].host = existing[ip].host

\* pruneUpstreams reads vip_upstream before it deletes.
StaleUpstreams == {ip \in FakeIP : upstream[ip] # {} /\ ~KeepsUpstream(ip)}

\* What the loops of the other phases go over.
ToRelease == {ip \in FakeIP : existing[ip] # None /\ entries[ip] = None}

\* Mutant: a reservation that only changes its state is not rewritten.
ToWriteNew == {ip \in FakeIP : entries[ip] # None /\ existing[ip] = None}
ToWrite == {ip \in FakeIP : entries[ip] # None /\ entries[ip] # existing[ip]}

\* Mutant: only hosts with a new reservation are published.
ToPublishNew ==
  {h \in Host : \E f \in Family : want[h][f] # None /\ existing[want[h][f]] = None}
ToPublish ==
  {h \in Host : want[h] # NoIPs /\ (h \in dropped \/ current[h] # want[h])}

ToUnpublish == {h \in Host \ dropped : current[h] # NoIPs /\ want[h] = NoIPs}

EnterPhase(from, to) ==
  /\ up /\ pc = from /\ todo = {}
  /\ pc' = to
  /\ UNCHANGED <<existing, current, hosts, entries, want, dropped, mapVars,
                 sockVars, envVars, prog>>

\* The read of vip_upstream may fail part way, leaving stale entries out.
StartPrune ==
  /\ EnterPhase("release", "prune") /\ Undisturbed
  /\ \/ todo' = StaleUpstreams /\ UNCHANGED clean
     \/ /\ "prune" \in MayFail
        /\ todo' \in SUBSET StaleUpstreams /\ clean' = FALSE

StartRelease == EnterPhase("drop", "release") /\ todo' = ToRelease /\ UNCHANGED clean
StartWrite == EnterPhase("prune", "write") /\ todo' = ToWrite /\ UNCHANGED clean
StartPublish == EnterPhase("write", "publish") /\ todo' = ToPublish /\ UNCHANGED clean
StartUnpublish == EnterPhase("publish", "unpublish") /\ todo' = ToUnpublish /\ UNCHANGED clean

\* sync returns; its locals are gone.
ForgetSync ==
  /\ pc' = "idle" /\ todo' = {}
  /\ existing' = NoEntries /\ entries' = NoEntries
  /\ current' = NoHosts /\ want' = NoHosts
  /\ hosts' = {} /\ dropped' = {}

SyncDone ==
  /\ up /\ pc = "unpublish" /\ todo = {}
  /\ ForgetSync
  /\ UNCHANGED <<clean, mapVars, sockVars, envVars, prog>>

SyncStep ==
  \/ SyncStart \/ SyncSkipped
  \/ StartRelease \/ StartPrune \/ StartWrite \/ StartPublish
  \/ StartUnpublish \/ SyncDone
  \/ \E ok \in BOOLEAN :
       \/ \E h \in Host : DropHost(h, ok) \/ Publish(h, ok) \/ Unpublish(h, ok)
       \/ \E ip \in FakeIP : Release(ip, ok) \/ PruneUpstream(ip, ok) \/ WriteEntry(ip, ok)

----------------------------------------------------------------------------
(* The environment: secrets come and go, time passes, the controller stops *)
(* and starts.                                                             *)

\* A secret's host restriction appears or goes away.
ChangeWatched(h) ==
  /\ watched' = IF h \in watched THEN watched \ {h} ELSE watched \cup {h}
  /\ UNCHANGED <<clock, up, stops, range, syncVars, mapVars, sockVars, prog>>

Tick ==
  /\ clock < MaxTime /\ clock' = clock + 1
  /\ UNCHANGED <<watched, up, stops, range, syncVars, mapVars, sockVars, prog>>

\* The controller stops at any point of a sync: its programs are detached,
\* and every map that is not pinned goes with it.
Stop ==
  /\ up /\ stops < MaxStops
  /\ up' = FALSE /\ stops' = stops + 1
  /\ ForgetSync /\ clean' = FALSE
  /\ prog' = [c \in Cpu |-> IF prog[c].op = "connect" THEN Idle ELSE prog[c]]
  /\ sockHost' = [s \in Socket |-> None]
  /\ sockDst' = [s \in Socket |-> None]
  /\ sockFake' = [s \in Socket |-> None]
  /\ UNCHANGED <<clock, watched, range, mapVars>>

\* It starts again, maybe with another range.  prepareVirtualIPPins removes
\* the pins whose layout this version no longer matches.
Restart ==
  /\ ~up /\ up' = TRUE
  /\ range' \in Ranges
  /\ \E lost \in SUBSET LostMaps :
       /\ ipHost' = IF "vip_ip_host" \in lost THEN NoEntries ELSE ipHost
       /\ hostIP' = IF "vip_host_ip" \in lost THEN NoHosts ELSE hostIP
       /\ upstream' = IF "vip_upstream" \in lost
                        THEN [ip \in FakeIP |-> {}] ELSE upstream
       /\ lost # {} => \A c \in Cpu : prog[c].op = "idle"
  /\ UNCHANGED <<clock, watched, stops, syncVars, sockVars, prog>>

----------------------------------------------------------------------------
(* The data plane.                                                         *)

\* tc_dns_rewrite: a trusted answer for h reaches a pod bound to it.  The
\* program looks up the host's fake IP of the question's family ...
DnsLookup(c, h, f) ==
  /\ up /\ prog[c].op = "idle"
  /\ hostIP[h][f] \in range
  /\ prog' = [prog EXCEPT ![c] =
                [Idle EXCEPT !.op = "dns", !.host = h, !.ip = hostIP[h][f]]]
  /\ UNCHANGED <<syncVars, mapVars, sockVars, envVars>>

\* ... copies the addresses recorded so far ...
DnsRead(c) ==
  /\ prog[c].op = "dns"
  /\ prog' = [prog EXCEPT ![c].op = "dnsRead", ![c].cur = upstream[prog[c].ip]]
  /\ UNCHANGED <<syncVars, mapVars, sockVars, envVars>>

\* ... and stores them with the answer's.  vip_upstream_record replaces the
\* address that expires first when every slot is taken.
Recorded(cur, answer) ==
  LET all == cur \cup answer
  IN  IF Cardinality(all) <= UpstreamSlots THEN {all}
      ELSE {S \in SUBSET all : Cardinality(S) = UpstreamSlots}

DnsRecord(c) ==
  /\ prog[c].op = "dnsRead"
  /\ LET ip == prog[c].ip IN
     \E answer \in SUBSET AddrOf[prog[c].host][FamilyOf[ip]] :
       /\ answer # {}
       /\ \E recorded \in Recorded(prog[c].cur, answer) :
            upstream' = [upstream EXCEPT ![ip] = recorded]
  /\ prog' = [prog EXCEPT ![c] = Idle]
  /\ UNCHANGED <<syncVars, ipHost, hostIP, sockVars, envVars>>

\* Mutant: the socket's host is not forgotten.
ForgetFake(s) ==
  /\ sockFake' = [sockFake EXCEPT ![s] = None]
  /\ UNCHANGED sockHost

\* vip_forget_host
ForgetHost(s) ==
  /\ sockHost' = [sockHost EXCEPT ![s] = None]
  /\ sockFake' = [sockFake EXCEPT ![s] = None]

\* vip_redirect, a connect to a fake IP: find its host ...
ConnectLookup(c, s, ip) ==
  /\ up /\ prog[c].op = "idle" /\ \A d \in Cpu : prog[d].sock # s
  /\ ip \in range /\ ipHost[ip] # None
  /\ prog' = [prog EXCEPT ![c] =
       [Idle EXCEPT !.op = "connect", !.host = ipHost[ip].host, !.ip = ip, !.sock = s]]
  /\ UNCHANGED <<syncVars, mapVars, sockVars, envVars>>

\* ... pick one of its addresses, and record both for the socket ...
ConnectRedirect(c) ==
  /\ prog[c].op = "connect"
  /\ \E real \in upstream[prog[c].ip] :
       /\ sockHost' = [sockHost EXCEPT ![prog[c].sock] = prog[c].host]
       /\ sockFake' = [sockFake EXCEPT ![prog[c].sock] = prog[c].ip]
       /\ sockDst' = [sockDst EXCEPT ![prog[c].sock] = real]
  /\ prog' = [prog EXCEPT ![c] = Idle]
  /\ UNCHANGED <<syncVars, mapVars, envVars>>

\* ... or refuse it when it has none, or is not reserved.
ConnectRefused(c) ==
  /\ prog[c].op = "connect" /\ upstream[prog[c].ip] = {}
  /\ ForgetHost(prog[c].sock)
  /\ prog' = [prog EXCEPT ![c] = Idle]
  /\ UNCHANGED <<sockDst, syncVars, mapVars, envVars>>

ConnectUnreserved(s, ip) ==
  /\ up /\ \A d \in Cpu : prog[d].sock # s
  /\ ip \in range /\ ipHost[ip] = None
  /\ ForgetHost(s)
  /\ UNCHANGED <<sockDst, syncVars, mapVars, envVars, prog>>

\* A connect to any other address goes ahead and is recorded.
ConnectDirect(s, real) ==
  /\ up /\ \A d \in Cpu : prog[d].sock # s
  /\ ForgetHost(s)
  /\ sockDst' = [sockDst EXCEPT ![s] = real]
  /\ UNCHANGED <<syncVars, mapVars, envVars, prog>>

\* tp_inet_sock_set_state, TCP_CLOSE: the socket storage stays until the
\* socket itself is freed.
CloseSocket(s) ==
  /\ up /\ \A d \in Cpu : prog[d].sock # s
  /\ sockHost' = [sockHost EXCEPT ![s] = None]
  /\ sockDst' = [sockDst EXCEPT ![s] = None]
  /\ UNCHANGED <<sockFake, syncVars, mapVars, envVars, prog>>

DataPlane ==
  \/ \E c \in Cpu :
       \/ DnsRead(c) \/ DnsRecord(c) \/ ConnectRedirect(c) \/ ConnectRefused(c)
       \/ \E h \in Host, f \in Family : DnsLookup(c, h, f)
       \/ \E s \in Socket, ip \in FakeIP : ConnectLookup(c, s, ip)
  \/ \E s \in Socket :
       \/ CloseSocket(s)
       \/ \E ip \in FakeIP : ConnectUnreserved(s, ip)
       \/ \E real \in RealAddr : ConnectDirect(s, real)

Environment == Tick \/ Stop \/ Restart \/ \E h \in Host : ChangeWatched(h)

Next == SyncStep \/ DataPlane \/ Environment

Spec == Init /\ [][Next]_vars

\* The secret-sync controller runs a sync on every secret event, retries a
\* failed one with backoff and repeats it every DefaultSecretResyncPeriod; the
\* DaemonSet restarts a stopped controller; an operation that is retried again
\* and again does not fail forever.
FairSpec ==
  /\ Spec
  /\ WF_vars(SyncStep) /\ WF_vars(Restart)
  /\ SF_vars(SyncStart)
  /\ \A ip \in FakeIP : SF_vars(Release(ip, TRUE)) /\ SF_vars(WriteEntry(ip, TRUE))
  /\ \A h \in Host : SF_vars(DropHost(h, TRUE)) /\ SF_vars(Publish(h, TRUE))

----------------------------------------------------------------------------
(* Properties.                                                             *)

\* "Write order keeps every IP in vip_host_ip resolvable in vip_ip_host"
\* (virtual_ip_linux.go, sync): at every point of a sync, through failed
\* writes, stops and hand-overs, an address handed out for a host is reserved
\* for that host, and so for no other.
Resolvable ==
  \A h \in Host, f \in Family :
     hostIP[h][f] # None =>
       ipHost[hostIP[h][f]] # None /\ ipHost[hostIP[h][f]].host = h

\* vip_upstream holds, for a reserved fake IP, only addresses the resolvers
\* returned for the host it is reserved for (helpers.h: "the real addresses
\* the trusted resolvers returned for a fake IP's host").
UpstreamOfHost ==
  \A ip \in FakeIP :
     ipHost[ip] # None => upstream[ip] \subseteq AddrOf[ipHost[ip].host][FamilyOf[ip]]

\* A socket with a host recorded in vip_sock_host, the host its secrets are
\* checked against, really connected to one of that host's addresses.
SocketReachesHost ==
  \A s \in Socket :
     sockHost[s] # None =>
       \E f \in Family : sockDst[s] \in AddrOf[sockHost[s]][f]

\* A sync without a failure leaves the maps agreeing, whatever stops, failed
\* syncs, range changes or lost pins came before it: the active reservations
\* are exactly the published ones, one per host and family.
CleanSyncAgrees ==
  pc = "idle" /\ clean =>
    \A ip \in FakeIP :
      /\ (ipHost[ip] # None /\ ~ipHost[ip].retired) =>
           hostIP[ipHost[ip].host][FamilyOf[ip]] = ip
      /\ \A h \in Host, f \in Family : hostIP[h][f] = ip => ipHost[ip] = Active(h)

\* "not handed to another host while apps may still cache it" (VIP_F_RETIRED):
\* a reservation goes away only when its address is out of range, its
\* retention is over, or the plan leaves its family full.
ReservedUntilReleased ==
  [][ \A ip \in FakeIP :
        /\ up /\ ipHost[ip] # None
        /\ ipHost'[ip] = None \/ ipHost'[ip].host # ipHost[ip].host
        => \/ ip \notin range
           \/ ipHost[ip].retired /\ clock - ipHost[ip].at >= Retention
           \/ Cardinality(Reserved(entries, FamilyOf[ip])) >= Share(range, FamilyOf[ip]) ]_vars

\* No address in range but those published is actively reserved for h.  A
\* release that failed under another range leaves such a reservation behind.
NoLeftover(h) ==
  \A ip \in range :
     existing[ip] # None /\ existing[ip].host = h /\ ~existing[ip].retired =>
       hostIP[h][FamilyOf[ip]] = ip

\* "a host keeps its fake IP for as long as it is watched"
\* (planVirtualIPs): whatever fails, no step of a sync takes an address away
\* from a host the sync was given, whose addresses are all in range and which
\* has no other reservation left over, so what applications cached stays valid
\* across syncs and restarts.
WatchedKeepsIP ==
  [][ \A h \in Host, f \in Family :
        /\ up /\ pc # "idle" /\ h \in hosts /\ hostIP[h][f] # None
        /\ \A ff \in Family : hostIP[h][ff] \in range \cup {None}
        /\ NoLeftover(h)
        => hostIP'[h][f] = hostIP[h][f] ]_vars

\* Retried syncs converge through failures and stops: a host that stays
\* watched ends up with a fake IP of every family for good, a host that stays
\* unwatched ends up with none (given room and addresses for every host).
Converges ==
  \A h \in Host :
     /\ <>[](h \in watched) => <>[](\A f \in Family : hostIP[h][f] # None)
     /\ <>[](h \notin watched) => <>[](hostIP[h] = NoIPs)
=============================================================================
