--------------------------- MODULE VirtualIPPlan ---------------------------
(***************************************************************************)
(* What planVirtualIPs (pkg/ebpf/virtual_ip.go) promises: the reservations *)
(* of fake IPs for the watched hosts, computed from the reservations read  *)
(* back from the pinned vip_ip_host.                                       *)
(*                                                                         *)
(* The code allocates the watched hosts in sorted order, each at the first *)
(* free address from the slot its FNV hash names.  The hash is arbitrary,  *)
(* so the plan is stated as a relation: which free address a new host      *)
(* gets, which hosts go without when the map is full and which of equally  *)
(* old retired reservations is evicted are left open, everything else is   *)
(* as in the code.  The addresses the probe skips (the first and last of a *)
(* range, and .0 and .255) are left out of the ranges.                     *)
(***************************************************************************)
EXTENDS Integers, FiniteSets

CONSTANTS Host,      \* host names secrets may be restricted to
          FakeIP,    \* addresses of the virtual IP ranges, ordered as numbers
          Family,    \* address families: IPv4 alone, or IPv4 and IPv6
          FamilyOf,  \* the family of a fake IP
          Capacity,  \* vip_ip_host's max_entries
          Retention, \* virtualIPRetention
          None       \* no entry

ASSUME PlanConstants ==
  /\ FakeIP \subseteq Nat
  /\ IsFiniteSet(FakeIP)
  /\ FamilyOf \in [FakeIP -> Family]
  /\ Capacity \in Nat
  /\ Retention \in Nat
  /\ None \notin FakeIP
  /\ None \notin [host : Host, retired : BOOLEAN, at : Nat]

\* vip_ip_host: FakeIP -> vip_ip_val, None where the map has no entry.
Entry == [host : Host, retired : BOOLEAN, at : Nat]
Active(h) == [host |-> h, retired |-> FALSE, at |-> 0]
RetiredAt(h, t) == [host |-> h, retired |-> TRUE, at |-> t]

\* A vip_host_ip value: a fake IP of each family; NoIPs stands for no entry.
HostVal == [Family -> FakeIP \cup {None}]
NoIPs == [f \in Family |-> None]

Lowest(S) == CHOOSE ip \in S : \A other \in S : ip <= other

----------------------------------------------------------------------------
\* ex: the existing reservations; H: the watched hosts; range: the addresses
\* of the configured ranges; now: the time of the sync.

\* Mutant: the retention is not awaited.
NoRetention(e, now) == e.retired
RetentionOver(e, now) == e.retired /\ now - e.at >= Retention

\* Reservations that are neither out of range nor past their retention.
Kept(ex, range, now) ==
  {ip \in FakeIP : /\ ex[ip] # None
                   /\ ip \in range
                   /\ ~RetentionOver(ex[ip], now)}

IPsOf(ex, range, now, h, f) ==
  {ip \in Kept(ex, range, now) : ex[ip].host = h /\ FamilyOf[ip] = f}

\* The one address a watched host keeps: its active one, or else a retired
\* one, reactivated.
KeepIP(ex, range, now, h, f) ==
  LET all    == IPsOf(ex, range, now, h, f)
      active == {ip \in all : ~ex[ip].retired}
  IN  Lowest(IF active # {} THEN active ELSE all)

\* The reservations once every host has at most one active address: all
\* other addresses are retired, as of now if they were active.
Settled(ex, H, range, now) ==
  [ip \in FakeIP |->
     IF ip \notin Kept(ex, range, now) THEN None
     ELSE LET h == ex[ip].host
          IN  IF h \in H /\ ip = KeepIP(ex, range, now, h, FamilyOf[ip])
                THEN Active(h)
                ELSE IF ex[ip].retired THEN ex[ip] ELSE RetiredAt(h, now)]

\* planVirtualIPRanges: with an IPv6 range the families share the map.
Share(range, f) ==
  LET v4 == IF \E ip \in range : FamilyOf[ip] = "v6" THEN Capacity \div 2 ELSE Capacity
  IN  IF f = "v4" THEN v4 ELSE Capacity - v4

Reserved(entries, f) == {ip \in FakeIP : FamilyOf[ip] = f /\ entries[ip] # None}
Retired(entries, f)  == {ip \in Reserved(entries, f) : entries[ip].retired}

\* Watched hosts with no reservation of family f.  A family without a range
\* allocates nothing, and its reservations are all out of range.
NewHosts(ex, H, range, now, f) ==
  {h \in H : IPsOf(ex, range, now, h, f) = {}}

\* The plan that evicts evicted from the settled reservations and gives
\* fresh[h][f] to each new host h.
PlanEntries(ex, H, range, now, evicted, fresh) ==
  [ip \in FakeIP |->
     IF \E h \in H : fresh[h][FamilyOf[ip]] = ip
       THEN Active(CHOOSE h \in H : fresh[h][FamilyOf[ip]] = ip)
       ELSE IF ip \in evicted THEN None ELSE Settled(ex, H, range, now)[ip]]

PlanHosts(ex, H, range, now, fresh) ==
  [h \in Host |-> [f \in Family |->
     IF h \in H /\ IPsOf(ex, range, now, h, f) # {}
       THEN KeepIP(ex, range, now, h, f)
       ELSE fresh[h][f]]]

\* fresh gives new hosts, and nobody else, distinct addresses that are in
\* range and not reserved once evicted are gone.
FreshOK(ex, H, range, now, evicted, fresh) ==
  \A h \in Host, f \in Family :
     fresh[h][f] # None =>
       LET ip == fresh[h][f] IN
       /\ h \in NewHosts(ex, H, range, now, f)
       /\ ip \in range /\ FamilyOf[ip] = f
       /\ Settled(ex, H, range, now)[ip] = None \/ ip \in evicted
       /\ \A g \in Host : fresh[g][f] = ip => g = h

\* Only retired reservations are evicted, the oldest first, and only to
\* bring the family down to its share or to make room for a new host.
EvictionOK(ex, H, range, now, evicted, fresh) ==
  \A f \in Family :
     LET settled == Settled(ex, H, range, now)
         entries == PlanEntries(ex, H, range, now, evicted, fresh)
         gone    == {ip \in evicted : FamilyOf[ip] = f}
     IN  /\ gone \subseteq Retired(settled, f)
         /\ \A out \in gone, kept \in Retired(settled, f) \ gone :
              settled[out].at <= settled[kept].at
         /\ gone # {} => Cardinality(Reserved(entries, f)) >= Share(range, f)
         /\ \/ Cardinality(Reserved(entries, f)) <= Share(range, f)
            \/ Retired(entries, f) = {}

\* A new host goes without an address only when its family is full of active
\* reservations or has no free address left.
AllocationOK(ex, H, range, now, evicted, fresh) ==
  \A f \in Family, h \in Host :
     LET entries == PlanEntries(ex, H, range, now, evicted, fresh) IN
     (/\ h \in NewHosts(ex, H, range, now, f)
      /\ fresh[h][f] = None)
     => \/ /\ Cardinality(Reserved(entries, f)) >= Share(range, f)
           /\ Retired(entries, f) = {}
        \/ \A ip \in range : FamilyOf[ip] = f => entries[ip] # None

PlanOK(ex, H, range, now, evicted, fresh) ==
  /\ FreshOK(ex, H, range, now, evicted, fresh)
  /\ EvictionOK(ex, H, range, now, evicted, fresh)
  /\ AllocationOK(ex, H, range, now, evicted, fresh)
=============================================================================
