------------------------- MODULE SocketPolicyProofs -------------------------
(***************************************************************************)
(* Proofs about SocketPolicy, for any number of sockets, struct sock       *)
(* addresses, hosts, addresses and secrets, any load balancing and any     *)
(* number of stops.                                                        *)
(*                                                                         *)
(* What the maps say of a socket is about its current connection: HostOK,  *)
(* DstOK and SniOK say so of vip_sock_host, vip_sock_dst and sni_state,    *)
(* and they need that a socket that can connect left nothing behind in     *)
(* them (Forgotten), nor a closed one in a slot that is used again         *)
(* (SlotClean), nor any in a cookie still to come (CookieOK).  All but     *)
(* SniOK except a socket whose entries are stale: those of a connect that  *)
(* failed before SYN_SENT.                                                 *)
(***************************************************************************)
EXTENDS SocketPolicy, TLAPS

----------------------------------------------------------------------------
(* The inductive invariant.                                                *)

\* Cookies are given once, and nothing is recorded for one before.
CookieOK ==
  /\ \A k \in Slot : sock[k] # None => sock[k].cookie <= cookies
  /\ \A k, j \in Slot : sock[k] # None /\ sock[j] # None /\ sock[k].cookie = sock[j].cookie => k = j
  /\ \A c \in Cookie : c > cookies => sockHost[c] = None /\ sockDst[c] = None

\* vip_sock_host and vip_sock_dst are about the current connection.
HostOK(k) ==
  sock[k] # None => sock[k].stale \/ sockHost[sock[k].cookie] \in {None, sock[k].via}
DstOK(k) ==
  sock[k] # None => sock[k].stale \/ sockDst[sock[k].cookie] \in {None, sock[k].dst}

\* A socket that can connect left nothing behind.
Forgotten(k) ==
  IsIn(k, "closed") =>
    /\ sni[k] = None
    /\ sock[k].stale \/ (sockHost[sock[k].cookie] = None /\ sockDst[sock[k].cookie] = None)

\* Nothing is written before the connection is up, and only clients connect.
NotUpYet(k) == IsIn(k, "closed") \/ IsIn(k, "syn") => sock[k].client /\ sock[k].hellos = {}

\* sni_state is about the current connection: without an entry and without an
\* eviction nothing was written; what it says was seen was written, and,
\* without an eviction, nothing else.
SniOK(k) ==
  /\ sock[k] # None /\ ~sock[k].evicted /\ sni[k] = None => sock[k].hellos = {}
  /\ sni[k] # None /\ sni[k].status = "seen" =>
       /\ sni[k].host \in sock[k].hellos
       /\ sock[k].evicted \/ sock[k].hellos \subseteq {sni[k].host, "other"}

\* A slot without a socket has no sni_state entry.
SlotClean(k) == sock[k] = None => sni[k] = None

\* A descriptor in conn_ip_map and not closed unseen is a client's and open.
ClientOK(k) == k \in connIp \ unseen => HasDescriptor(k) /\ sock[k].client

\* connect() is under way on clients only, from SYN_SENT on.
CallOK(k) ==
  sock[k] # None /\ sock[k].call # "none" => sock[k].client /\ sock[k].state \in {"syn", "up"}

SlotInv(k) ==
  /\ HostOK(k) /\ DstOK(k) /\ Forgotten(k) /\ NotUpYet(k)
  /\ SniOK(k) /\ SlotClean(k) /\ ClientOK(k) /\ CallOK(k)

PolicyInv == TypeOK /\ CookieOK /\ \A k \in Slot : SlotInv(k)

----------------------------------------------------------------------------
\* What the properties say follows from the invariant.
LEMMA InvImpliesProperties ==
  ASSUME PolicyInv
  PROVE  TypeOK /\ KeptForHost /\ KeptForAddr /\ ServersSkipped
<1>1. ASSUME NEW k \in Slot, NEW s \in Secret, IsIn(k, "up"), SecretHost[s] # None, Keep(k, s)
      PROVE  /\ sock[k].stale \/ sock[k].via = SecretHost[s]
             /\ \/ audit
                \/ /\ SecretHost[s] \in sock[k].hellos
                   /\ sock[k].evicted \/ sock[k].hellos \subseteq {SecretHost[s], "other"}
  BY <1>1 DEF PolicyInv, SlotInv, HostOK, SniOK, IsIn, Keep, SocketCheck, SniCheck
<1>2. ASSUME NEW k \in Slot, NEW s \in Secret, IsIn(k, "up"), SecretAddr[s] # None, Keep(k, s)
      PROVE  sock[k].stale \/ SecretAddr[s] \in {sock[k].dst, sock[k].peer}
  BY <1>2 DEF PolicyInv, SlotInv, DstOK, IsIn, Keep, SocketCheck
<1>3. ServersSkipped
  BY DEF PolicyInv, TypeOK, SlotInv, ClientOK, HasDescriptor, ServersSkipped
<1>4. QED
  BY <1>1, <1>2, <1>3 DEF PolicyInv, KeptForHost, KeptForAddr

\* There are no sockets and no entries at first.
LEMMA InitInv == Init => PolicyInv
<1> SUFFICES ASSUME Init PROVE PolicyInv
  OBVIOUS
<1> USE DEF Init
<1>1. TypeOK
  <2>1. cookies \in 0 .. MaxSockets /\ stops \in 0 .. MaxStops
    BY SocketPolicyAssumption
  <2>2. sock \in [Slot -> SocketVal \cup {None}] /\ sni \in [Slot -> SniVal \cup {None}]
    OBVIOUS
  <2>3. /\ sockHost \in [Cookie -> Host \cup {None}] /\ sockDst \in [Cookie -> Addr \cup {None}]
        /\ unseen \subseteq connIp /\ connIp \subseteq Slot
        /\ hooked \in BOOLEAN /\ audit \in BOOLEAN
    OBVIOUS
  <2>4. QED
    BY <2>1, <2>2, <2>3 DEF TypeOK
<1>2. CookieOK
  BY DEF CookieOK
<1>3. ASSUME NEW k \in Slot PROVE SlotInv(k)
  BY DEF SlotInv, HostOK, DstOK, Forgotten, NotUpYet, SniOK, SlotClean, ClientOK, CallOK, IsIn
<1>4. QED
  BY <1>1, <1>2, <1>3 DEF PolicyInv

\* A step that only concerns the socket in slot k has to be looked at there.
LEMMA OneSlot ==
  ASSUME PolicyInv, NEW k \in Slot, TypeOK', CookieOK', SlotInv(k)',
         \A j \in Slot \ {k} : /\ sock'[j] = sock[j] /\ sni'[j] = sni[j]
                               /\ j \in connIp' <=> j \in connIp
                               /\ j \in unseen' <=> j \in unseen,
         \A j \in Slot \ {k} : sock[j] # None =>
           /\ sockHost'[sock[j].cookie] = sockHost[sock[j].cookie]
           /\ sockDst'[sock[j].cookie] = sockDst[sock[j].cookie]
  PROVE  PolicyInv'
<1>1. ASSUME NEW j \in Slot \ {k} PROVE SlotInv(j)'
  <2>1. SlotInv(j)
    BY DEF PolicyInv
  <2>2. (HostOK(j) /\ DstOK(j) /\ Forgotten(j))'
    BY <2>1 DEF SlotInv, HostOK, DstOK, Forgotten, IsIn
  <2>3. (NotUpYet(j) /\ SniOK(j) /\ SlotClean(j) /\ ClientOK(j) /\ CallOK(j))'
    BY <2>1 DEF SlotInv, NotUpYet, SniOK, SlotClean, ClientOK, CallOK, HasDescriptor, IsIn
  <2>4. QED
    BY <2>2, <2>3 DEF SlotInv
<1>2. QED
  BY <1>1 DEF PolicyInv

\* A new socket finds its slot clean and its cookie unused.
LEMMA NewSocketKeepsInv ==
  ASSUME PolicyInv, NEW k \in Slot, Socket(k) \/ Accept(k)
  PROVE  PolicyInv'
<1> DEFINE s == NewSocket(cookies + 1)
           a == [s EXCEPT !.state = "up", !.client = FALSE]
           c == cookies + 1
<1>1. /\ sock[k] = None /\ cookies' = c /\ cookies < MaxSockets
      /\ sock' = [sock EXCEPT ![k] = s] \/ sock' = [sock EXCEPT ![k] = a]
      /\ UNCHANGED <<sni, sockHost, sockDst, connIp, unseen, hooked, stops, audit>>
  BY DEF Socket, Accept, maps, config
<1>2. /\ cookies \in Nat /\ c \in Cookie /\ c \in 0 .. MaxSockets /\ c > cookies
      /\ \A d \in Cookie : d \in Nat
  BY <1>1, SocketPolicyAssumption DEF PolicyInv, TypeOK, Cookie
<1>3. PICK r : /\ sock' = [sock EXCEPT ![k] = r] /\ r \in SocketVal /\ r.cookie = c /\ r.hellos = {}
               /\ r.call = "none"
               /\ \/ r.state = "closed" /\ r.client
                  \/ r.state = "up" /\ ~r.client
  <2>1. /\ s \in SocketVal /\ s.cookie = c /\ s.hellos = {} /\ s.state = "closed" /\ s.client
        /\ s.call = "none"
    BY <1>2 DEF NewSocket, SocketVal
  <2>2. /\ a \in SocketVal /\ a.cookie = c /\ a.hellos = {} /\ a.state = "up" /\ ~a.client
        /\ a.call = "none"
    BY <1>2 DEF NewSocket, SocketVal
  <2> HIDE DEF s, a
  <2>3. QED
    BY <1>1, <2>1, <2>2
<1>4. /\ sock' \in [Slot -> SocketVal \cup {None}] /\ sock'[k] = r /\ r # None
      /\ \A j \in Slot \ {k} : sock'[j] = sock[j]
  BY <1>3, NoneAssumption DEF PolicyInv, TypeOK
<1>5. TypeOK'
  BY <1>1, <1>2, <1>4 DEF PolicyInv, TypeOK
<1>6. CookieOK'
  <2>1. \A j \in Slot : sock'[j] # None => sock'[j].cookie <= c /\ (sock'[j].cookie = c => j = k)
    BY <1>2, <1>3, <1>4 DEF PolicyInv, CookieOK, TypeOK, SocketVal
  <2>2. \A i, j \in Slot : sock'[i] # None /\ sock'[j] # None /\ sock'[i].cookie = sock'[j].cookie => i = j
    BY <1>3, <1>4, <2>1 DEF PolicyInv, CookieOK
  <2>3. \A d \in Cookie : d > c => sockHost'[d] = None /\ sockDst'[d] = None
    BY <1>1, <1>2 DEF PolicyInv, CookieOK
  <2>4. QED
    BY <1>1, <2>1, <2>2, <2>3 DEF CookieOK
<1>7. SlotInv(k)'
  <2>1. sockHost[c] = None /\ sockDst[c] = None /\ sni[k] = None /\ k \notin connIp \ unseen
    BY <1>1, <1>2 DEF PolicyInv, CookieOK, SlotInv, SlotClean, ClientOK, HasDescriptor
  <2>2. QED
    BY <1>1, <1>3, <1>4, <2>1 DEF SlotInv, HostOK, DstOK, Forgotten, NotUpYet, SniOK, SlotClean,
                                   ClientOK, CallOK, IsIn
<1>8. QED
  BY <1>1, <1>4, <1>5, <1>6, <1>7, OneSlot

\* A step of the socket in slot k keeps its cookie, or ends it, and touches no
\* entry but its own.
LEMMA SocketStep ==
  ASSUME PolicyInv, NEW k \in Slot, sock[k] # None,
         sock' \in [Slot -> SocketVal \cup {None}], sock'[k] # None => sock'[k].cookie = sock[k].cookie,
         sni' \in [Slot -> SniVal \cup {None}],
         \A j \in Slot \ {k} : sock'[j] = sock[j] /\ sni'[j] = sni[j],
         sockHost' \in [Cookie -> Host \cup {None}], sockDst' \in [Cookie -> Addr \cup {None}],
         \A c \in Cookie \ {sock[k].cookie} : sockHost'[c] = sockHost[c] /\ sockDst'[c] = sockDst[c],
         connIp' \subseteq Slot, unseen' \subseteq connIp',
         \A j \in Slot \ {k} : (j \in connIp' <=> j \in connIp) /\ (j \in unseen' <=> j \in unseen),
         UNCHANGED <<cookies, hooked, stops, audit>>,
         SlotInv(k)'
  PROVE  PolicyInv'
<1>1. TypeOK'
  BY DEF PolicyInv, TypeOK
<1>2. \A j \in Slot : sock[j] # None => sock[j].cookie \in Cookie /\ sock[j].cookie <= cookies
  BY DEF PolicyInv, CookieOK, TypeOK, SocketVal
<1>3. cookies \in Nat /\ \A c \in Cookie : c \in Nat
  BY SocketPolicyAssumption DEF PolicyInv, TypeOK, Cookie
<1>4. \A j \in Slot : sock'[j] # None => sock[j] # None /\ sock'[j].cookie = sock[j].cookie
  OBVIOUS
<1>5. \A c \in Cookie : c > cookies => sockHost'[c] = None /\ sockDst'[c] = None
  BY <1>2, <1>3 DEF PolicyInv, CookieOK
<1>6. CookieOK'
  BY <1>2, <1>4, <1>5 DEF PolicyInv, CookieOK
<1>7. \A j \in Slot \ {k} : sock[j] # None => sock[j].cookie \in Cookie \ {sock[k].cookie}
  BY <1>2 DEF PolicyInv, CookieOK
<1>8. QED
  BY <1>1, <1>6, <1>7, OneSlot

\* The facts about the socket in slot k that its steps start from.
LEMMA SocketFacts ==
  ASSUME PolicyInv, NEW k \in Slot, sock[k] # None
  PROVE  /\ sock[k] \in SocketVal /\ sock[k].cookie \in Cookie /\ SlotInv(k)
         /\ sock \in [Slot -> SocketVal \cup {None}] /\ sni \in [Slot -> SniVal \cup {None}]
         /\ sockHost \in [Cookie -> Host \cup {None}] /\ sockDst \in [Cookie -> Addr \cup {None}]
         /\ unseen \subseteq connIp /\ connIp \subseteq Slot
         /\ None \notin SocketVal /\ None \notin SniVal
BY NoneAssumption DEF PolicyInv, TypeOK, SocketVal

\* A connect of a socket that can connect: the hooks, if they run, have
\* recorded this connection, and nothing else is there.
LEMMA SynKeepsInv ==
  ASSUME PolicyInv, NEW k \in Slot, IsIn(k, "closed"),
         NEW via \in Host \cup {None}, NEW dst \in Addr, Syn(k, via, dst),
         sockHost' \in [Cookie -> Host \cup {None}], sockDst' \in [Cookie -> Addr \cup {None}],
         \A c \in Cookie \ {sock[k].cookie} : sockHost'[c] = sockHost[c] /\ sockDst'[c] = sockDst[c],
         hooked \/ ~sock[k].stale =>
           sockHost'[sock[k].cookie] \in {None, via} /\ sockDst'[sock[k].cookie] \in {None, dst}
  PROVE  PolicyInv'
<1>1. PICK peer \in Backends[dst] :
        sock' = [sock EXCEPT ![k] =
                   [@ EXCEPT !.state = "syn", !.via = via, !.dst = dst, !.peer = peer,
                             !.hellos = {}, !.evicted = FALSE, !.call = "blocked",
                             !.stale = IF hooked THEN FALSE ELSE sock[k].stale]]
  BY DEF Syn
<1> DEFINE st == IF hooked THEN FALSE ELSE sock[k].stale
           r == [sock[k] EXCEPT
                   !.state = "syn", !.via = via, !.dst = dst, !.peer = peer,
                   !.hellos = {}, !.evicted = FALSE, !.call = "blocked", !.stale = st]
<1>2. sock[k] # None /\ sock[k].client /\ peer \in Addr
  BY SocketPolicyAssumption DEF IsIn, PolicyInv, SlotInv, NotUpYet
<1>3. /\ r \in SocketVal /\ r.cookie = sock[k].cookie /\ r.state = "syn" /\ r.via = via
      /\ r.dst = dst /\ r.hellos = {} /\ r.client /\ r.call = "blocked"
      /\ r.stale \/ hooked \/ ~sock[k].stale
  <2>1. sock[k] \in SocketVal
    BY <1>2, SocketFacts
  <2>2. hooked \in BOOLEAN /\ sock[k].stale \in BOOLEAN
    BY <2>1 DEF PolicyInv, TypeOK, SocketVal
  <2>3. st \in BOOLEAN /\ (st \/ hooked \/ ~sock[k].stale)
    BY <2>2
  <2> HIDE DEF st
  <2>4. r \in SocketVal
    BY <1>2, <2>1, <2>3 DEF SocketVal
  <2>5. r.cookie = sock[k].cookie /\ r.client = sock[k].client
    BY <2>1 DEF SocketVal
  <2>6. /\ r.state = "syn" /\ r.via = via /\ r.dst = dst /\ r.hellos = {} /\ r.call = "blocked"
        /\ r.stale = st
    BY <2>1 DEF SocketVal
  <2>7. r.stale \/ hooked \/ ~sock[k].stale
    BY <2>3, <2>6
  <2>8. QED
    BY <1>2, <2>4, <2>5, <2>6, <2>7
<1>4. sock' = [sock EXCEPT ![k] = r]
  BY <1>1
<1> HIDE DEF r
<1>5. /\ sock' \in [Slot -> SocketVal \cup {None}] /\ sock'[k] = r /\ r # None
      /\ \A j \in Slot \ {k} : sock'[j] = sock[j]
  BY <1>2, <1>3, <1>4, SocketFacts
<1>6. /\ sni' \in [Slot -> SniVal \cup {None}] /\ sni'[k] = None
      /\ \A j \in Slot \ {k} : sni'[j] = sni[j]
      /\ UNCHANGED <<cookies, connIp, unseen, hooked, stops, audit>>
  BY <1>2, SocketFacts DEF Syn, config
<1>7. SlotInv(k)'
  <2>1. HostOK(k)' /\ DstOK(k)'
    BY <1>3, <1>5 DEF HostOK, DstOK
  <2>2. (Forgotten(k) /\ NotUpYet(k) /\ SniOK(k) /\ SlotClean(k) /\ ClientOK(k) /\ CallOK(k))'
    BY <1>3, <1>5, <1>6 DEF Forgotten, NotUpYet, SniOK, SlotClean, ClientOK, CallOK, HasDescriptor, IsIn
  <2>3. QED
    BY <2>1, <2>2 DEF SlotInv
<1>8. QED
  BY <1>2, <1>3, <1>5, <1>6, <1>7, SocketFacts, SocketStep

\* A connect that finds no route: what it recorded is stale from then on.
LEMMA UnroutedKeepsInv ==
  ASSUME PolicyInv, NEW k \in Slot, IsIn(k, "closed"), Unrouted(k),
         sockHost' \in [Cookie -> Host \cup {None}], sockDst' \in [Cookie -> Addr \cup {None}],
         \A c \in Cookie \ {sock[k].cookie} : sockHost'[c] = sockHost[c] /\ sockDst'[c] = sockDst[c]
  PROVE  PolicyInv'
<1> DEFINE r == [sock[k] EXCEPT !.stale = TRUE]
<1>1. /\ sock[k] # None /\ sock[k].state = "closed" /\ sock' = [sock EXCEPT ![k] = r]
      /\ UNCHANGED <<cookies, sni, connIp, unseen, hooked, stops, audit>>
  BY DEF IsIn, Unrouted, config
<1>2. /\ r \in SocketVal /\ r.cookie = sock[k].cookie /\ r.state = "closed" /\ r.stale
      /\ r.hellos = sock[k].hellos /\ r.client = sock[k].client /\ r.call = sock[k].call
      /\ r.evicted = sock[k].evicted
  <2>1. sock[k] \in SocketVal
    BY <1>1, SocketFacts
  <2>2. r \in SocketVal
    BY <2>1 DEF SocketVal
  <2>3. /\ r.cookie = sock[k].cookie /\ r.state = "closed" /\ r.stale
        /\ r.hellos = sock[k].hellos /\ r.client = sock[k].client /\ r.call = sock[k].call
        /\ r.evicted = sock[k].evicted
    BY <1>1, <2>1 DEF SocketVal
  <2>4. QED
    BY <2>2, <2>3
<1> HIDE DEF r
<1>3. /\ sock' \in [Slot -> SocketVal \cup {None}] /\ sock'[k] = r /\ r # None
      /\ \A j \in Slot \ {k} : sock'[j] = sock[j]
  BY <1>1, <1>2, SocketFacts
<1>4. SlotInv(k)'
  BY <1>1, <1>2, <1>3, SocketFacts
     DEF SlotInv, HostOK, DstOK, Forgotten, NotUpYet, SniOK, SlotClean, ClientOK, CallOK,
         HasDescriptor, IsIn
<1>5. QED
  BY <1>1, <1>2, <1>3, <1>4, SocketFacts, SocketStep

\* A connect, direct or redirected, is recorded for its own connection.
LEMMA ConnectKeepsInv ==
  ASSUME PolicyInv, NEW k \in Slot,
         \/ \E h \in Host : ConnectRedirected(k, h)
         \/ \E x \in Addr : ConnectDirect(k, x)
  PROVE  PolicyInv'
<1> DEFINE c == sock[k].cookie
<1>1. IsIn(k, "closed") /\ sock[k] # None
  BY DEF ConnectRedirected, ConnectDirect, IsIn
<1>2. /\ c \in Cookie /\ (sock[k].stale \/ (sockHost[c] = None /\ sockDst[c] = None))
      /\ sockHost \in [Cookie -> Host \cup {None}] /\ sockDst \in [Cookie -> Addr \cup {None}]
  BY <1>1, SocketFacts DEF SlotInv, Forgotten
<1>3. ASSUME NEW h \in Host, ConnectRedirected(k, h) PROVE PolicyInv'
  <2>1. /\ sockHost' = [sockHost EXCEPT ![c] = h] /\ sockDst' = [sockDst EXCEPT ![c] = RealOf[h]]
        /\ Syn(k, h, RealOf[h]) \/ Unrouted(k)
        /\ RealOf[h] \in Addr
    BY <1>3, SocketPolicyAssumption DEF ConnectRedirected
  <2>2. /\ sockHost' \in [Cookie -> Host \cup {None}] /\ sockDst' \in [Cookie -> Addr \cup {None}]
        /\ \A d \in Cookie \ {c} : sockHost'[d] = sockHost[d] /\ sockDst'[d] = sockDst[d]
        /\ sockHost'[c] = h /\ sockDst'[c] = RealOf[h]
    BY <1>2, <2>1
  <2>3. QED
    BY <1>1, <2>1, <2>2, SynKeepsInv, UnroutedKeepsInv
<1>4. ASSUME NEW x \in Addr, ConnectDirect(k, x) PROVE PolicyInv'
  <2>1. /\ sockHost' = IF hooked THEN [sockHost EXCEPT ![c] = None] ELSE sockHost
        /\ sockDst' = IF hooked THEN [sockDst EXCEPT ![c] = x] ELSE sockDst
        /\ Syn(k, None, x) \/ Unrouted(k)
    BY <1>4 DEF ConnectDirect
  <2>2. /\ sockHost' \in [Cookie -> Host \cup {None}]
        /\ hooked \/ ~sock[k].stale => sockHost'[c] = None
        /\ \A d \in Cookie \ {c} : sockHost'[d] = sockHost[d]
    BY <1>2, <2>1
  <2>3. /\ sockDst' \in [Cookie -> Addr \cup {None}]
        /\ hooked \/ ~sock[k].stale => sockDst'[c] \in {None, x}
        /\ \A d \in Cookie \ {c} : sockDst'[d] = sockDst[d]
    BY <1>2, <2>1
  <2>4. QED
    BY <1>1, <2>1, <2>2, <2>3, SynKeepsInv, UnroutedKeepsInv
<1>5. QED
  BY <1>3, <1>4

\* A refused connect leaves nothing behind.
LEMMA RefusedKeepsInv ==
  ASSUME PolicyInv, NEW k \in Slot, ConnectRefused(k)
  PROVE  PolicyInv'
<1>1. /\ sock[k] # None /\ sockHost' = [sockHost EXCEPT ![sock[k].cookie] = None]
      /\ UNCHANGED <<sock, cookies, sni, sockDst, connIp, unseen, hooked, stops, audit>>
  BY DEF ConnectRefused, IsIn, config
<1>2. /\ sockHost' \in [Cookie -> Host \cup {None}] /\ sockHost'[sock[k].cookie] = None
      /\ \A d \in Cookie \ {sock[k].cookie} : sockHost'[d] = sockHost[d]
  BY <1>1, SocketFacts
<1>3. SlotInv(k)'
  BY <1>1, <1>2, SocketFacts
     DEF SlotInv, HostOK, DstOK, Forgotten, NotUpYet, SniOK, SlotClean, ClientOK, CallOK,
         HasDescriptor, IsIn
<1>4. QED
  BY <1>1, <1>2, <1>3, SocketFacts, SocketStep

\* The connection is established.
LEMMA EstablishKeepsInv ==
  ASSUME PolicyInv, NEW k \in Slot, Establish(k)
  PROVE  PolicyInv'
<1> DEFINE r == [sock[k] EXCEPT !.state = "up"]
<1>1. /\ sock[k] # None /\ sock[k].state = "syn" /\ sock' = [sock EXCEPT ![k] = r]
      /\ UNCHANGED <<cookies, sni, sockHost, sockDst, connIp, unseen, hooked, stops, audit>>
  BY DEF Establish, IsIn, maps, config
<1>2. /\ r \in SocketVal /\ r.cookie = sock[k].cookie /\ r.state = "up" /\ r.via = sock[k].via
      /\ r.dst = sock[k].dst /\ r.hellos = sock[k].hellos /\ r.client = sock[k].client
      /\ r.evicted = sock[k].evicted /\ r.call = sock[k].call /\ r.stale = sock[k].stale
  <2>1. sock[k] \in SocketVal
    BY <1>1, SocketFacts
  <2>2. r \in SocketVal
    BY <2>1 DEF SocketVal
  <2>3. /\ r.cookie = sock[k].cookie /\ r.state = "up" /\ r.via = sock[k].via
        /\ r.dst = sock[k].dst /\ r.hellos = sock[k].hellos /\ r.client = sock[k].client
        /\ r.evicted = sock[k].evicted /\ r.call = sock[k].call /\ r.stale = sock[k].stale
    BY <1>1, <2>1 DEF SocketVal
  <2>4. QED
    BY <2>2, <2>3
<1> HIDE DEF r
<1>3. /\ sock' \in [Slot -> SocketVal \cup {None}] /\ sock'[k] = r /\ r # None
      /\ \A j \in Slot \ {k} : sock'[j] = sock[j]
  BY <1>1, <1>2, SocketFacts
<1>4. SlotInv(k)'
  BY <1>1, <1>2, <1>3, SocketFacts
     DEF SlotInv, HostOK, DstOK, Forgotten, NotUpYet, SniOK, SlotClean, ClientOK, CallOK,
         HasDescriptor, IsIn
<1>5. QED
  BY <1>1, <1>2, <1>3, <1>4, SocketFacts, SocketStep

\* connect() returns: what it records is a client's descriptor, and an open one
\* unless it is marked.
LEMMA ReturnsKeepsInv ==
  ASSUME PolicyInv, NEW k \in Slot, NEW recorded \in BOOLEAN, ConnectReturns(k, recorded)
  PROVE  PolicyInv'
<1> DEFINE closed == sock[k].call = "closed"
           r == [sock[k] EXCEPT !.call = "none", !.state = IF closed THEN "fin" ELSE sock[k].state]
<1>1. /\ sock[k] # None /\ sock[k].call # "none" /\ sock' = [sock EXCEPT ![k] = r]
      /\ UNCHANGED <<cookies, sni, sockHost, sockDst, hooked, stops, audit>>
  <2>1. sock' = [sock EXCEPT ![k] = r]
    BY DEF ConnectReturns
  <2>2. QED
    BY <2>1 DEF ConnectReturns, config
<1>2. /\ r \in SocketVal /\ r.cookie = sock[k].cookie /\ r.via = sock[k].via
      /\ r.state = IF closed THEN "fin" ELSE sock[k].state
      /\ r.dst = sock[k].dst /\ r.hellos = sock[k].hellos /\ r.client = sock[k].client
      /\ r.evicted = sock[k].evicted /\ r.call = "none" /\ r.stale = sock[k].stale
  <2>1. sock[k] \in SocketVal
    BY <1>1, SocketFacts
  <2>2. r \in SocketVal
    BY <2>1 DEF SocketVal
  <2>3. /\ r.cookie = sock[k].cookie /\ r.via = sock[k].via
        /\ r.state = IF closed THEN "fin" ELSE sock[k].state
        /\ r.dst = sock[k].dst /\ r.hellos = sock[k].hellos /\ r.client = sock[k].client
        /\ r.evicted = sock[k].evicted /\ r.call = "none" /\ r.stale = sock[k].stale
    BY <1>1, <2>1 DEF SocketVal
  <2>4. QED
    BY <2>2, <2>3
<1>3. /\ sock[k].client /\ sock[k].state \in {"syn", "up"}
  BY <1>1, SocketFacts DEF SlotInv, CallOK
<1>4. /\ connIp' \subseteq Slot /\ unseen' \subseteq connIp'
      /\ \A j \in Slot \ {k} : (j \in connIp' <=> j \in connIp) /\ (j \in unseen' <=> j \in unseen)
      /\ k \in connIp' \ unseen' => (k \in connIp \ unseen) \/ ~closed
  BY <1>1, SocketFacts DEF ConnectReturns
<1> HIDE DEF r
<1>5. /\ sock' \in [Slot -> SocketVal \cup {None}] /\ sock'[k] = r /\ r # None
      /\ \A j \in Slot \ {k} : sock'[j] = sock[j]
  BY <1>1, <1>2, SocketFacts
<1>6. ClientOK(k)'
  <2>1. k \in connIp \ unseen => ~closed
    BY <1>1, SocketFacts DEF SlotInv, ClientOK, HasDescriptor
  <2>2. QED
    BY <1>2, <1>3, <1>4, <1>5, <2>1 DEF ClientOK, HasDescriptor
<1>7. SlotInv(k)'
  BY <1>1, <1>2, <1>3, <1>5, <1>6, SocketFacts
     DEF SlotInv, HostOK, DstOK, Forgotten, NotUpYet, SniOK, SlotClean, CallOK, IsIn
<1>8. QED
  BY <1>1, <1>2, <1>4, <1>5, <1>7, SocketFacts, SocketStep

\* The descriptor is closed: conn_ip_map forgets it, or it is marked.
LEMMA CloseKeepsInv ==
  ASSUME PolicyInv, NEW k \in Slot, Close(k) \/ CloseUnseen(k)
  PROVE  PolicyInv'
<1> DEFINE r == Released(k)
<1>1. /\ HasDescriptor(k) /\ sock[k] # None /\ sock' = [sock EXCEPT ![k] = r]
      /\ UNCHANGED <<cookies, sni, sockHost, sockDst, hooked, stops, audit>>
  BY DEF Close, CloseUnseen, HasDescriptor, config
<1>2. /\ connIp' \subseteq Slot /\ unseen' \subseteq connIp'
      /\ \A j \in Slot \ {k} : (j \in connIp' <=> j \in connIp) /\ (j \in unseen' <=> j \in unseen)
      /\ k \notin connIp' \ unseen'
  BY <1>1, SocketFacts DEF Close, CloseUnseen
<1>3. /\ r \in SocketVal \cup {None}
      /\ r # None =>
           /\ r.cookie = sock[k].cookie /\ r.via = sock[k].via /\ r.dst = sock[k].dst
           /\ r.hellos = sock[k].hellos /\ r.client = sock[k].client
           /\ r.evicted = sock[k].evicted /\ r.stale = sock[k].stale
           /\ \/ r.call = "closed" /\ r.state = sock[k].state /\ sock[k].call # "none"
              \/ r.call = "none" /\ r.state = "fin"
      /\ r = None => sock[k].state = "closed"
  <2>1. sock[k] \in SocketVal
    BY <1>1, SocketFacts
  <2>2. CASE sock[k].call = "blocked"
    BY <2>1, <2>2, NoneAssumption DEF Released, SocketVal
  <2>3. CASE sock[k].call # "blocked" /\ sock[k].state = "closed"
    BY <2>3 DEF Released
  <2>4. CASE sock[k].call # "blocked" /\ sock[k].state # "closed"
    BY <1>1, <2>1, <2>4, NoneAssumption DEF Released, HasDescriptor, SocketVal
  <2>5. QED
    BY <2>2, <2>3, <2>4
<1> HIDE DEF r
<1>4. /\ sock' \in [Slot -> SocketVal \cup {None}] /\ sock'[k] = r
      /\ \A j \in Slot \ {k} : sock'[j] = sock[j]
  BY <1>1, <1>3, SocketFacts
<1>5. sock[k].call # "closed" /\ SlotInv(k)
  BY <1>1, SocketFacts DEF HasDescriptor
<1>6. SlotInv(k)'
  <2>1. CASE r = None
    <3>1. sni[k] = None
      BY <1>1, <1>3, <1>5, <2>1 DEF SlotInv, Forgotten, IsIn
    <3>2. QED
      BY <1>1, <1>2, <1>4, <2>1, <3>1
         DEF SlotInv, HostOK, DstOK, Forgotten, NotUpYet, SniOK, SlotClean, ClientOK, CallOK, IsIn
  <2>2. CASE r # None
    <3>1. (HostOK(k) /\ DstOK(k) /\ SlotClean(k) /\ ClientOK(k))'
      BY <1>1, <1>2, <1>3, <1>4, <1>5, <2>2 DEF SlotInv, HostOK, DstOK, SlotClean, ClientOK
    <3>2. (Forgotten(k) /\ NotUpYet(k) /\ CallOK(k))'
      BY <1>1, <1>3, <1>4, <1>5, <2>2 DEF SlotInv, Forgotten, NotUpYet, CallOK, IsIn
    <3>3. SniOK(k)'
      BY <1>1, <1>3, <1>4, <1>5, <2>2 DEF SlotInv, SniOK
    <3>4. QED
      BY <3>1, <3>2, <3>3 DEF SlotInv
  <2>3. QED
    BY <2>1, <2>2
<1>7. QED
  BY <1>1, <1>2, <1>3, <1>4, <1>6, SocketFacts, SocketStep

\* A failed connect, or the end of a connection: its entries are forgotten.
LEMMA ForgetKeepsInv ==
  ASSUME PolicyInv, NEW k \in Slot, ConnectFails(k) \/ Disconnect(k) \/ Closed(k)
  PROVE  PolicyInv'
<1> DEFINE c == sock[k].cookie
<1>1. /\ sock[k] # None /\ ForgetSocket(k)
      /\ UNCHANGED <<cookies, connIp, unseen, hooked, stops, audit>>
  BY DEF ConnectFails, Disconnect, Closed, IsIn, config
<1>2. /\ sni' \in [Slot -> SniVal \cup {None}] /\ sni'[k] = None
      /\ \A j \in Slot \ {k} : sni'[j] = sni[j]
  BY <1>1, SocketFacts DEF ForgetSocket
<1>3. /\ sockHost' \in [Cookie -> Host \cup {None}] /\ sockHost'[c] = None
      /\ sockDst' \in [Cookie -> Addr \cup {None}] /\ sockDst'[c] = None
      /\ \A d \in Cookie \ {c} : sockHost'[d] = sockHost[d] /\ sockDst'[d] = sockDst[d]
  BY <1>1, SocketFacts DEF ForgetSocket
<1>4. ASSUME NEW r \in SocketVal, sock' = [sock EXCEPT ![k] = r], r.cookie = c,
             r.state = "closed", r.hellos = {}, r.client, r.call = "none", HasDescriptor(k)
      PROVE  PolicyInv'
  <2>1. /\ sock' \in [Slot -> SocketVal \cup {None}] /\ sock'[k] = r /\ r # None
        /\ \A j \in Slot \ {k} : sock'[j] = sock[j]
    BY <1>1, <1>4, SocketFacts
  <2>2. SlotInv(k)'
    BY <1>1, <1>2, <1>3, <1>4, <2>1, SocketFacts
       DEF SlotInv, HostOK, DstOK, Forgotten, NotUpYet, SniOK, SlotClean, ClientOK, CallOK,
           HasDescriptor, IsIn
  <2>3. QED
    BY <1>1, <1>2, <1>3, <1>4, <2>1, <2>2, SocketFacts, SocketStep
<1>5. ASSUME sock' = [sock EXCEPT ![k] = None], ~HasDescriptor(k)
      PROVE  PolicyInv'
  <2>1. /\ sock' \in [Slot -> SocketVal \cup {None}] /\ sock'[k] = None
        /\ \A j \in Slot \ {k} : sock'[j] = sock[j]
    BY <1>1, <1>5, SocketFacts
  <2>2. SlotInv(k)'
    BY <1>1, <1>2, <1>5, <2>1, SocketFacts
       DEF SlotInv, HostOK, DstOK, Forgotten, NotUpYet, SniOK, SlotClean, ClientOK, CallOK, IsIn
  <2>3. QED
    BY <1>1, <1>2, <1>3, <2>1, <2>2, SocketFacts, SocketStep
<1>6. sock[k] \in SocketVal /\ SlotInv(k)
  BY <1>1, SocketFacts
<1>7. CASE ConnectFails(k)
  <2> DEFINE r == [sock[k] EXCEPT !.state = "closed", !.call = "none", !.stale = FALSE]
  <2>1. /\ sock[k].state = "syn" /\ sock[k].client /\ sock[k].hellos = {}
        /\ sock' = [sock EXCEPT ![k] = IF sock[k].call = "closed" THEN None ELSE r]
    BY <1>6, <1>7 DEF ConnectFails, SlotInv, NotUpYet, IsIn
  <2>2. /\ r \in SocketVal /\ r.cookie = c /\ r.state = "closed" /\ r.hellos = {} /\ r.client
        /\ r.call = "none"
    BY <1>6, <2>1 DEF SocketVal
  <2> HIDE DEF r
  <2>3. CASE sock[k].call = "closed"
    BY <1>5, <2>1, <2>3 DEF HasDescriptor
  <2>4. CASE sock[k].call # "closed"
    BY <1>1, <1>4, <2>1, <2>2, <2>4 DEF HasDescriptor
  <2>5. QED
    BY <2>3, <2>4
<1>8. CASE Disconnect(k)
  <2> DEFINE r == [sock[k] EXCEPT !.state = "closed", !.hellos = {}, !.stale = FALSE]
  <2>1. /\ sock[k].state = "up" /\ sock[k].client /\ sock[k].call = "none"
        /\ sock' = [sock EXCEPT ![k] = r]
    BY <1>8 DEF Disconnect, IsIn
  <2>2. /\ r \in SocketVal /\ r.cookie = c /\ r.state = "closed" /\ r.hellos = {} /\ r.client
        /\ r.call = "none"
    BY <1>6, <2>1 DEF SocketVal
  <2> HIDE DEF r
  <2>3. QED
    BY <1>1, <1>4, <2>1, <2>2 DEF HasDescriptor
<1>9. CASE Closed(k)
  BY <1>5, <1>9 DEF Closed, IsIn, HasDescriptor
<1>10. QED
  BY <1>7, <1>8, <1>9

\* What the kprobe makes of a record, given what it knows of the connection.
LEMMA CaptureOK ==
  ASSUME NEW m \in Hello, NEW cur \in SniVal \cup {None}, NEW hs, NEW evicted \in BOOLEAN,
         cur = None => evicted \/ hs = {},
         cur # None /\ cur.status = "seen" =>
           cur.host \in hs /\ (evicted \/ hs \subseteq {cur.host, "other"})
  PROVE  /\ Capture(cur, m) \in SniVal
         /\ Capture(cur, m).status = "seen" =>
              /\ Capture(cur, m).host \in hs \cup {m}
              /\ evicted \/ hs \cup {m} \subseteq {Capture(cur, m).host, "other"}
<1>1. CASE cur = None
  <2>1. Decided(m) \in SniVal /\ (Decided(m).status = "seen" => Decided(m).host = m)
    BY DEF Decided, SniVal
  <2>2. Capture(cur, m) = Decided(m)
    BY <1>1 DEF Capture
  <2>3. QED
    BY <1>1, <2>1, <2>2
<1>2. CASE cur # None /\ cur.status = "seen" /\ m # "other" /\ m # cur.host
  <2>1. Capture(cur, m) = [cur EXCEPT !.status = "mismatch"] /\ cur \in SniVal
    BY <1>2 DEF Capture
  <2>2. Capture(cur, m) \in SniVal /\ Capture(cur, m).status = "mismatch"
    BY <2>1 DEF SniVal
  <2>3. QED
    BY <2>2
<1>3. CASE cur # None /\ ~(cur.status = "seen" /\ m # "other" /\ m # cur.host)
  <2>1. Capture(cur, m) = cur /\ cur \in SniVal
    BY <1>3 DEF Capture
  <2>2. QED
    BY <1>3, <2>1
<1>4. QED
  BY <1>1, <1>2, <1>3

\* A handshake record is written: sni_state follows what the connection sent.
LEMMA HandshakeKeepsInv ==
  ASSUME PolicyInv, NEW k \in Slot, NEW m \in Hello, SendHandshake(k, m)
  PROVE  PolicyInv'
<1> DEFINE r == [sock[k] EXCEPT !.hellos = @ \cup {m}]
           v == Capture(sni[k], m)
<1>1. /\ sock[k] # None /\ sock[k].state = "up" /\ sock' = [sock EXCEPT ![k] = r]
      /\ sni' = [sni EXCEPT ![k] = v]
      /\ UNCHANGED <<cookies, sockHost, sockDst, connIp, unseen, hooked, stops, audit>>
  BY DEF SendHandshake, IsIn, config
<1>2. /\ r \in SocketVal /\ r.cookie = sock[k].cookie /\ r.state = "up" /\ r.via = sock[k].via
      /\ r.dst = sock[k].dst /\ r.hellos = sock[k].hellos \cup {m} /\ r.client = sock[k].client
      /\ r.evicted = sock[k].evicted /\ r.call = sock[k].call /\ r.stale = sock[k].stale
  <2>1. sock[k] \in SocketVal
    BY <1>1, SocketFacts
  <2>2. r \in SocketVal
    BY <2>1 DEF SocketVal
  <2>3. /\ r.cookie = sock[k].cookie /\ r.state = "up" /\ r.via = sock[k].via
        /\ r.dst = sock[k].dst /\ r.hellos = sock[k].hellos \cup {m} /\ r.client = sock[k].client
        /\ r.evicted = sock[k].evicted /\ r.call = sock[k].call /\ r.stale = sock[k].stale
    BY <1>1, <2>1 DEF SocketVal
  <2>4. QED
    BY <2>2, <2>3
<1>3. sni[k] \in SniVal \cup {None} /\ SniOK(k)
  BY <1>1, SocketFacts DEF SlotInv
<1>4. /\ v \in SniVal
      /\ v.status = "seen" =>
           /\ v.host \in r.hellos
           /\ r.evicted \/ r.hellos \subseteq {v.host, "other"}
  <2>1. sock[k].evicted \in BOOLEAN
    BY <1>1, SocketFacts DEF SocketVal
  <2>2. QED
    BY <1>1, <1>2, <1>3, <2>1, CaptureOK DEF SniOK
<1> HIDE DEF r, v
<1>5. /\ sock' \in [Slot -> SocketVal \cup {None}] /\ sock'[k] = r /\ r # None
      /\ \A j \in Slot \ {k} : sock'[j] = sock[j]
  BY <1>1, <1>2, SocketFacts
<1>6. /\ sni' \in [Slot -> SniVal \cup {None}] /\ sni'[k] = v /\ v # None
      /\ \A j \in Slot \ {k} : sni'[j] = sni[j]
  BY <1>1, <1>4, SocketFacts
<1>7. SlotInv(k)'
  BY <1>1, <1>2, <1>4, <1>5, <1>6, SocketFacts
     DEF SlotInv, HostOK, DstOK, Forgotten, NotUpYet, SniOK, SlotClean, ClientOK, CallOK,
         HasDescriptor, IsIn
<1>8. QED
  BY <1>1, <1>2, <1>5, <1>6, <1>7, SocketFacts, SocketStep

\* An entry of sni_state is evicted, and the socket it was about marked.
LEMMA EvictSniKeepsInv ==
  ASSUME PolicyInv, NEW k \in Slot, EvictSni(k)
  PROVE  PolicyInv'
<1> DEFINE r == [sock[k] EXCEPT !.evicted = TRUE]
<1>1. /\ sock[k] # None
  BY DEF EvictSni, PolicyInv, SlotInv, SlotClean
<1>2. /\ sock' = [sock EXCEPT ![k] = r] /\ sni' = [sni EXCEPT ![k] = None]
      /\ UNCHANGED <<cookies, sockHost, sockDst, connIp, unseen, hooked, stops, audit>>
  BY <1>1 DEF EvictSni, config
<1>3. /\ r \in SocketVal /\ r.cookie = sock[k].cookie /\ r.state = sock[k].state /\ r.via = sock[k].via
      /\ r.dst = sock[k].dst /\ r.hellos = sock[k].hellos /\ r.client = sock[k].client /\ r.evicted
      /\ r.call = sock[k].call /\ r.stale = sock[k].stale
  <2>1. sock[k] \in SocketVal
    BY <1>1, SocketFacts
  <2>2. r \in SocketVal
    BY <2>1 DEF SocketVal
  <2>3. /\ r.cookie = sock[k].cookie /\ r.state = sock[k].state /\ r.via = sock[k].via
        /\ r.dst = sock[k].dst /\ r.hellos = sock[k].hellos /\ r.client = sock[k].client /\ r.evicted
        /\ r.call = sock[k].call /\ r.stale = sock[k].stale
    BY <1>1, <2>1 DEF SocketVal
  <2>4. QED
    BY <2>2, <2>3
<1> HIDE DEF r
<1>4. /\ sock' \in [Slot -> SocketVal \cup {None}] /\ sock'[k] = r /\ r # None
      /\ \A j \in Slot \ {k} : sock'[j] = sock[j]
  BY <1>1, <1>2, <1>3, SocketFacts
<1>5. /\ sni' \in [Slot -> SniVal \cup {None}] /\ sni'[k] = None
      /\ \A j \in Slot \ {k} : sni'[j] = sni[j]
  BY <1>1, <1>2, SocketFacts
<1>6. SlotInv(k)'
  BY <1>1, <1>2, <1>3, <1>4, <1>5, SocketFacts
     DEF SlotInv, HostOK, DstOK, Forgotten, NotUpYet, SniOK, SlotClean, ClientOK, CallOK,
         HasDescriptor, IsIn
<1>7. QED
  BY <1>1, <1>2, <1>3, <1>4, <1>5, <1>6, SocketFacts, SocketStep

\* An entry of vip_sock_host or vip_sock_dst is evicted: whose it was, it can
\* only be missing.
LEMMA EvictKeepsInv ==
  ASSUME PolicyInv, NEW c \in Cookie, EvictHost(c) \/ EvictDst(c)
  PROVE  PolicyInv'
<1>1. /\ UNCHANGED <<sock, cookies, sni, connIp, unseen, hooked, stops, audit>>
      /\ sockHost' = sockHost \/ sockHost' = [sockHost EXCEPT ![c] = None]
      /\ sockDst' = sockDst \/ sockDst' = [sockDst EXCEPT ![c] = None]
  BY DEF EvictHost, EvictDst, config
<1>2. /\ sockHost' \in [Cookie -> Host \cup {None}] /\ sockDst' \in [Cookie -> Addr \cup {None}]
      /\ \A d \in Cookie : sockHost'[d] \in {None, sockHost[d]} /\ sockDst'[d] \in {None, sockDst[d]}
  BY <1>1 DEF PolicyInv, TypeOK
<1>3. TypeOK'
  BY <1>1, <1>2 DEF PolicyInv, TypeOK
<1>4. CookieOK'
  BY <1>1, <1>2 DEF PolicyInv, CookieOK
<1>5. ASSUME NEW k \in Slot PROVE SlotInv(k)'
  <2>1. SlotInv(k) /\ (sock[k] # None => sock[k].cookie \in Cookie)
    BY SocketFacts DEF PolicyInv
  <2>2. (HostOK(k) /\ DstOK(k) /\ Forgotten(k))'
    BY <1>1, <1>2, <2>1 DEF SlotInv, HostOK, DstOK, Forgotten, IsIn
  <2>3. (NotUpYet(k) /\ SniOK(k) /\ SlotClean(k) /\ ClientOK(k) /\ CallOK(k))'
    BY <1>1, <2>1 DEF SlotInv, NotUpYet, SniOK, SlotClean, ClientOK, CallOK, HasDescriptor, IsIn
  <2>4. QED
    BY <2>2, <2>3 DEF SlotInv
<1>6. QED
  BY <1>3, <1>4, <1>5 DEF PolicyInv

\* An entry of conn_ip_map is evicted.
LEMMA EvictConnKeepsInv ==
  ASSUME PolicyInv, NEW k \in Slot, EvictConn(k)
  PROVE  PolicyInv'
<1>1. /\ connIp' = connIp \ {k} /\ unseen' = unseen \ {k}
      /\ UNCHANGED <<sock, cookies, sni, sockHost, sockDst, hooked, stops, audit>>
  BY DEF EvictConn, config
<1>2. TypeOK' /\ CookieOK'
  BY <1>1 DEF PolicyInv, TypeOK, CookieOK
<1>3. ASSUME NEW j \in Slot PROVE SlotInv(j)'
  BY <1>1 DEF PolicyInv, SlotInv, HostOK, DstOK, Forgotten, NotUpYet, SniOK, SlotClean, ClientOK,
              CallOK, HasDescriptor, IsIn
<1>4. QED
  BY <1>2, <1>3 DEF PolicyInv

\* The controller is back with empty maps.
LEMMA RestartKeepsInv ==
  ASSUME PolicyInv, Restart
  PROVE  PolicyInv'
<1> DEFINE r(k) == [sock[k] EXCEPT !.evicted = TRUE, !.stale = FALSE, !.call = "none",
                                   !.state = IF sock[k].call = "closed" THEN "fin" ELSE sock[k].state]
<1>1. /\ UNCHANGED <<cookies, stops, audit>> /\ hooked' = TRUE /\ connIp' = {} /\ unseen' = {}
      /\ sni' = [k \in Slot |-> None]
      /\ sockHost' = [c \in Cookie |-> None] /\ sockDst' = [c \in Cookie |-> None]
      /\ sock' = [k \in Slot |-> IF sock[k] = None THEN None ELSE r(k)]
  BY DEF Restart
<1>2. ASSUME NEW k \in Slot, sock[k] # None
      PROVE  /\ r(k) \in SocketVal /\ r(k).cookie = sock[k].cookie
             /\ r(k).state \in {"fin", sock[k].state} /\ r(k).call = "none"
             /\ r(k).hellos = sock[k].hellos /\ r(k).client = sock[k].client /\ r(k).evicted
  <2>1. sock[k] \in SocketVal
    BY <1>2, SocketFacts
  <2>2. r(k) \in SocketVal
    BY <2>1 DEF SocketVal
  <2>3. /\ r(k).cookie = sock[k].cookie
        /\ r(k).state \in {"fin", sock[k].state} /\ r(k).call = "none"
        /\ r(k).hellos = sock[k].hellos /\ r(k).client = sock[k].client /\ r(k).evicted
    BY <1>1, <2>1 DEF SocketVal
  <2>4. QED
    BY <2>2, <2>3
<1> HIDE DEF r
<1>3. /\ sock' \in [Slot -> SocketVal \cup {None}]
      /\ \A k \in Slot : sock'[k] # None => sock[k] # None /\ sock'[k] = r(k)
  BY <1>1, <1>2
<1>4. TypeOK'
  <2>1. sni' \in [Slot -> SniVal \cup {None}]
    BY <1>1
  <2>2. sockHost' \in [Cookie -> Host \cup {None}] /\ sockDst' \in [Cookie -> Addr \cup {None}]
    BY <1>1
  <2>3. QED
    BY <1>1, <1>3, <2>1, <2>2 DEF PolicyInv, TypeOK
<1>5. CookieOK'
  BY <1>1, <1>2, <1>3 DEF PolicyInv, CookieOK
<1>6. ASSUME NEW k \in Slot PROVE SlotInv(k)'
  <2>1. SlotInv(k) /\ (sock[k] # None => sock[k].cookie \in Cookie)
    BY SocketFacts DEF PolicyInv
  <2>2. sock'[k] # None => sock'[k].cookie \in Cookie
    BY <1>2, <1>3, <2>1
  <2>3. (HostOK(k) /\ DstOK(k) /\ Forgotten(k))'
    BY <1>1, <2>2 DEF HostOK, DstOK, Forgotten, IsIn
  <2>4. NotUpYet(k)'
    BY <1>2, <1>3, <2>1 DEF SlotInv, NotUpYet, IsIn
  <2>5. (SniOK(k) /\ SlotClean(k) /\ ClientOK(k) /\ CallOK(k))'
    BY <1>1, <1>2, <1>3 DEF SniOK, SlotClean, ClientOK, CallOK
  <2>6. QED
    BY <2>3, <2>4, <2>5 DEF SlotInv
<1>7. QED
  BY <1>4, <1>5, <1>6 DEF PolicyInv

\* Every step of the kernel, the hooks and the controller keeps PolicyInv.
LEMMA StepInv == PolicyInv /\ [Next]_vars => PolicyInv'
<1> SUFFICES ASSUME PolicyInv, [Next]_vars
             PROVE  PolicyInv'
  OBVIOUS
<1>1. CASE DetachHooks \/ UNCHANGED vars
  <2>1. /\ UNCHANGED <<sock, cookies, sni, sockHost, sockDst, connIp, unseen, audit>>
        /\ hooked' \in BOOLEAN /\ stops' \in 0 .. MaxStops
    <3>1. hooked \in BOOLEAN /\ stops \in 0 .. MaxStops
      BY DEF PolicyInv, TypeOK
    <3>2. CASE DetachHooks
      <4>1. stops < MaxStops /\ stops' = stops + 1 /\ hooked' = FALSE
        BY <3>2 DEF DetachHooks
      <4>2. stops' \in 0 .. MaxStops
        BY <3>1, <4>1, SocketPolicyAssumption
      <4>3. UNCHANGED <<sock, cookies, sni, sockHost, sockDst, connIp, unseen, audit>>
        BY <3>2 DEF DetachHooks, maps
      <4>4. QED
        BY <4>1, <4>2, <4>3
    <3>3. CASE UNCHANGED vars
      BY <3>1, <3>3 DEF vars, maps, config
    <3>4. QED
      BY <1>1, <3>2, <3>3
  <2>2. TypeOK' /\ CookieOK'
    BY <2>1 DEF PolicyInv, TypeOK, CookieOK
  <2>3. ASSUME NEW k \in Slot PROVE SlotInv(k)'
    BY <2>1 DEF PolicyInv, SlotInv, HostOK, DstOK, Forgotten, NotUpYet, SniOK, SlotClean, ClientOK,
                CallOK, HasDescriptor, IsIn
  <2>4. QED
    BY <2>2, <2>3 DEF PolicyInv
<1>2. CASE \E k \in Slot : Socket(k) \/ Accept(k)
  BY <1>2, NewSocketKeepsInv
<1>3. CASE \E k \in Slot : \/ \E h \in Host : ConnectRedirected(k, h)
                           \/ \E x \in Addr : ConnectDirect(k, x)
  BY <1>3, ConnectKeepsInv
<1>4. CASE \E k \in Slot : ConnectRefused(k)
  BY <1>4, RefusedKeepsInv
<1>5. CASE \E k \in Slot : \/ Establish(k) \/ Close(k) \/ CloseUnseen(k)
                           \/ \E recorded \in BOOLEAN : ConnectReturns(k, recorded)
  BY <1>5, EstablishKeepsInv, CloseKeepsInv, ReturnsKeepsInv
<1>6. CASE \E k \in Slot : ConnectFails(k) \/ Disconnect(k) \/ Closed(k)
  BY <1>6, ForgetKeepsInv
<1>7. CASE \E k \in Slot, m \in Hello : SendHandshake(k, m)
  BY <1>7, HandshakeKeepsInv
<1>8. CASE \E k \in Slot : EvictSni(k) \/ EvictConn(k)
  BY <1>8, EvictSniKeepsInv, EvictConnKeepsInv
<1>9. CASE \E c \in Cookie : EvictHost(c) \/ EvictDst(c)
  BY <1>9, EvictKeepsInv
<1>10. CASE Restart
  BY <1>10, RestartKeepsInv
<1>11. QED
  BY <1>1, <1>2, <1>3, <1>4, <1>5, <1>6, <1>7, <1>8, <1>9, <1>10 DEF Next

----------------------------------------------------------------------------
\* PolicyInv holds throughout.
LEMMA InvHolds == Spec => []PolicyInv
BY InitInv, StepInv, PTL DEF Spec

\* The kernel's sockets and the maps keep their shapes.
THEOREM TypeCorrect == Spec => []TypeOK
BY InvHolds, InvImpliesProperties, PTL

\* A secret restricted to a host only leaves on a connection made through that
\* host's fake IP that, unless audited, named the host itself
\* (socket_filter_patches): no sequence of connects that fail after SYN_SENT,
\* reused addresses and descriptors, evictions and restarts lets an entry of
\* another connection count.  For the fake IP, but not for the ClientHello,
\* one case is excepted: a connect that failed before SYN_SENT, and a later
\* one on the same socket while the hooks are detached.
THEOREM HostRestrictionHolds == Spec => []KeptForHost
BY InvHolds, InvImpliesProperties, PTL

\* A secret restricted to an address only leaves on a connection to it
\* (vip_socket_check), with or without an entry in vip_sock_dst, but for the
\* same case.
THEOREM AddrRestrictionHolds == Spec => []KeptForAddr
BY InvHolds, InvImpliesProperties, PTL

\* conn_ip_map takes no accepted socket for a client's, unless a descriptor was
\* closed without close(), or while its connect() was under way
\* (tp_exit_connect, tp_enter_close).
THEOREM ServersAreSkipped == Spec => []ServersSkipped
BY InvHolds, InvImpliesProperties, PTL
=============================================================================
