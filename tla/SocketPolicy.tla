---------------------------- MODULE SocketPolicy ----------------------------
(***************************************************************************)
(* Which secrets may leave on which TCP socket (pkg/ebpf/bpf/tls_uprobe.c): *)
(* the connect hooks record the host and the destination of a socket, the  *)
(* SNI kprobe what its ClientHello named, the connect tracepoints which    *)
(* sockets are clients; socket_filter_patches decides from these maps.     *)
(*                                                                         *)
(* A socket lives in a slot: its struct sock address and its descriptor,   *)
(* both of which the kernel hands to the next socket.  Its cookie is its   *)
(* own.  A connect may fail, before or after SYN_SENT, and be tried again  *)
(* on the same socket; another thread may close the descriptor while       *)
(* connect() blocks; the kernel may evict an entry of an LRU map at any    *)
(* time, or close a descriptor without close() (exec, dup2, close_range,   *)
(* the end of the process before its id is reused); while the controller   *)
(* shuts down the connect hooks may go before the probes.                  *)
(*                                                                         *)
(* Left out: reads of user memory that fail; processes that are not        *)
(* tracked; the ports of secrets, which are compared like addresses.       *)
(***************************************************************************)
EXTENDS Naturals

CONSTANTS
  Slot,       \* struct sock addresses
  Host, Addr,
  RealOf,     \* the real address a connect to a host's fake IP goes to
  Backends,   \* where a socket load balancer may send a connect to an address
  Secret,
  SecretHost, \* the host a secret is restricted to, or None
  SecretAddr, \* the address a secret is restricted to, or None
  MaxSockets, \* bound: sockets ever created
  MaxStops,   \* bound: times the connect hooks go away
  None

Cookie == 1 .. MaxSockets

ASSUME SocketPolicyAssumption ==
  /\ RealOf \in [Host -> Addr]
  /\ Backends \in [Addr -> SUBSET Addr]
  /\ SecretHost \in [Secret -> Host \cup {None}]
  /\ SecretAddr \in [Secret -> Addr \cup {None}]
  /\ MaxSockets \in Nat /\ MaxStops \in Nat
  /\ None \notin Host /\ None \notin Addr

VARIABLES
  sock,      \* the sockets: what the kernel knows and what the wire saw
  cookies,   \* sockets created so far
  sni,       \* sni_state
  sockHost,  \* vip_sock_host
  sockDst,   \* vip_sock_dst
  connIp,    \* conn_ip_map: descriptors that went through connect()
  unseen,    \* those of connIp whose descriptor is closed already: not by
             \* close(), or before connect() returned
  hooked,    \* the connect hooks are attached
  stops,
  audit      \* sni_check_mode is audit

maps == <<sni, sockHost, sockDst, connIp, unseen>>
config == <<hooked, stops, audit>>
vars == <<sock, cookies, maps, config>>

\* What a handshake record is: a ClientHello naming a host, one with
\* encrypted SNI, or another message, whose record starts alike.
Hello == Host \cup {"ech", "other"}

\* via, dst and peer are of the current connection: the host of the fake IP
\* it was made to, its destination behind the connect hooks, and behind a
\* load balancer.  hellos is the handshake records written on it so far.
\* evicted: the entry its ClientHello left in sni_state is gone.
\* call: whether connect() is under way (connect_pending), and if so, whether
\* the descriptor is closed already.  stale: a hooked connect failed before
\* SYN_SENT, and no hooked connect and no TCP_CLOSE came since.
NewSocket(c) ==
  [cookie |-> c, state |-> "closed", client |-> TRUE, via |-> None, dst |-> None,
   peer |-> None, hellos |-> {}, evicted |-> FALSE, call |-> "none", stale |-> FALSE]

Init ==
  /\ sock = [k \in Slot |-> None]
  /\ cookies = 0
  /\ sni = [k \in Slot |-> None]
  /\ sockHost = [c \in Cookie |-> None]
  /\ sockDst = [c \in Cookie |-> None]
  /\ connIp = {}
  /\ unseen = {}
  /\ hooked = TRUE
  /\ stops = 0
  /\ audit \in BOOLEAN

IsIn(k, state) == sock[k] # None /\ sock[k].state = state

Socket(k) ==
  /\ sock[k] = None /\ cookies < MaxSockets
  /\ cookies' = cookies + 1
  /\ sock' = [sock EXCEPT ![k] = NewSocket(cookies + 1)]
  /\ UNCHANGED <<maps, config>>

\* accept() returns a socket that never was connected.
Accept(k) ==
  /\ sock[k] = None /\ cookies < MaxSockets
  /\ cookies' = cookies + 1
  /\ sock' = [sock EXCEPT ![k] = [NewSocket(cookies + 1) EXCEPT !.state = "up", !.client = FALSE]]
  /\ UNCHANGED <<maps, config>>

------------------------------------------------------------------------------
(* connect(): the hooks, then the connect itself.                            *)

\* The hook let the connect to dst pass: SYN_SENT, where
\* tp_inet_sock_set_state forgets the SNI.
Syn(k, via, dst) ==
  /\ \E peer \in Backends[dst] :
       sock' = [sock EXCEPT ![k] =
                  [@ EXCEPT !.state = "syn", !.via = via, !.dst = dst, !.peer = peer,
                            !.hellos = {}, !.evicted = FALSE, !.call = "blocked",
                            !.stale = IF hooked THEN FALSE ELSE sock[k].stale]]
  /\ sni' = [sni EXCEPT ![k] = None]
  /\ UNCHANGED <<cookies, connIp, unseen, config>>

\* The hook let it pass, but there is no route: the socket stays as it was.
Unrouted(k) ==
  /\ sock' = [sock EXCEPT ![k].stale = TRUE]
  /\ UNCHANGED <<cookies, sni, connIp, unseen, config>>

\* vip_redirect of a connect to the fake IP of h, and vip_record_dst.
ConnectRedirected(k, h) ==
  /\ IsIn(k, "closed") /\ hooked
  /\ sockHost' = [sockHost EXCEPT ![sock[k].cookie] = h]
  /\ sockDst' = [sockDst EXCEPT ![sock[k].cookie] = RealOf[h]]
  /\ Syn(k, h, RealOf[h]) \/ Unrouted(k)

\* A fake IP without a usable real address: EPERM.
ConnectRefused(k) ==
  /\ IsIn(k, "closed") /\ hooked
  /\ sockHost' = [sockHost EXCEPT ![sock[k].cookie] = None]
  /\ UNCHANGED <<sock, cookies, sni, sockDst, connIp, unseen, config>>

\* Any other address: vip_forget_host and vip_record_dst, if the hook runs.
ConnectDirect(k, x) ==
  /\ IsIn(k, "closed")
  /\ sockHost' = IF hooked THEN [sockHost EXCEPT ![sock[k].cookie] = None] ELSE sockHost
  /\ sockDst' = IF hooked THEN [sockDst EXCEPT ![sock[k].cookie] = x] ELSE sockDst
  /\ Syn(k, None, x) \/ (hooked /\ Unrouted(k))

Establish(k) ==
  /\ IsIn(k, "syn")
  /\ sock' = [sock EXCEPT ![k].state = "up"]
  /\ UNCHANGED <<cookies, maps, config>>

\* connect() returns to user space: tp_exit_connect records the descriptor,
\* open or not, unless a signal interrupted the call.
ConnectReturns(k, recorded) ==
  /\ sock[k] # None /\ sock[k].call # "none"
  /\ LET closed == sock[k].call = "closed"
     IN /\ sock' = [sock EXCEPT ![k] =
                     [@ EXCEPT !.call = "none", !.state = IF closed THEN "fin" ELSE sock[k].state]]
        /\ connIp' = IF recorded THEN connIp \cup {k} ELSE connIp
        /\ unseen' = IF ~recorded THEN unseen
                     ELSE IF closed THEN unseen \cup {k} ELSE unseen \ {k}
  /\ UNCHANGED <<cookies, sni, sockHost, sockDst, config>>

\* Mutant: vip_sock_dst is not cleaned up.
ForgetSniAndHost(k) ==
  /\ sni' = [sni EXCEPT ![k] = None]
  /\ sockHost' = [sockHost EXCEPT ![sock[k].cookie] = None]
  /\ UNCHANGED sockDst

\* TCP_CLOSE in tp_inet_sock_set_state.
ForgetSocket(k) ==
  /\ sni' = [sni EXCEPT ![k] = None]
  /\ sockHost' = [sockHost EXCEPT ![sock[k].cookie] = None]
  /\ sockDst' = [sockDst EXCEPT ![sock[k].cookie] = None]

\* The connect fails: the socket can connect again, if it is still open.
ConnectFails(k) ==
  /\ IsIn(k, "syn")
  /\ sock' = [sock EXCEPT ![k] =
                IF @.call = "closed" THEN None
                ELSE [@ EXCEPT !.state = "closed", !.call = "none", !.stale = FALSE]]
  /\ ForgetSocket(k)
  /\ UNCHANGED <<cookies, connIp, unseen, config>>

\* The application dissolves the connection, to use the socket for another.
Disconnect(k) ==
  /\ IsIn(k, "up") /\ sock[k].client /\ sock[k].call = "none"
  /\ sock' = [sock EXCEPT ![k] = [@ EXCEPT !.state = "closed", !.hellos = {}, !.stale = FALSE]]
  /\ ForgetSocket(k)
  /\ UNCHANGED <<cookies, connIp, unseen, config>>

\* What becomes of a socket whose descriptor is closed: connect() still holds
\* it; or it never left, or is back in, TCP_CLOSE, and goes without a state
\* change; or it has data to send.
Released(k) ==
  IF sock[k].call = "blocked" THEN [sock[k] EXCEPT !.call = "closed"]
  ELSE IF sock[k].state = "closed" THEN None
  ELSE [sock[k] EXCEPT !.state = "fin"]

HasDescriptor(k) == sock[k] # None /\ sock[k].state # "fin" /\ sock[k].call # "closed"

\* Mutant: tp_enter_close is missing.
CloseUnhooked(k) ==
  /\ HasDescriptor(k)
  /\ sock' = [sock EXCEPT ![k] = Released(k)]
  /\ UNCHANGED <<cookies, maps, config>>

\* close(): tp_enter_close.
Close(k) ==
  /\ HasDescriptor(k)
  /\ sock' = [sock EXCEPT ![k] = Released(k)]
  /\ connIp' = connIp \ {k} /\ unseen' = unseen \ {k}
  /\ UNCHANGED <<cookies, sni, sockHost, sockDst, config>>

\* The kernel closes the descriptor on its own.
CloseUnseen(k) ==
  /\ HasDescriptor(k)
  /\ sock' = [sock EXCEPT ![k] = Released(k)]
  /\ unseen' = unseen \cup ({k} \cap connIp)
  /\ UNCHANGED <<cookies, sni, sockHost, sockDst, connIp, config>>

\* The connection ends, and with it the socket.
Closed(k) ==
  /\ IsIn(k, "fin")
  /\ sock' = [sock EXCEPT ![k] = None]
  /\ ForgetSocket(k)
  /\ UNCHANGED <<cookies, connIp, unseen, config>>

------------------------------------------------------------------------------
(* The SNI kprobe on tcp_sendmsg.                                            *)

\* Mutant: whatever the record holds where the host is expected.
DecidedUnparsed(m) == [status |-> "seen", host |-> m]

Decided(m) == [status |-> IF m \in Host THEN "seen" ELSE IF m = "ech" THEN "ech" ELSE "malformed",
               host |-> IF m \in Host THEN m ELSE None]

\* Mutant: only the first ClientHello counts.
CaptureFirst(cur, m) == IF cur = None THEN Decided(m) ELSE cur

\* The first handshake record decides; after a valid ClientHello only another
\* valid one can change that.
Capture(cur, m) ==
  IF cur = None THEN Decided(m)
  ELSE IF cur.status = "seen" /\ m # "other" /\ m # cur.host
       THEN [cur EXCEPT !.status = "mismatch"]
       ELSE cur

SendHandshake(k, m) ==
  /\ IsIn(k, "up") /\ sock[k].call # "closed"
  /\ sni' = [sni EXCEPT ![k] = Capture(sni[k], m)]
  /\ sock' = [sock EXCEPT ![k].hellos = @ \cup {m}]
  /\ UNCHANGED <<cookies, sockHost, sockDst, connIp, unseen, config>>

------------------------------------------------------------------------------
(* The kernel evicts LRU entries; the controller stops and comes back.       *)

EvictSni(k) ==
  /\ sni[k] # None
  /\ sni' = [sni EXCEPT ![k] = None]
  /\ sock' = IF sock[k] = None THEN sock ELSE [sock EXCEPT ![k].evicted = TRUE]
  /\ UNCHANGED <<cookies, sockHost, sockDst, connIp, unseen, config>>

EvictHost(c) ==
  /\ sockHost[c] # None
  /\ sockHost' = [sockHost EXCEPT ![c] = None]
  /\ UNCHANGED <<sock, cookies, sni, sockDst, connIp, unseen, config>>

EvictDst(c) ==
  /\ sockDst[c] # None
  /\ sockDst' = [sockDst EXCEPT ![c] = None]
  /\ UNCHANGED <<sock, cookies, sni, sockHost, connIp, unseen, config>>

EvictConn(k) ==
  /\ k \in connIp
  /\ connIp' = connIp \ {k} /\ unseen' = unseen \ {k}
  /\ UNCHANGED <<sock, cookies, sni, sockHost, sockDst, config>>

\* Close detaches everything in parallel: the connect hooks may go before
\* the probes ...
DetachHooks ==
  /\ hooked /\ stops < MaxStops
  /\ hooked' = FALSE
  /\ stops' = stops + 1
  /\ UNCHANGED <<sock, cookies, maps, audit>>

\* ... and the next start finds new maps: none of these is pinned, nor is
\* connect_pending, so that a connect() under way returns unnoticed.
Restart ==
  /\ ~hooked
  /\ hooked' = TRUE
  /\ sni' = [k \in Slot |-> None]
  /\ sockHost' = [c \in Cookie |-> None]
  /\ sockDst' = [c \in Cookie |-> None]
  /\ connIp' = {} /\ unseen' = {}
  /\ sock' = [k \in Slot |->
                IF sock[k] = None THEN None
                ELSE [sock[k] EXCEPT
                        !.evicted = TRUE, !.stale = FALSE, !.call = "none",
                        !.state = IF sock[k].call = "closed" THEN "fin" ELSE sock[k].state]]
  /\ UNCHANGED <<cookies, stops, audit>>

Next ==
  \/ \E k \in Slot :
       \/ Socket(k) \/ Accept(k)
       \/ \E h \in Host : ConnectRedirected(k, h)
       \/ ConnectRefused(k)
       \/ \E x \in Addr : ConnectDirect(k, x)
       \/ Establish(k)
       \/ \E recorded \in BOOLEAN : ConnectReturns(k, recorded)
       \/ ConnectFails(k) \/ Disconnect(k)
       \/ Close(k) \/ CloseUnseen(k) \/ Closed(k)
       \/ \E m \in Hello : SendHandshake(k, m)
       \/ EvictSni(k) \/ EvictConn(k)
  \/ \E c \in Cookie : EvictHost(c) \/ EvictDst(c)
  \/ DetachHooks
  \/ Restart

Spec == Init /\ [][Next]_vars

------------------------------------------------------------------------------
(* socket_filter_patches                                                     *)

\* vip_socket_check: the host of the fake IP, and the address connected to,
\* vip_sock_dst or else the socket's own.
SocketCheck(k, s) ==
  LET dst == IF sockDst[sock[k].cookie] # None THEN sockDst[sock[k].cookie] ELSE sock[k].peer
  IN /\ SecretHost[s] # None => sockHost[sock[k].cookie] = SecretHost[s]
     /\ SecretAddr[s] # None => dst = SecretAddr[s]

SniCheck(k, s) ==
  SecretHost[s] # None =>
    audit \/ (sni[k] # None /\ sni[k].status = "seen" /\ sni[k].host = SecretHost[s])

\* A patch with secret s is kept on the socket in slot k.
Keep(k, s) == SocketCheck(k, s) /\ SniCheck(k, s)

------------------------------------------------------------------------------
SniVal == [status : {"seen", "ech", "malformed", "mismatch"}, host : Host \cup {None}]
SocketVal == [cookie : Cookie, state : {"closed", "syn", "up", "fin"}, client : BOOLEAN,
              via : Host \cup {None}, dst : Addr \cup {None}, peer : Addr \cup {None},
              hellos : SUBSET Hello, evicted : BOOLEAN,
              call : {"none", "blocked", "closed"}, stale : BOOLEAN]

\* None is no socket and no map entry.
ASSUME NoneAssumption == None \notin SocketVal /\ None \notin SniVal

\* The kernel's sockets and the maps keep their shapes; what counts as an SNI
\* is a host.
TypeOK ==
  /\ sock \in [Slot -> SocketVal \cup {None}]
  /\ cookies \in 0 .. MaxSockets
  /\ sni \in [Slot -> SniVal \cup {None}]
  /\ sockHost \in [Cookie -> Host \cup {None}]
  /\ sockDst \in [Cookie -> Addr \cup {None}]
  /\ unseen \subseteq connIp /\ connIp \subseteq Slot
  /\ hooked \in BOOLEAN /\ stops \in 0 .. MaxStops /\ audit \in BOOLEAN

\* A secret restricted to a host is kept only on a connection that was itself
\* made through that host's fake IP, audited or not; and, unless audited, one
\* that itself named the host in a ClientHello, and no other as long as its
\* sni_state entry was not evicted.  No entry of an earlier connection of the
\* socket, or of an earlier socket at its address, counts
\* (socket_filter_patches, tp_inet_sock_set_state), with one exception: what
\* a connect recorded that failed before SYN_SENT counts for a connect made
\* while the hooks are detached.
KeptForHost ==
  \A k \in Slot, s \in Secret :
    IsIn(k, "up") /\ SecretHost[s] # None /\ Keep(k, s) =>
      /\ sock[k].stale \/ sock[k].via = SecretHost[s]
      /\ \/ audit
         \/ /\ SecretHost[s] \in sock[k].hellos
            /\ sock[k].evicted \/ sock[k].hellos \subseteq {SecretHost[s], "other"}

\* A secret restricted to an address is kept only on a connection to it, as
\* the application or the socket load balancer made it, but for the same
\* exception (vip_socket_check, vip_record_dst).
KeptForAddr ==
  \A k \in Slot, s \in Secret :
    IsIn(k, "up") /\ SecretAddr[s] # None /\ Keep(k, s) =>
      sock[k].stale \/ SecretAddr[s] \in {sock[k].dst, sock[k].peer}

\* A descriptor accept() returned is never taken for a client's, although the
\* kernel reuses the numbers of connected ones, unless a connected one was
\* closed without close(), or while its connect() was still under way
\* (tp_exit_connect, tp_enter_close).
ServersSkipped == \A k \in connIp \ unseen : sock[k] # None /\ sock[k].client
=============================================================================
