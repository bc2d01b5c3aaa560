-------------------------------- MODULE HKey --------------------------------
(***************************************************************************)
(* Where the data plane gets H, the GHASH key of a TLS connection, from    *)
(* (pkg/ebpf/bpf/tls_uprobe.c): the EVP_CipherInit hooks cache it by       *)
(* cipher context, bpf_h_extract looks it up or walks the SSL object, the  *)
(* tcp_sendmsg kprobe walks the SSL object itself, and both store it by    *)
(* SSL object in tls_conn_state.  tc_egress_patch reads it there when the  *)
(* record leaves, which may be after the application freed the SSL object  *)
(* and opened another connection at the same address, or after the kernel  *)
(* evicted the entry: evp_h_cache and tls_conn_state are LRU maps.  The    *)
(* powers of H a correction needs are computed in a per-CPU array, which   *)
(* keeps those of the last record.                                         *)
(*                                                                         *)
(* One process.  A key stands for the H it determines; 0 is no key, or no  *)
(* entry.  SSL_write and its tcp_sendmsg are one step, and a connection    *)
(* has one patched record under way at a time: TlsPatch has the rest.  A   *)
(* read of user memory that fails on the way of a write leaves it          *)
(* unpatched, which is no step here.                                       *)
(***************************************************************************)
EXTENDS Naturals

CONSTANTS
  Ssl,           \* addresses of SSL objects
  Ctx,           \* addresses of cipher contexts
  Cpu,
  MaxConns,      \* bound: connections ever opened
  MaxKeys,       \* bound: keys ever installed
  None

Conn == 1 .. MaxConns
Key == 1 .. MaxKeys

ASSUME HKeyAssumption ==
  /\ MaxConns \in Nat /\ MaxKeys \in Nat
  /\ None \notin Ssl

VARIABLES
  ssl,       \* the SSL objects in use: their connection and cipher context
  ctxKey,    \* the key a cipher context holds
  conns,     \* connections opened so far
  keys,      \* keys installed so far
  libHook,   \* the hooks are attached and the process routed to h_extract
  hCache,    \* evp_h_cache
  unread,    \* contexts whose last initialisation the hook failed to read
  connState, \* tls_conn_state
  powers,    \* h_power_entries of a CPU: the H its powers are of; 0 when they
             \* are of no one H
  staged,    \* tc_pending: the SSL object whose H corrects a connection's tag
  flight,    \* the record of a connection with a staged patch, not left yet
  left       \* the patched record that left last, with the H its tag was
             \* corrected by

program == <<ssl, ctxKey, conns, keys>>
cache == <<libHook, hCache, unread>>
records == <<staged, flight, left>>
vars == <<program, cache, connState, powers, records>>

Init ==
  /\ ssl = [o \in Ssl |-> None]
  /\ ctxKey = [e \in Ctx |-> 0]
  /\ conns = 0 /\ keys = 0
  /\ libHook = FALSE
  /\ hCache = [e \in Ctx |-> 0]
  /\ unread = {}
  /\ connState = [o \in Ssl |-> 0]
  /\ powers = [p \in Cpu |-> 0]
  /\ staged = [c \in Conn |-> None]
  /\ flight = [c \in Conn |-> None]
  /\ left = None

------------------------------------------------------------------------------
(* The process and its TLS library.                                          *)

InUse(e) == \E o \in Ssl : ssl[o] # None /\ ssl[o].ctx = e

\* attachLibcryptoCipherInit succeeds, and tls_strategy is set after it.
HookLibcrypto ==
  /\ ~libHook
  /\ libHook' = TRUE
  /\ UNCHANGED <<program, hCache, unread, connState, powers, records>>

\* Mutant: the entry of a context that is no longer keyed stays.
CipherInitKeeps(e, key) ==
  /\ hCache' = IF libHook /\ key # 0 THEN [hCache EXCEPT ![e] = key] ELSE hCache
  /\ UNCHANGED unread

\* The uretprobe of EVP_CipherInit: H of a keyed GCM context is cached, the
\* entry of any other goes, a failed read changes nothing.
CipherInitReturns(e, key) ==
  \/ ~libHook /\ UNCHANGED <<hCache, unread>>
  \/ libHook /\ hCache' = [hCache EXCEPT ![e] = key] /\ unread' = unread \ {e}
  \/ libHook /\ hCache' = hCache /\ unread' = unread \cup {e}

\* The library keys e with a new key.
InstallKey(e) ==
  /\ keys < MaxKeys
  /\ keys' = keys + 1
  /\ ctxKey' = [ctxKey EXCEPT ![e] = keys + 1]
  /\ CipherInitReturns(e, keys + 1)
  /\ UNCHANGED libHook

\* A handshake ends with o keyed, on a new connection.
SslOpen(o, e) ==
  /\ ssl[o] = None /\ ~InUse(e) /\ conns < MaxConns
  /\ conns' = conns + 1
  /\ ssl' = [ssl EXCEPT ![o] = [conn |-> conns + 1, ctx |-> e]]
  /\ InstallKey(e)
  /\ UNCHANGED <<connState, powers, records>>

\* KeyUpdate, in the same cipher context or in a new one.
Rekey(o, e) ==
  /\ ssl[o] # None /\ (e = ssl[o].ctx \/ ~InUse(e))
  /\ ssl' = [ssl EXCEPT ![o].ctx = e]
  /\ InstallKey(e)
  /\ UNCHANGED <<conns, connState, powers, records>>

\* A context no connection uses is initialised for another cipher, or
\* without a key yet.
OtherCipher(e) ==
  /\ ~InUse(e) /\ ctxKey[e] # 0
  /\ ctxKey' = [ctxKey EXCEPT ![e] = 0]
  /\ CipherInitReturns(e, 0)
  /\ UNCHANGED <<ssl, conns, keys, libHook, connState, powers, records>>

\* SSL_free and close: the kernel still sends what the socket holds.
SslFree(o) ==
  /\ ssl[o] # None
  /\ ssl' = [ssl EXCEPT ![o] = None]
  /\ UNCHANGED <<ctxKey, conns, keys, cache, connState, powers, records>>

------------------------------------------------------------------------------
(* SSL_write with a placeholder on o.                                        *)

\* h_extract finds an entry of an earlier initialisation of e.
Misread(e) == e \in unread /\ hCache[e] # 0

\* Records of o still under way find an entry of tls_conn_state again, which
\* may be of another key.
Overtaken(o) ==
  [c \in Conn |->
     IF flight[c] # None /\ staged[c] = o
     THEN [flight[c] EXCEPT !.overtaken = @ \/ flight[c].key # ctxKey[ssl[o].ctx],
                            !.evicted = FALSE]
     ELSE flight[c]]

\* The kprobe stages the patch for the record, if the socket may carry it.
Stage(o, kept) ==
  LET c == ssl[o].conn
  IN /\ staged' = IF kept THEN [staged EXCEPT ![c] = o] ELSE staged
     /\ flight' = IF kept THEN [Overtaken(o) EXCEPT ![c] =
                                  [key |-> ctxKey[ssl[o].ctx], overtaken |-> FALSE,
                                   misread |-> libHook /\ Misread(ssl[o].ctx),
                                   evicted |-> FALSE]]
                          ELSE Overtaken(o)
     /\ UNCHANGED left

Writes(o) == ssl[o] # None /\ flight[ssl[o].conn] = None

\* Mutant: a miss of the cache is no reason to look further.
WriteExtractedCached(o, kept) ==
  /\ Writes(o) /\ libHook
  /\ connState' = [connState EXCEPT ![o] = hCache[ssl[o].ctx]]
  /\ Stage(o, kept)
  /\ UNCHANGED <<program, cache, powers>>

\* Routed to h_extract, which takes the cached H, or the one the context
\* holds, which it caches, and stores it before the socket is looked at ...
WriteExtracted(o, kept) ==
  /\ Writes(o) /\ libHook
  /\ LET e == ssl[o].ctx
         h == IF hCache[e] # 0 THEN hCache[e] ELSE ctxKey[e]
     IN /\ hCache' = [hCache EXCEPT ![e] = h]
        /\ unread' = IF Misread(e) THEN unread ELSE unread \ {e}
        /\ connState' = [connState EXCEPT ![o] = h]
  /\ Stage(o, kept)
  /\ UNCHANGED <<program, libHook, powers>>

\* Mutant: an entry of tls_conn_state is taken for this connection's.
WriteWalkedStored(o) ==
  /\ Writes(o) /\ ~libHook
  /\ connState' = [connState EXCEPT ![o] = IF @ # 0 THEN @ ELSE ctxKey[ssl[o].ctx]]
  /\ Stage(o, TRUE)
  /\ UNCHANGED <<program, cache, powers>>

\* ... or not: the kprobe filters first, and then walks to H.
WriteWalked(o) ==
  /\ Writes(o) /\ ~libHook
  /\ connState' = [connState EXCEPT ![o] = ctxKey[ssl[o].ctx]]
  /\ Stage(o, TRUE)
  /\ UNCHANGED <<program, cache, powers>>

------------------------------------------------------------------------------
(* tc egress on a CPU, and the kernel's evictions.                           *)

\* Without the entry of o its records have no H of their own.
Evicted(o) ==
  [c \in Conn |-> IF flight[c] # None /\ staged[c] = o
                  THEN [flight[c] EXCEPT !.evicted = TRUE] ELSE flight[c]]

EvictState(o) ==
  /\ connState[o] # 0
  /\ connState' = [connState EXCEPT ![o] = 0]
  /\ flight' = Evicted(o)
  /\ UNCHANGED <<program, cache, powers, staged, left>>

EvictCache(e) ==
  /\ hCache[e] # 0
  /\ hCache' = [hCache EXCEPT ![e] = 0]
  /\ UNCHANGED <<program, libHook, unread, connState, powers, records>>

\* The record of c leaves, its tag corrected with the powers of h.
Leaves(c, p, h, evicted) ==
  /\ left' = [h |-> h, key |-> flight[c].key, overtaken |-> flight[c].overtaken,
              misread |-> flight[c].misread, evicted |-> evicted]
  /\ powers' = [powers EXCEPT ![p] = h]

\* copy_h_power_step computes the powers of what tls_conn_state holds now; of
\* nothing, it leaves those of the last record the CPU corrected.
Egress(c, p) ==
  /\ flight[c] # None
  /\ LET h == connState[staged[c]]
     IN Leaves(c, p, IF h # 0 THEN h ELSE powers[p], flight[c].evicted)
  /\ flight' = [flight EXCEPT ![c] = None]
  /\ UNCHANGED <<program, cache, connState, staged>>

\* It looks the entry up for every power: evicted in between, it leaves some
\* powers of either H.
EgressTorn(c, p) ==
  LET o == staged[c]
      h == IF powers[p] = connState[o] THEN powers[p] ELSE 0
  IN
  /\ flight[c] # None /\ connState[o] # 0
  /\ Leaves(c, p, h, TRUE)
  /\ connState' = [connState EXCEPT ![o] = 0]
  /\ flight' = [Evicted(o) EXCEPT ![c] = None]
  /\ UNCHANGED <<program, cache, staged>>

\* The connection ends before the record left.
Lose(c) ==
  /\ flight[c] # None
  /\ flight' = [flight EXCEPT ![c] = None]
  /\ UNCHANGED <<program, cache, connState, powers, staged, left>>

Next ==
  \/ HookLibcrypto
  \/ \E o \in Ssl, e \in Ctx : SslOpen(o, e) \/ Rekey(o, e)
  \/ \E e \in Ctx : OtherCipher(e) \/ EvictCache(e)
  \/ \E o \in Ssl : \/ SslFree(o)
                    \/ \E kept \in BOOLEAN : WriteExtracted(o, kept)
                    \/ WriteWalked(o)
                    \/ EvictState(o)
  \/ \E c \in Conn : \/ \E p \in Cpu : Egress(c, p) \/ EgressTorn(c, p)
                     \/ Lose(c)

Spec == Init /\ [][Next]_vars

------------------------------------------------------------------------------
Flight == [key : Key, overtaken : BOOLEAN, misread : BOOLEAN, evicted : BOOLEAN]
Left == [h : Key \cup {0}, key : Key, overtaken : BOOLEAN, misread : BOOLEAN, evicted : BOOLEAN]

\* The objects, the caches and the records under way keep their shapes; a
\* connection in use has a keyed context, and no tag is corrected without
\* an H unless its entry was evicted.
TypeOK ==
  /\ ssl \in [Ssl -> [conn : Conn, ctx : Ctx] \cup {None}]
  /\ \A o \in Ssl : ssl[o] # None => ctxKey[ssl[o].ctx] # 0
  /\ ctxKey \in [Ctx -> Key \cup {0}]
  /\ conns \in 0 .. MaxConns /\ keys \in 0 .. MaxKeys
  /\ libHook \in BOOLEAN
  /\ hCache \in [Ctx -> Key \cup {0}] /\ unread \subseteq Ctx
  /\ connState \in [Ssl -> Key \cup {0}] /\ powers \in [Cpu -> Key \cup {0}]
  /\ staged \in [Conn -> Ssl \cup {None}]
  /\ flight \in [Conn -> Flight \cup {None}]
  /\ left \in Left \cup {None}
  /\ left # None => left.h # 0 \/ left.evicted

\* What evp_h_cache holds for a context is what the context holds: no entry
\* outlives the key it was read with, whoever uses the context's address
\* next, unless the hook failed to read the context since
\* (bpf_uretprobe_evp_cipher_init, and the backfill of bpf_h_extract).
CacheFresh == \A e \in Ctx \ unread : hCache[e] # 0 => hCache[e] = ctxKey[e]

\* The tag of a patched record is corrected with the H of the key that
\* encrypted it, through reused SSL objects and cipher contexts, key updates
\* and hooks attached late.  Three cases are excepted: a later write through
\* the same SSL object, under another key, came before the record left
\* (tls_conn_state is read when the record leaves, tls_uprobe.c:3126-3137);
\* the hook failed to read the context and left an older H in the cache; and
\* the kernel evicted the connection's entry before the record left, and no
\* write stored it again (copy_h_power_step, tls_uprobe.c:1800-1802).
TagOfOwnKey ==
  left # None => left.h = left.key \/ left.overtaken \/ left.misread \/ left.evicted
=============================================================================
