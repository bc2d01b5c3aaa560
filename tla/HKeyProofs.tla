----------------------------- MODULE HKeyProofs -----------------------------
(***************************************************************************)
(* Proofs about HKey, for any number of SSL objects, cipher contexts,      *)
(* connections and keys.                                                   *)
(*                                                                         *)
(* TagOfOwnKey is not inductive: a tag is corrected with what              *)
(* tls_conn_state holds when the record leaves. FlightOK says it already   *)
(* of the records under way, each marked when the kernel evicts its entry, *)
(* and MisreadKnown that a write which finds an older H in the cache       *)
(* cannot spoil an earlier record of the same key unnoticed: the cache was *)
(* as bad when that record was written.                                    *)
(***************************************************************************)
EXTENDS HKey, TLAPS

----------------------------------------------------------------------------
(* The inductive invariant.                                                *)

\* No cipher context belongs to two SSL objects.
OwnContext ==
  \A o, q \in Ssl : ssl[o] # None /\ ssl[q] # None /\ ssl[o].ctx = ssl[q].ctx => o = q

\* Keys are installed in one context only, and none is from the future.
OwnKey ==
  /\ \A e \in Ctx : ctxKey[e] <= keys
  /\ \A c \in Conn : flight[c] # None => flight[c].key <= keys
  /\ \A e, d \in Ctx : ctxKey[e] # 0 /\ ctxKey[e] = ctxKey[d] => e = d

\* Before the hooks are attached nothing is cached.
UnhookedEmpty == ~libHook => unread = {} /\ \A e \in Ctx : hCache[e] = 0

\* A record under way will find an H, of its own key but for the three
\* exceptions.
FlightOK ==
  \A c \in Conn : flight[c] # None =>
    /\ staged[c] \in Ssl
    /\ connState[staged[c]] # 0 \/ flight[c].evicted
    /\ \/ connState[staged[c]] = flight[c].key
       \/ flight[c].overtaken \/ flight[c].misread \/ flight[c].evicted

\* A record under way whose key is still installed was written with the cache
\* as it is now.
MisreadKnown ==
  \A c \in Conn, e \in Ctx :
    flight[c] # None /\ flight[c].key = ctxKey[e] /\ Misread(e) => flight[c].misread

HInv ==
  /\ TypeOK /\ CacheFresh /\ TagOfOwnKey
  /\ OwnContext /\ OwnKey /\ UnhookedEmpty /\ FlightOK /\ MisreadKnown

----------------------------------------------------------------------------
(* The invariant holds at first and after every step.                      *)

\* Nothing is cached and nothing is under way at first.
LEMMA HInit == Init => HInv
<1> SUFFICES ASSUME Init PROVE HInv
  OBVIOUS
<1> USE DEF Init
<1>1. TypeOK
  <2>1. /\ ssl \in [Ssl -> [conn : Conn, ctx : Ctx] \cup {None}]
        /\ \A o \in Ssl : ssl[o] # None => ctxKey[ssl[o].ctx] # 0
    OBVIOUS
  <2>2. conns \in 0 .. MaxConns /\ keys \in 0 .. MaxKeys
    BY HKeyAssumption
  <2>3. /\ flight \in [Conn -> Flight \cup {None}]
        /\ left \in Left \cup {None} /\ left = None
    OBVIOUS
  <2>4. /\ ctxKey \in [Ctx -> Key \cup {0}] /\ libHook \in BOOLEAN
        /\ hCache \in [Ctx -> Key \cup {0}] /\ unread \subseteq Ctx
        /\ connState \in [Ssl -> Key \cup {0}] /\ powers \in [Cpu -> Key \cup {0}]
        /\ staged \in [Conn -> Ssl \cup {None}]
    OBVIOUS
  <2>5. QED
    BY <2>1, <2>2, <2>3, <2>4 DEF TypeOK
<1>2. CacheFresh /\ UnhookedEmpty /\ TagOfOwnKey /\ OwnContext
  BY DEF CacheFresh, UnhookedEmpty, TagOfOwnKey, OwnContext
<1>3. OwnKey /\ FlightOK /\ MisreadKnown
  BY DEF OwnKey, FlightOK, MisreadKnown
<1>4. QED
  BY <1>1, <1>2, <1>3 DEF HInv

\* A new key in context e, which no SSL object but o uses.
LEMMA InstallKeepsCache ==
  ASSUME HInv, NEW e \in Ctx, InstallKey(e)
  PROVE  /\ keys' \in 0 .. MaxKeys /\ keys' = keys + 1 /\ keys' \in Key
         /\ ctxKey' \in [Ctx -> Key \cup {0}] /\ ctxKey'[e] = keys'
         /\ \A d \in Ctx \ {e} : ctxKey'[d] = ctxKey[d]
         /\ hCache' \in [Ctx -> Key \cup {0}] /\ unread' \subseteq Ctx
         /\ CacheFresh' /\ UnhookedEmpty'
         /\ \A d \in Ctx \ {e} : (d \in unread' <=> d \in unread) /\ hCache'[d] = hCache[d]
<1>1. /\ keys \in Nat /\ MaxKeys \in Nat /\ keys < MaxKeys /\ keys' = keys + 1
      /\ ctxKey' = [ctxKey EXCEPT ![e] = keys + 1] /\ libHook' = libHook
  BY HKeyAssumption DEF HInv, TypeOK, InstallKey
<1>2. keys' \in 0 .. MaxKeys /\ keys' \in Key
  BY <1>1 DEF Key
<1>3. /\ ctxKey' \in [Ctx -> Key \cup {0}] /\ ctxKey'[e] = keys'
      /\ \A d \in Ctx \ {e} : ctxKey'[d] = ctxKey[d]
  BY <1>1, <1>2 DEF HInv, TypeOK
<1>4. /\ hCache \in [Ctx -> Key \cup {0}] /\ unread \subseteq Ctx /\ CacheFresh /\ UnhookedEmpty
  BY DEF HInv, TypeOK
<1>5. CASE ~libHook /\ UNCHANGED <<hCache, unread>>
  BY <1>1, <1>2, <1>3, <1>4, <1>5 DEF CacheFresh, UnhookedEmpty
<1>6. CASE libHook /\ hCache' = [hCache EXCEPT ![e] = keys + 1] /\ unread' = unread \ {e}
  BY <1>1, <1>2, <1>3, <1>4, <1>6 DEF CacheFresh, UnhookedEmpty
<1>7. CASE libHook /\ hCache' = hCache /\ unread' = unread \cup {e}
  BY <1>1, <1>2, <1>3, <1>4, <1>7 DEF CacheFresh, UnhookedEmpty
<1>8. QED
  BY <1>1, <1>2, <1>3, <1>5, <1>6, <1>7 DEF InstallKey, CipherInitReturns

\* The new key is no record's and no other context's.
LEMMA InstallKeepsKeys ==
  ASSUME HInv, NEW e \in Ctx, InstallKey(e), UNCHANGED <<connState, powers, records>>
  PROVE  OwnKey' /\ MisreadKnown' /\ FlightOK' /\ TagOfOwnKey'
<1>1. UNCHANGED <<connState, powers, staged, flight, left>>
  BY DEF records
<1>2. /\ keys \in Nat /\ keys' = keys + 1 /\ ctxKey'[e] = keys'
      /\ \A d \in Ctx \ {e} : ctxKey'[d] = ctxKey[d]
      /\ \A d \in Ctx \ {e} : (d \in unread' <=> d \in unread) /\ hCache'[d] = hCache[d]
  BY InstallKeepsCache, HKeyAssumption DEF HInv, TypeOK
<1>3. /\ \A d \in Ctx : ctxKey[d] \in Nat /\ ctxKey[d] <= keys
      /\ \A c \in Conn : flight[c] # None => flight[c].key \in Nat /\ flight[c].key <= keys
  BY HKeyAssumption DEF HInv, TypeOK, OwnKey, Key, Flight
<1>4. OwnKey'
  BY <1>1, <1>2, <1>3 DEF HInv, OwnKey
<1>5. MisreadKnown'
  <2> SUFFICES ASSUME NEW c \in Conn, NEW d \in Ctx, flight[c] # None,
                      flight[c].key = ctxKey'[d], d \in unread', hCache'[d] # 0
               PROVE  flight[c].misread
    BY <1>1 DEF MisreadKnown, Misread
  <2>1. d # e
    BY <1>2, <1>3
  <2>2. QED
    BY <1>2, <2>1 DEF HInv, MisreadKnown, Misread
<1>6. FlightOK' /\ TagOfOwnKey'
  BY <1>1 DEF HInv, FlightOK, TagOfOwnKey
<1>7. QED
  BY <1>4, <1>5, <1>6

\* A connection opens with a context nobody uses.
LEMMA OpenKeepsInv ==
  ASSUME HInv, NEW o \in Ssl, NEW e \in Ctx, SslOpen(o, e)
  PROVE  HInv'
<1>1. /\ InstallKey(e) /\ ~InUse(e) /\ UNCHANGED <<connState, powers, records>>
      /\ conns' = conns + 1 /\ conns' \in Conn /\ conns' \in 0 .. MaxConns
      /\ ssl' = [ssl EXCEPT ![o] = [conn |-> conns + 1, ctx |-> e]]
  BY HKeyAssumption DEF SslOpen, HInv, TypeOK, Conn
<1>2. ssl \in [Ssl -> [conn : Conn, ctx : Ctx] \cup {None}]
  BY DEF HInv, TypeOK
<1>3. [conn |-> conns + 1, ctx |-> e] \in [conn : Conn, ctx : Ctx]
  BY <1>1
<1>4. /\ ssl' \in [Ssl -> [conn : Conn, ctx : Ctx] \cup {None}]
      /\ ssl'[o].ctx = e /\ \A q \in Ssl \ {o} : ssl'[q] = ssl[q]
  BY <1>1, <1>2, <1>3
<1>5. \A q \in Ssl \ {o} : ssl[q] # None => ssl[q].ctx # e /\ ssl[q].ctx \in Ctx
  BY <1>1, <1>2 DEF InUse
<1>6. OwnContext'
  BY <1>4, <1>5 DEF HInv, OwnContext
<1>7. \A q \in Ssl : ssl'[q] # None => ctxKey'[ssl'[q].ctx] # 0
  BY <1>1, <1>4, <1>5, InstallKeepsCache, HKeyAssumption DEF HInv, TypeOK, Key
<1>8. TypeOK'
  BY <1>1, <1>4, <1>7, InstallKeepsCache DEF HInv, TypeOK, records, InstallKey
<1>9. QED
  BY <1>1, <1>6, <1>8, InstallKeepsCache, InstallKeepsKeys DEF HInv

\* A connection changes its key, in its context or in one nobody uses.
LEMMA RekeyKeepsInv ==
  ASSUME HInv, NEW o \in Ssl, NEW e \in Ctx, Rekey(o, e)
  PROVE  HInv'
<1>1. /\ InstallKey(e) /\ UNCHANGED <<conns, connState, powers, records>>
      /\ ssl[o] # None /\ (e = ssl[o].ctx \/ ~InUse(e))
      /\ ssl' = [ssl EXCEPT ![o].ctx = e]
  BY DEF Rekey
<1>2. ssl \in [Ssl -> [conn : Conn, ctx : Ctx] \cup {None}]
  BY DEF HInv, TypeOK
<1>3. [ssl[o] EXCEPT !.ctx = e] \in [conn : Conn, ctx : Ctx] /\ [ssl[o] EXCEPT !.ctx = e].ctx = e
  BY <1>1, <1>2
<1>4. /\ ssl' \in [Ssl -> [conn : Conn, ctx : Ctx] \cup {None}]
      /\ ssl'[o].ctx = e /\ \A q \in Ssl \ {o} : ssl'[q] = ssl[q]
  BY <1>1, <1>2, <1>3
<1>5. \A q \in Ssl \ {o} : ssl[q] # None => ssl[q].ctx # e /\ ssl[q].ctx \in Ctx
  BY <1>1, <1>2 DEF InUse, HInv, OwnContext
<1>6. OwnContext'
  BY <1>4, <1>5 DEF HInv, OwnContext
<1>7. \A q \in Ssl : ssl'[q] # None => ctxKey'[ssl'[q].ctx] # 0
  BY <1>1, <1>4, <1>5, InstallKeepsCache, HKeyAssumption DEF HInv, TypeOK, Key
<1>8. TypeOK'
  BY <1>1, <1>4, <1>7, InstallKeepsCache DEF HInv, TypeOK, records, InstallKey
<1>9. QED
  BY <1>1, <1>6, <1>8, InstallKeepsCache, InstallKeepsKeys DEF HInv

\* A context nobody uses loses its key: no record has key 0.
LEMMA OtherCipherKeepsInv ==
  ASSUME HInv, NEW e \in Ctx, OtherCipher(e)
  PROVE  HInv'
<1>1. /\ ~InUse(e) /\ ctxKey' = [ctxKey EXCEPT ![e] = 0] /\ CipherInitReturns(e, 0)
      /\ UNCHANGED <<ssl, conns, keys, libHook, connState, powers, staged, flight, left>>
  BY DEF OtherCipher, records
<1>2. /\ ssl \in [Ssl -> [conn : Conn, ctx : Ctx] \cup {None}] /\ ctxKey \in [Ctx -> Key \cup {0}]
      /\ hCache \in [Ctx -> Key \cup {0}] /\ unread \subseteq Ctx /\ CacheFresh /\ UnhookedEmpty
  BY DEF HInv, TypeOK
<1>3. /\ ctxKey' \in [Ctx -> Key \cup {0}] /\ ctxKey'[e] = 0
      /\ \A d \in Ctx \ {e} : ctxKey'[d] = ctxKey[d]
  BY <1>1, <1>2
<1>4. /\ hCache' \in [Ctx -> Key \cup {0}] /\ unread' \subseteq Ctx
      /\ CacheFresh' /\ UnhookedEmpty'
      /\ \A d \in Ctx \ {e} : (d \in unread' <=> d \in unread) /\ hCache'[d] = hCache[d]
  <2>1. CASE ~libHook /\ UNCHANGED <<hCache, unread>>
    BY <1>1, <1>2, <1>3, <2>1 DEF CacheFresh, UnhookedEmpty
  <2>2. CASE libHook /\ hCache' = [hCache EXCEPT ![e] = 0] /\ unread' = unread \ {e}
    BY <1>1, <1>2, <1>3, <2>2 DEF CacheFresh, UnhookedEmpty
  <2>3. CASE libHook /\ hCache' = hCache /\ unread' = unread \cup {e}
    BY <1>1, <1>2, <1>3, <2>3 DEF CacheFresh, UnhookedEmpty
  <2>4. QED
    BY <1>1, <2>1, <2>2, <2>3 DEF CipherInitReturns
<1>5. \A q \in Ssl : ssl'[q] # None => ctxKey'[ssl'[q].ctx] # 0
  BY <1>1, <1>2, <1>3 DEF HInv, TypeOK, InUse
<1>6. TypeOK'
  BY <1>1, <1>3, <1>4, <1>5 DEF HInv, TypeOK
<1>7. OwnKey'
  BY <1>1, <1>2, <1>3, HKeyAssumption DEF HInv, OwnKey, TypeOK
<1>8. MisreadKnown'
  <2> SUFFICES ASSUME NEW c \in Conn, NEW d \in Ctx, flight[c] # None,
                      flight[c].key = ctxKey'[d], d \in unread', hCache'[d] # 0
               PROVE  flight[c].misread
    BY <1>1 DEF MisreadKnown, Misread
  <2>1. d # e
    BY <1>3, HKeyAssumption DEF HInv, TypeOK, Key, Flight
  <2>2. QED
    BY <1>3, <1>4, <2>1 DEF HInv, MisreadKnown, Misread
<1>9. OwnContext' /\ FlightOK' /\ TagOfOwnKey'
  BY <1>1 DEF HInv, OwnContext, FlightOK, TagOfOwnKey
<1>10. QED
  BY <1>4, <1>6, <1>7, <1>8, <1>9 DEF HInv

\* The hooks are attached, or an SSL object is freed.
LEMMA HookOrFreeKeepsInv ==
  ASSUME HInv, HookLibcrypto \/ \E o \in Ssl : SslFree(o)
  PROVE  HInv'
<1>1. CASE HookLibcrypto
  <2>1. /\ libHook' = TRUE
        /\ UNCHANGED <<ssl, ctxKey, conns, keys, hCache, unread, connState, powers,
                       staged, flight, left>>
    BY <1>1 DEF HookLibcrypto, program, records
  <2>2. TypeOK'
    BY <2>1 DEF HInv, TypeOK
  <2>3. QED
    BY <2>1, <2>2 DEF HInv, CacheFresh, TagOfOwnKey, OwnContext, OwnKey, UnhookedEmpty,
                      FlightOK, MisreadKnown, Misread
<1>2. ASSUME NEW o \in Ssl, SslFree(o) PROVE HInv'
  <2>1. /\ ssl' = [ssl EXCEPT ![o] = None]
        /\ UNCHANGED <<ctxKey, conns, keys, libHook, hCache, unread, connState, powers,
                       staged, flight, left>>
    BY <1>2 DEF SslFree, cache, records
  <2>2. /\ ssl' \in [Ssl -> [conn : Conn, ctx : Ctx] \cup {None}]
        /\ ssl'[o] = None /\ \A q \in Ssl \ {o} : ssl'[q] = ssl[q]
    BY <2>1 DEF HInv, TypeOK
  <2>3. TypeOK'
    BY <2>1, <2>2 DEF HInv, TypeOK
  <2>4. QED
    BY <2>1, <2>2, <2>3 DEF HInv, CacheFresh, TagOfOwnKey, OwnContext, OwnKey, UnhookedEmpty,
                      FlightOK, MisreadKnown, Misread
<1>3. QED
  BY <1>1, <1>2

\* A write through o stores h: records of o still under way get an H of their
\* key, or are overtaken, or knew a cache as bad as this write found it.
LEMMA StageKeepsFlight ==
  ASSUME HInv, NEW o \in Ssl, NEW kept \in BOOLEAN, Writes(o), Stage(o, kept),
         NEW h \in Key, connState' = [connState EXCEPT ![o] = h],
         h = ctxKey[ssl[o].ctx] \/ (libHook /\ Misread(ssl[o].ctx))
  PROVE  /\ staged' \in [Conn -> Ssl \cup {None}]
         /\ flight' \in [Conn -> Flight \cup {None}]
         /\ FlightOK'
         /\ \A c \in Conn : flight'[c] # None =>
              \/ flight[c] # None /\ flight'[c].key = flight[c].key /\ flight'[c].misread = flight[c].misread
              \/ /\ flight'[c].key = ctxKey[ssl[o].ctx]
                 /\ flight'[c].misread = (libHook /\ Misread(ssl[o].ctx))
<1> DEFINE e == ssl[o].ctx
           d == ssl[o].conn
           new == [key |-> ctxKey[e], overtaken |-> FALSE, misread |-> libHook /\ Misread(e),
                   evicted |-> FALSE]
<1>1. /\ e \in Ctx /\ d \in Conn /\ ctxKey[e] \in Key /\ ssl[o] # None /\ flight[d] = None
  BY DEF HInv, TypeOK, Writes
<1>2. /\ staged \in [Conn -> Ssl \cup {None}] /\ flight \in [Conn -> Flight \cup {None}]
      /\ connState \in [Ssl -> Key \cup {0}]
  BY DEF HInv, TypeOK
<1>3. connState'[o] = h /\ h # 0 /\ \A q \in Ssl \ {o} : connState'[q] = connState[q]
  BY <1>2, HKeyAssumption DEF Key
<1>4. (libHook /\ Misread(e)) \in BOOLEAN
  BY DEF Misread, HInv, TypeOK
<1>5. new \in Flight /\ new.key = ctxKey[e] /\ new.misread = (libHook /\ Misread(e))
  BY <1>1, <1>4 DEF Flight
<1>6. ASSUME NEW c \in Conn
      PROVE  /\ Overtaken(o)[c] \in Flight \cup {None}
             /\ Overtaken(o)[c] # None =>
                  /\ flight[c] # None
                  /\ Overtaken(o)[c].key = flight[c].key
                  /\ Overtaken(o)[c].misread = flight[c].misread
                  /\ flight[c].overtaken => Overtaken(o)[c].overtaken
                  /\ staged[c] = o /\ flight[c].key # ctxKey[e] => Overtaken(o)[c].overtaken
                  /\ staged[c] # o => Overtaken(o)[c] = flight[c]
  BY <1>2 DEF Overtaken, Flight
<1>7. Overtaken(o) \in [Conn -> Flight \cup {None}]
  BY <1>6 DEF Overtaken
<1>8. ASSUME NEW c \in Conn, Overtaken(o)[c] # None
      PROVE  /\ staged[c] \in Ssl
             /\ connState'[staged[c]] # 0 \/ Overtaken(o)[c].evicted
             /\ \/ connState'[staged[c]] = Overtaken(o)[c].key
                \/ Overtaken(o)[c].overtaken \/ Overtaken(o)[c].misread
                \/ Overtaken(o)[c].evicted
  <2>1. /\ staged[c] \in Ssl
        /\ connState[staged[c]] # 0 \/ flight[c].evicted
        /\ \/ connState[staged[c]] = flight[c].key
           \/ flight[c].overtaken \/ flight[c].misread \/ flight[c].evicted
    BY <1>6, <1>8 DEF HInv, FlightOK
  <2>2. CASE staged[c] # o
    BY <1>3, <1>6, <1>8, <2>1, <2>2
  <2>3. CASE staged[c] = o
    <3>1. CASE flight[c].key # ctxKey[e]
      BY <1>3, <1>6, <1>8, <2>1, <2>3, <3>1
    <3>2. CASE flight[c].key = ctxKey[e]
      <4>1. Misread(e) => flight[c].misread
        BY <1>1, <1>6, <1>8, <3>2 DEF HInv, MisreadKnown
      <4>2. QED
        BY <1>3, <1>6, <1>8, <2>1, <2>3, <3>2, <4>1
    <3>3. QED
      BY <3>1, <3>2
  <2>4. QED
    BY <2>2, <2>3
<1>9. CASE ~kept
  <2>1. staged' = staged /\ flight' = Overtaken(o)
    BY <1>9 DEF Stage
  <2>2. QED
    BY <1>2, <1>6, <1>7, <1>8, <2>1 DEF FlightOK
<1>10. CASE kept
  <2>1. staged' = [staged EXCEPT ![d] = o] /\ flight' = [Overtaken(o) EXCEPT ![d] = new]
    BY <1>10 DEF Stage
  <2>2. /\ staged' \in [Conn -> Ssl \cup {None}] /\ staged'[d] = o
        /\ \A c \in Conn \ {d} : staged'[c] = staged[c]
    BY <1>1, <1>2, <2>1
  <2> HIDE DEF new
  <2>3. /\ flight' \in [Conn -> Flight \cup {None}] /\ flight'[d] = new
        /\ \A c \in Conn \ {d} : flight'[c] = Overtaken(o)[c]
    BY <1>1, <1>5, <1>7, <2>1
  <2>4. FlightOK'
    <3> SUFFICES ASSUME NEW c \in Conn, flight'[c] # None
                 PROVE  /\ staged'[c] \in Ssl
                        /\ connState'[staged'[c]] # 0 \/ flight'[c].evicted
                        /\ \/ connState'[staged'[c]] = flight'[c].key
                           \/ flight'[c].overtaken \/ flight'[c].misread \/ flight'[c].evicted
      BY DEF FlightOK
    <3>1. CASE c = d
      BY <1>3, <1>5, <2>2, <2>3, <3>1
    <3>2. CASE c # d
      BY <1>8, <2>2, <2>3, <3>2
    <3>3. QED
      BY <3>1, <3>2
  <2>5. QED
    BY <1>5, <1>6, <2>2, <2>3, <2>4
<1>11. QED
  BY <1>9, <1>10

\* A write through h_extract: the cached H, or the context's.
LEMMA ExtractedKeepsInv ==
  ASSUME HInv, NEW o \in Ssl, NEW kept \in BOOLEAN, WriteExtracted(o, kept)
  PROVE  HInv'
<1> DEFINE e == ssl[o].ctx
           h == IF hCache[e] # 0 THEN hCache[e] ELSE ctxKey[e]
<1>1. /\ Writes(o) /\ libHook /\ Stage(o, kept)
      /\ hCache' = [hCache EXCEPT ![e] = h]
      /\ unread' = IF Misread(e) THEN unread ELSE unread \ {e}
      /\ connState' = [connState EXCEPT ![o] = h]
      /\ UNCHANGED <<ssl, ctxKey, conns, keys, libHook, powers, left>>
  BY DEF WriteExtracted, program, Stage
<1>2. /\ e \in Ctx /\ ctxKey[e] \in Key /\ hCache[e] \in Key \cup {0}
      /\ ctxKey \in [Ctx -> Key \cup {0}] /\ hCache \in [Ctx -> Key \cup {0}]
      /\ unread \subseteq Ctx /\ connState \in [Ssl -> Key \cup {0}] /\ 0 \notin Key
  BY <1>1, HKeyAssumption DEF HInv, TypeOK, Writes, Key
<1>3. h \in Key /\ (h = ctxKey[e] \/ Misread(e))
  BY <1>2 DEF HInv, CacheFresh, Misread
<1> HIDE DEF h
<1>4. /\ hCache' \in [Ctx -> Key \cup {0}] /\ hCache'[e] = h
      /\ \A d \in Ctx \ {e} : hCache'[d] = hCache[d]
      /\ unread' \subseteq Ctx /\ connState' \in [Ssl -> Key \cup {0}]
      /\ \A d \in Ctx \ {e} : d \in unread' <=> d \in unread
      /\ e \in unread' <=> Misread(e)
  BY <1>1, <1>2, <1>3 DEF Misread
<1>5. /\ staged' \in [Conn -> Ssl \cup {None}]
      /\ flight' \in [Conn -> Flight \cup {None}]
      /\ FlightOK'
      /\ \A c \in Conn : flight'[c] # None =>
           \/ flight[c] # None /\ flight'[c].key = flight[c].key /\ flight'[c].misread = flight[c].misread
           \/ flight'[c].key = ctxKey[e] /\ flight'[c].misread = (libHook /\ Misread(e))
  BY <1>1, <1>3, StageKeepsFlight
<1>6. TypeOK'
  BY <1>1, <1>4, <1>5 DEF HInv, TypeOK
<1>7. CacheFresh'
  BY <1>1, <1>3, <1>4 DEF HInv, CacheFresh
<1>8. OwnKey'
  BY <1>1, <1>2, <1>5 DEF HInv, OwnKey
<1>9. MisreadKnown'
  <2> SUFFICES ASSUME NEW c \in Conn, NEW d \in Ctx, flight'[c] # None,
                      flight'[c].key = ctxKey[d], d \in unread', hCache'[d] # 0
               PROVE  flight'[c].misread
    BY <1>1 DEF MisreadKnown, Misread
  <2>1. Misread(d)
    BY <1>4 DEF Misread
  <2>2. CASE flight'[c].key = ctxKey[e] /\ flight'[c].misread = (libHook /\ Misread(e))
    <3>1. d = e
      BY <1>2, <2>2 DEF HInv, OwnKey
    <3>2. QED
      BY <1>1, <2>1, <2>2, <3>1
  <2>3. CASE flight[c] # None /\ flight'[c].key = flight[c].key /\ flight'[c].misread = flight[c].misread
    BY <2>1, <2>3 DEF HInv, MisreadKnown
  <2>4. QED
    BY <1>5, <2>2, <2>3
<1>10. OwnContext' /\ UnhookedEmpty' /\ TagOfOwnKey'
  BY <1>1 DEF HInv, OwnContext, UnhookedEmpty, TagOfOwnKey
<1>11. QED
  BY <1>5, <1>6, <1>7, <1>8, <1>9, <1>10 DEF HInv

\* A write the kprobe walks to H for: nothing is cached.
LEMMA WalkedKeepsInv ==
  ASSUME HInv, NEW o \in Ssl, WriteWalked(o)
  PROVE  HInv'
<1> DEFINE e == ssl[o].ctx
<1>1. /\ Writes(o) /\ ~libHook /\ Stage(o, TRUE)
      /\ connState' = [connState EXCEPT ![o] = ctxKey[e]]
      /\ UNCHANGED <<ssl, ctxKey, conns, keys, libHook, hCache, unread, powers, left>>
  BY DEF WriteWalked, program, cache, Stage
<1>2. e \in Ctx /\ ctxKey[e] \in Key /\ connState \in [Ssl -> Key \cup {0}]
  BY <1>1 DEF HInv, TypeOK, Writes
<1>3. /\ staged' \in [Conn -> Ssl \cup {None}]
      /\ flight' \in [Conn -> Flight \cup {None}]
      /\ FlightOK'
      /\ \A c \in Conn : flight'[c] # None =>
           \/ flight[c] # None /\ flight'[c].key = flight[c].key /\ flight'[c].misread = flight[c].misread
           \/ flight'[c].key = ctxKey[e] /\ flight'[c].misread = (libHook /\ Misread(e))
  BY <1>1, <1>2, StageKeepsFlight
<1>4. TypeOK'
  BY <1>1, <1>2, <1>3 DEF HInv, TypeOK
<1>5. OwnKey'
  BY <1>1, <1>2, <1>3 DEF HInv, OwnKey
<1>6. MisreadKnown'
  BY <1>1 DEF HInv, UnhookedEmpty, MisreadKnown, Misread
<1>7. CacheFresh' /\ OwnContext' /\ UnhookedEmpty' /\ TagOfOwnKey'
  BY <1>1 DEF HInv, CacheFresh, OwnContext, UnhookedEmpty, TagOfOwnKey
<1>8. QED
  BY <1>3, <1>4, <1>5, <1>6, <1>7 DEF HInv

\* The kernel evicts a cached H: what is left is as fresh as before.
LEMMA EvictCacheKeepsInv ==
  ASSUME HInv, NEW e \in Ctx, EvictCache(e)
  PROVE  HInv'
<1>1. /\ hCache' = [hCache EXCEPT ![e] = 0]
      /\ UNCHANGED <<ssl, ctxKey, conns, keys, libHook, unread, connState, powers,
                     staged, flight, left>>
  BY DEF EvictCache, program, records
<1>2. /\ hCache' \in [Ctx -> Key \cup {0}]
      /\ \A d \in Ctx : hCache'[d] # 0 => hCache'[d] = hCache[d]
      /\ \A d \in Ctx : hCache[d] = 0 => hCache'[d] = 0
  BY <1>1 DEF HInv, TypeOK
<1>3. TypeOK'
  BY <1>1, <1>2 DEF HInv, TypeOK
<1>4. CacheFresh' /\ UnhookedEmpty' /\ MisreadKnown'
  BY <1>1, <1>2 DEF HInv, CacheFresh, UnhookedEmpty, MisreadKnown, Misread
<1>5. OwnContext' /\ OwnKey' /\ FlightOK' /\ TagOfOwnKey'
  BY <1>1 DEF HInv, OwnContext, OwnKey, FlightOK, TagOfOwnKey
<1>6. QED
  BY <1>3, <1>4, <1>5 DEF HInv

\* The records an eviction marks keep the rest.
LEMMA EvictedShape ==
  ASSUME TypeOK, NEW o \in Ssl, NEW c \in Conn
  PROVE  /\ Evicted(o)[c] \in Flight \cup {None}
         /\ staged[c] # o => Evicted(o)[c] = flight[c]
         /\ Evicted(o)[c] # None =>
              /\ flight[c] # None
              /\ Evicted(o)[c].key = flight[c].key
              /\ Evicted(o)[c].misread = flight[c].misread
              /\ staged[c] = o => Evicted(o)[c].evicted
BY DEF TypeOK, Evicted, Flight

\* Records of which some keep their key and their history, and the others go.
LEMMA FewerRecords ==
  ASSUME HInv, flight' \in [Conn -> Flight \cup {None}],
         \A d \in Conn : flight'[d] # None =>
           /\ flight[d] # None
           /\ flight'[d].key = flight[d].key
           /\ flight'[d].misread = flight[d].misread,
         UNCHANGED <<ssl, ctxKey, conns, keys, libHook, hCache, unread, staged>>
  PROVE  OwnKey' /\ MisreadKnown' /\ CacheFresh' /\ OwnContext' /\ UnhookedEmpty'
<1>1. OwnKey' /\ MisreadKnown'
  BY DEF HInv, OwnKey, MisreadKnown, Misread
<1>2. CacheFresh' /\ OwnContext' /\ UnhookedEmpty'
  BY DEF HInv, CacheFresh, OwnContext, UnhookedEmpty
<1>3. QED
  BY <1>1, <1>2

\* The kernel evicts the entry of o: its records are excepted from now on.
LEMMA EvictStateKeepsInv ==
  ASSUME HInv, NEW o \in Ssl, EvictState(o)
  PROVE  HInv'
<1>1. /\ connState' = [connState EXCEPT ![o] = 0] /\ flight' = Evicted(o)
      /\ UNCHANGED <<ssl, ctxKey, conns, keys, libHook, hCache, unread, powers, staged, left>>
  BY DEF EvictState, program, cache
<1>2. TypeOK
  BY DEF HInv
<1>3. /\ connState' \in [Ssl -> Key \cup {0}] /\ connState'[o] = 0
      /\ \A q \in Ssl \ {o} : connState'[q] = connState[q]
  BY <1>1, <1>2 DEF TypeOK
<1>4. flight' \in [Conn -> Flight \cup {None}]
  BY <1>1, <1>2, EvictedShape DEF Evicted
<1>5. \A d \in Conn : flight'[d] # None =>
        /\ flight[d] # None
        /\ flight'[d].key = flight[d].key
        /\ flight'[d].misread = flight[d].misread
  BY <1>1, <1>2, EvictedShape
<1>6. OwnKey' /\ MisreadKnown' /\ CacheFresh' /\ OwnContext' /\ UnhookedEmpty'
  BY <1>1, <1>4, <1>5, FewerRecords
<1>7. TypeOK' /\ TagOfOwnKey'
  BY <1>1, <1>3, <1>4 DEF HInv, TypeOK, TagOfOwnKey
<1>8. FlightOK'
  BY <1>1, <1>2, <1>3, EvictedShape DEF HInv, FlightOK
<1>9. QED
  BY <1>6, <1>7, <1>8 DEF HInv

\* A record leaves, with the H FlightOK promised it, or is lost.
LEMMA EgressKeepsInv ==
  ASSUME HInv, NEW c \in Conn, Lose(c) \/ \E p \in Cpu : Egress(c, p)
  PROVE  HInv'
<1>1. /\ flight[c] # None /\ flight' = [flight EXCEPT ![c] = None]
      /\ UNCHANGED <<ssl, ctxKey, conns, keys, libHook, hCache, unread, connState, staged>>
  BY DEF Egress, Lose, program, cache
<1>2. /\ flight \in [Conn -> Flight \cup {None}]
      /\ connState \in [Ssl -> Key \cup {0}] /\ powers \in [Cpu -> Key \cup {0}]
  BY DEF HInv, TypeOK
<1>3. /\ flight' \in [Conn -> Flight \cup {None}]
      /\ \A d \in Conn : flight'[d] # None => flight'[d] = flight[d]
  BY <1>1, <1>2
<1>4. OwnKey' /\ MisreadKnown' /\ CacheFresh' /\ OwnContext' /\ UnhookedEmpty'
  BY <1>1, <1>3, FewerRecords
<1>5. FlightOK'
  BY <1>1, <1>3 DEF HInv, FlightOK
<1>6. CASE Lose(c)
  <2>1. UNCHANGED <<powers, left>>
    BY <1>6 DEF Lose
  <2>2. TypeOK' /\ TagOfOwnKey'
    BY <1>1, <1>3, <2>1 DEF HInv, TypeOK, TagOfOwnKey
  <2>3. QED
    BY <1>4, <1>5, <2>2 DEF HInv
<1>7. ASSUME NEW p \in Cpu, Egress(c, p)
      PROVE  HInv'
  <2> DEFINE h == IF connState[staged[c]] # 0 THEN connState[staged[c]] ELSE powers[p]
  <2>1. /\ left' = [h |-> h, key |-> flight[c].key, overtaken |-> flight[c].overtaken,
                    misread |-> flight[c].misread, evicted |-> flight[c].evicted]
        /\ powers' = [powers EXCEPT ![p] = h]
    BY <1>7 DEF Egress, Leaves
  <2>2. /\ flight[c] \in Flight /\ staged[c] \in Ssl
        /\ connState[staged[c]] # 0 \/ flight[c].evicted
        /\ \/ connState[staged[c]] = flight[c].key
           \/ flight[c].overtaken \/ flight[c].misread \/ flight[c].evicted
    BY <1>1, <1>2 DEF HInv, FlightOK
  <2>3. /\ h # 0 \/ flight[c].evicted
        /\ h = flight[c].key \/ flight[c].overtaken \/ flight[c].misread \/ flight[c].evicted
    BY <2>2
  <2>4. /\ flight[c].key \in Key /\ flight[c].overtaken \in BOOLEAN
        /\ flight[c].misread \in BOOLEAN /\ flight[c].evicted \in BOOLEAN
    BY <2>2 DEF Flight
  <2>5. h \in Key \cup {0}
    BY <1>2, <2>2
  <2> HIDE DEF h
  <2>6. left' \in Left /\ powers' \in [Cpu -> Key \cup {0}]
    BY <1>2, <2>1, <2>4, <2>5 DEF Left
  <2>7. TypeOK'
    BY <1>1, <1>3, <2>1, <2>3, <2>6 DEF HInv, TypeOK
  <2>8. TagOfOwnKey'
    BY <2>1, <2>3 DEF TagOfOwnKey
  <2>9. QED
    BY <1>4, <1>5, <2>7, <2>8 DEF HInv
<1>8. QED
  BY <1>6, <1>7

\* A record leaves while its entry is evicted: it is excepted itself, and so
\* are the other records of its SSL object.
LEMMA TornKeepsInv ==
  ASSUME HInv, NEW c \in Conn, NEW p \in Cpu, EgressTorn(c, p)
  PROVE  HInv'
<1> DEFINE o == staged[c]
           h == IF powers[p] = connState[o] THEN powers[p] ELSE 0
<1>1. /\ flight[c] # None /\ flight' = [Evicted(o) EXCEPT ![c] = None]
      /\ connState' = [connState EXCEPT ![o] = 0]
      /\ left' = [h |-> h, key |-> flight[c].key, overtaken |-> flight[c].overtaken,
                  misread |-> flight[c].misread, evicted |-> TRUE]
      /\ powers' = [powers EXCEPT ![p] = h]
      /\ UNCHANGED <<ssl, ctxKey, conns, keys, libHook, hCache, unread, staged>>
  BY DEF EgressTorn, Leaves, program, cache
<1>2. TypeOK
  BY DEF HInv
<1>3. /\ flight[c] \in Flight /\ o \in Ssl /\ h \in Key \cup {0}
  BY <1>1, <1>2 DEF HInv, FlightOK, TypeOK
<1> HIDE DEF o, h
<1>4. /\ connState' \in [Ssl -> Key \cup {0}] /\ connState'[o] = 0
      /\ \A q \in Ssl \ {o} : connState'[q] = connState[q]
  BY <1>1, <1>2, <1>3 DEF TypeOK
<1>5. Evicted(o) \in [Conn -> Flight \cup {None}]
  BY <1>2, <1>3, EvictedShape DEF Evicted
<1>6. /\ flight' \in [Conn -> Flight \cup {None}]
      /\ \A d \in Conn : flight'[d] # None => flight'[d] = Evicted(o)[d]
  BY <1>1, <1>5
<1>7. \A d \in Conn : flight'[d] # None =>
        /\ flight[d] # None
        /\ flight'[d].key = flight[d].key
        /\ flight'[d].misread = flight[d].misread
  BY <1>2, <1>3, <1>6, EvictedShape
<1>8. OwnKey' /\ MisreadKnown' /\ CacheFresh' /\ OwnContext' /\ UnhookedEmpty'
  BY <1>1, <1>6, <1>7, FewerRecords
<1>9. left' \in Left /\ left'.evicted /\ powers' \in [Cpu -> Key \cup {0}]
  BY <1>1, <1>2, <1>3 DEF Left, Flight, TypeOK
<1>10. TypeOK' /\ TagOfOwnKey'
  BY <1>1, <1>4, <1>6, <1>9 DEF HInv, TypeOK, TagOfOwnKey
<1>11. FlightOK'
  BY <1>1, <1>2, <1>3, <1>4, <1>6, EvictedShape DEF HInv, FlightOK
<1>12. QED
  BY <1>8, <1>10, <1>11 DEF HInv

\* Every step of the library, the hooks, the kprobe and tc keeps HInv.
LEMMA HStep == HInv /\ [Next]_vars => HInv'
<1> SUFFICES ASSUME HInv, [Next]_vars
             PROVE  HInv'
  OBVIOUS
<1>1. CASE UNCHANGED vars
  <2>1. UNCHANGED <<ssl, ctxKey, conns, keys, libHook, hCache, unread, connState, powers,
                    staged, flight, left>>
    BY <1>1 DEF vars, program, cache, records
  <2>2. QED
    BY <2>1 DEF HInv, TypeOK, CacheFresh, TagOfOwnKey, OwnContext, OwnKey, UnhookedEmpty,
                FlightOK, MisreadKnown, Misread
<1>2. CASE HookLibcrypto \/ \E o \in Ssl : SslFree(o)
  BY <1>2, HookOrFreeKeepsInv
<1>3. CASE \E o \in Ssl, e \in Ctx : SslOpen(o, e) \/ Rekey(o, e)
  BY <1>3, OpenKeepsInv, RekeyKeepsInv
<1>4. CASE \E e \in Ctx : OtherCipher(e) \/ EvictCache(e)
  BY <1>4, OtherCipherKeepsInv, EvictCacheKeepsInv
<1>5. CASE \E o \in Ssl, kept \in BOOLEAN : WriteExtracted(o, kept)
  BY <1>5, ExtractedKeepsInv
<1>6. CASE \E o \in Ssl : WriteWalked(o) \/ EvictState(o)
  BY <1>6, WalkedKeepsInv, EvictStateKeepsInv
<1>7. CASE \E c \in Conn : (\E p \in Cpu : Egress(c, p) \/ EgressTorn(c, p)) \/ Lose(c)
  BY <1>7, EgressKeepsInv, TornKeepsInv
<1>8. QED
  BY <1>1, <1>2, <1>3, <1>4, <1>5, <1>6, <1>7 DEF Next

----------------------------------------------------------------------------
\* HInv holds throughout.
LEMMA HInvariant == Spec => []HInv
BY HInit, HStep, PTL DEF Spec

\* The objects, caches and records keep their shapes, a connection in use has
\* a keyed context, and no tag is corrected without an H unless its entry of
\* tls_conn_state was evicted.
THEOREM TypeCorrect == Spec => []TypeOK
<1>1. HInv => TypeOK
  BY DEF HInv
<1>2. QED
  BY <1>1, HInvariant, PTL

\* evp_h_cache never holds the H of an earlier key of a context, or of an
\* earlier user of its address, unless the hook failed to read the context
\* (bpf_uretprobe_evp_cipher_init, bpf_h_extract).
THEOREM CacheStaysFresh == Spec => []CacheFresh
<1>1. HInv => CacheFresh
  BY DEF HInv
<1>2. QED
  BY <1>1, HInvariant, PTL

\* Every patched record's tag is corrected with the H of the key the record
\* was encrypted with (tls_conn_state, tc_egress_patch), but for the three
\* cases the property names: no other order of writes, key updates, reuse of SSL
\* objects and contexts, and departures of records mixes two keys up.
THEOREM OwnKeyCorrectsTag == Spec => []TagOfOwnKey
<1>1. HInv => TagOfOwnKey
  BY DEF HInv
<1>2. QED
  BY <1>1, HInvariant, PTL
=============================================================================
