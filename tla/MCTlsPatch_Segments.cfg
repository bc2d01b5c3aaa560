\* TLS version unknown, handshake coalesced, cuts anywhere but inside tags.
CONSTANTS
  c1 = c1
  c2 = c2
  k = k
  j = j
  None = None
  Secret <- Secrets2
  Bound <- Secrets2
  HdrLen = 1
  NonceLen = 2
  TypeLen = 1
  TagLen = 2
  Leading = 1
  Scan = 2
  Thread = {t1}
  Conn <- BothConns
  Version <- Versions
  Payload <- AnyPayload
  KnowsVersion = FALSE
  MemoryBio <- SocketBios
  Pipelined = FALSE
  LazyHandshake = FALSE
  HMayFail = FALSE
  Evicts = FALSE
  FinishedLen = 6
  MaxRecord = 4
  MaxMatches = 2
  ISN = 5
  SeqSpace = 1000
  Cuts = "outsideTags"
  MaxWrites = 2
  MaxLosses = 0
  PartsLost = FALSE
  Allowed <- AllowedOn
SPECIFICATION Spec
INVARIANTS
  TagAhead
  RecordsValid
CHECK_DEADLOCK FALSE
