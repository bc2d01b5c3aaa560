\* One thread, socket BIO, request by request, cuts after the placeholders,
\* whole records lost.
CONSTANTS
  c1 = c1
  c2 = c2
  k = k
  j = j
  None = None
  Secret <- Secrets2
  Bound <- Secrets2
  HdrLen = 1
  NonceLen = 2
  TypeLen = 1
  TagLen = 2
  Leading = 1
  Scan = 2
  Thread = {t1}
  Conn <- BothConns
  Version <- AllTls12
  Payload <- PlainTwoOrLong
  KnowsVersion = TRUE
  MemoryBio <- SocketBios
  Pipelined = FALSE
  LazyHandshake = FALSE
  HMayFail = FALSE
  Evicts = FALSE
  FinishedLen = 6
  MaxRecord = 4
  MaxMatches = 2
  ISN = 5
  SeqSpace = 1000
  Cuts = "afterSecrets"
  MaxWrites = 2
  MaxLosses = 2
  PartsLost = FALSE
  Allowed <- AllowedOn
SPECIFICATION Spec
INVARIANTS
  TypeOK
  TagAhead
  RecordsValid
  Replaced
CHECK_DEADLOCK FALSE
