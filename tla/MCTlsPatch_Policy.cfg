\* A memory BIO and a socket, two threads, lazy handshakes, pipelined writes, failing H,
\* losses, evicted entries, any segments.
CONSTANTS
  c1 = c1
  c2 = c2
  k = k
  j = j
  None = None
  Secret <- Secrets2
  Bound <- Secrets2
  HdrLen = 1
  NonceLen = 2
  TypeLen = 1
  TagLen = 2
  Leading = 1
  Scan = 2
  Thread = {t1, t2}
  Conn <- BothConns
  Version <- Versions
  Payload <- JustNarrow
  KnowsVersion = FALSE
  MemoryBio <- MixedBios
  Pipelined = TRUE
  LazyHandshake = TRUE
  HMayFail = TRUE
  Evicts = TRUE
  FinishedLen = 1
  MaxRecord = 4
  MaxMatches = 2
  ISN = 5
  SeqSpace = 1000
  Cuts = "anywhere"
  MaxWrites = 2
  MaxLosses = 1
  PartsLost = TRUE
  Allowed <- AllowedOn
SPECIFICATION Spec
INVARIANTS
  SecretOnlyWhereAllowed
CHECK_DEADLOCK FALSE
