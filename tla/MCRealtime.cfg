SPECIFICATION Spec
CONSTANTS
  k1 = k1  k2 = k2  w1 = w1  w2 = w2
  Conns = {c1, c2}
  Clients = {w1, w2}
  Commands = {k1, k2}
  Issuer <- TwoIssuers
  CatalogCommands = {k1}
  ReplayLimit = 1
  SendFailures = TRUE
  Overlap = FALSE
  MaxSequence = 3
  MaxConnection = 3
  None = None
SYMMETRY SocketSymmetry
INVARIANTS NoSilentLoss KnownIsApplied RetryIsRemembered OneTokenPerIdentity
CHECK_DEADLOCK FALSE
