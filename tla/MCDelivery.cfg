SPECIFICATION FairSpec
CONSTANTS
  k1 = k1  k2 = k2  w1 = w1  w2 = w2
  Conns = {c1, c2}
  Clients = {w1, w2}
  Commands = {k1}
  Issuer <- OneIssuer
  CatalogCommands = {k1}
  ReplayLimit = 1
  SendFailures = FALSE
  Overlap = FALSE
  MaxSequence = 3
  MaxConnection = 3
  None = None
INVARIANTS AppliedIsPublished
PROPERTIES BroadcastIsDelivered
CHECK_DEADLOCK FALSE
