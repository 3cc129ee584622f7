SPECIFICATION Spec
CONSTANTS
  Clients = {c1, c2}
  Requests <- Frames
  Resolution <- Texts
  Document <- Loaded
  Feeds <- Connected
  Root = Root
  Patch = Patch
  PresenceLimit = 1
  MaxFrames = 3
  MaxOutside = 1
  None = None
INVARIANTS LatestToldIsCurrent CatalogIsTold
SYMMETRY Symmetric
CHECK_DEADLOCK FALSE
