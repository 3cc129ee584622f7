SPECIFICATION MCSpec
CONSTANTS
  num = num  tone = tone  con = con  mix = mix  dac = dac  aux = aux  d1 = d1  d2 = d2  e1 = e1  p1 = p1  p2 = p2
  Graphs <- MCGraphs
  Options <- MCOptions
  Callbacks = {0, 1, 2, 3, 5}
  MaxBlocks = 4
  Turn = 5
  DefaultFrequency = 2
  NoParam = NoParam
  NoDomain = NoDomain
  Kinds = {"session", "collaboration"}
  ReplayLimit = 2
  MaxSequence = 5
  None = None
  ExtensionDirs <- MCExtensionDirs
  PackageDirs <- MCPackageDirs
  Contents <- MCContents
  MaxChanges = 1
  NoPath = NoPath
  NoFile = NoFile
  Handlers = {1, 2}
  LogStreams = {1}
  Answers <- MCAnswers
  BacklogLimit = 2
  ChannelCapacity = 2
  MaxLogEvents = 5
  NoEvent = NoEvent
  Fixtures <- MCFixtures
  Unavailable = Unavailable
INVARIANTS RenderingIsSignal CrossingsAreJudged
  LossOnlyWhileOpening TwiceOnlyWhenLate
  LogNotLost LoadedIsUsable ReadyIsWhole PositionIsEarned
CHECK_DEADLOCK FALSE
