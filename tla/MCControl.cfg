SPECIFICATION FairSpec
CONSTANTS
  Graphs <- AllGraphs
  Events <- AllEvents
  IntRange <- Ranges
  UintMax <- Maxima
  FloatMax <- Narrow
  MaxFloat = 10
  SafetyLimit = 6
  MaxEvents = 4
INVARIANTS ValuesKeepTheirType ReceiversFollowChannel TargetsFollowReports
PROPERTIES EventsEnd
CHECK_DEADLOCK FALSE
