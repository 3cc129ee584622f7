SPECIFICATION Spec
CONSTANTS
  n1 = n1  n2 = n2  e1 = e1  e2 = e2  box = box  bang = bang  x0 = x0  x1 = x1  alice = alice  bob = bob
  NodeIds <- MCNodeIds
  EdgeIds <- MCEdgeIds
  Contents = {box, bang}
  Sources <- MCSources
  Sinks <- MCSinks
  Positions = {x0, x1}
  DefaultView = x0
  PatchIds = {}
  Root = Root
  AnyView = AnyView
  Actors = {alice, bob}
  Controls = {idle, played}
  DefaultControl = idle
  Projects <- MCProjects
  InitialDefs <- MCSources
  ChangeSets <- MCChangeSets
  ViewPatches <- MCViewPatches
  Fragments <- MCFragments
  NoProject = NoProject
  MaxRevision = 5
INVARIANTS ViewCoversNodes SessionPlannable PlanIsCurrent HistoryMatchesLog
PROPERTIES UndoKeepsOthersWork RevisionNamesDocument
CHECK_DEADLOCK FALSE
SYMMETRY ActorSymmetry
