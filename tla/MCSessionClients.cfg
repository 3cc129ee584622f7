SPECIFICATION ClientSpec
CONSTANTS
  n1 = n1  n2 = n2  e1 = e1  box = box  bang = bang  p1 = p1  x0 = x0  x1 = x1  alice = alice  bob = bob
  NodeIds = {n1, n2}
  EdgeIds = {e1}
  Contents = {box, bang}
  Sources <- MCSources
  Sinks <- MCSources
  Positions = {x0, x1}
  DefaultView = x0
  PatchIds = {p1}
  Root = Root
  AnyView = AnyView
  Actors = {alice, bob}
  Clients = {alice}
  NoSnapshot = NoSnapshot
  Controls = {idle}
  DefaultControl = idle
  Projects <- MCProjects
  InitialDefs <- MCSources
  ChangeSets <- MCChangeSets
  ViewPatches <- MCViewPatches
  Fragments = {}
  NoProject = NoProject
  MaxRevision = 4
INVARIANT RootRevisionNamesGraph
CHECK_DEADLOCK FALSE
