SPECIFICATION Spec
CONSTANTS
  Sessions = {s1, s2}
  Requests = {r1, r2}
  Values = {v0, v1}
  Default = v0
  MaxRevision = 2
  MaxControl = 1
  MaxStarts = 2
  MaxLost = 1
  MaxServed = 1
  None = None
SYMMETRY SessionSymmetry
INVARIANTS NoUnknownChild RendersSessionPlan ControlStatusIsTrue ClearStopsPreview
CHECK_DEADLOCK FALSE
