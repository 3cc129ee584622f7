SPECIFICATION FairSpec
CONSTANTS
  Sanitize <- Sanitized
  MaxInt = 7
  Payloads <- AllPayloads
  Creations <- AllCreations
  Deletions <- AllDeletions
  Compatible <- TypesAgree
  MaxSubpatchDepth = 2
  MaxRequests = 3
  Root = Root
  None <- Nothing
INVARIANTS CatalogTextCreates SavedObjectsLoad
PROPERTIES PlansTheDocument PlanningEnds
CHECK_DEADLOCK FALSE
