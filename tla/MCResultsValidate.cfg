SPECIFICATION Spec
CONSTANTS
  Operations <- AllOperations
  Batches <- SomeBatches
  Participants = {1, 2}
  RetentionLimit = 2
  PresenceLimit = 1
  MaxSequence = 4
  MaxTime = 1
  None = None
INVARIANTS ResultsValidate
CHECK_DEADLOCK FALSE
