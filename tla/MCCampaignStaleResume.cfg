SPECIFICATION Spec
CONSTANTS
  Experiments <- Single
  Environments <- SparkSettings
  Acceptance = TRUE
  Stamps = TRUE
  EarlyExits = FALSE
  Interrupts = FALSE
  Lingering = FALSE
  MaxInvocations = 3
INVARIANTS ResumedEvidence
CHECK_DEADLOCK FALSE
