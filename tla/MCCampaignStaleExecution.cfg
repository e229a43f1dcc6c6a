SPECIFICATION Spec
CONSTANTS
  Experiments <- Single
  Environments <- SparkSettings
  Acceptance = TRUE
  Stamps = TRUE
  EarlyExits = TRUE
  Interrupts = FALSE
  Lingering = FALSE
  MaxInvocations = 2
INVARIANTS ExecutedEvidence
CHECK_DEADLOCK FALSE
