SPECIFICATION Spec
CONSTANTS
  Experiments <- Single
  Environments <- Builds
  Acceptance = FALSE
  Stamps = TRUE
  EarlyExits = TRUE
  Interrupts = TRUE
  Lingering = TRUE
  MaxInvocations = 3
INVARIANTS IdentityHolds
PROPERTIES ResumeReuses
CHECK_DEADLOCK FALSE
