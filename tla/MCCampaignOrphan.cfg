SPECIFICATION Spec
CONSTANTS
  Experiments <- Ladder
  Environments <- LadderSettings
  Acceptance = TRUE
  Stamps = FALSE
  EarlyExits = FALSE
  Interrupts = TRUE
  Lingering = FALSE
  MaxInvocations = 1
INVARIANTS RunnerEndsWithCampaign
CHECK_DEADLOCK FALSE
