SPECIFICATION Spec
CONSTANTS
  Experiments <- Chain
  Environments <- Variants
  Acceptance = TRUE
  Stamps = TRUE
  EarlyExits = FALSE
  Interrupts = FALSE
  Lingering = FALSE
  MaxInvocations = 2
INVARIANTS GateEvidence PassedReportSound ExecutedEvidence PayloadHolds
INVARIANTS RunnerEndsWithCampaign
PROPERTIES FailsFast Ends
CHECK_DEADLOCK FALSE
