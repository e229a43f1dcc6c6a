SPECIFICATION FairSpec
CONSTANTS
  Runners = {r1, r2}
  Campaigns <- MCCampaigns
  r1 = r1
  r2 = r2
  Reserve = 2
  Grace = 1
  Overhead = 1
  MaxFaults = 1
  None = None
INVARIANTS BudgetKept GpuSecondsWithinLimit PassedIsOwn
PROPERTIES EveryRunnerEnds
CHECK_DEADLOCK FALSE
