SPECIFICATION Spec
CONSTANTS
  Size = 4
  MaxOutputs = 2
  Programs <- MCPrograms
INVARIANTS FinalUseIsLast ReleaseExact NeverStalls
PROPERTIES EpochBarrier RefinesDag
CHECK_DEADLOCK FALSE
