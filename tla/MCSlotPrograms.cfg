\* The slot routines: layouts, routing, rotations and their costs.
CONSTANTS
  ManyOffsets = 2
  Radix = 4
  Jobs <- MCJobs
SPECIFICATION Spec
INVARIANTS
  ProjectionExact
  RoutingExact
  BuilderExact
  StateLayoutExact
  DepthCounted
  KeysCover
CHECK_DEADLOCK FALSE
