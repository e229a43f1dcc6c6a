SPECIFICATION Spec
CONSTANTS
  Positions = 6
  BatchPerThread = 2
  ThreadCounts = {1, 2, 3}
  Works <- MCWorks
INVARIANTS LookAheadBounded NoSharedJob
PROPERTIES RefinesSerial
CHECK_DEADLOCK FALSE
