SPECIFICATION Spec
CONSTANTS
  Cases <- MCLevelDriven
  Taps = 4
  Refreshed = 19
INVARIANTS LineageKept
