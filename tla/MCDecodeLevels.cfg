SPECIFICATION Spec
CONSTANTS
  Cases <- MCCases
  Taps = 4
  Refreshed = 19
INVARIANTS LineageKept LedgerCovers
