SPECIFICATION Spec
CONSTANTS
  Ceiling = 4
  Refreshed = 1
  Margin = 1
  GroupLimit = 3
  Depth = 8
  Size = 5
  Programs <- MCPrograms
  Options <- MCOptions
  BootLevels <- MCBootLevels
INVARIANTS HandleIntegrity RetainedExactly BasisSound BasesDropped
INVARIANTS DirtyOnlyGathered NeverBootsUnmasked DepthBudget PlanIsExact
INVARIANTS PlanPredictionCurrent PlanLocallyOptimal
PROPERTIES EvaluatesDag
