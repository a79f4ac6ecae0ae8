CONSTANTS
  WeightId = 50
  WeightSignature = 40
  WeightLabel = 30
  WeightChildren = 20
  HardNodeType = TRUE
  NoValue = NoValue
  Sources = {1, 2, 3}
  Targets = {1, 2, 3}
  Ids = {1, 2}
  SourceInputs <- MCSourceInputs
  TargetInputs <- MCTargetInputs
  AuthoritativeId = FALSE
  MatchThreshold = 0
  ProbableThreshold = 0
  AmbiguityMargin = 150000
SPECIFICATION Spec
INVARIANTS AmbiguousNeverConfirmed
PROPERTY ImplementsPolicy
