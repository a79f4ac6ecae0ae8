CONSTANTS
  WeightId = 55
  WeightSignature = 30
  WeightLabel = 0
  WeightChildren = 15
  HardNodeType = TRUE
  NoValue = NoValue
  Sources = {1, 2, 3}
  Targets = {1, 2}
  Ids = {1, 2}
  SourceInputs <- MCSourceInputs
  TargetInputs <- MCTargetInputs
  AuthoritativeId = TRUE
  MatchThreshold = 600000
  ProbableThreshold = 400000
  AmbiguityMargin = 50000
SPECIFICATION Spec
INVARIANTS TypeOK ConfirmedOneToOne ConfirmedDominates NeverRaises
PROPERTY ImplementsPolicy
