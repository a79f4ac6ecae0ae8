CONSTANTS
  WeightId = 55
  WeightSignature = 30
  WeightLabel = 0
  WeightChildren = 15
  HardNodeType = TRUE
  NoValue = NoValue
  NoNode = NoNode
  Sources = {1, 2, 3, 4}
  Targets = {1, 2, 3, 4}
  Root = 1
  Ids = {1, 2}
  AuthoritativeId = TRUE
  MatchThreshold = 600000
  ProbableThreshold = 400000
  AmbiguityMargin = 50000
  SourceTrees <- MCRepeats
  TargetTrees <- MCRepeats
  Commands <- MCPackaged
SPECIFICATION Spec
INVARIANT IdentityIsSilent
