CONSTANTS
  NoRef = NoRef
  NoKey = NoKey
  OddKey = OddKey
  NoId = NoId
  Ref1 = Ref1
  Ref2 = Ref2
  Ref3 = Ref3
  Calls <- MCCalls
SPECIFICATION Spec
INVARIANTS ValidatorIsExact AdaptationFaithful NormalisationAttributed LcsIsLongest
