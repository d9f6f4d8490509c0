SPECIFICATION Spec

CONSTANTS
  MaxEncodeDepth = 6
  MaxDecodeDepth = 3
  Cases <- MCCases
  DamagedCases <- MCDamagedCases
  DamagedBytes <- MCDamagedBytes
  DamagedTargets <- MCDamagedTargets

INVARIANTS
  ValuesRoundTrip
  ValueDamageContained
