SPECIFICATION Spec
CONSTANTS
  x1 = x1
  x2 = x2
  x3 = x3
  Objects <- MCObjects
  Sizes <- MCSizes
  N = 15
  nfree = 2
  MaxDistance = 9
  maxOneByteLen = 9
  Nowhere <- MCNowhere
  Unknown <- MCUnknown
INVARIANTS
  MapAgrees
  Combined
  FindsStart
  SweepGoesOn
PROPERTIES
  IsHeap
