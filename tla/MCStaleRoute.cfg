SPECIFICATION Spec
CONSTANTS
  k1 = k1
  k2 = k2
  None = None
  Keys <- MCKeys
  Sends <- MCSends
  Capacity = 3
  MaxFrames = 2
SYMMETRY MCSymmetry
INVARIANT RouteEntersIt
