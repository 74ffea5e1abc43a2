SPECIFICATION SpecRemove
CONSTANTS
  Items <- Six
  Rank <- DistinctSix
  none = none
PROPERTY IsPriorityQueue
