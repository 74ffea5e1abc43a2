SPECIFICATION SpecRemove
CONSTANTS
  Items <- Five
  Rank <- TiedFive
  none = none
INVARIANTS TypeOK HeapOrder
PROPERTY IsPriorityQueue
