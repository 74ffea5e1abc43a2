SPECIFICATION TimersSpec
CONSTANTS
  Sleepers = {a, b, c, d}
  Delays = {1, 6, 8}
  MaxTime = 9
  off = off
SYMMETRY Symmetry
INVARIANTS TimersAgree Armed
PROPERTY NoneOverdue
