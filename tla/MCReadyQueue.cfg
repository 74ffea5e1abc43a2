SPECIFICATION ReadySpec
CONSTANTS
  Procs = {a, b, c, d}
  Priorities = {1, 5}
  nil = nil
INVARIANT ReadyQAgrees
PROPERTIES HighestFirst TopRuns
