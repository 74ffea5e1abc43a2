SPECIFICATION ReadySpec
CONSTANTS
  Procs = {a, b, c}
  Priorities = {5}
  nil = nil
PROPERTY RoundRobin
