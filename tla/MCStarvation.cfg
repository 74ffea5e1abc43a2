SPECIFICATION FairSpec
CONSTANTS
  a = a
  b = b
  c = c
  Procs = {a, b, c}
  Semas <- MCSemas
  Producers = {a}
  Limit = 1
  Repeats = 2
  Nesting <- MCNesting
  Suspendable = {}
  nullSemaphore = nullSemaphore
  nil = nil
PROPERTY NobodyStarves
