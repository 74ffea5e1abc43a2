SPECIFICATION BusySpec
CONSTANTS
  a = a
  b = b
  c = c
  Procs = {a, b, c}
  Semas <- MCSemas
  Producers = {a}
  Limit = 3
  Repeats = 2
  Nesting <- MCNesting
  Suspendable = {b, c}
  nullSemaphore = nullSemaphore
  nil = nil
INVARIANTS OnePermit HolderAgrees
PROPERTY ConditionWaitersReturn
