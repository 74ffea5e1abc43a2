SPECIFICATION Spec
CONSTANTS
  a = a
  b = b
  c = c
  Procs = {a, b, c}
  Semas <- MCSemas
  Producers = {a}
  Limit = 1
  Repeats = 2
  Nesting <- MCNesting
  Suspendable = {b, c}
  nullSemaphore = nullSemaphore
  nil = nil
INVARIANT NobodyArrives
