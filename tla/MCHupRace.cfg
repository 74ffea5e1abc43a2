SPECIFICATION Spec
CONSTANTS
  u1 = u1
  u2 = u2
  h1 = h1
  h2 = h2
  h3 = h3
  Procs <- MCProcs3
  Adders <- MCLoggers
  Removers <- MCHandlers3
  Semas <- MCSemas
  nullSemaphore = nullSemaphore
  none = none
  deadProcess = deadProcess
  Overlapping = TRUE
  MaxQueue = 1
  MaxCount = 2
INVARIANT NoneAsleep
