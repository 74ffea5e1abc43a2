SPECIFICATION BusySpec
CONSTANTS
  u1 = u1
  u2 = u2
  h1 = h1
  h2 = h2
  h3 = h3
  Procs <- MCProcs
  Adders <- MCLoggers
  Removers <- MCHandlers
  Semas <- MCSemas
  nullSemaphore = nullSemaphore
  none = none
  deadProcess = deadProcess
  Overlapping = FALSE
  MaxQueue = 2
  MaxCount = 2
INVARIANT NoneAsleep
PROPERTIES IsQueue LogDrains
