CONSTANTS
  p1 = p1
  p2 = p2
  p3 = p3
  l1 = l1
  e1 = e1
  Procs = {p1, p2}
  Initial = {p1, p2}
  Locks = {l1}
  Recursive = {l1}
  Events = {}
  EventCapacity = 1
  Timeouts <- MCTimeouts
  Users <- MCUsers
  Watched = {}
  nullSemaphore = nullSemaphore
  nil = nil
SPECIFICATION Spec
CHECK_DEADLOCK FALSE
INVARIANT MutualExclusion
