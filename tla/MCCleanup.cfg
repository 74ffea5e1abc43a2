SPECIFICATION CleanupSpec
CONSTANTS
  p1 = p1
  p2 = p2
  p3 = p3
  l1 = l1
  e1 = e1
  Procs = {p1, p2, p3}
  Initial = {p1, p2}
  Locks = {l1}
  Recursive = {l1}
  Events = {e1}
  EventCapacity = 1
  Timeouts <- MCTimeouts
  Users <- MCUsers
  Watched = {p3}
  nullSemaphore = nullSemaphore
  nil = nil
SYMMETRY MCSymmetry
CHECK_DEADLOCK FALSE
INVARIANTS WaitersAgree NoMissedRelease
