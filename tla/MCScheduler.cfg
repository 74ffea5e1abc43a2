CONSTANTS
  p1 = p1
  p2 = p2
  p3 = p3
  l1 = l1
  e1 = e1
  Procs = {p1, p2, p3}
  Initial = {p1, p2}
  Locks = {l1}
  Recursive = {}
  Events = {}
  EventCapacity = 1
  Timeouts <- MCTimeouts
  Users <- MCUsers
  Watched = {}
  nullSemaphore = nullSemaphore
  nil = nil
SPECIFICATION Spec
SYMMETRY MCSymmetry
CHECK_DEADLOCK FALSE
INVARIANT TypeOK
INVARIANT QueuesAgree
INVARIANT TimersAreForWaiters
INVARIANT WaitersAgree
INVARIANT NoLostWakeup
INVARIANT PermitConservation
INVARIANT TimedOutIffNotGranted
INVARIANT MutualExclusion
