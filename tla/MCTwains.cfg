SPECIFICATION FairSpec
CONSTANTS
  below = below
  above = above
  Scheduler = Scheduler
  Nobody = Nobody
  Procs <- MCProcs
  StackAt <- MCStackAt
  MaxPending = 1
INVARIANTS
  ResultIsReal
  SteppedStops
  OnlyReadyRuns
PROPERTIES
  SignalsReachSelf
