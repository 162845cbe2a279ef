\* The scheduler with room for every process.
CONSTANTS
  p1 = p1
  p2 = p2
  p3 = p3
  p4 = p4
  NULL = NULL
  Proc <- MCProc
  prio <- MCprio
  MAX_PRIO = 3
  MAX_QUEUE_SIZE = 2
  num_cpus = 2

SPECIFICATION FairSpec

INVARIANTS
  TypeOK
  OneOwner
  NothingLost

PROPERTIES
  TurnProgress
  WaitShortens
  ImplementsPool
  NoStarvation
