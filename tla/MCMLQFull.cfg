\* More processes of one priority than a queue has room for.
CONSTANTS
  p1 = p1
  p2 = p2
  p3 = p3
  p4 = p4
  NULL = NULL
  Proc <- MCProc
  prio <- MCprio
  MAX_PRIO = 3
  MAX_QUEUE_SIZE = 1
  num_cpus = 1

SPECIFICATION Spec

INVARIANT NothingLost
