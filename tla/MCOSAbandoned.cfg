\* Is everything finished when the CPUs have stopped?  The CPU may have found
\* the queues empty just before the loader added the last process.
CONSTANTS
  p1 = p1
  p2 = p2
  p3 = p3
  p4 = p4
  NULL = NULL
  LOADER = LOADER
  CPU = {c1}
  Proc <- MCProc
  prio <- MCprio
  ld_processes <- MCld_processes
  StartTimes <- MCStartTimes
  code_size <- MCcode_size
  MAX_PRIO = 2
  MAX_QUEUE_SIZE = 3
  time_slot = 2
  TimeWidth = 6

SPECIFICATION Spec

INVARIANT NoneAbandoned
