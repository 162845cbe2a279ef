\* Does every CPU stop?  An idle one does not.
CONSTANTS
  p1 = p1
  p2 = p2
  p3 = p3
  p4 = p4
  NULL = NULL
  LOADER = LOADER
  CPU = {c1, c2}
  Proc <- MCProc
  prio <- MCprio
  ld_processes <- MCld_processes
  StartTimes <- MCStartTimes
  code_size <- MCcode_size
  MAX_PRIO = 2
  MAX_QUEUE_SIZE = 3
  time_slot = 2
  TimeWidth = 6

SPECIFICATION FairSpec

PROPERTY EveryCpuStops
