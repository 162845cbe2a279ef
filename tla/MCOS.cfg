\* Three CPUs for three processes that are ready at once: some CPU finds the
\* queues empty while another is between put_proc and get_proc.
CONSTANTS
  p1 = p1
  p2 = p2
  p3 = p3
  p4 = p4
  NULL = NULL
  LOADER = LOADER
  CPU = {c1, c2, c3}
  Proc <- MCProc
  prio <- MCprio
  ld_processes <- MCld_processes
  StartTimes <- MCStartTimes
  code_size <- MCcode_size
  MAX_PRIO = 2
  MAX_QUEUE_SIZE = 3
  time_slot = 2
  TimeWidth = 6


SPECIFICATION FairSpec

INVARIANTS
  TypeOK
  OneOwner
  NothingLost
  FreedAtEnd
  FreshQuantum
  BegunIsFinished

PROPERTIES
  OneInstructionPerSlot
  ImplementsScheduler
  AllFinish
  BusyCpuStops
