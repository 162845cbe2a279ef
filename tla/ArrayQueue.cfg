\* A queue of four slots and three processes, each of which may be in the
\* queue several times: queue.c does not forbid it.
CONSTANTS
  Proc = {p1, p2, p3}
  NULL = NULL
  MAX_QUEUE_SIZE = 4

SPECIFICATION Spec

INVARIANTS
  TypeOK
  NoStaleSlot

PROPERTY ImplementsFifo
