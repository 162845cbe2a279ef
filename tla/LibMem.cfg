\* Two processes, and the loader at any point of their calls; the programs
\* end, so there is deadlock.
CONSTANTS
  NumProc = 2
  RegId = {0, 1}
  Size = {0, 1, 3}
  MmapSet = TRUE
  MaxOps = 5

SPECIFICATION Spec

CHECK_DEADLOCK FALSE

INVARIANTS
  TypeOK
  Conservation
  ListShape
