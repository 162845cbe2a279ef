\* init_mm as it is: mm->mmap is never set.
CONSTANTS
  NumProc = 1
  RegId = {0, 1}
  Size = {1}
  MmapSet = FALSE
  MaxOps = 2

SPECIFICATION Spec

CHECK_DEADLOCK FALSE

INVARIANT NoCrash
