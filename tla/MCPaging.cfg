\* The calls are bounded, so there is deadlock.
CONSTANTS
  ram = ram
  swp = swp
  Device = {ram, swp}
  maxsz <- MCmaxsz
  PAGESZ = 2
  BYTE = {0, 1}
  ZERO = 0
  UNKNOWN = UNKNOWN
  active_mswp = swp
  Page = {1, 2}
  MaxOps = 8

SPECIFICATION PagingSpec

CHECK_DEADLOCK FALSE

INVARIANTS
  PagingTypeOK
  FramesPartition
  HolderSeesItsData
  VictimsInOrder
