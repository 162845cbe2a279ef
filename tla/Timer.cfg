\* Two CPUs and a loader; time wraps at the third slot.
CONSTANTS
  N = 3
  TimeWidth = 3

SPECIFICATION FairSpec

INVARIANTS
  TypeOK
  NoRaceOnTime
  NoRaceOnDone
  NoLostWakeup

PROPERTIES
  ImplementsBarrier
  NextSlotReturns
  StopTimerReturns
