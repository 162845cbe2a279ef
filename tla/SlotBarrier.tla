---------------------------- MODULE SlotBarrier ----------------------------
(***************************************************************************)
(* What timer.c promises its devices (the CPUs and the loader): time       *)
(* advances by one slot only when every device has declared its slot done  *)
(* or has detached, and then all of them start the next slot together.     *)
(***************************************************************************)
EXTENDS Naturals

CONSTANTS
  Dev,         \* the attached devices
  TimeWidth    \* time is kept modulo this; 2^64 in the code

VARIABLES time, at, ticking

barrierVars == <<time, at, ticking>>

BarrierInit ==
  /\ time = 0
  /\ at = [d \in Dev |-> "working"]
  /\ ticking = TRUE

Working(d) == at[d] = "working"

Arrive(d) ==
  /\ Working(d)
  /\ at' = [at EXCEPT ![d] = "waiting"]
  /\ UNCHANGED <<time, ticking>>

Leave(d) ==
  /\ Working(d)
  /\ at' = [at EXCEPT ![d] = "left"]
  /\ UNCHANGED <<time, ticking>>

\* The last tick is the one that finds nobody waiting.
Tick ==
  /\ ticking
  /\ \A d \in Dev : ~Working(d)
  /\ time' = (time + 1) % TimeWidth
  /\ at' = [d \in Dev |-> IF at[d] = "waiting" THEN "working" ELSE at[d]]
  /\ ticking' = \E d \in Dev : at[d] = "waiting"

\* The timer may also be told to stop once everybody has left.
Stop ==
  /\ ticking
  /\ \A d \in Dev : at[d] = "left"
  /\ ticking' = FALSE
  /\ UNCHANGED <<time, at>>

Next == (\E d \in Dev : Arrive(d) \/ Leave(d)) \/ Tick \/ Stop

Spec == BarrierInit /\ [][Next]_barrierVars
=============================================================================
