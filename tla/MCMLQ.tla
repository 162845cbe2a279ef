------------------------------- MODULE MCMLQ -------------------------------
(***************************************************************************)
(* Three priorities.  Two processes share priority 0, whose budget of      *)
(* three slots a single round does not use up, one has priority 1 and one  *)
(* the last priority, whose budget is a single slot.                       *)
(***************************************************************************)
EXTENDS MLQSystem, TLC

CONSTANTS p1, p2, p3, p4

MCProc == {p1, p2, p3, p4}

MCprio == p1 :> 0 @@ p2 :> 0 @@ p3 :> 1 @@ p4 :> 2
=============================================================================
