-------------------------------- MODULE MCOS --------------------------------
(***************************************************************************)
(* Four processes.  p1 needs more than one quantum, p2 has the other       *)
(* priority, p3 has an empty program, p4 arrives last: when the CPUs are   *)
(* busy, or after the other programs are over.                             *)
(***************************************************************************)
EXTENDS OS, TLC

CONSTANTS p1, p2, p3, p4

MCProc == {p1, p2, p3, p4}

MCprio == p1 :> 0 @@ p2 :> 1 @@ p3 :> 0 @@ p4 :> 0

MCld_processes == <<p1, p2, p3, p4>>

MCcode_size == p1 :> 3 @@ p2 :> 1 @@ p3 :> 0 @@ p4 :> 1

\* When p2 and p4 arrive: together with the others or while some of them run.
MCStartTimes ==
  {p1 :> 0 @@ p2 :> t[1] @@ p3 :> 1 @@ p4 :> t[2] : t \in {<<0, 2>>, <<1, 5>>}}
=============================================================================
