----------------------------- MODULE ReadyPool -----------------------------
(***************************************************************************)
(* What a ready queue promises its callers, with no queues, priorities or  *)
(* budgets: a pool of processes.  A get takes some process out, and says   *)
(* NULL only when there is none; a held process goes back or is freed.     *)
(***************************************************************************)
CONSTANTS Proc, NULL

VARIABLES unloaded, ready, held, freed, got

vars == <<unloaded, ready, held, freed, got>>

Init ==
  /\ unloaded = Proc
  /\ ready = {}
  /\ held = {}
  /\ freed = {}
  /\ got = NULL

Add(p) ==
  /\ p \in unloaded
  /\ unloaded' = unloaded \ {p}
  /\ ready' = ready \cup {p}
  /\ UNCHANGED <<held, freed, got>>

Put(p) ==
  /\ p \in held
  /\ held' = held \ {p}
  /\ ready' = ready \cup {p}
  /\ UNCHANGED <<unloaded, freed, got>>

Free(p) ==
  /\ p \in held
  /\ held' = held \ {p}
  /\ freed' = freed \cup {p}
  /\ UNCHANGED <<unloaded, ready, got>>

Take(p) ==
  /\ p \in ready
  /\ ready' = ready \ {p}
  /\ held' = held \cup {p}
  /\ got' = p
  /\ UNCHANGED <<unloaded, freed>>

TakeNothing ==
  /\ ready = {}
  /\ got' = NULL
  /\ UNCHANGED <<unloaded, ready, held, freed>>

Next ==
  \/ \E p \in Proc : Add(p) \/ Put(p) \/ Free(p) \/ Take(p)
  \/ TakeNothing

Spec == Init /\ [][Next]_vars
=============================================================================
