----------------------------- MODULE MLQSystem -----------------------------
(***************************************************************************)
(* The ready queue of MLQ with its callers reduced to what they do to it:  *)
(* a loader that adds each process once, and num_cpus CPUs that get a      *)
(* process, hold it, and then either put it back or free it.  When a CPU   *)
(* does which is left open; OS fixes it.  Here the executions are infinite *)
(* (a process may be preempted for ever), which is what starvation needs.  *)
(***************************************************************************)
EXTENDS MLQ

CONSTANT num_cpus

ASSUME SystemAssumption == num_cpus \in Nat \ {0}

VARIABLES
  unloaded,   \* processes the loader has not added yet
  held,       \* processes some CPU has got and not returned
  freed,      \* processes that finished
  got         \* what the last call of get_proc returned

vars == <<mlq_ready_queue, slot, curr_prio, unloaded, held, freed, got>>

Init ==
  /\ init_scheduler
  /\ unloaded = Proc
  /\ held = {}
  /\ freed = {}
  /\ got = NULL

\* ld_routine: add_proc
Load(p) ==
  /\ p \in unloaded
  /\ add_mlq_proc(p)
  /\ unloaded' = unloaded \ {p}
  /\ UNCHANGED <<held, freed, got>>

\* cpu_routine: the quantum is over, put_proc
Preempt(p) ==
  /\ p \in held
  /\ put_mlq_proc(p)
  /\ held' = held \ {p}
  /\ UNCHANGED <<unloaded, freed, got>>

\* cpu_routine: the program is over, free
Finish(p) ==
  /\ p \in held
  /\ held' = held \ {p}
  /\ freed' = freed \cup {p}
  /\ UNCHANGED <<mlq_ready_queue, slot, curr_prio, unloaded, got>>

\* cpu_routine: get_proc, called by a CPU that holds no process
Get(r) ==
  /\ Cardinality(held) < num_cpus
  /\ get_mlq_proc(r)
  /\ got' = r
  /\ held' = held \cup ({r} \ {NULL})
  /\ UNCHANGED <<unloaded, freed>>

GetAny == \E r \in Proc \cup {NULL} : Get(r)

Next ==
  \/ \E p \in Proc : Load(p) \/ Preempt(p) \/ Finish(p)
  \/ GetAny

Spec == Init /\ [][Next]_vars

\* A CPU keeps no process for ever (its quantum and its program are finite)
\* and an idle CPU asks again in every time slot.  Nothing is assumed about
\* the loader, and nothing makes a process ever finish.
Fairness ==
  /\ \A p \in Proc : WF_vars(Preempt(p))
  /\ WF_vars(GetAny)

FairSpec == Spec /\ Fairness

-----------------------------------------------------------------------------
\* The types, and the bounds of sched.c: a budget slot[i] never leaves
\* 0 .. MAX_PRIO - i although the second scan decrements it without testing
\* it, curr_prio always indexes the array, no queue outgrows its array.
TypeOK ==
  /\ MLQTypeOK
  /\ unloaded \subseteq Proc
  /\ held \subseteq Proc
  /\ freed \subseteq Proc
  /\ got \in Proc \cup {NULL}

OwnersDisjoint ==
  /\ unloaded \cap held = {}
  /\ unloaded \cap freed = {}
  /\ held \cap freed = {}
  /\ \A p \in unloaded \cup held \cup freed : ~Queued(p)

\* Whatever the CPUs and the loader do, a pcb_t has one owner: it is not yet
\* added, or at exactly one position of the queue of its own priority, or
\* held by one CPU, or freed.  So no two CPUs run one process, and free(proc)
\* leaves no pointer to it in a queue.
OneOwner == QueuesWellFormed /\ OwnersDisjoint

\* No process disappears: every one is somewhere.  put_proc and add_proc
\* return nothing, so a caller could not tell ("Put a process back to run
\* queue", "Add a new process to ready queue", sched.h).
NothingLost == \A p \in Proc : p \in unloaded \cup held \cup freed \/ Queued(p)

\* A priority that has a process and budget left comes closer to its turn
\* with every process get_proc takes from another priority: the cursor never
\* steps past it, not even across the wrap-around or a refill.
TurnProgress ==
  [][\A p \in held' \ held : \A i \in Eligible :
       prio[p] # i => (Dist(i))' < Dist(i)]_vars

\* Why no process starves: one that is queued stays queued until a CPU gets
\* it, nobody is ever put ahead of it, and each get_proc that takes another
\* process makes its wait shorter, in the order in which Shorter lists what
\* there is to wait for; nothing else changes what there is.
WaitShortens ==
  [][\A p \in Proc : Queued(p) =>
       \/ p \in held'
       \/ /\ (Queued(p))' /\ Ahead(p)' \subseteq Ahead(p)
          /\ IF held' \subseteq held THEN UNCHANGED <<slot, curr_prio>> ELSE Shorter(p)]_vars

\* A queued process is eventually dispatched, although processes are put
\* back behind it for ever and the priorities before it never run empty.
NoStarvation == \A p \in Proc : Queued(p) ~> p \in held

\* get_proc answers NULL only when nothing is queued, and otherwise a queued
\* process that from then on only the caller has: the abstract pool.
Pool == INSTANCE ReadyPool WITH ready <- {p \in Proc : Queued(p)}

ImplementsPool == Pool!Spec

\* What output/sched_0.output shows (processes of priority 0 alternate while
\* processes of priority 4 wait): get_proc takes from the smallest priority
\* that has a process and budget.
StrictPriority ==
  [][\A p \in held' \ held : \A i \in Eligible : prio[p] <= i]_vars
=============================================================================
