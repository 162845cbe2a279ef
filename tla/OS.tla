--------------------------------- MODULE OS ---------------------------------
(***************************************************************************)
(* os.c: the CPU threads and the loader thread, over the ready queue of    *)
(* sched.c (module MLQ) and the time slots of timer.c (module SlotBarrier, *)
(* which Timer implements).  A step of a CPU runs from one access to       *)
(* shared state to the next: get_proc and put_proc, free, the test of the  *)
(* global done, next_slot.  next_slot, detach_event are joined to the      *)
(* access before them, with which they commute.  An instruction is only    *)
(* the increment of proc->pc in run().                                     *)
(***************************************************************************)
EXTENDS MLQ

CONSTANTS
  CPU,             \* the CPU threads
  LOADER,          \* the loader thread, the last device attached
  ld_processes,    \* the processes in the order of the configuration file
  StartTimes,      \* the start times a configuration file may give
  code_size,       \* proc->code->size
  time_slot,       \* length of a quantum, as the configuration file gives it
  TimeWidth        \* the clock is kept modulo this

ASSUME OSAssumption ==
  /\ IsFiniteSet(CPU) /\ CPU # {} /\ LOADER \notin CPU
  /\ ld_processes \in Seq(Proc)
  /\ \A p \in Proc : \E i \in DOMAIN ld_processes : ld_processes[i] = p
  /\ \A i, j \in DOMAIN ld_processes : ld_processes[i] = ld_processes[j] => i = j
  /\ StartTimes \subseteq [Proc -> 0 .. TimeWidth - 1]
  /\ code_size \in [Proc -> Nat]
  /\ time_slot \in Int
  /\ TimeWidth \in Nat \ {0}

VARIABLES
  time, at, ticking,   \* the slot barrier
  cpc,                 \* where each CPU thread is
  proc, time_left,     \* its locals: the current process, the rest of its quantum
  pc,                  \* proc->pc of each process
  freed,               \* processes given to free()
  start_time,          \* read_config: the slot before which a process is not added
  loaded,              \* the loader's i: processes it has added
  ldpc,                \* where the loader thread is
  done,                \* the loader has added every process
  ran,                 \* history: processes that ran in the current slot
  got                  \* history: what the last get_proc returned

barrierVars == <<time, at, ticking>>
cpuVars == <<cpc, proc, time_left>>
pcbVars == <<pc, freed, ran>>
ldVars == <<start_time, loaded, ldpc, done>>
vars == <<mlqVars, barrierVars, cpuVars, pcbVars, ldVars, got>>

B == INSTANCE SlotBarrier WITH Dev <- CPU \cup {LOADER}

\* load: a program of code_size[p] instructions, at its first one.
load == pc = [p \in Proc |-> 0]

\* The configuration: the start times, one for each process; the rest of it is
\* in the constants.
read_config == start_time \in StartTimes

Init ==
  /\ read_config
  /\ load
  /\ init_scheduler
  /\ B!BarrierInit
  /\ cpc = [c \in CPU |-> "top"]
  /\ proc = [c \in CPU |-> NULL]
  /\ time_left = [c \in CPU |-> 0]
  /\ freed = {}
  /\ ran = {} /\ got = NULL
  /\ loaded = 0 /\ ldpc = "load" /\ done = FALSE

-----------------------------------------------------------------------------
(* cpu_routine *)

At(c, label) == cpc[c] = label /\ B!Working(c)

GoTo(c, label) == cpc' = [cpc EXCEPT ![c] = label]

\* proc = get_proc()
get_proc(c, r) ==
  /\ get_mlq_proc(r)
  /\ proc' = [proc EXCEPT ![c] = r]
  /\ got' = r

\* Mutant: the last instruction is not run.
FinishedEarly(p) == pc[p] + 1 >= code_size[p]

Finished(p) == pc[p] = code_size[p]

\* Top of the loop, no current process: get one or skip the slot.  The
\* `continue' leads back here, past the test of done.
TakeFirst(c) ==
  /\ At(c, "top") /\ proc[c] = NULL
  /\ \E r \in Proc \cup {NULL} :
       /\ get_proc(c, r)
       /\ IF r = NULL THEN B!Arrive(c) /\ cpc' = cpc
                      ELSE GoTo(c, "recheck") /\ UNCHANGED barrierVars
  /\ UNCHANGED <<time_left, pcbVars, ldVars>>

\* Mutant: the pcb is not freed.
FinishNoFree(c) ==
  /\ At(c, "top") /\ proc[c] # NULL /\ Finished(proc[c])
  /\ GoTo(c, "freed")
  /\ UNCHANGED <<mlqVars, barrierVars, proc, time_left, pcbVars, ldVars, got>>

\* The program is over: free(proc).  The local still points to it.
Finish(c) ==
  /\ At(c, "top") /\ proc[c] # NULL /\ Finished(proc[c])
  /\ freed' = freed \cup {proc[c]}
  /\ GoTo(c, "freed")
  /\ UNCHANGED <<mlqVars, barrierVars, proc, time_left, pc, ran, ldVars, got>>

\* Mutant: the process is not put back.
PutBackForgotten(c) ==
  /\ At(c, "top") /\ proc[c] # NULL /\ ~Finished(proc[c]) /\ time_left[c] = 0
  /\ GoTo(c, "put")
  /\ UNCHANGED <<mlqVars, barrierVars, proc, time_left, pcbVars, ldVars, got>>

\* The quantum is over: put_proc.  The local still points to it.
PutBack(c) ==
  /\ At(c, "top") /\ proc[c] # NULL /\ ~Finished(proc[c]) /\ time_left[c] = 0
  /\ put_mlq_proc(proc[c])
  /\ GoTo(c, "put")
  /\ UNCHANGED <<barrierVars, proc, time_left, pcbVars, ldVars, got>>

\* Mutant: the old pointer is kept when get_proc returns NULL.
TakeNextOrKeep(c) ==
  /\ At(c, "put") \/ At(c, "freed")
  /\ \E r \in Proc \cup {NULL} :
       /\ get_mlq_proc(r)
       /\ proc' = IF r = NULL THEN proc ELSE [proc EXCEPT ![c] = r]
       /\ got' = r
  /\ time_left' = IF cpc[c] = "freed" THEN [time_left EXCEPT ![c] = 0] ELSE time_left
  /\ GoTo(c, "recheck")
  /\ UNCHANGED <<barrierVars, pcbVars, ldVars>>

\* Mutant: the rest of the quantum goes to the next process.
TakeNextKeepQuantum(c) ==
  /\ At(c, "put") \/ At(c, "freed")
  /\ \E r \in Proc \cup {NULL} : get_proc(c, r)
  /\ GoTo(c, "recheck")
  /\ UNCHANGED <<time_left, barrierVars, pcbVars, ldVars>>

\* Mutant: `continue' whenever get_proc returns NULL.
TakeNextOrSkip(c) ==
  /\ At(c, "put") \/ At(c, "freed")
  /\ \E r \in Proc \cup {NULL} :
       /\ get_proc(c, r)
       /\ IF r = NULL THEN B!Arrive(c) /\ GoTo(c, "top")
                      ELSE UNCHANGED barrierVars /\ GoTo(c, "recheck")
  /\ time_left' = [time_left EXCEPT ![c] = 0]
  /\ UNCHANGED <<pcbVars, ldVars>>

\* get_proc after put_proc or free; only the latter resets time_left.
TakeNext(c) ==
  /\ At(c, "put") \/ At(c, "freed")
  /\ \E r \in Proc \cup {NULL} : get_proc(c, r)
  /\ time_left' = IF cpc[c] = "freed" THEN [time_left EXCEPT ![c] = 0] ELSE time_left
  /\ GoTo(c, "recheck")
  /\ UNCHANGED <<barrierVars, pcbVars, ldVars>>

\* Mutant: the quantum is never over.
ContinueAlways(c) ==
  /\ At(c, "top") /\ proc[c] # NULL /\ ~Finished(proc[c])
  /\ B!Arrive(c)
  /\ GoTo(c, "run")
  /\ UNCHANGED <<mlqVars, proc, time_left, pcbVars, ldVars, got>>

\* In the middle of a quantum: next_slot.
Continue(c) ==
  /\ At(c, "top") /\ proc[c] # NULL /\ ~Finished(proc[c]) /\ time_left[c] # 0
  /\ B!Arrive(c)
  /\ GoTo(c, "run")
  /\ UNCHANGED <<mlqVars, proc, time_left, pcbVars, ldVars, got>>

\* Mutant: done is tested before the process.
StopCpuBusy(c) ==
  /\ At(c, "recheck") /\ done
  /\ B!Leave(c)
  /\ GoTo(c, "stopped")
  /\ UNCHANGED <<mlqVars, proc, time_left, pcbVars, ldVars, got>>

\* No process and the loader is done: detach and exit.
StopCpu(c) ==
  /\ At(c, "recheck") /\ proc[c] = NULL /\ done
  /\ B!Leave(c)
  /\ GoTo(c, "stopped")
  /\ UNCHANGED <<mlqVars, proc, time_left, pcbVars, ldVars, got>>

\* No process yet: skip this slot.
SkipSlot(c) ==
  /\ At(c, "recheck") /\ proc[c] = NULL /\ ~done
  /\ B!Arrive(c)
  /\ GoTo(c, "top")
  /\ UNCHANGED <<mlqVars, proc, time_left, pcbVars, ldVars, got>>

\* Mutant: a dispatched process runs without waiting for the next slot.
DispatchProcAtOnce(c) ==
  /\ At(c, "recheck") /\ proc[c] # NULL
  /\ time_left' = IF time_left[c] = 0 THEN [time_left EXCEPT ![c] = time_slot]
                                      ELSE time_left
  /\ GoTo(c, "run")
  /\ UNCHANGED <<mlqVars, barrierVars, proc, pcbVars, ldVars, got>>

\* A process to run: it gets a quantum, unless some of one is left.
DispatchProc(c) ==
  /\ At(c, "recheck") /\ proc[c] # NULL
  /\ time_left' = IF time_left[c] = 0 THEN [time_left EXCEPT ![c] = time_slot]
                                      ELSE time_left
  /\ B!Arrive(c)
  /\ GoTo(c, "run")
  /\ UNCHANGED <<mlqVars, proc, pcbVars, ldVars, got>>

\* run(proc): one instruction, unless the program is over.
Run(c) ==
  /\ At(c, "run")
  /\ pc' = IF pc[proc[c]] >= code_size[proc[c]] THEN pc
           ELSE [pc EXCEPT ![proc[c]] = @ + 1]
  /\ time_left' = [time_left EXCEPT ![c] = @ - 1]
  /\ ran' = ran \cup {proc[c]}
  /\ GoTo(c, "top")
  /\ UNCHANGED <<mlqVars, barrierVars, proc, freed, ldVars, got>>

cpu_routine(c) ==
  \/ TakeFirst(c) \/ Finish(c) \/ PutBack(c) \/ TakeNext(c) \/ Continue(c)
  \/ StopCpu(c) \/ SkipSlot(c) \/ DispatchProc(c) \/ Run(c)

-----------------------------------------------------------------------------
(* ld_routine *)

Candidate == ld_processes[loaded + 1]

Loading == ldpc = "load" /\ loaded < Len(ld_processes) /\ B!Working(LOADER)

LoadWait ==
  /\ Loading /\ time < start_time[Candidate]
  /\ B!Arrive(LOADER)
  /\ UNCHANGED <<mlqVars, cpuVars, pcbVars, ldVars, got>>

LoadAdd ==
  /\ Loading /\ time >= start_time[Candidate]
  /\ add_mlq_proc(Candidate)
  /\ loaded' = loaded + 1
  /\ UNCHANGED <<barrierVars, cpuVars, pcbVars, start_time, ldpc, done, got>>

LoadDone ==
  /\ ldpc = "load" /\ loaded = Len(ld_processes)
  /\ done' = TRUE
  /\ ldpc' = "done"
  /\ UNCHANGED <<mlqVars, barrierVars, cpuVars, pcbVars, start_time, loaded, got>>

LoadDetach ==
  /\ ldpc = "done"
  /\ B!Leave(LOADER)
  /\ ldpc' = "exit"
  /\ UNCHANGED <<mlqVars, cpuVars, pcbVars, start_time, loaded, done, got>>

ld_routine == LoadWait \/ LoadAdd \/ LoadDone \/ LoadDetach

-----------------------------------------------------------------------------
(* The timer, and the main thread's stop_timer. *)

NextTimeSlot ==
  /\ B!Tick
  /\ ran' = {}
  /\ UNCHANGED <<mlqVars, cpuVars, pc, freed, ldVars, got>>

StopTimer ==
  /\ B!Stop
  /\ UNCHANGED <<mlqVars, cpuVars, pcbVars, ldVars, got>>

Terminated == ~ticking /\ UNCHANGED vars

Next ==
  \/ \E c \in CPU : cpu_routine(c)
  \/ ld_routine
  \/ NextTimeSlot \/ StopTimer
  \/ Terminated

Spec == Init /\ [][Next]_vars

\* Every thread of the program runs; next_slot returns (Timer shows that).
Fairness ==
  /\ \A c \in CPU : WF_vars(cpu_routine(c))
  /\ WF_vars(ld_routine)
  /\ WF_vars(NextTimeSlot \/ StopTimer)

FairSpec == Spec /\ Fairness

-----------------------------------------------------------------------------
Added == {ld_processes[k] : k \in 1 .. loaded}

\* After put_proc or free the local still points to the process, but the CPU
\* does not use it any more: the next statement overwrites it.
Holds(c, p) == proc[c] = p /\ cpc[c] \notin {"put", "freed"}

Held(p) == \E c \in CPU : Holds(c, p)

AllStopped == \A c \in CPU : cpc[c] = "stopped"

\* read_config takes any number for time_slot.  With one below 1 the count
\* starts at or under zero and only falls, so no quantum is ever over.
TimeLeft == IF time_slot > 0 THEN 0 .. time_slot ELSE {t \in Int : t <= 0}

TypeOK ==
  /\ MLQTypeOK
  /\ time \in 0 .. TimeWidth - 1
  /\ at \in [CPU \cup {LOADER} -> {"working", "waiting", "left"}]
  /\ ticking \in BOOLEAN
  /\ cpc \in [CPU -> {"top", "put", "freed", "recheck", "run", "stopped"}]
  /\ proc \in [CPU -> Proc \cup {NULL}]
  /\ time_left \in [CPU -> TimeLeft]
  /\ pc \in [Proc -> Nat]
  /\ freed \subseteq Proc
  /\ start_time \in StartTimes
  /\ loaded \in 0 .. Len(ld_processes)
  /\ ldpc \in {"load", "done", "exit"}
  /\ done \in BOOLEAN
  /\ ran \subseteq Proc

\* A pcb_t is run by one CPU at a time, is in no queue while it runs, and no
\* CPU and no queue points to it once it is freed: cpu_routine reads
\* proc->pc and proc->code->size without a lock.
OneOwner ==
  /\ QueuesWellFormed
  /\ \A p \in Proc : \A c, d \in CPU : Holds(c, p) /\ Holds(d, p) => c = d
  /\ \A p \in Proc : Queued(p) => p \in Added \ freed /\ ~Held(p)
  /\ \A p \in Proc : Held(p) => p \in Added \ freed
  /\ freed \subseteq Added

\* The threads of os.c are callers of the scheduler as MLQSystem assumes
\* them, so what holds of MLQSystem holds here.
Scheduler == INSTANCE MLQSystem WITH
               num_cpus <- Cardinality(CPU),
               unloaded <- Proc \ Added,
               held <- {p \in Proc : Held(p)}

ImplementsScheduler == Scheduler!Spec

\* A process the loader has added stays in the system until it is freed,
\* across the window between put_proc and the next get_proc.
NothingLost == \A p \in Added : Queued(p) \/ Held(p) \/ p \in freed

\* Only a process that has executed its whole program is freed.
FreedAtEnd == \A p \in freed : pc[p] = code_size[p]

\* Only a process that has not begun can be left behind when all CPUs have
\* stopped (NoneAbandoned says none is): a CPU that has put one back stops
\* only if another CPU has taken it, and somebody is left to run it to its
\* end, although each tests done long after it found the queues empty.
BegunIsFinished ==
  AllStopped => \A p \in Proc : pc[p] > 0 => p \in freed

\* A process a CPU has just got starts with a whole quantum: nothing of the
\* previous process's quantum is left.  It runs with none left only where the
\* configuration gives quanta of length 0.
FreshQuantum ==
  \A c \in CPU :
    /\ cpc[c] = "recheck" \/ proc[c] = NULL => time_left[c] = 0
    /\ cpc[c] = "run" /\ time_slot # 0 => time_left[c] # 0

\* A process executes at most one instruction per time slot, also when it is
\* put back and dispatched by another CPU within the slot.
OneInstructionPerSlot ==
  [][\A p \in Proc : pc'[p] # pc[p] => p \notin ran]_vars

\* Every process of the configuration runs to its end, unless all CPUs stop.
AllFinish == \A p \in Proc : <>(p \in freed \/ AllStopped)

\* A CPU that has a process when the loader is done stops in the end.
BusyCpuStops ==
  \A c \in CPU : done /\ proc[c] # NULL ~> cpc[c] = "stopped"

\* "No process to run, exit": every CPU stops, which main waits for.
EveryCpuStops == <>AllStopped

\* "No process to run, exit": a CPU stops only when nothing is left to run,
\* so when all have stopped every process has finished.
NoneAbandoned == AllStopped => \A p \in Proc : p \in freed
=============================================================================
