------------------------------ MODULE OSProofs ------------------------------
(***************************************************************************)
(* Proofs about the CPU and loader threads of os.c, for any number of CPUs *)
(* and processes, any programs, priorities, start times and quantum.       *)
(***************************************************************************)
EXTENDS OS, MLQLemmas

(* Types and quanta. *)

\* FreshQuantum, and what it takes from one access to the next.
Quanta ==
  /\ FreshQuantum
  /\ \A c \in CPU : cpc[c] = "put" => time_left[c] = 0
  /\ \A c \in CPU : cpc[c] = "run" => proc[c] # NULL

LEMMA ConstantTypes ==
  /\ time_slot \in TimeLeft /\ 0 \in TimeLeft /\ TimeLeft \subseteq Int
  /\ TimeWidth \in Nat \ {0} /\ NULL \notin Proc
  BY OSAssumption, MLQAssumption DEF TimeLeft

LEMMA QuantumFalls ==
  ASSUME NEW t \in TimeLeft, time_slot # 0 => t # 0
  PROVE  t - 1 \in TimeLeft
<1>1. time_slot \in Int
  BY OSAssumption
<1>2. CASE time_slot > 0
  BY <1>1, <1>2 DEF TimeLeft
<1>3. CASE ~(time_slot > 0)
  BY <1>1, <1>3 DEF TimeLeft
<1> QED BY <1>2, <1>3

LEMMA KeepMLQType == MLQTypeOK /\ UNCHANGED mlqVars => MLQTypeOK'
  BY DEF MLQTypeOK, mlqVars

LEMMA InitType == Init => TypeOK /\ Quanta
<1> SUFFICES ASSUME Init PROVE TypeOK /\ Quanta
  OBVIOUS
<1>1. MLQTypeOK
  BY MLQAssumption, FullBudgetType DEF Prio, Init, init_scheduler, MLQTypeOK
<1>2. 0 \in 0 .. Len(ld_processes) /\ 0 \in TimeLeft /\ 0 \in 0 .. TimeWidth - 1
  <2>1. Len(ld_processes) \in Nat
    BY OSAssumption
  <2> QED BY <2>1, ConstantTypes
<1>3. Quanta
  BY DEF Init, Quanta, FreshQuantum
<1> QED BY <1>1, <1>2, <1>3 DEF Init, TypeOK, load, read_config, B!BarrierInit

\* A CPU's step that takes no process and touches no queue, except Run and
\* DispatchProc, keeps the types.
LEMMA CpuStepType ==
  ASSUME TypeOK, Quanta, NEW c \in CPU, cpu_routine(c)
  PROVE  TypeOK'
<1> USE ConstantTypes
<1>1. CASE TakeFirst(c)
  <2> PICK r \in Proc \cup {NULL} :
        /\ get_proc(c, r)
        /\ IF r = NULL THEN B!Arrive(c) /\ cpc' = cpc
                       ELSE GoTo(c, "recheck") /\ UNCHANGED barrierVars
    BY <1>1 DEF TakeFirst
  <2>1. MLQTypeOK'
    BY GetType DEF get_proc, TypeOK
  <2> QED BY <1>1, <2>1 DEF TakeFirst, get_proc, GoTo, B!Arrive, barrierVars, pcbVars,
             ldVars, TypeOK
<1>2. CASE Finish(c)
  BY <1>2, KeepMLQType DEF Finish, GoTo, barrierVars, ldVars, TypeOK
<1>3. CASE PutBack(c)
  <2>1. MLQTypeOK'
    BY <1>3, InsertType DEF PutBack, put_mlq_proc, TypeOK
  <2> QED BY <1>3, <2>1 DEF PutBack, GoTo, barrierVars, pcbVars, ldVars, TypeOK
<1>4. CASE TakeNext(c)
  <2> PICK r \in Proc \cup {NULL} : get_proc(c, r)
    BY <1>4 DEF TakeNext
  <2>1. MLQTypeOK'
    BY GetType DEF get_proc, TypeOK
  <2> QED BY <1>4, <2>1 DEF TakeNext, get_proc, GoTo, barrierVars, pcbVars, ldVars, TypeOK
<1>5. CASE Continue(c) \/ StopCpu(c) \/ SkipSlot(c)
  BY <1>5, KeepMLQType DEF Continue, StopCpu, SkipSlot, GoTo, B!Arrive, B!Leave, pcbVars,
     ldVars, TypeOK
<1>6. CASE DispatchProc(c)
  BY <1>6, KeepMLQType DEF DispatchProc, GoTo, B!Arrive, pcbVars, ldVars, TypeOK
<1>7. CASE Run(c)
  <2>1. proc[c] \in Proc /\ time_left[c] \in TimeLeft /\ (time_slot # 0 => time_left[c] # 0)
    BY <1>7 DEF Run, At, Quanta, FreshQuantum, TypeOK
  <2>2. time_left[c] - 1 \in TimeLeft
    BY <2>1, QuantumFalls
  <2>3. pc' \in [Proc -> Nat]
    BY <1>7, <2>1 DEF Run, TypeOK
  <2> QED BY <1>7, <2>1, <2>2, <2>3, KeepMLQType DEF Run, GoTo, barrierVars, ldVars, TypeOK
<1> QED BY <1>1, <1>2, <1>3, <1>4, <1>5, <1>6, <1>7 DEF cpu_routine

LEMMA CpuStepQuanta ==
  ASSUME TypeOK, Quanta, NEW c \in CPU, cpu_routine(c)
  PROVE  Quanta'
<1> USE ConstantTypes
<1> USE DEF Quanta, FreshQuantum, TypeOK, GoTo, At
<1>1. CASE TakeFirst(c)
  BY <1>1 DEF TakeFirst, get_proc
<1>2. CASE Finish(c)
  BY <1>2 DEF Finish
<1>3. CASE PutBack(c)
  BY <1>3 DEF PutBack
<1>4. CASE TakeNext(c)
  BY <1>4 DEF TakeNext, get_proc
<1>5. CASE Continue(c) \/ StopCpu(c) \/ SkipSlot(c)
  BY <1>5 DEF Continue, StopCpu, SkipSlot
<1>6. CASE DispatchProc(c)
  BY <1>6 DEF DispatchProc
<1>7. CASE Run(c)
  BY <1>7 DEF Run
<1> QED BY <1>1, <1>2, <1>3, <1>4, <1>5, <1>6, <1>7 DEF cpu_routine

LEMMA CandidateIsNew ==
  ASSUME TypeOK, Loading
  PROVE  /\ Candidate \in Proc /\ Candidate \notin Added
         /\ loaded + 1 \in 0 .. Len(ld_processes)
         /\ loaded' = loaded + 1 => Added' = Added \cup {Candidate}
<1>1. loaded \in Nat /\ Len(ld_processes) \in Nat /\ loaded + 1 \in 1 .. Len(ld_processes)
      /\ DOMAIN ld_processes = 1 .. Len(ld_processes)
  BY OSAssumption DEF Loading, TypeOK
<1>2. Candidate \in Proc
  BY <1>1, OSAssumption DEF Candidate
<1>3. Candidate \notin Added
  BY <1>1, OSAssumption DEF Candidate, Added
<1>4. loaded' = loaded + 1 => Added' = Added \cup {Candidate}
  BY <1>1 DEF Added, Candidate
<1> QED BY <1>1, <1>2, <1>3, <1>4

LEMMA OtherStepType ==
  ASSUME TypeOK, Quanta, ld_routine \/ NextTimeSlot \/ StopTimer \/ UNCHANGED vars
  PROVE  TypeOK' /\ Quanta'
<1> USE ConstantTypes
<1>1. UNCHANGED cpuVars
  BY DEF ld_routine, LoadWait, LoadAdd, LoadDone, LoadDetach, NextTimeSlot, StopTimer, vars
<1>2. Quanta'
  BY <1>1 DEF Quanta, FreshQuantum, cpuVars
<1>3. CASE LoadAdd
  <2>1. MLQTypeOK'
    BY <1>3, CandidateIsNew, InsertType DEF LoadAdd, add_mlq_proc, TypeOK
  <2> QED BY <1>2, <1>3, <2>1, CandidateIsNew
          DEF LoadAdd, barrierVars, cpuVars, pcbVars, TypeOK
<1>4. CASE LoadWait \/ LoadDone \/ LoadDetach
  BY <1>2, <1>4, KeepMLQType DEF LoadWait, LoadDone, LoadDetach, B!Arrive, B!Leave,
     barrierVars, cpuVars, pcbVars, ldVars, TypeOK
<1>5. CASE NextTimeSlot
  BY <1>2, <1>5, KeepMLQType DEF NextTimeSlot, B!Tick, cpuVars, ldVars, TypeOK
<1>6. CASE StopTimer
  BY <1>2, <1>6, KeepMLQType DEF StopTimer, B!Stop, cpuVars, pcbVars, ldVars, TypeOK
<1>7. CASE UNCHANGED vars
  BY <1>2, <1>7, KeepMLQType DEF vars, barrierVars, cpuVars, pcbVars, ldVars, TypeOK
<1> QED BY <1>3, <1>4, <1>5, <1>6, <1>7 DEF ld_routine

LEMMA StepType == TypeOK /\ Quanta /\ [Next]_vars => (TypeOK /\ Quanta)'
  BY CpuStepType, CpuStepQuanta, OtherStepType DEF Next, Terminated

\* Every variable of the threads keeps its type, the rest of a quantum its
\* bounds included, for any number of CPUs.
THEOREM TypeCorrect == Spec => []TypeOK
  BY InitType, StepType, PTL DEF Spec

\* A process a CPU has just got starts with a whole quantum, for any quantum.
THEOREM FreshQuantumHolds == Spec => []FreshQuantum
<1>1. Quanta => FreshQuantum
  BY DEF Quanta
<1> QED BY <1>1, InitType, StepType, PTL DEF Spec

-----------------------------------------------------------------------------
(* Owners.  What a step does to them is one of five changes. *)

HeldSet == {p \in Proc : Held(p)}

SameQueues == UNCHANGED mlqVars

SameAdded == loaded' = loaded

\* Every CPU but c keeps what it holds, and c holds p in the end (or nothing,
\* if p is NULL).
HoldsNow(c, p) ==
  /\ \A q \in Proc : (Holds(c, q))' <=> q = p
  /\ \A d \in CPU \ {c} : \A q \in Proc : (Holds(d, q))' <=> Holds(d, q)

Nothing(c) == SameQueues /\ SameAdded /\ freed' = freed
              /\ \A d \in CPU : \A q \in Proc : (Holds(d, q))' <=> Holds(d, q)

Gets(c, r) ==
  /\ r \in Proc \cup {NULL} /\ get_mlq_proc(r) /\ got' = r
  /\ \A q \in Proc : ~Holds(c, q)
  /\ HoldsNow(c, r) /\ SameAdded /\ freed' = freed

Puts(c, p) ==
  /\ p \in Proc /\ Holds(c, p) /\ insert(p)
  /\ HoldsNow(c, NULL) /\ SameAdded /\ freed' = freed /\ got' = got

Frees(c, p) ==
  /\ p \in Proc /\ Holds(c, p) /\ freed' = freed \cup {p}
  /\ HoldsNow(c, NULL) /\ SameAdded /\ SameQueues /\ got' = got

Loads(p) ==
  /\ p \in Proc \ Added /\ insert(p) /\ Added' = Added \cup {p}
  /\ freed' = freed /\ got' = got
  /\ \A d \in CPU : \A q \in Proc : (Holds(d, q))' <=> Holds(d, q)

LEMMA CpuChange ==
  ASSUME TypeOK, Quanta, NEW c \in CPU, cpu_routine(c)
  PROVE  \/ \E r \in Proc \cup {NULL} : Gets(c, r)
         \/ \E p \in Proc : Puts(c, p) \/ Frees(c, p)
         \/ Nothing(c) /\ got' = got
<1> USE ConstantTypes
<1> USE DEF Holds, HoldsNow, TypeOK, GoTo, At, SameQueues, SameAdded
<1>1. CASE TakeFirst(c)
  <2> PICK r \in Proc \cup {NULL} :
        /\ get_proc(c, r)
        /\ IF r = NULL THEN B!Arrive(c) /\ cpc' = cpc
                       ELSE GoTo(c, "recheck") /\ UNCHANGED barrierVars
    BY <1>1 DEF TakeFirst
  <2>1. Gets(c, r)
    BY <1>1 DEF TakeFirst, get_proc, pcbVars, ldVars, Gets
  <2> QED BY <2>1
<1>2. CASE Finish(c)
  <2> PICK p \in Proc : p = proc[c]
    BY <1>2 DEF Finish
  <2>1. Frees(c, p)
    BY <1>2 DEF Finish, ldVars, Frees
  <2> QED BY <2>1
<1>3. CASE PutBack(c)
  <2> PICK p \in Proc : p = proc[c]
    BY <1>3 DEF PutBack
  <2>1. Puts(c, p)
    BY <1>3 DEF PutBack, put_mlq_proc, pcbVars, ldVars, Puts
  <2> QED BY <2>1
<1>4. CASE TakeNext(c)
  <2> PICK r \in Proc \cup {NULL} : get_proc(c, r)
    BY <1>4 DEF TakeNext
  <2>1. Gets(c, r)
    BY <1>4 DEF TakeNext, get_proc, pcbVars, ldVars, Gets
  <2> QED BY <2>1
<1>5. CASE Continue(c) \/ StopCpu(c) \/ SkipSlot(c) \/ DispatchProc(c)
  BY <1>5 DEF Continue, StopCpu, SkipSlot, DispatchProc, pcbVars, ldVars, Nothing
<1>6. CASE Run(c)
  BY <1>6 DEF Run, ldVars, Nothing
<1> QED BY <1>1, <1>2, <1>3, <1>4, <1>5, <1>6 DEF cpu_routine

LEMMA OtherChange ==
  ASSUME TypeOK, ld_routine \/ NextTimeSlot \/ StopTimer \/ UNCHANGED vars
  PROVE  (\E p \in Proc : Loads(p)) \/ (\A c \in CPU : Nothing(c) /\ got' = got)
<1> USE DEF Holds, SameQueues, SameAdded, cpuVars, pcbVars, ldVars, Nothing
<1>1. CASE LoadAdd
  <2> PICK p \in Proc : p = Candidate
    BY <1>1, CandidateIsNew DEF LoadAdd
  <2>1. Loads(p)
    BY <1>1, CandidateIsNew DEF LoadAdd, add_mlq_proc, Loads
  <2> QED BY <2>1
<1>2. CASE LoadWait \/ LoadDone \/ LoadDetach
  BY <1>2 DEF LoadWait, LoadDone, LoadDetach
<1>3. CASE NextTimeSlot \/ StopTimer \/ UNCHANGED vars
  BY <1>3 DEF NextTimeSlot, StopTimer, vars
<1> QED BY <1>1, <1>2, <1>3 DEF ld_routine

LEMMA NothingOwner ==
  ASSUME NEW c, Nothing(c)
  PROVE  /\ OneOwner => OneOwner'
         /\ HeldSet' = HeldSet /\ Added' = Added
         /\ \A p \in Proc : (Queued(p))' <=> Queued(p)
<1>1. \A p \in Proc : (Held(p))' <=> Held(p)
  BY DEF Nothing, Held
<1>2. Added' = Added
  BY DEF Nothing, SameAdded, Added
<1>3. \A p \in Proc : (Queued(p))' <=> Queued(p)
  BY DEF Nothing, SameQueues, mlqVars, Queued, QueuedAt
<1>4. QueuesWellFormed => QueuesWellFormed'
  BY DEF Nothing, SameQueues, mlqVars, QueuesWellFormed
<1> QED BY <1>1, <1>2, <1>3, <1>4 DEF OneOwner, HeldSet, Nothing

LEMMA GetsOwner ==
  ASSUME TypeOK, OneOwner, NEW c \in CPU, NEW r, Gets(c, r)
  PROVE  /\ OneOwner'
         /\ HeldSet' = HeldSet \cup ({r} \ {NULL}) /\ Added' = Added
         /\ \A p \in Proc : (Queued(p))' <=> Queued(p) /\ p # r
<1> USE ConstantTypes
<1>1. /\ QueuesWellFormed'
      /\ \A p \in Proc : (Queued(p))' <=> Queued(p) /\ p # r
      /\ r # NULL => r \in Proc /\ Queued(r)
  BY GetOwner DEF Gets, TypeOK, OneOwner
<1>2. Added' = Added
  BY DEF Gets, SameAdded, Added
<1>3. \A p \in Proc : (Held(p))' <=> Held(p) \/ p = r
  BY DEF Gets, HoldsNow, Held
<1>4. \A p \in Proc : \A d, e \in CPU : (Holds(d, p))' /\ (Holds(e, p))' => d = e
  BY <1>1 DEF Gets, HoldsNow, OneOwner, Held
<1>5. OneOwner'
  BY <1>1, <1>2, <1>3, <1>4 DEF OneOwner, Gets
<1> QED BY <1>1, <1>2, <1>3, <1>5 DEF HeldSet, Gets

LEMMA PutsOwner ==
  ASSUME TypeOK, OneOwner, NEW c \in CPU, NEW p, Puts(c, p)
  PROVE  /\ OneOwner'
         /\ HeldSet' = HeldSet \ {p} /\ Added' = Added
         /\ p \in HeldSet /\ ~Queued(p)
<1> USE ConstantTypes
<1>1. p \in Proc /\ Held(p) /\ ~Queued(p) /\ p \in Added \ freed
  BY DEF Puts, Held, OneOwner
<1>2. /\ QueuesWellFormed'
      /\ \A x \in Proc : (Queued(x))' => Queued(x) \/ x = p
  BY <1>1, InsertOwner DEF Puts, TypeOK, OneOwner
<1>3. Added' = Added
  BY DEF Puts, SameAdded, Added
<1>4. \A x \in Proc : (Held(x))' <=> Held(x) /\ x # p
  <2>1. \A d \in CPU : Holds(d, p) => d = c
    BY <1>1 DEF Puts, OneOwner
  <2>2. \A x \in Proc : Holds(c, x) => x = p
    BY DEF Puts, Holds
  <2> QED BY <2>1, <2>2 DEF Puts, HoldsNow, Held
<1>5. \A x \in Proc : \A d, e \in CPU : (Holds(d, x))' /\ (Holds(e, x))' => d = e
  BY DEF Puts, HoldsNow, OneOwner
<1>6. OneOwner'
  BY <1>1, <1>2, <1>3, <1>4, <1>5 DEF OneOwner, Puts
<1> QED BY <1>1, <1>3, <1>4, <1>6 DEF HeldSet, Puts

LEMMA FreesOwner ==
  ASSUME TypeOK, OneOwner, NEW c \in CPU, NEW p, Frees(c, p)
  PROVE  /\ OneOwner'
         /\ HeldSet' = HeldSet \ {p} /\ Added' = Added
         /\ p \in HeldSet
         /\ \A x \in Proc : (Queued(x))' <=> Queued(x)
<1> USE ConstantTypes
<1>1. p \in Proc /\ Held(p) /\ ~Queued(p) /\ p \in Added \ freed
  BY DEF Frees, Held, OneOwner
<1>2. QueuesWellFormed' /\ \A x \in Proc : (Queued(x))' <=> Queued(x)
  BY DEF Frees, SameQueues, mlqVars, OneOwner, QueuesWellFormed, Queued, QueuedAt
<1>3. Added' = Added
  BY DEF Frees, SameAdded, Added
<1>4. \A x \in Proc : (Held(x))' <=> Held(x) /\ x # p
  <2>1. \A d \in CPU : Holds(d, p) => d = c
    BY <1>1 DEF Frees, OneOwner
  <2>2. \A x \in Proc : Holds(c, x) => x = p
    BY DEF Frees, Holds
  <2> QED BY <2>1, <2>2 DEF Frees, HoldsNow, Held
<1>5. \A x \in Proc : \A d, e \in CPU : (Holds(d, x))' /\ (Holds(e, x))' => d = e
  BY DEF Frees, HoldsNow, OneOwner
<1>6. OneOwner'
  BY <1>1, <1>2, <1>3, <1>4, <1>5 DEF OneOwner, Frees
<1> QED BY <1>1, <1>2, <1>3, <1>4, <1>6 DEF HeldSet

LEMMA LoadsOwner ==
  ASSUME TypeOK, OneOwner, NEW p, Loads(p)
  PROVE  /\ OneOwner'
         /\ HeldSet' = HeldSet /\ ~Queued(p)
<1> USE ConstantTypes
<1>1. p \in Proc /\ ~Queued(p) /\ ~Held(p) /\ p \notin Added
  BY DEF Loads, OneOwner
<1>2. /\ QueuesWellFormed'
      /\ \A x \in Proc : (Queued(x))' => Queued(x) \/ x = p
  BY <1>1, InsertOwner DEF Loads, TypeOK, OneOwner
<1>3. \A x \in Proc : (Held(x))' <=> Held(x)
  BY DEF Loads, Held
<1>4. \A x \in Proc : \A d, e \in CPU : (Holds(d, x))' /\ (Holds(e, x))' => d = e
  BY DEF Loads, OneOwner
<1>5. p \notin freed
  BY <1>1 DEF OneOwner
<1> QED BY <1>1, <1>2, <1>3, <1>4, <1>5 DEF OneOwner, HeldSet, Loads

LEMMA InitOwner == Init => OneOwner /\ HeldSet = {} /\ Added = {}
<1> SUFFICES ASSUME Init PROVE OneOwner /\ HeldSet = {} /\ Added = {}
  OBVIOUS
<1>1. Added = {}
  BY DEF Init, Added
<1>2. \A p \in Proc : ~Held(p)
  BY ConstantTypes DEF Init, Held, Holds
<1>3. QueuesWellFormed /\ \A p \in Proc : ~Queued(p)
  BY DEF Init, init_scheduler, QueuesWellFormed, Queued, QueuedAt
<1> QED BY <1>1, <1>2, <1>3 DEF Init, OneOwner, HeldSet, Held

IInv == TypeOK /\ Quanta /\ OneOwner

\* What a step of the program is, for the owners.
LEMMA StepChange ==
  ASSUME IInv, [Next]_vars
  PROVE  \/ \E c \in CPU : \E r \in Proc \cup {NULL} : Gets(c, r)
         \/ \E c \in CPU : \E p \in Proc : Puts(c, p) \/ Frees(c, p)
         \/ \E p \in Proc : Loads(p)
         \/ \E c \in CPU : Nothing(c) /\ got' = got
<1>1. CASE \E c \in CPU : cpu_routine(c)
  BY <1>1, CpuChange DEF IInv
<1>2. CASE ld_routine \/ NextTimeSlot \/ StopTimer \/ UNCHANGED vars
  <2>1. (\E p \in Proc : Loads(p)) \/ (\A c \in CPU : Nothing(c) /\ got' = got)
    BY <1>2, OtherChange DEF IInv
  <2>2. CPU # {}
    BY OSAssumption
  <2> QED BY <2>1, <2>2
<1> QED BY <1>1, <1>2 DEF Next, Terminated

LEMMA StepIInv == IInv /\ [Next]_vars => IInv'
<1> SUFFICES ASSUME IInv, [Next]_vars PROVE IInv'
  OBVIOUS
<1>1. TypeOK' /\ Quanta'
  BY StepType DEF IInv
<1>2. OneOwner'
  BY StepChange, GetsOwner, PutsOwner, FreesOwner, LoadsOwner, NothingOwner DEF IInv
<1> QED BY <1>1, <1>2 DEF IInv

LEMMA InvariantHolds == Spec => []IInv
<1>1. Init => IInv
  BY InitType, InitOwner DEF IInv
<1> QED BY <1>1, StepIInv, PTL DEF Spec

\* Two CPUs never run one process, no queue has a process that runs, and
\* nothing points to a process that was freed, for any number of CPUs.
THEOREM OneOwnerHolds == Spec => []OneOwner
<1>1. IInv => OneOwner
  BY DEF IInv
<1> QED BY <1>1, InvariantHolds, PTL

-----------------------------------------------------------------------------
(* Losses and ends. *)

LEMMA AddedType == TypeOK => Added \subseteq Proc
  BY OSAssumption DEF TypeOK, Added

LEMMA StepNothingLost ==
  ASSUME EnoughRoom, IInv, NothingLost, [Next]_vars
  PROVE  NothingLost'
<1> USE DEF NothingLost, HeldSet
<1>0. Added \subseteq Proc /\ NULL \notin Proc
  BY AddedType, ConstantTypes DEF IInv
<1>1. ASSUME NEW c \in CPU, NEW r \in Proc \cup {NULL}, Gets(c, r)
      PROVE  NothingLost'
  <2>1. /\ \A x \in Proc : (Queued(x))' <=> Queued(x) /\ x # r
        /\ \A x \in Proc : (Held(x))' <=> Held(x) \/ x = r
        /\ Added' = Added
    BY <1>0, <1>1, GetsOwner DEF IInv
  <2> QED BY <1>0, <1>1, <2>1 DEF Gets
<1>2. ASSUME NEW c \in CPU, NEW p \in Proc, Puts(c, p)
      PROVE  NothingLost'
  <2>1. /\ ~Queued(p) /\ Added' = Added
        /\ \A x \in Proc : (Held(x))' <=> Held(x) /\ x # p
    BY <1>2, PutsOwner DEF IInv
  <2>2. \A x \in Proc : (Queued(x))' <=> Queued(x) \/ x = p
    BY <1>2, <2>1, InsertKeeps DEF IInv, TypeOK, OneOwner, Puts
  <2> QED BY <1>0, <1>2, <2>1, <2>2 DEF Puts
<1>3. ASSUME NEW c \in CPU, NEW p \in Proc, Frees(c, p)
      PROVE  NothingLost'
  <2>1. /\ \A x \in Proc : (Held(x))' <=> Held(x) /\ x # p
        /\ \A x \in Proc : (Queued(x))' <=> Queued(x)
        /\ Added' = Added
    BY <1>3, FreesOwner DEF IInv
  <2> QED BY <1>0, <1>3, <2>1 DEF Frees
<1>4. ASSUME NEW p \in Proc, Loads(p)
      PROVE  NothingLost'
  <2>1. ~Queued(p) /\ \A x \in Proc : (Held(x))' <=> Held(x)
    BY <1>4, LoadsOwner DEF IInv
  <2>2. \A x \in Proc : (Queued(x))' <=> Queued(x) \/ x = p
    BY <1>4, <2>1, InsertKeeps DEF IInv, TypeOK, OneOwner, Loads
  <2> QED BY <1>0, <1>4, <2>1, <2>2 DEF Loads
<1>5. ASSUME NEW c \in CPU, Nothing(c) PROVE NothingLost'
  <2>1. /\ \A x \in Proc : (Held(x))' <=> Held(x)
        /\ \A x \in Proc : (Queued(x))' <=> Queued(x)
        /\ Added' = Added
    BY <1>5, NothingOwner
  <2> QED BY <1>0, <1>5, <2>1 DEF Nothing
<1> QED BY <1>1, <1>2, <1>3, <1>4, <1>5, StepChange

\* If every queue has room for the processes of its priority, a process that
\* was added stays in the system until it is freed.
THEOREM NothingLostHolds ==
  ASSUME EnoughRoom
  PROVE  Spec => []NothingLost
<1>1. Init => NothingLost
  BY InitOwner DEF NothingLost
<1>2. IInv /\ NothingLost /\ [Next]_vars => NothingLost'
  BY StepNothingLost
<1> QED BY <1>1, <1>2, InvariantHolds, PTL DEF Spec

LEMMA StepFreedAtEnd == IInv /\ FreedAtEnd /\ [Next]_vars => FreedAtEnd'
<1> SUFFICES ASSUME IInv, FreedAtEnd, [Next]_vars PROVE FreedAtEnd'
  OBVIOUS
<1>1. ASSUME NEW c \in CPU, Run(c) PROVE FreedAtEnd'
  <2>1. proc[c] \in Proc /\ Holds(c, proc[c])
    BY <1>1, ConstantTypes DEF Run, At, IInv, Quanta, TypeOK, Holds
  <2>2. proc[c] \notin freed
    BY <2>1 DEF IInv, OneOwner, Held
  <2> QED BY <1>1, <2>2 DEF Run, FreedAtEnd, IInv, TypeOK
<1>2. ASSUME NEW c \in CPU, Finish(c) PROVE FreedAtEnd'
  BY <1>2 DEF Finish, Finished, FreedAtEnd
<1>3. ASSUME NEW c \in CPU, cpu_routine(c), ~Run(c), ~Finish(c)
      PROVE  UNCHANGED <<pc, freed>>
  BY <1>3 DEF cpu_routine, TakeFirst, PutBack, TakeNext, Continue, StopCpu, SkipSlot,
     DispatchProc, pcbVars
<1>4. ld_routine \/ NextTimeSlot \/ StopTimer \/ UNCHANGED vars => UNCHANGED <<pc, freed>>
  BY DEF ld_routine, LoadWait, LoadAdd, LoadDone, LoadDetach, NextTimeSlot, StopTimer, vars,
     pcbVars
<1>5. CASE UNCHANGED <<pc, freed>>
  BY <1>5 DEF FreedAtEnd
<1> QED BY <1>1, <1>2, <1>3, <1>4, <1>5 DEF Next, Terminated

\* Only a process that has executed its whole program is freed, whatever its
\* program and its quantum.
THEOREM FreedAtEndHolds == Spec => []FreedAtEnd
<1>1. Init => FreedAtEnd
  BY DEF Init, FreedAtEnd
<1> QED BY <1>1, StepFreedAtEnd, InvariantHolds, PTL DEF Spec

-----------------------------------------------------------------------------
(* Who is left when the CPUs have stopped. *)

BegunIsAdded == \A p \in Proc : pc[p] > 0 => p \in Added

\* While a process that has begun is queued, some CPU still has to call
\* get_proc: the one that put it back, or one whose process came after it.
Tended == \A p \in Proc : Queued(p) /\ pc[p] > 0 => \E c \in CPU : proc[c] # NULL

StoppedHaveNone == \A c \in CPU : cpc[c] = "stopped" => proc[c] = NULL

LEMMA StepBegunIsAdded == IInv /\ BegunIsAdded /\ [Next]_vars => BegunIsAdded'
<1> SUFFICES ASSUME IInv, BegunIsAdded, [Next]_vars PROVE BegunIsAdded'
  OBVIOUS
<1>1. Added \subseteq Added'
  <2>1. ASSUME NEW c \in CPU, Nothing(c) PROVE Added' = Added
    BY <2>1, NothingOwner
  <2> QED BY <2>1, StepChange, GetsOwner, PutsOwner, FreesOwner DEF Loads, IInv
<1>2. ASSUME NEW c \in CPU, Run(c) PROVE BegunIsAdded'
  <2>1. proc[c] \in Proc /\ Held(proc[c])
    BY <1>2, ConstantTypes DEF Run, At, IInv, Quanta, TypeOK, Holds, Held
  <2>2. proc[c] \in Added
    BY <2>1 DEF IInv, OneOwner
  <2>3. \A p \in Proc : p # proc[c] => pc'[p] = pc[p]
    BY <1>2 DEF Run, IInv, TypeOK
  <2> QED BY <1>1, <2>2, <2>3 DEF BegunIsAdded
<1>3. ASSUME pc' = pc PROVE BegunIsAdded'
  BY <1>1, <1>3 DEF BegunIsAdded
<1>4. (\E c \in CPU : Run(c)) \/ pc' = pc
  BY DEF Next, Terminated, vars, cpu_routine, TakeFirst, Finish, PutBack, TakeNext, Continue,
     StopCpu, SkipSlot, DispatchProc, ld_routine, LoadWait, LoadAdd, LoadDone, LoadDetach,
     NextTimeSlot, StopTimer, pcbVars
<1> QED BY <1>2, <1>3, <1>4

\* A get that makes a CPU's local NULL has left no process queued.
LEMMA GetTends ==
  ASSUME IInv, NEW c \in CPU, NEW r \in Proc \cup {NULL}, get_proc(c, r)
  PROVE  Tended'
<1>1. CASE r = NULL
  <2>1. \A x \in Proc : ~(Queued(x))'
    BY <1>1, GetOwner DEF get_proc, IInv, TypeOK, OneOwner
  <2> QED BY <2>1 DEF Tended
<1>2. CASE r # NULL
  <2>1. proc'[c] # NULL
    BY <1>2 DEF get_proc, IInv, TypeOK
  <2> QED BY <2>1 DEF Tended
<1> QED BY <1>1, <1>2

LEMMA StepTended ==
  ASSUME IInv, BegunIsAdded, Tended, [Next]_vars
  PROVE  Tended'
<1>1. ASSUME UNCHANGED <<mlqVars, proc, pc>> PROVE Tended'
  BY <1>1 DEF Tended, Queued, QueuedAt, mlqVars
<1>2. ASSUME NEW c \in CPU, proc' = proc, proc[c] # NULL PROVE Tended'
  BY <1>2 DEF Tended
<1>3. ASSUME NEW c \in CPU, cpu_routine(c) PROVE Tended'
  <2>1. CASE TakeFirst(c) \/ TakeNext(c)
    BY <2>1, GetTends DEF TakeFirst, TakeNext
  <2>2. CASE Finish(c) \/ PutBack(c) \/ Continue(c) \/ DispatchProc(c)
    BY <1>2, <2>2 DEF Finish, PutBack, Continue, DispatchProc
  <2>3. CASE Run(c)
    BY <1>2, <2>3 DEF Run, At, IInv, Quanta
  <2>4. CASE StopCpu(c) \/ SkipSlot(c)
    BY <1>1, <2>4 DEF StopCpu, SkipSlot, pcbVars
  <2> QED BY <1>3, <2>1, <2>2, <2>3, <2>4 DEF cpu_routine
<1>4. CASE LoadAdd
  <2>1. Candidate \in Proc /\ Candidate \notin Added /\ insert(Candidate)
    BY <1>4, CandidateIsNew DEF LoadAdd, add_mlq_proc, IInv
  <2>2. ~Queued(Candidate)
    BY <2>1 DEF IInv, OneOwner
  <2>3. \A x \in Proc : (Queued(x))' => Queued(x) \/ x = Candidate
    BY <2>1, <2>2, InsertOwner DEF IInv, TypeOK, OneOwner
  <2>4. ~(pc[Candidate] > 0)
    BY <2>1 DEF BegunIsAdded
  <2>5. proc' = proc /\ pc' = pc
    BY <1>4 DEF LoadAdd, cpuVars, pcbVars
  <2> QED BY <2>3, <2>4, <2>5 DEF Tended
<1>5. CASE LoadWait \/ LoadDone \/ LoadDetach \/ NextTimeSlot \/ StopTimer \/ UNCHANGED vars
  BY <1>1, <1>5 DEF LoadWait, LoadDone, LoadDetach, NextTimeSlot, StopTimer, vars, cpuVars,
     pcbVars
<1> QED BY <1>3, <1>4, <1>5 DEF Next, Terminated, ld_routine

LEMMA StepStopped == IInv /\ StoppedHaveNone /\ [Next]_vars => StoppedHaveNone'
<1> SUFFICES ASSUME IInv, StoppedHaveNone, [Next]_vars PROVE StoppedHaveNone'
  OBVIOUS
<1> USE DEF StoppedHaveNone
<1>1. CASE UNCHANGED cpuVars
  BY <1>1 DEF cpuVars
<1>2. ASSUME NEW c \in CPU, cpu_routine(c) PROVE StoppedHaveNone'
  BY <1>2 DEF cpu_routine, TakeFirst, Finish, PutBack, TakeNext, Continue, StopCpu, SkipSlot,
     DispatchProc, Run, At, GoTo, get_proc, IInv, TypeOK
<1> QED BY <1>1, <1>2 DEF Next, Terminated, vars, ld_routine, LoadWait, LoadAdd, LoadDone,
        LoadDetach, NextTimeSlot, StopTimer

\* When every CPU has stopped, a process that has executed an instruction was
\* executed to its end, for any number of CPUs: what a CPU that stops leaves
\* behind was never begun.
THEOREM BegunIsFinishedHolds ==
  ASSUME EnoughRoom
  PROVE  Spec => []BegunIsFinished
<1>1. Init => BegunIsAdded /\ Tended /\ StoppedHaveNone
  BY DEF Init, load, BegunIsAdded, Tended, StoppedHaveNone
<1>2. IInv /\ NothingLost /\ BegunIsAdded /\ Tended /\ StoppedHaveNone => BegunIsFinished
  <2> SUFFICES ASSUME IInv, NothingLost, BegunIsAdded, Tended, StoppedHaveNone, AllStopped,
                      NEW p \in Proc, pc[p] > 0
               PROVE  p \in freed
    BY DEF BegunIsFinished
  <2>1. \A c \in CPU : proc[c] = NULL
    BY DEF AllStopped, StoppedHaveNone
  <2>2. ~Queued(p) /\ ~Held(p)
    BY <2>1, ConstantTypes DEF Tended, Held, Holds
  <2> QED BY <2>2 DEF NothingLost, BegunIsAdded
<1> QED BY <1>1, <1>2, StepBegunIsAdded, StepTended, StepStopped, InvariantHolds,
           NothingLostHolds, PTL DEF Spec

-----------------------------------------------------------------------------
(* Slots. *)

\* A CPU about to run a process that ran in this slot waits for the next one.
RanBefore ==
  \A c \in CPU : cpc[c] = "run" /\ proc[c] \in ran => at[c] # "working"

LEMMA StepRanBefore == IInv /\ RanBefore /\ [Next]_vars => RanBefore'
<1> SUFFICES ASSUME IInv, RanBefore, [Next]_vars PROVE RanBefore'
  OBVIOUS
<1> USE DEF IInv, TypeOK, RanBefore
<1>1. ASSUME NEW c \in CPU, Run(c) PROVE RanBefore'
  <2> SUFFICES ASSUME NEW d \in CPU, cpc'[d] = "run", proc'[d] \in ran'
               PROVE  at'[d] # "working"
    OBVIOUS
  <2>1. d # c /\ cpc[d] = "run" /\ proc' = proc /\ at' = at /\ ran' = ran \cup {proc[c]}
    BY <1>1 DEF Run, GoTo, barrierVars
  <2>2. proc[d] \in Proc /\ Holds(d, proc[d]) /\ Holds(c, proc[c])
    BY <1>1, <2>1, ConstantTypes DEF Run, At, Quanta, Holds
  <2>3. proc[d] # proc[c]
    BY <2>1, <2>2 DEF OneOwner
  <2> QED BY <2>1, <2>3
<1>2. ASSUME NEW c \in CPU, DispatchProc(c) \/ Continue(c) PROVE RanBefore'
  BY <1>2 DEF DispatchProc, Continue, GoTo, B!Arrive, pcbVars
<1>3. ASSUME NEW c \in CPU, cpu_routine(c), ~Run(c), ~DispatchProc(c), ~Continue(c)
      PROVE  RanBefore'
  <2>1. /\ ran' = ran /\ cpc'[c] # "run"
        /\ \A d \in CPU \ {c} : cpc'[d] = cpc[d] /\ proc'[d] = proc[d] /\ at'[d] = at[d]
    <3>1. CASE TakeFirst(c)
      BY <3>1 DEF TakeFirst, At, get_proc, GoTo, B!Arrive, barrierVars, pcbVars
    <3>2. CASE Finish(c) \/ PutBack(c) \/ TakeNext(c)
      BY <3>2 DEF Finish, PutBack, TakeNext, At, get_proc, GoTo, barrierVars, pcbVars
    <3>3. CASE StopCpu(c) \/ SkipSlot(c)
      BY <3>3 DEF StopCpu, SkipSlot, GoTo, B!Arrive, B!Leave, pcbVars
    <3> QED BY <1>3, <3>1, <3>2, <3>3 DEF cpu_routine
  <2> QED BY <2>1
<1>4. CASE ld_routine
  <2>1. UNCHANGED cpuVars /\ ran' = ran /\ \A c \in CPU : at'[c] = at[c]
    BY <1>4, OSAssumption DEF ld_routine, LoadWait, LoadAdd, LoadDone, LoadDetach, B!Arrive,
       B!Leave, barrierVars, pcbVars
  <2> QED BY <2>1 DEF cpuVars
<1>5. CASE NextTimeSlot
  BY <1>5 DEF NextTimeSlot
<1>6. CASE StopTimer \/ UNCHANGED vars
  BY <1>6 DEF StopTimer, B!Stop, vars, cpuVars, barrierVars, pcbVars
<1> QED BY <1>1, <1>2, <1>3, <1>4, <1>5, <1>6 DEF Next, Terminated

\* A process executes at most one instruction per time slot, for any number
\* of CPUs that hand it on.
THEOREM OneInstructionPerSlotHolds == Spec => OneInstructionPerSlot
<1> DEFINE Once == \A p \in Proc : pc'[p] # pc[p] => p \notin ran
<1>1. IInv /\ RanBefore /\ [Next]_vars => [Once]_vars
  <2> SUFFICES ASSUME IInv, RanBefore, Next, NEW p \in Proc, pc'[p] # pc[p]
               PROVE  p \notin ran
    OBVIOUS
  <2>1. \E c \in CPU : Run(c)
    BY DEF Next, Terminated, vars, cpu_routine, TakeFirst, Finish, PutBack, TakeNext, Continue,
       StopCpu, SkipSlot, DispatchProc, ld_routine, LoadWait, LoadAdd, LoadDone, LoadDetach,
       NextTimeSlot, StopTimer, pcbVars
  <2>2. PICK c \in CPU : Run(c)
    BY <2>1
  <2>3. p = proc[c]
    BY <2>2 DEF Run, IInv, TypeOK
  <2> QED BY <2>2, <2>3 DEF Run, At, B!Working, RanBefore
<1>2. Init => RanBefore
  BY DEF Init, RanBefore
<1> QED BY <1>1, <1>2, StepRanBefore, InvariantHolds, PTL DEF Spec, OneInstructionPerSlot

-----------------------------------------------------------------------------
(* The threads are callers of the scheduler as MLQSystem assumes them. *)

\* A CPU that holds nothing is one the scheduler has a process for.
LEMMA FreeCpu ==
  ASSUME OneOwner, NEW c \in CPU, \A q \in Proc : ~Holds(c, q)
  PROVE  Cardinality(HeldSet) < Cardinality(CPU)
<1> DEFINE f == [p \in HeldSet |-> CHOOSE d \in CPU : Holds(d, p)]
           Others == CPU \ {c}
<1>1. \A p \in HeldSet : f[p] \in CPU /\ Holds(f[p], p)
  BY DEF HeldSet, Held
<1>2. f \in [HeldSet -> Others]
  BY <1>1 DEF HeldSet
<1>3. \A p, q \in HeldSet : f[p] = f[q] => p = q
  BY <1>1 DEF Holds
<1>4. IsFiniteSet(Others) /\ Cardinality(Others) = Cardinality(CPU) - 1
  BY FS_RemoveElement, OSAssumption
<1>5. Cardinality(HeldSet) <= Cardinality(Others) /\ IsFiniteSet(HeldSet)
  <2> HIDE DEF f, Others
  <2> QED BY <1>2, <1>3, <1>4, FS_Injection DEF Injection, IsInjective
<1>6. Cardinality(HeldSet) \in Nat /\ Cardinality(CPU) \in Nat
  BY <1>5, OSAssumption, FS_CardinalityType
<1> QED BY <1>4, <1>5, <1>6

\* The scheduler's operations are those of MLQ.
LEMMA SameInsert ==
  ASSUME NEW p, insert(p)
  PROVE  Scheduler!insert(p)
  BY DEF insert, Scheduler!insert, enqueue, Scheduler!enqueue, Prio, Scheduler!Prio

LEMMA SameGet ==
  ASSUME NEW r, get_mlq_proc(r)
  PROVE  Scheduler!get_mlq_proc(r)
<1>1. Prio = Scheduler!Prio
  BY DEF Prio, Scheduler!Prio
<1>2. NonEmpty = Scheduler!NonEmpty /\ Eligible = Scheduler!Eligible
  BY <1>1 DEF NonEmpty, Eligible, Scheduler!NonEmpty, Scheduler!Eligible
<1>3. FullBudget = Scheduler!FullBudget
  BY <1>1 DEF FullBudget, Scheduler!FullBudget
<1>4. ASSUME NEW i, NEW S PROVE ScanStopsAt(i, S) <=> Scheduler!ScanStopsAt(i, S)
  BY DEF ScanStopsAt, Scheduler!ScanStopsAt, Dist, Scheduler!Dist
<1>5. ASSUME NEW i, NEW b PROVE Dispatch(r, i, b) <=> Scheduler!Dispatch(r, i, b)
  BY DEF Dispatch, Scheduler!Dispatch
<1>6. GetWithinBudget(r) => Scheduler!GetWithinBudget(r)
  BY <1>1, <1>2, <1>4, <1>5 DEF GetWithinBudget, Scheduler!GetWithinBudget
<1>7. GetAfterRefill(r) => Scheduler!GetAfterRefill(r)
  BY <1>1, <1>2, <1>3, <1>4, <1>5 DEF GetAfterRefill, Scheduler!GetAfterRefill
<1>8. GetNothing => Scheduler!GetNothing
  BY <1>2, <1>3 DEF GetNothing, Scheduler!GetNothing
<1> QED BY <1>6, <1>7, <1>8 DEF get_mlq_proc, Scheduler!get_mlq_proc

LEMMA StepScheduler ==
  ASSUME IInv, [Next]_vars
  PROVE  [Scheduler!Next]_(Scheduler!vars)
<1>1. ASSUME NEW c \in CPU, NEW r \in Proc \cup {NULL}, Gets(c, r)
      PROVE  Scheduler!GetAny
  <2>1. Cardinality(HeldSet) < Cardinality(CPU)
    BY <1>1, FreeCpu DEF Gets, IInv
  <2>2. HeldSet' = HeldSet \cup ({r} \ {NULL}) /\ Added' = Added
    BY <1>1, GetsOwner DEF IInv
  <2>3. Scheduler!Cardinality(HeldSet) = Cardinality(HeldSet)
    BY DEF Scheduler!Cardinality, Cardinality
  <2>4. Scheduler!Get(r)
    BY <1>1, <2>1, <2>2, <2>3, SameGet DEF Scheduler!Get, Gets, HeldSet
  <2> QED BY <2>4 DEF Scheduler!GetAny
<1>2. ASSUME NEW c \in CPU, NEW p \in Proc, Puts(c, p)
      PROVE  Scheduler!Preempt(p)
  <2>1. HeldSet' = HeldSet \ {p} /\ Added' = Added /\ p \in HeldSet
    BY <1>2, PutsOwner DEF IInv
  <2> QED BY <1>2, <2>1, SameInsert
          DEF Scheduler!Preempt, Scheduler!put_mlq_proc, Puts, HeldSet
<1>3. ASSUME NEW c \in CPU, NEW p \in Proc, Frees(c, p)
      PROVE  Scheduler!Finish(p)
  <2>1. HeldSet' = HeldSet \ {p} /\ Added' = Added /\ p \in HeldSet
    BY <1>3, FreesOwner DEF IInv
  <2> QED BY <1>3, <2>1 DEF Scheduler!Finish, Frees, SameQueues, mlqVars, HeldSet
<1>4. ASSUME NEW p \in Proc, Loads(p)
      PROVE  Scheduler!Load(p)
  <2>1. HeldSet' = HeldSet
    BY <1>4, LoadsOwner DEF IInv
  <2> QED BY <1>4, <2>1, SameInsert
          DEF Scheduler!Load, Scheduler!add_mlq_proc, Loads, HeldSet
<1>5. ASSUME NEW c \in CPU, Nothing(c), got' = got
      PROVE  UNCHANGED Scheduler!vars
  <2>1. HeldSet' = HeldSet /\ Added' = Added
    BY <1>5, NothingOwner
  <2> QED BY <1>5, <2>1 DEF Scheduler!vars, Nothing, SameQueues, mlqVars, HeldSet
<1> QED BY <1>1, <1>2, <1>3, <1>4, <1>5, StepChange DEF Scheduler!Next

\* The CPU and loader threads use the ready queue only as MLQSystem assumes,
\* so what is proved of MLQSystem holds of the program: for any number of
\* CPUs, a CPU asks for a process only when it holds none, returns only the
\* one it holds, and the loader adds each process once.
THEOREM ImplementsSchedulerHolds == Spec => ImplementsScheduler
<1>1. Init => Scheduler!Init
  <2> SUFFICES ASSUME Init PROVE Scheduler!Init
    OBVIOUS
  <2>1. HeldSet = {} /\ Added = {}
    BY InitOwner
  <2> QED BY <2>1 DEF Init, Scheduler!Init, init_scheduler, Scheduler!init_scheduler,
             HeldSet, Prio, Scheduler!Prio, FullBudget, Scheduler!FullBudget
<1> QED BY <1>1, StepScheduler, InvariantHolds, PTL
        DEF Spec, ImplementsScheduler, Scheduler!Spec

-----------------------------------------------------------------------------
(* What the modules OS is composed of promise, holds of the whole program. *)

LEMMA SameQueued ==
  \A p \in Proc : /\ Scheduler!Queued(p) <=> Queued(p)
                  /\ (Scheduler!Queued(p))' <=> (Queued(p))'
  BY DEF Queued, QueuedAt, Scheduler!Queued, Scheduler!QueuedAt, Prio, Scheduler!Prio

LEMMA StepPool ==
  ASSUME EnoughRoom, IInv, [Next]_vars
  PROVE  [Scheduler!Pool!Next]_(Scheduler!Pool!vars)
<1> USE SameQueued DEF HeldSet
<1>0. NULL \notin Proc /\ Added \subseteq Proc
  BY ConstantTypes, AddedType DEF IInv
<1>1. ASSUME NEW c \in CPU, NEW r \in Proc \cup {NULL}, Gets(c, r)
      PROVE  (Scheduler!Pool!Take(r) /\ r \in Proc) \/ Scheduler!Pool!TakeNothing
  <2>1. /\ HeldSet' = HeldSet \cup ({r} \ {NULL}) /\ Added' = Added
        /\ \A x \in Proc : (Queued(x))' <=> Queued(x) /\ x # r
    BY <1>1, GetsOwner DEF IInv
  <2>2. /\ r = NULL => \A x \in Proc : ~Queued(x)
        /\ r # NULL => Queued(r)
    BY <1>1, GetOwner DEF Gets, IInv, TypeOK, OneOwner
  <2> QED BY <1>0, <1>1, <2>1, <2>2 DEF Gets, Scheduler!Pool!Take, Scheduler!Pool!TakeNothing
<1>2. ASSUME NEW c \in CPU, NEW p \in Proc, Puts(c, p) PROVE Scheduler!Pool!Put(p)
  <2>1. ~Queued(p) /\ HeldSet' = HeldSet \ {p} /\ Added' = Added /\ p \in HeldSet
    BY <1>2, PutsOwner DEF IInv
  <2>2. \A x \in Proc : (Queued(x))' <=> Queued(x) \/ x = p
    BY <1>2, <2>1, InsertKeeps DEF IInv, TypeOK, OneOwner, Puts
  <2> QED BY <1>2, <2>1, <2>2 DEF Puts, Scheduler!Pool!Put
<1>3. ASSUME NEW c \in CPU, NEW p \in Proc, Frees(c, p) PROVE Scheduler!Pool!Free(p)
  <2>1. /\ HeldSet' = HeldSet \ {p} /\ Added' = Added /\ p \in HeldSet
        /\ \A x \in Proc : (Queued(x))' <=> Queued(x)
    BY <1>3, FreesOwner DEF IInv
  <2> QED BY <1>3, <2>1 DEF Frees, Scheduler!Pool!Free
<1>4. ASSUME NEW p \in Proc, Loads(p) PROVE Scheduler!Pool!Add(p)
  <2>1. ~Queued(p) /\ HeldSet' = HeldSet
    BY <1>4, LoadsOwner DEF IInv
  <2>2. \A x \in Proc : (Queued(x))' <=> Queued(x) \/ x = p
    BY <1>4, <2>1, InsertKeeps DEF IInv, TypeOK, OneOwner, Loads
  <2> QED BY <1>4, <2>1, <2>2 DEF Loads, Scheduler!Pool!Add
<1>5. ASSUME NEW c \in CPU, Nothing(c), got' = got PROVE UNCHANGED Scheduler!Pool!vars
  <2>1. HeldSet' = HeldSet /\ Added' = Added /\ \A x \in Proc : (Queued(x))' <=> Queued(x)
    BY <1>5, NothingOwner
  <2> QED BY <1>5, <2>1 DEF Nothing, Scheduler!Pool!vars
<1> QED BY <1>1, <1>2, <1>3, <1>4, <1>5, StepChange DEF Scheduler!Pool!Next

\* The program as a whole, its queues, budgets, CPUs and loader, is a pool of
\* processes: a get_proc that returns NULL found nothing queued, any other
\* takes a process that then only the caller has.
THEOREM PoolImplemented ==
  ASSUME EnoughRoom
  PROVE  Spec => Scheduler!ImplementsPool
<1>1. Init => Scheduler!Pool!Init
  <2> SUFFICES ASSUME Init PROVE Scheduler!Pool!Init
    OBVIOUS
  <2>1. HeldSet = {} /\ Added = {}
    BY InitOwner
  <2>2. \A p \in Proc : ~Queued(p)
    BY DEF Init, init_scheduler, Queued, QueuedAt
  <2> QED BY <2>1, <2>2, SameQueued DEF Init, Scheduler!Pool!Init, HeldSet
<1> QED BY <1>1, StepPool, InvariantHolds, PTL
        DEF Spec, Scheduler!ImplementsPool, Scheduler!Pool!Spec

\* With any number of CPUs each process a CPU gets brings the turn of every
\* other priority that has a process and budget closer.
THEOREM TurnProgressHolds == Spec => Scheduler!TurnProgress
<1> DEFINE Closer == \A p \in HeldSet' \ HeldSet : \A i \in Scheduler!Eligible :
                       prio[p] # i => (Scheduler!Dist(i))' < Scheduler!Dist(i)
<1>1. IInv /\ [Next]_vars => [Closer]_(Scheduler!vars)
  <2>1. Scheduler!Eligible = Eligible
    BY DEF Eligible, Scheduler!Eligible, NonEmpty, Scheduler!NonEmpty, Prio, Scheduler!Prio
  <2>2. \A i : Scheduler!Dist(i) = Dist(i) /\ (Scheduler!Dist(i))' = (Dist(i))'
    BY DEF Dist, Scheduler!Dist
  <2> SUFFICES ASSUME IInv, [Next]_vars, NEW p \in HeldSet' \ HeldSet,
                      NEW j \in Eligible, prio[p] # j
               PROVE  (Dist(j))' < Dist(j)
    BY <2>1, <2>2
  <2>3. p \in Proc /\ NULL \notin Proc
    BY ConstantTypes DEF HeldSet
  <2>4. \E c \in CPU : Gets(c, p)
    <3>1. ASSUME NEW c \in CPU, NEW r \in Proc \cup {NULL}, Gets(c, r) PROVE r = p
      <4>1. HeldSet' = HeldSet \cup ({r} \ {NULL})
        BY <3>1, GetsOwner DEF IInv
      <4> QED BY <4>1
    <3>2. ASSUME NEW c \in CPU, Nothing(c) PROVE FALSE
      <4>1. HeldSet' = HeldSet
        BY <3>2, NothingOwner
      <4> QED BY <4>1
    <3>3. ASSUME NEW c \in CPU, NEW q \in Proc, Puts(c, q) \/ Frees(c, q) PROVE FALSE
      <4>1. HeldSet' = HeldSet \ {q}
        BY <3>3, PutsOwner, FreesOwner DEF IInv
      <4> QED BY <4>1
    <3>4. ASSUME NEW q \in Proc, Loads(q) PROVE FALSE
      <4>1. HeldSet' = HeldSet
        BY <3>4, LoadsOwner DEF IInv
      <4> QED BY <4>1
    <3> QED BY <3>1, <3>2, <3>3, <3>4, StepChange
  <2>5. get_mlq_proc(p)
    BY <2>4 DEF Gets
  <2>6. GetWithinBudget(p)
    BY <2>3, <2>5 DEF get_mlq_proc, GetAfterRefill
  <2>7. PICK i \in Prio : ScanStopsAt(i, Eligible) /\ Dispatch(p, i, slot)
    BY <2>6 DEF GetWithinBudget
  <2>8. prio[p] = i
    BY <2>3, <2>7, DispatchOwner DEF IInv, TypeOK, OneOwner, ScanStopsAt, Eligible
  <2>9. Eligible \in SUBSET Prio
    BY DEF Eligible, NonEmpty
  <2> QED BY <2>7, <2>8, <2>9, DispatchTurn DEF IInv, TypeOK, Dispatch
<1> QED BY <1>1, InvariantHolds, PTL DEF Spec, Scheduler!TurnProgress, HeldSet

\* In the program, too, a process that waits in a queue stays there until a
\* CPU gets it, and waits less after each process that any CPU got instead.
THEOREM WaitShortensHolds == Spec => Scheduler!WaitShortens
<1> DEFINE Waits(p) == \/ p \in HeldSet'
                       \/ /\ (Scheduler!Queued(p))' /\ Scheduler!Ahead(p)' \subseteq Scheduler!Ahead(p)
                          /\ IF HeldSet' \subseteq HeldSet THEN UNCHANGED <<slot, curr_prio>>
                                                           ELSE Scheduler!Shorter(p)
           AllWait == \A p \in Proc : Scheduler!Queued(p) => Waits(p)
<1>1. IInv /\ [Next]_vars => [AllWait]_(Scheduler!vars)
  <2> SUFFICES ASSUME IInv, [Next]_vars, NEW x \in Proc, Queued(x)
               PROVE  Waits(x)
    BY SameQueued
  <2>1. MLQTypeOK /\ QueuesWellFormed
    BY DEF IInv, TypeOK, OneOwner
  <2>2. \A p : Scheduler!Ahead(p) = Ahead(p) /\ Scheduler!Ahead(p)' = Ahead(p)'
    BY DEF Ahead, Scheduler!Ahead
  <2>3. Shorter(x) => Scheduler!Shorter(x)
    BY <2>2 DEF Shorter, Scheduler!Shorter, Dist, Scheduler!Dist, Prio, Scheduler!Prio
  <2>4. ASSUME NEW p \in Proc, insert(p), ~Queued(p), HeldSet' \subseteq HeldSet
        PROVE  Waits(x)
    BY <2>1, <2>2, <2>4, InsertWait, SameQueued
  <2>5. ASSUME SameQueues, HeldSet' \subseteq HeldSet PROVE Waits(x)
    <3>1. Ahead(x)' = Ahead(x) /\ UNCHANGED <<slot, curr_prio>>
      BY <2>5, SameAhead DEF SameQueues, mlqVars
    <3>2. (Queued(x))'
      BY <2>5 DEF SameQueues, mlqVars, Queued, QueuedAt
    <3> QED BY <2>2, <2>5, <3>1, <3>2, SameQueued
  <2>6. ASSUME NEW c \in CPU, NEW r \in Proc \cup {NULL}, Gets(c, r) PROVE Waits(x)
    <3>1. get_mlq_proc(r) /\ HeldSet' = HeldSet \cup ({r} \ {NULL})
      BY <2>6, GetsOwner DEF Gets, IInv
    <3>2. CASE x = r
      BY <3>1, <3>2, ConstantTypes
    <3>3. CASE x # r
      <4>1. r # NULL /\ (Queued(x))' /\ Ahead(x)' \subseteq Ahead(x) /\ Shorter(x)
        BY <2>1, <3>1, <3>3, GetWait
      <4>2. Queued(r)
        BY <2>1, <3>1, <4>1, GetOwner
      <4>3. r \notin HeldSet
        BY <4>2 DEF IInv, OneOwner, HeldSet
      <4> QED BY <2>2, <2>3, <3>1, <4>1, <4>3, SameQueued
    <3> QED BY <3>2, <3>3
  <2>7. ASSUME NEW c \in CPU, NEW p \in Proc, Puts(c, p) \/ Frees(c, p) PROVE Waits(x)
    BY <2>4, <2>5, <2>7, PutsOwner, FreesOwner DEF Puts, Frees, IInv
  <2>8. ASSUME NEW p \in Proc, Loads(p) PROVE Waits(x)
    BY <2>4, <2>8, LoadsOwner DEF Loads, IInv
  <2>9. ASSUME NEW c \in CPU, Nothing(c) PROVE Waits(x)
    BY <2>5, <2>9, NothingOwner DEF Nothing
  <2> QED BY <2>6, <2>7, <2>8, <2>9, StepChange
<1> QED BY <1>1, InvariantHolds, PTL DEF Spec, Scheduler!WaitShortens, HeldSet

\* The CPU and loader threads call the timer only as SlotBarrier allows,
\* which TimerProofs shows of timer.c: each declares its slot done once, only
\* while it works in it, and none does anything after detach_event.
THEOREM BarrierImplemented == Spec => B!Spec
<1>1. Init => B!BarrierInit
  BY DEF Init
<1>2. [Next]_vars => [B!Next]_(B!barrierVars)
  <2> SUFFICES ASSUME [Next]_vars PROVE B!Next \/ UNCHANGED barrierVars
    BY DEF barrierVars, B!barrierVars
  <2>1. ASSUME NEW c \in CPU, cpu_routine(c)
        PROVE  B!Arrive(c) \/ B!Leave(c) \/ UNCHANGED barrierVars
    BY <2>1 DEF cpu_routine, TakeFirst, Finish, PutBack, TakeNext, Continue, StopCpu, SkipSlot,
       DispatchProc, Run
  <2>2. ASSUME ld_routine PROVE B!Arrive(LOADER) \/ B!Leave(LOADER) \/ UNCHANGED barrierVars
    BY <2>2 DEF ld_routine, LoadWait, LoadAdd, LoadDone, LoadDetach
  <2>3. CASE NextTimeSlot \/ StopTimer \/ UNCHANGED vars
    BY <2>3 DEF NextTimeSlot, StopTimer, vars, B!Next
  <2> QED BY <2>1, <2>2, <2>3 DEF Next, Terminated, B!Next
<1> QED BY <1>1, <1>2, PTL DEF Spec, B!Spec
=============================================================================
