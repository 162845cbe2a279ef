----------------------------- MODULE MLQProofs -----------------------------
(***************************************************************************)
(* Proofs about the ready queue of sched.c, for any number of processes,   *)
(* priorities and CPUs, and any queue capacity.                            *)
(***************************************************************************)
EXTENDS MLQSystem, MLQLemmas

\* In every reachable state the budgets, the cursor and the queues are within
\* the bounds of the C arrays, for every number of priorities.
THEOREM TypeCorrect == Spec => []TypeOK
<1>1. Init => TypeOK
  BY MLQAssumption, FullBudgetType DEF Prio, Init, init_scheduler, TypeOK, MLQTypeOK
<1>2. TypeOK /\ [Next]_vars => TypeOK'
  <2> SUFFICES ASSUME TypeOK, [Next]_vars PROVE TypeOK'
    OBVIOUS
  <2>1. ASSUME NEW p \in Proc, Load(p) PROVE TypeOK'
    BY <2>1, InsertType DEF Load, add_mlq_proc, TypeOK
  <2>2. ASSUME NEW p \in Proc, Preempt(p) PROVE TypeOK'
    BY <2>2, InsertType DEF Preempt, put_mlq_proc, TypeOK
  <2>3. ASSUME NEW p \in Proc, Finish(p) PROVE TypeOK'
    BY <2>3 DEF Finish, TypeOK, MLQTypeOK
  <2>4. ASSUME NEW r \in Proc \cup {NULL}, Get(r) PROVE TypeOK'
    BY <2>4, GetType DEF Get, TypeOK
  <2>5. CASE UNCHANGED vars
    BY <2>5 DEF vars, TypeOK, MLQTypeOK
  <2> QED BY <2>1, <2>2, <2>3, <2>4, <2>5 DEF Next, GetAny
<1> QED BY <1>1, <1>2, PTL DEF Spec

\* Every process has at most one owner, for any number of CPUs, any
\* priorities (illegal ones included) and any capacity of the queues.
THEOREM OneOwnerHolds == Spec => []OneOwner
<1>1. Init => OneOwner
  BY DEF Init, init_scheduler, OneOwner, QueuesWellFormed, OwnersDisjoint,
         Queued, QueuedAt
<1>2. TypeOK /\ OneOwner /\ [Next]_vars => OneOwner'
  <2> SUFFICES ASSUME TypeOK, OneOwner, [Next]_vars PROVE OneOwner'
    OBVIOUS
  <2> USE DEF OneOwner
  <2>0. MLQTypeOK /\ QueuesWellFormed /\ OwnersDisjoint
    BY DEF TypeOK
  <2>1. ASSUME NEW p \in Proc, Load(p) PROVE OneOwner'
    <3>1. insert(p) /\ ~Queued(p)
      BY <2>1 DEF Load, add_mlq_proc, OwnersDisjoint
    <3>2. QueuesWellFormed' /\ \A x \in Proc : (Queued(x))' => Queued(x) \/ x = p
      BY <3>1, <2>0, InsertOwner
    <3> QED BY <2>1, <3>2 DEF Load, OwnersDisjoint, TypeOK
  <2>2. ASSUME NEW p \in Proc, Preempt(p) PROVE OneOwner'
    <3>1. insert(p) /\ ~Queued(p)
      BY <2>2 DEF Preempt, put_mlq_proc, OwnersDisjoint
    <3>2. QueuesWellFormed' /\ \A x \in Proc : (Queued(x))' => Queued(x) \/ x = p
      BY <3>1, <2>0, InsertOwner
    <3> QED BY <2>2, <3>2 DEF Preempt, OwnersDisjoint, TypeOK
  <2>3. ASSUME NEW p \in Proc, Finish(p) PROVE OneOwner'
    BY <2>3 DEF Finish, OwnersDisjoint, QueuesWellFormed, Queued, QueuedAt
  <2>4. ASSUME NEW r \in Proc \cup {NULL}, Get(r) PROVE OneOwner'
    <3>1. get_mlq_proc(r)
      BY <2>4 DEF Get
    <3>2. CASE r = NULL
      <4>1. QueuesWellFormed' /\ \A x \in Proc : ~(Queued(x))'
        BY <3>1, <3>2, <2>0, GetOwner
      <4> QED BY <2>4, <3>2, <4>1 DEF Get, OwnersDisjoint, TypeOK
    <3>3. CASE r # NULL
      <4>1. /\ QueuesWellFormed' /\ Queued(r)
            /\ \A x \in Proc : (Queued(x))' <=> Queued(x) /\ x # r
        BY <3>1, <3>3, <2>0, GetOwner
      <4>2. r \notin unloaded /\ r \notin freed
        BY <4>1 DEF OwnersDisjoint
      <4> QED BY <2>4, <3>3, <4>1, <4>2 DEF Get, OwnersDisjoint, TypeOK
    <3> QED BY <3>2, <3>3
  <2>5. CASE UNCHANGED vars
    BY <2>5 DEF vars, OwnersDisjoint, QueuesWellFormed, Queued, QueuedAt
  <2> QED BY <2>1, <2>2, <2>3, <2>4, <2>5 DEF Next, GetAny
<1> QED BY <1>1, <1>2, TypeCorrect, PTL DEF Spec

\* Each dispatch brings the turn of every other eligible priority closer.
THEOREM TurnProgressHolds == Spec => TurnProgress
<1> DEFINE Closer == \A p \in held' \ held : \A i \in Eligible :
                       prio[p] # i => (Dist(i))' < Dist(i)
<1>1. TypeOK /\ OneOwner /\ [Next]_vars => [Closer]_vars
  <2> SUFFICES ASSUME TypeOK, OneOwner, Next,
                      NEW p \in held' \ held, NEW j \in Eligible, prio[p] # j
               PROVE  (Dist(j))' < Dist(j)
    OBVIOUS
  <2>1. get_mlq_proc(p) /\ p \in Proc
    BY MLQAssumption DEF Next, Load, Preempt, Finish, GetAny, Get
  <2>2. GetWithinBudget(p)
    BY <2>1, MLQAssumption DEF get_mlq_proc, GetAfterRefill
  <2>3. PICK i \in Prio : ScanStopsAt(i, Eligible) /\ Dispatch(p, i, slot)
    BY <2>2 DEF GetWithinBudget
  <2>4. prio[p] = i
    BY <2>1, <2>3, DispatchOwner DEF TypeOK, OneOwner, ScanStopsAt, Eligible
  <2>5. Eligible \in SUBSET Prio
    BY DEF Eligible, NonEmpty
  <2> QED BY <2>3, <2>4, <2>5, DispatchTurn DEF TypeOK, Dispatch
<1> QED BY <1>1, TypeCorrect, OneOwnerHolds, PTL DEF Spec, TurnProgress

\* The wait of a queued process is shorter after each dispatch of another and
\* never longer, for every number of CPUs, processes and priorities and every
\* capacity of the queues: what NoStarvation needs of the scheduler.
THEOREM WaitShortensHolds == Spec => WaitShortens
<1> DEFINE Waits(p) == \/ p \in held'
                       \/ /\ (Queued(p))' /\ Ahead(p)' \subseteq Ahead(p)
                          /\ IF held' \subseteq held THEN UNCHANGED <<slot, curr_prio>>
                                                     ELSE Shorter(p)
<1>1. TypeOK /\ OneOwner /\ [Next]_vars => [\A p \in Proc : Queued(p) => Waits(p)]_vars
  <2> SUFFICES ASSUME TypeOK, OneOwner, Next, NEW x \in Proc, Queued(x)
               PROVE  Waits(x)
    OBVIOUS
  <2>1. MLQTypeOK /\ QueuesWellFormed /\ OwnersDisjoint
    BY DEF TypeOK, OneOwner
  <2>2. ASSUME NEW p \in Proc, Load(p) \/ Preempt(p) PROVE Waits(x)
    <3>1. insert(p) /\ ~Queued(p) /\ held' \subseteq held
      BY <2>1, <2>2 DEF Load, add_mlq_proc, Preempt, put_mlq_proc, OwnersDisjoint
    <3> QED BY <2>1, <3>1, InsertWait
  <2>3. ASSUME NEW p \in Proc, Finish(p) PROVE Waits(x)
    BY <2>3 DEF Finish, Queued, QueuedAt, Ahead
  <2>4. ASSUME NEW r \in Proc \cup {NULL}, Get(r) PROVE Waits(x)
    <3>1. get_mlq_proc(r) /\ held' = held \cup ({r} \ {NULL})
      BY <2>4 DEF Get
    <3>2. CASE x = r
      BY <3>1, <3>2, MLQAssumption
    <3>3. CASE x # r
      <4>1. r # NULL /\ (Queued(x))' /\ Ahead(x)' \subseteq Ahead(x) /\ Shorter(x)
        BY <2>1, <3>1, <3>3, GetWait
      <4>2. Queued(r)
        BY <2>1, <3>1, <4>1, GetOwner
      <4>3. ~(held' \subseteq held)
        BY <2>1, <2>4, <3>1, <4>1, <4>2 DEF OwnersDisjoint
      <4> QED BY <4>1, <4>3
    <3> QED BY <3>2, <3>3
  <2> QED BY <2>2, <2>3, <2>4 DEF Next, GetAny
<1> QED BY <1>1, TypeCorrect, OneOwnerHolds, PTL DEF Spec, WaitShortens

\* With enough room no process is ever lost.
THEOREM NothingLostHolds ==
  ASSUME EnoughRoom
  PROVE  Spec => []NothingLost
<1>1. Init => NothingLost
  BY DEF Init, NothingLost
<1>2. TypeOK /\ OneOwner /\ NothingLost /\ [Next]_vars => NothingLost'
  <2> SUFFICES ASSUME TypeOK, OneOwner, NothingLost, [Next]_vars,
                      NEW x \in Proc
               PROVE  x \in unloaded' \cup held' \cup freed' \/ (Queued(x))'
    BY DEF NothingLost
  <2>0. /\ MLQTypeOK /\ QueuesWellFormed /\ OwnersDisjoint
        /\ x \in unloaded \cup held \cup freed \/ Queued(x)
    BY DEF TypeOK, OneOwner, NothingLost
  <2>1. ASSUME NEW p \in Proc, Load(p) PROVE x \in unloaded' \cup held' \cup freed' \/ (Queued(x))'
    <3>1. insert(p) /\ ~Queued(p)
      BY <2>0, <2>1 DEF Load, add_mlq_proc, OwnersDisjoint
    <3>2. (Queued(x))' <=> Queued(x) \/ x = p
      BY <2>0, <3>1, InsertKeeps
    <3> QED BY <2>0, <2>1, <3>2 DEF Load
  <2>2. ASSUME NEW p \in Proc, Preempt(p) PROVE x \in unloaded' \cup held' \cup freed' \/ (Queued(x))'
    <3>1. insert(p) /\ ~Queued(p)
      BY <2>0, <2>2 DEF Preempt, put_mlq_proc, OwnersDisjoint
    <3>2. (Queued(x))' <=> Queued(x) \/ x = p
      BY <2>0, <3>1, InsertKeeps
    <3> QED BY <2>0, <2>2, <3>2 DEF Preempt
  <2>3. ASSUME NEW p \in Proc, Finish(p) PROVE x \in unloaded' \cup held' \cup freed' \/ (Queued(x))'
    BY <2>0, <2>3 DEF Finish, Queued, QueuedAt
  <2>4. ASSUME NEW r \in Proc \cup {NULL}, Get(r) PROVE x \in unloaded' \cup held' \cup freed' \/ (Queued(x))'
    <3>1. get_mlq_proc(r)
      BY <2>4 DEF Get
    <3>2. r = NULL => ~Queued(x)
      BY <2>0, <3>1, GetOwner
    <3>3. r # NULL => ((Queued(x))' <=> Queued(x) /\ x # r)
      BY <2>0, <3>1, GetOwner
    <3> QED BY <2>0, <2>4, <3>2, <3>3 DEF Get
  <2>5. CASE UNCHANGED vars
    BY <2>0, <2>5 DEF vars, Queued, QueuedAt
  <2> QED BY <2>1, <2>2, <2>3, <2>4, <2>5 DEF Next, GetAny
<1> QED BY <1>1, <1>2, TypeCorrect, OneOwnerHolds, PTL DEF Spec

\* With enough room the queues, budgets and cursor of sched.c implement the
\* abstract pool: a get that returns NULL means nothing is queued.
THEOREM PoolImplemented ==
  ASSUME EnoughRoom
  PROVE  Spec => ImplementsPool
<1>1. Init => Pool!Init
  BY DEF Init, init_scheduler, Pool!Init, Queued, QueuedAt
<1>2. TypeOK /\ OneOwner /\ [Next]_vars => [Pool!Next]_(Pool!vars)
  <2> SUFFICES ASSUME TypeOK, OneOwner, [Next]_vars
               PROVE  [Pool!Next]_(Pool!vars)
    OBVIOUS
  <2>0. MLQTypeOK /\ QueuesWellFormed /\ OwnersDisjoint
    BY DEF TypeOK, OneOwner
  <2>1. ASSUME NEW p \in Proc, Load(p) PROVE Pool!Add(p)
    <3>1. insert(p) /\ ~Queued(p)
      BY <2>0, <2>1 DEF Load, add_mlq_proc, OwnersDisjoint
    <3>2. \A x \in Proc : (Queued(x))' <=> Queued(x) \/ x = p
      BY <2>0, <3>1, InsertKeeps
    <3> QED BY <2>1, <3>2 DEF Load, Pool!Add
  <2>2. ASSUME NEW p \in Proc, Preempt(p) PROVE Pool!Put(p)
    <3>1. insert(p) /\ ~Queued(p)
      BY <2>0, <2>2 DEF Preempt, put_mlq_proc, OwnersDisjoint
    <3>2. \A x \in Proc : (Queued(x))' <=> Queued(x) \/ x = p
      BY <2>0, <3>1, InsertKeeps
    <3> QED BY <2>2, <3>2 DEF Preempt, Pool!Put
  <2>3. ASSUME NEW p \in Proc, Finish(p) PROVE Pool!Free(p)
    BY <2>3 DEF Finish, Pool!Free, Queued, QueuedAt
  <2>4. ASSUME NEW r \in Proc \cup {NULL}, Get(r), r # NULL PROVE Pool!Take(r)
    <3>1. /\ Queued(r)
          /\ \A x \in Proc : (Queued(x))' <=> Queued(x) /\ x # r
      BY <2>0, <2>4, GetOwner DEF Get
    <3> QED BY <2>4, <3>1 DEF Get, Pool!Take
  <2>5. ASSUME Get(NULL) PROVE Pool!TakeNothing
    <3>1. /\ \A x \in Proc : ~Queued(x)
          /\ \A x \in Proc : ~(Queued(x))'
      BY <2>0, <2>5, GetOwner DEF Get
    <3> QED BY <2>5, <3>1 DEF Get, Pool!TakeNothing
  <2>6. CASE UNCHANGED vars
    BY <2>6 DEF vars, Pool!vars, Queued, QueuedAt
  <2> QED BY <2>1, <2>2, <2>3, <2>4, <2>5, <2>6 DEF Next, GetAny, Pool!Next
<1> QED BY <1>1, <1>2, TypeCorrect, OneOwnerHolds, PTL
        DEF Spec, ImplementsPool, Pool!Spec
=============================================================================
