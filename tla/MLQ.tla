-------------------------------- MODULE MLQ --------------------------------
(***************************************************************************)
(* The multi-level ready queue of sched.c: one FIFO queue per priority, a  *)
(* budget of slots per priority, and the cursor curr_prio at which the     *)
(* next search for a process begins.  Every operation runs under           *)
(* queue_lock, so each one is a single step of its caller.  The module has *)
(* no Next of its own: MLQSystem closes it with arbitrary callers, OS with *)
(* the threads of os.c.                                                    *)
(***************************************************************************)
EXTENDS Integers, Sequences, FiniteSets

CONSTANTS
  Proc,            \* the processes that may ever be loaded
  NULL,            \* the C null pointer
  prio,            \* proc->prio, set by the loader before add_proc
  MAX_PRIO,        \* number of priorities, 140 in os-cfg.h
  MAX_QUEUE_SIZE   \* capacity of one queue, 50 in queue.h

\* proc->prio is a uint32_t read from the configuration: any natural number,
\* a value that names no queue included.
ASSUME MLQAssumption ==
  /\ NULL \notin Proc
  /\ MAX_PRIO \in Nat \ {0}
  /\ MAX_QUEUE_SIZE \in Nat \ {0}
  /\ prio \in [Proc -> Nat]

VARIABLES mlq_ready_queue, slot, curr_prio

mlqVars == <<mlq_ready_queue, slot, curr_prio>>

Prio == 0 .. MAX_PRIO - 1

FullBudget == [i \in Prio |-> MAX_PRIO - i]

init_scheduler ==
  /\ mlq_ready_queue = [i \in Prio |-> <<>>]
  /\ slot = FullBudget
  /\ curr_prio = 0

-----------------------------------------------------------------------------
\* Mutant: one place of the array is never used.
enqueueShort(q, p) == IF Len(q) >= MAX_QUEUE_SIZE - 1 THEN q ELSE Append(q, p)

\* Mutant: enqueue_front instead of enqueue.
enqueueFront(q, p) == IF Len(q) >= MAX_QUEUE_SIZE THEN q ELSE <<p>> \o q

\* enqueue of queue.c: a full queue is left alone and nobody is told.
enqueue(q, p) == IF Len(q) >= MAX_QUEUE_SIZE THEN q ELSE Append(q, p)

\* add_mlq_proc and put_mlq_proc have the same effect on the queues.
insert(p) ==
  /\ mlq_ready_queue' = IF prio[p] \in Prio
                          THEN [mlq_ready_queue EXCEPT ![prio[p]] = enqueue(@, p)]
                          ELSE mlq_ready_queue
  /\ UNCHANGED <<slot, curr_prio>>

add_mlq_proc(p) == insert(p)

put_mlq_proc(p) == insert(p)

-----------------------------------------------------------------------------
NonEmpty == {i \in Prio : mlq_ready_queue[i] # <<>>}

Eligible == {i \in NonEmpty : slot[i] > 0}

\* How many cursor steps the circular scan needs to reach priority i.
Dist(i) == IF i >= curr_prio THEN i - curr_prio ELSE i + MAX_PRIO - curr_prio

\* The scan over the priorities in S stops at i.
ScanStopsAt(i, S) == i \in S /\ \A j \in S : Dist(i) <= Dist(j)

\* Mutant: the process is read but not removed.
DispatchPeek(p, i, budget) ==
  /\ p = Head(mlq_ready_queue[i])
  /\ slot' = [budget EXCEPT ![i] = @ - 1]
  /\ curr_prio' = (i + 1) % MAX_PRIO
  /\ UNCHANGED mlq_ready_queue

\* Mutant: the cursor stays at the priority just served.
DispatchStay(p, i, budget) ==
  /\ p = Head(mlq_ready_queue[i])
  /\ mlq_ready_queue' = [mlq_ready_queue EXCEPT ![i] = Tail(@)]
  /\ slot' = [budget EXCEPT ![i] = @ - 1]
  /\ curr_prio' = i

\* Dequeue p from priority i, charge the budget, move the cursor past i.
Dispatch(p, i, budget) ==
  /\ p = Head(mlq_ready_queue[i])
  /\ mlq_ready_queue' = [mlq_ready_queue EXCEPT ![i] = Tail(@)]
  /\ slot' = [budget EXCEPT ![i] = @ - 1]
  /\ curr_prio' = (i + 1) % MAX_PRIO

\* The first scan: a priority with a process and budget left.
GetWithinBudget(p) ==
  \E i \in Prio : ScanStopsAt(i, Eligible) /\ Dispatch(p, i, slot)

\* Mutant: the budgets are not refilled before the second scan.
GetWithoutRefill(p) ==
  /\ Eligible = {}
  /\ \E i \in Prio : ScanStopsAt(i, NonEmpty) /\ Dispatch(p, i, slot)

\* The second scan: every budget is refilled, any process will do.
GetAfterRefill(p) ==
  /\ Eligible = {}
  /\ \E i \in Prio : ScanStopsAt(i, NonEmpty) /\ Dispatch(p, i, FullBudget)

\* Both scans failed: the cursor is back where it was, the budgets are full.
GetNothing ==
  /\ NonEmpty = {}
  /\ slot' = FullBudget
  /\ UNCHANGED <<mlq_ready_queue, curr_prio>>

\* Mutant: no second scan, the refill takes effect at the next call.
get_mlq_procOneScan(result) ==
  \/ result \in Proc /\ GetWithinBudget(result)
  \/ /\ result = NULL /\ Eligible = {}
     /\ slot' = FullBudget
     /\ UNCHANGED <<mlq_ready_queue, curr_prio>>

get_mlq_proc(result) ==
  \/ result \in Proc /\ GetWithinBudget(result)
  \/ result \in Proc /\ GetAfterRefill(result)
  \/ result = NULL /\ GetNothing

-----------------------------------------------------------------------------
MLQTypeOK ==
  /\ mlq_ready_queue \in [Prio -> Seq(Proc)]
  /\ \A i \in Prio : Len(mlq_ready_queue[i]) <= MAX_QUEUE_SIZE
  /\ slot \in [Prio -> Int]
  /\ \A i \in Prio : slot[i] \in 0 .. MAX_PRIO - i
  /\ curr_prio \in Prio

\* p waits in the queue of priority i, or in any queue.
QueuedAt(p, i) == \E k \in DOMAIN mlq_ready_queue[i] : mlq_ready_queue[i][k] = p

Queued(p) == \E i \in Prio : QueuedAt(p, i)

\* A queue holds processes of its own priority, each of them once.
QueuesWellFormed ==
  \A i \in Prio : \A k \in DOMAIN mlq_ready_queue[i] :
    /\ prio[mlq_ready_queue[i][k]] = i
    /\ \A l \in DOMAIN mlq_ready_queue[i] :
         mlq_ready_queue[i][k] = mlq_ready_queue[i][l] => k = l

\* The processes that leave the queue of p before it.
Ahead(p) ==
  LET q == mlq_ready_queue[prio[p]] IN
  {x \in Proc : \E k, l \in DOMAIN q : k < l /\ q[k] = x /\ q[l] = p}

\* How the wait of p gets shorter: one process less is ahead of it, or its
\* priority has its budget again, or, while it has none, another one has used
\* up some of its own and none has got any, or the cursor is closer.
Shorter(p) ==
  LET i == prio[p] IN
    \/ Ahead(p)' # Ahead(p)
    \/ slot[i] = 0 /\ slot'[i] > 0
    \/ slot[i] = 0 /\ \E j \in Prio : slot[j] > 0 /\ slot' = [slot EXCEPT ![j] = @ - 1]
    \/ slot[i] > 0 /\ slot'[i] = slot[i] /\ (Dist(i))' < Dist(i)

\* Every process has a queue and every queue has room for its processes.
\* Nothing in the code checks this: the configuration must satisfy it.
EnoughRoom ==
  /\ IsFiniteSet(Proc)
  /\ \A p \in Proc : prio[p] \in Prio
  /\ \A i \in Prio : Cardinality({p \in Proc : prio[p] = i}) <= MAX_QUEUE_SIZE
=============================================================================
