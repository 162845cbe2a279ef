----------------------------- MODULE ArrayQueue -----------------------------
(***************************************************************************)
(* queue.c: struct queue_t, an array of MAX_QUEUE_SIZE pointers and the    *)
(* number of those in use, as sched.c declares it (static, so zeroed).     *)
(* The callers hold queue_lock, so each operation is one step; a loop that *)
(* shifts the array is the function it computes.                           *)
(***************************************************************************)
EXTENDS Integers, Sequences

CONSTANTS Proc, NULL, MAX_QUEUE_SIZE

ASSUME QueueAssumption ==
  /\ NULL \notin Proc
  /\ MAX_QUEUE_SIZE \in Nat \ {0}

VARIABLES
  proc,   \* q->proc
  size,   \* q->size
  last    \* the last call that returned a pointer: name, argument, result

vars == <<proc, size, last>>

Index == 0 .. MAX_QUEUE_SIZE - 1

Pointer == Proc \cup {NULL}

Answer(call, arg, result) == [call |-> call, arg |-> arg, result |-> result]

Init ==
  /\ proc = [i \in Index |-> NULL]
  /\ size = 0
  /\ last = Answer("none", NULL, NULL)

\* Mutant: the capacity test is off by one.
IgnoredTooLate(p) == p = NULL \/ size > MAX_QUEUE_SIZE

Ignored(p) == p = NULL \/ size >= MAX_QUEUE_SIZE

enqueue(p) ==
  IF Ignored(p) THEN UNCHANGED vars
  ELSE /\ proc' = [proc EXCEPT ![size] = p]
       /\ size' = size + 1
       /\ UNCHANGED last

\* Mutant: the shift runs upwards and copies slot 0 into every slot.
enqueue_frontUpwards(p) ==
  IF Ignored(p) THEN UNCHANGED vars
  ELSE /\ proc' = [i \in Index |-> IF i = 0 THEN p
                                   ELSE IF i <= size THEN proc[0] ELSE proc[i]]
       /\ size' = size + 1
       /\ UNCHANGED last

enqueue_front(p) ==
  IF Ignored(p) THEN UNCHANGED vars
  ELSE /\ proc' = [i \in Index |-> IF i = 0 THEN p
                                   ELSE IF i <= size THEN proc[i - 1] ELSE proc[i]]
       /\ size' = size + 1
       /\ UNCHANGED last

\* Mutant: the slot that falls free keeps its pointer.
CloseGapKeepLast(i) ==
  /\ proc' = [j \in Index |-> IF i <= j /\ j < size - 1 THEN proc[j + 1] ELSE proc[j]]
  /\ size' = size - 1

\* Shift everything behind index i one place down and clear the last slot.
CloseGap(i) ==
  /\ proc' = [j \in Index |-> IF j = size - 1 THEN NULL
                              ELSE IF i <= j /\ j < size THEN proc[j + 1] ELSE proc[j]]
  /\ size' = size - 1

dequeue ==
  \/ size = 0 /\ UNCHANGED <<proc, size>> /\ last' = Answer("dequeue", NULL, NULL)
  \/ size # 0 /\ CloseGap(0) /\ last' = Answer("dequeue", NULL, proc[0])

\* The search stops at the first occurrence of p; a null p, or one that is
\* not in the queue, changes nothing.
FirstAt(p, i) == proc[i] = p /\ \A j \in 0 .. i - 1 : proc[j] # p

purgequeue(p) ==
  \/ /\ p # NULL
     /\ \E i \in 0 .. size - 1 : FirstAt(p, i) /\ CloseGap(i)
     /\ last' = Answer("purgequeue", p, p)
  \/ /\ p = NULL \/ \A i \in 0 .. size - 1 : proc[i] # p
     /\ UNCHANGED <<proc, size>>
     /\ last' = Answer("purgequeue", p, NULL)

Next ==
  \/ \E p \in Pointer : enqueue(p) \/ enqueue_front(p) \/ purgequeue(p)
  \/ dequeue

Spec == Init /\ [][Next]_vars

-----------------------------------------------------------------------------
\* The array holds pointers and size never exceeds it: the shift loop of
\* enqueue_front writes proc[size], which must still be inside the array.
TypeOK ==
  /\ proc \in [Index -> Pointer]
  /\ size \in 0 .. MAX_QUEUE_SIZE
  /\ last \in [call : {"none", "dequeue", "purgequeue"},
               arg : Pointer, result : Pointer]

\* The slots in use hold processes and the others NULL: after a dequeue or a
\* purge no stale pointer to a process, which may be freed, stays behind.
NoStaleSlot ==
  \A i \in Index : proc[i] = NULL <=> i >= size

\* The slots in use, as a sequence.
View == [k \in 1 .. size |-> proc[k - 1]]

\* The array with its shift loops is the bounded sequence: what was enqueued
\* comes out once, in order, and a purge takes out the first occurrence only.
Fifo == INSTANCE BoundedFifo WITH
          Item <- Proc, Capacity <- MAX_QUEUE_SIZE, items <- View

ImplementsFifo == Fifo!Spec
=============================================================================
