-------------------------- MODULE ArrayQueueProofs --------------------------
(***************************************************************************)
(* The array with its shift loops implements the bounded FIFO sequence,    *)
(* for every capacity and every set of processes.                          *)
(***************************************************************************)
EXTENDS ArrayQueue, SequenceTheorems, TLAPS

IInv == TypeOK /\ NoStaleSlot

ViewOK ==
  /\ View \in Seq(Proc)
  /\ Len(View) = size /\ DOMAIN View = 1 .. size
  /\ \A k \in 1 .. size : View[k] = proc[k - 1]

LEMMA ViewIsSequence == IInv => ViewOK
<1> SUFFICES ASSUME IInv PROVE ViewOK
  OBVIOUS
<1>1. size \in Nat /\ \A k \in 1 .. size : k - 1 \in Index /\ k - 1 < size
  BY QueueAssumption DEF IInv, TypeOK, Index
<1>2. \A k \in 1 .. size : proc[k - 1] \in Proc
  <2> SUFFICES ASSUME NEW k \in 1 .. size PROVE proc[k - 1] \in Proc
    OBVIOUS
  <2>1. proc[k - 1] \in Pointer /\ (proc[k - 1] = NULL <=> k - 1 >= size)
    BY <1>1 DEF IInv, TypeOK, NoStaleSlot
  <2>2. ~(k - 1 >= size)
    BY <1>1
  <2> QED BY <2>1, <2>2 DEF Pointer
<1>3. View \in [1 .. size -> Proc]
  BY <1>2 DEF View
<1> QED BY <1>1, <1>3 DEF View, ViewOK

LEMMA EnqueueInv ==
  ASSUME IInv, NEW p \in Pointer, enqueue(p) \/ enqueue_front(p)
  PROVE  IInv'
<1> USE QueueAssumption
<1>1. CASE Ignored(p)
  BY <1>1 DEF enqueue, enqueue_front, vars, IInv, TypeOK, NoStaleSlot
<1>2. CASE ~Ignored(p) /\ enqueue(p)
  BY <1>2 DEF enqueue, Ignored, IInv, TypeOK, NoStaleSlot, Index, Pointer
<1>3. CASE ~Ignored(p) /\ enqueue_front(p)
  BY <1>3 DEF enqueue_front, Ignored, IInv, TypeOK, NoStaleSlot, Index, Pointer
<1> QED BY <1>1, <1>2, <1>3

LEMMA CloseGapInv ==
  ASSUME IInv, NEW i \in 0 .. size - 1, CloseGap(i)
  PROVE  /\ proc' \in [Index -> Pointer] /\ size' \in 0 .. MAX_QUEUE_SIZE
         /\ NoStaleSlot'
  BY QueueAssumption DEF CloseGap, IInv, TypeOK, NoStaleSlot, Index, Pointer

\* IInv is inductive.
LEMMA InvariantHolds == Spec => []IInv
<1> USE QueueAssumption
<1>1. Init => IInv
  BY DEF Init, IInv, TypeOK, NoStaleSlot, Index, Pointer, Answer
<1>2. IInv /\ [Next]_vars => IInv'
  <2> SUFFICES ASSUME IInv, [Next]_vars PROVE IInv'
    OBVIOUS
  <2>1. ASSUME NEW p \in Pointer, enqueue(p) \/ enqueue_front(p) PROVE IInv'
    BY <2>1, EnqueueInv
  <2>2. ASSUME NEW p \in Pointer, purgequeue(p) PROVE IInv'
    <3>1. last' \in [call : {"none", "dequeue", "purgequeue"},
                     arg : Pointer, result : Pointer]
      BY <2>2 DEF purgequeue, Answer, Pointer
    <3>2. CASE \E i \in 0 .. size - 1 : CloseGap(i)
      BY <3>1, <3>2, CloseGapInv DEF IInv, TypeOK
    <3>3. CASE UNCHANGED <<proc, size>>
      BY <3>1, <3>3 DEF IInv, TypeOK, NoStaleSlot
    <3> QED BY <2>2, <3>2, <3>3 DEF purgequeue
  <2>3. CASE dequeue
    <3>1. CASE size = 0
      BY <2>3, <3>1 DEF dequeue, Answer, Pointer, IInv, TypeOK, NoStaleSlot
    <3>2. CASE size # 0
      <4>1. 0 \in 0 .. size - 1 /\ proc[0] \in Pointer
        BY <3>2 DEF IInv, TypeOK, Index
      <4>2. last' \in [call : {"none", "dequeue", "purgequeue"},
                       arg : Pointer, result : Pointer]
        BY <2>3, <3>2, <4>1 DEF dequeue, Answer, Pointer
      <4> QED BY <2>3, <3>2, <4>1, <4>2, CloseGapInv DEF dequeue, IInv, TypeOK
    <3> QED BY <3>1, <3>2
  <2>4. CASE UNCHANGED vars
    BY <2>4 DEF vars, IInv, TypeOK, NoStaleSlot
  <2> QED BY <2>1, <2>2, <2>3, <2>4 DEF Next
<1> QED BY <1>1, <1>2, PTL DEF Spec

\* For every capacity: size stays inside the array, the index the shift loop
\* of enqueue_front writes first included.
THEOREM TypeCorrect == Spec => []TypeOK
<1>1. IInv => TypeOK
  BY DEF IInv
<1> QED BY <1>1, InvariantHolds, PTL

\* For every capacity: dequeue and purgequeue leave no stale pointer in a
\* slot that is not in use.
THEOREM NoStaleSlotHolds == Spec => []NoStaleSlot
<1>1. IInv => NoStaleSlot
  BY DEF IInv
<1> QED BY <1>1, InvariantHolds, PTL

-----------------------------------------------------------------------------
(* Each call of queue.c is a step of the sequence. *)

LEMMA EnqueueStep ==
  ASSUME IInv, ViewOK, ViewOK', NEW p \in Proc, enqueue(p), ~Ignored(p)
  PROVE  Fifo!PushBack(p)
<1> USE QueueAssumption
<1>1. size < MAX_QUEUE_SIZE /\ size \in Nat
  BY DEF Ignored, IInv, TypeOK
<1>2. /\ Append(View, p) \in Seq(Proc)
      /\ Len(Append(View, p)) = size + 1
      /\ \A k \in 1 .. size : Append(View, p)[k] = proc[k - 1]
      /\ Append(View, p)[size + 1] = p
  BY <1>1, AppendProperties DEF ViewOK
<1>3. /\ size' = size + 1 /\ last' = last
      /\ \A k \in 1 .. size : proc'[k - 1] = proc[k - 1]
      /\ proc'[size] = p
  BY <1>1 DEF enqueue, IInv, TypeOK, Index
<1>4. ASSUME NEW k \in 1 .. size + 1
      PROVE  View'[k] = Append(View, p)[k]
  <2>1. View'[k] = proc'[k - 1]
    BY <1>3 DEF ViewOK
  <2>2. CASE k \in 1 .. size
    BY <1>2, <1>3, <2>1, <2>2
  <2>3. CASE k = size + 1
    <3>1. k - 1 = size
      BY <1>1, <2>3
    <3> QED BY <1>2, <1>3, <2>1, <2>3, <3>1
  <2>4. k \in 1 .. size \/ k = size + 1
    BY <1>1
  <2> QED BY <2>2, <2>3, <2>4
<1>5. View' = Append(View, p)
  BY <1>2, <1>3, <1>4, SeqEqual DEF ViewOK
<1> QED BY <1>1, <1>3, <1>5 DEF Fifo!PushBack, Fifo!Full, ViewOK

LEMMA EnqueueFrontStep ==
  ASSUME IInv, ViewOK, ViewOK', NEW p \in Proc, enqueue_front(p), ~Ignored(p)
  PROVE  Fifo!PushFront(p)
<1> USE QueueAssumption
<1>1. size < MAX_QUEUE_SIZE /\ size \in Nat
  BY DEF Ignored, IInv, TypeOK
<1>2. <<p>> \in Seq(Proc) /\ Len(<<p>>) = 1 /\ <<p>>[1] = p
  OBVIOUS
<1>3. /\ <<p>> \o View \in Seq(Proc)
      /\ Len(<<p>> \o View) = size + 1
      /\ (<<p>> \o View)[1] = p
      /\ \A k \in 2 .. size + 1 : (<<p>> \o View)[k] = View[k - 1]
  BY <1>1, <1>2, ConcatProperties DEF ViewOK
<1>4. /\ size' = size + 1 /\ last' = last
      /\ proc'[0] = p
      /\ \A k \in 2 .. size + 1 : proc'[k - 1] = proc[k - 2]
  BY <1>1 DEF enqueue_front, IInv, TypeOK, Index
<1>5. \A k \in 1 .. size + 1 : View'[k] = (<<p>> \o View)[k]
  <2> SUFFICES ASSUME NEW k \in 1 .. size + 1
               PROVE  View'[k] = (<<p>> \o View)[k]
    OBVIOUS
  <2>1. View'[k] = proc'[k - 1]
    BY <1>1, <1>4 DEF ViewOK
  <2>2. CASE k = 1
    BY <1>3, <1>4, <2>1, <2>2
  <2>3. CASE k # 1
    <3>1. k \in 2 .. size + 1 /\ k - 1 \in 1 .. size
      BY <1>1, <2>3
    <3>2. View[k - 1] = proc[k - 2]
      BY <1>1, <3>1 DEF ViewOK
    <3> QED BY <1>3, <1>4, <2>1, <3>1, <3>2
  <2> QED BY <2>2, <2>3
<1>6. View' = <<p>> \o View
  BY <1>1, <1>3, <1>4, <1>5, SeqEqual DEF ViewOK
<1> QED BY <1>1, <1>4, <1>6 DEF Fifo!PushFront, Fifo!Full, ViewOK

\* Closing the gap at index i removes position i + 1 of the sequence.
LEMMA CloseGapStep ==
  ASSUME IInv, ViewOK, ViewOK', NEW i \in 0 .. size - 1, CloseGap(i)
  PROVE  /\ size # 0 /\ Len(View) = size /\ View[i + 1] = proc[i]
         /\ View' = [j \in 1 .. Len(View) - 1 |->
                       IF j < i + 1 THEN View[j] ELSE View[j + 1]]
<1> USE QueueAssumption
<1>1. size \in Nat /\ size <= MAX_QUEUE_SIZE /\ size # 0 /\ i \in Nat
  BY DEF IInv, TypeOK
<1>2. size' = size - 1
  BY DEF CloseGap
<1>3. View' = [j \in 1 .. size - 1 |-> proc'[j - 1]]
  BY <1>2 DEF View
<1>4. ASSUME NEW j \in 1 .. size - 1
      PROVE  proc'[j - 1] = IF j < i + 1 THEN View[j] ELSE View[j + 1]
  <2>1. j - 1 \in Index /\ j - 1 < size - 1 /\ j \in 1 .. size /\ j + 1 \in 1 .. size
    BY <1>1 DEF Index
  <2>2. proc'[j - 1] = IF i <= j - 1 THEN proc[j] ELSE proc[j - 1]
    BY <1>1, <2>1 DEF CloseGap
  <2>3. View[j] = proc[j - 1] /\ View[j + 1] = proc[j]
    BY <2>1 DEF ViewOK
  <2> QED BY <1>1, <2>2, <2>3
<1>5. View[i + 1] = proc[i]
  BY <1>1 DEF ViewOK
<1> QED BY <1>1, <1>3, <1>4, <1>5 DEF ViewOK

LEMMA CallStep ==
  ASSUME IInv, ViewOK, ViewOK', [Next]_vars
  PROVE  [Fifo!Next]_(Fifo!vars)
<1> USE QueueAssumption
<1>0. size \in Nat /\ size <= MAX_QUEUE_SIZE
  BY DEF IInv, TypeOK
<1>1. ASSUME NEW p \in Pointer, enqueue(p) \/ enqueue_front(p)
      PROVE  [Fifo!Next]_(Fifo!vars)
  <2>1. CASE Ignored(p)
    BY <1>1, <2>1 DEF enqueue, enqueue_front, vars, View, Fifo!vars
  <2>2. CASE ~Ignored(p)
    <3>1. p \in Proc
      BY <2>2 DEF Ignored, Pointer
    <3>2. Fifo!PushBack(p) \/ Fifo!PushFront(p)
      BY <1>1, <2>2, <3>1, EnqueueStep, EnqueueFrontStep
    <3> QED BY <3>1, <3>2 DEF Fifo!Next
  <2> QED BY <2>1, <2>2
<1>2. ASSUME NEW p \in Pointer, purgequeue(p) PROVE Fifo!Next
  <2>1. CASE p # NULL /\ (\E i \in 0 .. size - 1 : FirstAt(p, i) /\ CloseGap(i))
             /\ last' = Answer("purgequeue", p, p)
    <3>1. PICK i \in 0 .. size - 1 : FirstAt(p, i) /\ CloseGap(i)
      BY <2>1
    <3>2. /\ View[i + 1] = p
          /\ View' = [j \in 1 .. Len(View) - 1 |->
                        IF j < i + 1 THEN View[j] ELSE View[j + 1]]
      BY <3>1, CloseGapStep DEF FirstAt
    <3>3. ASSUME NEW j \in 1 .. (i + 1) - 1 PROVE View[j] # p
      <4>1. j \in 1 .. size /\ j - 1 \in 0 .. i - 1
        BY <1>0
      <4> QED BY <3>1, <4>1 DEF ViewOK, FirstAt
    <3>4. i + 1 \in DOMAIN View /\ p \in Proc
      BY <1>0, <2>1 DEF ViewOK, Pointer
    <3>5. Fifo!Remove(p, i + 1)
      BY <2>1, <3>2, <3>3 DEF Fifo!Remove, Fifo!Answer, Answer
    <3> QED BY <3>4, <3>5 DEF Fifo!Next
  <2>2. CASE (p = NULL \/ \A i \in 0 .. size - 1 : proc[i] # p)
             /\ UNCHANGED <<proc, size>>
             /\ last' = Answer("purgequeue", p, NULL)
    <3>1. ASSUME NEW k \in 1 .. size PROVE View[k] # p
      <4>1. View[k] \in Proc /\ View[k] = proc[k - 1] /\ k - 1 \in 0 .. size - 1
        BY <1>0 DEF ViewOK
      <4> QED BY <2>2, <4>1
    <3>2. View' = View
      BY <2>2 DEF View
    <3>3. Fifo!RemoveNothing(p)
      BY <2>2, <3>1, <3>2 DEF Fifo!RemoveNothing, Fifo!Answer, Answer, ViewOK
    <3> QED BY <3>3 DEF Fifo!Next, Pointer
  <2> QED BY <1>2, <2>1, <2>2 DEF purgequeue
<1>3. CASE dequeue
  <2>1. CASE size = 0
    <3>1. View = <<>> /\ View' = View /\ last' = Answer("dequeue", NULL, NULL)
      BY <1>3, <2>1 DEF dequeue, View, ViewOK
    <3> QED BY <3>1 DEF Fifo!Next, Fifo!PopNothing, Fifo!Answer, Answer
  <2>2. CASE size # 0
    <3>1. 0 \in 0 .. size - 1 /\ CloseGap(0) /\ last' = Answer("dequeue", NULL, proc[0])
      BY <1>0, <1>3, <2>2 DEF dequeue
    <3>2. /\ View # <<>> /\ View[1] = proc[0]
          /\ View' = [j \in 1 .. Len(View) - 1 |->
                        IF j < 0 + 1 THEN View[j] ELSE View[j + 1]]
      BY <2>2, <3>1, CloseGapStep DEF ViewOK
    <3>3. View \in Seq(Proc)
      BY DEF ViewOK
    <3>4. View' = Tail(View) /\ Head(View) = proc[0]
      <4>1. /\ Tail(View) \in Seq(Proc)
            /\ Len(Tail(View)) = size - 1
            /\ \A k \in 1 .. size - 1 : Tail(View)[k] = View[k + 1]
        BY <1>0, <3>2, <3>3, HeadTailProperties DEF ViewOK
      <4>2. /\ View' \in Seq(Proc)
            /\ Len(View') = size - 1
            /\ \A k \in 1 .. size - 1 : View'[k] = View[k + 1]
        BY <1>0, <3>1, <3>2 DEF ViewOK, CloseGap
      <4>3. View' = Tail(View)
        BY <4>1, <4>2, SeqEqual
      <4>4. Head(View) = View[1]
        BY <3>2, <3>3
      <4> QED BY <3>2, <4>3, <4>4
    <3> QED BY <3>1, <3>2, <3>4 DEF Fifo!Next, Fifo!Pop, Fifo!Answer, Answer
  <2> QED BY <2>1, <2>2
<1>4. CASE UNCHANGED vars
  BY <1>4 DEF vars, View, Fifo!vars
<1> QED BY <1>1, <1>2, <1>3, <1>4 DEF Next

\* For every capacity: queue.c's array with its shift loops implements the
\* bounded FIFO sequence.
THEOREM FifoImplemented == Spec => ImplementsFifo
<1>1. Init => Fifo!Init
  BY DEF Init, Fifo!Init, View, Answer, Fifo!Answer
<1>2. IInv /\ IInv' /\ [Next]_vars => [Fifo!Next]_(Fifo!vars)
  <2>1. IInv' => ViewOK'
    BY ViewIsSequence, PTL
  <2> QED BY <2>1, ViewIsSequence, CallStep
<1> QED BY <1>1, <1>2, InvariantHolds, PTL DEF Spec, ImplementsFifo, Fifo!Spec
=============================================================================
