----------------------------- MODULE MLQLemmas -----------------------------
(***************************************************************************)
(* Lemmas about the operations of the ready queue of sched.c, for any      *)
(* number of processes and priorities and any queue capacity, whoever      *)
(* calls them: for MLQProofs and OSProofs.                                 *)
(***************************************************************************)
EXTENDS MLQ, FiniteSetTheorems, TLAPS

\* The cursor steps of get_mlq_proc: one to the right, back to 0 at the end.
LEMMA CursorStep ==
  ASSUME NEW i \in Prio
  PROVE  /\ (i + 1) % MAX_PRIO \in Prio
         /\ i + 1 < MAX_PRIO => (i + 1) % MAX_PRIO = i + 1
         /\ i + 1 = MAX_PRIO => (i + 1) % MAX_PRIO = 0
  BY MLQAssumption DEF Prio

\* A dispatch charges a budget that is not empty, so it stays in its range.
LEMMA DispatchType ==
  ASSUME MLQTypeOK, NEW p, NEW i \in NonEmpty,
         NEW budget \in [Prio -> Int],
         \A j \in Prio : budget[j] \in 0 .. MAX_PRIO - j,
         budget[i] > 0,
         Dispatch(p, i, budget)
  PROVE  MLQTypeOK' /\ p \in Proc
<1> USE MLQAssumption
<1> DEFINE q == mlq_ready_queue[i]
<1>1. i \in Prio /\ q \in Seq(Proc) /\ q # <<>>
  BY DEF NonEmpty, MLQTypeOK
<1>2. Head(q) \in Proc /\ Tail(q) \in Seq(Proc) /\ Len(Tail(q)) <= MAX_QUEUE_SIZE
  BY <1>1 DEF MLQTypeOK
<1>3. mlq_ready_queue' \in [Prio -> Seq(Proc)]
  BY <1>1, <1>2 DEF Dispatch, MLQTypeOK
<1>4. \A j \in Prio : Len(mlq_ready_queue'[j]) <= MAX_QUEUE_SIZE
  BY <1>1, <1>2 DEF Dispatch, MLQTypeOK
<1>5. /\ slot' \in [Prio -> Int]
      /\ \A j \in Prio : slot'[j] \in 0 .. MAX_PRIO - j
  <2>1. slot' = [budget EXCEPT ![i] = budget[i] - 1]
    BY DEF Dispatch
  <2>2. /\ i \in Int /\ budget[i] - 1 \in Int
        /\ budget[i] - 1 \in 0 .. MAX_PRIO - i
    BY <1>1 DEF Prio
  <2>3. slot' \in [Prio -> Int]
    BY <2>1, <2>2
  <2>4. ASSUME NEW j \in Prio PROVE slot'[j] \in 0 .. MAX_PRIO - j
    BY <1>1, <2>1, <2>2
  <2> QED BY <2>3, <2>4
<1>6. curr_prio' \in Prio
  BY <1>1, CursorStep DEF Dispatch
<1> QED BY <1>1, <1>2, <1>3, <1>4, <1>5, <1>6 DEF MLQTypeOK, Dispatch

LEMMA FullBudgetType ==
  /\ FullBudget \in [Prio -> Int]
  /\ \A i \in Prio : FullBudget[i] \in 0 .. MAX_PRIO - i /\ FullBudget[i] > 0
  BY MLQAssumption DEF FullBudget, Prio

LEMMA InsertType ==
  ASSUME MLQTypeOK, NEW p \in Proc, insert(p)
  PROVE  MLQTypeOK'
<1> USE MLQAssumption
<1>1. CASE prio[p] \in Prio
  <2> DEFINE q == mlq_ready_queue[prio[p]]
  <2>1. q \in Seq(Proc) /\ Len(q) <= MAX_QUEUE_SIZE
    BY <1>1 DEF MLQTypeOK
  <2>2. enqueue(q, p) \in Seq(Proc) /\ Len(enqueue(q, p)) <= MAX_QUEUE_SIZE
    BY <2>1 DEF enqueue
  <2> QED BY <1>1, <2>2 DEF insert, MLQTypeOK
<1>2. CASE prio[p] \notin Prio
  BY <1>2 DEF insert, MLQTypeOK
<1> QED BY <1>1, <1>2

LEMMA GetType ==
  ASSUME MLQTypeOK, NEW r, get_mlq_proc(r)
  PROVE  MLQTypeOK' /\ r \in Proc \cup {NULL}
<1>1. CASE r \in Proc /\ GetWithinBudget(r)
  <2>1. PICK i \in Prio : ScanStopsAt(i, Eligible) /\ Dispatch(r, i, slot)
    BY <1>1 DEF GetWithinBudget
  <2>2. i \in NonEmpty /\ slot[i] > 0
    BY <2>1 DEF ScanStopsAt, Eligible
  <2> QED BY <2>1, <2>2, DispatchType DEF MLQTypeOK
<1>2. CASE r \in Proc /\ GetAfterRefill(r)
  <2>1. PICK i \in Prio : ScanStopsAt(i, NonEmpty) /\ Dispatch(r, i, FullBudget)
    BY <1>2 DEF GetAfterRefill
  <2>2. i \in NonEmpty
    BY <2>1 DEF ScanStopsAt
  <2> QED BY <2>1, <2>2, DispatchType, FullBudgetType
<1>3. CASE r = NULL /\ GetNothing
  BY <1>3, FullBudgetType DEF GetNothing, MLQTypeOK
<1> QED BY <1>1, <1>2, <1>3 DEF get_mlq_proc

-----------------------------------------------------------------------------
(* What is queued. *)

\* add_proc and put_proc of a process that no queue holds keep the queues
\* well formed and make nothing else appear or disappear.
LEMMA InsertOwner ==
  ASSUME MLQTypeOK, QueuesWellFormed, NEW p \in Proc, ~Queued(p), insert(p)
  PROVE  /\ QueuesWellFormed'
         /\ \A x \in Proc : (Queued(x))' => Queued(x) \/ x = p
         /\ \A x \in Proc : Queued(x) => (Queued(x))'
<1> USE MLQAssumption
<1>1. CASE mlq_ready_queue' = mlq_ready_queue
  BY <1>1 DEF QueuesWellFormed, Queued, QueuedAt
<1>2. CASE mlq_ready_queue' # mlq_ready_queue
  <2> DEFINE i == prio[p]
             q == mlq_ready_queue[i]
  <2>1. i \in Prio /\ q \in Seq(Proc)
    BY <1>2 DEF insert, MLQTypeOK
  <2>2. mlq_ready_queue' = [mlq_ready_queue EXCEPT ![i] = Append(q, p)]
    <3>1. mlq_ready_queue' = [mlq_ready_queue EXCEPT ![i] = enqueue(q, p)]
      BY <2>1 DEF insert
    <3>2. CASE Len(q) >= MAX_QUEUE_SIZE
      BY <1>2, <3>1, <3>2, <2>1 DEF enqueue, MLQTypeOK
    <3>3. CASE ~(Len(q) >= MAX_QUEUE_SIZE)
      BY <3>1, <3>3 DEF enqueue
    <3> QED BY <3>2, <3>3
  <2>3. /\ mlq_ready_queue'[i] = Append(q, p)
        /\ \A j \in Prio : j # i => mlq_ready_queue'[j] = mlq_ready_queue[j]
    BY <2>1, <2>2 DEF MLQTypeOK
  <2>4. /\ DOMAIN Append(q, p) = 1 .. Len(q) + 1
        /\ Append(q, p)[Len(q) + 1] = p
        /\ \A k \in 1 .. Len(q) : Append(q, p)[k] = q[k]
        /\ DOMAIN q = 1 .. Len(q) /\ Len(q) \in Nat
    BY <2>1
  <2>5. \A k \in DOMAIN q : q[k] # p /\ prio[q[k]] = i
    BY <2>1 DEF Queued, QueuedAt, QueuesWellFormed
  <2>6. \A k, l \in DOMAIN q : q[k] = q[l] => k = l
    BY <2>1 DEF QueuesWellFormed
  <2>7. QueuesWellFormed'
    <3> SUFFICES ASSUME NEW j \in Prio, NEW k \in DOMAIN mlq_ready_queue'[j]
                 PROVE  /\ prio[mlq_ready_queue'[j][k]] = j
                        /\ \A l \in DOMAIN mlq_ready_queue'[j] :
                             mlq_ready_queue'[j][k] = mlq_ready_queue'[j][l] => k = l
      BY DEF QueuesWellFormed
    <3>1. CASE j # i
      BY <3>1, <2>3 DEF QueuesWellFormed
    <3>2. CASE j = i
      BY <3>2, <2>3, <2>4, <2>5, <2>6
    <3> QED BY <3>1, <3>2
  <2>8. ASSUME NEW x \in Proc, (Queued(x))' PROVE Queued(x) \/ x = p
    <3>1. PICK j \in Prio : \E k \in DOMAIN mlq_ready_queue'[j] :
                              mlq_ready_queue'[j][k] = x
      BY <2>8 DEF Queued, QueuedAt
    <3>2. CASE j # i
      BY <3>1, <3>2, <2>3 DEF Queued, QueuedAt
    <3>3. CASE j = i
      BY <3>1, <3>3, <2>1, <2>3, <2>4 DEF Queued, QueuedAt
    <3> QED BY <3>2, <3>3
  <2>9. ASSUME NEW x \in Proc, Queued(x) PROVE (Queued(x))'
    <3>1. PICK j \in Prio : \E k \in DOMAIN mlq_ready_queue[j] :
                              mlq_ready_queue[j][k] = x
      BY <2>9 DEF Queued, QueuedAt
    <3>2. CASE j # i
      BY <3>1, <3>2, <2>3 DEF Queued, QueuedAt
    <3>3. CASE j = i
      BY <3>1, <3>3, <2>1, <2>3, <2>4 DEF Queued, QueuedAt
    <3> QED BY <3>2, <3>3
  <2> QED BY <2>7, <2>8, <2>9
<1> QED BY <1>1, <1>2

\* get_proc takes the process it returns out of the queues, and nothing else.
LEMMA DispatchOwner ==
  ASSUME MLQTypeOK, QueuesWellFormed, NEW p \in Proc, NEW i \in NonEmpty,
         NEW budget, Dispatch(p, i, budget)
  PROVE  /\ QueuesWellFormed'
         /\ Queued(p) /\ prio[p] = i
         /\ \A x \in Proc : (Queued(x))' <=> Queued(x) /\ x # p
<1> DEFINE q == mlq_ready_queue[i]
<1>1. i \in Prio /\ q \in Seq(Proc) /\ q # <<>>
  BY DEF NonEmpty, MLQTypeOK
<1>2. /\ mlq_ready_queue'[i] = Tail(q)
      /\ \A j \in Prio : j # i => mlq_ready_queue'[j] = mlq_ready_queue[j]
  BY <1>1 DEF Dispatch, MLQTypeOK
<1>3. /\ DOMAIN q = 1 .. Len(q) /\ Len(q) \in Nat /\ Len(q) > 0
      /\ q[1] = p
      /\ DOMAIN Tail(q) = 1 .. Len(q) - 1
      /\ \A k \in 1 .. Len(q) - 1 : Tail(q)[k] = q[k + 1]
  BY <1>1 DEF Dispatch
<1>4. \A k \in DOMAIN q : prio[q[k]] = i
  BY <1>1 DEF QueuesWellFormed
<1>5. \A k, l \in DOMAIN q : q[k] = q[l] => k = l
  BY <1>1 DEF QueuesWellFormed
<1>6. Queued(p) /\ prio[p] = i
  BY <1>1, <1>3, <1>4 DEF Queued, QueuedAt
<1>7. QueuesWellFormed'
  <2> SUFFICES ASSUME NEW j \in Prio, NEW k \in DOMAIN mlq_ready_queue'[j]
               PROVE  /\ prio[mlq_ready_queue'[j][k]] = j
                      /\ \A l \in DOMAIN mlq_ready_queue'[j] :
                           mlq_ready_queue'[j][k] = mlq_ready_queue'[j][l] => k = l
    BY DEF QueuesWellFormed
  <2>1. CASE j # i
    BY <2>1, <1>2 DEF QueuesWellFormed
  <2>2. CASE j = i
    <3>1. k \in 1 .. Len(q) - 1 /\ mlq_ready_queue'[j][k] = q[k + 1]
      BY <2>2, <1>2, <1>3
    <3>2. prio[q[k + 1]] = i
      BY <3>1, <1>3, <1>4
    <3>3. ASSUME NEW l \in DOMAIN mlq_ready_queue'[j],
                 mlq_ready_queue'[j][k] = mlq_ready_queue'[j][l]
          PROVE  k = l
      <4>1. l \in 1 .. Len(q) - 1 /\ mlq_ready_queue'[j][l] = q[l + 1]
        BY <2>2, <1>2, <1>3
      <4>2. q[k + 1] = q[l + 1]
        BY <3>1, <3>3, <4>1
      <4>3. k + 1 \in DOMAIN q /\ l + 1 \in DOMAIN q
        BY <3>1, <4>1, <1>3
      <4>4. k + 1 = l + 1
        BY <4>2, <4>3, <1>5
      <4> QED BY <3>1, <4>1, <4>4
    <3> QED BY <2>2, <3>1, <3>2, <3>3
  <2> QED BY <2>1, <2>2
<1>8. ASSUME NEW x \in Proc, (Queued(x))' PROVE Queued(x) /\ x # p
  <2>1. PICK j \in Prio : \E k \in DOMAIN mlq_ready_queue'[j] :
                            mlq_ready_queue'[j][k] = x
    BY <1>8 DEF Queued, QueuedAt
  <2>2. CASE j # i
    <3>1. Queued(x) BY <2>1, <2>2, <1>2 DEF Queued, QueuedAt
    <3>2. prio[x] = j BY <2>1, <2>2, <1>2 DEF QueuesWellFormed
    <3> QED BY <3>1, <3>2, <2>2, <1>6
  <2>3. CASE j = i
    <3>1. PICK k \in 1 .. Len(q) - 1 : q[k + 1] = x
      BY <2>1, <2>3, <1>2, <1>3
    <3>2. Queued(x) BY <3>1, <1>1, <1>3 DEF Queued, QueuedAt
    <3>3. x # p BY <3>1, <1>3, <1>5
    <3> QED BY <3>2, <3>3
  <2> QED BY <2>2, <2>3
<1>9. ASSUME NEW x \in Proc, Queued(x), x # p PROVE (Queued(x))'
  <2>1. PICK j \in Prio : \E k \in DOMAIN mlq_ready_queue[j] :
                            mlq_ready_queue[j][k] = x
    BY <1>9 DEF Queued, QueuedAt
  <2>2. CASE j # i
    BY <2>1, <2>2, <1>2 DEF Queued, QueuedAt
  <2>3. CASE j = i
    <3>1. PICK k \in 1 .. Len(q) : q[k] = x
      BY <2>1, <2>3, <1>3
    <3>2. k # 1 BY <3>1, <1>3, <1>9
    <3>3. k - 1 \in 1 .. Len(q) - 1 /\ Tail(q)[k - 1] = x
      BY <3>1, <3>2, <1>3
    <3> QED BY <3>3, <1>1, <1>2, <1>3 DEF Queued, QueuedAt
  <2> QED BY <2>2, <2>3
<1> QED BY <1>6, <1>7, <1>8, <1>9

\* What get_proc returns was queued, and now is not.
LEMMA GetOwner ==
  ASSUME MLQTypeOK, QueuesWellFormed, NEW r, get_mlq_proc(r)
  PROVE  /\ QueuesWellFormed'
         /\ r = NULL => /\ \A x \in Proc : ~Queued(x)
                        /\ \A x \in Proc : ~(Queued(x))'
         /\ r # NULL => /\ r \in Proc /\ Queued(r)
                        /\ \A x \in Proc : (Queued(x))' <=> Queued(x) /\ x # r
<1> USE MLQAssumption
<1>1. CASE r \in Proc /\ GetWithinBudget(r)
  <2>1. PICK i \in Prio : ScanStopsAt(i, Eligible) /\ Dispatch(r, i, slot)
    BY <1>1 DEF GetWithinBudget
  <2>2. i \in NonEmpty
    BY <2>1 DEF ScanStopsAt, Eligible
  <2> QED BY <1>1, <2>1, <2>2, DispatchOwner
<1>2. CASE r \in Proc /\ GetAfterRefill(r)
  <2>1. PICK i \in Prio : ScanStopsAt(i, NonEmpty) /\ Dispatch(r, i, FullBudget)
    BY <1>2 DEF GetAfterRefill
  <2>2. i \in NonEmpty
    BY <2>1 DEF ScanStopsAt
  <2> QED BY <1>2, <2>1, <2>2, DispatchOwner
<1>3. CASE r = NULL /\ GetNothing
  <2>1. QueuesWellFormed'
    BY <1>3 DEF GetNothing, QueuesWellFormed
  <2>2. \A i \in Prio : mlq_ready_queue[i] = <<>>
    BY <1>3 DEF GetNothing, NonEmpty
  <2>3. \A x \in Proc : ~Queued(x)
    BY <2>2 DEF Queued, QueuedAt
  <2>4. \A x \in Proc : ~(Queued(x))'
    BY <1>3, <2>2 DEF Queued, QueuedAt, GetNothing
  <2> QED BY <1>3, <2>1, <2>3, <2>4
<1> QED BY <1>1, <1>2, <1>3 DEF get_mlq_proc

-----------------------------------------------------------------------------
(* Turns and room. *)

\* Of the priorities a scan may stop at, the ones it does not serve come
\* closer to the cursor, also when the cursor wraps around.
LEMMA DispatchTurn ==
  ASSUME MLQTypeOK, NEW S \in SUBSET Prio, NEW i \in Prio, NEW j \in S, j # i,
         ScanStopsAt(i, S), curr_prio' = (i + 1) % MAX_PRIO
  PROVE  (Dist(j))' < Dist(j)
<1>1. Dist(i) <= Dist(j)
  BY DEF ScanStopsAt
<1>2. /\ curr_prio \in Int /\ 0 <= curr_prio /\ curr_prio < MAX_PRIO
      /\ i \in Int /\ 0 <= i /\ i < MAX_PRIO
      /\ j \in Int /\ 0 <= j /\ j < MAX_PRIO
      /\ MAX_PRIO \in Int
  BY MLQAssumption DEF MLQTypeOK, Prio
<1>3. CASE i + 1 < MAX_PRIO
  <2>1. curr_prio' = i + 1
    BY <1>3, CursorStep
  <2> QED BY <1>1, <1>2, <1>3, <2>1 DEF Dist
<1>4. CASE i + 1 = MAX_PRIO
  <2>1. curr_prio' = 0
    BY <1>4, CursorStep
  <2> QED BY <1>1, <1>2, <1>4, <2>1 DEF Dist
<1> QED BY <1>2, <1>3, <1>4

\* A queue of distinct processes of one priority, one of them missing, is not
\* full when it has room for all of them.
LEMMA RoomForOneMore ==
  ASSUME EnoughRoom, MLQTypeOK, QueuesWellFormed, NEW p \in Proc, ~Queued(p)
  PROVE  Len(mlq_ready_queue[prio[p]]) < MAX_QUEUE_SIZE
<1> DEFINE i == prio[p]
           q == mlq_ready_queue[i]
           Peers == {x \in Proc : prio[x] = i}
           n == Len(q)
<1>1. i \in Prio /\ q \in Seq(Proc) /\ n \in Nat /\ DOMAIN q = 1 .. n
  <2>1. i \in Prio
    BY DEF EnoughRoom
  <2>2. q \in Seq(Proc)
    BY <2>1 DEF MLQTypeOK
  <2> QED BY <2>1, <2>2
<1>2. q \in [1 .. n -> Peers \ {p}]
  <2>1. q \in [1 .. n -> Proc]
    BY <1>1
  <2>2. \A k \in 1 .. n : prio[q[k]] = i /\ q[k] # p
    BY <1>1 DEF QueuesWellFormed, Queued, QueuedAt
  <2> QED BY <2>1, <2>2
<1>3. /\ IsFiniteSet(Peers)
      /\ Cardinality(Peers) \in Nat /\ Cardinality(Peers) <= MAX_QUEUE_SIZE
  BY <1>1, FS_Subset, FS_CardinalityType DEF EnoughRoom
<1>4. /\ IsFiniteSet(Peers \ {p})
      /\ Cardinality(Peers \ {p}) = Cardinality(Peers) - 1
  BY <1>3, FS_RemoveElement
<1>5. IsFiniteSet(1 .. n) /\ Cardinality(1 .. n) = n
  BY <1>1, FS_Interval
<1>6. CASE n >= MAX_QUEUE_SIZE
  <2>1. Cardinality(Peers \ {p}) < Cardinality(1 .. n)
    BY <1>1, <1>3, <1>4, <1>5, <1>6, MLQAssumption
  <2>2. \E k, l \in 1 .. n : k # l /\ q[k] = q[l]
    BY <1>2, <1>4, <1>5, <2>1, FS_PigeonHole
  <2> QED BY <1>1, <2>2 DEF QueuesWellFormed
<1>7. CASE n < MAX_QUEUE_SIZE
  BY <1>7
<1> QED BY <1>1, <1>6, <1>7, MLQAssumption

\* With enough room add_proc and put_proc really queue the process.
LEMMA InsertKeeps ==
  ASSUME EnoughRoom, MLQTypeOK, QueuesWellFormed, NEW p \in Proc, ~Queued(p),
         insert(p)
  PROVE  /\ QueuesWellFormed'
         /\ \A x \in Proc : (Queued(x))' <=> Queued(x) \/ x = p
<1> DEFINE i == prio[p]
           q == mlq_ready_queue[i]
<1>1. i \in Prio /\ q \in Seq(Proc)
  BY DEF EnoughRoom, MLQTypeOK
<1>2. mlq_ready_queue'[i] = Append(q, p)
  <2>1. mlq_ready_queue'[i] = enqueue(q, p)
    BY <1>1 DEF insert, MLQTypeOK
  <2>2. ~(Len(q) >= MAX_QUEUE_SIZE)
    BY <1>1, RoomForOneMore, MLQAssumption
  <2> QED BY <2>1, <2>2 DEF enqueue
<1>3. Len(q) + 1 \in DOMAIN Append(q, p) /\ Append(q, p)[Len(q) + 1] = p
  BY <1>1
<1>4. (Queued(p))'
  BY <1>1, <1>2, <1>3 DEF Queued, QueuedAt
<1> QED BY <1>4, InsertOwner
-----------------------------------------------------------------------------
(* Waiting. *)

\* A process at an end of its queue, or in an unchanged one.
LEMMA SameAhead ==
  ASSUME NEW x \in Proc, mlq_ready_queue'[prio[x]] = mlq_ready_queue[prio[x]]
  PROVE  Ahead(x)' = Ahead(x)
  BY DEF Ahead

\* Where a queued process is.
LEMMA QueuedInOwn ==
  ASSUME QueuesWellFormed, NEW x \in Proc, Queued(x)
  PROVE  /\ prio[x] \in NonEmpty
         /\ \E l \in DOMAIN mlq_ready_queue[prio[x]] : mlq_ready_queue[prio[x]][l] = x
<1>1. PICK i \in Prio : \E l \in DOMAIN mlq_ready_queue[i] : mlq_ready_queue[i][l] = x
  BY DEF Queued, QueuedAt
<1>2. prio[x] = i
  BY <1>1 DEF QueuesWellFormed
<1> QED BY <1>1, <1>2 DEF NonEmpty

\* Nobody is inserted ahead of a process that waits already.
LEMMA InsertWait ==
  ASSUME MLQTypeOK, QueuesWellFormed, NEW p \in Proc, ~Queued(p), insert(p),
         NEW x \in Proc, Queued(x)
  PROVE  (Queued(x))' /\ Ahead(x)' \subseteq Ahead(x) /\ UNCHANGED <<slot, curr_prio>>
<1> DEFINE i == prio[x]
           q == mlq_ready_queue[i]
<1>1. (Queued(x))' /\ UNCHANGED <<slot, curr_prio>>
  BY InsertOwner DEF insert
<1>2. i \in Prio /\ q \in Seq(Proc) /\ mlq_ready_queue' \in [Prio -> Seq(Proc)]
  BY QueuedInOwn, InsertType DEF NonEmpty, MLQTypeOK
<1>3. mlq_ready_queue'[i] = q \/ mlq_ready_queue'[i] = Append(q, p)
  BY <1>2 DEF insert, enqueue, MLQTypeOK
<1>4. CASE mlq_ready_queue'[i] = q
  BY <1>1, <1>4, SameAhead
<1>5. CASE mlq_ready_queue'[i] = Append(q, p)
  <2>1. /\ DOMAIN q = 1 .. Len(q) /\ Len(q) \in Nat
        /\ DOMAIN Append(q, p) = 1 .. Len(q) + 1
        /\ \A k \in 1 .. Len(q) : Append(q, p)[k] = q[k]
        /\ Append(q, p)[Len(q) + 1] = p
    BY <1>2
  <2>2. x # p
    OBVIOUS
  <2>3. ASSUME NEW y \in Proc, NEW k \in 1 .. Len(q) + 1, NEW l \in 1 .. Len(q) + 1,
               k < l, Append(q, p)[k] = y, Append(q, p)[l] = x
        PROVE  y \in Ahead(x)
    <3>1. l # Len(q) + 1
      BY <2>1, <2>2, <2>3
    <3>2. k \in DOMAIN q /\ l \in DOMAIN q /\ q[k] = y /\ q[l] = x
      BY <2>1, <2>3, <3>1
    <3> QED BY <2>3, <3>2 DEF Ahead
  <2>4. Ahead(x)' \subseteq Ahead(x)
    BY <1>5, <2>1, <2>3 DEF Ahead
  <2> QED BY <1>1, <2>4
<1> QED BY <1>3, <1>4, <1>5

\* What is taken from a queue was ahead of all that stay in it.
LEMMA DispatchWait ==
  ASSUME MLQTypeOK, QueuesWellFormed, NEW p \in Proc, NEW i \in NonEmpty,
         NEW budget, Dispatch(p, i, budget), NEW x \in Proc, Queued(x), x # p
  PROVE  /\ Ahead(x)' \subseteq Ahead(x)
         /\ prio[x] = i => Ahead(x)' # Ahead(x)
<1> DEFINE q == mlq_ready_queue[i]
<1>1. i \in Prio /\ q \in Seq(Proc) /\ q # <<>>
  BY DEF NonEmpty, MLQTypeOK
<1>2. /\ mlq_ready_queue'[i] = Tail(q)
      /\ \A j \in Prio : j # i => mlq_ready_queue'[j] = mlq_ready_queue[j]
  BY <1>1 DEF Dispatch, MLQTypeOK
<1>3. /\ DOMAIN q = 1 .. Len(q) /\ Len(q) \in Nat /\ Len(q) > 0
      /\ q[1] = p
      /\ DOMAIN Tail(q) = 1 .. Len(q) - 1
      /\ \A k \in 1 .. Len(q) - 1 : Tail(q)[k] = q[k + 1]
  BY <1>1 DEF Dispatch
<1>4. prio[x] \in Prio
  BY QueuedInOwn DEF NonEmpty
<1>5. CASE prio[x] # i
  BY <1>2, <1>4, <1>5, SameAhead
<1>6. CASE prio[x] = i
  <2>1. Ahead(x)' \subseteq Ahead(x)
    <3>1. ASSUME NEW y \in Proc, NEW k \in 1 .. Len(q) - 1, NEW l \in 1 .. Len(q) - 1,
                 k < l, Tail(q)[k] = y, Tail(q)[l] = x
          PROVE  y \in Ahead(x)
      <4>1. /\ k + 1 \in DOMAIN q /\ l + 1 \in DOMAIN q /\ k + 1 < l + 1
            /\ q[k + 1] = y /\ q[l + 1] = x
        BY <1>3, <3>1
      <4> QED BY <1>6, <4>1 DEF Ahead
    <3> QED BY <1>2, <1>3, <1>6, <3>1 DEF Ahead
  <2>2. p \in Ahead(x)
    <3>1. PICK l \in DOMAIN q : q[l] = x
      BY <1>6, QueuedInOwn
    <3>2. 1 \in DOMAIN q /\ 1 < l
      BY <1>3, <3>1
    <3> QED BY <1>3, <1>6, <3>1, <3>2 DEF Ahead
  <2>3. p \notin Ahead(x)'
    <3>1. ~(Queued(p))'
      BY DispatchOwner
    <3> QED BY <1>1, <1>6, <3>1 DEF Ahead, Queued, QueuedAt
  <2> QED BY <2>1, <2>2, <2>3
<1> QED BY <1>5, <1>6

\* Whoever is not taken by a get_proc waits less after it.
LEMMA GetWait ==
  ASSUME MLQTypeOK, QueuesWellFormed, NEW r, get_mlq_proc(r),
         NEW x \in Proc, Queued(x), x # r
  PROVE  r # NULL /\ (Queued(x))' /\ Ahead(x)' \subseteq Ahead(x) /\ Shorter(x)
<1> DEFINE j == prio[x]
<1> USE MLQAssumption
<1>1. r \in Proc /\ r # NULL /\ (Queued(x))'
  BY GetOwner
<1>2. j \in NonEmpty /\ j \in Prio /\ slot[j] \in Nat
  BY QueuedInOwn DEF NonEmpty, MLQTypeOK
<1>3. CASE GetWithinBudget(r)
  <2>1. PICK i \in Prio : ScanStopsAt(i, Eligible) /\ Dispatch(r, i, slot)
    BY <1>3 DEF GetWithinBudget
  <2>2. i \in NonEmpty /\ slot[i] > 0
    BY <2>1 DEF ScanStopsAt, Eligible
  <2>3. Ahead(x)' \subseteq Ahead(x) /\ (j = i => Ahead(x)' # Ahead(x))
    BY <1>1, <2>1, <2>2, DispatchWait
  <2>4. CASE j = i
    BY <1>1, <2>3, <2>4 DEF Shorter
  <2>5. CASE j # i /\ slot[j] = 0
    <3>1. slot' = [slot EXCEPT ![i] = @ - 1]
      BY <2>1 DEF Dispatch
    <3> QED BY <1>1, <2>2, <2>3, <2>5, <3>1 DEF Shorter
  <2>6. CASE j # i /\ slot[j] > 0
    <3>1. slot'[j] = slot[j] /\ curr_prio' = (i + 1) % MAX_PRIO
      BY <1>2, <2>1, <2>6 DEF Dispatch, MLQTypeOK
    <3>2. j \in Eligible /\ Eligible \in SUBSET Prio
      BY <1>2, <2>6 DEF Eligible, NonEmpty
    <3>3. (Dist(j))' < Dist(j)
      BY <2>1, <2>6, <3>1, <3>2, DispatchTurn
    <3> QED BY <1>1, <2>3, <2>6, <3>1, <3>3 DEF Shorter
  <2> QED BY <1>2, <2>4, <2>5, <2>6
<1>4. CASE GetAfterRefill(r)
  <2>1. PICK i \in Prio : ScanStopsAt(i, NonEmpty) /\ Dispatch(r, i, FullBudget)
    BY <1>4 DEF GetAfterRefill
  <2>2. i \in NonEmpty
    BY <2>1 DEF ScanStopsAt
  <2>3. Ahead(x)' \subseteq Ahead(x) /\ (j = i => Ahead(x)' # Ahead(x))
    BY <1>1, <2>1, <2>2, DispatchWait
  <2>4. slot[j] = 0
    BY <1>2, <1>4 DEF GetAfterRefill, Eligible
  <2>5. j # i => slot'[j] > 0
    BY <1>2, <2>1, FullBudgetType DEF Dispatch
  <2> QED BY <1>1, <2>3, <2>4, <2>5 DEF Shorter
<1> QED BY <1>1, <1>3, <1>4 DEF get_mlq_proc
=============================================================================
