---------------------------- MODULE BoundedFifo ----------------------------
(***************************************************************************)
(* What queue.c promises: a sequence of at most Capacity items.  last is   *)
(* the last call that returns something, with its argument and result.     *)
(***************************************************************************)
EXTENDS Naturals, Sequences

CONSTANTS Item, NULL, Capacity

VARIABLES items, last

vars == <<items, last>>

Answer(call, arg, result) == [call |-> call, arg |-> arg, result |-> result]

Init == items = <<>> /\ last = Answer("none", NULL, NULL)

Full == Len(items) >= Capacity

PushBack(p) == ~Full /\ items' = Append(items, p) /\ last' = last

PushFront(p) == ~Full /\ items' = <<p>> \o items /\ last' = last

Pop ==
  /\ items # <<>>
  /\ items' = Tail(items)
  /\ last' = Answer("dequeue", NULL, Head(items))

PopNothing ==
  /\ items = <<>>
  /\ items' = items
  /\ last' = Answer("dequeue", NULL, NULL)

\* Take out the item at position i, the first that equals p.
Remove(p, i) ==
  /\ items[i] = p
  /\ \A j \in 1 .. i - 1 : items[j] # p
  /\ items' = [j \in 1 .. Len(items) - 1 |->
                 IF j < i THEN items[j] ELSE items[j + 1]]
  /\ last' = Answer("purgequeue", p, p)

RemoveNothing(p) ==
  /\ \A i \in DOMAIN items : items[i] # p
  /\ items' = items
  /\ last' = Answer("purgequeue", p, NULL)

Next ==
  \/ \E p \in Item : PushBack(p) \/ PushFront(p)
  \/ \E p \in Item : \E i \in DOMAIN items : Remove(p, i)
  \/ \E p \in Item \cup {NULL} : RemoveNothing(p)
  \/ Pop
  \/ PopNothing

Spec == Init /\ [][Next]_vars
=============================================================================
