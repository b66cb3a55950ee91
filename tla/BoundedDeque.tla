--------------------------- MODULE BoundedDeque ---------------------------
(***************************************************************************)
(* What a fixed-capacity container promises its client: a sequence of at   *)
(* most Capacity items that grows and shrinks at both ends.  Calling an    *)
(* operation outside its precondition is not a behaviour of the client     *)
(* (the code asserts it).  RingBuffer.tla implements this specification;   *)
(* ForkJoin.tla uses it for the buffers of the workers.                    *)
(***************************************************************************)
EXTENDS Naturals, Sequences

CONSTANTS
  Item,       \* what the container holds
  NoItem,     \* the answer of an operation that returns nothing
  Capacity

VARIABLES
  items,      \* the contents, front first
  result      \* the answer of the last operation

Init == items = <<>> /\ result = NoItem

Room == Len(items) < Capacity

PushFront(x) == Room /\ items' = <<x>> \o items /\ result' = NoItem

PushBack(x) == Room /\ items' = Append(items, x) /\ result' = NoItem

Front == items # <<>> /\ result' = Head(items) /\ items' = items

Back == items # <<>> /\ result' = items[Len(items)] /\ items' = items

PopFront == items # <<>> /\ result' = Head(items) /\ items' = Tail(items)

PopBack ==
  /\ items # <<>>
  /\ result' = items[Len(items)]
  /\ items' = SubSeq(items, 1, Len(items) - 1)

Clear == items' = <<>> /\ result' = NoItem

Next ==
  \/ \E x \in Item : PushFront(x) \/ PushBack(x)
  \/ Front \/ Back \/ PopFront \/ PopBack
  \/ Clear

Spec == Init /\ [][Next]_<<items, result>>
=============================================================================
