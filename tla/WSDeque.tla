------------------------------ MODULE WSDeque ------------------------------
(***************************************************************************)
(* What a work-stealing deque promises its scheduler: a sequence of items  *)
(* that one owner uses as a stack at its right end and that any number of  *)
(* thieves consume from its left end, every operation atomic.  A steal may *)
(* fail although there is an item (it lost a race, or the item is not yet  *)
(* visible to it); a pop may not.                                          *)
(*                                                                         *)
(* ChaseLev.tla implements this specification; the scheduler modules use   *)
(* its operations as atomic steps.                                         *)
(***************************************************************************)
EXTENDS Naturals, Sequences

CONSTANTS
  Owner,      \* the worker that pushes and pops
  Thief,      \* the workers that only steal
  Item,       \* what the deque holds (pointers to fibers)
  NoItem      \* nullptr, the answer of an operation that got nothing

VARIABLES
  items,      \* the contents, oldest (next to be stolen) first
  out         \* <<worker, answer>> of the last operation that answered

Init == items = <<>> /\ out = <<Owner, NoItem>>

Push(x) == items' = Append(items, x) /\ out' = out

Pop ==
  \/ /\ items # <<>>
     /\ out' = <<Owner, items[Len(items)]>>
     /\ items' = SubSeq(items, 1, Len(items) - 1)
  \/ /\ items = <<>>
     /\ out' = <<Owner, NoItem>>
     /\ items' = items

IsEmpty ==
  /\ out' = <<Owner, IF items = <<>> THEN "empty" ELSE "nonempty">>
  /\ items' = items

Steal(p) ==
  /\ items # <<>>
  /\ out' = <<p, Head(items)>>
  /\ items' = Tail(items)

StealFails(p) == out' = <<p, NoItem>> /\ items' = items

Next ==
  \/ \E x \in Item : Push(x)
  \/ Pop
  \/ IsEmpty
  \/ \E p \in Thief : Steal(p) \/ StealFails(p)

Spec == Init /\ [][Next]_<<items, out>>
=============================================================================
