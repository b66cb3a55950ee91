---------------------------- MODULE RingBuffer ----------------------------
(***************************************************************************)
(* ringbuffer_idx of mcsl_fixedcapacity.hpp: the fixed-capacity buffer in  *)
(* which a worker keeps the fibers it has scheduled until flush moves them *)
(* to its deque.  Items live in a circle of Capacity slots; fr is the slot *)
(* of the front item and sz the number of items, which are constructed in  *)
(* place and destroyed when they leave.  One worker uses a buffer, so an   *)
(* operation is a step; its asserts are preconditions of the caller.       *)
(***************************************************************************)
EXTENDS Integers, Sequences

CONSTANTS
  Item,       \* the values held
  NoItem,     \* a slot without a live object; also "no answer"
  Capacity    \* 16 unless the user says otherwise (dflt_buffer_capacity)

ASSUME ItemAssumption == NoItem \notin Item
ASSUME CapacityAssumption == Capacity \in Nat \ {0}

VARIABLES
  fr,         \* slot of the front item
  sz,         \* number of items
  array,      \* the slots
  result      \* what the last operation returned

vars == <<fr, sz, array, result>>

Slots == 0..(Capacity - 1)

Init ==
  /\ fr = 0 /\ sz = 0
  /\ array = [i \in Slots |-> NoItem]
  /\ result = NoItem

full == sz = Capacity
empty == sz = 0

(* The operations add or subtract at most Capacity and correct once.       *)
Wrap(i) == IF i >= Capacity THEN i - Capacity ELSE i

Before(i) == IF i - 1 = -1 THEN i - 1 + Capacity ELSE i - 1

(* Mutant of After: pop_front that moves the front one slot too far after  *)
(* the last slot.                                                          *)
AfterSkips(i) == IF i + 1 = Capacity THEN 1 % Capacity ELSE i + 1

After(i) == IF i + 1 = Capacity THEN 0 ELSE i + 1

(* Mutant of BackSlot: back computed without the -1. *)
BackSlotOff == Wrap(fr + sz)

BackSlot == Wrap(fr + sz - 1)

push_front(x) ==
  /\ ~ full
  /\ fr' = Before(fr)
  /\ sz' = sz + 1
  /\ array' = [array EXCEPT ![fr'] = x]
  /\ result' = NoItem

push_back(x) ==
  /\ ~ full
  /\ array' = [array EXCEPT ![Wrap(fr + sz)] = x]
  /\ sz' = sz + 1
  /\ result' = NoItem
  /\ fr' = fr

front ==
  /\ ~ empty
  /\ result' = array[fr]
  /\ UNCHANGED <<fr, sz, array>>

back ==
  /\ ~ empty
  /\ result' = array[BackSlot]
  /\ UNCHANGED <<fr, sz, array>>

pop_front ==
  /\ ~ empty
  /\ result' = array[fr]
  /\ array' = [array EXCEPT ![fr] = NoItem]
  /\ fr' = After(fr)
  /\ sz' = sz - 1

pop_back ==
  /\ ~ empty
  /\ result' = array[BackSlot]
  /\ array' = [array EXCEPT ![BackSlot] = NoItem]
  /\ sz' = sz - 1
  /\ fr' = fr

(* The slots in use, counted from the front: what clear's pop_backs visit. *)
Live == {Wrap(fr + k) : k \in 0..(sz - 1)}

clear ==
  /\ array' = [i \in Slots |-> IF i \in Live THEN NoItem ELSE array[i]]
  /\ sz' = 0
  /\ result' = NoItem
  /\ fr' = fr

Next ==
  \/ \E x \in Item : push_front(x) \/ push_back(x)
  \/ front \/ back \/ pop_front \/ pop_back
  \/ clear

Spec == Init /\ [][Next]_vars

-----------------------------------------------------------------------------
(* front and size stay in range, and exactly the slots between front and   *)
(* back hold a live object: nothing is destroyed twice, overwritten alive  *)
(* or left undestroyed.                                                    *)
TypeOK ==
  /\ fr \in Slots
  /\ sz \in 0..Capacity
  /\ array \in [Slots -> Item \cup {NoItem}]
  /\ result \in Item \cup {NoItem}
  /\ \A i \in Slots : array[i] = NoItem <=> i \notin Live

(* Through every wrap of front and back, from either end, the ring buffer  *)
(* is a bounded double-ended queue: it answers and holds what was put in,  *)
(* in order.                                                               *)
Deque == INSTANCE BoundedDeque WITH
  items <- [k \in 1..sz |-> array[Wrap(fr + k - 1)]]

RefinesDeque == Deque!Spec
=============================================================================
