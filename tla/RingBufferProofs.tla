------------------------- MODULE RingBufferProofs -------------------------
(***************************************************************************)
(* Proofs about RingBuffer, for every capacity and every set of items: the *)
(* type invariant with the pairing of construction and destruction, and    *)
(* that the ring buffer implements BoundedDeque.                           *)
(***************************************************************************)
EXTENDS RingBuffer, SequenceTheorems, TLAPS

USE ItemAssumption, CapacityAssumption

-----------------------------------------------------------------------------
(* The slot of the k-th item from the front: a slot, and another for each k.*)
LEMMA WrapProperties ==
  ASSUME fr \in Slots, sz \in 0..Capacity
  PROVE  /\ \A k \in 0..(Capacity - 1) : Wrap(fr + k) \in Slots
         /\ \A j, k \in 0..(Capacity - 1) :
              Wrap(fr + j) = Wrap(fr + k) => j = k
         /\ \A i \in Slots : \E k \in 0..(Capacity - 1) : i = Wrap(fr + k)
<1>1. \A k \in 0..(Capacity - 1) : Wrap(fr + k) \in Slots
  BY DEF Wrap, Slots
<1>2. \A j, k \in 0..(Capacity - 1) : Wrap(fr + j) = Wrap(fr + k) => j = k
  BY DEF Wrap, Slots
<1>3. ASSUME NEW i \in Slots
      PROVE  \E k \in 0..(Capacity - 1) : i = Wrap(fr + k)
  <2>1. CASE i >= fr
    <3>1. i - fr \in 0..(Capacity - 1) /\ i = Wrap(fr + (i - fr))
      BY <2>1 DEF Wrap, Slots
    <3> QED
      BY <3>1
  <2>2. CASE i < fr
    <3>1. /\ i - fr + Capacity \in 0..(Capacity - 1)
          /\ i = Wrap(fr + (i - fr + Capacity))
      BY <2>2 DEF Wrap, Slots
    <3> QED
      BY <3>1
  <2> QED
    BY <2>1, <2>2 DEF Slots
<1> QED
  BY <1>1, <1>2, <1>3

(* The type invariant by position instead of by slot: the k-th slot from   *)
(* the front is live exactly if k is less than the number of items.        *)
ByPosition ==
  /\ fr \in Slots
  /\ sz \in 0..Capacity
  /\ array \in [Slots -> Item \cup {NoItem}]
  /\ result \in Item \cup {NoItem}
  /\ \A k \in 0..(Capacity - 1) : array[Wrap(fr + k)] = NoItem <=> k >= sz

LEMMA SameInvariant == TypeOK <=> ByPosition
<1>1. SUFFICES ASSUME fr \in Slots, sz \in 0..Capacity
               PROVE  (\A i \in Slots : array[i] = NoItem <=> i \notin Live)
                      <=> (\A k \in 0..(Capacity - 1) :
                             array[Wrap(fr + k)] = NoItem <=> k >= sz)
  BY Zenon DEF TypeOK, ByPosition
<1>2. \A k \in 0..(Capacity - 1) : Wrap(fr + k) \in Live <=> k < sz
  BY <1>1, WrapProperties DEF Live
<1>3. /\ \A k \in 0..(Capacity - 1) : Wrap(fr + k) \in Slots
      /\ \A i \in Slots : \E k \in 0..(Capacity - 1) : i = Wrap(fr + k)
  BY <1>1, WrapProperties
<1>4. \A k \in 0..(Capacity - 1) : k >= sz <=> ~ (k < sz)
  BY <1>1
<1> QED
  BY <1>2, <1>3, <1>4

(* How the circle moves under the operations at the front.                 *)
LEMMA FrontMoves ==
  ASSUME fr \in Slots
  PROVE  /\ Before(fr) \in Slots /\ After(fr) \in Slots
         /\ Wrap(Before(fr)) = Before(fr) /\ Wrap(fr) = fr
         /\ Before(fr) = Wrap(fr + (Capacity - 1))
         /\ \A k \in 1..(Capacity - 1) :
              Wrap(Before(fr) + k) = Wrap(fr + (k - 1))
         /\ \A k \in 0..(Capacity - 2) :
              Wrap(After(fr) + k) = Wrap(fr + (k + 1))
         /\ Wrap(After(fr) + (Capacity - 1)) = fr
  BY DEF Before, After, Wrap, Slots

-----------------------------------------------------------------------------
(* The refinement, operation by operation. *)

Items == [k \in 1..sz |-> array[Wrap(fr + k - 1)]]

(* The contents are a sequence of sz items, each in a slot of its own.     *)
ItemsFacts ==
  /\ Items \in Seq(Item) /\ Len(Items) = sz
  /\ \A k \in 1..sz : Items[k] = array[Wrap(fr + (k - 1))]
  /\ \A k \in 0..(Capacity - 1) : Wrap(fr + k) \in Slots
  /\ \A j, k \in 0..(Capacity - 1) : Wrap(fr + j) = Wrap(fr + k) => j = k

LEMMA ItemsIsSequence == ByPosition => ItemsFacts
<1> SUFFICES ASSUME ByPosition PROVE ItemsFacts
  OBVIOUS
<1>1. /\ \A k \in 0..(Capacity - 1) : Wrap(fr + k) \in Slots
      /\ \A j, k \in 0..(Capacity - 1) : Wrap(fr + j) = Wrap(fr + k) => j = k
  BY WrapProperties DEF ByPosition
<1>2. \A k \in 1..sz : /\ k - 1 \in 0..(Capacity - 1)
                       /\ ~ (k - 1 >= sz)
                       /\ fr + k - 1 = fr + (k - 1)
  BY DEF ByPosition, Slots
<1>3. \A k \in 1..sz : array[Wrap(fr + k - 1)] \in Item
  BY <1>1, <1>2 DEF ByPosition
<1>4. Items \in Seq(Item) /\ Len(Items) = sz
  BY <1>3 DEF Items, ByPosition
<1>5. \A k \in 1..sz : Items[k] = array[Wrap(fr + (k - 1))]
  BY <1>2 DEF Items
<1> QED
  BY <1>1, <1>4, <1>5 DEF ItemsFacts

(* Two sequences with the same elements are equal. *)
LEMMA SameSequence ==
  ASSUME NEW s \in Seq(Item), NEW t \in Seq(Item), Len(s) = Len(t),
         \A k \in 1..Len(s) : s[k] = t[k]
  PROVE  s = t
  OBVIOUS

LEMMA PushFrontMaps ==
  ASSUME ByPosition, NEW x \in Item, push_front(x)
  PROVE  ByPosition' /\ Items' = <<x>> \o Items
<1>0. ItemsFacts
  BY ItemsIsSequence
<1>1. /\ fr \in Slots /\ sz \in 0..(Capacity - 1)
      /\ fr' = Before(fr) /\ sz' = sz + 1 /\ result' = NoItem
      /\ array' = [array EXCEPT ![fr'] = x]
  BY DEF ByPosition, push_front, full
<1>2. /\ fr' \in Slots /\ Wrap(fr') = fr' /\ fr' = Wrap(fr + (Capacity - 1))
      /\ \A k \in 1..(Capacity - 1) : Wrap(fr' + k) = Wrap(fr + (k - 1))
  BY <1>1, FrontMoves
<1>3. array'[Wrap(fr' + 0)] = x
  <2>1. fr' + 0 = fr'
    BY <1>2 DEF Slots
  <2> QED
    BY <1>1, <1>2, <2>1 DEF ByPosition
<1>4. ASSUME NEW k \in 1..(Capacity - 1)
      PROVE  array'[Wrap(fr' + k)] = array[Wrap(fr + (k - 1))]
  <2>1. k - 1 \in 0..(Capacity - 1) /\ k - 1 # Capacity - 1
        /\ Capacity - 1 \in 0..(Capacity - 1)
    OBVIOUS
  <2>2. Wrap(fr + (k - 1)) \in Slots /\ Wrap(fr + (k - 1)) # fr'
    BY <1>0, <1>2, <2>1 DEF ItemsFacts
  <2> QED
    BY <1>1, <1>2, <2>2 DEF ByPosition
<1>5. ByPosition'
  <2>1. \A k \in 0..(Capacity - 1) : array'[Wrap(fr' + k)] = NoItem <=> k >= sz'
    <3> TAKE k \in 0..(Capacity - 1)
    <3>1. CASE k = 0
      BY <1>1, <1>3, <3>1
    <3>2. CASE k # 0
      <4>1. k \in 1..(Capacity - 1) /\ k - 1 \in 0..(Capacity - 1)
        BY <3>2
      <4>2. array[Wrap(fr + (k - 1))] = NoItem <=> k - 1 >= sz
        BY <4>1 DEF ByPosition
      <4> QED
        BY <1>1, <1>4, <4>1, <4>2
    <3> QED
      BY <3>1, <3>2
  <2>2. array' \in [Slots -> Item \cup {NoItem}]
    BY <1>1, <1>2 DEF ByPosition
  <2> QED
    BY <1>1, <1>2, <2>1, <2>2 DEF ByPosition
<1>6. ItemsFacts'
  BY <1>5, ItemsIsSequence, PTL
<1>7. ASSUME NEW k \in 1..sz'
      PROVE  Items'[k] = (<<x>> \o Items)[k]
  <2>1. CASE k = 1
    BY <1>0, <1>3, <1>6, <2>1 DEF ItemsFacts
  <2>2. CASE k # 1
    <3>1. k - 1 \in 1..(Capacity - 1) /\ k - 1 \in 1..sz
      BY <1>1, <2>2
    <3>2. Items'[k] = array'[Wrap(fr' + (k - 1))]
      BY <1>6 DEF ItemsFacts
    <3>3. array'[Wrap(fr' + (k - 1))] = array[Wrap(fr + (k - 1 - 1))]
      BY <1>4, <3>1
    <3>4. Items[k - 1] = array[Wrap(fr + (k - 1 - 1))]
      BY <1>0, <3>1 DEF ItemsFacts
    <3> QED
      BY <2>2, <3>1, <3>2, <3>3, <3>4, <1>0 DEF ItemsFacts
  <2> QED
    BY <2>1, <2>2
<1> QED
  <2>1. <<x>> \o Items \in Seq(Item) /\ Len(<<x>> \o Items) = sz'
    BY <1>0, <1>1 DEF ItemsFacts
  <2> QED
    BY <1>5, <1>6, <1>7, <2>1, SameSequence DEF ItemsFacts

LEMMA PushBackMaps ==
  ASSUME ByPosition, NEW x \in Item, push_back(x)
  PROVE  ByPosition' /\ Items' = Append(Items, x)
<1>0. ItemsFacts
  BY ItemsIsSequence
<1>1. /\ fr \in Slots /\ sz \in 0..(Capacity - 1)
      /\ fr' = fr /\ sz' = sz + 1 /\ result' = NoItem
      /\ array' = [array EXCEPT ![Wrap(fr + sz)] = x]
  BY DEF ByPosition, push_back, full
<1>2. Wrap(fr + sz) \in Slots
  BY <1>0, <1>1 DEF ItemsFacts
<1>3. array'[Wrap(fr + sz)] = x
  BY <1>1, <1>2 DEF ByPosition
<1>4. ASSUME NEW k \in 0..(Capacity - 1), k # sz
      PROVE  array'[Wrap(fr + k)] = array[Wrap(fr + k)]
  <2>1. Wrap(fr + k) \in Slots /\ Wrap(fr + k) # Wrap(fr + sz)
    BY <1>0, <1>1, <1>4 DEF ItemsFacts
  <2> QED
    BY <1>1, <1>2, <2>1 DEF ByPosition
<1>5. ByPosition'
  <2>1. \A k \in 0..(Capacity - 1) : array'[Wrap(fr' + k)] = NoItem <=> k >= sz'
    <3> TAKE k \in 0..(Capacity - 1)
    <3>1. CASE k = sz
      BY <1>1, <1>3, <3>1
    <3>2. CASE k # sz
      <4>1. array[Wrap(fr + k)] = NoItem <=> k >= sz
        BY DEF ByPosition
      <4> QED
        BY <1>1, <1>4, <3>2, <4>1
    <3> QED
      BY <3>1, <3>2
  <2>2. array' \in [Slots -> Item \cup {NoItem}]
    BY <1>1, <1>2 DEF ByPosition
  <2> QED
    BY <1>1, <2>1, <2>2 DEF ByPosition
<1>6. ItemsFacts'
  BY <1>5, ItemsIsSequence, PTL
<1>7. ASSUME NEW k \in 1..sz'
      PROVE  Items'[k] = Append(Items, x)[k]
  <2>1. Items'[k] = array'[Wrap(fr + (k - 1))]
    BY <1>1, <1>6 DEF ItemsFacts
  <2>2. CASE k = sz + 1
    <3>1. k - 1 = sz /\ Append(Items, x)[k] = x
      BY <1>0, <1>1, <2>2 DEF ItemsFacts
    <3> QED
      BY <1>3, <2>1, <3>1
  <2>3. CASE k # sz + 1
    <3>1. k \in 1..sz /\ k - 1 \in 0..(Capacity - 1) /\ k - 1 # sz
      BY <1>1, <2>3
    <3>2. array'[Wrap(fr + (k - 1))] = array[Wrap(fr + (k - 1))]
      BY <1>4, <3>1
    <3>3. Items[k] = array[Wrap(fr + (k - 1))] /\ Append(Items, x)[k] = Items[k]
      BY <1>0, <3>1 DEF ItemsFacts
    <3> QED
      BY <2>1, <3>2, <3>3
  <2> QED
    BY <2>2, <2>3
<1> QED
  <2>1. Append(Items, x) \in Seq(Item) /\ Len(Append(Items, x)) = sz'
    BY <1>0, <1>1 DEF ItemsFacts
  <2> QED
    BY <1>5, <1>6, <1>7, <2>1, SameSequence DEF ItemsFacts

LEMMA PopFrontMaps ==
  ASSUME ByPosition, pop_front
  PROVE  ByPosition' /\ Items # << >> /\ result' = Head(Items)
         /\ Items' = Tail(Items)
<1>0. ItemsFacts
  BY ItemsIsSequence
<1>1. /\ fr \in Slots /\ sz \in 1..Capacity
      /\ fr' = After(fr) /\ sz' = sz - 1 /\ result' = array[fr]
      /\ array' = [array EXCEPT ![fr] = NoItem]
  BY DEF ByPosition, pop_front, empty
<1>2. /\ fr' \in Slots /\ Wrap(fr) = fr
      /\ \A k \in 0..(Capacity - 2) : Wrap(fr' + k) = Wrap(fr + (k + 1))
      /\ Wrap(fr' + (Capacity - 1)) = fr
  BY <1>1, FrontMoves
<1>3. array'[fr] = NoItem
  BY <1>1 DEF ByPosition
<1>4. ASSUME NEW k \in 0..(Capacity - 2)
      PROVE  array'[Wrap(fr' + k)] = array[Wrap(fr + (k + 1))]
  <2>1. 0 \in 0..(Capacity - 1) /\ k + 1 \in 0..(Capacity - 1) /\ k + 1 # 0
        /\ fr + 0 = fr
    BY <1>1 DEF Slots
  <2>2. Wrap(fr + (k + 1)) \in Slots /\ Wrap(fr + (k + 1)) # Wrap(fr + 0)
    BY <1>0, <2>1 DEF ItemsFacts
  <2> QED
    BY <1>1, <1>2, <2>1, <2>2 DEF ByPosition
<1>5. ByPosition'
  <2>1. \A k \in 0..(Capacity - 1) : array'[Wrap(fr' + k)] = NoItem <=> k >= sz'
    <3> TAKE k \in 0..(Capacity - 1)
    <3>1. CASE k = Capacity - 1
      BY <1>1, <1>2, <1>3, <3>1
    <3>2. CASE k # Capacity - 1
      <4>1. k \in 0..(Capacity - 2) /\ k + 1 \in 0..(Capacity - 1)
        BY <3>2
      <4>2. array[Wrap(fr + (k + 1))] = NoItem <=> k + 1 >= sz
        BY <4>1 DEF ByPosition
      <4> QED
        BY <1>1, <1>4, <4>1, <4>2
    <3> QED
      BY <3>1, <3>2
  <2>2. array' \in [Slots -> Item \cup {NoItem}] /\ result' \in Item \cup {NoItem}
    BY <1>1 DEF ByPosition
  <2> QED
    BY <1>1, <1>2, <2>1, <2>2 DEF ByPosition
<1>6. ItemsFacts'
  BY <1>5, ItemsIsSequence, PTL
<1>7. ASSUME NEW k \in 1..sz'
      PROVE  Items'[k] = Tail(Items)[k]
  <2>1. k - 1 \in 0..(Capacity - 2) /\ k + 1 \in 1..sz /\ k - 1 + 1 = k + 1 - 1
    BY <1>1
  <2>2. Items'[k] = array'[Wrap(fr' + (k - 1))]
    BY <1>6 DEF ItemsFacts
  <2>3. array'[Wrap(fr' + (k - 1))] = array[Wrap(fr + (k - 1 + 1))]
    BY <1>4, <2>1
  <2>4. Items[k + 1] = array[Wrap(fr + (k + 1 - 1))] /\ Tail(Items)[k] = Items[k + 1]
    BY <1>0, <1>1, <2>1 DEF ItemsFacts
  <2> QED
    BY <2>1, <2>2, <2>3, <2>4
<1>8. Items # << >> /\ result' = Head(Items)
  <2>1. 1 \in 1..sz /\ fr + (1 - 1) = fr
    BY <1>1 DEF Slots
  <2>2. Items[1] = array[Wrap(fr + (1 - 1))]
    BY <1>0, <2>1 DEF ItemsFacts
  <2> QED
    BY <1>0, <1>1, <1>2, <2>1, <2>2 DEF ItemsFacts
<1> QED
  <2>1. Tail(Items) \in Seq(Item) /\ Len(Tail(Items)) = sz'
    BY <1>0, <1>1, <1>8 DEF ItemsFacts
  <2> QED
    BY <1>5, <1>6, <1>7, <1>8, <2>1, SameSequence DEF ItemsFacts

LEMMA PopBackMaps ==
  ASSUME ByPosition, pop_back
  PROVE  ByPosition' /\ Items # << >> /\ result' = Items[Len(Items)]
         /\ Items' = SubSeq(Items, 1, Len(Items) - 1)
<1>0. ItemsFacts
  BY ItemsIsSequence
<1>1. /\ fr \in Slots /\ sz \in 1..Capacity
      /\ fr' = fr /\ sz' = sz - 1 /\ result' = array[Wrap(fr + (sz - 1))]
      /\ array' = [array EXCEPT ![Wrap(fr + (sz - 1))] = NoItem]
  <2>1. fr \in Slots /\ sz \in 1..Capacity
    BY DEF ByPosition, pop_back, empty
  <2>2. fr + sz - 1 = fr + (sz - 1)
    BY <2>1 DEF Slots
  <2> QED
    BY <2>1, <2>2 DEF pop_back, BackSlot
<1>2. Wrap(fr + (sz - 1)) \in Slots
  BY <1>0, <1>1 DEF ItemsFacts
<1>3. array'[Wrap(fr + (sz - 1))] = NoItem
  BY <1>1, <1>2 DEF ByPosition
<1>4. ASSUME NEW k \in 0..(Capacity - 1), k # sz - 1
      PROVE  array'[Wrap(fr + k)] = array[Wrap(fr + k)]
  <2>1. Wrap(fr + k) \in Slots /\ Wrap(fr + k) # Wrap(fr + (sz - 1))
    BY <1>0, <1>1, <1>4 DEF ItemsFacts
  <2> QED
    BY <1>1, <1>2, <2>1 DEF ByPosition
<1>5. ByPosition'
  <2>1. \A k \in 0..(Capacity - 1) : array'[Wrap(fr' + k)] = NoItem <=> k >= sz'
    <3> TAKE k \in 0..(Capacity - 1)
    <3>1. CASE k = sz - 1
      BY <1>1, <1>3, <3>1
    <3>2. CASE k # sz - 1
      <4>1. array[Wrap(fr + k)] = NoItem <=> k >= sz
        BY DEF ByPosition
      <4> QED
        BY <1>1, <1>4, <3>2, <4>1
    <3> QED
      BY <3>1, <3>2
  <2>2. array' \in [Slots -> Item \cup {NoItem}] /\ result' \in Item \cup {NoItem}
    BY <1>1, <1>2 DEF ByPosition
  <2> QED
    BY <1>1, <2>1, <2>2 DEF ByPosition
<1>6. ItemsFacts'
  BY <1>5, ItemsIsSequence, PTL
<1>7. ASSUME NEW k \in 1..sz'
      PROVE  Items'[k] = SubSeq(Items, 1, Len(Items) - 1)[k]
  <2>1. k \in 1..sz /\ k - 1 \in 0..(Capacity - 1) /\ k - 1 # sz - 1
    BY <1>1
  <2>2. Items'[k] = array'[Wrap(fr + (k - 1))]
    BY <1>1, <1>6 DEF ItemsFacts
  <2>3. array'[Wrap(fr + (k - 1))] = array[Wrap(fr + (k - 1))]
    BY <1>4, <2>1
  <2>4. Items[k] = array[Wrap(fr + (k - 1))]
    BY <1>0, <2>1 DEF ItemsFacts
  <2>5. SubSeq(Items, 1, Len(Items) - 1)[k] = Items[k]
    BY <1>0, <1>1 DEF ItemsFacts
  <2> QED
    BY <2>2, <2>3, <2>4, <2>5
<1>8. Items # << >> /\ result' = Items[Len(Items)]
  BY <1>0, <1>1 DEF ItemsFacts
<1> QED
  <2>1. /\ SubSeq(Items, 1, Len(Items) - 1) \in Seq(Item)
        /\ Len(SubSeq(Items, 1, Len(Items) - 1)) = sz'
    BY <1>0, <1>1 DEF ItemsFacts
  <2> QED
    BY <1>5, <1>6, <1>7, <1>8, <2>1, SameSequence DEF ItemsFacts

LEMMA ReadsMap ==
  ASSUME ByPosition, front \/ back
  PROVE  /\ ByPosition' /\ Items' = Items /\ Items # << >>
         /\ front => result' = Head(Items)
         /\ back => result' = Items[Len(Items)]
<1>0. ItemsFacts
  BY ItemsIsSequence
<1>1. /\ fr \in Slots /\ sz \in 1..Capacity
      /\ 1 \in 1..sz /\ sz \in 1..sz /\ fr + (1 - 1) = fr /\ Wrap(fr) = fr
      /\ fr + sz - 1 = fr + (sz - 1)
  BY DEF ByPosition, front, back, empty, Slots, Wrap
<1>2. Items[1] = array[fr] /\ Items[sz] = array[BackSlot]
  BY <1>0, <1>1 DEF ItemsFacts, BackSlot
<1>3. UNCHANGED <<fr, sz, array>>
  BY DEF front, back
<1>4. Items # << >> /\ Len(Items) = sz /\ Head(Items) = Items[1]
  BY <1>0, <1>1 DEF ItemsFacts
<1>5. Items' = Items
  BY <1>3 DEF Items, Wrap
<1>6. /\ front => result' = Head(Items)
      /\ back => result' = Items[Len(Items)]
  BY <1>2, <1>4 DEF front, back
<1>7. array[fr] \in Item /\ array[BackSlot] \in Item
  BY <1>0, <1>1, <1>2 DEF ItemsFacts
<1>8. ByPosition'
  BY <1>3, <1>7 DEF ByPosition, front, back, Wrap
<1> QED
  BY <1>4, <1>5, <1>6, <1>8

LEMMA ClearMaps ==
  ASSUME ByPosition, clear
  PROVE  ByPosition' /\ Items' = << >>
<1>1. /\ fr' = fr /\ sz' = 0 /\ result' = NoItem
      /\ array' = [i \in Slots |-> IF i \in Live THEN NoItem ELSE array[i]]
  BY DEF clear
<1>2. TypeOK
  BY SameInvariant
<1>3. Live' = {}
  BY <1>1 DEF Live
<1>4. TypeOK'
  BY <1>1, <1>2, <1>3 DEF TypeOK
<1>5. ByPosition'
  BY <1>4, SameInvariant, PTL
<1>6. ItemsFacts'
  BY <1>5, ItemsIsSequence, PTL
<1> QED
  BY <1>1, <1>5, <1>6 DEF ItemsFacts

LEMMA InitMaps ==
  ASSUME Init
  PROVE  ByPosition /\ Items = << >>
<1>1. ByPosition
  <2>1. TypeOK
    BY DEF Init, TypeOK, Slots, Live
  <2> QED
    BY <2>1, SameInvariant
<1>2. ItemsFacts
  BY <1>1, ItemsIsSequence
<1> QED
  BY <1>1, <1>2 DEF Init, ItemsFacts

-----------------------------------------------------------------------------
LEMMA StepPreserves ==
  ASSUME ByPosition, [Next]_vars
  PROVE  ByPosition'
<1>1. CASE \E x \in Item : push_front(x)
  BY <1>1, PushFrontMaps
<1>2. CASE \E x \in Item : push_back(x)
  BY <1>2, PushBackMaps
<1>3. CASE front \/ back
  BY <1>3, ReadsMap
<1>4. CASE pop_front
  BY <1>4, PopFrontMaps
<1>5. CASE pop_back
  BY <1>5, PopBackMaps
<1>6. CASE clear
  BY <1>6, ClearMaps
<1>7. CASE UNCHANGED vars
  BY <1>7 DEF ByPosition, vars, Wrap
<1> QED
  BY <1>1, <1>2, <1>3, <1>4, <1>5, <1>6, <1>7 DEF Next

(* For every capacity: front and size stay in range whatever wraps, and    *)
(* exactly the slots in use hold a live object.                            *)
THEOREM TypeCorrect == Spec => []TypeOK
<1>1. Init => ByPosition
  BY InitMaps
<1>2. ByPosition /\ [Next]_vars => ByPosition'
  BY StepPreserves
<1> QED
  BY <1>1, <1>2, SameInvariant, PTL DEF Spec

LEMMA StepMaps ==
  ASSUME ByPosition, [Next]_vars
  PROVE  [Deque!Next]_<<Items, result>>
<1>1. ASSUME NEW x \in Item, push_front(x)
      PROVE  Deque!PushFront(x)
  <2>1. Items' = <<x>> \o Items
    BY <1>1, PushFrontMaps
  <2>2. Len(Items) < Capacity
    BY <1>1, ItemsIsSequence DEF ItemsFacts, ByPosition, push_front, full
  <2> QED
    BY <1>1, <2>1, <2>2 DEF Deque!PushFront, Deque!Room, Items, push_front
<1>2. ASSUME NEW x \in Item, push_back(x)
      PROVE  Deque!PushBack(x)
  <2>1. Items' = Append(Items, x)
    BY <1>2, PushBackMaps
  <2>2. Len(Items) < Capacity
    BY <1>2, ItemsIsSequence DEF ItemsFacts, ByPosition, push_back, full
  <2> QED
    BY <1>2, <2>1, <2>2 DEF Deque!PushBack, Deque!Room, Items, push_back
<1>3. ASSUME front PROVE Deque!Front
  BY <1>3, ReadsMap DEF Deque!Front, Items
<1>4. ASSUME back PROVE Deque!Back
  BY <1>4, ReadsMap DEF Deque!Back, Items
<1>5. ASSUME pop_front PROVE Deque!PopFront
  BY <1>5, PopFrontMaps DEF Deque!PopFront, Items
<1>6. ASSUME pop_back PROVE Deque!PopBack
  BY <1>6, PopBackMaps DEF Deque!PopBack, Items
<1>7. ASSUME clear PROVE Deque!Clear
  BY <1>7, ClearMaps DEF Deque!Clear, Items, clear
<1>8. ASSUME UNCHANGED vars PROVE UNCHANGED <<Items, result>>
  BY <1>8 DEF vars, Items, Wrap
<1> QED
  BY <1>1, <1>2, <1>3, <1>4, <1>5, <1>6, <1>7, <1>8 DEF Next, Deque!Next

(* For every capacity the ring buffer implements the bounded double-ended  *)
(* queue: no item is lost, duplicated or reordered where an index wraps.   *)
THEOREM Implements == Spec => RefinesDeque
<1>1. Init => Deque!Init
  BY InitMaps DEF Deque!Init, Items, Init
<1>2. ByPosition /\ [Next]_vars => [Deque!Next]_<<Items, result>>
  BY StepMaps
<1>3. Spec => []ByPosition
  <2>1. Init => ByPosition
    BY InitMaps
  <2>2. ByPosition /\ [Next]_vars => ByPosition'
    BY StepPreserves
  <2> QED
    BY <2>1, <2>2, PTL DEF Spec
<1> QED
  BY <1>1, <1>2, <1>3, PTL DEF Spec, RefinesDeque, Deque!Spec, Items
=============================================================================
