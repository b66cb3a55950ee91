-------------------------- MODULE ChaseLevProofs --------------------------
(***************************************************************************)
(* Proofs about ChaseLev, for any number of thieves, any items, any sizes  *)
(* and any length of the store buffer: types and indices are right in both *)
(* store orders; when stores reach memory in the order they were made      *)
(* ("fifo", x86-TSO) a thief that wins has read the oldest item, and the   *)
(* deque implements WSDeque.                                               *)
(***************************************************************************)
EXTENDS ChaseLev, SequenceTheorems, TLAPS

USE SizesAssumption, WorkerAssumption, ItemAssumption

-----------------------------------------------------------------------------
(* Lemmas about locations, memory and the store buffer.                    *)

(* Removing the k-th element shifts the ones after it by one place. *)
LEMMA RemoveAtProperties ==
  ASSUME NEW S, NEW s \in Seq(S), NEW k \in 1..Len(s)
  PROVE  /\ RemoveAt(s, k) \in Seq(S)
         /\ Len(RemoveAt(s, k)) = Len(s) - 1
         /\ \A j \in 1..(k - 1) : RemoveAt(s, k)[j] = s[j]
         /\ \A j \in k..(Len(s) - 1) : RemoveAt(s, k)[j] = s[j + 1]
<1> DEFINE l == SubSeq(s, 1, k - 1)
           r == SubSeq(s, k + 1, Len(s))
<1>1. /\ l \in Seq(S) /\ Len(l) = k - 1
      /\ \A j \in 1..(k - 1) : l[j] = s[j]
  OBVIOUS
<1>2. /\ r \in Seq(S) /\ Len(r) = Len(s) - k
      /\ \A j \in 1..(Len(s) - k) : r[j] = s[k + j]
  OBVIOUS
<1> HIDE DEF l, r
<1>3. /\ l \o r \in Seq(S)
      /\ Len(l \o r) = Len(l) + Len(r)
      /\ \A j \in 1..(Len(l) + Len(r)) :
           (l \o r)[j] = IF j <= Len(l) THEN l[j] ELSE r[j - Len(l)]
  BY <1>1, <1>2, ConcatProperties, Zenon
<1>4. Len(l \o r) = Len(s) - 1
  BY <1>1, <1>2, <1>3
<1>5. ASSUME NEW j \in 1..(k - 1)
      PROVE  (l \o r)[j] = s[j]
  BY <1>1, <1>2, <1>3
<1>6. ASSUME NEW j \in k..(Len(s) - 1)
      PROVE  (l \o r)[j] = s[j + 1]
  <2>1. /\ j - (k - 1) \in 1..(Len(s) - k)
        /\ k + (j - (k - 1)) = j + 1
        /\ j \in 1..(Len(l) + Len(r)) /\ ~ (j <= Len(l)) /\ Len(l) = k - 1
    BY <1>1, <1>2
  <2>2. (l \o r)[j] = r[j - (k - 1)]
    BY <1>3, <2>1
  <2>3. r[j - (k - 1)] = s[k + (j - (k - 1))]
    BY <1>2, <2>1
  <2> QED
    BY <2>1, <2>2, <2>3, Zenon
<1>7. RemoveAt(s, k) = l \o r
  BY DEF RemoveAt, l, r
<1> QED
  BY <1>3, <1>4, <1>5, <1>6, <1>7, Zenon

(* A slot of an array of a legal size is a location of its own. *)
LEMMA SlotLocations ==
  ASSUME NEW n \in Sizes, NEW index \in Int
  PROVE  /\ Slot(n, index) \in Slots
         /\ Slot(n, index) # Bottom
         /\ Slot(n, index) # Array
<1>1. n \in Nat \ {0}
  OBVIOUS
<1>2. index % n \in 0..(n - 1)
  BY <1>1
<1> QED
  BY <1>2 DEF Slot, Slots, Bottom, Array

(* bottom, array and the slots are different locations. *)
LEMMA LocationsDiffer ==
  /\ Bottom # Array /\ Bottom \notin Slots /\ Array \notin Slots
  /\ Bottom \in Loc /\ Array \in Loc /\ Slots \subseteq Loc
BY DEF Bottom, Array, Slots, Loc

(* A store changes its own location only and is the youngest in the buffer. *)
LEMMA StoreEffect ==
  ASSUME NEW l \in Loc, NEW v, NEW r \in BOOLEAN,
         IsMemory(own), sb \in Seq(PendingStores), Store(l, v, r),
         [loc |-> l, val |-> v, release |-> r] \in PendingStores
  PROVE  /\ IsMemory(own')
         /\ sb' \in Seq(PendingStores)
         /\ own'[l] = v
         /\ \A m \in Loc \ {l} : own'[m] = own[m]
         /\ Len(sb') = Len(sb) + 1
         /\ \A k \in 1..Len(sb) : sb'[k] = sb[k]
         /\ sb'[Len(sb) + 1].loc = l
         /\ sb'[Len(sb) + 1].val = v
<1>1. sb' = Append(sb, [loc |-> l, val |-> v, release |-> r])
  BY DEF Store
<1>2. own' = [own EXCEPT ![l] = v]
  BY DEF Store
<1>3. /\ l = Bottom => v \in Int
      /\ l = Array => v \in Sizes
      /\ l \in Slots => v \in Content
  BY LocationsDiffer DEF PendingStores
<1>4. v \in Int \cup Sizes \cup Content
  BY <1>3 DEF Loc
<1>5. IsMemory(own')
  BY <1>2, <1>3, <1>4, LocationsDiffer DEF IsMemory
<1>6. own'[l] = v /\ \A m \in Loc \ {l} : own'[m] = own[m]
  BY <1>2 DEF IsMemory
<1>7. /\ sb' \in Seq(PendingStores)
      /\ Len(sb') = Len(sb) + 1
      /\ \A k \in 1..Len(sb) : sb'[k] = sb[k]
      /\ sb'[Len(sb) + 1] = [loc |-> l, val |-> v, release |-> r]
  BY <1>1
<1> QED
  BY <1>5, <1>6, <1>7

(* The same, for the three kinds of store. *)
LEMMA StoreSlot ==
  ASSUME TypeOK, NEW n \in Sizes, NEW index \in Int, NEW v \in Content,
         Store(Slot(n, index), v, FALSE)
  PROVE  /\ IsMemory(own') /\ sb' \in Seq(PendingStores)
         /\ own'[Bottom] = own[Bottom] /\ own'[Array] = own[Array]
         /\ Len(sb') = Len(sb) + 1
         /\ \A k \in 1..Len(sb) : sb'[k] = sb[k]
         /\ sb'[Len(sb) + 1].loc # Bottom
<1> DEFINE l == Slot(n, index)
<1>1. l \in Slots /\ l # Bottom /\ l # Array
  BY SlotLocations
<1>2. [loc |-> l, val |-> v, release |-> FALSE] \in PendingStores
  BY <1>1 DEF PendingStores
<1> HIDE DEF l
<1>3. l \in Loc /\ Bottom \in Loc \ {l} /\ Array \in Loc \ {l}
  BY <1>1, LocationsDiffer
<1>4. Store(l, v, FALSE)
  BY DEF l
<1> QED
  BY <1>1, <1>2, <1>3, <1>4, StoreEffect DEF TypeOK

(* The store that publishes a grown array leaves bottom and slots alone. *)
LEMMA StoreArray ==
  ASSUME TypeOK, NEW n \in Sizes, Store(Array, n, FALSE)
  PROVE  /\ IsMemory(own') /\ sb' \in Seq(PendingStores)
         /\ own'[Bottom] = own[Bottom] /\ own'[Array] = n
         /\ Len(sb') = Len(sb) + 1
         /\ \A k \in 1..Len(sb) : sb'[k] = sb[k]
         /\ sb'[Len(sb) + 1].loc # Bottom
<1>1. [loc |-> Array, val |-> n, release |-> FALSE] \in PendingStores
  BY DEF PendingStores
<1>2. Array \in Loc /\ Bottom \in Loc \ {Array} /\ FALSE \in BOOLEAN
  BY LocationsDiffer
<1>3. IsMemory(own) /\ sb \in Seq(PendingStores)
  BY DEF TypeOK
<1> HIDE DEF Store
<1> QED
  BY <1>1, <1>2, <1>3, StoreEffect, Zenon

(* The store of bottom, which push and pop both end with. *)
LEMMA StoreBottom ==
  ASSUME TypeOK, NEW v \in Int, NEW r \in BOOLEAN, Store(Bottom, v, r)
  PROVE  /\ IsMemory(own') /\ sb' \in Seq(PendingStores)
         /\ own'[Bottom] = v /\ own'[Array] = own[Array]
         /\ Len(sb') = Len(sb) + 1
         /\ \A k \in 1..Len(sb) : sb'[k] = sb[k]
         /\ sb'[Len(sb) + 1].loc = Bottom /\ sb'[Len(sb) + 1].val = v
<1>1. [loc |-> Bottom, val |-> v, release |-> r] \in PendingStores
  BY DEF PendingStores
<1> QED
  BY <1>1, LocationsDiffer, StoreEffect DEF TypeOK

(* Flush: the store that leaves is the oldest of its location. *)
LEMMA FlushEffect ==
  ASSUME TypeOK, NEW k \in 1..Len(sb), MayLeave(k),
         mem' = [mem EXCEPT ![sb[k].loc] = sb[k].val],
         sb' = RemoveAt(sb, k)
  PROVE  /\ IsMemory(mem') /\ sb' \in Seq(PendingStores)
         /\ mem'[sb[k].loc] = sb[k].val
         /\ \A l \in Loc : l # sb[k].loc => mem'[l] = mem[l]
         /\ Len(sb') = Len(sb) - 1
         /\ \A j \in 1..(k - 1) : sb'[j] = sb[j] /\ sb[j].loc # sb[k].loc
         /\ \A j \in k..(Len(sb) - 1) : sb'[j] = sb[j + 1]
<1>1. sb \in Seq(PendingStores)
  BY DEF TypeOK
<1>2. /\ sb' \in Seq(PendingStores)
      /\ Len(sb') = Len(sb) - 1
      /\ \A j \in 1..(k - 1) : sb'[j] = sb[j]
      /\ \A j \in k..(Len(sb) - 1) : sb'[j] = sb[j + 1]
  BY <1>1, RemoveAtProperties
<1>3. sb[k] \in PendingStores
  BY <1>1
<1>4. /\ sb[k].loc \in Loc
      /\ sb[k].loc = Bottom => sb[k].val \in Int
      /\ sb[k].loc = Array => sb[k].val \in Sizes
      /\ sb[k].loc \in Slots => sb[k].val \in Content
  BY <1>3, LocationsDiffer DEF PendingStores
<1>5. sb[k].val \in Int \cup Sizes \cup Content
  BY <1>4 DEF Loc
<1>6. IsMemory(mem)
  BY DEF TypeOK
<1>7. IsMemory(mem')
  BY <1>4, <1>5, <1>6, LocationsDiffer DEF IsMemory
<1>8. /\ mem'[sb[k].loc] = sb[k].val
      /\ \A l \in Loc : l # sb[k].loc => mem'[l] = mem[l]
  BY <1>4, <1>6 DEF IsMemory
<1>9. \A j \in 1..(k - 1) : sb[j].loc # sb[k].loc
  BY DEF MayLeave
<1> QED
  BY <1>2, <1>7, <1>8, <1>9
-----------------------------------------------------------------------------
(* Type correctness and the inductive invariant of the indices.            *)

(* Why IndexSafe is kept by every step.  The locals of a call in progress  *)
(* agree with the shared words they were read from, and the youngest       *)
(* pending store of bottom is the owner's view of it, so that an empty     *)
(* buffer (pop's fence) means that thieves see the lowered bottom.         *)
LocalsAgree ==
  /\ ow.pc # "idle" => ow.b = own[Bottom]
  /\ ow.pc = "grow" => 2 * own[Array] \in Sizes
  /\ ow.pc \in {"grow", "put", "publish"} => ow.x \in Item
  /\ ow.pc = "popCas" => ow.t = ow.b
  /\ \A p \in Thief : th[p].t <= top

Youngest(k) == \A j \in 1..Len(sb) : j > k => sb[j].loc # sb[k].loc

BufferAgrees ==
  /\ \A k \in 1..Len(sb) :
       sb[k].loc = Bottom /\ Youngest(k) => sb[k].val = own[Bottom]
  /\ (\A k \in 1..Len(sb) : sb[k].loc # Bottom) => mem[Bottom] = own[Bottom]

IndexInv == LocalsAgree /\ BufferAgrees /\ IndexSafe

IInv == TypeOK /\ IndexInv

(* A new deque is empty and nobody is inside a call. *)
LEMMA IInvInit == Init => IInv
<1> SUFFICES ASSUME Init PROVE IInv
  OBVIOUS
<1> USE DEF Init
<1>1. IsMemory(FreshMemory)
  BY LocationsDiffer DEF FreshMemory, IsMemory, Content
<1>2. mem[Bottom] = 0 /\ own[Bottom] = 0
  BY LocationsDiffer DEF FreshMemory
<1>3. sb \in Seq(PendingStores) /\ Len(sb) = 0
  OBVIOUS
<1>4. TypeOK
  BY <1>1, <1>3 DEF TypeOK, OwnerState, ThiefState, OwnerIdle, ThiefIdle, Content
<1>5. IndexInv
  BY <1>2, <1>3 DEF IndexInv, LocalsAgree, BufferAgrees, IndexSafe,
       LogicalBottom, OwnerIdle, ThiefIdle
<1> QED
  BY <1>4, <1>5 DEF IInv

(* The types are kept by every step (LocalsAgree is needed: only it says   *)
(* that grow doubles a size that may be doubled, and that push has an item). *)
LEMMA TypeStep == IInv /\ [Next]_vars => TypeOK'
<1> SUFFICES ASSUME TypeOK, LocalsAgree, [Next]_vars PROVE TypeOK'
  BY DEF IInv, IndexInv
<1>1. /\ own[Bottom] \in Int /\ own[Array] \in Sizes /\ mem[Bottom] \in Int
      /\ mem[Array] \in Sizes /\ Sizes \subseteq Nat
      /\ ow.b \in Int /\ ow.t \in Int /\ ow.i \in Int
      /\ \A p \in Thief : th[p].a \in Sizes /\ th[p].t \in Int
  BY DEF TypeOK, OwnerState, ThiefState, IsMemory
<1>2. ow.b + 1 \in Int /\ own[Bottom] - 1 \in Int /\ TRUE \in BOOLEAN /\ FALSE \in BOOLEAN
  BY <1>1
<1>17. CASE \E x \in Item : PushLoad(x)
  BY <1>1, <1>17 DEF TypeOK, OwnerState, PushLoad
<1>3. CASE GrowCopy
  <2>1. own[Slot(own[Array], ow.i)] \in Content
    BY <1>1, SlotLocations DEF TypeOK, IsMemory
  <2>2. IsMemory(own') /\ sb' \in Seq(PendingStores)
    BY <1>1, <1>3, <2>1, StoreSlot DEF GrowCopy, LocalsAgree
  <2>3. ow' = [ow EXCEPT !.i = @ + 1] /\ ow.i + 1 \in Nat
    BY <1>3 DEF GrowCopy, TypeOK, OwnerState
  <2> QED
    BY <1>3, <2>2, <2>3 DEF TypeOK, OwnerState, GrowCopy
<1>4. CASE GrowPublish
  <2>1. IsMemory(own') /\ sb' \in Seq(PendingStores)
    BY <1>1, <1>4, StoreArray DEF GrowPublish, LocalsAgree
  <2> QED
    BY <1>4, <2>1 DEF TypeOK, OwnerState, GrowPublish
<1>5. CASE PushPut
  <2>1. ow.x \in Content
    BY <1>5 DEF TypeOK, OwnerState, PushPut, LocalsAgree, Content
  <2>2. IsMemory(own') /\ sb' \in Seq(PendingStores)
    BY <1>1, <1>5, <2>1, StoreSlot DEF PushPut
  <2> QED
    BY <1>5, <2>2 DEF TypeOK, OwnerState, PushPut
<1>6. CASE PushPublish
  <2>1. IsMemory(own') /\ sb' \in Seq(PendingStores)
    BY <1>2, <1>6, StoreBottom, Zenon DEF PushPublish
  <2> QED
    BY <1>6, <2>1 DEF TypeOK, OwnerState, PushPublish, OwnerIdle
<1>7. CASE PopDecrement
  <2>1. IsMemory(own') /\ sb' \in Seq(PendingStores)
    BY <1>2, <1>7, StoreBottom, Zenon DEF PopDecrement
  <2>2. ow' = [pc |-> "popTop", b |-> own[Bottom] - 1, t |-> 0, i |-> 0, x |-> NoItem]
    BY <1>7 DEF PopDecrement, OwnerIdle
  <2>3. ow' \in OwnerState
    BY <1>2, <2>2 DEF OwnerState
  <2> QED
    BY <1>7, <2>1, <2>3 DEF TypeOK, PopDecrement
<1>8. own[Slot(own[Array], ow.b)] \in Content
  BY <1>1, SlotLocations DEF TypeOK, IsMemory
<1>9. CASE PopTake
  BY <1>8, <1>9 DEF TypeOK, OwnerState, PopTake, OwnerIdle
<1>10. CASE PopLast
  BY <1>10 DEF TypeOK, OwnerState, PopLast
<1>11. CASE PopEmpty
  <2>1. IsMemory(own') /\ sb' \in Seq(PendingStores)
    BY <1>2, <1>11, StoreBottom, Zenon DEF PopEmpty
  <2> QED
    BY <1>11, <2>1 DEF TypeOK, OwnerState, PopEmpty, OwnerIdle
<1>12. CASE PopCas
  <2>1. IsMemory(own') /\ sb' \in Seq(PendingStores)
    BY <1>2, <1>12, StoreBottom, Zenon DEF PopCas
  <2>2. top' \in Nat
    BY <1>12 DEF TypeOK, OwnerState, PopCas
  <2> QED
    BY <1>8, <1>12, <2>1, <2>2 DEF TypeOK, OwnerState, PopCas, OwnerIdle
<1>13. CASE Empty
  BY <1>13 DEF TypeOK, Empty
<1>14. CASE Flush
  <2>1. PICK k \in 1..Len(sb) :
          /\ MayLeave(k)
          /\ mem' = [mem EXCEPT ![sb[k].loc] = sb[k].val]
          /\ sb' = RemoveAt(sb, k)
          /\ UNCHANGED <<own, top, ow, th, out>>
    BY <1>14 DEF Flush
  <2>2. IsMemory(mem') /\ sb' \in Seq(PendingStores)
    BY <2>1, FlushEffect
  <2> QED
    BY <2>1, <2>2 DEF TypeOK
<1>15. ASSUME NEW p \in Thief, Steal(p)
       PROVE  TypeOK'
  <2>1. th \in [Thief -> ThiefState] /\ th[p] \in ThiefState /\ ThiefIdle \in ThiefState
    BY DEF TypeOK, ThiefState, ThiefIdle, Content
  <2>2. CASE StealTop(p)
    <3>1. [ThiefIdle EXCEPT !.pc = "bottom", !.t = top] \in ThiefState
      BY DEF TypeOK, ThiefState, ThiefIdle, Content
    <3> QED
      BY <2>1, <2>2, <3>1 DEF TypeOK, StealTop
  <2>3. CASE StealBottom(p)
    <3>1. [th[p] EXCEPT !.pc = "array"] \in ThiefState
      BY <2>1 DEF ThiefState
    <3>2. th' \in [Thief -> ThiefState]
      BY <2>1, <2>3, <3>1 DEF StealBottom
    <3>3. out' = out \/ out' = <<p, NoItem>>
      BY <2>3 DEF StealBottom
    <3> QED
      BY <2>3, <3>2, <3>3 DEF TypeOK, StealBottom
  <2>4. CASE StealArray(p)
    <3>1. [th[p] EXCEPT !.pc = "slot", !.a = mem[Array]] \in ThiefState
      BY <1>1, <2>1 DEF ThiefState
    <3> QED
      BY <2>1, <2>4, <3>1 DEF TypeOK, StealArray
  <2>5. CASE StealGet(p)
    <3>1. mem[Slot(th[p].a, th[p].t)] \in Content
      BY <1>1, SlotLocations DEF TypeOK, IsMemory
    <3>2. [th[p] EXCEPT !.pc = "cas", !.x = mem[Slot(th[p].a, th[p].t)]] \in ThiefState
      BY <2>1, <3>1 DEF ThiefState
    <3> QED
      BY <2>1, <2>5, <3>2 DEF TypeOK, StealGet
  <2>6. CASE StealCas(p)
    <3>1. th' \in [Thief -> ThiefState]
      BY <2>1, <2>6 DEF StealCas
    <3>2. th[p].x \in Content /\ th[p].t + 1 \in Nat
      BY <2>1 DEF ThiefState
    <3> QED
      BY <2>6, <3>1, <3>2 DEF TypeOK, StealCas
  <2> QED
    BY <1>15, <2>2, <2>3, <2>4, <2>5, <2>6 DEF Steal
<1>16. CASE UNCHANGED vars
  BY <1>16 DEF TypeOK, vars
<1> QED
  BY <1>3, <1>4, <1>5, <1>6, <1>7, <1>9, <1>10, <1>11, <1>12, <1>13,
     <1>14, <1>15, <1>16, <1>17 DEF Next, OwnerStep, Push, Pop

(* A store that is not of bottom leaves the buffer's view of bottom alone. *)
LEMMA BufferOtherStore ==
  ASSUME TypeOK, BufferAgrees, mem' = mem, own'[Bottom] = own[Bottom],
         Len(sb') = Len(sb) + 1,
         \A k \in 1..Len(sb) : sb'[k] = sb[k],
         sb'[Len(sb) + 1].loc # Bottom
  PROVE  BufferAgrees'
<1>1. Len(sb) \in Nat
  BY DEF TypeOK
<1>2. ASSUME NEW k \in 1..Len(sb'), sb'[k].loc = Bottom, Youngest(k)'
      PROVE  sb'[k].val = own'[Bottom]
  <2>1. k \in 1..Len(sb)
    BY <1>1, <1>2
  <2>2. sb[k].loc = Bottom /\ Youngest(k)
    BY <1>1, <1>2, <2>1 DEF Youngest
  <2> QED
    BY <2>1, <2>2 DEF BufferAgrees
<1>3. ASSUME \A k \in 1..Len(sb') : sb'[k].loc # Bottom
      PROVE  mem'[Bottom] = own'[Bottom]
  <2>1. \A k \in 1..Len(sb) : sb[k].loc # Bottom
    BY <1>1, <1>3
  <2> QED
    BY <2>1 DEF BufferAgrees
<1> QED
  BY <1>2, <1>3 DEF BufferAgrees

(* A store of bottom becomes its youngest. *)
LEMMA BufferBottomStore ==
  ASSUME TypeOK, Len(sb') = Len(sb) + 1,
         \A k \in 1..Len(sb) : sb'[k] = sb[k],
         sb'[Len(sb) + 1].loc = Bottom,
         sb'[Len(sb) + 1].val = own'[Bottom]
  PROVE  BufferAgrees'
<1>1. Len(sb) \in Nat
  BY DEF TypeOK
<1>2. ASSUME NEW k \in 1..Len(sb'), sb'[k].loc = Bottom, Youngest(k)'
      PROVE  k = Len(sb) + 1
  BY <1>1, <1>2 DEF Youngest
<1>3. Len(sb) + 1 \in 1..Len(sb')
  BY <1>1
<1> QED
  BY <1>2, <1>3 DEF BufferAgrees

(* A flush moves the oldest store of its location to memory. *)
LEMMA BufferFlush ==
  ASSUME TypeOK, BufferAgrees, own' = own, NEW k \in 1..Len(sb),
         mem'[sb[k].loc] = sb[k].val,
         Bottom # sb[k].loc => mem'[Bottom] = mem[Bottom],
         Len(sb') = Len(sb) - 1,
         \A j \in 1..(k - 1) : sb'[j] = sb[j] /\ sb[j].loc # sb[k].loc,
         \A j \in k..(Len(sb) - 1) : sb'[j] = sb[j + 1]
  PROVE  BufferAgrees'
<1>1. Len(sb) \in Nat
  BY DEF TypeOK
<1>2. ASSUME NEW j \in 1..Len(sb'), sb'[j].loc = Bottom, Youngest(j)'
      PROVE  sb'[j].val = own'[Bottom]
  <2>1. CASE j < k
    <3>1. sb'[j] = sb[j] /\ sb[j].loc # sb[k].loc /\ j \in 1..Len(sb)
      BY <1>1, <2>1
    <3>2. ASSUME NEW i \in 1..Len(sb), i > j
          PROVE  sb[i].loc # Bottom
      <4>1. CASE i = k
        BY <1>2, <3>1, <4>1
      <4>2. CASE i < k
        BY <1>1, <1>2, <3>2, <4>2 DEF Youngest
      <4>3. CASE i > k
        <5>1. i - 1 \in k..(Len(sb) - 1) /\ i - 1 \in 1..Len(sb') /\ i - 1 > j
              /\ (i - 1) + 1 = i
          BY <1>1, <2>1, <4>3
        <5>2. sb'[i - 1] = sb[(i - 1) + 1] /\ sb'[i - 1].loc # sb'[j].loc
          BY <1>2, <5>1 DEF Youngest
        <5> QED
          BY <1>2, <5>1, <5>2
      <4> QED
        BY <4>1, <4>2, <4>3
    <3> QED
      BY <1>2, <3>1, <3>2 DEF BufferAgrees, Youngest
  <2>2. CASE j >= k
    <3>1. j \in k..(Len(sb) - 1) /\ j + 1 \in 1..Len(sb)
      BY <1>1, <2>2
    <3>2. sb'[j] = sb[j + 1]
      BY <3>1
    <3>3. ASSUME NEW i \in 1..Len(sb), i > j + 1
          PROVE  sb[i].loc # Bottom
      <4>1. i - 1 \in k..(Len(sb) - 1) /\ i - 1 \in 1..Len(sb') /\ i - 1 > j
            /\ (i - 1) + 1 = i
        BY <1>1, <2>2, <3>3
      <4>2. sb'[i - 1] = sb[(i - 1) + 1] /\ sb'[i - 1].loc # sb'[j].loc
        BY <1>2, <4>1 DEF Youngest
      <4> QED
        BY <1>2, <4>1, <4>2
    <3> QED
      BY <1>2, <3>1, <3>2, <3>3 DEF BufferAgrees, Youngest
  <2> QED
    BY <2>1, <2>2
<1>3. ASSUME \A j \in 1..Len(sb') : sb'[j].loc # Bottom
      PROVE  mem'[Bottom] = own'[Bottom]
  <2>1. ASSUME NEW i \in 1..Len(sb), i # k
        PROVE  sb[i].loc # Bottom
    <3>1. CASE i < k
      <4>1. i \in 1..(k - 1) /\ i \in 1..Len(sb')
        BY <1>1, <3>1
      <4>2. sb'[i] = sb[i]
        BY <1>1, <4>1
      <4> QED
        BY <1>3, <4>1, <4>2
    <3>2. CASE i > k
      <4>1. i - 1 \in k..(Len(sb) - 1) /\ i - 1 \in 1..Len(sb') /\ (i - 1) + 1 = i
        BY <1>1, <3>2
      <4>2. sb'[i - 1] = sb[(i - 1) + 1]
        BY <1>1, <4>1
      <4>3. sb[i].loc = sb'[i - 1].loc
        BY <4>1, <4>2
      <4> QED
        BY <1>3, <4>1, <4>3
    <3> QED
      BY <2>1, <3>1, <3>2
  <2>2. CASE sb[k].loc = Bottom
    BY <2>1, <2>2 DEF BufferAgrees, Youngest
  <2>3. CASE sb[k].loc # Bottom
    BY <2>1, <2>3 DEF BufferAgrees
  <2> QED
    BY <2>2, <2>3
<1> QED
  BY <1>2, <1>3 DEF BufferAgrees

(* A store keeps IndexSafe when what it stores is within the new logical   *)
(* bottom, which does not lie before the old one.                          *)
LEMMA IndexSafeStore ==
  ASSUME TypeOK, IndexSafe, mem' = mem, th' = th,
         LogicalBottom \in Int, LogicalBottom' \in Int,
         LogicalBottom <= LogicalBottom',
         top' \in Nat, top <= top', top' <= LogicalBottom',
         top' # top => \A p \in Thief : th[p].t # top',
         Len(sb') = Len(sb) + 1,
         \A k \in 1..Len(sb) : sb'[k] = sb[k],
         sb'[Len(sb) + 1].loc = Bottom
           => sb'[Len(sb) + 1].val \in Int /\ sb'[Len(sb) + 1].val <= LogicalBottom'
  PROVE  IndexSafe'
<1>1. /\ mem[Bottom] \in Int /\ top \in Nat /\ Len(sb) \in Nat
      /\ \A p \in Thief : th[p].t \in Int
  BY DEF TypeOK, OwnerState, ThiefState, IsMemory
<1>2. \A k \in 1..Len(sb) : sb[k].loc = Bottom => sb[k].val \in Int
  BY LocationsDiffer DEF TypeOK, PendingStores
<1>3. mem'[Bottom] <= LogicalBottom'
  BY <1>1 DEF IndexSafe
<1>4. ASSUME NEW k \in 1..Len(sb'), sb'[k].loc = Bottom
      PROVE  sb'[k].val <= LogicalBottom'
  <2>1. CASE k \in 1..Len(sb)
    <3>1. sb[k].val <= LogicalBottom /\ sb[k].val \in Int /\ sb'[k] = sb[k]
      BY <1>2, <1>4, <2>1 DEF IndexSafe
    <3> QED
      BY <3>1
  <2>2. CASE k = Len(sb) + 1
    BY <1>4, <2>2
  <2> QED
    BY <1>1, <2>1, <2>2
<1>5. ASSUME NEW p \in Thief, th'[p].pc \in {"array", "slot", "cas"}, th'[p].t = top'
      PROVE  th'[p].t < LogicalBottom'
  BY <1>1, <1>5 DEF IndexSafe
<1> QED
  BY <1>3, <1>4, <1>5 DEF IndexSafe

(* Steps that leave the owner and the shared indices alone. *)
LEMMA IndexSafeThief ==
  ASSUME TypeOK, LocalsAgree, BufferAgrees, IndexSafe,
         UNCHANGED <<mem, own, sb, ow>>,
         top' \in Nat, top <= top', top' <= LogicalBottom,
         \A p \in Thief : th'[p].t <= top',
         \A p \in Thief :
           th'[p].pc \in {"array", "slot", "cas"} /\ th'[p].t = top'
             => th'[p].t < LogicalBottom
  PROVE  IndexInv'
<1>1. LogicalBottom' = LogicalBottom
  BY DEF LogicalBottom
<1>2. LocalsAgree'
  BY DEF LocalsAgree
<1>3. BufferAgrees'
  BY DEF BufferAgrees, Youngest
<1>4. IndexSafe'
  BY <1>1 DEF IndexSafe
<1> QED
  BY <1>2, <1>3, <1>4 DEF IndexInv

(* Where the logical bottom lies before and after each kind of step. *)
LEMMA IndexStep == IInv /\ [Next]_vars => IndexInv'
<1> SUFFICES ASSUME TypeOK, LocalsAgree, BufferAgrees, IndexSafe, [Next]_vars
             PROVE  IndexInv'
  BY DEF IInv, IndexInv
<1>1. /\ own[Bottom] \in Int /\ own[Array] \in Sizes /\ mem[Bottom] \in Int
      /\ Sizes \subseteq Nat /\ top \in Nat /\ Len(sb) \in Nat
      /\ ow.b \in Int /\ ow.t \in Int /\ ow.i \in Int
      /\ \A p \in Thief : th[p].a \in Sizes /\ th[p].t \in Int
  BY DEF TypeOK, OwnerState, ThiefState, IsMemory
<1>2. /\ LogicalBottom \in Int /\ top <= LogicalBottom /\ mem[Bottom] <= LogicalBottom
      /\ \A p \in Thief : th[p].t <= top
  BY <1>1 DEF LogicalBottom, IndexSafe, LocalsAgree
<1>3. \A k \in 1..Len(sb) : sb[k].loc = Bottom => sb[k].val \in Int
  BY LocationsDiffer DEF TypeOK, PendingStores
<1>4. /\ ow.b + 1 \in Int /\ own[Bottom] - 1 \in Int
      /\ TRUE \in BOOLEAN /\ FALSE \in BOOLEAN
  BY <1>1
<1>5. CASE \E x \in Item : PushLoad(x)
  <2>1. UNCHANGED <<mem, own, sb, top, th>> /\ ow.pc = "idle"
    BY <1>5 DEF PushLoad
  <2>2. /\ ow'.pc \in {"grow", "put"} /\ ow'.b = own[Bottom] /\ ow'.x \in Item
        /\ ow'.pc = "grow" => 2 * own[Array] \in Sizes
    BY <1>5 DEF PushLoad
  <2>3. LocalsAgree'
    BY <2>1, <2>2 DEF LocalsAgree
  <2>4. LogicalBottom' = LogicalBottom
    BY <2>1, <2>2 DEF LogicalBottom
  <2> QED
    BY <2>1, <2>3, <2>4 DEF IndexInv, BufferAgrees, Youngest, IndexSafe
<1>6. CASE GrowCopy
  <2>1. own[Slot(own[Array], ow.i)] \in Content
    BY <1>1, SlotLocations DEF TypeOK, IsMemory
  <2>2. /\ own'[Bottom] = own[Bottom] /\ own'[Array] = own[Array]
        /\ Len(sb') = Len(sb) + 1
        /\ \A k \in 1..Len(sb) : sb'[k] = sb[k]
        /\ sb'[Len(sb) + 1].loc # Bottom
    BY <1>1, <1>6, <2>1, StoreSlot DEF GrowCopy, LocalsAgree
  <2>3. UNCHANGED <<mem, top, th>> /\ ow' = [ow EXCEPT !.i = @ + 1] /\ ow.pc = "grow"
    BY <1>6 DEF GrowCopy
  <2>4. /\ ow'.pc = ow.pc /\ ow'.b = ow.b /\ ow'.x = ow.x
        /\ LogicalBottom' = LogicalBottom
    BY <2>2, <2>3 DEF TypeOK, OwnerState, LogicalBottom
  <2>5. LocalsAgree'
    BY <2>2, <2>3, <2>4 DEF LocalsAgree
  <2>6. BufferAgrees'
    BY <2>2, <2>3, BufferOtherStore
  <2>7. IndexSafe'
    BY <1>1, <1>2, <2>2, <2>3, <2>4, IndexSafeStore
  <2> QED
    BY <2>5, <2>6, <2>7 DEF IndexInv
<1>7. CASE GrowPublish
  <2>1. 2 * own[Array] \in Sizes
    BY <1>7 DEF GrowPublish, LocalsAgree
  <2>2. /\ own'[Bottom] = own[Bottom]
        /\ Len(sb') = Len(sb) + 1
        /\ \A k \in 1..Len(sb) : sb'[k] = sb[k]
        /\ sb'[Len(sb) + 1].loc # Bottom
    BY <1>7, <2>1, StoreArray DEF GrowPublish
  <2>3. UNCHANGED <<mem, top, th>> /\ ow' = [ow EXCEPT !.pc = "put"] /\ ow.pc = "grow"
    BY <1>7 DEF GrowPublish
  <2>4. /\ ow'.pc = "put" /\ ow'.b = ow.b /\ ow'.x = ow.x
        /\ LogicalBottom' = LogicalBottom
    BY <2>2, <2>3 DEF TypeOK, OwnerState, LogicalBottom
  <2>5. LocalsAgree'
    BY <2>2, <2>3, <2>4 DEF LocalsAgree
  <2>6. BufferAgrees'
    BY <2>2, <2>3, BufferOtherStore
  <2>7. IndexSafe'
    BY <1>1, <1>2, <2>2, <2>3, <2>4, IndexSafeStore
  <2> QED
    BY <2>5, <2>6, <2>7 DEF IndexInv
<1>8. CASE PushPut
  <2>1. ow.x \in Content
    BY <1>8 DEF PushPut, LocalsAgree, Content
  <2>2. /\ own'[Bottom] = own[Bottom]
        /\ Len(sb') = Len(sb) + 1
        /\ \A k \in 1..Len(sb) : sb'[k] = sb[k]
        /\ sb'[Len(sb) + 1].loc # Bottom
    BY <1>1, <1>8, <2>1, StoreSlot DEF PushPut
  <2>3. UNCHANGED <<mem, top, th>> /\ ow' = [ow EXCEPT !.pc = "publish"] /\ ow.pc = "put"
    BY <1>8 DEF PushPut
  <2>4. /\ ow'.pc = "publish" /\ ow'.b = ow.b /\ ow'.x = ow.x
        /\ LogicalBottom' = LogicalBottom
    BY <2>2, <2>3 DEF TypeOK, OwnerState, LogicalBottom
  <2>5. LocalsAgree'
    BY <2>2, <2>3, <2>4 DEF LocalsAgree
  <2>6. BufferAgrees'
    BY <2>2, <2>3, BufferOtherStore
  <2>7. IndexSafe'
    BY <1>1, <1>2, <2>2, <2>3, <2>4, IndexSafeStore
  <2> QED
    BY <2>5, <2>6, <2>7 DEF IndexInv
<1>9. ASSUME NEW r \in BOOLEAN, Store(Bottom, ow.b + 1, r), ow' = OwnerIdle,
             UNCHANGED <<mem, th>>, ow.pc # "idle",
             top' \in Nat, top <= top', top' <= ow.b + 1, LogicalBottom <= ow.b + 1,
             top' # top => \A p \in Thief : th[p].t # top'
      PROVE  IndexInv'
  <2>1. /\ own'[Bottom] = ow.b + 1
        /\ Len(sb') = Len(sb) + 1
        /\ \A k \in 1..Len(sb) : sb'[k] = sb[k]
        /\ sb'[Len(sb) + 1].loc = Bottom /\ sb'[Len(sb) + 1].val = ow.b + 1
    BY <1>4, <1>9, StoreBottom, Zenon
  <2>2. ow'.pc = "idle" /\ LogicalBottom' = ow.b + 1
    BY <1>9, <2>1 DEF OwnerIdle, LogicalBottom
  <2>3. LocalsAgree'
    BY <1>1, <1>2, <1>9, <2>2 DEF LocalsAgree
  <2>4. BufferAgrees'
    BY <2>1, BufferBottomStore
  <2>5. IndexSafe'
    BY <1>1, <1>2, <1>4, <1>9, <2>1, <2>2, IndexSafeStore
  <2> QED
    BY <2>3, <2>4, <2>5 DEF IndexInv
<1>10. CASE PushPublish
  <2>1. /\ Store(Bottom, ow.b + 1, TRUE) /\ ow' = OwnerIdle
        /\ UNCHANGED <<mem, top, th>> /\ ow.pc = "publish"
    BY <1>10, Zenon DEF PushPublish
  <2>2. LogicalBottom = ow.b
    BY <2>1 DEF LogicalBottom, LocalsAgree
  <2>3. /\ top' \in Nat /\ top <= top' /\ top' <= ow.b + 1 /\ LogicalBottom <= ow.b + 1
        /\ top' = top /\ ow.pc # "idle"
    BY <1>1, <1>2, <2>1, <2>2
  <2> QED
    BY <1>4, <1>9, <2>1, <2>3, Zenon
<1>11. CASE PopDecrement
  <2>1. /\ own'[Bottom] = own[Bottom] - 1
        /\ Len(sb') = Len(sb) + 1
        /\ \A k \in 1..Len(sb) : sb'[k] = sb[k]
        /\ sb'[Len(sb) + 1].loc = Bottom /\ sb'[Len(sb) + 1].val = own[Bottom] - 1
    BY <1>4, <1>11, StoreBottom, Zenon DEF PopDecrement
  <2>2. /\ UNCHANGED <<mem, top, th>> /\ ow.pc = "idle"
        /\ ow'.pc = "popTop" /\ ow'.b = own[Bottom] - 1
    BY <1>11 DEF PopDecrement, OwnerIdle
  <2>3. LogicalBottom' = LogicalBottom
    BY <1>1, <2>1, <2>2 DEF LogicalBottom
  <2>4. LocalsAgree'
    BY <2>1, <2>2 DEF LocalsAgree
  <2>5. BufferAgrees'
    BY <2>1, BufferBottomStore
  <2>6. LogicalBottom = own[Bottom]
    BY <2>2 DEF LogicalBottom
  <2>7. IndexSafe'
    BY <1>1, <1>2, <1>4, <2>1, <2>2, <2>3, <2>6, IndexSafeStore
  <2> QED
    BY <2>4, <2>5, <2>7 DEF IndexInv
<1>12. CASE PopTake
  <2>1. /\ UNCHANGED <<mem, own, sb, top, th>> /\ ow' = OwnerIdle
        /\ ow.pc = "popTop" /\ sb = <<>> /\ top < ow.b /\ ow.b = own[Bottom]
    BY <1>12 DEF PopTake, FencePassed, LocalsAgree
  <2>2. Len(sb) = 0 /\ mem[Bottom] = own[Bottom]
    BY <2>1 DEF BufferAgrees
  <2>3. LogicalBottom' = ow.b
    BY <2>1 DEF LogicalBottom, OwnerIdle
  <2>4. LocalsAgree'
    BY <1>2, <2>1 DEF LocalsAgree, OwnerIdle
  <2>5. IndexSafe'
    BY <1>1, <1>2, <2>1, <2>2, <2>3 DEF IndexSafe
  <2> QED
    BY <2>1, <2>4, <2>5 DEF IndexInv, BufferAgrees, Youngest
<1>13. CASE PopLast
  <2>1. /\ UNCHANGED <<mem, own, sb, top, th>> /\ ow.pc = "popTop" /\ top = ow.b
        /\ ow'.pc = "popCas" /\ ow'.t = top /\ ow'.b = ow.b
    BY <1>13 DEF PopLast, TypeOK, OwnerState
  <2>2. LogicalBottom' = LogicalBottom
    BY <2>1 DEF LogicalBottom
  <2>3. LocalsAgree'
    BY <2>1 DEF LocalsAgree
  <2> QED
    BY <2>1, <2>2, <2>3 DEF IndexInv, BufferAgrees, Youngest, IndexSafe
<1>14. CASE PopEmpty
  <2>1. /\ Store(Bottom, ow.b + 1, FALSE) /\ ow' = OwnerIdle
        /\ UNCHANGED <<mem, top, th>> /\ ow.pc = "popTop"
    BY <1>14, Zenon DEF PopEmpty
  <2>2. LogicalBottom = ow.b + 1
    BY <2>1 DEF LogicalBottom, LocalsAgree
  <2>3. /\ top' \in Nat /\ top <= top' /\ top' <= ow.b + 1 /\ LogicalBottom <= ow.b + 1
        /\ top' = top /\ ow.pc # "idle"
    BY <1>1, <1>2, <2>1, <2>2
  <2> QED
    BY <1>4, <1>9, <2>1, <2>3, Zenon
<1>15. CASE PopCas
  <2>1. /\ Store(Bottom, ow.b + 1, FALSE) /\ ow' = OwnerIdle
        /\ UNCHANGED <<mem, th>> /\ ow.pc = "popCas"
    BY <1>15, Zenon DEF PopCas
  <2>2. LogicalBottom = ow.b + 1
    BY <2>1 DEF LogicalBottom, LocalsAgree
  <2>3. top' = top \/ (top = ow.b /\ top' = ow.b + 1)
    BY <1>15 DEF PopCas, LocalsAgree
  <2>4. /\ top' \in Nat /\ top <= top' /\ top' <= ow.b + 1 /\ LogicalBottom <= ow.b + 1
        /\ top' # top => \A p \in Thief : th[p].t # top'
        /\ ow.pc # "idle"
    BY <1>1, <1>2, <2>1, <2>2, <2>3
  <2> QED
    BY <1>4, <1>9, <2>1, <2>4, Zenon
<1>16. CASE Empty
  BY <1>16 DEF Empty, IndexInv, LocalsAgree, BufferAgrees, Youngest, IndexSafe, LogicalBottom
<1>17. CASE Flush
  <2>1. PICK k \in 1..Len(sb) :
          /\ MayLeave(k)
          /\ mem' = [mem EXCEPT ![sb[k].loc] = sb[k].val]
          /\ sb' = RemoveAt(sb, k)
          /\ UNCHANGED <<own, top, ow, th, out>>
    BY <1>17 DEF Flush
  <2>2. /\ mem'[sb[k].loc] = sb[k].val
        /\ \A l \in Loc : l # sb[k].loc => mem'[l] = mem[l]
        /\ Len(sb') = Len(sb) - 1
        /\ \A j \in 1..(k - 1) : sb'[j] = sb[j] /\ sb[j].loc # sb[k].loc
        /\ \A j \in k..(Len(sb) - 1) : sb'[j] = sb[j + 1]
    BY <2>1, FlushEffect
  <2>3. Bottom # sb[k].loc => mem'[Bottom] = mem[Bottom]
    BY <2>2, LocationsDiffer
  <2>4. BufferAgrees'
    BY <2>1, <2>2, <2>3, BufferFlush
  <2>5. LogicalBottom' = LogicalBottom
    BY <2>1 DEF LogicalBottom
  <2>6. mem'[Bottom] <= LogicalBottom
    <3>1. CASE sb[k].loc = Bottom
      BY <2>2, <3>1 DEF IndexSafe
    <3> QED
      BY <1>2, <2>3, <3>1
  <2>7. ASSUME NEW j \in 1..Len(sb'), sb'[j].loc = Bottom
        PROVE  sb'[j].val <= LogicalBottom
    <3>1. CASE j < k
      <4>1. sb'[j] = sb[j] /\ j \in 1..Len(sb)
        BY <1>1, <2>2, <3>1
      <4> QED
        BY <2>7, <4>1 DEF IndexSafe
    <3>2. CASE j >= k
      <4>1. sb'[j] = sb[j + 1] /\ j + 1 \in 1..Len(sb)
        BY <1>1, <2>2, <3>2
      <4> QED
        BY <2>7, <4>1 DEF IndexSafe
    <3> QED
      BY <3>1, <3>2
  <2>8. IndexSafe'
    BY <2>1, <2>5, <2>6, <2>7 DEF IndexSafe
  <2>9. LocalsAgree'
    BY <2>1 DEF LocalsAgree
  <2> QED
    BY <2>4, <2>8, <2>9 DEF IndexInv
<1>18. ASSUME NEW p \in Thief, Steal(p)
       PROVE  IndexInv'
  <2>1. th \in [Thief -> ThiefState] /\ UNCHANGED <<mem, own, sb, ow>>
    BY <1>18 DEF TypeOK, Steal, StealTop, StealBottom, StealArray, StealGet, StealCas
  <2>2. ThiefIdle.pc = "idle" /\ ThiefIdle.t = 0
    BY DEF ThiefIdle
  <2>3. CASE StealTop(p)
    <3>1. /\ top' = top /\ th'[p].pc = "bottom" /\ th'[p].t = top
          /\ \A q \in Thief \ {p} : th'[q] = th[q]
      BY <2>1, <2>3 DEF StealTop, ThiefIdle
    <3>2. /\ top' \in Nat /\ top <= top' /\ top' <= LogicalBottom
      BY <1>1, <1>2, <3>1 DEF IndexSafe
    <3>3. \A q \in Thief :
            /\ th'[q].t <= top'
            /\ th'[q].pc \in {"array", "slot", "cas"} /\ th'[q].t = top'
                 => th'[q].t < LogicalBottom
      BY <1>1, <1>2, <2>1, <3>1, SMTT(30) DEF IndexSafe
    <3> QED
      BY <1>1, <1>2, <2>1, <3>2, <3>3, IndexSafeThief
  <2>4. CASE StealBottom(p)
    <3>1. /\ top' = top
          /\ \A q \in Thief \ {p} : th'[q] = th[q]
          /\ \/ th'[p].t = th[p].t /\ th[p].t < mem[Bottom]
             \/ th'[p].t = 0 /\ th'[p].pc = "idle"
      BY <2>1, <2>2, <2>4 DEF StealBottom, ThiefState
    <3>2. /\ top' \in Nat /\ top <= top' /\ top' <= LogicalBottom
      BY <1>1, <1>2, <3>1 DEF IndexSafe
    <3>3. \A q \in Thief :
            /\ th'[q].t <= top'
            /\ th'[q].pc \in {"array", "slot", "cas"} /\ th'[q].t = top'
                 => th'[q].t < LogicalBottom
      BY <1>1, <1>2, <2>1, <3>1, SMTT(30) DEF IndexSafe
    <3> QED
      BY <1>1, <1>2, <2>1, <3>2, <3>3, IndexSafeThief
  <2>5. CASE StealArray(p) \/ StealGet(p)
    <3>1. /\ top' = top
          /\ \A q \in Thief \ {p} : th'[q] = th[q]
          /\ th[p].pc \in {"array", "slot", "cas"}
      BY <2>1, <2>5 DEF StealArray, StealGet
    <3>2. th'[p].t = th[p].t
      <4> DEFINE v == mem[Slot(th[p].a, th[p].t)]
      <4>1. \/ th'[p] = [th[p] EXCEPT !.pc = "slot", !.a = mem[Array]]
            \/ th'[p] = [th[p] EXCEPT !.pc = "cas", !.x = v]
        BY <2>1, <2>5 DEF StealArray, StealGet
      <4> HIDE DEF v
      <4> QED
        BY <2>1, <4>1 DEF ThiefState
    <3> QED
      BY <1>1, <1>2, <2>1, <3>1, <3>2, IndexSafeThief DEF IndexSafe
  <2>6. CASE StealCas(p)
    <3>1. /\ th[p].pc = "cas"
          /\ \A q \in Thief \ {p} : th'[q] = th[q]
          /\ th'[p].t = 0 /\ th'[p].pc = "idle"
          /\ top' = top \/ (top = th[p].t /\ top' = top + 1)
      BY <2>1, <2>2, <2>6 DEF StealCas
    <3>2. top' \in Nat /\ top <= top' /\ top' <= LogicalBottom
      BY <1>1, <1>2, <3>1 DEF IndexSafe
    <3>3. ASSUME NEW q \in Thief
          PROVE  /\ th'[q].t <= top'
                 /\ th'[q].pc \in {"array", "slot", "cas"} /\ th'[q].t = top'
                      => th'[q].t < LogicalBottom
      <4>1. CASE q = p
        BY <3>1, <3>2, <4>1
      <4>2. CASE q # p
        BY <1>1, <1>2, <3>1, <3>2, <4>2 DEF IndexSafe
      <4> QED
        BY <4>1, <4>2
    <3> QED
      BY <2>1, <3>2, <3>3, IndexSafeThief
  <2> QED
    BY <1>18, <2>3, <2>4, <2>5, <2>6 DEF Steal
<1>19. CASE UNCHANGED vars
  BY <1>19 DEF vars, IndexInv, LocalsAgree, BufferAgrees, Youngest, IndexSafe, LogicalBottom
<1> QED
  BY <1>5, <1>6, <1>7, <1>8, <1>10, <1>11, <1>12, <1>13, <1>14, <1>15, <1>16,
     <1>17, <1>18, <1>19 DEF Next, OwnerStep, Push, Pop

-----------------------------------------------------------------------------
(* The inductive invariant holds in every reachable state. *)
LEMMA IInvInvariant == Spec => []IInv
<1>1. IInv /\ [Next]_vars => IInv'
  BY TypeStep, IndexStep DEF IInv
<1> QED
  BY IInvInit, <1>1, PTL DEF Spec

(* Every variable keeps its type, in every reachable state. *)
THEOREM TypeCorrect == Spec => []TypeOK
<1>1. IInv => TypeOK
  BY DEF IInv
<1> QED
  BY IInvInvariant, <1>1, PTL

(* The indices are safe in every reachable state: top never passes the     *)
(* logical bottom, no bottom that a thief can read lies beyond it, and a   *)
(* thief about to win wins an index that is still in the deque -- for any  *)
(* number of thieves and whether or not stores may be reordered.           *)
THEOREM IndexSafety == Spec => []IndexSafe
<1>1. IInv => IndexSafe
  BY DEF IInv, IndexInv
<1> QED
  BY IInvInvariant, <1>1, PTL

(* What makes the indices safe: the locals of a call in progress agree     *)
(* with the words they were read from, and the youngest pending store of   *)
(* bottom is the owner's view of it, so that pop, once past its fence,     *)
(* knows that every thief sees the lowered bottom.                         *)
THEOREM IndicesAgree == Spec => []IndexInv
<1>1. IInv => IndexInv
  BY DEF IInv
<1> QED
  BY IInvInvariant, <1>1, PTL

-----------------------------------------------------------------------------
(* Memory as a thief finds it, now or after some stores have left the      *)
(* buffer: view k is mem with the first k pending stores made.  Seen(k, l) *)
(* holds the one value that location l has in view k.                      *)
LastStores(k, l) ==
  {i \in 1..k : sb[i].loc = l /\ \A m \in 1..k : m > i => sb[m].loc # l}

Seen(k, l) ==
       {sb[j].val : j \in LastStores(k, l)}
  \cup {v \in {mem[l]} : \A m \in 1..k : sb[m].loc # l}

(* The item of index i, in the array that the owner uses. *)
ItemAt(i) == own[Slot(own[Array], i)]

(* Whoever reads the array in view m or later and a slot in it later still *)
(* finds the item of index i. *)
Kept(m, i) ==
  \A k \in m..Len(sb) : \A j \in k..Len(sb) :
    \A n \in Seen(k, Array) : \A x \in Seen(j, Slot(n, i)) : x = ItemAt(i)

(* The last view is the owner's. *)
OwnerSees == \A l \in Loc : own[l] \in Seen(Len(sb), l)

ArraysGrow == \A k \in 0..Len(sb) : \A n \in Seen(k, Array) : n <= own[Array]

(* Once a view shows that there is an item, the item is there to be read. *)
VisibleKept ==
  \A m \in 0..Len(sb) : \A b \in Seen(m, Bottom) : \A i \in top..(b - 1) : Kept(m, i)

(* What a thief that may still win has read, and what it will read. *)
ThievesHold ==
  \A p \in Thief : th[p].t = top =>
    /\ th[p].pc = "array" => Kept(0, top)
    /\ th[p].pc = "slot" =>
         /\ th[p].a <= own[Array]
         /\ \A j \in 0..Len(sb) : \A x \in Seen(j, Slot(th[p].a, top)) : x = ItemAt(top)
    /\ th[p].pc = "cas" => th[p].x = ItemAt(top)

(* push writes no slot that is in use; what grow has copied so far. *)
PushHasRoom ==
  /\ LogicalBottom - top <= own[Array]
  /\ ow.t <= top
  /\ ow.pc = "grow" =>
       /\ ow.b - ow.t <= own[Array] /\ ow.t <= ow.i /\ ow.i <= ow.b
       /\ \A i \in ow.t..(ow.i - 1) : own[Slot(2 * own[Array], i)] = ItemAt(i)
  /\ ow.pc \in {"put", "publish"} => ow.b - top < own[Array]
  /\ ow.pc = "publish" => ItemAt(ow.b) = ow.x

ViewInv == OwnerSees /\ ArraysGrow /\ VisibleKept /\ ThievesHold /\ PushHasRoom

(* A step that leaves every item of the deque where the owner finds it. *)
ItemsStay ==
  /\ top' = top /\ LogicalBottom' = LogicalBottom
  /\ \A i \in top..(LogicalBottom - 1) : ItemAt(i)' = ItemAt(i)

-----------------------------------------------------------------------------
(* Lemmas about slots and views.                                           *)

(* Indices less than n apart have different slots in an array of size n. *)
LEMMA SlotsDiffer ==
  ASSUME NEW n \in Sizes, NEW i \in Int, NEW j \in Int, i < j, j - i < n
  PROVE  Slot(n, i) # Slot(n, j)
<1>1. n \in Nat \ {0}
  OBVIOUS
<1> DEFINE p == i \div n
           q == j \div n
<1>2. /\ p \in Int /\ i % n = i - n * p
      /\ q \in Int /\ j % n = j - n * q
  <2>1. p \in Int /\ q \in Int
    BY <1>1
  <2>2. i % n = i - n * p
    BY <1>1, Z3
  <2>3. j % n = j - n * q
    BY <1>1, Z3
  <2> QED
    BY <2>1, <2>2, <2>3
<1> HIDE DEF p, q
<1>4. i % n # j % n
  <2> SUFFICES ASSUME i % n = j % n PROVE FALSE
    OBVIOUS
  <2>1. n * p \in Int /\ n * q \in Int /\ i - n * p = j - n * q
    BY <1>1, <1>2
  <2>2. n * q - n * p = n * (q - p)
    BY <1>1, <1>2, Z3
  <2>3. j - i = n * q - n * p
    BY <2>1
  <2> DEFINE d == q - p
  <2>4. d \in Int /\ n * d > 0 /\ n * d < n
    BY <1>1, <1>2, <2>2, <2>3
  <2> HIDE DEF d
  <2> QED
    BY <1>1, <2>4, Z3
<1> QED
  BY <1>4 DEF Slot

(* So have all indices in arrays of different sizes. *)
LEMMA ArraysDiffer ==
  ASSUME NEW n, NEW m, n # m, NEW i, NEW j
  PROVE  Slot(n, i) # Slot(m, j)
  BY DEF Slot

(* What it means to see v: the youngest of the stores made, or else what   *)
(* memory held. *)
LEMMA SeenMeans ==
  ASSUME NEW k, NEW l, NEW v
  PROVE  /\ v \in Seen(k, l) <=>
              \/ \E i \in 1..k : /\ v = sb[i].val /\ sb[i].loc = l
                               /\ \A m \in 1..k : m > i => sb[m].loc # l
              \/ v = mem[l] /\ \A m \in 1..k : sb[m].loc # l
         /\ v \in Seen(k, l)' <=>
              \/ \E i \in 1..k : /\ v = sb'[i].val /\ sb'[i].loc = l
                               /\ \A m \in 1..k : m > i => sb'[m].loc # l
              \/ v = mem'[l] /\ \A m \in 1..k : sb'[m].loc # l
  BY DEF Seen, LastStores

(* A location has one value in a view. *)
LEMMA SeenUnique ==
  ASSUME NEW k \in Nat, NEW l, NEW v \in Seen(k, l), NEW w \in Seen(k, l)
  PROVE  v = w
  BY DEF Seen, LastStores

(* View 0 is the memory. *)
LEMMA SeenNow ==
  ASSUME NEW l
  PROVE  mem[l] \in Seen(0, l)
  BY DEF Seen, LastStores

(* What is seen has the type of its location, and no bottom that is seen   *)
(* lies beyond the logical one. *)
LEMMA SeenTyped ==
  ASSUME IInv, NEW k \in 0..Len(sb)
  PROVE  /\ \A n \in Seen(k, Array) : n \in Sizes
         /\ \A b \in Seen(k, Bottom) : b \in Int /\ b <= LogicalBottom
<1>1. /\ Len(sb) \in Nat /\ mem[Array] \in Sizes /\ mem[Bottom] \in Int
      /\ mem[Bottom] <= LogicalBottom
  BY DEF IInv, IndexInv, TypeOK, IsMemory, IndexSafe
<1>2. ASSUME NEW j \in 1..Len(sb)
      PROVE  /\ sb[j].loc = Array => sb[j].val \in Sizes
             /\ sb[j].loc = Bottom => sb[j].val \in Int /\ sb[j].val <= LogicalBottom
  <2>1. sb[j] \in PendingStores
    BY DEF IInv, TypeOK
  <2> QED
    BY <2>1, LocationsDiffer DEF PendingStores, IInv, IndexInv, IndexSafe
<1>3. \A j \in 1..k : j \in 1..Len(sb)
  BY <1>1
<1> QED
  BY <1>1, <1>2, <1>3 DEF Seen, LastStores

(* A store adds a view after the last one. *)
LEMMA SeenStore ==
  ASSUME TypeOK, mem' = mem, NEW l, NEW v, NEW r, Store(l, v, r)
  PROVE  /\ \A k \in 0..Len(sb) : \A m : Seen(k, m)' = Seen(k, m)
         /\ \A k \in Nat : k = Len(sb) + 1 =>
              /\ Seen(k, l)' = {v}
              /\ \A m : m # l => Seen(k, m)' = Seen(Len(sb), m)
<1>1. /\ Len(sb) \in Nat /\ Len(sb') = Len(sb) + 1
      /\ \A j \in 1..Len(sb) : sb'[j] = sb[j]
      /\ sb'[Len(sb) + 1].loc = l /\ sb'[Len(sb) + 1].val = v
  BY DEF TypeOK, Store
<1>2. ASSUME NEW k \in 0..Len(sb), NEW m
      PROVE  Seen(k, m)' = Seen(k, m)
  <2>1. \A j \in 1..k : sb'[j] = sb[j]
    BY <1>1
  <2>2. LastStores(k, m)' = LastStores(k, m)
    BY <2>1 DEF LastStores
  <2>3. \A j \in LastStores(k, m) : j \in 1..k
    BY DEF LastStores
  <2>4. {sb'[j].val : j \in LastStores(k, m)} = {sb[j].val : j \in LastStores(k, m)}
    BY <2>1, <2>3
  <2> QED
    BY <2>1, <2>2, <2>4 DEF Seen
<1>3. ASSUME NEW k \in Nat, k = Len(sb) + 1
      PROVE  Seen(k, l)' = {v}
  <2>1. k \in 1..k /\ sb'[k].loc = l /\ sb'[k].val = v
    BY <1>1, <1>3
  <2>2. LastStores(k, l)' = {k}
    BY <2>1 DEF LastStores
  <2>3. {x \in {mem'[l]} : \A m \in 1..k : sb'[m].loc # l} = {}
    BY <2>1
  <2> QED
    BY <2>1, <2>2, <2>3 DEF Seen
<1>4. ASSUME NEW k \in Nat, k = Len(sb) + 1, NEW m, m # l
      PROVE  Seen(k, m)' = Seen(Len(sb), m)
  <2>1. /\ sb'[k].loc # m /\ k \notin 1..Len(sb) /\ 1..k = 1..Len(sb) \cup {k}
        /\ \A i \in 1..Len(sb) : i < k
    BY <1>1, <1>4
  <2>2. ASSUME NEW i \in 1..Len(sb)
        PROVE  (\A j \in 1..k : j > i => sb'[j].loc # m)
                 <=> (\A j \in 1..Len(sb) : j > i => sb[j].loc # m)
    BY <1>1, <2>1
  <2>3. LastStores(k, m)' = LastStores(Len(sb), m)
    BY <1>1, <2>1, <2>2 DEF LastStores
  <2>4. (\A j \in 1..k : sb'[j].loc # m) <=> (\A j \in 1..Len(sb) : sb[j].loc # m)
    BY <1>1, <2>1
  <2>5. \A j \in LastStores(Len(sb), m) : sb'[j].val = sb[j].val
    BY <1>1 DEF LastStores
  <2> QED
    BY <2>3, <2>4, <2>5 DEF Seen
<1> QED
  BY <1>2, <1>3, <1>4

(* When the oldest store reaches memory the views move up by one. *)
LEMMA SeenFlush ==
  ASSUME TypeOK, 1 \in 1..Len(sb), MayLeave(1),
         mem' = [mem EXCEPT ![sb[1].loc] = sb[1].val], sb' = RemoveAt(sb, 1)
  PROVE  /\ Len(sb') = Len(sb) - 1
         /\ \A k \in 0..Len(sb') : \A l \in Loc : Seen(k, l)' = Seen(k + 1, l)
<1>1. /\ mem'[sb[1].loc] = sb[1].val
      /\ \A l \in Loc : l # sb[1].loc => mem'[l] = mem[l]
      /\ Len(sb') = Len(sb) - 1 /\ Len(sb) \in Nat
      /\ \A j \in 1..(Len(sb) - 1) : sb'[j] = sb[j + 1]
  <2>1. Len(sb) \in Nat
    BY DEF TypeOK
  <2> QED
    BY <2>1, FlushEffect
<1>2. SUFFICES ASSUME NEW k \in Nat, k \in 0..Len(sb'), NEW l \in Loc
               PROVE  Seen(k, l)' = Seen(k + 1, l)
  BY <1>1
<1>3. \A j \in 1..k : sb'[j] = sb[j + 1] /\ j + 1 \in 1..(k + 1)
  BY <1>1, <1>2
<1>4. \A j \in 2..(k + 1) : j - 1 \in 1..k /\ (j - 1) + 1 = j
  OBVIOUS
<1>5. 1 \in 1..(k + 1) /\ \A j \in 1..(k + 1) : j = 1 \/ j \in 2..(k + 1)
  OBVIOUS
<1>6. ASSUME NEW v \in Seen(k, l)'
      PROVE  v \in Seen(k + 1, l)
  <2>1. CASE \E i \in 1..k : /\ v = sb'[i].val /\ sb'[i].loc = l
                            /\ \A m \in 1..k : m > i => sb'[m].loc # l
    <3>1. PICK i \in 1..k : /\ v = sb'[i].val /\ sb'[i].loc = l
                            /\ \A m \in 1..k : m > i => sb'[m].loc # l
      BY <2>1
    <3>2. i + 1 \in 1..(k + 1) /\ v = sb[i + 1].val /\ sb[i + 1].loc = l
      BY <1>3, <3>1
    <3>3. ASSUME NEW m \in 1..(k + 1), m > i + 1
          PROVE  sb[m].loc # l
      <4>1. m - 1 \in 1..k /\ m - 1 > i /\ (m - 1) + 1 = m
        BY <3>3
      <4>2. sb'[m - 1] = sb[(m - 1) + 1]
        BY <1>3, <4>1
      <4> QED
        BY <3>1, <4>1, <4>2
    <3> QED
      BY <3>2, <3>3, SeenMeans
  <2>2. CASE v = mem'[l] /\ \A m \in 1..k : sb'[m].loc # l
    <3>1. ASSUME NEW m \in 2..(k + 1)
          PROVE  sb[m].loc # l
      <4>1. sb'[m - 1] = sb[(m - 1) + 1]
        BY <1>3, <1>4
      <4> QED
        BY <1>4, <2>2, <4>1
    <3>2. CASE sb[1].loc = l
      <4>1. \A m \in 1..(k + 1) : m > 1 => sb[m].loc # l
        BY <1>5, <3>1
      <4>2. v = sb[1].val
        BY <1>1, <2>2, <3>2
      <4> QED
        BY <1>5, <3>2, <4>1, <4>2, SeenMeans
    <3>3. CASE sb[1].loc # l
      <4>1. \A m \in 1..(k + 1) : sb[m].loc # l
        BY <1>5, <3>1, <3>3
      <4>2. v = mem[l]
        BY <1>1, <2>2, <3>3
      <4> QED
        BY <4>1, <4>2, SeenMeans
    <3> QED
      BY <3>2, <3>3
  <2> QED
    BY <1>6, <2>1, <2>2, SeenMeans
<1>7. ASSUME NEW v \in Seen(k + 1, l)
      PROVE  v \in Seen(k, l)'
  <2>1. CASE \E i \in 1..(k + 1) : /\ v = sb[i].val /\ sb[i].loc = l
                                  /\ \A m \in 1..(k + 1) : m > i => sb[m].loc # l
    <3>1. PICK i \in 1..(k + 1) : /\ v = sb[i].val /\ sb[i].loc = l
                                  /\ \A m \in 1..(k + 1) : m > i => sb[m].loc # l
      BY <2>1
    <3>2. CASE i = 1
      <4>1. ASSUME NEW m \in 1..k
            PROVE  sb'[m].loc # l
        <5>1. m + 1 \in 1..(k + 1) /\ m + 1 > 1 /\ sb'[m] = sb[m + 1]
          BY <1>3
        <5> QED
          BY <3>1, <3>2, <5>1
      <4>2. v = mem'[l]
        BY <1>1, <3>1, <3>2
      <4> QED
        BY <4>1, <4>2, SeenMeans
    <3>3. CASE i \in 2..(k + 1)
      <4> DEFINE h == i - 1
      <4>1. h \in 1..k /\ h + 1 = i
        BY <1>4, <3>3
      <4> HIDE DEF h
      <4>2. v = sb'[h].val /\ sb'[h].loc = l
        BY <1>3, <3>1, <4>1
      <4>3. ASSUME NEW m \in 1..k, m > h
            PROVE  sb'[m].loc # l
        <5>1. m + 1 \in 1..(k + 1) /\ m + 1 > i /\ sb'[m] = sb[m + 1]
          BY <1>3, <4>1, <4>3
        <5> QED
          BY <3>1, <5>1
      <4> QED
        BY <4>1, <4>2, <4>3, SeenMeans
    <3> QED
      BY <1>5, <3>2, <3>3
  <2>2. CASE v = mem[l] /\ \A m \in 1..(k + 1) : sb[m].loc # l
    <3>1. sb[1].loc # l
      BY <1>5, <2>2
    <3>2. ASSUME NEW m \in 1..k
          PROVE  sb'[m].loc # l
      BY <1>3, <2>2
    <3>3. v = mem'[l]
      BY <1>1, <2>2, <3>1
    <3> QED
      BY <3>2, <3>3, SeenMeans
  <2> QED
    BY <1>7, <2>1, <2>2, SeenMeans
<1> QED
  BY <1>6, <1>7

-----------------------------------------------------------------------------
(* How stores and flushes keep the items visible.                          *)

(* The owner sees one value of each location, its own. *)
LEMMA OwnerSeesOne ==
  ASSUME TypeOK, OwnerSees, NEW l \in Loc, NEW v \in Seen(Len(sb), l)
  PROVE  v = own[l]
<1>1. Len(sb) \in Nat
  BY DEF TypeOK
<1> QED
  BY <1>1, SeenUnique DEF OwnerSees

(* From the last view on there is nothing but the owner's. *)
LEMMA KeptInLast ==
  ASSUME TypeOK, OwnerSees, NEW i \in Int
  PROVE  Kept(Len(sb), i)
<1> SUFFICES ASSUME NEW n \in Seen(Len(sb), Array), NEW x \in Seen(Len(sb), Slot(n, i))
             PROVE  x = ItemAt(i)
  <2>1. Len(sb) \in Nat
    BY DEF TypeOK
  <2>2. \A k \in Len(sb)..Len(sb) : k = Len(sb)
    BY <2>1
  <2> QED
    BY <2>2 DEF Kept
<1>1. n = own[Array] /\ n \in Sizes
  BY LocationsDiffer, OwnerSeesOne DEF TypeOK, IsMemory
<1>2. Slot(n, i) \in Loc
  BY <1>1, LocationsDiffer, SlotLocations
<1> QED
  BY <1>1, <1>2, OwnerSeesOne DEF ItemAt

(* A store to a slot of no item, or to bottom or array, takes no item out  *)
(* of sight. *)
LEMMA StoreKeeps ==
  ASSUME IInv, ViewInv, mem' = mem, th' = th, top' \in Nat, top <= top',
         NEW l \in Loc, NEW v, NEW r \in BOOLEAN,
         [loc |-> l, val |-> v, release |-> r] \in PendingStores, Store(l, v, r),
         l = Array => own[Array] <= v,
         \A i \in top'..(LogicalBottom - 1) :
           /\ ItemAt(i)' = ItemAt(i)
           /\ \A n \in Sizes : n <= own[Array] => Slot(n, i) # l
  PROVE  OwnerSees' /\ ArraysGrow' /\ VisibleKept' /\ ThievesHold'
<1>0. Len(sb) \in Nat
  BY DEF IInv, TypeOK
<1>8. PICK last \in Nat : last = Len(sb)
  BY <1>0
<1>9. PICK new \in Nat : new = last + 1
  OBVIOUS
<1>1. /\ TypeOK /\ OwnerSees /\ ArraysGrow /\ VisibleKept /\ ThievesHold
      /\ IsMemory(own) /\ sb \in Seq(PendingStores) /\ top \in Nat /\ LogicalBottom \in Int
      /\ own[Array] \in Sizes
  BY DEF IInv, ViewInv, TypeOK, IsMemory, LogicalBottom
<1>2. /\ IsMemory(own') /\ own'[l] = v /\ \A m \in Loc \ {l} : own'[m] = own[m]
      /\ Len(sb') = new /\ sb' \in Seq(PendingStores)
  BY <1>1, <1>8, <1>9, StoreEffect
<1>3. /\ \A k \in 0..last : \A m : Seen(k, m)' = Seen(k, m)
      /\ \A k \in Nat : k = new =>
           /\ Seen(k, l)' = {v}
           /\ \A m : m # l => Seen(k, m)' = Seen(last, m)
  BY <1>1, <1>8, <1>9, SeenStore
<1>4. /\ last \in 0..last /\ 0 \in 0..last
      /\ \A k \in 0..new : k \in Nat /\ (k \in 0..last \/ k = new)
  BY <1>9
<1>19. \A n \in Sizes : n \in Int /\ n <= n
  <2> SUFFICES ASSUME NEW n \in Sizes PROVE n \in Int /\ n <= n
    OBVIOUS
  <2>1. n \in Int
    OBVIOUS
  <2> QED
    BY <2>1
<1>5. own[Array] <= own'[Array] /\ own'[Array] \in Sizes
  <2>1. own'[Array] \in Sizes
    BY <1>2 DEF IsMemory
  <2>2. CASE l = Array
    BY <1>1, <1>2, <2>1, <2>2
  <2>3. CASE l # Array
    <3>1. own'[Array] = own[Array]
      BY <1>2, <2>3, LocationsDiffer
    <3>2. own[Array] <= own[Array]
      BY <1>1, <1>19, Zenon
    <3> QED
      BY <2>1, <3>1, <3>2, Zenon
  <2> QED
    BY <2>1, <2>2, <2>3
<1>6. \A m \in Loc : own'[m] \in Seen(new, m)'
  <2> SUFFICES ASSUME NEW m \in Loc PROVE own'[m] \in Seen(new, m)'
    OBVIOUS
  <2>1. CASE m = l
    BY <1>2, <1>3, <1>4, <2>1
  <2>2. CASE m # l
    <3>1. own[m] \in Seen(last, m)
      BY <1>1, <1>8 DEF OwnerSees
    <3>2. Seen(new, m)' = Seen(last, m)
      BY <1>3, <1>4, <2>2
    <3> QED
      BY <1>2, <2>2, <3>1, <3>2
  <2> QED
    BY <2>1, <2>2
<1>7. OwnerSees'
  BY <1>2, <1>6 DEF OwnerSees
<1>10. \A m \in Loc : \A x \in Seen(new, m)' : x = own'[m]
  <2> SUFFICES ASSUME NEW m \in Loc, NEW x \in Seen(new, m)' PROVE x = own'[m]
    OBVIOUS
  <2>1. CASE m = l
    BY <1>2, <1>3, <1>4, <2>1
  <2>2. CASE m # l
    <3>1. x \in Seen(last, m)
      BY <1>3, <1>4, <2>2
    <3>2. x = own[m]
      BY <1>1, <1>8, <3>1, OwnerSeesOne
    <3> QED
      BY <1>2, <2>2, <3>2
  <2> QED
    BY <2>1, <2>2
<1>11. \A k \in 0..last : \A n \in Seen(k, Array) : n \in Sizes /\ n <= own[Array]
  BY <1>1, <1>8, SeenTyped DEF ArraysGrow
<1>12. \A k \in 0..new : \A n \in Seen(k, Array)' : n \in Sizes /\ n <= own'[Array]
  <2> SUFFICES ASSUME NEW k \in 0..new, NEW n \in Seen(k, Array)'
               PROVE  n \in Sizes /\ n <= own'[Array]
    OBVIOUS
  <2>1. CASE k \in 0..last
    <3>1. n \in Seen(k, Array)
      BY <1>3, <2>1
    <3>2. n \in Sizes /\ n <= own[Array]
      BY <1>11, <2>1, <3>1
    <3>3. n \in Int /\ own[Array] \in Int /\ own'[Array] \in Int
      BY <1>1, <1>5, <1>19, <3>2, Zenon
    <3> QED
      BY <1>5, <3>2, <3>3
  <2>2. CASE k = new
    <3>1. n = own'[Array]
      BY <1>10, <2>2, LocationsDiffer
    <3> QED
      BY <1>5, <1>19, <3>1, Zenon
  <2> QED
    BY <1>4, <2>1, <2>2
<1>13. ArraysGrow'
  BY <1>2, <1>8, <1>9, <1>12 DEF ArraysGrow
<1>14. ASSUME NEW i \in top'..(LogicalBottom - 1), NEW n \in Sizes, n <= own[Array],
              NEW x \in Seen(new, Slot(n, i))'
       PROVE  x \in Seen(last, Slot(n, i))
  BY <1>3, <1>14
<1>15. ASSUME NEW i \in top'..(LogicalBottom - 1), NEW m \in 0..last, Kept(m, i)
       PROVE  Kept(m, i)'
  <2>1. SUFFICES ASSUME NEW k \in m..new, NEW j \in k..new,
                      NEW n \in Seen(k, Array)', NEW x \in Seen(j, Slot(n, i))'
               PROVE  x = ItemAt(i)'
    BY <1>2, <1>8, <1>9 DEF Kept
  <2>2. k \in 0..new /\ j \in 0..new /\ n \in Sizes /\ i \in Int
    BY <1>1, <1>12
  <2>3. CASE k = new
    <3>1. j = new /\ n = own'[Array]
      BY <1>10, <2>3, LocationsDiffer
    <3>2. Slot(n, i) \in Loc
      BY <2>2, LocationsDiffer, SlotLocations
    <3> QED
      BY <1>10, <3>1, <3>2 DEF ItemAt
  <2>4. CASE k \in 0..last
    <3>1. n \in Seen(k, Array) /\ n <= own[Array]
      BY <1>3, <1>11, <2>4
    <3>2. PICK h \in k..last : x \in Seen(h, Slot(n, i))
      <4>1. CASE j \in 0..last
        BY <1>3, <4>1
      <4>2. CASE j = new
        BY <1>14, <2>2, <2>4, <3>1, <4>2
      <4> QED
        BY <1>4, <2>2, <4>1, <4>2
    <3>3. x = ItemAt(i)
      BY <1>8, <1>15, <2>4, <3>1, <3>2 DEF Kept
    <3> QED
      BY <3>3
  <2> QED
    BY <1>4, <2>2, <2>3, <2>4
<1>16. ASSUME NEW i \in Int PROVE Kept(new, i)'
  <2>1. SUFFICES ASSUME NEW n \in Seen(new, Array)', NEW x \in Seen(new, Slot(n, i))'
               PROVE  x = ItemAt(i)'
    <3>1. \A k \in new..new : k = new
      OBVIOUS
    <3> QED
      BY <1>2, <1>8, <1>9, <3>1 DEF Kept
  <2>2. n = own'[Array] /\ n \in Sizes
    BY <1>5, <1>10, LocationsDiffer
  <2>3. Slot(n, i) \in Loc
    BY <2>2, LocationsDiffer, SlotLocations
  <2> QED
    BY <1>10, <2>2, <2>3 DEF ItemAt
<1>17. VisibleKept'
  <2>1. SUFFICES ASSUME NEW m \in 0..new, NEW b \in Seen(m, Bottom)', NEW i \in top'..(b - 1)
               PROVE  Kept(m, i)'
    BY <1>2, <1>8, <1>9 DEF VisibleKept
  <2>2. CASE m = new
    <3>1. i \in Int
      BY <1>1
    <3> QED
      BY <1>16, <2>2, <3>1
  <2>3. CASE m \in 0..last
    <3>1. b \in Seen(m, Bottom)
      BY <1>3, <2>3
    <3>2. b \in Int /\ b <= LogicalBottom
      BY <1>8, <2>3, <3>1, SeenTyped
    <3>3. i \in top..(b - 1) /\ i \in top'..(LogicalBottom - 1)
      BY <1>1, <3>2
    <3>4. Kept(m, i)
      BY <1>1, <1>8, <2>3, <3>1, <3>3 DEF VisibleKept
    <3> QED
      BY <1>15, <2>3, <3>3, <3>4
  <2> QED
    BY <1>4, <2>2, <2>3
<1>18. ThievesHold'
  <2>1. SUFFICES ASSUME NEW p \in Thief, th'[p].t = top'
               PROVE  /\ th'[p].pc = "array" => Kept(0, top)'
                      /\ th'[p].pc = "slot" =>
                           /\ th'[p].a <= own'[Array]
                           /\ \A j \in 0..Len(sb') :
                                \A x \in Seen(j, Slot(th[p].a, top))' : x = ItemAt(top)'
                      /\ th'[p].pc = "cas" => th'[p].x = ItemAt(top)'
    BY Zenon DEF ThievesHold
  <2>2. th[p].t <= top /\ th[p].t \in Int /\ th[p].a \in Sizes
    BY <1>1 DEF IInv, IndexInv, LocalsAgree, TypeOK, ThiefState
  <2>3. top' = top /\ th[p].t = top
    BY <1>1, <2>1, <2>2
  <2>4. CASE th[p].pc \in {"array", "slot", "cas"}
    <3>1. top \in top'..(LogicalBottom - 1)
      BY <1>1, <2>3, <2>4 DEF IInv, IndexInv, IndexSafe
    <3>2. ItemAt(top)' = ItemAt(top)
      BY <2>3, <3>1
    <3>3. th[p].pc = "array" => Kept(0, top)'
      <4>1. th[p].pc = "array" => Kept(0, top)
        BY <1>1, <2>3 DEF ThievesHold
      <4> QED
        BY <1>4, <1>15, <2>3, <3>1, <4>1
    <3>4. ASSUME th[p].pc = "slot"
          PROVE  /\ th[p].a <= own'[Array]
                 /\ \A j \in 0..Len(sb') :
                      \A x \in Seen(j, Slot(th[p].a, top))' : x = ItemAt(top)'
      <4>1. /\ th[p].a <= own[Array]
            /\ \A j \in 0..last : \A x \in Seen(j, Slot(th[p].a, top)) : x = ItemAt(top)
        BY <1>1, <1>8, <2>3, <3>4, Zenon DEF ThievesHold
      <4>2. th[p].a <= own'[Array]
        <5>1. th[p].a \in Int /\ own[Array] \in Int /\ own'[Array] \in Int
          BY <1>1, <1>5, <1>19, <2>2, Zenon
        <5> QED
          BY <1>5, <4>1, <5>1
      <4>3. ASSUME NEW j \in 0..new, NEW x \in Seen(j, Slot(th[p].a, top))'
            PROVE  x = ItemAt(top)
        <5>1. CASE j \in 0..last
          <6>1. x \in Seen(j, Slot(th[p].a, top))
            BY <1>3, <2>1, <2>3, <4>3, <5>1
          <6> QED
            BY <4>1, <5>1, <6>1
        <5>2. CASE j = new
          <6>1. Slot(th[p].a, top) # l
            BY <2>2, <3>1, <4>1
          <6>2. x \in Seen(last, Slot(th[p].a, top))
            BY <1>3, <1>4, <2>3, <4>3, <5>2, <6>1
          <6> QED
            BY <1>4, <4>1, <6>2
        <5> QED
          BY <1>4, <5>1, <5>2
      <4> QED
        BY <1>2, <1>8, <1>9, <3>2, <4>2, <4>3
    <3>5. th[p].pc = "cas" => th[p].x = ItemAt(top)'
      BY <1>1, <2>3, <3>2 DEF ThievesHold
    <3> QED
      BY <2>4, <3>3, <3>4, <3>5
  <2> QED
    BY <2>4
<1> QED
  BY <1>7, <1>13, <1>17, <1>18

(* When a store reaches memory the views move up; what was visible stays   *)
(* visible, and nothing else changes. *)
LEMMA FlushKeeps ==
  ASSUME IInv, ViewInv, StoreOrder = "fifo", Flush
  PROVE  ViewInv'
<1>1. /\ 1 \in 1..Len(sb) /\ MayLeave(1)
      /\ mem' = [mem EXCEPT ![sb[1].loc] = sb[1].val]
      /\ sb' = RemoveAt(sb, 1)
      /\ UNCHANGED <<own, top, ow, th>>
  BY DEF Flush, MayLeave
<1>2. /\ TypeOK /\ OwnerSees /\ ArraysGrow /\ VisibleKept /\ ThievesHold /\ PushHasRoom
      /\ top \in Nat /\ Len(sb) \in Nat
  BY DEF IInv, ViewInv, TypeOK
<1>3. PICK last \in Nat : Len(sb') = last /\ Len(sb) = last + 1
  <2>1. Len(sb') = Len(sb) - 1
    BY <1>1, <1>2, SeenFlush
  <2>2. Len(sb) - 1 \in Nat /\ Len(sb) = (Len(sb) - 1) + 1
    BY <1>1, <1>2
  <2> QED
    BY <2>1, <2>2
<1>4. \A k \in 0..last : \A l \in Loc : Seen(k, l)' = Seen(k + 1, l)
  BY <1>1, <1>2, <1>3, SeenFlush
<1>5. \A k \in 0..last : k + 1 \in 0..(last + 1)
  OBVIOUS
<1>6. \A k \in 0..last : \A n \in Seen(k, Array)' : n \in Seen(k + 1, Array) /\ n \in Sizes
  <2> SUFFICES ASSUME NEW k \in 0..last, NEW n \in Seen(k, Array)'
               PROVE  n \in Seen(k + 1, Array) /\ n \in Sizes
    OBVIOUS
  <2>1. n \in Seen(k + 1, Array)
    BY <1>4, LocationsDiffer
  <2>2. k + 1 \in 0..Len(sb)
    BY <1>3
  <2> QED
    BY <2>1, <2>2, SeenTyped
<1>7. OwnerSees'
  <2> SUFFICES ASSUME NEW l \in Loc PROVE own[l] \in Seen(last, l)'
    BY <1>1, <1>3 DEF OwnerSees
  <2>1. own[l] \in Seen(last + 1, l)
    BY <1>2, <1>3 DEF OwnerSees
  <2> QED
    BY <1>4, <2>1
<1>8. ArraysGrow'
  BY <1>1, <1>2, <1>3, <1>5, <1>6 DEF ArraysGrow
<1>9. ASSUME NEW m \in 0..last, NEW i \in Int, Kept(m + 1, i)
      PROVE  Kept(m, i)'
  <2>1. SUFFICES ASSUME NEW k \in m..last, NEW j \in k..last,
                        NEW n \in Seen(k, Array)', NEW x \in Seen(j, Slot(n, i))'
                 PROVE  x = ItemAt(i)
    BY <1>1, <1>3 DEF Kept, ItemAt
  <2>2. k \in 0..last /\ j \in 0..last /\ k + 1 \in (m + 1)..(last + 1)
        /\ j + 1 \in (k + 1)..(last + 1)
    OBVIOUS
  <2>3. n \in Seen(k + 1, Array) /\ n \in Sizes
    BY <1>6, <2>2
  <2>4. Slot(n, i) \in Loc
    BY <2>3, LocationsDiffer, SlotLocations
  <2>5. x \in Seen(j + 1, Slot(n, i))
    BY <1>4, <2>2, <2>4
  <2> QED
    BY <1>3, <1>9, <2>2, <2>3, <2>5 DEF Kept
<1>10. VisibleKept'
  <2>1. SUFFICES ASSUME NEW m \in 0..last, NEW b \in Seen(m, Bottom)', NEW i \in top..(b - 1)
                 PROVE  Kept(m, i)'
    BY <1>1, <1>3 DEF VisibleKept
  <2>2. b \in Seen(m + 1, Bottom)
    BY <1>4, LocationsDiffer
  <2>3. Kept(m + 1, i)
    BY <1>2, <1>3, <1>5, <2>2 DEF VisibleKept
  <2>4. i \in Int
    BY <1>2
  <2> QED
    BY <1>9, <2>3, <2>4
<1>11. ThievesHold'
  <2>1. SUFFICES ASSUME NEW p \in Thief, th[p].t = top
               PROVE  /\ th[p].pc = "array" => Kept(0, top)'
                      /\ th[p].pc = "slot" =>
                           /\ th[p].a <= own[Array]
                           /\ \A j \in 0..last :
                                \A x \in Seen(j, Slot(th[p].a, top))' : x = ItemAt(top)
                      /\ th[p].pc = "cas" => th[p].x = ItemAt(top)
    BY <1>1, <1>3 DEF ThievesHold, ItemAt
  <2>2. th[p].pc = "array" => Kept(0, top)'
    <3>1. Kept(0, top) => Kept(1, top)
      BY DEF Kept
    <3>2. th[p].pc = "array" => Kept(0 + 1, top)
      BY <1>2, <2>1, <3>1 DEF ThievesHold
    <3>3. 0 \in 0..last /\ top \in Int
      BY <1>2
    <3> QED
      BY <1>1, <1>9, <3>2, <3>3
  <2>3. ASSUME th[p].pc = "slot", NEW j \in 0..last, NEW x \in Seen(j, Slot(th[p].a, top))'
        PROVE  x = ItemAt(top)
    <3>1. th[p].a \in Sizes /\ top \in Int
      BY <1>2 DEF TypeOK, ThiefState
    <3>2. Slot(th[p].a, top) \in Loc
      BY <3>1, LocationsDiffer, SlotLocations
    <3>3. x \in Seen(j + 1, Slot(th[p].a, top))
      BY <1>1, <1>4, <2>3, <3>2
    <3> QED
      BY <1>2, <1>3, <1>5, <2>1, <2>3, <3>3 DEF ThievesHold
  <2> QED
    BY <1>2, <2>1, <2>2, <2>3 DEF ThievesHold
<1>12. PushHasRoom'
  BY <1>1, <1>2 DEF PushHasRoom, LogicalBottom, ItemAt
<1> QED
  BY <1>7, <1>8, <1>10, <1>11, <1>12 DEF ViewInv

-----------------------------------------------------------------------------
(* Every step keeps the items visible.                                     *)

(* The types that the steps below do arithmetic with. *)
LEMMA NumberTypes ==
  ASSUME IInv
  PROVE  /\ own[Array] \in Sizes /\ own[Array] \in Int /\ own[Array] > 0
         /\ own[Bottom] \in Int /\ LogicalBottom \in Int /\ top \in Nat /\ top \in Int
         /\ ow.b \in Int /\ ow.t \in Int /\ ow.i \in Int
         /\ top <= LogicalBottom
         /\ TypeOK /\ LocalsAgree /\ IndexSafe
<1>1. TypeOK /\ LocalsAgree /\ IndexSafe
  BY DEF IInv, IndexInv
<1>2. own[Array] \in Sizes /\ own[Bottom] \in Int /\ top \in Nat /\ ow \in OwnerState
  BY <1>1 DEF TypeOK, IsMemory
<1>3. \A n \in Sizes : n \in Int /\ n > 0
  OBVIOUS
<1>4. own[Array] \in Int /\ own[Array] > 0
  BY <1>2, <1>3, Zenon
<1>5. LogicalBottom \in Int /\ top \in Int
  BY <1>2 DEF LogicalBottom
<1>6. ow.b \in Int /\ ow.t \in Int /\ ow.i \in Int
  BY <1>2 DEF OwnerState
<1> QED
  BY <1>1, <1>2, <1>4, <1>5, <1>6 DEF IndexSafe

(* A new deque has nothing in it and nothing in the buffer. *)
LEMMA ViewInit == Init => ViewInv
<1> SUFFICES ASSUME Init PROVE ViewInv
  OBVIOUS
<1>1. /\ Len(sb) = 0 /\ own = mem /\ top = 0 /\ mem[Bottom] = 0 /\ mem[Array] = InitSize
      /\ \A p \in Thief : th[p].pc = "idle"
      /\ ow.pc = "idle" /\ ow.t = 0
  BY LocationsDiffer DEF Init, FreshMemory, ThiefIdle, OwnerIdle
<1>2. \A l \in Loc : Seen(0, l) = {mem[l]}
  BY DEF Seen, LastStores
<1>3. \A k \in 0..Len(sb) : k = 0
  BY <1>1
<1>4. OwnerSees
  BY <1>1, <1>2 DEF OwnerSees
<1>5. InitSize \in Int /\ InitSize > 0
  OBVIOUS
<1>6. ArraysGrow
  BY <1>1, <1>2, <1>3, <1>5, LocationsDiffer DEF ArraysGrow
<1>7. VisibleKept
  <2>1. \A m \in 0..Len(sb) : \A b \in Seen(m, Bottom) : b = 0
    BY <1>1, <1>2, <1>3, LocationsDiffer
  <2>2. \A i \in top..(0 - 1) : FALSE
    BY <1>1
  <2> QED
    BY <2>1, <2>2, Zenon DEF VisibleKept
<1>8. ThievesHold
  BY <1>1 DEF ThievesHold
<1>9. PushHasRoom
  BY <1>1, <1>5 DEF PushHasRoom, LogicalBottom
<1> QED
  BY <1>4, <1>6, <1>7, <1>8, <1>9 DEF ViewInv

(* The first turn of push, and the steps of the owner that store nothing. *)
LEMMA NoStoreKeeps ==
  ASSUME ViewInv, UNCHANGED <<mem, own, sb, top, th>>
  PROVE  OwnerSees' /\ ArraysGrow' /\ VisibleKept' /\ ThievesHold'
         /\ \A i : ItemAt(i)' = ItemAt(i)
<1>1. \A k : \A l : Seen(k, l)' = Seen(k, l)
  BY DEF Seen, LastStores
<1>2. \A i : ItemAt(i)' = ItemAt(i)
  BY DEF ItemAt
<1>3. \A m : \A i : Kept(m, i)' = Kept(m, i)
  BY <1>1, <1>2 DEF Kept
<1>4. OwnerSees'
  BY <1>1 DEF ViewInv, OwnerSees
<1>5. ArraysGrow'
  BY <1>1 DEF ViewInv, ArraysGrow
<1>6. VisibleKept'
  BY <1>1, <1>3 DEF ViewInv, VisibleKept
<1>7. ThievesHold'
  <2>1. SUFFICES ASSUME NEW p \in Thief, th[p].t = top
                 PROVE  /\ th[p].pc = "array" => Kept(0, top)'
                        /\ th[p].pc = "slot" =>
                             /\ th[p].a <= own[Array]
                             /\ \A j \in 0..Len(sb) :
                                  \A x \in Seen(j, Slot(th[p].a, top))' : x = ItemAt(top)
                        /\ th[p].pc = "cas" => th[p].x = ItemAt(top)
    BY <1>2 DEF ThievesHold
  <2> QED
    BY <1>1, <1>3, <2>1 DEF ViewInv, ThievesHold
<1> QED
  BY <1>2, <1>4, <1>5, <1>6, <1>7

(* A step of thief p keeps what the others hold. *)
LEMMA ThiefKeeps ==
  ASSUME IInv, ViewInv, UNCHANGED <<mem, own, sb, ow>>,
         top' \in Nat, top <= top',
         NEW p \in Thief, \A q \in Thief \ {p} : th'[q] = th[q],
         th'[p].t = top' =>
           /\ th'[p].pc = "array" => Kept(0, top')
           /\ th'[p].pc = "slot" =>
                /\ th'[p].a <= own[Array]
                /\ \A j \in 0..Len(sb) :
                     \A x \in Seen(j, Slot(th'[p].a, top')) : x = ItemAt(top')
           /\ th'[p].pc = "cas" => th'[p].x = ItemAt(top')
  PROVE  ViewInv'
<1>0. /\ top \in Int /\ top' \in Int /\ LogicalBottom \in Int /\ own[Array] \in Int
      /\ ow.b \in Int /\ ow.t \in Int
      /\ \A q \in Thief : th[q].t \in Int /\ th[q].t <= top
  BY NumberTypes DEF TypeOK, ThiefState, LocalsAgree
<1>1. \A k : \A l : Seen(k, l)' = Seen(k, l)
  BY DEF Seen, LastStores
<1>2. \A i : own'[Slot(own'[Array], i)] = ItemAt(i)
  BY DEF ItemAt
<1>3. \A m, i : Kept(m, i)' <=> Kept(m, i)
  <2> SUFFICES ASSUME NEW m, NEW i PROVE Kept(m, i)' <=> Kept(m, i)
    OBVIOUS
  <2>1. ItemAt(i)' = ItemAt(i)
    BY DEF ItemAt
  <2> QED
    BY <1>1, <2>1 DEF Kept
<1>4. OwnerSees'
  BY <1>1 DEF ViewInv, OwnerSees
<1>5. ArraysGrow'
  BY <1>1 DEF ViewInv, ArraysGrow
<1>6. VisibleKept'
  <2>1. SUFFICES ASSUME NEW m \in 0..Len(sb), NEW b \in Seen(m, Bottom), NEW i \in top'..(b - 1)
                 PROVE  Kept(m, i)
    BY <1>1, <1>3 DEF VisibleKept
  <2>2. b \in Int
    BY SeenTyped
  <2>3. i \in top..(b - 1)
    BY <1>0, <2>2
  <2> QED
    BY <2>3 DEF ViewInv, VisibleKept
<1>7. ThievesHold'
  <2>4. SUFFICES ASSUME NEW q \in Thief, th'[q].t = top'
                 PROVE  /\ th'[q].pc = "array" => Kept(0, top)'
                        /\ th'[q].pc = "slot" =>
                             /\ th'[q].a <= own'[Array]
                             /\ \A j \in 0..Len(sb') :
                                  \A x \in Seen(j, Slot(th[q].a, top))' : x = ItemAt(top)'
                        /\ th'[q].pc = "cas" => th'[q].x = ItemAt(top)'
    BY Zenon DEF ThievesHold
  <2>1. SUFFICES /\ th'[q].pc = "array" => Kept(0, top')
                 /\ th'[q].pc = "slot" =>
                      /\ th'[q].a <= own[Array]
                      /\ \A j \in 0..Len(sb) :
                           \A x \in Seen(j, Slot(th'[q].a, top')) : x = ItemAt(top')
                 /\ th'[q].pc = "cas" => th'[q].x = ItemAt(top')
    <3>1. Kept(0, top)' <=> Kept(0, top')
      BY <1>1, <1>2 DEF Kept, ItemAt
    <3>2. \A j : Seen(j, Slot(th[q].a, top))' = Seen(j, Slot(th'[q].a, top'))
      BY DEF Seen, LastStores, Slot
    <3>3. ItemAt(top)' = ItemAt(top')
      BY DEF ItemAt, Slot
    <3>4. own' = own /\ sb' = sb
      OBVIOUS
    <3> QED
      BY <3>1, <3>2, <3>3, <3>4
  <2>2. CASE q = p
    BY <2>1, <2>2, <2>4
  <2>3. CASE q # p
    <3>1. th'[q] = th[q] /\ top' = top
      BY <1>0, <2>3, <2>4
    <3> QED
      BY <2>4, <3>1 DEF ViewInv, ThievesHold
  <2> QED
    BY <2>2, <2>3
<1>8. PushHasRoom'
  <2>1. LogicalBottom' = LogicalBottom /\ ow' = ow /\ own' = own
    BY DEF LogicalBottom
  <2>2. PushHasRoom
    BY DEF ViewInv
  <2>3. LogicalBottom - top' <= own[Array] /\ ow.t <= top'
    BY <1>0, <2>2 DEF PushHasRoom
  <2>4. ow.pc \in {"put", "publish"} => ow.b - top' < own[Array]
    BY <1>0, <2>2 DEF PushHasRoom
  <2>5. \A i : ItemAt(i)' = ItemAt(i)
    BY DEF ItemAt
  <2> QED
    BY <2>1, <2>2, <2>3, <2>4, <2>5, Zenon DEF PushHasRoom
<1> QED
  BY <1>4, <1>5, <1>6, <1>7, <1>8 DEF ViewInv

(* grow copies into an array that nobody reads yet. *)
LEMMA ViewGrowCopy ==
  ASSUME IInv, ViewInv, GrowCopy
  PROVE  ViewInv' /\ ItemsStay
<1> DEFINE n == own[Array]
<1>1. /\ own[Array] \in Sizes /\ own[Array] \in Int /\ own[Array] > 0 /\ 2 * own[Array] \in Sizes
      /\ top \in Nat /\ LogicalBottom \in Int /\ ow.b \in Int /\ ow.i \in Int /\ ow.t \in Int
      /\ ow.pc = "grow" /\ ow.i # ow.b /\ TypeOK /\ PushHasRoom
      /\ Store(Slot(2 * own[Array], ow.i), ItemAt(ow.i), FALSE)
      /\ ow' = [ow EXCEPT !.i = @ + 1] /\ UNCHANGED <<mem, top, th>>
  BY NumberTypes DEF GrowCopy, LocalsAgree, ViewInv, ItemAt
<1>2. PICK l : l = Slot(2 * own[Array], ow.i)
  OBVIOUS
<1>3. PICK v : v = ItemAt(ow.i)
  OBVIOUS
<1>4. l \in Slots /\ l \in Loc /\ l # Array /\ l # Bottom
  BY <1>1, <1>2, SlotLocations, LocationsDiffer
<1>5. v \in Content
  <2>1. Slot(own[Array], ow.i) \in Slots
    BY <1>1, SlotLocations
  <2> QED
    BY <1>1, <1>3, <2>1 DEF TypeOK, IsMemory, ItemAt
<1>6. [loc |-> l, val |-> v, release |-> FALSE] \in PendingStores
  BY <1>4, <1>5 DEF PendingStores
<1>7. /\ own'[l] = v /\ \A m \in Loc \ {l} : own'[m] = own[m]
      /\ own'[Array] = own[Array] /\ own'[Bottom] = own[Bottom]
  <2>1. /\ own'[l] = v /\ \A m \in Loc \ {l} : own'[m] = own[m]
    BY <1>1, <1>2, <1>3, <1>4, <1>6, StoreEffect DEF TypeOK
  <2> QED
    BY <1>4, <2>1, LocationsDiffer
<1>8. \A i \in Int : Slot(own[Array], i) \in Loc /\ Slot(own[Array], i) # l
  BY <1>1, <1>2, SlotLocations, LocationsDiffer, ArraysDiffer
<1>9. \A i \in Int : ItemAt(i)' = ItemAt(i)
  BY <1>7, <1>8 DEF ItemAt
<1>10. \A i \in top'..(LogicalBottom - 1) :
         /\ ItemAt(i)' = ItemAt(i)
         /\ \A m \in Sizes : m <= own[Array] => Slot(m, i) # l
  <2> SUFFICES ASSUME NEW i \in top'..(LogicalBottom - 1),
                      NEW m \in Sizes, m <= own[Array]
               PROVE  Slot(m, i) # l
    BY <1>1, <1>9
  <2>1. m # 2 * own[Array]
    BY <1>1
  <2> QED
    BY <1>2, <2>1, ArraysDiffer
<1>11. OwnerSees' /\ ArraysGrow' /\ VisibleKept' /\ ThievesHold'
  <2>1. /\ mem' = mem /\ th' = th /\ top' \in Nat /\ top <= top' /\ FALSE \in BOOLEAN
        /\ l = Array => own[Array] <= v
    BY <1>1, <1>4
  <2>2. Store(l, v, FALSE) /\ l \in Loc
    BY <1>1, <1>2, <1>3, <1>4, Zenon
  <2> QED
    BY <1>6, <1>10, <2>1, <2>2, StoreKeeps, Zenon
<1>12. PushHasRoom'
  <2>1. /\ ow'.pc = "grow" /\ ow'.b = ow.b /\ ow'.t = ow.t /\ ow'.i = ow.i + 1
        /\ LogicalBottom' = LogicalBottom
    BY <1>1, <1>7 DEF TypeOK, OwnerState, LogicalBottom
  <2>2. /\ ow.b - ow.t <= own[Array] /\ ow.t <= ow.i /\ ow.i <= ow.b
        /\ \A i \in ow.t..(ow.i - 1) : own[Slot(2 * own[Array], i)] = ItemAt(i)
    BY <1>1 DEF PushHasRoom
  <2>3. ASSUME NEW i \in ow.t..ow.i
        PROVE  own'[Slot(2 * own[Array], i)] = ItemAt(i)
    <3>1. CASE i = ow.i
      BY <1>2, <1>3, <1>7, <3>1
    <3>2. CASE i # ow.i
      <4>1. i \in Int /\ i < ow.i /\ ow.i - i < 2 * own[Array] /\ i \in ow.t..(ow.i - 1)
        BY <1>1, <2>2, <3>2
      <4>2. Slot(2 * own[Array], i) # l
        BY <1>1, <1>2, <4>1, SlotsDiffer
      <4>3. Slot(2 * own[Array], i) \in Loc
        BY <1>1, <4>1, SlotLocations, LocationsDiffer
      <4> QED
        BY <1>7, <2>2, <4>1, <4>2, <4>3
    <3> QED
      BY <3>1, <3>2
  <2>4. \A i \in ow'.t..(ow'.i - 1) : own'[Slot(2 * own'[Array], i)] = ItemAt(i)'
    <3> SUFFICES ASSUME NEW i \in ow.t..ow.i
                 PROVE  own'[Slot(2 * own[Array], i)] = ItemAt(i)'
      BY <1>1, <1>7, <2>1
    <3> QED
      BY <1>1, <1>9, <2>3
  <2>5. ow'.i <= ow'.b /\ ow'.t <= ow'.i /\ ow'.b - ow'.t <= own'[Array]
    BY <1>1, <1>7, <2>1, <2>2
  <2>6. LogicalBottom' - top' <= own'[Array] /\ ow'.t <= top'
    BY <1>1, <1>7, <2>1 DEF PushHasRoom
  <2> QED
    BY <2>1, <2>4, <2>5, <2>6 DEF PushHasRoom
<1>13. LogicalBottom' = LogicalBottom
  BY <1>1, <1>7 DEF LogicalBottom, TypeOK, OwnerState
<1>14. ItemsStay
  BY <1>1, <1>10, <1>13 DEF ItemsStay
<1> QED
  BY <1>11, <1>12, <1>14 DEF ViewInv

(* The new array is published with everything that the old one holds. *)
LEMMA ViewGrowPublish ==
  ASSUME IInv, ViewInv, GrowPublish
  PROVE  ViewInv' /\ ItemsStay
<1>1. /\ own[Array] \in Sizes /\ own[Array] \in Int /\ own[Array] > 0 /\ 2 * own[Array] \in Sizes
      /\ top \in Nat /\ LogicalBottom \in Int /\ ow.b \in Int /\ ow.i \in Int /\ ow.t \in Int
      /\ ow.pc = "grow" /\ ow.i = ow.b /\ ow.b = own[Bottom] /\ TypeOK /\ PushHasRoom
      /\ Store(Array, 2 * own[Array], FALSE)
      /\ ow' = [ow EXCEPT !.pc = "put"] /\ UNCHANGED <<mem, top, th>>
      /\ LogicalBottom = ow.b
  BY NumberTypes DEF GrowPublish, LocalsAgree, ViewInv, LogicalBottom
<1>2. [loc |-> Array, val |-> 2 * own[Array], release |-> FALSE] \in PendingStores
  BY <1>1 DEF PendingStores
<1>3. PICK v : v = 2 * own[Array]
  OBVIOUS
<1>4. /\ own'[Array] = v /\ \A m \in Loc \ {Array} : own'[m] = own[m]
      /\ own'[Bottom] = own[Bottom]
  <2>1. /\ own'[Array] = v /\ \A m \in Loc \ {Array} : own'[m] = own[m]
    BY <1>1, <1>2, <1>3, LocationsDiffer, StoreEffect DEF TypeOK
  <2> QED
    BY <2>1, LocationsDiffer
<1>5. /\ ow.b - ow.t <= own[Array] /\ ow.t <= top
      /\ \A i \in ow.t..(ow.b - 1) : own[Slot(2 * own[Array], i)] = ItemAt(i)
  BY <1>1 DEF PushHasRoom
<1>6. \A i \in top'..(LogicalBottom - 1) :
        /\ ItemAt(i)' = ItemAt(i)
        /\ \A m \in Sizes : m <= own[Array] => Slot(m, i) # Array
  <2> SUFFICES ASSUME NEW i \in top..(ow.b - 1)
               PROVE  /\ ItemAt(i)' = ItemAt(i)
                      /\ \A m \in Sizes : m <= own[Array] => Slot(m, i) # Array
    BY <1>1
  <2>1. i \in Int /\ i \in ow.t..(ow.b - 1)
    BY <1>1, <1>5
  <2>2. Slot(v, i) \in Loc \ {Array}
    BY <1>1, <1>3, <2>1, SlotLocations, LocationsDiffer
  <2>3. own'[Slot(own'[Array], i)] = own[Slot(v, i)]
    BY <1>4, <2>2
  <2>4. own[Slot(v, i)] = ItemAt(i)
    BY <1>3, <1>5, <2>1
  <2> QED
    BY <2>1, <2>3, <2>4, SlotLocations DEF ItemAt
<1>7. own[Array] <= v
  BY <1>1, <1>3
<1>8. OwnerSees' /\ ArraysGrow' /\ VisibleKept' /\ ThievesHold'
  <2>1. /\ mem' = mem /\ th' = th /\ top' \in Nat /\ top <= top' /\ FALSE \in BOOLEAN
        /\ Array = Array => own[Array] <= v
    BY <1>1, <1>7
  <2>2. Store(Array, v, FALSE) /\ Array \in Loc
    BY <1>1, <1>3, LocationsDiffer, Zenon
  <2> QED
    BY <1>2, <1>3, <1>6, <2>1, <2>2, StoreKeeps, Zenon
<1>9. PushHasRoom'
  <2>1. /\ ow'.pc = "put" /\ ow'.b = ow.b /\ ow'.t = ow.t
        /\ LogicalBottom' = LogicalBottom
    BY <1>1, <1>4 DEF TypeOK, OwnerState, LogicalBottom
  <2>2. LogicalBottom - top <= own[Array]
    BY <1>1 DEF PushHasRoom
  <2> QED
    BY <1>1, <1>3, <1>4, <1>5, <2>1, <2>2 DEF PushHasRoom
<1>10. LogicalBottom' = LogicalBottom
  BY <1>1, <1>4 DEF LogicalBottom, TypeOK, OwnerState
<1>11. ItemsStay
  BY <1>1, <1>6, <1>10 DEF ItemsStay
<1> QED
  BY <1>8, <1>9, <1>11 DEF ViewInv

(* The slot of the new item is none of those in use. *)
LEMMA ViewPushPut ==
  ASSUME IInv, ViewInv, PushPut
  PROVE  ViewInv' /\ ItemsStay
<1>1. /\ own[Array] \in Sizes /\ own[Array] \in Int /\ own[Array] > 0
      /\ top \in Nat /\ LogicalBottom \in Int /\ ow.b \in Int /\ ow.t \in Int
      /\ ow.pc = "put" /\ ow.b = own[Bottom] /\ ow.x \in Item /\ TypeOK /\ PushHasRoom
      /\ Store(Slot(own[Array], ow.b), ow.x, FALSE)
      /\ ow' = [ow EXCEPT !.pc = "publish"] /\ UNCHANGED <<mem, top, th>>
      /\ LogicalBottom = ow.b
  BY NumberTypes DEF PushPut, LocalsAgree, ViewInv, LogicalBottom
<1>2. PICK l : l = Slot(own[Array], ow.b)
  OBVIOUS
<1>3. PICK x \in Item : x = ow.x
  BY <1>1
<1>4. l \in Slots /\ l \in Loc /\ l # Array /\ l # Bottom
  BY <1>1, <1>2, SlotLocations, LocationsDiffer
<1>5. [loc |-> l, val |-> x, release |-> FALSE] \in PendingStores
  BY <1>4 DEF PendingStores, Content
<1>6. /\ own'[l] = x /\ \A m \in Loc \ {l} : own'[m] = own[m]
      /\ own'[Array] = own[Array] /\ own'[Bottom] = own[Bottom]
  <2>1. /\ own'[l] = x /\ \A m \in Loc \ {l} : own'[m] = own[m]
    BY <1>1, <1>2, <1>3, <1>4, <1>5, StoreEffect DEF TypeOK
  <2> QED
    BY <1>4, <2>1, LocationsDiffer
<1>7. ow.b - top < own[Array]
  BY <1>1 DEF PushHasRoom
<1>8. \A i \in top'..(LogicalBottom - 1) :
        /\ ItemAt(i)' = ItemAt(i)
        /\ \A m \in Sizes : m <= own[Array] => Slot(m, i) # l
  <2> SUFFICES ASSUME NEW i \in top..(ow.b - 1)
               PROVE  /\ ItemAt(i)' = ItemAt(i)
                      /\ \A m \in Sizes : m <= own[Array] => Slot(m, i) # l
    BY <1>1
  <2>1. i \in Int /\ i < ow.b /\ ow.b - i < own[Array]
    BY <1>1, <1>7
  <2>2. Slot(own[Array], i) # l
    BY <1>1, <1>2, <2>1, SlotsDiffer
  <2>3. Slot(own[Array], i) \in Loc
    BY <1>1, <2>1, SlotLocations, LocationsDiffer
  <2>4. ItemAt(i)' = ItemAt(i)
    BY <1>6, <2>2, <2>3 DEF ItemAt
  <2>5. ASSUME NEW m \in Sizes
        PROVE  Slot(m, i) # l
    BY <1>2, <2>2, ArraysDiffer
  <2> QED
    BY <2>4, <2>5
<1>9. OwnerSees' /\ ArraysGrow' /\ VisibleKept' /\ ThievesHold'
  <2>1. /\ mem' = mem /\ th' = th /\ top' \in Nat /\ top <= top' /\ FALSE \in BOOLEAN
        /\ l = Array => own[Array] <= x
    BY <1>1, <1>4
  <2>2. Store(l, x, FALSE) /\ l \in Loc
    BY <1>1, <1>2, <1>3, <1>4, Zenon
  <2> QED
    BY <1>5, <1>8, <2>1, <2>2, StoreKeeps, Zenon
<1>10. PushHasRoom'
  <2>1. /\ ow'.pc = "publish" /\ ow'.b = ow.b /\ ow'.t = ow.t /\ ow'.x = ow.x
        /\ LogicalBottom' = LogicalBottom
    BY <1>1, <1>6 DEF TypeOK, OwnerState, LogicalBottom
  <2>2. ItemAt(ow.b)' = x
    BY <1>2, <1>6, <2>1 DEF ItemAt
  <2> QED
    BY <1>1, <1>3, <1>6, <2>1, <2>2 DEF PushHasRoom, ItemAt
<1>11. LogicalBottom' = LogicalBottom
  BY <1>1, <1>6 DEF LogicalBottom, TypeOK, OwnerState
<1>12. ItemsStay
  BY <1>1, <1>8, <1>11 DEF ItemsStay
<1> QED
  BY <1>9, <1>10, <1>12 DEF ViewInv

(* A store of bottom moves no item. *)
LEMMA BottomKeeps ==
  ASSUME IInv, ViewInv, NEW v \in Int, NEW r \in BOOLEAN, Store(Bottom, v, r),
         mem' = mem, th' = th, top' \in Nat, top <= top'
  PROVE  /\ OwnerSees' /\ ArraysGrow' /\ VisibleKept' /\ ThievesHold'
         /\ own'[Bottom] = v /\ own'[Array] = own[Array]
         /\ \A i \in Int : ItemAt(i)' = ItemAt(i)
<1>1. /\ TypeOK /\ own[Array] \in Sizes /\ top \in Nat /\ LogicalBottom \in Int
  BY NumberTypes
<1>2. [loc |-> Bottom, val |-> v, release |-> r] \in PendingStores
  BY DEF PendingStores
<1>3. own'[Bottom] = v /\ \A m \in Loc \ {Bottom} : own'[m] = own[m]
  BY <1>1, <1>2, LocationsDiffer, StoreEffect DEF TypeOK
<1>4. own'[Array] = own[Array]
  BY <1>3, LocationsDiffer
<1>5. \A i \in Int : \A n \in Sizes : Slot(n, i) \in Loc /\ Slot(n, i) # Bottom
  BY SlotLocations, LocationsDiffer
<1>6. \A i \in Int : ItemAt(i)' = ItemAt(i)
  <2> SUFFICES ASSUME NEW i \in Int PROVE ItemAt(i)' = ItemAt(i)
    OBVIOUS
  <2>1. Slot(own[Array], i) \in Loc \ {Bottom}
    BY <1>1, <1>5
  <2>2. own'[Slot(own[Array], i)] = own[Slot(own[Array], i)]
    BY <1>3, <2>1
  <2> QED
    BY <1>4, <2>2, Zenon DEF ItemAt
<1>7. \A i \in top'..(LogicalBottom - 1) :
        /\ ItemAt(i)' = ItemAt(i)
        /\ \A m \in Sizes : m <= own[Array] => Slot(m, i) # Bottom
  BY <1>5, <1>6
<1>8. Bottom \in Loc /\ (Bottom = Array => own[Array] <= v)
  BY LocationsDiffer
<1>9. OwnerSees' /\ ArraysGrow' /\ VisibleKept' /\ ThievesHold'
  BY <1>2, <1>7, <1>8, StoreKeeps, Zenon
<1> QED
  BY <1>3, <1>4, <1>6, <1>9

(* push and pop end with a store of bottom, at the old logical bottom or   *)
(* -- a push -- one above it. *)
LEMMA ViewReturn ==
  ASSUME IInv, ViewInv, NEW r \in BOOLEAN, Store(Bottom, ow.b + 1, r), ow' = OwnerIdle,
         UNCHANGED <<mem, th>>, top' \in Nat, top <= top',
         (ow.b + 1) - top' <= own[Array]
  PROVE  ViewInv'
<1>1. ow.b + 1 \in Int /\ own[Array] \in Int /\ top \in Int /\ mem' = mem /\ th' = th
  BY NumberTypes
<1>2. /\ OwnerSees' /\ ArraysGrow' /\ VisibleKept' /\ ThievesHold'
      /\ own'[Bottom] = ow.b + 1 /\ own'[Array] = own[Array]
  BY <1>1, BottomKeeps, Zenon
<1>3. ow'.pc = "idle" /\ ow'.t = 0
  BY DEF OwnerIdle
<1>4. LogicalBottom' = ow.b + 1
  BY <1>2, <1>3 DEF LogicalBottom
<1>5. PushHasRoom'
  <2>3. 0 <= top'
    OBVIOUS
  <2>1. LogicalBottom' - top' <= own'[Array]
    BY <1>2, <1>4
  <2>4. ow'.t <= top'
    BY <1>3, <2>3
  <2>2. ow'.pc \notin {"grow", "put", "publish"}
    BY <1>3
  <2> QED
    BY <2>1, <2>2, <2>4 DEF PushHasRoom
<1> QED
  BY <1>2, <1>5 DEF ViewInv

(* Everything that the proofs below rest on is kept by every step. *)
LEMMA ViewStep ==
  ASSUME StoreOrder = "fifo", IInv, ViewInv, [Next]_vars
  PROVE  ViewInv'
<1>1. /\ own[Array] \in Sizes /\ own[Array] \in Int /\ own[Array] > 0
      /\ own[Bottom] \in Int /\ LogicalBottom \in Int /\ top \in Nat /\ top \in Int
      /\ ow.b \in Int /\ ow.t \in Int /\ ow.i \in Int
      /\ top <= LogicalBottom
      /\ TypeOK /\ LocalsAgree /\ IndexSafe /\ PushHasRoom
      /\ ow.b + 1 \in Int /\ TRUE \in BOOLEAN /\ FALSE \in BOOLEAN
      /\ LogicalBottom - top <= own[Array] /\ ow.t <= top
  BY NumberTypes DEF ViewInv, PushHasRoom
<1>2. ASSUME NEW x \in Item, PushLoad(x)
      PROVE  ViewInv'
  <2>1. UNCHANGED <<mem, own, sb, top, th>> /\ ow.pc = "idle" /\ LogicalBottom = own[Bottom]
    BY <1>2 DEF PushLoad, LogicalBottom
  <2>2. OwnerSees' /\ ArraysGrow' /\ VisibleKept' /\ ThievesHold'
    BY <2>1, NoStoreKeeps
  <2>3. /\ ow'.b = own[Bottom] /\ ow'.t = top /\ ow'.i = top
        /\ \/ ow'.pc = "grow"
           \/ ow'.pc = "put" /\ ~ (own[Bottom] - top > own[Array] - 1)
    BY <1>2 DEF PushLoad, Full
  <2>4. LogicalBottom' = own[Bottom]
    BY <2>1, <2>3 DEF LogicalBottom
  <2>5. \A i \in top..(top - 1) : FALSE
    BY <1>1
  <2>6. PushHasRoom'
    BY <1>1, <2>1, <2>3, <2>4, <2>5 DEF PushHasRoom
  <2> QED
    BY <2>2, <2>6 DEF ViewInv
<1>3. CASE PushPublish
  <2>1. /\ Store(Bottom, ow.b + 1, TRUE) /\ ow' = OwnerIdle /\ UNCHANGED <<mem, top, th>>
        /\ ow.pc = "publish"
    BY <1>3, Zenon DEF PushPublish
  <2>2. ow.b - top < own[Array]
    BY <1>1, <2>1 DEF PushHasRoom
  <2>3. (ow.b + 1) - top' <= own[Array] /\ top' \in Nat /\ top <= top'
    BY <1>1, <2>1, <2>2
  <2> QED
    BY <1>1, <2>1, <2>3, ViewReturn, Zenon
<1>4. CASE PopDecrement
  <2>1. /\ Store(Bottom, own[Bottom] - 1, FALSE) /\ UNCHANGED <<mem, top, th>>
        /\ ow.pc = "idle" /\ ow' = [OwnerIdle EXCEPT !.pc = "popTop", !.b = own[Bottom] - 1]
    BY <1>4, Zenon DEF PopDecrement
  <2>2. own[Bottom] - 1 \in Int /\ mem' = mem /\ th' = th /\ top' \in Nat /\ top <= top'
    BY <1>1, <2>1
  <2>3. /\ OwnerSees' /\ ArraysGrow' /\ VisibleKept' /\ ThievesHold'
        /\ own'[Bottom] = own[Bottom] - 1 /\ own'[Array] = own[Array]
    BY <1>1, <2>1, <2>2, BottomKeeps, Zenon
  <2>4. ow'.pc = "popTop" /\ ow'.t = 0
    BY <2>1 DEF OwnerIdle
  <2>5. LogicalBottom' = LogicalBottom
    BY <1>1, <2>1, <2>3, <2>4 DEF LogicalBottom
  <2>6. PushHasRoom'
    BY <1>1, <2>2, <2>1, <2>3, <2>4, <2>5 DEF PushHasRoom
  <2> QED
    BY <2>3, <2>6 DEF ViewInv
<1>5. CASE PopTake \/ PopLast \/ Empty
  <2>1. /\ UNCHANGED <<mem, own, sb, top, th>>
        /\ \/ ow' = OwnerIdle
           \/ ow'.pc = "popCas" /\ ow'.t = top /\ ow.pc = "popTop"
           \/ ow' = ow
    BY <1>1, <1>5 DEF PopTake, PopLast, Empty, TypeOK, OwnerState
  <2>2. /\ OwnerSees' /\ ArraysGrow' /\ VisibleKept' /\ ThievesHold'
        /\ \A i : ItemAt(i)' = ItemAt(i)
    BY <2>1, NoStoreKeeps
  <2>3. CASE ow' = OwnerIdle
    <3>1. ow'.pc = "idle" /\ ow'.t = 0
      BY <2>3 DEF OwnerIdle
    <3>2. LogicalBottom' \in Int /\ LogicalBottom' <= LogicalBottom
      BY <1>1, <2>1, <3>1 DEF LogicalBottom
    <3> QED
      BY <1>1, <2>1, <2>2, <3>1, <3>2 DEF PushHasRoom, ViewInv
  <2>4. CASE ow'.pc = "popCas" /\ ow'.t = top /\ ow.pc = "popTop"
    <3>1. LogicalBottom' = LogicalBottom
      BY <2>1, <2>4 DEF LogicalBottom
    <3> QED
      BY <1>1, <2>1, <2>2, <2>4, <3>1 DEF PushHasRoom, ViewInv
  <2>5. CASE ow' = ow
    <3>1. LogicalBottom' = LogicalBottom
      BY <2>1, <2>5 DEF LogicalBottom
    <3>2. PushHasRoom'
      BY <1>1, <2>1, <2>5, <3>1, Zenon DEF PushHasRoom, ItemAt
    <3> QED
      BY <2>2, <3>2 DEF ViewInv
  <2> QED
    BY <2>1, <2>3, <2>4, <2>5
<1>6. CASE PopEmpty \/ PopCas
  <2>1. /\ Store(Bottom, ow.b + 1, FALSE) /\ ow' = OwnerIdle /\ UNCHANGED <<mem, th>>
        /\ ow.pc \in {"popTop", "popCas"} /\ (top' = top \/ (top = ow.t /\ top' = ow.t + 1))
    BY <1>6 DEF PopEmpty, PopCas
  <2>2. LogicalBottom = ow.b + 1
    BY <1>1, <2>1 DEF LogicalBottom, LocalsAgree
  <2>3. top' \in Nat /\ top <= top' /\ (ow.b + 1) - top' <= own[Array]
    BY <1>1, <2>1, <2>2
  <2> QED
    BY <1>1, <2>1, <2>3, ViewReturn, Zenon
<1>7. CASE Flush
  BY <1>7, FlushKeeps
<1>8. ASSUME NEW p \in Thief, Steal(p)
      PROVE  ViewInv'
  <2>1. /\ th \in [Thief -> ThiefState] /\ UNCHANGED <<mem, own, sb, ow>>
        /\ th[p].t \in Nat /\ th[p].a \in Sizes /\ th[p].t <= top
    BY <1>1, <1>8 DEF TypeOK, ThiefState, LocalsAgree,
         Steal, StealTop, StealBottom, StealArray, StealGet, StealCas
  <2>2. ThiefIdle.pc = "idle"
    BY DEF ThiefIdle
  <2>3. CASE StealTop(p)
    <3>1. /\ top' = top /\ th'[p].pc = "bottom" /\ \A q \in Thief \ {p} : th'[q] = th[q]
      BY <2>1, <2>3 DEF StealTop, ThiefIdle
    <3> QED
      BY <1>1, <2>1, <3>1, ThiefKeeps
  <2>4. CASE StealBottom(p)
    <3>1. /\ top' = top /\ \A q \in Thief \ {p} : th'[q] = th[q]
          /\ \/ th'[p].pc = "idle"
             \/ th'[p].pc = "array" /\ th'[p].t = th[p].t /\ th[p].t < mem[Bottom]
      BY <2>1, <2>2, <2>4 DEF StealBottom, ThiefState
    <3>2. ASSUME th[p].t = top, th[p].t < mem[Bottom]
          PROVE  Kept(0, top)
      <4>1. mem[Bottom] \in Seen(0, Bottom) /\ 0 \in 0..Len(sb) /\ mem[Bottom] \in Int
        BY <1>1, SeenNow DEF TypeOK, IsMemory
      <4>2. top \in top..(mem[Bottom] - 1)
        BY <1>1, <3>2, <4>1
      <4> QED
        BY <4>1, <4>2 DEF ViewInv, VisibleKept
    <3> QED
      BY <1>1, <2>1, <3>1, <3>2, ThiefKeeps
  <2>5. CASE StealArray(p)
    <3>1. /\ top' = top /\ \A q \in Thief \ {p} : th'[q] = th[q]
          /\ th[p].pc = "array" /\ th'[p] = [th[p] EXCEPT !.pc = "slot", !.a = mem[Array]]
      BY <2>1, <2>5 DEF StealArray
    <3>2. th'[p].pc = "slot" /\ th'[p].a = mem[Array] /\ th'[p].t = th[p].t
      BY <2>1, <3>1 DEF ThiefState
    <3>3. mem[Array] \in Seen(0, Array) /\ 0 \in 0..Len(sb)
      BY <1>1, SeenNow DEF TypeOK
    <3>4. mem[Array] <= own[Array]
      BY <3>3 DEF ViewInv, ArraysGrow
    <3>5. th[p].t = top => Kept(0, top)
      BY <3>1 DEF ViewInv, ThievesHold
    <3>6. th[p].t = top => \A j \in 0..Len(sb) :
                             \A x \in Seen(j, Slot(mem[Array], top)) : x = ItemAt(top)
      BY <3>3, <3>5 DEF Kept
    <3>7. th'[p].t = top' =>
            /\ th'[p].a <= own[Array]
            /\ \A j \in 0..Len(sb) :
                 \A x \in Seen(j, Slot(th'[p].a, top')) : x = ItemAt(top')
      BY <3>1, <3>2, <3>4, <3>6, Zenon
    <3>8. th'[p].pc # "array" /\ th'[p].pc # "cas" /\ top' \in Nat /\ top <= top'
      BY <1>1, <3>1, <3>2
    <3> QED
      BY <2>1, <3>1, <3>7, <3>8, ThiefKeeps, Zenon
  <2>6. CASE StealGet(p)
    <3> DEFINE y == mem[Slot(th[p].a, th[p].t)]
    <3>1. /\ top' = top /\ \A q \in Thief \ {p} : th'[q] = th[q]
          /\ th[p].pc = "slot" /\ th'[p] = [th[p] EXCEPT !.pc = "cas", !.x = y]
      BY <2>1, <2>6 DEF StealGet
    <3>2. y \in Seen(0, Slot(th[p].a, th[p].t)) /\ 0 \in 0..Len(sb)
      BY <1>1, SeenNow DEF TypeOK
    <3>3. th[p].t = top => y = ItemAt(top)
      BY <3>1, <3>2 DEF ViewInv, ThievesHold
    <3> HIDE DEF y
    <3>4. th'[p].pc = "cas" /\ th'[p].x = y /\ th'[p].t = th[p].t
      BY <2>1, <3>1 DEF ThiefState
    <3>5. th'[p].t = top' => th'[p].x = ItemAt(top')
      BY <3>1, <3>3, <3>4, Zenon
    <3>6. th'[p].pc # "array" /\ th'[p].pc # "slot" /\ top' \in Nat /\ top <= top'
      BY <1>1, <3>1, <3>4
    <3> QED
      BY <2>1, <3>1, <3>5, <3>6, ThiefKeeps, Zenon
  <2>7. CASE StealCas(p)
    <3>1. /\ \A q \in Thief \ {p} : th'[q] = th[q] /\ th'[p].pc = "idle"
          /\ top' \in Nat /\ top <= top'
      BY <1>1, <2>1, <2>2, <2>7 DEF StealCas
    <3> QED
      BY <2>1, <2>7, <2>2, <3>1, ThiefKeeps DEF StealCas
  <2> QED
    BY <1>8, <2>3, <2>4, <2>5, <2>6, <2>7 DEF Steal
<1>9. CASE UNCHANGED vars
  <2>1. UNCHANGED <<mem, own, sb, top, th, ow>>
    BY <1>9 DEF vars
  <2>2. OwnerSees' /\ ArraysGrow' /\ VisibleKept' /\ ThievesHold'
    BY <2>1, NoStoreKeeps
  <2>3. PushHasRoom'
    BY <1>1, <2>1, Zenon DEF PushHasRoom, LogicalBottom, ItemAt
  <2> QED
    BY <2>2, <2>3 DEF ViewInv
<1> QED
  BY <1>2, <1>3, <1>4, <1>5, <1>6, <1>7, <1>8, <1>9, ViewGrowCopy, ViewGrowPublish, ViewPushPut
     DEF Next, OwnerStep, Push, Pop

-----------------------------------------------------------------------------
(* The thief that wins holds the oldest item.                              *)

(* The inductive invariant holds in every reachable state. *)
LEMMA ViewInvariant ==
  ASSUME StoreOrder = "fifo"
  PROVE  Spec => [](IInv /\ ViewInv)
<1>1. Init => IInv /\ ViewInv
  BY IInvInit, ViewInit
<1>2. IInv /\ ViewInv /\ [Next]_vars => (IInv /\ ViewInv)'
  <2> SUFFICES ASSUME IInv, ViewInv, [Next]_vars PROVE (IInv /\ ViewInv)'
    OBVIOUS
  <2>1. IInv'
    BY TypeStep, IndexStep DEF IInv
  <2> QED
    BY <2>1, ViewStep
<1> QED
  BY <1>1, <1>2, PTL DEF Spec

(* On a machine that keeps the order of stores, a thief whose               *)
(* compare-and-swap is about to succeed has read the oldest item of the    *)
(* deque: whichever array it loaded, grow had filled the slot before that  *)
(* array could be seen and no later push has reused it -- although push    *)
(* publishes a grown array with a relaxed store (steal lines 122-124).     *)
THEOREM WinnersHoldOldest ==
  ASSUME StoreOrder = "fifo"
  PROVE  Spec => []WinnerHoldsOldest
<1>1. IInv /\ ViewInv => WinnerHoldsOldest
  <2> SUFFICES ASSUME IInv, ViewInv, NEW p \in Thief, th[p].pc = "cas", th[p].t = top
               PROVE  th[p].x = Items[1]
    BY DEF WinnerHoldsOldest
  <2>1. top \in Int /\ LogicalBottom \in Int /\ top < LogicalBottom
    BY NumberTypes DEF IndexSafe
  <2>2. 1 \in 1..(LogicalBottom - top) /\ top + 1 - 1 = top
    BY <2>1
  <2>3. Items[1] = ItemAt(top)
    BY <2>2 DEF Items, ItemAt
  <2> QED
    BY <2>3 DEF ViewInv, ThievesHold
<1> QED
  BY <1>1, ViewInvariant, PTL

-----------------------------------------------------------------------------
(* The deque implements WSDeque.                                           *)

(* What Items is, as a sequence. *)
ItemsRead ==
  /\ Items \in Seq(Content) /\ Len(Items) = LogicalBottom - top
  /\ \A k \in 1..(LogicalBottom - top) : Items[k] = ItemAt(top + k - 1)
  /\ LogicalBottom \in Int /\ top \in Nat /\ top <= LogicalBottom

LEMMA ItemsAre == IInv => ItemsRead
<1> SUFFICES ASSUME IInv PROVE ItemsRead
  OBVIOUS
<1>1. /\ LogicalBottom \in Int /\ top \in Nat /\ top <= LogicalBottom
      /\ own[Array] \in Sizes /\ TypeOK
  BY NumberTypes
<1>2. PICK n \in Nat : n = LogicalBottom - top
  BY <1>1
<1>3. \A i \in Int : ItemAt(i) \in Content
  BY <1>1, SlotLocations DEF TypeOK, IsMemory, ItemAt
<1>4. Items = [k \in 1..n |-> ItemAt(top + k - 1)]
  BY <1>2 DEF Items, ItemAt
<1>5. \A k \in 1..n : ItemAt(top + k - 1) \in Content
  BY <1>1, <1>3
<1>6. Items \in Seq(Content) /\ Len(Items) = n
  BY <1>4, <1>5
<1> QED
  BY <1>1, <1>2, <1>4, <1>6 DEF ItemsRead

LEMMA ItemsAreNext == IInv' => ItemsRead'
BY ItemsAre, PTL

(* The four things that a step can do to the items. *)
LEMMA ItemsKept ==
  ASSUME ItemsRead, ItemsRead', ItemsStay
  PROVE  Items' = Items
<1>1. \A k \in 1..(LogicalBottom - top) : ItemAt(top + k - 1)' = ItemAt(top + k - 1)
  <2> SUFFICES ASSUME NEW k \in 1..(LogicalBottom - top)
               PROVE  ItemAt(top + k - 1)' = ItemAt(top + k - 1)
    OBVIOUS
  <2>1. top + k - 1 \in top..(LogicalBottom - 1)
    BY DEF ItemsRead
  <2> QED
    BY <2>1 DEF ItemsStay, ItemAt
<1>2. /\ Items \in Seq(Content) /\ Items' \in Seq(Content) /\ Len(Items') = Len(Items)
      /\ \A k \in 1..Len(Items) : Items'[k] = Items[k]
  BY <1>1 DEF ItemsRead, ItemsStay
<1> QED
  BY <1>2, SeqEqual

LEMMA ItemsPushed ==
  ASSUME ItemsRead, ItemsRead', NEW x \in Content, top' = top,
         LogicalBottom' = LogicalBottom + 1,
         \A i \in Int : own'[Slot(own'[Array], i)] = ItemAt(i), ItemAt(LogicalBottom) = x
  PROVE  Items' = Append(Items, x)
<1>1. /\ Append(Items, x) \in Seq(Content) /\ Items' \in Seq(Content)
      /\ Items \in Seq(Content) /\ Len(Items) = LogicalBottom - top
      /\ Len(Append(Items, x)) = Len(Items) + 1 /\ Len(Items') = Len(Items) + 1
      /\ LogicalBottom \in Int /\ top \in Int
  BY AppendProperties DEF ItemsRead
<1>2. ASSUME NEW k \in 1..(Len(Items) + 1)
      PROVE  Items'[k] = ItemAt(top + k - 1)
  BY <1>1 DEF ItemsRead, ItemAt
<1>3. ASSUME NEW k \in 1..(Len(Items) + 1)
      PROVE  Append(Items, x)[k] = ItemAt(top + k - 1)
  <2>1. CASE k \in 1..Len(Items)
    BY <1>1, <2>1, AppendProperties DEF ItemsRead
  <2>2. CASE k = Len(Items) + 1
    BY <1>1, <2>2, AppendProperties
  <2> QED
    BY <1>1, <2>1, <2>2
<1> QED
  BY <1>1, <1>2, <1>3, SeqEqual

LEMMA ItemsPopped ==
  ASSUME ItemsRead, ItemsRead', top' = top, LogicalBottom' = LogicalBottom - 1,
         \A i \in Int : own'[Slot(own'[Array], i)] = ItemAt(i)
  PROVE  /\ Items # <<>> /\ Items' = SubSeq(Items, 1, Len(Items) - 1)
         /\ Items[Len(Items)] = ItemAt(LogicalBottom - 1)
<1>1. /\ Items' \in Seq(Content) /\ Items \in Seq(Content)
      /\ Len(Items) = LogicalBottom - top /\ Len(Items') = Len(Items) - 1
      /\ LogicalBottom \in Int /\ top \in Int /\ top <= LogicalBottom - 1
  BY DEF ItemsRead
<1>2. \A k \in 1..(Len(Items) - 1) : Items'[k] = Items[k]
  BY <1>1 DEF ItemsRead, ItemAt
<1>3. \A k \in 1..(Len(Items) - 1) : Items[k] \in Content
  BY <1>1
<1>4. /\ SubSeq(Items, 1, Len(Items) - 1) \in Seq(Content)
      /\ Len(SubSeq(Items, 1, Len(Items) - 1)) = Len(Items) - 1
      /\ \A k \in 1..(Len(Items) - 1) : SubSeq(Items, 1, Len(Items) - 1)[k] = Items[k]
  BY <1>1, <1>3
<1>5. Items[Len(Items)] = ItemAt(LogicalBottom - 1)
  BY <1>1 DEF ItemsRead
<1>6. Items' = SubSeq(Items, 1, Len(Items) - 1)
  BY <1>1, <1>2, <1>4, SeqEqual
<1> QED
  BY <1>1, <1>5, <1>6

LEMMA ItemsStolen ==
  ASSUME ItemsRead, ItemsRead', top' = top + 1, LogicalBottom' = LogicalBottom,
         \A i \in Int : own'[Slot(own'[Array], i)] = ItemAt(i)
  PROVE  Items # <<>> /\ Items' = Tail(Items) /\ Head(Items) = ItemAt(top)
<1>1. /\ Items' \in Seq(Content) /\ Items \in Seq(Content)
      /\ Len(Items) = LogicalBottom - top /\ Len(Items') = Len(Items) - 1
      /\ LogicalBottom \in Int /\ top \in Int /\ top + 1 <= LogicalBottom
  BY DEF ItemsRead
<1>2. Items # <<>>
  BY <1>1
<1>3. /\ Tail(Items) \in Seq(Content) /\ Len(Tail(Items)) = Len(Items) - 1
      /\ \A k \in 1..(Len(Items) - 1) : Tail(Items)[k] = Items[k + 1]
  BY <1>1, <1>2, HeadTailProperties, SMTT(30)
<1>4. \A k \in 1..(Len(Items) - 1) : Items'[k] = Items[k + 1]
  <2> SUFFICES ASSUME NEW k \in 1..(Len(Items) - 1) PROVE Items'[k] = Items[k + 1]
    OBVIOUS
  <2>1. Items'[k] = ItemAt(top + 1 + k - 1)
    BY <1>1 DEF ItemsRead, ItemAt
  <2>2. Items[k + 1] = ItemAt(top + (k + 1) - 1)
    BY <1>1 DEF ItemsRead
  <2>3. top + 1 + k - 1 = top + (k + 1) - 1
    BY <1>1
  <2> QED
    BY <2>1, <2>2, <2>3, Zenon
<1>5. Head(Items) = Items[1] /\ Items[1] = ItemAt(top)
  BY <1>1 DEF ItemsRead
<1> QED
  BY <1>1, <1>2, <1>3, <1>4, <1>5, SeqEqual

(* Every step of the code is a step of WSDeque with the same answer, or    *)
(* none at all. *)
LEMMA StepMaps ==
  ASSUME StoreOrder = "fifo", IInv, ViewInv, IInv', [Next]_vars
  PROVE  [Deque!Next]_<<Items, out>>
<1> USE DEF Deque!Next
<1>1. /\ own[Bottom] \in Int /\ LogicalBottom \in Int /\ top \in Int
      /\ ow.b \in Int /\ ow.t \in Int /\ top <= LogicalBottom
      /\ own[Array] \in Sizes /\ TypeOK /\ LocalsAgree /\ IndexSafe /\ PushHasRoom
      /\ ow.b + 1 \in Int /\ TRUE \in BOOLEAN /\ FALSE \in BOOLEAN
      /\ ThievesHold /\ ItemsRead /\ ItemsRead'
  BY NumberTypes, ItemsAre, ItemsAreNext DEF ViewInv
<1>2. ASSUME ItemsStay, out' = out
      PROVE  [Deque!Next]_<<Items, out>>
  BY <1>1, <1>2, ItemsKept
<1>3. ASSUME UNCHANGED <<own, top>>, LogicalBottom' = LogicalBottom
      PROVE  ItemsStay
  BY <1>3 DEF ItemsStay, ItemAt
<1>4. ASSUME NEW x \in Item, PushLoad(x)
      PROVE  [Deque!Next]_<<Items, out>>
  <2>1. UNCHANGED <<own, top>> /\ out' = out /\ LogicalBottom' = LogicalBottom
    BY <1>4 DEF PushLoad, LogicalBottom
  <2> QED
    BY <1>2, <1>3, <2>1
<1>5. CASE GrowCopy \/ GrowPublish \/ PushPut
  <2>1. ItemsStay
    BY <1>5, ViewGrowCopy, ViewGrowPublish, ViewPushPut
  <2>2. out' = out
    BY <1>5 DEF GrowCopy, GrowPublish, PushPut
  <2> QED
    BY <1>2, <2>1, <2>2
<1>6. CASE PushPublish
  <2>1. /\ Store(Bottom, ow.b + 1, TRUE) /\ ow' = OwnerIdle /\ UNCHANGED <<mem, top, th, out>>
        /\ ow.pc = "publish"
    BY <1>6, Zenon DEF PushPublish
  <2>2. mem' = mem /\ th' = th /\ top' \in Nat /\ top <= top'
    BY <1>1, <2>1 DEF TypeOK
  <2>3. /\ own'[Bottom] = ow.b + 1 /\ \A i \in Int : ItemAt(i)' = ItemAt(i)
    BY <1>1, <2>1, <2>2, BottomKeeps, Zenon
  <2>4. LogicalBottom = ow.b /\ LogicalBottom' = LogicalBottom + 1
    BY <1>1, <2>1, <2>3 DEF LogicalBottom, LocalsAgree, OwnerIdle
  <2>5. ItemAt(LogicalBottom) = ow.x /\ ow.x \in Item /\ ow.x \in Content
    BY <1>1, <2>1, <2>4 DEF PushHasRoom, LocalsAgree, Content
  <2>6. Items' = Append(Items, ow.x)
    <3>1. \A i \in Int : own'[Slot(own'[Array], i)] = ItemAt(i)
      BY <2>3 DEF ItemAt
    <3> QED
      BY <1>1, <2>1, <2>4, <2>5, <3>1, ItemsPushed
  <2> QED
    BY <2>1, <2>5, <2>6 DEF Deque!Push
<1>7. CASE PopDecrement
  <2>1. /\ Store(Bottom, own[Bottom] - 1, FALSE) /\ UNCHANGED <<mem, top, th, out>>
        /\ ow.pc = "idle" /\ ow' = [OwnerIdle EXCEPT !.pc = "popTop", !.b = own[Bottom] - 1]
    BY <1>7, Zenon DEF PopDecrement
  <2>2. own[Bottom] - 1 \in Int /\ mem' = mem /\ th' = th /\ top' \in Nat /\ top <= top'
    BY <1>1, <2>1 DEF TypeOK
  <2>3. own'[Bottom] = own[Bottom] - 1 /\ \A i \in Int : ItemAt(i)' = ItemAt(i)
    BY <1>1, <2>1, <2>2, BottomKeeps, Zenon
  <2>4. LogicalBottom' = LogicalBottom
    BY <1>1, <2>1, <2>3 DEF LogicalBottom, OwnerIdle
  <2>5. ItemsStay
    BY <1>1, <2>1, <2>3, <2>4 DEF ItemsStay
  <2> QED
    BY <1>2, <2>1, <2>5
<1>8. CASE PopTake
  <2>1. /\ ow.pc = "popTop" /\ ow' = OwnerIdle /\ UNCHANGED <<own, top>> /\ top < ow.b
        /\ out' = <<Owner, ItemAt(ow.b)>>
    BY <1>8 DEF PopTake, ItemAt
  <2>2. LogicalBottom = ow.b + 1 /\ LogicalBottom' = LogicalBottom - 1
    BY <1>1, <2>1 DEF LogicalBottom, LocalsAgree, OwnerIdle
  <2>3. \A i \in Int : own'[Slot(own'[Array], i)] = ItemAt(i)
    BY <2>1 DEF ItemAt
  <2>4. /\ Items # <<>> /\ Items' = SubSeq(Items, 1, Len(Items) - 1)
        /\ Items[Len(Items)] = ItemAt(LogicalBottom - 1)
    BY <1>1, <2>1, <2>2, <2>3, ItemsPopped
  <2>5. LogicalBottom - 1 = ow.b
    BY <1>1, <2>2
  <2> QED
    BY <2>1, <2>4, <2>5 DEF Deque!Pop
<1>9. CASE PopLast
  <2>1. UNCHANGED <<own, top>> /\ out' = out /\ LogicalBottom' = LogicalBottom
    BY <1>1, <1>9 DEF PopLast, LogicalBottom, TypeOK, OwnerState
  <2> QED
    BY <1>2, <1>3, <2>1
<1>10. ASSUME Store(Bottom, ow.b + 1, FALSE), ow' = OwnerIdle, UNCHANGED <<mem, th>>,
              ow.pc \in {"popTop", "popCas"}, top' \in Nat, top <= top'
       PROVE  /\ LogicalBottom = ow.b + 1 /\ LogicalBottom' = LogicalBottom
              /\ \A i \in Int : ItemAt(i)' = ItemAt(i)
  <2>1. mem' = mem /\ th' = th
    BY <1>10
  <2>2. own'[Bottom] = ow.b + 1 /\ \A i \in Int : ItemAt(i)' = ItemAt(i)
    BY <1>1, <1>10, <2>1, BottomKeeps, Zenon
  <2> QED
    BY <1>1, <1>10, <2>2 DEF LogicalBottom, LocalsAgree, OwnerIdle
<1>11. ASSUME Store(Bottom, ow.b + 1, FALSE), ow' = OwnerIdle, UNCHANGED <<mem, th>>,
              ow.pc \in {"popTop", "popCas"}, top' = top, top > ow.b,
              out' = <<Owner, NoItem>>
       PROVE  [Deque!Next]_<<Items, out>>
  <2>1. top' \in Nat /\ top <= top'
    BY <1>1, <1>11 DEF TypeOK
  <2>2. /\ LogicalBottom = ow.b + 1 /\ LogicalBottom' = LogicalBottom
        /\ \A i \in Int : ItemAt(i)' = ItemAt(i)
    BY <1>10, <1>11, <2>1
  <2>3. ItemsStay
    BY <1>1, <1>11, <2>2 DEF ItemsStay
  <2>4. Items' = Items
    BY <1>1, <2>3, ItemsKept
  <2>5. Items = <<>>
    BY <1>1, <1>11, <2>2 DEF ItemsRead
  <2> QED
    BY <1>11, <2>4, <2>5 DEF Deque!Pop
<1>12. CASE PopEmpty
  BY <1>11, <1>12 DEF PopEmpty
<1>13. CASE PopCas
  <2>1. /\ Store(Bottom, ow.b + 1, FALSE) /\ ow' = OwnerIdle /\ UNCHANGED <<mem, th>>
        /\ ow.pc = "popCas" /\ ow.t = ow.b
        /\ \/ top = ow.t /\ top' = ow.t + 1 /\ out' = <<Owner, ItemAt(ow.b)>>
           \/ top # ow.t /\ top' = top /\ out' = <<Owner, NoItem>>
    BY <1>1, <1>13 DEF PopCas, ItemAt, LocalsAgree
  <2>2. CASE top = ow.t /\ top' = ow.t + 1 /\ out' = <<Owner, ItemAt(ow.b)>>
    <3>1. top' \in Nat /\ top <= top'
      BY <1>1, <2>2 DEF TypeOK
    <3>2. LogicalBottom = ow.b + 1 /\ LogicalBottom' = LogicalBottom
      BY <1>10, <2>1, <3>1
    <3>3. Len(Items) = 1 /\ Len(Items') = 0 /\ Items[1] = ItemAt(top)
      <4>1. LogicalBottom - top = 1 /\ LogicalBottom' - top' = 0
        BY <1>1, <2>1, <2>2, <3>2
      <4>2. 1 \in 1..(LogicalBottom - top) /\ top + 1 - 1 = top
        BY <1>1, <4>1
      <4> QED
        BY <1>1, <4>1, <4>2, Zenon DEF ItemsRead
    <3>4. Items # <<>> /\ Items' = <<>> /\ SubSeq(Items, 1, 0) = <<>>
      <4>1. Items \in Seq(Content) /\ Items' \in Seq(Content)
        BY <1>1 DEF ItemsRead
      <4>2. Items # <<>> /\ Items' = <<>>
        BY <3>3, <4>1
      <4> QED
        BY <4>2, SubSeqEmpty
    <3>5. Items' = SubSeq(Items, 1, Len(Items) - 1) /\ Items[Len(Items)] = ItemAt(ow.b)
      BY <2>1, <2>2, <3>3, <3>4
    <3> QED
      BY <2>2, <3>4, <3>5 DEF Deque!Pop
  <2>3. CASE top # ow.t /\ top' = top /\ out' = <<Owner, NoItem>>
    <3>1. top > ow.b
      BY <1>1, <2>1, <2>3 DEF PushHasRoom
    <3> QED
      BY <1>11, <2>1, <2>3, <3>1
  <2> QED
    BY <2>1, <2>2, <2>3
<1>14. CASE Empty
  <2>1. /\ UNCHANGED <<own, top>> /\ LogicalBottom' = LogicalBottom /\ LogicalBottom = own[Bottom]
        /\ out' = <<Owner, IF own[Bottom] - top = 0 THEN "empty" ELSE "nonempty">>
    BY <1>14 DEF Empty, LogicalBottom
  <2>2. Items' = Items
    BY <1>1, <1>3, <2>1, ItemsKept
  <2>3. own[Bottom] - top = 0 <=> Items = <<>>
    BY <1>1, <2>1 DEF ItemsRead
  <2> QED
    BY <2>1, <2>2, <2>3 DEF Deque!IsEmpty
<1>15. CASE Flush
  <2>1. UNCHANGED <<own, top>> /\ out' = out /\ LogicalBottom' = LogicalBottom
    BY <1>15 DEF Flush, LogicalBottom
  <2> QED
    BY <1>2, <1>3, <2>1
<1>16. ASSUME NEW p \in Thief, Steal(p)
       PROVE  [Deque!Next]_<<Items, out>>
  <2>1. UNCHANGED own /\ LogicalBottom' = LogicalBottom
    BY <1>16 DEF Steal, StealTop, StealBottom, StealArray, StealGet, StealCas, LogicalBottom
  <2>2. CASE top' = top /\ (out' = out \/ out' = <<p, NoItem>>)
    <3>1. Items' = Items
      BY <1>1, <1>3, <2>1, <2>2, ItemsKept
    <3> QED
      BY <2>2, <3>1 DEF Deque!StealFails
  <2>3. CASE StealCas(p) /\ top = th[p].t /\ top' = th[p].t + 1 /\ out' = <<p, th[p].x>>
    <3>1. th[p].pc = "cas" /\ th[p].x = ItemAt(top)
      BY <1>1, <2>3 DEF StealCas, ThievesHold
    <3>2. \A i \in Int : own'[Slot(own'[Array], i)] = ItemAt(i)
      BY <2>1 DEF ItemAt
    <3>3. Items # <<>> /\ Items' = Tail(Items) /\ Head(Items) = ItemAt(top)
      BY <1>1, <2>1, <2>3, <3>2, ItemsStolen
    <3> QED
      BY <2>3, <3>1, <3>3 DEF Deque!Steal
  <2>4. \/ top' = top /\ (out' = out \/ out' = <<p, NoItem>>)
        \/ StealCas(p) /\ top = th[p].t /\ top' = th[p].t + 1 /\ out' = <<p, th[p].x>>
    BY <1>16 DEF Steal, StealTop, StealBottom, StealArray, StealGet, StealCas
  <2> QED
    BY <2>2, <2>3, <2>4
<1>17. CASE UNCHANGED vars
  <2>1. UNCHANGED <<own, top>> /\ out' = out /\ LogicalBottom' = LogicalBottom
    BY <1>17 DEF vars, LogicalBottom
  <2> QED
    BY <1>2, <1>3, <2>1
<1> QED
  BY <1>4, <1>5, <1>6, <1>7, <1>8, <1>9, <1>12, <1>13, <1>14, <1>15, <1>16, <1>17
     DEF Next, OwnerStep, Push, Pop

(* On a machine that keeps the order of stores the Chase-Lev deque         *)
(* implements WSDeque: every push, pop, steal and test for emptiness takes *)
(* effect at one step, in the order of the items, with the answer of the   *)
(* atomic operation -- no item is lost, taken twice, reordered or made up, *)
(* for any number of thieves and however long stores stay in the buffer.   *)
THEOREM DequeImplementsWSDeque ==
  ASSUME StoreOrder = "fifo"
  PROVE  Spec => RefinesDeque
<1>1. Init => Deque!Init
  <2> SUFFICES ASSUME Init PROVE Deque!Init
    OBVIOUS
  <2>1. ItemsRead
    BY IInvInit, ItemsAre
  <2>2. LogicalBottom = 0 /\ top = 0
    BY LocationsDiffer DEF Init, FreshMemory, OwnerIdle, LogicalBottom
  <2>3. Items = <<>>
    BY <2>1, <2>2 DEF ItemsRead
  <2> QED
    BY <2>3 DEF Init, Deque!Init
<1>2. IInv /\ ViewInv /\ (IInv /\ ViewInv)' /\ [Next]_vars => [Deque!Next]_<<Items, out>>
  BY StepMaps
<1> QED
  BY <1>1, <1>2, ViewInvariant, PTL DEF Spec, RefinesDeque, Deque!Spec
=============================================================================
