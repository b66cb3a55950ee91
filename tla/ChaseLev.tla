----------------------------- MODULE ChaseLev -----------------------------
(***************************************************************************)
(* chase_lev_deque of mcsl_chaselev.hpp: one owner pushes and pops at      *)
(* `bottom', thieves steal at `top'; the items live in a circular array    *)
(* that the owner replaces by one of twice the size when it is full.       *)
(*                                                                         *)
(* Every shared word the owner writes with a plain (relaxed) store --      *)
(* bottom, array and the slots of the arrays -- is a location of a memory  *)
(* that thieves read (mem).  A store of the owner enters its store buffer  *)
(* (sb) and reaches mem later; the owner itself reads its own stores at    *)
(* once (own).  `top' is only ever written by compare-and-swap, which is   *)
(* atomic, so it needs no buffer.  StoreOrder says what may leave the      *)
(* buffer:                                                                 *)
(*   "fifo"    the oldest store only: x86-TSO, the machine the library is  *)
(*             built for (its context switch and cycle counter are x86     *)
(*             assembly);                                                  *)
(*   "fenced"  any store that overtakes no store to its own location and,  *)
(*             if a release fence precedes it, no store at all: what the   *)
(*             memory orders written in the source ask for by themselves.  *)
(*                                                                         *)
(* An array is named by its size: sizes only double, and an old array is   *)
(* kept alive (`previous'), so no two arrays have the same size.           *)
(***************************************************************************)
EXTENDS Integers, Sequences, SequencesExt

CONSTANTS
  Owner,        \* the worker that owns the deque
  Thief,        \* the workers that steal from it
  Item,         \* the fibers pushed
  NoItem,       \* nullptr
  Garbage,      \* the contents of a slot nobody has written
  InitSize,     \* size of the first array (64 in the source)
  Sizes,        \* sizes an array may have (bound: no growth beyond them)
  MaxIndex,     \* bound: a push is only started below this index
  StoreOrder    \* "fifo" or "fenced"

ASSUME SizesAssumption == Sizes \subseteq Nat \ {0} /\ InitSize \in Sizes
ASSUME MaxIndexAssumption == MaxIndex \in Nat
ASSUME StoreOrderAssumption == StoreOrder \in {"fifo", "fenced"}
ASSUME WorkerAssumption == Owner \notin Thief
ASSUME ItemAssumption == NoItem \notin Item /\ Garbage \notin Item

VARIABLES
  mem,      \* the memory thieves read: location -> value
  own,      \* the memory as the owner sees it: mem and its own pending stores
  sb,       \* the owner's store buffer, oldest store first
  top,      \* the index of the oldest item
  ow,       \* the owner's program counter and locals
  th,       \* each thief's program counter and locals
  out       \* <<worker, answer>> of the last operation that answered

vars == <<mem, own, sb, top, ow, th, out>>

-----------------------------------------------------------------------------
(* Memory: locations, stores and the store buffer.                         *)

Bottom == <<"bottom", 0, 0>>
Array == <<"array", 0, 0>>

(* Mutant of Slot: the index is not reduced modulo the size. *)
SlotUnwrapped(n, index) == <<"slot", n, index>>

(* items[index % size()] of the array of size n *)
Slot(n, index) == <<"slot", n, index % n>>

Slots == UNION {{<<"slot", n, k>> : k \in 0..(n - 1)} : n \in Sizes}
Loc == {Bottom, Array} \cup Slots
Content == Item \cup {Garbage}

(* A relaxed store of the owner; `release' if a release fence precedes it. *)
Store(loc, val, release) ==
  /\ sb' = Append(sb, [loc |-> loc, val |-> val, release |-> release])
  /\ own' = [own EXCEPT ![loc] = val]

MayLeave(k) ==
  /\ StoreOrder = "fifo" => k = 1
  /\ sb[k].release => k = 1
  /\ \A j \in 1..(k - 1) : sb[j].loc # sb[k].loc

(* One store reaches the memory the thieves read. *)
Flush ==
  \E k \in 1..Len(sb) :
    /\ MayLeave(k)
    /\ mem' = [mem EXCEPT ![sb[k].loc] = sb[k].val]
    /\ sb' = RemoveAt(sb, k)
    /\ UNCHANGED <<own, top, ow, th, out>>

-----------------------------------------------------------------------------
(* Program counters and locals.                                            *)

OwnerIdle == [pc |-> "idle", b |-> 0, t |-> 0, i |-> 0, x |-> NoItem]
ThiefIdle == [pc |-> "idle", t |-> 0, a |-> InitSize, x |-> Garbage]

FreshMemory ==
  [l \in Loc |-> IF l = Bottom THEN 0 ELSE IF l = Array THEN InitSize ELSE Garbage]

Init ==
  /\ mem = FreshMemory
  /\ own = mem
  /\ sb = <<>>
  /\ top = 0
  /\ ow = OwnerIdle
  /\ th = [p \in Thief |-> ThiefIdle]
  /\ out = <<Owner, NoItem>>

-----------------------------------------------------------------------------
(* push                                                                    *)

(* Mutant of Full: off by one, as if size() were the last index. *)
FullTooLate(b, t, n) == b - t > n

(* The test of push: b - t > a->size() - 1 *)
Full(b, t, n) == b - t > n - 1

(* Loads bottom, top and array.  The bounds: the index stays below MaxIndex *)
(* and an array larger than those of Sizes is never needed.                 *)
PushLoad(x) ==
  LET b == own[Bottom] IN
  /\ ow.pc = "idle"
  /\ b < MaxIndex
  /\ Full(b, top, own[Array]) => 2 * own[Array] \in Sizes
  /\ ow' = [pc |-> IF Full(b, top, own[Array]) THEN "grow" ELSE "put",
            b |-> b, t |-> top, i |-> top, x |-> x]
  /\ UNCHANGED <<mem, own, sb, top, th, out>>

(* One turn of the copying loop of grow: new_array->put(i, get(i)) *)
GrowCopy ==
  /\ ow.pc = "grow"
  /\ ow.i # ow.b
  /\ Store(Slot(2 * own[Array], ow.i), own[Slot(own[Array], ow.i)], FALSE)
  /\ ow' = [ow EXCEPT !.i = @ + 1]
  /\ UNCHANGED <<mem, top, th, out>>

(* The loop of grow has ended; push stores the new array (relaxed). *)
GrowPublish ==
  /\ ow.pc = "grow"
  /\ ow.i = ow.b
  /\ Store(Array, 2 * own[Array], FALSE)
  /\ ow' = [ow EXCEPT !.pc = "put"]
  /\ UNCHANGED <<mem, top, th, out>>

PushPut ==
  /\ ow.pc = "put"
  /\ Store(Slot(own[Array], ow.b), ow.x, FALSE)
  /\ ow' = [ow EXCEPT !.pc = "publish"]
  /\ UNCHANGED <<mem, top, th, out>>

(* Mutant of PushPublish: the release fence is missing. *)
PushPublishUnfenced ==
  /\ ow.pc = "publish"
  /\ Store(Bottom, ow.b + 1, FALSE)
  /\ ow' = OwnerIdle
  /\ UNCHANGED <<mem, top, th, out>>

(* The release fence and the store of bottom that makes the item stealable *)
PushPublish ==
  /\ ow.pc = "publish"
  /\ Store(Bottom, ow.b + 1, TRUE)
  /\ ow' = OwnerIdle
  /\ UNCHANGED <<mem, top, th, out>>

-----------------------------------------------------------------------------
(* pop                                                                     *)

PopDecrement ==
  LET b == own[Bottom] - 1 IN
  /\ ow.pc = "idle"
  /\ Store(Bottom, b, FALSE)
  /\ ow' = [OwnerIdle EXCEPT !.pc = "popTop", !.b = b]
  /\ UNCHANGED <<mem, top, th, out>>

(* Mutant of FencePassed: pop has no fence. *)
FenceMissing == TRUE

(* The sequentially consistent fence lets pop read top only once its store *)
(* of bottom is visible to everyone.                                       *)
FencePassed == sb = <<>>

(* Mutant of PopTake: the last item is taken without a compare-and-swap. *)
PopTakeUnraced ==
  /\ ow.pc = "popTop"
  /\ FencePassed
  /\ top <= ow.b
  /\ out' = <<Owner, own[Slot(own[Array], ow.b)]>>
  /\ ow' = OwnerIdle
  /\ UNCHANGED <<mem, own, sb, top, th>>

(* t < b: the item at b is the owner's without a race.  (Only the owner    *)
(* writes slots, so reading the slot is part of the same step.)            *)
PopTake ==
  /\ ow.pc = "popTop"
  /\ FencePassed
  /\ top < ow.b
  /\ out' = <<Owner, own[Slot(own[Array], ow.b)]>>
  /\ ow' = OwnerIdle
  /\ UNCHANGED <<mem, own, sb, top, th>>

(* t == b: the last item, which a thief may be taking. *)
PopLast ==
  /\ ow.pc = "popTop"
  /\ FencePassed
  /\ top = ow.b
  /\ ow' = [ow EXCEPT !.pc = "popCas", !.t = top]
  /\ UNCHANGED <<mem, own, sb, top, th, out>>

(* t > b: there was nothing to pop; bottom is restored. *)
PopEmpty ==
  /\ ow.pc = "popTop"
  /\ FencePassed
  /\ top > ow.b
  /\ Store(Bottom, ow.b + 1, FALSE)
  /\ out' = <<Owner, NoItem>>
  /\ ow' = OwnerIdle
  /\ UNCHANGED <<mem, top, th>>

(* The race for the last item, won or lost; bottom is restored. *)
PopCas ==
  /\ ow.pc = "popCas"
  /\ \/ /\ top = ow.t
        /\ top' = ow.t + 1
        /\ out' = <<Owner, own[Slot(own[Array], ow.b)]>>
     \/ /\ top # ow.t
        /\ top' = top
        /\ out' = <<Owner, NoItem>>
  /\ Store(Bottom, ow.b + 1, FALSE)
  /\ ow' = OwnerIdle
  /\ UNCHANGED <<mem, th>>

-----------------------------------------------------------------------------
(* size() == 0, which only the owner asks.  bottom is its own, so the load *)
(* of top is the one that counts.                                          *)

Empty ==
  /\ ow.pc = "idle"
  /\ out' = <<Owner, IF own[Bottom] - top = 0 THEN "empty" ELSE "nonempty">>
  /\ UNCHANGED <<mem, own, sb, top, ow, th>>

-----------------------------------------------------------------------------
(* steal                                                                   *)

StealTop(p) ==
  /\ th[p].pc = "idle"
  /\ th' = [th EXCEPT ![p] = [ThiefIdle EXCEPT !.pc = "bottom", !.t = top]]
  /\ UNCHANGED <<mem, own, sb, top, ow, out>>

(* Mutant of StealBottom: the last item looks like an empty deque. *)
StealBottomTooEarly(p) ==
  /\ th[p].pc = "bottom"
  /\ \/ /\ th[p].t + 1 < mem[Bottom]
        /\ th' = [th EXCEPT ![p] = [@ EXCEPT !.pc = "array"]]
        /\ out' = out
     \/ /\ th[p].t + 1 >= mem[Bottom]
        /\ th' = [th EXCEPT ![p] = ThiefIdle]
        /\ out' = <<p, NoItem>>
  /\ UNCHANGED <<mem, own, sb, top, ow>>

(* Loads bottom, after the fence: nothing there, or an item to go for. *)
StealBottom(p) ==
  /\ th[p].pc = "bottom"
  /\ \/ /\ th[p].t < mem[Bottom]
        /\ th' = [th EXCEPT ![p] = [@ EXCEPT !.pc = "array"]]
        /\ out' = out
     \/ /\ th[p].t >= mem[Bottom]
        /\ th' = [th EXCEPT ![p] = ThiefIdle]
        /\ out' = <<p, NoItem>>
  /\ UNCHANGED <<mem, own, sb, top, ow>>

StealArray(p) ==
  /\ th[p].pc = "array"
  /\ th' = [th EXCEPT ![p] = [@ EXCEPT !.pc = "slot", !.a = mem[Array]]]
  /\ UNCHANGED <<mem, own, sb, top, ow, out>>

StealGet(p) ==
  /\ th[p].pc = "slot"
  /\ th' = [th EXCEPT ![p] = [@ EXCEPT !.pc = "cas", !.x = mem[Slot(th[p].a, th[p].t)]]]
  /\ UNCHANGED <<mem, own, sb, top, ow, out>>

StealCas(p) ==
  /\ th[p].pc = "cas"
  /\ \/ /\ top = th[p].t
        /\ top' = th[p].t + 1
        /\ out' = <<p, th[p].x>>
     \/ /\ top # th[p].t
        /\ top' = top
        /\ out' = <<p, NoItem>>
  /\ th' = [th EXCEPT ![p] = ThiefIdle]
  /\ UNCHANGED <<mem, own, sb, ow>>

-----------------------------------------------------------------------------
Push == (\E x \in Item : PushLoad(x)) \/ GrowCopy \/ GrowPublish \/ PushPut \/ PushPublish
Pop == PopDecrement \/ PopTake \/ PopLast \/ PopEmpty \/ PopCas
OwnerStep == Push \/ Pop \/ Empty
Steal(p) == StealTop(p) \/ StealBottom(p) \/ StealArray(p) \/ StealGet(p) \/ StealCas(p)

Next == OwnerStep \/ Flush \/ \E p \in Thief : Steal(p)

Spec == Init /\ [][Next]_vars

(* Stores do reach memory, a call once begun is finished, and a worker     *)
(* that has nothing to do keeps stealing (the loop of acquire).  The owner *)
(* need not begin another call.                                            *)
Fairness ==
  /\ WF_vars(Flush)
  /\ WF_vars(ow.pc # "idle" /\ OwnerStep)
  /\ \A p \in Thief : WF_vars(Steal(p))

FairSpec == Spec /\ Fairness

-----------------------------------------------------------------------------
(* The deque the code represents.                                          *)

(* The index after the newest item: a pop that has lowered bottom has not  *)
(* taken its item before it has read top.                                  *)
LogicalBottom ==
  IF ow.pc \in {"popTop", "popCas"} THEN own[Bottom] + 1 ELSE own[Bottom]

Items ==
  [k \in 1..(LogicalBottom - top) |-> own[Slot(own[Array], top + k - 1)]]

-----------------------------------------------------------------------------
(* Properties                                                              *)

PendingStores ==
       [loc : {Bottom}, val : Int, release : BOOLEAN]
  \cup [loc : {Array}, val : Sizes, release : BOOLEAN]
  \cup [loc : Slots, val : Content, release : BOOLEAN]

OwnerState ==
  [pc : {"idle", "grow", "put", "publish", "popTop", "popCas"},
   b : Int, t : Nat, i : Nat, x : Item \cup {NoItem}]

ThiefState ==
  [pc : {"idle", "bottom", "array", "slot", "cas"},
   t : Nat, a : Sizes, x : Content]

IsMemory(m) ==
  /\ m \in [Loc -> Int \cup Sizes \cup Content]
  /\ m[Bottom] \in Int
  /\ m[Array] \in Sizes
  /\ \A l \in Slots : m[l] \in Content

(* Every variable has the shape the declarations above describe. *)
TypeOK ==
  /\ IsMemory(mem)
  /\ IsMemory(own)
  /\ sb \in Seq(PendingStores)
  /\ top \in Nat
  /\ ow \in OwnerState
  /\ th \in [Thief -> ThiefState]
  /\ out \in (Thief \cup {Owner}) \X (Content \cup {NoItem, "empty", "nonempty"})

(* The indices stay consistent across the buffer: top never passes the     *)
(* logical bottom (so size(), which the owner compares with 0, is never    *)
(* negative); no bottom a thief can read, now or once it has left the      *)
(* buffer, lies beyond it; and a thief about to win its compare-and-swap   *)
(* wins an index that is still in the deque.  This is what keeps an item   *)
(* from being taken by a pop and by a thief (pop line 99, push line 91).   *)
IndexSafe ==
  /\ top <= LogicalBottom
  /\ mem[Bottom] <= LogicalBottom
  /\ \A k \in 1..Len(sb) : sb[k].loc = Bottom => sb[k].val <= LogicalBottom
  /\ \A p \in Thief :
       th[p].pc \in {"array", "slot", "cas"} /\ th[p].t = top
         => th[p].t < LogicalBottom

(* A thief about to win holds the item its index stands for, whatever the  *)
(* array it read it from: neither a slot reused by a later push nor a slot *)
(* that grow has not filled yet (steal lines 122-124).                     *)
WinnerHoldsOldest ==
  \A p \in Thief : th[p].pc = "cas" /\ th[p].t = top => th[p].x = Items[1]

(* Every step of the code is one atomic step of the deque it implements,   *)
(* with the same answer, or none: nothing is lost, duplicated, reordered   *)
(* or made up, and empty() is right about the deque when it answers.       *)
Deque == INSTANCE WSDeque WITH items <- Items
RefinesDeque == Deque!Spec

(* If the owner stops, the thieves empty its deque: the last item too, and *)
(* items whose push is still in the store buffer.                          *)
IdleOwnerIsDrained == []<><<OwnerStep>>_vars \/ []<>(Items = <<>>)
=============================================================================
