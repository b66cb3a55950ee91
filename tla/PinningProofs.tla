--------------------------- MODULE PinningProofs ---------------------------
(***************************************************************************)
(* Proofs about Pinning, for any number of workers and cores and any room: *)
(* no core is given more workers than it has room for, dense packing fills *)
(* the cores from the highest id down, and sparse packing spreads the      *)
(* workers evenly.                                                         *)
(***************************************************************************)
EXTENDS Pinning, FiniteSetTheorems, TLAPS

USE RequestAssumption, CoresAssumption, RoomAssumption, NoneAssumption

-----------------------------------------------------------------------------
(* Where the dense search stands while there is room left somewhere: the   *)
(* cores above it are full and those below it untouched.                   *)
DenseFrontier ==
  packing = "dense" /\ (\E d \in Cores : left[d] # 0) =>
    /\ \A d \in Cores : d > resource => left[d] = 0
    /\ \A c \in Cores : c < resource => On(c) = {}

IInv == TypeOK /\ RoomRespected /\ DenseFrontier

LEMMA OnIsFinite ==
  ASSUME TypeOK, NEW c \in Cores
  PROVE  IsFiniteSet(On(c)) /\ Load(c) \in Nat
<1>1. IsFiniteSet(Worker)
  BY FS_Interval DEF Worker, TypeOK
<1>2. On(c) \subseteq Worker
  BY DEF On
<1> QED
  BY <1>1, <1>2, FS_Subset, FS_CardinalityType DEF Load

(* Before anything is placed no core is used and all of its room is left.  *)
LEMMA InitInv == Init => IInv
<1> SUFFICES ASSUME Init PROVE IInv
  OBVIOUS
<1>1. TypeOK
  BY DEF Init, TypeOK, Cores, Worker
<1>2. \A c \in Cores : On(c) = {}
  BY DEF Init, On, Worker, Cores
<1>3. ASSUME NEW c \in Cores
      PROVE  Load(c) + left[c] = room[c]
  <2>1. Load(c) = 0
    BY <1>2, FS_EmptySet DEF Load
  <2>2. left[c] = room[c] /\ left[c] \in Nat
    BY <1>1 DEF Init, TypeOK
  <2> QED
    BY <2>1, <2>2
<1>4. DenseFrontier
  BY <1>2 DEF DenseFrontier, Init, Cores
<1> QED
  BY <1>1, <1>3, <1>4 DEF IInv, RoomRespected

LEMMA PlaceInv ==
  ASSUME IInv, Place
  PROVE  IInv'
<1>1. /\ TypeOK /\ worker \in Worker /\ worker' = worker + 1
      /\ resource \in Cores /\ left[resource] \in Nat \ {0}
      /\ assignments[worker] = None
      /\ left' = [left EXCEPT ![resource] = @ - 1]
      /\ assignments' = [assignments EXCEPT ![worker] = resource]
      /\ UNCHANGED <<nb_workers, packing, binding, room, asserts, pc>>
  BY DEF IInv, TypeOK, Place, Placing, Worker, options
<1>2. Worker' = Worker
  BY <1>1 DEF Worker
<1>3. TypeOK'
  <2>1. resource' \in Cores
    BY <1>1 DEF Place, NextResource, Cores
  <2>2. left' \in [Cores -> Nat]
    BY <1>1 DEF TypeOK
  <2>3. assignments' \in [Worker -> Cores \cup {None}]
    BY <1>1 DEF TypeOK
  <2>4. \A w \in Worker : assignments'[w] = None <=> w >= worker'
    <3> TAKE w \in Worker
    <3>1. CASE w = worker
      BY <1>1, <3>1 DEF TypeOK, Cores, Worker
    <3>2. CASE w # worker
      BY <1>1, <3>2 DEF TypeOK, Worker
    <3> QED
      BY <3>1, <3>2
  <2> QED
    BY <1>1, <1>2, <2>1, <2>2, <2>3, <2>4 DEF TypeOK, Worker
<1> PICK core \in Cores : core = resource
  BY <1>1
<1>4. /\ On(core)' = On(core) \cup {worker}
      /\ worker \notin On(core)
      /\ \A c \in Cores : c # core => On(c)' = On(c)
  <2>1. assignments' = [assignments EXCEPT ![worker] = core]
    BY <1>1
  <2>2. assignments \in [Worker -> Cores \cup {None}] /\ None \notin Cores
    BY <1>1 DEF TypeOK, Cores
  <2> QED
    BY <1>1, <1>2, <2>1, <2>2 DEF On
<1>5. RoomRespected'
  <2>1. Load(core)' = Load(core) + 1
    BY <1>1, <1>4, OnIsFinite, FS_AddElement DEF Load
  <2>2. \A c \in Cores : c # core => Load(c)' = Load(c)
    BY <1>4 DEF Load
  <2>3. ASSUME NEW c \in Cores
        PROVE  Load(c)' + left'[c] = room[c]
    <3>1. Load(c) + left[c] = room[c] /\ Load(c) \in Nat /\ left[c] \in Nat
      BY <1>1, OnIsFinite DEF IInv, RoomRespected, TypeOK
    <3>2. CASE c = core
      BY <1>1, <2>1, <3>1, <3>2 DEF TypeOK
    <3>3. CASE c # core
      BY <1>1, <2>2, <3>1, <3>3 DEF TypeOK
    <3> QED
      BY <3>2, <3>3
  <2> QED
    BY <1>1, <2>3 DEF RoomRespected, Cores
<1>6. DenseFrontier'
  <2> SUFFICES ASSUME packing = "dense"
               PROVE  /\ \A d \in Cores : d > resource => left'[d] = 0
                      /\ \A c \in Cores : c < resource => On(c)' = {}
    BY <1>1 DEF DenseFrontier, Place, Cores
  <2>1. /\ \A d \in Cores : d > resource => left[d] = 0
        /\ \A c \in Cores : c < resource => On(c) = {}
    BY <1>1 DEF IInv, DenseFrontier
  <2> QED
    BY <1>1, <1>4, <2>1 DEF TypeOK, Cores
<1> QED
  BY <1>3, <1>5, <1>6 DEF IInv

LEMMA SkipInv ==
  ASSUME IInv, Skip
  PROVE  IInv'
<1>1. /\ TypeOK /\ left[resource] = 0 /\ resource' = NextResource(resource)
      /\ UNCHANGED <<nb_workers, packing, binding, room, asserts, pc, left,
                     worker, assignments>>
  BY DEF IInv, Skip, options
<1>2. resource' \in Cores
  BY <1>1 DEF TypeOK, NextResource, Cores
<1>3. TypeOK' /\ (\A c : On(c)' = On(c)) /\ Cores' = Cores
  BY <1>1, <1>2 DEF TypeOK, On, Worker, Cores
<1>4. RoomRespected'
  BY <1>1, <1>3 DEF IInv, RoomRespected, Load
<1>5. DenseFrontier'
  <2> SUFFICES ASSUME packing = "dense", NEW e \in Cores, left[e] # 0
               PROVE  /\ \A d \in Cores : d > resource' => left[d] = 0
                      /\ \A c \in Cores : c < resource' => On(c) = {}
    BY <1>1, <1>3 DEF DenseFrontier
  <2>1. /\ \A d \in Cores : d > resource => left[d] = 0
        /\ \A c \in Cores : c < resource => On(c) = {}
    BY DEF IInv, DenseFrontier
  <2>2. resource # 0
    BY <1>1, <2>1 DEF Cores
  <2>3. resource' = resource - 1 /\ resource \in Int
    BY <1>1, <2>2 DEF NextResource, TypeOK, Cores
  <2>4. \A d \in Cores : d \in Int
    BY DEF Cores
  <2>5. \A c \in Cores : c < resource' => On(c) = {}
    BY <2>1, <2>3, <2>4
  <2>6. \A d \in Cores : d > resource' => left[d] = 0
    BY <1>1, <2>1, <2>3, <2>4
  <2> QED
    BY <2>5, <2>6
<1> QED
  BY <1>3, <1>4, <1>5 DEF IInv

LEMMA StepInv == IInv /\ [Next]_vars => IInv'
<1> SUFFICES ASSUME IInv, [Next]_vars PROVE IInv'
  OBVIOUS
<1>1. CASE Place
  BY <1>1, PlaceInv
<1>2. CASE Skip
  BY <1>2, SkipInv
<1>3. CASE Die \/ BindToAll \/ BindByCore \/ Placed \/ UNCHANGED vars
  <2>1. /\ UNCHANGED <<nb_workers, packing, binding, room, asserts, left,
                       resource, worker, assignments>>
        /\ pc' = pc \/ pc' \in {"assign", "placed", "died", "aborted"}
    BY <1>3 DEF Die, BindToAll, BindByCore, Placed, Goto, vars, options
  <2>2. \A c : On(c)' = On(c)
    BY <2>1 DEF On, Worker
  <2>3. TypeOK'
    BY <2>1 DEF IInv, TypeOK, Worker, Cores
  <2> QED
    BY <2>1, <2>2, <2>3 DEF IInv, RoomRespected, DenseFrontier, Load, Cores
<1> QED
  BY <1>1, <1>2, <1>3 DEF Next

-----------------------------------------------------------------------------
(* Every variable keeps its type, and the workers placed are those below   *)
(* the loop's index.                                                       *)
THEOREM TypeCorrect == Spec => []TypeOK
<1>1. IInv => TypeOK
  BY DEF IInv
<1> QED
  BY <1>1, InitInv, StepInv, PTL DEF Spec

(* The workers on a core and the room left on it always add up to what     *)
(* hwloc reported.                                                         *)
THEOREM RoomIsRespected == Spec => []RoomRespected
<1>1. IInv => RoomRespected
  BY DEF IInv
<1> QED
  BY <1>1, InitInv, StepInv, PTL DEF Spec

(* Dense packing uses a core only when all higher ones are full, although  *)
(* the search wraps around.                                                *)
THEOREM DenseIsFromTheTop == Spec => []DenseFillsFromTheTop
<1>1. IInv => DenseFillsFromTheTop
  <2> SUFFICES ASSUME IInv, packing = "dense",
                      NEW c \in Cores, NEW d \in Cores, c < d, On(c) # {}
               PROVE  left[d] = 0
    BY DEF DenseFillsFromTheTop
  <2>1. CASE left[d] # 0
    <3>1. /\ ~ (c < resource) /\ (d > resource => left[d] = 0)
      BY <2>1 DEF IInv, DenseFrontier
    <3> QED
      BY <3>1 DEF IInv, TypeOK, Cores
  <2> QED
    BY <2>1
<1> QED
  BY <1>1, InitInv, StepInv, PTL DEF Spec


-----------------------------------------------------------------------------
LEMMA LoadType == TypeOK => \A c \in Cores : Load(c) \in Nat
  BY OnIsFinite

LEMMA LoadTypeNext == (TypeOK => \A c \in Cores : Load(c) \in Nat)'
  BY LoadType, PTL

(* Where the sparse search stands: it has gone round k times and passed    *)
(* the cores above the one it looks at once more.  A core has got a worker *)
(* each time it was passed, as long as it had room.                        *)
Passed(k, c) == k + (IF c > resource THEN 1 ELSE 0)

Rounds(k) ==
  \A c \in Cores :
    /\ Load(c) <= Passed(k, c)
    /\ left[c] # 0 => Load(c) = Passed(k, c)

SparseRounds == packing = "sparse" => \E k \in Nat : Rounds(k)

(* The search moves on from core r. *)
LEMMA RoundGoesOn ==
  ASSUME NEW r \in Cores, r = resource, resource' = NextResource(resource),
         NEW k \in Nat, Rounds(k),
         \A c \in Cores : c # r => Load(c)' = Load(c) /\ left'[c] = left[c],
         Load(r)' <= k + 1,
         left'[r] # 0 => Load(r)' = k + 1
  PROVE  \E j \in Nat : Rounds(j)'
<1>1. \A c \in Cores : c \in Int /\ c >= 0 /\ c <= NbCores - 1
  BY DEF Cores
<1>2. CASE r = 0
  <2>1. resource' = NbCores - 1
    BY <1>2 DEF NextResource
  <2>2. ASSUME NEW c \in Cores
        PROVE  /\ Load(c)' <= Passed(k + 1, c)'
               /\ left'[c] # 0 => Load(c)' = Passed(k + 1, c)'
    <3>1. Passed(k + 1, c)' = k + 1
      BY <1>1, <2>1 DEF Passed
    <3>2. CASE c = r
      BY <3>1, <3>2
    <3>3. CASE c # r
      <4>1. Load(c) <= k + 1 /\ (left[c] # 0 => Load(c) = k + 1)
        BY <1>1, <1>2, <3>3 DEF Rounds, Passed
      <4> QED
        BY <3>1, <3>3, <4>1
    <3> QED
      BY <3>2, <3>3
  <2>3. Rounds(k + 1)'
    BY <2>2 DEF Rounds
  <2> QED
    BY <2>3
<1>3. CASE r # 0
  <2>1. resource' = r - 1
    BY <1>3 DEF NextResource
  <2>2. ASSUME NEW c \in Cores
        PROVE  /\ Load(c)' <= Passed(k, c)'
               /\ left'[c] # 0 => Load(c)' = Passed(k, c)'
    <3>1. Passed(k, c)' = IF c >= r THEN k + 1 ELSE k
      BY <1>1, <2>1 DEF Passed
    <3>2. CASE c = r
      BY <1>1, <3>1, <3>2
    <3>3. CASE c # r
      <4>1. Passed(k, c) = IF c >= r THEN k + 1 ELSE k
        BY <1>1, <3>3 DEF Passed
      <4> QED
        BY <3>1, <3>3, <4>1 DEF Rounds
    <3> QED
      BY <3>2, <3>3
  <2>3. Rounds(k)'
    BY <2>2 DEF Rounds
  <2> QED
    BY <2>3
<1> QED
  BY <1>2, <1>3

LEMMA RoundsInit == Init => SparseRounds
<1> SUFFICES ASSUME Init PROVE Rounds(0)
  BY DEF SparseRounds
<1>1. ASSUME NEW c \in Cores PROVE Load(c) = 0 /\ Passed(0, c) = 0
  <2>1. On(c) = {}
    BY DEF Init, On, Worker, Cores
  <2> QED
    BY <2>1, FS_EmptySet DEF Load, Passed, Init, Cores
<1> QED
  BY <1>1 DEF Rounds

LEMMA RoundsStep == IInv /\ IInv' /\ SparseRounds /\ [Next]_vars => SparseRounds'
<1> SUFFICES ASSUME IInv, IInv', SparseRounds, [Next]_vars, packing' = "sparse"
             PROVE  \E j \in Nat : Rounds(j)'
  BY DEF SparseRounds
<1>1. TypeOK /\ TypeOK'
  BY DEF IInv
<1>2. packing = "sparse"
  BY DEF Next, Die, BindToAll, BindByCore, Goto, Skip, Place, Placed, options, vars
<1>3. PICK k \in Nat : Rounds(k)
  BY <1>2 DEF SparseRounds
<1>4. PICK r \in Cores : r = resource
  BY <1>1 DEF TypeOK
<1>5. Load(r) <= k /\ (left[r] # 0 => Load(r) = k) /\ Load(r) \in Nat
  <2>1. Passed(k, r) = k
    BY <1>4 DEF Passed, Cores
  <2> QED
    BY <1>1, <1>3, <2>1, OnIsFinite DEF Rounds
<1>6. CASE Skip
  <2>1. /\ resource' = NextResource(resource) /\ left' = left /\ left[r] = 0
        /\ assignments' = assignments /\ nb_workers' = nb_workers
    BY <1>4, <1>6 DEF Skip, options
  <2>2. \A c \in Cores : Load(c)' = Load(c)
    BY <2>1 DEF Load, On, Worker
  <2>3. Load(r)' <= k + 1
    BY <1>5, <2>2
  <2> QED
    BY <1>3, <1>4, <2>1, <2>2, <2>3, RoundGoesOn
<1>7. CASE Place
  <2>1. /\ resource' = NextResource(resource)
        /\ left' = [left EXCEPT ![r] = left[r] - 1] /\ left[r] # 0
        /\ assignments' = [assignments EXCEPT ![worker] = r] /\ nb_workers' = nb_workers
        /\ worker \in Worker
    BY <1>1, <1>2, <1>4, <1>7 DEF Place, Placing, options, TypeOK, Worker
  <2>2. assignments \in [Worker -> Cores \cup {None}] /\ assignments[worker] = None
    BY <1>1, <2>1 DEF TypeOK, Worker
  <2>3. \A c \in Cores : c # r => Load(c)' = Load(c) /\ left'[c] = left[c]
    <3>1. \A c \in Cores : c # r => On(c)' = On(c)
      BY <2>1, <2>2, NoneAssumption DEF On, Worker, Cores, NoneAssumption
    <3> QED
      BY <1>1, <2>1, <3>1 DEF Load, TypeOK
  <2>4. Load(r)' = k + 1
    <3>1. Load(r) + left[r] = room[r] /\ Load(r)' + left'[r] = room'[r]
      BY DEF IInv, RoomRespected
    <3>2. room' = room /\ left'[r] = left[r] - 1 /\ left[r] \in Nat /\ room[r] \in Int
      BY <1>1, <1>7, <2>1 DEF Place, options, TypeOK
    <3>3. Load(r)' \in Nat
      BY <1>1, LoadTypeNext DEF Cores
    <3> QED
      BY <1>5, <2>1, <3>1, <3>2, <3>3
  <2> QED
    BY <1>3, <1>4, <2>1, <2>3, <2>4, RoundGoesOn
<1>8. CASE Die \/ BindToAll \/ BindByCore \/ Placed \/ UNCHANGED vars
  <2>1. UNCHANGED <<nb_workers, left, resource, assignments>>
    BY <1>8 DEF Die, BindToAll, BindByCore, Placed, Goto, vars, options
  <2>2. \A c \in Cores : Load(c)' = Load(c) /\ Passed(k, c)' = Passed(k, c)
    BY <2>1 DEF Load, On, Worker, Passed
  <2>3. Rounds(k)'
    BY <1>3, <2>1, <2>2 DEF Rounds
  <2> QED
    BY <2>3
<1> QED
  BY <1>6, <1>7, <1>8 DEF Next

(* Sparse packing spreads the workers evenly over the cores with room left,*)
(* the higher ones first, although the search skips cores that are full.   *)
THEOREM SparseIsSpread == Spec => []SparseIsBalanced
<1>1. IInv /\ SparseRounds => SparseIsBalanced
  <2> SUFFICES ASSUME IInv, SparseRounds, packing = "sparse",
                      NEW c \in Cores, NEW d \in Cores, left[c] # 0
               PROVE  Load(d) <= Load(c) + (IF d > c THEN 1 ELSE 0)
    BY DEF SparseIsBalanced
  <2>1. PICK k \in Nat : Rounds(k)
    BY DEF SparseRounds
  <2>2. Load(c) = Passed(k, c) /\ Load(d) <= Passed(k, d)
    BY <2>1 DEF Rounds
  <2>3. resource \in Int /\ c \in Int /\ d \in Int
    BY DEF IInv, TypeOK, Cores
  <2>4. Load(d) \in Nat
    BY OnIsFinite DEF IInv
  <2> QED
    BY <2>2, <2>3, <2>4 DEF Passed
<1> QED
  BY <1>1, InitInv, StepInv, RoundsInit, RoundsStep, PTL DEF Spec
=============================================================================
