------------------------------ MODULE Pinning ------------------------------
(***************************************************************************)
(* initialize_machine on Linux (mcsl_machine.hpp): which core each worker  *)
(* is to run on.  hwloc reports cores and how many workers each may take;  *)
(* assign_workers_to_resources hands the cores out, from the highest id    *)
(* down, filling one after the other (dense) or going round (sparse).  Its *)
(* search for a core with room left is a loop of its own and a step here.  *)
(***************************************************************************)
EXTENDS Integers, FiniteSets, Functions

CONSTANTS
  MaxWorkers,    \* perworker::default_max_nb_workers
  Requests,      \* the values of the option "proc" considered
  NbCores,       \* cores hwloc reports
  MaxRoom,       \* bound: workers one resource has room for
  None           \* no core

Cores == 0..(NbCores - 1)

ASSUME RequestAssumption == Requests \subseteq Nat \ {0}
ASSUME CoresAssumption == NbCores \in Nat \ {0}
ASSUME RoomAssumption == MaxRoom \in Nat
ASSUME NoneAssumption == None \notin Nat

VARIABLES
  nb_workers,    \* option proc
  packing,       \* option resource_packing
  binding,       \* option resource_binding
  room,          \* what hwloc says of each core
  asserts,       \* whether the build evaluates assert
  pc,            \* where initialize_machine is
  left,          \* max_nb_workers_by_resource, counted down
  resource,      \* the core looked at
  worker,        \* the worker being placed (i)
  assignments    \* worker -> core

options == <<nb_workers, packing, binding, room, asserts>>
vars == <<options, pc, left, resource, worker, assignments>>

Worker == 0..(nb_workers - 1)

(* A core has room for the cores inside it: one, or none on a machine for  *)
(* which hwloc reports no core level.  The assignment is written for any   *)
(* resource (nodes of several cores), so every room up to MaxRoom is tried.*)
Init ==
  /\ nb_workers \in Requests
  /\ packing \in {"sparse", "dense"}
  /\ binding \in {"all", "by_core", "by_numa_node"}
  /\ room \in [Cores -> 0..MaxRoom]
  /\ asserts \in BOOLEAN
  /\ pc = "options"
  /\ left = room
  /\ resource = NbCores - 1
  /\ worker = 0
  /\ assignments = [w \in 0..(nb_workers - 1) |-> None]

Goto(p) == pc' = p /\ UNCHANGED <<options, left, resource, worker, assignments>>

(* die: more workers than perworker arrays have elements, or "todo". *)
Die ==
  /\ pc = "options"
  /\ nb_workers > MaxWorkers \/ binding = "by_numa_node"
  /\ Goto("died")

(* Every worker may run on every core. *)
BindToAll ==
  /\ pc = "options" /\ nb_workers <= MaxWorkers
  /\ binding = "all"
  /\ Goto("placed")

BindByCore ==
  /\ pc = "options" /\ nb_workers <= MaxWorkers
  /\ binding = "by_core"
  /\ Goto(IF asserts /\ nb_workers > NbCores THEN "aborted" ELSE "assign")

(* Mutant of NextResource: The search walks past core 0. *)
NextResourceUnwrapped(r) == r - 1

(* Mutant of NextResource: The search goes up. *)
NextResourceUp(r) == IF r = NbCores - 1 THEN 0 ELSE r + 1

(* Mutant of NextResource: The search stops going round at core 0. *)
NextResourceStuck(r) == IF r = 0 THEN 0 ELSE r - 1

NextResource(r) == IF r = 0 THEN NbCores - 1 ELSE r - 1

Placing == pc = "assign" /\ worker # nb_workers

Skip ==
  /\ Placing /\ left[resource] = 0
  /\ resource' = NextResource(resource)
  /\ UNCHANGED <<options, pc, left, worker, assignments>>

(* Mutant of Place: The room of a core is not counted down when the search *)
(* moves on anyway.                                                        *)
PlaceUncounted ==
  /\ Placing /\ left[resource] # 0
  /\ left' = [left EXCEPT ![resource] = IF packing = "sparse" THEN @ ELSE @ - 1]
  /\ assignments' = [assignments EXCEPT ![worker] = resource]
  /\ worker' = worker + 1
  /\ resource' = IF packing = "sparse" THEN NextResource(resource) ELSE resource
  /\ UNCHANGED <<options, pc>>

Place ==
  /\ Placing /\ left[resource] # 0
  /\ left' = [left EXCEPT ![resource] = @ - 1]
  /\ assignments' = [assignments EXCEPT ![worker] = resource]
  /\ worker' = worker + 1
  /\ resource' = IF packing = "sparse" THEN NextResource(resource) ELSE resource
  /\ UNCHANGED <<options, pc>>

(* hwloc_cpusets[w] becomes the set of the core assigned to w. *)
Placed ==
  /\ pc = "assign" /\ worker = nb_workers
  /\ Goto("placed")

Next == Die \/ BindToAll \/ BindByCore \/ Skip \/ Place \/ Placed

Spec == Init /\ [][Next]_vars

(* One thread runs initialize_machine and nothing stops it. *)
FairSpec == Spec /\ WF_vars(Next)

-----------------------------------------------------------------------------
On(core) == {w \in Worker : assignments[w] = core}

Load(core) == Cardinality(On(core))

TypeOK ==
  /\ nb_workers \in Requests
  /\ packing \in {"sparse", "dense"}
  /\ binding \in {"all", "by_core", "by_numa_node"}
  /\ room \in [Cores -> 0..MaxRoom]
  /\ asserts \in BOOLEAN
  /\ pc \in {"options", "assign", "placed", "died", "aborted"}
  /\ left \in [Cores -> Nat]
  /\ resource \in Cores
  /\ worker \in 0..nb_workers
  /\ assignments \in [Worker -> Cores \cup {None}]
  /\ \A w \in Worker : assignments[w] = None <=> w >= worker

(* No core is given to more workers than it has room for, and none of its  *)
(* room is lost, whatever the packing and however often the search wraps.  *)
RoomRespected == \A c \in Cores : Load(c) + left[c] = room[c]

(* Dense packing fills the cores from the highest id down: a core is used  *)
(* only when every higher one is full, so core 0 comes last.               *)
DenseFillsFromTheTop ==
  packing = "dense" =>
    \A c, d \in Cores : c < d /\ On(c) # {} => left[d] = 0

(* Sparse packing spreads the workers: a core with room left is at most    *)
(* one worker behind any other, and never behind a lower one.              *)
SparseIsBalanced ==
  packing = "sparse" =>
    \A c, d \in Cores :
      left[c] # 0 => Load(d) <= Load(c) + (IF d > c THEN 1 ELSE 0)

Fits == nb_workers <= MaxWorkers /\ nb_workers <= FoldFunction(+, 0, room)

(* When the cores have room for the workers, the search ends with every    *)
(* worker on a core; when they have not, a build without asserts searches  *)
(* for ever.                                                               *)
EveryWorkerIsPlaced ==
  binding = "by_core" /\ Fits ~>
    \/ pc = "placed" /\ \A w \in Worker : assignments[w] \in Cores
    \/ pc = "aborted" /\ nb_workers > NbCores
=============================================================================
