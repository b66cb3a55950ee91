-------------------------------- MODULE Snzi --------------------------------
(***************************************************************************)
(* The scalable non-zero indicator of mcsl_snzi.hpp and the termination    *)
(* detector built on it.  A worker marks itself active by incrementing its *)
(* leaf of a tree of counters, inactive by decrementing it; a node tells   *)
(* its parent only when its count leaves or reaches zero, and the detector *)
(* reads the root alone.                                                   *)
(*                                                                         *)
(* A node's word holds a count, which may be the half (-1) of an increment *)
(* that has not reached the parent yet, and a version.  Every load and     *)
(* compare-and-swap of a word is one step.  The calls up the tree          *)
(* (parent->increment(), parent->decrement()) are frames on a worker's     *)
(* stack.                                                                  *)
(***************************************************************************)
EXTENDS Integers, Sequences, FiniteSets

CONSTANTS
  Worker,       \* the workers, by their numbers
  NbLeaves,     \* 1 << height; the height is at least 1
  MaxCalls      \* bound: calls of set_active(true)

ASSUME WorkerAssumption == Worker \subseteq Nat
ASSUME LeavesAssumption == NbLeaves \in Nat \ {0, 1}
ASSUME BoundAssumption == MaxCalls \in Nat

VARIABLES
  X,            \* the counter words
  stack,        \* each worker's calls in progress, innermost first
  act,          \* the last value each worker passed to set_active
  calls         \* calls of set_active(true) so far

vars == <<X, stack, act, calls>>

(* The tree lies in the cells 2 .. 2 * NbLeaves - 1 of heap, the parent of *)
(* cell i in cell i / 2.  The root is a node of its own, the parent of     *)
(* cells 2 and 3: it is called 1 here.                                     *)
Root == 1
Node == Root..(2 * NbLeaves - 1)
Parent(n) == n \div 2

(* leaf_position_of: workers whose numbers agree modulo NbLeaves share a   *)
(* leaf.  (A build with asserts has no such workers: at, line 193.) *)
Leaf(w) == NbLeaves + (w % NbLeaves)

Half == -1
Word(c, v) == [c |-> c, v |-> v]

(* op: snzi_increment or snzi_decrement; at: the next step; x: the word    *)
(* as loaded; undo: undo_arr; succ: succ.                                  *)
Frame(op, n) ==
  [op |-> op, node |-> n, at |-> "load", x |-> Word(0, 0), undo |-> 0, succ |-> FALSE]

Init ==
  /\ X = [n \in Node |-> Word(0, 0)]
  /\ stack = [w \in Worker |-> <<>>]
  /\ act = [w \in Worker |-> FALSE]
  /\ calls = 0

Top(w) == Head(stack[w])
In(w, op, at) == stack[w] # <<>> /\ Top(w).op = op /\ Top(w).at = at

(* The innermost call goes on as f; it calls g first; it returns. *)
Continue(w, f) == stack' = [stack EXCEPT ![w] = <<f>> \o Tail(@)]
Call(w, f, g) == stack' = [stack EXCEPT ![w] = <<g, f>> \o Tail(@)]
Return(w) == stack' = [stack EXCEPT ![w] = Tail(@)]

-----------------------------------------------------------------------------
(* set_active                                                              *)

SetActive(w) ==
  /\ stack[w] = <<>>
  /\ ~ act[w]
  /\ calls < MaxCalls
  /\ calls' = calls + 1
  /\ act' = [act EXCEPT ![w] = TRUE]
  /\ stack' = [stack EXCEPT ![w] = <<Frame("inc", Leaf(w))>>]
  /\ X' = X

SetInactive(w) ==
  /\ stack[w] = <<>>
  /\ act[w]
  /\ act' = [act EXCEPT ![w] = FALSE]
  /\ stack' = [stack EXCEPT ![w] = <<Frame("dec", Leaf(w))>>]
  /\ UNCHANGED <<X, calls>>

(* is_terminated() *)
IsTerminated == ~ (X[Root].c > 0)

-----------------------------------------------------------------------------
(* snzi_increment                                                          *)

(* The load at the head of the loop.  A half is helped at once. *)
IncLoad(w) ==
  LET f == Top(w) IN
  /\ In(w, "inc", "load")
  /\ Continue(w, [f EXCEPT !.x = X[f.node],
                           !.at = IF X[f.node].c = Half THEN "help" ELSE "cas"])
  /\ UNCHANGED <<X, act, calls>>

(* From a positive count the increment is done by one compare-and-swap;    *)
(* from zero it first becomes a half.  A failed one starts over.           *)
IncCas(w) ==
  LET f == Top(w)
      new == IF f.x.c = 0 THEN Word(Half, f.x.v + 1) ELSE Word(f.x.c + 1, f.x.v + 1)
  IN
  /\ In(w, "inc", "cas")
  /\ \/ /\ X[f.node] = f.x
        /\ X' = [X EXCEPT ![f.node] = new]
        /\ Continue(w, [f EXCEPT !.x = new, !.succ = TRUE,
                                 !.at = IF f.x.c = 0 THEN "help" ELSE "undo"])
     \/ /\ X[f.node] # f.x
        /\ X' = X
        /\ Continue(w, [f EXCEPT !.at = "load"])
  /\ UNCHANGED <<act, calls>>

(* Mutant of IncHelp: a worker that finds another's half leaves the parent *)
(* to that worker. *)
IncHelpOwnOnly(w) ==
  LET f == [Top(w) EXCEPT !.at = "settle"] IN
  /\ In(w, "inc", "help")
  /\ IF f.node = Root \/ ~ f.succ THEN Continue(w, f)
                                  ELSE Call(w, f, Frame("inc", Parent(f.node)))
  /\ UNCHANGED <<X, act, calls>>

(* Mutant of IncHelp: a worker that finds another's half waits until that  *)
(* worker has settled it. *)
IncHelpWaits(w) ==
  LET f == [Top(w) EXCEPT !.at = IF Top(w).succ THEN "settle" ELSE "load"] IN
  /\ In(w, "inc", "help")
  /\ IF f.node = Root \/ ~ f.succ THEN Continue(w, f)
                                  ELSE Call(w, f, Frame("inc", Parent(f.node)))
  /\ UNCHANGED <<X, act, calls>>

(* A half, one's own or another worker's: the parent is incremented first. *)
IncHelp(w) ==
  LET f == [Top(w) EXCEPT !.at = "settle"] IN
  /\ In(w, "inc", "help")
  /\ IF f.node = Root THEN Continue(w, f) ELSE Call(w, f, Frame("inc", Parent(f.node)))
  /\ UNCHANGED <<X, act, calls>>

(* Mutant of IncSettle: every increment takes back the parent's increment. *)
IncSettleAlwaysUndo(w) ==
  LET f == Top(w)
      g == [f EXCEPT !.at = IF f.succ THEN "undo" ELSE "load", !.undo = @ + 1]
  IN
  /\ In(w, "inc", "settle")
  /\ \/ X[f.node] = f.x /\ X' = [X EXCEPT ![f.node].c = 1] /\ Continue(w, g)
     \/ X[f.node] # f.x /\ X' = X /\ Continue(w, g)
  /\ UNCHANGED <<act, calls>>

(* The half becomes one; if somebody else did that, the increment of the   *)
(* parent was one too many. *)
IncSettle(w) ==
  LET f == Top(w)
      g == [f EXCEPT !.at = IF f.succ THEN "undo" ELSE "load"]
  IN
  /\ In(w, "inc", "settle")
  /\ \/ /\ X[f.node] = f.x
        /\ X' = [X EXCEPT ![f.node].c = 1]
        /\ Continue(w, g)
     \/ /\ X[f.node] # f.x
        /\ X' = X
        /\ Continue(w, [g EXCEPT !.undo = @ + 1])
  /\ UNCHANGED <<act, calls>>

(* Mutant of IncUndo: the undo is forgotten. *)
IncUndoForgotten(w) ==
  /\ In(w, "inc", "undo")
  /\ Return(w)
  /\ UNCHANGED <<X, act, calls>>

(* The increments of the parent that were one too many are taken back. *)
IncUndo(w) ==
  LET f == Top(w) IN
  /\ In(w, "inc", "undo")
  /\ IF f.node # Root /\ f.undo > 0
       THEN Call(w, [f EXCEPT !.undo = @ - 1], Frame("dec", Parent(f.node)))
       ELSE Return(w)
  /\ UNCHANGED <<X, act, calls>>

-----------------------------------------------------------------------------
(* snzi_decrement                                                          *)

DecLoad(w) ==
  LET f == Top(w) IN
  /\ In(w, "dec", "load")
  /\ Continue(w, [f EXCEPT !.x = X[f.node], !.at = "cas"])
  /\ UNCHANGED <<X, act, calls>>

(* Mutant of DecCas: the parent is decremented at every call. *)
DecCasEagerly(w) ==
  LET f == Top(w) IN
  /\ In(w, "dec", "cas")
  /\ \/ /\ X[f.node] = f.x
        /\ X' = [X EXCEPT ![f.node].c = @ - 1]
        /\ IF f.node # Root
             THEN Continue(w, Frame("dec", Parent(f.node)))
             ELSE Return(w)
     \/ /\ X[f.node] # f.x
        /\ X' = X
        /\ Continue(w, [f EXCEPT !.at = "load"])
  /\ UNCHANGED <<act, calls>>

(* The parent is decremented (in the same frame: nothing follows the call) *)
(* when the count has reached zero. *)
DecCas(w) ==
  LET f == Top(w) IN
  /\ In(w, "dec", "cas")
  /\ \/ /\ X[f.node] = f.x
        /\ X' = [X EXCEPT ![f.node].c = @ - 1]
        /\ IF f.x.c = 1 /\ f.node # Root
             THEN Continue(w, Frame("dec", Parent(f.node)))
             ELSE Return(w)
     \/ /\ X[f.node] # f.x
        /\ X' = X
        /\ Continue(w, [f EXCEPT !.at = "load"])
  /\ UNCHANGED <<act, calls>>

-----------------------------------------------------------------------------
Inside(w) ==
  \/ IncLoad(w) \/ IncCas(w) \/ IncHelp(w) \/ IncSettle(w) \/ IncUndo(w)
  \/ DecLoad(w) \/ DecCas(w)

Quiet == \A w \in Worker : ~ act[w] /\ stack[w] = <<>>

(* The run ends where the bound on the calls stops it. *)
Stop == calls = MaxCalls /\ Quiet /\ UNCHANGED vars

Next == (\E w \in Worker : SetActive(w) \/ SetInactive(w) \/ Inside(w)) \/ Stop

Spec == Init /\ [][Next]_vars

(* As long as there is a call in progress some call goes on, not each one: *)
(* a worker may be suspended in the middle of a call for ever.             *)
FairSpec == Spec /\ WF_vars(\E w \in Worker : Inside(w))

-----------------------------------------------------------------------------
(* Properties                                                              *)

WordType == [c : {Half} \cup Nat, v : Nat]

FrameType ==
  [op : {"inc", "dec"}, node : Node, at : {"load", "cas", "help", "settle", "undo"},
   x : WordType, undo : Nat, succ : BOOLEAN]

(* Every variable has the shape the declarations above describe; no count  *)
(* is driven below zero. *)
TypeOK ==
  /\ X \in [Node -> WordType]
  /\ stack \in [Worker -> Seq(FrameType)]
  /\ act \in [Worker -> BOOLEAN]
  /\ calls \in Nat

(* The assert of snzi_decrement (line 70): whoever decrements a node finds *)
(* its own increment in it, however the increments, the help they get and  *)
(* their undoing interleave.                                               *)
DecrementFindsCount ==
  \A w \in Worker : In(w, "dec", "load") => X[Top(w).node].c >= 1

(* is_terminated() is false while a worker is active -- its                *)
(* set_active(true) has returned -- whatever other workers do on the way   *)
(* to the root, and true when all are inactive.                            *)
Detector == INSTANCE TerminationDetection WITH
  phase <- [w \in Worker |->
              IF stack[w] = <<>> THEN (IF act[w] THEN "inside" ELSE "outside")
                                 ELSE (IF act[w] THEN "entering" ELSE "leaving")],
  terminated <- IsTerminated
RefinesDetector == Detector!Spec

(* Once nobody is active and no call is in progress every node is zero:    *)
(* no increment that was made for another worker is left behind.           *)
QuietIsZero == Quiet => \A n \in Node : X[n].c = 0

CallReturns == \E w \in Worker : stack[w] # <<>> /\ stack'[w] = <<>>

(* set_active is lock-free: as long as there are calls in progress one of  *)
(* them returns, again and again, although any worker may be suspended     *)
(* after it has written a half.  Nothing is said of one call: its          *)
(* compare-and-swap may fail for ever while others come and go.            *)
SomeCallReturns ==
  \/ []<><<CallReturns>>_vars
  \/ <>[](\A w \in Worker : stack[w] = <<>>)
=============================================================================
