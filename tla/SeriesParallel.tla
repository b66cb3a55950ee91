-------------------------- MODULE SeriesParallel --------------------------
(***************************************************************************)
(* What fork2 promises the program: a fiber runs its body once; when it    *)
(* forks it waits for its two children, each of which runs its body once,  *)
(* and then goes on; the terminal fiber runs when the root has ended.      *)
(* Which worker runs what, and on which stack, is not said.                *)
(*                                                                         *)
(* ForkJoin.tla implements this specification.                             *)
(***************************************************************************)
EXTENDS Naturals, Sequences

CONSTANTS
  Fiber,        \* names for the fibers that may come to exist
  Body,         \* the fiber of the computation
  Terminal      \* the fiber that ends the run

VARIABLES
  phase,        \* what each fiber is doing
  kids          \* the two fibers a waiting fiber has forked

Init ==
  /\ phase = [f \in Fiber |-> IF f = Body THEN "ready"
                              ELSE IF f = Terminal THEN "blocked" ELSE "unborn"]
  /\ kids = [f \in Fiber |-> <<>>]

Start(f) ==
  /\ phase[f] = "ready"
  /\ phase' = [phase EXCEPT ![f] = "running"]
  /\ kids' = kids

Fork(f) ==
  /\ phase[f] = "running"
  /\ \E g, h \in {k \in Fiber : phase[k] = "unborn"} :
       /\ g # h
       /\ phase' = [phase EXCEPT ![f] = "waiting", ![g] = "ready", ![h] = "ready"]
       /\ kids' = [kids EXCEPT ![f] = <<g, h>>]

Join(f) ==
  /\ phase[f] = "waiting"
  /\ phase[kids[f][1]] = "done" /\ phase[kids[f][2]] = "done"
  /\ phase' = [phase EXCEPT ![f] = "running"]
  /\ kids' = [kids EXCEPT ![f] = <<>>]

End(f) ==
  /\ phase[f] = "running"
  /\ phase' = [phase EXCEPT ![f] = "done"]
  /\ kids' = kids

Release ==
  /\ phase[Body] = "done" /\ phase[Terminal] = "blocked"
  /\ phase' = [phase EXCEPT ![Terminal] = "ready"]
  /\ kids' = kids

Next ==
  \/ \E f \in Fiber : Start(f) \/ Fork(f) \/ Join(f) \/ End(f)
  \/ Release

Spec == Init /\ [][Next]_<<phase, kids>>
=============================================================================
