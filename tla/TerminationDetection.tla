----------------------- MODULE TerminationDetection -----------------------
(***************************************************************************)
(* What a termination detector promises acquire(): a worker enters and     *)
(* leaves it by calls that take time, and is_terminated() -- the variable  *)
(* terminated -- is false while some worker is inside and true while all   *)
(* are outside.  During a call of set_active it may be either.             *)
(*                                                                         *)
(* Snzi.tla implements this specification; Elastic.tla relies on no more.  *)
(***************************************************************************)
CONSTANT Worker

VARIABLES phase, terminated

Phase == {"outside", "entering", "inside", "leaving"}

(* The only order in which a worker's phases follow each other. *)
Follows(p, q) ==
  <<p, q>> \in {<<"outside", "entering">>, <<"entering", "inside">>,
                <<"inside", "leaving">>, <<"leaving", "outside">>}

Truthful ==
  /\ terminated => \A w \in Worker : phase[w] # "inside"
  /\ (\A w \in Worker : phase[w] = "outside") => terminated

Init == phase = [w \in Worker |-> "outside"] /\ terminated = TRUE

Next ==
  /\ \/ phase' = phase
     \/ \E w \in Worker, q \in Phase :
          Follows(phase[w], q) /\ phase' = [phase EXCEPT ![w] = q]
  /\ terminated' \in BOOLEAN
  /\ Truthful'

Spec == Init /\ [][Next]_<<phase, terminated>>
=============================================================================
