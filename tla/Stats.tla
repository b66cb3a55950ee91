------------------------------- MODULE Stats -------------------------------
(***************************************************************************)
(* stats_base (mcsl_stats.hpp) and where fork2, acquire, worker_loop,      *)
(* try_to_sleep and launch0 call it.  Counters and timers belong to one    *)
(* worker each, but the worker that runs launch0's fibers around the body  *)
(* resets all of them (start_collecting) and reads all of them (report)    *)
(* while the other workers run.  Nothing is atomic: x += d is a load and a *)
(* store.  The program is a number of pieces to be stolen or taken back.   *)
(***************************************************************************)
EXTENDS Naturals, FiniteSets, Functions

CONSTANTS
  Worker,
  First,       \* the worker that starts with the program
  MaxTime,     \* bound: values of the cycle counter
  MaxForks     \* bound: calls of fork2

ASSUME FirstAssumption == First \in Worker
ASSUME BoundsAssumption == {MaxTime, MaxForks} \subseteq Nat

VARIABLES
  now,                                   \* the cycle counter
  pc,                                    \* each worker: what it does
  stage,                                 \* where the program is in launch0
  busy, spare, forks,                    \* who runs it; stealable pieces; bound
  nb_fibers, nb_steals,                  \* all_counters
  start_work, total_work_time, start_idle, total_idle_time,   \* all_timers
  register,                              \* the sum of a += not stored yet
  done,                                  \* workers the loop (collect, report) has done
  shown,                                 \* the counters report printed
  truth,                                 \* history: what happened since the reset
  torn                                   \* history: resets that met a += half done

program == <<stage, busy, spare, forks>>
counters == <<nb_fibers, nb_steals, shown>>
timers == <<start_work, total_work_time, start_idle, total_idle_time, register>>
history == <<truth, torn>>
vars == <<now, pc, program, counters, timers, done, history>>

NoTime == [work |-> 0, idle |-> 0, fibers |-> 0, steals |-> 0]

Init ==
  /\ now = 0
  /\ pc = [w \in Worker |-> IF w = First THEN "work" ELSE "idle"]
  /\ stage = "pre" /\ busy = {First} /\ spare = 0 /\ forks = 0
  /\ nb_fibers = [w \in Worker |-> 0] /\ nb_steals = [w \in Worker |-> 0]
  /\ start_work = [w \in Worker |-> 0] /\ total_work_time = [w \in Worker |-> 0]
  /\ start_idle = [w \in Worker |-> 0] /\ total_idle_time = [w \in Worker |-> 0]
  /\ register = [w \in Worker |-> 0]
  /\ done = {} /\ shown = <<0, 0>>
  /\ truth = [w \in Worker |-> NoTime]
  /\ torn = {}

(* Time passes; it is work between on_enter_work and on_exit_work, idle    *)
(* between on_enter_acquire and on_exit_acquire, and neither elsewhere.    *)
Tick ==
  /\ now < MaxTime
  /\ now' = now + 1
  /\ truth' = [w \in Worker |->
       CASE pc[w] = "work" -> [truth[w] EXCEPT !.work = @ + 1]
         [] pc[w] \in {"idle", "stole"} -> [truth[w] EXCEPT !.idle = @ + 1]
         [] OTHER -> truth[w]]
  /\ UNCHANGED <<pc, program, counters, timers, done, torn>>

-----------------------------------------------------------------------------
(* The workers *)

Goto(w, from, to) == pc[w] = from /\ pc' = [pc EXCEPT ![w] = to]

Counted(w, kind, n) == truth' = [truth EXCEPT ![w][kind] = @ + n]

Forking == stage \in {"pre", "body"}

increment(counter, w, n) == [counter EXCEPT ![w] = @ + n]

(* fork2 counts two fibers and makes one of them stealable. *)
Fork(w) ==
  /\ Forking /\ w \in busy /\ pc[w] = "work" /\ forks < MaxForks
  /\ forks' = forks + 1 /\ spare' = spare + 1
  /\ nb_fibers' = increment(nb_fibers, w, 2)
  /\ Counted(w, "fibers", 2)
  /\ UNCHANGED <<now, pc, stage, busy, nb_steals, shown, timers, done, torn>>

(* fork2 takes its second child back. *)
Take(w) ==
  /\ w \in busy /\ pc[w] = "work" /\ spare > 0
  /\ spare' = spare - 1
  /\ UNCHANGED <<now, pc, stage, busy, forks, counters, timers, done, history>>

(* A worker that ends its piece before the others have ended theirs. *)
EndPiece(w) ==
  /\ w \in busy /\ pc[w] = "work" /\ busy # {w}
  /\ busy' = busy \ {w}
  /\ UNCHANGED <<now, pc, stage, spare, forks, counters, timers, done, history>>

OnExitWork(w) ==
  /\ w \notin busy
  /\ Goto(w, "work", "add_work")
  /\ register' = [register EXCEPT ![w] = total_work_time[w] + (now - start_work[w])]
  /\ UNCHANGED <<now, program, counters, start_work, total_work_time, start_idle,
                 total_idle_time, done, history>>

AddWork(w) ==
  /\ Goto(w, "add_work", "left")
  /\ total_work_time' = [total_work_time EXCEPT ![w] = register[w]]
  /\ UNCHANGED <<now, program, counters, start_work, start_idle, total_idle_time,
                 register, done, history>>

(* From worker_loop, or in try_to_sleep after the semaphore was posted. *)
OnEnterAcquire(w) ==
  /\ Goto(w, "left", "idle") \/ Goto(w, "asleep", "idle")
  /\ start_idle' = [start_idle EXCEPT ![w] = now]
  /\ UNCHANGED <<now, program, counters, start_work, total_work_time,
                 total_idle_time, register, done, history>>

(* A successful steal and its increment are two steps. *)
Steal(w) ==
  /\ Goto(w, "idle", "stole") /\ spare > 0
  /\ spare' = spare - 1 /\ busy' = busy \cup {w}
  /\ Counted(w, "steals", 1)
  /\ UNCHANGED <<now, stage, forks, counters, timers, done, torn>>

(* Mutant of OnExitAcquire: A thief does not count its steal. *)
OnExitAcquireUncounted(w) ==
  /\ Goto(w, "stole", "add_idle") \/ Goto(w, "idle", "add_idle_sleep")
  /\ nb_steals' = nb_steals
  /\ register' = [register EXCEPT ![w] = total_idle_time[w] + (now - start_idle[w])]
  /\ UNCHANGED <<now, program, nb_fibers, shown, start_work, total_work_time,
                 start_idle, total_idle_time, done, history>>

(* acquire returns with what it stole, or try_to_sleep is about to wait.   *)
OnExitAcquire(w) ==
  /\ \/ /\ Goto(w, "stole", "add_idle")
        /\ nb_steals' = increment(nb_steals, w, 1)
     \/ Goto(w, "idle", "add_idle_sleep") /\ UNCHANGED nb_steals
  /\ register' = [register EXCEPT ![w] = total_idle_time[w] + (now - start_idle[w])]
  /\ UNCHANGED <<now, program, nb_fibers, shown, start_work, total_work_time,
                 start_idle, total_idle_time, done, history>>

AddIdle(w) ==
  /\ Goto(w, "add_idle", "back") \/ Goto(w, "add_idle_sleep", "asleep")
  /\ total_idle_time' = [total_idle_time EXCEPT ![w] = register[w]]
  /\ UNCHANGED <<now, program, counters, start_work, total_work_time, start_idle,
                 register, done, history>>

OnEnterWork(w) ==
  /\ Goto(w, "back", "work")
  /\ start_work' = [start_work EXCEPT ![w] = now]
  /\ UNCHANGED <<now, program, counters, total_work_time, start_idle,
                 total_idle_time, register, done, history>>

-----------------------------------------------------------------------------
(* The fibers around the body, by the worker that ends what is before.     *)

Alone(w) == busy = {w} /\ spare = 0 /\ pc[w] = "work"

StartCollecting(w) ==
  /\ Alone(w) /\ stage = "pre"
  /\ stage' = "collecting" /\ done' = {}
  /\ nb_fibers' = [v \in Worker |-> 0] /\ nb_steals' = [v \in Worker |-> 0]
  /\ truth' = [v \in Worker |-> [truth[v] EXCEPT !.fibers = 0, !.steals = 0]]
  /\ UNCHANGED <<now, pc, busy, spare, forks, shown, timers, torn>>

(* Mutant of CollectTimers: start_collecting leaves the start of an idle   *)
(* period in progress.                                                     *)
CollectTimersPartly(w, v) ==
  /\ Alone(w) /\ stage = "collecting" /\ v \notin done
  /\ start_work' = [start_work EXCEPT ![v] = now]
  /\ total_work_time' = [total_work_time EXCEPT ![v] = 0]
  /\ total_idle_time' = [total_idle_time EXCEPT ![v] = 0]
  /\ done' = done \cup {v}
  /\ stage' = IF done' = Worker THEN "body" ELSE stage
  /\ truth' = [truth EXCEPT ![v].work = 0, ![v].idle = 0]
  /\ UNCHANGED <<now, pc, busy, spare, forks, counters, start_idle, register, torn>>

(* start_collecting's loop over the timers. *)
CollectTimers(w, v) ==
  /\ Alone(w) /\ stage = "collecting" /\ v \notin done
  /\ start_work' = [start_work EXCEPT ![v] = now]
  /\ total_work_time' = [total_work_time EXCEPT ![v] = 0]
  /\ start_idle' = [start_idle EXCEPT ![v] = now]
  /\ total_idle_time' = [total_idle_time EXCEPT ![v] = 0]
  /\ done' = done \cup {v}
  /\ stage' = IF done' = Worker THEN "body" ELSE stage
  /\ truth' = [truth EXCEPT ![v].work = 0, ![v].idle = 0]
  /\ torn' = IF pc[v] \in {"add_work", "add_idle", "add_idle_sleep"}
               THEN torn \cup {v} ELSE torn
  /\ UNCHANGED <<now, pc, busy, spare, forks, counters, register>>

(* report adds up the counters... *)
Report(w) ==
  /\ Alone(w) /\ stage = "body"
  /\ stage' = "reporting" /\ done' = {}
  /\ shown' = <<FoldFunction(+, 0, nb_fibers), FoldFunction(+, 0, nb_steals)>>
  /\ UNCHANGED <<now, pc, busy, spare, forks, nb_fibers, nb_steals, timers, history>>

(* ... and the times, taking itself for working and the others for idle.   *)
ReportTimers(w, v) ==
  /\ Alone(w) /\ stage = "reporting" /\ v \notin done
  /\ IF v = w
       THEN /\ total_work_time' = [total_work_time EXCEPT ![v] = @ + (now - start_work[v])]
            /\ UNCHANGED total_idle_time
       ELSE /\ total_idle_time' = [total_idle_time EXCEPT ![v] = @ + (now - start_idle[v])]
            /\ UNCHANGED total_work_time
  /\ done' = done \cup {v}
  /\ stage' = IF done' = Worker THEN "end" ELSE stage
  /\ UNCHANGED <<now, pc, busy, spare, forks, counters, start_work, start_idle,
                 register, history>>

Next ==
  \/ Tick
  \/ \E w \in Worker :
       \/ Fork(w) \/ Take(w) \/ EndPiece(w) \/ Steal(w)
       \/ OnExitWork(w) \/ AddWork(w) \/ OnEnterAcquire(w)
       \/ OnExitAcquire(w) \/ AddIdle(w) \/ OnEnterWork(w)
       \/ StartCollecting(w) \/ Report(w)
       \/ \E v \in Worker : CollectTimers(w, v) \/ ReportTimers(w, v)

Spec == Init /\ [][Next]_vars

-----------------------------------------------------------------------------
(* report finds every fork2 and every steal between start_collecting and   *)
(* itself, and no other, although thieves count what they have stolen      *)
(* after they have taken it: both happen when the program is one piece.    *)
CountsAreExact ==
  stage \in {"reporting", "end"} =>
    shown = <<FoldFunction(+, 0, [w \in Worker |-> truth[w].fibers]),
              FoldFunction(+, 0, [w \in Worker |-> truth[w].steals])>>

(* What report adds for a worker is the time it has worked and been idle   *)
(* since start_collecting, if report finds the worker as it expects: itself*)
(* at work, the others awake in acquire, and start_collecting has not met  *)
(* the worker half way through a +=.  (A worker asleep or between work and *)
(* acquire is given idle time it has been given before.)                   *)
TimesAreTrue ==
  [][\A v \in Worker :
       /\ stage = "reporting" /\ v \in done' \ done /\ v \notin torn
       /\ busy = {v} \/ pc[v] = "idle"
       => /\ total_work_time'[v] = truth[v].work
          /\ total_idle_time'[v] = truth[v].idle]_vars
=============================================================================
