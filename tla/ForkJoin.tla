------------------------------ MODULE ForkJoin ------------------------------
(***************************************************************************)
(* Native-stack fork-join on the work-stealing scheduler: fibers           *)
(* (mcsl_fiber.hpp), fork2 of mcsl_fjnative.hpp, and the scheduler's       *)
(* worker loop, buffers, flush and take (mcsl_chaselev.hpp).               *)
(*                                                                         *)
(* fork2 does not switch stacks when nothing is stolen: the first child    *)
(* runs inline on its parent's stack, and so does the second, if it is     *)
(* still in the deque when the first has ended.  For the scheduler every   *)
(* child is a fiber all the same, with a context to be resumed at; the     *)
(* inline calls pass through the scheduler and come back.  If the second   *)
(* child is stolen it runs on a stack of its own, and whichever child ends *)
(* last makes the parent ready, perhaps on another worker.                 *)
(*                                                                         *)
(* The deques are used as WSDeque promises.  acquire() is a steal or the   *)
(* end of the run (Elastic has the rest).  A body is a fiber's code        *)
(* between its forks: it may fork or end whenever it runs.                 *)
(***************************************************************************)
EXTENDS Integers, Sequences, FiniteSets

CONSTANTS
  Worker,
  First,        \* the worker in whose buffer launch0 puts the first fiber
  MaxForks,     \* bound: calls of fork2 in one run
  Capacity      \* of a worker's buffer (16)

ASSUME WorkerAssumption == First \in Worker
(* fork2 pushes two fibers. *)
ASSUME BoundAssumption == MaxForks \in Nat /\ Capacity \in Nat /\ Capacity >= 2

Body == 0                               \* the fiber of the computation
Terminal == 2 * MaxForks + 1            \* terminal_fiber
Fiber == 0..Terminal                    \* numbered as they are made
NoFiber == -1                           \* nullptr

VARIABLES
  fib,          \* the fibers
  made,         \* number of the next fiber
  wpc, cur,     \* worker_loop: where a worker is, and its `current'
  at,           \* the point a worker has reached in the fibers' code
  currentFiber, \* current_fiber.mine()
  buffer,       \* buffers.mine()
  deque,        \* deques.mine(): bottom end last
  done          \* should_terminate

vars == <<fib, made, wpc, cur, at, currentFiber, buffer, deque, done>>

-----------------------------------------------------------------------------
(* incounter, outedge, status: as in the source.  stack: "null", "own" or  *)
(* "notown" (notownstackptr).  ctx: where the fiber resumes -- "begin" its *)
(* body, "return" from its fork2, or "used".  f1, f2: the children of the  *)
(* fork2 it is in.  up: the fiber whose fork2 frame its body returns to    *)
(* when run inline.  alive: the object exists.                             *)
NewFiber(incounter, outedge, status) ==
  [incounter |-> incounter, outedge |-> outedge, status |-> status, stack |-> "null",
   ctx |-> "begin", f1 |-> NoFiber, f2 |-> NoFiber, up |-> outedge, alive |-> TRUE]

Dead == [NewFiber(0, NoFiber, "finish") EXCEPT !.alive = FALSE]

(* The worker is in the scheduler's context, my_ctx(). *)
Nowhere == [at |-> "nowhere", f |-> NoFiber]

(* launch0 links the body to the terminal fiber and releases both; the     *)
(* body is ready and goes to the buffer of the launching worker.           *)
Init ==
  /\ fib = [f \in Fiber |->
              CASE f = Body -> NewFiber(0, Terminal, "finish")
                [] f = Terminal -> NewFiber(1, NoFiber, "exit_launch")
                [] OTHER -> Dead]
  /\ made = 1
  /\ wpc = [w \in Worker |-> "flush"]
  /\ cur = [w \in Worker |-> NoFiber]
  /\ at = [w \in Worker |-> Nowhere]
  /\ currentFiber = [w \in Worker |-> NoFiber]
  /\ buffer = [w \in Worker |-> IF w = First THEN <<Body>> ELSE <<>>]
  /\ deque = [w \in Worker |-> <<>>]
  /\ done = FALSE

Front(s) == SubSeq(s, 1, Len(s) - 1)
Last(s) == s[Len(s)]

-----------------------------------------------------------------------------
(* worker_loop                                                             *)

(* Mutant of Flush: the rest of the buffer is left where it is. *)
FlushOne(w) ==
  /\ wpc[w] = "flush"
  /\ \/ /\ buffer[w] = <<>>
        /\ cur' = [cur EXCEPT ![w] = NoFiber]
        /\ UNCHANGED buffer
     \/ /\ buffer[w] # <<>>
        /\ cur' = [cur EXCEPT ![w] = Last(buffer[w])]
        /\ buffer' = [buffer EXCEPT ![w] = Front(@)]
  /\ wpc' = [wpc EXCEPT ![w] = "loop"]
  /\ UNCHANGED <<fib, made, at, currentFiber, deque, done>>

(* flush(): the newest fiber of the buffer is run next, the others go to   *)
(* the deque, oldest first. *)
Flush(w) ==
  /\ wpc[w] = "flush"
  /\ \/ /\ buffer[w] = <<>>
        /\ cur' = [cur EXCEPT ![w] = NoFiber]
        /\ UNCHANGED <<buffer, deque>>
     \/ /\ buffer[w] # <<>>
        /\ cur' = [cur EXCEPT ![w] = Last(buffer[w])]
        /\ deque' = [deque EXCEPT ![w] = @ \o Front(buffer[w])]
        /\ buffer' = [buffer EXCEPT ![w] = <<>>]
  /\ wpc' = [wpc EXCEPT ![w] = "loop"]
  /\ UNCHANGED <<fib, made, at, currentFiber, done>>

(* Nothing flushed: the deque is popped, or the worker calls acquire. *)
PopOrAcquire(w) ==
  /\ wpc[w] = "loop"
  /\ cur[w] = NoFiber
  /\ \/ /\ deque[w] # <<>>
        /\ cur' = [cur EXCEPT ![w] = Last(deque[w])]
        /\ deque' = [deque EXCEPT ![w] = Front(@)]
        /\ wpc' = wpc
     \/ /\ deque[w] = <<>>
        /\ wpc' = [wpc EXCEPT ![w] = "acquire"]
        /\ UNCHANGED <<cur, deque>>
  /\ UNCHANGED <<fib, made, at, currentFiber, buffer, done>>

(* Mutant of Steal: thieves steal where the owner works. *)
StealNewest(w) ==
  /\ wpc[w] = "acquire"
  /\ \E v \in Worker \ {w} :
       /\ deque[v] # <<>>
       /\ buffer' = [buffer EXCEPT ![w] = Append(@, Last(deque[v]))]
       /\ deque' = [deque EXCEPT ![v] = Front(@)]
  /\ wpc' = [wpc EXCEPT ![w] = "flush"]
  /\ UNCHANGED <<fib, made, cur, at, currentFiber, done>>

(* acquire(): a stolen fiber goes through the buffer ... *)
Steal(w) ==
  /\ wpc[w] = "acquire"
  /\ \E v \in Worker \ {w} :
       /\ deque[v] # <<>>
       /\ buffer' = [buffer EXCEPT ![w] = Append(@, Head(deque[v]))]
       /\ deque' = [deque EXCEPT ![v] = Tail(@)]
  /\ wpc' = [wpc EXCEPT ![w] = "flush"]
  /\ UNCHANGED <<fib, made, cur, at, currentFiber, done>>

(* ... and the end of the run is seen here only; a worker that is alone    *)
(* has nobody to steal from and leaves at once. *)
Leave(w) ==
  /\ wpc[w] = "acquire"
  /\ done \/ Worker = {w}
  /\ wpc' = [wpc EXCEPT ![w] = "exited"]
  /\ UNCHANGED <<fib, made, cur, at, currentFiber, buffer, deque, done>>

(* context: what saving, restoring and making a context does to a fiber.   *)
(* A saved context returns from the fork2 that saved it; a restored one is *)
(* in use, and saved again before it can be restored; a new stack is one   *)
(* on which the context enters the body.                                   *)
Saved(g) == [g EXCEPT !.ctx = "return"]

Restored(g) == [g EXCEPT !.ctx = "used", !.f1 = NoFiber, !.f2 = NoFiber]

Spawned(g) == [g EXCEPT !.ctx = "begin", !.stack = "own"]

(* Mutant of Exec: current_fiber is set on a fiber's first entry only. *)
ExecStale(w) ==
  LET f == cur[w]
      kids == {fib[f].f1, fib[f].f2}
      fresh == fib[f].stack = "null"
      resumed == [fib[f] EXCEPT !.stack = IF fresh THEN "own" ELSE @,
                                !.ctx = "used", !.f1 = NoFiber, !.f2 = NoFiber]
  IN
  /\ wpc[w] = "loop"
  /\ f \notin {NoFiber, Terminal}
  /\ fib' = [g \in Fiber |-> IF g = f THEN resumed
                             ELSE IF fib[f].ctx = "return" /\ g \in kids THEN Dead
                             ELSE fib[g]]
  /\ currentFiber' = IF fresh THEN [currentFiber EXCEPT ![w] = f] ELSE currentFiber
  /\ at' = [at EXCEPT ![w] = [at |-> "body", f |-> f]]
  /\ wpc' = [wpc EXCEPT ![w] = "run"]
  /\ UNCHANGED <<made, cur, buffer, deque, done>>

(* exec(): a fiber without a stack is spawned; then its context is         *)
(* restored.  Where that returns from fork2 the two children, which are    *)
(* locals of the caller of fork2, cease to exist.                          *)
Exec(w) ==
  LET f == cur[w]
      kids == {fib[f].f1, fib[f].f2}
      resumed == Restored(IF fib[f].stack = "null" THEN Spawned(fib[f]) ELSE fib[f])
  IN
  /\ wpc[w] = "loop"
  /\ f # NoFiber
  /\ f # Terminal
  /\ fib' = [g \in Fiber |-> IF g = f THEN resumed
                             ELSE IF fib[f].ctx = "return" /\ g \in kids THEN Dead
                             ELSE fib[g]]
  /\ currentFiber' = [currentFiber EXCEPT ![w] = f]
  /\ at' = [at EXCEPT ![w] = [at |-> "body", f |-> f]]
  /\ wpc' = [wpc EXCEPT ![w] = "run"]
  /\ UNCHANGED <<made, cur, buffer, deque, done>>

(* terminal_fiber::run() only returns fiber_status_exit_launch. *)
ExecTerminal(w) ==
  /\ wpc[w] = "loop"
  /\ cur[w] = Terminal
  /\ fib' = [fib EXCEPT ![Terminal].ctx = "used"]
  /\ wpc' = [wpc EXCEPT ![w] = "returned"]
  /\ UNCHANGED <<made, cur, at, currentFiber, buffer, deque, done>>

(* Mutant of Released: the first child to end resumes the parent. *)
ReleasedByFirst(g) == IF g.incounter >= 1 THEN "schedule" ELSE "wait"

(* release(): one decrement; the fiber is scheduled when it reaches zero. *)
Released(g) == IF g.incounter = 1 THEN "schedule" ELSE "wait"

(* notify(): takes the edge away and releases the fiber it leads to; that  *)
(* one is scheduled, which puts it in the worker's own buffer. *)
Notify(w, f) ==
  LET g == fib[f].outedge IN
  \/ /\ g = NoFiber
     /\ UNCHANGED <<fib, buffer>>
  \/ /\ g # NoFiber
     /\ fib' = [fib EXCEPT ![f].outedge = NoFiber, ![g].incounter = @ - 1]
     /\ buffer' = IF Released(fib[g]) = "schedule"
                     THEN [buffer EXCEPT ![w] = Append(@, g)] ELSE buffer

(* exec() has returned current's status.  A paused fiber is left alone, a  *)
(* finished one notifies; the terminal one, which has no outedge, ends the *)
(* run and deletes itself. *)
Returned(w) ==
  LET f == cur[w] IN
  /\ wpc[w] = "returned"
  /\ \/ fib[f].status = "pause" /\ done' = done /\ UNCHANGED <<fib, buffer>>
     \/ fib[f].status = "finish" /\ done' = done /\ Notify(w, f)
     \/ /\ fib[f].status = "exit_launch"
        /\ done' = TRUE
        /\ fib' = [fib EXCEPT ![f].alive = FALSE]
        /\ buffer' = buffer
  /\ cur' = [cur EXCEPT ![w] = NoFiber]
  /\ wpc' = [wpc EXCEPT ![w] = "flush"]
  /\ UNCHANGED <<made, at, currentFiber, deque>>

-----------------------------------------------------------------------------
(* The code of a fiber, and fork2.                                         *)

Running(w) == wpc[w] = "run"

ToScheduler(w) ==
  /\ wpc' = [wpc EXCEPT ![w] = "returned"]
  /\ at' = [at EXCEPT ![w] = Nowhere]

(* add_edge(): dst waits for src, which will notify it. *)
AddEdge(fibers, src, dst) ==
  [fibers EXCEPT ![src].outedge = dst, ![dst].incounter = @ + 1]

(* The two children as fork2 leaves them: released but for the edges to    *)
(* their parent, the first one on the parent's stack. *)
Child(p, stack) == [NewFiber(0, NoFiber, "finish") EXCEPT !.stack = stack, !.up = p]

(* fork2, up to the swap with the scheduler: the parent (whatever          *)
(* current_fiber says it is) is paused and waits for two children, both    *)
(* ready and in the buffer, the first one last; the parent's context       *)
(* returns from fork2, the first child's runs it inline. *)
Fork(w) ==
  LET p == currentFiber[w]
      g == made
      h == made + 1
      forked == [fib EXCEPT
        ![p] = [Saved(@) EXCEPT !.status = "pause", !.f1 = g, !.f2 = h],
        ![g] = Child(p, "notown"),
        ![h] = Child(p, "null")]
  IN
  /\ Running(w) /\ at[w].at = "body"
  /\ made + 1 < Terminal
  /\ fib' = AddEdge(AddEdge(forked, h, p), g, p)
  /\ made' = made + 2
  /\ buffer' = [buffer EXCEPT ![w] = @ \o <<h, g>>]
  /\ ToScheduler(w)
  /\ UNCHANGED <<cur, currentFiber, deque, done>>

(* A body ends: on its own stack it exits to the scheduler; inline it      *)
(* returns into its parent's fork2, which calls take after the first child *)
(* and, after the second, swaps with the scheduler, to return from fork2   *)
(* when resumed. *)
EndBody(w) ==
  LET f == at[w].f
      p == fib[f].up
  IN
  /\ Running(w) /\ at[w].at = "body"
  /\ \/ /\ fib[f].stack = "own"
        /\ ToScheduler(w)
        /\ fib' = fib
     \/ /\ fib[f].stack = "notown" /\ f = fib[p].f1
        /\ at' = [at EXCEPT ![w] = [at |-> "take", f |-> p]]
        /\ UNCHANGED <<fib, wpc>>
     \/ /\ fib[f].stack = "notown" /\ f = fib[p].f2
        /\ fib' = [fib EXCEPT ![p] = [Saved(@) EXCEPT !.status = "finish"]]
        /\ ToScheduler(w)
  /\ UNCHANGED <<made, cur, currentFiber, buffer, deque, done>>

(* Mutant of Take: the status of a parent whose second child was stolen is *)
(* left as fork2 set it. *)
TakeLeavesPaused(w) ==
  LET p == at[w].f
      h == fib[p].f2
  IN
  /\ Running(w) /\ at[w].at = "take"
  /\ \/ /\ deque[w] = <<>>
        /\ UNCHANGED <<fib, buffer, deque>>
     \/ /\ deque[w] # <<>>
        /\ buffer' = [buffer EXCEPT ![w] = Append(@, Last(deque[w]))]
        /\ deque' = [deque EXCEPT ![w] = Front(@)]
        /\ fib' = [fib EXCEPT ![h].stack = "notown"]
  /\ ToScheduler(w)
  /\ UNCHANGED <<made, cur, currentFiber, done>>

(* take(): pops the deque.  Nothing: the second child was stolen, and the  *)
(* stack is left.  Otherwise what was popped goes to the buffer and is to  *)
(* run inline. *)
Take(w) ==
  LET p == at[w].f
      h == fib[p].f2
  IN
  /\ Running(w) /\ at[w].at = "take"
  /\ \/ /\ deque[w] = <<>>
        /\ fib' = [fib EXCEPT ![p].status = "finish"]
        /\ UNCHANGED <<buffer, deque>>
     \/ /\ deque[w] # <<>>
        /\ buffer' = [buffer EXCEPT ![w] = Append(@, Last(deque[w]))]
        /\ deque' = [deque EXCEPT ![w] = Front(@)]
        /\ fib' = [fib EXCEPT ![h].stack = "notown"]
  /\ ToScheduler(w)
  /\ UNCHANGED <<made, cur, currentFiber, done>>

-----------------------------------------------------------------------------
Step(w) ==
  \/ Flush(w) \/ PopOrAcquire(w) \/ Steal(w) \/ Leave(w)
  \/ Exec(w) \/ ExecTerminal(w) \/ Returned(w)
  \/ Fork(w) \/ EndBody(w) \/ Take(w)

AllExited == \A w \in Worker : wpc[w] = "exited"

Next == (\E w \in Worker : Step(w)) \/ (AllExited /\ UNCHANGED vars)

Spec == Init /\ [][Next]_vars

(* Every worker is a thread of its own. *)
FairSpec == Spec /\ \A w \in Worker : WF_vars(Step(w))

-----------------------------------------------------------------------------
(* Properties                                                              *)

FiberType ==
  [incounter : 0..2, outedge : Fiber \cup {NoFiber},
   status : {"pause", "finish", "exit_launch"}, stack : {"null", "own", "notown"},
   ctx : {"begin", "return", "used"}, f1 : Fiber \cup {NoFiber}, f2 : Fiber \cup {NoFiber},
   up : Fiber \cup {NoFiber}, alive : BOOLEAN]

(* Every variable has the shape the declarations above describe; no        *)
(* incounter leaves 0..2 and no buffer is pushed beyond its capacity. *)
TypeOK ==
  /\ fib \in [Fiber -> FiberType]
  /\ made \in 1..Terminal
  /\ wpc \in [Worker -> {"flush", "loop", "acquire", "run", "returned", "exited"}]
  /\ cur \in [Worker -> Fiber \cup {NoFiber}]
  /\ at \in [Worker -> [at : {"nowhere", "body", "take"}, f : Fiber \cup {NoFiber}]]
  /\ currentFiber \in [Worker -> Fiber \cup {NoFiber}]
  /\ buffer \in [Worker -> Seq(Fiber)] /\ deque \in [Worker -> Seq(Fiber)]
  /\ \A w \in Worker : Len(buffer[w]) <= Capacity
  /\ done \in BOOLEAN

(* What take pops is the second child of the very fork2 that calls it, and *)
(* it has not begun (asserts of lines 341 and 342), although the fork2     *)
(* frame may have moved to another worker since it pushed that child; and  *)
(* take is called with an empty buffer (mcsl_chaselev.hpp line 330).       *)
TakeGetsSecondChild ==
  \A w \in Worker : Running(w) /\ at[w].at = "take" =>
    /\ buffer[w] = <<>>
    /\ deque[w] # <<>> =>
         /\ Last(deque[w]) = fib[at[w].f].f2
         /\ fib[fib[at[w].f].f2].stack = "null"

(* The stack a fiber runs on: its own, or that of the fork2 it is called   *)
(* from. *)
StackOf(f) ==
  LET below[g \in Fiber] == IF fib[g].stack = "notown" THEN below[fib[g].up] ELSE g
  IN  below[f]

(* No two workers run on one stack, and none runs on the stack of a fiber  *)
(* that no longer exists. *)
StacksAreExclusive ==
  \A w \in Worker : Running(w) =>
    /\ fib[StackOf(at[w].f)].alive
    /\ \A v \in Worker \ {w} : Running(v) => StackOf(at[v].f) # StackOf(at[w].f)

(* A fiber in a buffer, a deque or a worker's hands is alive, and is there *)
(* once: it is not executed, finished or stolen after fork2 has returned   *)
(* and its object is gone. *)
Held(w) == buffer[w] \o deque[w] \o <<cur[w]>>

HeldFibersAreAlive ==
  \A w \in Worker : \A i \in DOMAIN Held(w) : Held(w)[i] # NoFiber =>
    /\ fib[Held(w)[i]].alive
    /\ \A v \in Worker : \A k \in DOMAIN Held(v) :
         Held(v)[k] = Held(w)[i] => <<v, k>> = <<w, i>>

(* A fiber that waits for nothing and has not notified yet; the terminal   *)
(* one notifies nobody. *)
Ready(f) ==
  /\ fib[f].alive /\ fib[f].incounter = 0
  /\ fib[f].outedge # NoFiber \/ f = Terminal

(* No fiber is lost: a ready one is in a buffer, a deque or a worker's     *)
(* hands, however forks, thefts and the ends of children interleave.  And  *)
(* the run does not come to a stop: until its end is announced somebody    *)
(* has a fiber, so that never all wait for all. *)
NoFiberIsLost ==
  /\ \A f \in Fiber : Ready(f) =>
       \E w \in Worker : \E i \in DOMAIN Held(w) : Held(w)[i] = f
  /\ ~ done => \E w \in Worker : \E i \in DOMAIN Held(w) : Held(w)[i] # NoFiber

(* A fiber is scheduled, and notifies, only when it is ready (asserts of   *)
(* mcsl_chaselev.hpp line 340 and mcsl_fiber.hpp line 70), and current is  *)
(* the fiber whose code the worker runs, so that a fork is made in its     *)
(* name (fork2, line 379). *)
CurrentIsRunning ==
  /\ \A w \in Worker : Running(w) /\ at[w].at = "body" =>
       cur[w] = at[w].f /\ currentFiber[w] = at[w].f
  /\ \A w \in Worker : wpc[w] = "returned" /\ fib[cur[w]].status # "pause"
       => fib[cur[w]].incounter = 0

(* When the end of the run is announced no worker has anything left to do: *)
(* every buffer and deque is empty, as the asserts of mcsl_chaselev.hpp    *)
(* lines 316-321 find them after the run, nobody holds a fiber, and every  *)
(* fiber that was made has been left by its last child.                    *)
NothingLeftBehind ==
  done =>
    /\ \A w \in Worker : Held(w) = <<NoFiber>>
    /\ \A f \in Fiber : fib[f].incounter = 0

(* What a fiber is doing, as the program sees it. *)
RunsNow(f) == \E w \in Worker : Running(w) /\ at[w] = [at |-> "body", f |-> f]

Phase(f) ==
  IF f = Terminal /\ fib[f].incounter = 1 THEN "blocked"
  ELSE IF f # Terminal /\ f >= made THEN "unborn"
  ELSE IF RunsNow(f) \/ (f = Terminal /\ fib[f].ctx = "used" /\ ~ done) THEN "running"
  ELSE IF fib[f].f1 # NoFiber THEN "waiting"
  ELSE IF fib[f].alive /\ fib[f].ctx = "begin" THEN "ready"
  ELSE "done"

Phases == [f \in Fiber |-> Phase(f)]
Kids == [f \in Fiber |-> IF fib[f].f1 = NoFiber THEN <<>> ELSE <<fib[f].f1, fib[f].f2>>]

Program == INSTANCE SeriesParallel WITH phase <- Phases, kids <- Kids

(* Every fiber's body runs once, between its parent's fork and join, and   *)
(* the parent goes on only when both children have ended. *)
RefinesProgram == Program!Spec

(* The run comes to its end and every worker leaves. *)
AllExit == <>AllExited
=============================================================================
