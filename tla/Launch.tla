------------------------------ MODULE Launch ------------------------------
(***************************************************************************)
(* One launch: the thread that calls it (main) starts a thread per worker, *)
(* becomes worker 0 or waits for it, and returns when all workers have     *)
(* left; then it writes the log.  From mcsl_scheduler.hpp (both platforms),*)
(* launch of mcsl_chaselev.hpp, launch0 of mcsl_fjnative.hpp, the worker   *)
(* ids of mcsl_perworker.hpp and mcsl_logging.hpp.                         *)
(*                                                                         *)
(* Everything the workers share (the barrier, should_terminate, the random *)
(* numbers, the closures) is on the stack of launch.  The scheduling of    *)
(* the program is that of ForkJoin and Elastic, reduced here to the set of *)
(* workers that hold a piece of it; of the log the events of kind "phases" *)
(* are kept.                                                               *)
(***************************************************************************)
EXTENDS Integers, Sequences, FiniteSets

CONSTANTS
  nb_workers,
  CpuCounts,     \* Nautilus: numbers of cpus considered
  Platforms,     \* subset of {"linux", "nautilus"}
  MaxSteals,     \* bound: pieces of the body that are stolen
  MaxSpurious,   \* bound: wake-ups of worker 0 that nobody caused
  MaxTime,       \* bound: values of the log's clock
  Anywhere       \* bound to no cpu

Worker == 0..(nb_workers - 1)
Uninitialized == -1

ASSUME WorkersAssumption == nb_workers \in Nat \ {0}
ASSUME CpusAssumption == CpuCounts \subseteq Nat \ {0}
ASSUME PlatformsAssumption == Platforms \subseteq {"linux", "nautilus"}
ASSUME BoundsAssumption == {MaxSteals, MaxSpurious, MaxTime} \subseteq Nat
ASSUME AnywhereAssumption == Anywhere \notin Int

VARIABLES
  platform, pinned,   \* the build, the pinning policy: never change
  core,               \* Nautilus: cpu of each worker, or -1; never changes
  main, next,         \* main: what it does, launch's loop index
  pc,                 \* each worker: where it is
  id, bound,          \* each worker's thread: its worker id, its cpus
  main_id,            \* the worker id of main's thread
  lock, waiting, signal, nb_workers_exited,   \* worker_exit_barrier
  stage, busy,        \* the program: how far, which workers hold a piece
  should_terminate,
  steals, spurious,   \* counters for the bounds
  time, logs,         \* the log's clock, the workers' buffers
  output              \* what was written

env == <<platform, pinned, core>>
control == <<main, next, main_id>>
thread == <<id, bound>>
barrier == <<lock, waiting, signal, nb_workers_exited>>
program == <<stage, busy, should_terminate, steals>>
logging == <<time, logs, output>>
vars == <<env, control, pc, thread, barrier, program, spurious, logging>>

NoLock == nb_workers     \* nobody holds exit_lock

(* nautilus_assign_cpusets: workers 0, 1, ... on cpus 1, 2, ..., around.   *)
Assigned(nb_cpus) == [w \in Worker |-> IF w = 0 THEN 1 ELSE (w + 1) % nb_cpus]

Unassigned == [w \in Worker |-> -1]

(* The worker that main runs itself: main goes on when it has left.        *)
Inline(w) == IF platform = "linux" THEN w = 0 ELSE core[w] = 0

(* push of logging_base: an event goes to the buffer of the caller's id.   *)
Event(w, tag) == [tag |-> tag, timestamp |-> time, worker_id |-> w]

Push(w, tag) ==
  /\ logs' = [logs EXCEPT ![w] = Append(@, Event(w, tag))]
  /\ UNCHANGED <<time, output>>

(* unique_id::initialize has given main's thread the id 0; the log has     *)
(* been initialised and the first fiber is in the buffer of worker 0.      *)
Init ==
  /\ platform \in Platforms /\ pinned \in BOOLEAN
  /\ core \in IF platform = "nautilus" /\ pinned
                THEN {Assigned(n) : n \in CpuCounts} ELSE {Unassigned}
  /\ main = "launch" /\ next = 1 /\ main_id = 0
  /\ pc = [w \in Worker |-> "unborn"]
  /\ id = [w \in Worker |-> Uninitialized]
  /\ bound = [w \in Worker |-> Anywhere]
  /\ lock = NoLock /\ waiting = FALSE /\ signal = FALSE
  /\ nb_workers_exited = 0
  /\ stage = "before" /\ busy = {0} /\ should_terminate = FALSE
  /\ steals = 0 /\ spurious = 0
  /\ time = 0 /\ output = <<>>
  /\ logs = [w \in Worker |->
       IF w = 0 THEN <<[tag |-> "enter_launch", timestamp |-> 0, worker_id |-> 0]>>
       ELSE <<>>]

Tick ==
  /\ time < MaxTime /\ main # "end"
  /\ time' = time + 1
  /\ UNCHANGED <<env, control, pc, thread, barrier, program, spurious, logs, output>>

-----------------------------------------------------------------------------
(* main *)

(* launch starts workers 1, 2, ... and then 0. *)
Launched(i) == IF i = nb_workers THEN 0 ELSE i

(* A thread on Nautilus is created on its cpu; an inline worker has main's *)
(* thread, and its id.                                                     *)
LaunchWorkerThread ==
  /\ main = "launch"
  /\ LET w == Launched(next) IN
       /\ pc' = [pc EXCEPT ![w] = "start"]
       /\ id' = [id EXCEPT ![w] = IF Inline(w) THEN main_id ELSE Uninitialized]
       /\ bound' = [bound EXCEPT ![w] =
                      IF platform = "nautilus" /\ pinned THEN w ELSE Anywhere]
       /\ main' = IF Inline(w) THEN "worker"
                  ELSE IF next = nb_workers THEN "worker0_wait" ELSE "launch"
  /\ next' = next + 1
  /\ UNCHANGED <<env, main_id, barrier, program, spurious, logging>>

(* The worker main has run inline has left. *)
InlineReturns ==
  /\ main = "worker"
  /\ pc[Launched(next - 1)] = "gone"
  /\ main' = IF next > nb_workers THEN "returned" ELSE "launch"
  /\ UNCHANGED <<env, next, main_id, pc, thread, barrier, program, spurious, logging>>

(* Nautilus, worker 0 on another cpu: main waits until all have notified.  *)
Worker0Wait ==
  /\ main = "worker0_wait"
  /\ nb_workers_exited = nb_workers
  /\ main' = "returned"
  /\ UNCHANGED <<env, next, main_id, pc, thread, barrier, program, spurious, logging>>

(* Where the events are: whose buffer, the how-manyth there. *)
Places(buffers) == UNION {{w} \X DOMAIN buffers[w] : w \in Worker}

At(buffers, p) == buffers[p[1]][p[2]]

(* Mutant of Before: The buffers one after the other, without the sort. *)
BeforeUnsorted(buffers, p, q) == p[1] < q[1] \/ (p[1] = q[1] /\ p[2] < q[2])

(* The buffers one after the other, then a stable sort by time. *)
Before(buffers, p, q) ==
  \/ At(buffers, p).timestamp < At(buffers, q).timestamp
  \/ /\ At(buffers, p).timestamp = At(buffers, q).timestamp
     /\ p[1] < q[1] \/ (p[1] = q[1] /\ p[2] < q[2])

Rank(buffers, p) == Cardinality({q \in Places(buffers) : Before(buffers, q, p)}) + 1

Merged(buffers) ==
  LET rank == [p \in Places(buffers) |-> Rank(buffers, p)] IN
    [k \in 1..Cardinality(Places(buffers)) |->
       At(buffers, CHOOSE p \in Places(buffers) : rank[p] = k)]

(* launch has returned: output logs exit_launch and writes the events. *)
Output ==
  /\ main = "returned"
  /\ main' = "end"
  /\ logs' = [logs EXCEPT ![main_id] = Append(@, Event(main_id, "exit_launch"))]
  /\ output' = Merged(logs')
  /\ UNCHANGED <<env, next, main_id, pc, thread, barrier, program, spurious, time>>

-----------------------------------------------------------------------------
(* A worker's thread *)

Step(w, from, to) == pc[w] = from /\ pc' = [pc EXCEPT ![w] = to]

(* Mutant of InitializeWorker: Threads keep the id of the thread that      *)
(* started them.                                                           *)
InitializeWorkerLate(w) ==
  /\ Step(w, "start", IF platform = "linux" THEN "pin" ELSE "loop")
  /\ id' = [id EXCEPT ![w] = IF @ = Uninitialized THEN main_id ELSE @]
  /\ main_id' = IF Inline(w) THEN w ELSE main_id
  /\ UNCHANGED <<env, main, next, bound, barrier, program, spurious, logging>>

InitializeWorker(w) ==
  /\ Step(w, "start", IF platform = "linux" THEN "pin" ELSE "loop")
  /\ id' = [id EXCEPT ![w] = w]
  /\ main_id' = IF Inline(w) THEN w ELSE main_id
  /\ UNCHANGED <<env, main, next, bound, barrier, program, spurious, logging>>

(* The cpuset is that of the id; hwloc may refuse it, which is ignored. *)
PinCallingWorker(w) ==
  /\ Step(w, "pin", "loop")
  /\ bound' = [bound EXCEPT ![w] = IF pinned THEN id[w] ELSE Anywhere] \/ bound' = bound
  /\ UNCHANGED <<env, control, id, barrier, program, spurious, logging>>

(* A worker without work goes to acquire; a lone worker leaves at once.    *)
EnterAcquire(w) ==
  /\ w \notin busy
  /\ IF nb_workers = 1
       THEN Step(w, "loop", "exit") /\ UNCHANGED logging
       ELSE Step(w, "loop", "acquire") /\ Push(id[w], "enter_wait")
  /\ UNCHANGED <<env, control, thread, barrier, program, spurious>>

(* Only the body has pieces to steal, and only a worker in its loop has    *)
(* put them on its deque.                                                  *)
Steal(w) ==
  /\ Step(w, "acquire", "loop")
  /\ stage = "body" /\ steals < MaxSteals
  /\ \E v \in busy : pc[v] = "loop"
  /\ busy' = busy \cup {w} /\ steals' = steals + 1
  /\ Push(id[w], "exit_wait")
  /\ UNCHANGED <<env, control, thread, barrier, stage, should_terminate, spurious>>

(* acquire returns scheduler_status_finish. *)
LeaveAcquire(w) ==
  /\ Step(w, "acquire", "exit")
  /\ should_terminate
  /\ Push(id[w], "exit_wait")
  /\ UNCHANGED <<env, control, thread, barrier, program, spurious>>

(* A worker ends its piece; the one that ends the last piece goes on. *)
EndPiece(w) ==
  /\ pc[w] = "loop" /\ w \in busy /\ busy # {w}
  /\ busy' = busy \ {w}
  /\ UNCHANGED <<env, control, pc, thread, barrier, stage, should_terminate,
                 steals, spurious, logging>>

(* The fibers launch0 puts around the body. *)
BeforeBench(w) ==
  /\ pc[w] = "loop" /\ busy = {w} /\ stage = "before"
  /\ stage' = "body"
  /\ Push(id[w], "enter_algo")
  /\ UNCHANGED <<env, control, pc, thread, barrier, busy, should_terminate, steals, spurious>>

AfterBench(w) ==
  /\ pc[w] = "loop" /\ busy = {w} /\ stage = "body"
  /\ stage' = "after"
  /\ Push(id[w], "exit_algo")
  /\ UNCHANGED <<env, control, pc, thread, barrier, busy, should_terminate, steals, spurious>>

Terminal(w) ==
  /\ pc[w] = "loop" /\ busy = {w} /\ stage = "after"
  /\ stage' = "end" /\ busy' = {}
  /\ should_terminate' = TRUE
  /\ UNCHANGED <<env, control, pc, thread, barrier, steals, spurious, logging>>

-----------------------------------------------------------------------------
(* worker_exit_barrier::wait *)

(* Mutant of LastOut: The last worker is taken for the last but one. *)
LastOutEarly(nb) == nb = nb_workers - 1

LastOut(nb) == nb = nb_workers

LockAndCount(w) ==
  /\ platform = "linux" /\ lock = NoLock
  /\ Step(w, "exit", IF w = 0 THEN "test" ELSE "notify")
  /\ lock' = w
  /\ nb_workers_exited' = nb_workers_exited + 1
  /\ UNCHANGED <<env, control, thread, waiting, signal, program, spurious, logging>>

(* notify_one wakes worker 0 if it waits. *)
NotifyOne(w) ==
  /\ Step(w, "notify", "unlock")
  /\ signal' = (signal \/ (LastOut(nb_workers_exited) /\ waiting))
  /\ UNCHANGED <<env, control, thread, lock, waiting, nb_workers_exited,
                 program, spurious, logging>>

Unlock(w) ==
  /\ Step(w, "unlock", "gone")
  /\ lock' = NoLock
  /\ UNCHANGED <<env, control, thread, waiting, signal, nb_workers_exited,
                 program, spurious, logging>>

(* Worker 0 tests its predicate; waiting gives the lock back. *)
TestPredicate ==
  /\ IF nb_workers_exited = nb_workers
       THEN Step(0, "test", "unlock") /\ UNCHANGED <<lock, waiting>>
       ELSE Step(0, "test", "wait") /\ lock' = NoLock /\ waiting' = TRUE
  /\ UNCHANGED <<env, control, thread, signal, nb_workers_exited, program,
                 spurious, logging>>

(* Mutant of WakeUp: Worker 0 enters wait again after a wake-up and is     *)
(* counted again.                                                          *)
WakeUpRecounts ==
  /\ lock = NoLock
  /\ Step(0, "wait", "exit")
  /\ lock' = NoLock /\ waiting' = FALSE /\ signal' = FALSE
  /\ UNCHANGED <<env, control, thread, nb_workers_exited, program, logging>>

(* Mutant of WakeUp: condition_variable::wait without a predicate. *)
WakeUpUnchecked ==
  /\ lock = NoLock
  /\ Step(0, "wait", "unlock")
  /\ lock' = 0 /\ waiting' = FALSE /\ signal' = FALSE
  /\ UNCHANGED <<env, control, thread, nb_workers_exited, program, logging>>

WakeUp ==
  /\ lock = NoLock
  /\ Step(0, "wait", "test")
  /\ lock' = 0 /\ waiting' = FALSE /\ signal' = FALSE
  /\ UNCHANGED <<env, control, thread, nb_workers_exited, program, logging>>

Woken == signal /\ WakeUp /\ spurious' = spurious

SpuriousWakeUp ==
  /\ ~ signal /\ spurious < MaxSpurious
  /\ WakeUp /\ spurious' = spurious + 1

(* On Nautilus leaving is one call into the kernel. *)
NotifyExit(w) ==
  /\ platform = "nautilus"
  /\ Step(w, "exit", "gone")
  /\ nb_workers_exited' = nb_workers_exited + 1
  /\ UNCHANGED <<env, control, thread, lock, waiting, signal, program, spurious, logging>>

-----------------------------------------------------------------------------
WorkerStep(w) ==
  \/ InitializeWorker(w) \/ PinCallingWorker(w)
  \/ EnterAcquire(w) \/ Steal(w) \/ LeaveAcquire(w)
  \/ EndPiece(w) \/ BeforeBench(w) \/ AfterBench(w) \/ Terminal(w)
  \/ LockAndCount(w) \/ NotifyOne(w) \/ Unlock(w) \/ NotifyExit(w)
  \/ w = 0 /\ (TestPredicate \/ Woken)

MainStep == LaunchWorkerThread \/ InlineReturns \/ Worker0Wait \/ Output

Next ==
  \/ MainStep
  \/ \E w \in Worker : WorkerStep(w)
  \/ SpuriousWakeUp
  \/ Tick

Spec == Init /\ [][Next]_vars

(* The system runs every thread that can run; nobody owes the clock or a   *)
(* spurious wake-up.                                                       *)
FairSpec ==
  /\ Spec
  /\ WF_vars(MainStep)
  /\ \A w \in Worker : WF_vars(WorkerStep(w))

-----------------------------------------------------------------------------
Waiting == {"launch", "worker", "worker0_wait"}
Inside == {"start", "pin", "loop", "acquire", "exit", "notify", "unlock", "test", "wait"}
Tags == {"enter_launch", "exit_launch", "enter_algo", "exit_algo", "enter_wait", "exit_wait"}
Events == [tag : Tags, timestamp : 0..MaxTime, worker_id : Worker]

TypeOK ==
  /\ platform \in Platforms /\ pinned \in BOOLEAN /\ core \in [Worker -> Int]
  /\ main \in Waiting \cup {"returned", "end"}
  /\ next \in 1..(nb_workers + 1) /\ main_id \in Worker
  /\ pc \in [Worker -> Inside \cup {"unborn", "gone"}]
  /\ id \in [Worker -> Worker \cup {Uninitialized}]
  /\ bound \in [Worker -> Worker \cup {Anywhere}]
  /\ lock \in Worker \cup {NoLock}
  /\ waiting \in BOOLEAN /\ signal \in BOOLEAN
  /\ nb_workers_exited \in 0..nb_workers
  /\ stage \in {"before", "body", "after", "end"}
  /\ busy \subseteq Worker /\ should_terminate \in BOOLEAN
  /\ steals \in 0..MaxSteals /\ spurious \in 0..MaxSpurious
  /\ time \in 0..MaxTime
  /\ logs \in [Worker -> Seq(Events)] /\ output \in Seq(Events)

(* launch does not return while a worker is inside it: the barrier, the    *)
(* flag and the closures on its stack outlive all who use them, whoever    *)
(* arrives last and however often worker 0 wakes up for nothing.           *)
FrameOutlivesWorkers ==
  main \in {"returned", "end"} =>
    /\ \A w \in Worker : pc[w] = "gone"
    /\ lock = NoLock

(* The wake-up of worker 0 is not lost: as long as it waits, it has been   *)
(* signalled or another worker has still to pass notify_one.  Only the     *)
(* last worker notifies, only a thread that waits hears it, and worker 0   *)
(* may be counted at any place and wake up for nothing in between.         *)
NoWakeUpIsLost ==
  pc[0] = "wait" => signal \/ \E w \in Worker \ {0} : pc[w] \notin {"unlock", "gone"}

(* Per-worker storage (buffers, deques, cpusets, logs) is found through    *)
(* the id of the thread: it is the worker's own as soon as it is used, and *)
(* a worker is bound to its own cpus or to none.                           *)
WorkersUseTheirOwn ==
  \A w \in Worker :
    /\ pc[w] \notin {"unborn", "start"} => id[w] = w
    /\ bound[w] \in {w, Anywhere}

(* What output writes is complete and in order: every event of every       *)
(* worker, those of its last moments included, each worker's in the order  *)
(* they happened, all sorted by time.                                      *)
OutputIsComplete ==
  main = "end" =>
    /\ \A k \in 1..(Len(output) - 1) : output[k].timestamp <= output[k + 1].timestamp
    /\ \A w \in Worker :
         LET own == {k \in DOMAIN output : output[k].worker_id = w} IN
           /\ Cardinality(own) = Len(logs[w])
           /\ \A k \in own : output[k] = logs[w][Cardinality({j \in own : j <= k})]
    /\ \A tag \in {"enter_wait", "exit_wait"} :
         Cardinality({k \in DOMAIN output : output[k].tag = tag})
           = IF nb_workers = 1 THEN 0 ELSE nb_workers + steals

(* launch returns and writes the log.  On Nautilus this is so only if main *)
(* runs no worker inline but worker 0: the others do not leave before      *)
(* worker 0 has started.                                                   *)
OnlyWorker0Inline == \A w \in Worker : Inline(w) => w = 0

LaunchReturns == OnlyWorker0Inline ~> main = "end"
=============================================================================
