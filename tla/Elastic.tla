------------------------------ MODULE Elastic ------------------------------
(***************************************************************************)
(* The elastic work-stealing loop: acquire() and the part of worker_loop() *)
(* that calls it (mcsl_chaselev.hpp), with the sleeping and waking of      *)
(* mcsl_elastic.hpp inside.  A worker that fails to steal may put itself   *)
(* to sleep under a worker of higher priority: it links itself at the head *)
(* of that worker's list of children with one compare-and-swap on the      *)
(* status word and waits on its semaphore.  A worker that finds work, or   *)
(* leaves, sets its busy bit and posts the semaphores of its children.     *)
(*                                                                         *)
(* Each access to a status word, a semaphore, a next field or the          *)
(* termination detector is a step of its own, except where two of them     *)
(* cannot be told apart (see the comments).  The deques and the            *)
(* termination detector are used through what they promise: a steal is one *)
(* step and may fail for no reason (WSDeque); is_terminated() is false     *)
(* while a worker is between set_active(true) and set_active(false), and   *)
(* otherwise may be either (TerminationDetection).  A task is a fiber;     *)
(* what runs in it is left out, except that it may make more tasks and     *)
(* that the terminal fiber runs when all tasks are finished.               *)
(*                                                                         *)
(* With one worker acquire returns at once and nothing of this is used, so *)
(* there are at least two.                                                 *)
(***************************************************************************)
EXTENDS Integers, FiniteSets

CONSTANTS
  Worker,       \* the workers
  First,        \* the worker that runs the first fiber (id 0)
  Prio,         \* the priorities hash() may yield (56 bits in the source)
  Attempts,     \* nb_steal_attempts
  MaxTasks      \* bound: tasks made in one run

ASSUME WorkerAssumption == First \in Worker /\ IsFiniteSet(Worker) /\ Worker # {First}
ASSUME PrioAssumption == Prio \subseteq Nat /\ Prio # {}
ASSUME BoundAssumption == Attempts \in Nat \ {0} /\ MaxTasks \in Nat \ {0}

VARIABLES
  status,       \* status words: busy bit, priority, head of the children list
  next,         \* the next fields of the children lists
  sem,          \* the semaphores
  active,       \* termination detector: the workers that are active
  done,         \* should_terminate
  tasks,        \* the number of tasks in each worker's deque
  made, live,   \* tasks made so far, and those of them not finished
  pc, loc       \* each worker's program counter and the locals of acquire

elasticVars == <<status, next, sem>>
taskVars == <<tasks, made, live>>
vars == <<status, next, sem, active, done, tasks, made, live, pc, loc>>

-----------------------------------------------------------------------------
Word(busy, prio, head) == [busy |-> busy, prio |-> prio, head |-> head]

(* The operations of atomic_status_word: clear, set_busy_bit and the word  *)
(* that cas_head stores. *)
Clear(w, prio, isBusy) == Word(isBusy, prio, w)
BusyBitSet(word) == [word EXCEPT !.busy = TRUE]
WithHead(word, newHead) == [word EXCEPT !.head = newHead]

(* post() of either semaphore; wait() is SemWait. *)
Posted(s) == s + 1

(* target: whom to steal from or sleep under; i: attempts left; word: the  *)
(* target's status as loaded; idx, nextIdx: the traversal of wake_children; *)
(* current: whether a task was stolen; leaving: whether acquire is to      *)
(* return scheduler_status_finish.                                         *)
Locals(w) ==
  [target |-> w, i |-> 0, word |-> Word(FALSE, 0, w), idx |-> w, nextIdx |-> w,
   current |-> FALSE, leaving |-> FALSE]

(* initialize(): everyone is busy (the priority of a busy word is never    *)
(* compared, so it may as well be the same for all).  launch() marks       *)
(* itself active and gives the first fiber to worker First; the other      *)
(* threads have yet to start.                                              *)
Init ==
  /\ \E p \in Prio : status = [w \in Worker |-> Clear(w, p, TRUE)]
  /\ next = [w \in Worker |-> w]
  /\ sem = [w \in Worker |-> 0]
  /\ active = {First}
  /\ done = FALSE
  /\ tasks = [w \in Worker |-> 0]
  /\ made = 1 /\ live = 1
  /\ pc = [w \in Worker |-> IF w = First THEN "work" ELSE "start"]
  /\ loc = [w \in Worker |-> Locals(w)]

Goto(w, label) == pc' = [pc EXCEPT ![w] = label]

-----------------------------------------------------------------------------
(* worker_loop                                                             *)

(* A worker thread marks itself active; it finds its deque empty. *)
Start(w) ==
  /\ pc[w] = "start"
  /\ active' = active \cup {w}
  /\ Goto(w, "enter")
  /\ UNCHANGED <<elasticVars, done, taskVars, loc>>

(* The task that runs makes another, which goes to the deque. *)
MakeTask(w) ==
  /\ pc[w] = "work"
  /\ made < MaxTasks
  /\ made' = made + 1 /\ live' = live + 1
  /\ tasks' = [tasks EXCEPT ![w] = @ + 1]
  /\ UNCHANGED <<elasticVars, active, done, pc, loc>>

(* Mutant of FinishTask: the deque is popped without looking whether it is *)
(* empty. *)
FinishTaskPopsBlindly(w) ==
  /\ pc[w] = "work"
  /\ live' = live - 1
  /\ \/ live = 1 /\ tasks' = tasks /\ Goto(w, "terminal")
     \/ live > 1 /\ tasks' = [tasks EXCEPT ![w] = @ - 1] /\ pc' = pc
  /\ UNCHANGED <<elasticVars, active, done, made, loc>>

(* The task finishes.  The last one makes the terminal fiber ready, which  *)
(* the same worker runs next; otherwise the worker pops its deque, and     *)
(* calls acquire if that is empty.                                         *)
FinishTask(w) ==
  /\ pc[w] = "work"
  /\ live' = live - 1
  /\ \/ live = 1 /\ tasks' = tasks /\ Goto(w, "terminal")
     \/ live > 1 /\ tasks[w] > 0 /\ tasks' = [tasks EXCEPT ![w] = @ - 1] /\ pc' = pc
     \/ live > 1 /\ tasks[w] = 0 /\ tasks' = tasks /\ Goto(w, "enter")
  /\ UNCHANGED <<elasticVars, active, done, made, loc>>

(* scheduler_status_finish is assigned to status but acquire() overwrites  *)
(* it: this worker too leaves through acquire.                             *)
RunTerminal(w) ==
  /\ pc[w] = "terminal"
  /\ done' = TRUE
  /\ Goto(w, "enter")
  /\ UNCHANGED <<elasticVars, active, taskVars, loc>>

-----------------------------------------------------------------------------
(* acquire, up to try_to_sleep                                             *)

EnterAcquire(w) ==
  /\ pc[w] = "enter"
  /\ active' = active \ {w}
  /\ Goto(w, "accept")
  /\ UNCHANGED <<elasticVars, done, taskVars, loc>>

(* Clears the busy bit and the list, draws a new priority. *)
AcceptLifelines(w) ==
  /\ pc[w] = "accept"
  /\ \E p \in Prio : status' = [status EXCEPT ![w] = Clear(w, p, FALSE)]
  /\ Goto(w, "choose")
  /\ UNCHANGED <<next, sem, active, done, taskVars, loc>>

Others(w) == Worker \ {w}

(* A new victim, or somebody to sleep under, with k attempts left. *)
Retarget(l, v, k) == [l EXCEPT !.target = v, !.i = k]

(* The head of the loop of acquire: a victim is drawn. *)
Choose(w) ==
  /\ pc[w] = "choose"
  /\ \E v \in Others(w) : loc' = [loc EXCEPT ![w] = Retarget(@, v, Attempts)]
  /\ Goto(w, "raise")
  /\ UNCHANGED <<elasticVars, active, done, taskVars>>

(* Mutant of Raise: a thief steals before it marks itself active. *)
RaiseLate(w) ==
  /\ pc[w] = "raise"
  /\ active' = active
  /\ Goto(w, "steal")
  /\ UNCHANGED <<elasticVars, done, taskVars, loc>>

(* A thief is active before it steals: a task in its hands is counted. *)
Raise(w) ==
  /\ pc[w] = "raise"
  /\ active' = active \cup {w}
  /\ Goto(w, "steal")
  /\ UNCHANGED <<elasticVars, done, taskVars, loc>>

Steal(w) ==
  LET v == loc[w].target IN
  /\ pc[w] = "steal"
  /\ \/ /\ tasks[v] > 0
        /\ tasks' = [tasks EXCEPT ![v] = @ - 1]
        /\ loc' = [loc EXCEPT ![w].current = TRUE]
        /\ Goto(w, "setBusy")
     \/ /\ Goto(w, "lower")
        /\ UNCHANGED <<tasks, loc>>
  /\ UNCHANGED <<elasticVars, active, done, made, live>>

(* The attempt failed; the next one, or try_to_sleep, gets a new target. *)
Lower(w) ==
  /\ pc[w] = "lower"
  /\ active' = active \ {w}
  /\ \E v \in Others(w) : loc' = [loc EXCEPT ![w] = Retarget(@, v, loc[w].i - 1)]
  /\ Goto(w, IF loc[w].i > 1 THEN "raise" ELSE "sleepLoad")
  /\ UNCHANGED <<elasticVars, done, taskVars>>

-----------------------------------------------------------------------------
(* try_to_sleep                                                            *)

(* Mutant of MaySleepUnder: equal priorities will do. *)
MaySleepUnderEqual(w, word) == ~ word.busy /\ word.prio >= status[w].prio

(* An idle worker of strictly higher priority. *)
MaySleepUnder(w, word) == ~ word.busy /\ word.prio > status[w].prio

(* Loads both status words (its own priority is changed by nobody else, so *)
(* one step does) and, if it may sleep under target, writes its own next   *)
(* field, which nobody reads before the compare-and-swap links it.         *)
SleepLoad(w) ==
  LET word == status[loc[w].target] IN
  /\ pc[w] = "sleepLoad"
  /\ \/ /\ MaySleepUnder(w, word)
        /\ next' = [next EXCEPT ![w] = word.head]
        /\ loc' = [loc EXCEPT ![w].word = word]
        /\ Goto(w, "sleepCas")
     \/ /\ ~ MaySleepUnder(w, word)
        /\ Goto(w, "check")
        /\ UNCHANGED <<next, loc>>
  /\ UNCHANGED <<status, sem, active, done, taskVars>>

(* Mutant of SleepCas: the head is stored without comparing the word. *)
SleepStore(w) ==
  LET v == loc[w].target IN
  /\ pc[w] = "sleepCas"
  /\ status' = [status EXCEPT ![v].head = w]
  /\ Goto(w, "sleep")
  /\ loc' = [loc EXCEPT ![w].word = Word(FALSE, 0, w)]
  /\ UNCHANGED <<next, sem, active, done, taskVars>>

(* A weak compare-and-swap of the whole word: it may fail for no reason. *)
SleepCas(w) ==
  LET v == loc[w].target IN
  /\ pc[w] = "sleepCas"
  /\ \/ /\ status[v] = loc[w].word
        /\ status' = [status EXCEPT ![v] = WithHead(loc[w].word, w)]
        /\ Goto(w, "sleep")
     \/ /\ Goto(w, "check")
        /\ status' = status
  /\ loc' = [loc EXCEPT ![w].word = Word(FALSE, 0, w)]
  /\ UNCHANGED <<next, sem, active, done, taskVars>>

SemWait(w) ==
  /\ pc[w] = "sleep"
  /\ sem[w] > 0
  /\ sem' = [sem EXCEPT ![w] = @ - 1]
  /\ Goto(w, "check")
  /\ UNCHANGED <<status, next, active, done, taskVars, loc>>

-----------------------------------------------------------------------------
(* wake_children                                                           *)

(* Sets the busy bit and loads the word (a busy word's head is changed by  *)
(* nobody, so one step does). *)
SetBusy(w) ==
  /\ pc[w] = "setBusy"
  /\ status' = [status EXCEPT ![w] = BusyBitSet(@)]
  /\ loc' = [loc EXCEPT ![w].idx = status[w].head]
  /\ Goto(w, "wake")
  /\ UNCHANGED <<next, sem, active, done, taskVars>>

(* The child's next field is read before its semaphore is posted. *)
WakeRead(w) ==
  /\ pc[w] = "wake"
  /\ loc[w].idx # w
  /\ loc' = [loc EXCEPT ![w].nextIdx = next[loc[w].idx]]
  /\ Goto(w, "post")
  /\ UNCHANGED <<elasticVars, active, done, taskVars>>

(* On to the next child. *)
Advance(l, w) == [l EXCEPT !.idx = l.nextIdx, !.nextIdx = w]

WakePost(w) ==
  /\ pc[w] = "post"
  /\ sem' = [sem EXCEPT ![loc[w].idx] = Posted(@)]
  /\ loc' = [loc EXCEPT ![w] = Advance(@, w)]
  /\ Goto(w, "wake")
  /\ UNCHANGED <<status, next, active, done, taskVars>>

(* All posted: back in acquire, or out of the scheduler. *)
WakeDone(w) ==
  /\ pc[w] = "wake"
  /\ loc[w].idx = w
  /\ Goto(w, IF loc[w].leaving THEN "exited" ELSE "check")
  /\ UNCHANGED <<elasticVars, active, done, taskVars, loc>>

-----------------------------------------------------------------------------
(* The end of a turn of acquire's loop.                                    *)

(* is_terminated() || should_terminate may be true; it must be if done. *)
MayLeave == active = {} \/ done
MayStay == ~ done

(* Mutant of Check: a worker leaves without waking its children. *)
CheckLeavesAtOnce(w) ==
  /\ pc[w] = "check"
  /\ \/ MayLeave /\ loc' = loc /\ Goto(w, "exited")
     \/ /\ MayStay
        /\ loc' = [loc EXCEPT ![w] = Locals(w)]
        /\ Goto(w, IF loc[w].current THEN "work" ELSE "choose")
  /\ UNCHANGED <<elasticVars, active, done, taskVars>>

Check(w) ==
  /\ pc[w] = "check"
  /\ \/ /\ MayLeave
        /\ loc' = [loc EXCEPT ![w].leaving = TRUE]
        /\ Goto(w, "setBusy")
     \/ /\ MayStay
        /\ loc' = [loc EXCEPT ![w] = Locals(w)]
        /\ Goto(w, IF loc[w].current THEN "work" ELSE "choose")
  /\ UNCHANGED <<elasticVars, active, done, taskVars>>

-----------------------------------------------------------------------------
Step(w) ==
  \/ Start(w) \/ MakeTask(w) \/ FinishTask(w) \/ RunTerminal(w)
  \/ EnterAcquire(w) \/ AcceptLifelines(w) \/ Choose(w) \/ Raise(w) \/ Steal(w) \/ Lower(w)
  \/ SleepLoad(w) \/ SleepCas(w) \/ SemWait(w)
  \/ SetBusy(w) \/ WakeRead(w) \/ WakePost(w) \/ WakeDone(w) \/ Check(w)

AllExited == \A w \in Worker : pc[w] = "exited"

Next == (\E w \in Worker : Step(w)) \/ (AllExited /\ UNCHANGED vars)

Spec == Init /\ [][Next]_vars

(* Every worker is a thread of its own. *)
FairSpec == Spec /\ \A w \in Worker : WF_vars(Step(w))

-----------------------------------------------------------------------------
(* Properties                                                              *)

PC == {"start", "work", "terminal", "enter", "accept", "choose", "raise", "steal", "lower",
       "sleepLoad", "sleepCas", "sleep", "setBusy", "wake", "post", "check", "exited"}

StatusWord == [busy : BOOLEAN, prio : Prio \cup {0}, head : Worker]

(* Every variable has the shape the declarations above describe. *)
TypeOK ==
  /\ status \in [Worker -> StatusWord]
  /\ next \in [Worker -> Worker]
  /\ sem \in [Worker -> Nat]
  /\ active \subseteq Worker
  /\ done \in BOOLEAN
  /\ tasks \in [Worker -> Nat]
  /\ made \in Nat /\ live \in Nat
  /\ pc \in [Worker -> PC]
  /\ loc \in [Worker -> [target : Worker, i : 0..Attempts, word : StatusWord, idx : Worker,
                         nextIdx : Worker, current : BOOLEAN, leaving : BOOLEAN]]

(* The workers on the list that starts at x and ends at its owner p: those *)
(* in every set that holds x and is closed under next, p left out. *)
Closed(p, S) == \A y \in S \ {p} : next[y] \in S
Listed(p, x) ==
  {w \in Worker \ {p} : \A S \in SUBSET Worker : x \in S /\ Closed(p, S) => w \in S}

(* The workers that p has yet to post: its list, or what is left of it. *)
Children(p) ==
  CASE pc[p] = "wake"  -> Listed(p, loc[p].idx)
    [] pc[p] = "post"  -> {loc[p].idx} \cup Listed(p, loc[p].nextIdx)
    [] pc[p] \notin {"wake", "post"} /\ ~ status[p].busy -> Listed(p, status[p].head)
    [] OTHER -> {}

Asleep(w) == pc[w] = "sleep" /\ sem[w] = 0

(* The children lists hold exactly the sleepers, each on one list: nobody  *)
(* sleeps whom nobody will wake, and nobody is posted twice or while awake *)
(* (the asserts of spinning_binary_semaphore, lines 36 and 41).            *)
SleepersAreListedOnce ==
  /\ \A w \in Worker :
       Cardinality({p \in Worker : w \in Children(p)}) = (IF Asleep(w) THEN 1 ELSE 0)
  /\ \A w \in Worker : sem[w] = 0 \/ (sem[w] = 1 /\ pc[w] = "sleep")

(* A worker sleeps under one of strictly higher priority that is itself    *)
(* asleep or still inside acquire: sleepers cannot wait in a circle, and   *)
(* the chain ends at a worker that steals or wakes (try_to_sleep line 170).*)
SleepersHaveAwakeRoot ==
  \A p \in Worker : \A w \in Children(p) :
    /\ status[w].prio < status[p].prio
    /\ pc[p] \in {"choose", "raise", "steal", "lower", "sleepLoad", "sleepCas", "sleep",
                  "setBusy", "wake", "post", "check"}

(* The detector reports termination, and should_terminate is set, only     *)
(* when there is no task left, in a deque or in a worker's hands; so a     *)
(* worker that leaves acquire drops no task (the assert of line 245).      *)
TerminationIsSound ==
  /\ MayLeave => live = 0
  /\ \A w \in Worker : pc[w] = "check" /\ MayLeave => ~ loc[w].current

(* Line 61: "If a worker is busy, its head field points to itself". *)
BusyHeadIsSelf == \A w \in Worker : status[w].busy => status[w].head = w

(* Every worker leaves the scheduler once the work is done; in particular  *)
(* the ones that sleep are woken.                                          *)
AllExit == <>AllExited
=============================================================================
