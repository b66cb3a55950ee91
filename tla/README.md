# Verification of the mcsl scheduler

TLA+ models of the multicore scheduling library in `src/`, the TLC
configurations that check them and TLAPS proofs about them. The library is a
set of C++ headers; a program calls `mcsl::launch` with a body, and the body
calls `mcsl::fork2`. Everything below is translated from the headers, at the
lines `PROJECT.json` names under `map`.

## The system

| part | state | operations |
|---|---|---|
| deque (`mcsl_chaselev.hpp` 20-131) | `top`, `bottom`, `array`, the slots of the circular arrays | owner: `push`, `pop`, `empty`; thieves: `steal` |
| scheduler (`mcsl_chaselev.hpp` 133-350) | a buffer and a deque per worker, `should_terminate` | `worker_loop`, `acquire`, `flush`, `take`, `schedule` |
| elastic sleeping (`mcsl_elastic.hpp`) | status word (busy, priority, head), `next`, semaphore per worker | `try_to_sleep`, `wake_children`, `accept_lifelines` |
| termination detection (`mcsl_snzi.hpp`) | a tree of counters (half, version) | `set_active`, `is_terminated` |
| fibers (`mcsl_fiber.hpp`) | `incounter`, `outedge` | `add_edge`, `release`, `notify`, `finish` |
| native fork-join (`mcsl_fjnative.hpp`) | `status`, `stack`, `ctx` of a fiber, `current_fiber` | `fork2`, `exec`, `launch` |
| launch and exit (`mcsl_scheduler.hpp`) | threads, `worker_exit_barrier` | `launch_worker_thread`, `wait` |
| ring buffer (`mcsl_fixedcapacity.hpp`) | `fr`, `sz`, cells | push and pop at both ends |
| pinning (`mcsl_machine.hpp`) | room per core, cpus per worker | `assign_workers_to_resources`, `pin_calling_worker` |
| worker ids (`mcsl_perworker.hpp`) | a thread-local id; arrays indexed by it | `initialize_worker`, `mine` |
| statistics (`mcsl_stats.hpp`) | counters and timers per worker | `increment`, `on_enter_...`, `start_collecting`, `report` |
| logging (`mcsl_logging.hpp`) | a buffer of events per worker | `push`, `output` |
| aligned storage, printing | | no states |

A worker runs fibers. A fiber that becomes ready is put in the worker's buffer;
`flush` takes the newest one to run next and pushes the others on the worker's
deque. When the deque is empty `acquire` steals from the deques of others; a
worker that fails may put itself to sleep under another one, which posts its
semaphore when it finds work or leaves. A termination detector and the flag set
by the terminal fiber tell `acquire` to return for good. `fork2` makes two
children, runs the first inline and, if nobody has stolen it, the second too.

What is hard in it: the deque is lock-free, with memory orders weaker than
sequential consistency; status words are changed by compare-and-swap after a
stale read; nodes of the SNZI tree are changed by helpers; a parent's stack
moves between workers; nobody may sleep for ever; what the workers share is on
the stack of `launch`, which must outlive them; statistics are reset and read
without synchronisation while others write them.

What makes each part correct:

- *deque*: it is an atomic deque; a steal may fail, a pop may not.
- *elastic sleeping*: every sleeper is woken exactly once; sleepers never wait
  in a circle; every worker leaves.
- *termination*: nobody leaves while there is a task, in a deque or in hand.
- *SNZI*: the root is non-zero while a worker is active and zero when none is;
  the tree is zero again at rest; no suspended worker holds the others up.
- *launch*: it returns, when every worker has left it and not before; a worker
  has its own id before it uses it.
- *ring buffer*: it is a bounded sequence open at both ends.
- *pinning*: nobody is put on a full core; dense packing leaves core 0 for the
  last, sparse packing is even; the search ends when the workers fit.
- *statistics*: counts of `fork2` and of steals are exact; times are true of the
  workers `report` finds as it expects.
- *log*: complete, and in order.
- *fork-join*: children run once, between fork and join; no two workers run on
  one stack; `take` returns the second child of the `fork2` that calls it; a fiber
  that waits for nothing is with some worker.

## Modules

| module | models | abstract specification |
|---|---|---|
| `ChaseLev` | the deque on a memory with a store buffer | `WSDeque`: an atomic deque |
| `Elastic` | `acquire`, `worker_loop`, `mcsl_elastic.hpp` | uses `WSDeque` and `TerminationDetection` as promised |
| `Snzi` | the SNZI tree and detector | `TerminationDetection` |
| `ForkJoin` | fibers, `fork2`, `worker_loop`, `flush`, `take` | `SeriesParallel`: a program of nested forks |
| `Launch` | starting and leaving: `mcsl_scheduler.hpp`, `launch`, worker ids, the log | |
| `RingBuffer` | the buffer of a worker | `BoundedDeque`: a bounded sequence |
| `Pinning` | options and core assignment of `initialize_machine` (Linux) | |
| `Stats` | counters and timers, with the hooks that call them | |
| `ChaseLevProofs`, `ElasticProofs`, `SnziProofs`, `ForkJoinProofs`, `LaunchProofs`, `RingBufferProofs`, `PinningProofs`, `StatsProofs` | theorems about the module of that name | |
| `MC...` | symmetry for the runs | |

The modules meet at the abstract specifications. `ChaseLev` implements
`WSDeque`, `Snzi` implements `TerminationDetection` and `RingBuffer` implements
`BoundedDeque`; `Elastic` and
`ForkJoin` use a deque operation as one step and assume of `is_terminated()`
what `TerminationDetection` promises. `Elastic` has one task for a fiber and
leaves out what runs in it; `ForkJoin` has the fibers and leaves out how a thief
waits. `Launch` and `Stats` have the whole run from outside: the program is the
set of workers that hold a piece of it.

### ChaseLev

Every access to a shared word is a step. The owner's plain stores (`bottom`,
`array`, slots) go through a store buffer `sb`: `own` is the memory the owner
sees, `mem` the one thieves see. `top` is written by compare-and-swap only.
`pop`'s sequentially consistent fence is the guard `FencePassed` (the buffer is
empty), `push`'s release fence is the mark `release` on the store after it.
Two orders are modelled:

- `fifo`: stores leave in order. This is x86-TSO; the library is x86 only
  (context switch and cycle counter are x86-64 assembly, and example/Makefile
  builds with `-m64 -march=native`).
- `fenced`: stores may leave in any order that keeps the order at each location
  and the release fences. What a thief reads is still read in program order,
  which is weaker than C++ asks for: the run is a check of the owner's fences.

The code reads `array` in `pop` before it stores `bottom` (line 97) and in
`push` after `top`; only the owner writes it, so the model reads it where it is
used. Arrays are named by their size, as sizes only double and old arrays are
kept (`previous`).

With `fenced` *and* growth, `WinnerHoldsOldest` fails: the new array is stored
relaxed (line 88) with no fence after `grow`'s copy, so that a thief can see the
array before what was copied to it. It cannot happen on x86, which the library
is written for, so this is listed as a hazard and not as a bug; a port would
have to use a release store there.

### Elastic

The status word is one variable per worker, loaded, stored and compared as a
whole. `cas_head` is a weak compare-and-swap and may fail for no reason.
`semaphore` and `spinning_binary_semaphore` are a count `sem`: the asserts of the
latter (lines 36 and 41) are the second part of `SleepersAreListedOnce`. The
termination detector is the set `active`; with the default
`minimal_termination_detection` `is_terminated()` is always false, with the SNZI
one it may be true when nobody is active: `Check` allows both. A task may make
tasks; the terminal fiber is run by the worker that finishes the last task.
Priorities are drawn again at each `accept_lifelines`, from a set small enough
for equal ones (and equal status words) to occur.

### Snzi

The nodes are the cells of the source's heap, the root being node 1. A node's word is a count, zero, positive or the half, and a version. Calls up
the tree are frames of a stack per worker. `compare_exchange` is strong.
`set_active(false)` is only called by a worker that is active, as in `acquire`.
The launching thread's extra `set_active(true)` (line 303) is a call like
others. The version is unbounded in the model and an `int` in the code.

`set_active` is lock-free and no more (`SomeCallReturns`): while calls are in
progress one of them returns, even if all the other workers are suspended, since
a worker that finds a half helps to settle it. A single call may fail for ever:
`acquire` calls `set_active` without bound while it searches, and each call that
gets through changes the word another one is about to compare and swap.


### ForkJoin

For the scheduler each child is a fiber with a context; inline calls of `run`
go through it and come back. A fiber's `ctx` says where it resumes, `stack` what
it runs on, `up` the `fork2` frame that its body returns to when it is run
inline, and `alive` whether the object exists (the children are locals of the
caller of `fork2`). A body may fork or end at any moment: the runs go through
all programs with `MaxForks` forks. The fibers that `launch0` chains before and
after the body run one after the other without forking and are left out; the
terminal fiber follows the body. A step of `worker_loop` between two switches is
atomic: in it a worker touches its own buffer and fibers only, but for the
decrement of the parent's `incounter`, which is one atomic operation, and pushes
and pops of a deque, which `WSDeque` makes atomic.

The assembly is `Saved` and `Restored` (where a context resumes, and that it is
used once) and `Spawned` (a stack of its own, entered at the body); registers
are left out.

### Launch

`main` is the thread that calls `launch`; `pc[w]` is the thread of worker `w`,
or main's while it runs `w` inline (worker 0 on Linux; on Nautilus a worker
assigned to cpu 0). `platform`, `pinned` and `core` are the build, the policy and
the assignment of cpus, drawn in `Init`. `lock`, `waiting`, `signal` and
`nb_workers_exited` are the exit barrier: the condition variable gives the lock
back while it waits, `notify_one` is lost if nobody waits, and worker 0 may wake
up for no reason. On Nautilus the barrier is a call into the kernel, and the
wait of main for it, whose bodies are not in the repository: a count, and a
guard on it. `id[w]` is the thread-local id, which the thread inherits from
nobody but a worker run inline gets from main. `stage` and `busy` say how far
the fibers of `launch0` are and which workers hold a piece of the body; `logs`
are the events of kind "phases", with a time stamp from a clock that may stand
still between any two of them, so that equal stamps occur. `Output` puts the buffers one
after the other and sorts them with a stable sort: the event at place *k* of the
result is the one with *k - 1* events `Before` it (`Rank`).

On Nautilus, if main runs a worker other than 0 inline, `launch` never returns:
that worker waits for work or the end of the run, and worker 0, which holds the
program, is started after it has left. `nautilus_assign_cpusets` deals cpus
1, 2, ..., 0, 1, ..., so that with as many workers as cpus this is worker
`nb_cpus - 1`. `LaunchReturns` excludes it by `OnlyWorker0Inline`; both cases are
in the run (3 workers on 3 cpus and on 4).

### RingBuffer

`fr`, `sz` and `array` are the members; an item that was destroyed is `NoItem`,
so that `TypeOK` says that exactly the slots in use hold a constructed item.
`Wrap`, `Before`, `After` and `BackSlot` are the four comparisons with the
capacity, each translated from its own lines. An operation is enabled where its
assert holds. `RefinesDeque` maps the slots from `fr` on to a sequence.

### Pinning

One action per round of the search loop (`Skip`) and per placement (`Place`),
since termination of the search is a question of its own. The room of a core is
any number up to `MaxRoom`, also none: that is what hwloc reports on a machine
without a core level. `asserts` tells a build with asserts from one without,
where a search for more room than there is goes on for ever.

### Stats

Counters and timers are plain words: `total += since(start)` is a load
(`OnExitWork`, `OnExitAcquire`) and a store (`AddWork`, `AddIdle`), and
`start_collecting` and `report` go through the workers one by one in between.
`truth` is what happened since the reset. `torn` are the workers a reset met
between load and store, whose store brings back what was before the reset.
`TimesAreTrue` leaves them out, and the workers `report` finds neither at work
on its own account nor idle: for a worker asleep in `try_to_sleep`, or between
`on_exit_work` and `on_enter_acquire`, it adds the idle time that has been added
already. The times printed are then too long; nothing else depends on them.

`CountsAreExact` is about `fork2` and steals, whose workers hold a piece of the
program until they have counted. `nb_sleeps` is left out: an idle worker counts it
on its way to sleep (`mcsl_elastic.hpp` line 176), while the counters are reset or
added up, so that the number printed need not be exact.

## Runs

| run | bounds | states | shows |
|---|---|---|---|
| `chaselev_tso` | 2 thieves, 2 items, arrays of 1, 2 and 4, index below 3 | 665,000 | types, indices, a winner holds the oldest item, the deque is atomic |
| `chaselev_fenced` | 2 thieves, 2 items, an array of 2, index below 3 | 244,000 | the deque is atomic with stores reordered; an idle owner's deque is emptied |
| `elastic` | 3 workers, 3 priorities, 1 attempt, 2 tasks | 1,276,000 | sleepers listed once, awake root, sound termination |
| `elastic_live` | 3 workers, 2 priorities, 1 attempt, 2 tasks | 515,000 | every worker leaves |
| `elastic_busy_head` | 2 workers | | violated: the comment of line 61 |
| `snzi` | 3 workers, a tree of 4 leaves, 3 activations | 1,376,000 | decrements find their count, rest is zero, detection |
| `snzi_live` | the same | 1,376,000 | `set_active` is lock-free |
| `forkjoin` | 3 workers, 3 forks, a buffer of 2 | 119,000 | stacks, asserts of fork2, no fiber lost, fork-join order, the run ends |
| `ringbuffer` | capacity 4, 2 items | 340 | slots in use, a bounded sequence |
| `pinning` | 1 to 6 workers (at most 5 allowed), 3 cores with room for 0 to 2 | 5,700 | room, order, balance, the search ends |
| `launch` | 3 workers, Linux and Nautilus with 3 and 4 cpus, 1 steal, 1 spurious wake-up, 2 times | 283,000 | the frame outlives the workers, no wake-up of worker 0 is lost, ids, the log, launch returns |
| `stats` | 2 workers, 2 forks, 4 times | 2,635,000 | exact counts, true times |

Why the bounds are enough to be interesting. *chaselev*: two items and two
thieves race with a pop for the last item; an array of size 1 grows twice while
thieves hold the old one; index 3 wraps around arrays of 1 and 2. Size and
index are bounded in the guard of `PushLoad`. *elastic*: three workers make a
chain of sleepers (one sleeps under one that sleeps) and a list of two
children; with two tasks one is stolen while the other runs. More attempts
repeat the same steps before `try_to_sleep`. *snzi*: workers 0 and 4 share a leaf
and worker 1 the inner node above it, so that halves are helped at two levels. A
build with asserts has no leaf that is shared (line 193: a worker's number is
below the number of leaves, and there are as many as workers allowed), so that the runs
go beyond what it reaches; without asserts, and with a smaller tree, leaves are shared.
`snzi_live` is not weakened by its bound on activations: if at some
moment calls in progress cease to return, each worker can begin at most one more
call from then on, so that a counterexample to lock-freedom makes finitely many calls. The
bound limits the states in which it can begin. (By the same bound no behaviour
of the run has calls that return for ever, and what TLC checks is that all calls in progress
come to return, whoever is suspended meanwhile; unbounded calls may starve one
of them.) *forkjoin*:
three forks nest three deep or run in both children at once; a `fork2` frame
moves to another worker and goes on to take from another deque.

*ringbuffer*: contents of every length at every position of the circle.
*pinning*: cores without room among cores with room, more workers than room, and
more than the program allows. *launch*: the last worker to leave may be worker 0
or another, before or after worker 0 waits, with a spurious wake-up in between; a
stolen piece moves the fibers around the body to another worker. *stats*: time
passes before the reset, between reset and report and after; a fork can fall
before and after the reset; the worker that reports need not be the one that
reset.

Deadlock is checked in every run but `launch`, `pinning` and `stats`, which stop when the
program has ended (and `launch` on Nautilus as described above); elsewhere a run that has ended stutters.

Every property has a mutant of a mapped definition that breaks it (`mutants` in
`PROJECT.json`); the mutants stand before the definitions they replace.

### Fairness

- `ChaseLev`: stores reach memory; a call the owner has begun goes on; thieves
  keep calling `steal`, as the loop of `acquire` does. The owner need not begin
  another call.
- `Elastic`, `ForkJoin`: each worker is a thread, so that a worker with an
  enabled step takes one. A worker on its semaphore has none. Random choices are
  not assumed to be fair: no victim and no priority need ever be drawn, and a weak
  compare-and-swap may fail each time.
- `Snzi`: as long as calls of `set_active` are in progress one of them goes on.
  Nothing is owed to each worker, which may be preempted in the middle of a call
  for ever, and nobody needs to make a call.
- `Launch`: main and every worker are threads that run when they can. Neither
  the clock nor a spurious wake-up is owed, and a piece need never be stolen.
- `Pinning`: the one thread that runs it goes on.

`Elastic` takes `set_active` to be one step at each end of an attempt to steal, so that
`AllExit` holds if these calls return. Lock-freedom alone does not give that to each
worker: for one to starve, others would have to get through in front of it every time.

In `Elastic` and `ForkJoin` tasks and forks are bounded: a program that forks for
ever does not end.

### Findings

A comment does not say what the code does (`findings`): a busy worker's head need
not point to itself, because `wake_children` sets the busy bit and keeps the
head. The code is right: `SleepersAreListedOnce` and `AllExit` hold without it.
The comment of `try_to_sleep` on "our victim" is loose as well: `acquire` calls
it with a worker drawn after the failed steal.

## Proofs

`ChaseLevProofs` proves, for any set of thieves and items, any array sizes, no
matter how long the store buffer, and for both orders of stores:

- `TypeCorrect`: `Spec => []TypeOK`;
- `IndexSafety`: `Spec => []IndexSafe` -- `top` never passes the logical bottom
  (so `size()` is not negative to its owner), no `bottom` that a thief reads now
  or later lies beyond it, and a thief whose compare-and-swap would succeed wins
  an index still in the deque.

The assumptions are those of `ChaseLev`: sizes are positive and the first one is
legal, `top` and `bottom` are unbounded integers. `IndexSafe` is not
inductive: that a pop which has passed its fence sees a `top` no thief can move
beyond its bottom needs that the fence has made the lowered `bottom` visible.
`IInv` is `TypeOK` with `LocalsAgree` (the locals of a call agree with the words
they were read from), `BufferAgrees` (the youngest pending store of `bottom` is
the owner's view of it; with none pending memory agrees) and `IndexSafe`.
`IndicesAgree` proves `IndexInv`, which is the last three, as well. The proof
has a lemma per kind of store, one for the flush, then one step per action.

It goes on, for `StoreOrder = "fifo"`, to

- `WinnersHoldOldest`: `Spec => []WinnerHoldsOldest`;
- `DequeImplementsWSDeque`: `Spec => RefinesDeque`.

`"fifo"` is the one hypothesis beyond the module's assumptions; under `"fenced"`
the first one fails when an array grows (see `ChaseLev` above). A thief reads `bottom`,
`array` and a slot at three moments, so an invariant about the memory of now
does not do. The proof speaks of *views*: view *k* is memory with the first
*k* pending stores made, and what a thief reads later it reads in a later view. `ViewInv` says
that the last view is the owner's (`OwnerSees`); that the array in a view is
never larger than the owner's (`ArraysGrow`); that when a view shows that there is
an item, that item is found through the array of that view or any later one, in
that view or any later one (`VisibleKept`, with `Kept`); that a thief whose
compare-and-swap would still succeed has read, or will read, the item
(`ThievesHold`); and that a push neither overwrites a slot in use nor publishes before
the copy is complete (`PushHasRoom`). A store adds a view and a flush takes the first
one away: `StoreKeeps` and `FlushKeeps` are these two steps for `Kept`, where the
work is. For the refinement each action is shown to append to, take an end of, or
leave alone the sequence of items from `top` to the logical bottom (`ItemsPushed`, `ItemsPopped`,
`ItemsStolen`, `ItemsKept`).

`ElasticProofs` proves, for any number of workers, priorities, attempts and
tasks, `TypeCorrect`, `NoTaskIsDropped` (`Spec => []TerminationIsSound`),
`SleepersAreOnOneList` (`Spec => []SleepersAreListedOnce`) and `NoCircleOfSleepers`
(`Spec => []SleepersHaveAwakeRoot`). For the first two: the
count of unfinished tasks says nothing of where they are, so `IInv` has
`CountIsExact`: it is the number of places that hold one (`Slots`: a worker's hand, or a
position in its deque). `HandsAreActive` says that whoever has a task in hand is
registered with the detector, `DequesAreWorkedOn` that only the deque of a worker
with a task in hand is not empty; so when nobody is active there is no place and the
count is 0 (`NoneLeft`). `TerminalIsLast` does the same for `should_terminate`,
`LeaversLeave` and `Attempting` are what `Steal` and `Lower` need. Steps that
move no task share `QuietStep`; the others add (`SlotAdded`), remove
(`SlotRemoved`) or move (`SlotMoved`) one place.

The children lists are linked through `next`, so a list is defined as the smallest
set that is closed under `next` (`Listed`); what the proof needs of it are four
lemmas: a list unfolds into its first worker and the rest (`ListUnfolds`), goes on
until its owner (`ListGoesOn`), is the same as long as its workers' `next` fields
are (`ListUndisturbed`), and does not come back to its first worker if it ends
(`NotAhead`). `SleepInv` adds to `IInv`: each worker's busy bit goes with its
place in the code (`BusyAt`); the child about to be posted is followed by the one
that was read (`ReadAhead`); who is about to link itself holds an idle word of
higher priority and has its head behind it (`Prepared`); a semaphore is posted once
(`PostedOnce`); and of the lists: they end (`ListsEnd`), hold only sleepers of lower
priority (`ChildrenAreAsleep`), hold every sleeper (`SleepersAreListed`) and share
nobody (`OneOwner`). Only the compare-and-swap and the post change a list
(`SleepCasStep`, `WakePostStep`); the other actions are cases of `OwnStep`.

`SnziProofs` proves, for any workers, any height of the tree (at least 1) and any number of calls,
`TypeCorrect`, `DecrementsFindCounts`, `IdleTreeIsZero` and `RootDetectsTermination`
(`Spec => RefinesDetector`). A node's count is changed by several calls at once, some
of which help others and take back what they added too much, so that no invariant
about one node and its children alone is inductive. The proof keeps an account: `EveryUnitClaimed` says that the units of
every node and those who claim one are equally many. A claimant is
an active worker (of its leaf), a call that has added a unit and not returned or is about to take one away, a call
that holds a unit of the parent to hand over or to undo, or a child that is not zero; a
half counts as the unit of the call that wrote it, which is still there
(`HalfIsOwned`). `StackShape` says that the calls on a worker's stack climb the
tree, `FramesShaped` what a call knows at each of its steps. Each
action moves, adds or removes one claim at one node (two, where a child becomes non-zero or
zero). `IdleTreeIsZero` then follows from the leaves up: with nobody active and no
call in progress the only claims left are children's, and the largest non-zero node
would need a non-zero child (`ExtremeNodes`).

`ForkJoinProofs` proves, for any number of workers and forks and any capacity of at
least 2, every safety property of `ForkJoin` and that it implements
`SeriesParallel`: `TypeCorrect`, `TakeIsRight`, `CurrentIsRight`, `HeldAreAlive`,
`NothingIsLeft`, `NoneIsLost`, `StacksExclusive` and `RefinesSeriesParallel`
(`Spec => RefinesProgram`). All follow from one invariant, `ForkJoinInv`:

- *Fibers* (`FibersOK`). A fiber that has not notified its parent is *open*; an open
  child has an older, open parent that waits for it (`ChildShape`); a parent's
  `incounter` is the number of its open children, and it is paused exactly until
  its stack is left (`ForkShape`); fibers not made yet, and those whose `fork2`
  has returned, are dead.
- *Places* (`WorkerShape`). What a worker has in its buffer and its `current` is
  what its place in `worker_loop` or `fork2` calls for; `Returning` lists the
  six ways in which `exec` comes back to the scheduler. A deque holds second children
  that nobody has touched, and nothing else.
- *Spines* (`Spine`). The fibers of a worker's deque are second children of
  `fork2` frames that its current fiber stands on, outer frames' first; as thieves
  take the outermost first, when the second child of a frame is gone, so are
  those of the frames further out. Hence the last fiber of the deque is the second
  child of the innermost frame, or the deque is empty, wherever frames have moved.
- *Once* (`HeldOnce`, `Joining`). A fiber is in one place; both children of a
  fork run inline only while the first one hands over to the second.

`NoneIsLost` (`Spec => []NoFiberIsLost`) is the safety core of `AllExit`. `NotLost`, that
every ready fiber is held, is inductive on top of `ForkJoinInv`: a fiber becomes
ready by being made, or by the last of its children notifying it, and both put it in a
buffer (`ForkLosesNone`, `ReturnedLosesNone`); what leaves a buffer or a deque goes to
another place (`FlushLosesNone`, `StealLosesNone`, `TakeLosesNone`). And until the end is
announced a fiber is ready: the youngest open one has no open child, or all are
over and it is the terminal one (`OneIsReady`).

`fork2` nests, so that the frames below a fiber (`Frames`) and `StackOf` are defined
by following `up`. Neither needs induction over data: `Frames` is the smallest set
closed under `up`, and `StackUnfolds` exhibits a solution of the equation that defines
`StackOf`, the fiber of the frames that does not run inline. Two workers on one stack
would have a frame in common, which `FramesDisjoint` excludes. For the refinement `PhaseIs` reads a fiber's phase off its `ctx`;
each action is then a step of `SeriesParallel` or leaves phases and children alone
(`StepMaps`).

`StatsProofs` proves `CountsExact` (`Spec => []CountsAreExact`) for any number of
workers. A worker's counter lags behind what happened by the steal it has
not counted yet (`CountersFollow`); such a worker has a piece of the program,
so that a worker that resets or adds up the counters, which is alone, meets none;
afterwards there is nothing to fork or to steal (`AddedUp`). The sum itself is
never looked into: it is taken of equal functions.
`TimesTrue` (`Spec => TimesAreTrue`) needs an invariant of its own, `TimersFollow`:
until `report` has added a worker's running period, the time it has worked is its
timer, plus the time since the timer was started while it works, or the register
that holds the sum between load and store; the same for idle time. It holds of
the workers that are not `torn`. A step that `TimesAreTrue` speaks of adds just
the running period, so what it leaves in the timer is the truth.

`RingBufferProofs` proves, for every capacity and set of items, `TypeCorrect` and
`Implements` (`Spec => RefinesDeque`). `TypeOK` is inductive but says which
*slots* are live; the proof works with `ByPosition`, which says it of the k-th
slot from the front, and `SameInvariant` shows them equivalent by the facts of
`WrapProperties` (positions and slots are in one-to-one correspondence). Then
each operation is one lemma: the sequence of items it leaves.

`PinningProofs` proves, for any machine and number of workers, `TypeCorrect`,
`RoomIsRespected`, `DenseIsFromTheTop` and `SparseIsSpread` (`Spec =>
[]SparseIsBalanced`). Dense packing is not inductive as stated: that the
next placement is on the highest core with room needs `DenseFrontier`, that
cores above the one looked at are full and those below untouched as long as
there is room at all; with a full core looked at and room somewhere, `Skip` cannot
wrap around. Sparse packing needs to know how often each core was passed
(`SparseRounds`: *k* times, and once more those above the one looked at): a core
has got a worker each time as long as it had room, and never more than that.

`LaunchProofs` proves, for any number of workers and both platforms, and for any
bounds on steals, wake-ups and time, first `FrameIsSafe` and `OwnStorageOnly`. The
invariant `IInv` says that the count is the number of workers that have entered
the barrier (`CountIsExact`); that on Linux it is changed and tested under the
lock and worker 0 passes the test only with the others gone (`LinuxBarrier`); that
on Nautilus a worker is counted when it leaves and main never runs worker 0
itself (`NautilusBarrier`: worker 0 is assigned to cpu 1); and that workers are started once, in
order (`LaunchOrder`). A count equal to `nb_workers` then means that everybody is
in the barrier, and the lock in worker 0's hands that nobody is half way out.
`WakeUpArrives` (`Spec => []NoWakeUpIsLost`) is the safety core of `LaunchReturns`: while
worker 0 waits and the count is short, some worker is not in `Out` and has still to come
past `notify_one` (`SomebodyIsMissing`); the one that finds the count full finds worker 0
waiting, because both change and test under the lock.

`TypeCorrect` and `OutputComplete` (`Spec => []OutputIsComplete`) rest on a second
invariant, `LogInv`, which holds on top of `IInv`: each buffer has its worker's events in
the order of time (`LogType`: with its own id a worker pushes to its own buffer), and
`WaitsCounted` counts searches for work: one has begun for each theft and each worker
still searching or gone, one has ended for each theft and each worker gone. When the log is
written everybody is gone. That the merge loses and
reorders nothing is a fact about finite orders: `Before` is a total order of the places
(`BeforeIsTotalOrder`), so ranks number them from 1 without gaps (`RanksAreOrdered`,
`MergedAre`), and as many events of the result come from a set of places as there are
places in it (`AsManyInMerged`). Two events of one buffer keep their order because
it is that of time (`MergedKeepsOrder`).

Model-checked only: `BusyHeadIsSelf`, which is refuted; all liveness, and `ENABLED`.
No proof needs induction over data, which the prover cannot do: what would be
recursive is defined by a set, an order or a count.

## Plan

Done: the deque, `Elastic`, `Snzi`, `ForkJoin`; `Launch`, `RingBuffer`, `Pinning`
and `Stats`; the proofs above, which cover every safety and action property and every
refinement that a run checks. What is left is out of the prover's reach: liveness.

## Not modelled

- Aligned storage, the registers a context switch saves, printing and file formats: no
  states to explore.
- The destructor of the deque; `commit`, `capture_continuation` and
  `inline_allocator::swap`, which nobody calls; heap-allocated fibers as in
  example/fib.cpp ("manual").
- hwloc and the Nautilus kernel: only what the library does with their answers.
  NUMA binding is a "todo" in the code (`Die`).
- Widths no run of the program reaches: 64-bit indices of the deque; the 32-bit version of an SNZI node,
  which overflows after 2^31 increments of one node and would have to come back
  to the very value a sleeping compare-and-swap holds.
- `sem_wait` returning early (EINTR): the library installs no signal handler.
- The temporary function object that a thread is given by reference
  (mcsl_scheduler.hpp line 170): its life has ended when the thread calls it.
  The call is undefined; it reads only references into `launch`'s frame, whose life
  `FrameOutlivesWorkers` is about.
- The system clock of the log being set back; a launch with no workers.
- The compiler: the plain `should_terminate` is taken to be read each time round.
