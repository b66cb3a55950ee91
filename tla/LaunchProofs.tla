--------------------------- MODULE LaunchProofs ---------------------------
(***************************************************************************)
(* Proofs about Launch, for any number of workers, on both platforms: no   *)
(* worker is inside launch when it returns, every worker uses its own      *)
(* per-worker storage, and the log that is written is complete and in      *)
(* order.                                                                  *)
(***************************************************************************)
EXTENDS Launch, FiniteSetTheorems, TLAPS

USE WorkersAssumption, CpusAssumption, PlatformsAssumption, AnywhereAssumption

-----------------------------------------------------------------------------
(* The workers that have been counted by the exit barrier. *)
Out == {w \in Worker : pc[w] \in {"notify", "unlock", "test", "wait", "gone"}}

(* The part of the type invariant that the argument needs. *)
ControlType ==
  /\ platform \in Platforms
  /\ core \in [Worker -> Int]
  /\ main \in Waiting \cup {"returned", "end"}
  /\ next \in 1..(nb_workers + 1) /\ main_id \in Worker
  /\ main = "launch" => next <= nb_workers
  /\ pc \in [Worker -> Inside \cup {"unborn", "gone"}]
  /\ id \in [Worker -> Int]
  /\ bound \in [Worker -> Worker \cup {Anywhere}]

CountIsExact == nb_workers_exited = Cardinality(Out)

(* On Linux the count is changed and tested under the lock, only worker 0  *)
(* waits, and it passes the test only when the others are gone.            *)
LinuxBarrier ==
  platform = "linux" =>
    /\ \A w \in Worker : pc[w] \in {"notify", "unlock", "test"} => lock = w
    /\ \A w \in Worker : pc[w] \in {"test", "wait"} => w = 0
    /\ pc[0] # "notify"
    /\ pc[0] \in {"unlock", "gone"} =>
         \A w \in Worker : w # 0 => pc[w] = "gone"
    /\ lock # NoLock => lock \in Worker /\ pc[lock] \in {"notify", "unlock", "test"}
    /\ main # "worker0_wait"
    /\ main \in {"returned", "end"} => pc[0] = "gone"

(* On Nautilus a worker is counted as it leaves, and main runs worker 0    *)
(* never itself.                                                           *)
NautilusBarrier ==
  platform # "linux" =>
    /\ \A w \in Worker : pc[w] \notin {"pin", "notify", "unlock", "test", "wait"}
    /\ lock = NoLock
    /\ core[0] # 0
    /\ main = "worker" => next <= nb_workers
    /\ main \in {"returned", "end"} => \A w \in Worker : pc[w] = "gone"

(* Workers are started once, in the order of launch's loop. *)
LaunchOrder ==
  /\ \A w \in Worker : w >= next => pc[w] = "unborn"
  /\ next <= nb_workers => pc[0] = "unborn"

OwnStorage ==
  \A w \in Worker :
    /\ pc[w] \notin {"unborn", "start"} => id[w] = w
    /\ bound[w] \in {w, Anywhere}

IInv ==
  /\ ControlType
  /\ CountIsExact
  /\ LinuxBarrier
  /\ NautilusBarrier
  /\ LaunchOrder
  /\ OwnStorage

LEMMA ZeroIsWorker == 0 \in Worker /\ NoLock \notin Worker /\ NoLock \in Nat
  BY DEF Worker, NoLock

LEMMA OutIsFinite ==
  /\ IsFiniteSet(Out) /\ Cardinality(Out) \in Nat
  /\ IsFiniteSet(Worker) /\ Cardinality(Worker) = nb_workers
  /\ Cardinality(Out) = nb_workers => Out = Worker
<1>1. IsFiniteSet(Worker) /\ Cardinality(Worker) = nb_workers
  BY FS_Interval DEF Worker
<1>2. Out \subseteq Worker
  BY DEF Out
<1> QED
  BY <1>1, <1>2, FS_Subset, FS_CardinalityType

LEMMA InitInv == Init => IInv
<1> SUFFICES ASSUME Init PROVE IInv
  OBVIOUS
<1>1. core \in [Worker -> Int] /\ core[0] # 0
  <2>1. \A n \in CpuCounts : Assigned(n) \in [Worker -> Int] /\ Assigned(n)[0] = 1
    <3> TAKE n \in CpuCounts
    <3>1. \A w \in Worker : (w + 1) % n \in Int
      BY DEF Worker
    <3> QED
      BY <3>1, ZeroIsWorker DEF Assigned
  <2>2. Unassigned \in [Worker -> Int] /\ Unassigned[0] = -1
    BY ZeroIsWorker DEF Unassigned
  <2> QED
    BY <2>1, <2>2 DEF Init
<1>2. ControlType
  BY <1>1, ZeroIsWorker DEF Init, ControlType, Waiting, Inside, Uninitialized
<1>3. Out = {}
  BY DEF Init, Out
<1>4. CountIsExact
  BY <1>3, FS_EmptySet DEF CountIsExact, Init
<1>5. LinuxBarrier /\ NautilusBarrier /\ LaunchOrder /\ OwnStorage
  BY <1>1, ZeroIsWorker DEF Init, LinuxBarrier, NautilusBarrier, LaunchOrder, OwnStorage
<1> QED
  BY <1>2, <1>4, <1>5 DEF IInv

-----------------------------------------------------------------------------
(* A step of a worker that is counted neither before nor after it leaves   *)
(* the set of counted workers alone.                                       *)
LEMMA SameOut ==
  ASSUME NEW w \in Worker, NEW to, pc \in [Worker -> Inside \cup {"unborn", "gone"}],
         pc' = [pc EXCEPT ![w] = to],
         pc[w] \in {"notify", "unlock", "test", "wait", "gone"}
           <=> to \in {"notify", "unlock", "test", "wait", "gone"}
  PROVE  Out' = Out
  BY DEF Out

LEMMA CountedOut ==
  ASSUME NEW w \in Worker, NEW to, pc \in [Worker -> Inside \cup {"unborn", "gone"}],
         pc' = [pc EXCEPT ![w] = to],
         pc[w] \notin {"notify", "unlock", "test", "wait", "gone"},
         to \in {"notify", "unlock", "test", "wait", "gone"}
  PROVE  Out' = Out \cup {w} /\ Cardinality(Out)' = Cardinality(Out) + 1
<1>1. Out' = Out \cup {w} /\ w \notin Out
  BY DEF Out
<1> QED
  BY <1>1, OutIsFinite, FS_AddElement

(* Steps on the way to the barrier. *)
LEMMA WorkingStep ==
  ASSUME IInv, NEW w \in Worker,
         \/ InitializeWorker(w) \/ PinCallingWorker(w)
         \/ EnterAcquire(w) \/ Steal(w) \/ LeaveAcquire(w)
  PROVE  IInv'
<1>1. PICK to \in {"pin", "loop", "acquire", "exit"} :
        /\ pc' = [pc EXCEPT ![w] = to]
        /\ pc[w] \in {"start", "pin", "loop", "acquire"}
        /\ to = "pin" => platform = "linux"
        /\ UNCHANGED <<platform, core, main, next, lock, nb_workers_exited>>
        /\ pc[w] # "start" => id' = id
        /\ pc[w] = "start" => id' = [id EXCEPT ![w] = w]
        /\ bound' = bound \/ (bound' = [bound EXCEPT ![w] = id[w]] /\ pc[w] # "start")
           \/ bound' = [bound EXCEPT ![w] = Anywhere]
        /\ main_id' \in {w, main_id}
  <2>1. CASE InitializeWorker(w)
    BY <2>1 DEF InitializeWorker, Step, env, barrier
  <2>2. CASE PinCallingWorker(w)
    BY <2>2 DEF PinCallingWorker, Step, env, control, barrier
  <2>3. CASE EnterAcquire(w)
    BY <2>3 DEF EnterAcquire, Step, env, control, thread, barrier
  <2>4. CASE Steal(w)
    BY <2>4 DEF Steal, Step, env, control, thread, barrier
  <2>5. CASE LeaveAcquire(w)
    BY <2>5 DEF LeaveAcquire, Step, env, control, thread, barrier
  <2> QED
    BY <2>1, <2>2, <2>3, <2>4, <2>5
<1>2. OwnStorage /\ ControlType
  BY DEF IInv
<1>3. ControlType'
  <2>1. pc' \in [Worker -> Inside \cup {"unborn", "gone"}]
    BY <1>1, <1>2 DEF ControlType, Inside
  <2>2. id' \in [Worker -> Int]
    BY <1>1, <1>2 DEF ControlType, Worker
  <2>3. bound' \in [Worker -> Worker \cup {Anywhere}]
    <3>1. pc[w] # "start" => id[w] = w
      BY <1>1, <1>2 DEF OwnStorage
    <3> QED
      BY <1>1, <1>2, <3>1 DEF ControlType
  <2> QED
    BY <1>1, <1>2, <2>1, <2>2, <2>3 DEF ControlType, Waiting
<1>4. CountIsExact'
  BY <1>1, <1>2, SameOut DEF IInv, CountIsExact, ControlType
<1>5. LinuxBarrier'
  BY <1>1, <1>2, ZeroIsWorker DEF IInv, LinuxBarrier, ControlType
<1>6. NautilusBarrier'
  BY <1>1, <1>2, ZeroIsWorker DEF IInv, NautilusBarrier, ControlType
<1>7. OwnStorage'
  BY <1>1, <1>2 DEF OwnStorage, ControlType, Worker
<1>8. LaunchOrder'
  BY <1>1, <1>2, ZeroIsWorker DEF IInv, LaunchOrder, ControlType
<1> QED
  BY <1>3, <1>4, <1>5, <1>6, <1>7, <1>8 DEF IInv

(* Steps of the program leave everything of interest alone. *)
LEMMA ProgramStep ==
  ASSUME IInv, NEW w \in Worker,
         \/ EndPiece(w) \/ BeforeBench(w) \/ AfterBench(w) \/ Terminal(w)
         \/ Tick \/ UNCHANGED vars
  PROVE  IInv'
<1>1. UNCHANGED <<platform, core, main, next, main_id, pc, id, bound, lock,
                  nb_workers_exited>>
  BY DEF EndPiece, BeforeBench, AfterBench, Terminal, Tick, vars, env, control,
         thread, barrier
<1>2. Out' = Out
  BY <1>1 DEF Out
<1> QED
  BY <1>1, <1>2 DEF IInv, ControlType, CountIsExact, LinuxBarrier,
                    NautilusBarrier, LaunchOrder, OwnStorage

(* A worker's counted steps: through the barrier of one platform or the    *)
(* other.                                                                  *)
LEMMA BarrierStep ==
  ASSUME IInv, NEW w \in Worker,
         \/ LockAndCount(w) \/ NotifyOne(w) \/ Unlock(w) \/ NotifyExit(w)
         \/ w = 0 /\ (TestPredicate \/ WakeUp)
  PROVE  IInv'
<1>1. ControlType /\ OwnStorage /\ CountIsExact /\ LinuxBarrier /\ NautilusBarrier
  BY DEF IInv
<1>2. PICK to \in {"notify", "test", "wait", "unlock", "gone"} :
        pc' = [pc EXCEPT ![w] = to]
  <2>1. \E to \in {"notify", "test", "wait", "unlock", "gone"} :
          pc' = [pc EXCEPT ![w] = to]
    <3>1. CASE LockAndCount(w)
      BY <3>1 DEF LockAndCount, Step
    <3>2. CASE NotifyOne(w) \/ Unlock(w) \/ NotifyExit(w)
      BY <3>2 DEF NotifyOne, Unlock, NotifyExit, Step
    <3>3. CASE w = 0 /\ (TestPredicate \/ WakeUp)
      BY <3>3 DEF TestPredicate, WakeUp, Step
    <3> QED
      BY <3>1, <3>2, <3>3
  <2> QED
    BY <2>1
<1>3. /\ UNCHANGED <<platform, core, main, next, main_id, id, bound>>
      /\ pc[w] \in {"exit", "notify", "unlock", "test", "wait"}
  BY DEF LockAndCount, NotifyOne, Unlock, NotifyExit, TestPredicate, WakeUp,
         Step, env, control, thread
<1>4. ControlType'
  <2>1. pc' \in [Worker -> Inside \cup {"unborn", "gone"}]
    BY <1>1, <1>2 DEF ControlType, Inside
  <2> QED
    BY <1>1, <1>3, <2>1 DEF ControlType, Waiting
<1>5. OwnStorage' /\ LaunchOrder'
  BY <1>1, <1>2, <1>3, ZeroIsWorker DEF IInv, OwnStorage, LaunchOrder, ControlType
<1>6. CASE LockAndCount(w)
  <2>1. /\ platform = "linux" /\ lock = NoLock /\ lock' = w /\ pc[w] = "exit"
        /\ to = IF w = 0 THEN "test" ELSE "notify"
        /\ nb_workers_exited' = nb_workers_exited + 1
    BY <1>6, <1>1, <1>2 DEF LockAndCount, Step, ControlType
  <2>2. CountIsExact'
    BY <1>1, <1>2, <2>1, CountedOut DEF CountIsExact, ControlType
  <2>3. LinuxBarrier'
    BY <1>1, <1>2, <1>3, <2>1, ZeroIsWorker DEF LinuxBarrier, ControlType
  <2>4. NautilusBarrier'
    BY <1>3, <2>1 DEF NautilusBarrier
  <2> QED
    BY <1>4, <1>5, <2>2, <2>3, <2>4 DEF IInv
<1>7. CASE NotifyExit(w)
  <2>1. /\ platform = "nautilus" /\ lock' = lock /\ pc[w] = "exit" /\ to = "gone"
        /\ nb_workers_exited' = nb_workers_exited + 1
    BY <1>7, <1>1, <1>2 DEF NotifyExit, Step, ControlType
  <2>2. CountIsExact'
    BY <1>1, <1>2, <2>1, CountedOut DEF CountIsExact, ControlType
  <2>3. LinuxBarrier' /\ NautilusBarrier'
    BY <1>1, <1>2, <1>3, <2>1, ZeroIsWorker DEF LinuxBarrier, NautilusBarrier, ControlType
  <2> QED
    BY <1>4, <1>5, <2>2, <2>3 DEF IInv
<1>8. CASE NotifyOne(w) \/ Unlock(w)
  <2>1. \/ pc[w] = "notify" /\ to = "unlock" /\ lock' = lock
        \/ pc[w] = "unlock" /\ to = "gone" /\ lock' = NoLock
    <3>1. pc'[w] = to
      BY <1>1, <1>2 DEF ControlType
    <3>2. CASE NotifyOne(w)
      <4>1. pc[w] = "notify" /\ pc' = [pc EXCEPT ![w] = "unlock"] /\ lock' = lock
        BY <3>2 DEF NotifyOne, Step
      <4> QED
        BY <1>1, <3>1, <4>1 DEF ControlType
    <3>3. CASE Unlock(w)
      <4>1. pc[w] = "unlock" /\ pc' = [pc EXCEPT ![w] = "gone"] /\ lock' = NoLock
        BY <3>3 DEF Unlock, Step
      <4> QED
        BY <1>1, <3>1, <4>1 DEF ControlType
    <3> QED
      BY <1>8, <3>2, <3>3
  <2>2. nb_workers_exited' = nb_workers_exited /\ platform = "linux" /\ lock = w
    BY <1>1, <1>8, <2>1 DEF NotifyOne, Unlock, LinuxBarrier, NautilusBarrier,
                            ControlType
  <2>3. CountIsExact'
    BY <1>1, <1>2, <2>1, <2>2, SameOut DEF CountIsExact, ControlType
  <2>4. LinuxBarrier'
    BY <1>1, <1>2, <1>3, <2>1, <2>2, ZeroIsWorker DEF LinuxBarrier, ControlType
  <2>5. NautilusBarrier'
    BY <1>3, <2>2 DEF NautilusBarrier
  <2> QED
    BY <1>4, <1>5, <2>3, <2>4, <2>5 DEF IInv
<1>9. CASE w = 0 /\ TestPredicate
  <2>1. /\ pc[0] = "test" /\ w = 0 /\ nb_workers_exited' = nb_workers_exited
        /\ \/ to = "unlock" /\ lock' = lock /\ nb_workers_exited = nb_workers
           \/ to = "wait" /\ lock' = NoLock
    BY <1>9, <1>1, <1>2, ZeroIsWorker DEF TestPredicate, Step, ControlType
  <2>2. platform = "linux" /\ lock = 0
    BY <1>1, <2>1, ZeroIsWorker DEF LinuxBarrier, NautilusBarrier
  <2>3. CountIsExact'
    BY <1>1, <1>2, <2>1, SameOut DEF CountIsExact, ControlType
  <2>4. to = "unlock" => \A v \in Worker : v # 0 => pc[v] = "gone"
    <3> SUFFICES ASSUME to = "unlock", NEW v \in Worker, v # 0
                 PROVE  pc[v] = "gone"
      OBVIOUS
    <3>1. v \in Out
      BY <1>1, <2>1, OutIsFinite DEF CountIsExact
    <3> QED
      BY <1>1, <2>2, <3>1 DEF Out, LinuxBarrier
  <2>5. LinuxBarrier'
    BY <1>1, <1>2, <1>3, <2>1, <2>2, <2>4, ZeroIsWorker DEF LinuxBarrier, ControlType
  <2>6. NautilusBarrier'
    BY <1>3, <2>2 DEF NautilusBarrier
  <2> QED
    BY <1>4, <1>5, <2>3, <2>5, <2>6 DEF IInv
<1>10. CASE w = 0 /\ WakeUp
  <2>1. /\ pc[0] = "wait" /\ w = 0 /\ nb_workers_exited' = nb_workers_exited
        /\ to = "test" /\ lock = NoLock /\ lock' = 0
    BY <1>10, <1>1, <1>2, ZeroIsWorker DEF WakeUp, Step, ControlType
  <2>2. platform = "linux"
    BY <1>1, <2>1, ZeroIsWorker DEF NautilusBarrier
  <2>3. CountIsExact'
    BY <1>1, <1>2, <2>1, SameOut DEF CountIsExact, ControlType
  <2>4. LinuxBarrier'
    BY <1>1, <1>2, <1>3, <2>1, <2>2, ZeroIsWorker DEF LinuxBarrier, ControlType
  <2>5. NautilusBarrier'
    BY <1>3, <2>2 DEF NautilusBarrier
  <2> QED
    BY <1>4, <1>5, <2>3, <2>4, <2>5 DEF IInv
<1> QED
  BY <1>6, <1>7, <1>8, <1>9, <1>10

(* main starts, runs and awaits the workers. *)
LEMMA LaunchStep ==
  ASSUME IInv, LaunchWorkerThread
  PROVE  IInv'
<1>1. ControlType /\ OwnStorage /\ CountIsExact /\ LinuxBarrier
      /\ NautilusBarrier /\ LaunchOrder
  BY DEF IInv
<1>2. next \in 1..nb_workers /\ main = "launch" /\ next' = next + 1
  BY <1>1 DEF ControlType, LaunchWorkerThread
<1>3. PICK w \in Worker : w = Launched(next)
  BY <1>2 DEF Launched, Worker
<1>4. pc[w] = "unborn"
  BY <1>1, <1>2, <1>3 DEF Launched, LaunchOrder
<1>5. /\ pc' = [pc EXCEPT ![w] = "start"]
      /\ id' \in {[id EXCEPT ![w] = main_id], [id EXCEPT ![w] = Uninitialized]}
      /\ bound' \in {[bound EXCEPT ![w] = w], [bound EXCEPT ![w] = Anywhere]}
      /\ main' = IF Inline(w) THEN "worker"
                 ELSE IF next = nb_workers THEN "worker0_wait" ELSE "launch"
      /\ UNCHANGED <<platform, core, main_id, lock, nb_workers_exited>>
  BY <1>3 DEF LaunchWorkerThread, env, barrier
<1>6. ControlType'
  <2>1. pc' \in [Worker -> Inside \cup {"unborn", "gone"}]
    BY <1>1, <1>5 DEF ControlType, Inside
  <2>2. id' \in [Worker -> Int]
    <3>1. main_id \in Int /\ Uninitialized \in Int /\ id \in [Worker -> Int]
      BY <1>1 DEF ControlType, Worker, Uninitialized
    <3> QED
      BY <1>5, <3>1, Zenon
  <2>3. bound' \in [Worker -> Worker \cup {Anywhere}]
    BY <1>1, <1>5 DEF ControlType
  <2> QED
    BY <1>1, <1>2, <1>5, <2>1, <2>2, <2>3 DEF ControlType, Waiting
<1>7. CountIsExact'
  BY <1>1, <1>4, <1>5, SameOut DEF CountIsExact, ControlType
<1>8. next = nb_workers <=> w = 0
  BY <1>2, <1>3 DEF Launched
<1>9. LinuxBarrier'
  BY <1>1, <1>2, <1>4, <1>5, <1>8, ZeroIsWorker DEF LinuxBarrier, Inline, ControlType
<1>10. NautilusBarrier'
  BY <1>1, <1>2, <1>4, <1>5, <1>8, ZeroIsWorker DEF NautilusBarrier, Inline, ControlType
<1>11. OwnStorage' /\ LaunchOrder'
  <2>1. LaunchOrder'
    BY <1>1, <1>2, <1>3, <1>5, <1>8, ZeroIsWorker
       DEF LaunchOrder, Launched, ControlType, Worker
  <2>2. ASSUME NEW v \in Worker
        PROVE  /\ pc'[v] \notin {"unborn", "start"} => id'[v] = v
               /\ bound'[v] \in {v, Anywhere}
    <3>1. CASE v = w
      BY <1>1, <1>5, <3>1 DEF ControlType
    <3>2. CASE v # w
      <4>1. pc'[v] = pc[v] /\ id'[v] = id[v] /\ bound'[v] = bound[v]
        BY <1>1, <1>5, <3>2 DEF ControlType
      <4> QED
        BY <1>1, <4>1 DEF OwnStorage
    <3> QED
      BY <3>1, <3>2
  <2> QED
    BY <2>1, <2>2 DEF OwnStorage
<1> QED
  BY <1>6, <1>7, <1>9, <1>10, <1>11 DEF IInv

LEMMA ReturnStep ==
  ASSUME IInv, InlineReturns \/ Worker0Wait \/ Output
  PROVE  IInv'
<1>1. ControlType /\ OwnStorage /\ CountIsExact /\ LinuxBarrier
      /\ NautilusBarrier /\ LaunchOrder
  BY DEF IInv
<1>2. UNCHANGED <<platform, core, next, main_id, pc, id, bound, lock,
                  nb_workers_exited>>
  BY DEF InlineReturns, Worker0Wait, Output, env, thread, barrier
<1>3. Out' = Out
  BY <1>2 DEF Out
<1>4. /\ main' \in {"launch", "returned", "end"}
      /\ main' = "launch" => next <= nb_workers
  BY <1>1 DEF InlineReturns, Worker0Wait, Output, ControlType
<1>5. ControlType' /\ CountIsExact' /\ OwnStorage' /\ LaunchOrder'
  BY <1>1, <1>2, <1>3, <1>4
     DEF ControlType, CountIsExact, OwnStorage, LaunchOrder, Waiting
<1>6. ASSUME main' \in {"returned", "end"}
      PROVE  /\ platform = "linux" => pc[0] = "gone"
             /\ platform # "linux" => \A w \in Worker : pc[w] = "gone"
  <2>1. CASE InlineReturns
    <3>1. main = "worker" /\ next > nb_workers /\ pc[Launched(next - 1)] = "gone"
      BY <1>6, <2>1 DEF InlineReturns
    <3>2. Launched(next - 1) = 0
      BY <1>1, <3>1 DEF Launched, ControlType
    <3> QED
      BY <1>1, <3>1, <3>2 DEF NautilusBarrier, ControlType
  <2>2. CASE Worker0Wait
    <3>1. main = "worker0_wait" /\ Cardinality(Out) = nb_workers
      BY <1>1, <2>2 DEF Worker0Wait, CountIsExact
    <3>2. Out = Worker /\ platform # "linux"
      BY <1>1, <3>1, OutIsFinite DEF LinuxBarrier
    <3> QED
      BY <1>1, <3>2 DEF Out, NautilusBarrier
  <2>3. CASE Output
    BY <1>1, <2>3 DEF Output, LinuxBarrier, NautilusBarrier
  <2> QED
    BY <2>1, <2>2, <2>3
<1>7. LinuxBarrier' /\ NautilusBarrier'
  BY <1>1, <1>2, <1>4, <1>6 DEF LinuxBarrier, NautilusBarrier
<1> QED
  BY <1>5, <1>7 DEF IInv

LEMMA StepInv == IInv /\ [Next]_vars => IInv'
<1> SUFFICES ASSUME IInv, [Next]_vars PROVE IInv'
  OBVIOUS
<1>1. CASE MainStep
  BY <1>1, LaunchStep, ReturnStep DEF MainStep
<1>2. ASSUME NEW w \in Worker, WorkerStep(w) PROVE IInv'
  <2>1. CASE \/ InitializeWorker(w) \/ PinCallingWorker(w)
             \/ EnterAcquire(w) \/ Steal(w) \/ LeaveAcquire(w)
    BY <2>1, WorkingStep
  <2>2. CASE EndPiece(w) \/ BeforeBench(w) \/ AfterBench(w) \/ Terminal(w)
    BY <2>2, ProgramStep
  <2>3. CASE \/ LockAndCount(w) \/ NotifyOne(w) \/ Unlock(w) \/ NotifyExit(w)
             \/ w = 0 /\ (TestPredicate \/ Woken)
    BY <2>3, BarrierStep DEF Woken
  <2> QED
    BY <1>2, <2>1, <2>2, <2>3 DEF WorkerStep
<1>3. CASE SpuriousWakeUp
  BY <1>3, BarrierStep, ZeroIsWorker DEF SpuriousWakeUp
<1>4. CASE Tick \/ UNCHANGED vars
  BY <1>4, ProgramStep, ZeroIsWorker
<1> QED
  BY <1>1, <1>2, <1>3, <1>4 DEF Next

-----------------------------------------------------------------------------
(* On both platforms, for any number of workers and however often worker 0 *)
(* wakes up for nothing: when launch has returned every worker has left    *)
(* it, and the lock of its barrier is free.                                *)
THEOREM FrameIsSafe == Spec => []FrameOutlivesWorkers
<1>1. IInv => FrameOutlivesWorkers
  <2> SUFFICES ASSUME IInv, main \in {"returned", "end"}
               PROVE  (\A w \in Worker : pc[w] = "gone") /\ lock = NoLock
    BY DEF FrameOutlivesWorkers
  <2>1. \A w \in Worker : pc[w] = "gone"
    BY ZeroIsWorker DEF IInv, LinuxBarrier, NautilusBarrier
  <2>2. lock = NoLock
    BY <2>1 DEF IInv, LinuxBarrier, NautilusBarrier
  <2> QED
    BY <2>1, <2>2
<1> QED
  BY <1>1, InitInv, StepInv, PTL DEF Spec

(* A worker's thread has the worker's id before it uses per-worker storage,*)
(* and is bound to the worker's cpus or to none.                           *)
THEOREM OwnStorageOnly == Spec => []WorkersUseTheirOwn
<1>1. IInv => WorkersUseTheirOwn
  BY DEF IInv, OwnStorage, WorkersUseTheirOwn
<1> QED
  BY <1>1, InitInv, StepInv, PTL DEF Spec

-----------------------------------------------------------------------------
(* The wake-up of worker 0.                                                *)

WakeInv == (waiting <=> pc[0] = "wait") /\ NoWakeUpIsLost

(* Steps that are not about the wake-up: nobody starts or stops waiting,   *)
(* and who passes notify_one had passed it.                                *)
LEMMA WakeKept ==
  ASSUME ControlType, WakeInv, NEW w \in Worker, NEW to,
         pc' = [pc EXCEPT ![w] = to], waiting' = waiting, signal' = signal,
         pc[w] # "wait", to # "wait",
         to \in {"unlock", "gone"} => w = 0 \/ pc[w] \in {"unlock", "gone"}
  PROVE  WakeInv'
<1>1. /\ pc'[0] = "wait" <=> pc[0] = "wait"
      /\ \A v \in Worker \ {0} :
           pc[v] \notin {"unlock", "gone"} => pc'[v] \notin {"unlock", "gone"}
  BY ZeroIsWorker DEF ControlType
<1> QED
  BY <1>1 DEF WakeInv, NoWakeUpIsLost

(* While not all workers are counted, and worker 0 is, another is missing. *)
LEMMA SomebodyIsMissing ==
  ASSUME CountIsExact, nb_workers_exited # nb_workers, 0 \in Out
  PROVE  \E v \in Worker \ {0} : pc[v] \notin {"notify", "unlock", "gone"}
<1>1. PICK v \in Worker : v \notin Out
  BY OutIsFinite DEF CountIsExact, Out
<1> QED
  BY <1>1 DEF Out

LEMMA WakeStep ==
  ASSUME IInv, WakeInv, NEW w \in Worker,
         \/ LockAndCount(w) \/ NotifyOne(w) \/ Unlock(w) \/ NotifyExit(w)
         \/ w = 0 /\ (TestPredicate \/ WakeUp)
  PROVE  WakeInv'
<1>1. ControlType /\ CountIsExact /\ LinuxBarrier /\ NautilusBarrier
  BY DEF IInv
<1>2. CASE LockAndCount(w)
  <2>1. PICK to : to = IF w = 0 THEN "test" ELSE "notify"
    OBVIOUS
  <2>2. /\ pc[w] = "exit" /\ UNCHANGED <<waiting, signal>>
        /\ pc' = [pc EXCEPT ![w] = to]
    BY <1>2, <2>1, SMT DEF LockAndCount, Step
  <2>3. to \in {"test", "notify"}
    BY <2>1
  <2> QED
    BY <1>1, <2>2, <2>3, WakeKept
<1>3. CASE NotifyOne(w)
  <2>1. /\ pc[w] = "notify" /\ pc' = [pc EXCEPT ![w] = "unlock"]
        /\ waiting' = waiting
        /\ signal' = (signal \/ (nb_workers_exited = nb_workers /\ waiting))
    BY <1>3, SMT DEF NotifyOne, Step, LastOut
  <2>2. w # 0
    BY <1>1, <2>1 DEF LinuxBarrier, NautilusBarrier, ControlType
  <2>3. pc'[0] = pc[0] /\ \A v \in Worker : v # w => pc'[v] = pc[v]
    BY <1>1, <2>1, <2>2, ZeroIsWorker DEF ControlType
  <2>4. ASSUME pc[0] = "wait", nb_workers_exited # nb_workers
        PROVE  \E v \in Worker \ {0} : pc'[v] \notin {"unlock", "gone"}
    <3>1. 0 \in Out
      BY <2>4, ZeroIsWorker DEF Out
    <3>2. PICK v \in Worker \ {0} : pc[v] \notin {"notify", "unlock", "gone"}
      BY <1>1, <2>4, <3>1, SomebodyIsMissing
    <3> QED
      BY <2>1, <2>3, <3>2
  <2> QED
    BY <2>1, <2>3, <2>4 DEF WakeInv, NoWakeUpIsLost
<1>4. CASE Unlock(w)
  <2>1. /\ pc[w] = "unlock" /\ pc' = [pc EXCEPT ![w] = "gone"]
        /\ UNCHANGED <<waiting, signal>>
    BY <1>4 DEF Unlock, Step
  <2> QED
    BY <1>1, <2>1, WakeKept
<1>5. CASE NotifyExit(w)
  <2>1. platform # "linux" /\ pc' = [pc EXCEPT ![w] = "gone"]
        /\ waiting' = waiting
    BY <1>5 DEF NotifyExit, Step
  <2>2. pc[0] # "wait"
    BY <1>1, <2>1, ZeroIsWorker DEF NautilusBarrier
  <2>3. pc'[0] # "wait"
    BY <1>1, <2>1, <2>2, ZeroIsWorker DEF ControlType
  <2> QED
    BY <2>1, <2>2, <2>3 DEF WakeInv, NoWakeUpIsLost
<1>6. CASE w = 0 /\ TestPredicate
  <2>1. CASE nb_workers_exited = nb_workers
    <3>1. /\ pc[0] = "test" /\ pc' = [pc EXCEPT ![0] = "unlock"]
          /\ UNCHANGED <<waiting, signal>>
      BY <1>6, <2>1 DEF TestPredicate, Step
    <3> QED
      BY <1>1, <3>1, WakeKept, ZeroIsWorker
  <2>2. CASE nb_workers_exited # nb_workers
    <3>1. /\ pc[0] = "test" /\ pc' = [pc EXCEPT ![0] = "wait"] /\ waiting' = TRUE
      BY <1>6, <2>2 DEF TestPredicate, Step
    <3>2. pc'[0] = "wait" /\ \A v \in Worker \ {0} : pc'[v] = pc[v]
      BY <1>1, <3>1, ZeroIsWorker DEF ControlType
    <3>3. \E v \in Worker \ {0} : pc[v] \notin {"notify", "unlock", "gone"}
      BY <1>1, <2>2, <3>1, ZeroIsWorker, SomebodyIsMissing DEF Out
    <3> QED
      BY <3>1, <3>2, <3>3 DEF WakeInv, NoWakeUpIsLost
  <2> QED
    BY <2>1, <2>2
<1>7. CASE w = 0 /\ WakeUp
  <2>1. pc' = [pc EXCEPT ![0] = "test"] /\ waiting' = FALSE
    BY <1>7 DEF WakeUp, Step
  <2>2. pc'[0] = "test"
    BY <1>1, <2>1, ZeroIsWorker DEF ControlType
  <2> QED
    BY <2>1, <2>2 DEF WakeInv, NoWakeUpIsLost
<1> QED
  BY <1>2, <1>3, <1>4, <1>5, <1>6, <1>7

LEMMA WakeOtherStep ==
  ASSUME IInv, WakeInv, [Next]_vars,
         ~ \E w \in Worker :
             \/ LockAndCount(w) \/ NotifyOne(w) \/ Unlock(w) \/ NotifyExit(w)
             \/ w = 0 /\ (TestPredicate \/ WakeUp)
  PROVE  WakeInv'
<1>1. ControlType /\ LaunchOrder
  BY DEF IInv
<1>2. ASSUME UNCHANGED <<pc, waiting, signal>>
      PROVE  WakeInv'
  BY <1>2 DEF WakeInv, NoWakeUpIsLost
<1>3. CASE LaunchWorkerThread
  <2>1. next \in 1..nb_workers
    BY <1>1, <1>3 DEF ControlType, LaunchWorkerThread
  <2>2. PICK w \in Worker : w = Launched(next)
    BY <2>1 DEF Launched, Worker
  <2>3. pc[w] = "unborn"
    BY <1>1, <2>1, <2>2 DEF Launched, LaunchOrder
  <2>4. pc' = [pc EXCEPT ![w] = "start"] /\ UNCHANGED <<waiting, signal>>
    BY <1>3, <2>2 DEF LaunchWorkerThread, barrier
  <2> QED
    BY <1>1, <2>3, <2>4, WakeKept
<1>4. CASE InlineReturns \/ Worker0Wait \/ Output \/ Tick \/ UNCHANGED vars
  <2>1. UNCHANGED <<pc, waiting, signal>>
    BY <1>4 DEF InlineReturns, Worker0Wait, Output, Tick, vars, barrier
  <2> QED
    BY <1>2, <2>1
<1>5. ASSUME NEW w \in Worker,
             \/ InitializeWorker(w) \/ PinCallingWorker(w)
             \/ EnterAcquire(w) \/ Steal(w) \/ LeaveAcquire(w)
      PROVE  WakeInv'
  <2>1. PICK to \in {"pin", "loop", "acquire", "exit"} :
          /\ pc' = [pc EXCEPT ![w] = to] /\ UNCHANGED <<waiting, signal>>
          /\ pc[w] \in {"start", "pin", "loop", "acquire"}
    <3>1. CASE InitializeWorker(w)
      BY <3>1 DEF InitializeWorker, Step, barrier
    <3>2. CASE PinCallingWorker(w)
      BY <3>2 DEF PinCallingWorker, Step, barrier
    <3>3. CASE EnterAcquire(w)
      BY <3>3 DEF EnterAcquire, Step, barrier
    <3>4. CASE Steal(w)
      BY <3>4 DEF Steal, Step, barrier
    <3>5. CASE LeaveAcquire(w)
      BY <3>5 DEF LeaveAcquire, Step, barrier
    <3> QED
      BY <1>5, <3>1, <3>2, <3>3, <3>4, <3>5
  <2> QED
    BY <1>1, <2>1, WakeKept
<1>6. ASSUME NEW w \in Worker,
             EndPiece(w) \/ BeforeBench(w) \/ AfterBench(w) \/ Terminal(w)
      PROVE  WakeInv'
  <2>1. UNCHANGED <<pc, waiting, signal>>
    BY <1>6 DEF EndPiece, BeforeBench, AfterBench, Terminal, barrier
  <2> QED
    BY <1>2, <2>1
<1> QED
  BY <1>3, <1>4, <1>5, <1>6, ZeroIsWorker
     DEF Next, MainStep, WorkerStep, Woken, SpuriousWakeUp

(* For any number of workers: worker 0 never waits at the exit barrier     *)
(* without having been signalled or having a worker that will pass         *)
(* notify_one after it.                                                    *)
THEOREM WakeUpArrives == Spec => []NoWakeUpIsLost
<1>1. Init => WakeInv
  BY ZeroIsWorker DEF Init, WakeInv, NoWakeUpIsLost
<1>2. IInv /\ WakeInv /\ [Next]_vars => WakeInv'
  BY WakeStep, WakeOtherStep
<1>3. WakeInv => NoWakeUpIsLost
  BY DEF WakeInv
<1> QED
  BY <1>1, <1>2, <1>3, InitInv, StepInv, PTL DEF Spec

-----------------------------------------------------------------------------
(* The merged log, for buffers whose places are finitely many. *)

LEMMA EventsHaveTimes == \A e \in Events : e.timestamp \in Int
<1>1. MaxTime \in Nat
  BY BoundsAssumption
<1> QED
  BY <1>1 DEF Events

LEMMA PlacesAre ==
  ASSUME NEW buffers \in [Worker -> Seq(Events)]
  PROVE  /\ \A w \in Worker : \A k \in 1..Len(buffers[w]) : <<w, k>> \in Places(buffers)
         /\ \A p \in Places(buffers) :
              /\ p = <<p[1], p[2]>> /\ p[1] \in Worker /\ p[2] \in 1..Len(buffers[p[1]])
              /\ At(buffers, p) \in Events
BY DEF Places, At

(* Sorting by time, then buffer by buffer, is a total order of the places. *)
LEMMA BeforeIsTotalOrder ==
  ASSUME NEW buffers \in [Worker -> Seq(Events)],
         NEW p \in Places(buffers), NEW q \in Places(buffers), NEW r \in Places(buffers)
  PROVE  /\ ~ Before(buffers, p, p)
         /\ Before(buffers, p, q) /\ Before(buffers, q, r) => Before(buffers, p, r)
         /\ p # q => Before(buffers, p, q) \/ Before(buffers, q, p)
<1>1. \A x \in Places(buffers) :
        /\ x = <<x[1], x[2]>> /\ x[1] \in Int /\ x[2] \in Int
        /\ At(buffers, x).timestamp \in Int
  BY PlacesAre, EventsHaveTimes DEF Worker
<1> QED
  BY <1>1 DEF Before

LEMMA RanksAreOrdered ==
  ASSUME NEW buffers \in [Worker -> Seq(Events)], IsFiniteSet(Places(buffers)),
         NEW p \in Places(buffers), NEW q \in Places(buffers)
  PROVE  /\ Rank(buffers, p) \in 1..Cardinality(Places(buffers))
         /\ Before(buffers, p, q) <=> Rank(buffers, p) < Rank(buffers, q)
         /\ Rank(buffers, p) = Rank(buffers, q) => p = q
<1> DEFINE Down(x) == {y \in Places(buffers) : Before(buffers, y, x)}
<1>1. \A x \in Places(buffers) : /\ IsFiniteSet(Down(x)) /\ Cardinality(Down(x)) \in Nat
                                 /\ Rank(buffers, x) = Cardinality(Down(x)) + 1
  BY FS_Subset, FS_CardinalityType DEF Rank
<1>2. ASSUME NEW x \in Places(buffers), NEW y \in Places(buffers), Before(buffers, x, y)
      PROVE  Rank(buffers, x) < Rank(buffers, y)
  <2>1. Down(x) \subseteq Down(y) /\ x \in Down(y) /\ x \notin Down(x)
    BY <1>2, BeforeIsTotalOrder
  <2>2. /\ Cardinality(Down(x)) <= Cardinality(Down(y))
        /\ Cardinality(Down(x)) # Cardinality(Down(y))
    BY <1>1, <2>1, FS_Subset
  <2> HIDE DEF Down
  <2> QED
    BY <1>1, <2>2
<1>3. Rank(buffers, p) <= Cardinality(Places(buffers))
  <2>1. Down(p) \subseteq Places(buffers) /\ p \notin Down(p)
    BY BeforeIsTotalOrder
  <2>2. /\ Cardinality(Down(p)) <= Cardinality(Places(buffers))
        /\ Cardinality(Down(p)) # Cardinality(Places(buffers))
    BY <2>1, FS_Subset
  <2>3. Cardinality(Places(buffers)) \in Nat
    BY FS_CardinalityType
  <2> HIDE DEF Down
  <2> QED
    BY <1>1, <2>2, <2>3
<1>4. Cardinality(Places(buffers)) \in Nat
  BY FS_CardinalityType
<1>5. \A x \in Places(buffers) : Rank(buffers, x) \in Nat \ {0}
  <2> HIDE DEF Down
  <2> QED
    BY <1>1
<1>6. Before(buffers, p, q) <=> Rank(buffers, p) < Rank(buffers, q)
  BY <1>2, <1>5, BeforeIsTotalOrder
<1>7. Rank(buffers, p) = Rank(buffers, q) => p = q
  BY <1>2, <1>5, BeforeIsTotalOrder
<1> HIDE DEF Down
<1> QED
  BY <1>3, <1>4, <1>5, <1>6, <1>7

(* The place of the k-th event of the merged log. *)
Place(buffers, k) == CHOOSE p \in Places(buffers) : Rank(buffers, p) = k

LEMMA MergedAre ==
  ASSUME NEW buffers \in [Worker -> Seq(Events)], IsFiniteSet(Places(buffers))
  PROVE  /\ Cardinality(Places(buffers)) \in Nat
         /\ Merged(buffers) \in Seq(Events)
         /\ Len(Merged(buffers)) = Cardinality(Places(buffers))
         /\ DOMAIN Merged(buffers) = 1..Cardinality(Places(buffers))
         /\ \A k \in 1..Cardinality(Places(buffers)) :
              /\ Merged(buffers)[k] = At(buffers, Place(buffers, k))
              /\ Place(buffers, k) \in Places(buffers)
              /\ Rank(buffers, Place(buffers, k)) = k
         /\ \A p \in Places(buffers) : Place(buffers, Rank(buffers, p)) = p
<1> DEFINE n == Cardinality(Places(buffers))
           rank == [p \in Places(buffers) |-> Rank(buffers, p)]
           Ranked(k) == CHOOSE p \in Places(buffers) : rank[p] = k
<1>1. n \in Nat /\ IsFiniteSet(1..n) /\ Cardinality(1..n) = n
  BY FS_CardinalityType, FS_Interval
<1>2. rank \in Injection(Places(buffers), 1..n)
  <2>1. rank \in [Places(buffers) -> 1..n]
    BY RanksAreOrdered
  <2>2. \A p, q \in Places(buffers) : rank[p] = rank[q] => p = q
    BY RanksAreOrdered
  <2> QED
    BY <2>1, <2>2 DEF Injection, IsInjective
<1>3. rank \in Surjection(Places(buffers), 1..n)
  BY <1>1, <1>2, FS_Injection
<1>4. \A k \in 1..n : \E p \in Places(buffers) : Rank(buffers, p) = k
  BY <1>3 DEF Surjection
<1>5. \A k \in 1..n : /\ Place(buffers, k) \in Places(buffers)
                      /\ Rank(buffers, Place(buffers, k)) = k
  BY <1>4 DEF Place
<1>6. \A k \in 1..n : Ranked(k) = Place(buffers, k)
  BY DEF Place
<1>7. Merged(buffers) = [k \in 1..n |-> At(buffers, Place(buffers, k))]
  <2>1. Merged(buffers) = [k \in 1..n |-> At(buffers, Ranked(k))]
    BY DEF Merged
  <2> HIDE DEF Ranked
  <2> QED
    BY <1>6, <2>1
<1>8. \A p \in Places(buffers) : Place(buffers, Rank(buffers, p)) = p
  BY <1>5, RanksAreOrdered
<1>9. \A k \in 1..n : At(buffers, Place(buffers, k)) \in Events
  BY <1>5, PlacesAre
<1> HIDE DEF n
<1>10. Merged(buffers) \in Seq(Events) /\ Len(Merged(buffers)) = n
  BY <1>1, <1>7, <1>9
<1> QED
  BY <1>1, <1>5, <1>7, <1>8, <1>10 DEF n

(* The events that have come from some places are as many as those places. *)
LEMMA AsManyInMerged ==
  ASSUME NEW buffers \in [Worker -> Seq(Events)], IsFiniteSet(Places(buffers)),
         NEW T \in SUBSET Places(buffers)
  PROVE  Cardinality({k \in 1..Cardinality(Places(buffers)) : Place(buffers, k) \in T})
           = Cardinality(T)
<1> DEFINE n == Cardinality(Places(buffers))
           K == {k \in 1..n : Place(buffers, k) \in T}
           f == [p \in T |-> Rank(buffers, p)]
<1>1. \A p \in T : f[p] \in K
  BY MergedAre, RanksAreOrdered
<1>2. f \in Injection(T, K)
  <2>1. \A p, q \in T : f[p] = f[q] => p = q
    BY RanksAreOrdered
  <2> QED
    BY <1>1, <2>1 DEF Injection, IsInjective
<1>3. f \in Surjection(T, K)
  <2>1. \A k \in K : \E p \in T : f[p] = k
    BY MergedAre
  <2> QED
    BY <1>1, <2>1 DEF Surjection
<1>4. ExistsBijection(T, K)
  BY <1>2, <1>3 DEF ExistsBijection, Bijection
<1> QED
  BY <1>4, FS_Subset, FS_Bijection

LEMMA MergedIsSorted ==
  ASSUME NEW buffers \in [Worker -> Seq(Events)], IsFiniteSet(Places(buffers)),
         NEW k \in 1..(Len(Merged(buffers)) - 1)
  PROVE  Merged(buffers)[k].timestamp <= Merged(buffers)[k + 1].timestamp
<1> DEFINE p == Place(buffers, k)
           q == Place(buffers, k + 1)
<1>1. /\ p \in Places(buffers) /\ q \in Places(buffers)
      /\ Rank(buffers, p) = k /\ Rank(buffers, q) = k + 1
      /\ Merged(buffers)[k] = At(buffers, p) /\ Merged(buffers)[k + 1] = At(buffers, q)
  BY MergedAre
<1>2. Before(buffers, p, q)
  BY <1>1, RanksAreOrdered
<1>3. At(buffers, p).timestamp \in Int /\ At(buffers, q).timestamp \in Int
  BY <1>1, PlacesAre, EventsHaveTimes
<1> QED
  BY <1>1, <1>2, <1>3 DEF Before

(* A buffer whose events are its worker's, in the order of time. *)
InOrder(buffers, w) ==
  \A k \in 1..Len(buffers[w]) :
    /\ buffers[w][k].worker_id = w
    /\ \A j \in 1..k : buffers[w][j].timestamp <= buffers[w][k].timestamp

LEMMA MergedKeepsOrder ==
  ASSUME NEW buffers \in [Worker -> Seq(Events)], IsFiniteSet(Places(buffers)),
         \A v \in Worker : InOrder(buffers, v), NEW w \in Worker
  PROVE  LET merged == Merged(buffers)
             own == {k \in DOMAIN merged : merged[k].worker_id = w}
         IN  /\ Cardinality(own) = Len(buffers[w])
             /\ \A k \in own :
                  merged[k] = buffers[w][Cardinality({j \in own : j <= k})]
<1> DEFINE merged == Merged(buffers)
           n == Cardinality(Places(buffers))
           own == {k \in DOMAIN merged : merged[k].worker_id = w}
           First(m) == {w} \X (1..m)
<1>1. \A m \in Nat : Cardinality(First(m)) = m
  <2> TAKE m \in Nat
  <2>1. IsFiniteSet(1..m) /\ Cardinality(1..m) = m
    BY FS_Interval
  <2>2. IsFiniteSet({w}) /\ Cardinality({w}) = 1
    BY FS_Singleton
  <2>3. Cardinality({w} \X (1..m)) = Cardinality({w}) * Cardinality(1..m)
    BY <2>1, <2>2, FS_Product
  <2> QED
    BY <2>1, <2>2, <2>3
<1>2. \A m \in 0..Len(buffers[w]) : First(m) \in SUBSET Places(buffers)
  BY PlacesAre
<1>3. \A p \in Places(buffers) : At(buffers, p).worker_id = p[1]
  BY PlacesAre DEF InOrder, At
<1>4. \A k \in 1..n : k \in own <=> Place(buffers, k) \in First(Len(buffers[w]))
  <2> TAKE k \in 1..n
  <2>1. Place(buffers, k) \in Places(buffers) /\ merged[k] = At(buffers, Place(buffers, k))
    BY MergedAre
  <2>2. k \in own <=> Place(buffers, k)[1] = w
    BY <1>3, <2>1, MergedAre
  <2> QED
    BY <2>1, <2>2, PlacesAre
<1>5. own = {k \in 1..n : Place(buffers, k) \in First(Len(buffers[w]))}
  BY <1>4, MergedAre
<1>6. Cardinality(own) = Len(buffers[w])
  <2>1. Len(buffers[w]) \in Nat
    OBVIOUS
  <2>2. First(Len(buffers[w])) \in SUBSET Places(buffers)
    BY <1>2, <2>1
  <2>3. Cardinality({k \in 1..n : Place(buffers, k) \in First(Len(buffers[w]))})
          = Cardinality(First(Len(buffers[w])))
    BY <2>2, AsManyInMerged
  <2> HIDE DEF First, own, n
  <2> QED
    BY <1>1, <1>5, <2>1, <2>3
<1>7. ASSUME NEW k \in own
      PROVE  merged[k] = buffers[w][Cardinality({j \in own : j <= k})]
  <2>1. PICK i \in 1..Len(buffers[w]) : Place(buffers, k) = <<w, i>>
    BY <1>5
  <2>2. ASSUME NEW j \in 1..n
        PROVE  j \in own /\ j <= k <=> Place(buffers, j) \in First(i)
    <3>1. /\ k \in 1..n /\ Rank(buffers, Place(buffers, k)) = k
          /\ Rank(buffers, Place(buffers, j)) = j
          /\ Place(buffers, j) \in Places(buffers) /\ Place(buffers, k) \in Places(buffers)
      BY <1>5, MergedAre
    <3>2. ASSUME NEW m \in 1..Len(buffers[w]), Place(buffers, j) = <<w, m>>
          PROVE  j <= k <=> m <= i
      <4> HIDE DEF n, own, First
      <4>0. /\ Rank(buffers, <<w, m>>) = j /\ Rank(buffers, <<w, i>>) = k
            /\ <<w, m>> \in Places(buffers) /\ <<w, i>> \in Places(buffers)
        BY <2>1, <3>1, <3>2
      <4>1. j < k <=> Before(buffers, <<w, m>>, <<w, i>>)
        BY <4>0, RanksAreOrdered
      <4>2. j = k <=> m = i
        <5>1. j = k => <<w, m>> = <<w, i>>
          BY <4>0, RanksAreOrdered
        <5> QED
          BY <4>0, <5>1
      <4>4. j \in Int /\ k \in Int
        BY <3>1, MergedAre DEF n
      <4>3. Before(buffers, <<w, m>>, <<w, i>>) <=> m < i
        <5>1. /\ buffers[w][m].timestamp \in Int /\ buffers[w][i].timestamp \in Int
              /\ m <= i => buffers[w][m].timestamp <= buffers[w][i].timestamp
              /\ i <= m => buffers[w][i].timestamp <= buffers[w][m].timestamp
          <6>1. buffers[w][m] \in Events /\ buffers[w][i] \in Events
            OBVIOUS
          <6> QED
            BY <6>1, EventsHaveTimes DEF InOrder
        <5> QED
          BY <5>1 DEF Before, At, Worker
      <4> QED
        BY <4>1, <4>2, <4>3, <4>4
    <3> QED
      BY <1>4, <3>2
  <2>3. {j \in own : j <= k} = {j \in 1..n : Place(buffers, j) \in First(i)}
    BY <1>5, <2>2
  <2>4. Cardinality({j \in own : j <= k}) = i
    <3>1. First(i) \in SUBSET Places(buffers)
      BY <1>2
    <3>2. Cardinality({j \in 1..n : Place(buffers, j) \in First(i)}) = Cardinality(First(i))
      BY <3>1, AsManyInMerged
    <3>3. i \in Nat /\ Cardinality(First(i)) = i
      BY <1>1
    <3> QED
      BY <2>3, <3>2, <3>3, Zenon
  <2>5. merged[k] = At(buffers, <<w, i>>)
    BY <1>5, <2>1, MergedAre
  <2> QED
    BY <2>4, <2>5 DEF At
<1> QED
  BY <1>6, <1>7

-----------------------------------------------------------------------------
(* The workers' buffers. *)

LogType ==
  /\ logs \in [Worker -> Seq(Events)] /\ IsFiniteSet(Places(logs))
  /\ \A w \in Worker :
       InOrder(logs, w) /\ \A k \in 1..Len(logs[w]) : logs[w][k].timestamp <= time

Waits(tag) == {p \in Places(logs) : At(logs, p).tag = tag}

(* The workers that are at one of these places in their loop. *)
Being(S) == {w \in Worker : pc[w] \in S}

Left == {"exit", "notify", "unlock", "test", "wait", "gone"}
Searching == {"acquire"} \cup Left

(* A search for work has begun for each theft and for each worker still    *)
(* searching or gone; it has ended for each theft and each worker gone.    *)
WaitsCounted ==
  IF nb_workers = 1
    THEN Waits("enter_wait") = {} /\ Waits("exit_wait") = {} /\ Being({"acquire"}) = {}
    ELSE /\ Cardinality(Waits("enter_wait")) = steals + Cardinality(Being(Searching))
         /\ Cardinality(Waits("exit_wait")) = steals + Cardinality(Being(Left))

OutputIs == output = IF main = "end" THEN Merged(logs) ELSE <<>>

RestType ==
  /\ pinned \in BOOLEAN /\ id \in [Worker -> Worker \cup {Uninitialized}]
  /\ waiting \in BOOLEAN /\ signal \in BOOLEAN
  /\ stage \in {"before", "body", "after", "end"}
  /\ busy \subseteq Worker /\ should_terminate \in BOOLEAN
  /\ steals \in 0..MaxSteals /\ spurious \in 0..MaxSpurious
  /\ time \in 0..MaxTime

LogInv == RestType /\ LogType /\ WaitsCounted /\ OutputIs

LEMMA BoundsAre == MaxSteals \in Nat /\ MaxSpurious \in Nat /\ MaxTime \in Nat
  BY BoundsAssumption

LEMMA BeingIsFinite ==
  ASSUME NEW S
  PROVE  IsFiniteSet(Being(S)) /\ Cardinality(Being(S)) \in Nat
<1>1. Being(S) \subseteq Worker
  BY DEF Being
<1> QED
  BY <1>1, OutIsFinite, FS_Subset, FS_CardinalityType

LEMMA BeingMoves ==
  ASSUME ControlType, NEW S, NEW w \in Worker, NEW to, pc' = [pc EXCEPT ![w] = to]
  PROVE  Cardinality(Being(S))' =
           Cardinality(Being(S)) + (IF to \in S THEN 1 ELSE 0)
                                 - (IF pc[w] \in S THEN 1 ELSE 0)
<1>1. pc'[w] = to /\ \A v \in Worker \ {w} : pc'[v] = pc[v]
  BY DEF ControlType
<1>2. /\ IsFiniteSet(Being(S) \ {w}) /\ Cardinality(Being(S) \ {w}) \in Nat
      /\ Cardinality(Being(S)) =
           Cardinality(Being(S) \ {w}) + (IF pc[w] \in S THEN 1 ELSE 0)
  <2>1. w \in Being(S) <=> pc[w] \in S
    BY DEF Being
  <2>2. IsFiniteSet(Being(S)) /\ Cardinality(Being(S)) \in Nat
    BY BeingIsFinite
  <2>3. /\ IsFiniteSet(Being(S) \ {w})
        /\ Cardinality(Being(S) \ {w}) =
             IF w \in Being(S) THEN Cardinality(Being(S)) - 1 ELSE Cardinality(Being(S))
    BY <2>2, FS_RemoveElement
  <2>4. Cardinality(Being(S) \ {w}) \in Nat
    BY <2>3, FS_CardinalityType
  <2> QED
    BY <2>1, <2>2, <2>3, <2>4
<1>3. CASE to \in S
  <2>1. Being(S)' = (Being(S) \ {w}) \cup {w}
    BY <1>1, <1>3 DEF Being
  <2>2. Cardinality((Being(S) \ {w}) \cup {w}) = Cardinality(Being(S) \ {w}) + 1
    BY <1>2, FS_AddElement
  <2> QED
    BY <1>2, <1>3, <2>1, <2>2
<1>4. CASE to \notin S
  <2>1. Being(S)' = Being(S) \ {w}
    BY <1>1, <1>4 DEF Being
  <2> QED
    BY <1>2, <1>4, <2>1
<1> QED
  BY <1>3, <1>4

(* An event at the end of a worker's buffer. *)
LEMMA PushStep ==
  ASSUME LogType, NEW w \in Worker, NEW tag \in Tags,
         time \in 0..MaxTime, time' = time,
         logs' = [logs EXCEPT ![w] = Append(@, Event(w, tag))]
  PROVE  /\ LogType'
         /\ Cardinality(Waits(tag))' = Cardinality(Waits(tag)) + 1
         /\ \A t \in Tags \ {tag} : Waits(t)' = Waits(t)
<1> DEFINE e == Event(w, tag)
           new == <<w, Len(logs[w]) + 1>>
<1>1. e \in Events /\ e.worker_id = w /\ e.timestamp = time /\ e.tag = tag
  BY DEF Event, Events
<1>2. /\ logs'[w] = Append(logs[w], e) /\ logs' \in [Worker -> Seq(Events)]
      /\ \A v \in Worker \ {w} : logs'[v] = logs[v]
  BY <1>1 DEF LogType
<1>3. /\ Len(logs[w]) \in Nat /\ Len(logs'[w]) = Len(logs[w]) + 1
      /\ logs'[w][Len(logs[w]) + 1] = e
      /\ \A k \in 1..Len(logs[w]) : logs'[w][k] = logs[w][k]
  <2>1. logs[w] \in Seq(Events)
    BY DEF LogType
  <2> HIDE DEF e
  <2> QED
    BY <1>1, <1>2, <2>1
<1> HIDE DEF e
<1>4. Places(logs') = Places(logs) \cup {new} /\ new \notin Places(logs)
  <2>1. \A v \in Worker : DOMAIN logs[v] = 1..Len(logs[v]) /\ DOMAIN logs'[v] = 1..Len(logs'[v])
    BY <1>2 DEF LogType
  <2>2. DOMAIN logs'[w] = DOMAIN logs[w] \cup {Len(logs[w]) + 1}
    BY <1>3, <2>1
  <2>3. \A v \in Worker \ {w} : DOMAIN logs'[v] = DOMAIN logs[v]
    BY <1>2
  <2>4. Len(logs[w]) + 1 \notin DOMAIN logs[w]
    BY <1>3, <2>1
  <2> QED
    BY <2>2, <2>3, <2>4 DEF Places
<1>5. At(logs', new) = e /\ \A p \in Places(logs) : At(logs', p) = At(logs, p)
  <2>1. At(logs', new) = e
    BY <1>3 DEF At
  <2>2. ASSUME NEW p \in Places(logs) PROVE At(logs', p) = At(logs, p)
    <3>1. p[1] \in Worker /\ p[2] \in 1..Len(logs[p[1]])
      BY PlacesAre DEF LogType
    <3> QED
      BY <1>2, <1>3, <3>1 DEF At
  <2> QED
    BY <2>1, <2>2
<1>6. LogType'
  <2>1. IsFiniteSet(Places(logs'))
    <3>1. IsFiniteSet(Places(logs))
      BY DEF LogType
    <3>2. IsFiniteSet(Places(logs) \cup {new})
      BY <3>1, FS_AddElement
    <3> QED
      BY <1>4, <3>2
  <2>2. ASSUME NEW v \in Worker
        PROVE  /\ InOrder(logs', v)
               /\ \A k \in 1..Len(logs'[v]) : logs'[v][k].timestamp <= time
    <3>1. CASE v # w
      BY <1>2, <3>1 DEF LogType, InOrder
    <3>2. CASE v = w
      <4>1. time \in Int /\ time <= time
        BY BoundsAre
      <4>2. ASSUME NEW k \in 1..Len(logs'[w])
            PROVE  /\ logs'[w][k].worker_id = w
                   /\ logs'[w][k].timestamp <= time
                   /\ \A j \in 1..k : logs'[w][j].timestamp <= logs'[w][k].timestamp
        <5>1. CASE k \in 1..Len(logs[w])
          BY <1>3, <5>1 DEF LogType, InOrder
        <5>2. CASE k = Len(logs[w]) + 1
          <6>1. \A j \in 1..k : j \in 1..Len(logs[w]) \/ j = k
            BY <1>3, <5>2
          <6> QED
            BY <1>1, <1>3, <4>1, <5>2, <6>1 DEF LogType
        <5> QED
          BY <1>3, <5>1, <5>2
      <4> QED
        BY <3>2, <4>2 DEF InOrder
    <3> QED
      BY <3>1, <3>2
  <2> QED
    BY <1>2, <2>1, <2>2 DEF LogType
<1>7. Waits(tag)' = Waits(tag) \cup {new} /\ new \notin Waits(tag)
  <2>1. \A p : p \in Waits(tag)' <=> p \in Places(logs') /\ At(logs', p).tag = tag
    BY DEF Waits
  <2>2. \A p : p \in Waits(tag) <=> p \in Places(logs) /\ At(logs, p).tag = tag
    BY DEF Waits
  <2>3. \A p : p \in Waits(tag)' <=> p \in Waits(tag) \cup {new}
    BY <1>1, <1>4, <1>5, <2>1, <2>2, Zenon
  <2> QED
    BY <1>4, <2>2, <2>3
<1>8. \A t \in Tags \ {tag} : Waits(t)' = Waits(t)
  BY <1>1, <1>4, <1>5 DEF Waits
<1>9. IsFiniteSet(Waits(tag))
  BY FS_Subset DEF Waits, LogType
<1>10. Cardinality(Waits(tag))' = Cardinality(Waits(tag)) + 1
  BY <1>7, <1>9, FS_AddElement
<1> QED
  BY <1>6, <1>8, <1>10

LEMMA InitLog == Init => LogInv
<1> SUFFICES ASSUME Init PROVE LogInv
  OBVIOUS
<1> DEFINE e == [tag |-> "enter_launch", timestamp |-> 0, worker_id |-> 0]
<1>1. e \in Events
  BY BoundsAre, ZeroIsWorker DEF Events, Tags
<1>2. logs = [w \in Worker |-> IF w = 0 THEN <<e>> ELSE <<>>]
  BY DEF Init
<1>3. e.worker_id = 0 /\ e.timestamp = 0 /\ e.tag = "enter_launch" /\ time = 0
  BY DEF Init
<1> HIDE DEF e
<1>4. LogType
  <2>1. logs \in [Worker -> Seq(Events)]
    BY <1>1, <1>2
  <2>2. Places(logs) \subseteq {<<0, 1>>}
    BY <1>2 DEF Places
  <2>3. IsFiniteSet(Places(logs))
    <3>1. IsFiniteSet({<<0, 1>>})
      BY FS_Singleton
    <3> QED
      BY <2>2, <3>1, FS_Subset
  <2>4. ASSUME NEW w \in Worker
        PROVE  InOrder(logs, w) /\ \A k \in 1..Len(logs[w]) : logs[w][k].timestamp <= time
    <3>1. \A k \in 1..Len(logs[w]) : k = 1 /\ w = 0 /\ logs[w][k] = e
      BY <1>2
    <3> QED
      BY <1>3, <3>1 DEF InOrder
  <2> QED
    BY <2>1, <2>3, <2>4 DEF LogType
<1>5. \A p \in Places(logs) : At(logs, p) = e
  BY <1>2 DEF Places, At
<1>6. \A S : "unborn" \notin S => Being(S) = {}
  BY DEF Init, Being
<1>7. /\ Waits("enter_wait") = {} /\ Waits("exit_wait") = {} /\ steals = 0
      /\ Being({"acquire"}) = {} /\ Being(Searching) = {} /\ Being(Left) = {}
  BY <1>3, <1>5, <1>6 DEF Waits, Searching, Left, Init
<1>8. WaitsCounted
  BY <1>7, FS_EmptySet DEF WaitsCounted
<1>9. RestType
  BY BoundsAre, ZeroIsWorker DEF Init, RestType
<1>10. OutputIs
  BY DEF Init, OutputIs
<1> QED
  BY <1>4, <1>8, <1>9, <1>10 DEF LogInv

LEMMA RestStep == ASSUME IInv, LogInv, [Next]_vars PROVE RestType'
<1> USE DEF RestType
<1>1. RestType /\ ControlType
  BY DEF LogInv, IInv
<1>2. CASE LaunchWorkerThread
  <2>1. id' \in [Worker -> Worker \cup {Uninitialized}]
    <3>1. PICK w : id' = [id EXCEPT ![w] = IF Inline(w) THEN main_id ELSE Uninitialized]
      BY <1>2 DEF LaunchWorkerThread
    <3> QED
      BY <1>1, <3>1 DEF ControlType
  <2> QED
    BY <1>1, <1>2, <2>1 DEF LaunchWorkerThread, env, barrier, program, logging
<1>3. CASE InlineReturns \/ Worker0Wait \/ Output
  BY <1>1, <1>3 DEF InlineReturns, Worker0Wait, Output, env, thread, barrier, program, logging
<1>4. ASSUME NEW w \in Worker, InitializeWorker(w) PROVE RestType'
  BY <1>1, <1>4 DEF InitializeWorker, env, barrier, program, logging
<1>5. ASSUME NEW w \in Worker, PinCallingWorker(w) PROVE RestType'
  BY <1>1, <1>5 DEF PinCallingWorker, env, barrier, program, logging
<1>6. ASSUME NEW w \in Worker, EnterAcquire(w) \/ LeaveAcquire(w) PROVE RestType'
  BY <1>1, <1>6 DEF EnterAcquire, LeaveAcquire, Push, env, thread, barrier, program, logging
<1>7. ASSUME NEW w \in Worker, Steal(w) PROVE RestType'
  BY <1>1, <1>7, BoundsAre DEF Steal, Push, env, thread, barrier
<1>8. ASSUME NEW w \in Worker, EndPiece(w) \/ BeforeBench(w) \/ AfterBench(w) \/ Terminal(w)
      PROVE  RestType'
  BY <1>1, <1>8 DEF EndPiece, BeforeBench, AfterBench, Terminal, Push, env, thread,
                    barrier, logging
<1>9. ASSUME NEW w \in Worker,
             LockAndCount(w) \/ NotifyOne(w) \/ Unlock(w) \/ NotifyExit(w) \/ TestPredicate
      PROVE  RestType'
  BY <1>1, <1>9 DEF LockAndCount, NotifyOne, Unlock, NotifyExit, TestPredicate,
                    env, thread, program, logging
<1>10. CASE Woken \/ SpuriousWakeUp
  <2>1. UNCHANGED <<pinned, id, stage, busy, should_terminate, steals, time>>
    BY <1>10 DEF Woken, SpuriousWakeUp, WakeUp, env, thread, program, logging
  <2>2. waiting' = FALSE /\ signal' = FALSE
    BY <1>10 DEF Woken, SpuriousWakeUp, WakeUp
  <2>3. spurious' \in 0..MaxSpurious
    BY <1>1, <1>10, BoundsAre DEF Woken, SpuriousWakeUp
  <2> QED
    BY <1>1, <2>1, <2>2, <2>3
<1>11. CASE Tick \/ UNCHANGED vars
  BY <1>1, <1>11, BoundsAre DEF Tick, vars, env, thread, barrier, program, logging
<1> QED
  BY <1>2, <1>3, <1>4, <1>5, <1>6, <1>7, <1>8, <1>9, <1>10, <1>11
     DEF Next, MainStep, WorkerStep

(* A step that logs nothing and begins or ends no search. *)
LEMMA SilentStep ==
  ASSUME IInv, LogInv, RestType', logs' = logs, output' = output, steals' = steals,
         time <= time', main' = "end" <=> main = "end",
         \/ pc' = pc
         \/ \E w \in Worker : \E to :
              /\ pc' = [pc EXCEPT ![w] = to]
              /\ {pc[w], to} \cap Searching = {} \/ {pc[w], to} \subseteq Left
  PROVE  LogInv'
<1>1. LogType'
  <2>1. time \in Int /\ time' \in Int
    BY BoundsAre DEF LogInv, RestType
  <2>2. ASSUME NEW w \in Worker, NEW k \in 1..Len(logs[w])
        PROVE  logs[w][k].timestamp <= time'
    <3>1. logs[w][k].timestamp <= time /\ logs[w][k].timestamp \in Int
      <4>1. logs[w][k] \in Events
        BY DEF LogInv, LogType
      <4> QED
        BY <4>1, EventsHaveTimes DEF LogInv, LogType
    <3> QED
      BY <2>1, <3>1
  <2> QED
    BY <2>2 DEF LogInv, LogType, InOrder
<1>2. /\ Waits("enter_wait")' = Waits("enter_wait")
      /\ Waits("exit_wait")' = Waits("exit_wait")
  BY DEF Waits
<1>3. \A S \in {{"acquire"}, Searching, Left} :
        /\ Cardinality(Being(S))' = Cardinality(Being(S))
        /\ Being(S)' = Being(S)
  <2>1. CASE pc' = pc
    BY <2>1 DEF Being
  <2>2. ASSUME NEW w \in Worker, NEW to, pc' = [pc EXCEPT ![w] = to],
               \/ {pc[w], to} \cap Searching = {}
               \/ {pc[w], to} \subseteq Left
        PROVE  \A S \in {{"acquire"}, Searching, Left} : Being(S)' = Being(S)
    <3>1. pc'[w] = to /\ \A v \in Worker \ {w} : pc'[v] = pc[v]
      BY <2>2 DEF IInv, ControlType
    <3>2. \A S \in {{"acquire"}, Searching, Left} : pc[w] \in S <=> to \in S
      BY <2>2 DEF Searching, Left
    <3> QED
      BY <3>1, <3>2 DEF Being
  <2> QED
    BY <2>1, <2>2
<1>4. WaitsCounted'
  BY <1>2, <1>3 DEF WaitsCounted, LogInv
<1>5. OutputIs'
  BY DEF OutputIs, LogInv
<1> QED
  BY <1>1, <1>4, <1>5 DEF LogInv

(* A step of a worker in its loop that logs. *)
LEMMA LoggingStep ==
  ASSUME IInv, LogInv, RestType', NEW w \in Worker,
         \/ EnterAcquire(w) \/ Steal(w) \/ LeaveAcquire(w)
         \/ BeforeBench(w) \/ AfterBench(w)
  PROVE  LogInv'
<1>1. pc[w] \in {"loop", "acquire"} /\ id[w] = w /\ main' = main /\ main # "end"
  <2>1. pc[w] \in {"loop", "acquire"} /\ main' = main
    BY DEF EnterAcquire, Steal, LeaveAcquire, BeforeBench, AfterBench, Step, control
  <2>2. main = "end" => pc[w] = "gone"
    <3>1. platform = "linux" /\ w # 0 => (pc[0] = "gone" => pc[w] = "gone")
      BY DEF IInv, LinuxBarrier
    <3> QED
      BY <3>1 DEF IInv, LinuxBarrier, NautilusBarrier
  <2> QED
    BY <2>1, <2>2 DEF IInv, OwnStorage
<1>2. ControlType /\ LogType /\ WaitsCounted /\ RestType /\ OutputIs
  BY DEF IInv, LogInv
<1>3. /\ Cardinality(Being(Searching)) \in Nat /\ Cardinality(Being(Left)) \in Nat
      /\ steals \in Int
  BY <1>2, BeingIsFinite, BoundsAre DEF RestType
<1>4. CASE nb_workers = 1 /\ EnterAcquire(w)
  <2>1. logs' = logs /\ output' = output /\ time' = time /\ steals' = steals
        /\ pc' = [pc EXCEPT ![w] = "exit"] /\ pc[w] = "loop"
    BY <1>4 DEF EnterAcquire, Step, logging, program
  <2>2. Being({"acquire"})' = {}
    BY <1>2, <1>4, <2>1 DEF WaitsCounted, Being, ControlType
  <2>3. LogType' /\ WaitsCounted' /\ OutputIs'
    BY <1>1, <1>2, <1>4, <2>1, <2>2 DEF LogType, InOrder, WaitsCounted, Waits, OutputIs
  <2> QED
    BY <2>3 DEF LogInv
<1>5. CASE nb_workers # 1 /\ EnterAcquire(w)
  <2>1. /\ logs' = [logs EXCEPT ![w] = Append(@, Event(w, "enter_wait"))]
        /\ output' = output /\ time' = time /\ steals' = steals
        /\ pc' = [pc EXCEPT ![w] = "acquire"] /\ pc[w] = "loop"
    BY <1>1, <1>5 DEF EnterAcquire, Push, Step, program
  <2>2. /\ LogType' /\ Cardinality(Waits("enter_wait"))' = Cardinality(Waits("enter_wait")) + 1
        /\ Waits("exit_wait")' = Waits("exit_wait")
    BY <1>2, <2>1, PushStep DEF Tags, RestType
  <2>3. /\ Cardinality(Being(Searching))' = Cardinality(Being(Searching)) + 1
        /\ Cardinality(Being(Left))' = Cardinality(Being(Left))
    <3>1. "acquire" \in Searching /\ "loop" \notin Searching /\ "acquire" \notin Left /\ "loop" \notin Left
      BY DEF Searching, Left
    <3>2. \A S : Cardinality(Being(S))' = Cardinality(Being(S)) + (IF pc'[w] \in S THEN 1 ELSE 0)
                                            - (IF pc[w] \in S THEN 1 ELSE 0)
      BY <1>2, <2>1, BeingMoves DEF ControlType
    <3>3. pc'[w] = "acquire"
      BY <1>2, <2>1 DEF ControlType
    <3> QED
      BY <1>3, <2>1, <3>1, <3>2, <3>3
  <2>4. WaitsCounted'
    BY <1>2, <1>3, <1>5, <2>1, <2>2, <2>3 DEF WaitsCounted
  <2> QED
    BY <1>1, <1>2, <2>1, <2>2, <2>4 DEF LogInv, OutputIs
<1>6. CASE Steal(w)
  <2>1. /\ logs' = [logs EXCEPT ![w] = Append(@, Event(w, "exit_wait"))]
        /\ output' = output /\ time' = time /\ steals' = steals + 1
        /\ pc' = [pc EXCEPT ![w] = "loop"] /\ pc[w] = "acquire"
    BY <1>1, <1>6 DEF Steal, Push, Step
  <2>2. /\ LogType' /\ Cardinality(Waits("exit_wait"))' = Cardinality(Waits("exit_wait")) + 1
        /\ Waits("enter_wait")' = Waits("enter_wait")
    BY <1>2, <2>1, PushStep DEF Tags, RestType
  <2>3. /\ Cardinality(Being(Searching))' = Cardinality(Being(Searching)) - 1
        /\ Cardinality(Being(Left))' = Cardinality(Being(Left))
    <3>1. "acquire" \in Searching /\ "loop" \notin Searching /\ "acquire" \notin Left /\ "loop" \notin Left
      BY DEF Searching, Left
    <3>2. \A S : Cardinality(Being(S))' = Cardinality(Being(S)) + (IF pc'[w] \in S THEN 1 ELSE 0)
                                            - (IF pc[w] \in S THEN 1 ELSE 0)
      BY <1>2, <2>1, BeingMoves DEF ControlType
    <3>3. pc'[w] = "loop"
      BY <1>2, <2>1 DEF ControlType
    <3> QED
      BY <1>3, <2>1, <3>1, <3>2, <3>3
  <2>4. nb_workers # 1
    BY <1>2, <2>1 DEF WaitsCounted, Being
  <2>5. WaitsCounted'
    BY <1>2, <1>3, <2>1, <2>2, <2>3, <2>4 DEF WaitsCounted
  <2> QED
    BY <1>1, <1>2, <2>1, <2>2, <2>5 DEF LogInv, OutputIs
<1>7. CASE LeaveAcquire(w)
  <2>1. /\ logs' = [logs EXCEPT ![w] = Append(@, Event(w, "exit_wait"))]
        /\ output' = output /\ time' = time /\ steals' = steals
        /\ pc' = [pc EXCEPT ![w] = "exit"] /\ pc[w] = "acquire"
    BY <1>1, <1>7 DEF LeaveAcquire, Push, Step, program
  <2>2. /\ LogType' /\ Cardinality(Waits("exit_wait"))' = Cardinality(Waits("exit_wait")) + 1
        /\ Waits("enter_wait")' = Waits("enter_wait")
    BY <1>2, <2>1, PushStep DEF Tags, RestType
  <2>3. /\ Cardinality(Being(Searching))' = Cardinality(Being(Searching))
        /\ Cardinality(Being(Left))' = Cardinality(Being(Left)) + 1
    <3>1. "acquire" \in Searching /\ "exit" \in Searching /\ "acquire" \notin Left /\ "exit" \in Left
      BY DEF Searching, Left
    <3>2. \A S : Cardinality(Being(S))' = Cardinality(Being(S)) + (IF pc'[w] \in S THEN 1 ELSE 0)
                                            - (IF pc[w] \in S THEN 1 ELSE 0)
      BY <1>2, <2>1, BeingMoves DEF ControlType
    <3>3. pc'[w] = "exit"
      BY <1>2, <2>1 DEF ControlType
    <3> QED
      BY <1>3, <2>1, <3>1, <3>2, <3>3
  <2>4. nb_workers # 1
    BY <1>2, <2>1 DEF WaitsCounted, Being
  <2>5. WaitsCounted'
    BY <1>2, <1>3, <2>1, <2>2, <2>3, <2>4 DEF WaitsCounted
  <2> QED
    BY <1>1, <1>2, <2>1, <2>2, <2>5 DEF LogInv, OutputIs
<1>8. CASE BeforeBench(w) \/ AfterBench(w)
  <2>1. PICK tag \in {"enter_algo", "exit_algo"} :
          /\ logs' = [logs EXCEPT ![w] = Append(@, Event(w, tag))]
          /\ output' = output /\ time' = time /\ steals' = steals /\ pc' = pc
    BY <1>1, <1>8 DEF BeforeBench, AfterBench, Push, Step
  <2>2. /\ LogType' /\ Waits("exit_wait")' = Waits("exit_wait")
        /\ Waits("enter_wait")' = Waits("enter_wait")
    BY <1>2, <2>1, PushStep DEF Tags, RestType
  <2>3. WaitsCounted'
    BY <1>2, <2>1, <2>2 DEF WaitsCounted, Being
  <2> QED
    BY <1>1, <1>2, <2>1, <2>2, <2>3 DEF LogInv, OutputIs
<1> QED
  BY <1>4, <1>5, <1>6, <1>7, <1>8

LEMMA OutputStep ==
  ASSUME IInv, LogInv, RestType', Output
  PROVE  LogInv'
<1>1. /\ logs' = [logs EXCEPT ![main_id] = Append(@, Event(main_id, "exit_launch"))]
      /\ output' = Merged(logs') /\ main' = "end"
      /\ time' = time /\ steals' = steals /\ pc' = pc /\ main_id \in Worker
  BY DEF Output, program, IInv, ControlType
<1>2. /\ LogType' /\ Waits("exit_wait")' = Waits("exit_wait")
      /\ Waits("enter_wait")' = Waits("enter_wait")
  BY <1>1, PushStep DEF Tags, RestType, LogInv
<1>3. WaitsCounted'
  BY <1>1, <1>2 DEF WaitsCounted, Being, LogInv
<1> QED
  BY <1>1, <1>2, <1>3 DEF LogInv, OutputIs

LEMMA StepLog == IInv /\ LogInv /\ [Next]_vars => LogInv'
<1> SUFFICES ASSUME IInv, LogInv, [Next]_vars PROVE LogInv'
  OBVIOUS
<1>1. RestType' /\ RestType /\ ControlType
  BY RestStep DEF LogInv, IInv
<1>2. time \in Int /\ time <= time
  BY <1>1, BoundsAre DEF RestType
<1>3. CASE LaunchWorkerThread
  <2>1. next \in 1..nb_workers /\ main = "launch"
    BY <1>1, <1>3 DEF ControlType, LaunchWorkerThread
  <2>2. PICK w \in Worker : w = Launched(next)
    BY <2>1 DEF Launched, Worker
  <2>3. pc[w] = "unborn"
    BY <2>1, <2>2 DEF Launched, LaunchOrder, IInv
  <2>4. /\ pc' = [pc EXCEPT ![w] = "start"] /\ main' # "end"
        /\ logs' = logs /\ output' = output /\ steals' = steals /\ time' = time
    BY <1>3, <2>2 DEF LaunchWorkerThread, program, logging
  <2>5. {pc[w], "start"} \cap Searching = {}
    BY <2>3 DEF Searching, Left
  <2> QED
    BY <1>1, <1>2, <2>1, <2>4, <2>5, SilentStep
<1>4. CASE InlineReturns \/ Worker0Wait
  <2>1. /\ logs' = logs /\ output' = output /\ steals' = steals /\ time' = time
        /\ pc' = pc /\ main # "end" /\ main' # "end"
    BY <1>4 DEF InlineReturns, Worker0Wait, program, logging
  <2> QED
    BY <1>1, <1>2, <2>1, SilentStep
<1>5. CASE Output
  BY <1>1, <1>5, OutputStep
<1>6. ASSUME NEW w \in Worker, InitializeWorker(w) \/ PinCallingWorker(w) PROVE LogInv'
  <2>1. \E to \in {"pin", "loop"} :
          /\ pc' = [pc EXCEPT ![w] = to] /\ pc[w] \in {"start", "pin"}
          /\ logs' = logs /\ output' = output /\ steals' = steals /\ time' = time
          /\ main' = main
    BY <1>6 DEF InitializeWorker, PinCallingWorker, Step, program, logging, control
  <2>2. PICK to \in {"pin", "loop"} : pc' = [pc EXCEPT ![w] = to]
    BY <2>1
  <2>3. {pc[w], to} \cap Searching = {}
    BY <2>1 DEF Searching, Left
  <2> QED
    BY <1>1, <1>2, <2>1, <2>2, <2>3, SilentStep
<1>7. ASSUME NEW w \in Worker,
             \/ LockAndCount(w) \/ NotifyOne(w) \/ Unlock(w) \/ NotifyExit(w)
             \/ w = 0 /\ (TestPredicate \/ WakeUp)
      PROVE  LogInv'
  <2>1. \E to \in Left :
          /\ pc' = [pc EXCEPT ![w] = to] /\ pc[w] \in Left
          /\ logs' = logs /\ output' = output /\ steals' = steals /\ time' = time
          /\ main' = main
    BY <1>7 DEF LockAndCount, NotifyOne, Unlock, NotifyExit, TestPredicate, WakeUp, Step,
                program, logging, control, Left
  <2>2. PICK to \in Left : pc' = [pc EXCEPT ![w] = to]
    BY <2>1
  <2>3. {pc[w], to} \subseteq Left
    BY <2>1
  <2> QED
    BY <1>1, <1>2, <2>1, <2>2, <2>3, SilentStep
<1>8. ASSUME NEW w \in Worker, EndPiece(w) \/ Terminal(w) PROVE LogInv'
  <2>1. /\ logs' = logs /\ output' = output /\ steals' = steals /\ time' = time
        /\ pc' = pc /\ main' = main
    BY <1>8 DEF EndPiece, Terminal, logging, control
  <2> QED
    BY <1>1, <1>2, <2>1, SilentStep
<1>9. ASSUME NEW w \in Worker,
             \/ EnterAcquire(w) \/ Steal(w) \/ LeaveAcquire(w)
             \/ BeforeBench(w) \/ AfterBench(w)
      PROVE  LogInv'
  BY <1>1, <1>9, LoggingStep
<1>10. CASE Tick \/ UNCHANGED vars
  <2>1. /\ logs' = logs /\ output' = output /\ steals' = steals /\ time <= time'
        /\ pc' = pc /\ main' = main
    BY <1>2, <1>10 DEF Tick, vars, control, program, logging
  <2> QED
    BY <1>1, <2>1, SilentStep
<1> QED
  BY <1>3, <1>4, <1>5, <1>6, <1>7, <1>8, <1>9, <1>10, ZeroIsWorker
     DEF Next, MainStep, WorkerStep, Woken, SpuriousWakeUp

-----------------------------------------------------------------------------
(* Every variable keeps to its type, the merged log included. *)
THEOREM TypeCorrect == Spec => []TypeOK
<1>1. IInv /\ LogInv => TypeOK
  <2> SUFFICES ASSUME IInv, LogInv PROVE TypeOK
    OBVIOUS
  <2>1. lock \in Worker \cup {NoLock}
    BY DEF IInv, LinuxBarrier, NautilusBarrier
  <2>2. nb_workers_exited \in 0..nb_workers
    <3>1. Cardinality(Out) <= nb_workers
      BY OutIsFinite, FS_Subset DEF Out
    <3> QED
      BY <3>1, OutIsFinite DEF IInv, CountIsExact
  <2>3. output \in Seq(Events)
    BY MergedAre DEF LogInv, LogType, OutputIs
  <2> QED
    BY <2>1, <2>2, <2>3 DEF TypeOK, IInv, ControlType, LogInv, LogType, RestType
<1> QED
  BY <1>1, InitInv, StepInv, InitLog, StepLog, PTL DEF Spec

(* For any number of workers, of steals and of ticks of the clock: what    *)
(* output writes is sorted by time, has every event of every worker in its *)
(* order, and for every search for work its begin and its end.             *)
THEOREM OutputComplete == Spec => []OutputIsComplete
<1>1. IInv /\ LogInv => OutputIsComplete
  <2> SUFFICES ASSUME IInv, LogInv, main = "end" PROVE OutputIsComplete
    BY DEF OutputIsComplete
  <2>1. /\ output = Merged(logs) /\ logs \in [Worker -> Seq(Events)]
        /\ IsFiniteSet(Places(logs)) /\ \A w \in Worker : InOrder(logs, w)
    BY DEF LogInv, OutputIs, LogType
  <2>2. \A k \in 1..(Len(output) - 1) : output[k].timestamp <= output[k + 1].timestamp
    BY <2>1, MergedIsSorted
  <2>3. \A w \in Worker :
          LET own == {k \in DOMAIN output : output[k].worker_id = w} IN
            /\ Cardinality(own) = Len(logs[w])
            /\ \A k \in own : output[k] = logs[w][Cardinality({j \in own : j <= k})]
    <3> TAKE w \in Worker
    <3>1. LET merged == Merged(logs)
              own == {k \in DOMAIN merged : merged[k].worker_id = w}
          IN  /\ Cardinality(own) = Len(logs[w])
              /\ \A k \in own :
                   merged[k] = logs[w][Cardinality({j \in own : j <= k})]
      BY <2>1, MergedKeepsOrder
    <3> QED
      BY <2>1, <3>1
  <2>4. \A tag : Cardinality({k \in DOMAIN output : output[k].tag = tag})
                   = Cardinality(Waits(tag))
    <3> TAKE tag
    <3>1. {k \in DOMAIN output : output[k].tag = tag}
            = {k \in 1..Cardinality(Places(logs)) : Place(logs, k) \in Waits(tag)}
      BY <2>1, MergedAre DEF Waits
    <3>2. Waits(tag) \in SUBSET Places(logs)
      BY DEF Waits
    <3> QED
      BY <2>1, <3>1, <3>2, AsManyInMerged
  <2>5. \A w \in Worker : pc[w] = "gone"
    BY ZeroIsWorker DEF IInv, LinuxBarrier, NautilusBarrier
  <2>6. /\ Being(Searching) = Worker /\ Being(Left) = Worker
        /\ Cardinality(Worker) = nb_workers
    BY <2>5, OutIsFinite DEF Being, Searching, Left
  <2>7. \A tag \in {"enter_wait", "exit_wait"} :
          Cardinality({k \in DOMAIN output : output[k].tag = tag})
            = IF nb_workers = 1 THEN 0 ELSE nb_workers + steals
    <3>1. steals \in Int
      BY BoundsAre DEF LogInv, RestType
    <3>2. Cardinality({}) = 0
      BY FS_EmptySet
    <3>3. \A tag \in {"enter_wait", "exit_wait"} :
            Cardinality(Waits(tag)) = IF nb_workers = 1 THEN 0 ELSE nb_workers + steals
      <4>1. Cardinality(Being(Searching)) = nb_workers /\ Cardinality(Being(Left)) = nb_workers
        BY <2>6
      <4>2. CASE nb_workers = 1
        <5>1. Waits("enter_wait") = {} /\ Waits("exit_wait") = {}
          BY <4>2 DEF LogInv, WaitsCounted
        <5> QED
          BY <3>2, <4>2, <5>1
      <4>3. CASE nb_workers # 1
        <5>1. /\ Cardinality(Waits("enter_wait")) = steals + nb_workers
              /\ Cardinality(Waits("exit_wait")) = steals + nb_workers
          BY <4>1, <4>3 DEF LogInv, WaitsCounted
        <5> QED
          BY <3>1, <4>3, <5>1
      <4> QED
        BY <4>2, <4>3
    <3> QED
      BY <2>4, <3>3
  <2> QED
    BY <2>2, <2>3, <2>7 DEF OutputIsComplete
<1> QED
  BY <1>1, InitInv, StepInv, InitLog, StepLog, PTL DEF Spec
=============================================================================
