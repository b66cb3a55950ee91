---------------------------- MODULE StatsProofs ----------------------------
(***************************************************************************)
(* Proofs about Stats, for any number of workers and without the bounds on *)
(* time and forks: report prints the exact number of fibers and steals,    *)
(* and adds for each worker the time it has worked and been idle.          *)
(***************************************************************************)
EXTENDS Stats, Integers, TLAPS

USE FirstAssumption

-----------------------------------------------------------------------------
Pcs == {"work", "add_work", "left", "idle", "stole", "add_idle", "add_idle_sleep",
        "asleep", "back"}

Facts == [work : Nat, idle : Nat, fibers : Nat, steals : Nat]

(* The part of the state that the counters depend on. *)
CountType ==
  /\ pc \in [Worker -> Pcs] /\ busy \subseteq Worker /\ spare \in Nat
  /\ nb_fibers \in [Worker -> Nat] /\ nb_steals \in [Worker -> Nat]
  /\ truth \in [Worker -> Facts]

(* A thief between a steal and its increment. *)
Uncounted(w) == IF pc[w] = "stole" THEN 1 ELSE 0

(* A worker's counters lag behind by the steal it has not counted yet; it  *)
(* has a piece of the program while it does, so that nobody is alone.      *)
CountersFollow ==
  \A w \in Worker :
    /\ nb_fibers[w] = truth[w].fibers
    /\ nb_steals[w] + Uncounted(w) = truth[w].steals
    /\ pc[w] = "stole" => w \in busy

(* What report prints of a counter. *)
Total(counter) == FoldFunction(+, 0, counter)

(* Nothing is counted any more once report has added up the counters. *)
AddedUp ==
  stage \in {"reporting", "end"} =>
    /\ spare = 0 /\ \A w \in Worker : pc[w] # "stole"
    /\ shown = <<Total(nb_fibers), Total(nb_steals)>>

StatsInv == CountType /\ CountersFollow /\ AddedUp

LEMMA InitStats == Init => StatsInv
<1> SUFFICES ASSUME Init PROVE StatsInv
  OBVIOUS
<1>1. CountType
  BY DEF Init, CountType, Pcs, Facts, NoTime
<1>2. CountersFollow
  BY DEF Init, CountersFollow, Uncounted, NoTime
<1> QED
  BY <1>1, <1>2 DEF StatsInv, AddedUp, Init

(* A step that moves workers on without stealing or counting. *)
LEMMA MovesOn ==
  ASSUME StatsInv, NEW w \in Worker, NEW to \in Pcs \ {"stole"},
         pc' = [pc EXCEPT ![w] = to], pc[w] # "stole", UNCHANGED <<program, counters, history>>
  PROVE  StatsInv'
<1>1. /\ \A v \in Worker : pc'[v] = "stole" <=> pc[v] = "stole"
      /\ pc' \in [Worker -> Pcs]
  BY DEF StatsInv, CountType
<1>2. CountType'
  BY <1>1 DEF StatsInv, CountType, program, counters, history
<1>3. CountersFollow'
  BY <1>1 DEF StatsInv, CountersFollow, Uncounted, program, counters, history
<1>4. AddedUp'
  BY <1>1 DEF StatsInv, AddedUp, program, counters, history
<1> QED
  BY <1>2, <1>3, <1>4 DEF StatsInv

(* Time that passes is nothing to the counters. *)
LEMMA TickKeeps ==
  ASSUME StatsInv, Tick
  PROVE  StatsInv'
<1>1. /\ pc' = pc /\ nb_fibers' = nb_fibers /\ nb_steals' = nb_steals /\ shown' = shown
      /\ stage' = stage /\ busy' = busy /\ spare' = spare
  BY DEF Tick, program, counters
<1>2. ASSUME NEW w \in Worker
      PROVE  /\ truth'[w] \in Facts
             /\ truth'[w].fibers = truth[w].fibers /\ truth'[w].steals = truth[w].steals
  <2>1. PICK t, a, b : /\ t = truth[w] /\ a = [t EXCEPT !.work = t.work + 1]
                       /\ b = [t EXCEPT !.idle = t.idle + 1]
    OBVIOUS
  <2>2. t \in Facts
    BY <2>1 DEF StatsInv, CountType
  <2>3. a \in Facts /\ a.fibers = t.fibers /\ a.steals = t.steals
    BY <2>1, <2>2 DEF Facts
  <2>4. b \in Facts /\ b.fibers = t.fibers /\ b.steals = t.steals
    BY <2>1, <2>2 DEF Facts
  <2>5. truth'[w] = a \/ truth'[w] = b \/ truth'[w] = t
    BY <2>1 DEF Tick
  <2> QED
    BY <2>1, <2>2, <2>3, <2>4, <2>5
<1>3. CountType'
  <2>1. truth' = [w \in Worker |-> truth'[w]]
    BY DEF Tick
  <2>2. truth' \in [Worker -> Facts]
    BY <1>2, <2>1
  <2> QED
    BY <1>1, <2>2 DEF StatsInv, CountType
<1>4. CountersFollow'
  BY <1>1, <1>2 DEF StatsInv, CountersFollow, Uncounted
<1>5. AddedUp'
  BY <1>1 DEF StatsInv, AddedUp
<1> QED
  BY <1>3, <1>4, <1>5 DEF StatsInv

LEMMA ForkKeeps ==
  ASSUME StatsInv, NEW w \in Worker, Fork(w)
  PROVE  StatsInv'
<1>1. /\ pc' = pc /\ nb_steals' = nb_steals /\ stage' = stage /\ busy' = busy
      /\ spare' = spare + 1 /\ stage \notin {"reporting", "end"}
      /\ nb_fibers' = [nb_fibers EXCEPT ![w] = @ + 2]
      /\ truth' = [truth EXCEPT ![w].fibers = @ + 2]
  BY DEF Fork, Forking, increment, Counted
<1>2. /\ truth'[w] \in Facts /\ truth'[w].fibers = truth[w].fibers + 2
      /\ truth'[w].steals = truth[w].steals
      /\ truth' \in [Worker -> Facts] /\ \A v \in Worker \ {w} : truth'[v] = truth[v]
  <2>1. PICK t, a : t = truth[w] /\ a = [t EXCEPT !.fibers = t.fibers + 2]
    OBVIOUS
  <2>2. t \in Facts /\ truth \in [Worker -> Facts]
    BY <2>1 DEF StatsInv, CountType
  <2>3. a \in Facts /\ a.fibers = t.fibers + 2 /\ a.steals = t.steals
    BY <2>1, <2>2 DEF Facts
  <2>4. truth' = [truth EXCEPT ![w] = a]
    BY <1>1, <2>1, <2>2
  <2> QED
    BY <2>1, <2>2, <2>3, <2>4
<1>3. CountType'
  BY <1>1, <1>2 DEF StatsInv, CountType
<1>4. CountersFollow'
  BY <1>1, <1>2 DEF StatsInv, CountersFollow, Uncounted, CountType
<1>5. AddedUp'
  BY <1>1 DEF AddedUp
<1> QED
  BY <1>3, <1>4, <1>5 DEF StatsInv

(* There is nothing to steal after the report. *)
LEMMA StealKeeps ==
  ASSUME StatsInv, NEW w \in Worker, Steal(w)
  PROVE  StatsInv'
<1>1. /\ pc' = [pc EXCEPT ![w] = "stole"] /\ pc[w] = "idle"
      /\ nb_fibers' = nb_fibers /\ nb_steals' = nb_steals /\ stage' = stage
      /\ spare > 0 /\ spare' = spare - 1 /\ busy' = busy \cup {w}
      /\ truth' = [truth EXCEPT ![w].steals = @ + 1]
  BY DEF Steal, Goto, Counted, counters
<1>2. stage \notin {"reporting", "end"}
  BY <1>1 DEF StatsInv, AddedUp
<1>3. /\ truth'[w] \in Facts /\ truth'[w].steals = truth[w].steals + 1
      /\ truth'[w].fibers = truth[w].fibers
      /\ truth' \in [Worker -> Facts] /\ \A v \in Worker \ {w} : truth'[v] = truth[v]
  <2>1. PICK t, a : t = truth[w] /\ a = [t EXCEPT !.steals = t.steals + 1]
    OBVIOUS
  <2>2. t \in Facts /\ truth \in [Worker -> Facts]
    BY <2>1 DEF StatsInv, CountType
  <2>3. a \in Facts /\ a.fibers = t.fibers /\ a.steals = t.steals + 1
    BY <2>1, <2>2 DEF Facts
  <2>4. truth' = [truth EXCEPT ![w] = a]
    BY <1>1, <2>1, <2>2
  <2> QED
    BY <2>1, <2>2, <2>3, <2>4
<1>4. CountType'
  BY <1>1, <1>3 DEF StatsInv, CountType, Pcs
<1>5. CountersFollow'
  <2>1. pc'[w] = "stole" /\ \A v \in Worker \ {w} : pc'[v] = pc[v]
    BY <1>1 DEF StatsInv, CountType
  <2>2. Uncounted(w)' = 1 /\ Uncounted(w) = 0
    BY <1>1, <2>1 DEF Uncounted
  <2>3. \A v \in Worker \ {w} : Uncounted(v)' = Uncounted(v)
    BY <2>1 DEF Uncounted
  <2>4. nb_steals[w] \in Nat
    BY DEF StatsInv, CountType
  <2> QED
    BY <1>1, <1>3, <2>1, <2>2, <2>3, <2>4 DEF StatsInv, CountersFollow
<1>6. AddedUp'
  BY <1>1, <1>2 DEF AddedUp
<1> QED
  BY <1>4, <1>5, <1>6 DEF StatsInv

LEMMA CountsSteal ==
  ASSUME StatsInv, NEW w \in Worker, pc[w] = "stole", pc' = [pc EXCEPT ![w] = "add_idle"],
         nb_steals' = increment(nb_steals, w, 1), nb_fibers' = nb_fibers,
         UNCHANGED <<program, shown, history>>
  PROVE  StatsInv'
<1>1. /\ nb_steals' = [nb_steals EXCEPT ![w] = @ + 1] /\ truth' = truth /\ stage' = stage
      /\ busy' = busy /\ spare' = spare
  BY DEF increment, program, history
<1>2. CountType'
  BY <1>1 DEF StatsInv, CountType, Pcs
<1>3. CountersFollow'
  <2>1. pc'[w] = "add_idle" /\ \A v \in Worker \ {w} : pc'[v] = pc[v]
    BY DEF StatsInv, CountType
  <2>2. Uncounted(w)' = 0 /\ Uncounted(w) = 1
    BY <2>1 DEF Uncounted
  <2>3. \A v \in Worker \ {w} : Uncounted(v)' = Uncounted(v)
    BY <2>1 DEF Uncounted
  <2>4. /\ nb_steals[w] \in Nat /\ nb_steals'[w] = nb_steals[w] + 1
        /\ \A v \in Worker \ {w} : nb_steals'[v] = nb_steals[v]
    BY <1>1 DEF StatsInv, CountType
  <2> QED
    BY <1>1, <2>1, <2>2, <2>3, <2>4 DEF StatsInv, CountersFollow
<1>4. AddedUp'
  BY <1>1 DEF StatsInv, AddedUp
<1> QED
  BY <1>2, <1>3, <1>4 DEF StatsInv

(* Who is alone has no thief behind it. *)
LEMMA AloneFacts ==
  ASSUME StatsInv, NEW w \in Worker, Alone(w)
  PROVE  spare = 0 /\ \A v \in Worker : pc[v] # "stole" /\ Uncounted(v) = 0
<1>1. \A v \in Worker : pc[v] = "stole" => v = w
  BY DEF Alone, StatsInv, CountersFollow
<1> QED
  BY <1>1 DEF Alone, Uncounted

LEMMA StartCollectingKeeps ==
  ASSUME StatsInv, NEW w \in Worker, StartCollecting(w)
  PROVE  StatsInv'
<1>1. /\ pc' = pc /\ busy' = busy /\ spare' = spare /\ stage' = "collecting"
      /\ nb_fibers' = [v \in Worker |-> 0] /\ nb_steals' = [v \in Worker |-> 0]
      /\ truth' = [v \in Worker |-> [truth[v] EXCEPT !.fibers = 0, !.steals = 0]]
  BY DEF StartCollecting
<1>2. \A v \in Worker : pc[v] # "stole" /\ Uncounted(v) = 0
  BY AloneFacts DEF StartCollecting
<1>3. ASSUME NEW v \in Worker
      PROVE  truth'[v] \in Facts /\ truth'[v].fibers = 0 /\ truth'[v].steals = 0
  <2>1. PICK t : t = truth[v]
    OBVIOUS
  <2>2. t \in Facts
    BY <2>1 DEF StatsInv, CountType
  <2>3. PICK a, b : a = [t EXCEPT !.fibers = 0] /\ b = [a EXCEPT !.steals = 0]
    OBVIOUS
  <2>4. a \in Facts /\ a.fibers = 0
    BY <2>2, <2>3 DEF Facts
  <2>5. b \in Facts /\ b.fibers = 0 /\ b.steals = 0
    BY <2>3, <2>4 DEF Facts
  <2>6. truth'[v] = b
    BY <1>1, <2>1, <2>3
  <2> QED
    BY <2>5, <2>6
<1>4. CountType'
  <2>1. truth' = [v \in Worker |-> truth'[v]]
    BY <1>1
  <2>2. truth' \in [Worker -> Facts]
    BY <1>3, <2>1
  <2> QED
    BY <1>1, <2>2 DEF StatsInv, CountType
<1>5. CountersFollow'
  <2> SUFFICES ASSUME NEW v \in Worker
               PROVE  /\ nb_fibers'[v] = truth'[v].fibers
                      /\ nb_steals'[v] + Uncounted(v)' = truth'[v].steals
                      /\ pc'[v] = "stole" => v \in busy'
    BY DEF CountersFollow
  <2>1. pc'[v] # "stole" /\ Uncounted(v)' = 0
    BY <1>1, <1>2 DEF Uncounted
  <2>2. nb_fibers'[v] = 0 /\ nb_steals'[v] = 0
    BY <1>1
  <2> QED
    BY <1>3, <2>1, <2>2
<1>6. AddedUp'
  BY <1>1 DEF AddedUp
<1> QED
  BY <1>4, <1>5, <1>6 DEF StatsInv

(* The times that are reset are not counted ones. *)
LEMMA CollectTimersKeeps ==
  ASSUME StatsInv, NEW w \in Worker, NEW u \in Worker, CollectTimers(w, u)
  PROVE  StatsInv'
<1>1. /\ pc' = pc /\ busy' = busy /\ spare' = spare /\ stage' \in {"collecting", "body"}
      /\ nb_fibers' = nb_fibers /\ nb_steals' = nb_steals
      /\ truth' = [truth EXCEPT ![u].work = 0, ![u].idle = 0]
  BY DEF CollectTimers, counters
<1>2. /\ truth' \in [Worker -> Facts]
      /\ \A v \in Worker : /\ truth'[v].fibers = truth[v].fibers
                           /\ truth'[v].steals = truth[v].steals
  <2>1. PICK t, a : t = truth[u] /\ a = [[t EXCEPT !.work = 0] EXCEPT !.idle = 0]
    OBVIOUS
  <2>2. t \in Facts /\ truth \in [Worker -> Facts]
    BY <2>1 DEF StatsInv, CountType
  <2>3. a \in Facts /\ a.fibers = t.fibers /\ a.steals = t.steals
    BY <2>1, <2>2 DEF Facts
  <2>4. truth' = [truth EXCEPT ![u] = a]
    BY <1>1, <2>1, <2>2
  <2> QED
    BY <2>1, <2>2, <2>3, <2>4
<1>3. CountType'
  BY <1>1, <1>2 DEF StatsInv, CountType
<1>4. CountersFollow'
  BY <1>1, <1>2 DEF StatsInv, CountersFollow, Uncounted
<1>5. AddedUp'
  BY <1>1 DEF AddedUp
<1> QED
  BY <1>3, <1>4, <1>5 DEF StatsInv

(* report adds up while its worker is alone. *)
LEMMA ReportKeeps ==
  ASSUME StatsInv, NEW w \in Worker, Report(w)
  PROVE  StatsInv'
<1>1. /\ pc' = pc /\ busy' = busy /\ spare' = spare /\ truth' = truth
      /\ nb_fibers' = nb_fibers /\ nb_steals' = nb_steals
  BY DEF Report, history
<1>2. spare = 0 /\ \A v \in Worker : pc[v] # "stole"
  BY AloneFacts DEF Report
<1>3. shown' = <<Total(nb_fibers), Total(nb_steals)>>
  BY DEF Report, Total
<1>4. CountType'
  BY <1>1 DEF StatsInv, CountType
<1>5. CountersFollow'
  BY <1>1 DEF StatsInv, CountersFollow, Uncounted
<1>6. AddedUp'
  BY <1>1, <1>2, <1>3 DEF AddedUp
<1> QED
  BY <1>4, <1>5, <1>6 DEF StatsInv

(* A step that touches neither workers, counters nor history; the program  *)
(* may lose pieces, and reach its end. *)
LEMMA WindsDown ==
  ASSUME StatsInv, UNCHANGED <<pc, counters, history>>, busy' \subseteq busy,
         \A w \in Worker : pc[w] = "stole" => (w \in busy => w \in busy'),
         spare' \in Nat, spare' <= spare,
         stage' = stage \/ (stage = "reporting" /\ stage' = "end")
  PROVE  StatsInv'
<1>1. CountType'
  BY DEF StatsInv, CountType, counters, history
<1>2. CountersFollow'
  BY DEF StatsInv, CountersFollow, Uncounted, counters, history
<1>3. AddedUp'
  BY DEF StatsInv, CountType, AddedUp, counters
<1> QED
  BY <1>1, <1>2, <1>3 DEF StatsInv

LEMMA StepKeeps ==
  ASSUME StatsInv, [Next]_vars
  PROVE  StatsInv'
<1>1. CASE UNCHANGED vars
  <2>1. UNCHANGED <<pc, counters, history>> /\ busy' = busy /\ spare' = spare /\ stage' = stage
    BY <1>1 DEF vars, program
  <2> QED
    BY <2>1, WindsDown DEF StatsInv, CountType
<1>2. ASSUME NEW w \in Worker, Take(w) \/ EndPiece(w)
      PROVE  StatsInv'
  <2>1. /\ UNCHANGED <<pc, counters, history>> /\ stage' = stage /\ busy' \subseteq busy
        /\ \A v \in Worker : pc[v] = "stole" => (v \in busy => v \in busy')
        /\ spare' = spare \/ (spare > 0 /\ spare' = spare - 1)
    BY <1>2 DEF Take, EndPiece
  <2>2. spare' \in Nat /\ spare' <= spare
    BY <2>1 DEF StatsInv, CountType
  <2> QED
    BY <2>1, <2>2, WindsDown
<1>3. ASSUME NEW w \in Worker, NEW v \in Worker, ReportTimers(w, v)
      PROVE  StatsInv'
  <2>1. /\ UNCHANGED <<pc, counters, history>> /\ busy' = busy /\ spare' = spare
        /\ stage = "reporting" /\ stage' \in {"reporting", "end"}
    BY <1>3 DEF ReportTimers
  <2> QED
    BY <2>1, WindsDown DEF StatsInv, CountType
<1>4. ASSUME NEW w \in Worker, OnExitWork(w) \/ AddWork(w) \/ OnEnterAcquire(w)
                               \/ AddIdle(w) \/ OnEnterWork(w)
      PROVE  StatsInv'
  <2>1. PICK to \in Pcs \ {"stole"} : pc' = [pc EXCEPT ![w] = to] /\ pc[w] # "stole"
    BY <1>4 DEF OnExitWork, AddWork, OnEnterAcquire, AddIdle, OnEnterWork, Goto, Pcs
  <2>2. UNCHANGED <<program, counters, history>>
    BY <1>4 DEF OnExitWork, AddWork, OnEnterAcquire, AddIdle, OnEnterWork
  <2> QED
    BY <2>1, <2>2, MovesOn
<1>5. ASSUME NEW w \in Worker, OnExitAcquire(w)
      PROVE  StatsInv'
  <2>1. nb_fibers' = nb_fibers /\ UNCHANGED <<program, shown, history>>
    BY <1>5 DEF OnExitAcquire
  <2>2. CASE Goto(w, "stole", "add_idle") /\ nb_steals' = increment(nb_steals, w, 1)
    BY <2>1, <2>2, CountsSteal DEF Goto
  <2>3. CASE Goto(w, "idle", "add_idle_sleep") /\ nb_steals' = nb_steals
    <3>1. UNCHANGED <<program, counters, history>>
      BY <2>1, <2>3 DEF counters
    <3> QED
      BY <2>3, <3>1, MovesOn DEF Goto, Pcs
  <2> QED
    BY <1>5, <2>2, <2>3 DEF OnExitAcquire
<1> QED
  BY <1>1, <1>2, <1>3, <1>4, <1>5, TickKeeps, ForkKeeps, StealKeeps, StartCollectingKeeps,
     CollectTimersKeeps, ReportKeeps DEF Next

LEMMA InvCounts == StatsInv => CountsAreExact
<1> SUFFICES ASSUME StatsInv, stage \in {"reporting", "end"}
             PROVE  shown = <<FoldFunction(+, 0, [w \in Worker |-> truth[w].fibers]),
                              FoldFunction(+, 0, [w \in Worker |-> truth[w].steals])>>
  BY DEF CountsAreExact
<1>1. nb_fibers = [w \in Worker |-> truth[w].fibers]
  BY DEF StatsInv, CountType, CountersFollow
<1>2. nb_steals = [w \in Worker |-> truth[w].steals]
  <2>1. \A w \in Worker : nb_steals[w] = truth[w].steals
    BY DEF StatsInv, CountType, CountersFollow, AddedUp, Uncounted
  <2> QED
    BY <2>1 DEF StatsInv, CountType
<1>3. shown = <<Total(nb_fibers), Total(nb_steals)>>
  BY DEF StatsInv, AddedUp
<1>4. shown = <<Total([w \in Worker |-> truth[w].fibers]), Total([w \in Worker |-> truth[w].steals])>>
  BY <1>1, <1>2, <1>3
<1> QED
  BY <1>4 DEF Total

(* report finds every fork2 and every steal between start_collecting and   *)
(* itself, and no other, for any number of workers.                        *)
THEOREM CountsExact == Spec => []CountsAreExact
<1>1. Init => StatsInv
  BY InitStats
<1>2. StatsInv /\ [Next]_vars => StatsInv'
  BY StepKeeps
<1>3. StatsInv => CountsAreExact
  BY InvCounts
<1> QED
  BY <1>1, <1>2, <1>3, PTL DEF Spec

-----------------------------------------------------------------------------
(* The times                                                               *)

TimeType ==
  /\ now \in Nat /\ pc \in [Worker -> Pcs] /\ truth \in [Worker -> Facts]
  /\ start_work \in [Worker -> Int] /\ total_work_time \in [Worker -> Int]
  /\ start_idle \in [Worker -> Int] /\ total_idle_time \in [Worker -> Int]
  /\ register \in [Worker -> Int]

(* Where the time is that a worker has worked, and been idle, since the    *)
(* reset: in the timer, partly still running, or in a register on its way. *)
WorkIsTrue(v) ==
  truth[v].work = IF pc[v] = "work" THEN total_work_time[v] + (now - start_work[v])
                  ELSE IF pc[v] = "add_work" THEN register[v]
                  ELSE total_work_time[v]

IdleIsTrue(v) ==
  truth[v].idle = IF pc[v] \in {"idle", "stole"}
                  THEN total_idle_time[v] + (now - start_idle[v])
                  ELSE IF pc[v] \in {"add_idle", "add_idle_sleep"} THEN register[v]
                  ELSE total_idle_time[v]

(* report has added the running period, which goes on all the same. *)
Reported(v) == stage \in {"reporting", "end"} /\ v \in done

TimersFollow ==
  \A v \in Worker : ~ Reported(v) /\ v \notin torn => WorkIsTrue(v) /\ IdleIsTrue(v)

TimesInv == TimeType /\ TimersFollow

LEMMA InitTimes == Init => TimesInv
<1> SUFFICES ASSUME Init PROVE TimesInv
  OBVIOUS
<1>1. TimeType
  BY DEF Init, TimeType, Pcs, Facts, NoTime
<1>2. TimersFollow
  BY DEF Init, TimersFollow, WorkIsTrue, IdleIsTrue, NoTime
<1> QED
  BY <1>1, <1>2 DEF TimesInv

SameTruth(v) == truth'[v].work = truth[v].work /\ truth'[v].idle = truth[v].idle

SameTimers(v) ==
  /\ start_work'[v] = start_work[v] /\ total_work_time'[v] = total_work_time[v]
  /\ start_idle'[v] = start_idle[v] /\ total_idle_time'[v] = total_idle_time[v]
  /\ register'[v] = register[v]

LEMMA SameTimes ==
  ASSUME NEW v \in Worker, now' = now, pc'[v] = pc[v], SameTruth(v), SameTimers(v)
  PROVE  (WorkIsTrue(v)' <=> WorkIsTrue(v)) /\ (IdleIsTrue(v)' <=> IdleIsTrue(v))
BY DEF WorkIsTrue, IdleIsTrue, SameTruth, SameTimers

(* A step that has nothing to do with time. *)
LEMMA TimelessStep ==
  ASSUME TimesInv, now' = now, pc' = pc, UNCHANGED timers, torn' = torn,
         truth' \in [Worker -> Facts], \A v \in Worker : SameTruth(v),
         \A v \in Worker : Reported(v) => Reported(v)'
  PROVE  TimesInv'
<1>1. TimeType'
  BY DEF TimesInv, TimeType, timers
<1>2. \A v \in Worker : SameTimers(v)
  BY DEF SameTimers, timers
<1>3. TimersFollow'
  BY <1>2, SameTimes DEF TimesInv, TimersFollow
<1> QED
  BY <1>1, <1>3 DEF TimesInv

(* A step in which the worker w stops or starts a clock. *)
LEMMA OwnTimeStep ==
  ASSUME TimesInv, NEW w \in Worker, now' = now, stage' = stage, done' = done, torn' = torn,
         truth' \in [Worker -> Facts], \A v \in Worker : SameTruth(v),
         \A v \in Worker \ {w} : pc'[v] = pc[v] /\ SameTimers(v), TimeType',
         WorkIsTrue(w) => WorkIsTrue(w)', IdleIsTrue(w) => IdleIsTrue(w)'
  PROVE  TimesInv'
<1>1. \A v \in Worker \ {w} : /\ WorkIsTrue(v)' <=> WorkIsTrue(v)
                              /\ IdleIsTrue(v)' <=> IdleIsTrue(v)
  BY SameTimes
<1>2. \A v \in Worker : WorkIsTrue(v) /\ IdleIsTrue(v) => WorkIsTrue(v)' /\ IdleIsTrue(v)'
  BY <1>1
<1>3. \A v \in Worker : Reported(v)' <=> Reported(v)
  BY DEF Reported
<1> QED
  BY <1>2, <1>3 DEF TimesInv, TimersFollow

LEMMA OnExitWorkTimes ==
  ASSUME TimesInv, NEW w \in Worker, OnExitWork(w)
  PROVE  TimesInv'
<1>1. /\ pc[w] = "work" /\ pc' = [pc EXCEPT ![w] = "add_work"]
      /\ register' = [register EXCEPT ![w] = total_work_time[w] + (now - start_work[w])]
      /\ start_work' = start_work /\ total_work_time' = total_work_time
      /\ start_idle' = start_idle /\ total_idle_time' = total_idle_time
      /\ now' = now /\ stage' = stage /\ done' = done /\ torn' = torn /\ truth' = truth
  BY DEF OnExitWork, Goto, program, history
<1>2. TimeType'
  BY <1>1 DEF TimesInv, TimeType, Pcs
<1>3. /\ pc'[w] = "add_work" /\ register'[w] = total_work_time[w] + (now - start_work[w])
      /\ \A v \in Worker \ {w} : pc'[v] = pc[v] /\ register'[v] = register[v]
  BY <1>1 DEF TimesInv, TimeType
<1>4. (WorkIsTrue(w) => WorkIsTrue(w)') /\ (IdleIsTrue(w) => IdleIsTrue(w)')
  BY <1>1, <1>3 DEF WorkIsTrue, IdleIsTrue
<1>5. truth' \in [Worker -> Facts] /\ \A v \in Worker : SameTruth(v)
  BY <1>1, <1>2 DEF SameTruth, TimeType
<1>6. \A v \in Worker \ {w} : pc'[v] = pc[v] /\ SameTimers(v)
  BY <1>1, <1>3 DEF SameTimers
<1> QED
  BY <1>1, <1>2, <1>4, <1>5, <1>6, OwnTimeStep

LEMMA AddWorkTimes ==
  ASSUME TimesInv, NEW w \in Worker, AddWork(w)
  PROVE  TimesInv'
<1>1. /\ pc[w] = "add_work" /\ pc' = [pc EXCEPT ![w] = "left"]
      /\ total_work_time' = [total_work_time EXCEPT ![w] = register[w]]
      /\ start_work' = start_work /\ register' = register
      /\ start_idle' = start_idle /\ total_idle_time' = total_idle_time
      /\ now' = now /\ stage' = stage /\ done' = done /\ torn' = torn /\ truth' = truth
  BY DEF AddWork, Goto, program, history
<1>2. TimeType'
  BY <1>1 DEF TimesInv, TimeType, Pcs
<1>3. /\ pc'[w] = "left" /\ total_work_time'[w] = register[w]
      /\ \A v \in Worker \ {w} : pc'[v] = pc[v] /\ total_work_time'[v] = total_work_time[v]
  BY <1>1 DEF TimesInv, TimeType
<1>4. (WorkIsTrue(w) => WorkIsTrue(w)') /\ (IdleIsTrue(w) => IdleIsTrue(w)')
  BY <1>1, <1>3 DEF WorkIsTrue, IdleIsTrue
<1>5. truth' \in [Worker -> Facts] /\ \A v \in Worker : SameTruth(v)
  BY <1>1, <1>2 DEF SameTruth, TimeType
<1>6. \A v \in Worker \ {w} : pc'[v] = pc[v] /\ SameTimers(v)
  BY <1>1, <1>3 DEF SameTimers
<1> QED
  BY <1>1, <1>2, <1>4, <1>5, <1>6, OwnTimeStep

LEMMA OnEnterAcquireTimes ==
  ASSUME TimesInv, NEW w \in Worker, OnEnterAcquire(w)
  PROVE  TimesInv'
<1>1. /\ pc[w] \in {"left", "asleep"} /\ pc' = [pc EXCEPT ![w] = "idle"]
      /\ start_idle' = [start_idle EXCEPT ![w] = now]
      /\ start_work' = start_work /\ total_work_time' = total_work_time
      /\ total_idle_time' = total_idle_time /\ register' = register
      /\ now' = now /\ stage' = stage /\ done' = done /\ torn' = torn /\ truth' = truth
  BY DEF OnEnterAcquire, Goto, program, history
<1>2. TimeType'
  BY <1>1 DEF TimesInv, TimeType, Pcs
<1>3. /\ pc'[w] = "idle" /\ start_idle'[w] = now /\ now \in Nat /\ total_idle_time[w] \in Int
      /\ \A v \in Worker \ {w} : pc'[v] = pc[v] /\ start_idle'[v] = start_idle[v]
  BY <1>1 DEF TimesInv, TimeType
<1>4. (WorkIsTrue(w) => WorkIsTrue(w)') /\ (IdleIsTrue(w) => IdleIsTrue(w)')
  BY <1>1, <1>3 DEF WorkIsTrue, IdleIsTrue
<1>5. truth' \in [Worker -> Facts] /\ \A v \in Worker : SameTruth(v)
  BY <1>1, <1>2 DEF SameTruth, TimeType
<1>6. \A v \in Worker \ {w} : pc'[v] = pc[v] /\ SameTimers(v)
  BY <1>1, <1>3 DEF SameTimers
<1> QED
  BY <1>1, <1>2, <1>4, <1>5, <1>6, OwnTimeStep

LEMMA OnExitAcquireTimes ==
  ASSUME TimesInv, NEW w \in Worker, OnExitAcquire(w)
  PROVE  TimesInv'
<1>1. /\ register' = [register EXCEPT ![w] = total_idle_time[w] + (now - start_idle[w])]
      /\ start_work' = start_work /\ total_work_time' = total_work_time
      /\ start_idle' = start_idle /\ total_idle_time' = total_idle_time
      /\ now' = now /\ stage' = stage /\ done' = done /\ torn' = torn /\ truth' = truth
      /\ pc[w] \in {"idle", "stole"}
  BY DEF OnExitAcquire, Goto, program, history
<1>2. PICK to \in {"add_idle", "add_idle_sleep"} : pc' = [pc EXCEPT ![w] = to]
  BY DEF OnExitAcquire, Goto
<1>3. TimeType'
  BY <1>1, <1>2 DEF TimesInv, TimeType, Pcs
<1>4. /\ pc'[w] = to /\ register'[w] = total_idle_time[w] + (now - start_idle[w])
      /\ \A v \in Worker \ {w} : pc'[v] = pc[v] /\ register'[v] = register[v]
  BY <1>1, <1>2 DEF TimesInv, TimeType
<1>5. (WorkIsTrue(w) => WorkIsTrue(w)') /\ (IdleIsTrue(w) => IdleIsTrue(w)')
  BY <1>1, <1>2, <1>4 DEF WorkIsTrue, IdleIsTrue
<1>6. truth' \in [Worker -> Facts] /\ \A v \in Worker : SameTruth(v)
  BY <1>1, <1>3 DEF SameTruth, TimeType
<1>7. \A v \in Worker \ {w} : pc'[v] = pc[v] /\ SameTimers(v)
  BY <1>1, <1>4 DEF SameTimers
<1> QED
  BY <1>1, <1>3, <1>5, <1>6, <1>7, OwnTimeStep

LEMMA AddIdleTimes ==
  ASSUME TimesInv, NEW w \in Worker, AddIdle(w)
  PROVE  TimesInv'
<1>1. /\ total_idle_time' = [total_idle_time EXCEPT ![w] = register[w]]
      /\ start_work' = start_work /\ total_work_time' = total_work_time
      /\ start_idle' = start_idle /\ register' = register
      /\ now' = now /\ stage' = stage /\ done' = done /\ torn' = torn /\ truth' = truth
      /\ pc[w] \in {"add_idle", "add_idle_sleep"}
  BY DEF AddIdle, Goto, program, history
<1>2. PICK to \in {"back", "asleep"} : pc' = [pc EXCEPT ![w] = to]
  BY DEF AddIdle, Goto
<1>3. TimeType'
  BY <1>1, <1>2 DEF TimesInv, TimeType, Pcs
<1>4. /\ pc'[w] = to /\ total_idle_time'[w] = register[w]
      /\ \A v \in Worker \ {w} : pc'[v] = pc[v] /\ total_idle_time'[v] = total_idle_time[v]
  BY <1>1, <1>2 DEF TimesInv, TimeType
<1>5. (WorkIsTrue(w) => WorkIsTrue(w)') /\ (IdleIsTrue(w) => IdleIsTrue(w)')
  BY <1>1, <1>2, <1>4 DEF WorkIsTrue, IdleIsTrue
<1>6. truth' \in [Worker -> Facts] /\ \A v \in Worker : SameTruth(v)
  BY <1>1, <1>3 DEF SameTruth, TimeType
<1>7. \A v \in Worker \ {w} : pc'[v] = pc[v] /\ SameTimers(v)
  BY <1>1, <1>4 DEF SameTimers
<1> QED
  BY <1>1, <1>3, <1>5, <1>6, <1>7, OwnTimeStep

LEMMA OnEnterWorkTimes ==
  ASSUME TimesInv, NEW w \in Worker, OnEnterWork(w)
  PROVE  TimesInv'
<1>1. /\ pc[w] = "back" /\ pc' = [pc EXCEPT ![w] = "work"]
      /\ start_work' = [start_work EXCEPT ![w] = now]
      /\ start_idle' = start_idle /\ total_work_time' = total_work_time
      /\ total_idle_time' = total_idle_time /\ register' = register
      /\ now' = now /\ stage' = stage /\ done' = done /\ torn' = torn /\ truth' = truth
  BY DEF OnEnterWork, Goto, program, history
<1>2. TimeType'
  BY <1>1 DEF TimesInv, TimeType, Pcs
<1>3. /\ pc'[w] = "work" /\ start_work'[w] = now /\ now \in Nat /\ total_work_time[w] \in Int
      /\ \A v \in Worker \ {w} : pc'[v] = pc[v] /\ start_work'[v] = start_work[v]
  BY <1>1 DEF TimesInv, TimeType
<1>4. (WorkIsTrue(w) => WorkIsTrue(w)') /\ (IdleIsTrue(w) => IdleIsTrue(w)')
  BY <1>1, <1>3 DEF WorkIsTrue, IdleIsTrue
<1>5. truth' \in [Worker -> Facts] /\ \A v \in Worker : SameTruth(v)
  BY <1>1, <1>2 DEF SameTruth, TimeType
<1>6. \A v \in Worker \ {w} : pc'[v] = pc[v] /\ SameTimers(v)
  BY <1>1, <1>3 DEF SameTimers
<1> QED
  BY <1>1, <1>2, <1>4, <1>5, <1>6, OwnTimeStep

(* Forking and stealing change the history's counts and not its times. *)
LEMMA CountedTruth ==
  ASSUME TimesInv, NEW w \in Worker, NEW kind \in {"fibers", "steals"}, NEW n \in Nat,
         Counted(w, kind, n)
  PROVE  truth' \in [Worker -> Facts] /\ \A v \in Worker : SameTruth(v)
<1>1. PICK t, a, b : /\ t = truth[w] /\ a = [t EXCEPT !.fibers = t.fibers + n]
                     /\ b = [t EXCEPT !.steals = t.steals + n]
  OBVIOUS
<1>2. t \in Facts /\ truth \in [Worker -> Facts]
  BY <1>1 DEF TimesInv, TimeType
<1>3. a \in Facts /\ a.work = t.work /\ a.idle = t.idle
  BY <1>1, <1>2 DEF Facts
<1>4. b \in Facts /\ b.work = t.work /\ b.idle = t.idle
  BY <1>1, <1>2 DEF Facts
<1>5. CASE kind = "fibers"
  <2>1. truth' = [truth EXCEPT ![w] = a]
    BY <1>1, <1>2, <1>5 DEF Counted
  <2>2. truth'[w] = a /\ \A v \in Worker \ {w} : truth'[v] = truth[v]
    BY <1>2, <2>1
  <2> QED
    BY <1>1, <1>2, <1>3, <2>1, <2>2 DEF SameTruth
<1>6. CASE kind = "steals"
  <2>1. truth' = [truth EXCEPT ![w] = b]
    BY <1>1, <1>2, <1>6 DEF Counted
  <2>2. truth'[w] = b /\ \A v \in Worker \ {w} : truth'[v] = truth[v]
    BY <1>2, <2>1
  <2> QED
    BY <1>1, <1>2, <1>4, <2>1, <2>2 DEF SameTruth
<1> QED
  BY <1>5, <1>6

LEMMA StealTimes ==
  ASSUME TimesInv, NEW w \in Worker, Steal(w)
  PROVE  TimesInv'
<1>1. /\ pc[w] = "idle" /\ pc' = [pc EXCEPT ![w] = "stole"] /\ UNCHANGED timers
      /\ now' = now /\ stage' = stage /\ done' = done /\ torn' = torn /\ Counted(w, "steals", 1)
  BY DEF Steal, Goto
<1>2. truth' \in [Worker -> Facts] /\ \A v \in Worker : SameTruth(v)
  BY <1>1, CountedTruth
<1>3. TimeType'
  BY <1>1, <1>2 DEF TimesInv, TimeType, timers, Pcs
<1>4. pc'[w] = "stole" /\ \A v \in Worker \ {w} : pc'[v] = pc[v]
  BY <1>1 DEF TimesInv, TimeType
<1>5. \A v \in Worker : SameTimers(v)
  BY <1>1 DEF SameTimers, timers
<1>6. (WorkIsTrue(w) => WorkIsTrue(w)') /\ (IdleIsTrue(w) => IdleIsTrue(w)')
  BY <1>1, <1>2, <1>4, <1>5 DEF WorkIsTrue, IdleIsTrue, SameTruth, SameTimers
<1> QED
  BY <1>1, <1>2, <1>3, <1>4, <1>5, <1>6, OwnTimeStep

(* Every clock that runs, and what it measures, goes on. *)
LEMMA TickTimes ==
  ASSUME TimesInv, Tick
  PROVE  TimesInv'
<1>1. /\ now' = now + 1 /\ pc' = pc /\ UNCHANGED timers /\ stage' = stage /\ done' = done
      /\ torn' = torn
  BY DEF Tick, program
<1>2. ASSUME NEW v \in Worker
      PROVE  /\ truth'[v] \in Facts
             /\ truth'[v].work = IF pc[v] = "work" THEN truth[v].work + 1 ELSE truth[v].work
             /\ truth'[v].idle = IF pc[v] \in {"idle", "stole"} THEN truth[v].idle + 1
                                 ELSE truth[v].idle
  <2>1. PICK t, a, b : /\ t = truth[v] /\ a = [t EXCEPT !.work = t.work + 1]
                       /\ b = [t EXCEPT !.idle = t.idle + 1]
    OBVIOUS
  <2>2. t \in Facts
    BY <2>1 DEF TimesInv, TimeType
  <2>3. a \in Facts /\ a.work = t.work + 1 /\ a.idle = t.idle
    BY <2>1, <2>2 DEF Facts
  <2>4. b \in Facts /\ b.idle = t.idle + 1 /\ b.work = t.work
    BY <2>1, <2>2 DEF Facts
  <2>5. truth'[v] = IF pc[v] = "work" THEN a ELSE IF pc[v] \in {"idle", "stole"} THEN b ELSE t
    BY <2>1 DEF Tick
  <2> QED
    BY <2>1, <2>2, <2>3, <2>4, <2>5
<1>3. truth' \in [Worker -> Facts]
  <2>1. truth' = [v \in Worker |-> truth'[v]]
    BY DEF Tick
  <2> QED
    BY <1>2, <2>1
<1>4. TimeType'
  BY <1>1, <1>3 DEF TimesInv, TimeType, timers
<1>5. ASSUME NEW v \in Worker, WorkIsTrue(v), IdleIsTrue(v)
      PROVE  WorkIsTrue(v)' /\ IdleIsTrue(v)'
  <2>1. /\ now \in Nat /\ start_work[v] \in Int /\ total_work_time[v] \in Int
        /\ start_idle[v] \in Int /\ total_idle_time[v] \in Int
    BY DEF TimesInv, TimeType
  <2>2. WorkIsTrue(v)'
    BY <1>1, <1>2, <1>5, <2>1 DEF WorkIsTrue, timers
  <2>3. IdleIsTrue(v)'
    BY <1>1, <1>2, <1>5, <2>1 DEF IdleIsTrue, timers
  <2> QED
    BY <2>2, <2>3
<1>6. TimersFollow'
  BY <1>1, <1>5 DEF TimesInv, TimersFollow, Reported
<1> QED
  BY <1>4, <1>6 DEF TimesInv

(* A reset between the two halves of a += is what torn keeps out. *)
LEMMA CollectTimes ==
  ASSUME TimesInv, NEW w \in Worker, NEW u \in Worker, CollectTimers(w, u)
  PROVE  TimesInv'
<1>1. /\ stage = "collecting" /\ stage' \in {"collecting", "body"}
      /\ start_work' = [start_work EXCEPT ![u] = now]
      /\ total_work_time' = [total_work_time EXCEPT ![u] = 0]
      /\ start_idle' = [start_idle EXCEPT ![u] = now]
      /\ total_idle_time' = [total_idle_time EXCEPT ![u] = 0]
      /\ truth' = [truth EXCEPT ![u].work = 0, ![u].idle = 0]
      /\ torn' = IF pc[u] \in {"add_work", "add_idle", "add_idle_sleep"}
                 THEN torn \cup {u} ELSE torn
      /\ now' = now /\ pc' = pc /\ register' = register
  BY DEF CollectTimers
<1>2. /\ truth' \in [Worker -> Facts] /\ truth'[u].work = 0 /\ truth'[u].idle = 0
      /\ \A v \in Worker \ {u} : SameTruth(v)
  <2>1. PICK t, a : t = truth[u] /\ a = [[t EXCEPT !.work = 0] EXCEPT !.idle = 0]
    OBVIOUS
  <2>2. t \in Facts /\ truth \in [Worker -> Facts]
    BY <2>1 DEF TimesInv, TimeType
  <2>3. a \in Facts /\ a.work = 0 /\ a.idle = 0
    BY <2>1, <2>2 DEF Facts
  <2>4. truth' = [truth EXCEPT ![u] = a]
    BY <1>1, <2>1, <2>2
  <2>5. truth'[u] = a /\ \A v \in Worker \ {u} : truth'[v] = truth[v]
    BY <2>2, <2>4
  <2> QED
    BY <2>2, <2>3, <2>4, <2>5 DEF SameTruth
<1>3. TimeType'
  BY <1>1, <1>2 DEF TimesInv, TimeType
<1>4. /\ start_work'[u] = now /\ total_work_time'[u] = 0 /\ start_idle'[u] = now
      /\ total_idle_time'[u] = 0 /\ now \in Nat
      /\ \A v \in Worker \ {u} : SameTimers(v)
  BY <1>1 DEF TimesInv, TimeType, SameTimers
<1>5. \A v \in Worker \ {u} : (WorkIsTrue(v)' <=> WorkIsTrue(v)) /\ (IdleIsTrue(v)' <=> IdleIsTrue(v))
  BY <1>1, <1>2, <1>4, SameTimes
<1>6. u \notin torn' => WorkIsTrue(u)' /\ IdleIsTrue(u)'
  <2> SUFFICES ASSUME u \notin torn' PROVE WorkIsTrue(u)' /\ IdleIsTrue(u)'
    OBVIOUS
  <2>1. pc[u] \notin {"add_work", "add_idle", "add_idle_sleep"}
    BY <1>1
  <2>2. WorkIsTrue(u)'
    BY <1>1, <1>2, <1>4, <2>1 DEF WorkIsTrue
  <2>3. IdleIsTrue(u)'
    BY <1>1, <1>2, <1>4, <2>1 DEF IdleIsTrue
  <2> QED
    BY <2>2, <2>3
<1>7. \A v \in Worker : ~ Reported(v) /\ (v \in torn => v \in torn')
  BY <1>1 DEF Reported
<1>8. TimersFollow'
  BY <1>5, <1>6, <1>7 DEF TimesInv, TimersFollow
<1> QED
  BY <1>3, <1>8 DEF TimesInv

LEMMA ReportTimersTimes ==
  ASSUME TimesInv, NEW w \in Worker, NEW u \in Worker, ReportTimers(w, u)
  PROVE  TimesInv'
<1>1. /\ stage = "reporting" /\ stage' \in {"reporting", "end"} /\ done' = done \cup {u}
      /\ \/ /\ total_work_time' = [total_work_time EXCEPT ![u] = @ + (now - start_work[u])]
            /\ total_idle_time' = total_idle_time
         \/ /\ total_idle_time' = [total_idle_time EXCEPT ![u] = @ + (now - start_idle[u])]
            /\ total_work_time' = total_work_time
      /\ now' = now /\ pc' = pc /\ register' = register /\ truth' = truth /\ torn' = torn
      /\ start_work' = start_work /\ start_idle' = start_idle
  BY DEF ReportTimers, history
<1>2. TimeType'
  BY <1>1 DEF TimesInv, TimeType
<1>3. \A v \in Worker \ {u} : SameTimers(v) /\ SameTruth(v)
  BY <1>1 DEF TimesInv, TimeType, SameTimers, SameTruth
<1>4. \A v \in Worker \ {u} : (WorkIsTrue(v)' <=> WorkIsTrue(v)) /\ (IdleIsTrue(v)' <=> IdleIsTrue(v))
  BY <1>1, <1>3, SameTimes
<1>5. Reported(u)' /\ \A v \in Worker : Reported(v) => Reported(v)'
  BY <1>1 DEF Reported
<1>6. TimersFollow'
  BY <1>1, <1>4, <1>5 DEF TimesInv, TimersFollow
<1> QED
  BY <1>2, <1>6 DEF TimesInv

LEMMA StartCollectingTimes ==
  ASSUME TimesInv, NEW w \in Worker, StartCollecting(w)
  PROVE  TimesInv'
<1>1. /\ pc' = pc /\ now' = now /\ torn' = torn /\ UNCHANGED timers
      /\ stage = "pre"
      /\ truth' = [v \in Worker |-> [truth[v] EXCEPT !.fibers = 0, !.steals = 0]]
  BY DEF StartCollecting
<1>2. ASSUME NEW v \in Worker
      PROVE  truth'[v] \in Facts /\ SameTruth(v)
  <2>1. PICK t, a, b : t = truth[v] /\ a = [t EXCEPT !.fibers = 0] /\ b = [a EXCEPT !.steals = 0]
    OBVIOUS
  <2>2. t \in Facts
    BY <2>1 DEF TimesInv, TimeType
  <2>3. a \in Facts /\ a.work = t.work /\ a.idle = t.idle
    BY <2>1, <2>2 DEF Facts
  <2>4. b \in Facts /\ b.work = t.work /\ b.idle = t.idle
    BY <2>1, <2>3 DEF Facts
  <2>5. truth'[v] = b
    BY <1>1, <2>1
  <2> QED
    BY <2>1, <2>4, <2>5 DEF SameTruth
<1>3. truth' \in [Worker -> Facts]
  <2>1. truth' = [v \in Worker |-> truth'[v]]
    BY <1>1
  <2> QED
    BY <1>2, <2>1
<1>4. \A v \in Worker : ~ Reported(v) /\ SameTruth(v)
  BY <1>1, <1>2 DEF Reported
<1> QED
  BY <1>1, <1>3, <1>4, TimelessStep

LEMMA TimesStep ==
  ASSUME TimesInv, [Next]_vars
  PROVE  TimesInv'
<1>1. CASE UNCHANGED vars
  <2>1. /\ now' = now /\ pc' = pc /\ UNCHANGED timers /\ torn' = torn /\ truth' = truth
        /\ stage' = stage /\ done' = done
    BY <1>1 DEF vars, history, program
  <2> QED
    BY <2>1, TimelessStep DEF TimesInv, TimeType, SameTruth, Reported
<1>2. ASSUME NEW w \in Worker, Take(w) \/ EndPiece(w) \/ Report(w)
      PROVE  TimesInv'
  <2>1. /\ now' = now /\ pc' = pc /\ UNCHANGED timers /\ torn' = torn /\ truth' = truth
        /\ \/ stage' = stage /\ done' = done
           \/ stage = "body"
    BY <1>2 DEF Take, EndPiece, Report, history
  <2>2. \A v \in Worker : SameTruth(v) /\ (Reported(v) => Reported(v)')
    BY <2>1 DEF SameTruth, Reported
  <2>3. truth' \in [Worker -> Facts]
    BY <2>1 DEF TimesInv, TimeType
  <2> QED
    BY <2>1, <2>2, <2>3, TimelessStep
<1>3. ASSUME NEW w \in Worker, Fork(w)
      PROVE  TimesInv'
  <2>1. /\ now' = now /\ pc' = pc /\ UNCHANGED timers /\ torn' = torn
        /\ stage' = stage /\ done' = done /\ Counted(w, "fibers", 2)
    BY <1>3 DEF Fork
  <2>2. truth' \in [Worker -> Facts] /\ \A v \in Worker : SameTruth(v)
    BY <2>1, CountedTruth
  <2>3. \A v \in Worker : Reported(v) => Reported(v)'
    BY <2>1 DEF Reported
  <2> QED
    BY <2>1, <2>2, <2>3, TimelessStep
<1> QED
  BY <1>1, <1>2, <1>3, TickTimes, StealTimes, OnExitWorkTimes, AddWorkTimes,
     OnEnterAcquireTimes, OnExitAcquireTimes, AddIdleTimes, OnEnterWorkTimes,
     StartCollectingTimes, CollectTimes, ReportTimersTimes DEF Next

(* The action of TimesAreTrue. *)
TimesShown ==
  \A v \in Worker :
    /\ stage = "reporting" /\ v \in done' \ done /\ v \notin torn
    /\ busy = {v} \/ pc[v] = "idle"
    => total_work_time'[v] = truth[v].work /\ total_idle_time'[v] = truth[v].idle

LEMMA ShownAreTrue ==
  ASSUME TimesInv, Next
  PROVE  TimesShown
<1> SUFFICES ASSUME NEW v \in Worker, stage = "reporting", v \in done' \ done, v \notin torn,
                    busy = {v} \/ pc[v] = "idle"
             PROVE  total_work_time'[v] = truth[v].work /\ total_idle_time'[v] = truth[v].idle
  BY DEF TimesShown
<1>1. PICK w \in Worker : \E u \in Worker : ReportTimers(w, u)
  <2>1. done' # done
    OBVIOUS
  <2> QED
    BY <2>1 DEF Next, Tick, Fork, Take, EndPiece, Steal, OnExitWork, AddWork, OnEnterAcquire,
                OnExitAcquire, AddIdle, OnEnterWork, StartCollecting, Report, CollectTimers
<1>2. ReportTimers(w, v)
  BY <1>1 DEF ReportTimers
<1>3. busy = {w} /\ pc[w] = "work"
  BY <1>2 DEF ReportTimers, Alone
<1>4. WorkIsTrue(v) /\ IdleIsTrue(v)
  BY DEF TimesInv, TimersFollow, Reported
<1>5. CASE v = w
  <2>1. /\ total_work_time'[v] = total_work_time[v] + (now - start_work[v])
        /\ total_idle_time' = total_idle_time
    BY <1>2, <1>5 DEF ReportTimers, TimesInv, TimeType
  <2> QED
    BY <1>3, <1>4, <1>5, <2>1 DEF WorkIsTrue, IdleIsTrue
<1>6. CASE v # w
  <2>1. /\ total_idle_time'[v] = total_idle_time[v] + (now - start_idle[v])
        /\ total_work_time' = total_work_time
    BY <1>2, <1>6 DEF ReportTimers, TimesInv, TimeType
  <2>2. pc[v] = "idle"
    BY <1>3, <1>6
  <2> QED
    BY <1>4, <2>1, <2>2 DEF WorkIsTrue, IdleIsTrue
<1> QED
  BY <1>5, <1>6

(* What report adds for a worker is the time it has worked and been idle   *)
(* since start_collecting, if report finds it at work or awake in acquire  *)
(* and the reset has not met it half way through a +=: for any number of   *)
(* workers and any time.                                                   *)
THEOREM TimesTrue == Spec => TimesAreTrue
<1>1. Init => TimesInv
  BY InitTimes
<1>2. TimesInv /\ [Next]_vars => TimesInv'
  BY TimesStep
<1>3. TimesInv /\ [Next]_vars =>
        [\A v \in Worker :
           /\ stage = "reporting" /\ v \in done' \ done /\ v \notin torn
           /\ busy = {v} \/ pc[v] = "idle"
           => /\ total_work_time'[v] = truth[v].work
              /\ total_idle_time'[v] = truth[v].idle]_vars
  BY ShownAreTrue DEF TimesShown
<1> QED
  BY <1>1, <1>2, <1>3, PTL DEF Spec, TimesAreTrue
=============================================================================
