--------------------------- MODULE ElasticProofs ---------------------------
(***************************************************************************)
(* Proofs about Elastic, for any number of workers, priorities and tasks:  *)
(* the types of its variables, that nobody is told to leave while there is *)
(* a task, and that the lists of children hold exactly the sleepers.       *)
(***************************************************************************)
EXTENDS Elastic, FiniteSetTheorems, TLAPS

USE WorkerAssumption, PrioAssumption, BoundAssumption

-----------------------------------------------------------------------------
(* A worker has a task in its hands while it runs it and from the steal to *)
(* the end of that turn of acquire's loop.                                 *)
InHand(w) == pc[w] = "work" \/ loc[w].current

(* The places where unfinished tasks are: number 0 is the worker's hand,   *)
(* the others its deque.                                                   *)
HasSlot(w, k) == IF k = 0 THEN InHand(w) ELSE k <= tasks[w]

Slots == {s \in Worker \X Nat : HasSlot(s[1], s[2])}

CountIsExact == IsFiniteSet(Slots) /\ Cardinality(Slots) = live

(* The attempts left are not used up inside the loop that counts them. *)
Attempting == \A w \in Worker : pc[w] \in {"raise", "steal", "lower"} => loc[w].i >= 1

(* Whoever has a task in hand, or is about to steal one, is active. *)
HandsAreActive ==
  \A w \in Worker :
    /\ pc[w] \in {"work", "steal"} => w \in active
    /\ loc[w].current =>
         /\ w \in active
         /\ pc[w] \in {"setBusy", "wake", "post", "check"}
         /\ ~ loc[w].leaving

(* A worker that is told to leave only wakes its children first. *)
LeaversLeave ==
  \A w \in Worker : loc[w].leaving => pc[w] \in {"setBusy", "wake", "post", "exited"}

(* A deque with tasks in it belongs to a worker that runs one. *)
DequesAreWorkedOn == \A w \in Worker : tasks[w] > 0 => pc[w] = "work"

(* The terminal fiber runs after the last task. *)
TerminalIsLast == done \/ (\E w \in Worker : pc[w] = "terminal") => live = 0

IInv ==
  /\ TypeOK
  /\ CountIsExact
  /\ Attempting
  /\ HandsAreActive
  /\ LeaversLeave
  /\ DequesAreWorkedOn
  /\ TerminalIsLast

LocalsType ==
  [target : Worker, i : 0..Attempts, word : StatusWord, idx : Worker,
   nextIdx : Worker, current : BOOLEAN, leaving : BOOLEAN]

(* One worker's locals change. *)
LEMMA Relocated ==
  ASSUME TypeOK, NEW w \in Worker, NEW r \in LocalsType,
         loc' = [loc EXCEPT ![w] = r]
  PROVE  /\ loc' \in [Worker -> LocalsType]
         /\ loc'[w] = r
         /\ \A u \in Worker \ {w} : loc'[u] = loc[u]
  BY DEF TypeOK, LocalsType

(* What the assignments to the fields of the locals yield. *)
LEMMA Retargeted ==
  ASSUME NEW l \in LocalsType, NEW v \in Worker, NEW k \in 0..Attempts
  PROVE  /\ Retarget(l, v, k) \in LocalsType
         /\ Retarget(l, v, k).i = k
         /\ Retarget(l, v, k).current = l.current
         /\ Retarget(l, v, k).leaving = l.leaving
<1> DEFINE m == [l EXCEPT !.target = v]
<1>1. m \in LocalsType /\ m.current = l.current /\ m.leaving = l.leaving
  BY DEF LocalsType
<1>2. Retarget(l, v, k) = [m EXCEPT !.i = k]
  BY DEF Retarget
<1> HIDE DEF m
<1> QED
  BY <1>1, <1>2 DEF LocalsType

LEMMA Advanced ==
  ASSUME NEW l \in LocalsType, NEW w \in Worker
  PROVE  /\ Advance(l, w) \in LocalsType
         /\ Advance(l, w).i = l.i
         /\ Advance(l, w).current = l.current
         /\ Advance(l, w).leaving = l.leaving
<1> DEFINE m == [l EXCEPT !.idx = l.nextIdx]
<1>1. m \in LocalsType /\ m.i = l.i /\ m.current = l.current /\ m.leaving = l.leaving
  BY DEF LocalsType
<1>2. Advance(l, w) = [m EXCEPT !.nextIdx = w]
  BY DEF Advance
<1> HIDE DEF m
<1> QED
  BY <1>1, <1>2 DEF LocalsType

LEMMA InitInv == Init => IInv
<1> SUFFICES ASSUME Init PROVE IInv
  OBVIOUS
<1>1. TypeOK
  <2>1. PICK p \in Prio : status = [w \in Worker |-> Clear(w, p, TRUE)]
    BY DEF Init
  <2>2. status \in [Worker -> StatusWord]
    BY <2>1 DEF Clear, Word, StatusWord
  <2>3. loc \in [Worker -> LocalsType]
    BY DEF Init, Locals, Word, StatusWord, LocalsType
  <2> QED
    BY <2>2, <2>3 DEF Init, TypeOK, PC, LocalsType
<1>2. Slots = {<<First, 0>>}
  <2>1. \A w \in Worker : InHand(w) <=> w = First
    BY DEF Init, InHand, Locals
  <2>2. \A w \in Worker, k \in Nat : HasSlot(w, k) <=> w = First /\ k = 0
    BY <2>1 DEF Init, HasSlot
  <2>3. \A s \in Worker \X Nat :
          /\ s[1] \in Worker /\ s[2] \in Nat /\ s = <<s[1], s[2]>>
          /\ HasSlot(s[1], s[2]) <=> s = <<First, 0>>
    BY <2>2
  <2>4. <<First, 0>> \in Worker \X Nat
    OBVIOUS
  <2> QED
    BY <2>3, <2>4 DEF Slots
<1>3. CountIsExact
  BY <1>2, FS_Singleton DEF CountIsExact, Init
<1>4. Attempting /\ HandsAreActive /\ LeaversLeave
  BY DEF Init, Attempting, HandsAreActive, LeaversLeave, Locals
<1>5. DequesAreWorkedOn /\ TerminalIsLast
  BY DEF Init, DequesAreWorkedOn, TerminalIsLast
<1> QED
  BY <1>1, <1>3, <1>4, <1>5 DEF IInv

-----------------------------------------------------------------------------
(* Where the tasks are when only other things change. *)
LEMMA SameSlots ==
  ASSUME CountIsExact, tasks' = tasks, live' = live,
         \A w \in Worker : InHand(w)' <=> InHand(w)
  PROVE  CountIsExact'
<1>1. \A w \in Worker, k \in Nat : HasSlot(w, k)' <=> HasSlot(w, k)
  BY DEF HasSlot
<1>2. Slots' = Slots
  BY <1>1 DEF Slots
<1> QED
  BY <1>2 DEF CountIsExact

(* A task that runs is counted, and so is every task in a deque. *)
LEMMA Counted ==
  ASSUME IInv, NEW w \in Worker, NEW k \in Nat, HasSlot(w, k)
  PROVE  live >= 1
<1>1. <<w, k>> \in Slots
  BY DEF Slots
<1>2. live \in Nat /\ IsFiniteSet(Slots) /\ Cardinality(Slots) = live
  BY DEF IInv, TypeOK, CountIsExact
<1> QED
  BY <1>1, <1>2, FS_EmptySet

(* Nobody may leave while there is a task. *)
LEMMA NoneLeft ==
  ASSUME IInv, MayLeave
  PROVE  live = 0
<1>1. CASE done
  BY <1>1 DEF IInv, TerminalIsLast
<1>2. CASE active = {}
  <2>1. \A w \in Worker : ~ InHand(w)
    BY <1>2 DEF IInv, HandsAreActive, InHand
  <2>2. \A w \in Worker : tasks[w] = 0
    BY <2>1 DEF IInv, DequesAreWorkedOn, InHand, TypeOK
  <2>3. \A w \in Worker, k \in Nat : ~ HasSlot(w, k)
    BY <2>1, <2>2 DEF HasSlot
  <2>4. Slots = {}
    BY <2>3 DEF Slots
  <2> QED
    BY <2>4, FS_EmptySet DEF IInv, CountIsExact
<1> QED
  BY <1>1, <1>2 DEF MayLeave

-----------------------------------------------------------------------------
(* The steps of acquire in which no task moves. *)
LEMMA WaitingStep ==
  ASSUME IInv, NEW w \in Worker,
         \/ Start(w) \/ EnterAcquire(w) \/ AcceptLifelines(w) \/ Choose(w)
         \/ Raise(w) \/ Lower(w)
  PROVE  IInv'
<1> USE DEF IInv, Goto, InHand
<1>1. CASE Start(w)
  <2>1. TypeOK'
    BY <1>1 DEF Start, TypeOK, PC, elasticVars, taskVars
  <2>2. CountIsExact'
    BY <1>1, SameSlots DEF Start, taskVars, TypeOK
  <2> QED
    BY <1>1, <2>1, <2>2 DEF Start, taskVars, TypeOK, Attempting, HandsAreActive, LeaversLeave,
                            DequesAreWorkedOn, TerminalIsLast
<1>2. CASE EnterAcquire(w)
  <2>1. TypeOK'
    BY <1>2 DEF EnterAcquire, TypeOK, PC, elasticVars, taskVars
  <2>2. CountIsExact'
    BY <1>2, SameSlots DEF EnterAcquire, taskVars, TypeOK
  <2> QED
    BY <1>2, <2>1, <2>2 DEF EnterAcquire, taskVars, TypeOK, Attempting, HandsAreActive, LeaversLeave,
                            DequesAreWorkedOn, TerminalIsLast
<1>3. CASE AcceptLifelines(w)
  <2>1. PICK p \in Prio : status' = [status EXCEPT ![w] = Clear(w, p, FALSE)]
    BY <1>3 DEF AcceptLifelines
  <2>2. Clear(w, p, FALSE) \in StatusWord
    BY DEF Clear, Word, StatusWord
  <2>3. /\ pc[w] = "accept" /\ pc' = [pc EXCEPT ![w] = "choose"]
        /\ UNCHANGED <<next, sem, active, done, tasks, made, live, loc>>
    BY <1>3 DEF AcceptLifelines, taskVars
  <2>4. TypeOK'
    BY <2>1, <2>2, <2>3 DEF TypeOK, PC
  <2>5. CountIsExact'
    BY <2>3, SameSlots DEF TypeOK
  <2> QED
    BY <2>3, <2>4, <2>5 DEF TypeOK, Attempting, HandsAreActive, LeaversLeave, DequesAreWorkedOn,
                            TerminalIsLast
<1>4. CASE Choose(w)
  <2>1. PICK v \in Worker : loc' = [loc EXCEPT ![w] = Retarget(loc[w], v, Attempts)]
    BY <1>4 DEF Choose, Others
  <2> DEFINE r == Retarget(loc[w], v, Attempts)
  <2>2. /\ r \in LocalsType /\ r.i >= 1
        /\ r.current = loc[w].current /\ r.leaving = loc[w].leaving
    <3>1. loc[w] \in LocalsType
      BY DEF TypeOK, LocalsType
    <3>2. Attempts \in 0..Attempts /\ Attempts >= 1
      OBVIOUS
    <3> QED
      BY <3>1, <3>2, Retargeted
  <2>3. /\ pc[w] = "choose" /\ pc' = [pc EXCEPT ![w] = "raise"]
        /\ UNCHANGED <<status, next, sem, active, done, tasks, made, live>>
    BY <1>4 DEF Choose, elasticVars, taskVars
  <2>4. /\ loc' \in [Worker -> LocalsType] /\ loc'[w] = r
        /\ \A u \in Worker \ {w} : loc'[u] = loc[u]
    <3> HIDE DEF r
    <3> QED
      BY <2>1, <2>2, Relocated DEF r
  <2> HIDE DEF r
  <2>5. TypeOK'
    BY <2>3, <2>4 DEF TypeOK, PC, LocalsType
  <2>6. CountIsExact'
    BY <2>2, <2>3, <2>4, SameSlots DEF TypeOK
  <2> QED
    BY <2>2, <2>3, <2>4, <2>5, <2>6 DEF TypeOK, Attempting, HandsAreActive, LeaversLeave, DequesAreWorkedOn,
                            TerminalIsLast
<1>5. CASE Raise(w)
  <2>1. TypeOK'
    BY <1>5 DEF Raise, TypeOK, PC, elasticVars, taskVars
  <2>2. CountIsExact'
    BY <1>5, SameSlots DEF Raise, taskVars, TypeOK
  <2> QED
    BY <1>5, <2>1, <2>2 DEF Raise, taskVars, TypeOK, Attempting, HandsAreActive, LeaversLeave,
                            DequesAreWorkedOn, TerminalIsLast
<1>6. CASE Lower(w)
  <2>1. PICK v \in Worker : loc' = [loc EXCEPT ![w] = Retarget(loc[w], v, loc[w].i - 1)]
    BY <1>6 DEF Lower, Others
  <2> DEFINE r == Retarget(loc[w], v, loc[w].i - 1)
  <2>2. /\ pc[w] = "lower" /\ active' = active \ {w}
        /\ pc' = [pc EXCEPT ![w] = IF loc[w].i > 1 THEN "raise" ELSE "sleepLoad"]
        /\ UNCHANGED <<status, next, sem, done, tasks, made, live>>
    BY <1>6 DEF Lower, elasticVars, taskVars
  <2>3. /\ loc[w].i \in 1..Attempts
        /\ r \in LocalsType /\ r.i = loc[w].i - 1
        /\ r.current = loc[w].current /\ r.leaving = loc[w].leaving
    <3>1. loc[w] \in LocalsType /\ loc[w].i >= 1
      BY <2>2 DEF TypeOK, LocalsType, Attempting
    <3>2. loc[w].i \in 1..Attempts /\ loc[w].i - 1 \in 0..Attempts
      BY <3>1 DEF LocalsType
    <3>3. loc[w].i \in 1..Attempts
      BY <3>2
    <3>5. PICK k \in 0..Attempts, l \in LocalsType : k = loc[w].i - 1 /\ l = loc[w]
      BY <3>1, <3>2
    <3>4. /\ Retarget(l, v, k) \in LocalsType /\ Retarget(l, v, k).i = k
          /\ Retarget(l, v, k).current = l.current
          /\ Retarget(l, v, k).leaving = l.leaving
      BY Retargeted
    <3>6. r = Retarget(l, v, k)
      BY <3>5
    <3> HIDE DEF r
    <3> QED
      BY <3>3, <3>4, <3>5, <3>6
  <2>4. /\ loc' \in [Worker -> LocalsType] /\ loc'[w] = r
        /\ \A u \in Worker \ {w} : loc'[u] = loc[u]
    <3> HIDE DEF r
    <3> QED
      BY <2>1, <2>3, Relocated DEF r
  <2> HIDE DEF r
  <2>5. TypeOK'
    BY <2>2, <2>4 DEF TypeOK, PC, LocalsType
  <2>6. CountIsExact'
    BY <2>2, <2>3, <2>4, SameSlots DEF TypeOK
  <2>7. Attempting'
    BY <2>2, <2>3, <2>4 DEF TypeOK, Attempting
  <2>8. HandsAreActive'
    BY <2>2, <2>3, <2>4 DEF TypeOK, HandsAreActive
  <2> QED
    BY <2>2, <2>3, <2>4, <2>5, <2>6, <2>7, <2>8 DEF TypeOK, LeaversLeave, DequesAreWorkedOn,
                                       TerminalIsLast
<1> QED
  BY <1>1, <1>2, <1>3, <1>4, <1>5, <1>6

-----------------------------------------------------------------------------
(* Going to sleep and waking others.                                       *)

(* One worker goes on inside acquire, and neither the tasks nor the        *)
(* detector change. *)
LEMMA QuietStep ==
  ASSUME IInv, TypeOK', NEW w \in Worker,
         UNCHANGED <<tasks, live, active, done>>,
         \A u \in Worker \ {w} : pc'[u] = pc[u] /\ loc'[u] = loc[u],
         pc[w] \notin {"work", "terminal"},
         pc'[w] \in {"sleepCas", "sleep", "wake", "post", "check", "exited"},
         loc'[w].current = loc[w].current, loc'[w].leaving = loc[w].leaving,
         loc[w].current => pc'[w] \in {"wake", "post", "check"} /\ ~ loc[w].leaving,
         loc[w].leaving => pc'[w] \in {"wake", "post", "exited"}
  PROVE  IInv'
<1>1. tasks' = tasks /\ live' = live /\ active' = active /\ done' = done
  OBVIOUS
<1>2. CountIsExact'
  <2>1. \A u \in Worker : InHand(u)' <=> InHand(u)
    BY DEF InHand
  <2> QED
    BY <1>1, <2>1, SameSlots DEF IInv
<1>3. Attempting' /\ HandsAreActive' /\ LeaversLeave'
  BY <1>1 DEF IInv, Attempting, HandsAreActive, LeaversLeave
<1>4. DequesAreWorkedOn' /\ TerminalIsLast'
  BY <1>1 DEF IInv, DequesAreWorkedOn, TerminalIsLast
<1> QED
  BY <1>2, <1>3, <1>4 DEF IInv

(* A word that was loaded, and the same with another head. *)
LEMMA Remembered ==
  ASSUME NEW l \in LocalsType, NEW word \in StatusWord
  PROVE  /\ [l EXCEPT !.word = word] \in LocalsType
         /\ [l EXCEPT !.word = word].current = l.current
         /\ [l EXCEPT !.word = word].leaving = l.leaving
  BY DEF LocalsType

LEMMA Linked ==
  ASSUME NEW word \in StatusWord, NEW w \in Worker
  PROVE  WithHead(word, w) \in StatusWord /\ BusyBitSet(word) \in StatusWord
  BY DEF StatusWord, WithHead, BusyBitSet

LEMMA SleepStep ==
  ASSUME IInv, NEW w \in Worker, SleepLoad(w) \/ SleepCas(w) \/ SemWait(w)
  PROVE  IInv'
<1> USE DEF Goto
<1>1. TypeOK /\ loc[w] \in LocalsType /\ loc[w].target \in Worker /\ loc[w].word \in StatusWord
  BY DEF IInv, TypeOK, LocalsType
<1>2. pc[w] \in {"sleepLoad", "sleepCas", "sleep"} => ~ loc[w].current /\ ~ loc[w].leaving
  BY DEF IInv, HandsAreActive, LeaversLeave
<1>3. CASE SleepLoad(w)
  <2> DEFINE word == status[loc[w].target]
             r == [loc[w] EXCEPT !.word = word]
  <2>1. word \in StatusWord /\ word.head \in Worker
    BY <1>1 DEF TypeOK, StatusWord
  <2>2. r \in LocalsType /\ r.current = loc[w].current /\ r.leaving = loc[w].leaving
    BY <1>1, <2>1, Remembered
  <2>3. /\ pc[w] = "sleepLoad"
        /\ UNCHANGED <<status, sem, active, done, tasks, made, live>>
        /\ \/ /\ next' = [next EXCEPT ![w] = word.head]
              /\ loc' = [loc EXCEPT ![w] = r]
              /\ pc' = [pc EXCEPT ![w] = "sleepCas"]
           \/ next' = next /\ loc' = loc /\ pc' = [pc EXCEPT ![w] = "check"]
    BY <1>3 DEF SleepLoad, taskVars
  <2> HIDE DEF word, r
  <2>4. /\ loc' \in [Worker -> LocalsType] /\ loc'[w].current = loc[w].current
        /\ loc'[w].leaving = loc[w].leaving
        /\ \A u \in Worker \ {w} : loc'[u] = loc[u]
    <3>1. CASE loc' = loc
      BY <3>1, <1>1 DEF TypeOK, LocalsType
    <3>2. CASE loc' = [loc EXCEPT ![w] = r]
      BY <3>2, <1>1, <2>2, Relocated
    <3> QED
      BY <3>1, <3>2, <2>3
  <2>5. TypeOK'
    BY <1>1, <2>1, <2>3, <2>4 DEF TypeOK, PC, LocalsType
  <2>6. \A u \in Worker \ {w} : pc'[u] = pc[u]
    BY <1>1, <2>3 DEF TypeOK
  <2>7. pc'[w] \in {"sleepCas", "check"}
    BY <1>1, <2>3 DEF TypeOK
  <2> QED
    BY <1>2, <2>3, <2>4, <2>5, <2>6, <2>7, QuietStep
<1>4. CASE SleepCas(w)
  <2> DEFINE r == [loc[w] EXCEPT !.word = Word(FALSE, 0, w)]
  <2>1. Word(FALSE, 0, w) \in StatusWord
    BY DEF Word, StatusWord
  <2>2. r \in LocalsType /\ r.current = loc[w].current /\ r.leaving = loc[w].leaving
    BY <1>1, <2>1, Remembered
  <2>3. /\ pc[w] = "sleepCas"
        /\ UNCHANGED <<next, sem, active, done, tasks, made, live>>
        /\ \/ /\ status' = [status EXCEPT ![loc[w].target] = WithHead(loc[w].word, w)]
              /\ pc' = [pc EXCEPT ![w] = "sleep"]
           \/ status' = status /\ pc' = [pc EXCEPT ![w] = "check"]
    BY <1>4 DEF SleepCas, taskVars
  <2>4. loc' = [loc EXCEPT ![w] = r]
    BY <1>4 DEF SleepCas
  <2> HIDE DEF r
  <2>5. /\ loc' \in [Worker -> LocalsType] /\ loc'[w].current = loc[w].current
        /\ loc'[w].leaving = loc[w].leaving
        /\ \A u \in Worker \ {w} : loc'[u] = loc[u]
    BY <1>1, <2>2, <2>4, Relocated
  <2>6. WithHead(loc[w].word, w) \in StatusWord
    BY <1>1, Linked
  <2>7. TypeOK'
    <3>1. status' \in [Worker -> StatusWord]
      BY <1>1, <2>3, <2>6 DEF TypeOK
    <3>2. pc' \in [Worker -> PC]
      BY <1>1, <2>3 DEF TypeOK, PC
    <3> QED
      BY <1>1, <2>3, <2>5, <3>1, <3>2 DEF TypeOK, LocalsType
  <2>8. pc'[w] \in {"sleep", "check"} /\ \A u \in Worker \ {w} : pc'[u] = pc[u]
    BY <1>1, <2>3 DEF TypeOK
  <2> QED
    BY <1>2, <2>3, <2>5, <2>7, <2>8, QuietStep
<1>5. CASE SemWait(w)
  <2>1. TypeOK'
    BY <1>1, <1>5 DEF SemWait, TypeOK, PC, taskVars
  <2>2. /\ pc[w] = "sleep" /\ pc'[w] = "check" /\ loc' = loc
        /\ UNCHANGED <<tasks, live, active, done>>
        /\ \A u \in Worker \ {w} : pc'[u] = pc[u]
    BY <1>1, <1>5 DEF SemWait, TypeOK, taskVars
  <2> QED
    BY <1>2, <2>1, <2>2, QuietStep
<1> QED
  BY <1>3, <1>4, <1>5

(* Which child comes next. *)
LEMMA Traversing ==
  ASSUME NEW l \in LocalsType, NEW v \in Worker
  PROVE  /\ [l EXCEPT !.idx = v] \in LocalsType /\ [l EXCEPT !.nextIdx = v] \in LocalsType
         /\ [l EXCEPT !.idx = v].current = l.current
         /\ [l EXCEPT !.idx = v].leaving = l.leaving
         /\ [l EXCEPT !.nextIdx = v].current = l.current
         /\ [l EXCEPT !.nextIdx = v].leaving = l.leaving
  BY DEF LocalsType

LEMMA WakeStep ==
  ASSUME IInv, NEW w \in Worker, SetBusy(w) \/ WakeRead(w) \/ WakePost(w) \/ WakeDone(w)
  PROVE  IInv'
<1> USE DEF Goto
<1>1. TypeOK /\ loc[w] \in LocalsType /\ loc[w].idx \in Worker /\ status[w].head \in Worker
  BY DEF IInv, TypeOK, LocalsType, StatusWord
<1>2. pc[w] \in PC /\ \A u \in Worker : pc[u] \in PC
  BY <1>1 DEF TypeOK
<1>3. loc[w].current => ~ loc[w].leaving
  BY DEF IInv, HandsAreActive
<1>4. CASE SetBusy(w)
  <2> DEFINE r == [loc[w] EXCEPT !.idx = status[w].head]
  <2>1. r \in LocalsType /\ r.current = loc[w].current /\ r.leaving = loc[w].leaving
    BY <1>1, Traversing
  <2>2. loc' = [loc EXCEPT ![w] = r]
    BY <1>4 DEF SetBusy
  <2> HIDE DEF r
  <2>3. /\ loc' \in [Worker -> LocalsType] /\ loc'[w] = r
        /\ \A u \in Worker \ {w} : loc'[u] = loc[u]
    BY <1>1, <2>1, <2>2, Relocated
  <2>4. /\ pc[w] = "setBusy" /\ pc' = [pc EXCEPT ![w] = "wake"]
        /\ status' = [status EXCEPT ![w] = BusyBitSet(status[w])]
        /\ UNCHANGED <<next, sem, active, done, tasks, made, live>>
    BY <1>4 DEF SetBusy, taskVars
  <2>5. BusyBitSet(status[w]) \in StatusWord
    BY <1>1, Linked DEF TypeOK
  <2>6. TypeOK'
    BY <1>1, <2>3, <2>4, <2>5 DEF TypeOK, PC, LocalsType
  <2>7. pc'[w] = "wake" /\ \A u \in Worker \ {w} : pc'[u] = pc[u]
    BY <1>1, <2>4 DEF TypeOK
  <2> QED
    BY <1>3, <2>1, <2>3, <2>4, <2>6, <2>7, QuietStep
<1>5. CASE WakeRead(w)
  <2> DEFINE r == [loc[w] EXCEPT !.nextIdx = next[loc[w].idx]]
  <2>1. next[loc[w].idx] \in Worker
    BY <1>1 DEF TypeOK
  <2>2. r \in LocalsType /\ r.current = loc[w].current /\ r.leaving = loc[w].leaving
    BY <1>1, <2>1, Traversing
  <2>3. loc' = [loc EXCEPT ![w] = r]
    BY <1>5 DEF WakeRead
  <2> HIDE DEF r
  <2>4. /\ loc' \in [Worker -> LocalsType] /\ loc'[w] = r
        /\ \A u \in Worker \ {w} : loc'[u] = loc[u]
    BY <1>1, <2>2, <2>3, Relocated
  <2>5. /\ pc[w] = "wake" /\ pc' = [pc EXCEPT ![w] = "post"]
        /\ UNCHANGED <<status, next, sem, active, done, tasks, made, live>>
    BY <1>5 DEF WakeRead, taskVars, elasticVars
  <2>6. TypeOK'
    BY <1>1, <2>4, <2>5 DEF TypeOK, PC, LocalsType
  <2>7. pc'[w] = "post" /\ \A u \in Worker \ {w} : pc'[u] = pc[u]
    BY <1>1, <2>5 DEF TypeOK
  <2> QED
    BY <1>3, <2>2, <2>4, <2>5, <2>6, <2>7, QuietStep
<1>6. CASE WakePost(w)
  <2> DEFINE r == Advance(loc[w], w)
  <2>1. r \in LocalsType /\ r.current = loc[w].current /\ r.leaving = loc[w].leaving
    BY <1>1, Advanced
  <2>2. loc' = [loc EXCEPT ![w] = r]
    BY <1>6 DEF WakePost
  <2> HIDE DEF r
  <2>3. /\ loc' \in [Worker -> LocalsType] /\ loc'[w] = r
        /\ \A u \in Worker \ {w} : loc'[u] = loc[u]
    BY <1>1, <2>1, <2>2, Relocated
  <2>4. /\ pc[w] = "post" /\ pc' = [pc EXCEPT ![w] = "wake"]
        /\ sem' = [sem EXCEPT ![loc[w].idx] = sem[loc[w].idx] + 1]
        /\ UNCHANGED <<status, next, active, done, tasks, made, live>>
    BY <1>6 DEF WakePost, taskVars, Posted
  <2>5. TypeOK'
    BY <1>1, <2>3, <2>4 DEF TypeOK, PC, LocalsType
  <2>6. pc'[w] = "wake" /\ \A u \in Worker \ {w} : pc'[u] = pc[u]
    BY <1>1, <2>4 DEF TypeOK
  <2> QED
    BY <1>3, <2>1, <2>3, <2>4, <2>5, <2>6, QuietStep
<1>7. CASE WakeDone(w)
  <2> DEFINE to == IF loc[w].leaving THEN "exited" ELSE "check"
  <2>1. /\ pc[w] = "wake" /\ pc' = [pc EXCEPT ![w] = to]
        /\ UNCHANGED <<status, next, sem, active, done, tasks, made, live, loc>>
    BY <1>7 DEF WakeDone, taskVars, elasticVars
  <2>2. /\ to \in {"exited", "check"} /\ (loc[w].current => to = "check")
        /\ loc[w].leaving => to = "exited"
    BY <1>3
  <2> HIDE DEF to
  <2>3. TypeOK'
    BY <1>1, <2>1, <2>2 DEF TypeOK, PC
  <2>4. pc'[w] = to /\ \A u \in Worker \ {w} : pc'[u] = pc[u]
    BY <1>1, <2>1 DEF TypeOK
  <2> QED
    BY <1>3, <2>1, <2>2, <2>3, <2>4, QuietStep
<1> QED
  BY <1>4, <1>5, <1>6, <1>7

-----------------------------------------------------------------------------
(* The steps that move tasks.                                              *)

LEMMA SlotAdded ==
  ASSUME CountIsExact, live \in Nat, live' = live + 1, NEW w \in Worker, NEW n \in Nat,
         ~ HasSlot(w, n),
         \A u \in Worker, k \in Nat : HasSlot(u, k)' <=> HasSlot(u, k) \/ (u = w /\ k = n)
  PROVE  CountIsExact'
<1>1. <<w, n>> \notin Slots
  BY DEF Slots
<1>2. \A s \in Worker \X Nat :
        /\ s[1] \in Worker /\ s[2] \in Nat /\ s = <<s[1], s[2]>>
        /\ HasSlot(s[1], s[2])' <=> HasSlot(s[1], s[2]) \/ s = <<w, n>>
  OBVIOUS
<1>3. Slots' = Slots \cup {<<w, n>>}
  BY <1>2 DEF Slots
<1> QED
  BY <1>1, <1>3, FS_AddElement DEF CountIsExact

LEMMA SlotRemoved ==
  ASSUME CountIsExact, live \in Nat, live' = live - 1, NEW w \in Worker, NEW n \in Nat,
         HasSlot(w, n),
         \A u \in Worker, k \in Nat : HasSlot(u, k)' <=> HasSlot(u, k) /\ ~ (u = w /\ k = n)
  PROVE  CountIsExact'
<1>1. <<w, n>> \in Slots
  BY DEF Slots
<1>2. \A s \in Worker \X Nat :
        /\ s[1] \in Worker /\ s[2] \in Nat /\ s = <<s[1], s[2]>>
        /\ HasSlot(s[1], s[2])' <=> HasSlot(s[1], s[2]) /\ s # <<w, n>>
  OBVIOUS
<1>3. Slots' = Slots \ {<<w, n>>}
  BY <1>2 DEF Slots
<1> QED
  BY <1>1, <1>3, FS_RemoveElement DEF CountIsExact

(* A task goes from one place to another. *)
LEMMA SlotMoved ==
  ASSUME CountIsExact, live' = live,
         NEW v \in Worker, NEW m \in Nat, HasSlot(v, m),
         NEW w \in Worker, NEW n \in Nat, ~ HasSlot(w, n),
         \A u \in Worker, k \in Nat :
           HasSlot(u, k)' <=> (HasSlot(u, k) /\ ~ (u = v /\ k = m)) \/ (u = w /\ k = n)
  PROVE  CountIsExact'
<1>1. <<v, m>> \in Slots /\ <<w, n>> \notin Slots
  BY DEF Slots
<1>2. \A s \in Worker \X Nat :
        /\ s[1] \in Worker /\ s[2] \in Nat /\ s = <<s[1], s[2]>>
        /\ HasSlot(s[1], s[2])' <=> (HasSlot(s[1], s[2]) /\ s # <<v, m>>) \/ s = <<w, n>>
  OBVIOUS
<1> DEFINE Rest == Slots \ {<<v, m>>}
<1>3. Slots' = Rest \cup {<<w, n>>}
  BY <1>2 DEF Slots
<1>4. IsFiniteSet(Rest) /\ Cardinality(Rest) = Cardinality(Slots) - 1
  BY <1>1, FS_RemoveElement DEF CountIsExact
<1>5. Cardinality(Slots) \in Nat
  BY FS_CardinalityType DEF CountIsExact
<1>6. <<w, n>> \notin Rest
  BY <1>1
<1> HIDE DEF Rest
<1>7. IsFiniteSet(Slots') /\ Cardinality(Slots') = Cardinality(Rest) + 1
  BY <1>3, <1>4, <1>6, FS_AddElement
<1> QED
  BY <1>4, <1>5, <1>7 DEF CountIsExact

(* While a task runs it is no use to look for the end. *)
LEMMA RunningIsCounted ==
  ASSUME IInv, NEW w \in Worker, pc[w] = "work"
  PROVE  /\ live >= 1 /\ HasSlot(w, 0) /\ w \in active
         /\ ~ loc[w].current /\ ~ loc[w].leaving
         /\ ~ done /\ \A u \in Worker : pc[u] # "terminal"
<1>1. HasSlot(w, 0)
  BY DEF HasSlot, InHand
<1>2. live >= 1
  BY <1>1, Counted
<1>3. w \in active /\ ~ loc[w].current /\ ~ loc[w].leaving
  BY DEF IInv, HandsAreActive, LeaversLeave
<1>4. ~ done /\ \A u \in Worker : pc[u] # "terminal"
  BY <1>2 DEF IInv, TypeOK, TerminalIsLast
<1> QED
  BY <1>1, <1>2, <1>3, <1>4

LEMMA MakeTaskStep ==
  ASSUME IInv, NEW w \in Worker, MakeTask(w)
  PROVE  IInv'
<1>1. /\ pc[w] = "work" /\ made' = made + 1 /\ live' = live + 1
      /\ tasks' = [tasks EXCEPT ![w] = tasks[w] + 1]
      /\ UNCHANGED <<status, next, sem, active, done, pc, loc>>
  BY DEF MakeTask, elasticVars
<1>2. TypeOK /\ CountIsExact /\ tasks[w] + 1 \in Nat
  BY DEF IInv, TypeOK
<1>3. TypeOK'
  BY <1>1, <1>2 DEF TypeOK
<1>4. CountIsExact'
  <2>1. ~ HasSlot(w, tasks[w] + 1)
    BY <1>2 DEF HasSlot, TypeOK
  <2>2. \A u \in Worker : (InHand(u)' <=> InHand(u)) /\ tasks[u] \in Nat
    BY <1>1, <1>2 DEF InHand, TypeOK
  <2>3. /\ tasks'[w] = tasks[w] + 1
        /\ \A u \in Worker \ {w} : tasks'[u] = tasks[u]
    BY <1>1, <1>2 DEF TypeOK
  <2>4. \A u \in Worker, k \in Nat :
          HasSlot(u, k)' <=> HasSlot(u, k) \/ (u = w /\ k = tasks[w] + 1)
    <3> SUFFICES ASSUME NEW u \in Worker, NEW k \in Nat
                 PROVE  HasSlot(u, k)' <=> HasSlot(u, k) \/ (u = w /\ k = tasks[w] + 1)
      OBVIOUS
    <3>1. CASE k = 0
      BY <2>2, <3>1 DEF HasSlot
    <3>2. CASE k # 0
      BY <2>2, <2>3, <3>2 DEF HasSlot
    <3> QED
      BY <3>1, <3>2
  <2>5. live \in Nat
    BY <1>2 DEF TypeOK
  <2> QED
    BY <1>1, <1>2, <2>1, <2>4, <2>5, SlotAdded
<1>5. Attempting' /\ HandsAreActive' /\ LeaversLeave'
  BY <1>1 DEF IInv, Attempting, HandsAreActive, LeaversLeave
<1>6. DequesAreWorkedOn'
  BY <1>1, <1>2 DEF IInv, DequesAreWorkedOn, TypeOK
<1>7. TerminalIsLast'
  BY <1>1, RunningIsCounted DEF TerminalIsLast
<1> QED
  BY <1>3, <1>4, <1>5, <1>6, <1>7 DEF IInv

LEMMA FinishTaskStep ==
  ASSUME IInv, NEW w \in Worker, FinishTask(w)
  PROVE  IInv'
<1> USE DEF Goto
<1>1. /\ pc[w] = "work" /\ live' = live - 1
      /\ UNCHANGED <<status, next, sem, active, done, made, loc>>
  BY DEF FinishTask, elasticVars
<1>2. TypeOK /\ CountIsExact /\ tasks[w] \in Nat /\ live \in Nat
  BY DEF IInv, TypeOK
<1>3. /\ live >= 1 /\ HasSlot(w, 0) /\ w \in active
      /\ ~ loc[w].current /\ ~ loc[w].leaving
      /\ ~ done /\ \A u \in Worker : pc[u] # "terminal"
  BY <1>1, RunningIsCounted
<1>4. CASE /\ tasks' = tasks /\ tasks[w] = 0
           /\ \/ live = 1 /\ pc' = [pc EXCEPT ![w] = "terminal"]
              \/ live > 1 /\ pc' = [pc EXCEPT ![w] = "enter"]
  <2>1. TypeOK'
    BY <1>1, <1>2, <1>4 DEF TypeOK, PC
  <2>2. pc'[w] \in {"terminal", "enter"} /\ \A u \in Worker \ {w} : pc'[u] = pc[u]
    BY <1>2, <1>4 DEF TypeOK
  <2>3. \A u \in Worker, k \in Nat : HasSlot(u, k)' <=> HasSlot(u, k) /\ ~ (u = w /\ k = 0)
    BY <1>1, <1>3, <1>4, <2>2 DEF HasSlot, InHand
  <2>4. CountIsExact'
    BY <1>1, <1>2, <1>3, <2>3, SlotRemoved
  <2>5. Attempting' /\ HandsAreActive' /\ LeaversLeave' /\ DequesAreWorkedOn'
    BY <1>1, <1>3, <1>4, <2>2 DEF IInv, Attempting, HandsAreActive, LeaversLeave,
                                  DequesAreWorkedOn
  <2>6. TerminalIsLast'
    BY <1>1, <1>2, <1>3, <1>4, <2>2 DEF TerminalIsLast, TypeOK
  <2> QED
    BY <2>1, <2>4, <2>5, <2>6 DEF IInv
<1>5. CASE live > 1 /\ tasks[w] > 0 /\ tasks' = [tasks EXCEPT ![w] = tasks[w] - 1] /\ pc' = pc
  <2>1. TypeOK'
    BY <1>1, <1>2, <1>5 DEF TypeOK
  <2>2. \A u \in Worker, k \in Nat :
          HasSlot(u, k)' <=> HasSlot(u, k) /\ ~ (u = w /\ k = tasks[w])
    BY <1>1, <1>2, <1>5 DEF HasSlot, InHand, TypeOK
  <2>3. HasSlot(w, tasks[w])
    BY <1>2, <1>5 DEF HasSlot
  <2>4. CountIsExact'
    BY <1>1, <1>2, <2>2, <2>3, SlotRemoved
  <2>5. Attempting' /\ HandsAreActive' /\ LeaversLeave'
    BY <1>1, <1>5 DEF IInv, Attempting, HandsAreActive, LeaversLeave
  <2>6. DequesAreWorkedOn'
    BY <1>1, <1>2, <1>5 DEF IInv, DequesAreWorkedOn, TypeOK
  <2>7. TerminalIsLast'
    BY <1>1, <1>3, <1>5 DEF TerminalIsLast
  <2> QED
    BY <2>1, <2>4, <2>5, <2>6, <2>7 DEF IInv
<1>6. live = 1 => tasks[w] = 0
  <2> SUFFICES ASSUME live = 1, tasks[w] > 0 PROVE FALSE
    BY <1>2
  <2>1. <<w, 0>> \in Slots /\ <<w, 1>> \in Slots /\ <<w, 0>> # <<w, 1>>
    BY <1>2, <1>3 DEF Slots, HasSlot
  <2>2. Cardinality(Slots) = 1 /\ IsFiniteSet(Slots)
    BY <1>2 DEF CountIsExact
  <2>3. PICK s : Slots = {s}
    BY <2>2, FS_Singleton
  <2> QED
    BY <2>1, <2>3
<1>7. \/ live = 1 /\ tasks' = tasks /\ pc' = [pc EXCEPT ![w] = "terminal"]
      \/ live > 1 /\ tasks[w] > 0 /\ tasks' = [tasks EXCEPT ![w] = tasks[w] - 1] /\ pc' = pc
      \/ live > 1 /\ tasks[w] = 0 /\ tasks' = tasks /\ pc' = [pc EXCEPT ![w] = "enter"]
  BY DEF FinishTask
<1>8. CASE live = 1 /\ tasks' = tasks /\ pc' = [pc EXCEPT ![w] = "terminal"]
  BY <1>4, <1>6, <1>8
<1>9. CASE live > 1 /\ tasks[w] = 0 /\ tasks' = tasks /\ pc' = [pc EXCEPT ![w] = "enter"]
  BY <1>4, <1>9
<1> QED
  BY <1>5, <1>7, <1>8, <1>9

LEMMA RunTerminalStep ==
  ASSUME IInv, NEW w \in Worker, RunTerminal(w)
  PROVE  IInv'
<1>1. /\ pc[w] = "terminal" /\ pc' = [pc EXCEPT ![w] = "enter"] /\ done' = TRUE
      /\ UNCHANGED <<status, next, sem, active, tasks, made, live, loc>>
  BY DEF RunTerminal, Goto, elasticVars, taskVars
<1>2. TypeOK /\ CountIsExact /\ pc'[w] = "enter" /\ \A u \in Worker \ {w} : pc'[u] = pc[u]
  BY <1>1 DEF IInv, TypeOK
<1>3. TypeOK'
  BY <1>1, <1>2 DEF TypeOK, PC
<1>4. CountIsExact'
  <2>1. \A u \in Worker : InHand(u)' <=> InHand(u)
    BY <1>1, <1>2 DEF InHand
  <2> QED
    BY <1>1, <1>2, <2>1, SameSlots
<1>5. Attempting' /\ HandsAreActive' /\ LeaversLeave' /\ DequesAreWorkedOn'
  BY <1>1, <1>2 DEF IInv, Attempting, HandsAreActive, LeaversLeave, DequesAreWorkedOn
<1>6. TerminalIsLast'
  BY <1>1 DEF IInv, TerminalIsLast
<1> QED
  BY <1>3, <1>4, <1>5, <1>6 DEF IInv

LEMMA StealStep ==
  ASSUME IInv, NEW w \in Worker, Steal(w)
  PROVE  IInv'
<1> DEFINE v == loc[w].target
           r == [loc[w] EXCEPT !.current = TRUE]
<1>1. TypeOK /\ CountIsExact /\ v \in Worker /\ tasks[v] \in Nat /\ loc[w] \in LocalsType
  BY DEF IInv, TypeOK, LocalsType
<1>2. r \in LocalsType /\ r.current /\ r.i = loc[w].i /\ r.leaving = loc[w].leaving
  BY <1>1 DEF LocalsType
<1>3. /\ pc[w] = "steal" /\ UNCHANGED <<status, next, sem, active, done, made, live>>
      /\ \/ /\ tasks[v] > 0 /\ tasks' = [tasks EXCEPT ![v] = tasks[v] - 1]
            /\ loc' = [loc EXCEPT ![w] = r] /\ pc' = [pc EXCEPT ![w] = "setBusy"]
         \/ tasks' = tasks /\ loc' = loc /\ pc' = [pc EXCEPT ![w] = "lower"]
  BY DEF Steal, Goto, elasticVars
<1>4. w \in active /\ ~ InHand(w) /\ ~ loc[w].leaving
  BY <1>3 DEF IInv, HandsAreActive, LeaversLeave, InHand
<1>5. pc'[w] \in {"setBusy", "lower"} /\ \A u \in Worker \ {w} : pc'[u] = pc[u]
  BY <1>1, <1>3 DEF TypeOK
<1> HIDE DEF r
<1>6. CASE /\ tasks[v] > 0 /\ tasks' = [tasks EXCEPT ![v] = tasks[v] - 1]
           /\ loc' = [loc EXCEPT ![w] = r] /\ pc' = [pc EXCEPT ![w] = "setBusy"]
  <2> HIDE DEF v
  <2>1. /\ loc' \in [Worker -> LocalsType] /\ loc'[w] = r
        /\ \A u \in Worker \ {w} : loc'[u] = loc[u]
    BY <1>1, <1>2, <1>6, Relocated
  <2>2. pc'[w] = "setBusy"
    BY <1>1, <1>6 DEF TypeOK
  <2>3. TypeOK'
    BY <1>1, <1>3, <1>6, <2>1 DEF TypeOK, PC, LocalsType
  <2>4. /\ tasks'[v] = tasks[v] - 1 /\ \A u \in Worker \ {v} : tasks'[u] = tasks[u]
        /\ \A u \in Worker : tasks[u] \in Nat
    BY <1>1, <1>6 DEF TypeOK
  <2>5. InHand(w)' /\ \A u \in Worker \ {w} : InHand(u)' <=> InHand(u)
    BY <1>2, <1>5, <2>1 DEF InHand
  <2>6. HasSlot(v, tasks[v]) /\ ~ HasSlot(w, 0)
    BY <1>1, <1>4, <1>6 DEF HasSlot
  <2>7. \A u \in Worker, k \in Nat :
          HasSlot(u, k)' <=> (HasSlot(u, k) /\ ~ (u = v /\ k = tasks[v])) \/ (u = w /\ k = 0)
    <3> SUFFICES ASSUME NEW u \in Worker, NEW k \in Nat
                 PROVE  HasSlot(u, k)' <=> \/ HasSlot(u, k) /\ ~ (u = v /\ k = tasks[v])
                                           \/ u = w /\ k = 0
      OBVIOUS
    <3>1. CASE k = 0
      BY <1>6, <2>5, <3>1 DEF HasSlot
    <3>2. CASE k # 0
      BY <1>6, <2>4, <3>2 DEF HasSlot
    <3> QED
      BY <3>1, <3>2
  <2>8. CountIsExact'
    BY <1>1, <1>3, <2>6, <2>7, SlotMoved
  <2>9. Attempting' /\ HandsAreActive' /\ LeaversLeave'
    BY <1>2, <1>3, <1>4, <1>5, <2>1, <2>2 DEF IInv, Attempting, HandsAreActive, LeaversLeave
  <2>10. \A u \in Worker : tasks'[u] > 0 => tasks[u] > 0
    BY <1>6, <2>4
  <2>11. DequesAreWorkedOn'
    <3>1. tasks[w] = 0
      BY <1>3, <2>4 DEF IInv, DequesAreWorkedOn
    <3> QED
      BY <1>5, <2>10, <3>1 DEF IInv, DequesAreWorkedOn
  <2>12. TerminalIsLast'
    BY <1>3, <1>5 DEF IInv, TerminalIsLast
  <2> QED
    BY <2>3, <2>8, <2>9, <2>11, <2>12 DEF IInv
<1>7. CASE tasks' = tasks /\ loc' = loc /\ pc' = [pc EXCEPT ![w] = "lower"]
  <2>1. TypeOK'
    BY <1>1, <1>3, <1>7 DEF TypeOK, PC
  <2>2. pc'[w] = "lower"
    BY <1>1, <1>7 DEF TypeOK
  <2>3. CountIsExact'
    <3>1. \A u \in Worker : InHand(u)' <=> InHand(u)
      BY <1>3, <1>5, <1>7, <2>2 DEF InHand
    <3> QED
      BY <1>1, <1>3, <1>7, <3>1, SameSlots
  <2>4. Attempting' /\ HandsAreActive' /\ LeaversLeave'
    BY <1>3, <1>4, <1>5, <1>7, <2>2 DEF IInv, Attempting, HandsAreActive, LeaversLeave, InHand
  <2>5. DequesAreWorkedOn' /\ TerminalIsLast'
    BY <1>3, <1>5, <1>7 DEF IInv, DequesAreWorkedOn, TerminalIsLast
  <2> QED
    BY <2>1, <2>3, <2>4, <2>5 DEF IInv
<1> QED
  BY <1>3, <1>6, <1>7

(* At the end of a turn: who has a task in hand works on it, and who is    *)
(* told to leave has none. *)
LEMMA CheckStep ==
  ASSUME IInv, NEW w \in Worker, Check(w)
  PROVE  IInv'
<1>1. TypeOK /\ CountIsExact /\ loc[w] \in LocalsType
  BY DEF IInv, TypeOK, LocalsType
<1>2. pc[w] = "check" /\ UNCHANGED <<status, next, sem, active, done, tasks, made, live>>
  BY DEF Check, elasticVars, taskVars
<1>3. ~ loc[w].leaving
  BY <1>2 DEF IInv, LeaversLeave
<1>4. CASE /\ MayLeave /\ loc' = [loc EXCEPT ![w].leaving = TRUE]
           /\ pc' = [pc EXCEPT ![w] = "setBusy"]
  <2> DEFINE r == [loc[w] EXCEPT !.leaving = TRUE]
  <2>1. r \in LocalsType /\ r.leaving /\ r.current = loc[w].current /\ r.i = loc[w].i
    BY <1>1 DEF LocalsType
  <2>2. loc' = [loc EXCEPT ![w] = r]
    BY <1>4
  <2> HIDE DEF r
  <2>3. /\ loc' \in [Worker -> LocalsType] /\ loc'[w] = r
        /\ \A u \in Worker \ {w} : loc'[u] = loc[u]
    BY <1>1, <2>1, <2>2, Relocated
  <2>4. pc'[w] = "setBusy" /\ \A u \in Worker \ {w} : pc'[u] = pc[u]
    BY <1>1, <1>4 DEF TypeOK
  <2>5. ~ loc[w].current
    <3> SUFFICES ASSUME loc[w].current PROVE FALSE
      OBVIOUS
    <3>1. HasSlot(w, 0)
      BY DEF HasSlot, InHand
    <3> QED
      BY <1>4, <3>1, Counted, NoneLeft
  <2>6. TypeOK'
    BY <1>1, <1>2, <1>4, <2>3 DEF TypeOK, PC, LocalsType
  <2>7. CountIsExact'
    <3>1. \A u \in Worker : InHand(u)' <=> InHand(u)
      BY <1>2, <2>1, <2>3, <2>4 DEF InHand
    <3> QED
      BY <1>1, <1>2, <3>1, SameSlots
  <2>8. Attempting' /\ HandsAreActive' /\ LeaversLeave'
    BY <1>2, <2>1, <2>3, <2>4, <2>5 DEF IInv, Attempting, HandsAreActive, LeaversLeave
  <2>9. DequesAreWorkedOn' /\ TerminalIsLast'
    BY <1>2, <2>4 DEF IInv, DequesAreWorkedOn, TerminalIsLast
  <2> QED
    BY <2>6, <2>7, <2>8, <2>9 DEF IInv
<1>5. CASE /\ loc' = [loc EXCEPT ![w] = Locals(w)]
           /\ pc' = [pc EXCEPT ![w] = IF loc[w].current THEN "work" ELSE "choose"]
  <2>1. /\ Locals(w) \in LocalsType
        /\ ~ Locals(w).current /\ ~ Locals(w).leaving
    BY DEF Locals, LocalsType, Word, StatusWord
  <2>2. /\ loc' \in [Worker -> LocalsType] /\ loc'[w] = Locals(w)
        /\ \A u \in Worker \ {w} : loc'[u] = loc[u]
    BY <1>1, <1>5, <2>1, Relocated
  <2>3. /\ pc'[w] = IF loc[w].current THEN "work" ELSE "choose"
        /\ \A u \in Worker \ {w} : pc'[u] = pc[u]
    BY <1>1, <1>5 DEF TypeOK
  <2>4. pc' \in [Worker -> PC]
    BY <1>1, <1>5 DEF TypeOK, PC
  <2>5. TypeOK'
    BY <1>1, <1>2, <2>2, <2>4 DEF TypeOK, LocalsType
  <2>6. CountIsExact'
    <3>1. \A u \in Worker : InHand(u)' <=> InHand(u)
      BY <1>2, <2>1, <2>2, <2>3 DEF InHand
    <3> QED
      BY <1>1, <1>2, <3>1, SameSlots
  <2>7. Attempting' /\ HandsAreActive' /\ LeaversLeave'
    BY <1>2, <2>1, <2>2, <2>3 DEF IInv, Attempting, HandsAreActive, LeaversLeave
  <2>8. DequesAreWorkedOn' /\ TerminalIsLast'
    BY <1>2, <2>3 DEF IInv, DequesAreWorkedOn, TerminalIsLast
  <2> QED
    BY <2>5, <2>6, <2>7, <2>8 DEF IInv
<1> QED
  BY <1>4, <1>5 DEF Check, Goto

LEMMA StepInv == IInv /\ [Next]_vars => IInv'
<1> SUFFICES ASSUME IInv, [Next]_vars PROVE IInv'
  OBVIOUS
<1>1. ASSUME NEW w \in Worker, Step(w) PROVE IInv'
  BY <1>1, WaitingStep, SleepStep, WakeStep, MakeTaskStep, FinishTaskStep, RunTerminalStep,
     StealStep, CheckStep DEF Step
<1>2. CASE UNCHANGED vars
  <2>1. CountIsExact'
    BY <1>2, SameSlots DEF vars, IInv, InHand
  <2> QED
    BY <1>2, <2>1 DEF vars, IInv, TypeOK, Attempting, HandsAreActive, LeaversLeave,
                      DequesAreWorkedOn, TerminalIsLast
<1> QED
  BY <1>1, <1>2 DEF Next

LEMMA InvHolds == Spec => []IInv
  BY InitInv, StepInv, PTL DEF Spec

-----------------------------------------------------------------------------
(* The variables of the elastic loop keep their types: no list leads       *)
(* outside the workers, no count of attempts, tasks or posts is negative   *)
(* (acquire, try_to_sleep and wake_children).                              *)
THEOREM TypeCorrect == Spec => []TypeOK
<1>1. IInv => TypeOK
  BY DEF IInv
<1> QED
  BY <1>1, InvHolds, PTL

(* The detector reports termination, and should_terminate is set, only     *)
(* when no task is left, and no worker leaves acquire with a task that it  *)
(* has stolen (the assert of line 245 of mcsl_chaselev.hpp).               *)
THEOREM NoTaskIsDropped == Spec => []TerminationIsSound
<1>1. IInv => TerminationIsSound
  <2> SUFFICES ASSUME IInv, MayLeave, NEW w \in Worker
               PROVE  live = 0 /\ ~ loc[w].current
    BY DEF TerminationIsSound
  <2>1. live = 0
    BY NoneLeft
  <2>2. loc[w].current => HasSlot(w, 0)
    BY DEF HasSlot, InHand
  <2> QED
    BY <2>1, <2>2, Counted
<1> QED
  BY <1>1, InvHolds, PTL

-----------------------------------------------------------------------------
(* The lists of children.                                                  *)

(* A worker on a list is followed by another one, or by the owner. *)
LEMMA ListGoesOn ==
  ASSUME NEW p \in Worker, NEW x \in Worker, next \in [Worker -> Worker],
         NEW y \in Listed(p, x)
  PROVE  next[y] \in Listed(p, x) \cup {p}
<1>1. y \in Worker \ {p} /\ next[y] \in Worker
  BY DEF Listed
<1>2. \A S \in SUBSET Worker : x \in S /\ Closed(p, S) => next[y] \in S
  BY <1>1 DEF Listed, Closed
<1> QED
  BY <1>1, <1>2 DEF Listed

(* The list that starts at its owner is empty. *)
LEMMA NoList == ASSUME NEW p \in Worker PROVE Listed(p, p) = {}
<1>1. {p} \in SUBSET Worker /\ p \in {p} /\ Closed(p, {p})
  BY DEF Closed
<1> QED
  BY <1>1 DEF Listed

(* Any other list is its first worker and the list that starts at the next.*)
LEMMA ListUnfolds ==
  ASSUME NEW p \in Worker, NEW x \in Worker, x # p, next \in [Worker -> Worker]
  PROVE  Listed(p, x) = {x} \cup Listed(p, next[x])
<1>1. x \in Listed(p, x)
  BY DEF Listed
<1>2. ASSUME NEW w \in Listed(p, next[x]) PROVE w \in Listed(p, x)
  <2>1. w \in Worker \ {p}
    BY DEF Listed
  <2>2. ASSUME NEW S \in SUBSET Worker, x \in S, Closed(p, S) PROVE w \in S
    <3>1. next[x] \in S
      BY <2>2 DEF Closed
    <3> QED
      BY <2>2, <3>1 DEF Listed
  <2> QED
    BY <2>1, <2>2 DEF Listed
<1>3. ASSUME NEW w \in Listed(p, x), w # x PROVE w \in Listed(p, next[x])
  <2>1. w \in Worker \ {p}
    BY DEF Listed
  <2>2. ASSUME NEW S \in SUBSET Worker, next[x] \in S, Closed(p, S) PROVE w \in S
    <3>1. S \cup {x} \in SUBSET Worker /\ x \in S \cup {x} /\ Closed(p, S \cup {x})
      BY <2>2 DEF Closed
    <3>2. w \in S \cup {x}
      BY <3>1 DEF Listed
    <3> QED
      BY <3>2, <1>3
  <2> QED
    BY <2>1, <2>2 DEF Listed
<1> QED
  BY <1>1, <1>2, <1>3

(* A list is the same as long as the next fields of its workers are. *)
LEMMA ListUndisturbed ==
  ASSUME NEW p \in Worker, NEW x \in Worker,
         next \in [Worker -> Worker], next' \in [Worker -> Worker],
         \A y \in Listed(p, x) : next'[y] = next[y]
  PROVE  Listed(p, x)' = Listed(p, x)
<1>1. PICK T : T = Listed(p, x) \cup {p}
  OBVIOUS
<1>2. T \in SUBSET Worker /\ x \in T
  BY <1>1 DEF Listed
<1>3. \A y \in T \ {p} : next[y] \in T /\ next'[y] \in T
  BY <1>1, ListGoesOn
<1>4. ASSUME NEW w \in Listed(p, x)' PROVE w \in Listed(p, x)
  <2>1. w \in Worker \ {p}
    BY DEF Listed
  <2>2. \A S \in SUBSET Worker : x \in S /\ (\A y \in S \ {p} : next'[y] \in S) => w \in S
    BY DEF Listed, Closed
  <2>3. w \in T
    BY <1>2, <1>3, <2>2
  <2> QED
    BY <1>1, <2>1, <2>3
<1>5. ASSUME NEW w \in Listed(p, x) PROVE w \in Listed(p, x)'
  <2>1. w \in Worker \ {p}
    BY DEF Listed
  <2>2. ASSUME NEW S \in SUBSET Worker, x \in S, \A y \in S \ {p} : next'[y] \in S
        PROVE  w \in S
    <3>1. \A y \in (S \cap T) \ {p} : next[y] \in S \cap T
      BY <1>1, <1>3, <2>2
    <3>2. S \cap T \in SUBSET Worker /\ x \in S \cap T /\ Closed(p, S \cap T)
      BY <1>2, <2>2, <3>1 DEF Closed
    <3> QED
      BY <3>2 DEF Listed
  <2> QED
    BY <2>1, <2>2 DEF Listed, Closed
<1> QED
  BY <1>4, <1>5

(* A list that ends does not come back to its first worker. *)
LEMMA NotAhead ==
  ASSUME NEW p \in Worker, NEW x \in Worker, x # p, next \in [Worker -> Worker],
         \A S \in SUBSET Listed(p, x) : S # {} => \E y \in S : next[y] \notin S
  PROVE  x \notin Listed(p, next[x])
<1> SUFFICES ASSUME x \in Listed(p, next[x]) PROVE FALSE
  OBVIOUS
<1>1. next[x] \in Worker /\ Listed(p, x) = {x} \cup Listed(p, next[x])
  BY ListUnfolds
<1>2. PICK C : C = {z \in Listed(p, next[x]) : x \in Listed(p, z)}
  OBVIOUS
<1>3. x \in Listed(p, x)
  BY <1>1
<1>4. C \in SUBSET Listed(p, x) /\ x \in C
  BY <1>1, <1>2, <1>3
<1>5. PICK y \in C : next[y] \notin C
  BY <1>4
<1>6. y \in Listed(p, next[x]) /\ x \in Listed(p, y)
  BY <1>2, <1>5
<1>7. y \in Worker /\ y # p
  BY <1>6 DEF Listed
<1>8. Listed(p, y) = {y} \cup Listed(p, next[y]) /\ next[y] \in Worker
  BY <1>7, ListUnfolds
<1>9. x \in Listed(p, next[y])
  BY <1>6, <1>8
<1>10. next[y] # p
  BY <1>9, NoList
<1>11. next[y] \in Listed(p, next[x])
  BY <1>1, <1>6, <1>10, ListGoesOn
<1> QED
  BY <1>2, <1>5, <1>9, <1>11

-----------------------------------------------------------------------------
(* Who sleeps under whom.                                                  *)

LEMMA PrioType == \A word \in StatusWord : word.prio \in Nat
<1>1. \A p \in Prio \cup {0} : p \in Nat
  BY PrioAssumption DEF PrioAssumption
<1>2. \A word \in StatusWord : word.prio \in Prio \cup {0}
  BY DEF StatusWord
<1> QED
  BY <1>1, <1>2

(* A worker is busy outside acquire, from the moment it sets its busy bit  *)
(* and until accept_lifelines.                                             *)
BusyAt(p) ==
  status[p].busy <=>
    \/ pc[p] \in {"start", "work", "terminal", "enter", "accept", "wake", "post", "exited"}
    \/ pc[p] = "check" /\ loc[p].current

(* Who wakes its children has found a task, or leaves. *)
WakesFor(p) ==
  pc[p] \in {"setBusy", "wake", "post"} => loc[p].current \/ loc[p].leaving

(* The next child was read from the one about to be posted. *)
ReadAhead(p) ==
  pc[p] = "post" => loc[p].idx # p /\ loc[p].nextIdx = next[loc[p].idx]

(* A worker about to link itself has the head that it saw behind it, and   *)
(* saw an idle worker of higher priority.                                  *)
Prepared(w) ==
  pc[w] = "sleepCas" =>
    /\ next[w] = loc[w].word.head
    /\ ~ loc[w].word.busy
    /\ status[w].prio < loc[w].word.prio

(* A semaphore is posted at most once, and only that of a sleeper. *)
PostedOnce(w) == sem[w] = 0 \/ (sem[w] = 1 /\ pc[w] = "sleep")

WorkersFit ==
  \A w \in Worker : BusyAt(w) /\ WakesFor(w) /\ ReadAhead(w) /\ Prepared(w) /\ PostedOnce(w)

(* Where a worker's list starts, or what is left of it. *)
Root(p) ==
  IF pc[p] \in {"wake", "post"} THEN loc[p].idx
  ELSE IF status[p].busy THEN p ELSE status[p].head

(* Every list ends: following it from any worker leads to the owner. *)
ListsEnd ==
  \A p \in Worker : \A S \in SUBSET Children(p) : S # {} => \E y \in S : next[y] \notin S

ChildrenAreAsleep ==
  \A p \in Worker : \A w \in Children(p) : Asleep(w) /\ status[w].prio < status[p].prio

SleepersAreListed ==
  \A w \in Worker : Asleep(w) => \E p \in Worker : w \in Children(p)

OneOwner ==
  \A p, q \in Worker : \A w \in Worker : w \in Children(p) /\ w \in Children(q) => p = q

SleepInv ==
  /\ WorkersFit
  /\ ListsEnd
  /\ ChildrenAreAsleep
  /\ SleepersAreListed
  /\ OneOwner

LEMMA RootType ==
  ASSUME TypeOK, NEW p \in Worker
  PROVE  Root(p) \in Worker
BY DEF TypeOK, Root, StatusWord

LEMMA ChildrenFromRoot ==
  ASSUME TypeOK, NEW p \in Worker, ReadAhead(p)
  PROVE  Children(p) = Listed(p, Root(p))
<1>1. CASE pc[p] = "wake"
  BY <1>1 DEF Children, Root
<1>2. CASE pc[p] = "post"
  <2>1. loc[p].idx \in Worker /\ loc[p].idx # p /\ loc[p].nextIdx = next[loc[p].idx]
    BY <1>2 DEF TypeOK, ReadAhead
  <2>2. Listed(p, loc[p].idx) = {loc[p].idx} \cup Listed(p, next[loc[p].idx])
    BY <2>1, ListUnfolds DEF TypeOK
  <2> QED
    BY <1>2, <2>1, <2>2 DEF Children, Root
<1>3. CASE pc[p] \notin {"wake", "post"} /\ ~ status[p].busy
  BY <1>3 DEF Children, Root
<1>4. CASE pc[p] \notin {"wake", "post"} /\ status[p].busy
  BY <1>4, NoList DEF Children, Root
<1> QED
  BY <1>1, <1>2, <1>3, <1>4

LEMMA ChildrenNow ==
  TypeOK /\ (\A p \in Worker : ReadAhead(p))
    => \A p \in Worker : Children(p) = Listed(p, Root(p))
BY ChildrenFromRoot

LEMMA ChildrenNext ==
  (TypeOK /\ (\A p \in Worker : ReadAhead(p))
    => \A p \in Worker : Children(p) = Listed(p, Root(p)))'
BY ChildrenNow, PTL

(* Only workers other than the owner are on a list. *)
LEMMA ChildrenType ==
  ASSUME TypeOK, NEW p \in Worker, ReadAhead(p)
  PROVE  Children(p) \subseteq Worker \ {p}
BY ChildrenFromRoot DEF Listed

LEMMA SleepInit == Init => SleepInv
<1> SUFFICES ASSUME Init PROVE SleepInv
  OBVIOUS
<1>1. TypeOK
  BY InitInv DEF IInv
<1>2. PICK p \in Prio : status = [w \in Worker |-> Clear(w, p, TRUE)]
  BY DEF Init
<1>3. \A w \in Worker : pc[w] \in {"start", "work"} /\ status[w].busy /\ sem[w] = 0
  BY <1>2 DEF Init, Clear, Word
<1>4. WorkersFit
  BY <1>3 DEF WorkersFit, BusyAt, WakesFor, ReadAhead, Prepared, PostedOnce
<1>5. \A w \in Worker : Children(w) = {} /\ ~ Asleep(w)
  BY <1>3 DEF Children, Asleep
<1> QED
  BY <1>4, <1>5 DEF SleepInv, ListsEnd, ChildrenAreAsleep, SleepersAreListed, OneOwner

(* A step of one worker that leaves the lists alone: the worker is awake   *)
(* before and after. *)
LEMMA OwnStep ==
  ASSUME TypeOK, TypeOK', SleepInv, NEW w \in Worker,
         \A u \in Worker \ {w} :
           /\ pc'[u] = pc[u] /\ loc'[u] = loc[u] /\ status'[u] = status[u]
           /\ next'[u] = next[u] /\ sem'[u] = sem[u],
         ~ Asleep(w), ~ Asleep(w)', sem'[w] = 0,
         Root(w)' = Root(w),
         status'[w].prio = status[w].prio \/ Root(w) = w,
         BusyAt(w)', WakesFor(w)', ReadAhead(w)', Prepared(w)'
  PROVE  SleepInv'
<1> USE DEF SleepInv
<1>1. \A p \in Worker : ReadAhead(p)
  BY DEF WorkersFit
<1>2. \A p \in Worker : Children(p) = Listed(p, Root(p)) /\ Root(p) \in Worker
  BY <1>1, ChildrenFromRoot, RootType
<1>3. \A p \in Worker : w \notin Children(p)
  BY DEF ChildrenAreAsleep
<1>4. \A u \in Worker : Root(u)' = Root(u)
  BY DEF Root
<1>5. ASSUME NEW u \in Worker, u # w PROVE ReadAhead(u)'
  <2>1. CASE pc[u] = "post"
    <3>1. loc[u].idx \in Children(u) /\ loc[u].idx \in Worker
      BY <2>1 DEF Children, TypeOK
    <3>2. next'[loc[u].idx] = next[loc[u].idx]
      BY <1>3, <3>1
    <3> QED
      BY <1>1, <1>5, <3>2 DEF ReadAhead
  <2>2. CASE pc[u] # "post"
    BY <1>5, <2>2 DEF ReadAhead
  <2> QED
    BY <2>1, <2>2
<1>6. WorkersFit'
  <2>1. ASSUME NEW u \in Worker, u # w
        PROVE  BusyAt(u)' /\ WakesFor(u)' /\ Prepared(u)' /\ PostedOnce(u)'
    BY <2>1 DEF WorkersFit, BusyAt, WakesFor, Prepared, PostedOnce
  <2>2. PostedOnce(w)'
    BY DEF PostedOnce
  <2> QED
    BY <1>5, <2>1, <2>2 DEF WorkersFit
<1>7. ASSUME NEW p \in Worker PROVE Children(p)' = Children(p)
  <2>1. PICK x \in Worker : x = Root(p)
    BY <1>2
  <2>2. Root(p)' = x /\ Children(p) = Listed(p, x)
    BY <1>2, <1>4, <2>1
  <2>3. \A y \in Listed(p, x) : y \in Worker /\ next'[y] = next[y]
    BY <1>3, <2>2 DEF Listed
  <2>4. Listed(p, x)' = Listed(p, x)
    <3>1. next \in [Worker -> Worker] /\ next' \in [Worker -> Worker]
      BY DEF TypeOK
    <3> HIDE DEF Listed
    <3> QED
      BY <2>3, <3>1, ListUndisturbed, SMTT(30)
  <2>5. Children(p)' = Listed(p, Root(p))'
    BY <1>6, ChildrenNext DEF WorkersFit
  <2>6. Listed(p, Root(p))' = Listed(p, x)'
    BY <2>2 DEF Listed
  <2> QED
    BY <2>2, <2>4, <2>5, <2>6
<1>8. \A u \in Worker : Asleep(u)' <=> Asleep(u)
  BY DEF Asleep
<1>9. ListsEnd'
  <2>1. ASSUME NEW p \in Worker, NEW S \in SUBSET Children(p), S # {}
        PROVE  \E y \in S : next'[y] \notin S
    <3>1. PICK y \in S : next[y] \notin S
      BY <2>1 DEF ListsEnd
    <3>2. y \in Worker /\ y # w
      BY <1>2, <1>3, <3>1 DEF Listed
    <3> QED
      BY <3>1, <3>2
  <2> QED
    BY <1>7, <2>1 DEF ListsEnd
<1>10. ChildrenAreAsleep'
  <2>1. ASSUME NEW p \in Worker, NEW u \in Children(p)
        PROVE  Asleep(u)' /\ status'[u].prio < status'[p].prio
    <3>1. u \in Worker /\ u # w /\ Asleep(u) /\ status[u].prio < status[p].prio
      BY <1>2, <1>3 DEF Listed, ChildrenAreAsleep
    <3>2. p = w => Root(w) # w
      BY <1>2, NoList
    <3> QED
      BY <1>8, <3>1, <3>2
  <2> QED
    BY <1>7, <2>1 DEF ChildrenAreAsleep
<1>11. SleepersAreListed' /\ OneOwner'
  BY <1>7, <1>8 DEF SleepersAreListed, OneOwner
<1> QED
  BY <1>6, <1>9, <1>10, <1>11

(* The steps that change no status word but the worker's own, and no       *)
(* semaphore. *)
LEMMA WorkingStep ==
  ASSUME IInv, TypeOK', SleepInv, NEW w \in Worker,
         \/ Start(w) \/ MakeTask(w) \/ FinishTask(w) \/ RunTerminal(w) \/ EnterAcquire(w)
         \/ Raise(w)
  PROVE  SleepInv'
<1>1. TypeOK
  BY DEF IInv
<1>2. /\ pc[w] \in {"start", "work", "terminal", "enter", "raise"}
      /\ UNCHANGED <<status, next, sem, loc>>
      /\ \/ pc' = pc
         \/ /\ pc[w] # "raise"
            /\ \/ pc' = [pc EXCEPT ![w] = "enter"]
               \/ pc' = [pc EXCEPT ![w] = "terminal"]
               \/ pc' = [pc EXCEPT ![w] = "accept"]
         \/ pc[w] = "raise" /\ pc' = [pc EXCEPT ![w] = "steal"]
  BY DEF Start, MakeTask, FinishTask, RunTerminal, EnterAcquire, Raise, Goto, elasticVars
<1>3. /\ \A u \in Worker \ {w} : pc'[u] = pc[u]
      /\ \/ pc'[w] = pc[w]
         \/ pc[w] # "raise" /\ pc'[w] \in {"enter", "terminal", "accept"}
         \/ pc[w] = "raise" /\ pc'[w] = "steal"
  BY <1>1, <1>2 DEF TypeOK
<1>4. BusyAt(w) /\ PostedOnce(w)
  BY DEF SleepInv, WorkersFit
<1>5. ~ Asleep(w) /\ ~ Asleep(w)' /\ sem'[w] = 0
  BY <1>2, <1>3, <1>4 DEF Asleep, PostedOnce
<1>6. Root(w)' = Root(w)
  BY <1>2, <1>3 DEF Root
<1>7. BusyAt(w)' /\ WakesFor(w)' /\ ReadAhead(w)' /\ Prepared(w)'
  BY <1>2, <1>3, <1>4 DEF BusyAt, WakesFor, ReadAhead, Prepared
<1> QED
  BY <1>1, <1>2, <1>3, <1>5, <1>6, <1>7, OwnStep

LEMMA AcceptStep ==
  ASSUME IInv, TypeOK', SleepInv, NEW w \in Worker, AcceptLifelines(w)
  PROVE  SleepInv'
<1>1. TypeOK
  BY DEF IInv
<1>2. PICK p \in Prio : status' = [status EXCEPT ![w] = Clear(w, p, FALSE)]
  BY DEF AcceptLifelines
<1>3. /\ pc[w] = "accept" /\ UNCHANGED <<next, sem, loc>> /\ pc' = [pc EXCEPT ![w] = "choose"]
  BY DEF AcceptLifelines, Goto
<1>4. /\ pc'[w] = "choose" /\ status'[w].head = w /\ ~ status'[w].busy
      /\ \A u \in Worker \ {w} : pc'[u] = pc[u] /\ status'[u] = status[u]
  BY <1>1, <1>2, <1>3 DEF TypeOK, Clear, Word
<1>5. BusyAt(w) /\ PostedOnce(w)
  BY DEF SleepInv, WorkersFit
<1>6. ~ Asleep(w) /\ ~ Asleep(w)' /\ sem'[w] = 0
  BY <1>3, <1>4, <1>5 DEF Asleep, PostedOnce
<1>7. Root(w) = w /\ Root(w)' = w
  BY <1>3, <1>4, <1>5 DEF Root, BusyAt
<1>8. BusyAt(w)' /\ WakesFor(w)' /\ ReadAhead(w)' /\ Prepared(w)'
  BY <1>3, <1>4 DEF BusyAt, WakesFor, ReadAhead, Prepared
<1> QED
  BY <1>1, <1>3, <1>4, <1>6, <1>7, <1>8, OwnStep

(* The attempts to steal, one that succeeds included. *)
LEMMA StealingStep ==
  ASSUME IInv, TypeOK', SleepInv, NEW w \in Worker, Choose(w) \/ Steal(w) \/ Lower(w)
  PROVE  SleepInv'
<1>1. TypeOK /\ loc[w] \in LocalsType
  BY DEF IInv, TypeOK, LocalsType
<1>2. /\ pc[w] \in {"choose", "steal", "lower"}
      /\ UNCHANGED <<status, next, sem>>
  BY DEF Choose, Steal, Lower, elasticVars
<1>3. /\ \A u \in Worker \ {w} : pc'[u] = pc[u] /\ loc'[u] = loc[u]
      /\ \/ pc'[w] \in {"raise", "lower", "sleepLoad"}
         \/ pc'[w] = "setBusy" /\ loc'[w].current
  <2>1. CASE Choose(w)
    <3>1. PICK v \in Worker : loc' = [loc EXCEPT ![w] = Retarget(loc[w], v, Attempts)]
      BY <2>1 DEF Choose, Others
    <3>2. pc' = [pc EXCEPT ![w] = "raise"]
      BY <2>1 DEF Choose, Goto
    <3> QED
      BY <1>1, <3>1, <3>2 DEF TypeOK
  <2>2. CASE Steal(w)
    <3>1. \/ loc' = [loc EXCEPT ![w].current = TRUE] /\ pc' = [pc EXCEPT ![w] = "setBusy"]
          \/ loc' = loc /\ pc' = [pc EXCEPT ![w] = "lower"]
      BY <2>2 DEF Steal, Goto
    <3>2. loc' = [loc EXCEPT ![w].current = TRUE] => loc'[w].current
      BY <1>1 DEF TypeOK, LocalsType
    <3> QED
      BY <1>1, <3>1, <3>2 DEF TypeOK
  <2>3. CASE Lower(w)
    <3>1. PICK v \in Worker : loc' = [loc EXCEPT ![w] = Retarget(loc[w], v, loc[w].i - 1)]
      BY <2>3 DEF Lower, Others
    <3>2. pc' = [pc EXCEPT ![w] = IF loc[w].i > 1 THEN "raise" ELSE "sleepLoad"]
      BY <2>3 DEF Lower, Goto
    <3> QED
      BY <1>1, <3>1, <3>2 DEF TypeOK
  <2> QED
    BY <2>1, <2>2, <2>3
<1>4. BusyAt(w) /\ PostedOnce(w)
  BY DEF SleepInv, WorkersFit
<1>5. ~ Asleep(w) /\ ~ Asleep(w)' /\ sem'[w] = 0
  BY <1>2, <1>3, <1>4 DEF Asleep, PostedOnce
<1>6. Root(w)' = Root(w)
  BY <1>2, <1>3 DEF Root
<1>7. BusyAt(w)' /\ WakesFor(w)' /\ ReadAhead(w)' /\ Prepared(w)'
  BY <1>2, <1>3, <1>4 DEF BusyAt, WakesFor, ReadAhead, Prepared
<1> QED
  BY <1>1, <1>2, <1>3, <1>5, <1>6, <1>7, OwnStep

(* A worker that wants to sleep looks at its target, and gives up or       *)
(* prepares to link itself. *)
LEMMA SleepLoadStep ==
  ASSUME IInv, TypeOK', SleepInv, NEW w \in Worker, SleepLoad(w)
  PROVE  SleepInv'
<1>1. TypeOK /\ loc[w] \in LocalsType /\ ~ loc[w].current /\ pc[w] = "sleepLoad"
  BY DEF IInv, TypeOK, LocalsType, HandsAreActive, SleepLoad
<1>2. PICK word \in StatusWord : word = status[loc[w].target]
  BY <1>1 DEF TypeOK, LocalsType
<1>3. /\ UNCHANGED <<status, sem>>
      /\ \/ /\ MaySleepUnder(w, word)
            /\ next' = [next EXCEPT ![w] = word.head]
            /\ loc' = [loc EXCEPT ![w] = [loc[w] EXCEPT !.word = word]]
            /\ pc' = [pc EXCEPT ![w] = "sleepCas"]
         \/ pc' = [pc EXCEPT ![w] = "check"] /\ next' = next /\ loc' = loc
  BY <1>2 DEF SleepLoad, Goto
<1>4. [loc[w] EXCEPT !.word = word].word = word /\ word.head \in Worker
  BY <1>1 DEF LocalsType, StatusWord
<1>5. /\ \A u \in Worker \ {w} : pc'[u] = pc[u] /\ loc'[u] = loc[u] /\ next'[u] = next[u]
      /\ \/ /\ pc'[w] = "sleepCas" /\ next'[w] = word.head /\ loc'[w].word = word
            /\ ~ word.busy /\ status[w].prio < word.prio
         \/ pc'[w] = "check" /\ ~ loc'[w].current
  <2>1. CASE /\ MaySleepUnder(w, word)
             /\ next' = [next EXCEPT ![w] = word.head]
             /\ loc' = [loc EXCEPT ![w] = [loc[w] EXCEPT !.word = word]]
             /\ pc' = [pc EXCEPT ![w] = "sleepCas"]
    <3>1. ~ word.busy /\ status[w].prio < word.prio
      <4>1. status[w].prio \in Nat /\ word.prio \in Nat
        BY <1>1, <1>2, PrioType DEF TypeOK
      <4> QED
        BY <2>1, <4>1 DEF MaySleepUnder
    <3> QED
      BY <1>1, <1>4, <2>1, <3>1 DEF TypeOK
  <2>2. CASE pc' = [pc EXCEPT ![w] = "check"] /\ next' = next /\ loc' = loc
    BY <1>1, <2>2 DEF TypeOK
  <2> QED
    BY <1>3, <2>1, <2>2
<1>6. BusyAt(w) /\ PostedOnce(w)
  BY DEF SleepInv, WorkersFit
<1>7. ~ Asleep(w) /\ ~ Asleep(w)' /\ sem'[w] = 0
  BY <1>1, <1>3, <1>5, <1>6 DEF Asleep, PostedOnce
<1>8. Root(w)' = Root(w)
  BY <1>1, <1>3, <1>5 DEF Root
<1>9. BusyAt(w)' /\ WakesFor(w)' /\ ReadAhead(w)' /\ Prepared(w)'
  BY <1>1, <1>3, <1>5, <1>6 DEF BusyAt, WakesFor, ReadAhead, Prepared
<1> QED
  BY <1>1, <1>3, <1>5, <1>7, <1>8, <1>9, OwnStep

LEMMA SemWaitStep ==
  ASSUME IInv, TypeOK', SleepInv, NEW w \in Worker, SemWait(w)
  PROVE  SleepInv'
<1>1. TypeOK /\ ~ loc[w].current /\ pc[w] = "sleep" /\ sem[w] \in Nat
  BY DEF IInv, TypeOK, HandsAreActive, SemWait
<1>2. /\ sem[w] > 0 /\ sem' = [sem EXCEPT ![w] = sem[w] - 1]
      /\ pc' = [pc EXCEPT ![w] = "check"] /\ UNCHANGED <<status, next, loc>>
  BY DEF SemWait, Goto
<1>3. BusyAt(w) /\ PostedOnce(w)
  BY DEF SleepInv, WorkersFit
<1>4. /\ pc'[w] = "check" /\ sem'[w] = 0
      /\ \A u \in Worker \ {w} : pc'[u] = pc[u] /\ sem'[u] = sem[u]
  BY <1>1, <1>2, <1>3 DEF TypeOK, PostedOnce
<1>5. ~ Asleep(w) /\ ~ Asleep(w)'
  BY <1>1, <1>2, <1>4 DEF Asleep
<1>6. Root(w)' = Root(w)
  BY <1>1, <1>2, <1>4 DEF Root
<1>7. BusyAt(w)' /\ WakesFor(w)' /\ ReadAhead(w)' /\ Prepared(w)'
  BY <1>1, <1>2, <1>3, <1>4 DEF BusyAt, WakesFor, ReadAhead, Prepared
<1> QED
  BY <1>1, <1>2, <1>4, <1>5, <1>6, <1>7, OwnStep

(* The steps of wake_children that post nobody. *)
LEMMA WakingStep ==
  ASSUME IInv, TypeOK', SleepInv, NEW w \in Worker, SetBusy(w) \/ WakeRead(w) \/ WakeDone(w)
  PROVE  SleepInv'
<1>1. TypeOK /\ loc[w] \in LocalsType /\ status[w] \in StatusWord
  BY DEF IInv, TypeOK, LocalsType
<1>2. BusyAt(w) /\ PostedOnce(w) /\ WakesFor(w)
  BY DEF SleepInv, WorkersFit
<1>3. pc[w] \in {"setBusy", "wake"} /\ UNCHANGED <<next, sem>>
  BY DEF SetBusy, WakeRead, WakeDone, elasticVars
<1>4. CASE SetBusy(w)
  <2>1. PICK h \in Worker : h = status[w].head
    BY <1>1 DEF StatusWord
  <2>2. /\ pc[w] = "setBusy" /\ pc' = [pc EXCEPT ![w] = "wake"]
        /\ status' = [status EXCEPT ![w] = BusyBitSet(status[w])]
        /\ loc' = [loc EXCEPT ![w] = [loc[w] EXCEPT !.idx = h]]
    BY <1>4, <2>1 DEF SetBusy, Goto
  <2>3. /\ [loc[w] EXCEPT !.idx = h].idx = h
        /\ [loc[w] EXCEPT !.idx = h].current = loc[w].current
        /\ [loc[w] EXCEPT !.idx = h].leaving = loc[w].leaving
    BY <1>1 DEF LocalsType
  <2>4. BusyBitSet(status[w]).busy /\ BusyBitSet(status[w]).prio = status[w].prio
    BY <1>1 DEF BusyBitSet, StatusWord
  <2>5. /\ pc'[w] = "wake" /\ loc'[w].idx = h /\ status'[w].busy
        /\ status'[w].prio = status[w].prio
        /\ loc'[w].current = loc[w].current /\ loc'[w].leaving = loc[w].leaving
        /\ \A u \in Worker \ {w} :
             pc'[u] = pc[u] /\ loc'[u] = loc[u] /\ status'[u] = status[u]
    BY <1>1, <2>2, <2>3, <2>4 DEF TypeOK
  <2>6. ~ Asleep(w) /\ ~ Asleep(w)' /\ sem'[w] = 0
    BY <1>2, <1>3, <2>2, <2>5 DEF Asleep, PostedOnce
  <2>7. Root(w)' = Root(w)
    BY <1>2, <2>1, <2>2, <2>5 DEF Root, BusyAt
  <2>8. BusyAt(w)' /\ WakesFor(w)' /\ ReadAhead(w)' /\ Prepared(w)'
    BY <1>2, <2>2, <2>5 DEF BusyAt, WakesFor, ReadAhead, Prepared
  <2> QED
    BY <1>1, <1>3, <2>5, <2>6, <2>7, <2>8, OwnStep
<1>5. CASE WakeRead(w)
  <2>1. PICK n \in Worker : n = next[loc[w].idx]
    BY <1>1 DEF TypeOK, LocalsType
  <2>2. /\ pc[w] = "wake" /\ loc[w].idx # w /\ pc' = [pc EXCEPT ![w] = "post"]
        /\ status' = status /\ loc' = [loc EXCEPT ![w] = [loc[w] EXCEPT !.nextIdx = n]]
    BY <1>5, <2>1 DEF WakeRead, Goto, elasticVars
  <2>3. /\ [loc[w] EXCEPT !.nextIdx = n].nextIdx = n
        /\ [loc[w] EXCEPT !.nextIdx = n].idx = loc[w].idx
        /\ [loc[w] EXCEPT !.nextIdx = n].current = loc[w].current
        /\ [loc[w] EXCEPT !.nextIdx = n].leaving = loc[w].leaving
    BY <1>1 DEF LocalsType
  <2>4. /\ pc'[w] = "post" /\ loc'[w].nextIdx = n /\ loc'[w].idx = loc[w].idx
        /\ loc'[w].current = loc[w].current /\ loc'[w].leaving = loc[w].leaving
        /\ \A u \in Worker \ {w} : pc'[u] = pc[u] /\ loc'[u] = loc[u]
    BY <1>1, <2>2, <2>3 DEF TypeOK
  <2>5. ~ Asleep(w) /\ ~ Asleep(w)' /\ sem'[w] = 0
    BY <1>2, <1>3, <2>2, <2>4 DEF Asleep, PostedOnce
  <2>6. Root(w)' = Root(w)
    BY <2>2, <2>4 DEF Root
  <2>7. BusyAt(w)' /\ WakesFor(w)' /\ ReadAhead(w)' /\ Prepared(w)'
    BY <1>2, <1>3, <2>1, <2>2, <2>4 DEF BusyAt, WakesFor, ReadAhead, Prepared
  <2> QED
    BY <1>1, <1>3, <2>2, <2>4, <2>5, <2>6, <2>7, OwnStep
<1>6. CASE WakeDone(w)
  <2>1. /\ pc[w] = "wake" /\ loc[w].idx = w /\ loc' = loc /\ status' = status
        /\ pc' = [pc EXCEPT ![w] = IF loc[w].leaving THEN "exited" ELSE "check"]
    BY <1>6 DEF WakeDone, Goto, elasticVars
  <2>2. /\ pc'[w] = IF loc[w].leaving THEN "exited" ELSE "check"
        /\ \A u \in Worker \ {w} : pc'[u] = pc[u]
    BY <1>1, <2>1 DEF TypeOK
  <2>3. ~ Asleep(w) /\ ~ Asleep(w)' /\ sem'[w] = 0
    BY <1>2, <1>3, <2>2, <2>1 DEF Asleep, PostedOnce
  <2>4. Root(w)' = Root(w)
    BY <1>2, <2>1, <2>2 DEF Root, BusyAt
  <2>5. BusyAt(w)' /\ WakesFor(w)' /\ ReadAhead(w)' /\ Prepared(w)'
    BY <1>2, <2>1, <2>2 DEF BusyAt, WakesFor, ReadAhead, Prepared
  <2> QED
    BY <1>1, <1>3, <2>1, <2>2, <2>3, <2>4, <2>5, OwnStep
<1> QED
  BY <1>4, <1>5, <1>6

(* At the end of a turn a worker that leaves has no task in hand, so that  *)
(* it is idle until it sets its busy bit. *)
LEMMA TurnStep ==
  ASSUME IInv, TypeOK', SleepInv, NEW w \in Worker, Check(w)
  PROVE  SleepInv'
<1>1. TypeOK /\ loc[w] \in LocalsType /\ pc[w] = "check" /\ UNCHANGED <<status, next, sem>>
  BY DEF IInv, TypeOK, LocalsType, Check, elasticVars
<1>2. MayLeave => ~ loc[w].current
  <2>1. loc[w].current => HasSlot(w, 0)
    BY DEF HasSlot, InHand
  <2> QED
    BY <2>1, Counted, NoneLeft
<1>3. [loc[w] EXCEPT !.leaving = TRUE].leaving
  BY <1>1 DEF LocalsType
<1>4. \/ /\ MayLeave
         /\ loc' = [loc EXCEPT ![w] = [loc[w] EXCEPT !.leaving = TRUE]]
         /\ pc' = [pc EXCEPT ![w] = "setBusy"]
      \/ /\ loc' = [loc EXCEPT ![w] = Locals(w)]
         /\ pc' = [pc EXCEPT ![w] = IF loc[w].current THEN "work" ELSE "choose"]
  BY DEF Check, Goto
<1>5. /\ \A u \in Worker \ {w} : pc'[u] = pc[u] /\ loc'[u] = loc[u]
      /\ \/ ~ loc[w].current /\ loc'[w].leaving /\ pc'[w] = "setBusy"
         \/ ~ loc[w].current /\ pc'[w] = "choose"
         \/ loc[w].current /\ pc'[w] = "work"
  BY <1>1, <1>2, <1>3, <1>4 DEF TypeOK
<1>6. BusyAt(w) /\ PostedOnce(w)
  BY DEF SleepInv, WorkersFit
<1>7. ~ Asleep(w) /\ ~ Asleep(w)' /\ sem'[w] = 0
  BY <1>1, <1>5, <1>6 DEF Asleep, PostedOnce
<1>8. Root(w)' = Root(w)
  BY <1>1, <1>5 DEF Root
<1>9. BusyAt(w)' /\ WakesFor(w)' /\ ReadAhead(w)' /\ Prepared(w)'
  BY <1>1, <1>5, <1>6 DEF BusyAt, WakesFor, ReadAhead, Prepared
<1> QED
  BY <1>1, <1>5, <1>7, <1>8, <1>9, OwnStep

(* The lists other than v's are the same when they start where they did.   *)
LEMMA OneListChanges ==
  ASSUME TypeOK, TypeOK', WorkersFit, WorkersFit', NEW v \in Worker,
         \A p \in Worker \ {v} : Root(p)' = Root(p),
         next' = next
  PROVE  /\ \A p \in Worker : Children(p) \subseteq Worker \ {p}
         /\ \A p \in Worker \ {v} : Children(p)' = Children(p)
<1>1. \A p \in Worker : Children(p) = Listed(p, Root(p))
  BY ChildrenNow DEF WorkersFit
<1>2. \A p \in Worker : Children(p)' = Listed(p, Root(p))'
  BY ChildrenNext DEF WorkersFit
<1>3. \A p \in Worker \ {v} : Listed(p, Root(p))' = Listed(p, Root(p))
  BY DEF Listed, Closed
<1>4. \A p \in Worker : Listed(p, Root(p)) \subseteq Worker \ {p}
  BY DEF Listed
<1> QED
  BY <1>1, <1>2, <1>3, <1>4

(* The compare-and-swap puts the worker at the head of its target's list.  *)
LEMMA SleepCasStep ==
  ASSUME IInv, TypeOK', SleepInv, NEW w \in Worker, SleepCas(w)
  PROVE  SleepInv'
<1> DEFINE r == [loc[w] EXCEPT !.word = Word(FALSE, 0, w)]
<1>1. /\ TypeOK /\ loc[w] \in LocalsType /\ ~ loc[w].current /\ pc[w] = "sleepCas"
      /\ loc' = [loc EXCEPT ![w] = r] /\ UNCHANGED <<next, sem>>
  BY DEF IInv, TypeOK, LocalsType, HandsAreActive, SleepCas
<1>2. r.current = loc[w].current /\ r.leaving = loc[w].leaving
  BY <1>1 DEF LocalsType
<1> HIDE DEF r
<1>3. /\ loc'[w].current = loc[w].current /\ loc'[w].leaving = loc[w].leaving
      /\ \A u \in Worker \ {w} : loc'[u] = loc[u]
  BY <1>1, <1>2 DEF TypeOK
<1>4. PICK v \in Worker : v = loc[w].target
  BY <1>1 DEF LocalsType
<1>5. PICK word \in StatusWord : word = loc[w].word
  BY <1>1 DEF LocalsType
<1>6. /\ BusyAt(w) /\ PostedOnce(w)
      /\ next[w] = word.head /\ ~ word.busy /\ status[w].prio < word.prio
  BY <1>1, <1>5 DEF SleepInv, WorkersFit, Prepared
<1>7. sem[w] = 0 /\ ~ Asleep(w)
  BY <1>1, <1>6 DEF PostedOnce, Asleep
<1>8. CASE status' = status /\ pc' = [pc EXCEPT ![w] = "check"]
  <2>1. pc'[w] = "check" /\ \A u \in Worker \ {w} : pc'[u] = pc[u]
    BY <1>1, <1>8 DEF TypeOK
  <2>2. ~ Asleep(w)' /\ sem'[w] = 0
    BY <1>1, <1>7, <2>1 DEF Asleep
  <2>3. Root(w)' = Root(w)
    BY <1>1, <1>8, <2>1 DEF Root
  <2>4. BusyAt(w)' /\ WakesFor(w)' /\ ReadAhead(w)' /\ Prepared(w)'
    BY <1>1, <1>3, <1>6, <1>8, <2>1 DEF BusyAt, WakesFor, ReadAhead, Prepared
  <2> QED
    BY <1>1, <1>3, <1>7, <1>8, <2>1, <2>2, <2>3, <2>4, OwnStep
<1>9. CASE /\ status[v] = word /\ status' = [status EXCEPT ![v] = WithHead(word, w)]
           /\ pc' = [pc EXCEPT ![w] = "sleep"]
  <2>1. pc'[w] = "sleep" /\ \A u \in Worker \ {w} : pc'[u] = pc[u]
    BY <1>1, <1>9 DEF TypeOK
  <2>2. /\ WithHead(word, w).head = w /\ ~ WithHead(word, w).busy
        /\ WithHead(word, w).prio = word.prio
    BY <1>5, <1>6 DEF WithHead, StatusWord
  <2> DEFINE linked == WithHead(word, w)
  <2> HIDE DEF linked
  <2>3. status'[v] = linked /\ \A u \in Worker \ {v} : status'[u] = status[u]
    BY <1>1, <1>9 DEF TypeOK, linked
  <2>4. /\ status'[v].head = w /\ ~ status'[v].busy /\ ~ status[v].busy
        /\ \A u \in Worker : /\ status'[u].prio = status[u].prio
                             /\ status'[u].busy <=> status[u].busy
        /\ \A u \in Worker \ {v} : status'[u] = status[u]
    BY <1>6, <1>9, <2>2, <2>3 DEF linked
  <2>5. w # v
    <3>1. word.prio \in Nat
      BY PrioType
    <3> QED
      BY <1>6, <1>9, <3>1
  <2>6. WorkersFit'
    <3>1. ASSUME NEW u \in Worker, u # w
          PROVE  BusyAt(u)' /\ WakesFor(u)' /\ ReadAhead(u)' /\ Prepared(u)' /\ PostedOnce(u)'
      BY <1>1, <1>3, <2>1, <2>4, <3>1
      DEF SleepInv, WorkersFit, BusyAt, WakesFor, ReadAhead, Prepared, PostedOnce
    <3>2. BusyAt(w)' /\ WakesFor(w)' /\ ReadAhead(w)' /\ Prepared(w)' /\ PostedOnce(w)'
      BY <1>1, <1>3, <1>6, <1>7, <2>1, <2>4
      DEF BusyAt, WakesFor, ReadAhead, Prepared, PostedOnce
    <3> QED
      BY <3>1, <3>2 DEF WorkersFit
  <2>7. \A p \in Worker \ {v} : Root(p)' = Root(p)
    BY <1>1, <1>3, <2>1, <2>4 DEF Root
  <2>8. Asleep(w)' /\ \A u \in Worker : u # w => (Asleep(u)' <=> Asleep(u))
    BY <1>1, <1>7, <2>1 DEF Asleep
  <2>9. /\ \A p \in Worker : Children(p) \subseteq Worker \ {p}
        /\ \A p \in Worker \ {v} : Children(p)' = Children(p)
    BY <1>1, <2>6, <2>7, OneListChanges DEF SleepInv
  <2>10. pc[v] \notin {"wake", "post"} /\ pc'[v] \notin {"wake", "post"}
    BY <1>1, <2>1, <2>4 DEF SleepInv, WorkersFit, BusyAt
  <2>11. Children(v)' = Children(v) \cup {w}
    <3>1. Children(v) = Listed(v, next[w])
      BY <1>6, <1>9, <2>4, <2>10 DEF Children
    <3>2. Children(v)' = Listed(v, w)'
      BY <2>4, <2>10 DEF Children
    <3>3. Listed(v, w)' = Listed(v, w)
      BY <1>1 DEF Listed, Closed
    <3>4. Listed(v, w) = {w} \cup Listed(v, next[w])
      BY <1>1, <2>5, ListUnfolds DEF TypeOK
    <3> QED
      BY <3>1, <3>2, <3>3, <3>4
  <2>12. \A p \in Worker : w \notin Children(p)
    BY <1>7 DEF SleepInv, ChildrenAreAsleep
  <2>13. ListsEnd'
    <3>1. ASSUME NEW S \in SUBSET (Children(v) \cup {w}), S # {}
          PROVE  \E y \in S : next[y] \notin S
      <4>1. \A y \in Children(v) : next[y] \in Children(v) \cup {v}
        <5>1. PICK x \in Worker : x = Root(v)
          BY <1>1, RootType
        <5>2. Children(v) = Listed(v, x)
          BY <1>1, <5>1, ChildrenNow DEF SleepInv, WorkersFit
        <5> QED
          BY <1>1, <5>2, ListGoesOn DEF TypeOK
      <4>2. CASE S = {w}
        <5>1. next[w] # w
          <6>1. Children(v) = Listed(v, next[w])
            BY <1>6, <1>9, <2>4, <2>10 DEF Children
          <6>2. w \in Listed(v, w)
            BY <2>5 DEF Listed
          <6> QED
            BY <2>12, <6>1, <6>2
        <5> QED
          BY <4>2, <5>1
      <4>3. CASE S # {w}
        <5>1. S \ {w} \in SUBSET Children(v) /\ S \ {w} # {}
          BY <3>1, <4>3
        <5>2. PICK y \in S \ {w} : next[y] \notin S \ {w}
          BY <5>1 DEF SleepInv, ListsEnd
        <5>3. next[y] # w
          BY <2>5, <2>12, <4>1, <5>1, <5>2
        <5> QED
          BY <5>2, <5>3
      <4> QED
        BY <4>2, <4>3
    <3>2. ASSUME NEW p \in Worker, NEW S \in SUBSET Children(p)', S # {}
          PROVE  \E y \in S : next'[y] \notin S
      <4>1. CASE p = v
        BY <1>1, <2>11, <3>1, <3>2, <4>1
      <4>2. CASE p # v
        BY <1>1, <2>9, <3>2, <4>2 DEF SleepInv, ListsEnd
      <4> QED
        BY <4>1, <4>2
    <3> QED
      BY <3>2 DEF ListsEnd
  <2>14. ChildrenAreAsleep'
    <3>1. status'[w].prio < status'[v].prio
      BY <1>6, <1>9, <2>4
    <3>2. \A p \in Worker : \A u \in Children(p) : u \in Worker /\ u # w
      BY <2>9, <2>12
    <3> QED
      BY <2>4, <2>8, <2>9, <2>11, <3>1, <3>2 DEF SleepInv, ChildrenAreAsleep
  <2>15. SleepersAreListed'
    <3>1. \A p \in Worker : Children(p) \subseteq Children(p)'
      BY <2>9, <2>11
    <3>2. w \in Children(v)'
      BY <2>11
    <3> QED
      BY <2>8, <3>1, <3>2 DEF SleepInv, SleepersAreListed
  <2>16. OneOwner'
    <3>1. \A p, u \in Worker : u \in Children(p)' <=> u \in Children(p) \/ (p = v /\ u = w)
      BY <2>9, <2>11
    <3> QED
      BY <2>12, <3>1 DEF SleepInv, OneOwner
  <2> QED
    BY <2>6, <2>13, <2>14, <2>15, <2>16 DEF SleepInv
<1> QED
  BY <1>4, <1>5, <1>8, <1>9 DEF SleepCas, Goto

(* A post takes one child off the list, which is then no longer asleep.    *)
LEMMA WakePostStep ==
  ASSUME IInv, TypeOK', SleepInv, NEW w \in Worker, WakePost(w)
  PROVE  SleepInv'
<1>1. TypeOK /\ loc[w] \in LocalsType /\ pc[w] = "post" /\ UNCHANGED <<status, next>>
  BY DEF IInv, TypeOK, LocalsType, WakePost
<1>2. PICK c \in Worker, n \in Worker : c = loc[w].idx /\ n = loc[w].nextIdx
  BY <1>1 DEF LocalsType
<1>3. BusyAt(w) /\ WakesFor(w) /\ PostedOnce(w) /\ c # w /\ n = next[c]
  BY <1>1, <1>2 DEF SleepInv, WorkersFit, ReadAhead
<1>4. /\ sem' = [sem EXCEPT ![c] = sem[c] + 1]
      /\ loc' = [loc EXCEPT ![w] = Advance(loc[w], w)]
      /\ pc' = [pc EXCEPT ![w] = "wake"]
  BY <1>2 DEF WakePost, Posted, Goto
<1>5. Advance(loc[w], w).idx = n
  <2>1. [loc[w] EXCEPT !.idx = n].idx = n
    BY <1>1 DEF LocalsType
  <2>2. Advance(loc[w], w) = [[loc[w] EXCEPT !.idx = n] EXCEPT !.nextIdx = w]
    BY <1>2 DEF Advance
  <2>3. [loc[w] EXCEPT !.idx = n] \in LocalsType
    BY <1>1 DEF LocalsType
  <2>4. \A m \in LocalsType : [m EXCEPT !.nextIdx = w].idx = m.idx
    BY DEF LocalsType
  <2> QED
    BY <2>1, <2>2, <2>3, <2>4
<1>6. /\ pc'[w] = "wake" /\ loc'[w].idx = n
      /\ loc'[w].current = loc[w].current /\ loc'[w].leaving = loc[w].leaving
      /\ \A u \in Worker \ {w} : pc'[u] = pc[u] /\ loc'[u] = loc[u]
  BY <1>1, <1>4, <1>5, Advanced DEF TypeOK
<1>7. c \in Children(w)
  BY <1>1, <1>2 DEF Children
<1>8. pc[c] = "sleep" /\ sem[c] = 0
  BY <1>7 DEF SleepInv, ChildrenAreAsleep, Asleep
<1>9. sem'[c] = 1 /\ \A u \in Worker \ {c} : sem'[u] = sem[u]
  BY <1>1, <1>4, <1>8 DEF TypeOK
<1>10. WorkersFit'
  <2>1. ASSUME NEW u \in Worker, u # w
        PROVE  BusyAt(u)' /\ WakesFor(u)' /\ ReadAhead(u)' /\ Prepared(u)'
    BY <1>1, <1>6, <2>1 DEF SleepInv, WorkersFit, BusyAt, WakesFor, ReadAhead, Prepared
  <2>2. ASSUME NEW u \in Worker PROVE PostedOnce(u)'
    <3>1. CASE u = c
      BY <1>3, <1>6, <1>8, <1>9, <3>1 DEF PostedOnce
    <3>2. CASE u = w
      BY <1>1, <1>3, <1>9, <3>2 DEF PostedOnce
    <3>3. CASE u # c /\ u # w
      BY <1>6, <1>9, <3>3 DEF SleepInv, WorkersFit, PostedOnce
    <3> QED
      BY <3>1, <3>2, <3>3
  <2>3. BusyAt(w)' /\ WakesFor(w)' /\ ReadAhead(w)' /\ Prepared(w)'
    BY <1>1, <1>3, <1>6 DEF BusyAt, WakesFor, ReadAhead, Prepared
  <2> QED
    BY <2>1, <2>2, <2>3 DEF WorkersFit
<1>11. \A p \in Worker \ {w} : Root(p)' = Root(p)
  BY <1>1, <1>6 DEF Root
<1>12. /\ Asleep(c) /\ ~ Asleep(c)'
       /\ \A u \in Worker : u # c => (Asleep(u)' <=> Asleep(u))
  BY <1>1, <1>3, <1>6, <1>8, <1>9 DEF Asleep
<1>13. /\ \A p \in Worker : Children(p) \subseteq Worker \ {p}
       /\ \A p \in Worker \ {w} : Children(p)' = Children(p)
  BY <1>1, <1>10, <1>11, OneListChanges DEF SleepInv
<1>14. Children(w)' = Children(w) \ {c}
  <2>1. Children(w) = {c} \cup Listed(w, n)
    BY <1>1, <1>2 DEF Children
  <2>2. Children(w)' = Listed(w, n)'
    BY <1>6 DEF Children
  <2>3. Listed(w, n)' = Listed(w, n)
    BY <1>1 DEF Listed, Closed
  <2>4. Listed(w, c) = {c} \cup Listed(w, next[c])
    BY <1>1, <1>3, ListUnfolds DEF TypeOK
  <2>5. \A S \in SUBSET Listed(w, c) : S # {} => \E y \in S : next[y] \notin S
    BY <1>3, <2>1, <2>4 DEF SleepInv, ListsEnd
  <2>6. c \notin Listed(w, next[c])
    BY <1>1, <1>3, <2>5, NotAhead DEF TypeOK
  <2> QED
    BY <1>3, <2>1, <2>2, <2>3, <2>6
<1>15. \A p \in Worker : Children(p)' \subseteq Children(p)
  BY <1>13, <1>14
<1>16. \A p \in Worker : c \notin Children(p)'
  BY <1>7, <1>13, <1>14 DEF SleepInv, OneOwner
<1>17. ListsEnd'
  BY <1>1, <1>15 DEF SleepInv, ListsEnd
<1>18. ChildrenAreAsleep'
  <2>1. \A p \in Worker : \A u \in Children(p)' : u \in Worker /\ u # c
    BY <1>13, <1>15, <1>16
  <2> QED
    BY <1>1, <1>12, <1>15, <2>1 DEF SleepInv, ChildrenAreAsleep
<1>19. SleepersAreListed'
  <2>1. ASSUME NEW u \in Worker, Asleep(u)' PROVE \E p \in Worker : u \in Children(p)'
    <3>1. u # c /\ Asleep(u)
      BY <1>12, <2>1
    <3>2. PICK p \in Worker : u \in Children(p)
      BY <3>1 DEF SleepInv, SleepersAreListed
    <3> QED
      BY <1>13, <1>14, <3>1, <3>2
  <2> QED
    BY <2>1 DEF SleepersAreListed
<1>20. OneOwner'
  BY <1>15 DEF SleepInv, OneOwner
<1> QED
  BY <1>10, <1>17, <1>18, <1>19, <1>20 DEF SleepInv

LEMMA SleepInvStep == IInv /\ IInv' /\ SleepInv /\ [Next]_vars => SleepInv'
<1> SUFFICES ASSUME IInv, IInv', SleepInv, [Next]_vars PROVE SleepInv'
  OBVIOUS
<1>1. TypeOK'
  BY DEF IInv
<1>2. ASSUME NEW w \in Worker, Step(w) PROVE SleepInv'
  BY <1>1, <1>2, WorkingStep, AcceptStep, StealingStep, SleepLoadStep, SleepCasStep,
     SemWaitStep, WakingStep, WakePostStep, TurnStep DEF Step
<1>3. CASE UNCHANGED vars
  <2>1. WorkersFit'
    BY <1>3 DEF vars, SleepInv, WorkersFit, BusyAt, WakesFor, ReadAhead, Prepared, PostedOnce
  <2>2. \A u \in Worker : Children(u)' = Children(u) /\ (Asleep(u)' <=> Asleep(u))
    BY <1>3 DEF vars, Children, Listed, Closed, Asleep
  <2> QED
    <3>1. next' = next /\ status' = status
      BY <1>3 DEF vars
    <3>2. ListsEnd' /\ ChildrenAreAsleep'
      <4>1. \A p \in Worker : \A u \in Children(p) : u \in Worker
        BY ChildrenNow DEF IInv, SleepInv, WorkersFit, Listed
      <4> QED
        BY <2>2, <3>1, <4>1 DEF SleepInv, ListsEnd, ChildrenAreAsleep
    <3>3. SleepersAreListed' /\ OneOwner'
      BY <2>2 DEF SleepInv, SleepersAreListed, OneOwner
    <3> QED
      BY <2>1, <3>2, <3>3 DEF SleepInv
<1> QED
  BY <1>2, <1>3 DEF Next

LEMMA SleepInvHolds == Spec => []SleepInv
  BY InvHolds, SleepInit, SleepInvStep, PTL DEF Spec

(* The children lists hold exactly the sleepers, each on one list, and no  *)
(* semaphore is posted twice or for a worker that is awake: nobody is left *)
(* asleep whom nobody will wake (try_to_sleep, wake_children, and the      *)
(* asserts of spinning_binary_semaphore). *)
THEOREM SleepersAreOnOneList == Spec => []SleepersAreListedOnce
<1>1. IInv /\ SleepInv => SleepersAreListedOnce
  <2> SUFFICES ASSUME IInv, SleepInv PROVE SleepersAreListedOnce
    OBVIOUS
  <2>1. ASSUME NEW w \in Worker
        PROVE  Cardinality({p \in Worker : w \in Children(p)}) = (IF Asleep(w) THEN 1 ELSE 0)
    <3>1. CASE Asleep(w)
      <4>1. PICK p \in Worker : w \in Children(p)
        BY <3>1 DEF SleepInv, SleepersAreListed
      <4>2. {q \in Worker : w \in Children(q)} = {p}
        BY <4>1 DEF SleepInv, OneOwner
      <4> QED
        BY <3>1, <4>2, FS_Singleton
    <3>2. CASE ~ Asleep(w)
      <4>1. {q \in Worker : w \in Children(q)} = {}
        BY <3>2 DEF SleepInv, ChildrenAreAsleep
      <4> QED
        BY <3>2, <4>1, FS_EmptySet
    <3> QED
      BY <3>1, <3>2
  <2>2. \A w \in Worker : sem[w] = 0 \/ (sem[w] = 1 /\ pc[w] = "sleep")
    BY DEF SleepInv, WorkersFit, PostedOnce
  <2> QED
    BY <2>1, <2>2 DEF SleepersAreListedOnce
<1> QED
  BY <1>1, InvHolds, SleepInvHolds, PTL

(* A worker sleeps under one of strictly higher priority, which itself     *)
(* sleeps or is inside acquire, so that no circle of sleepers can form     *)
(* (try_to_sleep, line 170 of mcsl_elastic.hpp). *)
THEOREM NoCircleOfSleepers == Spec => []SleepersHaveAwakeRoot
<1>1. IInv /\ SleepInv => SleepersHaveAwakeRoot
  <2> SUFFICES ASSUME IInv, SleepInv, NEW p \in Worker, NEW w \in Children(p)
               PROVE  /\ status[w].prio < status[p].prio
                      /\ pc[p] \in PC \ {"start", "work", "terminal", "enter", "accept", "exited"}
    BY DEF SleepersHaveAwakeRoot, PC
  <2>1. status[w].prio < status[p].prio
    BY DEF SleepInv, ChildrenAreAsleep
  <2>2. pc[p] \in PC /\ BusyAt(p)
    BY DEF IInv, TypeOK, SleepInv, WorkersFit
  <2>3. pc[p] \in {"wake", "post"} \/ ~ status[p].busy
    BY DEF Children
  <2> QED
    BY <2>1, <2>2, <2>3 DEF BusyAt
<1> QED
  BY <1>1, InvHolds, SleepInvHolds, PTL

=============================================================================
