--------------------------- MODULE ForkJoinProofs ---------------------------
(***************************************************************************)
(* Proofs about ForkJoin, for any number of workers and forks: what a      *)
(* worker holds, on which stack it runs, what take finds in the deque, and *)
(* that a run of ForkJoin is a run of SeriesParallel.                      *)
(*                                                                         *)
(* What is said of the fibers alone is said of a function F of fibers, so  *)
(* that it can be used of fib and of fib'.                                 *)
(***************************************************************************)
EXTENDS ForkJoin, FiniteSetTheorems, WellFoundedInduction, SequenceTheorems, TLAPS

-----------------------------------------------------------------------------
(* The fibers                                                              *)

Plain == Fiber \ {Terminal}

(* A fiber that has not notified its parent yet. *)
Open(F, f) == F[f].alive /\ F[f].outedge # NoFiber

Inline(F, f) == F[f].stack = "notown"

One(F, f) == IF Open(F, f) THEN 1 ELSE 0

Unmade(F, m) == \A f \in Plain : f >= m => F[f] = Dead

(* The terminal fiber waits for the body. *)
TerminalShape(F, d) ==
  /\ F[Terminal].outedge = NoFiber /\ F[Terminal].status = "exit_launch"
  /\ F[Terminal].stack = "null" /\ F[Terminal].f1 = NoFiber /\ F[Terminal].f2 = NoFiber
  /\ F[Terminal].incounter = One(F, Body)
  /\ F[Terminal].alive <=> ~ d
  /\ F[Terminal].ctx \in {"begin", "used"}
  /\ Open(F, Body) => F[Terminal].ctx = "begin"

BodyShape(F, d) ==
  /\ F[Body].alive /\ F[Body].outedge \in {Terminal, NoFiber} /\ ~ Inline(F, Body)
  /\ d => ~ Open(F, Body)

(* A child that is not over has a parent, older, that waits for it. *)
ChildShape(F) ==
  \A f \in Plain \ {Body} : Open(F, f) =>
    /\ F[f].outedge = F[f].up /\ F[f].up \in Plain /\ F[f].up < f
    /\ Open(F, F[f].up) /\ F[F[f].up].ctx = "return"
    /\ f \in {F[F[f].up].f1, F[F[f].up].f2}

(* A parent waits for the children that are not over.  It is paused until  *)
(* its stack is left: by the second child where that runs inline, which is *)
(* over only after the first one, and by take otherwise. *)
ForkShape(F, p) ==
  LET g == F[p].f1
      h == F[p].f2
  IN
  /\ g \in Plain /\ h \in Plain /\ p < g /\ g < h
  /\ F[g].alive /\ F[h].alive /\ F[g].up = p /\ F[h].up = p
  /\ Inline(F, g) /\ Open(F, p)
  /\ F[p].incounter = One(F, g) + One(F, h)
  /\ F[h].stack = "null" => Open(F, h) /\ F[h].ctx = "begin"
  /\ Inline(F, h) => Open(F, h) \/ ~ Open(F, g)
  /\ \/ F[p].status = "finish"
     \/ F[p].status = "pause" /\ Inline(F, h) /\ Open(F, h)
     \/ F[p].status = "pause" /\ ~ Inline(F, h) /\ Open(F, g)

(* A fiber waits in fork2, or it has no children. *)
Shaped(F, f) ==
  /\ ~ F[f].alive => F[f] = Dead
  /\ F[f].ctx = "return" => ForkShape(F, f)
  /\ F[f].ctx # "return" =>
       F[f].f1 = NoFiber /\ F[f].f2 = NoFiber /\ F[f].incounter = 0 /\ F[f].status = "finish"
  /\ F[f].alive /\ ~ Open(F, f) => F[f].ctx = "used"
  /\ F[f].stack = "null" => F[f].ctx = "begin"
  /\ F[f].stack = "own" => F[f].ctx # "begin"
  /\ Inline(F, f) => F[f].up \in Plain

PlainShape(F) == \A f \in Plain : Shaped(F, f)

FibersOK(F, m, d) ==
  /\ F \in [Fiber -> FiberType] /\ m \in 1..Terminal /\ d \in BOOLEAN
  /\ Unmade(F, m) /\ TerminalShape(F, d) /\ BodyShape(F, d)
  /\ ChildShape(F) /\ PlainShape(F)

(* The fibers on whose fork2 frames f stands: f, the fiber on whose stack  *)
(* f was called if it runs inline, and so on. *)
Frames(F, f) ==
  {x \in Fiber : \A S \in SUBSET Fiber :
     f \in S /\ (\A y \in S : Inline(F, y) => F[y].up \in S) => x \in S}


-----------------------------------------------------------------------------
(* Lemmas about frames.                                                    *)

LEMMA FramesInduct ==
  ASSUME NEW F, NEW f, NEW S \in SUBSET Fiber, f \in S,
         \A y \in S : Inline(F, y) => F[y].up \in S
  PROVE  Frames(F, f) \subseteq S
BY DEF Frames

LEMMA FramesUnfold ==
  ASSUME NEW F, NEW f \in Fiber, \A y \in Fiber : Inline(F, y) => F[y].up \in Fiber
  PROVE  /\ f \in Frames(F, f) /\ Frames(F, f) \subseteq Fiber
         /\ \A y \in Frames(F, f) : Inline(F, y) => F[y].up \in Frames(F, f)
         /\ Inline(F, f) => Frames(F, f) = {f} \cup Frames(F, F[f].up)
         /\ ~ Inline(F, f) => Frames(F, f) = {f}
<1>1. f \in Frames(F, f) /\ Frames(F, f) \subseteq Fiber
  BY DEF Frames
<1>2. ASSUME NEW g \in Fiber, NEW y \in Frames(F, g), Inline(F, y)
      PROVE  F[y].up \in Frames(F, g)
  BY <1>2 DEF Frames
<1>3. ASSUME Inline(F, f)
      PROVE  Frames(F, f) = {f} \cup Frames(F, F[f].up)
  <2>1. F[f].up \in Fiber
    BY <1>3
  <2>2. F[f].up \in Frames(F, F[f].up) /\ Frames(F, F[f].up) \subseteq Fiber
    BY <2>1 DEF Frames
  <2>3. Frames(F, f) \subseteq {f} \cup Frames(F, F[f].up)
    <3> DEFINE S == {f} \cup Frames(F, F[f].up)
    <3>1. S \in SUBSET Fiber /\ f \in S
      BY <2>2
    <3>2. \A y \in S : Inline(F, y) => F[y].up \in S
      BY <1>2, <2>1, <2>2
    <3> HIDE DEF S
    <3>3. Frames(F, f) \subseteq S
      BY <3>1, <3>2, FramesInduct
    <3> QED
      BY <3>3 DEF S
  <2>4. Frames(F, F[f].up) \subseteq Frames(F, f)
    <3>1. F[f].up \in Frames(F, f)
      BY <1>1, <1>2, <1>3
    <3>2. Frames(F, f) \in SUBSET Fiber
      BY <1>1
    <3>3. \A y \in Frames(F, f) : Inline(F, y) => F[y].up \in Frames(F, f)
      BY <1>2
    <3> QED
      BY <3>1, <3>2, <3>3, FramesInduct
  <2> QED
    BY <1>1, <2>3, <2>4
<1>4. ASSUME ~ Inline(F, f)
      PROVE  Frames(F, f) = {f}
  <2>1. {f} \in SUBSET Fiber /\ f \in {f} /\ \A y \in {f} : Inline(F, y) => F[y].up \in {f}
    BY <1>4
  <2>2. Frames(F, f) \subseteq {f}
    BY <2>1, FramesInduct
  <2> QED
    BY <1>1, <2>2
<1> QED
  BY <1>1, <1>2, <1>3, <1>4

(* Below a frame is another that is called from it. *)
LEMMA FramesAbove ==
  ASSUME NEW F, NEW f \in Fiber, \A y \in Fiber : Inline(F, y) => F[y].up \in Fiber,
         NEW x \in Frames(F, f), x # f
  PROVE  \E y \in Frames(F, f) : Inline(F, y) /\ F[y].up = x
<1> DEFINE S == {z \in Frames(F, f) :
                   z = f \/ \E y \in Frames(F, f) : Inline(F, y) /\ F[y].up = z}
<1>1. /\ f \in Frames(F, f) /\ Frames(F, f) \subseteq Fiber
      /\ \A y \in Frames(F, f) : Inline(F, y) => F[y].up \in Frames(F, f)
  BY FramesUnfold
<1>2. S \in SUBSET Fiber /\ f \in S
  BY <1>1
<1>3. \A y \in S : Inline(F, y) => F[y].up \in S
  BY <1>1
<1>4. Frames(F, f) \subseteq S
  <2> HIDE DEF S
  <2> QED
    BY <1>2, <1>3, FramesInduct
<1> QED
  BY <1>4

(* The frames depend on the fibers among them only. *)
LEMMA FramesSame ==
  ASSUME NEW F, NEW G, NEW f \in Fiber,
         \A y \in Fiber : Inline(F, y) => F[y].up \in Fiber,
         \A y \in Fiber : Inline(G, y) => G[y].up \in Fiber,
         \A y \in Frames(F, f) : (Inline(G, y) <=> Inline(F, y)) /\ G[y].up = F[y].up
  PROVE  Frames(G, f) = Frames(F, f)
<1>1. /\ f \in Frames(F, f) /\ Frames(F, f) \in SUBSET Fiber
      /\ \A y \in Frames(F, f) : Inline(F, y) => F[y].up \in Frames(F, f)
  BY FramesUnfold
<1>2. /\ f \in Frames(G, f) /\ Frames(G, f) \in SUBSET Fiber
      /\ \A y \in Frames(G, f) : Inline(G, y) => G[y].up \in Frames(G, f)
  BY FramesUnfold
<1>3. Frames(G, f) \subseteq Frames(F, f)
  <2>1. \A y \in Frames(F, f) : Inline(G, y) => G[y].up \in Frames(F, f)
    BY <1>1
  <2> QED
    BY <1>1, <2>1, FramesInduct
<1>4. Frames(F, f) \subseteq Frames(G, f)
  <2>1. \A y \in Frames(G, f) : Inline(F, y) => F[y].up \in Frames(G, f)
    BY <1>2, <1>3
  <2> QED
    BY <1>2, <2>1, FramesInduct
<1> QED
  BY <1>3, <1>4


-----------------------------------------------------------------------------
(* What the shapes say.                                                    *)

LEMMA FiberFacts ==
  /\ Terminal \in Fiber /\ Terminal \notin Plain
  /\ Body \in Plain /\ Body \in Fiber /\ Body = 0 /\ Body # Terminal
  /\ Terminal \in Int /\ Terminal >= 1 /\ NoFiber = -1 /\ NoFiber \notin Fiber
  /\ Plain = 0 .. (Terminal - 1) /\ Plain \subseteq Fiber
  /\ \A f \in Fiber : f \in Int /\ f # NoFiber /\ f >= 0 /\ (f \in Plain \/ f = Terminal)
BY BoundAssumption DEF Plain, Fiber, Terminal, Body, NoFiber

LEMMA InlineHasParent ==
  ASSUME NEW F, NEW m, NEW d, FibersOK(F, m, d)
  PROVE  \A y \in Fiber : Inline(F, y) => F[y].up \in Fiber
BY DEF FibersOK, TerminalShape, PlainShape, Shaped, Inline, Plain

LEMMA ParentFacts ==
  ASSUME NEW F, NEW m, NEW d, FibersOK(F, m, d),
         NEW f \in Plain, f # Body, Open(F, f),
         NEW p, p = F[f].up
  PROVE  /\ p \in Plain /\ p < f /\ F[f].outedge = p
         /\ Open(F, p) /\ F[p].ctx = "return" /\ ForkShape(F, p)
         /\ F[p].incounter >= 1
         /\ f = F[p].f1 \/ f = F[p].f2
<1>1. /\ p \in Plain /\ p < f /\ F[f].outedge = p /\ Open(F, p) /\ F[p].ctx = "return"
      /\ f = F[p].f1 \/ f = F[p].f2
  BY DEF FibersOK, ChildShape
<1>2. ForkShape(F, p)
  BY <1>1 DEF FibersOK, PlainShape, Shaped
<1>3. F[p].incounter >= 1
  <2>1. One(F, f) = 1 /\ \A g : One(F, g) \in {0, 1}
    BY DEF One
  <2>2. F[p].incounter = One(F, F[p].f1) + One(F, F[p].f2)
    BY <1>2 DEF ForkShape
  <2> QED
    BY <1>1, <2>1, <2>2
<1> QED
  BY <1>1, <1>2, <1>3

(* A fiber that is called inline from another's fork2, and not over, is    *)
(* its child. *)
LEMMA BodyOutermost ==
  ASSUME NEW F, NEW m, NEW d, FibersOK(F, m, d), NEW f \in Fiber, Inline(F, f)
  PROVE  f \in Plain /\ f # Body
BY FiberFacts DEF FibersOK, BodyShape, TerminalShape, Inline, Plain

(* The frames below a fiber that is not over are of fibers that are not. *)
LEMMA FramesOpen ==
  ASSUME NEW F, NEW m, NEW d, FibersOK(F, m, d), NEW f \in Plain, Open(F, f)
  PROVE  \A x \in Frames(F, f) : x \in Plain /\ Open(F, x) /\ x <= f
<1> DEFINE S == {x \in Plain : Open(F, x) /\ x <= f}
<1>1. S \in SUBSET Fiber /\ f \in S
  BY FiberFacts
<1>2. ASSUME NEW y \in S, Inline(F, y)
      PROVE  F[y].up \in S
  <2>1. y \in Plain /\ y # Body /\ Open(F, y) /\ y <= f
    BY <1>2, BodyOutermost, FiberFacts
  <2>2. F[y].up \in Plain /\ F[y].up < y /\ Open(F, F[y].up)
    BY <2>1, ParentFacts
  <2> QED
    BY <2>1, <2>2, FiberFacts
<1>3. Frames(F, f) \subseteq S
  <2> HIDE DEF S
  <2> QED
    BY <1>1, <1>2, FramesInduct
<1> QED
  BY <1>3

(* The frames below an inline child are those of its parent. *)
LEMMA FramesOfChild ==
  ASSUME NEW F, NEW m, NEW d, FibersOK(F, m, d), NEW f \in Plain, Open(F, f), Inline(F, f),
         NEW p, p = F[f].up
  PROVE  /\ p \in Plain /\ Frames(F, f) = {f} \cup Frames(F, p)
         /\ \A x \in Frames(F, p) : x \in Plain /\ Open(F, x) /\ x <= p /\ x < f
<1>1. f # Body
  BY BodyOutermost, FiberFacts
<1>2. p \in Plain /\ p < f /\ Open(F, p)
  BY <1>1, ParentFacts
<1>3. Frames(F, f) = {f} \cup Frames(F, p)
  BY FiberFacts, InlineHasParent, FramesUnfold
<1>4. \A x \in Frames(F, p) : x \in Plain /\ Open(F, x) /\ x <= p
  BY <1>2, FramesOpen
<1> QED
  BY <1>2, <1>3, <1>4, FiberFacts

-----------------------------------------------------------------------------
(* The fibers that stand on two different frames below, and wait for no    *)
(* one, do not share any.                                                  *)

(* No open child of f runs inline. *)
Outermost(F, f) == \A x \in Plain : Open(F, x) /\ Inline(F, x) => F[x].up # f

(* Both children of a parent run inline and are not over. *)
BothInline(F, p) ==
  /\ F[p].ctx = "return" /\ Inline(F, F[p].f2) /\ Open(F, F[p].f1) /\ Open(F, F[p].f2)

LEMMA FramesDisjoint ==
  ASSUME NEW F, NEW m, NEW d, FibersOK(F, m, d),
         NEW a \in Plain, Open(F, a), Outermost(F, a),
         NEW b \in Plain, Open(F, b), Outermost(F, b), a # b,
         \A p \in Plain : BothInline(F, p) =>
           F[p].f1 \notin Frames(F, a) /\ F[p].f1 \notin Frames(F, b)
  PROVE  Frames(F, a) \cap Frames(F, b) = {}
<1> DEFINE S == {x \in Frames(F, a) : x \notin Frames(F, b)}
<1>1. \A y \in Fiber : Inline(F, y) => F[y].up \in Fiber
  BY InlineHasParent
<1>2. /\ a \in Frames(F, a) /\ Frames(F, a) \subseteq Fiber
      /\ \A y \in Frames(F, a) : Inline(F, y) => F[y].up \in Frames(F, a)
  BY <1>1, FiberFacts, FramesUnfold
<1>3. /\ \A x \in Frames(F, a) : x \in Plain /\ Open(F, x)
      /\ \A x \in Frames(F, b) : x \in Plain /\ Open(F, x)
  BY FramesOpen
<1>4. a \notin Frames(F, b)
  <2> SUFFICES ASSUME a \in Frames(F, b) PROVE FALSE
    OBVIOUS
  <2>1. PICK y \in Frames(F, b) : Inline(F, y) /\ F[y].up = a
    BY <1>1, FiberFacts, FramesAbove
  <2> QED
    BY <1>3, <2>1 DEF Outermost
<1>5. ASSUME NEW x \in Frames(F, a), x \notin Frames(F, b), Inline(F, x)
      PROVE  F[x].up \in Frames(F, a) /\ F[x].up \notin Frames(F, b)
  <2>1. F[x].up \in Frames(F, a)
    BY <1>2, <1>5
  <2>2. ASSUME F[x].up \in Frames(F, b)
        PROVE  FALSE
    <3>1. F[x].up # b
      BY <1>3, <1>5 DEF Outermost
    <3>2. PICK y \in Frames(F, b) : Inline(F, y) /\ F[y].up = F[x].up
      BY <1>1, <2>2, <3>1, FiberFacts, FramesAbove
    <3>3. PICK p : p = F[x].up
      OBVIOUS
    <3>4. /\ x \in Plain /\ Open(F, x) /\ x # Body /\ y \in Plain /\ Open(F, y) /\ y # Body
          /\ x # y
      BY <1>2, <1>3, <1>5, <3>2, BodyOutermost, FiberFacts
    <3>5. /\ p \in Plain /\ F[p].ctx = "return" /\ ForkShape(F, p)
          /\ x \in {F[p].f1, F[p].f2} /\ y \in {F[p].f1, F[p].f2}
      BY <3>2, <3>3, <3>4, ParentFacts
    <3>6. BothInline(F, p)
      BY <1>5, <3>2, <3>4, <3>5 DEF BothInline
    <3>7. F[p].f1 \in Frames(F, a) \/ F[p].f1 \in Frames(F, b)
      BY <3>2, <3>4, <3>5
    <3> QED
      BY <3>5, <3>6, <3>7
  <2> QED
    BY <2>1, <2>2
<1>6. S \in SUBSET Fiber /\ a \in S /\ \A y \in S : Inline(F, y) => F[y].up \in S
  BY <1>2, <1>4, <1>5
<1>7. Frames(F, a) \subseteq S
  <2> HIDE DEF S
  <2> QED
    BY <1>6, FramesInduct
<1> QED
  BY <1>7


-----------------------------------------------------------------------------
(* Second children that wait to be run.                                    *)

(* A second child as fork2 made it, of which nothing has been run. *)
Untouched(F, h) ==
  /\ h \in Plain /\ h # Body /\ Open(F, h)
  /\ F[h].ctx = "begin" /\ F[h].stack = "null" /\ h = F[F[h].up].f2

IsFirst(F, f) == Inline(F, f) /\ f = F[F[f].up].f1
IsSecond(F, f) == Inline(F, f) /\ f = F[F[f].up].f2

Waiting(F, P) == P \in Seq(Fiber) /\ \A j \in 1..Len(P) : Untouched(F, P[j])

(* The fibers P wait in the deque of the worker that runs t, or are about  *)
(* to: each is the second child of a fork2 on whose frame t stands, in its *)
(* first child; those of the outer frames come first; and when that of a   *)
(* frame is gone, those of the frames that are further out are gone.       *)
Spine(F, t, P) ==
  P # <<>> =>
    /\ t # NoFiber
    /\ \A j \in 1..Len(P) : F[F[P[j]].up].f1 \in Frames(F, t)
    /\ \A j, k \in 1..Len(P) : j < k => F[P[j]].up < F[P[k]].up
    /\ \A x \in Frames(F, t) : IsFirst(F, x) =>
         \/ \E j \in 1..Len(P) : P[j] = F[F[x].up].f2
         \/ \A j \in 1..Len(P) : F[P[j]].up > F[x].up

LEMMA WaitingFacts ==
  ASSUME NEW F, NEW m, NEW d, FibersOK(F, m, d), NEW h, Untouched(F, h),
         NEW p, p = F[h].up, NEW g, g = F[p].f1
  PROVE  /\ p \in Plain /\ g \in Plain /\ h \in Plain /\ p < g /\ g < h /\ h = F[p].f2
         /\ Open(F, p) /\ F[p].ctx = "return" /\ ForkShape(F, p)
         /\ Inline(F, g) /\ F[g].up = p /\ ~ Inline(F, h) /\ IsFirst(F, g)
<1>1. /\ h \in Plain /\ h = F[p].f2 /\ ~ Inline(F, h)
      /\ p \in Plain /\ Open(F, p) /\ F[p].ctx = "return" /\ ForkShape(F, p)
  BY ParentFacts DEF Untouched, Inline
<1> QED
  BY <1>1, Zenon DEF ForkShape, IsFirst

(* A worker that runs a fiber on a stack of its own has nothing waiting. *)
LEMMA SpineOfOwnStack ==
  ASSUME NEW F, NEW m, NEW d, FibersOK(F, m, d), NEW t \in Fiber, ~ Inline(F, t),
         NEW P, Waiting(F, P), Spine(F, t, P)
  PROVE  P = <<>>
<1> SUFFICES ASSUME P # <<>> PROVE FALSE
  OBVIOUS
<1>1. P \in Seq(Fiber) /\ 1 \in 1..Len(P) /\ Untouched(F, P[1])
  BY DEF Waiting
<1>2. F[F[P[1]].up].f1 \in {t}
  BY <1>1, InlineHasParent, FramesUnfold DEF Spine
<1>3. Inline(F, F[F[P[1]].up].f1)
  BY <1>1, WaitingFacts
<1> QED
  BY <1>2, <1>3

(* What waits was forked by the parent or further out. *)
LEMMA SpineParents ==
  ASSUME NEW F, NEW m, NEW d, FibersOK(F, m, d),
         NEW t \in Plain, Open(F, t), Inline(F, t), NEW p, p = F[t].up,
         NEW P, Waiting(F, P), Spine(F, t, P), NEW j \in 1..Len(P)
  PROVE  /\ F[P[j]].up < p => F[F[P[j]].up].f1 \in Frames(F, p)
         /\ F[P[j]].up \in Plain
         /\ F[P[j]].up < p \/ (F[P[j]].up = p /\ IsFirst(F, t) /\ P[j] = F[p].f2)
<1>1. PICK q : q = F[P[j]].up
  OBVIOUS
<1>2. PICK g : g = F[q].f1
  OBVIOUS
<1>3. Untouched(F, P[j]) /\ P # <<>>
  BY DEF Waiting
<1>4. g \in Frames(F, t)
  BY <1>1, <1>2, <1>3 DEF Spine
<1>5. /\ q \in Plain /\ g \in Plain /\ q < g /\ F[g].up = q /\ IsFirst(F, g)
      /\ P[j] = F[q].f2
  BY <1>1, <1>2, <1>3, WaitingFacts
<1>6. /\ p \in Plain /\ Frames(F, t) = {t} \cup Frames(F, p)
      /\ \A x \in Frames(F, p) : x \in Plain /\ x <= p
  BY FramesOfChild
<1>7. CASE g = t
  <2>1. q = p
    BY <1>5, <1>7
  <2> QED
    <3>1. ~ (q < q)
      BY <1>5, FiberFacts
    <3> QED
      BY <1>1, <1>5, <1>6, <1>7, <2>1, <3>1
<1>8. CASE g # t
  <2>1. g \in Frames(F, p) /\ g <= p
    BY <1>4, <1>6, <1>8
  <2>2. q < p
    BY <1>5, <1>6, <2>1, FiberFacts
  <2> QED
    BY <1>1, <1>2, <1>5, <2>1, <2>2, Zenon
<1> QED
  BY <1>7, <1>8

LEMMA FrontFacts ==
  ASSUME NEW T, NEW P \in Seq(T), P # <<>>, NEW Q, Q = Front(P)
  PROVE  /\ Q \in Seq(T) /\ Len(Q) \in Nat /\ Len(Q) + 1 = Len(P)
         /\ \A j \in 1..Len(Q) : Q[j] = P[j] /\ j \in 1..Len(P) /\ j < Len(P)
<1>1. PICK l \in Nat : l + 1 = Len(P)
  <2>1. Len(P) \in Nat /\ Len(P) # 0
    OBVIOUS
  <2> QED
    BY <2>1
<1>2. Q = SubSeq(P, 1, l)
  BY <1>1 DEF Front
<1>3. Len(Q) = l /\ Q \in Seq(T)
  BY <1>1, <1>2
<1>4. \A j \in 1..l : Q[j] = P[j]
  BY <1>1, <1>2
<1> QED
  BY <1>1, <1>3, <1>4

(* What take pops is the second child of the fork2 that calls it. *)
LEMMA SpineTake ==
  ASSUME NEW F, NEW m, NEW d, FibersOK(F, m, d),
         NEW t \in Plain, Open(F, t), IsFirst(F, t), NEW p, p = F[t].up,
         NEW P, Waiting(F, P), Spine(F, t, P), P # <<>>
  PROVE  /\ Last(P) = F[p].f2
         /\ Waiting(F, Front(P)) /\ Spine(F, p, Front(P))
         /\ \A j \in 1..Len(Front(P)) : P[j] # Last(P)
<1>1. /\ P \in Seq(Fiber) /\ Len(P) \in Nat /\ Len(P) >= 1
      /\ \A j \in 1..Len(P) : Untouched(F, P[j])
  BY DEF Waiting
<1>2. \A j \in 1..Len(P) :
        /\ F[P[j]].up < p => F[F[P[j]].up].f1 \in Frames(F, p)
        /\ F[P[j]].up \in Plain
        /\ F[P[j]].up < p \/ (F[P[j]].up = p /\ P[j] = F[p].f2)
  BY SpineParents DEF IsFirst
<1>3. /\ p \in Plain /\ Frames(F, t) = {t} \cup Frames(F, p)
      /\ \A x \in Frames(F, p) : x \in Plain /\ Open(F, x) /\ x <= p /\ x < t
  BY FramesOfChild DEF IsFirst
<1>4. \A j, k \in 1..Len(P) : j < k => F[P[j]].up < F[P[k]].up
  BY DEF Spine
<1>5. F[P[Len(P)]].up = p
  <2>1. \/ \E j \in 1..Len(P) : P[j] = F[p].f2
        \/ \A j \in 1..Len(P) : F[P[j]].up > p
    BY <1>3 DEF Spine
  <2>2. ~ (F[P[1]].up > p)
    BY <1>1, <1>2, <1>3, FiberFacts
  <2>3. PICK j \in 1..Len(P) : P[j] = F[p].f2
    BY <1>1, <2>1, <2>2
  <2>4. F[P[j]].up = p
    <3>1. t # Body
      BY BodyOutermost, FiberFacts DEF IsFirst
    <3>2. ForkShape(F, p)
      BY <3>1, ParentFacts
    <3> QED
      BY <2>3, <3>2 DEF ForkShape
  <2>5. j = Len(P)
    <3> SUFFICES ASSUME j < Len(P) PROVE FALSE
      BY <1>1
    <3>1. Len(P) \in 1..Len(P) /\ F[P[j]].up < F[P[Len(P)]].up
      BY <1>1, <1>4
    <3> QED
      BY <1>2, <1>3, <2>4, <3>1, FiberFacts
  <2> QED
    BY <2>4, <2>5
<1>6. P[Len(P)] = F[p].f2
  BY <1>1, <1>2, <1>3, <1>5, FiberFacts
<1>7. PICK Q : Q = Front(P)
  OBVIOUS
<1>8. /\ Q \in Seq(Fiber) /\ Len(Q) \in Nat /\ Len(Q) + 1 = Len(P)
      /\ \A j \in 1..Len(Q) : Q[j] = P[j] /\ j \in 1..Len(P) /\ j < Len(P)
  BY <1>1, <1>7, FrontFacts
<1>9. \A j \in 1..Len(Q) : F[Q[j]].up < p /\ Q[j] # P[Len(P)]
  <2>1. Len(P) \in 1..Len(P)
    BY <1>1
  <2>2. \A j \in 1..Len(Q) : F[P[j]].up < F[P[Len(P)]].up
    BY <1>4, <1>8, <2>1
  <2>3. \A j \in 1..Len(Q) : F[P[j]].up < p /\ P[j] # P[Len(P)]
    BY <1>2, <1>3, <1>5, <1>8, <2>2, FiberFacts
  <2> QED
    BY <1>8, <2>3
<1>10. Waiting(F, Q)
  BY <1>1, <1>8 DEF Waiting
<1>11. Spine(F, p, Q)
  <2>1. \A j \in 1..Len(Q) : F[F[Q[j]].up].f1 \in Frames(F, p)
    BY <1>2, <1>8, <1>9
  <2>2. \A j, k \in 1..Len(Q) : j < k => F[Q[j]].up < F[Q[k]].up
    BY <1>4, <1>8
  <2>3. ASSUME NEW x \in Frames(F, p), IsFirst(F, x)
        PROVE  \/ \E j \in 1..Len(Q) : Q[j] = F[F[x].up].f2
               \/ \A j \in 1..Len(Q) : F[Q[j]].up > F[x].up
    <3>1. \/ \E j \in 1..Len(P) : P[j] = F[F[x].up].f2
          \/ \A j \in 1..Len(P) : F[P[j]].up > F[x].up
      BY <1>3, <2>3 DEF Spine
    <3>2. CASE \A j \in 1..Len(P) : F[P[j]].up > F[x].up
      BY <1>8, <3>2
    <3>3. ASSUME NEW j \in 1..Len(P), P[j] = F[F[x].up].f2
          PROVE  j \in 1..Len(Q)
      <4>1. F[x].up # p
        <5>1. x \in Plain /\ x # Body /\ Open(F, x) /\ x <= p
          BY <1>3, <2>3, BodyOutermost, FiberFacts DEF IsFirst
        <5>2. F[x].up \in Plain /\ F[x].up < x
          BY <5>1, ParentFacts
        <5> QED
          BY <1>3, <5>1, <5>2, FiberFacts
      <4>2. F[P[j]].up = F[x].up
        <5>1. x \in Plain /\ x # Body /\ Open(F, x)
          BY <1>3, <2>3, BodyOutermost, FiberFacts DEF IsFirst
        <5>2. ForkShape(F, F[x].up)
          BY <5>1, ParentFacts
        <5> QED
          BY <3>3, <5>2 DEF ForkShape
      <4>3. j # Len(P)
        BY <1>5, <4>1, <4>2
      <4> QED
        BY <1>1, <1>8, <4>3
    <3> QED
      BY <1>8, <3>1, <3>2, <3>3
  <2>4. p # NoFiber
    BY <1>3, FiberFacts
  <2> QED
    BY <2>1, <2>2, <2>3, <2>4 DEF Spine
<1> QED
  BY <1>6, <1>7, <1>8, <1>9, <1>10, <1>11 DEF Last


(* Where the fibers that are not over came from does not change. *)
Stable(F, G) ==
  \A x \in Plain : Open(F, x) =>
    /\ G[x].up = F[x].up
    /\ x # Body => /\ G[F[x].up].f1 = F[F[x].up].f1
                   /\ G[F[x].up].f2 = F[F[x].up].f2

LEMMA SpineKept ==
  ASSUME NEW F, NEW m, NEW d, FibersOK(F, m, d), NEW G, NEW n, NEW e, FibersOK(G, n, e),
         Stable(F, G), NEW t, NEW P, Waiting(F, P), Spine(F, t, P),
         P # <<>> => t \in Plain /\ Open(F, t),
         \A x \in Frames(F, t) : Inline(G, x) <=> Inline(F, x)
  PROVE  Spine(G, t, P)
<1> SUFFICES ASSUME P # <<>> PROVE Spine(G, t, P)
  BY DEF Spine
<1>1. t \in Plain /\ t \in Fiber /\ Open(F, t)
  BY FiberFacts
<1>2. \A x \in Frames(F, t) : x \in Plain /\ Open(F, x)
  BY <1>1, FramesOpen
<1>3. Frames(G, t) = Frames(F, t)
  BY <1>1, <1>2, InlineHasParent, FramesSame DEF Stable
<1>4. \A j \in 1..Len(P) : /\ P[j] \in Plain /\ P[j] # Body /\ Open(F, P[j])
                           /\ G[P[j]].up = F[P[j]].up
                           /\ G[F[P[j]].up].f1 = F[F[P[j]].up].f1
  BY DEF Waiting, Untouched, Stable
<1>5. ASSUME NEW x \in Frames(F, t), Inline(F, x)
      PROVE  /\ G[x].up = F[x].up
             /\ G[F[x].up].f1 = F[F[x].up].f1 /\ G[F[x].up].f2 = F[F[x].up].f2
  <2>1. x # Body /\ x \in Plain /\ Open(F, x)
    BY <1>2, <1>5, BodyOutermost, FiberFacts
  <2> QED
    BY <2>1 DEF Stable
<1>6. ASSUME NEW x \in Frames(F, t), IsFirst(G, x)
      PROVE  \/ \E j \in 1..Len(P) : P[j] = G[G[x].up].f2
             \/ \A j \in 1..Len(P) : G[P[j]].up > G[x].up
  <2>1. Inline(F, x)
    BY <1>6 DEF IsFirst
  <2>2. IsFirst(F, x)
    BY <1>5, <1>6, <2>1 DEF IsFirst
  <2>3. \/ \E j \in 1..Len(P) : P[j] = F[F[x].up].f2
        \/ \A j \in 1..Len(P) : F[P[j]].up > F[x].up
    BY <2>2 DEF Spine
  <2> QED
    BY <1>4, <1>5, <2>1, <2>3
<1> QED
  BY <1>3, <1>4, <1>6 DEF Spine

LEMMA TailFacts ==
  ASSUME NEW T, NEW P \in Seq(T), P # <<>>, NEW Q, Q = Tail(P)
  PROVE  /\ Q \in Seq(T) /\ Len(Q) \in Nat /\ Len(Q) + 1 = Len(P)
         /\ \A j \in 1..Len(Q) : Q[j] = P[j + 1] /\ j + 1 \in 1..Len(P)
<1>1. PICK l \in Nat : l + 1 = Len(P)
  <2>1. Len(P) \in Nat /\ Len(P) # 0
    OBVIOUS
  <2> QED
    BY <2>1
<1>2. Q \in Seq(T) /\ Len(Q) = l /\ \A j \in 1..l : Q[j] = P[j + 1]
  BY <1>1
<1> QED
  BY <1>1, <1>2

(* A thief takes the outermost of what waits. *)
LEMMA SpineStolen ==
  ASSUME NEW F, NEW m, NEW d, FibersOK(F, m, d), NEW t, NEW P, Waiting(F, P), P # <<>>,
         Spine(F, t, P), t \in Plain /\ Open(F, t)
  PROVE  Waiting(F, Tail(P)) /\ Spine(F, t, Tail(P))
<1>1. PICK Q : Q = Tail(P)
  OBVIOUS
<1>2. P \in Seq(Fiber) /\ \A j \in 1..Len(P) : Untouched(F, P[j])
  BY DEF Waiting
<1>3. /\ Q \in Seq(Fiber) /\ Len(Q) \in Nat /\ Len(Q) + 1 = Len(P)
      /\ \A j \in 1..Len(Q) : Q[j] = P[j + 1] /\ j + 1 \in 1..Len(P)
  BY <1>1, <1>2, TailFacts
<1>4. Waiting(F, Q)
  BY <1>2, <1>3 DEF Waiting
<1>5. ASSUME NEW x \in Frames(F, t), IsFirst(F, x)
      PROVE  \/ \E j \in 1..Len(Q) : Q[j] = F[F[x].up].f2
             \/ \A j \in 1..Len(Q) : F[Q[j]].up > F[x].up
  <2>1. \/ \E j \in 1..Len(P) : P[j] = F[F[x].up].f2
        \/ \A j \in 1..Len(P) : F[P[j]].up > F[x].up
    BY <1>5 DEF Spine
  <2>2. CASE \A j \in 1..Len(P) : F[P[j]].up > F[x].up
    BY <1>3, <2>2
  <2>3. ASSUME NEW j \in 1..Len(P), P[j] = F[F[x].up].f2, j # 1
        PROVE  \E k \in 1..Len(Q) : Q[k] = F[F[x].up].f2
    <3>1. PICK k \in 1..Len(Q) : k + 1 = j
      <4>1. j - 1 \in 1..Len(Q) /\ (j - 1) + 1 = j
        BY <1>3, <2>3
      <4> QED
        BY <4>1
    <3> QED
      BY <1>3, <2>3, <3>1
  <2>4. CASE P[1] = F[F[x].up].f2
    <3>1. x \in Plain /\ Open(F, x) /\ x # Body
      BY <1>5, FramesOpen, BodyOutermost, FiberFacts DEF IsFirst
    <3>2. F[P[1]].up = F[x].up
      BY <2>4, <3>1, ParentFacts DEF ForkShape
    <3>3. 1 \in 1..Len(P) /\ \A j \in 1..Len(Q) : 1 < j + 1
      BY <1>3
    <3>4. \A j \in 1..Len(Q) : F[P[1]].up < F[P[j + 1]].up
      BY <1>3, <3>3 DEF Spine
    <3>5. \A j \in 1..Len(P) : F[P[j]].up \in Plain
      BY <1>2, WaitingFacts
    <3>6. \A j \in 1..Len(Q) : F[P[j + 1]].up > F[P[1]].up
      BY <1>3, <3>3, <3>4, <3>5, FiberFacts
    <3> QED
      BY <1>3, <3>2, <3>6
  <2> QED
    BY <2>1, <2>2, <2>3, <2>4
<1>6. t # NoFiber
  BY FiberFacts
<1>7. \A j, k \in 1..Len(Q) : j < k => F[Q[j]].up < F[Q[k]].up
  <2>1. \A j, k \in 1..Len(P) : j < k => F[P[j]].up < F[P[k]].up
    BY DEF Spine
  <2> QED
    BY <1>3, <2>1
<1>8. \A j \in 1..Len(Q) : F[F[Q[j]].up].f1 \in Frames(F, t)
  BY <1>3 DEF Spine
<1>9. Spine(F, t, Q)
  BY <1>5, <1>6, <1>7, <1>8 DEF Spine
<1> QED
  BY <1>1, <1>4, <1>9

(* The second child, run inline, has nothing waiting that its parent has   *)
(* not: it may begin and end. *)
LEMMA SpineOfSecond ==
  ASSUME NEW F, NEW m, NEW d, FibersOK(F, m, d),
         NEW t \in Plain, Open(F, t), IsSecond(F, t), NEW p, p = F[t].up,
         NEW P, Waiting(F, P)
  PROVE  Spine(F, t, P) <=> Spine(F, p, P)
<1>1. /\ p \in Plain /\ Frames(F, t) = {t} \cup Frames(F, p)
      /\ \A x \in Frames(F, p) : x \in Plain /\ Open(F, x)
  BY FramesOfChild DEF IsSecond
<1>2. ~ IsFirst(F, t)
  <2>1. t # Body
    BY BodyOutermost, FiberFacts DEF IsSecond
  <2>2. ForkShape(F, p)
    BY <2>1, ParentFacts
  <2> QED
    BY <2>2, FiberFacts DEF ForkShape, IsSecond, IsFirst
<1>3. t # NoFiber /\ p # NoFiber
  BY <1>1, FiberFacts
<1>4. \A j \in 1..Len(P) : IsFirst(F, F[F[P[j]].up].f1)
  BY WaitingFacts DEF Waiting
<1>5. \A j \in 1..Len(P) : F[F[P[j]].up].f1 \in Frames(F, t) <=> F[F[P[j]].up].f1 \in Frames(F, p)
  BY <1>1, <1>2, <1>4
<1> QED
  BY <1>1, <1>2, <1>3, <1>5 DEF Spine

(* A fork: the first child runs, and the second waits in the first frame. *)
LEMMA SpineOfFork ==
  ASSUME NEW F, NEW m, NEW d, FibersOK(F, m, d),
         NEW t \in Plain, Open(F, t), IsFirst(F, t), NEW p, p = F[t].up,
         NEW h, h = F[p].f2, Untouched(F, h),
         NEW P, Waiting(F, P), Spine(F, p, P)
  PROVE  Waiting(F, Append(P, h)) /\ Spine(F, t, Append(P, h))
<1>1. /\ p \in Plain /\ Frames(F, t) = {t} \cup Frames(F, p)
      /\ \A x \in Frames(F, p) : x \in Plain /\ Open(F, x) /\ x <= p
  BY FramesOfChild DEF IsFirst
<1>2. ForkShape(F, p) /\ t = F[p].f1 /\ F[h].up = p
  <2>1. t # Body
    BY BodyOutermost, FiberFacts DEF IsFirst
  <2>2. ForkShape(F, p)
    BY <2>1, ParentFacts
  <2> QED
    BY <2>2 DEF ForkShape, IsFirst
<1>3. PICK Q : Q = Append(P, h)
  OBVIOUS
<1>4. P \in Seq(Fiber) /\ Len(P) \in Nat /\ h \in Fiber
  <2>1. P \in Seq(Fiber)
    BY DEF Waiting
  <2>2. h \in Plain
    BY DEF Untouched
  <2> QED
    BY <2>1, <2>2, FiberFacts
<1>5. PICK l : l = Len(P) + 1
  OBVIOUS
<1>6. /\ Q \in Seq(Fiber) /\ Len(Q) = l /\ Q[l] = h /\ l \in 1..l
      /\ \A j \in 1..Len(P) : Q[j] = P[j] /\ j \in 1..l
      /\ \A j \in 1..l : j \in 1..Len(P) \/ j = l
  BY <1>3, <1>4, <1>5
<1>7. Waiting(F, Q)
  BY <1>6 DEF Waiting
<1>8. \A j \in 1..Len(P) : /\ F[P[j]].up \in Plain /\ F[P[j]].up < p
                           /\ F[F[P[j]].up].f1 \in Frames(F, p)
  <2>1. ASSUME NEW j \in 1..Len(P)
        PROVE  /\ F[P[j]].up \in Plain /\ F[P[j]].up < p
               /\ F[F[P[j]].up].f1 \in Frames(F, p)
    <3>1. F[F[P[j]].up].f1 \in Frames(F, p)
      BY <1>4 DEF Spine
    <3>2. F[P[j]].up \in Plain /\ F[P[j]].up < F[F[P[j]].up].f1
      <4>1. Untouched(F, P[j])
        BY DEF Waiting
      <4> QED
        BY <4>1, WaitingFacts
    <3>3. F[F[P[j]].up].f1 <= p /\ F[F[P[j]].up].f1 \in Plain
      BY <1>1, <3>1
    <3>4. F[P[j]].up \in Int /\ F[F[P[j]].up].f1 \in Int /\ p \in Int
      BY <1>1, <3>2, <3>3, FiberFacts
    <3>5. F[P[j]].up < p
      BY <3>2, <3>3, <3>4
    <3> QED
      BY <3>1, <3>2, <3>5
  <2> QED
    BY <2>1
<1>9. \A j \in 1..l : F[F[Q[j]].up].f1 \in Frames(F, t)
  BY <1>1, <1>2, <1>6, <1>8
<1>10. ASSUME NEW j \in 1..l, NEW k \in 1..l, j < k
       PROVE  F[Q[j]].up < F[Q[k]].up
  <2>1. j \in 1..Len(P) /\ (k \in 1..Len(P) \/ k = l)
    BY <1>4, <1>5, <1>10
  <2>2. CASE k = l
    BY <1>2, <1>6, <1>8, <2>1, <2>2, Zenon
  <2>3. CASE k \in 1..Len(P)
    BY <1>6, <1>10, <2>1, <2>3 DEF Spine
  <2> QED
    BY <2>1, <2>2, <2>3
<1>11. ASSUME NEW x \in Frames(F, t), IsFirst(F, x)
       PROVE  \/ \E j \in 1..l : Q[j] = F[F[x].up].f2
              \/ \A j \in 1..l : F[Q[j]].up > F[x].up
  <2>1. CASE x = t
    BY <1>6, <2>1
  <2>2. CASE x # t
    <3>1. x \in Frames(F, p) /\ x \in Plain /\ Open(F, x) /\ x <= p /\ x # Body
      BY <1>1, <1>11, <2>2, BodyOutermost, FiberFacts DEF IsFirst
    <3>2. F[x].up \in Plain /\ F[x].up < x
      BY <3>1, ParentFacts
    <3>3. F[h].up > F[x].up
      <4>1. \A u \in Plain : u < x => p > u
        BY <1>1, <3>1, FiberFacts
      <4> QED
        BY <1>2, <3>2, <4>1, Zenon
    <3>4. \/ \E j \in 1..Len(P) : P[j] = F[F[x].up].f2
          \/ \A j \in 1..Len(P) : F[P[j]].up > F[x].up
      BY <1>4, <1>11, <3>1 DEF Spine
    <3> QED
      BY <1>6, <3>3, <3>4
  <2> QED
    BY <2>1, <2>2
<1>12. t # NoFiber
  BY FiberFacts
<1>13. Spine(F, t, Q)
  BY <1>6, <1>9, <1>10, <1>11, <1>12 DEF Spine
<1> QED
  BY <1>3, <1>7, <1>13


-----------------------------------------------------------------------------
(* What the steps do to the fibers.                                        *)

(* A fiber that can be run: a new one, or one whose children are over. *)
Runnable(F, x) ==
  \/ x = Terminal /\ F[x].incounter = 0 /\ F[x].alive /\ F[x].ctx = "begin"
  \/ x \in Plain /\ Open(F, x) /\ F[x].ctx = "begin"
  \/ x \in Plain /\ Open(F, x) /\ F[x].ctx = "return" /\ F[x].incounter = 0

(* But for the children of q, the parent of an inline fiber stays as it is.*)
SameParents(F, G, q) ==
  \A x \in Plain : Open(F, x) /\ Inline(F, x) /\ F[x].up # q =>
    /\ G[F[x].up].status = F[F[x].up].status
    /\ Inline(G, F[F[x].up].f2) <=> Inline(F, F[F[x].up].f2)

LEMMA TypedFields ==
  ASSUME NEW F \in [Fiber -> FiberType], NEW x \in Fiber
  PROVE  /\ F[x] \in FiberType
         /\ F[x].incounter \in 0..2 /\ F[x].outedge \in Fiber \cup {NoFiber}
         /\ F[x].status \in {"pause", "finish", "exit_launch"}
         /\ F[x].stack \in {"null", "own", "notown"}
         /\ F[x].ctx \in {"begin", "return", "used"}
         /\ F[x].f1 \in Fiber \cup {NoFiber} /\ F[x].f2 \in Fiber \cup {NoFiber}
         /\ F[x].up \in Fiber \cup {NoFiber} /\ F[x].alive \in BOOLEAN
BY DEF FiberType

LEMMA SamePlain ==
  ASSUME NEW F, NEW m, NEW d, FibersOK(F, m, d), NEW G, \A x \in Plain : G[x] = F[x],
         NEW q
  PROVE  /\ Unmade(G, m) /\ ChildShape(G) /\ PlainShape(G)
         /\ \A x \in Plain : Open(G, x) <=> Open(F, x)
         /\ Stable(F, G) /\ SameParents(F, G, q)
<1>1. \A x \in Plain : /\ Open(G, x) <=> Open(F, x)
                       /\ Inline(G, x) <=> Inline(F, x)
                       /\ One(G, x) = One(F, x)
  BY DEF Open, Inline, One
<1>2. Unmade(G, m)
  BY DEF FibersOK, Unmade
<1>3. ChildShape(G)
  <2>1. ASSUME NEW f \in Plain \ {Body}, Open(F, f)
        PROVE  /\ G[f].outedge = G[f].up /\ G[f].up \in Plain /\ G[f].up < f
               /\ Open(G, G[f].up) /\ G[G[f].up].ctx = "return"
               /\ f \in {G[G[f].up].f1, G[G[f].up].f2}
    <3>1. PICK p : p = F[f].up
      OBVIOUS
    <3>2. /\ p \in Plain /\ p < f /\ F[f].outedge = p
          /\ Open(F, p) /\ F[p].ctx = "return" /\ (f = F[p].f1 \/ f = F[p].f2)
      BY <2>1, <3>1, ParentFacts
    <3>3. G[f] = F[f] /\ G[p] = F[p] /\ Open(G, p)
      BY <1>1, <3>2
    <3> QED
      BY <3>1, <3>2, <3>3
  <2> QED
    BY <1>1, <2>1 DEF ChildShape
<1>4. ASSUME NEW p \in Plain, ForkShape(F, p)
      PROVE  ForkShape(G, p)
  <2>1. PICK g, h : g = F[p].f1 /\ h = F[p].f2
    OBVIOUS
  <2>2. g \in Plain /\ h \in Plain
    BY <1>4, <2>1 DEF ForkShape
  <2>3. G[p] = F[p] /\ G[g] = F[g] /\ G[h] = F[h]
    BY <2>2
  <2> QED
    BY <1>1, <1>4, <2>1, <2>2, <2>3 DEF ForkShape
<1>5. PlainShape(G)
  <2>1. PlainShape(F)
    BY DEF FibersOK
  <2> QED
    BY <1>1, <1>4, <2>1 DEF PlainShape, Shaped
<1>6. Stable(F, G) /\ SameParents(F, G, q)
  <2>1. ASSUME NEW x \in Plain, Open(F, x), x # Body
        PROVE  F[x].up \in Plain /\ F[F[x].up].f2 \in Plain
    BY <2>1, ParentFacts DEF ForkShape
  <2>2. \A x \in Plain : Inline(F, x) => x # Body
    BY BodyOutermost, FiberFacts
  <2> QED
    BY <1>1, <2>1, <2>2 DEF Stable, SameParents
<1> QED
  BY <1>1, <1>2, <1>3, <1>5, <1>6

(* exec() of the terminal fiber. *)
LEMMA TerminalBegins ==
  ASSUME NEW F, NEW m, NEW d, FibersOK(F, m, d), Runnable(F, Terminal),
         NEW G, G = [F EXCEPT ![Terminal].ctx = "used"], NEW q
  PROVE  /\ FibersOK(G, m, d) /\ Stable(F, G) /\ SameParents(F, G, q)
         /\ \A x \in Plain : G[x] = F[x]
<1>1. F \in [Fiber -> FiberType] /\ Terminal \in Fiber /\ F[Terminal] \in FiberType
  BY FiberFacts DEF FibersOK
<1>2. PICK t : t = [F[Terminal] EXCEPT !.ctx = "used"]
  OBVIOUS
<1>3. t \in FiberType
  BY <1>1, <1>2 DEF FiberType
<1>4. G \in [Fiber -> FiberType] /\ G[Terminal] = t /\ \A x \in Plain : G[x] = F[x]
  BY <1>1, <1>2, <1>3 DEF Plain
<1>5. /\ t.outedge = F[Terminal].outedge /\ t.status = F[Terminal].status
      /\ t.stack = F[Terminal].stack /\ t.f1 = F[Terminal].f1 /\ t.f2 = F[Terminal].f2
      /\ t.incounter = F[Terminal].incounter /\ t.alive = F[Terminal].alive
      /\ t.ctx = "used"
  BY <1>1, <1>2 DEF FiberType
<1>6. ~ Open(F, Body)
  <2>1. F[Terminal].incounter = 0 /\ TerminalShape(F, d)
    BY DEF Runnable, FibersOK, Plain
  <2> QED
    BY <2>1 DEF TerminalShape, One
<1>7. /\ Unmade(G, m) /\ ChildShape(G) /\ PlainShape(G)
      /\ \A x \in Plain : Open(G, x) <=> Open(F, x)
      /\ Stable(F, G) /\ SameParents(F, G, q)
  BY <1>4, SamePlain
<1>8. TerminalShape(G, d) /\ BodyShape(G, d)
  <2>1. TerminalShape(F, d) /\ BodyShape(F, d)
    BY DEF FibersOK
  <2>2. Body \in Plain /\ One(G, Body) = One(F, Body)
    BY <1>7, FiberFacts DEF One
  <2>3. TerminalShape(G, d)
    BY <1>4, <1>5, <1>6, <1>7, <2>1, <2>2 DEF TerminalShape
  <2>4. BodyShape(G, d)
    BY <1>4, <1>7, <2>1, <2>2 DEF BodyShape, Inline
  <2> QED
    BY <2>3, <2>4
<1> QED
  BY <1>4, <1>7, <1>8 DEF FibersOK

(* The terminal fiber deletes itself. *)
LEMMA TerminalEnds ==
  ASSUME NEW F, NEW m, NEW d, FibersOK(F, m, d), F[Terminal].incounter = 0,
         NEW G, G = [F EXCEPT ![Terminal].alive = FALSE], NEW q
  PROVE  /\ FibersOK(G, m, TRUE) /\ Stable(F, G) /\ SameParents(F, G, q)
         /\ \A x \in Plain : G[x] = F[x]
<1>1. F \in [Fiber -> FiberType] /\ Terminal \in Fiber /\ F[Terminal] \in FiberType
  BY FiberFacts DEF FibersOK
<1>2. PICK t : t = [F[Terminal] EXCEPT !.alive = FALSE]
  OBVIOUS
<1>3. t \in FiberType
  BY <1>1, <1>2 DEF FiberType
<1>4. G \in [Fiber -> FiberType] /\ G[Terminal] = t /\ \A x \in Plain : G[x] = F[x]
  BY <1>1, <1>2, <1>3 DEF Plain
<1>5. /\ t.outedge = F[Terminal].outedge /\ t.status = F[Terminal].status
      /\ t.stack = F[Terminal].stack /\ t.f1 = F[Terminal].f1 /\ t.f2 = F[Terminal].f2
      /\ t.incounter = F[Terminal].incounter /\ t.ctx = F[Terminal].ctx
      /\ t.alive = FALSE
  BY <1>1, <1>2 DEF FiberType
<1>6. ~ Open(F, Body)
  BY DEF FibersOK, TerminalShape, One
<1>7. /\ Unmade(G, m) /\ ChildShape(G) /\ PlainShape(G)
      /\ \A x \in Plain : Open(G, x) <=> Open(F, x)
      /\ Stable(F, G) /\ SameParents(F, G, q)
  BY <1>4, SamePlain
<1>8. TerminalShape(G, TRUE) /\ BodyShape(G, TRUE)
  <2>1. TerminalShape(F, d) /\ BodyShape(F, d)
    BY DEF FibersOK
  <2>2. Body \in Plain /\ One(G, Body) = One(F, Body) /\ ~ Open(G, Body)
    BY <1>6, <1>7, FiberFacts DEF One
  <2>3. TerminalShape(G, TRUE)
    BY <1>4, <1>5, <2>1, <2>2 DEF TerminalShape
  <2>4. BodyShape(G, TRUE)
    BY <1>4, <2>1, <2>2 DEF BodyShape, Inline
  <2> QED
    BY <2>3, <2>4
<1>9. m \in 1..Terminal
  BY DEF FibersOK
<1> QED
  BY <1>4, <1>7, <1>8, <1>9 DEF FibersOK


(* Where no links between fibers change, children have the same parents.   *)
LEMMA SameLinks ==
  ASSUME NEW F, NEW m, NEW d, FibersOK(F, m, d), NEW G,
         \A x \in Fiber : /\ G[x].outedge = F[x].outedge /\ G[x].up = F[x].up
                          /\ G[x].f1 = F[x].f1 /\ G[x].f2 = F[x].f2
                          /\ G[x].ctx = F[x].ctx /\ G[x].alive = F[x].alive
  PROVE  /\ \A x \in Fiber : (Open(G, x) <=> Open(F, x)) /\ One(G, x) = One(F, x)
         /\ ChildShape(G) /\ Stable(F, G)
<1>1. \A x \in Fiber : (Open(G, x) <=> Open(F, x)) /\ One(G, x) = One(F, x)
  BY DEF Open, One
<1>2. ASSUME NEW f \in Plain \ {Body}, Open(F, f)
      PROVE  /\ G[f].outedge = G[f].up /\ G[f].up \in Plain /\ G[f].up < f
             /\ Open(G, G[f].up) /\ G[G[f].up].ctx = "return"
             /\ f \in {G[G[f].up].f1, G[G[f].up].f2}
             /\ G[f].up = F[f].up
             /\ G[F[f].up].f1 = F[F[f].up].f1 /\ G[F[f].up].f2 = F[F[f].up].f2
  <2>1. PICK p : p = F[f].up
    OBVIOUS
  <2>2. /\ p \in Plain /\ p < f /\ F[f].outedge = p
        /\ Open(F, p) /\ F[p].ctx = "return" /\ (f = F[p].f1 \/ f = F[p].f2)
    BY <1>2, <2>1, ParentFacts
  <2>3. /\ G[f].up = p /\ G[f].outedge = p /\ Open(G, p)
        /\ G[p].f1 = F[p].f1 /\ G[p].f2 = F[p].f2 /\ G[p].ctx = "return"
    BY <1>1, <2>1, <2>2, FiberFacts
  <2> QED
    BY <2>1, <2>2, <2>3
<1>3. ChildShape(G)
  BY <1>1, <1>2, FiberFacts DEF ChildShape
<1>4. Stable(F, G)
  BY <1>2, FiberFacts DEF Stable
<1> QED
  BY <1>1, <1>3, <1>4

(* The stack of p is left; the second child h is to run inline. *)
Leaving(F, p) == [F EXCEPT ![p].status = "finish"]

Taking(F, h) == [F EXCEPT ![h].stack = "notown"]

(* The stack of a parent is left, by its second child or by take. *)
LEMMA ParentLeft ==
  ASSUME NEW F, NEW m, NEW d, FibersOK(F, m, d), NEW p \in Plain, F[p].ctx = "return",
         NEW G, G = Leaving(F, p)
  PROVE  /\ FibersOK(G, m, d) /\ Stable(F, G) /\ SameParents(F, G, p)
         /\ \A x \in Fiber \ {p} : G[x] = F[x]
         /\ \A x \in Fiber : Open(G, x) <=> Open(F, x)
         /\ \A x \in Fiber : Inline(G, x) <=> Inline(F, x)
         /\ G[p].status = "finish" /\ G[p].f1 = F[p].f1 /\ G[p].f2 = F[p].f2
         /\ G[p].ctx = F[p].ctx /\ G[p].up = F[p].up
<1>1. F \in [Fiber -> FiberType] /\ p \in Fiber /\ F[p] \in FiberType
  BY FiberFacts DEF FibersOK
<1>2. PICK t : t = [F[p] EXCEPT !.status = "finish"]
  OBVIOUS
<1>3. t \in FiberType
  BY <1>1, <1>2 DEF FiberType
<1>4. G \in [Fiber -> FiberType] /\ G[p] = t /\ \A x \in Fiber \ {p} : G[x] = F[x]
  BY <1>1, <1>2, <1>3 DEF Leaving
<1>5. /\ t.outedge = F[p].outedge /\ t.status = "finish"
      /\ t.stack = F[p].stack /\ t.f1 = F[p].f1 /\ t.f2 = F[p].f2 /\ t.up = F[p].up
      /\ t.incounter = F[p].incounter /\ t.ctx = F[p].ctx /\ t.alive = F[p].alive
  BY <1>1, <1>2 DEF FiberType
<1>6. \A x \in Fiber :
        /\ G[x].outedge = F[x].outedge /\ G[x].stack = F[x].stack
        /\ G[x].f1 = F[x].f1 /\ G[x].f2 = F[x].f2 /\ G[x].up = F[x].up
        /\ G[x].incounter = F[x].incounter /\ G[x].ctx = F[x].ctx /\ G[x].alive = F[x].alive
        /\ G[x].status = IF x = p THEN "finish" ELSE F[x].status
  BY <1>4, <1>5
<1>7. \A x \in Fiber : /\ Open(G, x) <=> Open(F, x)
                       /\ Inline(G, x) <=> Inline(F, x)
                       /\ One(G, x) = One(F, x)
  BY <1>6 DEF Open, Inline, One
<1>8. ForkShape(F, p) /\ F[p].alive
  <2>1. ForkShape(F, p)
    BY DEF FibersOK, PlainShape, Shaped
  <2> QED
    BY <2>1 DEF ForkShape, Open
<1>9. p < m
  <2>1. F[p] # Dead
    BY <1>8 DEF Dead, NewFiber
  <2>2. m \in Int /\ Unmade(F, m) /\ p \in Int
    BY FiberFacts DEF FibersOK
  <2> QED
    BY <2>1, <2>2 DEF Unmade
<1>10. Unmade(G, m)
  BY <1>4, <1>9, FiberFacts DEF FibersOK, Unmade, Plain
<1>11. TerminalShape(G, d) /\ BodyShape(G, d)
  <2>1. p # Terminal /\ Terminal \in Fiber /\ Body \in Fiber
    BY FiberFacts DEF Plain
  <2>2. G[Terminal] = F[Terminal] /\ One(G, Body) = One(F, Body)
    BY <1>4, <1>7, <2>1
  <2>3. TerminalShape(F, d) /\ BodyShape(F, d)
    BY DEF FibersOK
  <2>4. TerminalShape(G, d)
    BY <1>7, <2>1, <2>2, <2>3 DEF TerminalShape
  <2>5. BodyShape(G, d)
    BY <1>6, <1>7, <2>1, <2>3 DEF BodyShape
  <2> QED
    BY <2>4, <2>5
<1>12. ChildShape(G) /\ Stable(F, G)
  BY <1>6, SameLinks
<1>13. ASSUME NEW q \in Plain, ForkShape(F, q)
       PROVE  ForkShape(G, q)
  <2>1. PICK g, h : g = F[q].f1 /\ h = F[q].f2
    OBVIOUS
  <2>2. g \in Fiber /\ h \in Fiber /\ q \in Fiber
    BY <1>13, <2>1, FiberFacts DEF ForkShape
  <2>3. /\ G[q].f1 = g /\ G[q].f2 = h /\ G[q].incounter = F[q].incounter
        /\ G[q].status = F[q].status \/ G[q].status = "finish"
    BY <1>6, <2>1, <2>2
  <2>4. /\ G[g].alive = F[g].alive /\ G[h].alive = F[h].alive
        /\ G[g].up = F[g].up /\ G[h].up = F[h].up
        /\ G[h].stack = F[h].stack /\ G[h].ctx = F[h].ctx
    BY <1>6, <2>2
  <2>5. /\ Open(G, g) <=> Open(F, g)
        /\ Open(G, h) <=> Open(F, h)
        /\ Open(G, q) <=> Open(F, q)
        /\ Inline(G, g) <=> Inline(F, g)
        /\ Inline(G, h) <=> Inline(F, h)
        /\ One(G, g) = One(F, g) /\ One(G, h) = One(F, h)
    BY <1>7, <2>2
  <2> QED
    BY <1>13, <2>1, <2>3, <2>4, <2>5 DEF ForkShape
<1>14. PlainShape(G)
  <2>1. PlainShape(F) /\ Plain \subseteq Fiber
    BY FiberFacts DEF FibersOK
  <2>2. ASSUME NEW x \in Plain, x # p
        PROVE  G[x] = F[x] /\ (Open(G, x) <=> Open(F, x)) /\ (Inline(G, x) <=> Inline(F, x))
    BY <1>4, <1>7, <2>1, <2>2
  <2>3. /\ G[p].alive /\ G[p].ctx = "return" /\ ForkShape(G, p) /\ Open(G, p)
        /\ G[p].stack # "null" /\ (Inline(G, p) => G[p].up \in Plain)
    <3>1. /\ G[p].alive /\ G[p].ctx = "return" /\ ForkShape(G, p)
          /\ G[p].stack = F[p].stack /\ G[p].up = F[p].up
          /\ (Inline(G, p) <=> Inline(F, p))
      BY <1>6, <1>7, <1>8, <1>13, <2>1
    <3>2. F[p].stack # "null" /\ (Inline(F, p) => F[p].up \in Plain)
      BY <2>1 DEF PlainShape, Shaped
    <3> QED
      BY <3>1, <3>2 DEF ForkShape
  <2>4. Shaped(G, p)
    BY <2>3 DEF Shaped
  <2>5. ASSUME NEW x \in Plain, x # p
        PROVE  Shaped(G, x)
    <3>1. Shaped(F, x)
      BY <2>1 DEF PlainShape, Shaped
    <3> QED
      BY <1>13, <2>2, <2>5, <3>1 DEF Shaped
  <2> QED
    BY <2>4, <2>5 DEF PlainShape
<1>15. SameParents(F, G, p)
  <2>1. ASSUME NEW x \in Plain, Open(F, x), Inline(F, x)
        PROVE  F[x].up \in Fiber /\ F[F[x].up].f2 \in Fiber
    <3>1. x # Body
      BY <2>1, BodyOutermost, FiberFacts
    <3> QED
      BY <2>1, <3>1, ParentFacts, FiberFacts DEF ForkShape
  <2> QED
    BY <1>6, <1>7, <2>1 DEF SameParents
<1> QED
  BY <1>4, <1>5, <1>7, <1>10, <1>11, <1>12, <1>14, <1>15 DEF FibersOK

(* take() has the second child run inline. *)
LEMMA SecondTaken ==
  ASSUME NEW F, NEW m, NEW d, FibersOK(F, m, d), NEW h, Untouched(F, h),
         NEW G, G = Taking(F, h)
  PROVE  /\ FibersOK(G, m, d) /\ Stable(F, G) /\ SameParents(F, G, F[h].up)
         /\ \A x \in Fiber \ {h} : G[x] = F[x]
         /\ \A x \in Fiber : Open(G, x) <=> Open(F, x)
         /\ \A x \in Fiber : Inline(G, x) <=> Inline(F, x) \/ x = h
         /\ G[h].ctx = "begin" /\ G[h].up = F[h].up /\ G[h].alive /\ G[h].outedge = F[h].outedge
         /\ \A x \in Fiber : G[x].f1 = F[x].f1 /\ G[x].f2 = F[x].f2 /\ G[x].ctx = F[x].ctx
<1>1. /\ F \in [Fiber -> FiberType] /\ h \in Plain /\ h \in Fiber /\ F[h] \in FiberType
      /\ h # Body /\ Open(F, h) /\ F[h].ctx = "begin" /\ F[h].stack = "null"
  BY FiberFacts DEF FibersOK, Untouched
<1>2. PICK t : t = [F[h] EXCEPT !.stack = "notown"]
  OBVIOUS
<1>3. t \in FiberType
  BY <1>1, <1>2 DEF FiberType
<1>4. G \in [Fiber -> FiberType] /\ G[h] = t /\ \A x \in Fiber \ {h} : G[x] = F[x]
  BY <1>1, <1>2, <1>3 DEF Taking
<1>5. /\ t.outedge = F[h].outedge /\ t.status = F[h].status
      /\ t.stack = "notown" /\ t.f1 = F[h].f1 /\ t.f2 = F[h].f2 /\ t.up = F[h].up
      /\ t.incounter = F[h].incounter /\ t.ctx = F[h].ctx /\ t.alive = F[h].alive
  BY <1>1, <1>2 DEF FiberType
<1>6. \A x \in Fiber :
        /\ G[x].outedge = F[x].outedge /\ G[x].status = F[x].status
        /\ G[x].f1 = F[x].f1 /\ G[x].f2 = F[x].f2 /\ G[x].up = F[x].up
        /\ G[x].incounter = F[x].incounter /\ G[x].ctx = F[x].ctx /\ G[x].alive = F[x].alive
        /\ G[x].stack = IF x = h THEN "notown" ELSE F[x].stack
  BY <1>4, <1>5
<1>7. \A x \in Fiber : /\ Open(G, x) <=> Open(F, x)
                       /\ Inline(G, x) <=> Inline(F, x) \/ x = h
                       /\ One(G, x) = One(F, x)
  BY <1>6 DEF Open, Inline, One
<1>8. h < m
  <2>1. F[h] # Dead
    BY <1>1 DEF Dead, NewFiber, Open
  <2>2. m \in Int /\ Unmade(F, m) /\ h \in Int
    BY <1>1, FiberFacts DEF FibersOK
  <2> QED
    BY <1>1, <2>1, <2>2 DEF Unmade
<1>9. Unmade(G, m)
  BY <1>4, <1>8, FiberFacts DEF FibersOK, Unmade, Plain
<1>10. TerminalShape(G, d) /\ BodyShape(G, d)
  <2>1. h # Terminal /\ Terminal \in Fiber /\ Body \in Fiber
    BY <1>1, FiberFacts DEF Plain
  <2>2. G[Terminal] = F[Terminal] /\ One(G, Body) = One(F, Body) /\ G[Body] = F[Body]
    BY <1>1, <1>4, <1>7, <2>1
  <2>3. TerminalShape(F, d) /\ BodyShape(F, d)
    BY DEF FibersOK
  <2>4. TerminalShape(G, d)
    BY <1>7, <2>1, <2>2, <2>3 DEF TerminalShape
  <2>5. BodyShape(G, d)
    BY <1>1, <1>7, <2>1, <2>2, <2>3 DEF BodyShape
  <2> QED
    BY <2>4, <2>5
<1>11. ChildShape(G) /\ Stable(F, G)
  BY <1>6, SameLinks
<1>12. PICK p : p = F[h].up
  OBVIOUS
<1>13. p \in Plain /\ ForkShape(F, p) /\ h = F[p].f2 /\ F[p].f1 # h
  <2>1. p \in Plain /\ F[p].f1 < h /\ F[p].f1 \in Plain /\ ForkShape(F, p) /\ h = F[p].f2
    BY <1>12, WaitingFacts
  <2> QED
    BY <1>1, <2>1, FiberFacts
<1>14. ASSUME NEW q \in Plain, ForkShape(F, q)
       PROVE  ForkShape(G, q)
  <2>1. PICK a, b : a = F[q].f1 /\ b = F[q].f2
    OBVIOUS
  <2>2. a \in Fiber /\ b \in Fiber /\ q \in Fiber
    BY <1>14, <2>1, FiberFacts DEF ForkShape
  <2>3. /\ G[q].f1 = a /\ G[q].f2 = b /\ G[q].incounter = F[q].incounter
        /\ G[q].status = F[q].status
    BY <1>6, <2>1, <2>2
  <2>4. /\ G[a].alive = F[a].alive /\ G[b].alive = F[b].alive
        /\ G[a].up = F[a].up /\ G[b].up = F[b].up
        /\ G[b].stack = "null" => F[b].stack = "null"
        /\ G[b].ctx = F[b].ctx
    BY <1>6, <2>2
  <2>5. /\ Open(G, a) <=> Open(F, a)
        /\ Open(G, b) <=> Open(F, b)
        /\ Open(G, q) <=> Open(F, q)
        /\ Inline(F, a) => Inline(G, a)
        /\ Inline(F, b) => Inline(G, b)
        /\ Inline(G, b) => Inline(F, b) \/ Open(G, b)
        /\ One(G, a) = One(F, a) /\ One(G, b) = One(F, b)
    BY <1>1, <1>7, <2>2
  <2> QED
    BY <1>14, <2>1, <2>3, <2>4, <2>5 DEF ForkShape
<1>15. PlainShape(G)
  <2>1. PlainShape(F) /\ Plain \subseteq Fiber
    BY FiberFacts DEF FibersOK
  <2>2. ASSUME NEW x \in Plain, x # h
        PROVE  G[x] = F[x] /\ (Open(G, x) <=> Open(F, x)) /\ (Inline(G, x) <=> Inline(F, x))
    BY <1>4, <1>7, <2>1, <2>2
  <2>3. /\ G[h].alive /\ G[h].ctx = "begin" /\ Open(G, h)
        /\ G[h].stack = "notown" /\ G[h].up \in Plain
        /\ G[h].f1 = F[h].f1 /\ G[h].f2 = F[h].f2 /\ G[h].incounter = F[h].incounter
        /\ G[h].status = F[h].status
    <3>1. F[h].alive
      BY <1>1 DEF Open
    <3> QED
      BY <1>1, <1>4, <1>5, <1>7, <1>12, <1>13, <3>1, Zenon
  <2> QED
    BY <1>1, <1>14, <2>1, <2>2, <2>3 DEF PlainShape, Shaped
<1>16. SameParents(F, G, p)
  <2>1. ASSUME NEW x \in Plain, Open(F, x), Inline(F, x), F[x].up # p
        PROVE  F[x].up \in Fiber /\ F[F[x].up].f2 \in Fiber /\ F[F[x].up].f2 # h
    <3>1. x # Body
      BY <2>1, BodyOutermost, FiberFacts
    <3>2. F[x].up \in Plain /\ ForkShape(F, F[x].up)
      BY <2>1, <3>1, ParentFacts
    <3> QED
      BY <1>12, <2>1, <3>2, FiberFacts DEF ForkShape
  <2> QED
    BY <1>6, <1>7, <2>1 DEF SameParents
<1> QED
  BY <1>1, <1>4, <1>5, <1>6, <1>7, <1>9, <1>10, <1>11, <1>12, <1>15, <1>16 DEF FibersOK, Open


(* notify() of f, whose outedge leads to g.  If g is still paused, f is not *)
(* the child that is to leave g's stack. *)
Notifying(F, f, g) == [F EXCEPT ![f].outedge = NoFiber, ![g].incounter = @ - 1]

MayNotify(F, f, g) ==
  f # Body => /\ \/ F[g].status = "finish"
                 \/ f # IF Inline(F, F[g].f2) THEN F[g].f2 ELSE F[g].f1
              /\ Inline(F, f) /\ f = F[g].f2 => ~ Open(F, F[g].f1)

(* notify() of a fiber that is over. *)
LEMMA Notified ==
  ASSUME NEW F, NEW m, NEW d, FibersOK(F, m, d), NEW f \in Plain, Open(F, f), F[f].ctx = "used",
         NEW g, g = F[f].outedge,
         MayNotify(F, f, g), NEW G, G = Notifying(F, f, g), NEW q
  PROVE  /\ FibersOK(G, m, d) /\ Stable(F, G) /\ SameParents(F, G, q)
         /\ g \in Fiber /\ g # f
         /\ \A x \in Fiber \ {f, g} : G[x] = F[x]
         /\ \A x \in Fiber : Open(G, x) <=> Open(F, x) /\ x # f
         /\ \A x \in Fiber : Inline(G, x) <=> Inline(F, x)
         /\ \A x \in Fiber : G[x].f1 = F[x].f1 /\ G[x].f2 = F[x].f2 /\ G[x].ctx = F[x].ctx
         /\ G[g].incounter = F[g].incounter - 1 /\ G[g].alive = F[g].alive
<1>1. F \in [Fiber -> FiberType] /\ f \in Fiber /\ F[f] \in FiberType
  BY FiberFacts DEF FibersOK
<1>2. /\ g \in Fiber /\ g # f /\ F[g].incounter >= 1 /\ F[g].ctx = IF f = Body THEN "begin" ELSE "return"
      /\ f = Body => g = Terminal
      /\ f # Body => /\ g \in Plain /\ g = F[f].up /\ ForkShape(F, g)
                     /\ (f = F[g].f1 \/ f = F[g].f2)
  <2>1. CASE f = Body
    <3>1. g = Terminal
      BY <2>1 DEF FibersOK, BodyShape, Open
    <3>2. F[Terminal].incounter = 1 /\ F[Terminal].ctx = "begin"
      BY <2>1 DEF FibersOK, TerminalShape, One
    <3> QED
      BY <2>1, <3>1, <3>2, FiberFacts
  <2>2. CASE f # Body
    <3>1. PICK p : p = F[f].up
      OBVIOUS
    <3>2. /\ p \in Plain /\ p < f /\ F[f].outedge = p
          /\ Open(F, p) /\ F[p].ctx = "return" /\ ForkShape(F, p)
          /\ F[p].incounter >= 1 /\ (f = F[p].f1 \/ f = F[p].f2)
      BY <2>2, <3>1, ParentFacts
    <3> QED
      BY <2>2, <3>1, <3>2, FiberFacts
  <2> QED
    BY <2>1, <2>2
<1>3. PICK s, t : /\ s = [F[f] EXCEPT !.outedge = NoFiber]
                  /\ t = [F[g] EXCEPT !.incounter = F[g].incounter - 1]
  OBVIOUS
<1>4. F[g] \in FiberType /\ F[g].incounter - 1 \in 0..2
  BY <1>1, <1>2 DEF FiberType
<1>5. s \in FiberType
  BY <1>1, <1>3 DEF FiberType
<1>6. t \in FiberType
  BY <1>3, <1>4 DEF FiberType
<1>7. /\ G \in [Fiber -> FiberType] /\ G[f] = s /\ G[g] = t
      /\ \A x \in Fiber \ {f, g} : G[x] = F[x]
  BY <1>1, <1>2, <1>3, <1>5, <1>6 DEF Notifying
<1>8. /\ s.outedge = NoFiber /\ s.status = F[f].status /\ s.stack = F[f].stack
      /\ s.f1 = F[f].f1 /\ s.f2 = F[f].f2 /\ s.up = F[f].up
      /\ s.incounter = F[f].incounter /\ s.ctx = F[f].ctx /\ s.alive = F[f].alive
  BY <1>1, <1>3 DEF FiberType
<1>9. /\ t.outedge = F[g].outedge /\ t.status = F[g].status /\ t.stack = F[g].stack
      /\ t.f1 = F[g].f1 /\ t.f2 = F[g].f2 /\ t.up = F[g].up
      /\ t.incounter = F[g].incounter - 1 /\ t.ctx = F[g].ctx /\ t.alive = F[g].alive
  BY <1>3, <1>4 DEF FiberType
<1>10. \A x \in Fiber :
         /\ G[x].f1 = F[x].f1 /\ G[x].f2 = F[x].f2 /\ G[x].up = F[x].up
         /\ G[x].ctx = F[x].ctx /\ G[x].alive = F[x].alive
         /\ G[x].stack = F[x].stack /\ G[x].status = F[x].status
  BY <1>2, <1>7, <1>8, <1>9
<1>11. /\ \A x \in Fiber : Open(G, x) <=> Open(F, x) /\ x # f
       /\ \A x \in Fiber : Inline(G, x) <=> Inline(F, x)
       /\ One(F, f) = 1 /\ One(G, f) = 0
       /\ \A x \in Fiber \ {f} : One(G, x) = One(F, x)
       /\ \A x \in Fiber \ {f} : G[x].outedge = F[x].outedge
       /\ \A x \in Fiber \ {g} : G[x].incounter = F[x].incounter
       /\ G[g].incounter = F[g].incounter - 1
  <2>1. \A x \in Fiber \ {f} : G[x].outedge = F[x].outedge
    BY <1>7, <1>9
  <2>2. \A x \in Fiber \ {g} : G[x].incounter = F[x].incounter
    BY <1>7, <1>8
  <2>3. \A x \in Fiber : Open(G, x) <=> Open(F, x) /\ x # f
    BY <1>7, <1>8, <1>10, <2>1 DEF Open
  <2>4. \A x \in Fiber : Inline(G, x) <=> Inline(F, x)
    BY <1>10 DEF Inline
  <2> QED
    BY <1>1, <1>7, <1>9, <2>1, <2>2, <2>3, <2>4 DEF One
<1>12. \A x \in Plain : F[x] = Dead => F[x].ctx = "begin" /\ ~ Open(F, x)
  BY DEF Dead, NewFiber, Open
<1>13. Unmade(G, m)
  <2>1. Unmade(F, m)
    BY DEF FibersOK
  <2>2. ASSUME NEW x \in Plain, x >= m
        PROVE  G[x] = Dead
    <3>1. F[x] = Dead
      BY <2>1, <2>2 DEF Unmade
    <3>2. x # f /\ x # g
      <4>1. F[x].ctx = "begin" /\ ~ Open(F, x)
        BY <1>12, <3>1
      <4> QED
        BY <1>2, <4>1 DEF Plain
    <3> QED
      BY <1>7, <2>2, <3>1, <3>2, FiberFacts
  <2> QED
    BY <2>2 DEF Unmade
<1>14. TerminalShape(G, d)
  <2>1. TerminalShape(F, d) /\ Terminal \in Fiber /\ Terminal # f /\ Body \in Fiber
    BY FiberFacts DEF FibersOK, Plain
  <2>4. F[Terminal].incounter = One(F, Body)
    BY <2>1 DEF TerminalShape
  <2>2. G[Terminal].incounter = One(G, Body)
    <3>1. CASE f = Body
      <4>1. g = Terminal /\ One(F, Body) = 1 /\ One(G, Body) = 0
        BY <1>2, <1>11, <3>1
      <4>2. G[g].incounter = F[g].incounter - 1
        BY <1>11
      <4> QED
        BY <2>4, <4>1, <4>2
    <3>2. CASE f # Body
      <4>1. g # Terminal /\ One(G, Body) = One(F, Body)
        BY <1>2, <1>11, <2>1, <3>2 DEF Plain
      <4> QED
        BY <1>11, <2>1, <2>4, <4>1
    <3> QED
      BY <3>1, <3>2
  <2>3. /\ G[Terminal].f1 = F[Terminal].f1 /\ G[Terminal].f2 = F[Terminal].f2
        /\ G[Terminal].ctx = F[Terminal].ctx /\ G[Terminal].alive = F[Terminal].alive
        /\ G[Terminal].stack = F[Terminal].stack /\ G[Terminal].status = F[Terminal].status
        /\ G[Terminal].outedge = F[Terminal].outedge
        /\ Open(G, Body) => Open(F, Body)
    BY <1>10, <1>11, <2>1
  <2> QED
    BY <2>1, <2>2, <2>3 DEF TerminalShape
<1>15. BodyShape(G, d)
  <2>1. BodyShape(F, d) /\ Body \in Fiber
    BY FiberFacts DEF FibersOK
  <2>2. /\ G[Body].alive = F[Body].alive
        /\ G[Body].outedge = F[Body].outedge \/ G[Body].outedge = NoFiber
        /\ Inline(G, Body) <=> Inline(F, Body)
        /\ Open(G, Body) => Open(F, Body)
    BY <1>7, <1>8, <1>10, <1>11, <2>1
  <2> QED
    BY <2>1, <2>2 DEF BodyShape
<1>16. ASSUME NEW x \in Plain \ {Body}, Open(F, x)
       PROVE  /\ x # f => /\ G[x].outedge = G[x].up /\ G[x].up \in Plain /\ G[x].up < x
                          /\ Open(G, G[x].up) /\ G[G[x].up].ctx = "return"
                          /\ x \in {G[G[x].up].f1, G[G[x].up].f2}
              /\ G[x].up = F[x].up
              /\ G[F[x].up].f1 = F[F[x].up].f1 /\ G[F[x].up].f2 = F[F[x].up].f2
  <2>1. PICK p : p = F[x].up
    OBVIOUS
  <2>2. /\ p \in Plain /\ p < x /\ F[x].outedge = p
        /\ Open(F, p) /\ F[p].ctx = "return" /\ (x = F[p].f1 \/ x = F[p].f2)
    BY <1>16, <2>1, ParentFacts
  <2>3. p # f /\ p \in Fiber /\ x \in Fiber
    BY <2>2, FiberFacts
  <2>4. G[x].up = p /\ G[p].f1 = F[p].f1 /\ G[p].f2 = F[p].f2 /\ G[p].ctx = "return"
    BY <1>10, <2>1, <2>2, <2>3
  <2>5. (x # f => G[x].outedge = p) /\ Open(G, p)
    BY <1>11, <2>2, <2>3
  <2> QED
    BY <2>1, <2>2, <2>4, <2>5
<1>17. ChildShape(G) /\ Stable(F, G)
  <2>1. ChildShape(G)
    <3>1. \A x \in Plain : Open(G, x) => Open(F, x) /\ x # f
      BY <1>11, FiberFacts
    <3> QED
      BY <1>16, <3>1 DEF ChildShape
  <2>2. Stable(F, G)
    <3>1. \A x \in Plain : G[x].up = F[x].up
      BY <1>10, FiberFacts
    <3> QED
      BY <1>16, <3>1 DEF Stable
  <2> QED
    BY <2>1, <2>2
<1>18. ASSUME NEW p \in Plain, ForkShape(F, p), F[p].ctx = "return"
       PROVE  ForkShape(G, p)
  <2>1. PICK a, b : a = F[p].f1 /\ b = F[p].f2
    OBVIOUS
  <2>2. /\ a \in Fiber /\ b \in Fiber /\ p \in Fiber /\ p \in Int /\ a \in Int /\ b \in Int
        /\ p < a /\ a < b /\ F[a].up = p /\ F[b].up = p /\ a # b
    <3>1. a \in Plain /\ b \in Plain /\ p < a /\ a < b /\ F[a].up = p /\ F[b].up = p
      BY <1>18, <2>1 DEF ForkShape
    <3> QED
      BY <3>1, FiberFacts
  <2>3. p = g <=> f = a \/ f = b
    <3>1. f = a \/ f = b => f # Body
      BY <2>2, FiberFacts
    <3>2. p = g => f # Body
      BY <1>2 DEF Plain
    <3> QED
      BY <1>2, <2>1, <2>2, <3>1, <3>2
  <2>4. One(F, f) = 1 /\ \A x : One(F, x) \in {0, 1}
    BY DEF One
  <2>5. G[p].incounter = One(G, a) + One(G, b)
    <3>1. F[p].incounter = One(F, a) + One(F, b)
      BY <1>18, <2>1 DEF ForkShape
    <3>2. CASE f = a
      <4>1. /\ G[p].incounter = F[p].incounter - 1 /\ One(G, b) = One(F, b)
            /\ One(F, a) = 1 /\ One(G, a) = 0
        BY <1>11, <2>2, <2>3, <3>2
      <4> QED
        BY <2>4, <3>1, <4>1
    <3>3. CASE f = b
      <4>1. /\ G[p].incounter = F[p].incounter - 1 /\ One(G, a) = One(F, a)
            /\ One(F, b) = 1 /\ One(G, b) = 0
        BY <1>11, <2>2, <2>3, <3>3
      <4> QED
        BY <2>4, <3>1, <4>1
    <3>4. CASE f # a /\ f # b
      <4>1. /\ G[p].incounter = F[p].incounter
            /\ One(G, a) = One(F, a) /\ One(G, b) = One(F, b)
        BY <1>11, <2>2, <2>3, <3>4
      <4> QED
        BY <3>1, <4>1
    <3> QED
      BY <3>2, <3>3, <3>4
  <2>6. /\ G[p].f1 = a /\ G[p].f2 = b /\ G[p].status = F[p].status
        /\ G[a].alive = F[a].alive /\ G[b].alive = F[b].alive
        /\ G[a].up = F[a].up /\ G[b].up = F[b].up
        /\ G[b].stack = F[b].stack /\ G[b].ctx = F[b].ctx
    BY <1>10, <2>1, <2>2
  <2>7. /\ Open(G, a) <=> Open(F, a) /\ a # f
        /\ Open(G, b) <=> Open(F, b) /\ b # f
        /\ Open(G, p) <=> Open(F, p) /\ p # f
        /\ Inline(G, a) <=> Inline(F, a)
        /\ Inline(G, b) <=> Inline(F, b)
    BY <1>11, <2>2
  <2>8. p # f
    BY <1>18
  <2>9. F[b].stack = "null" => b # f
    <3>1. F[b].stack = "null" => F[b].ctx = "begin"
      BY <1>18, <2>1 DEF ForkShape
    <3> QED
      BY <3>1
  <2>10. \/ F[p].status = "finish"
         \/ F[p].status = "pause" /\ Inline(F, b) /\ Open(F, b) /\ b # f
         \/ F[p].status = "pause" /\ ~ Inline(F, b) /\ Open(F, a) /\ a # f
    <3>1. p = g => f # Body
      BY <1>2 DEF Plain
    <3>2. \/ F[p].status = "finish"
          \/ F[p].status = "pause" /\ Inline(F, b) /\ Open(F, b)
          \/ F[p].status = "pause" /\ ~ Inline(F, b) /\ Open(F, a)
      BY <1>18, <2>1 DEF ForkShape
    <3> QED
      BY <2>1, <2>3, <3>1, <3>2 DEF MayNotify
  <2>11. /\ a \in Plain /\ b \in Plain /\ p < a /\ a < b
         /\ F[a].alive /\ F[b].alive /\ F[a].up = p /\ F[b].up = p
         /\ Inline(F, a) /\ Open(F, p)
         /\ F[b].stack = "null" => Open(F, b) /\ F[b].ctx = "begin"
    BY <1>18, <2>1 DEF ForkShape
  <2>12. Inline(G, b) => Open(G, b) \/ ~ Open(G, a)
    <3>1. Inline(F, b) => Open(F, b) \/ ~ Open(F, a)
      BY <1>18, <2>1 DEF ForkShape
    <3>2. Inline(F, b) /\ f = b => ~ Open(F, a)
      <4>1. f = b => p = g /\ f # Body
        BY <1>2, <2>3 DEF Plain
      <4> QED
        BY <2>1, <4>1 DEF MayNotify
    <3> QED
      BY <2>7, <3>1, <3>2
  <2> QED
    BY <2>5, <2>6, <2>7, <2>8, <2>9, <2>10, <2>11, <2>12 DEF ForkShape
<1>19. PlainShape(G)
  <2>1. ASSUME NEW x \in Plain
        PROVE  Shaped(G, x)
    <3>1. Shaped(F, x) /\ x \in Fiber
      BY FiberFacts DEF FibersOK, PlainShape
    <3>2. (F[x].alive /\ x \in {f, g}) \/ G[x] = F[x]
      <4>1. F[f].alive
        BY DEF Open
      <4>2. f # Body => F[g].alive
        BY <1>2 DEF ForkShape, Open
      <4> QED
        BY <1>2, <1>7, <3>1, <4>1, <4>2 DEF Plain
    <3>3. x = g => F[x].ctx = "return"
      BY <1>2 DEF Plain
    <3>4. /\ G[x].f1 = F[x].f1 /\ G[x].f2 = F[x].f2 /\ G[x].up = F[x].up
          /\ G[x].ctx = F[x].ctx /\ G[x].alive = F[x].alive
          /\ G[x].stack = F[x].stack /\ G[x].status = F[x].status
          /\ Inline(G, x) <=> Inline(F, x)
      BY <1>10, <1>11, <3>1
    <3>5. ~ G[x].alive => G[x] = Dead
      BY <3>1, <3>2, <3>4 DEF Shaped
    <3>6. G[x].ctx = "return" => ForkShape(G, x)
      BY <1>18, <3>1, <3>4 DEF Shaped
    <3>7. G[x].ctx # "return" => G[x].incounter = F[x].incounter
      BY <1>11, <3>1, <3>3, <3>4
    <3>8. G[x].alive /\ ~ Open(G, x) => G[x].ctx = "used"
      BY <1>11, <3>1, <3>4 DEF Shaped
    <3> QED
      BY <3>1, <3>4, <3>5, <3>6, <3>7, <3>8 DEF Shaped
  <2> QED
    BY <2>1 DEF PlainShape
<1>20. SameParents(F, G, q)
  <2>1. ASSUME NEW x \in Plain, Open(F, x), Inline(F, x)
        PROVE  F[x].up \in Fiber /\ F[F[x].up].f2 \in Fiber
    <3>1. x # Body
      BY <2>1, BodyOutermost, FiberFacts
    <3> QED
      BY <2>1, <3>1, ParentFacts, FiberFacts DEF ForkShape
  <2> QED
    BY <1>10, <1>11, <2>1 DEF SameParents
<1> QED
  BY <1>2, <1>3, <1>7, <1>10, <1>11, <1>13, <1>14, <1>15, <1>17, <1>19, <1>20 DEF FibersOK


LEMMA DeadFacts ==
  /\ Dead \in FiberType /\ ~ Dead.alive /\ Dead.incounter = 0 /\ Dead.status = "finish"
  /\ Dead.ctx = "begin" /\ Dead.stack = "null" /\ Dead.f1 = NoFiber /\ Dead.f2 = NoFiber
<1>1. PICK n : n = NewFiber(0, NoFiber, "finish")
  OBVIOUS
<1>2. /\ n \in FiberType /\ n.incounter = 0 /\ n.status = "finish"
      /\ n.ctx = "begin" /\ n.stack = "null" /\ n.f1 = NoFiber /\ n.f2 = NoFiber
  BY <1>1 DEF FiberType, NewFiber
<1>3. Dead = [n EXCEPT !.alive = FALSE]
  BY <1>1 DEF Dead
<1> QED
  BY <1>2, <1>3 DEF FiberType

(* exec() of another fiber. *)
LEMMA Resumed ==
  ASSUME NEW F, NEW m, NEW d, FibersOK(F, m, d), NEW f \in Plain, Runnable(F, f),
         NEW r, r = Restored(IF F[f].stack = "null" THEN Spawned(F[f]) ELSE F[f]),
         NEW G, G = [x \in Fiber |-> IF x = f THEN r
                                     ELSE IF F[f].ctx = "return" /\ x \in {F[f].f1, F[f].f2}
                                          THEN Dead ELSE F[x]],
         NEW q
  PROVE  /\ FibersOK(G, m, d) /\ Stable(F, G) /\ SameParents(F, G, q)
         /\ \A x \in Fiber \ {f} : Open(F, x) \/ x = Terminal => G[x] = F[x]
         /\ \A x \in Fiber : Open(G, x) <=> Open(F, x)
         /\ \A x \in Fiber : Open(F, x) => (Inline(G, x) <=> Inline(F, x))
         /\ G[f].ctx = "used" /\ G[f].up = F[f].up /\ G[f].f1 = NoFiber
<1> DEFINE Gone(x) == F[f].ctx = "return" /\ x \in {F[f].f1, F[f].f2}
<1>1. /\ F \in [Fiber -> FiberType] /\ f \in Fiber /\ F[f] \in FiberType
      /\ f # Terminal /\ Open(F, f) /\ F[f].alive
  BY FiberFacts DEF FibersOK, Runnable, Open
<1>2. ASSUME F[f].ctx = "return"
      PROVE  /\ ForkShape(F, f) /\ ~ Open(F, F[f].f1) /\ ~ Open(F, F[f].f2)
             /\ F[f].status = "finish" /\ F[f].incounter = 0
  <2>1. ForkShape(F, f) /\ F[f].incounter = 0
    BY <1>1, <1>2 DEF FibersOK, PlainShape, Shaped, Runnable
  <2>2. One(F, F[f].f1) + One(F, F[f].f2) = 0
    BY <2>1 DEF ForkShape
  <2>3. ~ Open(F, F[f].f1) /\ ~ Open(F, F[f].f2)
    BY <2>2 DEF One
  <2> QED
    BY <2>1, <2>3 DEF ForkShape
<1>3. Shaped(F, f)
  BY DEF FibersOK, PlainShape
<1>4. F[f].incounter = 0 /\ F[f].status = "finish"
  BY <1>2, <1>3 DEF Shaped
<1>5. /\ r \in FiberType
      /\ r.outedge = F[f].outedge /\ r.status = "finish" /\ r.up = F[f].up
      /\ r.incounter = 0 /\ r.alive = F[f].alive /\ r.ctx = "used"
      /\ r.f1 = NoFiber /\ r.f2 = NoFiber
      /\ F[f].stack = "null" => r.stack = "own"
      /\ F[f].stack # "null" => r.stack = F[f].stack
  <2>1. PICK s : s = IF F[f].stack = "null" THEN Spawned(F[f]) ELSE F[f]
    OBVIOUS
  <2>2. /\ s \in FiberType
        /\ s.outedge = F[f].outedge /\ s.status = F[f].status /\ s.up = F[f].up
        /\ s.incounter = F[f].incounter /\ s.alive = F[f].alive
        /\ F[f].stack = "null" => s.stack = "own"
        /\ F[f].stack # "null" => s.stack = F[f].stack
    <3>1. CASE F[f].stack = "null"
      BY <1>1, <2>1, <3>1 DEF Spawned, FiberType
    <3>2. CASE F[f].stack # "null"
      BY <1>1, <2>1, <3>2
    <3> QED
      BY <3>1, <3>2
  <2>3. r = [s EXCEPT !.ctx = "used", !.f1 = NoFiber, !.f2 = NoFiber]
    BY <2>1 DEF Restored
  <2> QED
    BY <1>4, <2>2, <2>3 DEF FiberType
<1>6. \A x \in Fiber : Gone(x) => /\ x \in Plain /\ x # f /\ ~ Open(F, x) /\ F[x].alive
                                  /\ F[x].ctx = "used" /\ F[x].up = f /\ x # Body
  <2>1. ASSUME NEW x \in Fiber, Gone(x)
        PROVE  /\ x \in Plain /\ x # f /\ ~ Open(F, x) /\ F[x].alive /\ F[x].up = f /\ x # Body
    <3>1. /\ F[f].f1 \in Plain /\ F[f].f2 \in Plain /\ f < F[f].f1 /\ F[f].f1 < F[f].f2
          /\ F[F[f].f1].alive /\ F[F[f].f2].alive /\ F[F[f].f1].up = f /\ F[F[f].f2].up = f
      BY <1>2, <2>1 DEF ForkShape
    <3> QED
      BY <1>1, <1>2, <2>1, <3>1, FiberFacts
  <2>2. \A x \in Plain : F[x].alive /\ ~ Open(F, x) => F[x].ctx = "used"
    BY DEF FibersOK, PlainShape, Shaped
  <2> QED
    BY <2>1, <2>2
<1>7. /\ Dead \in FiberType /\ ~ Dead.alive /\ Dead.incounter = 0 /\ Dead.status = "finish"
      /\ Dead.ctx = "begin" /\ Dead.stack = "null" /\ Dead.f1 = NoFiber /\ Dead.f2 = NoFiber
  BY DeadFacts
<1>8. /\ G \in [Fiber -> FiberType] /\ G[f] = r
      /\ \A x \in Fiber : x # f /\ ~ Gone(x) => G[x] = F[x]
      /\ \A x \in Fiber : Gone(x) => G[x] = Dead
  BY <1>1, <1>5, <1>6, <1>7
<1> HIDE DEF Gone
<1>9. \A x \in Fiber : Open(G, x) <=> Open(F, x)
  <2>1. Open(G, f)
    BY <1>1, <1>5, <1>8 DEF Open
  <2>2. \A x \in Fiber : Gone(x) => ~ Open(G, x)
    BY <1>7, <1>8 DEF Open
  <2>3. \A x \in Fiber : x # f /\ ~ Gone(x) => (Open(G, x) <=> Open(F, x))
    BY <1>8 DEF Open
  <2> QED
    BY <1>1, <1>6, <2>1, <2>2, <2>3
<1>10. \A x \in Fiber : One(G, x) = One(F, x)
  BY <1>9 DEF One
<1>11. \A x \in Fiber : ~ Gone(x) => (Inline(G, x) <=> Inline(F, x))
  BY <1>5, <1>8 DEF Inline
<1>12. \A x \in Fiber : ~ Gone(x) => /\ G[x].up = F[x].up /\ G[x].outedge = F[x].outedge
                                     /\ G[x].alive = F[x].alive
  BY <1>5, <1>8
<1>13. ASSUME NEW x \in Plain, Open(F, x), x # Body, NEW p, p = F[x].up
       PROVE  p \in Plain /\ ~ Gone(x) /\ p # f /\ ~ Gone(p) /\ G[p] = F[p]
  <2>1. /\ p \in Plain /\ Open(F, p) /\ F[p].ctx = "return" /\ F[p].incounter >= 1
    BY <1>13, ParentFacts
  <2>2. p # f
    BY <1>4, <2>1
  <2> QED
    BY <1>6, <1>8, <1>13, <2>1, <2>2, FiberFacts
<1>14. Unmade(G, m)
  <2>1. Unmade(F, m)
    BY DEF FibersOK
  <2>2. ASSUME NEW x \in Plain, x >= m
        PROVE  G[x] = Dead
    <3>1. F[x] = Dead
      BY <2>1, <2>2 DEF Unmade
    <3>2. x # f
      BY <1>1, <1>7, <3>1
    <3> QED
      BY <1>8, <2>2, <3>1, <3>2, FiberFacts
  <2> QED
    BY <2>2 DEF Unmade
<1>15. TerminalShape(G, d)
  <2>1. TerminalShape(F, d)
    BY DEF FibersOK
  <2>2. G[Terminal] = F[Terminal] /\ One(G, Body) = One(F, Body) /\ (Open(G, Body) => Open(F, Body))
    BY <1>1, <1>6, <1>8, <1>9, <1>10, FiberFacts
  <2> QED
    BY <2>1, <2>2 DEF TerminalShape
<1>16. BodyShape(G, d)
  <2>1. BodyShape(F, d)
    BY DEF FibersOK
  <2>2. /\ G[Body].alive = F[Body].alive /\ G[Body].outedge = F[Body].outedge
        /\ Inline(G, Body) <=> Inline(F, Body)
        /\ Open(G, Body) <=> Open(F, Body)
    BY <1>6, <1>9, <1>11, <1>12, FiberFacts
  <2> QED
    BY <2>1, <2>2 DEF BodyShape
<1>17. ChildShape(G) /\ Stable(F, G)
  <2>1. ASSUME NEW x \in Plain \ {Body}, Open(F, x)
        PROVE  /\ G[x].outedge = G[x].up /\ G[x].up \in Plain /\ G[x].up < x
               /\ Open(G, G[x].up) /\ G[G[x].up].ctx = "return"
               /\ x \in {G[G[x].up].f1, G[G[x].up].f2}
               /\ G[x].up = F[x].up
               /\ G[F[x].up].f1 = F[F[x].up].f1 /\ G[F[x].up].f2 = F[F[x].up].f2
    <3>1. PICK p : p = F[x].up
      OBVIOUS
    <3>2. /\ p \in Plain /\ p < x /\ F[x].outedge = p
          /\ Open(F, p) /\ F[p].ctx = "return" /\ (x = F[p].f1 \/ x = F[p].f2)
      BY <2>1, <3>1, ParentFacts
    <3>3. ~ Gone(x) /\ G[p] = F[p]
      BY <1>13, <2>1, <3>1
    <3>4. G[x].up = p /\ G[x].outedge = p /\ Open(G, p)
      BY <1>9, <1>12, <2>1, <3>1, <3>2, <3>3, FiberFacts
    <3> QED
      BY <3>1, <3>2, <3>3, <3>4, Zenon
  <2>2. \A x \in Plain : Open(F, x) => G[x].up = F[x].up
    BY <1>6, <1>12, FiberFacts
  <2>3. \A x \in Plain : Open(G, x) <=> Open(F, x)
    BY <1>9, FiberFacts
  <2>4. ChildShape(G)
    BY <2>1, <2>3, Zenon DEF ChildShape
  <2> QED
    BY <2>1, <2>2, <2>4, Zenon DEF Stable
<1>18. ASSUME NEW p \in Plain, p # f, ~ Gone(p), F[p].ctx = "return"
       PROVE  ForkShape(G, p)
  <2>1. PICK a, b : a = F[p].f1 /\ b = F[p].f2
    OBVIOUS
  <2>2. ForkShape(F, p)
    BY <1>18 DEF FibersOK, PlainShape, Shaped
  <2>3. /\ a \in Plain /\ b \in Plain /\ p < a /\ a < b
        /\ F[a].alive /\ F[b].alive /\ F[a].up = p /\ F[b].up = p
        /\ Inline(F, a) /\ Open(F, p) /\ F[p].incounter = One(F, a) + One(F, b)
        /\ F[b].stack = "null" => Open(F, b) /\ F[b].ctx = "begin"
        /\ Inline(F, b) => Open(F, b) \/ ~ Open(F, a)
        /\ \/ F[p].status = "finish"
           \/ F[p].status = "pause" /\ Inline(F, b) /\ Open(F, b)
           \/ F[p].status = "pause" /\ ~ Inline(F, b) /\ Open(F, a)
    BY <2>1, <2>2 DEF ForkShape
  <2>4. ~ Gone(a) /\ ~ Gone(b) /\ a \in Fiber /\ b \in Fiber /\ p \in Fiber
    BY <1>6, <1>18, <2>3, FiberFacts
  <2>5. G[p] = F[p]
    BY <1>8, <1>18, <2>4
  <2>6. /\ G[a].alive /\ G[b].alive /\ G[a].up = p /\ G[b].up = p
        /\ Inline(G, a) /\ Open(G, p) /\ One(G, a) = One(F, a) /\ One(G, b) = One(F, b)
        /\ Open(G, a) <=> Open(F, a)
        /\ Open(G, b) <=> Open(F, b)
        /\ Inline(G, b) <=> Inline(F, b)
    BY <1>9, <1>10, <1>11, <1>12, <2>3, <2>4
  <2>7. G[b].stack = "null" => Open(G, b) /\ G[b].ctx = "begin"
    <3>1. b = f => G[b].stack # "null"
      <4>1. r.stack # "null"
        BY <1>5
      <4> QED
        BY <1>8, <4>1
    <3>2. b # f => G[b] = F[b]
      BY <1>8, <2>4
    <3> QED
      BY <2>3, <2>6, <3>1, <3>2
  <2>8. /\ G[p].f1 = a /\ G[p].f2 = b /\ G[p].status = F[p].status
        /\ G[p].incounter = One(G, a) + One(G, b)
    BY <2>1, <2>3, <2>5, <2>6
  <2> QED
    BY <2>3, <2>6, <2>7, <2>8, Zenon DEF ForkShape
<1>19. PlainShape(G)
  <2>1. Shaped(G, f)
    <3>1. F[f].stack # "null" => (Inline(G, f) <=> Inline(F, f))
      BY <1>5, <1>8 DEF Inline
    <3>2. F[f].stack = "null" => ~ Inline(G, f)
      BY <1>5, <1>8 DEF Inline
    <3>3. r.stack # "null"
      BY <1>5
    <3> QED
      BY <1>1, <1>3, <1>5, <1>8, <3>1, <3>2, <3>3 DEF Shaped
  <2>2. ASSUME NEW x \in Plain, Gone(x)
        PROVE  Shaped(G, x)
    <3>1. G[x] = Dead
      BY <1>8, <2>2, FiberFacts
    <3> QED
      BY <1>7, <3>1 DEF Shaped, Inline
  <2>3. ASSUME NEW x \in Plain, x # f, ~ Gone(x)
        PROVE  Shaped(G, x)
    <3>1. Shaped(F, x) /\ x \in Fiber
      BY FiberFacts DEF FibersOK, PlainShape
    <3>2. G[x] = F[x] /\ (Inline(G, x) <=> Inline(F, x)) /\ (Open(G, x) <=> Open(F, x))
      BY <1>8, <1>9, <1>11, <2>3, <3>1
    <3>3. F[x].ctx = "return" => ForkShape(G, x)
      BY <1>18, <2>3
    <3> QED
      BY <3>1, <3>2, <3>3 DEF Shaped
  <2> QED
    BY <2>1, <2>2, <2>3 DEF PlainShape
<1>20. SameParents(F, G, q)
  <2>1. ASSUME NEW x \in Plain, Open(F, x), Inline(F, x)
        PROVE  /\ G[F[x].up].status = F[F[x].up].status
               /\ Inline(G, F[F[x].up].f2) <=> Inline(F, F[F[x].up].f2)
    <3>1. PICK p, b : p = F[x].up /\ b = F[p].f2
      OBVIOUS
    <3>2. x # Body
      BY <2>1, BodyOutermost, FiberFacts
    <3>3. p \in Plain /\ p # f /\ ~ Gone(p) /\ G[p] = F[p]
      BY <1>13, <2>1, <3>1, <3>2
    <3>4. b \in Plain /\ F[b].up = p
      BY <2>1, <3>1, <3>2, ParentFacts DEF ForkShape
    <3>5. ~ Gone(b)
      BY <1>6, <3>3, <3>4, FiberFacts
    <3> QED
      BY <1>11, <3>1, <3>3, <3>4, <3>5, FiberFacts
  <2> QED
    BY <2>1 DEF SameParents
<1>21. \A x \in Fiber \ {f} : Open(F, x) \/ x = Terminal => G[x] = F[x]
  BY <1>6, <1>8, FiberFacts
<1>22. \A x \in Fiber : Open(F, x) => (Inline(G, x) <=> Inline(F, x))
  BY <1>6, <1>11
<1>23. FibersOK(G, m, d)
  BY <1>8, <1>14, <1>15, <1>16, <1>17, <1>19 DEF FibersOK
<1> QED
  BY <1>5, <1>8, <1>9, <1>17, <1>20, <1>21, <1>22, <1>23


LEMMA ChildFacts ==
  ASSUME NEW p \in Fiber, NEW stack \in {"null", "notown"}, NEW b, b = Child(p, stack)
  PROVE  /\ b \in FiberType /\ b.incounter = 0 /\ b.status = "finish" /\ b.stack = stack
         /\ b.ctx = "begin" /\ b.f1 = NoFiber /\ b.f2 = NoFiber /\ b.up = p /\ b.alive
<1>1. PICK n : n = NewFiber(0, NoFiber, "finish")
  OBVIOUS
<1>2. /\ n \in FiberType /\ n.incounter = 0 /\ n.status = "finish"
      /\ n.ctx = "begin" /\ n.f1 = NoFiber /\ n.f2 = NoFiber /\ n.alive
  BY <1>1 DEF FiberType, NewFiber
<1>3. b = [n EXCEPT !.stack = stack, !.up = p]
  BY <1>1 DEF Child
<1> QED
  BY <1>2, <1>3 DEF FiberType

(* The fibers when p has forked g and h. *)
Forking(F, p, g, h) ==
  AddEdge(AddEdge([F EXCEPT
    ![p] = [Saved(@) EXCEPT !.status = "pause", !.f1 = g, !.f2 = h],
    ![g] = Child(p, "notown"), ![h] = Child(p, "null")], h, p), g, p)

(* fork2 makes two children. *)
LEMMA Forked ==
  ASSUME NEW F, NEW m, NEW d, FibersOK(F, m, d),
         NEW p \in Plain, Open(F, p), F[p].ctx = "used",
         NEW g, g = m, NEW h, h = m + 1, h < Terminal,
         NEW G, G = Forking(F, p, g, h), NEW q
  PROVE  /\ FibersOK(G, m + 2, d) /\ Stable(F, G) /\ SameParents(F, G, q)
         /\ g \in Plain /\ h \in Plain /\ p < g /\ g < h /\ F[g] = Dead /\ F[h] = Dead
         /\ \A x \in Fiber \ {p, g, h} : G[x] = F[x]
         /\ \A x \in Fiber : Open(G, x) <=> Open(F, x) \/ x \in {g, h}
         /\ \A x \in Fiber : Inline(G, x) <=> Inline(F, x) \/ x = g
         /\ G[p].ctx = "return" /\ G[p].status = "pause" /\ G[p].incounter = 2
         /\ G[p].f1 = g /\ G[p].f2 = h /\ G[p].up = F[p].up
         /\ G[g].ctx = "begin" /\ IsFirst(G, g) /\ G[g].up = p
         /\ Untouched(G, h) /\ G[h].up = p
<1>1. /\ F \in [Fiber -> FiberType] /\ p \in Fiber /\ F[p] \in FiberType /\ p \in Int
      /\ F[p].alive /\ Shaped(F, p) /\ m \in Int /\ m >= 1 /\ m + 2 \in 1..Terminal
  BY FiberFacts DEF FibersOK, PlainShape, Open
<1>2. g \in Plain /\ h \in Plain /\ g \in Fiber /\ h \in Fiber /\ F[g] = Dead /\ F[h] = Dead
  <2>1. g \in Plain /\ h \in Plain /\ g >= m /\ h >= m
    BY <1>1, FiberFacts
  <2> QED
    BY <2>1, FiberFacts DEF FibersOK, Unmade
<1>3. p < g /\ g < h /\ g # Body /\ h # Body
  <2>1. ~ (p >= m)
    BY <1>1, DeadFacts DEF FibersOK, Unmade
  <2> QED
    BY <1>1, <2>1, FiberFacts
<1>4. p # g /\ p # h /\ g # h
  BY <1>1, <1>3
<1>5. F[p].incounter = 0 /\ F[p].f1 = NoFiber /\ F[p].f2 = NoFiber
  BY <1>1 DEF Shaped
<1>32. PICK a : a = [Child(p, "notown") EXCEPT !.outedge = p]
  OBVIOUS
<1>33. PICK b : b = [Child(p, "null") EXCEPT !.outedge = p]
  OBVIOUS
<1>34. PICK s : s = Saved(F[p])
  OBVIOUS
<1>35. PICK r : r = [s EXCEPT !.status = "pause", !.f1 = g, !.f2 = h]
  OBVIOUS
<1>6. /\ a = [Child(p, "notown") EXCEPT !.outedge = p]
      /\ b = [Child(p, "null") EXCEPT !.outedge = p]
      /\ s = Saved(F[p])
      /\ r = [s EXCEPT !.status = "pause", !.f1 = g, !.f2 = h]
  BY <1>32, <1>33, <1>34, <1>35
<1>7. /\ s \in FiberType /\ s.ctx = "return" /\ s.incounter = 0
      /\ s.outedge = F[p].outedge /\ s.stack = F[p].stack /\ s.up = F[p].up /\ s.alive
  BY <1>1, <1>5, <1>6 DEF Saved, FiberType
<1>8. /\ r \in FiberType /\ r.ctx = "return" /\ r.status = "pause" /\ r.incounter = 0
      /\ r.outedge = F[p].outedge /\ r.stack = F[p].stack /\ r.up = F[p].up /\ r.alive
      /\ r.f1 = g /\ r.f2 = h
  BY <1>2, <1>6, <1>7 DEF FiberType
<1>9. PICK t : t = [r EXCEPT !.incounter = 2]
  OBVIOUS
<1>10. /\ t \in FiberType /\ t.ctx = "return" /\ t.status = "pause" /\ t.incounter = 2
       /\ t.outedge = F[p].outedge /\ t.stack = F[p].stack /\ t.up = F[p].up /\ t.alive
       /\ t.f1 = g /\ t.f2 = h
  BY <1>8, <1>9 DEF FiberType
<1>11. /\ a \in FiberType /\ a.incounter = 0 /\ a.outedge = p /\ a.status = "finish"
       /\ a.stack = "notown" /\ a.ctx = "begin" /\ a.f1 = NoFiber /\ a.f2 = NoFiber
       /\ a.up = p /\ a.alive
  <2>1. PICK k : k = Child(p, "notown")
    OBVIOUS
  <2>2. /\ k \in FiberType /\ k.incounter = 0 /\ k.status = "finish" /\ k.stack = "notown"
        /\ k.ctx = "begin" /\ k.f1 = NoFiber /\ k.f2 = NoFiber /\ k.up = p /\ k.alive
    BY <1>1, <2>1, ChildFacts
  <2>3. a = [k EXCEPT !.outedge = p]
    BY <1>6, <2>1
  <2> QED
    BY <1>1, <2>2, <2>3 DEF FiberType
<1>12. /\ b \in FiberType /\ b.incounter = 0 /\ b.outedge = p /\ b.status = "finish"
       /\ b.stack = "null" /\ b.ctx = "begin" /\ b.f1 = NoFiber /\ b.f2 = NoFiber
       /\ b.up = p /\ b.alive
  <2>1. PICK k : k = Child(p, "null")
    OBVIOUS
  <2>2. /\ k \in FiberType /\ k.incounter = 0 /\ k.status = "finish" /\ k.stack = "null"
        /\ k.ctx = "begin" /\ k.f1 = NoFiber /\ k.f2 = NoFiber /\ k.up = p /\ k.alive
    BY <1>1, <2>1, ChildFacts
  <2>3. b = [k EXCEPT !.outedge = p]
    BY <1>6, <2>1
  <2> QED
    BY <1>1, <2>2, <2>3 DEF FiberType
<1>13. /\ G \in [Fiber -> FiberType] /\ G[p] = t /\ G[g] = a /\ G[h] = b
       /\ \A x \in Fiber \ {p, g, h} : G[x] = F[x]
  <2>1. PICK F1 : F1 = [F EXCEPT ![p] = r, ![g] = Child(p, "notown"), ![h] = Child(p, "null")]
    OBVIOUS
  <2>2. /\ F1 = [x \in Fiber |-> F1[x]]
        /\ F1[p] = r /\ F1[g] = Child(p, "notown") /\ F1[h] = Child(p, "null")
        /\ \A x \in Fiber \ {p, g, h} : F1[x] = F[x]
    BY <1>1, <1>2, <1>4, <2>1
  <2>3. PICK F2 : F2 = AddEdge(F1, h, p)
    OBVIOUS
  <2>4. /\ F2 = [x \in Fiber |-> F2[x]]
        /\ F2[p] = [r EXCEPT !.incounter = r.incounter + 1] /\ F2[g] = Child(p, "notown") /\ F2[h] = b
        /\ \A x \in Fiber \ {p, g, h} : F2[x] = F[x]
    BY <1>1, <1>2, <1>4, <1>6, <2>2, <2>3 DEF AddEdge
  <2>5. G = AddEdge(F2, g, p)
    BY <1>6, <2>1, <2>3 DEF Forking
  <2>6. PICK u : u = F2[p]
    OBVIOUS
  <2>7. /\ G = [x \in Fiber |-> G[x]]
        /\ G[p] = [u EXCEPT !.incounter = u.incounter + 1] /\ G[g] = a /\ G[h] = b
        /\ \A x \in Fiber \ {p, g, h} : G[x] = F[x]
    <3>1. p \in Fiber /\ g \in Fiber /\ h \in Fiber /\ F2 = [x \in Fiber |-> F2[x]]
      BY <1>1, <1>2, <2>4
    <3>2. /\ G = [x \in Fiber |-> G[x]]
          /\ G[p] = [F2[p] EXCEPT !.incounter = F2[p].incounter + 1]
          /\ G[g] = [F2[g] EXCEPT !.outedge = p] /\ G[h] = F2[h]
          /\ \A x \in Fiber \ {p, g, h} : G[x] = F2[x]
      BY <1>4, <2>5, <3>1 DEF AddEdge
    <3>3. G[g] = a
      BY <1>6, <2>4, <3>2
    <3>4. G[p] = [u EXCEPT !.incounter = u.incounter + 1]
      BY <2>6, <3>2
    <3>5. ASSUME NEW x \in Fiber \ {p, g, h}
          PROVE  G[x] = F[x]
      <4>1. F2[x] = F[x]
        BY <2>4
      <4>2. G[x] = F2[x]
        BY <3>2
      <4> QED
        BY <4>1, <4>2
    <3>6. G[h] = b
      <4>1. F2[h] = b
        BY <2>4
      <4> QED
        BY <3>2, <4>1
    <3> QED
      BY <3>2, <3>3, <3>4, <3>5, <3>6
  <2>8. u = [r EXCEPT !.incounter = 1]
    BY <1>8, <2>4, <2>6
  <2>9. G[p] = t
    <3>1. u.incounter = 1 /\ u.incounter + 1 = 2
      BY <1>8, <2>8 DEF FiberType
    <3>2. G[p] = [u EXCEPT !.incounter = 2]
      BY <2>7, <3>1
    <3> QED
      BY <1>8, <1>9, <2>8, <3>2 DEF FiberType
  <2>10. ASSUME NEW x \in Fiber
         PROVE  G[x] \in FiberType
    <3>1. F[x] \in FiberType
      BY <1>1
    <3>2. t \in FiberType /\ a \in FiberType /\ b \in FiberType
      BY <1>10, <1>11, <1>12
    <3> QED
      BY <2>7, <2>9, <3>1, <3>2
  <2> QED
    BY <2>7, <2>9, <2>10
<1>14. \A x \in Fiber : Open(G, x) <=> Open(F, x) \/ x \in {g, h}
  <2>1. Open(G, g) /\ Open(G, h)
    BY <1>1, <1>11, <1>12, <1>13, FiberFacts DEF Open
  <2>2. Open(G, p)
    BY <1>10, <1>13 DEF Open
  <2>3. \A x \in Fiber \ {p, g, h} : Open(G, x) <=> Open(F, x)
    BY <1>13 DEF Open
  <2> QED
    BY <2>1, <2>2, <2>3
<1>15. \A x \in Fiber : Inline(G, x) <=> Inline(F, x) \/ x = g
  <2>1. Inline(G, g) /\ ~ Inline(G, h) /\ ~ Inline(F, h)
    BY <1>2, <1>11, <1>12, <1>13, DeadFacts DEF Inline
  <2>2. Inline(G, p) <=> Inline(F, p)
    BY <1>10, <1>13 DEF Inline
  <2>3. \A x \in Fiber \ {p, g, h} : Inline(G, x) <=> Inline(F, x)
    BY <1>13 DEF Inline
  <2> QED
    BY <1>4, <2>1, <2>2, <2>3
<1>16. ~ Open(F, g) /\ ~ Open(F, h) /\ ~ F[g].alive /\ ~ F[h].alive
  BY <1>2, DeadFacts DEF Open
<1>17. \A x \in Fiber \ {g, h} : One(G, x) = One(F, x)
  BY <1>14 DEF One
<1>18. One(G, g) = 1 /\ One(G, h) = 1
  BY <1>2, <1>14 DEF One
<1>19. ForkShape(G, p)
  <2>1. /\ G[p].f1 = g /\ G[p].f2 = h /\ G[p].incounter = 2 /\ G[p].status = "pause"
        /\ G[g].alive /\ G[h].alive /\ G[g].up = p /\ G[h].up = p
        /\ G[h].stack = "null" /\ G[h].ctx = "begin"
    BY <1>10, <1>11, <1>12, <1>13
  <2>2. Inline(G, g) /\ Open(G, p) /\ Open(G, g) /\ Open(G, h)
    BY <1>1, <1>2, <1>14, <1>15
  <2>3. ~ Inline(G, h)
    BY <2>1 DEF Inline
  <2> QED
    BY <1>2, <1>3, <1>18, <2>1, <2>2, <2>3 DEF ForkShape
<1>20. Unmade(G, m + 2)
  <2>1. ASSUME NEW x \in Plain, x >= m + 2
        PROVE  G[x] = Dead
    <3>1. x >= m /\ x # g /\ x # h /\ x \in Int
      BY <1>1, <2>1, FiberFacts
    <3>2. F[x] = Dead
      BY <3>1 DEF FibersOK, Unmade
    <3>3. x # p
      BY <1>1, <3>2, DeadFacts
    <3> QED
      BY <1>13, <3>1, <3>2, <3>3, FiberFacts
  <2> QED
    BY <2>1 DEF Unmade
<1>21. TerminalShape(G, d)
  <2>1. TerminalShape(F, d)
    BY DEF FibersOK
  <2>2. G[Terminal] = F[Terminal] /\ One(G, Body) = One(F, Body) /\ (Open(G, Body) => Open(F, Body))
    BY <1>2, <1>3, <1>13, <1>14, <1>17, FiberFacts
  <2> QED
    BY <2>1, <2>2 DEF TerminalShape
<1>22. BodyShape(G, d)
  <2>1. BodyShape(F, d)
    BY DEF FibersOK
  <2>2. /\ G[Body].alive = F[Body].alive /\ G[Body].outedge = F[Body].outedge
    <3>1. CASE p = Body
      <4>1. G[p].alive = F[p].alive /\ G[p].outedge = F[p].outedge
        BY <1>1, <1>10, <1>13
      <4> QED
        BY <3>1, <4>1
    <3>2. CASE p # Body
      <4>1. Body \in Fiber \ {p, g, h}
        BY <1>3, <3>2, FiberFacts
      <4> QED
        BY <1>13, <4>1
    <3> QED
      BY <3>1, <3>2
  <2>3. (Inline(G, Body) <=> Inline(F, Body)) /\ (Open(G, Body) <=> Open(F, Body))
    BY <1>3, <1>14, <1>15, FiberFacts
  <2> QED
    BY <2>1, <2>2, <2>3 DEF BodyShape
<1>23. ASSUME NEW x \in Plain, Open(F, x), x # Body
       PROVE  /\ F[x].up \in Plain /\ G[F[x].up] = F[F[x].up]
              /\ G[x].up = F[x].up /\ G[x].outedge = F[x].outedge
  <2> DEFINE o == F[x].up
  <2>1. o \in Plain /\ Open(F, o) /\ F[o].ctx = "return"
    BY <1>23, ParentFacts
  <2>2. o # p /\ o # g /\ o # h /\ G[o] = F[o]
    BY <1>13, <1>16, <2>1, FiberFacts
  <2>3. x # g /\ x # h /\ x \in Fiber
    BY <1>16, <1>23, FiberFacts
  <2>4. G[x].up = o /\ G[x].outedge = F[x].outedge
    BY <1>10, <1>13, <1>23, <2>3
  <2> QED
    BY <2>1, <2>2, <2>3, <2>4
<1>24. ChildShape(G)
  <2>1. ASSUME NEW x \in Plain \ {Body}, Open(G, x)
        PROVE  /\ G[x].outedge = G[x].up /\ G[x].up \in Plain /\ G[x].up < x
               /\ Open(G, G[x].up) /\ G[G[x].up].ctx = "return"
               /\ x \in {G[G[x].up].f1, G[G[x].up].f2}
    <3>1. CASE x \in {g, h}
      <4>1. G[x].outedge = p /\ G[x].up = p /\ p < x
        BY <1>1, <1>2, <1>3, <1>11, <1>12, <1>13, <3>1, FiberFacts
      <4>2. Open(G, p) /\ G[p].ctx = "return" /\ x \in {G[p].f1, G[p].f2}
        BY <1>10, <1>13, <1>19, <3>1 DEF ForkShape
      <4> QED
        BY <4>1, <4>2
    <3>2. CASE x \notin {g, h}
      <4>1. PICK o : o = F[x].up
        OBVIOUS
      <4>2. Open(F, x)
        BY <1>14, <2>1, <3>2, FiberFacts
      <4>3. /\ o \in Plain /\ o < x /\ F[x].outedge = o
            /\ Open(F, o) /\ F[o].ctx = "return" /\ (x = F[o].f1 \/ x = F[o].f2)
        BY <2>1, <4>1, <4>2, ParentFacts
      <4>4. G[F[x].up] = F[F[x].up] /\ G[x].up = F[x].up /\ G[x].outedge = F[x].outedge
        BY <1>23, <2>1, <4>2
      <4>5. Open(G, o)
        BY <1>14, <4>3, FiberFacts
      <4> QED
        BY <4>1, <4>3, <4>4, <4>5
    <3> QED
      BY <3>1, <3>2
  <2> QED
    BY <2>1 DEF ChildShape
<1>25. Stable(F, G)
  <2>1. ASSUME NEW x \in Plain, Open(F, x)
        PROVE  G[x].up = F[x].up
    <3>1. x # g /\ x # h
      BY <1>16, <2>1
    <3> QED
      BY <1>10, <1>13, <3>1, FiberFacts
  <2> QED
    BY <1>23, <2>1 DEF Stable
<1>26. ASSUME NEW o \in Plain, o # p, ForkShape(F, o)
       PROVE  ForkShape(G, o)
  <2>1. PICK x, y : x = F[o].f1 /\ y = F[o].f2
    OBVIOUS
  <2>2. /\ x \in Plain /\ y \in Plain /\ o < x /\ x < y
        /\ F[x].alive /\ F[y].alive /\ F[x].up = o /\ F[y].up = o
        /\ Inline(F, x) /\ Open(F, o) /\ F[o].incounter = One(F, x) + One(F, y)
        /\ F[y].stack = "null" => Open(F, y) /\ F[y].ctx = "begin"
        /\ Inline(F, y) => Open(F, y) \/ ~ Open(F, x)
        /\ \/ F[o].status = "finish"
           \/ F[o].status = "pause" /\ Inline(F, y) /\ Open(F, y)
           \/ F[o].status = "pause" /\ ~ Inline(F, y) /\ Open(F, x)
    BY <1>26, <2>1 DEF ForkShape
  <2>3. /\ x \in Fiber \ {g, h} /\ y \in Fiber \ {g, h} /\ o \in Fiber \ {p, g, h}
    BY <1>16, <1>26, <2>2, FiberFacts
  <2>4. G[o] = F[o]
    BY <1>13, <2>3
  <2>5. /\ G[x].alive /\ G[x].up = F[x].up
        /\ G[y].alive /\ G[y].up = F[y].up /\ G[y].stack = F[y].stack
    <3>1. \A z \in Fiber \ {g, h} : F[z].alive =>
            G[z].alive /\ G[z].up = F[z].up /\ G[z].stack = F[z].stack
      BY <1>10, <1>13
    <3> QED
      BY <2>2, <2>3, <3>1
  <2>6. /\ Inline(G, x) /\ Open(G, o) /\ One(G, x) = One(F, x) /\ One(G, y) = One(F, y)
        /\ Open(G, x) <=> Open(F, x)
        /\ Open(G, y) <=> Open(F, y)
        /\ Inline(G, y) <=> Inline(F, y)
    BY <1>14, <1>15, <1>17, <2>2, <2>3
  <2>7. F[y].stack = "null" => G[y].ctx = "begin"
    <3>1. F[y].stack = "null" => y # p
      BY <2>2
    <3> QED
      BY <1>13, <2>2, <2>3, <3>1
  <2> QED
    BY <2>1, <2>2, <2>4, <2>5, <2>6, <2>7 DEF ForkShape
<1>27. PlainShape(G)
  <2>1. Shaped(G, p)
    <3>1. G[p].stack # "null"
      BY <1>1, <1>10, <1>13 DEF Shaped
    <3>2. Inline(G, p) => G[p].up \in Plain
      BY <1>1, <1>10, <1>13 DEF Shaped, Inline
    <3>3. G[p].alive /\ G[p].ctx = "return" /\ Open(G, p)
      BY <1>10, <1>13, <1>19 DEF ForkShape
    <3> QED
      BY <1>19, <3>1, <3>2, <3>3 DEF Shaped
  <2>2. Shaped(G, g) /\ Shaped(G, h)
    <3>1. Open(G, g) /\ Open(G, h)
      BY <1>2, <1>14
    <3> QED
      BY <1>11, <1>12, <1>13, <3>1 DEF Shaped
  <2>3. ASSUME NEW x \in Plain, x \notin {p, g, h}
        PROVE  Shaped(G, x)
    <3>1. Shaped(F, x) /\ x \in Fiber
      BY FiberFacts DEF FibersOK, PlainShape
    <3>2. G[x] = F[x] /\ (Inline(G, x) <=> Inline(F, x)) /\ (Open(G, x) <=> Open(F, x))
      BY <1>13, <1>14, <1>15, <2>3, <3>1
    <3> QED
      BY <1>26, <2>3, <3>1, <3>2 DEF Shaped
  <2> QED
    BY <2>1, <2>2, <2>3 DEF PlainShape
<1>28. SameParents(F, G, q)
  <2>1. ASSUME NEW x \in Plain, Open(F, x), Inline(F, x)
        PROVE  /\ G[F[x].up].status = F[F[x].up].status
               /\ Inline(G, F[F[x].up].f2) <=> Inline(F, F[F[x].up].f2)
    <3>1. PICK o, b2 : o = F[x].up /\ b2 = F[o].f2
      OBVIOUS
    <3>2. x # Body
      BY <2>1, BodyOutermost, FiberFacts
    <3>3. G[o] = F[o]
      BY <1>23, <2>1, <3>1, <3>2
    <3>4. b2 \in Plain /\ F[b2].alive
      BY <2>1, <3>1, <3>2, ParentFacts DEF ForkShape
    <3>5. b2 # g
      BY <1>16, <3>4
    <3> QED
      BY <1>15, <3>1, <3>3, <3>4, <3>5, FiberFacts
  <2> QED
    BY <2>1 DEF SameParents
<1>29. IsFirst(G, g) /\ Untouched(G, h)
  <2>1. Inline(G, g) /\ Open(G, h)
    BY <1>2, <1>14, <1>15
  <2>2. G[g].up = p /\ G[h].up = p /\ G[p].f1 = g /\ G[p].f2 = h
        /\ G[h].ctx = "begin" /\ G[h].stack = "null"
    BY <1>10, <1>11, <1>12, <1>13
  <2> QED
    BY <1>2, <1>3, <2>1, <2>2 DEF IsFirst, Untouched
<1>30. FibersOK(G, m + 2, d)
  <2>1. d \in BOOLEAN
    BY DEF FibersOK
  <2> QED
    BY <1>1, <1>13, <1>20, <1>21, <1>22, <1>24, <1>27, <2>1 DEF FibersOK
<1>31. /\ G[p].ctx = "return" /\ G[p].status = "pause" /\ G[p].incounter = 2
       /\ G[p].f1 = g /\ G[p].f2 = h /\ G[p].up = F[p].up
       /\ G[g].ctx = "begin" /\ G[g].up = p /\ G[h].up = p
  BY <1>10, <1>11, <1>12, <1>13
<1> QED
  BY <1>2, <1>3, <1>13, <1>14, <1>15, <1>25, <1>28, <1>29, <1>30, <1>31


-----------------------------------------------------------------------------
(* The workers: pc, c, a, r, B, D stand for a worker's wpc, cur, at,       *)
(* currentFiber, buffer and deque.                                         *)

(* The buffer holds what is to be run next: a fiber, or the children of a  *)
(* fork. *)
BufferShape(F, B) ==
  \/ B = <<>>
  \/ \E x \in Fiber : B = <<x>> /\ Runnable(F, x)
  \/ \E g, h \in Plain : /\ B = <<h, g>> /\ Untouched(F, h) /\ g = F[F[h].up].f1
                         /\ Open(F, g) /\ F[g].ctx = "begin"

(* What a worker has when exec() returns to it: the terminal fiber; a      *)
(* parent that has forked; a fiber that is over and ran on its own stack;  *)
(* a first child whose sibling is stolen; a first child whose sibling is   *)
(* to be run inline; a second child that was.                              *)
Returning(F, f, B, D) ==
  \/ f = Terminal /\ B = <<>> /\ F[f].incounter = 0 /\ F[f].alive /\ F[f].ctx = "used"
  \/ /\ f \in Plain /\ Open(F, f) /\ F[f].ctx = "return" /\ F[f].status = "pause"
     /\ F[f].incounter = 2 /\ B = <<F[f].f2, F[f].f1>>
  \/ /\ f \in Plain /\ Open(F, f) /\ F[f].ctx = "used"
     /\ \/ ~ Inline(F, f) /\ B = <<>>
        \/ /\ IsFirst(F, f) /\ ~ Inline(F, F[F[f].up].f2) /\ B = <<>> /\ D = <<>>
           /\ F[F[f].up].status = "finish"
        \/ IsFirst(F, f) /\ Inline(F, F[F[f].up].f2) /\ B = <<F[F[f].up].f2>>
        \/ IsSecond(F, f) /\ B = <<>> /\ F[F[f].up].status = "finish"

RunningShape(F, f, a, r) ==
  /\ f \in Plain /\ Open(F, f) /\ F[f].ctx = "used"
  /\ \/ a = [at |-> "body", f |-> f] /\ r = f
     \/ a = [at |-> "take", f |-> F[f].up] /\ IsFirst(F, f) /\ ~ Inline(F, F[F[f].up].f2)

WorkerShape(F, pc, c, a, r, B, D) ==
  /\ BufferShape(F, B) /\ Waiting(F, D)
  /\ pc # "run" => a = Nowhere
  /\ pc \in {"loop", "acquire", "exited", "run"} => B = <<>>
  /\ pc \in {"flush", "acquire", "exited"} => c = NoFiber
  /\ pc = "loop" => c = NoFiber \/ Runnable(F, c)
  /\ pc = "run" => RunningShape(F, c, a, r)
  /\ pc = "returned" => Returning(F, c, B, D)

(* The fiber whose frames the worker stands on, or will next; the fibers   *)
(* that wait in its deque, or will. *)
Top(B, c) == IF B = <<>> THEN c ELSE B[Len(B)]
Pending(B, D) == IF Len(B) = 2 THEN Append(D, B[1]) ELSE D

WorkerFine(F, pc, c, a, r, B, D) ==
  WorkerShape(F, pc, c, a, r, B, D) /\ Spine(F, Top(B, c), Pending(B, D))

LEMMA TopOfBuffers ==
  ASSUME NEW c, NEW D
  PROVE  /\ Top(<<>>, c) = c /\ Pending(<<>>, D) = D
         /\ \A x : Top(<<x>>, c) = x /\ Pending(<<x>>, D) = D
         /\ \A x, y : Top(<<x, y>>, c) = y /\ Pending(<<x, y>>, D) = Append(D, x)
<1>1. Top(<<>>, c) = c /\ Pending(<<>>, D) = D
  BY DEF Top, Pending
<1>2. ASSUME NEW x
      PROVE  Top(<<x>>, c) = x /\ Pending(<<x>>, D) = D
  BY DEF Top, Pending
<1>3. ASSUME NEW x, NEW y
      PROVE  Top(<<x, y>>, c) = y /\ Pending(<<x, y>>, D) = Append(D, x)
  BY DEF Top, Pending
<1> QED
  BY <1>1, <1>2, <1>3

(* The top is not over, and none of its children is unless it is nobody's  *)
(* turn yet. *)
LEMMA TopFacts ==
  ASSUME NEW F, NEW m, NEW d, FibersOK(F, m, d),
         NEW pc, NEW c, NEW a, NEW r, NEW B, NEW D, WorkerShape(F, pc, c, a, r, B, D),
         pc \in {"flush", "loop", "acquire", "run", "returned", "exited"},
         NEW t, t = Top(B, c), t # NoFiber
  PROVE  /\ t = Terminal \/ (t \in Plain /\ Open(F, t) /\ Outermost(F, t))
         /\ F[t].ctx \in {"begin", "used"} \/ F[t].incounter = 0
         /\ t = c \/ \E i \in 1..Len(B) : B[i] = t
<1>1. ASSUME t \in Plain, Open(F, t), F[t].ctx \in {"begin", "used"} \/ F[t].incounter = 0
      PROVE  Outermost(F, t)
  <2> SUFFICES ASSUME NEW x \in Plain, Open(F, x), Inline(F, x), F[x].up = t
               PROVE  FALSE
    BY DEF Outermost
  <2>1. x # Body
    BY BodyOutermost, FiberFacts
  <2>2. F[t].ctx = "return" /\ F[t].incounter >= 1
    BY <2>1, ParentFacts
  <2> QED
    BY <1>1, <2>2
<1>2. ASSUME NEW x, x = t, Runnable(F, x)
      PROVE  /\ t = Terminal \/ (t \in Plain /\ Open(F, t))
             /\ F[t].ctx \in {"begin", "used"} \/ F[t].incounter = 0
  BY <1>2 DEF Runnable
<1>3. CASE B = <<>>
  <2>1. t = c
    BY <1>3, TopOfBuffers
  <2>2. CASE pc = "run"
    BY <1>1, <2>1, <2>2 DEF WorkerShape, RunningShape
  <2>3. CASE pc = "returned"
    <3>1. Returning(F, t, <<>>, D)
      BY <1>3, <2>1, <2>3 DEF WorkerShape
    <3>2. \A x, y : <<>> # <<x>> /\ <<>> # <<x, y>>
      OBVIOUS
    <3> QED
      BY <1>1, <2>1, <3>1, <3>2 DEF Returning
  <2>4. CASE pc = "loop"
    BY <1>1, <1>2, <2>1, <2>4 DEF WorkerShape
  <2>5. pc \in {"run", "returned", "loop"}
    BY <2>1 DEF WorkerShape
  <2> QED
    BY <2>2, <2>3, <2>4, <2>5
<1>4. ASSUME NEW x \in Fiber, B = <<x>>, Runnable(F, x)
      PROVE  /\ t = Terminal \/ (t \in Plain /\ Open(F, t) /\ Outermost(F, t))
             /\ F[t].ctx \in {"begin", "used"} \/ F[t].incounter = 0
             /\ \E i \in 1..Len(B) : B[i] = t
  <2>1. t = x
    BY <1>4, TopOfBuffers
  <2>2. 1 \in 1..Len(B) /\ B[1] = x
    BY <1>4
  <2> QED
    BY <1>1, <1>2, <1>4, <2>1, <2>2
<1>5. ASSUME NEW g \in Plain, NEW h \in Plain, B = <<h, g>>, Open(F, g), F[g].ctx = "begin"
      PROVE  /\ t \in Plain /\ Open(F, t) /\ Outermost(F, t) /\ F[t].ctx = "begin"
             /\ \E i \in 1..Len(B) : B[i] = t
  <2>1. t = g
    <3>1. Top(<<h, g>>, c) = g
      BY DEF Top
    <3> QED
      BY <1>5, <3>1
  <2>2. 2 \in 1..Len(B) /\ B[2] = g
    BY <1>5
  <2> QED
    BY <1>1, <1>5, <2>1, <2>2
<1> QED
  BY <1>3, <1>4, <1>5 DEF WorkerShape, BufferShape

LEMMA PendingFacts ==
  ASSUME NEW F, NEW B, NEW D, BufferShape(F, B), Waiting(F, D)
  PROVE  Waiting(F, Pending(B, D))
<1>1. CASE B = <<>>
  BY <1>1, TopOfBuffers
<1>2. ASSUME NEW x, B = <<x>>
      PROVE  Waiting(F, Pending(B, D))
  BY <1>2, TopOfBuffers
<1>3. ASSUME NEW h, NEW g, B = <<h, g>>, Untouched(F, h)
      PROVE  Waiting(F, Pending(B, D))
  <2>1. Pending(B, D) = Append(D, h)
    BY <1>3, TopOfBuffers
  <2>2. D \in Seq(Fiber) /\ h \in Fiber
    BY <1>3, FiberFacts DEF Waiting, Untouched
  <2>3. PICK Q : Q = Append(D, h)
    OBVIOUS
  <2>4. /\ Q \in Seq(Fiber) /\ Len(D) \in Nat /\ Len(Q) = Len(D) + 1 /\ Q[Len(D) + 1] = h
        /\ \A j \in 1..Len(D) : Q[j] = D[j]
    BY <2>2, <2>3
  <2>5. \A j \in 1..Len(Q) : j \in 1..Len(D) \/ j = Len(D) + 1
    BY <2>4
  <2>6. \A j \in 1..Len(Q) : Untouched(F, Q[j])
    BY <1>3, <2>4, <2>5 DEF Waiting
  <2> QED
    BY <2>1, <2>3, <2>4, <2>6 DEF Waiting
<1> QED
  BY <1>1, <1>2, <1>3 DEF BufferShape

(* A worker that has something waiting stands on a frame. *)
LEMMA PendingOnFrames ==
  ASSUME NEW F, NEW m, NEW d, FibersOK(F, m, d),
         NEW pc, NEW c, NEW a, NEW r, NEW B, NEW D, WorkerFine(F, pc, c, a, r, B, D),
         pc \in {"flush", "loop", "acquire", "run", "returned", "exited"},
         NEW P, P = Pending(B, D), P # <<>>
  PROVE  /\ Top(B, c) \in Plain /\ Open(F, Top(B, c)) /\ Inline(F, Top(B, c))
         /\ Waiting(F, P) /\ Spine(F, Top(B, c), P)
<1>1. PICK t : t = Top(B, c)
  OBVIOUS
<1>2. Waiting(F, P) /\ Spine(F, t, P)
  BY <1>1, PendingFacts DEF WorkerFine, WorkerShape
<1>3. t # NoFiber
  BY <1>2 DEF Spine
<1>4. t = Terminal \/ (t \in Plain /\ Open(F, t))
  BY <1>1, <1>3, TopFacts DEF WorkerFine
<1>5. t \in Fiber
  BY <1>4, FiberFacts
<1>6. Inline(F, t)
  BY <1>2, <1>5, SpineOfOwnStack
<1>7. t # Terminal
  BY <1>5, <1>6, BodyOutermost, FiberFacts
<1> QED
  BY <1>1, <1>2, <1>4, <1>6, <1>7


(* A worker is not disturbed by what another does to fibers it does not    *)
(* hold. *)
LEMMA Undisturbed ==
  ASSUME NEW F, NEW m, NEW d, FibersOK(F, m, d), NEW G, NEW n, NEW e, FibersOK(G, n, e),
         NEW q, Stable(F, G), SameParents(F, G, q),
         NEW pc, NEW c, NEW a, NEW r, NEW B, NEW D, WorkerFine(F, pc, c, a, r, B, D),
         pc \in {"flush", "loop", "acquire", "run", "returned", "exited"},
         \A x \in Fiber : x = c \/ (\E i \in 1..Len(B) : B[i] = x) \/ (\E i \in 1..Len(D) : D[i] = x)
                          => G[x] = F[x],
         c \in Plain /\ Open(F, c) /\ Inline(F, c) => F[c].up # q,
         Top(B, c) \in Plain => \A x \in Frames(F, Top(B, c)) : Inline(G, x) <=> Inline(F, x)
  PROVE  WorkerFine(G, pc, c, a, r, B, D)
<1>1. \A x \in Fiber : G[x] = F[x] => /\ Open(G, x) <=> Open(F, x)
                                      /\ Inline(G, x) <=> Inline(F, x)
                                      /\ Runnable(G, x) <=> Runnable(F, x)
  BY DEF Open, Inline, Runnable
<1>2. ASSUME NEW h \in Plain, Untouched(F, h), G[h] = F[h]
      PROVE  /\ Untouched(G, h) /\ G[G[h].up].f1 = F[F[h].up].f1
  <2>1. /\ h # Body /\ Open(F, h) /\ G[h].up = F[h].up
        /\ G[F[h].up].f1 = F[F[h].up].f1 /\ G[F[h].up].f2 = F[F[h].up].f2
    BY <1>2 DEF Untouched, Stable
  <2>2. Open(G, h)
    BY <1>1, <1>2, <2>1, FiberFacts
  <2> QED
    BY <1>2, <2>1, <2>2 DEF Untouched
<1>3. WorkerShape(F, pc, c, a, r, B, D) /\ BufferShape(F, B) /\ Waiting(F, D)
  BY DEF WorkerFine, WorkerShape
<1>4. Waiting(G, D)
  <2>1. \A j \in 1..Len(D) : Untouched(F, D[j]) /\ D[j] \in Plain /\ D[j] \in Fiber
    BY <1>3, FiberFacts DEF Waiting, Untouched
  <2>2. \A j \in 1..Len(D) : Untouched(G, D[j])
    BY <1>2, <2>1
  <2> QED
    BY <1>3, <2>2 DEF Waiting
<1>5. BufferShape(G, B)
  <2>1. ASSUME NEW x \in Fiber, B = <<x>>, Runnable(F, x)
        PROVE  Runnable(G, x)
    <3>1. 1 \in 1..Len(B) /\ B[1] = x
      BY <2>1
    <3> QED
      BY <1>1, <2>1, <3>1
  <2>2. ASSUME NEW g \in Plain, NEW h \in Plain, B = <<h, g>>, Untouched(F, h),
               g = F[F[h].up].f1, Open(F, g), F[g].ctx = "begin"
        PROVE  Untouched(G, h) /\ g = G[G[h].up].f1 /\ Open(G, g) /\ G[g].ctx = "begin"
    <3>1. 1 \in 1..Len(B) /\ B[1] = h /\ 2 \in 1..Len(B) /\ B[2] = g
      BY <2>2
    <3>2. G[h] = F[h] /\ G[g] = F[g]
      BY <3>1, FiberFacts
    <3> QED
      BY <1>1, <1>2, <2>2, <3>2, FiberFacts
  <2> QED
    BY <1>3, <2>1, <2>2 DEF BufferShape
<1>6. ASSUME c \in Plain, Open(F, c)
      PROVE  /\ G[c] = F[c] /\ Open(G, c)
             /\ (IsFirst(G, c) <=> IsFirst(F, c)) /\ (IsSecond(G, c) <=> IsSecond(F, c))
             /\ Inline(F, c) => /\ G[F[c].up].f2 = F[F[c].up].f2
                                /\ G[F[c].up].status = F[F[c].up].status
                                /\ Inline(G, F[F[c].up].f2) <=> Inline(F, F[F[c].up].f2)
  <2>1. G[c] = F[c] /\ Open(G, c) /\ (Inline(G, c) <=> Inline(F, c))
    BY <1>1, <1>6, FiberFacts
  <2>2. ASSUME Inline(F, c)
        PROVE  /\ G[F[c].up].f1 = F[F[c].up].f1 /\ G[F[c].up].f2 = F[F[c].up].f2
               /\ G[F[c].up].status = F[F[c].up].status
               /\ Inline(G, F[F[c].up].f2) <=> Inline(F, F[F[c].up].f2)
    <3>1. c # Body /\ F[c].up # q
      BY <1>6, <2>2, BodyOutermost, FiberFacts
    <3> QED
      BY <1>6, <2>2, <3>1 DEF Stable, SameParents
  <2> QED
    BY <2>1, <2>2 DEF IsFirst, IsSecond
<1>7. WorkerShape(G, pc, c, a, r, B, D)
  <2>1. pc = "loop" => c = NoFiber \/ Runnable(G, c)
    <3>1. Runnable(F, c) => c \in Fiber
      BY FiberFacts DEF Runnable
    <3> QED
      BY <1>1, <1>3, <3>1 DEF WorkerShape
  <2>2. pc = "run" => RunningShape(G, c, a, r)
    <3> SUFFICES ASSUME pc = "run" PROVE RunningShape(G, c, a, r)
      OBVIOUS
    <3>1. RunningShape(F, c, a, r)
      BY <1>3 DEF WorkerShape
    <3>2. IsFirst(F, c) => Inline(F, c)
      BY DEF IsFirst
    <3> QED
      BY <1>6, <3>1, <3>2 DEF RunningShape
  <2>3. pc = "returned" => Returning(G, c, B, D)
    <3> SUFFICES ASSUME pc = "returned" PROVE Returning(G, c, B, D)
      OBVIOUS
    <3>1. Returning(F, c, B, D)
      BY <1>3 DEF WorkerShape
    <3>2. CASE c = Terminal /\ B = <<>> /\ F[c].incounter = 0 /\ F[c].alive /\ F[c].ctx = "used"
      BY <3>2, FiberFacts DEF Returning
    <3>3. CASE /\ c \in Plain /\ Open(F, c) /\ F[c].ctx = "return" /\ F[c].status = "pause"
               /\ F[c].incounter = 2 /\ B = <<F[c].f2, F[c].f1>>
      BY <1>6, <3>3 DEF Returning
    <3>4. CASE c \in Plain /\ Open(F, c) /\ F[c].ctx = "used"
      <4>1. c # Terminal
        BY <3>4, FiberFacts
      <4>2. (IsFirst(F, c) => Inline(F, c)) /\ (IsSecond(F, c) => Inline(F, c))
        BY DEF IsFirst, IsSecond
      <4>3. G[c] = F[c] /\ Open(G, c) /\ (Inline(G, c) <=> Inline(F, c))
        BY <1>1, <1>6, <3>4, FiberFacts
      <4>4. \/ ~ Inline(F, c) /\ B = <<>>
            \/ /\ IsFirst(F, c) /\ ~ Inline(F, F[F[c].up].f2) /\ B = <<>> /\ D = <<>>
               /\ F[F[c].up].status = "finish"
            \/ IsFirst(F, c) /\ Inline(F, F[F[c].up].f2) /\ B = <<F[F[c].up].f2>>
            \/ IsSecond(F, c) /\ B = <<>> /\ F[F[c].up].status = "finish"
        BY <3>1, <3>4, <4>1 DEF Returning
      <4>5. \/ ~ Inline(G, c) /\ B = <<>>
            \/ /\ IsFirst(G, c) /\ ~ Inline(G, G[G[c].up].f2) /\ B = <<>> /\ D = <<>>
               /\ G[G[c].up].status = "finish"
            \/ IsFirst(G, c) /\ Inline(G, G[G[c].up].f2) /\ B = <<G[G[c].up].f2>>
            \/ IsSecond(G, c) /\ B = <<>> /\ G[G[c].up].status = "finish"
        BY <1>6, <3>4, <4>2, <4>3, <4>4
      <4> QED
        BY <3>4, <4>3, <4>5 DEF Returning
    <3> QED
      BY <3>1, <3>2, <3>3, <3>4 DEF Returning
  <2> QED
    BY <1>3, <1>4, <1>5, <2>1, <2>2, <2>3 DEF WorkerShape
<1>8. Spine(G, Top(B, c), Pending(B, D))
  <2>1. PICK P, t : P = Pending(B, D) /\ t = Top(B, c)
    OBVIOUS
  <2>2. CASE P = <<>>
    BY <2>1, <2>2 DEF Spine
  <2>3. CASE P # <<>>
    <3>1. t \in Plain /\ Open(F, t) /\ Waiting(F, P) /\ Spine(F, t, P)
      BY <2>1, <2>3, PendingOnFrames
    <3>2. Spine(G, t, P)
      BY <2>1, <3>1, SpineKept
    <3> QED
      BY <2>1, <3>2
  <2> QED
    BY <2>2, <2>3
<1> QED
  BY <1>7, <1>8 DEF WorkerFine


-----------------------------------------------------------------------------
(* The invariant                                                           *)

Place == {"cur", "buffer", "deque"}

HeldIn(x, w, k) ==
  \/ k = "cur" /\ cur[w] = x
  \/ k = "buffer" /\ \E i \in 1..Len(buffer[w]) : buffer[w][i] = x
  \/ k = "deque" /\ \E i \in 1..Len(deque[w]) : deque[w][i] = x

Holds(w, x) == \E k \in Place : HeldIn(x, w, k)

(* A fiber is in one place at most. *)
HeldOnce ==
  \A x \in Fiber : \A w, v \in Worker : \A k, l \in Place :
    HeldIn(x, w, k) /\ HeldIn(x, v, l) => w = v /\ k = l

(* Both children of a fork run inline only while the first one returns to  *)
(* the scheduler with the second one in the buffer. *)
Joining ==
  \A p \in Plain : BothInline(fib, p) =>
    /\ fib[fib[p].f1].ctx = "used"
    /\ \E w \in Worker :
         wpc[w] = "returned" /\ cur[w] = fib[p].f1 /\ buffer[w] = <<fib[p].f2>>

Pcs == {"flush", "loop", "acquire", "run", "returned", "exited"}

VarTypes ==
  /\ wpc \in [Worker -> Pcs] /\ cur \in [Worker -> Fiber \cup {NoFiber}]
  /\ at \in [Worker -> [at : {"nowhere", "body", "take"}, f : Fiber \cup {NoFiber}]]
  /\ currentFiber \in [Worker -> Fiber \cup {NoFiber}]
  /\ buffer \in [Worker -> Seq(Fiber)] /\ deque \in [Worker -> Seq(Fiber)]

Mine(w) ==
  WorkerFine(fib, wpc[w], cur[w], at[w], currentFiber[w], buffer[w], deque[w])

ForkJoinInv ==
  /\ FibersOK(fib, made, done) /\ VarTypes
  /\ \A w \in Worker : Mine(w)
  /\ HeldOnce /\ Joining

LEMMA WorkerTypes ==
  ASSUME VarTypes, NEW w \in Worker
  PROVE  /\ wpc[w] \in Pcs /\ cur[w] \in Fiber \cup {NoFiber}
         /\ at[w] \in [at : {"nowhere", "body", "take"}, f : Fiber \cup {NoFiber}]
         /\ currentFiber[w] \in Fiber \cup {NoFiber}
         /\ buffer[w] \in Seq(Fiber) /\ deque[w] \in Seq(Fiber)
BY DEF VarTypes

(* What one worker holds another does not. *)
LEMMA HeldByOne ==
  ASSUME HeldOnce, NEW w \in Worker, NEW v \in Worker, v # w, NEW x \in Fiber, Holds(w, x)
  PROVE  ~ Holds(v, x)
BY DEF HeldOnce, Holds

(* The second child of two that run inline is not current yet. *)
LEMMA SecondIsNext ==
  ASSUME ForkJoinInv, NEW p \in Plain, BothInline(fib, p), NEW w \in Worker
  PROVE  cur[w] # fib[p].f2
<1> SUFFICES ASSUME cur[w] = fib[p].f2 PROVE FALSE
  OBVIOUS
<1>1. PICK u \in Worker : buffer[u] = <<fib[p].f2>>
  BY DEF ForkJoinInv, Joining
<1>2. fib[p].f2 \in Fiber
  <2>1. ForkShape(fib, p)
    BY DEF ForkJoinInv, FibersOK, PlainShape, Shaped, BothInline
  <2> QED
    BY <2>1, FiberFacts DEF ForkShape
<1>3. HeldIn(fib[p].f2, u, "buffer")
  <2>1. 1 \in 1..Len(buffer[u]) /\ buffer[u][1] = fib[p].f2
    BY <1>1
  <2> QED
    BY <2>1 DEF HeldIn
<1>4. HeldIn(fib[p].f2, w, "cur")
  BY DEF HeldIn
<1> QED
  BY <1>2, <1>3, <1>4 DEF ForkJoinInv, HeldOnce, Place

(* Two workers do not run two children of one parent inline. *)
LEMMA OneInline ==
  ASSUME ForkJoinInv, NEW w \in Worker, NEW v \in Worker, v # w,
         NEW f \in Plain, f = cur[w], Open(fib, f), Inline(fib, f),
         NEW c \in Plain, c = cur[v], Open(fib, c), Inline(fib, c)
  PROVE  fib[c].up # fib[f].up
<1> SUFFICES ASSUME fib[c].up = fib[f].up PROVE FALSE
  OBVIOUS
<1>1. FibersOK(fib, made, done)
  BY DEF ForkJoinInv
<1>2. c # f
  <2>1. HeldIn(f, w, "cur") /\ HeldIn(c, v, "cur")
    BY DEF HeldIn
  <2> QED
    BY <2>1, FiberFacts DEF ForkJoinInv, HeldOnce, Place
<1>3. c # Body /\ f # Body
  BY <1>1, BodyOutermost, FiberFacts
<1>4. PICK p : p = fib[f].up
  OBVIOUS
<1>5. /\ p \in Plain /\ fib[p].ctx = "return" /\ ForkShape(fib, p)
      /\ f \in {fib[p].f1, fib[p].f2} /\ c \in {fib[p].f1, fib[p].f2}
  BY <1>1, <1>3, <1>4, ParentFacts
<1>6. BothInline(fib, p)
  BY <1>2, <1>5 DEF BothInline
<1> QED
  BY <1>2, <1>5, <1>6, SecondIsNext

(* A worker keeps its shape while another moves. *)
LEMMA OtherFine ==
  ASSUME ForkJoinInv, NEW w \in Worker, NEW v \in Worker, v # w,
         FibersOK(fib', made', done'), Stable(fib, fib'),
         NEW q, SameParents(fib, fib', q),
         wpc'[v] = wpc[v], cur'[v] = cur[v], at'[v] = at[v],
         currentFiber'[v] = currentFiber[v], buffer'[v] = buffer[v], deque'[v] = deque[v],
         \A x \in Fiber : Holds(v, x) => fib'[x] = fib[x],
         cur[v] \in Plain /\ Open(fib, cur[v]) /\ Inline(fib, cur[v]) => fib[cur[v]].up # q,
         NEW h, \A x \in Plain : Open(fib, x) /\ x # h => (Inline(fib', x) <=> Inline(fib, x)),
         Top(buffer[v], cur[v]) \in Plain => h \notin Frames(fib, Top(buffer[v], cur[v]))
  PROVE  Mine(v)'
<1>1. FibersOK(fib, made, done) /\ VarTypes /\ Mine(v)
  BY DEF ForkJoinInv
<1>2. wpc[v] \in Pcs
  BY <1>1, WorkerTypes
<1>3. WorkerFine(fib, wpc[v], cur[v], at[v], currentFiber[v], buffer[v], deque[v])
  BY <1>1 DEF Mine
<1>4. \A x \in Fiber : \/ x = cur[v]
                       \/ \E i \in 1..Len(buffer[v]) : buffer[v][i] = x
                       \/ \E i \in 1..Len(deque[v]) : deque[v][i] = x
                       => fib'[x] = fib[x]
  BY DEF Holds, HeldIn, Place
<1>5. PICK t : t = Top(buffer[v], cur[v])
  OBVIOUS
<1>6. t \in Plain => \A x \in Frames(fib, t) : Inline(fib', x) <=> Inline(fib, x)
  <2> SUFFICES ASSUME t \in Plain PROVE \A x \in Frames(fib, t) : Inline(fib', x) <=> Inline(fib, x)
    OBVIOUS
  <2>1. Open(fib, t)
    BY <1>1, <1>2, <1>3, <1>5, TopFacts, FiberFacts DEF WorkerFine, Pcs
  <2>2. \A x \in Frames(fib, t) : x \in Plain /\ Open(fib, x)
    BY <1>1, <2>1, FramesOpen
  <2> QED
    BY <1>5, <2>2
<1>7. WorkerFine(fib', wpc[v], cur[v], at[v], currentFiber[v], buffer[v], deque[v])
  BY <1>1, <1>2, <1>3, <1>4, <1>5, <1>6, Undisturbed DEF Pcs
<1> QED
  BY <1>7 DEF Mine

(* What is true of the joins stays true where no second child is taken. *)
LEMMA JoiningKept ==
  ASSUME ForkJoinInv, NEW w \in Worker,
         \A v \in Worker \ {w} : wpc'[v] = wpc[v] /\ cur'[v] = cur[v] /\ buffer'[v] = buffer[v],
         \A p \in Plain : BothInline(fib', p) =>
           /\ BothInline(fib, p) /\ fib'[p].f1 = fib[p].f1 /\ fib'[p].f2 = fib[p].f2
           /\ fib'[fib[p].f1].ctx = fib[fib[p].f1].ctx
           /\ ~ (wpc[w] = "returned" /\ cur[w] = fib[p].f1)
  PROVE  Joining'
<1>1. ASSUME NEW p \in Plain, BothInline(fib', p)
      PROVE  /\ fib'[fib'[p].f1].ctx = "used"
             /\ \E u \in Worker :
                  wpc'[u] = "returned" /\ cur'[u] = fib'[p].f1 /\ buffer'[u] = <<fib'[p].f2>>
  <2>1. BothInline(fib, p) /\ fib'[p].f1 = fib[p].f1 /\ fib'[p].f2 = fib[p].f2
        /\ fib'[fib[p].f1].ctx = fib[fib[p].f1].ctx
        /\ ~ (wpc[w] = "returned" /\ cur[w] = fib[p].f1)
    BY <1>1
  <2>2. /\ fib[fib[p].f1].ctx = "used"
        /\ \E u \in Worker :
             wpc[u] = "returned" /\ cur[u] = fib[p].f1 /\ buffer[u] = <<fib[p].f2>>
    BY <2>1 DEF ForkJoinInv, Joining
  <2>3. PICK u \in Worker :
          wpc[u] = "returned" /\ cur[u] = fib[p].f1 /\ buffer[u] = <<fib[p].f2>>
    BY <2>2
  <2>4. u # w
    BY <2>1, <2>3
  <2>5. wpc'[u] = wpc[u] /\ cur'[u] = cur[u] /\ buffer'[u] = buffer[u]
    BY <2>4
  <2> QED
    BY <2>1, <2>2, <2>3, <2>5
<1> QED
  BY <1>1 DEF Joining


-----------------------------------------------------------------------------
(* What is held.                                                           *)

(* What a worker holds is not over, and waits for nobody, unless it is the *)
(* fiber that has just forked. *)
LEMMA HeldFacts ==
  ASSUME NEW F, NEW m, NEW d, FibersOK(F, m, d),
         NEW pc, NEW c, NEW a, NEW r, NEW B, NEW D, WorkerShape(F, pc, c, a, r, B, D),
         pc \in {"flush", "loop", "acquire", "run", "returned", "exited"},
         NEW x \in Fiber,
         x = c \/ (\E i \in 1..Len(B) : B[i] = x) \/ (\E i \in 1..Len(D) : D[i] = x)
  PROVE  /\ (x = Terminal /\ F[x].alive) \/ (x \in Plain /\ Open(F, x))
         /\ \/ F[x].incounter = 0
            \/ /\ x \in Plain /\ F[x].ctx = "return" /\ F[x].incounter = 2
               /\ x = c /\ B = <<F[x].f2, F[x].f1>>
<1>1. x \in Plain /\ F[x].ctx # "return" => F[x].incounter = 0
  BY DEF FibersOK, PlainShape, Shaped
<1>2. ASSUME Runnable(F, x)
      PROVE  /\ (x = Terminal /\ F[x].alive) \/ (x \in Plain /\ Open(F, x))
             /\ F[x].incounter = 0
  BY <1>1, <1>2 DEF Runnable
<1>3. CASE x = c
  <2>1. pc \in {"loop", "run", "returned"}
    BY <1>3, FiberFacts DEF WorkerShape
  <2>2. CASE pc = "loop"
    BY <1>2, <1>3, <2>2, FiberFacts DEF WorkerShape
  <2>3. CASE pc = "run"
    BY <1>1, <1>3, <2>3 DEF WorkerShape, RunningShape
  <2>4. CASE pc = "returned"
    <3>1. Returning(F, x, B, D)
      BY <1>3, <2>4 DEF WorkerShape
    <3> QED
      BY <1>1, <1>3, <3>1 DEF Returning
  <2> QED
    BY <2>1, <2>2, <2>3, <2>4
<1>4. CASE \E i \in 1..Len(D) : D[i] = x
  <2>1. Untouched(F, x)
    BY <1>4 DEF WorkerShape, Waiting
  <2> QED
    BY <1>1, <2>1 DEF Untouched
<1>5. CASE \E i \in 1..Len(B) : B[i] = x
  <2>1. ASSUME NEW y, B = <<y>>, Runnable(F, y)
        PROVE  y = x
    BY <1>5, <2>1
  <2>2. ASSUME NEW g, NEW h, B = <<h, g>>
        PROVE  x \in {g, h}
    BY <1>5, <2>2
  <2>3. ASSUME NEW g \in Plain, NEW h \in Plain, x \in {g, h}, Untouched(F, h), Open(F, g),
               F[g].ctx = "begin"
        PROVE  x \in Plain /\ Open(F, x) /\ F[x].incounter = 0
    BY <1>1, <2>3 DEF Untouched
  <2>4. B # <<>>
    BY <1>5
  <2>5. CASE \E y \in Fiber : B = <<y>> /\ Runnable(F, y)
    BY <1>2, <2>1, <2>5
  <2>6. CASE \E g, h \in Plain : /\ B = <<h, g>> /\ Untouched(F, h) /\ g = F[F[h].up].f1
                                 /\ Open(F, g) /\ F[g].ctx = "begin"
    BY <2>2, <2>3, <2>6
  <2> QED
    BY <2>4, <2>5, <2>6 DEF WorkerShape, BufferShape
<1> QED
  BY <1>3, <1>4, <1>5

LEMMA HeldAlive ==
  ASSUME ForkJoinInv, NEW v \in Worker, NEW x \in Fiber, Holds(v, x)
  PROVE  /\ (x = Terminal /\ fib[x].alive) \/ (x \in Plain /\ Open(fib, x))
         /\ \/ fib[x].incounter = 0
            \/ /\ x \in Plain /\ fib[x].ctx = "return" /\ fib[x].incounter = 2
               /\ x = cur[v] /\ buffer[v] = <<fib[x].f2, fib[x].f1>>
<1>1. FibersOK(fib, made, done) /\ VarTypes /\ Mine(v)
  BY DEF ForkJoinInv
<1>2. wpc[v] \in Pcs
  BY <1>1, WorkerTypes
<1>3. WorkerShape(fib, wpc[v], cur[v], at[v], currentFiber[v], buffer[v], deque[v])
  BY <1>1 DEF Mine, WorkerFine
<1>4. \/ x = cur[v]
      \/ \E i \in 1..Len(buffer[v]) : buffer[v][i] = x
      \/ \E i \in 1..Len(deque[v]) : deque[v][i] = x
  BY DEF Holds, HeldIn, Place
<1> QED
  BY <1>1, <1>2, <1>3, <1>4, HeldFacts DEF Pcs

LEMMA PairFacts ==
  ASSUME NEW a, NEW b, NEW B, B = <<a, b>>
  PROVE  /\ Len(B) = 2 /\ B[1] = a /\ B[2] = b /\ B # <<>> /\ \A x : B # <<x>>
         /\ 1 \in 1..Len(B) /\ 2 \in 1..Len(B) /\ \A i \in 1..Len(B) : i \in {1, 2}
OBVIOUS

(* Nobody else holds the parent of current. *)
LEMMA ParentNotHeld ==
  ASSUME ForkJoinInv, NEW w \in Worker, NEW v \in Worker, v # w,
         NEW f \in Plain, f = cur[w], Open(fib, f), NEW p, p = fib[f].outedge
  PROVE  /\ ~ Holds(v, p)
         /\ p \in Fiber /\ fib[p].incounter >= 1 /\ f # Body => p = fib[f].up
<1>1. FibersOK(fib, made, done) /\ HeldOnce
  BY DEF ForkJoinInv
<1>2. CASE f = Body
  <2>1. p = Terminal /\ fib[p].incounter = 1
    BY <1>1, <1>2 DEF FibersOK, BodyShape, TerminalShape, Open, One
  <2>2. p \in Fiber
    BY <2>1, FiberFacts
  <2>3. ~ Holds(v, p)
    BY <2>1, <2>2, HeldAlive, FiberFacts
  <2> QED
    BY <1>2, <2>1, <2>2, <2>3
<1>3. CASE f # Body
  <2>1. /\ p = fib[f].up /\ p \in Plain /\ fib[p].incounter >= 1 /\ ForkShape(fib, p)
        /\ f \in {fib[p].f1, fib[p].f2}
    BY <1>1, <1>3, ParentFacts
  <2>2. p \in Fiber /\ f \in Fiber
    BY <2>1, FiberFacts
  <2>3. ASSUME Holds(v, p)
        PROVE  FALSE
    <3>1. buffer[v] = <<fib[p].f2, fib[p].f1>>
      BY <2>1, <2>2, <2>3, HeldAlive
    <3>2. \E i \in 1..Len(buffer[v]) : buffer[v][i] = f
      <4>1. PICK a, b : a = fib[p].f2 /\ b = fib[p].f1
        OBVIOUS
      <4>2. buffer[v] = <<a, b>> /\ f \in {a, b}
        BY <2>1, <3>1, <4>1
      <4>3. /\ buffer[v][1] = a /\ buffer[v][2] = b
            /\ 1 \in 1..Len(buffer[v]) /\ 2 \in 1..Len(buffer[v])
        BY <4>2, PairFacts
      <4> QED
        BY <4>2, <4>3
    <3>3. Holds(v, f)
      BY <3>2 DEF Holds, HeldIn, Place
    <3>4. Holds(w, f)
      BY DEF Holds, HeldIn, Place
    <3> QED
      BY <1>1, <2>2, <3>3, <3>4, HeldByOne
  <2> QED
    BY <2>1, <2>2, <2>3
<1> QED
  BY <1>2, <1>3

(* One worker moves, and holds nothing of another's. *)
LEMMA HeldOnceKept ==
  ASSUME HeldOnce, NEW w \in Worker,
         \A v \in Worker \ {w} :
           cur'[v] = cur[v] /\ buffer'[v] = buffer[v] /\ deque'[v] = deque[v],
         \A x \in Fiber : \A k \in Place : HeldIn(x, w, k)' =>
           \/ Holds(w, x)
           \/ \A v \in Worker \ {w} : ~ Holds(v, x),
         \A x \in Fiber : \A k, l \in Place : HeldIn(x, w, k)' /\ HeldIn(x, w, l)' => k = l
  PROVE  HeldOnce'
<1>1. ASSUME NEW x \in Fiber, NEW v \in Worker \ {w}, NEW k \in Place, HeldIn(x, v, k)'
      PROVE  HeldIn(x, v, k)
  BY <1>1 DEF HeldIn
<1>2. ASSUME NEW x \in Fiber, NEW v \in Worker \ {w}, NEW k \in Place, NEW l \in Place,
             HeldIn(x, v, k)', HeldIn(x, w, l)'
      PROVE  FALSE
  <2>1. Holds(v, x)
    BY <1>1, <1>2 DEF Holds
  <2>2. Holds(w, x)
    BY <1>2, <2>1
  <2> QED
    BY <2>1, <2>2, HeldByOne
<1>3. ASSUME NEW x \in Fiber, NEW u \in Worker, NEW v \in Worker, NEW k \in Place,
             NEW l \in Place, HeldIn(x, u, k)', HeldIn(x, v, l)'
      PROVE  u = v /\ k = l
  <2>1. CASE u = w /\ v = w
    BY <1>3, <2>1
  <2>2. CASE u = w /\ v # w
    BY <1>2, <1>3, <2>2
  <2>3. CASE u # w /\ v = w
    BY <1>2, <1>3, <2>3
  <2>4. CASE u # w /\ v # w
    <3>1. HeldIn(x, u, k) /\ HeldIn(x, v, l)
      BY <1>1, <1>3, <2>4
    <3> QED
      BY <3>1 DEF HeldOnce
  <2> QED
    BY <2>1, <2>2, <2>3, <2>4
<1> QED
  BY <1>3 DEF HeldOnce


-----------------------------------------------------------------------------
(* The steps of the worker loop that leave the fibers alone.               *)

LEMMA OtherSame ==
  ASSUME NEW v \in Worker, Mine(v), fib' = fib,
         wpc'[v] = wpc[v], cur'[v] = cur[v], at'[v] = at[v],
         currentFiber'[v] = currentFiber[v], buffer'[v] = buffer[v], deque'[v] = deque[v]
  PROVE  Mine(v)'
BY DEF Mine

LEMMA Flushed ==
  ASSUME NEW D \in Seq(Fiber), NEW x \in Fiber, NEW y \in Fiber
  PROVE  /\ D \o Front(<<x>>) = D /\ Last(<<x>>) = x
         /\ D \o Front(<<x, y>>) = Append(D, x) /\ Last(<<x, y>>) = y
<1>1. Front(<<x>>) = <<>> /\ Last(<<x>>) = x
  BY DEF Front, Last
<1>2. Front(<<x, y>>) = <<x>> /\ Last(<<x, y>>) = y
  <2>1. PICK P : P = <<x, y>>
    OBVIOUS
  <2>2. P \in Seq(Fiber) /\ P # <<>> /\ Len(P) = 2 /\ P[1] = x /\ P[2] = y
    BY <2>1
  <2>3. PICK Q : Q = Front(P)
    OBVIOUS
  <2>4. /\ Q \in Seq(Fiber) /\ Len(Q) \in Nat /\ Len(Q) + 1 = Len(P)
        /\ \A j \in 1..Len(Q) : Q[j] = P[j] /\ j \in 1..Len(P) /\ j < Len(P)
    BY <2>2, <2>3, FrontFacts
  <2>7. Len(Q) = 1
    <3>1. PICK k, l : k = Len(Q) /\ l = Len(P)
      OBVIOUS
    <3>2. k \in Nat /\ k + 1 = l
      BY <2>4, <3>1
    <3>3. l = 2
      BY <2>2, <3>1
    <3>4. k = 1
      BY <3>2, <3>3
    <3> QED
      BY <3>1, <3>4
  <2>5. Len(Q) = 1 /\ Q[1] = x
    <3>1. 1 \in 1..Len(Q)
      BY <2>7
    <3> QED
      BY <2>2, <2>4, <2>7, <3>1
  <2>6. Q = <<x>>
    BY <2>4, <2>5
  <2> QED
    BY <2>1, <2>2, <2>3, <2>6 DEF Last
<1>3. D \o <<>> = D /\ D \o <<x>> = Append(D, x)
  OBVIOUS
<1> QED
  BY <1>1, <1>2, <1>3

(* What is flushed is what was at the top, and what was pending. *)
LEMMA FlushMoves ==
  ASSUME NEW F, NEW m, NEW d, FibersOK(F, m, d),
         NEW B, BufferShape(F, B), NEW c, NEW D \in Seq(Fiber), B # <<>>
  PROVE  /\ Last(B) = Top(B, c) /\ D \o Front(B) = Pending(B, D)
         /\ Runnable(F, Last(B)) /\ Last(B) \in Fiber
         /\ \E i \in 1..Len(B) : B[i] = Last(B)
         /\ \A j \in 1..Len(Pending(B, D)) :
              \/ \E i \in 1..Len(D) : D[i] = Pending(B, D)[j]
              \/ /\ \E i \in 1..Len(B) : B[i] = Pending(B, D)[j]
                 /\ Pending(B, D)[j] # Last(B)
<1>1. ASSUME NEW x \in Fiber, B = <<x>>, Runnable(F, x)
      PROVE  /\ Last(B) = x /\ Last(B) = Top(B, c)
             /\ D \o Front(B) = D /\ Pending(B, D) = D
             /\ 1 \in 1..Len(B) /\ B[1] = x
  <2>1. D \o Front(<<x>>) = D /\ Last(<<x>>) = x
    BY Flushed
  <2>2. Top(<<x>>, c) = x /\ Pending(<<x>>, D) = D
    BY TopOfBuffers
  <2>3. 1 \in 1..Len(<<x>>) /\ <<x>>[1] = x
    OBVIOUS
  <2> QED
    BY <1>1, <2>1, <2>2, <2>3
<1>2. ASSUME NEW g \in Plain, NEW h \in Plain, B = <<h, g>>, Open(F, g), F[g].ctx = "begin",
             Untouched(F, h), g = F[F[h].up].f1
      PROVE  /\ Last(B) = g /\ Last(B) = Top(B, c) /\ Runnable(F, g) /\ g \in Fiber
             /\ D \o Front(B) = Append(D, h) /\ Pending(B, D) = Append(D, h)
             /\ \E i \in 1..Len(B) : B[i] = g
             /\ \E i \in 1..Len(B) : B[i] = h
             /\ g # h /\ h \in Fiber
  <2>1. g \in Fiber /\ h \in Fiber
    BY FiberFacts
  <2>2. D \o Front(<<h, g>>) = Append(D, h) /\ Last(<<h, g>>) = g
    BY <2>1, Flushed
  <2>3. Top(<<h, g>>, c) = g /\ Pending(<<h, g>>, D) = Append(D, h)
    BY DEF Top, Pending
  <2>4. B[1] = h /\ B[2] = g /\ 1 \in 1..Len(B) /\ 2 \in 1..Len(B)
    BY <1>2, PairFacts
  <2>5. Runnable(F, g)
    BY <1>2 DEF Runnable
  <2>6. g # h
    BY <1>2, WaitingFacts, FiberFacts
  <2> QED
    BY <1>2, <2>1, <2>2, <2>3, <2>4, <2>5, <2>6
<1>3. ASSUME NEW h \in Fiber, NEW Q, Q = Append(D, h), NEW j \in 1..Len(Q)
      PROVE  Q[j] = h \/ \E i \in 1..Len(D) : D[i] = Q[j]
  <2>1. /\ Len(D) \in Nat /\ Len(Q) = Len(D) + 1 /\ Q[Len(D) + 1] = h
        /\ \A i \in 1..Len(D) : Q[i] = D[i]
    BY <1>3
  <2>2. j \in 1..Len(D) \/ j = Len(D) + 1
    BY <2>1
  <2> QED
    BY <2>1, <2>2
<1>4. CASE \E x \in Fiber : B = <<x>> /\ Runnable(F, x)
  BY <1>1, <1>4
<1>5. CASE \E g, h \in Plain : /\ B = <<h, g>> /\ Untouched(F, h) /\ g = F[F[h].up].f1
                               /\ Open(F, g) /\ F[g].ctx = "begin"
  <2>1. PICK g \in Plain, h \in Plain :
               /\ B = <<h, g>> /\ Untouched(F, h) /\ g = F[F[h].up].f1
               /\ Open(F, g) /\ F[g].ctx = "begin"
    BY <1>5
  <2>2. /\ Last(B) = g /\ Last(B) = Top(B, c) /\ Runnable(F, g) /\ g \in Fiber
        /\ D \o Front(B) = Append(D, h) /\ Pending(B, D) = Append(D, h)
        /\ \E i \in 1..Len(B) : B[i] = g
        /\ \E i \in 1..Len(B) : B[i] = h
        /\ g # h /\ h \in Fiber
    BY <1>2, <2>1
  <2>3. PICK Q : Q = Append(D, h)
    OBVIOUS
  <2>4. \A j \in 1..Len(Q) : Q[j] = h \/ \E i \in 1..Len(D) : D[i] = Q[j]
    BY <1>3, <2>2, <2>3
  <2>5. Pending(B, D) = Q /\ D \o Front(B) = Q
    BY <2>2, <2>3
  <2> QED
    BY <2>2, <2>4, <2>5
<1> QED
  BY <1>4, <1>5 DEF BufferShape

LEMMA FlushKeeps ==
  ASSUME ForkJoinInv, NEW w \in Worker, Flush(w)
  PROVE  ForkJoinInv'
<1>1. FibersOK(fib, made, done) /\ VarTypes /\ HeldOnce /\ Joining /\ \A v \in Worker : Mine(v)
  BY DEF ForkJoinInv
<1>2. PICK B, D, t, P : /\ B = buffer[w] /\ D = deque[w]
                        /\ t = Top(B, NoFiber) /\ P = Pending(B, D)
  OBVIOUS
<1>3. WorkerFine(fib, "flush", NoFiber, at[w], currentFiber[w], B, D) /\ cur[w] = NoFiber
  <2>1. WorkerFine(fib, "flush", cur[w], at[w], currentFiber[w], B, D)
    BY <1>1, <1>2 DEF Mine, Flush
  <2>2. cur[w] = NoFiber
    BY <2>1 DEF WorkerFine, WorkerShape
  <2> QED
    BY <2>1, <2>2
<1>4. /\ BufferShape(fib, B) /\ Waiting(fib, D) /\ Spine(fib, t, P) /\ at[w] = Nowhere
      /\ D \in Seq(Fiber)
  BY <1>2, <1>3 DEF WorkerFine, WorkerShape, Waiting
<1>5. Waiting(fib, P)
  BY <1>2, <1>4, PendingFacts
<1>6. B = <<>> => t = NoFiber /\ P = D
  BY <1>2, TopOfBuffers
<1>7. B # <<>> => /\ t = Last(B) /\ P = D \o Front(B) /\ Runnable(fib, t) /\ t \in Fiber
                  /\ \E i \in 1..Len(B) : B[i] = t
                  /\ \A j \in 1..Len(P) : \/ \E i \in 1..Len(D) : D[i] = P[j]
                                          \/ (\E i \in 1..Len(B) : B[i] = P[j]) /\ P[j] # t
  <2> SUFFICES ASSUME B # <<>>
               PROVE  /\ t = Last(B) /\ P = D \o Front(B) /\ Runnable(fib, t) /\ t \in Fiber
                      /\ \E i \in 1..Len(B) : B[i] = t
                      /\ \A j \in 1..Len(P) :
                           \/ \E i \in 1..Len(D) : D[i] = P[j]
                           \/ (\E i \in 1..Len(B) : B[i] = P[j]) /\ P[j] # t
    OBVIOUS
  <2>1. /\ Last(B) = Top(B, NoFiber) /\ D \o Front(B) = Pending(B, D)
        /\ Runnable(fib, Last(B)) /\ Last(B) \in Fiber
        /\ \E i \in 1..Len(B) : B[i] = Last(B)
        /\ \A j \in 1..Len(Pending(B, D)) :
             \/ \E i \in 1..Len(D) : D[i] = Pending(B, D)[j]
             \/ /\ \E i \in 1..Len(B) : B[i] = Pending(B, D)[j]
                /\ Pending(B, D)[j] # Last(B)
    BY <1>1, <1>4, FlushMoves
  <2> QED
    BY <1>2, <2>1
<1>8. /\ fib' = fib /\ made' = made /\ done' = done /\ at' = at /\ currentFiber' = currentFiber
      /\ wpc' = [wpc EXCEPT ![w] = "loop"] /\ cur' = [cur EXCEPT ![w] = t]
      /\ buffer' = [buffer EXCEPT ![w] = <<>>] /\ deque' = [deque EXCEPT ![w] = P]
  <2>1. CASE B = <<>>
    <3>1. [buffer EXCEPT ![w] = <<>>] = buffer /\ [deque EXCEPT ![w] = P] = deque
      BY <1>1, <1>2, <1>6, <2>1 DEF VarTypes
    <3> QED
      BY <1>2, <1>6, <2>1, <3>1 DEF Flush
  <2>2. CASE B # <<>>
    <3>1. deque' = [deque EXCEPT ![w] = deque[w] \o Front(buffer[w])]
      BY <1>2, <2>2 DEF Flush
    <3> QED
      BY <1>2, <1>7, <2>2, <3>1 DEF Flush
  <2> QED
    BY <2>1, <2>2
<1>9. /\ wpc'[w] = "loop" /\ cur'[w] = t /\ buffer'[w] = <<>> /\ deque'[w] = P
      /\ \A v \in Worker \ {w} : /\ wpc'[v] = wpc[v] /\ cur'[v] = cur[v]
                                 /\ buffer'[v] = buffer[v] /\ deque'[v] = deque[v]
  BY <1>1, <1>8 DEF VarTypes
<1>10. VarTypes'
  <2>1. t \in Fiber \cup {NoFiber} /\ P \in Seq(Fiber) /\ "loop" \in Pcs
    BY <1>5, <1>6, <1>7 DEF Waiting, Pcs
  <2>2. <<>> \in Seq(Fiber)
    OBVIOUS
  <2> QED
    BY <1>1, <1>8, <2>1, <2>2 DEF VarTypes
<1>11. Mine(w)'
  <2>1. WorkerShape(fib, "loop", t, at[w], currentFiber[w], <<>>, P)
    BY <1>4, <1>5, <1>6, <1>7 DEF WorkerShape, BufferShape
  <2>2. Spine(fib, Top(<<>>, t), Pending(<<>>, P))
    BY <1>4, TopOfBuffers
  <2> QED
    BY <1>8, <1>9, <2>1, <2>2 DEF Mine, WorkerFine
<1>12. \A v \in Worker : Mine(v)'
  <2>1. ASSUME NEW v \in Worker \ {w}
        PROVE  Mine(v)'
    BY <1>1, <1>8, <1>9, OtherSame
  <2> QED
    BY <1>11, <2>1
<1>13. HeldOnce'
  <2>1. ASSUME NEW x \in Fiber, NEW k \in Place, HeldIn(x, w, k)'
        PROVE  /\ k \in {"cur", "deque"} /\ Holds(w, x)
               /\ k = "cur" => x = t /\ B # <<>> /\ HeldIn(x, w, "buffer")
               /\ k = "deque" => HeldIn(x, w, "deque") \/ (HeldIn(x, w, "buffer") /\ x # t)
    <3>1. CASE k = "cur"
      <4>1. x = t
        BY <1>9, <2>1, <3>1 DEF HeldIn
      <4>2. B # <<>>
        BY <1>6, <4>1, FiberFacts
      <4>3. HeldIn(x, w, "buffer")
        BY <1>2, <1>7, <4>1, <4>2 DEF HeldIn
      <4> QED
        BY <3>1, <4>1, <4>2, <4>3 DEF Holds, Place
    <3>2. CASE k = "deque"
      <4>1. PICK j \in 1..Len(P) : P[j] = x
        BY <1>9, <2>1, <3>2 DEF HeldIn
      <4>2. HeldIn(x, w, "deque") \/ (HeldIn(x, w, "buffer") /\ x # t)
        BY <1>2, <1>6, <1>7, <4>1 DEF HeldIn
      <4> QED
        BY <3>2, <4>2 DEF Holds, Place
    <3>3. k # "buffer"
      BY <1>9, <2>1 DEF HeldIn
    <3> QED
      BY <3>1, <3>2, <3>3 DEF Place
  <2>2. ASSUME NEW x \in Fiber, HeldIn(x, w, "cur")', HeldIn(x, w, "deque")'
        PROVE  FALSE
    <3>1. x = t /\ HeldIn(x, w, "buffer") /\ HeldIn(x, w, "deque")
      BY <2>1, <2>2 DEF Place
    <3> QED
      BY <1>1, <3>1 DEF HeldOnce, Place
  <2>3. \A x \in Fiber : \A k, l \in Place : HeldIn(x, w, k)' /\ HeldIn(x, w, l)' => k = l
    BY <2>1, <2>2
  <2>4. \A x \in Fiber : \A k \in Place : HeldIn(x, w, k)' => Holds(w, x)
    BY <2>1
  <2>5. \A v \in Worker \ {w} : cur'[v] = cur[v] /\ buffer'[v] = buffer[v] /\ deque'[v] = deque[v]
    BY <1>9
  <2> QED
    BY <1>1, <2>3, <2>4, <2>5, HeldOnceKept
<1>14. Joining'
  <2>1. wpc[w] # "returned"
    BY DEF Flush
  <2> QED
    BY <1>8, <1>9, <2>1, JoiningKept
<1> QED
  BY <1>1, <1>8, <1>10, <1>12, <1>13, <1>14 DEF ForkJoinInv


LEMMA HeldSame ==
  ASSUME HeldOnce, cur' = cur, buffer' = buffer, deque' = deque
  PROVE  HeldOnce'
<1>1. \A x, w, k : HeldIn(x, w, k)' <=> HeldIn(x, w, k)
  BY DEF HeldIn
<1> QED
  BY <1>1 DEF HeldOnce

(* Who holds no fiber has nothing in the deque. *)
LEMMA IdleHasNothing ==
  ASSUME ForkJoinInv, NEW w \in Worker, cur[w] = NoFiber, buffer[w] = <<>>
  PROVE  deque[w] = <<>>
<1>1. Spine(fib, Top(buffer[w], cur[w]), Pending(buffer[w], deque[w]))
  BY DEF ForkJoinInv, Mine, WorkerFine
<1>2. Top(<<>>, NoFiber) = NoFiber /\ Pending(<<>>, deque[w]) = deque[w]
  BY TopOfBuffers
<1>3. Spine(fib, NoFiber, deque[w])
  BY <1>1, <1>2
<1> QED
  BY <1>3 DEF Spine

LEMMA PopOrAcquireKeeps ==
  ASSUME ForkJoinInv, NEW w \in Worker, PopOrAcquire(w)
  PROVE  ForkJoinInv'
<1>1. FibersOK(fib, made, done) /\ VarTypes /\ HeldOnce /\ Joining /\ \A v \in Worker : Mine(v)
  BY DEF ForkJoinInv
<1>2. /\ wpc[w] = "loop" /\ cur[w] = NoFiber
      /\ WorkerFine(fib, "loop", NoFiber, at[w], currentFiber[w], buffer[w], deque[w])
  BY <1>1 DEF Mine, PopOrAcquire
<1>3. buffer[w] = <<>> /\ at[w] = Nowhere
  BY <1>2 DEF WorkerFine, WorkerShape
<1>4. deque[w] = <<>>
  BY <1>2, <1>3, IdleHasNothing
<1>5. /\ fib' = fib /\ made' = made /\ done' = done /\ at' = at /\ currentFiber' = currentFiber
      /\ wpc' = [wpc EXCEPT ![w] = "acquire"] /\ cur' = cur /\ buffer' = buffer /\ deque' = deque
  BY <1>4 DEF PopOrAcquire
<1>6. wpc'[w] = "acquire" /\ \A v \in Worker \ {w} : wpc'[v] = wpc[v]
  BY <1>1, <1>5 DEF VarTypes
<1>7. VarTypes'
  BY <1>1, <1>5 DEF VarTypes, Pcs
<1>8. Mine(w)'
  <2>1. WorkerFine(fib, "acquire", NoFiber, at[w], currentFiber[w], buffer[w], deque[w])
    BY <1>2, <1>3 DEF WorkerFine, WorkerShape
  <2> QED
    BY <1>2, <1>5, <1>6, <2>1 DEF Mine
<1>9. \A v \in Worker : Mine(v)'
  <2>1. ASSUME NEW v \in Worker \ {w}
        PROVE  Mine(v)'
    BY <1>1, <1>5, <1>6, OtherSame
  <2> QED
    BY <1>8, <2>1
<1>10. HeldOnce'
  BY <1>1, <1>5, HeldSame
<1>11. Joining'
  BY <1>2, <1>5, <1>6, JoiningKept
<1> QED
  BY <1>1, <1>5, <1>7, <1>9, <1>10, <1>11 DEF ForkJoinInv

LEMMA LeaveKeeps ==
  ASSUME ForkJoinInv, NEW w \in Worker, Leave(w)
  PROVE  ForkJoinInv'
<1>1. FibersOK(fib, made, done) /\ VarTypes /\ HeldOnce /\ Joining /\ \A v \in Worker : Mine(v)
  BY DEF ForkJoinInv
<1>2. /\ wpc[w] = "acquire"
      /\ WorkerFine(fib, "acquire", cur[w], at[w], currentFiber[w], buffer[w], deque[w])
  BY <1>1 DEF Mine, Leave
<1>5. /\ fib' = fib /\ made' = made /\ done' = done /\ at' = at /\ currentFiber' = currentFiber
      /\ wpc' = [wpc EXCEPT ![w] = "exited"] /\ cur' = cur /\ buffer' = buffer /\ deque' = deque
  BY DEF Leave
<1>6. wpc'[w] = "exited" /\ \A v \in Worker \ {w} : wpc'[v] = wpc[v]
  BY <1>1, <1>5 DEF VarTypes
<1>7. VarTypes'
  BY <1>1, <1>5 DEF VarTypes, Pcs
<1>8. Mine(w)'
  <2>1. WorkerFine(fib, "exited", cur[w], at[w], currentFiber[w], buffer[w], deque[w])
    BY <1>2 DEF WorkerFine, WorkerShape
  <2> QED
    BY <1>2, <1>5, <1>6, <2>1 DEF Mine
<1>9. \A v \in Worker : Mine(v)'
  <2>1. ASSUME NEW v \in Worker \ {w}
        PROVE  Mine(v)'
    BY <1>1, <1>5, <1>6, OtherSame
  <2> QED
    BY <1>8, <2>1
<1>10. HeldOnce'
  BY <1>1, <1>5, HeldSame
<1>11. Joining'
  BY <1>2, <1>5, <1>6, JoiningKept
<1> QED
  BY <1>1, <1>5, <1>7, <1>9, <1>10, <1>11 DEF ForkJoinInv


-----------------------------------------------------------------------------
(* exec()                                                                  *)

LEMMA WaitingKept ==
  ASSUME NEW F, NEW G, Stable(F, G), NEW D, Waiting(F, D),
         \A j \in 1..Len(D) : G[D[j]] = F[D[j]]
  PROVE  Waiting(G, D)
<1>1. ASSUME NEW j \in 1..Len(D)
      PROVE  Untouched(G, D[j])
  <2>1. PICK x : x = D[j]
    OBVIOUS
  <2>2. Untouched(F, x) /\ G[x] = F[x]
    BY <2>1 DEF Waiting
  <2>3. x \in Plain /\ Open(F, x) /\ x # Body
    BY <2>2 DEF Untouched
  <2>4. G[F[x].up].f2 = F[F[x].up].f2
    BY <2>3 DEF Stable
  <2>5. Open(G, x)
    BY <2>2, <2>3 DEF Open
  <2> QED
    BY <2>1, <2>2, <2>4, <2>5 DEF Untouched
<1> QED
  BY <1>1 DEF Waiting

(* A worker keeps its shape while another moves, and no fiber comes to run *)
(* inline that did not. *)
LEMMA OtherKept ==
  ASSUME ForkJoinInv, NEW w \in Worker, NEW v \in Worker, v # w,
         FibersOK(fib', made', done'), Stable(fib, fib'), SameParents(fib, fib', NoFiber),
         wpc'[v] = wpc[v], cur'[v] = cur[v], at'[v] = at[v],
         currentFiber'[v] = currentFiber[v], buffer'[v] = buffer[v], deque'[v] = deque[v],
         \A x \in Fiber : Holds(v, x) => fib'[x] = fib[x],
         \A x \in Plain : Open(fib, x) => (Inline(fib', x) <=> Inline(fib, x))
  PROVE  Mine(v)'
<1>1. cur[v] \in Plain /\ Open(fib, cur[v]) /\ Inline(fib, cur[v]) => fib[cur[v]].up # NoFiber
  BY BodyOutermost, ParentFacts, FiberFacts DEF ForkJoinInv
<1>2. NoFiber \notin Frames(fib, Top(buffer[v], cur[v]))
  BY FiberFacts DEF Frames
<1>3. \A x \in Plain : Open(fib, x) /\ x # NoFiber => (Inline(fib', x) <=> Inline(fib, x))
  OBVIOUS
<1> QED
  BY <1>1, <1>2, <1>3, OtherFine

LEMMA CurIsHeld ==
  ASSUME NEW w \in Worker
  PROVE  Holds(w, cur[w]) /\ HeldIn(cur[w], w, "cur")
BY DEF Holds, HeldIn, Place

LEMMA ExecTerminalKeeps ==
  ASSUME ForkJoinInv, NEW w \in Worker, ExecTerminal(w)
  PROVE  ForkJoinInv'
<1>1. FibersOK(fib, made, done) /\ VarTypes /\ HeldOnce /\ Joining /\ \A v \in Worker : Mine(v)
  BY DEF ForkJoinInv
<1>2. /\ wpc[w] = "loop" /\ cur[w] = Terminal
      /\ WorkerFine(fib, "loop", Terminal, at[w], currentFiber[w], buffer[w], deque[w])
  BY <1>1 DEF Mine, ExecTerminal
<1>3. /\ buffer[w] = <<>> /\ at[w] = Nowhere /\ Runnable(fib, Terminal)
      /\ Waiting(fib, deque[w])
      /\ Spine(fib, Top(buffer[w], Terminal), Pending(buffer[w], deque[w]))
  BY <1>2, FiberFacts DEF WorkerFine, WorkerShape
<1>4. deque[w] = <<>>
  <2>1. Top(<<>>, Terminal) = Terminal /\ Pending(<<>>, deque[w]) = deque[w]
    BY TopOfBuffers
  <2>2. Spine(fib, Terminal, deque[w])
    BY <1>3, <2>1
  <2>3. ~ Inline(fib, Terminal)
    BY <1>1, BodyOutermost, FiberFacts
  <2> QED
    BY <1>1, <1>3, <2>2, <2>3, SpineOfOwnStack, FiberFacts
<1>5. /\ fib' = [fib EXCEPT ![Terminal].ctx = "used"] /\ made' = made /\ done' = done
      /\ at' = at /\ currentFiber' = currentFiber
      /\ wpc' = [wpc EXCEPT ![w] = "returned"] /\ cur' = cur /\ buffer' = buffer /\ deque' = deque
  BY DEF ExecTerminal
<1>6. wpc'[w] = "returned" /\ \A v \in Worker \ {w} : wpc'[v] = wpc[v]
  BY <1>1, <1>5 DEF VarTypes
<1>7. VarTypes'
  BY <1>1, <1>5 DEF VarTypes, Pcs
<1>8. PICK G : G = fib'
  OBVIOUS
<1>9. /\ FibersOK(G, made, done) /\ Stable(fib, G) /\ SameParents(fib, G, NoFiber)
      /\ \A x \in Plain : G[x] = fib[x]
  <2>1. G = [fib EXCEPT ![Terminal].ctx = "used"]
    BY <1>5, <1>8
  <2>2. PICK F, m, d, q : F = fib /\ m = made /\ d = done /\ q = NoFiber
    OBVIOUS
  <2>3. FibersOK(F, m, d) /\ Runnable(F, Terminal) /\ G = [F EXCEPT ![Terminal].ctx = "used"]
    BY <1>1, <1>3, <2>1, <2>2
  <2>4. FibersOK(G, m, d) /\ Stable(F, G) /\ SameParents(F, G, q)
    BY <2>3, TerminalBegins, Zenon
  <2>5. \A x \in Plain : G[x] = F[x]
    BY <2>3, FiberFacts DEF FibersOK
  <2> QED
    BY <2>2, <2>4, <2>5
<1>10. Mine(w)'
  <2>1. G[Terminal].incounter = 0 /\ G[Terminal].alive /\ G[Terminal].ctx = "used"
    BY <1>1, <1>3, <1>5, <1>8, FiberFacts DEF Runnable, FibersOK, FiberType
  <2>2. WorkerShape(G, "returned", Terminal, Nowhere, currentFiber[w], <<>>, <<>>)
    BY <2>1 DEF WorkerShape, Returning, BufferShape, Waiting
  <2>3. Spine(G, Top(<<>>, Terminal), Pending(<<>>, <<>>))
    <3>1. Pending(<<>>, <<>>) = <<>>
      BY TopOfBuffers
    <3> QED
      BY <3>1 DEF Spine
  <2>4. WorkerFine(G, "returned", Terminal, Nowhere, currentFiber[w], <<>>, <<>>)
    BY <2>2, <2>3 DEF WorkerFine
  <2> QED
    BY <1>2, <1>3, <1>4, <1>5, <1>6, <1>8, <2>4 DEF Mine
<1>11. \A v \in Worker : Mine(v)'
  <2>1. ASSUME NEW v \in Worker \ {w}
        PROVE  Mine(v)'
    <3>1. ~ Holds(v, Terminal)
      BY <1>1, <1>2, CurIsHeld, HeldByOne, FiberFacts
    <3>2. \A x \in Fiber : Holds(v, x) => fib'[x] = fib[x]
      BY <1>8, <1>9, <3>1, FiberFacts
    <3>3. \A x \in Plain : Open(fib, x) => (Inline(fib', x) <=> Inline(fib, x))
      BY <1>8, <1>9 DEF Inline
    <3>4. FibersOK(fib', made', done') /\ Stable(fib, fib') /\ SameParents(fib, fib', NoFiber)
      BY <1>5, <1>8, <1>9
    <3> QED
      BY <1>5, <1>6, <3>2, <3>3, <3>4, OtherKept
  <2> QED
    BY <1>10, <2>1
<1>12. HeldOnce'
  BY <1>1, <1>5, HeldSame
<1>13. Joining'
  <2>1. ASSUME NEW p \in Plain, BothInline(fib', p)
        PROVE  /\ BothInline(fib, p) /\ fib'[p].f1 = fib[p].f1 /\ fib'[p].f2 = fib[p].f2
               /\ fib'[fib[p].f1].ctx = fib[fib[p].f1].ctx
    <3>1. G[p] = fib[p]
      BY <1>9
    <3>2. ForkShape(G, p)
      BY <1>8, <1>9, <2>1 DEF FibersOK, PlainShape, Shaped, BothInline
    <3>3. G[p].f1 \in Plain /\ G[p].f2 \in Plain
      BY <3>2 DEF ForkShape
    <3>4. G[G[p].f1] = fib[fib[p].f1] /\ G[G[p].f2] = fib[fib[p].f2]
      BY <1>9, <3>1, <3>3
    <3> QED
      BY <1>8, <2>1, <3>1, <3>4 DEF BothInline, Inline, Open
  <2> QED
    BY <1>2, <1>5, <1>6, <2>1, JoiningKept
<1> QED
  BY <1>1, <1>5, <1>7, <1>8, <1>9, <1>11, <1>12, <1>13 DEF ForkJoinInv


LEMMA ExecKeeps ==
  ASSUME ForkJoinInv, NEW w \in Worker, Exec(w)
  PROVE  ForkJoinInv'
<1>1. FibersOK(fib, made, done) /\ VarTypes /\ HeldOnce /\ Joining /\ \A v \in Worker : Mine(v)
  BY DEF ForkJoinInv
<1>2. PICK F, m, d, f, D, q :
        F = fib /\ m = made /\ d = done /\ f = cur[w] /\ D = deque[w] /\ q = NoFiber
  OBVIOUS
<1>3. PICK G : G = fib'
  OBVIOUS
<1>4. /\ wpc[w] = "loop" /\ f # NoFiber /\ f # Terminal
      /\ WorkerFine(F, "loop", f, at[w], currentFiber[w], buffer[w], D)
  BY <1>1, <1>2 DEF Mine, Exec
<1>5. /\ buffer[w] = <<>> /\ at[w] = Nowhere /\ Runnable(F, f) /\ Waiting(F, D) /\ Spine(F, f, D)
      /\ f \in Plain /\ f \in Fiber /\ Open(F, f) /\ F[f].ctx # "used"
  <2>1. /\ buffer[w] = <<>> /\ at[w] = Nowhere /\ Runnable(F, f) /\ Waiting(F, D)
        /\ Spine(F, Top(buffer[w], f), Pending(buffer[w], D))
    BY <1>4 DEF WorkerFine, WorkerShape
  <2>2. Top(<<>>, f) = f /\ Pending(<<>>, D) = D
    BY TopOfBuffers
  <2>3. f \in Plain /\ Open(F, f) /\ F[f].ctx # "used"
    BY <1>4, <2>1 DEF Runnable
  <2> QED
    BY <2>1, <2>2, <2>3, FiberFacts
<1>6. /\ made' = made /\ done' = done
      /\ currentFiber' = [currentFiber EXCEPT ![w] = f]
      /\ at' = [at EXCEPT ![w] = [at |-> "body", f |-> f]]
      /\ wpc' = [wpc EXCEPT ![w] = "run"] /\ cur' = cur /\ buffer' = buffer /\ deque' = deque
  BY <1>2 DEF Exec
<1>7. /\ wpc'[w] = "run" /\ at'[w] = [at |-> "body", f |-> f] /\ currentFiber'[w] = f
      /\ \A v \in Worker \ {w} :
           wpc'[v] = wpc[v] /\ at'[v] = at[v] /\ currentFiber'[v] = currentFiber[v]
  BY <1>1, <1>6 DEF VarTypes
<1>8. VarTypes'
  BY <1>1, <1>5, <1>6 DEF VarTypes, Pcs
<1>9. FibersOK(F, m, d)
  BY <1>1, <1>2
<1>10. PICK r : r = Restored(IF F[f].stack = "null" THEN Spawned(F[f]) ELSE F[f])
  OBVIOUS
<1>11. G = [x \in Fiber |-> IF x = f THEN r
                            ELSE IF F[f].ctx = "return" /\ x \in {F[f].f1, F[f].f2}
                                 THEN Dead ELSE F[x]]
  BY <1>2, <1>3, <1>10 DEF Exec
<1>12. /\ FibersOK(G, m, d) /\ Stable(F, G) /\ SameParents(F, G, q)
       /\ G[f].ctx = "used" /\ G[f].up = F[f].up
  BY <1>5, <1>9, <1>10, <1>11, Resumed
<1>13. \A x \in Fiber \ {f} : Open(F, x) \/ x = Terminal => G[x] = F[x]
  BY <1>5, <1>9, <1>10, <1>11, Resumed
<1>14. \A x \in Fiber : Open(G, x) <=> Open(F, x)
  BY <1>5, <1>9, <1>10, <1>11, Resumed
<1>15. \A x \in Fiber : Open(F, x) => (Inline(G, x) <=> Inline(F, x))
  BY <1>5, <1>9, <1>10, <1>11, Resumed
<1>16. Mine(w)'
  <2>1. \A j \in 1..Len(D) : G[D[j]] = F[D[j]]
    <3> SUFFICES ASSUME NEW j \in 1..Len(D) PROVE G[D[j]] = F[D[j]]
      OBVIOUS
    <3>1. PICK x : x = D[j]
      OBVIOUS
    <3>2. x \in Plain /\ Open(F, x)
      BY <1>5, <3>1 DEF Waiting, Untouched
    <3>3. x # f
      <4>1. HeldIn(x, w, "deque")
        BY <1>2, <3>1 DEF HeldIn
      <4>2. HeldIn(f, w, "cur")
        BY <1>2, CurIsHeld
      <4> QED
        BY <1>1, <1>5, <4>1, <4>2 DEF HeldOnce, Place
    <3> QED
      BY <1>13, <3>1, <3>2, <3>3, FiberFacts
  <2>2. Waiting(G, D)
    BY <1>5, <1>12, <2>1, WaitingKept
  <2>3. Spine(G, f, D)
    <3>1. \A x \in Frames(F, f) : Inline(G, x) <=> Inline(F, x)
      BY <1>5, <1>9, <1>15, FramesOpen, FiberFacts
    <3> QED
      BY <1>5, <1>9, <1>12, <3>1, SpineKept
  <2>4. RunningShape(G, f, [at |-> "body", f |-> f], f)
    BY <1>5, <1>12, <1>14 DEF RunningShape
  <2>5. WorkerShape(G, "run", f, [at |-> "body", f |-> f], f, <<>>, D)
    BY <2>2, <2>4 DEF WorkerShape, BufferShape
  <2>6. Spine(G, Top(<<>>, f), Pending(<<>>, D))
    BY <2>3, TopOfBuffers
  <2>7. WorkerFine(G, "run", f, [at |-> "body", f |-> f], f, <<>>, D)
    BY <2>5, <2>6 DEF WorkerFine
  <2> QED
    BY <1>2, <1>3, <1>5, <1>6, <1>7, <2>7 DEF Mine
<1>17. \A v \in Worker : Mine(v)'
  <2>1. ASSUME NEW v \in Worker \ {w}
        PROVE  Mine(v)'
    <3>1. ~ Holds(v, f)
      BY <1>1, <1>2, <1>5, CurIsHeld, HeldByOne
    <3>2. \A x \in Fiber : Holds(v, x) => fib'[x] = fib[x]
      BY <1>2, <1>3, <1>13, <3>1, HeldAlive
    <3>3. \A x \in Plain : Open(fib, x) => (Inline(fib', x) <=> Inline(fib, x))
      BY <1>2, <1>3, <1>15, FiberFacts
    <3>4. FibersOK(fib', made', done') /\ Stable(fib, fib') /\ SameParents(fib, fib', NoFiber)
      BY <1>2, <1>3, <1>6, <1>12
    <3> QED
      BY <1>6, <1>7, <3>2, <3>3, <3>4, OtherKept
  <2> QED
    BY <1>16, <2>1
<1>18. HeldOnce'
  BY <1>1, <1>6, HeldSame
<1>19. Joining'
  <2>1. ASSUME NEW p \in Plain, BothInline(fib', p)
        PROVE  /\ BothInline(fib, p) /\ fib'[p].f1 = fib[p].f1 /\ fib'[p].f2 = fib[p].f2
               /\ fib'[fib[p].f1].ctx = fib[fib[p].f1].ctx
    <3>1. ForkShape(G, p)
      BY <1>3, <1>12, <2>1 DEF FibersOK, PlainShape, Shaped, BothInline
    <3>2. p # f /\ Open(G, p) /\ G[p].f1 \in Plain /\ G[p].f2 \in Plain
      BY <1>3, <1>12, <2>1, <3>1 DEF ForkShape, BothInline
    <3>3. G[p] = F[p]
      BY <1>13, <1>14, <3>2, FiberFacts
    <3>4. PICK g, h : g = F[p].f1 /\ h = F[p].f2
      OBVIOUS
    <3>5. /\ g \in Plain /\ h \in Plain /\ Open(F, g) /\ Open(F, h)
          /\ Inline(F, h) /\ F[p].ctx = "return"
      BY <1>3, <1>14, <1>15, <2>1, <3>2, <3>3, <3>4, FiberFacts DEF BothInline
    <3>6. BothInline(F, p)
      BY <3>4, <3>5 DEF BothInline
    <3>7. F[g].ctx = "used"
      BY <1>1, <1>2, <3>4, <3>6 DEF Joining
    <3>8. G[g] = F[g]
      BY <1>5, <1>13, <3>5, <3>7, FiberFacts
    <3> QED
      BY <1>2, <1>3, <3>3, <3>4, <3>6, <3>8
  <2> QED
    BY <1>4, <1>6, <1>7, <2>1, JoiningKept
<1> QED
  BY <1>2, <1>3, <1>6, <1>8, <1>12, <1>17, <1>18, <1>19 DEF ForkJoinInv


-----------------------------------------------------------------------------
(* exec() has returned                                                     *)

(* What the worker of a step that returned to the scheduler has. *)
LEMMA ReturnedShape ==
  ASSUME ForkJoinInv, NEW w \in Worker, wpc[w] = "returned"
  PROVE  /\ Returning(fib, cur[w], buffer[w], deque[w]) /\ at[w] = Nowhere
         /\ BufferShape(fib, buffer[w]) /\ Waiting(fib, deque[w])
         /\ Spine(fib, Top(buffer[w], cur[w]), Pending(buffer[w], deque[w]))
BY DEF ForkJoinInv, Mine, WorkerFine, WorkerShape

LEMMA ReturnedPausedKeeps ==
  ASSUME ForkJoinInv, NEW w \in Worker, Returned(w), fib[cur[w]].status = "pause"
  PROVE  ForkJoinInv'
<1>1. FibersOK(fib, made, done) /\ VarTypes /\ HeldOnce /\ Joining /\ \A v \in Worker : Mine(v)
  BY DEF ForkJoinInv
<1>2. PICK F, f, B, D : F = fib /\ f = cur[w] /\ B = buffer[w] /\ D = deque[w]
  OBVIOUS
<1>3. /\ wpc[w] = "returned" /\ Returning(F, f, B, D) /\ at[w] = Nowhere
      /\ BufferShape(F, B) /\ Waiting(F, D) /\ Spine(F, Top(B, f), Pending(B, D))
  BY <1>2, ReturnedShape DEF Returned
<1>4. /\ f \in Plain /\ F[f].ctx = "return" /\ B = <<F[f].f2, F[f].f1>>
  <2>1. f \in Plain => (F[f].ctx # "return" => F[f].status = "finish")
    BY <1>1, <1>2 DEF FibersOK, PlainShape, Shaped
  <2>2. F[Terminal].status = "exit_launch"
    BY <1>1, <1>2 DEF FibersOK, TerminalShape
  <2> QED
    BY <1>2, <1>3, <2>1, <2>2 DEF Returning
<1>5. /\ fib' = fib /\ made' = made /\ done' = done /\ at' = at /\ currentFiber' = currentFiber
      /\ wpc' = [wpc EXCEPT ![w] = "flush"] /\ cur' = [cur EXCEPT ![w] = NoFiber]
      /\ buffer' = buffer /\ deque' = deque
  BY DEF Returned
<1>6. /\ wpc'[w] = "flush" /\ cur'[w] = NoFiber
      /\ \A v \in Worker \ {w} : wpc'[v] = wpc[v] /\ cur'[v] = cur[v]
  BY <1>1, <1>5 DEF VarTypes
<1>7. VarTypes'
  BY <1>1, <1>5 DEF VarTypes, Pcs
<1>8. Mine(w)'
  <2>1. Top(B, NoFiber) = Top(B, f)
    BY <1>4 DEF Top
  <2>2. WorkerFine(F, "flush", NoFiber, Nowhere, currentFiber[w], B, D)
    BY <1>3, <2>1 DEF WorkerFine, WorkerShape
  <2> QED
    BY <1>2, <1>3, <1>5, <1>6, <2>2 DEF Mine
<1>9. \A v \in Worker : Mine(v)'
  <2>1. ASSUME NEW v \in Worker \ {w}
        PROVE  Mine(v)'
    BY <1>1, <1>5, <1>6, OtherSame
  <2> QED
    BY <1>8, <2>1
<1>10. HeldOnce'
  <2>1. \A x \in Fiber : \A v \in Worker : \A k \in Place : HeldIn(x, v, k)' => HeldIn(x, v, k)
    BY <1>5, <1>6, FiberFacts DEF HeldIn
  <2> QED
    BY <1>1, <2>1 DEF HeldOnce
<1>11. Joining'
  <2>1. \A p \in Plain : BothInline(fib, p) => cur[w] # fib[p].f1
    BY <1>1, <1>2, <1>4 DEF Joining
  <2> QED
    BY <1>5, <1>6, <2>1, JoiningKept
<1> QED
  BY <1>1, <1>5, <1>7, <1>9, <1>10, <1>11 DEF ForkJoinInv

LEMMA ReturnedTerminalKeeps ==
  ASSUME ForkJoinInv, NEW w \in Worker, Returned(w), cur[w] = Terminal
  PROVE  ForkJoinInv'
<1>1. FibersOK(fib, made, done) /\ VarTypes /\ HeldOnce /\ Joining /\ \A v \in Worker : Mine(v)
  BY DEF ForkJoinInv
<1>2. PICK F, m, d, D, q : F = fib /\ m = made /\ d = done /\ D = deque[w] /\ q = NoFiber
  OBVIOUS
<1>3. PICK G : G = fib'
  OBVIOUS
<1>4. FibersOK(F, m, d)
  BY <1>1, <1>2
<1>5. /\ wpc[w] = "returned" /\ at[w] = Nowhere /\ buffer[w] = <<>> /\ D = <<>>
      /\ F[Terminal].incounter = 0
  <2>1. /\ Returning(F, Terminal, buffer[w], D) /\ at[w] = Nowhere /\ Waiting(F, D)
        /\ Spine(F, Top(buffer[w], Terminal), Pending(buffer[w], D)) /\ wpc[w] = "returned"
    BY <1>2, ReturnedShape DEF Returned
  <2>2. buffer[w] = <<>> /\ F[Terminal].incounter = 0
    BY <2>1, FiberFacts DEF Returning
  <2>3. Top(<<>>, Terminal) = Terminal /\ Pending(<<>>, D) = D
    BY TopOfBuffers
  <2>4. Spine(F, Terminal, D)
    BY <2>1, <2>2, <2>3
  <2>5. ~ Inline(F, Terminal)
    BY <1>4, BodyOutermost, FiberFacts
  <2>6. D = <<>>
    BY <1>4, <2>1, <2>4, <2>5, SpineOfOwnStack, FiberFacts
  <2> QED
    BY <2>1, <2>2, <2>6
<1>6. /\ G = [F EXCEPT ![Terminal].alive = FALSE] /\ made' = made /\ done' = TRUE
      /\ at' = at /\ currentFiber' = currentFiber /\ buffer' = buffer /\ deque' = deque
      /\ wpc' = [wpc EXCEPT ![w] = "flush"] /\ cur' = [cur EXCEPT ![w] = NoFiber]
  <2>1. fib[Terminal].status = "exit_launch"
    BY <1>1 DEF FibersOK, TerminalShape
  <2> QED
    BY <1>2, <1>3, <2>1 DEF Returned
<1>7. /\ wpc'[w] = "flush" /\ cur'[w] = NoFiber
      /\ \A v \in Worker \ {w} : wpc'[v] = wpc[v] /\ cur'[v] = cur[v]
  BY <1>1, <1>6 DEF VarTypes
<1>8. VarTypes'
  BY <1>1, <1>6 DEF VarTypes, Pcs
<1>9. FibersOK(G, m, TRUE) /\ Stable(F, G) /\ SameParents(F, G, q)
  BY <1>4, <1>5, <1>6, TerminalEnds, Zenon
<1>10. \A x \in Plain : G[x] = F[x]
  BY <1>4, <1>6, FiberFacts DEF FibersOK
<1>11. Mine(w)'
  <2>1. WorkerShape(G, "flush", NoFiber, Nowhere, currentFiber[w], <<>>, <<>>)
    BY DEF WorkerShape, BufferShape, Waiting
  <2>2. Spine(G, Top(<<>>, NoFiber), Pending(<<>>, <<>>))
    <3>1. Pending(<<>>, <<>>) = <<>>
      BY TopOfBuffers
    <3> QED
      BY <3>1 DEF Spine
  <2>3. WorkerFine(G, "flush", NoFiber, Nowhere, currentFiber[w], <<>>, <<>>)
    BY <2>1, <2>2 DEF WorkerFine
  <2> QED
    BY <1>2, <1>3, <1>5, <1>6, <1>7, <2>3 DEF Mine
<1>12. \A v \in Worker : Mine(v)'
  <2>1. ASSUME NEW v \in Worker \ {w}
        PROVE  Mine(v)'
    <3>1. ~ Holds(v, Terminal)
      BY <1>1, CurIsHeld, HeldByOne, FiberFacts
    <3>2. \A x \in Fiber : Holds(v, x) => fib'[x] = fib[x]
      BY <1>2, <1>3, <1>10, <3>1, FiberFacts
    <3>3. \A x \in Plain : Open(fib, x) => (Inline(fib', x) <=> Inline(fib, x))
      BY <1>2, <1>3, <1>10 DEF Inline
    <3>4. FibersOK(fib', made', done') /\ Stable(fib, fib') /\ SameParents(fib, fib', NoFiber)
      BY <1>2, <1>3, <1>6, <1>9
    <3> QED
      BY <1>6, <1>7, <3>2, <3>3, <3>4, OtherKept
  <2> QED
    BY <1>11, <2>1
<1>13. HeldOnce'
  <2>1. \A x \in Fiber : \A v \in Worker : \A k \in Place : HeldIn(x, v, k)' => HeldIn(x, v, k)
    BY <1>6, <1>7, FiberFacts DEF HeldIn
  <2> QED
    BY <1>1, <2>1 DEF HeldOnce
<1>14. Joining'
  <2>1. ASSUME NEW p \in Plain, BothInline(fib', p)
        PROVE  /\ BothInline(fib, p) /\ fib'[p].f1 = fib[p].f1 /\ fib'[p].f2 = fib[p].f2
               /\ fib'[fib[p].f1].ctx = fib[fib[p].f1].ctx /\ cur[w] # fib[p].f1
    <3>1. G[p] = F[p]
      BY <1>10
    <3>2. ForkShape(G, p)
      BY <1>3, <1>9, <2>1 DEF FibersOK, PlainShape, Shaped, BothInline
    <3>3. G[p].f1 \in Plain /\ G[p].f2 \in Plain
      BY <3>2 DEF ForkShape
    <3>4. G[G[p].f1] = F[F[p].f1] /\ G[G[p].f2] = F[F[p].f2] /\ F[p].f1 # Terminal
      BY <1>10, <3>1, <3>3, FiberFacts
    <3> QED
      BY <1>2, <1>3, <2>1, <3>1, <3>4 DEF BothInline, Inline, Open
  <2> QED
    BY <1>6, <1>7, <2>1, JoiningKept
<1> QED
  BY <1>2, <1>3, <1>6, <1>8, <1>9, <1>12, <1>13, <1>14 DEF ForkJoinInv


(* A second child that returns to the scheduler is the last. *)
LEMMA SecondIsLast ==
  ASSUME ForkJoinInv, NEW w \in Worker, NEW f \in Plain, f = cur[w], Open(fib, f),
         IsSecond(fib, f), NEW p, p = fib[f].up
  PROVE  fib[p].incounter = 1 /\ p \in Plain /\ fib[f].outedge = p /\ fib[p].ctx = "return"
<1>1. FibersOK(fib, made, done)
  BY DEF ForkJoinInv
<1>2. f # Body /\ Inline(fib, f) /\ f = fib[p].f2
  BY <1>1, BodyOutermost, FiberFacts DEF IsSecond
<1>3. /\ p \in Plain /\ fib[f].outedge = p /\ fib[p].ctx = "return" /\ ForkShape(fib, p)
  <2>1. PICK F, m, d : F = fib /\ m = made /\ d = done
    OBVIOUS
  <2>2. FibersOK(F, m, d) /\ Open(F, f) /\ f # Body /\ p = F[f].up
    BY <1>1, <1>2, <2>1, Zenon
  <2>3. p \in Plain /\ F[f].outedge = p /\ F[p].ctx = "return" /\ ForkShape(F, p)
    BY <2>2, ParentFacts
  <2> QED
    BY <2>1, <2>3
<1>4. ~ Open(fib, fib[p].f1)
  <2>1. Open(fib, fib[p].f1) => BothInline(fib, p)
    BY <1>2, <1>3, Zenon DEF BothInline
  <2> QED
    BY <1>2, <1>3, <2>1, SecondIsNext, Zenon
<1>5. fib[p].incounter = One(fib, fib[p].f1) + One(fib, fib[p].f2)
  BY <1>3, Zenon DEF ForkShape
<1>6. One(fib, fib[p].f1) = 0 /\ One(fib, fib[p].f2) = 1
  BY <1>2, <1>4, Zenon DEF One
<1> QED
  BY <1>3, <1>5, <1>6

(* What a finished fiber does to the fibers, and why it may. *)
LEMMA FinishedNotifies ==
  ASSUME ForkJoinInv, NEW w \in Worker, Returned(w), NEW f, f = cur[w], f \in Plain,
         fib[f].status = "finish", NEW g, g = fib[f].outedge
  PROVE  /\ Open(fib, f) /\ fib[f].ctx = "used" /\ g \in Fiber
         /\ fib' = Notifying(fib, f, g)
         /\ buffer' = IF fib[g].incounter = 1 THEN [buffer EXCEPT ![w] = Append(@, g)]
                      ELSE buffer
         /\ made' = made /\ done' = done /\ at' = at /\ currentFiber' = currentFiber
         /\ deque' = deque
         /\ wpc' = [wpc EXCEPT ![w] = "flush"] /\ cur' = [cur EXCEPT ![w] = NoFiber]
         /\ MayNotify(fib, f, g)
<1>1. FibersOK(fib, made, done)
  BY DEF ForkJoinInv
<1>2. Returning(fib, f, buffer[w], deque[w])
  BY ReturnedShape DEF Returned
<1>3. /\ Open(fib, f) /\ fib[f].ctx = "used"
      /\ \/ ~ Inline(fib, f)
         \/ /\ IsFirst(fib, f) /\ ~ Inline(fib, fib[fib[f].up].f2)
            /\ fib[fib[f].up].status = "finish"
         \/ IsFirst(fib, f) /\ Inline(fib, fib[fib[f].up].f2)
         \/ IsSecond(fib, f) /\ fib[fib[f].up].status = "finish"
  BY <1>2, FiberFacts DEF Returning
<1>4. g \in Fiber /\ g # NoFiber
  <2>1. g # NoFiber
    BY <1>3 DEF Open
  <2>2. f \in Fiber
    BY FiberFacts
  <2> QED
    BY <1>1, <2>1, <2>2 DEF FibersOK, FiberType
<1>5. /\ fib' = Notifying(fib, f, g)
      /\ buffer' = IF fib[g].incounter = 1 THEN [buffer EXCEPT ![w] = Append(@, g)] ELSE buffer
      /\ made' = made /\ done' = done /\ at' = at /\ currentFiber' = currentFiber
      /\ deque' = deque
      /\ wpc' = [wpc EXCEPT ![w] = "flush"] /\ cur' = [cur EXCEPT ![w] = NoFiber]
  <2>1. Notify(w, f) /\ done' = done
    BY DEF Returned
  <2>2. /\ fib' = Notifying(fib, f, g)
        /\ buffer' = IF fib[g].incounter = 1 THEN [buffer EXCEPT ![w] = Append(@, g)] ELSE buffer
    BY <1>4, <2>1 DEF Notify, Released, Notifying
  <2> QED
    BY <2>1, <2>2 DEF Returned
<1>6. ASSUME f # Body
      PROVE  /\ \/ fib[g].status = "finish"
                \/ f # IF Inline(fib, fib[g].f2) THEN fib[g].f2 ELSE fib[g].f1
             /\ Inline(fib, f) /\ f = fib[g].f2 => ~ Open(fib, fib[g].f1)
  <2>1. /\ g = fib[f].up /\ g \in Plain /\ ForkShape(fib, g) /\ fib[g].ctx = "return"
        /\ f = fib[g].f1 \/ f = fib[g].f2
    BY <1>1, <1>3, <1>6, ParentFacts
  <2>2. fib[g].f1 # fib[g].f2 /\ Inline(fib, fib[g].f1)
    <3>1. PICK a, b : a = fib[g].f1 /\ b = fib[g].f2
      OBVIOUS
    <3>2. a \in Plain /\ b \in Plain /\ a < b /\ Inline(fib, a)
      BY <2>1, <3>1, Zenon DEF ForkShape
    <3> QED
      BY <3>1, <3>2, FiberFacts
  <2>3. \/ fib[g].status = "finish"
        \/ f # IF Inline(fib, fib[g].f2) THEN fib[g].f2 ELSE fib[g].f1
    <3>1. CASE ~ Inline(fib, f)
      BY <2>1, <2>2, <3>1
    <3>2. CASE IsFirst(fib, f) /\ Inline(fib, fib[g].f2)
      BY <2>1, <2>2, <3>2 DEF IsFirst
    <3> QED
      BY <1>3, <2>1, <3>1, <3>2
  <2>4. ASSUME Inline(fib, f), f = fib[g].f2, Open(fib, fib[g].f1)
        PROVE  FALSE
    <3>1. BothInline(fib, g)
      BY <1>3, <2>1, <2>4, Zenon DEF BothInline
    <3> QED
      BY <2>1, <2>4, <3>1, SecondIsNext, Zenon
  <2> QED
    BY <2>3, <2>4
<1> QED
  BY <1>3, <1>4, <1>5, <1>6 DEF MayNotify


LEMMA ReturnedFinishKeeps ==
  ASSUME ForkJoinInv, NEW w \in Worker, Returned(w), cur[w] \in Plain,
         fib[cur[w]].status = "finish"
  PROVE  ForkJoinInv'
<1>1. FibersOK(fib, made, done) /\ VarTypes /\ HeldOnce /\ Joining /\ \A v \in Worker : Mine(v)
  BY DEF ForkJoinInv
<1>2. PICK F, m, d, f, B, D, q, g :
        /\ F = fib /\ m = made /\ d = done /\ f = cur[w] /\ B = buffer[w] /\ D = deque[w]
        /\ q = NoFiber /\ g = F[f].outedge
  OBVIOUS
<1>3. PICK G, A : G = fib' /\ A = buffer'[w]
  OBVIOUS
<1>4. FibersOK(F, m, d) /\ f \in Plain /\ f \in Fiber
  BY <1>1, <1>2, FiberFacts
<1>5. /\ wpc[w] = "returned" /\ Returning(F, f, B, D) /\ at[w] = Nowhere
      /\ BufferShape(F, B) /\ Waiting(F, D) /\ Spine(F, Top(B, f), Pending(B, D))
  BY <1>2, ReturnedShape DEF Returned
<1>6. /\ Open(F, f) /\ F[f].ctx = "used" /\ g \in Fiber
      /\ G = Notifying(F, f, g)
      /\ buffer' = IF F[g].incounter = 1 THEN [buffer EXCEPT ![w] = Append(@, g)] ELSE buffer
      /\ made' = made /\ done' = done /\ at' = at /\ currentFiber' = currentFiber
      /\ deque' = deque
      /\ wpc' = [wpc EXCEPT ![w] = "flush"] /\ cur' = [cur EXCEPT ![w] = NoFiber]
  BY <1>2, <1>3, <1>4, FinishedNotifies
<1>7. MayNotify(F, f, g)
  BY <1>2, <1>3, <1>4, FinishedNotifies
<1>13. /\ FibersOK(F, m, d) /\ f \in Plain /\ Open(F, f) /\ F[f].ctx = "used"
       /\ g = F[f].outedge /\ MayNotify(F, f, g) /\ G = Notifying(F, f, g)
  BY <1>2, <1>4, <1>6, <1>7
<1>8. /\ FibersOK(G, m, d) /\ Stable(F, G) /\ SameParents(F, G, q) /\ g # f
      /\ G[g].incounter = F[g].incounter - 1 /\ G[g].alive = F[g].alive
  BY <1>13, Notified, SMTT(30)
<1>9. \A x \in Fiber \ {f, g} : G[x] = F[x]
  BY <1>13, Notified
<1>10. \A x \in Fiber : Open(G, x) <=> Open(F, x) /\ x # f
  BY <1>13, Notified
<1>11. \A x \in Fiber : Inline(G, x) <=> Inline(F, x)
  BY <1>13, Notified
<1>12. \A x \in Fiber : G[x].f1 = F[x].f1 /\ G[x].f2 = F[x].f2 /\ G[x].ctx = F[x].ctx
  BY <1>13, Notified
<1>14. /\ wpc'[w] = "flush" /\ cur'[w] = NoFiber /\ deque'[w] = D
       /\ A = IF F[g].incounter = 1 THEN Append(B, g) ELSE B
       /\ \A v \in Worker \ {w} : /\ wpc'[v] = wpc[v] /\ cur'[v] = cur[v] /\ at'[v] = at[v]
                                  /\ currentFiber'[v] = currentFiber[v]
                                  /\ buffer'[v] = buffer[v] /\ deque'[v] = deque[v]
  <2>1. wpc'[w] = "flush" /\ cur'[w] = NoFiber /\ \A v \in Worker \ {w} : wpc'[v] = wpc[v] /\ cur'[v] = cur[v]
    BY <1>1, <1>6 DEF VarTypes
  <2>2. CASE F[g].incounter = 1
    <3>1. buffer' = [buffer EXCEPT ![w] = Append(buffer[w], g)]
      BY <1>6, <2>2
    <3>2. buffer'[w] = Append(buffer[w], g) /\ \A v \in Worker \ {w} : buffer'[v] = buffer[v]
      BY <1>1, <3>1 DEF VarTypes
    <3> QED
      BY <1>2, <1>3, <1>6, <2>1, <2>2, <3>2
  <2>3. CASE F[g].incounter # 1
    BY <1>2, <1>3, <1>6, <2>1, <2>3
  <2> QED
    BY <2>2, <2>3
<1>15. A \in Seq(Fiber) /\ VarTypes'
  <2>1. A \in Seq(Fiber)
    BY <1>1, <1>2, <1>6, <1>14 DEF VarTypes
  <2>2. buffer' = [buffer EXCEPT ![w] = A]
    <3>1. CASE F[g].incounter = 1
      BY <1>2, <1>6, <1>14, <3>1
    <3>2. CASE F[g].incounter # 1
      <4>1. [buffer EXCEPT ![w] = buffer[w]] = buffer
        BY <1>1 DEF VarTypes
      <4> QED
        BY <1>2, <1>6, <1>14, <3>2, <4>1
    <3> QED
      BY <3>1, <3>2
  <2> QED
    BY <1>1, <1>6, <2>1, <2>2 DEF VarTypes, Pcs
<1>16. /\ F[g].incounter >= 1
       /\ F[g].incounter = 1 => Runnable(G, g) /\ BufferShape(G, <<g>>)
       /\ g \in Plain => Open(F, g) /\ F[g].ctx = "return"
       /\ f # Body => g \in Plain /\ ForkShape(F, g) /\ g = F[f].up /\ f \in {F[g].f1, F[g].f2}
  <2>1. CASE f = Body
    <3>1. g = Terminal
      BY <1>13, <2>1 DEF FibersOK, BodyShape, Open
    <3>2. F[g].incounter = 1 /\ F[g].alive /\ F[g].ctx = "begin"
      BY <1>13, <2>1, <3>1 DEF FibersOK, BodyShape, TerminalShape, One
    <3>3. G[g].incounter = 0 /\ G[g].alive /\ G[g].ctx = "begin"
      BY <1>6, <1>8, <1>12, <3>2
    <3>4. Runnable(G, g)
      BY <3>1, <3>3 DEF Runnable
    <3> QED
      BY <1>6, <2>1, <3>1, <3>2, <3>4, FiberFacts DEF BufferShape
  <2>2. CASE f # Body
    <3>1. /\ g \in Plain /\ g = F[f].up /\ Open(F, g) /\ F[g].ctx = "return"
          /\ F[g].incounter >= 1 /\ ForkShape(F, g) /\ f \in {F[g].f1, F[g].f2}
      BY <1>13, <2>2, ParentFacts
    <3>2. F[g].incounter = 1 => Runnable(G, g)
      BY <1>6, <1>8, <1>10, <1>12, <3>1 DEF Runnable
    <3> QED
      BY <1>6, <3>1, <3>2 DEF BufferShape
  <2> QED
    BY <2>1, <2>2
<1>17. Waiting(G, D)
  <2>1. \A j \in 1..Len(D) : G[D[j]] = F[D[j]]
    <3> SUFFICES ASSUME NEW j \in 1..Len(D) PROVE G[D[j]] = F[D[j]]
      OBVIOUS
    <3>1. PICK x : x = D[j]
      OBVIOUS
    <3>2. x \in Plain /\ F[x].ctx = "begin"
      BY <1>5, <3>1 DEF Waiting, Untouched
    <3>3. x # f /\ x # g
      BY <1>6, <1>16, <3>2
    <3> QED
      BY <1>9, <3>1, <3>2, <3>3, FiberFacts
  <2> QED
    BY <1>5, <1>8, <2>1, WaitingKept
<1>18. ASSUME B = <<>>, D = <<>>
       PROVE  BufferShape(G, A) /\ Spine(G, Top(A, NoFiber), Pending(A, D))
  <2>1. A = <<>> \/ (A = <<g>> /\ F[g].incounter = 1)
    BY <1>14, <1>18
  <2>2. BufferShape(G, A)
    BY <1>16, <2>1 DEF BufferShape
  <2>3. Pending(A, D) = <<>>
    BY <1>18, <2>1, TopOfBuffers
  <2> QED
    BY <2>2, <2>3 DEF Spine
<1>19. ASSUME IsFirst(F, f), NEW h, h = F[F[f].up].f2, Inline(F, h), B = <<h>>
       PROVE  BufferShape(G, A) /\ Spine(G, Top(A, NoFiber), Pending(A, D))
  <2>1. f # Body
    BY <1>4, <1>19, BodyOutermost, FiberFacts DEF IsFirst
  <2>2. /\ g \in Plain /\ ForkShape(F, g) /\ g = F[f].up /\ f = F[g].f1 /\ h = F[g].f2
    BY <1>16, <1>19, <2>1 DEF IsFirst
  <2>3. h \in Plain /\ f < h /\ g < h
    <3>1. h \in Plain /\ f \in Plain /\ g < f /\ f < h
      BY <2>2, Zenon DEF ForkShape
    <3>2. f \in Int /\ g \in Int /\ h \in Int
      BY <2>2, <3>1, FiberFacts, Zenon
    <3> QED
      BY <3>1, <3>2
  <2>4. h # f /\ h # g /\ h # Terminal /\ h \in Fiber
    <3>1. f \in Int /\ g \in Int /\ h \in Int /\ h # Terminal /\ h \in Fiber
      BY <1>4, <2>2, <2>3, FiberFacts, Zenon
    <3> QED
      BY <2>3, <3>1
  <2>5. Runnable(F, h)
    <3>1. \A x : B = <<x>> => x = h
      BY <1>19
    <3>2. B # <<>> /\ \A x, y : B # <<x, y>>
      BY <1>19
    <3> QED
      BY <1>5, <3>1, <3>2 DEF BufferShape
  <2>6. Open(F, h) /\ G[h] = F[h]
    BY <1>9, <2>4, <2>5 DEF Runnable
  <2>7. F[g].incounter # 1
    <3>1. F[g].incounter = One(F, f) + One(F, h)
      BY <2>2, Zenon DEF ForkShape
    <3>2. One(F, f) = 1 /\ One(F, h) = 1
      BY <1>6, <2>6 DEF One
    <3> QED
      BY <3>1, <3>2
  <2>8. A = <<h>>
    BY <1>14, <1>19, <2>7
  <2>9. Runnable(G, h)
    BY <1>10, <2>4, <2>5, <2>6 DEF Runnable
  <2>10. BufferShape(G, A)
    BY <2>4, <2>8, <2>9 DEF BufferShape
  <2>11. Top(B, f) = h /\ Pending(B, D) = D /\ Top(A, NoFiber) = h /\ Pending(A, D) = D
    BY <1>19, <2>8, TopOfBuffers
  <2>12. Spine(F, h, D)
    BY <1>5, <2>11
  <2>13. \A x \in Frames(F, h) : Inline(G, x) <=> Inline(F, x)
    BY <1>11 DEF Frames
  <2>14. Spine(G, h, D)
    BY <1>4, <1>5, <1>8, <2>3, <2>6, <2>12, <2>13, SpineKept
  <2> QED
    BY <2>10, <2>11, <2>14
<1>20. ASSUME IsSecond(F, f), B = <<>>
       PROVE  BufferShape(G, A) /\ Spine(G, Top(A, NoFiber), Pending(A, D))
  <2>1. F[g].incounter = 1 /\ g \in Plain /\ g = F[f].up /\ Open(F, g)
    <3>1. f # Body
      BY <1>4, <1>20, BodyOutermost, FiberFacts DEF IsSecond
    <3>2. g \in Plain /\ g = F[f].up /\ Open(F, g)
      BY <1>16, <3>1
    <3>3. fib[g].incounter = 1
      BY <1>2, <1>6, <1>4, <1>20, <3>2, SecondIsLast
    <3> QED
      BY <1>2, <3>2, <3>3
  <2>2. A = <<g>>
    BY <1>14, <1>20, <2>1
  <2>3. Top(B, f) = f /\ Pending(B, D) = D /\ Top(A, NoFiber) = g /\ Pending(A, D) = D
    BY <1>20, <2>2, TopOfBuffers
  <2>4. Spine(F, g, D)
    <3>1. Spine(F, f, D)
      BY <1>5, <2>3
    <3> QED
      BY <1>4, <1>5, <1>6, <1>20, <2>1, <3>1, SpineOfSecond
  <2>5. \A x \in Frames(F, g) : Inline(G, x) <=> Inline(F, x)
    BY <1>11 DEF Frames
  <2>6. Spine(G, g, D)
    BY <1>4, <1>5, <1>8, <2>1, <2>4, <2>5, SpineKept
  <2> QED
    BY <1>16, <2>1, <2>2, <2>3, <2>6
<1>21. BufferShape(G, A) /\ Spine(G, Top(A, NoFiber), Pending(A, D))
  <2>1. \/ ~ Inline(F, f) /\ B = <<>>
        \/ B = <<>> /\ D = <<>>
        \/ IsFirst(F, f) /\ Inline(F, F[F[f].up].f2) /\ B = <<F[F[f].up].f2>>
        \/ IsSecond(F, f) /\ B = <<>>
    BY <1>4, <1>5, <1>6, FiberFacts DEF Returning
  <2>2. CASE ~ Inline(F, f) /\ B = <<>>
    <3>1. Top(B, f) = f /\ Pending(B, D) = D
      BY <2>2, TopOfBuffers
    <3>2. Spine(F, f, D)
      BY <1>5, <3>1
    <3>3. D = <<>>
      BY <1>4, <1>5, <2>2, <3>2, SpineOfOwnStack
    <3> QED
      BY <1>18, <2>2, <3>3
  <2>3. CASE B = <<>> /\ D = <<>>
    BY <1>18, <2>3
  <2>4. CASE IsFirst(F, f) /\ Inline(F, F[F[f].up].f2) /\ B = <<F[F[f].up].f2>>
    BY <1>19, <2>4
  <2>5. CASE IsSecond(F, f) /\ B = <<>>
    BY <1>20, <2>5
  <2> QED
    BY <2>1, <2>2, <2>3, <2>4, <2>5
<1>22. Mine(w)'
  <2>1. WorkerShape(G, "flush", NoFiber, Nowhere, currentFiber[w], A, D)
    BY <1>17, <1>21 DEF WorkerShape
  <2>2. WorkerFine(G, "flush", NoFiber, Nowhere, currentFiber[w], A, D)
    BY <1>21, <2>1 DEF WorkerFine
  <2> QED
    BY <1>3, <1>5, <1>6, <1>14, <2>2 DEF Mine
<1>23. \A v \in Worker : Mine(v)'
  <2>1. ASSUME NEW v \in Worker \ {w}
        PROVE  Mine(v)'
    <3>1. ~ Holds(v, f)
      BY <1>1, <1>2, <1>4, CurIsHeld, HeldByOne
    <3>2. ~ Holds(v, g)
      BY <1>2, <1>4, <1>6, ParentNotHeld
    <3>3. \A x \in Fiber : Holds(v, x) => fib'[x] = fib[x]
      BY <1>2, <1>3, <1>9, <3>1, <3>2
    <3>4. \A x \in Plain : Open(fib, x) => (Inline(fib', x) <=> Inline(fib, x))
      BY <1>2, <1>3, <1>11, FiberFacts
    <3>5. FibersOK(fib', made', done') /\ Stable(fib, fib') /\ SameParents(fib, fib', NoFiber)
      BY <1>2, <1>3, <1>6, <1>8
    <3> QED
      BY <1>6, <1>14, <3>3, <3>4, <3>5, OtherKept
  <2> QED
    BY <1>22, <2>1
<1>24. HeldOnce'
  <2>1. ~ Holds(w, g)
    <3>1. g # cur[w] /\ fib[g].incounter # 0
      BY <1>2, <1>8, <1>16
    <3> QED
      BY <1>6, <3>1, HeldAlive
  <2>2. \A v \in Worker \ {w} : ~ Holds(v, g)
    BY <1>2, <1>4, <1>6, ParentNotHeld
  <2>3. ASSUME NEW x \in Fiber, NEW k \in Place, HeldIn(x, w, k)'
        PROVE  \/ k = "deque" /\ HeldIn(x, w, "deque")
               \/ k = "buffer" /\ (HeldIn(x, w, "buffer") \/ x = g)
    <3>1. k # "cur"
      BY <1>14, <2>3, FiberFacts DEF HeldIn
    <3>2. CASE k = "deque"
      BY <1>2, <1>14, <2>3, <3>2 DEF HeldIn
    <3>3. CASE k = "buffer"
      <4>1. PICK i \in 1..Len(A) : A[i] = x
        BY <1>3, <2>3, <3>3 DEF HeldIn
      <4>2. B \in Seq(Fiber)
        BY <1>1, <1>2 DEF VarTypes
      <4>3. A = B \/ A = Append(B, g)
        BY <1>14
      <4>4. A[i] = g \/ \E j \in 1..Len(B) : B[j] = A[i]
        <5>1. CASE A = B
          BY <5>1
        <5>2. CASE A = Append(B, g)
          <6>1. Len(A) = Len(B) + 1 /\ A[Len(B) + 1] = g /\ \A j \in 1..Len(B) : A[j] = B[j]
            BY <1>6, <4>2, <5>2
          <6>2. Len(B) \in Nat
            BY <4>2
          <6>3. i \in 1..Len(B) \/ i = Len(B) + 1
            BY <6>1, <6>2
          <6> QED
            BY <6>1, <6>3
        <5> QED
          BY <4>3, <5>1, <5>2
      <4> QED
        BY <1>2, <3>3, <4>1, <4>4 DEF HeldIn
    <3> QED
      BY <3>1, <3>2, <3>3 DEF Place
  <2>4. \A x \in Fiber : \A k \in Place : HeldIn(x, w, k)' =>
          Holds(w, x) \/ \A v \in Worker \ {w} : ~ Holds(v, x)
    BY <2>2, <2>3 DEF Holds
  <2>5. ASSUME NEW x \in Fiber, HeldIn(x, w, "deque")', HeldIn(x, w, "buffer")'
        PROVE  FALSE
    <3>1. HeldIn(x, w, "deque") /\ (HeldIn(x, w, "buffer") \/ x = g)
      BY <2>3, <2>5 DEF Place
    <3>2. ~ (HeldIn(x, w, "deque") /\ HeldIn(x, w, "buffer"))
      BY <1>1 DEF HeldOnce, Place
    <3>3. x # g
      BY <2>1, <3>1 DEF Holds, Place
    <3> QED
      BY <3>1, <3>2, <3>3
  <2>6. \A x \in Fiber : \A k, l \in Place : HeldIn(x, w, k)' /\ HeldIn(x, w, l)' => k = l
    BY <2>3, <2>5
  <2>7. \A v \in Worker \ {w} : cur'[v] = cur[v] /\ buffer'[v] = buffer[v] /\ deque'[v] = deque[v]
    BY <1>14
  <2> QED
    BY <1>1, <2>4, <2>6, <2>7, HeldOnceKept
<1>25. Joining'
  <2>1. ASSUME NEW p \in Plain, BothInline(fib', p)
        PROVE  /\ BothInline(fib, p) /\ fib'[p].f1 = fib[p].f1 /\ fib'[p].f2 = fib[p].f2
               /\ fib'[fib[p].f1].ctx = fib[fib[p].f1].ctx /\ cur[w] # fib[p].f1
    <3>1. PICK a, b : a = G[p].f1 /\ b = G[p].f2
      OBVIOUS
    <3>2. G[p].ctx = "return" /\ Inline(G, b) /\ Open(G, a) /\ Open(G, b)
      BY <1>3, <2>1, <3>1 DEF BothInline
    <3>3. ForkShape(G, p)
      BY <1>8, <3>2 DEF FibersOK, PlainShape, Shaped
    <3>4. a \in Fiber /\ b \in Fiber /\ p \in Fiber
      BY <3>1, <3>3, FiberFacts DEF ForkShape
    <3>5. F[p].f1 = a /\ F[p].f2 = b /\ F[p].ctx = "return" /\ G[a].ctx = F[a].ctx
      BY <1>12, <3>1, <3>2, <3>4
    <3>6. Open(F, a) /\ a # f /\ Open(F, b) /\ Inline(F, b)
      BY <1>10, <1>11, <3>2, <3>4
    <3>7. BothInline(F, p)
      BY <3>5, <3>6 DEF BothInline
    <3> QED
      BY <1>2, <1>3, <3>1, <3>5, <3>6, <3>7
  <2> QED
    BY <1>14, <2>1, JoiningKept
<1> QED
  BY <1>2, <1>3, <1>6, <1>8, <1>15, <1>23, <1>24, <1>25 DEF ForkJoinInv

(* The status of a fiber that has returned is one of the three. *)
LEMMA ReturnedKeeps ==
  ASSUME ForkJoinInv, NEW w \in Worker, Returned(w)
  PROVE  ForkJoinInv'
<1>1. cur[w] = Terminal \/ cur[w] \in Plain
  BY ReturnedShape DEF Returned, Returning
<1>2. cur[w] \in Plain => fib[cur[w]].status \in {"pause", "finish"}
  BY DEF ForkJoinInv, FibersOK, PlainShape, Shaped, ForkShape
<1> QED
  BY <1>1, <1>2, ReturnedPausedKeeps, ReturnedTerminalKeeps, ReturnedFinishKeeps


-----------------------------------------------------------------------------
(* The code of a fiber                                                     *)

(* What a worker has that runs the code of a fiber. *)
LEMMA RunningFacts ==
  ASSUME ForkJoinInv, NEW w \in Worker, wpc[w] = "run"
  PROVE  /\ RunningShape(fib, cur[w], at[w], currentFiber[w])
         /\ buffer[w] = <<>> /\ Waiting(fib, deque[w]) /\ Spine(fib, cur[w], deque[w])
<1>1. /\ RunningShape(fib, cur[w], at[w], currentFiber[w])
      /\ buffer[w] = <<>> /\ Waiting(fib, deque[w])
      /\ Spine(fib, Top(buffer[w], cur[w]), Pending(buffer[w], deque[w]))
  BY DEF ForkJoinInv, Mine, WorkerFine, WorkerShape
<1>2. Top(<<>>, cur[w]) = cur[w] /\ Pending(<<>>, deque[w]) = deque[w]
  BY TopOfBuffers
<1> QED
  BY <1>1, <1>2

(* The sibling of a first child whose code is run does not run inline. *)
LEMMA SiblingWaits ==
  ASSUME ForkJoinInv, NEW w \in Worker, wpc[w] = "run", NEW f \in Plain, f = cur[w],
         IsFirst(fib, f), Open(fib, f), NEW p, p = fib[f].up
  PROVE  ~ Inline(fib, fib[p].f2)
<1> SUFFICES ASSUME Inline(fib, fib[p].f2) PROVE FALSE
  OBVIOUS
<1>1. FibersOK(fib, made, done)
  BY DEF ForkJoinInv
<1>2. f # Body /\ f = fib[p].f1 /\ f \in Fiber
  BY <1>1, BodyOutermost, FiberFacts DEF IsFirst
<1>3. p \in Plain /\ fib[p].ctx = "return" /\ ForkShape(fib, p)
  <2>1. PICK F, m, d : F = fib /\ m = made /\ d = done
    OBVIOUS
  <2>2. FibersOK(F, m, d) /\ Open(F, f) /\ f # Body /\ p = F[f].up
    BY <1>1, <1>2, <2>1, Zenon
  <2>3. p \in Plain /\ F[p].ctx = "return" /\ ForkShape(F, p)
    BY <2>2, ParentFacts
  <2> QED
    BY <2>1, <2>3
<1>4. BothInline(fib, p)
  BY <1>2, <1>3, Zenon DEF ForkShape, BothInline
<1>5. PICK u \in Worker : wpc[u] = "returned" /\ cur[u] = f
  BY <1>2, <1>3, <1>4, Zenon DEF ForkJoinInv, Joining
<1>6. Holds(w, f) /\ Holds(u, f)
  BY <1>5, CurIsHeld
<1>7. u # w
  BY <1>5
<1> QED
  BY <1>2, <1>6, <1>7, HeldByOne, Zenon DEF ForkJoinInv

(* The stack of a parent is left for good. *)
LEMMA ParentLeftKeeps ==
  ASSUME ForkJoinInv, NEW w \in Worker, wpc[w] = "run",
         NEW f \in Plain, f = cur[w], NEW p, p = fib[f].up,
         IsSecond(fib, f) \/ (IsFirst(fib, f) /\ deque[w] = <<>>),
         fib' = Leaving(fib, p), made' = made, done' = done,
         wpc' = [wpc EXCEPT ![w] = "returned"], at' = [at EXCEPT ![w] = Nowhere],
         cur' = cur, currentFiber' = currentFiber, buffer' = buffer, deque' = deque
  PROVE  ForkJoinInv'
<1>1. FibersOK(fib, made, done) /\ VarTypes /\ HeldOnce /\ Joining /\ \A v \in Worker : Mine(v)
  BY DEF ForkJoinInv
<1>2. PICK F, m, d, D : F = fib /\ m = made /\ d = done /\ D = deque[w]
  OBVIOUS
<1>3. PICK G : G = fib'
  OBVIOUS
<1>4. FibersOK(F, m, d) /\ f \in Fiber
  BY <1>1, <1>2, FiberFacts
<1>5. /\ Open(F, f) /\ F[f].ctx = "used" /\ buffer[w] = <<>>
      /\ Waiting(F, D) /\ Spine(F, f, D)
  BY <1>2, RunningFacts DEF RunningShape
<1>6. Inline(F, f) /\ f # Body
  BY <1>2, <1>4, BodyOutermost DEF IsFirst, IsSecond
<1>7. p \in Plain /\ F[p].ctx = "return" /\ ForkShape(F, p) /\ p # f /\ F[f].outedge = p
  <2>1. p \in Plain /\ F[p].ctx = "return" /\ ForkShape(F, p) /\ p < f /\ F[f].outedge = p
    BY <1>2, <1>4, <1>5, <1>6, ParentFacts
  <2> QED
    BY <1>5, <2>1
<1>8. G = Leaving(F, p)
  BY <1>2, <1>3
<1>9. /\ FibersOK(G, m, d) /\ Stable(F, G) /\ SameParents(F, G, p)
      /\ G[p].status = "finish" /\ G[p].f1 = F[p].f1 /\ G[p].f2 = F[p].f2
      /\ G[p].ctx = F[p].ctx /\ G[p].up = F[p].up
  BY <1>4, <1>7, <1>8, ParentLeft
<1>10. \A x \in Fiber \ {p} : G[x] = F[x]
  BY <1>4, <1>7, <1>8, ParentLeft
<1>11. \A x \in Fiber : Open(G, x) <=> Open(F, x)
  BY <1>4, <1>7, <1>8, ParentLeft
<1>12. \A x \in Fiber : Inline(G, x) <=> Inline(F, x)
  BY <1>4, <1>7, <1>8, ParentLeft
<1>13. /\ G[p].status = "finish" /\ G[p].f1 = F[p].f1 /\ G[p].f2 = F[p].f2
       /\ G[p].ctx = F[p].ctx /\ G[p].up = F[p].up
  BY <1>9
<1>14. /\ wpc'[w] = "returned" /\ at'[w] = Nowhere
       /\ \A v \in Worker \ {w} : wpc'[v] = wpc[v] /\ at'[v] = at[v]
  BY <1>1 DEF VarTypes
<1>15. VarTypes'
  <2>1. Nowhere \in [at : {"nowhere", "body", "take"}, f : Fiber \cup {NoFiber}]
    BY DEF Nowhere
  <2> QED
    BY <1>1, <2>1 DEF VarTypes, Pcs
<1>16. Waiting(G, D) /\ Spine(G, f, D)
  <2>1. \A j \in 1..Len(D) : G[D[j]] = F[D[j]]
    <3> SUFFICES ASSUME NEW j \in 1..Len(D) PROVE G[D[j]] = F[D[j]]
      OBVIOUS
    <3>1. PICK x : x = D[j]
      OBVIOUS
    <3>2. x \in Plain /\ F[x].ctx = "begin"
      BY <1>5, <3>1 DEF Waiting, Untouched
    <3> QED
      BY <1>7, <1>10, <3>1, <3>2, FiberFacts
  <2>2. Waiting(G, D)
    BY <1>5, <1>9, <2>1, WaitingKept
  <2>3. \A x \in Frames(F, f) : Inline(G, x) <=> Inline(F, x)
    BY <1>12 DEF Frames
  <2>4. Spine(G, f, D)
    BY <1>4, <1>5, <1>9, <2>3, SpineKept
  <2> QED
    BY <2>2, <2>4
<1>17. Mine(w)'
  <2>1. G[f] = F[f] /\ G[f].up = p /\ G[f].ctx = "used" /\ Open(G, f)
    BY <1>2, <1>4, <1>5, <1>7, <1>10, <1>11
  <2>2. Returning(G, f, <<>>, D)
    <3>1. CASE IsSecond(F, f)
      <4>1. IsSecond(G, f)
        BY <1>2, <1>4, <1>12, <1>13, <2>1, <3>1 DEF IsSecond
      <4> QED
        BY <1>13, <2>1, <4>1 DEF Returning
    <3>2. CASE IsFirst(F, f) /\ D = <<>>
      <4>1. IsFirst(G, f)
        BY <1>2, <1>4, <1>12, <1>13, <2>1, <3>2 DEF IsFirst
      <4>2. ~ Inline(F, F[p].f2)
        BY <1>2, <1>5, <3>2, SiblingWaits
      <4>3. F[p].f2 \in Fiber
        BY <1>7, FiberFacts, Zenon DEF ForkShape
      <4>4. ~ Inline(G, G[p].f2)
        BY <1>12, <1>13, <4>2, <4>3
      <4> QED
        BY <1>13, <2>1, <3>2, <4>1, <4>4 DEF Returning
    <3> QED
      BY <1>2, <3>1, <3>2
  <2>3. WorkerShape(G, "returned", f, Nowhere, currentFiber[w], <<>>, D)
    BY <1>16, <2>2 DEF WorkerShape, BufferShape
  <2>4. Spine(G, Top(<<>>, f), Pending(<<>>, D))
    BY <1>16, TopOfBuffers
  <2>5. WorkerFine(G, "returned", f, Nowhere, currentFiber[w], <<>>, D)
    BY <2>3, <2>4 DEF WorkerFine
  <2> QED
    BY <1>2, <1>3, <1>5, <1>14, <2>5 DEF Mine
<1>18. \A v \in Worker : Mine(v)'
  <2>1. ASSUME NEW v \in Worker \ {w}
        PROVE  Mine(v)'
    <3>1. ~ Holds(v, p)
      BY <1>2, <1>5, <1>7, ParentNotHeld
    <3>2. \A x \in Fiber : Holds(v, x) => fib'[x] = fib[x]
      BY <1>2, <1>3, <1>10, <3>1
    <3>3. \A x \in Plain : Open(fib, x) /\ x # NoFiber => (Inline(fib', x) <=> Inline(fib, x))
      BY <1>2, <1>3, <1>12, FiberFacts
    <3>4. FibersOK(fib', made', done') /\ Stable(fib, fib') /\ SameParents(fib, fib', p)
      BY <1>2, <1>3, <1>9
    <3>5. cur[v] \in Plain /\ Open(fib, cur[v]) /\ Inline(fib, cur[v]) => fib[cur[v]].up # p
      BY <1>2, <1>5, <1>6, OneInline
    <3>6. NoFiber \notin Frames(fib, Top(buffer[v], cur[v]))
      BY FiberFacts DEF Frames
    <3> QED
      BY <1>14, <3>2, <3>3, <3>4, <3>5, <3>6, OtherFine
  <2> QED
    BY <1>17, <2>1
<1>19. HeldOnce'
  BY <1>1, HeldSame
<1>20. Joining'
  <2>1. ASSUME NEW o \in Plain, BothInline(fib', o)
        PROVE  /\ BothInline(fib, o) /\ fib'[o].f1 = fib[o].f1 /\ fib'[o].f2 = fib[o].f2
               /\ fib'[fib[o].f1].ctx = fib[fib[o].f1].ctx
    <3>1. PICK a, b : a = G[o].f1 /\ b = G[o].f2
      OBVIOUS
    <3>2. G[o].ctx = "return" /\ Inline(G, b) /\ Open(G, a) /\ Open(G, b)
      BY <1>3, <2>1, <3>1 DEF BothInline
    <3>3. ForkShape(G, o)
      BY <1>9, <3>2 DEF FibersOK, PlainShape, Shaped
    <3>4. a \in Fiber /\ b \in Fiber /\ o \in Fiber
      BY <3>1, <3>3, FiberFacts DEF ForkShape
    <3>5. F[o].f1 = a /\ F[o].f2 = b /\ F[o].ctx = "return" /\ G[a].ctx = F[a].ctx
      BY <1>10, <1>13, <3>1, <3>2, <3>4
    <3>6. Open(F, a) /\ Open(F, b) /\ Inline(F, b)
      BY <1>11, <1>12, <3>2, <3>4
    <3>7. BothInline(F, o)
      BY <3>5, <3>6 DEF BothInline
    <3> QED
      BY <1>2, <1>3, <3>1, <3>5, <3>7
  <2> QED
    BY <1>14, <2>1, JoiningKept
<1> QED
  BY <1>2, <1>3, <1>9, <1>15, <1>18, <1>19, <1>20 DEF ForkJoinInv


LEMMA SavedAgain ==
  ASSUME NEW F \in [Fiber -> FiberType], NEW p \in Fiber, F[p].ctx = "return"
  PROVE  [F EXCEPT ![p] = [Saved(F[p]) EXCEPT !.status = "finish"]] = Leaving(F, p)
<1>1. PICK r : r = F[p]
  OBVIOUS
<1>2. r \in FiberType /\ r.ctx = "return"
  BY <1>1
<1>3. [r EXCEPT !.ctx = "return"] = r
  BY <1>2 DEF FiberType
<1>4. Saved(F[p]) = F[p]
  BY <1>1, <1>3 DEF Saved
<1> QED
  BY <1>4 DEF Leaving

LEMMA EndBodyKeeps ==
  ASSUME ForkJoinInv, NEW w \in Worker, EndBody(w)
  PROVE  ForkJoinInv'
<1>1. FibersOK(fib, made, done) /\ VarTypes /\ HeldOnce /\ Joining /\ \A v \in Worker : Mine(v)
  BY DEF ForkJoinInv
<1>2. PICK F, f, p, D : F = fib /\ f = cur[w] /\ p = F[f].up /\ D = deque[w]
  OBVIOUS
<1>3. /\ wpc[w] = "run" /\ at[w].f = f /\ f \in Plain /\ f \in Fiber /\ Open(F, f)
      /\ F[f].ctx = "used" /\ buffer[w] = <<>> /\ Waiting(F, D) /\ Spine(F, f, D)
  <2>1. wpc[w] = "run" /\ at[w].at = "body"
    BY DEF EndBody, Running
  <2>2. /\ RunningShape(F, f, at[w], currentFiber[w])
        /\ buffer[w] = <<>> /\ Waiting(F, D) /\ Spine(F, f, D)
    BY <1>2, <2>1, RunningFacts
  <2>3. at[w].f = f
    BY <2>1, <2>2 DEF RunningShape
  <2> QED
    BY <2>1, <2>2, <2>3, FiberFacts DEF RunningShape
<1>4. /\ made' = made /\ done' = done /\ cur' = cur /\ currentFiber' = currentFiber
      /\ buffer' = buffer /\ deque' = deque
  BY DEF EndBody
<1>5. ASSUME F[f].stack = "own", fib' = fib, ToScheduler(w)
      PROVE  ForkJoinInv'
  <2>1. wpc' = [wpc EXCEPT ![w] = "returned"] /\ at' = [at EXCEPT ![w] = Nowhere]
    BY <1>5 DEF ToScheduler
  <2>2. /\ wpc'[w] = "returned" /\ at'[w] = Nowhere
        /\ \A v \in Worker \ {w} : wpc'[v] = wpc[v] /\ at'[v] = at[v]
    BY <1>1, <2>1 DEF VarTypes
  <2>3. VarTypes'
    BY <1>1, <1>4, <2>1 DEF VarTypes, Pcs, Nowhere
  <2>4. Mine(w)'
    <3>1. Returning(F, f, <<>>, D)
      BY <1>3, <1>5 DEF Returning, Inline
    <3>2. WorkerShape(F, "returned", f, Nowhere, currentFiber[w], <<>>, D)
      BY <1>3, <3>1 DEF WorkerShape, BufferShape
    <3>3. Spine(F, Top(<<>>, f), Pending(<<>>, D))
      BY <1>3, TopOfBuffers
    <3>4. WorkerFine(F, "returned", f, Nowhere, currentFiber[w], <<>>, D)
      BY <3>2, <3>3 DEF WorkerFine
    <3> QED
      BY <1>2, <1>3, <1>4, <1>5, <2>2, <3>4 DEF Mine
  <2>5. \A v \in Worker : Mine(v)'
    <3>1. ASSUME NEW v \in Worker \ {w}
          PROVE  Mine(v)'
      BY <1>1, <1>4, <1>5, <2>2, OtherSame
    <3> QED
      BY <2>4, <3>1
  <2>6. HeldOnce'
    BY <1>1, <1>4, HeldSame
  <2>7. Joining'
    BY <1>3, <1>4, <1>5, <2>2, JoiningKept
  <2> QED
    BY <1>1, <1>4, <1>5, <2>3, <2>5, <2>6, <2>7 DEF ForkJoinInv
<1>6. ASSUME F[f].stack = "notown", f = F[p].f1, fib' = fib, wpc' = wpc,
             at' = [at EXCEPT ![w] = [at |-> "take", f |-> p]]
      PROVE  ForkJoinInv'
  <2>1. /\ at'[w] = [at |-> "take", f |-> p]
        /\ \A v \in Worker \ {w} : at'[v] = at[v]
    BY <1>1, <1>6 DEF VarTypes
  <2>2. Inline(F, f) /\ IsFirst(F, f) /\ p \in Fiber
    BY <1>1, <1>2, <1>3, <1>6, InlineHasParent, Zenon DEF IsFirst, Inline
  <2>3. VarTypes'
    <3>1. [at |-> "take", f |-> p] \in [at : {"nowhere", "body", "take"}, f : Fiber \cup {NoFiber}]
      BY <2>2
    <3> QED
      BY <1>1, <1>4, <1>6, <3>1 DEF VarTypes
  <2>4. Mine(w)'
    <3>1. ~ Inline(F, F[p].f2)
      BY <1>2, <1>3, <2>2, SiblingWaits
    <3>2. RunningShape(F, f, [at |-> "take", f |-> p], currentFiber[w])
      BY <1>2, <1>3, <2>2, <3>1 DEF RunningShape
    <3>3. WorkerShape(F, "run", f, [at |-> "take", f |-> p], currentFiber[w], <<>>, D)
      BY <1>3, <3>2 DEF WorkerShape, BufferShape
    <3>4. Spine(F, Top(<<>>, f), Pending(<<>>, D))
      BY <1>3, TopOfBuffers
    <3>5. WorkerFine(F, "run", f, [at |-> "take", f |-> p], currentFiber[w], <<>>, D)
      BY <3>3, <3>4 DEF WorkerFine
    <3> QED
      BY <1>2, <1>3, <1>4, <1>6, <2>1, <3>5, Zenon DEF Mine
  <2>5. \A v \in Worker : Mine(v)'
    <3>1. ASSUME NEW v \in Worker \ {w}
          PROVE  Mine(v)'
      BY <1>1, <1>4, <1>6, <2>1, OtherSame
    <3> QED
      BY <2>4, <3>1
  <2>6. HeldOnce'
    BY <1>1, <1>4, HeldSame
  <2>7. Joining'
    BY <1>3, <1>4, <1>6, JoiningKept
  <2> QED
    BY <1>1, <1>4, <1>6, <2>3, <2>5, <2>6, <2>7 DEF ForkJoinInv
<1>7. ASSUME F[f].stack = "notown", f = F[p].f2, ToScheduler(w),
             fib' = [fib EXCEPT ![p] = [Saved(@) EXCEPT !.status = "finish"]]
      PROVE  ForkJoinInv'
  <2>1. wpc' = [wpc EXCEPT ![w] = "returned"] /\ at' = [at EXCEPT ![w] = Nowhere]
    BY <1>7 DEF ToScheduler
  <2>2. IsSecond(F, f)
    BY <1>2, <1>7, Zenon DEF IsSecond, Inline
  <2>3. f # Body
    BY <1>1, <1>2, <1>3, <2>2, BodyOutermost DEF IsSecond
  <2>4. p \in Fiber /\ F[p].ctx = "return"
    BY <1>1, <1>2, <1>3, <2>3, ParentFacts, FiberFacts
  <2>5. fib' = [F EXCEPT ![p] = [Saved(F[p]) EXCEPT !.status = "finish"]]
    BY <1>2, <1>7, Zenon
  <2>6. fib' = Leaving(fib, p)
    BY <1>1, <1>2, <2>4, <2>5, SavedAgain DEF FibersOK
  <2> QED
    BY <1>2, <1>3, <1>4, <2>1, <2>2, <2>6, ParentLeftKeeps
<1>8. \/ F[f].stack = "own" /\ fib' = fib /\ ToScheduler(w)
      \/ /\ F[f].stack = "notown" /\ f = F[p].f1 /\ fib' = fib /\ wpc' = wpc
         /\ at' = [at EXCEPT ![w] = [at |-> "take", f |-> p]]
      \/ /\ F[f].stack = "notown" /\ f = F[p].f2 /\ ToScheduler(w)
         /\ fib' = [fib EXCEPT ![p] = [Saved(@) EXCEPT !.status = "finish"]]
  BY <1>2, <1>3 DEF EndBody
<1> QED
  BY <1>5, <1>6, <1>7, <1>8

(* fork2 leaves its two children in the buffer. *)
LEMMA ForkKeeps ==
  ASSUME ForkJoinInv, NEW w \in Worker, Fork(w)
  PROVE  ForkJoinInv'
<1>1. FibersOK(fib, made, done) /\ VarTypes /\ HeldOnce /\ Joining /\ \A v \in Worker : Mine(v)
  BY DEF ForkJoinInv
<1>2. PICK F, m, d, p, g, h, D, q :
        /\ F = fib /\ m = made /\ d = done /\ p = cur[w] /\ g = m /\ h = m + 1
        /\ D = deque[w] /\ q = NoFiber
  OBVIOUS
<1>3. PICK G, B : G = fib' /\ B = <<h, g>>
  OBVIOUS
<1>4. /\ wpc[w] = "run" /\ currentFiber[w] = p /\ p \in Plain /\ p \in Fiber /\ Open(F, p)
      /\ F[p].ctx = "used" /\ buffer[w] = <<>> /\ Waiting(F, D) /\ Spine(F, p, D)
  <2>1. wpc[w] = "run" /\ at[w].at = "body"
    BY DEF Fork, Running
  <2>2. /\ RunningShape(F, p, at[w], currentFiber[w])
        /\ buffer[w] = <<>> /\ Waiting(F, D) /\ Spine(F, p, D)
    BY <1>2, <2>1, RunningFacts
  <2>3. currentFiber[w] = p
    BY <2>1, <2>2 DEF RunningShape
  <2> QED
    BY <2>1, <2>2, <2>3, FiberFacts DEF RunningShape
<1>5. /\ h < Terminal /\ made' = made + 2
      /\ buffer' = [buffer EXCEPT ![w] = @ \o <<made + 1, made>>]
      /\ wpc' = [wpc EXCEPT ![w] = "returned"] /\ at' = [at EXCEPT ![w] = Nowhere]
      /\ cur' = cur /\ currentFiber' = currentFiber /\ deque' = deque /\ done' = done
  BY <1>2 DEF Fork, ToScheduler
<1>6. G = Forking(F, p, g, h)
  BY <1>2, <1>3, <1>4 DEF Fork, Forking
<1>13. /\ FibersOK(F, m, d) /\ p \in Plain /\ Open(F, p) /\ F[p].ctx = "used"
       /\ g = m /\ h = m + 1 /\ h < Terminal /\ G = Forking(F, p, g, h)
  BY <1>1, <1>2, <1>4, <1>5, <1>6
<1>7. /\ FibersOK(G, m + 2, d) /\ Stable(F, G) /\ SameParents(F, G, q)
      /\ g \in Plain /\ h \in Plain /\ p < g /\ g < h /\ F[g] = Dead /\ F[h] = Dead
      /\ G[p].ctx = "return" /\ G[p].status = "pause" /\ G[p].incounter = 2
      /\ G[p].f1 = g /\ G[p].f2 = h /\ G[p].up = F[p].up
      /\ G[g].ctx = "begin" /\ IsFirst(G, g) /\ G[g].up = p
      /\ Untouched(G, h) /\ G[h].up = p
  BY <1>13, Forked
<1>8. \A x \in Fiber \ {p, g, h} : G[x] = F[x]
  BY <1>13, Forked
<1>9. \A x \in Fiber : Open(G, x) <=> Open(F, x) \/ x \in {g, h}
  BY <1>13, Forked
<1>10. \A x \in Fiber : Inline(G, x) <=> Inline(F, x) \/ x = g
  BY <1>13, Forked
<1>11. ~ Open(F, g) /\ ~ Open(F, h) /\ g \in Fiber /\ h \in Fiber /\ g # h
  <2>1. g \in Int /\ h \in Int /\ g \in Fiber /\ h \in Fiber
    BY <1>7, FiberFacts
  <2> QED
    BY <1>7, <2>1, DeadFacts DEF Open
<1>12. \A x \in Fiber : Open(F, x) => (Inline(G, x) <=> Inline(F, x))
  BY <1>10, <1>11
<1>14. /\ wpc'[w] = "returned" /\ at'[w] = Nowhere /\ buffer'[w] = B
       /\ \A v \in Worker \ {w} : wpc'[v] = wpc[v] /\ at'[v] = at[v] /\ buffer'[v] = buffer[v]
  <2>1. buffer'[w] = buffer[w] \o <<made + 1, made>>
    BY <1>1, <1>5 DEF VarTypes
  <2>2. buffer'[w] = B
    BY <1>2, <1>3, <1>4, <2>1
  <2> QED
    BY <1>1, <1>5, <2>2 DEF VarTypes
<1>15. VarTypes'
  <2>1. Nowhere \in [at : {"nowhere", "body", "take"}, f : Fiber \cup {NoFiber}]
    BY DEF Nowhere
  <2>2. B \in Seq(Fiber)
    BY <1>3, <1>11
  <2>3. buffer' = [buffer EXCEPT ![w] = B]
    BY <1>1, <1>5, <1>14 DEF VarTypes
  <2> QED
    BY <1>1, <1>5, <2>1, <2>2, <2>3 DEF VarTypes, Pcs
<1>16. Waiting(G, D) /\ Spine(G, p, D)
  <2>1. \A j \in 1..Len(D) : G[D[j]] = F[D[j]]
    <3> SUFFICES ASSUME NEW j \in 1..Len(D) PROVE G[D[j]] = F[D[j]]
      OBVIOUS
    <3>1. PICK x : x = D[j]
      OBVIOUS
    <3>2. x \in Plain /\ F[x].ctx = "begin" /\ Open(F, x)
      BY <1>4, <3>1 DEF Waiting, Untouched
    <3>3. x \notin {p, g, h} /\ x \in Fiber
      BY <1>4, <1>11, <3>2, FiberFacts
    <3> QED
      BY <1>8, <3>1, <3>3
  <2>2. Waiting(G, D)
    BY <1>4, <1>7, <2>1, WaitingKept
  <2>3. \A x \in Frames(F, p) : Inline(G, x) <=> Inline(F, x)
    BY <1>12, <1>13, FramesOpen, FiberFacts
  <2>4. Spine(G, p, D)
    BY <1>4, <1>7, <1>13, <2>3, SpineKept
  <2> QED
    BY <2>2, <2>4
<1>17. Mine(w)'
  <2>1. Open(G, g) /\ Open(G, p) /\ h = G[p].f2 /\ g = G[G[h].up].f1
    BY <1>4, <1>7, <1>9, <1>11
  <2>2. Waiting(G, Append(D, h)) /\ Spine(G, g, Append(D, h))
    BY <1>7, <1>16, <2>1, SpineOfFork
  <2>3. BufferShape(G, B)
    BY <1>3, <1>7, <2>1 DEF BufferShape
  <2>4. Returning(G, p, B, D)
    BY <1>3, <1>4, <1>7, <2>1 DEF Returning
  <2>5. WorkerShape(G, "returned", p, Nowhere, currentFiber[w], B, D)
    BY <1>16, <2>3, <2>4 DEF WorkerShape
  <2>6. Top(B, p) = g /\ Pending(B, D) = Append(D, h)
    <3>1. Len(B) = 2 /\ B[1] = h /\ B[2] = g /\ B # <<>>
      BY <1>3, PairFacts
    <3> QED
      BY <3>1 DEF Top, Pending
  <2>7. WorkerFine(G, "returned", p, Nowhere, currentFiber[w], B, D)
    BY <2>2, <2>5, <2>6 DEF WorkerFine
  <2> QED
    BY <1>2, <1>3, <1>5, <1>14, <2>7 DEF Mine
<1>18. \A v \in Worker : \A x \in Fiber : Holds(v, x) => x # g /\ x # h
  <2> SUFFICES ASSUME NEW v \in Worker, NEW x \in Fiber, Holds(v, x) PROVE x # g /\ x # h
    OBVIOUS
  <2>1. x = Terminal \/ Open(F, x)
    BY <1>2, HeldAlive
  <2> QED
    BY <1>7, <1>11, <2>1, FiberFacts
<1>19. \A v \in Worker : Mine(v)'
  <2>1. ASSUME NEW v \in Worker \ {w}
        PROVE  Mine(v)'
    <3>1. ~ Holds(v, p)
      BY <1>1, <1>2, <1>4, CurIsHeld, HeldByOne
    <3>2. \A x \in Fiber : Holds(v, x) => fib'[x] = fib[x]
      BY <1>2, <1>3, <1>8, <1>18, <3>1
    <3>3. \A x \in Plain : Open(fib, x) => (Inline(fib', x) <=> Inline(fib, x))
      BY <1>2, <1>3, <1>12, FiberFacts
    <3>4. FibersOK(fib', made', done') /\ Stable(fib, fib') /\ SameParents(fib, fib', NoFiber)
      BY <1>2, <1>3, <1>5, <1>7
    <3> QED
      BY <1>5, <1>14, <3>2, <3>3, <3>4, OtherKept
  <2> QED
    BY <1>17, <2>1
<1>20. HeldOnce'
  <2>1. ASSUME NEW x \in Fiber, NEW k \in Place, HeldIn(x, w, k)'
        PROVE  \/ k = "cur" /\ HeldIn(x, w, "cur")
               \/ k = "deque" /\ HeldIn(x, w, "deque")
               \/ k = "buffer" /\ (x = g \/ x = h)
    <3>1. CASE k = "cur"
      BY <1>5, <2>1, <3>1 DEF HeldIn
    <3>2. CASE k = "deque"
      BY <1>5, <2>1, <3>2 DEF HeldIn
    <3>3. CASE k = "buffer"
      <4>1. PICK i \in 1..Len(B) : B[i] = x
        BY <1>14, <2>1, <3>3 DEF HeldIn
      <4>2. B[i] = h \/ B[i] = g
        BY <1>3, <4>1, PairFacts
      <4> QED
        BY <3>3, <4>1, <4>2
    <3> QED
      BY <3>1, <3>2, <3>3 DEF Place
  <2>2. \A x \in Fiber : \A k \in Place : HeldIn(x, w, k)' =>
          Holds(w, x) \/ \A v \in Worker \ {w} : ~ Holds(v, x)
    BY <1>18, <2>1 DEF Holds
  <2>3. \A x \in Fiber : ~ (HeldIn(x, w, "cur") /\ HeldIn(x, w, "deque"))
    BY <1>1 DEF HeldOnce, Place
  <2>4. \A x \in Fiber : HeldIn(x, w, "cur") \/ HeldIn(x, w, "deque") => x # g /\ x # h
    BY <1>18 DEF Holds, Place
  <2>5. \A x \in Fiber : \A k, l \in Place : HeldIn(x, w, k)' /\ HeldIn(x, w, l)' => k = l
    BY <2>1, <2>3, <2>4
  <2>6. \A v \in Worker \ {w} : cur'[v] = cur[v] /\ buffer'[v] = buffer[v] /\ deque'[v] = deque[v]
    BY <1>5, <1>14
  <2> QED
    BY <1>1, <2>2, <2>5, <2>6, HeldOnceKept
<1>21. Joining'
  <2>1. ASSUME NEW o \in Plain, BothInline(fib', o)
        PROVE  /\ BothInline(fib, o) /\ fib'[o].f1 = fib[o].f1 /\ fib'[o].f2 = fib[o].f2
               /\ fib'[fib[o].f1].ctx = fib[fib[o].f1].ctx
    <3>1. PICK a, b : a = G[o].f1 /\ b = G[o].f2
      OBVIOUS
    <3>2. G[o].ctx = "return" /\ Inline(G, b) /\ Open(G, a) /\ Open(G, b)
      BY <1>3, <2>1, <3>1 DEF BothInline
    <3>3. ~ Inline(G, h) /\ G[h].ctx = "begin"
      BY <1>7 DEF Untouched, Inline
    <3>4. o \notin {p, g, h} /\ o \in Fiber
      BY <1>7, <3>1, <3>2, <3>3, FiberFacts
    <3>5. G[o] = F[o]
      BY <1>8, <3>4
    <3>6. ForkShape(F, o) /\ a = F[o].f1 /\ b = F[o].f2
      BY <1>13, <3>1, <3>2, <3>5 DEF FibersOK, PlainShape, Shaped
    <3>7. a \in Plain /\ a \in Fiber /\ b \in Fiber /\ F[a].alive /\ F[b].alive
      BY <3>6, FiberFacts DEF ForkShape
    <3>8. a \notin {g, h} /\ b \notin {g, h}
      BY <1>7, <3>7, DeadFacts
    <3>9. Open(F, a) /\ Open(F, b) /\ Inline(F, b)
      BY <1>9, <1>10, <3>2, <3>7, <3>8
    <3>10. BothInline(F, o)
      BY <3>2, <3>5, <3>6, <3>9 DEF BothInline
    <3>11. a # p
      <4>1. PICK u \in Worker : wpc[u] = "returned" /\ cur[u] = a
        BY <1>1, <1>2, <3>6, <3>10 DEF Joining
      <4>2. Holds(u, a) /\ Holds(w, p)
        BY <1>2, <4>1, CurIsHeld
      <4>3. u # w
        BY <1>4, <4>1
      <4> QED
        BY <1>1, <3>7, <4>2, <4>3, HeldByOne
    <3>12. G[a] = F[a]
      BY <1>8, <3>7, <3>8, <3>11
    <3> QED
      BY <1>2, <1>3, <3>5, <3>6, <3>10, <3>12
  <2>2. ~ (wpc[w] = "returned")
    BY <1>4
  <2>3. \A v \in Worker \ {w} : wpc'[v] = wpc[v] /\ cur'[v] = cur[v] /\ buffer'[v] = buffer[v]
    BY <1>5, <1>14
  <2> QED
    BY <2>1, <2>2, <2>3, JoiningKept
<1> QED
  BY <1>2, <1>3, <1>5, <1>7, <1>15, <1>19, <1>20, <1>21 DEF ForkJoinInv

(* The second child, taken from the deque, goes to the buffer. *)
LEMMA SecondTakenKeeps ==
  ASSUME ForkJoinInv, NEW w \in Worker, wpc[w] = "run",
         NEW f \in Plain, f = cur[w], NEW p, p = fib[f].up, IsFirst(fib, f),
         NEW D, D = deque[w], D # <<>>, NEW h, h = fib[p].f2,
         fib' = Taking(fib, h), made' = made, done' = done,
         wpc' = [wpc EXCEPT ![w] = "returned"], at' = [at EXCEPT ![w] = Nowhere],
         buffer' = [buffer EXCEPT ![w] = Append(@, Last(D))],
         deque' = [deque EXCEPT ![w] = Front(@)],
         cur' = cur, currentFiber' = currentFiber
  PROVE  ForkJoinInv'
<1>1. FibersOK(fib, made, done) /\ VarTypes /\ HeldOnce /\ Joining /\ \A v \in Worker : Mine(v)
  BY DEF ForkJoinInv
<1>2. PICK F, m, d : F = fib /\ m = made /\ d = done
  OBVIOUS
<1>3. PICK G, B, Q : G = fib' /\ B = <<h>> /\ Q = Front(D)
  OBVIOUS
<1>4. FibersOK(F, m, d) /\ f \in Fiber
  BY <1>1, <1>2, FiberFacts
<1>5. /\ Open(F, f) /\ F[f].ctx = "used" /\ buffer[w] = <<>>
      /\ Waiting(F, D) /\ Spine(F, f, D)
  BY <1>2, RunningFacts DEF RunningShape
<1>6. Inline(F, f) /\ f # Body /\ IsFirst(F, f) /\ p = F[f].up /\ f = F[p].f1 /\ h = F[p].f2
  BY <1>2, <1>4, BodyOutermost DEF IsFirst
<1>7. p \in Plain /\ Open(F, p) /\ F[p].ctx = "return" /\ ForkShape(F, p)
  <2>1. FibersOK(F, m, d) /\ f \in Plain /\ f # Body /\ Open(F, f) /\ p = F[f].up
    BY <1>4, <1>5, <1>6, Zenon
  <2> QED
    BY <2>1, ParentFacts
<1>8. /\ Last(D) = h /\ Waiting(F, Q) /\ Spine(F, p, Q)
      /\ \A j \in 1..Len(Q) : D[j] # h
  <2>1. /\ FibersOK(F, m, d) /\ f \in Plain /\ Open(F, f) /\ IsFirst(F, f) /\ p = F[f].up
        /\ Waiting(F, D) /\ Spine(F, f, D) /\ D # <<>>
    BY <1>4, <1>5, <1>6, Zenon
  <2>2. /\ Last(D) = F[p].f2 /\ Waiting(F, Front(D)) /\ Spine(F, p, Front(D))
    BY <2>1, SpineTake
  <2>3. \A j \in 1..Len(Front(D)) : D[j] # Last(D)
    BY <2>1, SpineTake
  <2> QED
    BY <1>3, <1>6, <2>2, <2>3, Zenon
<1>9. /\ Q \in Seq(Fiber) /\ Len(Q) \in Nat /\ Len(Q) + 1 = Len(D)
      /\ \A j \in 1..Len(Q) : Q[j] = D[j] /\ j \in 1..Len(D) /\ j < Len(D)
  BY <1>3, <1>5, FrontFacts DEF Waiting
<1>10. Untouched(F, h) /\ \E i \in 1..Len(D) : D[i] = h
  <2>1. Len(D) \in 1..Len(D) /\ D[Len(D)] = h
    BY <1>8, <1>9 DEF Last
  <2> QED
    BY <1>5, <2>1 DEF Waiting
<1>11. F[h].up = p /\ h \in Plain /\ h \in Fiber /\ p < h /\ h # f /\ h # p /\ p \in Fiber
  <2>1. F[h].up = p /\ p < f /\ f < h
    BY <1>6, <1>7, Zenon DEF ForkShape
  <2>2. h \in Plain /\ f \in Int /\ h \in Int /\ p \in Int /\ h \in Fiber /\ p \in Fiber
    BY <1>7, <1>10, FiberFacts, Zenon DEF Untouched
  <2> QED
    BY <2>1, <2>2
<1>13. FibersOK(F, m, d) /\ Untouched(F, h) /\ G = Taking(F, h)
  BY <1>2, <1>3, <1>4, <1>10
<1>12. /\ G[h].f1 = F[h].f1 /\ G[h].f2 = F[h].f2 /\ G[h].ctx = F[h].ctx
       /\ G[h].up = F[h].up
  <2>1. PICK t, z : t = F[h] /\ z = [t EXCEPT !.stack = "notown"]
    OBVIOUS
  <2>2. F \in [Fiber -> FiberType] /\ t \in FiberType
    BY <1>4, <1>11, <2>1, Zenon DEF FibersOK
  <2>3. G[h] = z
    BY <1>11, <1>13, <2>1, <2>2, Zenon DEF Taking
  <2>4. z.f1 = t.f1 /\ z.f2 = t.f2 /\ z.ctx = t.ctx /\ z.up = t.up
    BY <2>1, <2>2, Zenon DEF FiberType
  <2> QED
    BY <2>1, <2>3, <2>4, Zenon
<1>14. /\ FibersOK(G, m, d) /\ Stable(F, G) /\ SameParents(F, G, p)
       /\ G[h].ctx = "begin" /\ G[h].up = p
  <2>1. FibersOK(G, m, d) /\ Stable(F, G)
    BY <1>13, SecondTaken
  <2>2. SameParents(F, G, F[h].up)
    BY <1>13, SecondTaken
  <2> QED
    BY <1>10, <1>11, <1>12, <2>1, <2>2, Zenon DEF Untouched
<1>15. \A x \in Fiber \ {h} : G[x] = F[x]
  BY <1>13, SecondTaken
<1>16. \A x \in Fiber : Open(G, x) <=> Open(F, x)
  BY <1>13, SecondTaken
<1>17. \A x \in Fiber : Inline(G, x) <=> Inline(F, x) \/ x = h
  BY <1>13, SecondTaken
<1>18. \A x \in Fiber : G[x].f1 = F[x].f1 /\ G[x].f2 = F[x].f2 /\ G[x].ctx = F[x].ctx
  BY <1>12, <1>15, Zenon
<1>19. /\ wpc'[w] = "returned" /\ at'[w] = Nowhere /\ buffer'[w] = B /\ deque'[w] = Q
       /\ \A v \in Worker \ {w} : /\ wpc'[v] = wpc[v] /\ at'[v] = at[v]
                                  /\ buffer'[v] = buffer[v] /\ deque'[v] = deque[v]
  <2>1. buffer'[w] = Append(buffer[w], h) /\ deque'[w] = Front(D)
    BY <1>1, <1>8 DEF VarTypes
  <2>2. buffer'[w] = B
    BY <1>3, <1>5, <2>1
  <2> QED
    BY <1>1, <1>3, <2>1, <2>2 DEF VarTypes
<1>20. VarTypes'
  <2>1. Nowhere \in [at : {"nowhere", "body", "take"}, f : Fiber \cup {NoFiber}]
    BY DEF Nowhere
  <2>2. B \in Seq(Fiber)
    BY <1>3, <1>11
  <2>3. buffer' = [buffer EXCEPT ![w] = B] /\ deque' = [deque EXCEPT ![w] = Q]
    BY <1>1, <1>19 DEF VarTypes
  <2> QED
    BY <1>1, <1>9, <2>1, <2>2, <2>3 DEF VarTypes, Pcs
<1>21. Waiting(G, Q) /\ Spine(G, h, Q)
  <2>1. \A j \in 1..Len(Q) : G[Q[j]] = F[Q[j]]
    <3> SUFFICES ASSUME NEW j \in 1..Len(Q) PROVE G[Q[j]] = F[Q[j]]
      OBVIOUS
    <3>1. PICK x : x = Q[j]
      OBVIOUS
    <3>2. x \in Fiber /\ x # h
      BY <1>8, <1>9, <3>1
    <3> QED
      BY <1>15, <3>1, <3>2
  <2>2. Waiting(G, Q)
    BY <1>8, <1>14, <2>1, WaitingKept
  <2>3. \A x \in Frames(F, p) : Inline(G, x) <=> Inline(F, x)
    <3> SUFFICES ASSUME NEW x \in Frames(F, p) PROVE Inline(G, x) <=> Inline(F, x)
      OBVIOUS
    <3>1. x \in Plain /\ x <= p
      BY <1>4, <1>7, FramesOpen
    <3>2. x \in Int /\ p \in Int /\ h \in Int /\ x \in Fiber
      BY <1>11, <3>1, FiberFacts
    <3>3. x # h
      BY <1>11, <3>1, <3>2
    <3> QED
      BY <1>17, <3>2, <3>3
  <2>4. Spine(G, p, Q)
    BY <1>4, <1>7, <1>8, <1>14, <2>3, SpineKept
  <2>5. Open(G, h) /\ IsSecond(G, h)
    BY <1>6, <1>10, <1>11, <1>14, <1>16, <1>17, <1>18, Zenon DEF IsSecond, Untouched
  <2>6. Spine(G, h, Q)
    BY <1>11, <1>14, <2>2, <2>4, <2>5, SpineOfSecond, Zenon
  <2> QED
    BY <2>2, <2>6
<1>22. Mine(w)'
  <2>1. G[f] = F[f] /\ G[f].up = p /\ G[f].ctx = "used" /\ Open(G, f) /\ Open(G, h)
    BY <1>4, <1>5, <1>6, <1>10, <1>11, <1>15, <1>16, Zenon DEF Untouched
  <2>2. G[p].f1 = f /\ G[p].f2 = h /\ Inline(G, f) /\ Inline(G, h)
    BY <1>4, <1>6, <1>11, <1>17, <1>18, Zenon
  <2>3. Runnable(G, h)
    BY <1>11, <1>14, <2>1, Zenon DEF Runnable
  <2>4. BufferShape(G, B)
    BY <1>3, <1>11, <2>3, Zenon DEF BufferShape
  <2>5. IsFirst(G, f)
    BY <2>1, <2>2 DEF IsFirst
  <2>6. Returning(G, f, B, Q)
    BY <1>3, <2>1, <2>2, <2>5, Zenon DEF Returning
  <2>7. WorkerShape(G, "returned", f, Nowhere, currentFiber[w], B, Q)
    BY <1>21, <2>4, <2>6 DEF WorkerShape
  <2>8. Top(B, f) = h /\ Pending(B, Q) = Q
    BY <1>3 DEF Top, Pending
  <2>9. WorkerFine(G, "returned", f, Nowhere, currentFiber[w], B, Q)
    BY <1>3, <1>21, <2>7, <2>8, Zenon DEF WorkerFine
  <2> QED
    BY <1>3, <1>19, <2>9 DEF Mine
<1>23. \A v \in Worker \ {w} : ~ Holds(v, h)
  <2>1. Holds(w, h)
    BY <1>10 DEF Holds, HeldIn, Place
  <2> QED
    BY <1>1, <1>11, <2>1, HeldByOne
<1>24. \A v \in Worker : Mine(v)'
  <2>1. ASSUME NEW v \in Worker \ {w}
        PROVE  Mine(v)'
    <3>1. \A x \in Fiber : Holds(v, x) => fib'[x] = fib[x]
      BY <1>2, <1>3, <1>15, <1>23
    <3>2. \A x \in Plain : Open(fib, x) /\ x # h => (Inline(fib', x) <=> Inline(fib, x))
      BY <1>2, <1>3, <1>17, FiberFacts
    <3>3. FibersOK(fib', made', done') /\ Stable(fib, fib') /\ SameParents(fib, fib', p)
      BY <1>2, <1>3, <1>14, Zenon
    <3>4. cur[v] \in Plain /\ Open(fib, cur[v]) /\ Inline(fib, cur[v]) => fib[cur[v]].up # p
      BY <1>2, <1>5, <1>6, OneInline, Zenon
    <3>5. ASSUME NEW t, t = Top(buffer[v], cur[v]), t \in Plain, h \in Frames(fib, t)
          PROVE  FALSE
      <4>1. Holds(v, t)
        <5>1. CASE buffer[v] = <<>>
          BY <3>5, <5>1, CurIsHeld DEF Top
        <5>2. CASE buffer[v] # <<>>
          <6>1. t = buffer[v][Len(buffer[v])] /\ buffer[v] \in Seq(Fiber)
            BY <1>1, <3>5, <5>2 DEF Top, VarTypes
          <6>2. Len(buffer[v]) \in 1..Len(buffer[v])
            BY <5>2, <6>1
          <6> QED
            BY <6>1, <6>2 DEF Holds, HeldIn, Place
        <5> QED
          BY <5>1, <5>2
      <4>2. t \in Fiber /\ Open(F, t) /\ t # h
        BY <1>2, <1>23, <3>5, <4>1, HeldAlive, FiberFacts
      <4>3. \A y \in Fiber : Inline(F, y) => F[y].up \in Fiber
        BY <1>4, InlineHasParent
      <4>4. PICK y \in Frames(F, t) : Inline(F, y) /\ F[y].up = h
        BY <1>2, <3>5, <4>2, <4>3, FramesAbove
      <4>5. y \in Plain /\ Open(F, y)
        BY <1>4, <3>5, <4>2, FramesOpen
      <4>6. y # Body
        BY <1>4, <4>4, <4>5, BodyOutermost, FiberFacts
      <4>7. F[h].ctx = "return"
        BY <1>4, <4>4, <4>5, <4>6, ParentFacts
      <4> QED
        BY <1>10, <4>7, Zenon DEF Untouched
    <3>6. Top(buffer[v], cur[v]) \in Plain => h \notin Frames(fib, Top(buffer[v], cur[v]))
      BY <3>5
    <3> QED
      BY <1>19, <3>1, <3>2, <3>3, <3>4, <3>6, OtherFine, Zenon
  <2> QED
    BY <1>22, <2>1
<1>25. HeldOnce'
  <2>1. ASSUME NEW x \in Fiber, NEW k \in Place, HeldIn(x, w, k)'
        PROVE  \/ k = "cur" /\ HeldIn(x, w, "cur")
               \/ k = "deque" /\ HeldIn(x, w, "deque") /\ x # h
               \/ k = "buffer" /\ x = h
    <3>1. CASE k = "cur"
      BY <2>1, <3>1 DEF HeldIn
    <3>2. CASE k = "deque"
      <4>1. PICK j \in 1..Len(Q) : Q[j] = x
        BY <1>19, <2>1, <3>2 DEF HeldIn
      <4> QED
        BY <1>8, <1>9, <3>2, <4>1 DEF HeldIn
    <3>3. CASE k = "buffer"
      <4>1. PICK i \in 1..Len(B) : B[i] = x
        BY <1>19, <2>1, <3>3 DEF HeldIn
      <4> QED
        BY <1>3, <3>3, <4>1
    <3> QED
      BY <3>1, <3>2, <3>3 DEF Place
  <2>2. HeldIn(h, w, "deque") /\ Holds(w, h)
    BY <1>10 DEF Holds, HeldIn, Place
  <2>3. \A x \in Fiber : \A k \in Place : HeldIn(x, w, k)' =>
          Holds(w, x) \/ \A v \in Worker \ {w} : ~ Holds(v, x)
    BY <2>1, <2>2 DEF Holds
  <2>4. \A x \in Fiber : ~ (HeldIn(x, w, "cur") /\ HeldIn(x, w, "deque"))
    BY <1>1 DEF HeldOnce, Place
  <2>5. ~ HeldIn(h, w, "cur")
    BY <1>11, <2>2, <2>4
  <2>6. \A x \in Fiber : \A k, l \in Place : HeldIn(x, w, k)' /\ HeldIn(x, w, l)' => k = l
    BY <2>1, <2>4, <2>5
  <2>7. \A v \in Worker \ {w} : cur'[v] = cur[v] /\ buffer'[v] = buffer[v] /\ deque'[v] = deque[v]
    BY <1>19
  <2> QED
    BY <1>1, <2>3, <2>6, <2>7, HeldOnceKept
<1>26. Joining'
  <2>1. ASSUME NEW o \in Plain, BothInline(fib', o)
        PROVE  /\ fib'[fib'[o].f1].ctx = "used"
               /\ \E u \in Worker : wpc'[u] = "returned" /\ cur'[u] = fib'[o].f1
                                    /\ buffer'[u] = <<fib'[o].f2>>
    <3>1. PICK a, b : a = G[o].f1 /\ b = G[o].f2
      OBVIOUS
    <3>2. G[o].ctx = "return" /\ Inline(G, b) /\ Open(G, a) /\ Open(G, b)
      BY <1>3, <2>1, <3>1, Zenon DEF BothInline
    <3>3. a = F[o].f1 /\ b = F[o].f2 /\ F[o].ctx = "return" /\ ForkShape(F, o)
      BY <1>4, <1>18, <3>1, <3>2, FiberFacts DEF FibersOK, PlainShape, Shaped
    <3>4. a \in Fiber /\ b \in Fiber /\ F[b].up = o
      BY <3>3, FiberFacts DEF ForkShape
    <3>5. CASE o = p
      <4>1. a = f /\ b = h
        BY <1>6, <3>3, <3>5, Zenon
      <4>2. G[a].ctx = "used"
        BY <1>4, <1>5, <1>18, <4>1
      <4>3. wpc'[w] = "returned" /\ cur'[w] = a /\ buffer'[w] = <<b>>
        BY <1>3, <1>19, <4>1
      <4> QED
        BY <1>3, <3>1, <4>2, <4>3, Zenon
    <3>6. CASE o # p
      <4>1. b # h
        BY <1>11, <3>4, <3>6
      <4>2. BothInline(F, o)
        BY <1>16, <1>17, <3>2, <3>3, <3>4, <4>1 DEF BothInline
      <4>3. F[a].ctx = "used"
        BY <1>1, <1>2, <3>3, <4>2 DEF Joining
      <4>4. PICK u \in Worker : wpc[u] = "returned" /\ cur[u] = a /\ buffer[u] = <<b>>
        BY <1>1, <1>2, <3>3, <4>2 DEF Joining
      <4>5. u # w
        BY <4>4
      <4>6. wpc'[u] = "returned" /\ cur'[u] = a /\ buffer'[u] = <<b>>
        BY <1>19, <4>4, <4>5
      <4>7. G[a].ctx = "used"
        BY <1>18, <3>4, <4>3
      <4> QED
        BY <1>3, <3>1, <4>6, <4>7, Zenon
    <3> QED
      BY <3>5, <3>6, Zenon
  <2> QED
    BY <2>1, Zenon DEF Joining
<1> QED
  BY <1>2, <1>3, <1>14, <1>20, <1>24, <1>25, <1>26, Zenon DEF ForkJoinInv

LEMMA TakeKeeps ==
  ASSUME ForkJoinInv, NEW w \in Worker, Take(w)
  PROVE  ForkJoinInv'
<1>1. FibersOK(fib, made, done)
  BY DEF ForkJoinInv
<1>2. PICK f, p, D, h : f = cur[w] /\ p = fib[f].up /\ D = deque[w] /\ h = fib[p].f2
  OBVIOUS
<1>3. wpc[w] = "run" /\ at[w].f = p /\ f \in Plain /\ IsFirst(fib, f) /\ Open(fib, f)
  <2>1. wpc[w] = "run" /\ at[w].at = "take"
    BY DEF Take, Running
  <2>2. RunningShape(fib, f, at[w], currentFiber[w])
    BY <1>2, <2>1, RunningFacts
  <2> QED
    BY <1>2, <2>1, <2>2 DEF RunningShape
<1>4. /\ made' = made /\ done' = done /\ cur' = cur /\ currentFiber' = currentFiber
      /\ wpc' = [wpc EXCEPT ![w] = "returned"] /\ at' = [at EXCEPT ![w] = Nowhere]
  BY DEF Take, ToScheduler
<1>5. \/ D = <<>> /\ fib' = Leaving(fib, p) /\ buffer' = buffer /\ deque' = deque
      \/ /\ D # <<>> /\ fib' = Taking(fib, h)
         /\ buffer' = [buffer EXCEPT ![w] = Append(@, Last(D))]
         /\ deque' = [deque EXCEPT ![w] = Front(@)]
  BY <1>2, <1>3, Zenon DEF Take, Leaving, Taking
<1>6. CASE D = <<>> /\ fib' = Leaving(fib, p) /\ buffer' = buffer /\ deque' = deque
  BY <1>2, <1>3, <1>4, <1>6, ParentLeftKeeps
<1>7. CASE /\ D # <<>> /\ fib' = Taking(fib, h)
           /\ buffer' = [buffer EXCEPT ![w] = Append(@, Last(D))]
           /\ deque' = [deque EXCEPT ![w] = Front(@)]
  BY <1>2, <1>3, <1>4, <1>7, SecondTakenKeeps
<1> QED
  BY <1>5, <1>6, <1>7

-----------------------------------------------------------------------------
(* Steals                                                                  *)

LEMMA SeqElements ==
  ASSUME NEW B \in Seq(Fiber), Len(B) = 2
  PROVE  B[1] \in Fiber
<1>1. 1 \in 1..Len(B)
  OBVIOUS
<1> QED
  BY <1>1

(* What a worker with something in its deque runs, or will run next. *)
LEMMA DequeOnFrames ==
  ASSUME ForkJoinInv, NEW v \in Worker, deque[v] # <<>>,
         NEW t, t = Top(buffer[v], cur[v]), NEW P, P = Pending(buffer[v], deque[v])
  PROVE  /\ t \in Plain /\ Open(fib, t) /\ Waiting(fib, P) /\ Spine(fib, t, P) /\ P # <<>>
         /\ Len(deque[v]) \in Nat /\ Len(deque[v]) <= Len(P)
         /\ \A i \in 1..Len(deque[v]) : P[i] = deque[v][i] /\ i \in 1..Len(P)
<1>1. FibersOK(fib, made, done) /\ VarTypes /\ Mine(v)
  BY DEF ForkJoinInv
<1>2. PICK F, m, d, c, a, r, B, D, pc :
        /\ F = fib /\ m = made /\ d = done /\ c = cur[v] /\ a = at[v] /\ r = currentFiber[v]
        /\ B = buffer[v] /\ D = deque[v] /\ pc = wpc[v]
  OBVIOUS
<1>3. /\ FibersOK(F, m, d) /\ WorkerFine(F, pc, c, a, r, B, D)
      /\ pc \in {"flush", "loop", "acquire", "run", "returned", "exited"}
      /\ B \in Seq(Fiber) /\ D \in Seq(Fiber) /\ D # <<>>
      /\ t = Top(B, c) /\ P = Pending(B, D)
  BY <1>1, <1>2 DEF Mine, VarTypes, Pcs
<1>4. /\ P # <<>> /\ Len(D) \in Nat /\ Len(D) <= Len(P)
      /\ \A i \in 1..Len(D) : P[i] = D[i] /\ i \in 1..Len(P)
  <2>1. CASE Len(B) = 2
    <3>1. PICK x : x = B[1] /\ x \in Fiber
      BY <1>3, <2>1, SeqElements
    <3>2. P = Append(D, x)
      BY <1>3, <2>1, <3>1 DEF Pending
    <3>3. PICK k \in Nat : k = Len(D)
      BY <1>3
    <3>4. Len(P) = k + 1 /\ P # <<>> /\ \A i \in 1..k : P[i] = D[i]
      BY <1>3, <3>1, <3>2, <3>3
    <3> QED
      BY <3>3, <3>4
  <2>2. CASE Len(B) # 2
    <3>1. P = D
      BY <1>3, <2>2 DEF Pending
    <3> QED
      BY <1>3, <3>1
  <2> QED
    BY <2>1, <2>2
<1>5. t \in Plain /\ Open(F, t) /\ Waiting(F, P) /\ Spine(F, t, P)
  BY <1>3, <1>4, PendingOnFrames
<1> QED
  BY <1>2, <1>4, <1>5

(* A fiber is once in a deque: those of the outer frames come first. *)
LEMMA DequeDistinct ==
  ASSUME ForkJoinInv, NEW v \in Worker, NEW D, D = deque[v],
         NEW i \in 1..Len(D), NEW j \in 1..Len(D), i < j
  PROVE  D[i] # D[j]
<1> SUFFICES ASSUME D[i] = D[j] PROVE FALSE
  OBVIOUS
<1>1. FibersOK(fib, made, done) /\ deque[v] # <<>>
  BY DEF ForkJoinInv
<1>2. PICK F, m, d, t, P, x :
        /\ F = fib /\ m = made /\ d = done
        /\ t = Top(buffer[v], cur[v]) /\ P = Pending(buffer[v], deque[v]) /\ x = D[i]
  OBVIOUS
<1>3. /\ FibersOK(F, m, d) /\ Waiting(F, P) /\ Spine(F, t, P) /\ P # <<>>
      /\ i \in 1..Len(P) /\ j \in 1..Len(P) /\ P[i] = x /\ P[j] = x
  BY <1>1, <1>2, DequeOnFrames
<1>4. F[x].up < F[x].up
  BY <1>3 DEF Spine
<1>5. Untouched(F, x)
  BY <1>3 DEF Waiting
<1>6. F[x].up \in Plain
  BY <1>3, <1>5, WaitingFacts
<1>7. F[x].up \in Int
  BY <1>6, FiberFacts
<1> QED
  BY <1>4, <1>7

LEMMA TailOfAppend ==
  ASSUME NEW D \in Seq(Fiber), D # <<>>, NEW x \in Fiber
  PROVE  Tail(Append(D, x)) = Append(Tail(D), x)
OBVIOUS

LEMMA PendingStolen ==
  ASSUME NEW B \in Seq(Fiber), NEW D \in Seq(Fiber), D # <<>>
  PROVE  Tail(Pending(B, D)) = Pending(B, Tail(D))
<1>1. CASE Len(B) = 2
  <2>1. B[1] \in Fiber
    BY <1>1, SeqElements
  <2> QED
    BY <1>1, <2>1, TailOfAppend DEF Pending
<1>2. CASE Len(B) # 2
  BY <1>2 DEF Pending
<1> QED
  BY <1>1, <1>2

(* A thief takes the oldest fiber of a deque. *)
LEMMA StealKeeps ==
  ASSUME ForkJoinInv, NEW w \in Worker, Steal(w)
  PROVE  ForkJoinInv'
<1>1. FibersOK(fib, made, done) /\ VarTypes /\ HeldOnce /\ Joining /\ \A u \in Worker : Mine(u)
  BY DEF ForkJoinInv
<1>2. PICK v \in Worker \ {w} :
        /\ deque[v] # <<>>
        /\ buffer' = [buffer EXCEPT ![w] = Append(@, Head(deque[v]))]
        /\ deque' = [deque EXCEPT ![v] = Tail(@)]
  BY DEF Steal
<1>3. PICK F, m, d, c, a, r, B, E, pc :
        /\ F = fib /\ m = made /\ d = done /\ c = cur[v] /\ a = at[v] /\ r = currentFiber[v]
        /\ B = buffer[v] /\ E = deque[v] /\ pc = wpc[v]
  OBVIOUS
<1>4. PICK h, Q, A : h = Head(E) /\ Q = Tail(E) /\ A = <<h>>
  OBVIOUS
<1>5. /\ wpc[w] = "acquire" /\ wpc' = [wpc EXCEPT ![w] = "flush"]
      /\ fib' = fib /\ made' = made /\ cur' = cur /\ at' = at
      /\ currentFiber' = currentFiber /\ done' = done
  BY DEF Steal
<1>6. buffer[w] = <<>> /\ cur[w] = NoFiber /\ at[w] = Nowhere /\ deque[w] = <<>>
  <2>1. WorkerShape(fib, wpc[w], cur[w], at[w], currentFiber[w], buffer[w], deque[w])
    BY <1>1 DEF Mine, WorkerFine
  <2>2. buffer[w] = <<>> /\ cur[w] = NoFiber /\ at[w] = Nowhere
    BY <1>5, <2>1 DEF WorkerShape
  <2> QED
    BY <2>2, IdleHasNothing
<1>7. /\ FibersOK(F, m, d) /\ WorkerShape(F, pc, c, a, r, B, E)
      /\ Spine(F, Top(B, c), Pending(B, E))
      /\ B \in Seq(Fiber) /\ E \in Seq(Fiber) /\ E # <<>>
  BY <1>1, <1>2, <1>3 DEF Mine, WorkerFine, VarTypes
<1>8. /\ Q \in Seq(Fiber) /\ Len(Q) \in Nat /\ Len(Q) + 1 = Len(E)
      /\ \A j \in 1..Len(Q) : Q[j] = E[j + 1] /\ j + 1 \in 1..Len(E)
  BY <1>4, <1>7, TailFacts
<1>9. h = E[1] /\ 1 \in 1..Len(E)
  BY <1>4, <1>7
<1>10. Waiting(F, E) /\ Untouched(F, h) /\ h \in Plain /\ h \in Fiber
  <2>1. Waiting(F, E)
    BY <1>7 DEF WorkerShape
  <2>2. Untouched(F, h)
    BY <1>9, <2>1 DEF Waiting
  <2> QED
    BY <2>1, <2>2, FiberFacts DEF Untouched
<1>11. /\ wpc'[w] = "flush" /\ buffer'[w] = A /\ deque'[v] = Q /\ w # v
       /\ \A u \in Worker \ {w} : wpc'[u] = wpc[u] /\ buffer'[u] = buffer[u]
       /\ \A u \in Worker \ {v} : deque'[u] = deque[u]
  <2>1. buffer'[w] = Append(buffer[w], h) /\ deque'[v] = Q
    BY <1>1, <1>2, <1>3, <1>4 DEF VarTypes
  <2>2. buffer'[w] = A
    BY <1>4, <1>6, <2>1
  <2> QED
    BY <1>1, <1>2, <1>5, <2>1, <2>2 DEF VarTypes
<1>12. VarTypes'
  <2>1. A \in Seq(Fiber)
    BY <1>4, <1>10
  <2>2. buffer' = [buffer EXCEPT ![w] = A] /\ deque' = [deque EXCEPT ![v] = Q]
    BY <1>1, <1>2, <1>11 DEF VarTypes
  <2> QED
    BY <1>1, <1>5, <1>8, <2>1, <2>2 DEF VarTypes, Pcs
<1>13. Mine(w)'
  <2>1. Runnable(F, h)
    BY <1>10 DEF Untouched, Runnable
  <2>2. BufferShape(F, A)
    BY <1>4, <1>10, <2>1 DEF BufferShape
  <2>3. Waiting(F, <<>>)
    BY DEF Waiting
  <2>4. WorkerShape(F, "flush", NoFiber, Nowhere, currentFiber[w], A, <<>>)
    BY <2>2, <2>3 DEF WorkerShape
  <2>5. Pending(A, <<>>) = <<>>
    BY <1>4 DEF Pending
  <2>6. Spine(F, Top(A, NoFiber), Pending(A, <<>>))
    BY <2>5 DEF Spine
  <2>7. WorkerFine(F, "flush", NoFiber, Nowhere, currentFiber[w], A, <<>>)
    BY <2>4, <2>6 DEF WorkerFine
  <2> QED
    BY <1>3, <1>5, <1>6, <1>11, <2>7 DEF Mine
<1>14. Mine(v)'
  <2>1. PICK t, P : t = Top(B, c) /\ P = Pending(B, E)
    OBVIOUS
  <2>2. t \in Plain /\ Open(F, t) /\ Waiting(F, P) /\ Spine(F, t, P) /\ P # <<>>
    BY <1>2, <1>3, <2>1, DequeOnFrames
  <2>3. Spine(F, t, Tail(P))
    BY <1>7, <2>2, SpineStolen
  <2>4. Tail(P) = Pending(B, Q)
    BY <1>4, <1>7, <2>1, PendingStolen
  <2>5. Waiting(F, Q)
    BY <1>8, <1>10 DEF Waiting
  <2>6. Returning(F, c, B, E) => Returning(F, c, B, Q)
    BY <1>7 DEF Returning
  <2>7. WorkerShape(F, pc, c, a, r, B, Q)
    BY <1>7, <2>5, <2>6 DEF WorkerShape
  <2>8. WorkerFine(F, pc, c, a, r, B, Q)
    BY <2>1, <2>3, <2>4, <2>7 DEF WorkerFine
  <2> QED
    BY <1>2, <1>3, <1>5, <1>11, <2>8 DEF Mine
<1>15. \A u \in Worker : Mine(u)'
  <2>1. ASSUME NEW u \in Worker \ {w, v}
        PROVE  Mine(u)'
    BY <1>1, <1>5, <1>11, <2>1, OtherSame
  <2> QED
    BY <1>13, <1>14, <2>1
<1>16. HeldOnce'
  <2>1. ASSUME NEW x \in Fiber, NEW u \in Worker, NEW k \in Place, HeldIn(x, u, k)'
        PROVE  (x = h /\ u = w /\ k = "buffer") \/ (x # h /\ HeldIn(x, u, k))
    <3>1. HeldIn(h, v, "deque") /\ "deque" \in Place /\ v \in Worker
      BY <1>2, <1>3, <1>9 DEF HeldIn, Place
    <3>2. ASSUME HeldIn(x, u, k), u # v \/ k # "deque"
          PROVE  x # h
      BY <1>1, <1>10, <3>1, <3>2 DEF HeldOnce
    <3>3. CASE k = "cur"
      <4>1. HeldIn(x, u, k)
        BY <1>5, <2>1, <3>3 DEF HeldIn
      <4> QED
        BY <3>2, <3>3, <4>1
    <3>4. CASE k = "deque" /\ u # v
      <4>1. HeldIn(x, u, k)
        BY <1>11, <2>1, <3>4 DEF HeldIn
      <4> QED
        BY <3>2, <3>4, <4>1
    <3>5. CASE k = "deque" /\ u = v
      <4>1. PICK j \in 1..Len(Q) : Q[j] = x
        BY <1>11, <2>1, <3>5 DEF HeldIn
      <4>2. PICK i : i = j + 1
        OBVIOUS
      <4>3. x = E[i] /\ i \in 1..Len(E) /\ 1 < i
        BY <1>8, <4>1, <4>2
      <4>4. HeldIn(x, u, k)
        BY <1>3, <3>5, <4>3 DEF HeldIn
      <4>5. E[1] # E[i]
        BY <1>2, <1>3, <1>9, <4>3, DequeDistinct
      <4> QED
        BY <1>9, <4>3, <4>4, <4>5
    <3>6. CASE k = "buffer" /\ u # w
      <4>1. HeldIn(x, u, k)
        BY <1>11, <2>1, <3>6 DEF HeldIn
      <4> QED
        BY <3>2, <3>6, <4>1
    <3>7. CASE k = "buffer" /\ u = w
      <4>1. PICK i \in 1..Len(A) : A[i] = x
        BY <1>11, <2>1, <3>7 DEF HeldIn
      <4> QED
        BY <1>4, <3>7, <4>1
    <3> QED
      BY <3>3, <3>4, <3>5, <3>6, <3>7 DEF Place
  <2>2. ASSUME NEW x \in Fiber, NEW u1 \in Worker, NEW u2 \in Worker,
               NEW k \in Place, NEW l \in Place, HeldIn(x, u1, k)', HeldIn(x, u2, l)'
        PROVE  u1 = u2 /\ k = l
    <3>1. CASE x = h
      BY <2>1, <2>2, <3>1
    <3>2. CASE x # h
      <4>1. HeldIn(x, u1, k) /\ HeldIn(x, u2, l)
        BY <2>1, <2>2, <3>2
      <4> QED
        BY <1>1, <4>1 DEF HeldOnce
    <3> QED
      BY <3>1, <3>2
  <2> QED
    BY <2>2 DEF HeldOnce
<1>17. Joining'
  <2>1. \A u \in Worker \ {w} : wpc'[u] = wpc[u] /\ cur'[u] = cur[u] /\ buffer'[u] = buffer[u]
    BY <1>5, <1>11
  <2>2. \A p \in Plain : BothInline(fib', p) =>
           /\ BothInline(fib, p) /\ fib'[p].f1 = fib[p].f1 /\ fib'[p].f2 = fib[p].f2
           /\ fib'[fib[p].f1].ctx = fib[fib[p].f1].ctx
           /\ ~ (wpc[w] = "returned" /\ cur[w] = fib[p].f1)
    BY <1>5
  <2> QED
    BY <2>1, <2>2, JoiningKept
<1> QED
  BY <1>1, <1>5, <1>12, <1>15, <1>16, <1>17 DEF ForkJoinInv

-----------------------------------------------------------------------------
(* The invariant holds                                                     *)

LEMMA InitFibers ==
  ASSUME Init
  PROVE  /\ FibersOK(fib, made, done)
         /\ Runnable(fib, Body) /\ \A x \in Plain : fib[x].ctx = "begin"
<1>1. PICK b, t, F : b = NewFiber(0, Terminal, "finish") /\ t = NewFiber(1, NoFiber, "exit_launch")
                     /\ F = fib
  OBVIOUS
<1>2. /\ b \in FiberType /\ b.incounter = 0 /\ b.outedge = Terminal /\ b.status = "finish"
      /\ b.stack = "null" /\ b.ctx = "begin" /\ b.f1 = NoFiber /\ b.f2 = NoFiber /\ b.alive
  BY <1>1, FiberFacts DEF NewFiber, FiberType
<1>3. /\ t \in FiberType /\ t.incounter = 1 /\ t.outedge = NoFiber /\ t.status = "exit_launch"
      /\ t.stack = "null" /\ t.ctx = "begin" /\ t.f1 = NoFiber /\ t.f2 = NoFiber /\ t.alive
  BY <1>1, FiberFacts DEF NewFiber, FiberType
<1>4. /\ F = [f \in Fiber |-> CASE f = Body -> b [] f = Terminal -> t [] OTHER -> Dead]
      /\ made = 1 /\ done = FALSE
  BY <1>1 DEF Init
<1>5. F[Body] = b /\ F[Terminal] = t
  BY <1>4, FiberFacts
<1>6. \A f \in Plain \ {Body} : F[f] = Dead
  BY <1>4, FiberFacts DEF Plain
<1>7. F \in [Fiber -> FiberType]
  <2>1. \A f \in Fiber : F[f] \in FiberType
    BY <1>2, <1>3, <1>5, <1>6, DeadFacts DEF Plain
  <2> QED
    BY <1>4, <2>1
<1>8. 1 \in 1..Terminal
  BY FiberFacts
<1>9. Unmade(F, 1)
  <2>1. \A f \in Plain : f >= 1 => f # Body
    BY FiberFacts
  <2> QED
    BY <1>6, <2>1 DEF Unmade
<1>10. Open(F, Body) /\ One(F, Body) = 1
  BY <1>2, <1>5, FiberFacts DEF Open, One
<1>11. TerminalShape(F, FALSE)
  BY <1>3, <1>5, <1>10 DEF TerminalShape
<1>12. BodyShape(F, FALSE)
  BY <1>2, <1>5 DEF BodyShape, Inline
<1>13. \A f \in Plain \ {Body} : ~ Open(F, f)
  BY <1>6, DeadFacts DEF Open
<1>14. ChildShape(F)
  BY <1>13 DEF ChildShape
<1>15. PlainShape(F)
  <2>1. Shaped(F, Body)
    BY <1>2, <1>5, <1>10 DEF Shaped, Inline
  <2>2. \A f \in Plain \ {Body} : Shaped(F, f)
    BY <1>6, DeadFacts DEF Shaped, Inline
  <2> QED
    BY <2>1, <2>2 DEF PlainShape
<1>16. FibersOK(F, 1, FALSE)
  BY <1>7, <1>8, <1>9, <1>11, <1>12, <1>14, <1>15 DEF FibersOK
<1>17. Runnable(F, Body)
  BY <1>2, <1>5, <1>10, FiberFacts DEF Runnable
<1>18. \A x \in Plain : F[x].ctx = "begin"
  BY <1>2, <1>5, <1>6, DeadFacts
<1> QED
  BY <1>1, <1>4, <1>16, <1>17, <1>18

LEMMA InitInv ==
  ASSUME Init
  PROVE  ForkJoinInv
<1>1. /\ FibersOK(fib, made, done) /\ Runnable(fib, Body)
      /\ \A x \in Plain : fib[x].ctx = "begin"
  BY InitFibers
<1>2. /\ wpc = [w \in Worker |-> "flush"] /\ cur = [w \in Worker |-> NoFiber]
      /\ at = [w \in Worker |-> Nowhere] /\ currentFiber = [w \in Worker |-> NoFiber]
      /\ buffer = [w \in Worker |-> IF w = First THEN <<Body>> ELSE <<>>]
      /\ deque = [w \in Worker |-> <<>>]
  BY DEF Init
<1>3. VarTypes
  <2>1. Nowhere \in [at : {"nowhere", "body", "take"}, f : Fiber \cup {NoFiber}]
    BY DEF Nowhere
  <2>2. <<Body>> \in Seq(Fiber) /\ <<>> \in Seq(Fiber)
    BY FiberFacts
  <2> QED
    BY <1>2, <2>1, <2>2 DEF VarTypes, Pcs
<1>4. ASSUME NEW w \in Worker
      PROVE  Mine(w)
  <2>1. /\ wpc[w] = "flush" /\ cur[w] = NoFiber /\ at[w] = Nowhere /\ deque[w] = <<>>
        /\ buffer[w] = <<Body>> \/ buffer[w] = <<>>
    BY <1>2
  <2>2. PICK F, B, r : F = fib /\ B = buffer[w] /\ r = currentFiber[w]
    OBVIOUS
  <2>3. B = <<Body>> \/ B = <<>>
    BY <2>1, <2>2
  <2>4. BufferShape(F, B)
    BY <1>1, <2>2, <2>3, FiberFacts DEF BufferShape
  <2>5. Waiting(F, <<>>)
    BY DEF Waiting
  <2>6. WorkerShape(F, "flush", NoFiber, Nowhere, r, B, <<>>)
    BY <2>4, <2>5 DEF WorkerShape
  <2>7. Pending(B, <<>>) = <<>>
    BY <2>3 DEF Pending
  <2>8. WorkerFine(F, "flush", NoFiber, Nowhere, r, B, <<>>)
    BY <2>6, <2>7 DEF WorkerFine, Spine
  <2> QED
    BY <2>1, <2>2, <2>8 DEF Mine
<1>5. HeldOnce
  <2>1. ASSUME NEW x \in Fiber, NEW w \in Worker, NEW k \in Place, HeldIn(x, w, k)
        PROVE  w = First /\ k = "buffer"
    <3>1. k # "cur"
      BY <1>2, <2>1, FiberFacts DEF HeldIn
    <3>2. k # "deque"
      BY <1>2, <2>1 DEF HeldIn
    <3>3. k = "buffer"
      BY <3>1, <3>2 DEF Place
    <3>4. CASE w # First
      <4>1. buffer[w] = <<>>
        BY <1>2, <3>4
      <4> QED
        BY <2>1, <3>3, <4>1 DEF HeldIn
    <3> QED
      BY <3>3, <3>4
  <2> QED
    BY <2>1 DEF HeldOnce
<1>6. Joining
  BY <1>1 DEF Joining, BothInline
<1> QED
  BY <1>1, <1>3, <1>4, <1>5, <1>6 DEF ForkJoinInv

LEMMA ForkJoinStep ==
  ASSUME ForkJoinInv, [Next]_vars
  PROVE  ForkJoinInv'
<1>1. CASE UNCHANGED vars
  <2>1. /\ fib' = fib /\ made' = made /\ wpc' = wpc /\ cur' = cur /\ at' = at
        /\ currentFiber' = currentFiber /\ buffer' = buffer /\ deque' = deque /\ done' = done
    BY <1>1 DEF vars
  <2>2. FibersOK(fib', made', done') /\ VarTypes'
    BY <2>1 DEF ForkJoinInv, VarTypes
  <2>3. \A w \in Worker : Mine(w)'
    BY <2>1, OtherSame DEF ForkJoinInv
  <2>4. HeldOnce'
    BY <2>1, HeldSame DEF ForkJoinInv
  <2>5. Joining'
    BY <2>1 DEF ForkJoinInv, Joining
  <2> QED
    BY <2>2, <2>3, <2>4, <2>5 DEF ForkJoinInv
<1>2. CASE \E w \in Worker : Step(w)
  <2>1. PICK w \in Worker : Step(w)
    BY <1>2
  <2>2. CASE Flush(w)
    BY <2>2, FlushKeeps
  <2>3. CASE PopOrAcquire(w)
    BY <2>3, PopOrAcquireKeeps
  <2>4. CASE Steal(w)
    BY <2>4, StealKeeps
  <2>5. CASE Leave(w)
    BY <2>5, LeaveKeeps
  <2>6. CASE Exec(w)
    BY <2>6, ExecKeeps
  <2>7. CASE ExecTerminal(w)
    BY <2>7, ExecTerminalKeeps
  <2>8. CASE Returned(w)
    BY <2>8, ReturnedKeeps
  <2>9. CASE Fork(w)
    BY <2>9, ForkKeeps
  <2>10. CASE EndBody(w)
    BY <2>10, EndBodyKeeps
  <2>11. CASE Take(w)
    BY <2>11, TakeKeeps
  <2> QED
    BY <2>1, <2>2, <2>3, <2>4, <2>5, <2>6, <2>7, <2>8, <2>9, <2>10, <2>11 DEF Step
<1> QED
  BY <1>1, <1>2 DEF Next

(* The fibers have the shapes of FibersOK, every worker holds what its     *)
(* place in worker_loop calls for, with the fibers of its deque on the     *)
(* frames it stands on, a fiber is in one place, and two children of one   *)
(* fork run inline one after the other.                                    *)
THEOREM ForkJoinInvariant == Spec => []ForkJoinInv
<1>1. Init => ForkJoinInv
  BY InitInv
<1>2. ForkJoinInv /\ [Next]_vars => ForkJoinInv'
  BY ForkJoinStep
<1> QED
  BY <1>1, <1>2, PTL DEF Spec

-----------------------------------------------------------------------------
(* What the invariant says                                                 *)

LEMMA InvTypes == ForkJoinInv => TypeOK
<1> SUFFICES ASSUME ForkJoinInv PROVE TypeOK
  OBVIOUS
<1>1. FibersOK(fib, made, done) /\ VarTypes /\ \A w \in Worker : Mine(w)
  BY DEF ForkJoinInv
<1>2. ASSUME NEW w \in Worker
      PROVE  Len(buffer[w]) <= Capacity
  <2>1. PICK B : B = buffer[w]
    OBVIOUS
  <2>2. BufferShape(fib, B)
    BY <1>1, <2>1 DEF Mine, WorkerFine, WorkerShape
  <2>3. Len(B) = 0 \/ Len(B) = 1 \/ Len(B) = 2
    BY <2>2 DEF BufferShape
  <2>4. Len(B) <= Capacity
    <3>1. PICK k : k = Len(B)
      OBVIOUS
    <3> QED
      BY <2>3, <3>1, BoundAssumption
  <2> QED
    BY <2>1, <2>4
<1>3. /\ fib \in [Fiber -> FiberType] /\ made \in 1..Terminal /\ done \in BOOLEAN
  BY <1>1 DEF FibersOK
<1> QED
  BY <1>1, <1>2, <1>3 DEF TypeOK, VarTypes, Pcs

(* Every variable has its shape in every state: no incounter leaves 0..2   *)
(* and no buffer is pushed beyond its capacity.                            *)
THEOREM TypeCorrect == Spec => []TypeOK
BY ForkJoinInvariant, InvTypes, PTL

LEMMA InvTake == ForkJoinInv => TakeGetsSecondChild
<1> SUFFICES ASSUME ForkJoinInv, NEW w \in Worker, Running(w), at[w].at = "take"
             PROVE  /\ buffer[w] = <<>>
                    /\ deque[w] # <<>> =>
                         /\ Last(deque[w]) = fib[at[w].f].f2
                         /\ fib[fib[at[w].f].f2].stack = "null"
  BY DEF TakeGetsSecondChild
<1>1. PICK F, m, d, f, p, D :
        F = fib /\ m = made /\ d = done /\ f = cur[w] /\ p = F[f].up /\ D = deque[w]
  OBVIOUS
<1>2. FibersOK(F, m, d)
  BY <1>1 DEF ForkJoinInv
<1>3. /\ RunningShape(F, f, at[w], currentFiber[w])
      /\ buffer[w] = <<>> /\ Waiting(F, D) /\ Spine(F, f, D)
  BY <1>1, RunningFacts DEF Running
<1>4. f \in Plain /\ Open(F, f) /\ IsFirst(F, f) /\ at[w].f = p
  BY <1>1, <1>3 DEF RunningShape
<1>5. ASSUME D # <<>>
      PROVE  Last(D) = F[p].f2 /\ F[F[p].f2].stack = "null"
  <2>1. Last(D) = F[p].f2
    BY <1>1, <1>2, <1>3, <1>4, <1>5, SpineTake
  <2>2. Len(D) \in 1..Len(D) /\ D[Len(D)] = Last(D)
    BY <1>3, <1>5 DEF Waiting, Last
  <2>3. Untouched(F, Last(D))
    BY <1>3, <2>2 DEF Waiting
  <2> QED
    BY <2>1, <2>3 DEF Untouched
<1> QED
  BY <1>1, <1>3, <1>4, <1>5

(* What take pops, when it pops anything, is the second child of the fork2 *)
(* that calls it, not yet begun, whoever has stolen what before.           *)
THEOREM TakeIsRight == Spec => []TakeGetsSecondChild
BY ForkJoinInvariant, InvTake, PTL

LEMMA InvCurrent == ForkJoinInv => CurrentIsRunning
<1> SUFFICES ASSUME ForkJoinInv PROVE CurrentIsRunning
  OBVIOUS
<1>1. FibersOK(fib, made, done)
  BY DEF ForkJoinInv
<1>2. ASSUME NEW w \in Worker, Running(w), at[w].at = "body"
      PROVE  cur[w] = at[w].f /\ currentFiber[w] = at[w].f
  <2>1. RunningShape(fib, cur[w], at[w], currentFiber[w])
    BY <1>2, RunningFacts DEF Running
  <2> QED
    BY <1>2, <2>1 DEF RunningShape
<1>3. ASSUME NEW w \in Worker, wpc[w] = "returned", fib[cur[w]].status # "pause"
      PROVE  fib[cur[w]].incounter = 0
  <2>1. PICK f : f = cur[w]
    OBVIOUS
  <2>2. Returning(fib, f, buffer[w], deque[w])
    BY <1>3, <2>1, ReturnedShape
  <2>3. fib[f].incounter = 0 \/ (f \in Plain /\ fib[f].ctx = "used")
    BY <1>3, <2>1, <2>2 DEF Returning
  <2>4. f \in Plain /\ fib[f].ctx = "used" => fib[f].incounter = 0
    BY <1>1 DEF FibersOK, PlainShape, Shaped
  <2> QED
    BY <2>1, <2>3, <2>4
<1> QED
  BY <1>2, <1>3 DEF CurrentIsRunning

(* A worker's current fiber is the one whose code it runs, and a fiber     *)
(* that notifies is ready.                                                 *)
THEOREM CurrentIsRight == Spec => []CurrentIsRunning
BY ForkJoinInvariant, InvCurrent, PTL

(* The entries of Held: i is the place of x among those of w. *)
HeldAs(x, w, i) ==
  \/ i \in 1..Len(buffer[w]) /\ buffer[w][i] = x
  \/ i - Len(buffer[w]) \in 1..Len(deque[w]) /\ deque[w][i - Len(buffer[w])] = x
  \/ i = Len(buffer[w]) + Len(deque[w]) + 1 /\ cur[w] = x

LEMMA HeldEntries ==
  ASSUME ForkJoinInv, NEW w \in Worker, NEW i \in DOMAIN Held(w)
  PROVE  /\ HeldAs(Held(w)[i], w, i) /\ i \in Int
         /\ Len(buffer[w]) \in Nat /\ Len(deque[w]) \in Nat
<1> DEFINE S == Fiber \cup {NoFiber}
<1>1. PICK B, D, c : B = buffer[w] /\ D = deque[w] /\ c = cur[w]
  OBVIOUS
<1>2. B \in Seq(S) /\ D \in Seq(S) /\ c \in S
  <2>1. buffer[w] \in Seq(Fiber) /\ deque[w] \in Seq(Fiber) /\ cur[w] \in Fiber \cup {NoFiber}
    BY DEF ForkJoinInv, VarTypes
  <2> QED
    BY <1>1, <2>1
<1>3. PICK C, H : C = B \o D /\ H = Append(C, c)
  OBVIOUS
<1>4. C \in Seq(S) /\ Len(C) = Len(B) + Len(D)
  BY <1>2, <1>3
<1>5. Held(w) = H
  <2>1. C \o <<c>> = Append(C, c)
    BY <1>2, <1>4
  <2> QED
    BY <1>1, <1>3, <2>1 DEF Held
<1>6. PICK b \in Nat, e \in Nat, n \in Nat : b = Len(B) /\ e = Len(D) /\ n = b + e /\ n = Len(C)
  BY <1>2, <1>4
<1>7. /\ Len(H) = n + 1 /\ H[n + 1] = c /\ H \in Seq(S)
      /\ \A j \in 1..n : H[j] = C[j]
  BY <1>2, <1>3, <1>4, <1>6, AppendProperties
<1>8. \A j \in 1..n : C[j] = IF j <= b THEN B[j] ELSE D[j - b]
  <2> SUFFICES ASSUME NEW j \in 1..n PROVE C[j] = IF j <= b THEN B[j] ELSE D[j - b]
    OBVIOUS
  <2> QED
    BY <1>2, <1>3, <1>6, ConcatProperties
<1>9. i \in 1..(n + 1)
  BY <1>5, <1>7
<1>12. PICK x : x = Held(w)[i]
  OBVIOUS
<1>13. (i \in 1..b /\ B[i] = x) \/ (i - b \in 1..e /\ D[i - b] = x) \/ (i = b + e + 1 /\ c = x)
       => HeldAs(x, w, i)
  BY <1>1, <1>6 DEF HeldAs
<1>14. i \in Int /\ Len(buffer[w]) \in Nat /\ Len(deque[w]) \in Nat
  BY <1>1, <1>6, <1>9
<1>10. CASE i = n + 1
  <2>1. i = b + e + 1 /\ c = x
    BY <1>5, <1>6, <1>7, <1>10, <1>12
  <2> QED
    BY <1>12, <1>13, <1>14, <2>1
<1>11. CASE i # n + 1
  <2>1. i \in 1..n
    BY <1>9, <1>11
  <2>2. Held(w)[i] = IF i <= b THEN B[i] ELSE D[i - b]
    BY <1>5, <1>7, <1>8, <2>1
  <2>3. CASE i <= b
    <3>1. i \in 1..b /\ B[i] = x
      BY <1>6, <1>12, <2>1, <2>2, <2>3
    <3> QED
      BY <1>12, <1>13, <1>14, <3>1
  <2>4. CASE ~ (i <= b)
    <3>1. i - b \in 1..e
      BY <1>6, <2>1, <2>4
    <3>2. D[i - b] = x
      BY <1>12, <2>2, <2>4
    <3> QED
      BY <1>12, <1>13, <1>14, <3>1, <3>2
  <2> QED
    BY <2>3, <2>4
<1> QED
  BY <1>10, <1>11

LEMMA HeldPlaces ==
  ASSUME ForkJoinInv, NEW w \in Worker, NEW x \in Fiber, NEW i, HeldAs(x, w, i)
  PROVE  \/ i \in 1..Len(buffer[w]) /\ buffer[w][i] = x /\ HeldIn(x, w, "buffer")
         \/ /\ i - Len(buffer[w]) \in 1..Len(deque[w])
            /\ deque[w][i - Len(buffer[w])] = x /\ HeldIn(x, w, "deque")
         \/ i = Len(buffer[w]) + Len(deque[w]) + 1 /\ cur[w] = x /\ HeldIn(x, w, "cur")
<1>1. CASE i \in 1..Len(buffer[w]) /\ buffer[w][i] = x
  BY <1>1 DEF HeldIn
<1>2. CASE /\ i - Len(buffer[w]) \in 1..Len(deque[w])
           /\ deque[w][i - Len(buffer[w])] = x
  <2>1. PICK j : j = i - Len(buffer[w])
    OBVIOUS
  <2>2. HeldIn(x, w, "deque")
    BY <1>2, <2>1 DEF HeldIn
  <2> QED
    BY <1>2, <2>2
<1>3. CASE i = Len(buffer[w]) + Len(deque[w]) + 1 /\ cur[w] = x
  BY <1>3 DEF HeldIn
<1> QED
  BY <1>1, <1>2, <1>3 DEF HeldAs

(* The two fibers of a buffer are two. *)
LEMMA BufferDistinct ==
  ASSUME ForkJoinInv, NEW w \in Worker, NEW i \in 1..Len(buffer[w]), NEW j \in 1..Len(buffer[w]),
         i # j
  PROVE  buffer[w][i] # buffer[w][j]
<1>1. PICK F, m, d, B : F = fib /\ m = made /\ d = done /\ B = buffer[w]
  OBVIOUS
<1>2. FibersOK(F, m, d) /\ BufferShape(F, B)
  BY <1>1 DEF ForkJoinInv, Mine, WorkerFine, WorkerShape
<1>3. i \in 1..Len(B) /\ j \in 1..Len(B)
  BY <1>1
<1>4. Len(B) # 0 /\ Len(B) # 1
  BY <1>3
<1>5. \E g, h \in Plain : B = <<h, g>> /\ Untouched(F, h) /\ g = F[F[h].up].f1
  <2>1. B # <<>> /\ \A x \in Fiber : B # <<x>>
    BY <1>4
  <2> QED
    BY <1>2, <2>1 DEF BufferShape
<1>6. PICK g, h \in Plain : B = <<h, g>> /\ Untouched(F, h) /\ g = F[F[h].up].f1
  BY <1>5
<1>7. g < h
  BY <1>2, <1>6, WaitingFacts
<1>8. g # h
  BY <1>7, FiberFacts
<1>9. B[1] = h /\ B[2] = g /\ i \in {1, 2} /\ j \in {1, 2}
  BY <1>3, <1>6, PairFacts
<1> QED
  BY <1>1, <1>8, <1>9

LEMMA InvHeld == ForkJoinInv => HeldFibersAreAlive
<1> SUFFICES ASSUME ForkJoinInv, NEW w \in Worker, NEW i \in DOMAIN Held(w),
                    Held(w)[i] # NoFiber
             PROVE  /\ fib[Held(w)[i]].alive
                    /\ \A v \in Worker : \A k \in DOMAIN Held(v) :
                         Held(v)[k] = Held(w)[i] => <<v, k>> = <<w, i>>
  BY DEF HeldFibersAreAlive
<1>1. PICK x, b, e : x = Held(w)[i] /\ b = Len(buffer[w]) /\ e = Len(deque[w])
  OBVIOUS
<1>2. HeldAs(x, w, i) /\ i \in Int /\ b \in Nat /\ e \in Nat
  BY <1>1, HeldEntries
<1>3. x \in Fiber
  <2>1. /\ buffer[w] \in Seq(Fiber) /\ deque[w] \in Seq(Fiber)
        /\ cur[w] \in Fiber \cup {NoFiber} /\ x # NoFiber
    BY <1>1 DEF ForkJoinInv, VarTypes
  <2>2. \A j \in 1..Len(buffer[w]) : buffer[w][j] \in Fiber
    BY <2>1
  <2>3. \A j \in 1..Len(deque[w]) : deque[w][j] \in Fiber
    BY <2>1
  <2> QED
    BY <1>2, <2>1, <2>2, <2>3 DEF HeldAs
<1>4. \/ i \in 1..b /\ buffer[w][i] = x /\ HeldIn(x, w, "buffer")
      \/ i - b \in 1..e /\ deque[w][i - b] = x /\ HeldIn(x, w, "deque")
      \/ i = b + e + 1 /\ cur[w] = x /\ HeldIn(x, w, "cur")
  BY <1>1, <1>2, <1>3, HeldPlaces
<1>5. fib[x].alive
  <2>1. Holds(w, x)
    BY <1>4 DEF Holds, Place
  <2> QED
    BY <1>3, <2>1, HeldAlive DEF Open
<1>6. ASSUME NEW v \in Worker, NEW k \in DOMAIN Held(v), Held(v)[k] = x
      PROVE  v = w /\ k = i
  <2>1. HeldAs(x, v, k) /\ k \in Int
    BY <1>6, HeldEntries
  <2>2. \/ k \in 1..Len(buffer[v]) /\ buffer[v][k] = x /\ HeldIn(x, v, "buffer")
        \/ /\ k - Len(buffer[v]) \in 1..Len(deque[v])
           /\ deque[v][k - Len(buffer[v])] = x /\ HeldIn(x, v, "deque")
        \/ k = Len(buffer[v]) + Len(deque[v]) + 1 /\ cur[v] = x /\ HeldIn(x, v, "cur")
    BY <1>3, <2>1, HeldPlaces
  <2>3. \A p, q \in Place : HeldIn(x, w, p) /\ HeldIn(x, v, q) => v = w /\ p = q
    BY <1>3 DEF ForkJoinInv, HeldOnce
  <2>4. v = w
    BY <1>4, <2>2, <2>3 DEF Place
  <2>5. \/ k \in 1..b /\ buffer[w][k] = x /\ HeldIn(x, w, "buffer")
        \/ k - b \in 1..e /\ deque[w][k - b] = x /\ HeldIn(x, w, "deque")
        \/ k = b + e + 1 /\ cur[w] = x /\ HeldIn(x, w, "cur")
    BY <1>1, <2>2, <2>4
  <2>6. CASE i \in 1..b /\ buffer[w][i] = x /\ HeldIn(x, w, "buffer")
    <3>1. k \in 1..b /\ buffer[w][k] = x
      BY <2>3, <2>4, <2>5, <2>6 DEF Place
    <3> QED
      BY <1>1, <2>4, <2>6, <3>1, BufferDistinct
  <2>7. CASE i - b \in 1..e /\ deque[w][i - b] = x /\ HeldIn(x, w, "deque")
    <3>1. k - b \in 1..e /\ deque[w][k - b] = x
      BY <2>3, <2>4, <2>5, <2>7 DEF Place
    <3>2. PICK r, s : r = i - b /\ s = k - b
      OBVIOUS
    <3>3. /\ r \in 1..Len(deque[w]) /\ s \in 1..Len(deque[w]) /\ r \in Int /\ s \in Int
          /\ deque[w][r] = deque[w][s]
      BY <1>1, <1>2, <2>1, <2>7, <3>1, <3>2
    <3>4. ~ (r < s) /\ ~ (s < r)
      BY <3>3, DequeDistinct
    <3>5. r = s
      BY <3>3, <3>4
    <3> QED
      BY <1>2, <2>1, <2>4, <3>2, <3>5
  <2>8. CASE i = b + e + 1 /\ cur[w] = x /\ HeldIn(x, w, "cur")
    <3>1. k = b + e + 1
      BY <2>3, <2>4, <2>5, <2>8 DEF Place
    <3> QED
      BY <2>4, <2>8, <3>1
  <2> QED
    BY <1>4, <2>6, <2>7, <2>8
<1> QED
  BY <1>1, <1>5, <1>6

(* A fiber that a worker has in its hands, its buffer or its deque exists, *)
(* and is in one place only.                                               *)
THEOREM HeldAreAlive == Spec => []HeldFibersAreAlive
BY ForkJoinInvariant, InvHeld, PTL

(* A set of fibers has an oldest one. *)
LEMMA OldestFiber ==
  ASSUME NEW S \in SUBSET Fiber, S # {}
  PROVE  \E k \in S : \A y \in S : k <= y
<1> DEFINE Down(k) == {y \in S : y <= k}
           Downs == {Down(k) : k \in S}
           Smaller == StrictSubsetOrdering(S)
<1>1. \A y \in S : y \in Int
  BY FiberFacts
<1>2. IsFiniteSet(S)
  <2>1. IsFiniteSet(0..Terminal)
    BY FiberFacts, FS_Interval
  <2> QED
    BY <2>1, FS_Subset DEF Fiber
<1>3. IsWellFoundedOn(Smaller, SUBSET S)
  BY <1>2, FS_StrictSubsetOrderingWellFounded, FS_FiniteSubsetsOfFinite
<1>4. Downs \subseteq SUBSET S /\ Downs # {}
  OBVIOUS
<1>5. PICK U \in Downs : \A V \in Downs : ~ (<<V, U>> \in Smaller)
  BY <1>3, <1>4, WFMin
<1>6. PICK k \in S : U = Down(k)
  BY <1>5
<1>7. ASSUME NEW y \in S, ~ (k <= y)
      PROVE  FALSE
  <2>1. k \in Int /\ y \in Int /\ y < k
    BY <1>1, <1>7
  <2>2. Down(y) \subseteq Down(k) /\ k \in Down(k) /\ k \notin Down(y)
    <3>1. \A z \in S : z <= y => z <= k
      BY <1>1, <2>1
    <3>2. k <= k /\ ~ (k <= y)
      BY <2>1
    <3> QED
      BY <3>1, <3>2
  <2>3. <<Down(y), U>> \in Smaller
    BY <1>6, <2>2 DEF StrictSubsetOrdering
  <2>4. Down(y) \in Downs
    OBVIOUS
  <2> QED
    BY <1>5, <2>3, <2>4
<1> QED
  BY <1>7

(* When the body is over, so is every fiber. *)
LEMMA AllOver ==
  ASSUME NEW F, NEW m, NEW d, FibersOK(F, m, d), ~ Open(F, Body)
  PROVE  \A f \in Plain : ~ Open(F, f)
<1> DEFINE S == {f \in Plain : Open(F, f)}
<1> SUFFICES ASSUME S # {} PROVE FALSE
  OBVIOUS
<1>1. S \in SUBSET Fiber
  BY FiberFacts
<1>2. PICK k \in S : \A y \in S : k <= y
  BY <1>1, OldestFiber
<1>3. k \in Plain /\ Open(F, k) /\ k # Body
  BY <1>2
<1>4. PICK p : p = F[k].up
  OBVIOUS
<1>5. p \in Plain /\ p < k /\ Open(F, p)
  BY <1>3, <1>4, ParentFacts
<1>6. k \in Int /\ p \in Int
  BY <1>3, <1>5, FiberFacts
<1> QED
  BY <1>2, <1>5, <1>6

LEMMA InvLeft == ForkJoinInv => NothingLeftBehind
<1> SUFFICES ASSUME ForkJoinInv, done
             PROVE  /\ \A w \in Worker : Held(w) = <<NoFiber>>
                    /\ \A f \in Fiber : fib[f].incounter = 0
  BY DEF NothingLeftBehind
<1>1. PICK F, m, d : F = fib /\ m = made /\ d = done
  OBVIOUS
<1>2. FibersOK(F, m, d) /\ d
  BY <1>1 DEF ForkJoinInv
<1>3. ~ Open(F, Body) /\ ~ F[Terminal].alive /\ F[Terminal].incounter = 0
  BY <1>2 DEF FibersOK, BodyShape, TerminalShape, One
<1>4. \A f \in Plain : ~ Open(F, f)
  BY <1>2, <1>3, AllOver
<1>5. ASSUME NEW f \in Fiber
      PROVE  F[f].incounter = 0
  <2>1. CASE f = Terminal
    BY <1>3, <2>1
  <2>2. CASE f # Terminal
    <3>1. f \in Plain /\ Shaped(F, f) /\ ~ Open(F, f)
      BY <1>2, <1>4, <2>2 DEF FibersOK, PlainShape, Plain
    <3> QED
      BY <3>1 DEF Shaped, ForkShape
  <2> QED
    BY <2>1, <2>2
<1>6. ASSUME NEW w \in Worker
      PROVE  Held(w) = <<NoFiber>>
  <2>1. \A x \in Fiber : ~ Holds(w, x)
    BY <1>1, <1>3, <1>4, HeldAlive
  <2>2. /\ cur[w] \in Fiber \cup {NoFiber}
        /\ buffer[w] \in Seq(Fiber) /\ deque[w] \in Seq(Fiber)
    BY DEF ForkJoinInv, VarTypes
  <2>3. cur[w] = NoFiber
    BY <2>1, <2>2, CurIsHeld
  <2>4. buffer[w] = <<>>
    <3> SUFFICES ASSUME buffer[w] # <<>> PROVE FALSE
      OBVIOUS
    <3>1. 1 \in 1..Len(buffer[w]) /\ buffer[w][1] \in Fiber
      BY <2>2
    <3>2. Holds(w, buffer[w][1])
      BY <3>1 DEF Holds, HeldIn, Place
    <3> QED
      BY <2>1, <3>1, <3>2
  <2>5. deque[w] = <<>>
    <3> SUFFICES ASSUME deque[w] # <<>> PROVE FALSE
      OBVIOUS
    <3>1. 1 \in 1..Len(deque[w]) /\ deque[w][1] \in Fiber
      BY <2>2
    <3>2. Holds(w, deque[w][1])
      BY <3>1 DEF Holds, HeldIn, Place
    <3> QED
      BY <2>1, <3>1, <3>2
  <2> QED
    BY <2>3, <2>4, <2>5 DEF Held
<1> QED
  BY <1>1, <1>5, <1>6

(* When the end of the run is announced nothing is left in any deque,      *)
(* buffer or hand, and no fiber waits for another.                         *)
THEOREM NothingIsLeft == Spec => []NothingLeftBehind
BY ForkJoinInvariant, InvLeft, PTL

-----------------------------------------------------------------------------
(* No fiber is lost                                                        *)

Among(s, x) == \E i \in 1..Len(s) : s[i] = x

(* What taking one off an end of a sequence, joining two sequences and     *)
(* appending to one do to their elements.                                  *)
LEMMA AmongParts ==
  ASSUME NEW P \in Seq(Fiber), P # <<>>, NEW x, Among(P, x)
  PROVE  /\ x = Last(P) \/ Among(Front(P), x)
         /\ x = Head(P) \/ Among(Tail(P), x)
<1>1. PICK i \in 1..Len(P) : P[i] = x
  BY DEF Among
<1>2. PICK n : n = Len(P)
  OBVIOUS
<1>3. n \in Nat /\ i \in 1..n
  BY <1>1, <1>2
<1>4. x = Last(P) \/ Among(Front(P), x)
  <2>1. PICK Q, l : Q = Front(P) /\ l = Len(Q)
    OBVIOUS
  <2>2. l \in Nat /\ l + 1 = n /\ \A j \in 1..l : Q[j] = P[j]
    BY <1>2, <2>1, FrontFacts
  <2>3. CASE i = n
    BY <1>1, <1>2, <2>3 DEF Last
  <2>4. CASE i # n
    <3>1. i \in 1..l
      BY <1>3, <2>2, <2>4
    <3>2. Q[i] = x
      BY <1>1, <2>2, <3>1
    <3> QED
      BY <2>1, <3>1, <3>2 DEF Among
  <2> QED
    BY <2>3, <2>4
<1>5. x = Head(P) \/ Among(Tail(P), x)
  <2>1. PICK Q, l : Q = Tail(P) /\ l = Len(Q)
    OBVIOUS
  <2>2. l \in Nat /\ l + 1 = n /\ \A j \in 1..l : Q[j] = P[j + 1]
    BY <1>2, <2>1, TailFacts
  <2>3. CASE i = 1
    BY <1>1, <2>3
  <2>4. CASE i # 1
    <3>1. PICK j : j = i - 1
      OBVIOUS
    <3>2. j \in 1..l /\ j + 1 = i
      BY <1>3, <2>2, <2>4, <3>1
    <3>3. Q[j] = x
      BY <1>1, <2>2, <3>2
    <3> QED
      BY <2>1, <3>2, <3>3 DEF Among
  <2> QED
    BY <2>3, <2>4
<1> QED
  BY <1>4, <1>5

LEMMA AmongJoined ==
  ASSUME NEW P \in Seq(Fiber), NEW Q \in Seq(Fiber), NEW x, Among(P, x) \/ Among(Q, x)
  PROVE  Among(P \o Q, x)
<1>1. PICK R, k, l : R = P \o Q /\ k = Len(P) /\ l = Len(Q)
  OBVIOUS
<1>2. /\ k \in Nat /\ l \in Nat /\ Len(R) = k + l
      /\ \A i \in 1..(k + l) : R[i] = IF i <= k THEN P[i] ELSE Q[i - k]
  BY <1>1, ConcatProperties
<1>3. CASE Among(P, x)
  <2>1. PICK i \in 1..k : P[i] = x
    BY <1>1, <1>3 DEF Among
  <2>2. i \in 1..(k + l) /\ i <= k
    BY <1>2, <2>1
  <2>3. R[i] = x
    BY <1>2, <2>1, <2>2
  <2> QED
    BY <1>1, <1>2, <2>2, <2>3 DEF Among
<1>4. CASE Among(Q, x)
  <2>1. PICK i \in 1..l : Q[i] = x
    BY <1>1, <1>4 DEF Among
  <2>2. PICK j : j = k + i
    OBVIOUS
  <2>3. j \in 1..(k + l) /\ ~ (j <= k) /\ j - k = i
    BY <1>2, <2>1, <2>2
  <2>4. R[j] = x
    BY <1>2, <2>1, <2>3
  <2> QED
    BY <1>1, <1>2, <2>3, <2>4 DEF Among
<1> QED
  BY <1>3, <1>4

LEMMA AmongAppended ==
  ASSUME NEW P \in Seq(Fiber), NEW y \in Fiber
  PROVE  Among(Append(P, y), y) /\ \A x : Among(P, x) => Among(Append(P, y), x)
<1>1. <<y>> \in Seq(Fiber) /\ Append(P, y) = P \o <<y>>
  OBVIOUS
<1>2. Among(<<y>>, y)
  <2>1. Len(<<y>>) = 1 /\ <<y>>[1] = y
    OBVIOUS
  <2> QED
    BY <2>1 DEF Among
<1> QED
  BY <1>1, <1>2, AmongJoined

LEMMA HoldsIs ==
  ASSUME NEW w, NEW x
  PROVE  /\ Holds(w, x) <=> cur[w] = x \/ Among(buffer[w], x) \/ Among(deque[w], x)
         /\ Holds(w, x)' <=> cur'[w] = x \/ Among(buffer'[w], x) \/ Among(deque'[w], x)
BY DEF Holds, HeldIn, Place, Among

(* Every ready fiber is held. *)
NotLost == \A x \in Fiber : Ready(x) => \E w \in Worker : Holds(w, x)

(* The step leaves alone what makes x ready. *)
SameWork(x) ==
  /\ fib'[x].alive = fib[x].alive /\ fib'[x].incounter = fib[x].incounter
  /\ fib'[x].outedge = fib[x].outedge

(* A step that makes no fiber ready, and moves none or moves it within     *)
(* what is held, loses none.                                               *)
LEMMA QuietLosesNone ==
  ASSUME NotLost, cur' = cur, buffer' = buffer, deque' = deque,
         \A x \in Fiber : SameWork(x) \/ ~ Ready(x)'
  PROVE  NotLost'
<1>1. \A x \in Fiber : Ready(x)' => Ready(x)
  BY DEF SameWork, Ready
<1>2. \A w, x : Holds(w, x)' <=> Holds(w, x)
  BY HoldsIs
<1> QED
  BY <1>1, <1>2 DEF NotLost

LEMMA MovesLoseNone ==
  ASSUME NotLost,
         \A x \in Fiber : SameWork(x) \/ ~ Ready(x)' \/ \E w \in Worker : Holds(w, x)',
         \A x \in Fiber : \A w \in Worker :
           Ready(x)' /\ Holds(w, x) => \E v \in Worker : Holds(v, x)'
  PROVE  NotLost'
<1>1. \A x \in Fiber : SameWork(x) /\ Ready(x)' => Ready(x)
  BY DEF SameWork, Ready
<1> QED
  BY <1>1 DEF NotLost

LEMMA FlushLosesNone ==
  ASSUME ForkJoinInv, NotLost, NEW w \in Worker, Flush(w)
  PROVE  NotLost'
<1>1. /\ VarTypes /\ cur[w] = NoFiber /\ fib' = fib
      /\ buffer[w] \in Seq(Fiber) /\ deque[w] \in Seq(Fiber)
  <2>1. wpc[w] = "flush"
    BY DEF Flush
  <2> QED
    BY <2>1 DEF Flush, ForkJoinInv, Mine, WorkerFine, WorkerShape, VarTypes
<1>2. \A x \in Fiber : SameWork(x)
  BY <1>1 DEF SameWork
<1>3. CASE buffer[w] = <<>>
  <2>1. cur' = [cur EXCEPT ![w] = NoFiber] /\ buffer' = buffer /\ deque' = deque
    BY <1>3 DEF Flush
  <2>2. cur' = cur
    BY <1>1, <2>1 DEF VarTypes
  <2> QED
    BY <1>2, <2>1, <2>2, QuietLosesNone
<1>4. CASE buffer[w] # <<>>
  <2>1. /\ cur' = [cur EXCEPT ![w] = Last(buffer[w])]
        /\ deque' = [deque EXCEPT ![w] = deque[w] \o Front(buffer[w])]
        /\ buffer' = [buffer EXCEPT ![w] = <<>>]
    BY <1>4 DEF Flush
  <2>2. /\ cur'[w] = Last(buffer[w]) /\ deque'[w] = deque[w] \o Front(buffer[w])
        /\ \A v \in Worker \ {w} :
             cur'[v] = cur[v] /\ deque'[v] = deque[v] /\ buffer'[v] = buffer[v]
    BY <1>1, <2>1 DEF VarTypes
  <2>3. ASSUME NEW x \in Fiber, Holds(w, x)
        PROVE  Holds(w, x)'
    <3>1. Among(buffer[w], x) \/ Among(deque[w], x)
      BY <1>1, <2>3, HoldsIs, FiberFacts
    <3>2. Front(buffer[w]) \in Seq(Fiber)
      BY <1>1, <1>4, FrontFacts
    <3>3. Among(buffer[w], x) => x = Last(buffer[w]) \/ Among(Front(buffer[w]), x)
      BY <1>1, <1>4, AmongParts
    <3>4. Among(deque[w], x) \/ Among(Front(buffer[w]), x) => Among(deque'[w], x)
      BY <1>1, <2>2, <3>2, AmongJoined
    <3> QED
      BY <2>2, <3>1, <3>3, <3>4, HoldsIs
  <2>4. ASSUME NEW x \in Fiber, NEW v \in Worker, Holds(v, x)
        PROVE  Holds(v, x)'
    <3>1. CASE v = w
      BY <2>3, <2>4, <3>1
    <3>2. CASE v # w
      BY <2>2, <2>4, <3>2, HoldsIs
    <3> QED
      BY <3>1, <3>2
  <2> QED
    BY <1>2, <2>4, MovesLoseNone
<1> QED
  BY <1>3, <1>4

LEMMA PopOrAcquireLosesNone ==
  ASSUME ForkJoinInv, NotLost, NEW w \in Worker, PopOrAcquire(w)
  PROVE  NotLost'
<1>1. wpc[w] = "loop" /\ cur[w] = NoFiber
  BY DEF PopOrAcquire
<1>2. buffer[w] = <<>>
  BY <1>1 DEF ForkJoinInv, Mine, WorkerFine, WorkerShape
<1>3. deque[w] = <<>>
  BY <1>1, <1>2, IdleHasNothing
<1>4. fib' = fib /\ cur' = cur /\ buffer' = buffer /\ deque' = deque
  BY <1>3 DEF PopOrAcquire
<1> QED
  BY <1>4, QuietLosesNone DEF SameWork

LEMMA StealLosesNone ==
  ASSUME ForkJoinInv, NotLost, NEW w \in Worker, Steal(w)
  PROVE  NotLost'
<1>1. PICK v \in Worker \ {w} :
        /\ deque[v] # <<>>
        /\ buffer' = [buffer EXCEPT ![w] = Append(buffer[w], Head(deque[v]))]
        /\ deque' = [deque EXCEPT ![v] = Tail(deque[v])]
  BY DEF Steal
<1>2. /\ fib' = fib /\ cur' = cur
      /\ buffer \in [Worker -> Seq(Fiber)] /\ deque \in [Worker -> Seq(Fiber)]
  BY DEF Steal, ForkJoinInv, VarTypes
<1>3. PICK y : y = Head(deque[v])
  OBVIOUS
<1>4. /\ buffer'[w] = Append(buffer[w], y) /\ deque'[v] = Tail(deque[v])
      /\ \A u \in Worker \ {w} : buffer'[u] = buffer[u]
      /\ \A u \in Worker \ {v} : deque'[u] = deque[u]
  BY <1>1, <1>2, <1>3
<1>5. buffer[w] \in Seq(Fiber) /\ deque[v] \in Seq(Fiber) /\ y \in Fiber
  BY <1>1, <1>2, <1>3
<1>6. Among(buffer'[w], y) /\ \A x : Among(buffer[w], x) => Among(buffer'[w], x)
  BY <1>4, <1>5, AmongAppended
<1>7. ASSUME NEW x \in Fiber, NEW u \in Worker, Holds(u, x)
      PROVE  \E t \in Worker : Holds(t, x)'
  <2>1. cur[u] = x \/ Among(buffer[u], x) \/ Among(deque[u], x)
    BY <1>7, HoldsIs
  <2>2. CASE cur[u] = x
    BY <1>2, <2>2, HoldsIs
  <2>3. CASE Among(buffer[u], x)
    BY <1>4, <1>6, <2>3, HoldsIs
  <2>4. CASE Among(deque[u], x)
    <3>1. CASE u = v
      <4>1. x = y \/ Among(deque'[v], x)
        BY <1>1, <1>3, <1>4, <1>5, <2>4, <3>1, AmongParts
      <4> QED
        BY <1>6, <4>1, HoldsIs
    <3>2. CASE u # v
      BY <1>4, <2>4, <3>2, HoldsIs
    <3> QED
      BY <3>1, <3>2
  <2> QED
    BY <2>1, <2>2, <2>3, <2>4
<1> QED
  BY <1>2, <1>7, MovesLoseNone DEF SameWork

LEMMA ExecLosesNone ==
  ASSUME ForkJoinInv, NotLost, NEW w \in Worker, Exec(w)
  PROVE  NotLost'
<1>1. cur' = cur /\ buffer' = buffer /\ deque' = deque /\ fib \in [Fiber -> FiberType]
  BY DEF Exec, ForkJoinInv, FibersOK
<1>2. ASSUME NEW x \in Fiber
      PROVE  SameWork(x) \/ ~ Ready(x)'
  <2>1. PICK f, s : f = cur[w] /\ s = IF fib[f].stack = "null" THEN Spawned(fib[f]) ELSE fib[f]
    OBVIOUS
  <2>2. fib'[x] = IF x = f THEN Restored(s)
                  ELSE IF fib[f].ctx = "return" /\ x \in {fib[f].f1, fib[f].f2} THEN Dead
                  ELSE fib[x]
    BY <2>1 DEF Exec
  <2>3. CASE x = f
    <3>1. fib[f] \in FiberType
      BY <1>1, <2>3
    <3>2. s.alive = fib[f].alive /\ s.incounter = fib[f].incounter /\ s.outedge = fib[f].outedge
          /\ s \in FiberType
      BY <2>1, <3>1 DEF Spawned, FiberType
    <3>3. Restored(s).alive = s.alive /\ Restored(s).incounter = s.incounter
          /\ Restored(s).outedge = s.outedge
      BY <3>2 DEF Restored, FiberType
    <3> QED
      BY <2>2, <2>3, <3>2, <3>3 DEF SameWork
  <2>4. CASE x # f
    <3>1. fib'[x] = Dead \/ fib'[x] = fib[x]
      BY <2>2, <2>4
    <3> QED
      BY <3>1, DeadFacts DEF SameWork, Ready
  <2> QED
    BY <2>3, <2>4
<1> QED
  BY <1>1, <1>2, QuietLosesNone

(* The fiber that notifies is over; the one it notifies is ready only if   *)
(* it waited for nobody else, and is then put in the buffer.               *)
LEMMA ReturnedLosesNone ==
  ASSUME ForkJoinInv, NotLost, NEW w \in Worker, Returned(w)
  PROVE  NotLost'
<1>1. /\ FibersOK(fib, made, done) /\ fib \in [Fiber -> FiberType]
      /\ cur \in [Worker -> Fiber \cup {NoFiber}] /\ buffer \in [Worker -> Seq(Fiber)]
  BY DEF ForkJoinInv, VarTypes, FibersOK
<1>2. PICK f : f = cur[w]
  OBVIOUS
<1>3. cur' = [cur EXCEPT ![w] = NoFiber] /\ deque' = deque
  BY DEF Returned
<1>4. cur'[w] = NoFiber /\ \A v \in Worker \ {w} : cur'[v] = cur[v]
  BY <1>1, <1>3
<1>5. ASSUME \A x \in Fiber \ {f} :
               SameWork(x) \/ ~ Ready(x)' \/ \E v \in Worker : Holds(v, x)',
             ~ Ready(f)',
             \A v \in Worker, x \in Fiber : Among(buffer[v], x) => Among(buffer'[v], x)
      PROVE  NotLost'
  <2>1. ASSUME NEW x \in Fiber, NEW v \in Worker, Ready(x)', Holds(v, x)
        PROVE  Holds(v, x)'
    <3>1. x # f
      BY <1>5, <2>1
    <3>2. Among(deque[v], x) => Among(deque'[v], x)
      BY <1>3
    <3>3. cur[v] = x => cur'[v] = x
      BY <1>2, <1>4, <3>1
    <3> QED
      BY <1>5, <2>1, <3>2, <3>3, HoldsIs
  <2>2. \A x \in Fiber : SameWork(x) \/ ~ Ready(x)' \/ \E v \in Worker : Holds(v, x)'
    BY <1>5
  <2> QED
    BY <2>1, <2>2, MovesLoseNone
<1>6. CASE f \in Plain /\ fib[f].status = "pause"
  <2>1. fib' = fib /\ buffer' = buffer
    BY <1>2, <1>6 DEF Returned
  <2>2. ForkShape(fib, f)
    BY <1>1, <1>6 DEF FibersOK, PlainShape, Shaped
  <2>3. fib[f].incounter # 0
    BY <1>6, <2>2 DEF ForkShape, One
  <2>4. ~ Ready(f)' /\ \A x \in Fiber : SameWork(x)
    BY <2>1, <2>3 DEF Ready, SameWork
  <2> QED
    BY <1>5, <2>1, <2>4
<1>7. CASE f \in Plain /\ fib[f].status = "finish"
  <2>1. PICK g : g = fib[f].outedge
    OBVIOUS
  <2>2. /\ Open(fib, f) /\ fib[f].ctx = "used" /\ g \in Fiber
        /\ fib' = Notifying(fib, f, g) /\ MayNotify(fib, f, g)
        /\ buffer' = IF fib[g].incounter = 1 THEN [buffer EXCEPT ![w] = Append(@, g)] ELSE buffer
    BY <1>2, <1>7, <2>1, FinishedNotifies
  <2>3. /\ g # f /\ fib'[g].incounter = fib[g].incounter - 1
        /\ \A x \in Fiber \ {f, g} : fib'[x] = fib[x]
        /\ \A x \in Fiber : Open(fib', x) <=> Open(fib, x) /\ x # f
    <3>1. PICK F, G, m, d, q : F = fib /\ G = fib' /\ m = made /\ d = done /\ q = NoFiber
      OBVIOUS
    <3>2. /\ FibersOK(F, m, d) /\ f \in Plain /\ Open(F, f) /\ F[f].ctx = "used"
          /\ g = F[f].outedge /\ MayNotify(F, f, g) /\ G = Notifying(F, f, g)
      BY <1>1, <1>7, <2>1, <2>2, <3>1
    <3>3. /\ g # f /\ G[g].incounter = F[g].incounter - 1
          /\ \A x \in Fiber \ {f, g} : G[x] = F[x]
          /\ \A x \in Fiber : Open(G, x) <=> Open(F, x) /\ x # f
      BY <3>2, Notified
    <3> QED
      BY <3>1, <3>3
  <2>4. ~ Ready(f)'
    <3>1. f \in Fiber /\ f # Terminal /\ ~ Open(fib', f)
      BY <1>7, <2>3, FiberFacts DEF Plain
    <3> QED
      BY <3>1 DEF Ready, Open
  <2>5. \A v \in Worker, x \in Fiber : Among(buffer[v], x) => Among(buffer'[v], x)
    <3>1. CASE fib[g].incounter = 1
      <4>1. /\ buffer'[w] = Append(buffer[w], g) /\ buffer[w] \in Seq(Fiber)
            /\ \A v \in Worker \ {w} : buffer'[v] = buffer[v]
        BY <1>1, <2>2, <3>1
      <4> QED
        BY <2>2, <4>1, AmongAppended
    <3>2. CASE fib[g].incounter # 1
      BY <2>2, <3>2
    <3> QED
      BY <3>1, <3>2
  <2>6. Ready(g)' => Holds(w, g)'
    <3> SUFFICES ASSUME Ready(g)' PROVE Holds(w, g)'
      OBVIOUS
    <3>1. fib[g].incounter = 1
      <4>1. fib'[g].incounter = 0 /\ fib[g].incounter \in 0..2
        BY <1>1, <2>2 DEF Ready, FiberType
      <4> QED
        BY <2>3, <4>1
    <3>2. buffer'[w] = Append(buffer[w], g) /\ buffer[w] \in Seq(Fiber)
      BY <1>1, <2>2, <3>1
    <3> QED
      BY <2>2, <3>2, AmongAppended, HoldsIs
  <2>7. \A x \in Fiber \ {f} : SameWork(x) \/ ~ Ready(x)' \/ \E v \in Worker : Holds(v, x)'
    BY <2>3, <2>6 DEF SameWork
  <2> QED
    BY <1>5, <2>4, <2>5, <2>7
<1>8. CASE f = Terminal
  <2>1. fib[f].status = "exit_launch"
    BY <1>1, <1>8 DEF FibersOK, TerminalShape
  <2>2. fib' = [fib EXCEPT ![f].alive = FALSE] /\ buffer' = buffer
    BY <1>2, <2>1 DEF Returned
  <2>3. f \in Fiber /\ fib[f] \in FiberType
    BY <1>1, <1>8, FiberFacts
  <2>4. ~ fib'[f].alive /\ \A x \in Fiber \ {f} : fib'[x] = fib[x]
    <3>1. fib'[f] = [fib[f] EXCEPT !.alive = FALSE]
      BY <1>1, <2>2, <2>3
    <3>2. ~ fib'[f].alive
      BY <2>3, <3>1 DEF FiberType
    <3> QED
      BY <1>1, <2>2, <3>2
  <2>5. ~ Ready(f)' /\ \A x \in Fiber \ {f} : SameWork(x)
    BY <2>4 DEF Ready, SameWork
  <2> QED
    BY <1>5, <2>2, <2>5
<1>9. f = Terminal \/ (f \in Plain /\ fib[f].status \in {"pause", "finish"})
  <2>1. f = Terminal \/ f \in Plain
    BY <1>2, ReturnedShape DEF Returned, Returning
  <2>2. f \in Plain => fib[f].status \in {"pause", "finish"}
    BY <1>1 DEF FibersOK, PlainShape, Shaped, ForkShape
  <2> QED
    BY <2>1, <2>2
<1> QED
  BY <1>6, <1>7, <1>8, <1>9

(* The parent waits from now on, its children are in the buffer. *)
LEMMA ForkLosesNone ==
  ASSUME ForkJoinInv, NotLost, NEW w \in Worker, Fork(w)
  PROVE  NotLost'
<1>1. /\ FibersOK(fib, made, done) /\ buffer \in [Worker -> Seq(Fiber)]
  BY DEF ForkJoinInv, VarTypes
<1>2. PICK p, g, h : p = currentFiber[w] /\ g = made /\ h = made + 1
  OBVIOUS
<1>3. wpc[w] = "run" /\ at[w].at = "body" /\ h < Terminal
  BY <1>2 DEF Fork, Running
<1>4. buffer[w] = <<>> /\ p \in Plain /\ Open(fib, p) /\ fib[p].ctx = "used"
  <2>1. RunningShape(fib, cur[w], at[w], currentFiber[w]) /\ buffer[w] = <<>>
    BY <1>3, RunningFacts
  <2> QED
    BY <1>2, <1>3, <2>1 DEF RunningShape
<1>5. fib' = Forking(fib, p, g, h)
  BY <1>2 DEF Fork, Forking
<1>6. /\ fib'[p].incounter = 2 /\ g \in Plain /\ h \in Plain
      /\ \A x \in Fiber \ {p, g, h} : fib'[x] = fib[x]
  <2>1. PICK F, G, m, d, q : F = fib /\ G = fib' /\ m = made /\ d = done /\ q = NoFiber
    OBVIOUS
  <2>2. /\ FibersOK(F, m, d) /\ p \in Plain /\ Open(F, p) /\ F[p].ctx = "used"
        /\ g = m /\ h = m + 1 /\ h < Terminal /\ G = Forking(F, p, g, h)
    BY <1>1, <1>2, <1>3, <1>4, <1>5, <2>1
  <2>3. /\ G[p].incounter = 2 /\ g \in Plain /\ h \in Plain
        /\ \A x \in Fiber \ {p, g, h} : G[x] = F[x]
    BY <2>2, Forked
  <2> QED
    BY <2>1, <2>3
<1>7. /\ cur' = cur /\ deque' = deque /\ buffer' = [buffer EXCEPT ![w] = @ \o <<h, g>>]
  BY <1>2 DEF Fork
<1>8. /\ buffer'[w] = <<h, g>> /\ \A v \in Worker \ {w} : buffer'[v] = buffer[v]
  <2>1. buffer'[w] = buffer[w] \o <<h, g>> /\ \A v \in Worker \ {w} : buffer'[v] = buffer[v]
    BY <1>1, <1>7
  <2>2. <<>> \o <<h, g>> = <<h, g>>
    OBVIOUS
  <2> QED
    BY <1>4, <2>1, <2>2
<1>9. Holds(w, g)' /\ Holds(w, h)'
  <2>1. buffer'[w][1] = h /\ buffer'[w][2] = g /\ 1 \in 1..Len(buffer'[w]) /\ 2 \in 1..Len(buffer'[w])
    BY <1>8
  <2>2. Among(buffer'[w], g) /\ Among(buffer'[w], h)
    BY <2>1 DEF Among
  <2> QED
    BY <2>2, HoldsIs
<1>10. ~ Ready(p)'
  BY <1>6 DEF Ready
<1>11. ASSUME NEW x \in Fiber, NEW v \in Worker, Holds(v, x)
       PROVE  Holds(v, x)'
  <2>1. Among(buffer[v], x) => Among(buffer'[v], x)
    <3>1. ~ Among(<<>>, x)
      BY DEF Among
    <3> QED
      BY <1>4, <1>8, <3>1
  <2> QED
    BY <1>7, <1>11, <2>1, HoldsIs
<1>12. \A x \in Fiber : SameWork(x) \/ ~ Ready(x)' \/ \E v \in Worker : Holds(v, x)'
  BY <1>6, <1>9, <1>10 DEF SameWork
<1> QED
  BY <1>11, <1>12, MovesLoseNone

LEMMA EndBodyLosesNone ==
  ASSUME ForkJoinInv, NotLost, NEW w \in Worker, EndBody(w)
  PROVE  NotLost'
<1>1. cur' = cur /\ buffer' = buffer /\ deque' = deque /\ fib \in [Fiber -> FiberType]
  BY DEF EndBody, ForkJoinInv, FibersOK
<1>2. PICK p : /\ p = fib[at[w].f].up
               /\ \/ fib' = fib
                  \/ fib' = [fib EXCEPT ![p] = [Saved(@) EXCEPT !.status = "finish"]]
  BY DEF EndBody
<1>3. ASSUME NEW x \in Fiber
      PROVE  SameWork(x)
  <2>1. fib[x] \in FiberType
    BY <1>1
  <2>2. fib'[x] = fib[x] \/ fib'[x] = [Saved(fib[x]) EXCEPT !.status = "finish"]
    BY <1>1, <1>2
  <2>3. PICK s : s = Saved(fib[x])
    OBVIOUS
  <2>4. s \in FiberType /\ s.alive = fib[x].alive /\ s.incounter = fib[x].incounter
        /\ s.outedge = fib[x].outedge
    BY <2>1, <2>3 DEF Saved, FiberType
  <2>5. PICK t : t = [s EXCEPT !.status = "finish"]
    OBVIOUS
  <2>6. t.alive = s.alive /\ t.incounter = s.incounter /\ t.outedge = s.outedge
    BY <2>4, <2>5 DEF FiberType
  <2>7. fib'[x] = fib[x] \/ fib'[x] = t
    BY <2>2, <2>3, <2>5
  <2> QED
    BY <2>4, <2>6, <2>7 DEF SameWork
<1> QED
  BY <1>1, <1>3, QuietLosesNone

LEMMA TakeLosesNone ==
  ASSUME ForkJoinInv, NotLost, NEW w \in Worker, Take(w)
  PROVE  NotLost'
<1>1. /\ cur' = cur /\ fib \in [Fiber -> FiberType]
      /\ buffer \in [Worker -> Seq(Fiber)] /\ deque \in [Worker -> Seq(Fiber)]
  BY DEF Take, ForkJoinInv, VarTypes, FibersOK
<1>2. PICK p, h : /\ p = at[w].f /\ h = fib[p].f2
                  /\ \/ fib' = [fib EXCEPT ![p].status = "finish"]
                     \/ fib' = [fib EXCEPT ![h].stack = "notown"]
  BY DEF Take
<1>3. ASSUME NEW x \in Fiber
      PROVE  SameWork(x)
  <2>1. fib[x] \in FiberType
    BY <1>1
  <2>2. PICK s, t : s = [fib[x] EXCEPT !.status = "finish"] /\ t = [fib[x] EXCEPT !.stack = "notown"]
    OBVIOUS
  <2>3. /\ s.alive = fib[x].alive /\ s.incounter = fib[x].incounter /\ s.outedge = fib[x].outedge
        /\ t.alive = fib[x].alive /\ t.incounter = fib[x].incounter /\ t.outedge = fib[x].outedge
    BY <2>1, <2>2 DEF FiberType
  <2>4. fib'[x] \in {fib[x], s, t}
    BY <1>1, <1>2, <2>2
  <2> QED
    BY <2>3, <2>4 DEF SameWork
<1>4. CASE deque[w] = <<>>
  <2>1. buffer' = buffer /\ deque' = deque
    BY <1>4 DEF Take
  <2> QED
    BY <1>1, <1>3, <2>1, QuietLosesNone
<1>5. CASE deque[w] # <<>>
  <2>1. /\ buffer' = [buffer EXCEPT ![w] = Append(buffer[w], Last(deque[w]))]
        /\ deque' = [deque EXCEPT ![w] = Front(deque[w])]
    BY <1>5 DEF Take
  <2>2. /\ buffer'[w] = Append(buffer[w], Last(deque[w])) /\ deque'[w] = Front(deque[w])
        /\ \A v \in Worker \ {w} : buffer'[v] = buffer[v] /\ deque'[v] = deque[v]
    BY <1>1, <2>1
  <2>3. buffer[w] \in Seq(Fiber) /\ deque[w] \in Seq(Fiber) /\ Last(deque[w]) \in Fiber
    <3>1. Len(deque[w]) \in 1..Len(deque[w])
      BY <1>1, <1>5
    <3> QED
      BY <1>1, <3>1 DEF Last
  <2>4. /\ Among(buffer'[w], Last(deque[w]))
        /\ \A x : Among(buffer[w], x) => Among(buffer'[w], x)
    BY <2>2, <2>3, AmongAppended
  <2>5. ASSUME NEW x \in Fiber, NEW v \in Worker, Holds(v, x)
        PROVE  Holds(v, x)'
    <3>1. CASE v = w
      <4>1. Among(deque[w], x) => x = Last(deque[w]) \/ Among(deque'[w], x)
        BY <1>5, <2>2, <2>3, AmongParts
      <4> QED
        BY <1>1, <2>4, <2>5, <3>1, <4>1, HoldsIs
    <3>2. CASE v # w
      BY <1>1, <2>2, <2>5, <3>2, HoldsIs
    <3> QED
      BY <3>1, <3>2
  <2> QED
    BY <1>3, <2>5, MovesLoseNone
<1> QED
  BY <1>4, <1>5

LEMMA StepLosesNone ==
  ASSUME ForkJoinInv, NotLost, [Next]_vars
  PROVE  NotLost'
<1>1. CASE UNCHANGED vars
  BY <1>1, QuietLosesNone DEF vars, SameWork
<1>2. CASE \E w \in Worker : Step(w)
  <2>1. PICK w \in Worker : Step(w)
    BY <1>2
  <2>2. CASE Leave(w)
    <3>1. fib' = fib /\ cur' = cur /\ buffer' = buffer /\ deque' = deque
      BY <2>2 DEF Leave
    <3> QED
      BY <3>1, QuietLosesNone DEF SameWork
  <2>3. CASE ExecTerminal(w)
    <3>1. /\ fib' = [fib EXCEPT ![Terminal].ctx = "used"] /\ fib \in [Fiber -> FiberType]
          /\ cur' = cur /\ buffer' = buffer /\ deque' = deque
      BY <2>3 DEF ExecTerminal, ForkJoinInv, FibersOK
    <3>2. ASSUME NEW x \in Fiber
          PROVE  SameWork(x)
      <4>1. fib[x] \in FiberType
        BY <3>1
      <4>2. PICK s : s = [fib[x] EXCEPT !.ctx = "used"]
        OBVIOUS
      <4>3. s.alive = fib[x].alive /\ s.incounter = fib[x].incounter /\ s.outedge = fib[x].outedge
        BY <4>1, <4>2 DEF FiberType
      <4>4. fib'[x] \in {fib[x], s}
        BY <3>1, <4>2
      <4> QED
        BY <4>3, <4>4 DEF SameWork
    <3> QED
      BY <3>1, <3>2, QuietLosesNone
  <2> QED
    BY <2>1, <2>2, <2>3, FlushLosesNone, PopOrAcquireLosesNone, StealLosesNone, ExecLosesNone,
       ReturnedLosesNone, ForkLosesNone, EndBodyLosesNone, TakeLosesNone DEF Step
<1> QED
  BY <1>1, <1>2 DEF Next

(* At first the body is the one ready fiber, and First has it. *)
LEMMA InitLosesNone == Init => NotLost
<1> SUFFICES ASSUME Init, NEW x \in Fiber, Ready(x) PROVE \E w \in Worker : Holds(w, x)
  BY DEF NotLost
<1>1. x = Body
  <2>1. fib[x] = CASE x = Body -> NewFiber(0, Terminal, "finish")
                   [] x = Terminal -> NewFiber(1, NoFiber, "exit_launch")
                   [] OTHER -> Dead
    BY DEF Init
  <2>2. CASE x = Terminal /\ x # Body
    <3>1. fib[x] = NewFiber(1, NoFiber, "exit_launch")
      BY <2>1, <2>2
    <3>2. fib[x].incounter = 1
      BY <3>1 DEF NewFiber
    <3> QED
      BY <3>2 DEF Ready
  <2>3. CASE x # Terminal /\ x # Body
    <3>1. fib[x] = Dead
      BY <2>1, <2>3
    <3> QED
      BY <3>1, DeadFacts DEF Ready
  <2> QED
    BY <2>2, <2>3
<1>2. buffer[First] = <<Body>> /\ First \in Worker
  BY WorkerAssumption DEF Init
<1>3. 1 \in 1..Len(buffer[First]) /\ buffer[First][1] = Body
  BY <1>2
<1>4. Among(buffer[First], Body)
  BY <1>3 DEF Among
<1> QED
  BY <1>1, <1>2, <1>4, HoldsIs

(* A set of fibers has a youngest one. *)
LEMMA YoungestFiber ==
  ASSUME NEW S \in SUBSET Fiber, S # {}
  PROVE  \E k \in S : \A y \in S : y <= k
<1> DEFINE Age(y) == Terminal - y
           T == {Age(y) : y \in S}
<1>1. Terminal \in Nat /\ \A y \in S : y \in 0..Terminal
  BY FiberFacts DEF Fiber
<1>2. T \in SUBSET Fiber /\ T # {}
  <2>1. \A y \in S : Age(y) \in 0..Terminal
    BY <1>1
  <2> QED
    BY <2>1 DEF Fiber
<1>3. PICK a \in T : \A b \in T : a <= b
  BY <1>2, OldestFiber
<1>4. PICK k \in S : a = Age(k)
  BY <1>3
<1>5. ASSUME NEW y \in S
      PROVE  y <= k
  <2>1. Age(k) <= Age(y)
    BY <1>3, <1>4
  <2> QED
    BY <1>1, <2>1
<1> QED
  BY <1>5

(* Until the end is announced a fiber is ready: the youngest of those that *)
(* are not over, which has no children left to wait for.                   *)
LEMMA OneIsReady ==
  ASSUME ForkJoinInv, ~ done
  PROVE  \E x \in Fiber : Ready(x)
<1> DEFINE S == {f \in Plain : Open(fib, f)}
<1>1. FibersOK(fib, made, done)
  BY DEF ForkJoinInv
<1>2. CASE S = {}
  <2>1. ~ Open(fib, Body)
    BY <1>2, FiberFacts
  <2>2. fib[Terminal].alive /\ fib[Terminal].incounter = 0
    BY <1>1, <2>1 DEF FibersOK, TerminalShape, One
  <2> QED
    BY <2>2, FiberFacts DEF Ready
<1>3. CASE S # {}
  <2>1. S \in SUBSET Fiber
    BY FiberFacts
  <2>2. PICK k \in S : \A y \in S : y <= k
    BY <1>3, <2>1, YoungestFiber
  <2>3. k \in Plain /\ k \in Fiber /\ Open(fib, k) /\ Shaped(fib, k)
    BY <1>1, <2>1, <2>2 DEF FibersOK, PlainShape
  <2>4. fib[k].incounter = 0
    <3>1. CASE fib[k].ctx # "return"
      BY <2>3, <3>1 DEF Shaped
    <3>2. CASE fib[k].ctx = "return"
      <4>1. PICK g, h : g = fib[k].f1 /\ h = fib[k].f2
        OBVIOUS
      <4>2. /\ g \in Plain /\ h \in Plain /\ k < g /\ g < h
            /\ fib[k].incounter = One(fib, g) + One(fib, h)
        BY <2>3, <3>2, <4>1 DEF Shaped, ForkShape
      <4>3. ~ (g <= k) /\ ~ (h <= k)
        BY <2>3, <4>2, FiberFacts
      <4>4. ~ Open(fib, g) /\ ~ Open(fib, h)
        BY <2>2, <4>2, <4>3
      <4>5. One(fib, g) = 0 /\ One(fib, h) = 0
        BY <4>4 DEF One
      <4> QED
        BY <4>2, <4>5
    <3> QED
      BY <3>1, <3>2
  <2> QED
    BY <2>3, <2>4 DEF Ready, Open
<1> QED
  BY <1>2, <1>3

(* What a worker holds is an entry of Held. *)
LEMMA HeldIsEntry ==
  ASSUME ForkJoinInv, NEW w \in Worker, NEW x \in Fiber, Holds(w, x)
  PROVE  \E i \in DOMAIN Held(w) : Held(w)[i] = x
<1>1. PICK B, D, c : B = buffer[w] /\ D = deque[w] /\ c = cur[w]
  OBVIOUS
<1>2. B \in Seq(Fiber) /\ D \in Seq(Fiber) /\ c \in Fiber \cup {NoFiber}
  BY <1>1 DEF ForkJoinInv, VarTypes
<1>3. PICK C, H, n : C = B \o D /\ H = Append(C, c) /\ n = Len(C)
  OBVIOUS
<1>4. C \in Seq(Fiber) /\ C \in Seq(Fiber \cup {NoFiber}) /\ n \in Nat
  BY <1>2, <1>3
<1>5. Held(w) = H
  <2>1. C \o <<c>> = Append(C, c)
    BY <1>2, <1>4
  <2> QED
    BY <1>1, <1>3, <2>1 DEF Held
<1>6. /\ Len(H) = n + 1 /\ H[n + 1] = c /\ H \in Seq(Fiber \cup {NoFiber})
      /\ \A j \in 1..n : H[j] = C[j]
  BY <1>2, <1>3, <1>4, AppendProperties
<1>7. DOMAIN H = 1..(n + 1)
  BY <1>6
<1>8. CASE c = x
  <2>1. n + 1 \in 1..(n + 1)
    BY <1>4
  <2> QED
    BY <1>5, <1>6, <1>7, <1>8, <2>1
<1>9. CASE Among(B, x) \/ Among(D, x)
  <2>1. Among(C, x)
    BY <1>2, <1>3, <1>9, AmongJoined
  <2>2. PICK j \in 1..n : C[j] = x
    BY <1>3, <2>1 DEF Among
  <2>3. j \in 1..(n + 1)
    BY <1>4, <2>2
  <2> QED
    BY <1>5, <1>6, <1>7, <2>2, <2>3
<1> QED
  BY <1>1, <1>8, <1>9, HoldsIs

LEMMA InvLost == ForkJoinInv /\ NotLost => NoFiberIsLost
<1> SUFFICES ASSUME ForkJoinInv, NotLost PROVE NoFiberIsLost
  OBVIOUS
<1>1. \A f \in Fiber : Ready(f) =>
        \E w \in Worker : \E i \in DOMAIN Held(w) : Held(w)[i] = f
  BY HeldIsEntry DEF NotLost
<1>2. ASSUME ~ done
      PROVE  \E w \in Worker : \E i \in DOMAIN Held(w) : Held(w)[i] # NoFiber
  <2>1. PICK x \in Fiber : Ready(x)
    BY <1>2, OneIsReady
  <2>2. x # NoFiber
    BY FiberFacts
  <2> QED
    BY <1>1, <2>1, <2>2
<1> QED
  BY <1>1, <1>2 DEF NoFiberIsLost

(* A fiber that waits for nothing is always in a buffer, a deque or a      *)
(* worker's hands, and until the end of the run is announced some worker   *)
(* has a fiber: it never happens that all wait for all.                    *)
THEOREM NoneIsLost == Spec => []NoFiberIsLost
<1>1. Init => NotLost
  BY InitLosesNone
<1>2. ForkJoinInv /\ NotLost /\ [Next]_vars => NotLost'
  BY StepLosesNone
<1>3. ForkJoinInv /\ NotLost => NoFiberIsLost
  BY InvLost
<1> QED
  BY <1>1, <1>2, <1>3, ForkJoinInvariant, PTL DEF Spec

-----------------------------------------------------------------------------
(* The stacks                                                              *)

(* The recursion that defines StackOf has a solution: the one fiber of the *)
(* frames that does not run inline.                                        *)
LEMMA StackUnfolds ==
  ASSUME \A y \in Fiber : Inline(fib, y) => fib[y].up \in Fiber
  PROVE  \A f \in Fiber : StackOf(f) = IF Inline(fib, f) THEN StackOf(fib[f].up) ELSE f
<1> DEFINE Solves(b) == b = [g \in Fiber |-> IF fib[g].stack = "notown" THEN b[fib[g].up] ELSE g]
           Owner(g) == CHOOSE x \in Fiber : x \in Frames(fib, g) /\ ~ Inline(fib, x)
           B == CHOOSE b : Solves(b)
<1>1. \A f : StackOf(f) = B[f]
  BY DEF StackOf
<1>2. ASSUME NEW g \in Fiber, Inline(fib, g)
      PROVE  Owner(g) = Owner(fib[g].up)
  <2>1. Frames(fib, g) = {g} \cup Frames(fib, fib[g].up)
    BY <1>2, FramesUnfold
  <2>2. \A x \in Fiber : (x \in Frames(fib, g) /\ ~ Inline(fib, x))
                         <=> (x \in Frames(fib, fib[g].up) /\ ~ Inline(fib, x))
    BY <1>2, <2>1
  <2> QED
    BY <2>2
<1>3. ASSUME NEW g \in Fiber, ~ Inline(fib, g)
      PROVE  Owner(g) = g
  <2>1. Frames(fib, g) = {g}
    BY <1>3, FramesUnfold
  <2> QED
    BY <1>3, <2>1
<1>4. Solves([g \in Fiber |-> Owner(g)])
  <2> HIDE DEF Owner
  <2>1. PICK b : b = [g \in Fiber |-> Owner(g)]
    OBVIOUS
  <2>2. ASSUME NEW g \in Fiber
        PROVE  b[g] = IF fib[g].stack = "notown" THEN b[fib[g].up] ELSE g
    <3>1. CASE Inline(fib, g)
      <4>1. fib[g].up \in Fiber /\ Owner(g) = Owner(fib[g].up)
        BY <1>2, <3>1
      <4>2. b[g] = Owner(g) /\ b[fib[g].up] = Owner(fib[g].up)
        BY <2>1, <4>1
      <4> QED
        BY <3>1, <4>1, <4>2 DEF Inline
    <3>2. CASE ~ Inline(fib, g)
      <4>1. b[g] = g
        BY <1>3, <2>1, <3>2
      <4> QED
        BY <3>2, <4>1 DEF Inline
    <3> QED
      BY <3>1, <3>2
  <2>3. b = [g \in Fiber |-> b[g]]
    BY <2>1
  <2>4. Solves(b)
    BY <2>2, <2>3
  <2> QED
    BY <2>1, <2>4
<1>5. Solves(B)
  BY <1>4
<1> QED
  BY <1>1, <1>5 DEF Inline

LEMMA StackOnFrames ==
  ASSUME NEW m, NEW d, FibersOK(fib, m, d), NEW f \in Plain, Open(fib, f)
  PROVE  StackOf(f) \in Frames(fib, f)
<1> DEFINE T == {x \in Frames(fib, f) : StackOf(x) \notin Frames(fib, x)}
<1>1. PICK F : F = fib
  OBVIOUS
<1>2. FibersOK(F, m, d) /\ f \in Fiber /\ Open(F, f)
  BY <1>1, FiberFacts
<1>3. \A y \in Fiber : Inline(F, y) => F[y].up \in Fiber
  BY <1>2, InlineHasParent
<1>4. /\ f \in Frames(F, f) /\ Frames(F, f) \subseteq Fiber
      /\ \A y \in Frames(F, f) : Inline(F, y) => F[y].up \in Frames(F, f)
  BY <1>2, <1>3, FramesUnfold
<1>5. \A y \in Fiber : StackOf(y) = IF Inline(F, y) THEN StackOf(F[y].up) ELSE y
  BY <1>1, <1>3, StackUnfolds
<1>6. ASSUME T # {}
      PROVE  FALSE
  <2>1. T \in SUBSET Fiber
    BY <1>1, <1>4
  <2>2. PICK k \in T : \A y \in T : k <= y
    BY <1>6, <2>1, OldestFiber
  <2>3. k \in Frames(F, f) /\ k \in Fiber /\ StackOf(k) \notin Frames(F, k)
    BY <1>1, <1>4, <2>2
  <2>4. CASE ~ Inline(F, k)
    <3>1. StackOf(k) = k
      BY <1>5, <2>3, <2>4
    <3>2. k \in Frames(F, k)
      BY <1>3, <2>3, FramesUnfold
    <3> QED
      BY <2>3, <3>1, <3>2
  <2>5. CASE Inline(F, k)
    <3>1. PICK p : p = F[k].up
      OBVIOUS
    <3>2. k \in Plain /\ Open(F, k)
      BY <1>2, <2>3, FramesOpen
    <3>3. k # Body
      BY <1>2, <2>3, <2>5, BodyOutermost
    <3>4. p \in Plain /\ p < k
      BY <1>2, <3>1, <3>2, <3>3, ParentFacts
    <3>5. p \in Frames(F, f)
      BY <1>4, <2>3, <2>5, <3>1
    <3>6. p \notin T
      <4>1. p \in Int /\ k \in Int
        BY <3>2, <3>4, FiberFacts
      <4> QED
        BY <2>2, <3>4, <4>1
    <3>7. StackOf(p) \in Frames(F, p)
      BY <1>1, <3>5, <3>6
    <3>8. StackOf(k) = StackOf(p)
      BY <1>5, <2>3, <2>5, <3>1
    <3>9. Frames(F, k) = {k} \cup Frames(F, p)
      BY <1>3, <2>3, <2>5, <3>1, FramesUnfold
    <3> QED
      BY <2>3, <3>7, <3>8, <3>9
  <2> QED
    BY <2>4, <2>5
<1> QED
  BY <1>1, <1>4, <1>6

(* A worker that runs stands on the frames of its current fiber; no frame  *)
(* of it is that of a first child that gives way to its sibling.           *)
LEMMA RunsOnFrames ==
  ASSUME ForkJoinInv, NEW w \in Worker, Running(w), NEW F, F = fib, NEW c, c = cur[w]
  PROVE  /\ c \in Plain /\ Open(F, c) /\ Outermost(F, c)
         /\ StackOf(at[w].f) \in Frames(F, c)
         /\ \A p \in Plain : BothInline(F, p) => F[p].f1 \notin Frames(F, c)
<1>1. FibersOK(fib, made, done) /\ VarTypes /\ HeldOnce /\ Joining /\ \A v \in Worker : Mine(v)
  BY DEF ForkJoinInv
<1>2. PICK m, d, pc, a, r, B, D :
        /\ m = made /\ d = done /\ a = at[w] /\ r = currentFiber[w]
        /\ B = buffer[w] /\ D = deque[w] /\ pc = wpc[w]
  OBVIOUS
<1>3. /\ RunningShape(F, c, a, r) /\ B = <<>>
  BY <1>2, RunningFacts DEF Running
<1>4. c \in Plain /\ Open(F, c) /\ c \in Fiber /\ FibersOK(F, m, d) /\ c # Terminal
  BY <1>1, <1>2, <1>3, FiberFacts DEF RunningShape
<1>5. Outermost(F, c)
  <2>1. /\ WorkerShape(F, pc, c, a, r, B, D)
        /\ pc \in {"flush", "loop", "acquire", "run", "returned", "exited"}
    BY <1>1, <1>2 DEF Mine, WorkerFine, VarTypes, Pcs
  <2>2. c = Top(B, c) /\ c # NoFiber
    BY <1>3, <1>4, FiberFacts DEF Top
  <2> QED
    BY <1>4, <2>1, <2>2, TopFacts
<1>6. \A y \in Fiber : Inline(F, y) => F[y].up \in Fiber
  BY <1>4, InlineHasParent
<1>7. StackOf(a.f) \in Frames(F, c)
  <2>1. CASE a = [at |-> "body", f |-> c]
    <3>1. StackOf(c) \in Frames(F, c)
      BY <1>4, StackOnFrames
    <3> QED
      BY <2>1, <3>1
  <2>2. CASE a = [at |-> "take", f |-> F[c].up] /\ IsFirst(F, c)
    <3>1. PICK p : p = F[c].up
      OBVIOUS
    <3>2. Inline(F, c) /\ c # Body
      BY <1>4, <2>2, BodyOutermost DEF IsFirst
    <3>3. p \in Plain /\ Open(F, p)
      BY <1>4, <3>1, <3>2, ParentFacts
    <3>4. StackOf(p) \in Frames(F, p)
      BY <1>4, <3>3, StackOnFrames
    <3>5. Frames(F, c) = {c} \cup Frames(F, p)
      BY <1>4, <1>6, <3>1, <3>2, FramesUnfold
    <3> QED
      BY <2>2, <3>1, <3>4, <3>5
  <2> QED
    BY <1>3, <2>1, <2>2 DEF RunningShape
<1>8. ASSUME NEW p \in Plain, BothInline(F, p), F[p].f1 \in Frames(F, c)
      PROVE  FALSE
  <2>1. PICK g : g = F[p].f1
    OBVIOUS
  <2>2. F[g].ctx = "used"
    BY <1>1, <1>8, <2>1 DEF Joining
  <2>3. PICK u \in Worker : wpc[u] = "returned" /\ cur[u] = g
    BY <1>1, <1>8, <2>1 DEF Joining
  <2>4. u # w
    BY <2>3 DEF Running
  <2>5. g # c
    <3>1. Holds(u, g) /\ Holds(w, c)
      BY <2>3, CurIsHeld
    <3> QED
      BY <1>1, <1>4, <2>4, <3>1, HeldByOne
  <2>6. PICK y \in Frames(F, c) : Inline(F, y) /\ F[y].up = g
    BY <1>4, <1>6, <1>8, <2>1, <2>5, FramesAbove
  <2>7. y \in Plain /\ Open(F, y)
    BY <1>4, <2>6, FramesOpen
  <2>8. y # Body
    BY <1>4, <2>6, <2>7, BodyOutermost, FiberFacts
  <2>9. F[g].ctx = "return"
    BY <1>4, <2>6, <2>7, <2>8, ParentFacts
  <2> QED
    BY <2>2, <2>9
<1> QED
  BY <1>2, <1>4, <1>5, <1>7, <1>8

LEMMA InvStacks == ForkJoinInv => StacksAreExclusive
<1> SUFFICES ASSUME ForkJoinInv, NEW w \in Worker, Running(w)
             PROVE  /\ fib[StackOf(at[w].f)].alive
                    /\ \A v \in Worker \ {w} : Running(v) => StackOf(at[v].f) # StackOf(at[w].f)
  BY DEF StacksAreExclusive
<1>1. PICK F, m, d, a : F = fib /\ m = made /\ d = done /\ a = cur[w]
  OBVIOUS
<1>2. FibersOK(F, m, d)
  BY <1>1 DEF ForkJoinInv
<1>3. a \in Plain /\ Open(F, a) /\ Outermost(F, a) /\ StackOf(at[w].f) \in Frames(F, a)
  BY <1>1, RunsOnFrames
<1>4. \A p \in Plain : BothInline(F, p) => F[p].f1 \notin Frames(F, a)
  BY <1>1, RunsOnFrames
<1>5. fib[StackOf(at[w].f)].alive
  BY <1>1, <1>2, <1>3, FramesOpen DEF Open
<1>6. ASSUME NEW v \in Worker \ {w}, Running(v)
      PROVE  StackOf(at[v].f) # StackOf(at[w].f)
  <2>1. PICK b : b = cur[v]
    OBVIOUS
  <2>2. b \in Plain /\ Open(F, b) /\ Outermost(F, b) /\ StackOf(at[v].f) \in Frames(F, b)
    BY <1>1, <1>6, <2>1, RunsOnFrames
  <2>3. \A p \in Plain : BothInline(F, p) => F[p].f1 \notin Frames(F, b)
    BY <1>1, <1>6, <2>1, RunsOnFrames
  <2>4. a # b
    <3>1. Holds(w, a) /\ Holds(v, b)
      BY <1>1, <2>1, CurIsHeld
    <3>2. a \in Fiber /\ HeldOnce
      BY <1>3, FiberFacts DEF ForkJoinInv
    <3> QED
      BY <3>1, <3>2, HeldByOne
  <2>5. \A p \in Plain : BothInline(F, p) =>
          F[p].f1 \notin Frames(F, a) /\ F[p].f1 \notin Frames(F, b)
    BY <1>4, <2>3
  <2>6. Frames(F, a) \cap Frames(F, b) = {}
    BY <1>2, <1>3, <2>2, <2>4, <2>5, FramesDisjoint
  <2> QED
    BY <1>3, <2>2, <2>6
<1> QED
  BY <1>5, <1>6

(* No two workers run on one stack, and a stack in use belongs to a fiber  *)
(* that exists, however the fibers have been stolen.                       *)
THEOREM StacksExclusive == Spec => []StacksAreExclusive
BY ForkJoinInvariant, InvStacks, PTL

-----------------------------------------------------------------------------
(* A run of ForkJoin is a run of SeriesParallel                            *)

(* A worker runs the body of its current fiber only. *)
LEMMA RunsFacts ==
  ASSUME ForkJoinInv, NEW x, RunsNow(x)
  PROVE  \E w \in Worker : /\ Running(w) /\ at[w].at = "body" /\ cur[w] = x
                           /\ x \in Plain /\ Open(fib, x) /\ fib[x].ctx = "used"
<1>1. PICK w \in Worker : Running(w) /\ at[w] = [at |-> "body", f |-> x]
  BY DEF RunsNow
<1>2. RunningShape(fib, cur[w], at[w], currentFiber[w])
  BY <1>1, RunningFacts DEF Running
<1>3. at[w].at = "body" /\ at[w].f = x
  BY <1>1
<1>4. cur[w] = x
  BY <1>2, <1>3 DEF RunningShape
<1> QED
  BY <1>1, <1>2, <1>3, <1>4 DEF RunningShape

(* What the phases are, and who has none of the phases of a runner. *)
PlainPhase(x) ==
  /\ x >= made => Phase(x) = "unborn"
  /\ RunsNow(x) => Phase(x) = "running"
  /\ fib[x].ctx = "return" => Phase(x) = "waiting"
  /\ fib[x].alive /\ fib[x].ctx = "begin" => Phase(x) = "ready"
  /\ fib[x].ctx = "used" /\ ~ RunsNow(x) => Phase(x) = "done"
  /\ ~ fib[x].alive /\ ~ (x >= made) => Phase(x) = "done"

TerminalPhase ==
  /\ fib[Terminal].incounter = 1 => Phase(Terminal) = "blocked"
  /\ fib[Terminal].incounter = 0 /\ fib[Terminal].ctx = "begin" /\ fib[Terminal].alive
     => Phase(Terminal) = "ready"
  /\ fib[Terminal].ctx = "used" /\ ~ done => Phase(Terminal) = "running"
  /\ fib[Terminal].ctx = "used" /\ done => Phase(Terminal) = "done"

NotRun ==
  \A w \in Worker : \A x \in Fiber :
    cur[w] = x /\ ~ (Running(w) /\ at[w].at = "body") => ~ RunsNow(x)

PhaseTable == (\A x \in Plain : PlainPhase(x)) /\ TerminalPhase /\ NotRun

LEMMA PhaseIs == ForkJoinInv => PhaseTable
<1> SUFFICES ASSUME ForkJoinInv PROVE PhaseTable
  OBVIOUS
<1>1. FibersOK(fib, made, done) /\ HeldOnce
  BY DEF ForkJoinInv
<1>2. ASSUME NEW x \in Plain
      PROVE  PlainPhase(x)
  <2>1. x # Terminal /\ Shaped(fib, x)
    BY <1>1 DEF Plain, FibersOK, PlainShape
  <2>2. RunsNow(x) => Open(fib, x) /\ fib[x].ctx = "used"
    BY RunsFacts
  <2>3. fib[x].alive => ~ (x >= made)
    BY <1>1, DeadFacts DEF FibersOK, Unmade
  <2>4. fib[x].ctx = "return" => fib[x].f1 # NoFiber /\ fib[x].alive
    BY <2>1, FiberFacts DEF Shaped, ForkShape, Open
  <2>5. fib[x].ctx # "return" => fib[x].f1 = NoFiber
    BY <2>1 DEF Shaped
  <2>6. ~ fib[x].alive => fib[x].ctx = "begin"
    BY <2>1, DeadFacts DEF Shaped
  <2>7. RunsNow(x) => fib[x].alive
    BY <2>2 DEF Open
  <2> QED
    BY <2>1, <2>2, <2>3, <2>4, <2>5, <2>6, <2>7 DEF PlainPhase, Phase
<1>3. TerminalPhase
  <2>1. ~ RunsNow(Terminal)
    BY RunsFacts, FiberFacts
  <2>2. /\ fib[Terminal].f1 = NoFiber
        /\ fib[Terminal].ctx = "used" => fib[Terminal].incounter = 0
    BY <1>1 DEF FibersOK, TerminalShape, One
  <2> QED
    BY <2>1, <2>2 DEF TerminalPhase, Phase
<1>4. NotRun
  <2> SUFFICES ASSUME NEW w \in Worker, NEW x \in Fiber, cur[w] = x, RunsNow(x)
               PROVE  Running(w) /\ at[w].at = "body"
    BY DEF NotRun
  <2>1. PICK v \in Worker : Running(v) /\ at[v].at = "body" /\ cur[v] = x
    BY RunsFacts
  <2>2. Holds(w, x) /\ Holds(v, x)
    BY <2>1, CurIsHeld
  <2>3. v = w
    BY <1>1, <2>2, HeldByOne
  <2> QED
    BY <2>1, <2>3
<1> QED
  BY <1>2, <1>3, <1>4 DEF PhaseTable

(* What the phase of a fiber depends on. *)
PhaseFields(x) ==
  /\ fib'[x].f1 = fib[x].f1 /\ fib'[x].f2 = fib[x].f2
  /\ fib'[x].ctx = fib[x].ctx /\ fib'[x].alive = fib[x].alive

LEMMA PhaseKept ==
  ASSUME NEW x \in Fiber, PhaseFields(x), RunsNow(x)' <=> RunsNow(x),
         x # Terminal => (x >= made' <=> x >= made),
         x = Terminal => fib'[x].incounter = fib[x].incounter /\ done' = done
  PROVE  Phase(x)' = Phase(x)
BY DEF Phase, PhaseFields

LEMMA RunsKept ==
  ASSUME NEW w \in Worker, \A v \in Worker \ {w} : wpc'[v] = wpc[v] /\ at'[v] = at[v],
         NEW x, ~ (wpc[w] = "run" /\ at[w] = [at |-> "body", f |-> x]),
         ~ (wpc'[w] = "run" /\ at'[w] = [at |-> "body", f |-> x])
  PROVE  RunsNow(x)' <=> RunsNow(x)
BY DEF RunsNow, Running

LEMMA PhaseChanges ==
  ASSUME NEW f \in Fiber, NEW b, Phase(f)' = b, \A x \in Fiber \ {f} : Phase(x)' = Phase(x)
  PROVE  Phases' = [Phases EXCEPT ![f] = b]
<1>1. \A x \in Fiber : Phase(x)' = [Phases EXCEPT ![f] = b][x]
  BY DEF Phases
<1>2. Phases' = [x \in Fiber |-> Phase(x)']
  BY DEF Phases
<1> QED
  BY <1>1, <1>2 DEF Phases

LEMMA PhasesSame ==
  ASSUME \A x \in Fiber : Phase(x)' = Phase(x)
  PROVE  Phases' = Phases
BY DEF Phases

LEMMA KidsSame ==
  ASSUME \A x \in Fiber : fib'[x].f1 = fib[x].f1 /\ fib'[x].f2 = fib[x].f2
  PROVE  Kids' = Kids
BY DEF Kids

(* The steps of a worker that moves fibers about without running them. *)
LEMMA MovesMap ==
  ASSUME ForkJoinInv, NEW w \in Worker, fib' = fib, made' = made, done' = done, at' = at,
         \A v \in Worker \ {w} : wpc'[v] = wpc[v], wpc[w] # "run", wpc'[w] # "run"
  PROVE  Phases' = Phases /\ Kids' = Kids
<1>1. ASSUME NEW x \in Fiber
      PROVE  Phase(x)' = Phase(x)
  <2>1. RunsNow(x)' <=> RunsNow(x)
    BY RunsKept
  <2>2. PhaseFields(x)
    BY DEF PhaseFields
  <2> QED
    BY <2>1, <2>2, PhaseKept
<1> QED
  BY <1>1, PhasesSame, KidsSame

LEMMA QuietMap ==
  ASSUME ForkJoinInv, NEW w \in Worker, Flush(w) \/ PopOrAcquire(w) \/ Steal(w) \/ Leave(w)
  PROVE  Phases' = Phases /\ Kids' = Kids
<1>1. wpc \in [Worker -> Pcs]
  BY DEF ForkJoinInv, VarTypes
<1>2. /\ fib' = fib /\ made' = made /\ done' = done /\ at' = at
      /\ wpc[w] \in {"flush", "loop", "acquire"}
      /\ \/ wpc' = wpc
         \/ \E b \in {"flush", "loop", "acquire", "exited"} : wpc' = [wpc EXCEPT ![w] = b]
  BY DEF Flush, PopOrAcquire, Steal, Leave
<1>3. \A v \in Worker \ {w} : wpc'[v] = wpc[v]
  BY <1>1, <1>2
<1>4. wpc[w] # "run" /\ wpc'[w] # "run"
  BY <1>1, <1>2
<1> QED
  BY <1>2, <1>3, <1>4, MovesMap

(* The terminal fiber runs. *)
LEMMA ExecTerminalMaps ==
  ASSUME ForkJoinInv, PhaseTable, NEW w \in Worker, ExecTerminal(w)
  PROVE  Program!Start(Terminal)
<1>1. FibersOK(fib, made, done) /\ VarTypes /\ Mine(w)
  BY DEF ForkJoinInv
<1>2. /\ wpc[w] = "loop" /\ cur[w] = Terminal
      /\ fib' = [fib EXCEPT ![Terminal].ctx = "used"]
      /\ wpc' = [wpc EXCEPT ![w] = "returned"]
      /\ made' = made /\ at' = at /\ done' = done
  BY DEF ExecTerminal
<1>3. /\ fib[Terminal].incounter = 0 /\ fib[Terminal].alive /\ fib[Terminal].ctx = "begin"
  <2>1. Runnable(fib, Terminal)
    BY <1>1, <1>2, FiberFacts DEF Mine, WorkerFine, WorkerShape
  <2> QED
    BY <2>1, FiberFacts DEF Runnable
<1>4. ~ done
  BY <1>1, <1>3 DEF FibersOK, TerminalShape
<1>5. /\ \A x \in Plain : fib'[x] = fib[x]
      /\ fib'[Terminal].f1 = fib[Terminal].f1 /\ fib'[Terminal].f2 = fib[Terminal].f2
      /\ fib'[Terminal].ctx = "used" /\ fib'[Terminal].incounter = 0
  <2>1. fib \in [Fiber -> FiberType]
    BY <1>1 DEF FibersOK
  <2>2. PICK t, z : t = fib[Terminal] /\ z = [t EXCEPT !.ctx = "used"]
    OBVIOUS
  <2>3. fib'[Terminal] = z /\ \A x \in Plain : fib'[x] = fib[x]
    BY <1>2, <2>1, <2>2, FiberFacts DEF Plain
  <2>4. z.f1 = t.f1 /\ z.f2 = t.f2 /\ z.ctx = "used" /\ z.incounter = t.incounter
    BY <2>1, <2>2, FiberFacts DEF FiberType
  <2> QED
    BY <1>3, <2>2, <2>3, <2>4
<1>6. \A v \in Worker \ {w} : wpc'[v] = wpc[v] /\ at'[v] = at[v]
  BY <1>1, <1>2 DEF VarTypes
<1>7. wpc'[w] = "returned"
  BY <1>1, <1>2 DEF VarTypes
<1>8. ASSUME NEW x \in Fiber
      PROVE  RunsNow(x)' <=> RunsNow(x)
  BY <1>2, <1>6, <1>7, RunsKept
<1>9. ASSUME NEW x \in Fiber \ {Terminal}
      PROVE  Phase(x)' = Phase(x)
  <2>1. PhaseFields(x)
    BY <1>5 DEF PhaseFields, Plain
  <2> QED
    BY <1>2, <1>8, <2>1, PhaseKept
<1>10. Phase(Terminal) = "ready" /\ Phase(Terminal)' = "running"
  <2>1. Phase(Terminal) = "ready"
    BY <1>3 DEF PhaseTable, TerminalPhase
  <2>2. Phase(Terminal)' = "running"
    BY <1>2, <1>4, <1>5 DEF Phase
  <2> QED
    BY <2>1, <2>2
<1>11. Phases' = [Phases EXCEPT ![Terminal] = "running"]
  BY <1>9, <1>10, FiberFacts, PhaseChanges
<1>12. Kids' = Kids
  <2>1. \A x \in Fiber : fib'[x].f1 = fib[x].f1 /\ fib'[x].f2 = fib[x].f2
    BY <1>5 DEF Plain
  <2> QED
    BY <2>1, KidsSame
<1>13. Phases[Terminal] = "ready"
  BY <1>10, FiberFacts DEF Phases
<1> QED
  BY <1>11, <1>12, <1>13 DEF Program!Start

(* A fiber begins its body, or returns from its fork. *)
LEMMA ExecMaps ==
  ASSUME ForkJoinInv, PhaseTable, NEW w \in Worker, Exec(w), NEW f, f = cur[w]
  PROVE  Program!Start(f) \/ Program!Join(f)
<1>1. FibersOK(fib, made, done) /\ VarTypes /\ Mine(w)
  BY DEF ForkJoinInv
<1>2. PICK F, m, d, g, h, r :
        /\ F = fib /\ m = made /\ d = done /\ g = F[f].f1 /\ h = F[f].f2
        /\ r = Restored(IF F[f].stack = "null" THEN Spawned(F[f]) ELSE F[f])
  OBVIOUS
<1>3. PICK G : G = fib'
  OBVIOUS
<1>4. /\ wpc[w] = "loop" /\ f # NoFiber /\ f # Terminal
      /\ G = [x \in Fiber |-> IF x = f THEN r
                              ELSE IF F[f].ctx = "return" /\ x \in {F[f].f1, F[f].f2}
                                   THEN Dead ELSE F[x]]
      /\ at' = [at EXCEPT ![w] = [at |-> "body", f |-> f]]
      /\ wpc' = [wpc EXCEPT ![w] = "run"]
      /\ made' = made /\ done' = done
  BY <1>2, <1>3 DEF Exec
<1>5. FibersOK(F, m, d) /\ Runnable(F, f) /\ f \in Plain /\ f \in Fiber /\ Open(F, f)
  <2>1. Runnable(fib, f)
    BY <1>1, <1>4 DEF Mine, WorkerFine, WorkerShape
  <2> QED
    BY <1>1, <1>2, <1>4, <2>1, FiberFacts DEF Runnable
<1>6. G[f].ctx = "used" /\ G[f].f1 = NoFiber /\ Shaped(F, f)
  <2>1. G[f].ctx = "used" /\ G[f].f1 = NoFiber
    BY <1>2, <1>4, <1>5, Resumed
  <2> QED
    BY <1>5, <2>1 DEF FibersOK, PlainShape
<1>7. ~ (f >= made)
  BY <1>2, <1>5, DeadFacts DEF FibersOK, Unmade, Open
<1>8. /\ wpc'[w] = "run" /\ at'[w] = [at |-> "body", f |-> f]
      /\ \A v \in Worker \ {w} : wpc'[v] = wpc[v] /\ at'[v] = at[v]
  BY <1>1, <1>4 DEF VarTypes
<1>9. Phase(f)' = "running"
  <2>1. RunsNow(f)'
    BY <1>8 DEF RunsNow, Running
  <2> QED
    BY <1>4, <1>7, <2>1 DEF Phase
<1>10. ASSUME NEW x \in Fiber \ {f}
       PROVE  RunsNow(x)' <=> RunsNow(x)
  <2>1. [at |-> "body", f |-> f] # [at |-> "body", f |-> x]
    <3>1. [at |-> "body", f |-> f].f # [at |-> "body", f |-> x].f
      OBVIOUS
    <3> QED
      BY <3>1
  <2> QED
    BY <1>4, <1>8, <2>1, RunsKept
<1>11. ASSUME NEW x \in Fiber \ {f}, G[x] = F[x]
       PROVE  Phase(x)' = Phase(x)
  <2>1. PhaseFields(x)
    BY <1>2, <1>3, <1>11 DEF PhaseFields
  <2> QED
    BY <1>2, <1>3, <1>4, <1>10, <1>11, <2>1, PhaseKept
<1>12. CASE F[f].ctx = "begin"
  <2>1. \A x \in Fiber \ {f} : G[x] = F[x]
    BY <1>4, <1>12
  <2>2. Phase(f) = "ready"
    BY <1>2, <1>5, <1>12 DEF PhaseTable, PlainPhase, Open
  <2>3. Phases' = [Phases EXCEPT ![f] = "running"]
    BY <1>5, <1>9, <1>11, <2>1, PhaseChanges
  <2>4. Kids' = Kids
    <3>1. F[f].f1 = NoFiber
      BY <1>6, <1>12 DEF Shaped
    <3>2. \A x \in Fiber : (IF G[x].f1 = NoFiber THEN <<>> ELSE <<G[x].f1, G[x].f2>>)
                           = (IF F[x].f1 = NoFiber THEN <<>> ELSE <<F[x].f1, F[x].f2>>)
      BY <1>6, <2>1, <3>1
    <3> QED
      BY <1>2, <1>3, <3>2 DEF Kids
  <2>5. Phases[f] = "ready"
    BY <1>5, <2>2 DEF Phases
  <2> QED
    BY <2>3, <2>4, <2>5 DEF Program!Start
<1>13. CASE F[f].ctx = "return"
  <2>1. /\ F[f].incounter = 0 /\ ForkShape(F, f) /\ g \in Plain /\ h \in Plain
        /\ g # f /\ h # f /\ F[g].alive /\ F[h].alive
    <3>1. F[f].incounter = 0 /\ ForkShape(F, f)
      BY <1>4, <1>5, <1>6, <1>13 DEF Runnable, Shaped
    <3>2. g \in Plain /\ h \in Plain /\ f < g /\ g < h /\ F[g].alive /\ F[h].alive
      BY <1>2, <3>1 DEF ForkShape
    <3>3. f \in Int /\ g \in Int /\ h \in Int
      BY <1>5, <3>2, FiberFacts
    <3> QED
      BY <3>1, <3>2, <3>3
  <2>2. ~ Open(F, g) /\ ~ Open(F, h)
    <3>1. 0 = One(F, g) + One(F, h)
      BY <1>2, <2>1 DEF ForkShape
    <3> QED
      BY <3>1 DEF One
  <2>3. ASSUME NEW x \in {g, h}
        PROVE  /\ x \in Fiber /\ Phase(x) = "done" /\ Phase(x)' = "done"
               /\ F[x].f1 = NoFiber /\ G[x].f1 = NoFiber
    <3>1. x \in Plain /\ x \in Fiber /\ x # f /\ F[x].alive /\ ~ Open(F, x) /\ Shaped(F, x)
      BY <1>5, <2>1, <2>2, FiberFacts DEF FibersOK, PlainShape
    <3>2. F[x].ctx = "used"
      BY <3>1 DEF Shaped
    <3>3. F[x].f1 = NoFiber
      BY <3>1, <3>2 DEF Shaped
    <3>4. ~ RunsNow(x)
      BY <1>2, <3>1, RunsFacts
    <3>5. Phase(x) = "done"
      BY <1>2, <3>1, <3>2, <3>4 DEF PhaseTable, PlainPhase
    <3>6. G[x] = Dead
      BY <1>2, <1>4, <1>13, <3>1
    <3>7. ~ RunsNow(x)'
      BY <1>10, <3>1, <3>4
    <3>8. ~ (x >= made) /\ x # Terminal
      BY <1>2, <1>5, <3>1, DeadFacts, FiberFacts DEF FibersOK, Unmade
    <3>9. Phase(x)' = "done"
      BY <1>3, <1>4, <3>6, <3>7, <3>8, DeadFacts DEF Phase
    <3> QED
      BY <3>1, <3>3, <3>5, <3>6, <3>9, DeadFacts
  <2>4. \A x \in Fiber \ {f, g, h} : G[x] = F[x]
    BY <1>2, <1>4
  <2>5. \A x \in Fiber \ {f} : Phase(x)' = Phase(x)
    BY <1>11, <2>3, <2>4
  <2>6. Phases' = [Phases EXCEPT ![f] = "running"]
    BY <1>5, <1>9, <2>5, PhaseChanges
  <2>7. Phases[f] = "waiting" /\ Phases[g] = "done" /\ Phases[h] = "done"
    <3>1. Phase(f) = "waiting"
      BY <1>2, <1>5, <1>13 DEF PhaseTable, PlainPhase
    <3> QED
      BY <1>5, <2>3, <3>1 DEF Phases
  <2>8. Kids[f] = <<g, h>>
    <3>1. g # NoFiber
      BY <2>1, FiberFacts
    <3> QED
      BY <1>2, <1>5, <3>1 DEF Kids
  <2>9. Kids' = [Kids EXCEPT ![f] = <<>>]
    <3>1. \A x \in Fiber \ {f} : (IF G[x].f1 = NoFiber THEN <<>> ELSE <<G[x].f1, G[x].f2>>)
                           = (IF F[x].f1 = NoFiber THEN <<>> ELSE <<F[x].f1, F[x].f2>>)
      BY <2>3, <2>4
    <3>2. (IF G[f].f1 = NoFiber THEN <<>> ELSE <<G[f].f1, G[f].f2>>) = <<>>
      BY <1>6
    <3> DEFINE k(x) == IF F[x].f1 = NoFiber THEN <<>> ELSE <<F[x].f1, F[x].f2>>
               l(x) == IF G[x].f1 = NoFiber THEN <<>> ELSE <<G[x].f1, G[x].f2>>
    <3>3. Kids = [x \in Fiber |-> k(x)] /\ Kids' = [x \in Fiber |-> l(x)]
      BY <1>2, <1>3 DEF Kids
    <3>4. (\A x \in Fiber \ {f} : l(x) = k(x)) /\ l(f) = <<>>
      BY <3>1, <3>2
    <3> HIDE DEF k, l
    <3> QED
      BY <3>3, <3>4
  <2>10. Kids[f][1] = g /\ Kids[f][2] = h
    BY <2>8
  <2> QED
    BY <2>6, <2>7, <2>9, <2>10 DEF Program!Join
<1> QED
  BY <1>4, <1>5, <1>12, <1>13 DEF Runnable

(* A step that changes nothing of what the phases depend on. *)
LEMMA StutterMap ==
  ASSUME NEW F, NEW G, F = fib, G = fib', made' = made, done' = done,
         \A x \in Fiber : G[x].f1 = F[x].f1 /\ G[x].f2 = F[x].f2,
         \A x \in Fiber : G[x].ctx = F[x].ctx /\ G[x].alive = F[x].alive,
         G[Terminal].incounter = F[Terminal].incounter,
         \A x \in Fiber : RunsNow(x)' <=> RunsNow(x)
  PROVE  Phases' = Phases /\ Kids' = Kids
<1>1. ASSUME NEW x \in Fiber
      PROVE  Phase(x)' = Phase(x)
  <2>1. PhaseFields(x)
    BY DEF PhaseFields
  <2> QED
    BY <2>1, PhaseKept
<1> QED
  BY <1>1, PhasesSame, KidsSame

(* Leaving a stack, having a child run inline and notifying leave these    *)
(* fields alone. *)
LEMMA LeavingFields ==
  ASSUME NEW F \in [Fiber -> FiberType], NEW p \in Fiber, NEW G,
         G = Leaving(F, p) \/ G = Taking(F, p), NEW x \in Fiber
  PROVE  /\ G[x].f1 = F[x].f1 /\ G[x].f2 = F[x].f2 /\ G[x].ctx = F[x].ctx
         /\ G[x].alive = F[x].alive /\ G[x].incounter = F[x].incounter
<1>1. PICK t, y, z : t = F[p] /\ y = [t EXCEPT !.status = "finish"]
                     /\ z = [t EXCEPT !.stack = "notown"]
  OBVIOUS
<1>2. t \in FiberType
  BY <1>1
<1>3. /\ y.f1 = t.f1 /\ y.f2 = t.f2 /\ y.ctx = t.ctx /\ y.alive = t.alive
      /\ y.incounter = t.incounter
  BY <1>1, <1>2 DEF FiberType
<1>4. /\ z.f1 = t.f1 /\ z.f2 = t.f2 /\ z.ctx = t.ctx /\ z.alive = t.alive
      /\ z.incounter = t.incounter
  BY <1>1, <1>2 DEF FiberType
<1>5. x # p => G[x] = F[x]
  BY DEF Leaving, Taking
<1>6. G[p] = y \/ G[p] = z
  BY <1>1 DEF Leaving, Taking
<1> QED
  BY <1>1, <1>3, <1>4, <1>5, <1>6

LEMMA NotifyingAlive ==
  ASSUME NEW F \in [Fiber -> FiberType], NEW f \in Fiber, NEW g \in Fiber, g # f, NEW G,
         G = Notifying(F, f, g)
  PROVE  G[f].alive = F[f].alive /\ G[f].incounter = F[f].incounter
<1>1. PICK t, y : t = F[f] /\ y = [t EXCEPT !.outedge = NoFiber]
  OBVIOUS
<1>2. t \in FiberType
  BY <1>1
<1>3. y.alive = t.alive /\ y.incounter = t.incounter
  BY <1>1, <1>2 DEF FiberType
<1>4. G[f] = y
  BY <1>1 DEF Notifying
<1> QED
  BY <1>1, <1>3, <1>4

(* A finished fiber notifies: the body releases the terminal fiber. *)
LEMMA ReturnedFinishMaps ==
  ASSUME ForkJoinInv, PhaseTable, NEW w \in Worker, Returned(w), cur[w] \in Plain,
         fib[cur[w]].status = "finish"
  PROVE  (Phases' = Phases /\ Kids' = Kids) \/ Program!Release
<1>1. FibersOK(fib, made, done) /\ VarTypes
  BY DEF ForkJoinInv
<1>2. PICK F, m, d, f, g, q, G :
        /\ F = fib /\ m = made /\ d = done /\ f = cur[w] /\ q = NoFiber
        /\ g = F[f].outedge /\ G = fib'
  OBVIOUS
<1>3. /\ FibersOK(F, m, d) /\ f \in Plain /\ f \in Fiber /\ F \in [Fiber -> FiberType]
      /\ wpc[w] = "returned"
  BY <1>1, <1>2, FiberFacts DEF FibersOK, Returned
<1>4. /\ Open(F, f) /\ F[f].ctx = "used" /\ g \in Fiber /\ G = Notifying(F, f, g)
      /\ made' = made /\ done' = done /\ at' = at /\ wpc' = [wpc EXCEPT ![w] = "flush"]
  BY <1>2, <1>3, FinishedNotifies
<1>5. MayNotify(F, f, g)
  BY <1>2, <1>3, FinishedNotifies
<1>6. /\ FibersOK(F, m, d) /\ f \in Plain /\ Open(F, f) /\ F[f].ctx = "used"
      /\ g = F[f].outedge /\ MayNotify(F, f, g) /\ G = Notifying(F, f, g)
  BY <1>2, <1>3, <1>4, <1>5
<1>7. g # f /\ G[g].incounter = F[g].incounter - 1 /\ G[g].alive = F[g].alive
  BY <1>6, Notified
<1>8. \A x \in Fiber \ {f, g} : G[x] = F[x]
  BY <1>6, Notified
<1>9. \A x \in Fiber : G[x].f1 = F[x].f1 /\ G[x].f2 = F[x].f2 /\ G[x].ctx = F[x].ctx
  BY <1>6, Notified
<1>10. G[f].alive = F[f].alive /\ G[f].incounter = F[f].incounter
  BY <1>3, <1>4, <1>7, NotifyingAlive
<1>11. \A x \in Fiber : G[x].alive = F[x].alive
  BY <1>7, <1>8, <1>10
<1>12. wpc'[w] = "flush" /\ \A v \in Worker \ {w} : wpc'[v] = wpc[v] /\ at'[v] = at[v]
  BY <1>1, <1>4 DEF VarTypes
<1>13. ASSUME NEW x \in Fiber
       PROVE  RunsNow(x)' <=> RunsNow(x)
  BY <1>3, <1>12, RunsKept
<1>14. CASE f # Body
  <2>1. g \in Plain
    BY <1>6, <1>14, ParentFacts
  <2>2. Terminal \in Fiber \ {f, g}
    BY <1>3, <2>1, FiberFacts
  <2>3. G[Terminal].incounter = F[Terminal].incounter
    BY <1>8, <2>2
  <2> QED
    BY <1>2, <1>4, <1>9, <1>11, <1>13, <2>3, StutterMap
<1>15. CASE f = Body
  <2>1. /\ g = Terminal /\ F[Terminal].incounter = 1 /\ F[Terminal].ctx = "begin"
        /\ F[Terminal].alive /\ F[Terminal].f1 = NoFiber
    <3>1. g = Terminal
      BY <1>6, <1>15 DEF FibersOK, BodyShape, Open
    <3>2. ~ d
      BY <1>6, <1>15 DEF FibersOK, BodyShape
    <3>3. One(F, Body) = 1
      BY <1>6, <1>15 DEF One
    <3> QED
      BY <1>6, <1>15, <3>1, <3>2, <3>3 DEF FibersOK, TerminalShape
  <2>2. G[Terminal].incounter = 0
    BY <1>7, <2>1
  <2>3. ~ RunsNow(Terminal)'
    BY <1>13, RunsFacts, FiberFacts
  <2>4. Phase(Terminal)' = "ready"
    BY <1>2, <1>9, <1>11, <2>1, <2>2, <2>3, FiberFacts DEF Phase
  <2>5. ASSUME NEW x \in Fiber \ {Terminal}
        PROVE  Phase(x)' = Phase(x)
    <3>1. PhaseFields(x)
      BY <1>2, <1>9, <1>11 DEF PhaseFields
    <3> QED
      BY <1>4, <1>13, <3>1, PhaseKept
  <2>6. Phases' = [Phases EXCEPT ![Terminal] = "ready"]
    BY <2>4, <2>5, FiberFacts, PhaseChanges
  <2>7. Kids' = Kids
    BY <1>2, <1>9, KidsSame
  <2>8. Phases[Body] = "done" /\ Phases[Terminal] = "blocked"
    <3>1. ~ RunsNow(f)
      BY <1>2, <1>3 DEF PhaseTable, NotRun, Running
    <3>2. Phase(f) = "done"
      BY <1>2, <1>4, <1>3, <3>1 DEF PhaseTable, PlainPhase
    <3>3. Phase(Terminal) = "blocked"
      BY <1>2, <2>1 DEF PhaseTable, TerminalPhase
    <3> QED
      BY <1>15, <3>2, <3>3, FiberFacts DEF Phases
  <2> QED
    BY <2>6, <2>7, <2>8 DEF Program!Release
<1> QED
  BY <1>14, <1>15

(* The scheduler goes on: only the body's end and the terminal fiber's are *)
(* seen by the program. *)
LEMMA ReturnedMaps ==
  ASSUME ForkJoinInv, PhaseTable, NEW w \in Worker, Returned(w)
  PROVE  (Phases' = Phases /\ Kids' = Kids) \/ Program!Release \/ Program!End(Terminal)
<1>1. FibersOK(fib, made, done) /\ VarTypes
  BY DEF ForkJoinInv
<1>2. PICK f : f = cur[w]
  OBVIOUS
<1>3. /\ wpc[w] = "returned" /\ made' = made /\ at' = at
      /\ wpc' = [wpc EXCEPT ![w] = "flush"]
  BY DEF Returned
<1>4. wpc'[w] = "flush" /\ \A v \in Worker \ {w} : wpc'[v] = wpc[v] /\ at'[v] = at[v]
  BY <1>1, <1>3 DEF VarTypes
<1>5. ASSUME NEW x \in Fiber
      PROVE  RunsNow(x)' <=> RunsNow(x)
  BY <1>3, <1>4, RunsKept
<1>6. Returning(fib, f, buffer[w], deque[w])
  BY <1>2, <1>3, ReturnedShape
<1>7. f = Terminal \/ f \in Plain
  BY <1>6 DEF Returning
<1>8. ASSUME f \in Plain
      PROVE  (Phases' = Phases /\ Kids' = Kids) \/ Program!Release
  <2>1. fib[f].status = "pause" \/ fib[f].status = "finish"
    BY <1>1, <1>8 DEF FibersOK, PlainShape, Shaped, ForkShape
  <2>2. CASE fib[f].status = "pause"
    <3>1. fib' = fib /\ done' = done
      BY <1>2, <2>2 DEF Returned
    <3> QED
      BY <1>3, <1>5, <3>1, StutterMap
  <2>3. CASE fib[f].status = "finish"
    BY <1>2, <1>8, <2>3, ReturnedFinishMaps
  <2> QED
    BY <2>1, <2>2, <2>3
<1>9. ASSUME f = Terminal
      PROVE  Program!End(Terminal)
  <2>1. /\ fib[Terminal].incounter = 0 /\ fib[Terminal].alive /\ fib[Terminal].ctx = "used"
    BY <1>6, <1>9, FiberFacts DEF Returning
  <2>2. fib[Terminal].status = "exit_launch" /\ ~ done
    BY <1>1, <2>1 DEF FibersOK, TerminalShape
  <2>3. done' = TRUE /\ fib' = [fib EXCEPT ![Terminal].alive = FALSE]
    BY <1>2, <1>9, <2>2 DEF Returned
  <2>4. /\ \A x \in Plain : fib'[x] = fib[x]
        /\ fib'[Terminal].f1 = fib[Terminal].f1 /\ fib'[Terminal].f2 = fib[Terminal].f2
        /\ fib'[Terminal].alive = FALSE /\ fib'[Terminal].incounter = 0
    <3>1. fib \in [Fiber -> FiberType]
      BY <1>1 DEF FibersOK
    <3>2. PICK t, z : t = fib[Terminal] /\ z = [t EXCEPT !.alive = FALSE]
      OBVIOUS
    <3>3. fib'[Terminal] = z /\ \A x \in Plain : fib'[x] = fib[x]
      BY <2>3, <3>1, <3>2, FiberFacts DEF Plain
    <3>4. z.f1 = t.f1 /\ z.f2 = t.f2 /\ z.alive = FALSE /\ z.incounter = t.incounter
      BY <3>1, <3>2, FiberFacts DEF FiberType
    <3> QED
      BY <2>1, <3>2, <3>3, <3>4
  <2>5. ~ RunsNow(Terminal)'
    BY <1>5, RunsFacts, FiberFacts
  <2>6. fib[Terminal].f1 = NoFiber
    BY <1>1 DEF FibersOK, TerminalShape
  <2>7. Phase(Terminal)' = "done"
    BY <2>3, <2>4, <2>5, <2>6 DEF Phase
  <2>8. Phase(Terminal) = "running"
    BY <2>1, <2>2 DEF PhaseTable, TerminalPhase
  <2>9. ASSUME NEW x \in Fiber \ {Terminal}
        PROVE  Phase(x)' = Phase(x)
    <3>1. PhaseFields(x)
      BY <2>4 DEF PhaseFields, Plain
    <3> QED
      BY <1>3, <1>5, <3>1, PhaseKept
  <2>10. Phases' = [Phases EXCEPT ![Terminal] = "done"]
    BY <2>7, <2>9, FiberFacts, PhaseChanges
  <2>11. Kids' = Kids
    <3>1. \A x \in Fiber : fib'[x].f1 = fib[x].f1 /\ fib'[x].f2 = fib[x].f2
      BY <2>4 DEF Plain
    <3> QED
      BY <3>1, KidsSame
  <2>12. Phases[Terminal] = "running"
    BY <2>8, FiberFacts DEF Phases
  <2> QED
    BY <2>10, <2>11, <2>12 DEF Program!End
<1> QED
  BY <1>7, <1>8, <1>9

(* A worker that runs a body: which fiber it is, and that others' are not  *)
(* concerned. *)
LEMMA RunnerFacts ==
  ASSUME ForkJoinInv, PhaseTable, NEW w \in Worker, Running(w), at[w].at = "body",
         NEW f, f = cur[w]
  PROVE  /\ f \in Plain /\ f \in Fiber /\ at[w] = [at |-> "body", f |-> f]
         /\ currentFiber[w] = f /\ Open(fib, f) /\ fib[f].ctx = "used"
         /\ ~ (f >= made) /\ RunsNow(f) /\ Phase(f) = "running"
         /\ \A x : x # f => [at |-> "body", f |-> f] # [at |-> "body", f |-> x]
<1>1. RunningShape(fib, f, at[w], currentFiber[w])
  BY RunningFacts DEF Running
<1>2. /\ f \in Plain /\ f \in Fiber /\ Open(fib, f) /\ fib[f].ctx = "used"
      /\ at[w] = [at |-> "body", f |-> f] /\ currentFiber[w] = f
  BY <1>1, FiberFacts DEF RunningShape
<1>3. RunsNow(f)
  BY <1>2 DEF RunsNow
<1>4. Phase(f) = "running"
  BY <1>2, <1>3 DEF PhaseTable, PlainPhase
<1>5. ~ (f >= made)
  BY <1>2, DeadFacts DEF ForkJoinInv, FibersOK, Unmade, Open
<1>6. ASSUME NEW x, x # f
      PROVE  [at |-> "body", f |-> f] # [at |-> "body", f |-> x]
  <2>1. [at |-> "body", f |-> f].f # [at |-> "body", f |-> x].f
    BY <1>6
  <2> QED
    BY <2>1
<1> QED
  BY <1>2, <1>3, <1>4, <1>5, <1>6

(* A body ends, whatever its worker does next. *)
LEMMA EndBodyMaps ==
  ASSUME ForkJoinInv, PhaseTable, NotRun', NEW w \in Worker, EndBody(w), NEW f, f = cur[w]
  PROVE  Program!End(f)
<1>1. FibersOK(fib, made, done) /\ VarTypes
  BY DEF ForkJoinInv
<1>2. PICK F, p, G : F = fib /\ p = F[f].up /\ G = fib'
  OBVIOUS
<1>3. Running(w) /\ at[w].at = "body" /\ made' = made /\ done' = done /\ cur' = cur
  BY DEF EndBody
<1>4. /\ f \in Plain /\ f \in Fiber /\ at[w] = [at |-> "body", f |-> f]
      /\ Open(F, f) /\ F[f].ctx = "used" /\ ~ (f >= made) /\ Phase(f) = "running"
  BY <1>2, <1>3, RunnerFacts
<1>5. \A x : x # f => [at |-> "body", f |-> f] # [at |-> "body", f |-> x]
  BY <1>3, RunnerFacts
<1>6. \/ F[f].stack = "own" /\ fib' = fib /\ ToScheduler(w)
      \/ /\ F[f].stack = "notown" /\ f = F[p].f1 /\ fib' = fib /\ wpc' = wpc
         /\ at' = [at EXCEPT ![w] = [at |-> "take", f |-> p]]
      \/ /\ F[f].stack = "notown" /\ f = F[p].f2 /\ ToScheduler(w)
         /\ fib' = [fib EXCEPT ![p] = [Saved(@) EXCEPT !.status = "finish"]]
  BY <1>2, <1>4 DEF EndBody
<1>7. \/ /\ wpc' = [wpc EXCEPT ![w] = "returned"]
         /\ at' = [at EXCEPT ![w] = Nowhere]
      \/ wpc' = wpc /\ at' = [at EXCEPT ![w] = [at |-> "take", f |-> p]]
  BY <1>6 DEF ToScheduler
<1>8. at'[w].at # "body" /\ \A v \in Worker \ {w} : wpc'[v] = wpc[v] /\ at'[v] = at[v]
  BY <1>1, <1>7 DEF VarTypes, Nowhere
<1>9. G = F \/ (p \in Fiber /\ G = Leaving(F, p))
  <2>1. CASE F[f].stack = "notown" /\ f = F[p].f2
    <3>1. IsSecond(F, f)
      BY <1>2, <2>1 DEF IsSecond, Inline
    <3>2. f # Body
      BY <1>1, <1>2, <1>4, <3>1, BodyOutermost DEF IsSecond
    <3>3. p \in Fiber /\ F[p].ctx = "return"
      BY <1>1, <1>2, <1>4, <3>2, ParentFacts, FiberFacts
    <3>4. fib' = [F EXCEPT ![p] = [Saved(F[p]) EXCEPT !.status = "finish"]] \/ fib' = fib
      BY <1>2, <1>6
    <3>5. PICK Z : Z = [F EXCEPT ![p] = [Saved(F[p]) EXCEPT !.status = "finish"]]
      OBVIOUS
    <3>6. Z = Leaving(F, p)
      BY <1>1, <1>2, <3>3, <3>5, SavedAgain DEF FibersOK
    <3>7. fib' = Z \/ fib' = fib
      BY <3>4, <3>5
    <3> QED
      BY <1>2, <3>3, <3>6, <3>7
  <2>2. CASE ~ (F[f].stack = "notown" /\ f = F[p].f2)
    <3>1. fib' = fib
      BY <1>6, <2>2
    <3> QED
      BY <1>2, <3>1
  <2> QED
    BY <2>1, <2>2
<1>10. F \in [Fiber -> FiberType]
  BY <1>1, <1>2 DEF FibersOK
<1>11. ASSUME NEW x \in Fiber
       PROVE  /\ G[x].f1 = F[x].f1 /\ G[x].f2 = F[x].f2 /\ G[x].ctx = F[x].ctx
              /\ G[x].alive = F[x].alive /\ G[x].incounter = F[x].incounter
  BY <1>9, <1>10, LeavingFields
<1>12. ASSUME NEW x \in Fiber \ {f}
       PROVE  Phase(x)' = Phase(x)
  <2>1. ~ (wpc'[w] = "run" /\ at'[w] = [at |-> "body", f |-> x])
    <3>1. [at |-> "body", f |-> x].at = "body"
      OBVIOUS
    <3> QED
      BY <1>8, <3>1
  <2>2. RunsNow(x)' <=> RunsNow(x)
    BY <1>4, <1>5, <1>8, <2>1, RunsKept
  <2>3. PhaseFields(x)
    BY <1>2, <1>11 DEF PhaseFields
  <2>4. x = Terminal => fib'[x].incounter = fib[x].incounter
    BY <1>2, <1>11
  <2> QED
    BY <1>3, <2>2, <2>3, <2>4, PhaseKept
<1>13. Phase(f)' = "done"
  <2>1. ~ RunsNow(f)'
    <3>1. cur'[w] = f
      BY <1>3
    <3>2. ~ (Running(w)' /\ at'[w].at = "body")
      BY <1>8
    <3> QED
      BY <1>4, <3>1, <3>2 DEF NotRun
  <2>2. F[f].f1 = NoFiber
    BY <1>1, <1>2, <1>4 DEF FibersOK, PlainShape, Shaped
  <2>3. G[f].f1 = NoFiber /\ G[f].ctx = "used"
    BY <1>4, <1>11, <2>2
  <2> QED
    BY <1>2, <1>3, <1>4, <2>1, <2>3, FiberFacts DEF Phase
<1>14. Phases' = [Phases EXCEPT ![f] = "done"]
  BY <1>4, <1>12, <1>13, PhaseChanges
<1>15. Kids' = Kids
  BY <1>2, <1>11, KidsSame
<1>16. Phases[f] = "running"
  BY <1>4 DEF Phases
<1> QED
  BY <1>14, <1>15, <1>16 DEF Program!End

(* The first child has ended already. *)
LEMMA TakeMaps ==
  ASSUME ForkJoinInv, PhaseTable, NEW w \in Worker, Take(w)
  PROVE  Phases' = Phases /\ Kids' = Kids
<1>1. FibersOK(fib, made, done) /\ VarTypes
  BY DEF ForkJoinInv
<1>2. PICK F, f, p, h, G : F = fib /\ f = cur[w] /\ p = F[f].up /\ h = F[p].f2 /\ G = fib'
  OBVIOUS
<1>3. Running(w) /\ at[w].at = "take" /\ made' = made /\ done' = done
  BY DEF Take
<1>4. /\ f \in Plain /\ Open(F, f) /\ IsFirst(F, f) /\ at[w].f = p
  <2>1. RunningShape(F, f, at[w], currentFiber[w])
    BY <1>2, <1>3, RunningFacts DEF Running
  <2>2. at[w] = [at |-> "take", f |-> p] /\ f \in Plain /\ Open(F, f) /\ IsFirst(F, f)
    BY <1>2, <1>3, <2>1 DEF RunningShape
  <2> QED
    BY <2>2
<1>5. p \in Fiber /\ h \in Fiber
  <2>1. f # Body
    <3>1. Inline(F, f)
      BY <1>4 DEF IsFirst
    <3>2. ~ Inline(F, Body)
      BY <1>1, <1>2 DEF FibersOK, BodyShape
    <3> QED
      BY <3>1, <3>2
  <2>2. p \in Plain /\ ForkShape(F, p)
    BY <1>1, <1>2, <1>4, <2>1, ParentFacts
  <2> QED
    BY <1>2, <2>2, FiberFacts, Zenon DEF ForkShape
<1>6. G = Leaving(F, p) \/ G = Taking(F, h)
  BY <1>2, <1>4, Zenon DEF Take, Leaving, Taking
<1>7. F \in [Fiber -> FiberType]
  BY <1>1, <1>2 DEF FibersOK
<1>8. ASSUME NEW x \in Fiber
      PROVE  /\ G[x].f1 = F[x].f1 /\ G[x].f2 = F[x].f2 /\ G[x].ctx = F[x].ctx
             /\ G[x].alive = F[x].alive /\ G[x].incounter = F[x].incounter
  BY <1>5, <1>6, <1>7, LeavingFields
<1>9. wpc' = [wpc EXCEPT ![w] = "returned"] /\ at' = [at EXCEPT ![w] = Nowhere]
  BY DEF Take, ToScheduler
<1>10. wpc'[w] = "returned" /\ \A v \in Worker \ {w} : wpc'[v] = wpc[v] /\ at'[v] = at[v]
  BY <1>1, <1>9 DEF VarTypes
<1>11. ASSUME NEW x \in Fiber
       PROVE  RunsNow(x)' <=> RunsNow(x)
  <2>1. at[w] # [at |-> "body", f |-> x]
    <3>1. [at |-> "body", f |-> x].at = "body"
      OBVIOUS
    <3> QED
      BY <1>3, <3>1
  <2> QED
    BY <1>10, <2>1, RunsKept
<1>12. \A x \in Fiber : G[x].f1 = F[x].f1 /\ G[x].f2 = F[x].f2
  BY <1>8
<1>13. \A x \in Fiber : G[x].ctx = F[x].ctx /\ G[x].alive = F[x].alive
  BY <1>8
<1>14. G[Terminal].incounter = F[Terminal].incounter
  BY <1>8, FiberFacts
<1> QED
  BY <1>2, <1>3, <1>11, <1>12, <1>13, <1>14, StutterMap

(* fork2: two fibers come to exist, and the parent waits for them. *)
LEMMA ForkMaps ==
  ASSUME ForkJoinInv, PhaseTable, NotRun', NEW w \in Worker, Fork(w), NEW p, p = cur[w]
  PROVE  Program!Fork(p)
<1>1. FibersOK(fib, made, done) /\ VarTypes
  BY DEF ForkJoinInv
<1>2. PICK F, m, d, g, h, q, G :
        /\ F = fib /\ m = made /\ d = done /\ g = m /\ h = m + 1 /\ q = NoFiber /\ G = fib'
  OBVIOUS
<1>3. Running(w) /\ at[w].at = "body" /\ cur' = cur /\ done' = done /\ made' = made + 2
  BY DEF Fork
<1>4. /\ p \in Plain /\ p \in Fiber /\ at[w] = [at |-> "body", f |-> p]
      /\ currentFiber[w] = p /\ Open(F, p) /\ F[p].ctx = "used" /\ Phase(p) = "running"
  BY <1>2, <1>3, RunnerFacts
<1>5. \A x : x # p => [at |-> "body", f |-> p] # [at |-> "body", f |-> x]
  BY <1>3, RunnerFacts
<1>6. /\ FibersOK(F, m, d) /\ p \in Plain /\ Open(F, p) /\ F[p].ctx = "used"
      /\ g = m /\ h = m + 1 /\ h < Terminal /\ G = Forking(F, p, g, h)
  BY <1>1, <1>2, <1>4 DEF Fork, Forking
<1>7. /\ g \in Plain /\ h \in Plain /\ p < g /\ g < h /\ G[p].ctx = "return"
      /\ G[p].f1 = g /\ G[p].f2 = h /\ G[g].ctx = "begin" /\ Untouched(G, h)
  BY <1>6, Forked
<1>8. \A x \in Fiber \ {p, g, h} : G[x] = F[x]
  BY <1>6, Forked
<1>9. \A x \in Fiber : Open(G, x) <=> Open(F, x) \/ x \in {g, h}
  BY <1>6, Forked
<1>10. FibersOK(G, m + 2, d)
  BY <1>6, Forked
<1>11. /\ g \in Fiber /\ h \in Fiber /\ p # g /\ p # h /\ g # h
       /\ m \in Int /\ g \in Int /\ h \in Int /\ p \in Int
  <2>1. g \in Int /\ h \in Int /\ p \in Int /\ g \in Fiber /\ h \in Fiber
    BY <1>4, <1>7, FiberFacts
  <2>2. p # g /\ p # h /\ g # h /\ m \in Int
    BY <1>2, <1>7, <2>1
  <2> QED
    BY <2>1, <2>2
<1>12. /\ wpc' = [wpc EXCEPT ![w] = "returned"] /\ at' = [at EXCEPT ![w] = Nowhere]
  BY DEF Fork, ToScheduler
<1>13. wpc'[w] = "returned" /\ \A v \in Worker \ {w} : wpc'[v] = wpc[v] /\ at'[v] = at[v]
  BY <1>1, <1>12 DEF VarTypes
<1>14. ~ RunsNow(p)'
  <2>1. cur'[w] = p
    BY <1>3
  <2>2. ~ Running(w)'
    BY <1>13 DEF Running
  <2> QED
    BY <1>4, <2>1, <2>2 DEF NotRun
<1>15. ASSUME NEW x \in Fiber \ {p}
       PROVE  RunsNow(x)' <=> RunsNow(x)
  BY <1>4, <1>5, <1>13, RunsKept
<1>16. ASSUME NEW x \in Fiber \ {p, g, h}
       PROVE  Phase(x)' = Phase(x)
  <2>1. G[x] = F[x]
    BY <1>8
  <2>2. PhaseFields(x)
    BY <1>2, <2>1 DEF PhaseFields
  <2>3. x >= made' <=> x >= made
    <3>1. x \in Int /\ x # m /\ x # m + 1 /\ made' = m + 2 /\ made = m
      BY <1>2, <1>3, FiberFacts
    <3> QED
      BY <1>11, <3>1
  <2>4. x = Terminal => fib'[x].incounter = fib[x].incounter
    BY <1>2, <2>1
  <2> QED
    BY <1>3, <1>15, <2>2, <2>3, <2>4, PhaseKept
<1>17. ASSUME NEW x \in {g, h}
       PROVE  Phase(x) = "unborn" /\ Phase(x)' = "ready" /\ F[x].f1 = NoFiber /\ G[x].f1 = NoFiber
  <2>1. x \in Plain /\ x \in Fiber /\ x >= m /\ x # p /\ x # Terminal /\ x \in Int
    BY <1>2, <1>7, <1>11, FiberFacts
  <2>2. Phase(x) = "unborn" /\ F[x] = Dead
    BY <1>2, <1>6, <2>1 DEF PhaseTable, PlainPhase, FibersOK, Unmade
  <2>3. ~ RunsNow(x)
    <3>1. ~ Open(F, x)
      BY <2>2, DeadFacts DEF Open
    <3> QED
      BY <1>2, <3>1, RunsFacts
  <2>4. ~ RunsNow(x)'
    BY <1>15, <2>1, <2>3
  <2>5. G[x].ctx = "begin" /\ G[x].alive
    BY <1>7, <1>9, <2>1 DEF Untouched, Open
  <2>6. G[x].f1 = NoFiber
    BY <1>10, <2>1, <2>5 DEF FibersOK, PlainShape, Shaped
  <2>7. ~ (x >= made')
    <3>1. (x = m \/ x = m + 1) /\ made' = m + 2
      BY <1>2, <1>3
    <3> QED
      BY <1>11, <3>1
  <2>8. Phase(x)' = "ready"
    BY <1>2, <2>1, <2>4, <2>5, <2>6, <2>7 DEF Phase
  <2> QED
    BY <2>2, <2>6, <2>8, DeadFacts
<1>18. Phase(p)' = "waiting"
  <2>1. p # Terminal
    BY <1>4, FiberFacts
  <2>2. ~ (p >= made')
    <3>1. g = m /\ made' = m + 2 /\ p < g
      BY <1>2, <1>3, <1>7
    <3> QED
      BY <1>11, <3>1
  <2>3. G[p].f1 # NoFiber
    BY <1>7, <1>11, FiberFacts
  <2> QED
    BY <1>2, <1>14, <2>1, <2>2, <2>3 DEF Phase
<1>19. Phases' = [Phases EXCEPT ![p] = "waiting", ![g] = "ready", ![h] = "ready"]
  <2>1. PICK Q : Q = [Phases EXCEPT ![p] = "waiting", ![g] = "ready", ![h] = "ready"]
    OBVIOUS
  <2>2. \A x \in Fiber : Q[x] = IF x = p THEN "waiting" ELSE IF x \in {g, h} THEN "ready"
                                ELSE Phase(x)
    BY <1>4, <1>11, <2>1 DEF Phases
  <2>3. Q = [x \in Fiber |-> Q[x]]
    BY <2>1 DEF Phases
  <2>4. \A x \in Fiber : Q[x] = Phase(x)'
    BY <1>16, <1>17, <1>18, <2>2
  <2>5. Phases' = [x \in Fiber |-> Phase(x)']
    BY DEF Phases
  <2>6. Phases' = Q
    BY <2>3, <2>4, <2>5
  <2> QED
    BY <2>1, <2>6
<1>20. Kids' = [Kids EXCEPT ![p] = <<g, h>>]
  <2>1. \A x \in Fiber \ {p} : (IF G[x].f1 = NoFiber THEN <<>> ELSE <<G[x].f1, G[x].f2>>)
                         = (IF F[x].f1 = NoFiber THEN <<>> ELSE <<F[x].f1, F[x].f2>>)
    BY <1>8, <1>17
  <2>2. G[p].f1 # NoFiber /\ G[p].f1 = g /\ G[p].f2 = h
    BY <1>7, <1>11, FiberFacts
  <2> QED
    BY <1>2, <2>1, <2>2 DEF Kids
<1>21. Phases[p] = "running"
  BY <1>4 DEF Phases
<1>22. g \in {k \in Fiber : Phases[k] = "unborn"} /\ h \in {k \in Fiber : Phases[k] = "unborn"}
  BY <1>11, <1>17 DEF Phases
<1> QED
  BY <1>11, <1>19, <1>20, <1>21, <1>22 DEF Program!Fork

(* Every step of the workers is one of the program, or none. *)
LEMMA StepMaps ==
  ASSUME ForkJoinInv, PhaseTable, PhaseTable', [Next]_vars
  PROVE  [Program!Next]_<<Phases, Kids>>
<1>1. CASE UNCHANGED vars
  <2>1. fib' = fib /\ made' = made /\ done' = done /\ \A x \in Fiber : RunsNow(x)' <=> RunsNow(x)
    BY <1>1 DEF vars, RunsNow, Running
  <2>2. Phases' = Phases /\ Kids' = Kids
    BY <2>1, StutterMap
  <2> QED
    BY <2>2
<1>2. ASSUME NEW w \in Worker, Step(w)
      PROVE  [Program!Next]_<<Phases, Kids>>
  <2>1. NotRun'
    BY DEF PhaseTable
  <2>2. CASE Flush(w) \/ PopOrAcquire(w) \/ Steal(w) \/ Leave(w)
    BY <2>2, QuietMap
  <2>3. CASE Exec(w)
    <3>1. Program!Start(cur[w]) \/ Program!Join(cur[w])
      BY <2>3, ExecMaps
    <3>2. cur[w] \in Fiber
      BY <2>3, WorkerTypes DEF ForkJoinInv, Exec
    <3> QED
      BY <3>1, <3>2 DEF Program!Next
  <2>4. CASE ExecTerminal(w)
    BY <2>4, ExecTerminalMaps, FiberFacts DEF Program!Next
  <2>5. CASE Returned(w)
    <3>1. (Phases' = Phases /\ Kids' = Kids) \/ Program!Release \/ Program!End(Terminal)
      BY <2>5, ReturnedMaps
    <3> QED
      BY <3>1, FiberFacts DEF Program!Next
  <2>6. CASE Fork(w)
    <3>1. Program!Fork(cur[w])
      BY <2>1, <2>6, ForkMaps
    <3>2. cur[w] \in Fiber
      BY <2>6, RunnerFacts DEF Fork
    <3> QED
      BY <3>1, <3>2 DEF Program!Next
  <2>7. CASE EndBody(w)
    <3>1. Program!End(cur[w])
      BY <2>1, <2>7, EndBodyMaps
    <3>2. cur[w] \in Fiber
      BY <2>7, RunnerFacts DEF EndBody
    <3> QED
      BY <3>1, <3>2 DEF Program!Next
  <2>8. CASE Take(w)
    BY <2>8, TakeMaps
  <2> QED
    BY <1>2, <2>2, <2>3, <2>4, <2>5, <2>6, <2>7, <2>8 DEF Step
<1> QED
  BY <1>1, <1>2 DEF Next

LEMMA InitMaps == Init => Program!Init
<1> SUFFICES ASSUME Init PROVE Program!Init
  OBVIOUS
<1>1. ForkJoinInv /\ PhaseTable
  BY InitInv, PhaseIs
<1>2. /\ made = 1 /\ done = FALSE /\ wpc = [w \in Worker |-> "flush"]
      /\ fib = [f \in Fiber |-> CASE f = Body -> NewFiber(0, Terminal, "finish")
                                  [] f = Terminal -> NewFiber(1, NoFiber, "exit_launch")
                                  [] OTHER -> Dead]
  BY DEF Init
<1>3. PICK a, b : a = NewFiber(0, Terminal, "finish") /\ b = NewFiber(1, NoFiber, "exit_launch")
  OBVIOUS
<1>4. a.ctx = "begin" /\ a.alive /\ a.f1 = NoFiber /\ b.incounter = 1 /\ b.f1 = NoFiber
  BY <1>3 DEF NewFiber
<1>5. fib[Body] = a /\ fib[Terminal] = b /\ \A x \in Plain \ {Body} : fib[x] = Dead
  BY <1>2, <1>3, FiberFacts
<1>6. Phase(Body) = "ready"
  BY <1>1, <1>4, <1>5, FiberFacts DEF PhaseTable, PlainPhase
<1>7. Phase(Terminal) = "blocked"
  BY <1>1, <1>4, <1>5 DEF PhaseTable, TerminalPhase
<1>8. ASSUME NEW x \in Fiber \ {Body, Terminal}
      PROVE  Phase(x) = "unborn"
  <2>1. x \in Plain /\ x >= made
    BY <1>2, FiberFacts
  <2> QED
    BY <1>1, <2>1 DEF PhaseTable, PlainPhase
<1>9. Phases = [f \in Fiber |-> IF f = Body THEN "ready"
                                ELSE IF f = Terminal THEN "blocked" ELSE "unborn"]
  BY <1>6, <1>7, <1>8 DEF Phases
<1>10. \A x \in Fiber : fib[x].f1 = NoFiber
  BY <1>4, <1>5, DeadFacts, FiberFacts
<1>11. Kids = [f \in Fiber |-> <<>>]
  BY <1>10 DEF Kids
<1> QED
  BY <1>9, <1>11 DEF Program!Init

(* The workers, their buffers and their deques run the program that fork2  *)
(* promises: every fiber's body once, between its parent's fork and join,  *)
(* the parent only after both children, and the terminal fiber last.       *)
THEOREM RefinesSeriesParallel == Spec => RefinesProgram
<1>1. Spec => []ForkJoinInv
  BY ForkJoinInvariant
<1>2. ForkJoinInv => PhaseTable
  BY PhaseIs
<1>3. ForkJoinInv /\ PhaseTable /\ PhaseTable' /\ [Next]_vars => [Program!Next]_<<Phases, Kids>>
  BY StepMaps
<1>4. Init => Program!Init
  BY InitMaps
<1> QED
  BY <1>1, <1>2, <1>3, <1>4, PTL DEF Spec, RefinesProgram, Program!Spec

=============================================================================
