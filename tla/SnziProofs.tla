----------------------------- MODULE SnziProofs -----------------------------
(***************************************************************************)
(* Proofs about Snzi: no decrement misses the increment it takes back, an  *)
(* idle tree is zero, and the root answers as a termination detector must  *)
(* -- for any workers, any height of the tree and any number of calls.     *)
(*                                                                         *)
(* The argument is an account.  Every unit of a node's count is claimed by *)
(* exactly one claimant: an active worker (of its leaf), a call on some    *)
(* worker's stack that has incremented the node and not returned, one that *)
(* is going to decrement it, one that must still hand its increment of the *)
(* parent over or take it back, or a child that is not zero.  A half is    *)
(* the unit of the call that wrote it.                                     *)
(***************************************************************************)
EXTENDS Snzi, FiniteSetTheorems, WellFoundedInduction, SequenceTheorems, TLAPS

-----------------------------------------------------------------------------
(* The account.                                                            *)

(* What frame f claims of node m: unit 0 is that of its own node which it  *)
(* has added or is about to take away; units 1, 2, ... are those of the    *)
(* parent that are to be undone and, when the call of the parent has come  *)
(* back, the one that settling the half hands over. *)
FrameClaim(f, j, m, innermost) ==
  \/ j = 0 /\ f.node = m /\ (f.op = "dec" \/ f.succ)
  \/ /\ j >= 1 /\ f.op = "inc" /\ Parent(f.node) = m
     /\ j <= f.undo + (IF innermost /\ f.at = "settle" THEN 1 ELSE 0)

(* What the calls s below the innermost one claim, and what a worker does, *)
(* with its calls or, when it has none and is active, of its leaf. *)
BelowClaim(s, j, m) == \E i \in 2..Len(s) : FrameClaim(s[i], j, m, FALSE)

StackClaim(s, active, leaf, j, m) ==
  IF s = <<>> THEN active /\ j = 0 /\ leaf = m
              ELSE FrameClaim(s[1], j, m, TRUE) \/ BelowClaim(s, j, m)

(* Claim -1 of a node on its parent is that of a count that is not zero. *)
ChildClaim(a, word, j, m) == j = -1 /\ Parent(a) = m /\ word.c >= 1

Claim(a, j, m) ==
  \/ a \in Worker /\ StackClaim(stack[a], act[a], Leaf(a), j, m)
  \/ a \in Node \ {Root} /\ ChildClaim(a, X[a], j, m)

Claims(m) == {p \in Nat \X Int : Claim(p[1], p[2], m)}

(* The units of a node: a half stands for one. *)
Units(word) == IF word.c = Half THEN 1 ELSE word.c

Accounted(m) == IsFiniteSet(Claims(m)) /\ Units(X[m]) = Cardinality(Claims(m))
EveryUnitClaimed == \A m \in Node : Accounted(m)

(* The call that wrote a half is still about to settle it. *)
WroteHalf(f, m, word) ==
  /\ f.op = "inc" /\ f.node = m /\ f.succ
  /\ f.at \in {"help", "settle"} /\ f.x = word

HasWriter(m) ==
  \E w \in Worker : \E i \in 1..Len(stack[w]) : WroteHalf(stack[w][i], m, X[m])
HalfIsOwned == \A m \in Node : X[m].c = Half => HasWriter(m)

(* A stack climbs the tree: below a call there is an increment that has    *)
(* called the parent's increment (to help a half) or its decrement (to     *)
(* undo); the outermost call is that of set_active. *)
CalledBy(g, f) ==
  /\ f.op = "inc"
  /\ \/ f.at = "settle" /\ g.op = "inc" /\ g.node = Parent(f.node)
     \/ f.at = "undo" /\ g.op = "dec"

Outermost(s, active, leaf) ==
  LET f == s[Len(s)] IN
  \/ active /\ f.op = "inc" /\ f.node = leaf
  \/ ~ active /\ Len(s) = 1 /\ f.op = "dec"

Climbing(s, active, leaf) ==
  /\ \A i, j \in 1..Len(s) : i < j => s[i].node <= Parent(s[j].node)
  /\ \A i \in 2..Len(s) : CalledBy(s[i - 1], s[i])
  /\ Len(s) >= 1 => Outermost(s, active, leaf)

StackShape == \A w \in Worker : Climbing(stack[w], act[w], Leaf(w))

(* What a frame knows at each of its steps. *)
FrameShape(f) ==
  /\ f.op = "dec" => f.at \in {"load", "cas"}
  /\ f.op = "inc" =>
       /\ f.at \in {"load", "cas"} => ~ f.succ
       /\ f.at = "undo" => f.succ
       /\ f.at = "cas" => f.x.c # Half
       /\ f.at \in {"help", "settle"} => f.x.c = Half

FramesShaped == \A w \in Worker : \A i \in 1..Len(stack[w]) : FrameShape(stack[w][i])

SnziInv == TypeOK /\ StackShape /\ FramesShaped /\ HalfIsOwned /\ EveryUnitClaimed

-----------------------------------------------------------------------------
(* Lemmas about the tree.                                                  *)

LEMMA TreeFacts ==
  /\ NbLeaves \in Nat /\ NbLeaves >= 1
  /\ Node \subseteq Nat /\ Root \in Node /\ Root = 1 /\ 0 \notin Node
  /\ \A n \in Node : n >= 1
  /\ \A w \in Worker : w \in Nat /\ Leaf(w) \in Node
<1>1. NbLeaves \in Nat /\ NbLeaves >= 1
  BY LeavesAssumption
<1>2. ASSUME NEW w \in Worker
      PROVE  w \in Nat /\ Leaf(w) \in Node
  <2>1. w \in Nat
    BY WorkerAssumption
  <2>2. w % NbLeaves \in 0..(NbLeaves - 1)
    BY <1>1, <2>1
  <2> QED
    BY <1>1, <2>1, <2>2 DEF Leaf, Node, Root
<1> QED
  BY <1>1, <1>2 DEF Node, Root

LEMMA ParentFacts ==
  ASSUME NEW n \in Nat
  PROVE  /\ Parent(n) \in Nat /\ Parent(n) <= n
         /\ n >= 1 => Parent(n) < n
         /\ n \in Node \ {Root} => Parent(n) \in Node
         /\ n = Root => Parent(n) \notin Node
<1>1. Parent(n) \in Int /\ 2 * Parent(n) <= n /\ n <= 2 * Parent(n) + 1
  BY Z3 DEF Parent
<1>2. Parent(n) \in Nat /\ Parent(n) <= n
  BY <1>1
<1>3. n >= 1 => Parent(n) < n
  BY <1>1
<1>4. n \in Node \ {Root} => Parent(n) \in Node
  BY <1>1, TreeFacts DEF Node, Root
<1>5. n = Root => Parent(n) \notin Node
  BY <1>1, TreeFacts DEF Node, Root
<1> QED
  BY <1>2, <1>3, <1>4, <1>5

-----------------------------------------------------------------------------
(* Lemmas about stacks.                                                    *)

StackType == stack \in [Worker -> Seq(FrameType)]

(* What the three stack operations do to the frames. *)
LEMMA Replaced ==
  ASSUME NEW S, NEW s \in Seq(S), s # <<>>, NEW f \in S
  PROVE  LET r == <<f>> \o Tail(s)
         IN  /\ r \in Seq(S) /\ Len(r) = Len(s) /\ r[1] = f
             /\ \A i \in 2..Len(s) : r[i] = s[i]
<1>1. /\ Tail(s) \in Seq(S) /\ Len(Tail(s)) = Len(s) - 1 /\ Len(s) \in Nat /\ Len(s) >= 1
      /\ \A i \in 1..(Len(s) - 1) : Tail(s)[i] = s[i + 1]
  BY HeadTailProperties
<1> DEFINE t == Tail(s)
           r == <<f>> \o t
<1>2. <<f>> \in Seq(S) /\ Len(<<f>>) = 1 /\ <<f>>[1] = f
  OBVIOUS
<1> HIDE DEF t
<1>3. /\ t \in Seq(S) /\ Len(t) = Len(s) - 1
      /\ \A i \in 1..(Len(s) - 1) : t[i] = s[i + 1]
  BY <1>1 DEF t
<1>4. /\ r \in Seq(S) /\ Len(r) = Len(s) /\ r[1] = f
      /\ \A i \in 2..Len(s) : r[i] = t[i - 1]
  <2>1. /\ r \in Seq(S) /\ Len(r) = Len(<<f>>) + Len(t)
        /\ \A i \in 1..(Len(<<f>>) + Len(t)) :
             r[i] = IF i <= Len(<<f>>) THEN <<f>>[i] ELSE t[i - Len(<<f>>)]
    BY <1>2, <1>3, ConcatProperties
  <2> HIDE DEF r
  <2> QED
    BY <1>1, <1>2, <1>3, <2>1
<1>5. ASSUME NEW i \in 2..Len(s)
      PROVE  r[i] = s[i]
  <2>1. i - 1 \in 1..(Len(s) - 1) /\ (i - 1) + 1 = i
    BY <1>1
  <2> QED
    BY <1>3, <1>4, <2>1
<1> QED
  BY <1>4, <1>5 DEF t

LEMMA Pushed ==
  ASSUME NEW S, NEW s \in Seq(S), s # <<>>, NEW f \in S, NEW g \in S
  PROVE  LET r == <<g, f>> \o Tail(s)
         IN  /\ r \in Seq(S) /\ Len(r) = Len(s) + 1 /\ r[1] = g /\ r[2] = f
             /\ \A i \in 2..Len(s) : r[i + 1] = s[i]
<1>1. /\ Tail(s) \in Seq(S) /\ Len(Tail(s)) = Len(s) - 1 /\ Len(s) \in Nat /\ Len(s) >= 1
      /\ \A i \in 1..(Len(s) - 1) : Tail(s)[i] = s[i + 1]
  BY HeadTailProperties
<1> DEFINE t == Tail(s)
           r == <<g, f>> \o t
<1>2. <<g, f>> \in Seq(S) /\ Len(<<g, f>>) = 2 /\ <<g, f>>[1] = g /\ <<g, f>>[2] = f
  OBVIOUS
<1> HIDE DEF t
<1>3. /\ t \in Seq(S) /\ Len(t) = Len(s) - 1
      /\ \A i \in 1..(Len(s) - 1) : t[i] = s[i + 1]
  BY <1>1 DEF t
<1>4. /\ r \in Seq(S) /\ Len(r) = Len(s) + 1 /\ r[1] = g /\ r[2] = f
      /\ \A i \in 3..(Len(s) + 1) : r[i] = t[i - 2]
  BY <1>1, <1>2, <1>3
<1>5. ASSUME NEW i \in 2..Len(s)
      PROVE  r[i + 1] = s[i]
  <2>1. /\ i - 1 \in 1..(Len(s) - 1) /\ (i - 1) + 1 = i
        /\ i + 1 \in 3..(Len(s) + 1) /\ (i + 1) - 2 = i - 1
    BY <1>1
  <2>2. r[i + 1] = t[i - 1]
    BY <1>4, <2>1
  <2>3. t[i - 1] = s[i]
    BY <1>3, <2>1
  <2> QED
    BY <2>2, <2>3, Zenon
<1> QED
  BY <1>4, <1>5 DEF t

LEMMA Popped ==
  ASSUME NEW S, NEW s \in Seq(S), s # <<>>
  PROVE  /\ Tail(s) \in Seq(S) /\ Len(Tail(s)) = Len(s) - 1 /\ Len(s) \in Nat /\ Len(s) >= 1
         /\ \A i \in 1..(Len(s) - 1) : Tail(s)[i] = s[i + 1]
         /\ Head(s) = s[1] /\ s[1] \in S
  BY HeadTailProperties

(* The same, of worker w's stack. *)
LEMMA ContinueEffect ==
  ASSUME StackType, NEW w \in Worker, stack[w] # <<>>, NEW f \in FrameType, Continue(w, f)
  PROVE  /\ StackType' /\ \A v \in Worker \ {w} : stack'[v] = stack[v]
         /\ Len(stack'[w]) = Len(stack[w]) /\ Len(stack[w]) \in Nat /\ Len(stack[w]) >= 1
         /\ stack'[w][1] = f
         /\ \A i \in 2..Len(stack[w]) : stack'[w][i] = stack[w][i]
<1>1. stack[w] \in Seq(FrameType)
  BY DEF StackType
<1>2. stack'[w] = <<f>> \o Tail(stack[w]) /\ \A v \in Worker \ {w} : stack'[v] = stack[v]
  BY DEF Continue, StackType
<1>3. /\ stack'[w] \in Seq(FrameType) /\ Len(stack'[w]) = Len(stack[w]) /\ stack'[w][1] = f
      /\ \A i \in 2..Len(stack[w]) : stack'[w][i] = stack[w][i]
  BY <1>1, <1>2, Replaced
<1>4. StackType'
  BY <1>2, <1>3 DEF StackType, Continue
<1> QED
  BY <1>1, <1>2, <1>3, <1>4

LEMMA CallEffect ==
  ASSUME StackType, NEW w \in Worker, stack[w] # <<>>, NEW f \in FrameType,
         NEW g \in FrameType, Call(w, f, g)
  PROVE  /\ StackType' /\ \A v \in Worker \ {w} : stack'[v] = stack[v]
         /\ Len(stack'[w]) = Len(stack[w]) + 1 /\ Len(stack[w]) \in Nat /\ Len(stack[w]) >= 1
         /\ stack'[w][1] = g /\ stack'[w][2] = f
         /\ \A i \in 2..Len(stack[w]) : stack'[w][i + 1] = stack[w][i]
<1>1. stack[w] \in Seq(FrameType)
  BY DEF StackType
<1>2. stack'[w] = <<g, f>> \o Tail(stack[w]) /\ \A v \in Worker \ {w} : stack'[v] = stack[v]
  BY DEF Call, StackType
<1>3. /\ stack'[w] \in Seq(FrameType) /\ Len(stack'[w]) = Len(stack[w]) + 1
      /\ stack'[w][1] = g /\ stack'[w][2] = f
      /\ \A i \in 2..Len(stack[w]) : stack'[w][i + 1] = stack[w][i]
  BY <1>1, <1>2, Pushed
<1>4. StackType'
  BY <1>2, <1>3 DEF StackType, Call
<1> QED
  BY <1>1, <1>2, <1>3, <1>4

LEMMA ReturnEffect ==
  ASSUME StackType, NEW w \in Worker, stack[w] # <<>>, Return(w)
  PROVE  /\ StackType' /\ \A v \in Worker \ {w} : stack'[v] = stack[v]
         /\ Len(stack'[w]) = Len(stack[w]) - 1 /\ Len(stack[w]) \in Nat /\ Len(stack[w]) >= 1
         /\ \A i \in 1..(Len(stack[w]) - 1) : stack'[w][i] = stack[w][i + 1]
         /\ Len(stack[w]) = 1 <=> stack'[w] = <<>>
<1>1. stack[w] \in Seq(FrameType)
  BY DEF StackType
<1>2. stack'[w] = Tail(stack[w]) /\ \A v \in Worker \ {w} : stack'[v] = stack[v]
  BY DEF Return, StackType
<1>3. /\ stack'[w] \in Seq(FrameType) /\ Len(stack'[w]) = Len(stack[w]) - 1
      /\ \A i \in 1..(Len(stack[w]) - 1) : stack'[w][i] = stack[w][i + 1]
      /\ Len(stack[w]) \in Nat /\ Len(stack[w]) >= 1
  BY <1>1, <1>2, Popped
<1>4. StackType'
  BY <1>2, <1>3 DEF StackType, Return
<1>5. Len(stack[w]) = 1 <=> stack'[w] = <<>>
  <2>1. PICK t \in Seq(FrameType) : t = stack'[w]
    BY <1>3
  <2>2. Len(t) = 0 <=> t = <<>>
    BY <2>1, EmptySeq
  <2>3. PICK n \in Nat : n = Len(stack[w])
    BY <1>3
  <2>4. Len(t) = n - 1
    BY <1>3, <2>1, <2>3
  <2>5. Len(t) = 0 <=> n = 1
    BY <2>3, <2>4
  <2> QED
    BY <2>1, <2>2, <2>3, <2>5
<1> QED
  BY <1>1, <1>2, <1>3, <1>4, <1>5

(* The innermost frame. *)
LEMMA TopFacts ==
  ASSUME StackType, NEW w \in Worker, stack[w] # <<>>
  PROVE  /\ Top(w) = stack[w][1] /\ Top(w) \in FrameType
         /\ Len(stack[w]) \in Nat /\ Len(stack[w]) >= 1
<1>1. stack[w] \in Seq(FrameType)
  BY DEF StackType
<1> QED
  BY <1>1, Popped DEF Top

(* What frames claim is of their node or its parent, so that the calls     *)
(* below the innermost one have no claim on the nodes above its own. *)
LEMMA BelowIsBelow ==
  ASSUME NEW s \in Seq(FrameType), Len(s) >= 1, NEW active, NEW leaf,
         Climbing(s, active, leaf)
  PROVE  /\ \A m \in Int : BelowClaim(s, 0, m) => m > s[1].node
         /\ \A m \in Int, j \in Int : BelowClaim(s, j, m) => m >= s[1].node
<1>1. Len(s) \in Nat /\ \A i \in 1..Len(s) : s[i] \in FrameType
  OBVIOUS
<1>2. ASSUME NEW i \in 2..Len(s)
      PROVE  /\ s[i].node \in Nat /\ s[1].node \in Nat /\ Parent(s[i].node) \in Nat
             /\ s[1].node <= Parent(s[i].node) /\ Parent(s[i].node) < s[i].node
  <2>1. 1 \in 1..Len(s) /\ i \in 1..Len(s) /\ 1 < i
    BY <1>1
  <2>2. s[1].node \in Node /\ s[i].node \in Node
    BY <1>1, <2>1 DEF FrameType
  <2>3. s[1].node <= Parent(s[i].node)
    BY <2>1 DEF Climbing
  <2> QED
    BY <2>2, <2>3, TreeFacts, ParentFacts
<1>3. ASSUME NEW m \in Int, BelowClaim(s, 0, m)
      PROVE  m > s[1].node
  <2>1. PICK i \in 2..Len(s) : FrameClaim(s[i], 0, m, FALSE)
    BY <1>3 DEF BelowClaim
  <2>2. s[i].node = m
    BY <2>1 DEF FrameClaim
  <2> QED
    BY <1>2, <2>2
<1>4. ASSUME NEW m \in Int, NEW j \in Int, BelowClaim(s, j, m)
      PROVE  m >= s[1].node
  <2>1. PICK i \in 2..Len(s) : FrameClaim(s[i], j, m, FALSE)
    BY <1>4 DEF BelowClaim
  <2>2. s[i].node = m \/ Parent(s[i].node) = m
    BY <2>1 DEF FrameClaim
  <2> QED
    BY <1>2, <2>2
<1> QED
  BY <1>3, <1>4

(* What the claims of a stack are after each stack operation. *)
LEMMA ContinueClaims ==
  ASSUME NEW s \in Seq(FrameType), NEW r \in Seq(FrameType), NEW active, NEW leaf,
         Len(s) >= 1, Len(r) = Len(s), \A i \in 2..Len(s) : r[i] = s[i],
         NEW j, NEW m
  PROVE  /\ BelowClaim(r, j, m) <=> BelowClaim(s, j, m)
         /\ StackClaim(r, active, leaf, j, m)
              <=> FrameClaim(r[1], j, m, TRUE) \/ BelowClaim(s, j, m)
<1>1. BelowClaim(r, j, m) <=> BelowClaim(s, j, m)
  BY DEF BelowClaim
<1>2. r # <<>>
  OBVIOUS
<1> QED
  BY <1>1, <1>2 DEF StackClaim

LEMMA CallClaims ==
  ASSUME NEW s \in Seq(FrameType), NEW r \in Seq(FrameType), NEW active, NEW leaf,
         Len(s) >= 1, Len(r) = Len(s) + 1, \A i \in 2..Len(s) : r[i + 1] = s[i],
         NEW j, NEW m
  PROVE  StackClaim(r, active, leaf, j, m)
           <=> \/ FrameClaim(r[1], j, m, TRUE) \/ FrameClaim(r[2], j, m, FALSE)
               \/ BelowClaim(s, j, m)
<1>1. Len(s) \in Nat /\ r # <<>>
  OBVIOUS
<1>2. ASSUME BelowClaim(r, j, m)
      PROVE  FrameClaim(r[2], j, m, FALSE) \/ BelowClaim(s, j, m)
  <2>1. PICK i \in 2..Len(r) : FrameClaim(r[i], j, m, FALSE)
    BY <1>2 DEF BelowClaim
  <2>2. CASE i = 2
    BY <2>1, <2>2
  <2>3. CASE i > 2
    <3>1. i - 1 \in 2..Len(s) /\ (i - 1) + 1 = i
      BY <1>1, <2>3
    <3>2. r[i] = s[i - 1]
      BY <3>1
    <3> QED
      BY <2>1, <3>1, <3>2 DEF BelowClaim
  <2>4. i = 2 \/ i > 2
    BY <1>1
  <2> QED
    BY <2>2, <2>3, <2>4
<1>3. ASSUME FrameClaim(r[2], j, m, FALSE)
      PROVE  BelowClaim(r, j, m)
  <2>1. 2 \in 2..Len(r)
    BY <1>1
  <2> QED
    BY <1>3, <2>1, Zenon DEF BelowClaim
<1>4. ASSUME BelowClaim(s, j, m)
      PROVE  BelowClaim(r, j, m)
  <2>1. PICK i \in 2..Len(s) : FrameClaim(s[i], j, m, FALSE)
    BY <1>4 DEF BelowClaim
  <2>2. i + 1 \in 2..Len(r) /\ r[i + 1] = s[i]
    BY <1>1
  <2> QED
    BY <2>1, <2>2 DEF BelowClaim
<1> QED
  BY <1>1, <1>2, <1>3, <1>4 DEF StackClaim

LEMMA ReturnClaims ==
  ASSUME NEW s \in Seq(FrameType), NEW r \in Seq(FrameType), NEW active, NEW leaf,
         Len(s) >= 2, Len(r) = Len(s) - 1, \A i \in 1..(Len(s) - 1) : r[i] = s[i + 1],
         NEW j \in Int, NEW m
  PROVE  /\ StackClaim(r, active, leaf, j, m)
              <=> FrameClaim(s[2], j, m, TRUE) \/ BelowClaim(s, j, m)
         /\ FrameClaim(s[2], j, m, FALSE) => BelowClaim(s, j, m)
<1>1. Len(s) \in Nat /\ r # <<>> /\ r[1] = s[2] /\ s[2] \in FrameType
  OBVIOUS
<1>2. ASSUME BelowClaim(r, j, m)
      PROVE  BelowClaim(s, j, m)
  <2>1. PICK i \in 2..Len(r) : FrameClaim(r[i], j, m, FALSE)
    BY <1>2 DEF BelowClaim
  <2>2. i + 1 \in 2..Len(s) /\ r[i] = s[i + 1]
    BY <1>1
  <2> QED
    BY <2>1, <2>2 DEF BelowClaim
<1>3. ASSUME BelowClaim(s, j, m)
      PROVE  FrameClaim(s[2], j, m, TRUE) \/ BelowClaim(r, j, m)
  <2>1. PICK i \in 2..Len(s) : FrameClaim(s[i], j, m, FALSE)
    BY <1>3 DEF BelowClaim
  <2>2. CASE i = 2
    BY <1>1, <2>1, <2>2 DEF FrameClaim, FrameType
  <2>3. CASE i > 2
    <3>1. i - 1 \in 2..Len(r) /\ i - 1 \in 1..(Len(s) - 1) /\ (i - 1) + 1 = i
      BY <1>1, <2>3
    <3>2. r[i - 1] = s[i]
      BY <3>1
    <3> QED
      BY <2>1, <3>1, <3>2 DEF BelowClaim
  <2>4. i = 2 \/ i > 2
    BY <1>1
  <2> QED
    BY <2>2, <2>3, <2>4
<1>4. FrameClaim(s[2], j, m, FALSE) => BelowClaim(s, j, m)
  <2>1. 2 \in 2..Len(s)
    BY <1>1
  <2> QED
    BY <2>1, Zenon DEF BelowClaim
<1> QED
  BY <1>1, <1>2, <1>3, <1>4 DEF StackClaim

(* Each stack operation keeps a stack climbing: the innermost call may     *)
(* move up (DecCas), call its parent, or return. *)
LEMMA ContinueClimbs ==
  ASSUME NEW s \in Seq(FrameType), NEW r \in Seq(FrameType), NEW active, NEW leaf,
         Climbing(s, active, leaf),
         Len(s) >= 1, Len(r) = Len(s), \A i \in 2..Len(s) : r[i] = s[i],
         r[1].op = s[1].op, r[1].node <= s[1].node,
         r[1].op = "inc" => r[1].node = s[1].node
  PROVE  Climbing(r, active, leaf)
<1>1. /\ Len(s) \in Nat /\ 1 \in 1..Len(s)
      /\ \A i \in 1..Len(s) : s[i] \in FrameType /\ r[i] \in FrameType
  OBVIOUS
<1>2. \A i \in 1..Len(s) : s[i].node \in Nat /\ r[i].node \in Nat /\ Parent(s[i].node) \in Nat
  BY <1>1, TreeFacts, ParentFacts DEF FrameType
<1>3. ASSUME NEW i \in 1..Len(r), NEW j \in 1..Len(r), i < j
      PROVE  r[i].node <= Parent(r[j].node)
  <2>1. i \in 1..Len(s) /\ j \in 1..Len(s) /\ j # 1
    BY <1>1, <1>3
  <2>2. s[i].node <= Parent(s[j].node)
    BY <1>3, <2>1 DEF Climbing
  <2>3. r[j] = s[j]
    BY <1>1, <2>1
  <2>4. r[i].node <= s[i].node
    BY <1>1, <1>2, <2>1
  <2>5. /\ r[i].node \in Nat /\ s[i].node \in Nat /\ Parent(s[j].node) \in Nat
    BY <1>2, <2>1
  <2>6. r[i].node <= Parent(s[j].node)
    BY <2>2, <2>4, <2>5
  <2> QED
    BY <2>3, <2>6
<1>4. ASSUME NEW i \in 2..Len(r)
      PROVE  CalledBy(r[i - 1], r[i])
  <2>1. CalledBy(s[i - 1], s[i]) /\ r[i] = s[i]
    BY DEF Climbing
  <2>2. CASE i = 2
    <3>1. i - 1 = 1
      BY <2>2
    <3> QED
      BY <2>1, <3>1 DEF CalledBy
  <2>3. CASE i > 2
    <3>1. i - 1 \in 2..Len(s)
      BY <1>1, <2>3
    <3>2. r[i - 1] = s[i - 1]
      BY <3>1
    <3> QED
      BY <2>1, <3>2
  <2>4. i = 2 \/ i > 2
    BY <1>1
  <2> QED
    BY <2>2, <2>3, <2>4
<1>5. Outermost(r, active, leaf)
  <2>1. Outermost(s, active, leaf)
    BY DEF Climbing
  <2>2. CASE Len(s) = 1
    BY <2>1, <2>2 DEF Outermost
  <2>3. CASE Len(s) > 1
    <3>1. Len(s) \in 2..Len(s)
      BY <1>1, <2>3
    <3>2. r[Len(r)] = s[Len(s)]
      BY <3>1
    <3> QED
      BY <2>1, <3>2 DEF Outermost
  <2> QED
    BY <1>1, <2>2, <2>3
<1> QED
  BY <1>3, <1>4, <1>5 DEF Climbing

LEMMA CallClimbs ==
  ASSUME NEW s \in Seq(FrameType), NEW r \in Seq(FrameType), NEW active, NEW leaf,
         Climbing(s, active, leaf),
         Len(s) >= 1, Len(r) = Len(s) + 1, \A i \in 2..Len(s) : r[i + 1] = s[i],
         s[1].op = "inc", r[2].op = "inc", r[2].node = s[1].node,
         r[1].node = Parent(s[1].node), CalledBy(r[1], r[2])
  PROVE  Climbing(r, active, leaf)
<1>1. /\ Len(s) \in Nat /\ 1 \in 1..Len(s)
      /\ \A i \in 1..Len(s) : s[i] \in FrameType
  OBVIOUS
<1>2. \A i \in 1..Len(s) :
        s[i].node \in Nat /\ Parent(s[i].node) \in Nat /\ Parent(s[i].node) <= s[i].node
  BY <1>1, TreeFacts, ParentFacts DEF FrameType
<1>3. ASSUME NEW j \in 2..Len(r)
      PROVE  r[j].node = s[j - 1].node /\ j - 1 \in 1..Len(s)
  <2>1. CASE j = 2
    BY <1>1, <2>1
  <2>2. CASE j > 2
    <3>1. j - 1 \in 2..Len(s) /\ (j - 1) + 1 = j
      BY <1>1, <2>2
    <3> QED
      BY <3>1
  <2>3. j = 2 \/ j > 2
    BY <1>1
  <2> QED
    BY <2>1, <2>2, <2>3
<1>4. ASSUME NEW i \in 1..Len(r), NEW j \in 1..Len(r), i < j
      PROVE  r[i].node <= Parent(r[j].node)
  <2>1. j \in 2..Len(r)
    BY <1>1, <1>4
  <2>2. r[j].node = s[j - 1].node /\ j - 1 \in 1..Len(s)
    BY <1>3, <2>1
  <2>3. CASE i = 1
    <3>1. CASE j - 1 = 1
      BY <1>2, <2>2, <2>3, <3>1
    <3>2. CASE j - 1 > 1
      <4>1. s[1].node <= Parent(s[j - 1].node)
        BY <1>1, <2>2, <3>2 DEF Climbing
      <4> QED
        BY <1>1, <1>2, <2>2, <2>3, <4>1
    <3> QED
      BY <2>2, <3>1, <3>2
  <2>4. CASE i > 1
    <3>1. i \in 2..Len(r) /\ i - 1 < j - 1
      BY <1>1, <1>4, <2>4
    <3>2. r[i].node = s[i - 1].node /\ i - 1 \in 1..Len(s)
      BY <1>3, <3>1
    <3>3. s[i - 1].node <= Parent(s[j - 1].node)
      BY <2>2, <3>1, <3>2 DEF Climbing
    <3> QED
      BY <2>2, <3>2, <3>3
  <2>5. i = 1 \/ i > 1
    BY <1>1
  <2> QED
    BY <2>3, <2>4, <2>5
<1>5. ASSUME NEW i \in 2..Len(r)
      PROVE  CalledBy(r[i - 1], r[i])
  <2>1. CASE i = 2
    <3>1. i - 1 = 1
      BY <2>1
    <3> QED
      BY <2>1, <3>1
  <2>2. CASE i = 3
    <3>1. i - 1 = 2 /\ 2 \in 2..Len(s) /\ 2 + 1 = i /\ 2 - 1 = 1
      BY <1>1, <2>2
    <3>2. CalledBy(s[1], s[2]) /\ r[i] = s[2]
      BY <3>1 DEF Climbing
    <3>3. r[i - 1].op = s[1].op /\ r[i - 1].node = s[1].node
      BY <3>1
    <3> QED
      BY <3>2, <3>3 DEF CalledBy
  <2>3. CASE i > 3
    <3>1. i - 1 \in 2..Len(s) /\ (i - 1) - 1 \in 2..Len(s)
          /\ (i - 1) + 1 = i /\ ((i - 1) - 1) + 1 = i - 1
      BY <1>1, <2>3
    <3>2. r[i] = s[i - 1] /\ r[i - 1] = s[(i - 1) - 1]
      BY <3>1
    <3>3. CalledBy(s[(i - 1) - 1], s[i - 1])
      BY <3>1 DEF Climbing
    <3> QED
      BY <3>2, <3>3
  <2>4. i = 2 \/ i = 3 \/ i > 3
    BY <1>1
  <2> QED
    BY <2>1, <2>2, <2>3, <2>4
<1>6. Outermost(r, active, leaf)
  <2>1. Outermost(s, active, leaf)
    BY DEF Climbing
  <2>2. CASE Len(s) = 1
    BY <2>1, <2>2 DEF Outermost
  <2>3. CASE Len(s) > 1
    <3>1. Len(s) \in 2..Len(s)
      BY <1>1, <2>3
    <3>2. r[Len(r)] = s[Len(s)]
      BY <3>1
    <3> QED
      BY <2>1, <2>3, <3>2 DEF Outermost
  <2>4. Len(s) = 1 \/ Len(s) > 1
    <3>1. PICK n \in Nat : n = Len(s) /\ n >= 1
      BY <1>1
    <3>2. n = 1 \/ n > 1
      BY <3>1
    <3> QED
      BY <3>1, <3>2
  <2> QED
    BY <2>2, <2>3, <2>4, Zenon
<1> QED
  BY <1>4, <1>5, <1>6 DEF Climbing

LEMMA ReturnClimbs ==
  ASSUME NEW s \in Seq(FrameType), NEW r \in Seq(FrameType), NEW active, NEW leaf,
         Climbing(s, active, leaf),
         Len(s) >= 1, Len(r) = Len(s) - 1, \A i \in 1..(Len(s) - 1) : r[i] = s[i + 1]
  PROVE  Climbing(r, active, leaf)
<1>1. Len(s) \in Nat /\ Len(r) \in Nat
  OBVIOUS
<1>2. ASSUME NEW i \in 1..Len(r), NEW j \in 1..Len(r), i < j
      PROVE  r[i].node <= Parent(r[j].node)
  <2>1. i + 1 \in 1..Len(s) /\ j + 1 \in 1..Len(s) /\ i + 1 < j + 1
    BY <1>1, <1>2
  <2>2. s[i + 1].node <= Parent(s[j + 1].node)
    BY <2>1 DEF Climbing
  <2>3. r[i] = s[i + 1] /\ r[j] = s[j + 1]
    BY <1>1
  <2> QED
    BY <2>2, <2>3
<1>3. ASSUME NEW i \in 2..Len(r)
      PROVE  CalledBy(r[i - 1], r[i])
  <2>1. i + 1 \in 2..Len(s) /\ (i + 1) - 1 = i /\ (i - 1) + 1 = i /\ i - 1 \in 1..Len(r)
    BY <1>1
  <2>2. CalledBy(s[i], s[i + 1])
    BY <2>1 DEF Climbing
  <2>3. r[i - 1] = s[i] /\ r[i] = s[i + 1]
    BY <1>1, <2>1
  <2> QED
    BY <2>2, <2>3
<1>4. ASSUME Len(r) >= 1
      PROVE  Outermost(r, active, leaf)
  <2>1. Outermost(s, active, leaf)
    BY DEF Climbing
  <2>2. Len(r) \in 1..(Len(s) - 1) /\ Len(r) + 1 = Len(s) /\ Len(s) # 1
    BY <1>1, <1>4
  <2>3. r[Len(r)] = s[Len(s)]
    BY <2>2
  <2> QED
    BY <2>1, <2>2, <2>3 DEF Outermost
<1> QED
  BY <1>2, <1>3, <1>4 DEF Climbing

-----------------------------------------------------------------------------
(* Lemmas about the account of a node.                                     *)

(* Who claims with which number. *)
LEMMA ClaimMeans ==
  ASSUME NEW m \in Node, NEW a \in Nat, NEW j \in Int
  PROVE  /\ j >= 0 => (Claim(a, j, m) <=>
                         a \in Worker /\ StackClaim(stack[a], act[a], Leaf(a), j, m))
         /\ j < 0 => (Claim(a, j, m) <=>
                         a \in Node \ {Root} /\ ChildClaim(a, X[a], j, m))
<1>1. StackClaim(stack[a], act[a], Leaf(a), j, m) => j >= 0
  BY DEF StackClaim, BelowClaim, FrameClaim
<1>2. ChildClaim(a, X[a], j, m) => j < 0
  BY DEF ChildClaim
<1> QED
  BY <1>1, <1>2 DEF Claim

(* The four ways the account of a node changes: not at all, by a unit that *)
(* is added or taken away, and by a unit that changes hands. *)
LEMMA SameClaims ==
  ASSUME NEW m, Accounted(m), Units(X'[m]) = Units(X[m]),
         \A a \in Nat, j \in Int : Claim(a, j, m)' <=> Claim(a, j, m)
  PROVE  Accounted(m)'
<1>1. Claims(m)' = Claims(m)
  BY DEF Claims
<1> QED
  BY <1>1 DEF Accounted

LEMMA UnitAdded ==
  ASSUME NEW m, Accounted(m), Units(X[m]) \in Int, Units(X'[m]) = Units(X[m]) + 1,
         NEW b \in Nat, NEW k \in Int, ~ Claim(b, k, m),
         \A a \in Nat, j \in Int : Claim(a, j, m)' <=> Claim(a, j, m) \/ (a = b /\ j = k)
  PROVE  Accounted(m)'
<1>1. Claims(m)' = Claims(m) \cup {<<b, k>>}
  <2>1. ASSUME NEW p \in Nat \X Int
        PROVE  p \in Claims(m)' <=> p \in Claims(m) \/ p = <<b, k>>
    <3>1. p = <<p[1], p[2]>> /\ p[1] \in Nat /\ p[2] \in Int
      OBVIOUS
    <3>2. Claim(p[1], p[2], m)' <=> Claim(p[1], p[2], m) \/ (p[1] = b /\ p[2] = k)
      BY <3>1
    <3> QED
      BY <3>1, <3>2 DEF Claims
  <2>2. Claims(m) \subseteq Nat \X Int /\ Claims(m)' \subseteq Nat \X Int
        /\ <<b, k>> \in Nat \X Int
    BY DEF Claims
  <2> QED
    BY <2>1, <2>2
<1>2. <<b, k>> \notin Claims(m)
  BY DEF Claims
<1>3. /\ IsFiniteSet(Claims(m) \cup {<<b, k>>})
      /\ Cardinality(Claims(m) \cup {<<b, k>>}) = Cardinality(Claims(m)) + 1
  BY <1>2, FS_AddElement DEF Accounted
<1> QED
  BY <1>1, <1>3 DEF Accounted

LEMMA UnitTaken ==
  ASSUME NEW m, Accounted(m), Units(X[m]) \in Int, Units(X'[m]) = Units(X[m]) - 1,
         NEW b \in Nat, NEW k \in Int, Claim(b, k, m),
         \A a \in Nat, j \in Int : Claim(a, j, m)' <=> Claim(a, j, m) /\ ~ (a = b /\ j = k)
  PROVE  Accounted(m)'
<1>1. Claims(m)' = Claims(m) \ {<<b, k>>}
  <2>1. ASSUME NEW p \in Nat \X Int
        PROVE  p \in Claims(m)' <=> p \in Claims(m) /\ p # <<b, k>>
    <3>1. p = <<p[1], p[2]>> /\ p[1] \in Nat /\ p[2] \in Int
      OBVIOUS
    <3>2. Claim(p[1], p[2], m)' <=> Claim(p[1], p[2], m) /\ ~ (p[1] = b /\ p[2] = k)
      BY <3>1
    <3> QED
      BY <3>1, <3>2 DEF Claims
  <2>2. Claims(m) \subseteq Nat \X Int /\ Claims(m)' \subseteq Nat \X Int
    BY DEF Claims
  <2> QED
    BY <2>1, <2>2
<1>2. <<b, k>> \in Claims(m)
  BY DEF Claims
<1>3. /\ IsFiniteSet(Claims(m) \ {<<b, k>>})
      /\ Cardinality(Claims(m) \ {<<b, k>>}) = Cardinality(Claims(m)) - 1
  BY <1>2, FS_RemoveElement DEF Accounted
<1> QED
  BY <1>1, <1>3 DEF Accounted

(* The claim <<b, k>> on m becomes the claim <<c, l>>. *)
Traded(m, b, k, c, l) ==
  \A a \in Nat, j \in Int :
    Claim(a, j, m)' <=> (Claim(a, j, m) /\ ~ (a = b /\ j = k)) \/ (a = c /\ j = l)

LEMMA UnitTraded ==
  ASSUME NEW m, Accounted(m), Units(X'[m]) = Units(X[m]),
         NEW b \in Nat, NEW k \in Int, Claim(b, k, m),
         NEW c \in Nat, NEW l \in Int, ~ Claim(c, l, m),
         Traded(m, b, k, c, l)
  PROVE  Accounted(m)'
<1> DEFINE R == Claims(m) \ {<<b, k>>}
<1>1. Claims(m)' = R \cup {<<c, l>>}
  <2>1. ASSUME NEW p \in Nat \X Int
        PROVE  p \in Claims(m)' <=> (p \in Claims(m) /\ p # <<b, k>>) \/ p = <<c, l>>
    <3>1. p = <<p[1], p[2]>> /\ p[1] \in Nat /\ p[2] \in Int
      OBVIOUS
    <3>2. Claim(p[1], p[2], m)' <=>
            (Claim(p[1], p[2], m) /\ ~ (p[1] = b /\ p[2] = k)) \/ (p[1] = c /\ p[2] = l)
      BY <3>1 DEF Traded
    <3> QED
      BY <3>1, <3>2 DEF Claims
  <2>2. Claims(m) \subseteq Nat \X Int /\ Claims(m)' \subseteq Nat \X Int
        /\ <<c, l>> \in Nat \X Int
    BY DEF Claims
  <2> QED
    BY <2>1, <2>2
<1>2. <<b, k>> \in Claims(m) /\ <<c, l>> \notin Claims(m)
  BY DEF Claims
<1>3. IsFiniteSet(R) /\ Cardinality(R) = Cardinality(Claims(m)) - 1
  BY <1>2, FS_RemoveElement DEF Accounted
<1>4. /\ IsFiniteSet(R \cup {<<c, l>>})
      /\ Cardinality(R \cup {<<c, l>>}) = Cardinality(R) + 1
  BY <1>2, <1>3, FS_AddElement
<1>5. Cardinality(Claims(m)) \in Nat
  BY FS_CardinalityType DEF Accounted
<1> QED
  BY <1>1, <1>3, <1>4, <1>5 DEF Accounted

-----------------------------------------------------------------------------
(* What the stack operations keep: the shape of the stacks and the frames, *)
(* the writers of the halves, and all claims but those of the frames that  *)
(* change. *)
Others(w) == \A v \in Worker \ {w} : stack'[v] = stack[v] /\ act'[v] = act[v]

LEMMA StackFacts ==
  ASSUME TypeOK, StackShape, FramesShaped, NEW w \in Worker, stack[w] # <<>>
  PROVE  /\ StackType /\ stack[w] \in Seq(FrameType)
         /\ Len(stack[w]) \in Nat /\ Len(stack[w]) >= 1
         /\ Top(w) = stack[w][1] /\ Top(w) \in FrameType /\ FrameShape(Top(w))
         /\ Climbing(stack[w], act[w], Leaf(w))
<1>1. StackType
  BY DEF TypeOK, StackType
<1>2. /\ Top(w) = stack[w][1] /\ Top(w) \in FrameType
      /\ Len(stack[w]) \in Nat /\ Len(stack[w]) >= 1
  BY <1>1, TopFacts
<1>3. 1 \in 1..Len(stack[w])
  BY <1>2
<1> QED
  BY <1>1, <1>2, <1>3 DEF StackType, StackShape, FramesShaped

LEMMA ShapesKept ==
  ASSUME StackShape, FramesShaped, NEW w \in Worker, Others(w),
         Climbing(stack'[w], act'[w], Leaf(w)),
         \A i \in 1..Len(stack'[w]) : FrameShape(stack'[w][i])
  PROVE  StackShape' /\ FramesShaped'
BY DEF StackShape, FramesShaped, Others

LEMMA WriterKept ==
  ASSUME NEW w \in Worker, Others(w), NEW m, HasWriter(m), X'[m] = X[m],
         \A i \in 1..Len(stack[w]) : WroteHalf(stack[w][i], m, X[m]) =>
           \E k \in 1..Len(stack'[w]) : WroteHalf(stack'[w][k], m, X[m])
  PROVE  HasWriter(m)'
<1>1. PICK v \in Worker : \E i \in 1..Len(stack[v]) : WroteHalf(stack[v][i], m, X[m])
  BY DEF HasWriter
<1>2. \E k \in 1..Len(stack'[v]) : WroteHalf(stack'[v][k], m, X[m])
  BY <1>1 DEF Others
<1> QED
  BY <1>2 DEF HasWriter

LEMMA ContinueKeeps ==
  ASSUME TypeOK, StackShape, FramesShaped, NEW w \in Worker, stack[w] # <<>>,
         NEW f \in FrameType, Continue(w, f), act' = act,
         FrameShape(f), f.op = Top(w).op, f.node <= Top(w).node,
         f.op = "inc" => f.node = Top(w).node
  PROVE  /\ StackType' /\ Others(w) /\ StackShape' /\ FramesShaped'
         /\ \A m : /\ HasWriter(m) /\ X'[m] = X[m]
                   /\ WroteHalf(Top(w), m, X[m]) => WroteHalf(f, m, X[m])
                   => HasWriter(m)'
         /\ \A j, m : StackClaim(stack'[w], act'[w], Leaf(w), j, m)
                        <=> FrameClaim(f, j, m, TRUE) \/ BelowClaim(stack[w], j, m)
<1> DEFINE s == stack[w]
           r == stack'[w]
<1>1. /\ StackType /\ s \in Seq(FrameType) /\ Len(s) \in Nat /\ Len(s) >= 1
      /\ Top(w) = s[1] /\ Climbing(s, act[w], Leaf(w))
  BY StackFacts
<1>2. /\ StackType' /\ \A v \in Worker \ {w} : stack'[v] = stack[v]
      /\ Len(r) = Len(s) /\ r[1] = f /\ \A i \in 2..Len(s) : r[i] = s[i]
  BY <1>1, ContinueEffect
<1>3. Others(w) /\ r \in Seq(FrameType) /\ act'[w] = act[w]
  BY <1>2 DEF Others, StackType
<1> HIDE DEF s, r
<1>4. Climbing(r, act[w], Leaf(w))
  BY <1>1, <1>2, <1>3, ContinueClimbs
<1>5. \A i \in 1..Len(r) : FrameShape(r[i])
  <2>1. \A i \in 1..Len(s) : FrameShape(s[i])
    BY DEF s, FramesShaped
  <2> QED
    BY <1>1, <1>2, <2>1
<1>6. StackShape' /\ FramesShaped'
  BY <1>3, <1>4, <1>5, ShapesKept DEF r
<1>7. ASSUME NEW m, HasWriter(m), X'[m] = X[m],
             WroteHalf(Top(w), m, X[m]) => WroteHalf(f, m, X[m])
      PROVE  HasWriter(m)'
  <2>1. ASSUME NEW i \in 1..Len(s), WroteHalf(s[i], m, X[m])
        PROVE  WroteHalf(r[i], m, X[m]) /\ i \in 1..Len(r)
    BY <1>1, <1>2, <1>7, <2>1
  <2> QED
    BY <1>3, <1>7, <2>1, WriterKept DEF s, r
<1>8. ASSUME NEW j, NEW m
      PROVE  StackClaim(r, act[w], Leaf(w), j, m)
               <=> FrameClaim(f, j, m, TRUE) \/ BelowClaim(s, j, m)
  BY <1>1, <1>2, <1>3, ContinueClaims
<1> QED
  BY <1>2, <1>3, <1>6, <1>7, <1>8 DEF s, r

LEMMA CallKeeps ==
  ASSUME TypeOK, StackShape, FramesShaped, NEW w \in Worker, stack[w] # <<>>,
         NEW f \in FrameType, NEW g \in FrameType, Call(w, f, g), act' = act,
         FrameShape(f), FrameShape(g), CalledBy(g, f), g.node = Parent(f.node),
         Top(w).op = "inc", f.node = Top(w).node
  PROVE  /\ StackType' /\ Others(w) /\ StackShape' /\ FramesShaped'
         /\ \A m : /\ HasWriter(m) /\ X'[m] = X[m]
                   /\ WroteHalf(Top(w), m, X[m]) => WroteHalf(f, m, X[m])
                   => HasWriter(m)'
         /\ \A j, m : StackClaim(stack'[w], act'[w], Leaf(w), j, m)
                        <=> \/ FrameClaim(g, j, m, TRUE) \/ FrameClaim(f, j, m, FALSE)
                            \/ BelowClaim(stack[w], j, m)
<1> DEFINE s == stack[w]
           r == stack'[w]
<1>1. /\ StackType /\ s \in Seq(FrameType) /\ Len(s) \in Nat /\ Len(s) >= 1
      /\ Top(w) = s[1] /\ Climbing(s, act[w], Leaf(w))
  BY StackFacts
<1>2. /\ StackType' /\ \A v \in Worker \ {w} : stack'[v] = stack[v]
      /\ Len(r) = Len(s) + 1 /\ r[1] = g /\ r[2] = f
      /\ \A i \in 2..Len(s) : r[i + 1] = s[i]
  BY <1>1, CallEffect
<1>3. Others(w) /\ r \in Seq(FrameType) /\ act'[w] = act[w]
  BY <1>2 DEF Others, StackType
<1> HIDE DEF s, r
<1>4. Climbing(r, act[w], Leaf(w))
  <2>1. s[1].op = "inc" /\ r[2].op = "inc" /\ r[2].node = s[1].node
        /\ r[1].node = Parent(s[1].node) /\ CalledBy(r[1], r[2])
    BY <1>1, <1>2 DEF CalledBy
  <2> QED
    BY <1>1, <1>2, <1>3, <2>1, CallClimbs
<1>5. \A i \in 1..Len(r) : FrameShape(r[i])
  <2>1. \A i \in 1..Len(s) : FrameShape(s[i])
    BY DEF s, FramesShaped
  <2>2. ASSUME NEW i \in 1..Len(r), i > 2
        PROVE  FrameShape(r[i])
    <3>1. i - 1 \in 2..Len(s) /\ i - 1 \in 1..Len(s) /\ (i - 1) + 1 = i
      BY <1>1, <1>2, <2>2
    <3> QED
      BY <1>2, <2>1, <3>1
  <2> QED
    BY <1>1, <1>2, <2>2
<1>6. StackShape' /\ FramesShaped'
  BY <1>3, <1>4, <1>5, ShapesKept DEF r
<1>7. ASSUME NEW m, HasWriter(m), X'[m] = X[m],
             WroteHalf(Top(w), m, X[m]) => WroteHalf(f, m, X[m])
      PROVE  HasWriter(m)'
  <2>1. ASSUME NEW i \in 1..Len(s), WroteHalf(s[i], m, X[m])
        PROVE  WroteHalf(r[i + 1], m, X[m]) /\ i + 1 \in 1..Len(r)
    BY <1>1, <1>2, <1>7, <2>1
  <2> QED
    BY <1>3, <1>7, <2>1, WriterKept DEF s, r
<1>8. ASSUME NEW j, NEW m
      PROVE  StackClaim(r, act[w], Leaf(w), j, m)
               <=> \/ FrameClaim(g, j, m, TRUE) \/ FrameClaim(f, j, m, FALSE)
                   \/ BelowClaim(s, j, m)
  BY <1>1, <1>2, <1>3, CallClaims
<1> QED
  BY <1>2, <1>3, <1>6, <1>7, <1>8 DEF s, r

LEMMA ReturnKeeps ==
  ASSUME TypeOK, StackShape, FramesShaped, NEW w \in Worker, stack[w] # <<>>,
         Return(w), act' = act
  PROVE  /\ StackType' /\ Others(w) /\ StackShape' /\ FramesShaped'
         /\ \A m : /\ HasWriter(m) /\ X'[m] = X[m]
                   /\ ~ WroteHalf(Top(w), m, X[m])
                   => HasWriter(m)'
         /\ Len(stack[w]) = 1 =>
              \A j, m : StackClaim(stack'[w], act'[w], Leaf(w), j, m)
                          <=> act[w] /\ j = 0 /\ Leaf(w) = m
         /\ Len(stack[w]) >= 2 =>
              /\ stack[w][2] \in FrameType /\ FrameShape(stack[w][2])
              /\ CalledBy(Top(w), stack[w][2])
              /\ \A j \in Int : \A m :
                   /\ StackClaim(stack'[w], act'[w], Leaf(w), j, m)
                        <=> FrameClaim(stack[w][2], j, m, TRUE) \/ BelowClaim(stack[w], j, m)
                   /\ FrameClaim(stack[w][2], j, m, FALSE) => BelowClaim(stack[w], j, m)
<1> DEFINE s == stack[w]
           r == stack'[w]
<1>1. /\ StackType /\ s \in Seq(FrameType) /\ Len(s) \in Nat /\ Len(s) >= 1
      /\ Top(w) = s[1] /\ Climbing(s, act[w], Leaf(w))
  BY StackFacts
<1>2. /\ StackType' /\ \A v \in Worker \ {w} : stack'[v] = stack[v]
      /\ Len(r) = Len(s) - 1 /\ \A i \in 1..(Len(s) - 1) : r[i] = s[i + 1]
      /\ Len(s) = 1 <=> r = <<>>
  BY <1>1, ReturnEffect
<1>3. Others(w) /\ r \in Seq(FrameType) /\ act'[w] = act[w]
  BY <1>2 DEF Others, StackType
<1> HIDE DEF s, r
<1>4. Climbing(r, act[w], Leaf(w))
  BY <1>1, <1>2, <1>3, ReturnClimbs
<1>5. /\ \A i \in 1..Len(s) : FrameShape(s[i])
      /\ \A i \in 1..Len(r) : FrameShape(r[i])
  <2>1. \A i \in 1..Len(s) : FrameShape(s[i])
    BY DEF s, FramesShaped
  <2>2. ASSUME NEW i \in 1..Len(r)
        PROVE  FrameShape(r[i])
    <3>1. i \in 1..(Len(s) - 1) /\ i + 1 \in 1..Len(s)
      BY <1>1, <1>2
    <3> QED
      BY <1>2, <2>1, <3>1
  <2> QED
    BY <2>1, <2>2
<1>6. StackShape' /\ FramesShaped'
  BY <1>3, <1>4, <1>5, ShapesKept DEF r
<1>7. ASSUME NEW m, HasWriter(m), X'[m] = X[m], ~ WroteHalf(Top(w), m, X[m])
      PROVE  HasWriter(m)'
  <2>1. ASSUME NEW i \in 1..Len(s), WroteHalf(s[i], m, X[m])
        PROVE  WroteHalf(r[i - 1], m, X[m]) /\ i - 1 \in 1..Len(r)
    <3>1. i # 1
      BY <1>1, <1>7, <2>1
    <3>2. i - 1 \in 1..(Len(s) - 1) /\ (i - 1) + 1 = i
      BY <1>1, <3>1
    <3> QED
      BY <1>2, <2>1, <3>2
  <2> QED
    BY <1>3, <1>7, <2>1, WriterKept DEF s, r
<1>8. ASSUME Len(s) = 1, NEW j, NEW m
      PROVE  StackClaim(r, act[w], Leaf(w), j, m) <=> act[w] /\ j = 0 /\ Leaf(w) = m
  BY <1>2, <1>8 DEF StackClaim
<1>9. ASSUME Len(s) >= 2
      PROVE  /\ s[2] \in FrameType /\ FrameShape(s[2]) /\ CalledBy(Top(w), s[2])
             /\ \A j \in Int : \A m :
                  /\ StackClaim(r, act[w], Leaf(w), j, m)
                       <=> FrameClaim(s[2], j, m, TRUE) \/ BelowClaim(s, j, m)
                  /\ FrameClaim(s[2], j, m, FALSE) => BelowClaim(s, j, m)
  <2>1. 2 \in 1..Len(s) /\ 2 \in 2..Len(s) /\ 2 - 1 = 1
    BY <1>1, <1>9
  <2>2. s[2] \in FrameType /\ FrameShape(s[2])
    BY <1>1, <1>5, <2>1
  <2>3. CalledBy(s[1], s[2])
    BY <1>1, <2>1 DEF Climbing
  <2>4. ASSUME NEW j \in Int, NEW m
        PROVE  /\ StackClaim(r, act[w], Leaf(w), j, m)
                    <=> FrameClaim(s[2], j, m, TRUE) \/ BelowClaim(s, j, m)
               /\ FrameClaim(s[2], j, m, FALSE) => BelowClaim(s, j, m)
    BY <1>1, <1>2, <1>3, <1>9, ReturnClaims
  <2> QED
    BY <1>1, <2>2, <2>3, <2>4
<1> QED
  BY <1>2, <1>3, <1>6, <1>7, <1>8, <1>9 DEF s, r

-----------------------------------------------------------------------------
(* The account when worker w takes a step.                                 *)

LEMMA ClaimsNext ==
  ASSUME NEW w \in Worker, Others(w), NEW m \in Node, NEW a \in Nat, NEW j \in Int
  PROVE  /\ j >= 0 /\ a # w => (Claim(a, j, m)' <=> Claim(a, j, m))
         /\ j >= 0 /\ a = w =>
              (Claim(a, j, m)' <=> StackClaim(stack'[w], act'[w], Leaf(w), j, m))
         /\ j < 0 => (Claim(a, j, m)' <=> a \in Node \ {Root} /\ ChildClaim(a, X'[a], j, m))
<1>1. StackClaim(stack'[a], act'[a], Leaf(a), j, m) => j >= 0
  BY DEF StackClaim, BelowClaim, FrameClaim
<1>2. ChildClaim(a, X'[a], j, m) => j < 0
  BY DEF ChildClaim
<1>3. /\ j >= 0 => (Claim(a, j, m)' <=>
                       a \in Worker /\ StackClaim(stack'[a], act'[a], Leaf(a), j, m))
      /\ j < 0 => (Claim(a, j, m)' <=> a \in Node \ {Root} /\ ChildClaim(a, X'[a], j, m))
  BY <1>1, <1>2 DEF Claim
<1>4. a \in Worker \ {w} => stack'[a] = stack[a] /\ act'[a] = act[a]
  BY DEF Others
<1> QED
  BY <1>3, <1>4, ClaimMeans

(* No child of m leaves or reaches zero. *)
ChildrenSame(m) ==
  \A a \in Node \ {Root} : Parent(a) = m => (X'[a].c >= 1 <=> X[a].c >= 1)

LEMMA ChildClaimsSame ==
  ASSUME NEW m \in Node, ChildrenSame(m), NEW a \in Nat, NEW j \in Int, j < 0
  PROVE  Claim(a, j, m) <=> a \in Node \ {Root} /\ ChildClaim(a, X'[a], j, m)
BY ClaimMeans DEF ChildrenSame, ChildClaim

LEMMA Unmoved ==
  ASSUME NEW w \in Worker, Others(w), NEW m \in Node, Accounted(m),
         Units(X'[m]) = Units(X[m]), ChildrenSame(m),
         \A j \in Nat : StackClaim(stack'[w], act'[w], Leaf(w), j, m)
                          <=> StackClaim(stack[w], act[w], Leaf(w), j, m)
  PROVE  Accounted(m)'
<1>1. ASSUME NEW a \in Nat, NEW j \in Int
      PROVE  Claim(a, j, m)' <=> Claim(a, j, m)
  <2>1. CASE j >= 0 /\ a # w
    BY <2>1, ClaimsNext
  <2>2. CASE j >= 0 /\ a = w
    <3>1. j \in Nat
      BY <2>2
    <3> QED
      BY <2>2, <3>1, ClaimsNext, ClaimMeans
  <2>3. CASE j < 0
    BY <2>3, ClaimsNext, ChildClaimsSame
  <2> QED
    BY <2>1, <2>2, <2>3
<1> QED
  BY <1>1, SameClaims

(* A node's word, and the claims of a worker that has calls in progress. *)
LEMMA WordFacts ==
  ASSUME TypeOK, NEW m \in Node
  PROVE  /\ X[m] \in WordType /\ X[m].c \in Int /\ X[m].v \in Nat
         /\ X[m].c = Half \/ X[m].c \in Nat
         /\ Units(X[m]) \in Nat
BY DEF TypeOK, WordType, Units, Half

LEMMA TopClaims ==
  ASSUME TypeOK, StackShape, FramesShaped, NEW w \in Worker, stack[w] # <<>>,
         NEW j, NEW m
  PROVE  StackClaim(stack[w], act[w], Leaf(w), j, m)
           <=> FrameClaim(Top(w), j, m, TRUE) \/ BelowClaim(stack[w], j, m)
BY StackFacts DEF StackClaim

LEMMA TopIsHighest ==
  ASSUME TypeOK, StackShape, FramesShaped, NEW w \in Worker, stack[w] # <<>>
  PROVE  /\ \A m \in Int : BelowClaim(stack[w], 0, m) => m > Top(w).node
         /\ \A m \in Int, j \in Int : BelowClaim(stack[w], j, m) => m >= Top(w).node
BY StackFacts, BelowIsBelow

(* A step that changes the innermost frame and no word and no claim. *)
LEMMA QuietContinue ==
  ASSUME SnziInv, NEW w \in Worker, stack[w] # <<>>,
         NEW f \in FrameType, Continue(w, f), UNCHANGED <<X, act, calls>>,
         FrameShape(f), f.op = Top(w).op, f.node = Top(w).node,
         \A m \in Node, j \in Nat :
           FrameClaim(f, j, m, TRUE) <=> FrameClaim(Top(w), j, m, TRUE),
         \A m \in Node : WroteHalf(Top(w), m, X[m]) => WroteHalf(f, m, X[m])
  PROVE  SnziInv'
<1>1. TypeOK /\ StackShape /\ FramesShaped /\ HalfIsOwned /\ EveryUnitClaimed
  BY DEF SnziInv
<1>2. f.node <= Top(w).node
  <2>1. Top(w).node \in Nat
    BY <1>1, StackFacts, TreeFacts DEF FrameType
  <2> QED
    BY <2>1
<1>3. /\ StackType' /\ Others(w) /\ StackShape' /\ FramesShaped'
      /\ \A m : /\ HasWriter(m) /\ X'[m] = X[m]
                /\ WroteHalf(Top(w), m, X[m]) => WroteHalf(f, m, X[m])
                => HasWriter(m)'
      /\ \A j, m : StackClaim(stack'[w], act'[w], Leaf(w), j, m)
                     <=> FrameClaim(f, j, m, TRUE) \/ BelowClaim(stack[w], j, m)
  BY <1>1, <1>2, ContinueKeeps
<1>4. TypeOK'
  BY <1>1, <1>3 DEF TypeOK, StackType
<1>5. HalfIsOwned'
  BY <1>1, <1>3 DEF HalfIsOwned
<1>6. ASSUME NEW m \in Node
      PROVE  Accounted(m)'
  <2>1. Accounted(m) /\ Units(X'[m]) = Units(X[m]) /\ ChildrenSame(m)
    BY <1>1 DEF EveryUnitClaimed, ChildrenSame
  <2>2. \A j \in Nat : StackClaim(stack'[w], act'[w], Leaf(w), j, m)
                         <=> StackClaim(stack[w], act[w], Leaf(w), j, m)
    BY <1>1, <1>3, TopClaims
  <2> QED
    BY <1>3, <2>1, <2>2, Unmoved
<1> QED
  BY <1>3, <1>4, <1>5, <1>6 DEF SnziInv, EveryUnitClaimed

-----------------------------------------------------------------------------
(* The steps of an increment.                                              *)

LEMMA ParentOutside ==
  ASSUME NEW f \in FrameType
  PROVE  /\ f.node \in Node /\ f.node \in Nat /\ f.node >= 1
         /\ Parent(f.node) \in Nat /\ Parent(f.node) < f.node
         /\ f.node # Root => Parent(f.node) \in Node
         /\ f.node = Root => Parent(f.node) \notin Node
<1>1. f.node \in Node /\ f.node \in Nat /\ f.node >= 1
  BY TreeFacts DEF FrameType
<1> QED
  BY <1>1, ParentFacts

LEMMA IncLoadKeeps ==
  ASSUME SnziInv, NEW w \in Worker, IncLoad(w)
  PROVE  SnziInv'
<1>1. TypeOK /\ StackShape /\ FramesShaped
  BY DEF SnziInv
<1>2. stack[w] # <<>> /\ Top(w).op = "inc" /\ Top(w).at = "load"
  BY DEF IncLoad, In
<1>3. Top(w) \in FrameType /\ FrameShape(Top(w))
  BY <1>1, <1>2, StackFacts
<1>4. PICK f : f = [Top(w) EXCEPT !.x = X[Top(w).node],
                      !.at = IF X[Top(w).node].c = Half THEN "help" ELSE "cas"]
  OBVIOUS
<1>5. Continue(w, f) /\ UNCHANGED <<X, act, calls>>
  BY <1>4 DEF IncLoad
<1>6. X[Top(w).node] \in WordType
  BY <1>1, <1>3, ParentOutside, WordFacts
<1>7. /\ f \in FrameType /\ f.op = "inc" /\ f.node = Top(w).node
      /\ f.succ = Top(w).succ /\ f.undo = Top(w).undo /\ f.x = X[Top(w).node]
      /\ f.at = IF X[Top(w).node].c = Half THEN "help" ELSE "cas"
  BY <1>2, <1>3, <1>4, <1>6 DEF FrameType
<1>8. FrameShape(f)
  BY <1>2, <1>3, <1>7 DEF FrameShape
<1>9. \A m \in Node, j \in Nat :
        FrameClaim(f, j, m, TRUE) <=> FrameClaim(Top(w), j, m, TRUE)
  BY <1>2, <1>7 DEF FrameClaim
<1>10. \A m \in Node : ~ WroteHalf(Top(w), m, X[m])
  BY <1>2 DEF WroteHalf
<1> QED
  BY <1>2, <1>5, <1>7, <1>8, <1>9, <1>10, QuietContinue

LEMMA IncHelpKeeps ==
  ASSUME SnziInv, NEW w \in Worker, IncHelp(w)
  PROVE  SnziInv'
<1>1. TypeOK /\ StackShape /\ FramesShaped /\ HalfIsOwned /\ EveryUnitClaimed
  BY DEF SnziInv
<1>2. stack[w] # <<>> /\ Top(w).op = "inc" /\ Top(w).at = "help"
  BY DEF IncHelp, In
<1>3. Top(w) \in FrameType /\ FrameShape(Top(w))
  BY <1>1, <1>2, StackFacts
<1>4. PICK f : f = [Top(w) EXCEPT !.at = "settle"]
  OBVIOUS
<1>5. /\ f \in FrameType /\ f.op = "inc" /\ f.node = Top(w).node /\ f.at = "settle"
      /\ f.succ = Top(w).succ /\ f.undo = Top(w).undo /\ f.x = Top(w).x
  BY <1>2, <1>3, <1>4 DEF FrameType
<1>6. FrameShape(f)
  BY <1>2, <1>3, <1>5 DEF FrameShape
<1>7. \A m : WroteHalf(Top(w), m, X[m]) => WroteHalf(f, m, X[m])
  BY <1>2, <1>5 DEF WroteHalf
<1>8. CASE f.node = Root
  <2>1. Continue(w, f) /\ UNCHANGED <<X, act, calls>>
    BY <1>4, <1>5, <1>8 DEF IncHelp
  <2>2. Parent(f.node) \notin Node
    BY <1>5, <1>8, ParentOutside
  <2>3. \A m \in Node, j \in Nat :
          FrameClaim(f, j, m, TRUE) <=> FrameClaim(Top(w), j, m, TRUE)
    BY <1>2, <1>5, <2>2 DEF FrameClaim
  <2> QED
    BY <1>2, <1>5, <1>6, <1>7, <2>1, <2>3, QuietContinue
<1>9. CASE f.node # Root
  <2>1. PICK g : g = Frame("inc", Parent(f.node))
    OBVIOUS
  <2>2. Call(w, f, g) /\ UNCHANGED <<X, act, calls>>
    BY <1>4, <1>5, <1>9, <2>1 DEF IncHelp
  <2>3. /\ g.op = "inc" /\ g.node = Parent(f.node) /\ g.at = "load"
        /\ g.undo = 0 /\ g.succ = FALSE /\ g \in FrameType
    BY <1>5, <1>9, <2>1, ParentOutside DEF Frame, FrameType, WordType, Word
  <2>4. FrameShape(g) /\ CalledBy(g, f)
    BY <1>5, <2>3 DEF FrameShape, CalledBy
  <2>5. /\ StackType' /\ Others(w) /\ StackShape' /\ FramesShaped'
        /\ \A m : /\ HasWriter(m) /\ X'[m] = X[m]
                  /\ WroteHalf(Top(w), m, X[m]) => WroteHalf(f, m, X[m])
                  => HasWriter(m)'
        /\ \A j, m : StackClaim(stack'[w], act'[w], Leaf(w), j, m)
                       <=> \/ FrameClaim(g, j, m, TRUE) \/ FrameClaim(f, j, m, FALSE)
                           \/ BelowClaim(stack[w], j, m)
    BY <1>1, <1>2, <1>5, <1>6, <2>2, <2>3, <2>4, CallKeeps
  <2>6. ASSUME NEW m \in Node
        PROVE  Accounted(m)'
    <3>1. ASSUME NEW j \in Nat
          PROVE  /\ ~ FrameClaim(g, j, m, TRUE)
                 /\ FrameClaim(f, j, m, FALSE) <=> FrameClaim(Top(w), j, m, TRUE)
      BY <1>2, <1>5, <2>3 DEF FrameClaim
    <3>2. \A j \in Nat : StackClaim(stack'[w], act'[w], Leaf(w), j, m)
                           <=> StackClaim(stack[w], act[w], Leaf(w), j, m)
      BY <1>1, <1>2, <2>5, <3>1, TopClaims
    <3>3. Accounted(m) /\ Units(X'[m]) = Units(X[m]) /\ ChildrenSame(m)
      BY <1>1, <2>2 DEF EveryUnitClaimed, ChildrenSame
    <3> QED
      BY <2>5, <3>2, <3>3, Unmoved
  <2>7. TypeOK'
    BY <1>1, <2>2, <2>5 DEF TypeOK, StackType
  <2>8. HalfIsOwned'
    BY <1>1, <1>7, <2>2, <2>5 DEF HalfIsOwned
  <2> QED
    BY <2>5, <2>6, <2>7, <2>8 DEF SnziInv, EveryUnitClaimed
<1> QED
  BY <1>8, <1>9

(* A failed compare-and-swap starts over; one from a positive count, or    *)
(* from zero, adds a unit which the call owns from then on. *)
LEMMA IncCasKeeps ==
  ASSUME SnziInv, NEW w \in Worker, IncCas(w)
  PROVE  SnziInv'
<1>1. TypeOK /\ StackShape /\ FramesShaped /\ HalfIsOwned /\ EveryUnitClaimed
  BY DEF SnziInv
<1>2. /\ stack[w] # <<>> /\ Top(w).op = "inc" /\ Top(w).at = "cas"
      /\ UNCHANGED <<act, calls>>
  BY DEF IncCas, In
<1>3. Top(w) \in FrameType /\ FrameShape(Top(w))
  BY <1>1, <1>2, StackFacts
<1>4. PICK n \in Node : n = Top(w).node
  BY <1>3, ParentOutside
<1>5. \A m : ~ WroteHalf(Top(w), m, X[m])
  BY <1>2 DEF WroteHalf
<1>6. ~ Top(w).succ /\ Top(w).x.c # Half
  BY <1>2, <1>3 DEF FrameShape
<1>7. CASE X' = X /\ Continue(w, [Top(w) EXCEPT !.at = "load"])
  <2>1. PICK f : f = [Top(w) EXCEPT !.at = "load"]
    OBVIOUS
  <2>2. /\ f \in FrameType /\ f.op = "inc" /\ f.node = Top(w).node /\ f.at = "load"
        /\ f.succ = Top(w).succ /\ f.undo = Top(w).undo
    BY <1>2, <1>3, <2>1 DEF FrameType
  <2>3. FrameShape(f)
    BY <1>6, <2>2 DEF FrameShape
  <2>4. \A m \in Node, j \in Nat :
          FrameClaim(f, j, m, TRUE) <=> FrameClaim(Top(w), j, m, TRUE)
    BY <1>2, <2>2 DEF FrameClaim
  <2> QED
    BY <1>2, <1>5, <1>7, <2>1, <2>2, <2>3, <2>4, QuietContinue
<1>8. CASE X[n] = Top(w).x /\ X' # X
  <2>1. PICK new : new = IF X[n].c = 0 THEN Word(Half, X[n].v + 1)
                                      ELSE Word(X[n].c + 1, X[n].v + 1)
    OBVIOUS
  <2>2. PICK f : f = [Top(w) EXCEPT !.x = new, !.succ = TRUE,
                                    !.at = IF X[n].c = 0 THEN "help" ELSE "undo"]
    OBVIOUS
  <2>3. X' = [X EXCEPT ![n] = new] /\ Continue(w, f)
    BY <1>4, <1>8, <2>1, <2>2 DEF IncCas
  <2>4. /\ X[n].c \in Nat /\ X[n].v \in Nat /\ Units(X[n]) = X[n].c
        /\ new \in WordType /\ Units(new) = Units(X[n]) + 1
        /\ new.c = IF X[n].c = 0 THEN Half ELSE X[n].c + 1
        /\ new.c >= 1 <=> X[n].c >= 1
    <3>1. X[n].c \in Nat /\ X[n].v \in Nat
      BY <1>1, <1>6, <1>8, WordFacts
    <3> QED
      BY <2>1, <3>1 DEF Word, WordType, Units, Half
  <2>5. /\ f \in FrameType /\ f.op = "inc" /\ f.node = n /\ f.succ = TRUE
        /\ f.undo = Top(w).undo /\ f.x = new
        /\ f.at = IF X[n].c = 0 THEN "help" ELSE "undo"
    BY <1>2, <1>3, <1>4, <2>2, <2>4 DEF FrameType
  <2>6. FrameShape(f)
    BY <2>4, <2>5 DEF FrameShape
  <2>7. f.node <= Top(w).node
    <3>1. n \in Nat
      BY TreeFacts
    <3> QED
      BY <1>4, <2>5, <3>1
  <2>8. /\ StackType' /\ Others(w) /\ StackShape' /\ FramesShaped'
        /\ \A m : /\ HasWriter(m) /\ X'[m] = X[m]
                  /\ WroteHalf(Top(w), m, X[m]) => WroteHalf(f, m, X[m])
                  => HasWriter(m)'
        /\ \A j, m : StackClaim(stack'[w], act'[w], Leaf(w), j, m)
                       <=> FrameClaim(f, j, m, TRUE) \/ BelowClaim(stack[w], j, m)
    BY <1>1, <1>2, <1>4, <2>3, <2>5, <2>6, <2>7, ContinueKeeps
  <2>9. /\ X \in [Node -> WordType] /\ X' \in [Node -> WordType]
        /\ X'[n] = new /\ \A m \in Node \ {n} : X'[m] = X[m]
    BY <1>1, <2>3, <2>4 DEF TypeOK
  <2>10. TypeOK'
    BY <1>1, <1>2, <2>8, <2>9 DEF TypeOK, StackType
  <2>11. ASSUME NEW m \in Node, X'[m].c = Half
         PROVE  HasWriter(m)'
    <3>1. CASE m = n
      <4>1. X[n].c = 0
        BY <2>4, <2>9, <2>11, <3>1 DEF Half
      <4>2. WroteHalf(f, m, X'[m])
        BY <2>5, <2>9, <3>1, <4>1 DEF WroteHalf
      <4>3. stack'[w][1] = f /\ 1 \in 1..Len(stack'[w])
        BY <1>1, <1>2, <2>3, <2>5, StackFacts, ContinueEffect
      <4> QED
        BY <4>2, <4>3 DEF HasWriter
    <3>2. CASE m # n
      <4>1. X'[m] = X[m] /\ HasWriter(m)
        BY <1>1, <2>9, <2>11, <3>2 DEF HalfIsOwned
      <4> QED
        BY <1>5, <2>8, <4>1
    <3> QED
      BY <3>1, <3>2
  <2>12. \A m : ChildrenSame(m)
    BY <2>4, <2>9 DEF ChildrenSame
  <2>13. ASSUME NEW m \in Node, NEW j \in Nat
         PROVE  FrameClaim(f, j, m, TRUE)
                  <=> FrameClaim(Top(w), j, m, TRUE) \/ (m = n /\ j = 0)
    BY <1>2, <1>4, <1>6, <2>5 DEF FrameClaim
  <2>14. ASSUME NEW m \in Node
         PROVE  Accounted(m)'
    <3>1. Accounted(m)
      BY <1>1 DEF EveryUnitClaimed
    <3>2. ASSUME NEW j \in Nat
          PROVE  StackClaim(stack'[w], act'[w], Leaf(w), j, m)
                   <=> StackClaim(stack[w], act[w], Leaf(w), j, m) \/ (m = n /\ j = 0)
      BY <1>1, <1>2, <2>8, <2>13, TopClaims
    <3>3. CASE m # n
      BY <2>8, <2>9, <2>12, <3>1, <3>2, <3>3, Unmoved
    <3>4. CASE m = n
      <4>1. ~ StackClaim(stack[w], act[w], Leaf(w), 0, n)
        <5>1. ~ FrameClaim(Top(w), 0, n, TRUE)
          BY <1>2, <1>6 DEF FrameClaim
        <5>2. n \in Int /\ ~ n > Top(w).node
          BY <1>4, TreeFacts
        <5>3. ~ BelowClaim(stack[w], 0, n)
          BY <1>1, <1>2, <5>2, TopIsHighest
        <5> QED
          BY <1>1, <1>2, <5>1, <5>3, TopClaims
      <4>2. w \in Nat
        BY TreeFacts
      <4>3. ~ Claim(w, 0, n)
        BY <4>1, <4>2, ClaimMeans
      <4>4. ASSUME NEW a \in Nat, NEW j \in Int
            PROVE  Claim(a, j, n)' <=> Claim(a, j, n) \/ (a = w /\ j = 0)
        <5>1. CASE j >= 0 /\ a # w
          BY <2>8, <5>1, ClaimsNext
        <5>2. CASE j >= 0 /\ a = w
          <6>1. j \in Nat
            BY <5>2
          <6> QED
            BY <2>8, <3>2, <3>4, <5>2, <6>1, ClaimsNext, ClaimMeans
        <5>3. CASE j < 0
          BY <2>8, <2>12, <5>3, ClaimsNext, ChildClaimsSame
        <5> QED
          BY <5>1, <5>2, <5>3
      <4>5. Units(X'[n]) = Units(X[n]) + 1 /\ Units(X[n]) \in Int
        BY <2>4, <2>9
      <4> QED
        BY <3>1, <3>4, <4>2, <4>3, <4>4, <4>5, UnitAdded
    <3> QED
      BY <3>3, <3>4
  <2> QED
    BY <2>8, <2>10, <2>11, <2>14 DEF SnziInv, HalfIsOwned, EveryUnitClaimed
<1>9. \/ X' = X /\ Continue(w, [Top(w) EXCEPT !.at = "load"])
      \/ X[n] = Top(w).x /\ X' # X
  <2>1. CASE X[n] = Top(w).x
    <3>1. X' = [X EXCEPT ![n] = IF X[n].c = 0 THEN Word(Half, X[n].v + 1)
                                              ELSE Word(X[n].c + 1, X[n].v + 1)]
      BY <1>4, <2>1 DEF IncCas
    <3>2. X[n].c \in Nat /\ X[n].v \in Nat
      BY <1>1, <1>6, <2>1, WordFacts
    <3>3. X'[n].v = X[n].v + 1
      BY <1>1, <3>1 DEF TypeOK, Word
    <3>4. X'[n] # X[n]
      BY <3>2, <3>3
    <3> QED
      BY <2>1, <3>4
  <2>2. CASE X[n] # Top(w).x
    BY <1>4, <2>2 DEF IncCas
  <2> QED
    BY <2>1, <2>2
<1> QED
  BY <1>7, <1>8, <1>9

(* A half becomes one: the unit of the parent that was taken for it is     *)
(* handed over from the call to the node.  When another worker was faster  *)
(* the unit is to be undone. *)
LEMMA IncSettleKeeps ==
  ASSUME SnziInv, NEW w \in Worker, IncSettle(w)
  PROVE  SnziInv'
<1>1. TypeOK /\ StackShape /\ FramesShaped /\ HalfIsOwned /\ EveryUnitClaimed
  BY DEF SnziInv
<1>2. /\ stack[w] # <<>> /\ Top(w).op = "inc" /\ Top(w).at = "settle"
      /\ UNCHANGED <<act, calls>>
  BY DEF IncSettle, In
<1>3. Top(w) \in FrameType /\ FrameShape(Top(w))
  BY <1>1, <1>2, StackFacts
<1>4. PICK n \in Node : n = Top(w).node
  BY <1>3, ParentOutside
<1>5. n \in Nat /\ Parent(n) \in Nat /\ Parent(n) < n
  BY <1>3, <1>4, ParentOutside
<1>6. PICK u \in Nat : u = Top(w).undo
  BY <1>3 DEF FrameType
<1>7. PICK g : g = [Top(w) EXCEPT !.at = IF Top(w).succ THEN "undo" ELSE "load"]
  OBVIOUS
<1>8. /\ g \in FrameType /\ g.op = "inc" /\ g.node = n /\ g.succ = Top(w).succ
      /\ g.undo = u /\ g.at = IF Top(w).succ THEN "undo" ELSE "load"
  BY <1>2, <1>3, <1>4, <1>6, <1>7 DEF FrameType
<1>9. CASE X[n] # Top(w).x
  <2>1. PICK f : f = [g EXCEPT !.undo = @ + 1]
    OBVIOUS
  <2>2. Continue(w, f) /\ X' = X
    BY <1>4, <1>7, <1>9, <2>1 DEF IncSettle
  <2>3. /\ f \in FrameType /\ f.op = "inc" /\ f.node = n /\ f.succ = Top(w).succ
        /\ f.undo = u + 1 /\ f.at = IF Top(w).succ THEN "undo" ELSE "load"
    BY <1>8, <2>1 DEF FrameType
  <2>4. FrameShape(f)
    BY <1>3, <2>3 DEF FrameShape, FrameType
  <2>5. \A m \in Node, j \in Nat :
          FrameClaim(f, j, m, TRUE) <=> FrameClaim(Top(w), j, m, TRUE)
    BY <1>2, <1>3, <1>4, <1>6, <2>3 DEF FrameClaim
  <2>6. \A m : ~ WroteHalf(Top(w), m, X[m])
    BY <1>4, <1>9 DEF WroteHalf
  <2> QED
    BY <1>2, <1>4, <2>2, <2>3, <2>4, <2>5, <2>6, QuietContinue
<1>10. CASE X[n] = Top(w).x
  <2>1. X' = [X EXCEPT ![n].c = 1] /\ Continue(w, g)
    BY <1>4, <1>7, <1>10 DEF IncSettle
  <2>2. X[n].c = Half /\ X[n] \in WordType
    BY <1>1, <1>2, <1>3, <1>10, WordFacts DEF FrameShape
  <2>3. /\ X' \in [Node -> WordType] /\ X'[n].c = 1
        /\ \A m \in Node \ {n} : X'[m] = X[m]
    BY <1>1, <2>1, <2>2 DEF TypeOK, WordType
  <2>4. \A m \in Node : Units(X'[m]) = Units(X[m])
    BY <2>2, <2>3 DEF Units, Half
  <2>5. FrameShape(g)
    BY <1>3, <1>8 DEF FrameShape, FrameType
  <2>6. g.node <= Top(w).node
    BY <1>4, <1>5, <1>8
  <2>7. /\ StackType' /\ Others(w) /\ StackShape' /\ FramesShaped'
        /\ \A m : /\ HasWriter(m) /\ X'[m] = X[m]
                  /\ WroteHalf(Top(w), m, X[m]) => WroteHalf(g, m, X[m])
                  => HasWriter(m)'
        /\ \A j, m : StackClaim(stack'[w], act'[w], Leaf(w), j, m)
                       <=> FrameClaim(g, j, m, TRUE) \/ BelowClaim(stack[w], j, m)
    BY <1>1, <1>2, <1>4, <1>8, <2>1, <2>5, <2>6, ContinueKeeps
  <2>8. TypeOK'
    BY <1>1, <1>2, <2>3, <2>7 DEF TypeOK, StackType
  <2>9. ASSUME NEW m \in Node, X'[m].c = Half
        PROVE  HasWriter(m)'
    <3>1. m # n
      BY <2>3, <2>9 DEF Half
    <3>2. X'[m] = X[m] /\ HasWriter(m) /\ ~ WroteHalf(Top(w), m, X[m])
      BY <1>1, <1>4, <2>3, <2>9, <3>1 DEF HalfIsOwned, WroteHalf
    <3> QED
      BY <2>7, <3>2
  <2>10. ASSUME NEW m \in Node, NEW j \in Nat
         PROVE  FrameClaim(Top(w), j, m, TRUE)
                  <=> FrameClaim(g, j, m, TRUE) \/ (m = Parent(n) /\ j = u + 1)
    BY <1>2, <1>4, <1>6, <1>8 DEF FrameClaim
  <2>11. ~ FrameClaim(g, u + 1, Parent(n), TRUE)
    BY <1>6, <1>8 DEF FrameClaim
  <2>12. ASSUME NEW m \in Node
         PROVE  Accounted(m)'
    <3>1. Accounted(m)
      BY <1>1 DEF EveryUnitClaimed
    <3>2. CASE m # Parent(n) \/ n = Root
      <4>1. m # Parent(n)
        BY <1>3, <1>4, <3>2, ParentOutside
      <4>2. ChildrenSame(m)
        BY <2>3, <4>1 DEF ChildrenSame
      <4>3. \A j \in Nat : StackClaim(stack'[w], act'[w], Leaf(w), j, m)
                             <=> StackClaim(stack[w], act[w], Leaf(w), j, m)
        BY <1>1, <1>2, <2>7, <2>10, <4>1, TopClaims
      <4> QED
        BY <2>4, <2>7, <3>1, <4>2, <4>3, Unmoved
    <3>3. CASE m = Parent(n) /\ n # Root
      <4>1. u + 1 \in Nat /\ u + 1 \in Int /\ w \in Nat
        BY TreeFacts
      <4>2. ~ BelowClaim(stack[w], u + 1, m)
        <5>1. m \in Int /\ ~ m >= Top(w).node
          BY <1>4, <1>5, <3>3
        <5> QED
          BY <1>1, <1>2, <4>1, <5>1, TopIsHighest
      <4>3. /\ StackClaim(stack[w], act[w], Leaf(w), u + 1, m)
            /\ \A j \in Nat : StackClaim(stack'[w], act'[w], Leaf(w), j, m)
                                <=> /\ StackClaim(stack[w], act[w], Leaf(w), j, m)
                                    /\ j # u + 1
        BY <1>1, <1>2, <2>7, <2>10, <2>11, <3>3, <4>1, <4>2, TopClaims
      <4>4. Claim(w, u + 1, m)
        BY <4>1, <4>3, ClaimMeans
      <4>5. ~ Claim(n, -1, m)
        BY <1>5, <2>2, ClaimMeans DEF ChildClaim, Half
      <4>6. ASSUME NEW a \in Nat, NEW j \in Int
            PROVE  Claim(a, j, m)' <=> \/ Claim(a, j, m) /\ ~ (a = w /\ j = u + 1)
                                       \/ a = n /\ j = -1
        <5>1. CASE j >= 0 /\ a # w
          BY <2>7, <5>1, ClaimsNext
        <5>2. CASE j >= 0 /\ a = w
          <6>1. j \in Nat
            BY <5>2
          <6> QED
            BY <2>7, <4>3, <5>2, <6>1, ClaimsNext, ClaimMeans
        <5>3. CASE j < 0
          <6>1. ChildClaim(a, X'[a], j, m) /\ a \in Node \ {Root}
                  <=> \/ ChildClaim(a, X[a], j, m) /\ a \in Node \ {Root}
                      \/ a = n /\ j = -1
            BY <2>2, <2>3, <3>3 DEF ChildClaim, Half
          <6> QED
            BY <2>7, <4>1, <5>3, <6>1, ClaimsNext, ClaimMeans
        <5> QED
          BY <5>1, <5>2, <5>3
      <4>7. Units(X'[m]) = Units(X[m])
        BY <2>4
      <4>8. PICK k \in Int, l \in Int : k = u + 1 /\ l = -1
        BY <4>1
      <4>9. /\ Claim(w, k, m) /\ ~ Claim(n, l, m)
            /\ Traded(m, w, k, n, l)
        BY <4>4, <4>5, <4>6, <4>8 DEF Traded
      <4> QED
        BY <1>5, <3>1, <4>1, <4>7, <4>9, UnitTraded
    <3> QED
      BY <3>2, <3>3
  <2> QED
    BY <2>7, <2>8, <2>9, <2>12 DEF SnziInv, HalfIsOwned, EveryUnitClaimed
<1> QED
  BY <1>9, <1>10

(* An undo hands a unit of the parent over to the decrement that is called *)
(* for it.  The increment that returns hands its unit over to the settling *)
(* of the half it was called for, or to the active worker. *)
LEMMA IncUndoCallKeeps ==
  ASSUME SnziInv, NEW w \in Worker, IncUndo(w),
         Top(w).node # Root, Top(w).undo > 0
  PROVE  SnziInv'
<1>1. TypeOK /\ StackShape /\ FramesShaped /\ HalfIsOwned /\ EveryUnitClaimed
  BY DEF SnziInv
<1>2. /\ stack[w] # <<>> /\ Top(w).op = "inc" /\ Top(w).at = "undo"
      /\ UNCHANGED <<X, act, calls>>
  BY DEF IncUndo, In
<1>3. Top(w) \in FrameType /\ FrameShape(Top(w))
  BY <1>1, <1>2, StackFacts
<1>4. PICK n \in Node : n = Top(w).node
  BY <1>3, ParentOutside
<1>5. /\ n \in Nat /\ Parent(n) \in Nat /\ Parent(n) < n
      /\ n # Root /\ Parent(n) \in Node
  BY <1>3, <1>4, ParentOutside
<1>6. PICK u \in Nat : u = Top(w).undo /\ u > 0
  BY <1>3 DEF FrameType
<1>7. PICK f : f = [Top(w) EXCEPT !.undo = @ - 1]
  OBVIOUS
<1>8. PICK g : g = Frame("dec", Parent(n))
  OBVIOUS
<1>9. Call(w, f, g)
  BY <1>4, <1>5, <1>6, <1>7, <1>8 DEF IncUndo
<1>10. /\ f \in FrameType /\ f.op = "inc" /\ f.node = n /\ f.at = "undo"
       /\ f.succ = Top(w).succ /\ f.undo = u - 1
  BY <1>2, <1>3, <1>4, <1>6, <1>7 DEF FrameType
<1>11. /\ g \in FrameType /\ g.op = "dec" /\ g.node = Parent(n) /\ g.at = "load"
  BY <1>5, <1>8 DEF Frame, FrameType, WordType, Word
<1>12. FrameShape(f) /\ FrameShape(g) /\ CalledBy(g, f)
  BY <1>2, <1>3, <1>10, <1>11 DEF FrameShape, CalledBy
<1>13. /\ StackType' /\ Others(w) /\ StackShape' /\ FramesShaped'
       /\ \A m : /\ HasWriter(m) /\ X'[m] = X[m]
                 /\ WroteHalf(Top(w), m, X[m]) => WroteHalf(f, m, X[m])
                 => HasWriter(m)'
       /\ \A j, m : StackClaim(stack'[w], act'[w], Leaf(w), j, m)
                      <=> \/ FrameClaim(g, j, m, TRUE) \/ FrameClaim(f, j, m, FALSE)
                          \/ BelowClaim(stack[w], j, m)
  BY <1>1, <1>2, <1>4, <1>9, <1>10, <1>11, <1>12, CallKeeps
<1>14. TypeOK'
  BY <1>1, <1>2, <1>13 DEF TypeOK, StackType
<1>15. HalfIsOwned'
  BY <1>1, <1>2, <1>13 DEF HalfIsOwned, WroteHalf
<1>16. ASSUME NEW m \in Node, NEW j \in Nat
       PROVE  /\ FrameClaim(g, j, m, TRUE) <=> m = Parent(n) /\ j = 0
              /\ FrameClaim(Top(w), j, m, TRUE)
                   <=> FrameClaim(f, j, m, FALSE) \/ (m = Parent(n) /\ j = u)
              /\ FrameClaim(f, j, m, FALSE) => ~ (m = Parent(n) /\ j \in {0, u})
  BY <1>2, <1>4, <1>5, <1>6, <1>10, <1>11 DEF FrameClaim
<1>17. ASSUME NEW m \in Node
       PROVE  Accounted(m)'
  <2>1. Accounted(m) /\ Units(X'[m]) = Units(X[m]) /\ ChildrenSame(m)
    BY <1>1, <1>2 DEF EveryUnitClaimed, ChildrenSame
  <2>2. CASE m # Parent(n)
    <3>1. \A j \in Nat : StackClaim(stack'[w], act'[w], Leaf(w), j, m)
                           <=> StackClaim(stack[w], act[w], Leaf(w), j, m)
      BY <1>1, <1>2, <1>13, <1>16, <2>2, TopClaims
    <3> QED
      BY <1>13, <2>1, <3>1, Unmoved
  <2>3. CASE m = Parent(n)
    <3>1. \A j \in Nat : ~ BelowClaim(stack[w], j, m)
      <4>1. m \in Int /\ ~ m >= Top(w).node
        BY <1>4, <1>5, <2>3
      <4> QED
        BY <1>1, <1>2, <4>1, TopIsHighest
    <3>2. PICK z \in Nat : z = 0
      OBVIOUS
    <3>3. \A j \in Nat :
            /\ StackClaim(stack[w], act[w], Leaf(w), j, m)
                 <=> FrameClaim(f, j, m, FALSE) \/ j = u
            /\ StackClaim(stack'[w], act'[w], Leaf(w), j, m)
                 <=> FrameClaim(f, j, m, FALSE) \/ j = z
            /\ FrameClaim(f, j, m, FALSE) => j # u /\ j # z
      BY <1>1, <1>2, <1>13, <1>16, <2>3, <3>1, <3>2, TopClaims
    <3>4. u # z /\ u \in Int /\ z \in Int /\ u >= 0 /\ z >= 0 /\ w \in Nat
      BY <1>6, <3>2, TreeFacts
    <3>5. Claim(w, u, m) /\ ~ Claim(w, z, m)
      BY <3>3, <3>4, ClaimMeans
    <3>6. ASSUME NEW a \in Nat, NEW j \in Int
          PROVE  Claim(a, j, m)' <=> (Claim(a, j, m) /\ ~ (a = w /\ j = u)) \/ (a = w /\ j = z)
      <4>1. CASE j >= 0 /\ a # w
        BY <1>13, <4>1, ClaimsNext
      <4>2. CASE j >= 0 /\ a = w
        <5>1. j \in Nat
          BY <4>2
        <5> QED
          BY <1>13, <3>3, <3>4, <4>2, <5>1, ClaimsNext, ClaimMeans
      <4>3. CASE j < 0
        BY <1>13, <2>1, <3>4, <4>3, ClaimsNext, ChildClaimsSame
      <4> QED
        BY <4>1, <4>2, <4>3
    <3>7. Traded(m, w, u, w, z)
      BY <3>6 DEF Traded
    <3> QED
      BY <2>1, <3>4, <3>5, <3>7, UnitTraded
  <2> QED
    BY <2>2, <2>3
<1> QED
  BY <1>13, <1>14, <1>15, <1>17 DEF SnziInv, EveryUnitClaimed

LEMMA IncUndoReturnKeeps ==
  ASSUME SnziInv, NEW w \in Worker, IncUndo(w),
         Top(w).node = Root \/ ~ Top(w).undo > 0
  PROVE  SnziInv'
<1>1. TypeOK /\ StackShape /\ FramesShaped /\ HalfIsOwned /\ EveryUnitClaimed
  BY DEF SnziInv
<1>2. /\ stack[w] # <<>> /\ Top(w).op = "inc" /\ Top(w).at = "undo"
      /\ UNCHANGED <<X, act, calls>>
  BY DEF IncUndo, In
<1>3. /\ Top(w) \in FrameType /\ FrameShape(Top(w)) /\ Top(w) = stack[w][1]
      /\ Climbing(stack[w], act[w], Leaf(w)) /\ stack[w] \in Seq(FrameType)
      /\ Len(stack[w]) \in Nat /\ Len(stack[w]) >= 1
  BY <1>1, <1>2, StackFacts
<1>4. PICK n \in Node : n = Top(w).node
  BY <1>3, ParentOutside
<1>5. n \in Nat /\ Parent(n) \in Nat /\ Parent(n) < n /\ Top(w).succ
  BY <1>2, <1>3, <1>4, ParentOutside DEF FrameShape
<1>6. Return(w)
  BY DEF IncUndo
<1>7. /\ StackType' /\ Others(w) /\ StackShape' /\ FramesShaped'
      /\ \A m : /\ HasWriter(m) /\ X'[m] = X[m]
                /\ ~ WroteHalf(Top(w), m, X[m])
                => HasWriter(m)'
  BY <1>1, <1>2, <1>6, ReturnKeeps
<1>8. TypeOK'
  BY <1>1, <1>2, <1>7 DEF TypeOK, StackType
<1>9. HalfIsOwned'
  BY <1>1, <1>2, <1>7 DEF HalfIsOwned, WroteHalf
<1>10. \A m \in Node : Accounted(m) /\ Units(X'[m]) = Units(X[m]) /\ ChildrenSame(m)
  BY <1>1, <1>2 DEF EveryUnitClaimed, ChildrenSame
<1>11. ASSUME NEW m \in Node, NEW j \in Nat
       PROVE  FrameClaim(Top(w), j, m, TRUE) <=> m = n /\ j = 0
  <2>1. Top(w).node = Root => Parent(Top(w).node) \notin Node
    BY <1>3, ParentOutside
  <2>2. Top(w).undo \in Nat
    BY <1>3 DEF FrameType
  <2> QED
    BY <1>2, <1>4, <1>5, <2>1, <2>2 DEF FrameClaim
<1>12. CASE Len(stack[w]) = 1
  <2>1. act[w] /\ n = Leaf(w)
    <3>1. Outermost(stack[w], act[w], Leaf(w))
      BY <1>3 DEF Climbing
    <3> QED
      BY <1>2, <1>3, <1>4, <1>12, <3>1 DEF Outermost
  <2>2. \A j, m : ~ BelowClaim(stack[w], j, m)
    BY <1>12 DEF BelowClaim
  <2>3. \A j, m : StackClaim(stack'[w], act'[w], Leaf(w), j, m)
                    <=> act[w] /\ j = 0 /\ Leaf(w) = m
    BY <1>1, <1>2, <1>6, <1>12, ReturnKeeps
  <2>4. ASSUME NEW m \in Node
        PROVE  Accounted(m)'
    <3>1. \A j \in Nat : StackClaim(stack'[w], act'[w], Leaf(w), j, m)
                           <=> StackClaim(stack[w], act[w], Leaf(w), j, m)
      <4>1. ASSUME NEW j \in Nat
            PROVE  StackClaim(stack[w], act[w], Leaf(w), j, m) <=> m = n /\ j = 0
        <5>1. StackClaim(stack[w], act[w], Leaf(w), j, m)
                <=> FrameClaim(Top(w), j, m, TRUE) \/ BelowClaim(stack[w], j, m)
          BY <1>1, <1>2, TopClaims, Zenon
        <5>2. ~ BelowClaim(stack[w], j, m)
          BY <2>2, Zenon
        <5> QED
          BY <1>11, <5>1, <5>2
      <4>2. ASSUME NEW j \in Nat
            PROVE  StackClaim(stack'[w], act'[w], Leaf(w), j, m) <=> m = n /\ j = 0
        BY <2>1, <2>3
      <4> QED
        BY <4>1, <4>2
    <3> QED
      BY <1>7, <1>10, <3>1, Unmoved
  <2> QED
    BY <1>7, <1>8, <1>9, <2>4 DEF SnziInv, EveryUnitClaimed
<1>13. CASE Len(stack[w]) >= 2
  <2>1. PICK h : h = stack[w][2]
    OBVIOUS
  <2>2. /\ h \in FrameType /\ FrameShape(h) /\ CalledBy(Top(w), h)
        /\ \A j \in Int : \A m :
             /\ StackClaim(stack'[w], act'[w], Leaf(w), j, m)
                  <=> FrameClaim(h, j, m, TRUE) \/ BelowClaim(stack[w], j, m)
             /\ FrameClaim(h, j, m, FALSE) => BelowClaim(stack[w], j, m)
    BY <1>1, <1>2, <1>6, <1>13, <2>1, ReturnKeeps
  <2>3. h.op = "inc" /\ h.at = "settle" /\ Parent(h.node) = n
    BY <1>2, <1>4, <2>2 DEF CalledBy
  <2>4. PICK k \in Nat : k = h.undo + 1
    BY <2>2 DEF FrameType
  <2>5. k # 0 /\ k \in Int /\ h.undo \in Nat
    BY <2>2, <2>4 DEF FrameType
  <2>6. ASSUME NEW m \in Node, NEW j \in Nat
        PROVE  FrameClaim(h, j, m, TRUE)
                 <=> FrameClaim(h, j, m, FALSE) \/ (m = n /\ j = k)
    BY <2>3, <2>4, <2>5 DEF FrameClaim
  <2>7. ASSUME NEW m \in Node, NEW j \in Nat
        PROVE  StackClaim(stack'[w], act'[w], Leaf(w), j, m)
                 <=> BelowClaim(stack[w], j, m) \/ (m = n /\ j = k)
    <3>1. j \in Int
      OBVIOUS
    <3> QED
      BY <2>2, <2>6, <3>1
  <2>8. ~ BelowClaim(stack[w], 0, n)
    <3>1. n \in Int /\ ~ n > Top(w).node
      BY <1>4, <1>5
    <3> QED
      BY <1>1, <1>2, <3>1, TopIsHighest
  <2>9. ~ BelowClaim(stack[w], k, n)
    <3>1. ASSUME NEW i \in 2..Len(stack[w]), FrameClaim(stack[w][i], k, n, FALSE)
          PROVE  FALSE
      <4>1. stack[w][i] \in FrameType /\ Parent(stack[w][i].node) = n
        BY <1>3, <2>5, <3>1 DEF FrameClaim
      <4>2. CASE i = 2
        BY <2>1, <2>3, <2>4, <2>5, <3>1, <4>2 DEF FrameClaim
      <4>3. CASE i > 2
        <5>1. 2 \in 1..Len(stack[w]) /\ i \in 1..Len(stack[w])
          BY <1>3, <1>13
        <5>2. h.node <= n
          BY <1>3, <2>1, <4>1, <4>3, <5>1 DEF Climbing
        <5>3. n < h.node /\ h.node \in Nat
          BY <2>2, <2>3, ParentOutside
        <5> QED
          BY <1>5, <5>2, <5>3
      <4>4. i = 2 \/ i > 2
        BY <1>3
      <4> QED
        BY <4>2, <4>3, <4>4
    <3> QED
      BY <3>1 DEF BelowClaim
  <2>10. ASSUME NEW m \in Node
         PROVE  Accounted(m)'
    <3>1. CASE m # n
      <4>1. \A j \in Nat : StackClaim(stack'[w], act'[w], Leaf(w), j, m)
                             <=> StackClaim(stack[w], act[w], Leaf(w), j, m)
        BY <1>1, <1>2, <1>11, <2>7, <3>1, TopClaims
      <4> QED
        BY <1>7, <1>10, <4>1, Unmoved
    <3>2. CASE m = n
      <4>1. PICK z \in Nat : z = 0
        OBVIOUS
      <4>2. \A j \in Nat :
              /\ StackClaim(stack[w], act[w], Leaf(w), j, m)
                   <=> BelowClaim(stack[w], j, m) \/ j = z
              /\ StackClaim(stack'[w], act'[w], Leaf(w), j, m)
                   <=> BelowClaim(stack[w], j, m) \/ j = k
              /\ BelowClaim(stack[w], j, m) => j # k /\ j # z
        BY <1>1, <1>2, <1>11, <2>7, <2>8, <2>9, <3>2, <4>1, TopClaims
      <4>3. k # z /\ k \in Int /\ z \in Int /\ k >= 0 /\ z >= 0 /\ w \in Nat
        BY <2>5, <4>1, TreeFacts
      <4>4. Claim(w, z, m) /\ ~ Claim(w, k, m)
        BY <4>2, <4>3, ClaimMeans
      <4>5. ASSUME NEW a \in Nat, NEW j \in Int
            PROVE  Claim(a, j, m)' <=>
                     (Claim(a, j, m) /\ ~ (a = w /\ j = z)) \/ (a = w /\ j = k)
        <5>1. CASE j >= 0 /\ a # w
          BY <1>7, <5>1, ClaimsNext
        <5>2. CASE j >= 0 /\ a = w
          <6>1. j \in Nat
            BY <5>2
          <6> QED
            BY <1>7, <4>2, <4>3, <5>2, <6>1, ClaimsNext, ClaimMeans
        <5>3. CASE j < 0
          BY <1>7, <1>10, <4>3, <5>3, ClaimsNext, ChildClaimsSame
        <5> QED
          BY <5>1, <5>2, <5>3
      <4>6. Traded(m, w, z, w, k)
        BY <4>5 DEF Traded
      <4> QED
        BY <1>10, <4>3, <4>4, <4>6, UnitTraded
    <3> QED
      BY <3>1, <3>2
  <2> QED
    BY <1>7, <1>8, <1>9, <2>10 DEF SnziInv, EveryUnitClaimed
<1>14. Len(stack[w]) = 1 \/ Len(stack[w]) >= 2
  <2>1. PICK l \in Nat : l = Len(stack[w]) /\ l >= 1
    BY <1>3
  <2>2. l \in Nat /\ l >= 1 => l = 1 \/ l >= 2
    OBVIOUS
  <2> QED
    BY <2>1, <2>2
<1> QED
  BY <1>12, <1>13, <1>14

-----------------------------------------------------------------------------
(* The steps of a decrement.                                               *)

(* A half has one claim, that of the call that wrote it; any other node on *)
(* which something is claimed has a positive count. *)
LEMMA HalfHasOneClaim ==
  ASSUME SnziInv, NEW n \in Node, X[n].c = Half
  PROVE  \E v \in Worker : \E i \in 1..Len(stack[v]) :
           WroteHalf(stack[v][i], n, X[n]) /\ Claims(n) = {<<v, 0>>}
<1>1. TypeOK /\ StackShape /\ FramesShaped /\ HalfIsOwned /\ EveryUnitClaimed
  BY DEF SnziInv
<1>2. PICK v \in Worker : \E i \in 1..Len(stack[v]) : WroteHalf(stack[v][i], n, X[n])
  BY <1>1 DEF HalfIsOwned, HasWriter
<1>3. PICK i \in 1..Len(stack[v]) : WroteHalf(stack[v][i], n, X[n])
  BY <1>2
<1>4. stack[v] # <<>> /\ v \in Nat
  BY <1>3, TreeFacts
<1>5. Len(stack[v]) \in Nat /\ Top(v) = stack[v][1]
  BY <1>1, <1>4, StackFacts
<1>6. IF i = 1 THEN FrameClaim(Top(v), 0, n, TRUE) ELSE BelowClaim(stack[v], 0, n)
  <2>1. i = 1 \/ i \in 2..Len(stack[v])
    BY <1>5
  <2> QED
    BY <1>3, <1>5, <2>1 DEF WroteHalf, FrameClaim, BelowClaim
<1>7. StackClaim(stack[v], act[v], Leaf(v), 0, n)
  BY <1>1, <1>4, <1>6, TopClaims
<1>8. <<v, 0>> \in Claims(n)
  <2>1. Claim(v, 0, n)
    BY <1>4, <1>7, ClaimMeans
  <2> QED
    BY <1>4, <2>1 DEF Claims
<1>9. IsFiniteSet(Claims(n)) /\ Cardinality(Claims(n)) = 1
  BY <1>1 DEF EveryUnitClaimed, Accounted, Units
<1>10. Claims(n) = {<<v, 0>>}
  BY <1>8, <1>9, FS_Singleton
<1> QED
  BY <1>3, <1>10

LEMMA ClaimedCounts ==
  ASSUME SnziInv, NEW n \in Node, NEW a \in Nat, NEW j \in Int, Claim(a, j, n),
         X[n].c # Half
  PROVE  X[n].c \in Nat /\ X[n].c >= 1
<1>1. TypeOK /\ IsFiniteSet(Claims(n)) /\ Units(X[n]) = Cardinality(Claims(n))
  BY DEF SnziInv, EveryUnitClaimed, Accounted
<1>2. <<a, j>> \in Claims(n)
  BY DEF Claims
<1>3. Cardinality(Claims(n)) # 0
  BY <1>1, <1>2, FS_EmptySet
<1> QED
  BY <1>1, <1>3, WordFacts DEF Units

(* A decrement claims a unit of its node, and not the one of a half, which *)
(* is another call's: the count is positive. *)
LEMMA DecrementFinds ==
  ASSUME SnziInv, NEW w \in Worker, stack[w] # <<>>, Top(w).op = "dec"
  PROVE  /\ X[Top(w).node].c \in Nat /\ X[Top(w).node].c >= 1
         /\ Claim(w, 0, Top(w).node)
<1>1. TypeOK /\ StackShape /\ FramesShaped
  BY DEF SnziInv
<1>2. Top(w) \in FrameType /\ Top(w) = stack[w][1] /\ Len(stack[w]) \in Nat
  BY <1>1, StackFacts
<1>3. PICK n \in Node : n = Top(w).node
  BY <1>2, ParentOutside
<1>4. w \in Nat /\ n \in Int /\ n \in Nat
  BY TreeFacts
<1>5. Claim(w, 0, n)
  <2>1. FrameClaim(Top(w), 0, n, TRUE)
    BY <1>3 DEF FrameClaim
  <2>2. StackClaim(stack[w], act[w], Leaf(w), 0, n)
    BY <1>1, <2>1, TopClaims
  <2> QED
    BY <1>4, <2>2, ClaimMeans
<1>6. <<w, 0>> \in Claims(n)
  BY <1>4, <1>5 DEF Claims
<1>7. X[n].c # Half
  <2>1. SUFFICES ASSUME X[n].c = Half PROVE FALSE
    OBVIOUS
  <2>2. PICK v \in Worker : \E i \in 1..Len(stack[v]) :
               WroteHalf(stack[v][i], n, X[n]) /\ Claims(n) = {<<v, 0>>}
    BY <2>1, HalfHasOneClaim
  <2>3. PICK i \in 1..Len(stack[v]) : WroteHalf(stack[v][i], n, X[n])
    BY <2>2
  <2>4. v = w
    <3>1. <<v, 0>> = <<w, 0>>
      BY <1>6, <2>2
    <3> QED
      BY <3>1
  <2>5. i # 1
    BY <1>2, <2>3, <2>4 DEF WroteHalf
  <2>6. BelowClaim(stack[w], 0, n)
    <3>1. i \in 2..Len(stack[w])
      BY <1>2, <2>4, <2>5
    <3> QED
      BY <2>3, <2>4, <3>1 DEF WroteHalf, FrameClaim, BelowClaim
  <2>7. n > n
    BY <1>1, <1>3, <1>4, <2>6, TopIsHighest
  <2> QED
    BY <1>4, <2>7
<1>8. X[n].c \in Nat /\ X[n].c >= 1
  BY <1>4, <1>5, <1>7, ClaimedCounts
<1> QED
  BY <1>3, <1>5, <1>8

LEMMA DecLoadKeeps ==
  ASSUME SnziInv, NEW w \in Worker, DecLoad(w)
  PROVE  SnziInv'
<1>1. TypeOK /\ StackShape /\ FramesShaped
  BY DEF SnziInv
<1>2. stack[w] # <<>> /\ Top(w).op = "dec" /\ Top(w).at = "load"
  BY DEF DecLoad, In
<1>3. Top(w) \in FrameType /\ FrameShape(Top(w))
  BY <1>1, <1>2, StackFacts
<1>4. PICK f : f = [Top(w) EXCEPT !.x = X[Top(w).node], !.at = "cas"]
  OBVIOUS
<1>5. Continue(w, f) /\ UNCHANGED <<X, act, calls>>
  BY <1>4 DEF DecLoad
<1>6. X[Top(w).node] \in WordType
  BY <1>1, <1>3, ParentOutside, WordFacts
<1>7. f \in FrameType /\ f.op = "dec" /\ f.node = Top(w).node /\ f.at = "cas"
  BY <1>2, <1>3, <1>4, <1>6 DEF FrameType
<1>8. FrameShape(f)
  BY <1>7 DEF FrameShape
<1>9. \A m \in Node, j \in Nat :
        FrameClaim(f, j, m, TRUE) <=> FrameClaim(Top(w), j, m, TRUE)
  BY <1>2, <1>7 DEF FrameClaim
<1>10. \A m \in Node : ~ WroteHalf(Top(w), m, X[m])
  BY <1>2 DEF WroteHalf
<1> QED
  BY <1>2, <1>5, <1>7, <1>8, <1>9, <1>10, QuietContinue

(* A decrement takes its unit away.  From one it goes on to the parent, of *)
(* which the node hands its unit over to it. *)
LEMMA DecCasKeeps ==
  ASSUME SnziInv, NEW w \in Worker, DecCas(w)
  PROVE  SnziInv'
<1>1. TypeOK /\ StackShape /\ FramesShaped /\ HalfIsOwned /\ EveryUnitClaimed
  BY DEF SnziInv
<1>2. /\ stack[w] # <<>> /\ Top(w).op = "dec" /\ Top(w).at = "cas"
      /\ UNCHANGED <<act, calls>>
  BY DEF DecCas, In
<1>3. /\ Top(w) \in FrameType /\ FrameShape(Top(w)) /\ Top(w) = stack[w][1]
      /\ Climbing(stack[w], act[w], Leaf(w)) /\ stack[w] \in Seq(FrameType)
      /\ Len(stack[w]) \in Nat /\ Len(stack[w]) >= 1
  BY <1>1, <1>2, StackFacts
<1>4. PICK n \in Node : n = Top(w).node
  BY <1>3, ParentOutside
<1>5. /\ n \in Nat /\ Parent(n) \in Nat /\ Parent(n) < n /\ w \in Nat
      /\ n # Root => Parent(n) \in Node
  BY <1>3, <1>4, ParentOutside, TreeFacts
<1>6. PICK c \in Nat : c = X[n].c /\ c >= 1
  BY <1>2, <1>4, DecrementFinds
<1>7. \A m : ~ WroteHalf(Top(w), m, X[m])
  BY <1>2 DEF WroteHalf
<1>8. CASE X[n] # Top(w).x
  <2>1. X' = X /\ Continue(w, [Top(w) EXCEPT !.at = "load"])
    BY <1>4, <1>8 DEF DecCas
  <2>2. PICK f : f = [Top(w) EXCEPT !.at = "load"]
    OBVIOUS
  <2>3. f \in FrameType /\ f.op = "dec" /\ f.node = Top(w).node /\ f.at = "load"
    BY <1>2, <1>3, <2>2 DEF FrameType
  <2>4. FrameShape(f)
    BY <2>3 DEF FrameShape
  <2>5. \A m \in Node, j \in Nat :
          FrameClaim(f, j, m, TRUE) <=> FrameClaim(Top(w), j, m, TRUE)
    BY <1>2, <2>3 DEF FrameClaim
  <2> QED
    BY <1>2, <1>7, <2>1, <2>2, <2>3, <2>4, <2>5, QuietContinue
<1>9. CASE X[n] = Top(w).x
  <2>1. /\ X' = [X EXCEPT ![n].c = @ - 1]
        /\ IF c = 1 /\ n # Root THEN Continue(w, Frame("dec", Parent(n))) ELSE Return(w)
    BY <1>4, <1>6, <1>9 DEF DecCas
  <2>2. /\ X' \in [Node -> WordType] /\ X'[n].c = c - 1 /\ X'[n].c \in Nat
        /\ \A m \in Node \ {n} : X'[m] = X[m]
    BY <1>1, <1>6, <2>1 DEF TypeOK, WordType
  <2>3. Units(X[n]) = c /\ Units(X'[n]) = Units(X[n]) - 1 /\ Units(X[n]) \in Int
    BY <1>6, <2>2 DEF Units, Half
  <2>4. ASSUME NEW m \in Node, X'[m].c = Half
        PROVE  X'[m] = X[m] /\ HasWriter(m)
    <3>1. m # n
      BY <2>2, <2>4 DEF Half
    <3> QED
      BY <1>1, <2>2, <2>4, <3>1 DEF HalfIsOwned
  <2>5. \A j \in Nat, m \in Node : FrameClaim(Top(w), j, m, TRUE) <=> j = 0 /\ m = n
    BY <1>2, <1>4 DEF FrameClaim
  <2>6. \A j \in Nat : ~ BelowClaim(stack[w], 0, n) /\ ~ BelowClaim(stack[w], j, Parent(n))
    <3>1. n \in Int /\ Parent(n) \in Int /\ ~ n > Top(w).node /\ ~ Parent(n) >= Top(w).node
      BY <1>4, <1>5
    <3> QED
      BY <1>1, <1>2, <3>1, TopIsHighest
  <2>7. Claim(w, 0, n)
    BY <1>2, <1>4, DecrementFinds
  (* The account of n itself, and of a node that has no child that reaches zero. *)
  <2>8. ASSUME Others(w),
               \A j \in Nat : StackClaim(stack'[w], act'[w], Leaf(w), j, n)
                                <=> BelowClaim(stack[w], j, n)
        PROVE  Accounted(n)'
    <3>1. ChildrenSame(n)
      BY <1>5, <2>2 DEF ChildrenSame
    <3>2. PICK z \in Nat : z = 0
      OBVIOUS
    <3>3. \A j \in Nat : /\ StackClaim(stack'[w], act'[w], Leaf(w), j, n)
                              <=> BelowClaim(stack[w], j, n)
                         /\ StackClaim(stack[w], act[w], Leaf(w), j, n)
                              <=> BelowClaim(stack[w], j, n) \/ j = z
                         /\ BelowClaim(stack[w], j, n) => j # z
      BY <1>1, <1>2, <2>5, <2>6, <2>8, <3>2, TopClaims
    <3>4. ASSUME NEW a \in Nat, NEW j \in Int
          PROVE  Claim(a, j, n)' <=> Claim(a, j, n) /\ ~ (a = w /\ j = z)
      <4>1. CASE j >= 0 /\ a # w
        BY <2>8, <4>1, ClaimsNext
      <4>2. CASE j >= 0 /\ a = w
        <5>1. j \in Nat
          BY <4>2
        <5> QED
          BY <2>8, <3>3, <4>2, <5>1, ClaimsNext, ClaimMeans
      <4>3. CASE j < 0
        BY <2>8, <3>1, <3>2, <4>3, ClaimsNext, ChildClaimsSame
      <4> QED
        BY <4>1, <4>2, <4>3
    <3>5. Accounted(n) /\ Claim(w, z, n) /\ z \in Int
      BY <1>1, <2>7, <3>2 DEF EveryUnitClaimed
    <3> QED
      BY <1>5, <2>3, <3>4, <3>5, UnitTaken
  <2>9. CASE c = 1 /\ n # Root
    <3>1. PICK f : f = Frame("dec", Parent(n))
      OBVIOUS
    <3>2. Continue(w, f)
      BY <2>1, <2>9, <3>1
    <3>3. f \in FrameType /\ f.op = "dec" /\ f.node = Parent(n) /\ f.at = "load"
      BY <1>5, <2>9, <3>1 DEF Frame, FrameType, WordType, Word
    <3>4. FrameShape(f)
      BY <3>3 DEF FrameShape
    <3>5. f.node <= Top(w).node
      BY <1>4, <1>5, <3>3
    <3>6. /\ StackType' /\ Others(w) /\ StackShape' /\ FramesShaped'
          /\ \A m : /\ HasWriter(m) /\ X'[m] = X[m]
                    /\ WroteHalf(Top(w), m, X[m]) => WroteHalf(f, m, X[m])
                    => HasWriter(m)'
          /\ \A j, m : StackClaim(stack'[w], act'[w], Leaf(w), j, m)
                         <=> FrameClaim(f, j, m, TRUE) \/ BelowClaim(stack[w], j, m)
      BY <1>1, <1>2, <3>2, <3>3, <3>4, <3>5, ContinueKeeps
    <3>7. TypeOK'
      BY <1>1, <1>2, <2>2, <3>6 DEF TypeOK, StackType
    <3>8. HalfIsOwned'
      BY <1>7, <2>4, <3>6 DEF HalfIsOwned
    <3>9. \A j \in Nat, m \in Node : FrameClaim(f, j, m, TRUE) <=> j = 0 /\ m = Parent(n)
      BY <3>3 DEF FrameClaim
    <3>10. ASSUME NEW m \in Node
           PROVE  Accounted(m)'
      <4>1. Accounted(m)
        BY <1>1 DEF EveryUnitClaimed
      <4>2. CASE m = n
        <5>1. \A j \in Nat : StackClaim(stack'[w], act'[w], Leaf(w), j, n)
                               <=> BelowClaim(stack[w], j, n)
          <6>1. n # Parent(n)
            BY <1>5
          <6>2. \A j \in Nat : ~ FrameClaim(f, j, n, TRUE)
            BY <3>9, <6>1
          <6> QED
            BY <3>6, <6>2
        <5> QED
          BY <2>8, <3>6, <4>2, <5>1
      <4>3. CASE m # n /\ m # Parent(n)
        <5>1. ChildrenSame(m) /\ Units(X'[m]) = Units(X[m])
          BY <2>2, <4>3 DEF ChildrenSame
        <5>2. \A j \in Nat : StackClaim(stack'[w], act'[w], Leaf(w), j, m)
                               <=> StackClaim(stack[w], act[w], Leaf(w), j, m)
          BY <1>1, <1>2, <2>5, <3>6, <3>9, <4>3, TopClaims
        <5> QED
          BY <3>6, <4>1, <5>1, <5>2, Unmoved
      <4>4. CASE m = Parent(n)
        <5>1. PICK z \in Nat, l \in Int : z = 0 /\ l = -1 /\ l < 0
          OBVIOUS
        <5>2. \A j \in Nat : /\ ~ StackClaim(stack[w], act[w], Leaf(w), j, m)
                             /\ StackClaim(stack'[w], act'[w], Leaf(w), j, m) <=> j = z
          <6>1. m # n
            BY <1>5, <4>4
          <6>2. \A j \in Nat : /\ ~ FrameClaim(Top(w), j, m, TRUE)
                               /\ ~ BelowClaim(stack[w], j, m)
                               /\ FrameClaim(f, j, m, TRUE) <=> j = z
            BY <2>5, <2>6, <3>9, <4>4, <5>1, <6>1
          <6> QED
            BY <1>1, <1>2, <3>6, <6>2, TopClaims
        <5>3. Claim(n, l, m)
          <6>1. n \in Node \ {Root} /\ ChildClaim(n, X[n], l, m)
            BY <1>6, <2>9, <4>4, <5>1 DEF ChildClaim
          <6> QED
            BY <1>5, <5>1, <6>1, ClaimMeans
        <5>4. ~ Claim(w, z, m)
          BY <1>5, <5>1, <5>2, ClaimMeans
        <5>5. ASSUME NEW a \in Nat, NEW j \in Int
              PROVE  Claim(a, j, m)' <=>
                       (Claim(a, j, m) /\ ~ (a = n /\ j = l)) \/ (a = w /\ j = z)
          <6>1. CASE j >= 0 /\ a # w
            BY <3>6, <5>1, <6>1, ClaimsNext
          <6>2. CASE j >= 0 /\ a = w
            <7>1. j \in Nat
              BY <6>2
            <7> QED
              BY <3>6, <5>1, <5>2, <6>2, <7>1, ClaimsNext, ClaimMeans
          <6>3. CASE j < 0
            <7>1. a \in Node \ {Root} /\ ChildClaim(a, X'[a], j, m)
                    <=> /\ a \in Node \ {Root} /\ ChildClaim(a, X[a], j, m)
                        /\ ~ (a = n /\ j = l)
              BY <2>2, <2>9, <5>1, <6>3 DEF ChildClaim
            <7> QED
              BY <3>6, <5>1, <6>3, <7>1, ClaimsNext, ClaimMeans
          <6> QED
            BY <6>1, <6>2, <6>3
        <5>6. Units(X'[m]) = Units(X[m]) /\ z \in Int
          BY <1>5, <2>2, <4>4
        <5>7. /\ n \in Nat /\ l \in Int /\ w \in Nat /\ z \in Int
              /\ Accounted(m) /\ Units(X'[m]) = Units(X[m])
              /\ Claim(n, l, m) /\ ~ Claim(w, z, m)
              /\ Traded(m, n, l, w, z)
          BY <1>5, <4>1, <5>1, <5>3, <5>4, <5>5, <5>6 DEF Traded
        <5> QED
          BY <5>7, UnitTraded
      <4> QED
        BY <4>2, <4>3, <4>4
    <3> QED
      BY <3>6, <3>7, <3>8, <3>10 DEF SnziInv, EveryUnitClaimed
  <2>10. CASE ~ (c = 1 /\ n # Root)
    <3>1. Return(w)
      BY <2>1, <2>10
    <3>2. /\ StackType' /\ Others(w) /\ StackShape' /\ FramesShaped'
          /\ \A m : /\ HasWriter(m) /\ X'[m] = X[m]
                    /\ ~ WroteHalf(Top(w), m, X[m])
                    => HasWriter(m)'
      BY <1>1, <1>2, <3>1, ReturnKeeps
    <3>3. TypeOK'
      BY <1>1, <1>2, <2>2, <3>2 DEF TypeOK, StackType
    <3>4. HalfIsOwned'
      BY <1>7, <2>4, <3>2 DEF HalfIsOwned
    <3>5. ASSUME NEW m \in Node, NEW j \in Nat
          PROVE  StackClaim(stack'[w], act'[w], Leaf(w), j, m) <=> BelowClaim(stack[w], j, m)
      <4>1. CASE Len(stack[w]) = 1
        <5>1. Outermost(stack[w], act[w], Leaf(w))
          BY <1>3 DEF Climbing
        <5>2. ~ act[w]
          BY <1>2, <1>3, <4>1, <5>1 DEF Outermost
        <5>3. ~ BelowClaim(stack[w], j, m)
          BY <4>1 DEF BelowClaim
        <5> QED
          BY <1>1, <1>2, <3>1, <4>1, <5>2, <5>3, ReturnKeeps
      <4>2. CASE Len(stack[w]) >= 2
        <5>1. PICK h : h = stack[w][2]
          OBVIOUS
        <5>2. j \in Int
          OBVIOUS
        <5>3. /\ CalledBy(Top(w), h) /\ h \in FrameType
              /\ StackClaim(stack'[w], act'[w], Leaf(w), j, m)
                   <=> FrameClaim(h, j, m, TRUE) \/ BelowClaim(stack[w], j, m)
              /\ FrameClaim(h, j, m, FALSE) => BelowClaim(stack[w], j, m)
          BY <1>1, <1>2, <3>1, <4>2, <5>1, <5>2, ReturnKeeps
        <5>4. h.at = "undo"
          BY <1>2, <5>3 DEF CalledBy
        <5>5. FrameClaim(h, j, m, TRUE) <=> FrameClaim(h, j, m, FALSE)
          BY <5>4 DEF FrameClaim
        <5> QED
          BY <5>3, <5>5
      <4>3. Len(stack[w]) = 1 \/ Len(stack[w]) >= 2
        <5>1. PICK l \in Nat : l = Len(stack[w]) /\ l >= 1
          BY <1>3
        <5>2. l \in Nat /\ l >= 1 => l = 1 \/ l >= 2
          OBVIOUS
        <5> QED
          BY <5>1, <5>2
      <4> QED
        BY <4>1, <4>2, <4>3
    <3>6. ASSUME NEW m \in Node
          PROVE  Accounted(m)'
      <4>1. CASE m = n
        BY <2>8, <3>2, <3>5, <4>1
      <4>2. CASE m # n
        <5>1. Accounted(m) /\ Units(X'[m]) = Units(X[m])
          BY <1>1, <2>2, <4>2 DEF EveryUnitClaimed
        <5>2. ChildrenSame(m)
          BY <1>6, <2>2, <2>10 DEF ChildrenSame
        <5>3. \A j \in Nat : StackClaim(stack'[w], act'[w], Leaf(w), j, m)
                               <=> StackClaim(stack[w], act[w], Leaf(w), j, m)
          BY <1>1, <1>2, <2>5, <3>5, <4>2, TopClaims
        <5> QED
          BY <3>2, <5>1, <5>2, <5>3, Unmoved
      <4> QED
        BY <4>1, <4>2
    <3> QED
      BY <3>2, <3>3, <3>4, <3>6 DEF SnziInv, EveryUnitClaimed
  <2> QED
    BY <2>9, <2>10
<1> QED
  BY <1>8, <1>9

-----------------------------------------------------------------------------
(* The steps of set_active itself, and the invariant.                      *)

(* A worker that begins to be active claims nothing yet; one that ends to  *)
(* be hands its unit of the leaf over to the decrement. *)
LEMMA SetActiveKeeps ==
  ASSUME SnziInv, NEW w \in Worker, SetActive(w) \/ SetInactive(w)
  PROVE  SnziInv'
<1>1. TypeOK /\ StackShape /\ FramesShaped /\ HalfIsOwned /\ EveryUnitClaimed
  BY DEF SnziInv
<1>2. stack[w] = <<>> /\ X' = X /\ calls' \in Nat /\ Leaf(w) \in Node
  BY <1>1, TreeFacts DEF SetActive, SetInactive, TypeOK
<1>3. PICK f : \/ ~ act[w] /\ f = Frame("inc", Leaf(w)) /\ act' = [act EXCEPT ![w] = TRUE]
                  /\ stack' = [stack EXCEPT ![w] = <<f>>]
               \/ act[w] /\ f = Frame("dec", Leaf(w)) /\ act' = [act EXCEPT ![w] = FALSE]
                  /\ stack' = [stack EXCEPT ![w] = <<f>>]
  BY DEF SetActive, SetInactive
<1>4. /\ f \in FrameType /\ f.node = Leaf(w) /\ f.at = "load" /\ f.undo = 0 /\ f.succ = FALSE
      /\ f.op = IF act[w] THEN "dec" ELSE "inc"
  <2>1. ASSUME NEW op \in {"inc", "dec"}, NEW g, g = Frame(op, Leaf(w))
        PROVE  /\ g \in FrameType /\ g.op = op /\ g.node = Leaf(w)
               /\ g.at = "load" /\ g.undo = 0 /\ g.succ = FALSE
    BY <1>2, <2>1 DEF Frame, FrameType, WordType, Word
  <2>2. CASE act[w]
    BY <1>3, <2>1, <2>2
  <2>3. CASE ~ act[w]
    BY <1>3, <2>1, <2>3
  <2> QED
    BY <2>2, <2>3
<1>5. /\ act' \in [Worker -> BOOLEAN] /\ act'[w] = ~ act[w]
      /\ stack' \in [Worker -> Seq(FrameType)] /\ stack'[w] = <<f>> /\ Others(w)
  <2>1. act \in [Worker -> BOOLEAN] /\ stack \in [Worker -> Seq(FrameType)]
    BY <1>1 DEF TypeOK
  <2>2. act' = [act EXCEPT ![w] = ~ act[w]] /\ stack' = [stack EXCEPT ![w] = <<f>>]
    BY <1>3, <2>1
  <2>3. <<f>> \in Seq(FrameType)
    BY <1>4
  <2> QED
    BY <2>1, <2>2, <2>3 DEF Others
<1>6. Len(stack'[w]) = 1 /\ stack'[w][1] = f /\ stack'[w] # <<>> /\ Len(stack[w]) = 0
  BY <1>2, <1>5
<1>7. TypeOK'
  BY <1>1, <1>2, <1>5 DEF TypeOK
<1>8. Climbing(stack'[w], act'[w], Leaf(w))
  <2>1. Outermost(stack'[w], act'[w], Leaf(w))
    BY <1>4, <1>5, <1>6 DEF Outermost
  <2> QED
    BY <1>6, <2>1 DEF Climbing
<1>9. \A i \in 1..Len(stack'[w]) : FrameShape(stack'[w][i])
  BY <1>4, <1>6 DEF FrameShape
<1>10. StackShape' /\ FramesShaped'
  BY <1>1, <1>5, <1>8, <1>9, ShapesKept
<1>11. HalfIsOwned'
  <2>1. ASSUME NEW m \in Node, X'[m].c = Half
        PROVE  HasWriter(m)'
    <3>1. HasWriter(m) /\ X'[m] = X[m]
      BY <1>1, <1>2, <2>1 DEF HalfIsOwned
    <3> QED
      BY <1>5, <1>6, <3>1, WriterKept
  <2> QED
    BY <2>1 DEF HalfIsOwned
<1>12. ASSUME NEW m \in Node
       PROVE  Accounted(m)'
  <2>1. Accounted(m) /\ Units(X'[m]) = Units(X[m]) /\ ChildrenSame(m)
    BY <1>1, <1>2 DEF EveryUnitClaimed, ChildrenSame
  <2>2. ASSUME NEW j \in Nat
        PROVE  StackClaim(stack'[w], act'[w], Leaf(w), j, m)
                 <=> StackClaim(stack[w], act[w], Leaf(w), j, m)
    <3>1. StackClaim(stack[w], act[w], Leaf(w), j, m) <=> act[w] /\ j = 0 /\ Leaf(w) = m
      BY <1>2 DEF StackClaim
    <3>2. StackClaim(stack'[w], act'[w], Leaf(w), j, m) <=> FrameClaim(f, j, m, TRUE)
      BY <1>6 DEF StackClaim, BelowClaim
    <3>3. FrameClaim(f, j, m, TRUE) <=> act[w] /\ j = 0 /\ Leaf(w) = m
      BY <1>4 DEF FrameClaim
    <3> QED
      BY <3>1, <3>2, <3>3
  <2> QED
    BY <1>5, <2>1, <2>2, Unmoved
<1> QED
  BY <1>7, <1>10, <1>11, <1>12 DEF SnziInv, EveryUnitClaimed

LEMMA SnziInit ==
  ASSUME Init
  PROVE  SnziInv
<1>1. \A m \in Node : X[m].c = 0 /\ X[m].v = 0 /\ X[m] \in WordType
  BY DEF Init, Word, WordType
<1>2. \A w \in Worker : stack[w] = <<>> /\ act[w] = FALSE /\ Len(stack[w]) = 0
  BY DEF Init
<1>3. TypeOK
  BY <1>1 DEF Init, TypeOK
<1>4. StackShape /\ FramesShaped
  BY <1>2 DEF StackShape, FramesShaped, Climbing
<1>5. HalfIsOwned
  BY <1>1 DEF HalfIsOwned, Half
<1>6. ASSUME NEW m \in Node
      PROVE  Accounted(m)
  <2>1. Claims(m) = {}
    <3>1. ASSUME NEW p \in Nat \X Int
          PROVE  ~ Claim(p[1], p[2], m)
      <4>1. p[1] \in Worker => ~ StackClaim(stack[p[1]], act[p[1]], Leaf(p[1]), p[2], m)
        BY <1>2 DEF StackClaim
      <4>2. p[1] \in Node => ~ ChildClaim(p[1], X[p[1]], p[2], m)
        BY <1>1 DEF ChildClaim
      <4> QED
        BY <4>1, <4>2 DEF Claim
    <3> QED
      BY <3>1 DEF Claims
  <2>2. Units(X[m]) = 0
    BY <1>1 DEF Units, Half
  <2> QED
    BY <2>1, <2>2, FS_EmptySet DEF Accounted
<1> QED
  BY <1>3, <1>4, <1>5, <1>6 DEF SnziInv, EveryUnitClaimed

LEMMA SnziStep ==
  ASSUME SnziInv, [Next]_vars
  PROVE  SnziInv'
<1>1. ASSUME NEW w \in Worker, Inside(w)
      PROVE  SnziInv'
  <2>1. IncUndo(w) => SnziInv'
    BY IncUndoCallKeeps, IncUndoReturnKeeps
  <2> QED
    BY <1>1, <2>1, IncLoadKeeps, IncCasKeeps, IncHelpKeeps, IncSettleKeeps,
       DecLoadKeeps, DecCasKeeps DEF Inside
<1>2. ASSUME UNCHANGED vars
      PROVE  SnziInv'
  <2>1. X' = X /\ stack' = stack /\ act' = act /\ calls' = calls
    BY <1>2 DEF vars
  <2>2. \A m : Claims(m)' = Claims(m)
    BY <2>1 DEF Claims, Claim
  <2>3. EveryUnitClaimed'
    BY <2>1, <2>2 DEF SnziInv, EveryUnitClaimed, Accounted
  <2> QED
    BY <2>1, <2>3 DEF SnziInv, TypeOK, StackShape, FramesShaped, HalfIsOwned, HasWriter
<1> QED
  BY <1>1, <1>2, SetActiveKeeps DEF Next, Stop

(* Every reachable state satisfies the invariant. *)
LEMMA SnziInvariant == Spec => []SnziInv
BY SnziInit, SnziStep, PTL DEF Spec

-----------------------------------------------------------------------------
(* What the invariant says of the whole tree.                              *)

(* A set of nodes has a highest and a lowest number. *)
LEMMA ExtremeNodes ==
  ASSUME NEW S \in SUBSET Node, S # {}
  PROVE  /\ \E k \in S : \A y \in S : y <= k
         /\ \E k \in S : \A y \in S : k <= y
<1> DEFINE Up(k) == {y \in S : y >= k}
           Down(k) == {y \in S : y <= k}
           Ups == {Up(k) : k \in S}
           Downs == {Down(k) : k \in S}
           Smaller == StrictSubsetOrdering(S)
<1>1. \A y \in S : y \in Int
  BY TreeFacts
<1>2. IsFiniteSet(S)
  <2>1. IsFiniteSet(1..(2 * NbLeaves - 1))
    BY TreeFacts, FS_Interval
  <2> QED
    BY <2>1, FS_Subset DEF Node, Root
<1>3. IsWellFoundedOn(Smaller, SUBSET S)
  BY <1>2, FS_StrictSubsetOrderingWellFounded, FS_FiniteSubsetsOfFinite
<1>4. \E k \in S : \A y \in S : y <= k
  <2>1. Ups \subseteq SUBSET S /\ Ups # {}
    OBVIOUS
  <2>2. PICK U \in Ups : \A V \in Ups : ~ (<<V, U>> \in Smaller)
    BY <1>3, <2>1, WFMin
  <2>3. PICK k \in S : U = Up(k)
    BY <2>2
  <2>4. ASSUME NEW y \in S, ~ (y <= k)
        PROVE  FALSE
    <3>1. k \in Int /\ y \in Int /\ y > k
      BY <1>1, <2>4
    <3>2. Up(y) \subseteq Up(k) /\ k \in Up(k) /\ k \notin Up(y)
      <4>1. \A z \in S : z >= y => z >= k
        BY <1>1, <3>1
      <4>2. k >= k /\ ~ (k >= y)
        BY <3>1
      <4> QED
        BY <4>1, <4>2
    <3>3. <<Up(y), U>> \in Smaller
      BY <2>3, <3>2 DEF StrictSubsetOrdering
    <3>4. Up(y) \in Ups
      OBVIOUS
    <3> QED
      BY <2>2, <3>3, <3>4
  <2> QED
    BY <2>4
<1>5. \E k \in S : \A y \in S : k <= y
  <2>1. Downs \subseteq SUBSET S /\ Downs # {}
    OBVIOUS
  <2>2. PICK U \in Downs : \A V \in Downs : ~ (<<V, U>> \in Smaller)
    BY <1>3, <2>1, WFMin
  <2>3. PICK k \in S : U = Down(k)
    BY <2>2
  <2>4. ASSUME NEW y \in S, ~ (k <= y)
        PROVE  FALSE
    <3>1. k \in Int /\ y \in Int /\ y < k
      BY <1>1, <2>4
    <3>2. Down(y) \subseteq Down(k) /\ k \in Down(k) /\ k \notin Down(y)
      <4>1. \A z \in S : z <= y => z <= k
        BY <1>1, <3>1
      <4>2. k <= k /\ ~ (k <= y)
        BY <3>1
      <4> QED
        BY <4>1, <4>2
    <3>3. <<Down(y), U>> \in Smaller
      BY <2>3, <3>2 DEF StrictSubsetOrdering
    <3>4. Down(y) \in Downs
      OBVIOUS
    <3> QED
      BY <2>2, <3>3, <3>4
  <2> QED
    BY <2>4
<1> QED
  BY <1>4, <1>5

(* A node that is not zero has a claim, and when no worker has any it is   *)
(* that of a child: the lowest node of a tree in which nothing goes on     *)
(* would have none. *)
LEMMA QuietMeansZero ==
  ASSUME SnziInv
  PROVE  QuietIsZero
<1>1. SUFFICES ASSUME Quiet, NEW n \in Node, X[n].c # 0
               PROVE  FALSE
  BY DEF QuietIsZero
<1>2. TypeOK
  BY DEF SnziInv
<1>3. PICK k \in Node : /\ X[k].c # 0
                        /\ \A y \in Node : X[y].c # 0 => y <= k
  <2> DEFINE S == {y \in Node : X[y].c # 0}
  <2>1. S \in SUBSET Node /\ S # {}
    BY <1>1
  <2> HIDE DEF S
  <2>2. \E x \in S : \A y \in S : y <= x
    BY <2>1, ExtremeNodes
  <2> QED
    BY <2>2 DEF S
<1>4. Claims(k) = {}
  <2>1. ASSUME NEW p \in Nat \X Int
        PROVE  ~ Claim(p[1], p[2], k)
    <3>1. p[1] \in Worker => ~ StackClaim(stack[p[1]], act[p[1]], Leaf(p[1]), p[2], k)
      BY <1>1 DEF StackClaim, Quiet
    <3>2. ASSUME p[1] \in Node, ChildClaim(p[1], X[p[1]], p[2], k)
          PROVE  FALSE
      <4>1. PICK a \in Node : a = p[1]
        BY <3>2
      <4>2. Parent(a) = k /\ X[a].c >= 1
        BY <3>2, <4>1 DEF ChildClaim
      <4>3. a \in Nat /\ a >= 1 /\ k < a /\ k \in Nat
        BY <4>2, TreeFacts, ParentFacts
      <4>4. a <= k
        BY <1>2, <1>3, <4>2, WordFacts
      <4> QED
        BY <4>3, <4>4
    <3> QED
      BY <3>1, <3>2 DEF Claim
  <2> QED
    BY <2>1 DEF Claims
<1>5. Units(X[k]) = 0
  BY <1>4, FS_EmptySet DEF SnziInv, EveryUnitClaimed, Accounted
<1>6. X[k].c = 0
  BY <1>5 DEF Units, Half
<1> QED
  BY <1>3, <1>6

(* An active worker's leaf counts it, and a node that counts something has *)
(* been counted by its parent: no half is passed on the way to the root,   *)
(* for it would have two claims. *)
LEMMA InsideMeansCounted ==
  ASSUME SnziInv, NEW w \in Worker, stack[w] = <<>>, act[w]
  PROVE  X[Root].c > 0
<1>1. TypeOK
  BY DEF SnziInv
<1>2. PICK n \in Node : n = Leaf(w)
  BY TreeFacts
<1>3. X[n].c \in Nat /\ X[n].c >= 1
  <2>1. w \in Nat /\ Claim(w, 0, n)
    <3>1. StackClaim(stack[w], act[w], Leaf(w), 0, n)
      BY <1>2 DEF StackClaim
    <3>2. w \in Nat
      BY TreeFacts
    <3>3. 0 \in Int /\ 0 >= 0
      OBVIOUS
    <3> QED
      BY <3>1, <3>2, <3>3, ClaimMeans, Zenon
  <2>2. X[n].c # Half
    <3>1. SUFFICES ASSUME X[n].c = Half PROVE FALSE
      OBVIOUS
    <3>2. PICK v \in Worker : \E i \in 1..Len(stack[v]) :
                 WroteHalf(stack[v][i], n, X[n]) /\ Claims(n) = {<<v, 0>>}
      BY <3>1, HalfHasOneClaim
    <3>3. <<w, 0>> \in Claims(n)
      BY <2>1 DEF Claims
    <3>4. <<w, 0>> = <<v, 0>>
      BY <3>2, <3>3
    <3>5. v = w
      BY <3>4
    <3> QED
      BY <3>2, <3>5
  <2> QED
    BY <2>1, <2>2, ClaimedCounts
<1>4. PICK k \in Node : /\ X[k].c >= 1
                        /\ \A y \in Node : X[y].c >= 1 => k <= y
  <2> DEFINE S == {y \in Node : X[y].c >= 1}
  <2>1. S \in SUBSET Node /\ S # {}
    BY <1>3
  <2> HIDE DEF S
  <2>2. \E x \in S : \A y \in S : x <= y
    BY <2>1, ExtremeNodes
  <2> QED
    BY <2>2 DEF S
<1>5. k = Root
  <2>1. SUFFICES ASSUME k # Root PROVE FALSE
    OBVIOUS
  <2>2. PICK m \in Node : m = Parent(k) /\ m < k
    BY <2>1, TreeFacts, ParentFacts
  <2>3. k \in Nat /\ m \in Nat
    BY TreeFacts
  <2>4. PICK l \in Int : l = -1
    OBVIOUS
  <2>5. Claim(k, l, m)
    <3>1. k \in Node \ {Root} /\ ChildClaim(k, X[k], l, m)
      BY <1>4, <2>1, <2>2, <2>4 DEF ChildClaim
    <3> QED
      BY <2>3, <2>4, <3>1, ClaimMeans
  <2>6. X[m].c # Half
    <3>1. SUFFICES ASSUME X[m].c = Half PROVE FALSE
      OBVIOUS
    <3>2. PICK v : Claims(m) = {<<v, 0>>}
      BY <3>1, HalfHasOneClaim
    <3>3. <<k, l>> \in Claims(m)
      BY <2>3, <2>5 DEF Claims
    <3>4. <<k, l>> = <<v, 0>>
      BY <3>2, <3>3
    <3> QED
      BY <2>4, <3>4
  <2>7. X[m].c >= 1
    BY <2>3, <2>5, <2>6, ClaimedCounts
  <2> QED
    BY <1>4, <2>2, <2>3, <2>7
<1> QED
  BY <1>1, <1>4, <1>5, WordFacts

-----------------------------------------------------------------------------
(* Theorems.                                                               *)

(* Every variable keeps its shape and no count is driven below zero, for   *)
(* any workers, any height of the tree and any number of calls. *)
THEOREM TypeCorrect == Spec => []TypeOK
<1>1. SnziInv => TypeOK
  BY DEF SnziInv
<1> QED
  BY <1>1, SnziInvariant, PTL

(* The assert of snzi_decrement (line 70) never fails. *)
THEOREM DecrementsFindCounts == Spec => []DecrementFindsCount
<1>1. SnziInv => DecrementFindsCount
  BY DecrementFinds DEF DecrementFindsCount, In
<1> QED
  BY <1>1, SnziInvariant, PTL

(* When nobody is active and no call is in progress, nothing is left in    *)
(* the tree. *)
THEOREM IdleTreeIsZero == Spec => []QuietIsZero
<1>1. SnziInv => QuietIsZero
  BY QuietMeansZero
<1> QED
  BY <1>1, SnziInvariant, PTL

(* The refinement of TerminationDetection.                                 *)

PhaseOf(w) ==
  IF stack[w] = <<>> THEN (IF act[w] THEN "inside" ELSE "outside")
                     ELSE (IF act[w] THEN "entering" ELSE "leaving")

(* In every state the root answers truthfully ... *)
LEMMA RootIsTruthful ==
  ASSUME SnziInv
  PROVE  /\ IsTerminated => \A w \in Worker : PhaseOf(w) # "inside"
         /\ (\A w \in Worker : PhaseOf(w) = "outside") => IsTerminated
<1>1. ASSUME IsTerminated, NEW w \in Worker, PhaseOf(w) = "inside"
      PROVE  FALSE
  <2>1. stack[w] = <<>> /\ act[w]
    BY <1>1 DEF PhaseOf
  <2> QED
    BY <1>1, <2>1, InsideMeansCounted DEF IsTerminated
<1>2. ASSUME \A w \in Worker : PhaseOf(w) = "outside"
      PROVE  IsTerminated
  <2>1. Quiet
    BY <1>2 DEF PhaseOf, Quiet
  <2>2. X[Root].c = 0
    BY <2>1, QuietMeansZero, TreeFacts DEF QuietIsZero
  <2> QED
    BY <2>2 DEF IsTerminated
<1> QED
  BY <1>1, <1>2

(* ... and every step takes at most one worker to its next phase. *)
LEMMA StepsInside ==
  ASSUME TypeOK, NEW w \in Worker, Inside(w)
  PROVE  stack[w] # <<>> /\ act' = act /\ \A v \in Worker \ {w} : stack'[v] = stack[v]
<1>1. stack \in [Worker -> Seq(FrameType)]
  BY DEF TypeOK
<1>2. stack[w] # <<>> /\ act' = act
  BY DEF Inside, In, IncLoad, IncCas, IncHelp, IncSettle, IncUndo, DecLoad, DecCas
<1>3. \E s : stack' = [stack EXCEPT ![w] = s]
  <2>1. ASSUME NEW f, Continue(w, f)
        PROVE  \E s : stack' = [stack EXCEPT ![w] = s]
    BY <2>1 DEF Continue
  <2>2. ASSUME NEW f, NEW g, Call(w, f, g)
        PROVE  \E s : stack' = [stack EXCEPT ![w] = s]
    BY <2>2 DEF Call
  <2>3. ASSUME Return(w)
        PROVE  \E s : stack' = [stack EXCEPT ![w] = s]
    BY <2>3 DEF Return
  <2>4. \/ \E f : Continue(w, f)
        \/ \E f, g : Call(w, f, g)
        \/ Return(w)
    <3>1. IncLoad(w) \/ IncCas(w) \/ IncSettle(w) => \E f : Continue(w, f)
      BY Zenon DEF IncLoad, IncCas, IncSettle
    <3>2. IncHelp(w) => (\E f : Continue(w, f)) \/ (\E f, g : Call(w, f, g))
      BY Zenon DEF IncHelp
    <3>3. IncUndo(w) => (\E f, g : Call(w, f, g)) \/ Return(w)
      BY Zenon DEF IncUndo
    <3>4. DecLoad(w) \/ DecCas(w) => (\E f : Continue(w, f)) \/ Return(w)
      BY Zenon DEF DecLoad, DecCas
    <3> QED
      BY <3>1, <3>2, <3>3, <3>4 DEF Inside
  <2> QED
    BY <2>1, <2>2, <2>3, <2>4
<1> QED
  BY <1>1, <1>2, <1>3

LEMMA PhasesFollow ==
  ASSUME TypeOK, [Next]_vars
  PROVE  \/ \A v \in Worker : PhaseOf(v)' = PhaseOf(v)
         \/ \E w \in Worker, q \in Detector!Phase :
              /\ Detector!Follows(PhaseOf(w), q) /\ PhaseOf(w)' = q
              /\ \A v \in Worker \ {w} : PhaseOf(v)' = PhaseOf(v)
<1>1. stack \in [Worker -> Seq(FrameType)] /\ act \in [Worker -> BOOLEAN]
  BY DEF TypeOK
<1>2. ASSUME NEW w \in Worker, Inside(w)
      PROVE  \/ PhaseOf(w)' = PhaseOf(w)
             \/ \E q \in Detector!Phase :
                  Detector!Follows(PhaseOf(w), q) /\ PhaseOf(w)' = q
  <2>1. stack[w] # <<>> /\ act' = act
    BY <1>2, StepsInside
  <2> QED
    BY <2>1 DEF PhaseOf, Detector!Phase, Detector!Follows
<1>3. ASSUME NEW w \in Worker, Inside(w)
      PROVE  \A v \in Worker \ {w} : PhaseOf(v)' = PhaseOf(v)
  BY <1>3, StepsInside DEF PhaseOf
<1>4. ASSUME NEW w \in Worker, SetActive(w)
      PROVE  /\ PhaseOf(w) = "outside" /\ PhaseOf(w)' = "entering"
             /\ \A v \in Worker \ {w} : PhaseOf(v)' = PhaseOf(v)
  BY <1>1, <1>4 DEF PhaseOf, SetActive
<1>5. ASSUME NEW w \in Worker, SetInactive(w)
      PROVE  /\ PhaseOf(w) = "inside" /\ PhaseOf(w)' = "leaving"
             /\ \A v \in Worker \ {w} : PhaseOf(v)' = PhaseOf(v)
  BY <1>1, <1>5 DEF PhaseOf, SetInactive
<1>6. ASSUME UNCHANGED vars
      PROVE  \A v \in Worker : PhaseOf(v)' = PhaseOf(v)
  BY <1>6 DEF vars, PhaseOf
<1>7. /\ {"entering", "leaving"} \subseteq Detector!Phase
      /\ Detector!Follows("outside", "entering") /\ Detector!Follows("inside", "leaving")
  BY DEF Detector!Phase, Detector!Follows
<1> QED
  BY <1>2, <1>3, <1>4, <1>5, <1>6, <1>7 DEF Next, Stop

(* The tree with its root is a termination detector: is_terminated() is    *)
(* never true while a worker is active, and true once all are inactive. *)
THEOREM RootDetectsTermination == Spec => RefinesDetector
<1> DEFINE phase == [w \in Worker |-> PhaseOf(w)]
<1>1. ASSUME Init
      PROVE  Detector!Init
  BY <1>1, TreeFacts DEF Init, Detector!Init, IsTerminated, Word
<1>2. ASSUME SnziInv, SnziInv', [Next]_vars
      PROVE  Detector!Next
  <2>1. \/ phase' = phase
        \/ \E w \in Worker, q \in Detector!Phase :
             Detector!Follows(phase[w], q) /\ phase' = [phase EXCEPT ![w] = q]
    BY <1>2, PhasesFollow DEF SnziInv
  <2>2. IsTerminated' \in BOOLEAN
    BY DEF IsTerminated
  <2>3. /\ IsTerminated' => \A w \in Worker : phase'[w] # "inside"
        /\ (\A w \in Worker : phase'[w] = "outside") => IsTerminated'
    <3>1. (/\ IsTerminated => \A w \in Worker : PhaseOf(w) # "inside"
           /\ (\A w \in Worker : PhaseOf(w) = "outside") => IsTerminated)'
      BY <1>2, RootIsTruthful, PTL
    <3> QED
      BY <3>1
  <2> QED
    BY <2>1, <2>2, <2>3 DEF Detector!Next, Detector!Truthful, PhaseOf
<1> QED
  BY <1>1, <1>2, SnziInvariant, PTL DEF Spec, RefinesDetector, Detector!Spec

=============================================================================
