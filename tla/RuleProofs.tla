----------------------------- MODULE RuleProofs -----------------------------
(***************************************************************************)
(* Proofs about parse, for every text and every hash function: its nodes   *)
(* are owned, names find their definitions, and the rules that are left    *)
(* are those needed.                                                       *)
(***************************************************************************)
EXTENDS RuleSafety, TLAPS, FiniteSetTheorems, SequenceTheorems, WellFoundedInduction

-----------------------------------------------------------------------------
(* The heap.                                                                *)

\* A sequence of whatever elements.
Sequence(s) == Len(s) \in Nat /\ s = [k \in 1 .. Len(s) |-> s[k]]

IsNode(x) ==
  /\ x = [type |-> x.type, nodes |-> x.nodes, name |-> x.name, rvar |-> x.rvar, index |-> x.index]
  /\ x.nodes \in Seq(Nat)
  /\ x.type = "REFERENCE" => x.name \in Identifier
IsCell(c) == c = [node |-> c.node, live |-> c.live] /\ c.live \in BOOLEAN /\ IsNode(c.node)

Nodes(h)    == 1 .. Len(h)
Alive(h)    == {n \in Nodes(h) : h[n].live}
Kids(h, n)  == h[n].node.nodes
Arity(h, n) == 1 .. Len(Kids(h, n))

\* Nodes have nodes below them.
IsHeap(h) ==
  /\ Sequence(h)
  /\ \A n \in Nodes(h) : IsCell(h[n]) /\ \A k \in Arity(h, n) : Kids(h, n)[k] \in Nodes(h)

\* The nodes that are alive are a forest with the roots R: all others are below one
\* node, and at one place there.
Forest(h, R) ==
  /\ R \subseteq Alive(h)
  /\ \A n \in Alive(h) : \A k \in Arity(h, n) : Kids(h, n)[k] \in Alive(h) \ R
  /\ \A n, m \in Alive(h) : \A k \in Arity(h, n), j \in Arity(h, m) :
       Kids(h, n)[k] = Kids(h, m)[j] => n = m /\ k = j
  /\ \A n \in Alive(h) \ R : \E m \in Alive(h) : \E k \in Arity(h, m) : Kids(h, m)[k] = n

-----------------------------------------------------------------------------
(* The calls.                                                               *)

\* Where a call waits for another one, and where it has no node, or has one.
Waiting == {"group", "capture", "quantity", "first", "second", "more", "sequences", "expression"}
Bare    == {"entry", "group", "prefix", "quantity", "first", "expression"}
Holding == {"capture", "error", "second", "more"}

IsFrame(f) ==
  /\ f = [fn |-> f.fn, at |-> f.at, from |-> f.from, node |-> f.node, prefix |-> f.prefix]
  /\ f.at \in Bare => f.node = NULL
  /\ f.at \in Holding => f.node # NULL

\* The stack; what has been returned is seen by a call that waits.
StackOK ==
  /\ Sequence(stack)
  /\ \A k \in 1 .. Len(stack) :
       /\ IsFrame(stack[k])
       /\ stack[k].at = "expression" <=> k = 1
       /\ k < Len(stack) => stack[k].at \in Waiting
  /\ ret # NULL => stack # <<>> /\ Top.at \in Waiting

\* The rules and the one that is read have names.
IsRule(x) ==
  x = [name |-> x.name, expr |-> x.expr, rvars |-> x.rvars, capts |-> x.capts,
       codes |-> x.codes, preds |-> x.preds]
RulesOK ==
  /\ Sequence(rules) /\ \A r \in 1 .. Len(rules) : rules[r].name \in Identifier
  /\ IsRule(rule) /\ (stack # <<>> => rule.name \in Identifier)

\* The nodes that calls, their result and rules hold, which are apart.
Roots ==
  ({stack[k].node : k \in 1 .. Len(stack)} \cup {ret} \cup {rules[r].expr : r \in RulesHeld}) \ {NULL}
Apart ==
  /\ \A j, k \in 1 .. Len(stack) : stack[j].node = stack[k].node => j = k \/ stack[k].node = NULL
  /\ \A k \in 1 .. Len(stack) : stack[k].node # NULL => stack[k].node # ret
  /\ \A r \in RulesHeld :
       /\ rules[r].expr # NULL /\ rules[r].expr # ret
       /\ \A k \in 1 .. Len(stack) : stack[k].node # rules[r].expr
       /\ \A t \in RulesHeld : rules[r].expr = rules[t].expr => r = t

\* What the steps of parse keep of nodes and rules.
NodeInv ==
  /\ IsHeap(heap) /\ Forest(heap, Roots) /\ Apart
  /\ StackOK /\ RulesOK
  /\ RulesHeld \subseteq 1 .. Len(rules)
  /\ pc # "read" => stack = <<>>

-----------------------------------------------------------------------------
(* Numbers and recursive functions.                                         *)

\* A set of natural numbers has a least element.
LEMMA LeastOf ==
  ASSUME NEW S, S \subseteq Nat, S # {}
  PROVE  \E x \in S : \A y \in S : x <= y
<1>1. PICK x \in S : \A y \in S : <<y, x>> \notin OpToRel(<, Nat)
  BY NatLessThanWellFounded, WFMin
<1>2. ASSUME NEW y \in S
      PROVE  x <= y
  <2>1. x \in Nat /\ y \in Nat
    OBVIOUS
  <2>2. ~(y < x)
    BY <1>1, <2>1 DEF OpToRel
  <2> QED
    BY <2>1, <2>2
<1> QED
  BY <1>2

\* The least element is Min.
LEMMA MinOf ==
  ASSUME NEW S, S \subseteq Nat, S # {}
  PROVE  /\ Min(S) \in S
         /\ \A y \in S : Min(S) <= y
<1>1. \E x \in S : \A y \in S : x <= y
  BY LeastOf
<1> QED
  BY <1>1 DEF Min

\* A set that holds 0, and with a number the next one, holds all up to m.
LEMMA Upwards ==
  ASSUME NEW m \in Nat, NEW S,
         0 \in S, \A k \in 0 .. m : k # m /\ k \in S => k + 1 \in S
  PROVE  \A k \in 0 .. m : k \in S
<1> SUFFICES ASSUME NEW b \in (0 .. m) \ S
             PROVE  FALSE
  OBVIOUS
<1>1. PICK x \in (0 .. m) \ S : \A y \in (0 .. m) \ S : x <= y
  <2>1. (0 .. m) \ S \subseteq Nat /\ (0 .. m) \ S # {}
    OBVIOUS
  <2> QED
    BY <2>1, LeastOf
<1>2. x # 0 /\ x - 1 \in 0 .. m /\ x - 1 # m /\ (x - 1) + 1 = x /\ ~(x <= x - 1)
  BY <1>1
<1>3. x - 1 \in S
  BY <1>1, <1>2
<1> QED
  BY <1>1, <1>2, <1>3

\* A function is defined by its value at 0 and the step from each value to the next.
Iterate(f, m, x0, Step) == f = [k \in 0 .. m |-> IF k = 0 THEN x0 ELSE Step[k][f[k - 1]]]

LEMMA Iterates ==
  ASSUME NEW m \in Nat, NEW X, NEW x0 \in X, NEW Step \in [1 .. m -> [X -> X]]
  PROVE  \E f \in [0 .. m -> X] : Iterate(f, m, x0, Step)
<1> DEFINE Fits(f, n) == \A k \in 0 .. n : f[k] = IF k = 0 THEN x0 ELSE Step[k][f[k - 1]]
           S == {n \in 0 .. m : \E f \in [0 .. n -> X] : Fits(f, n)}
<1>1. 0 \in S
  <2> DEFINE f0 == [k \in 0 .. 0 |-> x0]
  <2>1. f0 \in [0 .. 0 -> X] /\ Fits(f0, 0) /\ 0 \in 0 .. m
    OBVIOUS
  <2> HIDE DEF f0, Fits
  <2> QED
    BY <2>1
<1>2. ASSUME NEW n \in 0 .. m, n # m, n \in S
      PROVE  n + 1 \in S
  <2>1. PICK f \in [0 .. n -> X] : Fits(f, n)
    BY <1>2
  <2> DEFINE g == [k \in 0 .. (n + 1) |-> IF k = n + 1 THEN Step[n + 1][f[n]] ELSE f[k]]
  <2>2. n \in Nat /\ n + 1 \in 1 .. m /\ n \in 0 .. n
    BY <1>2
  <2>3. Step[n + 1][f[n]] \in X
    BY <2>2
  <2>4. g \in [0 .. (n + 1) -> X]
    BY <2>2, <2>3
  <2>5. ASSUME NEW k \in 0 .. (n + 1)
        PROVE  g[k] = IF k = 0 THEN x0 ELSE Step[k][g[k - 1]]
    <3>1. CASE k = n + 1
      <4>1. k # 0 /\ k - 1 = n /\ n \in 0 .. (n + 1) /\ n # n + 1
        BY <3>1, <2>2
      <4> QED
        BY <4>1, <3>1
    <3>2. CASE k # n + 1
      <4>1. k \in 0 .. n /\ (k # 0 => k - 1 \in 0 .. n /\ k - 1 \in 0 .. (n + 1) /\ k - 1 # n + 1)
        BY <3>2, <2>2
      <4>2. g[k] = f[k] /\ (k # 0 => g[k - 1] = f[k - 1])
        BY <4>1, <3>2
      <4> QED
        BY <4>1, <4>2, <2>1
    <3> QED
      BY <3>1, <3>2
  <2>6. Fits(g, n + 1)
    BY <2>5
  <2> HIDE DEF g, Fits
  <2> QED
    BY <2>2, <2>4, <2>6
<1>3. m \in S
  <2> HIDE DEF S
  <2>1. \A k \in 0 .. m : k \in S
    BY <1>1, <1>2, Upwards
  <2> QED
    BY <2>1
<1>4. PICK f \in [0 .. m -> X] : Fits(f, m)
  BY <1>3
<1>5. Iterate(f, m, x0, Step)
  BY <1>4 DEF Iterate
<1> QED
  BY <1>5

-----------------------------------------------------------------------------
(* Sequences.                                                               *)

\* A sequence is one of its elements and any others.
LEMMA SequenceOf ==
  ASSUME NEW s, Sequence(s), NEW T, \A k \in 1 .. Len(s) : s[k] \in T
  PROVE  s \in Seq(T)
<1>1. [k \in 1 .. Len(s) |-> s[k]] \in [1 .. Len(s) -> T]
  OBVIOUS
<1>2. s \in [1 .. Len(s) -> T] /\ Len(s) \in Nat
  BY <1>1 DEF Sequence
<1> QED
  BY <1>2, SeqDef

LEMMA SequenceIn ==
  ASSUME NEW T, NEW s \in Seq(T)
  PROVE  Sequence(s)
<1>1. Len(s) \in Nat /\ s \in [1 .. Len(s) -> T]
  BY LenProperties
<1> QED
  BY <1>1 DEF Sequence

\* The parts of a sequence behind an operation are those of before.
LEMMA Appended ==
  ASSUME NEW s, Sequence(s), NEW x
  PROVE  /\ Sequence(Append(s, x))
         /\ Len(Append(s, x)) = Len(s) + 1
         /\ Append(s, x)[Len(s) + 1] = x
         /\ \A k \in 1 .. Len(s) : Append(s, x)[k] = s[k]
<1> DEFINE T == {s[k] : k \in 1 .. Len(s)} \cup {x}
<1>1. s \in Seq(T)
  BY SequenceOf
<1>2. Append(s, x) \in Seq(T)
  BY <1>1
<1>3. Sequence(Append(s, x))
  BY <1>2, SequenceIn
<1> QED
  BY <1>1, <1>3

LEMMA FrontOf ==
  ASSUME NEW s, Sequence(s), s # <<>>
  PROVE  /\ Len(s) \in Nat \ {0}
         /\ Sequence(Front(s))
         /\ Len(Front(s)) = Len(s) - 1
         /\ \A k \in 1 .. (Len(s) - 1) : Front(s)[k] = s[k]
<1> DEFINE T == {s[k] : k \in 1 .. Len(s)}
<1>1. s \in Seq(T)
  BY SequenceOf
<1>2. Len(s) \in Nat \ {0}
  BY <1>1, EmptySeq
<1>3. \A k \in 1 .. (Len(s) - 1) : s[k] \in T
  BY <1>2
<1>4. 1 \in Int /\ Len(s) - 1 \in Int
  BY <1>2
<1>5. /\ Front(s) \in Seq(T)
      /\ Len(Front(s)) = IF 1 <= Len(s) - 1 THEN (Len(s) - 1) - 1 + 1 ELSE 0
      /\ \A k \in 1 .. ((Len(s) - 1) - 1 + 1) : Front(s)[k] = s[1 + k - 1]
  BY <1>3, <1>4, SubSeqProperties DEF Front
<1>6. Sequence(Front(s))
  BY <1>5, SequenceIn
<1>7. /\ (Len(s) - 1) - 1 + 1 = Len(s) - 1 /\ (~(1 <= Len(s) - 1) => Len(s) - 1 = 0)
      /\ \A k \in 1 .. (Len(s) - 1) : 1 + k - 1 = k
  <2>1. \A n \in Nat \ {0} : /\ (n - 1) - 1 + 1 = n - 1 /\ (~(1 <= n - 1) => n - 1 = 0)
                            /\ \A k \in 1 .. (n - 1) : 1 + k - 1 = k
    OBVIOUS
  <2> QED
    BY <1>2, <2>1
<1>8. \A k \in 1 .. (Len(s) - 1) : Front(s)[k] = s[k]
  BY <1>5, <1>7
<1> QED
  BY <1>2, <1>5, <1>6, <1>7, <1>8

LEMMA Joined ==
  ASSUME NEW s, Sequence(s), NEW t, Sequence(t)
  PROVE  /\ Sequence(s \o t)
         /\ Len(s \o t) = Len(s) + Len(t)
         /\ \A k \in 1 .. Len(s) : (s \o t)[k] = s[k]
         /\ \A k \in 1 .. Len(t) : (s \o t)[Len(s) + k] = t[k]
<1> DEFINE T == {s[k] : k \in 1 .. Len(s)} \cup {t[k] : k \in 1 .. Len(t)}
<1>1. s \in Seq(T) /\ t \in Seq(T)
  BY SequenceOf
<1>2. Len(s) \in Nat /\ Len(t) \in Nat
  BY DEF Sequence
<1>3. /\ s \o t \in Seq(T)
      /\ Len(s \o t) = Len(s) + Len(t)
      /\ \A i_ \in 1 .. Len(s) + Len(t) : (s \o t)[i_] = IF i_ <= Len(s) THEN s[i_] ELSE t[i_ - Len(s)]
  BY <1>1, ConcatProperties
<1>4. Sequence(s \o t)
  BY <1>3, SequenceIn
<1>5. ASSUME NEW k \in 1 .. Len(s)
      PROVE  (s \o t)[k] = s[k]
  <2>1. k \in 1 .. Len(s) + Len(t) /\ k <= Len(s)
    BY <1>2
  <2> QED
    BY <2>1, <1>3
<1>6. ASSUME NEW k \in 1 .. Len(t)
      PROVE  (s \o t)[Len(s) + k] = t[k]
  <2>1. Len(s) + k \in 1 .. Len(s) + Len(t) /\ ~(Len(s) + k <= Len(s)) /\ (Len(s) + k) - Len(s) = k
    BY <1>2
  <2> QED
    BY <2>1, <1>3
<1> QED
  BY <1>3, <1>4, <1>5, <1>6

\* The domain of a sequence.
LEMMA DomainOf ==
  ASSUME NEW s, Sequence(s)
  PROVE  DOMAIN s = 1 .. Len(s)
BY DEF Sequence

-----------------------------------------------------------------------------
(* Nodes.                                                                   *)

LEMMA HeapFacts ==
  ASSUME NEW h, IsHeap(h)
  PROVE  /\ Len(h) \in Nat /\ DOMAIN h = Nodes(h)
         /\ \A n \in Nodes(h) : /\ Kids(h, n) \in Seq(Nat) /\ DOMAIN Kids(h, n) = Arity(h, n)
                                /\ \A k \in Arity(h, n) : Kids(h, n)[k] \in Nodes(h)
<1>1. Len(h) \in Nat /\ DOMAIN h = Nodes(h)
  BY DomainOf DEF IsHeap, Sequence, Nodes
<1>2. ASSUME NEW n \in Nodes(h)
      PROVE  /\ Kids(h, n) \in Seq(Nat) /\ DOMAIN Kids(h, n) = Arity(h, n)
             /\ \A k \in Arity(h, n) : Kids(h, n)[k] \in Nodes(h)
  <2>1. Kids(h, n) \in Seq(Nat) /\ \A k \in Arity(h, n) : Kids(h, n)[k] \in Nodes(h)
    BY DEF IsHeap, IsCell, IsNode, Kids
  <2> QED
    BY <2>1, LenProperties DEF Arity
<1> QED
  BY <1>1, <1>2

\* The nodes below those of S are the elements of their lists.
LEMMA ChildrenOf ==
  ASSUME NEW h, IsHeap(h), NEW S \in SUBSET Nodes(h)
  PROVE  /\ Children(h, S) \subseteq Nodes(h)
         /\ \A x : x \in Children(h, S) <=> \E n \in S : \E k \in Arity(h, n) : x = Kids(h, n)[k]
<1>1. \A n \in S : DOMAIN Kids(h, n) = Arity(h, n) /\ \A k \in Arity(h, n) : Kids(h, n)[k] \in Nodes(h)
  BY HeapFacts
<1>2. \A x : x \in Children(h, S) <=> \E n \in S : \E k \in DOMAIN Kids(h, n) : x = Kids(h, n)[k]
  BY DEF Children, ToSet, Kids
<1> QED
  BY <1>1, <1>2

\* A node and those below it are the least set of nodes with it that holds the nodes
\* below its members: Len(h) steps are enough to get all of them.
LEMMA FamilyOf ==
  ASSUME NEW h, IsHeap(h), NEW n \in Nodes(h)
  PROVE  /\ Family(h, n) \subseteq Nodes(h)
         /\ n \in Family(h, n)
         /\ \A m \in Family(h, n) : \A k \in Arity(h, m) : Kids(h, m)[k] \in Family(h, n)
         /\ \A C : n \in C /\ (\A m \in C \cap Nodes(h) : \A k \in Arity(h, m) : Kids(h, m)[k] \in C)
                     => Family(h, n) \subseteq C
<1> DEFINE L == Len(h)
           X == SUBSET Nodes(h)
           Next1 == [S \in X |-> S \cup Children(h, S)]
           Fits(f) == f = [k \in 0 .. L |-> IF k = 0 THEN {n} ELSE LET S == f[k - 1] IN S \cup Children(h, S)]
           up == CHOOSE f : Fits(f)
<1>1. L \in Nat /\ {n} \in X
  BY HeapFacts
<1>2. Next1 \in [X -> X]
  BY ChildrenOf
<1>3. PICK f \in [0 .. L -> X] : f = [k \in 0 .. L |-> IF k = 0 THEN {n} ELSE Next1[f[k - 1]]]
  <2> DEFINE Step == [k \in 1 .. L |-> Next1]
  <2>1. Step \in [1 .. L -> [X -> X]]
    BY <1>2
  <2> HIDE DEF Next1, X, L
  <2>2. \E f \in [0 .. L -> X] : Iterate(f, L, {n}, Step)
    <3> HIDE DEF Step
    <3> QED
      BY <1>1, <2>1, Iterates
  <2>3. \A k \in 0 .. L : k # 0 => Step[k] = Next1
    BY <1>1
  <2> HIDE DEF Step
  <2> QED
    BY <2>2, <2>3 DEF Iterate
<1>4. \A k \in 0 .. L : k # 0 => k - 1 \in 0 .. L
  BY <1>1
<1>5. Fits(f)
  <2>1. \A k \in 0 .. L : k # 0 => Next1[f[k - 1]] = f[k - 1] \cup Children(h, f[k - 1])
    BY <1>4
  <2> HIDE DEF Next1, X, L
  <2> QED
    BY <1>3, <2>1
<1>6. Fits(up)
  <2> HIDE DEF Fits
  <2> QED
    BY <1>5
<1>7. /\ up[0] = {n}
      /\ \A k \in 0 .. L : k # L => up[k + 1] = up[k] \cup Children(h, up[k])
  <2>1. \A k \in 0 .. L : k # L => k + 1 \in 0 .. L /\ k + 1 # 0 /\ (k + 1) - 1 = k
    BY <1>1
  <2>2. up[0] = {n}
    <3>1. 0 \in 0 .. L
      BY <1>1
    <3> HIDE DEF up
    <3> QED
      BY <3>1, <1>6
  <2> HIDE DEF up
  <2>3. ASSUME NEW k \in 0 .. L, k # L
        PROVE  up[k + 1] = up[k] \cup Children(h, up[k])
    BY <1>6, <2>1, <2>3
  <2> QED
    BY <2>2, <2>3
<1>8. Family(h, n) = up[L]
  BY DEF Family
<1> HIDE DEF up
<1>9. \A k \in 0 .. L : up[k] \subseteq Nodes(h) /\ n \in up[k]
  <2> DEFINE S == {k \in 0 .. L : up[k] \subseteq Nodes(h) /\ n \in up[k]}
  <2>1. 0 \in S
    BY <1>1, <1>7
  <2>2. ASSUME NEW k \in 0 .. L, k # L, k \in S
        PROVE  k + 1 \in S
    <3>1. k + 1 \in 0 .. L
      BY <1>1, <2>2
    <3>2. Children(h, up[k]) \subseteq Nodes(h)
      BY <2>2, ChildrenOf
    <3> QED
      BY <1>7, <2>2, <3>1, <3>2
  <2> HIDE DEF S, L
  <2>3. \A k \in 0 .. L : k \in S
    BY <1>1, <2>1, <2>2, Upwards
  <2> QED
    BY <2>3 DEF S
<1>10. IsFiniteSet(Nodes(h)) /\ Cardinality(Nodes(h)) = L
  <2>1. IsFiniteSet(1 .. L) /\ Cardinality(1 .. L) = IF 1 > L THEN 0 ELSE L - 1 + 1
    BY <1>1, FS_Interval
  <2> QED
    BY <1>1, <2>1 DEF Nodes
<1>11. \A k \in 0 .. L : Children(h, up[k]) \subseteq up[k] \/ Cardinality(up[k]) >= k + 1
  <2> DEFINE S == {k \in 0 .. L : Children(h, up[k]) \subseteq up[k] \/ Cardinality(up[k]) >= k + 1}
  <2>1. 0 \in S
    <3>1. Cardinality({n}) = 1 /\ 0 \in 0 .. L
      BY <1>1, FS_Singleton
    <3>2. Cardinality(up[0]) >= 0 + 1
      BY <3>1, <1>7
    <3> QED
      BY <3>1, <3>2
  <2>2. ASSUME NEW k \in 0 .. L, k # L, k \in S
        PROVE  k + 1 \in S
    <3>1. k + 1 \in 0 .. L /\ up[k + 1] = up[k] \cup Children(h, up[k])
      BY <1>1, <1>7, <2>2
    <3>2. CASE Children(h, up[k]) \subseteq up[k]
      <4>1. up[k + 1] = up[k]
        BY <3>1, <3>2
      <4> QED
        BY <3>1, <3>2, <4>1
    <3>3. CASE ~(Children(h, up[k]) \subseteq up[k])
      <4>1. IsFiniteSet(up[k + 1]) /\ up[k] \subseteq up[k + 1]
        BY <1>9, <1>10, <3>1, FS_Subset
      <4>2. IsFiniteSet(up[k]) /\ Cardinality(up[k]) <= Cardinality(up[k + 1])
            /\ Cardinality(up[k]) # Cardinality(up[k + 1])
        BY <3>1, <3>3, <4>1, FS_Subset
      <4>3. Cardinality(up[k]) \in Nat /\ Cardinality(up[k + 1]) \in Nat
        BY <4>1, <4>2, FS_CardinalityType
      <4>4. Cardinality(up[k]) >= k + 1
        BY <2>2, <3>3
      <4>5. Cardinality(up[k + 1]) >= (k + 1) + 1
        BY <4>2, <4>3, <4>4
      <4> QED
        BY <3>1, <4>5
    <3> QED
      BY <3>2, <3>3
  <2> HIDE DEF S, L
  <2>3. \A k \in 0 .. L : k \in S
    BY <1>1, <2>1, <2>2, Upwards
  <2> QED
    BY <2>3 DEF S
<1>12. L \in 0 .. L
  BY <1>1
<1>13. Children(h, up[L]) \subseteq up[L]
  <2>1. Cardinality(up[L]) <= L /\ Cardinality(up[L]) \in Nat
    BY <1>9, <1>10, <1>12, FS_Subset, FS_CardinalityType
  <2> QED
    BY <1>11, <1>12, <2>1
<1>14. \A m \in up[L] : \A k \in Arity(h, m) : Kids(h, m)[k] \in up[L]
  <2>1. up[L] \in SUBSET Nodes(h)
    BY <1>9, <1>12
  <2> QED
    BY <1>13, <2>1, ChildrenOf
<1>15. ASSUME NEW C, n \in C, \A m \in C \cap Nodes(h) : \A k \in Arity(h, m) : Kids(h, m)[k] \in C
       PROVE  up[L] \subseteq C
  <2> DEFINE S == {k \in 0 .. L : up[k] \subseteq C}
  <2>1. 0 \in S
    BY <1>1, <1>7, <1>15
  <2>2. ASSUME NEW k \in 0 .. L, k # L, k \in S
        PROVE  k + 1 \in S
    <3>1. k + 1 \in 0 .. L /\ up[k + 1] = up[k] \cup Children(h, up[k])
      BY <1>1, <1>7, <2>2
    <3>2. up[k] \in SUBSET Nodes(h) /\ up[k] \subseteq C
      BY <1>9, <2>2
    <3>3. Children(h, up[k]) \subseteq C
      BY <1>15, <3>2, ChildrenOf
    <3> QED
      BY <3>1, <3>2, <3>3
  <2> HIDE DEF S, L
  <2>3. \A k \in 0 .. L : k \in S
    BY <1>1, <2>1, <2>2, Upwards
  <2> QED
    BY <2>3, <1>12 DEF S
<1> HIDE DEF L
<1> QED
  BY <1>8, <1>9, <1>12, <1>14, <1>15

\* Every member of a family but the first is below another one.
LEMMA FamilyBelow ==
  ASSUME NEW h, IsHeap(h), NEW n \in Nodes(h), NEW x \in Family(h, n), x # n
  PROVE  \E m \in Family(h, n) : \E k \in Arity(h, m) : x = Kids(h, m)[k]
<1> DEFINE F == Family(h, n)
           C == {y \in F : y = n \/ \E m \in F : \E k \in Arity(h, m) : y = Kids(h, m)[k]}
<1>1. n \in C
  BY FamilyOf
<1>2. \A m \in C \cap Nodes(h) : \A k \in Arity(h, m) : Kids(h, m)[k] \in C
  BY FamilyOf
<1> HIDE DEF C
<1>3. F \subseteq C
  BY <1>1, <1>2, FamilyOf
<1> QED
  BY <1>3 DEF C

-----------------------------------------------------------------------------
(* What the operations on nodes do to the forest.                           *)

Elems(s) == {s[k] : k \in 1 .. Len(s)}

\* Create makes a root of some roots.
LEMMA CreateRoot ==
  ASSUME NEW h, IsHeap(h), NEW R, Forest(h, R), NEW x, IsNode(x),
         \A k \in 1 .. Len(x.nodes) : x.nodes[k] \in R,
         \A j, k \in 1 .. Len(x.nodes) : x.nodes[j] = x.nodes[k] => j = k
  PROVE  /\ IsHeap(Create(h, x))
         /\ Len(h) + 1 \notin R
         /\ Forest(Create(h, x), (R \ Elems(x.nodes)) \cup {Len(h) + 1})
         /\ Create(h, x)[Len(h) + 1].node = x
         /\ \A n \in Nodes(h) : Create(h, x)[n] = h[n]
<1> DEFINE g == Create(h, x)
           N == Len(h) + 1
           K == Elems(x.nodes)
           Q == (R \ K) \cup {N}
<1>1. Len(h) \in Nat /\ Sequence(h)
  BY DEF IsHeap, Sequence
<1>2. /\ Sequence(g) /\ Len(g) = N /\ g[N] = [node |-> x, live |-> TRUE]
      /\ \A n \in 1 .. Len(h) : g[n] = h[n]
  BY <1>1, Appended DEF Create
<1> HIDE DEF g
<1>3. Nodes(g) = Nodes(h) \cup {N} /\ N \notin Nodes(h)
  BY <1>1, <1>2 DEF Nodes
<1>4. R \subseteq Alive(h) /\ Alive(h) \subseteq Nodes(h)
  BY DEF Forest, Alive
<1>5. \A n \in Nodes(h) : g[n] = h[n] /\ Kids(g, n) = Kids(h, n) /\ Arity(g, n) = Arity(h, n)
  BY <1>2 DEF Nodes, Kids, Arity
<1>6. Kids(g, N) = x.nodes /\ Arity(g, N) = 1 .. Len(x.nodes) /\ IsCell(g[N]) /\ g[N].node = x
      /\ g[N].live
  BY <1>2 DEF Kids, Arity, IsCell
<1>7. IsHeap(g)
  <2>1. ASSUME NEW n \in Nodes(g)
        PROVE  IsCell(g[n]) /\ \A k \in Arity(g, n) : Kids(g, n)[k] \in Nodes(g)
    <3>1. CASE n = N
      BY <3>1, <1>3, <1>4, <1>6
    <3>2. CASE n # N
      <4>1. n \in Nodes(h)
        BY <3>2, <1>3
      <4>2. IsCell(h[n]) /\ \A k \in Arity(h, n) : Kids(h, n)[k] \in Nodes(h)
        BY <4>1 DEF IsHeap
      <4> QED
        BY <4>1, <4>2, <1>3, <1>5
    <3> QED
      BY <3>1, <3>2
  <2> QED
    BY <1>2, <2>1 DEF IsHeap
<1>8. Alive(g) = Alive(h) \cup {N} /\ N \notin Alive(h)
  BY <1>3, <1>5, <1>6 DEF Alive
<1>9. \A n \in Alive(h) : Kids(g, n) = Kids(h, n) /\ Arity(g, n) = Arity(h, n)
  BY <1>4, <1>5
<1>10. Q \subseteq Alive(g)
  BY <1>4, <1>8
<1>11. ASSUME NEW n \in Alive(g), NEW k \in Arity(g, n)
       PROVE  Kids(g, n)[k] \in Alive(g) \ Q
  <2>1. CASE n = N
    <3>1. k \in 1 .. Len(x.nodes) /\ Kids(g, n)[k] = x.nodes[k]
      BY <2>1, <1>6
    <3>2. x.nodes[k] \in R /\ x.nodes[k] \in K
      BY <3>1 DEF Elems
    <3> QED
      BY <3>1, <3>2, <1>4, <1>8
  <2>2. CASE n # N
    <3>1. n \in Alive(h)
      BY <2>2, <1>8
    <3>2. Kids(h, n)[k] \in Alive(h) \ R
      BY <3>1, <1>9 DEF Forest
    <3> QED
      BY <3>1, <3>2, <1>8, <1>9
  <2> QED
    BY <2>1, <2>2
<1>12. ASSUME NEW n \in Alive(g), NEW m \in Alive(g), NEW k \in Arity(g, n), NEW j \in Arity(g, m),
              Kids(g, n)[k] = Kids(g, m)[j]
       PROVE  n = m /\ k = j
  <2>1. \A a \in Alive(h) : \A b \in Arity(h, a) : Kids(h, a)[b] \notin R
    BY DEF Forest
  <2>2. CASE n = N /\ m = N
    BY <2>2, <1>6, <1>12
  <2>3. CASE n # N /\ m # N
    <3>1. n \in Alive(h) /\ m \in Alive(h)
      BY <2>3, <1>8
    <3> QED
      BY <3>1, <1>9, <1>12 DEF Forest
  <2>4. CASE n = N /\ m # N
    <3>1. m \in Alive(h) /\ Kids(g, n)[k] \in R
      BY <2>4, <1>6, <1>8
    <3> QED
      BY <3>1, <2>1, <1>9, <1>12
  <2>5. CASE n # N /\ m = N
    <3>1. n \in Alive(h) /\ Kids(g, m)[j] \in R
      BY <2>5, <1>6, <1>8
    <3> QED
      BY <3>1, <2>1, <1>9, <1>12
  <2> QED
    BY <2>2, <2>3, <2>4, <2>5
<1>13. ASSUME NEW n \in Alive(g) \ Q
       PROVE  \E m \in Alive(g) : \E k \in Arity(g, m) : Kids(g, m)[k] = n
  <2>1. n \in Alive(h)
    BY <1>8
  <2>2. CASE n \in R
    <3>1. PICK k \in 1 .. Len(x.nodes) : n = x.nodes[k]
      BY <2>2 DEF Elems
    <3> QED
      BY <3>1, <1>6, <1>8
  <2>3. CASE n \notin R
    <3>1. PICK m \in Alive(h) : \E k \in Arity(h, m) : Kids(h, m)[k] = n
      BY <2>1, <2>3 DEF Forest
    <3> QED
      BY <3>1, <1>8, <1>9
  <2> QED
    BY <2>2, <2>3
<1>14. Forest(g, Q)
  <2> HIDE DEF Q
  <2> QED
    BY <1>10, <1>11, <1>12, <1>13 DEF Forest
<1>15. N \notin R
  BY <1>3, <1>4
<1> QED
  BY <1>7, <1>14, <1>15, <1>6, <1>5 DEF g

\* A node with other nodes below it.
Made(type, nodes, name, v, x) ==
  [type |-> type, nodes |-> nodes, name |-> name, rvar |-> v, index |-> x]

\* A cell whose node gets other nodes.
LEMMA CellOf ==
  ASSUME NEW c, IsCell(c), NEW s \in Seq(Nat)
  PROVE  LET d == [c EXCEPT !.node.nodes = s]
         IN IsCell(d) /\ d.node.nodes = s /\ d.live = c.live
<1> DEFINE n == c.node
           Of(x) == Made(n.type, x, n.name, n.rvar, n.index)
           m == Of(n.nodes)
           c1 == [node |-> m, live |-> c.live]
           d == [c EXCEPT !.node.nodes = s]
<1>1. m = n /\ (n.type = "REFERENCE" => n.name \in Identifier) /\ c.live \in BOOLEAN
  BY DEF IsCell, IsNode, Made
<1>2. [m EXCEPT !.nodes = s] = Of(s)
  BY DEF Made
<1>3. IsNode(Of(s)) /\ Of(s).nodes = s
  BY <1>1 DEF IsNode, Made
<1> HIDE DEF Of
<1>4. c = [node |-> n, live |-> c.live]
  BY DEF IsCell
<1>5. c = c1
  BY <1>1, <1>4
<1>6. [c1 EXCEPT !.node.nodes = s] = [node |-> [m EXCEPT !.nodes = s], live |-> c.live]
  <2> HIDE DEF m
  <2> QED
    OBVIOUS
<1> HIDE DEF c1, m
<1>7. d = [node |-> Of(s), live |-> c.live]
  BY <1>2, <1>5, <1>6
<1> HIDE DEF d
<1>8. IsCell(d) /\ d.node.nodes = s /\ d.live = c.live
  BY <1>1, <1>3, <1>7 DEF IsCell
<1> QED
  BY <1>8 DEF d

\* Adopt puts a root below another one.
LEMMA AdoptRoot ==
  ASSUME NEW h, IsHeap(h), NEW R, Forest(h, R), NEW n \in R, NEW c \in R, n # c
  PROVE  /\ IsHeap(Adopt(h, n, c))
         /\ Forest(Adopt(h, n, c), R \ {c})
         /\ Len(Adopt(h, n, c)) = Len(h)
<1> DEFINE g == Adopt(h, n, c)
           A == Len(Kids(h, n)) + 1
           s == Append(Kids(h, n), c)
<1>1. Len(h) \in Nat /\ DOMAIN h = Nodes(h) /\ Sequence(h)
  BY HeapFacts DEF IsHeap
<1>2. R \subseteq Alive(h) /\ Alive(h) \subseteq Nodes(h) /\ Nodes(h) \subseteq Nat
  BY <1>1 DEF Forest, Alive, Nodes
<1>3. g = [k \in 1 .. Len(h) |-> IF k = n THEN [h[n] EXCEPT !.node.nodes = s] ELSE h[k]]
  BY <1>1 DEF Adopt, Sequence, Kids, Nodes
<1>4. Sequence(g) /\ Len(g) = Len(h)
  BY <1>1, <1>3 DEF Sequence
<1>5. /\ \A k \in Nodes(h) : k # n => g[k] = h[k]
      /\ g[n] = [h[n] EXCEPT !.node.nodes = s]
  BY <1>2, <1>3 DEF Nodes
<1> HIDE DEF g
<1>6. Kids(h, n) \in Seq(Nat) /\ IsCell(h[n]) /\ n \in Nodes(h) /\ c \in Nat /\ h[n].live
  BY <1>2, HeapFacts DEF IsHeap, Forest, Alive
<1>7. s \in Seq(Nat) /\ Len(s) = A /\ s[A] = c /\ \A k \in Arity(h, n) : s[k] = Kids(h, n)[k]
  BY <1>6 DEF Arity
<1>8. IsCell(g[n]) /\ g[n].node.nodes = s /\ g[n].live
  <2> DEFINE d == [h[n] EXCEPT !.node.nodes = s]
  <2> HIDE DEF s
  <2>1. IsCell(d) /\ d.node.nodes = s /\ d.live = h[n].live
    BY <1>6, <1>7, CellOf
  <2>2. g[n] = d
    BY <1>5
  <2> HIDE DEF d
  <2> QED
    BY <1>6, <2>1, <2>2
<1>9. Nodes(g) = Nodes(h) /\ Alive(g) = Alive(h)
  BY <1>4, <1>5, <1>6, <1>8 DEF Nodes, Alive
<1>10. /\ \A k \in Nodes(h) : k # n => Kids(g, k) = Kids(h, k) /\ Arity(g, k) = Arity(h, k)
       /\ Kids(g, n) = s /\ Arity(g, n) = Arity(h, n) \cup {A} /\ A \notin Arity(h, n)
  <2>1. Len(Kids(h, n)) \in Nat
    BY <1>6
  <2> HIDE DEF s
  <2>2. \A k \in Nodes(h) : k # n => Kids(g, k) = Kids(h, k) /\ Arity(g, k) = Arity(h, k)
    BY <1>5 DEF Kids, Arity
  <2>3. Kids(g, n) = s /\ Arity(g, n) = 1 .. A
    BY <1>7, <1>8 DEF Kids, Arity
  <2>4. 1 .. A = Arity(h, n) \cup {A} /\ A \notin Arity(h, n)
    BY <2>1 DEF Arity
  <2> QED
    BY <2>2, <2>3, <2>4
<1> HIDE DEF s, A
<1>11. IsHeap(g)
  <2>1. ASSUME NEW m \in Nodes(g)
        PROVE  IsCell(g[m]) /\ \A k \in Arity(g, m) : Kids(g, m)[k] \in Nodes(g)
    <3>1. CASE m = n
      <4>1. \A k \in Arity(h, n) : Kids(h, n)[k] \in Nodes(h)
        BY <1>6 DEF IsHeap
      <4> QED
        BY <3>1, <4>1, <1>2, <1>7, <1>8, <1>9, <1>10
    <3>2. CASE m # n
      <4>1. IsCell(h[m]) /\ \A k \in Arity(h, m) : Kids(h, m)[k] \in Nodes(h)
        BY <1>9 DEF IsHeap
      <4> QED
        BY <3>2, <4>1, <1>5, <1>9, <1>10
    <3> QED
      BY <3>1, <3>2
  <2> QED
    BY <1>4, <2>1 DEF IsHeap
\* The places of nodes are those of before and one for c.
<1>12. \A m \in Alive(h) : \A k \in Arity(g, m) :
         \/ m = n /\ k = A /\ Kids(g, m)[k] = c
         \/ k \in Arity(h, m) /\ Kids(g, m)[k] = Kids(h, m)[k]
  BY <1>2, <1>7, <1>10
<1>13. \A m \in Alive(h) : \A k \in Arity(h, m) :
         k \in Arity(g, m) /\ Kids(g, m)[k] = Kids(h, m)[k] /\ Kids(h, m)[k] \in Alive(h) \ R
  BY <1>2, <1>7, <1>10 DEF Forest
<1>14. n \in Alive(h) /\ A \in Arity(g, n) /\ Kids(g, n)[A] = c
  BY <1>2, <1>7, <1>10
<1>15. ASSUME NEW m \in Alive(g), NEW k \in Arity(g, m)
       PROVE  Kids(g, m)[k] \in Alive(g) \ (R \ {c})
  BY <1>2, <1>9, <1>12, <1>13
<1>16. ASSUME NEW a \in Alive(g), NEW b \in Alive(g), NEW k \in Arity(g, a), NEW j \in Arity(g, b),
              Kids(g, a)[k] = Kids(g, b)[j]
       PROVE  a = b /\ k = j
  <2>1. a \in Alive(h) /\ b \in Alive(h)
    BY <1>9
  <2>2. CASE k \in Arity(h, a) /\ j \in Arity(h, b)
    BY <2>1, <2>2, <1>13, <1>16 DEF Forest
  <2>3. CASE k \notin Arity(h, a)
    BY <2>1, <2>3, <1>12, <1>13, <1>16
  <2>4. CASE j \notin Arity(h, b)
    BY <2>1, <2>4, <1>12, <1>13, <1>16
  <2> QED
    BY <2>2, <2>3, <2>4
<1>17. ASSUME NEW m \in Alive(g) \ (R \ {c})
       PROVE  \E a \in Alive(g) : \E k \in Arity(g, a) : Kids(g, a)[k] = m
  <2>1. CASE m = c
    BY <2>1, <1>9, <1>14
  <2>2. CASE m # c
    <3>1. m \in Alive(h) \ R
      BY <2>2, <1>9
    <3>2. PICK a \in Alive(h) : \E k \in Arity(h, a) : Kids(h, a)[k] = m
      BY <3>1 DEF Forest
    <3> QED
      BY <3>2, <1>9, <1>13
  <2> QED
    BY <2>1, <2>2
<1>18. Forest(g, R \ {c})
  BY <1>2, <1>9, <1>15, <1>16, <1>17 DEF Forest
<1> QED
  BY <1>4, <1>11, <1>18 DEF g

\* Roots are destroyed with all nodes below them, and no others.
LEMMA DestroyRoots ==
  ASSUME NEW h, IsHeap(h), NEW R, Forest(h, R), NEW K \in SUBSET R
  PROVE  /\ IsHeap(Destroyed(h, UNION {Family(h, n) : n \in K}))
         /\ Forest(Destroyed(h, UNION {Family(h, n) : n \in K}), R \ K)
         /\ \A m \in Nodes(h) : Destroyed(h, UNION {Family(h, n) : n \in K})[m].node = h[m].node
         /\ Len(Destroyed(h, UNION {Family(h, n) : n \in K})) = Len(h)
<1> DEFINE D == UNION {Family(h, n) : n \in K}
           g == Destroyed(h, D)
<1>1. Len(h) \in Nat /\ DOMAIN h = Nodes(h) /\ Sequence(h)
  BY HeapFacts DEF IsHeap
<1>2. R \subseteq Alive(h) /\ Alive(h) \subseteq Nodes(h)
  BY DEF Forest, Alive
<1>3. g = [k \in 1 .. Len(h) |-> IF k \in D THEN [h[k] EXCEPT !.live = FALSE] ELSE h[k]]
  BY <1>1 DEF Destroyed, Nodes
<1>4. Sequence(g) /\ Len(g) = Len(h)
  <2> HIDE DEF D
  <2> QED
    BY <1>1, <1>3 DEF Sequence
<1>5. \A k \in Nodes(h) : g[k] = IF k \in D THEN [h[k] EXCEPT !.live = FALSE] ELSE h[k]
  BY <1>3 DEF Nodes
<1>6. \A k \in Nodes(h) : IsCell(g[k]) /\ g[k].node = h[k].node /\ (g[k].live <=> k \notin D /\ h[k].live)
  <2> HIDE DEF D, g
  <2> SUFFICES ASSUME NEW k \in Nodes(h)
               PROVE  IsCell(g[k]) /\ g[k].node = h[k].node /\ (g[k].live <=> k \notin D /\ h[k].live)
    OBVIOUS
  <2>1. h[k] = [node |-> h[k].node, live |-> h[k].live] /\ h[k].live \in BOOLEAN /\ IsNode(h[k].node)
    BY DEF IsHeap, IsCell
  <2>2. CASE k \in D
    <3>1. g[k] = [node |-> h[k].node, live |-> FALSE]
      BY <1>5, <2>1, <2>2
    <3> QED
      BY <2>1, <2>2, <3>1 DEF IsCell
  <2>3. CASE k \notin D
    <3>1. g[k] = h[k]
      BY <1>5, <2>3
    <3>2. IsCell(g[k])
      BY <3>1 DEF IsHeap
    <3> QED
      BY <2>3, <3>1, <3>2
  <2> QED
    BY <2>2, <2>3
<1> HIDE DEF g
<1>7. Nodes(g) = Nodes(h) /\ \A k \in Nodes(h) : Kids(g, k) = Kids(h, k) /\ Arity(g, k) = Arity(h, k)
  BY <1>4, <1>6 DEF Nodes, Kids, Arity
<1>8. IsHeap(g)
  BY <1>4, <1>6, <1>7 DEF IsHeap
<1>9. Alive(g) = Alive(h) \ D
  BY <1>6, <1>7 DEF Alive
<1>10. /\ D \subseteq Alive(h) \ (R \ K)
       /\ K \subseteq D
       /\ \A m \in D : \A k \in Arity(h, m) : Kids(h, m)[k] \in D
       /\ \A x \in D : x \notin R => \E m \in D : \E k \in Arity(h, m) : x = Kids(h, m)[k]
  <2>1. ASSUME NEW n \in K
        PROVE  Family(h, n) \subseteq Alive(h) \ (R \ K)
    <3> DEFINE C == Alive(h) \ (R \ K)
    <3>1. n \in C /\ n \in Nodes(h)
      BY <1>2
    <3>2. \A m \in C \cap Nodes(h) : \A k \in Arity(h, m) : Kids(h, m)[k] \in C
      BY DEF Forest
    <3> HIDE DEF C
    <3>3. Family(h, n) \subseteq C
      BY <3>1, <3>2, FamilyOf
    <3> QED
      BY <3>3 DEF C
  <2>2. \A n \in K : n \in Nodes(h)
    BY <1>2
  <2>3. \A n \in K : n \in Family(h, n) /\ \A m \in Family(h, n) : \A k \in Arity(h, m) : Kids(h, m)[k] \in Family(h, n)
    BY <2>2, FamilyOf
  <2>4. ASSUME NEW x \in D, x \notin R
        PROVE  \E m \in D : \E k \in Arity(h, m) : x = Kids(h, m)[k]
    <3>1. PICK n \in K : x \in Family(h, n)
      OBVIOUS
    <3>2. x # n
      BY <2>4
    <3>3. PICK m \in Family(h, n) : \E k \in Arity(h, m) : x = Kids(h, m)[k]
      BY <2>2, <3>1, <3>2, FamilyBelow
    <3> QED
      BY <3>3
  <2> QED
    BY <2>1, <2>3, <2>4
<1> HIDE DEF D
<1>11. R \ K \subseteq Alive(g)
  BY <1>2, <1>9, <1>10
<1>12. \A m \in Alive(g) : m \in Alive(h) /\ m \notin D /\ Kids(g, m) = Kids(h, m) /\ Arity(g, m) = Arity(h, m)
  BY <1>2, <1>7, <1>9
<1>13. ASSUME NEW m \in Alive(g), NEW k \in Arity(g, m)
       PROVE  Kids(g, m)[k] \in Alive(g) \ (R \ K)
  <2>1. k \in Arity(h, m) /\ Kids(g, m)[k] = Kids(h, m)[k] /\ Kids(h, m)[k] \in Alive(h) \ R
    BY <1>12 DEF Forest
  <2>2. Kids(h, m)[k] \notin D
    <3>1. SUFFICES ASSUME Kids(h, m)[k] \in D
                   PROVE  FALSE
      OBVIOUS
    <3>2. PICK a \in D : \E b \in Arity(h, a) : Kids(h, m)[k] = Kids(h, a)[b]
      BY <1>10, <2>1, <3>1
    <3>3. a = m
      BY <1>10, <1>12, <2>1, <3>2 DEF Forest
    <3> QED
      BY <1>12, <3>3
  <2> QED
    BY <1>9, <2>1, <2>2
<1>14. \A a, b \in Alive(g) : \A k \in Arity(g, a), j \in Arity(g, b) :
         Kids(g, a)[k] = Kids(g, b)[j] => a = b /\ k = j
  BY <1>12 DEF Forest
<1>15. ASSUME NEW m \in Alive(g) \ (R \ K)
       PROVE  \E a \in Alive(g) : \E k \in Arity(g, a) : Kids(g, a)[k] = m
  <2>1. m \in Alive(h) \ R
    BY <1>10, <1>12
  <2>2. PICK a \in Alive(h) : \E k \in Arity(h, a) : Kids(h, a)[k] = m
    BY <2>1 DEF Forest
  <2>3. a \in Alive(g)
    BY <1>9, <1>10, <1>12, <2>2
  <2> QED
    BY <2>2, <2>3, <1>12
<1>16. Forest(g, R \ K)
  BY <1>11, <1>13, <1>14, <1>15 DEF Forest
<1> QED
  BY <1>8, <1>16, <1>6, <1>4 DEF g, D

\* destroy_node of a root or of nothing.
LEMMA DestroyRoot ==
  ASSUME NEW h, IsHeap(h), NEW R, Forest(h, R), NULL \notin R, NEW n \in R \cup {NULL}
  PROVE  IsHeap(destroy_node(h, n)) /\ Forest(destroy_node(h, n), R \ {n})
<1>1. CASE n = NULL
  <2>1. R \ {n} = R /\ destroy_node(h, n) = h
    BY <1>1 DEF destroy_node
  <2> QED
    BY <2>1
<1>2. CASE n # NULL
  <2> DEFINE K == {n}
  <2>1. UNION {Family(h, m) : m \in K} = Family(h, n) /\ K \in SUBSET R /\ R \ {n} = R \ K
    BY <1>2
  <2> HIDE DEF K
  <2>2. /\ IsHeap(Destroyed(h, UNION {Family(h, m) : m \in K}))
        /\ Forest(Destroyed(h, UNION {Family(h, m) : m \in K}), R \ K)
    BY <2>1, DestroyRoots
  <2>3. destroy_node(h, n) = Destroyed(h, UNION {Family(h, m) : m \in K})
    BY <1>2, <2>1 DEF destroy_node
  <2> QED
    BY <2>1, <2>2, <2>3
<1> QED
  BY <1>1, <1>2

-----------------------------------------------------------------------------
(* What calls and returns do to the nodes that are held.                    *)

\* The nodes that neither the call at the top nor the result holds.
Others == Roots \ {Top.node, ret}

LEMMA AtTop ==
  ASSUME NodeInv, pc = "read", stack # <<>>
  PROVE  /\ Len(stack) \in Nat \ {0} /\ Sequence(stack) /\ IsFrame(Top)
         /\ Top = stack[Len(stack)]
         /\ RulesHeld = 1 .. Len(rules)
         /\ NULL \notin Roots
         /\ Top.node \in Roots \cup {NULL} /\ ret \in Roots \cup {NULL}
         /\ Top.node # NULL => Top.node # ret
         /\ ret # NULL => Top.at \in Waiting
         /\ rule.name \in Identifier
<1>1. Len(stack) \in Nat \ {0} /\ Sequence(stack) /\ Top = stack[Len(stack)]
  BY FrontOf DEF NodeInv, StackOK, Top, Last
<1>2. Len(stack) \in 1 .. Len(stack)
  BY <1>1
<1>3. IsFrame(Top) /\ (ret # NULL => Top.at \in Waiting)
  BY <1>1, <1>2 DEF NodeInv, StackOK
<1>4. RulesHeld = 1 .. Len(rules)
  BY DomainOf DEF NodeInv, RulesOK, RulesHeld, Rule
<1>5. NULL \notin Roots /\ Top.node \in Roots \cup {NULL} /\ ret \in Roots \cup {NULL}
  BY <1>1, <1>2 DEF Roots
<1>6. Top.node # NULL => Top.node # ret
  BY <1>1, <1>2 DEF NodeInv, Apart
<1> QED
  BY <1>1, <1>3, <1>4, <1>5, <1>6 DEF NodeInv, RulesOK

LEMMA OthersAre ==
  ASSUME NodeInv, pc = "read", stack # <<>>
  PROVE  Others = ({stack[k].node : k \in 1 .. (Len(stack) - 1)}
                   \cup {rules[r].expr : r \in 1 .. Len(rules)}) \ {NULL}
<1> DEFINE L == Len(stack)
<1>1. L \in Nat \ {0} /\ Top = stack[L] /\ RulesHeld = 1 .. Len(rules)
  BY AtTop
<1>2. 1 .. L = (1 .. (L - 1)) \cup {L} /\ L \notin 1 .. (L - 1)
  BY <1>1
<1>3. \A k \in 1 .. (L - 1) : stack[k].node # NULL => stack[k].node # Top.node /\ stack[k].node # ret
  BY <1>1, <1>2 DEF NodeInv, Apart
<1>4. \A r \in 1 .. Len(rules) : rules[r].expr # NULL /\ rules[r].expr # Top.node /\ rules[r].expr # ret
  BY <1>1, <1>2 DEF NodeInv, Apart
<1> HIDE DEF L
<1>5. Roots = ({stack[k].node : k \in 1 .. L} \cup {ret} \cup {rules[r].expr : r \in 1 .. Len(rules)}) \ {NULL}
  BY <1>1 DEF Roots, L
<1>6. {stack[k].node : k \in 1 .. L} = {stack[k].node : k \in 1 .. (L - 1)} \cup {Top.node}
  BY <1>1, <1>2
<1> QED
  BY <1>3, <1>4, <1>5, <1>6 DEF Others, L

\* A sequence of new calls, all but the last of which wait for the next one.
AreCalls(calls) ==
  /\ Sequence(calls)
  /\ \A k \in 1 .. Len(calls) :
       /\ IsFrame(calls[k]) /\ calls[k].node = NULL /\ calls[k].at # "expression"
       /\ k < Len(calls) => calls[k].at \in Waiting

\* A call gets x, or calls others and holds x meanwhile.
LEMMA CallMoves ==
  ASSUME NodeInv, pc = "read", pc' = "read", stack # <<>>, rules' = rules,
         IsRule(rule'), rule'.name \in Identifier,
         NEW f, IsFrame(f), f.at = "expression" <=> Top.at = "expression",
         NEW calls, AreCalls(calls), calls # <<>> => f.at \in Waiting,
         stack' = Append(Front(stack), f) \o calls, ret' = NULL,
         f.node \notin Others,
         IsHeap(heap'), Forest(heap', Others \cup ({f.node} \ {NULL}))
  PROVE  NodeInv'
<1> DEFINE L == Len(stack)
           M == Len(calls)
           s == Append(Front(stack), f)
<1>1. L \in Nat \ {0} /\ Sequence(stack) /\ Top = stack[L] /\ RulesHeld = 1 .. Len(rules)
  BY AtTop
<1>2. /\ Sequence(s) /\ Len(s) = L /\ s[L] = f
      /\ \A k \in 1 .. (L - 1) : s[k] = stack[k]
  <2>1. Sequence(Front(stack)) /\ Len(Front(stack)) = L - 1 /\ \A k \in 1 .. (L - 1) : Front(stack)[k] = stack[k]
    BY <1>1, FrontOf
  <2>2. (L - 1) + 1 = L
    BY <1>1
  <2> QED
    BY <2>1, <2>2, Appended
<1> HIDE DEF s
<1>3. M \in Nat /\ Sequence(calls) /\ (M # 0 => calls # <<>>)
  BY EmptySeq DEF AreCalls, Sequence
<1>4. /\ Sequence(stack') /\ Len(stack') = L + M
      /\ \A k \in 1 .. L : stack'[k] = s[k]
      /\ \A k \in 1 .. M : stack'[L + k] = calls[k]
  <2>1. stack' = s \o calls
    BY DEF s
  <2>2. /\ Sequence(s \o calls) /\ Len(s \o calls) = Len(s) + Len(calls)
        /\ \A k \in 1 .. Len(s) : (s \o calls)[k] = s[k]
        /\ \A k \in 1 .. Len(calls) : (s \o calls)[Len(s) + k] = calls[k]
    <3>1. Sequence(s)
      BY <1>2
    <3>2. Sequence(calls)
      BY <1>3
    <3> QED
      BY ONLY <3>1, <3>2, Joined
  <2> HIDE DEF L, M
  <2> QED
    BY <2>1, <2>2, <1>2 DEF M
\* Each call of the new stack.
<1>5. ASSUME NEW k \in 1 .. (L + M)
      PROVE  \/ k \in 1 .. (L - 1) /\ stack'[k] = stack[k]
             \/ k = L /\ stack'[k] = f
             \/ /\ k > L /\ k - L \in 1 .. M /\ stack'[k] = calls[k - L]
                /\ k < L + M => k - L < M
  <2>1. k <= L \/ (k > L /\ k - L \in 1 .. M /\ L + (k - L) = k /\ (k < L + M => k - L < M))
    BY <1>1, <1>3
  <2>2. k <= L => k \in 1 .. L /\ (k = L \/ k \in 1 .. (L - 1))
    BY <1>1, <1>3
  <2> QED
    BY <2>1, <2>2, <1>2, <1>4
<1>6. \A k \in 1 .. (L - 1) : k \in 1 .. L /\ k \in 1 .. (L + M) /\ k < L /\ k # L /\ k < L + M
  BY <1>1, <1>3
<1>7. L \in 1 .. (L + M) /\ (L = 1 <=> 1 \notin 1 .. (L - 1)) /\ (L < L + M => calls # <<>>) /\ L \in 1 .. L
  <2>1. \A n \in Nat \ {0}, m \in Nat : /\ n \in 1 .. (n + m) /\ n \in 1 .. n
                                        /\ n = 1 <=> 1 \notin 1 .. (n - 1)
                                        /\ n < n + m => m # 0
    OBVIOUS
  <2> HIDE DEF L, M
  <2> QED
    BY <1>1, <1>3, <2>1
<1>8. stack'# <<>> /\ Len(stack') \in Nat
  <2>1. L + M # 0 /\ L + M \in Nat
    BY <1>1, <1>3
  <2>2. Len(<<>>) = 0
    BY EmptySeq
  <2> QED
    BY <1>4, <2>1, <2>2
<1>9. \A k \in 1 .. (L - 1) : IsFrame(stack[k]) /\ (stack[k].at = "expression" <=> k = 1) /\ stack[k].at \in Waiting
  BY <1>6 DEF NodeInv, StackOK
<1>10. Top.at = "expression" <=> L = 1
  BY <1>1, <1>7 DEF NodeInv, StackOK
<1>11. ASSUME NEW k \in 1 .. (L + M)
       PROVE  /\ IsFrame(stack'[k])
              /\ stack'[k].at = "expression" <=> k = 1
              /\ k < L + M => stack'[k].at \in Waiting
  <2>1. CASE k \in 1 .. (L - 1) /\ stack'[k] = stack[k]
    BY <2>1, <1>9
  <2>2. CASE k = L /\ stack'[k] = f
    BY <2>2, <1>7, <1>10
  <2>3. CASE /\ k > L /\ k - L \in 1 .. M /\ stack'[k] = calls[k - L]
             /\ k < L + M => k - L < M
    <3>1. k # 1
      BY <2>3, <1>1
    <3> QED
      BY <2>3, <3>1 DEF AreCalls
  <2> QED
    BY <1>5, <2>1, <2>2, <2>3
<1>12. StackOK'
  BY <1>4, <1>8, <1>11 DEF StackOK
<1>13. RulesOK' /\ (RulesHeld \subseteq 1 .. Len(rules))' /\ RulesHeld' = 1 .. Len(rules)
  <2>1. RulesOK' /\ RulesHeld' = DOMAIN rules
    BY DEF NodeInv, RulesOK, RulesHeld, Rule
  <2> QED
    BY <2>1, DomainOf DEF RulesOK
<1>14. \A k \in 1 .. (L + M) : stack'[k].node = NULL \/ (k = L /\ stack'[k].node = f.node)
                               \/ (k \in 1 .. (L - 1) /\ stack'[k].node = stack[k].node)
  BY <1>5 DEF AreCalls
<1>15. \A k \in 1 .. (L - 1) : stack'[k] = stack[k]
  BY <1>2, <1>4, <1>6
<1>16. stack'[L] = f
  BY <1>2, <1>4, <1>7
<1>17. Others = ({stack[k].node : k \in 1 .. (L - 1)} \cup {rules[r].expr : r \in 1 .. Len(rules)}) \ {NULL}
  BY OthersAre
<1>18. Roots' = Others \cup ({f.node} \ {NULL})
  <2>1. Roots' = ({stack'[k].node : k \in 1 .. (L + M)} \cup {ret'} \cup {rules[r].expr : r \in 1 .. Len(rules)}) \ {NULL}
    BY <1>4, <1>13 DEF Roots
  <2>2. {stack'[k].node : k \in 1 .. (L + M)} \ {NULL} = ({stack[k].node : k \in 1 .. (L - 1)} \cup {f.node}) \ {NULL}
    <3> HIDE DEF L, M
    <3>1. ASSUME NEW k \in 1 .. (L + M), stack'[k].node # NULL
          PROVE  stack'[k].node \in {stack[a].node : a \in 1 .. (L - 1)} \cup {f.node}
      BY <1>14, <3>1
    <3>2. ASSUME NEW k \in 1 .. (L - 1)
          PROVE  stack[k].node \in {stack'[a].node : a \in 1 .. (L + M)}
      BY <1>6, <1>15
    <3>3. f.node \in {stack'[a].node : a \in 1 .. (L + M)}
      BY <1>7, <1>16
    <3> QED
      BY <3>1, <3>2, <3>3
  <2> HIDE DEF L, M
  <2> QED
    BY <2>1, <2>2, <1>17
<1>19. Apart'
  <2>1. ASSUME NEW j \in 1 .. (L + M), NEW k \in 1 .. (L + M), stack'[j].node = stack'[k].node
        PROVE  j = k \/ stack'[k].node = NULL
    <3>1. \A a, b \in 1 .. (L - 1) : stack[a].node = stack[b].node => a = b \/ stack[b].node = NULL
      BY <1>6 DEF NodeInv, Apart
    <3>2. \A a \in 1 .. (L - 1) : stack[a].node # NULL => stack[a].node # f.node
      BY <1>17
    <3> QED
      BY <3>1, <3>2, <2>1, <1>14
  <2>2. ASSUME NEW r \in 1 .. Len(rules)
        PROVE  /\ rules[r].expr # NULL
               /\ \A k \in 1 .. (L + M) : stack'[k].node # rules[r].expr
               /\ \A t \in 1 .. Len(rules) : rules[r].expr = rules[t].expr => r = t
    <3>1. /\ rules[r].expr # NULL
          /\ \A t \in 1 .. Len(rules) : rules[r].expr = rules[t].expr => r = t
          /\ \A k \in 1 .. (L - 1) : stack[k].node # rules[r].expr
      BY <1>1, <1>6 DEF NodeInv, Apart
    <3>2. rules[r].expr # f.node
      BY <1>17, <3>1
    <3> QED
      BY <3>1, <3>2, <1>14
  <2> QED
    BY <2>1, <2>2, <1>4, <1>13 DEF Apart
<1> QED
  BY <1>12, <1>13, <1>18, <1>19 DEF NodeInv

\* A call other than that of parse_rule returns x.
LEMMA ReturnMoves ==
  ASSUME NodeInv, pc = "read", pc' = "read", stack # <<>>, rules' = rules,
         IsRule(rule'), rule'.name \in Identifier,
         Top.at # "expression", NEW x, stack' = Front(stack), ret' = x,
         x \notin Others,
         IsHeap(heap'), Forest(heap', Others \cup ({x} \ {NULL}))
  PROVE  NodeInv'
<1> DEFINE L == Len(stack)
<1>1. L \in Nat \ {0} /\ Sequence(stack) /\ Top = stack[L] /\ RulesHeld = 1 .. Len(rules)
  BY AtTop
<1>2. Sequence(stack') /\ Len(stack') = L - 1 /\ \A k \in 1 .. (L - 1) : stack'[k] = stack[k]
  BY <1>1, FrontOf
<1>3. \A k \in 1 .. (L - 1) : k \in 1 .. L /\ k < L
  BY <1>1
<1>4. L \in 1 .. L
  BY <1>1
<1>5. L # 1
  BY <1>1, <1>4 DEF NodeInv, StackOK
<1>6. L - 1 \in 1 .. (L - 1) /\ L - 1 # 0
  <2>1. \A n \in Nat \ {0} : n # 1 => n - 1 \in 1 .. (n - 1) /\ n - 1 # 0
    OBVIOUS
  <2> QED
    BY <1>1, <1>5, <2>1
<1>7. stack' # <<>>
  BY <1>2, <1>6, EmptySeq
<1>8. \A k \in 1 .. (L - 1) : IsFrame(stack[k]) /\ (stack[k].at = "expression" <=> k = 1) /\ stack[k].at \in Waiting
  BY <1>3 DEF NodeInv, StackOK
<1>9. StackOK'
  <2>1. Top' = stack[L - 1]
    BY <1>2, <1>6 DEF Top, Last
  <2> QED
    BY <2>1, <1>2, <1>6, <1>7, <1>8 DEF StackOK
<1>10. RulesOK' /\ (RulesHeld \subseteq 1 .. Len(rules))' /\ RulesHeld' = 1 .. Len(rules)
  <2>1. RulesOK' /\ RulesHeld' = DOMAIN rules
    BY DEF NodeInv, RulesOK, RulesHeld, Rule
  <2> QED
    BY <2>1, DomainOf DEF RulesOK
<1>11. Others = ({stack[k].node : k \in 1 .. (L - 1)} \cup {rules[r].expr : r \in 1 .. Len(rules)}) \ {NULL}
  BY OthersAre
<1>12. Roots' = Others \cup ({x} \ {NULL})
  <2>1. Roots' = ({stack'[k].node : k \in 1 .. (L - 1)} \cup {x} \cup {rules[r].expr : r \in 1 .. Len(rules)}) \ {NULL}
    BY <1>2, <1>10 DEF Roots
  <2>2. {stack'[k].node : k \in 1 .. (L - 1)} = {stack[k].node : k \in 1 .. (L - 1)}
    BY <1>2
  <2> HIDE DEF L
  <2> QED
    BY <2>1, <2>2, <1>11
<1>13. Apart'
  <2>1. \A a, b \in 1 .. (L - 1) : stack'[a].node = stack'[b].node => a = b \/ stack'[b].node = NULL
    BY <1>2, <1>3 DEF NodeInv, Apart
  <2>2. \A a \in 1 .. (L - 1) : stack'[a].node # NULL => stack'[a].node # x
    BY <1>2, <1>11
  <2>3. ASSUME NEW r \in 1 .. Len(rules)
        PROVE  /\ rules[r].expr # NULL /\ rules[r].expr # x
               /\ \A k \in 1 .. (L - 1) : stack'[k].node # rules[r].expr
               /\ \A t \in 1 .. Len(rules) : rules[r].expr = rules[t].expr => r = t
    <3>1. /\ rules[r].expr # NULL
          /\ \A t \in 1 .. Len(rules) : rules[r].expr = rules[t].expr => r = t
          /\ \A k \in 1 .. (L - 1) : stack[k].node # rules[r].expr
      BY <1>1, <1>3 DEF NodeInv, Apart
    <3>2. rules[r].expr # x
      BY <1>11, <3>1
    <3> QED
      BY <3>1, <3>2, <1>2
  <2> QED
    BY <2>1, <2>2, <2>3, <1>2, <1>10 DEF Apart
<1> QED
  BY <1>9, <1>10, <1>12, <1>13 DEF NodeInv

\* The calls that start parse_primary, parse_term, parse_sequence or parse_expression.
LEMMA AreFrames ==
  ASSUME NEW w
  PROVE  /\ AreCalls(<<>>) /\ AreCalls(<<Frame("primary", "entry", w)>>) /\ AreCalls(TermAt(w))
         /\ AreCalls(SequenceAt(w)) /\ AreCalls(ExpressionAt(w))
         /\ TermAt(w) # <<>> /\ ExpressionAt(w) # <<>> /\ SequenceAt(w) # <<>>
BY DEF AreCalls, Sequence, IsFrame, Frame, TermAt, SequenceAt, ExpressionAt, Waiting, Bare, Holding

-----------------------------------------------------------------------------
(* The steps that read.                                                     *)

\* A step of a function behind parse_rule.
ReadsOn ==
  /\ NodeInv /\ pc = "read" /\ pc' = "read" /\ stack # <<>> /\ rules' = rules
  /\ IsRule(rule') /\ rule'.name \in Identifier

LEMMA MadeIs ==
  ASSUME NEW nodes \in Seq(Nat), NEW type, NEW name, type = "REFERENCE" => name \in Identifier,
         NEW v, NEW x
  PROVE  IsNode(Made(type, nodes, name, v, x)) /\ Made(type, nodes, name, v, x).nodes = nodes
BY DEF IsNode, Made

LEMMA LeafIs ==
  ASSUME NEW type, NEW name, type = "REFERENCE" => name \in Identifier, NEW v, NEW x
  PROVE  IsNode(Made(type, <<>>, name, v, x)) /\ Made(type, <<>>, name, v, x).nodes = <<>>
BY EmptySeq, MadeIs

LEMMA FramesAre ==
  ASSUME NEW f, IsFrame(f), NEW at, NEW n
  PROVE  /\ [f EXCEPT !.at = at] =
              [fn |-> f.fn, at |-> at, from |-> f.from, node |-> f.node, prefix |-> f.prefix]
         /\ [f EXCEPT !.at = at, !.node = n] =
              [fn |-> f.fn, at |-> at, from |-> f.from, node |-> n, prefix |-> f.prefix]
         /\ [f EXCEPT !.node = n] =
              [fn |-> f.fn, at |-> f.at, from |-> f.from, node |-> n, prefix |-> f.prefix]
<1> DEFINE Of(a, b, c) == [fn |-> f.fn, at |-> a, from |-> f.from, node |-> b, prefix |-> c]
           f1 == Of(f.at, f.node, f.prefix)
           f2 == Of(at, f.node, f.prefix)
<1>1. f = f1
  BY DEF IsFrame
<1>2. [f1 EXCEPT !.at = at] = f2
  OBVIOUS
<1>3. [f2 EXCEPT !.node = n] = Of(at, n, f.prefix)
  OBVIOUS
<1>4. [f1 EXCEPT !.node = n] = Of(f.at, n, f.prefix)
  OBVIOUS
<1>5. [f EXCEPT !.at = at, !.node = n] = [[f EXCEPT !.at = at] EXCEPT !.node = n]
  OBVIOUS
<1> HIDE DEF f1, f2
<1>6. /\ [f EXCEPT !.at = at] = f2
      /\ [f EXCEPT !.at = at, !.node = n] = Of(at, n, f.prefix)
      /\ [f EXCEPT !.node = n] = Of(f.at, n, f.prefix)
  <2> HIDE DEF Of
  <2> QED
    BY <1>1, <1>2, <1>3, <1>4, <1>5
<1> QED
  BY <1>6 DEF f2

LEMMA PrefixedFrame ==
  ASSUME NEW f, IsFrame(f), NEW at, NEW t
  PROVE  [f EXCEPT !.at = at, !.prefix = t] =
           [fn |-> f.fn, at |-> at, from |-> f.from, node |-> f.node, prefix |-> t]
<1> DEFINE Of(a, b) == [fn |-> f.fn, at |-> a, from |-> f.from, node |-> f.node, prefix |-> b]
           f1 == Of(f.at, f.prefix)
           f2 == Of(at, f.prefix)
<1>1. f = f1
  BY DEF IsFrame
<1>2. [f1 EXCEPT !.at = at] = f2
  OBVIOUS
<1>3. [f2 EXCEPT !.prefix = t] = Of(at, t)
  OBVIOUS
<1>4. [f EXCEPT !.at = at, !.prefix = t] = [[f EXCEPT !.at = at] EXCEPT !.prefix = t]
  OBVIOUS
<1> HIDE DEF f1, f2
<1> QED
  BY <1>1, <1>2, <1>3, <1>4

LEMMA RulesAre ==
  ASSUME NEW x, IsRule(x), NEW v
  PROVE  /\ IsRule([x EXCEPT !.rvars = v]) /\ [x EXCEPT !.rvars = v].name = x.name
         /\ IsRule([x EXCEPT !.capts = v]) /\ [x EXCEPT !.capts = v].name = x.name
         /\ IsRule([x EXCEPT !.codes = v]) /\ [x EXCEPT !.codes = v].name = x.name
         /\ IsRule([x EXCEPT !.preds = v]) /\ [x EXCEPT !.preds = v].name = x.name
<1>1. x = [name |-> x.name, expr |-> x.expr, rvars |-> x.rvars, capts |-> x.capts,
           codes |-> x.codes, preds |-> x.preds]
  BY DEF IsRule
<1>2. /\ [x EXCEPT !.rvars = v] = [name |-> x.name, expr |-> x.expr, rvars |-> v, capts |-> x.capts,
                                   codes |-> x.codes, preds |-> x.preds]
      /\ [x EXCEPT !.capts = v] = [name |-> x.name, expr |-> x.expr, rvars |-> x.rvars, capts |-> v,
                                   codes |-> x.codes, preds |-> x.preds]
      /\ [x EXCEPT !.codes = v] = [name |-> x.name, expr |-> x.expr, rvars |-> x.rvars,
                                   capts |-> x.capts, codes |-> v, preds |-> x.preds]
      /\ [x EXCEPT !.preds = v] = [name |-> x.name, expr |-> x.expr, rvars |-> x.rvars,
                                   capts |-> x.capts, codes |-> x.codes, preds |-> v]
  BY <1>1
<1> QED
  BY <1>2 DEF IsRule

\* The places that are told apart below.
LEMMA PlacesAre ==
  /\ "entry" \in Bare /\ "entry" \notin Waiting /\ "prefix" \in Bare /\ "prefix" \notin Waiting
  /\ "group" \in Bare /\ "group" \in Waiting /\ "quantity" \in Bare /\ "quantity" \in Waiting
  /\ "first" \in Bare /\ "first" \in Waiting
  /\ "capture" \in Holding /\ "capture" \in Waiting /\ "error" \in Holding /\ "error" \notin Waiting
  /\ "second" \in Holding /\ "second" \in Waiting /\ "more" \in Holding /\ "more" \in Waiting
  /\ "sequences" \in Waiting
  /\ \A at \in Bare : at \notin Holding
BY DEF Waiting, Bare, Holding

\* What holds where a function goes on.
LEMMA RunsAt ==
  ASSUME ReadsOn, NEW fn, NEW at, Runs(fn, at)
  PROVE  /\ Top.at = at /\ IsFrame(Top)
         /\ at \in Bare => Top.node = NULL
         /\ at \in Holding => Top.node # NULL /\ Top.node \in Roots
         /\ at \notin Waiting => ret = NULL
         /\ ret # NULL => ret \in Roots /\ ret # Top.node
         /\ Roots = Others \cup ({Top.node, ret} \ {NULL})
         /\ NULL \notin Roots
         /\ IsHeap(heap) /\ Forest(heap, Roots)
         /\ Len(heap) \in Nat /\ New # NULL
         /\ rule.name \in Identifier /\ IsRule(rule)
<1>1. Top.at = at /\ stack # <<>> /\ NodeInv /\ pc = "read"
  BY DEF Runs, ReadsOn
<1>2. /\ IsFrame(Top) /\ NULL \notin Roots
      /\ Top.node \in Roots \cup {NULL} /\ ret \in Roots \cup {NULL}
      /\ Top.node # NULL => Top.node # ret
      /\ ret # NULL => Top.at \in Waiting
      /\ rule.name \in Identifier
  BY <1>1, AtTop
<1>3. IsHeap(heap) /\ Forest(heap, Roots) /\ Len(heap) \in Nat /\ IsRule(rule)
  BY <1>1 DEF NodeInv, IsHeap, Sequence, RulesOK
<1>4. New # NULL
  BY <1>3 DEF New, NULL
<1> QED
  BY <1>1, <1>2, <1>3, <1>4 DEF IsFrame, Others

\* The call at the top fails, with the nodes that it holds destroyed.
LEMMA Fails ==
  ASSUME ReadsOn, Top.at # "expression", NEW h, Fail(h), IsHeap(h), Forest(h, Others)
  PROVE  NodeInv'
<1>1. heap' = h /\ stack' = Front(stack) /\ ret' = NULL
  BY DEF Fail, Return
<1>2. NULL \notin Others /\ Others \cup ({NULL} \ {NULL}) = Others
  BY DEF Others, Roots
<1> QED
  BY <1>1, <1>2, ReturnMoves DEF ReadsOn

\* The call at the top returns a node.
LEMMA Returns ==
  ASSUME ReadsOn, Top.at # "expression", NEW x, NEW w, Return(x, w), x # NULL, x \notin Others,
         IsHeap(heap'), Forest(heap', Others \cup {x})
  PROVE  NodeInv'
<1>1. stack' = Front(stack) /\ ret' = x
  BY DEF Return
<1>2. Others \cup ({x} \ {NULL}) = Others \cup {x}
  OBVIOUS
<1> QED
  BY <1>1, <1>2, ReturnMoves DEF ReadsOn

\* The call at the top calls others.
LEMMA Calls ==
  ASSUME ReadsOn, Top.at # "expression", NEW f, IsFrame(f), f.at # "expression",
         NEW calls, AreCalls(calls), calls # <<>> => f.at \in Waiting, NEW w, Call(f, calls, w),
         f.node \notin Others,
         IsHeap(heap'), Forest(heap', Others \cup ({f.node} \ {NULL}))
  PROVE  NodeInv'
BY CallMoves DEF ReadsOn, Call

\* parse_primary has no node, and nothing has been returned to it.
LEMMA AtEntry ==
  ASSUME ReadsOn, Primary
  PROVE  /\ Top.at = "entry" /\ IsFrame(Top) /\ Top.node = NULL /\ ret = NULL /\ Roots = Others
         /\ IsHeap(heap) /\ Forest(heap, Others) /\ NULL \notin Others /\ New # NULL
<1>1. Runs("primary", "entry")
  BY DEF Primary
<1>2. Top.at = "entry" /\ Top.node = NULL /\ ret = NULL
  BY <1>1, RunsAt, PlacesAre
<1>3. Roots = Others
  BY <1>1, <1>2, RunsAt
<1> QED
  BY <1>1, <1>2, <1>3, RunsAt

\* parse_primary returns a node with nothing below it.
LEMMA Leaves ==
  ASSUME ReadsOn, Primary, NEW x, IsNode(x), x.nodes = <<>>, heap' = Create(heap, x),
         NEW w, Return(New, w)
  PROVE  NodeInv'
<1>1. Len(x.nodes) = 0 /\ Elems(x.nodes) = {} /\ 1 .. Len(x.nodes) = {}
  BY EmptySeq DEF Elems
<1>2. /\ IsHeap(heap') /\ New \notin Others
      /\ Forest(heap', (Others \ Elems(x.nodes)) \cup {New})
  BY <1>1, AtEntry, CreateRoot DEF New
<1>3. (Others \ Elems(x.nodes)) \cup {New} = Others \cup {New}
  BY <1>1
<1> QED
  BY <1>2, <1>3, AtEntry, Returns

\* parse_primary fails at once.
LEMMA FailsAtOnce ==
  ASSUME ReadsOn, Primary, Fail(heap)
  PROVE  NodeInv'
<1>1. Top.at = "entry" /\ IsHeap(heap) /\ Forest(heap, Others)
  BY AtEntry
<1> QED
  BY <1>1, Fails

LEMMA ReferenceStep ==
  ASSUME NodeInv, pc = "read", pc' = "read", Reference
  PROVE  NodeInv'
<1>1. stack # <<>> /\ rules' = rules /\ Primary
  BY DEF Reference, Primary, Runs
<1>2. IsRule(rule) /\ rule.name \in Identifier
  BY <1>1 DEF NodeInv, RulesOK
<1>3. CASE Refers
  <2> DEFINE v == IF Named THEN At(input) ELSE NONE
             x == [Node("REFERENCE", <<>>, At(NameAt)) EXCEPT
                     !.rvar = v, !.index = IF Named THEN IndexOf(v) ELSE VOID]
  <2>1. /\ heap' = Create(heap, x) /\ Return(New, After(NameAt))
        /\ rule' = IF Named /\ ~ Known(v) THEN [rule EXCEPT !.rvars = Append(@, New)] ELSE rule
    BY <1>3 DEF Reference
  <2>2. IsNode(x) /\ x.nodes = <<>>
    <3>1. x = Made("REFERENCE", <<>>, At(NameAt), v, IF Named THEN IndexOf(v) ELSE VOID)
      <4> DEFINE k == IF Named THEN IndexOf(v) ELSE VOID
                 t == At(NameAt)
      <4> HIDE DEF v, k, t
      <4> DEFINE n1 == Made("REFERENCE", <<>>, t, NONE, VOID)
                 n2 == Made("REFERENCE", <<>>, t, v, VOID)
      <4>1. Node("REFERENCE", <<>>, t) = n1
        BY DEF Node, Made
      <4>2. [n1 EXCEPT !.rvar = v] = n2
        BY DEF Made
      <4>3. [n2 EXCEPT !.index = k] = Made("REFERENCE", <<>>, t, v, k)
        BY DEF Made
      <4> HIDE DEF n1, n2
      <4>4. [n1 EXCEPT !.rvar = v, !.index = k] = [[n1 EXCEPT !.rvar = v] EXCEPT !.index = k]
        OBVIOUS
      <4>5. [Node("REFERENCE", <<>>, t) EXCEPT !.rvar = v, !.index = k] = Made("REFERENCE", <<>>, t, v, k)
        BY <4>1, <4>2, <4>3, <4>4
      <4> QED
        BY <4>5 DEF k, t
    <3>2. At(NameAt) \in Identifier
      BY <1>3 DEF Refers
    <3> HIDE DEF x
    <3> QED
      BY <3>1, <3>2, LeafIs
  <2>3. [rule EXCEPT !.rvars = Append(@, New)] = [rule EXCEPT !.rvars = Append(rule.rvars, New)]
    OBVIOUS
  <2>4. IsRule(rule') /\ rule'.name = rule.name
    BY <1>2, <2>1, <2>3, RulesAre
  <2>5. ReadsOn
    BY <1>1, <1>2, <2>4 DEF ReadsOn
  <2> HIDE DEF x
  <2> QED
    BY <1>1, <2>1, <2>2, <2>5, Leaves
<1>4. CASE ~ Refers
  <2>1. Fail(heap) /\ rule' = rule
    BY <1>4 DEF Reference
  <2>2. ReadsOn
    BY <1>1, <1>2, <2>1 DEF ReadsOn
  <2> QED
    BY <1>1, <2>1, <2>2, FailsAtOnce
<1> QED
  BY <1>3, <1>4

LEMMA OperandStep ==
  ASSUME NodeInv, pc = "read", pc' = "read", Operand
  PROVE  NodeInv'
<1>1. stack # <<>> /\ rules' = rules /\ rule' = rule /\ Primary
  BY DEF Operand, Primary, Runs
<1>2. ReadsOn
  BY <1>1 DEF ReadsOn, NodeInv, RulesOK
<1> DEFINE w == After(input)
           t == At(w)
           x == [Node("MATCH_CAPT", <<>>, t) EXCEPT !.index = Dollar(t)]
           y == Node("MATCH_MVAR", <<>>, t)
<1>3. \/ heap' = Create(heap, x) /\ Return(New, After(w))
      \/ heap' = Create(heap, y) /\ Return(New, After(w))
      \/ Fail(heap)
  <2>1. CASE At(input) = "$" /\ t \in Number
    BY <2>1 DEF Operand
  <2>2. CASE At(input) = "@" /\ t \in Identifier /\ ~(At(input) = "$" /\ t \in Number)
    BY <2>2 DEF Operand
  <2>3. CASE ~(At(input) = "@" /\ t \in Identifier) /\ ~(At(input) = "$" /\ t \in Number)
    BY <2>3 DEF Operand
  <2> QED
    BY <2>1, <2>2, <2>3
<1>4. IsNode(x) /\ x.nodes = <<>> /\ IsNode(y) /\ y.nodes = <<>>
  <2>1. x = Made("MATCH_CAPT", <<>>, t, NONE, Dollar(t)) /\ y = Made("MATCH_MVAR", <<>>, t, NONE, VOID)
    BY DEF Node, Made
  <2> HIDE DEF x
  <2> QED
    BY <2>1, LeafIs
<1> HIDE DEF x, y
<1> QED
  BY <1>1, <1>2, <1>3, <1>4, Leaves, FailsAtOnce

LEMMA LiteralStep ==
  ASSUME NodeInv, pc = "read", pc' = "read", Literal
  PROVE  NodeInv'
<1> DEFINE x == Node(LiteralType(At(input)), <<>>, At(input))
<1>1. /\ stack # <<>> /\ rules' = rules /\ rule' = rule /\ Primary
      /\ heap' = Create(heap, x) /\ Return(New, After(input))
  BY DEF Literal, Primary, Runs
<1>2. ReadsOn
  BY <1>1 DEF ReadsOn, NodeInv, RulesOK
<1>3. IsNode(x) /\ x.nodes = <<>>
  <2>1. x = Made(LiteralType(At(input)), <<>>, At(input), NONE, VOID)
    BY DEF Node, Made
  <2>2. LiteralType(At(input)) # "REFERENCE"
    BY DEF LiteralType
  <2> HIDE DEF x
  <2> QED
    BY <2>1, <2>2, LeafIs
<1> HIDE DEF x
<1> QED
  BY <1>1, <1>2, <1>3, Leaves

LEMMA ActionStep ==
  ASSUME NodeInv, pc = "read", pc' = "read", Action
  PROVE  NodeInv'
<1> DEFINE x == [Node("ACTION", <<>>, NONE) EXCEPT !.index = Len(rule.codes)]
<1>1. /\ stack # <<>> /\ rules' = rules /\ Primary
      /\ heap' = Create(heap, x) /\ Return(New, After(input))
      /\ rule' = [rule EXCEPT !.codes = Append(rule.codes, New)]
  BY DEF Action, Primary, Runs
<1>2. IsRule(rule) /\ rule.name \in Identifier
  BY <1>1 DEF NodeInv, RulesOK
<1>3. IsRule(rule') /\ rule'.name = rule.name
  BY <1>1, <1>2, RulesAre
<1>4. ReadsOn
  BY <1>1, <1>2, <1>3 DEF ReadsOn
<1>5. IsNode(x) /\ x.nodes = <<>>
  <2>1. x = Made("ACTION", <<>>, NONE, NONE, Len(rule.codes))
    BY DEF Node, Made
  <2> HIDE DEF x
  <2> QED
    BY <2>1, LeafIs
<1> HIDE DEF x
<1> QED
  BY <1>1, <1>4, <1>5, Leaves

LEMMA NoPrimaryStep ==
  ASSUME NodeInv, pc = "read", pc' = "read", NoPrimary
  PROVE  NodeInv'
<1>1. stack # <<>> /\ rules' = rules /\ rule' = rule /\ Primary /\ Fail(heap)
  BY DEF NoPrimary, Primary, Runs
<1>2. ReadsOn
  BY <1>1 DEF ReadsOn, NodeInv, RulesOK
<1> QED
  BY <1>1, <1>2, FailsAtOnce

LEMMA GroupStep ==
  ASSUME NodeInv, pc = "read", pc' = "read", Group
  PROVE  NodeInv'
<1> DEFINE f == [Top EXCEPT !.at = "group"]
           calls == ExpressionAt(After(input))
<1>1. /\ stack # <<>> /\ rules' = rules /\ rule' = rule /\ heap' = heap /\ Primary
      /\ Call(f, calls, After(input))
  BY DEF Group, Primary, Runs
<1>2. ReadsOn
  BY <1>1 DEF ReadsOn, NodeInv, RulesOK
<1>3. /\ Top.at = "entry" /\ IsFrame(Top) /\ Top.node = NULL /\ ret = NULL /\ Roots = Others
      /\ IsHeap(heap) /\ Forest(heap, Roots) /\ NULL \notin Roots
  BY <1>1, <1>2, AtEntry
<1>4. f = [fn |-> Top.fn, at |-> "group", from |-> Top.from, node |-> NULL, prefix |-> Top.prefix]
  BY <1>3, FramesAre
<1>5. IsFrame(f) /\ f.at = "group" /\ f.node = NULL
  BY <1>4 DEF IsFrame, Bare, Holding
<1>6. AreCalls(calls)
  BY AreFrames
<1>7. "group" \in Waiting
  BY DEF Waiting
<1>8. Others \cup ({NULL} \ {NULL}) = Others
  OBVIOUS
<1> HIDE DEF f, calls
<1> QED
  BY <1>1, <1>2, <1>3, <1>5, <1>6, <1>7, <1>8, Calls

LEMMA GroupEndStep ==
  ASSUME NodeInv, pc = "read", pc' = "read", GroupEnd
  PROVE  NodeInv'
<1>1. stack # <<>> /\ rules' = rules /\ rule' = rule /\ Runs("primary", "group")
  BY DEF GroupEnd, Runs
<1>2. ReadsOn
  BY <1>1 DEF ReadsOn, NodeInv, RulesOK
<1>3. /\ Top.at = "group" /\ Top.node = NULL /\ (ret # NULL => ret \in Roots) /\ NULL \notin Roots
      /\ Roots = Others \cup ({ret} \ {NULL}) /\ IsHeap(heap) /\ Forest(heap, Roots)
  BY <1>1, <1>2, RunsAt, PlacesAre
<1>4. Roots \ {ret} = Others
  BY <1>3 DEF Others
<1>5. CASE ret # NULL /\ At(input) = ")"
  <2>1. Return(ret, After(input)) /\ heap' = heap
    BY <1>5 DEF GroupEnd
  <2>2. Others \cup {ret} = Roots /\ ret \notin Others
    BY <1>3, <1>5 DEF Others
  <2> QED
    BY <1>2, <1>3, <1>5, <2>1, <2>2, Returns
<1>6. CASE ~(ret # NULL /\ At(input) = ")")
  <2>1. Fail(destroy_node(heap, ret))
    BY <1>6 DEF GroupEnd
  <2>2. IsHeap(destroy_node(heap, ret)) /\ Forest(destroy_node(heap, ret), Others)
    BY <1>3, <1>4, DestroyRoot
  <2> QED
    BY <1>2, <1>3, <2>1, <2>2, Fails
<1> QED
  BY <1>5, <1>6

LEMMA CaptureStep ==
  ASSUME NodeInv, pc = "read", pc' = "read", Capture
  PROVE  NodeInv'
<1> DEFINE x == [Node("CAPTURE", <<>>, NONE) EXCEPT !.index = Len(rule.capts)]
           f == [Top EXCEPT !.at = "capture", !.node = New]
           calls == ExpressionAt(After(input))
<1>1. /\ stack # <<>> /\ rules' = rules /\ Primary /\ heap' = Create(heap, x)
      /\ rule' = [rule EXCEPT !.capts = Append(rule.capts, New)]
      /\ Call(f, calls, After(input))
  BY DEF Capture, Primary, Runs
<1>2. IsRule(rule) /\ rule.name \in Identifier
  BY <1>1 DEF NodeInv, RulesOK
<1>3. IsRule(rule') /\ rule'.name = rule.name
  BY <1>1, <1>2, RulesAre
<1>4. ReadsOn
  BY <1>1, <1>2, <1>3 DEF ReadsOn
<1>5. IsNode(x) /\ x.nodes = <<>>
  <2>1. x = Made("CAPTURE", <<>>, NONE, NONE, Len(rule.capts))
    BY DEF Node, Made
  <2> HIDE DEF x
  <2> QED
    BY <2>1, LeafIs
<1> HIDE DEF x
<1>6. Len(x.nodes) = 0 /\ Elems(x.nodes) = {} /\ 1 .. Len(x.nodes) = {}
  BY <1>5, EmptySeq DEF Elems
<1>7. /\ IsHeap(heap') /\ New \notin Others
      /\ Forest(heap', (Others \ Elems(x.nodes)) \cup {New})
  BY <1>1, <1>4, <1>5, <1>6, AtEntry, CreateRoot DEF New
<1>8. New # NULL /\ Top.at = "entry" /\ IsFrame(Top)
  BY <1>1, <1>4, AtEntry
<1>9. (Others \ Elems(x.nodes)) \cup {New} = Others \cup ({New} \ {NULL})
  BY <1>6, <1>8
<1>10. f = [fn |-> Top.fn, at |-> "capture", from |-> Top.from, node |-> New, prefix |-> Top.prefix]
  BY <1>8, FramesAre
<1>11. IsFrame(f) /\ f.at = "capture" /\ f.node = New
  BY <1>8, <1>10 DEF IsFrame, Bare, Holding
<1>12. AreCalls(calls) /\ "capture" \in Waiting
  BY AreFrames, PlacesAre
<1> HIDE DEF f, calls
<1> QED
  BY <1>1, <1>4, <1>7, <1>8, <1>9, <1>11, <1>12, Calls

LEMMA CaptureEndStep ==
  ASSUME NodeInv, pc = "read", pc' = "read", CaptureEnd
  PROVE  NodeInv'
<1> DEFINE h == IF ret = NULL THEN heap ELSE Adopt(heap, Top.node, ret)
           done == ret # NULL /\ At(input) = ">"
           back == GivenBack(rule.capts, heap[Top.node].node.index)
<1>1. /\ stack # <<>> /\ rules' = rules /\ Runs("primary", "capture")
      /\ done => heap' = h /\ Return(Top.node, After(input)) /\ rule' = rule
      /\ ~ done => Fail(destroy_node(h, Top.node)) /\ rule' = [rule EXCEPT !.capts = back]
  BY DEF CaptureEnd, Runs
<1> HIDE DEF done
<1>2. IsRule(rule) /\ rule.name \in Identifier
  BY <1>1 DEF NodeInv, RulesOK
<1>3. IsRule(rule') /\ rule'.name = rule.name
  <2>1. CASE rule' = rule
    BY <1>2, <2>1
  <2>2. CASE rule' = [rule EXCEPT !.capts = back]
    BY <1>2, <2>2, RulesAre
  <2> QED
    BY <1>1, <2>1, <2>2
<1>4. ReadsOn
  BY <1>1, <1>2, <1>3 DEF ReadsOn
<1>5. /\ Top.at = "capture" /\ Top.node # NULL /\ Top.node \in Roots /\ NULL \notin Roots
      /\ IsHeap(heap) /\ Forest(heap, Roots)
      /\ ret # NULL => ret \in Roots /\ ret # Top.node
      /\ Roots = Others \cup ({Top.node, ret} \ {NULL})
  BY <1>1, <1>4, RunsAt, PlacesAre
<1>6. IsHeap(h) /\ Forest(h, Roots \ {ret})
  <2>1. CASE ret = NULL
    <3>1. Roots \ {ret} = Roots
      BY <2>1, <1>5
    <3> QED
      BY <2>1, <3>1, <1>5
  <2>2. CASE ret # NULL
    BY <2>2, <1>5, AdoptRoot
  <2> QED
    BY <2>1, <2>2
<1> HIDE DEF h
<1>7. /\ Roots \ {ret} = Others \cup {Top.node} /\ (Roots \ {ret}) \ {Top.node} = Others
      /\ Top.node \notin Others /\ Top.node \in (Roots \ {ret}) \cup {NULL} /\ NULL \notin Roots \ {ret}
  BY <1>5 DEF Others
<1>8. CASE done
  BY <1>1, <1>4, <1>5, <1>6, <1>7, <1>8, Returns
<1>9. CASE ~ done
  <2>1. IsHeap(destroy_node(h, Top.node)) /\ Forest(destroy_node(h, Top.node), Others)
    BY <1>6, <1>7, DestroyRoot
  <2> QED
    BY <1>1, <1>4, <1>5, <1>9, <2>1, Fails
<1> QED
  BY <1>8, <1>9

LEMMA PrefixStep ==
  ASSUME NodeInv, pc = "read", pc' = "read", Prefix
  PROVE  NodeInv'
<1> DEFINE t == IF At(input) \in {"&", "!"} THEN At(input) ELSE NONE
           w == IF t = NONE THEN input ELSE After(input)
           x == [Node("PROGPRED", <<>>, t) EXCEPT !.index = Len(rule.preds)]
           f == [Top EXCEPT !.at = "error", !.node = New]
           g == [Top EXCEPT !.at = "quantity", !.prefix = t]
           block == t # NONE /\ At(w) \in Code
<1>1. /\ stack # <<>> /\ rules' = rules /\ Runs("term", "prefix")
      /\ block => /\ heap' = Create(heap, x) /\ Call(f, <<>>, After(w))
                  /\ rule' = [rule EXCEPT !.preds = Append(rule.preds, New)]
      /\ ~ block => /\ Call(g, <<Frame("primary", "entry", w)>>, w)
                    /\ heap' = heap /\ rule' = rule
  BY DEF Prefix, Runs
<1> HIDE DEF block, w, t
<1>2. IsRule(rule) /\ rule.name \in Identifier
  BY <1>1 DEF NodeInv, RulesOK
<1>3. IsRule(rule') /\ rule'.name = rule.name
  <2>1. CASE rule' = rule
    BY <1>2, <2>1
  <2>2. CASE rule' = [rule EXCEPT !.preds = Append(rule.preds, New)]
    BY <1>2, <2>2, RulesAre
  <2> QED
    BY <1>1, <2>1, <2>2
<1>4. ReadsOn
  BY <1>1, <1>2, <1>3 DEF ReadsOn
<1>5. /\ Top.at = "prefix" /\ Top.node = NULL /\ ret = NULL /\ IsFrame(Top)
      /\ IsHeap(heap) /\ Forest(heap, Roots) /\ NULL \notin Roots /\ New # NULL
      /\ Roots = Others \cup ({Top.node, ret} \ {NULL})
  BY <1>1, <1>4, RunsAt, PlacesAre
<1>6. Roots = Others
  BY <1>5
<1>7. CASE block
  <2>1. IsNode(x) /\ x.nodes = <<>>
    <3>1. x = Made("PROGPRED", <<>>, t, NONE, Len(rule.preds))
      BY DEF Node, Made
    <3> HIDE DEF x
    <3> QED
      BY <3>1, LeafIs
  <2> HIDE DEF x
  <2>2. Len(x.nodes) = 0 /\ Elems(x.nodes) = {} /\ 1 .. Len(x.nodes) = {}
    BY <2>1, EmptySeq DEF Elems
  <2>3. /\ IsHeap(heap') /\ New \notin Others
        /\ Forest(heap', (Others \ Elems(x.nodes)) \cup {New})
    <3>1. heap' = Create(heap, x) /\ IsHeap(heap) /\ Forest(heap, Others)
      BY <1>1, <1>5, <1>6, <1>7
    <3> QED
      BY <2>1, <2>2, <3>1, CreateRoot DEF New
  <2>4. (Others \ Elems(x.nodes)) \cup {New} = Others \cup ({New} \ {NULL})
    BY <1>5, <2>2
  <2>5. f = [fn |-> Top.fn, at |-> "error", from |-> Top.from, node |-> New, prefix |-> Top.prefix]
    BY <1>5, FramesAre
  <2>6. IsFrame(f) /\ f.at = "error" /\ f.node = New
    BY <1>5, <2>5 DEF IsFrame, Bare, Holding
  <2>7. AreCalls(<<>>)
    BY AreFrames
  <2> HIDE DEF f
  <2> QED
    BY <1>1, <1>4, <1>5, <1>7, <2>3, <2>4, <2>6, <2>7, Calls
<1>8. CASE ~ block
  <2> DEFINE calls == <<Frame("primary", "entry", w)>>
  <2> HIDE DEF calls
  <2>1. g = [fn |-> Top.fn, at |-> "quantity", from |-> Top.from, node |-> NULL, prefix |-> t]
    <3>1. g = [fn |-> Top.fn, at |-> "quantity", from |-> Top.from, node |-> Top.node, prefix |-> t]
      BY <1>5, PrefixedFrame
    <3> QED
      BY <1>5, <3>1
  <2>2. IsFrame(g) /\ g.at = "quantity" /\ g.node = NULL
    BY <2>1 DEF IsFrame, Bare, Holding
  <2>3. AreCalls(calls) /\ "quantity" \in Waiting
    BY AreFrames, PlacesAre DEF calls
  <2>4. Others \cup ({NULL} \ {NULL}) = Others
    OBVIOUS
  <2> HIDE DEF g, calls
  <2>5. Call(g, calls, w) /\ heap' = heap
    BY <1>1, <1>8 DEF calls
  <2> QED
    BY <1>4, <1>5, <1>6, <2>2, <2>3, <2>4, <2>5, Calls
<1> QED
  BY <1>7, <1>8

\* A node around another one takes its place.
LEMMA WrapRoot ==
  ASSUME NEW h, IsHeap(h), NEW R, NEW n, n \notin R, Forest(h, R \cup {n}), n # NULL,
         NEW type, type # "REFERENCE", NEW t
  PROVE  LET w == Wrapped(h, n, type, t)
         IN IsHeap(w.heap) /\ Forest(w.heap, R \cup {w.node}) /\ w.node \notin R /\ w.node # NULL
<1> DEFINE w == Wrapped(h, n, type, t)
<1>1. CASE t = NONE
  BY <1>1 DEF Wrapped
<1>2. CASE t # NONE
  <2> DEFINE s == <<n>>
             x == Node(type, s, t)
  <2>1. w.heap = Create(h, x) /\ w.node = Len(h) + 1
    BY <1>2 DEF Wrapped
  <2>2. n \in Nat /\ Len(h) \in Nat
    <3>1. Len(h) \in Nat /\ n \in Nodes(h)
      BY HeapFacts DEF Forest, Alive
    <3> QED
      BY <3>1 DEF Nodes
  <2>3. s \in Seq(Nat) /\ Len(s) = 1 /\ s[1] = n
    BY <2>2
  <2> HIDE DEF s
  <2>4. IsNode(x) /\ x.nodes = s
    <3>1. x = Made(type, s, t, NONE, VOID)
      BY DEF Node, Made
    <3> HIDE DEF x
    <3> QED
      BY <2>3, <3>1, MadeIs
  <2> HIDE DEF x
  <2>5. /\ \A k \in 1 .. Len(x.nodes) : x.nodes[k] \in R \cup {n}
        /\ \A j, k \in 1 .. Len(x.nodes) : x.nodes[j] = x.nodes[k] => j = k
        /\ Elems(x.nodes) = {n}
    <3>1. 1 .. Len(x.nodes) = {1} /\ x.nodes[1] = n
      <4>1. x.nodes = s /\ Len(s) = 1 /\ s[1] = n
        BY <2>3, <2>4
      <4>2. 1 .. 1 = {1}
        OBVIOUS
      <4> QED
        BY <4>1, <4>2
    <3> QED
      BY <3>1 DEF Elems
  <2>6. /\ IsHeap(Create(h, x)) /\ Len(h) + 1 \notin R \cup {n}
        /\ Forest(Create(h, x), ((R \cup {n}) \ Elems(x.nodes)) \cup {Len(h) + 1})
    BY <2>4, <2>5, CreateRoot
  <2>7. ((R \cup {n}) \ Elems(x.nodes)) \cup {Len(h) + 1} = R \cup {Len(h) + 1}
    BY <2>5
  <2>8. Len(h) + 1 # NULL
    BY <2>2 DEF NULL
  <2> HIDE DEF w
  <2>9. IsHeap(w.heap) /\ Forest(w.heap, R \cup {w.node}) /\ w.node \notin R /\ w.node # NULL
    BY <2>1, <2>6, <2>7, <2>8
  <2> QED
    BY <2>9 DEF w
<1> QED
  BY <1>1, <1>2

LEMMA QuantityStep ==
  ASSUME NodeInv, pc = "read", pc' = "read", Quantity
  PROVE  NodeInv'
<1> DEFINE t == IF At(input) \in {"*", "+", "?"} THEN At(input) ELSE NONE
           u == IF t = NONE THEN input ELSE After(input)
           quantity  == Wrapped(heap, ret, "QUANTITY", t)
           predicate == Wrapped(quantity.heap, quantity.node, "PREDICATE", Top.prefix)
           f == [Top EXCEPT !.at = "error", !.node = predicate.node]
<1>1. /\ stack # <<>> /\ rules' = rules /\ rule' = rule /\ Runs("term", "quantity")
      /\ ret = NULL => Fail(heap)
      /\ ret # NULL => heap' = predicate.heap /\ Call(f, <<>>, u)
  BY DEF Quantity, Runs
<1>2. ReadsOn
  BY <1>1 DEF ReadsOn, NodeInv, RulesOK
<1>3. /\ Top.at = "quantity" /\ Top.node = NULL /\ IsFrame(Top) /\ NULL \notin Roots
      /\ IsHeap(heap) /\ Forest(heap, Roots)
      /\ Roots = Others \cup ({Top.node, ret} \ {NULL})
  BY <1>1, <1>2, RunsAt, PlacesAre
<1>4. CASE ret = NULL
  <2>1. Roots = Others
    BY <1>3, <1>4
  <2> QED
    BY <1>1, <1>2, <1>3, <1>4, <2>1, Fails
<1>5. CASE ret # NULL
  <2>1. ret \notin Others /\ Roots = Others \cup {ret}
    BY <1>3, <1>5 DEF Others
  <2>2. /\ IsHeap(quantity.heap) /\ Forest(quantity.heap, Others \cup {quantity.node})
        /\ quantity.node \notin Others /\ quantity.node # NULL
    <3> HIDE DEF t
    <3>1. "QUANTITY" # "REFERENCE" /\ Forest(heap, Others \cup {ret})
      BY <1>3, <2>1
    <3> QED
      BY <1>3, <1>5, <2>1, <3>1, WrapRoot
  <2> HIDE DEF quantity
  <2>3. /\ IsHeap(predicate.heap) /\ Forest(predicate.heap, Others \cup {predicate.node})
        /\ predicate.node \notin Others /\ predicate.node # NULL
    BY <2>2, WrapRoot
  <2> HIDE DEF predicate
  <2>4. f = [fn |-> Top.fn, at |-> "error", from |-> Top.from, node |-> predicate.node,
             prefix |-> Top.prefix]
    BY <1>3, FramesAre
  <2>5. IsFrame(f) /\ f.at = "error" /\ f.node = predicate.node
    BY <2>3, <2>4 DEF IsFrame, Bare, Holding
  <2>6. AreCalls(<<>>)
    BY AreFrames
  <2>7. Others \cup {predicate.node} = Others \cup ({f.node} \ {NULL})
    BY <2>3, <2>5
  <2>8. heap' = predicate.heap /\ Call(f, <<>>, u)
    BY <1>1, <1>5
  <2> HIDE DEF f, u
  <2> QED
    BY <1>2, <1>3, <2>3, <2>5, <2>6, <2>7, <2>8, Calls
<1> QED
  BY <1>4, <1>5

LEMMA ErrorStep ==
  ASSUME NodeInv, pc = "read", pc' = "read", Error
  PROVE  NodeInv'
<1> DEFINE s == <<Top.node>>
           x == [Node("ERROR", s, NONE) EXCEPT !.index = Len(rule.codes)]
           w == After(After(input))
<1>1. /\ stack # <<>> /\ rules' = rules /\ Runs("term", "error")
      /\ \/ Return(Top.node, input) /\ heap' = heap /\ rule' = rule
         \/ /\ heap' = Create(heap, x) /\ Return(New, w)
            /\ rule' = [rule EXCEPT !.codes = Append(rule.codes, New)]
         \/ Fail(destroy_node(heap, Top.node)) /\ rule' = rule
  <2>1. stack # <<>> /\ rules' = rules /\ Runs("term", "error")
    BY DEF Error, Runs
  <2>2. CASE At(input) # "~"
    BY <2>1, <2>2 DEF Error
  <2>3. CASE At(input) = "~" /\ At(After(input)) \in Code
    BY <2>1, <2>3 DEF Error
  <2>4. CASE At(input) = "~" /\ ~(At(After(input)) \in Code)
    BY <2>1, <2>4 DEF Error
  <2> QED
    BY <2>2, <2>3, <2>4
<1>2. IsRule(rule) /\ rule.name \in Identifier
  BY <1>1 DEF NodeInv, RulesOK
<1>3. IsRule(rule') /\ rule'.name = rule.name
  <2>1. CASE rule' = rule
    BY <1>2, <2>1
  <2>2. CASE rule' = [rule EXCEPT !.codes = Append(rule.codes, New)]
    BY <1>2, <2>2, RulesAre
  <2> QED
    BY <1>1, <2>1, <2>2
<1>4. ReadsOn
  BY <1>1, <1>2, <1>3 DEF ReadsOn
<1>5. /\ Top.at = "error" /\ Top.node # NULL /\ Top.node \in Roots /\ ret = NULL
      /\ IsHeap(heap) /\ Forest(heap, Roots) /\ NULL \notin Roots /\ New # NULL
      /\ Roots = Others \cup ({Top.node, ret} \ {NULL}) /\ Len(heap) \in Nat
  BY <1>1, <1>4, RunsAt, PlacesAre
<1>6. Roots = Others \cup {Top.node} /\ Top.node \notin Others /\ Roots \ {Top.node} = Others
  BY <1>5 DEF Others
<1>7. CASE Return(Top.node, input) /\ heap' = heap
  BY <1>4, <1>5, <1>6, <1>7, Returns
<1>8. CASE heap' = Create(heap, x) /\ Return(New, w)
  <2>1. Top.node \in Nat
    <3>1. Top.node \in Nodes(heap)
      BY <1>5 DEF Forest, Alive
    <3> QED
      BY <3>1, <1>5 DEF Nodes
  <2>2. s \in Seq(Nat) /\ Len(s) = 1 /\ s[1] = Top.node
    BY <2>1
  <2> HIDE DEF s
  <2>3. IsNode(x) /\ x.nodes = s
    <3>1. x = Made("ERROR", s, NONE, NONE, Len(rule.codes))
      BY DEF Node, Made
    <3> HIDE DEF x
    <3> QED
      BY <2>2, <3>1, MadeIs
  <2> HIDE DEF x, w
  <2>4. /\ \A k \in 1 .. Len(x.nodes) : x.nodes[k] \in Roots
        /\ \A j, k \in 1 .. Len(x.nodes) : x.nodes[j] = x.nodes[k] => j = k
        /\ Elems(x.nodes) = {Top.node}
    <3>1. 1 .. Len(x.nodes) = {1} /\ x.nodes[1] = Top.node
      <4>1. x.nodes = s /\ Len(s) = 1 /\ s[1] = Top.node
        BY <2>2, <2>3
      <4>2. 1 .. 1 = {1}
        OBVIOUS
      <4> QED
        BY <4>1, <4>2
    <3> QED
      BY <1>5, <3>1 DEF Elems
  <2>5. IsHeap(heap') /\ New \notin Roots /\ Forest(heap', (Roots \ Elems(x.nodes)) \cup {New})
    BY <1>5, <1>8, <2>3, <2>4, CreateRoot DEF New
  <2>6. (Roots \ Elems(x.nodes)) \cup {New} = Others \cup {New} /\ New \notin Others
    BY <1>6, <2>4, <2>5
  <2> QED
    BY <1>4, <1>5, <1>8, <2>5, <2>6, Returns
<1>9. CASE Fail(destroy_node(heap, Top.node))
  <2>1. IsHeap(destroy_node(heap, Top.node)) /\ Forest(destroy_node(heap, Top.node), Roots \ {Top.node})
    BY <1>5, DestroyRoot
  <2> QED
    BY <1>4, <1>5, <1>6, <1>9, <2>1, Fails
<1> QED
  BY <1>1, <1>7, <1>8, <1>9

LEMMA FirstTermStep ==
  ASSUME NodeInv, pc = "read", pc' = "read", FirstTerm
  PROVE  NodeInv'
<1> DEFINE f == [Top EXCEPT !.at = "second", !.node = ret]
           calls == TermAt(input)
<1>1. /\ stack # <<>> /\ rules' = rules /\ rule' = rule /\ Runs("sequence", "first")
      /\ ret = NULL => Fail(heap)
      /\ ret # NULL => Call(f, calls, input) /\ heap' = heap
  BY DEF FirstTerm, Runs
<1>2. ReadsOn
  BY <1>1 DEF ReadsOn, NodeInv, RulesOK
<1>3. /\ Top.at = "first" /\ Top.node = NULL /\ IsFrame(Top) /\ NULL \notin Roots
      /\ IsHeap(heap) /\ Forest(heap, Roots)
      /\ Roots = Others \cup ({Top.node, ret} \ {NULL})
  BY <1>1, <1>2, RunsAt, PlacesAre
<1>4. Roots = Others \cup ({ret} \ {NULL}) /\ ret \notin Others
  BY <1>3 DEF Others
<1>5. CASE ret = NULL
  <2>1. Roots = Others
    BY <1>4, <1>5
  <2> QED
    BY <1>1, <1>2, <1>3, <1>5, <2>1, Fails
<1>6. CASE ret # NULL
  <2>1. IsFrame(f) /\ f.at = "second" /\ f.node = ret
    <3>1. f = [fn |-> Top.fn, at |-> "second", from |-> Top.from, node |-> ret, prefix |-> Top.prefix]
      BY <1>3, FramesAre
    <3> QED
      BY <1>6, <3>1 DEF IsFrame, Bare, Holding
  <2>2. AreCalls(calls) /\ "second" \in Waiting
    BY AreFrames, PlacesAre
  <2> HIDE DEF f, calls
  <2> QED
    BY <1>1, <1>2, <1>3, <1>4, <1>6, <2>1, <2>2, Calls
<1> QED
  BY <1>5, <1>6

LEMMA SecondTermStep ==
  ASSUME NodeInv, pc = "read", pc' = "read", SecondTerm
  PROVE  NodeInv'
<1> DEFINE s == <<Top.node, ret>>
           x == Node("SEQUENCE", s, NONE)
           f == [Top EXCEPT !.at = "more", !.node = New]
           calls == TermAt(input)
<1>1. /\ stack # <<>> /\ rules' = rules /\ rule' = rule /\ Runs("sequence", "second")
      /\ ret = NULL => Return(Top.node, input) /\ heap' = heap
      /\ ret # NULL => heap' = Create(heap, x) /\ Call(f, calls, input)
  BY DEF SecondTerm, Runs
<1>2. ReadsOn
  BY <1>1 DEF ReadsOn, NodeInv, RulesOK
<1>3. /\ Top.at = "second" /\ Top.node # NULL /\ Top.node \in Roots /\ IsFrame(Top)
      /\ ret # NULL => ret \in Roots /\ ret # Top.node
      /\ IsHeap(heap) /\ Forest(heap, Roots) /\ NULL \notin Roots /\ New # NULL
      /\ Roots = Others \cup ({Top.node, ret} \ {NULL})
  BY <1>1, <1>2, RunsAt, PlacesAre
<1>4. CASE ret = NULL
  <2>1. Roots = Others \cup {Top.node} /\ Top.node \notin Others
    BY <1>3, <1>4 DEF Others
  <2> QED
    BY <1>1, <1>2, <1>3, <1>4, <2>1, Returns
<1>5. CASE ret # NULL
  <2>1. Top.node \in Nat /\ ret \in Nat
    <3>1. Top.node \in Nodes(heap) /\ ret \in Nodes(heap) /\ Len(heap) \in Nat
      BY <1>3, <1>5, HeapFacts DEF Forest, Alive
    <3> QED
      BY <3>1 DEF Nodes
  <2>2. s \in Seq(Nat) /\ Len(s) = 2 /\ s[1] = Top.node /\ s[2] = ret
    BY <2>1
  <2> HIDE DEF s
  <2>3. IsNode(x) /\ x.nodes = s
    <3>1. x = Made("SEQUENCE", s, NONE, NONE, VOID)
      BY DEF Node, Made
    <3> HIDE DEF x
    <3> QED
      BY <2>2, <3>1, MadeIs
  <2> HIDE DEF x
  <2>4. /\ \A k \in 1 .. Len(x.nodes) : x.nodes[k] \in Roots
        /\ \A j, k \in 1 .. Len(x.nodes) : x.nodes[j] = x.nodes[k] => j = k
        /\ Elems(x.nodes) = {Top.node, ret}
    <3>1. 1 .. Len(x.nodes) = {1, 2} /\ x.nodes[1] = Top.node /\ x.nodes[2] = ret
      <4>1. x.nodes = s /\ Len(s) = 2 /\ s[1] = Top.node /\ s[2] = ret
        BY <2>2, <2>3
      <4>2. 1 .. 2 = {1, 2}
        OBVIOUS
      <4> QED
        BY <4>1, <4>2
    <3> QED
      BY <1>3, <1>5, <3>1 DEF Elems
  <2>5. IsHeap(heap') /\ New \notin Roots /\ Forest(heap', (Roots \ Elems(x.nodes)) \cup {New})
    <3>1. heap' = Create(heap, x)
      BY <1>1, <1>5
    <3> QED
      BY <1>3, <2>3, <2>4, <3>1, CreateRoot DEF New
  <2>6. (Roots \ Elems(x.nodes)) \cup {New} = Others \cup ({New} \ {NULL}) /\ New \notin Others
    BY <1>3, <2>4, <2>5 DEF Others
  <2>7. IsFrame(f) /\ f.at = "more" /\ f.node = New
    <3>1. f = [fn |-> Top.fn, at |-> "more", from |-> Top.from, node |-> New, prefix |-> Top.prefix]
      BY <1>3, FramesAre
    <3> QED
      BY <1>3, <3>1 DEF IsFrame, Bare, Holding
  <2>8. AreCalls(calls) /\ "more" \in Waiting
    BY AreFrames, PlacesAre
  <2> HIDE DEF f, calls
  <2> QED
    BY <1>1, <1>2, <1>3, <1>5, <2>5, <2>6, <2>7, <2>8, Calls
<1> QED
  BY <1>4, <1>5

LEMMA NextTermStep ==
  ASSUME NodeInv, pc = "read", pc' = "read", NextTerm
  PROVE  NodeInv'
<1> DEFINE calls == TermAt(input)
<1>1. /\ stack # <<>> /\ rules' = rules /\ rule' = rule /\ Runs("sequence", "more")
      /\ ret = NULL => Return(Top.node, input) /\ heap' = heap
      /\ ret # NULL => heap' = Adopt(heap, Top.node, ret) /\ Call(Top, calls, input)
  BY DEF NextTerm, Runs
<1>2. ReadsOn
  BY <1>1 DEF ReadsOn, NodeInv, RulesOK
<1>3. /\ Top.at = "more" /\ Top.node # NULL /\ Top.node \in Roots /\ IsFrame(Top)
      /\ ret # NULL => ret \in Roots /\ ret # Top.node
      /\ IsHeap(heap) /\ Forest(heap, Roots) /\ NULL \notin Roots
      /\ Roots = Others \cup ({Top.node, ret} \ {NULL})
  BY <1>1, <1>2, RunsAt, PlacesAre
<1>4. Top.node \notin Others /\ Roots \ {ret} = Others \cup {Top.node}
  BY <1>3 DEF Others
<1>5. CASE ret = NULL
  <2>1. Roots = Others \cup {Top.node}
    BY <1>3, <1>5
  <2> QED
    BY <1>1, <1>2, <1>3, <1>4, <1>5, <2>1, Returns
<1>6. CASE ret # NULL
  <2>1. IsHeap(heap') /\ Forest(heap', Roots \ {ret})
    <3>1. heap' = Adopt(heap, Top.node, ret)
      BY <1>1, <1>6
    <3> QED
      BY <1>3, <1>6, <3>1, AdoptRoot
  <2>2. Others \cup ({Top.node} \ {NULL}) = Others \cup {Top.node}
    BY <1>3
  <2>3. AreCalls(calls) /\ "more" \in Waiting
    BY AreFrames, PlacesAre
  <2> HIDE DEF calls
  <2> QED
    BY <1>1, <1>2, <1>3, <1>4, <1>6, <2>1, <2>2, <2>3, Calls
<1> QED
  BY <1>5, <1>6

LEMMA AlternativeStep ==
  ASSUME NodeInv, pc = "read", pc' = "read", Alternative
  PROVE  NodeInv'
<1> DEFINE branch == Branches.node
           f == [Top EXCEPT !.node = branch]
           calls == SequenceAt(After(input))
<1>1. /\ stack # <<>> /\ rules' = rules /\ rule' = rule /\ Runs("expression", "sequences")
      /\ ret = NULL => Fail(destroy_node(heap, Top.node))
      /\ ret # NULL => heap' = Branches.heap
      /\ ret # NULL /\ At(input) = "/" => Call(f, calls, After(input))
      /\ ret # NULL /\ At(input) # "/" => Return(branch, input)
  BY DEF Alternative, Runs
<1>2. ReadsOn
  BY <1>1 DEF ReadsOn, NodeInv, RulesOK
<1>3. /\ Top.at = "sequences" /\ IsFrame(Top)
      /\ ret # NULL => ret \in Roots /\ ret # Top.node
      /\ IsHeap(heap) /\ Forest(heap, Roots) /\ NULL \notin Roots
      /\ Roots = Others \cup ({Top.node, ret} \ {NULL})
  BY <1>1, <1>2, RunsAt, PlacesAre
<1>4. CASE ret = NULL
  <2>1. Roots \ {Top.node} = Others /\ Top.node \in Roots \cup {NULL}
    BY <1>3, <1>4 DEF Others
  <2>2. IsHeap(destroy_node(heap, Top.node)) /\ Forest(destroy_node(heap, Top.node), Others)
    BY <1>3, <2>1, DestroyRoot
  <2> QED
    BY <1>1, <1>2, <1>3, <1>4, <2>2, Fails
<1>5. CASE ret # NULL
  <2>1. /\ IsHeap(heap') /\ Forest(heap', Others \cup {branch})
        /\ branch \notin Others /\ branch # NULL
    <3>1. heap' = Branches.heap /\ ret \notin Others
      BY <1>1, <1>5 DEF Others
    <3>2. CASE Top.node # NULL
      <4>1. Branches = [heap |-> Adopt(heap, Top.node, ret), node |-> Top.node]
        BY <3>2 DEF Branches
      <4>2. branch = Top.node /\ heap' = Adopt(heap, Top.node, ret)
        BY <3>1, <4>1
      <4>3. Roots \ {ret} = Others \cup {Top.node} /\ Top.node \in Roots /\ Top.node \notin Others
        BY <1>3, <1>5, <3>2 DEF Others
      <4>4. IsHeap(heap') /\ Forest(heap', Roots \ {ret})
        BY <1>3, <1>5, <4>2, <4>3, AdoptRoot
      <4> HIDE DEF branch
      <4> QED
        BY <3>2, <4>2, <4>3, <4>4
    <3>3. CASE Top.node = NULL
      <4>1. Roots = Others \cup {ret}
        BY <1>3, <1>5, <3>3
      <4>2. CASE At(input) = "/"
        <5>1. Branches = Wrapped(heap, ret, "ALTERNATE", "/")
          BY <3>3, <4>2 DEF Branches
        <5> DEFINE w == Wrapped(heap, ret, "ALTERNATE", "/")
        <5>2. /\ IsHeap(w.heap) /\ Forest(w.heap, Others \cup {w.node})
              /\ w.node \notin Others /\ w.node # NULL
          <6>1. "ALTERNATE" # "REFERENCE" /\ Forest(heap, Others \cup {ret})
            BY <1>3, <4>1
          <6> QED
            BY <1>3, <1>5, <3>1, <6>1, WrapRoot
        <5> HIDE DEF w
        <5> QED
          BY <3>1, <5>1, <5>2 DEF w
      <4>3. CASE At(input) # "/"
        <5>1. Branches = [heap |-> heap, node |-> ret]
          BY <3>3, <4>3 DEF Branches
        <5>2. branch = ret /\ heap' = heap
          BY <3>1, <5>1
        <5> HIDE DEF branch
        <5> QED
          BY <1>3, <1>5, <3>1, <4>1, <5>2
      <4> QED
        BY <4>2, <4>3
    <3> QED
      BY <3>2, <3>3
  <2> HIDE DEF branch
  <2>2. CASE At(input) = "/"
    <3>1. f = [fn |-> Top.fn, at |-> "sequences", from |-> Top.from, node |-> branch, prefix |-> Top.prefix]
      <4>1. f = [fn |-> Top.fn, at |-> Top.at, from |-> Top.from, node |-> branch, prefix |-> Top.prefix]
        BY <1>3, FramesAre
      <4> QED
        BY <1>3, <4>1
    <3>2. IsFrame(f) /\ f.at = "sequences" /\ f.node = branch
      BY <3>1 DEF IsFrame, Bare, Holding
    <3>3. AreCalls(calls) /\ "sequences" \in Waiting
      BY AreFrames, PlacesAre
    <3>4. Others \cup ({branch} \ {NULL}) = Others \cup {branch}
      BY <2>1
    <3> HIDE DEF f, calls
    <3> QED
      BY <1>1, <1>2, <1>3, <1>5, <2>1, <2>2, <3>2, <3>3, <3>4, Calls
  <2>3. CASE At(input) # "/"
    BY <1>1, <1>2, <1>3, <1>5, <2>1, <2>3, Returns
  <2> QED
    BY <2>2, <2>3
<1> QED
  BY <1>4, <1>5

\* The calls that parse_rule starts with.
LEMMA FirstCalls ==
  ASSUME NEW f, IsFrame(f), f.at = "expression", NEW calls, AreCalls(calls), calls # <<>>
  PROVE  LET s == <<f>> \o calls IN
           /\ Sequence(s) /\ s # <<>>
           /\ \A k \in 1 .. Len(s) : /\ IsFrame(s[k]) /\ s[k].node = NULL
                                     /\ s[k].at = "expression" <=> k = 1
                                     /\ k < Len(s) => s[k].at \in Waiting
<1> DEFINE one == <<f>>
           s == one \o calls
           M == Len(calls)
<1>1. Sequence(one) /\ Len(one) = 1 /\ one[1] = f
  BY DEF Sequence
<1> HIDE DEF one
<1>2. Sequence(calls) /\ M \in Nat
  BY DEF AreCalls, Sequence
<1>3. /\ Sequence(s) /\ Len(s) = Len(one) + Len(calls)
      /\ \A k \in 1 .. Len(one) : s[k] = one[k]
      /\ \A k \in 1 .. Len(calls) : s[Len(one) + k] = calls[k]
  <2>1. Sequence(one) /\ Sequence(calls)
    BY <1>1, <1>2
  <2> QED
    BY ONLY <2>1, Joined
<1>4. f.node = NULL /\ f.at \in Waiting
  BY DEF IsFrame, Bare, Waiting
<1> HIDE DEF s, M
<1>5. ASSUME NEW k \in 1 .. (1 + M)
      PROVE  /\ IsFrame(s[k]) /\ s[k].node = NULL
             /\ s[k].at = "expression" <=> k = 1
             /\ k < 1 + M => s[k].at \in Waiting
  <2>1. CASE k = 1
    <3>1. 1 \in 1 .. 1
      OBVIOUS
    <3>2. s[k] = f
      BY <1>1, <1>3, <2>1, <3>1
    <3> QED
      BY <1>4, <2>1, <3>2
  <2>2. CASE k # 1
    <3>1. k - 1 \in 1 .. M /\ 1 + (k - 1) = k /\ (k < 1 + M => k - 1 < M)
      BY <1>2, <2>2
    <3>2. s[1 + (k - 1)] = calls[k - 1]
      BY <1>1, <1>3, <3>1 DEF M
    <3>3. s[k] = calls[k - 1]
      BY <3>1, <3>2
    <3> QED
      BY <2>2, <3>1, <3>3 DEF AreCalls, M
  <2> QED
    BY <2>1, <2>2
<1>6. Len(s) = 1 + M /\ s # <<>>
  <2>1. Len(s) = 1 + M
    BY <1>1, <1>3 DEF M
  <2>2. 1 + M # 0
    BY <1>2
  <2> QED
    BY <2>1, <2>2, EmptySeq
<1> QED
  BY <1>3, <1>5, <1>6 DEF s, one

LEMMA RuleBeginStep ==
  ASSUME NodeInv, pc = "read", pc' = "read", RuleBegin
  PROVE  NodeInv'
<1>1. /\ stack = <<>> /\ ret' = NULL /\ heap' = heap /\ rules' = rules
      /\ rule' = NewRule(At(input)) /\ At(input) \in Identifier
      /\ stack' = <<Frame("rule", "expression", input)>> \o ExpressionAt(After(Past(After(input))))
  BY DEF RuleBegin, AtFile, Begins
<1>2. ret = NULL
  BY <1>1 DEF NodeInv, StackOK
<1>3. /\ Sequence(stack') /\ stack' # <<>>
      /\ \A k \in 1 .. Len(stack') : /\ IsFrame(stack'[k]) /\ stack'[k].node = NULL
                                     /\ stack'[k].at = "expression" <=> k = 1
                                     /\ k < Len(stack') => stack'[k].at \in Waiting
  <2> DEFINE f == Frame("rule", "expression", input)
             calls == ExpressionAt(After(Past(After(input))))
  <2>1. IsFrame(f) /\ f.at = "expression"
    BY DEF IsFrame, Frame, Bare, Holding
  <2>2. AreCalls(calls) /\ calls # <<>> /\ stack' = <<f>> \o calls
    BY <1>1, AreFrames
  <2> HIDE DEF f, calls
  <2> QED
    BY <2>1, <2>2, FirstCalls
<1>4. StackOK'
  BY <1>1, <1>3 DEF StackOK
<1>5. RulesOK'
  BY <1>1 DEF NodeInv, RulesOK, NewRule, IsRule
<1>6. RulesHeld' = RulesHeld /\ 1 .. Len(stack) = {}
  <2>1. Len(stack) = 0
    BY <1>1, EmptySeq
  <2> QED
    BY <1>1, <2>1 DEF RulesHeld, Rule
<1>7. Roots' = Roots
  <2>1. Roots = {rules[r].expr : r \in RulesHeld} \ {NULL}
    BY <1>2, <1>6 DEF Roots
  <2>2. Roots' = ({stack'[k].node : k \in 1 .. Len(stack')} \cup {ret'} \cup {rules[r].expr : r \in RulesHeld}) \ {NULL}
    BY <1>1, <1>6 DEF Roots
  <2> QED
    BY <1>1, <1>3, <2>1, <2>2
<1>8. Apart'
  BY <1>1, <1>3, <1>6 DEF NodeInv, Apart
<1> QED
  BY <1>1, <1>4, <1>5, <1>6, <1>7, <1>8 DEF NodeInv

\* Nothing but a rule is left behind at the end of parse_rule.
LEMMA AtRule ==
  ASSUME NodeInv, pc = "read", Runs("rule", "expression")
  PROVE  /\ stack # <<>> /\ Len(stack) = 1 /\ Top.node = NULL
         /\ RulesHeld = 1 .. Len(rules) /\ Len(rules) \in Nat
         /\ Roots = ({ret} \cup {rules[r].expr : r \in 1 .. Len(rules)}) \ {NULL}
<1>1. stack # <<>> /\ Top.at = "expression"
  BY DEF Runs
<1>2. Len(stack) \in Nat \ {0} /\ Top = stack[Len(stack)] /\ RulesHeld = 1 .. Len(rules) /\ IsFrame(Top)
  BY <1>1, AtTop
<1>3. Len(stack) = 1
  <2>1. Len(stack) \in 1 .. Len(stack)
    BY <1>2
  <2> QED
    BY <1>1, <1>2, <2>1 DEF NodeInv, StackOK
<1>4. Top.node = NULL
  BY <1>1, <1>2 DEF IsFrame, Bare
<1>5. Len(rules) \in Nat
  BY DEF NodeInv, RulesOK, Sequence
<1>6. {stack[k].node : k \in 1 .. Len(stack)} = {NULL}
  <2>1. 1 .. 1 = {1}
    OBVIOUS
  <2> QED
    BY <1>2, <1>3, <1>4, <2>1
<1> QED
  BY <1>1, <1>2, <1>3, <1>4, <1>5, <1>6 DEF Roots

\* The file goes on with the nodes that rules hold, and no calls.
LEMMA FileGoesOn ==
  ASSUME NodeInv, pc = "read", pc' = "read", stack' = <<>>, ret' = NULL,
         IsRule(rule'), Sequence(rules'), \A r \in 1 .. Len(rules') : rules'[r].name \in Identifier,
         heap' = heap, Roots = {rules'[r].expr : r \in 1 .. Len(rules')},
         \A r \in 1 .. Len(rules') :
            /\ rules'[r].expr # NULL
            /\ \A t \in 1 .. Len(rules') : rules'[r].expr = rules'[t].expr => r = t
  PROVE  NodeInv'
<1>1. StackOK' /\ 1 .. Len(stack') = {}
  <2>1. Len(<<>>) = 0 /\ Sequence(<<>>)
    BY EmptySeq DEF Sequence
  <2> QED
    BY <2>1 DEF StackOK
<1>2. RulesOK'
  BY DEF RulesOK
<1>3. RulesHeld' = 1 .. Len(rules')
  BY DomainOf DEF RulesHeld, Rule
<1>4. Apart'
  BY <1>1, <1>3 DEF Apart
<1>5. Roots' = Roots
  <2>1. Roots' = ({ret'} \cup {rules'[r].expr : r \in 1 .. Len(rules')}) \ {NULL}
    BY <1>1, <1>3 DEF Roots
  <2> QED
    BY <2>1
<1> QED
  BY <1>1, <1>2, <1>3, <1>4, <1>5 DEF NodeInv

LEMMA RuleEndStep ==
  ASSUME NodeInv, pc = "read", pc' = "read", RuleEnd
  PROVE  NodeInv'
<1> DEFINE x == [rule EXCEPT !.expr = ret]
<1>1. /\ Runs("rule", "expression") /\ rule' = NewRule(NONE) /\ heap' = heap
      /\ stack' = <<>> /\ ret' = NULL
      /\ ret = NULL => rules' = rules
      /\ ret # NULL => rules' = Append(rules, x)
  BY DEF RuleEnd, Illegal
<1>2. /\ stack # <<>> /\ RulesHeld = 1 .. Len(rules) /\ Len(rules) \in Nat
      /\ Roots = ({ret} \cup {rules[r].expr : r \in 1 .. Len(rules)}) \ {NULL}
  BY <1>1, AtRule
<1>3. /\ IsRule(rule) /\ rule.name \in Identifier
      /\ Sequence(rules) /\ \A r \in 1 .. Len(rules) : rules[r].name \in Identifier
  BY <1>2 DEF NodeInv, RulesOK
<1>4. \A r \in 1 .. Len(rules) : /\ rules[r].expr # NULL /\ rules[r].expr # ret
                                 /\ \A t \in 1 .. Len(rules) : rules[r].expr = rules[t].expr => r = t
  BY <1>2 DEF NodeInv, Apart
<1>5. IsRule(rule')
  BY <1>1 DEF NewRule, IsRule
<1>6. CASE ret = NULL
  <2>1. Roots = {rules[r].expr : r \in 1 .. Len(rules)}
    BY <1>2, <1>4, <1>6
  <2>2. Roots = {rules'[r].expr : r \in 1 .. Len(rules')} /\ rules' = rules
    BY <1>1, <1>6, <2>1
  <2> QED
    BY <1>1, <1>3, <1>4, <1>5, <1>6, <2>2, FileGoesOn
<1>7. CASE ret # NULL
  <2> DEFINE L == Len(rules)
  <2>1. x.name = rule.name /\ x.expr = ret
    <3>1. x = [name |-> rule.name, expr |-> ret, rvars |-> rule.rvars, capts |-> rule.capts,
               codes |-> rule.codes, preds |-> rule.preds]
      BY <1>3 DEF IsRule
    <3> HIDE DEF x
    <3> QED
      BY <3>1
  <2> HIDE DEF x
  <2>2. /\ Sequence(rules') /\ Len(rules') = L + 1 /\ rules'[L + 1] = x
        /\ \A k \in 1 .. L : rules'[k] = rules[k]
    <3>1. rules' = Append(rules, x)
      BY <1>1, <1>7
    <3>2. /\ Sequence(Append(rules, x)) /\ Len(Append(rules, x)) = Len(rules) + 1
          /\ Append(rules, x)[Len(rules) + 1] = x
          /\ \A k \in 1 .. Len(rules) : Append(rules, x)[k] = rules[k]
      BY <1>3, Appended
    <3> QED
      BY <3>1, <3>2
  <2>3. 1 .. (L + 1) = (1 .. L) \cup {L + 1} /\ L + 1 \notin 1 .. L
    BY <1>2
  <2> HIDE DEF L
  <2>4. \A r \in 1 .. Len(rules') : rules'[r].name \in Identifier
    BY <1>3, <2>1, <2>2, <2>3 DEF L
  <2>5. {rules'[r].expr : r \in 1 .. Len(rules')} = {rules[r].expr : r \in 1 .. L} \cup {ret}
    BY <2>1, <2>2, <2>3
  <2>6. Roots = {rules'[r].expr : r \in 1 .. Len(rules')}
    BY <2>5, <1>2, <1>4, <1>7 DEF L
  <2>7. \A r \in 1 .. Len(rules') :
          /\ rules'[r].expr # NULL
          /\ \A t \in 1 .. Len(rules') : rules'[r].expr = rules'[t].expr => r = t
    BY <1>4, <1>7, <2>1, <2>2, <2>3 DEF L
  <2> QED
    BY <1>1, <1>5, <2>2, <2>4, <2>6, <2>7, FileGoesOn
<1> QED
  BY <1>6, <1>7

LEMMA NoRuleStep ==
  ASSUME NodeInv, pc = "read", pc' = "read", NoRule
  PROVE  NodeInv'
<1>1. stack = <<>> /\ stack' = <<>> /\ ret' = NULL /\ rule' = rule /\ heap' = heap /\ rules' = rules
  BY DEF NoRule, AtFile, Illegal
<1>2. ret = NULL /\ RulesHeld = 1 .. Len(rules) /\ 1 .. Len(stack) = {}
  <2>1. ret = NULL /\ Sequence(rules)
    BY <1>1 DEF NodeInv, StackOK, RulesOK
  <2>2. RulesHeld = 1 .. Len(rules)
    BY <2>1, DomainOf DEF RulesHeld, Rule
  <2>3. Len(stack) = 0
    BY <1>1, EmptySeq
  <2> QED
    BY <2>1, <2>2, <2>3
<1>3. /\ IsRule(rule) /\ Sequence(rules) /\ \A r \in 1 .. Len(rules) : rules[r].name \in Identifier
  BY DEF NodeInv, RulesOK
<1>4. \A r \in 1 .. Len(rules) : /\ rules[r].expr # NULL
                                 /\ \A t \in 1 .. Len(rules) : rules[r].expr = rules[t].expr => r = t
  BY <1>2 DEF NodeInv, Apart
<1>5. Roots = {rules[r].expr : r \in 1 .. Len(rules)}
  BY <1>2, <1>4 DEF Roots
<1> QED
  BY <1>1, <1>3, <1>4, <1>5, FileGoesOn

-----------------------------------------------------------------------------
(* Linking.                                                                 *)

Phases == {"read", "hash", "link", "mark", "unref", "rvars", "capts", "mvars", "done"}

\* The loops, and what they leave to the next one.
PhaseInv ==
  /\ pc \in Phases /\ i \in Nat \ {0}
  /\ used \subseteq Rule
  /\ pc = "read" => i = 1
  /\ pc \in {"read", "hash", "link"} => used = {} /\ walk = <<>>
  /\ pc \in {"hash", "link", "mark", "unref"} => kept = [r \in Rule |-> r]
  /\ Kept => ToSet(kept) = used

\* References are nodes, and have names.
RefsInv ==
  pc # "read" =>
    /\ refs = [r \in Rule |-> refs[r]]
    /\ \A r \in Rule : refs[r] \subseteq Nodes(heap) /\ \A n \in refs[r] : Target(n) \in Identifier

\* The rules that make_rulehash has come to.
Entered(r) == pc # "hash" \/ r < i

\* All slots that are tried for a name before the k-th hold other names.
Passed(nm, k) == \A h \in 0 .. (k - 1) : ~ Stops(nm, h)

\* Each slot holds the first rule with its name, where probing for the name ends.
TableInv ==
  pc \in {"hash", "link"} =>
    /\ rulehash \in [Slot -> Rule \cup {NULL}]
    /\ \A j \in Slot : rulehash[j] # NULL => Entered(rulehash[j])
    /\ \A j \in Slot : \A nm \in Identifier : rulehash[j] # NULL /\ NameOf(rulehash[j]) = nm =>
         rulehash[j] = First(nm) /\ \E k \in Slot : j = Tried(nm, k) /\ Passed(nm, k)
    /\ \A r \in Rule : \A nm \in Identifier : Entered(r) /\ NameOf(r) = nm =>
         \E j \in Slot : rulehash[j] = First(nm)

\* The rule that a reference leads to.
Lead(n) == IF Defined(Target(n)) THEN First(Target(n)) ELSE NULL

\* The rules whose references are linked.
Linked(r) == Unique(r) /\ pc \notin {"read", "hash"} /\ (pc = "link" => r < i)

LinksInv ==
  pc # "read" => link = [r \in Rule |-> [n \in refs[r] |-> IF Linked(r) THEN Lead(n) ELSE NULL]]

\* The rules of which make_rulehash has seen another one with the name.
Repeated(r) == r < i /\ \E t \in Rule : t < i /\ t # r /\ NameOf(t) = NameOf(r)

\* The rules whose references are counted.
Counts(r) ==
  /\ Linked(r)
  /\ pc = "unref" => r \in used \/ r >= i
  /\ Kept => r \in used

Counted == {r \in Rule : Counts(r)}

RefInv ==
  /\ pc = "hash" => ref = [t \in Rule |-> IF Repeated(t) THEN -1 ELSE 0]
  /\ pc \notin {"read", "hash"} =>
       ref = [t \in Rule |-> IF Unique(t) THEN Cardinality(ReferencesTo(t, Counted)) ELSE -1]

\* The walk that marks rules: those used are needed, and what they lead to is used
\* or is still to be met.
IsStep(s, S) == s = [rule |-> s.rule, last |-> s.last] /\ s.rule \in S /\ s.last \in Nat
AreSteps(w, S) == Sequence(w) /\ \A k \in 1 .. Len(w) : IsStep(w[k], S)
ToCome(r, n) == \E k \in 1 .. Len(walk) : walk[k].rule = r /\ n > walk[k].last

MarkInv ==
  pc \notin {"read", "hash", "link"} =>
    /\ NumRules > 0 => 1 \in used
    /\ \A S \in SUBSET Rule : Closed(S) => used \subseteq S
    /\ AreSteps(walk, used)
    /\ pc # "mark" => walk = <<>>
    /\ \A r \in used : \A n \in refs[r] : link[r][n] \in used \cup {NULL} \/ ToCome(r, n)

LinkInv == PhaseInv /\ RefsInv /\ TableInv /\ LinksInv /\ RefInv /\ MarkInv

-----------------------------------------------------------------------------
(* The hash table.                                                          *)

\* The number of slots is a power of two above four times the number of rules.
LEMMA BitsOf ==
  ASSUME NEW x \in Nat
  PROVE  populate_bits(x) \in Nat /\ populate_bits(x) >= x
<1> DEFINE Fits(f) == f = [k \in 0 .. x |-> IF k = 0 THEN 0 ELSE 2 * f[k - 1] + 1]
           ones == CHOOSE f : Fits(f)
           Is(k) == k \in 0 .. x /\ ones[k] >= x /\ \A h \in 0 .. (k - 1) : ones[h] < x
           Double == [n \in Nat |-> 2 * n + 1]
<1>1. PICK f \in [0 .. x -> Nat] : f = [k \in 0 .. x |-> IF k = 0 THEN 0 ELSE Double[f[k - 1]]]
  <2> DEFINE Step == [k \in 1 .. x |-> Double]
  <2>1. Step \in [1 .. x -> [Nat -> Nat]]
    OBVIOUS
  <2> HIDE DEF Double
  <2>2. \E f \in [0 .. x -> Nat] : Iterate(f, x, 0, Step)
    <3> HIDE DEF Step
    <3> QED
      BY <2>1, Iterates
  <2>3. \A k \in 0 .. x : k # 0 => Step[k] = Double
    OBVIOUS
  <2> HIDE DEF Step
  <2> QED
    BY <2>2, <2>3 DEF Iterate
<1>2. Fits(f)
  <2>1. \A k \in 0 .. x : k # 0 => k - 1 \in 0 .. x
    OBVIOUS
  <2>2. \A k \in 0 .. x : k # 0 => Double[f[k - 1]] = 2 * f[k - 1] + 1
    BY <2>1
  <2> HIDE DEF Double
  <2> QED
    BY <1>1, <2>2
<1>3. Fits(ones)
  <2> HIDE DEF Fits
  <2> QED
    BY <1>2
<1> HIDE DEF ones
<1>4. ones[0] = 0 /\ \A k \in 0 .. x : k # x => ones[k + 1] = 2 * ones[k] + 1
  <2>1. \A k \in 0 .. x : k # x => k + 1 \in 0 .. x /\ k + 1 # 0 /\ (k + 1) - 1 = k
    OBVIOUS
  <2>2. 0 \in 0 .. x
    OBVIOUS
  <2> QED
    BY <1>3, <2>1, <2>2
<1>5. \A k \in 0 .. x : ones[k] \in Nat /\ ones[k] >= k
  <2> DEFINE S == {k \in 0 .. x : ones[k] \in Nat /\ ones[k] >= k}
  <2>1. 0 \in S
    BY <1>4
  <2>2. ASSUME NEW k \in 0 .. x, k # x, k \in S
        PROVE  k + 1 \in S
    BY <2>2, <1>4
  <2> HIDE DEF S
  <2>3. \A k \in 0 .. x : k \in S
    BY <2>1, <2>2, Upwards
  <2> QED
    BY <2>3 DEF S
<1>6. \E k \in 0 .. x : Is(k)
  <2> DEFINE S == {k \in 0 .. x : ones[k] >= x}
  <2>1. x \in S /\ S \subseteq Nat
    BY <1>5
  <2> HIDE DEF S
  <2>2. PICK k \in S : \A y \in S : k <= y
    BY <2>1, LeastOf
  <2>3. ASSUME NEW h \in 0 .. (k - 1)
        PROVE  ones[h] < x
    BY <2>2, <1>5 DEF S
  <2> QED
    BY <2>2, <2>3 DEF S
<1>7. populate_bits(x) = ones[CHOOSE k \in 0 .. x : ones[k] >= x /\ \A h \in 0 .. (k - 1) : ones[h] < x]
  BY DEF populate_bits, ones
<1>8. \E k \in 0 .. x : populate_bits(x) = ones[k] /\ ones[k] >= x
  BY <1>6, <1>7
<1> QED
  BY <1>5, <1>8

LEMMA RuleIs ==
  ASSUME NodeInv
  PROVE  /\ NumRules \in Nat /\ Rule = 1 .. NumRules /\ NULL \notin Rule
         /\ \A r \in Rule : NameOf(r) \in Identifier
         /\ Width \in Nat \ {0} /\ Width > NumRules
<1>1. NumRules \in Nat /\ Rule = 1 .. NumRules
  BY DomainOf DEF NodeInv, RulesOK, Sequence, NumRules, Rule
<1>2. \A r \in Rule : NameOf(r) \in Identifier
  BY <1>1 DEF NodeInv, RulesOK, NameOf, NumRules
<1>3. NumRules * 4 \in Nat
  BY <1>1
<1>4. populate_bits(NumRules * 4) \in Nat /\ populate_bits(NumRules * 4) >= NumRules * 4
  BY <1>3, BitsOf
<1>5. Width \in Nat \ {0} /\ Width > NumRules
  BY <1>1, <1>4 DEF Width
<1> QED
  BY <1>1, <1>2, <1>5 DEF NULL

\* Every slot is tried.
LEMMA Remainder ==
  ASSUME NEW W \in Nat \ {0}, NEW H \in Nat
  PROVE  /\ H % W \in 0 .. (W - 1)
         /\ \A s \in 0 .. (W - 1) : \E k \in 0 .. (W - 1) : (H + k) % W = s
<1>1. H % W \in 0 .. (W - 1) /\ H = W * (H \div W) + (H % W) /\ H \div W \in Nat
  OBVIOUS
<1>2. \A q \in Nat : \A r \in 0 .. (W - 1) : (W * q + r) % W = r
  OBVIOUS
<1>3. PICK h \in 0 .. (W - 1), q \in Nat : H = W * q + h
  BY <1>1
<1>4. ASSUME NEW s \in 0 .. (W - 1)
      PROVE  \E k \in 0 .. (W - 1) : (H + k) % W = s
  <2>1. CASE s >= h
    <3>1. s - h \in 0 .. (W - 1) /\ H + (s - h) = W * q + s
      BY <1>3, <2>1
    <3>2. (H + (s - h)) % W = s
      BY <1>2, <3>1
    <3> QED
      BY <3>1, <3>2
  <2>2. CASE s < h
    <3>1. s - h + W \in 0 .. (W - 1) /\ H + (s - h + W) = W * (q + 1) + s /\ q + 1 \in Nat
      BY <1>3, <2>2
    <3>2. (H + (s - h + W)) % W = s
      BY <1>2, <3>1
    <3> QED
      BY <3>1, <3>2
  <2> QED
    BY <2>1, <2>2
<1> QED
  BY <1>1, <1>4

LEMMA TriedIs ==
  ASSUME NodeInv, NEW nm \in Identifier
  PROVE  /\ \A k \in Nat : Tried(nm, k) \in Slot
         /\ \A s \in Slot : \E k \in Slot : Tried(nm, k) = s
<1>1. Width \in Nat \ {0} /\ Hash[nm] \in Nat
  BY RuleIs, HashAssumption
<1>2. ASSUME NEW k \in Nat
      PROVE  Tried(nm, k) \in Slot
  <2>1. Hash[nm] + k \in Nat
    BY <1>1
  <2> QED
    BY <1>1, <2>1, Remainder DEF Tried, Slot
<1> QED
  BY <1>1, <1>2, Remainder DEF Tried, Slot

\* Probing ends, if a slot is free.
LEMMA ProbeIs ==
  ASSUME NodeInv, NEW nm \in Identifier, \E s \in Slot : rulehash[s] = NULL
  PROVE  \E k \in Slot : Probe(nm) = Tried(nm, k) /\ Stops(nm, k) /\ Passed(nm, k)
<1> DEFINE S == {k \in Slot : Stops(nm, k)}
<1>1. Slot \subseteq Nat /\ \A k \in Slot : \A h \in 0 .. (k - 1) : h \in Slot /\ ~(k <= h)
  BY RuleIs DEF Slot
<1>2. S # {}
  <2>1. PICK s \in Slot : rulehash[s] = NULL
    OBVIOUS
  <2>2. PICK k \in Slot : Tried(nm, k) = s
    BY TriedIs
  <2> QED
    BY <2>1, <2>2 DEF Stops
<1>3. PICK k \in S : \A y \in S : k <= y
  <2>1. S \subseteq Nat
    BY <1>1
  <2> HIDE DEF S
  <2> QED
    BY <1>2, <2>1, LeastOf
<1>4. k \in Slot /\ Stops(nm, k) /\ \A h \in 0 .. (k - 1) : ~ Stops(nm, h)
  BY <1>1, <1>3
<1> DEFINE Is(m) == Stops(nm, m) /\ \A h \in 0 .. (m - 1) : ~ Stops(nm, h)
           c == CHOOSE m \in Slot : Is(m)
<1>5. c \in Slot /\ Is(c)
  <2>1. \E m \in Slot : Is(m)
    BY <1>4
  <2> HIDE DEF Is
  <2> QED
    BY <2>1
<1>6. Probe(nm) = Tried(nm, c)
  BY DEF Probe
<1> HIDE DEF c
<1> QED
  BY <1>5, <1>6 DEF Passed

-----------------------------------------------------------------------------
(* Definitions.                                                             *)

LEMMA FirstIs ==
  ASSUME NodeInv, NEW nm, Defined(nm)
  PROVE  /\ First(nm) \in Rule /\ First(nm) # NULL /\ NameOf(First(nm)) = nm
         /\ \A t \in Rule : NameOf(t) = nm => First(nm) <= t
<1>1. Definitions(nm) # {} /\ Definitions(nm) \subseteq Nat /\ NULL \notin Rule
  BY RuleIs DEF Defined, Definitions
<1>2. First(nm) \in Definitions(nm) /\ \A t \in Definitions(nm) : First(nm) <= t
  BY <1>1, MinOf DEF First
<1> QED
  BY <1>1, <1>2 DEF Definitions

LEMMA UniqueIs ==
  ASSUME NodeInv, NEW r \in Rule
  PROVE  /\ Defined(NameOf(r))
         /\ Unique(r) <=> \A t \in Rule : NameOf(t) = NameOf(r) => t = r
         /\ Unique(r) => First(NameOf(r)) = r
<1>1. Defined(NameOf(r))
  BY DEF Defined, Definitions
<1>2. Unique(r) <=> \A t \in Rule : NameOf(t) = NameOf(r) => t = r
  BY DEF Unique, Definitions
<1> QED
  BY <1>1, <1>2, FirstIs

LEMMA LeadIs ==
  ASSUME NodeInv, NEW n
  PROVE  /\ Lead(n) \in Rule \cup {NULL}
         /\ Lead(n) # NULL <=> Defined(Target(n))
         /\ \A t \in Rule : Unique(t) => (Lead(n) = t <=> Target(n) = NameOf(t))
<1>1. CASE Defined(Target(n))
  <2>1. Lead(n) = First(Target(n))
    BY <1>1 DEF Lead
  <2>2. First(Target(n)) \in Rule /\ First(Target(n)) # NULL /\ NameOf(First(Target(n))) = Target(n)
    BY <1>1, FirstIs
  <2> QED
    BY <1>1, <2>1, <2>2, UniqueIs
<1>2. CASE ~ Defined(Target(n))
  <2>1. Lead(n) = NULL
    BY <1>2 DEF Lead
  <2>2. \A t \in Rule : t # NULL /\ Target(n) # NameOf(t)
    BY <1>2, RuleIs, UniqueIs
  <2> QED
    BY <1>2, <2>1, <2>2
<1> QED
  BY <1>1, <1>2

\* A rule is in one slot, and so a slot is free: there are more slots than rules.
LEMMA SlotFree ==
  ASSUME NodeInv, TableInv, pc \in {"hash", "link"}
  PROVE  \E s \in Slot : rulehash[s] = NULL
<1> SUFFICES ASSUME \A s \in Slot : rulehash[s] # NULL
             PROVE  FALSE
  OBVIOUS
<1>1. NumRules \in Nat /\ Rule = 1 .. NumRules /\ Width \in Nat \ {0} /\ Width > NumRules
  BY RuleIs
<1>2. rulehash \in [Slot -> Rule \cup {NULL}]
  BY DEF TableInv
<1>3. rulehash \in [Slot -> Rule]
  BY <1>2
<1>4. IsFiniteSet(Rule) /\ Cardinality(Rule) = NumRules
  <2>1. /\ IsFiniteSet(1 .. NumRules)
        /\ Cardinality(1 .. NumRules) = IF 1 > NumRules THEN 0 ELSE NumRules - 1 + 1
    BY <1>1, FS_Interval
  <2>2. (IF 1 > NumRules THEN 0 ELSE NumRules - 1 + 1) = NumRules
    BY <1>1
  <2> QED
    BY <1>1, <2>1, <2>2
<1>5. IsFiniteSet(Slot) /\ Cardinality(Slot) = Width
  <2>1. 0 \in Int /\ Width - 1 \in Int
    BY <1>1
  <2>2. /\ IsFiniteSet(0 .. (Width - 1))
        /\ Cardinality(0 .. (Width - 1)) = IF 0 > Width - 1 THEN 0 ELSE (Width - 1) - 0 + 1
    BY <2>1, FS_Interval
  <2>3. (IF 0 > Width - 1 THEN 0 ELSE (Width - 1) - 0 + 1) = Width
    BY <1>1
  <2> QED
    BY <2>2, <2>3 DEF Slot
<1>6. Cardinality(Rule) < Cardinality(Slot)
  BY <1>1, <1>4, <1>5
<1>7. PICK a, b \in Slot : a # b /\ rulehash[a] = rulehash[b]
  BY <1>3, <1>4, <1>5, <1>6, FS_PigeonHole
<1> DEFINE r == rulehash[a]
           nm == NameOf(r)
<1>8. r # NULL /\ nm \in Identifier
  BY <1>3, RuleIs
<1>9. PICK k \in Slot : a = Tried(nm, k) /\ Passed(nm, k)
  BY <1>8 DEF TableInv
<1>10. PICK m \in Slot : b = Tried(nm, m) /\ Passed(nm, m)
  BY <1>7, <1>8 DEF TableInv
<1>11. Stops(nm, k) /\ Stops(nm, m)
  BY <1>7, <1>9, <1>10 DEF Stops
<1>12. k = m \/ k \in 0 .. (m - 1) \/ m \in 0 .. (k - 1)
  BY <1>1 DEF Slot
<1> QED
  BY <1>7, <1>9, <1>10, <1>11, <1>12 DEF Passed

\* A name is found if a rule with it has been entered, and then the first one.
LEMMA Lookup ==
  ASSUME NodeInv, TableInv, pc \in {"hash", "link"}, NEW nm \in Identifier
  PROVE  /\ lookup_rulehash(nm) = NULL => \A r \in Rule : Entered(r) => NameOf(r) # nm
         /\ lookup_rulehash(nm) # NULL =>
              Defined(nm) /\ lookup_rulehash(nm) = First(nm) /\ Entered(First(nm))
         /\ \E k \in Slot : Probe(nm) = Tried(nm, k) /\ Stops(nm, k) /\ Passed(nm, k)
<1>1. PICK k \in Slot : Probe(nm) = Tried(nm, k) /\ Stops(nm, k) /\ Passed(nm, k)
  BY SlotFree, ProbeIs
<1>2. lookup_rulehash(nm) = rulehash[Tried(nm, k)]
  BY <1>1 DEF lookup_rulehash
<1>3. Tried(nm, k) \in Slot /\ Slot \subseteq Nat
  BY TriedIs, RuleIs DEF Slot
<1>4. ASSUME lookup_rulehash(nm) = NULL, NEW r \in Rule, Entered(r), NameOf(r) = nm
      PROVE  FALSE
  <2>1. PICK j \in Slot : rulehash[j] = First(nm)
    BY <1>4 DEF TableInv
  <2>2. Defined(nm)
    BY <1>4, UniqueIs
  <2>3. rulehash[j] # NULL /\ NameOf(rulehash[j]) = nm
    BY <2>1, <2>2, FirstIs
  <2>4. PICK m \in Slot : j = Tried(nm, m) /\ Passed(nm, m)
    BY <2>3 DEF TableInv
  <2>5. Stops(nm, m)
    BY <2>3, <2>4 DEF Stops
  <2>6. k = m \/ k \in 0 .. (m - 1) \/ m \in 0 .. (k - 1)
    BY <1>3
  <2>7. k = m
    BY <1>1, <2>4, <2>5, <2>6 DEF Passed
  <2> QED
    BY <1>2, <1>4, <2>3, <2>4, <2>7
<1>5. ASSUME lookup_rulehash(nm) # NULL
      PROVE  Defined(nm) /\ lookup_rulehash(nm) = First(nm) /\ Entered(First(nm))
  <2> DEFINE r == lookup_rulehash(nm)
  <2>1. NameOf(r) = nm
    BY <1>1, <1>2, <1>5 DEF Stops
  <2>2. r \in Rule /\ Entered(r) /\ r = First(NameOf(r))
    BY <1>2, <1>3, <1>5, <2>1 DEF TableInv
  <2>3. Defined(nm)
    BY <2>1, <2>2, UniqueIs
  <2> HIDE DEF r
  <2> QED
    BY <2>1, <2>2, <2>3 DEF r
<1> QED
  BY <1>1, <1>4, <1>5

\* DefinitionFound is what the table says.
LEMMA Finds ==
  ASSUME NodeInv, TableInv
  PROVE  DefinitionFound
<1> SUFFICES ASSUME pc \in {"hash", "link"}, NEW nm \in Identifier
             PROVE  LET entered == {r \in Definitions(nm) : pc # "hash" \/ r < i}
                    IN lookup_rulehash(nm) = IF entered = {} THEN NULL ELSE First(nm)
  BY DEF DefinitionFound
<1> DEFINE entered == {r \in Definitions(nm) : pc # "hash" \/ r < i}
<1>1. entered = {r \in Rule : NameOf(r) = nm /\ Entered(r)}
  BY DEF Definitions, Entered
<1>2. CASE lookup_rulehash(nm) = NULL
  <2>1. \A r \in Rule : Entered(r) => NameOf(r) # nm
    BY <1>2, Lookup
  <2>2. entered = {}
    BY <1>1, <2>1
  <2> HIDE DEF entered
  <2> QED
    BY <1>2, <2>2 DEF entered
<1>3. CASE lookup_rulehash(nm) # NULL
  <2>1. Defined(nm) /\ lookup_rulehash(nm) = First(nm) /\ Entered(First(nm))
    BY <1>3, Lookup
  <2>2. First(nm) \in Rule /\ NameOf(First(nm)) = nm
    BY <2>1, FirstIs
  <2>3. entered # {}
    BY <1>1, <2>1, <2>2
  <2> HIDE DEF entered
  <2> QED
    BY <2>1, <2>3 DEF entered
<1> QED
  BY <1>2, <1>3

-----------------------------------------------------------------------------
(* What the steps behind reading leave as it is.                            *)

\* Compact frees nodes and changes nothing in them.
Fixed ==
  /\ rules' = rules /\ refs' = refs /\ DOMAIN heap' = DOMAIN heap
  /\ \A n \in DOMAIN heap : heap'[n].node = heap[n].node

LEMMA Still ==
  ASSUME Fixed
  PROVE  /\ Rule' = Rule /\ NumRules' = NumRules /\ Slot' = Slot
         /\ \A nm : First(nm)' = First(nm) /\ (Defined(nm)' <=> Defined(nm))
         /\ \A r : NameOf(r)' = NameOf(r) /\ (Unique(r)' <=> Unique(r))
         /\ \A n \in DOMAIN heap : Target(n)' = Target(n) /\ Lead(n)' = Lead(n)
<1>1. rules' = rules
  BY DEF Fixed
<1>2. Rule' = Rule /\ NumRules' = NumRules /\ \A r : NameOf(r)' = NameOf(r)
  BY <1>1 DEF Rule, NumRules, NameOf
<1>3. Slot' = Slot
  BY <1>2 DEF Slot, Width
<1>4. \A nm : Definitions(nm)' = Definitions(nm)
  BY <1>1 DEF Definitions, Rule, NameOf
<1>5. \A nm : First(nm)' = First(nm) /\ (Defined(nm)' <=> Defined(nm))
  BY <1>4 DEF First, Defined
<1>6. \A r : Unique(r)' <=> Unique(r)
  <2> SUFFICES ASSUME NEW r
               PROVE  Unique(r)' <=> Unique(r)
    OBVIOUS
  <2>1. Definitions(NameOf(r))' = Definitions(NameOf(r))
    BY <1>1 DEF Definitions, Rule, NameOf
  <2> QED
    BY <2>1 DEF Unique
<1>7. ASSUME NEW n \in DOMAIN heap
      PROVE  Target(n)' = Target(n) /\ Lead(n)' = Lead(n)
  <2>1. Target(n)' = Target(n)
    BY DEF Fixed, Target
  <2>2. Definitions(Target(n))' = Definitions(Target(n))
    BY <1>1, <2>1 DEF Definitions, Rule, NameOf
  <2>3. First(Target(n))' = First(Target(n)) /\ (Defined(Target(n))' <=> Defined(Target(n)))
    BY <2>2 DEF First, Defined
  <2> QED
    BY <2>1, <2>3 DEF Lead
<1> QED
  BY <1>2, <1>3, <1>5, <1>6, <1>7

\* The rules that a rule leads to.
LEMMA LeadsToIs ==
  ASSUME NodeInv, NEW r \in Rule, Unique(r)
  PROVE  \A t : t \in LeadsTo(r) <=> t # NULL /\ \E n \in refs[r] : Lead(n) = t
<1>1. LeadsTo(r) = {First(Target(n)) : n \in {m \in refs[r] : Defined(Target(m))}}
  BY DEF LeadsTo
<1>2. \A n \in refs[r] : (Lead(n) # NULL <=> Defined(Target(n))) /\ (Defined(Target(n)) => Lead(n) = First(Target(n)))
  BY LeadIs DEF Lead
<1> QED
  BY <1>1, <1>2

LEMMA StillClosed ==
  ASSUME Fixed, RefsInv, pc # "read", IsHeap(heap)
  PROVE  /\ \A S : S \subseteq Rule => (Closed(S)' <=> Closed(S))
         /\ \A t, S : S \subseteq Rule => ReferencesTo(t, S)' = ReferencesTo(t, S)
<1>1. \A r \in Rule : refs[r] \subseteq DOMAIN heap
  BY HeapFacts DEF RefsInv
<1>2. refs' = refs /\ DOMAIN heap' = DOMAIN heap
  BY DEF Fixed
<1>3. ASSUME NEW r \in Rule
      PROVE  LeadsTo(r)' = LeadsTo(r)
  <2>1. Unique(r)' <=> Unique(r)
    BY Still
  <2>2. \A m \in refs[r] : First(Target(m))' = First(Target(m)) /\ (Defined(Target(m))' <=> Defined(Target(m)))
    <3> SUFFICES ASSUME NEW n \in refs[r]
                 PROVE  First(Target(n))' = First(Target(n)) /\ (Defined(Target(n))' <=> Defined(Target(n)))
      OBVIOUS
    <3>1. Target(n)' = Target(n) /\ rules' = rules
      BY <1>1, Still DEF Fixed
    <3>2. Definitions(Target(n))' = Definitions(Target(n))
      BY <3>1 DEF Definitions, Rule, NameOf
    <3> QED
      BY <3>2 DEF First, Defined
  <2> QED
    BY <1>2, <2>1, <2>2 DEF LeadsTo
<1>4. \A S : S \subseteq Rule => (Closed(S)' <=> Closed(S))
  <2> SUFFICES ASSUME NEW S, S \subseteq Rule
               PROVE  Closed(S)' <=> Closed(S)
    OBVIOUS
  <2>1. NumRules' = NumRules /\ \A r \in S : LeadsTo(r)' = LeadsTo(r)
    BY <1>3, Still
  <2> QED
    BY <2>1 DEF Closed
<1>5. ASSUME NEW t, NEW S, S \subseteq Rule
      PROVE  ReferencesTo(t, S)' = ReferencesTo(t, S)
  <2>1. NameOf(t)' = NameOf(t) /\ \A n \in DOMAIN heap : Target(n)' = Target(n)
    BY Still
  <2>2. \A p \in S \X DOMAIN heap : p[2] \in DOMAIN heap
    OBVIOUS
  <2>3. \A p \in S \X DOMAIN heap : Target(p[2])' = Target(p[2])
    BY <2>2 DEF Target, Fixed
  <2> QED
    BY <1>2, <2>1, <2>2, <2>3 DEF ReferencesTo
<1> QED
  BY <1>4, <1>5

-----------------------------------------------------------------------------
(* Counting references.                                                     *)

\* The references of r to t.
From(r, t) == {n \in refs[r] : Target(n) = NameOf(t)}

\* The references to t in one rule more.
LEMMA OneMore ==
  ASSUME NodeInv, RefsInv, pc # "read", NEW t, NEW S \in SUBSET Rule, NEW r \in Rule, r \notin S
  PROVE  /\ Cardinality(ReferencesTo(t, S)) \in Nat /\ Cardinality(From(r, t)) \in Nat
         /\ Cardinality(ReferencesTo(t, S \cup {r})) =
              Cardinality(ReferencesTo(t, S)) + Cardinality(From(r, t))
<1> DEFINE A == ReferencesTo(t, S)
           B == {r} \X From(r, t)
<1>1. refs[r] \subseteq DOMAIN heap /\ IsFiniteSet(DOMAIN heap)
  <2>1. DOMAIN heap = 1 .. Len(heap) /\ Len(heap) \in Nat
    BY HeapFacts DEF NodeInv, Nodes
  <2>2. IsFiniteSet(1 .. Len(heap))
    BY <2>1, FS_Interval
  <2> QED
    BY <2>1, <2>2 DEF RefsInv, Nodes
<1>2. IsFiniteSet(Rule)
  BY RuleIs, FS_Interval
<1>3. IsFiniteSet(S \X DOMAIN heap)
  BY <1>1, <1>2, FS_Subset, FS_Product
<1>4. IsFiniteSet(A) /\ Cardinality(A) \in Nat
  <2>1. A \in SUBSET (S \X DOMAIN heap)
    BY DEF ReferencesTo
  <2> HIDE DEF A
  <2>2. IsFiniteSet(A)
    BY <1>3, <2>1, FS_Subset
  <2> QED
    BY <2>2, FS_CardinalityType
<1>5. IsFiniteSet(From(r, t)) /\ Cardinality(From(r, t)) \in Nat
  <2>1. From(r, t) \in SUBSET DOMAIN heap
    BY <1>1 DEF From
  <2>2. IsFiniteSet(From(r, t))
    BY <1>1, <2>1, FS_Subset
  <2> QED
    BY <2>2, FS_CardinalityType
<1>6. IsFiniteSet(B) /\ Cardinality(B) = Cardinality(From(r, t))
  <2>1. IsFiniteSet({r}) /\ Cardinality({r}) = 1
    BY FS_Singleton
  <2>2. IsFiniteSet({r} \X From(r, t)) /\ Cardinality({r} \X From(r, t)) = Cardinality({r}) * Cardinality(From(r, t))
    BY <1>5, <2>1, FS_Product
  <2>3. \A n \in Nat : 1 * n = n
    OBVIOUS
  <2> QED
    BY <1>5, <2>1, <2>2, <2>3
<1>7. ReferencesTo(t, S \cup {r}) = A \cup B
  BY <1>1 DEF ReferencesTo, From
<1>8. A \cap B = {}
  BY DEF ReferencesTo
<1> HIDE DEF A, B
<1>9. Cardinality(A \cup B) = Cardinality(A) + Cardinality(B)
  <2>1. Cardinality(A \cup B) = Cardinality(A) + Cardinality(B) - Cardinality(A \cap B)
    BY <1>4, <1>6, FS_Union
  <2>2. Cardinality({}) = 0
    BY FS_EmptySet
  <2>3. \A a, b \in Nat : a + b - 0 = a + b
    OBVIOUS
  <2> QED
    BY <1>4, <1>5, <1>6, <1>8, <2>1, <2>2, <2>3
<1> QED
  BY <1>4, <1>5, <1>6, <1>7, <1>9 DEF A

\* How often the references of a rule lead to t.
LEMMA TimesIs ==
  ASSUME NodeInv, NEW r, NEW l, \A n \in refs[r] : l[n] = Lead(n), NEW t \in Rule, Unique(t)
  PROVE  Times(r, l, t) = Cardinality(From(r, t))
<1>1. {n \in refs[r] : l[n] = t} = From(r, t)
  BY LeadIs DEF From
<1> QED
  BY <1>1 DEF Times

-----------------------------------------------------------------------------
(* The steps behind reading.                                                *)

\* The nodes and rules stay as they are.
LEMMA NodesStay ==
  ASSUME NodeInv, rules' = rules, rule' = rule, heap' = heap, stack' = stack, ret' = ret,
         stack = <<>>, RulesHeld' = RulesHeld
  PROVE  NodeInv'
<1>1. Roots' = Roots
  BY DEF Roots
<1>2. Apart' /\ StackOK' /\ RulesOK' /\ (RulesHeld \subseteq 1 .. Len(rules))'
  BY DEF NodeInv, Apart, StackOK, RulesOK, Top, Last
<1> QED
  BY <1>1, <1>2 DEF NodeInv

\* So do the references and what they are linked to.
LEMMA RefsStay ==
  ASSUME NodeInv, Fixed, RefsInv, pc # "read"
  PROVE  RefsInv'
<1>1. /\ refs' = refs /\ Rule' = Rule /\ DOMAIN heap' = DOMAIN heap /\ refs = [r \in Rule |-> refs[r]]
      /\ \A r \in Rule : refs[r] \subseteq DOMAIN heap
  BY HeapFacts, Still DEF Fixed, RefsInv, NodeInv
<1>2. Len(heap') = Len(heap) => Nodes(heap') = DOMAIN heap
  BY HeapFacts DEF NodeInv, Nodes
<1> QED
  BY <1>1, <1>2, Still DEF RefsInv

LEMMA LinksStay ==
  ASSUME NodeInv, Fixed, RefsInv, LinksInv, pc # "read", link' = link,
         \A r \in Rule : Linked(r)' <=> Linked(r)
  PROVE  LinksInv'
<1>1. /\ refs' = refs /\ Rule' = Rule
      /\ \A r \in Rule : refs[r] \subseteq DOMAIN heap
  BY HeapFacts, Still DEF Fixed, RefsInv, NodeInv
<1>2. \A r \in Rule : \A n \in refs[r] : Lead(n)' = Lead(n)
  BY <1>1, Still
<1> QED
  BY <1>1, <1>2 DEF LinksInv

\* The counts are those of the references in S.
LEMMA CountsAre ==
  ASSUME NodeInv, Fixed, RefsInv, pc # "read", pc' \notin {"read", "hash"},
         NEW S \in SUBSET Rule, Counted' = S,
         ref' = [t \in Rule |-> IF Unique(t) THEN Cardinality(ReferencesTo(t, S)) ELSE -1]
  PROVE  RefInv'
<1>1. \A t : ReferencesTo(t, Counted)' = ReferencesTo(t, S)
  <2> SUFFICES ASSUME NEW t
               PROVE  ReferencesTo(t, Counted)' = ReferencesTo(t, S)
    OBVIOUS
  <2>1. NameOf(t)' = NameOf(t) /\ refs' = refs /\ DOMAIN heap' = DOMAIN heap
    BY Still DEF Fixed
  <2>2. \A p \in S \X DOMAIN heap : p[2] \in DOMAIN heap
    OBVIOUS
  <2>3. \A p \in S \X DOMAIN heap : Target(p[2])' = Target(p[2])
    BY <2>2 DEF Target, Fixed
  <2> QED
    BY <2>1, <2>2, <2>3 DEF ReferencesTo
<1>2. Rule' = Rule /\ \A t : Unique(t)' <=> Unique(t)
  BY Still
<1> QED
  BY <1>1, <1>2 DEF RefInv

LEMMA MarkStays ==
  ASSUME NodeInv, Fixed, RefsInv, MarkInv, pc \notin {"read", "hash", "link"},
         used' = used, walk' = walk, link' = link, used \subseteq Rule,
         pc' # "mark" => walk = <<>>
  PROVE  MarkInv'
<1>1. /\ refs' = refs /\ Rule' = Rule /\ NumRules' = NumRules
  BY Still DEF Fixed
<1>2. \A S : S \subseteq Rule => (Closed(S)' <=> Closed(S))
  BY StillClosed DEF NodeInv
<1>3. \A S \in SUBSET Rule : Closed(S)' => used \subseteq S
  BY <1>2 DEF MarkInv
<1>4. AreSteps(walk', used')
  BY DEF MarkInv
<1>5. \A r \in used : \A n \in refs[r] : link[r][n] \in used \cup {NULL} \/ ToCome(r, n)'
  BY DEF MarkInv, ToCome
<1> QED
  BY <1>1, <1>3, <1>4, <1>5 DEF MarkInv

RuleInv == NodeInv /\ LinkInv

LEMMA ReadEndStep ==
  ASSUME RuleInv, ReadEnd
  PROVE  RuleInv'
<1>1. /\ pc = "read" /\ pc' = "hash" /\ stack = <<>> /\ stack' = stack /\ ret' = ret
      /\ rules' = rules /\ rule' = rule /\ heap' = heap /\ i' = i /\ used' = used /\ walk' = walk
      /\ refs' = [r \in Rule |-> ReferencesIn(rules[r].expr)]
      /\ rulehash' = Empty
      /\ ref' = [r \in Rule |-> 0]
      /\ link' = [r \in Rule |-> [n \in ReferencesIn(rules[r].expr) |-> NULL]]
      /\ kept' = [r \in Rule |-> r]
  BY DEF ReadEnd, AllRead, readVars
<1>2. NodeInv /\ PhaseInv
  BY DEF RuleInv, LinkInv
<1>3. i = 1 /\ used = {} /\ walk = <<>>
  BY <1>1, <1>2 DEF PhaseInv
<1>4. Rule' = Rule /\ NumRules' = NumRules /\ Slot' = Slot
  BY <1>1 DEF Rule, NumRules, Slot, Width
<1>5. NodeInv'
  <2>1. RulesHeld' = RulesHeld
    <3>1. ToSet(kept') = Rule
      BY <1>1 DEF ToSet
    <3> QED
      BY <1>1, <3>1 DEF RulesHeld
  <2> QED
    BY <1>1, <1>2, <2>1, NodesStay
<1>6. PhaseInv'
  BY <1>1, <1>3, <1>4 DEF PhaseInv, Phases, Kept
<1>7. ASSUME NEW r \in Rule
      PROVE  /\ refs'[r] = ReferencesIn(rules[r].expr)
             /\ refs'[r] \subseteq Nodes(heap) /\ \A n \in refs'[r] : Target(n) \in Identifier
  <2>1. rules[r].expr \in Nodes(heap)
    <3>1. rules[r].expr \in Roots
      BY <1>1, <1>2 DEF NodeInv, Apart, Roots, RulesHeld
    <3> QED
      BY <1>2, <3>1 DEF NodeInv, Forest, Alive
  <2>2. Family(heap, rules[r].expr) \subseteq Nodes(heap)
    BY <1>2, <2>1, FamilyOf DEF NodeInv
  <2>3. refs'[r] = ReferencesIn(rules[r].expr)
    BY <1>1
  <2>4. ASSUME NEW n \in Nodes(heap), heap[n].node.type = "REFERENCE"
        PROVE  Target(n) \in Identifier
    BY <1>2, <2>4 DEF NodeInv, IsHeap, IsCell, IsNode, Target
  <2> QED
    BY <2>2, <2>3, <2>4 DEF ReferencesIn
<1>8. RefsInv'
  <2>1. refs' = [r \in Rule |-> refs'[r]]
    BY <1>1
  <2>2. \A n : Target(n)' = Target(n)
    BY <1>1 DEF Target
  <2> QED
    BY <1>1, <1>4, <1>7, <2>1, <2>2 DEF RefsInv
<1>9. TableInv'
  <2>1. \A j \in Slot : rulehash'[j] = NULL
    BY <1>1 DEF Empty
  <2>2. rulehash' \in [Slot -> Rule \cup {NULL}]
    BY <1>1 DEF Empty
  <2>3. \A r \in Rule : ~ Entered(r)'
    <3>1. \A r \in Rule : ~(r < 1)
      BY <1>2, RuleIs
    <3> QED
      BY <1>1, <1>3, <3>1 DEF Entered
  <2> QED
    BY <1>4, <2>1, <2>2, <2>3 DEF TableInv
<1>10. LinksInv'
  <2>1. \A r \in Rule : ~ Linked(r)'
    BY <1>1 DEF Linked
  <2>2. link' = [r \in Rule |-> [n \in refs'[r] |-> NULL]]
    BY <1>1, <1>7
  <2> QED
    BY <1>4, <2>1, <2>2 DEF LinksInv
<1>11. RefInv'
  <2>1. \A r \in Rule : ~ Repeated(r)'
    <3>1. \A r \in Rule : ~(r < 1)
      BY <1>2, RuleIs
    <3> QED
      BY <1>1, <1>3, <3>1 DEF Repeated
  <2> QED
    BY <1>1, <1>4, <2>1 DEF RefInv
<1>12. MarkInv'
  BY <1>1 DEF MarkInv
<1> QED
  BY <1>5, <1>6, <1>8, <1>9, <1>10, <1>11, <1>12 DEF RuleInv, LinkInv

LEMMA MakeRulehashStep ==
  ASSUME RuleInv, MakeRulehash
  PROVE  RuleInv'
<1> DEFINE nm == NameOf(i)
           j == Probe(nm)
           first == rulehash[j]
<1>1. /\ pc = "hash" /\ pc' = "hash" /\ i <= NumRules /\ i' = i + 1
      /\ stack' = stack /\ ret' = ret /\ rules' = rules /\ rule' = rule /\ heap' = heap
      /\ refs' = refs /\ link' = link /\ used' = used /\ walk' = walk /\ kept' = kept
      /\ first = NULL => rulehash' = [rulehash EXCEPT ![j] = i] /\ ref' = ref
      /\ first # NULL => rulehash' = rulehash /\ ref' = [ref EXCEPT ![i] = -1, ![first] = -1]
  BY DEF MakeRulehash, Turn, readVars
<1>2. NodeInv /\ PhaseInv /\ RefsInv /\ TableInv /\ LinksInv /\ RefInv /\ MarkInv
  BY DEF RuleInv, LinkInv
<1>3. Fixed
  BY <1>1 DEF Fixed
<1>4. /\ Rule' = Rule /\ NumRules' = NumRules /\ Slot' = Slot
      /\ Rule = 1 .. NumRules /\ NumRules \in Nat /\ i \in Nat \ {0} /\ i \in Rule /\ nm \in Identifier
      /\ NULL \notin Rule
  BY <1>1, <1>2, <1>3, Still, RuleIs DEF PhaseInv
<1>5. NodeInv'
  BY <1>1, <1>2, NodesStay DEF NodeInv, RulesHeld
<1>6. PhaseInv'
  BY <1>1, <1>2, <1>4 DEF PhaseInv, Phases, Kept
<1>7. RefsInv'
  BY <1>1, <1>2, <1>3, RefsStay
<1>8. LinksInv'
  BY <1>1, <1>2, <1>3, LinksStay DEF Linked
<1>9. MarkInv'
  BY <1>1 DEF MarkInv
<1>10. PICK k \in Slot : j = Tried(nm, k) /\ Stops(nm, k) /\ Passed(nm, k)
  BY <1>1, <1>2, <1>4, Lookup
<1>11. j \in Slot /\ Slot \subseteq Nat /\ first = lookup_rulehash(nm)
  BY <1>2, <1>4, <1>10, TriedIs, RuleIs DEF Slot, lookup_rulehash
<1>12. \A r : Entered(r)' <=> r < i + 1
  BY <1>1 DEF Entered
<1>13. \A r : Entered(r) <=> r < i
  BY <1>1 DEF Entered
<1>14. \A n : First(n)' = First(n) /\ NameOf(n)' = NameOf(n)
  BY <1>3, Still
<1>15. \A n, m : Tried(n, m)' = Tried(n, m)
  BY <1>1 DEF Tried, Width, NumRules
<1> HIDE DEF nm, j, first
\* The name is entered.
<1>16. CASE first = NULL
  <2>1. rulehash' = [rulehash EXCEPT ![j] = i] /\ ref' = ref /\ rulehash[j] = NULL
    BY <1>1, <1>16 DEF first
  <2>2. \A r \in Rule : r < i => NameOf(r) # nm
    BY <1>1, <1>2, <1>4, <1>11, <1>13, <1>16, Lookup
  <2>3. First(nm) = i
    <3>1. Defined(nm)
      BY <1>2, <1>4, UniqueIs DEF nm
    <3>2. First(nm) \in Rule /\ NameOf(First(nm)) = nm /\ First(nm) <= i
      BY <1>2, <1>4, <3>1, FirstIs DEF nm
    <3> QED
      BY <1>4, <2>2, <3>2
  <2>4. rulehash \in [Slot -> Rule \cup {NULL}]
    BY <1>1, <1>2 DEF TableInv
  <2>5. /\ rulehash' \in [Slot -> Rule \cup {NULL}]
        /\ \A s \in Slot : rulehash'[s] = IF s = j THEN i ELSE rulehash[s]
    BY <1>4, <1>11, <2>1, <2>4
  <2>6. \A n \in Identifier : \A m \in Slot : Passed(n, m) => Passed(n, m)'
    <3> SUFFICES ASSUME NEW n \in Identifier, NEW m \in Slot, Passed(n, m), NEW h \in 0 .. (m - 1)
                 PROVE  ~ Stops(n, h)'
      BY DEF Passed
    <3>1. h \in Nat
      BY <1>11
    <3>2. Tried(n, h) \in Slot
      BY <1>2, <3>1, TriedIs
    <3>3. ~ Stops(n, h)
      BY DEF Passed
    <3>4. rulehash'[Tried(n, h)] = rulehash[Tried(n, h)]
      BY <2>1, <2>5, <3>2, <3>3 DEF Stops
    <3>5. rulehash'[Tried(n, h)'] = rulehash[Tried(n, h)]
      BY <1>15, <3>4
    <3>6. rules' = rules
      BY <1>1
    <3> QED
      BY <3>3, <3>5, <3>6 DEF Stops, NameOf
  <2>7. ASSUME NEW s \in Slot, rulehash'[s] # NULL
        PROVE  Entered(rulehash[s])'
    <3>1. rulehash'[s] < i + 1
      <4>1. CASE s = j
        <5>1. rulehash'[s] = i /\ i < i + 1
          BY <1>4, <2>5, <4>1
        <5> QED
          BY <5>1
      <4>2. CASE s # j
        <5>1. rulehash'[s] = rulehash[s] /\ rulehash[s] \in Rule
          BY <2>4, <2>5, <2>7, <4>2
        <5>2. rulehash[s] < i
          BY <1>1, <1>2, <1>13, <2>7, <5>1 DEF TableInv
        <5> QED
          BY <1>4, <5>1, <5>2
      <4> QED
        BY <4>1, <4>2
    <3> QED
      BY <1>1, <3>1 DEF Entered
  <2>8. ASSUME NEW s \in Slot, NEW n \in Identifier, rulehash'[s] # NULL, NameOf(rulehash'[s]) = n
        PROVE  rulehash'[s] = First(n) /\ \E m \in Slot : s = Tried(n, m) /\ Passed(n, m)'
    <3>1. CASE s = j
      <4>1. rulehash'[s] = i /\ n = nm
        BY <2>5, <2>8, <3>1 DEF nm
      <4> QED
        BY <1>4, <1>10, <2>3, <2>6, <3>1, <4>1
    <3>2. CASE s # j
      <4>1. rulehash'[s] = rulehash[s]
        BY <2>5, <3>2
      <4>2. rulehash[s] = First(n) /\ \E m \in Slot : s = Tried(n, m) /\ Passed(n, m)
        BY <1>1, <1>2, <2>8, <4>1 DEF TableInv
      <4> QED
        BY <2>6, <4>1, <4>2
    <3> QED
      BY <3>1, <3>2
  <2>9. ASSUME NEW r \in Rule, NEW n \in Identifier, r < i + 1, NameOf(r) = n
        PROVE  \E s \in Slot : rulehash'[s] = First(n)
    <3>1. CASE r = i
      <4>1. n = nm /\ rulehash'[j] = i
        BY <1>11, <2>5, <2>9, <3>1 DEF nm
      <4> QED
        BY <1>11, <2>3, <4>1
    <3>2. CASE r # i
      <4>1. r < i
        BY <1>4, <2>9, <3>2
      <4>2. PICK s \in Slot : rulehash[s] = First(n)
        BY <1>1, <1>2, <1>13, <2>9, <4>1 DEF TableInv
      <4>3. First(n) # NULL
        BY <1>2, <2>9, UniqueIs, FirstIs
      <4>4. s # j
        BY <2>1, <4>2, <4>3
      <4> QED
        BY <2>5, <4>2, <4>4
    <3> QED
      BY <3>1, <3>2
  <2>10. TableInv'
    <3>1. \A s \in Slot : rulehash'[s] # NULL => Entered(rulehash[s])'
      BY <2>7
    <3>2. \A s \in Slot : \A n \in Identifier : rulehash'[s] # NULL /\ NameOf(rulehash[s])' = n =>
            rulehash'[s] = First(n)' /\ \E m \in Slot : s = Tried(n, m)' /\ Passed(n, m)'
      <4>1. \A s : NameOf(rulehash[s])' = NameOf(rulehash'[s])
        BY <1>1 DEF NameOf
      <4> QED
        BY <1>14, <1>15, <2>8, <4>1
    <3>3. \A r \in Rule : \A n \in Identifier : Entered(r)' /\ NameOf(r)' = n =>
            \E s \in Slot : rulehash'[s] = First(n)'
      BY <1>12, <1>14, <2>9
    <3> QED
      BY <1>4, <2>5, <3>1, <3>2, <3>3 DEF TableInv
  <2>11. RefInv'
    <3>1. ASSUME NEW r \in Rule
          PROVE  Repeated(r)' <=> Repeated(r)
      <4>1. \A t \in Rule : t < i + 1 <=> t < i \/ t = i
        BY <1>4
      <4>2. Repeated(r)' <=> r < i + 1 /\ \E t \in Rule : t < i + 1 /\ t # r /\ NameOf(t) = NameOf(r)
        BY <1>1, <1>4 DEF Repeated, NameOf
      <4> QED
        BY <1>4, <2>2, <4>1, <4>2 DEF Repeated, nm
    <3>2. ref = [t \in Rule |-> IF Repeated(t) THEN -1 ELSE 0]
      BY <1>1, <1>2 DEF RefInv
    <3> QED
      BY <1>1, <1>4, <2>1, <3>1, <3>2 DEF RefInv
  <2> QED
    BY <1>5, <1>6, <1>7, <1>8, <1>9, <2>10, <2>11 DEF RuleInv, LinkInv
\* Both rules with the name are marked.
<1>17. CASE first # NULL
  <2>1. rulehash' = rulehash /\ ref' = [ref EXCEPT ![i] = -1, ![first] = -1]
    BY <1>1, <1>17 DEF first
  <2>2. first = First(nm) /\ Defined(nm) /\ first < i
    <3>1. first = First(nm) /\ Defined(nm) /\ Entered(First(nm))
      BY <1>1, <1>2, <1>4, <1>11, <1>17, Lookup
    <3> QED
      BY <1>13, <3>1
  <2>3. first \in Rule /\ NameOf(first) = nm /\ first # i
    <3>1. First(nm) \in Rule /\ NameOf(First(nm)) = nm
      BY <1>2, <2>2, FirstIs
    <3> QED
      BY <1>4, <2>2, <3>1
  <2>4. \A t \in Rule : t < i => t < i + 1
    BY <1>4
  <2>5. \A n, m : Passed(n, m)' <=> Passed(n, m)
    <3>1. \A n, m : Stops(n, m)' <=> Stops(n, m)
      BY <1>1, <2>1 DEF Stops, Tried, Width, NumRules, NameOf
    <3> QED
      BY <3>1 DEF Passed
  <2>6. rulehash \in [Slot -> Rule \cup {NULL}]
    BY <1>1, <1>2 DEF TableInv
  <2>7. TableInv'
    <3>1. \A s \in Slot : rulehash'[s] # NULL => Entered(rulehash[s])'
      <4> SUFFICES ASSUME NEW s \in Slot, rulehash'[s] # NULL
                   PROVE  Entered(rulehash[s])'
        OBVIOUS
      <4>1. rulehash[s] \in Rule /\ rulehash[s] < i
        BY <1>1, <1>2, <1>13, <2>1, <2>6 DEF TableInv
      <4> QED
        BY <1>1, <2>1, <2>4, <4>1 DEF Entered
    <3>2. \A s \in Slot : \A n \in Identifier : rulehash'[s] # NULL /\ NameOf(rulehash[s])' = n =>
            rulehash'[s] = First(n)' /\ \E m \in Slot : s = Tried(n, m)' /\ Passed(n, m)'
      <4>1. \A s : NameOf(rulehash[s])' = NameOf(rulehash[s])
        BY <1>1, <2>1 DEF NameOf
      <4>2. \A s \in Slot : \A n \in Identifier : rulehash[s] # NULL /\ NameOf(rulehash[s]) = n =>
              rulehash[s] = First(n) /\ \E m \in Slot : s = Tried(n, m) /\ Passed(n, m)
        BY <1>1, <1>2 DEF TableInv
      <4> QED
        BY <1>14, <1>15, <2>1, <2>5, <4>1, <4>2
    <3>3. \A r \in Rule : \A n \in Identifier : Entered(r)' /\ NameOf(r)' = n =>
            \E s \in Slot : rulehash'[s] = First(n)'
      <4> SUFFICES ASSUME NEW r \in Rule, NEW n \in Identifier, r < i + 1, NameOf(r) = n
                   PROVE  \E s \in Slot : rulehash[s] = First(n)
        BY <1>12, <1>14, <2>1
      <4>1. CASE r = i
        BY <1>11, <2>2, <4>1 DEF nm, first
      <4>2. CASE r # i
        <5>1. r < i
          BY <1>4, <4>2
        <5> QED
          BY <1>1, <1>2, <1>13, <5>1 DEF TableInv
      <4> QED
        BY <4>1, <4>2
    <3> QED
      BY <1>4, <2>1, <2>6, <3>1, <3>2, <3>3 DEF TableInv
  <2>8. RefInv'
    <3>1. ref = [t \in Rule |-> IF Repeated(t) THEN -1 ELSE 0]
      BY <1>1, <1>2 DEF RefInv
    <3>2. ref' = [t \in Rule |-> IF t = i \/ t = first THEN -1 ELSE ref[t]]
      BY <1>4, <2>1, <2>3, <3>1
    <3>3. ASSUME NEW r \in Rule
          PROVE  Repeated(r)' <=> r = i \/ r = first \/ Repeated(r)
      <4>1. \A t \in Rule : t < i + 1 <=> t < i \/ t = i
        BY <1>4
      <4>2. Repeated(r)' <=> r < i + 1 /\ \E t \in Rule : t < i + 1 /\ t # r /\ NameOf(t) = NameOf(r)
        BY <1>1, <1>4 DEF Repeated, NameOf
      <4> QED
        BY <1>4, <2>2, <2>3, <4>1, <4>2 DEF Repeated, nm
    <3> QED
      BY <1>1, <1>4, <3>1, <3>2, <3>3 DEF RefInv
  <2> QED
    BY <1>5, <1>6, <1>7, <1>8, <1>9, <2>7, <2>8 DEF RuleInv, LinkInv
<1> QED
  BY <1>16, <1>17

\* The table stays as it is when no rule is entered.
LEMMA TableStays ==
  ASSUME NodeInv, Fixed, TableInv, pc \in {"hash", "link"}, rulehash' = rulehash,
         \A r \in Rule : Entered(r)' <=> Entered(r)
  PROVE  TableInv'
<1>1. /\ Rule' = Rule /\ Slot' = Slot /\ rules' = rules
      /\ \A n : First(n)' = First(n) /\ NameOf(n)' = NameOf(n)
  BY Still DEF Fixed
<1>2. \A n, m : Tried(n, m)' = Tried(n, m)
  BY <1>1 DEF Tried, Width, NumRules
<1>3. \A n, m : Passed(n, m)' <=> Passed(n, m)
  <2>1. \A n, m : Stops(n, m)' <=> Stops(n, m)
    BY <1>1 DEF Stops, Tried, Width, NumRules, NameOf
  <2> QED
    BY <2>1 DEF Passed
<1>4. rulehash \in [Slot -> Rule \cup {NULL}]
  BY DEF TableInv
<1>5. \A s \in Slot : rulehash[s] # NULL => Entered(rulehash[s])'
  <2> SUFFICES ASSUME NEW s \in Slot, rulehash[s] # NULL
               PROVE  Entered(rulehash[s])'
    OBVIOUS
  <2>1. rulehash[s] \in Rule /\ Entered(rulehash[s])
    BY <1>4 DEF TableInv
  <2>2. \A r \in Rule : (pc' # "hash" \/ r < i') <=> Entered(r)
    BY DEF Entered
  <2> QED
    BY <2>1, <2>2 DEF Entered
<1>6. \A s \in Slot : \A n \in Identifier : rulehash'[s] # NULL /\ NameOf(rulehash[s])' = n =>
        rulehash'[s] = First(n)' /\ \E m \in Slot : s = Tried(n, m)' /\ Passed(n, m)'
  <2>1. \A s : NameOf(rulehash[s])' = NameOf(rulehash[s])
    BY <1>1 DEF NameOf
  <2>2. \A s \in Slot : \A n \in Identifier : rulehash[s] # NULL /\ NameOf(rulehash[s]) = n =>
          rulehash[s] = First(n) /\ \E m \in Slot : s = Tried(n, m) /\ Passed(n, m)
    BY DEF TableInv
  <2> QED
    BY <1>1, <1>2, <1>3, <2>1, <2>2
<1>7. \A r \in Rule : \A n \in Identifier : Entered(r)' /\ NameOf(r)' = n =>
        \E s \in Slot : rulehash'[s] = First(n)'
  BY <1>1 DEF TableInv
<1> QED
  BY <1>1, <1>4, <1>5, <1>6, <1>7 DEF TableInv

LEMMA MakeRulehashEndStep ==
  ASSUME RuleInv, MakeRulehashEnd
  PROVE  RuleInv'
<1>1. /\ pc = "hash" /\ pc' = "link" /\ i > NumRules /\ i' = 1
      /\ stack' = stack /\ ret' = ret /\ rules' = rules /\ rule' = rule /\ heap' = heap
      /\ refs' = refs /\ rulehash' = rulehash /\ ref' = ref /\ link' = link
      /\ used' = used /\ walk' = walk /\ kept' = kept
  BY DEF MakeRulehashEnd, Leave, readVars
<1>2. NodeInv /\ PhaseInv /\ RefsInv /\ TableInv /\ LinksInv /\ RefInv
  BY DEF RuleInv, LinkInv
<1>3. Fixed
  BY <1>1 DEF Fixed
<1>4. /\ Rule' = Rule /\ NumRules' = NumRules
      /\ Rule = 1 .. NumRules /\ NumRules \in Nat /\ i \in Nat \ {0}
  BY <1>2, <1>3, Still, RuleIs DEF PhaseInv
<1>5. \A r \in Rule : r < i /\ ~(r < 1)
  BY <1>1, <1>4
<1>6. NodeInv' /\ RefsInv' /\ MarkInv'
  <2>1. NodeInv'
    BY <1>1, <1>2, NodesStay DEF NodeInv, RulesHeld
  <2> QED
    BY <2>1, <1>1, <1>2, <1>3, RefsStay DEF MarkInv
<1>7. PhaseInv'
  BY <1>1, <1>2, <1>4 DEF PhaseInv, Phases, Kept
<1>8. TableInv'
  BY <1>1, <1>2, <1>3, <1>5, TableStays DEF Entered
<1>9. \A r \in Rule : ~ Linked(r)' /\ ~ Linked(r)
  BY <1>1, <1>5 DEF Linked
<1>10. LinksInv'
  BY <1>1, <1>2, <1>3, <1>9, LinksStay
<1>11. RefInv'
  <2>1. Counted' = {}
    BY <1>4, <1>9 DEF Counted, Counts
  <2>2. \A t \in Rule : Cardinality(ReferencesTo(t, {})) = 0
    <3>1. \A t \in Rule : ReferencesTo(t, {}) = {}
      BY DEF ReferencesTo
    <3> QED
      BY <3>1, FS_EmptySet
  <2>3. \A t \in Rule : Repeated(t) <=> ~ Unique(t)
    BY <1>2, <1>5, UniqueIs DEF Repeated
  <2>4. ref = [t \in Rule |-> IF Repeated(t) THEN -1 ELSE 0]
    BY <1>1, <1>2 DEF RefInv
  <2>5. ref' = [t \in Rule |-> IF Unique(t) THEN Cardinality(ReferencesTo(t, {})) ELSE -1]
    BY <1>1, <2>2, <2>3, <2>4
  <2>6. {} \in SUBSET Rule /\ pc # "read" /\ pc' \notin {"read", "hash"}
    BY <1>1
  <2> QED
    BY <1>2, <1>3, <2>1, <2>5, <2>6, CountsAre
<1> QED
  BY <1>6, <1>7, <1>8, <1>10, <1>11 DEF RuleInv, LinkInv

\* A reference of a rule that is linked.
LEMMA LinkIs ==
  ASSUME NodeInv, RefsInv, TableInv, pc = "link", NEW r \in Rule, NEW n \in refs[r]
  PROVE  lookup_rulehash(Target(n)) = Lead(n)
<1> DEFINE nm == Target(n)
<1>1. nm \in Identifier
  BY DEF RefsInv
<1>2. \A t \in Rule : Entered(t)
  BY DEF Entered
<1>3. CASE lookup_rulehash(nm) = NULL
  <2>1. \A t \in Rule : NameOf(t) # nm
    BY <1>1, <1>2, <1>3, Lookup
  <2>2. ~ Defined(nm)
    BY <2>1 DEF Defined, Definitions
  <2> QED
    BY <1>3, <2>2 DEF Lead
<1>4. CASE lookup_rulehash(nm) # NULL
  <2>1. Defined(nm) /\ lookup_rulehash(nm) = First(nm)
    BY <1>1, <1>4, Lookup
  <2> QED
    BY <2>1 DEF Lead
<1> QED
  BY <1>3, <1>4

LEMMA LinkReferencesStep ==
  ASSUME RuleInv, LinkReferences
  PROVE  RuleInv'
<1> DEFINE l == LinkOf(i)
<1>1. /\ pc = "link" /\ pc' = "link" /\ i <= NumRules /\ i' = i + 1
      /\ stack' = stack /\ ret' = ret /\ rules' = rules /\ rule' = rule /\ heap' = heap
      /\ refs' = refs /\ rulehash' = rulehash /\ used' = used /\ walk' = walk /\ kept' = kept
      /\ \/ ref[i] < 0 /\ link' = link /\ ref' = ref
         \/ ref[i] >= 0 /\ link' = [link EXCEPT ![i] = l] /\ ref' = Referred(i, l)
  BY DEF LinkReferences, Turn
<1>2. NodeInv /\ PhaseInv /\ RefsInv /\ TableInv /\ LinksInv /\ RefInv
  BY DEF RuleInv, LinkInv
<1>3. Fixed
  BY <1>1 DEF Fixed
<1>4. /\ Rule' = Rule /\ NumRules' = NumRules
      /\ Rule = 1 .. NumRules /\ NumRules \in Nat /\ i \in Nat \ {0} /\ i \in Rule
  BY <1>1, <1>2, <1>3, Still, RuleIs DEF PhaseInv
<1>5. \A r \in Rule : (r < i + 1 <=> r < i \/ r = i) /\ ~(i < i)
  BY <1>4
<1>6. NodeInv' /\ RefsInv' /\ MarkInv'
  <2>1. NodeInv'
    BY <1>1, <1>2, NodesStay DEF NodeInv, RulesHeld
  <2> QED
    BY <2>1, <1>1, <1>2, <1>3, RefsStay DEF MarkInv
<1>7. PhaseInv'
  BY <1>1, <1>2, <1>4 DEF PhaseInv, Phases, Kept
<1>8. TableInv'
  BY <1>1, <1>2, <1>3, TableStays DEF Entered
<1>9. \A r \in Rule : /\ Linked(r) <=> Unique(r) /\ r < i
                      /\ Linked(r)' <=> Unique(r) /\ (r < i \/ r = i)
  <2>1. \A r \in Rule : Unique(r)' <=> Unique(r)
    BY <1>3, Still
  <2> QED
    BY <1>1, <1>5, <2>1 DEF Linked
<1>10. /\ Counted = {r \in Rule : Linked(r)} /\ Counted' = {r \in Rule : Linked(r)'}
       /\ Counted \in SUBSET Rule /\ i \notin Counted
  BY <1>1, <1>4, <1>5, <1>9 DEF Counted, Counts, Kept
<1>11. ref = [t \in Rule |-> IF Unique(t) THEN Cardinality(ReferencesTo(t, Counted)) ELSE -1]
  BY <1>1, <1>2 DEF RefInv
<1>12. \A t \in Rule : /\ Cardinality(ReferencesTo(t, Counted)) \in Nat
                       /\ Cardinality(From(i, t)) \in Nat
                       /\ Cardinality(ReferencesTo(t, Counted \cup {i})) =
                            Cardinality(ReferencesTo(t, Counted)) + Cardinality(From(i, t))
  BY <1>1, <1>2, <1>4, <1>10, OneMore
<1>13. \A t \in Rule : ref[t] >= 0 <=> Unique(t)
  BY <1>11, <1>12
<1> HIDE DEF l
<1>14. CASE ~ Unique(i)
  <2>1. link' = link /\ ref' = ref
    <3>1. ~(ref[i] >= 0)
      BY <1>4, <1>13, <1>14
    <3> QED
      BY <1>1, <3>1
  <2>2. \A r \in Rule : Linked(r)' <=> Linked(r)
    BY <1>9, <1>14
  <2>3. LinksInv'
    BY <1>1, <1>2, <1>3, <2>1, <2>2, LinksStay
  <2>4. Counted' = Counted
    BY <1>10, <2>2
  <2>5. RefInv'
    <3>1. pc # "read" /\ pc' \notin {"read", "hash"}
      BY <1>1
    <3>2. ref' = [t \in Rule |-> IF Unique(t) THEN Cardinality(ReferencesTo(t, Counted)) ELSE -1]
      BY <1>11, <2>1
    <3> QED
      BY <1>2, <1>3, <1>10, <2>4, <3>1, <3>2, CountsAre
  <2> QED
    BY <1>6, <1>7, <1>8, <2>3, <2>5 DEF RuleInv, LinkInv
<1>15. CASE Unique(i)
  <2>1. link' = [link EXCEPT ![i] = l] /\ ref' = Referred(i, l)
    <3>1. ~(ref[i] < 0)
      BY <1>4, <1>11, <1>12, <1>15
    <3> QED
      BY <1>1, <3>1
  <2>2. l = [n \in refs[i] |-> Lead(n)]
    BY <1>1, <1>2, <1>4, LinkIs DEF l, LinkOf
  <2>3. \A r \in Rule : Linked(r)' <=> Linked(r) \/ r = i
    BY <1>9, <1>15
  <2>4. LinksInv'
    <3>1. link = [r \in Rule |-> [n \in refs[r] |-> IF Linked(r) THEN Lead(n) ELSE NULL]]
      BY <1>1, <1>2 DEF LinksInv
    <3>2. link' = [r \in Rule |-> IF r = i THEN l ELSE link[r]]
      BY <1>4, <2>1, <3>1
    <3>3. ASSUME NEW r \in Rule
          PROVE  link'[r] = [n \in refs[r] |-> IF Linked(r)' THEN Lead(n) ELSE NULL]
      BY <2>2, <2>3, <3>1, <3>2
    <3>4. \A r \in Rule : \A n \in refs[r] : Lead(n)' = Lead(n)
      <4>1. \A r \in Rule : refs[r] \subseteq DOMAIN heap
        BY <1>1, <1>2, HeapFacts DEF RefsInv, NodeInv
      <4> QED
        BY <1>3, <4>1, Still
    <3>5. ASSUME NEW r \in Rule
          PROVE  link'[r] = [n \in refs'[r] |-> IF Linked(r)' THEN Lead(n)' ELSE NULL]
      BY <1>1, <3>3, <3>4
    <3>6. link' = [r \in Rule |-> [n \in refs'[r] |-> IF Linked(r)' THEN Lead(n)' ELSE NULL]]
      BY <3>2, <3>5
    <3> QED
      BY <1>1, <1>4, <3>6 DEF LinksInv
  <2>5. RefInv'
    <3>1. Counted' = Counted \cup {i}
      BY <1>4, <1>10, <2>3
    <3>2. ASSUME NEW t \in Rule
          PROVE  ref'[t] = IF Unique(t) THEN Cardinality(ReferencesTo(t, Counted \cup {i})) ELSE -1
      <4>1. ref'[t] = IF ref[t] >= 0 THEN ref[t] + Times(i, l, t) ELSE ref[t]
        BY <2>1 DEF Referred
      <4>2. CASE Unique(t)
        <5>1. \A n \in refs[i] : l[n] = Lead(n)
          BY <2>2
        <5>2. Times(i, l, t) = Cardinality(From(i, t))
          BY <1>2, <4>2, <5>1, TimesIs
        <5>3. ref[t] >= 0 /\ ref[t] = Cardinality(ReferencesTo(t, Counted))
          BY <1>11, <1>13, <4>2
        <5> QED
          BY <1>12, <4>1, <4>2, <5>2, <5>3
      <4>3. CASE ~ Unique(t)
        BY <1>11, <1>13, <4>1, <4>3
      <4> QED
        BY <4>2, <4>3
    <3>3. ref' = [t \in Rule |-> IF Unique(t) THEN Cardinality(ReferencesTo(t, Counted \cup {i})) ELSE -1]
      <4>1. ref' = [t \in Rule |-> ref'[t]]
        BY <2>1 DEF Referred
      <4> QED
        BY <3>2, <4>1
    <3>4. pc # "read" /\ pc' \notin {"read", "hash"} /\ Counted \cup {i} \in SUBSET Rule
      BY <1>1, <1>4, <1>10
    <3> QED
      BY <1>2, <1>3, <3>1, <3>3, <3>4, CountsAre
  <2> QED
    BY <1>6, <1>7, <1>8, <2>4, <2>5 DEF RuleInv, LinkInv
<1> QED
  BY <1>14, <1>15

-----------------------------------------------------------------------------
(* The walk.                                                                *)

\* What is linked when all references are.
LEMMA LinkedIs ==
  ASSUME NodeInv, LinksInv, pc \notin {"read", "hash", "link"}
  PROVE  /\ \A r : Linked(r) <=> Unique(r)
         /\ \A r \in Rule : \A n \in refs[r] : link[r][n] = IF Unique(r) THEN Lead(n) ELSE NULL
<1>1. \A r : Linked(r) <=> Unique(r)
  BY DEF Linked
<1> QED
  BY <1>1 DEF LinksInv

\* The counts, when they do not change.
LEMMA RefStays ==
  ASSUME NodeInv, Fixed, RefsInv, RefInv, pc \notin {"read", "hash"}, pc' \notin {"read", "hash"},
         ref' = ref, Counted' = Counted
  PROVE  RefInv'
<1>1. ref' = [t \in Rule |-> IF Unique(t) THEN Cardinality(ReferencesTo(t, Counted)) ELSE -1]
  BY DEF RefInv
<1>2. Counted \in SUBSET Rule /\ pc # "read"
  BY DEF Counted
<1> QED
  BY <1>1, <1>2, CountsAre

\* What a step of the walk does not touch.
LEMMA WalkGoesOn ==
  ASSUME RuleInv, pc' = "mark", i' = i \/ pc = "link", pc \in {"link", "mark"},
         pc = "link" => i > NumRules,
         rules' = rules, rule' = rule, heap' = heap, stack' = stack, ret' = ret,
         refs' = refs, ref' = ref, link' = link, kept' = kept
  PROVE  NodeInv' /\ RefsInv' /\ TableInv' /\ LinksInv' /\ RefInv'
<1>1. NodeInv /\ PhaseInv /\ RefsInv /\ LinksInv /\ RefInv /\ Fixed
  BY DEF RuleInv, LinkInv, Fixed
<1>2. pc \notin {"read", "hash"} /\ pc' \notin {"read", "hash"}
  OBVIOUS
<1>3. NodeInv'
  BY <1>1, NodesStay DEF NodeInv, RulesHeld
<1>4. RefsInv'
  BY <1>1, <1>2, RefsStay
<1>5. Rule' = Rule /\ \A r \in Rule : Linked(r)' <=> Linked(r)
  <2>1. Rule' = Rule /\ \A r \in Rule : Unique(r)' <=> Unique(r)
    BY <1>1, Still
  <2>2. pc = "link" => \A r \in Rule : r < i
    BY <1>1, RuleIs DEF PhaseInv
  <2> QED
    BY <2>1, <2>2 DEF Linked
<1>6. LinksInv'
  BY <1>1, <1>2, <1>5, LinksStay
<1>7. Counted' = Counted
  BY <1>5 DEF Counted, Counts, Kept
<1>8. RefInv'
  BY <1>1, <1>2, <1>7, RefStays
<1> QED
  BY <1>3, <1>4, <1>6, <1>8 DEF TableInv

LEMMA LinkReferencesEndStep ==
  ASSUME RuleInv, LinkReferencesEnd
  PROVE  RuleInv'
<1>1. /\ pc = "link" /\ pc' = "mark" /\ i > NumRules /\ i' = 1
      /\ stack' = stack /\ ret' = ret /\ rules' = rules /\ rule' = rule /\ heap' = heap
      /\ refs' = refs /\ rulehash' = rulehash /\ ref' = ref /\ link' = link /\ kept' = kept
      /\ NumRules > 0 => used' = {1} /\ walk' = <<[rule |-> 1, last |-> NULL]>>
      /\ ~(NumRules > 0) => used' = used /\ walk' = walk
  BY DEF LinkReferencesEnd, Leave, readVars
<1>2. NodeInv /\ PhaseInv /\ RefsInv /\ Fixed
  BY <1>1 DEF RuleInv, LinkInv, Fixed
<1>3. NodeInv' /\ RefsInv' /\ TableInv' /\ LinksInv' /\ RefInv'
  BY <1>1, WalkGoesOn
<1>4. Rule' = Rule /\ NumRules' = NumRules /\ Rule = 1 .. NumRules /\ NumRules \in Nat
  BY <1>2, Still, RuleIs
<1>5. used = {} /\ walk = <<>>
  BY <1>1, <1>2 DEF PhaseInv
<1>6. used' \subseteq Rule /\ (NumRules > 0 => 1 \in used')
  BY <1>1, <1>4, <1>5
<1>7. PhaseInv'
  BY <1>1, <1>2, <1>4, <1>6 DEF PhaseInv, Phases, Kept
<1>8. MarkInv'
  <2>1. \A S : S \subseteq Rule => (Closed(S)' <=> Closed(S))
    BY <1>1, <1>2, StillClosed DEF NodeInv
  <2>2. \A S \in SUBSET Rule : Closed(S)' => used' \subseteq S
    BY <1>1, <1>4, <1>5, <2>1 DEF Closed
  <2>3. /\ AreSteps(walk', used')
        /\ \A r \in used' : \A n \in refs[r] : ToCome(r, n)'
    <3>1. CASE NumRules > 0
      <4> DEFINE s == [rule |-> 1, last |-> NULL]
                 w == <<s>>
      <4>1. Sequence(w) /\ Len(w) = 1 /\ w[1] = s /\ 1 .. 1 = {1}
        BY DEF Sequence
      <4>2. IsStep(s, {1}) /\ s.rule = 1 /\ s.last = 0
        BY DEF IsStep, NULL
      <4>3. used' = {1} /\ walk' = w
        BY <1>1, <3>1
      <4> HIDE DEF s, w
      <4>4. AreSteps(walk', used')
        BY <4>1, <4>2, <4>3 DEF AreSteps
      <4>5. ASSUME NEW n \in refs[1]
            PROVE  ToCome(1, n)'
        <5>1. n > 0
          <6>1. refs[1] \subseteq 1 .. Len(heap) /\ Len(heap) \in Nat
            BY <1>1, <1>2, <1>4, <3>1, HeapFacts DEF RefsInv, NodeInv, Nodes
          <6> QED
            BY <6>1
        <5> QED
          BY <4>1, <4>2, <4>3, <5>1 DEF ToCome
      <4> QED
        BY <4>3, <4>4, <4>5
    <3>2. CASE ~(NumRules > 0)
      <4>1. used' = {} /\ walk' = <<>>
        BY <1>1, <1>5, <3>2
      <4>2. Sequence(<<>>) /\ Len(<<>>) = 0 /\ 1 .. 0 = {}
        BY EmptySeq DEF Sequence
      <4> QED
        BY <4>1, <4>2 DEF AreSteps
    <3> QED
      BY <3>1, <3>2
  <2> QED
    BY <1>1, <1>4, <1>6, <2>2, <2>3 DEF MarkInv
<1> QED
  BY <1>3, <1>7, <1>8 DEF RuleInv, LinkInv

\* The call at the end of the walk.
LEMMA AboveIs ==
  ASSUME NodeInv, RefsInv, MarkInv, pc = "mark", walk # <<>>, used \subseteq Rule
  PROVE  /\ Len(walk) \in Nat \ {0} /\ Sequence(walk) /\ Above = walk[Len(walk)]
         /\ Above = [rule |-> Above.rule, last |-> Above.last]
         /\ Above.rule \in used /\ Above.last \in Nat
         /\ Sequence(Below) /\ Len(Below) = Len(walk) - 1
         /\ \A k \in 1 .. (Len(walk) - 1) : Below[k] = walk[k]
         /\ Ahead \subseteq Nat
<1>1. Sequence(walk) /\ \A k \in 1 .. Len(walk) : IsStep(walk[k], used)
  BY DEF MarkInv, AreSteps
<1>2. /\ Len(walk) \in Nat \ {0} /\ Above = walk[Len(walk)]
      /\ Sequence(Below) /\ Len(Below) = Len(walk) - 1
      /\ \A k \in 1 .. (Len(walk) - 1) : Below[k] = walk[k]
  BY <1>1, FrontOf DEF Above, Below, Last
<1>3. Len(walk) \in 1 .. Len(walk)
  BY <1>2
<1>4. IsStep(Above, used)
  BY <1>1, <1>2, <1>3
<1>5. refs[Above.rule] \subseteq 1 .. Len(heap)
  BY <1>4 DEF IsStep, RefsInv, Nodes
<1> QED
  BY <1>1, <1>2, <1>4, <1>5 DEF IsStep, Ahead

LEMMA MarkReferenceStep ==
  ASSUME RuleInv, MarkReference
  PROVE  RuleInv'
<1> DEFINE L == Len(walk)
           m == Min(Ahead)
           t == link[Above.rule][m]
           g == [Above EXCEPT !.last = m]
           walked == Append(Below, g)
<1>1. /\ pc = "mark" /\ pc' = "mark" /\ i' = i /\ walk # <<>> /\ Ahead # {}
      /\ stack' = stack /\ ret' = ret /\ rules' = rules /\ rule' = rule /\ heap' = heap
      /\ refs' = refs /\ rulehash' = rulehash /\ ref' = ref /\ link' = link /\ kept' = kept
      /\ Enters(t) => used' = used \cup {t} /\ walk' = Append(walked, [rule |-> t, last |-> NULL])
      /\ ~ Enters(t) => walk' = walked /\ used' = used
  BY DEF MarkReference, readVars
<1>2. NodeInv /\ PhaseInv /\ RefsInv /\ LinksInv /\ MarkInv /\ Fixed
  BY <1>1 DEF RuleInv, LinkInv, Fixed
<1>3. NodeInv' /\ RefsInv' /\ TableInv' /\ LinksInv' /\ RefInv'
  BY <1>1, WalkGoesOn
<1>4. Rule' = Rule /\ NumRules' = NumRules /\ used \subseteq Rule
  BY <1>2, Still DEF PhaseInv
<1>5. /\ L \in Nat \ {0} /\ Sequence(walk) /\ Above = walk[L]
      /\ Above = [rule |-> Above.rule, last |-> Above.last]
      /\ Above.rule \in used /\ Above.last \in Nat
      /\ Sequence(Below) /\ Len(Below) = L - 1
      /\ \A k \in 1 .. (L - 1) : Below[k] = walk[k]
      /\ Ahead \subseteq Nat
  BY <1>1, <1>2, <1>4, AboveIs
<1>6. m \in Ahead /\ \A n \in Ahead : m <= n
  BY <1>1, <1>5, MinOf
<1>7. m \in refs[Above.rule] /\ m \in Nat /\ Above.rule \in Rule
  BY <1>4, <1>5, <1>6 DEF Ahead
<1>8. t = IF Unique(Above.rule) THEN Lead(m) ELSE NULL
  BY <1>1, <1>2, <1>7, LinkedIs
<1>9. t \in Rule \cup {NULL}
  BY <1>2, <1>8, LeadIs
<1>10. g = [rule |-> Above.rule, last |-> m]
  BY <1>5
<1> HIDE DEF t, m, g
<1>11. /\ Sequence(walked) /\ Len(walked) = L /\ walked[L] = g
       /\ \A k \in 1 .. (L - 1) : walked[k] = walk[k]
  <2>1. (L - 1) + 1 = L
    BY <1>5
  <2>2. /\ Sequence(Append(Below, g)) /\ Len(Append(Below, g)) = Len(Below) + 1
        /\ Append(Below, g)[Len(Below) + 1] = g
        /\ \A k \in 1 .. Len(Below) : Append(Below, g)[k] = Below[k]
    BY <1>5, Appended
  <2> QED
    BY <1>5, <2>1, <2>2
<1> HIDE DEF walked
<1>12. /\ Sequence(walk')
       /\ \A k \in 1 .. L : k \in 1 .. Len(walk') /\ walk'[k] = walked[k]
       /\ ~ Enters(t) => Len(walk') = L
       /\ Enters(t) => Len(walk') = L + 1 /\ walk'[L + 1] = [rule |-> t, last |-> NULL]
  <2>1. CASE Enters(t)
    <3> DEFINE e == [rule |-> t, last |-> NULL]
    <3> HIDE DEF e
    <3>1. walk' = Append(walked, e)
      BY <1>1, <2>1 DEF e
    <3>2. /\ Sequence(Append(walked, e)) /\ Len(Append(walked, e)) = Len(walked) + 1
          /\ Append(walked, e)[Len(walked) + 1] = e
          /\ \A k \in 1 .. Len(walked) : Append(walked, e)[k] = walked[k]
      BY <1>11, Appended
    <3>3. \A k \in 1 .. L : k \in 1 .. (L + 1)
      BY <1>5
    <3> QED
      BY <1>11, <2>1, <3>1, <3>2, <3>3 DEF e
  <2>2. CASE ~ Enters(t)
    BY <1>1, <1>11, <2>2
  <2> QED
    BY <2>1, <2>2
<1>13. /\ used \subseteq used' /\ used' \subseteq Rule
       /\ t \in used' \cup {NULL}
       /\ \A r \in used' : r \in used \/ (Enters(t) /\ r = t)
  BY <1>1, <1>4, <1>9 DEF Enters
<1>14. PhaseInv'
  BY <1>1, <1>2, <1>4, <1>13 DEF PhaseInv, Phases, Kept
<1>15. AreSteps(walk', used')
  <2> SUFFICES ASSUME NEW k \in 1 .. Len(walk')
               PROVE  IsStep(walk'[k], used')
    BY <1>12 DEF AreSteps
  <2>1. k \in 1 .. (L - 1) \/ k = L \/ (Enters(t) /\ k = L + 1)
    BY <1>5, <1>12
  <2>2. CASE k \in 1 .. (L - 1)
    <3>1. k \in 1 .. L
      BY <1>5, <2>2
    <3>2. walk'[k] = walk[k] /\ IsStep(walk[k], used)
      BY <1>1, <1>2, <1>11, <1>12, <2>2, <3>1 DEF MarkInv, AreSteps
    <3> QED
      BY <1>13, <3>2 DEF IsStep
  <2>3. CASE k = L
    <3>1. k \in 1 .. L
      BY <1>5, <2>3
    <3>2. walk'[k] = [rule |-> Above.rule, last |-> m]
      BY <1>10, <1>11, <1>12, <2>3, <3>1
    <3> QED
      BY <1>5, <1>7, <1>13, <3>2 DEF IsStep
  <2>4. CASE Enters(t) /\ k = L + 1
    <3>1. walk'[k] = [rule |-> t, last |-> NULL] /\ t \in used'
      BY <1>12, <1>13, <2>4 DEF Enters
    <3> QED
      BY <3>1 DEF IsStep, NULL
  <2> QED
    BY <2>1, <2>2, <2>3, <2>4
<1>16. \A S \in SUBSET Rule : Closed(S)' => used' \subseteq S
  <2> SUFFICES ASSUME NEW S \in SUBSET Rule, Closed(S)'
               PROVE  used' \subseteq S
    OBVIOUS
  <2>1. Closed(S)
    BY <1>1, <1>2, StillClosed DEF NodeInv
  <2>2. used \subseteq S
    BY <1>1, <1>2, <2>1 DEF MarkInv
  <2>3. Enters(t) => t \in S
    <3> SUFFICES ASSUME Enters(t)
                 PROVE  t \in S
      OBVIOUS
    <3>1. t # NULL /\ Unique(Above.rule) /\ t = Lead(m)
      BY <1>8 DEF Enters
    <3>2. t \in LeadsTo(Above.rule)
      BY <1>2, <1>7, <3>1, LeadsToIs
    <3> QED
      BY <1>5, <2>1, <2>2, <3>2 DEF Closed
  <2> QED
    BY <1>13, <2>2, <2>3
<1>17. ASSUME NEW r \in used', NEW n \in refs[r]
       PROVE  link[r][n] \in used' \cup {NULL} \/ ToCome(r, n)'
  <2>1. n \in Nat /\ n > 0
    <3>1. refs[r] \subseteq 1 .. Len(heap) /\ Len(heap) \in Nat
      BY <1>1, <1>2, <1>13, HeapFacts DEF RefsInv, NodeInv, Nodes
    <3> QED
      BY <3>1
  <2>2. CASE r \in used
    <3>1. CASE link[r][n] \in used \cup {NULL}
      BY <1>13, <3>1
    <3>2. CASE ToCome(r, n)
      <4>1. PICK k \in 1 .. L : walk[k].rule = r /\ n > walk[k].last
        BY <3>2 DEF ToCome
      <4>2. CASE k \in 1 .. (L - 1)
        <5>1. walk'[k] = walk[k] /\ k \in 1 .. Len(walk')
          BY <1>11, <1>12, <4>2
        <5> QED
          BY <4>1, <5>1 DEF ToCome
      <4>3. CASE k \notin 1 .. (L - 1)
        <5>1. k = L
          BY <1>5, <4>3
        <5>2. n \in Ahead /\ r = Above.rule
          BY <1>5, <4>1, <5>1 DEF Ahead
        <5>3. CASE n = m
          BY <1>13, <5>2, <5>3 DEF t
        <5>4. CASE n # m
          <6>1. n > m
            BY <1>6, <1>7, <2>1, <5>2, <5>4
          <6>2. walk'[k].rule = r /\ walk'[k].last = m /\ k \in 1 .. Len(walk')
            BY <1>10, <1>11, <1>12, <5>1, <5>2
          <6> QED
            BY <6>1, <6>2 DEF ToCome
        <5> QED
          BY <5>3, <5>4
      <4> QED
        BY <4>2, <4>3
    <3> QED
      BY <1>1, <1>2, <2>2, <3>1, <3>2 DEF MarkInv
  <2>3. CASE r \notin used
    <3>1. Enters(t) /\ r = t
      BY <1>13, <2>3
    <3>2. L + 1 \in 1 .. Len(walk') /\ walk'[L + 1].rule = r /\ walk'[L + 1].last = 0
      BY <1>5, <1>12, <3>1 DEF NULL
    <3> QED
      BY <2>1, <3>2 DEF ToCome
  <2> QED
    BY <2>2, <2>3
<1>18. MarkInv'
  <2>1. NumRules > 0 => 1 \in used'
    BY <1>1, <1>2, <1>13 DEF MarkInv
  <2> QED
    BY <1>1, <1>4, <1>15, <1>16, <1>17, <2>1 DEF MarkInv
<1> QED
  BY <1>3, <1>14, <1>18 DEF RuleInv, LinkInv

LEMMA MarkReturnStep ==
  ASSUME RuleInv, MarkReturn
  PROVE  RuleInv'
<1> DEFINE L == Len(walk)
<1>1. /\ pc = "mark" /\ pc' = "mark" /\ i' = i /\ walk # <<>> /\ Ahead = {} /\ walk' = Below
      /\ stack' = stack /\ ret' = ret /\ rules' = rules /\ rule' = rule /\ heap' = heap
      /\ refs' = refs /\ ref' = ref /\ link' = link /\ used' = used /\ kept' = kept
  BY DEF MarkReturn, readVars
<1>2. NodeInv /\ PhaseInv /\ RefsInv /\ MarkInv /\ Fixed
  BY <1>1 DEF RuleInv, LinkInv, Fixed
<1>3. NodeInv' /\ RefsInv' /\ TableInv' /\ LinksInv' /\ RefInv'
  BY <1>1, WalkGoesOn
<1>4. Rule' = Rule /\ NumRules' = NumRules /\ used \subseteq Rule
  BY <1>2, Still DEF PhaseInv
<1>5. PhaseInv'
  BY <1>1, <1>2, <1>4 DEF PhaseInv, Phases, Kept
<1>6. /\ L \in Nat \ {0} /\ Above = walk[L]
      /\ Sequence(Below) /\ Len(Below) = L - 1
      /\ \A k \in 1 .. (L - 1) : Below[k] = walk[k]
  BY <1>1, <1>2, <1>4, AboveIs
<1>7. \A k \in 1 .. (L - 1) : k \in 1 .. L
  BY <1>6
<1>8. AreSteps(walk', used)
  BY <1>1, <1>2, <1>6, <1>7 DEF MarkInv, AreSteps
<1>9. \A S \in SUBSET Rule : Closed(S)' => used \subseteq S
  <2>1. \A S : S \subseteq Rule => (Closed(S)' <=> Closed(S))
    BY <1>1, <1>2, StillClosed DEF NodeInv
  <2> QED
    BY <1>1, <1>2, <2>1 DEF MarkInv
<1>10. ASSUME NEW r \in used, NEW n \in refs[r]
       PROVE  link[r][n] \in used \cup {NULL} \/ ToCome(r, n)'
  <2>1. CASE ToCome(r, n)
    <3>1. PICK k \in 1 .. L : walk[k].rule = r /\ n > walk[k].last
      BY <2>1 DEF ToCome
    <3>2. k # L
      BY <1>1, <1>6, <3>1 DEF Ahead
    <3>3. k \in 1 .. (L - 1)
      BY <1>6, <3>2
    <3>4. k \in 1 .. Len(walk') /\ walk'[k] = walk[k]
      BY <1>1, <1>6, <3>3
    <3> QED
      BY <3>1, <3>4 DEF ToCome
  <2>2. CASE ~ ToCome(r, n)
    BY <1>1, <1>2, <2>2 DEF MarkInv
  <2> QED
    BY <2>1, <2>2
<1>11. MarkInv'
  <2>1. NumRules > 0 => 1 \in used
    BY <1>1, <1>2 DEF MarkInv
  <2> QED
    BY <1>1, <1>4, <1>8, <1>9, <1>10, <2>1 DEF MarkInv
<1> QED
  BY <1>3, <1>5, <1>11 DEF RuleInv, LinkInv

LEMMA MarkEndStep ==
  ASSUME RuleInv, MarkEnd
  PROVE  RuleInv'
<1>1. /\ pc = "mark" /\ pc' = "unref" /\ i' = 1 /\ walk = <<>>
      /\ stack' = stack /\ ret' = ret /\ rules' = rules /\ rule' = rule /\ heap' = heap
      /\ refs' = refs /\ ref' = ref /\ link' = link /\ used' = used /\ walk' = walk /\ kept' = kept
  BY DEF MarkEnd, Leave, readVars
<1>2. NodeInv /\ PhaseInv /\ RefsInv /\ LinksInv /\ RefInv /\ MarkInv /\ Fixed
  BY <1>1 DEF RuleInv, LinkInv, Fixed
<1>3. Rule' = Rule /\ (\A r \in Rule : Unique(r)' <=> Unique(r)) /\ \A r \in Rule : r >= 1
  BY <1>2, Still, RuleIs
<1>4. NodeInv'
  BY <1>1, <1>2, NodesStay DEF NodeInv, RulesHeld
<1>5. PhaseInv'
  BY <1>1, <1>2, <1>3 DEF PhaseInv, Phases, Kept
<1>6. RefsInv' /\ TableInv'
  BY <1>1, <1>2, RefsStay DEF TableInv
<1>7. \A r \in Rule : Linked(r)' <=> Linked(r)
  BY <1>1, <1>3 DEF Linked
<1>8. LinksInv'
  BY <1>1, <1>2, <1>7, LinksStay
<1>9. Counted' = Counted
  BY <1>1, <1>3, <1>7 DEF Counted, Counts, Kept
<1>10. RefInv'
  BY <1>1, <1>2, <1>9, RefStays
<1>11. MarkInv'
  BY <1>1, <1>2, MarkStays DEF PhaseInv
<1> QED
  BY <1>4, <1>5, <1>6, <1>8, <1>10, <1>11 DEF RuleInv, LinkInv

-----------------------------------------------------------------------------
(* Unused rules.                                                            *)

LEMMA UnreferenceRulesStep ==
  ASSUME RuleInv, UnreferenceRules
  PROVE  RuleInv'
<1>1. /\ pc = "unref" /\ pc' = "unref" /\ i <= NumRules /\ i' = i + 1
      /\ stack' = stack /\ ret' = ret /\ rules' = rules /\ rule' = rule /\ heap' = heap
      /\ refs' = refs /\ link' = link /\ used' = used /\ walk' = walk /\ kept' = kept
      /\ ref' = IF i \in used THEN ref ELSE Unreferred(i)
  BY DEF UnreferenceRules, Turn, readVars
<1>2. NodeInv /\ PhaseInv /\ RefsInv /\ LinksInv /\ RefInv /\ MarkInv /\ Fixed
  BY <1>1 DEF RuleInv, LinkInv, Fixed
<1>3. /\ Rule' = Rule /\ (\A r \in Rule : Unique(r)' <=> Unique(r))
      /\ Rule = 1 .. NumRules /\ NumRules \in Nat /\ i \in Nat \ {0} /\ i \in Rule /\ NULL \notin Rule
  BY <1>1, <1>2, Still, RuleIs DEF PhaseInv
<1>4. NodeInv'
  BY <1>1, <1>2, NodesStay DEF NodeInv, RulesHeld
<1>5. PhaseInv'
  BY <1>1, <1>2, <1>3 DEF PhaseInv, Phases, Kept
<1>6. RefsInv' /\ TableInv'
  BY <1>1, <1>2, RefsStay DEF TableInv
<1>7. \A r \in Rule : (Linked(r)' <=> Unique(r)) /\ (Linked(r) <=> Unique(r))
  BY <1>1, <1>3 DEF Linked
<1>8. LinksInv'
  BY <1>1, <1>2, <1>7, LinksStay
<1>9. MarkInv'
  BY <1>1, <1>2, MarkStays DEF PhaseInv, MarkInv
<1>10. \A r \in Rule : (r >= i <=> r >= i + 1 \/ r = i) /\ ~(i >= i + 1)
  BY <1>3
<1>11. /\ Counted = {r \in Rule : Unique(r) /\ (r \in used \/ r >= i)}
       /\ Counted' = {r \in Rule : Unique(r) /\ (r \in used \/ r >= i + 1)}
       /\ Counted' \in SUBSET Rule
  BY <1>1, <1>3, <1>7 DEF Counted, Counts, Kept
<1>12. RefInv'
  <2>1. CASE i \in used
    <3>1. Counted' = Counted
      BY <1>10, <1>11, <2>1
    <3> QED
      BY <1>1, <1>2, <2>1, <3>1, RefStays
  <2>2. CASE i \notin used
    <3>1. /\ ref = [t \in Rule |-> IF Unique(t) THEN Cardinality(ReferencesTo(t, Counted)) ELSE -1]
          /\ ref' = [t \in Rule |-> IF ref[t] <= 0 THEN ref[t]
                                    ELSE IF ref[t] <= Times(i, link[i], t) THEN 0
                                    ELSE ref[t] - Times(i, link[i], t)]
      BY <1>1, <1>2, <2>2 DEF RefInv, Unreferred
    <3> DEFINE S == Counted'
    <3>2. S \in SUBSET Rule /\ i \notin S
      BY <1>10, <1>11, <2>2
    <3>3. \A t : /\ Cardinality(ReferencesTo(t, S)) \in Nat /\ Cardinality(From(i, t)) \in Nat
                 /\ Cardinality(ReferencesTo(t, S \cup {i})) =
                      Cardinality(ReferencesTo(t, S)) + Cardinality(From(i, t))
      <4> HIDE DEF S
      <4> QED
        BY <1>1, <1>2, <1>3, <3>2, OneMore
    <3>4. \A n \in refs[i] : link[i][n] = IF Unique(i) THEN Lead(n) ELSE NULL
      BY <1>1, <1>2, <1>3, LinkedIs
    <3>5. ASSUME NEW t \in Rule
          PROVE  ref'[t] = IF Unique(t) THEN Cardinality(ReferencesTo(t, S)) ELSE -1
      <4>1. CASE ~ Unique(t)
        BY <3>1, <4>1
      <4>2. CASE Unique(t) /\ Unique(i)
        <5>1. Counted = S \cup {i}
          BY <1>3, <1>10, <1>11, <4>2
        <5>2. Times(i, link[i], t) = Cardinality(From(i, t))
          BY <1>2, <3>4, <4>2, TimesIs
        <5>3. ref[t] = Cardinality(ReferencesTo(t, S)) + Cardinality(From(i, t))
          <6>1. ref[t] = Cardinality(ReferencesTo(t, S \cup {i}))
            BY <3>1, <4>2, <5>1
          <6> QED
            BY <3>3, <6>1
        <5>4. \A a, b \in Nat : (IF a + b <= 0 THEN a + b ELSE IF a + b <= b THEN 0 ELSE a + b - b) = a
          OBVIOUS
        <5>5. ref'[t] = IF ref[t] <= 0 THEN ref[t]
                        ELSE IF ref[t] <= Times(i, link[i], t) THEN 0
                        ELSE ref[t] - Times(i, link[i], t)
          BY <3>1
        <5> HIDE DEF S
        <5> QED
          BY <3>3, <4>2, <5>2, <5>3, <5>4, <5>5
      <4>3. CASE Unique(t) /\ ~ Unique(i)
        <5>1. Counted = S
          BY <1>10, <1>11, <4>3
        <5>2. {n \in refs[i] : link[i][n] = t} = {}
          BY <1>3, <3>4, <4>3
        <5>3. Times(i, link[i], t) = 0
          BY <5>2, FS_EmptySet DEF Times
        <5>4. ref[t] = Cardinality(ReferencesTo(t, S))
          BY <3>1, <4>3, <5>1
        <5>5. \A a \in Nat : (IF a <= 0 THEN a ELSE IF a <= 0 THEN 0 ELSE a - 0) = a
          OBVIOUS
        <5>6. ref'[t] = IF ref[t] <= 0 THEN ref[t]
                        ELSE IF ref[t] <= Times(i, link[i], t) THEN 0
                        ELSE ref[t] - Times(i, link[i], t)
          BY <3>1
        <5> HIDE DEF S
        <5> QED
          BY <3>3, <4>3, <5>3, <5>4, <5>5, <5>6
      <4> QED
        BY <4>1, <4>2, <4>3
    <3>6. ref' = [t \in Rule |-> IF Unique(t) THEN Cardinality(ReferencesTo(t, S)) ELSE -1]
      <4>1. ref' = [t \in Rule |-> ref'[t]]
        BY <3>1
      <4> HIDE DEF S
      <4> QED
        BY <3>5, <4>1
    <3>7. Counted' = S /\ pc # "read" /\ pc' \notin {"read", "hash"}
      BY <1>1
    <3> HIDE DEF S
    <3> QED
      BY <1>2, <3>2, <3>6, <3>7, CountsAre
  <2> QED
    BY <2>1, <2>2
<1> QED
  BY <1>4, <1>5, <1>6, <1>8, <1>9, <1>12 DEF RuleInv, LinkInv

\* The rules that are moved up are those used.
LEMMA MovedUpIs ==
  ASSUME NodeInv, kept = [r \in Rule |-> r], used \subseteq Rule
  PROVE  ToSet(MovedUp) = used
<1> DEFINE N == NumRules
           X == Seq(Rule)
           Fits(f) == f = [k \in 0 .. Len(kept) |->
                             IF k = 0 THEN <<>>
                             ELSE IF kept[k] \in Unused THEN f[k - 1] ELSE Append(f[k - 1], kept[k])]
           moved == CHOOSE f : Fits(f)
           Step == [k \in 1 .. N |-> [s \in X |-> IF k \in Unused THEN s ELSE Append(s, k)]]
<1>1. N \in Nat /\ Rule = 1 .. N
  BY RuleIs
<1>2. Len(kept) = N /\ \A k \in 1 .. N : kept[k] = k
  BY <1>1
<1>3. <<>> \in X /\ Step \in [1 .. N -> [X -> X]]
  <2>1. \A k \in 1 .. N : \A s \in X : Append(s, k) \in X
    BY <1>1
  <2>2. <<>> \in X
    OBVIOUS
  <2> HIDE DEF X, N
  <2> QED
    BY <2>1, <2>2
<1> HIDE DEF X
<1>4. PICK f \in [0 .. N -> X] : Iterate(f, N, <<>>, Step)
  <2> HIDE DEF Step, N
  <2> QED
    BY <1>1, <1>3, Iterates
<1>5. \A k \in 0 .. N : f[k] = IF k = 0 THEN <<>>
                               ELSE IF k \in Unused THEN f[k - 1] ELSE Append(f[k - 1], k)
  <2>1. \A k \in 0 .. N : k # 0 => k \in 1 .. N /\ k - 1 \in 0 .. N
    BY <1>1
  <2>2. \A k \in 1 .. N : \A s \in X : Step[k][s] = IF k \in Unused THEN s ELSE Append(s, k)
    OBVIOUS
  <2>3. \A k \in 0 .. N : f[k] = IF k = 0 THEN <<>> ELSE Step[k][f[k - 1]]
    BY <1>4 DEF Iterate
  <2> HIDE DEF Step, N
  <2>4. \A k \in 0 .. N : k # 0 => f[k - 1] \in X
    BY <2>1
  <2> QED
    BY <2>1, <2>2, <2>3, <2>4
<1>6. Fits(f)
  <2>1. \A k \in 0 .. N : k # 0 => kept[k] = k
    BY <1>1, <1>2
  <2> HIDE DEF N, Step
  <2>2. f = [k \in 0 .. N |-> IF k = 0 THEN <<>>
                              ELSE IF kept[k] \in Unused THEN f[k - 1] ELSE Append(f[k - 1], kept[k])]
    BY <1>5, <2>1
  <2> QED
    BY <1>2, <2>2
<1>7. Fits(moved)
  <2> HIDE DEF Fits
  <2> QED
    BY <1>6
<1>8. MovedUp = moved[Len(kept)]
  BY DEF MovedUp
<1> HIDE DEF moved, Step
<1>9. \A k \in 0 .. N : moved[k] = IF k = 0 THEN <<>>
                                   ELSE IF k \in Unused THEN moved[k - 1] ELSE Append(moved[k - 1], k)
  <2>1. \A k \in 0 .. N : k # 0 => kept[k] = k
    BY <1>1, <1>2
  <2> HIDE DEF N
  <2> QED
    BY <1>2, <1>7, <2>1
<1>10. \A k \in 0 .. N : moved[k] \in Seq(Nat) /\ ToSet(moved[k]) = used \cap (1 .. k)
  <2> DEFINE S == {k \in 0 .. N : moved[k] \in Seq(Nat) /\ ToSet(moved[k]) = used \cap (1 .. k)}
  <2>1. 0 \in S
    <3>1. moved[0] = <<>> /\ 0 \in 0 .. N
      BY <1>1, <1>9
    <3>2. ToSet(<<>>) = {} /\ 1 .. 0 = {} /\ <<>> \in Seq(Nat)
      BY DEF ToSet
    <3> QED
      BY <3>1, <3>2
  <2>2. ASSUME NEW k \in 0 .. N, k # N, k \in S
        PROVE  k + 1 \in S
    <3>1. /\ k + 1 \in 0 .. N /\ k + 1 # 0 /\ (k + 1) - 1 = k /\ k + 1 \in Nat
          /\ 1 .. (k + 1) = (1 .. k) \cup {k + 1} /\ k + 1 \in Rule
      BY <1>1, <2>2
    <3>2. moved[k + 1] = IF k + 1 \in Unused THEN moved[k] ELSE Append(moved[k], k + 1)
      BY <1>9, <3>1
    <3>3. k + 1 \in Unused <=> k + 1 \notin used
      BY <3>1 DEF Unused
    <3>4. moved[k] \in Seq(Nat) /\ ToSet(moved[k]) = used \cap (1 .. k)
      BY <2>2
    <3> HIDE DEF S, N
    <3>5. CASE k + 1 \in Unused
      <4>1. moved[k + 1] = moved[k] /\ used \cap (1 .. (k + 1)) = used \cap (1 .. k)
        BY <3>1, <3>2, <3>3, <3>5
      <4> QED
        BY <3>1, <3>4, <4>1 DEF S
    <3>6. CASE k + 1 \notin Unused
      <4> DEFINE s == moved[k]
      <4>1. moved[k + 1] = Append(s, k + 1) /\ used \cap (1 .. (k + 1)) = (used \cap (1 .. k)) \cup {k + 1}
        BY <3>1, <3>2, <3>3, <3>6
      <4>2. Sequence(s) /\ s \in Seq(Nat)
        BY <3>4, SequenceIn
      <4>3. /\ Sequence(Append(s, k + 1)) /\ Len(Append(s, k + 1)) = Len(s) + 1
            /\ Append(s, k + 1)[Len(s) + 1] = k + 1
            /\ \A j \in 1 .. Len(s) : Append(s, k + 1)[j] = s[j]
        BY <4>2, Appended
      <4>4. Append(s, k + 1) \in Seq(Nat)
        BY <3>1, <4>2
      <4>5. DOMAIN s = 1 .. Len(s) /\ DOMAIN Append(s, k + 1) = 1 .. (Len(s) + 1)
        BY <4>2, <4>3, DomainOf
      <4>6. 1 .. (Len(s) + 1) = (1 .. Len(s)) \cup {Len(s) + 1}
        BY <4>2 DEF Sequence
      <4> HIDE DEF s
      <4>7. ToSet(Append(s, k + 1)) = ToSet(s) \cup {k + 1}
        BY <4>3, <4>5, <4>6 DEF ToSet
      <4> QED
        BY <3>1, <3>4, <4>1, <4>4, <4>7 DEF S, s
    <3> QED
      BY <3>5, <3>6
  <2> HIDE DEF S, N
  <2>3. \A k \in 0 .. N : k \in S
    BY <1>1, <2>1, <2>2, Upwards
  <2> QED
    BY <2>3 DEF S
<1>11. N \in 0 .. N /\ used \cap (1 .. N) = used
  <2>1. used \cap Rule = used
    OBVIOUS
  <2>2. N \in 0 .. N
    BY <1>1
  <2> QED
    BY <1>1, <2>1, <2>2
<1> QED
  BY <1>2, <1>8, <1>10, <1>11

LEMMA CompactStep ==
  ASSUME RuleInv, Compact
  PROVE  RuleInv'
<1>1. /\ pc = "unref" /\ pc' = "rvars" /\ i > NumRules /\ i' = 1
      /\ stack' = stack /\ ret' = ret /\ rules' = rules /\ rule' = rule
      /\ refs' = refs /\ ref' = ref /\ link' = link /\ used' = used /\ walk' = walk
      /\ heap' = Destroyed(heap, UNION {Family(heap, rules[r].expr) : r \in Unused})
      /\ kept' = MovedUp
  BY DEF Compact, Leave
<1>2. NodeInv /\ PhaseInv /\ RefsInv /\ LinksInv /\ RefInv /\ MarkInv
  BY DEF RuleInv, LinkInv
<1>3. /\ NumRules \in Nat /\ Rule = 1 .. NumRules /\ NumRules = Len(rules)
      /\ kept = [r \in Rule |-> r] /\ used \subseteq Rule
  BY <1>1, <1>2, RuleIs DEF PhaseInv, NumRules
<1>4. ToSet(kept') = used /\ RulesHeld' = used
  <2>1. ToSet(kept') = used
    BY <1>1, <1>2, <1>3, MovedUpIs
  <2> QED
    BY <1>1, <2>1 DEF RulesHeld
<1>5. RulesHeld = Rule
  <2>1. ToSet(kept) = Rule
    BY <1>3 DEF ToSet
  <2> QED
    BY <1>1, <2>1 DEF RulesHeld
<1>6. stack = <<>> /\ 1 .. Len(stack) = {} /\ ret = NULL
  <2>1. stack = <<>>
    BY <1>1, <1>2 DEF NodeInv
  <2>2. Len(<<>>) = 0
    BY EmptySeq
  <2> QED
    BY <1>2, <2>1, <2>2 DEF NodeInv, StackOK
<1>7. \A r \in Rule : /\ rules[r].expr # NULL
                      /\ \A t \in Rule : rules[r].expr = rules[t].expr => r = t
  BY <1>2, <1>5 DEF NodeInv, Apart
<1> DEFINE K == {rules[r].expr : r \in Unused}
<1>8. /\ Roots = {rules[r].expr : r \in Rule} /\ Roots' = {rules[r].expr : r \in used}
      /\ K \in SUBSET Roots /\ Roots' = Roots \ K
  <2>1. Roots = {rules[r].expr : r \in Rule}
    BY <1>5, <1>6, <1>7 DEF Roots
  <2>2. Roots' = {rules[r].expr : r \in used}
    BY <1>1, <1>3, <1>4, <1>6, <1>7 DEF Roots
  <2>3. K \in SUBSET Roots
    BY <2>1 DEF Unused
  <2>4. Roots' = Roots \ K
    BY <1>3, <1>7, <2>1, <2>2 DEF Unused
  <2> QED
    BY <2>1, <2>2, <2>3, <2>4
<1>9. UNION {Family(heap, n) : n \in K} = UNION {Family(heap, rules[r].expr) : r \in Unused}
  OBVIOUS
<1> HIDE DEF K
<1>10. /\ IsHeap(heap') /\ Forest(heap', Roots') /\ Len(heap') = Len(heap)
       /\ \A n \in Nodes(heap) : heap'[n].node = heap[n].node
  <2>1. IsHeap(heap) /\ Forest(heap, Roots)
    BY <1>2 DEF NodeInv
  <2>2. heap' = Destroyed(heap, UNION {Family(heap, n) : n \in K})
    BY <1>1, <1>9
  <2>3. K \in SUBSET Roots
    BY <1>8
  <2>4. ASSUME NEW h, IsHeap(h), Forest(h, Roots)
        PROVE  /\ IsHeap(Destroyed(h, UNION {Family(h, n) : n \in K}))
               /\ Forest(Destroyed(h, UNION {Family(h, n) : n \in K}), Roots \ K)
               /\ \A m \in Nodes(h) :
                    Destroyed(h, UNION {Family(h, n) : n \in K})[m].node = h[m].node
               /\ Len(Destroyed(h, UNION {Family(h, n) : n \in K})) = Len(h)
    BY ONLY <2>3, <2>4, DestroyRoots, Zenon
  <2>5. /\ IsHeap(Destroyed(heap, UNION {Family(heap, n) : n \in K}))
        /\ Forest(Destroyed(heap, UNION {Family(heap, n) : n \in K}), Roots \ K)
        /\ \A m \in Nodes(heap) :
             Destroyed(heap, UNION {Family(heap, n) : n \in K})[m].node = heap[m].node
        /\ Len(Destroyed(heap, UNION {Family(heap, n) : n \in K})) = Len(heap)
    BY ONLY <2>1, <2>4, Zenon
  <2>6. Roots' = Roots \ K
    BY <1>8
  <2> QED
    BY ONLY <2>2, <2>5, <2>6, Zenon
<1>11. Fixed
  <2>1. DOMAIN heap = Nodes(heap) /\ DOMAIN heap' = Nodes(heap')
    BY <1>2, <1>10, HeapFacts DEF NodeInv
  <2> QED
    BY <1>1, <1>10, <2>1 DEF Fixed, Nodes
<1>12. Rule' = Rule /\ \A r \in Rule : Unique(r)' <=> Unique(r)
  BY <1>11, Still
<1>13. NodeInv'
  <2>1. Apart'
    BY <1>1, <1>3, <1>4, <1>6, <1>7 DEF Apart
  <2>2. StackOK' /\ RulesOK'
    BY <1>1, <1>2 DEF NodeInv, StackOK, RulesOK, Top, Last
  <2>3. (RulesHeld \subseteq 1 .. Len(rules))' /\ (pc # "read" => stack = <<>>)'
    BY <1>1, <1>3, <1>4, <1>6
  <2> QED
    BY <1>10, <2>1, <2>2, <2>3 DEF NodeInv
<1>14. PhaseInv'
  BY <1>1, <1>2, <1>3, <1>4, <1>12 DEF PhaseInv, Phases, Kept
<1>15. RefsInv' /\ TableInv'
  BY <1>1, <1>2, <1>11, RefsStay DEF TableInv
<1>16. \A r \in Rule : Linked(r)' <=> Linked(r)
  BY <1>1, <1>12 DEF Linked
<1>17. LinksInv'
  BY <1>1, <1>2, <1>11, <1>16, LinksStay
<1>18. Counted' = Counted
  <2>1. \A r \in Rule : ~(r >= i)
    BY <1>1, <1>2, <1>3 DEF PhaseInv
  <2> QED
    BY <1>1, <1>12, <1>16, <2>1 DEF Counted, Counts, Kept
<1>19. RefInv'
  BY <1>1, <1>2, <1>11, <1>18, RefStays
<1>20. MarkInv'
  BY <1>1, <1>2, <1>3, <1>11, MarkStays DEF MarkInv
<1> QED
  BY <1>13, <1>14, <1>15, <1>17, <1>19, <1>20 DEF RuleInv, LinkInv

\* What follows changes errnum, and what RuleChecks adds.
LEMMA KeptStep ==
  ASSUME RuleInv, Kept, Kept', i' \in Nat \ {0},
         rules' = rules, rule' = rule, heap' = heap, stack' = stack, ret' = ret, refs' = refs,
         ref' = ref, link' = link, used' = used, walk' = walk, kept' = kept
  PROVE  RuleInv'
<1>1. NodeInv /\ PhaseInv /\ RefsInv /\ LinksInv /\ RefInv /\ MarkInv /\ Fixed
  BY DEF RuleInv, LinkInv, Fixed
<1>2. /\ pc \in {"rvars", "capts", "mvars", "done"} /\ pc' \in {"rvars", "capts", "mvars", "done"}
      /\ Rule' = Rule /\ \A r \in Rule : Unique(r)' <=> Unique(r)
  BY <1>1, Still DEF Kept
<1>3. NodeInv'
  BY <1>1, <1>2, NodesStay DEF NodeInv, RulesHeld
<1>4. PhaseInv'
  BY <1>1, <1>2 DEF PhaseInv, Phases, Kept
<1>5. RefsInv' /\ TableInv'
  BY <1>1, <1>2, RefsStay DEF TableInv
<1>6. \A r \in Rule : Linked(r)' <=> Linked(r)
  BY <1>2 DEF Linked
<1>7. LinksInv'
  BY <1>1, <1>2, <1>6, LinksStay
<1>8. Counted' = Counted
  BY <1>2, <1>6 DEF Counted, Counts, Kept
<1>9. RefInv'
  BY <1>1, <1>2, <1>8, RefStays
<1>10. MarkInv'
  BY <1>1, <1>2, MarkStays DEF MarkInv, PhaseInv
<1> QED
  BY <1>3, <1>4, <1>5, <1>7, <1>9, <1>10 DEF RuleInv, LinkInv

-----------------------------------------------------------------------------
(* All steps.                                                               *)

\* Reading keeps the nodes, and touches nothing that linking uses.
LEMMA ReadingStep ==
  ASSUME NodeInv, pc = "read", pc' = "read", Reading
  PROVE  NodeInv'
<1>1. CASE Reference
  BY <1>1, ReferenceStep
<1>2. CASE Group
  BY <1>2, GroupStep
<1>3. CASE GroupEnd
  BY <1>3, GroupEndStep
<1>4. CASE Capture
  BY <1>4, CaptureStep
<1>5. CASE CaptureEnd
  BY <1>5, CaptureEndStep
<1>6. CASE Operand
  BY <1>6, OperandStep
<1>7. CASE Literal
  BY <1>7, LiteralStep
<1>8. CASE Action
  BY <1>8, ActionStep
<1>9. CASE NoPrimary
  BY <1>9, NoPrimaryStep
<1>10. CASE Prefix
  BY <1>10, PrefixStep
<1>11. CASE Quantity
  BY <1>11, QuantityStep
<1>12. CASE Error
  BY <1>12, ErrorStep
<1>13. CASE FirstTerm
  BY <1>13, FirstTermStep
<1>14. CASE SecondTerm
  BY <1>14, SecondTermStep
<1>15. CASE NextTerm
  BY <1>15, NextTermStep
<1>16. CASE Alternative
  BY <1>16, AlternativeStep
<1>17. CASE RuleBegin
  BY <1>17, RuleBeginStep
<1>18. CASE RuleEnd
  BY <1>18, RuleEndStep
<1>19. CASE NoRule
  BY <1>19, NoRuleStep
<1> QED
  BY <1>1, <1>2, <1>3, <1>4, <1>5, <1>6, <1>7, <1>8, <1>9, <1>10, <1>11, <1>12, <1>13, <1>14,
     <1>15, <1>16, <1>17, <1>18, <1>19 DEF Reading

LEMMA ReadRulesStep ==
  ASSUME RuleInv, ReadRules
  PROVE  RuleInv'
<1>1. pc = "read" /\ pc' = "read" /\ Reading /\ i' = i /\ used' = used /\ walk' = walk
  BY DEF ReadRules, linkVars
<1>2. NodeInv /\ PhaseInv
  BY DEF RuleInv, LinkInv
<1>3. NodeInv'
  BY <1>1, <1>2, ReadingStep
<1>4. PhaseInv'
  BY <1>1, <1>2 DEF PhaseInv, Phases, Kept
<1>5. RefsInv' /\ TableInv' /\ LinksInv' /\ RefInv' /\ MarkInv'
  BY <1>1 DEF RefsInv, TableInv, LinksInv, RefInv, MarkInv
<1> QED
  BY <1>3, <1>4, <1>5 DEF RuleInv, LinkInv

LEMMA NoStep ==
  ASSUME RuleInv, UNCHANGED vars
  PROVE  RuleInv'
<1>1. /\ pc' = pc /\ i' = i /\ stack' = stack /\ ret' = ret /\ rules' = rules /\ rule' = rule
      /\ heap' = heap /\ refs' = refs /\ rulehash' = rulehash /\ ref' = ref /\ link' = link
      /\ used' = used /\ walk' = walk /\ kept' = kept
  BY DEF vars
<1>2. NodeInv /\ PhaseInv /\ RefsInv /\ TableInv /\ LinksInv /\ RefInv /\ MarkInv /\ Fixed
  BY <1>1 DEF RuleInv, LinkInv, Fixed
<1>3. /\ Rule' = Rule /\ NumRules' = NumRules /\ RulesHeld' = RulesHeld
      /\ \A r \in Rule : Unique(r)' <=> Unique(r)
      /\ \A r : NameOf(r)' = NameOf(r)
  BY <1>1, <1>2, Still DEF RulesHeld
<1>4. NodeInv'
  <2>1. Roots' = Roots
    BY <1>1, <1>3 DEF Roots
  <2>2. Apart' /\ StackOK' /\ RulesOK' /\ (RulesHeld \subseteq 1 .. Len(rules))'
    BY <1>1, <1>2, <1>3 DEF NodeInv, Apart, StackOK, RulesOK, Top, Last
  <2> QED
    BY <1>1, <1>2, <2>1, <2>2 DEF NodeInv
<1>5. PhaseInv'
  BY <1>1, <1>2, <1>3 DEF PhaseInv, Kept
<1>6. CASE pc = "read"
  <2>1. RefsInv' /\ TableInv' /\ LinksInv' /\ RefInv' /\ MarkInv'
    BY <1>1, <1>6 DEF RefsInv, TableInv, LinksInv, RefInv, MarkInv
  <2> QED
    BY <1>4, <1>5, <2>1 DEF RuleInv, LinkInv
<1>7. CASE pc # "read"
  <2>1. RefsInv'
    BY <1>2, <1>7, RefsStay
  <2>2. TableInv'
    <3>1. CASE pc \in {"hash", "link"}
      BY <1>1, <1>2, <3>1, TableStays DEF Entered
    <3>2. CASE pc \notin {"hash", "link"}
      BY <1>1, <3>2 DEF TableInv
    <3> QED
      BY <3>1, <3>2
  <2>3. \A r \in Rule : Linked(r)' <=> Linked(r)
    BY <1>1, <1>3 DEF Linked
  <2>4. LinksInv'
    BY <1>1, <1>2, <1>7, <2>3, LinksStay
  <2>5. Counted' = Counted
    BY <1>1, <1>3, <2>3 DEF Counted, Counts, Kept
  <2>6. RefInv'
    <3>1. CASE pc = "hash"
      <4>1. \A r \in Rule : Repeated(r)' <=> Repeated(r)
        BY <1>1, <1>3 DEF Repeated
      <4> QED
        BY <1>1, <1>2, <1>3, <3>1, <4>1 DEF RefInv
    <3>2. CASE pc # "hash"
      BY <1>1, <1>2, <1>7, <2>5, <3>2, RefStays
    <3> QED
      BY <3>1, <3>2
  <2>7. MarkInv'
    <3>1. CASE pc \in {"hash", "link"}
      BY <1>1, <3>1 DEF MarkInv
    <3>2. CASE pc \notin {"hash", "link"}
      BY <1>1, <1>2, <1>7, <3>2, MarkStays DEF MarkInv, PhaseInv
    <3> QED
      BY <3>1, <3>2
  <2> QED
    BY <1>4, <1>5, <2>1, <2>2, <2>4, <2>6, <2>7 DEF RuleInv, LinkInv
<1> QED
  BY <1>6, <1>7

LEMMA Initially ==
  ASSUME Init
  PROVE  RuleInv
<1>1. /\ stack = <<>> /\ ret = NULL /\ heap = <<>> /\ rule = NewRule(NONE) /\ rules = <<>>
      /\ pc = "read" /\ i = 1 /\ used = {} /\ walk = <<>>
  BY DEF Init, InitReading, InitLinks
<1>2. Len(<<>>) = 0 /\ 1 .. 0 = {} /\ Sequence(<<>>) /\ DOMAIN <<>> = {}
  BY EmptySeq DEF Sequence
<1>3. Rule = {} /\ RulesHeld = {}
  BY <1>1, <1>2 DEF Rule, RulesHeld
<1>4. Roots = {} /\ Apart
  BY <1>1, <1>2, <1>3 DEF Roots, Apart
<1>5. IsHeap(heap) /\ Forest(heap, {})
  BY <1>1, <1>2 DEF IsHeap, Forest, Nodes, Alive
<1>6. StackOK
  BY <1>1, <1>2 DEF StackOK
<1>7. RulesOK
  BY <1>1, <1>2 DEF RulesOK, NewRule, IsRule
<1>8. NodeInv
  BY <1>1, <1>3, <1>4, <1>5, <1>6, <1>7 DEF NodeInv
<1>9. PhaseInv
  BY <1>1 DEF PhaseInv, Phases, Kept
<1>10. RefsInv /\ TableInv /\ LinksInv /\ RefInv /\ MarkInv
  BY <1>1 DEF RefsInv, TableInv, LinksInv, RefInv, MarkInv
<1> QED
  BY <1>8, <1>9, <1>10 DEF RuleInv, LinkInv

LEMMA NextStep ==
  ASSUME RuleInv, [Next]_vars
  PROVE  RuleInv'
<1>1. CASE LinkRules
  <2>1. Linking
    BY <1>1 DEF LinkRules
  <2>2. CASE ReadRules
    BY <2>2, ReadRulesStep
  <2>3. CASE ReadEnd
    BY <2>3, ReadEndStep
  <2>4. CASE MakeRulehash
    BY <2>4, MakeRulehashStep
  <2>5. CASE MakeRulehashEnd
    BY <2>5, MakeRulehashEndStep
  <2>6. CASE LinkReferences
    BY <2>6, LinkReferencesStep
  <2>7. CASE LinkReferencesEnd
    BY <2>7, LinkReferencesEndStep
  <2>8. CASE MarkReference
    BY <2>8, MarkReferenceStep
  <2>9. CASE MarkReturn
    BY <2>9, MarkReturnStep
  <2>10. CASE MarkEnd
    BY <2>10, MarkEndStep
  <2>11. CASE UnreferenceRules
    BY <2>11, UnreferenceRulesStep
  <2>12. CASE Compact
    BY <2>12, CompactStep
  <2> QED
    BY <2>1, <2>2, <2>3, <2>4, <2>5, <2>6, <2>7, <2>8, <2>9, <2>10, <2>11, <2>12 DEF Linking
<1>2. i \in Nat \ {0}
  BY DEF RuleInv, LinkInv, PhaseInv
<1>3. CASE VerifyRuleVariables \/ VerifyCaptures \/ VerifyMarkerVariables
  <2>1. /\ Kept /\ Kept' /\ (i' = i \/ i' = i + 1)
        /\ rules' = rules /\ rule' = rule /\ heap' = heap /\ stack' = stack /\ ret' = ret
        /\ refs' = refs /\ ref' = ref /\ link' = link /\ used' = used /\ walk' = walk /\ kept' = kept
    BY <1>3 DEF VerifyRuleVariables, VerifyCaptures, VerifyMarkerVariables, Turns, Kept, readVars, linkVars
  <2>2. i' \in Nat \ {0}
    BY <1>2, <2>1
  <2> QED
    BY <2>1, <2>2, KeptStep
<1>4. CASE VerifyEnd
  <2>1. /\ Kept /\ Kept' /\ i' = 1
        /\ rules' = rules /\ rule' = rule /\ heap' = heap /\ stack' = stack /\ ret' = ret
        /\ refs' = refs /\ ref' = ref /\ link' = link /\ used' = used /\ walk' = walk /\ kept' = kept
    BY <1>4 DEF VerifyEnd, Leave, Kept, readVars
  <2>2. i' \in Nat \ {0}
    BY <2>1
  <2> QED
    BY <2>1, <2>2, KeptStep
<1>5. CASE Returned \/ UNCHANGED vars
  BY <1>5, NoStep DEF Returned
<1> QED
  BY <1>1, <1>3, <1>4, <1>5 DEF Next

-----------------------------------------------------------------------------
(* What is promised.                                                        *)

\* What is held at a place, and the places that hold something.
Holds(p) ==
  \/ \E k \in 1 .. Len(stack) :
       p = <<"call", k>> /\ stack[k].node # NULL /\ HeldAt(p) = stack[k].node
  \/ p = <<"result">> /\ ret # NULL /\ HeldAt(p) = ret
  \/ \E r \in RulesHeld : p = <<"rule", r>> /\ HeldAt(p) = rules[r].expr
  \/ \E n \in Live : \E k \in Arity(heap, n) :
       p = <<"node", n, k>> /\ HeldAt(p) = Kids(heap, n)[k]
CallsHold ==
  \A k \in 1 .. Len(stack) : stack[k].node # NULL =>
    <<"call", k>> \in Places /\ HeldAt(<<"call", k>>) = stack[k].node
ResultHolds == ret # NULL => <<"result">> \in Places /\ HeldAt(<<"result">>) = ret
RulesHold ==
  \A r \in RulesHeld : <<"rule", r>> \in Places /\ HeldAt(<<"rule", r>>) = rules[r].expr
NodesHold ==
  \A n \in Live : \A k \in Arity(heap, n) :
    <<"node", n, k>> \in Places /\ HeldAt(<<"node", n, k>>) = Kids(heap, n)[k]

LEMMA HoldersAre ==
  ASSUME NodeInv
  PROVE  /\ Live = Alive(heap) /\ Roots \subseteq Live
         /\ \A p \in Places : Holds(p)
         /\ CallsHold /\ ResultHolds /\ RulesHold /\ NodesHold
<1>1. DOMAIN heap = Nodes(heap) /\ DOMAIN stack = 1 .. Len(stack)
  BY HeapFacts DEF NodeInv, StackOK, Sequence
<1>2. Live = Alive(heap) /\ Roots \subseteq Live
  BY <1>1 DEF Live, Alive, NodeInv, Forest
<1>3. \A n \in Live : DOMAIN heap[n].node.nodes = Arity(heap, n)
  <2>1. \A n \in Live : heap[n].node.nodes \in Seq(Nat)
    BY <1>1 DEF Live, NodeInv, IsHeap, IsCell, IsNode
  <2> QED
    BY <2>1 DEF Arity, Kids
<1>4. /\ \A k : HeldAt(<<"call", k>>) = stack[k].node
      /\ HeldAt(<<"result">>) = ret
      /\ \A r : HeldAt(<<"rule", r>>) = rules[r].expr
      /\ \A n, k : HeldAt(<<"node", n, k>>) = Kids(heap, n)[k]
  BY DEF HeldAt, Kids
<1>5. /\ \A k \in 1 .. Len(stack) : stack[k].node # NULL => <<"call", k>> \in Places
      /\ ret # NULL => <<"result">> \in Places
      /\ \A r \in RulesHeld : <<"rule", r>> \in Places
      /\ \A n \in Live : \A k \in Arity(heap, n) : <<"node", n, k>> \in Places
  BY <1>1, <1>3 DEF Places
<1>6. \A p \in Places :
        \/ \E k \in 1 .. Len(stack) : p = <<"call", k>> /\ stack[k].node # NULL
        \/ p = <<"result">> /\ ret # NULL
        \/ \E r \in RulesHeld : p = <<"rule", r>>
        \/ \E n \in Live : \E k \in Arity(heap, n) : p = <<"node", n, k>>
  BY <1>1, <1>3 DEF Places
<1>7. CallsHold /\ ResultHolds /\ RulesHold /\ NodesHold
  BY ONLY <1>4, <1>5, Zenon DEF CallsHold, ResultHolds, RulesHold, NodesHold
<1>8. ASSUME NEW p \in Places
      PROVE  Holds(p)
  <2>1. CASE \E k \in 1 .. Len(stack) : p = <<"call", k>> /\ stack[k].node # NULL
    BY ONLY <1>4, <2>1, Zenon DEF Holds
  <2>2. CASE p = <<"result">> /\ ret # NULL
    BY ONLY <1>4, <2>2, Zenon DEF Holds
  <2>3. CASE \E r \in RulesHeld : p = <<"rule", r>>
    BY ONLY <1>4, <2>3, Zenon DEF Holds
  <2>4. CASE \E n \in Live : \E k \in Arity(heap, n) : p = <<"node", n, k>>
    BY ONLY <1>4, <2>4, Zenon DEF Holds
  <2> QED
    BY <1>6, <2>1, <2>2, <2>3, <2>4, Zenon
<1> QED
  BY ONLY <1>2, <1>7, <1>8, Zenon

\* Each root, and each node below another one, is held at one place.
LEMMA AllOwned ==
  ASSUME NodeInv
  PROVE  NodesOwned
<1>1. /\ Forest(heap, Roots) /\ Apart
  BY DEF NodeInv
<1>2. /\ Live = Alive(heap) /\ Roots \subseteq Live
      /\ \A p \in Places : Holds(p)
      /\ CallsHold /\ ResultHolds /\ RulesHold /\ NodesHold
  BY HoldersAre
<1>3. /\ \A k \in 1 .. Len(stack) : stack[k].node # NULL => stack[k].node \in Roots
      /\ ret # NULL => ret \in Roots
      /\ \A r \in RulesHeld : rules[r].expr \in Roots
      /\ \A n \in Live : \A k \in Arity(heap, n) : Kids(heap, n)[k] \in Live \ Roots
      /\ \A n \in Roots : \/ \E k \in 1 .. Len(stack) : stack[k].node # NULL /\ n = stack[k].node
                          \/ ret # NULL /\ n = ret
                          \/ \E r \in RulesHeld : n = rules[r].expr
      /\ \A n \in Live \ Roots : \E m \in Live : \E k \in Arity(heap, m) : Kids(heap, m)[k] = n
  BY <1>1, <1>2 DEF Roots, Apart, Forest
<1>4. {HeldAt(p) : p \in Places} = Live
  <2>1. ASSUME NEW p \in Places
        PROVE  HeldAt(p) \in Live
    BY <1>2, <1>3 DEF Holds
  <2>2. ASSUME NEW n \in Live
        PROVE  \E p \in Places : HeldAt(p) = n
    <3>1. CASE n \in Roots
      <4>1. CASE \E k \in 1 .. Len(stack) : stack[k].node # NULL /\ n = stack[k].node
        BY ONLY <1>2, <4>1, Zenon DEF CallsHold
      <4>2. CASE ret # NULL /\ n = ret
        BY ONLY <1>2, <4>2, Zenon DEF ResultHolds
      <4>3. CASE \E r \in RulesHeld : n = rules[r].expr
        BY ONLY <1>2, <4>3, Zenon DEF RulesHold
      <4> QED
        BY <1>3, <3>1, <4>1, <4>2, <4>3, Zenon
    <3>2. CASE n \notin Roots
      <4>1. PICK m \in Live : \E k \in Arity(heap, m) : Kids(heap, m)[k] = n
        BY <1>3, <2>2, <3>2, Zenon
      <4>2. PICK k \in Arity(heap, m) : Kids(heap, m)[k] = n
        BY <4>1, Zenon
      <4> QED
        BY ONLY <1>2, <4>1, <4>2, Zenon DEF NodesHold
    <3> QED
      BY <3>1, <3>2
  <2> QED
    BY <2>1, <2>2
<1>5. ASSUME NEW p \in Places, NEW q \in Places, HeldAt(p) = HeldAt(q)
      PROVE  p = q
  <2>1. HeldAt(p) \in Roots <=> HeldAt(q) \in Roots
    BY <1>5
  <2>2. CASE HeldAt(p) \in Roots
    <3>1. \/ \E k \in 1 .. Len(stack) :
               p = <<"call", k>> /\ stack[k].node # NULL /\ HeldAt(p) = stack[k].node
          \/ p = <<"result">> /\ ret # NULL /\ HeldAt(p) = ret
          \/ \E r \in RulesHeld : p = <<"rule", r>> /\ HeldAt(p) = rules[r].expr
      BY <1>2, <1>3, <2>2 DEF Holds
    <3>2. \/ \E k \in 1 .. Len(stack) :
               q = <<"call", k>> /\ stack[k].node # NULL /\ HeldAt(q) = stack[k].node
          \/ q = <<"result">> /\ ret # NULL /\ HeldAt(q) = ret
          \/ \E r \in RulesHeld : q = <<"rule", r>> /\ HeldAt(q) = rules[r].expr
      BY <1>2, <1>3, <2>1, <2>2 DEF Holds
    <3> QED
      BY <1>1, <1>5, <3>1, <3>2 DEF Apart
  <2>3. CASE HeldAt(p) \notin Roots
    <3>1. \E n \in Live : \E k \in Arity(heap, n) :
            p = <<"node", n, k>> /\ HeldAt(p) = Kids(heap, n)[k]
      BY <1>2, <1>3, <2>3 DEF Holds
    <3>2. \E n \in Live : \E k \in Arity(heap, n) :
            q = <<"node", n, k>> /\ HeldAt(q) = Kids(heap, n)[k]
      BY <1>2, <1>3, <2>1, <2>3 DEF Holds
    <3>3. \A n, m \in Live : \A k \in Arity(heap, n), j \in Arity(heap, m) :
            Kids(heap, n)[k] = Kids(heap, m)[j] => n = m /\ k = j
      BY <1>1, <1>2 DEF Forest
    <3> QED
      BY <1>5, <3>1, <3>2, <3>3
  <2> QED
    BY <2>2, <2>3
<1>6. IsInjective([p \in Places |-> HeldAt(p)])
  <2> DEFINE f == [p \in Places |-> HeldAt(p)]
  <2>1. DOMAIN f = Places /\ \A p \in Places : f[p] = HeldAt(p)
    OBVIOUS
  <2> QED
    BY <1>5, <2>1 DEF IsInjective
<1> QED
  BY <1>4, <1>6 DEF NodesOwned

\* Of the walk nothing is to come.
LEMMA AllNeeded ==
  ASSUME RuleInv
  PROVE  KeptAreNeeded
<1> SUFFICES ASSUME Kept
             PROVE  /\ Closed(used) /\ \A S \in SUBSET Rule : Closed(S) => used \subseteq S
                    /\ ToSet(kept) = used /\ \A r \in used : heap[rules[r].expr].live
                    /\ \A r \in used : \A n \in refs[r] : link[r][n] \in used \cup {NULL}
                    /\ \A r \in used :
                         ref[r] = IF Unique(r)
                                  THEN Cardinality(ReferencesTo(r, {t \in used : Unique(t)}))
                                  ELSE -1
  BY DEF KeptAreNeeded
<1>1. NodeInv /\ PhaseInv /\ RefsInv /\ LinksInv /\ RefInv /\ MarkInv
  BY DEF RuleInv, LinkInv
<1>2. pc \notin {"read", "hash", "link", "mark", "unref"}
  BY DEF Kept
<1>3. /\ used \subseteq Rule /\ ToSet(kept) = used /\ RulesHeld = used
  BY <1>1, <1>2 DEF PhaseInv, RulesHeld
<1>4. \A r \in Rule : Linked(r) <=> Unique(r)
  BY <1>2 DEF Linked
<1>5. /\ NumRules > 0 => 1 \in used
      /\ \A S \in SUBSET Rule : Closed(S) => used \subseteq S
      /\ \A r \in used : \A n \in refs[r] : link[r][n] \in used \cup {NULL}
  <2>1. walk = <<>> /\ Len(<<>>) = 0 /\ 1 .. 0 = {}
    BY <1>1, <1>2, EmptySeq DEF MarkInv
  <2>2. \A r, n : ~ ToCome(r, n)
    BY <2>1 DEF ToCome
  <2> QED
    BY <1>1, <1>2, <2>2 DEF MarkInv
<1>6. ASSUME NEW r \in used
      PROVE  LeadsTo(r) \subseteq used
  <2>1. r \in Rule
    BY <1>3
  <2>2. CASE Unique(r)
    <3>1. \A n \in refs[r] : link[r][n] = Lead(n)
      BY <1>1, <1>2, <1>4, <2>1, <2>2 DEF LinksInv
    <3>2. \A n \in refs[r] : Lead(n) \in used \cup {NULL}
      BY <1>5, <3>1
    <3>3. ASSUME NEW n \in refs[r], Defined(Target(n))
          PROVE  First(Target(n)) \in used
      <4>1. First(Target(n)) \in Rule
        BY <1>1, <1>2, <2>1, <3>3, FirstIs DEF RefsInv
      <4>2. Lead(n) = First(Target(n)) /\ First(Target(n)) # NULL
        BY <1>1, <3>3, <4>1, RuleIs DEF Lead
      <4> QED
        BY <3>2, <4>2
    <3> QED
      BY <2>2, <3>3 DEF LeadsTo
  <2>3. CASE ~ Unique(r)
    BY <2>3 DEF LeadsTo
  <2> QED
    BY <2>2, <2>3
<1>7. Closed(used)
  BY <1>5, <1>6 DEF Closed
<1>8. \A r \in used : heap[rules[r].expr].live
  BY <1>1, <1>3 DEF NodeInv, Forest, Alive, Roots, Apart
<1>9. Counted = {t \in used : Unique(t)}
  BY <1>2, <1>3, <1>4 DEF Counted, Counts
<1>10. \A r \in used :
         ref[r] = IF Unique(r) THEN Cardinality(ReferencesTo(r, {t \in used : Unique(t)})) ELSE -1
  BY <1>1, <1>2, <1>3, <1>9 DEF RefInv
<1> QED
  BY <1>3, <1>5, <1>7, <1>8, <1>10

LEMMA AlwaysRuleInv == Spec => []RuleInv
<1>1. Init => RuleInv
  BY Initially
<1>2. RuleInv /\ [Next]_vars => RuleInv'
  BY NextStep
<1> QED
  BY <1>1, <1>2, PTL DEF Spec

\* Every node that the parse functions make and do not destroy is held in exactly one
\* place, whatever the text is: by a call, by the result of one, by a rule or by
\* another node; so destroy_node frees none twice, and none is lost.
THEOREM NodesAreOwned == Spec => []NodesOwned
<1>1. RuleInv => NodesOwned
  BY AllOwned DEF RuleInv
<1> QED
  BY <1>1, AlwaysRuleInv, PTL

\* While make_rulehash enters rules and references are linked, lookup_rulehash finds
\* the first rule with a name if and only if one has been entered, whatever the
\* names and their hash values are.
THEOREM DefinitionsAreFound == Spec => []DefinitionFound
<1>1. RuleInv => DefinitionFound
  BY Finds DEF RuleInv, LinkInv
<1> QED
  BY <1>1, AlwaysRuleInv, PTL

\* Once unreferenced rules are removed, the rules left are the fewest that hold the
\* first one and all that they lead to; their nodes are not destroyed, their
\* references lead to each other, and they are counted.
THEOREM KeptRulesAreNeeded == Spec => []KeptAreNeeded
<1>1. RuleInv => KeptAreNeeded
  BY AllNeeded
<1> QED
  BY <1>1, AlwaysRuleInv, PTL
-----------------------------------------------------------------------------
(* The nodes that are at hand.                                              *)

\* The nodes of H and those below them.
Ours(h, H) == UNION {Family(h, x) : x \in H}

\* They are the least set that holds H and the nodes below its members.
LEMMA OursOf ==
  ASSUME NEW h, IsHeap(h), NEW H \in SUBSET Nodes(h)
  PROVE  /\ Ours(h, H) \subseteq Nodes(h) /\ H \subseteq Ours(h, H)
         /\ \A m \in Ours(h, H) : \A k \in Arity(h, m) : Kids(h, m)[k] \in Ours(h, H)
         /\ \A C : H \subseteq C /\ (\A m \in C \cap Nodes(h) : \A k \in Arity(h, m) : Kids(h, m)[k] \in C)
                     => Ours(h, H) \subseteq C
<1>1. ASSUME NEW x \in H
      PROVE  /\ Family(h, x) \subseteq Nodes(h) /\ x \in Family(h, x)
             /\ \A m \in Family(h, x) : \A k \in Arity(h, m) : Kids(h, m)[k] \in Family(h, x)
             /\ \A C : x \in C /\ (\A m \in C \cap Nodes(h) : \A k \in Arity(h, m) : Kids(h, m)[k] \in C)
                         => Family(h, x) \subseteq C
  <2>1. x \in Nodes(h)
    OBVIOUS
  <2> QED
    BY <2>1, FamilyOf
<1>2. Ours(h, H) \subseteq Nodes(h) /\ H \subseteq Ours(h, H)
  BY <1>1 DEF Ours
<1>3. ASSUME NEW m \in Ours(h, H), NEW k \in Arity(h, m)
      PROVE  Kids(h, m)[k] \in Ours(h, H)
  BY <1>1 DEF Ours
<1>4. ASSUME NEW C, H \subseteq C, \A m \in C \cap Nodes(h) : \A k \in Arity(h, m) : Kids(h, m)[k] \in C
      PROVE  Ours(h, H) \subseteq C
  <2>1. ASSUME NEW x \in H
        PROVE  Family(h, x) \subseteq C
    BY <1>1, <1>4
  <2> QED
    BY <2>1 DEF Ours
<1> QED
  BY <1>2, <1>3, <1>4

\* A family is what one node has below it.
LEMMA OursOne ==
  ASSUME NEW h, NEW n
  PROVE  Ours(h, {n}) = Family(h, n)
BY DEF Ours

\* What is below some roots is alive, and no other root is among it.
LEMMA OursAlive ==
  ASSUME NEW h, IsHeap(h), NEW R, Forest(h, R), NEW H \in SUBSET R
  PROVE  /\ H \subseteq Nodes(h) /\ Ours(h, H) \subseteq Alive(h)
         /\ \A r \in R : r \in Ours(h, H) => r \in H
<1> DEFINE C == H \cup (Alive(h) \ R)
<1>1. R \subseteq Alive(h) /\ Alive(h) \subseteq Nodes(h)
  BY DEF Forest, Alive
<1>2. H \subseteq C /\ C \subseteq Alive(h)
  BY <1>1
<1>3. \A m \in C \cap Nodes(h) : \A k \in Arity(h, m) : Kids(h, m)[k] \in C
  BY <1>2 DEF Forest
<1>4. Ours(h, H) \subseteq C
  <2> HIDE DEF C
  <2> QED
    BY <1>1, <1>2, <1>3, OursOf
<1> QED
  BY <1>1, <1>2, <1>4

\* It stays as long as the nodes in it keep the nodes below them.
LEMMA OursSame ==
  ASSUME NEW h, IsHeap(h), NEW g, IsHeap(g), Nodes(h) \subseteq Nodes(g),
         NEW H \in SUBSET Nodes(h), \A m \in Ours(h, H) : Kids(g, m) = Kids(h, m)
  PROVE  Ours(g, H) = Ours(h, H)
<1>1. /\ Ours(h, H) \subseteq Nodes(h) /\ H \subseteq Ours(h, H)
      /\ \A m \in Ours(h, H) : \A k \in Arity(h, m) : Kids(h, m)[k] \in Ours(h, H)
  BY OursOf
<1>2. \A m \in Ours(h, H) : Arity(g, m) = Arity(h, m)
  BY DEF Arity
<1>3. Ours(g, H) \subseteq Ours(h, H)
  <2>1. \A m \in Ours(h, H) \cap Nodes(g) : \A k \in Arity(g, m) : Kids(g, m)[k] \in Ours(h, H)
    BY <1>1, <1>2
  <2>2. H \in SUBSET Nodes(g)
    OBVIOUS
  <2> QED
    BY <1>1, <2>1, <2>2, OursOf
<1>4. Ours(h, H) \subseteq Ours(g, H)
  <2> DEFINE C == Ours(h, H) \cap Ours(g, H)
  <2>1. H \in SUBSET Nodes(g)
    OBVIOUS
  <2>2. /\ H \subseteq Ours(g, H)
        /\ \A m \in Ours(g, H) : \A k \in Arity(g, m) : Kids(g, m)[k] \in Ours(g, H)
    BY <2>1, OursOf
  <2>3. H \subseteq C /\ \A m \in C \cap Nodes(h) : \A k \in Arity(h, m) : Kids(h, m)[k] \in C
    BY <1>1, <1>2, <2>2
  <2> HIDE DEF C
  <2>4. Ours(h, H) \subseteq C
    BY <2>3, OursOf
  <2> QED
    BY <2>4 DEF C
<1> QED
  BY <1>3, <1>4

\* A node around some of the nodes of H takes their place.
LEMMA OursCreate ==
  ASSUME NEW h, IsHeap(h), NEW x, IsHeap(Create(h, x)), NEW H \in SUBSET Nodes(h),
         Elems(x.nodes) \subseteq H
  PROVE  /\ Ours(Create(h, x), (H \ Elems(x.nodes)) \cup {Len(h) + 1}) = Ours(h, H) \cup {Len(h) + 1}
         /\ Len(h) + 1 \notin Nodes(h)
         /\ Create(h, x)[Len(h) + 1].node = x
         /\ (H \ Elems(x.nodes)) \cup {Len(h) + 1} \subseteq Nodes(Create(h, x))
         /\ \A m \in Nodes(h) : Create(h, x)[m] = h[m]
         /\ Nodes(h) \subseteq Nodes(Create(h, x))
<1> DEFINE g == Create(h, x)
           N == Len(h) + 1
           K == Elems(x.nodes)
           Q == (H \ K) \cup {N}
           S == Ours(h, H)
<1>1. Len(h) \in Nat /\ Sequence(h)
  BY DEF IsHeap, Sequence
<1>2. /\ Len(g) = N /\ g[N] = [node |-> x, live |-> TRUE]
      /\ \A n \in 1 .. Len(h) : g[n] = h[n]
  BY <1>1, Appended DEF Create
<1> HIDE DEF g
<1>3. Nodes(g) = Nodes(h) \cup {N} /\ N \notin Nodes(h) /\ \A n \in Nodes(h) : g[n] = h[n]
  BY <1>1, <1>2 DEF Nodes
<1>4. \A n \in Nodes(h) : Kids(g, n) = Kids(h, n) /\ Arity(g, n) = Arity(h, n)
  BY <1>3 DEF Kids, Arity
<1>5. Kids(g, N) = x.nodes /\ \A y : y \in K <=> \E k \in Arity(g, N) : Kids(g, N)[k] = y
  BY <1>2 DEF Kids, Arity, Elems
<1>6. /\ S \subseteq Nodes(h) /\ H \subseteq S
      /\ \A m \in S : \A k \in Arity(h, m) : Kids(h, m)[k] \in S
  BY OursOf
<1> HIDE DEF N, K, S
<1>7. IsHeap(g)
  BY DEF g
<1>8. Q \in SUBSET Nodes(g)
  BY <1>3
<1>9. Ours(g, Q) \subseteq S \cup {N}
  <2>1. \A m \in (S \cup {N}) \cap Nodes(g) : \A k \in Arity(g, m) : Kids(g, m)[k] \in S \cup {N}
    BY <1>4, <1>5, <1>6 DEF K
  <2>2. Q \subseteq S \cup {N}
    BY <1>6
  <2> DEFINE C == S \cup {N}
  <2>3. Q \subseteq C /\ \A m \in C \cap Nodes(g) : \A k \in Arity(g, m) : Kids(g, m)[k] \in C
    BY <2>1, <2>2
  <2> HIDE DEF Q, C
  <2>4. Ours(g, Q) \subseteq C
    BY <1>7, <1>8, <2>3, OursOf
  <2> QED
    BY <2>4 DEF C
<1>10. S \cup {N} \subseteq Ours(g, Q)
  <2> DEFINE T == Ours(g, Q)
  <2>1. Q \subseteq T /\ \A m \in T : \A k \in Arity(g, m) : Kids(g, m)[k] \in T
    <3> HIDE DEF Q
    <3> QED
      BY <1>7, <1>8, OursOf
  <2> HIDE DEF T
  <2>2. N \in T
    BY <2>1
  <2>3. K \subseteq T
    BY <1>5, <2>1, <2>2
  <2>4. H \subseteq T
    BY <2>1, <2>3
  <2>5. \A m \in T \cap Nodes(h) : \A k \in Arity(h, m) : Kids(h, m)[k] \in T
    BY <1>4, <2>1
  <2>6. S \subseteq T
    BY <2>4, <2>5, OursOf DEF S
  <2> QED
    BY <2>2, <2>6 DEF T
<1>11. g[N].node = x /\ Nodes(h) \subseteq Nodes(g) /\ Ours(g, Q) = S \cup {N} /\ Q \subseteq Nodes(g)
  <2>1. g[N].node = x /\ Nodes(h) \subseteq Nodes(g)
    BY <1>2, <1>3
  <2>2. Ours(g, Q) = S \cup {N}
    BY <1>9, <1>10
  <2> HIDE DEF Q
  <2> QED
    BY <1>8, <2>1, <2>2
<1> QED
  BY <1>3, <1>11 DEF g, N, K, S

\* A node of H that another one gets stays below H.
LEMMA OursAdopt ==
  ASSUME NEW h, IsHeap(h), NEW H \in SUBSET Nodes(h), NEW n \in H, NEW c \in H, n # c,
         IsHeap(Adopt(h, n, c))
  PROVE  /\ Ours(Adopt(h, n, c), H \ {c}) = Ours(h, H)
         /\ Nodes(Adopt(h, n, c)) = Nodes(h)
         /\ \A m \in Nodes(h) :
              /\ Adopt(h, n, c)[m].node.type = h[m].node.type
              /\ Adopt(h, n, c)[m].node.rvar = h[m].node.rvar
              /\ Adopt(h, n, c)[m].node.index = h[m].node.index
              /\ m # n => Adopt(h, n, c)[m] = h[m]
<1> DEFINE g == Adopt(h, n, c)
           A == Len(Kids(h, n)) + 1
           s == Append(Kids(h, n), c)
           S == Ours(h, H)
           Q == H \ {c}
<1>1. Len(h) \in Nat /\ DOMAIN h = Nodes(h) /\ Sequence(h)
  BY HeapFacts DEF IsHeap
<1>2. g = [k \in 1 .. Len(h) |-> IF k = n THEN [h[n] EXCEPT !.node.nodes = s] ELSE h[k]]
  BY <1>1 DEF Adopt, Sequence, Kids, Nodes
<1>3. Len(g) = Len(h)
  BY <1>1, <1>2
<1>4. n \in Nodes(h) /\ IsCell(h[n]) /\ Kids(h, n) \in Seq(Nat) /\ c \in Nat
  BY <1>1, HeapFacts DEF IsHeap, Nodes
<1>5. /\ \A k \in Nodes(h) : k # n => g[k] = h[k]
      /\ g[n] = [h[n] EXCEPT !.node.nodes = s]
  BY <1>2, <1>4 DEF Nodes
<1> HIDE DEF g
<1>6. s \in Seq(Nat) /\ Len(s) = A /\ s[A] = c /\ A \in 1 .. A /\ \A k \in Arity(h, n) : s[k] = Kids(h, n)[k]
  BY <1>4, Appended, SequenceIn, LenProperties DEF Arity
<1> HIDE DEF s
<1>7. /\ g[n].node.nodes = s
      /\ g[n].node.type = h[n].node.type /\ g[n].node.rvar = h[n].node.rvar
      /\ g[n].node.index = h[n].node.index
  <2> DEFINE x == h[n].node
             Of(y) == Made(x.type, y, x.name, x.rvar, x.index)
             m == Of(x.nodes)
             c1 == [node |-> m, live |-> h[n].live]
  <2>1. x = m
    BY <1>4 DEF IsCell, IsNode, Made
  <2>2. h[n] = [node |-> x, live |-> h[n].live]
    BY <1>4 DEF IsCell
  <2>3. [m EXCEPT !.nodes = s] = Of(s)
    BY DEF Made
  <2>4. h[n] = c1
    BY <2>1, <2>2
  <2>5. [c1 EXCEPT !.node.nodes = s] = [node |-> [m EXCEPT !.nodes = s], live |-> h[n].live]
    <3> HIDE DEF m
    <3> QED
      OBVIOUS
  <2> HIDE DEF c1, m
  <2>6. g[n] = [node |-> Of(s), live |-> h[n].live]
    BY <1>5, <2>3, <2>4, <2>5
  <2> HIDE DEF x
  <2>7. g[n].node = Of(s)
    BY <2>6
  <2> QED
    BY <2>7 DEF Made, x
<1>8. /\ \A m \in Nodes(h) : m # n => Kids(g, m) = Kids(h, m) /\ Arity(g, m) = Arity(h, m)
      /\ Kids(g, n) = s /\ Arity(g, n) = Arity(h, n) \cup {A}
  <2>1. Arity(g, n) = 1 .. A
    BY <1>6, <1>7 DEF Kids, Arity
  <2>2. 1 .. A = (1 .. Len(Kids(h, n))) \cup {A}
    BY <1>4, LenProperties
  <2> QED
    BY <1>5, <1>7, <2>1, <2>2 DEF Kids, Arity
<1>9. Nodes(g) = Nodes(h)
  BY <1>3 DEF Nodes
<1>10. IsHeap(g)
  BY DEF g
<1>11. /\ S \subseteq Nodes(h) /\ H \subseteq S
       /\ \A m \in S : \A k \in Arity(h, m) : Kids(h, m)[k] \in S
  BY OursOf
<1>12. Q \in SUBSET Nodes(g) /\ n \in Q
  BY <1>9
<1> HIDE DEF S, Q, A
<1>13. Ours(g, Q) \subseteq S
  <2>1. ASSUME NEW m \in S \cap Nodes(g), NEW k \in Arity(g, m)
        PROVE  Kids(g, m)[k] \in S
    <3>1. CASE m # n
      BY <1>8, <1>9, <1>11, <3>1
    <3>2. CASE m = n
      BY <1>6, <1>8, <1>11, <3>2
    <3> QED
      BY <3>1, <3>2
  <2>2. Q \subseteq S
    BY <1>11 DEF Q
  <2> QED
    BY <1>10, <1>12, <2>1, <2>2, OursOf
<1>14. S \subseteq Ours(g, Q)
  <2> DEFINE T == Ours(g, Q)
  <2>1. Q \subseteq T /\ \A m \in T : \A k \in Arity(g, m) : Kids(g, m)[k] \in T
    BY <1>10, <1>12, OursOf
  <2> HIDE DEF T
  <2>2. c \in T
    BY <1>6, <1>8, <1>12, <2>1
  <2>3. H \subseteq T
    BY <2>1, <2>2 DEF Q
  <2>4. ASSUME NEW m \in T \cap Nodes(h), NEW k \in Arity(h, m)
        PROVE  Kids(h, m)[k] \in T
    <3>1. k \in Arity(g, m) /\ Kids(g, m)[k] = Kids(h, m)[k]
      BY <1>6, <1>8
    <3> QED
      BY <2>1, <3>1
  <2>5. S \subseteq T
    BY <2>3, <2>4, OursOf DEF S
  <2> QED
    BY <2>5 DEF T
<1> QED
  BY <1>5, <1>7, <1>9, <1>13, <1>14 DEF g, S, Q

-----------------------------------------------------------------------------
(* The lists of a rule.                                                     *)

\* The nodes of S are of the same types, with the same variables and indices.
Alike(h, g, S) ==
  \A n \in S : /\ g[n].node.type = h[n].node.type
               /\ g[n].node.rvar = h[n].node.rvar /\ g[n].node.index = h[n].node.index

Listing(r) == Sequence(r.rvars) /\ Sequence(r.capts) /\ Sequence(r.codes) /\ Sequence(r.preds)

LEMMA ElementsOf ==
  ASSUME NEW s, Sequence(s)
  PROVE  /\ DOMAIN s = 1 .. Len(s) /\ Len(s) \in Nat
         /\ \A x : x \in ToSet(s) <=> \E k \in 1 .. Len(s) : s[k] = x
         /\ \A x : /\ Sequence(Append(s, x)) /\ DOMAIN Append(s, x) = (1 .. Len(s)) \cup {Len(s) + 1}
                   /\ Append(s, x)[Len(s) + 1] = x
                   /\ \A k \in 1 .. Len(s) : Append(s, x)[k] = s[k]
                   /\ \A y : y \in ToSet(Append(s, x)) <=> y \in ToSet(s) \/ y = x
<1>1. DOMAIN s = 1 .. Len(s) /\ Len(s) \in Nat
  BY DomainOf DEF Sequence
<1>2. \A x : x \in ToSet(s) <=> \E k \in 1 .. Len(s) : s[k] = x
  BY <1>1 DEF ToSet
<1>3. ASSUME NEW x
      PROVE  /\ Sequence(Append(s, x)) /\ DOMAIN Append(s, x) = (1 .. Len(s)) \cup {Len(s) + 1}
             /\ Append(s, x)[Len(s) + 1] = x
             /\ \A k \in 1 .. Len(s) : Append(s, x)[k] = s[k]
             /\ \A y : y \in ToSet(Append(s, x)) <=> y \in ToSet(s) \/ y = x
  <2> DEFINE t == Append(s, x)
  <2>1. /\ Sequence(t) /\ Len(t) = Len(s) + 1 /\ t[Len(s) + 1] = x
        /\ \A k \in 1 .. Len(s) : t[k] = s[k]
    BY Appended
  <2> HIDE DEF t
  <2>2. DOMAIN t = 1 .. (Len(s) + 1)
    BY <2>1, DomainOf
  <2>3. 1 .. (Len(s) + 1) = (1 .. Len(s)) \cup {Len(s) + 1}
    BY <1>1
  <2>4. \A y : y \in ToSet(t) <=> \E k \in (1 .. Len(s)) \cup {Len(s) + 1} : t[k] = y
    BY <2>2, <2>3 DEF ToSet
  <2>5. \A y : y \in ToSet(t) <=> y \in ToSet(s) \/ y = x
    BY <1>2, <2>1, <2>4
  <2> QED
    BY <2>1, <2>2, <2>3, <2>5 DEF t
<1> QED
  BY <1>1, <1>2, <1>3

\* A list that gets the new node N if it is of the types listed.
LEMMA ListGrows ==
  ASSUME NEW h, NEW g, NEW S, NEW N, N \notin S, Alike(h, g, S), NEW types,
         NEW list, Sequence(list), Lists(h, S, list, types),
         NEW longer, longer = IF g[N].node.type \in types THEN Append(list, N) ELSE list,
         g[N].node.type \in types => g[N].node.index = Len(list)
  PROVE  Sequence(longer) /\ Lists(g, S \cup {N}, longer, types)
<1> DEFINE L == Len(list)
<1>1. /\ DOMAIN list = 1 .. L /\ L \in Nat /\ \A x : x \in ToSet(list) <=> \E k \in 1 .. L : list[k] = x
  BY ElementsOf
<1>2. /\ \A n : n \in ToSet(list) <=> n \in S /\ h[n].node.type \in types
      /\ \A k \in 1 .. L : h[list[k]].node.index = k - 1
  BY <1>1 DEF Lists, NodesOf
<1>3. \A k \in 1 .. L : list[k] \in S /\ g[list[k]].node.index = k - 1
  BY <1>1, <1>2 DEF Alike
<1>4. \A n : n \in ToSet(list) <=> n \in S /\ g[n].node.type \in types
  BY <1>2 DEF Alike
<1>5. CASE g[N].node.type \in types
  <2>1. longer = Append(list, N)
    BY <1>5
  <2>2. /\ Sequence(longer) /\ DOMAIN longer = (1 .. L) \cup {L + 1} /\ longer[L + 1] = N
        /\ \A k \in 1 .. L : longer[k] = list[k]
        /\ \A y : y \in ToSet(longer) <=> y \in ToSet(list) \/ y = N
    BY <2>1, ElementsOf
  <2>3. \A k \in DOMAIN longer : g[longer[k]].node.index = k - 1
    <3>1. g[longer[L + 1]].node.index = (L + 1) - 1
      BY <1>1, <1>5, <2>2
    <3> QED
      BY <1>3, <2>2, <3>1
  <2>4. ToSet(longer) = NodesOf(g, S \cup {N}, types)
    BY <1>4, <1>5, <2>2 DEF NodesOf
  <2> QED
    BY <2>2, <2>3, <2>4 DEF Lists
<1>6. CASE g[N].node.type \notin types
  <2>1. ToSet(list) = NodesOf(g, S \cup {N}, types)
    BY <1>4, <1>6 DEF NodesOf
  <2> QED
    BY <1>1, <1>3, <1>6, <2>1 DEF Lists
<1> QED
  BY <1>5, <1>6

\* The references in S with a variable, and those with the same one.
Referring(h, S) == {n \in S : h[n].node.type = "REFERENCE" /\ h[n].node.rvar # NONE}

LEMMA VariablesAre ==
  ASSUME NEW h, NEW S, NEW list, Sequence(list)
  PROVE  ListsVariables(h, S, list) <=>
           /\ \A k \in 1 .. Len(list) :
                /\ list[k] \in Referring(h, S)
                /\ \A m \in Referring(h, S) : h[m].node.rvar = h[list[k]].node.rvar => list[k] <= m
           /\ \A n \in Referring(h, S) :
                (\A m \in Referring(h, S) : h[m].node.rvar = h[n].node.rvar => n <= m)
                  => \E k \in 1 .. Len(list) : list[k] = n
           /\ \A n \in Referring(h, S) : \E k \in 1 .. Len(list) :
                /\ list[k] \in Referring(h, S) /\ h[n].node.index = k - 1
                /\ h[list[k]].node.rvar = h[n].node.rvar
<1> DEFINE R == Referring(h, S)
           T == {n \in R : \A k \in {m \in R : h[m].node.rvar = h[n].node.rvar} : n <= k}
           Least(n) == \A m \in R : h[m].node.rvar = h[n].node.rvar => n <= m
<1>1. {n \in NodesOf(h, S, {"REFERENCE"}) : h[n].node.rvar # NONE} = R
  BY DEF NodesOf, Referring
<1>2. ListsVariables(h, S, list) <=>
        /\ ToSet(list) = T
        /\ \A n \in R : \E k \in DOMAIN list :
             list[k] \in {m \in R : h[m].node.rvar = h[n].node.rvar} /\ h[n].node.index = k - 1
  BY <1>1 DEF ListsVariables
<1> HIDE DEF R
<1>3. \A n : n \in T <=> n \in R /\ Least(n)
  OBVIOUS
<1> HIDE DEF T, Least
<1>4. ToSet(list) = {list[k] : k \in 1 .. Len(list)}
  BY DomainOf DEF ToSet
<1>5. ToSet(list) = T <=> /\ \A k \in 1 .. Len(list) : list[k] \in R /\ Least(list[k])
                          /\ \A n \in R : Least(n) => \E k \in 1 .. Len(list) : list[k] = n
  <2>1. ToSet(list) = T <=> /\ \A k \in 1 .. Len(list) : list[k] \in T
                            /\ \A n \in T : \E k \in 1 .. Len(list) : list[k] = n
    BY <1>4
  <2> QED
    BY <1>3, <2>1
<1>6. DOMAIN list = 1 .. Len(list)
  BY DomainOf
<1> QED
  BY <1>2, <1>5, <1>6 DEF R, Least

\* A new node N with the variable v, or none: it is entered if the variable has not
\* been met, and else gets the index of a reference with it.
LEMMA VariablesGrow ==
  ASSUME NEW h, NEW g, NEW S \in SUBSET Nat, NEW N \in Nat, \A n \in S : n < N, Alike(h, g, S),
         NEW list, Sequence(list), ListsVariables(h, S, list), NEW longer,
         \/ /\ g[N].node.type # "REFERENCE" \/ g[N].node.rvar = NONE
            /\ longer = list
         \/ /\ \E k \in 1 .. Len(list) : /\ h[list[k]].node.rvar = g[N].node.rvar
                                         /\ g[N].node.index = k - 1
            /\ g[N].node.type = "REFERENCE" /\ longer = list
         \/ /\ \A k \in 1 .. Len(list) : h[list[k]].node.rvar # g[N].node.rvar
            /\ g[N].node.index = Len(list) /\ g[N].node.type = "REFERENCE"
            /\ g[N].node.rvar # NONE /\ longer = Append(list, N)
  PROVE  Sequence(longer) /\ ListsVariables(g, S \cup {N}, longer)
<1> DEFINE L == Len(list)
           A == Referring(h, S)
           B == Referring(g, S \cup {N})
           V(n) == g[n].node.rvar
           I(n) == g[n].node.index
<1>1. L \in Nat /\ N \notin S
  BY DEF Sequence
<1>2. \A n \in S : h[n].node.rvar = V(n) /\ h[n].node.index = I(n)
  BY DEF Alike
<1>3. /\ \A n : n \in A <=> n \in B /\ n # N
      /\ A \subseteq S
      /\ N \in B <=> g[N].node.type = "REFERENCE" /\ V(N) # NONE
  BY <1>1 DEF Referring, Alike
<1> HIDE DEF A, B
<1>4. /\ \A k \in 1 .. L : /\ list[k] \in A
                          /\ \A m \in A : h[m].node.rvar = h[list[k]].node.rvar => list[k] <= m
      /\ \A n \in A : (\A m \in A : h[m].node.rvar = h[n].node.rvar => n <= m)
                        => \E k \in 1 .. L : list[k] = n
      /\ \A n \in A : \E k \in 1 .. L : /\ list[k] \in A /\ h[n].node.index = k - 1
                                       /\ h[list[k]].node.rvar = h[n].node.rvar
  <2>1. Sequence(list) /\ ListsVariables(h, S, list)
    OBVIOUS
  <2> QED
    BY ONLY <2>1, VariablesAre DEF A
<1>5. \A n \in A : h[n].node.rvar = V(n) /\ h[n].node.index = I(n)
  BY ONLY <1>2, <1>3
<1> HIDE DEF V, I
<1>6. /\ \A k \in 1 .. L : /\ list[k] \in A /\ h[list[k]].node.rvar = V(list[k])
                          /\ \A m \in A : V(m) = V(list[k]) => list[k] <= m
      /\ \A n \in A : (\A m \in A : V(m) = V(n) => n <= m) => \E k \in 1 .. L : list[k] = n
      /\ \A n \in A : \E k \in 1 .. L : list[k] \in A /\ I(n) = k - 1 /\ V(list[k]) = V(n)
  <2>1. ASSUME NEW k \in 1 .. L
        PROVE  /\ list[k] \in A /\ h[list[k]].node.rvar = V(list[k])
               /\ \A m \in A : V(m) = V(list[k]) => list[k] <= m
    <3>1. list[k] \in A
      BY ONLY <1>4, k \in 1 .. L
    <3>2. h[list[k]].node.rvar = V(list[k])
      BY ONLY <1>5, <3>1
    <3>3. ASSUME NEW m \in A, V(m) = V(list[k])
          PROVE  list[k] <= m
      <4>1. h[m].node.rvar = h[list[k]].node.rvar
        BY ONLY <1>5, <3>1, <3>2, <3>3
      <4> QED
        BY ONLY <1>4, <4>1, k \in 1 .. L, m \in A
    <3> QED
      BY ONLY <3>1, <3>2, <3>3
  <2>2. ASSUME NEW n \in A, \A m \in A : V(m) = V(n) => n <= m
        PROVE  \E k \in 1 .. L : list[k] = n
    <3>1. \A m \in A : h[m].node.rvar = h[n].node.rvar => n <= m
      BY ONLY <1>5, <2>2
    <3> QED
      BY ONLY <1>4, <3>1, n \in A
  <2>3. ASSUME NEW n \in A
        PROVE  \E k \in 1 .. L : list[k] \in A /\ I(n) = k - 1 /\ V(list[k]) = V(n)
    <3>1. PICK k \in 1 .. L : /\ list[k] \in A /\ h[n].node.index = k - 1
                              /\ h[list[k]].node.rvar = h[n].node.rvar
      BY ONLY <1>4, n \in A
    <3>2. I(n) = k - 1 /\ V(list[k]) = V(n)
      BY ONLY <1>5, <3>1, n \in A
    <3> QED
      BY ONLY <3>1, <3>2, k \in 1 .. L
  <2> QED
    BY ONLY <2>1, <2>2, <2>3
<1>7. \A n \in A : n \in Nat /\ n < N /\ n <= N /\ ~(N <= n)
  <2>1. \A n \in S : n \in Nat /\ n < N
    OBVIOUS
  <2>2. N \in Nat /\ \A n \in Nat : n < N => n <= N /\ ~(N <= n)
    OBVIOUS
  <2>3. \A n \in A : n \in S
    BY ONLY <1>3
  <2> QED
    BY ONLY <2>1, <2>2, <2>3
<1> DEFINE Done(l) ==
      /\ \A k \in 1 .. Len(l) : l[k] \in B /\ \A m \in B : V(m) = V(l[k]) => l[k] <= m
      /\ \A n \in B : (\A m \in B : V(m) = V(n) => n <= m) => \E k \in 1 .. Len(l) : l[k] = n
      /\ \A n \in B : \E k \in 1 .. Len(l) : l[k] \in B /\ I(n) = k - 1 /\ V(l[k]) = V(n)
<1>8. ASSUME NEW l, Sequence(l), Done(l)
      PROVE  ListsVariables(g, S \cup {N}, l)
  BY <1>8, VariablesAre DEF B, V, I
<1>9. CASE N \notin B
  <2>1. A = B
    BY <1>3, <1>9
  <2>2. longer = list
    BY <1>3, <1>9 DEF V
  <2>3. Done(list)
    BY <1>6, <2>1
  <2> QED
    BY <1>8, <2>2, <2>3
<1>10. CASE N \in B /\ longer = list
  <2>1. PICK k \in 1 .. L : h[list[k]].node.rvar = V(N) /\ I(N) = k - 1
    <3>1. g[N].node.type = "REFERENCE" /\ V(N) # NONE
      BY <1>3, <1>10
    <3>2. ~(longer = Append(list, N))
      <4>1. Len(Append(list, N)) = L + 1
        BY Appended
      <4> QED
        BY <1>1, <1>10, <4>1
    <3> QED
      BY <1>10, <3>1, <3>2 DEF V, I
  <2>2. I(N) = k - 1 /\ list[k] \in A /\ V(list[k]) = V(N)
    BY <1>1, <1>6, <2>1
  <2>3. ASSUME NEW n \in A
        PROVE  (\A j \in A : V(j) = V(n) => n <= j) <=> \A j \in B : V(j) = V(n) => n <= j
    BY <1>3, <1>7
  <2>4. ~(\A j \in B : V(j) = V(N) => N <= j)
    BY <1>3, <1>7, <2>2
  <2>5. \A j \in 1 .. L : list[j] \in B /\ \A m \in B : V(m) = V(list[j]) => list[j] <= m
    BY <1>3, <1>6, <2>3
  <2>6. \A n \in B : (\A m \in B : V(m) = V(n) => n <= m) => \E j \in 1 .. L : list[j] = n
    BY <1>3, <1>6, <2>3, <2>4
  <2>7. \A n \in B : \E j \in 1 .. L : list[j] \in B /\ I(n) = j - 1 /\ V(list[j]) = V(n)
    BY <1>3, <1>6, <2>2
  <2>8. Done(list)
    BY <2>5, <2>6, <2>7
  <2> QED
    BY <1>8, <1>10, <2>8
<1>11. CASE N \in B /\ longer # list
  <2>1. /\ \A k \in 1 .. L : V(list[k]) # V(N)
        /\ I(N) = L /\ longer = Append(list, N)
    BY <1>6, <1>11, <1>3 DEF V, I
  <2>2. /\ Sequence(longer) /\ Len(longer) = L + 1 /\ longer[L + 1] = N
        /\ \A k \in 1 .. L : longer[k] = list[k]
        /\ 1 .. (L + 1) = (1 .. L) \cup {L + 1}
    BY <1>1, <2>1, Appended
  <2>3. \A n \in A : V(n) # V(N)
    <3>1. ASSUME NEW n \in A
          PROVE  \E m \in A : V(m) = V(n) /\ \A j \in A : V(j) = V(m) => m <= j
      <4> DEFINE M == {m \in A : V(m) = V(n)}
      <4>1. M \subseteq Nat /\ n \in M
        BY <1>7
      <4> HIDE DEF M
      <4>2. PICK m \in M : \A j \in M : m <= j
        BY <4>1, LeastOf
      <4> QED
        BY <4>2 DEF M
    <3>2. ASSUME NEW n \in A
          PROVE  \E k \in 1 .. L : V(list[k]) = V(n)
      <4>1. PICK m \in A : V(m) = V(n) /\ \A j \in A : V(j) = V(m) => m <= j
        BY <3>1
      <4>2. PICK k \in 1 .. L : list[k] = m
        BY <1>6, <4>1
      <4> QED
        BY <4>1, <4>2
    <3> QED
      BY <2>1, <3>2
  <2>4. ASSUME NEW n \in A
        PROVE  (\A j \in A : V(j) = V(n) => n <= j) <=> \A j \in B : V(j) = V(n) => n <= j
    BY <1>3, <1>7
  <2>5. \A m \in B : V(m) = V(N) => N <= m
    <3>1. N <= N
      OBVIOUS
    <3> QED
      BY ONLY <1>3, <2>3, <3>1
  <2>6. ASSUME NEW k \in 1 .. (L + 1)
        PROVE  longer[k] \in B /\ \A m \in B : V(m) = V(longer[k]) => longer[k] <= m
    <3>1. CASE k = L + 1
      BY <1>11, <2>2, <2>5, <3>1
    <3>2. CASE k \in 1 .. L
      BY <1>3, <1>6, <2>2, <2>4, <3>2
    <3> QED
      BY <2>2, <3>1, <3>2
  <2>7. ASSUME NEW n \in B, \A m \in B : V(m) = V(n) => n <= m
        PROVE  \E k \in 1 .. (L + 1) : longer[k] = n
    <3>1. CASE n = N
      BY <2>2, <3>1
    <3>2. CASE n # N
      <4>1. n \in A
        BY <1>3, <3>2
      <4>2. PICK k \in 1 .. L : list[k] = n
        BY <1>6, <2>4, <2>7, <4>1
      <4> QED
        BY <2>2, <4>2
    <3> QED
      BY <3>1, <3>2
  <2>8. ASSUME NEW n \in B
        PROVE  \E k \in 1 .. (L + 1) : longer[k] \in B /\ I(n) = k - 1 /\ V(longer[k]) = V(n)
    <3>1. CASE n = N
      <4>1. L = (L + 1) - 1
        BY <1>1
      <4> QED
        BY <1>11, <2>1, <2>2, <3>1, <4>1
    <3>2. CASE n # N
      <4>1. n \in A
        BY <1>3, <3>2
      <4>2. PICK k \in 1 .. L : list[k] \in A /\ I(n) = k - 1 /\ V(list[k]) = V(n)
        BY <1>6, <4>1
      <4> QED
        BY <1>3, <2>2, <4>2
    <3> QED
      BY <3>1, <3>2
  <2>9. Done(longer)
    BY <2>2, <2>6, <2>7, <2>8
  <2> HIDE DEF Done
  <2> QED
    BY <1>8, <2>2, <2>9
<1> QED
  BY <1>9, <1>10, <1>11

\* The lists of r become those of q when the node N is made.
Records(h, g, N, r, q) ==
  /\ q.capts = (IF g[N].node.type \in {"CAPTURE"} THEN Append(r.capts, N) ELSE r.capts)
  /\ g[N].node.type \in {"CAPTURE"} => g[N].node.index = Len(r.capts)
  /\ q.preds = (IF g[N].node.type \in {"PROGPRED"} THEN Append(r.preds, N) ELSE r.preds)
  /\ g[N].node.type \in {"PROGPRED"} => g[N].node.index = Len(r.preds)
  /\ q.codes = (IF g[N].node.type \in {"ACTION", "ERROR"} THEN Append(r.codes, N) ELSE r.codes)
  /\ g[N].node.type \in {"ACTION", "ERROR"} => g[N].node.index = Len(r.codes)
  /\ \/ /\ g[N].node.type # "REFERENCE" \/ g[N].node.rvar = NONE
        /\ q.rvars = r.rvars
     \/ /\ \E k \in 1 .. Len(r.rvars) : /\ h[r.rvars[k]].node.rvar = g[N].node.rvar
                                        /\ g[N].node.index = k - 1
        /\ g[N].node.type = "REFERENCE" /\ q.rvars = r.rvars
     \/ /\ \A k \in 1 .. Len(r.rvars) : h[r.rvars[k]].node.rvar # g[N].node.rvar
        /\ g[N].node.index = Len(r.rvars) /\ g[N].node.type = "REFERENCE"
        /\ g[N].node.rvar # NONE /\ q.rvars = Append(r.rvars, N)

LEMMA AllGrow ==
  ASSUME NEW h, NEW g, NEW S \in SUBSET Nat, NEW N \in Nat, \A n \in S : n < N, Alike(h, g, S),
         NEW r, Listing(r), ListsAre(h, S, r), NEW q, Records(h, g, N, r, q)
  PROVE  Listing(q) /\ ListsAre(g, S \cup {N}, q)
<1>1. N \notin S
  OBVIOUS
<1>2. Sequence(q.capts) /\ Lists(g, S \cup {N}, q.capts, {"CAPTURE"})
  <2>1. Sequence(r.capts) /\ Lists(h, S, r.capts, {"CAPTURE"})
    BY DEF Listing, ListsAre
  <2>2. /\ q.capts = (IF g[N].node.type \in {"CAPTURE"} THEN Append(r.capts, N) ELSE r.capts)
        /\ g[N].node.type \in {"CAPTURE"} => g[N].node.index = Len(r.capts)
    BY DEF Records
  <2> QED
    BY <1>1, <2>1, <2>2, ListGrows
<1>3. Sequence(q.preds) /\ Lists(g, S \cup {N}, q.preds, {"PROGPRED"})
  <2>1. Sequence(r.preds) /\ Lists(h, S, r.preds, {"PROGPRED"})
    BY DEF Listing, ListsAre
  <2>2. /\ q.preds = (IF g[N].node.type \in {"PROGPRED"} THEN Append(r.preds, N) ELSE r.preds)
        /\ g[N].node.type \in {"PROGPRED"} => g[N].node.index = Len(r.preds)
    BY DEF Records
  <2> QED
    BY <1>1, <2>1, <2>2, ListGrows
<1>4. Sequence(q.codes) /\ Lists(g, S \cup {N}, q.codes, {"ACTION", "ERROR"})
  <2>1. Sequence(r.codes) /\ Lists(h, S, r.codes, {"ACTION", "ERROR"})
    BY DEF Listing, ListsAre
  <2>2. /\ q.codes = (IF g[N].node.type \in {"ACTION", "ERROR"} THEN Append(r.codes, N) ELSE r.codes)
        /\ g[N].node.type \in {"ACTION", "ERROR"} => g[N].node.index = Len(r.codes)
    BY DEF Records
  <2> QED
    BY <1>1, <2>1, <2>2, ListGrows
<1>5. Sequence(q.rvars) /\ ListsVariables(g, S \cup {N}, q.rvars)
  <2>1. Sequence(r.rvars) /\ ListsVariables(h, S, r.rvars)
    BY DEF Listing, ListsAre
  <2>2. \/ /\ g[N].node.type # "REFERENCE" \/ g[N].node.rvar = NONE
           /\ q.rvars = r.rvars
        \/ /\ \E k \in 1 .. Len(r.rvars) : /\ h[r.rvars[k]].node.rvar = g[N].node.rvar
                                           /\ g[N].node.index = k - 1
           /\ g[N].node.type = "REFERENCE" /\ q.rvars = r.rvars
        \/ /\ \A k \in 1 .. Len(r.rvars) : h[r.rvars[k]].node.rvar # g[N].node.rvar
           /\ g[N].node.index = Len(r.rvars) /\ g[N].node.type = "REFERENCE"
           /\ g[N].node.rvar # NONE /\ q.rvars = Append(r.rvars, N)
    BY DEF Records
  <2> QED
    BY <2>1, <2>2, VariablesGrow
<1> QED
  BY <1>2, <1>3, <1>4, <1>5 DEF Listing, ListsAre

\* The lists are the same, and so are the nodes.
SameLists(r, q) == q.rvars = r.rvars /\ q.capts = r.capts /\ q.codes = r.codes /\ q.preds = r.preds

LEMMA ListsStay ==
  ASSUME NEW h, NEW g, NEW S, Alike(h, g, S), NEW r, ListsAre(h, S, r), Listing(r),
         NEW q, SameLists(r, q)
  PROVE  ListsAre(g, S, q) /\ Listing(q)
<1>1. ASSUME NEW list, Sequence(list), NEW types, Lists(h, S, list, types)
      PROVE  Lists(g, S, list, types)
  <2>1. ToSet(list) = NodesOf(g, S, types) /\ NodesOf(g, S, types) = NodesOf(h, S, types)
    BY <1>1 DEF Lists, NodesOf, Alike
  <2>2. \A k \in DOMAIN list : list[k] \in S
    BY <2>1 DEF ToSet, NodesOf
  <2> QED
    BY <1>1, <2>1, <2>2 DEF Lists, Alike
<1>2. ASSUME NEW list, Sequence(list), ListsVariables(h, S, list)
      PROVE  ListsVariables(g, S, list)
  <2> DEFINE A == Referring(h, S)
             V(n) == g[n].node.rvar
             I(n) == g[n].node.index
  <2>1. Referring(g, S) = A /\ A \subseteq S
    BY DEF Referring, Alike
  <2>2. \A n \in A : h[n].node.rvar = V(n) /\ h[n].node.index = I(n)
    BY <2>1 DEF Alike
  <2> HIDE DEF A
  <2>3. /\ \A k \in 1 .. Len(list) :
             list[k] \in A /\ \A m \in A : h[m].node.rvar = h[list[k]].node.rvar => list[k] <= m
        /\ \A n \in A : (\A m \in A : h[m].node.rvar = h[n].node.rvar => n <= m)
                         => \E k \in 1 .. Len(list) : list[k] = n
        /\ \A n \in A : \E k \in 1 .. Len(list) :
             /\ list[k] \in A /\ h[n].node.index = k - 1 /\ h[list[k]].node.rvar = h[n].node.rvar
    BY ONLY <1>2, VariablesAre DEF A
  <2> HIDE DEF V, I
  <2>4. ASSUME NEW k \in 1 .. Len(list)
        PROVE  list[k] \in A /\ \A m \in A : V(m) = V(list[k]) => list[k] <= m
    <3>1. list[k] \in A /\ \A m \in A : h[m].node.rvar = h[list[k]].node.rvar => list[k] <= m
      BY ONLY <2>3, k \in 1 .. Len(list)
    <3> QED
      BY ONLY <2>2, <3>1
  <2>5. ASSUME NEW n \in A, \A m \in A : V(m) = V(n) => n <= m
        PROVE  \E k \in 1 .. Len(list) : list[k] = n
    <3>1. \A m \in A : h[m].node.rvar = h[n].node.rvar => n <= m
      BY ONLY <2>2, <2>5
    <3> QED
      BY ONLY <2>3, <3>1, n \in A
  <2>6. ASSUME NEW n \in A
        PROVE  \E k \in 1 .. Len(list) : list[k] \in A /\ I(n) = k - 1 /\ V(list[k]) = V(n)
    <3>1. PICK k \in 1 .. Len(list) : /\ list[k] \in A /\ h[n].node.index = k - 1
                                      /\ h[list[k]].node.rvar = h[n].node.rvar
      BY ONLY <2>3, n \in A
    <3>2. I(n) = k - 1 /\ V(list[k]) = V(n)
      BY ONLY <2>2, <3>1, n \in A
    <3> QED
      BY ONLY <3>1, <3>2, k \in 1 .. Len(list)
  <2>7. /\ \A k \in 1 .. Len(list) : list[k] \in A /\ \A m \in A : V(m) = V(list[k]) => list[k] <= m
        /\ \A n \in A : (\A m \in A : V(m) = V(n) => n <= m) => \E k \in 1 .. Len(list) : list[k] = n
        /\ \A n \in A : \E k \in 1 .. Len(list) : list[k] \in A /\ I(n) = k - 1 /\ V(list[k]) = V(n)
    BY ONLY <2>4, <2>5, <2>6
  <2> QED
    BY ONLY <1>2, <2>1, <2>7, VariablesAre DEF V, I
<1>3. /\ Lists(h, S, r.capts, {"CAPTURE"}) /\ Lists(h, S, r.preds, {"PROGPRED"})
      /\ Lists(h, S, r.codes, {"ACTION", "ERROR"}) /\ ListsVariables(h, S, r.rvars)
      /\ Sequence(r.rvars) /\ Sequence(r.capts) /\ Sequence(r.codes) /\ Sequence(r.preds)
  BY DEF ListsAre, Listing
<1>4. /\ Lists(g, S, r.capts, {"CAPTURE"}) /\ Lists(g, S, r.preds, {"PROGPRED"})
      /\ Lists(g, S, r.codes, {"ACTION", "ERROR"}) /\ ListsVariables(g, S, r.rvars)
  BY ONLY <1>1, <1>2, <1>3
<1> QED
  BY <1>3, <1>4 DEF ListsAre, Listing, SameLists

-----------------------------------------------------------------------------
(* What reading keeps of lists.                                             *)

\* Where neither a rule begins nor the functions on the stack can go on.
Stuck(w) ==
  /\ At(w) \in Beginnings \cup {"&", "!"}
  /\ ~(At(w) \in Identifier /\ Arrow(After(w)))

\* Where a function is called from.
Primaries == {"entry", "group", "capture"}
Parts     == {"prefix", "quantity", "error"}
Sequels   == {"first", "second", "more"}
Outer     == {"group", "capture", "expression"}

\* The call f is one that p waits for.  A call of parse_primary begins where
\* the term does, or behind its prefix.
Follows(p, f) ==
  /\ \/ f.at \in Primaries /\ p.at = "quantity"
     \/ f.at \in Parts /\ p.at \in Sequels
     \/ f.at \in Sequels /\ p.at = "sequences"
     \/ f.at = "sequences" /\ p.at \in Outer
  /\ p.at = "quantity" => f.from = p.from \/ Stuck(p.from)

\* What began with a bracket, or has been read so far, is no end of anything.
Placed(f) == f.at \in {"group", "capture", "error"} => Stuck(f.from)

\* The call that runs: it has just begun, or what it called is back.
TopInv ==
  /\ Top.at \in {"entry", "prefix"} => input = Top.from
  /\ Top.at = "quantity" => Stuck(Top.from) \/ (ret = NULL /\ input = Top.from)

CallsInv ==
  /\ \A k \in 1 .. Len(stack) : Placed(stack[k])
  /\ \A k \in 1 .. Len(stack) : k > 1 => Follows(stack[k - 1], stack[k])
  /\ stack # <<>> => TopInv

\* The calls will all return, and then an error is reported: something has failed
\* and the input is back at a place where nothing ends.
Doomed ==
  \/ ret = NULL /\ Top.at \in {"first", "sequences"} \cup Outer
  \/ ret = NULL /\ Top.at = "quantity" /\ Stuck(Top.from)
  \/ ret = NULL /\ Top.at \in {"second", "more"} /\ Stuck(input)
  \/ ret # NULL /\ Top.at \in {"sequences"} \cup Outer /\ Stuck(input)

\* The nodes that the calls hold.
Hand == ({stack[k].node : k \in 1 .. Len(stack)} \cup {ret}) \ {NULL}

\* The lists of the rule that is read, and of a rule that has been.
Sound == Listing(rule) /\ ListsAre(heap, Ours(heap, Hand), rule)
SoundRule(r) == Listing(rules[r]) /\ ListsAre(heap, Family(heap, rules[r].expr), rules[r])
RulesSound == \A r \in 1 .. Len(rules) : SoundRule(r)

\* Either the lists are right, or there will be an error.
ReadInv ==
  /\ errnum \in Nat /\ (~ legal => errnum # 0)
  /\ CallsInv
  /\ stack # <<>> => Sound \/ Doomed
  /\ errnum = 0 => RulesSound \/ (stack = <<>> /\ Stuck(input))
ListInv ==
  /\ pc = "read" => ReadInv
  /\ pc # "read" => stack = <<>>
  /\ pc = "hash" /\ errnum = 0 => RulesSound

-----------------------------------------------------------------------------
(* What calls and returns keep.                                             *)

\* Places mean the same as long as the text is the same.
LEMMA StuckStays ==
  ASSUME text' = text
  PROVE  /\ \A w : Stuck(w)' <=> Stuck(w)
         /\ \A p, f : Follows(p, f)' <=> Follows(p, f)
         /\ \A f : Placed(f)' <=> Placed(f)
<1>1. ASSUME NEW w
      PROVE  Stuck(w)' <=> Stuck(w)
  BY DEF Stuck, At, Arrow, After, Spaced, Past, Tok, Beginnings
<1>2. ASSUME NEW p, NEW f
      PROVE  Follows(p, f)' <=> Follows(p, f)
  BY <1>1 DEF Follows
<1>3. ASSUME NEW f
      PROVE  Placed(f)' <=> Placed(f)
  BY <1>1 DEF Placed
<1> QED
  BY <1>1, <1>2, <1>3

\* What is known of the call at the top.
LEMMA Here ==
  ASSUME NodeInv, pc = "read", NEW fn, NEW at, Runs(fn, at)
  PROVE  /\ stack # <<>> /\ Top.at = at /\ IsFrame(Top)
         /\ at \in Bare => Top.node = NULL
         /\ at \in Holding => Top.node # NULL
         /\ at \notin Waiting => ret = NULL
         /\ ret # NULL => ret # Top.node
         /\ IsHeap(heap) /\ Forest(heap, Roots) /\ Len(heap) \in Nat /\ New # NULL
<1>1. Top.at = at /\ stack # <<>>
  BY DEF Runs
<1>2. IsFrame(Top) /\ (Top.node # NULL => Top.node # ret) /\ (ret # NULL => Top.at \in Waiting)
  BY <1>1, AtTop
<1>3. IsHeap(heap) /\ Forest(heap, Roots) /\ Len(heap) \in Nat
  BY DEF NodeInv, IsHeap, Sequence
<1>4. New # NULL
  BY <1>3 DEF New, NULL
<1> QED
  BY <1>1, <1>2, <1>3, <1>4 DEF IsFrame

\* The call at the top returns to the one that waits for it; parse_primary returns
\* nothing where it began, or something that began where nothing ends.
LEMMA ReturnsTo ==
  ASSUME NodeInv, CallsInv, pc = "read", stack # <<>>, Top.at # "expression", text' = text,
         stack' = Front(stack),
         Top.at \in Primaries => Stuck(Top.from) \/ (ret' = NULL /\ input' = Top.from)
  PROVE  CallsInv' /\ stack' # <<>> /\ Follows(Top', Top)
<1> DEFINE L == Len(stack)
<1>1. L \in Nat \ {0} /\ Sequence(stack) /\ Top = stack[L]
  BY AtTop
<1>2. Sequence(stack') /\ Len(stack') = L - 1 /\ \A k \in 1 .. (L - 1) : stack'[k] = stack[k]
  BY <1>1, FrontOf
<1>3. L # 1
  <2>1. L \in 1 .. L
    BY <1>1
  <2> QED
    BY <1>1, <2>1 DEF NodeInv, StackOK
<1>4. /\ L - 1 \in 1 .. (L - 1) /\ L - 1 # 0 /\ L \in 1 .. L /\ L > 1
      /\ \A k \in 1 .. (L - 1) : k \in 1 .. L /\ (k > 1 => k - 1 \in 1 .. (L - 1))
  <2>1. \A n \in Nat \ {0} : n # 1 =>
          /\ n - 1 \in 1 .. (n - 1) /\ n - 1 # 0 /\ n \in 1 .. n /\ n > 1
          /\ \A k \in 1 .. (n - 1) : k \in 1 .. n /\ (k > 1 => k - 1 \in 1 .. (n - 1))
    OBVIOUS
  <2> QED
    BY <1>1, <1>3, <2>1
<1>5. stack' # <<>> /\ Top' = stack[L - 1]
  BY <1>2, <1>4, EmptySeq DEF Top, Last
<1>6. Follows(Top', Top)
  BY <1>1, <1>4, <1>5 DEF CallsInv
<1>7. \A k \in 1 .. (L - 1) : Placed(stack[k]) /\ (k > 1 => Follows(stack[k - 1], stack[k]))
  BY <1>4 DEF CallsInv
<1>8. ASSUME NEW k \in 1 .. Len(stack')
      PROVE  Placed(stack[k])' /\ (k > 1 => Follows(stack[k - 1], stack[k])')
  <2>1. k \in 1 .. (L - 1) /\ stack'[k] = stack[k] /\ (k > 1 => stack'[k - 1] = stack[k - 1])
    BY <1>2, <1>4
  <2>2. Placed(stack'[k]) /\ (k > 1 => Follows(stack'[k - 1], stack'[k]))
    BY <1>7, <2>1
  <2> QED
    BY <2>2, StuckStays
<1>9. TopInv'
  <2>1. Top'.at \notin {"entry", "prefix"}
    BY <1>6 DEF Follows, Sequels, Outer
  <2>2. CASE Top'.at = "quantity"
    <3>1. Top.at \in Primaries /\ (Top.from = Top'.from \/ Stuck(Top'.from))
      BY <1>6, <2>2 DEF Follows, Sequels, Outer
    <3>2. Stuck(Top'.from) \/ (ret' = NULL /\ input' = Top'.from)
      BY <3>1
    <3>3. Stuck(Top'.from) => Stuck(Top.from)'
      BY StuckStays
    <3> QED
      BY <2>1, <3>2, <3>3 DEF TopInv
  <2> QED
    BY <2>1, <2>2 DEF TopInv
<1> QED
  BY <1>5, <1>6, <1>8, <1>9 DEF CallsInv

\* The calls that f makes at w.
CallsFit(f, calls, w) ==
  /\ Sequence(calls)
  /\ \A k \in 1 .. Len(calls) :
       Placed(calls[k]) /\ Follows(IF k = 1 THEN f ELSE calls[k - 1], calls[k])
  /\ IF calls = <<>> THEN f.at = "error"
     ELSE calls[Len(calls)].at \in {"entry", "prefix"} /\ calls[Len(calls)].from = w

LEMMA Fitting ==
  ASSUME NEW f, NEW w
  PROVE  /\ f.at = "error" => CallsFit(f, <<>>, w)
         /\ f.at = "quantity" /\ (f.from = w \/ Stuck(f.from))
              => CallsFit(f, <<Frame("primary", "entry", w)>>, w)
         /\ f.at \in Sequels => CallsFit(f, TermAt(w), w)
         /\ f.at = "sequences" => CallsFit(f, SequenceAt(w), w)
         /\ f.at \in Outer => CallsFit(f, ExpressionAt(w), w)
<1> DEFINE t == Frame("term", "prefix", w)
           s == Frame("sequence", "first", w)
           e == Frame("expression", "sequences", w)
           p == Frame("primary", "entry", w)
<1>1. /\ t.at = "prefix" /\ t.from = w /\ s.at = "first" /\ e.at = "sequences"
      /\ p.at = "entry" /\ p.from = w
  BY DEF Frame
<1>2. Placed(t) /\ Placed(s) /\ Placed(e) /\ Placed(p)
  BY <1>1 DEF Placed
<1>3. /\ Follows(e, s) /\ Follows(s, t)
      /\ f.at \in Outer => Follows(f, e)
      /\ f.at = "sequences" => Follows(f, s)
      /\ f.at \in Sequels => Follows(f, t)
      /\ f.at = "quantity" /\ (f.from = w \/ Stuck(f.from)) => Follows(f, p)
  BY <1>1 DEF Follows, Primaries, Parts, Sequels, Outer
<1> HIDE DEF t, s, e, p
<1>4. /\ Sequence(<<>>) /\ Len(<<>>) = 0 /\ 1 .. 0 = {}
      /\ \A x : Sequence(<<x>>) /\ Len(<<x>>) = 1 /\ <<x>>[1] = x /\ <<x>> # <<>>
      /\ \A x, y : /\ Sequence(<<x, y>>) /\ Len(<<x, y>>) = 2 /\ <<x, y>>[1] = x /\ <<x, y>>[2] = y
                   /\ <<x, y>> # <<>>
      /\ \A x, y, z : /\ Sequence(<<x, y, z>>) /\ Len(<<x, y, z>>) = 3 /\ <<x, y, z>>[1] = x
                      /\ <<x, y, z>>[2] = y /\ <<x, y, z>>[3] = z /\ <<x, y, z>> # <<>>
  BY DEF Sequence
<1>5. TermAt(w) = <<t>> /\ SequenceAt(w) = <<s, t>> /\ ExpressionAt(w) = <<e>> \o <<s, t>>
  <2>1. TermAt(w) = <<t>> /\ SequenceAt(w) = <<s, t>>
    BY DEF TermAt, SequenceAt, t, s
  <2> QED
    BY <2>1 DEF ExpressionAt, e
<1>6. f.at = "error" => CallsFit(f, <<>>, w)
  BY <1>4 DEF CallsFit
<1>7. f.at = "quantity" /\ (f.from = w \/ Stuck(f.from)) => CallsFit(f, <<p>>, w)
  <2>1. \A k \in 1 .. 1 : k = 1
    OBVIOUS
  <2> QED
    BY <1>1, <1>2, <1>3, <1>4, <2>1 DEF CallsFit
<1>8. f.at \in Sequels => CallsFit(f, <<t>>, w)
  <2>1. \A k \in 1 .. 1 : k = 1
    OBVIOUS
  <2> QED
    BY <1>1, <1>2, <1>3, <1>4, <2>1 DEF CallsFit
<1>9. f.at = "sequences" => CallsFit(f, <<s, t>>, w)
  <2>1. \A k \in 1 .. 2 : k = 1 \/ (k = 2 /\ k - 1 = 1 /\ k # 1)
    OBVIOUS
  <2> QED
    BY <1>1, <1>2, <1>3, <1>4, <2>1 DEF CallsFit
<1>10. f.at \in Outer => CallsFit(f, <<e>> \o <<s, t>>, w)
  <2> DEFINE c == <<e>> \o <<s, t>>
  <2>1. /\ Sequence(c) /\ Len(c) = 1 + 2 /\ \A k \in 1 .. 1 : c[k] = <<e>>[k]
        /\ \A k \in 1 .. 2 : c[1 + k] = <<s, t>>[k]
    <3> HIDE DEF c
    <3>1. Sequence(<<e>>) /\ Len(<<e>>) = 1 /\ Sequence(<<s, t>>) /\ Len(<<s, t>>) = 2
      BY <1>4
    <3> QED
      BY <3>1, Joined DEF c
  <2> HIDE DEF c
  <2>2. Len(c) = 3 /\ c[1] = e /\ c[2] = s /\ c[3] = t
    <3>1. 1 \in 1 .. 1 /\ 1 \in 1 .. 2 /\ 2 \in 1 .. 2 /\ 1 + 1 = 2 /\ 1 + 2 = 3
      OBVIOUS
    <3> QED
      BY <1>4, <2>1, <3>1
  <2>3. c # <<>>
    BY <2>2, <1>4
  <2>4. \A k \in 1 .. 3 : k = 1 \/ (k = 2 /\ k - 1 = 1 /\ k # 1) \/ (k = 3 /\ k - 1 = 2 /\ k # 1)
    OBVIOUS
  <2>5. f.at \in Outer => CallsFit(f, c, w)
    BY <1>1, <1>2, <1>3, <2>1, <2>2, <2>3, <2>4 DEF CallsFit
  <2> QED
    BY <2>5 DEF c
<1> QED
  BY <1>5, <1>6, <1>7, <1>8, <1>9, <1>10 DEF p

\* A call goes on as f and makes calls.
LEMMA CallsOthers ==
  ASSUME NodeInv, CallsInv, pc = "read", stack # <<>>, Top.at # "expression", text' = text,
         NEW f, f.from = Top.from, Placed(f),
         \/ f.at \in Primaries /\ Top.at \in Primaries
         \/ f.at \in Parts /\ Top.at \in Parts
         \/ f.at \in Sequels /\ Top.at \in Sequels
         \/ f.at = "sequences" /\ Top.at = "sequences",
         NEW calls, NEW w, CallsFit(f, calls, w),
         stack' = Append(Front(stack), f) \o calls, input' = w
  PROVE  CallsInv' /\ stack' # <<>>
<1> DEFINE L == Len(stack)
           M == Len(calls)
           s == Append(Front(stack), f)
<1>1. L \in Nat \ {0} /\ Sequence(stack) /\ Top = stack[L]
  BY AtTop
<1>2. Sequence(s) /\ Len(s) = L /\ s[L] = f /\ \A k \in 1 .. (L - 1) : s[k] = stack[k]
  <2>1. Sequence(Front(stack)) /\ Len(Front(stack)) = L - 1 /\ \A k \in 1 .. (L - 1) : Front(stack)[k] = stack[k]
    BY <1>1, FrontOf
  <2>2. (L - 1) + 1 = L
    BY <1>1
  <2> QED
    BY <2>1, <2>2, Appended
<1> HIDE DEF s
<1>3. /\ Sequence(calls) /\ M \in Nat
      /\ \A k \in 1 .. M : Placed(calls[k]) /\ Follows(IF k = 1 THEN f ELSE calls[k - 1], calls[k])
  BY DEF CallsFit, Sequence
<1>4. /\ Len(stack') = L + M /\ Sequence(stack')
      /\ \A k \in 1 .. L : stack'[k] = s[k]
      /\ \A k \in 1 .. M : stack'[L + k] = calls[k]
  <2>1. stack' = s \o calls
    BY DEF s
  <2>2. /\ Sequence(s \o calls) /\ Len(s \o calls) = Len(s) + Len(calls)
        /\ \A k \in 1 .. Len(s) : (s \o calls)[k] = s[k]
        /\ \A k \in 1 .. Len(calls) : (s \o calls)[Len(s) + k] = calls[k]
    <3>1. Sequence(s)
      BY <1>2
    <3>2. Sequence(calls)
      BY <1>3
    <3> QED
      BY ONLY <3>1, <3>2, Joined
  <2> HIDE DEF L, M
  <2> QED
    BY <2>1, <2>2, <1>2 DEF M
<1>5. ASSUME NEW k \in 1 .. (L + M)
      PROVE  k \in 1 .. (L - 1) \/ k = L \/ \E j \in 1 .. M : k = L + j
  <2>1. CASE k > L
    <3>1. k - L \in 1 .. M /\ k = L + (k - L)
      BY <1>1, <1>3, <2>1
    <3> QED
      BY <3>1
  <2> QED
    BY <1>1, <2>1
<1>6. \A k \in 1 .. L : Placed(stack[k]) /\ (k > 1 => Follows(stack[k - 1], stack[k]))
  BY DEF CallsInv
<1>7. L > 1 => Follows(stack[L - 1], f)
  <2>1. L > 1 => Follows(stack[L - 1], Top)
    BY <1>1, <1>6
  <2> QED
    BY <2>1 DEF Follows, Primaries, Parts, Sequels, Outer
<1>8. ASSUME NEW k \in 1 .. (L + M)
      PROVE  Placed(stack'[k]) /\ (k > 1 => Follows(stack'[k - 1], stack'[k]))
  <2>1. CASE k \in 1 .. (L - 1)
    <3>1. k \in 1 .. L /\ (k > 1 => k - 1 \in 1 .. L /\ k - 1 \in 1 .. (L - 1))
      BY <1>1, <2>1
    <3>2. stack'[k] = stack[k] /\ (k > 1 => stack'[k - 1] = stack[k - 1])
      BY <1>2, <1>4, <2>1, <3>1
    <3> QED
      BY <1>6, <3>1, <3>2
  <2>2. CASE k = L
    <3>1. L \in 1 .. L /\ (L > 1 => L - 1 \in 1 .. L /\ L - 1 \in 1 .. (L - 1))
      BY <1>1
    <3>2. stack'[L] = f /\ (L > 1 => stack'[L - 1] = stack[L - 1])
      BY <1>2, <1>4, <3>1
    <3> QED
      BY <1>7, <2>2, <3>2
  <2>3. ASSUME NEW j \in 1 .. M, k = L + j
        PROVE  Placed(stack'[k]) /\ Follows(stack'[k - 1], stack'[k])
    <3>1. stack'[k] = calls[j]
      BY <1>4, <2>3
    <3>2. stack'[k - 1] = IF j = 1 THEN f ELSE calls[j - 1]
      <4>1. CASE j = 1
        <5>1. k - 1 = L /\ L \in 1 .. L
          BY <1>1, <2>3, <4>1
        <5> QED
          BY <1>2, <1>4, <4>1, <5>1
      <4>2. CASE j # 1
        <5>1. k - 1 = L + (j - 1) /\ j - 1 \in 1 .. M
          BY <1>1, <1>3, <2>3, <4>2
        <5> QED
          BY <1>4, <4>2, <5>1
      <4> QED
        BY <4>1, <4>2
    <3> QED
      BY <1>3, <3>1, <3>2
  <2> QED
    BY <1>5, <2>1, <2>2, <2>3
<1>9. \A k \in 1 .. Len(stack') : Placed(stack[k])' /\ (k > 1 => Follows(stack[k - 1], stack[k])')
  BY <1>4, <1>8, StuckStays
<1>10. stack' # <<>> /\ Top' = stack'[L + M]
  <2>1. L + M # 0
    BY <1>1, <1>3
  <2> QED
    BY <1>4, <2>1, EmptySeq DEF Top, Last
<1>11. TopInv'
  <2>1. CASE calls = <<>>
    <3>1. M = 0 /\ L + M = L /\ L \in 1 .. L
      BY <1>1, <2>1, EmptySeq
    <3>2. Top' = f /\ f.at = "error"
      BY <1>2, <1>4, <1>10, <2>1, <3>1 DEF CallsFit
    <3> QED
      BY <3>2 DEF TopInv
  <2>2. CASE calls # <<>>
    <3>1. M # 0
      BY <2>2, <1>3 DEF Sequence
    <3>2. M \in 1 .. M
      BY <1>3, <3>1
    <3>3. Top' = calls[M] /\ calls[M].at \in {"entry", "prefix"} /\ calls[M].from = w
      BY <1>4, <1>10, <2>2, <3>2 DEF CallsFit
    <3> QED
      BY <3>3 DEF TopInv
  <2> QED
    BY <2>1, <2>2
<1> QED
  BY <1>9, <1>10, <1>11 DEF CallsInv

-----------------------------------------------------------------------------
(* What the calls hold.                                                     *)

\* What the calls below the top hold.
HandBelow == {stack[k].node : k \in 1 .. (Len(stack) - 1)} \ {NULL}

LEMMA HandIs ==
  ASSUME NodeInv, pc = "read", stack # <<>>
  PROVE  /\ Hand = HandBelow \cup ({Top.node, ret} \ {NULL})
         /\ Top.node \notin HandBelow /\ ret \notin HandBelow
         /\ Hand \subseteq Roots /\ Hand \subseteq Nodes(heap) /\ NULL \notin Hand
         /\ Ours(heap, Hand) \subseteq Alive(heap) /\ Ours(heap, Hand) \subseteq Nodes(heap)
<1> DEFINE L == Len(stack)
<1>1. L \in Nat \ {0} /\ Top = stack[L] /\ RulesHeld = 1 .. Len(rules) /\ Sequence(stack)
  BY AtTop
<1>2. 1 .. L = (1 .. (L - 1)) \cup {L} /\ L \notin 1 .. (L - 1)
  BY <1>1
<1>3. \A k \in 1 .. (L - 1) : stack[k].node # NULL => stack[k].node # Top.node /\ stack[k].node # ret
  BY <1>1, <1>2 DEF NodeInv, Apart
<1>4. {stack[k].node : k \in 1 .. L} = {stack[k].node : k \in 1 .. (L - 1)} \cup {Top.node}
  BY <1>1, <1>2
<1> HIDE DEF L
<1>5. Hand = HandBelow \cup ({Top.node, ret} \ {NULL})
  BY <1>4 DEF Hand, HandBelow, L
<1>6. Top.node \notin HandBelow /\ ret \notin HandBelow
  BY <1>3 DEF HandBelow, L
<1>7. Hand \subseteq Roots /\ NULL \notin Hand
  BY DEF Hand, Roots
<1>8. IsHeap(heap) /\ Forest(heap, Roots)
  BY DEF NodeInv
<1>9. Hand \subseteq Nodes(heap) /\ Ours(heap, Hand) \subseteq Alive(heap)
  BY <1>7, <1>8, OursAlive
<1> QED
  BY <1>5, <1>6, <1>7, <1>9 DEF Alive

\* A node that is returned, or held by the call that goes on, is in the hand.
LEMMA HandAfterReturn ==
  ASSUME NodeInv, pc = "read", stack # <<>>, stack' = Front(stack)
  PROVE  Hand' = HandBelow \cup ({ret'} \ {NULL})
<1> DEFINE L == Len(stack)
<1>1. Sequence(stack) /\ L \in Nat \ {0}
  BY AtTop
<1>2. Len(stack') = L - 1 /\ \A k \in 1 .. (L - 1) : stack'[k] = stack[k]
  BY <1>1, FrontOf
<1>3. {stack'[k].node : k \in 1 .. (L - 1)} = {stack[k].node : k \in 1 .. (L - 1)}
  BY <1>2
<1>4. Hand' = ({stack'[k].node : k \in 1 .. (L - 1)} \cup {ret'}) \ {NULL}
  BY <1>2 DEF Hand
<1> HIDE DEF L
<1> QED
  BY <1>3, <1>4 DEF HandBelow, L

LEMMA HandAfterCall ==
  ASSUME NodeInv, pc = "read", stack # <<>>, NEW f, NEW calls, AreCalls(calls),
         stack' = Append(Front(stack), f) \o calls, ret' = NULL
  PROVE  Hand' = HandBelow \cup ({f.node} \ {NULL})
<1> DEFINE L == Len(stack)
           M == Len(calls)
           s == Append(Front(stack), f)
<1>1. L \in Nat \ {0} /\ Sequence(stack)
  BY AtTop
<1>2. Sequence(s) /\ Len(s) = L /\ s[L] = f /\ \A k \in 1 .. (L - 1) : s[k] = stack[k]
  <2>1. Sequence(Front(stack)) /\ Len(Front(stack)) = L - 1 /\ \A k \in 1 .. (L - 1) : Front(stack)[k] = stack[k]
    BY <1>1, FrontOf
  <2>2. (L - 1) + 1 = L
    BY <1>1
  <2> QED
    BY <2>1, <2>2, Appended
<1> HIDE DEF s
<1>3. M \in Nat /\ Sequence(calls) /\ \A k \in 1 .. M : calls[k].node = NULL
  BY DEF AreCalls, Sequence
<1>4. /\ Len(stack') = L + M
      /\ \A k \in 1 .. L : stack'[k] = s[k]
      /\ \A k \in 1 .. M : stack'[L + k] = calls[k]
  <2>1. stack' = s \o calls
    BY DEF s
  <2>2. /\ Sequence(s \o calls) /\ Len(s \o calls) = Len(s) + Len(calls)
        /\ \A k \in 1 .. Len(s) : (s \o calls)[k] = s[k]
        /\ \A k \in 1 .. Len(calls) : (s \o calls)[Len(s) + k] = calls[k]
    <3>1. Sequence(s)
      BY <1>2
    <3>2. Sequence(calls)
      BY <1>3
    <3> QED
      BY ONLY <3>1, <3>2, Joined
  <2> HIDE DEF L, M
  <2> QED
    BY <2>1, <2>2, <1>2 DEF M
<1>5. ASSUME NEW k \in 1 .. (L + M)
      PROVE  k \in 1 .. (L - 1) \/ k = L \/ \E j \in 1 .. M : k = L + j
  <2>1. CASE k > L
    <3>1. k - L \in 1 .. M /\ k = L + (k - L)
      BY <1>1, <1>3, <2>1
    <3> QED
      BY <3>1
  <2> QED
    BY <1>1, <2>1
<1>6. /\ L \in 1 .. L /\ L \in 1 .. (L + M)
      /\ \A k \in 1 .. (L - 1) : k \in 1 .. L /\ k \in 1 .. (L + M)
  BY <1>1, <1>3
<1>7. \A k \in 1 .. (L - 1) : stack'[k] = stack[k]
  BY <1>2, <1>4, <1>6
<1>8. stack'[L] = f
  BY <1>2, <1>4, <1>6
<1>9. \A x : x \in {stack'[k].node : k \in 1 .. (L + M)} =>
              x \in {stack[k].node : k \in 1 .. (L - 1)} \cup {f.node, NULL}
  BY <1>3, <1>4, <1>5, <1>7, <1>8
<1>10. {stack[k].node : k \in 1 .. (L - 1)} \cup {f.node} \subseteq {stack'[k].node : k \in 1 .. (L + M)}
  BY <1>6, <1>7, <1>8
<1>11. Hand' = ({stack'[k].node : k \in 1 .. (L + M)} \cup {NULL}) \ {NULL}
  BY <1>4 DEF Hand
<1> HIDE DEF L, M
<1> QED
  BY <1>9, <1>10, <1>11 DEF HandBelow, L

\* The heap h grows to g: only nodes of H may have got nodes below them.
Grown(h, g, H) ==
  /\ Nodes(h) \subseteq Nodes(g) /\ Alike(h, g, Nodes(h))
  /\ \A m \in Nodes(h) : m \notin H => Kids(g, m) = Kids(h, m)

LEMMA GrownSame ==
  ASSUME NEW h, NEW H
  PROVE  Grown(h, h, H)
BY DEF Grown, Alike

LEMMA GrownOn ==
  ASSUME NEW h, NEW g, NEW f, NEW H, Grown(h, g, H), Grown(g, f, H)
  PROVE  Grown(h, f, H)
<1>1. Nodes(h) \subseteq Nodes(g) /\ Nodes(g) \subseteq Nodes(f)
  BY DEF Grown
<1>2. Alike(h, f, Nodes(h))
  BY <1>1 DEF Grown, Alike
<1>3. \A m \in Nodes(h) : m \notin H => Kids(f, m) = Kids(h, m)
  BY <1>1 DEF Grown
<1> QED
  BY <1>1, <1>2, <1>3 DEF Grown

LEMMA GrownMore ==
  ASSUME NEW h, NEW g, NEW H, Grown(h, g, {})
  PROVE  Grown(h, g, H)
BY DEF Grown

\* Nodes that are freed are not changed otherwise.
LEMMA GrownDestroyed ==
  ASSUME NEW h, IsHeap(h), NEW n
  PROVE  Grown(h, destroy_node(h, n), {})
<1> DEFINE g == destroy_node(h, n)
<1>1. DOMAIN h = Nodes(h) /\ Len(h) \in Nat
  BY HeapFacts
<1>2. CASE n = NULL
  BY <1>2, GrownSame DEF destroy_node
<1>3. CASE n # NULL
  <2>1. g = [k \in Nodes(h) |-> IF k \in Family(h, n) THEN [h[k] EXCEPT !.live = FALSE] ELSE h[k]]
    BY <1>1, <1>3 DEF destroy_node, Destroyed
  <2>2. \A m \in Nodes(h) : g[m].node = h[m].node
    <3>1. ASSUME NEW m \in Nodes(h)
          PROVE  g[m].node = h[m].node
      <4>1. h[m] = [node |-> h[m].node, live |-> h[m].live]
        BY DEF IsHeap, IsCell
      <4>2. ASSUME NEW x, NEW y
            PROVE  [[node |-> x, live |-> y] EXCEPT !.live = FALSE].node = x
        <5> DEFINE c == [node |-> x, live |-> y]
        <5>1. c.node = x /\ c = [z \in {"node", "live"} |-> c[z]]
          OBVIOUS
        <5> HIDE DEF c
        <5>2. [c EXCEPT !.live = FALSE].node = c.node
          BY <5>1
        <5> QED
          BY <5>1, <5>2 DEF c
      <4>3. [h[m] EXCEPT !.live = FALSE].node = h[m].node
        BY <4>1, <4>2
      <4>4. g[m] = IF m \in Family(h, n) THEN [h[m] EXCEPT !.live = FALSE] ELSE h[m]
        BY <2>1
      <4> QED
        BY <4>3, <4>4
    <3> QED
      BY <3>1
  <2>3. Nodes(g) = Nodes(h)
    <3>1. DOMAIN g = 1 .. Len(h) /\ g = [k \in 1 .. Len(h) |-> g[k]]
      BY <2>1 DEF Nodes
    <3> HIDE DEF g
    <3>2. Len(g) = Len(h)
      BY <1>1, <3>1
    <3> QED
      BY <3>2 DEF Nodes
  <2> HIDE DEF g
  <2>4. Grown(h, g, {})
    BY <2>2, <2>3 DEF Grown, Alike, Kids
  <2> QED
    BY <2>4 DEF g
<1> QED
  BY <1>2, <1>3

\* A new node around some of the nodes of H.
LEMMA MadeSound ==
  ASSUME NEW h, IsHeap(h), NEW x, IsHeap(Create(h, x)), NEW H \in SUBSET Nodes(h),
         Elems(x.nodes) \subseteq H, NEW r, Listing(r), ListsAre(h, Ours(h, H), r),
         NEW q, Records(h, Create(h, x), Len(h) + 1, r, q)
  PROVE  /\ Listing(q) /\ ListsAre(Create(h, x), Ours(Create(h, x), (H \ Elems(x.nodes)) \cup {Len(h) + 1}), q)
         /\ Grown(h, Create(h, x), {})
         /\ (H \ Elems(x.nodes)) \cup {Len(h) + 1} \subseteq Nodes(Create(h, x))
<1> DEFINE g == Create(h, x)
           N == Len(h) + 1
           S == Ours(h, H)
           Q == (H \ Elems(x.nodes)) \cup {N}
<1>1. /\ Ours(g, Q) = S \cup {N} /\ Q \subseteq Nodes(g)
      /\ \A m \in Nodes(h) : g[m] = h[m]
      /\ Nodes(h) \subseteq Nodes(g)
  BY OursCreate
<1>2. S \subseteq Nodes(h)
  BY OursOf
<1>3. Len(h) \in Nat /\ N \in Nat /\ \A n \in Nodes(h) : n \in Nat /\ n < N
  BY HeapFacts DEF Nodes
<1> HIDE DEF g, N, S, Q
<1>4. Grown(h, g, {})
  BY <1>1 DEF Grown, Alike, Kids
<1>5. Alike(h, g, S)
  BY <1>1, <1>2 DEF Alike
<1>6. Records(h, g, N, r, q) /\ ListsAre(h, S, r)
  BY DEF g, N, S
<1>7. S \in SUBSET Nat /\ N \in Nat /\ \A n \in S : n < N
  BY <1>2, <1>3
<1>8. Listing(q) /\ ListsAre(g, S \cup {N}, q)
  BY <1>5, <1>6, <1>7, AllGrow
<1> QED
  BY <1>1, <1>4, <1>8 DEF g, N, Q

\* The nodes of H, one of which gets another one.
LEMMA AdoptedSound ==
  ASSUME NEW h, IsHeap(h), NEW H \in SUBSET Nodes(h), NEW n \in H, NEW c \in H, n # c,
         IsHeap(Adopt(h, n, c)), NEW r, Listing(r), ListsAre(h, Ours(h, H), r)
  PROVE  ListsAre(Adopt(h, n, c), Ours(Adopt(h, n, c), H \ {c}), r)
<1> DEFINE g == Adopt(h, n, c)
           S == Ours(h, H)
<1>1. /\ Ours(g, H \ {c}) = S
      /\ \A m \in Nodes(h) : /\ g[m].node.type = h[m].node.type
                             /\ g[m].node.rvar = h[m].node.rvar /\ g[m].node.index = h[m].node.index
  BY OursAdopt
<1>2. S \subseteq Nodes(h)
  BY OursOf
<1> HIDE DEF g, S
<1>3. Alike(h, g, S)
  BY <1>1, <1>2 DEF Alike
<1>4. ListsAre(h, S, r) /\ SameLists(r, r)
  BY DEF S, SameLists
<1>5. ListsAre(g, S, r)
  BY <1>3, <1>4, ListsStay
<1> QED
  BY <1>1, <1>5 DEF g

LEMMA GrownAdopt ==
  ASSUME NEW h, IsHeap(h), NEW H \in SUBSET Nodes(h), NEW n \in H, NEW c \in H, n # c,
         IsHeap(Adopt(h, n, c))
  PROVE  Grown(h, Adopt(h, n, c), H)
<1> DEFINE g == Adopt(h, n, c)
<1>1. /\ Nodes(g) = Nodes(h)
      /\ \A m \in Nodes(h) : /\ g[m].node.type = h[m].node.type
                             /\ g[m].node.rvar = h[m].node.rvar /\ g[m].node.index = h[m].node.index
                             /\ m # n => g[m] = h[m]
  BY OursAdopt
<1> HIDE DEF g
<1>2. Alike(h, g, Nodes(h)) /\ \A m \in Nodes(h) : m \notin H => Kids(g, m) = Kids(h, m)
  BY <1>1 DEF Alike, Kids
<1>3. Grown(h, g, H)
  BY <1>1, <1>2 DEF Grown
<1> QED
  BY <1>3 DEF g

\* The rules that were read are not changed.
LEMMA RulesStaySound ==
  ASSUME NodeInv, IsHeap(heap'), Grown(heap, heap', Hand), rules' = rules, RulesSound, pc = "read"
  PROVE  RulesSound'
<1>1. IsHeap(heap) /\ Forest(heap, Roots)
  BY DEF NodeInv
<1>2. RulesHeld = 1 .. Len(rules)
  BY DomainOf DEF NodeInv, RulesOK, RulesHeld, Rule
<1>3. ASSUME NEW r \in 1 .. Len(rules)
      PROVE  SoundRule(r)'
  <2> DEFINE e == rules[r].expr
             F == Family(heap, e)
  <2>1. e \in Roots /\ e \notin Hand
    <3>1. e # NULL /\ e # ret /\ \A k \in 1 .. Len(stack) : stack[k].node # e
      BY <1>2 DEF NodeInv, Apart
    <3> QED
      BY <1>2, <3>1 DEF Roots, Hand
  <2> HIDE DEF e
  <2> DEFINE H == {e}
  <2>2. F = Ours(heap, H)
    BY OursOne
  <2>3. /\ H \subseteq Nodes(heap) /\ Ours(heap, H) \subseteq Alive(heap)
        /\ \A x \in Roots : x \in Ours(heap, H) => x \in H
    <3>1. H \in SUBSET Roots
      BY <2>1
    <3> HIDE DEF H
    <3> QED
      BY <1>1, <3>1, OursAlive
  <2>4. F \subseteq Nodes(heap) /\ \A m \in F : m \notin Hand
    <3>1. Hand \subseteq Roots
      BY DEF Hand, Roots
    <3> QED
      BY <2>1, <2>2, <2>3, <3>1 DEF Alive
  <2>5. /\ Nodes(heap) \subseteq Nodes(heap') /\ Alike(heap, heap', F)
        /\ \A m \in F : Kids(heap', m) = Kids(heap, m)
    BY <2>4 DEF Grown, Alike
  <2>6. Ours(heap', H) = Ours(heap, H)
    <3>1. \A m \in Ours(heap, H) : Kids(heap', m) = Kids(heap, m)
      BY <2>2, <2>5
    <3>2. H \in SUBSET Nodes(heap) /\ IsHeap(heap') /\ Nodes(heap) \subseteq Nodes(heap')
      BY <2>3, <2>5
    <3> HIDE DEF H, F
    <3> QED
      BY ONLY <1>1, <3>1, <3>2, OursSame
  <2>7. Family(heap', e) = F
    BY <2>2, <2>6, OursOne
  <2>8. Listing(rules[r]) /\ ListsAre(heap, F, rules[r])
    BY DEF RulesSound, SoundRule, e
  <2>9. ListsAre(heap', F, rules[r])
    <3>1. SameLists(rules[r], rules[r])
      BY DEF SameLists
    <3> HIDE DEF F
    <3> QED
      BY <2>5, <2>8, <3>1, ListsStay
  <2> QED
    BY <2>7, <2>8, <2>9 DEF SoundRule, e
<1> QED
  BY <1>3 DEF RulesSound

-----------------------------------------------------------------------------
(* Steps that keep the lists right.                                         *)

\* A step of a function behind parse_rule.
Goes ==
  /\ NodeInv /\ NodeInv' /\ ReadInv /\ pc = "read" /\ stack # <<>>
  /\ text' = text /\ rules' = rules /\ legal' = legal

LEMMA GoesAt ==
  ASSUME Goes, NEW fn, NEW at, Runs(fn, at)
  PROVE  /\ Top.at = at /\ IsFrame(Top)
         /\ at \in Bare => Top.node = NULL
         /\ at \in Holding => Top.node # NULL
         /\ at \notin Waiting => ret = NULL
         /\ ret # NULL => ret # Top.node
         /\ IsHeap(heap) /\ IsHeap(heap') /\ Len(heap) \in Nat /\ New # NULL
         /\ Forest(heap, Roots) /\ Hand \in SUBSET Nodes(heap) /\ Hand \subseteq Roots /\ NULL \notin Hand
         /\ Hand = HandBelow \cup ({Top.node, ret} \ {NULL})
         /\ Top.node \notin HandBelow /\ ret \notin HandBelow
         /\ Placed(Top) /\ TopInv /\ CallsInv /\ errnum \in Nat /\ (~ Doomed => Sound)
<1>1. NodeInv /\ pc = "read" /\ stack # <<>> /\ ReadInv
  BY DEF Goes
<1>2. IsHeap(heap') /\ TopInv /\ CallsInv /\ errnum \in Nat /\ (~ Doomed => Sound)
  BY <1>1 DEF Goes, NodeInv, ReadInv, CallsInv
<1>3. Placed(Top)
  <2>1. Len(stack) \in Nat \ {0} /\ Top = stack[Len(stack)]
    BY <1>1, AtTop
  <2>2. Len(stack) \in 1 .. Len(stack)
    BY <2>1
  <2> QED
    BY <1>2, <2>1, <2>2 DEF CallsInv
<1>4. /\ Hand = HandBelow \cup ({Top.node, ret} \ {NULL})
      /\ Top.node \notin HandBelow /\ ret \notin HandBelow
      /\ Hand \subseteq Roots /\ Hand \subseteq Nodes(heap) /\ NULL \notin Hand
  BY <1>1, HandIs
<1>5. Hand \in SUBSET Nodes(heap)
  BY <1>4
<1> QED
  BY <1>1, <1>2, <1>3, <1>4, <1>5, Here

LEMMA StepRight ==
  ASSUME Goes, NEW d \in Nat, errnum' = errnum + d, stack' # <<>>, CallsInv',
         Sound' \/ Doomed', Grown(heap, heap', Hand)
  PROVE  ReadInv'
<1>1. errnum \in Nat /\ (~ legal => errnum # 0) /\ (errnum = 0 => RulesSound)
  BY DEF Goes, ReadInv
<1>2. errnum' \in Nat /\ (~ legal' => errnum' # 0)
  <2>1. legal' = legal
    BY DEF Goes
  <2>2. errnum + d \in Nat /\ (errnum # 0 => errnum + d # 0)
    BY <1>1
  <2> QED
    BY <1>1, <2>1, <2>2
<1>3. errnum' = 0 => RulesSound'
  <2>1. errnum + d = 0 => errnum = 0
    BY <1>1
  <2>2. IsHeap(heap')
    BY DEF Goes, NodeInv
  <2>3. RulesSound => RulesSound'
    BY <2>2, RulesStaySound DEF Goes
  <2> QED
    BY <1>1, <2>1, <2>3
<1> QED
  BY <1>2, <1>3 DEF ReadInv

\* The call at the top returns.
LEMMA ReturnRight ==
  ASSUME Goes, NEW n, NEW w, Return(n, w), NEW d \in Nat, errnum' = errnum + d,
         Top.at # "expression",
         Top.at \in Primaries => Stuck(Top.from) \/ (n = NULL /\ w = Top.from),
         Grown(heap, heap', Hand),
         Follows(Top', Top) => Sound' \/ Doomed'
  PROVE  ReadInv'
<1>1. stack' = Front(stack) /\ ret' = n /\ input' = w
  BY DEF Return
<1>2. NodeInv /\ CallsInv /\ pc = "read" /\ stack # <<>> /\ text' = text
  BY DEF Goes, ReadInv
<1>3. CallsInv' /\ stack' # <<>> /\ Follows(Top', Top)
  BY <1>1, <1>2, ReturnsTo
<1> QED
  BY <1>3, StepRight

\* The call at the top goes on as f and makes calls.
LEMMA CallRight ==
  ASSUME Goes, NEW f, NEW calls, NEW w, Call(f, calls, w), NEW d \in Nat, errnum' = errnum + d,
         Top.at # "expression", f.from = Top.from, Placed(f), CallsFit(f, calls, w),
         \/ f.at \in Primaries /\ Top.at \in Primaries
         \/ f.at \in Parts /\ Top.at \in Parts
         \/ f.at \in Sequels /\ Top.at \in Sequels
         \/ f.at = "sequences" /\ Top.at = "sequences",
         Grown(heap, heap', Hand), Sound'
  PROVE  ReadInv'
<1>1. stack' = Append(Front(stack), f) \o calls /\ input' = w
  BY DEF Call
<1>2. NodeInv /\ CallsInv /\ pc = "read" /\ stack # <<>> /\ text' = text
  BY DEF Goes, ReadInv
<1>3. CallsInv' /\ stack' # <<>>
  BY <1>1, <1>2, CallsOthers
<1> QED
  BY <1>3, StepRight

\* What has failed behind a place where nothing ends, or cannot be left out, dooms
\* the rule.
LEMMA FailDooms ==
  ASSUME Goes, NEW fn, NEW at, Runs(fn, at), NEW h, Fail(h), errnum' = errnum, Grown(heap, h, Hand),
         at \in {"group", "capture", "error", "first", "sequences"} \/ (at = "quantity" /\ Stuck(Top.from))
  PROVE  ReadInv'
<1>1. Top.at = at /\ Placed(Top) /\ errnum \in Nat
  BY GoesAt
<1>2. Return(NULL, Top.from) /\ heap' = h /\ input' = Top.from /\ ret' = NULL
  BY DEF Fail, Return
<1>3. at \in {"group", "capture", "error", "quantity"} => Stuck(Top.from)
  BY <1>1 DEF Placed
<1>4. text' = text
  BY DEF Goes
<1>5. ASSUME Follows(Top', Top)
      PROVE  Doomed'
  <2>1. CASE at \in {"group", "capture"}
    <3>1. Top'.at = "quantity" /\ (Top.from = Top'.from \/ Stuck(Top'.from))
      BY <1>1, <1>5, <2>1 DEF Follows, Parts, Sequels
    <3>2. Stuck(Top'.from)
      BY <1>3, <2>1, <3>1
    <3>3. Stuck(Top.from)'
      BY <1>4, <3>2, StuckStays
    <3> QED
      BY <1>2, <3>1, <3>3 DEF Doomed
  <2>2. CASE at \in {"error", "quantity"}
    <3>1. Top'.at \in Sequels
      BY <1>1, <1>5, <2>2 DEF Follows, Primaries, Sequels
    <3>2. Stuck(input')
      BY <1>2, <1>3, <2>2
    <3>3. Stuck(input)'
      BY <1>4, <3>2, StuckStays
    <3> QED
      BY <1>2, <3>1, <3>3 DEF Doomed, Sequels
  <2>3. CASE at = "first"
    <3>1. Top'.at = "sequences"
      BY <1>1, <1>5, <2>3 DEF Follows, Primaries, Parts, Sequels
    <3> QED
      BY <1>2, <3>1 DEF Doomed
  <2>4. CASE at = "sequences"
    <3>1. Top'.at \in Outer
      BY <1>1, <1>5, <2>4 DEF Follows, Primaries, Parts, Sequels
    <3> QED
      BY <1>2, <3>1 DEF Doomed
  <2> QED
    BY <2>1, <2>2, <2>3, <2>4
<1>6. Top.at # "expression" /\ 0 \in Nat /\ errnum' = errnum + 0
  BY <1>1
<1>7. Top.at \in Primaries => Stuck(Top.from) \/ (NULL = NULL /\ Top.from = Top.from)
  OBVIOUS
<1> QED
  BY <1>2, <1>5, <1>6, <1>7, ReturnRight

\* Nothing is made: the same nodes are at hand, and the lists are the same.
LEMMA StaysSound ==
  ASSUME Goes, Sound, heap' = heap, rule' = rule, Hand' = Hand
  PROVE  Sound' /\ Grown(heap, heap', Hand)
<1>1. Sound'
  BY DEF Sound
<1> QED
  BY <1>1, GrownSame

\* The call at the top fails, or returns the node that there is.
LEMMA PassedOn ==
  ASSUME Goes, NEW fn, NEW at, Runs(fn, at), NEW n, NEW w, Return(n, w), {n} \ {NULL} = {Top.node, ret} \ {NULL},
         heap' = heap, rule' = rule, errnum' = errnum, at # "expression", Sound,
         at \in Primaries => Stuck(Top.from) \/ (n = NULL /\ w = Top.from)
  PROVE  ReadInv'
<1>1. Top.at = at /\ errnum \in Nat /\ Hand = HandBelow \cup ({Top.node, ret} \ {NULL})
  BY GoesAt
<1>2. NodeInv /\ pc = "read" /\ stack # <<>> /\ stack' = Front(stack) /\ ret' = n
  BY DEF Goes, Return
<1>3. Hand' = Hand
  BY <1>1, <1>2, HandAfterReturn
<1>4. Sound' /\ Grown(heap, heap', Hand)
  BY <1>3, StaysSound
<1>5. 0 \in Nat /\ errnum' = errnum + 0
  BY <1>1
<1> QED
  BY <1>1, <1>4, <1>5, ReturnRight

\* A node is made around those of the call at the top.
LEMMA MadeRight ==
  ASSUME Goes, NEW fn, NEW at, Runs(fn, at), Sound, NEW x, heap' = Create(heap, x),
         Elems(x.nodes) = {Top.node, ret} \ {NULL}, Hand' = HandBelow \cup {New},
         Records(heap, heap', New, rule, rule')
  PROVE  Sound' /\ Grown(heap, heap', Hand)
<1> DEFINE E == Elems(x.nodes)
<1>1. /\ IsHeap(heap) /\ IsHeap(Create(heap, x)) /\ Hand \in SUBSET Nodes(heap)
      /\ Hand = HandBelow \cup E /\ HandBelow \cap E = {}
  <2>1. E = {Top.node, ret} \ {NULL}
    OBVIOUS
  <2> HIDE DEF E
  <2> QED
    BY <2>1, GoesAt
<1>2. Listing(rule) /\ ListsAre(heap, Ours(heap, Hand), rule)
  BY DEF Sound
<1>3. Records(heap, Create(heap, x), Len(heap) + 1, rule, rule')
  BY DEF New
<1>4. E \subseteq Hand
  BY <1>1
<1>5. /\ Listing(rule')
      /\ ListsAre(Create(heap, x), Ours(Create(heap, x), (Hand \ E) \cup {Len(heap) + 1}), rule')
      /\ Grown(heap, Create(heap, x), {})
  BY <1>1, <1>2, <1>3, <1>4, MadeSound
<1>6. (Hand \ E) \cup {Len(heap) + 1} = Hand'
  <2>1. Hand \ E = HandBelow
    BY <1>1
  <2> HIDE DEF E
  <2> QED
    BY <2>1 DEF New
<1>7. Sound'
  BY <1>5, <1>6 DEF Sound
<1> QED
  BY <1>5, <1>7, GrownMore

\* A node that has been made, and a rule whose lists are changed.
LEMMA CreatedIs ==
  ASSUME NEW h, IsHeap(h), NEW x
  PROVE  Create(h, x)[Len(h) + 1].node = x
<1> DEFINE c == [node |-> x, live |-> TRUE]
<1>1. Sequence(h) /\ c.node = x /\ Create(h, x) = Append(h, c)
  BY DEF IsHeap, Create
<1> HIDE DEF c
<1> QED
  BY <1>1, Appended

LEMMA RuleLists ==
  ASSUME NEW x, IsRule(x), NEW v
  PROVE  /\ LET y == [x EXCEPT !.rvars = v]
            IN y.rvars = v /\ y.capts = x.capts /\ y.codes = x.codes /\ y.preds = x.preds
         /\ LET y == [x EXCEPT !.capts = v]
            IN y.rvars = x.rvars /\ y.capts = v /\ y.codes = x.codes /\ y.preds = x.preds
         /\ LET y == [x EXCEPT !.codes = v]
            IN y.rvars = x.rvars /\ y.capts = x.capts /\ y.codes = v /\ y.preds = x.preds
         /\ LET y == [x EXCEPT !.preds = v]
            IN y.rvars = x.rvars /\ y.capts = x.capts /\ y.codes = x.codes /\ y.preds = v
         /\ LET y == [x EXCEPT !.expr = v]
            IN SameLists(x, y) /\ y.expr = v
<1>1. x = [name |-> x.name, expr |-> x.expr, rvars |-> x.rvars, capts |-> x.capts,
           codes |-> x.codes, preds |-> x.preds]
  BY DEF IsRule
<1>2. /\ [x EXCEPT !.rvars = v] = [name |-> x.name, expr |-> x.expr, rvars |-> v, capts |-> x.capts,
                                   codes |-> x.codes, preds |-> x.preds]
      /\ [x EXCEPT !.capts = v] = [name |-> x.name, expr |-> x.expr, rvars |-> x.rvars, capts |-> v,
                                   codes |-> x.codes, preds |-> x.preds]
      /\ [x EXCEPT !.codes = v] = [name |-> x.name, expr |-> x.expr, rvars |-> x.rvars,
                                   capts |-> x.capts, codes |-> v, preds |-> x.preds]
      /\ [x EXCEPT !.preds = v] = [name |-> x.name, expr |-> x.expr, rvars |-> x.rvars,
                                   capts |-> x.capts, codes |-> x.codes, preds |-> v]
      /\ [x EXCEPT !.expr = v] = [name |-> x.name, expr |-> v, rvars |-> x.rvars,
                                  capts |-> x.capts, codes |-> x.codes, preds |-> x.preds]
  BY <1>1
<1> QED
  BY <1>2 DEF SameLists

\* A name is no other token, and no bracket or sign of choice begins anything.
LEMMA TokensAre ==
  /\ \A t \in Class \cup String \cup Code \cup Signs \cup {NONE, END} : t \notin Identifier
  /\ "(" \in Signs /\ "<" \in Signs /\ "&" \in Signs /\ "!" \in Signs /\ "$" \in Signs /\ "@" \in Signs
  /\ "^" \in Signs /\ "." \in Signs
  /\ \A t \in {")", ">", "/", END} : t \notin Beginnings \cup {"&", "!"}
BY TokenAssumption DEF Signs, Beginnings, END

\* Anything but a name begins no rule.
LEMMA StuckAt ==
  ASSUME NEW w, At(w) \in Class \cup String \cup Code \cup {"(", "<", "$", "@", "^", ".", "&", "!"}
  PROVE  Stuck(w)
<1>1. At(w) \in Class \cup String \cup Code \cup Signs
  BY TokensAre
<1>2. At(w) \notin Identifier
  BY <1>1, TokensAre
<1> QED
  BY <1>2 DEF Stuck, Beginnings

\* Where the rule is not doomed.
LEMMA SoundHere ==
  ASSUME Goes, NEW fn, NEW at, Runs(fn, at),
         \/ at \in {"entry", "prefix", "error"}
         \/ ret # NULL /\ at \in {"quantity", "first", "second", "more"}
         \/ ret # NULL /\ at \in {"group", "capture", "sequences"} /\ At(input) \in {")", ">", "/"}
  PROVE  Sound
<1>1. Top.at = at /\ (~ Doomed => Sound) /\ (at \in {"entry", "prefix", "error"} => ret = NULL)
  <2>1. at \in {"entry", "prefix", "error"} => at \notin Waiting
    BY DEF Waiting
  <2> QED
    BY <2>1, GoesAt
<1>2. At(input) \in {")", ">", "/"} => ~ Stuck(input)
  BY TokensAre DEF Stuck
<1>3. ~ Doomed
  BY <1>1, <1>2 DEF Doomed, Outer
<1> QED
  BY <1>1, <1>3

\* Nothing is recorded of these nodes.
LEMMA NotRecorded ==
  ASSUME NEW h, NEW g, NEW N, NEW r, NEW q, SameLists(r, q),
         g[N].node.type \notin {"CAPTURE", "PROGPRED", "ACTION", "ERROR", "REFERENCE"}
  PROVE  Records(h, g, N, r, q)
BY DEF Records, SameLists

\* What parse_primary knows when it starts.
LEMMA EntryIs ==
  ASSUME Goes, Primary
  PROVE  /\ Runs("primary", "entry") /\ Top.at = "entry" /\ Top.node = NULL /\ ret = NULL
         /\ input = Top.from /\ Sound /\ Hand = HandBelow /\ errnum \in Nat /\ IsFrame(Top)
         /\ NodeInv /\ pc = "read" /\ stack # <<>> /\ New # NULL /\ IsHeap(heap) /\ IsRule(rule)
<1>1. Runs("primary", "entry")
  BY DEF Primary
<1>2. Top.at = "entry" /\ Top.node = NULL /\ ret = NULL /\ errnum \in Nat /\ TopInv /\ New # NULL /\ IsFrame(Top)
      /\ Hand = HandBelow \cup ({Top.node, ret} \ {NULL}) /\ IsHeap(heap)
  BY <1>1, GoesAt, PlacesAre
<1>3. Sound
  BY <1>1, SoundHere
<1>4. Hand = HandBelow
  BY <1>2
<1>5. input = Top.from
  BY <1>2 DEF TopInv
<1>6. NodeInv /\ pc = "read" /\ stack # <<>> /\ IsRule(rule)
  BY DEF Goes, NodeInv, RulesOK
<1> QED
  BY <1>1, <1>2, <1>3, <1>4, <1>5, <1>6

\* parse_primary returns a node with nothing below it.
LEMMA LeafRight ==
  ASSUME Goes, Primary, NEW x, x.nodes = <<>>, heap' = Create(heap, x), NEW w, Return(New, w),
         Stuck(input), NEW d \in Nat, errnum' = errnum + d, Records(heap, heap', New, rule, rule')
  PROVE  ReadInv'
<1>1. /\ Runs("primary", "entry") /\ Top.at = "entry" /\ Top.node = NULL /\ ret = NULL
      /\ input = Top.from /\ Sound /\ NodeInv /\ pc = "read" /\ stack # <<>> /\ New # NULL
  BY EntryIs
<1>2. stack' = Front(stack) /\ ret' = New
  BY DEF Return
<1>3. Hand' = HandBelow \cup {New}
  <2>1. Hand' = HandBelow \cup ({New} \ {NULL})
    BY <1>1, <1>2, HandAfterReturn
  <2> QED
    BY <1>1, <2>1
<1>4. Elems(x.nodes) = {Top.node, ret} \ {NULL}
  <2>1. 1 .. Len(x.nodes) = {}
    BY EmptySeq
  <2> QED
    BY <1>1, <2>1 DEF Elems
<1>5. Sound' /\ Grown(heap, heap', Hand)
  BY <1>1, <1>3, <1>4, MadeRight
<1>6. Top.at # "expression" /\ (Top.at \in Primaries => Stuck(Top.from))
  BY <1>1
<1> QED
  BY <1>5, <1>6, ReturnRight

\* The primary is none.
LEMMA EntryFails ==
  ASSUME Goes, Primary, Fail(heap), rule' = rule, errnum' = errnum
  PROVE  ReadInv'
<1>1. /\ Runs("primary", "entry") /\ Top.at = "entry" /\ Top.node = NULL /\ ret = NULL /\ Sound
  BY EntryIs
<1>2. Return(NULL, Top.from) /\ heap' = heap /\ {NULL} \ {NULL} = {Top.node, ret} \ {NULL}
  BY <1>1 DEF Fail
<1> QED
  BY <1>1, <1>2, PassedOn

-----------------------------------------------------------------------------
(* Each step that reads.                                                    *)

LEMMA ReferenceRight ==
  ASSUME Goes, Reference
  PROVE  ReadInv'
<1>1. Primary /\ At(input) \in Identifier
  BY DEF Reference
<1>2. CASE ~ Refers
  BY <1>1, <1>2, EntryFails DEF Reference
<1>3. CASE Refers
  <2> DEFINE v == IF Named THEN At(input) ELSE NONE
             k == IF Named THEN IndexOf(v) ELSE VOID
             t == At(NameAt)
             x == [Node("REFERENCE", <<>>, t) EXCEPT !.rvar = v, !.index = k]
             d == IF Named THEN Faults[v] ELSE 0
  <2>1. /\ heap' = Create(heap, x) /\ Return(New, After(NameAt))
        /\ rule' = IF Named /\ ~ Known(v) THEN [rule EXCEPT !.rvars = Append(rule.rvars, New)] ELSE rule
        /\ errnum' = errnum + d
    BY <1>3 DEF Reference
  <2>2. d \in Nat
    <3>1. At(input) \in Identifier => Faults[At(input)] \in Nat
      BY FaultsAssumption
    <3> QED
      BY <1>1, <3>1
  <2>3. Stuck(input)
    <3>1. CASE Named
      <4>1. ~ Arrow(After(input))
        BY <3>1 DEF Named, Arrow
      <4> QED
        BY <1>1, <4>1 DEF Stuck, Beginnings
    <3>2. CASE ~ Named
      <4>1. ~ Arrow(After(input))
        BY <1>3, <3>2 DEF Refers, NameAt
      <4> QED
        BY <1>1, <4>1 DEF Stuck, Beginnings
    <3> QED
      BY <3>1, <3>2
  <2>4. x = Made("REFERENCE", <<>>, t, v, k)
    <3> HIDE DEF v, k, t
    <3> DEFINE n1 == Made("REFERENCE", <<>>, t, NONE, VOID)
               n2 == Made("REFERENCE", <<>>, t, v, VOID)
    <3>1. Node("REFERENCE", <<>>, t) = n1
      BY DEF Node, Made
    <3>2. [n1 EXCEPT !.rvar = v] = n2
      BY DEF Made
    <3>3. [n2 EXCEPT !.index = k] = Made("REFERENCE", <<>>, t, v, k)
      BY DEF Made
    <3> HIDE DEF n1, n2
    <3>4. [n1 EXCEPT !.rvar = v, !.index = k] = [[n1 EXCEPT !.rvar = v] EXCEPT !.index = k]
      OBVIOUS
    <3> QED
      BY <3>1, <3>2, <3>3, <3>4
  <2> HIDE DEF x, d
  <2>5. /\ x.type = "REFERENCE" /\ x.rvar = v /\ x.index = k /\ x.nodes = <<>>
    <3> HIDE DEF v, k, t
    <3> QED
      BY <2>4 DEF Made
  <2>6. heap'[New].node = x /\ IsRule(rule)
    BY <1>1, <2>1, EntryIs, CreatedIs DEF New
  <2>7. Records(heap, heap', New, rule, rule')
    <3>1. rule'.capts = rule.capts /\ rule'.codes = rule.codes /\ rule'.preds = rule.preds
      BY <2>1, <2>6, RuleLists
    <3>2. Sequence(rule.rvars) /\ DOMAIN rule.rvars = 1 .. Len(rule.rvars)
      <4>1. Listing(rule)
        BY <1>1, EntryIs DEF Sound
      <4> QED
        BY <4>1, DomainOf DEF Listing
    <3>3. CASE ~ Named
      <4>1. x.rvar = NONE /\ rule' = rule
        BY <2>1, <2>5, <3>3
      <4> QED
        BY <2>5, <2>6, <3>1, <4>1 DEF Records
    <3>4. CASE Named /\ Known(v)
      <4> DEFINE P(j) == heap[rule.rvars[j]].node.rvar = v
                 c == CHOOSE j \in 1 .. Len(rule.rvars) : P(j)
      <4>1. \E j \in 1 .. Len(rule.rvars) : P(j)
        BY <3>2, <3>4 DEF Known
      <4>2. c \in 1 .. Len(rule.rvars) /\ P(c)
        BY <4>1
      <4>3. k = c - 1
        BY <3>2, <3>4 DEF IndexOf
      <4> HIDE DEF c, k, v
      <4>4. rule' = rule
        BY <2>1, <3>4
      <4> QED
        BY <2>5, <2>6, <3>1, <4>2, <4>3, <4>4 DEF Records
    <3>5. CASE Named /\ ~ Known(v)
      <4>1. \A j \in 1 .. Len(rule.rvars) : heap[rule.rvars[j]].node.rvar # v
        BY <3>2, <3>5 DEF Known
      <4>2. k = Len(rule.rvars) /\ v # NONE
        <5>1. NONE \notin Identifier
          BY TokensAre
        <5> QED
          BY <1>1, <3>5, <5>1 DEF IndexOf
      <4> HIDE DEF k, v
      <4>3. rule'.rvars = Append(rule.rvars, New)
        BY <2>1, <2>6, <3>5, RuleLists
      <4> QED
        BY <2>5, <2>6, <3>1, <4>1, <4>2, <4>3 DEF Records
    <3> QED
      BY <3>3, <3>4, <3>5
  <2> QED
    BY <1>1, <2>1, <2>2, <2>3, <2>5, <2>7, LeafRight
<1> QED
  BY <1>2, <1>3

LEMMA OperandRight ==
  ASSUME Goes, Operand
  PROVE  ReadInv'
<1> DEFINE w == After(input)
           t == At(w)
           x1 == [Node("MATCH_CAPT", <<>>, t) EXCEPT !.index = Dollar(t)]
           x2 == Node("MATCH_MVAR", <<>>, t)
<1>1. Primary /\ At(input) \in {"$", "@"} /\ rule' = rule
  BY DEF Operand
<1>2. \/ /\ t \in Number /\ heap' = Create(heap, x1) /\ Return(New, After(w)) /\ errnum' = errnum + Faults[t]
      \/ /\ heap' = Create(heap, x2) /\ Return(New, After(w)) /\ errnum' = errnum
      \/ Fail(heap) /\ errnum' = errnum
  <2>1. CASE At(input) = "$" /\ t \in Number
    BY <2>1 DEF Operand
  <2>2. CASE ~(At(input) = "$" /\ t \in Number) /\ At(input) = "@" /\ t \in Identifier
    BY <2>2 DEF Operand
  <2>3. CASE ~(At(input) = "$" /\ t \in Number) /\ ~(At(input) = "@" /\ t \in Identifier)
    BY <2>3 DEF Operand
  <2> QED
    BY <2>1, <2>2, <2>3
<1>3. Stuck(input) /\ SameLists(rule, rule') /\ IsHeap(heap) /\ errnum \in Nat
  BY <1>1, StuckAt, EntryIs DEF SameLists
<1>4. ASSUME NEW x, x.type \in {"MATCH_CAPT", "MATCH_MVAR"}, x.nodes = <<>>, heap' = Create(heap, x),
             Return(New, After(w)), NEW d \in Nat, errnum' = errnum + d
      PROVE  ReadInv'
  <2>1. heap'[New].node = x
    BY <1>3, <1>4, CreatedIs DEF New
  <2>2. Records(heap, heap', New, rule, rule')
    BY <1>3, <1>4, <2>1, NotRecorded
  <2> QED
    BY <1>1, <1>3, <1>4, <2>2, LeafRight
<1>5. CASE t \in Number /\ heap' = Create(heap, x1) /\ Return(New, After(w)) /\ errnum' = errnum + Faults[t]
  <2>1. Faults[t] \in Nat
    BY <1>5, FaultsAssumption
  <2>2. x1.type = "MATCH_CAPT" /\ x1.nodes = <<>>
    <3>1. x1 = Made("MATCH_CAPT", <<>>, t, NONE, Dollar(t))
      BY DEF Node, Made
    <3> HIDE DEF x1
    <3> QED
      BY <3>1 DEF Made
  <2> HIDE DEF x1, w, t
  <2> QED
    BY <1>4, <1>5, <2>1, <2>2
<1>6. CASE heap' = Create(heap, x2) /\ Return(New, After(w)) /\ errnum' = errnum
  <2>1. x2.type = "MATCH_MVAR" /\ x2.nodes = <<>> /\ 0 \in Nat /\ errnum' = errnum + 0
    BY <1>3, <1>6 DEF Node
  <2> HIDE DEF x2, w
  <2> QED
    BY <1>4, <1>6, <2>1
<1>7. CASE Fail(heap) /\ errnum' = errnum
  BY <1>1, <1>7, EntryFails
<1> QED
  BY <1>2, <1>5, <1>6, <1>7

LEMMA LiteralRight ==
  ASSUME Goes, Literal
  PROVE  ReadInv'
<1> DEFINE x == Node(LiteralType(At(input)), <<>>, At(input))
<1>1. /\ Primary /\ rule' = rule /\ heap' = Create(heap, x) /\ Return(New, After(input))
      /\ errnum' = errnum + Faults[At(input)] /\ At(input) \in {"^", "."} \cup Class \cup String
  BY DEF Literal
<1>2. Faults[At(input)] \in Nat
  BY <1>1, FaultsAssumption
<1>3. Stuck(input) /\ SameLists(rule, rule') /\ IsHeap(heap)
  BY <1>1, StuckAt, EntryIs DEF SameLists
<1>4. x.type \in {"POSITION", "STRING", "CHARCLASS"} /\ x.nodes = <<>>
  BY DEF Node, LiteralType
<1> HIDE DEF x
<1>5. heap'[New].node = x
  BY <1>1, <1>3, CreatedIs DEF New
<1>6. Records(heap, heap', New, rule, rule')
  BY <1>3, <1>4, <1>5, NotRecorded
<1> QED
  BY <1>1, <1>2, <1>3, <1>4, <1>6, LeafRight

LEMMA ActionRight ==
  ASSUME Goes, Action
  PROVE  ReadInv'
<1> DEFINE x == [Node("ACTION", <<>>, NONE) EXCEPT !.index = Len(rule.codes)]
<1>1. /\ Primary /\ heap' = Create(heap, x) /\ Return(New, After(input))
      /\ rule' = [rule EXCEPT !.codes = Append(rule.codes, New)]
      /\ errnum' = errnum /\ At(input) \in Code
  BY DEF Action
<1>2. Stuck(input) /\ IsHeap(heap) /\ IsRule(rule) /\ 0 \in Nat /\ errnum' = errnum + 0
  BY <1>1, StuckAt, EntryIs
<1>3. x.type = "ACTION" /\ x.nodes = <<>> /\ x.index = Len(rule.codes)
  <2>1. x = Made("ACTION", <<>>, NONE, NONE, Len(rule.codes))
    BY DEF Node, Made
  <2> HIDE DEF x
  <2> QED
    BY <2>1 DEF Made
<1> HIDE DEF x
<1>4. heap'[New].node = x
  BY <1>1, <1>2, CreatedIs DEF New
<1>5. /\ rule'.rvars = rule.rvars /\ rule'.capts = rule.capts
      /\ rule'.codes = Append(rule.codes, New) /\ rule'.preds = rule.preds
  BY <1>1, <1>2, RuleLists
<1>6. Records(heap, heap', New, rule, rule')
  BY <1>3, <1>4, <1>5 DEF Records
<1> QED
  BY <1>1, <1>2, <1>3, <1>6, LeafRight

LEMMA NoPrimaryRight ==
  ASSUME Goes, NoPrimary
  PROVE  ReadInv'
BY EntryFails DEF NoPrimary

LEMMA GroupRight ==
  ASSUME Goes, Group
  PROVE  ReadInv'
<1> DEFINE f == [Top EXCEPT !.at = "group"]
           w == After(input)
           calls == ExpressionAt(w)
<1>1. Primary /\ At(input) = "(" /\ Call(f, calls, w) /\ heap' = heap /\ rule' = rule /\ errnum' = errnum
  BY DEF Group
<1>2. /\ Top.at = "entry" /\ Top.node = NULL /\ input = Top.from /\ Sound /\ Hand = HandBelow
      /\ errnum \in Nat /\ IsFrame(Top) /\ NodeInv /\ pc = "read" /\ stack # <<>>
  BY <1>1, EntryIs
<1>3. Stuck(input)
  BY <1>1, StuckAt
<1>4. f.at = "group" /\ f.from = Top.from /\ f.node = NULL
  <2>1. f = [fn |-> Top.fn, at |-> "group", from |-> Top.from, node |-> Top.node, prefix |-> Top.prefix]
    BY <1>2, FramesAre
  <2> HIDE DEF f
  <2> QED
    BY <1>2, <2>1
<1> HIDE DEF f
<1>5. CallsFit(f, calls, w) /\ AreCalls(calls) /\ Placed(f)
  <2>1. f.at \in Outer
    BY <1>4 DEF Outer
  <2> QED
    BY <1>2, <1>3, <1>4, <2>1, Fitting, AreFrames DEF Placed
<1> HIDE DEF calls, w
<1>6. Hand' = Hand
  <2>1. stack' = Append(Front(stack), f) \o calls /\ ret' = NULL
    BY <1>1 DEF Call
  <2>2. Hand' = HandBelow \cup ({f.node} \ {NULL})
    BY <1>2, <1>5, <2>1, HandAfterCall
  <2> QED
    BY <1>2, <1>4, <2>2
<1>7. Sound' /\ Grown(heap, heap', Hand)
  BY <1>1, <1>2, <1>6, StaysSound
<1>8. f.at \in Primaries /\ Top.at \in Primaries /\ 0 \in Nat /\ errnum' = errnum + 0
  BY <1>1, <1>2, <1>4 DEF Primaries
<1> QED
  BY <1>1, <1>2, <1>4, <1>5, <1>7, <1>8, CallRight

LEMMA GroupEndRight ==
  ASSUME Goes, GroupEnd
  PROVE  ReadInv'
<1>1. /\ Runs("primary", "group") /\ rule' = rule /\ errnum' = errnum
  BY DEF GroupEnd
<1>2. /\ Top.at = "group" /\ Top.node = NULL /\ IsHeap(heap) /\ Placed(Top)
  BY <1>1, GoesAt, PlacesAre
<1>3. CASE ret # NULL /\ At(input) = ")"
  <2>1. Return(ret, After(input)) /\ heap' = heap
    BY <1>3 DEF GroupEnd
  <2>2. Sound
    BY <1>1, <1>3, SoundHere
  <2>3. Stuck(Top.from) /\ {ret} \ {NULL} = {Top.node, ret} \ {NULL}
    BY <1>2 DEF Placed
  <2> QED
    BY <1>1, <2>1, <2>2, <2>3, PassedOn
<1>4. CASE ~(ret # NULL /\ At(input) = ")")
  <2>1. Fail(destroy_node(heap, ret))
    BY <1>4 DEF GroupEnd
  <2>2. Grown(heap, destroy_node(heap, ret), Hand)
    BY <1>2, GrownDestroyed, GrownMore
  <2> QED
    BY <1>1, <2>1, <2>2, FailDooms
<1> QED
  BY <1>3, <1>4

LEMMA CaptureRight ==
  ASSUME Goes, Capture
  PROVE  ReadInv'
<1> DEFINE x == [Node("CAPTURE", <<>>, NONE) EXCEPT !.index = Len(rule.capts)]
           f == [Top EXCEPT !.at = "capture", !.node = New]
           w == After(input)
           calls == ExpressionAt(w)
<1>1. /\ Primary /\ At(input) = "<" /\ Call(f, calls, w) /\ heap' = Create(heap, x) /\ errnum' = errnum
      /\ rule' = [rule EXCEPT !.capts = Append(rule.capts, New)]
  BY DEF Capture
<1>2. /\ Runs("primary", "entry") /\ Top.at = "entry" /\ Top.node = NULL /\ ret = NULL
      /\ input = Top.from /\ Sound /\ Hand = HandBelow
      /\ errnum \in Nat /\ IsFrame(Top) /\ NodeInv /\ pc = "read" /\ stack # <<>>
      /\ New # NULL /\ IsHeap(heap) /\ IsRule(rule)
  BY <1>1, EntryIs
<1>3. Stuck(input)
  BY <1>1, StuckAt
<1>4. f.at = "capture" /\ f.from = Top.from /\ f.node = New
  <2>1. f = [fn |-> Top.fn, at |-> "capture", from |-> Top.from, node |-> New, prefix |-> Top.prefix]
    BY <1>2, FramesAre
  <2> HIDE DEF f
  <2> QED
    BY <1>2, <2>1
<1> HIDE DEF f
<1>5. CallsFit(f, calls, w) /\ AreCalls(calls) /\ Placed(f)
  <2>1. f.at \in Outer
    BY <1>4 DEF Outer
  <2> QED
    BY <1>2, <1>3, <1>4, <2>1, Fitting, AreFrames DEF Placed
<1> HIDE DEF calls, w
<1>6. Hand' = HandBelow \cup {New}
  <2>1. stack' = Append(Front(stack), f) \o calls /\ ret' = NULL
    BY <1>1 DEF Call
  <2>2. Hand' = HandBelow \cup ({f.node} \ {NULL})
    BY <1>2, <1>5, <2>1, HandAfterCall
  <2> QED
    BY <1>2, <1>4, <2>2
<1>7. x.type = "CAPTURE" /\ x.nodes = <<>> /\ x.index = Len(rule.capts)
  <2>1. x = Made("CAPTURE", <<>>, NONE, NONE, Len(rule.capts))
    BY DEF Node, Made
  <2> HIDE DEF x
  <2> QED
    BY <2>1 DEF Made
<1> HIDE DEF x
<1>8. Records(heap, heap', New, rule, rule')
  <2>1. heap'[New].node = x
    BY <1>1, <1>2, CreatedIs DEF New
  <2>2. /\ rule'.rvars = rule.rvars /\ rule'.capts = Append(rule.capts, New)
        /\ rule'.codes = rule.codes /\ rule'.preds = rule.preds
    BY <1>1, <1>2, RuleLists
  <2> QED
    BY <1>7, <2>1, <2>2 DEF Records
<1>9. Elems(x.nodes) = {Top.node, ret} \ {NULL}
  <2>1. 1 .. Len(x.nodes) = {}
    BY <1>7, EmptySeq
  <2> QED
    BY <1>2, <2>1 DEF Elems
<1>10. Sound' /\ Grown(heap, heap', Hand)
  BY <1>1, <1>2, <1>6, <1>8, <1>9, MadeRight
<1>11. f.at \in Primaries /\ Top.at \in Primaries /\ 0 \in Nat /\ errnum' = errnum + 0
  BY <1>1, <1>2, <1>4 DEF Primaries
<1> QED
  BY <1>1, <1>2, <1>4, <1>5, <1>10, <1>11, CallRight

\* The call at the top gives its node another one, which has been returned.
LEMMA AdoptRight ==
  ASSUME Goes, NEW fn, NEW at, Runs(fn, at), Top.node # NULL, ret # NULL
  PROVE  /\ IsHeap(Adopt(heap, Top.node, ret)) /\ Grown(heap, Adopt(heap, Top.node, ret), Hand)
         /\ Sound /\ heap' = Adopt(heap, Top.node, ret) /\ rule' = rule /\ Hand' = HandBelow \cup {Top.node}
              => Sound'
<1> DEFINE n == Top.node
           g == Adopt(heap, n, ret)
<1>1. /\ Hand = HandBelow \cup {n, ret} /\ n # ret /\ n \notin HandBelow /\ ret \notin HandBelow
      /\ Hand \in SUBSET Nodes(heap) /\ IsHeap(heap) /\ Forest(heap, Roots) /\ n \in Roots /\ ret \in Roots
  <2>1. /\ Hand = HandBelow \cup ({n, ret} \ {NULL}) /\ n # ret /\ n \notin HandBelow /\ ret \notin HandBelow
        /\ Hand \in SUBSET Nodes(heap) /\ IsHeap(heap) /\ Forest(heap, Roots) /\ Hand \subseteq Roots
    BY GoesAt
  <2> QED
    BY <2>1
<1>2. IsHeap(g)
  BY <1>1, AdoptRoot
<1>3. n \in Hand /\ ret \in Hand /\ Hand \ {ret} = HandBelow \cup {n}
  BY <1>1
<1>4. Grown(heap, g, Hand)
  BY <1>1, <1>2, <1>3, GrownAdopt
<1>5. ASSUME Sound, heap' = g, rule' = rule, Hand' = HandBelow \cup {n}
      PROVE  Sound'
  <2>1. Listing(rule) /\ ListsAre(heap, Ours(heap, Hand), rule)
    BY <1>5 DEF Sound
  <2>2. ListsAre(g, Ours(g, Hand \ {ret}), rule)
    BY <1>1, <1>2, <1>3, <2>1, AdoptedSound
  <2> HIDE DEF g
  <2> QED
    BY <1>3, <1>5, <2>1, <2>2 DEF Sound
<1> QED
  BY <1>2, <1>4, <1>5

LEMMA CaptureEndRight ==
  ASSUME Goes, CaptureEnd
  PROVE  ReadInv'
<1> DEFINE h == IF ret = NULL THEN heap ELSE Adopt(heap, Top.node, ret)
           done == ret # NULL /\ At(input) = ">"
<1>1. /\ Runs("primary", "capture") /\ errnum' = errnum
      /\ done => heap' = h /\ Return(Top.node, After(input)) /\ rule' = rule
      /\ ~ done => Fail(destroy_node(h, Top.node))
  BY DEF CaptureEnd
<1>2. /\ Top.at = "capture" /\ Top.node # NULL /\ IsHeap(heap) /\ Placed(Top) /\ errnum \in Nat
      /\ NodeInv /\ pc = "read" /\ stack # <<>>
  BY <1>1, GoesAt, PlacesAre DEF Goes
<1>3. CASE done
  <2>1. heap' = Adopt(heap, Top.node, ret) /\ Return(Top.node, After(input)) /\ rule' = rule
    BY <1>1, <1>3
  <2>2. Sound
    BY <1>1, <1>3, SoundHere
  <2>3. Hand' = HandBelow \cup {Top.node}
    <3>1. stack' = Front(stack) /\ ret' = Top.node
      BY <2>1 DEF Return
    <3>2. Hand' = HandBelow \cup ({Top.node} \ {NULL})
      BY <1>2, <3>1, HandAfterReturn
    <3> QED
      BY <1>2, <3>2
  <2>4. Sound' /\ Grown(heap, heap', Hand)
    BY <1>1, <1>2, <1>3, <2>1, <2>2, <2>3, AdoptRight
  <2>5. Stuck(Top.from) /\ Top.at # "expression" /\ 0 \in Nat /\ errnum' = errnum + 0
    BY <1>1, <1>2 DEF Placed
  <2> QED
    BY <2>1, <2>4, <2>5, ReturnRight
<1>4. CASE ~ done
  <2>1. IsHeap(h) /\ Grown(heap, h, Hand)
    BY <1>1, <1>2, AdoptRight, GrownSame
  <2> HIDE DEF h, done
  <2>2. Grown(h, destroy_node(h, Top.node), Hand)
    BY <2>1, GrownDestroyed, GrownMore
  <2>3. Grown(heap, destroy_node(h, Top.node), Hand)
    BY <2>1, <2>2, GrownOn
  <2> QED
    BY <1>1, <1>4, <2>3, FailDooms
<1> QED
  BY <1>3, <1>4

LEMMA PrefixRight ==
  ASSUME Goes, Prefix
  PROVE  ReadInv'
<1> DEFINE t == IF At(input) \in {"&", "!"} THEN At(input) ELSE NONE
           w == IF t = NONE THEN input ELSE After(input)
           x == [Node("PROGPRED", <<>>, t) EXCEPT !.index = Len(rule.preds)]
           f == [Top EXCEPT !.at = "error", !.node = New]
           g == [Top EXCEPT !.at = "quantity", !.prefix = t]
           block == t # NONE /\ At(w) \in Code
<1>1. /\ Runs("term", "prefix") /\ errnum' = errnum
      /\ block => /\ heap' = Create(heap, x) /\ rule' = [rule EXCEPT !.preds = Append(rule.preds, New)]
                  /\ Call(f, <<>>, After(w))
      /\ ~ block => /\ Call(g, <<Frame("primary", "entry", w)>>, w)
                    /\ heap' = heap /\ rule' = rule
  BY DEF Prefix
<1>2. /\ Top.at = "prefix" /\ Top.node = NULL /\ ret = NULL /\ IsHeap(heap) /\ IsFrame(Top) /\ New # NULL
      /\ errnum \in Nat /\ TopInv /\ Hand = HandBelow \cup ({Top.node, ret} \ {NULL})
  BY <1>1, GoesAt, PlacesAre
<1>3. input = Top.from /\ Hand = HandBelow /\ Sound /\ IsRule(rule) /\ NodeInv /\ pc = "read" /\ stack # <<>>
  <2>1. Sound
    BY <1>1, SoundHere
  <2> QED
    BY <1>2, <2>1 DEF TopInv, Goes, NodeInv, RulesOK
<1>4. t # NONE => Stuck(input)
  BY StuckAt
<1>5. 0 \in Nat /\ errnum' = errnum + 0 /\ "prefix" \in Parts /\ "error" \in Parts /\ "quantity" \in Parts
  BY <1>1, <1>2 DEF Parts
<1>6. CASE block
  <2>1. f.at = "error" /\ f.from = Top.from /\ f.node = New
    <3>1. f = [fn |-> Top.fn, at |-> "error", from |-> Top.from, node |-> New, prefix |-> Top.prefix]
      BY <1>2, FramesAre
    <3> HIDE DEF f
    <3> QED
      BY <3>1
  <2>2. Placed(f)
    <3>1. Stuck(Top.from)
      BY <1>3, <1>4, <1>6
    <3> HIDE DEF f
    <3> QED
      BY <2>1, <3>1 DEF Placed
  <2>3. x.type = "PROGPRED" /\ x.nodes = <<>> /\ x.index = Len(rule.preds)
    <3>1. x = Made("PROGPRED", <<>>, t, NONE, Len(rule.preds))
      BY DEF Node, Made
    <3> HIDE DEF x
    <3> QED
      BY <3>1 DEF Made
  <2> DEFINE u == After(w)
  <2>4. /\ heap' = Create(heap, x) /\ rule' = [rule EXCEPT !.preds = Append(rule.preds, New)]
        /\ Call(f, <<>>, u)
    BY <1>1, <1>6
  <2> HIDE DEF f, x, u
  <2>5. CallsFit(f, <<>>, u) /\ AreCalls(<<>>)
    BY <2>1, Fitting, AreFrames
  <2>6. Hand' = HandBelow \cup {New}
    <3>1. stack' = Append(Front(stack), f) \o <<>> /\ ret' = NULL
      BY <2>4 DEF Call
    <3>2. Hand' = HandBelow \cup ({f.node} \ {NULL})
      BY <1>3, <2>5, <3>1, HandAfterCall
    <3> QED
      BY <1>2, <2>1, <3>2
  <2>7. Records(heap, heap', New, rule, rule')
    <3>1. heap'[New].node = x
      BY <1>2, <2>4, CreatedIs DEF New
    <3>2. /\ rule'.rvars = rule.rvars /\ rule'.capts = rule.capts
          /\ rule'.codes = rule.codes /\ rule'.preds = Append(rule.preds, New)
      BY <1>3, <2>4, RuleLists
    <3> QED
      BY <2>3, <3>1, <3>2 DEF Records
  <2>8. Elems(x.nodes) = {Top.node, ret} \ {NULL}
    <3>1. 1 .. Len(x.nodes) = {}
      BY <2>3, EmptySeq
    <3> QED
      BY <1>2, <3>1 DEF Elems
  <2>9. Sound' /\ Grown(heap, heap', Hand)
    BY <1>1, <1>3, <2>4, <2>6, <2>7, <2>8, MadeRight
  <2>10. f.at \in Parts /\ Top.at \in Parts /\ Top.at # "expression"
    BY <1>2, <1>5, <2>1
  <2> QED
    BY <1>5, <2>1, <2>2, <2>4, <2>5, <2>9, <2>10, CallRight
<1>7. CASE ~ block
  <2> DEFINE calls == <<Frame("primary", "entry", w)>>
  <2>1. g.at = "quantity" /\ g.from = Top.from /\ g.node = NULL
    <3>1. g = [fn |-> Top.fn, at |-> "quantity", from |-> Top.from, node |-> Top.node, prefix |-> t]
      BY <1>2, PrefixedFrame
    <3> HIDE DEF g
    <3> QED
      BY <1>2, <3>1
  <2>2. Call(g, calls, w) /\ heap' = heap /\ rule' = rule
    BY <1>1, <1>7
  <2>3. w = Top.from \/ Stuck(Top.from)
    BY <1>3, <1>4
  <2> HIDE DEF g, w, t
  <2>4. CallsFit(g, calls, w) /\ AreCalls(calls) /\ Placed(g)
    BY <2>1, <2>3, Fitting, AreFrames DEF Placed
  <2> HIDE DEF calls
  <2>5. Hand' = Hand
    <3>1. stack' = Append(Front(stack), g) \o calls /\ ret' = NULL
      BY <2>2 DEF Call
    <3>2. Hand' = HandBelow \cup ({g.node} \ {NULL})
      BY <1>3, <2>4, <3>1, HandAfterCall
    <3> QED
      BY <1>3, <2>1, <3>2
  <2>6. Sound' /\ Grown(heap, heap', Hand)
    BY <1>3, <2>2, <2>5, StaysSound
  <2>7. g.at \in Parts /\ Top.at \in Parts /\ Top.at # "expression"
    BY <1>2, <1>5, <2>1
  <2> QED
    BY <1>5, <2>1, <2>2, <2>4, <2>6, <2>7, CallRight
<1> QED
  BY <1>6, <1>7

\* A node around another one of those at hand.
LEMMA WrappedSound ==
  ASSUME NEW h, IsHeap(h), NEW H \in SUBSET Nodes(h), NEW n \in H,
         NEW type, type \in {"QUANTITY", "PREDICATE", "ALTERNATE"}, NEW t,
         IsHeap(Wrapped(h, n, type, t).heap), NEW r, Listing(r), ListsAre(h, Ours(h, H), r)
  PROVE  LET w == Wrapped(h, n, type, t) IN
           /\ ListsAre(w.heap, Ours(w.heap, (H \ {n}) \cup {w.node}), r)
           /\ Grown(h, w.heap, {}) /\ (H \ {n}) \cup {w.node} \subseteq Nodes(w.heap)
<1> DEFINE w == Wrapped(h, n, type, t)
<1>1. CASE t = NONE
  <2>1. w.heap = h /\ w.node = n
    BY <1>1 DEF Wrapped
  <2>2. (H \ {n}) \cup {n} = H
    OBVIOUS
  <2> HIDE DEF w
  <2>3. /\ ListsAre(w.heap, Ours(w.heap, (H \ {n}) \cup {w.node}), r)
        /\ Grown(h, w.heap, {}) /\ (H \ {n}) \cup {w.node} \subseteq Nodes(w.heap)
    BY <2>1, <2>2, GrownSame
  <2> QED
    BY <2>3 DEF w
<1>2. CASE t # NONE
  <2> DEFINE s == <<n>>
             x == Node(type, s, t)
  <2>1. w.heap = Create(h, x) /\ w.node = Len(h) + 1
    BY <1>2 DEF Wrapped
  <2>2. x.type = type /\ Elems(x.nodes) = {n}
    <3>1. x.type = type /\ x.nodes = s /\ Len(s) = 1 /\ s[1] = n
      BY DEF Node
    <3>2. 1 .. 1 = {1}
      OBVIOUS
    <3> HIDE DEF x, s
    <3> QED
      BY <3>1, <3>2 DEF Elems
  <2>3. IsHeap(Create(h, x))
    BY <2>1
  <2> HIDE DEF x, w
  <2>4. Records(h, Create(h, x), Len(h) + 1, r, r)
    <3>1. Create(h, x)[Len(h) + 1].node = x
      BY CreatedIs
    <3>2. SameLists(r, r)
      BY DEF SameLists
    <3> QED
      BY <2>2, <3>1, <3>2, NotRecorded
  <2>5. /\ ListsAre(Create(h, x), Ours(Create(h, x), (H \ Elems(x.nodes)) \cup {Len(h) + 1}), r)
        /\ Grown(h, Create(h, x), {})
        /\ (H \ Elems(x.nodes)) \cup {Len(h) + 1} \subseteq Nodes(Create(h, x))
    BY <2>2, <2>3, <2>4, MadeSound
  <2>6. /\ ListsAre(w.heap, Ours(w.heap, (H \ {n}) \cup {w.node}), r)
        /\ Grown(h, w.heap, {}) /\ (H \ {n}) \cup {w.node} \subseteq Nodes(w.heap)
    BY <2>1, <2>2, <2>5
  <2> QED
    BY <2>6 DEF w
<1> QED
  BY <1>1, <1>2

LEMMA QuantityRight ==
  ASSUME Goes, Quantity
  PROVE  ReadInv'
<1> DEFINE t == IF At(input) \in {"*", "+", "?"} THEN At(input) ELSE NONE
           u == IF t = NONE THEN input ELSE After(input)
           quantity  == Wrapped(heap, ret, "QUANTITY", t)
           predicate == Wrapped(quantity.heap, quantity.node, "PREDICATE", Top.prefix)
           f == [Top EXCEPT !.at = "error", !.node = predicate.node]
<1>1. /\ rule' = rule /\ errnum' = errnum /\ Runs("term", "quantity")
      /\ ret = NULL => Fail(heap)
      /\ ret # NULL => heap' = predicate.heap /\ Call(f, <<>>, u)
  BY DEF Quantity
<1>2. /\ Top.at = "quantity" /\ Top.node = NULL /\ IsFrame(Top) /\ IsHeap(heap) /\ IsHeap(heap')
      /\ Forest(heap, Roots) /\ Hand \in SUBSET Nodes(heap) /\ Hand \subseteq Roots /\ NULL \notin Hand
      /\ Hand = HandBelow \cup ({Top.node, ret} \ {NULL})
      /\ ret \notin HandBelow /\ TopInv /\ errnum \in Nat /\ (~ Doomed => Sound)
  BY <1>1, GoesAt, PlacesAre
<1>3. 0 \in Nat /\ errnum' = errnum + 0 /\ NodeInv /\ pc = "read" /\ stack # <<>>
  BY <1>1, <1>2 DEF Goes
<1>4. CASE ret = NULL
  <2>1. CASE Stuck(Top.from)
    <3>1. Grown(heap, heap, Hand)
      BY GrownSame
    <3> QED
      BY <1>1, <1>4, <2>1, <3>1, FailDooms
  <2>2. CASE ~ Stuck(Top.from)
    <3>1. ~ Doomed
      BY <1>2, <1>4, <2>2 DEF Doomed, Outer
    <3>2. Sound /\ Return(NULL, Top.from) /\ heap' = heap
      BY <1>1, <1>2, <1>4, <3>1 DEF Fail
    <3>3. {NULL} \ {NULL} = {Top.node, ret} \ {NULL} /\ "quantity" \notin Primaries
      BY <1>2, <1>4 DEF Primaries
    <3> QED
      BY <1>1, <3>2, <3>3, PassedOn
  <2> QED
    BY <2>1, <2>2
<1>5. CASE ret # NULL
  <2> DEFINE q == quantity.heap
             m == quantity.node
             g == predicate.heap
             p == predicate.node
             H1 == (Hand \ {ret}) \cup {m}
             H2 == (H1 \ {m}) \cup {p}
  <2>1. Sound
    BY <1>1, <1>5, SoundHere
  <2>2. Listing(rule) /\ ListsAre(heap, Ours(heap, Hand), rule) /\ ret \in Hand /\ Hand \ {ret} = HandBelow
    BY <1>2, <1>5, <2>1 DEF Sound
  <2>3. /\ ret \notin Others /\ Forest(heap, Others \cup {ret}) /\ HandBelow \subseteq Others
    <3>1. Others = Roots \ {ret} /\ ret \in Roots
      <4>1. NULL \notin Roots
        BY <1>3, AtTop
      <4> QED
        BY <1>2, <2>2, <4>1 DEF Others
    <3>2. Others \cup {ret} = Roots
      BY <3>1
    <3> QED
      BY <1>2, <2>2, <3>1, <3>2
  <2>4. IsHeap(q) /\ m \notin Others /\ m # NULL /\ Forest(q, Others \cup {m})
    <3> HIDE DEF t
    <3>1. "QUANTITY" # "REFERENCE"
      OBVIOUS
    <3> QED
      BY <1>2, <1>5, <2>3, <3>1, WrapRoot
  <2>5. ListsAre(q, Ours(q, H1), rule) /\ Grown(heap, q, {}) /\ H1 \subseteq Nodes(q)
    <3> HIDE DEF t
    <3> QED
      BY <1>2, <2>2, <2>4, WrappedSound
  <2> HIDE DEF quantity
  <2>6. m \in H1 /\ H1 \ {m} = HandBelow
    BY <2>2, <2>3, <2>4
  <2>7. IsHeap(g) /\ p \notin Others /\ p # NULL
    BY <2>4, WrapRoot
  <2>8. ListsAre(g, Ours(g, H2), rule) /\ Grown(q, g, {})
    BY <2>2, <2>4, <2>5, <2>6, <2>7, WrappedSound
  <2>9. heap' = g /\ Call(f, <<>>, u)
    BY <1>1, <1>5
  <2>10. Grown(heap, heap', Hand)
    BY <2>5, <2>8, <2>9, GrownOn, GrownMore
  <2> HIDE DEF predicate
  <2>11. f.at = "error" /\ f.from = Top.from /\ f.node = p
    <3>1. f = [fn |-> Top.fn, at |-> "error", from |-> Top.from, node |-> p, prefix |-> Top.prefix]
      BY <1>2, FramesAre
    <3> HIDE DEF f
    <3> QED
      BY <3>1
  <2> HIDE DEF f, u
  <2>12. CallsFit(f, <<>>, u) /\ AreCalls(<<>>) /\ Placed(f)
    <3>1. Stuck(Top.from)
      BY <1>2, <1>5 DEF TopInv
    <3> QED
      BY <2>11, <3>1, Fitting, AreFrames DEF Placed
  <2>13. Hand' = H2
    <3>1. stack' = Append(Front(stack), f) \o <<>> /\ ret' = NULL
      BY <2>9 DEF Call
    <3>2. Hand' = HandBelow \cup ({f.node} \ {NULL})
      BY <1>3, <2>12, <3>1, HandAfterCall
    <3> QED
      BY <2>6, <2>7, <2>11, <3>2
  <2>14. Sound'
    BY <1>1, <2>2, <2>8, <2>9, <2>13 DEF Sound
  <2>15. f.at \in Parts /\ Top.at \in Parts /\ Top.at # "expression"
    BY <1>2, <2>11 DEF Parts
  <2> QED
    BY <1>3, <2>9, <2>10, <2>11, <2>12, <2>14, <2>15, CallRight
<1> QED
  BY <1>4, <1>5

LEMMA ErrorRight ==
  ASSUME Goes, Error
  PROVE  ReadInv'
<1> DEFINE s == <<Top.node>>
           x == [Node("ERROR", s, NONE) EXCEPT !.index = Len(rule.codes)]
           w == After(After(input))
<1>1. /\ Runs("term", "error") /\ errnum' = errnum
      /\ \/ Return(Top.node, input) /\ heap' = heap /\ rule' = rule
         \/ /\ heap' = Create(heap, x) /\ Return(New, w)
            /\ rule' = [rule EXCEPT !.codes = Append(rule.codes, New)]
         \/ Fail(destroy_node(heap, Top.node))
  <2>1. Runs("term", "error") /\ errnum' = errnum
    BY DEF Error
  <2>2. CASE At(input) # "~"
    BY <2>1, <2>2 DEF Error
  <2>3. CASE At(input) = "~" /\ At(After(input)) \in Code
    BY <2>1, <2>3 DEF Error
  <2>4. CASE At(input) = "~" /\ ~(At(After(input)) \in Code)
    BY <2>1, <2>4 DEF Error
  <2> QED
    BY <2>2, <2>3, <2>4
<1>2. /\ Top.at = "error" /\ Top.node # NULL /\ ret = NULL /\ IsHeap(heap) /\ New # NULL /\ errnum \in Nat
  BY <1>1, GoesAt, PlacesAre
<1>3. Sound /\ IsRule(rule) /\ NodeInv /\ pc = "read" /\ stack # <<>>
  <2>1. Sound
    BY <1>1, SoundHere
  <2> QED
    BY <2>1 DEF Goes, NodeInv, RulesOK
<1>4. 0 \in Nat /\ errnum' = errnum + 0 /\ "error" \notin Primaries
  BY <1>1, <1>2 DEF Primaries
<1>5. CASE Return(Top.node, input) /\ heap' = heap /\ rule' = rule
  <2>1. {Top.node} \ {NULL} = {Top.node, ret} \ {NULL}
    BY <1>2
  <2> QED
    BY <1>1, <1>3, <1>4, <1>5, <2>1, PassedOn
<1>6. CASE /\ heap' = Create(heap, x) /\ Return(New, w)
           /\ rule' = [rule EXCEPT !.codes = Append(rule.codes, New)]
  <2>1. x.type = "ERROR" /\ x.nodes = s /\ x.index = Len(rule.codes)
    <3> HIDE DEF s
    <3>1. x = Made("ERROR", s, NONE, NONE, Len(rule.codes))
      BY DEF Node, Made
    <3> HIDE DEF x
    <3> QED
      BY <3>1 DEF Made
  <2>2. Len(s) = 1 /\ s[1] = Top.node
    OBVIOUS
  <2> HIDE DEF x, s, w
  <2>3. Elems(x.nodes) = {Top.node, ret} \ {NULL}
    <3>1. 1 .. 1 = {1}
      OBVIOUS
    <3> QED
      BY <1>2, <2>1, <2>2, <3>1 DEF Elems
  <2>4. Records(heap, heap', New, rule, rule')
    <3>1. heap'[New].node = x
      BY <1>2, <1>6, CreatedIs DEF New
    <3>2. /\ rule'.rvars = rule.rvars /\ rule'.capts = rule.capts
          /\ rule'.codes = Append(rule.codes, New) /\ rule'.preds = rule.preds
      BY <1>3, <1>6, RuleLists
    <3> QED
      BY <2>1, <3>1, <3>2 DEF Records
  <2>5. Hand' = HandBelow \cup {New}
    <3>1. stack' = Front(stack) /\ ret' = New
      BY <1>6 DEF Return
    <3>2. Hand' = HandBelow \cup ({New} \ {NULL})
      BY <1>3, <3>1, HandAfterReturn
    <3> QED
      BY <1>2, <3>2
  <2>6. Sound' /\ Grown(heap, heap', Hand)
    BY <1>1, <1>3, <1>6, <2>3, <2>4, <2>5, MadeRight
  <2> QED
    BY <1>2, <1>4, <1>6, <2>6, ReturnRight
<1>7. CASE Fail(destroy_node(heap, Top.node))
  <2>1. Grown(heap, destroy_node(heap, Top.node), Hand)
    BY <1>2, GrownDestroyed, GrownMore
  <2> QED
    BY <1>1, <1>7, <2>1, FailDooms
<1> QED
  BY <1>1, <1>5, <1>6, <1>7

LEMMA FirstTermRight ==
  ASSUME Goes, FirstTerm
  PROVE  ReadInv'
<1> DEFINE f == [Top EXCEPT !.at = "second", !.node = ret]
           calls == TermAt(input)
<1>1. /\ rule' = rule /\ errnum' = errnum /\ Runs("sequence", "first")
      /\ ret = NULL => Fail(heap)
      /\ ret # NULL => Call(f, calls, input) /\ heap' = heap
  BY DEF FirstTerm
<1>2. /\ Top.at = "first" /\ Top.node = NULL /\ IsFrame(Top) /\ errnum \in Nat
      /\ Hand = HandBelow \cup ({Top.node, ret} \ {NULL}) /\ NodeInv /\ pc = "read" /\ stack # <<>>
  BY <1>1, GoesAt, PlacesAre DEF Goes
<1>3. CASE ret = NULL
  <2>1. Grown(heap, heap, Hand)
    BY GrownSame
  <2> QED
    BY <1>1, <1>3, <2>1, FailDooms
<1>4. CASE ret # NULL
  <2>1. Sound
    BY <1>1, <1>4, SoundHere
  <2>2. f.at = "second" /\ f.from = Top.from /\ f.node = ret
    <3>1. f = [fn |-> Top.fn, at |-> "second", from |-> Top.from, node |-> ret, prefix |-> Top.prefix]
      BY <1>2, FramesAre
    <3> HIDE DEF f
    <3> QED
      BY <3>1
  <2>3. Call(f, calls, input) /\ heap' = heap
    BY <1>1, <1>4
  <2> HIDE DEF f
  <2>4. f.at \in Sequels /\ Top.at \in Sequels /\ Top.at # "expression" /\ 0 \in Nat /\ errnum' = errnum + 0
    BY <1>1, <1>2, <2>2 DEF Sequels
  <2>5. CallsFit(f, calls, input) /\ AreCalls(calls) /\ Placed(f)
    BY <2>2, <2>4, Fitting, AreFrames DEF Placed
  <2> HIDE DEF calls
  <2>6. Hand' = Hand
    <3>1. stack' = Append(Front(stack), f) \o calls /\ ret' = NULL
      BY <2>3 DEF Call
    <3>2. Hand' = HandBelow \cup ({f.node} \ {NULL})
      BY <1>2, <2>5, <3>1, HandAfterCall
    <3> QED
      BY <1>2, <2>2, <3>2
  <2>7. Sound' /\ Grown(heap, heap', Hand)
    BY <1>1, <2>1, <2>3, <2>6, StaysSound
  <2> QED
    BY <2>2, <2>3, <2>4, <2>5, <2>7, CallRight
<1> QED
  BY <1>3, <1>4

\* What ends where nothing ends dooms the rule.
LEMMA EndDooms ==
  ASSUME Goes, NEW fn, NEW at, Runs(fn, at), at \in Sequels \cup {"sequences"}, NEW n, n # NULL,
         Return(n, input), Stuck(input), errnum' = errnum, Grown(heap, heap', Hand)
  PROVE  ReadInv'
<1>1. Top.at = at /\ errnum \in Nat
  BY GoesAt
<1>2. ret' = n /\ input' = input /\ text' = text
  BY DEF Return, Goes
<1>3. ASSUME Follows(Top', Top)
      PROVE  Doomed'
  <2>1. Top'.at \in {"sequences"} \cup Outer
    BY <1>1, <1>3 DEF Follows, Primaries, Parts, Sequels
  <2>2. Stuck(input)'
    <3>1. Stuck(input')
      BY <1>2
    <3> QED
      BY <1>2, <3>1, StuckStays
  <2> QED
    BY <1>2, <2>1, <2>2 DEF Doomed
<1>4. Top.at # "expression" /\ Top.at \notin Primaries /\ 0 \in Nat /\ errnum' = errnum + 0
  BY <1>1 DEF Sequels, Primaries
<1> QED
  BY <1>3, <1>4, ReturnRight

\* A sequence that ends at a term that fails.
LEMMA SequenceEnds ==
  ASSUME Goes, NEW fn, NEW at, Runs(fn, at), at \in {"second", "more"}, ret = NULL,
         Return(Top.node, input), heap' = heap, rule' = rule, errnum' = errnum
  PROVE  ReadInv'
<1>1. Top.at = at /\ Top.node # NULL /\ (~ Doomed => Sound) /\ at \in Sequels /\ at \notin Primaries
  <2>1. at \in Holding /\ at \in Sequels /\ at \notin Primaries
    BY PlacesAre DEF Sequels, Primaries
  <2> QED
    BY <2>1, GoesAt
<1>2. CASE Stuck(input)
  <2>1. Grown(heap, heap', Hand)
    BY GrownSame
  <2> QED
    BY <1>1, <1>2, <2>1, EndDooms
<1>3. CASE ~ Stuck(input)
  <2>1. ~ Doomed
    BY <1>1, <1>3 DEF Doomed, Outer
  <2>2. {Top.node} \ {NULL} = {Top.node, ret} \ {NULL} /\ at # "expression"
    BY <1>1
  <2> QED
    BY <1>1, <2>1, <2>2, PassedOn
<1> QED
  BY <1>2, <1>3

LEMMA SecondTermRight ==
  ASSUME Goes, SecondTerm
  PROVE  ReadInv'
<1> DEFINE s == <<Top.node, ret>>
           x == Node("SEQUENCE", s, NONE)
           f == [Top EXCEPT !.at = "more", !.node = New]
           calls == TermAt(input)
<1>1. /\ rule' = rule /\ errnum' = errnum /\ Runs("sequence", "second")
      /\ ret = NULL => Return(Top.node, input) /\ heap' = heap
      /\ ret # NULL => heap' = Create(heap, x) /\ Call(f, calls, input)
  BY DEF SecondTerm
<1>2. /\ Top.at = "second" /\ Top.node # NULL /\ IsFrame(Top) /\ errnum \in Nat /\ New # NULL /\ IsHeap(heap)
      /\ NodeInv /\ pc = "read" /\ stack # <<>>
  BY <1>1, GoesAt, PlacesAre DEF Goes
<1>3. CASE ret = NULL
  BY <1>1, <1>3, SequenceEnds
<1>4. CASE ret # NULL
  <2>1. Sound
    BY <1>1, <1>4, SoundHere
  <2>2. f.at = "more" /\ f.from = Top.from /\ f.node = New
    <3>1. f = [fn |-> Top.fn, at |-> "more", from |-> Top.from, node |-> New, prefix |-> Top.prefix]
      BY <1>2, FramesAre
    <3> HIDE DEF f
    <3> QED
      BY <3>1
  <2>3. Call(f, calls, input) /\ heap' = Create(heap, x)
    BY <1>1, <1>4
  <2> HIDE DEF f
  <2>4. f.at \in Sequels /\ Top.at \in Sequels /\ Top.at # "expression" /\ 0 \in Nat /\ errnum' = errnum + 0
    BY <1>1, <1>2, <2>2 DEF Sequels
  <2>5. CallsFit(f, calls, input) /\ AreCalls(calls) /\ Placed(f)
    BY <2>2, <2>4, Fitting, AreFrames DEF Placed
  <2> HIDE DEF calls
  <2>6. Hand' = HandBelow \cup {New}
    <3>1. stack' = Append(Front(stack), f) \o calls /\ ret' = NULL
      BY <2>3 DEF Call
    <3>2. Hand' = HandBelow \cup ({f.node} \ {NULL})
      BY <1>2, <2>5, <3>1, HandAfterCall
    <3> QED
      BY <1>2, <2>2, <3>2
  <2>7. x.type = "SEQUENCE" /\ x.nodes = s /\ Len(s) = 2 /\ s[1] = Top.node /\ s[2] = ret
    BY DEF Node
  <2> HIDE DEF x, s
  <2>8. Elems(x.nodes) = {Top.node, ret} \ {NULL}
    <3>1. 1 .. 2 = {1, 2}
      OBVIOUS
    <3> QED
      BY <1>2, <1>4, <2>7, <3>1 DEF Elems
  <2>9. Records(heap, heap', New, rule, rule')
    <3>1. heap'[New].node = x
      BY <1>2, <2>3, CreatedIs DEF New
    <3>2. SameLists(rule, rule')
      BY <1>1 DEF SameLists
    <3> QED
      BY <2>7, <3>1, <3>2, NotRecorded
  <2>10. Sound' /\ Grown(heap, heap', Hand)
    BY <1>1, <2>1, <2>3, <2>6, <2>8, <2>9, MadeRight
  <2> QED
    BY <2>2, <2>3, <2>4, <2>5, <2>10, CallRight
<1> QED
  BY <1>3, <1>4

LEMMA NextTermRight ==
  ASSUME Goes, NextTerm
  PROVE  ReadInv'
<1> DEFINE calls == TermAt(input)
<1>1. /\ rule' = rule /\ errnum' = errnum /\ Runs("sequence", "more")
      /\ ret = NULL => Return(Top.node, input) /\ heap' = heap
      /\ ret # NULL => heap' = Adopt(heap, Top.node, ret) /\ Call(Top, calls, input)
  BY DEF NextTerm
<1>2. /\ Top.at = "more" /\ Top.node # NULL /\ errnum \in Nat
      /\ NodeInv /\ pc = "read" /\ stack # <<>>
  BY <1>1, GoesAt, PlacesAre DEF Goes
<1>3. CASE ret = NULL
  BY <1>1, <1>3, SequenceEnds
<1>4. CASE ret # NULL
  <2>1. Sound
    BY <1>1, <1>4, SoundHere
  <2>2. Call(Top, calls, input) /\ heap' = Adopt(heap, Top.node, ret)
    BY <1>1, <1>4
  <2>3. Top.at \in Sequels /\ Top.at # "expression" /\ 0 \in Nat /\ errnum' = errnum + 0
    BY <1>1, <1>2 DEF Sequels
  <2>4. CallsFit(Top, calls, input) /\ AreCalls(calls) /\ Placed(Top)
    BY <1>2, <2>3, Fitting, AreFrames DEF Placed
  <2> HIDE DEF calls
  <2>5. Hand' = HandBelow \cup {Top.node}
    <3>1. stack' = Append(Front(stack), Top) \o calls /\ ret' = NULL
      BY <2>2 DEF Call
    <3>2. Hand' = HandBelow \cup ({Top.node} \ {NULL})
      BY <1>2, <2>4, <3>1, HandAfterCall
    <3> QED
      BY <1>2, <3>2
  <2>6. Sound' /\ Grown(heap, heap', Hand)
    BY <1>1, <1>2, <1>4, <2>1, <2>2, <2>5, AdoptRight
  <2> QED
    BY <2>2, <2>3, <2>4, <2>6, CallRight
<1> QED
  BY <1>3, <1>4

LEMMA AlternativeRight ==
  ASSUME Goes, Alternative
  PROVE  ReadInv'
<1> DEFINE b == Branches
           f == [Top EXCEPT !.node = b.node]
           w == After(input)
           calls == SequenceAt(w)
<1>1. /\ rule' = rule /\ errnum' = errnum /\ Runs("expression", "sequences")
      /\ ret = NULL => Fail(destroy_node(heap, Top.node))
      /\ ret # NULL => /\ heap' = b.heap
                       /\ At(input) = "/" => Call(f, calls, w)
                       /\ At(input) # "/" => Return(b.node, input)
  BY DEF Alternative
<1>2. /\ Top.at = "sequences" /\ IsFrame(Top) /\ errnum \in Nat /\ IsHeap(heap) /\ IsHeap(heap')
      /\ NodeInv /\ pc = "read" /\ stack # <<>> /\ Forest(heap, Roots)
      /\ Hand \in SUBSET Nodes(heap) /\ Hand \subseteq Roots
      /\ Hand = HandBelow \cup ({Top.node, ret} \ {NULL})
      /\ Top.node \notin HandBelow /\ ret \notin HandBelow /\ (~ Doomed => Sound)
  BY <1>1, GoesAt DEF Goes
<1>3. 0 \in Nat /\ errnum' = errnum + 0 /\ "sequences" \notin Primaries
  BY <1>1, <1>2 DEF Primaries
<1>4. CASE ret = NULL
  <2>1. Grown(heap, destroy_node(heap, Top.node), Hand)
    BY <1>2, GrownDestroyed, GrownMore
  <2> QED
    BY <1>1, <1>4, <2>1, FailDooms
<1>5. CASE ret # NULL
  <2>1. /\ heap' = b.heap
        /\ At(input) = "/" => Call(f, calls, w)
        /\ At(input) # "/" => Return(b.node, input)
    BY <1>1, <1>5
  <2>2. b.node # NULL
    <3>1. CASE Top.node # NULL
      BY <3>1 DEF Branches
    <3>2. CASE Top.node = NULL /\ At(input) # "/"
      BY <1>5, <3>2 DEF Branches
    <3>3. CASE Top.node = NULL /\ At(input) = "/"
      <4>1. b = Wrapped(heap, ret, "ALTERNATE", "/")
        BY <3>3 DEF Branches
      <4>2. Len(heap) \in Nat
        BY <1>2, HeapFacts
      <4>3. b.node = ret \/ b.node = Len(heap) + 1
        BY <4>1 DEF Wrapped
      <4> QED
        BY <1>5, <4>2, <4>3 DEF NULL
    <3> QED
      BY <3>1, <3>2, <3>3
  <2>3. /\ Sound \/ At(input) # "/" => Grown(heap, heap', Hand)
        /\ Sound /\ Hand' = HandBelow \cup {b.node} => Sound'
    <3>1. CASE Top.node # NULL
      <4>1. heap' = Adopt(heap, Top.node, ret) /\ b.node = Top.node
        BY <2>1, <3>1 DEF Branches
      <4> HIDE DEF b
      <4> QED
        BY <1>1, <1>5, <3>1, <4>1, AdoptRight
    <3>2. CASE Top.node = NULL /\ At(input) # "/"
      <4>1. heap' = heap /\ b.node = ret
        BY <2>1, <3>2 DEF Branches
      <4>2. Hand = HandBelow \cup {ret}
        BY <1>2, <1>5, <3>2
      <4> HIDE DEF b
      <4> QED
        BY <1>1, <4>1, <4>2, GrownSame, StaysSound
    <3>3. CASE Top.node = NULL /\ At(input) = "/"
      <4> DEFINE q == Wrapped(heap, ret, "ALTERNATE", "/")
                 H == (Hand \ {ret}) \cup {q.node}
      <4>1. b = q
        BY <3>3 DEF Branches
      <4>2. Hand = HandBelow \cup {ret} /\ ret \in Hand /\ Hand \ {ret} = HandBelow
        BY <1>2, <1>5, <3>3
      <4>3. ASSUME Sound
            PROVE  Grown(heap, heap', Hand) /\ (Hand' = HandBelow \cup {b.node} => Sound')
        <5>1. Listing(rule) /\ ListsAre(heap, Ours(heap, Hand), rule)
          BY <4>3 DEF Sound
        <5>2. heap' = q.heap /\ IsHeap(q.heap)
          BY <1>2, <2>1, <4>1
        <5>3. ListsAre(q.heap, Ours(q.heap, H), rule) /\ Grown(heap, q.heap, {})
          BY <1>2, <4>2, <5>1, <5>2, WrappedSound
        <5> HIDE DEF q
        <5>4. Hand' = HandBelow \cup {b.node} => Hand' = H
          BY <4>1, <4>2
        <5>5. Hand' = H => Sound'
          BY <1>1, <5>1, <5>2, <5>3 DEF Sound
        <5> QED
          BY <5>2, <5>3, <5>4, <5>5, GrownMore
      <4> HIDE DEF b
      <4> QED
        BY <3>3, <4>3
    <3> QED
      BY <3>1, <3>2, <3>3
  <2> HIDE DEF b
  <2>4. CASE At(input) = "/"
    <3>1. Sound
      BY <1>1, <1>5, <2>4, SoundHere
    <3>2. f.at = "sequences" /\ f.from = Top.from /\ f.node = b.node
      <4>1. f = [fn |-> Top.fn, at |-> Top.at, from |-> Top.from, node |-> b.node, prefix |-> Top.prefix]
        BY <1>2, FramesAre
      <4> HIDE DEF f
      <4> QED
        BY <1>2, <4>1
    <3> HIDE DEF f
    <3>3. CallsFit(f, calls, w) /\ AreCalls(calls) /\ Placed(f)
      BY <3>2, Fitting, AreFrames DEF Placed
    <3> HIDE DEF calls, w
    <3>4. Call(f, calls, w)
      BY <2>1, <2>4
    <3>5. Hand' = HandBelow \cup {b.node}
      <4>1. stack' = Append(Front(stack), f) \o calls /\ ret' = NULL
        BY <3>4 DEF Call
      <4>2. Hand' = HandBelow \cup ({f.node} \ {NULL})
        BY <1>2, <3>3, <4>1, HandAfterCall
      <4> QED
        BY <2>2, <3>2, <4>2
    <3>6. Sound' /\ Grown(heap, heap', Hand)
      BY <1>1, <2>3, <2>4, <3>1, <3>5
    <3> QED
      BY <1>2, <1>3, <3>2, <3>3, <3>4, <3>6, CallRight
  <2>5. CASE At(input) # "/"
    <3>1. Return(b.node, input) /\ b.node # NULL /\ Grown(heap, heap', Hand)
      BY <2>1, <2>2, <2>3, <2>5
    <3>2. CASE Stuck(input)
      BY <1>1, <3>1, <3>2, EndDooms
    <3>3. CASE ~ Stuck(input)
      <4>1. Sound
        BY <1>2, <1>5, <3>3 DEF Doomed
      <4>2. Hand' = HandBelow \cup {b.node}
        <5>1. stack' = Front(stack) /\ ret' = b.node
          BY <3>1 DEF Return
        <5>2. Hand' = HandBelow \cup ({b.node} \ {NULL})
          BY <1>2, <5>1, HandAfterReturn
        <5> QED
          BY <3>1, <5>2
      <4>3. Sound'
        BY <2>3, <4>1, <4>2
      <4> QED
        BY <1>2, <1>3, <3>1, <4>3, ReturnRight
    <3> QED
      BY <3>2, <3>3
  <2> QED
    BY <2>4, <2>5
<1> QED
  BY <1>4, <1>5

\* Nothing has been recorded of a rule that begins.
LEMMA NothingListed ==
  ASSUME NEW h, NEW name
  PROVE  Listing(NewRule(name)) /\ ListsAre(h, Ours(h, {}), NewRule(name))
<1> DEFINE r == NewRule(name)
<1>1. r.rvars = <<>> /\ r.capts = <<>> /\ r.codes = <<>> /\ r.preds = <<>>
  BY DEF NewRule
<1>2. Ours(h, {}) = {}
  BY DEF Ours
<1>3. Sequence(<<>>) /\ DOMAIN <<>> = {} /\ ToSet(<<>>) = {}
  BY EmptySeq DEF Sequence, ToSet
<1> HIDE DEF r
<1>4. Listing(r)
  BY <1>1, <1>3 DEF Listing
<1>5. ListsAre(h, {}, r)
  BY <1>1, <1>3 DEF ListsAre, Lists, ListsVariables, NodesOf
<1> QED
  BY <1>2, <1>4, <1>5 DEF r

LEMMA RuleBeginRight ==
  ASSUME NodeInv, NodeInv', ReadInv, pc = "read", RuleBegin
  PROVE  ReadInv'
<1> DEFINE w == After(Past(After(input)))
           f == Frame("rule", "expression", input)
           one == <<f>>
           calls == ExpressionAt(w)
           M == Len(calls)
<1>1. /\ stack = <<>> /\ ret' = NULL /\ heap' = heap /\ rules' = rules /\ Begins
      /\ rule' = NewRule(At(input)) /\ text' = text /\ legal' = legal /\ errnum' = errnum
      /\ stack' = one \o calls /\ input' = w
  BY DEF RuleBegin, AtFile
<1>2. ~ Stuck(input)
  BY <1>1 DEF Begins, Stuck
<1>3. f.at = "expression" /\ Sequence(one) /\ Len(one) = 1 /\ one[1] = f /\ IsFrame(f)
  BY DEF Sequence, Frame, IsFrame, Bare, Holding
<1> HIDE DEF f, one
<1>4. CallsFit(f, calls, w) /\ AreCalls(calls) /\ calls # <<>> /\ Placed(f)
  <2>1. f.at \in Outer
    BY <1>3 DEF Outer
  <2> QED
    BY <1>3, <2>1, Fitting, AreFrames DEF Placed
<1> HIDE DEF calls, w
<1>5. /\ Sequence(calls) /\ M \in Nat /\ M # 0
      /\ \A k \in 1 .. M : Placed(calls[k]) /\ Follows(IF k = 1 THEN f ELSE calls[k - 1], calls[k])
      /\ calls[M].at \in {"entry", "prefix"} /\ calls[M].from = w
  BY <1>4 DEF CallsFit, Sequence
<1>6. /\ Len(stack') = 1 + M /\ stack'[1] = f
      /\ \A k \in 1 .. M : stack'[1 + k] = calls[k]
  <2>1. /\ Sequence(one \o calls) /\ Len(one \o calls) = Len(one) + Len(calls)
        /\ \A k \in 1 .. Len(one) : (one \o calls)[k] = one[k]
        /\ \A k \in 1 .. Len(calls) : (one \o calls)[Len(one) + k] = calls[k]
    <3>1. Sequence(one) /\ Sequence(calls)
      BY <1>3, <1>5
    <3> QED
      BY ONLY <3>1, Joined
  <2>2. 1 \in 1 .. 1
    OBVIOUS
  <2> HIDE DEF M
  <2> QED
    BY <1>1, <1>3, <2>1, <2>2 DEF M
<1> HIDE DEF M
<1>7. ASSUME NEW k \in 1 .. (1 + M)
      PROVE  Placed(stack'[k]) /\ (k > 1 => Follows(stack'[k - 1], stack'[k]))
  <2>1. CASE k = 1
    BY <1>4, <1>6, <2>1
  <2>2. CASE k # 1
    <3>1. k - 1 \in 1 .. M /\ 1 + (k - 1) = k
      BY <1>5, <2>2
    <3>2. stack'[k] = calls[k - 1]
      BY <1>6, <3>1
    <3>3. stack'[k - 1] = IF k - 1 = 1 THEN f ELSE calls[(k - 1) - 1]
      <4>1. CASE k - 1 = 1
        BY <1>6, <4>1
      <4>2. CASE k - 1 # 1
        <5>1. (k - 1) - 1 \in 1 .. M /\ 1 + ((k - 1) - 1) = k - 1
          BY <1>5, <3>1, <4>2
        <5> QED
          BY <1>6, <4>2, <5>1
      <4> QED
        BY <4>1, <4>2
    <3> QED
      BY <1>5, <3>1, <3>2, <3>3
  <2> QED
    BY <2>1, <2>2
<1>8. stack' # <<>> /\ Top' = calls[M]
  <2>1. M \in 1 .. M /\ 1 + M # 0
    BY <1>5
  <2>2. stack' # <<>>
    BY <1>6, <2>1, EmptySeq
  <2> QED
    BY <1>6, <2>1, <2>2 DEF Top, Last
<1>9. CallsInv'
  <2>1. \A k \in 1 .. Len(stack') : Placed(stack[k])' /\ (k > 1 => Follows(stack[k - 1], stack[k])')
    BY <1>1, <1>6, <1>7, StuckStays
  <2>2. TopInv'
    BY <1>1, <1>5, <1>8 DEF TopInv
  <2> QED
    BY <1>8, <2>1, <2>2 DEF CallsInv
<1>10. Sound'
  <2>1. \A k \in 1 .. Len(stack') : stack'[k].node = NULL
    BY <1>1, <1>3, <1>4, FirstCalls DEF one
  <2>2. Hand' = {}
    BY <1>1, <2>1 DEF Hand
  <2> QED
    BY <1>1, <2>2, NothingListed DEF Sound
<1>11. errnum = 0 => RulesSound'
  BY <1>1, <1>2 DEF ReadInv, RulesSound, SoundRule
<1> QED
  BY <1>1, <1>8, <1>9, <1>10, <1>11 DEF ReadInv

\* No function has been called.
LEMMA BetweenRules ==
  ASSUME stack' = <<>>, errnum' \in Nat, ~ legal' => errnum' # 0,
         errnum' = 0 => RulesSound' \/ Stuck(input)'
  PROVE  ReadInv'
<1>1. CallsInv'
  <2>1. 1 .. Len(stack') = {}
    BY EmptySeq
  <2> QED
    BY <2>1 DEF CallsInv
<1> QED
  BY <1>1 DEF ReadInv

LEMMA RuleEndRight ==
  ASSUME NodeInv, NodeInv', ReadInv, pc = "read", RuleEnd
  PROVE  ReadInv'
<1> DEFINE x == [rule EXCEPT !.expr = ret]
<1>1. /\ Runs("rule", "expression") /\ heap' = heap /\ stack' = <<>> /\ text' = text
      /\ ret = NULL => /\ errnum' = IF legal THEN errnum + 1 ELSE errnum
                       /\ legal' = FALSE
      /\ ret # NULL => rules' = Append(rules, x) /\ legal' = TRUE /\ input' = input /\ errnum' = errnum
  BY DEF RuleEnd, Illegal
<1>2. /\ errnum \in Nat /\ (~ legal => errnum # 0) /\ stack # <<>> /\ Top.at = "expression"
      /\ Sound \/ Doomed
      /\ errnum = 0 => RulesSound
  BY <1>1 DEF ReadInv, Runs
<1>3. CASE ret = NULL
  <2>1. errnum' \in Nat /\ errnum' # 0
    BY <1>1, <1>2, <1>3
  <2> QED
    BY <1>1, <2>1, BetweenRules
<1>4. CASE ret # NULL
  <2> DEFINE L == Len(rules)
  <2>1. CASE Stuck(input)
    <3>1. Stuck(input')
      BY <1>1, <1>4, <2>1
    <3>2. Stuck(input)'
      BY <1>1, <3>1, StuckStays
    <3> QED
      BY <1>1, <1>2, <1>4, <3>2, BetweenRules
  <2>2. CASE ~ Stuck(input)
    <3>1. Sound
      BY <1>2, <1>4, <2>2 DEF Doomed
    <3>2. Hand = {ret}
      <4>1. Len(stack) = 1 /\ Top.node = NULL
        BY <1>1, AtRule
      <4>2. Top = stack[Len(stack)]
        BY <1>2, AtTop
      <4>3. 1 .. 1 = {1}
        OBVIOUS
      <4> QED
        BY <1>4, <4>1, <4>2, <4>3 DEF Hand
    <3>3. Listing(rule) /\ ListsAre(heap, Family(heap, ret), rule)
      BY <3>1, <3>2, OursOne DEF Sound
    <3>4. SameLists(rule, x) /\ x.expr = ret
      <4>1. IsRule(rule)
        BY DEF NodeInv, RulesOK
      <4> QED
        BY <4>1, RuleLists
    <3> HIDE DEF x
    <3>5. Listing(x) /\ ListsAre(heap, Family(heap, x.expr), x)
      <4> DEFINE F == Family(heap, ret)
      <4>1. Alike(heap, heap, F) /\ ListsAre(heap, F, rule)
        BY <3>3 DEF Alike
      <4> HIDE DEF F
      <4>2. ListsAre(heap, F, x) /\ Listing(x)
        BY <3>3, <3>4, <4>1, ListsStay
      <4> QED
        BY <3>4, <4>2 DEF F
    <3>6. /\ Len(rules') = L + 1 /\ rules'[L + 1] = x /\ \A k \in 1 .. L : rules'[k] = rules[k]
          /\ L \in Nat
      <4>1. Sequence(rules)
        BY DEF NodeInv, RulesOK
      <4>2. /\ Len(Append(rules, x)) = Len(rules) + 1
            /\ Append(rules, x)[Len(rules) + 1] = x
            /\ \A k \in 1 .. Len(rules) : Append(rules, x)[k] = rules[k]
        BY <4>1, Appended
      <4>3. Len(rules) \in Nat
        BY <4>1 DEF Sequence
      <4> QED
        BY <1>1, <1>4, <4>2, <4>3 DEF x
    <3> HIDE DEF L
    <3>7. \A k \in 1 .. (L + 1) : k \in 1 .. L \/ k = L + 1
      BY <3>6
    <3>8. RulesSound => RulesSound'
      <4>1. ASSUME RulesSound, NEW k \in 1 .. (L + 1)
            PROVE  SoundRule(k)'
        <5>1. CASE k \in 1 .. L
          <6>1. Listing(rules[k]) /\ ListsAre(heap, Family(heap, rules[k].expr), rules[k])
            BY <4>1, <5>1 DEF RulesSound, SoundRule, L
          <6>2. rules'[k] = rules[k]
            BY <3>6, <5>1
          <6> QED
            BY <1>1, <6>1, <6>2 DEF SoundRule
        <5>2. CASE k = L + 1
          <6>1. rules'[k] = x
            BY <3>6, <5>2
          <6> QED
            BY <1>1, <3>5, <6>1 DEF SoundRule
        <5> QED
          BY <3>7, <5>1, <5>2
      <4> QED
        BY <3>6, <4>1 DEF RulesSound
    <3> QED
      BY <1>1, <1>2, <1>4, <3>8, BetweenRules
  <2> QED
    BY <2>1, <2>2
<1> QED
  BY <1>3, <1>4

LEMMA NoRuleRight ==
  ASSUME ReadInv, NoRule
  PROVE  ReadInv'
<1>1. stack' = <<>> /\ legal' = FALSE /\ errnum' = IF legal THEN errnum + 1 ELSE errnum
  BY DEF NoRule, Illegal
<1>2. errnum' \in Nat /\ errnum' # 0
  BY <1>1 DEF ReadInv
<1> QED
  BY <1>1, <1>2, BetweenRules

LEMMA ReadsRight ==
  ASSUME NodeInv, NodeInv', ReadInv, pc = "read", Reading
  PROVE  ReadInv'
<1>1. CASE RuleBegin \/ RuleEnd \/ NoRule
  BY <1>1, RuleBeginRight, RuleEndRight, NoRuleRight
<1>2. CASE ~(RuleBegin \/ RuleEnd \/ NoRule)
  <2> DEFINE same == stack # <<>> /\ text' = text /\ rules' = rules /\ legal' = legal
  <2>1. ASSUME same
        PROVE  Goes
    BY <2>1 DEF Goes
  <2>2. CASE Reference
    <3>1. same
      BY <2>2 DEF Reference, Primary, Runs
    <3> QED
      BY <2>1, <2>2, <3>1, ReferenceRight
  <2>3. CASE Group
    <3>1. same
      BY <2>3 DEF Group, Primary, Runs
    <3> QED
      BY <2>1, <2>3, <3>1, GroupRight
  <2>4. CASE GroupEnd
    <3>1. same
      BY <2>4 DEF GroupEnd, Runs
    <3> QED
      BY <2>1, <2>4, <3>1, GroupEndRight
  <2>5. CASE Capture
    <3>1. same
      BY <2>5 DEF Capture, Primary, Runs
    <3> QED
      BY <2>1, <2>5, <3>1, CaptureRight
  <2>6. CASE CaptureEnd
    <3>1. same
      BY <2>6 DEF CaptureEnd, Runs
    <3> QED
      BY <2>1, <2>6, <3>1, CaptureEndRight
  <2>7. CASE Operand
    <3>1. same
      BY <2>7 DEF Operand, Primary, Runs
    <3> QED
      BY <2>1, <2>7, <3>1, OperandRight
  <2>8. CASE Literal
    <3>1. same
      BY <2>8 DEF Literal, Primary, Runs
    <3> QED
      BY <2>1, <2>8, <3>1, LiteralRight
  <2>9. CASE Action
    <3>1. same
      BY <2>9 DEF Action, Primary, Runs
    <3> QED
      BY <2>1, <2>9, <3>1, ActionRight
  <2>10. CASE NoPrimary
    <3>1. same
      BY <2>10 DEF NoPrimary, Primary, Runs
    <3> QED
      BY <2>1, <2>10, <3>1, NoPrimaryRight
  <2>11. CASE Prefix
    <3>1. same
      BY <2>11 DEF Prefix, Runs
    <3> QED
      BY <2>1, <2>11, <3>1, PrefixRight
  <2>12. CASE Quantity
    <3>1. same
      BY <2>12 DEF Quantity, Runs
    <3> QED
      BY <2>1, <2>12, <3>1, QuantityRight
  <2>13. CASE Error
    <3>1. same
      BY <2>13 DEF Error, Runs
    <3> QED
      BY <2>1, <2>13, <3>1, ErrorRight
  <2>14. CASE FirstTerm
    <3>1. same
      BY <2>14 DEF FirstTerm, Runs
    <3> QED
      BY <2>1, <2>14, <3>1, FirstTermRight
  <2>15. CASE SecondTerm
    <3>1. same
      BY <2>15 DEF SecondTerm, Runs
    <3> QED
      BY <2>1, <2>15, <3>1, SecondTermRight
  <2>16. CASE NextTerm
    <3>1. same
      BY <2>16 DEF NextTerm, Runs
    <3> QED
      BY <2>1, <2>16, <3>1, NextTermRight
  <2>17. CASE Alternative
    <3>1. same
      BY <2>17 DEF Alternative, Runs
    <3> QED
      BY <2>1, <2>17, <3>1, AlternativeRight
  <2> HIDE DEF same
  <2> QED
    BY <1>2, <2>2, <2>3, <2>4, <2>5, <2>6, <2>7, <2>8, <2>9, <2>10, <2>11, <2>12, <2>13, <2>14,
       <2>15, <2>16, <2>17 DEF Reading
<1> QED
  BY <1>1, <1>2

\* What has been read is not changed while rules are linked.
LEMMA ListsKept ==
  ASSUME ListInv, pc = "hash" \/ pc = "read", heap' = heap, rules' = rules, errnum' = errnum,
         stack' = stack, pc' # "read", pc = "read" => stack = <<>> /\ ~ Stuck(input)
  PROVE  ListInv'
<1>1. errnum = 0 => RulesSound
  BY DEF ListInv, ReadInv
<1>2. RulesSound => RulesSound'
  BY DEF RulesSound, SoundRule
<1> QED
  BY <1>1, <1>2 DEF ListInv

LEMMA ListStep ==
  ASSUME RuleInv, RuleInv', ListInv, [Next]_vars
  PROVE  ListInv'
<1>1. NodeInv /\ NodeInv'
  BY DEF RuleInv
<1>2. CASE ReadRules
  <2>1. pc = "read" /\ pc' = "read" /\ Reading
    BY <1>2 DEF ReadRules
  <2>2. ReadInv'
    BY <1>1, <2>1, ReadsRight DEF ListInv
  <2> QED
    BY <2>1, <2>2 DEF ListInv
<1>3. CASE ReadEnd
  <2>1. /\ pc = "read" /\ pc' = "hash" /\ heap' = heap /\ rules' = rules /\ errnum' = errnum
        /\ stack' = stack /\ stack = <<>> /\ At(input) = END
    BY <1>3 DEF ReadEnd, AllRead, readVars
  <2>2. ~ Stuck(input)
    BY <2>1, TokensAre DEF Stuck
  <2> QED
    BY <2>1, <2>2, ListsKept
<1>4. CASE MakeRulehash
  BY <1>4, ListsKept DEF MakeRulehash, Turn, readVars
<1>5. CASE UNCHANGED vars
  <2>1. /\ pc' = pc /\ text' = text /\ input' = input /\ legal' = legal /\ stack' = stack /\ ret' = ret
        /\ heap' = heap /\ rule' = rule /\ rules' = rules /\ errnum' = errnum
    BY <1>5 DEF vars
  <2>2. RulesSound' <=> RulesSound
    BY <2>1 DEF RulesSound, SoundRule
  <2>3. /\ Sound' <=> Sound
        /\ Top' = Top
    BY <2>1 DEF Sound, Hand, Top, Last
  <2>4. /\ \A w : Stuck(w)' <=> Stuck(w)
        /\ \A p, f : Follows(p, f)' <=> Follows(p, f)
        /\ \A f : Placed(f)' <=> Placed(f)
    BY <2>1, StuckStays
  <2>5. CallsInv => CallsInv'
    <3>1. TopInv' <=> TopInv
      BY <2>1, <2>3, <2>4 DEF TopInv
    <3> QED
      BY <2>1, <2>4, <3>1 DEF CallsInv
  <2>6. Doomed' <=> Doomed
    BY <2>1, <2>3, <2>4 DEF Doomed
  <2>7. ReadInv => ReadInv'
    BY <2>1, <2>2, <2>3, <2>4, <2>5, <2>6 DEF ReadInv
  <2> QED
    BY <2>1, <2>2, <2>7 DEF ListInv
<1>6. CASE ~(ReadRules \/ ReadEnd \/ MakeRulehash \/ UNCHANGED vars)
  <2>1. pc # "read" /\ pc' # "read" /\ pc' # "hash" /\ stack' = stack
    BY <1>6 DEF Next, LinkRules, Linking, MakeRulehashEnd, LinkReferences, LinkReferencesEnd,
      MarkReference, MarkReturn, MarkEnd, UnreferenceRules, Compact, VerifyRuleVariables,
      VerifyCaptures, VerifyMarkerVariables, VerifyEnd, Returned, Turn, Leave, Turns, linkVars, readVars, vars
  <2> QED
    BY <2>1 DEF ListInv
<1> QED
  BY <1>2, <1>3, <1>4, <1>5, <1>6

LEMMA ListsInitially ==
  ASSUME Init
  PROVE  ListInv
<1>1. stack = <<>> /\ rules = <<>> /\ pc = "read" /\ errnum = 0 /\ legal = TRUE
  BY DEF Init, InitReading, InitLinks
<1>2. 1 .. Len(stack) = {} /\ 1 .. Len(rules) = {}
  BY <1>1, EmptySeq
<1>3. CallsInv /\ RulesSound
  BY <1>1, <1>2 DEF CallsInv, RulesSound
<1> QED
  BY <1>1, <1>3 DEF ListInv, ReadInv

LEMMA AllListed ==
  ASSUME RuleInv, ListInv
  PROVE  ListsOfRule
<1>1. ASSUME Primary, NEW k \in DOMAIN rule.rvars, pc = "read"
      PROVE  heap[rule.rvars[k]].live
  <2>1. NodeInv /\ ReadInv
    BY <1>1 DEF RuleInv, ListInv
  <2>2. Runs("primary", "entry") /\ stack # <<>> /\ Top.at = "entry"
    BY <1>1 DEF Primary, Runs
  <2>3. ret = NULL
    BY <1>1, <2>1, <2>2, Here, PlacesAre
  <2>4. Sound
    BY <2>1, <2>2, <2>3 DEF ReadInv, Doomed, Outer
  <2>5. rule.rvars[k] \in Ours(heap, Hand)
    <3>1. rule.rvars[k] \in ToSet(rule.rvars)
      BY <1>1 DEF ToSet
    <3> QED
      BY <2>4, <3>1 DEF Sound, ListsAre, ListsVariables, NodesOf
  <2>6. Ours(heap, Hand) \subseteq Alive(heap)
    BY <1>1, <2>1, <2>2, HandIs
  <2> QED
    BY <2>5, <2>6 DEF Alive
<1>2. ASSUME JustRead, errnum = 0, NEW r \in Rule
      PROVE  ListsAre(heap, Family(heap, rules[r].expr), rules[r])
  <2>1. RulesSound
    BY <1>2 DEF ListInv, JustRead
  <2>2. r \in 1 .. Len(rules)
    BY DomainOf DEF RuleInv, NodeInv, RulesOK, Rule
  <2> QED
    BY <2>1, <2>2 DEF RulesSound, SoundRule
<1>3. Primary => pc = "read"
  BY DEF Primary, Runs, ListInv
<1> QED
  BY <1>1, <1>2, <1>3 DEF ListsOfRule

\* The lists of a rule name its nodes, whatever the text is: when a variable is looked
\* up, no reference in the list has been destroyed; and when a file has been read
\* without an error, each capture, action, predicate and variable of a rule has its
\* entry at its index, and there is no other.
THEOREM ListsAreTheRules == Spec => []ListsOfRule
<1>1. Init => ListInv
  BY ListsInitially
<1>2. RuleInv /\ RuleInv' /\ ListInv /\ [Next]_vars => ListInv'
  BY ListStep
<1>3. RuleInv /\ ListInv => ListsOfRule
  BY AllListed
<1> QED
  BY <1>1, <1>2, <1>3, AlwaysRuleInv, PTL DEF Spec
=============================================================================
