------------------------ MODULE ProgressiveListProofs ------------------------
(***************************************************************************)
(* Theorems on the progressive lists of EIP-7916 and on the Optional       *)
(* values of EIP-6475, for every set of classes, of numbers, size of a     *)
(* chunk, bound on a length and number of Optionals around a uint8.        *)
(*                                                                         *)
(* The argument: New(s, packed) is a closed form for the tree of a list of *)
(* the elements s.  Reading it at an index gives the element (ReadNew),    *)
(* and append, pop, and set take it to the closed form of the sequence     *)
(* with an element more, less, or replaced (AppendNew, PopNew,             *)
(* ReplaceNew), although they look only at the nodes on the way to one     *)
(* chunk.  So every list is the closed form of its elements, which is the  *)
(* inductive invariant ListInv; iteration walks the closed form, and every *)
(* property follows from it.                                               *)
(*                                                                         *)
(* The closed form is made in layers, and each has its lemmas: leaves      *)
(* under one subtree (SubtreeFillToContents), subtrees in a chain, numbers *)
(* in chunks.                                                              *)
(***************************************************************************)
EXTENDS ProgressiveList, FiniteSetTheorems, SequenceTheorems, TLAPS

-----------------------------------------------------------------------------
(***************************************************************************)
(* Numbers                                                                 *)
(***************************************************************************)

\* The powers of two are positive and double from one to the next.  A power is
\* defined by recursion; that it doubles is read off the library's theorem on
\* the number of subsets of a finite set, which counts them by such powers.
LEMMA PowerOfTwo ==
  ASSUME NEW n \in Nat
  PROVE  /\ 2^n \in Nat \ {0}
         /\ 2^(n + 1) = 2 * 2^n
<1> DEFINE S == 1 .. n
           A == SUBSET S
           B == {T \union {n + 1} : T \in A}
<1>1. IsFiniteSet(S) /\ Cardinality(S) = n
  BY FS_Interval
<1>2. IsFiniteSet(A) /\ Cardinality(A) = 2^n
  BY <1>1, FS_SUBSET
<1>3. IsFiniteSet(1 .. n + 1) /\ Cardinality(1 .. n + 1) = n + 1
  BY FS_Interval
<1>4. Cardinality(SUBSET (1 .. n + 1)) = 2^(n + 1)
  BY <1>3, FS_SUBSET
<1>5. ExistsBijection(A, B)
  <2> DEFINE f == [T \in A |-> T \union {n + 1}]
  <2>1. f \in [A -> B]
    OBVIOUS
  <2>2. ASSUME NEW T \in A, NEW U \in A, f[T] = f[U] PROVE T = U
    <3>1. n + 1 \notin T /\ n + 1 \notin U
      OBVIOUS
    <3>2. T \union {n + 1} = U \union {n + 1}
      BY <2>2
    <3>3. QED
      BY <3>1, <3>2
  <2>3. \A T \in B : \E U \in A : f[U] = T
    OBVIOUS
  <2> HIDE DEF f, A, B
  <2>4. f \in Bijection(A, B)
    BY <2>1, <2>2, <2>3 DEF Bijection, Injection, Surjection, IsInjective
  <2>5. QED
    BY <2>4 DEF ExistsBijection
<1>6. IsFiniteSet(B) /\ Cardinality(B) = 2^n
  BY <1>2, <1>5, FS_Bijection
<1>7. A \union B = SUBSET (1 .. n + 1)
  <2>1. ASSUME NEW T \in SUBSET (1 .. n + 1) PROVE T \in A \union B
    <3>1. CASE n + 1 \in T
      <4>1. T \ {n + 1} \in A /\ T = (T \ {n + 1}) \union {n + 1}
        BY <3>1
      <4>2. QED
        BY <4>1
    <3>2. CASE n + 1 \notin T
      BY <3>2
    <3>3. QED
      BY <3>1, <3>2
  <2>2. ASSUME NEW T \in A \union B PROVE T \in SUBSET (1 .. n + 1)
    <3>1. CASE T \in A
      BY <3>1
    <3>2. CASE T \in B
      <4>1. PICK U \in A : T = U \union {n + 1}
        BY <3>2
      <4>2. QED
        BY <4>1
    <3>3. QED
      BY <3>1, <3>2, <2>2
  <2>3. QED
    BY <2>1, <2>2
<1>8. A \intersect B = {}
  OBVIOUS
<1>9. Cardinality(A \intersect B) = 0
  BY <1>8, FS_EmptySet
<1>10. Cardinality(A \union B) = Cardinality(A) + Cardinality(B) - Cardinality(A \intersect B)
  BY <1>2, <1>6, FS_Union
<1>11. 2^n \in Nat
  BY <1>2, FS_CardinalityType
<1>12. 2^n # 0
  <2>1. A # {}
    OBVIOUS
  <2>2. QED
    BY <1>2, <2>1, FS_EmptySet
<1> HIDE DEF A, B, S
<1>13. Cardinality(A \union B) = 2^(n + 1)
  BY <1>4, <1>7
<1>14. 2^(n + 1) = 2^n + 2^n - 0
  BY <1>2, <1>6, <1>9, <1>10, <1>13
<1>15. QED
  BY <1>11, <1>12, <1>14

\* A division has one quotient and one remainder.
LEMMA DivisionUnique ==
  ASSUME NEW x \in Nat, NEW d \in Nat \ {0}, NEW q \in Nat, NEW r \in 0 .. d - 1,
         x = d * q + r
  PROVE  x \div d = q /\ x % d = r
<1> DEFINE h == x \div d
           k == x % d
<1>1. x = d * h + k /\ h \in Int /\ k \in 0 .. d - 1
  OBVIOUS
<1> HIDE DEF h, k
<1>2. ASSUME q > h PROVE FALSE
  <2>1. q - h - 1 \in Nat
    BY <1>1, <1>2
  <2>2. d * (q - h - 1) \in Nat
    BY <2>1
  <2>3. d * (q - h - 1) = d * q - d * h - d
    BY <1>1
  <2>4. QED
    BY <1>1, <2>2, <2>3
<1>3. ASSUME q < h PROVE FALSE
  <2>1. h - q - 1 \in Nat
    BY <1>1, <1>3
  <2>2. d * (h - q - 1) \in Nat
    BY <2>1
  <2>3. d * (h - q - 1) = d * h - d * q - d
    BY <1>1
  <2>4. QED
    BY <1>1, <2>2, <2>3
<1>4. q = h
  BY <1>1, <1>2, <1>3
<1>5. QED
  BY <1>1, <1>4 DEF h, k

\* Induction for a set I of numbers.
LEMMA StrongInduction ==
  ASSUME NEW I,
         ASSUME NEW n \in Nat, \A m \in 0 .. n - 1 : m \in I PROVE n \in I
  PROVE  \A n \in Nat : n \in I
<1> DEFINE missing == {n \in Nat : n \notin I}
<1>1. SUFFICES ASSUME missing # {} PROVE FALSE
  OBVIOUS
<1>2. missing \subseteq Nat
  OBVIOUS
<1> HIDE DEF missing
<1>3. PICK n \in missing : \A m \in missing : ~(<<m, n>> \in OpToRel(<, Nat))
  BY <1>1, <1>2, NatLessThanWellFounded, WFMin
<1>4. n \in Nat /\ n \notin I
  BY DEF missing
<1>5. ASSUME NEW m \in 0 .. n - 1 PROVE m \in I
  <2>1. SUFFICES ASSUME m \notin I PROVE FALSE
    OBVIOUS
  <2>2. m \in Nat /\ m < n
    BY <1>4
  <2>3. m \in missing /\ <<m, n>> \in OpToRel(<, Nat)
    BY <1>4, <2>1, <2>2 DEF missing, OpToRel
  <2>4. QED
    BY <1>3, <2>3
<1>6. QED
  BY <1>4, <1>5

\* The same from one number to the next.
LEMMA SimpleInduction ==
  ASSUME NEW I, 0 \in I,
         ASSUME NEW n \in Nat, n \in I PROVE n + 1 \in I
  PROVE  \A n \in Nat : n \in I
<1>1. ASSUME NEW n \in Nat, \A m \in 0 .. n - 1 : m \in I PROVE n \in I
  <2>1. CASE n = 0
    BY <2>1
  <2>2. CASE n # 0
    <3>1. n - 1 \in Nat /\ n - 1 \in 0 .. n - 1 /\ n - 1 + 1 = n
      BY <2>2
    <3>2. n - 1 \in I
      BY <1>1, <3>1
    <3>3. n - 1 + 1 \in I
      BY <3>1, <3>2
    <3>4. QED
      BY <3>1, <3>3
  <2>3. QED
    BY <2>1, <2>2
<1>2. QED
  BY <1>1, StrongInduction

-----------------------------------------------------------------------------
(***************************************************************************)
(* Each recursive definition satisfies its equation                        *)
(*                                                                         *)
(* TLA+ defines f[n \in Nat] == e as a choice among the functions that     *)
(* satisfy the equation: a proof may use the equation once it has shown    *)
(* that one does.  A theorem cannot take the step of a recursion as a      *)
(* parameter, so Step has those of all the recursions, each with its name  *)
(* and with its parameters in p.                                           *)
(***************************************************************************)

GetStep(node, g, f) ==
  IF g <= 1 THEN node ELSE Child(f[g \div 2], IF g % 2 = 0 THEN "left" ELSE "right")

\* p: the node, the index, the new node and whether to expand
SetStep(p, k, f) ==
  IF k = 0 THEN p[3]
  ELSE LET old == Getter(p[1], p[2] \div 2^k)
           pair == IF IsPair(old) THEN old ELSE PairNode(Zero(k - 1), Zero(k - 1))
       IN IF ~IsPair(old) /\ ~p[4] THEN Raised
          ELSE IF (p[2] \div 2^(k - 1)) % 2 = 0 THEN PairNode(f[k - 1], pair.right)
               ELSE PairNode(pair.left, f[k - 1])

RootStep(node, h, f) ==
  [g \in Nat |->
     LET n == Getter(node, g)
         left == f[h - 1][2 * g]
         right == f[h - 1][2 * g + 1]
     IN IF h > 0 /\ IsPair(n)
        THEN IF left = right /\ "zero" \in DOMAIN left THEN Zero(left.zero + 1)
             ELSE PairNode(left, right)
        ELSE IF "root" \in DOMAIN n THEN n.root ELSE n]

FillStep(nodes, d, f) ==
  [i \in Nat |->
     IF Len(nodes) <= i THEN Zero(d)
     ELSE IF d = 0 THEN nodes[i + 1]
     ELSE PairNode(f[d - 1][i], f[d - 1][i + 2^(d - 1)])]

SummitStep(t, f) == IF t > 2 /\ t % 2 = 0 THEN f[t \div 2] ELSE t

ChainStep(nodes, left, f) ==
  [depth \in Nat |->
     IF left = 0 THEN Zero(0)
     ELSE PairNode(SubtreeFillToContents(nodes, depth, Len(nodes) - left),
                   f[IF left <= 2^depth THEN 0 ELSE left - 2^depth][depth + 2])]

IterStep(list, packed, left, f) ==
  [gindex \in Nat |-> [depth \in Nat |->
     LET width == 2^depth * PerChunk(packed)
         n == IF left < width THEN left ELSE width
     IN IF left = 0 THEN IF Getter(list, gindex) = Zero(0) THEN <<>> ELSE <<Raised>>
        ELSE ReadonlyIter(Getter(list, 2 * gindex), depth, n, packed)
               \o f[left - n][2 * gindex + 1][depth + 2]]]

DescendStep(c, f) ==
  [gindex \in Nat |-> [depth \in Nat |->
     IF c < 2^depth
     THEN [gindex |-> gindex * 2^(1 + depth) + c, depth |-> depth, chunk_i |-> c]
     ELSE f[c - 2^depth][2 * gindex + 1][depth + 2]]]

SpineStep(n, f) == IF n = 0 THEN 2 ELSE 2 * f[n - 1] + 1

NodesStep(t, f) ==
  IF t = Uint8 THEN {UintNode(n) : n \in Numbers}
  ELSE {NewOptional(v) : v \in {None} \cup f[ElementCls(t)]}

\* p: the type and the node
BytesStep(p, t, f) ==
  LET value == Getter(p[2], 2^(p[1] - t))
  IN IF t = Uint8 THEN <<UintOf(value)>>
     ELSE IF Get(value) = None THEN <<>> ELSE <<1>> \o f[ElementCls(t)]

\* p: the type and the bytes
ReadStep(p, t, f) ==
  LET scope == Len(p[2]) - (p[1] - t)
      value == f[ElementCls(t)]
  IN IF t = Uint8 THEN IF scope = 1 THEN UintNode(p[2][p[1] + 1]) ELSE Raised
     ELSE IF scope = 0 THEN NewOptional(None)
     ELSE IF p[2][p[1] - t + 1] = 1 /\ value # Raised THEN NewOptional(value) ELSE Raised

MaxStep(t, f) == IF t = Uint8 THEN 1 ELSE 1 + f[ElementCls(t)]

Step(name, p, n, f) ==
  IF name = "get" THEN GetStep(p, n, f)
  ELSE IF name = "set" THEN SetStep(p, n, f)
  ELSE IF name = "root" THEN RootStep(p, n, f)
  ELSE IF name = "fill" THEN FillStep(p, n, f)
  ELSE IF name = "summit" THEN SummitStep(n, f)
  ELSE IF name = "chain" THEN ChainStep(p, n, f)
  ELSE IF name = "iter" THEN IterStep(p[1], p[2], n, f)
  ELSE IF name = "descend" THEN DescendStep(n, f)
  ELSE IF name = "spine" THEN SpineStep(n, f)
  ELSE IF name = "nodes" THEN NodesStep(n, f)
  ELSE IF name = "bytes" THEN BytesStep(p, n, f)
  ELSE IF name = "read" THEN ReadStep(p, n, f)
  ELSE MaxStep(n, f)

\* f is defined on D by the recursion
Satisfies(f, name, p, D) == f = [n \in D |-> Step(name, p, n, f)]

\* If the value at a number depends on smaller numbers only, some function
\* satisfies the equation on all of them: there is one on the numbers up to n
\* for each n, no two disagree, and together they make the function.
LEMMA RecursiveFunctionExists ==
  ASSUME NEW name, NEW p,
         \A n \in Nat : \A f, g :
           (\A m \in 0 .. n - 1 : f[m] = g[m]) => Step(name, p, n, f) = Step(name, p, n, g)
  PROVE  \E f : Satisfies(f, name, p, Nat)
<1> DEFINE upto(n) == CHOOSE f : Satisfies(f, name, p, 0 .. n)
           F == [n \in Nat |-> upto(n)[n]]
<1>1. ASSUME NEW a \in Nat, NEW b \in Nat, NEW f, NEW g,
             Satisfies(f, name, p, 0 .. a), Satisfies(g, name, p, 0 .. b)
      PROVE  \A n \in Nat : n <= a /\ n <= b => f[n] = g[n]
  <2> DEFINE I == {n \in Nat : n <= a /\ n <= b => f[n] = g[n]}
  <2>1. ASSUME NEW n \in Nat, \A m \in 0 .. n - 1 : m \in I PROVE n \in I
    <3>1. SUFFICES ASSUME n <= a, n <= b PROVE f[n] = g[n]
      OBVIOUS
    <3>2. \A m \in 0 .. n - 1 : f[m] = g[m]
      <4>1. TAKE m \in 0 .. n - 1
      <4>2. m \in I /\ m <= a /\ m <= b
        BY <2>1, <3>1
      <4>3. QED
        BY <4>2
    <3>3. n \in 0 .. a /\ n \in 0 .. b
      BY <3>1
    <3>4. f[n] = Step(name, p, n, f) /\ g[n] = Step(name, p, n, g)
      BY <1>1, <3>3 DEF Satisfies
    <3>5. QED
      BY <3>2, <3>4
  <2>2. \A n \in Nat : n \in I
    <3> HIDE DEF I
    <3>1. QED
      BY <2>1, StrongInduction
  <2>3. QED
    BY <2>2
<1>2. \A n \in Nat : \E f : Satisfies(f, name, p, 0 .. n)
  <2> DEFINE J == {n \in Nat : \E f : Satisfies(f, name, p, 0 .. n)}
  <2>1. 0 \in J
    <3> DEFINE f == [n \in 0 .. 0 |-> Step(name, p, n, <<>>)]
    <3>1. \A n \in 0 .. 0 : Step(name, p, n, f) = Step(name, p, n, <<>>)
      <4>1. TAKE n \in 0 .. 0
      <4>2. n \in Nat /\ 0 .. n - 1 = {}
        OBVIOUS
      <4> HIDE DEF f
      <4>3. QED
        BY <4>2
    <3>2. f = [n \in 0 .. 0 |-> Step(name, p, n, f)]
      BY <3>1
    <3>3. Satisfies(f, name, p, 0 .. 0)
      BY <3>2 DEF Satisfies
    <3> HIDE DEF f
    <3>4. QED
      BY <3>3
  <2>2. ASSUME NEW n \in Nat, n \in J PROVE n + 1 \in J
    <3>1. PICK f : Satisfies(f, name, p, 0 .. n)
      BY <2>2
    <3> DEFINE g == [m \in 0 .. n + 1 |-> Step(name, p, m, f)]
    <3>2. ASSUME NEW m \in 0 .. n PROVE g[m] = f[m]
      <4>1. m \in 0 .. n + 1
        OBVIOUS
      <4>2. f[m] = Step(name, p, m, f)
        BY <3>1 DEF Satisfies
      <4>3. QED
        BY <4>1, <4>2
    <3>3. ASSUME NEW m \in 0 .. n + 1 PROVE Step(name, p, m, g) = Step(name, p, m, f)
      <4> HIDE DEF g
      <4>1. \A i \in 0 .. m - 1 : g[i] = f[i]
        BY <3>2
      <4>2. m \in Nat
        OBVIOUS
      <4>3. QED
        BY <4>1, <4>2
    <3>4. g = [m \in 0 .. n + 1 |-> Step(name, p, m, g)]
      BY <3>3
    <3>5. Satisfies(g, name, p, 0 .. n + 1)
      BY <3>4 DEF Satisfies
    <3> HIDE DEF g
    <3>6. QED
      BY <3>5
  <2>3. \A n \in Nat : n \in J
    <3> HIDE DEF J
    <3>1. QED
      BY <2>1, <2>2, SimpleInduction
  <2>4. QED
    BY <2>3
<1>3. \A n \in Nat : Satisfies(upto(n), name, p, 0 .. n)
  BY <1>2
<1> HIDE DEF upto
<1>4. ASSUME NEW n \in Nat PROVE F[n] = Step(name, p, n, F)
  <2>1. \A m \in 0 .. n - 1 : upto(n)[m] = F[m]
    <3>1. TAKE m \in 0 .. n - 1
    <3>2. m \in Nat /\ m <= n
      OBVIOUS
    <3>3. upto(n)[m] = upto(m)[m]
      BY <1>1, <1>3, <3>2
    <3>4. QED
      BY <3>2, <3>3
  <2>2. upto(n)[n] = Step(name, p, n, upto(n))
    BY <1>3 DEF Satisfies
  <2>3. F[n] = upto(n)[n]
    OBVIOUS
  <2> HIDE DEF F
  <2>4. QED
    BY <2>1, <2>2, <2>3
<1>5. F = [n \in Nat |-> Step(name, p, n, F)]
  <2>1. F = [n \in Nat |-> F[n]]
    OBVIOUS
  <2> HIDE DEF F
  <2>2. QED
    BY <1>4, <2>1
<1>6. Satisfies(F, name, p, Nat)
  BY <1>5 DEF Satisfies
<1> HIDE DEF F
<1>7. QED
  BY <1>6

\* The node at g is a child of the node at g \div 2.
LEMMA GetterDef ==
  ASSUME NEW node, NEW g \in Nat
  PROVE  Getter(node, g) =
           IF g <= 1 THEN node
           ELSE Child(Getter(node, g \div 2), IF g % 2 = 0 THEN "left" ELSE "right")
<1> DEFINE Rec(f) == f = [x \in Nat |->
                            IF x <= 1 THEN node
                            ELSE Child(f[x \div 2], IF x % 2 = 0 THEN "left" ELSE "right")]
           get == CHOOSE f : Rec(f)
<1>1. \E f : Satisfies(f, "get", node, Nat)
  <2>1. ASSUME NEW n \in Nat, NEW f, NEW h, \A m \in 0 .. n - 1 : f[m] = h[m]
        PROVE  Step("get", node, n, f) = Step("get", node, n, h)
    <3>1. n > 1 => n \div 2 \in 0 .. n - 1
      OBVIOUS
    <3>2. QED
      BY <2>1, <3>1 DEF Step, GetStep
  <2>2. QED
    BY <2>1, RecursiveFunctionExists
<1>2. \E f : Rec(f)
  BY <1>1 DEF Satisfies, Step, GetStep
<1>3. Rec(get)
  BY <1>2
<1>4. \A d : Getter(node, d) = get[d]
  BY DEF Getter
<1> HIDE DEF get
<1>5. g > 1 => g \div 2 \in Nat
  OBVIOUS
<1>6. QED
  BY <1>3, <1>4, <1>5

\* What Setter makes of the nodes k levels above gindex
SetAbove(node, gindex, new, expand, k) ==
  LET set[l \in Nat] ==
        IF l = 0 THEN new
        ELSE LET old == Getter(node, gindex \div 2^l)
                 pair == IF IsPair(old) THEN old ELSE PairNode(Zero(l - 1), Zero(l - 1))
             IN IF ~IsPair(old) /\ ~expand THEN Raised
                ELSE IF (gindex \div 2^(l - 1)) % 2 = 0 THEN PairNode(set[l - 1], pair.right)
                     ELSE PairNode(pair.left, set[l - 1])
  IN set[k]

\* Setter is what it makes of the root.
LEMMA SetterAbove ==
  ASSUME NEW node, NEW gindex, NEW new, NEW expand
  PROVE  Setter(node, gindex, new, expand)
           = SetAbove(node, gindex, new, expand, DepthOf(gindex))
BY DEF Setter, SetAbove

\* The tree k + 1 levels above gindex: old with a new child on the side of gindex
Above(gindex, k, old, below, expand) ==
  LET pair == IF IsPair(old) THEN old ELSE PairNode(Zero(k), Zero(k))
  IN IF ~IsPair(old) /\ ~expand THEN Raised
     ELSE IF (gindex \div 2^k) % 2 = 0 THEN PairNode(below, pair.right)
          ELSE PairNode(pair.left, below)

\* The new node is put in at gindex, and each tree above is made from the one below.
LEMMA SetAboveDef ==
  ASSUME NEW node, NEW gindex, NEW new, NEW expand, NEW k \in Nat
  PROVE  /\ SetAbove(node, gindex, new, expand, 0) = new
         /\ SetAbove(node, gindex, new, expand, k + 1)
              = Above(gindex, k, Getter(node, gindex \div 2^(k + 1)),
                      SetAbove(node, gindex, new, expand, k), expand)
<1> DEFINE Rec(f) ==
      f = [l \in Nat |->
             IF l = 0 THEN new
             ELSE LET old == Getter(node, gindex \div 2^l)
                      pair == IF IsPair(old) THEN old ELSE PairNode(Zero(l - 1), Zero(l - 1))
                  IN IF ~IsPair(old) /\ ~expand THEN Raised
                     ELSE IF (gindex \div 2^(l - 1)) % 2 = 0 THEN PairNode(f[l - 1], pair.right)
                          ELSE PairNode(pair.left, f[l - 1])]
           set == CHOOSE f : Rec(f)
           p == <<node, gindex, new, expand>>
<1>1. \E f : Satisfies(f, "set", p, Nat)
  <2> HIDE DEF p
  <2>1. ASSUME NEW n \in Nat, NEW f, NEW h, \A m \in 0 .. n - 1 : f[m] = h[m]
        PROVE  Step("set", p, n, f) = Step("set", p, n, h)
    <3>1. n # 0 => f[n - 1] = h[n - 1]
      BY <2>1
    <3>2. QED
      BY <3>1 DEF Step, SetStep
  <2>2. QED
    BY <2>1, RecursiveFunctionExists
<1>2. \E f : Rec(f)
  BY <1>1 DEF Satisfies, Step, SetStep
<1>3. Rec(set)
  BY <1>2
<1>4. \A d : SetAbove(node, gindex, new, expand, d) = set[d]
  BY DEF SetAbove
<1> HIDE DEF set
<1>5. set[0] = new
  <2>1. 0 \in Nat
    OBVIOUS
  <2>2. QED
    BY <1>3, <2>1
<1>6. set[k + 1] = Above(gindex, k, Getter(node, gindex \div 2^(k + 1)), set[k], expand)
  <2> DEFINE n == k + 1
  <2>1. n \in Nat /\ n # 0 /\ n - 1 = k
    OBVIOUS
  <2> HIDE DEF n
  <2>2. set[n] =
          LET old == Getter(node, gindex \div 2^n)
              pair == IF IsPair(old) THEN old ELSE PairNode(Zero(n - 1), Zero(n - 1))
          IN IF ~IsPair(old) /\ ~expand THEN Raised
             ELSE IF (gindex \div 2^(n - 1)) % 2 = 0 THEN PairNode(set[n - 1], pair.right)
                  ELSE PairNode(pair.left, set[n - 1])
    BY <1>3, <2>1
  <2>3. set[n] = Above(gindex, n - 1, Getter(node, gindex \div 2^n), set[n - 1], expand)
    BY <2>2 DEF Above
  <2>4. QED
    BY <2>1, <2>3 DEF n
<1>7. QED
  BY <1>4, <1>5, <1>6

\* The root of the node at g, where it is at most h levels high
RootAt(node, h, g) ==
  LET root[l \in Nat] ==
        [x \in Nat |->
           LET n == Getter(node, x)
               left == root[l - 1][2 * x]
               right == root[l - 1][2 * x + 1]
           IN IF l > 0 /\ IsPair(n)
              THEN IF left = right /\ "zero" \in DOMAIN left THEN Zero(left.zero + 1)
                   ELSE PairNode(left, right)
              ELSE IF "root" \in DOMAIN n THEN n.root ELSE n]
  IN root[h][g]

\* The root of a pair is made from the roots of its children.
LEMMA RootAtDef ==
  ASSUME NEW node, NEW h \in Nat, NEW g \in Nat
  PROVE  RootAt(node, h, g) =
           LET n == Getter(node, g)
               left == RootAt(node, h - 1, 2 * g)
               right == RootAt(node, h - 1, 2 * g + 1)
           IN IF h > 0 /\ IsPair(n)
              THEN IF left = right /\ "zero" \in DOMAIN left THEN Zero(left.zero + 1)
                   ELSE PairNode(left, right)
              ELSE IF "root" \in DOMAIN n THEN n.root ELSE n
<1> DEFINE Rec(f) ==
      f = [l \in Nat |->
             [x \in Nat |->
                LET n == Getter(node, x)
                    left == f[l - 1][2 * x]
                    right == f[l - 1][2 * x + 1]
                IN IF l > 0 /\ IsPair(n)
                   THEN IF left = right /\ "zero" \in DOMAIN left THEN Zero(left.zero + 1)
                        ELSE PairNode(left, right)
                   ELSE IF "root" \in DOMAIN n THEN n.root ELSE n]]
           root == CHOOSE f : Rec(f)
<1>1. \E f : Satisfies(f, "root", node, Nat)
  <2>1. ASSUME NEW n \in Nat, NEW f, NEW e, \A m \in 0 .. n - 1 : f[m] = e[m]
        PROVE  Step("root", node, n, f) = Step("root", node, n, e)
    <3>1. CASE n = 0
      BY <3>1 DEF Step, RootStep
    <3>2. CASE n # 0
      <4>1. f[n - 1] = e[n - 1]
        BY <2>1, <3>2
      <4>2. QED
        BY <4>1 DEF Step, RootStep
    <3>3. QED
      BY <3>1, <3>2
  <2>2. QED
    BY <2>1, RecursiveFunctionExists
<1>2. \E f : Rec(f)
  BY <1>1 DEF Satisfies, Step, RootStep
<1>3. Rec(root)
  BY <1>2
<1>4. \A l, x : RootAt(node, l, x) = root[l][x]
  BY DEF RootAt
<1> HIDE DEF root
<1>5. root[h] =
        [x \in Nat |->
           LET n == Getter(node, x)
               left == root[h - 1][2 * x]
               right == root[h - 1][2 * x + 1]
           IN IF h > 0 /\ IsPair(n)
              THEN IF left = right /\ "zero" \in DOMAIN left THEN Zero(left.zero + 1)
                   ELSE PairNode(left, right)
              ELSE IF "root" \in DOMAIN n THEN n.root ELSE n]
  BY <1>3
<1>6. root[h][g] =
        LET n == Getter(node, g)
            left == root[h - 1][2 * g]
            right == root[h - 1][2 * g + 1]
        IN IF h > 0 /\ IsPair(n)
           THEN IF left = right /\ "zero" \in DOMAIN left THEN Zero(left.zero + 1)
                ELSE PairNode(left, right)
           ELSE IF "root" \in DOMAIN n THEN n.root ELSE n
  BY <1>5
<1>7. QED
  BY <1>4, <1>6

\* A tree filled from below: its halves are filled with what follows one another.
LEMMA FillDef ==
  ASSUME NEW nodes, NEW d \in Nat, NEW i \in Nat
  PROVE  SubtreeFillToContents(nodes, d, i) =
           IF Len(nodes) <= i THEN Zero(d)
           ELSE IF d = 0 THEN nodes[i + 1]
           ELSE PairNode(SubtreeFillToContents(nodes, d - 1, i),
                         SubtreeFillToContents(nodes, d - 1, i + 2^(d - 1)))
<1> DEFINE Rec(f) ==
      f = [l \in Nat |->
             [x \in Nat |->
                IF Len(nodes) <= x THEN Zero(l)
                ELSE IF l = 0 THEN nodes[x + 1]
                ELSE PairNode(f[l - 1][x], f[l - 1][x + 2^(l - 1)])]]
           fill == CHOOSE f : Rec(f)
<1>1. \E f : Satisfies(f, "fill", nodes, Nat)
  <2>1. ASSUME NEW n \in Nat, NEW f, NEW e, \A m \in 0 .. n - 1 : f[m] = e[m]
        PROVE  Step("fill", nodes, n, f) = Step("fill", nodes, n, e)
    <3>1. CASE n = 0
      BY <3>1 DEF Step, FillStep
    <3>2. CASE n # 0
      <4>1. f[n - 1] = e[n - 1]
        BY <2>1, <3>2
      <4>2. QED
        BY <4>1 DEF Step, FillStep
    <3>3. QED
      BY <3>1, <3>2
  <2>2. QED
    BY <2>1, RecursiveFunctionExists
<1>2. \E f : Rec(f)
  BY <1>1 DEF Satisfies, Step, FillStep
<1>3. Rec(fill)
  BY <1>2
<1>4. \A l, x : SubtreeFillToContents(nodes, l, x) = fill[l][x]
  BY DEF SubtreeFillToContents
<1> HIDE DEF fill
<1>5. fill[d] =
        [x \in Nat |->
           IF Len(nodes) <= x THEN Zero(d)
           ELSE IF d = 0 THEN nodes[x + 1]
           ELSE PairNode(fill[d - 1][x], fill[d - 1][x + 2^(d - 1)])]
  BY <1>3
<1>6. fill[d][i] =
        IF Len(nodes) <= i THEN Zero(d)
        ELSE IF d = 0 THEN nodes[i + 1]
        ELSE PairNode(fill[d - 1][i], fill[d - 1][i + 2^(d - 1)])
  BY <1>5
<1>7. QED
  BY <1>4, <1>6

\* The climb to the summit
LEMMA SummitDef ==
  ASSUME NEW t \in Nat
  PROVE  Summit(t) = IF t > 2 /\ t % 2 = 0 THEN Summit(t \div 2) ELSE t
<1> DEFINE Rec(f) == f = [x \in Nat |-> IF x > 2 /\ x % 2 = 0 THEN f[x \div 2] ELSE x]
           summit == CHOOSE f : Rec(f)
<1>1. \E f : Satisfies(f, "summit", 0, Nat)
  <2>1. ASSUME NEW n \in Nat, NEW f, NEW h, \A m \in 0 .. n - 1 : f[m] = h[m]
        PROVE  Step("summit", 0, n, f) = Step("summit", 0, n, h)
    <3>1. n > 2 => n \div 2 \in 0 .. n - 1
      OBVIOUS
    <3>2. QED
      BY <2>1, <3>1 DEF Step, SummitStep
  <2>2. QED
    BY <2>1, RecursiveFunctionExists
<1>2. \E f : Rec(f)
  BY <1>1 DEF Satisfies, Step, SummitStep
<1>3. Rec(summit)
  BY <1>2
<1>4. \A d : Summit(d) = summit[d]
  BY DEF Summit
<1> HIDE DEF summit
<1>5. QED
  BY <1>3, <1>4

\* The chain of the subtrees from depth on that holds the last left nodes
ChainAt(nodes, left, depth) ==
  LET chain[l \in Nat] ==
        [d \in Nat |->
           IF l = 0 THEN Zero(0)
           ELSE PairNode(SubtreeFillToContents(nodes, d, Len(nodes) - l),
                         chain[IF l <= 2^d THEN 0 ELSE l - 2^d][d + 2])]
  IN chain[left][depth]

\* A chain is its first subtree and the chain of the later ones.
LEMMA ChainAtDef ==
  ASSUME NEW nodes, NEW left \in Nat, NEW depth \in Nat
  PROVE  ChainAt(nodes, left, depth) =
           IF left = 0 THEN Zero(0)
           ELSE PairNode(SubtreeFillToContents(nodes, depth, Len(nodes) - left),
                         ChainAt(nodes, IF left <= 2^depth THEN 0 ELSE left - 2^depth, depth + 2))
<1> DEFINE Rec(f) ==
      f = [l \in Nat |->
             [d \in Nat |->
                IF l = 0 THEN Zero(0)
                ELSE PairNode(SubtreeFillToContents(nodes, d, Len(nodes) - l),
                              f[IF l <= 2^d THEN 0 ELSE l - 2^d][d + 2])]]
           chain == CHOOSE f : Rec(f)
<1>1. \E f : Satisfies(f, "chain", nodes, Nat)
  <2>1. ASSUME NEW n \in Nat, NEW f, NEW e, \A m \in 0 .. n - 1 : f[m] = e[m]
        PROVE  Step("chain", nodes, n, f) = Step("chain", nodes, n, e)
    <3>1. CASE n = 0
      BY <3>1 DEF Step, ChainStep
    <3>2. CASE n # 0
      <4>1. ASSUME NEW d \in Nat
            PROVE  f[IF n <= 2^d THEN 0 ELSE n - 2^d] = e[IF n <= 2^d THEN 0 ELSE n - 2^d]
        <5>1. 2^d \in Nat \ {0}
          BY PowerOfTwo
        <5>2. (IF n <= 2^d THEN 0 ELSE n - 2^d) \in 0 .. n - 1
          BY <3>2, <5>1
        <5>3. QED
          BY <2>1, <5>2
      <4>2. QED
        BY <4>1 DEF Step, ChainStep
    <3>3. QED
      BY <3>1, <3>2
  <2>2. QED
    BY <2>1, RecursiveFunctionExists
<1>2. \E f : Rec(f)
  BY <1>1 DEF Satisfies, Step, ChainStep
<1>3. Rec(chain)
  BY <1>2
<1>4. \A l, d : ChainAt(nodes, l, d) = chain[l][d]
  BY DEF ChainAt
<1> HIDE DEF chain
<1>5. chain[left] =
        [d \in Nat |->
           IF left = 0 THEN Zero(0)
           ELSE PairNode(SubtreeFillToContents(nodes, d, Len(nodes) - left),
                         chain[IF left <= 2^d THEN 0 ELSE left - 2^d][d + 2])]
  BY <1>3
<1>6. chain[left][depth] =
        IF left = 0 THEN Zero(0)
        ELSE PairNode(SubtreeFillToContents(nodes, depth, Len(nodes) - left),
                      chain[IF left <= 2^depth THEN 0 ELSE left - 2^depth][depth + 2])
  BY <1>5
<1>7. QED
  BY <1>4, <1>6

\* The iteration over the last left elements, from the subtrees of depth on
IterAt(list, packed, left, gindex, depth) ==
  LET iter[l \in Nat] ==
        [g \in Nat |-> [d \in Nat |->
           LET width == 2^d * PerChunk(packed)
               n == IF l < width THEN l ELSE width
           IN IF l = 0 THEN IF Getter(list, g) = Zero(0) THEN <<>> ELSE <<Raised>>
              ELSE ReadonlyIter(Getter(list, 2 * g), d, n, packed)
                     \o iter[l - n][2 * g + 1][d + 2]]]
  IN iter[left][gindex][depth]

\* A chunk has at least one element.
LEMMA PerChunkType ==
  \A packed : PerChunk(packed) \in Nat \ {0}
BY ChunkAssumption DEF PerChunk

\* A turn of it yields n elements, after which rest are left.
IterMoves(packed, left, n, rest, gindex, next, depth, deeper) ==
  /\ left \in Nat /\ gindex \in Nat /\ depth \in Nat
  /\ n = IF left < 2^depth * PerChunk(packed) THEN left ELSE 2^depth * PerChunk(packed)
  /\ rest = left - n /\ next = 2 * gindex + 1 /\ deeper = depth + 2

\* The iteration goes through a subtree, and then through those behind it.
LEMMA IterAtDef ==
  ASSUME NEW list, NEW packed, NEW left, NEW n, NEW rest, NEW gindex, NEW next,
         NEW depth, NEW deeper, IterMoves(packed, left, n, rest, gindex, next, depth, deeper)
  PROVE  IterAt(list, packed, left, gindex, depth) =
           IF left = 0 THEN IF Getter(list, gindex) = Zero(0) THEN <<>> ELSE <<Raised>>
           ELSE ReadonlyIter(Getter(list, 2 * gindex), depth, n, packed)
                  \o IterAt(list, packed, rest, next, deeper)
<1> DEFINE Rec(f) ==
      f = [l \in Nat |->
             [g \in Nat |-> [d \in Nat |->
                LET width == 2^d * PerChunk(packed)
                    m == IF l < width THEN l ELSE width
                IN IF l = 0 THEN IF Getter(list, g) = Zero(0) THEN <<>> ELSE <<Raised>>
                   ELSE ReadonlyIter(Getter(list, 2 * g), d, m, packed)
                          \o f[l - m][2 * g + 1][d + 2]]]]
           iter == CHOOSE f : Rec(f)
           p == <<list, packed>>
<1>0. left \in Nat /\ gindex \in Nat /\ depth \in Nat
  BY DEF IterMoves
<1>1. \E f : Satisfies(f, "iter", p, Nat)
  <2>1. ASSUME NEW x \in Nat, NEW f, NEW e, \A m \in 0 .. x - 1 : f[m] = e[m]
        PROVE  IterStep(list, packed, x, f) = IterStep(list, packed, x, e)
    <3>1. CASE x = 0
      BY <3>1 DEF IterStep
    <3>2. CASE x # 0
      <4>1. ASSUME NEW d \in Nat
            PROVE  f[x - IF x < 2^d * PerChunk(packed) THEN x ELSE 2^d * PerChunk(packed)]
                     = e[x - IF x < 2^d * PerChunk(packed) THEN x ELSE 2^d * PerChunk(packed)]
        <5>1. ASSUME NEW a \in Nat \ {0}, NEW b \in Nat \ {0} PROVE a * b \in Nat \ {0}
          OBVIOUS
        <5>2. 2^d * PerChunk(packed) \in Nat \ {0}
          BY <5>1, PowerOfTwo, PerChunkType
        <5>3. (x - IF x < 2^d * PerChunk(packed) THEN x ELSE 2^d * PerChunk(packed)) \in 0 .. x - 1
          BY <3>2, <5>2
        <5>4. QED
          BY <2>1, <5>3
      <4>2. QED
        BY <4>1 DEF IterStep
    <3>3. QED
      BY <3>1, <3>2
  <2>2. \A x, f : Step("iter", p, x, f) = IterStep(list, packed, x, f)
    BY DEF Step
  <2> HIDE DEF p
  <2>3. \A x \in Nat : \A f, g :
          (\A m \in 0 .. x - 1 : f[m] = g[m]) => Step("iter", p, x, f) = Step("iter", p, x, g)
    BY <2>1, <2>2
  <2>4. QED
    BY <2>3, RecursiveFunctionExists
<1>2. \E f : Rec(f)
  <2>1. \A x, f : Step("iter", p, x, f) = IterStep(list, packed, x, f)
    BY DEF Step
  <2>2. PICK f : f = [x \in Nat |-> Step("iter", p, x, f)]
    BY <1>1 DEF Satisfies
  <2>3. f = [x \in Nat |-> IterStep(list, packed, x, f)]
    <3> HIDE DEF p
    <3>1. QED
      BY <2>1, <2>2
  <2>4. QED
    BY <2>3 DEF IterStep
<1>3. Rec(iter)
  BY <1>2
<1>4. \A l, g, d : IterAt(list, packed, l, g, d) = iter[l][g][d]
  BY DEF IterAt
<1> HIDE DEF iter
<1>5. iter[left] =
        [g \in Nat |-> [d \in Nat |->
           LET width == 2^d * PerChunk(packed)
               m == IF left < width THEN left ELSE width
           IN IF left = 0 THEN IF Getter(list, g) = Zero(0) THEN <<>> ELSE <<Raised>>
              ELSE ReadonlyIter(Getter(list, 2 * g), d, m, packed)
                     \o iter[left - m][2 * g + 1][d + 2]]]
  BY <1>0, <1>3
<1>6. iter[left][gindex][depth] =
        IF left = 0 THEN IF Getter(list, gindex) = Zero(0) THEN <<>> ELSE <<Raised>>
        ELSE ReadonlyIter(Getter(list, 2 * gindex), depth, n, packed)
               \o iter[rest][next][deeper]
  BY <1>0, <1>5 DEF IterMoves
<1>7. /\ IterAt(list, packed, left, gindex, depth) = iter[left][gindex][depth]
      /\ IterAt(list, packed, rest, next, deeper) = iter[rest][next][deeper]
  BY <1>4
<1>8. QED
  BY <1>6, <1>7

\* The loop of to_gindex_progressive, from the subtree of depth on
DescendAt(chunk_i, gindex, depth) ==
  LET descend[c \in Nat] ==
        [g \in Nat |-> [d \in Nat |->
           IF c < 2^d
           THEN [gindex |-> g * 2^(1 + d) + c, depth |-> d, chunk_i |-> c]
           ELSE descend[c - 2^d][2 * g + 1][d + 2]]]
  IN descend[chunk_i][gindex][depth]

\* A chunk is in the subtree, or is looked for in the later ones.
LEMMA DescendAtDef ==
  ASSUME NEW c \in Nat, NEW gindex \in Nat, NEW depth \in Nat
  PROVE  DescendAt(c, gindex, depth) =
           IF c < 2^depth
           THEN [gindex |-> gindex * 2^(1 + depth) + c, depth |-> depth, chunk_i |-> c]
           ELSE DescendAt(c - 2^depth, 2 * gindex + 1, depth + 2)
<1> DEFINE Rec(f) ==
      f = [x \in Nat |->
             [g \in Nat |-> [d \in Nat |->
                IF x < 2^d
                THEN [gindex |-> g * 2^(1 + d) + x, depth |-> d, chunk_i |-> x]
                ELSE f[x - 2^d][2 * g + 1][d + 2]]]]
           descend == CHOOSE f : Rec(f)
<1>1. \E f : Satisfies(f, "descend", 0, Nat)
  <2>1. ASSUME NEW n \in Nat, NEW f, NEW e, \A m \in 0 .. n - 1 : f[m] = e[m]
        PROVE  Step("descend", 0, n, f) = Step("descend", 0, n, e)
    <3>1. ASSUME NEW d \in Nat, ~(n < 2^d) PROVE f[n - 2^d] = e[n - 2^d]
      <4>1. 2^d \in Nat \ {0}
        BY PowerOfTwo
      <4>2. n - 2^d \in 0 .. n - 1
        BY <3>1, <4>1
      <4>3. QED
        BY <2>1, <4>2
    <3>2. QED
      BY <3>1 DEF Step, DescendStep
  <2>2. QED
    BY <2>1, RecursiveFunctionExists
<1>2. \E f : Rec(f)
  BY <1>1 DEF Satisfies, Step, DescendStep
<1>3. Rec(descend)
  BY <1>2
<1>4. \A x, g, d : DescendAt(x, g, d) = descend[x][g][d]
  BY DEF DescendAt
<1> HIDE DEF descend
<1>5. descend[c] =
        [g \in Nat |-> [d \in Nat |->
           IF c < 2^d
           THEN [gindex |-> g * 2^(1 + d) + c, depth |-> d, chunk_i |-> c]
           ELSE descend[c - 2^d][2 * g + 1][d + 2]]]
  BY <1>3
<1>6. descend[c][gindex][depth] =
        IF c < 2^depth
        THEN [gindex |-> gindex * 2^(1 + depth) + c, depth |-> depth, chunk_i |-> c]
        ELSE descend[c - 2^depth][2 * gindex + 1][depth + 2]
  BY <1>5
<1>7. QED
  BY <1>4, <1>6

\* The gindex of the pair that holds the n-th subtree
SpineAt(n) ==
  LET target[m \in Nat] == IF m = 0 THEN 2 ELSE 2 * target[m - 1] + 1
  IN target[n]

\* The pair of the next subtree is on the right of the one before it.
LEMMA SpineAtDef ==
  ASSUME NEW n \in Nat
  PROVE  SpineAt(n) = IF n = 0 THEN 2 ELSE 2 * SpineAt(n - 1) + 1
<1> DEFINE Rec(f) == f = [m \in Nat |-> IF m = 0 THEN 2 ELSE 2 * f[m - 1] + 1]
           target == CHOOSE f : Rec(f)
<1>1. \E f : Satisfies(f, "spine", 0, Nat)
  <2>1. ASSUME NEW m \in Nat, NEW f, NEW e, \A l \in 0 .. m - 1 : f[l] = e[l]
        PROVE  Step("spine", 0, m, f) = Step("spine", 0, m, e)
    <3>1. m # 0 => f[m - 1] = e[m - 1]
      BY <2>1
    <3>2. QED
      BY <3>1 DEF Step, SpineStep
  <2>2. QED
    BY <2>1, RecursiveFunctionExists
<1>2. \E f : Rec(f)
  BY <1>1 DEF Satisfies, Step, SpineStep
<1>3. Rec(target)
  BY <1>2
<1>4. \A m : SpineAt(m) = target[m]
  BY DEF SpineAt
<1> HIDE DEF target
<1>5. QED
  BY <1>3, <1>4

\* The trees of an Optional are those of a value of its element type, or of none.
LEMMA NodesOfDef ==
  ASSUME NEW t \in Nat
  PROVE  NodesOf(t) = IF t = Uint8 THEN {UintNode(n) : n \in Numbers}
                      ELSE {NewOptional(v) : v \in {None} \cup NodesOf(ElementCls(t))}
<1> DEFINE Rec(f) ==
      f = [x \in Nat |-> IF x = Uint8 THEN {UintNode(n) : n \in Numbers}
                         ELSE {NewOptional(v) : v \in {None} \cup f[ElementCls(x)]}]
           nodes == CHOOSE f : Rec(f)
<1>1. \E f : Satisfies(f, "nodes", 0, Nat)
  <2>1. ASSUME NEW n \in Nat, NEW f, NEW e, \A m \in 0 .. n - 1 : f[m] = e[m]
        PROVE  Step("nodes", 0, n, f) = Step("nodes", 0, n, e)
    <3>1. n # Uint8 => f[ElementCls(n)] = e[ElementCls(n)]
      BY <2>1 DEF Uint8, ElementCls
    <3>2. QED
      BY <3>1 DEF Step, NodesStep
  <2>2. QED
    BY <2>1, RecursiveFunctionExists
<1>2. \E f : Rec(f)
  BY <1>1 DEF Satisfies, Step, NodesStep
<1>3. Rec(nodes)
  BY <1>2
<1>4. \A x : NodesOf(x) = nodes[x]
  BY DEF NodesOf
<1> HIDE DEF nodes
<1>5. QED
  BY <1>3, <1>4

\* The bytes of what is T - t Optionals deep in the node
BytesAt(T, node, t) ==
  LET bytes[x \in Nat] ==
        LET value == Getter(node, 2^(T - x))
        IN IF x = Uint8 THEN <<UintOf(value)>>
           ELSE IF Get(value) = None THEN <<>> ELSE <<1>> \o bytes[ElementCls(x)]
  IN bytes[t]

\* A value is written behind the byte that tells it from none.
LEMMA BytesAtDef ==
  ASSUME NEW T, NEW node, NEW t \in Nat
  PROVE  BytesAt(T, node, t) =
           LET value == Getter(node, 2^(T - t))
           IN IF t = Uint8 THEN <<UintOf(value)>>
              ELSE IF Get(value) = None THEN <<>> ELSE <<1>> \o BytesAt(T, node, ElementCls(t))
<1> DEFINE Rec(f) ==
      f = [x \in Nat |->
             LET value == Getter(node, 2^(T - x))
             IN IF x = Uint8 THEN <<UintOf(value)>>
                ELSE IF Get(value) = None THEN <<>> ELSE <<1>> \o f[ElementCls(x)]]
           bytes == CHOOSE f : Rec(f)
           p == <<T, node>>
<1>1. \E f : Satisfies(f, "bytes", p, Nat)
  <2> HIDE DEF p
  <2>1. ASSUME NEW n \in Nat, NEW f, NEW e, \A m \in 0 .. n - 1 : f[m] = e[m]
        PROVE  Step("bytes", p, n, f) = Step("bytes", p, n, e)
    <3>1. n # Uint8 => f[ElementCls(n)] = e[ElementCls(n)]
      BY <2>1 DEF Uint8, ElementCls
    <3>2. QED
      BY <3>1 DEF Step, BytesStep
  <2>2. QED
    BY <2>1, RecursiveFunctionExists
<1>2. \E f : Rec(f)
  BY <1>1 DEF Satisfies, Step, BytesStep
<1>3. Rec(bytes)
  BY <1>2
<1>4. \A x : BytesAt(T, node, x) = bytes[x]
  BY DEF BytesAt
<1> HIDE DEF bytes
<1>5. QED
  BY <1>3, <1>4

\* What is read of the type t, after T - t bytes
ReadAt(T, bytes, t) ==
  LET read[x \in Nat] ==
        LET scope == Len(bytes) - (T - x)
            value == read[ElementCls(x)]
        IN IF x = Uint8 THEN IF scope = 1 THEN UintNode(bytes[T + 1]) ELSE Raised
           ELSE IF scope = 0 THEN NewOptional(None)
           ELSE IF bytes[T - x + 1] = 1 /\ value # Raised THEN NewOptional(value) ELSE Raised
  IN read[t]

\* A value is read behind the byte that tells it from none.
LEMMA ReadAtDef ==
  ASSUME NEW T, NEW bytes, NEW t \in Nat
  PROVE  ReadAt(T, bytes, t) =
           LET scope == Len(bytes) - (T - t)
               value == ReadAt(T, bytes, ElementCls(t))
           IN IF t = Uint8 THEN IF scope = 1 THEN UintNode(bytes[T + 1]) ELSE Raised
              ELSE IF scope = 0 THEN NewOptional(None)
              ELSE IF bytes[T - t + 1] = 1 /\ value # Raised THEN NewOptional(value) ELSE Raised
<1> DEFINE Rec(f) ==
      f = [x \in Nat |->
             LET scope == Len(bytes) - (T - x)
                 value == f[ElementCls(x)]
             IN IF x = Uint8 THEN IF scope = 1 THEN UintNode(bytes[T + 1]) ELSE Raised
                ELSE IF scope = 0 THEN NewOptional(None)
                ELSE IF bytes[T - x + 1] = 1 /\ value # Raised THEN NewOptional(value)
                     ELSE Raised]
           read == CHOOSE f : Rec(f)
           p == <<T, bytes>>
<1>1. \E f : Satisfies(f, "read", p, Nat)
  <2> HIDE DEF p
  <2>1. ASSUME NEW n \in Nat, NEW f, NEW e, \A m \in 0 .. n - 1 : f[m] = e[m]
        PROVE  Step("read", p, n, f) = Step("read", p, n, e)
    <3>1. n # Uint8 => f[ElementCls(n)] = e[ElementCls(n)]
      BY <2>1 DEF Uint8, ElementCls
    <3>2. QED
      BY <3>1 DEF Step, ReadStep
  <2>2. QED
    BY <2>1, RecursiveFunctionExists
<1>2. \E f : Rec(f)
  BY <1>1 DEF Satisfies, Step, ReadStep
<1>3. Rec(read)
  BY <1>2
<1>4. \A x : ReadAt(T, bytes, x) = read[x]
  BY DEF ReadAt
<1> HIDE DEF read
<1>5. read[t] =
        LET scope == Len(bytes) - (T - t)
            value == read[ElementCls(t)]
        IN IF t = Uint8 THEN IF scope = 1 THEN UintNode(bytes[T + 1]) ELSE Raised
           ELSE IF scope = 0 THEN NewOptional(None)
           ELSE IF bytes[T - t + 1] = 1 /\ value # Raised THEN NewOptional(value) ELSE Raised
  BY <1>3
<1>6. QED
  BY <1>4, <1>5

\* The greatest number of bytes of a type
LEMMA MaxByteLengthDef ==
  ASSUME NEW t \in Nat
  PROVE  MaxByteLength(t) = IF t = Uint8 THEN 1 ELSE 1 + MaxByteLength(ElementCls(t))
<1> DEFINE Rec(f) == f = [x \in Nat |-> IF x = Uint8 THEN 1 ELSE 1 + f[ElementCls(x)]]
           max == CHOOSE f : Rec(f)
<1>1. \E f : Satisfies(f, "max", 0, Nat)
  <2>1. ASSUME NEW n \in Nat, NEW f, NEW e, \A m \in 0 .. n - 1 : f[m] = e[m]
        PROVE  Step("max", 0, n, f) = Step("max", 0, n, e)
    <3>1. n # Uint8 => f[ElementCls(n)] = e[ElementCls(n)]
      BY <2>1 DEF Uint8, ElementCls
    <3>2. QED
      BY <3>1 DEF Step, MaxStep
  <2>2. QED
    BY <2>1, RecursiveFunctionExists
<1>2. \E f : Rec(f)
  BY <1>1 DEF Satisfies, Step, MaxStep
<1>3. Rec(max)
  BY <1>2
<1>4. \A x : MaxByteLength(x) = max[x]
  BY DEF MaxByteLength
<1> HIDE DEF max
<1>5. QED
  BY <1>3, <1>4

-----------------------------------------------------------------------------
(***************************************************************************)
(* Generalized indexes                                                     *)
(***************************************************************************)

\* The first powers, and each from the one before it
LEMMA PowerFacts ==
  /\ \A n \in Nat : 2^n \in Nat \ {0} /\ 2^(n + 1) = 2 * 2^n
  /\ 2^0 = 1 /\ 2^1 = 2
<1>1. 2^0 = 1 /\ 0 + 1 = 1
  OBVIOUS
<1>2. 2^(0 + 1) = 2 * 2^0
  BY PowerOfTwo
<1>3. QED
  BY <1>1, <1>2, PowerOfTwo

\* A power exceeds its exponent.
LEMMA PowerAbove ==
  \A n \in Nat : n < 2^n
<1> DEFINE I == {n \in Nat : n < 2^n}
<1>1. 0 \in I
  BY PowerFacts
<1>2. ASSUME NEW n \in Nat, n \in I PROVE n + 1 \in I
  <2>1. n < 2^n /\ 2^n \in Nat /\ 2^(n + 1) = 2 * 2^n
    BY <1>2, PowerFacts
  <2>2. QED
    BY <2>1
<1>3. \A n \in Nat : n \in I
  <2> HIDE DEF I
  <2>1. QED
    BY <1>1, <1>2, SimpleInduction
<1>4. QED
  BY <1>3

\* Powers grow with their exponents.
LEMMA PowerMonotone ==
  \A b \in Nat : \A a \in 0 .. b : 2^a <= 2^b
<1> DEFINE I == {b \in Nat : \A a \in 0 .. b : 2^a <= 2^b}
<1>1. 0 \in I
  <2>1. \A a \in 0 .. 0 : a = 0 /\ 2^0 <= 2^0
    BY PowerFacts
  <2>2. QED
    BY <2>1
<1>2. ASSUME NEW b \in Nat, b \in I PROVE b + 1 \in I
  <2>1. ASSUME NEW a \in 0 .. b + 1 PROVE 2^a <= 2^(b + 1)
    <3>1. CASE a = b + 1
      <4>1. 2^(b + 1) \in Nat
        BY PowerFacts
      <4>2. QED
        BY <3>1, <4>1
    <3>2. CASE a # b + 1
      <4>1. a \in 0 .. b
        BY <3>2
      <4>2. 2^a <= 2^b
        BY <1>2, <4>1
      <4>3. 2^a \in Nat /\ 2^b \in Nat /\ 2^(b + 1) = 2 * 2^b
        BY PowerFacts
      <4>4. QED
        BY <4>2, <4>3
    <3>3. QED
      BY <3>1, <3>2
  <2>2. QED
    BY <2>1
<1>3. \A b \in Nat : b \in I
  <2> HIDE DEF I
  <2>1. QED
    BY <1>1, <1>2, SimpleInduction
<1>4. QED
  BY <1>3

\* The power of a sum is the product of the powers.
LEMMA PowerSum ==
  \A a, b \in Nat : 2^(a + b) = 2^a * 2^b
<1> SUFFICES ASSUME NEW a \in Nat PROVE \A b \in Nat : 2^(a + b) = 2^a * 2^b
  OBVIOUS
<1> DEFINE I == {b \in Nat : 2^(a + b) = 2^a * 2^b}
<1>1. 0 \in I
  <2>1. a + 0 = a /\ 2^a \in Nat
    BY PowerFacts
  <2>2. QED
    BY <2>1, PowerFacts
<1>2. ASSUME NEW b \in Nat, b \in I PROVE b + 1 \in I
  <2>1. a + (b + 1) = (a + b) + 1 /\ a + b \in Nat
    OBVIOUS
  <2>2. 2^(a + (b + 1)) = 2 * 2^(a + b) /\ 2^(b + 1) = 2 * 2^b /\ 2^(a + b) = 2^a * 2^b
    BY <1>2, <2>1, PowerFacts
  <2>3. ASSUME NEW x \in Nat, NEW y \in Nat PROVE 2 * (x * y) = x * (2 * y)
    OBVIOUS
  <2>4. 2^a \in Nat /\ 2^b \in Nat
    BY PowerFacts
  <2>5. 2 * (2^a * 2^b) = 2^a * (2 * 2^b)
    BY <2>3, <2>4
  <2>6. QED
    BY <2>2, <2>5
<1>3. \A b \in Nat : b \in I
  <2> HIDE DEF I
  <2>1. QED
    BY <1>1, <1>2, SimpleInduction
<1>4. QED
  BY <1>3

\* The depth is determined by the powers around the gindex.
LEMMA DepthOfIs ==
  ASSUME NEW d \in Nat, NEW g \in Nat, 2^d <= g, g < 2^(d + 1)
  PROVE  DepthOf(g) = d
<1>1. d \in 0 .. g
  BY PowerAbove, PowerFacts
<1>2. ASSUME NEW e \in Nat, 2^e <= g, g < 2^(e + 1) PROVE e = d
  <2>1. CASE e < d
    <3>1. e + 1 \in 0 .. d
      BY <2>1
    <3>2. 2^(e + 1) <= 2^d
      BY <3>1, PowerMonotone
    <3>3. 2^(e + 1) \in Nat /\ 2^d \in Nat
      BY PowerFacts
    <3>4. QED
      BY <1>2, <3>2, <3>3
  <2>2. CASE d < e
    <3>1. d + 1 \in 0 .. e
      BY <2>2
    <3>2. 2^(d + 1) <= 2^e
      BY <3>1, PowerMonotone
    <3>3. 2^(d + 1) \in Nat /\ 2^e \in Nat
      BY PowerFacts
    <3>4. QED
      BY <1>2, <3>2, <3>3
  <2>3. QED
    BY <2>1, <2>2
<1>3. \A e \in 0 .. g : 2^e <= g /\ g < 2^(e + 1) => e = d
  BY <1>2
<1>4. QED
  BY <1>1, <1>3 DEF DepthOf

\* Every gindex is between two powers.
\* A child is one level deeper than its parent.
\* A child has its parent and its side.
LEMMA Parent ==
  ASSUME NEW p \in Nat, NEW b \in {0, 1}
  PROVE  (2 * p + b) \div 2 = p /\ (2 * p + b) % 2 = b
BY DivisionUnique

\* The ancestors of a child are its parent and the parent's.
\* Below the node at p, the node at 2^m + y is that at p * 2^m + y of the tree.
LEMMA Below ==
  ASSUME NEW p \in Nat \ {0}, NEW m \in Nat, NEW y \in 0 .. 2^(m + 1) - 1
  PROVE  \E h \in 0 .. 2^m - 1, b \in {0, 1} :
           /\ y = 2 * h + b
           /\ p * 2^(m + 1) + y = 2 * (p * 2^m + h) + b
           /\ p * 2^m + h \in Nat \ {0}
<1> DEFINE h == y \div 2
           b == y % 2
<1>1. 2^m \in Nat \ {0} /\ 2^(m + 1) = 2 * 2^m
  BY PowerFacts
<1>2. y = 2 * h + b /\ h \in Nat /\ b \in {0, 1}
  BY <1>1
<1> HIDE DEF h, b
<1>3. h \in 0 .. 2^m - 1
  BY <1>1, <1>2
<1>4. ASSUME NEW w \in Nat \ {0}
      PROVE  p * w + h \in Nat \ {0} /\ p * (2 * w) + y = 2 * (p * w + h) + b
  <2>1. p * w \in Nat /\ p * w # 0 /\ p * (2 * w) = 2 * (p * w)
    OBVIOUS
  <2>2. QED
    BY <1>2, <2>1
<1>5. p * 2^m + h \in Nat \ {0} /\ p * (2 * 2^m) + y = 2 * (p * 2^m + h) + b
  BY <1>1, <1>4
<1>6. QED
  BY <1>1, <1>2, <1>3, <1>5

-----------------------------------------------------------------------------
(***************************************************************************)
(* Reading and writing a tree at an index                                  *)
(***************************************************************************)

\* A pair has its two children, and what is no pair has none.
LEMMA PairFacts ==
  /\ \A l, r : IsPair(PairNode(l, r)) /\ PairNode(l, r).left = l /\ PairNode(l, r).right = r
  /\ \A d : ~IsPair(Zero(d)) /\ "root" \notin DOMAIN Zero(d) /\ "zero" \in DOMAIN Zero(d)
            /\ Zero(d).zero = d
  /\ ~IsPair(Raised)
BY DEF IsPair, PairNode, Zero, Raised

\* The node itself, and the children of a node in it
LEMMA GetterFacts ==
  ASSUME NEW node
  PROVE  /\ Getter(node, 1) = node
         /\ \A p \in Nat \ {0} : /\ Getter(node, 2 * p) = Child(Getter(node, p), "left")
                                 /\ Getter(node, 2 * p + 1) = Child(Getter(node, p), "right")
<1>1. Getter(node, 1) = node
  BY GetterDef
<1>2. ASSUME NEW p \in Nat \ {0}
      PROVE  /\ Getter(node, 2 * p) = Child(Getter(node, p), "left")
             /\ Getter(node, 2 * p + 1) = Child(Getter(node, p), "right")
  <2>1. ASSUME NEW b \in {0, 1}, NEW g, g = 2 * p + b
        PROVE  Getter(node, g) = Child(Getter(node, p), IF b = 0 THEN "left" ELSE "right")
    <3>1. g \in Nat /\ ~(g <= 1) /\ g \div 2 = p /\ g % 2 = b
      BY <2>1, Parent
    <3>2. Getter(node, g) = Child(Getter(node, g \div 2), IF g % 2 = 0 THEN "left" ELSE "right")
      BY <3>1, GetterDef
    <3>3. QED
      BY <3>1, <3>2
  <2>2. 2 * p = 2 * p + 0
    OBVIOUS
  <2>3. QED
    BY <2>1, <2>2
<1>3. QED
  BY <1>1, <1>2

\* The same for a side that is given as a number
LEMMA GetterChild ==
  ASSUME NEW node, NEW p \in Nat \ {0}, NEW b \in {0, 1}
  PROVE  Getter(node, 2 * p + b) = Child(Getter(node, p), IF b = 0 THEN "left" ELSE "right")
<1>1. 2 * p + 0 = 2 * p
  OBVIOUS
<1>2. /\ Getter(node, 2 * p) = Child(Getter(node, p), "left")
      /\ Getter(node, 2 * p + 1) = Child(Getter(node, p), "right")
  BY GetterFacts
<1>3. QED
  BY <1>1, <1>2

\* Reading below a node
LEMMA GetBelow ==
  ASSUME NEW node, NEW p \in Nat \ {0}, NEW m \in Nat, NEW y \in 0 .. 2^m - 1
  PROVE  Getter(node, p * 2^m + y) = Getter(Getter(node, p), 2^m + y)
<1> DEFINE I == {n \in Nat : \A z \in 0 .. 2^n - 1 :
                   Getter(node, p * 2^n + z) = Getter(Getter(node, p), 2^n + z)}
<1>1. 0 \in I
  <2>1. ASSUME NEW z \in 0 .. 2^0 - 1
        PROVE  Getter(node, p * 2^0 + z) = Getter(Getter(node, p), 2^0 + z)
    <3>1. z = 0 /\ p * 2^0 + z = p /\ 2^0 + z = 1
      BY PowerFacts
    <3>2. QED
      BY <3>1, GetterFacts
  <2>2. QED
    BY <2>1
<1>2. ASSUME NEW n \in Nat, n \in I PROVE n + 1 \in I
  <2>1. ASSUME NEW z \in 0 .. 2^(n + 1) - 1
        PROVE  Getter(node, p * 2^(n + 1) + z) = Getter(Getter(node, p), 2^(n + 1) + z)
    <3>1. PICK h \in 0 .. 2^n - 1, b \in {0, 1} :
             /\ z = 2 * h + b
             /\ p * 2^(n + 1) + z = 2 * (p * 2^n + h) + b
             /\ p * 2^n + h \in Nat \ {0}
      BY Below
    <3>2. 2^(n + 1) = 2 * 2^n /\ 2^n \in Nat \ {0}
      BY PowerFacts
    <3>3. 2^(n + 1) + z = 2 * (2^n + h) + b /\ 2^n + h \in Nat \ {0}
      BY <3>1, <3>2
    <3>4. Getter(node, p * 2^n + h) = Getter(Getter(node, p), 2^n + h)
      BY <1>2
    <3>5. ASSUME NEW q \in Nat \ {0}, NEW s \in Nat \ {0}, NEW sub,
                 Getter(node, q) = Getter(sub, s)
          PROVE  Getter(node, 2 * q + b) = Getter(sub, 2 * s + b)
      <4>1. Getter(node, 2 * q + b) = Child(Getter(node, q), IF b = 0 THEN "left" ELSE "right")
        BY GetterChild
      <4>2. Getter(sub, 2 * s + b) = Child(Getter(sub, s), IF b = 0 THEN "left" ELSE "right")
        BY GetterChild
      <4>3. QED
        BY <3>5, <4>1, <4>2
    <3>6. Getter(node, 2 * (p * 2^n + h) + b) = Getter(Getter(node, p), 2 * (2^n + h) + b)
      BY <3>1, <3>3, <3>4, <3>5
    <3>7. QED
      BY <3>1, <3>3, <3>6
  <2>2. QED
    BY <2>1
<1>3. \A n \in Nat : n \in I
  <2> HIDE DEF I
  <2>1. QED
    BY <1>1, <1>2, SimpleInduction
<1>4. QED
  BY <1>3

\* Below what is no pair there is none.
LEMMA GetterNone ==
  ASSUME NEW node, ~IsPair(node)
  PROVE  \A g \in Nat \ {0} : ~IsPair(Getter(node, g))
<1> DEFINE I == {g \in Nat : g # 0 => ~IsPair(Getter(node, g))}
<1>1. ASSUME NEW g \in Nat, \A m \in 0 .. g - 1 : m \in I PROVE g \in I
  <2>1. CASE g <= 1
    <3>1. Getter(node, g) = node
      BY <2>1, GetterDef
    <3>2. QED
      BY <3>1
  <2>2. CASE g > 1
    <3>1. g \div 2 \in 0 .. g - 1 /\ g \div 2 # 0
      BY <2>2
    <3>2. ~IsPair(Getter(node, g \div 2))
      BY <1>1, <3>1
    <3>3. Getter(node, g) = Raised
      BY <2>2, <3>2, GetterDef DEF Child
    <3>4. QED
      BY <3>3, PairFacts
  <2>3. QED
    BY <2>1, <2>2
<1>2. \A g \in Nat : g \in I
  <2> HIDE DEF I
  <2>1. QED
    BY <1>1, StrongInduction
<1>3. QED
  BY <1>2

\* The upper digits of a number
LEMMA Digits ==
  ASSUME NEW q \in Nat, NEW a \in Nat, NEW k \in 0 .. a, NEW y \in 0 .. 2^a - 1
  PROVE  /\ y \div 2^k \in 0 .. 2^(a - k) - 1
         /\ (q * 2^a + y) \div 2^k = q * 2^(a - k) + y \div 2^k
<1> DEFINE w == 2^k
           u == 2^(a - k)
           h == y \div w
           r == y % w
<1>1. w \in Nat \ {0} /\ u \in Nat \ {0} /\ 2^a = u * w
  <2>1. a - k \in Nat /\ k \in Nat /\ (a - k) + k = a
    OBVIOUS
  <2>2. 2^((a - k) + k) = 2^(a - k) * 2^k
    BY <2>1, PowerSum
  <2>3. QED
    BY <2>1, <2>2, PowerFacts
<1>2. y \in Nat /\ y < 2^a
  BY <1>1
<1> HIDE DEF w, u
<1>3. y = w * h + r /\ h \in Nat /\ r \in 0 .. w - 1
  BY <1>1, <1>2
<1> HIDE DEF h, r
<1>4. ASSUME h >= u PROVE FALSE
  <2>1. w * h >= w * u
    <3>1. h - u \in Nat
      BY <1>1, <1>3, <1>4
    <3>2. w * (h - u) \in Nat /\ w * (h - u) = w * h - w * u
      BY <1>1, <1>3, <3>1
    <3>3. w * h \in Nat /\ w * u \in Nat
      BY <1>1, <1>3
    <3>4. QED
      BY <3>2, <3>3
  <2>2. w * u = u * w /\ w * h \in Nat /\ w * u \in Nat
    BY <1>1, <1>3
  <2>3. QED
    BY <1>1, <1>2, <1>3, <2>1, <2>2
<1>5. q * (u * w) + y = w * (q * u + h) + r /\ q * u + h \in Nat /\ q * (u * w) + y \in Nat
  <2>1. q * (u * w) = w * (q * u) /\ q * u \in Nat /\ w * (q * u) \in Nat
    BY <1>1
  <2>2. w * (q * u + h) = w * (q * u) + w * h
    BY <1>1, <1>3, <2>1
  <2>3. q * u + h \in Nat
    BY <1>3, <2>1
  <2>4. w * h \in Nat
    BY <1>1, <1>3
  <2> DEFINE x == w * (q * u)
             z == w * h
  <2>5. x \in Nat /\ z \in Nat /\ q * (u * w) = x /\ w * (q * u + h) = x + z /\ y = z + r
    BY <1>3, <2>1, <2>2, <2>4
  <2> HIDE DEF x, z
  <2>6. QED
    BY <1>2, <2>3, <2>5, <1>3
<1>6. (q * (u * w) + y) \div w = q * u + h
  BY <1>1, <1>3, <1>5, DivisionUnique
<1>7. h \in 0 .. u - 1
  BY <1>1, <1>3, <1>4
<1>8. QED
  BY <1>1, <1>6, <1>7 DEF w, u, h

\* The place in a tree of what its half on side b has at ToGindex(y, a)
HalfGindex(b, a, y) == (2 + b) * 2^a + y

\* The halves that the tree, with a levels below them, has when a node is set
Opens(node, a, expand, l, r) ==
  \/ node = PairNode(l, r)
  \/ ~IsPair(node) /\ expand /\ l = Zero(a) /\ r = Zero(a)

\* A tree of which a node of the half on side b is set: the other half stays.
\* What is expanded gets two halves of zeros.
LEMMA SetBelow ==
  ASSUME NEW node, NEW l, NEW r, NEW new, NEW expand,
         NEW a \in Nat, NEW y \in 0 .. 2^a - 1, Opens(node, a, expand, l, r)
  PROVE  /\ Setter(node, HalfGindex(0, a, y), new, expand)
              = PairNode(Setter(l, ToGindex(y, a), new, expand), r)
         /\ Setter(node, HalfGindex(1, a, y), new, expand)
              = PairNode(l, Setter(r, ToGindex(y, a), new, expand))
<1> SUFFICES ASSUME NEW b \in {0, 1}
             PROVE  Setter(node, HalfGindex(b, a, y), new, expand) =
                      IF b = 0 THEN PairNode(Setter(l, ToGindex(y, a), new, expand), r)
                      ELSE PairNode(l, Setter(r, ToGindex(y, a), new, expand))
  OBVIOUS
<1> DEFINE pair == IF IsPair(node) THEN node ELSE PairNode(Zero(a), Zero(a))
           half == IF b = 0 THEN pair.left ELSE pair.right
           g == (2 + b) * 2^a + y
           s == 2^a + y
<1>0. pair.left = l /\ pair.right = r /\ (IsPair(node) \/ expand)
  BY PairFacts DEF Opens
<1>1. 2^a \in Nat \ {0} /\ 2^(a + 1) = 2 * 2^a /\ 2^(a + 1 + 1) = 2 * 2^(a + 1)
  BY PowerFacts
<1>2. g = IF b = 0 THEN 2 * 2^a + y ELSE 3 * 2^a + y
  OBVIOUS
<1>3. g \in Nat \ {0} /\ s \in Nat \ {0} /\ y \in Nat /\ g = 2^(a + 1) + (b * 2^a + y)
  BY <1>1, <1>2
<1>4. DepthOf(g) = a + 1 /\ DepthOf(s) = a
  <2>1. 2^(a + 1) <= g /\ g < 2^(a + 1 + 1)
    BY <1>1, <1>2
  <2>2. 2^a <= s /\ s < 2^(a + 1)
    BY <1>1
  <2>3. QED
    BY <1>3, <2>1, <2>2, DepthOfIs
<1>5. ASSUME NEW k \in 0 .. a
      PROVE  /\ y \div 2^k \in 0 .. 2^(a - k) - 1
             /\ g \div 2^k = (2 + b) * 2^(a - k) + y \div 2^k
             /\ s \div 2^k = 2^(a - k) + y \div 2^k
  <2>1. 2 + b \in Nat /\ 1 \in Nat /\ 1 * 2^a = 2^a /\ 2^(a - k) \in Nat
    BY PowerFacts
  <2>2. y \div 2^k \in 0 .. 2^(a - k) - 1 /\ g \div 2^k = (2 + b) * 2^(a - k) + y \div 2^k
    BY <2>1, Digits
  <2>3. (1 * 2^a + y) \div 2^k = 1 * 2^(a - k) + y \div 2^k
    BY <2>1, Digits
  <2>4. QED
    BY <2>1, <2>2, <2>3
<1>6. IF IsPair(node) THEN Getter(node, 2 + b) = half
      ELSE ~IsPair(Getter(node, 2 + b)) /\ ~IsPair(half)
  <2>1. 2 * 1 + b = 2 + b /\ 1 \in Nat \ {0} /\ Getter(node, 1) = node
    BY GetterFacts
  <2>2. Getter(node, 2 + b) = Child(node, IF b = 0 THEN "left" ELSE "right")
    BY <2>1, GetterChild
  <2>3. QED
    BY <2>2, PairFacts DEF Child
<1> HIDE DEF g, s, pair, half
\* Below its root the tree has the pairs of its half.
<1>7. ASSUME NEW k \in 0 .. a - 1
      PROVE  \A below : Above(g, k, Getter(node, g \div 2^(k + 1)), below, expand)
                          = Above(s, k, Getter(half, s \div 2^(k + 1)), below, expand)
  <2> DEFINE m == a - (k + 1)
             z == y \div 2^(k + 1)
  <2>1. m \in Nat /\ k + 1 \in 0 .. a /\ m + 1 = a - k
    OBVIOUS
  <2>2. z \in 0 .. 2^m - 1 /\ g \div 2^(k + 1) = (2 + b) * 2^m + z /\ s \div 2^(k + 1) = 2^m + z
    BY <1>5, <2>1
  <2>3. (g \div 2^k) % 2 = (s \div 2^k) % 2
    <3> DEFINE x == y \div 2^k
    <3>1. x \in Nat /\ g \div 2^k = (2 + b) * 2^(m + 1) + x /\ s \div 2^k = 2^(m + 1) + x
      <4>1. k \in 0 .. a
        OBVIOUS
      <4>2. 2^(a - k) \in Nat
        BY <2>1, PowerFacts
      <4>3. QED
        BY <1>5, <2>1, <4>1, <4>2
    <3>2. 2^(m + 1) = 2 * 2^m /\ 2^m \in Nat
      BY <2>1, PowerFacts
    <3> HIDE DEF x, m
    <3>3. b = 0 \/ b = 1
      OBVIOUS
    <3>4. CASE b = 0
      BY <3>1, <3>2, <3>4
    <3>5. CASE b = 1
      BY <3>1, <3>2, <3>5
    <3>6. QED
      BY <3>3, <3>4, <3>5
  <2>4. 2^m + z \in Nat \ {0} /\ 2 + b \in Nat \ {0}
    <3>1. 2^m \in Nat \ {0}
      BY <2>1, PowerFacts
    <3>2. QED
      BY <2>2, <3>1
  <2> HIDE DEF m, z
  <2>5. Getter(node, g \div 2^(k + 1)) = Getter(Getter(node, 2 + b), s \div 2^(k + 1))
    BY <2>1, <2>2, <2>4, GetBelow
  <2>6. CASE IsPair(node)
    BY <1>6, <2>3, <2>5, <2>6 DEF Above
  <2>7. CASE ~IsPair(node)
    <3>1. ~IsPair(Getter(node, g \div 2^(k + 1))) /\ ~IsPair(Getter(half, s \div 2^(k + 1)))
      BY <1>6, <2>2, <2>4, <2>5, <2>7, GetterNone
    <3>2. QED
      BY <2>3, <3>1 DEF Above
  <2>8. QED
    BY <2>6, <2>7
<1>8. \A k \in Nat : k <= a => SetAbove(node, g, new, expand, k) = SetAbove(half, s, new, expand, k)
  <2> DEFINE I == {k \in Nat : k <= a => SetAbove(node, g, new, expand, k)
                                           = SetAbove(half, s, new, expand, k)}
  <2>1. 0 \in I
    BY SetAboveDef
  <2>2. ASSUME NEW k \in Nat, k \in I PROVE k + 1 \in I
    <3>1. SUFFICES ASSUME k + 1 <= a
                   PROVE  SetAbove(node, g, new, expand, k + 1)
                            = SetAbove(half, s, new, expand, k + 1)
      OBVIOUS
    <3>2. k \in 0 .. a - 1 /\ k <= a
      BY <3>1
    <3>3. SetAbove(node, g, new, expand, k) = SetAbove(half, s, new, expand, k)
      BY <2>2, <3>2
    <3>4. /\ SetAbove(node, g, new, expand, k + 1)
               = Above(g, k, Getter(node, g \div 2^(k + 1)),
                       SetAbove(node, g, new, expand, k), expand)
          /\ SetAbove(half, s, new, expand, k + 1)
               = Above(s, k, Getter(half, s \div 2^(k + 1)),
                       SetAbove(half, s, new, expand, k), expand)
      BY SetAboveDef
    <3>5. QED
      BY <1>7, <3>2, <3>3, <3>4
  <2>3. \A k \in Nat : k \in I
    <3> HIDE DEF I
    <3>1. QED
      BY <2>1, <2>2, SimpleInduction
  <2>4. QED
    BY <2>3
<1>9. Setter(node, g, new, expand)
        = Above(g, a, node, Setter(half, s, new, expand), expand)
  <2>1. g \div 2^(a + 1) = 1
    <3>1. b * 2^a + y \in 0 .. 2^(a + 1) - 1
      <4>1. b = 0 \/ b = 1
        OBVIOUS
      <4>2. CASE b = 0
        BY <1>1, <1>3, <4>2
      <4>3. CASE b = 1
        BY <1>1, <1>3, <4>3
      <4>4. QED
        BY <4>1, <4>2, <4>3
    <3>2. g = 2^(a + 1) * 1 + (b * 2^a + y) /\ 2^(a + 1) \in Nat \ {0}
      BY <1>1, <1>3
    <3>3. QED
      BY <1>3, <3>1, <3>2, DivisionUnique
  <2>2. Setter(node, g, new, expand) = SetAbove(node, g, new, expand, a + 1)
    BY <1>4, SetterAbove
  <2>3. Setter(half, s, new, expand) = SetAbove(half, s, new, expand, a)
    BY <1>4, SetterAbove
  <2>4. SetAbove(node, g, new, expand, a) = SetAbove(half, s, new, expand, a)
    BY <1>8
  <2>5. SetAbove(node, g, new, expand, a + 1)
          = Above(g, a, Getter(node, g \div 2^(a + 1)), SetAbove(node, g, new, expand, a), expand)
    BY SetAboveDef
  <2>6. Getter(node, 1) = node
    BY GetterFacts
  <2>7. QED
    BY <2>1, <2>2, <2>3, <2>4, <2>5, <2>6
<1>10. (g \div 2^a) % 2 = b
  <2>1. a \in 0 .. a /\ a - a = 0
    OBVIOUS
  <2>2. y \div 2^a \in 0 .. 2^0 - 1 /\ g \div 2^a = (2 + b) * 2^0 + y \div 2^a
    BY <1>5, <2>1
  <2>3. g \div 2^a = 2 + b
    BY <2>2, PowerFacts
  <2>4. QED
    BY <2>3
<1>11. Setter(node, g, new, expand) =
         IF b = 0 THEN PairNode(Setter(half, s, new, expand), pair.right)
         ELSE PairNode(pair.left, Setter(half, s, new, expand))
  BY <1>0, <1>9, <1>10 DEF Above, pair
<1>12. QED
  BY <1>0, <1>11 DEF g, s, half, HalfGindex, ToGindex

\* Setting the root gives the new node.
LEMMA SetRoot ==
  ASSUME NEW node, NEW new, NEW expand
  PROVE  Setter(node, 1, new, expand) = new
<1>1. 0 \in Nat /\ 1 \in Nat /\ 2^0 <= 1 /\ 1 < 2^(0 + 1)
  BY PowerFacts
<1>2. DepthOf(1) = 0
  BY <1>1, DepthOfIs
<1>3. QED
  BY <1>2, SetterAbove, SetAboveDef

\* A node of a half of a pair
LEMMA GetPair ==
  ASSUME NEW l, NEW r, NEW m \in Nat, NEW y \in 0 .. 2^m - 1
  PROVE  /\ Getter(PairNode(l, r), HalfGindex(0, m, y)) = Getter(l, ToGindex(y, m))
         /\ Getter(PairNode(l, r), HalfGindex(1, m, y)) = Getter(r, ToGindex(y, m))
<1> DEFINE node == PairNode(l, r)
<1>1. Getter(node, 2) = l /\ Getter(node, 3) = r
  <2>1. 2 = 2 * 1 /\ 3 = 2 * 1 + 1 /\ 1 \in Nat \ {0}
    OBVIOUS
  <2>2. Getter(node, 1) = node
    BY GetterFacts
  <2>3. Getter(node, 2) = Child(node, "left") /\ Getter(node, 3) = Child(node, "right")
    BY <2>1, <2>2, GetterFacts
  <2>4. QED
    BY <2>3, PairFacts DEF Child
<1> HIDE DEF node
<1>2. ASSUME NEW p \in Nat \ {0} PROVE Getter(node, p * 2^m + y) = Getter(Getter(node, p), 2^m + y)
  BY GetBelow
<1>3. 2 \in Nat \ {0} /\ 3 \in Nat \ {0} /\ 2 + 0 = 2 /\ 2 + 1 = 3
  OBVIOUS
<1>4. Getter(node, 2 * 2^m + y) = Getter(Getter(node, 2), 2^m + y)
  BY <1>2, <1>3
<1>5. Getter(node, 3 * 2^m + y) = Getter(Getter(node, 3), 2^m + y)
  BY <1>2, <1>3
<1>6. QED
  BY <1>1, <1>3, <1>4, <1>5 DEF node, HalfGindex, ToGindex

\* A node of the left half is set.
LEMMA SetLeft ==
  ASSUME NEW node, NEW l, NEW r, NEW new, NEW expand,
         NEW m \in Nat, NEW y \in 0 .. 2^m - 1, Opens(node, m, expand, l, r)
  PROVE  Setter(node, HalfGindex(0, m, y), new, expand)
           = PairNode(Setter(l, ToGindex(y, m), new, expand), r)
BY SetBelow

\* A node of the right half is set.
LEMMA SetRight ==
  ASSUME NEW node, NEW l, NEW r, NEW new, NEW expand,
         NEW m \in Nat, NEW y \in 0 .. 2^m - 1, Opens(node, m, expand, l, r)
  PROVE  Setter(node, HalfGindex(1, m, y), new, expand)
           = PairNode(l, Setter(r, ToGindex(y, m), new, expand))
<1>1. /\ Setter(node, HalfGindex(0, m, y), new, expand)
           = PairNode(Setter(l, ToGindex(y, m), new, expand), r)
      /\ Setter(node, HalfGindex(1, m, y), new, expand)
           = PairNode(l, Setter(r, ToGindex(y, m), new, expand))
  BY SetBelow
<1>2. QED
  BY <1>1

\* A node of a half of a pair is set.
LEMMA SetPair ==
  ASSUME NEW l, NEW r, NEW new, NEW expand, NEW m \in Nat, NEW y \in 0 .. 2^m - 1
  PROVE  /\ Setter(PairNode(l, r), HalfGindex(0, m, y), new, expand)
              = PairNode(Setter(l, ToGindex(y, m), new, expand), r)
         /\ Setter(PairNode(l, r), HalfGindex(1, m, y), new, expand)
              = PairNode(l, Setter(r, ToGindex(y, m), new, expand))
<1>1. Opens(PairNode(l, r), m, expand, l, r)
  BY DEF Opens
<1>2. QED
  BY <1>1, SetLeft, SetRight

-----------------------------------------------------------------------------
(***************************************************************************)
(* Trees filled from below                                                 *)
(***************************************************************************)

\* The cases of a tree that is filled: no nodes, one, and two halves
LEMMA FillFacts ==
  ASSUME NEW N, Len(N) \in Nat, NEW d \in Nat, NEW i \in Nat
  PROVE  /\ Len(N) <= i => SubtreeFillToContents(N, d, i) = Zero(d)
         /\ i < Len(N) => /\ SubtreeFillToContents(N, 0, i) = N[i + 1]
                          /\ SubtreeFillToContents(N, d + 1, i)
                               = PairNode(SubtreeFillToContents(N, d, i),
                                          SubtreeFillToContents(N, d, i + 2^d))
<1>1. Len(N) <= i => SubtreeFillToContents(N, d, i) = Zero(d)
  BY FillDef
<1>2. ASSUME i < Len(N) PROVE SubtreeFillToContents(N, 0, i) = N[i + 1]
  <2>1. 0 \in Nat /\ ~(Len(N) <= i)
    BY <1>2
  <2>2. QED
    BY <2>1, FillDef
<1>3. ASSUME i < Len(N)
      PROVE  SubtreeFillToContents(N, d + 1, i)
               = PairNode(SubtreeFillToContents(N, d, i), SubtreeFillToContents(N, d, i + 2^d))
  <2> DEFINE e == d + 1
  <2>1. e \in Nat /\ ~(Len(N) <= i) /\ e # 0 /\ e - 1 = d
    BY <1>3
  <2> HIDE DEF e
  <2>2. SubtreeFillToContents(N, e, i)
          = PairNode(SubtreeFillToContents(N, e - 1, i),
                     SubtreeFillToContents(N, e - 1, i + 2^(e - 1)))
    BY <2>1, FillDef
  <2>3. QED
    BY <2>1, <2>2 DEF e
<1>4. QED
  BY <1>1, <1>2, <1>3

\* Two lists of nodes with the same at position c, or nothing
SameAt(N, M, c) ==
  /\ c <= Len(N) <=> c <= Len(M)
  /\ c <= Len(N) => N[c] = M[c]

\* A tree depends on the nodes that fall into it only.
LEMMA FillSame ==
  ASSUME NEW N, NEW M, Len(N) \in Nat, Len(M) \in Nat, NEW d \in Nat, NEW i \in Nat,
         \A c \in i + 1 .. i + 2^d : SameAt(N, M, c)
  PROVE  SubtreeFillToContents(N, d, i) = SubtreeFillToContents(M, d, i)
<1> DEFINE I == {n \in Nat : \A x \in Nat : (\A c \in x + 1 .. x + 2^n : SameAt(N, M, c))
                   => SubtreeFillToContents(N, n, x) = SubtreeFillToContents(M, n, x)}
<1>1. 0 \in I
  <2>1. ASSUME NEW x \in Nat, \A c \in x + 1 .. x + 2^0 : SameAt(N, M, c)
        PROVE  SubtreeFillToContents(N, 0, x) = SubtreeFillToContents(M, 0, x)
    <3>1. 0 \in Nat /\ x + 1 \in x + 1 .. x + 2^0
      BY PowerFacts
    <3>2. SameAt(N, M, x + 1)
      BY <2>1, <3>1
    <3>3. CASE x < Len(N)
      <4>1. x < Len(M) /\ N[x + 1] = M[x + 1]
        BY <3>2, <3>3 DEF SameAt
      <4>2. SubtreeFillToContents(N, 0, x) = N[x + 1] /\ SubtreeFillToContents(M, 0, x) = M[x + 1]
        BY <3>1, <3>3, <4>1, FillFacts
      <4>3. QED
        BY <4>1, <4>2
    <3>4. CASE Len(N) <= x
      <4>1. Len(M) <= x
        BY <3>2, <3>4 DEF SameAt
      <4>2. SubtreeFillToContents(N, 0, x) = Zero(0) /\ SubtreeFillToContents(M, 0, x) = Zero(0)
        BY <3>1, <3>4, <4>1, FillFacts
      <4>3. QED
        BY <4>2
    <3>5. QED
      BY <3>3, <3>4
  <2>2. QED
    BY <2>1
<1>2. ASSUME NEW n \in Nat, n \in I PROVE n + 1 \in I
  <2>1. ASSUME NEW x \in Nat, \A c \in x + 1 .. x + 2^(n + 1) : SameAt(N, M, c)
        PROVE  SubtreeFillToContents(N, n + 1, x) = SubtreeFillToContents(M, n + 1, x)
    <3>1. 2^n \in Nat \ {0} /\ 2^(n + 1) = 2 * 2^n
      BY PowerFacts
    <3>2. /\ \A c \in x + 1 .. x + 2^n : SameAt(N, M, c)
          /\ \A c \in (x + 2^n) + 1 .. (x + 2^n) + 2^n : SameAt(N, M, c)
          /\ SameAt(N, M, x + 1)
      BY <2>1, <3>1
    <3>3. x + 2^n \in Nat
      BY <3>1
    <3>4. /\ SubtreeFillToContents(N, n, x) = SubtreeFillToContents(M, n, x)
          /\ SubtreeFillToContents(N, n, x + 2^n) = SubtreeFillToContents(M, n, x + 2^n)
      BY <1>2, <3>2, <3>3
    <3>5. CASE x < Len(N)
      <4>1. x < Len(M)
        BY <3>2, <3>5 DEF SameAt
      <4>2. /\ SubtreeFillToContents(N, n + 1, x)
                 = PairNode(SubtreeFillToContents(N, n, x), SubtreeFillToContents(N, n, x + 2^n))
            /\ SubtreeFillToContents(M, n + 1, x)
                 = PairNode(SubtreeFillToContents(M, n, x), SubtreeFillToContents(M, n, x + 2^n))
        BY <3>5, <4>1, FillFacts
      <4>3. QED
        BY <3>4, <4>2
    <3>6. CASE Len(N) <= x
      <4>1. Len(M) <= x /\ n + 1 \in Nat
        BY <3>2, <3>6 DEF SameAt
      <4>2. /\ SubtreeFillToContents(N, n + 1, x) = Zero(n + 1)
            /\ SubtreeFillToContents(M, n + 1, x) = Zero(n + 1)
        BY <3>6, <4>1, FillFacts
      <4>3. QED
        BY <4>2
    <3>7. QED
      BY <3>5, <3>6
  <2>2. QED
    BY <2>1
<1>3. \A n \in Nat : n \in I
  <2> HIDE DEF I
  <2>1. QED
    BY <1>1, <1>2, SimpleInduction
<1>4. QED
  BY <1>3

\* The first of the nodes in the j-th subtree of height h of a tree that
\* begins with node i
Place(i, j, h) == i + j * 2^h

\* One level down a tree of height t + 1 + h, towards the j-th of these subtrees:
\* it is in the left half, or it is number y of the right half.
GoesLeft(t, h, i, j) ==
  /\ j \in 0 .. 2^t - 1
  /\ ToGindex(j, t + 1) = HalfGindex(0, t, j)
  /\ Place(i, j, h) + 2^h <= i + 2^(t + h)

GoesRight(t, h, i, j, y) ==
  /\ y = j - 2^t
  /\ ToGindex(j, t + 1) = HalfGindex(1, t, y)
  /\ i + 2^(t + h) \in Nat
  /\ Place(i, j, h) = Place(i + 2^(t + h), y, h)
  /\ i + 2^(t + h) <= Place(i, j, h)

\* The subtree is in one of the halves of the tree, and is numbered there.
LEMMA Path ==
  ASSUME NEW t \in Nat, NEW h \in Nat, NEW i \in Nat, NEW j \in 0 .. 2^(t + 1) - 1
  PROVE  /\ t + h \in Nat /\ (t + 1) + h = (t + h) + 1
         /\ 2^(t + h) \in Nat \ {0} /\ 2^h \in Nat \ {0}
         /\ 2^((t + 1) + h) = 2 * 2^(t + h)
         /\ Place(i, j, h) \in Nat /\ i <= Place(i, j, h)
         /\ j # 0 => i < Place(i, j, h)
         /\ GoesLeft(t, h, i, j) \/ \E y \in 0 .. 2^t - 1 : GoesRight(t, h, i, j, y)
<1>1. 2^(t + h) \in Nat \ {0} /\ 2^t \in Nat \ {0} /\ 2^h \in Nat \ {0} /\ 2^(t + 1) = 2 * 2^t
  BY PowerFacts
<1>2. (t + 1) + h = (t + h) + 1 /\ t + h \in Nat
  OBVIOUS
<1>3. 2^((t + h) + 1) = 2 * 2^(t + h) /\ 2^(t + h) = 2^t * 2^h
  BY <1>2, PowerFacts, PowerSum
<1> DEFINE T == 2^t
           H == 2^h
<1>4. j \in Nat /\ j < 2 * T /\ T \in Nat \ {0} /\ H \in Nat \ {0}
  BY <1>1
<1>5. 2^(t + h) = T * H
  BY <1>3
<1> HIDE DEF T, H
<1>6. j * H \in Nat /\ T * H \in Nat /\ (j # 0 => j * H > 0)
  BY <1>4
<1>7. Place(i, j, h) = i + j * H
  BY DEF Place, H
<1>8. CASE j < T
  <2>1. j * H + H <= T * H
    <3>1. T - j - 1 \in Nat
      BY <1>4, <1>8
    <3>2. (T - j - 1) * H \in Nat /\ (T - j - 1) * H = T * H - j * H - H
      BY <1>4, <3>1
    <3>3. QED
      BY <1>4, <1>6, <3>2
  <2>2. i + j * H + H <= i + T * H
    BY <1>4, <1>6, <2>1
  <2>3. j \in 0 .. T - 1 /\ 2 * T + j = 2 * T + j
    BY <1>4, <1>8
  <2>4. GoesLeft(t, h, i, j)
    BY <1>1, <1>5, <1>7, <2>2, <2>3 DEF T, H, ToGindex, HalfGindex, GoesLeft
  <2>5. QED
    BY <1>1, <1>2, <1>3, <1>5, <1>6, <1>7, <2>4 DEF T, H
<1>9. CASE j >= T
  <2> DEFINE y == j - T
  <2>1. y \in 0 .. T - 1 /\ 2 * T + j = 3 * T + y
    BY <1>4, <1>9
  <2>2. j * H = T * H + y * H /\ y * H \in Nat
    BY <1>4, <2>1
  <2>3. i + j * H = (i + T * H) + y * H /\ i + T * H <= i + j * H /\ i + T * H \in Nat
    BY <1>4, <1>6, <2>2
  <2>4. Place(i + 2^(t + h), y, h) = (i + T * H) + y * H
    BY <1>5 DEF Place, H
  <2>5. y \in 0 .. 2^t - 1 /\ GoesRight(t, h, i, j, y)
    BY <1>1, <1>5, <1>7, <2>1, <2>3, <2>4 DEF T, ToGindex, HalfGindex, GoesRight
  <2> HIDE DEF y
  <2>6. QED
    BY <1>1, <1>2, <1>3, <1>5, <1>6, <1>7, <2>5 DEF T, H
<1>10. QED
  BY <1>4, <1>8, <1>9

\* With no levels left, the tree is the subtree itself.
LEMMA PlaceZero ==
  ASSUME NEW h \in Nat, NEW i \in Nat, NEW j \in 0 .. 2^0 - 1
  PROVE  j = 0 /\ ToGindex(j, 0) = 1 /\ 0 + h = h /\ Place(i, j, h) = i
<1>1. 2^0 = 1 /\ 2^h \in Nat
  BY PowerFacts
<1>2. QED
  BY <1>1 DEF Place, ToGindex

\* The levels of a tree: t to the roots of its subtrees of height h
Levels(depth, t, h) == depth = t + h

\* In a tree from node i on, the j-th of the subtrees that are t levels down,
\* and of height h, begins with node a, which exists.
IsSubtree(N, depth, t, h, i, j, a) ==
  /\ Len(N) \in Nat /\ depth \in Nat /\ t \in Nat /\ h \in Nat /\ i \in Nat /\ a \in Nat
  /\ j \in 0 .. 2^t - 1
  /\ Levels(depth, t, h)
  /\ a = Place(i, j, h) /\ a < Len(N)

\* It is filled with the nodes from a on.
LEMMA GetFill ==
  ASSUME NEW N, NEW depth, NEW t, NEW h, NEW i, NEW j, NEW a, IsSubtree(N, depth, t, h, i, j, a)
  PROVE  Getter(SubtreeFillToContents(N, depth, i), ToGindex(j, t))
           = SubtreeFillToContents(N, h, a)
<1>0. /\ Len(N) \in Nat /\ depth = t + h /\ t \in Nat /\ h \in Nat /\ i \in Nat
      /\ j \in 0 .. 2^t - 1 /\ a = Place(i, j, h) /\ a < Len(N)
  BY DEF IsSubtree, Levels
<1> USE <1>0
<1> DEFINE I == {n \in Nat : \A x \in Nat : \A y \in 0 .. 2^n - 1 :
                   Place(x, y, h) < Len(N) =>
                     Getter(SubtreeFillToContents(N, n + h, x), ToGindex(y, n))
                       = SubtreeFillToContents(N, h, Place(x, y, h))}
<1>1. 0 \in I
  BY PlaceZero, GetterFacts
<1>2. ASSUME NEW n \in Nat, n \in I PROVE n + 1 \in I
  <2>1. ASSUME NEW x \in Nat, NEW y \in 0 .. 2^(n + 1) - 1, Place(x, y, h) < Len(N)
        PROVE  Getter(SubtreeFillToContents(N, (n + 1) + h, x), ToGindex(y, n + 1))
                 = SubtreeFillToContents(N, h, Place(x, y, h))
    <3> DEFINE tree == SubtreeFillToContents(N, (n + 1) + h, x)
               left == SubtreeFillToContents(N, n + h, x)
               right == SubtreeFillToContents(N, n + h, x + 2^(n + h))
    <3>1. n + h \in Nat /\ (n + 1) + h = (n + h) + 1 /\ x <= Place(x, y, h)
          /\ Place(x, y, h) \in Nat
      BY Path
    <3>2. tree = PairNode(left, right)
      <4>1. x < Len(N)
        BY <2>1, <3>1
      <4>2. QED
        BY <3>1, <4>1, FillFacts
    <3> HIDE DEF tree, left, right
    <3>3. CASE GoesLeft(n, h, x, y)
      <4>1. y \in 0 .. 2^n - 1 /\ ToGindex(y, n + 1) = HalfGindex(0, n, y)
        BY <3>3 DEF GoesLeft
      <4>2. Getter(PairNode(left, right), HalfGindex(0, n, y)) = Getter(left, ToGindex(y, n))
        BY <4>1, GetPair
      <4>3. Getter(left, ToGindex(y, n)) = SubtreeFillToContents(N, h, Place(x, y, h))
        BY <1>2, <2>1, <4>1 DEF left
      <4>4. QED
        BY <3>2, <4>1, <4>2, <4>3 DEF tree
    <3>4. CASE \E z \in 0 .. 2^n - 1 : GoesRight(n, h, x, y, z)
      <4>1. PICK z \in 0 .. 2^n - 1 : GoesRight(n, h, x, y, z)
        BY <3>4
      <4>2. /\ ToGindex(y, n + 1) = HalfGindex(1, n, z)
            /\ x + 2^(n + h) \in Nat
            /\ Place(x, y, h) = Place(x + 2^(n + h), z, h)
        BY <4>1 DEF GoesRight
      <4>3. Getter(PairNode(left, right), HalfGindex(1, n, z)) = Getter(right, ToGindex(z, n))
        BY GetPair
      <4>4. Getter(right, ToGindex(z, n)) = SubtreeFillToContents(N, h, Place(x + 2^(n + h), z, h))
        BY <1>2, <2>1, <4>2 DEF right
      <4>5. QED
        BY <3>2, <4>2, <4>3, <4>4 DEF tree
    <3>5. GoesLeft(n, h, x, y) \/ \E z \in 0 .. 2^n - 1 : GoesRight(n, h, x, y, z)
      BY Path
    <3>6. QED
      BY <3>3, <3>4, <3>5
  <2>2. QED
    BY <2>1
<1>3. \A n \in Nat : n \in I
  <2> HIDE DEF I
  <2>1. QED
    BY <1>1, <1>2, SimpleInduction
<1>4. QED
  BY <1>3

\* The path to node a is in the tree of the nodes N, or it may be expanded to a leaf.
Reached(N, a, h, expand) == a < Len(N) \/ (expand /\ h = 0)

\* The two lists of nodes are the same in a tree of a depth from node i on,
\* except in its subtree of height h from node a on.
SameElsewhere(N, M, depth, i, h, a) ==
  \A c \in i + 1 .. i + 2^depth : c \notin a + 1 .. a + 2^h => SameAt(N, M, c)

\* The j-th subtree, from node a on, has nodes, or is a right-hand one without.
Fits(M, a, j) == a < Len(M) \/ (a = Len(M) /\ j % 2 = 1)

\* A tree in which the subtree of height h that begins with node a is replaced
\* by that of other nodes is the tree of the nodes with these in their place.
\* The pairs above the subtree are those of both trees, or, where a leaf is
\* put behind the last node, expanded.
LEMMA SetFill ==
  ASSUME NEW N, NEW M, NEW expand, NEW t \in Nat, NEW h \in Nat, NEW i \in Nat,
         NEW a \in Nat, NEW depth \in Nat, NEW j \in 0 .. 2^t - 1,
         Len(N) \in Nat, Len(M) \in Nat, a = Place(i, j, h), Levels(depth, t, h),
         Fits(M, a, j), Reached(N, a, h, expand), SameElsewhere(N, M, depth, i, h, a)
  PROVE  Setter(SubtreeFillToContents(N, depth, i), ToGindex(j, t),
                SubtreeFillToContents(M, h, a), expand)
           = SubtreeFillToContents(M, depth, i)
<1> DEFINE new == SubtreeFillToContents(M, h, a)
           Others(x, y) == \A c \in x + 1 .. y : c \notin a + 1 .. a + 2^h => SameAt(N, M, c)
           Goal(n, x, y) == Setter(SubtreeFillToContents(N, n + h, x), ToGindex(y, n), new, expand)
                              = SubtreeFillToContents(M, n + h, x)
           Premise(n, x, y) == /\ a = Place(x, y, h)
                               /\ a < Len(M) \/ (a = Len(M) /\ (n = 0 \/ y % 2 = 1))
                               /\ Others(x, x + 2^(n + h))
           I == {n \in Nat : \A x \in Nat : \A y \in 0 .. 2^n - 1 :
                   Premise(n, x, y) => Goal(n, x, y)}
<1>1. 0 \in I
  <2>1. ASSUME NEW x \in Nat, NEW y \in 0 .. 2^0 - 1, Premise(0, x, y) PROVE Goal(0, x, y)
    <3>1. ToGindex(y, 0) = 1 /\ 0 + h = h /\ Place(x, y, h) = x
      BY PlaceZero
    <3>2. a = x
      BY <2>1, <3>1
    <3>3. QED
      BY <3>1, <3>2, SetRoot
  <2>2. QED
    BY <2>1
<1>2. ASSUME NEW n \in Nat, n \in I PROVE n + 1 \in I
  <2>1. ASSUME NEW x \in Nat, NEW y \in 0 .. 2^(n + 1) - 1, Premise(n + 1, x, y)
        PROVE  Goal(n + 1, x, y)
    <3> DEFINE w == 2^(n + h)
               left(K) == SubtreeFillToContents(K, n + h, x)
               right(K) == SubtreeFillToContents(K, n + h, x + w)
    <3>1. /\ n + h \in Nat /\ (n + 1) + h = (n + h) + 1
          /\ w \in Nat \ {0} /\ 2^((n + 1) + h) = 2 * w
          /\ x <= Place(x, y, h) /\ (y # 0 => x < Place(x, y, h))
          /\ GoesLeft(n, h, x, y) \/ \E z \in 0 .. 2^n - 1 : GoesRight(n, h, x, y, z)
      BY Path
    <3>2. x < Len(M) /\ x <= a
      <4>1. a < Len(M) \/ (a = Len(M) /\ y % 2 = 1)
        BY <2>1
      <4>2. y % 2 = 1 => y # 0
        OBVIOUS
      <4>3. a = Place(x, y, h)
        BY <2>1
      <4>4. QED
        BY <3>1, <4>1, <4>2, <4>3
    <3>3. SubtreeFillToContents(M, (n + 1) + h, x) = PairNode(left(M), right(M))
      BY <3>1, <3>2, FillFacts
    <3>4. \/ SubtreeFillToContents(N, (n + 1) + h, x) = PairNode(left(N), right(N))
          \/ /\ expand /\ h = 0
             /\ SubtreeFillToContents(N, (n + 1) + h, x) = Zero((n + 1) + h)
             /\ left(N) = Zero(n) /\ right(N) = Zero(n)
      <4>1. CASE x < Len(N)
        BY <3>1, <4>1, FillFacts
      <4>2. CASE Len(N) <= x
        <5>1. expand /\ h = 0
          BY <3>2, <4>2 DEF Reached
        <5>2. (n + 1) + h \in Nat /\ x + w \in Nat /\ Len(N) <= x + w
          BY <3>1, <4>2
        <5>3. SubtreeFillToContents(N, (n + 1) + h, x) = Zero((n + 1) + h)
              /\ left(N) = Zero(n + h) /\ right(N) = Zero(n + h)
          BY <3>1, <4>2, <5>2, FillFacts
        <5>4. n + h = n
          BY <5>1
        <5>5. QED
          BY <5>1, <5>3, <5>4
      <4>3. QED
        BY <4>1, <4>2
    <3> DEFINE tree == SubtreeFillToContents(N, (n + 1) + h, x)
               l == left(N)
               r == right(N)
    <3>5. Opens(tree, n, expand, l, r)
      <4> HIDE DEF tree, l, r
      <4>1. tree = PairNode(l, r) \/ (expand /\ tree = Zero((n + 1) + h) /\ l = Zero(n) /\ r = Zero(n))
        BY <3>4 DEF tree, l, r
      <4>2. QED
        BY <4>1, PairFacts DEF Opens
    <3> HIDE DEF tree, l, r
    <3>6. Others(x, x + 2 * w)
      BY <2>1, <3>1
    <3>7. CASE GoesLeft(n, h, x, y)
      <4>1. /\ y \in 0 .. 2^n - 1 /\ ToGindex(y, n + 1) = HalfGindex(0, n, y)
            /\ Place(x, y, h) + 2^h <= x + w
        BY <3>7 DEF GoesLeft
      <4>2. Premise(n, x, y)
        <5>1. Others(x, x + w)
          BY <3>1, <3>6
        <5>2. QED
          BY <2>1, <5>1
      <4>3. Setter(l, ToGindex(y, n), new, expand) = left(M)
        <5>1. Goal(n, x, y)
          BY <1>2, <4>1, <4>2
        <5>2. QED
          BY <5>1 DEF l
      <4>4. r = right(M)
        <5>1. \A c \in (x + w) + 1 .. (x + w) + 2^(n + h) : SameAt(N, M, c)
          <6>1. TAKE c \in (x + w) + 1 .. (x + w) + 2^(n + h)
          <6>2. c \in x + 1 .. x + 2 * w /\ ~(c <= x + w)
            BY <3>1
          <6>3. a + 2^h <= x + w /\ a \in Nat /\ 2^h \in Nat
            BY <2>1, <4>1, PowerFacts
          <6>4. c \notin a + 1 .. a + 2^h
            BY <6>2, <6>3, <3>1
          <6>5. QED
            BY <3>6, <6>2, <6>4
        <5>2. x + w \in Nat
          BY <3>1
        <5>3. QED
          BY <3>1, <5>1, <5>2, FillSame DEF r
      <4>5. Setter(tree, HalfGindex(0, n, y), new, expand)
              = PairNode(Setter(l, ToGindex(y, n), new, expand), r)
        BY <3>5, <4>1, SetLeft
      <4>6. QED
        BY <3>3, <4>1, <4>3, <4>4, <4>5 DEF tree
    <3>8. CASE \E z \in 0 .. 2^n - 1 : GoesRight(n, h, x, y, z)
      <4>1. PICK z \in 0 .. 2^n - 1 : GoesRight(n, h, x, y, z)
        BY <3>8
      <4>2. /\ z = y - 2^n /\ ToGindex(y, n + 1) = HalfGindex(1, n, z)
            /\ x + w \in Nat /\ Place(x, y, h) = Place(x + w, z, h) /\ x + w <= Place(x, y, h)
        BY <4>1 DEF GoesRight
      <4>3. Premise(n, x + w, z)
        <5>1. Others(x + w, (x + w) + w)
          BY <3>1, <3>6
        <5>2. a = Place(x + w, z, h)
          BY <2>1, <4>2
        <5>3. a < Len(M) \/ (a = Len(M) /\ (n = 0 \/ z % 2 = 1))
          <6>1. ASSUME y % 2 = 1, n # 0 PROVE z % 2 = 1
            <7>1. n - 1 \in Nat /\ (n - 1) + 1 = n
              BY <6>1
            <7>2. 2^n = 2 * 2^(n - 1) /\ 2^(n - 1) \in Nat
              BY <7>1, PowerFacts
            <7>3. z = y - 2 * 2^(n - 1) /\ y \in Nat /\ z \in Nat
              BY <4>2, <7>2, PowerFacts
            <7>4. QED
              BY <6>1, <7>2, <7>3
          <6>2. a < Len(M) \/ (a = Len(M) /\ y % 2 = 1)
            BY <2>1
          <6>3. QED
            BY <6>1, <6>2
        <5>4. QED
          BY <5>1, <5>2, <5>3
      <4>4. Setter(r, ToGindex(z, n), new, expand) = right(M)
        <5>1. Goal(n, x + w, z)
          BY <1>2, <4>2, <4>3
        <5>2. QED
          BY <5>1 DEF r
      <4>5. l = left(M)
        <5>1. \A c \in x + 1 .. x + 2^(n + h) : SameAt(N, M, c)
          <6>1. TAKE c \in x + 1 .. x + 2^(n + h)
          <6>2. c \in x + 1 .. x + 2 * w /\ c <= x + w
            BY <3>1
          <6>3. x + w <= a
            BY <2>1, <4>2
          <6>4. c \notin a + 1 .. a + 2^h
            BY <6>2, <6>3, <3>1
          <6>5. QED
            BY <3>6, <6>2, <6>4
        <5>2. QED
          BY <3>1, <5>1, FillSame DEF l
      <4>6. Setter(tree, HalfGindex(1, n, z), new, expand)
              = PairNode(l, Setter(r, ToGindex(z, n), new, expand))
        BY <3>5, SetRight
      <4>7. QED
        BY <3>3, <4>2, <4>4, <4>5, <4>6 DEF tree
    <3>9. QED
      BY <3>1, <3>7, <3>8
  <2>2. QED
    BY <2>1
<1>3. \A n \in Nat : n \in I
  <2> HIDE DEF I
  <2>1. QED
    BY <1>1, <1>2, SimpleInduction
<1>4. Premise(t, i, j)
  BY DEF SameElsewhere, Fits, Levels
<1>5. QED
  BY <1>3, <1>4 DEF Levels

-----------------------------------------------------------------------------
(***************************************************************************)
(* The chain of subtrees                                                   *)
(***************************************************************************)

\* The number of chunks before the subtree with 4^k chunks
Start(k) == (2^(2 * k) - 1) \div 3

\* The number of chunks in it
Width(k) == 2^(2 * k)

\* Each subtree is four times as wide as the one before it.
LEMMA WidthFacts ==
  ASSUME NEW k \in Nat
  PROVE  Width(k) \in Nat \ {0} /\ Width(k + 1) = 4 * Width(k) /\ 2 * k \in Nat
<1> DEFINE e == 2 * k
<1>1. e \in Nat /\ e + 1 \in Nat /\ 2 * (k + 1) = (e + 1) + 1
  OBVIOUS
<1> HIDE DEF e
<1>2. 2^((e + 1) + 1) = 2 * 2^(e + 1) /\ 2^(e + 1) = 2 * 2^e /\ 2^e \in Nat \ {0}
  BY <1>1, PowerFacts
<1>3. 2^((e + 1) + 1) = 4 * 2^e
  BY <1>2
<1>4. QED
  BY <1>1, <1>2, <1>3 DEF e, Width

\* The first subtree has one chunk.
LEMMA StartZero ==
  Start(0) = 0 /\ Width(0) = 1 /\ 0 \in Nat
<1>1. 2 * 0 = 0 /\ 2^0 = 1
  BY PowerFacts
<1>2. QED
  BY <1>1 DEF Start, Width

\* A subtree begins where the one before it ends.
LEMMA StartFacts ==
  ASSUME NEW k \in Nat
  PROVE  /\ Start(k) \in Nat /\ k <= Start(k) /\ k + 1 \in Nat
         /\ Start(k + 1) = Start(k) + Width(k) /\ Start(k + 1) \in Nat
         /\ Width(k) \in Nat \ {0} /\ 2 * k \in Nat
<1> DEFINE I == {n \in Nat : \E s \in Nat : Width(n) = 3 * s + 1 /\ n <= s}
<1>1. 0 \in I
  <2>1. 0 \in Nat /\ Width(0) = 3 * 0 + 1 /\ 0 <= 0
    BY StartZero
  <2>2. QED
    BY <2>1
<1>2. ASSUME NEW n \in Nat, n \in I PROVE n + 1 \in I
  <2>1. PICK s \in Nat : Width(n) = 3 * s + 1 /\ n <= s
    BY <1>2
  <2> DEFINE r == 4 * s + 1
             m == n + 1
  <2>2. r \in Nat /\ Width(m) = 3 * r + 1 /\ m <= r /\ m \in Nat
    BY <2>1, WidthFacts
  <2> HIDE DEF r, m
  <2>3. m \in I
    BY <2>2
  <2>4. QED
    BY <2>3 DEF m
<1>3. \A n \in Nat : n \in I
  <2> HIDE DEF I
  <2>1. QED
    BY <1>1, <1>2, SimpleInduction
<1>4. ASSUME NEW n \in Nat
      PROVE  Start(n) \in Nat /\ Width(n) = 3 * Start(n) + 1 /\ n <= Start(n)
  <2>1. PICK s \in Nat : Width(n) = 3 * s + 1 /\ n <= s
    BY <1>3
  <2>2. Start(n) = s
    BY <2>1 DEF Start, Width
  <2>3. QED
    BY <2>1, <2>2
<1>5. k + 1 \in Nat
  OBVIOUS
<1>6. Start(k + 1) \in Nat /\ Width(k + 1) = 3 * Start(k + 1) + 1
  BY <1>4, <1>5
<1>7. Start(k) \in Nat /\ Width(k) = 3 * Start(k) + 1 /\ k <= Start(k)
      /\ Width(k + 1) = 4 * Width(k) /\ Width(k) \in Nat \ {0} /\ 2 * k \in Nat
  BY <1>4, WidthFacts
<1>8. QED
  BY <1>5, <1>6, <1>7

\* Every chunk is in some subtree.
LEMMA SubtreeExists ==
  \A c \in Nat : \E k \in Nat : Start(k) <= c /\ c < Start(k + 1) /\ k <= c
<1> DEFINE I == {c \in Nat : \E k \in Nat : Start(k) <= c /\ c < Start(k + 1)}
<1>1. 0 \in I
  <2>1. 0 \in Nat /\ Start(0) <= 0 /\ 0 < Start(0 + 1)
    BY StartZero, StartFacts
  <2>2. QED
    BY <2>1
<1>2. ASSUME NEW c \in Nat, c \in I PROVE c + 1 \in I
  <2>1. PICK k \in Nat : Start(k) <= c /\ c < Start(k + 1)
    BY <1>2
  <2>2. /\ k + 1 \in Nat /\ Start(k) \in Nat /\ Start(k + 1) \in Nat
        /\ Start((k + 1) + 1) = Start(k + 1) + Width(k + 1) /\ Width(k + 1) \in Nat \ {0}
    BY StartFacts
  <2>3. CASE c + 1 < Start(k + 1)
    <3>1. Start(k) <= c + 1
      BY <2>1, <2>2
    <3>2. QED
      BY <2>3, <3>1
  <2>4. CASE c + 1 = Start(k + 1)
    <3>1. Start(k + 1) <= c + 1 /\ c + 1 < Start((k + 1) + 1)
      BY <2>2, <2>4
    <3>2. QED
      BY <2>2, <3>1
  <2>5. QED
    BY <2>1, <2>2, <2>3, <2>4
<1>3. \A c \in Nat : c \in I
  <2> HIDE DEF I
  <2>1. QED
    BY <1>1, <1>2, SimpleInduction
<1>4. ASSUME NEW c \in Nat, NEW k \in Nat, Start(k) <= c PROVE k <= c
  <2>1. Start(k) \in Nat /\ k <= Start(k)
    BY StartFacts
  <2>2. QED
    BY <1>4, <2>1
<1>5. QED
  BY <1>3, <1>4

\* The chain from subtree k on
Chain(N, k) == ChainAt(N, IF Len(N) <= Start(k) THEN 0 ELSE Len(N) - Start(k), 2 * k)

\* A chain without nodes is a zero, another a subtree and the rest.
LEMMA ChainFacts ==
  ASSUME NEW N, Len(N) \in Nat, NEW k \in Nat
  PROVE  /\ Len(N) <= Start(k) => Chain(N, k) = Zero(0)
         /\ Start(k) < Len(N) =>
              Chain(N, k) = PairNode(SubtreeFillToContents(N, 2 * k, Start(k)), Chain(N, k + 1))
<1> DEFINE left == IF Len(N) <= Start(k) THEN 0 ELSE Len(N) - Start(k)
<1>1. /\ Start(k) \in Nat /\ Start(k + 1) = Start(k) + Width(k) /\ Width(k) \in Nat \ {0}
      /\ 2 * k \in Nat
  BY StartFacts
<1>2. left \in Nat
  BY <1>1
<1>3. ChainAt(N, left, 2 * k) =
        IF left = 0 THEN Zero(0)
        ELSE PairNode(SubtreeFillToContents(N, 2 * k, Len(N) - left),
                      ChainAt(N, IF left <= Width(k) THEN 0 ELSE left - Width(k), 2 * k + 2))
  BY <1>1, <1>2, ChainAtDef DEF Width
<1>4. Len(N) <= Start(k) => left = 0
  OBVIOUS
<1>5. ASSUME Start(k) < Len(N)
      PROVE  /\ left # 0 /\ Len(N) - left = Start(k)
             /\ ChainAt(N, IF left <= Width(k) THEN 0 ELSE left - Width(k), 2 * k + 2)
                  = Chain(N, k + 1)
  <2>1. left = Len(N) - Start(k) /\ left # 0
    BY <1>1, <1>5
  <2>2. (IF left <= Width(k) THEN 0 ELSE left - Width(k))
          = IF Len(N) <= Start(k + 1) THEN 0 ELSE Len(N) - Start(k + 1)
    BY <1>1, <2>1
  <2>3. 2 * k + 2 = 2 * (k + 1) /\ Len(N) - left = Start(k)
    BY <1>1, <2>1
  <2>4. QED
    BY <2>1, <2>2, <2>3 DEF Chain
<1>6. Chain(N, k) = ChainAt(N, left, 2 * k)
  BY DEF Chain
<1> HIDE DEF left
<1>7. QED
  BY <1>3, <1>4, <1>5, <1>6

\* subtree_fill_progressive makes the chain from the first subtree on.
LEMMA FillIsChain ==
  ASSUME NEW N, Len(N) \in Nat
  PROVE  SubtreeFillProgressive(N) = Chain(N, 0)
<1>1. SubtreeFillProgressive(N) = ChainAt(N, Len(N), 0)
  BY DEF SubtreeFillProgressive, ChainAt
<1>2. (IF Len(N) <= Start(0) THEN 0 ELSE Len(N) - Start(0)) = Len(N) /\ 2 * 0 = 0
  BY StartZero
<1>3. QED
  BY <1>1, <1>2 DEF Chain

\* A chain depends on the nodes from its start on only.
LEMMA ChainSame ==
  ASSUME NEW N, NEW M, Len(N) \in Nat, Len(M) \in Nat, NEW k \in Nat,
         \A c \in Nat : c > Start(k) => SameAt(N, M, c)
  PROVE  Chain(N, k) = Chain(M, k)
<1> DEFINE I == {n \in Nat : \A l \in Nat :
                   /\ Len(N) <= Start(l) + n
                   /\ \A c \in Nat : c > Start(l) => SameAt(N, M, c)
                   => Chain(N, l) = Chain(M, l)}
<1>1. ASSUME NEW l \in Nat, \A c \in Nat : c > Start(l) => SameAt(N, M, c)
      PROVE  Len(N) <= Start(l) <=> Len(M) <= Start(l)
  <2>1. Start(l) \in Nat
    BY StartFacts
  <2>2. Start(l) + 1 \in Nat /\ Start(l) + 1 > Start(l)
    BY <2>1
  <2>3. SameAt(N, M, Start(l) + 1)
    BY <1>1, <2>2
  <2>4. QED
    BY <2>1, <2>3 DEF SameAt
<1>2. 0 \in I
  <2>1. ASSUME NEW l \in Nat, Len(N) <= Start(l) + 0,
               \A c \in Nat : c > Start(l) => SameAt(N, M, c)
        PROVE  Chain(N, l) = Chain(M, l)
    <3>1. Len(N) <= Start(l)
      BY <2>1, StartFacts
    <3>2. Len(M) <= Start(l)
      BY <1>1, <2>1, <3>1
    <3>3. QED
      BY <3>1, <3>2, ChainFacts
  <2>2. QED
    BY <2>1
<1>3. ASSUME NEW n \in Nat, n \in I PROVE n + 1 \in I
  <2>1. ASSUME NEW l \in Nat, Len(N) <= Start(l) + (n + 1),
               \A c \in Nat : c > Start(l) => SameAt(N, M, c)
        PROVE  Chain(N, l) = Chain(M, l)
    <3>1. Start(l) \in Nat /\ Start(l + 1) = Start(l) + Width(l) /\ Width(l) \in Nat \ {0}
          /\ l + 1 \in Nat /\ 2 * l \in Nat
      BY StartFacts
    <3>2. CASE Len(N) <= Start(l)
      <4>1. Len(M) <= Start(l)
        BY <1>1, <2>1, <3>2
      <4>2. QED
        BY <3>2, <4>1, ChainFacts
    <3>3. CASE Start(l) < Len(N)
      <4>1. Start(l) < Len(M)
        BY <1>1, <2>1, <3>1, <3>3
      <4>2. Len(N) <= Start(l + 1) + n
        BY <2>1, <3>1
      <4>3. \A c \in Nat : c > Start(l + 1) => SameAt(N, M, c)
        BY <2>1, <3>1
      <4>4. Chain(N, l + 1) = Chain(M, l + 1)
        BY <1>3, <3>1, <4>2, <4>3
      <4>5. \A c \in Start(l) + 1 .. Start(l) + Width(l) : SameAt(N, M, c)
        BY <2>1, <3>1
      <4>6. SubtreeFillToContents(N, 2 * l, Start(l)) = SubtreeFillToContents(M, 2 * l, Start(l))
        <5> DEFINE d == 2 * l
                   s == Start(l)
        <5>1. d \in Nat /\ s \in Nat /\ \A c \in s + 1 .. s + 2^d : SameAt(N, M, c)
          BY <3>1, <4>5 DEF Width
        <5> HIDE DEF d, s
        <5>2. SubtreeFillToContents(N, d, s) = SubtreeFillToContents(M, d, s)
          BY <5>1, FillSame
        <5>3. QED
          BY <5>2 DEF d, s
      <4>7. QED
        BY <3>3, <4>1, <4>4, <4>6, ChainFacts
    <3>4. QED
      BY <3>1, <3>2, <3>3
  <2>2. QED
    BY <2>1
<1>4. \A n \in Nat : n \in I
  <2> HIDE DEF I
  <2>1. QED
    BY <1>2, <1>3, SimpleInduction
<1>5. Len(N) \in I /\ Len(N) <= Start(k) + Len(N)
  <2> HIDE DEF I
  <2>1. Start(k) \in Nat
    BY StartFacts
  <2>2. QED
    BY <1>4, <2>1
<1>6. QED
  BY <1>5

\* In a chain, the pair m steps from the first one
SpineIn(m) == ToGindex(2^m - 1, m)

\* In a chain, what the m-th subtree has at ToGindex(y, h), and in a list
ChainPlace(m, h, y) == (2^m - 1) * 2^(h + 1) + y
ChainGindex(m, h, y) == ToGindex(ChainPlace(m, h, y), m + 1 + h)
ListGindex(m, h, y) == HalfGindex(0, m + 1 + h, ChainPlace(m, h, y))

\* The place is in the first subtree, or in the chain behind it.
LEMMA ChainPlaceFacts ==
  ASSUME NEW m \in Nat, NEW h \in Nat, NEW y \in 0 .. 2^h - 1
  PROVE  /\ m + 1 + h \in Nat
         /\ ChainPlace(m, h, y) \in 0 .. 2^(m + 1 + h) - 1
         /\ ChainGindex(0, h, y) = HalfGindex(0, h, y)
         /\ ChainGindex(m + 1, h, y) = HalfGindex(1, m + 1 + h, ChainPlace(m, h, y))
<1> DEFINE A == 2^m
           H == 2^(h + 1)
<1>1. A \in Nat \ {0} /\ 2^h \in Nat \ {0} /\ H = 2 * 2^h /\ 2^(m + 1) = 2 * A
  BY PowerFacts
<1>2. 2^(m + 1 + h) = A * H /\ 2^((m + 1) + 1 + h) = 2 * (A * H)
  <2>1. m + 1 + h = m + (h + 1) /\ (m + 1) + 1 + h = (m + (h + 1)) + 1 /\ h + 1 \in Nat
        /\ m + (h + 1) \in Nat
    OBVIOUS
  <2>2. 2^(m + (h + 1)) = 2^m * 2^(h + 1)
    BY <2>1, PowerSum
  <2>3. 2^((m + (h + 1)) + 1) = 2 * 2^(m + (h + 1))
    BY <2>1, PowerFacts
  <2>4. QED
    BY <2>1, <2>2, <2>3
<1>3. 2^(0 + 1 + h) = H /\ 2^0 = 1
  <2>1. 0 + 1 + h = h + 1
    OBVIOUS
  <2>2. QED
    BY <2>1, PowerFacts
<1>4. ChainPlace(m, h, y) = (A - 1) * H + y /\ ChainPlace(m + 1, h, y) = (2 * A - 1) * H + y
      /\ ChainPlace(0, h, y) = y
  <2>1. (1 - 1) * H = 0
    BY <1>1
  <2>2. QED
    BY <1>1, <1>3, <2>1 DEF ChainPlace
<1>5. y \in Nat /\ 2 * y < H - 1 + 1
  BY <1>1
<1> HIDE DEF A, H
<1>6. H \in Nat \ {0} /\ A * H \in Nat /\ (A - 1) * H = A * H - H /\ (2 * A - 1) * H = 2 * (A * H) - H
      /\ (A - 1) * H \in Nat
  <2>1. H \in Nat \ {0}
    BY <1>1
  <2>2. A - 1 \in Nat
    BY <1>1
  <2>3. QED
    BY <1>1, <2>1, <2>2
<1>7. ChainPlace(m, h, y) \in 0 .. 2^(m + 1 + h) - 1
  BY <1>2, <1>4, <1>5, <1>6
<1>8. ChainGindex(0, h, y) = HalfGindex(0, h, y)
  BY <1>1, <1>3, <1>4, <1>5 DEF ChainGindex, ToGindex, HalfGindex
<1>9. ChainGindex(m + 1, h, y) = HalfGindex(1, m + 1 + h, ChainPlace(m, h, y))
  <2>1. ChainGindex(m + 1, h, y) = 2 * (A * H) + ((2 * A - 1) * H + y)
    BY <1>2, <1>4 DEF ChainGindex, ToGindex
  <2>2. HalfGindex(1, m + 1 + h, ChainPlace(m, h, y)) = 3 * (A * H) + ((A - 1) * H + y)
    BY <1>2, <1>4 DEF HalfGindex
  <2>3. QED
    BY <1>5, <1>6, <2>1, <2>2
<1>10. QED
  BY <1>7, <1>8, <1>9

\* Reading and writing a chain: its first subtree, the rest of it, and all of
\* it on the left of a list
LEMMA ChainGetFirst ==
  ASSUME NEW l, NEW r, NEW h \in Nat, NEW y \in 0 .. 2^h - 1
  PROVE  Getter(PairNode(l, r), ChainGindex(0, h, y)) = Getter(l, ToGindex(y, h))
<1>1. ChainGindex(0, h, y) = HalfGindex(0, h, y)
  BY ChainPlaceFacts
<1>2. Getter(PairNode(l, r), HalfGindex(0, h, y)) = Getter(l, ToGindex(y, h))
  BY GetPair
<1>3. QED
  BY <1>1, <1>2

\* Reading behind the first subtree
LEMMA ChainGetRest ==
  ASSUME NEW l, NEW r, NEW m \in Nat, NEW h \in Nat, NEW y \in 0 .. 2^h - 1
  PROVE  Getter(PairNode(l, r), ChainGindex(m + 1, h, y)) = Getter(r, ChainGindex(m, h, y))
<1> DEFINE a == m + 1 + h
           z == ChainPlace(m, h, y)
<1>1. a \in Nat /\ z \in 0 .. 2^a - 1 /\ ChainGindex(m + 1, h, y) = HalfGindex(1, a, z)
  BY ChainPlaceFacts
<1>2. ChainGindex(m, h, y) = ToGindex(z, a)
  BY DEF ChainGindex
<1> HIDE DEF a, z
<1>3. /\ Getter(PairNode(l, r), HalfGindex(0, a, z)) = Getter(l, ToGindex(z, a))
      /\ Getter(PairNode(l, r), HalfGindex(1, a, z)) = Getter(r, ToGindex(z, a))
  BY <1>1, GetPair
<1>4. QED
  BY <1>1, <1>2, <1>3

\* Reading the chain of a list
LEMMA ListGet ==
  ASSUME NEW l, NEW r, NEW m \in Nat, NEW h \in Nat, NEW y \in 0 .. 2^h - 1
  PROVE  Getter(PairNode(l, r), ListGindex(m, h, y)) = Getter(l, ChainGindex(m, h, y))
<1> DEFINE a == m + 1 + h
           z == ChainPlace(m, h, y)
<1>1. a \in Nat /\ z \in 0 .. 2^a - 1
  BY ChainPlaceFacts
<1>2. ChainGindex(m, h, y) = ToGindex(z, a) /\ ListGindex(m, h, y) = HalfGindex(0, a, z)
  BY DEF ChainGindex, ListGindex
<1> HIDE DEF a, z
<1>3. /\ Getter(PairNode(l, r), HalfGindex(0, a, z)) = Getter(l, ToGindex(z, a))
      /\ Getter(PairNode(l, r), HalfGindex(1, a, z)) = Getter(r, ToGindex(z, a))
  BY <1>1, GetPair
<1>4. QED
  BY <1>2, <1>3

\* Writing in the first subtree
LEMMA ChainSetFirst ==
  ASSUME NEW l, NEW r, NEW new, NEW expand, NEW h \in Nat, NEW y \in 0 .. 2^h - 1
  PROVE  Setter(PairNode(l, r), ChainGindex(0, h, y), new, expand)
           = PairNode(Setter(l, ToGindex(y, h), new, expand), r)
<1>1. ChainGindex(0, h, y) = HalfGindex(0, h, y)
  BY ChainPlaceFacts
<1>2. Setter(PairNode(l, r), HalfGindex(0, h, y), new, expand)
        = PairNode(Setter(l, ToGindex(y, h), new, expand), r)
  BY SetPair
<1>3. QED
  BY <1>1, <1>2

\* Writing behind the first subtree
LEMMA ChainSetRest ==
  ASSUME NEW l, NEW r, NEW new, NEW expand, NEW m \in Nat, NEW h \in Nat, NEW y \in 0 .. 2^h - 1
  PROVE  Setter(PairNode(l, r), ChainGindex(m + 1, h, y), new, expand)
           = PairNode(l, Setter(r, ChainGindex(m, h, y), new, expand))
<1> DEFINE a == m + 1 + h
           z == ChainPlace(m, h, y)
<1>1. a \in Nat /\ z \in 0 .. 2^a - 1 /\ ChainGindex(m + 1, h, y) = HalfGindex(1, a, z)
  BY ChainPlaceFacts
<1>2. ChainGindex(m, h, y) = ToGindex(z, a)
  BY DEF ChainGindex
<1> HIDE DEF a, z
<1>3. /\ Setter(PairNode(l, r), HalfGindex(0, a, z), new, expand)
           = PairNode(Setter(l, ToGindex(z, a), new, expand), r)
      /\ Setter(PairNode(l, r), HalfGindex(1, a, z), new, expand)
           = PairNode(l, Setter(r, ToGindex(z, a), new, expand))
  BY <1>1, SetPair
<1>4. QED
  BY <1>1, <1>2, <1>3

\* Writing in the chain of a list
LEMMA ListSet ==
  ASSUME NEW l, NEW r, NEW new, NEW expand, NEW m \in Nat, NEW h \in Nat, NEW y \in 0 .. 2^h - 1
  PROVE  Setter(PairNode(l, r), ListGindex(m, h, y), new, expand)
           = PairNode(Setter(l, ChainGindex(m, h, y), new, expand), r)
<1> DEFINE a == m + 1 + h
           z == ChainPlace(m, h, y)
<1>1. a \in Nat /\ z \in 0 .. 2^a - 1
  BY ChainPlaceFacts
<1>2. ChainGindex(m, h, y) = ToGindex(z, a) /\ ListGindex(m, h, y) = HalfGindex(0, a, z)
  BY DEF ChainGindex, ListGindex
<1> HIDE DEF a, z
<1>3. Setter(PairNode(l, r), HalfGindex(0, a, z), new, expand)
        = PairNode(Setter(l, ToGindex(z, a), new, expand), r)
  BY <1>1, SetPair
<1>4. QED
  BY <1>2, <1>3

\* The pair of the n-th subtree in a list
ListSpine(m) == HalfGindex(0, m, 2^m - 1)

\* The pairs of a chain are each on the right of the one before.
LEMMA SpineIs ==
  ASSUME NEW m \in Nat
  PROVE  /\ 2^m - 1 \in 0 .. 2^m - 1
         /\ SpineIn(m + 1) = HalfGindex(1, m, 2^m - 1)
         /\ SpineIn(0) = 1
<1>1. 2^m \in Nat \ {0} /\ 2^(m + 1) = 2 * 2^m /\ 2^0 = 1
  BY PowerFacts
<1>2. QED
  BY <1>1 DEF SpineIn, HalfGindex, ToGindex

\* All of the chain is replaced.
LEMMA SpineSetRoot ==
  ASSUME NEW x, NEW new, NEW expand
  PROVE  Setter(x, SpineIn(0), new, expand) = new
<1>1. SpineIn(0) = 1
  BY PowerFacts DEF SpineIn, ToGindex
<1>2. QED
  BY <1>1, SetRoot

\* A rest of what is behind the first subtree is replaced.
LEMMA SpineSetRest ==
  ASSUME NEW l, NEW r, NEW new, NEW expand, NEW m \in Nat
  PROVE  Setter(PairNode(l, r), SpineIn(m + 1), new, expand)
           = PairNode(l, Setter(r, SpineIn(m), new, expand))
<1> DEFINE z == 2^m - 1
<1>1. z \in 0 .. 2^m - 1 /\ SpineIn(m) = ToGindex(z, m) /\ SpineIn(m + 1) = HalfGindex(1, m, z)
  BY SpineIs DEF SpineIn
<1> HIDE DEF z
<1>2. /\ Setter(PairNode(l, r), HalfGindex(0, m, z), new, expand)
           = PairNode(Setter(l, ToGindex(z, m), new, expand), r)
      /\ Setter(PairNode(l, r), HalfGindex(1, m, z), new, expand)
           = PairNode(l, Setter(r, ToGindex(z, m), new, expand))
  BY <1>1, SetPair
<1>3. QED
  BY <1>1, <1>2

\* A rest of the chain of a list is replaced.
LEMMA ListSpineSet ==
  ASSUME NEW l, NEW r, NEW new, NEW expand, NEW m \in Nat
  PROVE  Setter(PairNode(l, r), ListSpine(m), new, expand)
           = PairNode(Setter(l, SpineIn(m), new, expand), r)
<1> DEFINE z == 2^m - 1
<1>1. z \in 0 .. 2^m - 1 /\ SpineIn(m) = ToGindex(z, m) /\ ListSpine(m) = HalfGindex(0, m, z)
  BY SpineIs DEF SpineIn, ListSpine
<1> HIDE DEF z
<1>2. Setter(PairNode(l, r), HalfGindex(0, m, z), new, expand)
        = PairNode(Setter(l, ToGindex(z, m), new, expand), r)
  BY <1>1, SetPair
<1>3. QED
  BY <1>1, <1>2

\* The root of the m-th subtree in a chain
RootIn(m) == ChainGindex(m, 0, 0)

\* The first subtree is replaced.
LEMMA RootInFirst ==
  ASSUME NEW l, NEW r, NEW new, NEW expand
  PROVE  Setter(PairNode(l, r), RootIn(0), new, expand) = PairNode(new, r)
<1> DEFINE o == 0
<1>1. o \in Nat /\ o \in 0 .. 2^o - 1 /\ ToGindex(o, o) = 1
  BY PowerFacts DEF ToGindex
<1>2. RootIn(0) = ChainGindex(0, o, o)
  BY DEF RootIn
<1> HIDE DEF o
<1>3. Setter(PairNode(l, r), ChainGindex(0, o, o), new, expand)
        = PairNode(Setter(l, ToGindex(o, o), new, expand), r)
  BY <1>1, ChainSetFirst
<1>4. Setter(l, 1, new, expand) = new
  BY SetRoot
<1>5. QED
  BY <1>1, <1>2, <1>3, <1>4

\* The first subtree is read.
LEMMA RootInFirstGet ==
  ASSUME NEW l, NEW r
  PROVE  Getter(PairNode(l, r), RootIn(0)) = l
<1> DEFINE o == 0
<1>1. o \in Nat /\ o \in 0 .. 2^o - 1 /\ ToGindex(o, o) = 1
  BY PowerFacts DEF ToGindex
<1>2. RootIn(0) = ChainGindex(0, o, o)
  BY DEF RootIn
<1> HIDE DEF o
<1>3. Getter(PairNode(l, r), ChainGindex(0, o, o)) = Getter(l, ToGindex(o, o))
  BY <1>1, ChainGetFirst
<1>4. Getter(l, 1) = l
  BY GetterFacts
<1>5. QED
  BY <1>1, <1>2, <1>3, <1>4

\* A later subtree is replaced.
LEMMA RootInRest ==
  ASSUME NEW l, NEW r, NEW new, NEW expand, NEW m \in Nat
  PROVE  Setter(PairNode(l, r), RootIn(m + 1), new, expand)
           = PairNode(l, Setter(r, RootIn(m), new, expand))
<1> DEFINE o == 0
<1>1. o \in Nat /\ o \in 0 .. 2^o - 1
  BY PowerFacts
<1>2. RootIn(m) = ChainGindex(m, o, o) /\ RootIn(m + 1) = ChainGindex(m + 1, o, o)
  BY DEF RootIn
<1> HIDE DEF o
<1>3. Setter(PairNode(l, r), ChainGindex(m + 1, o, o), new, expand)
        = PairNode(l, Setter(r, ChainGindex(m, o, o), new, expand))
  BY <1>1, ChainSetRest
<1>4. QED
  BY <1>2, <1>3

\* A later subtree is read.
LEMMA RootInRestGet ==
  ASSUME NEW l, NEW r, NEW m \in Nat
  PROVE  Getter(PairNode(l, r), RootIn(m + 1)) = Getter(r, RootIn(m))
<1> DEFINE o == 0
<1>1. o \in Nat /\ o \in 0 .. 2^o - 1
  BY PowerFacts
<1>2. RootIn(m) = ChainGindex(m, o, o) /\ RootIn(m + 1) = ChainGindex(m + 1, o, o)
  BY DEF RootIn
<1> HIDE DEF o
<1>3. Getter(PairNode(l, r), ChainGindex(m + 1, o, o)) = Getter(r, ChainGindex(m, o, o))
  BY <1>1, ChainGetRest
<1>4. QED
  BY <1>2, <1>3

\* Later subtrees begin later.
LEMMA StartMonotone ==
  ASSUME NEW n \in Nat
  PROVE  \A k \in Nat : k < n => Start(k + 1) <= Start(n) /\ Start(k) < Start(n)
<1> DEFINE I == {m \in Nat : \A k \in Nat : k < m => Start(k + 1) <= Start(m)}
<1>1. 0 \in I
  OBVIOUS
<1>2. ASSUME NEW m \in Nat, m \in I PROVE m + 1 \in I
  <2>1. ASSUME NEW k \in Nat, k < m + 1 PROVE Start(k + 1) <= Start(m + 1)
    <3>1. Start(m) \in Nat /\ Start(m + 1) = Start(m) + Width(m) /\ Width(m) \in Nat \ {0}
      BY StartFacts
    <3>2. Start(k + 1) \in Nat
      BY StartFacts
    <3>3. CASE k = m
      BY <3>1, <3>3
    <3>4. CASE k < m
      <4>1. Start(k + 1) <= Start(m)
        BY <1>2, <3>4
      <4>2. QED
        BY <3>1, <3>2, <4>1
    <3>5. QED
      BY <2>1, <3>3, <3>4
  <2>2. QED
    BY <2>1
<1>3. \A m \in Nat : m \in I
  <2> HIDE DEF I
  <2>1. QED
    BY <1>1, <1>2, SimpleInduction
<1>4. ASSUME NEW k \in Nat, k < n PROVE Start(k + 1) <= Start(n) /\ Start(k) < Start(n)
  <2>1. Start(k + 1) <= Start(n)
    BY <1>3, <1>4
  <2>2. Start(k) \in Nat /\ Start(k + 1) = Start(k) + Width(k) /\ Width(k) \in Nat \ {0}
        /\ Start(k + 1) \in Nat
    BY StartFacts
  <2>3. Start(n) \in Nat
    BY StartFacts
  <2>4. QED
    BY <2>1, <2>2, <2>3
<1>5. QED
  BY <1>4

\* The lists of nodes have the same before subtree n, and reach it.
SameBefore(N, M, n) ==
  /\ Start(n) <= Len(N) /\ Start(n) <= Len(M)
  /\ \A c \in 1 .. Start(n) : SameAt(N, M, c)

\* The subtree k of the two is the same.
HeadSame(N, M, k) == \E f : /\ Chain(N, k) = PairNode(f, Chain(N, k + 1))
                            /\ Chain(M, k) = PairNode(f, Chain(M, k + 1))

\* The subtrees before n are the same then.
LEMMA ChainHead ==
  ASSUME NEW N, NEW M, Len(N) \in Nat, Len(M) \in Nat, NEW n \in Nat, SameBefore(N, M, n),
         NEW k \in Nat, k < n
  PROVE  HeadSame(N, M, k)
<1>1. Start(k + 1) <= Start(n) /\ Start(k) < Start(n)
  BY StartMonotone
<1>2. /\ Start(k) \in Nat /\ Start(k + 1) = Start(k) + Width(k) /\ Width(k) \in Nat \ {0}
      /\ 2 * k \in Nat
  BY StartFacts
<1>3. Start(n) \in Nat
  BY StartFacts
<1>4. Start(k) < Len(N) /\ Start(k) < Len(M)
  BY <1>1, <1>2, <1>3 DEF SameBefore
<1> DEFINE d == 2 * k
           s == Start(k)
<1>5. \A c \in s + 1 .. s + 2^d : SameAt(N, M, c)
  <2>1. TAKE c \in s + 1 .. s + 2^d
  <2>2. c \in 1 .. Start(n)
    BY <1>1, <1>2, <1>3 DEF Width
  <2>3. QED
    BY <2>2 DEF SameBefore
<1>6. d \in Nat /\ s \in Nat
  BY <1>2
<1>7. SubtreeFillToContents(N, d, s) = SubtreeFillToContents(M, d, s)
  <2> HIDE DEF d, s
  <2>1. QED
    BY <1>5, <1>6, FillSame
<1>8. /\ Chain(N, k) = PairNode(SubtreeFillToContents(N, d, s), Chain(N, k + 1))
      /\ Chain(M, k) = PairNode(SubtreeFillToContents(M, d, s), Chain(M, k + 1))
  BY <1>4, ChainFacts
<1>9. QED
  BY <1>7, <1>8 DEF HeadSame

\* What subtree n of a chain has at an index
LEMMA GetChain ==
  ASSUME NEW N, Len(N) \in Nat, NEW n \in Nat, Start(n) < Len(N),
         NEW h \in Nat, NEW y \in 0 .. 2^h - 1
  PROVE  Getter(Chain(N, 0), ChainGindex(n, h, y))
           = Getter(SubtreeFillToContents(N, 2 * n, Start(n)), ToGindex(y, h))
<1> DEFINE tree == SubtreeFillToContents(N, 2 * n, Start(n))
           I == {m \in Nat : m <= n =>
                   Getter(Chain(N, n - m), ChainGindex(m, h, y)) = Getter(tree, ToGindex(y, h))}
<1> HIDE DEF tree
<1>1. 0 \in I
  <2>1. n - 0 = n /\ 0 \in Nat
    OBVIOUS
  <2>2. Chain(N, n) = PairNode(tree, Chain(N, n + 1))
    BY ChainFacts DEF tree
  <2>3. Getter(PairNode(tree, Chain(N, n + 1)), ChainGindex(0, h, y)) = Getter(tree, ToGindex(y, h))
    BY ChainGetFirst
  <2>4. QED
    BY <2>1, <2>2, <2>3
<1>2. ASSUME NEW m \in Nat, m \in I PROVE m + 1 \in I
  <2>1. SUFFICES ASSUME m + 1 <= n
                 PROVE  Getter(Chain(N, n - (m + 1)), ChainGindex(m + 1, h, y))
                          = Getter(tree, ToGindex(y, h))
    OBVIOUS
  <2> DEFINE k == n - (m + 1)
  <2>2. k \in Nat /\ k < n /\ k + 1 = n - m /\ m <= n
    BY <2>1
  <2> HIDE DEF k
  <2>3. SameBefore(N, N, n)
    BY StartFacts DEF SameBefore, SameAt
  <2>4. PICK f : Chain(N, k) = PairNode(f, Chain(N, k + 1))
    BY <2>2, <2>3, ChainHead DEF HeadSame
  <2>5. Getter(Chain(N, k), ChainGindex(m + 1, h, y)) = Getter(Chain(N, k + 1), ChainGindex(m, h, y))
    BY <2>4, ChainGetRest
  <2>6. QED
    BY <1>2, <2>2, <2>5 DEF k
<1>3. \A m \in Nat : m \in I
  <2> HIDE DEF I
  <2>1. QED
    BY <1>1, <1>2, SimpleInduction
<1>4. n \in I /\ n <= n /\ n - n = 0
  BY <1>3
<1>5. QED
  BY <1>4 DEF tree

\* The chain from subtree n on is replaced.
LEMMA SetSpine ==
  ASSUME NEW N, NEW M, Len(N) \in Nat, Len(M) \in Nat, NEW n \in Nat, SameBefore(N, M, n),
         NEW expand
  PROVE  Setter(Chain(N, 0), SpineIn(n), Chain(M, n), expand) = Chain(M, 0)
<1>0. \A k \in Nat : k < n => HeadSame(N, M, k)
  BY ChainHead
<1> DEFINE I == {m \in Nat : m <= n =>
                   Setter(Chain(N, n - m), SpineIn(m), Chain(M, n), expand) = Chain(M, n - m)}
<1>1. 0 \in I
  <2>1. n - 0 = n /\ 0 \in Nat
    OBVIOUS
  <2>2. Setter(Chain(N, n), SpineIn(0), Chain(M, n), expand) = Chain(M, n)
    BY SpineSetRoot
  <2>3. QED
    BY <2>1, <2>2
<1>2. ASSUME NEW m \in Nat, m \in I PROVE m + 1 \in I
  <2>1. SUFFICES ASSUME m + 1 <= n
                 PROVE  Setter(Chain(N, n - (m + 1)), SpineIn(m + 1), Chain(M, n), expand)
                          = Chain(M, n - (m + 1))
    OBVIOUS
  <2> DEFINE k == n - (m + 1)
  <2>2. k \in Nat /\ k < n /\ k + 1 = n - m /\ m <= n
    BY <2>1
  <2> HIDE DEF k
  <2>3. PICK f : /\ Chain(N, k) = PairNode(f, Chain(N, k + 1))
                 /\ Chain(M, k) = PairNode(f, Chain(M, k + 1))
    BY <1>0, <2>2 DEF HeadSame
  <2>4. Setter(Chain(N, k), SpineIn(m + 1), Chain(M, n), expand)
          = PairNode(f, Setter(Chain(N, k + 1), SpineIn(m), Chain(M, n), expand))
    BY <2>3, SpineSetRest
  <2>5. QED
    BY <1>2, <2>2, <2>3, <2>4 DEF k
<1>3. \A m \in Nat : m \in I
  <2> HIDE DEF I
  <2>1. QED
    BY <1>1, <1>2, SimpleInduction
<1>4. n \in I /\ n <= n /\ n - n = 0
  BY <1>3
<1>5. QED
  BY <1>4

\* A node of subtree n is replaced.
LEMMA SetChain ==
  ASSUME NEW N, NEW M, Len(N) \in Nat, Len(M) \in Nat, NEW n \in Nat, SameBefore(N, M, n),
         Start(n) < Len(N), Start(n) < Len(M), Chain(N, n + 1) = Chain(M, n + 1),
         NEW h \in Nat, NEW y \in 0 .. 2^h - 1, NEW new, NEW expand,
         Setter(SubtreeFillToContents(N, 2 * n, Start(n)), ToGindex(y, h), new, expand)
           = SubtreeFillToContents(M, 2 * n, Start(n))
  PROVE  Setter(Chain(N, 0), ChainGindex(n, h, y), new, expand) = Chain(M, 0)
<1>0. \A k \in Nat : k < n => HeadSame(N, M, k)
  BY ChainHead
<1> DEFINE tree(K) == SubtreeFillToContents(K, 2 * n, Start(n))
           I == {m \in Nat : m <= n =>
                   Setter(Chain(N, n - m), ChainGindex(m, h, y), new, expand) = Chain(M, n - m)}
<1>1. 0 \in I
  <2>1. n - 0 = n /\ 0 \in Nat
    OBVIOUS
  <2>2. Chain(N, n) = PairNode(tree(N), Chain(N, n + 1)) /\ Chain(M, n) = PairNode(tree(M), Chain(M, n + 1))
    BY ChainFacts
  <2>3. Setter(PairNode(tree(N), Chain(N, n + 1)), ChainGindex(0, h, y), new, expand)
          = PairNode(Setter(tree(N), ToGindex(y, h), new, expand), Chain(N, n + 1))
    BY ChainSetFirst
  <2>4. Setter(Chain(N, n), ChainGindex(0, h, y), new, expand) = Chain(M, n)
    BY <2>2, <2>3
  <2>5. QED
    BY <2>1, <2>4
<1>2. ASSUME NEW m \in Nat, m \in I PROVE m + 1 \in I
  <2>1. SUFFICES ASSUME m + 1 <= n
                 PROVE  Setter(Chain(N, n - (m + 1)), ChainGindex(m + 1, h, y), new, expand)
                          = Chain(M, n - (m + 1))
    OBVIOUS
  <2> DEFINE k == n - (m + 1)
  <2>2. k \in Nat /\ k < n /\ k + 1 = n - m /\ m <= n
    BY <2>1
  <2> HIDE DEF k
  <2>3. PICK f : /\ Chain(N, k) = PairNode(f, Chain(N, k + 1))
                 /\ Chain(M, k) = PairNode(f, Chain(M, k + 1))
    BY <1>0, <2>2 DEF HeadSame
  <2>4. Setter(Chain(N, k), ChainGindex(m + 1, h, y), new, expand)
          = PairNode(f, Setter(Chain(N, k + 1), ChainGindex(m, h, y), new, expand))
    BY <2>3, ChainSetRest
  <2>5. QED
    BY <1>2, <2>2, <2>3, <2>4 DEF k
<1>3. \A m \in Nat : m \in I
  <2> HIDE DEF I
  <2>1. QED
    BY <1>1, <1>2, SimpleInduction
<1>4. n \in I /\ n <= n /\ n - n = 0
  BY <1>3
<1>5. QED
  BY <1>4

\* A subtree is begun at the end of a chain, and then set.
LEMMA BeginSubtree ==
  ASSUME NEW N, NEW M, Len(N) \in Nat, Len(M) \in Nat, NEW n \in Nat, SameBefore(N, M, n),
         NEW old, NEW new, NEW rest, Chain(M, n) = PairNode(new, rest), NEW expand
  PROVE  LET begun == Setter(Chain(N, 0), SpineIn(n), PairNode(old, rest), expand)
         IN /\ Getter(begun, RootIn(n)) = old
            /\ Setter(begun, RootIn(n), new, expand) = Chain(M, 0)
<1>0. \A k \in Nat : k < n => HeadSame(N, M, k)
  BY ChainHead
<1> DEFINE begun(m) == Setter(Chain(N, n - m), SpineIn(m), PairNode(old, rest), expand)
           I == {m \in Nat : m <= n =>
                   /\ Getter(begun(m), RootIn(m)) = old
                   /\ Setter(begun(m), RootIn(m), new, expand) = Chain(M, n - m)}
<1>2. 0 \in I
  <2>1. n - 0 = n /\ 0 \in Nat
    OBVIOUS
  <2>2. Setter(Chain(N, n), SpineIn(0), PairNode(old, rest), expand) = PairNode(old, rest)
    BY SpineSetRoot
  <2>3. begun(0) = PairNode(old, rest)
    BY <2>1, <2>2
  <2>4. Getter(PairNode(old, rest), RootIn(0)) = old
        /\ Setter(PairNode(old, rest), RootIn(0), new, expand) = PairNode(new, rest)
    BY RootInFirst, RootInFirstGet
  <2> HIDE DEF begun
  <2>5. QED
    BY <2>1, <2>3, <2>4
<1>3. ASSUME NEW m \in Nat, m \in I PROVE m + 1 \in I
  <2>1. SUFFICES ASSUME m + 1 <= n
                 PROVE  /\ Getter(begun(m + 1), RootIn(m + 1)) = old
                        /\ Setter(begun(m + 1), RootIn(m + 1), new, expand)
                             = Chain(M, n - (m + 1))
    OBVIOUS
  <2> DEFINE k == n - (m + 1)
  <2>2. k \in Nat /\ k < n /\ k + 1 = n - m /\ m <= n
    BY <2>1
  <2>3. begun(m + 1) = Setter(Chain(N, k), SpineIn(m + 1), PairNode(old, rest), expand)
        /\ begun(m) = Setter(Chain(N, k + 1), SpineIn(m), PairNode(old, rest), expand)
    BY <2>2
  <2> HIDE DEF k, begun
  <2>4. PICK f : /\ Chain(N, k) = PairNode(f, Chain(N, k + 1))
                 /\ Chain(M, k) = PairNode(f, Chain(M, k + 1))
    BY <1>0, <2>2 DEF HeadSame
  <2>5. begun(m + 1) = PairNode(f, begun(m))
    <3>1. Setter(PairNode(f, Chain(N, k + 1)), SpineIn(m + 1), PairNode(old, rest), expand)
            = PairNode(f, Setter(Chain(N, k + 1), SpineIn(m), PairNode(old, rest), expand))
      BY SpineSetRest
    <3>2. QED
      BY <2>3, <2>4, <3>1
  <2>6. Getter(PairNode(f, begun(m)), RootIn(m + 1)) = Getter(begun(m), RootIn(m))
    BY RootInRestGet
  <2>7. Setter(PairNode(f, begun(m)), RootIn(m + 1), new, expand)
          = PairNode(f, Setter(begun(m), RootIn(m), new, expand))
    BY RootInRest
  <2>8. /\ Getter(begun(m), RootIn(m)) = old
        /\ Setter(begun(m), RootIn(m), new, expand) = Chain(M, n - m)
    BY <1>3, <2>2
  <2>9. QED
    BY <2>2, <2>4, <2>5, <2>6, <2>7, <2>8 DEF k
<1>4. \A m \in Nat : m \in I
  <2> HIDE DEF I
  <2>1. QED
    BY <1>2, <1>3, SimpleInduction
<1>5. n \in I /\ n <= n /\ n - n = 0
  BY <1>4
<1>6. QED
  BY <1>5

-----------------------------------------------------------------------------
(***************************************************************************)
(* Where the subtrees and the chunks of a list are                         *)
(***************************************************************************)

\* The gindex of the pair of a subtree, as a number
LEMMA SpineNumber ==
  ASSUME NEW k \in Nat
  PROVE  SpineAt(k) = 3 * 2^k - 1
<1> DEFINE I == {n \in Nat : SpineAt(n) = 3 * 2^n - 1}
<1>1. 0 \in I
  <2>1. SpineAt(0) = 2 /\ 2^0 = 1
    BY SpineAtDef, PowerFacts
  <2>2. QED
    BY <2>1
<1>2. ASSUME NEW n \in Nat, n \in I PROVE n + 1 \in I
  <2>1. n + 1 \in Nat /\ n + 1 # 0 /\ (n + 1) - 1 = n
    OBVIOUS
  <2>2. SpineAt(n + 1) = 2 * SpineAt((n + 1) - 1) + 1
    BY <2>1, SpineAtDef
  <2>3. 2^(n + 1) = 2 * 2^n /\ 2^n \in Nat
    BY PowerFacts
  <2>4. QED
    BY <1>2, <2>1, <2>2, <2>3
<1>3. \A n \in Nat : n \in I
  <2> HIDE DEF I
  <2>1. QED
    BY <1>1, <1>2, SimpleInduction
<1>4. QED
  BY <1>3

\* The pair that holds the k-th subtree, and the k-th subtree
SubtreeGindex(k) == ListGindex(k, 0, 0)

\* The pair of a subtree, the subtree, and the pair of the next one
LEMMA SpineFacts ==
  ASSUME NEW k \in Nat
  PROVE  /\ SpineAt(k) \in Nat /\ SpineAt(k) = ListSpine(k)
         /\ 2 * SpineAt(k) = SubtreeGindex(k)
         /\ 2 * SpineAt(k) + 1 = SpineAt(k + 1)
<1>1. SpineAt(k) = 3 * 2^k - 1 /\ 2^k \in Nat \ {0}
  BY SpineNumber, PowerFacts
<1>2. ListSpine(k) = 2 * 2^k + (2^k - 1)
  BY DEF ListSpine, HalfGindex
<1>3. SubtreeGindex(k) = 2 * 2^(k + 1) + (2^k - 1) * 2
  <2>1. k + 1 + 0 = k + 1 /\ 0 + 1 = 1 /\ 2^1 = 2
    BY PowerFacts
  <2>2. QED
    BY <1>1, <2>1, PowerFacts DEF SubtreeGindex, ListGindex, HalfGindex, ChainPlace
<1>4. 2^(k + 1) = 2 * 2^k
  BY PowerFacts
<1>5. SpineAt(k + 1) = 2 * SpineAt((k + 1) - 1) + 1 /\ (k + 1) - 1 = k
  BY SpineAtDef
<1>6. QED
  BY <1>1, <1>2, <1>3, <1>4, <1>5

\* The gindex of a node below the pair of a subtree
LEMMA ChunkGindex ==
  ASSUME NEW k \in Nat, NEW d \in Nat, NEW y \in Nat
  PROVE  SpineAt(k) * 2^(1 + d) + y = ListGindex(k, d, y)
<1> DEFINE A == 2^k
           H == 2^(1 + d)
<1>1. A \in Nat \ {0} /\ H \in Nat /\ SpineAt(k) = 3 * A - 1
  <2>1. 1 + d \in Nat
    OBVIOUS
  <2>2. QED
    BY <2>1, PowerFacts, SpineNumber
<1>2. 2^(k + 1 + d) = A * H /\ 2^(d + 1) = H
  <2>1. k + 1 + d = k + (1 + d) /\ 1 + d \in Nat /\ d + 1 = 1 + d
    OBVIOUS
  <2>2. 2^(k + (1 + d)) = 2^k * 2^(1 + d)
    BY <2>1, PowerSum
  <2>3. QED
    BY <2>1, <2>2
<1>3. ListGindex(k, d, y) = (2 + 0) * (A * H) + ((A - 1) * H + y)
  BY <1>2 DEF ListGindex, HalfGindex, ChainPlace
<1> HIDE DEF A, H
<1>4. A * H \in Nat /\ (A - 1) * H = A * H - H /\ (3 * A - 1) * H = 3 * (A * H) - H
  BY <1>1
<1>5. QED
  BY <1>1, <1>3, <1>4 DEF H

\* The chunk c is in the k-th subtree.
InSubtree(c, k) == Start(k) <= c /\ c < Start(k + 1)

\* The loop finds the subtree of the chunk, and its place in there.
LEMMA DescendFacts ==
  ASSUME NEW c \in Nat, NEW k \in Nat, InSubtree(c, k)
  PROVE  Descend(c) = [gindex |-> ListGindex(k, 2 * k, c - Start(k)), depth |-> 2 * k,
                       chunk_i |-> c - Start(k)]
<1> DEFINE found == [gindex |-> ListGindex(k, 2 * k, c - Start(k)), depth |-> 2 * k,
                     chunk_i |-> c - Start(k)]
           At(n) == DescendAt(c - Start(n), SpineAt(n), 2 * n)
           I == {m \in Nat : m <= k => At(k - m) = found}
<1>1. /\ Start(k) \in Nat /\ Start(k + 1) = Start(k) + Width(k) /\ 2 * k \in Nat
      /\ Width(k) \in Nat \ {0}
  BY StartFacts
<1>2. At(k) = found
  <2> DEFINE d == 2 * k
             y == c - Start(k)
  <2>1. d \in Nat /\ y \in Nat /\ y < 2^d /\ SpineAt(k) \in Nat
    BY <1>1, SpineFacts DEF InSubtree, Width
  <2> HIDE DEF d, y
  <2>2. DescendAt(y, SpineAt(k), d)
          = [gindex |-> SpineAt(k) * 2^(1 + d) + y, depth |-> d, chunk_i |-> y]
    BY <2>1, DescendAtDef
  <2>3. SpineAt(k) * 2^(1 + d) + y = ListGindex(k, d, y)
    BY <2>1, ChunkGindex
  <2>4. DescendAt(y, SpineAt(k), d) = [gindex |-> ListGindex(k, d, y), depth |-> d, chunk_i |-> y]
    BY <2>2, <2>3
  <2>5. QED
    BY <2>4 DEF d, y
<1>3. ASSUME NEW n \in Nat, n < k PROVE At(n) = At(n + 1)
  <2>1. Start(n + 1) <= Start(k)
    BY <1>3, StartMonotone
  <2>2. Start(n) \in Nat /\ Start(n + 1) = Start(n) + Width(n) /\ 2 * n \in Nat /\ n + 1 \in Nat
        /\ Width(n) \in Nat \ {0}
    BY StartFacts
  <2> DEFINE d == 2 * n
             y == c - Start(n)
  <2>3. d \in Nat /\ y \in Nat /\ ~(y < 2^d) /\ SpineAt(n) \in Nat
    BY <1>1, <2>1, <2>2, SpineFacts DEF InSubtree, Width
  <2>4. y - 2^d = c - Start(n + 1) /\ d + 2 = 2 * (n + 1)
    BY <2>2 DEF Width
  <2> HIDE DEF d, y
  <2>5. DescendAt(y, SpineAt(n), d) = DescendAt(y - 2^d, 2 * SpineAt(n) + 1, d + 2)
    BY <2>3, DescendAtDef
  <2>6. 2 * SpineAt(n) + 1 = SpineAt(n + 1)
    BY SpineFacts
  <2>7. QED
    BY <2>4, <2>5, <2>6 DEF d, y
<1> HIDE DEF At
<1>4. 0 \in I
  <2>1. k - 0 = k
    OBVIOUS
  <2>2. QED
    BY <1>2, <2>1
<1>5. ASSUME NEW m \in Nat, m \in I PROVE m + 1 \in I
  <2>1. SUFFICES ASSUME m + 1 <= k PROVE At(k - (m + 1)) = found
    OBVIOUS
  <2> DEFINE n == k - (m + 1)
  <2>2. n \in Nat /\ n < k /\ n + 1 = k - m /\ m <= k
    BY <2>1
  <2> HIDE DEF n
  <2>3. At(n) = At(n + 1)
    BY <1>3, <2>2
  <2>4. At(k - m) = found
    BY <1>5, <2>2
  <2>5. QED
    BY <2>2, <2>3, <2>4 DEF n
<1>6. \A m \in Nat : m \in I
  <2> HIDE DEF I
  <2>1. QED
    BY <1>4, <1>5, SimpleInduction
<1>7. At(k - k) = found
  <2>1. k \in I /\ k <= k
    BY <1>6
  <2>2. QED
    BY <2>1
<1>8. k - k = 0 /\ Start(0) = 0 /\ c - 0 = c /\ 2 * 0 = 0 /\ SpineAt(0) = 2
  BY StartZero, SpineAtDef
<1>9. Descend(c) = DescendAt(c, 2, 0)
  BY DEF Descend, DescendAt
<1>10. QED
  BY <1>7, <1>8, <1>9 DEF At

\* A subtree is found by its depth.
LEMMA SpineOfDepth ==
  ASSUME NEW k \in Nat
  PROVE  Spine(2 * k) = ListSpine(k)
<1>1. (2 * k + 1) \div 2 = k
  OBVIOUS
<1>2. Spine(2 * k) = SpineAt((2 * k + 1) \div 2)
  BY DEF Spine, SpineAt
<1>3. QED
  BY <1>1, <1>2, SpineFacts

\* The chunk of element i is within the bounds of some list.
LEMMA ToGindexFacts ==
  ASSUME NEW c \in ChunkIndexes, NEW k \in Nat, InSubtree(c, k)
  PROVE  ToGindexProgressive[c]
           = [gindex |-> ListGindex(k, 2 * k, c - Start(k)), depth |-> 2 * k,
              chunk_i |-> c - Start(k)]
<1>1. c \in Nat
  BY ListAssumption DEF ChunkIndexes
<1>2. Descend(c) = [gindex |-> ListGindex(k, 2 * k, c - Start(k)), depth |-> 2 * k,
                    chunk_i |-> c - Start(k)]
  BY <1>1, DescendFacts
<1>3. QED
  BY <1>2 DEF ToGindexProgressive

\* The index of an element in its subtree counts the chunks before it there.
LEMMA ToTargetFacts ==
  ASSUME NEW packed, NEW i \in Nat, i \div PerChunk(packed) \in ChunkIndexes,
         NEW k \in Nat, InSubtree(i \div PerChunk(packed), k)
  PROVE  ToTargetProgressive(packed, i)
           = [gindex |-> ListSpine(k), depth |-> 2 * k,
              i |-> (i \div PerChunk(packed) - Start(k)) * PerChunk(packed)
                      + (i % PerChunk(packed))]
<1> DEFINE c == i \div PerChunk(packed)
<1> HIDE DEF c
<1>1. ToGindexProgressive[c]
        = [gindex |-> ListGindex(k, 2 * k, c - Start(k)), depth |-> 2 * k,
           chunk_i |-> c - Start(k)]
  BY ToGindexFacts DEF c
<1>2. Spine(2 * k) = ListSpine(k)
  BY SpineOfDepth
<1>3. ToTargetProgressive(packed, i)
        = [gindex |-> Spine(ToGindexProgressive[c].depth), depth |-> ToGindexProgressive[c].depth,
           i |-> ToGindexProgressive[c].chunk_i * PerChunk(packed) + (i % PerChunk(packed))]
  BY DEF ToTargetProgressive, c
<1>4. QED
  BY <1>1, <1>2, <1>3 DEF c

-----------------------------------------------------------------------------
(***************************************************************************)
(* append_view and pop_and_summarize on a subtree                          *)
(***************************************************************************)

\* Leaf x of a tree of a depth is the leftmost leaf of the o-th subtree of
\* height h, which is a right-hand one.
Top(depth, x, t, h, o) ==
  /\ t + h = depth
  /\ o % 2 = 1
  /\ x = Place(0, o, h)
  /\ Summit(ToGindex(x, depth)) = ToGindex(o, t)

\* Every leaf but the first begins such a subtree, or is one itself.
LEMMA TopExists ==
  ASSUME NEW depth \in Nat, NEW x \in 1 .. 2^depth - 1
  PROVE  \E t, h \in Nat : \E o \in 0 .. 2^t - 1 : Top(depth, x, t, h, o)
<1> DEFINE Some(n, y) == \E t, h \in Nat : \E o \in 0 .. 2^t - 1 : Top(n, y, t, h, o)
           I == {n \in Nat : \A y \in 1 .. 2^n - 1 : Some(n, y)}
<1>1. 0 \in I
  BY PowerFacts
<1>2. ASSUME NEW n \in Nat, n \in I PROVE n + 1 \in I
  <2>1. ASSUME NEW y \in 1 .. 2^(n + 1) - 1 PROVE Some(n + 1, y)
    <3>1. 2^(n + 1) = 2 * 2^n /\ 2^n \in Nat \ {0} /\ n + 1 \in Nat
      BY PowerFacts
    <3>2. ToGindex(y, n + 1) = 2 * 2^n + y /\ ToGindex(y, n + 1) \in Nat
      BY <3>1 DEF ToGindex
    <3>3. CASE y % 2 = 1
      <4>1. ToGindex(y, n + 1) % 2 = 1
        BY <3>1, <3>2, <3>3
      <4>2. Summit(ToGindex(y, n + 1)) = ToGindex(y, n + 1)
        BY <3>2, <4>1, SummitDef
      <4>3. y \in Nat /\ Place(0, y, 0) = y /\ 0 \in Nat /\ (n + 1) + 0 = n + 1
        BY PowerFacts DEF Place
      <4>4. Top(n + 1, y, n + 1, 0, y)
        BY <3>3, <4>2, <4>3 DEF Top
      <4>5. y \in 0 .. 2^(n + 1) - 1
        OBVIOUS
      <4>6. QED
        BY <3>1, <4>3, <4>4, <4>5
    <3>4. CASE y % 2 = 0
      <4> DEFINE z == y \div 2
      <4>1. y = 2 * z /\ z \in 1 .. 2^n - 1
        BY <3>1, <3>4
      <4> HIDE DEF z
      <4>2. ToGindex(y, n + 1) > 2 /\ ToGindex(y, n + 1) % 2 = 0
            /\ ToGindex(y, n + 1) \div 2 = ToGindex(z, n)
        <5>1. ToGindex(z, n) = 2^n + z
          BY DEF ToGindex
        <5>2. QED
          BY <3>1, <3>2, <4>1, <5>1
      <4>3. Summit(ToGindex(y, n + 1)) = Summit(ToGindex(z, n))
        <5>1. Summit(ToGindex(y, n + 1)) = Summit(ToGindex(y, n + 1) \div 2)
          BY <3>2, <4>2, SummitDef
        <5>2. QED
          BY <4>2, <5>1
      <4>4. PICK t, h \in Nat : \E o \in 0 .. 2^t - 1 : Top(n, z, t, h, o)
        BY <1>2, <4>1
      <4>5. PICK o \in 0 .. 2^t - 1 : Top(n, z, t, h, o)
        BY <4>4
      <4>6. z = o * 2^h /\ 2^(h + 1) = 2 * 2^h /\ 2^h \in Nat /\ o \in Nat /\ t + h = n
        BY <4>5, PowerFacts DEF Top, Place
      <4>7. y = o * (2 * 2^h)
        <5>1. 2 * (o * 2^h) = o * (2 * 2^h)
          BY <4>6
        <5>2. QED
          BY <4>1, <4>6, <5>1
      <4>8. y = Place(0, o, h + 1) /\ t + (h + 1) = n + 1 /\ h + 1 \in Nat
        BY <4>6, <4>7 DEF Place
      <4>9. Top(n + 1, y, t, h + 1, o)
        BY <4>3, <4>5, <4>8 DEF Top
      <4>10. QED
        BY <4>8, <4>9
    <3>5. QED
      BY <3>3, <3>4
  <2>2. QED
    BY <2>1
<1>3. \A n \in Nat : n \in I
  <2> HIDE DEF I
  <2>1. QED
    BY <1>1, <1>2, SimpleInduction
<1>4. QED
  BY <1>3

\* A root of which no more is known is its own root.
LEMMA RootZero ==
  ASSUME NEW node, NEW H \in Nat, NEW g \in Nat, NEW d, Getter(node, g) = Zero(d)
  PROVE  RootAt(node, H, g) = Zero(d)
<1>1. ~IsPair(Getter(node, g)) /\ "root" \notin DOMAIN Getter(node, g)
  BY PairFacts
<1> DEFINE n == Getter(node, g)
           left == RootAt(node, H - 1, 2 * g)
           right == RootAt(node, H - 1, 2 * g + 1)
           two == IF left = right /\ "zero" \in DOMAIN left THEN Zero(left.zero + 1)
                  ELSE PairNode(left, right)
<1>2. RootAt(node, H, g) = IF H > 0 /\ IsPair(n) THEN two
                           ELSE IF "root" \in DOMAIN n THEN n.root ELSE n
  BY RootAtDef
<1> HIDE DEF two
<1>3. QED
  BY <1>1, <1>2

\* l and r are the children of g, at which a tree may be k levels high where
\* it may be H levels high at g.
Halves(H, g, k, l, r) == H > 0 /\ k = H - 1 /\ l = 2 * g /\ r = 2 * g + 1

\* The root of two trees of zeros
LEMMA RootPair ==
  ASSUME NEW node, NEW k, NEW l, NEW r, NEW d \in Nat, NEW H \in Nat, NEW g \in Nat,
         IsPair(Getter(node, g)), Halves(H, g, k, l, r),
         RootAt(node, k, l) = Zero(d), RootAt(node, k, r) = Zero(d)
  PROVE  RootAt(node, H, g) = Zero(d + 1)
<1> DEFINE n == Getter(node, g)
           left == RootAt(node, k, l)
           right == RootAt(node, k, r)
           leaf == IF "root" \in DOMAIN n THEN n.root ELSE n
<1>1. left = right /\ "zero" \in DOMAIN left /\ left.zero = d
  BY PairFacts
<1>2. RootAt(node, H, g) = IF H > 0 /\ IsPair(n)
                           THEN IF left = right /\ "zero" \in DOMAIN left THEN Zero(left.zero + 1)
                                ELSE PairNode(left, right)
                           ELSE leaf
  BY RootAtDef DEF Halves
<1> HIDE DEF leaf, left, right
<1>3. RootAt(node, H, g) = Zero(left.zero + 1)
  BY <1>1, <1>2 DEF Halves
<1>4. QED
  BY <1>1, <1>3

\* A tree of which only a first leaf was set, and that to zeros
LEMMA RootOfZeros ==
  ASSUME NEW M, Len(M) \in Nat, NEW a \in Nat, Len(M) = a + 1, M[a + 1] = Zero(0),
         NEW h \in 0 .. MaxHeight
  PROVE  Root(SubtreeFillToContents(M, h, a)) = Zero(h)
<1> DEFINE node == SubtreeFillToContents(M, h, a)
           I == {n \in Nat : \A H, g \in Nat : n <= H /\ g # 0
                    /\ Getter(node, g) = SubtreeFillToContents(M, n, a)
                    => RootAt(node, H, g) = Zero(n)}
<1> HIDE DEF node
<1>1. 0 \in I
  <2>1. SubtreeFillToContents(M, 0, a) = Zero(0)
    <3>1. 0 \in Nat /\ a < Len(M)
      OBVIOUS
    <3>2. SubtreeFillToContents(M, 0, a) = M[a + 1]
      BY <3>1, FillFacts
    <3>3. QED
      BY <3>2
  <2>2. QED
    BY <2>1, RootZero
<1>2. ASSUME NEW n \in Nat, n \in I PROVE n + 1 \in I
  <2>1. ASSUME NEW H \in Nat, NEW g \in Nat, n + 1 <= H, g # 0,
               Getter(node, g) = SubtreeFillToContents(M, n + 1, a)
        PROVE  RootAt(node, H, g) = Zero(n + 1)
    <3> DEFINE fill == SubtreeFillToContents(M, n, a)
    <3>1. a + 2^n \in Nat /\ Len(M) <= a + 2^n
      BY PowerFacts
    <3>2. SubtreeFillToContents(M, n, a + 2^n) = Zero(n)
      BY <3>1, FillFacts
    <3>3. SubtreeFillToContents(M, n + 1, a) = PairNode(fill, SubtreeFillToContents(M, n, a + 2^n))
      BY FillFacts
    <3>4. Getter(node, g) = PairNode(fill, Zero(n))
      BY <2>1, <3>2, <3>3
    <3> HIDE DEF fill
    <3>5. IsPair(Getter(node, g)) /\ Child(Getter(node, g), "left") = fill
          /\ Child(Getter(node, g), "right") = Zero(n)
      <4>1. /\ IsPair(PairNode(fill, Zero(n))) /\ PairNode(fill, Zero(n)).left = fill
            /\ PairNode(fill, Zero(n)).right = Zero(n)
        BY PairFacts
      <4>2. QED
        BY <3>4, <4>1 DEF Child
    <3> DEFINE l == 2 * g
               r == 2 * g + 1
               k == H - 1
    <3>6. Getter(node, l) = fill /\ Getter(node, r) = Zero(n)
      <4>1. g \in Nat \ {0}
        BY <2>1
      <4>2. /\ Getter(node, 2 * g) = Child(Getter(node, g), "left")
            /\ Getter(node, 2 * g + 1) = Child(Getter(node, g), "right")
        BY <4>1, GetterFacts
      <4>3. QED
        BY <3>5, <4>2
    <3>7. l \in Nat /\ r \in Nat /\ l # 0 /\ k \in Nat /\ n <= k /\ H > 0
          /\ Halves(H, g, k, l, r)
      BY <2>1 DEF Halves
    <3> HIDE DEF l, r, k
    <3>8. RootAt(node, k, l) = Zero(n)
      BY <1>2, <3>6, <3>7 DEF fill
    <3>9. RootAt(node, k, r) = Zero(n)
      BY <3>6, <3>7, RootZero
    <3>10. QED
      BY <3>5, <3>7, <3>8, <3>9, RootPair
  <2>2. QED
    BY <2>1
<1>3. \A n \in Nat : n \in I
  <2> HIDE DEF I
  <2>1. QED
    BY <1>1, <1>2, SimpleInduction
<1>4. MaxHeight \in Nat /\ h \in Nat /\ 1 \in Nat /\ h <= MaxHeight
  BY ChunkAssumption
<1>5. Getter(node, 1) = SubtreeFillToContents(M, h, a)
  BY GetterFacts DEF node
<1>6. RootAt(node, MaxHeight, 1) = Zero(h)
  BY <1>3, <1>4, <1>5
<1>7. Root(node) = RootAt(node, MaxHeight, 1)
  BY DEF Root, RootAt
<1>8. QED
  BY <1>6, <1>7 DEF node

\* Node a, where the first is node 0
NodeAt(N, a) == N[a + 1]

SameBut(N, M, depth, s, a) == \A c \in s + 1 .. s + 2^depth : c # a + 1 => SameAt(N, M, c)

\* One leaf is set to the node that the other nodes have in its place.
LEMMA SetLeaf ==
  ASSUME NEW N, NEW M, NEW expand, NEW d \in Nat, NEW s \in Nat, NEW a \in Nat,
         NEW x \in 0 .. 2^d - 1,
         Len(N) \in Nat, Len(M) \in Nat, a = Place(s, x, 0), a < Len(M),
         Reached(N, a, 0, expand), SameBut(N, M, d, s, a)
  PROVE  Setter(SubtreeFillToContents(N, d, s), ToGindex(x, d), NodeAt(M, a), expand)
           = SubtreeFillToContents(M, d, s)
<1> DEFINE h == 0
<1>1. /\ h \in Nat /\ Levels(d, d, h) /\ a = Place(s, x, h)
      /\ SameElsewhere(N, M, d, s, h, a)
  <2>1. 2^0 = 1 /\ d + 0 = d
    BY PowerFacts
  <2>2. QED
    BY <2>1 DEF SameBut, SameElsewhere, Levels
<1>2. SubtreeFillToContents(M, h, a) = NodeAt(M, a)
  BY <1>1, FillFacts DEF NodeAt
<1>3. Fits(M, a, x) /\ Reached(N, a, h, expand)
  BY DEF Fits
<1> HIDE DEF h
<1>4. Setter(SubtreeFillToContents(N, d, s), ToGindex(x, d),
             SubtreeFillToContents(M, h, a), expand)
        = SubtreeFillToContents(M, d, s)
  BY <1>1, <1>3, SetFill
<1>5. QED
  BY <1>2, <1>4

\* A right-hand subtree of height h, of the last nodes, is set to zeros.
LEMMA SetZeros ==
  ASSUME NEW N, NEW M, NEW expand, NEW t \in Nat, NEW h \in Nat, NEW s \in Nat,
         NEW a \in Nat, NEW depth \in Nat, NEW o \in 0 .. 2^t - 1,
         Len(N) \in Nat, Len(M) \in Nat, Levels(depth, t, h), o % 2 = 1, a = Place(s, o, h),
         Len(N) = a + 1, Len(M) = a, \A c \in 1 .. a : SameAt(N, M, c)
  PROVE  Setter(SubtreeFillToContents(N, depth, s), ToGindex(o, t), Zero(h), expand)
           = SubtreeFillToContents(M, depth, s)
<1>1. SubtreeFillToContents(M, h, a) = Zero(h)
  BY FillFacts
<1>2. Fits(M, a, o) /\ Reached(N, a, h, expand)
  BY DEF Reached, Fits
<1>3. SameElsewhere(N, M, depth, s, h, a)
  <2>1. ASSUME NEW c \in s + 1 .. s + 2^depth, c \notin a + 1 .. a + 2^h PROVE SameAt(N, M, c)
    <3>1. c \in Nat /\ c >= 1 /\ 2^h \in Nat \ {0}
      BY PowerFacts
    <3>2. CASE c <= a
      BY <3>1, <3>2
    <3>3. CASE c > a + 2^h
      BY <3>1, <3>3 DEF SameAt
    <3>4. QED
      BY <2>1, <3>1, <3>2, <3>3
  <2>2. QED
    BY <2>1 DEF SameElsewhere
<1>4. Setter(SubtreeFillToContents(N, depth, s), ToGindex(o, t), SubtreeFillToContents(M, h, a),
             expand)
        = SubtreeFillToContents(M, depth, s)
  BY <1>2, <1>3, SetFill
<1>5. QED
  BY <1>1, <1>4

\* Element i is in chunk x of the nodes, at the offset in it.
In(packed, i, x, offset) ==
  /\ x = i \div PerChunk(packed)
  /\ offset = i % PerChunk(packed)

\* M is N with v put last, into node a (the first is 0), which is a new one for
\* the first element of a chunk.
AppendsTo(N, M, packed, v, a, offset) ==
  /\ Len(M) = a + 1
  /\ \A c \in 1 .. a : SameAt(N, M, c)
  /\ offset = 0 => Len(N) = a /\ NodeAt(M, a) = ElemNode(packed, v, Zero(0), 0)
  /\ offset # 0 => Len(N) = a + 1 /\ NodeAt(M, a) = ElemNode(packed, v, NodeAt(N, a), offset)

Packs(packed) == packed = TRUE

\* M is N without the last element, which is in node a: the only one in it, or
\* the place of it is set to zero.
RemovesFrom(N, M, packed, a, offset) ==
  /\ Len(N) = a + 1
  /\ \A c \in 1 .. a : SameAt(N, M, c)
  /\ offset = 0 => Len(M) = a
  /\ offset # 0 => /\ Len(M) = a + 1 /\ Packs(packed)
                   /\ NodeAt(M, a) = ElemNode(packed, 0, NodeAt(N, a), offset)

\* Then no other node differs.
LEMMA SameButLast ==
  ASSUME NEW N, NEW M, NEW d \in Nat, NEW s \in Nat, NEW a \in Nat,
         Len(N) \in a .. a + 1, Len(M) \in a .. a + 1, \A c \in 1 .. a : SameAt(N, M, c)
  PROVE  SameBut(N, M, d, s, a)
<1>1. ASSUME NEW c \in s + 1 .. s + 2^d, c # a + 1 PROVE SameAt(N, M, c)
  <2>1. c \in Nat /\ c >= 1
    OBVIOUS
  <2>2. CASE c <= a
    BY <2>1, <2>2
  <2>3. CASE c > a + 1
    BY <2>1, <2>3 DEF SameAt
  <2>4. QED
    BY <1>1, <2>1, <2>2, <2>3
<1>2. QED
  BY <1>1 DEF SameBut

\* What an element is put into is at the leaf.
LEMMA GetLeaf ==
  ASSUME NEW N, NEW d \in Nat, NEW s \in Nat, NEW a \in Nat, NEW x \in 0 .. 2^d - 1,
         Len(N) \in Nat, a = Place(s, x, 0), a < Len(N)
  PROVE  Getter(SubtreeFillToContents(N, d, s), ToGindex(x, d)) = NodeAt(N, a)
<1> DEFINE h == 0
<1>1. h \in Nat /\ IsSubtree(N, d, d, h, s, x, a)
  BY DEF Levels, IsSubtree
<1>2. SubtreeFillToContents(N, h, a) = NodeAt(N, a)
  BY <1>1, FillFacts DEF NodeAt
<1> HIDE DEF h
<1>3. Getter(SubtreeFillToContents(N, d, s), ToGindex(x, d))
        = SubtreeFillToContents(N, h, a)
  BY <1>1, GetFill
<1>4. QED
  BY <1>1, <1>2, <1>3

\* A leaf has the parity of its place, and a tree of several leaves is even.
LEMMA DepthIsPositive ==
  ASSUME NEW d \in Nat, NEW x \in 1 .. 2^d - 1
  PROVE  2^d % 2 = 0 /\ (2^d + x) % 2 = x % 2
<1>1. d # 0
  <2>1. ASSUME d = 0 PROVE FALSE
    <3>1. 2^d = 1
      BY <2>1, PowerFacts
    <3>2. QED
      BY <3>1
  <2>2. QED
    BY <2>1
<1>2. d - 1 \in Nat /\ (d - 1) + 1 = d
  BY <1>1
<1>3. 2^d = 2 * 2^(d - 1) /\ 2^(d - 1) \in Nat
  BY <1>2, PowerFacts
<1>4. QED
  BY <1>3

\* append_view makes the subtree of the nodes with the element.
LEMMA AppendViewFill ==
  ASSUME NEW N, NEW M, NEW packed, NEW v, NEW i \in Nat, NEW d \in Nat, NEW s \in Nat,
         NEW a \in Nat, NEW offset \in Nat, NEW x \in 0 .. 2^d - 1,
         Len(N) \in Nat, In(packed, i, x, offset), a = Place(s, x, 0),
         AppendsTo(N, M, packed, v, a, offset)
  PROVE  AppendView(SubtreeFillToContents(N, d, s), d, i, v, packed)
           = SubtreeFillToContents(M, d, s)
<1> DEFINE tree == SubtreeFillToContents(N, d, s)
<1>1. Len(M) = a + 1 /\ Len(M) \in Nat /\ a < Len(M) /\ Len(N) \in a .. a + 1
      /\ \A c \in 1 .. a : SameAt(N, M, c)
  BY DEF AppendsTo
<1>2. i \div PerChunk(packed) = x /\ i % PerChunk(packed) = offset
  BY DEF In
<1>3. SameBut(N, M, d, s, a)
  BY <1>1, SameButLast
<1>4. CASE offset = 0
  <2> DEFINE yes == TRUE
  <2>1. AppendView(tree, d, i, v, packed)
          = Setter(tree, ToGindex(x, d), ElemNode(packed, v, Zero(0), 0), yes)
    <3>1. (i % PerChunk(packed) = 0) = yes
      BY <1>2, <1>4
    <3>2. BaseChunk(tree, ToGindex(x, d), i, packed) = Zero(0)
      BY <1>2, <1>4 DEF BaseChunk
    <3>3. AppendView(tree, d, i, v, packed)
            = Setter(tree, ToGindex(x, d),
                     ElemNode(packed, v, BaseChunk(tree, ToGindex(x, d), i, packed), offset),
                     i % PerChunk(packed) = 0)
      BY <1>2 DEF AppendView
    <3> HIDE DEF yes
    <3>4. QED
      BY <3>1, <3>2, <3>3, <1>4
  <2>2. Reached(N, a, 0, yes)
    BY DEF Reached
  <2>3. NodeAt(M, a) = ElemNode(packed, v, Zero(0), 0)
    BY <1>4 DEF AppendsTo
  <2> HIDE DEF yes
  <2>4. Setter(tree, ToGindex(x, d), NodeAt(M, a), yes) = SubtreeFillToContents(M, d, s)
    BY <1>1, <1>3, <2>2, SetLeaf
  <2>5. QED
    BY <1>1, <2>1, <2>3, <2>4
<1>5. CASE offset # 0
  <2> DEFINE no == FALSE
  <2>1. Len(N) = a + 1 /\ a < Len(N)
    BY <1>1, <1>5 DEF AppendsTo
  <2>2. Getter(tree, ToGindex(x, d)) = NodeAt(N, a)
    BY <2>1, <1>1, GetLeaf
  <2>3. AppendView(tree, d, i, v, packed)
          = Setter(tree, ToGindex(x, d), ElemNode(packed, v, NodeAt(N, a), offset), no)
    <3>1. (i % PerChunk(packed) = 0) = no
      BY <1>2, <1>5
    <3>2. BaseChunk(tree, ToGindex(x, d), i, packed) = NodeAt(N, a)
      BY <1>2, <1>5, <2>2 DEF BaseChunk
    <3>3. AppendView(tree, d, i, v, packed)
            = Setter(tree, ToGindex(x, d),
                     ElemNode(packed, v, BaseChunk(tree, ToGindex(x, d), i, packed), offset),
                     i % PerChunk(packed) = 0)
      BY <1>2 DEF AppendView
    <3> HIDE DEF no
    <3>4. QED
      BY <3>1, <3>2, <3>3
  <2>4. Reached(N, a, 0, no)
    BY <2>1 DEF Reached
  <2>5. NodeAt(M, a) = ElemNode(packed, v, NodeAt(N, a), offset)
    BY <1>5 DEF AppendsTo
  <2> HIDE DEF no
  <2>6. Setter(tree, ToGindex(x, d), NodeAt(M, a), no) = SubtreeFillToContents(M, d, s)
    BY <1>1, <1>3, <2>4, SetLeaf
  <2>7. QED
    BY <1>1, <2>3, <2>5, <2>6
<1>6. QED
  BY <1>4, <1>5

\* pop_and_summarize makes the subtree of the nodes without the element.  For
\* an element that shares its chunk with others, the place of it is cleared.
LEMMA PopWithinChunk ==
  ASSUME NEW N, NEW M, NEW packed, NEW i \in Nat, NEW d \in Nat, NEW s \in Nat,
         NEW a \in Nat, NEW offset \in Nat, NEW x \in 0 .. 2^d - 1,
         offset # 0, Len(N) \in Nat, In(packed, i, x, offset), a = Place(s, x, 0),
         RemovesFrom(N, M, packed, a, offset)
  PROVE  PopAndSummarize(SubtreeFillToContents(N, d, s), d, i, packed)
           = SubtreeFillToContents(M, d, s)
<1> DEFINE tree == SubtreeFillToContents(N, d, s)
           no == FALSE
<1>1. /\ Len(N) = a + 1 /\ Len(M) = a + 1 /\ Len(M) \in Nat
      /\ a < Len(M) /\ a < Len(N) /\ Packs(packed)
      /\ NodeAt(M, a) = ElemNode(packed, 0, NodeAt(N, a), offset)
      /\ \A c \in 1 .. a : SameAt(N, M, c)
  BY DEF RemovesFrom
<1>2. i \div PerChunk(packed) = x /\ i % PerChunk(packed) = offset
  BY DEF In
<1>3. SameBut(N, M, d, s, a)
  BY <1>1, SameButLast
<1>4. Getter(tree, ToGindex(x, d)) = NodeAt(N, a)
  BY <1>1, GetLeaf
<1>5. PopAndSummarize(tree, d, i, packed)
        = Setter(tree, ToGindex(x, d), ElemNode(packed, 0, NodeAt(N, a), offset), no)
  <2>1. BaseChunk(tree, ToGindex(x, d), i, packed) = NodeAt(N, a)
    BY <1>2, <1>4 DEF BaseChunk
  <2>2. PopAndSummarize(tree, d, i, packed)
          = Setter(tree, ToGindex(x, d),
                   ElemNode(packed, 0, BaseChunk(tree, ToGindex(x, d), i, packed), offset), FALSE)
    BY <1>1, <1>2 DEF PopAndSummarize, Packs
  <2>3. QED
    BY <2>1, <2>2
<1>6. Reached(N, a, 0, no)
  BY <1>1 DEF Reached
<1> HIDE DEF no
<1>7. Setter(tree, ToGindex(x, d), NodeAt(M, a), no) = SubtreeFillToContents(M, d, s)
  BY <1>1, <1>3, <1>6, SetLeaf
<1>8. QED
  BY <1>1, <1>5, <1>7

\* A chunk that is begun with a zero is one of zeros.
LEMMA ZeroIsCleared ==
  ElemNode(TRUE, 0, Zero(0), 0) = Zero(0)
<1>1. Elems(Zero(0)) = [k \in 1 .. ElemsPerChunk |-> 0]
  BY DEF Elems, Zero
<1> DEFINE zeros == [Elems(Zero(0)) EXCEPT ![0 + 1] = 0]
<1>2. \A k \in DOMAIN zeros : zeros[k] = 0
  BY <1>1
<1>3. ElemNode(TRUE, 0, Zero(0), 0) = Chunk(zeros)
  BY DEF ElemNode, BackingFromBase
<1>4. QED
  BY <1>2, <1>3 DEF Chunk

\* For one that has a chunk of its own, the highest tree that it begins is
\* summarized: it has become a tree of zeros.
LEMMA PopWithChunk ==
  ASSUME NEW N, NEW M, NEW S, NEW packed, NEW i \in Nat, NEW d \in 0 .. MaxHeight, NEW s \in Nat,
         NEW a \in Nat, NEW x \in 1 .. 2^d - 1,
         M \in Seq(S), Len(N) \in Nat, In(packed, i, x, 0), packed \in BOOLEAN,
         a = Place(s, x, 0), RemovesFrom(N, M, packed, a, 0)
  PROVE  PopAndSummarize(SubtreeFillToContents(N, d, s), d, i, packed)
           = SubtreeFillToContents(M, d, s)
<1> DEFINE tree == SubtreeFillToContents(N, d, s)
           target == ToGindex(x, d)
           no == FALSE
           cleared == Setter(tree, target, Zero(0), no)
<1>1. Len(N) = a + 1 /\ Len(M) = a /\ Len(M) \in Nat
  BY DEF RemovesFrom
<1>2. i \div PerChunk(packed) = x /\ i % PerChunk(packed) = 0
  BY DEF In
<1>3. \A c \in 1 .. a : SameAt(N, M, c)
  BY DEF RemovesFrom
<1>4. x \in 0 .. 2^d - 1 /\ d \in Nat
  OBVIOUS
<1>5. PopAndSummarize(tree, d, i, packed)
        = IF target % 2 = 0 THEN SummarizeInto(cleared, Summit(target)) ELSE cleared
  <2>1. (IF packed THEN ElemNode(packed, 0, BaseChunk(tree, target, i, packed), 0) ELSE Zero(0))
          = Zero(0)
    <3>1. BaseChunk(tree, target, i, packed) = Zero(0)
      BY <1>2 DEF BaseChunk
    <3>2. CASE packed = TRUE
      BY <3>1, <3>2, ZeroIsCleared
    <3>3. CASE packed = FALSE
      BY <3>3
    <3>4. QED
      BY <3>2, <3>3
  <2>2. PopAndSummarize(tree, d, i, packed)
          = LET clear == Setter(tree, target,
                                IF packed THEN ElemNode(packed, 0, BaseChunk(tree, target, i, packed), 0)
                                ELSE Zero(0), FALSE)
            IN IF target % 2 = 0 /\ 0 = 0 THEN SummarizeInto(clear, Summit(target)) ELSE clear
    BY <1>2 DEF PopAndSummarize
  <2>3. QED
    BY <2>1, <2>2
<1> HIDE DEF no
<1>6. CASE x % 2 = 1
  <2>1. target % 2 # 0
    BY <1>6, <1>4, DepthIsPositive DEF ToGindex
  <2> DEFINE h == 0
  <2>2. h \in Nat /\ Levels(d, d, h) /\ a = Place(s, x, h)
    BY <1>4 DEF Levels
  <2> HIDE DEF h
  <2>3. Setter(tree, ToGindex(x, d), Zero(h), no) = SubtreeFillToContents(M, d, s)
    BY <1>1, <1>3, <1>4, <1>6, <2>2, SetZeros
  <2>4. QED
    BY <1>5, <2>1, <2>3 DEF h
<1>7. CASE x % 2 = 0
  <2> DEFINE L == Append(M, Zero(0))
  <2>1. /\ Len(L) = a + 1 /\ Len(L) \in Nat /\ L[a + 1] = Zero(0) /\ NodeAt(L, a) = Zero(0) /\ a < Len(L)
        /\ Len(L) \in a .. a + 1
        /\ \A c \in 1 .. a : L[c] = M[c]
    <3>1. Len(Append(M, Zero(0))) = Len(M) + 1 /\ Append(M, Zero(0))[Len(M) + 1] = Zero(0)
          /\ \A c \in 1 .. Len(M) : Append(M, Zero(0))[c] = M[c]
      OBVIOUS
    <3>2. QED
      BY <1>1, <3>1 DEF NodeAt
  <2>2. \A c \in 1 .. a : SameAt(L, M, c) /\ SameAt(N, L, c)
    <3> HIDE DEF L
    <3>1. QED
      BY <1>1, <1>3, <2>1 DEF SameAt
  <2>3. SameBut(N, L, d, s, a)
    <3>1. Len(N) \in a .. a + 1
      BY <1>1
    <3> HIDE DEF L
    <3>2. QED
      BY <2>1, <2>2, <3>1, SameButLast
  <2>4. Reached(N, a, 0, no)
    BY <1>1 DEF Reached
  <2> HIDE DEF L
  <2>5. Setter(tree, ToGindex(x, d), NodeAt(L, a), no) = SubtreeFillToContents(L, d, s)
    BY <1>1, <1>4, <2>1, <2>3, <2>4, SetLeaf
  <2>6. cleared = SubtreeFillToContents(L, d, s)
    BY <2>1, <2>5
  <2>7. PICK t, h \in Nat : \E o \in 0 .. 2^t - 1 : Top(d, x, t, h, o)
    BY <1>4, TopExists
  <2>8. PICK o \in 0 .. 2^t - 1 : Top(d, x, t, h, o)
    BY <2>7
  <2>9. /\ Levels(d, t, h) /\ o % 2 = 1 /\ Summit(target) = ToGindex(o, t) /\ Place(s, o, h) = a
        /\ h <= MaxHeight
    <3>1. t + h = d /\ o % 2 = 1 /\ x = Place(0, o, h) /\ Summit(target) = ToGindex(o, t)
      BY <2>8 DEF Top
    <3>2. o * 2^h \in Nat /\ 2^0 = 1
      BY PowerFacts
    <3>3. Place(s, o, h) = a
      BY <3>1, <3>2 DEF Place
    <3>4. QED
      BY <3>1, <3>3, ChunkAssumption DEF Levels
  <2>10. target % 2 = 0
    BY <1>7, <1>4, DepthIsPositive DEF ToGindex
  <2>11. Getter(cleared, ToGindex(o, t)) = SubtreeFillToContents(L, h, a)
    <3>1. Getter(SubtreeFillToContents(L, d, s), ToGindex(o, t)) = SubtreeFillToContents(L, h, a)
      <4>1. IsSubtree(L, d, t, h, s, o, a)
        BY <1>4, <2>1, <2>9 DEF IsSubtree
      <4>2. QED
        BY <4>1, GetFill
    <3>2. QED
      BY <2>6, <3>1
  <2>12. Root(SubtreeFillToContents(L, h, a)) = Zero(h)
    <3>1. h \in 0 .. MaxHeight
      BY <2>9
    <3>2. QED
      BY <1>1, <2>1, <3>1, RootOfZeros
  <2>13. SummarizeInto(cleared, Summit(target)) = Setter(cleared, ToGindex(o, t), Zero(h), no)
    <3>1. Root(Getter(cleared, ToGindex(o, t))) = Zero(h) /\ ~IsPair(Zero(h))
      BY <2>11, <2>12, PairFacts
    <3> HIDE DEF cleared, target
    <3>2. SummarizeInto(cleared, ToGindex(o, t)) = Setter(cleared, ToGindex(o, t), Zero(h), FALSE)
      BY <3>1 DEF SummarizeInto
    <3>3. QED
      BY <2>9, <3>2 DEF no
  <2>14. Setter(SubtreeFillToContents(L, d, s), ToGindex(o, t), Zero(h), no)
           = SubtreeFillToContents(M, d, s)
    <3>1. QED
      BY <1>1, <1>4, <2>1, <2>2, <2>9, SetZeros
  <2>15. QED
    BY <1>5, <2>6, <2>10, <2>13, <2>14
<1>8. x % 2 = 0 \/ x % 2 = 1
  OBVIOUS
<1>9. QED
  BY <1>6, <1>7, <1>8

-----------------------------------------------------------------------------
(***************************************************************************)
(* The elements in the chunks                                              *)
(***************************************************************************)

\* A function on the numbers up to n is a sequence.
LEMMA FunctionSeq ==
  ASSUME NEW n \in Nat, NEW S, NEW f \in [1 .. n -> S]
  PROVE  f \in Seq(S) /\ Len(f) = n
<1>1. f \in Seq(S)
  BY SeqDef
<1>2. Len(f) \in Nat /\ 1 .. Len(f) = 1 .. n
  BY <1>1, LenProperties
<1>3. n <= Len(f)
  <2>1. n # 0 => n \in 1 .. n
    OBVIOUS
  <2>2. QED
    BY <1>2, <2>1
<1>4. Len(f) <= n
  <2>1. Len(f) # 0 => Len(f) \in 1 .. Len(f)
    BY <1>2
  <2>2. QED
    BY <1>2, <2>1
<1>5. QED
  BY <1>1, <1>2, <1>3, <1>4

\* The numbers put in a chunk are the numbers in it.
LEMMA ElementsOf ==
  ASSUME NEW elems, elems = [k \in 1 .. ElemsPerChunk |-> elems[k]]
  PROVE  Elems(Chunk(elems)) = elems
<1>1. CASE \A k \in DOMAIN elems : elems[k] = 0
  <2>1. Chunk(elems) = Zero(0)
    BY <1>1 DEF Chunk
  <2>2. Elems(Zero(0)) = [k \in 1 .. ElemsPerChunk |-> 0]
    BY DEF Elems, Zero
  <2>3. \A k \in 1 .. ElemsPerChunk : elems[k] = 0
    <3>1. DOMAIN elems = DOMAIN [k \in 1 .. ElemsPerChunk |-> elems[k]]
      OBVIOUS
    <3>2. QED
      BY <1>1, <3>1
  <2>4. QED
    BY <2>1, <2>2, <2>3
<1>2. CASE ~\A k \in DOMAIN elems : elems[k] = 0
  BY <1>2 DEF Chunk, Elems
<1>3. QED
  BY <1>1, <1>2

\* The number in a node of a number
LEMMA UintFacts ==
  ASSUME NEW n
  PROVE  UintOf(UintNode(n)) = n
<1> DEFINE elems == [Elems(Zero(0)) EXCEPT ![0 + 1] = n]
<1>1. Elems(Zero(0)) = [k \in 1 .. ElemsPerChunk |-> 0]
  BY DEF Elems, Zero
<1>2. 1 \in 1 .. ElemsPerChunk
  BY ChunkAssumption
<1>3. elems = [k \in 1 .. ElemsPerChunk |-> elems[k]] /\ elems[1] = n
  <2> DEFINE zeros == Elems(Zero(0))
             j == 0 + 1
  <2>0. j = 1 /\ DOMAIN [k \in 1 .. ElemsPerChunk |-> 0] = 1 .. ElemsPerChunk
    OBVIOUS
  <2>1. j = 1 /\ j \in DOMAIN zeros /\ DOMAIN zeros = 1 .. ElemsPerChunk
    <3> HIDE DEF j
    <3>1. QED
      BY <1>1, <1>2, <2>0
  <2> HIDE DEF zeros, j
  <2>2. [zeros EXCEPT ![j] = n] = [k \in 1 .. ElemsPerChunk |-> [zeros EXCEPT ![j] = n][k]]
        /\ [zeros EXCEPT ![j] = n][j] = n
    BY <2>1
  <2>3. QED
    BY <2>1, <2>2 DEF zeros, j
<1>4. UintNode(n) = Chunk(elems)
  BY DEF UintNode, BackingFromBase
<1> HIDE DEF elems
<1>5. Elems(Chunk(elems)) = elems
  BY <1>3, ElementsOf
<1>6. QED
  BY <1>3, <1>4, <1>5 DEF UintOf

-----------------------------------------------------------------------------
(***************************************************************************)
(* Chunks and the elements in them: element i is in chunk i \div e.        *)
(***************************************************************************)

\* Multiples grow with their factor, by steps.
LEMMA Multiples ==
  ASSUME NEW e \in Nat \ {0}, NEW c \in Nat, NEW d \in Nat
  PROVE  /\ c * e \in Nat /\ (c + 1) * e = c * e + e
         /\ c < d => c * e + e <= d * e
         /\ c <= d => c * e <= d * e
<1>1. c * e \in Nat /\ (c + 1) * e = c * e + e /\ d * e \in Nat
  OBVIOUS
<1>2. ASSUME c < d PROVE c * e + e <= d * e
  <2>1. d - c - 1 \in Nat
    BY <1>2
  <2>2. (d - c - 1) * e \in Nat
    BY <2>1
  <2>3. (d - c - 1) * e = d * e - c * e - e
    OBVIOUS
  <2>4. QED
    BY <1>1, <2>2, <2>3
<1>3. ASSUME c <= d PROVE c * e <= d * e
  <2>1. CASE c = d
    BY <2>1
  <2>2. CASE c < d
    BY <1>1, <1>2, <2>2
  <2>3. QED
    BY <1>3, <2>1, <2>2
<1>4. QED
  BY <1>1, <1>2, <1>3

\* Quotient and remainder
LEMMA Division ==
  ASSUME NEW e \in Nat \ {0}, NEW i \in Nat
  PROVE  /\ i \div e \in Nat /\ i % e \in 0 .. e - 1
         /\ i = (i \div e) * e + (i % e)
         /\ i \div e <= i
<1> DEFINE a == i \div e
<1>1. a \in Int /\ i % e \in 0 .. e - 1 /\ i = e * a + (i % e)
  OBVIOUS
<1> HIDE DEF a
<1>2. a >= 0
  <2>1. SUFFICES ASSUME a < 0 PROVE FALSE
    BY <1>1
  <2>2. (0 - a) - 1 \in Nat
    BY <1>1, <2>1
  <2>3. e * ((0 - a) - 1) \in Nat
    BY <2>2
  <2>4. e * ((0 - a) - 1) = (0 - e * a) - e
    BY <1>1
  <2>5. QED
    BY <1>1, <2>3, <2>4
<1>3. e * a = a * e /\ a <= a * e
  <2>1. (e - 1) * a \in Nat
    BY <1>1, <1>2
  <2>2. (e - 1) * a = e * a - a /\ e * a = a * e
    BY <1>1, <1>2
  <2>3. QED
    BY <1>1, <1>2, <2>1, <2>2
<1>4. QED
  BY <1>1, <1>2, <1>3 DEF a

\* The number of chunks of so many elements
ChunksOf(length, e) == (length + e - 1) \div e

\* The chunks are those that have a first element.
LEMMA ChunksOfFacts ==
  ASSUME NEW e \in Nat \ {0}, NEW length \in Nat
  PROVE  /\ ChunksOf(length, e) \in Nat
         /\ \A c \in Nat : c < ChunksOf(length, e) <=> c * e < length
<1> DEFINE n == ChunksOf(length, e)
<1>2. n \in Nat /\ n * e <= length + e - 1 /\ length + e - 1 < n * e + e
  <2> DEFINE m == length + e - 1
  <2>1. m \in Nat
    OBVIOUS
  <2>2. n = m \div e
    BY DEF ChunksOf
  <2> HIDE DEF m
  <2>3. m \div e \in Nat /\ m % e \in 0 .. e - 1 /\ m = (m \div e) * e + (m % e)
    BY <2>1, Division
  <2> DEFINE q == m \div e
             r == m % e
             p == q * e
  <2> HIDE DEF q, r
  <2>4. p \in Nat
    BY <2>3 DEF q
  <2>5. m = p + r /\ r \in 0 .. e - 1 /\ n = q /\ q \in Nat /\ n * e = p
    BY <2>2, <2>3 DEF q, r
  <2> HIDE DEF p
  <2>6. p <= m /\ m < p + e
    BY <2>4, <2>5
  <2>7. QED
    BY <2>5, <2>6 DEF m
<1> HIDE DEF n
<1>3. ASSUME NEW c \in Nat PROVE c < n <=> c * e < length
  <2>1. c * e \in Nat /\ n * e \in Nat /\ (c < n => c * e + e <= n * e) /\ (n <= c => n * e <= c * e)
    BY <1>2, Multiples
  <2>2. QED
    BY <1>2, <2>1
<1>4. QED
  BY <1>2, <1>3 DEF n

-----------------------------------------------------------------------------
(***************************************************************************)
(* The chunks of packed numbers                                            *)
(***************************************************************************)

\* The numbers in chunk c, with zeros after the last of them
Cells(s, c) ==
  [k \in 1 .. ElemsPerChunk |->
     IF c * ElemsPerChunk + k <= Len(s) THEN s[c * ElemsPerChunk + k] ELSE 0]

\* Where element i is: in chunk a, at the offset o in it
Within(i, a, o) ==
  /\ a \in Nat /\ o \in Nat /\ o + 1 \in 1 .. ElemsPerChunk
  /\ a * ElemsPerChunk \in Nat
  /\ i = a * ElemsPerChunk + o

\* Every element is in a chunk.
LEMMA WithinFacts ==
  ASSUME NEW i \in Nat
  PROVE  Within(i, i \div ElemsPerChunk, i % ElemsPerChunk)
<1> DEFINE e == ElemsPerChunk
<1>1. e \in Nat \ {0}
  BY ChunkAssumption
<1> HIDE DEF e
<1>2. /\ i \div e \in Nat /\ i % e \in 0 .. e - 1 /\ i = (i \div e) * e + (i % e)
  BY <1>1, Division
<1> DEFINE a == i \div e
           o == i % e
<1> HIDE DEF a, o
<1>3. a \in Nat /\ o \in 0 .. e - 1 /\ i = a * e + o /\ a * e \in Nat
  BY <1>1, <1>2 DEF a, o
<1>4. o \in Nat /\ o + 1 \in 1 .. e
  BY <1>1, <1>3
<1>5. QED
  BY <1>3, <1>4 DEF Within, a, o, e

\* The elements of different chunks are apart.
LEMMA OtherChunks ==
  ASSUME NEW a \in Nat, NEW c \in Nat
  PROVE  /\ c * ElemsPerChunk \in Nat
         /\ c < a => c * ElemsPerChunk + ElemsPerChunk <= a * ElemsPerChunk
         /\ c > a => a * ElemsPerChunk + ElemsPerChunk <= c * ElemsPerChunk
  BY ChunkAssumption, Multiples

\* One number more changes one place of one chunk.
LEMMA CellsAppend ==
  ASSUME NEW V, NEW s \in Seq(V), NEW v \in V, NEW a, NEW o, Within(Len(s), a, o)
  PROVE  /\ Cells(Append(s, v), a) = [Cells(s, a) EXCEPT ![o + 1] = v]
         /\ Cells(s, a) = [Cells(Append(s, v), a) EXCEPT ![o + 1] = 0]
         /\ \A c \in Nat : c < a => Cells(s, c) = Cells(Append(s, v), c)
<1> DEFINE e == ElemsPerChunk
           t == Append(s, v)
           i == Len(s)
           b == a * e
<1>1. e \in Nat \ {0}
  BY ChunkAssumption
<1>2. b \in Nat /\ o \in Nat /\ i = b + o /\ i \in Nat /\ a \in Nat
  BY LenProperties DEF Within
<1>3. Len(t) = i + 1 /\ t[i + 1] = v /\ \A j \in 1 .. i : t[j] = s[j]
  OBVIOUS
<1> HIDE DEF e, t, i, b
<1>4. ASSUME NEW k \in 1 .. e
      PROVE  /\ (IF b + k <= Len(t) THEN t[b + k] ELSE 0)
                  = IF k = o + 1 THEN v ELSE IF b + k <= i THEN s[b + k] ELSE 0
             /\ (IF b + k <= i THEN s[b + k] ELSE 0)
                  = IF k = o + 1 THEN 0 ELSE IF b + k <= Len(t) THEN t[b + k] ELSE 0
  <2>1. CASE k = o + 1
    <3>1. b + k = i + 1 /\ b + k <= Len(t) /\ ~(b + k <= i)
      BY <1>2, <1>3, <2>1
    <3>2. QED
      BY <1>3, <2>1, <3>1
  <2>2. CASE k < o + 1
    <3>1. b + k \in 1 .. i /\ b + k <= Len(t) /\ k # o + 1
      BY <1>1, <1>2, <1>3, <2>2
    <3>2. QED
      BY <1>3, <3>1
  <2>3. CASE k > o + 1
    <3>1. ~(b + k <= Len(t)) /\ ~(b + k <= i) /\ k # o + 1
      BY <1>1, <1>2, <1>3, <2>3
    <3>2. QED
      BY <3>1
  <2>4. QED
    BY <1>1, <1>2, <2>1, <2>2, <2>3
<1>5. Cells(t, a) = [k \in 1 .. e |-> IF b + k <= Len(t) THEN t[b + k] ELSE 0]
      /\ Cells(s, a) = [k \in 1 .. e |-> IF b + k <= i THEN s[b + k] ELSE 0]
  BY DEF Cells, e, b, i
<1>6. Cells(t, a) = [Cells(s, a) EXCEPT ![o + 1] = v]
  <2>1. [Cells(s, a) EXCEPT ![o + 1] = v]
          = [k \in 1 .. e |-> IF k = o + 1 THEN v ELSE IF b + k <= i THEN s[b + k] ELSE 0]
    BY <1>5
  <2>2. QED
    BY <1>4, <1>5, <2>1
<1>7. Cells(s, a) = [Cells(t, a) EXCEPT ![o + 1] = 0]
  <2>1. [Cells(t, a) EXCEPT ![o + 1] = 0]
          = [k \in 1 .. e |-> IF k = o + 1 THEN 0 ELSE IF b + k <= Len(t) THEN t[b + k] ELSE 0]
    BY <1>5
  <2>2. QED
    BY <1>4, <1>5, <2>1
<1>8. ASSUME NEW c \in Nat, c < a PROVE Cells(s, c) = Cells(t, c)
  <2> DEFINE d == c * e
  <2>1. d \in Nat /\ d + e <= b
    BY <1>2, <1>8, OtherChunks DEF e, b
  <2> HIDE DEF d
  <2>2. \A k \in 1 .. e : d + k \in 1 .. i /\ d + k <= i /\ d + k <= Len(t)
    BY <1>1, <1>2, <1>3, <2>1
  <2>3. \A k \in 1 .. e : (IF d + k <= i THEN s[d + k] ELSE 0)
                           = IF d + k <= Len(t) THEN t[d + k] ELSE 0
    BY <1>3, <2>2
  <2>4. Cells(t, c) = [k \in 1 .. e |-> IF d + k <= Len(t) THEN t[d + k] ELSE 0]
        /\ Cells(s, c) = [k \in 1 .. e |-> IF d + k <= i THEN s[d + k] ELSE 0]
    BY DEF Cells, e, d, i
  <2>5. QED
    BY <2>3, <2>4
<1>9. QED
  BY <1>6, <1>7, <1>8 DEF t

\* The sequence with another element i, counted from 0
Put0(s, i, v) == [s EXCEPT ![i + 1] = v]

Replaces(V, s, i, v) == s \in Seq(V) /\ v \in V /\ i \in 0 .. Len(s) - 1

\* One element is another, and the others stay.
LEMMA Put0Facts ==
  ASSUME NEW V, NEW s, NEW i, NEW v, Replaces(V, s, i, v)
  PROVE  /\ Put0(s, i, v) \in Seq(V) /\ Len(Put0(s, i, v)) = Len(s)
         /\ Put0(s, i, v)[i + 1] = v
         /\ \A j \in 1 .. Len(s) : j # i + 1 => Put0(s, i, v)[j] = s[j]
         /\ i + 1 \in 1 .. Len(s)
<1>1. s \in Seq(V) /\ v \in V /\ i \in 0 .. Len(s) - 1
  BY DEF Replaces
<1>2. i + 1 \in 1 .. Len(s) /\ Len(s) \in Nat
  BY <1>1, LenProperties
<1>3. QED
  BY <1>1, <1>2, ExceptSeq DEF Put0

\* Chunk a of s and of t differ at an offset, and the other chunks are the same.
CellReplaced(s, t, v, a, o) ==
  /\ Cells(t, a) = [Cells(s, a) EXCEPT ![o + 1] = v]
  /\ \A c \in Nat : c # a => Cells(t, c) = Cells(s, c)

\* Another number changes one place of one chunk.
LEMMA CellsExcept ==
  ASSUME NEW V, NEW s, NEW i, NEW v, NEW a, NEW o, Replaces(V, s, i, v), Within(i, a, o)
  PROVE  /\ CellReplaced(s, Put0(s, i, v), v, a, o)
         /\ Cells(s, a)[o + 1] = s[i + 1]
<1> DEFINE e == ElemsPerChunk
           t == Put0(s, i, v)
           b == a * e
           n == Len(s)
<1>0. s \in Seq(V) /\ v \in V /\ i \in 0 .. Len(s) - 1
  BY DEF Replaces
<1>1. e \in Nat \ {0} /\ n \in Nat
  BY <1>0, ChunkAssumption, LenProperties
<1>2. b \in Nat /\ o \in Nat /\ i = b + o /\ i \in Nat /\ a \in Nat /\ o + 1 \in 1 .. e
      /\ b + (o + 1) = i + 1 /\ i + 1 \in 1 .. n
  BY <1>0, <1>1 DEF Within
<1>3. Len(t) = n /\ t[i + 1] = v /\ \A j \in 1 .. n : j # i + 1 => t[j] = s[j]
  BY Put0Facts
<1> HIDE DEF e, t, b, n
<1>4. \A c : /\ Cells(t, c) = [k \in 1 .. e |-> IF c * e + k <= n THEN t[c * e + k] ELSE 0]
             /\ Cells(s, c) = [k \in 1 .. e |-> IF c * e + k <= n THEN s[c * e + k] ELSE 0]
  BY <1>3 DEF Cells, e, n
<1>5. /\ Cells(t, a) = [k \in 1 .. e |-> IF b + k <= n THEN t[b + k] ELSE 0]
      /\ Cells(s, a) = [k \in 1 .. e |-> IF b + k <= n THEN s[b + k] ELSE 0]
  BY <1>4 DEF b
<1>6. Cells(t, a) = [Cells(s, a) EXCEPT ![o + 1] = v]
  <2>1. ASSUME NEW k \in 1 .. e
        PROVE  (IF b + k <= n THEN t[b + k] ELSE 0)
                 = IF k = o + 1 THEN v ELSE IF b + k <= n THEN s[b + k] ELSE 0
    <3>1. CASE k = o + 1
      <4>1. b + k = i + 1 /\ b + k <= n
        BY <1>1, <1>2, <3>1
      <4>2. QED
        BY <1>3, <3>1, <4>1
    <3>2. CASE k # o + 1
      <4>1. b + k # i + 1 /\ b + k \in Nat /\ b + k >= 1
        BY <1>1, <1>2, <3>2
      <4>2. b + k <= n => t[b + k] = s[b + k]
        BY <1>1, <1>3, <4>1
      <4>3. QED
        BY <3>2, <4>2
    <3>3. QED
      BY <3>1, <3>2
  <2>2. [Cells(s, a) EXCEPT ![o + 1] = v]
          = [k \in 1 .. e |-> IF k = o + 1 THEN v ELSE IF b + k <= n THEN s[b + k] ELSE 0]
    BY <1>5
  <2>3. QED
    BY <1>5, <2>1, <2>2
<1>7. ASSUME NEW c \in Nat, c # a PROVE Cells(t, c) = Cells(s, c)
  <2> DEFINE d == c * e
  <2>1. d \in Nat /\ (d + e <= b \/ b + e <= d)
    <3>1. c < a \/ c > a
      BY <1>2, <1>7
    <3>2. /\ c * e \in Nat
          /\ c < a => c * e + e <= a * e
          /\ c > a => a * e + e <= c * e
      BY <1>2, OtherChunks DEF e
    <3>3. QED
      BY <3>1, <3>2 DEF b
  <2> HIDE DEF d
  <2>2. ASSUME NEW k \in 1 .. e
        PROVE  (IF d + k <= n THEN t[d + k] ELSE 0) = IF d + k <= n THEN s[d + k] ELSE 0
    <3>1. d + k # i + 1 /\ d + k \in Nat /\ d + k >= 1
      BY <1>1, <1>2, <2>1
    <3>2. d + k <= n => t[d + k] = s[d + k]
      BY <1>1, <1>3, <3>1
    <3>3. QED
      BY <3>2
  <2>3. /\ Cells(t, c) = [k \in 1 .. e |-> IF d + k <= n THEN t[d + k] ELSE 0]
        /\ Cells(s, c) = [k \in 1 .. e |-> IF d + k <= n THEN s[d + k] ELSE 0]
    BY <1>4 DEF d
  <2>4. QED
    BY <2>2, <2>3
<1>8. Cells(s, a)[o + 1] = s[i + 1]
  <2>1. Cells(s, a)[o + 1] = IF b + (o + 1) <= n THEN s[b + (o + 1)] ELSE 0
    BY <1>2, <1>5
  <2>2. QED
    BY <1>1, <1>2, <2>1
<1>9. QED
  BY <1>6, <1>7, <1>8 DEF t, CellReplaced

\* What is read of a chunk are the numbers in it.
LEMMA CellsAre ==
  ASSUME NEW s, NEW c
  PROVE  /\ Elems(Chunk(Cells(s, c))) = Cells(s, c)
         /\ DOMAIN Cells(s, c) = 1 .. ElemsPerChunk
<1>1. Cells(s, c) = [k \in 1 .. ElemsPerChunk |-> Cells(s, c)[k]]
      /\ DOMAIN Cells(s, c) = 1 .. ElemsPerChunk
  BY DEF Cells
<1>2. QED
  BY <1>1, ElementsOf

\* A chunk behind the last number is one of zeros.
LEMMA CellsZero ==
  ASSUME NEW s, Len(s) \in Nat, NEW c \in Nat, Len(s) <= c * ElemsPerChunk
  PROVE  Chunk(Cells(s, c)) = Zero(0)
<1> DEFINE b == c * ElemsPerChunk
<1>1. b \in Nat
  BY OtherChunks
<1> HIDE DEF b
<1>2. \A k \in 1 .. ElemsPerChunk : ~(b + k <= Len(s))
  BY <1>1, ChunkAssumption DEF b
<1>3. Cells(s, c) = [k \in 1 .. ElemsPerChunk |-> IF b + k <= Len(s) THEN s[b + k] ELSE 0]
  BY DEF Cells, b
<1>4. \A k \in DOMAIN Cells(s, c) : Cells(s, c)[k] = 0
  BY <1>2, <1>3
<1>5. QED
  BY <1>4 DEF Chunk

-----------------------------------------------------------------------------
(***************************************************************************)
(* The nodes that hold the elements                                        *)
(***************************************************************************)

\* The nodes of packed numbers are the chunks of them.
LEMMA PackedNodes ==
  ASSUME NEW s
  PROVE  ViewsIntoChunks(s, TRUE)
           = [c \in 1 .. ChunksOf(Len(s), ElemsPerChunk) |-> Chunk(Cells(s, c - 1))]
BY DEF ViewsIntoChunks, ChunksOf, Cells

\* Nodes that are no packed numbers are leaves of their own.
LEMMA PlainNodes ==
  /\ \A s : ViewsIntoChunks(s, FALSE) = s
  /\ PerChunk(FALSE) = 1 /\ PerChunk(TRUE) = ElemsPerChunk
  /\ \A v, base, offset : ElemNode(FALSE, v, base, offset) = v
BY DEF ViewsIntoChunks, PerChunk, ElemNode

\* The chunk with a number put in
Put(base, number, offset) == ElemNode(TRUE, number, base, offset)

\* A number that is put in a chunk replaces one of its numbers.
LEMMA PutFacts ==
  ASSUME NEW base, NEW number, NEW offset, NEW cells, Elems(base) = cells
  PROVE  Put(base, number, offset) = Chunk([cells EXCEPT ![offset + 1] = number])
BY DEF Put, ElemNode, BackingFromBase

\* N is a sequence of nodes, among them node c if its first element is.
NodesFit(N, length, packed) ==
  /\ Len(N) \in Nat /\ N \in Seq({N[c] : c \in 1 .. Len(N)})
  /\ \A c \in Nat : c < Len(N) <=> c * PerChunk(packed) < length

\* The nodes of packed numbers: how many, and which
LEMMA PackedFit ==
  ASSUME NEW s, Len(s) \in Nat
  PROVE  /\ NodesFit(ViewsIntoChunks(s, TRUE), Len(s), TRUE)
         /\ Len(ViewsIntoChunks(s, TRUE)) = ChunksOf(Len(s), ElemsPerChunk)
         /\ \A c \in Nat : c < Len(ViewsIntoChunks(s, TRUE)) =>
              NodeAt(ViewsIntoChunks(s, TRUE), c) = Chunk(Cells(s, c))
<1> DEFINE e == ElemsPerChunk
           n == ChunksOf(Len(s), e)
           N == ViewsIntoChunks(s, TRUE)
           S == {N[c] : c \in 1 .. n}
<1>1. e \in Nat \ {0}
  BY ChunkAssumption
<1>2. n \in Nat /\ \A c \in Nat : c < n <=> c * e < Len(s)
  BY <1>1, ChunksOfFacts
<1>3. N = [c \in 1 .. n |-> Chunk(Cells(s, c - 1))]
  BY PackedNodes
<1> HIDE DEF e, n, N
<1>4. N \in [1 .. n -> S]
  BY <1>3
<1>5. N \in Seq(S) /\ Len(N) = n
  <2> HIDE DEF S
  <2>1. QED
    BY <1>2, <1>4, FunctionSeq
<1>6. PerChunk(TRUE) = e
  BY PlainNodes DEF e
<1>7. NodesFit(N, Len(s), TRUE)
  BY <1>2, <1>5, <1>6 DEF NodesFit
<1>8. ASSUME NEW c \in Nat, c < n PROVE NodeAt(N, c) = Chunk(Cells(s, c))
  <2>1. c + 1 \in 1 .. n /\ (c + 1) - 1 = c
    BY <1>2, <1>8
  <2>2. N[c + 1] = Chunk(Cells(s, (c + 1) - 1))
    BY <1>3, <2>1
  <2>3. QED
    BY <2>1, <2>2 DEF NodeAt
<1>9. QED
  BY <1>5, <1>7, <1>8 DEF N, n, e

\* The nodes of elements that are leaves of their own
LEMMA PlainFit ==
  ASSUME NEW V, NEW s \in Seq(V)
  PROVE  NodesFit(s, Len(s), FALSE)
<1>1. Len(s) \in Nat /\ \A c \in Nat : c * 1 = c
  OBVIOUS
<1>2. s \in Seq({s[c] : c \in 1 .. Len(s)})
  <2> DEFINE S == {s[c] : c \in 1 .. Len(s)}
  <2>1. s \in [1 .. Len(s) -> S]
    <3>1. s \in [1 .. Len(s) -> V]
      OBVIOUS
    <3>2. QED
      BY <3>1
  <2> HIDE DEF S
  <2>2. s \in Seq(S)
    BY <1>1, <2>1, FunctionSeq
  <2>3. QED
    BY <2>2 DEF S
<1>3. PerChunk(FALSE) = 1
  BY PlainNodes
<1>4. QED
  BY <1>1, <1>2, <1>3 DEF NodesFit

\* The number of nodes of a list to which element i is added
LEMMA CountNodes ==
  ASSUME NEW i \in Nat, NEW a, NEW o, Within(i, a, o)
  PROVE  /\ ChunksOf(i + 1, ElemsPerChunk) = a + 1
         /\ ChunksOf(i, ElemsPerChunk) = IF o = 0 THEN a ELSE a + 1
<1> DEFINE e == ElemsPerChunk
           n == ChunksOf(i, e)
           m == ChunksOf(i + 1, e)
<1>1. e \in Nat \ {0}
  BY ChunkAssumption
<1>2. /\ n \in Nat /\ \A c \in Nat : c < n <=> c * e < i
      /\ m \in Nat /\ \A c \in Nat : c < m <=> c * e < i + 1
  <2>1. i + 1 \in Nat
    OBVIOUS
  <2>2. QED
    BY <1>1, <2>1, ChunksOfFacts
<1> HIDE DEF n, m
<1>3. a \in Nat /\ o \in Nat /\ o < e /\ a * e \in Nat /\ i = a * e + o
  BY <1>1 DEF Within
<1>4. a + 1 \in Nat /\ (a + 1) * e = a * e + e /\ ~((a + 1) * e < i) /\ ~((a + 1) * e < i + 1)
  <2>1. (a + 1) * e = a * e + e
    BY <1>1, <1>3, Multiples
  <2>2. QED
    BY <1>1, <1>3, <2>1
<1>5. m = a + 1
  <2>1. a < m
    BY <1>2, <1>3
  <2>2. ~(a + 1 < m)
    BY <1>2, <1>4
  <2>3. QED
    BY <1>2, <1>3, <2>1, <2>2
<1>6. CASE o = 0
  <2>1. ~(a < n)
    BY <1>2, <1>3, <1>6
  <2>2. ASSUME a # 0 PROVE a - 1 < n
    <3>1. a - 1 \in Nat /\ (a - 1) + 1 = a
      BY <1>3, <2>2
    <3>2. (a - 1) * e + e = a * e /\ (a - 1) * e \in Nat
      <4> DEFINE k == a - 1
      <4>1. k \in Nat /\ k + 1 = a
        BY <3>1
      <4> HIDE DEF k
      <4>2. (k + 1) * e = k * e + e /\ k * e \in Nat
        BY <1>1, <4>1, Multiples
      <4>3. QED
        BY <4>1, <4>2 DEF k
    <3>3. (a - 1) * e < i
      BY <1>1, <1>3, <3>2
    <3>4. QED
      BY <1>2, <3>1, <3>3
  <2>3. n = a
    BY <1>2, <1>3, <2>1, <2>2
  <2>4. QED
    BY <1>5, <1>6, <2>3 DEF n, m
<1>7. CASE o # 0
  <2>1. a < n
    <3>1. a * e < i
      BY <1>3, <1>7
    <3>2. QED
      BY <1>2, <1>3, <3>1
  <2>2. ~(a + 1 < n)
    BY <1>2, <1>4
  <2>3. n = a + 1
    BY <1>2, <1>3, <2>1, <2>2
  <2>4. QED
    BY <1>5, <1>7, <2>3 DEF n, m
<1>8. QED
  BY <1>6, <1>7

\* The nodes of the chunks before the last element stay.
LEMMA PackedBefore ==
  ASSUME NEW V, NEW s \in Seq(V), NEW v \in V, NEW a, NEW o, Within(Len(s), a, o)
  PROVE  /\ \A c \in 1 .. a : SameAt(ViewsIntoChunks(s, TRUE), ViewsIntoChunks(Append(s, v), TRUE), c)
         /\ \A c \in 1 .. a : SameAt(ViewsIntoChunks(Append(s, v), TRUE), ViewsIntoChunks(s, TRUE), c)
         /\ Len(ViewsIntoChunks(Append(s, v), TRUE)) = a + 1
         /\ Len(ViewsIntoChunks(s, TRUE)) = IF o = 0 THEN a ELSE a + 1
<1> DEFINE t == Append(s, v)
           N == ViewsIntoChunks(s, TRUE)
           M == ViewsIntoChunks(t, TRUE)
<1>1. Len(s) \in Nat /\ Len(t) = Len(s) + 1 /\ Len(t) \in Nat
  OBVIOUS
<1> HIDE DEF t
<1>2. /\ Len(N) = ChunksOf(Len(s), ElemsPerChunk) /\ Len(M) = ChunksOf(Len(t), ElemsPerChunk)
      /\ \A c \in Nat : c < Len(N) => NodeAt(N, c) = Chunk(Cells(s, c))
      /\ \A c \in Nat : c < Len(M) => NodeAt(M, c) = Chunk(Cells(t, c))
  BY <1>1, PackedFit
<1> HIDE DEF N, M
<1>3. Len(M) = a + 1 /\ Len(N) = (IF o = 0 THEN a ELSE a + 1) /\ a \in Nat
  BY <1>1, <1>2, CountNodes DEF Within
<1>4. \A c \in Nat : c < a => Cells(s, c) = Cells(t, c)
  BY CellsAppend DEF t
<1>5. ASSUME NEW c \in 1 .. a PROVE SameAt(N, M, c) /\ SameAt(M, N, c)
  <2>1. c - 1 \in Nat /\ c - 1 < a /\ (c - 1) + 1 = c /\ c - 1 < Len(N) /\ c - 1 < Len(M)
        /\ c <= Len(N) /\ c <= Len(M)
    BY <1>3
  <2>2. NodeAt(N, c - 1) = NodeAt(M, c - 1)
    BY <1>2, <1>4, <2>1
  <2>3. N[c] = M[c]
    BY <2>1, <2>2 DEF NodeAt
  <2>4. QED
    BY <2>1, <2>3 DEF SameAt
<1>6. QED
  BY <1>3, <1>5 DEF N, M, t

\* The nodes of a list and of the list with one element more
LEMMA PackedAppends ==
  ASSUME NEW V, NEW s \in Seq(V), NEW v \in V, NEW a, NEW o, Within(Len(s), a, o)
  PROVE  /\ AppendsTo(ViewsIntoChunks(s, TRUE), ViewsIntoChunks(Append(s, v), TRUE), TRUE, v, a, o)
         /\ RemovesFrom(ViewsIntoChunks(Append(s, v), TRUE), ViewsIntoChunks(s, TRUE), TRUE, a, o)
<1> DEFINE t == Append(s, v)
           N == ViewsIntoChunks(s, TRUE)
           M == ViewsIntoChunks(t, TRUE)
<1>1. Len(s) \in Nat /\ Len(t) \in Nat
  OBVIOUS
<1>2. /\ \A c \in 1 .. a : SameAt(N, M, c)
      /\ \A c \in 1 .. a : SameAt(M, N, c)
      /\ Len(M) = a + 1
      /\ Len(N) = IF o = 0 THEN a ELSE a + 1
  BY PackedBefore
<1>3. Cells(t, a) = [Cells(s, a) EXCEPT ![o + 1] = v]
      /\ Cells(s, a) = [Cells(t, a) EXCEPT ![o + 1] = 0]
  BY CellsAppend
<1> HIDE DEF t
<1>4. /\ \A c \in Nat : c < Len(N) => NodeAt(N, c) = Chunk(Cells(s, c))
      /\ \A c \in Nat : c < Len(M) => NodeAt(M, c) = Chunk(Cells(t, c))
  BY <1>1, PackedFit
<1> HIDE DEF N, M
<1>5. a \in Nat /\ o \in Nat
  BY DEF Within
<1>6. NodeAt(M, a) = Chunk(Cells(t, a))
  <2>1. a < Len(M)
    BY <1>2, <1>5
  <2>2. QED
    BY <1>4, <1>5, <2>1
<1>7. \A base : /\ Elems(base) = Cells(s, a) => Put(base, v, o) = Chunk(Cells(t, a))
                /\ Elems(base) = Cells(t, a) => Put(base, 0, o) = Chunk(Cells(s, a))
  <2>1. ASSUME NEW base, Elems(base) = Cells(s, a) PROVE Put(base, v, o) = Chunk(Cells(t, a))
    <3>1. Put(base, v, o) = Chunk([Cells(s, a) EXCEPT ![o + 1] = v])
      BY <2>1, PutFacts
    <3>2. QED
      BY <1>3, <3>1
  <2>2. ASSUME NEW base, Elems(base) = Cells(t, a) PROVE Put(base, 0, o) = Chunk(Cells(s, a))
    <3> DEFINE zero == 0
    <3> HIDE DEF zero
    <3>1. Put(base, zero, o) = Chunk([Cells(t, a) EXCEPT ![o + 1] = zero])
      BY <2>2, PutFacts
    <3>2. QED
      BY <1>3, <3>1 DEF zero
  <2>3. QED
    BY <2>1, <2>2
<1>8. Elems(Chunk(Cells(s, a))) = Cells(s, a) /\ Elems(Chunk(Cells(t, a))) = Cells(t, a)
  BY CellsAre
<1>9. CASE o = 0
  <2>1. Len(N) = a
    BY <1>2, <1>9
  <2>2. Chunk(Cells(s, a)) = Zero(0)
    <3>1. Len(s) <= a * ElemsPerChunk
      BY <1>9 DEF Within
    <3>2. QED
      BY <1>1, <1>5, <3>1, CellsZero
  <2>3. Elems(Zero(0)) = Cells(s, a)
    BY <1>8, <2>2
  <2>4. NodeAt(M, a) = Put(Zero(0), v, o)
    BY <1>6, <1>7, <2>3
  <2>5. AppendsTo(N, M, TRUE, v, a, o)
    BY <1>2, <1>9, <2>1, <2>4 DEF AppendsTo, Put
  <2>6. RemovesFrom(M, N, TRUE, a, o)
    BY <1>2, <1>9, <2>1 DEF RemovesFrom
  <2>7. QED
    BY <2>5, <2>6 DEF N, M, t
<1>10. CASE o # 0
  <2>1. Len(N) = a + 1
    BY <1>2, <1>10
  <2>2. NodeAt(N, a) = Chunk(Cells(s, a))
    <3>1. a < Len(N)
      BY <1>5, <2>1
    <3>2. QED
      BY <1>4, <1>5, <3>1
  <2>3. NodeAt(M, a) = Put(NodeAt(N, a), v, o)
    BY <1>6, <1>7, <1>8, <2>2
  <2>4. NodeAt(N, a) = Put(NodeAt(M, a), 0, o)
    BY <1>6, <1>7, <1>8, <2>2
  <2>5. AppendsTo(N, M, TRUE, v, a, o)
    BY <1>2, <1>10, <2>1, <2>3 DEF AppendsTo, Put
  <2>6. RemovesFrom(M, N, TRUE, a, o)
    BY <1>2, <1>10, <2>1, <2>4 DEF RemovesFrom, Packs, Put
  <2>7. QED
    BY <2>5, <2>6 DEF N, M, t
<1>11. QED
  BY <1>9, <1>10

\* The same for elements that are leaves of their own
LEMMA PlainAppends ==
  ASSUME NEW V, NEW s \in Seq(V), NEW v \in V, NEW a, NEW o, a = Len(s), o = 0
  PROVE  /\ AppendsTo(s, Append(s, v), FALSE, v, a, o)
         /\ RemovesFrom(Append(s, v), s, FALSE, a, o)
<1> DEFINE t == Append(s, v)
<1>1. /\ Len(s) = a /\ a \in Nat /\ Len(t) = a + 1 /\ t[a + 1] = v
      /\ \A c \in 1 .. a : t[c] = s[c]
  OBVIOUS
<1>2. ElemNode(FALSE, v, Zero(0), 0) = v
  BY PlainNodes
<1> HIDE DEF t
<1>3. \A c \in 1 .. a : SameAt(s, t, c) /\ SameAt(t, s, c)
  BY <1>1 DEF SameAt
<1>4. AppendsTo(s, t, FALSE, v, a, o)
  BY <1>1, <1>2, <1>3 DEF AppendsTo, NodeAt
<1>5. RemovesFrom(t, s, FALSE, a, o)
  BY <1>1, <1>3 DEF RemovesFrom
<1>6. QED
  BY <1>4, <1>5 DEF t

\* The place of element i
ChunkOf(packed, i) == i \div PerChunk(packed)
OffsetOf(packed, i) == i % PerChunk(packed)

\* An element that is not packed has a chunk of its own.
LEMMA PlaceOf ==
  ASSUME NEW i \in Nat
  PROVE  /\ ChunkOf(FALSE, i) = i /\ OffsetOf(FALSE, i) = 0
         /\ Within(i, ChunkOf(TRUE, i), OffsetOf(TRUE, i))
<1>1. i \div 1 = i /\ i % 1 = 0
  OBVIOUS
<1>2. PerChunk(FALSE) = 1 /\ PerChunk(TRUE) = ElemsPerChunk
  BY PlainNodes
<1>3. Within(i, i \div ElemsPerChunk, i % ElemsPerChunk)
  BY WithinFacts
<1>4. QED
  BY <1>1, <1>2, <1>3 DEF ChunkOf, OffsetOf

Nodes(s, packed) == ViewsIntoChunks(s, packed)

\* The same for either kind of elements
LEMMA AppendNodes ==
  ASSUME NEW V, NEW s \in Seq(V), NEW v \in V, NEW packed \in BOOLEAN
  PROVE  /\ AppendsTo(Nodes(s, packed), Nodes(Append(s, v), packed), packed, v,
                      ChunkOf(packed, Len(s)), OffsetOf(packed, Len(s)))
         /\ RemovesFrom(Nodes(Append(s, v), packed), Nodes(s, packed), packed,
                        ChunkOf(packed, Len(s)), OffsetOf(packed, Len(s)))
<1>1. Len(s) \in Nat
  OBVIOUS
<1>2. CASE packed = TRUE
  <2>1. Within(Len(s), ChunkOf(TRUE, Len(s)), OffsetOf(TRUE, Len(s)))
    BY <1>1, PlaceOf
  <2> DEFINE a == ChunkOf(TRUE, Len(s))
             o == OffsetOf(TRUE, Len(s))
  <2> HIDE DEF a, o
  <2>2. Within(Len(s), a, o)
    BY <2>1 DEF a, o
  <2>3. /\ AppendsTo(ViewsIntoChunks(s, TRUE), ViewsIntoChunks(Append(s, v), TRUE), TRUE, v, a, o)
        /\ RemovesFrom(ViewsIntoChunks(Append(s, v), TRUE), ViewsIntoChunks(s, TRUE), TRUE, a, o)
    BY <2>2, PackedAppends
  <2>4. QED
    BY <1>2, <2>3 DEF a, o, Nodes
<1>3. CASE packed = FALSE
  <2>1. ChunkOf(FALSE, Len(s)) = Len(s) /\ OffsetOf(FALSE, Len(s)) = 0
    BY <1>1, PlaceOf
  <2>2. ViewsIntoChunks(s, FALSE) = s /\ ViewsIntoChunks(Append(s, v), FALSE) = Append(s, v)
    BY PlainNodes
  <2>3. /\ AppendsTo(s, Append(s, v), FALSE, v, Len(s), 0)
        /\ RemovesFrom(Append(s, v), s, FALSE, Len(s), 0)
    BY PlainAppends
  <2>4. QED
    BY <1>3, <2>1, <2>2, <2>3 DEF Nodes
<1>4. QED
  BY <1>2, <1>3

\* The nodes of either kind of elements
LEMMA NodesAre ==
  ASSUME NEW V, NEW s \in Seq(V), NEW packed \in BOOLEAN
  PROVE  NodesFit(Nodes(s, packed), Len(s), packed)
<1>1. CASE packed = TRUE
  <2>1. Len(s) \in Nat
    OBVIOUS
  <2>2. NodesFit(ViewsIntoChunks(s, TRUE), Len(s), TRUE)
    BY <2>1, PackedFit
  <2>3. QED
    BY <1>1, <2>2 DEF Nodes
<1>2. CASE packed = FALSE
  <2>1. NodesFit(s, Len(s), FALSE)
    BY PlainFit
  <2>2. QED
    BY <1>2, <2>1, PlainNodes DEF Nodes
<1>3. QED
  BY <1>1, <1>2

\* M is N with v for an element in node a.
Writes(N, M, packed, v, a, offset) ==
  /\ Len(M) = Len(N) /\ a < Len(N)
  /\ \A c \in Nat \ {0, a + 1} : SameAt(N, M, c)
  /\ NodeAt(M, a) = ElemNode(packed, v, NodeAt(N, a), offset)

\* The element in a node
Element(leaf, packed, offset) == IF packed THEN Elems(leaf)[offset + 1] ELSE leaf

PackedReplaced(s, t, v, a, o, elem) ==
  /\ Writes(ViewsIntoChunks(s, TRUE), ViewsIntoChunks(t, TRUE), TRUE, v, a, o)
  /\ Element(NodeAt(ViewsIntoChunks(s, TRUE), a), TRUE, o) = elem

\* Another number is written to its chunk only, where it was.
LEMMA PackedWrites ==
  ASSUME NEW V, NEW s, NEW i, NEW v, NEW a, NEW o, Replaces(V, s, i, v), Within(i, a, o)
  PROVE  PackedReplaced(s, Put0(s, i, v), v, a, o, s[i + 1])
<1> DEFINE t == Put0(s, i, v)
           N == ViewsIntoChunks(s, TRUE)
           M == ViewsIntoChunks(t, TRUE)
<1>0. s \in Seq(V) /\ i \in 0 .. Len(s) - 1
  BY DEF Replaces
<1>1. Len(s) \in Nat /\ Len(t) = Len(s)
  BY <1>0, Put0Facts, LenProperties
<1>2. /\ Cells(t, a) = [Cells(s, a) EXCEPT ![o + 1] = v]
      /\ \A c \in Nat : c # a => Cells(t, c) = Cells(s, c)
      /\ Cells(s, a)[o + 1] = s[i + 1]
  <2>1. CellReplaced(s, t, v, a, o) /\ Cells(s, a)[o + 1] = s[i + 1]
    BY CellsExcept
  <2>2. QED
    BY <2>1 DEF CellReplaced
<1> HIDE DEF t
<1>3. /\ NodesFit(N, Len(s), TRUE)
      /\ Len(N) = ChunksOf(Len(s), ElemsPerChunk)
      /\ \A c \in Nat : c < Len(N) => NodeAt(N, c) = Chunk(Cells(s, c))
  BY <1>1, PackedFit
<1>4. /\ Len(M) = Len(N)
      /\ \A c \in Nat : c < Len(M) => NodeAt(M, c) = Chunk(Cells(t, c))
  BY <1>1, <1>3, PackedFit
<1> HIDE DEF N, M
<1>5. a \in Nat /\ o \in Nat /\ a < Len(N)
  <2>1. a * ElemsPerChunk < Len(s)
    <3>1. a * ElemsPerChunk \in Nat /\ i = a * ElemsPerChunk + o /\ o \in Nat
      BY DEF Within
    <3>2. QED
      BY <1>0, <1>1, <3>1
  <2>2. a \in Nat /\ o \in Nat
    BY DEF Within
  <2>3. PerChunk(TRUE) = ElemsPerChunk
    BY PlainNodes
  <2>4. QED
    BY <1>3, <2>1, <2>2, <2>3 DEF NodesFit
<1>6. NodeAt(N, a) = Chunk(Cells(s, a)) /\ NodeAt(M, a) = Chunk(Cells(t, a))
  BY <1>3, <1>4, <1>5
<1>7. Elems(NodeAt(N, a)) = Cells(s, a)
  BY <1>6, CellsAre
<1>8. NodeAt(M, a) = Put(NodeAt(N, a), v, o)
  <2>1. Put(NodeAt(N, a), v, o) = Chunk([Cells(s, a) EXCEPT ![o + 1] = v])
    BY <1>7, PutFacts
  <2>2. QED
    BY <1>2, <1>6, <2>1
<1>9. ASSUME NEW c \in Nat \ {0, a + 1} PROVE SameAt(N, M, c)
  <2>1. CASE c <= Len(N)
    <3>1. c - 1 \in Nat /\ c - 1 # a /\ c - 1 < Len(N) /\ c - 1 < Len(M) /\ (c - 1) + 1 = c
      BY <1>3, <1>4, <1>5, <2>1 DEF NodesFit
    <3>2. NodeAt(N, c - 1) = NodeAt(M, c - 1)
      BY <1>2, <1>3, <1>4, <3>1
    <3>3. QED
      BY <1>4, <3>1, <3>2 DEF SameAt, NodeAt
  <2>2. CASE ~(c <= Len(N))
    BY <1>4, <2>2 DEF SameAt
  <2>3. QED
    BY <2>1, <2>2
<1>10. Writes(N, M, TRUE, v, a, o)
  BY <1>4, <1>5, <1>8, <1>9 DEF Writes, Put
<1>11. Element(NodeAt(N, a), TRUE, o) = s[i + 1]
  BY <1>2, <1>7 DEF Element
<1>12. QED
  BY <1>10, <1>11 DEF N, M, t, PackedReplaced

\* Another element is its own leaf.
LEMMA PlainWrites ==
  ASSUME NEW V, NEW s, NEW i, NEW v, Replaces(V, s, i, v)
  PROVE  /\ Writes(s, Put0(s, i, v), FALSE, v, i, 0)
         /\ Element(NodeAt(s, i), FALSE, 0) = s[i + 1]
<1> DEFINE t == Put0(s, i, v)
<1>1. /\ Len(t) = Len(s) /\ t[i + 1] = v
      /\ \A j \in 1 .. Len(s) : j # i + 1 => t[j] = s[j]
  BY Put0Facts
<1>2. Len(s) \in Nat /\ i \in 0 .. Len(s) - 1
  BY LenProperties DEF Replaces
<1> HIDE DEF t
<1>3. ASSUME NEW c \in Nat \ {0, i + 1} PROVE SameAt(s, t, c)
  BY <1>1, <1>2 DEF SameAt
<1>4. ElemNode(FALSE, v, NodeAt(s, i), 0) = v
  BY PlainNodes
<1>5. Writes(s, t, FALSE, v, i, 0)
  <2>1. i < Len(s) /\ NodeAt(t, i) = v
    BY <1>1, <1>2 DEF NodeAt
  <2>2. QED
    BY <1>1, <1>3, <1>4, <2>1 DEF Writes
<1>6. Element(NodeAt(s, i), FALSE, 0) = s[i + 1]
  BY DEF Element, NodeAt
<1>7. QED
  BY <1>5, <1>6 DEF t

\* The same for either kind of elements
LEMMA WriteNodes ==
  ASSUME NEW V, NEW s, NEW i, NEW v, NEW packed \in BOOLEAN, Replaces(V, s, i, v)
  PROVE  /\ Writes(Nodes(s, packed), Nodes(Put0(s, i, v), packed), packed, v,
                   ChunkOf(packed, i), OffsetOf(packed, i))
         /\ Element(NodeAt(Nodes(s, packed), ChunkOf(packed, i)), packed, OffsetOf(packed, i))
              = s[i + 1]
<1>1. i \in Nat
  BY DEF Replaces
<1>2. CASE packed = TRUE
  <2> DEFINE a == ChunkOf(TRUE, i)
             o == OffsetOf(TRUE, i)
  <2>1. Within(i, a, o)
    BY <1>1, PlaceOf
  <2> HIDE DEF a, o
  <2>2. PackedReplaced(s, Put0(s, i, v), v, a, o, s[i + 1])
    BY <2>1, PackedWrites
  <2>3. QED
    BY <1>2, <2>2 DEF a, o, Nodes, PackedReplaced
<1>3. CASE packed = FALSE
  <2>1. ChunkOf(FALSE, i) = i /\ OffsetOf(FALSE, i) = 0
    BY <1>1, PlaceOf
  <2>2. ViewsIntoChunks(s, FALSE) = s /\ ViewsIntoChunks(Put0(s, i, v), FALSE) = Put0(s, i, v)
    BY PlainNodes
  <2>3. /\ Writes(s, Put0(s, i, v), FALSE, v, i, 0)
        /\ Element(NodeAt(s, i), FALSE, 0) = s[i + 1]
    BY PlainWrites
  <2>4. QED
    BY <1>3, <2>1, <2>2, <2>3 DEF Nodes
<1>4. QED
  BY <1>2, <1>3

-----------------------------------------------------------------------------
(***************************************************************************)
(* The subtrees of a list                                                  *)
(***************************************************************************)

Subtree(N, k) == SubtreeFillToContents(N, 2 * k, Start(k))

List(N, number) == PairNode(Chain(N, 0), number)

\* A tree of height 0 has one leaf, its root.
LEMMA RootIndex ==
  /\ 0 \in Nat /\ 0 \in 0 .. 2^0 - 1 /\ ToGindex(0, 0) = 1
BY PowerFacts DEF ToGindex

\* A subtree of a list is read.
LEMMA GetSubtree ==
  ASSUME NEW N, NEW number, Len(N) \in Nat, NEW k \in Nat, Start(k) < Len(N)
  PROVE  Getter(List(N, number), SubtreeGindex(k)) = Subtree(N, k)
<1> DEFINE h == 0
<1>1. h \in Nat /\ h \in 0 .. 2^h - 1 /\ ToGindex(h, h) = 1
  BY RootIndex
<1> HIDE DEF h
<1>2. Getter(PairNode(Chain(N, 0), number), ListGindex(k, h, h))
        = Getter(Chain(N, 0), ChainGindex(k, h, h))
  BY <1>1, ListGet
<1>3. Getter(Chain(N, 0), ChainGindex(k, h, h)) = Getter(Subtree(N, k), ToGindex(h, h))
  BY <1>1, GetChain DEF Subtree
<1>4. Getter(Subtree(N, k), ToGindex(h, h)) = Subtree(N, k)
  BY <1>1, GetterFacts
<1>5. QED
  BY <1>2, <1>3, <1>4 DEF SubtreeGindex, List, h

\* A subtree of a list is replaced.
LEMMA SetSubtree ==
  ASSUME NEW N, NEW M, NEW number, NEW expand, Len(N) \in Nat, Len(M) \in Nat, NEW k \in Nat,
         SameBefore(N, M, k), Start(k) < Len(N), Start(k) < Len(M), Chain(N, k + 1) = Chain(M, k + 1)
  PROVE  Setter(List(N, number), SubtreeGindex(k), Subtree(M, k), expand) = List(M, number)
<1> DEFINE h == 0
<1>1. h \in Nat /\ h \in 0 .. 2^h - 1 /\ ToGindex(h, h) = 1
  BY RootIndex
<1> HIDE DEF h
<1>2. Setter(PairNode(Chain(N, 0), number), ListGindex(k, h, h), Subtree(M, k), expand)
        = PairNode(Setter(Chain(N, 0), ChainGindex(k, h, h), Subtree(M, k), expand), number)
  BY <1>1, ListSet
<1>3. Setter(Subtree(N, k), ToGindex(h, h), Subtree(M, k), expand) = Subtree(M, k)
  BY <1>1, SetRoot
<1>4. Setter(Chain(N, 0), ChainGindex(k, h, h), Subtree(M, k), expand) = Chain(M, 0)
  BY <1>1, <1>3, SetChain DEF Subtree
<1>5. QED
  BY <1>2, <1>4 DEF SubtreeGindex, List, h

\* A subtree that is begun
EndsIn(M, k, rest) == Chain(M, k) = PairNode(Subtree(M, k), rest)

Begun(N, number, k, old, rest, expand) ==
  Setter(List(N, number), ListSpine(k), PairNode(old, rest), expand)

\* A list of which a subtree is begun and then replaced
LEMMA BeginList ==
  ASSUME NEW N, NEW M, NEW number, NEW expand, NEW old, NEW rest, NEW k \in Nat,
         Len(N) \in Nat, Len(M) \in Nat, SameBefore(N, M, k), EndsIn(M, k, rest)
  PROVE  /\ Getter(Begun(N, number, k, old, rest, expand), SubtreeGindex(k)) = old
         /\ Setter(Begun(N, number, k, old, rest, expand), SubtreeGindex(k), Subtree(M, k), expand)
              = List(M, number)
<1> DEFINE h == 0
           begun == Setter(Chain(N, 0), SpineIn(k), PairNode(old, rest), expand)
<1>1. h \in Nat /\ h \in 0 .. 2^h - 1
  BY RootIndex
<1>2. Getter(begun, RootIn(k)) = old
      /\ Setter(begun, RootIn(k), Subtree(M, k), expand) = Chain(M, 0)
  BY BeginSubtree DEF EndsIn
<1>3. Begun(N, number, k, old, rest, expand) = PairNode(begun, number)
  BY ListSpineSet DEF List, Begun
<1> HIDE DEF h, begun
<1>4. Getter(PairNode(begun, number), ListGindex(k, h, h)) = Getter(begun, ChainGindex(k, h, h))
  BY <1>1, ListGet
<1>5. Setter(PairNode(begun, number), ListGindex(k, h, h), Subtree(M, k), expand)
        = PairNode(Setter(begun, ChainGindex(k, h, h), Subtree(M, k), expand), number)
  BY <1>1, ListSet
<1>6. Getter(PairNode(begun, number), SubtreeGindex(k)) = old
  BY <1>2, <1>4 DEF RootIn, SubtreeGindex, h
<1>7. Setter(PairNode(begun, number), SubtreeGindex(k), Subtree(M, k), expand) = List(M, number)
  BY <1>2, <1>5 DEF RootIn, SubtreeGindex, List, h
<1>8. QED
  BY <1>3, <1>6, <1>7

\* A subtree that is deleted
LEMMA EndList ==
  ASSUME NEW N, NEW M, NEW number, NEW expand, NEW end, Len(N) \in Nat, Len(M) \in Nat, NEW k \in Nat,
         SameBefore(N, M, k), Chain(M, k) = end
  PROVE  Setter(List(N, number), ListSpine(k), end, expand) = List(M, number)
<1>1. Setter(List(N, number), ListSpine(k), end, expand)
        = PairNode(Setter(Chain(N, 0), SpineIn(k), end, expand), number)
  BY ListSpineSet DEF List
<1>2. Setter(Chain(N, 0), SpineIn(k), Chain(M, k), expand) = Chain(M, 0)
  BY SetSpine
<1>3. QED
  BY <1>1, <1>2 DEF List

\* A node of a subtree is read.
LEMMA GetListLeaf ==
  ASSUME NEW N, NEW number, Len(N) \in Nat, NEW k \in Nat, Start(k) < Len(N),
         NEW d \in Nat, NEW x \in 0 .. 2^d - 1
  PROVE  Getter(List(N, number), ListGindex(k, d, x)) = Getter(Subtree(N, k), ToGindex(x, d))
<1>1. Getter(PairNode(Chain(N, 0), number), ListGindex(k, d, x))
        = Getter(Chain(N, 0), ChainGindex(k, d, x))
  BY ListGet
<1>2. Getter(Chain(N, 0), ChainGindex(k, d, x)) = Getter(Subtree(N, k), ToGindex(x, d))
  BY GetChain DEF Subtree
<1>3. QED
  BY <1>1, <1>2 DEF List

\* A node of a subtree is replaced.
LEMMA SetListLeaf ==
  ASSUME NEW N, NEW M, NEW number, NEW new, NEW expand, Len(N) \in Nat, Len(M) \in Nat, NEW k \in Nat,
         SameBefore(N, M, k), Start(k) < Len(N), Start(k) < Len(M), Chain(N, k + 1) = Chain(M, k + 1),
         NEW d \in Nat, NEW x \in 0 .. 2^d - 1,
         Setter(Subtree(N, k), ToGindex(x, d), new, expand) = Subtree(M, k)
  PROVE  Setter(List(N, number), ListGindex(k, d, x), new, expand) = List(M, number)
<1>1. Setter(PairNode(Chain(N, 0), number), ListGindex(k, d, x), new, expand)
        = PairNode(Setter(Chain(N, 0), ChainGindex(k, d, x), new, expand), number)
  BY ListSet
<1>2. Setter(Chain(N, 0), ChainGindex(k, d, x), new, expand) = Chain(M, 0)
  BY SetChain DEF Subtree
<1>3. QED
  BY <1>1, <1>2 DEF List

\* The length of a list is replaced.
LEMMA SetNumber ==
  ASSUME NEW N, NEW number, NEW new, NEW expand
  PROVE  Setter(List(N, number), 3, new, expand) = List(N, new)
<1> DEFINE m == 0
<1>1. m \in Nat /\ m \in 0 .. 2^m - 1 /\ ToGindex(m, m) = 1
  BY RootIndex
<1>2. HalfGindex(1, m, m) = 3
  BY PowerFacts DEF HalfGindex
<1> HIDE DEF m
<1>3. Setter(PairNode(Chain(N, 0), number), HalfGindex(1, m, m), new, expand)
        = PairNode(Chain(N, 0), Setter(number, ToGindex(m, m), new, expand))
  BY <1>1, SetPair
<1>4. Setter(number, 1, new, expand) = new
  BY SetRoot
<1>5. QED
  BY <1>1, <1>2, <1>3, <1>4 DEF List

-----------------------------------------------------------------------------
(***************************************************************************)
(* Where element i of a list is: at the offset o in node a, which is leaf  *)
(* x of subtree k, d levels high; the index of the element in the subtree  *)
(* is j.                                                                   *)
(***************************************************************************)

TreeOf(k, d, s) == d = 2 * k /\ s = Start(k)

Spot(packed, i, k, d, s, a, x, o, j) ==
  /\ k \in Nat /\ d \in 0 .. MaxHeight /\ s \in Nat /\ a \in Nat /\ o \in Nat /\ j \in Nat
  /\ TreeOf(k, d, s)
  /\ x \in 0 .. 2^d - 1
  /\ a = ChunkOf(packed, i) /\ o = OffsetOf(packed, i)
  /\ a = Place(s, x, 0) /\ a = s + x /\ a < Start(k + 1)
  /\ In(packed, j, x, o) /\ (j = 0 <=> x = 0 /\ o = 0)
  /\ ToTargetProgressive(packed, i) = [gindex |-> ListSpine(k), depth |-> d, i |-> j]
  /\ ToGindexProgressive[a].gindex = ListGindex(k, d, x)

\* Some class has lists with so many elements.
InBounds(length) == \E c \in Classes : length <= c.maxLength

\* The index in the subtree has the chunk and the place in it.
LEMMA IndexInSubtree ==
  ASSUME NEW packed, NEW x \in Nat, NEW o \in Nat, o < PerChunk(packed),
         NEW j, j = x * PerChunk(packed) + o
  PROVE  /\ j \in Nat /\ In(packed, j, x, o)
         /\ j = 0 <=> x = 0 /\ o = 0
<1> DEFINE e == PerChunk(packed)
<1>1. e \in Nat \ {0}
  BY PerChunkType
<1> HIDE DEF e
<1>2. x * e \in Nat /\ e * x = x * e /\ (x # 0 => x * e # 0) /\ o \in 0 .. e - 1
  <2>1. x * e \in Nat /\ e * x = x * e
    BY <1>1
  <2>2. ASSUME x # 0 PROVE x * e # 0
    <3>1. (x - 1) * e \in Nat /\ (x - 1) * e = x * e - e
      BY <1>1, <2>2
    <3>2. QED
      BY <1>1, <2>1, <3>1
  <2>3. o \in 0 .. e - 1
    BY <1>1 DEF e
  <2>4. QED
    BY <2>1, <2>2, <2>3
<1>3. j = x * e + o
  BY DEF e
<1>4. j \in Nat /\ j = e * x + o
  BY <1>2, <1>3
<1>5. j \div e = x /\ j % e = o
  BY <1>1, <1>2, <1>4, DivisionUnique
<1>6. j = 0 <=> x = 0 /\ o = 0
  <2>1. x = 0 => x * e = 0
    BY <1>1
  <2>2. QED
    BY <1>2, <1>3, <2>1
<1>7. QED
  BY <1>4, <1>5, <1>6 DEF In, e

\* Every element within the bounds has its place.
LEMMA SpotExists ==
  ASSUME NEW packed, NEW i \in Nat, InBounds(i)
  PROVE  \E k, d, s, a, x, o, j : Spot(packed, i, k, d, s, a, x, o, j)
<1> DEFINE e == PerChunk(packed)
           a == i \div e
           o == i % e
<1>1. e \in Nat \ {0}
  BY PerChunkType
<1> HIDE DEF e
<1>2. a \in Nat /\ o \in Nat /\ o < e /\ a <= i
  <2>1. /\ i \div e \in Nat /\ i % e \in 0 .. e - 1
        /\ i = (i \div e) * e + (i % e)
        /\ i \div e <= i
    BY <1>1, Division
  <2> HIDE DEF o
  <2>2. o \in 0 .. e - 1
    BY <2>1 DEF o
  <2>3. QED
    BY <1>1, <2>1, <2>2
<1>3. PICK c \in Classes : i <= c.maxLength
  BY DEF InBounds
<1>4. c.maxLength \in Nat /\ 2 * c.maxLength <= MaxHeight /\ MaxHeight \in Nat
  <2>1. c.maxLength \in Nat /\ 2 * c.maxLength + c.element_cls <= MaxHeight /\ c.element_cls \in Nat
    BY ListAssumption
  <2>2. QED
    BY <2>1, ChunkAssumption
<1>5. a \in ChunkIndexes
  <2>1. a \in 0 .. c.maxLength
    BY <1>2, <1>3, <1>4
  <2>2. QED
    BY <2>1 DEF ChunkIndexes
<1> HIDE DEF a, o
<1>6. PICK k \in Nat : Start(k) <= a /\ a < Start(k + 1) /\ k <= a
  BY <1>2, SubtreeExists
<1> DEFINE d == 2 * k
           s == Start(k)
           x == a - s
           j == x * e + o
<1>7. s \in Nat /\ Start(k + 1) = s + 2^d /\ 2^d \in Nat /\ d \in Nat
  BY StartFacts DEF Width
<1>8. d \in 0 .. MaxHeight
  BY <1>2, <1>3, <1>4, <1>6
<1>9. InSubtree(a, k)
  BY <1>6 DEF InSubtree
<1>10. ToGindexProgressive[a] = [gindex |-> ListGindex(k, d, x), depth |-> d, chunk_i |-> x]
  BY <1>5, <1>9, ToGindexFacts
<1>11. ToTargetProgressive(packed, i) = [gindex |-> ListSpine(k), depth |-> d, i |-> j]
  BY <1>5, <1>9, ToTargetFacts DEF a, o, e
<1>12. TreeOf(k, d, s)
  BY DEF TreeOf
<1> HIDE DEF d, s
<1>13. x \in 0 .. 2^d - 1 /\ a = s + x /\ x \in Nat
  BY <1>2, <1>6, <1>7 DEF s
<1> HIDE DEF x
<1>14. a = Place(s, x, 0)
  <2>1. 2^0 = 1 /\ x * 1 = x
    BY <1>13, PowerFacts
  <2>2. QED
    BY <1>13, <2>1 DEF Place
<1>15. j \in Nat /\ In(packed, j, x, o) /\ (j = 0 <=> x = 0 /\ o = 0)
  BY <1>2, <1>13, IndexInSubtree DEF e
<1> HIDE DEF j
<1>16. a = ChunkOf(packed, i) /\ o = OffsetOf(packed, i)
  BY DEF ChunkOf, OffsetOf, a, o, e
<1>17. Spot(packed, i, k, d, s, a, x, o, j)
  BY <1>2, <1>6, <1>7, <1>8, <1>10, <1>11, <1>12, <1>13, <1>14, <1>15, <1>16 DEF Spot
<1>18. QED
  BY <1>17

\* A new list is the chain of its nodes and its length.
LEMMA NewIs ==
  ASSUME NEW s, NEW packed, Len(Nodes(s, packed)) \in Nat
  PROVE  New(s, packed) = List(Nodes(s, packed), UintNode(Len(s)))
BY FillIsChain DEF New, List, Nodes

\* The length of a new list
LEMMA LengthNew ==
  ASSUME NEW s, NEW packed
  PROVE  Length(New(s, packed)) = Len(s)
<1>1. New(s, packed).right = UintNode(Len(s))
  BY PairFacts DEF New
<1>2. UintOf(UintNode(Len(s))) = Len(s)
  BY UintFacts
<1>3. QED
  BY <1>1, <1>2 DEF Length

-----------------------------------------------------------------------------
(***************************************************************************)
(* What the operations do to the list of a sequence                        *)
(***************************************************************************)

\* N and M differ in nothing but node a of subtree k.
NodesDiffer(N, M, k, a) ==
  /\ k \in Nat /\ a \in Nat /\ Len(N) \in Nat /\ Len(M) = Len(N)
  /\ Start(k) <= a /\ a < Start(k + 1) /\ a < Len(N)
  /\ \A c \in Nat \ {0, a + 1} : SameAt(N, M, c)

\* Then the chains are the same before and behind subtree k.
LEMMA DifferFacts ==
  ASSUME NEW N, NEW M, NEW k, NEW a, NodesDiffer(N, M, k, a), NEW d \in Nat, NEW s, TreeOf(k, d, s)
  PROVE  /\ SameBefore(N, M, k) /\ Start(k) < Len(N) /\ Start(k) < Len(M)
         /\ Chain(N, k + 1) = Chain(M, k + 1)
         /\ SameBut(N, M, d, s, a)
<1>1. /\ k \in Nat /\ a \in Nat /\ Len(N) \in Nat /\ Len(M) = Len(N)
      /\ Start(k) <= a /\ a < Start(k + 1) /\ a < Len(N)
      /\ \A c \in Nat \ {0, a + 1} : SameAt(N, M, c)
  BY DEF NodesDiffer
<1>2. Start(k) \in Nat /\ Start(k + 1) \in Nat /\ k + 1 \in Nat /\ 2^d \in Nat /\ s = Start(k)
  BY <1>1, StartFacts, PowerFacts DEF TreeOf
<1>3. SameBefore(N, M, k) /\ Start(k) < Len(N)
  <2>1. Start(k) < Len(N) /\ Start(k) <= Len(N)
    BY <1>1, <1>2
  <2>2. ASSUME NEW c \in 1 .. Start(k) PROVE SameAt(N, M, c)
    <3>1. c \in Nat \ {0, a + 1}
      BY <1>1, <1>2
    <3>2. QED
      BY <1>1, <3>1
  <2>3. QED
    BY <1>1, <2>1, <2>2 DEF SameBefore
<1>4. Chain(N, k + 1) = Chain(M, k + 1)
  <2>1. ASSUME NEW c \in Nat, c > Start(k + 1) PROVE SameAt(N, M, c)
    <3>1. c \in Nat \ {0, a + 1}
      BY <1>1, <1>2, <2>1
    <3>2. QED
      BY <1>1, <3>1
  <2>2. QED
    BY <1>1, <1>2, <2>1, ChainSame
<1>5. SameBut(N, M, d, s, a)
  <2>1. ASSUME NEW c \in s + 1 .. s + 2^d, c # a + 1 PROVE SameAt(N, M, c)
    <3>1. c \in Nat \ {0, a + 1}
      BY <1>2, <2>1
    <3>2. QED
      BY <1>1, <3>1
  <2>2. QED
    BY <2>1 DEF SameBut
<1>6. QED
  BY <1>1, <1>3, <1>4, <1>5

\* set replaces the element, and get reads it.
LEMMA ReplaceNew ==
  ASSUME NEW V, NEW s, NEW i, NEW v, NEW packed \in BOOLEAN, Replaces(V, s, i, v), InBounds(i)
  PROVE  /\ WriteItem(New(s, packed), packed, i, v) = New(Put0(s, i, v), packed)
         /\ ReadItem(New(s, packed), packed, i) = s[i + 1]
<1> DEFINE t == Put0(s, i, v)
           N == Nodes(s, packed)
           M == Nodes(t, packed)
           number == UintNode(Len(s))
           expand == FALSE
<1>1. i \in Nat /\ s \in Seq(V) /\ Len(s) \in Nat
  BY LenProperties DEF Replaces
<1>2. PICK k, d, b, a, x, o, j : Spot(packed, i, k, d, b, a, x, o, j)
  BY <1>1, SpotExists
<1>3. /\ k \in Nat /\ d \in Nat /\ b \in Nat /\ a \in Nat /\ x \in 0 .. 2^d - 1
      /\ TreeOf(k, d, b) /\ a = Place(b, x, 0) /\ b <= a /\ a < Start(k + 1)
  BY <1>2, ChunkAssumption, PowerFacts DEF Spot
<1>4. ToGindexProgressive[i \div PerChunk(packed)].gindex = ListGindex(k, d, x)
      /\ i % PerChunk(packed) = o
  BY <1>2 DEF Spot, ChunkOf, OffsetOf
<1>5. Writes(N, M, packed, v, a, o) /\ Element(NodeAt(N, a), packed, o) = s[i + 1]
  <2>1. /\ Writes(Nodes(s, packed), Nodes(Put0(s, i, v), packed), packed, v,
                  ChunkOf(packed, i), OffsetOf(packed, i))
        /\ Element(NodeAt(Nodes(s, packed), ChunkOf(packed, i)), packed, OffsetOf(packed, i))
             = s[i + 1]
    BY WriteNodes
  <2>2. QED
    BY <1>2, <2>1 DEF Spot
<1>6. t \in Seq(V) /\ Len(t) = Len(s)
  BY Put0Facts
<1>7. Len(N) \in Nat /\ Len(M) \in Nat
  BY <1>1, <1>6, NodesAre DEF NodesFit
<1>8. New(s, packed) = List(N, number) /\ New(t, packed) = List(M, number)
  BY <1>6, <1>7, NewIs
<1> HIDE DEF t, N, M, number, expand
<1>9. /\ Len(M) = Len(N) /\ a < Len(N)
      /\ \A c \in Nat \ {0, a + 1} : SameAt(N, M, c)
      /\ NodeAt(M, a) = ElemNode(packed, v, NodeAt(N, a), o)
  BY <1>5 DEF Writes
<1>10. NodesDiffer(N, M, k, a)
  BY <1>3, <1>7, <1>9 DEF NodesDiffer, TreeOf
<1>11. /\ SameBefore(N, M, k) /\ Start(k) < Len(N) /\ Start(k) < Len(M)
       /\ Chain(N, k + 1) = Chain(M, k + 1)
       /\ SameBut(N, M, d, b, a)
  BY <1>3, <1>10, DifferFacts
<1>12. Subtree(N, k) = SubtreeFillToContents(N, d, b) /\ Subtree(M, k) = SubtreeFillToContents(M, d, b)
  BY <1>3 DEF Subtree, TreeOf
<1>13. Getter(List(N, number), ListGindex(k, d, x)) = NodeAt(N, a)
  <2>1. Getter(List(N, number), ListGindex(k, d, x)) = Getter(Subtree(N, k), ToGindex(x, d))
    BY <1>3, <1>7, <1>11, GetListLeaf
  <2>2. Getter(SubtreeFillToContents(N, d, b), ToGindex(x, d)) = NodeAt(N, a)
    BY <1>3, <1>7, <1>9, GetLeaf
  <2>3. QED
    BY <1>12, <2>1, <2>2
<1>14. Setter(List(N, number), ListGindex(k, d, x), NodeAt(M, a), expand) = List(M, number)
  <2>1. a < Len(M) /\ Reached(N, a, 0, expand)
    BY <1>9 DEF Reached
  <2>2. Setter(SubtreeFillToContents(N, d, b), ToGindex(x, d), NodeAt(M, a), expand)
          = SubtreeFillToContents(M, d, b)
    BY <1>3, <1>7, <1>11, <2>1, SetLeaf
  <2>3. Setter(Subtree(N, k), ToGindex(x, d), NodeAt(M, a), expand) = Subtree(M, k)
    BY <1>12, <2>2
  <2>4. QED
    BY <1>3, <1>7, <1>11, <2>3, SetListLeaf
<1>15. WriteItem(List(N, number), packed, i, v)
         = Setter(List(N, number), ListGindex(k, d, x), NodeAt(M, a), expand)
  BY <1>4, <1>9, <1>13 DEF WriteItem, expand
<1>16. ReadItem(List(N, number), packed, i) = Element(NodeAt(N, a), packed, o)
  BY <1>4, <1>13 DEF ReadItem, Element
<1>17. QED
  BY <1>5, <1>8, <1>14, <1>15, <1>16 DEF t

\* N becomes M by appending an element, to leaf x of subtree k or, at the
\* offset o, into it.
LEMMA AppendPlaces ==
  ASSUME NEW N, NEW M, NEW packed, NEW v, NEW k \in Nat, NEW b, NEW a \in Nat, NEW x \in Nat,
         NEW o \in Nat, Len(N) \in Nat, b = Start(k), a = b + x, a < Start(k + 1),
         AppendsTo(N, M, packed, v, a, o)
  PROVE  /\ Len(M) = a + 1 /\ Len(M) \in Nat
         /\ SameBefore(N, M, k) /\ Start(k) < Len(M)
         /\ Chain(M, k + 1) = Zero(0) /\ Chain(N, k + 1) = Zero(0)
         /\ x = 0 /\ o = 0 => Len(N) <= Start(k)
         /\ ~(x = 0 /\ o = 0) => Start(k) < Len(N)
<1>1. /\ Len(M) = a + 1 /\ Len(N) = (IF o = 0 THEN a ELSE a + 1)
      /\ \A c \in 1 .. a : SameAt(N, M, c)
  BY DEF AppendsTo
<1>2. Start(k) \in Nat /\ Start(k + 1) \in Nat /\ k + 1 \in Nat
  BY StartFacts
<1>3. Len(M) \in Nat /\ Len(M) <= Start(k + 1) /\ Len(N) <= Start(k + 1) /\ Start(k) < Len(M)
  BY <1>1, <1>2
<1>4. Chain(M, k + 1) = Zero(0) /\ Chain(N, k + 1) = Zero(0)
  BY <1>2, <1>3, ChainFacts
<1>5. SameBefore(N, M, k)
  <2>1. Start(k) <= Len(N) /\ Start(k) <= Len(M)
    BY <1>1, <1>2
  <2>2. \A c \in 1 .. Start(k) : c \in 1 .. a
    BY <1>2
  <2>3. QED
    BY <1>1, <2>1, <2>2 DEF SameBefore
<1>6. (x = 0 /\ o = 0 => Len(N) <= Start(k)) /\ (~(x = 0 /\ o = 0) => Start(k) < Len(N))
  BY <1>1, <1>2
<1>7. QED
  BY <1>1, <1>3, <1>4, <1>5, <1>6

\* append makes the list of the nodes with the element, whether it begins a subtree or
\* not.
LEMMA AppendList ==
  ASSUME NEW N, NEW M, NEW packed, NEW v, NEW number, NEW k, NEW d, NEW b, NEW a, NEW x, NEW o, NEW j,
         NEW i \in Nat, Len(N) \in Nat, Spot(packed, i, k, d, b, a, x, o, j),
         AppendsTo(N, M, packed, v, a, o), NEW expand
  PROVE  LET next == IF j = 0
                     THEN Setter(List(N, number), ListSpine(k), PairNode(Zero(d), Zero(0)), expand)
                     ELSE List(N, number)
         IN Setter(next, SubtreeGindex(k),
                   AppendView(Getter(next, SubtreeGindex(k)), d, j, v, packed), expand)
              = List(M, number)
<1> DEFINE next == IF j = 0
                   THEN Setter(List(N, number), ListSpine(k), PairNode(Zero(d), Zero(0)), expand)
                   ELSE List(N, number)
           view == AppendView(Getter(next, SubtreeGindex(k)), d, j, v, packed)
<1>1. /\ k \in Nat /\ d \in Nat /\ b \in Nat /\ a \in Nat /\ o \in Nat /\ j \in Nat
      /\ x \in 0 .. 2^d - 1 /\ x \in Nat
      /\ b = Start(k) /\ a = Place(b, x, 0) /\ a = b + x /\ a < Start(k + 1)
      /\ In(packed, j, x, o) /\ (j = 0 <=> x = 0 /\ o = 0)
      /\ TreeOf(k, d, b)
  BY ChunkAssumption, PowerFacts DEF Spot, TreeOf
<1>2. /\ Len(M) = a + 1 /\ Len(M) \in Nat
      /\ SameBefore(N, M, k) /\ Start(k) < Len(M)
      /\ Chain(M, k + 1) = Zero(0) /\ Chain(N, k + 1) = Zero(0)
      /\ x = 0 /\ o = 0 => Len(N) <= Start(k)
      /\ ~(x = 0 /\ o = 0) => Start(k) < Len(N)
  BY <1>1, AppendPlaces
<1>3. Subtree(N, k) = SubtreeFillToContents(N, d, b) /\ Subtree(M, k) = SubtreeFillToContents(M, d, b)
  BY <1>1 DEF Subtree, TreeOf
<1>4. AppendView(SubtreeFillToContents(N, d, b), d, j, v, packed) = SubtreeFillToContents(M, d, b)
  BY <1>1, AppendViewFill
<1>5. AppendView(Subtree(N, k), d, j, v, packed) = Subtree(M, k)
  BY <1>3, <1>4
<1>6. CASE j = 0
  <2> DEFINE zero == Zero(0)
  <2>1. Subtree(N, k) = Zero(d)
    BY <1>1, <1>2, <1>3, <1>6, FillFacts
  <2>2. EndsIn(M, k, zero)
    <3>1. Start(k) < Len(M) =>
            Chain(M, k) = PairNode(SubtreeFillToContents(M, 2 * k, Start(k)), Chain(M, k + 1))
      BY <1>1, <1>2, ChainFacts
    <3>2. QED
      BY <1>2, <3>1 DEF Subtree, EndsIn
  <2> DEFINE old == Zero(d)
  <2>3. next = Begun(N, number, k, old, zero, expand)
    BY <1>6 DEF Begun
  <2> HIDE DEF zero, next, old
  <2>4. /\ Getter(Begun(N, number, k, old, zero, expand), SubtreeGindex(k)) = old
        /\ Setter(Begun(N, number, k, old, zero, expand), SubtreeGindex(k), Subtree(M, k), expand)
             = List(M, number)
    <3>1. k \in Nat /\ Len(M) \in Nat /\ SameBefore(N, M, k)
      BY <1>1, <1>2
    <3>2. QED
      BY <2>2, <3>1, BeginList
  <2>5. Getter(next, SubtreeGindex(k)) = Subtree(N, k)
    BY <2>1, <2>3, <2>4 DEF old
  <2>6. view = Subtree(M, k)
    BY <1>5, <2>5
  <2>7. QED
    BY <2>3, <2>4, <2>6 DEF next
<1>7. CASE j # 0
  <2>1. Start(k) < Len(N) /\ next = List(N, number)
    BY <1>1, <1>2, <1>7
  <2> HIDE DEF next
  <2>2. Getter(List(N, number), SubtreeGindex(k)) = Subtree(N, k)
    BY <1>1, <2>1, GetSubtree
  <2>3. view = Subtree(M, k)
    BY <1>5, <2>1, <2>2
  <2>4. Setter(List(N, number), SubtreeGindex(k), Subtree(M, k), expand) = List(M, number)
    BY <1>1, <1>2, <2>1, SetSubtree
  <2>5. QED
    BY <2>1, <2>3, <2>4 DEF next
<1>8. QED
  BY <1>6, <1>7

\* append makes the list of the sequence with the element.
LEMMA AppendNew ==
  ASSUME NEW V, NEW s \in Seq(V), NEW v \in V, NEW packed \in BOOLEAN, InBounds(Len(s))
  PROVE  Appended(New(s, packed), packed, v) = New(Append(s, v), packed)
<1> DEFINE t == Append(s, v)
           N == Nodes(s, packed)
           M == Nodes(t, packed)
           i == Len(s)
           number == UintNode(i)
           list == New(s, packed)
           no == FALSE
<1>1. i \in Nat /\ t \in Seq(V) /\ Len(t) = i + 1
  OBVIOUS
<1>2. PICK k, d, b, a, x, o, j : Spot(packed, i, k, d, b, a, x, o, j)
  BY <1>1, SpotExists
<1>3. AppendsTo(N, M, packed, v, a, o)
  <2>1. AppendsTo(Nodes(s, packed), Nodes(Append(s, v), packed), packed, v,
                  ChunkOf(packed, Len(s)), OffsetOf(packed, Len(s)))
    BY AppendNodes
  <2>2. QED
    BY <1>2, <2>1 DEF Spot
<1> HIDE DEF t
<1>4. Len(N) \in Nat /\ Len(M) \in Nat
  BY <1>1, NodesAre DEF NodesFit
<1>5. list = List(N, number) /\ New(t, packed) = List(M, UintNode(i + 1)) /\ Length(list) = i
  BY <1>1, <1>4, NewIs, LengthNew
<1>6. /\ ToTargetProgressive(packed, i) = [gindex |-> ListSpine(k), depth |-> d, i |-> j]
      /\ 2 * ListSpine(k) = SubtreeGindex(k)
  <2>1. k \in Nat
    BY <1>2 DEF Spot
  <2>2. QED
    BY <1>2, <2>1, SpineFacts DEF Spot
<1> HIDE DEF i, N, M, number, list, no
<1> DEFINE next == IF j = 0
                   THEN Setter(list, ListSpine(k), PairNode(Zero(d), Zero(0)), no)
                   ELSE list
           set == Setter(next, SubtreeGindex(k),
                         AppendView(Getter(next, SubtreeGindex(k)), d, j, v, packed), no)
<1>7. Appended(list, packed, v) = Setter(set, 3, UintNode(i + 1), no)
  <2> DEFINE target == ToTargetProgressive(packed, Length(list))
  <2>1. /\ target.gindex = ListSpine(k) /\ target.depth = d /\ target.i = j
        /\ 2 * target.gindex = SubtreeGindex(k)
    BY <1>5, <1>6
  <2>2. Appended(list, packed, v)
          = LET nxt == IF target.i = 0
                       THEN Setter(list, target.gindex, PairNode(Zero(target.depth), Zero(0)), no)
                       ELSE list
            IN Setter(Setter(nxt, 2 * target.gindex,
                             AppendView(Getter(nxt, 2 * target.gindex), target.depth, target.i,
                                        v, packed), no),
                      3, UintNode(Length(list) + 1), no)
    BY DEF Appended, no
  <2> HIDE DEF target
  <2>3. QED
    BY <1>5, <2>1, <2>2
<1>8. set = List(M, number)
  <2> HIDE DEF next
  <2>1. next = IF j = 0
               THEN Setter(List(N, number), ListSpine(k), PairNode(Zero(d), Zero(0)), no)
               ELSE List(N, number)
    BY <1>5 DEF next
  <2>2. LET nxt == IF j = 0
                   THEN Setter(List(N, number), ListSpine(k), PairNode(Zero(d), Zero(0)), no)
                   ELSE List(N, number)
        IN Setter(nxt, SubtreeGindex(k),
                  AppendView(Getter(nxt, SubtreeGindex(k)), d, j, v, packed), no)
             = List(M, number)
    BY <1>1, <1>2, <1>3, <1>4, AppendList
  <2>3. QED
    BY <2>1, <2>2
<1> HIDE DEF set
<1>9. Setter(List(M, number), 3, UintNode(i + 1), no) = List(M, UintNode(i + 1))
  BY SetNumber
<1>10. QED
  BY <1>5, <1>7, <1>8, <1>9 DEF list, t

\* N becomes M by removing an element, from leaf x of subtree k.
LEMMA PopPlaces ==
  ASSUME NEW N, NEW M, NEW packed, NEW k \in Nat, NEW b, NEW a \in Nat, NEW x \in Nat,
         NEW o \in Nat, Len(N) \in Nat, b = Start(k), a = b + x, a < Start(k + 1),
         RemovesFrom(N, M, packed, a, o)
  PROVE  /\ Len(N) = a + 1 /\ Len(M) \in Nat
         /\ SameBefore(N, M, k) /\ Start(k) < Len(N)
         /\ Chain(M, k + 1) = Zero(0) /\ Chain(N, k + 1) = Zero(0)
         /\ x = 0 /\ o = 0 => Len(M) <= Start(k)
         /\ ~(x = 0 /\ o = 0) => Start(k) < Len(M)
<1>1. /\ Len(N) = a + 1 /\ Len(M) = (IF o = 0 THEN a ELSE a + 1)
      /\ \A c \in 1 .. a : SameAt(N, M, c)
  BY DEF RemovesFrom
<1>2. Start(k) \in Nat /\ Start(k + 1) \in Nat /\ k + 1 \in Nat
  BY StartFacts
<1>3. Len(M) \in Nat /\ Len(M) <= Start(k + 1) /\ Len(N) <= Start(k + 1) /\ Start(k) < Len(N)
  BY <1>1, <1>2
<1>4. Chain(M, k + 1) = Zero(0) /\ Chain(N, k + 1) = Zero(0)
  BY <1>2, <1>3, ChainFacts
<1>5. SameBefore(N, M, k)
  <2>1. Start(k) <= Len(N) /\ Start(k) <= Len(M)
    BY <1>1, <1>2
  <2>2. \A c \in 1 .. Start(k) : c \in 1 .. a
    BY <1>2
  <2>3. QED
    BY <1>1, <2>1, <2>2 DEF SameBefore
<1>6. (x = 0 /\ o = 0 => Len(M) <= Start(k)) /\ (~(x = 0 /\ o = 0) => Start(k) < Len(M))
  BY <1>1, <1>2
<1>7. QED
  BY <1>1, <1>3, <1>4, <1>5, <1>6

\* pop makes the list of the nodes without the element, whether it was the last of a
\* subtree or not.
LEMMA PopList ==
  ASSUME NEW N, NEW M, NEW S, NEW number, NEW k, NEW d, NEW b, NEW a, NEW x, NEW o, NEW j,
         NEW packed \in BOOLEAN, NEW i \in Nat, Len(N) \in Nat, M \in Seq(S),
         Spot(packed, i, k, d, b, a, x, o, j), RemovesFrom(N, M, packed, a, o), NEW expand
  PROVE  (IF j = 0 THEN Setter(List(N, number), ListSpine(k), Zero(0), expand)
          ELSE Setter(List(N, number), SubtreeGindex(k),
                      PopAndSummarize(Getter(List(N, number), SubtreeGindex(k)), d, j, packed), expand))
           = List(M, number)
<1>1. /\ k \in Nat /\ d \in 0 .. MaxHeight /\ d \in Nat /\ b \in Nat /\ a \in Nat /\ o \in Nat
      /\ j \in Nat /\ x \in 0 .. 2^d - 1 /\ x \in Nat
      /\ b = Start(k) /\ a = Place(b, x, 0) /\ a = b + x /\ a < Start(k + 1)
      /\ In(packed, j, x, o) /\ (j = 0 <=> x = 0 /\ o = 0)
      /\ TreeOf(k, d, b)
  BY ChunkAssumption, PowerFacts DEF Spot, TreeOf
<1>2. /\ Len(N) = a + 1 /\ Len(M) \in Nat
      /\ SameBefore(N, M, k) /\ Start(k) < Len(N)
      /\ Chain(M, k + 1) = Zero(0) /\ Chain(N, k + 1) = Zero(0)
      /\ x = 0 /\ o = 0 => Len(M) <= Start(k)
      /\ ~(x = 0 /\ o = 0) => Start(k) < Len(M)
  BY <1>1, PopPlaces
<1>3. CASE j = 0
  <2> DEFINE zero == Zero(0)
  <2>1. Chain(M, k) = zero
    BY <1>1, <1>2, <1>3, ChainFacts
  <2> HIDE DEF zero
  <2>2. k \in Nat /\ Len(M) \in Nat /\ SameBefore(N, M, k)
    BY <1>1, <1>2
  <2>3. Setter(List(N, number), ListSpine(k), zero, expand) = List(M, number)
    BY <2>1, <2>2, EndList
  <2>4. QED
    BY <1>3, <2>3 DEF zero
<1>4. CASE j # 0
  <2>1. PopAndSummarize(SubtreeFillToContents(N, d, b), d, j, packed) = SubtreeFillToContents(M, d, b)
    <3>1. CASE o # 0
      BY <1>1, <3>1, PopWithinChunk
    <3>2. CASE o = 0
      <4>1. x \in 1 .. 2^d - 1 /\ In(packed, j, x, 0) /\ RemovesFrom(N, M, packed, a, 0)
        BY <1>1, <1>4, <3>2
      <4>2. QED
        BY <1>1, <4>1, PopWithChunk
    <3>3. QED
      BY <3>1, <3>2
  <2>2. PopAndSummarize(Subtree(N, k), d, j, packed) = Subtree(M, k)
    BY <1>1, <2>1 DEF Subtree, TreeOf
  <2>3. Getter(List(N, number), SubtreeGindex(k)) = Subtree(N, k)
    BY <1>1, <1>2, GetSubtree
  <2>4. Setter(List(N, number), SubtreeGindex(k), Subtree(M, k), expand) = List(M, number)
    <3>1. /\ k \in Nat /\ Len(M) \in Nat /\ SameBefore(N, M, k) /\ Start(k) < Len(N)
          /\ Start(k) < Len(M) /\ Chain(N, k + 1) = Chain(M, k + 1)
      BY <1>1, <1>2, <1>4
    <3>2. QED
      BY <3>1, SetSubtree
  <2>5. QED
    BY <1>4, <2>2, <2>3, <2>4
<1>5. QED
  BY <1>3, <1>4

\* A new list of nothing is a pair of zeros.
LEMMA EmptyNew ==
  ASSUME NEW V, NEW s \in Seq(V), NEW packed \in BOOLEAN, Len(s) = 0
  PROVE  New(s, packed) = PairNode(Zero(0), Zero(0))
<1> DEFINE N == Nodes(s, packed)
<1>1. NodesFit(N, Len(s), packed)
  BY NodesAre
<1> HIDE DEF N
<1>2. Len(N) \in Nat /\ ~(0 < Len(N))
  <2>1. 0 * PerChunk(packed) = 0 /\ 0 \in Nat
    BY PerChunkType
  <2>2. Len(N) \in Nat /\ (0 < Len(N) <=> 0 * PerChunk(packed) < Len(s))
    BY <1>1, <2>1 DEF NodesFit
  <2>3. QED
    BY <2>1, <2>2
<1>3. Len(N) <= Start(0)
  BY <1>2, StartZero
<1>4. Chain(N, 0) = Zero(0)
  BY <1>2, <1>3, StartZero, ChainFacts
<1>5. New(s, packed) = List(N, UintNode(0))
  BY <1>2, NewIs DEF N
<1>6. UintNode(0) = Zero(0)
  <2>1. ElemNode(TRUE, 0, Zero(0), 0) = UintNode(0)
    BY DEF ElemNode, UintNode
  <2>2. QED
    BY <2>1, ZeroIsCleared
<1>7. QED
  BY <1>4, <1>5, <1>6 DEF List

\* pop makes the list of the sequence without the last element.
LEMMA PopNew ==
  ASSUME NEW V, NEW s \in Seq(V), NEW v \in V, NEW packed \in BOOLEAN, InBounds(Len(s))
  PROVE  Popped(New(Append(s, v), packed), packed) = New(s, packed)
<1> DEFINE t == Append(s, v)
           N == Nodes(t, packed)
           M == Nodes(s, packed)
           i == Len(s)
           number == UintNode(i + 1)
           list == New(t, packed)
           no == FALSE
<1>1. i \in Nat /\ t \in Seq(V) /\ Len(t) = i + 1
  OBVIOUS
<1>2. PICK k, d, b, a, x, o, j : Spot(packed, i, k, d, b, a, x, o, j)
  BY <1>1, SpotExists
<1>3. RemovesFrom(N, M, packed, a, o)
  <2>1. RemovesFrom(Nodes(Append(s, v), packed), Nodes(s, packed), packed,
                    ChunkOf(packed, Len(s)), OffsetOf(packed, Len(s)))
    BY AppendNodes
  <2>2. QED
    BY <1>2, <2>1 DEF Spot
<1> HIDE DEF t
<1>4. Len(N) \in Nat /\ Len(M) \in Nat /\ M \in Seq({M[c] : c \in 1 .. Len(M)})
  BY <1>1, NodesAre DEF NodesFit
<1>5. list = List(N, number) /\ New(s, packed) = List(M, UintNode(i)) /\ Length(list) = i + 1
  BY <1>1, <1>4, NewIs, LengthNew
<1>6. /\ ToTargetProgressive(packed, i) = [gindex |-> ListSpine(k), depth |-> d, i |-> j]
      /\ 2 * ListSpine(k) = SubtreeGindex(k)
  <2>1. k \in Nat
    BY <1>2 DEF Spot
  <2>2. QED
    BY <1>2, <2>1, SpineFacts DEF Spot
<1>7. i = 0 => New(s, packed) = PairNode(Zero(0), Zero(0))
  BY EmptyNew
<1> DEFINE S == {M[c] : c \in 1 .. Len(M)}
<1> HIDE DEF i, N, M, number, list, no, S
<1> DEFINE next == IF j = 0 THEN Setter(list, ListSpine(k), Zero(0), no)
                   ELSE Setter(list, SubtreeGindex(k),
                               PopAndSummarize(Getter(list, SubtreeGindex(k)), d, j, packed), no)
<1>8. Popped(list, packed) = IF i = 0 THEN PairNode(Zero(0), Zero(0))
                             ELSE Setter(next, 3, UintNode(i), no)
  <2> DEFINE target == ToTargetProgressive(packed, Length(list) - 1)
  <2>0. Length(list) - 1 = i /\ (Length(list) = 1 <=> i = 0)
    BY <1>1, <1>5
  <2>1. /\ target.gindex = ListSpine(k) /\ target.depth = d /\ target.i = j
        /\ 2 * target.gindex = SubtreeGindex(k)
    BY <1>6, <2>0
  <2>2. Popped(list, packed)
          = LET nxt == IF target.i = 0 THEN Setter(list, target.gindex, Zero(0), no)
                       ELSE Setter(list, 2 * target.gindex,
                                   PopAndSummarize(Getter(list, 2 * target.gindex), target.depth,
                                                   target.i, packed), no)
            IN IF Length(list) = 1 THEN PairNode(Zero(0), Zero(0))
               ELSE Setter(nxt, 3, UintNode(Length(list) - 1), no)
    BY DEF Popped, no
  <2> HIDE DEF target
  <2>3. QED
    BY <2>0, <2>1, <2>2
<1>9. next = List(M, number)
  <2>1. M \in Seq(S)
    BY <1>4 DEF S
  <2>2. (IF j = 0 THEN Setter(List(N, number), ListSpine(k), Zero(0), no)
         ELSE Setter(List(N, number), SubtreeGindex(k),
                     PopAndSummarize(Getter(List(N, number), SubtreeGindex(k)), d, j, packed), no))
          = List(M, number)
    BY <1>1, <1>2, <1>3, <1>4, <2>1, PopList
  <2>3. QED
    BY <1>5, <2>2
<1> HIDE DEF next
<1>10. Setter(List(M, number), 3, UintNode(i), no) = List(M, UintNode(i))
  BY SetNumber
<1>11. QED
  BY <1>5, <1>7, <1>8, <1>9, <1>10 DEF list, t

-----------------------------------------------------------------------------
(***************************************************************************)
(* Optional values                                                         *)
(***************************************************************************)

\* The tree of no value, and of a value
LEMMA OptionalIs ==
  /\ NewOptional(None) = PairNode(Zero(0), UintNode(0))
  /\ \A v : v # None => NewOptional(v) = PairNode(v, UintNode(1))
<1> DEFINE zero == 0
<1>1. zero \in Nat /\ Len(<<>>) = zero
  BY EmptySeq
<1>2. SubtreeFillToContents(<<>>, 0, 0) = Zero(0)
  <2> HIDE DEF zero
  <2>1. Len(<<>>) \in Nat /\ Len(<<>>) <= zero
    BY <1>1
  <2>2. SubtreeFillToContents(<<>>, zero, zero) = Zero(zero)
    BY <1>1, <2>1, FillFacts
  <2>3. QED
    BY <2>2 DEF zero
<1>3. ASSUME NEW v PROVE SubtreeFillToContents(<<v>>, 0, 0) = v
  <2> DEFINE nodes == <<v>>
  <2>1. Len(nodes) = 1 /\ nodes[1] = v /\ nodes[zero + 1] = v
    OBVIOUS
  <2> HIDE DEF nodes, zero
  <2>2. Len(nodes) \in Nat /\ zero < Len(nodes) /\ zero \in Nat
    BY <1>1, <2>1 DEF zero
  <2>3. zero < Len(nodes) => SubtreeFillToContents(nodes, 0, zero) = nodes[zero + 1]
    BY <2>2, FillFacts
  <2>4. QED
    BY <2>1, <2>2, <2>3 DEF zero, nodes
<1>4. QED
  BY <1>2, <1>3 DEF NewOptional

\* A value is told from none, read, and replaced.
LEMMA OptionalFacts ==
  /\ ~Present(NewOptional(None)) /\ Get(NewOptional(None)) = None
  /\ \A v : v # None => /\ Present(NewOptional(v)) /\ Get(NewOptional(v)) = v
                        /\ Getter(NewOptional(v), 2) = v
  /\ \A v, w : v # None /\ w # None => Set(NewOptional(v), w) = NewOptional(w)
<1>1. \A l, r : Getter(PairNode(l, r), 2) = l /\ Getter(PairNode(l, r), 3) = r
  <2>1. ASSUME NEW l, NEW r PROVE Getter(PairNode(l, r), 2) = l /\ Getter(PairNode(l, r), 3) = r
    <3> DEFINE node == PairNode(l, r)
    <3>1. IsPair(node) /\ node.left = l /\ node.right = r
      BY PairFacts
    <3> HIDE DEF node
    <3>2. Getter(node, 2 * 1) = Child(Getter(node, 1), "left")
          /\ Getter(node, 2 * 1 + 1) = Child(Getter(node, 1), "right") /\ Getter(node, 1) = node
      BY GetterFacts
    <3>3. 2 * 1 = 2 /\ 2 * 1 + 1 = 3
      OBVIOUS
    <3>4. QED
      BY <3>1, <3>2, <3>3 DEF Child, node
  <2>2. QED
    BY <2>1
<1>2. UintOf(UintNode(0)) = 0 /\ UintOf(UintNode(1)) = 1
  BY UintFacts
<1>3. ~Present(NewOptional(None)) /\ Get(NewOptional(None)) = None
  BY <1>1, <1>2, OptionalIs DEF Present, Get
<1>4. ASSUME NEW v, v # None
      PROVE  Present(NewOptional(v)) /\ Get(NewOptional(v)) = v /\ Getter(NewOptional(v), 2) = v
  BY <1>1, <1>2, <1>4, OptionalIs DEF Present, Get
<1>5. ASSUME NEW v, NEW w, v # None, w # None PROVE Set(NewOptional(v), w) = NewOptional(w)
  <2> DEFINE m == 0
             no == FALSE
             one == UintNode(1)
  <2>1. m \in Nat /\ m \in 0 .. 2^m - 1 /\ ToGindex(m, m) = 1
    BY RootIndex
  <2>2. HalfGindex(0, m, m) = 2
    BY PowerFacts DEF HalfGindex
  <2>3. NewOptional(v) = PairNode(v, one) /\ NewOptional(w) = PairNode(w, one)
    BY <1>5, OptionalIs
  <2>4. Set(NewOptional(v), w) = Setter(PairNode(v, one), HalfGindex(0, m, m), w, no)
    BY <1>5, <2>2, <2>3 DEF Set
  <2> HIDE DEF m, no, one
  <2>5. Setter(PairNode(v, one), HalfGindex(0, m, m), w, no)
          = PairNode(Setter(v, ToGindex(m, m), w, no), one)
    BY <2>1, SetPair
  <2>6. Setter(v, 1, w, no) = w
    BY SetRoot
  <2>7. QED
    BY <2>1, <2>3, <2>4, <2>5, <2>6
<1>6. QED
  BY <1>3, <1>4, <1>5

\* The nodes of the values of a type are nodes.
LEMMA NodesAreNodes ==
  ASSUME NEW t \in Nat, NEW v \in NodesOf(t)
  PROVE  v # None /\ v # Raised
<1>1. \A l, r : PairNode(l, r) # None /\ PairNode(l, r) # Raised
  BY PairFacts DEF None, Raised, IsPair
<1>2. \A elems : Chunk(elems) # None /\ Chunk(elems) # Raised
  <2>1. ASSUME NEW elems PROVE Chunk(elems) # None /\ Chunk(elems) # Raised
    <3>1. "zero" \in DOMAIN Zero(0) /\ "chunk" \in DOMAIN [chunk |-> elems]
      BY PairFacts
    <3>2. /\ "zero" \notin DOMAIN None /\ "chunk" \notin DOMAIN None
          /\ "zero" \notin DOMAIN Raised /\ "chunk" \notin DOMAIN Raised
      BY DEF None, Raised
    <3>3. QED
      BY <3>1, <3>2 DEF Chunk
  <2>2. QED
    BY <2>1
<1>3. CASE t = Uint8
  <2>1. NodesOf(t) = {UintNode(n) : n \in Numbers}
    BY <1>3, NodesOfDef
  <2>2. PICK n \in Numbers : v = UintNode(n)
    BY <2>1
  <2>3. QED
    BY <1>2, <2>2 DEF UintNode, BackingFromBase
<1>4. CASE t # Uint8
  <2>1. NodesOf(t) = {NewOptional(w) : w \in {None} \cup NodesOf(ElementCls(t))}
    BY <1>4, NodesOfDef
  <2>2. PICK w : v = NewOptional(w)
    BY <2>1
  <2>3. QED
    BY <1>1, <2>2 DEF NewOptional
<1>5. QED
  BY <1>3, <1>4

\* The values of an Optional type
LEMMA OptionalNodes ==
  ASSUME NEW t \in Nat, NEW T, T = t + 1
  PROVE  /\ NodesOf(T) = {NewOptional(w) : w \in {None} \cup NodesOf(t)}
         /\ T \in Nat /\ T # Uint8 /\ ElementCls(T) = t
<1>1. T \in Nat /\ T # Uint8 /\ ElementCls(T) = t
  BY DEF Uint8, ElementCls
<1>2. QED
  BY <1>1, NodesOfDef

-----------------------------------------------------------------------------
(***************************************************************************)
(* The bytes of an Optional value                                          *)
(***************************************************************************)

\* A node j steps to the left is reached in one step more.
LEMMA LeftOfLeft ==
  ASSUME NEW node, NEW j \in Nat
  PROVE  Getter(node, 2^(j + 1)) = Getter(Getter(node, 2^j), 2)
<1>1. 2^(j + 1) = 2 * 2^j /\ 2^j \in Nat \ {0}
  BY PowerFacts
<1>2. \A x : Getter(x, 2) = Child(x, "left")
  <2>1. ASSUME NEW x PROVE Getter(x, 2) = Child(x, "left")
    <3>1. Getter(x, 2 * 1) = Child(Getter(x, 1), "left") /\ Getter(x, 1) = x /\ 2 * 1 = 2
      BY GetterFacts
    <3>2. QED
      BY <3>1
  <2>2. QED
    BY <2>1
<1>3. Getter(node, 2 * 2^j) = Child(Getter(node, 2^j), "left")
  BY <1>1, GetterFacts
<1>4. QED
  BY <1>1, <1>2, <1>3

\* No step to the left
LEMMA LeftNone ==
  ASSUME NEW node
  PROVE  Getter(node, 2^0) = node
BY PowerFacts, GetterFacts

\* What is written at the type t is what is written of the value there.
LEMMA BytesInside ==
  ASSUME NEW t \in Nat
  PROVE  \A T \in Nat : \A node :
           t <= T => BytesAt(T, node, t) = BytesAt(t, Getter(node, 2^(T - t)), t)
<1> DEFINE I == {n \in Nat : \A T \in Nat : \A node :
                   n <= T => BytesAt(T, node, n) = BytesAt(n, Getter(node, 2^(T - n)), n)}
<1>1. ASSUME NEW n \in Nat, n # 0 => n - 1 \in I PROVE n \in I
  <2>1. ASSUME NEW T \in Nat, NEW node, n <= T
        PROVE  BytesAt(T, node, n) = BytesAt(n, Getter(node, 2^(T - n)), n)
    <3> DEFINE value == Getter(node, 2^(T - n))
               rest == BytesAt(T, node, ElementCls(n))
               own == BytesAt(n, value, ElementCls(n))
               Bytes(r) == IF n = Uint8 THEN <<UintOf(value)>>
                           ELSE IF Get(value) = None THEN <<>> ELSE <<1>> \o r
    <3>1. BytesAt(T, node, n) = Bytes(rest)
      BY BytesAtDef
    <3>2. BytesAt(n, value, n) = Bytes(own)
      <4> HIDE DEF value
      <4>1. n - n = 0 /\ Getter(value, 2^0) = value
        BY LeftNone
      <4>2. BytesAt(n, value, n) = LET x == Getter(value, 2^(n - n))
                                   IN IF n = Uint8 THEN <<UintOf(x)>>
                                      ELSE IF Get(x) = None THEN <<>> ELSE <<1>> \o own
        BY BytesAtDef
      <4>3. QED
        BY <4>1, <4>2
    <3>3. ASSUME n # Uint8 PROVE rest = own
      <4> DEFINE m == n - 1
                 j == T - n
      <4>1. m \in Nat /\ j \in Nat /\ n - m = 1 /\ T - m = j + 1 /\ m <= T /\ m <= n /\ n # 0
            /\ ElementCls(n) = m
        BY <2>1, <3>3 DEF Uint8, ElementCls
      <4>2. m \in I
        BY <1>1, <4>1
      <4> HIDE DEF m, j
      <4>3. BytesAt(T, node, m) = BytesAt(m, Getter(node, 2^(T - m)), m)
        BY <4>1, <4>2
      <4>4. BytesAt(n, value, m) = BytesAt(m, Getter(value, 2^(n - m)), m)
        <5> HIDE DEF value
        <5>1. QED
          BY <4>1, <4>2
      <4>5. Getter(node, 2^(j + 1)) = Getter(Getter(node, 2^j), 2)
        BY <4>1, LeftOfLeft
      <4>6. 2^1 = 2
        BY PowerFacts
      <4>7. value = Getter(node, 2^j)
        BY DEF j
      <4> HIDE DEF value
      <4>8. QED
        BY <4>1, <4>3, <4>4, <4>5, <4>6, <4>7
    <3> HIDE DEF rest, own
    <3>4. QED
      BY <3>1, <3>2, <3>3
  <2>2. QED
    BY <2>1
<1>2. \A n \in Nat : n \in I
  <2> HIDE DEF I
  <2>1. 0 \in I
    BY <1>1
  <2>2. ASSUME NEW n \in Nat, n \in I PROVE n + 1 \in I
    <3>1. n + 1 \in Nat /\ (n + 1) - 1 = n
      OBVIOUS
    <3>2. QED
      BY <1>1, <2>2, <3>1
  <2>3. QED
    BY <2>1, <2>2, SimpleInduction
<1>3. QED
  BY <1>2

\* The bytes of a number, and of an Optional
LEMMA SerializeFacts ==
  ASSUME NEW node, NEW t \in Nat
  PROVE  /\ Serialize(Uint8, node) = <<UintOf(node)>>
         /\ Serialize(t + 1, node) = IF Get(node) = None THEN <<>>
                                     ELSE <<1>> \o Serialize(t, Getter(node, 2))
<1>1. \A T, n : Serialize(T, n) = BytesAt(T, n, T)
  BY DEF Serialize, BytesAt
<1>2. Serialize(Uint8, node) = <<UintOf(node)>>
  <2> DEFINE T == Uint8
  <2>1. T \in Nat /\ T = Uint8 /\ T - T = 0
    BY DEF Uint8
  <2> HIDE DEF T
  <2>2. BytesAt(T, node, T) = LET value == Getter(node, 2^(T - T))
                              IN IF T = Uint8 THEN <<UintOf(value)>>
                                 ELSE IF Get(value) = None THEN <<>>
                                 ELSE <<1>> \o BytesAt(T, node, ElementCls(T))
    BY <2>1, BytesAtDef
  <2>3. Getter(node, 2^(T - T)) = node
    BY <2>1, LeftNone
  <2>4. QED
    BY <1>1, <2>1, <2>2, <2>3
<1>3. Serialize(t + 1, node) = IF Get(node) = None THEN <<>>
                               ELSE <<1>> \o Serialize(t, Getter(node, 2))
  <2> DEFINE T == t + 1
  <2>1. T \in Nat /\ T # Uint8 /\ T - T = 0 /\ T - t = 1 /\ t <= T /\ ElementCls(T) = t
    BY DEF Uint8, ElementCls
  <2> HIDE DEF T
  <2>2. BytesAt(T, node, T) = LET value == Getter(node, 2^(T - T))
                              IN IF T = Uint8 THEN <<UintOf(value)>>
                                 ELSE IF Get(value) = None THEN <<>>
                                 ELSE <<1>> \o BytesAt(T, node, ElementCls(T))
    BY <2>1, BytesAtDef
  <2>3. Getter(node, 2^(T - T)) = node
    BY <2>1, LeftNone
  <2>4. BytesAt(T, node, t) = BytesAt(t, Getter(node, 2^(T - t)), t)
    BY <2>1, BytesInside
  <2>5. Getter(node, 2^(T - t)) = Getter(node, 2)
    BY <2>1, PowerFacts
  <2>6. QED
    BY <1>1, <2>1, <2>2, <2>3, <2>4, <2>5 DEF T
<1>4. QED
  BY <1>2, <1>3

\* What is read of the type t behind T - t bytes is the value of which the
\* bytes follow them.
Reads(T, prefix, t, v) == ReadAt(T, prefix \o Serialize(t, v), t) = v

Bytes == Numbers \cup {1}

\* A value has bytes, and so many as its type allows.
LEMMA Encoded ==
  ASSUME NEW t \in Nat
  PROVE  \A v \in NodesOf(t) :
           /\ Serialize(t, v) \in Seq(Bytes)
           /\ Len(Serialize(t, v)) \in MinByteLength(t) .. MaxByteLength(t)
           /\ MaxByteLength(t) \in Nat
<1> DEFINE Bounded(n) == \A v \in NodesOf(n) :
                           /\ Serialize(n, v) \in Seq(Bytes)
                           /\ Len(Serialize(n, v)) \in MinByteLength(n) .. MaxByteLength(n)
           I == {n \in Nat : MaxByteLength(n) \in Nat /\ Bounded(n)}
<1>1. 0 \in I
  <2> DEFINE T == Uint8
  <2>1. T \in Nat /\ T = Uint8 /\ T = 0
    BY DEF Uint8
  <2> HIDE DEF T
  <2>2. MaxByteLength(T) = 1 /\ MinByteLength(T) = 1
    BY <2>1, MaxByteLengthDef DEF MinByteLength
  <2>3. NodesOf(T) = {UintNode(n) : n \in Numbers}
    BY <2>1, NodesOfDef
  <2>4. ASSUME NEW v \in NodesOf(T)
        PROVE  Serialize(T, v) \in Seq(Bytes) /\ Len(Serialize(T, v)) = 1
    <3>1. PICK n \in Numbers : v = UintNode(n)
      BY <2>3, <2>4
    <3>2. Serialize(Uint8, v) = <<UintOf(v)>>
      BY SerializeFacts
    <3>3. UintOf(v) = n /\ n \in Bytes
      BY <3>1, UintFacts DEF Bytes
    <3>4. Serialize(T, v) = <<n>>
      BY <2>1, <3>2, <3>3
    <3>5. QED
      BY <3>3, <3>4
  <2>5. Bounded(T) /\ MaxByteLength(T) \in Nat
    BY <2>2, <2>4
  <2>6. QED
    BY <2>1, <2>5
<1>2. ASSUME NEW n \in Nat, n \in I PROVE n + 1 \in I
  <2> DEFINE T == n + 1
  <2>1. T \in Nat /\ T # Uint8 /\ ElementCls(T) = n
        /\ NodesOf(T) = {NewOptional(w) : w \in {None} \cup NodesOf(n)}
    BY OptionalNodes
  <2> HIDE DEF T
  <2>2. MaxByteLength(T) = 1 + MaxByteLength(n) /\ MinByteLength(T) = 0
    BY <2>1, MaxByteLengthDef DEF MinByteLength
  <2>3. MaxByteLength(n) \in Nat /\ Bounded(n) /\ MinByteLength(n) \in {0, 1}
    BY <1>2 DEF MinByteLength
  <2>4. ASSUME NEW v \in NodesOf(T)
        PROVE  Serialize(T, v) \in Seq(Bytes) /\ Len(Serialize(T, v)) \in 0 .. 1 + MaxByteLength(n)
    <3>1. PICK w \in {None} \cup NodesOf(n) : v = NewOptional(w)
      BY <2>1, <2>4
    <3>2. Serialize(T, v) = IF Get(v) = None THEN <<>> ELSE <<1>> \o Serialize(n, Getter(v, 2))
      BY SerializeFacts DEF T
    <3>3. CASE w = None
      <4>1. Serialize(T, v) = <<>>
        BY <3>1, <3>2, <3>3, OptionalFacts
      <4>2. QED
        BY <2>3, <4>1
    <3>4. CASE w # None
      <4>1. w \in NodesOf(n)
        BY <3>1, <3>4
      <4>2. Serialize(T, v) = <<1>> \o Serialize(n, w)
        BY <3>1, <3>2, <3>4, OptionalFacts
      <4>3. Serialize(n, w) \in Seq(Bytes)
            /\ Len(Serialize(n, w)) \in MinByteLength(n) .. MaxByteLength(n)
        BY <2>3, <4>1
      <4>4. <<1>> \in Seq(Bytes) /\ Len(<<1>>) = 1
        BY DEF Bytes
      <4> DEFINE one == <<1>>
                 rest == Serialize(n, w)
      <4> HIDE DEF one, rest
      <4>5. one \o rest \in Seq(Bytes) /\ Len(one \o rest) = Len(one) + Len(rest)
        BY <4>3, <4>4, ConcatProperties DEF one, rest
      <4>6. Len(rest) \in 0 .. MaxByteLength(n)
        BY <2>3, <4>3 DEF rest
      <4>7. QED
        BY <2>3, <4>2, <4>4, <4>5, <4>6 DEF one, rest
    <3>5. QED
      BY <3>3, <3>4
  <2>5. MaxByteLength(T) \in Nat /\ Bounded(T)
    BY <2>2, <2>3, <2>4
  <2>6. QED
    BY <2>1, <2>5 DEF T
<1>3. \A n \in Nat : n \in I
  <2> HIDE DEF I
  <2>1. QED
    BY <1>1, <1>2, SimpleInduction
<1>4. QED
  BY <1>3

\* Behind whatever bytes, a value is read back.
LEMMA Decoded ==
  ASSUME NEW t \in Nat
  PROVE  \A T \in Nat : \A v \in NodesOf(t) : \A prefix \in Seq(Bytes) :
           T = t + Len(prefix) => Reads(T, prefix, t, v)
<1> DEFINE All(n) == \A T \in Nat : \A v \in NodesOf(n) : \A prefix \in Seq(Bytes) :
                       T = n + Len(prefix) => Reads(T, prefix, n, v)
           I == {n \in Nat : All(n)}
<1>1. 0 \in I
  <2>1. ASSUME NEW T \in Nat, NEW v \in NodesOf(0), NEW prefix \in Seq(Bytes), T = 0 + Len(prefix)
        PROVE  Reads(T, prefix, 0, v)
    <3> DEFINE t0 == 0
    <3>1. t0 \in Nat /\ t0 = Uint8 /\ T = Len(prefix) /\ v \in NodesOf(t0)
      BY <2>1 DEF Uint8
    <3> HIDE DEF t0
    <3>2. NodesOf(t0) = {UintNode(n) : n \in Numbers}
      BY <3>1, NodesOfDef
    <3>3. PICK n \in Numbers : v = UintNode(n)
      BY <3>1, <3>2
    <3>4. Serialize(t0, v) = <<n>>
      <4>1. Serialize(Uint8, v) = <<UintOf(v)>>
        BY SerializeFacts
      <4>2. UintOf(v) = n
        BY <3>3, UintFacts
      <4>3. QED
        BY <3>1, <4>1, <4>2
    <3> DEFINE bytes == prefix \o <<n>>
    <3>5. Len(bytes) = T + 1 /\ bytes[T + 1] = n
      <4>1. <<n>> \in Seq(Bytes) /\ Len(<<n>>) = 1 /\ <<n>>[1] = n
        BY DEF Bytes
      <4>2. QED
        BY <3>1, <4>1, ConcatProperties
    <3> HIDE DEF bytes
    <3>6. ReadAt(T, bytes, t0) = LET scope == Len(bytes) - (T - t0)
                                 IN IF scope = 1 THEN UintNode(bytes[T + 1]) ELSE Raised
      BY <3>1, ReadAtDef
    <3>7. t0 = 0
      BY DEF t0
    <3>8. ReadAt(T, bytes, t0) = v
      BY <3>3, <3>5, <3>6, <3>7
    <3>9. QED
      BY <3>4, <3>8 DEF Reads, bytes, t0
  <2>2. QED
    BY <2>1
<1>2. ASSUME NEW n \in Nat, n \in I PROVE n + 1 \in I
  <2> DEFINE t1 == n + 1
  <2>1. t1 \in Nat /\ t1 # Uint8 /\ ElementCls(t1) = n
        /\ NodesOf(t1) = {NewOptional(w) : w \in {None} \cup NodesOf(n)}
    BY OptionalNodes
  <2> HIDE DEF t1
  <2>2. ASSUME NEW T \in Nat, NEW v \in NodesOf(t1), NEW prefix \in Seq(Bytes),
               T = t1 + Len(prefix)
        PROVE  Reads(T, prefix, t1, v)
    <3> DEFINE own == Serialize(t1, v)
               bytes == prefix \o own
    <3>1. PICK w \in {None} \cup NodesOf(n) : v = NewOptional(w)
      BY <2>1, <2>2
    <3>2. own = IF Get(v) = None THEN <<>> ELSE <<1>> \o Serialize(n, Getter(v, 2))
      BY SerializeFacts DEF t1
    <3>3. own \in Seq(Bytes) /\ Len(own) \in Nat
      BY <2>1, Encoded, LenProperties
    <3>4. Len(bytes) = Len(prefix) + Len(own)
      BY <3>3, ConcatProperties
    <3>5. ReadAt(T, bytes, t1)
            = LET scope == Len(bytes) - (T - t1)
                  value == ReadAt(T, bytes, n)
              IN IF scope = 0 THEN NewOptional(None)
                 ELSE IF bytes[T - t1 + 1] = 1 /\ value # Raised THEN NewOptional(value) ELSE Raised
      BY <2>1, ReadAtDef
    <3>6. Len(prefix) \in Nat /\ T - t1 = Len(prefix) /\ Len(bytes) - (T - t1) = Len(own)
      BY <2>1, <2>2, <3>3, <3>4, LenProperties
    <3> HIDE DEF bytes, own
    <3>7. CASE w = None
      <4>1. own = <<>>
        BY <3>1, <3>2, <3>7, OptionalFacts
      <4>2. Len(own) = 0
        BY <4>1
      <4>3. ReadAt(T, bytes, t1) = v
        BY <3>1, <3>5, <3>6, <3>7, <4>2
      <4>4. QED
        BY <4>3 DEF Reads, bytes, own
    <3>8. CASE w # None
      <4> DEFINE rest == Serialize(n, w)
                 one == <<1>>
      <4>1. w \in NodesOf(n) /\ w # Raised
        BY <3>1, <3>8, NodesAreNodes
      <4>2. own = one \o rest
        BY <3>1, <3>2, <3>8, OptionalFacts
      <4>3. rest \in Seq(Bytes) /\ one \in Seq(Bytes) /\ Len(one) = 1 /\ one[1] = 1
        BY <4>1, Encoded DEF Bytes
      <4> HIDE DEF rest, one
      <4> DEFINE longer == prefix \o one
      <4>4. longer \in Seq(Bytes) /\ Len(longer) = Len(prefix) + 1 /\ longer[Len(prefix) + 1] = 1
        <5>1. prefix \in Seq(Bytes) /\ one \in Seq(Bytes)
          BY <4>3
        <5>2. /\ prefix \o one \in Seq(Bytes)
              /\ Len(prefix \o one) = Len(prefix) + Len(one)
              /\ \A i \in 1 .. Len(prefix) + Len(one) :
                   (prefix \o one)[i] = IF i <= Len(prefix) THEN prefix[i]
                                        ELSE one[i - Len(prefix)]
          BY <5>1, ConcatProperties
        <5>3. Len(prefix) + 1 \in 1 .. Len(prefix) + Len(one)
              /\ ~(Len(prefix) + 1 <= Len(prefix))
              /\ (Len(prefix) + 1) - Len(prefix) = 1
          BY <3>6, <4>3
        <5>4. (prefix \o one)[Len(prefix) + 1] = one[(Len(prefix) + 1) - Len(prefix)]
          BY <5>2, <5>3
        <5>5. QED
          BY <4>3, <5>2, <5>3, <5>4
      <4>5. bytes = longer \o rest
        <5>1. prefix \in Seq(Bytes) /\ one \in Seq(Bytes) /\ rest \in Seq(Bytes)
          BY <4>3
        <5>2. (prefix \o one) \o rest = prefix \o (one \o rest)
          BY <5>1, ConcatAssociative
        <5>3. QED
          BY <4>2, <5>2 DEF bytes
      <4> HIDE DEF longer
      <4>6. bytes[Len(prefix) + 1] = 1
        <5>1. longer \in Seq(Bytes) /\ rest \in Seq(Bytes)
          BY <4>3, <4>4
        <5>2. \A i \in 1 .. Len(longer) + Len(rest) :
                (longer \o rest)[i] = IF i <= Len(longer) THEN longer[i]
                                      ELSE rest[i - Len(longer)]
          BY <5>1, ConcatProperties
        <5>3. Len(rest) \in Nat
          BY <5>1, LenProperties
        <5>4. Len(prefix) + 1 \in 1 .. Len(longer) + Len(rest) /\ Len(prefix) + 1 <= Len(longer)
          BY <3>6, <4>4, <5>3
        <5>5. QED
          BY <4>4, <4>5, <5>2, <5>4
      <4>7. Reads(T, longer, n, w)
        <5>1. T = n + Len(longer)
          BY <2>2, <3>6, <4>4 DEF t1
        <5>2. QED
          BY <1>2, <4>1, <4>4, <5>1
      <4>8. ReadAt(T, bytes, n) = w
        BY <4>5, <4>7 DEF Reads, rest
      <4>9. Len(own) # 0
        <5>1. Len(one \o rest) = Len(one) + Len(rest) /\ Len(rest) \in Nat
          BY <4>3, ConcatProperties, LenProperties
        <5>2. QED
          BY <4>2, <4>3, <5>1
      <4>10. ReadAt(T, bytes, t1) = v
        BY <3>1, <3>5, <3>6, <4>1, <4>6, <4>8, <4>9
      <4>11. QED
        BY <4>10 DEF Reads, bytes, own
    <3>9. QED
      BY <3>7, <3>8
  <2>3. All(t1)
    BY <2>2
  <2>4. QED
    BY <2>3, <2>1 DEF t1
<1>3. \A n \in Nat : n \in I
  <2> HIDE DEF I
  <2>1. QED
    BY <1>1, <1>2, SimpleInduction
<1>4. QED
  BY <1>3

\* A value is read back from its bytes.
LEMMA DeserializeSerialize ==
  ASSUME NEW T \in Nat, NEW v \in NodesOf(T)
  PROVE  Deserialize(T, Serialize(T, v)) = v
<1> DEFINE prefix == <<>>
           bytes == Serialize(T, v)
<1>1. prefix \in Seq(Bytes) /\ Len(prefix) = 0 /\ T = T + 0
  OBVIOUS
<1>2. bytes \in Seq(Bytes)
  BY Encoded
<1>3. prefix \o bytes = bytes
  BY <1>2, ConcatEmptySeq
<1> HIDE DEF prefix, bytes
<1>4. T = T + Len(prefix)
  BY <1>1
<1>5. Reads(T, prefix, T, v)
  BY <1>1, <1>4, Decoded
<1>6. ReadAt(T, bytes, T) = v
  BY <1>3, <1>5 DEF Reads, bytes
<1>7. Deserialize(T, bytes) = ReadAt(T, bytes, T)
  BY DEF Deserialize, ReadAt
<1>8. QED
  BY <1>6, <1>7 DEF bytes

-----------------------------------------------------------------------------
(***************************************************************************)
(* Iteration                                                               *)
(***************************************************************************)

\* The subtrees before the k-th have nodes.
Linked(N, k) == \A m \in Nat : m < k => Start(m) < Len(N)

\* In a list, the chain from subtree k on is at the spine.
LEMMA GetSpine ==
  ASSUME NEW N, NEW number, Len(N) \in Nat, NEW k \in Nat, Linked(N, k)
  PROVE  Getter(List(N, number), SpineAt(k)) = Chain(N, k)
<1> DEFINE At(m) == Linked(N, m) => Getter(List(N, number), SpineAt(m)) = Chain(N, m)
           I == {m \in Nat : At(m)}
<1>1. 0 \in I
  <2> DEFINE one == 1
             list == List(N, number)
  <2>1. SpineAt(0) = 2 * one /\ one \in Nat \ {0}
    BY SpineAtDef
  <2>2. list = PairNode(Chain(N, 0), number)
    BY DEF List
  <2>3. Getter(list, one) = list
    BY GetterFacts
  <2> HIDE DEF one, list
  <2>4. Getter(list, 2 * one) = Child(Getter(list, one), "left")
    BY <2>1, GetterFacts
  <2>5. QED
    BY <2>1, <2>2, <2>3, <2>4, PairFacts DEF list, Child
<1>2. ASSUME NEW m \in Nat, m \in I PROVE m + 1 \in I
  <2> SUFFICES ASSUME Linked(N, m + 1)
               PROVE  Getter(List(N, number), SpineAt(m + 1)) = Chain(N, m + 1)
    OBVIOUS
  <2>1. Linked(N, m) /\ Start(m) < Len(N)
    BY DEF Linked
  <2>2. Getter(List(N, number), SpineAt(m)) = Chain(N, m)
    BY <1>2, <2>1
  <2>3. Chain(N, m) = PairNode(SubtreeFillToContents(N, 2 * m, Start(m)), Chain(N, m + 1))
    BY <2>1, ChainFacts
  <2>4. SpineAt(m) \in Nat \ {0} /\ SpineAt(m + 1) = 2 * SpineAt(m) + 1
    <3>1. SpineAt(m) \in Nat /\ 2 * SpineAt(m) + 1 = SpineAt(m + 1)
      BY SpineFacts
    <3>2. SpineAt(m) = 3 * 2^m - 1 /\ 2^m \in Nat \ {0}
      BY SpineNumber, PowerFacts
    <3> DEFINE w == 2^m
    <3>3. w \in Nat \ {0} /\ SpineAt(m) = 3 * w - 1
      BY <3>2
    <3> HIDE DEF w
    <3>4. SpineAt(m) # 0
      BY <3>3
    <3>5. QED
      BY <3>1, <3>4
  <2>5. Getter(List(N, number), 2 * SpineAt(m) + 1) = Child(Getter(List(N, number), SpineAt(m)), "right")
    BY <2>4, GetterFacts
  <2>6. QED
    BY <2>2, <2>3, <2>4, <2>5, PairFacts DEF Child
<1>3. \A m \in Nat : m \in I
  <2> HIDE DEF I
  <2>1. QED
    BY <1>1, <1>2, SimpleInduction
<1>4. QED
  BY <1>3

\* Element i of subtree k is element b + i of the list, if the subtree begins
\* with element b.
SpotIn(packed, k, b, i, x, o) ==
  /\ x = i \div PerChunk(packed) /\ o = i % PerChunk(packed)
  /\ x \in 0 .. 2^(2 * k) - 1
  /\ Start(k) + x \in Nat /\ Start(k) + x = Place(Start(k), x, 0)
  /\ ChunkOf(packed, b + i) = Start(k) + x /\ OffsetOf(packed, b + i) = o

\* Every element of the subtree has such a place.
LEMMA SpotInExists ==
  ASSUME NEW packed, NEW k \in Nat, NEW b, b = Start(k) * PerChunk(packed),
         NEW i \in Nat, i < Width(k) * PerChunk(packed)
  PROVE  \E x, o : SpotIn(packed, k, b, i, x, o)
<1> DEFINE e == PerChunk(packed)
           S == Start(k)
           W == Width(k)
           x == i \div e
           o == i % e
<1>1. e \in Nat \ {0} /\ S \in Nat /\ W \in Nat /\ b = S * e /\ i < W * e
  BY PerChunkType, StartFacts
<1>2. W = 2^(2 * k)
  BY DEF Width
<1>3. e = PerChunk(packed) /\ S = Start(k)
  OBVIOUS
<1> HIDE DEF e, S, W
<1>4. x \in Nat /\ o \in 0 .. e - 1 /\ i = x * e + o
  BY <1>1, Division
<1>5. x = i \div e /\ o = i % e
  OBVIOUS
<1> HIDE DEF x, o
<1>6. x < W
  <2> SUFFICES ASSUME ~(x < W) PROVE FALSE
    OBVIOUS
  <2>1. W <= x
    BY <1>1, <1>4
  <2>2. W * e <= x * e
    BY <1>1, <1>4, <2>1, Multiples
  <2>3. x * e \in Nat /\ W * e \in Nat
    BY <1>1, <1>4, Multiples
  <2>4. QED
    BY <1>1, <1>4, <2>2, <2>3
<1>7. b + i = e * (S + x) + o
  <2>1. S * e + x * e = e * (S + x)
    BY <1>1, <1>4
  <2>2. S * e \in Nat /\ x * e \in Nat
    BY <1>1, <1>4, Multiples
  <2>3. QED
    BY <1>1, <1>4, <2>1, <2>2
<1>8. (b + i) \div e = S + x /\ (b + i) % e = o
  <2>1. S + x \in Nat
    BY <1>1, <1>4
  <2>2. b + i \in Nat
    <3>1. S * e \in Nat
      BY <1>1, Multiples
    <3>2. QED
      BY <1>1, <3>1
  <2>3. QED
    BY <1>1, <1>4, <1>7, <2>1, <2>2, DivisionUnique
<1>9. S + x = Place(S, x, 0)
  <2>1. 2^0 = 1
    BY PowerFacts
  <2>2. QED
    BY <1>1, <1>4, <2>1 DEF Place
<1>10. x \in 0 .. W - 1 /\ S + x \in Nat
  BY <1>1, <1>4, <1>6
<1>11. SpotIn(packed, k, b, i, x, o)
  BY <1>2, <1>3, <1>5, <1>8, <1>9, <1>10 DEF SpotIn, ChunkOf, OffsetOf
<1>12. QED
  BY <1>11

\* The list of the sequence s, with its elements from b on
Rest(s, b) == [i \in 1 .. Len(s) - b |-> s[b + i]]

\* Subtree k of the list begins with element b.
Begins(packed, k, b) == b = Start(k) * PerChunk(packed)

\* What is read of a subtree are the elements that it begins with.
LEMMA IterSubtree ==
  ASSUME NEW V, NEW s \in Seq(V), NEW packed \in BOOLEAN, NEW k \in Nat, NEW b \in Nat,
         Begins(packed, k, b), NEW n \in Nat, b + n <= Len(s), n <= Width(k) * PerChunk(packed)
  PROVE  ReadonlyIter(Subtree(Nodes(s, packed), k), 2 * k, n, packed) = [i \in 1 .. n |-> s[b + i]]
<1> DEFINE N == Nodes(s, packed)
<1>1. ASSUME NEW i \in 1 .. n PROVE ElementAt(Subtree(N, k), 2 * k, i - 1, packed) = s[b + i]
  <2> DEFINE g == b + (i - 1)
  <2>1. Len(s) \in Nat /\ PerChunk(packed) \in Nat \ {0} /\ Width(k) \in Nat \ {0}
    BY LenProperties, PerChunkType, StartFacts
  <2> DEFINE w == Width(k) * PerChunk(packed)
  <2>2. w \in Nat
    BY <2>1, Multiples
  <2>3. n <= w /\ i - 1 \in Nat
    OBVIOUS
  <2> HIDE DEF w
  <2>4. i - 1 < w
    BY <2>2, <2>3
  <2>5. \E x, o : SpotIn(packed, k, b, i - 1, x, o)
    BY <2>3, <2>4, SpotInExists DEF Begins, w
  <2>6. PICK x, o : SpotIn(packed, k, b, i - 1, x, o)
    BY <2>5
  <2>7. g \in 0 .. Len(s) - 1 /\ g + 1 = b + i
    BY <2>1
  <2>8. s[g + 1] \in V
    <3>1. g + 1 \in 1 .. Len(s)
      BY <2>1, <2>7
    <3>2. QED
      BY <3>1, ElementOfSeq
  <2>9. Replaces(V, s, g, s[g + 1])
    BY <2>7, <2>8 DEF Replaces
  <2> DEFINE v == s[g + 1]
  <2>10. Replaces(V, s, g, v) /\ v = s[g + 1]
    BY <2>9
  <2>20. g = b + (i - 1)
    OBVIOUS
  <2> HIDE DEF v, g
  <2>11. /\ Writes(Nodes(s, packed), Nodes(Put0(s, g, v), packed), packed, v,
                   ChunkOf(packed, g), OffsetOf(packed, g))
         /\ Element(NodeAt(Nodes(s, packed), ChunkOf(packed, g)), packed, OffsetOf(packed, g))
              = s[g + 1]
    BY <2>10, WriteNodes
  <2>12. ChunkOf(packed, g) = Start(k) + x /\ OffsetOf(packed, g) = o
    BY <2>6, <2>20 DEF SpotIn
  <2>13. Start(k) + x < Len(N)
    BY <2>11, <2>12 DEF Writes, N
  <2>14. Len(N) \in Nat
    BY NodesAre DEF NodesFit, N
  <2>15. 2 * k \in Nat /\ Start(k) \in Nat
    BY StartFacts
  <2> DEFINE d == 2 * k
             a == Start(k) + x
  <2>16. d \in Nat /\ a \in Nat /\ x \in 0 .. 2^d - 1 /\ a = Place(Start(k), x, 0) /\ a < Len(N)
    BY <2>6, <2>13, <2>15 DEF SpotIn
  <2>17. Subtree(N, k) = SubtreeFillToContents(N, d, Start(k))
    BY DEF Subtree
  <2> HIDE DEF N, d, a
  <2>18. Getter(SubtreeFillToContents(N, d, Start(k)), ToGindex(x, d)) = NodeAt(N, a)
    BY <2>14, <2>15, <2>16, GetLeaf
  <2>19. ElementAt(Subtree(N, k), d, i - 1, packed) = Element(NodeAt(N, a), packed, o)
    <3>1. (i - 1) \div PerChunk(packed) = x /\ ((i - 1) % PerChunk(packed)) = o
      BY <2>6 DEF SpotIn
    <3>2. Getter(Subtree(N, k), ToGindex((i - 1) \div PerChunk(packed), d)) = NodeAt(N, a)
      BY <2>17, <2>18, <3>1
    <3>3. QED
      BY <3>1, <3>2 DEF ElementAt, Element
  <2>21. QED
    BY <2>7, <2>11, <2>12, <2>19 DEF N, d, a
<1> HIDE DEF N
<1>2. QED
  BY <1>1 DEF ReadonlyIter, N

\* The elements from b on are n of them and those from b + n on.
LEMMA RestSplits ==
  ASSUME NEW V, NEW s \in Seq(V), NEW b \in Nat, NEW n \in Nat, b + n <= Len(s)
  PROVE  [i \in 1 .. n |-> s[b + i]] \o Rest(s, b + n) = Rest(s, b)
<1> DEFINE first == [i \in 1 .. n |-> s[b + i]]
           c == b + n
           m == Len(s) - c
           last == Rest(s, c)
           whole == Rest(s, b)
<1>1. Len(s) \in Nat /\ c \in Nat /\ m \in Nat /\ Len(s) - b = n + m /\ n + m \in Nat
  BY LenProperties
<1>2. \A j \in 1 .. Len(s) : s[j] \in V
  BY ElementOfSeq
<1>3. first \in Seq(V) /\ Len(first) = n
  <2>1. \A i \in 1 .. n : b + i \in 1 .. Len(s)
    BY <1>1
  <2>2. first \in [1 .. n -> V]
    BY <1>2, <2>1
  <2> HIDE DEF first
  <2>3. QED
    BY <2>2, FunctionSeq
<1>4. last \in Seq(V) /\ Len(last) = m
  <2>1. \A i \in 1 .. m : c + i \in 1 .. Len(s)
    BY <1>1
  <2>2. last = [i \in 1 .. m |-> s[c + i]]
    BY DEF Rest
  <2>3. last \in [1 .. m -> V]
    BY <1>2, <2>1, <2>2
  <2> HIDE DEF last, m
  <2>4. QED
    BY <1>1, <2>3, FunctionSeq
<1>5. whole \in Seq(V) /\ Len(whole) = n + m
  <2>1. \A i \in 1 .. n + m : b + i \in 1 .. Len(s)
    BY <1>1
  <2>2. whole = [i \in 1 .. n + m |-> s[b + i]]
    BY <1>1 DEF Rest
  <2>3. whole \in [1 .. n + m -> V]
    BY <1>2, <2>1, <2>2
  <2> HIDE DEF whole, m
  <2>4. QED
    BY <1>1, <2>3, FunctionSeq
<1>6. \A i \in 1 .. n : first[i] = s[b + i]
  OBVIOUS
<1>7. \A i \in 1 .. m : last[i] = s[c + i]
  BY DEF Rest
<1>8. \A i \in 1 .. n + m : whole[i] = s[b + i]
  BY <1>1 DEF Rest
<1>18. c = b + n
  OBVIOUS
<1> HIDE DEF first, last, whole, m, c
<1>9. /\ first \o last \in Seq(V)
      /\ Len(first \o last) = Len(first) + Len(last)
      /\ \A i \in 1 .. Len(first) + Len(last) :
           (first \o last)[i] = IF i <= Len(first) THEN first[i] ELSE last[i - Len(first)]
  BY <1>3, <1>4, ConcatProperties
<1>10. \A i \in 1 .. n + m : (first \o last)[i] = whole[i]
  <2> SUFFICES ASSUME NEW i \in 1 .. n + m PROVE (first \o last)[i] = whole[i]
    OBVIOUS
  <2>1. CASE i <= n
    <3>1. i \in 1 .. n
      BY <1>1, <2>1
    <3>2. QED
      BY <1>3, <1>4, <1>6, <1>8, <1>9, <2>1, <3>1
  <2>2. CASE ~(i <= n)
    <3>1. i - n \in 1 .. m /\ c + (i - n) = b + i
      BY <1>1, <1>18, <2>2
    <3>2. (first \o last)[i] = last[i - n]
      BY <1>3, <1>4, <1>9, <2>2
    <3>3. last[i - n] = s[c + (i - n)]
      BY <1>7, <3>1
    <3>4. QED
      BY <1>8, <3>1, <3>2, <3>3
  <2>3. QED
    BY <2>1, <2>2
<1>11. Len(first \o last) = Len(whole)
  BY <1>3, <1>4, <1>5, <1>9
<1>12. first \o last = whole
  <2> DEFINE x == first \o last
  <2>1. x \in Seq(V) /\ whole \in Seq(V) /\ Len(x) = Len(whole)
    BY <1>5, <1>9, <1>11
  <2>2. \A i \in 1 .. Len(x) : x[i] = whole[i]
    BY <1>5, <1>10, <1>11
  <2> HIDE DEF x
  <2>3. x = whole
    BY <2>1, <2>2, SeqEqual
  <2>4. QED
    BY <2>3 DEF x
<1>13. QED
  BY <1>12 DEF first, last, whole, c

\* The list of s, with its nodes and its length, iterated from element b on
Iterated(s, packed, k, b) ==
  IterAt(List(Nodes(s, packed), UintNode(Len(s))), packed, Len(s) - b, SpineAt(k), 2 * k)

\* The iteration stands before element b, which begins subtree k, or at the end.
StandsAt(s, packed, k, b) ==
  /\ Linked(Nodes(s, packed), k)
  /\ b < Len(s) => Begins(packed, k, b)
  /\ b = Len(s) => Len(Nodes(s, packed)) <= Start(k)

\* From where it stands, the iteration yields the rest of the elements.
LEMMA IterRest ==
  ASSUME NEW V, NEW s \in Seq(V), NEW packed \in BOOLEAN, NEW left \in Nat
  PROVE  \A k \in Nat : \A b \in Nat :
           Len(s) - b = left /\ StandsAt(s, packed, k, b) => Iterated(s, packed, k, b) = Rest(s, b)
<1> DEFINE N == Nodes(s, packed)
           list == List(N, UintNode(Len(s)))
           All(l) == \A k \in Nat : \A b \in Nat :
                       Len(s) - b = l /\ StandsAt(s, packed, k, b)
                         => Iterated(s, packed, k, b) = Rest(s, b)
           I == {l \in Nat : All(l)}
<1>1. Len(s) \in Nat /\ NodesFit(N, Len(s), packed) /\ Len(N) \in Nat
  BY LenProperties, NodesAre DEF NodesFit
<1>2. ASSUME NEW l \in Nat, \A x \in 0 .. l - 1 : x \in I PROVE l \in I
  <2> SUFFICES ASSUME NEW k \in Nat, NEW b \in Nat, Len(s) - b = l, StandsAt(s, packed, k, b)
               PROVE  Iterated(s, packed, k, b) = Rest(s, b)
    OBVIOUS
  <2>1. Linked(N, k) /\ (b < Len(s) => Begins(packed, k, b)) /\ (b = Len(s) => Len(N) <= Start(k))
    BY DEF StandsAt
  <2> DEFINE g == SpineAt(k)
             d == 2 * k
  <2>2. g \in Nat /\ d \in Nat /\ 2 * g = SubtreeGindex(k) /\ 2 * g + 1 = SpineAt(k + 1)
        /\ k + 1 \in Nat /\ d + 2 = 2 * (k + 1) /\ Width(k) = 2^d
    BY SpineFacts DEF Width
  <2>3. Iterated(s, packed, k, b) = IterAt(list, packed, l, g, d)
    BY DEF Iterated
  <2>4. Getter(list, g) = Chain(N, k)
    BY <1>1, <2>1, GetSpine
  <2>6. CASE l = 0
    <3>1. Chain(N, k) = Zero(0)
      BY <1>1, <2>1, <2>6, ChainFacts
    <3>2. Getter(list, g) = Zero(0)
      BY <2>4, <3>1
    <3>3. Rest(s, b) = <<>>
      BY <2>6 DEF Rest
    <3> DEFINE n == IF l < 2^d * PerChunk(packed) THEN l ELSE 2^d * PerChunk(packed)
               rest == l - n
               next == 2 * g + 1
               deeper == d + 2
    <3>4. IterMoves(packed, l, n, rest, g, next, d, deeper)
      BY <2>2 DEF IterMoves
    <3> HIDE DEF list, g, d, n, rest, next, deeper
    <3>5. IterAt(list, packed, l, g, d) = <<>>
      BY <2>6, <3>2, <3>4, IterAtDef
    <3>6. QED
      BY <2>3, <3>3, <3>5
  <2>7. CASE l # 0
    <3> DEFINE width == Width(k) * PerChunk(packed)
               n == IF l < width THEN l ELSE width
               c == b + n
               rest == l - n
    <3>1. b < Len(s) /\ Begins(packed, k, b)
      BY <1>1, <2>1, <2>7
    <3>2. PerChunk(packed) \in Nat \ {0} /\ Width(k) \in Nat \ {0} /\ Start(k) \in Nat
          /\ Start(k + 1) = Start(k) + Width(k) /\ Start(k + 1) \in Nat
      BY PerChunkType, StartFacts
    <3>3. width \in Nat \ {0}
      <4> DEFINE e == PerChunk(packed)
                 W == Width(k)
      <4>1. e \in Nat \ {0} /\ W \in Nat \ {0} /\ 0 < W
        BY <3>2
      <4>2. e \in Nat \ {0} /\ width = W * e
        BY <3>2
      <4> HIDE DEF e, W, width
      <4>3. 0 * e + e <= W * e /\ W * e \in Nat
        BY <4>1, Multiples
      <4>4. QED
        BY <4>1, <4>2, <4>3
    <3>4. Start(k + 1) * PerChunk(packed) = b + width
      <4> DEFINE e == PerChunk(packed)
                 W == Width(k)
                 S == Start(k)
                 T == Start(k + 1)
      <4>1. e \in Nat /\ W \in Nat /\ S \in Nat /\ T = S + W /\ b = S * e /\ width = W * e
        BY <3>1, <3>2 DEF Begins
      <4> HIDE DEF e, W, S, T, width
      <4>2. T * e = b + width
        BY <4>1
      <4>3. QED
        BY <4>2 DEF T, e
    <3> HIDE DEF width
    <3>5. n \in Nat \ {0} /\ n <= l /\ n <= width /\ rest \in 0 .. l - 1
          /\ c \in Nat /\ c <= Len(s) /\ Len(s) - c = rest
      BY <1>1, <2>7, <3>3
    <3>6. Start(k) < Len(N)
      <4>1. Start(k) * PerChunk(packed) < Len(s)
        BY <3>1 DEF Begins
      <4>2. QED
        BY <1>1, <3>2, <4>1 DEF NodesFit
    <3>7. Getter(list, 2 * g) = Subtree(N, k)
      BY <1>1, <2>2, <3>6, GetSubtree
    <3>8. ReadonlyIter(Subtree(N, k), d, n, packed) = [i \in 1 .. n |-> s[b + i]]
      <4>1. n \in Nat /\ b + n <= Len(s) /\ n <= Width(k) * PerChunk(packed)
        BY <3>5 DEF width
      <4> HIDE DEF n
      <4>2. QED
        BY <3>1, <4>1, IterSubtree
    <3>9. Linked(N, k + 1)
      BY <2>1, <3>6 DEF Linked
    <3>10. c < Len(s) => Begins(packed, k + 1, c)
      <4> SUFFICES ASSUME c < Len(s) PROVE Begins(packed, k + 1, c)
        OBVIOUS
      <4>1. n = width
        BY <1>1, <3>3, <3>5
      <4>2. QED
        BY <3>4, <4>1 DEF Begins
    <3>11. c = Len(s) => Len(N) <= Start(k + 1)
      <4> SUFFICES ASSUME c = Len(s) PROVE Len(N) <= Start(k + 1)
        OBVIOUS
      <4>1. Len(s) <= b + width
        BY <3>3, <3>5
      <4>2. ~(Start(k + 1) * PerChunk(packed) < Len(s))
        BY <1>1, <3>3, <3>4, <4>1
      <4>3. ~(Start(k + 1) < Len(N))
        BY <1>1, <3>2, <4>2 DEF NodesFit
      <4>4. QED
        BY <1>1, <3>2, <4>3
    <3>12. StandsAt(s, packed, k + 1, c)
      BY <3>9, <3>10, <3>11 DEF StandsAt
    <3>13. Iterated(s, packed, k + 1, c) = Rest(s, c)
      <4>1. rest \in I
        BY <1>2, <3>5
      <4>2. All(rest)
        BY <4>1
      <4> HIDE DEF rest, c
      <4>3. QED
        BY <2>2, <3>5, <3>12, <4>2
    <3>14. Iterated(s, packed, k + 1, c) = IterAt(list, packed, rest, 2 * g + 1, d + 2)
      <4>1. Iterated(s, packed, k + 1, c)
              = IterAt(list, packed, Len(s) - c, SpineAt(k + 1), 2 * (k + 1))
        BY DEF Iterated
      <4> HIDE DEF rest, c, g, d
      <4>2. QED
        BY <2>2, <3>5, <4>1
    <3>15. IterAt(list, packed, l, g, d)
             = ReadonlyIter(Getter(list, 2 * g), d, n, packed)
                 \o IterAt(list, packed, rest, 2 * g + 1, d + 2)
      <4> DEFINE g1 == 2 * g + 1
                 d1 == d + 2
      <4>1. IterMoves(packed, l, n, rest, g, g1, d, d1)
        BY <2>2 DEF width, IterMoves
      <4> HIDE DEF g, d, list, n, rest, g1, d1
      <4>2. IterAt(list, packed, l, g, d)
              = ReadonlyIter(Getter(list, 2 * g), d, n, packed) \o IterAt(list, packed, rest, g1, d1)
        BY <2>7, <4>1, IterAtDef
      <4>3. QED
        BY <4>2 DEF g1, d1
    <3>16. [i \in 1 .. n |-> s[b + i]] \o Rest(s, c) = Rest(s, b)
      <4>1. n \in Nat /\ b + n <= Len(s)
        BY <3>5
      <4> HIDE DEF n
      <4>2. QED
        BY <4>1, RestSplits
    <3> HIDE DEF g, d, list, n, c, rest
    <3>17. QED
      BY <2>3, <3>7, <3>8, <3>13, <3>14, <3>15, <3>16
  <2>8. QED
    BY <2>6, <2>7
<1>3. \A l \in Nat : l \in I
  <2> HIDE DEF I
  <2>1. QED
    BY <1>2, StrongInduction
<1>4. QED
  BY <1>3

\* readonly_iter yields the elements of the sequence that the list is of.
LEMMA IterNew ==
  ASSUME NEW V, NEW s \in Seq(V), NEW packed \in BOOLEAN
  PROVE  ReadonlyIterProgressive(New(s, packed), Len(s), packed) = s
<1> DEFINE N == Nodes(s, packed)
           zero == 0
<1>1. Len(s) \in Nat /\ NodesFit(N, Len(s), packed) /\ Len(N) \in Nat
  BY LenProperties, NodesAre DEF NodesFit
<1>2. Start(0) = 0
  BY StartZero
<1>3. StandsAt(s, packed, zero, zero)
  <2>1. Linked(N, 0)
    BY DEF Linked
  <2>2. Begins(packed, 0, 0)
    <3>1. PerChunk(packed) \in Nat
      BY PerChunkType
    <3> DEFINE e == PerChunk(packed)
    <3>2. 0 * e = 0
      BY <3>1
    <3>3. QED
      BY <1>2, <3>2 DEF Begins
  <2>3. 0 = Len(s) => Len(N) <= Start(0)
    <3> SUFFICES ASSUME Len(s) = 0 PROVE Len(N) <= 0
      BY <1>2
    <3>1. PerChunk(packed) \in Nat
      BY PerChunkType
    <3> DEFINE e == PerChunk(packed)
    <3>2. e \in Nat /\ ~(0 * e < Len(s))
      BY <3>1
    <3>3. ~(0 < Len(N))
      BY <1>1, <3>2 DEF NodesFit
    <3>4. QED
      BY <1>1, <3>3
  <2>4. QED
    BY <2>1, <2>2, <2>3 DEF StandsAt
<1>4. zero \in Nat /\ Len(s) - zero = Len(s) /\ 2 * zero = 0 /\ SpineAt(zero) = 2
  BY <1>1, SpineAtDef
<1>5. ReadonlyIterProgressive(New(s, packed), Len(s), packed)
        = IterAt(New(s, packed), packed, Len(s), 2, 0)
  BY DEF ReadonlyIterProgressive, IterAt
<1>6. New(s, packed) = List(N, UintNode(Len(s)))
  BY <1>1, NewIs
<1> HIDE DEF zero
<1>7. Iterated(s, packed, zero, zero) = Rest(s, zero)
  <2>1. \A k \in Nat : \A b \in Nat :
           Len(s) - b = Len(s) /\ StandsAt(s, packed, k, b) => Iterated(s, packed, k, b) = Rest(s, b)
    BY <1>1, IterRest
  <2>2. QED
    BY <1>3, <1>4, <2>1
<1>8. Iterated(s, packed, zero, zero) = IterAt(New(s, packed), packed, Len(s), 2, 0)
  <2>1. Iterated(s, packed, zero, zero)
          = IterAt(List(N, UintNode(Len(s))), packed, Len(s) - zero, SpineAt(zero), 2 * zero)
    BY DEF Iterated
  <2>2. QED
    BY <1>4, <1>6, <2>1
<1>9. Rest(s, zero) = s
  <2>1. \A i \in 1 .. Len(s) : zero + i = i
    BY DEF zero
  <2>2. Rest(s, zero) = [i \in 1 .. Len(s) |-> s[i]]
    BY <1>4, <2>1 DEF Rest
  <2>3. s = [i \in 1 .. Len(s) |-> s[i]]
    OBVIOUS
  <2>4. QED
    BY <2>2, <2>3
<1>10. QED
  BY <1>5, <1>7, <1>8, <1>9

-----------------------------------------------------------------------------
(***************************************************************************)
(* The list that is kept of a sequence                                     *)
(***************************************************************************)

ItemsOf(list, packed) == [k \in 1 .. Length(list) |-> ReadItem(list, packed, k - 1)]

\* A list of a class c has the tree of a new list of s, which is within its bound.
Kept(c, list, s) ==
  /\ c \in Classes
  /\ s \in Seq(Inputs(c)) /\ Len(s) \in 0 .. c.maxLength
  /\ list = New(s, c.is_packed)

\* What the assumption says of a class, and of the values of its elements
LEMMA ClassFacts ==
  ASSUME NEW c \in Classes
  PROVE  /\ c.maxLength \in Nat /\ c.element_cls \in Nat /\ c.is_packed \in BOOLEAN
         /\ c.element_cls # Uint8 => Inputs(c) = NodesOf(c.element_cls)
         /\ \A i \in 0 .. c.maxLength : InBounds(i)
<1>1. c.maxLength \in Nat /\ c.element_cls \in Nat /\ c.is_packed \in BOOLEAN
      /\ (c.is_packed => c.element_cls = Uint8)
  BY ListAssumption
<1>2. c.element_cls # Uint8 => Inputs(c) = NodesOf(c.element_cls)
  BY <1>1 DEF Inputs
<1>3. \A i \in 0 .. c.maxLength : InBounds(i)
  BY <1>1 DEF InBounds
<1>4. QED
  BY <1>1, <1>2, <1>3

\* get finds the elements of s, each by its index.
LEMMA ReadNew ==
  ASSUME NEW V, NEW s \in Seq(V), NEW packed \in BOOLEAN, NEW j \in 1 .. Len(s), InBounds(j - 1)
  PROVE  ReadItem(New(s, packed), packed, j - 1) = s[j]
<1> DEFINE i == j - 1
           v == s[j]
<1>1. Replaces(V, s, i, v)
  <2>1. Len(s) \in Nat
    BY LenProperties
  <2>2. v \in V
    BY ElementOfSeq
  <2>3. i \in 0 .. Len(s) - 1
    BY <2>1
  <2>4. QED
    BY <2>2, <2>3 DEF Replaces
<1>2. InBounds(i) /\ i + 1 = j
  BY LenProperties
<1> HIDE DEF i, v
<1>3. /\ WriteItem(New(s, packed), packed, i, v) = New(Put0(s, i, v), packed)
      /\ ReadItem(New(s, packed), packed, i) = s[i + 1]
  BY <1>1, <1>2, ReplaceNew
<1>4. QED
  BY <1>2, <1>3 DEF i

\* Read by index and iterated, the list has the elements of s.
LEMMA KeptItems ==
  ASSUME NEW c, NEW list, NEW s, Kept(c, list, s)
  PROVE  /\ Length(list) = Len(s) /\ Len(s) \in Nat
         /\ ItemsOf(list, c.is_packed) = s
         /\ ReadonlyIterProgressive(list, Length(list), c.is_packed) = s
<1> DEFINE packed == c.is_packed
           V == Inputs(c)
<1>1. c \in Classes /\ s \in Seq(V) /\ Len(s) \in 0 .. c.maxLength /\ list = New(s, packed)
  BY DEF Kept
<1>2. packed \in BOOLEAN /\ c.maxLength \in Nat /\ \A i \in 0 .. c.maxLength : InBounds(i)
  BY <1>1, ClassFacts
<1>3. packed = c.is_packed
  OBVIOUS
<1> HIDE DEF packed, V
<1>4. Length(list) = Len(s)
  BY <1>1, LengthNew
<1>5. ReadonlyIterProgressive(list, Len(s), packed) = s
  BY <1>1, <1>2, IterNew
<1>6. \A j \in 1 .. Len(s) : ReadItem(list, packed, j - 1) = s[j]
  <2> SUFFICES ASSUME NEW j \in 1 .. Len(s) PROVE ReadItem(list, packed, j - 1) = s[j]
    OBVIOUS
  <2>1. InBounds(j - 1)
    <3>1. j - 1 \in 0 .. c.maxLength
      BY <1>1, <1>2
    <3>2. QED
      BY <1>2, <3>1
  <2>2. ReadItem(New(s, packed), packed, j - 1) = s[j]
    BY <1>1, <1>2, <2>1, ReadNew
  <2>3. QED
    BY <1>1, <2>2
<1>7. ItemsOf(list, packed) = [j \in 1 .. Len(s) |-> s[j]]
  BY <1>4, <1>6 DEF ItemsOf
<1>8. s = [j \in 1 .. Len(s) |-> s[j]]
  BY <1>1
<1>9. QED
  BY <1>1, <1>3, <1>4, <1>5, <1>7, <1>8

\* append, pop and set keep the list of the sequence that they make.
LEMMA KeptAppend ==
  ASSUME NEW c, NEW list, NEW s, Kept(c, list, s), NEW v, v \in Inputs(c), Length(list) < c.maxLength
  PROVE  Kept(c, Appended(list, c.is_packed, v), Append(s, v))
<1> DEFINE packed == c.is_packed
           V == Inputs(c)
<1>1. c \in Classes /\ s \in Seq(V) /\ Len(s) \in 0 .. c.maxLength /\ list = New(s, packed) /\ v \in V
  BY DEF Kept
<1>2. packed \in BOOLEAN /\ c.maxLength \in Nat /\ \A i \in 0 .. c.maxLength : InBounds(i)
  BY <1>1, ClassFacts
<1>3. packed = c.is_packed /\ V = Inputs(c)
  OBVIOUS
<1>4. Len(s) < c.maxLength
  BY KeptItems
<1> HIDE DEF packed, V
<1>5. InBounds(Len(s))
  BY <1>1, <1>2
<1>6. Appended(New(s, packed), packed, v) = New(Append(s, v), packed)
  BY <1>1, <1>2, <1>5, AppendNew
<1>7. Append(s, v) \in Seq(V) /\ Len(Append(s, v)) = Len(s) + 1
  BY <1>1, AppendProperties
<1>8. Len(Append(s, v)) \in 0 .. c.maxLength
  BY <1>1, <1>2, <1>4, <1>7
<1>9. QED
  BY <1>1, <1>3, <1>6, <1>7, <1>8 DEF Kept

\* A sequence that is not empty is its front and its last element.
LEMMA FrontAndLast ==
  ASSUME NEW V, NEW s \in Seq(V), Len(s) > 0
  PROVE  LET front == SubSeq(s, 1, Len(s) - 1)
         IN /\ front \in Seq(V) /\ Len(front) = Len(s) - 1
            /\ s[Len(s)] \in V
            /\ Append(front, s[Len(s)]) = s
<1> DEFINE n == Len(s) - 1
           front == SubSeq(s, 1, n)
           last == s[Len(s)]
           t == Append(front, last)
<1>1. n \in Nat /\ Len(s) = n + 1 /\ n + 1 \in 1 .. Len(s)
  BY LenProperties
<1>2. \A i \in 1 .. Len(s) : s[i] \in V
  BY ElementOfSeq
<1>3. last \in V
  BY <1>1, <1>2
<1>4. /\ front \in Seq(V)
      /\ Len(front) = IF 1 <= n THEN n - 1 + 1 ELSE 0
      /\ \A i \in 1 .. n - 1 + 1 : front[i] = s[1 + i - 1]
  <2>1. 1 \in Int /\ n \in Int /\ \A i \in 1 .. n : s[i] \in V
    BY <1>1, <1>2
  <2> HIDE DEF n
  <2>2. QED
    BY <2>1, SubSeqProperties
<1>5. Len(front) = n /\ \A i \in 1 .. n : front[i] = s[i]
  BY <1>1, <1>4
<1>6. n = Len(s) - 1 /\ front = SubSeq(s, 1, Len(s) - 1) /\ last = s[Len(s)] /\ t = Append(front, last)
  OBVIOUS
<1> HIDE DEF n, front, last, t
<1>7. /\ Append(front, last) \in Seq(V)
      /\ Len(Append(front, last)) = Len(front) + 1
      /\ \A i \in 1 .. Len(front) : Append(front, last)[i] = front[i]
      /\ Append(front, last)[Len(front) + 1] = last
  BY <1>3, <1>4, AppendProperties
<1>8. t \in Seq(V) /\ Len(t) = Len(s)
  BY <1>1, <1>5, <1>6, <1>7
<1>9. \A i \in 1 .. Len(t) : t[i] = s[i]
  <2> SUFFICES ASSUME NEW i \in 1 .. Len(t) PROVE t[i] = s[i]
    OBVIOUS
  <2>1. i \in 1 .. n \/ i = n + 1
    BY <1>1, <1>8
  <2>2. CASE i \in 1 .. n
    BY <1>5, <1>6, <1>7, <2>2
  <2>3. CASE i = n + 1
    BY <1>1, <1>5, <1>6, <1>7, <2>3
  <2>4. QED
    BY <2>1, <2>2, <2>3
<1>10. t = s
  BY <1>8, <1>9, SeqEqual
<1>11. QED
  BY <1>3, <1>4, <1>5, <1>6, <1>10

\* pop keeps the list of the sequence without its last element.
LEMMA KeptPop ==
  ASSUME NEW c, NEW list, NEW s, Kept(c, list, s), Length(list) > 0
  PROVE  Kept(c, Popped(list, c.is_packed), SubSeq(s, 1, Len(s) - 1))
<1> DEFINE packed == c.is_packed
           V == Inputs(c)
           front == SubSeq(s, 1, Len(s) - 1)
           last == s[Len(s)]
<1>1. c \in Classes /\ s \in Seq(V) /\ Len(s) \in 0 .. c.maxLength /\ list = New(s, packed)
  BY DEF Kept
<1>2. packed \in BOOLEAN /\ c.maxLength \in Nat /\ \A i \in 0 .. c.maxLength : InBounds(i)
  BY <1>1, ClassFacts
<1>3. packed = c.is_packed /\ V = Inputs(c) /\ front = SubSeq(s, 1, Len(s) - 1)
  OBVIOUS
<1>4. Len(s) > 0
  BY KeptItems
<1>5. front \in Seq(V) /\ Len(front) = Len(s) - 1 /\ last \in V /\ Append(front, last) = s
  <2> HIDE DEF V
  <2>1. QED
    BY <1>1, <1>4, FrontAndLast
<1> HIDE DEF packed, V, front, last
<1>6. InBounds(Len(front))
  <2>1. Len(front) \in 0 .. c.maxLength
    BY <1>1, <1>2, <1>4, <1>5
  <2>2. QED
    BY <1>2, <2>1
<1>7. Popped(New(Append(front, last), packed), packed) = New(front, packed)
  BY <1>2, <1>5, <1>6, PopNew
<1>8. Len(front) \in 0 .. c.maxLength
  BY <1>1, <1>2, <1>4, <1>5
<1>9. Popped(list, packed) = New(front, packed)
  BY <1>1, <1>5, <1>7
<1>10. Kept(c, Popped(list, packed), front)
  BY <1>1, <1>3, <1>5, <1>8, <1>9 DEF Kept
<1>11. QED
  BY <1>3, <1>10

\* set keeps the list of the sequence with another element, and get reads the one it had.
LEMMA KeptSet ==
  ASSUME NEW c, NEW list, NEW s, Kept(c, list, s), NEW i, NEW v,
         i \in 0 .. Length(list) - 1, v \in Inputs(c)
  PROVE  /\ Kept(c, WriteItem(list, c.is_packed, i, v), Put0(s, i, v))
         /\ ReadItem(list, c.is_packed, i) = s[i + 1] /\ s[i + 1] \in Inputs(c)
         /\ i \in 0 .. c.maxLength - 1
<1> DEFINE packed == c.is_packed
           V == Inputs(c)
<1>1. c \in Classes /\ s \in Seq(V) /\ Len(s) \in 0 .. c.maxLength /\ list = New(s, packed) /\ v \in V
  BY DEF Kept
<1>2. packed \in BOOLEAN /\ c.maxLength \in Nat /\ \A x \in 0 .. c.maxLength : InBounds(x)
  BY <1>1, ClassFacts
<1>3. packed = c.is_packed /\ V = Inputs(c)
  OBVIOUS
<1>4. i \in 0 .. Len(s) - 1
  BY KeptItems
<1> HIDE DEF packed, V
<1>5. Replaces(V, s, i, v)
  BY <1>1, <1>4 DEF Replaces
<1>6. InBounds(i) /\ i \in 0 .. c.maxLength - 1
  <2>1. i \in 0 .. c.maxLength /\ i \in 0 .. c.maxLength - 1
    BY <1>1, <1>2, <1>4
  <2>2. QED
    BY <1>2, <2>1
<1>7. /\ WriteItem(New(s, packed), packed, i, v) = New(Put0(s, i, v), packed)
      /\ ReadItem(New(s, packed), packed, i) = s[i + 1]
  BY <1>2, <1>5, <1>6, ReplaceNew
<1>8. Put0(s, i, v) \in Seq(V) /\ Len(Put0(s, i, v)) = Len(s) /\ i + 1 \in 1 .. Len(s)
  BY <1>5, Put0Facts
<1>9. s[i + 1] \in V
  <2> DEFINE j == i + 1
  <2>1. j \in 1 .. Len(s)
    BY <1>8
  <2> HIDE DEF j
  <2>2. s[j] \in V
    BY <1>1, <2>1, ElementOfSeq
  <2>3. QED
    BY <2>2 DEF j
<1>10. Kept(c, WriteItem(list, packed, i, v), Put0(s, i, v))
  BY <1>1, <1>3, <1>7, <1>8 DEF Kept
<1>11. QED
  BY <1>1, <1>3, <1>6, <1>7, <1>9, <1>10

\* A new value stored in an Optional that has one makes a value of its type.
LEMMA ViewSet ==
  ASSUME NEW T \in Nat, T # Uint8, NEW old \in NodesOf(T), NEW v \in NodesOf(ElementCls(T)),
         CanSet(old, v)
  PROVE  Set(old, v) \in NodesOf(T)
<1> DEFINE t == T - 1
<1>1. t \in Nat /\ T = t + 1
  BY DEF Uint8
<1> HIDE DEF t
<1>2. NodesOf(T) = {NewOptional(w) : w \in {None} \cup NodesOf(t)} /\ ElementCls(T) = t
  BY <1>1, OptionalNodes
<1>3. PICK w \in {None} \cup NodesOf(t) : old = NewOptional(w)
  BY <1>2
<1>4. v \in NodesOf(t) /\ v # None
  BY <1>1, <1>2, NodesAreNodes
<1>5. w # None
  <2>1. Present(old)
    BY <1>4 DEF CanSet
  <2>2. QED
    BY <1>3, <2>1, OptionalFacts
<1>6. Set(old, v) = NewOptional(v)
  BY <1>3, <1>4, <1>5, OptionalFacts
<1>7. QED
  BY <1>2, <1>4, <1>6

\* The hook of a view sets the element if the list has it.
LEMMA KeptHook ==
  ASSUME NEW c, NEW list, NEW s, Kept(c, list, s), NEW i \in Nat, NEW v, v \in Inputs(c)
  PROVE  /\ i < Len(s) => Kept(c, Hook(list, c.is_packed, i, v), Put0(s, i, v))
         /\ ~(i < Len(s)) => Hook(list, c.is_packed, i, v) = list
<1>1. Length(list) = Len(s) /\ Len(s) \in Nat
  BY KeptItems
<1>2. CASE i < Len(s)
  <2>1. i \in 0 .. Length(list) - 1
    BY <1>1, <1>2
  <2>2. Kept(c, WriteItem(list, c.is_packed, i, v), Put0(s, i, v))
    BY <2>1, KeptSet
  <2>3. Hook(list, c.is_packed, i, v) = WriteItem(list, c.is_packed, i, v)
    BY <1>1, <1>2 DEF Hook
  <2>4. QED
    BY <1>2, <2>2, <2>3
<1>3. CASE ~(i < Len(s))
  BY <1>1, <1>3 DEF Hook
<1>4. QED
  BY <1>2, <1>3

-----------------------------------------------------------------------------
(***************************************************************************)
(* The invariant                                                           *)
(***************************************************************************)

ViewsOK ==
  /\ views \in Seq([i : 0 .. cls.maxLength - 1, node : Inputs(cls)])
  /\ views # <<>> => cls.element_cls # Uint8

\* The list is that of its own elements, read by index, and the views are of
\* lists of composite values and have values of their type.
ListInv == Kept(cls, backing, Items) /\ ViewsOK

\* What an operation of a plain list makes of s
ListStep(s, t, V) ==
  \/ t = s
  \/ \E v \in V : t = Append(s, v)
  \/ Len(s) > 0 /\ t = SubSeq(s, 1, Len(s) - 1)
  \/ \E i \in 0 .. Len(s) - 1, v \in V : t = Put0(s, i, v)

\* The elements, read by index, are those of the sequence.
LEMMA ItemsAre ==
  ASSUME NEW s, Kept(cls, backing, s)
  PROVE  Items = s /\ Kept(cls, backing, Items)
<1>1. ItemsOf(backing, cls.is_packed) = s
  BY KeptItems
<1>2. QED
  BY <1>1 DEF Items, ItemsOf

\* The same in the next state
LEMMA NextItemsAre ==
  ASSUME NEW s, Kept(cls', backing', s)
  PROVE  Items' = s /\ Kept(cls', backing', Items')
<1>1. ItemsOf(backing', cls'.is_packed) = s
  BY KeptItems
<1>2. QED
  BY <1>1 DEF Items, ItemsOf

\* A new list is that of its elements.
LEMMA InitInv == Init => ListInv
<1> SUFFICES ASSUME Init PROVE ListInv
  OBVIOUS
<1> DEFINE V == Inputs(cls)
<1>1. cls \in Classes /\ views = <<>>
  BY DEF Init
<1>2. PICK n \in 0 .. cls.maxLength : \E s \in [1 .. n -> V] : backing = New(s, cls.is_packed)
  BY DEF Init
<1>3. PICK s \in [1 .. n -> V] : backing = New(s, cls.is_packed)
  BY <1>2
<1>4. cls.maxLength \in Nat
  BY <1>1, ClassFacts
<1>5. n \in Nat
  BY <1>2, <1>4
<1>6. s \in Seq(V) /\ Len(s) = n
  <2> HIDE DEF V
  <2>1. QED
    BY <1>5, <1>3, FunctionSeq
<1>7. Kept(cls, backing, s)
  BY <1>1, <1>2, <1>4, <1>6, <1>3 DEF Kept
<1>8. Kept(cls, backing, Items)
  BY <1>7, ItemsAre
<1>9. ViewsOK
  BY <1>1 DEF ViewsOK
<1>10. QED
  BY <1>8, <1>9 DEF ListInv

\* What each action does to the sequence of the elements and to the views
Elements(s, t) == Kept(cls', backing', t) /\ ListStep(s, t, Inputs(cls))

\* append adds an element.
LEMMA AppendItemStep ==
  ASSUME ListInv, NEW v \in Inputs(cls), AppendItem(v)
  PROVE  views' = views /\ cls' = cls /\ Elements(Items, Append(Items, v))
<1>1. backing' = Appended(backing, cls.is_packed, v)
  BY DEF AppendItem
<1>2. cls' = cls /\ views' = views /\ Length(backing) < cls.maxLength
  BY DEF AppendItem
<1>3. Kept(cls, backing, Items)
  BY DEF ListInv
<1>4. Kept(cls, Appended(backing, cls.is_packed, v), Append(Items, v))
  BY <1>2, <1>3, KeptAppend
<1>5. ListStep(Items, Append(Items, v), Inputs(cls))
  BY DEF ListStep
<1>6. QED
  BY <1>1, <1>2, <1>4, <1>5 DEF Elements

\* pop removes the last element.
LEMMA PopItemStep ==
  ASSUME ListInv, Pop
  PROVE  /\ views' = views /\ cls' = cls /\ Len(Items) > 0
         /\ Elements(Items, SubSeq(Items, 1, Len(Items) - 1))
<1> DEFINE front == SubSeq(Items, 1, Len(Items) - 1)
<1>1. backing' = Popped(backing, cls.is_packed) /\ cls' = cls /\ views' = views /\ Length(backing) > 0
  BY DEF Pop
<1>2. Kept(cls, backing, Items)
  BY DEF ListInv
<1>3. Kept(cls, Popped(backing, cls.is_packed), front)
  BY <1>1, <1>2, KeptPop
<1>4. Len(Items) > 0
  BY <1>1, <1>2, KeptItems
<1>5. ListStep(Items, front, Inputs(cls))
  BY <1>4 DEF ListStep
<1>6. Elements(Items, front)
  BY <1>1, <1>3, <1>5 DEF Elements
<1>7. QED
  BY <1>1, <1>4, <1>6

\* set replaces an element.
LEMMA SetItemStep ==
  ASSUME ListInv, NEW i \in Indexes, NEW v \in Inputs(cls), SetItem(i, v)
  PROVE  /\ views' = views /\ cls' = cls /\ i \in 0 .. Len(Items) - 1
         /\ Elements(Items, Put0(Items, i, v))
<1>1. backing' = WriteItem(backing, cls.is_packed, i, v) /\ i \in 0 .. Length(backing) - 1
  BY DEF SetItem, Indexes
<1>2. cls' = cls /\ views' = views
  BY DEF SetItem
<1>3. Kept(cls, backing, Items)
  BY DEF ListInv
<1>4. Kept(cls, WriteItem(backing, cls.is_packed, i, v), Put0(Items, i, v))
  BY <1>1, <1>3, KeptSet
<1>5. i \in 0 .. Len(Items) - 1
  BY <1>1, <1>3, KeptItems
<1>6. ListStep(Items, Put0(Items, i, v), Inputs(cls))
  BY <1>1, <1>5 DEF ListStep
<1>7. Elements(Items, Put0(Items, i, v))
  BY <1>1, <1>2, <1>4, <1>6 DEF Elements
<1>8. QED
  BY <1>2, <1>5, <1>7

ViewsOf(c) == [i : 0 .. c.maxLength - 1, node : Inputs(c)]

\* get adds a view of an element.
LEMMA GetViewStep ==
  ASSUME ListInv, NEW i \in Indexes, GetView(i)
  PROVE  /\ cls' = cls /\ backing' = backing /\ cls.element_cls # Uint8
         /\ \E w \in ViewsOf(cls) : views' = Append(views, w)
<1>1. /\ i \in 0 .. Length(backing) - 1
      /\ views' = Append(views, [i |-> i, node |-> ReadItem(backing, cls.is_packed, i)])
  BY DEF GetView, Indexes
<1>2. cls' = cls /\ backing' = backing /\ cls.element_cls # Uint8
  BY DEF GetView
<1>3. Kept(cls, backing, Items)
  BY DEF ListInv
<1> DEFINE v == Items[i + 1]
<1>4. v \in Inputs(cls) /\ ReadItem(backing, cls.is_packed, i) = v /\ i \in 0 .. cls.maxLength - 1
  <2>1. Length(backing) = Len(Items) /\ Len(Items) \in Nat /\ Items \in Seq(Inputs(cls))
    BY <1>3, KeptItems DEF Kept
  <2> DEFINE j == i + 1
             V == Inputs(cls)
  <2>2. j \in 1 .. Len(Items) /\ Items \in Seq(V)
    BY <1>1, <2>1
  <2>3. Items[j] \in V
    <3> HIDE DEF j, V
    <3>1. QED
      BY <2>2, ElementOfSeq
  <2>4. v \in Inputs(cls)
    BY <2>3
  <2> HIDE DEF v
  <2>5. /\ Kept(cls, WriteItem(backing, cls.is_packed, i, v), Put0(Items, i, v))
        /\ ReadItem(backing, cls.is_packed, i) = Items[i + 1] /\ Items[i + 1] \in Inputs(cls)
        /\ i \in 0 .. cls.maxLength - 1
    BY <1>1, <1>3, <2>4, KeptSet
  <2>6. QED
    BY <2>4, <2>5 DEF v
<1>5. [i |-> i, node |-> ReadItem(backing, cls.is_packed, i)] \in ViewsOf(cls)
  BY <1>4 DEF ViewsOf
<1>6. QED
  BY <1>1, <1>2, <1>5

\* A write through the view k: its value becomes node, in the view and, if the
\* element is still there, in the list.
Written(k, i, node) ==
  /\ k \in 1 .. Len(views) /\ node \in Inputs(cls) /\ i \in 0 .. cls.maxLength - 1
  /\ cls' = cls
  /\ views' = [views EXCEPT ![k] = [i |-> i, node |-> node]]
  /\ views[k].i = i
  /\ IF i < Len(Items) THEN Kept(cls', backing', Put0(Items, i, node)) ELSE backing' = backing

\* A write through a view writes the view and the list.
LEMMA WriteViewStep ==
  ASSUME ListInv, NEW k \in DOMAIN views, NEW v \in ViewInputs, WriteView(k, v)
  PROVE  Written(k, views[k].i, Set(views[k].node, v))
<1>1. LET node == Set(views[k].node, v)
      IN /\ CanSet(views[k].node, v)
         /\ views' = [views EXCEPT ![k].node = node]
         /\ backing' = Hook(backing, cls.is_packed, views[k].i, node)
  BY DEF WriteView
<1> DEFINE old == views[k].node
           i == views[k].i
           node == Set(old, v)
           T == cls.element_cls
           W == ViewsOf(cls)
<1>2. cls' = cls
  BY DEF WriteView
<1>3. Kept(cls, backing, Items) /\ views \in Seq(W) /\ (views # <<>> => T # Uint8)
  BY DEF ListInv, ViewsOK, ViewsOf
<1>4. k \in 1 .. Len(views) /\ views[k] \in W
  <2> HIDE DEF W
  <2>1. k \in 1 .. Len(views)
    BY <1>3, LenProperties
  <2>2. QED
    BY <1>3, <2>1, ElementOfSeq
<1>5. T # Uint8
  BY <1>3, <1>4
<1>6. cls \in Classes
  BY <1>3 DEF Kept
<1>7. T \in Nat /\ cls.maxLength \in Nat /\ Inputs(cls) = NodesOf(T)
  BY <1>5, <1>6, ClassFacts
<1>8. views[k] = [i |-> i, node |-> old] /\ i \in 0 .. cls.maxLength - 1 /\ old \in NodesOf(T)
  BY <1>4, <1>7 DEF ViewsOf
<1>9. /\ CanSet(old, v) /\ v \in NodesOf(ElementCls(T))
      /\ views' = [views EXCEPT ![k].node = node]
      /\ backing' = Hook(backing, cls.is_packed, i, node)
  BY <1>1 DEF ViewInputs
<1>10. views' = [views EXCEPT ![k] = [i |-> i, node |-> node]]
  <2>1. [views[k] EXCEPT !.node = node] = [i |-> i, node |-> node]
    BY <1>8
  <2>2. [views EXCEPT ![k].node = node] = [views EXCEPT ![k] = [views[k] EXCEPT !.node = node]]
    OBVIOUS
  <2>3. QED
    BY <1>9, <2>1, <2>2
<1>11. i = views[k].i /\ node = Set(old, v)
  OBVIOUS
<1> HIDE DEF old, i, node, T, W
<1>12. node \in Inputs(cls)
  BY <1>5, <1>7, <1>8, <1>9, <1>11, ViewSet
<1>13. i \in Nat
  BY <1>7, <1>8
<1>14. /\ i < Len(Items) => Kept(cls, Hook(backing, cls.is_packed, i, node), Put0(Items, i, node))
       /\ ~(i < Len(Items)) => Hook(backing, cls.is_packed, i, node) = backing
  BY <1>3, <1>12, <1>13, KeptHook
<1>15. Written(k, i, node)
  BY <1>2, <1>4, <1>8, <1>9, <1>10, <1>11, <1>12, <1>14 DEF Written
<1>16. QED
  BY <1>15 DEF i, node, old

\* After a step the list is that of a sequence which an operation of a plain
\* list makes of the elements.
LEMMA StepElements ==
  ASSUME ListInv, [Next]_vars
  PROVE  cls' = cls /\ \E t : Elements(Items, t)
<1>1. Kept(cls, backing, Items)
  BY DEF ListInv
<1>2. ASSUME cls' = cls, backing' = backing PROVE Elements(Items, Items)
  <2>1. ListStep(Items, Items, Inputs(cls))
    BY DEF ListStep
  <2>2. QED
    BY <1>1, <1>2, <2>1 DEF Elements
<1>3. ASSUME NEW v \in Inputs(cls), AppendItem(v) PROVE cls' = cls /\ \E t : Elements(Items, t)
  BY <1>3, AppendItemStep
<1>4. CASE Pop
  BY <1>4, PopItemStep
<1>5. ASSUME NEW i \in Indexes, NEW v \in Inputs(cls), SetItem(i, v)
      PROVE  cls' = cls /\ \E t : Elements(Items, t)
  BY <1>5, SetItemStep
<1>6. ASSUME NEW i \in Indexes, GetView(i) PROVE cls' = cls /\ \E t : Elements(Items, t)
  <2>1. cls' = cls /\ backing' = backing
    BY <1>6, GetViewStep
  <2>2. QED
    BY <1>2, <2>1
<1>7. ASSUME NEW l \in DOMAIN views, NEW v \in ViewInputs, WriteView(l, v)
      PROVE  cls' = cls /\ \E t : Elements(Items, t)
  <2>1. PICK k, i, node : Written(k, i, node)
    BY <1>7, WriteViewStep
  <2>2. cls' = cls /\ node \in Inputs(cls) /\ i \in 0 .. cls.maxLength - 1
        /\ IF i < Len(Items) THEN Kept(cls', backing', Put0(Items, i, node)) ELSE backing' = backing
    BY <2>1 DEF Written
  <2>3. CASE i < Len(Items)
    <3>1. Len(Items) \in Nat /\ cls.maxLength \in Nat
      <4>1. cls \in Classes
        BY <1>1 DEF Kept
      <4>2. QED
        BY <1>1, <4>1, KeptItems, ClassFacts
    <3>2. i \in 0 .. Len(Items) - 1
      BY <2>2, <2>3, <3>1
    <3>3. ListStep(Items, Put0(Items, i, node), Inputs(cls))
      BY <2>2, <3>2 DEF ListStep
    <3>4. QED
      BY <2>2, <2>3, <3>3 DEF Elements
  <2>4. CASE ~(i < Len(Items))
    BY <1>2, <2>2, <2>4
  <2>5. QED
    BY <2>2, <2>3, <2>4
<1>8. CASE UNCHANGED vars
  <2>1. cls' = cls /\ backing' = backing
    BY <1>8 DEF vars
  <2>2. QED
    BY <1>2, <2>1
<1>9. QED
  BY <1>3, <1>4, <1>5, <1>6, <1>7, <1>8 DEF Next

\* The views stay views of elements.
LEMMA StepViews ==
  ASSUME ListInv, [Next]_vars
  PROVE  ViewsOK'
<1> DEFINE W == ViewsOf(cls)
<1>1. views \in Seq(W) /\ (views # <<>> => cls.element_cls # Uint8)
  BY DEF ListInv, ViewsOK, ViewsOf
<1>2. cls' = cls
  BY StepElements
<1>3. SUFFICES views' \in Seq(W) /\ (views' # <<>> => cls.element_cls # Uint8)
  BY <1>2 DEF ViewsOK, ViewsOf
<1>4. CASE views' = views
  BY <1>1, <1>4
<1>5. ASSUME NEW i \in Indexes, GetView(i) PROVE views' \in Seq(W) /\ (views' # <<>> => cls.element_cls # Uint8)
  <2>1. cls.element_cls # Uint8
    BY <1>5, GetViewStep
  <2>2. PICK w \in W : views' = Append(views, w)
    BY <1>5, GetViewStep
  <2> HIDE DEF W
  <2>3. Append(views, w) \in Seq(W)
    BY <1>1, <2>2, AppendProperties
  <2>4. QED
    BY <2>1, <2>2, <2>3
<1>6. ASSUME NEW l \in DOMAIN views, NEW v \in ViewInputs, WriteView(l, v)
      PROVE  views' \in Seq(W) /\ (views' # <<>> => cls.element_cls # Uint8)
  <2>1. PICK k, i, node : Written(k, i, node)
    BY <1>6, WriteViewStep
  <2> DEFINE w == [i |-> i, node |-> node]
  <2>2. k \in 1 .. Len(views) /\ w \in W /\ views' = [views EXCEPT ![k] = w]
    BY <2>1 DEF Written, ViewsOf
  <2>3. views # <<>>
    BY <2>2
  <2> HIDE DEF W, w
  <2>4. [views EXCEPT ![k] = w] \in Seq(W)
    BY <1>1, <2>2, ExceptSeq
  <2>5. QED
    BY <1>1, <2>2, <2>3, <2>4
<1>7. QED
  <2>1. /\ \A i, v : AppendItem(v) \/ SetItem(i, v) => views' = views
        /\ Pop \/ UNCHANGED vars => views' = views
    BY DEF AppendItem, Pop, SetItem, vars
  <2> HIDE DEF W
  <2>2. QED
    BY <1>4, <1>5, <1>6, <2>1 DEF Next

\* Every step keeps the invariant.
LEMMA NextInv == ListInv /\ [Next]_vars => ListInv'
<1> SUFFICES ASSUME ListInv, [Next]_vars PROVE ListInv'
  OBVIOUS
<1>1. PICK t : Elements(Items, t)
  BY StepElements
<1>2. Kept(cls', backing', t)
  BY <1>1 DEF Elements
<1>3. Kept(cls', backing', Items')
  BY <1>2, NextItemsAre
<1>4. ViewsOK'
  BY StepViews
<1>5. QED
  BY <1>3, <1>4 DEF ListInv

\* In every state the list is that of its own elements: this is what each
\* operation relies on and re-establishes.
THEOREM Invariance == Spec => []ListInv
BY InitInv, NextInv, PTL DEF Spec

-----------------------------------------------------------------------------
(***************************************************************************)
(* The properties                                                          *)
(***************************************************************************)

\* A list has a length within its bound and elements of its type, and the
\* views have values of the type of the elements (progressive.py:80-208).
THEOREM Types == Spec => []TypeOK
<1>1. ListInv => TypeOK
  <2> SUFFICES ASSUME ListInv PROVE TypeOK
    OBVIOUS
  <2> DEFINE V == Inputs(cls)
             W == [i : 0 .. cls.maxLength - 1, node : V]
  <2>1. /\ cls \in Classes /\ Items \in Seq(V) /\ Len(Items) \in 0 .. cls.maxLength
        /\ views \in Seq(W) /\ Length(backing) = Len(Items)
    <3>1. Kept(cls, backing, Items)
      BY DEF ListInv
    <3>2. Length(backing) = Len(Items)
      BY <3>1, KeptItems
    <3>3. QED
      BY <3>1, <3>2 DEF ListInv, ViewsOK, Kept
  <2>2. \A k \in DOMAIN views : views[k] \in W
    <3> HIDE DEF W
    <3>1. DOMAIN views = 1 .. Len(views)
      BY <2>1, LenProperties
    <3>2. \A k \in 1 .. Len(views) : views[k] \in W
      BY <2>1, ElementOfSeq
    <3>3. QED
      BY <3>1, <3>2
  <2>3. \A k \in DOMAIN Items : Items[k] \in V
    <3> HIDE DEF V, W
    <3>1. DOMAIN Items = 1 .. Len(Items)
      BY <2>1, LenProperties
    <3>2. \A k \in 1 .. Len(Items) : Items[k] \in V
      BY <2>1, ElementOfSeq
    <3>3. QED
      BY <3>1, <3>2
  <2>4. QED
    BY <2>1, <2>2, <2>3 DEF TypeOK
<1>2. QED
  BY <1>1, Invariance, PTL

\* Whatever calls led to it, a list has the very tree of a new list of its
\* elements: append, pop, set and the hooks of views leave no subtree missing,
\* left over or expanded (progressive.py:80-208).
THEOREM Canonical == Spec => []ListsCanonical
<1>1. ListInv => ListsCanonical
  BY DEF ListInv, Kept, ListsCanonical
<1>2. QED
  BY <1>1, Invariance, PTL

\* readonly_iter yields, in order, what get finds by index, and leaves no tree
\* over (progressive.py:23-54).
THEOREM Iteration == Spec => []IterationComplete
<1>1. ListInv => IterationComplete
  BY KeptItems DEF ListInv, IterationComplete
<1>2. QED
  BY <1>1, Invariance, PTL

\* An Optional element is read back from its bytes, however deep its type, and
\* their number is within the bounds of the type (optional.py:139-193).
THEOREM Codec == Spec => []OptionalsDecode
<1>1. ListInv => OptionalsDecode
  <2> SUFFICES ASSUME ListInv, cls.element_cls # Uint8, NEW k \in DOMAIN Items
               PROVE  LET bytes == Serialize(cls.element_cls, Items[k])
                      IN /\ Deserialize(cls.element_cls, bytes) = Items[k]
                         /\ Len(bytes) \in MinByteLength(cls.element_cls)
                                             .. MaxByteLength(cls.element_cls)
    BY DEF OptionalsDecode
  <2> DEFINE T == cls.element_cls
             v == Items[k]
             V == Inputs(cls)
  <2>1. Kept(cls, backing, Items)
    BY DEF ListInv
  <2>2. cls \in Classes /\ Items \in Seq(V)
    BY <2>1 DEF Kept
  <2>3. T \in Nat /\ V = NodesOf(T)
    BY <2>2, ClassFacts
  <2>4. v \in V
    <3> HIDE DEF V
    <3>1. k \in 1 .. Len(Items)
      BY <2>2, LenProperties
    <3>2. QED
      BY <2>2, <3>1, ElementOfSeq
  <2> HIDE DEF T, v, V
  <2>5. Deserialize(T, Serialize(T, v)) = v
    BY <2>3, <2>4, DeserializeSerialize
  <2>6. Len(Serialize(T, v)) \in MinByteLength(T) .. MaxByteLength(T)
    BY <2>3, <2>4, Encoded
  <2>7. QED
    BY <2>5, <2>6 DEF T, v
<1>2. QED
  BY <1>1, Invariance, PTL

\* A write through a view reaches the element at the index of the view and no
\* other, with the value of the view; one to an element that was popped
\* meanwhile changes nothing in the list (optional.py:96-99, progressive.py:204-208).
THEOREM ViewWrites == Spec => WritesReachTheList
<1> DEFINE Reaches ==
      \A k \in DOMAIN views :
        views' # views /\ views'[k] # views[k] =>
          IF views[k].i < Len(Items)
          THEN Items' = [Items EXCEPT ![views[k].i + 1] = views'[k].node]
          ELSE backing' = backing
<1>1. ListInv /\ [Next]_vars => Reaches
  <2> SUFFICES ASSUME ListInv, [Next]_vars, NEW k \in DOMAIN views,
                      views' # views, views'[k] # views[k]
               PROVE  IF views[k].i < Len(Items)
                      THEN Items' = [Items EXCEPT ![views[k].i + 1] = views'[k].node]
                      ELSE backing' = backing
    OBVIOUS
  <2> DEFINE W == ViewsOf(cls)
  <2>1. views \in Seq(W)
    BY DEF ListInv, ViewsOK, ViewsOf
  <2>2. ASSUME NEW i \in Indexes, GetView(i) PROVE FALSE
    <3> SUFFICES views'[k] = views[k]
      OBVIOUS
    <3>1. PICK w \in W : views' = Append(views, w)
      BY <2>2, GetViewStep
    <3> HIDE DEF W
    <3>2. k \in 1 .. Len(views)
      BY <2>1, LenProperties
    <3>3. \A x \in 1 .. Len(views) : Append(views, w)[x] = views[x]
      BY <2>1, <3>1, AppendProperties
    <3>4. QED
      BY <3>1, <3>2, <3>3
  <2>3. \E j \in DOMAIN views : \E v \in ViewInputs : WriteView(j, v)
    <3>1. /\ \A i, v : AppendItem(v) \/ SetItem(i, v) => views' = views
          /\ Pop \/ UNCHANGED vars => views' = views
      BY DEF AppendItem, Pop, SetItem, vars
    <3>2. QED
      BY <2>2, <3>1 DEF Next
  <2>4. PICK l, i, node : Written(l, i, node)
    BY <2>3, WriteViewStep
  <2> DEFINE w == [i |-> i, node |-> node]
  <2>5. /\ l \in 1 .. Len(views) /\ views' = [views EXCEPT ![l] = w] /\ views[l].i = i
        /\ IF i < Len(Items) THEN Kept(cls', backing', Put0(Items, i, node)) ELSE backing' = backing
    BY <2>4 DEF Written
  <2>6. l = k
    BY <2>5
  <2>7. views'[k].node = node /\ views[k].i = i
    BY <2>5, <2>6
  <2>8. CASE i < Len(Items)
    <3>1. Items' = Put0(Items, i, node)
      BY <2>5, <2>8, NextItemsAre
    <3>2. QED
      BY <2>7, <2>8, <3>1 DEF Put0
  <2>9. CASE ~(i < Len(Items))
    BY <2>5, <2>7, <2>9
  <2>10. QED
    BY <2>8, <2>9
<1>2. QED
  BY <1>1, Invariance, PTL DEF Spec, WritesReachTheList

\* What an operation of a plain list makes of the elements, a step of the
\* plain list makes of them.
LEMMA PlainStep ==
  ASSUME NEW t, ListStep(Items, t, Inputs(cls)), Items' = t, cls' = cls
  PROVE  [Plain!Next]_<<Inputs(cls), Items>>
<1> DEFINE s == Items
           V == Inputs(cls)
<1>1. CASE t = s
  BY <1>1
<1>2. V' = V
  OBVIOUS
<1>3. ASSUME NEW v \in V, t = Append(s, v) PROVE Plain!Next
  BY <1>2, <1>3 DEF Plain!Next, Plain!Appended
<1>4. ASSUME Len(s) > 0, t = SubSeq(s, 1, Len(s) - 1) PROVE Plain!Next
  <2>1. s # <<>>
    BY <1>4
  <2>2. QED
    BY <1>2, <1>4, <2>1 DEF Plain!Next, Plain!Popped
<1>5. ASSUME NEW i \in 0 .. Len(s) - 1, NEW v \in V, t = Put0(s, i, v) PROVE Plain!Next
  <2>1. t = [s EXCEPT ![i + 1] = v]
    BY <1>5 DEF Put0
  <2>2. QED
    BY <1>2, <1>5, <2>1 DEF Plain!Next, Plain!Replaced
<1>6. QED
  BY <1>1, <1>3, <1>4, <1>5 DEF ListStep

\* Read by index, a progressive list is a plain sequence, call by call: append
\* adds its argument at the end, pop removes the last element, set replaces the
\* element at its index by its argument, and a write through a view the element
\* at the view's index, across the borders of chunks and subtrees
\* (progressive.py:80-208); so a program that uses it uses a plain list.
THEOREM Refinement == Spec => RefinesPlainList /\ Plain!Spec
<1>1. ListInv => Plain!Init
  BY DEF ListInv, Kept, Plain!Init
<1>2. ListInv /\ [Next]_vars => [PlainCalls]_vars
  <2> SUFFICES ASSUME ListInv PROVE PlainCalls
    OBVIOUS
  <2>1. \A t : Elements(Items, t) => Items' = t
    BY NextItemsAre DEF Elements
  <2>2. ASSUME NEW v \in Inputs(cls), AppendItem(v) PROVE Plain!Appended(Items, Items', v)
    <3>1. Elements(Items, Append(Items, v))
      BY <2>2, AppendItemStep
    <3>2. QED
      BY <2>1, <3>1 DEF Plain!Appended
  <2>3. ASSUME Pop PROVE Plain!Popped(Items, Items')
    <3>1. Len(Items) > 0 /\ Elements(Items, SubSeq(Items, 1, Len(Items) - 1))
      BY <2>3, PopItemStep
    <3>2. Items # <<>>
      BY <3>1
    <3>3. QED
      BY <2>1, <3>1, <3>2 DEF Plain!Popped
  <2>4. ASSUME NEW i \in Indexes, NEW v \in Inputs(cls), SetItem(i, v)
        PROVE  Plain!Replaced(Items, Items', i, v)
    <3>1. i \in 0 .. Len(Items) - 1 /\ Elements(Items, Put0(Items, i, v))
      BY <2>4, SetItemStep
    <3>2. QED
      BY <2>1, <3>1 DEF Plain!Replaced, Put0
  <2>5. ASSUME NEW i \in Indexes, GetView(i) PROVE Items' = Items
    <3>1. cls' = cls /\ backing' = backing
      BY <2>5, GetViewStep
    <3>2. QED
      BY <3>1 DEF Items
  <2>6. ASSUME NEW k \in DOMAIN views, NEW v \in ViewInputs, WriteView(k, v)
        PROVE  IF views[k].i < Len(Items)
               THEN Plain!Replaced(Items, Items', views[k].i, views'[k].node)
               ELSE Items' = Items
    <3> DEFINE i == views[k].i
               node == Set(views[k].node, v)
    <3>1. Written(k, i, node)
      BY <2>6, WriteViewStep
    <3> HIDE DEF i, node
    <3>2. views'[k].node = node /\ i = views[k].i
      BY <3>1 DEF Written, i
    <3>3. CASE i < Len(Items)
      <4>1. Items' = Put0(Items, i, node)
        BY <3>1, <3>3, NextItemsAre DEF Written
      <4>2. Len(Items) \in Nat /\ cls.maxLength \in Nat
        BY KeptItems, ClassFacts DEF ListInv, Kept
      <4>3. i \in 0 .. Len(Items) - 1
        BY <3>1, <3>3, <4>2 DEF Written
      <4>4. QED
        BY <3>2, <3>3, <4>1, <4>3 DEF Plain!Replaced, Put0
    <3>4. CASE ~(i < Len(Items))
      <4>1. cls' = cls /\ backing' = backing
        BY <3>1, <3>4 DEF Written
      <4>2. Items' = Items
        BY <4>1 DEF Items
      <4>3. QED
        BY <3>2, <3>4, <4>2
    <3>5. QED
      BY <3>2, <3>3, <3>4
  <2>7. QED
    BY <2>2, <2>3, <2>4, <2>5, <2>6 DEF PlainCalls
<1>3. ListInv /\ [Next]_vars => [Plain!Next]_<<Inputs(cls), Items>>
  <2> SUFFICES ASSUME ListInv, [Next]_vars PROVE [Plain!Next]_<<Inputs(cls), Items>>
    OBVIOUS
  <2>1. cls' = cls /\ \E t : Elements(Items, t)
    BY StepElements
  <2>2. PICK t : Elements(Items, t)
    BY <2>1
  <2>3. Items' = t /\ ListStep(Items, t, Inputs(cls))
    BY <2>2, NextItemsAre DEF Elements
  <2>4. QED
    BY <2>1, <2>3, PlainStep
<1>4. QED
  BY <1>1, <1>2, <1>3, InitInv, Invariance, PTL DEF Spec, RefinesPlainList, Plain!Spec
=============================================================================
