-------------------------- MODULE DepositTreeProofs --------------------------
(***************************************************************************)
(* Theorems on the deposit trees of EIP-4881, for every depth, number of   *)
(* nodes, chain of blocks and bound.                                       *)
(*                                                                         *)
(* The argument: TreeAt(c, f, Depth, 0) is a closed form for the tree of   *)
(* the log's first c deposits of which f are finalized.  push_leaf takes   *)
(* it to c + 1, finalize to a larger f, from_snapshot makes the one of the *)
(* snapshot's count, and get_root, get_finalized, get_snapshot and         *)
(* get_proof read from it what the log says; so every running tree is the  *)
(* closed form of its counts, which is the inductive invariant Replay, and *)
(* every property follows from it.                                         *)
(*                                                                         *)
(* The theorems suppose that no block is finalized after which the         *)
(* contract counts no deposit, MinFinalize # 0: Leaf.finalize ignores the  *)
(* number of deposits, so that finalizing such a block finalizes the first *)
(* leaf all the same.                                                      *)
(***************************************************************************)
EXTENDS DepositTree, FiniteSetTheorems, SequenceTheorems, TLAPS

-----------------------------------------------------------------------------
(***************************************************************************)
(* Numbers                                                                 *)
(***************************************************************************)

\* The powers of two are positive and double from one to the next.  A power is
\* defined by recursion; that it doubles is read off the library's theorem on
\* the number of subsets of a finite set, which counts them by such powers.
LEMMA PowerOfTwo ==
  ASSUME NEW n \in Nat
  PROVE  /\ 2^n \in Nat \ {0}
         /\ 2^(n + 1) = 2 * 2^n
<1> DEFINE S == 1 .. n
           A == SUBSET S
           B == {T \union {n + 1} : T \in A}
<1>1. IsFiniteSet(S) /\ Cardinality(S) = n
  BY FS_Interval
<1>2. IsFiniteSet(A) /\ Cardinality(A) = 2^n
  BY <1>1, FS_SUBSET
<1>3. IsFiniteSet(1 .. n + 1) /\ Cardinality(1 .. n + 1) = n + 1
  BY FS_Interval
<1>4. Cardinality(SUBSET (1 .. n + 1)) = 2^(n + 1)
  BY <1>3, FS_SUBSET
<1>5. ExistsBijection(A, B)
  <2> DEFINE f == [T \in A |-> T \union {n + 1}]
  <2>1. f \in [A -> B]
    OBVIOUS
  <2>2. ASSUME NEW T \in A, NEW U \in A, f[T] = f[U] PROVE T = U
    <3>1. n + 1 \notin T /\ n + 1 \notin U
      OBVIOUS
    <3>2. T \union {n + 1} = U \union {n + 1}
      BY <2>2
    <3>3. QED
      BY <3>1, <3>2
  <2>3. \A T \in B : \E U \in A : f[U] = T
    OBVIOUS
  <2> HIDE DEF f, A, B
  <2>4. f \in Bijection(A, B)
    BY <2>1, <2>2, <2>3 DEF Bijection, Injection, Surjection, IsInjective
  <2>5. QED
    BY <2>4 DEF ExistsBijection
<1>6. IsFiniteSet(B) /\ Cardinality(B) = 2^n
  BY <1>2, <1>5, FS_Bijection
<1>7. A \union B = SUBSET (1 .. n + 1)
  <2>1. ASSUME NEW T \in SUBSET (1 .. n + 1) PROVE T \in A \union B
    <3>1. CASE n + 1 \in T
      <4>1. T \ {n + 1} \in A /\ T = (T \ {n + 1}) \union {n + 1}
        BY <3>1
      <4>2. QED
        BY <4>1
    <3>2. CASE n + 1 \notin T
      BY <3>2
    <3>3. QED
      BY <3>1, <3>2
  <2>2. ASSUME NEW T \in A \union B PROVE T \in SUBSET (1 .. n + 1)
    <3>1. CASE T \in A
      BY <3>1
    <3>2. CASE T \in B
      <4>1. PICK U \in A : T = U \union {n + 1}
        BY <3>2
      <4>2. QED
        BY <4>1
    <3>3. QED
      BY <3>1, <3>2, <2>2
  <2>3. QED
    BY <2>1, <2>2
<1>8. A \intersect B = {}
  OBVIOUS
<1>9. Cardinality(A \intersect B) = 0
  BY <1>8, FS_EmptySet
<1>10. Cardinality(A \union B) = Cardinality(A) + Cardinality(B) - Cardinality(A \intersect B)
  BY <1>2, <1>6, FS_Union
<1>11. 2^n \in Nat
  BY <1>2, FS_CardinalityType
<1>12. 2^n # 0
  <2>1. A # {}
    OBVIOUS
  <2>2. QED
    BY <1>2, <2>1, FS_EmptySet
<1> HIDE DEF A, B, S
<1>13. Cardinality(A \union B) = 2^(n + 1)
  BY <1>4, <1>7
<1>14. 2^(n + 1) = 2^n + 2^n - 0
  BY <1>2, <1>6, <1>9, <1>10, <1>13
<1>15. QED
  BY <1>11, <1>12, <1>14

\* A division has one quotient and one remainder.
LEMMA DivisionUnique ==
  ASSUME NEW x \in Nat, NEW d \in Nat \ {0}, NEW q \in Nat, NEW r \in 0 .. d - 1,
         x = d * q + r
  PROVE  x \div d = q /\ x % d = r
<1> DEFINE h == x \div d
           k == x % d
<1>1. x = d * h + k /\ h \in Int /\ k \in 0 .. d - 1
  OBVIOUS
<1> HIDE DEF h, k
<1>2. ASSUME q > h PROVE FALSE
  <2>1. q - h - 1 \in Nat
    BY <1>1, <1>2
  <2>2. d * (q - h - 1) \in Nat
    BY <2>1
  <2>3. d * (q - h - 1) = d * q - d * h - d
    BY <1>1
  <2>4. QED
    BY <1>1, <2>2, <2>3
<1>3. ASSUME q < h PROVE FALSE
  <2>1. h - q - 1 \in Nat
    BY <1>1, <1>3
  <2>2. d * (h - q - 1) \in Nat
    BY <2>1
  <2>3. d * (h - q - 1) = d * h - d * q - d
    BY <1>1
  <2>4. QED
    BY <1>1, <2>2, <2>3
<1>4. q = h
  BY <1>1, <1>2, <1>3
<1>5. QED
  BY <1>1, <1>4 DEF h, k

\* The binary digits of a number: the digit of weight p is what the remainder
\* by 2 * p has more than the remainder by p.
LEMMA Halving ==
  ASSUME NEW x \in Nat, NEW p \in Nat \ {0}
  PROVE  /\ x % p \in 0 .. p - 1
         /\ x \div p \in Nat
         /\ (x \div p) % 2 \in {0, 1}
         /\ x % (2 * p) = (x % p) + p * ((x \div p) % 2)
<1> DEFINE q == x \div p
           r == x % p
           b == q % 2
           h == q \div 2
<1>1. x = p * q + r /\ q \in Nat /\ r \in 0 .. p - 1
  OBVIOUS
<1>2. q = 2 * h + b /\ h \in Nat /\ b \in {0, 1}
  BY <1>1
<1> HIDE DEF q, r, b, h
<1>3. x = (2 * p) * h + (p * b + r)
  BY <1>1, <1>2
<1>4. p * b + r \in 0 .. (2 * p) - 1
  BY <1>1, <1>2
<1>5. ASSUME NEW d, d = 2 * p PROVE x % d = p * b + r
  <2>1. d \in Nat \ {0} /\ x = d * h + (p * b + r) /\ p * b + r \in 0 .. d - 1
    BY <1>3, <1>4, <1>5
  <2>2. QED
    BY <1>2, <2>1, DivisionUnique
<1>6. x % (2 * p) = p * b + r
  BY <1>5
<1>7. p * b + r = r + p * b
  BY <1>1, <1>2
<1>8. x % (2 * p) = r + p * b
  BY <1>6, <1>7
<1>9. r \in 0 .. p - 1 /\ q \in Nat /\ b \in {0, 1}
  BY <1>1, <1>2
<1>10. QED
  BY <1>8, <1>9 DEF q, r, b

-----------------------------------------------------------------------------
(***************************************************************************)
(* Induction                                                               *)
(***************************************************************************)

\* Induction over the numbers up to N, for a set I of numbers.
LEMMA LevelInduction ==
  ASSUME NEW N \in Nat, NEW I, 0 \in I,
         ASSUME NEW n \in 0 .. N - 1, n \in I PROVE n + 1 \in I
  PROVE  \A n \in 0 .. N : n \in I
<1> DEFINE missing == {n \in 0 .. N : n \notin I}
<1>1. SUFFICES ASSUME missing # {} PROVE FALSE
  OBVIOUS
<1>2. missing \subseteq Nat
  OBVIOUS
<1> HIDE DEF missing
<1>3. PICK n \in missing : \A m \in missing : ~(<<m, n>> \in OpToRel(<, Nat))
  BY <1>1, <1>2, NatLessThanWellFounded, WFMin
<1>4. n \in 0 .. N /\ n \notin I
  BY DEF missing
<1>5. n # 0 /\ n - 1 \in 0 .. N - 1
  BY <1>4
<1>6. n - 1 \notin I
  BY <1>4, <1>5
<1>7. n - 1 \in missing
  BY <1>5, <1>6 DEF missing
<1>8. <<n - 1, n>> \in OpToRel(<, Nat)
  BY <1>4, <1>5 DEF OpToRel
<1>9. QED
  BY <1>3, <1>7, <1>8

-----------------------------------------------------------------------------
(***************************************************************************)
(* Recursion                                                               *)
(*                                                                         *)
(* TLA+ defines f[x \in D] == e as a choice among the functions that       *)
(* satisfy the equation: a proof may use the equation once it has shown    *)
(* that one does.  The lemmas of this section show it, once, for every     *)
(* recursion of the model and of the proofs: the step of each is defined   *)
(* first, and Step selects one of them by a name.                          *)
(***************************************************************************)

\* The step of the recursion that Node.create makes.
CreateStep(leaf, level, f) ==
  IF level = 0 THEN Leaf(leaf) ELSE Node(f[level - 1], Zero(level - 1))

\* The step of the recursion that computes zerohashes.
ZeroStep(p, i, f) == IF i = 0 THEN ZeroBytes ELSE Sha256(f[i - 1], f[i - 1])

\* The step of the recursion over the hashes of each height.
HashStep(p, level, f) ==
  IF level = 0 THEN {ZeroBytes} \union {DepositRoot(i) : i \in 0 .. MaxDeposits - 1}
  ELSE {"sha256"} \X f[level - 1] \X f[level - 1]

\* The step of the recursion over the layers of the contract's tree.
LayerStep(c, level, f) ==
  [i \in 0 .. 2^(Depth - level) - 1 |->
     IF level = 0 THEN IF i < c THEN DepositRoot(i) ELSE ZeroBytes
     ELSE Sha256(f[level - 1][2 * i], f[level - 1][2 * i + 1])]

\* The step of the recursion over the trees of each height.
TreeOfStep(p, level, f) ==
  {Zero(level)}
    \union [kind : {"Finalized"}, deposit_count : {2^level}, hash : Hash[level]]
    \union IF level = 0 THEN [kind : {"Leaf"}, hash : Hash[0]]
           ELSE [kind : {"Node"}, left : f[level - 1], right : f[level - 1]]

\* A union with a name, for a recursion that the provers take as it stands.
Joined(S, T) == S \union T

\* The step of the recursion over the trees up to a height.
UptoStep(p, level, f) ==
  IF level = 0 THEN TreeOf[0] ELSE Joined(TreeOf[level], f[level - 1])

\* The step of the recursion that get_root makes.
RootStep(p, t, f) ==
  CASE t.kind = "Node" -> Sha256(f[t.left], f[t.right])
    [] t.kind = "Zero" /\ t.n < Depth -> zerohashes[t.n]
    [] t.kind = "Zero" /\ t.n = Depth ->
         Sha256(zerohashes[Depth - 1], zerohashes[Depth - 1])
    [] t.kind \in {"Leaf", "Finalized"} -> t.hash

\* The step of the recursion that is_full makes.
FullStep(p, t, f) ==
  \/ t.kind \in {"Leaf", "Finalized"}
  \/ t.kind = "Node" /\ f[t.right]

\* The step of the recursion that get_finalized makes.
FinalizedStep(p, t, f) ==
  CASE t.kind = "Node" ->
         LET left == f[t.left]
             right == f[t.right]
         IN [result |-> left.result \o right.result, count |-> left.count + right.count]
    [] t.kind = "Finalized" -> [result |-> <<t.hash>>, count |-> t.deposit_count]
    [] OTHER -> [result |-> <<>>, count |-> 0]

\* The step of the recursion that counts leaves.
LeavesStep(p, t, f) ==
  CASE t.kind = "Node" -> f[t.left] + f[t.right]
    [] t.kind = "Leaf" -> 1
    [] OTHER -> 0

\* The step of the recursion that push_leaf makes.
PushStep(leaf, t, f) ==
  [level \in Levels |->
     IF t.kind = "Zero" THEN CreateOne(leaf, level)
     ELSE IF t.kind # "Node" THEN None
     ELSE IF IsFull(t.left) THEN Node(t.left, f[t.right][level - 1])
     ELSE Node(f[t.left][level - 1], t.right)]

\* The step of the recursion that Node.finalize makes.
FinalizeStep(p, t, f) ==
  [level \in Levels |-> [deposits \in 0 .. MaxDeposits |->
     IF t.kind # "Node" THEN FinalizeChildless(t)
     ELSE IF 2^level <= deposits THEN Finalized(2^level, GetRoot(t))
     ELSE Node(f[t.left][level - 1][deposits],
               IF deposits > 2^(level - 1)
               THEN f[t.right][level - 1][deposits - 2^(level - 1)]
               ELSE t.right)]]

\* What from_snapshot_parts makes of a height, when its hashes are those from
\* the i-th on and f gives the trees of the height below.
PartsAt(finalized, level, i, deposits, f) ==
  IF i > Len(finalized) \/ deposits = 0 THEN Zero(level)
  ELSE IF deposits = 2^level THEN Finalized(deposits, finalized[i])
  ELSE IF deposits <= 2^(level - 1)
  THEN Node(f[level - 1][i][deposits], Zero(level - 1))
  ELSE Node(Finalized(2^(level - 1), finalized[i]),
            f[level - 1][i + 1][deposits - 2^(level - 1)])

\* The step of the recursion that from_snapshot_parts makes.
PartsStep(finalized, level, f) ==
  [i \in 1 .. Len(finalized) + 1 |-> [deposits \in 0 .. 2^level |->
     PartsAt(finalized, level, i, deposits, f)]]

\* A branch with the sibling's hash of one more height.
Extended(below, hash) ==
  IF below = AttributeError THEN AttributeError
  ELSE [leaf |-> below.leaf, proof |-> Append(below.proof, hash)]

\* What generate_proof makes of a tree, when f gives the branches below.
ProofAt(index, level, t, f) ==
  IF level = 0 THEN [leaf |-> GetRoot(t), proof |-> <<>>]
  ELSE IF t.kind # "Node" THEN AttributeError
  ELSE Extended(f[level - 1][Child(t, index, level)], GetRoot(Sibling(t, index, level)))

\* The step of the recursion that generate_proof makes.
ProofStep(index, level, f) == [t \in Tree |-> ProofAt(index, level, t, f)]

\* The step of the loop of calculate_root.
ClimbStep(p, level, f) ==
  IF level = 0 THEN [index |-> Len(p[1]), root |-> zerohashes[0]]
  ELSE IF Bit(p[2], level - 1) = 1
  THEN [index |-> f[level - 1].index - 1,
        root |-> Sha256(Item(p[1], f[level - 1].index - 1), f[level - 1].root)]
  ELSE [index |-> f[level - 1].index,
        root |-> Sha256(f[level - 1].root, zerohashes[level - 1])]

\* The step of the loop of merkle_root_from_branch.
BranchStep(p, i, f) ==
  IF i = 0 THEN p[1]
  ELSE IF Bit(p[3], i - 1) = 1 THEN Sha256(p[2][i], f[i - 1])
  ELSE Sha256(f[i - 1], p[2][i])

\* The root of the subtree of the contract's tree that has height level and
\* begins at leaf s, after c deposits.
RootAt(c, level, s) ==
  LET root[l \in Levels] ==
        [x \in Nat |-> IF l = 0 THEN IF x < c THEN DepositRoot(x) ELSE ZeroBytes
                       ELSE Sha256(root[l - 1][x], root[l - 1][x + 2^(l - 1)])]
  IN root[level][s]

\* The step of that recursion.
RootAtStep(c, l, f) ==
  [x \in Nat |-> IF l = 0 THEN IF x < c THEN DepositRoot(x) ELSE ZeroBytes
                 ELSE Sha256(f[l - 1][x], f[l - 1][x + 2^(l - 1)])]

\* The step of the recursion of TreeAt, the closed form below, for p = <<c, f>>.
TreeAtStep(p, l, g) ==
  [x \in Nat |->
     IF p[1] <= x THEN Zero(l)
     ELSE IF x + 2^l <= p[2] THEN Finalized(2^l, RootAt(p[2], l, x))
     ELSE IF l = 0 THEN Leaf(DepositRoot(x))
     ELSE Node(g[l - 1][x], g[l - 1][x + 2^(l - 1)])]

\* The step of the recursion of a name, for a parameter p, at x, where f gives
\* the values at smaller arguments.
Step(name, p, x, f) ==
  IF name = "create" THEN CreateStep(p, x, f)
  ELSE IF name = "zero" THEN ZeroStep(p, x, f)
  ELSE IF name = "hash" THEN HashStep(p, x, f)
  ELSE IF name = "layer" THEN LayerStep(p, x, f)
  ELSE IF name = "treeOf" THEN TreeOfStep(p, x, f)
  ELSE IF name = "upto" THEN UptoStep(p, x, f)
  ELSE IF name = "root" THEN RootStep(p, x, f)
  ELSE IF name = "full" THEN FullStep(p, x, f)
  ELSE IF name = "finalized" THEN FinalizedStep(p, x, f)
  ELSE IF name = "leaves" THEN LeavesStep(p, x, f)
  ELSE IF name = "push" THEN PushStep(p, x, f)
  ELSE IF name = "finalize" THEN FinalizeStep(p, x, f)
  ELSE IF name = "parts" THEN PartsStep(p, x, f)
  ELSE IF name = "proof" THEN ProofStep(p, x, f)
  ELSE IF name = "climb" THEN ClimbStep(p, x, f)
  ELSE IF name = "branch" THEN BranchStep(p, x, f)
  ELSE IF name = "rootAt" THEN RootAtStep(p, x, f)
  ELSE TreeAtStep(p, x, f)

\* f is defined on D by the recursion of that name.
Satisfies(f, name, p, D) == f = [x \in D |-> Step(name, p, x, f)]

\* The recursion on a set S[Top] that is built up in stages, as the trees of a
\* height are from the lower ones: if Step at an argument of a stage looks at
\* arguments of the stage below only, some function satisfies the equation.
LEMMA RecursiveFunctionExists ==
  ASSUME NEW Top \in Nat, NEW S, NEW name, NEW p,
         \A n \in 0 .. Top - 1 : S[n] \subseteq S[n + 1],
         \A f, g : \A x \in S[0] : Step(name, p, x, f) = Step(name, p, x, g),
         \A f, g : \A n \in 0 .. Top - 1 :
           (\A y \in S[n] : f[y] = g[y]) => \A x \in S[n + 1] : Step(name, p, x, f) = Step(name, p, x, g)
  PROVE  \E f : Satisfies(f, name, p, S[Top])
<1> DEFINE I == {n \in 0 .. Top : \E f : Satisfies(f, name, p, S[n])}
<1>1. 0 \in I
  <2> DEFINE f == [x \in S[0] |-> Step(name, p, x, <<>>)]
  <2>1. \A x \in S[0] : Step(name, p, x, f) = Step(name, p, x, <<>>)
    OBVIOUS
  <2>2. f = [x \in S[0] |-> Step(name, p, x, f)]
    BY <2>1
  <2>3. Satisfies(f, name, p, S[0])
    BY <2>2 DEF Satisfies
  <2> HIDE DEF f
  <2>4. QED
    BY <2>3
<1>2. ASSUME NEW n \in 0 .. Top - 1, n \in I
      PROVE  n + 1 \in I
  <2>1. PICK f : Satisfies(f, name, p, S[n])
    BY <1>2
  <2> DEFINE g == [x \in S[n + 1] |-> Step(name, p, x, f)]
  <2>2. ASSUME NEW x \in S[n] PROVE g[x] = f[x]
    <3>1. x \in S[n + 1]
      OBVIOUS
    <3>2. f[x] = Step(name, p, x, f)
      BY <2>1 DEF Satisfies
    <3>3. QED
      BY <3>1, <3>2
  <2>3. \A x \in S[n + 1] : Step(name, p, x, g) = Step(name, p, x, f)
    <3> HIDE DEF g
    <3>1. QED
      BY <2>2
  <2>4. g = [x \in S[n + 1] |-> Step(name, p, x, g)]
    BY <2>3
  <2>5. n + 1 \in 0 .. Top
    OBVIOUS
  <2>6. QED
    BY <2>4, <2>5 DEF Satisfies
<1> HIDE DEF I
<1>3. Top \in I
  <2>1. \A n \in 0 .. Top : n \in I
    BY <1>1, <1>2, LevelInduction
  <2>2. QED
    BY <2>1
<1>4. QED
  BY <1>3 DEF I

\* The recursion on numbers: each value depends on the one below it.
LEMMA LevelFunctionExists ==
  ASSUME NEW Top \in Nat, NEW name, NEW p,
         \A f, g : Step(name, p, 0, f) = Step(name, p, 0, g),
         \A f, g : \A n \in 0 .. Top - 1 :
           f[n] = g[n] => Step(name, p, n + 1, f) = Step(name, p, n + 1, g)
  PROVE  \E f : Satisfies(f, name, p, 0 .. Top)
<1> DEFINE S == [n \in 0 .. Top |-> 0 .. n]
<1>1. \A n \in 0 .. Top - 1 : S[n] \subseteq S[n + 1]
  OBVIOUS
<1>2. \A f, g : \A x \in S[0] : Step(name, p, x, f) = Step(name, p, x, g)
  <2>1. \A x \in S[0] : x = 0
    OBVIOUS
  <2>2. QED
    BY <2>1
<1>3. ASSUME NEW f, NEW g, NEW n \in 0 .. Top - 1, \A y \in S[n] : f[y] = g[y],
             NEW x \in S[n + 1]
      PROVE  Step(name, p, x, f) = Step(name, p, x, g)
  <2>1. n \in 0 .. Top /\ n + 1 \in 0 .. Top
    OBVIOUS
  <2>4. x \in 0 .. n + 1 /\ \A y \in 0 .. n : f[y] = g[y]
    BY <1>3, <2>1
  <2>2. CASE x = 0
    BY <2>2
  <2>3. CASE x # 0
    <3>1. x - 1 \in 0 .. Top - 1 /\ f[x - 1] = g[x - 1]
      BY <2>4, <2>3
    <3>2. Step(name, p, x - 1 + 1, f) = Step(name, p, x - 1 + 1, g)
      BY <3>1
    <3>3. QED
      BY <2>4, <3>2
  <2>5. QED
    BY <2>2, <2>3
<1>4. S[Top] = 0 .. Top
  OBVIOUS
<1> HIDE DEF S
<1>5. \E f : Satisfies(f, name, p, S[Top])
  BY <1>1, <1>2, <1>3, RecursiveFunctionExists
<1>6. QED
  BY <1>4, <1>5

-----------------------------------------------------------------------------
(***************************************************************************)
(* Each recursive definition satisfies its equation                        *)
(***************************************************************************)

\* create of one leaf: a path to the leaf, with Zero siblings to its right.
LEMMA CreateOneDef ==
  ASSUME NEW leaf, NEW depth \in Levels
  PROVE  CreateOne(leaf, depth) =
           IF depth = 0 THEN Leaf(leaf)
           ELSE Node(CreateOne(leaf, depth - 1), Zero(depth - 1))
<1> DEFINE Rec(f) == f = [level \in Levels |->
                            IF level = 0 THEN Leaf(leaf)
                            ELSE Node(f[level - 1], Zero(level - 1))]
           create == CHOOSE f : Rec(f)
<1>1. \E f : Satisfies(f, "create", leaf, 0 .. Depth)
  <2>1. \A f, g : CreateStep(leaf, 0, f) = CreateStep(leaf, 0, g)
    BY DEF CreateStep
  <2>2. \A f, g : \A n \in 0 .. Depth - 1 :
          f[n] = g[n] => CreateStep(leaf, n + 1, f) = CreateStep(leaf, n + 1, g)
    BY DEF CreateStep
  <2>3. \A x, f : Step("create", leaf, x, f) = CreateStep(leaf, x, f)
    BY DEF Step
  <2>4. \A f, g : Step("create", leaf, 0, f) = Step("create", leaf, 0, g)
    BY <2>1, <2>3
  <2>5. \A f, g : \A n \in 0 .. Depth - 1 :
          f[n] = g[n] => Step("create", leaf, n + 1, f) = Step("create", leaf, n + 1, g)
    BY <2>2, <2>3
  <2>6. QED
    BY <2>4, <2>5, DepthAssumption, LevelFunctionExists
<1>2. \E f : Rec(f)
  <2>1. \A x, f : Step("create", leaf, x, f) = CreateStep(leaf, x, f)
    BY DEF Step
  <2>2. PICK f : f = [x \in 0 .. Depth |-> Step("create", leaf, x, f)]
    BY <1>1 DEF Satisfies
  <2>3. f = [x \in 0 .. Depth |-> CreateStep(leaf, x, f)]
    BY <2>1, <2>2
  <2>4. QED
    BY <2>3 DEF CreateStep, Levels
<1>3. Rec(create)
  BY <1>2
<1>4. \A d : CreateOne(leaf, d) = create[d]
  BY DEF CreateOne
<1> HIDE DEF create
<1>5. depth # 0 => depth - 1 \in Levels
  BY DepthAssumption DEF Levels
<1>6. QED
  BY <1>3, <1>4, <1>5

\* The equation of zerohashes holds at every height.
LEMMA ZeroHashesDef ==
  \A i \in 0 .. Depth - 1 :
    zerohashes[i] = IF i = 0 THEN ZeroBytes ELSE Sha256(zerohashes[i - 1], zerohashes[i - 1])
<1> DEFINE Rec(f) == f = [i \in 0 .. Depth - 1 |->
                            IF i = 0 THEN ZeroBytes ELSE Sha256(f[i - 1], f[i - 1])]
<1>1. \E f : Satisfies(f, "zero", 0, 0 .. Depth - 1)
  <2>1. \A f, g : ZeroStep(0, 0, f) = ZeroStep(0, 0, g)
    BY DEF ZeroStep
  <2>2. \A f, g : \A n \in 0 .. Depth - 1 - 1 :
          f[n] = g[n] => ZeroStep(0, n + 1, f) = ZeroStep(0, n + 1, g)
    BY DEF ZeroStep
  <2>3. Depth - 1 \in Nat
    BY DepthAssumption
  <2>4. \A x, f : Step("zero", 0, x, f) = ZeroStep(0, x, f)
    BY DEF Step
  <2>5. \A f, g : Step("zero", 0, 0, f) = Step("zero", 0, 0, g)
    BY <2>1, <2>4
  <2>6. \A f, g : \A n \in 0 .. Depth - 1 - 1 :
          f[n] = g[n] => Step("zero", 0, n + 1, f) = Step("zero", 0, n + 1, g)
    BY <2>2, <2>4
  <2>7. QED
    BY <2>5, <2>6, <2>3, LevelFunctionExists
<1>2. \E f : Rec(f)
  <2>1. \A x, f : Step("zero", 0, x, f) = ZeroStep(0, x, f)
    BY DEF Step
  <2>2. PICK f : f = [x \in 0 .. Depth - 1 |-> Step("zero", 0, x, f)]
    BY <1>1 DEF Satisfies
  <2>3. f = [x \in 0 .. Depth - 1 |-> ZeroStep(0, x, f)]
    BY <2>1, <2>2
  <2>4. QED
    BY <2>3 DEF ZeroStep
<1>3. Rec(zerohashes)
  BY <1>2 DEF zerohashes
<1>4. QED
  BY <1>3

\* The hashes of a height are pairs of hashes of the height below.
LEMMA HashDef ==
  \A level \in Levels :
    Hash[level] =
      IF level = 0 THEN {ZeroBytes} \union {DepositRoot(i) : i \in 0 .. MaxDeposits - 1}
      ELSE {"sha256"} \X Hash[level - 1] \X Hash[level - 1]
<1> DEFINE Rec(f) ==
      f = [level \in Levels |->
             IF level = 0
             THEN {ZeroBytes} \union {DepositRoot(i) : i \in 0 .. MaxDeposits - 1}
             ELSE LET below == f[level - 1] IN {"sha256"} \X below \X below]
<1>1. \E f : Satisfies(f, "hash", 0, 0 .. Depth)
  <2>1. \A f, g : HashStep(0, 0, f) = HashStep(0, 0, g)
    BY DEF HashStep
  <2>2. \A f, g : \A n \in 0 .. Depth - 1 :
          f[n] = g[n] => HashStep(0, n + 1, f) = HashStep(0, n + 1, g)
    BY DEF HashStep
  <2>3. \A x, f : Step("hash", 0, x, f) = HashStep(0, x, f)
    BY DEF Step
  <2>4. \A f, g : Step("hash", 0, 0, f) = Step("hash", 0, 0, g)
    BY <2>1, <2>3
  <2>5. \A f, g : \A n \in 0 .. Depth - 1 :
          f[n] = g[n] => Step("hash", 0, n + 1, f) = Step("hash", 0, n + 1, g)
    BY <2>2, <2>3
  <2>6. QED
    BY <2>4, <2>5, DepthAssumption, LevelFunctionExists
<1>2. \E f : Rec(f)
  <2>1. \A x, f : Step("hash", 0, x, f) = HashStep(0, x, f)
    BY DEF Step
  <2>2. PICK f : f = [x \in 0 .. Depth |-> Step("hash", 0, x, f)]
    BY <1>1 DEF Satisfies
  <2>3. f = [x \in 0 .. Depth |-> HashStep(0, x, f)]
    BY <2>1, <2>2
  <2>4. QED
    BY <2>3 DEF HashStep, Levels
<1>3. Rec(Hash)
  BY <1>2 DEF Hash
<1>4. QED
  BY <1>3

\* The layers of the contract's tree, each hashed from the layer below.
LEMMA LayerDef ==
  ASSUME NEW c, NEW level \in Levels, NEW i \in 0 .. 2^(Depth - level) - 1
  PROVE  Layer(c)[level][i] =
           IF level = 0 THEN IF i < c THEN DepositRoot(i) ELSE ZeroBytes
           ELSE Sha256(Layer(c)[level - 1][2 * i], Layer(c)[level - 1][2 * i + 1])
<1> DEFINE Rec(f) ==
      f = [lv \in Levels |->
             [j \in 0 .. 2^(Depth - lv) - 1 |->
                IF lv = 0 THEN IF j < c THEN DepositRoot(j) ELSE ZeroBytes
                ELSE Sha256(f[lv - 1][2 * j], f[lv - 1][2 * j + 1])]]
<1>1. \E f : Satisfies(f, "layer", c, 0 .. Depth)
  <2>1. \A f, g : LayerStep(c, 0, f) = LayerStep(c, 0, g)
    BY DEF LayerStep
  <2>2. \A f, g : \A n \in 0 .. Depth - 1 :
          f[n] = g[n] => LayerStep(c, n + 1, f) = LayerStep(c, n + 1, g)
    BY DEF LayerStep
  <2>3. \A x, f : Step("layer", c, x, f) = LayerStep(c, x, f)
    BY DEF Step
  <2>4. \A f, g : Step("layer", c, 0, f) = Step("layer", c, 0, g)
    BY <2>1, <2>3
  <2>5. \A f, g : \A n \in 0 .. Depth - 1 :
          f[n] = g[n] => Step("layer", c, n + 1, f) = Step("layer", c, n + 1, g)
    BY <2>2, <2>3
  <2>6. QED
    BY <2>4, <2>5, DepthAssumption, LevelFunctionExists
<1>2. \E f : Rec(f)
  <2>1. \A x, f : Step("layer", c, x, f) = LayerStep(c, x, f)
    BY DEF Step
  <2>2. PICK f : f = [x \in 0 .. Depth |-> Step("layer", c, x, f)]
    BY <1>1 DEF Satisfies
  <2>3. f = [x \in 0 .. Depth |-> LayerStep(c, x, f)]
    BY <2>1, <2>2
  <2>4. QED
    BY <2>3 DEF LayerStep, Levels
<1>3. Rec(Layer(c))
  BY <1>2 DEF Layer
<1>4. Layer(c)[level] =
        [j \in 0 .. 2^(Depth - level) - 1 |->
           IF level = 0 THEN IF j < c THEN DepositRoot(j) ELSE ZeroBytes
           ELSE Sha256(Layer(c)[level - 1][2 * j], Layer(c)[level - 1][2 * j + 1])]
  BY <1>3, Zenon
<1> HIDE DEF Rec
<1>5. QED
  BY <1>4

\* What the proofs need to know of the levels of a tree.
LEMMA LevelFacts ==
  /\ Depth \in Nat /\ Depth - 1 \in Nat /\ Depth # 0
  /\ 0 \in Levels /\ Depth \in Levels
  /\ \A n \in Levels : n \in Nat /\ n \in 0 .. Depth
  /\ \A n \in 0 .. Depth - 1 : n \in Levels /\ n + 1 \in Levels /\ n + 1 # 0 /\ n + 1 - 1 = n
  /\ \A n \in Levels : n # 0 => n - 1 \in Levels /\ n - 1 \in 0 .. Depth - 1 /\ n - 1 + 1 = n
BY DepthAssumption DEF Levels

\* The trees of a height, built from the trees of the height below.
LEMMA TreeOfDef ==
  \A level \in Levels :
    TreeOf[level] =
      {Zero(level)}
        \union [kind : {"Finalized"}, deposit_count : {2^level}, hash : Hash[level]]
        \union IF level = 0 THEN [kind : {"Leaf"}, hash : Hash[0]]
               ELSE [kind : {"Node"}, left : TreeOf[level - 1], right : TreeOf[level - 1]]
<1> DEFINE Rec(f) ==
      f = [level \in Levels |->
             {Zero(level)}
               \union [kind : {"Finalized"}, deposit_count : {2^level}, hash : Hash[level]]
               \union IF level = 0 THEN [kind : {"Leaf"}, hash : Hash[0]]
                      ELSE LET below == f[level - 1]
                           IN [kind : {"Node"}, left : below, right : below]]
<1>1. \E f : Satisfies(f, "treeOf", 0, 0 .. Depth)
  <2>1. \A f, g : TreeOfStep(0, 0, f) = TreeOfStep(0, 0, g)
    BY DEF TreeOfStep
  <2>2. \A f, g : \A n \in 0 .. Depth - 1 :
          f[n] = g[n] => TreeOfStep(0, n + 1, f) = TreeOfStep(0, n + 1, g)
    BY DEF TreeOfStep
  <2>3. \A x, f : Step("treeOf", 0, x, f) = TreeOfStep(0, x, f)
    BY DEF Step
  <2>4. \A f, g : Step("treeOf", 0, 0, f) = Step("treeOf", 0, 0, g)
    BY <2>1, <2>3
  <2>5. \A f, g : \A n \in 0 .. Depth - 1 :
          f[n] = g[n] => Step("treeOf", 0, n + 1, f) = Step("treeOf", 0, n + 1, g)
    BY <2>2, <2>3
  <2>6. QED
    BY <2>4, <2>5, DepthAssumption, LevelFunctionExists
<1>2. \E f : Rec(f)
  <2>1. \A x, f : Step("treeOf", 0, x, f) = TreeOfStep(0, x, f)
    BY DEF Step
  <2>2. PICK f : f = [x \in 0 .. Depth |-> Step("treeOf", 0, x, f)]
    BY <1>1 DEF Satisfies
  <2>3. f = [x \in 0 .. Depth |-> TreeOfStep(0, x, f)]
    BY <2>1, <2>2
  <2>4. QED
    BY <2>3 DEF TreeOfStep, Levels
<1>3. Rec(TreeOf)
  BY <1>2 DEF TreeOf
<1>4. QED
  BY <1>3, Zenon

\* The trees up to a height are those of the height and those below it.
LEMMA TreeUptoDef ==
  \A level \in Levels :
    TreeUpto[level] = IF level = 0 THEN TreeOf[0] ELSE Joined(TreeOf[level], TreeUpto[level - 1])
<1> DEFINE Rec(f) ==
      f = [level \in Levels |->
             IF level = 0 THEN TreeOf[0] ELSE Joined(TreeOf[level], f[level - 1])]
<1>1. \E f : Satisfies(f, "upto", 0, 0 .. Depth)
  <2>1. \A f, g : UptoStep(0, 0, f) = UptoStep(0, 0, g)
    BY DEF UptoStep
  <2>2. ASSUME NEW f, NEW g, NEW n \in 0 .. Depth - 1, f[n] = g[n]
        PROVE  UptoStep(0, n + 1, f) = UptoStep(0, n + 1, g)
    BY <2>2, LevelFacts DEF UptoStep
  <2>3. \A x, f : Step("upto", 0, x, f) = UptoStep(0, x, f)
    BY DEF Step
  <2>4. \A f, g : Step("upto", 0, 0, f) = Step("upto", 0, 0, g)
    BY <2>1, <2>3
  <2>5. \A f, g : \A n \in 0 .. Depth - 1 :
          f[n] = g[n] => Step("upto", 0, n + 1, f) = Step("upto", 0, n + 1, g)
    BY <2>2, <2>3
  <2>6. QED
    BY <2>4, <2>5, DepthAssumption, LevelFunctionExists
<1>2. \E f : Rec(f)
  <2>1. \A x, f : Step("upto", 0, x, f) = UptoStep(0, x, f)
    BY DEF Step
  <2>2. PICK f : f = [x \in 0 .. Depth |-> Step("upto", 0, x, f)]
    BY <1>1 DEF Satisfies
  <2>3. f = [x \in 0 .. Depth |-> UptoStep(0, x, f)]
    BY <2>1, <2>2
  <2>4. QED
    BY <2>3 DEF UptoStep, Levels
<1>3. Rec(TreeUpto)
  BY <1>2 DEF TreeUpto, Joined
<1>4. QED
  BY <1>3, Zenon

\* A tree of a height is a Zero, a Finalized or, at the bottom, a Leaf, and
\* above the bottom a Node of two trees of the height below.
LEMMA TreeKinds ==
  ASSUME NEW level \in Levels, NEW t \in TreeOf[level]
  PROVE  \/ t = Zero(level)
         \/ \E h \in Hash[level] : t = Finalized(2^level, h)
         \/ level = 0 /\ \E h \in Hash[0] : t = Leaf(h)
         \/ /\ level # 0 /\ level - 1 \in Levels
            /\ \E a, b \in TreeOf[level - 1] : t = Node(a, b)
<1>1. CASE t = Zero(level)
  BY <1>1
<1>2. CASE t \in [kind : {"Finalized"}, deposit_count : {2^level}, hash : Hash[level]]
  <2>1. t.hash \in Hash[level] /\ t = Finalized(2^level, t.hash)
    BY <1>2 DEF Finalized
  <2>2. QED
    BY <2>1
<1>3. CASE level = 0 /\ t \in [kind : {"Leaf"}, hash : Hash[0]]
  <2>1. t.hash \in Hash[0] /\ t = Leaf(t.hash)
    BY <1>3 DEF Leaf
  <2>2. QED
    BY <1>3, <2>1
<1>4. CASE /\ level # 0
           /\ t \in [kind : {"Node"}, left : TreeOf[level - 1], right : TreeOf[level - 1]]
  <2>1. /\ t.left \in TreeOf[level - 1]
        /\ t.right \in TreeOf[level - 1]
        /\ t = Node(t.left, t.right)
    BY <1>4 DEF Node
  <2>2. level - 1 \in Levels
    BY <1>4, DepthAssumption DEF Levels
  <2>3. QED
    BY <1>4, <2>1, <2>2
<1>5. QED
  BY <1>1, <1>2, <1>3, <1>4, TreeOfDef

\* Trees of every such form are trees of the height.
LEMMA TreeForms ==
  ASSUME NEW level \in Levels
  PROVE  /\ Zero(level) \in TreeOf[level]
         /\ \A h \in Hash[level] : Finalized(2^level, h) \in TreeOf[level]
         /\ level = 0 => \A h \in Hash[0] : Leaf(h) \in TreeOf[level]
         /\ level # 0 => \A a, b \in TreeOf[level - 1] : Node(a, b) \in TreeOf[level]
<1>1. Zero(level) \in TreeOf[level]
  BY TreeOfDef
<1>2. ASSUME NEW h \in Hash[level] PROVE Finalized(2^level, h) \in TreeOf[level]
  <2>1. Finalized(2^level, h)
          \in [kind : {"Finalized"}, deposit_count : {2^level}, hash : Hash[level]]
    BY DEF Finalized
  <2>2. QED
    BY <2>1, TreeOfDef
<1>3. ASSUME level = 0, NEW h \in Hash[0] PROVE Leaf(h) \in TreeOf[level]
  <2>1. Leaf(h) \in [kind : {"Leaf"}, hash : Hash[0]]
    BY DEF Leaf
  <2>2. QED
    BY <1>3, <2>1, TreeOfDef
<1>4. ASSUME level # 0, NEW a \in TreeOf[level - 1], NEW b \in TreeOf[level - 1]
      PROVE  Node(a, b) \in TreeOf[level]
  <2>1. Node(a, b) \in [kind : {"Node"}, left : TreeOf[level - 1], right : TreeOf[level - 1]]
    BY DEF Node
  <2>2. QED
    BY <1>4, <2>1, TreeOfDef
<1>5. QED
  BY <1>1, <1>2, <1>3, <1>4

\* The trees up to a height grow with it, and the subtrees of a Node are trees
\* up to the height below: this is the order all functions on trees recur in.
LEMMA TreesNested ==
  /\ \A n \in Levels : TreeOf[n] \subseteq TreeUpto[n]
  /\ \A n \in 0 .. Depth - 1 : TreeUpto[n] \subseteq TreeUpto[n + 1]
  /\ \A t \in TreeUpto[0] : t.kind # "Node"
  /\ \A n \in 0 .. Depth - 1 : \A t \in TreeUpto[n + 1] :
       t.kind = "Node" => t.left \in TreeUpto[n] /\ t.right \in TreeUpto[n]
<1>1. \A n \in Levels : TreeOf[n] \subseteq TreeUpto[n]
  BY TreeUptoDef DEF Joined
<1>2. \A n \in 0 .. Depth - 1 : n \in Levels /\ n + 1 \in Levels /\ n + 1 # 0 /\ n + 1 - 1 = n
  BY LevelFacts
<1>3. ASSUME NEW n \in 0 .. Depth - 1
      PROVE  TreeUpto[n + 1] = TreeOf[n + 1] \union TreeUpto[n]
  <2>1. TreeUpto[n + 1] = Joined(TreeOf[n + 1], TreeUpto[n])
    BY <1>2, TreeUptoDef
  <2>2. QED
    BY <2>1 DEF Joined
<1>4. ASSUME NEW t \in TreeUpto[0] PROVE t.kind # "Node"
  <2>1. 0 \in Levels /\ t \in TreeOf[0]
    BY TreeUptoDef, LevelFacts
  <2>2. QED
    BY <2>1, TreeKinds DEF Zero, Finalized, Leaf
<1>5. ASSUME NEW n \in 0 .. Depth - 1, NEW t \in TreeOf[n + 1], t.kind = "Node"
      PROVE  t.left \in TreeUpto[n] /\ t.right \in TreeUpto[n]
  <2>1. PICK a \in TreeOf[n], b \in TreeOf[n] : t = Node(a, b)
    BY <1>2, <1>5, TreeKinds DEF Zero, Finalized, Leaf
  <2>2. QED
    BY <1>1, <1>2, <2>1 DEF Node
<1> DEFINE I == {n \in 0 .. Depth : \A t \in TreeUpto[n] : t.kind = "Node" =>
                   n # 0 /\ t.left \in TreeUpto[n - 1] /\ t.right \in TreeUpto[n - 1]}
<1>6. 0 \in I
  BY <1>4, DepthAssumption
<1>7. ASSUME NEW n \in 0 .. Depth - 1, n \in I PROVE n + 1 \in I
  <2>1. ASSUME NEW t \in TreeUpto[n + 1], t.kind = "Node"
        PROVE  t.left \in TreeUpto[n] /\ t.right \in TreeUpto[n]
    <3>1. CASE t \in TreeOf[n + 1]
      BY <1>5, <2>1, <3>1
    <3>2. CASE t \in TreeUpto[n]
      <4>1. n # 0 /\ t.left \in TreeUpto[n - 1] /\ t.right \in TreeUpto[n - 1]
        BY <1>7, <2>1, <3>2
      <4>2. n - 1 \in 0 .. Depth - 1 /\ n - 1 + 1 = n
        BY <4>1, LevelFacts
      <4>3. TreeUpto[n - 1] \subseteq TreeUpto[n]
        BY <1>3, <4>2
      <4>4. QED
        BY <4>1, <4>3
    <3>3. QED
      BY <1>3, <3>1, <3>2
  <2>2. n + 1 \in 0 .. Depth /\ n + 1 # 0 /\ n + 1 - 1 = n
    BY LevelFacts
  <2>3. QED
    BY <2>1, <2>2
<1> HIDE DEF I
<1>8. Depth \in Nat
  BY DepthAssumption
<1>9. \A n \in 0 .. Depth : n \in I
  BY <1>6, <1>7, <1>8, LevelInduction
<1>10. ASSUME NEW n \in 0 .. Depth - 1, NEW t \in TreeUpto[n + 1], t.kind = "Node"
       PROVE  t.left \in TreeUpto[n] /\ t.right \in TreeUpto[n]
  <2>1. n + 1 \in I /\ n + 1 - 1 = n
    BY <1>8, <1>9
  <2>2. QED
    BY <1>10, <2>1 DEF I
<1>11. QED
  BY <1>1, <1>3, <1>4, <1>10

\* Every tree is a tree of some height.
LEMMA TreeHasLevel ==
  \A t \in Tree : \E level \in Levels : t \in TreeOf[level]
<1> DEFINE I == {n \in 0 .. Depth : \A t \in TreeUpto[n] : \E level \in Levels : t \in TreeOf[level]}
<1>1. 0 \in I
  BY LevelFacts, TreeUptoDef
<1>2. ASSUME NEW n \in 0 .. Depth - 1, n \in I PROVE n + 1 \in I
  <2>1. n + 1 \in 0 .. Depth /\ n + 1 \in Levels /\ n + 1 # 0 /\ n + 1 - 1 = n
    BY LevelFacts
  <2>2. TreeUpto[n + 1] = Joined(TreeOf[n + 1], TreeUpto[n])
    BY <2>1, TreeUptoDef
  <2>3. \A t \in TreeUpto[n + 1] : \E level \in Levels : t \in TreeOf[level]
    BY <1>2, <2>1, <2>2 DEF Joined
  <2>4. QED
    BY <2>1, <2>3
<1> HIDE DEF I
<1>3. Depth \in I
  BY <1>1, <1>2, LevelFacts, LevelInduction
<1>4. QED
  BY <1>3 DEF I, Tree

\* Trees of all heights are trees, and so are the subtrees of a Node.
LEMMA TreesClosed ==
  /\ \A level \in Levels : TreeOf[level] \subseteq Tree /\ TreeUpto[level] \subseteq Tree
  /\ \A t \in Tree : t.kind = "Node" => t.left \in Tree /\ t.right \in Tree
  /\ \A t \in Tree : t.kind \in {"Zero", "Leaf", "Finalized", "Node"}
  /\ \A t \in Tree : t.kind = "Zero" => t.n \in Nat /\ t.n <= Depth
<1> DEFINE I == {n \in 0 .. Depth : TreeUpto[Depth - n] \subseteq Tree}
<1>1. 0 \in I
  BY LevelFacts DEF Tree
<1>2. ASSUME NEW n \in 0 .. Depth - 1, n \in I PROVE n + 1 \in I
  <2>1. Depth - (n + 1) \in 0 .. Depth - 1 /\ Depth - (n + 1) + 1 = Depth - n
    BY LevelFacts
  <2>2. TreeUpto[Depth - (n + 1)] \subseteq TreeUpto[Depth - n]
    BY <2>1, TreesNested
  <2>3. n + 1 \in 0 .. Depth
    BY LevelFacts
  <2>4. QED
    BY <1>2, <2>2, <2>3
<1> HIDE DEF I
<1>3. \A n \in 0 .. Depth : n \in I
  BY <1>1, <1>2, LevelFacts, LevelInduction
<1>4. ASSUME NEW level \in Levels PROVE TreeUpto[level] \subseteq Tree
  <2>1. Depth - level \in 0 .. Depth /\ Depth - (Depth - level) = level
    BY LevelFacts
  <2>2. Depth - level \in I
    BY <1>3, <2>1
  <2>3. TreeUpto[Depth - (Depth - level)] \subseteq Tree
    BY <2>2 DEF I
  <2>4. QED
    BY <2>1, <2>3
<1>5. ASSUME NEW t \in Tree, t.kind = "Node" PROVE t.left \in Tree /\ t.right \in Tree
  <2>1. Depth - 1 \in 0 .. Depth - 1 /\ Depth - 1 + 1 = Depth /\ Depth - 1 \in Levels
    BY LevelFacts
  <2>2. t.left \in TreeUpto[Depth - 1] /\ t.right \in TreeUpto[Depth - 1]
    BY <1>5, <2>1, TreesNested DEF Tree
  <2>3. QED
    BY <1>4, <2>1, <2>2
<1>6. ASSUME NEW t \in Tree
      PROVE  /\ t.kind \in {"Zero", "Leaf", "Finalized", "Node"}
             /\ t.kind = "Zero" => t.n \in Nat /\ t.n <= Depth
  <2>1. PICK level \in Levels : t \in TreeOf[level]
    BY TreeHasLevel
  <2>2. level \in Nat /\ level <= Depth
    BY LevelFacts
  <2>3. QED
    BY <2>1, <2>2, TreeKinds DEF Zero, Leaf, Finalized, Node
<1>7. QED
  BY <1>4, <1>5, <1>6, TreesNested

\* get_root hashes the roots of the children, down to the hashes of the leaves.
LEMMA GetRootDef ==
  \A t \in Tree :
    GetRoot(t) =
      CASE t.kind = "Node" -> Sha256(GetRoot(t.left), GetRoot(t.right))
        [] t.kind = "Zero" /\ t.n < Depth -> zerohashes[t.n]
        [] t.kind = "Zero" /\ t.n = Depth ->
             Sha256(zerohashes[Depth - 1], zerohashes[Depth - 1])
        [] t.kind \in {"Leaf", "Finalized"} -> t.hash
<1> DEFINE Rec(f) ==
      f = [t \in Tree |->
             CASE t.kind = "Node" -> Sha256(f[t.left], f[t.right])
               [] t.kind = "Zero" /\ t.n < Depth -> zerohashes[t.n]
               [] t.kind = "Zero" /\ t.n = Depth ->
                    Sha256(zerohashes[Depth - 1], zerohashes[Depth - 1])
               [] t.kind \in {"Leaf", "Finalized"} -> t.hash]
           fun == CHOOSE f : Rec(f)
<1>0. ASSUME NEW f, NEW g, NEW x \in Tree, x.kind # "Node"
      PROVE  RootStep(0, x, f) = RootStep(0, x, g)
  <2>1. CASE x.kind = "Zero" /\ x.n < Depth /\ x.n # Depth
    BY <2>1 DEF RootStep
  <2>2. CASE x.kind = "Zero" /\ x.n = Depth /\ ~(x.n < Depth)
    BY <2>2 DEF RootStep
  <2>3. CASE x.kind \in {"Leaf", "Finalized"}
    BY <2>3 DEF RootStep
  <2>4. x.kind \in {"Zero", "Leaf", "Finalized"}
    BY <1>0, TreesClosed
  <2>5. x.kind = "Zero" => x.n \in Nat /\ x.n <= Depth
    BY TreesClosed
  <2>6. x.kind = "Zero" =>
          \/ x.n < Depth /\ x.n # Depth
          \/ x.n = Depth /\ ~(x.n < Depth)
    BY <2>5, LevelFacts
  <2>7. QED
    BY <2>1, <2>2, <2>3, <2>4, <2>6
<1>1. \E f : Satisfies(f, "root", 0, TreeUpto[Depth])
  <2>1. ASSUME NEW f, NEW g, NEW x \in TreeUpto[0]
        PROVE  RootStep(0, x, f) = RootStep(0, x, g)
    <3>1. x \in Tree /\ x.kind # "Node"
      BY TreesNested, TreesClosed, LevelFacts
    <3>2. QED
      BY <3>1, <1>0
  <2>2. ASSUME NEW f, NEW g, NEW n \in 0 .. Depth - 1,
               \A y \in TreeUpto[n] : f[y] = g[y], NEW x \in TreeUpto[n + 1]
        PROVE  RootStep(0, x, f) = RootStep(0, x, g)
    <3>1. CASE x.kind = "Node"
      <4>1. f[x.left] = g[x.left] /\ f[x.right] = g[x.right]
        BY <2>2, <3>1, TreesNested
      <4>2. QED
        BY <3>1, <4>1 DEF RootStep
    <3>2. CASE x.kind # "Node"
      <4>1. x \in Tree
        BY TreesClosed, LevelFacts
      <4>2. QED
        BY <3>2, <4>1, <1>0
    <3>3. QED
      BY <3>1, <3>2
  <2>3. \A x, f : Step("root", 0, x, f) = RootStep(0, x, f)
    BY DEF Step
  <2>4. \A f, g : \A x \in TreeUpto[0] : Step("root", 0, x, f) = Step("root", 0, x, g)
    BY <2>1, <2>3
  <2>5. ASSUME NEW f, NEW g, NEW n \in 0 .. Depth - 1, \A y \in TreeUpto[n] : f[y] = g[y],
               NEW x \in TreeUpto[n + 1]
        PROVE  Step("root", 0, x, f) = Step("root", 0, x, g)
    BY <2>2, <2>3, <2>5
  <2>6. QED
    BY <2>4, <2>5, TreesNested, LevelFacts, RecursiveFunctionExists
<1>2. \E f : Rec(f)
  <2>1. \A x, f : Step("root", 0, x, f) = RootStep(0, x, f)
    BY DEF Step
  <2>2. PICK f : f = [x \in TreeUpto[Depth] |-> Step("root", 0, x, f)]
    BY <1>1 DEF Satisfies
  <2>3. f = [x \in TreeUpto[Depth] |-> RootStep(0, x, f)]
    BY <2>1, <2>2
  <2>4. QED
    BY <2>3 DEF RootStep, Tree
<1>3. Rec(fun)
  BY <1>2
<1>4. \A top : GetRoot(top) = fun[top]
  BY DEF GetRoot
<1> HIDE DEF fun
<1>5. QED
  BY <1>3, <1>4, TreesClosed

\* is_full looks at the right child only.
LEMMA IsFullDef ==
  \A t \in Tree :
    IsFull(t) <=>
      (\/ t.kind \in {"Leaf", "Finalized"}
       \/ t.kind = "Node" /\ IsFull(t.right))
<1> DEFINE Rec(f) ==
      f = [t \in Tree |->
             \/ t.kind \in {"Leaf", "Finalized"}
             \/ t.kind = "Node" /\ f[t.right]]
           fun == CHOOSE f : Rec(f)
<1>1. \E f : Satisfies(f, "full", 0, TreeUpto[Depth])
  <2>1. ASSUME NEW f, NEW g, NEW x \in TreeUpto[0]
        PROVE  FullStep(0, x, f) = FullStep(0, x, g)
    BY TreesNested, TreesClosed, LevelFacts DEF FullStep
  <2>2. ASSUME NEW f, NEW g, NEW n \in 0 .. Depth - 1,
               \A y \in TreeUpto[n] : f[y] = g[y], NEW x \in TreeUpto[n + 1]
        PROVE  FullStep(0, x, f) = FullStep(0, x, g)
    <3>1. CASE x.kind = "Node"
      <4>1. f[x.left] = g[x.left] /\ f[x.right] = g[x.right]
        BY <2>2, <3>1, TreesNested
      <4>2. QED
        BY <3>1, <4>1 DEF FullStep
    <3>2. CASE x.kind # "Node"
      <4>1. x \in Tree
        BY TreesClosed, LevelFacts
      <4>2. QED
        BY <3>2, <4>1, TreesClosed, LevelFacts DEF FullStep
    <3>3. QED
      BY <3>1, <3>2
  <2>3. \A x, f : Step("full", 0, x, f) = FullStep(0, x, f)
    BY DEF Step
  <2>4. \A f, g : \A x \in TreeUpto[0] : Step("full", 0, x, f) = Step("full", 0, x, g)
    BY <2>1, <2>3
  <2>5. ASSUME NEW f, NEW g, NEW n \in 0 .. Depth - 1, \A y \in TreeUpto[n] : f[y] = g[y],
               NEW x \in TreeUpto[n + 1]
        PROVE  Step("full", 0, x, f) = Step("full", 0, x, g)
    BY <2>2, <2>3, <2>5
  <2>6. QED
    BY <2>4, <2>5, TreesNested, LevelFacts, RecursiveFunctionExists
<1>2. \E f : Rec(f)
  <2>1. \A x, f : Step("full", 0, x, f) = FullStep(0, x, f)
    BY DEF Step
  <2>2. PICK f : f = [x \in TreeUpto[Depth] |-> Step("full", 0, x, f)]
    BY <1>1 DEF Satisfies
  <2>3. f = [x \in TreeUpto[Depth] |-> FullStep(0, x, f)]
    BY <2>1, <2>2
  <2>4. QED
    BY <2>3 DEF FullStep, Tree
<1>3. Rec(fun)
  BY <1>2
<1>4. \A top : IsFull(top) = fun[top]
  BY DEF IsFull
<1> HIDE DEF fun
<1>5. QED
  BY <1>3, <1>4, TreesClosed

\* get_finalized collects hashes and counts from left to right.
LEMMA GetFinalizedDef ==
  \A t \in Tree :
    GetFinalized(t) =
      CASE t.kind = "Node" ->
             [result |-> GetFinalized(t.left).result \o GetFinalized(t.right).result,
              count |-> GetFinalized(t.left).count + GetFinalized(t.right).count]
        [] t.kind = "Finalized" -> [result |-> <<t.hash>>, count |-> t.deposit_count]
        [] OTHER -> [result |-> <<>>, count |-> 0]
<1> DEFINE Rec(f) ==
      f = [t \in Tree |->
             CASE t.kind = "Node" ->
                    LET left == f[t.left]
                        right == f[t.right]
                    IN [result |-> left.result \o right.result, count |-> left.count + right.count]
               [] t.kind = "Finalized" -> [result |-> <<t.hash>>, count |-> t.deposit_count]
               [] OTHER -> [result |-> <<>>, count |-> 0]]
           fun == CHOOSE f : Rec(f)
<1>1. \E f : Satisfies(f, "finalized", 0, TreeUpto[Depth])
  <2>1. ASSUME NEW f, NEW g, NEW x \in TreeUpto[0]
        PROVE  FinalizedStep(0, x, f) = FinalizedStep(0, x, g)
    BY TreesNested, TreesClosed, LevelFacts DEF FinalizedStep
  <2>2. ASSUME NEW f, NEW g, NEW n \in 0 .. Depth - 1,
               \A y \in TreeUpto[n] : f[y] = g[y], NEW x \in TreeUpto[n + 1]
        PROVE  FinalizedStep(0, x, f) = FinalizedStep(0, x, g)
    <3>1. CASE x.kind = "Node"
      <4>1. f[x.left] = g[x.left] /\ f[x.right] = g[x.right]
        BY <2>2, <3>1, TreesNested
      <4>2. QED
        BY <3>1, <4>1 DEF FinalizedStep
    <3>2. CASE x.kind # "Node"
      <4>1. x \in Tree
        BY TreesClosed, LevelFacts
      <4>2. QED
        BY <3>2, <4>1, TreesClosed, LevelFacts DEF FinalizedStep
    <3>3. QED
      BY <3>1, <3>2
  <2>3. \A x, f : Step("finalized", 0, x, f) = FinalizedStep(0, x, f)
    BY DEF Step
  <2>4. \A f, g : \A x \in TreeUpto[0] : Step("finalized", 0, x, f) = Step("finalized", 0, x, g)
    BY <2>1, <2>3
  <2>5. ASSUME NEW f, NEW g, NEW n \in 0 .. Depth - 1, \A y \in TreeUpto[n] : f[y] = g[y],
               NEW x \in TreeUpto[n + 1]
        PROVE  Step("finalized", 0, x, f) = Step("finalized", 0, x, g)
    BY <2>2, <2>3, <2>5
  <2>6. QED
    BY <2>4, <2>5, TreesNested, LevelFacts, RecursiveFunctionExists
<1>2. \E f : Rec(f)
  <2>1. \A x, f : Step("finalized", 0, x, f) = FinalizedStep(0, x, f)
    BY DEF Step
  <2>2. PICK f : f = [x \in TreeUpto[Depth] |-> Step("finalized", 0, x, f)]
    BY <1>1 DEF Satisfies
  <2>3. f = [x \in TreeUpto[Depth] |-> FinalizedStep(0, x, f)]
    BY <2>1, <2>2
  <2>4. QED
    BY <2>3 DEF FinalizedStep, Tree
<1>3. Rec(fun)
  BY <1>2
<1>4. \A top : GetFinalized(top) = fun[top]
  BY DEF GetFinalized
<1> HIDE DEF fun
<1>5. QED
  BY <1>3, <1>4, TreesClosed

\* The leaves of a Node are those of its children.
LEMMA LeavesOfDef ==
  \A t \in Tree :
    LeavesOf(t) =
      CASE t.kind = "Node" -> LeavesOf(t.left) + LeavesOf(t.right)
        [] t.kind = "Leaf" -> 1
        [] OTHER -> 0
<1> DEFINE Rec(f) ==
      f = [t \in Tree |->
             CASE t.kind = "Node" -> f[t.left] + f[t.right]
               [] t.kind = "Leaf" -> 1
               [] OTHER -> 0]
           fun == CHOOSE f : Rec(f)
<1>1. \E f : Satisfies(f, "leaves", 0, TreeUpto[Depth])
  <2>1. ASSUME NEW f, NEW g, NEW x \in TreeUpto[0]
        PROVE  LeavesStep(0, x, f) = LeavesStep(0, x, g)
    BY TreesNested, TreesClosed, LevelFacts DEF LeavesStep
  <2>2. ASSUME NEW f, NEW g, NEW n \in 0 .. Depth - 1,
               \A y \in TreeUpto[n] : f[y] = g[y], NEW x \in TreeUpto[n + 1]
        PROVE  LeavesStep(0, x, f) = LeavesStep(0, x, g)
    <3>1. CASE x.kind = "Node"
      <4>1. f[x.left] = g[x.left] /\ f[x.right] = g[x.right]
        BY <2>2, <3>1, TreesNested
      <4>2. QED
        BY <3>1, <4>1 DEF LeavesStep
    <3>2. CASE x.kind # "Node"
      <4>1. x \in Tree
        BY TreesClosed, LevelFacts
      <4>2. QED
        BY <3>2, <4>1, TreesClosed, LevelFacts DEF LeavesStep
    <3>3. QED
      BY <3>1, <3>2
  <2>3. \A x, f : Step("leaves", 0, x, f) = LeavesStep(0, x, f)
    BY DEF Step
  <2>4. \A f, g : \A x \in TreeUpto[0] : Step("leaves", 0, x, f) = Step("leaves", 0, x, g)
    BY <2>1, <2>3
  <2>5. ASSUME NEW f, NEW g, NEW n \in 0 .. Depth - 1, \A y \in TreeUpto[n] : f[y] = g[y],
               NEW x \in TreeUpto[n + 1]
        PROVE  Step("leaves", 0, x, f) = Step("leaves", 0, x, g)
    BY <2>2, <2>3, <2>5
  <2>6. QED
    BY <2>4, <2>5, TreesNested, LevelFacts, RecursiveFunctionExists
<1>2. \E f : Rec(f)
  <2>1. \A x, f : Step("leaves", 0, x, f) = LeavesStep(0, x, f)
    BY DEF Step
  <2>2. PICK f : f = [x \in TreeUpto[Depth] |-> Step("leaves", 0, x, f)]
    BY <1>1 DEF Satisfies
  <2>3. f = [x \in TreeUpto[Depth] |-> LeavesStep(0, x, f)]
    BY <2>1, <2>2
  <2>4. QED
    BY <2>3 DEF LeavesStep, Tree
<1>3. Rec(fun)
  BY <1>2
<1>4. \A top : LeavesOf(top) = fun[top]
  BY DEF LeavesOf
<1> HIDE DEF fun
<1>5. QED
  BY <1>3, <1>4, TreesClosed

\* push_leaf goes to the right of a full left child, else to the left.
LEMMA PushLeafDef ==
  ASSUME NEW leaf
  PROVE  \A t \in Tree : \A level \in Levels :
           PushLeaf(t, leaf, level) =
             IF t.kind = "Zero" THEN CreateOne(leaf, level)
             ELSE IF t.kind # "Node" THEN None
             ELSE IF IsFull(t.left) THEN Node(t.left, PushLeaf(t.right, leaf, level - 1))
             ELSE Node(PushLeaf(t.left, leaf, level - 1), t.right)
<1> DEFINE Rec(f) ==
      f = [t \in Tree |->
             [level \in Levels |->
                IF t.kind = "Zero" THEN CreateOne(leaf, level)
                ELSE IF t.kind # "Node" THEN None
                ELSE IF IsFull(t.left) THEN Node(t.left, f[t.right][level - 1])
                ELSE Node(f[t.left][level - 1], t.right)]]
           fun == CHOOSE f : Rec(f)
<1>1. \E f : Satisfies(f, "push", leaf, TreeUpto[Depth])
  <2>1. ASSUME NEW f, NEW g, NEW x \in TreeUpto[0]
        PROVE  PushStep(leaf, x, f) = PushStep(leaf, x, g)
    BY TreesNested, TreesClosed, LevelFacts DEF PushStep
  <2>2. ASSUME NEW f, NEW g, NEW n \in 0 .. Depth - 1,
               \A y \in TreeUpto[n] : f[y] = g[y], NEW x \in TreeUpto[n + 1]
        PROVE  PushStep(leaf, x, f) = PushStep(leaf, x, g)
    <3>1. CASE x.kind = "Node"
      <4>1. f[x.left] = g[x.left] /\ f[x.right] = g[x.right]
        BY <2>2, <3>1, TreesNested
      <4>2. QED
        BY <3>1, <4>1 DEF PushStep
    <3>2. CASE x.kind # "Node"
      <4>1. x \in Tree
        BY TreesClosed, LevelFacts
      <4>2. QED
        BY <3>2, <4>1, TreesClosed, LevelFacts DEF PushStep
    <3>3. QED
      BY <3>1, <3>2
  <2>3. \A x, f : Step("push", leaf, x, f) = PushStep(leaf, x, f)
    BY DEF Step
  <2>4. \A f, g : \A x \in TreeUpto[0] : Step("push", leaf, x, f) = Step("push", leaf, x, g)
    BY <2>1, <2>3
  <2>5. ASSUME NEW f, NEW g, NEW n \in 0 .. Depth - 1, \A y \in TreeUpto[n] : f[y] = g[y],
               NEW x \in TreeUpto[n + 1]
        PROVE  Step("push", leaf, x, f) = Step("push", leaf, x, g)
    BY <2>2, <2>3, <2>5
  <2>6. QED
    BY <2>4, <2>5, TreesNested, LevelFacts, RecursiveFunctionExists
<1>2. \E f : Rec(f)
  <2>1. \A x, f : Step("push", leaf, x, f) = PushStep(leaf, x, f)
    BY DEF Step
  <2>2. PICK f : f = [x \in TreeUpto[Depth] |-> Step("push", leaf, x, f)]
    BY <1>1 DEF Satisfies
  <2>3. f = [x \in TreeUpto[Depth] |-> PushStep(leaf, x, f)]
    BY <2>1, <2>2
  <2>4. QED
    BY <2>3 DEF PushStep, Tree
<1>3. Rec(fun)
  BY <1>2
<1>4. ASSUME NEW top, NEW level PROVE PushLeaf(top, leaf, level) = fun[top][level]
  BY DEF PushLeaf
<1> HIDE DEF fun
<1>5. ASSUME NEW t \in Tree
      PROVE  fun[t] =
                         [level \in Levels |->
                            IF t.kind = "Zero" THEN CreateOne(leaf, level)
                            ELSE IF t.kind # "Node" THEN None
                            ELSE IF IsFull(t.left) THEN Node(t.left, fun[t.right][level - 1])
                            ELSE Node(fun[t.left][level - 1], t.right)]
  BY <1>3, Zenon
<1>6. ASSUME NEW t \in Tree, NEW level \in Levels
      PROVE  fun[t][level] =
               IF t.kind = "Zero" THEN CreateOne(leaf, level)
               ELSE IF t.kind # "Node" THEN None
               ELSE IF IsFull(t.left) THEN Node(t.left, fun[t.right][level - 1])
               ELSE Node(fun[t.left][level - 1], t.right)
  BY <1>5
<1>7. QED
  BY <1>4, <1>6

\* finalize collapses a subtree that the deposits cover, and passes the rest of
\* them on to the right.
LEMMA FinalizeDef ==
  \A t \in Tree : \A level \in Levels : \A deposits \in 0 .. MaxDeposits :
           Finalize(t, deposits, level) =
             IF t.kind # "Node" THEN FinalizeChildless(t)
             ELSE IF 2^level <= deposits THEN Finalized(2^level, GetRoot(t))
             ELSE Node(Finalize(t.left, deposits, level - 1),
                       IF deposits > 2^(level - 1)
                       THEN Finalize(t.right, deposits - 2^(level - 1), level - 1)
                       ELSE t.right)
<1> DEFINE Rec(f) ==
      f = [t \in Tree |->
             [level \in Levels |-> [deposits \in 0 .. MaxDeposits |->
                IF t.kind # "Node" THEN FinalizeChildless(t)
                ELSE IF 2^level <= deposits THEN Finalized(2^level, GetRoot(t))
                ELSE Node(f[t.left][level - 1][deposits],
                          IF deposits > 2^(level - 1)
                          THEN f[t.right][level - 1][deposits - 2^(level - 1)]
                          ELSE t.right)]]]
           fun == CHOOSE f : Rec(f)
<1>1. \E f : Satisfies(f, "finalize", 0, TreeUpto[Depth])
  <2>1. ASSUME NEW f, NEW g, NEW x \in TreeUpto[0]
        PROVE  FinalizeStep(0, x, f) = FinalizeStep(0, x, g)
    BY TreesNested, TreesClosed, LevelFacts DEF FinalizeStep
  <2>2. ASSUME NEW f, NEW g, NEW n \in 0 .. Depth - 1,
               \A y \in TreeUpto[n] : f[y] = g[y], NEW x \in TreeUpto[n + 1]
        PROVE  FinalizeStep(0, x, f) = FinalizeStep(0, x, g)
    <3>1. CASE x.kind = "Node"
      <4>1. f[x.left] = g[x.left] /\ f[x.right] = g[x.right]
        BY <2>2, <3>1, TreesNested
      <4>2. QED
        BY <3>1, <4>1 DEF FinalizeStep
    <3>2. CASE x.kind # "Node"
      <4>1. x \in Tree
        BY TreesClosed, LevelFacts
      <4>2. QED
        BY <3>2, <4>1, TreesClosed, LevelFacts DEF FinalizeStep
    <3>3. QED
      BY <3>1, <3>2
  <2>3. \A x, f : Step("finalize", 0, x, f) = FinalizeStep(0, x, f)
    BY DEF Step
  <2>4. \A f, g : \A x \in TreeUpto[0] : Step("finalize", 0, x, f) = Step("finalize", 0, x, g)
    BY <2>1, <2>3
  <2>5. ASSUME NEW f, NEW g, NEW n \in 0 .. Depth - 1, \A y \in TreeUpto[n] : f[y] = g[y],
               NEW x \in TreeUpto[n + 1]
        PROVE  Step("finalize", 0, x, f) = Step("finalize", 0, x, g)
    BY <2>2, <2>3, <2>5
  <2>6. QED
    BY <2>4, <2>5, TreesNested, LevelFacts, RecursiveFunctionExists
<1>2. \E f : Rec(f)
  <2>1. \A x, f : Step("finalize", 0, x, f) = FinalizeStep(0, x, f)
    BY DEF Step
  <2>2. PICK f : f = [x \in TreeUpto[Depth] |-> Step("finalize", 0, x, f)]
    BY <1>1 DEF Satisfies
  <2>3. f = [x \in TreeUpto[Depth] |-> FinalizeStep(0, x, f)]
    BY <2>1, <2>2
  <2>4. QED
    BY <2>3 DEF FinalizeStep, Tree
<1>3. Rec(fun)
  BY <1>2
<1>4. ASSUME NEW top, NEW level, NEW deposits PROVE Finalize(top, deposits, level) = fun[top][level][deposits]
  BY DEF Finalize
<1> HIDE DEF fun
<1>5. ASSUME NEW t \in Tree
      PROVE  fun[t] =
                         [level \in Levels |-> [deposits \in 0 .. MaxDeposits |->
                            IF t.kind # "Node" THEN FinalizeChildless(t)
                            ELSE IF 2^level <= deposits THEN Finalized(2^level, GetRoot(t))
                            ELSE Node(fun[t.left][level - 1][deposits],
                                      IF deposits > 2^(level - 1)
                                      THEN fun[t.right][level - 1][deposits - 2^(level - 1)]
                                      ELSE t.right)]]
  BY <1>3, Zenon
<1>6. ASSUME NEW t \in Tree, NEW level \in Levels
      PROVE  fun[t][level] =
               [deposits \in 0 .. MaxDeposits |->
                  IF t.kind # "Node" THEN FinalizeChildless(t)
                  ELSE IF 2^level <= deposits THEN Finalized(2^level, GetRoot(t))
                  ELSE Node(fun[t.left][level - 1][deposits],
                            IF deposits > 2^(level - 1)
                            THEN fun[t.right][level - 1][deposits - 2^(level - 1)]
                            ELSE t.right)]
  BY <1>5, Zenon
<1>7. ASSUME NEW t \in Tree, NEW level \in Levels, NEW deposits \in 0 .. MaxDeposits
      PROVE  fun[t][level][deposits] =
               IF t.kind # "Node" THEN FinalizeChildless(t)
               ELSE IF 2^level <= deposits THEN Finalized(2^level, GetRoot(t))
               ELSE Node(fun[t.left][level - 1][deposits],
                         IF deposits > 2^(level - 1)
                         THEN fun[t.right][level - 1][deposits - 2^(level - 1)]
                         ELSE t.right)
  <2> DEFINE val(d) ==
        IF t.kind # "Node" THEN FinalizeChildless(t)
        ELSE IF 2^level <= d THEN Finalized(2^level, GetRoot(t))
        ELSE Node(fun[t.left][level - 1][d],
                  IF d > 2^(level - 1)
                  THEN fun[t.right][level - 1][d - 2^(level - 1)]
                  ELSE t.right)
  <2>1. fun[t][level] = [d \in 0 .. MaxDeposits |-> val(d)]
    BY <1>6, Zenon
  <2> HIDE DEF val
  <2>2. fun[t][level][deposits] = val(deposits)
    BY <2>1
  <2>3. QED
    BY <2>2 DEF val
<1>8. QED
  BY <1>4, <1>7

\* from_snapshot_parts is computed height by height.
LEMMA FromSnapshotPartsDef ==
  ASSUME NEW finalized
  PROVE  \E parts :
           /\ \A count, depth : FromSnapshotParts(finalized, count, depth) = parts[depth][1][count]
           /\ \A level \in Levels : \A i \in 1 .. Len(finalized) + 1 : \A deposits \in 0 .. 2^level :
                parts[level][i][deposits] = PartsAt(finalized, level, i, deposits, parts)
<1> DEFINE Rec(f) ==
      f = [level \in Levels |->
             [i \in 1 .. Len(finalized) + 1 |-> [deposits \in 0 .. 2^level |->
                LET half == 2^(level - 1)
                IN IF i > Len(finalized) \/ deposits = 0 THEN Zero(level)
                   ELSE IF deposits = 2^level THEN Finalized(deposits, finalized[i])
                   ELSE IF deposits <= half
                   THEN Node(f[level - 1][i][deposits], Zero(level - 1))
                   ELSE Node(Finalized(half, finalized[i]),
                             f[level - 1][i + 1][deposits - half])]]]
           parts == CHOOSE f : Rec(f)
<1>1. \E f : Satisfies(f, "parts", finalized, 0 .. Depth)
  <2>1. ASSUME NEW f, NEW g
        PROVE  PartsStep(finalized, 0, f) = PartsStep(finalized, 0, g)
    <3>1. 2^0 = 1
      OBVIOUS
    <3>2. ASSUME NEW i \in 1 .. Len(finalized) + 1, NEW deposits \in 0 .. 2^0
          PROVE  PartsAt(finalized, 0, i, deposits, f) = PartsAt(finalized, 0, i, deposits, g)
      <4>1. deposits = 0 \/ deposits = 2^0
        BY <3>1
      <4>2. QED
        BY <4>1 DEF PartsAt
    <3>3. QED
      BY <3>2 DEF PartsStep
  <2>2. ASSUME NEW f, NEW g, NEW n \in 0 .. Depth - 1, f[n] = g[n]
        PROVE  PartsStep(finalized, n + 1, f) = PartsStep(finalized, n + 1, g)
    <3>1. n + 1 - 1 = n
      BY LevelFacts
    <3>2. ASSUME NEW i, NEW deposits
          PROVE  PartsAt(finalized, n + 1, i, deposits, f) = PartsAt(finalized, n + 1, i, deposits, g)
      BY <2>2, <3>1 DEF PartsAt
    <3>3. QED
      BY <3>2 DEF PartsStep
  <2>3. \A x, f : Step("parts", finalized, x, f) = PartsStep(finalized, x, f)
    BY DEF Step
  <2>4. \A f, g : Step("parts", finalized, 0, f) = Step("parts", finalized, 0, g)
    BY <2>1, <2>3
  <2>5. \A f, g : \A n \in 0 .. Depth - 1 :
          f[n] = g[n] => Step("parts", finalized, n + 1, f) = Step("parts", finalized, n + 1, g)
    BY <2>2, <2>3
  <2>6. QED
    BY <2>4, <2>5, LevelFacts, LevelFunctionExists
<1>2. \E f : Rec(f)
  <2>1. \A x, f : Step("parts", finalized, x, f) = PartsStep(finalized, x, f)
    BY DEF Step
  <2>2. PICK f : f = [x \in 0 .. Depth |-> Step("parts", finalized, x, f)]
    BY <1>1 DEF Satisfies
  <2>3. f = [x \in 0 .. Depth |-> PartsStep(finalized, x, f)]
    BY <2>1, <2>2
  <2>4. QED
    BY <2>3 DEF PartsStep, PartsAt, Levels
<1>3. Rec(parts)
  BY <1>2
<1>4. ASSUME NEW count, NEW depth
      PROVE  FromSnapshotParts(finalized, count, depth) = parts[depth][1][count]
  BY DEF FromSnapshotParts
<1> HIDE DEF parts
<1>5. parts = [level \in Levels |->
                 [i \in 1 .. Len(finalized) + 1 |-> [deposits \in 0 .. 2^level |->
                    PartsAt(finalized, level, i, deposits, parts)]]]
  BY <1>3, Zenon DEF PartsAt
<1>6. ASSUME NEW level \in Levels, NEW i \in 1 .. Len(finalized) + 1,
             NEW deposits \in 0 .. 2^level
      PROVE  parts[level][i][deposits] = PartsAt(finalized, level, i, deposits, parts)
  <2>1. parts[level] =
          [j \in 1 .. Len(finalized) + 1 |-> [d \in 0 .. 2^level |->
             PartsAt(finalized, level, j, d, parts)]]
    BY <1>5, Zenon
  <2>2. parts[level][i] =
          [d \in 0 .. 2^level |-> PartsAt(finalized, level, i, d, parts)]
    BY <2>1, Zenon
  <2>3. QED
    BY <2>2, Zenon
<1>7. QED
  BY <1>4, <1>6

\* generate_proof follows the index and adds a sibling at every height.
LEMMA GenerateProofDef ==
  ASSUME NEW index, NEW level \in Levels, NEW t \in Tree
  PROVE  GenerateProof(t, index, level) =
           IF level = 0 THEN [leaf |-> GetRoot(t), proof |-> <<>>]
           ELSE IF t.kind # "Node" THEN AttributeError
           ELSE Extended(GenerateProof(Child(t, index, level), index, level - 1),
                         GetRoot(Sibling(t, index, level)))
<1> DEFINE Rec(f) ==
      f = [lv \in Levels |->
             [u \in Tree |->
                IF lv = 0 THEN [leaf |-> GetRoot(u), proof |-> <<>>]
                ELSE IF u.kind # "Node" THEN AttributeError
                ELSE LET below == f[lv - 1][Child(u, index, lv)]
                     IN IF below = AttributeError THEN AttributeError
                        ELSE [leaf |-> below.leaf,
                              proof |-> Append(below.proof, GetRoot(Sibling(u, index, lv)))]]]
           generate == CHOOSE f : Rec(f)
<1>1. \E f : Satisfies(f, "proof", index, 0 .. Depth)
  <2>1. \A f, g : ProofStep(index, 0, f) = ProofStep(index, 0, g)
    BY DEF ProofStep, ProofAt
  <2>2. ASSUME NEW f, NEW g, NEW n \in 0 .. Depth - 1, f[n] = g[n]
        PROVE  ProofStep(index, n + 1, f) = ProofStep(index, n + 1, g)
    <3>1. f[n + 1 - 1] = g[n + 1 - 1]
      BY <2>2, LevelFacts
    <3>2. QED
      <4>1. ASSUME NEW u \in Tree
            PROVE  ProofAt(index, n + 1, u, f) = ProofAt(index, n + 1, u, g)
        BY <3>1 DEF ProofAt
      <4>2. QED
        BY <4>1 DEF ProofStep
  <2>3. \A x, f : Step("proof", index, x, f) = ProofStep(index, x, f)
    BY DEF Step
  <2>4. \A f, g : Step("proof", index, 0, f) = Step("proof", index, 0, g)
    BY <2>1, <2>3
  <2>5. \A f, g : \A n \in 0 .. Depth - 1 :
          f[n] = g[n] => Step("proof", index, n + 1, f) = Step("proof", index, n + 1, g)
    BY <2>2, <2>3
  <2>6. QED
    BY <2>4, <2>5, LevelFacts, LevelFunctionExists
<1>2. \E f : Rec(f)
  <2>1. \A x, f : Step("proof", index, x, f) = ProofStep(index, x, f)
    BY DEF Step
  <2>2. PICK f : f = [x \in 0 .. Depth |-> Step("proof", index, x, f)]
    BY <1>1 DEF Satisfies
  <2>3. f = [x \in 0 .. Depth |-> ProofStep(index, x, f)]
    BY <2>1, <2>2
  <2>4. QED
    BY <2>3 DEF ProofStep, ProofAt, Extended, Levels
<1>3. Rec(generate)
  BY <1>2
<1>4. ASSUME NEW top, NEW depth
      PROVE  GenerateProof(top, index, depth) = generate[depth][top]
  BY DEF GenerateProof
<1> HIDE DEF generate
<1> DEFINE val(u) ==
      IF level = 0 THEN [leaf |-> GetRoot(u), proof |-> <<>>]
      ELSE IF u.kind # "Node" THEN AttributeError
      ELSE Extended(generate[level - 1][Child(u, index, level)],
                    GetRoot(Sibling(u, index, level)))
<1>5. generate[level] = [u \in Tree |-> val(u)]
  BY <1>3, Zenon DEF Extended
<1> HIDE DEF val
<1>6. generate[level][t] = val(t)
  BY <1>5
<1>7. QED
  BY <1>4, <1>6 DEF val

\* calculate_root climbs from the bottom, a height per turn.
LEMMA CalculateRootDef ==
  ASSUME NEW finalized, NEW count
  PROVE  \E climb :
           /\ CalculateRoot(finalized, count) = Sha256(climb[Depth].root, ToLeBytes(count))
           /\ \A level \in Levels : climb[level] = ClimbStep(<<finalized, count>>, level, climb)
<1> DEFINE Rec(f) ==
      f = [level \in Levels |->
             IF level = 0 THEN [index |-> Len(finalized), root |-> zerohashes[0]]
             ELSE LET below == f[level - 1]
                  IN IF Bit(count, level - 1) = 1
                     THEN [index |-> below.index - 1,
                           root |-> Sha256(Item(finalized, below.index - 1), below.root)]
                     ELSE [index |-> below.index,
                           root |-> Sha256(below.root, zerohashes[level - 1])]]
           climb == CHOOSE f : Rec(f)
           p == <<finalized, count>>
<1>1. \E f : Satisfies(f, "climb", p, 0 .. Depth)
  <2>1. \A f, g : ClimbStep(p, 0, f) = ClimbStep(p, 0, g)
    BY DEF ClimbStep
  <2>2. ASSUME NEW f, NEW g, NEW n \in 0 .. Depth - 1, f[n] = g[n]
        PROVE  ClimbStep(p, n + 1, f) = ClimbStep(p, n + 1, g)
    <3>1. f[n + 1 - 1] = g[n + 1 - 1]
      BY <2>2, LevelFacts
    <3>2. QED
      BY <3>1 DEF ClimbStep
  <2>3. \A x, f : Step("climb", p, x, f) = ClimbStep(p, x, f)
    BY DEF Step
  <2>4. \A f, g : Step("climb", p, 0, f) = Step("climb", p, 0, g)
    BY <2>1, <2>3
  <2>5. \A f, g : \A n \in 0 .. Depth - 1 :
          f[n] = g[n] => Step("climb", p, n + 1, f) = Step("climb", p, n + 1, g)
    BY <2>2, <2>3
  <2>6. QED
    BY <2>4, <2>5, LevelFacts, LevelFunctionExists
<1>2. \E f : Rec(f)
  <2>1. \A x, f : Step("climb", p, x, f) = ClimbStep(p, x, f)
    BY DEF Step
  <2>2. PICK f : f = [x \in 0 .. Depth |-> Step("climb", p, x, f)]
    BY <1>1 DEF Satisfies
  <2>3. f = [x \in 0 .. Depth |-> ClimbStep(p, x, f)]
    BY <2>1, <2>2
  <2>4. QED
    BY <2>3 DEF ClimbStep, Levels
<1>3. Rec(climb)
  BY <1>2
<1>4. CalculateRoot(finalized, count) = Sha256(climb[Depth].root, ToLeBytes(count))
  BY DEF CalculateRoot
<1> HIDE DEF climb
<1>5. \A level \in Levels : climb[level] = ClimbStep(p, level, climb)
  BY <1>3 DEF ClimbStep
<1>6. QED
  BY <1>4, <1>5

\* merkle_root_from_branch climbs along the branch.
LEMMA MerkleRootFromBranchDef ==
  ASSUME NEW leaf, NEW branch, NEW index, Len(branch) \in Nat
  PROVE  \E climb :
           /\ MerkleRootFromBranch(leaf, branch, index) = climb[Len(branch)]
           /\ \A i \in 0 .. Len(branch) : climb[i] = BranchStep(<<leaf, branch, index>>, i, climb)
<1> DEFINE Rec(f) ==
      f = [i \in 0 .. Len(branch) |->
             IF i = 0 THEN leaf
             ELSE IF Bit(index, i - 1) = 1 THEN Sha256(branch[i], f[i - 1])
             ELSE Sha256(f[i - 1], branch[i])]
           climb == CHOOSE f : Rec(f)
           p == <<leaf, branch, index>>
<1>1. \E f : Satisfies(f, "branch", p, 0 .. Len(branch))
  <2>1. \A f, g : BranchStep(p, 0, f) = BranchStep(p, 0, g)
    BY DEF BranchStep
  <2>2. ASSUME NEW f, NEW g, NEW n \in 0 .. Len(branch) - 1, f[n] = g[n]
        PROVE  BranchStep(p, n + 1, f) = BranchStep(p, n + 1, g)
    <3>1. f[n + 1 - 1] = g[n + 1 - 1]
      BY <2>2
    <3>2. QED
      BY <3>1 DEF BranchStep
  <2>3. \A x, f : Step("branch", p, x, f) = BranchStep(p, x, f)
    BY DEF Step
  <2>4. \A f, g : Step("branch", p, 0, f) = Step("branch", p, 0, g)
    BY <2>1, <2>3
  <2>5. \A f, g : \A n \in 0 .. Len(branch) - 1 :
          f[n] = g[n] => Step("branch", p, n + 1, f) = Step("branch", p, n + 1, g)
    BY <2>2, <2>3
  <2>6. QED
    BY <2>4, <2>5, LevelFunctionExists
<1>2. \E f : Rec(f)
  <2>1. \A x, f : Step("branch", p, x, f) = BranchStep(p, x, f)
    BY DEF Step
  <2>2. PICK f : f = [x \in 0 .. Len(branch) |-> Step("branch", p, x, f)]
    BY <1>1 DEF Satisfies
  <2>3. f = [x \in 0 .. Len(branch) |-> BranchStep(p, x, f)]
    BY <2>1, <2>2
  <2>4. QED
    BY <2>3 DEF BranchStep
<1>3. Rec(climb)
  BY <1>2
<1>4. MerkleRootFromBranch(leaf, branch, index) = climb[Len(branch)]
  BY DEF MerkleRootFromBranch
<1> HIDE DEF climb
<1>5. \A i \in 0 .. Len(branch) : climb[i] = BranchStep(p, i, climb)
  BY <1>3 DEF BranchStep
<1>6. QED
  BY <1>4, <1>5

-----------------------------------------------------------------------------
(***************************************************************************)
(* The tree of c deposits of which f are finalized                         *)
(***************************************************************************)

\* The powers of two that are sizes of subtrees.
LEMMA PowerFacts ==
  /\ \A n \in Levels : 2^n \in Nat \ {0}
  /\ \A n \in Levels : n # 0 => 2^n = 2^(n - 1) + 2^(n - 1)
  /\ 2^0 = 1
  /\ MaxDeposits \in Nat /\ MaxDeposits + 1 = 2^Depth
<1>1. \A n \in Levels : 2^n \in Nat \ {0}
  BY LevelFacts, PowerOfTwo
<1>2. ASSUME NEW n \in Levels, n # 0 PROVE 2^n = 2^(n - 1) + 2^(n - 1)
  <2>1. n - 1 \in Levels /\ n - 1 + 1 = n /\ n - 1 \in Nat
    BY <1>2, LevelFacts
  <2>2. 2^(n - 1 + 1) = 2 * 2^(n - 1)
    BY <2>1, PowerOfTwo
  <2>3. 2^(n - 1) \in Nat
    BY <1>1, <2>1
  <2>4. QED
    BY <2>1, <2>2, <2>3
<1>3. 2^0 = 1
  OBVIOUS
<1>4. 2^Depth \in Nat \ {0}
  BY <1>1, LevelFacts
<1>5. QED
  BY <1>1, <1>2, <1>3, <1>4 DEF MaxDeposits

\* A root is the hash of the roots of the two halves.
LEMMA RootAtDef ==
  ASSUME NEW c, NEW level \in Levels, NEW s \in Nat
  PROVE  RootAt(c, level, s) =
           IF level = 0 THEN IF s < c THEN DepositRoot(s) ELSE ZeroBytes
           ELSE Sha256(RootAt(c, level - 1, s), RootAt(c, level - 1, s + 2^(level - 1)))
<1> DEFINE Rec(f) ==
      f = [l \in Levels |->
             [x \in Nat |-> IF l = 0 THEN IF x < c THEN DepositRoot(x) ELSE ZeroBytes
                            ELSE Sha256(f[l - 1][x], f[l - 1][x + 2^(l - 1)])]]
           root == CHOOSE f : Rec(f)
<1>1. \E f : Satisfies(f, "rootAt", c, 0 .. Depth)
  <2>1. \A f, g : RootAtStep(c, 0, f) = RootAtStep(c, 0, g)
    BY DEF RootAtStep
  <2>2. ASSUME NEW f, NEW g, NEW n \in 0 .. Depth - 1, f[n] = g[n]
        PROVE  RootAtStep(c, n + 1, f) = RootAtStep(c, n + 1, g)
    <3>1. f[n + 1 - 1] = g[n + 1 - 1]
      BY <2>2, LevelFacts
    <3>2. QED
      BY <3>1 DEF RootAtStep
  <2>3. \A x, f : Step("rootAt", c, x, f) = RootAtStep(c, x, f)
    BY DEF Step
  <2>4. \A f, g : Step("rootAt", c, 0, f) = Step("rootAt", c, 0, g)
    BY <2>1, <2>3
  <2>5. \A f, g : \A n \in 0 .. Depth - 1 :
          f[n] = g[n] => Step("rootAt", c, n + 1, f) = Step("rootAt", c, n + 1, g)
    BY <2>2, <2>3
  <2>6. QED
    BY <2>4, <2>5, LevelFacts, LevelFunctionExists
<1>2. \E f : Rec(f)
  <2>1. \A x, f : Step("rootAt", c, x, f) = RootAtStep(c, x, f)
    BY DEF Step
  <2>2. PICK f : f = [x \in 0 .. Depth |-> Step("rootAt", c, x, f)]
    BY <1>1 DEF Satisfies
  <2>3. f = [x \in 0 .. Depth |-> RootAtStep(c, x, f)]
    BY <2>1, <2>2
  <2>4. QED
    BY <2>3 DEF RootAtStep, Levels
<1>3. Rec(root)
  BY <1>2
<1>4. ASSUME NEW l, NEW x
      PROVE  RootAt(c, l, x) = root[l][x]
  BY DEF RootAt
<1> HIDE DEF root
<1>5. root[level] =
        [x \in Nat |->
           IF level = 0 THEN IF x < c THEN DepositRoot(x) ELSE ZeroBytes
           ELSE Sha256(root[level - 1][x], root[level - 1][x + 2^(level - 1)])]
  BY <1>3, Zenon
<1>6. QED
  BY <1>4, <1>5

\* The subtree of height level that begins at leaf s, in a tree of c deposits
\* of which f are finalized: the shape every operation is proved to keep.
TreeAt(c, f, level, s) ==
  LET tr[l \in Levels] ==
        [x \in Nat |->
           IF c <= x THEN Zero(l)
           ELSE IF x + 2^l <= f THEN Finalized(2^l, RootAt(f, l, x))
           ELSE IF l = 0 THEN Leaf(DepositRoot(x))
           ELSE Node(tr[l - 1][x], tr[l - 1][x + 2^(l - 1)])]
  IN tr[level][s]

\* A subtree without deposits is a Zero, one whose deposits are all finalized a
\* Finalized, one deposit a Leaf, and any other a Node of its halves.
LEMMA TreeAtDef ==
  ASSUME NEW c, NEW f, NEW level \in Levels, NEW s \in Nat
  PROVE  TreeAt(c, f, level, s) =
           IF c <= s THEN Zero(level)
           ELSE IF s + 2^level <= f THEN Finalized(2^level, RootAt(f, level, s))
           ELSE IF level = 0 THEN Leaf(DepositRoot(s))
           ELSE Node(TreeAt(c, f, level - 1, s), TreeAt(c, f, level - 1, s + 2^(level - 1)))
<1> DEFINE Rec(g) ==
      g = [l \in Levels |->
             [x \in Nat |->
                IF c <= x THEN Zero(l)
                ELSE IF x + 2^l <= f THEN Finalized(2^l, RootAt(f, l, x))
                ELSE IF l = 0 THEN Leaf(DepositRoot(x))
                ELSE Node(g[l - 1][x], g[l - 1][x + 2^(l - 1)])]]
           tr == CHOOSE g : Rec(g)
           p == <<c, f>>
<1>1. \E g : Satisfies(g, "treeAt", p, 0 .. Depth)
  <2>1. \A g, h : TreeAtStep(p, 0, g) = TreeAtStep(p, 0, h)
    BY DEF TreeAtStep
  <2>2. ASSUME NEW g, NEW h, NEW n \in 0 .. Depth - 1, g[n] = h[n]
        PROVE  TreeAtStep(p, n + 1, g) = TreeAtStep(p, n + 1, h)
    <3>1. g[n + 1 - 1] = h[n + 1 - 1]
      BY <2>2, LevelFacts
    <3>2. QED
      BY <3>1 DEF TreeAtStep
  <2>3. \A x, g : Step("treeAt", p, x, g) = TreeAtStep(p, x, g)
    BY DEF Step
  <2>4. \A g, h : Step("treeAt", p, 0, g) = Step("treeAt", p, 0, h)
    BY <2>1, <2>3
  <2>5. \A g, h : \A n \in 0 .. Depth - 1 :
          g[n] = h[n] => Step("treeAt", p, n + 1, g) = Step("treeAt", p, n + 1, h)
    BY <2>2, <2>3
  <2>6. QED
    BY <2>4, <2>5, LevelFacts, LevelFunctionExists
<1>2. \E g : Rec(g)
  <2>1. \A x, g : Step("treeAt", p, x, g) = TreeAtStep(p, x, g)
    BY DEF Step
  <2>2. PICK g : g = [x \in 0 .. Depth |-> Step("treeAt", p, x, g)]
    BY <1>1 DEF Satisfies
  <2>3. g = [x \in 0 .. Depth |-> TreeAtStep(p, x, g)]
    BY <2>1, <2>2
  <2>4. QED
    BY <2>3 DEF TreeAtStep, Levels
<1>3. Rec(tr)
  BY <1>2
<1>4. ASSUME NEW l, NEW x
      PROVE  TreeAt(c, f, l, x) = tr[l][x]
  BY DEF TreeAt
<1> HIDE DEF tr
<1>5. tr[level] =
        [x \in Nat |->
           IF c <= x THEN Zero(level)
           ELSE IF x + 2^level <= f THEN Finalized(2^level, RootAt(f, level, x))
           ELSE IF level = 0 THEN Leaf(DepositRoot(x))
           ELSE Node(tr[level - 1][x], tr[level - 1][x + 2^(level - 1)])]
  BY <1>3, Zenon
<1>6. QED
  BY <1>4, <1>5

\* Induction from the bottom of a tree to its top.
LEMMA EveryLevel ==
  ASSUME NEW I, \A level \in Levels : (level # 0 => level - 1 \in I) => level \in I
  PROVE  \A level \in Levels : level \in I
<1>1. 0 \in I
  BY LevelFacts
<1>2. ASSUME NEW n \in 0 .. Depth - 1, n \in I PROVE n + 1 \in I
  BY <1>2, LevelFacts
<1>3. \A n \in 0 .. Depth : n \in I
  BY <1>1, <1>2, LevelFacts, LevelInduction
<1>4. QED
  BY <1>3 DEF Levels

\* Roots are hashes of their height.
LEMMA RootType ==
  ASSUME NEW c \in 0 .. MaxDeposits
  PROVE  \A level \in Levels : \A s \in Nat : RootAt(c, level, s) \in Hash[level]
<1> DEFINE I == {level \in Levels : \A s \in Nat : RootAt(c, level, s) \in Hash[level]}
<1>1. ASSUME NEW level \in Levels, level # 0 => level - 1 \in I PROVE level \in I
  <2>1. SUFFICES ASSUME NEW s \in Nat PROVE RootAt(c, level, s) \in Hash[level]
    OBVIOUS
  <2>2. CASE level = 0
    <3>1. s < c => s \in 0 .. MaxDeposits - 1
      BY PowerFacts
    <3>2. QED
      BY <2>2, <3>1, RootAtDef, HashDef
  <2>3. CASE level # 0
    <3>1. s + 2^(level - 1) \in Nat /\ level - 1 \in Levels
      BY <2>3, LevelFacts, PowerFacts
    <3>2. /\ RootAt(c, level - 1, s) \in Hash[level - 1]
          /\ RootAt(c, level - 1, s + 2^(level - 1)) \in Hash[level - 1]
      BY <1>1, <2>3, <3>1
    <3>3. RootAt(c, level, s) =
            Sha256(RootAt(c, level - 1, s), RootAt(c, level - 1, s + 2^(level - 1)))
      BY <2>3, RootAtDef
    <3>4. Hash[level] = {"sha256"} \X Hash[level - 1] \X Hash[level - 1]
      BY <2>3, HashDef
    <3>5. QED
      BY <3>2, <3>3, <3>4 DEF Sha256
  <2>4. QED
    BY <2>2, <2>3
<1> HIDE DEF I
<1>2. \A level \in Levels : level \in I
  BY <1>1, EveryLevel
<1>3. QED
  BY <1>2 DEF I

\* The roots of Zero subtrees double up: the top one too, which zerohashes does
\* not hold.
LEMMA ZeroRoot ==
  /\ \A level \in 0 .. Depth - 1 : GetRoot(Zero(level)) = zerohashes[level]
  /\ GetRoot(Zero(0)) = ZeroBytes
  /\ \A level \in Levels : level # 0 =>
       GetRoot(Zero(level)) = Sha256(GetRoot(Zero(level - 1)), GetRoot(Zero(level - 1)))
<1>1. \A level \in Levels : Zero(level) \in Tree
  BY TreeForms, TreesClosed
<1>2. ASSUME NEW level \in 0 .. Depth - 1 PROVE GetRoot(Zero(level)) = zerohashes[level]
  <2>1. level \in Levels /\ level < Depth
    BY LevelFacts
  <2>2. QED
    BY <1>1, <2>1, GetRootDef DEF Zero
<1>3. GetRoot(Zero(0)) = ZeroBytes
  <2>1. 0 \in 0 .. Depth - 1
    BY LevelFacts
  <2>2. QED
    BY <1>2, <2>1, ZeroHashesDef
<1>4. GetRoot(Zero(Depth)) = Sha256(zerohashes[Depth - 1], zerohashes[Depth - 1])
  <2>1. Zero(Depth) \in Tree /\ ~(Depth < Depth)
    BY <1>1, LevelFacts
  <2>2. Zero(Depth).kind = "Zero" /\ Zero(Depth).n = Depth
    BY DEF Zero
  <2> HIDE DEF Zero
  <2>3. QED
    BY <2>1, <2>2, GetRootDef
<1>5. ASSUME NEW level \in Levels, level # 0
      PROVE  GetRoot(Zero(level)) = Sha256(GetRoot(Zero(level - 1)), GetRoot(Zero(level - 1)))
  <2>1. level - 1 \in 0 .. Depth - 1
    BY <1>5, LevelFacts
  <2>2. GetRoot(Zero(level - 1)) = zerohashes[level - 1]
    BY <1>2, <2>1
  <2>3. CASE level = Depth
    BY <1>4, <2>2, <2>3
  <2>4. CASE level # Depth
    <3>1. level \in 0 .. Depth - 1
      BY <2>4, LevelFacts
    <3>2. GetRoot(Zero(level)) = zerohashes[level]
      BY <1>2, <3>1
    <3>3. zerohashes[level] = Sha256(zerohashes[level - 1], zerohashes[level - 1])
      BY <1>5, <3>1, ZeroHashesDef
    <3>4. QED
      BY <2>2, <3>2, <3>3
  <2>5. QED
    BY <2>3, <2>4
<1>6. QED
  BY <1>2, <1>3, <1>5

\* A subtree that begins after the last deposit has the root of a Zero.
LEMMA RootEmpty ==
  ASSUME NEW c \in Nat
  PROVE  \A level \in Levels : \A s \in Nat :
           c <= s => RootAt(c, level, s) = GetRoot(Zero(level))
<1> DEFINE I == {level \in Levels : \A s \in Nat :
                   c <= s => RootAt(c, level, s) = GetRoot(Zero(level))}
<1>1. ASSUME NEW level \in Levels, level # 0 => level - 1 \in I PROVE level \in I
  <2>1. SUFFICES ASSUME NEW s \in Nat, c <= s PROVE RootAt(c, level, s) = GetRoot(Zero(level))
    OBVIOUS
  <2>2. CASE level = 0
    BY <2>1, <2>2, RootAtDef, ZeroRoot
  <2>3. CASE level # 0
    <3>1. /\ s + 2^(level - 1) \in Nat /\ level - 1 \in Levels
          /\ c <= s + 2^(level - 1)
      BY <2>1, <2>3, LevelFacts, PowerFacts
    <3>2. /\ RootAt(c, level - 1, s) = GetRoot(Zero(level - 1))
          /\ RootAt(c, level - 1, s + 2^(level - 1)) = GetRoot(Zero(level - 1))
      BY <1>1, <2>1, <2>3, <3>1
    <3>3. QED
      BY <2>3, <3>2, RootAtDef, ZeroRoot
  <2>4. QED
    BY <2>2, <2>3
<1> HIDE DEF I
<1>2. \A level \in Levels : level \in I
  BY <1>1, EveryLevel
<1>3. QED
  BY <1>2 DEF I

\* The root of a full subtree no longer changes.
LEMMA RootFull ==
  ASSUME NEW c \in Nat, NEW d \in Nat
  PROVE  \A level \in Levels : \A s \in Nat :
           s + 2^level <= c /\ s + 2^level <= d => RootAt(c, level, s) = RootAt(d, level, s)
<1> DEFINE I == {level \in Levels : \A s \in Nat :
             s + 2^level <= c /\ s + 2^level <= d => RootAt(c, level, s) = RootAt(d, level, s)}
<1>1. ASSUME NEW level \in Levels, level # 0 => level - 1 \in I PROVE level \in I
  <2>1. SUFFICES ASSUME NEW s \in Nat, s + 2^level <= c, s + 2^level <= d
                 PROVE RootAt(c, level, s) = RootAt(d, level, s)
    OBVIOUS
  <2>2. CASE level = 0
    <3>1. s < c /\ s < d
      BY <2>1, <2>2, PowerFacts
    <3>2. QED
      BY <2>2, <3>1, RootAtDef
  <2>3. CASE level # 0
    <3>1. /\ 2^(level - 1) \in Nat /\ level - 1 \in Levels
          /\ 2^level = 2^(level - 1) + 2^(level - 1)
      BY <2>3, LevelFacts, PowerFacts
    <3>2. /\ s + 2^(level - 1) \in Nat
          /\ s + 2^(level - 1) <= c
          /\ s + 2^(level - 1) <= d
          /\ s + 2^(level - 1) + 2^(level - 1) <= c
          /\ s + 2^(level - 1) + 2^(level - 1) <= d
      BY <2>1, <3>1
    <3>3. /\ RootAt(c, level - 1, s) = RootAt(d, level - 1, s)
          /\ RootAt(c, level - 1, s + 2^(level - 1)) = RootAt(d, level - 1, s + 2^(level - 1))
      BY <1>1, <2>3, <3>2
    <3>4. QED
      BY <2>3, <3>3, RootAtDef
  <2>4. QED
    BY <2>2, <2>3
<1> HIDE DEF I
<1>2. \A level \in Levels : level \in I
  BY <1>1, EveryLevel
<1>3. QED
  BY <1>2 DEF I

\* The halves of a subtree are subtrees of half its size.
LEMMA Halves ==
  ASSUME NEW level \in Levels, level # 0, NEW s \in Nat
  PROVE  /\ level - 1 \in Levels
         /\ 2^(level - 1) \in Nat \ {0}
         /\ s + 2^(level - 1) \in Nat
         /\ 2^level = 2^(level - 1) + 2^(level - 1)
         /\ s + 2^level = s + 2^(level - 1) + 2^(level - 1)
BY LevelFacts, PowerFacts

\* TreeAt gives trees of the height it is asked for.
LEMMA TreeType ==
  ASSUME NEW c \in 0 .. MaxDeposits, NEW f \in 0 .. c
  PROVE  \A level \in Levels : \A s \in Nat : TreeAt(c, f, level, s) \in TreeOf[level]
<1> DEFINE I == {level \in Levels : \A s \in Nat : TreeAt(c, f, level, s) \in TreeOf[level]}
<1>1. ASSUME NEW level \in Levels, level # 0 => level - 1 \in I PROVE level \in I
  <2>1. SUFFICES ASSUME NEW s \in Nat PROVE TreeAt(c, f, level, s) \in TreeOf[level]
    OBVIOUS
  <2>2. f \in 0 .. MaxDeposits
    BY PowerFacts
  <2>3. CASE c <= s
    BY <2>3, TreeAtDef, TreeForms
  <2>4. CASE ~(c <= s) /\ s + 2^level <= f
    BY <2>2, <2>4, TreeAtDef, TreeForms, RootType
  <2>5. CASE ~(c <= s) /\ ~(s + 2^level <= f) /\ level = 0
    <3>1. s \in 0 .. MaxDeposits - 1
      BY <2>5, PowerFacts
    <3>2. DepositRoot(s) \in Hash[0]
      BY <2>5, <3>1, HashDef
    <3>3. QED
      BY <2>5, <3>2, TreeAtDef, TreeForms
  <2>6. CASE ~(c <= s) /\ ~(s + 2^level <= f) /\ level # 0
    <3>1. /\ TreeAt(c, f, level - 1, s) \in TreeOf[level - 1]
          /\ TreeAt(c, f, level - 1, s + 2^(level - 1)) \in TreeOf[level - 1]
      BY <1>1, <2>6, Halves
    <3>2. QED
      BY <2>6, <3>1, TreeAtDef, TreeForms
  <2>7. QED
    BY <2>3, <2>4, <2>5, <2>6
<1> HIDE DEF I
<1>2. \A level \in Levels : level \in I
  BY <1>1, EveryLevel
<1>3. QED
  BY <1>2 DEF I

\* TreeAt gives trees.
LEMMA TreeInTree ==
  ASSUME NEW c \in 0 .. MaxDeposits, NEW f \in 0 .. c, NEW level \in Levels, NEW s \in Nat
  PROVE  TreeAt(c, f, level, s) \in Tree
BY TreeType, TreesClosed

\* The fields of a Node.
LEMMA NodeFields ==
  ASSUME NEW a, NEW b
  PROVE  Node(a, b).kind = "Node" /\ Node(a, b).left = a /\ Node(a, b).right = b
BY DEF Node

\* get_root does not depend on what is finalized: it is the contract's root.
LEMMA TreeRoot ==
  ASSUME NEW c \in 0 .. MaxDeposits, NEW f \in 0 .. c
  PROVE  \A level \in Levels : \A s \in Nat :
           GetRoot(TreeAt(c, f, level, s)) = RootAt(c, level, s)
<1> DEFINE I == {level \in Levels : \A s \in Nat :
                   GetRoot(TreeAt(c, f, level, s)) = RootAt(c, level, s)}
<1>0. c \in Nat /\ f \in Nat
  BY PowerFacts
<1>1. ASSUME NEW level \in Levels, level # 0 => level - 1 \in I PROVE level \in I
  <2>1. SUFFICES ASSUME NEW s \in Nat
                 PROVE GetRoot(TreeAt(c, f, level, s)) = RootAt(c, level, s)
    OBVIOUS
  <2>2. TreeAt(c, f, level, s) \in Tree
    BY TreeInTree
  <2>3. CASE c <= s
    <3>1. TreeAt(c, f, level, s) = Zero(level)
      BY <2>3, TreeAtDef
    <3>2. QED
      BY <1>0, <2>3, <3>1, RootEmpty
  <2>4. CASE ~(c <= s) /\ s + 2^level <= f
    <3>1. TreeAt(c, f, level, s) = Finalized(2^level, RootAt(f, level, s))
      BY <2>4, TreeAtDef
    <3>2. GetRoot(TreeAt(c, f, level, s)) = RootAt(f, level, s)
      BY <2>2, <3>1, GetRootDef DEF Finalized
    <3>3. s + 2^level <= c
      BY <1>0, <2>4, PowerFacts
    <3>4. QED
      BY <1>0, <2>4, <3>2, <3>3, RootFull
  <2>5. CASE ~(c <= s) /\ ~(s + 2^level <= f) /\ level = 0
    <3>1. TreeAt(c, f, level, s) = Leaf(DepositRoot(s))
      BY <2>5, TreeAtDef
    <3>2. GetRoot(TreeAt(c, f, level, s)) = DepositRoot(s)
      BY <2>2, <3>1, GetRootDef DEF Leaf
    <3>3. s < c
      BY <1>0, <2>5
    <3>4. QED
      BY <2>5, <3>2, <3>3, RootAtDef
  <2>6. CASE ~(c <= s) /\ ~(s + 2^level <= f) /\ level # 0
    <3> DEFINE left == TreeAt(c, f, level - 1, s)
               right == TreeAt(c, f, level - 1, s + 2^(level - 1))
    <3>1. TreeAt(c, f, level, s) = Node(left, right)
      BY <2>6, TreeAtDef
    <3>2. GetRoot(TreeAt(c, f, level, s)) = Sha256(GetRoot(left), GetRoot(right))
      <4> HIDE DEF left, right
      <4>1. QED
        BY <2>2, <3>1, GetRootDef, NodeFields
    <3>3. /\ GetRoot(left) = RootAt(c, level - 1, s)
          /\ GetRoot(right) = RootAt(c, level - 1, s + 2^(level - 1))
      BY <1>1, <2>6, Halves
    <3>4. QED
      BY <2>6, <3>2, <3>3, RootAtDef
  <2>7. QED
    BY <2>3, <2>4, <2>5, <2>6
<1> HIDE DEF I
<1>2. \A level \in Levels : level \in I
  BY <1>1, EveryLevel
<1>3. QED
  BY <1>2 DEF I

\* is_full tells whether the last leaf of a subtree holds a deposit.
LEMMA TreeFull ==
  ASSUME NEW c \in 0 .. MaxDeposits, NEW f \in 0 .. c
  PROVE  \A level \in Levels : \A s \in Nat :
           IsFull(TreeAt(c, f, level, s)) <=> s + 2^level <= c
<1> DEFINE I == {level \in Levels : \A s \in Nat :
                   IsFull(TreeAt(c, f, level, s)) <=> s + 2^level <= c}
<1>0. c \in Nat /\ f \in Nat
  BY PowerFacts
<1>1. ASSUME NEW level \in Levels, level # 0 => level - 1 \in I PROVE level \in I
  <2>1. SUFFICES ASSUME NEW s \in Nat
                 PROVE IsFull(TreeAt(c, f, level, s)) <=> s + 2^level <= c
    OBVIOUS
  <2>2. TreeAt(c, f, level, s) \in Tree /\ 2^level \in Nat \ {0}
    BY TreeInTree, PowerFacts
  <2>3. CASE c <= s
    <3>1. TreeAt(c, f, level, s) = Zero(level)
      BY <2>3, TreeAtDef
    <3>2. ~IsFull(TreeAt(c, f, level, s))
      BY <2>2, <3>1, IsFullDef DEF Zero
    <3>3. QED
      BY <1>0, <2>2, <2>3, <3>2
  <2>4. CASE ~(c <= s) /\ s + 2^level <= f
    <3>1. TreeAt(c, f, level, s) = Finalized(2^level, RootAt(f, level, s))
      BY <2>4, TreeAtDef
    <3>2. IsFull(TreeAt(c, f, level, s))
      BY <2>2, <3>1, IsFullDef DEF Finalized
    <3>3. QED
      BY <1>0, <2>2, <2>4, <3>2
  <2>5. CASE ~(c <= s) /\ ~(s + 2^level <= f) /\ level = 0
    <3>1. TreeAt(c, f, level, s) = Leaf(DepositRoot(s))
      BY <2>5, TreeAtDef
    <3>2. IsFull(TreeAt(c, f, level, s))
      BY <2>2, <3>1, IsFullDef DEF Leaf
    <3>3. QED
      BY <1>0, <2>5, <3>2, PowerFacts
  <2>6. CASE ~(c <= s) /\ ~(s + 2^level <= f) /\ level # 0
    <3> DEFINE left == TreeAt(c, f, level - 1, s)
               right == TreeAt(c, f, level - 1, s + 2^(level - 1))
    <3>1. TreeAt(c, f, level, s) = Node(left, right)
      BY <2>6, TreeAtDef
    <3>2. IsFull(TreeAt(c, f, level, s)) <=> IsFull(right)
      <4> HIDE DEF left, right
      <4>1. QED
        BY <2>2, <3>1, IsFullDef, NodeFields
    <3>3. IsFull(right) <=> s + 2^(level - 1) + 2^(level - 1) <= c
      BY <1>1, <2>6, Halves
    <3>4. QED
      BY <2>6, <3>2, <3>3, Halves
  <2>7. QED
    BY <2>3, <2>4, <2>5, <2>6
<1> HIDE DEF I
<1>2. \A level \in Levels : level \in I
  BY <1>1, EveryLevel
<1>3. QED
  BY <1>2 DEF I

-----------------------------------------------------------------------------
(***************************************************************************)
(* push_leaf and finalize keep its shape                                   *)
(***************************************************************************)

\* create of the deposit that a subtree begins with is the subtree of one more
\* deposit.
LEMMA CreateOneTree ==
  ASSUME NEW s \in 0 .. MaxDeposits - 1, NEW f \in 0 .. s
  PROVE  \A level \in Levels :
           CreateOne(DepositRoot(s), level) = TreeAt(s + 1, f, level, s)
<1> DEFINE c == s + 1
           I == {level \in Levels : CreateOne(DepositRoot(s), level) = TreeAt(c, f, level, s)}
<1>0. s \in Nat /\ f \in Nat /\ f <= s
  BY PowerFacts
<1>a. c \in Nat /\ ~(c <= s) /\ \A d \in Nat \ {0} : c <= s + d /\ ~(s + d <= f)
  BY <1>0
<1>b. c = s + 1
  OBVIOUS
<1> HIDE DEF c
<1>1. ASSUME NEW level \in Levels, level # 0 => level - 1 \in I PROVE level \in I
  <2>1. ~(s + 2^level <= f)
    BY <1>a, PowerFacts
  <2>2. CASE level = 0
    <3>1. CreateOne(DepositRoot(s), level) = Leaf(DepositRoot(s))
      BY <2>2, CreateOneDef
    <3>2. TreeAt(c, f, level, s) = Leaf(DepositRoot(s))
      BY <1>0, <1>a, <2>1, <2>2, TreeAtDef
    <3>3. QED
      BY <3>1, <3>2
  <2>3. CASE level # 0
    <3>1. /\ level - 1 \in Levels /\ s + 2^(level - 1) \in Nat /\ c <= s + 2^(level - 1)
      BY <1>0, <1>a, <2>3, Halves
    <3>2. TreeAt(c, f, level - 1, s + 2^(level - 1)) = Zero(level - 1)
      BY <3>1, TreeAtDef
    <3>3. TreeAt(c, f, level, s) = Node(TreeAt(c, f, level - 1, s), Zero(level - 1))
      BY <1>0, <1>a, <2>1, <2>3, <3>2, TreeAtDef
    <3>4. CreateOne(DepositRoot(s), level - 1) = TreeAt(c, f, level - 1, s)
      BY <1>1, <2>3
    <3>5. QED
      BY <2>3, <3>3, <3>4, CreateOneDef
  <2>4. QED
    BY <2>2, <2>3
<1> HIDE DEF I
<1>2. \A level \in Levels : level \in I
  BY <1>1, EveryLevel
<1>3. QED
  BY <1>2, <1>b DEF I

\* A full subtree is not changed by deposits to the right of it.
LEMMA TreeFullStays ==
  ASSUME NEW c \in Nat, NEW d \in Nat, NEW f \in Nat
  PROVE  \A level \in Levels : \A s \in Nat : s + 2^level <= c /\ s + 2^level <= d =>
           TreeAt(c, f, level, s) = TreeAt(d, f, level, s)
<1> DEFINE I == {level \in Levels : \A s \in Nat : s + 2^level <= c /\ s + 2^level <= d =>
                   TreeAt(c, f, level, s) = TreeAt(d, f, level, s)}
<1>1. ASSUME NEW level \in Levels, level # 0 => level - 1 \in I PROVE level \in I
  <2>1. SUFFICES ASSUME NEW s \in Nat, s + 2^level <= c, s + 2^level <= d
                 PROVE  TreeAt(c, f, level, s) = TreeAt(d, f, level, s)
    OBVIOUS
  <2>2. ~(c <= s) /\ ~(d <= s)
    BY <2>1, PowerFacts
  <2>3. CASE s + 2^level <= f
    BY <2>2, <2>3, TreeAtDef
  <2>4. CASE ~(s + 2^level <= f) /\ level = 0
    <3>1. TreeAt(c, f, level, s) = Leaf(DepositRoot(s))
      BY <2>2, <2>4, TreeAtDef
    <3>2. TreeAt(d, f, level, s) = Leaf(DepositRoot(s))
      BY <2>2, <2>4, TreeAtDef
    <3>3. QED
      BY <3>1, <3>2
  <2>5. CASE ~(s + 2^level <= f) /\ level # 0
    <3>1. /\ 2^(level - 1) \in Nat /\ level - 1 \in Levels
          /\ s + 2^(level - 1) \in Nat
          /\ s + 2^level = s + 2^(level - 1) + 2^(level - 1)
      BY <2>5, Halves
    <3>2. /\ s + 2^(level - 1) <= c /\ s + 2^(level - 1) <= d
          /\ s + 2^(level - 1) + 2^(level - 1) <= c
          /\ s + 2^(level - 1) + 2^(level - 1) <= d
      BY <2>1, <3>1
    <3>3. TreeAt(c, f, level - 1, s) = TreeAt(d, f, level - 1, s)
      BY <1>1, <2>5, <3>2
    <3>4. TreeAt(c, f, level - 1, s + 2^(level - 1)) = TreeAt(d, f, level - 1, s + 2^(level - 1))
      BY <1>1, <2>5, <3>1, <3>2
    <3>5. TreeAt(c, f, level, s) =
            Node(TreeAt(c, f, level - 1, s), TreeAt(c, f, level - 1, s + 2^(level - 1)))
      BY <2>2, <2>5, TreeAtDef
    <3>6. TreeAt(d, f, level, s) =
            Node(TreeAt(d, f, level - 1, s), TreeAt(d, f, level - 1, s + 2^(level - 1)))
      BY <2>2, <2>5, TreeAtDef
    <3>7. QED
      BY <3>3, <3>4, <3>5, <3>6
  <2>6. QED
    BY <2>3, <2>4, <2>5
<1> HIDE DEF I
<1>2. \A level \in Levels : level \in I
  BY <1>1, EveryLevel
<1>3. QED
  BY <1>2 DEF I

\* push_leaf of the next deposit gives the tree of one more deposit.
LEMMA PushLeafTree ==
  ASSUME NEW c \in 0 .. MaxDeposits - 1, NEW f \in 0 .. c
  PROVE  \A level \in Levels : \A s \in Nat : s <= c /\ c < s + 2^level =>
           PushLeaf(TreeAt(c, f, level, s), DepositRoot(c), level) = TreeAt(c + 1, f, level, s)
<1> DEFINE e == c + 1
           I == {level \in Levels : \A s \in Nat : s <= c /\ c < s + 2^level =>
                   PushLeaf(TreeAt(c, f, level, s), DepositRoot(c), level)
                     = TreeAt(e, f, level, s)}
<1>0. c \in Nat /\ f \in Nat /\ f <= c /\ c \in 0 .. MaxDeposits /\ c \in 0 .. MaxDeposits - 1
  BY PowerFacts
<1>a. e \in Nat /\ c < e /\ \A s \in Nat : c < s => e <= s
  BY <1>0
<1>b. e = c + 1
  OBVIOUS
<1>c. \A level \in Levels : CreateOne(DepositRoot(c), level) = TreeAt(e, f, level, c)
  BY CreateOneTree
<1> HIDE DEF e
<1>1. ASSUME NEW level \in Levels, level # 0 => level - 1 \in I PROVE level \in I
  <2>1. SUFFICES ASSUME NEW s \in Nat, s <= c, c < s + 2^level
                 PROVE  PushLeaf(TreeAt(c, f, level, s), DepositRoot(c), level)
                          = TreeAt(e, f, level, s)
    OBVIOUS
  <2>2. TreeAt(c, f, level, s) \in Tree
    BY <1>0, TreeInTree
  <2>3. CASE c = s
    <3>0. c <= s
      BY <1>0, <2>3
    <3>1. TreeAt(c, f, level, s) = Zero(level)
      BY <1>0, <3>0, TreeAtDef
    <3>2. PushLeaf(TreeAt(c, f, level, s), DepositRoot(c), level) = CreateOne(DepositRoot(c), level)
      BY <2>2, <3>1, PushLeafDef DEF Zero
    <3>3. QED
      BY <1>c, <2>3, <3>2
  <2>4. CASE c # s
    <3> DEFINE left == TreeAt(c, f, level - 1, s)
               right == TreeAt(c, f, level - 1, s + 2^(level - 1))
    <3>0. level # 0
      <4>1. ASSUME level = 0 PROVE FALSE
        <5>1. 2^level = 1
          BY <4>1, PowerFacts
        <5>2. QED
          BY <1>0, <2>1, <2>4, <5>1
      <4>2. QED
        BY <4>1
    <3>1. s < c /\ ~(c <= s) /\ ~(e <= s)
      BY <1>0, <1>a, <2>1, <2>4
    <3>p. ~(s + 2^level <= f)
      BY <1>0, <2>1, PowerFacts
    <3>2. TreeAt(c, f, level, s) = Node(left, right)
      BY <1>0, <3>0, <3>1, <3>p, TreeAtDef
    <3>3. TreeAt(e, f, level, s) =
            Node(TreeAt(e, f, level - 1, s), TreeAt(e, f, level - 1, s + 2^(level - 1)))
      BY <1>a, <3>0, <3>1, <3>p, TreeAtDef
    <3>4. PushLeaf(TreeAt(c, f, level, s), DepositRoot(c), level) =
            IF IsFull(left) THEN Node(left, PushLeaf(right, DepositRoot(c), level - 1))
            ELSE Node(PushLeaf(left, DepositRoot(c), level - 1), right)
      <4> HIDE DEF left, right
      <4>1. QED
        BY <2>2, <3>2, PushLeafDef, NodeFields
    <3>5. /\ level - 1 \in Levels /\ 2^(level - 1) \in Nat \ {0} /\ s + 2^(level - 1) \in Nat
          /\ s + 2^level = s + 2^(level - 1) + 2^(level - 1)
      BY <3>0, Halves
    <3>6. IsFull(left) <=> s + 2^(level - 1) <= c
      BY <1>0, <3>5, TreeFull
    <3>7. CASE s + 2^(level - 1) <= c
      <4>0. c < s + 2^(level - 1) + 2^(level - 1)
        BY <2>1, <3>5
      <4>1. PushLeaf(right, DepositRoot(c), level - 1) = TreeAt(e, f, level - 1, s + 2^(level - 1))
        BY <1>1, <3>0, <3>5, <3>7, <4>0
      <4>a. s + 2^(level - 1) <= e
        BY <1>0, <1>a, <3>5, <3>7
      <4>2. left = TreeAt(e, f, level - 1, s)
        BY <1>0, <1>a, <3>5, <3>7, <4>a, TreeFullStays
      <4> HIDE DEF left, right
      <4>3. QED
        BY <3>3, <3>4, <3>6, <3>7, <4>1, <4>2
    <3>8. CASE ~(s + 2^(level - 1) <= c)
      <4>0. c < s + 2^(level - 1) /\ s <= c
        BY <1>0, <2>1, <3>5, <3>8
      <4>1. PushLeaf(left, DepositRoot(c), level - 1) = TreeAt(e, f, level - 1, s)
        BY <1>1, <3>0, <4>0
      <4>2. c <= s + 2^(level - 1) /\ e <= s + 2^(level - 1)
        BY <1>0, <1>a, <3>5, <4>0
      <4>3. TreeAt(c, f, level - 1, s + 2^(level - 1)) = Zero(level - 1)
        BY <3>5, <4>2, TreeAtDef
      <4>4. TreeAt(e, f, level - 1, s + 2^(level - 1)) = Zero(level - 1)
        BY <3>5, <4>2, TreeAtDef
      <4>6. right = Zero(level - 1)
        BY <4>3
      <4> HIDE DEF left, right
      <4>5. QED
        BY <3>3, <3>4, <3>6, <3>8, <4>1, <4>6, <4>4
    <3>9. QED
      BY <3>7, <3>8
  <2>5. QED
    BY <2>3, <2>4
<1> HIDE DEF I
<1>2. \A level \in Levels : level \in I
  BY <1>1, EveryLevel
<1>3. QED
  BY <1>2, <1>b DEF I

\* A subtree without finalized deposits does not depend on how many deposits
\* to the left of it are finalized.
LEMMA TreeUnfinalized ==
  ASSUME NEW c \in Nat, NEW f \in Nat, NEW g \in Nat
  PROVE  \A level \in Levels : \A s \in Nat : f <= s /\ g <= s =>
           TreeAt(c, f, level, s) = TreeAt(c, g, level, s)
<1> DEFINE I == {level \in Levels : \A s \in Nat : f <= s /\ g <= s =>
                   TreeAt(c, f, level, s) = TreeAt(c, g, level, s)}
<1>1. ASSUME NEW level \in Levels, level # 0 => level - 1 \in I PROVE level \in I
  <2>1. SUFFICES ASSUME NEW s \in Nat, f <= s, g <= s
                 PROVE  TreeAt(c, f, level, s) = TreeAt(c, g, level, s)
    OBVIOUS
  <2>2. ~(s + 2^level <= f) /\ ~(s + 2^level <= g)
    BY <2>1, PowerFacts
  <2>3. CASE c <= s
    BY <2>3, TreeAtDef
  <2>4. CASE ~(c <= s) /\ level = 0
    <3>1. TreeAt(c, f, level, s) = Leaf(DepositRoot(s))
      BY <2>2, <2>4, TreeAtDef
    <3>2. TreeAt(c, g, level, s) = Leaf(DepositRoot(s))
      BY <2>2, <2>4, TreeAtDef
    <3>3. QED
      BY <3>1, <3>2
  <2>5. CASE ~(c <= s) /\ level # 0
    <3>1. /\ 2^(level - 1) \in Nat /\ level - 1 \in Levels
          /\ s + 2^(level - 1) \in Nat
      BY <2>5, Halves
    <3>2. f <= s + 2^(level - 1) /\ g <= s + 2^(level - 1)
      BY <2>1, <3>1
    <3>3. TreeAt(c, f, level - 1, s) = TreeAt(c, g, level - 1, s)
      BY <1>1, <2>1, <2>5
    <3>4. TreeAt(c, f, level - 1, s + 2^(level - 1)) = TreeAt(c, g, level - 1, s + 2^(level - 1))
      BY <1>1, <2>5, <3>1, <3>2
    <3>5. TreeAt(c, f, level, s) =
            Node(TreeAt(c, f, level - 1, s), TreeAt(c, f, level - 1, s + 2^(level - 1)))
      BY <2>2, <2>5, TreeAtDef
    <3>6. TreeAt(c, g, level, s) =
            Node(TreeAt(c, g, level - 1, s), TreeAt(c, g, level - 1, s + 2^(level - 1)))
      BY <2>2, <2>5, TreeAtDef
    <3>7. QED
      BY <3>3, <3>4, <3>5, <3>6
  <2>6. QED
    BY <2>3, <2>4, <2>5
<1> HIDE DEF I
<1>2. \A level \in Levels : level \in I
  BY <1>1, EveryLevel
<1>3. QED
  BY <1>2 DEF I

\* finalize gives the tree with that many deposits finalized, whatever was
\* finalized before.
LEMMA FinalizeTree ==
  ASSUME NEW c \in 0 .. MaxDeposits, NEW f \in 0 .. c, NEW g \in f .. c
  PROVE  \A level \in Levels : \A s \in Nat : s < g =>
           Finalize(TreeAt(c, f, level, s), g - s, level) = TreeAt(c, g, level, s)
<1> DEFINE I == {level \in Levels : \A s \in Nat : s < g =>
                   Finalize(TreeAt(c, f, level, s), g - s, level) = TreeAt(c, g, level, s)}
<1>0. c \in Nat /\ f \in Nat /\ f <= c /\ g \in Nat /\ f <= g /\ g <= c /\ g <= MaxDeposits
  BY PowerFacts
<1>1. ASSUME NEW level \in Levels, level # 0 => level - 1 \in I PROVE level \in I
  <2>1. SUFFICES ASSUME NEW s \in Nat, s < g
                 PROVE  Finalize(TreeAt(c, f, level, s), g - s, level) = TreeAt(c, g, level, s)
    OBVIOUS
  <2>2. TreeAt(c, f, level, s) \in Tree /\ 2^level \in Nat
    BY TreeInTree, PowerFacts
  <2>3. ~(c <= s) /\ g - s \in 0 .. MaxDeposits
    BY <1>0, <2>1, PowerFacts
  <2>4. CASE s + 2^level <= f
    <3>1. TreeAt(c, f, level, s) = Finalized(2^level, RootAt(f, level, s))
      BY <1>0, <2>3, <2>4, TreeAtDef
    <3>2. Finalize(TreeAt(c, f, level, s), g - s, level) = TreeAt(c, f, level, s)
      BY <2>2, <2>3, <3>1, FinalizeDef DEF FinalizeChildless, Finalized
    <3>3. s + 2^level <= g
      BY <1>0, <2>2, <2>4
    <3>4. TreeAt(c, g, level, s) = Finalized(2^level, RootAt(g, level, s))
      BY <1>0, <2>3, <3>3, TreeAtDef
    <3>5. RootAt(f, level, s) = RootAt(g, level, s)
      BY <1>0, <2>4, <3>3, RootFull
    <3>6. QED
      BY <3>1, <3>2, <3>4, <3>5
  <2>5. CASE ~(s + 2^level <= f) /\ level = 0
    <3>1. TreeAt(c, f, level, s) = Leaf(DepositRoot(s))
      BY <1>0, <2>3, <2>5, TreeAtDef
    <3>2. Finalize(TreeAt(c, f, level, s), g - s, level) = Finalized(1, DepositRoot(s))
      BY <2>2, <2>3, <3>1, FinalizeDef DEF FinalizeChildless, Leaf
    <3>3. 2^level = 1 /\ s + 2^level <= g
      BY <1>0, <2>1, <2>5, PowerFacts
    <3>4. TreeAt(c, g, level, s) = Finalized(2^level, RootAt(g, level, s))
      BY <1>0, <2>3, <3>3, TreeAtDef
    <3>5. RootAt(g, level, s) = DepositRoot(s)
      BY <1>0, <2>1, <2>5, RootAtDef
    <3>6. QED
      BY <3>2, <3>3, <3>4, <3>5
  <2>6. CASE ~(s + 2^level <= f) /\ level # 0
    <3> DEFINE left == TreeAt(c, f, level - 1, s)
               right == TreeAt(c, f, level - 1, s + 2^(level - 1))
    <3>1. TreeAt(c, f, level, s) = Node(left, right)
      BY <1>0, <2>3, <2>6, TreeAtDef
    <3>2. Finalize(TreeAt(c, f, level, s), g - s, level) =
            IF 2^level <= g - s THEN Finalized(2^level, GetRoot(TreeAt(c, f, level, s)))
            ELSE Node(Finalize(left, g - s, level - 1),
                      IF g - s > 2^(level - 1)
                      THEN Finalize(right, g - s - 2^(level - 1), level - 1)
                      ELSE right)
      <4> HIDE DEF left, right
      <4>1. QED
        BY <2>2, <2>3, <3>1, FinalizeDef, NodeFields
    <3>3. CASE s + 2^level <= g
      <4>1. 2^level <= g - s /\ s + 2^level <= c
        BY <1>0, <2>2, <3>3
      <4>2. GetRoot(TreeAt(c, f, level, s)) = RootAt(c, level, s)
        BY TreeRoot
      <4>3. RootAt(c, level, s) = RootAt(g, level, s)
        BY <1>0, <3>3, <4>1, RootFull
      <4>4. TreeAt(c, g, level, s) = Finalized(2^level, RootAt(g, level, s))
        BY <1>0, <2>3, <3>3, TreeAtDef
      <4>5. QED
        BY <3>2, <4>1, <4>2, <4>3, <4>4
    <3>4. CASE ~(s + 2^level <= g)
      <4>1. ~(2^level <= g - s)
        BY <1>0, <2>2, <3>4
      <4>2. /\ 2^(level - 1) \in Nat /\ level - 1 \in Levels
            /\ s + 2^(level - 1) \in Nat
        BY <2>6, Halves
      <4>3. Finalize(left, g - s, level - 1) = TreeAt(c, g, level - 1, s)
        BY <1>1, <2>1, <2>6
      <4>4. TreeAt(c, g, level, s) =
              Node(TreeAt(c, g, level - 1, s), TreeAt(c, g, level - 1, s + 2^(level - 1)))
        BY <1>0, <2>3, <2>6, <3>4, TreeAtDef
      <4>5. CASE s + 2^(level - 1) < g
        <5>1. g - s > 2^(level - 1) /\ g - s - 2^(level - 1) = g - (s + 2^(level - 1))
          BY <1>0, <4>2, <4>5
        <5>2. Finalize(right, g - (s + 2^(level - 1)), level - 1)
                = TreeAt(c, g, level - 1, s + 2^(level - 1))
          BY <1>1, <2>6, <4>2, <4>5
        <5> HIDE DEF left, right
        <5>3. QED
          BY <3>2, <4>1, <4>3, <4>4, <5>1, <5>2
      <4>6. CASE ~(s + 2^(level - 1) < g)
        <5>1. ~(g - s > 2^(level - 1)) /\ f <= s + 2^(level - 1) /\ g <= s + 2^(level - 1)
          BY <1>0, <4>2, <4>6
        <5>2. right = TreeAt(c, g, level - 1, s + 2^(level - 1))
          BY <1>0, <4>2, <5>1, TreeUnfinalized
        <5> HIDE DEF left, right
        <5>3. QED
          BY <3>2, <4>1, <4>3, <4>4, <5>1, <5>2
      <4>7. QED
        BY <4>5, <4>6
    <3>5. QED
      BY <3>3, <3>4
  <2>7. QED
    BY <2>4, <2>5, <2>6
<1> HIDE DEF I
<1>2. \A level \in Levels : level \in I
  BY <1>1, EveryLevel
<1>3. QED
  BY <1>2 DEF I

\* DepositTree.finalize drops the result of the root's finalize: the tree that
\* remains is nevertheless the one with that many deposits finalized.
LEMMA FinalizedRoot ==
  ASSUME NEW c \in 0 .. MaxDeposits, NEW f \in 0 .. c, NEW g \in f .. c, g # 0
  PROVE  FinalizedInPlace(TreeAt(c, f, Depth, 0), g) = TreeAt(c, g, Depth, 0)
<1>1. /\ c \in Nat /\ f \in Nat /\ g \in Nat /\ ~(c <= 0) /\ 0 < g
      /\ ~(0 + 2^Depth <= f) /\ g < 2^Depth /\ g - 0 = g
  BY PowerFacts, LevelFacts
<1>2. Depth \in Levels /\ Depth # 0 /\ 0 \in Nat
  BY LevelFacts
<1>3. TreeAt(c, f, Depth, 0) =
        Node(TreeAt(c, f, Depth - 1, 0), TreeAt(c, f, Depth - 1, 0 + 2^(Depth - 1)))
  BY <1>1, <1>2, TreeAtDef
<1>4. TreeAt(c, f, Depth, 0).kind = "Node"
  BY <1>3, NodeFields
<1>5. Finalize(TreeAt(c, f, Depth, 0), g - 0, Depth) = TreeAt(c, g, Depth, 0)
  BY <1>1, <1>2, FinalizeTree
<1>6. QED
  BY <1>1, <1>4, <1>5 DEF FinalizedInPlace

-----------------------------------------------------------------------------
(***************************************************************************)
(* What get_finalized and the leaves of such a tree come to                *)
(***************************************************************************)

\* How many of the first x deposits are in a subtree.
Within(x, level, s) ==
  IF x <= s THEN 0 ELSE IF s + 2^level <= x THEN 2^level ELSE x - s

\* The deposits in a subtree are those in its halves.
LEMMA WithinFacts ==
  ASSUME NEW x \in Nat, NEW level \in Levels, NEW s \in Nat
  PROVE  /\ Within(x, level, s) \in 0 .. 2^level
         /\ x <= s <=> Within(x, level, s) = 0
         /\ s + 2^level <= x <=> Within(x, level, s) = 2^level
         /\ level # 0 => Within(x, level, s) =
                           Within(x, level - 1, s) + Within(x, level - 1, s + 2^(level - 1))
<1>1. 2^level \in Nat \ {0}
  BY PowerFacts
<1>2. ASSUME level # 0
      PROVE  Within(x, level, s) =
               Within(x, level - 1, s) + Within(x, level - 1, s + 2^(level - 1))
  <2>1. /\ 2^(level - 1) \in Nat \ {0}
        /\ 2^level = 2^(level - 1) + 2^(level - 1)
    BY <1>2, Halves
  <2>2. QED
    BY <1>1, <2>1 DEF Within
<1>3. QED
  BY <1>1, <1>2 DEF Within

\* get_finalized and the number of leaves, for every kind of tree.
LEMMA MeasuresOfForms ==
  /\ \A n : Zero(n) \in Tree =>
       /\ GetFinalized(Zero(n)) = [result |-> <<>>, count |-> 0]
       /\ LeavesOf(Zero(n)) = 0
  /\ \A hash : Leaf(hash) \in Tree =>
       /\ GetFinalized(Leaf(hash)) = [result |-> <<>>, count |-> 0]
       /\ LeavesOf(Leaf(hash)) = 1
  /\ \A count, hash : Finalized(count, hash) \in Tree =>
       /\ GetFinalized(Finalized(count, hash)) = [result |-> <<hash>>, count |-> count]
       /\ LeavesOf(Finalized(count, hash)) = 0
  /\ \A a, b : Node(a, b) \in Tree =>
       /\ GetFinalized(Node(a, b)) =
            [result |-> GetFinalized(a).result \o GetFinalized(b).result,
             count |-> GetFinalized(a).count + GetFinalized(b).count]
       /\ LeavesOf(Node(a, b)) = LeavesOf(a) + LeavesOf(b)
<1>1. ASSUME NEW n, Zero(n) \in Tree
      PROVE  /\ GetFinalized(Zero(n)) = [result |-> <<>>, count |-> 0]
             /\ LeavesOf(Zero(n)) = 0
  <2>1. Zero(n).kind = "Zero"
    BY DEF Zero
  <2> HIDE DEF Zero
  <2>2. GetFinalized(Zero(n)) = [result |-> <<>>, count |-> 0]
    BY <1>1, <2>1, GetFinalizedDef
  <2>3. LeavesOf(Zero(n)) = 0
    BY <1>1, <2>1, LeavesOfDef
  <2>4. QED
    BY <2>2, <2>3
<1>2. ASSUME NEW hash, Leaf(hash) \in Tree
      PROVE  /\ GetFinalized(Leaf(hash)) = [result |-> <<>>, count |-> 0]
             /\ LeavesOf(Leaf(hash)) = 1
  <2>1. Leaf(hash).kind = "Leaf"
    BY DEF Leaf
  <2>2. GetFinalized(Leaf(hash)) = [result |-> <<>>, count |-> 0]
    BY <1>2, <2>1, GetFinalizedDef
  <2>3. LeavesOf(Leaf(hash)) = 1
    BY <1>2, <2>1, LeavesOfDef
  <2>4. QED
    BY <2>2, <2>3
<1>3. ASSUME NEW count, NEW hash, Finalized(count, hash) \in Tree
      PROVE  /\ GetFinalized(Finalized(count, hash)) = [result |-> <<hash>>, count |-> count]
             /\ LeavesOf(Finalized(count, hash)) = 0
  <2>1. /\ Finalized(count, hash).kind = "Finalized"
        /\ Finalized(count, hash).hash = hash
        /\ Finalized(count, hash).deposit_count = count
    BY DEF Finalized
  <2>2. GetFinalized(Finalized(count, hash)) = [result |-> <<hash>>, count |-> count]
    BY <1>3, <2>1, GetFinalizedDef
  <2>3. LeavesOf(Finalized(count, hash)) = 0
    BY <1>3, <2>1, LeavesOfDef
  <2>4. QED
    BY <2>2, <2>3
<1>4. ASSUME NEW a, NEW b, Node(a, b) \in Tree
      PROVE  /\ GetFinalized(Node(a, b)) =
                  [result |-> GetFinalized(a).result \o GetFinalized(b).result,
                   count |-> GetFinalized(a).count + GetFinalized(b).count]
             /\ LeavesOf(Node(a, b)) = LeavesOf(a) + LeavesOf(b)
  <2>1. Node(a, b).kind = "Node" /\ Node(a, b).left = a /\ Node(a, b).right = b
    BY NodeFields
  <2>2. GetFinalized(Node(a, b)) =
          [result |-> GetFinalized(a).result \o GetFinalized(b).result,
           count |-> GetFinalized(a).count + GetFinalized(b).count]
    BY <1>4, <2>1, GetFinalizedDef
  <2>3. LeavesOf(Node(a, b)) = LeavesOf(a) + LeavesOf(b)
    BY <1>4, <2>1, LeavesOfDef
  <2>4. QED
    BY <2>2, <2>3
<1>5. QED
  BY <1>1, <1>2, <1>3, <1>4

\* The finalized deposits and the leaves of a subtree.
LEMMA TreeCounts ==
  ASSUME NEW c \in 0 .. MaxDeposits, NEW f \in 0 .. c
  PROVE  \A level \in Levels : \A s \in Nat :
           /\ FinalizedCount(TreeAt(c, f, level, s)) = Within(f, level, s)
           /\ LeavesOf(TreeAt(c, f, level, s)) = Within(c, level, s) - Within(f, level, s)
<1> DEFINE I == {level \in Levels : \A s \in Nat :
                   /\ FinalizedCount(TreeAt(c, f, level, s)) = Within(f, level, s)
                   /\ LeavesOf(TreeAt(c, f, level, s))
                        = Within(c, level, s) - Within(f, level, s)}
<1>0. c \in Nat /\ f \in Nat /\ f <= c
  BY PowerFacts
<1>1. ASSUME NEW level \in Levels, level # 0 => level - 1 \in I PROVE level \in I
  <2>1. SUFFICES ASSUME NEW s \in Nat
                 PROVE  /\ FinalizedCount(TreeAt(c, f, level, s)) = Within(f, level, s)
                        /\ LeavesOf(TreeAt(c, f, level, s))
                             = Within(c, level, s) - Within(f, level, s)
    OBVIOUS
  <2>2. TreeAt(c, f, level, s) \in Tree /\ 2^level \in Nat \ {0}
    BY TreeInTree, PowerFacts
  <2>3. CASE c <= s
    <3>1. TreeAt(c, f, level, s) = Zero(level)
      BY <2>3, TreeAtDef
    <3>2. GetFinalized(TreeAt(c, f, level, s)).count = 0 /\ LeavesOf(TreeAt(c, f, level, s)) = 0
      BY <2>2, <3>1, MeasuresOfForms
    <3>3. Within(c, level, s) = 0 /\ Within(f, level, s) = 0
      BY <1>0, <2>3 DEF Within
    <3>4. QED
      BY <3>2, <3>3 DEF FinalizedCount
  <2>4. CASE ~(c <= s) /\ s + 2^level <= f
    <3>1. TreeAt(c, f, level, s) = Finalized(2^level, RootAt(f, level, s))
      BY <2>4, TreeAtDef
    <3>2. /\ GetFinalized(TreeAt(c, f, level, s)).count = 2^level
          /\ LeavesOf(TreeAt(c, f, level, s)) = 0
      BY <2>2, <3>1, MeasuresOfForms
    <3>3. Within(c, level, s) = 2^level /\ Within(f, level, s) = 2^level
      BY <1>0, <2>2, <2>4 DEF Within
    <3>4. QED
      BY <2>2, <3>2, <3>3 DEF FinalizedCount
  <2>5. CASE ~(c <= s) /\ ~(s + 2^level <= f) /\ level = 0
    <3>1. TreeAt(c, f, level, s) = Leaf(DepositRoot(s))
      BY <2>5, TreeAtDef
    <3>2. /\ GetFinalized(TreeAt(c, f, level, s)).count = 0
          /\ LeavesOf(TreeAt(c, f, level, s)) = 1
      BY <2>2, <3>1, MeasuresOfForms
    <3>a. 2^level = 1
      BY <2>5, PowerFacts
    <3>3. Within(c, level, s) = 1 /\ Within(f, level, s) = 0
      BY <1>0, <2>5, <3>a DEF Within
    <3>4. QED
      BY <3>2, <3>3 DEF FinalizedCount
  <2>6. CASE ~(c <= s) /\ ~(s + 2^level <= f) /\ level # 0
    <3> DEFINE left == TreeAt(c, f, level - 1, s)
               right == TreeAt(c, f, level - 1, s + 2^(level - 1))
    <3>1. TreeAt(c, f, level, s) = Node(left, right)
      BY <2>6, TreeAtDef
    <3>2. /\ GetFinalized(TreeAt(c, f, level, s)).count
               = GetFinalized(left).count + GetFinalized(right).count
          /\ LeavesOf(TreeAt(c, f, level, s)) = LeavesOf(left) + LeavesOf(right)
      <4> HIDE DEF left, right
      <4>1. Node(left, right) \in Tree
        BY <2>2, <3>1
      <4>2. /\ GetFinalized(Node(left, right)) =
                 [result |-> GetFinalized(left).result \o GetFinalized(right).result,
                  count |-> GetFinalized(left).count + GetFinalized(right).count]
            /\ LeavesOf(Node(left, right)) = LeavesOf(left) + LeavesOf(right)
        BY <4>1, MeasuresOfForms, Zenon
      <4>3. GetFinalized(Node(left, right)).count =
              GetFinalized(left).count + GetFinalized(right).count
        BY <4>2
      <4>4. QED
        BY <3>1, <4>2, <4>3
    <3>3. level - 1 \in Levels /\ s + 2^(level - 1) \in Nat
      BY <2>6, Halves
    <3>4. /\ FinalizedCount(left) = Within(f, level - 1, s)
          /\ LeavesOf(left) = Within(c, level - 1, s) - Within(f, level - 1, s)
          /\ FinalizedCount(right) = Within(f, level - 1, s + 2^(level - 1))
          /\ LeavesOf(right) = Within(c, level - 1, s + 2^(level - 1))
                                 - Within(f, level - 1, s + 2^(level - 1))
      BY <1>1, <2>6, <3>3
    <3> HIDE DEF left, right
    <3>5. /\ Within(f, level - 1, s) \in Nat
          /\ Within(c, level - 1, s) \in Nat
          /\ Within(f, level - 1, s + 2^(level - 1)) \in Nat
          /\ Within(c, level - 1, s + 2^(level - 1)) \in Nat
      <4>1. 2^(level - 1) \in Nat
        BY <3>3, PowerFacts
      <4>2. \A x \in Nat, t \in Nat : Within(x, level - 1, t) \in 0 .. 2^(level - 1)
        BY <3>3, WithinFacts
      <4>3. ASSUME NEW x \in Nat, NEW t \in Nat PROVE Within(x, level - 1, t) \in Nat
        <5>1. Within(x, level - 1, t) \in 0 .. 2^(level - 1)
          BY <4>2
        <5>2. QED
          BY <4>1, <5>1
      <4>4. QED
        BY <1>0, <3>3, <4>3
    <3>6. /\ Within(f, level, s) =
               Within(f, level - 1, s) + Within(f, level - 1, s + 2^(level - 1))
          /\ Within(c, level, s) =
               Within(c, level - 1, s) + Within(c, level - 1, s + 2^(level - 1))
      BY <1>0, <2>6, WithinFacts
    <3>7. QED
      BY <3>2, <3>4, <3>5, <3>6 DEF FinalizedCount
  <2>7. QED
    BY <2>3, <2>4, <2>5, <2>6
<1> HIDE DEF I
<1>2. \A level \in Levels : level \in I
  BY <1>1, EveryLevel
<1>3. QED
  BY <1>2 DEF I

\* The finalized deposits and the leaves of a tree.
LEMMA RootCounts ==
  ASSUME NEW c \in 0 .. MaxDeposits, NEW f \in 0 .. c
  PROVE  /\ FinalizedCount(TreeAt(c, f, Depth, 0)) = f
         /\ LeavesOf(TreeAt(c, f, Depth, 0)) = c - f
<1>1. Depth \in Levels /\ 0 \in Nat
  BY LevelFacts
<1>2. \A x \in 0 .. MaxDeposits : Within(x, Depth, 0) = x
  BY <1>1, PowerFacts DEF Within
<1>3. f \in 0 .. MaxDeposits
  BY PowerFacts
<1>4. Within(c, Depth, 0) = c /\ Within(f, Depth, 0) = f
  BY <1>2, <1>3
<1>5. QED
  BY <1>1, <1>4, TreeCounts

-----------------------------------------------------------------------------
(***************************************************************************)
(* The hashes of a snapshot                                                *)
(***************************************************************************)

\* The hashes of all heights.
AllHashes == UNION {Hash[level] : level \in Levels}

\* The hashes of a subtree whose first f deposits are finalized, and no others
\* pushed.
Hashes(f, level, s) == FinalizedHashes(TreeAt(f, f, level, s))

\* The hashes of a Node are those of its children, from left to right.
LEMMA NodeHashes ==
  ASSUME NEW a, NEW b, Node(a, b) \in Tree
  PROVE  FinalizedHashes(Node(a, b)) = FinalizedHashes(a) \o FinalizedHashes(b)
<1>1. GetFinalized(Node(a, b)) =
        [result |-> GetFinalized(a).result \o GetFinalized(b).result,
         count |-> GetFinalized(a).count + GetFinalized(b).count]
  BY MeasuresOfForms, Zenon
<1>2. GetFinalized(Node(a, b)).result = GetFinalized(a).result \o GetFinalized(b).result
  <2> DEFINE x == GetFinalized(a).result \o GetFinalized(b).result
             y == GetFinalized(a).count + GetFinalized(b).count
  <2>1. GetFinalized(Node(a, b)) = [result |-> x, count |-> y]
    BY <1>1
  <2> HIDE DEF x, y
  <2>2. GetFinalized(Node(a, b)).result = x
    BY <2>1
  <2>3. QED
    BY <2>2 DEF x
<1>3. \A t : FinalizedHashes(t) = GetFinalized(t).result
  BY DEF FinalizedHashes
<1> HIDE DEF Node
<1>4. QED
  BY <1>2, <1>3, Zenon

\* A subtree without finalized deposits has no hashes.
LEMMA NoHashes ==
  ASSUME NEW c \in 0 .. MaxDeposits, NEW f \in 0 .. c
  PROVE  \A level \in Levels : \A s \in Nat :
           f <= s => FinalizedHashes(TreeAt(c, f, level, s)) = <<>>
<1> DEFINE I == {level \in Levels : \A s \in Nat :
                   f <= s => FinalizedHashes(TreeAt(c, f, level, s)) = <<>>}
<1>0. c \in Nat /\ f \in Nat /\ f <= c
  BY PowerFacts
<1>1. ASSUME NEW level \in Levels, level # 0 => level - 1 \in I PROVE level \in I
  <2>1. SUFFICES ASSUME NEW s \in Nat, f <= s
                 PROVE  FinalizedHashes(TreeAt(c, f, level, s)) = <<>>
    OBVIOUS
  <2>2. TreeAt(c, f, level, s) \in Tree
    BY TreeInTree
  <2>3. ~(s + 2^level <= f)
    BY <1>0, <2>1, PowerFacts
  <2>4. CASE c <= s
    <3>1. TreeAt(c, f, level, s) = Zero(level)
      BY <2>4, TreeAtDef
    <3>2. QED
      BY <2>2, <3>1, MeasuresOfForms DEF FinalizedHashes
  <2>5. CASE ~(c <= s) /\ level = 0
    <3>1. TreeAt(c, f, level, s) = Leaf(DepositRoot(s))
      BY <2>3, <2>5, TreeAtDef
    <3>2. QED
      BY <2>2, <3>1, MeasuresOfForms DEF FinalizedHashes
  <2>6. CASE ~(c <= s) /\ level # 0
    <3> DEFINE left == TreeAt(c, f, level - 1, s)
               right == TreeAt(c, f, level - 1, s + 2^(level - 1))
    <3>1. TreeAt(c, f, level, s) = Node(left, right)
      BY <2>3, <2>6, TreeAtDef
    <3>2. s + 2^(level - 1) \in Nat /\ f <= s + 2^(level - 1)
      BY <1>0, <2>1, <2>6, Halves
    <3>3. FinalizedHashes(left) = <<>> /\ FinalizedHashes(right) = <<>>
      BY <1>1, <2>1, <2>6, <3>2
    <3> HIDE DEF left, right
    <3>4. FinalizedHashes(Node(left, right)) = <<>> \o <<>>
      BY <2>2, <3>1, <3>3, NodeHashes
    <3>5. QED
      BY <3>1, <3>4
  <2>7. QED
    BY <2>4, <2>5, <2>6
<1> HIDE DEF I
<1>2. \A level \in Levels : level \in I
  BY <1>1, EveryLevel
<1>3. QED
  BY <1>2 DEF I

\* The hashes of a subtree: its root if it is covered, else those of its halves.
LEMMA HashesOfTree ==
  ASSUME NEW c \in 0 .. MaxDeposits, NEW f \in 0 .. c
  PROVE  \A level \in Levels : \A s \in Nat :
           FinalizedHashes(TreeAt(c, f, level, s)) =
             IF f <= s THEN <<>>
             ELSE IF s + 2^level <= f THEN <<RootAt(f, level, s)>>
             ELSE FinalizedHashes(TreeAt(c, f, level - 1, s))
                    \o FinalizedHashes(TreeAt(c, f, level - 1, s + 2^(level - 1)))
<1>0. c \in Nat /\ f \in Nat /\ f <= c
  BY PowerFacts
<1> SUFFICES ASSUME NEW level \in Levels, NEW s \in Nat
             PROVE  FinalizedHashes(TreeAt(c, f, level, s)) =
                      IF f <= s THEN <<>>
                      ELSE IF s + 2^level <= f THEN <<RootAt(f, level, s)>>
                      ELSE FinalizedHashes(TreeAt(c, f, level - 1, s))
                             \o FinalizedHashes(TreeAt(c, f, level - 1, s + 2^(level - 1)))
  OBVIOUS
<1>1. TreeAt(c, f, level, s) \in Tree
  BY TreeInTree
<1>2. CASE f <= s
  BY <1>2, NoHashes
<1>3. CASE ~(f <= s) /\ s + 2^level <= f
  <2>1. ~(c <= s)
    BY <1>0, <1>3
  <2>2. TreeAt(c, f, level, s) = Finalized(2^level, RootAt(f, level, s))
    BY <1>3, <2>1, TreeAtDef
  <2>3. FinalizedHashes(TreeAt(c, f, level, s)) = <<RootAt(f, level, s)>>
    BY <1>1, <2>2, MeasuresOfForms DEF FinalizedHashes
  <2>4. QED
    BY <1>3, <2>3
<1>4. CASE ~(f <= s) /\ ~(s + 2^level <= f)
  <2> DEFINE left == TreeAt(c, f, level - 1, s)
             right == TreeAt(c, f, level - 1, s + 2^(level - 1))
  <2>1. ~(c <= s)
    BY <1>0, <1>4
  <2>2. level # 0
    <3>1. ASSUME level = 0 PROVE FALSE
      <4>1. 2^level = 1
        BY <3>1, PowerFacts
      <4>2. QED
        BY <1>0, <1>4, <4>1
    <3>2. QED
      BY <3>1
  <2>3. TreeAt(c, f, level, s) = Node(left, right)
    BY <1>4, <2>1, <2>2, TreeAtDef
  <2>4. FinalizedHashes(TreeAt(c, f, level, s)) = FinalizedHashes(left) \o FinalizedHashes(right)
    <3> HIDE DEF left, right
    <3>1. QED
      BY <1>1, <2>3, NodeHashes
  <2>5. QED
    BY <1>4, <2>4
<1>5. QED
  BY <1>2, <1>3, <1>4

\* The same of Hashes.
LEMMA HashesDef ==
  ASSUME NEW f \in 0 .. MaxDeposits
  PROVE  \A level \in Levels : \A s \in Nat :
           Hashes(f, level, s) =
             IF f <= s THEN <<>>
             ELSE IF s + 2^level <= f THEN <<RootAt(f, level, s)>>
             ELSE Hashes(f, level - 1, s) \o Hashes(f, level - 1, s + 2^(level - 1))
<1>1. f \in 0 .. f
  BY PowerFacts
<1>2. QED
  BY <1>1, HashesOfTree DEF Hashes

\* The hashes do not depend on the deposits that are not finalized.
LEMMA HashesIndependent ==
  ASSUME NEW c \in 0 .. MaxDeposits, NEW f \in 0 .. c
  PROVE  \A level \in Levels : \A s \in Nat :
           FinalizedHashes(TreeAt(c, f, level, s)) = Hashes(f, level, s)
<1> DEFINE I == {level \in Levels : \A s \in Nat :
                   FinalizedHashes(TreeAt(c, f, level, s)) = Hashes(f, level, s)}
<1>0. c \in Nat /\ f \in Nat /\ f <= c /\ f \in 0 .. MaxDeposits
  BY PowerFacts
<1>1. ASSUME NEW level \in Levels, level # 0 => level - 1 \in I PROVE level \in I
  <2>1. SUFFICES ASSUME NEW s \in Nat
                 PROVE  FinalizedHashes(TreeAt(c, f, level, s)) = Hashes(f, level, s)
    OBVIOUS
  <2>2. CASE f <= s
    BY <1>0, <2>2, HashesDef, HashesOfTree
  <2>3. CASE ~(f <= s) /\ s + 2^level <= f
    BY <1>0, <2>3, HashesDef, HashesOfTree
  <2>4. CASE ~(f <= s) /\ ~(s + 2^level <= f)
    <3>1. level # 0
      <4>1. ASSUME level = 0 PROVE FALSE
        <5>1. 2^level = 1
          BY <4>1, PowerFacts
        <5>2. QED
          BY <1>0, <2>4, <5>1
      <4>2. QED
        BY <4>1
    <3>2. s + 2^(level - 1) \in Nat
      BY <3>1, Halves
    <3>3. /\ FinalizedHashes(TreeAt(c, f, level - 1, s)) = Hashes(f, level - 1, s)
          /\ FinalizedHashes(TreeAt(c, f, level - 1, s + 2^(level - 1)))
               = Hashes(f, level - 1, s + 2^(level - 1))
      BY <1>1, <3>1, <3>2
    <3>4. Hashes(f, level, s) = Hashes(f, level - 1, s) \o Hashes(f, level - 1, s + 2^(level - 1))
      BY <1>0, <2>4, HashesDef
    <3>5. FinalizedHashes(TreeAt(c, f, level, s)) =
            FinalizedHashes(TreeAt(c, f, level - 1, s))
              \o FinalizedHashes(TreeAt(c, f, level - 1, s + 2^(level - 1)))
      BY <2>4, HashesOfTree
    <3>6. QED
      BY <3>3, <3>4, <3>5
  <2>5. QED
    BY <2>2, <2>3, <2>4
<1> HIDE DEF I
<1>2. \A level \in Levels : level \in I
  BY <1>1, EveryLevel
<1>3. QED
  BY <1>2 DEF I

\* There is a hash for a subtree in which a deposit is finalized.
LEMMA HashesType ==
  ASSUME NEW f \in 0 .. MaxDeposits
  PROVE  \A level \in Levels : \A s \in Nat :
           /\ Hashes(f, level, s) \in Seq(AllHashes)
           /\ s < f => Len(Hashes(f, level, s)) >= 1
<1> DEFINE I == {level \in Levels : \A s \in Nat :
                   /\ Hashes(f, level, s) \in Seq(AllHashes)
                   /\ s < f => Len(Hashes(f, level, s)) >= 1}
<1>0. f \in Nat
  BY PowerFacts
<1>1. ASSUME NEW level \in Levels, level # 0 => level - 1 \in I PROVE level \in I
  <2>1. SUFFICES ASSUME NEW s \in Nat
                 PROVE  /\ Hashes(f, level, s) \in Seq(AllHashes)
                        /\ s < f => Len(Hashes(f, level, s)) >= 1
    OBVIOUS
  <2>2. CASE f <= s
    <3>1. Hashes(f, level, s) = <<>>
      BY <2>2, HashesDef
    <3>2. QED
      BY <1>0, <2>2, <3>1
  <2>3. CASE ~(f <= s) /\ s + 2^level <= f
    <3>1. Hashes(f, level, s) = <<RootAt(f, level, s)>>
      BY <2>3, HashesDef
    <3>2. RootAt(f, level, s) \in Hash[level]
      BY RootType
    <3>3. RootAt(f, level, s) \in AllHashes
      BY <3>2 DEF AllHashes
    <3>4. QED
      BY <3>1, <3>3
  <2>4. CASE ~(f <= s) /\ ~(s + 2^level <= f)
    <3>1. level # 0
      <4>1. ASSUME level = 0 PROVE FALSE
        <5>1. 2^level = 1
          BY <4>1, PowerFacts
        <5>2. QED
          BY <1>0, <2>4, <5>1
      <4>2. QED
        BY <4>1
    <3>2. s + 2^(level - 1) \in Nat
      BY <3>1, Halves
    <3>3. /\ Hashes(f, level - 1, s) \in Seq(AllHashes)
          /\ Len(Hashes(f, level - 1, s)) >= 1
          /\ Hashes(f, level - 1, s + 2^(level - 1)) \in Seq(AllHashes)
      BY <1>0, <1>1, <2>4, <3>1, <3>2
    <3>4. Hashes(f, level, s) = Hashes(f, level - 1, s) \o Hashes(f, level - 1, s + 2^(level - 1))
      BY <2>4, HashesDef
    <3> DEFINE a == Hashes(f, level - 1, s)
               b == Hashes(f, level - 1, s + 2^(level - 1))
    <3> HIDE DEF a, b
    <3>5. a \in Seq(AllHashes) /\ b \in Seq(AllHashes) /\ Len(a) >= 1
      BY <3>3 DEF a, b
    <3>6. a \o b \in Seq(AllHashes) /\ Len(a \o b) >= 1
      BY <3>5
    <3>7. QED
      BY <3>4, <3>6 DEF a, b
  <2>5. QED
    BY <2>2, <2>3, <2>4
<1> HIDE DEF I
<1>2. \A level \in Levels : level \in I
  BY <1>1, EveryLevel
<1>3. QED
  BY <1>2 DEF I

-----------------------------------------------------------------------------
(***************************************************************************)
(* from_snapshot                                                           *)
(***************************************************************************)

\* sequence holds the items of part after its first i items.
Holds(sequence, i, part) ==
  /\ i + Len(part) <= Len(sequence)
  /\ \A k \in 1 .. Len(part) : sequence[i + k] = part[k]

\* What holds a concatenation holds its parts, one after the other.
LEMMA HoldsParts ==
  ASSUME NEW S, NEW sequence \in Seq(S), NEW a \in Seq(S), NEW b \in Seq(S), NEW i \in Nat,
         Holds(sequence, i, a \o b)
  PROVE  Holds(sequence, i, a) /\ Holds(sequence, i + Len(a), b)
<1> DEFINE ab == a \o b
<1>1. /\ Len(ab) = Len(a) + Len(b)
      /\ \A k \in 1 .. Len(a) + Len(b) : ab[k] = IF k <= Len(a) THEN a[k] ELSE b[k - Len(a)]
  BY ConcatProperties
<1>2. Holds(sequence, i, ab)
  OBVIOUS
<1>3. Len(a) \in Nat /\ Len(b) \in Nat /\ Len(sequence) \in Nat
  OBVIOUS
<1> HIDE DEF ab
<1> DEFINE la == Len(a)
           lb == Len(b)
<1>4. /\ la \in Nat /\ lb \in Nat /\ i + (la + lb) <= Len(sequence)
      /\ \A k \in 1 .. la + lb :
           sequence[i + k] = IF k <= la THEN a[k] ELSE b[k - la]
  BY <1>1, <1>2, <1>3 DEF Holds
<1>5. la = Len(a) /\ lb = Len(b)
  OBVIOUS
<1> HIDE DEF la, lb
<1>6. i + la <= Len(sequence) /\ i + la + lb <= Len(sequence)
  BY <1>3, <1>4
<1>7. ASSUME NEW k \in 1 .. la PROVE sequence[i + k] = a[k]
  <2>1. k \in 1 .. la + lb /\ k <= la
    BY <1>4
  <2>2. QED
    BY <1>4, <2>1
<1>8. ASSUME NEW k \in 1 .. lb PROVE sequence[i + la + k] = b[k]
  <2> DEFINE j == la + k
  <2>1. j \in 1 .. la + lb /\ ~(j <= la) /\ j - la = k /\ i + j = i + la + k
    BY <1>4
  <2> HIDE DEF j
  <2>2. sequence[i + j] = IF j <= la THEN a[j] ELSE b[j - la]
    BY <1>4, <2>1
  <2>3. sequence[i + j] = b[k]
    BY <2>1, <2>2
  <2>4. QED
    BY <2>1, <2>3
<1>9. QED
  BY <1>5, <1>6, <1>7, <1>8 DEF Holds

\* from_snapshot_parts of the hashes of a snapshot rebuilds the tree that has
\* exactly the finalized deposits.
LEMMA SnapshotTree ==
  ASSUME NEW f \in 0 .. MaxDeposits
  PROVE  FromSnapshotParts(Hashes(f, Depth, 0), f, Depth) = TreeAt(f, f, Depth, 0)
<1> DEFINE hs == Hashes(f, Depth, 0)
<1>0. f \in Nat /\ Depth \in Levels /\ 0 \in Nat /\ f < 2^Depth
  BY LevelFacts, PowerFacts
<1>1. hs \in Seq(AllHashes)
  BY <1>0, HashesType
<1>2. Len(hs) \in Nat
  BY <1>1
<1>a. hs = Hashes(f, Depth, 0)
  OBVIOUS
<1> HIDE DEF hs
<1>3. PICK parts :
        /\ \A count, depth : FromSnapshotParts(hs, count, depth) = parts[depth][1][count]
        /\ \A level \in Levels : \A i \in 1 .. Len(hs) + 1 : \A deposits \in 0 .. 2^level :
             parts[level][i][deposits] = PartsAt(hs, level, i, deposits, parts)
  BY FromSnapshotPartsDef
<1> DEFINE I == {level \in Levels : \A s \in Nat, i \in Nat :
                   Holds(hs, i, Hashes(f, level, s)) =>
                     parts[level][i + 1][Within(f, level, s)] = TreeAt(f, f, level, s)}
<1>4. ASSUME NEW level \in Levels, level # 0 => level - 1 \in I PROVE level \in I
  <2>1. SUFFICES ASSUME NEW s \in Nat, NEW i \in Nat, Holds(hs, i, Hashes(f, level, s))
                 PROVE  parts[level][i + 1][Within(f, level, s)] = TreeAt(f, f, level, s)
    OBVIOUS
  <2>2. Hashes(f, level, s) \in Seq(AllHashes)
    BY HashesType
  <2>3. Len(Hashes(f, level, s)) \in Nat /\ i + Len(Hashes(f, level, s)) <= Len(hs)
    BY <2>1, <2>2 DEF Holds
  <2>4. i + 1 \in 1 .. Len(hs) + 1
    BY <1>2, <2>3
  <2>5. Within(f, level, s) \in 0 .. 2^level
    BY <1>0, WithinFacts
  <2>6. parts[level][i + 1][Within(f, level, s)] =
          PartsAt(hs, level, i + 1, Within(f, level, s), parts)
    BY <1>3, <2>4, <2>5
  <2>7. 2^level \in Nat \ {0}
    BY PowerFacts
  <2>8. CASE f <= s
    <3>1. Within(f, level, s) = 0
      BY <1>0, <2>8, WithinFacts
    <3>2. PartsAt(hs, level, i + 1, Within(f, level, s), parts) = Zero(level)
      BY <3>1 DEF PartsAt
    <3>3. TreeAt(f, f, level, s) = Zero(level)
      BY <2>8, TreeAtDef
    <3>4. QED
      BY <2>6, <3>2, <3>3
  <2>9. CASE ~(f <= s) /\ s + 2^level <= f
    <3>1. Hashes(f, level, s) = <<RootAt(f, level, s)>>
      BY <2>9, HashesDef
    <3>2. Len(Hashes(f, level, s)) = 1 /\ Hashes(f, level, s)[1] = RootAt(f, level, s)
      BY <3>1
    <3>3. hs[i + 1] = RootAt(f, level, s) /\ ~(i + 1 > Len(hs))
      BY <1>2, <2>1, <2>3, <3>2 DEF Holds
    <3>4. Within(f, level, s) = 2^level
      BY <1>0, <2>9, WithinFacts
    <3>5. PartsAt(hs, level, i + 1, Within(f, level, s), parts)
            = Finalized(2^level, RootAt(f, level, s))
      BY <2>7, <3>3, <3>4 DEF PartsAt
    <3>6. TreeAt(f, f, level, s) = Finalized(2^level, RootAt(f, level, s))
      BY <2>9, TreeAtDef
    <3>7. QED
      BY <2>6, <3>5, <3>6
  <2>10. CASE ~(f <= s) /\ ~(s + 2^level <= f)
    <3> DEFINE half == 2^(level - 1)
               d == f - s
               lh == Hashes(f, level - 1, s)
               rh == Hashes(f, level - 1, s + half)
               left == TreeAt(f, f, level - 1, s)
               right == TreeAt(f, f, level - 1, s + half)
    <3>1. level # 0
      <4>1. ASSUME level = 0 PROVE FALSE
        <5>1. 2^level = 1
          BY <4>1, PowerFacts
        <5>2. QED
          BY <1>0, <2>10, <5>1
      <4>2. QED
        BY <4>1
    <3>2. /\ level - 1 \in Levels /\ half \in Nat \ {0} /\ s + half \in Nat
          /\ 2^level = half + half
      BY <3>1, Halves
    <3>3. d \in Nat /\ d # 0 /\ d # 2^level /\ d < 2^level
      BY <1>0, <2>7, <2>10
    <3>4. Within(f, level, s) = d
      BY <2>10 DEF Within
    <3>5. s < f
      BY <1>0, <2>10
    <3>6. Len(Hashes(f, level, s)) >= 1
      BY <3>5, HashesType
    <3>7. ~(i + 1 > Len(hs))
      BY <1>2, <2>3, <3>6
    <3>8. Hashes(f, level, s) = lh \o rh
      BY <2>10, HashesDef
    <3>9. lh \in Seq(AllHashes) /\ rh \in Seq(AllHashes)
      BY <3>2, HashesType
    <3>10. Holds(hs, i, lh) /\ Holds(hs, i + Len(lh), rh)
      <4> HIDE DEF lh, rh
      <4>1. QED
        BY <1>1, <2>1, <3>8, <3>9, HoldsParts
    <3>11. TreeAt(f, f, level, s) = Node(left, right)
      BY <2>10, <3>1, TreeAtDef
    <3>12. PartsAt(hs, level, i + 1, d, parts) =
             IF d <= half THEN Node(parts[level - 1][i + 1][d], Zero(level - 1))
             ELSE Node(Finalized(half, hs[i + 1]),
                       parts[level - 1][i + 1 + 1][d - half])
      <4> HIDE DEF d
      <4>1. QED
        BY <3>3, <3>7 DEF PartsAt
    <3>13. CASE f <= s + half
      <4>1. d <= half
        BY <1>0, <3>2, <3>13
      <4>2. Within(f, level - 1, s) = d
        BY <1>0, <2>10, <3>2, <3>13 DEF Within
      <4>3. parts[level - 1][i + 1][Within(f, level - 1, s)] = left
        BY <1>4, <3>1, <3>10
      <4>4. right = Zero(level - 1)
        BY <3>2, <3>13, TreeAtDef
      <4> HIDE DEF left, right, d, half
      <4>5. QED
        BY <2>6, <3>4, <3>11, <3>12, <4>1, <4>2, <4>3, <4>4
    <3>14. CASE ~(f <= s + half)
      <4>1. ~(d <= half)
        BY <1>0, <3>2, <3>14
      <4>2. s + half <= f
        BY <1>0, <3>2, <3>14
      <4>3. left = Finalized(half, RootAt(f, level - 1, s))
        BY <2>10, <3>2, <4>2, TreeAtDef
      <4>4. lh = <<RootAt(f, level - 1, s)>>
        BY <2>10, <3>2, <4>2, HashesDef
      <4>5. Len(lh) = 1 /\ lh[1] = RootAt(f, level - 1, s)
        <5> HIDE DEF lh
        <5>1. QED
          BY <4>4
      <4>6. hs[i + 1] = RootAt(f, level - 1, s)
        <5> HIDE DEF lh
        <5>1. QED
          BY <3>10, <4>5 DEF Holds
      <4>7. Within(f, level - 1, s + half) = d - half
        <5>1. ~(s + half + half <= f)
          BY <2>10, <3>2
        <5>2. f - (s + half) = d - half
          BY <1>0, <3>2
        <5>3. QED
          BY <3>14, <5>1, <5>2 DEF Within
      <4>8. Holds(hs, i + 1, rh) /\ i + 1 \in Nat
        <5> HIDE DEF lh, rh
        <5>1. QED
          BY <3>10, <4>5
      <4>9. parts[level - 1][i + 1 + 1][Within(f, level - 1, s + half)] = right
        BY <1>4, <3>1, <3>2, <4>8
      <4> HIDE DEF left, right, d, half, lh, rh
      <4>10. QED
        BY <2>6, <3>4, <3>11, <3>12, <4>1, <4>3, <4>6, <4>7, <4>9
    <3>15. QED
      BY <3>13, <3>14
  <2>11. QED
    BY <2>8, <2>9, <2>10
<1> HIDE DEF I
<1>5. \A level \in Levels : level \in I
  BY <1>4, EveryLevel
<1>6. Holds(hs, 0, hs)
  BY <1>2 DEF Holds
<1>7. parts[Depth][0 + 1][Within(f, Depth, 0)] = TreeAt(f, f, Depth, 0)
  BY <1>0, <1>5, <1>6, <1>a DEF I
<1>8. Within(f, Depth, 0) = f
  <2>1. ~(0 + 2^Depth <= f) /\ f - 0 = f /\ (f <= 0 => f = 0)
    BY <1>0, PowerFacts
  <2>2. QED
    BY <2>1 DEF Within
<1>9. FromSnapshotParts(hs, f, Depth) = TreeAt(f, f, Depth, 0)
  BY <1>3, <1>7, <1>8
<1>10. QED
  BY <1>9, <1>a

-----------------------------------------------------------------------------
(***************************************************************************)
(* The path to a leaf, and calculate_root                                  *)
(***************************************************************************)

\* Induction from the top of a tree to its bottom.
LEMMA EveryLevelDown ==
  ASSUME NEW I, Depth \in I,
         ASSUME NEW level \in Levels, level # 0, level \in I PROVE level - 1 \in I
  PROVE  \A level \in Levels : level \in I
<1> DEFINE J == {n \in 0 .. Depth : Depth - n \in I}
<1>1. 0 \in J
  BY LevelFacts
<1>2. ASSUME NEW n \in 0 .. Depth - 1, n \in J PROVE n + 1 \in J
  <2>1. /\ Depth - n \in Levels /\ Depth - n # 0 /\ Depth - n - 1 = Depth - (n + 1)
        /\ n + 1 \in 0 .. Depth
    BY LevelFacts DEF Levels
  <2>2. Depth - n - 1 \in I
    BY <1>2, <2>1
  <2>3. QED
    BY <2>1, <2>2
<1>3. \A n \in 0 .. Depth : n \in J
  <2> HIDE DEF J
  <2>1. QED
    BY <1>1, <1>2, LevelFacts, LevelInduction
<1>4. ASSUME NEW level \in Levels PROVE level \in I
  <2>1. Depth - level \in 0 .. Depth /\ Depth - (Depth - level) = level
    BY LevelFacts
  <2>2. QED
    BY <1>3, <2>1
<1>5. QED
  BY <1>4

\* The first leaf of the subtree of height level that holds leaf x.
Start(x, level) == x - (x % 2^level)

\* On the way down to leaf x, bit level - 1 of x tells the half it is in.
LEMMA StartFacts ==
  ASSUME NEW x \in Nat, NEW level \in Levels
  PROVE  /\ Start(x, level) \in Nat
         /\ Start(x, level) <= x /\ x < Start(x, level) + 2^level
         /\ Start(x, 0) = x
         /\ level # 0 => /\ Bit(x, level - 1) \in {0, 1}
                         /\ Bit(x, level - 1) = 0 => Start(x, level - 1) = Start(x, level)
                         /\ Bit(x, level - 1) = 1 =>
                              Start(x, level - 1) = Start(x, level) + 2^(level - 1)
<1>1. 2^level \in Nat \ {0}
  BY PowerFacts
<1>2. /\ Start(x, level) \in Nat
      /\ Start(x, level) <= x /\ x < Start(x, level) + 2^level
  <2> DEFINE p == 2^level
  <2>1. p \in Nat \ {0}
    BY <1>1
  <2>2. Start(x, level) = x - (x % p)
    BY DEF Start
  <2> HIDE DEF p
  <2> DEFINE r == x % p
             q == x \div p
  <2>3. r \in 0 .. p - 1 /\ q \in Nat /\ x = p * q + r
    BY <2>1
  <2>4. p * q \in Nat
    BY <2>1, <2>3
  <2>5. Start(x, level) = x - r
    BY <2>2
  <2> HIDE DEF r, q
  <2>6. QED
    BY <2>1, <2>3, <2>4, <2>5 DEF p
<1>3. Start(x, 0) = x
  <2>1. x % 1 = 0
    OBVIOUS
  <2>2. QED
    BY <2>1, PowerFacts DEF Start
<1>4. ASSUME level # 0
      PROVE  /\ Bit(x, level - 1) \in {0, 1}
             /\ Bit(x, level - 1) = 0 => Start(x, level - 1) = Start(x, level)
             /\ Bit(x, level - 1) = 1 => Start(x, level - 1) = Start(x, level) + 2^(level - 1)
  <2> DEFINE p == 2^(level - 1)
             b == Bit(x, level - 1)
  <2>1. p \in Nat \ {0} /\ 2^level = p + p
    BY <1>4, Halves
  <2>2. b = (x \div p) % 2 /\ Start(x, level - 1) = x - (x % p) /\ Start(x, level) = x - (x % 2^level)
    BY DEF Bit, Start
  <2>3. 2^level = 2 * p
    BY <2>1
  <2> HIDE DEF p, b
  <2>4. x % p \in 0 .. p - 1 /\ b \in {0, 1} /\ x % (2 * p) = (x % p) + p * b
    BY <2>1, <2>2, Halving
  <2>5. x % 2^level = (x % p) + p * b
    BY <2>3, <2>4
  <2>6. /\ b = 0 => x % 2^level = x % p
        /\ b = 1 => x % 2^level = (x % p) + p
    BY <2>1, <2>4, <2>5
  <2>7. /\ b = 0 => Start(x, level - 1) = Start(x, level)
        /\ b = 1 => Start(x, level - 1) = Start(x, level) + p
    <3> DEFINE u == x % p
               v == x % 2^level
    <3>1. u \in Int /\ (b = 0 => v = u) /\ (b = 1 => v = u + p)
      BY <2>1, <2>4, <2>6
    <3>2. Start(x, level - 1) = x - u /\ Start(x, level) = x - v
      BY <2>2
    <3> HIDE DEF u, v
    <3>3. QED
      BY <2>1, <3>1, <3>2
  <2>8. QED
    BY <2>4, <2>7 DEF p, b
<1>5. QED
  BY <1>2, <1>3, <1>4

\* All leaves are in the subtree that begins at 0.
LEMMA TopFacts ==
  ASSUME NEW x \in 0 .. MaxDeposits
  PROVE  Start(x, Depth) = 0 /\ Bit(x, Depth) = 0
<1>1. x \in Nat /\ 2^Depth \in Nat \ {0} /\ x \in 0 .. 2^Depth - 1
  BY PowerFacts, LevelFacts
<1>2. x = 2^Depth * 0 + x
  BY <1>1
<1>3. x \div 2^Depth = 0 /\ x % 2^Depth = x
  BY <1>1, <1>2, DivisionUnique
<1>4. 0 % 2 = 0
  OBVIOUS
<1>5. QED
  BY <1>1, <1>3, <1>4 DEF Start, Bit

\* The hashes of the subtree that the number of finalized deposits leads into.
PathHashes(f, level) == Hashes(f, level, Start(f, level))

\* On the way down a hash is left behind for every bit that is set: the root of
\* the left half.
LEMMA PathHashesDef ==
  ASSUME NEW f \in 0 .. MaxDeposits, NEW level \in Levels
  PROVE  /\ PathHashes(f, level) \in Seq(AllHashes)
         /\ PathHashes(f, 0) = <<>>
         /\ level # 0 /\ Bit(f, level - 1) = 0 => PathHashes(f, level) = PathHashes(f, level - 1)
         /\ level # 0 /\ Bit(f, level - 1) = 1 =>
              PathHashes(f, level) =
                <<RootAt(f, level - 1, Start(f, level))>> \o PathHashes(f, level - 1)
<1> DEFINE a == Start(f, level)
           half == 2^(level - 1)
<1>0. f \in Nat /\ 0 \in Levels
  BY PowerFacts, LevelFacts
<1>1. a \in Nat /\ a <= f /\ f < a + 2^level
  BY <1>0, StartFacts
<1>2. PathHashes(f, level) = Hashes(f, level, a)
  BY DEF PathHashes
<1>3. PathHashes(f, level) \in Seq(AllHashes)
  BY <1>1, <1>2, HashesType
<1>4. PathHashes(f, 0) = <<>>
  <2>1. Start(f, 0) = f /\ f <= f
    BY <1>0, StartFacts
  <2>2. Hashes(f, 0, f) = <<>>
    BY <1>0, <2>1, HashesDef
  <2>3. QED
    BY <2>1, <2>2 DEF PathHashes
<1>5. ASSUME level # 0, Bit(f, level - 1) = 0
      PROVE  PathHashes(f, level) = PathHashes(f, level - 1)
  <2>1. PathHashes(f, level - 1) = Hashes(f, level - 1, a)
    BY <1>0, <1>5, StartFacts DEF PathHashes
  <2>2. level - 1 \in Levels /\ half \in Nat /\ a + half \in Nat /\ 2^level = half + half
    BY <1>1, <1>5, Halves
  <2>3. f < a + half
    <3>1. Start(f, level - 1) = a
      BY <1>0, <1>5, StartFacts
    <3>2. f < Start(f, level - 1) + half
      BY <1>0, <2>2, StartFacts
    <3>3. QED
      BY <3>1, <3>2
  <2>4. CASE f <= a
    <3>1. Hashes(f, level, a) = <<>>
      BY <1>1, <2>4, HashesDef
    <3>2. Hashes(f, level - 1, a) = <<>>
      BY <1>1, <2>2, <2>4, HashesDef
    <3>3. QED
      BY <1>2, <2>1, <3>1, <3>2
  <2>5. CASE ~(f <= a)
    <3>1. ~(a + 2^level <= f)
      BY <1>0, <1>1, <2>2
    <3>2. Hashes(f, level, a) = Hashes(f, level - 1, a) \o Hashes(f, level - 1, a + half)
      BY <1>1, <2>5, <3>1, HashesDef
    <3>3. f <= a + half
      BY <1>0, <2>2, <2>3
    <3>4. Hashes(f, level - 1, a + half) = <<>>
      BY <2>2, <3>3, HashesDef
    <3>5. Hashes(f, level - 1, a) \in Seq(AllHashes)
      BY <1>1, <2>2, HashesType
    <3>6. Hashes(f, level - 1, a) \o <<>> = Hashes(f, level - 1, a)
      BY <3>5, ConcatEmptySeq
    <3>7. QED
      BY <1>2, <2>1, <3>2, <3>4, <3>6
  <2>6. QED
    BY <2>4, <2>5
<1>6. ASSUME level # 0, Bit(f, level - 1) = 1
      PROVE  PathHashes(f, level) =
               <<RootAt(f, level - 1, Start(f, level))>> \o PathHashes(f, level - 1)
  <2>2. level - 1 \in Levels /\ half \in Nat \ {0} /\ a + half \in Nat /\ 2^level = half + half
    BY <1>1, <1>6, Halves
  <2>1. Start(f, level - 1) = a + half
    BY <1>0, <1>6, StartFacts
  <2>3. PathHashes(f, level - 1) = Hashes(f, level - 1, a + half)
    BY <2>1 DEF PathHashes
  <2>4. a + half <= f
    BY <1>0, <2>1, <2>2, StartFacts
  <2>5. ~(f <= a) /\ ~(a + 2^level <= f)
    BY <1>0, <1>1, <2>2, <2>4
  <2>6. Hashes(f, level, a) = Hashes(f, level - 1, a) \o Hashes(f, level - 1, a + half)
    BY <1>1, <2>5, HashesDef
  <2>7. Hashes(f, level - 1, a) = <<RootAt(f, level - 1, a)>>
    BY <1>1, <2>2, <2>4, <2>5, HashesDef
  <2>8. QED
    BY <1>2, <2>3, <2>6, <2>7
<1>7. QED
  BY <1>3, <1>4, <1>5, <1>6

\* The hashes of a snapshot to the left of that subtree.
Rest(f, level) == Len(Hashes(f, Depth, 0)) - Len(PathHashes(f, level))

\* The hashes of that subtree are the last ones of the snapshot.
LEMMA PathRest ==
  ASSUME NEW f \in 0 .. MaxDeposits
  PROVE  \A level \in Levels : /\ Rest(f, level) \in Nat
                               /\ Holds(Hashes(f, Depth, 0), Rest(f, level), PathHashes(f, level))
<1> DEFINE hs == Hashes(f, Depth, 0)
           I == {level \in Levels : /\ Rest(f, level) \in Nat
                                    /\ Holds(hs, Rest(f, level), PathHashes(f, level))}
<1>0. /\ f \in Nat /\ 0 \in Nat /\ Depth \in Levels
      /\ hs \in Seq(AllHashes)
  <2>1. f \in Nat /\ 0 \in Nat /\ Depth \in Levels
    BY PowerFacts, LevelFacts
  <2>2. QED
    BY <2>1, HashesType
<1>1. Depth \in I
  <2>1. PathHashes(f, Depth) = hs
    BY TopFacts DEF PathHashes
  <2>2. Len(hs) \in Nat
    BY <1>0
  <2>3. Rest(f, Depth) = 0
    BY <2>1, <2>2 DEF Rest
  <2> HIDE DEF hs
  <2>4. Holds(hs, 0, hs)
    BY <2>2 DEF Holds
  <2>5. QED
    BY <1>0, <2>1, <2>3, <2>4
<1>2. ASSUME NEW level \in Levels, level # 0, level \in I PROVE level - 1 \in I
  <2>0. level - 1 \in Levels /\ Rest(f, level) \in Nat
    BY <1>2, LevelFacts
  <2>1. Bit(f, level - 1) \in {0, 1}
    BY <1>0, <1>2, StartFacts
  <2>2. CASE Bit(f, level - 1) = 0
    <3>1. PathHashes(f, level) = PathHashes(f, level - 1)
      BY <1>2, <2>2, PathHashesDef
    <3>2. Rest(f, level) = Rest(f, level - 1)
      BY <3>1 DEF Rest
    <3>3. QED
      BY <1>2, <2>0, <3>1, <3>2
  <2>3. CASE Bit(f, level - 1) = 1
    <3> DEFINE hash == RootAt(f, level - 1, Start(f, level))
               below == PathHashes(f, level - 1)
    <3>1. PathHashes(f, level) = <<hash>> \o below
      BY <1>2, <2>3, PathHashesDef
    <3>2. below \in Seq(AllHashes)
      BY <2>0, PathHashesDef
    <3>3. Start(f, level) \in Nat
      BY <1>0, StartFacts
    <3>4. hash \in Hash[level - 1]
      BY <2>0, <3>3, RootType
    <3>5. hash \in AllHashes
      BY <2>0, <3>4 DEF AllHashes
    <3>6. <<hash>> \in Seq(AllHashes) /\ Len(<<hash>>) = 1
      BY <3>5
    <3>7. Rest(f, level) = Len(hs) - Len(PathHashes(f, level))
          /\ Rest(f, level - 1) = Len(hs) - Len(below)
      BY DEF Rest
    <3>8. Holds(hs, Rest(f, level), <<hash>> \o below)
      BY <1>2, <3>1
    <3> HIDE DEF hash, below, hs
    <3>9. Holds(hs, Rest(f, level) + 1, below)
      BY <1>0, <2>0, <3>2, <3>6, <3>8, HoldsParts
    <3>10. Len(<<hash>> \o below) = 1 + Len(below)
      BY <3>2, <3>6, ConcatProperties
    <3>11. Len(below) \in Nat /\ Len(hs) \in Nat
      BY <1>0, <3>2
    <3>12. Rest(f, level - 1) = Rest(f, level) + 1
      BY <3>1, <3>7, <3>10, <3>11
    <3>13. Rest(f, level - 1) \in Nat
      BY <2>0, <3>12
    <3>14. Holds(hs, Rest(f, level - 1), PathHashes(f, level - 1))
      BY <3>9, <3>12 DEF below
    <3>15. QED
      BY <2>0, <3>13, <3>14 DEF hs
  <2>4. QED
    BY <2>1, <2>2, <2>3
<1> HIDE DEF I
<1>3. \A level \in Levels : level \in I
  BY <1>1, <1>2, EveryLevelDown
<1>4. QED
  BY <1>3 DEF I

\* calculate_root of the hashes of a snapshot is the root of the tree.
LEMMA SnapshotRoot ==
  ASSUME NEW f \in 0 .. MaxDeposits
  PROVE  CalculateRoot(Hashes(f, Depth, 0), f) = Sha256(RootAt(f, Depth, 0), ToLeBytes(f))
<1> DEFINE hs == Hashes(f, Depth, 0)
<1>0. f \in Nat /\ 0 \in Nat /\ Depth \in Levels
  BY PowerFacts, LevelFacts
<1>1. hs \in Seq(AllHashes)
  BY <1>0, HashesType
<1>2. Len(hs) \in Nat
  BY <1>1
<1>3. \A level \in Levels : /\ Rest(f, level) \in Nat
                            /\ Holds(hs, Rest(f, level), PathHashes(f, level))
                            /\ Rest(f, level) = Len(hs) - Len(PathHashes(f, level))
  BY PathRest DEF Rest
<1> HIDE DEF hs
<1>4. PICK climb :
        /\ CalculateRoot(hs, f) = Sha256(climb[Depth].root, ToLeBytes(f))
        /\ \A level \in Levels : climb[level] = ClimbStep(<<hs, f>>, level, climb)
  BY CalculateRootDef
<1> DEFINE I == {level \in Levels :
                   climb[level] = [index |-> Rest(f, level),
                                   root |-> RootAt(f, level, Start(f, level))]}
<1>5. ASSUME NEW level \in Levels, level # 0 => level - 1 \in I PROVE level \in I
  <2>1. climb[level] = ClimbStep(<<hs, f>>, level, climb)
    BY <1>4
  <2> DEFINE a == Start(f, level)
  <2>a. a \in Nat
    BY <1>0, StartFacts
  <2>2. CASE level = 0
    <3>1. climb[level] = [index |-> Len(hs), root |-> zerohashes[0]]
      BY <2>1, <2>2 DEF ClimbStep
    <3>2. PathHashes(f, 0) = <<>>
      BY <1>0, LevelFacts, PathHashesDef
    <3>3. Rest(f, level) = Len(hs)
      BY <1>2, <1>3, <2>2, <3>2
    <3>4. a = f /\ ~(f < f)
      BY <1>0, <2>2, StartFacts
    <3>a. RootAt(f, 0, f) = ZeroBytes
      BY <1>0, <3>4, LevelFacts, RootAtDef
    <3>5. RootAt(f, level, a) = ZeroBytes
      BY <2>2, <3>4, <3>a
    <3>6. zerohashes[0] = ZeroBytes
      BY LevelFacts, ZeroHashesDef
    <3>7. QED
      BY <3>1, <3>3, <3>5, <3>6
  <2>3. CASE level # 0
    <3> DEFINE half == 2^(level - 1)
               b == Start(f, level - 1)
    <3>1. /\ level - 1 \in Levels /\ half \in Nat \ {0} /\ a + half \in Nat
          /\ 2^level = half + half
      BY <2>3, <2>a, Halves
    <3>2. /\ climb[level - 1].index = Rest(f, level - 1)
          /\ climb[level - 1].root = RootAt(f, level - 1, b)
      BY <1>5, <2>3
    <3>3. Bit(f, level - 1) \in {0, 1} /\ f < b + half
      BY <1>0, <2>3, <3>1, StartFacts
    <3>4. RootAt(f, level, a) =
            Sha256(RootAt(f, level - 1, a), RootAt(f, level - 1, a + half))
      BY <2>3, <2>a, RootAtDef
    <3>5. CASE Bit(f, level - 1) = 0
      <4>1. b = a
        BY <1>0, <2>3, <3>5, StartFacts
      <4>2. PathHashes(f, level) = PathHashes(f, level - 1)
        BY <2>3, <3>5, PathHashesDef
      <4>3. Rest(f, level) = Rest(f, level - 1)
        BY <4>2 DEF Rest
      <4>4. f <= a + half
        BY <1>0, <3>1, <3>3, <4>1
      <4>5. RootAt(f, level - 1, a + half) = GetRoot(Zero(level - 1))
        BY <1>0, <3>1, <4>4, RootEmpty
      <4>6. GetRoot(Zero(level - 1)) = zerohashes[level - 1]
        BY <2>3, LevelFacts, ZeroRoot
      <4>7. climb[level] =
              [index |-> climb[level - 1].index,
               root |-> Sha256(climb[level - 1].root, zerohashes[level - 1])]
        BY <2>1, <2>3, <3>5 DEF ClimbStep
      <4>8. QED
        BY <3>2, <3>4, <4>1, <4>3, <4>5, <4>6, <4>7
    <3>6. CASE Bit(f, level - 1) = 1
      <4> DEFINE hash == RootAt(f, level - 1, a)
                 below == PathHashes(f, level - 1)
      <4>1. b = a + half
        BY <1>0, <2>3, <3>6, StartFacts
      <4>2. PathHashes(f, level) = <<hash>> \o below
        BY <2>3, <3>6, PathHashesDef
      <4>3. below \in Seq(AllHashes)
        BY <3>1, PathHashesDef
      <4>4. hash \in Hash[level - 1]
        BY <2>a, <3>1, RootType
      <4>5. hash \in AllHashes
        BY <3>1, <4>4 DEF AllHashes
      <4>h. hash = RootAt(f, level - 1, a)
        OBVIOUS
      <4>i. /\ Rest(f, level) \in Nat
            /\ Holds(hs, Rest(f, level), <<hash>> \o below)
            /\ Rest(f, level) = Len(hs) - Len(<<hash>> \o below)
            /\ Rest(f, level - 1) = Len(hs) - Len(below)
        BY <1>3, <3>1, <4>2
      <4> HIDE DEF hash, below
      <4>6. <<hash>> \in Seq(AllHashes) /\ Len(<<hash>>) = 1 /\ <<hash>>[1] = hash
        BY <4>5
      <4>7. Len(<<hash>> \o below) = 1 + Len(below)
        BY <4>3, <4>6, ConcatProperties
      <4>8. Len(below) \in Nat
        BY <4>3
      <4>9. Rest(f, level - 1) - 1 = Rest(f, level) /\ Rest(f, level) >= 0
        BY <1>2, <4>i, <4>7, <4>8
      <4>10. Holds(hs, Rest(f, level), <<hash>>)
        BY <1>1, <4>i, <4>3, <4>6, HoldsParts
      <4>11. hs[Rest(f, level) + 1] = hash
        BY <4>6, <4>10 DEF Holds
      <4>12. Item(hs, Rest(f, level)) = hash
        BY <4>9, <4>11 DEF Item
      <4>13. climb[level] =
               [index |-> climb[level - 1].index - 1,
                root |-> Sha256(Item(hs, climb[level - 1].index - 1), climb[level - 1].root)]
        BY <2>1, <2>3, <3>6 DEF ClimbStep
      <4>14. climb[level] =
               [index |-> Rest(f, level),
                root |-> Sha256(hash, RootAt(f, level - 1, b))]
        BY <3>2, <4>9, <4>12, <4>13
      <4>15. QED
        BY <3>4, <4>1, <4>h, <4>14
    <3>7. QED
      BY <3>3, <3>5, <3>6
  <2>4. QED
    BY <2>2, <2>3
<1> HIDE DEF I
<1>6. \A level \in Levels : level \in I
  BY <1>5, EveryLevel
<1>7. climb[Depth].root = RootAt(f, Depth, 0)
  <2>1. climb[Depth] = [index |-> Rest(f, Depth), root |-> RootAt(f, Depth, Start(f, Depth))]
    BY <1>0, <1>6 DEF I
  <2>2. QED
    BY <2>1, TopFacts
<1>8. QED
  BY <1>4, <1>7 DEF hs

\* A snapshot has as many hashes as its count has binary digits set.
LEMMA SnapshotSize ==
  ASSUME NEW f \in 0 .. MaxDeposits
  PROVE  Len(Hashes(f, Depth, 0)) = Cardinality({i \in 0 .. Depth : Bit(f, i) = 1})
<1> DEFINE Bits(n) == {i \in 0 .. n - 1 : Bit(f, i) = 1}
           I == {level \in Levels : /\ IsFiniteSet(Bits(level))
                                    /\ Cardinality(Bits(level)) = Len(PathHashes(f, level))}
<1>0. f \in Nat /\ 0 \in Nat /\ Depth \in Levels /\ 0 \in Levels
  BY PowerFacts, LevelFacts
<1>1. ASSUME NEW level \in Levels, level # 0 => level - 1 \in I PROVE level \in I
  <2>1. CASE level = 0
    <3>1. Bits(level) = {}
      BY <2>1
    <3>2. PathHashes(f, level) = <<>>
      BY <1>0, <2>1, PathHashesDef
    <3>3. Len(PathHashes(f, level)) = 0
      BY <3>2
    <3> HIDE DEF Bits
    <3>4. QED
      BY <3>1, <3>3, FS_EmptySet
  <2>2. CASE level # 0
    <3>1. level - 1 \in Levels /\ level \in Nat /\ level - 1 \in Nat
      BY <2>2, LevelFacts
    <3>2. Bit(f, level - 1) \in {0, 1}
      BY <1>0, <2>2, StartFacts
    <3>3. CASE Bit(f, level - 1) = 0
      <4>1. Bits(level) = Bits(level - 1)
        BY <3>1, <3>3
      <4>2. PathHashes(f, level) = PathHashes(f, level - 1)
        BY <2>2, <3>3, PathHashesDef
      <4> HIDE DEF Bits
      <4>3. QED
        BY <1>1, <2>2, <4>1, <4>2
    <3>4. CASE Bit(f, level - 1) = 1
      <4> DEFINE hash == RootAt(f, level - 1, Start(f, level))
                 below == PathHashes(f, level - 1)
      <4>1. Bits(level) = Bits(level - 1) \union {level - 1} /\ level - 1 \notin Bits(level - 1)
        BY <3>1, <3>4
      <4>2. PathHashes(f, level) = <<hash>> \o below
        BY <2>2, <3>4, PathHashesDef
      <4>3. below \in Seq(AllHashes)
        BY <3>1, PathHashesDef
      <4>a. Start(f, level) \in Nat
        BY <1>0, StartFacts
      <4>4. hash \in Hash[level - 1]
        BY <3>1, <4>a, RootType
      <4>5. hash \in AllHashes
        BY <3>1, <4>4 DEF AllHashes
      <4>b. IsFiniteSet(Bits(level - 1)) /\ Cardinality(Bits(level - 1)) = Len(below)
        BY <1>1, <2>2
      <4> HIDE DEF hash, below, Bits
      <4>6. <<hash>> \in Seq(AllHashes) /\ Len(<<hash>>) = 1
        BY <4>5
      <4>7. Len(<<hash>> \o below) = 1 + Len(below)
        BY <4>3, <4>6, ConcatProperties
      <4>8. IsFiniteSet(Bits(level)) /\ Cardinality(Bits(level)) = Cardinality(Bits(level - 1)) + 1
        BY <4>1, <4>b, FS_AddElement
      <4>9. Len(below) \in Nat
        BY <4>3
      <4>10. QED
        BY <4>2, <4>7, <4>8, <4>9, <4>b
    <3>5. QED
      BY <3>2, <3>3, <3>4
  <2>3. QED
    BY <2>1, <2>2
<1>2. \A level \in Levels : level \in I
  <2> HIDE DEF I
  <2>1. QED
    BY <1>1, EveryLevel
<1>3. Cardinality(Bits(Depth)) = Len(PathHashes(f, Depth))
  BY <1>0, <1>2
<1>4. PathHashes(f, Depth) = Hashes(f, Depth, 0)
  BY TopFacts DEF PathHashes
<1>5. {i \in 0 .. Depth : Bit(f, i) = 1} = Bits(Depth)
  <2>1. Bit(f, Depth) # 1
    BY TopFacts
  <2>2. QED
    BY <2>1, LevelFacts
<1>6. QED
  BY <1>3, <1>4, <1>5

-----------------------------------------------------------------------------
(***************************************************************************)
(* The contract's root                                                     *)
(***************************************************************************)

\* The layers of the contract's tree hold the roots of its subtrees.
LEMMA LayerRoot ==
  ASSUME NEW c \in Nat
  PROVE  \A level \in Levels : \A i \in 0 .. 2^(Depth - level) - 1 :
           Layer(c)[level][i] = RootAt(c, level, i * 2^level)
<1> DEFINE I == {level \in Levels : \A i \in 0 .. 2^(Depth - level) - 1 :
                   Layer(c)[level][i] = RootAt(c, level, i * 2^level)}
<1>1. ASSUME NEW level \in Levels, level # 0 => level - 1 \in I PROVE level \in I
  <2>0. 2^(Depth - level) \in Nat
    <3>1. Depth - level \in Levels
      BY LevelFacts DEF Levels
    <3>2. QED
      BY <3>1, PowerFacts
  <2>1. SUFFICES ASSUME NEW i \in 0 .. 2^(Depth - level) - 1
                 PROVE  Layer(c)[level][i] = RootAt(c, level, i * 2^level)
    OBVIOUS
  <2>2. i \in Nat
    BY <2>0
  <2>3. CASE level = 0
    <3>1. Layer(c)[level][i] = IF i < c THEN DepositRoot(i) ELSE ZeroBytes
      BY <2>3, LayerDef
    <3>2. i * 2^level = i
      <4>1. 2^level = 1
        BY <2>3, PowerFacts
      <4>2. i * 1 = i
        BY <2>2
      <4>3. QED
        BY <4>1, <4>2
    <3>3. RootAt(c, level, i) = IF i < c THEN DepositRoot(i) ELSE ZeroBytes
      BY <2>2, <2>3, RootAtDef
    <3>4. QED
      BY <3>1, <3>2, <3>3
  <2>4. CASE level # 0
    <3> DEFINE p == 2^(level - 1)
               m == 2^(Depth - level)
    <3>1. p \in Nat \ {0} /\ level - 1 \in Levels /\ 2^level = p + p
      BY <2>4, Halves
    <3>2. 2^(Depth - (level - 1)) = m + m /\ m \in Nat
      <4>1. /\ Depth - (level - 1) \in Levels /\ Depth - (level - 1) # 0
            /\ Depth - (level - 1) - 1 = Depth - level
        BY <2>4, LevelFacts DEF Levels
      <4>2. QED
        BY <2>0, <4>1, PowerFacts
    <3>3. 2 * i \in 0 .. m + m - 1 /\ 2 * i + 1 \in 0 .. m + m - 1
      BY <2>0, <2>2
    <3>4. 2 * i \in 0 .. 2^(Depth - (level - 1)) - 1 /\ 2 * i + 1 \in 0 .. 2^(Depth - (level - 1)) - 1
      BY <3>2, <3>3
    <3>5. /\ Layer(c)[level - 1][2 * i] = RootAt(c, level - 1, (2 * i) * p)
          /\ Layer(c)[level - 1][2 * i + 1] = RootAt(c, level - 1, (2 * i + 1) * p)
      BY <1>1, <2>4, <3>4
    <3>6. /\ (2 * i) * p = i * 2^level
          /\ (2 * i + 1) * p = i * 2^level + p
          /\ i * 2^level \in Nat
      <4>1. 2^level = p + p
        BY <3>1
      <4> HIDE DEF p
      <4>2. (2 * i) * p = i * (p + p) /\ (2 * i + 1) * p = i * (p + p) + p /\ i * (p + p) \in Nat
        BY <2>2, <3>1
      <4>3. QED
        BY <4>1, <4>2
    <3>7. RootAt(c, level, i * 2^level) =
            Sha256(RootAt(c, level - 1, i * 2^level), RootAt(c, level - 1, i * 2^level + p))
      BY <2>4, <3>6, RootAtDef
    <3>8. Layer(c)[level][i] = Sha256(Layer(c)[level - 1][2 * i], Layer(c)[level - 1][2 * i + 1])
      BY <2>4, LayerDef
    <3>9. QED
      BY <3>5, <3>6, <3>7, <3>8
  <2>5. QED
    BY <2>3, <2>4
<1> HIDE DEF I
<1>2. \A level \in Levels : level \in I
  BY <1>1, EveryLevel
<1>3. QED
  BY <1>2 DEF I

\* get_deposit_root of the contract is the root with the count mixed in.
LEMMA LogRootDef ==
  ASSUME NEW c \in 0 .. MaxDeposits
  PROVE  LogRoot[c] = Sha256(RootAt(c, Depth, 0), ToLeBytes(c))
<1>1. c \in Nat /\ Depth \in Levels /\ 2^Depth \in Nat
  BY PowerFacts, LevelFacts
<1>2. Depth - Depth = 0
  BY LevelFacts
<1>3. 0 \in 0 .. 2^(Depth - Depth) - 1
  <2>1. 2^(Depth - Depth) = 1
    BY <1>2, PowerFacts
  <2>2. QED
    BY <2>1
<1>4. Layer(c)[Depth][0] = RootAt(c, Depth, 0 * 2^Depth)
  BY <1>1, <1>3, LayerRoot
<1>5. 0 * 2^Depth = 0
  BY <1>1
<1>6. LogRoot[c] = Sha256(Layer(c)[Depth][0], ToLeBytes(c))
  BY DEF LogRoot
<1>7. QED
  BY <1>4, <1>5, <1>6

\* get_root of a tree is get_deposit_root of the contract after its deposits.
LEMMA TreeLogRoot ==
  ASSUME NEW c \in 0 .. MaxDeposits, NEW f \in 0 .. c
  PROVE  Sha256(GetRoot(TreeAt(c, f, Depth, 0)), ToLeBytes(c)) = LogRoot[c]
BY LevelFacts, TreeRoot, LogRootDef

\* calculate_root of a snapshot is get_deposit_root of the contract.
LEMMA SnapshotLogRoot ==
  ASSUME NEW f \in 0 .. MaxDeposits
  PROVE  CalculateRoot(Hashes(f, Depth, 0), f) = LogRoot[f]
BY SnapshotRoot, LogRootDef

-----------------------------------------------------------------------------
(***************************************************************************)
(* get_proof                                                               *)
(***************************************************************************)

\* The root of the half that does not hold leaf index.
SiblingRoot(c, index, level) ==
  RootAt(c, level - 1, IF Bit(index, level - 1) = 1 THEN Start(index, level)
                       ELSE Start(index, level) + 2^(level - 1))

\* g holds the leaf of an index and the roots beside the path to it.
IsBranch(g, c, index, level) ==
  /\ g.leaf = RootAt(c, 0, index)
  /\ g.proof \in Seq(AllHashes)
  /\ Len(g.proof) = level
  /\ \A k \in 1 .. level : g.proof[k] = SiblingRoot(c, index, k)

\* A branch is told from the AttributeError that get_proof raises.
LEMMA NoBranch ==
  ASSUME NEW leaf, NEW proof
  PROVE  [leaf |-> leaf, proof |-> proof] # AttributeError
<1>1. "leaf" \in DOMAIN [leaf |-> leaf, proof |-> proof]
  OBVIOUS
<1>2. "leaf" \notin DOMAIN AttributeError
  BY DEF AttributeError
<1>3. QED
  BY <1>1, <1>2

\* One step down the path to a leaf: generate_proof takes the half that holds
\* the leaf, and the root of the other one.
LEMMA PathNode ==
  ASSUME NEW c \in 0 .. MaxDeposits, NEW f \in 0 .. c, NEW index \in Nat,
         NEW level \in Levels, level # 0,
         TreeAt(c, f, level, Start(index, level)).kind = "Node"
  PROVE  /\ Child(TreeAt(c, f, level, Start(index, level)), index, level)
              = TreeAt(c, f, level - 1, Start(index, level - 1))
         /\ GetRoot(Sibling(TreeAt(c, f, level, Start(index, level)), index, level))
              = SiblingRoot(c, index, level)
         /\ SiblingRoot(c, index, level) \in AllHashes
<1> DEFINE a == Start(index, level)
           half == 2^(level - 1)
           left == TreeAt(c, f, level - 1, a)
           right == TreeAt(c, f, level - 1, a + half)
           t == TreeAt(c, f, level, a)
<1>1. a \in Nat
  BY StartFacts
<1>2. level - 1 \in Levels /\ a + half \in Nat
  BY <1>1, Halves
<1>3. t = Node(left, right)
  <2>1. t = Zero(level) \/ t = Finalized(2^level, RootAt(f, level, a)) \/ t = Node(left, right)
    BY <1>1, TreeAtDef
  <2>2. t.kind = "Node"
    OBVIOUS
  <2>3. Zero(level).kind # "Node" /\ Finalized(2^level, RootAt(f, level, a)).kind # "Node"
    BY DEF Zero, Finalized
  <2> HIDE DEF t, left, right
  <2>4. QED
    BY <2>1, <2>2, <2>3
<1>4. GetRoot(left) = RootAt(c, level - 1, a) /\ GetRoot(right) = RootAt(c, level - 1, a + half)
  BY <1>1, <1>2, TreeRoot
<1>5. /\ RootAt(c, level - 1, a) \in AllHashes
      /\ RootAt(c, level - 1, a + half) \in AllHashes
  BY <1>1, <1>2, RootType DEF AllHashes
<1>6. /\ Child(t, index, level) = IF Bit(index, level - 1) = 1 THEN t.right ELSE t.left
      /\ Sibling(t, index, level) = IF Bit(index, level - 1) = 1 THEN t.left ELSE t.right
  BY DEF Child, Sibling, GoesRight, Bit
<1>7. t.left = left /\ t.right = right
  <2> HIDE DEF t, left, right
  <2>1. QED
    BY <1>3, NodeFields
<1>8. Bit(index, level - 1) \in {0, 1}
  BY StartFacts
<1>9. CASE Bit(index, level - 1) = 1
  <2>1. Start(index, level - 1) = a + half
    BY <1>9, StartFacts
  <2>2. SiblingRoot(c, index, level) = RootAt(c, level - 1, a)
    BY <1>9 DEF SiblingRoot
  <2>3. Child(t, index, level) = right /\ Sibling(t, index, level) = left
    BY <1>6, <1>7, <1>9
  <2>4. QED
    BY <1>4, <1>5, <2>1, <2>2, <2>3
<1>10. CASE Bit(index, level - 1) = 0
  <2>1. Start(index, level - 1) = a
    BY <1>10, StartFacts
  <2>2. SiblingRoot(c, index, level) = RootAt(c, level - 1, a + half)
    BY <1>10 DEF SiblingRoot
  <2>3. Child(t, index, level) = left /\ Sibling(t, index, level) = right
    BY <1>6, <1>7, <1>10
  <2>4. QED
    BY <1>4, <1>5, <2>1, <2>2, <2>3
<1>11. QED
  BY <1>8, <1>9, <1>10

\* generate_proof returns the branch of the index or raises, and it does not
\* raise for a deposit that is not finalized.
LEMMA BranchOfTree ==
  ASSUME NEW c \in 0 .. MaxDeposits, NEW f \in 0 .. c, NEW index \in Nat
  PROVE  \A level \in Levels :
           LET g == GenerateProof(TreeAt(c, f, level, Start(index, level)), index, level)
           IN /\ g = AttributeError \/ IsBranch(g, c, index, level)
              /\ f <= index /\ index < c => g # AttributeError
<1> DEFINE t(level) == TreeAt(c, f, level, Start(index, level))
           g(level) == GenerateProof(t(level), index, level)
           I == {level \in Levels :
                   /\ g(level) = AttributeError \/ IsBranch(g(level), c, index, level)
                   /\ f <= index /\ index < c => g(level) # AttributeError}
<1>0. c \in Nat /\ f \in Nat
  BY PowerFacts
<1>1. ASSUME NEW level \in Levels, level # 0 => level - 1 \in I PROVE level \in I
  <2>0. Start(index, level) \in Nat
    BY StartFacts
  <2>1. t(level) \in Tree
    BY <2>0, TreeInTree
  <2>2. CASE level = 0
    <3>1. g(level) = [leaf |-> GetRoot(t(level)), proof |-> <<>>]
      <4> HIDE DEF t
      <4>1. QED
        BY <2>1, <2>2, GenerateProofDef
    <3>2. Start(index, level) = index
      BY <2>2, StartFacts
    <3>3. GetRoot(t(level)) = RootAt(c, 0, index)
      BY <2>2, <3>2, TreeRoot
    <3> HIDE DEF t, g
    <3>4. g(level).leaf = RootAt(c, 0, index) /\ g(level).proof = <<>>
      BY <3>1, <3>3
    <3>5. IsBranch(g(level), c, index, level)
      <4>1. <<>> \in Seq(AllHashes) /\ Len(<<>>) = level /\ 1 .. level = {}
        BY <2>2
      <4>2. /\ g(level).proof \in Seq(AllHashes)
            /\ Len(g(level).proof) = level
        BY <3>4, <4>1
      <4>3. QED
        BY <3>4, <4>1, <4>2 DEF IsBranch
    <3>6. g(level) # AttributeError
      BY <3>1, NoBranch
    <3>7. QED
      BY <3>5, <3>6
  <2>3. CASE level # 0 /\ t(level).kind # "Node"
    <3>1. g(level) = AttributeError
      <4> HIDE DEF t
      <4>1. QED
        BY <2>1, <2>3, GenerateProofDef
    <3>2. ASSUME f <= index, index < c PROVE FALSE
      <4> DEFINE a == Start(index, level)
      <4>1. a \in Nat /\ a <= index /\ index < a + 2^level /\ 2^level \in Nat
        BY StartFacts, PowerFacts
      <4>2. ~(c <= a) /\ ~(a + 2^level <= f)
        <5> HIDE DEF a
        <5>1. QED
          BY <1>0, <3>2, <4>1
      <4>3. t(level) = Node(TreeAt(c, f, level - 1, a), TreeAt(c, f, level - 1, a + 2^(level - 1)))
        BY <2>3, <4>1, <4>2, TreeAtDef
      <4>4. t(level).kind = "Node"
        BY <4>3, NodeFields
      <4>5. QED
        BY <2>3, <4>4
    <3>3. QED
      BY <3>1, <3>2
  <2>4. CASE level # 0 /\ t(level).kind = "Node"
    <3> DEFINE hash == SiblingRoot(c, index, level)
    <3>0. level - 1 \in Levels /\ level - 1 \in Nat /\ level \in Nat
      BY <2>4, LevelFacts
    <3>1. /\ Child(t(level), index, level) = t(level - 1)
          /\ GetRoot(Sibling(t(level), index, level)) = hash
          /\ hash \in AllHashes
      BY <2>4, PathNode
    <3>2. g(level) = Extended(g(level - 1), hash)
      <4>1. g(level) = Extended(GenerateProof(Child(t(level), index, level), index, level - 1),
                                GetRoot(Sibling(t(level), index, level)))
        <5> HIDE DEF t
        <5>1. QED
          BY <2>1, <2>4, GenerateProofDef
      <4> HIDE DEF t, hash
      <4>2. QED
        BY <3>1, <4>1
    <3>3. /\ g(level - 1) = AttributeError \/ IsBranch(g(level - 1), c, index, level - 1)
          /\ f <= index /\ index < c => g(level - 1) # AttributeError
      BY <1>1, <2>4
    <3>h. hash = SiblingRoot(c, index, level)
      OBVIOUS
    <3> HIDE DEF t, g, hash
    <3>4. CASE g(level - 1) = AttributeError
      <4>1. g(level) = AttributeError
        BY <3>2, <3>4 DEF Extended
      <4>2. QED
        BY <3>3, <3>4, <4>1
    <3>5. CASE g(level - 1) # AttributeError
      <4> DEFINE below == g(level - 1)
                 proof == below.proof
      <4>1. g(level) = [leaf |-> below.leaf, proof |-> Append(proof, hash)]
        BY <3>2, <3>5 DEF Extended
      <4>2. /\ below.leaf = RootAt(c, 0, index)
            /\ proof \in Seq(AllHashes)
            /\ Len(proof) = level - 1
            /\ \A k \in 1 .. level - 1 : proof[k] = SiblingRoot(c, index, k)
        BY <3>3, <3>5 DEF IsBranch
      <4> HIDE DEF below, proof
      <4>3. g(level) # AttributeError
        BY <4>1, NoBranch
      <4> DEFINE longer == Append(proof, hash)
      <4>4. /\ longer \in Seq(AllHashes)
            /\ Len(longer) = level
            /\ longer[level] = hash
            /\ \A k \in 1 .. level - 1 : longer[k] = proof[k]
        BY <3>0, <3>1, <4>2
      <4> HIDE DEF longer
      <4>5. g(level).leaf = RootAt(c, 0, index) /\ g(level).proof = longer
        BY <4>1, <4>2 DEF longer
      <4>6. ASSUME NEW k \in 1 .. level PROVE longer[k] = SiblingRoot(c, index, k)
        <5>1. CASE k = level
          BY <3>h, <4>4, <5>1
        <5>2. CASE k # level
          <6>1. k \in 1 .. level - 1
            BY <3>0, <5>2
          <6>2. QED
            BY <4>2, <4>4, <6>1
        <5>3. QED
          BY <5>1, <5>2
      <4>7. IsBranch(g(level), c, index, level)
        BY <4>4, <4>5, <4>6 DEF IsBranch
      <4>8. QED
        BY <4>3, <4>7
    <3>6. QED
      BY <3>4, <3>5
  <2>5. QED
    BY <2>2, <2>3, <2>4
<1>2. \A level \in Levels : level \in I
  <2> HIDE DEF I
  <2>1. QED
    BY <1>1, EveryLevel
<1>3. QED
  BY <1>2

\* merkle_root_from_branch leads from a leaf and its branch to the root.
LEMMA BranchVerifies ==
  ASSUME NEW c \in 0 .. MaxDeposits, NEW index \in Nat, index <= MaxDeposits,
         NEW proof \in Seq(AllHashes), Len(proof) = Depth, NEW length,
         \A k \in 1 .. Depth : proof[k] = SiblingRoot(c, index, k)
  PROVE  MerkleRootFromBranch(RootAt(c, 0, index), Append(proof, length), index)
           = Sha256(RootAt(c, Depth, 0), length)
<1> DEFINE branch == Append(proof, length)
           leaf == RootAt(c, 0, index)
           p == <<leaf, branch, index>>
<1>0. Depth \in Nat /\ Depth \in Levels
  BY LevelFacts
<1>1. /\ Len(branch) = Depth + 1
      /\ branch[Depth + 1] = length
      /\ \A k \in 1 .. Depth : branch[k] = SiblingRoot(c, index, k)
  <2>1. proof \in Seq(AllHashes \union {length})
    OBVIOUS
  <2>2. /\ Len(branch) = Len(proof) + 1
        /\ branch[Len(proof) + 1] = length
        /\ \A k \in 1 .. Len(proof) : branch[k] = proof[k]
    BY <2>1, AppendProperties
  <2>3. QED
    BY <1>0, <2>2
<1>p. p[1] = leaf /\ p[2] = branch /\ p[3] = index /\ p = <<leaf, branch, index>>
  OBVIOUS
<1> HIDE DEF branch, p
<1>2. Len(branch) \in Nat
  BY <1>0, <1>1
<1>3. PICK climb :
        /\ MerkleRootFromBranch(leaf, branch, index) = climb[Len(branch)]
        /\ \A i \in 0 .. Len(branch) : climb[i] = BranchStep(<<leaf, branch, index>>, i, climb)
  BY <1>2, MerkleRootFromBranchDef
<1>l. leaf = RootAt(c, 0, index)
  OBVIOUS
<1> HIDE DEF leaf
<1>4. \A i \in 0 .. Depth + 1 :
        climb[i] = IF i = 0 THEN leaf
                   ELSE IF Bit(index, i - 1) = 1 THEN Sha256(branch[i], climb[i - 1])
                   ELSE Sha256(climb[i - 1], branch[i])
  BY <1>1, <1>3, <1>p DEF BranchStep
<1> DEFINE I == {level \in Levels : climb[level] = RootAt(c, level, Start(index, level))}
<1>5. ASSUME NEW level \in Levels, level # 0 => level - 1 \in I PROVE level \in I
  <2>0. level \in 0 .. Depth + 1
    BY LevelFacts DEF Levels
  <2>1. CASE level = 0
    <3>1. climb[level] = leaf
      BY <1>4, <2>0, <2>1
    <3>2. Start(index, level) = index
      BY <2>1, StartFacts
    <3>3. QED
      BY <1>l, <2>1, <3>1, <3>2
  <2>2. CASE level # 0
    <3> DEFINE a == Start(index, level)
    <3>1. a \in Nat
      BY StartFacts
    <3>2. RootAt(c, level, a) =
            Sha256(RootAt(c, level - 1, a), RootAt(c, level - 1, a + 2^(level - 1)))
      BY <2>2, <3>1, RootAtDef
    <3>3. climb[level - 1] = RootAt(c, level - 1, Start(index, level - 1))
      BY <1>5, <2>2
    <3>4. level \in 1 .. Depth
      BY <2>2, LevelFacts DEF Levels
    <3>5. branch[level] = SiblingRoot(c, index, level)
      BY <1>1, <3>4
    <3>6. Bit(index, level - 1) \in {0, 1}
      BY <2>2, StartFacts
    <3>7. CASE Bit(index, level - 1) = 1
      <4>1. climb[level] = Sha256(branch[level], climb[level - 1])
        BY <1>4, <2>0, <2>2, <3>7
      <4>2. Start(index, level - 1) = a + 2^(level - 1)
        BY <2>2, <3>7, StartFacts
      <4>3. branch[level] = RootAt(c, level - 1, a)
        BY <3>5, <3>7 DEF SiblingRoot
      <4>4. QED
        BY <3>2, <3>3, <4>1, <4>2, <4>3
    <3>8. CASE Bit(index, level - 1) = 0
      <4>1. climb[level] = Sha256(climb[level - 1], branch[level])
        BY <1>4, <2>0, <2>2, <3>8
      <4>2. Start(index, level - 1) = a
        BY <2>2, <3>8, StartFacts
      <4>3. branch[level] = RootAt(c, level - 1, a + 2^(level - 1))
        BY <3>5, <3>8 DEF SiblingRoot
      <4>4. QED
        BY <3>2, <3>3, <4>1, <4>2, <4>3
    <3>9. QED
      BY <3>6, <3>7, <3>8
  <2>3. QED
    BY <2>1, <2>2
<1>6. \A level \in Levels : level \in I
  <2> HIDE DEF I
  <2>1. QED
    BY <1>5, EveryLevel
<1>7. Start(index, Depth) = 0 /\ Bit(index, Depth) = 0
  <2>1. index \in 0 .. MaxDeposits
    BY PowerFacts
  <2>2. QED
    BY <2>1, TopFacts
<1>8. climb[Depth] = RootAt(c, Depth, 0)
  BY <1>0, <1>6, <1>7
<1>9. Depth + 1 \in 0 .. Depth + 1 /\ Depth + 1 # 0 /\ Depth + 1 - 1 = Depth
  BY <1>0
<1>10. climb[Depth + 1] = Sha256(climb[Depth], branch[Depth + 1])
  BY <1>4, <1>7, <1>9
<1>11. QED
  BY <1>1, <1>3, <1>8, <1>10, <1>l DEF branch

-----------------------------------------------------------------------------
(***************************************************************************)
(* The inductive invariant                                                 *)
(***************************************************************************)

\* The contract's deposit_count never falls.
Growing == \A g, h \in 1 .. Len(blocks) : g <= h => blocks[g] <= blocks[h]

\* Every tree that runs is the tree of the first deposits of the log, of which
\* those up to its finalized block are finalized; a node that is stopped has
\* no tree.
NodesReplay ==
  \A n \in Nodes :
    /\ mix_in_length[n] \in 0 .. MaxDeposits
    /\ finalized_execution_block[n] \in 0 .. Len(blocks)
    /\ CountAt(finalized_execution_block[n]) <= mix_in_length[n]
    /\ \/ tree[n] = TreeAt(mix_in_length[n], CountAt(finalized_execution_block[n]), Depth, 0)
       \/ tree[n] = None /\ mix_in_length[n] = 0 /\ finalized_execution_block[n] = 0

\* The snapshot of a block, made from the log alone.
SnapshotOf(h) == FromTreeParts(Hashes(blocks[h], Depth, 0), blocks[h], h)

\* The snapshot that was served is the snapshot of some block.
SnapshotReplays == snapshot = NoSnapshot \/ \E h \in 1 .. Len(blocks) : snapshot = SnapshotOf(h)

\* The inductive invariant: every tree and every snapshot is a function of the
\* log, of the deposits pushed and of the block finalized.
Replay ==
  /\ blocks \in Seq(0 .. MaxDeposits) /\ Len(blocks) <= MaxBlocks
  /\ boots \in 0 .. MaxBoots
  /\ tree \in [Nodes -> TreeOf[Depth] \union {None}]
  /\ mix_in_length \in [Nodes -> 0 .. MaxDeposits]
  /\ finalized_execution_block \in [Nodes -> 0 .. Len(blocks)]
  /\ Growing
  /\ NodesReplay
  /\ SnapshotReplays

-----------------------------------------------------------------------------
(***************************************************************************)
(* Every step keeps the invariant                                          *)
(***************************************************************************)

\* What the invariant says of one node.
LEMMA ReplayFacts ==
  ASSUME Replay
  PROVE  /\ Len(blocks) \in Nat
         /\ LogLength \in 0 .. MaxDeposits
         /\ \A h \in 1 .. Len(blocks) : blocks[h] \in 0 .. MaxDeposits /\ blocks[h] <= LogLength
         /\ \A n \in Nodes :
              /\ mix_in_length[n] \in 0 .. MaxDeposits
              /\ finalized_execution_block[n] \in 0 .. Len(blocks)
              /\ CountAt(finalized_execution_block[n]) \in 0 .. mix_in_length[n]
              /\ Running(n) => tree[n] = TreeAt(mix_in_length[n],
                                                CountAt(finalized_execution_block[n]), Depth, 0)
              /\ ~Running(n) => mix_in_length[n] = 0 /\ finalized_execution_block[n] = 0
<1>1. blocks \in Seq(0 .. MaxDeposits) /\ Growing /\ NodesReplay
  BY DEF Replay
<1>2. Len(blocks) \in Nat /\ \A h \in 1 .. Len(blocks) : blocks[h] \in 0 .. MaxDeposits
  <2>1. Len(blocks) \in Nat
    BY <1>1
  <2>2. ASSUME NEW h \in 1 .. Len(blocks) PROVE blocks[h] \in 0 .. MaxDeposits
    BY <1>1, ElementOfSeq
  <2>3. QED
    BY <2>1, <2>2
<1>3. /\ LogLength \in 0 .. MaxDeposits
      /\ \A h \in 1 .. Len(blocks) : blocks[h] <= LogLength
  <2>1. CASE blocks = <<>>
    <3>1. LogLength = 0 /\ Len(blocks) = 0
      BY <2>1 DEF LogLength
    <3>2. QED
      BY <3>1, PowerFacts
  <2>2. CASE blocks # <<>>
    <3>1. LogLength = blocks[Len(blocks)]
      BY <2>2 DEF LogLength, Last
    <3>2. Len(blocks) \in 1 .. Len(blocks)
      BY <1>1, <2>2
    <3>3. QED
      BY <1>1, <1>2, <3>1, <3>2 DEF Growing
  <2>3. QED
    BY <2>1, <2>2
<1>4. ASSUME NEW n \in Nodes
      PROVE  /\ mix_in_length[n] \in 0 .. MaxDeposits
             /\ finalized_execution_block[n] \in 0 .. Len(blocks)
             /\ CountAt(finalized_execution_block[n]) \in 0 .. mix_in_length[n]
             /\ Running(n) => tree[n] = TreeAt(mix_in_length[n],
                                               CountAt(finalized_execution_block[n]), Depth, 0)
             /\ ~Running(n) => mix_in_length[n] = 0 /\ finalized_execution_block[n] = 0
  <2> DEFINE m == mix_in_length[n]
             h == finalized_execution_block[n]
  <2>1. /\ m \in 0 .. MaxDeposits
        /\ h \in 0 .. Len(blocks)
        /\ CountAt(h) <= m
        /\ \/ tree[n] = TreeAt(m, CountAt(h), Depth, 0)
           \/ tree[n] = None /\ m = 0 /\ h = 0
    BY <1>1 DEF NodesReplay
  <2> HIDE DEF m, h
  <2>2. CountAt(h) \in 0 .. m
    <3>1. h = 0 \/ h \in 1 .. Len(blocks)
      BY <1>2, <2>1
    <3>2. CountAt(h) \in Nat
      BY <1>2, <3>1, PowerFacts DEF CountAt
    <3>3. QED
      BY <2>1, <3>2, PowerFacts
  <2>3. tree[n] = TreeAt(m, CountAt(h), Depth, 0) => tree[n] # None
    <3>1. TreeAt(m, CountAt(h), Depth, 0) \in Tree
      BY <2>1, <2>2, LevelFacts, TreeInTree
    <3>2. None \notin Tree
      BY TreesClosed DEF None
    <3>3. QED
      BY <3>1, <3>2
  <2>4. QED
    BY <2>1, <2>2, <2>3 DEF Running, m, h
<1>5. QED
  BY <1>2, <1>3, <1>4

\* A step that gives one node such a tree keeps the invariant.
LEMMA SetNodeReplay ==
  ASSUME Replay, NEW n \in Nodes, NEW t, NEW m \in 0 .. MaxDeposits,
         NEW h \in 0 .. Len(blocks), CountAt(h) <= m,
         \/ t = TreeAt(m, CountAt(h), Depth, 0)
         \/ t = None /\ m = 0 /\ h = 0,
         SetNode(n, t, m, h), UNCHANGED <<blocks, snapshot>>, boots' \in 0 .. MaxBoots
  PROVE  Replay'
<1>1. CountAt(h) \in 0 .. m
  <2>1. CountAt(h) \in Nat
    <3>1. h = 0 \/ h \in 1 .. Len(blocks)
      BY ReplayFacts
    <3>2. QED
      BY <3>1, ReplayFacts, PowerFacts DEF CountAt
  <2>2. QED
    BY <2>1, PowerFacts
<1>2. t \in TreeOf[Depth] \union {None}
  <2>1. TreeAt(m, CountAt(h), Depth, 0) \in TreeOf[Depth]
    BY <1>1, LevelFacts, TreeType
  <2>2. QED
    BY <2>1
<1>3. /\ tree \in [Nodes -> TreeOf[Depth] \union {None}]
      /\ mix_in_length \in [Nodes -> 0 .. MaxDeposits]
      /\ finalized_execution_block \in [Nodes -> 0 .. Len(blocks)]
      /\ blocks' = blocks /\ snapshot' = snapshot
  BY DEF Replay
<1>4. /\ tree' = [tree EXCEPT ![n] = t]
      /\ mix_in_length' = [mix_in_length EXCEPT ![n] = m]
      /\ finalized_execution_block' = [finalized_execution_block EXCEPT ![n] = h]
  BY DEF SetNode
<1>5. /\ tree' \in [Nodes -> TreeOf[Depth] \union {None}]
      /\ mix_in_length' \in [Nodes -> 0 .. MaxDeposits]
      /\ finalized_execution_block' \in [Nodes -> 0 .. Len(blocks')]
  BY <1>2, <1>3, <1>4
<1>6. \A g : CountAt(g)' = CountAt(g)
  BY <1>3 DEF CountAt
<1>7. NodesReplay'
  <2>1. SUFFICES ASSUME NEW k \in Nodes
                 PROVE  /\ mix_in_length'[k] \in 0 .. MaxDeposits
                        /\ finalized_execution_block'[k] \in 0 .. Len(blocks')
                        /\ (IF finalized_execution_block'[k] = 0 THEN 0
                            ELSE blocks'[finalized_execution_block'[k]]) <= mix_in_length'[k]
                        /\ \/ tree'[k] = TreeAt(mix_in_length'[k],
                                                IF finalized_execution_block'[k] = 0 THEN 0
                                                ELSE blocks'[finalized_execution_block'[k]],
                                                Depth, 0)
                           \/ /\ tree'[k] = None /\ mix_in_length'[k] = 0
                              /\ finalized_execution_block'[k] = 0
    BY DEF NodesReplay, CountAt
  <2>2. CASE k = n
    <3>1. tree'[k] = t /\ mix_in_length'[k] = m /\ finalized_execution_block'[k] = h
      BY <1>3, <1>4, <2>2
    <3>2. QED
      BY <1>3, <3>1 DEF CountAt
  <2>3. CASE k # n
    <3>1. /\ tree'[k] = tree[k] /\ mix_in_length'[k] = mix_in_length[k]
          /\ finalized_execution_block'[k] = finalized_execution_block[k]
      BY <1>3, <1>4, <2>3
    <3>2. QED
      BY <1>3, <3>1 DEF CountAt, Replay, NodesReplay
  <2>4. QED
    BY <2>2, <2>3
<1>8. SnapshotReplays' /\ Growing'
  BY <1>3 DEF Replay, SnapshotReplays, SnapshotOf, Growing
<1>9. /\ blocks' \in Seq(0 .. MaxDeposits) /\ Len(blocks') <= MaxBlocks
      /\ boots' \in 0 .. MaxBoots
  BY <1>3 DEF Replay
<1>10. QED
  BY <1>5, <1>7, <1>8, <1>9 DEF Replay

\* The initial states satisfy the invariant.
LEMMA InitReplay == Init => Replay
<1> SUFFICES ASSUME Init PROVE Replay
  OBVIOUS
<1>1. /\ blocks = <<>>
      /\ tree = [n \in Nodes |-> None]
      /\ mix_in_length = [n \in Nodes |-> 0]
      /\ finalized_execution_block = [n \in Nodes |-> 0]
      /\ snapshot = NoSnapshot
      /\ boots = 0
  BY DEF Init
<1>2. blocks \in Seq(0 .. MaxDeposits) /\ Len(blocks) = 0 /\ Len(blocks) <= MaxBlocks
  BY <1>1, DepositTreeAssumption
<1>3. 0 \in 0 .. MaxDeposits /\ 0 \in 0 .. MaxBoots /\ 0 \in 0 .. Len(blocks)
  BY <1>2, PowerFacts, DepositTreeAssumption
<1>4. Growing
  BY <1>2 DEF Growing
<1>5. NodesReplay
  BY <1>1, <1>3 DEF NodesReplay, CountAt
<1>6. SnapshotReplays
  BY <1>1 DEF SnapshotReplays
<1>7. QED
  BY <1>1, <1>2, <1>3, <1>4, <1>5, <1>6 DEF Replay

\* A block is appended: the counts of the earlier blocks stay.
LEMMA MineBlockReplay ==
  ASSUME Replay, NEW c \in 0 .. MaxDeposits, MineBlock(c)
  PROVE  Replay'
<1>1. /\ Len(blocks) < MaxBlocks /\ c >= LogLength
      /\ blocks' = Append(blocks, c)
      /\ tree' = tree /\ mix_in_length' = mix_in_length
      /\ finalized_execution_block' = finalized_execution_block
      /\ snapshot' = snapshot /\ boots' = boots
  BY DEF MineBlock, node
<1>2. blocks \in Seq(0 .. MaxDeposits) /\ Len(blocks) \in Nat
  BY DEF Replay
<1>3. /\ blocks' \in Seq(0 .. MaxDeposits)
      /\ Len(blocks') = Len(blocks) + 1
      /\ blocks'[Len(blocks) + 1] = c
      /\ \A h \in 1 .. Len(blocks) : blocks'[h] = blocks[h]
  BY <1>1, <1>2
<1>4. Len(blocks') <= MaxBlocks
  BY <1>1, <1>2, <1>3, DepositTreeAssumption
<1>5. Growing'
  <2>1. SUFFICES ASSUME NEW g \in 1 .. Len(blocks'), NEW h \in 1 .. Len(blocks'), g <= h
                 PROVE  blocks'[g] <= blocks'[h]
    BY DEF Growing
  <2>2. CASE h = Len(blocks) + 1 /\ g = Len(blocks) + 1
    BY <1>3, <2>2, PowerFacts
  <2>3. CASE h = Len(blocks) + 1 /\ g # Len(blocks) + 1
    <3>1. g \in 1 .. Len(blocks)
      BY <1>2, <1>3, <2>3
    <3>2. blocks[g] <= LogLength /\ blocks[g] \in Nat /\ LogLength \in Nat /\ c \in Nat
      BY <3>1, ReplayFacts, PowerFacts
    <3>3. QED
      BY <1>1, <1>3, <2>3, <3>1, <3>2
  <2>4. CASE h # Len(blocks) + 1
    <3>1. g \in 1 .. Len(blocks) /\ h \in 1 .. Len(blocks)
      BY <1>2, <1>3, <2>1, <2>4
    <3>2. QED
      BY <1>3, <2>1, <3>1 DEF Replay, Growing
  <2>5. QED
    BY <2>2, <2>3, <2>4
<1>6. finalized_execution_block' \in [Nodes -> 0 .. Len(blocks')]
  BY <1>1, <1>2, <1>3 DEF Replay
<1>7. NodesReplay'
  <2>1. SUFFICES ASSUME NEW n \in Nodes
                 PROVE  /\ mix_in_length[n] \in 0 .. MaxDeposits
                        /\ finalized_execution_block[n] \in 0 .. Len(blocks')
                        /\ (IF finalized_execution_block[n] = 0 THEN 0
                            ELSE blocks'[finalized_execution_block[n]]) <= mix_in_length[n]
                        /\ \/ tree[n] = TreeAt(mix_in_length[n],
                                               IF finalized_execution_block[n] = 0 THEN 0
                                               ELSE blocks'[finalized_execution_block[n]],
                                               Depth, 0)
                           \/ /\ tree[n] = None /\ mix_in_length[n] = 0
                              /\ finalized_execution_block[n] = 0
    BY <1>1 DEF NodesReplay, CountAt
  <2>2. /\ mix_in_length[n] \in 0 .. MaxDeposits
        /\ finalized_execution_block[n] \in 0 .. Len(blocks)
        /\ CountAt(finalized_execution_block[n]) <= mix_in_length[n]
        /\ \/ tree[n] = TreeAt(mix_in_length[n], CountAt(finalized_execution_block[n]), Depth, 0)
           \/ tree[n] = None /\ mix_in_length[n] = 0 /\ finalized_execution_block[n] = 0
    BY DEF Replay, NodesReplay
  <2>3. finalized_execution_block[n] = 0 \/ finalized_execution_block[n] \in 1 .. Len(blocks)
    BY <1>2, <2>2
  <2>4. CountAt(finalized_execution_block[n]) =
          IF finalized_execution_block[n] = 0 THEN 0 ELSE blocks'[finalized_execution_block[n]]
    BY <1>3, <2>3 DEF CountAt
  <2>5. finalized_execution_block[n] \in 0 .. Len(blocks')
    BY <1>2, <1>3, <2>2
  <2>6. QED
    BY <2>2, <2>4, <2>5
<1>8. SnapshotReplays'
  <2>1. CASE snapshot = NoSnapshot
    BY <1>1, <2>1 DEF SnapshotReplays
  <2>2. CASE snapshot # NoSnapshot
    <3>1. PICK h \in 1 .. Len(blocks) : snapshot = SnapshotOf(h)
      BY <2>2 DEF Replay, SnapshotReplays
    <3>2. h \in 1 .. Len(blocks') /\ blocks'[h] = blocks[h]
      BY <1>2, <1>3
    <3>3. snapshot' = FromTreeParts(Hashes(blocks'[h], Depth, 0), blocks'[h], h)
      BY <1>1, <3>1, <3>2 DEF SnapshotOf
    <3>4. QED
      BY <3>2, <3>3 DEF SnapshotReplays, SnapshotOf
  <2>3. QED
    BY <2>1, <2>2
<1>9. QED
  BY <1>1, <1>3, <1>4, <1>5, <1>6, <1>7, <1>8 DEF Replay

\* DepositTree.new makes the tree of no deposit.
LEMMA NewReplay ==
  ASSUME Replay, NEW n \in Nodes, New(n)
  PROVE  Replay'
<1>1. /\ boots < MaxBoots /\ boots' = boots + 1
      /\ SetNode(n, Zero(Depth), 0, 0)
      /\ UNCHANGED <<blocks, snapshot>>
  BY DEF New, CreateEmpty
<1>2. boots' \in 0 .. MaxBoots
  BY <1>1, DepositTreeAssumption DEF Replay
<1>3. /\ 0 \in 0 .. MaxDeposits /\ 0 \in 0 .. Len(blocks)
      /\ CountAt(0) = 0 /\ 0 <= 0
  BY PowerFacts, ReplayFacts DEF CountAt
<1>4. Zero(Depth) = TreeAt(0, 0, Depth, 0)
  <2>1. 0 \in Nat /\ 0 <= 0 /\ Depth \in Levels
    BY LevelFacts
  <2>2. TreeAt(0, 0, Depth, 0) = IF 0 <= 0 THEN Zero(Depth)
                                 ELSE TreeAt(0, 0, Depth, 0)
    BY <2>1, TreeAtDef
  <2>3. QED
    BY <2>1, <2>2
<1>5. QED
  BY <1>1, <1>2, <1>3, <1>4, SetNodeReplay

\* from_snapshot rebuilds the tree of the snapshot's block, all of whose
\* deposits are finalized.
LEMMA FromSnapshotReplay ==
  ASSUME Replay, NEW n \in Nodes, FromSnapshot(n)
  PROVE  Replay'
<1>1. /\ boots < MaxBoots /\ boots' = boots + 1 /\ snapshot # NoSnapshot
      /\ SetNode(n, FromSnapshotParts(snapshot.finalized, snapshot.deposit_count, Depth),
                 snapshot.deposit_count, snapshot.execution_block_height)
      /\ UNCHANGED <<blocks, snapshot>>
  BY DEF FromSnapshot
<1>2. boots' \in 0 .. MaxBoots
  BY <1>1, DepositTreeAssumption DEF Replay
<1>3. PICK h \in 1 .. Len(blocks) : snapshot = SnapshotOf(h)
  BY <1>1 DEF Replay, SnapshotReplays
<1>4. /\ snapshot.finalized = Hashes(blocks[h], Depth, 0)
      /\ snapshot.deposit_count = blocks[h]
      /\ snapshot.execution_block_height = h
  BY <1>3 DEF SnapshotOf, FromTreeParts
<1>5. blocks[h] \in 0 .. MaxDeposits /\ h \in 0 .. Len(blocks) /\ CountAt(h) = blocks[h]
  BY ReplayFacts DEF CountAt
<1>6. CountAt(h) <= blocks[h]
  BY <1>5, PowerFacts
<1>7. FromSnapshotParts(Hashes(blocks[h], Depth, 0), blocks[h], Depth)
        = TreeAt(blocks[h], CountAt(h), Depth, 0)
  BY <1>5, SnapshotTree
<1>8. SetNode(n, TreeAt(blocks[h], CountAt(h), Depth, 0), blocks[h], h)
  BY <1>1, <1>4, <1>7
<1>9. QED
  BY <1>1, <1>2, <1>5, <1>6, <1>8, SetNodeReplay

\* A node that stops loses its tree.
LEMMA StopReplay ==
  ASSUME Replay, NEW n \in Nodes, Stop(n)
  PROVE  Replay'
<1>1. /\ boots' = boots /\ SetNode(n, None, 0, 0) /\ UNCHANGED <<blocks, snapshot>>
  BY DEF Stop
<1>2. boots' \in 0 .. MaxBoots
  BY <1>1 DEF Replay
<1>3. /\ 0 \in 0 .. MaxDeposits /\ 0 \in 0 .. Len(blocks) /\ CountAt(0) <= 0
  BY PowerFacts, ReplayFacts DEF CountAt
<1>4. QED
  BY <1>1, <1>2, <1>3, SetNodeReplay

\* push_leaf makes the tree of one more deposit.
LEMMA PushDepositReplay ==
  ASSUME Replay, NEW n \in Nodes, PushDeposit(n)
  PROVE  Replay'
<1> DEFINE c == mix_in_length[n]
           h == finalized_execution_block[n]
<1>1. /\ Running(n) /\ c < LogLength /\ boots' = boots
      /\ SetNode(n, PushLeaf(tree[n], DepositRoot(c), Depth), c + 1, h)
      /\ UNCHANGED <<blocks, snapshot>>
  BY DEF PushDeposit
<1>2. boots' \in 0 .. MaxBoots
  BY <1>1 DEF Replay
<1>3. /\ c \in 0 .. MaxDeposits /\ h \in 0 .. Len(blocks) /\ CountAt(h) \in 0 .. c
      /\ tree[n] = TreeAt(c, CountAt(h), Depth, 0) /\ LogLength \in 0 .. MaxDeposits
  BY <1>1, ReplayFacts
<1> HIDE DEF c, h
<1>4. /\ c \in 0 .. MaxDeposits - 1 /\ c + 1 \in 0 .. MaxDeposits
      /\ CountAt(h) <= c + 1 /\ 0 <= c /\ c < 0 + 2^Depth /\ 0 \in Nat
  BY <1>1, <1>3, PowerFacts, LevelFacts
<1>5. PushLeaf(tree[n], DepositRoot(c), Depth) = TreeAt(c + 1, CountAt(h), Depth, 0)
  BY <1>3, <1>4, LevelFacts, PushLeafTree
<1>6. SetNode(n, TreeAt(c + 1, CountAt(h), Depth, 0), c + 1, h)
  BY <1>1, <1>5
<1>7. QED
  BY <1>1, <1>2, <1>3, <1>4, <1>6, SetNodeReplay

\* finalize makes the tree with the deposits of the block finalized.
LEMMA FinalizeBlockReplay ==
  ASSUME Replay, MinFinalize # 0, NEW n \in Nodes, NEW h \in 1 .. Len(blocks),
         FinalizeBlock(n, h)
  PROVE  Replay'
<1> DEFINE c == mix_in_length[n]
           g == finalized_execution_block[n]
<1>1. /\ Running(n) /\ g <= h /\ MinFinalize <= blocks[h] /\ blocks[h] <= c
      /\ boots' = boots
      /\ SetNode(n, FinalizedInPlace(tree[n], blocks[h]), c, h)
      /\ UNCHANGED <<blocks, snapshot>>
  BY DEF FinalizeBlock
<1>2. boots' \in 0 .. MaxBoots
  BY <1>1 DEF Replay
<1>3. /\ c \in 0 .. MaxDeposits /\ g \in 0 .. Len(blocks) /\ CountAt(g) \in 0 .. c
      /\ tree[n] = TreeAt(c, CountAt(g), Depth, 0)
      /\ blocks[h] \in 0 .. MaxDeposits /\ h \in 0 .. Len(blocks) /\ h # 0
  BY <1>1, ReplayFacts
<1> HIDE DEF c, g
<1>4. CountAt(h) = blocks[h]
  BY <1>3 DEF CountAt
<1>5. CountAt(g) <= blocks[h]
  <2>1. CASE g = 0
    <3>1. CountAt(g) = 0
      BY <2>1 DEF CountAt
    <3>2. QED
      BY <1>3, <3>1, PowerFacts
  <2>2. CASE g # 0
    <3>1. g \in 1 .. Len(blocks)
      BY <1>3, <2>2, ReplayFacts
    <3>2. blocks[g] <= blocks[h]
      BY <1>1, <3>1 DEF Replay, Growing
    <3>3. QED
      BY <2>2, <3>2 DEF CountAt
  <2>3. QED
    BY <2>1, <2>2
<1>6. blocks[h] \in CountAt(g) .. c /\ blocks[h] # 0
  BY <1>1, <1>3, <1>5, PowerFacts, DepositTreeAssumption
<1>7. FinalizedInPlace(tree[n], blocks[h]) = TreeAt(c, CountAt(h), Depth, 0)
  BY <1>3, <1>4, <1>6, FinalizedRoot
<1>8. SetNode(n, TreeAt(c, CountAt(h), Depth, 0), c, h)
  BY <1>1, <1>7
<1>9. CountAt(h) <= c
  BY <1>1, <1>4
<1>10. QED
  BY <1>1, <1>2, <1>3, <1>8, <1>9, SetNodeReplay

\* get_snapshot serves the snapshot of the node's finalized block.
LEMMA ServedSnapshot ==
  ASSUME Replay, NEW n \in Nodes, GetSnapshot(n)
  PROVE  /\ finalized_execution_block[n] \in 1 .. Len(blocks)
         /\ snapshot' = SnapshotOf(finalized_execution_block[n])
<1> DEFINE c == mix_in_length[n]
           h == finalized_execution_block[n]
<1>1. /\ Running(n) /\ h # 0
      /\ snapshot' = FromTreeParts(FinalizedHashes(tree[n]), FinalizedCount(tree[n]), h)
  BY DEF GetSnapshot
<1>2. /\ c \in 0 .. MaxDeposits /\ h \in 0 .. Len(blocks) /\ CountAt(h) \in 0 .. c
      /\ tree[n] = TreeAt(c, CountAt(h), Depth, 0) /\ Len(blocks) \in Nat
  BY <1>1, ReplayFacts
<1> HIDE DEF c, h
<1>3. h \in 1 .. Len(blocks)
  BY <1>1, <1>2
<1>4. CountAt(h) = blocks[h]
  BY <1>1 DEF CountAt
<1>5. FinalizedHashes(tree[n]) = Hashes(blocks[h], Depth, 0)
  BY <1>2, <1>4, LevelFacts, HashesIndependent
<1>6. FinalizedCount(tree[n]) = blocks[h]
  BY <1>2, <1>4, RootCounts
<1>7. QED
  BY <1>1, <1>3, <1>5, <1>6 DEF SnapshotOf, h

\* get_snapshot changes no tree.
LEMMA GetSnapshotReplay ==
  ASSUME Replay, NEW n \in Nodes, GetSnapshot(n)
  PROVE  Replay'
<1>1. /\ blocks' = blocks /\ boots' = boots /\ tree' = tree
      /\ mix_in_length' = mix_in_length
      /\ finalized_execution_block' = finalized_execution_block
  BY DEF GetSnapshot, node
<1>2. SnapshotReplays'
  <2>1. snapshot' = FromTreeParts(Hashes(blocks[finalized_execution_block[n]], Depth, 0),
                                  blocks[finalized_execution_block[n]],
                                  finalized_execution_block[n])
    BY ServedSnapshot DEF SnapshotOf
  <2>2. finalized_execution_block[n] \in 1 .. Len(blocks)
    BY ServedSnapshot
  <2>3. QED
    BY <1>1, <2>1, <2>2 DEF SnapshotReplays, SnapshotOf
<1>3. Growing' /\ NodesReplay'
  BY <1>1 DEF Replay, Growing, NodesReplay, CountAt
<1>4. QED
  BY <1>1, <1>2, <1>3 DEF Replay

\* Every step keeps the invariant.
LEMMA NextReplay ==
  ASSUME Replay, MinFinalize # 0, [Next]_vars
  PROVE  Replay'
<1>1. CASE Next
  BY <1>1, MineBlockReplay, NewReplay, FromSnapshotReplay, StopReplay, PushDepositReplay,
     FinalizeBlockReplay, GetSnapshotReplay DEF Next
<1>2. CASE UNCHANGED vars
  BY <1>2 DEF vars, Replay, Growing, NodesReplay, SnapshotReplays, SnapshotOf, CountAt
<1>3. QED
  BY <1>1, <1>2

\* Every tree and every snapshot is what replaying the log makes it.
THEOREM TreesReplayLog ==
  ASSUME MinFinalize # 0
  PROVE  Spec => []Replay
<1>1. Replay /\ [Next]_vars => Replay'
  BY NextReplay
<1>2. QED
  BY <1>1, InitReplay, PTL DEF Spec

-----------------------------------------------------------------------------
(***************************************************************************)
(* What the invariant says                                                 *)
(***************************************************************************)

\* The invariant gives the types.
LEMMA ReplayTypes == Replay => TypeOK
<1> SUFFICES ASSUME Replay PROVE TypeOK
  OBVIOUS
<1>1. blocks \in BoundedSeq(0 .. MaxDeposits, MaxBlocks)
  <2>1. /\ blocks \in Seq(0 .. MaxDeposits) /\ Len(blocks) <= MaxBlocks /\ Len(blocks) \in Nat
    BY ReplayFacts DEF Replay
  <2>2. Len(blocks) \in 0 .. MaxBlocks
    BY <2>1, DepositTreeAssumption
  <2>3. blocks \in [1 .. Len(blocks) -> 0 .. MaxDeposits]
    BY <2>1, LenProperties
  <2>4. QED
    BY <2>2, <2>3 DEF BoundedSeq, SeqOf
<1>2. /\ snapshot.deposit_count \in 0 .. MaxDeposits
      /\ snapshot.execution_block_height \in 0 .. Len(blocks)
  <2>1. CASE snapshot = NoSnapshot
    <3>1. snapshot.deposit_count = 0 /\ snapshot.execution_block_height = 0
      BY <2>1 DEF NoSnapshot
    <3>2. QED
      BY <3>1, ReplayFacts, PowerFacts
  <2>2. CASE snapshot # NoSnapshot
    <3>1. PICK h \in 1 .. Len(blocks) : snapshot = SnapshotOf(h)
      BY <2>2 DEF Replay, SnapshotReplays
    <3>2. snapshot.deposit_count = blocks[h] /\ snapshot.execution_block_height = h
      BY <3>1 DEF SnapshotOf, FromTreeParts
    <3>3. QED
      BY <3>2, ReplayFacts
  <2>3. QED
    BY <2>1, <2>2
<1>3. QED
  BY <1>1, <1>2 DEF TypeOK, Replay

\* The invariant gives the branches: BranchOfTree at the top of the tree, and
\* the length that get_proof appends as the last item.
LEMMA ReplayProofs == Replay => ProofsVerify
<1> SUFFICES ASSUME Replay, NEW n \in Nodes, Running(n)
             PROVE  /\ ProvableIndexes(n) \subseteq OpenIndexes(n)
                    /\ \A index \in OpenIndexes(n) :
                         LET leaf == IF index < mix_in_length[n] THEN DepositRoot(index)
                                     ELSE ZeroBytes
                         IN /\ GenerateProof(tree[n], index, Depth).leaf = leaf
                            /\ MerkleRootFromBranch(leaf, GetProof(n, index), index)
                                 = DepositTreeRoot(n)
  BY DEF ProofsVerify
<1> DEFINE c == mix_in_length[n]
           f == CountAt(finalized_execution_block[n])
           g(index) == GenerateProof(tree[n], index, Depth)
<1>1. c \in 0 .. MaxDeposits /\ f \in 0 .. c /\ tree[n] = TreeAt(c, f, Depth, 0)
  BY ReplayFacts
<1>c. c = mix_in_length[n]
  OBVIOUS
<1> HIDE DEF c, f
<1>2. c \in Nat /\ f \in Nat /\ c <= MaxDeposits /\ MaxDeposits \in Nat /\ MaxDeposits = 2^Depth - 1
      /\ Depth \in Levels
  BY <1>1, PowerFacts, LevelFacts DEF MaxDeposits
<1>3. FinalizedCount(tree[n]) = f
  BY <1>1, RootCounts
<1>4. ASSUME NEW index \in 0 .. MaxDeposits
      PROVE  /\ g(index) = AttributeError \/ IsBranch(g(index), c, index, Depth)
             /\ f <= index /\ index < c => g(index) # AttributeError
  <2>1. index \in Nat /\ Start(index, Depth) = 0
    BY <1>2, TopFacts
  <2>2. LET b == GenerateProof(TreeAt(c, f, Depth, Start(index, Depth)), index, Depth)
        IN /\ b = AttributeError \/ IsBranch(b, c, index, Depth)
           /\ f <= index /\ index < c => b # AttributeError
    BY <1>1, <1>2, <2>1, BranchOfTree
  <2>3. QED
    BY <1>1, <2>1, <2>2
<1>5. ProvableIndexes(n) \subseteq OpenIndexes(n)
  <2>1. SUFFICES ASSUME NEW index \in f .. c - 1 PROVE index \in OpenIndexes(n)
    BY <1>3, <1>c DEF ProvableIndexes
  <2>2. /\ index \in 0 .. MaxDeposits /\ f <= index /\ index < c /\ c > 0
        /\ index \in f .. 2^Depth - 1
    BY <1>2
  <2>3. g(index) # AttributeError
    BY <1>4, <2>2
  <2>4. QED
    BY <1>3, <1>c, <2>2, <2>3 DEF OpenIndexes
<1>6. ASSUME NEW index \in OpenIndexes(n)
      PROVE  LET leaf == IF index < mix_in_length[n] THEN DepositRoot(index) ELSE ZeroBytes
             IN /\ GenerateProof(tree[n], index, Depth).leaf = leaf
                /\ MerkleRootFromBranch(leaf, GetProof(n, index), index) = DepositTreeRoot(n)
  <2> DEFINE leaf == IF index < c THEN DepositRoot(index) ELSE ZeroBytes
             proof == g(index).proof
  <2>1. index \in f .. 2^Depth - 1 /\ g(index) # AttributeError
    BY <1>3 DEF OpenIndexes
  <2>2. index \in 0 .. MaxDeposits /\ index \in Nat /\ index <= MaxDeposits
    BY <1>2, <2>1
  <2>3. IsBranch(g(index), c, index, Depth)
    BY <1>4, <2>1, <2>2
  <2>4. leaf = RootAt(c, 0, index)
    BY <2>2, LevelFacts, RootAtDef
  <2>5. /\ g(index).leaf = leaf
        /\ proof \in Seq(AllHashes) /\ Len(proof) = Depth
        /\ \A k \in 1 .. Depth : proof[k] = SiblingRoot(c, index, k)
    <3> HIDE DEF g, leaf
    <3>1. QED
      BY <2>3, <2>4 DEF IsBranch
  <2>6. GetProof(n, index) = Append(proof, ToLeBytes(c))
    BY <1>c DEF GetProof
  <2>7. DepositTreeRoot(n) = Sha256(RootAt(c, Depth, 0), ToLeBytes(c))
    <3>1. GetRoot(tree[n]) = RootAt(c, Depth, 0)
      BY <1>1, <1>2, TreeRoot
    <3>2. QED
      BY <1>c, <3>1 DEF DepositTreeRoot
  <2> HIDE DEF leaf, proof
  <2>8. MerkleRootFromBranch(RootAt(c, 0, index), Append(proof, ToLeBytes(c)), index)
          = Sha256(RootAt(c, Depth, 0), ToLeBytes(c))
    BY <1>1, <2>2, <2>5, BranchVerifies
  <2>9. MerkleRootFromBranch(leaf, GetProof(n, index), index) = DepositTreeRoot(n)
    BY <2>4, <2>6, <2>7, <2>8
  <2>10. QED
    BY <1>c, <2>5, <2>9 DEF leaf
<1>7. QED
  BY <1>5, <1>6

\* The invariant gives the leaves that remain.
LEMMA ReplayPrunes == Replay => FinalizedLeavesPruned
<1> SUFFICES ASSUME Replay, NEW n \in Nodes, Running(n), finalized_execution_block[n] # 0
             PROVE  LeavesOf(tree[n]) = mix_in_length[n] - blocks[finalized_execution_block[n]]
  BY DEF FinalizedLeavesPruned
<1> DEFINE c == mix_in_length[n]
           f == CountAt(finalized_execution_block[n])
<1>1. c \in 0 .. MaxDeposits /\ f \in 0 .. c /\ tree[n] = TreeAt(c, f, Depth, 0)
  BY ReplayFacts
<1>2. f = blocks[finalized_execution_block[n]]
  BY DEF CountAt
<1>3. c = mix_in_length[n]
  OBVIOUS
<1> HIDE DEF c, f
<1>4. LeavesOf(tree[n]) = c - f
  BY <1>1, RootCounts
<1>5. QED
  BY <1>2, <1>3, <1>4

\* The invariant leaves one tree for two equal counts.
LEMMA ReplayConverges == Replay => TreesConverge
<1> SUFFICES ASSUME Replay, NEW m \in Nodes, NEW n \in Nodes, Running(m), Running(n),
                    mix_in_length[m] = mix_in_length[n],
                    CountAt(finalized_execution_block[m]) = CountAt(finalized_execution_block[n])
             PROVE  tree[m] = tree[n]
  BY DEF TreesConverge
<1> DEFINE f(k) == CountAt(finalized_execution_block[k])
           c(k) == mix_in_length[k]
<1>1. \A k \in {m, n} : /\ c(k) \in 0 .. MaxDeposits /\ f(k) \in 0 .. c(k)
                        /\ tree[k] = TreeAt(c(k), f(k), Depth, 0)
  BY ReplayFacts
<1>2. c(m) = c(n) /\ f(m) = f(n)
  OBVIOUS
<1> HIDE DEF c, f
<1>3. QED
  BY <1>1, <1>2

\* The invariant gives the fields of a snapshot and its size.
LEMMA ReplaySnapshots == Replay => SnapshotMatchesEth1Data
<1> SUFFICES ASSUME Replay, snapshot # NoSnapshot
             PROVE  LET count == blocks[snapshot.execution_block_height]
                    IN /\ snapshot.deposit_count = count
                       /\ snapshot.deposit_root = LogRoot[count]
                       /\ Len(snapshot.finalized)
                            = Cardinality({i \in 0 .. Depth : Bit(count, i) = 1})
  BY DEF SnapshotMatchesEth1Data
<1>1. PICK h \in 1 .. Len(blocks) : snapshot = SnapshotOf(h)
  BY DEF Replay, SnapshotReplays
<1>2. /\ snapshot.finalized = Hashes(blocks[h], Depth, 0)
      /\ snapshot.deposit_root = CalculateRoot(Hashes(blocks[h], Depth, 0), blocks[h])
      /\ snapshot.deposit_count = blocks[h]
      /\ snapshot.execution_block_height = h
  BY <1>1 DEF SnapshotOf, FromTreeParts
<1>3. blocks[h] \in 0 .. MaxDeposits
  BY ReplayFacts
<1>4. /\ CalculateRoot(Hashes(blocks[h], Depth, 0), blocks[h]) = LogRoot[blocks[h]]
      /\ Len(Hashes(blocks[h], Depth, 0)) = Cardinality({i \in 0 .. Depth : Bit(blocks[h], i) = 1})
  BY <1>3, SnapshotLogRoot, SnapshotSize
<1>5. QED
  BY <1>2, <1>4

-----------------------------------------------------------------------------
(***************************************************************************)
(* The refinement: the state of the log that the trees stand for           *)
(***************************************************************************)

\* The state of the log that a state of the trees stands for: the deposits that
\* are finalized, the roots, the published snapshot and the running nodes.
LogFinal == [n \in Nodes |-> IF tree[n] = None THEN 0 ELSE FinalizedCount(tree[n])]
LogNodeRoot == [n \in Nodes |->
                  Sha256(IF tree[n] = None THEN GetRoot(Zero(Depth)) ELSE GetRoot(tree[n]),
                         ToLeBytes(mix_in_length[n]))]
LogPublished == [deposit_root |-> snapshot.deposit_root,
                 deposit_count |-> snapshot.deposit_count,
                 height |-> snapshot.execution_block_height]
LogUp == {n \in Nodes : tree[n] # None}

\* The hash primitives of the log are those of the trees.
LEMMA SameHashes ==
  Log!LogRoot = LogRoot /\ Log!MaxDeposits = MaxDeposits
BY DEF Log!LogRoot, LogRoot, Log!Layer, Layer, Log!MaxDeposits, MaxDeposits, Log!Levels, Levels,
       Log!Sha256, Sha256, Log!ToLeBytes, ToLeBytes, Log!ZeroBytes, ZeroBytes,
       Log!DepositRoot, DepositRoot

\* In terms of the log the mapped state is what the log says it is.
Mapping ==
  /\ LogFinal = [n \in Nodes |-> CountAt(finalized_execution_block[n])]
  /\ LogNodeRoot = [n \in Nodes |-> LogRoot[mix_in_length[n]]]
  /\ snapshot = NoSnapshot => LogPublished = Log!NoSnapshot
  /\ snapshot # NoSnapshot =>
       \E h \in 1 .. Len(blocks) :
         /\ snapshot = SnapshotOf(h)
         /\ LogPublished = Log!Eth1Data(h)
         /\ LogPublished # Log!NoSnapshot

\* The invariant gives the mapped state.
LEMMA ReplayMapping == Replay => Mapping
<1> SUFFICES ASSUME Replay PROVE Mapping
  OBVIOUS
<1>1. ASSUME NEW n \in Nodes
      PROVE  /\ (IF tree[n] = None THEN 0 ELSE FinalizedCount(tree[n]))
                  = CountAt(finalized_execution_block[n])
             /\ Sha256(IF tree[n] = None THEN GetRoot(Zero(Depth)) ELSE GetRoot(tree[n]),
                       ToLeBytes(mix_in_length[n]))
                  = LogRoot[mix_in_length[n]]
  <2> DEFINE c == mix_in_length[n]
             f == CountAt(finalized_execution_block[n])
  <2>1. CASE tree[n] = None
    <3>1. c = 0 /\ finalized_execution_block[n] = 0
      BY <2>1, ReplayFacts DEF Running
    <3>2. f = 0
      BY <3>1 DEF CountAt
    <3>3. 0 \in 0 .. MaxDeposits /\ 0 \in 0 .. 0 /\ 0 \in Nat /\ 0 <= 0 /\ Depth \in Levels
      BY PowerFacts, LevelFacts
    <3>4. TreeAt(0, 0, Depth, 0) = IF 0 <= 0 THEN Zero(Depth) ELSE TreeAt(0, 0, Depth, 0)
      BY <3>3, TreeAtDef
    <3>5. Zero(Depth) = TreeAt(0, 0, Depth, 0)
      BY <3>3, <3>4
    <3>6. Sha256(GetRoot(TreeAt(0, 0, Depth, 0)), ToLeBytes(0)) = LogRoot[0]
      BY <3>3, TreeLogRoot
    <3>7. QED
      BY <2>1, <3>1, <3>2, <3>5, <3>6
  <2>2. CASE tree[n] # None
    <3>1. c \in 0 .. MaxDeposits /\ f \in 0 .. c /\ tree[n] = TreeAt(c, f, Depth, 0)
      BY <2>2, ReplayFacts DEF Running
    <3>2. FinalizedCount(tree[n]) = f
      BY <3>1, RootCounts
    <3>3. Sha256(GetRoot(tree[n]), ToLeBytes(c)) = LogRoot[c]
      BY <3>1, TreeLogRoot
    <3>4. QED
      BY <2>2, <3>2, <3>3
  <2>3. QED
    BY <2>1, <2>2
<1>2. LogFinal = [n \in Nodes |-> CountAt(finalized_execution_block[n])]
  BY <1>1 DEF LogFinal
<1>3. LogNodeRoot = [n \in Nodes |-> LogRoot[mix_in_length[n]]]
  BY <1>1 DEF LogNodeRoot
<1>4. snapshot = NoSnapshot => LogPublished = Log!NoSnapshot
  BY DEF LogPublished, NoSnapshot, Log!NoSnapshot
<1>5. ASSUME snapshot # NoSnapshot
      PROVE  \E h \in 1 .. Len(blocks) : /\ snapshot = SnapshotOf(h)
                                         /\ LogPublished = Log!Eth1Data(h)
                                         /\ LogPublished # Log!NoSnapshot
  <2>1. PICK h \in 1 .. Len(blocks) : snapshot = SnapshotOf(h)
    BY <1>5 DEF Replay, SnapshotReplays
  <2>2. /\ snapshot.deposit_root = CalculateRoot(Hashes(blocks[h], Depth, 0), blocks[h])
        /\ snapshot.deposit_count = blocks[h]
        /\ snapshot.execution_block_height = h
    BY <2>1 DEF SnapshotOf, FromTreeParts
  <2>3. snapshot.deposit_root = LogRoot[blocks[h]]
    BY <2>2, ReplayFacts, SnapshotLogRoot
  <2>4. LogPublished = [deposit_root |-> LogRoot[blocks[h]], deposit_count |-> blocks[h],
                        height |-> h]
    BY <2>2, <2>3 DEF LogPublished
  <2>5. LogPublished = Log!Eth1Data(h)
    BY <2>4, SameHashes DEF Log!Eth1Data
  <2>6. LogPublished.height # 0
    BY <2>4
  <2>7. Log!NoSnapshot.height = 0
    BY DEF Log!NoSnapshot
  <2>8. LogPublished # Log!NoSnapshot
    BY <2>6, <2>7
  <2>9. QED
    BY <2>1, <2>5, <2>8
<1>6. QED
  BY <1>2, <1>3, <1>4, <1>5 DEF Mapping

\* The same of the next state.
LEMMA NextMapping == (Replay => Mapping)'
BY ReplayMapping, PTL

\* A step that changes one node changes the mapped state at that node only.
LEMMA MappedNode ==
  ASSUME Replay, Replay', NEW n \in Nodes, NEW t, NEW m, NEW h,
         SetNode(n, t, m, h), blocks' = blocks
  PROVE  /\ LogFinal' = [LogFinal EXCEPT ![n] = CountAt(h)]
         /\ LogNodeRoot' = [LogNodeRoot EXCEPT ![n] = LogRoot[m]]
         /\ LogUp' = IF t = None THEN LogUp \ {n} ELSE LogUp \union {n}
<1>1. /\ tree \in [Nodes -> TreeOf[Depth] \union {None}]
      /\ mix_in_length \in [Nodes -> 0 .. MaxDeposits]
      /\ finalized_execution_block \in [Nodes -> 0 .. Len(blocks)]
  BY DEF Replay
<1>2. /\ tree' = [tree EXCEPT ![n] = t]
      /\ mix_in_length' = [mix_in_length EXCEPT ![n] = m]
      /\ finalized_execution_block' = [finalized_execution_block EXCEPT ![n] = h]
  BY DEF SetNode
<1>3. \A k \in Nodes : /\ tree'[k] = IF k = n THEN t ELSE tree[k]
                       /\ mix_in_length'[k] = IF k = n THEN m ELSE mix_in_length[k]
                       /\ finalized_execution_block'[k]
                            = IF k = n THEN h ELSE finalized_execution_block[k]
  BY <1>1, <1>2
<1>4. /\ LogFinal' = [k \in Nodes |-> CountAt(finalized_execution_block'[k])]
      /\ LogNodeRoot' = [k \in Nodes |-> LogRoot[mix_in_length'[k]]]
  BY NextMapping DEF Mapping, CountAt
<1>5. /\ LogFinal = [k \in Nodes |-> CountAt(finalized_execution_block[k])]
      /\ LogNodeRoot = [k \in Nodes |-> LogRoot[mix_in_length[k]]]
  BY ReplayMapping DEF Mapping
<1>6. LogFinal' = [LogFinal EXCEPT ![n] = CountAt(h)]
  BY <1>3, <1>4, <1>5
<1>7. LogNodeRoot' = [LogNodeRoot EXCEPT ![n] = LogRoot[m]]
  BY <1>3, <1>4, <1>5
<1>8. LogUp' = IF t = None THEN LogUp \ {n} ELSE LogUp \union {n}
  BY <1>3 DEF LogUp
<1>9. QED
  BY <1>6, <1>7, <1>8

-----------------------------------------------------------------------------
(***************************************************************************)
(* Every step is a step of the log                                         *)
(***************************************************************************)

\* The length of the log is the same in both specifications.
LEMMA SameLength == Log!LogLength = LogLength
BY DEF Log!LogLength, LogLength, Log!Last, Last

\* What the log's Start asks of the mapped states.
LEMMA LogStartIs ==
  ASSUME NEW n, NEW c, NEW h,
         n \notin LogUp, boots < MaxBoots,
         LogUp' = LogUp \union {n},
         mix_in_length' = [mix_in_length EXCEPT ![n] = c],
         LogFinal' = [LogFinal EXCEPT ![n] = c],
         finalized_execution_block' = [finalized_execution_block EXCEPT ![n] = h],
         LogNodeRoot' = [LogNodeRoot EXCEPT ![n] = LogRoot[c]],
         boots' = boots + 1, blocks' = blocks, LogPublished' = LogPublished
  PROVE  Log!Start(n, c, h)
BY SameHashes DEF Log!Start, LogUp, LogFinal, LogNodeRoot, LogPublished

\* What the log's Stop asks of the mapped states.
LEMMA LogStopIs ==
  ASSUME NEW n,
         n \in LogUp,
         LogUp' = LogUp \ {n},
         mix_in_length' = [mix_in_length EXCEPT ![n] = 0],
         LogFinal' = [LogFinal EXCEPT ![n] = 0],
         finalized_execution_block' = [finalized_execution_block EXCEPT ![n] = 0],
         LogNodeRoot' = [LogNodeRoot EXCEPT ![n] = LogRoot[0]],
         boots' = boots, blocks' = blocks, LogPublished' = LogPublished
  PROVE  Log!Stop(n)
BY SameHashes DEF Log!Stop, LogUp, LogFinal, LogNodeRoot, LogPublished

\* What the log's Learn asks of the mapped states.
LEMMA LogLearnIs ==
  ASSUME NEW n,
         n \in LogUp, mix_in_length[n] < LogLength,
         LogUp' = LogUp,
         mix_in_length' = [mix_in_length EXCEPT ![n] = mix_in_length[n] + 1],
         LogFinal' = LogFinal,
         finalized_execution_block' = finalized_execution_block,
         LogNodeRoot' = [LogNodeRoot EXCEPT ![n] = LogRoot[mix_in_length[n] + 1]],
         boots' = boots, blocks' = blocks, LogPublished' = LogPublished
  PROVE  Log!Learn(n)
BY SameHashes, SameLength DEF Log!Learn, LogUp, LogFinal, LogNodeRoot, LogPublished

\* What the log's Finalize asks of the mapped states.
LEMMA LogFinalizeIs ==
  ASSUME NEW n, NEW h,
         n \in LogUp, finalized_execution_block[n] <= h, blocks[h] <= mix_in_length[n],
         LogUp' = LogUp,
         mix_in_length' = mix_in_length,
         LogFinal' = [LogFinal EXCEPT ![n] = blocks[h]],
         finalized_execution_block' = [finalized_execution_block EXCEPT ![n] = h],
         LogNodeRoot' = LogNodeRoot,
         boots' = boots, blocks' = blocks, LogPublished' = LogPublished
  PROVE  Log!Finalize(n, h)
BY SameHashes DEF Log!Finalize, LogUp, LogFinal, LogNodeRoot, LogPublished

\* What the log's Publish asks of the mapped states.
LEMMA LogPublishIs ==
  ASSUME NEW n,
         n \in LogUp, finalized_execution_block[n] # 0,
         LogPublished' = Log!Eth1Data(finalized_execution_block[n]),
         LogUp' = LogUp, mix_in_length' = mix_in_length, LogFinal' = LogFinal,
         finalized_execution_block' = finalized_execution_block,
         LogNodeRoot' = LogNodeRoot, boots' = boots, blocks' = blocks
  PROVE  Log!Publish(n)
BY DEF Log!Publish, LogUp, LogFinal, LogNodeRoot, LogPublished

\* What the log's MineBlock asks of the mapped states.
LEMMA LogMineBlockIs ==
  ASSUME NEW c,
         Len(blocks) < MaxBlocks, c >= LogLength, blocks' = Append(blocks, c),
         LogUp' = LogUp, mix_in_length' = mix_in_length, LogFinal' = LogFinal,
         finalized_execution_block' = finalized_execution_block,
         LogNodeRoot' = LogNodeRoot, boots' = boots, LogPublished' = LogPublished
  PROVE  Log!MineBlock(c)
BY SameLength DEF Log!MineBlock, LogUp, LogFinal, LogNodeRoot, LogPublished

\* What the log's Init asks of the mapped state.
LEMMA LogInitIs ==
  ASSUME blocks = <<>>, LogUp = {}, mix_in_length = [n \in Nodes |-> 0],
         LogFinal = [n \in Nodes |-> 0], finalized_execution_block = [n \in Nodes |-> 0],
         LogNodeRoot = [n \in Nodes |-> LogRoot[0]], LogPublished = Log!NoSnapshot,
         boots = 0
  PROVE  Log!Init
BY SameHashes DEF Log!Init, LogUp, LogFinal, LogNodeRoot, LogPublished

\* A stutter of the trees is a stutter of the log.
LEMMA LogUnchangedIs ==
  ASSUME UNCHANGED vars
  PROVE  UNCHANGED Log!vars
<1>1. /\ blocks' = blocks /\ tree' = tree /\ mix_in_length' = mix_in_length
      /\ finalized_execution_block' = finalized_execution_block
      /\ snapshot' = snapshot /\ boots' = boots
  BY DEF vars
<1>2. QED
  BY <1>1 DEF Log!vars

\* A block of the trees is a block of the log.
LEMMA MineBlockMaps ==
  ASSUME Replay, Replay', NEW c \in 0 .. MaxDeposits, MineBlock(c)
  PROVE  Log!MineBlock(c)
<1>1. /\ Len(blocks) < MaxBlocks /\ c >= LogLength
      /\ blocks' = Append(blocks, c)
      /\ tree' = tree /\ mix_in_length' = mix_in_length
      /\ finalized_execution_block' = finalized_execution_block
      /\ snapshot' = snapshot /\ boots' = boots
  BY DEF MineBlock, node
<1>2. LogUp' = LogUp /\ LogFinal' = LogFinal /\ LogNodeRoot' = LogNodeRoot
      /\ LogPublished' = LogPublished
  BY <1>1 DEF LogUp, LogFinal, LogNodeRoot, LogPublished
<1>3. QED
  BY <1>1, <1>2, LogMineBlockIs

\* DepositTree.new starts a node of the log empty.
LEMMA NewMaps ==
  ASSUME Replay, Replay', NEW n \in Nodes, New(n)
  PROVE  Log!StartEmpty(n)
<1> DEFINE t == CreateEmpty(Depth)
<1>1. /\ tree[n] = None /\ boots < MaxBoots /\ boots' = boots + 1
      /\ SetNode(n, t, 0, 0)
      /\ blocks' = blocks /\ snapshot' = snapshot
  BY DEF New, Running
<1>2. t # None
  <2>1. tree' = [tree EXCEPT ![n] = t] /\ tree \in [Nodes -> TreeOf[Depth] \union {None}]
    BY <1>1 DEF SetNode, Replay
  <2>2. Zero(Depth) # None
    BY DEF Zero, None
  <2>3. QED
    BY <2>2 DEF CreateEmpty
<1> HIDE DEF t
<1>3. /\ LogFinal' = [LogFinal EXCEPT ![n] = 0]
      /\ LogNodeRoot' = [LogNodeRoot EXCEPT ![n] = LogRoot[0]]
      /\ LogUp' = LogUp \union {n}
  BY <1>1, <1>2, MappedNode DEF CountAt
<1>4. /\ mix_in_length' = [mix_in_length EXCEPT ![n] = 0]
      /\ finalized_execution_block' = [finalized_execution_block EXCEPT ![n] = 0]
  BY <1>1 DEF SetNode
<1>5. LogPublished' = LogPublished
  BY <1>1 DEF LogPublished
<1>6. n \notin LogUp
  BY <1>1 DEF LogUp
<1>7. Log!Start(n, 0, 0)
  BY <1>1, <1>3, <1>4, <1>5, <1>6, LogStartIs
<1>8. QED
  BY <1>7 DEF Log!StartEmpty

\* A start with the published count and height is a start from the snapshot.
LEMMA StartAsPublished ==
  ASSUME NEW n, NEW m, NEW g, Log!Start(n, m, g), LogPublished # Log!NoSnapshot,
         LogPublished.deposit_count = m, LogPublished.height = g
  PROVE  Log!StartFromSnapshot(n)
BY DEF Log!StartFromSnapshot, Log!Start, LogPublished

\* from_snapshot starts a node of the log from the published snapshot.
LEMMA FromSnapshotMaps ==
  ASSUME Replay, Replay', NEW n \in Nodes, FromSnapshot(n)
  PROVE  Log!StartFromSnapshot(n)
<1> DEFINE t == FromSnapshotParts(snapshot.finalized, snapshot.deposit_count, Depth)
           c == snapshot.deposit_count
           h == snapshot.execution_block_height
<1>1. /\ tree[n] = None /\ boots < MaxBoots /\ boots' = boots + 1
      /\ snapshot # NoSnapshot
      /\ SetNode(n, t, c, h)
      /\ blocks' = blocks /\ snapshot' = snapshot
  BY DEF FromSnapshot, Running
<1>2. PICK g \in 1 .. Len(blocks) : /\ snapshot = SnapshotOf(g)
                                   /\ LogPublished # Log!NoSnapshot
  BY <1>1, ReplayMapping DEF Mapping
<1>3. /\ snapshot.finalized = Hashes(blocks[g], Depth, 0) /\ c = blocks[g] /\ h = g
  BY <1>2 DEF SnapshotOf, FromTreeParts
<1>4. blocks[g] \in 0 .. MaxDeposits /\ CountAt(g) = blocks[g]
  BY ReplayFacts DEF CountAt
<1>5. t = TreeAt(blocks[g], blocks[g], Depth, 0)
  BY <1>3, <1>4, SnapshotTree
<1>6. t # None
  <2>1. blocks[g] \in 0 .. blocks[g]
    BY <1>4, PowerFacts
  <2>2. t \in Tree
    BY <1>4, <1>5, <2>1, LevelFacts, TreeInTree
  <2>3. None \notin Tree
    BY TreesClosed DEF None
  <2>4. QED
    BY <2>2, <2>3
<1>7. LogPublished.deposit_count = c /\ LogPublished.height = h
  BY DEF LogPublished
<1>8. LogPublished' = LogPublished
  BY <1>1 DEF LogPublished
<1> HIDE DEF t, c, h
<1>9. /\ LogFinal' = [LogFinal EXCEPT ![n] = c]
      /\ LogNodeRoot' = [LogNodeRoot EXCEPT ![n] = LogRoot[c]]
      /\ LogUp' = LogUp \union {n}
  BY <1>1, <1>3, <1>4, <1>6, MappedNode
<1>10. /\ mix_in_length' = [mix_in_length EXCEPT ![n] = c]
       /\ finalized_execution_block' = [finalized_execution_block EXCEPT ![n] = h]
  BY <1>1 DEF SetNode
<1>11. n \notin LogUp
  BY <1>1 DEF LogUp
<1>12. PICK m : m = c
  OBVIOUS
<1>13. Log!Start(n, m, g)
  <2>1. /\ LogFinal' = [LogFinal EXCEPT ![n] = m]
        /\ LogNodeRoot' = [LogNodeRoot EXCEPT ![n] = LogRoot[m]]
        /\ mix_in_length' = [mix_in_length EXCEPT ![n] = m]
        /\ finalized_execution_block' = [finalized_execution_block EXCEPT ![n] = g]
    BY <1>3, <1>9, <1>10, <1>12
  <2>2. QED
    BY <1>1, <1>8, <1>9, <1>11, <2>1, LogStartIs
<1>14. LogPublished # Log!NoSnapshot /\ LogPublished.deposit_count = m /\ LogPublished.height = g
  BY <1>2, <1>3, <1>7, <1>12
<1>15. QED
  BY <1>13, <1>14, StartAsPublished

\* A node that stops does so in the log.
LEMMA StopMaps ==
  ASSUME Replay, Replay', NEW n \in Nodes, Stop(n)
  PROVE  Log!Stop(n)
<1>1. /\ tree[n] # None /\ SetNode(n, None, 0, 0)
      /\ blocks' = blocks /\ snapshot' = snapshot /\ boots' = boots
  BY DEF Stop, Running
<1>2. /\ LogFinal' = [LogFinal EXCEPT ![n] = 0]
      /\ LogNodeRoot' = [LogNodeRoot EXCEPT ![n] = LogRoot[0]]
      /\ LogUp' = LogUp \ {n}
  BY <1>1, MappedNode DEF CountAt
<1>3. /\ mix_in_length' = [mix_in_length EXCEPT ![n] = 0]
      /\ finalized_execution_block' = [finalized_execution_block EXCEPT ![n] = 0]
  BY <1>1 DEF SetNode
<1>4. LogPublished' = LogPublished /\ n \in LogUp
  BY <1>1 DEF LogPublished, LogUp
<1>5. QED
  BY <1>1, <1>2, <1>3, <1>4, LogStopIs

\* push_leaf learns one more deposit.
LEMMA PushDepositMaps ==
  ASSUME Replay, Replay', NEW n \in Nodes, PushDeposit(n)
  PROVE  Log!Learn(n)
<1> DEFINE c == mix_in_length[n]
           h == finalized_execution_block[n]
           t == PushLeaf(tree[n], DepositRoot(c), Depth)
<1>1. /\ tree[n] # None /\ c < LogLength
      /\ SetNode(n, t, c + 1, h)
      /\ blocks' = blocks /\ snapshot' = snapshot /\ boots' = boots
  BY DEF PushDeposit, Running
<1>2. /\ tree \in [Nodes -> TreeOf[Depth] \union {None}]
      /\ mix_in_length \in [Nodes -> 0 .. MaxDeposits]
      /\ finalized_execution_block \in [Nodes -> 0 .. Len(blocks)]
  BY DEF Replay
<1>3. /\ c \in 0 .. MaxDeposits /\ CountAt(h) \in 0 .. c /\ h \in 0 .. Len(blocks)
      /\ tree[n] = TreeAt(c, CountAt(h), Depth, 0) /\ LogLength \in 0 .. MaxDeposits
  BY <1>1, ReplayFacts DEF Running
<1>4. LogFinal[n] = CountAt(h) /\ LogFinal \in [Nodes -> {LogFinal[k] : k \in Nodes}]
  BY ReplayMapping DEF Mapping
<1>5. mix_in_length' = [mix_in_length EXCEPT ![n] = c + 1]
      /\ finalized_execution_block' = finalized_execution_block
  BY <1>1, <1>2 DEF SetNode
<1>6. t # None
  <2> HIDE DEF c, h
  <2>1. /\ c + 1 \in 0 .. MaxDeposits /\ CountAt(h) <= c + 1 /\ CountAt(h) \in 0 .. c + 1
        /\ c \in 0 .. MaxDeposits - 1 /\ 0 <= c /\ c < 0 + 2^Depth /\ 0 \in Nat
    BY <1>1, <1>3, PowerFacts, LevelFacts
  <2>2. PushLeaf(tree[n], DepositRoot(c), Depth) = TreeAt(c + 1, CountAt(h), Depth, 0)
    BY <1>3, <2>1, LevelFacts, PushLeafTree
  <2>3. t \in Tree
    BY <2>1, <2>2, LevelFacts, TreeInTree
  <2>4. None \notin Tree
    BY TreesClosed DEF None
  <2>5. QED
    BY <2>3, <2>4
<1>7. n \in LogUp /\ LogPublished' = LogPublished
  BY <1>1 DEF LogUp, LogPublished
<1>c. c = mix_in_length[n]
  OBVIOUS
<1> HIDE DEF t, c, h
<1>8. /\ LogFinal' = [LogFinal EXCEPT ![n] = CountAt(h)]
      /\ LogNodeRoot' = [LogNodeRoot EXCEPT ![n] = LogRoot[c + 1]]
      /\ LogUp' = LogUp \union {n}
  BY <1>1, <1>6, MappedNode
<1>9. LogFinal' = LogFinal /\ LogUp' = LogUp
  BY <1>4, <1>7, <1>8
<1>10. QED
  BY <1>1, <1>5, <1>7, <1>8, <1>9, <1>c, LogLearnIs

\* A node that is stopped has forgotten its counts.
Stopped == \A n \in Nodes : ~Running(n) => mix_in_length[n] = 0
                                           /\ finalized_execution_block[n] = 0

\* The invariant says so.
LEMMA ReplayStopped == Replay => Stopped
BY ReplayFacts DEF Stopped

\* The same of the next state.
LEMMA NextStopped == (Replay => Stopped)'
BY ReplayStopped, PTL

\* finalize changes neither the count nor the root of a node.
LEMMA FinalizeBlockMaps ==
  ASSUME Replay, Replay', NEW n \in Nodes, NEW h \in 1 .. Len(blocks), FinalizeBlock(n, h),
         MinFinalize # 0
  PROVE  Log!Finalize(n, h)
<1> DEFINE c == mix_in_length[n]
           t == FinalizedInPlace(tree[n], blocks[h])
<1>1. /\ tree[n] # None /\ finalized_execution_block[n] <= h
      /\ blocks[h] <= c
      /\ SetNode(n, t, c, h)
      /\ blocks' = blocks /\ snapshot' = snapshot /\ boots' = boots
  BY DEF FinalizeBlock, Running
<1>2. /\ tree \in [Nodes -> TreeOf[Depth] \union {None}]
      /\ mix_in_length \in [Nodes -> 0 .. MaxDeposits]
      /\ Len(blocks) \in Nat
  BY ReplayFacts DEF Replay
<1>3. CountAt(h) = blocks[h]
  BY <1>2 DEF CountAt
<1>4. mix_in_length' = mix_in_length
      /\ finalized_execution_block' = [finalized_execution_block EXCEPT ![n] = h]
  BY <1>1, <1>2 DEF SetNode
<1>5. LogNodeRoot = [LogNodeRoot EXCEPT ![n] = LogRoot[c]]
  BY ReplayMapping DEF Mapping
<1>6. n \in LogUp /\ LogPublished' = LogPublished
  BY <1>1 DEF LogUp, LogPublished
<1>7. t # None
  <2> HIDE DEF t
  <2>1. tree'[n] = t /\ finalized_execution_block'[n] = h
    BY <1>1, <1>2 DEF SetNode, Replay
  <2>2. h # 0
    BY <1>2
  <2>3. QED
    BY <2>1, <2>2, NextStopped DEF Stopped, Running
<1>c. c = mix_in_length[n]
  OBVIOUS
<1> HIDE DEF c, t
<1>8. /\ LogFinal' = [LogFinal EXCEPT ![n] = CountAt(h)]
      /\ LogNodeRoot' = [LogNodeRoot EXCEPT ![n] = LogRoot[c]]
      /\ LogUp' = LogUp \union {n}
  BY <1>1, <1>7, MappedNode
<1>9. LogNodeRoot' = LogNodeRoot /\ LogUp' = LogUp
  BY <1>5, <1>6, <1>8
<1>10. QED
  BY <1>1, <1>3, <1>4, <1>6, <1>8, <1>9, <1>c, LogFinalizeIs

\* get_snapshot publishes the Eth1Data of the finalized block.
LEMMA GetSnapshotMaps ==
  ASSUME Replay, Replay', NEW n \in Nodes, GetSnapshot(n)
  PROVE  Log!Publish(n)
<1> DEFINE h == finalized_execution_block[n]
<1>1. /\ tree[n] # None /\ h # 0
      /\ blocks' = blocks /\ boots' = boots /\ tree' = tree
      /\ mix_in_length' = mix_in_length
      /\ finalized_execution_block' = finalized_execution_block
  BY DEF GetSnapshot, node, Running
<1>2. h \in 1 .. Len(blocks) /\ snapshot' = SnapshotOf(h)
  BY ServedSnapshot
<1>3. /\ snapshot'.deposit_root = CalculateRoot(Hashes(blocks[h], Depth, 0), blocks[h])
      /\ snapshot'.deposit_count = blocks[h]
      /\ snapshot'.execution_block_height = h
  BY <1>2 DEF SnapshotOf, FromTreeParts
<1>4. snapshot'.deposit_root = LogRoot[blocks[h]]
  BY <1>2, <1>3, ReplayFacts, SnapshotLogRoot
<1>5. LogPublished' = [deposit_root |-> LogRoot[blocks[h]], deposit_count |-> blocks[h],
                       height |-> h]
  BY <1>3, <1>4 DEF LogPublished
<1>6. LogPublished' = Log!Eth1Data(h)
  BY <1>5, SameHashes DEF Log!Eth1Data
<1>7. /\ LogUp' = LogUp /\ LogFinal' = LogFinal /\ LogNodeRoot' = LogNodeRoot
      /\ n \in LogUp
  BY <1>1 DEF LogUp, LogFinal, LogNodeRoot
<1>8. QED
  BY <1>1, <1>6, <1>7, LogPublishIs

\* Initial states map to initial states.
LEMMA InitMaps == Init => Log!Init
<1> SUFFICES ASSUME Init PROVE Log!Init
  OBVIOUS
<1>1. /\ blocks = <<>>
      /\ tree = [n \in Nodes |-> None]
      /\ mix_in_length = [n \in Nodes |-> 0]
      /\ finalized_execution_block = [n \in Nodes |-> 0]
      /\ snapshot = NoSnapshot
      /\ boots = 0
  BY DEF Init
<1>2. Mapping
  BY InitReplay, ReplayMapping
<1>3. LogFinal = [n \in Nodes |-> 0]
  <2>1. \A n \in Nodes : CountAt(finalized_execution_block[n]) = 0
    BY <1>1 DEF CountAt
  <2>2. QED
    BY <1>2, <2>1 DEF Mapping
<1>4. LogNodeRoot = [n \in Nodes |-> LogRoot[0]]
  <2>1. \A n \in Nodes : LogRoot[mix_in_length[n]] = LogRoot[0]
    BY <1>1
  <2>2. QED
    BY <1>2, <2>1 DEF Mapping
<1>5. LogPublished = Log!NoSnapshot
  BY <1>1, <1>2 DEF Mapping
<1>6. LogUp = {}
  BY <1>1 DEF LogUp
<1>7. QED
  BY <1>1, <1>3, <1>4, <1>5, <1>6, LogInitIs

\* Every step maps to a step of the log or to a stutter.
LEMMA NextMaps ==
  ASSUME Replay, Replay', MinFinalize # 0, [Next]_vars
  PROVE  [Log!Next]_Log!vars
<1>1. CASE Next
  <2>1. CASE \E c \in 0 .. MaxDeposits : MineBlock(c)
    <3>1. \E c \in 0 .. Log!MaxDeposits : Log!MineBlock(c)
      BY <2>1, MineBlockMaps, SameHashes
    <3>2. QED
      BY <3>1 DEF Log!Next
  <2>2. ASSUME NEW n \in Nodes, New(n) PROVE Log!Next
    BY <2>2, NewMaps DEF Log!Next
  <2>3. ASSUME NEW n \in Nodes, FromSnapshot(n) PROVE Log!Next
    BY <2>3, FromSnapshotMaps DEF Log!Next
  <2>4. ASSUME NEW n \in Nodes, Stop(n) PROVE Log!Next
    BY <2>4, StopMaps DEF Log!Next
  <2>5. ASSUME NEW n \in Nodes, PushDeposit(n) PROVE Log!Next
    BY <2>5, PushDepositMaps DEF Log!Next
  <2>6. ASSUME NEW n \in Nodes, NEW h \in 1 .. Len(blocks), FinalizeBlock(n, h)
        PROVE  Log!Next
    BY <2>6, FinalizeBlockMaps DEF Log!Next
  <2>7. ASSUME NEW n \in Nodes, GetSnapshot(n) PROVE Log!Next
    BY <2>7, GetSnapshotMaps DEF Log!Next
  <2>8. QED
    BY <1>1, <2>1, <2>2, <2>3, <2>4, <2>5, <2>6, <2>7 DEF Next
<1>2. CASE UNCHANGED vars
  BY <1>2, LogUnchangedIs
<1>3. QED
  BY <1>1, <1>2

-----------------------------------------------------------------------------
(***************************************************************************)
(* Theorems                                                                *)
(***************************************************************************)

\* Trees stay well-formed, and heights name blocks.
THEOREM TypeCorrect ==
  ASSUME MinFinalize # 0
  PROVE  Spec => []TypeOK
BY TreesReplayLog, ReplayTypes, PTL

\* get_proof of a deposit that is not finalized verifies against get_root,
\* after every sequence of pushes, finalizations, stops and snapshots.
THEOREM ProofsAlwaysVerify ==
  ASSUME MinFinalize # 0
  PROVE  Spec => []ProofsVerify
BY TreesReplayLog, ReplayProofs, PTL

\* finalize leaves a leaf for each deposit above the finalized ones, no others.
THEOREM FinalizedAlwaysPruned ==
  ASSUME MinFinalize # 0
  PROVE  Spec => []FinalizedLeavesPruned
BY TreesReplayLog, ReplayPrunes, PTL

\* Nodes with the same deposits and finalized deposits have the same tree,
\* however each came to it.
THEOREM TreesAlwaysConverge ==
  ASSUME MinFinalize # 0
  PROVE  Spec => []TreesConverge
BY TreesReplayLog, ReplayConverges, PTL

\* A snapshot carries the Eth1Data of the block that it names, and as few
\* hashes as there are binary digits set in its count.
THEOREM SnapshotsMatchLog ==
  ASSUME MinFinalize # 0
  PROVE  Spec => []SnapshotMatchesEth1Data
BY TreesReplayLog, ReplaySnapshots, PTL

\* The trees of all nodes implement the log of deposits.
THEOREM TreesImplementLog ==
  ASSUME MinFinalize # 0
  PROVE  Spec => RefinesDepositLog
<1>1. Init => Log!Init
  BY InitMaps
<1>2. Replay /\ Replay' /\ [Next]_vars => [Log!Next]_Log!vars
  BY NextMaps
<1>3. Spec => []Replay
  BY TreesReplayLog
<1>4. QED
  BY <1>1, <1>2, <1>3, PTL DEF Spec, RefinesDepositLog, Log!Spec

=============================================================================
