---------------------------- MODULE MarketProofs ----------------------------
(***************************************************************************)
(* What donations, reports and withdrawals keep true of a market, proved   *)
(* for every value of the constants.  The contracts that complete a market *)
(* add transactions of their own to these; their theorems, in              *)
(* BidOnAddressesProofs, SalaryProofs and SalaryWithDAOProofs, rest on the *)
(* lemmas of this module, which begins with what they need to know of sums *)
(* over finite sets and of the rounding divisions of the contracts.        *)
(***************************************************************************)
EXTENDS BaseBidOnAddresses, FiniteSetTheorems, TLAPS

-----------------------------------------------------------------------------
(***************************************************************************)
(* Induction over finite sets: a property of the subsets of S is the set I *)
(* of the subsets that have it, and theorem WFMin gives the smallest       *)
(* subset that would be missing from I.                                    *)
(***************************************************************************)

\* Induction over the subsets of a finite set: a set I that holds every
\* subset all of whose strict subsets it holds, holds them all.
LEMMA SubsetInduction ==
  ASSUME NEW S, IsFiniteSet(S), NEW I,
         ASSUME NEW T \in SUBSET S, \A U \in SUBSET T : U # T => U \in I
         PROVE  T \in I
  PROVE  \A T \in SUBSET S : T \in I
<1> DEFINE missing == {T \in SUBSET S : T \notin I}
<1>1. SUFFICES ASSUME missing # {} PROVE FALSE
  OBVIOUS
<1>2. IsWellFoundedOn(StrictSubsetOrdering(S), SUBSET S)
  BY FS_StrictSubsetOrderingWellFounded, FS_FiniteSubsetsOfFinite
<1>3. missing \subseteq SUBSET S
  OBVIOUS
<1> HIDE DEF missing
<1>4. PICK T \in missing : \A U \in missing : ~(<<U, T>> \in StrictSubsetOrdering(S))
  BY <1>1, <1>2, <1>3, WFMin
<1> USE DEF missing
<1>5. ASSUME NEW U \in SUBSET T, U # T PROVE U \in I
  <2>1. <<U, T>> \in StrictSubsetOrdering(S)
    BY <1>5 DEF StrictSubsetOrdering
  <2>2. QED
    BY <1>4, <2>1
<1>6. QED
  BY <1>4, <1>5

-----------------------------------------------------------------------------
(***************************************************************************)
(* The recursive function that SumOver is defined by                       *)
(***************************************************************************)

Picked(s) == CHOOSE x \in s : TRUE

\* g gives the sums of f over the subsets of S.
SumsBelow(g, f, S) ==
  g = [s \in SUBSET S |-> IF s = {} THEN 0 ELSE f[Picked(s)] + g[s \ {Picked(s)}]]

\* What such a function gives for a set depends on nothing but the values of f
\* on that set.
LEMMA SumsAgree ==
  ASSUME NEW S, IsFiniteSet(S), NEW A, NEW B, S \subseteq A, S \subseteq B,
         NEW f, NEW f2, \A x \in S : f[x] = f2[x],
         NEW g, SumsBelow(g, f, A), NEW h, SumsBelow(h, f2, B)
  PROVE  g[S] = h[S]
<1> DEFINE I == {T \in SUBSET S : g[T] = h[T]}
<1>1. ASSUME NEW T \in SUBSET S, \A U \in SUBSET T : U # T => U \in I
      PROVE  T \in I
  <2>1. T \in SUBSET A /\ T \in SUBSET B
    OBVIOUS
  <2>2. CASE T = {}
    BY <2>1, <2>2 DEF SumsBelow
  <2>3. CASE T # {}
    <3>1. Picked(T) \in T
      BY <2>3 DEF Picked
    <3>2. g[T \ {Picked(T)}] = h[T \ {Picked(T)}]
      BY <1>1, <3>1
    <3>3. f[Picked(T)] = f2[Picked(T)]
      BY <3>1
    <3>4. /\ g[T] = f[Picked(T)] + g[T \ {Picked(T)}]
          /\ h[T] = f2[Picked(T)] + h[T \ {Picked(T)}]
      BY <2>1, <2>3 DEF SumsBelow
    <3>5. QED
      BY <3>2, <3>3, <3>4
  <2>4. QED
    BY <2>2, <2>3
<1> HIDE DEF I
<1>2. \A T \in SUBSET S : T \in I
  BY <1>1, SubsetInduction
<1>3. QED
  BY <1>2 DEF I

\* Such a function exists: the sums over a set are put together from those
\* over its strict subsets.
LEMMA SumsExist ==
  ASSUME NEW S, IsFiniteSet(S), NEW f
  PROVE  \E g : SumsBelow(g, f, S)
<1> DEFINE I == {T \in SUBSET S : \E g : SumsBelow(g, f, T)}
<1>1. ASSUME NEW T \in SUBSET S, \A U \in SUBSET T : U # T => U \in I
      PROVE  T \in I
  <2> DEFINE sumsOf(U) == CHOOSE g : SumsBelow(g, f, U)
             rest(s) == s \ {Picked(s)}
             g == [s \in SUBSET T |->
                     IF s = {} THEN 0 ELSE f[Picked(s)] + sumsOf(rest(s))[rest(s)]]
  <2>1. ASSUME NEW U \in SUBSET T, U # T
        PROVE  SumsBelow(sumsOf(U), f, U)
    <3>1. \E h : SumsBelow(h, f, U)
      BY <1>1, <2>1
    <3>2. QED
      BY <3>1
  <2>2. ASSUME NEW s \in SUBSET T, s # {}
        PROVE  rest(s) \in SUBSET T /\ rest(s) # T /\ rest(s) \in SUBSET S
    BY <2>2 DEF Picked
  <2>3. ASSUME NEW u \in SUBSET T, u # T
        PROVE  g[u] = sumsOf(u)[u]
    <3>1. sumsOf(u)[u] = IF u = {} THEN 0 ELSE f[Picked(u)] + sumsOf(u)[rest(u)]
      <4>1. SumsBelow(sumsOf(u), f, u)
        BY <2>1, <2>3
      <4> HIDE DEF sumsOf
      <4>2. QED
        BY <4>1 DEF SumsBelow
    <3>2. CASE u = {}
      BY <3>1, <3>2
    <3>3. CASE u # {}
      <4>1. rest(u) \in SUBSET T /\ rest(u) # T /\ rest(u) \in SUBSET S
        BY <2>2, <3>3
      <4>2. /\ SumsBelow(sumsOf(u), f, u)
            /\ SumsBelow(sumsOf(rest(u)), f, rest(u))
            /\ IsFiniteSet(rest(u))
            /\ rest(u) \subseteq u
        BY <2>1, <2>3, <4>1, FS_Subset
      <4> HIDE DEF sumsOf, rest
      <4>3. sumsOf(u)[rest(u)] = sumsOf(rest(u))[rest(u)]
        BY <4>2, SumsAgree
      <4>4. QED
        BY <3>1, <3>3, <4>3
    <3>4. QED
      BY <3>2, <3>3
  <2>4. ASSUME NEW s \in SUBSET T, s # {}
        PROVE  g[s] = f[Picked(s)] + g[rest(s)]
    <3>1. g[rest(s)] = sumsOf(rest(s))[rest(s)]
      BY <2>2, <2>3, <2>4
    <3>2. QED
      BY <2>4, <3>1
  <2>5. g = [s \in SUBSET T |-> g[s]] /\ g[{}] = 0
    OBVIOUS
  <2> HIDE DEF g
  <2>6. \A s \in SUBSET T : g[s] = IF s = {} THEN 0 ELSE f[Picked(s)] + g[rest(s)]
    BY <2>4, <2>5
  <2>7. SumsBelow(g, f, T)
    BY <2>5, <2>6 DEF SumsBelow
  <2>8. QED
    BY <2>7
<1> HIDE DEF I
<1>2. \A T \in SUBSET S : T \in I
  BY <1>1, SubsetInduction
<1>3. QED
  BY <1>2 DEF I

\* SumOver is what any such function gives.
LEMMA SumOverIs ==
  ASSUME NEW S, IsFiniteSet(S), NEW A, S \subseteq A, NEW f, NEW f2,
         \A x \in S : f[x] = f2[x], NEW g, SumsBelow(g, f2, A)
  PROVE  SumOver(f, S) = g[S]
<1> DEFINE iter == CHOOSE h : SumsBelow(h, f, S)
<1>1. SumsBelow(iter, f, S)
  BY SumsExist
<1>2. SumOver(f, S) = iter[S]
  <2>1. SumOver(f, S) =
          (CHOOSE h : h = [s \in SUBSET S |->
                             IF s = {} THEN 0
                             ELSE LET x == CHOOSE x \in s : TRUE
                                  IN  f[x] + h[s \ {x}]])[S]
    BY DEF SumOver, MapThenSumSet, MapThenFoldSet
  <2>2. QED
    BY <2>1 DEF SumsBelow, Picked
<1> HIDE DEF iter
<1>3. iter[S] = g[S]
  BY <1>1, SumsAgree
<1>4. QED
  BY <1>2, <1>3

-----------------------------------------------------------------------------
(***************************************************************************)
(* Sums                                                                    *)
(***************************************************************************)

\* The sum over a set depends on the values of the function on that set only.
LEMMA SumSame ==
  ASSUME NEW S, IsFiniteSet(S), NEW f, NEW f2, \A x \in S : f[x] = f2[x]
  PROVE  SumOver(f, S) = SumOver(f2, S)
<1>1. PICK g : SumsBelow(g, f2, S)
  BY SumsExist
<1>2. SumOver(f, S) = g[S]
  BY <1>1, SumOverIs
<1>3. SumOver(f2, S) = g[S]
  BY <1>1, SumOverIs
<1>4. QED
  BY <1>2, <1>3

\* Nothing adds up to 0.
LEMMA SumEmpty ==
  ASSUME NEW f
  PROVE  SumOver(f, {}) = 0
<1>1. IsFiniteSet({})
  BY FS_EmptySet
<1>2. PICK g : SumsBelow(g, f, {})
  BY <1>1, SumsExist
<1>3. SumOver(f, {}) = g[{}]
  BY <1>1, <1>2, SumOverIs
<1>4. QED
  BY <1>2, <1>3 DEF SumsBelow

\* The equation that SumOver is computed by.
LEMMA SumPicked ==
  ASSUME NEW S, IsFiniteSet(S), S # {}, NEW f
  PROVE  /\ Picked(S) \in S
         /\ SumOver(f, S) = f[Picked(S)] + SumOver(f, S \ {Picked(S)})
<1>1. PICK g : SumsBelow(g, f, S)
  BY SumsExist
<1>2. SumOver(f, S) = g[S]
  BY <1>1, SumOverIs
<1>3. IsFiniteSet(S \ {Picked(S)})
  BY FS_RemoveElement
<1>4. SumOver(f, S \ {Picked(S)}) = g[S \ {Picked(S)}]
  BY <1>1, <1>3, SumOverIs
<1>5. Picked(S) \in S
  BY DEF Picked
<1>6. QED
  BY <1>1, <1>2, <1>4, <1>5 DEF SumsBelow

\* A sum of integers is an integer, one of naturals a natural.
LEMMA SumType ==
  ASSUME NEW S, IsFiniteSet(S), NEW f
  PROVE  /\ (\A x \in S : f[x] \in Int) => SumOver(f, S) \in Int
         /\ (\A x \in S : f[x] \in Nat) => SumOver(f, S) \in Nat
<1>1. ASSUME NEW V, V \in {Int, Nat}, \A x \in S : f[x] \in V
      PROVE  SumOver(f, S) \in V
  <2> DEFINE I == {T \in SUBSET S : SumOver(f, T) \in V}
  <2>1. ASSUME NEW T \in SUBSET S, \A U \in SUBSET T : U # T => U \in I
        PROVE  T \in I
    <3>1. IsFiniteSet(T)
      BY FS_Subset
    <3>2. CASE T = {}
      BY <1>1, <3>2, SumEmpty
    <3>3. CASE T # {}
      <4>1. /\ Picked(T) \in T
            /\ SumOver(f, T) = f[Picked(T)] + SumOver(f, T \ {Picked(T)})
        BY <3>1, <3>3, SumPicked
      <4>2. T \ {Picked(T)} \in I /\ f[Picked(T)] \in V
        BY <1>1, <2>1, <4>1
      <4>3. \A m, n \in V : m + n \in V
        BY <1>1
      <4>4. QED
        BY <4>1, <4>2, <4>3
    <3>4. QED
      BY <3>2, <3>3
  <2> HIDE DEF I
  <2>2. \A T \in SUBSET S : T \in I
    BY <2>1, SubsetInduction
  <2>3. QED
    BY <2>2 DEF I
<1>2. QED
  BY <1>1

\* Any element may be taken out of a sum.
LEMMA SumRemove ==
  ASSUME NEW S, IsFiniteSet(S), NEW f, \A y \in S : f[y] \in Int, NEW x \in S
  PROVE  SumOver(f, S) = f[x] + SumOver(f, S \ {x})
<1> DEFINE I == {T \in SUBSET S :
                   \A y \in T : SumOver(f, T) = f[y] + SumOver(f, T \ {y})}
<1>1. ASSUME NEW T \in SUBSET S, \A U \in SUBSET T : U # T => U \in I
      PROVE  T \in I
  <2>1. SUFFICES ASSUME NEW y \in T
                 PROVE  SumOver(f, T) = f[y] + SumOver(f, T \ {y})
    OBVIOUS
  <2> DEFINE c == Picked(T)
             rest == (T \ {c}) \ {y}
  <2>2. IsFiniteSet(T) /\ T # {}
    BY FS_Subset
  <2>3. c \in T /\ SumOver(f, T) = f[c] + SumOver(f, T \ {c})
    BY <2>2, SumPicked
  <2>4. CASE c = y
    BY <2>3, <2>4
  <2>5. CASE c # y
    <3> HIDE DEF c
    <3>1. SumOver(f, T \ {c}) = f[y] + SumOver(f, rest)
      BY <1>1, <2>3, <2>5
    <3>2. SumOver(f, T \ {y}) = f[c] + SumOver(f, (T \ {y}) \ {c})
      BY <1>1, <2>3, <2>5
    <3>3. SumOver(f, (T \ {y}) \ {c}) = SumOver(f, rest)
      <4>1. (T \ {y}) \ {c} = rest
        OBVIOUS
      <4>2. QED
        BY <4>1, Zenon
    <3>4. SumOver(f, rest) \in Int
      <4>1. IsFiniteSet(rest) /\ \A z \in rest : f[z] \in Int
        BY <2>2, FS_RemoveElement
      <4>2. QED
        BY <4>1, SumType
    <3>5. f[c] \in Int /\ f[y] \in Int
      BY <2>3
    <3> HIDE DEF rest
    <3>6. QED
      BY <2>3, <3>1, <3>2, <3>3, <3>4, <3>5
  <2>6. QED
    BY <2>4, <2>5
<1> HIDE DEF I
<1>2. \A T \in SUBSET S : T \in I
  BY <1>1, SubsetInduction
<1>3. QED
  BY <1>2 DEF I

\* Changing one value changes the sum by the difference.
LEMMA SumChange ==
  ASSUME NEW S, IsFiniteSet(S), NEW x \in S,
         NEW f, \A y \in S : f[y] \in Int, NEW f2, f2[x] \in Int,
         \A y \in S : y # x => f2[y] = f[y]
  PROVE  SumOver(f2, S) = SumOver(f, S) - f[x] + f2[x]
<1>1. IsFiniteSet(S \ {x})
  BY FS_RemoveElement
<1>2. \A y \in S : f2[y] \in Int
  OBVIOUS
<1>3. SumOver(f, S) = f[x] + SumOver(f, S \ {x})
  BY SumRemove
<1>4. SumOver(f2, S) = f2[x] + SumOver(f2, S \ {x})
  BY <1>2, SumRemove
<1>5. SumOver(f2, S \ {x}) = SumOver(f, S \ {x})
  BY <1>1, SumSame
<1>6. SumOver(f, S \ {x}) \in Int
  BY <1>1, SumType
<1>7. QED
  BY <1>3, <1>4, <1>5, <1>6

\* Sums compare as their terms do.
LEMMA SumMonotone ==
  ASSUME NEW S, IsFiniteSet(S), NEW f, \A x \in S : f[x] \in Int,
         NEW f2, \A x \in S : f2[x] \in Int, \A x \in S : f[x] <= f2[x]
  PROVE  SumOver(f, S) <= SumOver(f2, S)
<1> DEFINE I == {T \in SUBSET S : SumOver(f, T) <= SumOver(f2, T)}
<1>1. ASSUME NEW T \in SUBSET S, \A U \in SUBSET T : U # T => U \in I
      PROVE  T \in I
  <2>1. IsFiniteSet(T)
    BY FS_Subset
  <2>2. CASE T = {}
    BY <2>2, SumEmpty
  <2>3. CASE T # {}
    <3> DEFINE rest == T \ {Picked(T)}
    <3>1. /\ Picked(T) \in T
          /\ SumOver(f, T) = f[Picked(T)] + SumOver(f, rest)
          /\ SumOver(f2, T) = f2[Picked(T)] + SumOver(f2, rest)
      BY <2>1, <2>3, SumPicked
    <3>2. SumOver(f, rest) <= SumOver(f2, rest)
      BY <1>1, <3>1
    <3>3. IsFiniteSet(rest) /\ rest \subseteq S
      BY <2>1, FS_RemoveElement
    <3> HIDE DEF rest
    <3>4. SumOver(f, rest) \in Int /\ SumOver(f2, rest) \in Int
      BY <3>3, SumType
    <3>5. /\ f[Picked(T)] \in Int
          /\ f2[Picked(T)] \in Int
          /\ f[Picked(T)] <= f2[Picked(T)]
      BY <3>1
    <3>6. QED
      BY <3>1, <3>2, <3>4, <3>5
  <2>4. QED
    BY <2>2, <2>3
<1> HIDE DEF I
<1>2. \A T \in SUBSET S : T \in I
  BY <1>1, SubsetInduction
<1>3. QED
  BY <1>2 DEF I

\* The sum of sums, term by term.
LEMMA SumAdd ==
  ASSUME NEW S, IsFiniteSet(S), NEW f, \A x \in S : f[x] \in Int,
         NEW f2, \A x \in S : f2[x] \in Int,
         NEW h, \A x \in S : h[x] = f[x] + f2[x]
  PROVE  SumOver(h, S) = SumOver(f, S) + SumOver(f2, S)
<1> DEFINE I == {T \in SUBSET S : SumOver(h, T) = SumOver(f, T) + SumOver(f2, T)}
<1>1. ASSUME NEW T \in SUBSET S, \A U \in SUBSET T : U # T => U \in I
      PROVE  T \in I
  <2>1. IsFiniteSet(T)
    BY FS_Subset
  <2>2. CASE T = {}
    BY <2>2, SumEmpty
  <2>3. CASE T # {}
    <3> DEFINE rest == T \ {Picked(T)}
    <3>1. /\ Picked(T) \in T
          /\ SumOver(f, T) = f[Picked(T)] + SumOver(f, rest)
          /\ SumOver(f2, T) = f2[Picked(T)] + SumOver(f2, rest)
          /\ SumOver(h, T) = h[Picked(T)] + SumOver(h, rest)
      BY <2>1, <2>3, SumPicked
    <3>2. SumOver(h, rest) = SumOver(f, rest) + SumOver(f2, rest)
      BY <1>1, <3>1
    <3>3. IsFiniteSet(rest) /\ rest \subseteq S
      BY <2>1, FS_RemoveElement
    <3> HIDE DEF rest
    <3>4. SumOver(f, rest) \in Int /\ SumOver(f2, rest) \in Int
      BY <3>3, SumType
    <3>5. /\ f[Picked(T)] \in Int
          /\ f2[Picked(T)] \in Int
          /\ h[Picked(T)] = f[Picked(T)] + f2[Picked(T)]
      BY <3>1
    <3>6. QED
      BY <3>1, <3>2, <3>4, <3>5
  <2>4. QED
    BY <2>2, <2>3
<1> HIDE DEF I
<1>2. \A T \in SUBSET S : T \in I
  BY <1>1, SubsetInduction
<1>3. QED
  BY <1>2 DEF I

\* A factor of all terms is a factor of the sum.
LEMMA SumScale ==
  ASSUME NEW S, IsFiniteSet(S), NEW f, \A x \in S : f[x] \in Int,
         NEW k \in Int, NEW h, \A x \in S : h[x] = f[x] * k
  PROVE  SumOver(h, S) = SumOver(f, S) * k
<1> DEFINE I == {T \in SUBSET S : SumOver(h, T) = SumOver(f, T) * k}
<1>1. ASSUME NEW T \in SUBSET S, \A U \in SUBSET T : U # T => U \in I
      PROVE  T \in I
  <2>1. IsFiniteSet(T)
    BY FS_Subset
  <2>2. CASE T = {}
    BY <2>2, SumEmpty
  <2>3. CASE T # {}
    <3> DEFINE rest == T \ {Picked(T)}
    <3>1. /\ Picked(T) \in T
          /\ SumOver(f, T) = f[Picked(T)] + SumOver(f, rest)
          /\ SumOver(h, T) = h[Picked(T)] + SumOver(h, rest)
      BY <2>1, <2>3, SumPicked
    <3>2. SumOver(h, rest) = SumOver(f, rest) * k
      BY <1>1, <3>1
    <3>3. IsFiniteSet(rest) /\ rest \subseteq S
      BY <2>1, FS_RemoveElement
    <3> HIDE DEF rest
    <3>4. SumOver(f, rest) \in Int
      BY <3>3, SumType
    <3>5. f[Picked(T)] \in Int /\ h[Picked(T)] = f[Picked(T)] * k
      BY <3>1
    <3>6. \A m, n \in Int : m * k + n * k = (m + n) * k
      OBVIOUS
    <3>7. QED
      BY <3>1, <3>2, <3>4, <3>5, <3>6
  <2>4. QED
    BY <2>2, <2>3
<1> HIDE DEF I
<1>2. \A T \in SUBSET S : T \in I
  BY <1>1, SubsetInduction
<1>3. QED
  BY <1>2 DEF I

\* The sum over a part of a set is a sum over the whole set to which the rest
\* adds nothing.
LEMMA SumPart ==
  ASSUME NEW S, IsFiniteSet(S), NEW P \in SUBSET S, NEW f, \A x \in S : f[x] \in Int,
         NEW h, \A x \in S : h[x] = IF x \in P THEN f[x] ELSE 0
  PROVE  SumOver(h, S) = SumOver(f, P)
<1> DEFINE I == {T \in SUBSET S : SumOver(h, T) = SumOver(f, T \intersect P)}
<1>1. ASSUME NEW T \in SUBSET S, \A U \in SUBSET T : U # T => U \in I
      PROVE  T \in I
  <2>1. IsFiniteSet(T)
    BY FS_Subset
  <2>2. CASE T = {}
    <3>1. T \intersect P = {}
      BY <2>2
    <3>2. SumOver(f, T \intersect P) = 0
      BY <3>1, SumEmpty
    <3>3. QED
      BY <2>2, <3>2, SumEmpty
  <2>3. CASE T # {}
    <3> DEFINE x == Picked(T)
               rest == T \ {x}
    <3>1. x \in T /\ SumOver(h, T) = h[x] + SumOver(h, rest)
      BY <2>1, <2>3, SumPicked
    <3>2. SumOver(h, rest) = SumOver(f, rest \intersect P)
      BY <1>1, <3>1
    <3>3. /\ IsFiniteSet(T \intersect P)
          /\ IsFiniteSet(rest \intersect P)
          /\ \A y \in T \intersect P : f[y] \in Int
          /\ \A y \in rest \intersect P : f[y] \in Int
      BY <2>1, FS_Subset
    <3> HIDE DEF x
    <3>4. SumOver(f, rest \intersect P) \in Int
      BY <3>3, SumType
    <3>5. CASE x \in P
      <4>1. x \in T \intersect P
        BY <3>1, <3>5
      <4>2. SumOver(f, T \intersect P) = f[x] + SumOver(f, (T \intersect P) \ {x})
        BY <3>3, <4>1, SumRemove
      <4>3. (T \intersect P) \ {x} = rest \intersect P
        OBVIOUS
      <4>4. SumOver(f, (T \intersect P) \ {x}) = SumOver(f, rest \intersect P)
        BY <4>3, Zenon
      <4>5. h[x] = f[x]
        BY <3>1, <3>5
      <4>6. QED
        BY <3>1, <3>2, <4>2, <4>4, <4>5
    <3>6. CASE x \notin P
      <4>1. T \intersect P = rest \intersect P
        BY <3>6
      <4>2. SumOver(f, T \intersect P) = SumOver(f, rest \intersect P)
        BY <4>1, Zenon
      <4>3. h[x] = 0
        BY <3>1, <3>6
      <4> HIDE DEF rest
      <4>4. SumOver(h, T) = SumOver(f, T \intersect P)
        BY <3>1, <3>2, <3>4, <4>2, <4>3
      <4>5. QED
        BY <4>4
    <3>7. QED
      BY <3>5, <3>6
  <2>4. QED
    BY <2>2, <2>3
<1> HIDE DEF I
<1>2. \A T \in SUBSET S : T \in I
  BY <1>1, SubsetInduction
<1>3. S \intersect P = P
  OBVIOUS
<1>4. SumOver(h, S) = SumOver(f, S \intersect P)
  BY <1>2 DEF I
<1>5. SumOver(f, S \intersect P) = SumOver(f, P)
  BY <1>3, Zenon
<1>6. QED
  BY <1>4, <1>5

\* Zeros add up to 0.
LEMMA SumZero ==
  ASSUME NEW S, IsFiniteSet(S), NEW f, \A x \in S : f[x] = 0
  PROVE  SumOver(f, S) = 0
<1>1. SumOver(f, S) = SumOver(f, S) * 0
  BY SumScale
<1>2. SumOver(f, S) \in Int
  BY SumType
<1>3. QED
  BY <1>1, <1>2

\* No term of a sum of naturals is greater than the sum.
LEMMA SumTerm ==
  ASSUME NEW S, IsFiniteSet(S), NEW f, \A y \in S : f[y] \in Nat, NEW x \in S
  PROVE  f[x] <= SumOver(f, S)
<1>1. SumOver(f, S) = f[x] + SumOver(f, S \ {x})
  BY SumRemove
<1>2. IsFiniteSet(S \ {x})
  BY FS_RemoveElement
<1>3. SumOver(f, S \ {x}) \in Nat
  BY <1>2, SumType
<1>4. QED
  BY <1>1, <1>3

\* Nor are two of them together.
LEMMA SumTwoTerms ==
  ASSUME NEW S, IsFiniteSet(S), NEW f, \A z \in S : f[z] \in Nat,
         NEW x \in S, NEW y \in S, x # y
  PROVE  f[x] + f[y] <= SumOver(f, S)
<1>1. SumOver(f, S) = f[x] + SumOver(f, S \ {x})
  BY SumRemove
<1>2. IsFiniteSet(S \ {x})
  BY FS_RemoveElement
<1>3. f[y] <= SumOver(f, S \ {x})
  BY <1>2, SumTerm
<1>4. SumOver(f, S \ {x}) \in Nat
  BY <1>2, SumType
<1>5. QED
  BY <1>1, <1>3, <1>4

-----------------------------------------------------------------------------
(***************************************************************************)
(* Divisions that round down                                               *)
(***************************************************************************)

\* A quotient of naturals is a natural, and no more than the exact quotient.
LEMMA QuotientBound ==
  ASSUME NEW n \in Nat, NEW d \in Nat \ {0}
  PROVE  n \div d \in Nat /\ (n \div d) * d <= n
OBVIOUS

\* A greater dividend has no smaller quotient.
LEMMA QuotientMonotone ==
  ASSUME NEW n \in Nat, NEW m \in Nat, n <= m, NEW d \in Nat \ {0}
  PROVE  n \div d <= m \div d
OBVIOUS

\* A factor that is not 0 may be taken from both sides.
LEMMA FactorCancel ==
  ASSUME NEW m \in Nat, NEW n \in Nat, NEW d \in Nat \ {0}, m * d <= n * d
  PROVE  m <= n
OBVIOUS

\* Products of naturals compare as their factors do.
LEMMA ProductMonotone ==
  ASSUME NEW m \in Nat, NEW n \in Nat, m <= n, NEW k \in Nat
  PROVE  m * k \in Nat /\ n * k \in Nat /\ m * k <= n * k
OBVIOUS

-----------------------------------------------------------------------------
(***************************************************************************)
(* The inductive invariant of a market                                     *)
(***************************************************************************)

TokenMap == [TokenId -> [Account -> Uint]]

MarketTypeOK ==
  /\ TokenTypeOK
  /\ LockTypeOK
  /\ CollateralTypeOK
  /\ ResultTypeOK

\* The second round divides by what was withdrawn in the first, which is
\* counted in the second only: nothing is ever marked or paid in it.
NothingInSecondRound ==
  /\ \A o \in Oracle : usersWithdrewInFirstRound[o] = 0
  /\ \A id \in CounterIds, a \in Account : lastCollateralBalanceSecondRoundMap[id][a] = 0
  /\ \A t \in Collateral, o \in Oracle : paid[t][o]["second"] = 0

\* The inductive invariant of a market.
MarketInv ==
  /\ MarketTypeOK
  /\ NoCounterWrap
  /\ PerOracleSum
  /\ DenominatorIsSum
  /\ NothingInSecondRound

-----------------------------------------------------------------------------
(***************************************************************************)
(* Arithmetic and tokens                                                   *)
(***************************************************************************)

\* The sets that the sums of the properties range over are finite.
LEMMA FiniteSets ==
  /\ IsFiniteSet(Account)
  /\ IsFiniteSet(Oracle)
  /\ IsFiniteSet(Condition)
  /\ IsFiniteSet(TokenId)
<1>1. IsFiniteSet(Users \union {This})
  BY UsersAssumption, FS_AddElement
<1>2. IsFiniteSet((Users \union {This}) \union {Null})
  BY <1>1, FS_AddElement
<1>3. Account = (Users \union {This}) \union {Null}
  BY DEF Account
<1>4. IsFiniteSet(Account)
  BY <1>2, <1>3
<1>5. IsFiniteSet(0 .. MaxOracle) /\ IsFiniteSet(1 .. MaxCondition)
  BY TokenAssumption, LockAssumption, FS_Interval
<1>6. IsFiniteSet(TokenId)
  BY <1>5, CountersAssumption, FS_Union DEF Condition, TokenId
<1>7. QED
  BY <1>4, <1>5, <1>6 DEF Oracle, Condition

\* Divu: a quotient of naturals is a natural.
LEMMA QuotientNat == \A n \in Nat, d \in Nat \ {0} : n \div d \in Nat
OBVIOUS

\* Unchecked arithmetic stays within the width of uint256.
LEMMA RemainderUint == \A n \in Int : n % (MaxUint + 1) \in Uint
BY TokenAssumption DEF Uint

\* A number that has the width of uint256 is not changed by a remainder.
LEMMA RemainderSame == \A n \in Uint : n % (MaxUint + 1) = n
BY TokenAssumption DEF Uint

\* Minting keeps the width of balances and of totals, and changes the entries
\* of the token that is minted only.
LEMMA MintType ==
  ASSUME NEW b \in TokenMap, NEW totals \in [TokenId -> Uint],
         NEW to \in Account, NEW id \in TokenId, NEW value \in Nat,
         totals[id] + value <= MaxUint
  PROVE  /\ MintedBalances(b, to, id, value) \in TokenMap
         /\ MintedTotals(totals, id, value) \in [TokenId -> Uint]
         /\ MintedTotals(totals, id, value)[id] = totals[id] + value
         /\ \A i \in TokenId : MintedTotals(totals, id, value)[i] >= totals[i]
         /\ \A i \in TokenId :
              i # id => /\ MintedTotals(totals, id, value)[i] = totals[i]
                        /\ MintedBalances(b, to, id, value)[i] = b[i]
<1>1. b[id][to] + value \in Int /\ totals[id] + value \in Uint
  BY TokenAssumption DEF TokenMap, Uint
<1>2. (b[id][to] + value) % (MaxUint + 1) \in Uint
  BY <1>1, RemainderUint
<1>3. MintedBalances(b, to, id, value) \in TokenMap
  BY <1>2 DEF MintedBalances, TokenMap
<1>4. \A i \in TokenId : totals[i] \in Int
  BY DEF Uint
<1>5. \A i \in TokenId : i # id => MintedBalances(b, to, id, value)[i] = b[i]
  BY DEF MintedBalances, TokenMap
<1>6. QED
  BY <1>1, <1>3, <1>4, <1>5 DEF MintedTotals

\* A transfer keeps every balance within its width.
LEMMA MovedBalancesType ==
  ASSUME NEW b \in TokenMap, NEW from \in Account, NEW to \in Account,
         NEW id \in TokenId, NEW value \in Nat, CanMove(b, from, to, id, value)
  PROVE  MovedBalances(b, from, to, id, value) \in TokenMap
<1> USE DEF TokenMap
<1> DEFINE taken == [b EXCEPT ![id][from] = @ - value]
<1>1. b[id][from] - value \in Uint
  BY TokenAssumption DEF CanMove, Uint
<1>2. taken \in TokenMap
  BY <1>1
<1>3. taken[id][to] + value \in Uint
  <2>1. CASE from = to
    BY <2>1, TokenAssumption DEF Uint
  <2>2. CASE from # to
    <3>1. taken[id][to] = b[id][to] /\ b[id][to] \in Uint
      BY <2>2
    <3>2. b[id][to] + value <= MaxUint
      BY <2>2 DEF CanMove
    <3>3. QED
      BY <3>1, <3>2, TokenAssumption DEF Uint
  <2>3. QED
    BY <2>1, <2>2
<1> HIDE DEF taken
<1>4. [taken EXCEPT ![id][to] = @ + value] \in TokenMap
  BY <1>2, <1>3
<1>5. QED
  BY <1>4 DEF MovedBalances, taken

\* A transfer moves tokens from one account to another, which leaves every sum
\* of balances as it is; the receiver's own balance does not shrink.
LEMMA MoveKeepsSums ==
  ASSUME NEW b \in TokenMap, NEW from \in Account, NEW to \in Account,
         NEW id \in TokenId, NEW value \in Nat, CanMove(b, from, to, id, value)
  PROVE  /\ \A i \in TokenId :
              SumOver(MovedBalances(b, from, to, id, value)[i], Account)
                = SumOver(b[i], Account)
         /\ \A i \in TokenId, a \in Account :
              i # id \/ a # from => MovedBalances(b, from, to, id, value)[i][a] >= b[i][a]
<1> DEFINE taken == [b EXCEPT ![id][from] = @ - value]
           moved == MovedBalances(b, from, to, id, value)
<1>1. moved = [taken EXCEPT ![id][to] = @ + value]
  BY DEF MovedBalances
<1>2. \A i \in TokenId : b[i] \in [Account -> Uint]
  BY DEF TokenMap
<1>3. \A a \in Account : b[id][a] \in Int
  BY <1>2 DEF Uint
<1>4. /\ DOMAIN taken = TokenId
      /\ DOMAIN taken[id] = Account
      /\ taken[id][from] = b[id][from] - value
      /\ \A a \in Account : a # from => taken[id][a] = b[id][a]
      /\ \A i \in TokenId : i # id => taken[i] = b[i]
  BY DEF TokenMap
<1>5. \A a \in Account : taken[id][a] \in Int
  BY <1>3, <1>4
<1> HIDE DEF taken
<1>6. /\ moved[id][to] = taken[id][to] + value
      /\ \A a \in Account : a # to => moved[id][a] = taken[id][a]
      /\ \A i \in TokenId : i # id => moved[i] = taken[i]
  BY <1>1, <1>4
<1> HIDE DEF moved
<1>7. SumOver(taken[id], Account) = SumOver(b[id], Account) - b[id][from] + taken[id][from]
  BY <1>3, <1>4, <1>5, FiniteSets, SumChange
<1>8. moved[id][to] \in Int
  BY <1>5, <1>6
<1>9. SumOver(moved[id], Account) = SumOver(taken[id], Account) - taken[id][to] + moved[id][to]
  BY <1>5, <1>6, <1>8, FiniteSets, SumChange
<1>10. SumOver(b[id], Account) \in Int /\ SumOver(taken[id], Account) \in Int
  BY <1>3, <1>5, FiniteSets, SumType
<1>11. SumOver(moved[id], Account) = SumOver(b[id], Account)
  BY <1>3, <1>4, <1>5, <1>6, <1>7, <1>9, <1>10
<1>12. \A i \in TokenId : i # id => moved[i] = b[i]
  BY <1>4, <1>6
<1>13. \A i \in TokenId : SumOver(moved[i], Account) = SumOver(b[i], Account)
  BY <1>11, <1>12
<1>14. \A i \in TokenId, a \in Account : b[i][a] >= b[i][a]
  BY <1>2 DEF Uint
<1>15. \A a \in Account : a # from => moved[id][a] >= b[id][a]
  BY <1>3, <1>4, <1>5, <1>6
<1>16. QED
  BY <1>12, <1>13, <1>14, <1>15 DEF moved

\* As long as the total is no less than the sum of the balances, a mint adds
\* the same to both: the unchecked addition to the balance does not wrap.
LEMMA MintAddsToSum ==
  ASSUME NEW b \in TokenMap, NEW to \in Account, NEW id \in TokenId, NEW value \in Nat,
         SumOver(b[id], Account) + value <= MaxUint
  PROVE  /\ SumOver(MintedBalances(b, to, id, value)[id], Account)
              = SumOver(b[id], Account) + value
         /\ MintedBalances(b, to, id, value)[id][to] = b[id][to] + value
         /\ \A a \in Account : a # to => MintedBalances(b, to, id, value)[id][a] = b[id][a]
<1> DEFINE minted == MintedBalances(b, to, id, value)
<1>1. b[id] \in [Account -> Uint] /\ \A a \in Account : b[id][a] \in Nat
  BY DEF TokenMap, Uint
<1>2. /\ b[id][to] <= SumOver(b[id], Account)
      /\ SumOver(b[id], Account) \in Nat
  BY <1>1, FiniteSets, SumTerm, SumType
<1>3. b[id][to] + value \in Uint
  BY <1>1, <1>2, TokenAssumption DEF Uint
<1>4. (b[id][to] + value) % (MaxUint + 1) = b[id][to] + value
  BY <1>3, RemainderSame
<1>5. /\ minted[id][to] = b[id][to] + value
      /\ \A a \in Account : a # to => minted[id][a] = b[id][a]
  BY <1>4 DEF MintedBalances, TokenMap
<1> HIDE DEF minted
<1>6. minted[id][to] \in Int
  BY <1>1, <1>5
<1>7. SumOver(minted[id], Account) = SumOver(b[id], Account) - b[id][to] + minted[id][to]
  BY <1>1, <1>5, <1>6, FiniteSets, SumChange
<1>8. QED
  BY <1>1, <1>2, <1>5, <1>7 DEF minted

\* Moving collateral keeps every balance a natural number.
LEMMA MovedCollateralType ==
  ASSUME NEW h \in [Collateral -> [Account -> Nat]], NEW t \in Collateral,
         NEW from \in Account, NEW to \in Account, NEW amount \in Nat,
         amount <= h[t][from]
  PROVE  MovedBalances(h, from, to, t, amount) \in [Collateral -> [Account -> Nat]]
<1> DEFINE taken == [h EXCEPT ![t][from] = @ - amount]
<1>1. taken \in [Collateral -> [Account -> Nat]]
  OBVIOUS
<1>2. taken[t][to] + amount \in Nat
  BY <1>1
<1> HIDE DEF taken
<1>3. [taken EXCEPT ![t][to] = @ + amount] \in [Collateral -> [Account -> Nat]]
  BY <1>1, <1>2
<1>4. QED
  BY <1>3 DEF MovedBalances, taken

\* Counters and conditions are different tokens.
LEMMA CounterTokens ==
  /\ \A t \in Collateral : donatedId[t] \in CounterIds
  /\ \A t \in Collateral, o \in Oracle : perOracleId[t][o] \in CounterIds
  /\ CounterIds \subseteq TokenId
  /\ Condition \subseteq TokenId
  /\ \A id \in CounterIds : id \notin Condition
BY TokenAssumption, LockAssumption DEF TokenId

-----------------------------------------------------------------------------
(***************************************************************************)
(* Donations                                                               *)
(***************************************************************************)

\* A donation mints the counter of the oracle, then the one over all oracles:
\* each total grows by the amount, and no other token is touched.
LEMMA DonateTokens ==
  ASSUME TokenTypeOK, NEW t \in Collateral, NEW o \in Oracle, NEW amount \in Nat,
         NEW from, NEW to \in Account, Donate(t, o, amount, from, to)
  PROVE  /\ balances' \in TokenMap
         /\ totalBalances' \in [TokenId -> Uint]
         /\ totalBalances'[perOracleId[t][o]] = totalBalances[perOracleId[t][o]] + amount
         /\ totalBalances'[donatedId[t]] = totalBalances[donatedId[t]] + amount
         /\ \A i \in TokenId : totalBalances'[i] >= totalBalances[i]
         /\ \A i \in TokenId : i \notin {perOracleId[t][o], donatedId[t]} =>
              totalBalances'[i] = totalBalances[i] /\ balances'[i] = balances[i]
<1> DEFINE id == perOracleId[t][o]
           b1 == MintedBalances(balances, to, id, amount)
           totals1 == MintedTotals(totalBalances, id, amount)
<1>1. id \in TokenId /\ donatedId[t] \in TokenId /\ id # donatedId[t]
  BY CounterTokens, LockAssumption
<1>2. balances \in TokenMap /\ totalBalances \in [TokenId -> Uint]
  BY DEF TokenTypeOK, TokenMap
<1>3. /\ totalBalances[id] + amount <= MaxUint
      /\ totalBalances[donatedId[t]] + amount <= MaxUint
      /\ balances' = MintedBalances(b1, to, donatedId[t], amount)
      /\ totalBalances' = MintedTotals(totals1, donatedId[t], amount)
  BY DEF Donate, CanMint
<1> HIDE DEF id
<1>4. /\ b1 \in TokenMap
      /\ totals1 \in [TokenId -> Uint]
      /\ totals1[id] = totalBalances[id] + amount
      /\ \A i \in TokenId : totals1[i] >= totalBalances[i]
      /\ \A i \in TokenId : i # id => totals1[i] = totalBalances[i] /\ b1[i] = balances[i]
  BY <1>1, <1>2, <1>3, MintType
<1> HIDE DEF b1, totals1
<1>5. totals1[donatedId[t]] + amount <= MaxUint
  BY <1>1, <1>3, <1>4
<1>6. /\ balances' \in TokenMap
      /\ totalBalances' \in [TokenId -> Uint]
      /\ totalBalances'[donatedId[t]] = totals1[donatedId[t]] + amount
      /\ \A i \in TokenId : totalBalances'[i] >= totals1[i]
      /\ \A i \in TokenId : i # donatedId[t] =>
           totalBalances'[i] = totals1[i] /\ balances'[i] = b1[i]
  BY <1>1, <1>3, <1>4, <1>5, MintType
<1>7. \A i \in TokenId : totalBalances'[i] >= totalBalances[i]
  BY <1>2, <1>4, <1>6 DEF Uint
<1>8. QED
  BY <1>1, <1>4, <1>6, <1>7 DEF id

\* A profit is gathered as a donation of a natural number of tokens: the
\* contract divides by donations that are not 0.
LEMMA GatherDonates ==
  ASSUME TokenTypeOK, CollateralTypeOK, NEW t \in Collateral, NEW o \in Oracle,
         GatherDeFiProfit(t, o)
  PROVE  \E amount \in Nat : Donate(t, o, amount, This, This)
<1> DEFINE donated == balances[donatedId[t]][This]
           difference == held[t][This] - donated
           product == difference * balances[perOracleId[t][o]][This]
           amount == (product % (MaxUint + 1)) \div donated
<1>1. This \in Account
  BY DEF Account
<1>2. /\ donated \in Uint
      /\ balances[perOracleId[t][o]][This] \in Uint
      /\ held[t][This] \in Nat
  BY <1>1, CounterTokens DEF TokenTypeOK, CollateralTypeOK
<1>3. donated # 0 /\ Donate(t, o, amount, This, This)
  BY DEF GatherDeFiProfit
<1>4. difference \in Int /\ balances[perOracleId[t][o]][This] \in Int
  BY <1>2 DEF Uint
<1> HIDE DEF difference
<1>5. product \in Int
  BY <1>4
<1>6. donated \in Nat \ {0}
  BY <1>2, <1>3 DEF Uint
<1> HIDE DEF product, donated
<1>7. product % (MaxUint + 1) \in Nat
  BY <1>5, RemainderUint DEF Uint
<1>8. amount \in Nat
  BY <1>6, <1>7, QuotientNat
<1> HIDE DEF amount
<1>9. QED
  BY <1>3, <1>8

\* Only the counter of its oracle and the one over all oracles count a
\* donation, so that the latter stays the sum of the former.
LEMMA DonateKeepsSum ==
  ASSUME TokenTypeOK, PerOracleSum, NEW t \in Collateral, NEW o \in Oracle,
         NEW amount \in Nat, NEW from, NEW to \in Account, Donate(t, o, amount, from, to)
  PROVE  PerOracleSum'
<1> SUFFICES ASSUME NEW u \in Collateral
             PROVE  totalBalances'[donatedId[u]]
                      = SumOver([p \in Oracle |-> totalBalances'[perOracleId[u][p]]], Oracle)
  BY DEF PerOracleSum
<1> DEFINE f == [p \in Oracle |-> totalBalances[perOracleId[u][p]]]
           f2 == [p \in Oracle |-> totalBalances'[perOracleId[u][p]]]
<1>1. totalBalances[donatedId[u]] = SumOver(f, Oracle)
  BY DEF PerOracleSum
<1>2. totalBalances \in [TokenId -> Uint]
  BY DEF TokenTypeOK
<1>3. /\ totalBalances' \in [TokenId -> Uint]
      /\ totalBalances'[perOracleId[t][o]] = totalBalances[perOracleId[t][o]] + amount
      /\ totalBalances'[donatedId[t]] = totalBalances[donatedId[t]] + amount
      /\ \A i \in TokenId : i \notin {perOracleId[t][o], donatedId[t]} =>
           totalBalances'[i] = totalBalances[i]
  BY DonateTokens
<1>4. \A p \in Oracle : perOracleId[u][p] \in TokenId /\ perOracleId[u][p] # donatedId[t]
  BY CounterTokens, LockAssumption
<1>5. \A p \in Oracle : f[p] \in Int /\ f2[p] \in Int
  BY <1>2, <1>3, <1>4 DEF Uint
<1>6. CASE u = t
  <2>1. f2[o] = f[o] + amount
    BY <1>3, <1>6
  <2>2. ASSUME NEW p \in Oracle, p # o PROVE f2[p] = f[p]
    <3>1. perOracleId[u][p] # perOracleId[t][o]
      BY <2>2, LockAssumption
    <3>2. QED
      BY <1>3, <1>4, <3>1
  <2> HIDE DEF f, f2
  <2>3. SumOver(f2, Oracle) = SumOver(f, Oracle) - f[o] + f2[o]
    BY <1>5, <2>2, FiniteSets, SumChange
  <2>4. SumOver(f, Oracle) \in Int
    BY <1>5, FiniteSets, SumType
  <2>5. SumOver(f2, Oracle) = SumOver(f, Oracle) + amount
    BY <1>5, <2>1, <2>3, <2>4
  <2>6. totalBalances'[donatedId[u]] = SumOver(f2, Oracle)
    BY <1>1, <1>3, <1>6, <2>5
  <2>7. QED
    BY <2>6 DEF f2
<1>7. CASE u # t
  <2>1. ASSUME NEW p \in Oracle PROVE f2[p] = f[p]
    <3>1. perOracleId[u][p] # perOracleId[t][o]
      BY <1>7, LockAssumption
    <3>2. QED
      BY <1>3, <1>4, <3>1
  <2>2. totalBalances'[donatedId[u]] = totalBalances[donatedId[u]]
    <3>1. donatedId[u] # donatedId[t] /\ donatedId[u] # perOracleId[t][o]
      BY <1>7, LockAssumption
    <3>2. QED
      BY <1>3, <3>1, CounterTokens
  <2> HIDE DEF f, f2
  <2>3. SumOver(f2, Oracle) = SumOver(f, Oracle)
    BY <2>1, FiniteSets, SumSame
  <2>4. totalBalances'[donatedId[u]] = SumOver(f2, Oracle)
    BY <1>1, <2>2, <2>3
  <2>5. QED
    BY <2>4 DEF f2
<1>8. QED
  BY <1>6, <1>7

-----------------------------------------------------------------------------
(***************************************************************************)
(* Frames                                                                  *)
(***************************************************************************)

\* A step that neither donates, nor reports, nor withdraws: what a registration,
\* a transfer of conditional tokens or a paid salary is to the market.
LEMMA MarketFrame ==
  ASSUME MarketInv, MarketTypeOK',
         \A id \in CounterIds : totalBalances'[id] = totalBalances[id],
         UNCHANGED <<roundVars, paid, payoutNumeratorsMap, payoutDenominatorMap>>
  PROVE  MarketInv'
<1>1. NoCounterWrap'
  BY CounterTokens DEF MarketInv, NoCounterWrap, roundVars
<1>2. PerOracleSum'
  <2>1. ASSUME NEW t \in Collateral
        PROVE  /\ totalBalances'[donatedId[t]] = totalBalances[donatedId[t]]
               /\ [o \in Oracle |-> totalBalances'[perOracleId[t][o]]]
                    = [o \in Oracle |-> totalBalances[perOracleId[t][o]]]
    BY CounterTokens
  <2>2. QED
    BY <2>1 DEF MarketInv, PerOracleSum
<1>3. DenominatorIsSum'
  BY DEF MarketInv, DenominatorIsSum
<1>4. NothingInSecondRound'
  BY DEF MarketInv, NothingInSecondRound, roundVars
<1>5. QED
  BY <1>1, <1>2, <1>3, <1>4 DEF MarketInv

\* A donation, whoever makes it.
LEMMA DonateStep ==
  ASSUME MarketInv, NEW t \in Collateral, NEW o \in Oracle, NEW amount \in Nat,
         NEW from \in Account, NEW to \in Account, Donate(t, o, amount, from, to),
         UNCHANGED resultVars
  PROVE  MarketInv'
<1>1. /\ balances' \in TokenMap
      /\ totalBalances' \in [TokenId -> Uint]
      /\ \A i \in TokenId : totalBalances'[i] >= totalBalances[i]
  BY DonateTokens DEF MarketInv, MarketTypeOK
<1>2. /\ amount <= held[t][from]
      /\ held' = MovedBalances(held, from, This, t, amount)
      /\ UNCHANGED <<operatorApprovals, oracleVars, conditionVars, userUsedRedeemMap,
                     roundVars, blockTimestamp, paid>>
  BY DEF Donate
<1>3. This \in Account /\ held' \in [Collateral -> [Account -> Nat]]
  BY <1>2, MovedCollateralType DEF Account, MarketInv, MarketTypeOK, CollateralTypeOK
<1>4. MarketTypeOK'
  BY <1>1, <1>2, <1>3
  DEF MarketInv, MarketTypeOK, TokenTypeOK, TokenMap, LockTypeOK, CollateralTypeOK,
      ResultTypeOK, oracleVars, roundVars, resultVars
<1>5. NoCounterWrap'
  <2>1. ASSUME NEW u \in Collateral, NEW p \in Oracle, NEW a \in Account
        PROVE  /\ lastCollateralBalanceFirstRoundMap[perOracleId[u][p]][a]
                    <= totalBalances'[perOracleId[u][p]]
               /\ lastCollateralBalanceSecondRoundMap[perOracleId[u][p]][a]
                    <= totalBalances'[perOracleId[u][p]]
    <3> DEFINE j == perOracleId[u][p]
    <3>1. j \in CounterIds /\ j \in TokenId
      BY CounterTokens
    <3>2. /\ lastCollateralBalanceFirstRoundMap[j][a] <= totalBalances[j]
          /\ lastCollateralBalanceSecondRoundMap[j][a] <= totalBalances[j]
      BY DEF MarketInv, NoCounterWrap
    <3>3. /\ lastCollateralBalanceFirstRoundMap[j][a] \in Int
          /\ lastCollateralBalanceSecondRoundMap[j][a] \in Int
          /\ totalBalances[j] \in Int
          /\ totalBalances'[j] \in Int
      BY <1>1, <3>1 DEF MarketInv, MarketTypeOK, TokenTypeOK, LockTypeOK, Uint
    <3> HIDE DEF j
    <3>4. /\ lastCollateralBalanceFirstRoundMap[j][a] <= totalBalances'[j]
          /\ lastCollateralBalanceSecondRoundMap[j][a] <= totalBalances'[j]
      BY <1>1, <3>1, <3>2, <3>3
    <3>5. QED
      BY <3>4 DEF j
  <2>2. QED
    BY <1>2, <2>1 DEF NoCounterWrap, roundVars
<1>6. PerOracleSum'
  BY DonateKeepsSum DEF MarketInv, MarketTypeOK
<1>7. DenominatorIsSum' /\ NothingInSecondRound'
  BY <1>2 DEF MarketInv, DenominatorIsSum, NothingInSecondRound, resultVars, roundVars
<1>8. QED
  BY <1>4, <1>5, <1>6, <1>7 DEF MarketInv

-----------------------------------------------------------------------------
(***************************************************************************)
(* Reports                                                                 *)
(***************************************************************************)

\* One report keeps the denominator the sum of the numerators.
LEMMA UpdatedIsSum ==
  ASSUME NEW numerators \in [TokenId -> Uint], NEW denominator \in Uint,
         denominator = SumOver(numerators, TokenId), NEW c \in TokenId,
         NEW n \in Uint, CanUpdate(denominator, numerators, n, c),
         NEW updated \in [TokenId -> Uint], updated[c] = n,
         \A d \in TokenId : d # c => updated[d] = numerators[d]
  PROVE  /\ UpdatedDenominator(denominator, numerators, n, c) \in Uint
         /\ UpdatedDenominator(denominator, numerators, n, c) = SumOver(updated, TokenId)
<1>1. /\ \A d \in TokenId : numerators[d] \in Int
      /\ numerators[c] \in Nat
      /\ n \in Nat
      /\ denominator \in Nat
  BY DEF Uint
<1>2. SumOver(updated, TokenId) = SumOver(numerators, TokenId) - numerators[c] + n
  BY <1>1, FiniteSets, SumChange
<1>3. QED
  BY <1>1, <1>2, TokenAssumption DEF CanUpdate, UpdatedDenominator, Uint

\* A step that stores, for one oracle, numerators and their sum.
LEMMA ReportedStep ==
  ASSUME MarketInv, NEW o \in Oracle, NEW numerators \in [TokenId -> Uint],
         NEW denominator \in Uint, denominator = SumOver(numerators, TokenId),
         payoutNumeratorsMap' = [payoutNumeratorsMap EXCEPT ![o] = numerators],
         payoutDenominatorMap' = [payoutDenominatorMap EXCEPT ![o] = denominator],
         UNCHANGED <<lockVars, oracleFinishedMap>>
  PROVE  MarketInv'
<1>1. /\ payoutNumeratorsMap \in [Oracle -> [TokenId -> Uint]]
      /\ payoutDenominatorMap \in [Oracle -> Uint]
  BY DEF MarketInv, MarketTypeOK, ResultTypeOK
<1>2. /\ payoutNumeratorsMap' \in [Oracle -> [TokenId -> Uint]]
      /\ payoutDenominatorMap' \in [Oracle -> Uint]
  BY <1>1
<1>3. MarketTypeOK'
  BY <1>2
  DEF MarketInv, MarketTypeOK, TokenTypeOK, LockTypeOK, CollateralTypeOK, ResultTypeOK,
      lockVars, tokenVars, oracleVars, roundVars, collateralVars
<1>4. DenominatorIsSum'
  BY <1>1 DEF MarketInv, DenominatorIsSum
<1>5. NoCounterWrap' /\ PerOracleSum' /\ NothingInSecondRound'
  BY DEF MarketInv, NoCounterWrap, PerOracleSum, NothingInSecondRound, lockVars,
         tokenVars, roundVars, collateralVars
<1>6. QED
  BY <1>3, <1>4, <1>5 DEF MarketInv

\* A report of one numerator.
LEMMA ReportStep ==
  ASSUME MarketInv, NEW sender \in Users, NEW o \in Oracle, NEW c \in TokenId,
         NEW n \in Numerators, ReportNumerator(sender, o, c, n)
  PROVE  MarketInv'
<1> DEFINE numerators == payoutNumeratorsMap[o]
           denominator == payoutDenominatorMap[o]
           updated == [numerators EXCEPT ![c] = n]
           sum == UpdatedDenominator(denominator, numerators, n, c)
<1>1. /\ numerators \in [TokenId -> Uint]
      /\ denominator \in Uint
      /\ denominator = SumOver(numerators, TokenId)
      /\ n \in Uint
  BY NumeratorsAssumption DEF MarketInv, MarketTypeOK, ResultTypeOK, DenominatorIsSum
<1>2. /\ CanUpdate(denominator, numerators, n, c)
      /\ payoutDenominatorMap' = [payoutDenominatorMap EXCEPT ![o] = sum]
      /\ payoutNumeratorsMap' = [payoutNumeratorsMap EXCEPT ![o] = updated]
      /\ UNCHANGED <<lockVars, oracleFinishedMap>>
  BY DEF ReportNumerator
<1> HIDE DEF numerators, denominator
<1>3. /\ updated \in [TokenId -> Uint]
      /\ updated[c] = n
      /\ \A d \in TokenId : d # c => updated[d] = numerators[d]
  BY <1>1
<1> HIDE DEF updated
<1>4. sum \in Uint /\ sum = SumOver(updated, TokenId)
  BY <1>1, <1>2, <1>3, UpdatedIsSum
<1> HIDE DEF sum
<1>5. QED
  BY <1>2, <1>3, <1>4, ReportedStep

\* A batch of two, also when both are for the same condition.
LEMMA ReportBatchStep ==
  ASSUME MarketInv, NEW sender \in Users, NEW o \in Oracle, NEW c1 \in TokenId,
         NEW c2 \in TokenId, NEW n1 \in Numerators, NEW n2 \in Numerators,
         ReportNumeratorsBatch(sender, o, c1, n1, c2, n2)
  PROVE  MarketInv'
<1> DEFINE numerators == payoutNumeratorsMap[o]
           denominator == payoutDenominatorMap[o]
           denominator1 == UpdatedDenominator(denominator, numerators, n1, c1)
           numerators1 == [numerators EXCEPT ![c1] = n1]
           denominator2 == UpdatedDenominator(denominator1, numerators1, n2, c2)
           numerators2 == [numerators1 EXCEPT ![c2] = n2]
<1>1. /\ numerators \in [TokenId -> Uint]
      /\ denominator \in Uint
      /\ denominator = SumOver(numerators, TokenId)
      /\ n1 \in Uint
      /\ n2 \in Uint
  BY NumeratorsAssumption DEF MarketInv, MarketTypeOK, ResultTypeOK, DenominatorIsSum
<1>2. /\ CanUpdate(denominator, numerators, n1, c1)
      /\ CanUpdate(denominator1, numerators1, n2, c2)
      /\ payoutDenominatorMap' = [payoutDenominatorMap EXCEPT ![o] = denominator2]
      /\ payoutNumeratorsMap' = [payoutNumeratorsMap EXCEPT ![o] = numerators2]
      /\ UNCHANGED <<lockVars, oracleFinishedMap>>
  BY DEF ReportNumeratorsBatch
<1> HIDE DEF numerators, denominator
<1>3. /\ numerators1 \in [TokenId -> Uint]
      /\ numerators1[c1] = n1
      /\ \A d \in TokenId : d # c1 => numerators1[d] = numerators[d]
  BY <1>1
<1> HIDE DEF numerators1
<1>4. denominator1 \in Uint /\ denominator1 = SumOver(numerators1, TokenId)
  BY <1>1, <1>2, <1>3, UpdatedIsSum
<1> HIDE DEF denominator1
<1>5. /\ numerators2 \in [TokenId -> Uint]
      /\ numerators2[c2] = n2
      /\ \A d \in TokenId : d # c2 => numerators2[d] = numerators1[d]
  BY <1>1, <1>3
<1> HIDE DEF numerators2
<1>6. denominator2 \in Uint /\ denominator2 = SumOver(numerators2, TokenId)
  BY <1>1, <1>2, <1>3, <1>4, <1>5, UpdatedIsSum
<1> HIDE DEF denominator2
<1>7. QED
  BY <1>2, <1>5, <1>6, ReportedStep

-----------------------------------------------------------------------------
(***************************************************************************)
(* Withdrawals                                                             *)
(***************************************************************************)

\* What is owed is a natural number, whatever was donated and paid.
LEMMA OwingNat ==
  ASSUME MarketTypeOK, NEW t \in Collateral, NEW o \in Oracle, NEW c \in TokenId,
         NEW user \in Account, NEW inFirstRound \in BOOLEAN,
         payoutDenominatorMap[o] # 0, OwingDenominator(o, c, inFirstRound) # 0
  PROVE  CollateralOwing(t, o, c, user, inFirstRound, RewardShare(o, c)) \in Nat
<1> DEFINE denominator == OwingDenominator(o, c, inFirstRound)
           share == RewardShare(o, c)
           ownShare == Divu(balances[c][user], denominator)
           dividends == NewDividends(t, o, user, inFirstRound)
<1> USE DEF MarketTypeOK
<1>1. FixedOne \in Nat \ {0}
  BY LockAssumption
<1>2. balances[c][user] \in Nat
  BY CounterTokens DEF TokenTypeOK, Uint
<1>3. denominator \in Nat \ {0}
  BY CounterTokens DEF OwingDenominator, TokenTypeOK, LockTypeOK, Uint
<1>4. payoutNumeratorsMap[o][c] \in Nat /\ payoutDenominatorMap[o] \in Nat \ {0}
  BY DEF ResultTypeOK, Uint
<1>5. share \in Nat
  BY <1>1, <1>4, QuotientNat DEF RewardShare, Divu
<1> HIDE DEF denominator, share
<1>6. ownShare \in Nat
  BY <1>1, <1>2, <1>3, QuotientNat DEF Divu
<1>7. dividends \in Nat
  <2>1. /\ totalBalances[perOracleId[t][o]] \in Int
        /\ LastBalance(perOracleId[t][o], user, inFirstRound) \in Int
    BY CounterTokens DEF LastBalance, TokenTypeOK, LockTypeOK, Uint
  <2>2. QED
    BY <2>1, RemainderUint DEF NewDividends, Uint
<1> HIDE DEF ownShare, dividends
<1>8. Mul(ownShare, share) \in Nat
  BY <1>1, <1>5, <1>6, QuotientNat DEF Mul
<1>9. Mulu(Mul(ownShare, share), dividends) \in Nat
  BY <1>1, <1>7, <1>8, QuotientNat DEF Mulu
<1>10. QED
  BY <1>9 DEF CollateralOwing, ownShare, share, dividends, denominator

\* What a holder of a condition is owed in the first round.
FirstRoundOwing(t, o, c, user) ==
  CollateralOwing(t, o, c, user, TRUE, RewardShare(o, c))

\* Every withdrawal is made in the first round: in the second one the contract
\* divides by what was withdrawn in the first, of which nothing is counted.
LEMMA WithdrawInFirstRound ==
  ASSUME MarketInv, NEW sender \in Users, NEW t \in Collateral, NEW o \in Oracle,
         NEW c \in TokenId, Withdraw(sender, t, o, c)
  PROVE  /\ oracleFinishedMap[o]
         /\ payoutDenominatorMap[o] # 0
         /\ totalBalances[c] # 0
         /\ FirstRoundOwing(t, o, c, sender) \in Nat
         /\ FirstRoundOwing(t, o, c, sender) <= held[t][This]
         /\ userUsedRedeemMap' = [userUsedRedeemMap EXCEPT ![sender][c] = TRUE]
         /\ lastCollateralBalanceFirstRoundMap' =
              Recorded(lastCollateralBalanceFirstRoundMap, perOracleId[t][o], sender,
                       FirstRoundOwing(t, o, c, sender))
         /\ held' = MovedBalances(held, This, sender, t, FirstRoundOwing(t, o, c, sender))
         /\ paid' = [paid EXCEPT ![t][o]["first"] = @ + FirstRoundOwing(t, o, c, sender)]
         /\ UNCHANGED <<tokenVars, oracleVars, conditionVars, blockTimestamp, resultVars,
                        lastCollateralBalanceSecondRoundMap, usersWithdrewInFirstRound>>
<1>1. IsInFirstRound(o) = TRUE
  <2>1. IsInFirstRound(o) \in BOOLEAN
    BY DEF IsInFirstRound
  <2>2. OwingDenominator(o, c, IsInFirstRound(o)) # 0
    BY DEF Withdraw, WithdrawCollateral
  <2>3. usersWithdrewInFirstRound[o] = 0
    BY DEF MarketInv, NothingInSecondRound
  <2>4. QED
    BY <2>1, <2>2, <2>3 DEF OwingDenominator
<1>2. payoutDenominatorMap[o] # 0 /\ oracleFinishedMap[o]
  BY DEF Withdraw, WithdrawCollateral
<1>3. OwingDenominator(o, c, TRUE) # 0
  BY <1>1 DEF Withdraw, WithdrawCollateral
<1>4. FirstRoundOwing(t, o, c, sender) \in Nat
  <2>1. sender \in Account /\ TRUE \in BOOLEAN
    BY DEF Account
  <2>2. QED
    BY <1>2, <1>3, <2>1, OwingNat DEF FirstRoundOwing, MarketInv
<1>5. /\ WithdrawCollateral(sender, t, o, c, oracleFinishedMap[o], RewardShare(o, c))
      /\ UNCHANGED resultVars
  BY DEF Withdraw
<1>6. QED
  BY <1>1, <1>2, <1>3, <1>4, <1>5
  DEF WithdrawCollateral, FirstRoundOwing, OwingDenominator

\* A withdrawal marks the user as paid up to the counter's total, no further.
LEMMA WithdrawStep ==
  ASSUME MarketInv, NEW sender \in Users, NEW t \in Collateral, NEW o \in Oracle,
         NEW c \in TokenId, Withdraw(sender, t, o, c)
  PROVE  MarketInv'
<1> DEFINE id == perOracleId[t][o]
           owing == FirstRoundOwing(t, o, c, sender)
           first == lastCollateralBalanceFirstRoundMap
<1>1. /\ sender \in Account
      /\ This \in Account
      /\ c \in TokenId
      /\ id \in CounterIds
      /\ id \in TokenId
  BY CounterTokens DEF Account
<1>2. /\ owing \in Nat
      /\ owing <= held[t][This]
      /\ userUsedRedeemMap' = [userUsedRedeemMap EXCEPT ![sender][c] = TRUE]
      /\ first' = Recorded(first, id, sender, owing)
      /\ held' = MovedBalances(held, This, sender, t, owing)
      /\ paid' = [paid EXCEPT ![t][o]["first"] = @ + owing]
      /\ UNCHANGED <<tokenVars, oracleVars, conditionVars, blockTimestamp, resultVars,
                     lastCollateralBalanceSecondRoundMap, usersWithdrewInFirstRound>>
  BY WithdrawInFirstRound
<1> HIDE DEF owing, id
<1>3. /\ totalBalances \in [TokenId -> Uint]
      /\ first \in [CounterIds -> [Account -> Uint]]
      /\ userUsedRedeemMap \in [Account -> [TokenId -> BOOLEAN]]
      /\ held \in [Collateral -> [Account -> Nat]]
      /\ paid \in [Collateral -> [Oracle -> [{"first", "second"} -> Nat]]]
  BY DEF MarketInv, MarketTypeOK, TokenTypeOK, LockTypeOK, CollateralTypeOK
<1>4. /\ first' \in [CounterIds -> [Account -> Uint]]
      /\ \A j \in CounterIds, a \in Account : first'[j][a] \in {first[j][a], totalBalances[j]}
  BY <1>1, <1>2, <1>3 DEF Recorded
<1>5. userUsedRedeemMap' \in [Account -> [TokenId -> BOOLEAN]]
  BY <1>1, <1>2, <1>3
<1>6. held' \in [Collateral -> [Account -> Nat]]
  BY <1>1, <1>2, <1>3, MovedCollateralType
<1>7. paid' \in [Collateral -> [Oracle -> [{"first", "second"} -> Nat]]]
  <2>1. paid[t][o]["first"] + owing \in Nat
    BY <1>2, <1>3
  <2>2. QED
    BY <1>2, <1>3, <2>1
<1>8. MarketTypeOK'
  BY <1>2, <1>4, <1>5, <1>6, <1>7
  DEF MarketInv, MarketTypeOK, TokenTypeOK, LockTypeOK, CollateralTypeOK, ResultTypeOK,
      tokenVars, oracleVars, resultVars
<1>9. NoCounterWrap'
  <2>1. ASSUME NEW u \in Collateral, NEW p \in Oracle, NEW a \in Account
        PROVE  first'[perOracleId[u][p]][a] <= totalBalances[perOracleId[u][p]]
    <3> DEFINE j == perOracleId[u][p]
    <3>1. j \in CounterIds /\ j \in TokenId
      BY CounterTokens
    <3>2. first[j][a] <= totalBalances[j]
      BY DEF MarketInv, NoCounterWrap
    <3>3. totalBalances[j] <= totalBalances[j]
      BY <1>3, <3>1 DEF Uint
    <3> HIDE DEF j
    <3>4. first'[j][a] <= totalBalances[j]
      BY <1>4, <3>1, <3>2, <3>3
    <3>5. QED
      BY <3>4 DEF j
  <2>2. QED
    BY <1>2, <2>1 DEF MarketInv, NoCounterWrap, tokenVars
<1>10. PerOracleSum' /\ DenominatorIsSum'
  BY <1>2 DEF MarketInv, PerOracleSum, DenominatorIsSum, tokenVars, resultVars
<1>11. NothingInSecondRound'
  BY <1>2, <1>3 DEF MarketInv, NothingInSecondRound
<1>12. QED
  BY <1>8, <1>9, <1>10, <1>11 DEF MarketInv

-----------------------------------------------------------------------------
(***************************************************************************)
(* The market as a whole                                                   *)
(***************************************************************************)

\* A step that leaves alone what holdings, results and payments are computed
\* from, but that may finish an oracle.
MarketQuiet ==
  /\ UNCHANGED <<balances, totalBalances, conditionVars, userUsedRedeemMap, roundVars,
                 paid, payoutNumeratorsMap, payoutDenominatorMap>>
  /\ \A o \in Oracle : oracleFinishedMap[o] => oracleFinishedMap'[o]
  /\ blockTimestamp' \in {blockTimestamp, blockTimestamp + 1}

\* A donation made in a market.
MarketDonates ==
  /\ \E t \in Collateral, o \in Oracle, amount \in Nat, from, to \in Account :
       Donate(t, o, amount, from, to)
  /\ UNCHANGED resultVars

\* A report on an oracle that has not finished.
MarketReports ==
  /\ \E o \in Oracle :
       /\ ~oracleFinishedMap[o]
       /\ \A p \in Oracle : p # o =>
            /\ payoutNumeratorsMap'[p] = payoutNumeratorsMap[p]
            /\ payoutDenominatorMap'[p] = payoutDenominatorMap[p]
  /\ UNCHANGED <<lockVars, oracleFinishedMap>>

MarketWithdraws ==
  \E sender \in Users, t \in Collateral, o \in Oracle, c \in TokenId :
    Withdraw(sender, t, o, c)

\* The functions of BaseLock but for withdrawals and transfers: a donation, or
\* a step that leaves the types and all that sums are made of alone.
LEMMA LockSteps ==
  ASSUME MarketInv, LockNext, UNCHANGED resultVars
  PROVE  MarketInv' /\ (MarketQuiet \/ MarketDonates)
<1> USE DEF MarketTypeOK, TokenTypeOK, LockTypeOK, CollateralTypeOK, ResultTypeOK,
            tokenVars, oracleVars, conditionVars, roundVars, collateralVars,
            resultVars, Account
<1>1. MarketTypeOK
  BY DEF MarketInv
<1>2. ASSUME MarketQuiet, MarketTypeOK' PROVE MarketInv' /\ (MarketQuiet \/ MarketDonates)
  BY <1>2, MarketFrame DEF MarketQuiet
<1>3. ASSUME NEW sender \in Users, CreateOracle(sender)
      PROVE  MarketInv' /\ (MarketQuiet \/ MarketDonates)
  <2>1. maxOracleId + 1 \in Oracle
    BY <1>1, <1>3, LockAssumption DEF CreateOracle, Oracle
  <2>2. MarketTypeOK' /\ MarketQuiet
    BY <1>1, <1>3, <2>1 DEF CreateOracle, MarketQuiet
  <2>3. QED
    BY <1>2, <2>2
<1>4. ASSUME NEW sender \in Users, NEW operator \in Operators, NEW approved \in BOOLEAN,
             ApproveAll(sender, operator, approved)
      PROVE  MarketInv' /\ (MarketQuiet \/ MarketDonates)
  <2>1. operator \in Account
    BY LockAssumption
  <2>2. MarketTypeOK' /\ MarketQuiet
    BY <1>1, <1>4, <2>1 DEF ApproveAll, SetApprovalForAll, MarketQuiet
  <2>3. QED
    BY <1>2, <2>2
<1>5. ASSUME NEW sender \in Users, NEW o \in Oracle, NEW owner \in Users,
             ChangeOracleOwner(sender, owner, o)
      PROVE  MarketInv' /\ (MarketQuiet \/ MarketDonates)
  BY <1>1, <1>2, <1>5 DEF ChangeOracleOwner, MarketQuiet
<1>6. ASSUME NEW sender \in Users, NEW o \in Oracle, NEW time \in GraceTimes,
             UpdateGracePeriodEnds(sender, o, time)
      PROVE  MarketInv' /\ (MarketQuiet \/ MarketDonates)
  <2>1. time \in Nat
    BY LockAssumption
  <2>2. MarketTypeOK' /\ MarketQuiet
    BY <1>1, <1>6, <2>1 DEF UpdateGracePeriodEnds, MarketQuiet
  <2>3. QED
    BY <1>2, <2>2
<1>7. ASSUME NEW t \in Collateral, NEW amount \in Amounts, NEW o \in Oracle,
             NEW from \in Users \union {This}, NEW to \in Beneficiaries,
             Donate(t, o, amount, from, to)
      PROVE  MarketInv' /\ (MarketQuiet \/ MarketDonates)
  <2>1. amount \in Nat /\ from \in Account /\ to \in Account
    BY LockAssumption
  <2>2. MarketDonates
    BY <1>7, <2>1 DEF MarketDonates
  <2>3. QED
    BY <1>7, <2>1, <2>2, DonateStep
<1>8. ASSUME NEW t \in Collateral, NEW amount \in Amounts, NEW from \in Users,
             ReceiveCollateral(t, from, amount)
      PROVE  MarketInv' /\ (MarketQuiet \/ MarketDonates)
  <2>1. held' \in [Collateral -> [Account -> Nat]]
    BY <1>1, <1>8, LockAssumption, MovedCollateralType DEF ReceiveCollateral
  <2>2. MarketTypeOK' /\ MarketQuiet
    BY <1>1, <1>8, <2>1 DEF ReceiveCollateral, MarketQuiet
  <2>3. QED
    BY <1>2, <2>2
<1>9. ASSUME NEW t \in Collateral, NEW o \in Oracle, GatherDeFiProfit(t, o)
      PROVE  MarketInv' /\ (MarketQuiet \/ MarketDonates)
  <2>1. PICK amount \in Nat : Donate(t, o, amount, This, This)
    BY <1>1, <1>9, GatherDonates
  <2>2. MarketDonates
    BY <2>1 DEF MarketDonates
  <2>3. QED
    BY <2>1, <2>2, DonateStep
<1>10. ASSUME Tick PROVE MarketInv' /\ (MarketQuiet \/ MarketDonates)
  <2>1. blockTimestamp' \in 1 .. MaxTime
    BY <1>1, <1>10, LockAssumption DEF Tick
  <2>2. MarketTypeOK' /\ MarketQuiet
    BY <1>1, <1>10, <2>1 DEF Tick, MarketQuiet
  <2>3. QED
    BY <1>2, <2>2
<1>11. QED
  BY <1>3, <1>4, <1>5, <1>6, <1>7, <1>8, <1>9, <1>10 DEF LockNext

\* Every step of a market keeps its invariant, and is of one of four kinds.
LEMMA MarketSteps ==
  ASSUME MarketInv, BidNext
  PROVE  /\ MarketInv'
         /\ MarketQuiet \/ MarketDonates \/ MarketReports \/ MarketWithdraws
<1>1. CASE LockNext /\ UNCHANGED resultVars
  BY <1>1, LockSteps
<1>2. ASSUME NEW sender \in Users, NEW o \in Oracle, NEW c \in TokenId,
             NEW n \in Numerators, ReportNumerator(sender, o, c, n)
      PROVE  MarketInv' /\ MarketReports
  <2>1. MarketReports
    BY <1>2 DEF MarketInv, MarketTypeOK, ResultTypeOK, ReportNumerator, MayReport,
                MarketReports
  <2>2. QED
    BY <1>2, <2>1, ReportStep
<1>3. ASSUME NEW sender \in Users, NEW o \in Oracle, NEW c1 \in TokenId,
             NEW c2 \in TokenId, NEW n1 \in Numerators, NEW n2 \in Numerators,
             ReportNumeratorsBatch(sender, o, c1, n1, c2, n2)
      PROVE  MarketInv' /\ MarketReports
  <2>1. MarketReports
    BY <1>3 DEF MarketInv, MarketTypeOK, ResultTypeOK, ReportNumeratorsBatch, MayReport,
                MarketReports
  <2>2. QED
    BY <1>3, <2>1, ReportBatchStep
<1>4. ASSUME NEW sender \in Users, NEW o \in Oracle, FinishOracle(sender, o)
      PROVE  MarketInv' /\ MarketQuiet
  <2> USE DEF MarketTypeOK, ResultTypeOK
  <2>1. MarketTypeOK
    BY DEF MarketInv
  <2>2. /\ oracleFinishedMap' \in [Oracle -> BOOLEAN]
        /\ \A p \in Oracle : oracleFinishedMap[p] => oracleFinishedMap'[p]
        /\ UNCHANGED <<lockVars, payoutNumeratorsMap, payoutDenominatorMap>>
    BY <1>4, <2>1 DEF FinishOracle
  <2>3. MarketTypeOK' /\ MarketQuiet
    BY <2>1, <2>2
    DEF TokenTypeOK, LockTypeOK, CollateralTypeOK, MarketQuiet, lockVars, tokenVars,
        oracleVars, roundVars, collateralVars
  <2>4. QED
    BY <2>3, MarketFrame DEF MarketQuiet
<1>5. ASSUME NEW sender \in Users, NEW o \in Oracle, NEW t \in Collateral,
             NEW c \in TokenId, Withdraw(sender, t, o, c)
      PROVE  MarketInv' /\ MarketWithdraws
  BY <1>5, WithdrawStep DEF MarketWithdraws
<1>6. ReportedIds \subseteq TokenId
  BY ReportedAssumption
<1>7. QED
  BY <1>1, <1>2, <1>3, <1>4, <1>5, <1>6 DEF BidNext

\* A market starts in its invariant.
LEMMA MarketInit == BidInit => MarketInv
<1> SUFFICES ASSUME BidInit PROVE MarketInv
  OBVIOUS
<1> USE DEF BidInit, LockInit, TokenInit
<1>1. /\ 0 \in Uint
      /\ Null \in Account
      /\ MaxTime \in Nat \ {0}
      /\ 0 \in Oracle
  BY TokenAssumption, LockAssumption DEF Uint, Account, Oracle
<1>2. MarketTypeOK
  <2>1. \A a \in Account : (IF a \in Users THEN CollateralSupply ELSE 0) \in Nat
    BY LockAssumption
  <2>2. TokenTypeOK /\ LockTypeOK
    BY <1>1 DEF TokenTypeOK, LockTypeOK
  <2>3. CollateralTypeOK
    BY <2>1 DEF CollateralTypeOK
  <2>4. ResultTypeOK
    BY <1>1 DEF ResultTypeOK
  <2>5. QED
    BY <2>2, <2>3, <2>4 DEF MarketTypeOK
<1>3. NoCounterWrap
  BY <1>1, CounterTokens DEF NoCounterWrap
<1>4. PerOracleSum
  <2>1. ASSUME NEW t \in Collateral
        PROVE  /\ totalBalances[donatedId[t]] = 0
               /\ SumOver([o \in Oracle |-> totalBalances[perOracleId[t][o]]], Oracle) = 0
    <3> DEFINE f == [o \in Oracle |-> totalBalances[perOracleId[t][o]]]
    <3>1. \A o \in Oracle : f[o] = 0
      BY CounterTokens
    <3> HIDE DEF f
    <3>2. SumOver(f, Oracle) = 0
      BY <3>1, FiniteSets, SumZero
    <3>3. QED
      BY <3>2, CounterTokens DEF f
  <2>2. QED
    BY <2>1 DEF PerOracleSum
<1>5. DenominatorIsSum
  <2>1. ASSUME NEW o \in Oracle PROVE SumOver(payoutNumeratorsMap[o], TokenId) = 0
    BY FiniteSets, SumZero
  <2>2. QED
    BY <2>1 DEF DenominatorIsSum
<1>6. NothingInSecondRound
  BY DEF NothingInSecondRound
<1>7. QED
  BY <1>2, <1>3, <1>4, <1>5, <1>6 DEF MarketInv

\* No step of a market changes the result of an oracle that has finished.
LEMMA MarketKeepsResults ==
  ASSUME MarketInv, BidNext
  PROVE  ResultsFrozen
<1>1. CASE MarketQuiet
  BY <1>1 DEF MarketQuiet, ResultsFrozen
<1>2. CASE UNCHANGED resultVars
  BY <1>2 DEF resultVars, ResultsFrozen
<1>3. CASE MarketDonates
  BY <1>2, <1>3 DEF MarketDonates
<1>4. CASE MarketReports
  BY <1>4 DEF MarketReports, ResultsFrozen
<1>5. CASE MarketWithdraws
  BY <1>2, <1>5 DEF MarketWithdraws, Withdraw
<1>6. QED
  BY <1>1, <1>3, <1>4, <1>5, MarketSteps

\* What a step of a market is to the tokens of conditions: nothing.
LEMMA MarketKeepsConditions ==
  ASSUME MarketInv, BidNext
  PROVE  /\ \A c \in Condition : /\ balances'[c] = balances[c]
                                 /\ totalBalances'[c] = totalBalances[c]
         /\ UNCHANGED conditionVars
         /\ blockTimestamp' \in {blockTimestamp, blockTimestamp + 1}
<1>1. CASE MarketQuiet
  BY <1>1 DEF MarketQuiet
<1>2. CASE MarketDonates
  <2>1. PICK t \in Collateral, o \in Oracle, amount \in Nat, from \in Account,
             to \in Account : Donate(t, o, amount, from, to)
    BY <1>2 DEF MarketDonates
  <2>2. \A i \in TokenId : i \notin {perOracleId[t][o], donatedId[t]} =>
          totalBalances'[i] = totalBalances[i] /\ balances'[i] = balances[i]
    BY <2>1, DonateTokens DEF MarketInv, MarketTypeOK
  <2>3. UNCHANGED <<conditionVars, blockTimestamp>>
    BY <2>1 DEF Donate
  <2>4. QED
    BY <2>2, <2>3, CounterTokens
<1>3. CASE MarketReports
  BY <1>3 DEF MarketReports, lockVars, tokenVars
<1>4. CASE MarketWithdraws
  BY <1>4 DEF MarketWithdraws, Withdraw, WithdrawCollateral, tokenVars
<1>5. QED
  BY <1>1, <1>2, <1>3, <1>4, MarketSteps

=============================================================================
