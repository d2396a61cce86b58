------------------------------ MODULE SszTree ------------------------------
(***************************************************************************)
(* Merkle trees of the remerkleable library, as assets/eip-7916 and        *)
(* assets/eip-6475 use them, and the two functions on trees that           *)
(* assets/eip-7916/remerkleable.patch takes out of the class List.         *)
(*                                                                         *)
(* A node is a pair, a chunk, or a root of which no more is known.  The    *)
(* hash of a tree is its normal form: two trees have the same hash if and  *)
(* only if they differ in nothing but what is expanded.                    *)
(***************************************************************************)
EXTENDS Integers, Sequences, TLC

CONSTANTS
  ElemsPerChunk,   \* 32 // type_byte_length() of the number type
  MaxHeight        \* no tree that is hashed is higher

ASSUME ChunkAssumption == ElemsPerChunk \in Nat \ {0} /\ MaxHeight \in Nat

\* zero_node(depth): the root of a tree of zeros
Zero(depth) == [zero |-> depth]
PairNode(left, right) == [left |-> left, right |-> right]
IsPair(node) == "left" \in DOMAIN node

\* What an operation on a tree gives that raises a NavigationError.
Raised == [raised |-> TRUE]

\* A chunk holds numbers; the chunk of zeros is zero_node(0).
Chunk(elems) ==
  IF \A k \in DOMAIN elems : elems[k] = 0 THEN Zero(0) ELSE [chunk |-> elems]

\* The numbers in a chunk; -1 stands for the digits of a hash.
Elems(node) ==
  IF "chunk" \in DOMAIN node THEN node.chunk
  ELSE [k \in 1 .. ElemsPerChunk |-> IF node = Zero(0) THEN 0 ELSE -1]

BackingFromBase(number, node, offset) == Chunk([Elems(node) EXCEPT ![offset + 1] = number])

UintNode(number) == BackingFromBase(number, Zero(0), 0)
UintOf(node) == Elems(node)[1]

----------------------------------------------------------------------------
(***************************************************************************)
(* A node is reached by its generalized index: the root has 1, and the     *)
(* children of the node at gindex have 2 * gindex and 2 * gindex + 1.      *)
(***************************************************************************)

\* What is not a pair has no children.
Child(node, side) == IF IsPair(node) THEN node[side] ELSE Raised

Getter(node, gindex) ==
  LET get[g \in Nat] ==
        IF g <= 1 THEN node
        ELSE Child(get[g \div 2], IF g % 2 = 0 THEN "left" ELSE "right")
  IN get[gindex]

\* The number of steps from the root to gindex
DepthOf(gindex) == CHOOSE d \in 0 .. gindex : 2^d <= gindex /\ gindex < 2^(d + 1)

\* node with new at gindex: set[k] is the tree k levels above gindex.  A root
\* on the way is expanded to a tree of zeros, or the call raises.
Setter(node, gindex, new, expand) ==
  LET set[k \in Nat] ==
        IF k = 0 THEN new
        ELSE LET old == Getter(node, gindex \div 2^k)
                 pair == IF IsPair(old) THEN old ELSE PairNode(Zero(k - 1), Zero(k - 1))
             IN IF ~IsPair(old) /\ ~expand THEN Raised
                ELSE IF (gindex \div 2^(k - 1)) % 2 = 0 THEN PairNode(set[k - 1], pair.right)
                     ELSE PairNode(pair.left, set[k - 1])
  IN set[DepthOf(gindex)]

\* merkle_root
Root(node) ==
  LET root[h \in Nat] ==
        [g \in Nat |->
           LET n == Getter(node, g)
               left == root[h - 1][2 * g]
               right == root[h - 1][2 * g + 1]
           IN IF h > 0 /\ IsPair(n)
              THEN IF left = right /\ "zero" \in DOMAIN left THEN Zero(left.zero + 1)
                   ELSE PairNode(left, right)
              ELSE IF "root" \in DOMAIN n THEN n.root ELSE n]
  IN root[MaxHeight][1]

\* The node at gindex is replaced by its root.
SummarizeInto(node, gindex) ==
  LET root == Root(Getter(node, gindex))
  IN Setter(node, gindex, IF IsPair(root) THEN [root |-> root] ELSE root, FALSE)

ToGindex(i, depth) == 2^depth + i

\* A tree of a depth whose first leaves are the nodes that follow the first ones
SubtreeFillToContents(nodes, depth, first) ==
  LET fill[d \in Nat] ==
        [i \in Nat |->
           IF Len(nodes) <= i THEN Zero(d)
           ELSE IF d = 0 THEN nodes[i + 1]
           ELSE PairNode(fill[d - 1][i], fill[d - 1][i + 2^(d - 1)])]
  IN fill[depth][first]

----------------------------------------------------------------------------
(***************************************************************************)
(* append_view and pop_and_summarize.  perChunk is ElemsPerChunk for       *)
(* packed numbers, and 1 for nodes that are leaves of their own.           *)
(***************************************************************************)
ElemNode(packed, v, base, offset) ==
  IF packed THEN BackingFromBase(v, base, offset) ELSE v

PerChunk(packed) == IF packed THEN ElemsPerChunk ELSE 1

\* The chunk that element i is put in: a new one for the first of its elements.
BaseChunk(backing, target, i, packed) ==
  IF i % PerChunk(packed) = 0 THEN Zero(0) ELSE Getter(backing, target)

AppendView(backing, depth, i, v, packed) ==
  LET target == ToGindex(i \div PerChunk(packed), depth)
  IN Setter(backing, target,
            ElemNode(packed, v, BaseChunk(backing, target, i, packed), i % PerChunk(packed)),
            i % PerChunk(packed) = 0)

\* Mutated form: one step further, to the parent of the first right-hand node.
SummitAbove(target) ==
  LET summit[t \in Nat] == IF t > 2 /\ t % 2 = 0 THEN summit[t \div 2] ELSE t \div 2
  IN summit[target]

\* The highest node of which target is the leftmost leaf, a right-hand one
Summit(target) ==
  LET summit[t \in Nat] == IF t > 2 /\ t % 2 = 0 THEN summit[t \div 2] ELSE t
  IN summit[target]

PopAndSummarize(backing, depth, i, packed) ==
  LET target == ToGindex(i \div PerChunk(packed), depth)
      offset == i % PerChunk(packed)
      cleared == Setter(backing, target,
                        IF packed
                        THEN ElemNode(packed, 0, BaseChunk(backing, target, i, packed), offset)
                        ELSE Zero(0), FALSE)
  IN IF target % 2 = 0 /\ offset = 0 THEN SummarizeInto(cleared, Summit(target)) ELSE cleared

=============================================================================
