----------------------------- MODULE MerkleTree -----------------------------
(***************************************************************************)
(* assets/eip-4881/deposit_snapshot.py: the class MerkleTree and its       *)
(* subclasses Zero, Leaf, Node and Finalized, every method they implement  *)
(* as an operator on immutable trees.  A method that changes `self` and    *)
(* returns it becomes an operator that returns the changed tree, and one   *)
(* that calls itself on the children a recursive function on trees.        *)
(***************************************************************************)
EXTENDS Hashing

Zero(n) == [kind |-> "Zero", n |-> n]
Leaf(hash) == [kind |-> "Leaf", hash |-> hash]
Node(left, right) == [kind |-> "Node", left |-> left, right |-> right]
Finalized(count, hash) ==
  [kind |-> "Finalized", deposit_count |-> count, hash |-> hash]

\* What a method of MerkleTree returns in a class that does not define it.
None == [kind |-> "None"]

\* The trees of 2^level leaves, and all trees up to that level.
TreeOf[level \in Levels] ==
  {Zero(level)}
    \union [kind : {"Finalized"}, deposit_count : {2^level}, hash : Hash[level]]
    \union IF level = 0 THEN [kind : {"Leaf"}, hash : Hash[0]]
           ELSE LET below == TreeOf[level - 1]
                IN [kind : {"Node"}, left : below, right : below]

TreeUpto[level \in Levels] ==
  IF level = 0 THEN TreeOf[0] ELSE TreeOf[level] \union TreeUpto[level - 1]

Tree == TreeUpto[Depth]

-----------------------------------------------------------------------------

GetRoot(tree) ==
  LET root[t \in Tree] ==
        CASE t.kind = "Node" -> Sha256(root[t.left], root[t.right])
          [] t.kind = "Zero" /\ t.n < Depth -> zerohashes[t.n]
          [] t.kind = "Zero" /\ t.n = Depth ->
               Sha256(zerohashes[Depth - 1], zerohashes[Depth - 1])
          [] t.kind \in {"Leaf", "Finalized"} -> t.hash
  IN root[tree]

\* Mutated form: a subtree counts as full when its left half is.
IsFullByLeft(tree) ==
  LET full[t \in Tree] == \/ t.kind \in {"Leaf", "Finalized"}
                          \/ t.kind = "Node" /\ full[t.left]
  IN full[tree]

IsFull(tree) ==
  LET full[t \in Tree] == \/ t.kind \in {"Leaf", "Finalized"}
                          \/ t.kind = "Node" /\ full[t.right]
  IN full[tree]

\* MerkleTree.create for the two lists the code passes: [] and [leaf].
CreateOne(leaf, depth) ==
  LET create[level \in Levels] ==
        IF level = 0 THEN Leaf(leaf) ELSE Node(create[level - 1], Zero(level - 1))
  IN create[depth]

CreateEmpty(depth) == Zero(depth)

\* Leaf and Finalized inherit the abstract push_leaf, which returns None.
PushLeaf(tree, leaf, depth) ==
  LET push[t \in Tree] ==
        [level \in Levels |->
           IF t.kind = "Zero" THEN CreateOne(leaf, level)
           ELSE IF t.kind # "Node" THEN None
           ELSE IF IsFull(t.left) THEN Node(t.left, push[t.right][level - 1])
           ELSE Node(push[t.left][level - 1], t.right)]
  IN push[tree][depth]

-----------------------------------------------------------------------------
\* finalize of the subclasses without children.  Zero inherits the abstract
\* method, which returns None; a leaf that is reached is finalized whatever the
\* number of deposits still to finalize.
FinalizeChildless(t) ==
  CASE t.kind = "Leaf" -> Finalized(1, t.hash)
    [] t.kind = "Finalized" -> t
    [] OTHER -> None

\* Mutated form: the right half is entered at the boundary as well.
FinalizeBoundary(tree, count, depth) ==
  LET finalize[t \in Tree] ==
        [level \in Levels |-> [deposits \in 0 .. MaxDeposits |->
           IF t.kind # "Node" THEN FinalizeChildless(t)
           ELSE IF 2^level <= deposits THEN Finalized(2^level, GetRoot(t))
           ELSE Node(finalize[t.left][level - 1][deposits],
                     IF deposits >= 2^(level - 1)
                     THEN finalize[t.right][level - 1][deposits - 2^(level - 1)]
                     ELSE t.right)]]
  IN finalize[tree][depth][count]

\* Mutated form: the deposits of the left half are not subtracted.
FinalizeNoRemaining(tree, count, depth) ==
  LET finalize[t \in Tree] ==
        [level \in Levels |-> [deposits \in 0 .. MaxDeposits |->
           IF t.kind # "Node" THEN FinalizeChildless(t)
           ELSE IF 2^level <= deposits THEN Finalized(2^level, GetRoot(t))
           ELSE Node(finalize[t.left][level - 1][deposits],
                     IF deposits > 2^(level - 1)
                     THEN finalize[t.right][level - 1][deposits]
                     ELSE t.right)]]
  IN finalize[tree][depth][count]

Finalize(tree, count, depth) ==
  LET finalize[t \in Tree] ==
        [level \in Levels |-> [deposits \in 0 .. MaxDeposits |->
           IF t.kind # "Node" THEN FinalizeChildless(t)
           ELSE IF 2^level <= deposits THEN Finalized(2^level, GetRoot(t))
           ELSE Node(finalize[t.left][level - 1][deposits],
                     IF deposits > 2^(level - 1)
                     THEN finalize[t.right][level - 1][deposits - 2^(level - 1)]
                     ELSE t.right)]]
  IN finalize[tree][depth][count]

-----------------------------------------------------------------------------

\* Mutated form: the right subtree appends its hashes first.
GetFinalizedRightFirst(tree) ==
  LET get[t \in Tree] ==
        CASE t.kind = "Node" ->
               LET left == get[t.left]
                   right == get[t.right]
               IN [result |-> right.result \o left.result, count |-> left.count + right.count]
          [] t.kind = "Finalized" -> [result |-> <<t.hash>>, count |-> t.deposit_count]
          [] OTHER -> [result |-> <<>>, count |-> 0]
  IN get[tree]

\* get_finalized: the hashes it appends to `result`, from left to right, and the
\* number of finalized deposits it returns.
GetFinalized(tree) ==
  LET get[t \in Tree] ==
        CASE t.kind = "Node" ->
               LET left == get[t.left]
                   right == get[t.right]
               IN [result |-> left.result \o right.result, count |-> left.count + right.count]
          [] t.kind = "Finalized" -> [result |-> <<t.hash>>, count |-> t.deposit_count]
          [] OTHER -> [result |-> <<>>, count |-> 0]
  IN get[tree]

FinalizedHashes(tree) == GetFinalized(tree).result
FinalizedCount(tree) == GetFinalized(tree).count

\* Mutated form: the hash of the left half is passed on to the right one.
FromSnapshotPartsSameHash(finalized, count, depth) ==
  LET parts[level \in Levels] ==
        [i \in 1 .. Len(finalized) + 1 |-> [deposits \in 0 .. 2^level |->
           LET half == 2^(level - 1)
           IN IF i > Len(finalized) \/ deposits = 0 THEN Zero(level)
              ELSE IF deposits = 2^level THEN Finalized(deposits, finalized[i])
              ELSE IF deposits <= half
              THEN Node(parts[level - 1][i][deposits], Zero(level - 1))
              ELSE Node(Finalized(half, finalized[i]),
                        parts[level - 1][i][deposits - half])]]
  IN parts[depth][1][count]

\* The list finalized[1:] of the code is what follows the i-th hash.
FromSnapshotParts(finalized, count, depth) ==
  LET parts[level \in Levels] ==
        [i \in 1 .. Len(finalized) + 1 |-> [deposits \in 0 .. 2^level |->
           LET half == 2^(level - 1)
           IN IF i > Len(finalized) \/ deposits = 0 THEN Zero(level)
              ELSE IF deposits = 2^level THEN Finalized(deposits, finalized[i])
              ELSE IF deposits <= half
              THEN Node(parts[level - 1][i][deposits], Zero(level - 1))
              ELSE Node(Finalized(half, finalized[i]),
                        parts[level - 1][i + 1][deposits - half])]]
  IN parts[depth][1][count]

-----------------------------------------------------------------------------

GoesRight(index, depth) == (index \div 2^(depth - 1)) % 2 = 1

Child(t, index, depth) == IF GoesRight(index, depth) THEN t.right ELSE t.left
Sibling(t, index, depth) == IF GoesRight(index, depth) THEN t.left ELSE t.right

\* Raised where a method asks for the children of a tree that has none.
AttributeError == [error |-> "AttributeError"]

\* The leaf of `index`, and the branch from its sibling up to the child of the
\* root.  Where the path meets a subtree without children there is no proof.
GenerateProof(tree, index, depth) ==
  LET generate[level \in Levels] ==
        [t \in Tree |->
           IF level = 0 THEN [leaf |-> GetRoot(t), proof |-> <<>>]
           ELSE IF t.kind # "Node" THEN AttributeError
           ELSE LET below == generate[level - 1][Child(t, index, level)]
                IN IF below = AttributeError THEN AttributeError
                   ELSE [leaf |-> below.leaf,
                         proof |-> Append(below.proof, GetRoot(Sibling(t, index, level)))]]
  IN generate[depth][tree]

=============================================================================
