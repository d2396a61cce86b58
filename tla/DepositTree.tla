---------------------------- MODULE DepositTree -----------------------------
(***************************************************************************)
(* assets/eip-4881/deposit_snapshot.py: DepositTree and                    *)
(* DepositTreeSnapshot, used by several consensus nodes.  Each node        *)
(* replays the log of the deposit contract into its own tree, finalizes    *)
(* it, serves snapshots of it, and can be stopped and started again, empty *)
(* or from the last snapshot that some node served.                        *)
(***************************************************************************)
EXTENDS MerkleTree, SequencesExt

CONSTANTS
  Nodes,        \* the consensus nodes
  MaxBlocks,    \* bound: the execution blocks of the model
  MaxBoots,     \* bound: how often nodes are started
  MinFinalize   \* the least deposit_count of a block that is finalized

ASSUME DepositTreeAssumption ==
  /\ MaxBlocks \in Nat
  /\ MaxBoots \in Nat
  /\ MinFinalize \in Nat

VARIABLES
  blocks,                     \* blocks[h]: deposit_count after block h
  tree,                       \* DepositTree.tree per node, None if stopped
  mix_in_length,              \* DepositTree.mix_in_length
  finalized_execution_block,  \* its height, 0 for Python's None
  snapshot                    \* the last DepositTreeSnapshot a node served

VARIABLE boots                \* how often nodes were started

node == <<tree, mix_in_length, finalized_execution_block>>
vars == <<blocks, tree, mix_in_length, finalized_execution_block, snapshot, boots>>

Log == INSTANCE DepositLog
  WITH up <- {n \in Nodes : tree[n] # None},
       count <- mix_in_length,
       final <- [n \in Nodes |->
                   IF tree[n] = None THEN 0 ELSE FinalizedCount(tree[n])],
       block <- finalized_execution_block,
       root <- [n \in Nodes |->
                  Sha256(IF tree[n] = None THEN GetRoot(Zero(Depth))
                         ELSE GetRoot(tree[n]),
                         ToLeBytes(mix_in_length[n]))],
       published <- [deposit_root |-> snapshot.deposit_root,
                     deposit_count |-> snapshot.deposit_count,
                     height |-> snapshot.execution_block_height]

-----------------------------------------------------------------------------
(***************************************************************************)
(* DepositTreeSnapshot                                                     *)
(***************************************************************************)

Bit(size, level) == (size \div 2^level) % 2

\* sequence[i] in Python: a negative index counts from the end.
Item(sequence, i) ==
  sequence[IF i >= 0 THEN i + 1 ELSE Len(sequence) + i + 1]

\* The loop of calculate_root: what `index` and `root` are after so many turns.
\* The finalized hashes cover the set bits of deposit_count, the lowest bit by
\* the last hash.
CalculateRoot(finalized, deposit_count) ==
  LET climb[level \in Levels] ==
        IF level = 0 THEN [index |-> Len(finalized), root |-> zerohashes[0]]
        ELSE LET below == climb[level - 1]
             IN IF Bit(deposit_count, level - 1) = 1
                THEN [index |-> below.index - 1,
                      root |-> Sha256(Item(finalized, below.index - 1), below.root)]
                ELSE [index |-> below.index,
                      root |-> Sha256(below.root, zerohashes[level - 1])]
  IN Sha256(climb[Depth].root, ToLeBytes(deposit_count))

FromTreeParts(finalized, deposit_count, height) ==
  [finalized |-> finalized,
   deposit_root |-> CalculateRoot(finalized, deposit_count),
   deposit_count |-> deposit_count,
   execution_block_height |-> height]

NoSnapshot == [finalized |-> <<>>, deposit_root |-> <<>>, deposit_count |-> 0,
               execution_block_height |-> 0]

-----------------------------------------------------------------------------
(***************************************************************************)
(* DepositTree                                                             *)
(***************************************************************************)

Running(n) == tree[n] # None

LogLength == IF blocks = <<>> THEN 0 ELSE Last(blocks)

Init ==
  /\ blocks = <<>>
  /\ tree = [n \in Nodes |-> None]
  /\ mix_in_length = [n \in Nodes |-> 0]
  /\ finalized_execution_block = [n \in Nodes |-> 0]
  /\ snapshot = NoSnapshot
  /\ boots = 0

SetNode(n, t, mixIn, height) ==
  /\ tree' = [tree EXCEPT ![n] = t]
  /\ mix_in_length' = [mix_in_length EXCEPT ![n] = mixIn]
  /\ finalized_execution_block' = [finalized_execution_block EXCEPT ![n] = height]

\* The chain grows by a block after which the contract counts c deposits.
MineBlock(c) ==
  /\ Len(blocks) < MaxBlocks
  /\ c >= LogLength
  /\ blocks' = Append(blocks, c)
  /\ UNCHANGED <<node, snapshot, boots>>

\* DepositTree.new
New(n) ==
  /\ ~Running(n)
  /\ boots < MaxBoots
  /\ boots' = boots + 1
  /\ SetNode(n, CreateEmpty(Depth), 0, 0)
  /\ UNCHANGED <<blocks, snapshot>>

\* DepositTree.from_snapshot: the assertion lets no inconsistent one pass.
FromSnapshot(n) ==
  /\ ~Running(n)
  /\ boots < MaxBoots
  /\ snapshot # NoSnapshot
  /\ snapshot.deposit_root = CalculateRoot(snapshot.finalized, snapshot.deposit_count)
  /\ boots' = boots + 1
  /\ SetNode(n,
             FromSnapshotParts(snapshot.finalized, snapshot.deposit_count, Depth),
             snapshot.deposit_count,
             snapshot.execution_block_height)
  /\ UNCHANGED <<blocks, snapshot>>

\* A node stops; its tree was in memory only.
Stop(n) ==
  /\ Running(n)
  /\ SetNode(n, None, 0, 0)
  /\ UNCHANGED <<blocks, snapshot, boots>>

\* DepositTree.push_leaf of the next deposit of the contract's log.
PushDeposit(n) ==
  /\ Running(n)
  /\ mix_in_length[n] < LogLength
  /\ SetNode(n,
             PushLeaf(tree[n], DepositRoot(mix_in_length[n]), Depth),
             mix_in_length[n] + 1,
             finalized_execution_block[n])
  /\ UNCHANGED <<blocks, snapshot, boots>>

\* DepositTree.finalize drops what tree.finalize returns: the call acts only
\* through the fields that Node.finalize assigns.
FinalizedInPlace(t, deposits) ==
  IF t.kind = "Node" /\ deposits < 2^Depth THEN Finalize(t, deposits, Depth) ELSE t

\* DepositTree.finalize for block h, of which the node has every deposit.
\* A node finalizes blocks in order.
FinalizeBlock(n, h) ==
  /\ Running(n)
  /\ finalized_execution_block[n] <= h
  /\ MinFinalize <= blocks[h]
  /\ blocks[h] <= mix_in_length[n]
  /\ SetNode(n, FinalizedInPlace(tree[n], blocks[h]), mix_in_length[n], h)
  /\ UNCHANGED <<blocks, snapshot, boots>>

\* DepositTree.get_snapshot, served to whoever asks; it asserts a block.
GetSnapshot(n) ==
  /\ Running(n)
  /\ finalized_execution_block[n] # 0
  /\ snapshot' = FromTreeParts(FinalizedHashes(tree[n]), FinalizedCount(tree[n]),
                               finalized_execution_block[n])
  /\ UNCHANGED <<blocks, node, boots>>

Next ==
  \/ \E c \in 0 .. MaxDeposits : MineBlock(c)
  \/ \E n \in Nodes :
       \/ New(n)
       \/ FromSnapshot(n)
       \/ Stop(n)
       \/ PushDeposit(n)
       \/ \E h \in 1 .. Len(blocks) : FinalizeBlock(n, h)
       \/ GetSnapshot(n)

Spec == Init /\ [][Next]_vars

-----------------------------------------------------------------------------
(***************************************************************************)
(* Queries: get_root and get_proof, and the verifier of the tests          *)
(***************************************************************************)

DepositTreeRoot(n) == Sha256(GetRoot(tree[n]), ToLeBytes(mix_in_length[n]))

\* The indexes of the deposits that are not finalized, and those that get_proof
\* gives a proof for: its assertions look at finalized deposits alone, so that an
\* index may lie beyond the deposits pushed, as long as the path is not cut.
ProvableIndexes(n) == FinalizedCount(tree[n]) .. mix_in_length[n] - 1
OpenIndexes(n) ==
  {index \in FinalizedCount(tree[n]) .. 2^Depth - 1 :
     mix_in_length[n] > 0 /\ GenerateProof(tree[n], index, Depth) # AttributeError}

\* get_proof appends the mix-in of the length to the branch.
GetProof(n, index) ==
  Append(GenerateProof(tree[n], index, Depth).proof, ToLeBytes(mix_in_length[n]))

\* merkle_root_from_branch of the tests.
MerkleRootFromBranch(leaf, branch, index) ==
  LET climb[i \in 0 .. Len(branch)] ==
        IF i = 0 THEN leaf
        ELSE IF Bit(index, i - 1) = 1 THEN Sha256(branch[i], climb[i - 1])
        ELSE Sha256(climb[i - 1], branch[i])
  IN climb[Len(branch)]

-----------------------------------------------------------------------------
(***************************************************************************)
(* Properties                                                              *)
(***************************************************************************)

LeavesOf(top) ==
  LET leaves[t \in Tree] ==
        CASE t.kind = "Node" -> leaves[t.left] + leaves[t.right]
          [] t.kind = "Leaf" -> 1
          [] OTHER -> 0
  IN leaves[top]

\* The type invariant: trees are well-formed, heights name blocks.
TypeOK ==
  /\ blocks \in BoundedSeq(0 .. MaxDeposits, MaxBlocks)
  /\ tree \in [Nodes -> TreeOf[Depth] \union {None}]
  /\ mix_in_length \in [Nodes -> 0 .. MaxDeposits]
  /\ finalized_execution_block \in [Nodes -> 0 .. Len(blocks)]
  /\ snapshot.deposit_count \in 0 .. MaxDeposits
  /\ snapshot.execution_block_height \in 0 .. Len(blocks)
  /\ boots \in 0 .. MaxBoots

\* get_proof: for every deposit that is not finalized the tree still holds
\* its leaf, and the branch it returns leads from that leaf to get_root,
\* whatever was finalized before and wherever the tree was started from.  For an
\* index that no deposit has it raises, or proves that there is none.
ProofsVerify ==
  \A n \in Nodes : Running(n) =>
    /\ ProvableIndexes(n) \subseteq OpenIndexes(n)
    /\ \A index \in OpenIndexes(n) :
         LET leaf == IF index < mix_in_length[n] THEN DepositRoot(index) ELSE ZeroBytes
         IN /\ GenerateProof(tree[n], index, Depth).leaf = leaf
            /\ MerkleRootFromBranch(leaf, GetProof(n, index), index) = DepositTreeRoot(n)

\* finalize prunes every leaf it may prune, and no other: a tree keeps a leaf
\* for each deposit above the count of its finalized block, and only those.
FinalizedLeavesPruned ==
  \A n \in Nodes : Running(n) /\ finalized_execution_block[n] # 0 =>
    LeavesOf(tree[n]) = mix_in_length[n] - blocks[finalized_execution_block[n]]

\* The deposits that are finalized with the block of a height.
CountAt(h) == IF h = 0 THEN 0 ELSE blocks[h]

\* Two nodes with the same deposits and the same finalized deposits have the
\* same tree, node by node: from_snapshot rebuilds the very tree that finalize
\* leaves, whether the deposits were finalized at once or step by step.
TreesConverge ==
  \A m, n \in Nodes :
    /\ Running(m)
    /\ Running(n)
    /\ mix_in_length[m] = mix_in_length[n]
    /\ CountAt(finalized_execution_block[m]) = CountAt(finalized_execution_block[n])
    => tree[m] = tree[n]

\* A snapshot has no more hashes than deposit_count has binary digits set,
\* the size that the format's list limit is made for, and its fields are the
\* Eth1Data of the block whose height it carries.
SnapshotMatchesEth1Data ==
  snapshot # NoSnapshot =>
    LET count == blocks[snapshot.execution_block_height]
    IN /\ snapshot.deposit_count = count
       /\ snapshot.deposit_root = LogRoot[count]
       /\ Len(snapshot.finalized)
            = Cardinality({i \in 0 .. Depth : Bit(count, i) = 1})

\* The trees implement the log: every operation has on root, deposit counts,
\* finalized block and snapshots the effect that DepositLog gives it.
RefinesDepositLog == Log!Spec

=============================================================================
