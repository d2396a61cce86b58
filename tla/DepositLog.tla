----------------------------- MODULE DepositLog -----------------------------
(***************************************************************************)
(* What a deposit tree promises its node (assets/eip-4881): to stand for a *)
(* prefix of the deposit contract's log.  A node knows how many deposits   *)
(* it holds, how many of them are finalized and by which block; its root   *)
(* is the root of that prefix, however the node came to it: by replaying   *)
(* the log, by finalizing, by starting from a snapshot of another node.    *)
(***************************************************************************)
EXTENDS Hashing, SequencesExt

CONSTANTS Nodes, MaxBlocks, MaxBoots

VARIABLES
  blocks,     \* blocks[h]: the contract's deposit_count after block h
  up,         \* the nodes that are running
  count,      \* count[n]: the deposits node n holds
  final,      \* final[n]: how many of them are finalized
  block,      \* block[n]: the height of its finalized block, 0 if none
  root,       \* root[n]: its deposit root
  published,  \* the last snapshot served: the Eth1Data of a block
  boots       \* the number of times a node was started

vars == <<blocks, up, count, final, block, root, published, boots>>

\* Deposits in the log: the deposit_count of the last block.
LogLength == IF blocks = <<>> THEN 0 ELSE Last(blocks)

Eth1Data(h) ==
  [deposit_root |-> LogRoot[blocks[h]], deposit_count |-> blocks[h], height |-> h]

NoSnapshot == [deposit_root |-> <<>>, deposit_count |-> 0, height |-> 0]

-----------------------------------------------------------------------------

Init ==
  /\ blocks = <<>>
  /\ up = {}
  /\ count = [n \in Nodes |-> 0]
  /\ final = [n \in Nodes |-> 0]
  /\ block = [n \in Nodes |-> 0]
  /\ root = [n \in Nodes |-> LogRoot[0]]
  /\ published = NoSnapshot
  /\ boots = 0

MineBlock(c) ==
  /\ Len(blocks) < MaxBlocks
  /\ c >= LogLength
  /\ blocks' = Append(blocks, c)
  /\ UNCHANGED <<up, count, final, block, root, published, boots>>

Start(n, c, h) ==
  /\ n \notin up
  /\ boots < MaxBoots
  /\ up' = up \union {n}
  /\ count' = [count EXCEPT ![n] = c]
  /\ final' = [final EXCEPT ![n] = c]
  /\ block' = [block EXCEPT ![n] = h]
  /\ root' = [root EXCEPT ![n] = LogRoot[c]]
  /\ boots' = boots + 1
  /\ UNCHANGED <<blocks, published>>

StartEmpty(n) == Start(n, 0, 0)

StartFromSnapshot(n) ==
  /\ published # NoSnapshot
  /\ Start(n, published.deposit_count, published.height)

Stop(n) ==
  /\ n \in up
  /\ up' = up \ {n}
  /\ count' = [count EXCEPT ![n] = 0]
  /\ final' = [final EXCEPT ![n] = 0]
  /\ block' = [block EXCEPT ![n] = 0]
  /\ root' = [root EXCEPT ![n] = LogRoot[0]]
  /\ UNCHANGED <<blocks, published, boots>>

Learn(n) ==
  /\ n \in up
  /\ count[n] < LogLength
  /\ count' = [count EXCEPT ![n] = @ + 1]
  /\ root' = [root EXCEPT ![n] = LogRoot[count[n] + 1]]
  /\ UNCHANGED <<blocks, up, final, block, published, boots>>

\* Finalizing a block changes neither the deposits a node holds nor its root.
Finalize(n, h) ==
  /\ n \in up
  /\ block[n] <= h
  /\ blocks[h] <= count[n]
  /\ final' = [final EXCEPT ![n] = blocks[h]]
  /\ block' = [block EXCEPT ![n] = h]
  /\ UNCHANGED <<blocks, up, count, root, published, boots>>

\* A snapshot carries the Eth1Data of the finalized block it names.
Publish(n) ==
  /\ n \in up
  /\ block[n] # 0
  /\ published' = Eth1Data(block[n])
  /\ UNCHANGED <<blocks, up, count, final, block, root, boots>>

Next ==
  \/ \E c \in 0 .. MaxDeposits : MineBlock(c)
  \/ \E n \in Nodes :
       \/ StartEmpty(n)
       \/ StartFromSnapshot(n)
       \/ Stop(n)
       \/ Learn(n)
       \/ \E h \in 1 .. Len(blocks) : Finalize(n, h)
       \/ Publish(n)

Spec == Init /\ [][Next]_vars

=============================================================================
