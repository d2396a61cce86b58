-------------------------- MODULE MCBidOnAddresses --------------------------
(* Instances of BidOnAddresses for TLC: one collateral token. *)
EXTENDS BidOnAddresses, TLC

CONSTANTS u1, u2, t1

MCUsers == {u1, u2}
MCReceivers == MCUsers \union {This}
MCCollateral == {t1}
Symmetry == Permutations(MCUsers)

\* The IDs of counters lie beyond those of conditions.
MCCounterIds == MaxCondition + 1 .. MaxCondition + MaxOracle + 2
MCDonatedId == [t \in MCCollateral |-> MaxCondition + 1]
MCPerOracleId == [t \in MCCollateral |-> [o \in Oracle |-> MaxCondition + 2 + o]]

=============================================================================
