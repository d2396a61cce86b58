------------------------------ MODULE MCSalary ------------------------------
(* Instances of Salary for TLC. *)
EXTENDS Salary, TLC

CONSTANTS u1, u2

MCUsers == {u1, u2}
MCReceivers == MCUsers \union {This}
MCAccounts == Account
\* No collateral ...
NoCollateral == <<>>

\* ... or the collateral tokens that a configuration names.
MCCounterIds == MaxCondition + 1 .. MaxCondition + MaxOracle + 2
MCDonatedId == [t \in Collateral |-> MaxCondition + 1]
MCPerOracleId == [t \in Collateral |-> [o \in Oracle |-> MaxCondition + 2 + o]]

Symmetry == Permutations(MCUsers)

=============================================================================
