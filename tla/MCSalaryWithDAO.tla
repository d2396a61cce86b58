-------------------------- MODULE MCSalaryWithDAO ---------------------------
(* Instances of SalaryWithDAO for TLC. *)
EXTENDS SalaryWithDAO, TLC

CONSTANTS u1, u2

MCUsers == {u1, u2}
MCReceivers == MCUsers \union {This}
MCAccounts == Account
Symmetry == Permutations(MCUsers)

NoCollateral == <<>>

=============================================================================
