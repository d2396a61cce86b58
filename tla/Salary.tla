------------------------------- MODULE Salary -------------------------------
(***************************************************************************)
(* assets/eip-3267/contracts/Salary.sol: BaseSalary with a registration    *)
(* open to anyone, for oneself or for another.                             *)
(***************************************************************************)
EXTENDS BaseSalary

Init == SalaryInit

\* registerCustomer; the oracle it names is only logged.
RegisterCustomer(customer) == Register(customer)

\* originalToCurrentAddress is not overridden: it is the identity.
Mint(sender, c) == MintSalary(sender, c, sender)

Next ==
  \/ SalaryNext
  \/ \E customer \in Customers : RegisterCustomer(customer)
  \/ \E sender \in Users, c \in Condition : Mint(sender, c)

Spec == Init /\ [][Next]_salaryStateVars

-----------------------------------------------------------------------------

\* "Old token is 1:1 converted to the new token" (BaseSalary.sol:145): the
\* tokens of a chain are those that were minted, all of them for its first
\* condition; recreation, also in the middle of a batch, makes and loses none.
ChainSupplyMinted ==
  \A f \in Created :
    firstConditionInChain[f] = f => ChainSupply(f) = totalBalances[f]

\* The documented use of the map (BaseSalary.sol:69): it takes the first
\* condition of a chain to the last one.
FirstToLastIsLast ==
  \A f \in Created :
    firstConditionInChain[f] = f =>
      firstToLastConditionInChain[f]
        = Max({c \in Created : firstConditionInChain[c] = f})

=============================================================================
