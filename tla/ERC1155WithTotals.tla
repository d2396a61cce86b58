------------------------- MODULE ERC1155WithTotals --------------------------
(***************************************************************************)
(* assets/eip-3267/contracts/ERC1155: the token bookkeeping that every     *)
(* contract of EIP-3267 inherits: balances, total supplies and operator    *)
(* approvals, with what a transfer and a mint do to them.                  *)
(*                                                                         *)
(* A transaction that reverts leaves no trace and is no step.  A receiver  *)
(* is a plain account, or a contract that either accepts or rejects tokens *)
(* when it is asked to.  Being asked, it may call back: an operation that  *)
(* writes state after that is more than one step (BaseSalary).             *)
(***************************************************************************)
EXTENDS Integers, FiniteSets

CONSTANTS
  Users,         \* the accounts that call the contract
  This,          \* the address of the contract
  Null,          \* address(0)
  NonReceivers,  \* the users that are contracts without a receiver hook
  MaxCondition,  \* bound: the conditional tokens of the model
  CounterIds,    \* the other token IDs: counters of donations
  MaxUint        \* the largest uint256

Account == Users \union {This, Null}
Condition == 1 .. MaxCondition
TokenId == Condition \union CounterIds
Uint == 0 .. MaxUint

ASSUME TokenAssumption ==
  /\ This \notin Users
  /\ Null \notin Users \union {This}
  /\ NonReceivers \subseteq Users
  /\ MaxCondition \in Nat
  /\ MaxUint \in Nat
  /\ Condition \intersect CounterIds = {}

\* An address has 20 bytes, a token ID 32.
ASSUME UsersAssumption == IsFiniteSet(Users)
ASSUME CountersAssumption == IsFiniteSet(CounterIds)

VARIABLES
  balances,           \* balances[id][account]: _balances
  totalBalances,      \* totalBalances[id]: what totalSupply returns
  operatorApprovals   \* operatorApprovals[owner][operator]

tokenVars == <<balances, totalBalances, operatorApprovals>>

TokenInit ==
  /\ balances = [id \in TokenId |-> [a \in Account |-> 0]]
  /\ totalBalances = [id \in TokenId |-> 0]
  /\ operatorApprovals = [a \in Account |-> [b \in Account |-> FALSE]]

-----------------------------------------------------------------------------

\* _doSafeTransferAcceptanceCheck; the contract itself is an ERC1155Holder.
Accepts(to) == to \notin NonReceivers

\* The requirements of _mint: SafeMath guards the total only.
CanMint(to, id, value) ==
  /\ to # Null
  /\ totalBalances[id] + value <= MaxUint
  /\ Accepts(to)

\* _doMint: the balance is increased without an overflow check.
MintedBalances(b, to, id, value) ==
  [b EXCEPT ![id][to] = (@ + value) % (MaxUint + 1)]
MintedTotals(totals, id, value) == [totals EXCEPT ![id] = @ + value]

\* Mutated form: the receiver's balance is read before the sender's is reduced.
MovedBalancesStale(b, from, to, id, value) ==
  LET taken == [b EXCEPT ![id][from] = @ - value]
  IN [taken EXCEPT ![id][to] = b[id][to] + value]

\* The balances after `value` of `id` moved: first taken, then added.
MovedBalances(b, from, to, id, value) ==
  LET taken == [b EXCEPT ![id][from] = @ - value]
  IN [taken EXCEPT ![id][to] = @ + value]

\* Mutated form: the subtraction is not checked.
CanMoveUnchecked(b, from, to, id, value) ==
  from = to \/ b[id][to] + value <= MaxUint

\* SafeMath on both sides of the move.
CanMove(b, from, to, id, value) ==
  /\ value <= b[id][from]
  /\ from = to \/ b[id][to] + value <= MaxUint

MayOperate(sender, from) == from = sender \/ operatorApprovals[from][sender]

SetApprovalForAll(sender, operator, approved) ==
  /\ sender # operator
  /\ operatorApprovals' = [operatorApprovals EXCEPT ![sender][operator] = approved]
  /\ UNCHANGED <<balances, totalBalances>>

=============================================================================
