---------------------------- MODULE SalaryProofs -----------------------------
(***************************************************************************)
(* Theorems on the salary contract without a DAO, for every number of      *)
(* users, oracles, conditions and collateral tokens and every width of     *)
(* integers.                                                               *)
(***************************************************************************)
EXTENDS Salary, BaseSalaryProofs

\* The inductive invariant: the supply of a chain is exactly what was minted
\* for its first condition.  It is stated of every number that could name a
\* chain: one that names none has neither a supply nor a total.
Inv ==
  /\ SalaryInv
  /\ \A f \in Condition : Supply(Storage, f) = totalBalances[f]

\* Supplies and totals are natural numbers, in this state and in the next.
LEMMA SuppliesNat ==
  /\ SalaryInv => \A f \in Condition :
                    Supply(Storage, f) \in Nat /\ totalBalances[f] \in Nat
  /\ (SalaryInv => \A f \in Condition :
                     Supply(Storage, f) \in Nat /\ totalBalances[f] \in Nat)'
<1>1. SalaryInv => \A f \in Condition :
                     Supply(Storage, f) \in Nat /\ totalBalances[f] \in Nat
  BY SalaryTypes, SupplyNat
<1>2. (SalaryInv => \A f \in Condition :
                      Supply(Storage, f) \in Nat /\ totalBalances[f] \in Nat)'
  BY <1>1, PTL
<1>3. QED
  BY <1>1, <1>2

\* The contract is deployed in the invariant.
LEMMA InitInv == Init => Inv
BY SalaryStart DEF Init, Inv

\* Every transaction of Next keeps the invariant of salary contracts.
LEMMA NextKeeps ==
  ASSUME SalaryInv, [Next]_salaryStateVars
  PROVE  SalaryInv' /\ SalaryKeeps
<1>1. CASE UNCHANGED salaryStateVars
  BY <1>1, IdleStep
<1>2. CASE SalaryNext
  BY <1>2, SalaryStep
<1>3. ASSUME NEW customer \in Customers, RegisterCustomer(customer)
      PROVE  SalaryInv' /\ SalaryKeeps
  BY <1>3, LockAssumption, RegisterStep DEF RegisterCustomer
<1>4. ASSUME NEW sender \in Users, NEW c \in Condition, Mint(sender, c)
      PROVE  SalaryInv' /\ SalaryKeeps
  BY <1>4, MintStep DEF Mint, Account
<1>5. QED
  BY <1>1, <1>2, <1>3, <1>4 DEF Next

\* It keeps the supplies equal to what was minted as well.
LEMMA NextInv == Inv /\ [Next]_salaryStateVars => Inv'
<1> SUFFICES ASSUME Inv, [Next]_salaryStateVars PROVE Inv'
  OBVIOUS
<1>1. SalaryInv' /\ SupplyFollows
  BY NextKeeps DEF Inv, SalaryKeeps
<1>2. ASSUME NEW f \in Condition
      PROVE  Supply(Storage, f)' = totalBalances'[f]
  <2>1. /\ Supply(Storage, f) = totalBalances[f]
        /\ Supply(Storage, f)' - totalBalances'[f] = Supply(Storage, f) - totalBalances[f]
    BY <1>1 DEF Inv, SupplyFollows
  <2>2. /\ Supply(Storage, f) \in Int
        /\ totalBalances[f] \in Int
        /\ Supply(Storage, f)' \in Int
        /\ totalBalances'[f] \in Int
    BY <1>1, SuppliesNat DEF Inv
  <2>3. QED
    BY <2>1, <2>2
<1>3. QED
  BY <1>1, <1>2 DEF Inv

-----------------------------------------------------------------------------
(***************************************************************************)
(* Theorems                                                                *)
(***************************************************************************)

\* The inductive invariant holds after every sequence of transactions.
THEOREM Invariance == Spec => []Inv
<1>1. QED
  BY InitInv, NextInv, PTL DEF Spec

\* The old token is converted 1:1: over all its conditions and all accounts, a
\* chain has as many tokens as were minted for its first condition, however
\* its conditions are recreated, also between the items of a batch.
THEOREM SupplyIsMinted == Spec => []ChainSupplyMinted
<1>1. Inv => ChainSupplyMinted
  <2> SUFFICES ASSUME Inv, NEW f \in Created
               PROVE  ChainSupply(f) = totalBalances[f]
    BY DEF ChainSupplyMinted
  <2>1. f \in Condition /\ ChainSupply(f) = Supply(Storage, f)
    BY ChainSupplyIs DEF Inv
  <2>2. QED
    BY <2>1 DEF Inv
<1>2. QED
  BY <1>1, Invariance, PTL

\* Every condition is in the chain of a first one of the same person.
THEOREM ChainsRooted == Spec => []ChainRoots
<1>1. Inv => ChainRoots
  BY InvChainRoots DEF Inv
<1>2. QED
  BY <1>1, Invariance, PTL

\* At least one token is minted for each second that was paid, and exactly one
\* where the receiver makes no calls from its hook, whatever other hooks call.
THEOREM SalariesPaidOnce == Spec => []SalaryRate
<1>1. Inv => SalaryRate
  BY InvSalaryRate DEF Inv
<1>2. QED
  BY <1>1, Invariance, PTL

\* No transaction changes the receiver, the owner or the chain of a condition.
THEOREM ReceiversFixed == Spec => ReceiverFixed
<1>1. Inv /\ [Next]_salaryStateVars => ReceiversKept
  BY NextKeeps DEF Inv, SalaryKeeps
<1>2. QED
  BY <1>1, Invariance, PTL DEF Spec, ReceiverFixed

=============================================================================
