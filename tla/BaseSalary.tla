----------------------------- MODULE BaseSalary -----------------------------
(***************************************************************************)
(* assets/eip-3267/contracts/BaseSalary.sol: a condition is a salary that  *)
(* is paid to its receiver in tokens minted for the time that passed since *)
(* the last payment, one token (10**18 units) per second.  Anyone can ask  *)
(* to replace a salary token by a new one, the next in its "chain"; a      *)
(* receiver's own transfer of a salary token does it too.                  *)
(*                                                                         *)
(* Minting hands control to a receiver that is a contract before the date  *)
(* of the payment is written: what the receiver's hook calls, directly or  *)
(* through other contracts, comes in between.                              *)
(*                                                                         *)
(* A transfer may recreate a condition between two items of a batch, so    *)
(* what transfers and recreations do is defined on a record of the storage *)
(* they touch: s.                                                          *)
(***************************************************************************)
EXTENDS BaseBidOnAddresses, Sequences

CONSTANTS
  Reentrant,   \* the users that are contracts whose hook makes calls
  MaxCalls     \* bound: the calls of mintSalary that wait for a hook at once

ASSUME SalaryAssumption == Reentrant \subseteq Users /\ MaxCalls \in Nat

VARIABLES
  conditionCreationDates,       \* per condition
  lastSalaryDates,              \* per condition
  salaryReceivers,              \* per condition
  firstConditionInChain,        \* per condition
  firstToLastConditionInChain   \* per condition

\* The conditions whose mintSalary waits for the receiver's hook to return, the
\* innermost call first.
VARIABLE suspended

chainVars == <<conditionCreationDates, salaryReceivers, firstConditionInChain,
               firstToLastConditionInChain>>
salaryVars == <<chainVars, lastSalaryDates, suspended>>
salaryStateVars == <<bidVars, salaryVars>>

SalaryInit ==
  /\ BidInit
  /\ conditionCreationDates = [c \in Condition |-> 0]
  /\ lastSalaryDates = [c \in Condition |-> 0]
  /\ salaryReceivers = [c \in Condition |-> Null]
  /\ firstConditionInChain = [c \in Condition |-> 0]
  /\ firstToLastConditionInChain = [c \in Condition |-> 0]
  /\ suspended = <<>>

\* The storage that transfers, registrations and recreations write.
Storage ==
  [balances |-> balances,
   maxConditionId |-> maxConditionId,
   owners |-> conditionOwners,
   receivers |-> salaryReceivers,
   created |-> conditionCreationDates,
   lastSalary |-> lastSalaryDates,
   first |-> firstConditionInChain,
   firstToLast |-> firstToLastConditionInChain]

SetStorage(s) ==
  /\ balances' = s.balances
  /\ maxConditionId' = s.maxConditionId
  /\ conditionOwners' = s.owners
  /\ salaryReceivers' = s.receivers
  /\ conditionCreationDates' = s.created
  /\ lastSalaryDates' = s.lastSalary
  /\ firstConditionInChain' = s.first
  /\ firstToLastConditionInChain' = s.firstToLast

\* What a step that writes the storage leaves alone.
restVars == <<totalBalances, operatorApprovals, oracleVars, userUsedRedeemMap,
              roundVars, blockTimestamp, collateralVars, resultVars, suspended>>

-----------------------------------------------------------------------------
(***************************************************************************)
(* Chains                                                                  *)
(***************************************************************************)

\* _doCreateCondition
WithCondition(s, customer) ==
  LET c == s.maxConditionId + 1
  IN [balances |-> s.balances,
      maxConditionId |-> c,
      owners |-> [s.owners EXCEPT ![c] = customer],
      receivers |-> [s.receivers EXCEPT ![c] = customer],
      created |-> [s.created EXCEPT ![c] = blockTimestamp],
      lastSalary |-> s.lastSalary,
      first |-> [s.first EXCEPT ![c] = c],
      firstToLast |-> [s.firstToLast EXCEPT ![c] = c]]

\* isFirstConditionInChain and isLastConditionInChain; nothing is stored at
\* condition 0 but 0.
IsFirst(s, c) == s.first[c] = c
IsLast(s, c) == s.first[c] # 0 /\ s.firstToLast[s.first[c]] = c

\* Mutated form: any condition that exists can be recreated.
CanRecreateAny(s, c) ==
  c \in 1 .. s.maxConditionId /\ s.maxConditionId < MaxCondition

CanRecreate(s, c) == c \in Condition /\ IsFirst(s, c) /\ s.maxConditionId < MaxCondition

\* Mutated form: the new condition is not linked to its chain.
RecreatedUnlinked(s, c) ==
  LET customer == s.receivers[c]
      old == s.firstToLast[c]
      new == s.maxConditionId + 1
      with == WithCondition(s, customer)
  IN [with EXCEPT !.balances[new][customer] = s.balances[old][customer],
                  !.balances[old][customer] = 0,
                  !.lastSalary[new] = s.lastSalary[c]]

\* Mutated form: the receiver keeps the tokens of the old condition as well.
RecreatedKeepingOld(s, c) ==
  LET customer == s.receivers[c]
      old == s.firstToLast[c]
      new == s.maxConditionId + 1
      with == WithCondition(s, customer)
  IN [with EXCEPT !.first[new] = c,
                  !.balances[new][customer] = s.balances[old][customer],
                  !.lastSalary[new] = s.lastSalary[c]]

\* Mutated form: the wrong one of the two maps is updated.
RecreatedRerooting(s, c) ==
  LET customer == s.receivers[c]
      old == s.firstToLast[c]
      new == s.maxConditionId + 1
      with == WithCondition(s, customer)
  IN [with EXCEPT !.first[c] = new,
                  !.balances[new][customer] = s.balances[old][customer],
                  !.balances[old][customer] = 0,
                  !.lastSalary[new] = s.lastSalary[c]]

\* _recreateCondition: the receiver's tokens of the last condition become
\* tokens of a new one; firstToLastConditionInChain[c] is not written.
Recreated(s, c) ==
  LET customer == s.receivers[c]
      old == s.firstToLast[c]
      new == s.maxConditionId + 1
      with == WithCondition(s, customer)
  IN [with EXCEPT !.first[new] = c,
                  !.balances[new][customer] = s.balances[old][customer],
                  !.balances[old][customer] = 0,
                  !.lastSalary[new] = s.lastSalary[c]]

RecreateCondition(c) ==
  /\ CanRecreate(Storage, c)
  /\ SetStorage(Recreated(Storage, c))
  /\ UNCHANGED restVars

\* _registerCustomer
Registered(s, customer) ==
  LET with == WithCondition(s, customer)
  IN [with EXCEPT !.lastSalary[with.maxConditionId] = blockTimestamp]

Register(customer) ==
  /\ maxConditionId < MaxCondition
  /\ SetStorage(Registered(Storage, customer))
  /\ UNCHANGED restVars

-----------------------------------------------------------------------------
(***************************************************************************)
(* Salaries                                                                *)
(***************************************************************************)

\* mintSalary; `current` is what originalToCurrentAddress returns for the
\* caller.  The amount is an unchecked product of the time passed.  A receiver
\* with a hook is called after the mint and before lastSalaryDates is written.
MintSalary(sender, c, current) ==
  LET target == firstToLastConditionInChain[c]
      amount == blockTimestamp - lastSalaryDates[c]
  IN /\ IsLast(Storage, c)
     /\ lastSalaryDates[c] # 0
     /\ conditionOwners[target] = sender
     /\ CanMint(current, target, amount)
     /\ balances' = MintedBalances(balances, current, target, amount)
     /\ totalBalances' = MintedTotals(totalBalances, target, amount)
     /\ IF current \in Reentrant
        THEN /\ Len(suspended) < MaxCalls
             /\ suspended' = <<c>> \o suspended
             /\ UNCHANGED lastSalaryDates
        ELSE /\ lastSalaryDates' = [lastSalaryDates EXCEPT ![c] = blockTimestamp]
             /\ UNCHANGED suspended
     /\ UNCHANGED <<operatorApprovals, oracleVars, conditionVars, userUsedRedeemMap,
                    roundVars, blockTimestamp, collateralVars, resultVars, chainVars>>

\* The hook returns to the last mintSalary that waits, which goes on.
HookReturns ==
  /\ suspended # <<>>
  /\ lastSalaryDates' = [lastSalaryDates EXCEPT ![Head(suspended)] = blockTimestamp]
  /\ suspended' = Tail(suspended)
  /\ UNCHANGED <<bidVars, chainVars>>

-----------------------------------------------------------------------------
(***************************************************************************)
(* Transfers: _doTransfer is overridden                                    *)
(***************************************************************************)

\* A salary token that its receiver moves, himself, is recreated.
Recreates(s, sender, id) ==
  id \in Condition /\ s.receivers[id] = sender /\ IsLast(s, id)

CanDoTransfer(s, sender, from, to, item) ==
  /\ CanMove(s.balances, from, to, item.id, item.value)
  /\ Recreates(s, sender, item.id) => CanRecreate(s, item.id)

DoTransfer(s, sender, from, to, item) ==
  LET moved == [s EXCEPT !.balances =
                   MovedBalances(@, from, to, item.id, item.value)]
  IN IF Recreates(s, sender, item.id) THEN Recreated(moved, item.id) ELSE moved

SalaryTransfer(sender, from, to, item) ==
  /\ CanTransfer(sender, from, to, {item})
  /\ CanDoTransfer(Storage, sender, from, to, item)
  /\ SetStorage(DoTransfer(Storage, sender, from, to, item))
  /\ UNCHANGED restVars

SalaryBatchTransfer(sender, from, to, item1, item2) ==
  LET moved == DoTransfer(Storage, sender, from, to, item1)
  IN /\ CanTransfer(sender, from, to, {item1, item2})
     /\ CanDoTransfer(Storage, sender, from, to, item1)
     /\ CanDoTransfer(moved, sender, from, to, item2)
     /\ SetStorage(DoTransfer(moved, sender, from, to, item2))
     /\ UNCHANGED restVars

\* The public functions, but for mintSalary and the registration that the
\* derived contracts complete.  All of them can be called from a hook; within
\* one transaction the time stands still.
SalaryNext ==
  \/ /\ BidNext
     /\ suspended # <<>> => UNCHANGED blockTimestamp
     /\ UNCHANGED salaryVars
  \/ HookReturns
  \/ \E c \in Condition : RecreateCondition(c)
  \/ \E sender, from \in Users, to \in Users \union {This} :
       \/ \E item \in Items : SalaryTransfer(sender, from, to, item)
       \/ \E item1, item2 \in Items : SalaryBatchTransfer(sender, from, to, item1, item2)

-----------------------------------------------------------------------------
(***************************************************************************)
(* Properties of every salary contract                                     *)
(***************************************************************************)

Created == 1 .. maxConditionId

\* Chains: every condition belongs to the chain of an earlier, or the same,
\* condition that is the first of its own chain, and one chain is one
\* person's: every condition of it has the owner and receiver of the first.
\* A condition that does not exist yet belongs to none.
ChainRoots ==
  \A c \in Condition :
    IF c \in Created
    THEN LET f == firstConditionInChain[c]
         IN /\ f \in 1 .. c
            /\ firstConditionInChain[f] = f
            /\ salaryReceivers[c] = salaryReceivers[f]
            /\ conditionOwners[c] = salaryReceivers[c]
    ELSE /\ firstConditionInChain[c] = 0
         /\ salaryReceivers[c] = Null

\* The salary rate: "one token per second" (BaseSalary.sol:90).  Of a first
\* condition whose receiver makes no calls when it is paid, exactly one token
\* exists for each second between its creation and its last salary date,
\* however often it was minted, transferred and recreated, also by what the
\* hooks of other receivers call.  A receiver whose hook calls mintSalary again
\* is paid the same seconds again: the rate is then only a lower bound.  Of a
\* recreated condition none was ever minted.
SalaryRate ==
  \A c \in Created :
    LET seconds == lastSalaryDates[c] - conditionCreationDates[c]
    IN IF firstConditionInChain[c] # c THEN totalBalances[c] = 0
       ELSE /\ totalBalances[c] >= seconds
            /\ salaryReceivers[c] \notin Reentrant => totalBalances[c] = seconds

\* The tokens that exist, in all accounts, of the conditions in a chain.
ChainSupply(f) ==
  SumOver([c \in Condition |-> SumOver(balances[c], Account)],
          {c \in Created : firstConditionInChain[c] = f})

ReceiversKept ==
  \A c \in Created :
    /\ salaryReceivers'[c] = salaryReceivers[c]
    /\ conditionOwners'[c] = conditionOwners[c]
    /\ firstConditionInChain'[c] = firstConditionInChain[c]

\* A person's salary is nobody else's: no step changes the receiver, the
\* owner or the chain of a condition that exists.
ReceiverFixed == [][ReceiversKept]_salaryStateVars

=============================================================================
