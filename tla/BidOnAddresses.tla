--------------------------- MODULE BidOnAddresses ---------------------------
(***************************************************************************)
(* assets/eip-3267/contracts/BidOnAddresses.sol: a market in which anyone  *)
(* registers a customer, who is given a fixed number of tokens of a new    *)
(* condition.  The contract has no createOracle, which BaseLock.sol:21     *)
(* asks of it; the one of SalaryWithDAO is taken in its place.             *)
(***************************************************************************)
EXTENDS BaseBidOnAddresses

CONSTANT InitialCustomerBalance   \* INITIAL_CUSTOMER_BALANCE

ASSUME BidOnAddressesAssumption == InitialCustomerBalance \in Uint

Init == BidInit

\* Mutated form: the counter of conditions is not advanced.
RegisterCustomerNoCount(customer, o) ==
  LET c == maxConditionId + 1
  IN /\ o <= maxOracleId
     /\ c \in Condition
     /\ CanMint(customer, c, InitialCustomerBalance)
     /\ UNCHANGED maxConditionId
     /\ conditionOwners' = [conditionOwners EXCEPT ![c] = customer]
     /\ balances' = MintedBalances(balances, customer, c, InitialCustomerBalance)
     /\ totalBalances' = MintedTotals(totalBalances, c, InitialCustomerBalance)
     /\ UNCHANGED <<operatorApprovals, oracleVars, userUsedRedeemMap, roundVars,
                    blockTimestamp, collateralVars, resultVars>>

\* _createCondition, then _mintToCustomer.
RegisterCustomer(customer, o) ==
  LET c == maxConditionId + 1
  IN /\ o <= maxOracleId
     /\ c \in Condition
     /\ CanMint(customer, c, InitialCustomerBalance)
     /\ maxConditionId' = c
     /\ conditionOwners' = [conditionOwners EXCEPT ![c] = customer]
     /\ balances' = MintedBalances(balances, customer, c, InitialCustomerBalance)
     /\ totalBalances' = MintedTotals(totalBalances, c, InitialCustomerBalance)
     /\ UNCHANGED <<operatorApprovals, oracleVars, userUsedRedeemMap, roundVars,
                    blockTimestamp, collateralVars, resultVars>>

Transfer(sender, from, to, item) ==
  SafeTransferFrom(sender, from, to, item) /\ UNCHANGED resultVars

BatchTransfer(sender, from, to, item1, item2) ==
  SafeBatchTransferFrom(sender, from, to, item1, item2) /\ UNCHANGED resultVars

Next ==
  \/ BidNext
  \/ \E customer \in Customers, o \in Oracle : RegisterCustomer(customer, o)
  \/ \E sender, from \in Users, to \in Users \union {This} :
       \/ \E item \in Items : Transfer(sender, from, to, item)
       \/ \E item1, item2 \in Items : BatchTransfer(sender, from, to, item1, item2)

Spec == Init /\ [][Next]_bidVars

-----------------------------------------------------------------------------
(***************************************************************************)
(* Properties                                                              *)
(***************************************************************************)

\* Owners, locks and marks refer to what exists, numbers keep their width.
TypeOK ==
  /\ TokenTypeOK
  /\ LockTypeOK
  /\ CollateralTypeOK
  /\ ResultTypeOK
  /\ \A o \in Oracle : oracleOwnersMap[o] # Null <=> o \in 1 .. maxOracleId
  /\ gracePeriodEnds \in [Oracle -> {0} \union GraceTimes]
  /\ maxConditionId \in 0 .. MaxCondition
  /\ conditionOwners \in [Condition -> Account]
  /\ \A c \in Condition : conditionOwners[c] # Null <=> c <= maxConditionId

\* totalSupply is the sum of the balances, for every token: the unchecked
\* addition in _doMint rests on it.
TotalsAreSums ==
  \A id \in TokenId : totalBalances[id] = SumOver(balances[id], Account)

\* The counters of donations are no scores' subject: oracles score conditions.
ConditionsScored ==
  \A o \in Oracle, id \in CounterIds : payoutNumeratorsMap[o][id] = 0

\* All that the counters of collateral t count was received: no donation had
\* the contract itself as its source beyond a profit.
DonationsReceived(t) ==
  totalBalances[donatedId[t]]
    <= held[t][This]
         + SumOver([o \in Oracle |-> paid[t][o]["first"] + paid[t][o]["second"]], Oracle)

\* What all holders of all tokens may still withdraw from oracle o
Entitlement(t, o) ==
  SumOver([c \in TokenId |->
             SumOver([u \in Account |-> Owing(t, o, c, u)], Account)], TokenId)

\* However tokens are traded between withdrawals, whichever oracles were
\* withdrawn from first: the collateral that the contract holds covers all that
\* all users may still withdraw from all oracles together ("Rounded to below
\* for no out-of-funds", BaseLock.sol:480), as long as oracles score conditions
\* and donations bring what they count.
WithdrawalsFunded ==
  \A t \in Collateral :
    ConditionsScored /\ DonationsReceived(t) =>
      SumOver([o \in Oracle |-> Entitlement(t, o)], Oracle) <= held[t][This]

\* After a user redeemed a token, that user's tokens of this ID never decrease:
\* they cannot be handed to somebody who would redeem them again, not even by
\* an operator or within a batch (BaseLock.sol:231).
RedeemedTokensStay ==
  [][\A u \in Account, c \in TokenId :
       userUsedRedeemMap[u][c] => balances'[c][u] >= balances[c][u]]_bidVars

\* The documented meaning of the map (BaseLock.sol:93): what was withdrawn
\* in the first round, from which the second one is shared out.
FirstRoundCounted ==
  \A o \in Oracle :
    usersWithdrewInFirstRound[o]
      = SumOver([t \in Collateral |-> paid[t][o]["first"]], Collateral)

=============================================================================
