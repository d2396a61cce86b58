------------------------------ MODULE BaseLock ------------------------------
(***************************************************************************)
(* assets/eip-3267/contracts/BaseLock.sol: collateral is donated to the    *)
(* market of an oracle and withdrawn by the holders of conditional tokens, *)
(* in proportion to the oracle's result, once the oracle has finished.     *)
(*                                                                         *)
(* The contract is abstract.  What its virtual functions return is passed  *)
(* to an action as an argument by the module of the contract that          *)
(* overrides them.  The collateral contract is external: a correct         *)
(* ERC-1155 contract in which every user lets this contract spend.         *)
(***************************************************************************)
EXTENDS ERC1155WithTotals

CONSTANTS
  Collateral,        \* the collateral tokens: pairs of contract and token ID
  MaxOracle,         \* bound: the oracles created
  donatedId,         \* donatedId[t]: _collateralDonatedTokenId
  perOracleId,       \* perOracleId[t][o]: _collateralDonatedPerOracleTokenId
  FixedOne,          \* 1 as a 64.64 fixed-point number, 2^64 in the code
  CollateralSupply,  \* bound: what each user owns of each collateral
  Amounts,           \* bound: the amounts of transfers and donations
  Customers,         \* bound: the accounts that are registered
  Beneficiaries,     \* bound: the accounts that donations are assigned to
  Operators,         \* bound: the users that are made operators
  TradedIds,         \* bound: the tokens that are transferred
  MaxTime,           \* bound: the last block timestamp
  GraceTimes         \* bound: the ends of grace periods that owners choose

Oracle == 0 .. MaxOracle

\* keccak256 is taken to be injective and never to give a uint64.
ASSUME LockAssumption ==
  /\ MaxOracle \in Nat
  /\ donatedId \in [Collateral -> CounterIds]
  /\ perOracleId \in [Collateral -> [Oracle -> CounterIds]]
  /\ \A t, u \in Collateral : donatedId[t] = donatedId[u] => t = u
  /\ \A t, u \in Collateral, o, p \in Oracle :
       perOracleId[t][o] = perOracleId[u][p] => t = u /\ o = p
  /\ \A t, u \in Collateral, o \in Oracle : donatedId[t] # perOracleId[u][o]
  /\ FixedOne \in Nat \ {0}
  /\ CollateralSupply \in Nat
  /\ Amounts \subseteq Nat
  /\ Customers \subseteq Account
  /\ Beneficiaries \subseteq Users \union {This}
  /\ Operators \subseteq Users
  /\ TradedIds \subseteq TokenId
  /\ MaxTime \in Nat \ {0}
  /\ GraceTimes \subseteq Nat

VARIABLES
  maxOracleId,
  maxConditionId,
  oracleOwnersMap,       \* per oracle
  gracePeriodEnds,       \* per oracle
  userUsedRedeemMap,     \* per user and condition: its tokens are locked
  lastCollateralBalanceFirstRoundMap,   \* per counter and user
  lastCollateralBalanceSecondRoundMap,  \* per counter and user
  usersWithdrewInFirstRound,            \* per oracle
  conditionOwners        \* per condition

VARIABLES
  blockTimestamp,        \* block.timestamp
  held,                  \* held[t][a]: balances in the collateral contract
  paid                   \* paid[t][o][round]: sums of CollateralWithdrawn

roundVars == <<lastCollateralBalanceFirstRoundMap,
               lastCollateralBalanceSecondRoundMap, usersWithdrewInFirstRound>>
oracleVars == <<maxOracleId, oracleOwnersMap, gracePeriodEnds>>
conditionVars == <<maxConditionId, conditionOwners>>
collateralVars == <<held, paid>>
lockVars == <<tokenVars, oracleVars, conditionVars, userUsedRedeemMap, roundVars,
              blockTimestamp, collateralVars>>

LockInit ==
  /\ TokenInit
  /\ maxOracleId = 0
  /\ maxConditionId = 0
  /\ oracleOwnersMap = [o \in Oracle |-> Null]
  /\ gracePeriodEnds = [o \in Oracle |-> 0]
  /\ userUsedRedeemMap = [a \in Account |-> [c \in TokenId |-> FALSE]]
  /\ lastCollateralBalanceFirstRoundMap = [id \in CounterIds |-> [a \in Account |-> 0]]
  /\ lastCollateralBalanceSecondRoundMap = [id \in CounterIds |-> [a \in Account |-> 0]]
  /\ usersWithdrewInFirstRound = [o \in Oracle |-> 0]
  /\ conditionOwners = [c \in Condition |-> Null]
  /\ blockTimestamp = 1
  /\ held = [t \in Collateral |->
               [a \in Account |-> IF a \in Users THEN CollateralSupply ELSE 0]]
  /\ paid = [t \in Collateral |->
               [o \in Oracle |-> [round \in {"first", "second"} |-> 0]]]

-----------------------------------------------------------------------------
(***************************************************************************)
(* Oracles                                                                 *)
(***************************************************************************)

IsOracle(sender, o) == oracleOwnersMap[o] = sender

\* _createOracle; its external callers are in the derived contracts.
CreateOracle(sender) ==
  /\ maxOracleId < MaxOracle
  /\ maxOracleId' = maxOracleId + 1
  /\ oracleOwnersMap' = [oracleOwnersMap EXCEPT ![maxOracleId + 1] = sender]
  /\ UNCHANGED <<tokenVars, gracePeriodEnds, conditionVars, userUsedRedeemMap,
                 roundVars, blockTimestamp, collateralVars>>

ChangeOracleOwner(sender, newOwner, o) ==
  /\ IsOracle(sender, o)
  /\ oracleOwnersMap' = [oracleOwnersMap EXCEPT ![o] = newOwner]
  /\ UNCHANGED <<tokenVars, maxOracleId, gracePeriodEnds, conditionVars,
                 userUsedRedeemMap, roundVars, blockTimestamp, collateralVars>>

UpdateGracePeriodEnds(sender, o, time) ==
  /\ IsOracle(sender, o)
  /\ gracePeriodEnds' = [gracePeriodEnds EXCEPT ![o] = time]
  /\ UNCHANGED <<tokenVars, maxOracleId, oracleOwnersMap, conditionVars,
                 userUsedRedeemMap, roundVars, blockTimestamp, collateralVars>>

IsInFirstRound(o) == blockTimestamp <= gracePeriodEnds[o]

-----------------------------------------------------------------------------
(***************************************************************************)
(* Donations                                                               *)
(***************************************************************************)

\* Mutated form: the counter over all oracles is not minted.
DonateOneCounter(t, o, amount, from, to) ==
  /\ CanMint(to, perOracleId[t][o], amount)
  /\ CanMint(to, donatedId[t], amount)
  /\ amount <= held[t][from]
  /\ balances' = MintedBalances(balances, to, perOracleId[t][o], amount)
  /\ totalBalances' = MintedTotals(totalBalances, perOracleId[t][o], amount)
  /\ held' = MovedBalances(held, from, This, t, amount)
  /\ UNCHANGED <<operatorApprovals, oracleVars, conditionVars, userUsedRedeemMap,
                 roundVars, blockTimestamp, paid>>

\* Both counters are minted to `to`, then the collateral is taken from `from`.
\* The collateral contract sees this contract as the caller.
Donate(t, o, amount, from, to) ==
  /\ CanMint(to, perOracleId[t][o], amount)
  /\ CanMint(to, donatedId[t], amount)
  /\ amount <= held[t][from]
  /\ balances' = MintedBalances(
                   MintedBalances(balances, to, perOracleId[t][o], amount),
                   to, donatedId[t], amount)
  /\ totalBalances' = MintedTotals(
                        MintedTotals(totalBalances, perOracleId[t][o], amount),
                        donatedId[t], amount)
  /\ held' = MovedBalances(held, from, This, t, amount)
  /\ UNCHANGED <<operatorApprovals, oracleVars, conditionVars, userUsedRedeemMap,
                 roundVars, blockTimestamp, paid>>

\* gatherDeFiProfit: the share of the oracle in what the contract holds above
\* the donations assigned to the contract itself.
GatherDeFiProfit(t, o) ==
  LET donated == balances[donatedId[t]][This]
      difference == held[t][This] - donated
      amount == ((difference * balances[perOracleId[t][o]][This]) % (MaxUint + 1))
                  \div donated
  IN /\ difference >= 0
     /\ donated # 0
     /\ Donate(t, o, amount, This, This)

\* Collateral sent to the contract without donate(): a DeFi profit.
ReceiveCollateral(t, from, amount) ==
  /\ amount <= held[t][from]
  /\ held' = MovedBalances(held, from, This, t, amount)
  /\ UNCHANGED <<tokenVars, oracleVars, conditionVars, userUsedRedeemMap,
                 roundVars, blockTimestamp, paid>>

-----------------------------------------------------------------------------
(***************************************************************************)
(* Withdrawals                                                             *)
(***************************************************************************)

\* ABDKMath64x64: divu and mulu round down; divu reverts if y = 0.  All the
\* quotients of the contracts are at most 1, far from int128's bounds.
Divu(x, y) == (x * FixedOne) \div y
Mul(x, y) == (x * y) \div FixedOne
Mulu(x, y) == (x * y) \div FixedOne

\* _collateralOwingBase: what it divides by, the donations it has not yet
\* paid to the user (an unchecked subtraction), and the amount it owes.
OwingDenominator(o, c, inFirstRound) ==
  IF inFirstRound THEN totalBalances[c] ELSE usersWithdrewInFirstRound[o]

LastBalance(id, user, inFirstRound) ==
  IF inFirstRound THEN lastCollateralBalanceFirstRoundMap[id][user]
  ELSE lastCollateralBalanceSecondRoundMap[id][user]

\* Mutated form: every withdrawal is paid from all donations.
NewDividendsFromAll(t, o, user, inFirstRound) == totalBalances[perOracleId[t][o]]

NewDividends(t, o, user, inFirstRound) ==
  (totalBalances[perOracleId[t][o]]
     - LastBalance(perOracleId[t][o], user, inFirstRound)) % (MaxUint + 1)

CollateralOwing(t, o, c, user, inFirstRound, rewardShare) ==
  LET oracleShare == Divu(balances[c][user], OwingDenominator(o, c, inFirstRound))
  IN Mulu(Mul(oracleShare, rewardShare), NewDividends(t, o, user, inFirstRound))

\* Mutated form: the total is added to the mark instead of replacing it.
RecordedAdding(last, id, user, amount) ==
  IF amount = 0 THEN last ELSE [last EXCEPT ![id][user] = @ + totalBalances[id]]

Recorded(last, id, user, amount) ==
  IF amount = 0 THEN last ELSE [last EXCEPT ![id][user] = totalBalances[id]]

\* The caller passes what isOracleFinished and _calcRewardShare return.
WithdrawCollateral(sender, t, o, c, isFinished, rewardShare) ==
  LET inFirstRound == IsInFirstRound(o)
      id == perOracleId[t][o]
      owing == CollateralOwing(t, o, c, sender, inFirstRound, rewardShare)
      round == IF inFirstRound THEN "first" ELSE "second"
  IN /\ isFinished
     /\ OwingDenominator(o, c, inFirstRound) # 0
     /\ owing <= held[t][This]
     /\ Accepts(sender)
     /\ userUsedRedeemMap' = [userUsedRedeemMap EXCEPT ![sender][c] = TRUE]
     /\ IF inFirstRound
        THEN /\ lastCollateralBalanceFirstRoundMap' =
                  Recorded(lastCollateralBalanceFirstRoundMap, id, sender, owing)
             /\ UNCHANGED <<lastCollateralBalanceSecondRoundMap,
                            usersWithdrewInFirstRound>>
        ELSE /\ lastCollateralBalanceSecondRoundMap' =
                  Recorded(lastCollateralBalanceSecondRoundMap, id, sender, owing)
             /\ usersWithdrewInFirstRound[o] + owing <= MaxUint
             /\ usersWithdrewInFirstRound' =
                  [usersWithdrewInFirstRound EXCEPT ![o] = @ + owing]
             /\ UNCHANGED lastCollateralBalanceFirstRoundMap
     /\ held' = MovedBalances(held, This, sender, t, owing)
     /\ paid' = [paid EXCEPT ![t][o][round] = @ + owing]
     /\ UNCHANGED <<tokenVars, oracleVars, conditionVars, blockTimestamp>>

-----------------------------------------------------------------------------
(***************************************************************************)
(* Transfers.  A transfer of one token, safeTransferFrom, and of a batch   *)
(* differ only in the number of items.                                     *)
(***************************************************************************)

Items == [id : TradedIds, value : Amounts]

\* _checkTransferAllowed
TransferAllowed(id, from) == ~userUsedRedeemMap[from][id]

\* Mutated form: the locks of the caller are checked, not those of the owner.
CanTransferCallerLocks(sender, from, to, items) ==
  /\ \A item \in items : TransferAllowed(item.id, sender)
  /\ to # Null
  /\ MayOperate(sender, from)
  /\ Accepts(to)

\* All items are checked against the locks before the first is moved.
CanTransfer(sender, from, to, items) ==
  /\ \A item \in items : TransferAllowed(item.id, from)
  /\ to # Null
  /\ MayOperate(sender, from)
  /\ Accepts(to)

\* _doTransfer as BaseLock defines it.
SafeTransferFrom(sender, from, to, item) ==
  /\ CanTransfer(sender, from, to, {item})
  /\ CanMove(balances, from, to, item.id, item.value)
  /\ balances' = MovedBalances(balances, from, to, item.id, item.value)
  /\ UNCHANGED <<totalBalances, operatorApprovals, oracleVars, conditionVars,
                 userUsedRedeemMap, roundVars, blockTimestamp, collateralVars>>

\* Batches of two: the second item finds what the first one left.
SafeBatchTransferFrom(sender, from, to, item1, item2) ==
  LET moved == MovedBalances(balances, from, to, item1.id, item1.value)
  IN /\ CanTransfer(sender, from, to, {item1, item2})
     /\ CanMove(balances, from, to, item1.id, item1.value)
     /\ CanMove(moved, from, to, item2.id, item2.value)
     /\ balances' = MovedBalances(moved, from, to, item2.id, item2.value)
     /\ UNCHANGED <<totalBalances, operatorApprovals, oracleVars, conditionVars,
                    userUsedRedeemMap, roundVars, blockTimestamp, collateralVars>>

ApproveAll(sender, operator, approved) ==
  /\ SetApprovalForAll(sender, operator, approved)
  /\ UNCHANGED <<oracleVars, conditionVars, userUsedRedeemMap, roundVars,
                 blockTimestamp, collateralVars>>

\* A block with a later timestamp.
Tick ==
  /\ blockTimestamp < MaxTime
  /\ blockTimestamp' = blockTimestamp + 1
  /\ UNCHANGED <<tokenVars, oracleVars, conditionVars, userUsedRedeemMap, roundVars,
                 collateralVars>>

\* The public functions of BaseLock but for those it leaves to be overridden:
\* transfers and withdrawals.
LockNext ==
  \/ \E sender \in Users :
       \/ CreateOracle(sender)
       \/ \E operator \in Operators, approved \in BOOLEAN :
            ApproveAll(sender, operator, approved)
       \/ \E o \in Oracle :
            \/ \E owner \in Users : ChangeOracleOwner(sender, owner, o)
            \/ \E time \in GraceTimes : UpdateGracePeriodEnds(sender, o, time)
  \/ \E t \in Collateral, amount \in Amounts :
       \/ \E o \in Oracle, from \in Users \union {This}, to \in Beneficiaries :
            Donate(t, o, amount, from, to)
       \/ \E from \in Users : ReceiveCollateral(t, from, amount)
  \/ \E t \in Collateral, o \in Oracle : GatherDeFiProfit(t, o)
  \/ Tick

=============================================================================
