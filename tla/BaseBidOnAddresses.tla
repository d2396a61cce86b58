------------------------- MODULE BaseBidOnAddresses -------------------------
(***************************************************************************)
(* assets/eip-3267/contracts/BaseBidOnAddresses.sol: the owner of an       *)
(* oracle reports a score, the numerator, for each condition and then      *)
(* declares the oracle finished; a condition's share of the reward is its  *)
(* numerator over the sum of all numerators.                               *)
(***************************************************************************)
EXTENDS BaseLock, Sums

CONSTANTS
  Numerators,    \* bound: the scores that oracles report
  ReportedIds    \* bound: the IDs that are scored and redeemed: any uint256 can be

ASSUME NumeratorsAssumption == Numerators \subseteq Uint
ASSUME ReportedAssumption == ReportedIds \subseteq TokenId

VARIABLES
  oracleFinishedMap,    \* per oracle
  payoutNumeratorsMap,  \* per oracle and condition
  payoutDenominatorMap  \* per oracle

resultVars == <<oracleFinishedMap, payoutNumeratorsMap, payoutDenominatorMap>>
bidVars == <<lockVars, resultVars>>

BidInit ==
  /\ LockInit
  /\ oracleFinishedMap = [o \in Oracle |-> FALSE]
  /\ payoutNumeratorsMap = [o \in Oracle |-> [c \in TokenId |-> 0]]
  /\ payoutDenominatorMap = [o \in Oracle |-> 0]

-----------------------------------------------------------------------------

\* Mutated form: a finished oracle still accepts reports.
MayReportLate(sender, o) == IsOracle(sender, o)

\* The modifiers _isOracle and _oracleNotFinished.
MayReport(sender, o) == IsOracle(sender, o) /\ ~oracleFinishedMap[o]

\* _updateNumerator: first .add, then .sub, both checked by SafeMath.
CanUpdate(denominator, numerators, numerator, c) ==
  /\ denominator + numerator <= MaxUint
  /\ denominator + numerator >= numerators[c]

UpdatedDenominator(denominator, numerators, numerator, c) ==
  denominator + numerator - numerators[c]

ReportNumerator(sender, o, c, numerator) ==
  /\ MayReport(sender, o)
  /\ CanUpdate(payoutDenominatorMap[o], payoutNumeratorsMap[o], numerator, c)
  /\ payoutDenominatorMap' =
       [payoutDenominatorMap EXCEPT
          ![o] = UpdatedDenominator(@, payoutNumeratorsMap[o], numerator, c)]
  /\ payoutNumeratorsMap' = [payoutNumeratorsMap EXCEPT ![o][c] = numerator]
  /\ UNCHANGED <<lockVars, oracleFinishedMap>>

\* Mutated form: the second item subtracts what was stored before the first.
ReportNumeratorsBatchStale(sender, o, c1, numerator1, c2, numerator2) ==
  LET denominator == payoutDenominatorMap[o]
      numerators == payoutNumeratorsMap[o]
      denominator1 == UpdatedDenominator(denominator, numerators, numerator1, c1)
      numerators1 == [numerators EXCEPT ![c1] = numerator1]
  IN /\ MayReport(sender, o)
     /\ CanUpdate(denominator, numerators, numerator1, c1)
     /\ CanUpdate(denominator1, numerators, numerator2, c2)
     /\ payoutDenominatorMap' =
          [payoutDenominatorMap EXCEPT
             ![o] = UpdatedDenominator(denominator1, numerators, numerator2, c2)]
     /\ payoutNumeratorsMap' =
          [payoutNumeratorsMap EXCEPT ![o] = [numerators1 EXCEPT ![c2] = numerator2]]
     /\ UNCHANGED <<lockVars, oracleFinishedMap>>

\* Batches of two, which may name the same condition twice.
ReportNumeratorsBatch(sender, o, c1, numerator1, c2, numerator2) ==
  LET denominator == payoutDenominatorMap[o]
      numerators == payoutNumeratorsMap[o]
      denominator1 == UpdatedDenominator(denominator, numerators, numerator1, c1)
      numerators1 == [numerators EXCEPT ![c1] = numerator1]
  IN /\ MayReport(sender, o)
     /\ CanUpdate(denominator, numerators, numerator1, c1)
     /\ CanUpdate(denominator1, numerators1, numerator2, c2)
     /\ payoutDenominatorMap' =
          [payoutDenominatorMap EXCEPT
             ![o] = UpdatedDenominator(denominator1, numerators1, numerator2, c2)]
     /\ payoutNumeratorsMap' =
          [payoutNumeratorsMap EXCEPT ![o] = [numerators1 EXCEPT ![c2] = numerator2]]
     /\ UNCHANGED <<lockVars, oracleFinishedMap>>

FinishOracle(sender, o) ==
  /\ IsOracle(sender, o)
  /\ oracleFinishedMap' = [oracleFinishedMap EXCEPT ![o] = TRUE]
  /\ UNCHANGED <<lockVars, payoutNumeratorsMap, payoutDenominatorMap>>

\* _calcRewardShare, for a denominator that is not 0.
RewardShare(o, c) == Divu(payoutNumeratorsMap[o][c], payoutDenominatorMap[o])

Withdraw(sender, t, o, c) ==
  /\ payoutDenominatorMap[o] # 0
  /\ WithdrawCollateral(sender, t, o, c, oracleFinishedMap[o], RewardShare(o, c))
  /\ UNCHANGED resultVars

BidNext ==
  \/ LockNext /\ UNCHANGED resultVars
  \/ \E sender \in Users, o \in Oracle :
       \/ \E c \in ReportedIds, n \in Numerators : ReportNumerator(sender, o, c, n)
       \/ \E c1, c2 \in ReportedIds, n1, n2 \in Numerators :
            ReportNumeratorsBatch(sender, o, c1, n1, c2, n2)
       \/ FinishOracle(sender, o)
       \/ \E t \in Collateral, c \in ReportedIds : Withdraw(sender, t, o, c)

-----------------------------------------------------------------------------
(***************************************************************************)
(* Properties of every market, whatever contract completes it              *)
(***************************************************************************)

\* The types of what every market keeps: parts of the type invariants.
TokenTypeOK ==
  /\ balances \in [TokenId -> [Account -> Uint]]
  /\ totalBalances \in [TokenId -> Uint]
  /\ operatorApprovals \in [Account -> [Account -> BOOLEAN]]

LockTypeOK ==
  /\ maxOracleId \in Oracle
  /\ oracleOwnersMap \in [Oracle -> Account]
  /\ gracePeriodEnds \in [Oracle -> Nat]
  /\ userUsedRedeemMap \in [Account -> [TokenId -> BOOLEAN]]
  /\ lastCollateralBalanceFirstRoundMap \in [CounterIds -> [Account -> Uint]]
  /\ lastCollateralBalanceSecondRoundMap \in [CounterIds -> [Account -> Uint]]
  /\ usersWithdrewInFirstRound \in [Oracle -> Uint]
  /\ blockTimestamp \in 1 .. MaxTime

CollateralTypeOK ==
  /\ held \in [Collateral -> [Account -> Nat]]
  /\ paid \in [Collateral -> [Oracle -> [{"first", "second"} -> Nat]]]

ResultTypeOK ==
  /\ oracleFinishedMap \in [Oracle -> BOOLEAN]
  /\ payoutNumeratorsMap \in [Oracle -> [TokenId -> Uint]]
  /\ payoutDenominatorMap \in [Oracle -> Uint]

\* A step leaves the result of every finished oracle as it is, and leaves it
\* finished.
ResultsFrozen ==
  \A o \in Oracle : oracleFinishedMap[o] =>
    /\ oracleFinishedMap'[o]
    /\ payoutNumeratorsMap'[o] = payoutNumeratorsMap[o]
    /\ payoutDenominatorMap'[o] = payoutDenominatorMap[o]

\* The result of an oracle that has finished never changes: neither a late
\* report nor a new owner of the oracle can alter what withdrawals are
\* computed from (the comments on payoutNumerator and payoutDenominator).
FinishedResultsFrozen == [][ResultsFrozen]_bidVars

\* The unchecked subtraction totalSupply - last in _collateralOwingBase never
\* wraps: no user was paid up to a total that the counter has not reached.
NoCounterWrap ==
  \A t \in Collateral, o \in Oracle, u \in Account :
    LET id == perOracleId[t][o]
    IN /\ lastCollateralBalanceFirstRoundMap[id][u] <= totalBalances[id]
       /\ lastCollateralBalanceSecondRoundMap[id][u] <= totalBalances[id]

\* What a collateral's donations to single oracles count adds up to what its
\* counter over all oracles counts.
PerOracleSum ==
  \A t \in Collateral :
    totalBalances[donatedId[t]]
      = SumOver([o \in Oracle |-> totalBalances[perOracleId[t][o]]], Oracle)

\* The denominator is the sum of the numerators last reported, also after a
\* batch that names a condition twice.
DenominatorIsSum ==
  \A o \in Oracle :
    payoutDenominatorMap[o] = SumOver(payoutNumeratorsMap[o], TokenId)

\* What is owed now to user u as a holder of token c, in the first round.
Owing(t, o, c, u) ==
  IF totalBalances[c] = 0 \/ payoutDenominatorMap[o] = 0 THEN 0
  ELSE CollateralOwing(t, o, c, u, TRUE, RewardShare(o, c))

=============================================================================
