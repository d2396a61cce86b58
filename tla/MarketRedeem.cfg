SPECIFICATION Spec
CHECK_DEADLOCK FALSE
SYMMETRY Symmetry
CONSTANTS
  u1 = u1
  u2 = u2
  t1 = t1
  Users <- MCUsers
  This = This
  Null = Null
  NonReceivers = {}
  Collateral <- MCCollateral
  CounterIds <- MCCounterIds
  donatedId <- MCDonatedId
  perOracleId <- MCPerOracleId
  MaxCondition = 1
  MaxOracle = 1
  MaxUint = 2
  FixedOne = 4
  CollateralSupply = 1
  Amounts = {1}
  Customers <- MCReceivers
  Beneficiaries <- MCUsers
  Operators <- MCUsers
  TradedIds = {1}
  MaxTime = 2
  GraceTimes = {1}
  Numerators = {0, 1}
  ReportedIds = {1, 4}
  InitialCustomerBalance = 2
INVARIANTS
  TypeOK
  NoCounterWrap
  TotalsAreSums
  DenominatorIsSum
PROPERTY RedeemedTokensStay
