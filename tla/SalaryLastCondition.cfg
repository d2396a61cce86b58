SPECIFICATION Spec
CHECK_DEADLOCK FALSE
SYMMETRY Symmetry
CONSTANTS
  u1 = u1
  u2 = u2
  Users <- MCUsers
  This = This
  Null = Null
  NonReceivers = {}
  Collateral = {}
  CounterIds = {}
  donatedId <- NoCollateral
  perOracleId <- NoCollateral
  MaxCondition = 3
  MaxOracle = 0
  MaxUint = 3
  FixedOne = 1
  CollateralSupply = 0
  Amounts = {1}
  Customers <- MCAccounts
  Beneficiaries <- MCReceivers
  Operators <- MCUsers
  TradedIds = {1, 2}
  MaxTime = 3
  GraceTimes = {}
  Numerators = {}
  ReportedIds = {}
  Reentrant = {}
  MaxCalls = 0
INVARIANT FirstToLastIsLast
