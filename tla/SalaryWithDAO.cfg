SPECIFICATION Spec
CHECK_DEADLOCK FALSE
SYMMETRY Symmetry
CONSTANTS
  u1 = u1
  u2 = u2
  Users <- MCUsers
  This = This
  Null = Null
  NonReceivers = {}
  Collateral = {}
  CounterIds = {}
  donatedId <- NoCollateral
  perOracleId <- NoCollateral
  MaxCondition = 2
  MaxOracle = 0
  MaxUint = 2
  FixedOne = 1
  CollateralSupply = 0
  Amounts = {1}
  Customers <- MCAccounts
  Beneficiaries <- MCReceivers
  Operators = {}
  TradedIds = {1}
  MaxTime = 3
  GraceTimes = {}
  Numerators = {}
  ReportedIds = {}
  Reentrant <- MCUsers
  MaxCalls = 2
  DAOPlugins = {default, dao}
  DefaultDAO = default
INVARIANTS
  TypeOK
  ChainSupplyBounded
