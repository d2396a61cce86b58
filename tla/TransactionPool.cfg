SPECIFICATION Spec
CHECK_DEADLOCK FALSE
CONSTANTS
  None = None
  Empty = Empty
  a1 = a1
  a2 = a2
  data1 = data1
  data2 = data2
  access1 = access1
  access2 = access2
  hashes1 = hashes1
  hashes2 = hashes2
  Addresses <- MCAddresses
  Calldata <- MCCalldata
  AccessLists <- MCAccessLists
  HashLists <- MCHashLists
  MaxByte = 9
  MaxUint64 = 63
  MaxUint256 = 255
  Secp256k1N = 31
  RlpInputs <- MCRlpInputs
  SszInputs <- MCSszInputs
  MaxTransactions = 2
INVARIANTS
  TypeOK
  ConversionLossless
  SigHashBindsPayload
  TxHashIdentifies
  IndexedFromRlp
  AuthHashBindsPayload
