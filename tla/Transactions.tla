---------------------------- MODULE Transactions ----------------------------
(***************************************************************************)
(* Transactions in the RLP form and in the SSZ form of EIP-6404, and the   *)
(* conversions between them: assets/eip-6404/rlp_types.py, ssz_types.py,   *)
(* convert.py and tx_hashes.py.                                            *)
(*                                                                         *)
(* An RLP transaction is a record of its fields and of the number of its   *)
(* type.  The SSZ Transaction has one payload for all types, in which what *)
(* a type does not have is None.  A profile of it is the same record that  *)
(* has passed FromBase.  Calldata, addresses, access lists and versioned   *)
(* hashes are opaque values; a packed signature is the triple it packs.    *)
(***************************************************************************)
EXTENDS Integers, Sequences

CONSTANTS
  None,          \* the Optional without a value
  Empty,         \* the empty byte string, which is no address
  Addresses, Calldata, AccessLists, HashLists,
  MaxByte,       \* the greatest number of a byte
  MaxUint64,     \* the greatest uint64
  MaxUint256,    \* the greatest uint256
  Secp256k1N     \* the order of the curve

LEGACY_TX_TYPE == 0
ACCESS_LIST_TX_TYPE == 1
FEE_MARKET_TX_TYPE == 2
BLOB_TX_TYPE == 3
SET_CODE_TX_TYPE == 4
SET_CODE_TX_MAGIC == 5

\* A byte holds the types and the magic of authorizations, and a uint64 the v of
\* a legacy transaction without a chain id.
ASSUME WidthAssumption ==
  /\ MaxByte \in Nat /\ MaxUint64 \in Nat /\ MaxUint256 \in Nat /\ Secp256k1N \in Nat
  /\ SET_CODE_TX_MAGIC <= MaxByte /\ 28 <= MaxUint64

ASSUME OpaqueAssumption ==
  /\ None \notin Int \cup Addresses \cup Calldata \cup AccessLists \cup HashLists
  /\ Empty \notin Addresses

Byte == 0 .. MaxByte
Uint64 == 0 .. MaxUint64
Uint256 == 0 .. MaxUint256

----------------------------------------------------------------------------
(***************************************************************************)
(* rlp_types.py: what an RLP decoder returns.  Its numbers have any size.  *)
(***************************************************************************)
LegacyRlpTransaction ==
  [type : {LEGACY_TX_TYPE}, nonce : Nat, gas_price : Nat, gas : Nat,
   to : Addresses \cup {Empty}, value : Nat, data : Calldata, v : Nat, r : Nat, s : Nat]

AccessListRlpTransaction ==
  [type : {ACCESS_LIST_TX_TYPE}, chain_id : Nat, nonce : Nat, gas_price : Nat, gas : Nat,
   to : Addresses \cup {Empty}, value : Nat, data : Calldata, access_list : AccessLists,
   y_parity : Nat, r : Nat, s : Nat]

FeeMarketRlpTransaction ==
  [type : {FEE_MARKET_TX_TYPE}, chain_id : Nat, nonce : Nat,
   max_priority_fee_per_gas : Nat, max_fee_per_gas : Nat, gas : Nat,
   to : Addresses \cup {Empty}, value : Nat, data : Calldata, access_list : AccessLists,
   y_parity : Nat, r : Nat, s : Nat]

BlobRlpTransaction ==
  [type : {BLOB_TX_TYPE}, chain_id : Nat, nonce : Nat,
   max_priority_fee_per_gas : Nat, max_fee_per_gas : Nat, gas : Nat,
   to : Addresses, value : Nat, data : Calldata, access_list : AccessLists,
   max_fee_per_blob_gas : Nat, blob_versioned_hashes : HashLists,
   y_parity : Nat, r : Nat, s : Nat]

SetCodeRlpAuthorization ==
  [chain_id : Nat, address : Addresses, nonce : Nat, y_parity : Nat, r : Nat, s : Nat]

SetCodeRlpTransaction ==
  [type : {SET_CODE_TX_TYPE}, chain_id : Nat, nonce : Nat,
   max_priority_fee_per_gas : Nat, max_fee_per_gas : Nat, gas : Nat,
   to : Addresses, value : Nat, data : Calldata, access_list : AccessLists,
   authorization_list : Seq(SetCodeRlpAuthorization),
   y_parity : Nat, r : Nat, s : Nat]

RlpTransaction ==
  LegacyRlpTransaction \cup AccessListRlpTransaction \cup FeeMarketRlpTransaction
    \cup BlobRlpTransaction \cup SetCodeRlpTransaction

\* encode leaves the fields apart, and keccak has no collisions: a hash is
\* what was hashed, the byte before the list (None if there is none) and the
\* list.
Keccak(prefix, list) == [prefix |-> prefix, list |-> list]

\* The list without the fields
Without(tx, fields) == [f \in DOMAIN tx \ (fields \cup {"type"}) |-> tx[f]]

HasChainId(v) == v \notin {27, 28}
ChainIdOf(v) == (v - 35) \div 2

\* Encoding a negative number raises.
LegacyCanHash(tx) == HasChainId(tx.v) => ChainIdOf(tx.v) \in Nat

\* Mutated form: the hash of a transaction with a chain id leaves it out.
LegacySigHashBare(tx) == Keccak(None, Without(tx, {"v", "r", "s"}))

LegacySigHash(tx) ==
  Keccak(None, IF HasChainId(tx.v)
               THEN Without([tx EXCEPT !.v = ChainIdOf(tx.v), !.r = 0, !.s = 0], {})
               ELSE Without(tx, {"v", "r", "s"}))

AccessListSigHash(tx) == Keccak(1, Without(tx, {"y_parity", "r", "s"}))
FeeMarketSigHash(tx) == Keccak(2, Without(tx, {"y_parity", "r", "s"}))
BlobSigHash(tx) == Keccak(3, Without(tx, {"y_parity", "r", "s"}))
SetCodeSigHash(tx) == Keccak(4, Without(tx, {"y_parity", "r", "s"}))
SetCodeAuthHash(auth) == Keccak(5, Without(auth, {"y_parity", "r", "s"}))

RlpSigHash(tx) ==
  CASE tx.type = LEGACY_TX_TYPE -> LegacySigHash(tx)
    [] tx.type = ACCESS_LIST_TX_TYPE -> AccessListSigHash(tx)
    [] tx.type = FEE_MARKET_TX_TYPE -> FeeMarketSigHash(tx)
    [] tx.type = BLOB_TX_TYPE -> BlobSigHash(tx)
    [] tx.type = SET_CODE_TX_TYPE -> SetCodeSigHash(tx)

RlpTxHash(tx) == Keccak(IF tx.type = LEGACY_TX_TYPE THEN None ELSE tx.type, Without(tx, {}))

----------------------------------------------------------------------------
(***************************************************************************)
(* ssz_types.py: the SSZ types.                                            *)
(***************************************************************************)
Opt(S) == S \cup {None}

Secp256k1ExecutionSignature == [r : Uint256, s : Uint256, y_parity : Byte]

\* None when its field is absent
ExecutionSignature == Opt(Secp256k1ExecutionSignature)

FeesPerGas == [regular : Opt(Uint256), blob : Opt(Uint256)]

AuthorizationPayload ==
  [magic : Opt(Byte), chain_id : Opt(Uint64), address : Opt(Addresses), nonce : Opt(Uint64)]

Authorization == [payload : AuthorizationPayload, signature : ExecutionSignature]

TransactionPayload ==
  [type_ : Opt(Byte), chain_id : Opt(Uint64), nonce : Opt(Uint64),
   max_fees_per_gas : Opt(FeesPerGas), gas : Opt(Uint64), to : Opt(Addresses),
   value : Opt(Uint256), input_ : Opt(Calldata), access_list : Opt(AccessLists),
   max_priority_fees_per_gas : Opt(FeesPerGas), blob_versioned_hashes : Opt(HashLists),
   authorization_list : Opt(Seq(Authorization))]

Transaction == [payload : TransactionPayload, signature : ExecutionSignature]

ASSUME NoneAssumption ==
  None \notin Secp256k1ExecutionSignature \cup FeesPerGas \cup Seq(Authorization)

\* Mutated form: y_parity is not looked at.
ValidatesAnyParity(signature) ==
  /\ 0 < signature.r /\ signature.r < Secp256k1N
  /\ 0 < signature.s /\ signature.s <= Secp256k1N \div 2

\* secp256k1_validate
Validates(signature) ==
  /\ 0 < signature.r /\ signature.r < Secp256k1N
  /\ 0 < signature.s /\ signature.s <= Secp256k1N \div 2
  /\ signature.y_parity \in {0, 1}

\* Profiles of FeesPerGas
BasicFeesPerGas(fees) == fees # None /\ fees.regular # None /\ fees.blob = None
BlobFeesPerGas(fees) == fees # None /\ fees.regular # None /\ fees.blob # None

\* Profiles of TransactionPayload: what the fields are that they require, and
\* that they do not have
Has(p, fields) == \A f \in fields : p[f] # None
Lacks(p, fields) == \A f \in fields : p[f] = None

CommonFields == {"type_", "nonce", "gas", "value", "input_"}

RlpLegacyTransactionPayload(p) ==
  /\ Has(p, CommonFields)
  /\ BasicFeesPerGas(p.max_fees_per_gas)
  /\ Lacks(p, {"access_list", "max_priority_fees_per_gas", "blob_versioned_hashes",
               "authorization_list"})

RlpAccessListTransactionPayload(p) ==
  /\ Has(p, CommonFields \cup {"chain_id", "access_list"})
  /\ BasicFeesPerGas(p.max_fees_per_gas)
  /\ Lacks(p, {"max_priority_fees_per_gas", "blob_versioned_hashes", "authorization_list"})

RlpFeeMarketTransactionPayload(p) ==
  /\ Has(p, CommonFields \cup {"chain_id", "access_list"})
  /\ BasicFeesPerGas(p.max_fees_per_gas) /\ BasicFeesPerGas(p.max_priority_fees_per_gas)
  /\ Lacks(p, {"blob_versioned_hashes", "authorization_list"})

RlpBlobTransactionPayload(p) ==
  /\ Has(p, CommonFields \cup {"chain_id", "to", "access_list", "blob_versioned_hashes"})
  /\ BlobFeesPerGas(p.max_fees_per_gas) /\ BlobFeesPerGas(p.max_priority_fees_per_gas)
  /\ Lacks(p, {"authorization_list"})

RlpSetCodeAuthorizationPayload(p) == Has(p, {"magic", "address", "nonce"})

RlpSetCodeTransactionPayload(p) ==
  /\ Has(p, CommonFields \cup {"chain_id", "to", "access_list", "authorization_list"})
  /\ BasicFeesPerGas(p.max_fees_per_gas) /\ BasicFeesPerGas(p.max_priority_fees_per_gas)
  /\ Lacks(p, {"blob_versioned_hashes"})

\* from_base of the profile that the type names: it raises unless this holds.
FromBase(tx) ==
  /\ tx.signature # None
  /\ CASE tx.payload.type_ = LEGACY_TX_TYPE -> RlpLegacyTransactionPayload(tx.payload)
       [] tx.payload.type_ = ACCESS_LIST_TX_TYPE -> RlpAccessListTransactionPayload(tx.payload)
       [] tx.payload.type_ = FEE_MARKET_TX_TYPE -> RlpFeeMarketTransactionPayload(tx.payload)
       [] tx.payload.type_ = BLOB_TX_TYPE -> RlpBlobTransactionPayload(tx.payload)
       [] tx.payload.type_ = SET_CODE_TX_TYPE -> RlpSetCodeTransactionPayload(tx.payload)

\* Mutated form: a chain id 0 is let through.
IdentifiesAnyChain(auth) ==
  auth.payload.magic = SET_CODE_TX_MAGIC

\* identify_authorization_profile does not raise.
IdentifiesAuthorization(auth) ==
  /\ auth.payload.magic = SET_CODE_TX_MAGIC
  /\ auth.payload.chain_id # 0

Authorizations(tx) ==
  IF tx.payload.authorization_list = None THEN {}
  ELSE {tx.payload.authorization_list[k] : k \in DOMAIN tx.payload.authorization_list}

\* Mutated form: the blob priority fee is not looked at.
IdentifiesAnyFee(tx) ==
  \/ tx.payload.type_ \in {LEGACY_TX_TYPE, ACCESS_LIST_TX_TYPE, FEE_MARKET_TX_TYPE,
                           BLOB_TX_TYPE}
  \/ /\ tx.payload.type_ = SET_CODE_TX_TYPE
     /\ \A auth \in Authorizations(tx) :
          IdentifiesAuthorization(auth) /\ RlpSetCodeAuthorizationPayload(auth.payload)
            /\ auth.signature # None

\* identify_transaction_profile does not raise; the profile is the type's.
IdentifiesTransaction(tx) ==
  \/ tx.payload.type_ \in {LEGACY_TX_TYPE, ACCESS_LIST_TX_TYPE, FEE_MARKET_TX_TYPE}
  \/ /\ tx.payload.type_ = BLOB_TX_TYPE
     /\ tx.payload.max_priority_fees_per_gas # None
     /\ tx.payload.max_priority_fees_per_gas.blob = 0
  \/ /\ tx.payload.type_ = SET_CODE_TX_TYPE
     /\ \A auth \in Authorizations(tx) :
          /\ IdentifiesAuthorization(auth)
          /\ RlpSetCodeAuthorizationPayload(auth.payload) /\ auth.signature # None

----------------------------------------------------------------------------
(***************************************************************************)
(* convert.py: upgrade_rlp_transaction_to_ssz.  A conversion raises when a *)
(* number is too wide for its SSZ type, or negative.                       *)
(***************************************************************************)
\* Mutated form: any parity is packed.
FitsSignatureAnyParity(r, s, y_parity) == r \in Uint256 /\ s \in Uint256

FitsSignature(r, s, y_parity) == r \in Uint256 /\ s \in Uint256 /\ y_parity \in Byte

FitsAuthorization(auth) ==
  /\ auth.chain_id \in Uint64 /\ auth.nonce \in Uint64
  /\ FitsSignature(auth.r, auth.s, auth.y_parity)

Fits(tx) ==
  /\ tx.nonce \in Uint64 /\ tx.gas \in Uint64 /\ tx.value \in Uint256
  /\ IF tx.type = LEGACY_TX_TYPE
     THEN /\ HasChainId(tx.v) => ChainIdOf(tx.v) \in Uint64
          /\ FitsSignature(tx.r, tx.s, 0)
     ELSE tx.chain_id \in Uint64 /\ FitsSignature(tx.r, tx.s, tx.y_parity)
  /\ IF tx.type \in {LEGACY_TX_TYPE, ACCESS_LIST_TX_TYPE} THEN tx.gas_price \in Uint256
     ELSE tx.max_fee_per_gas \in Uint256 /\ tx.max_priority_fee_per_gas \in Uint256
  /\ tx.type = BLOB_TX_TYPE => tx.max_fee_per_blob_gas \in Uint256
  /\ tx.type = SET_CODE_TX_TYPE =>
       \A k \in DOMAIN tx.authorization_list : FitsAuthorization(tx.authorization_list[k])

Secp256k1Pack(r, s, y_parity) == [r |-> r, s |-> s, y_parity |-> y_parity]

Fees(regular, blob) == [regular |-> regular, blob |-> blob]

SszTo(to) == IF to = Empty THEN None ELSE to

\* The fields that all five types have, and None in those that some lack
Common(tx) ==
  [type_ |-> tx.type, chain_id |-> None, nonce |-> tx.nonce, max_fees_per_gas |-> None,
   gas |-> tx.gas, to |-> None, value |-> tx.value, input_ |-> tx.data,
   access_list |-> None, max_priority_fees_per_gas |-> None,
   blob_versioned_hashes |-> None, authorization_list |-> None]

UpgradeAuthorization(auth) ==
  [payload |-> [magic |-> SET_CODE_TX_MAGIC,
                chain_id |-> IF auth.chain_id # 0 THEN auth.chain_id ELSE None,
                address |-> auth.address, nonce |-> auth.nonce],
   signature |-> Secp256k1Pack(auth.r, auth.s, auth.y_parity)]

UpgradeSetCode(tx) ==
  [payload |-> [Common(tx) EXCEPT
     !.chain_id = tx.chain_id, !.max_fees_per_gas = Fees(tx.max_fee_per_gas, None),
     !.to = tx.to, !.access_list = tx.access_list,
     !.max_priority_fees_per_gas = Fees(tx.max_priority_fee_per_gas, None),
     !.authorization_list = [k \in 1 .. Len(tx.authorization_list) |->
                               UpgradeAuthorization(tx.authorization_list[k])]],
   signature |-> Secp256k1Pack(tx.r, tx.s, tx.y_parity)]

UpgradeBlob(tx) ==
  [payload |-> [Common(tx) EXCEPT
     !.chain_id = tx.chain_id,
     !.max_fees_per_gas = Fees(tx.max_fee_per_gas, tx.max_fee_per_blob_gas),
     !.to = tx.to, !.access_list = tx.access_list,
     !.max_priority_fees_per_gas = Fees(tx.max_priority_fee_per_gas, 0),
     !.blob_versioned_hashes = tx.blob_versioned_hashes],
   signature |-> Secp256k1Pack(tx.r, tx.s, tx.y_parity)]

UpgradeFeeMarket(tx) ==
  [payload |-> [Common(tx) EXCEPT
     !.chain_id = tx.chain_id, !.max_fees_per_gas = Fees(tx.max_fee_per_gas, None),
     !.to = SszTo(tx.to), !.access_list = tx.access_list,
     !.max_priority_fees_per_gas = Fees(tx.max_priority_fee_per_gas, None)],
   signature |-> Secp256k1Pack(tx.r, tx.s, tx.y_parity)]

UpgradeAccessList(tx) ==
  [payload |-> [Common(tx) EXCEPT
     !.chain_id = tx.chain_id, !.max_fees_per_gas = Fees(tx.gas_price, None),
     !.to = SszTo(tx.to), !.access_list = tx.access_list],
   signature |-> Secp256k1Pack(tx.r, tx.s, tx.y_parity)]

\* Mutated form: v is taken for the parity of all legacy transactions alike.
UpgradeLegacyOdd(tx) ==
  [payload |-> [Common(tx) EXCEPT
     !.chain_id = IF HasChainId(tx.v) THEN ChainIdOf(tx.v) ELSE None,
     !.max_fees_per_gas = Fees(tx.gas_price, None), !.to = SszTo(tx.to)],
   signature |-> Secp256k1Pack(tx.r, tx.s, tx.v % 2)]

UpgradeLegacy(tx) ==
  [payload |-> [Common(tx) EXCEPT
     !.chain_id = IF HasChainId(tx.v) THEN ChainIdOf(tx.v) ELSE None,
     !.max_fees_per_gas = Fees(tx.gas_price, None), !.to = SszTo(tx.to)],
   signature |-> Secp256k1Pack(tx.r, tx.s, IF tx.v % 2 = 0 THEN 1 ELSE 0)]

Upgrade(tx) ==
  CASE tx.type = LEGACY_TX_TYPE -> UpgradeLegacy(tx)
    [] tx.type = ACCESS_LIST_TX_TYPE -> UpgradeAccessList(tx)
    [] tx.type = FEE_MARKET_TX_TYPE -> UpgradeFeeMarket(tx)
    [] tx.type = BLOB_TX_TYPE -> UpgradeBlob(tx)
    [] tx.type = SET_CODE_TX_TYPE -> UpgradeSetCode(tx)

----------------------------------------------------------------------------
(***************************************************************************)
(* tx_hashes.py: the RLP transaction that a profile came from, for its     *)
(* hashes.                                                                 *)
(***************************************************************************)
RlpTo(to) == IF to = None THEN Empty ELSE to

LegacyV(tx) ==
  IF tx.payload.chain_id # None THEN tx.signature.y_parity + 35 + tx.payload.chain_id * 2
                                ELSE tx.signature.y_parity + 27

\* The arithmetic is that of uint64, which raises instead of wrapping around.
CanRecover(tx) == tx.payload.type_ = LEGACY_TX_TYPE => LegacyV(tx) \in Uint64

RecoverLegacy(tx) ==
  LET p == tx.payload
  IN [type |-> LEGACY_TX_TYPE, nonce |-> p.nonce, gas_price |-> p.max_fees_per_gas.regular,
      gas |-> p.gas, to |-> RlpTo(p.to), value |-> p.value, data |-> p.input_,
      v |-> LegacyV(tx), r |-> tx.signature.r, s |-> tx.signature.s]

RecoverAccessList(tx) ==
  LET p == tx.payload
  IN [type |-> ACCESS_LIST_TX_TYPE, chain_id |-> p.chain_id, nonce |-> p.nonce,
      gas_price |-> p.max_fees_per_gas.regular, gas |-> p.gas, to |-> RlpTo(p.to),
      value |-> p.value, data |-> p.input_, access_list |-> p.access_list,
      y_parity |-> tx.signature.y_parity, r |-> tx.signature.r, s |-> tx.signature.s]

RecoverFeeMarket(tx) ==
  LET p == tx.payload
  IN [type |-> FEE_MARKET_TX_TYPE, chain_id |-> p.chain_id, nonce |-> p.nonce,
      max_priority_fee_per_gas |-> p.max_priority_fees_per_gas.regular,
      max_fee_per_gas |-> p.max_fees_per_gas.regular, gas |-> p.gas, to |-> RlpTo(p.to),
      value |-> p.value, data |-> p.input_, access_list |-> p.access_list,
      y_parity |-> tx.signature.y_parity, r |-> tx.signature.r, s |-> tx.signature.s]

RecoverBlob(tx) ==
  LET p == tx.payload
  IN [type |-> BLOB_TX_TYPE, chain_id |-> p.chain_id, nonce |-> p.nonce,
      max_priority_fee_per_gas |-> p.max_priority_fees_per_gas.regular,
      max_fee_per_gas |-> p.max_fees_per_gas.regular, gas |-> p.gas, to |-> p.to,
      value |-> p.value, data |-> p.input_, access_list |-> p.access_list,
      max_fee_per_blob_gas |-> p.max_fees_per_gas.blob,
      blob_versioned_hashes |-> p.blob_versioned_hashes,
      y_parity |-> tx.signature.y_parity, r |-> tx.signature.r, s |-> tx.signature.s]

RecoverAuthorization(auth) ==
  [chain_id |-> IF auth.payload.chain_id # None THEN auth.payload.chain_id ELSE 0,
   address |-> auth.payload.address, nonce |-> auth.payload.nonce,
   y_parity |-> auth.signature.y_parity, r |-> auth.signature.r, s |-> auth.signature.s]

RecoverSetCode(tx) ==
  LET p == tx.payload
  IN [type |-> SET_CODE_TX_TYPE, chain_id |-> p.chain_id, nonce |-> p.nonce,
      max_priority_fee_per_gas |-> p.max_priority_fees_per_gas.regular,
      max_fee_per_gas |-> p.max_fees_per_gas.regular, gas |-> p.gas, to |-> p.to,
      value |-> p.value, data |-> p.input_, access_list |-> p.access_list,
      authorization_list |-> [k \in 1 .. Len(p.authorization_list) |->
                                RecoverAuthorization(p.authorization_list[k])],
      y_parity |-> tx.signature.y_parity, r |-> tx.signature.r, s |-> tx.signature.s]

Recover(tx) ==
  CASE tx.payload.type_ = LEGACY_TX_TYPE -> RecoverLegacy(tx)
    [] tx.payload.type_ = ACCESS_LIST_TX_TYPE -> RecoverAccessList(tx)
    [] tx.payload.type_ = FEE_MARKET_TX_TYPE -> RecoverFeeMarket(tx)
    [] tx.payload.type_ = BLOB_TX_TYPE -> RecoverBlob(tx)
    [] tx.payload.type_ = SET_CODE_TX_TYPE -> RecoverSetCode(tx)

CanHash(tx) ==
  /\ CanRecover(tx)
  /\ tx.payload.type_ = LEGACY_TX_TYPE => LegacyCanHash(RecoverLegacy(tx))

ComputeSigHash(tx) == RlpSigHash(Recover(tx))
ComputeTxHash(tx) == RlpTxHash(Recover(tx))
ComputeAuthHash(auth) == SetCodeAuthHash(RecoverAuthorization(auth))

=============================================================================
