------------------------ MODULE TransactionPoolProofs ------------------------
(***************************************************************************)
(* Proofs about TransactionPool, for every width of the numbers and every  *)
(* set of transactions that may be sent.  The argument is about the        *)
(* conversions: on the transactions that they accept, Upgrade and Recover  *)
(* are inverse to one another, in both directions, and each type of RLP    *)
(* transaction is hashed in a way of its own.  The invariant Inv says that *)
(* the pool has what was converted and the index what was computed.        *)
(***************************************************************************)
EXTENDS TransactionPool, TLAPS

USE DEF LEGACY_TX_TYPE, ACCESS_LIST_TX_TYPE, FEE_MARKET_TX_TYPE, BLOB_TX_TYPE,
        SET_CODE_TX_TYPE, SET_CODE_TX_MAGIC

----------------------------------------------------------------------------
(* What a transaction converts to is an SSZ transaction. *)

\* An address that may be missing converts to one that may be None, and back.
LEMMA ToKept ==
  ASSUME NEW to \in Addresses \cup {Empty}
  PROVE  SszTo(to) \in Opt(Addresses) /\ RlpTo(SszTo(to)) = to
BY OpaqueAssumption DEF SszTo, RlpTo, Opt

\* Fees of the right width are fees.
LEMMA FeesType ==
  ASSUME NEW a \in Uint256, NEW b \in Opt(Uint256)
  PROVE  Fees(a, b) \in Opt(FeesPerGas)
BY DEF Fees, FeesPerGas, Opt

\* They pass for what they are made as.
LEMMA BasicFeesKept ==
  ASSUME NEW a \in Uint256
  PROVE  BasicFeesPerGas(Fees(a, None))
<1>1. Fees(a, None) \in FeesPerGas /\ a # None
  BY OpaqueAssumption DEF Fees, FeesPerGas, Opt, Uint256
<1>2. Fees(a, None) # None
  BY <1>1, NoneAssumption
<1>3. Fees(a, None).regular = a /\ Fees(a, None).blob = None
  BY DEF Fees
<1> HIDE DEF Fees
<1> QED
  BY <1>1, <1>2, <1>3 DEF BasicFeesPerGas

\* Fees with a blob part pass for those of a blob transaction.
LEMMA BlobFeesKept ==
  ASSUME NEW a \in Uint256, NEW b \in Uint256
  PROVE  BlobFeesPerGas(Fees(a, b)) /\ Fees(a, b) # None
<1>1. Fees(a, b) \in FeesPerGas /\ a # None /\ b # None
  BY OpaqueAssumption DEF Fees, FeesPerGas, Opt, Uint256
<1>2. Fees(a, b) # None
  BY <1>1, NoneAssumption
<1>3. Fees(a, b).regular = a /\ Fees(a, b).blob = b
  BY DEF Fees
<1> QED
  BY <1>1, <1>2, <1>3 DEF BlobFeesPerGas

\* The parts that have one conversion in all types
LEMMA CommonType ==
  ASSUME NEW tx \in RlpTransaction, Fits(tx)
  PROVE  /\ tx.type \in Byte /\ tx.nonce \in Uint64 /\ tx.gas \in Uint64
         /\ tx.value \in Uint256 /\ tx.data \in Calldata
         /\ tx.type # 0 => tx.chain_id \in Uint64 /\ tx.access_list \in AccessLists
<1> USE DEF RlpTransaction
<1>1. CASE tx \in LegacyRlpTransaction
  BY <1>1, WidthAssumption DEF LegacyRlpTransaction, Fits, Byte
<1>2. CASE tx \in AccessListRlpTransaction
  BY <1>2, WidthAssumption DEF AccessListRlpTransaction, Fits, Byte
<1>3. CASE tx \in FeeMarketRlpTransaction
  BY <1>3, WidthAssumption DEF FeeMarketRlpTransaction, Fits, Byte
<1>4. CASE tx \in BlobRlpTransaction
  BY <1>4, WidthAssumption DEF BlobRlpTransaction, Fits, Byte
<1>5. CASE tx \in SetCodeRlpTransaction
  BY <1>5, WidthAssumption DEF SetCodeRlpTransaction, Fits, Byte
<1> QED
  BY <1>1, <1>2, <1>3, <1>4, <1>5

\* What a type lacks is None.
LEMMA NoneType ==
  /\ None \in Opt(AccessLists) /\ None \in Opt(FeesPerGas) /\ None \in Opt(HashLists)
  /\ None \in Opt(Seq(Authorization))
BY DEF Opt

\* The payload of a transaction, field by field
PayloadOf(tx, chain_id, fees, to, access, priority, hashes, auths) ==
  [type_ |-> tx.type, chain_id |-> chain_id, nonce |-> tx.nonce, max_fees_per_gas |-> fees,
   gas |-> tx.gas, to |-> to, value |-> tx.value, input_ |-> tx.data,
   access_list |-> access, max_priority_fees_per_gas |-> priority,
   blob_versioned_hashes |-> hashes, authorization_list |-> auths]

\* A payload with fields of the right widths is one.
LEMMA PayloadType ==
  ASSUME NEW tx \in RlpTransaction, Fits(tx),
         NEW chain_id \in Opt(Uint64), NEW fees \in Opt(FeesPerGas), NEW to \in Opt(Addresses),
         NEW access \in Opt(AccessLists), NEW priority \in Opt(FeesPerGas),
         NEW hashes \in Opt(HashLists), NEW auths \in Opt(Seq(Authorization))
  PROVE  PayloadOf(tx, chain_id, fees, to, access, priority, hashes, auths)
           \in TransactionPayload
BY CommonType DEF PayloadOf, TransactionPayload, Opt

\* What is packed is a signature, and is there.
LEMMA SignatureType ==
  ASSUME NEW r, NEW s, NEW y, FitsSignature(r, s, y)
  PROVE  Secp256k1Pack(r, s, y) \in ExecutionSignature /\ Secp256k1Pack(r, s, y) # None
<1>1. Secp256k1Pack(r, s, y) \in Secp256k1ExecutionSignature
  BY DEF FitsSignature, Secp256k1Pack, Secp256k1ExecutionSignature
<1> QED
  BY <1>1, NoneAssumption DEF ExecutionSignature, Opt

\* An authorization converts to one that identify_authorization_profile
\* accepts, and back.
LEMMA AuthorizationKept ==
  ASSUME NEW auth \in SetCodeRlpAuthorization, FitsAuthorization(auth)
  PROVE  /\ UpgradeAuthorization(auth) \in Authorization
         /\ IdentifiesAuthorization(UpgradeAuthorization(auth))
         /\ RlpSetCodeAuthorizationPayload(UpgradeAuthorization(auth).payload)
         /\ UpgradeAuthorization(auth).signature # None
         /\ RecoverAuthorization(UpgradeAuthorization(auth)) = auth
<1> DEFINE up == UpgradeAuthorization(auth)
           sig == Secp256k1Pack(auth.r, auth.s, auth.y_parity)
           chain_id == IF auth.chain_id # 0 THEN auth.chain_id ELSE None
<1>1. sig \in ExecutionSignature /\ sig # None
  BY SignatureType DEF FitsAuthorization
<1>2. /\ auth.chain_id \in Uint64 /\ auth.nonce \in Uint64 /\ auth.address \in Addresses
      /\ auth.nonce # None /\ auth.address # None /\ None # 0 /\ None # 5
  BY OpaqueAssumption DEF SetCodeRlpAuthorization, FitsAuthorization, Uint64
<1>3. /\ chain_id \in Opt(Uint64) /\ chain_id # 0
      /\ (IF chain_id # None THEN chain_id ELSE 0) = auth.chain_id
  BY <1>2, OpaqueAssumption DEF Opt, Uint64
<1>4. up = [payload |-> [magic |-> 5, chain_id |-> chain_id, address |-> auth.address,
                         nonce |-> auth.nonce],
            signature |-> sig]
  BY DEF UpgradeAuthorization
<1> HIDE DEF chain_id
<1>5. up \in Authorization
  <2>1. 5 \in Opt(Byte)
    BY WidthAssumption DEF Byte, Opt
  <2> QED
    BY <1>1, <1>2, <1>3, <1>4, <2>1 DEF Authorization, AuthorizationPayload, Opt
<1>6. IdentifiesAuthorization(up) /\ RlpSetCodeAuthorizationPayload(up.payload)
  BY <1>2, <1>3, <1>4 DEF IdentifiesAuthorization, RlpSetCodeAuthorizationPayload, Has
<1>7. RecoverAuthorization(up) = auth
  <2>1. up.signature = [r |-> auth.r, s |-> auth.s, y_parity |-> auth.y_parity]
    BY <1>4 DEF Secp256k1Pack
  <2>2. /\ up.payload.chain_id = chain_id /\ up.payload.address = auth.address
        /\ up.payload.nonce = auth.nonce
    BY <1>4
  <2> HIDE DEF up
  <2> QED
    BY <1>3, <2>1, <2>2 DEF RecoverAuthorization, SetCodeRlpAuthorization
<1> QED
  BY <1>1, <1>4, <1>5, <1>6, <1>7

----------------------------------------------------------------------------
(* What a transaction converts to is identified, is its profile, and is    *)
(* recovered as the transaction.                                           *)

Kept(tx, up, recovered) ==
  /\ up \in Transaction /\ IdentifiesTransaction(up) /\ FromBase(up)
  /\ up.payload.type_ = tx.type /\ recovered = tx

\* v, with the halving of its difference from 35 and the parity put together
LEMMA LegacyVKept ==
  ASSUME NEW tx \in LegacyRlpTransaction
  PROVE  LegacyV(UpgradeLegacy(tx)) = tx.v
<1> DEFINE up == UpgradeLegacy(tx)
<1>1. tx.v \in Nat
  BY DEF LegacyRlpTransaction
<1>2. /\ up.payload.chain_id = IF HasChainId(tx.v) THEN ChainIdOf(tx.v) ELSE None
      /\ up.signature.y_parity = IF tx.v % 2 = 0 THEN 1 ELSE 0
  BY DEF UpgradeLegacy, Common, Secp256k1Pack
<1>3. CASE HasChainId(tx.v)
  <2>1. ChainIdOf(tx.v) # None
    BY <1>1, OpaqueAssumption DEF ChainIdOf
  <2>2. tx.v = (IF tx.v % 2 = 0 THEN 1 ELSE 0) + 35 + ChainIdOf(tx.v) * 2
    BY <1>1 DEF ChainIdOf
  <2> QED
    BY <1>2, <1>3, <2>1, <2>2 DEF LegacyV
<1>4. CASE ~HasChainId(tx.v)
  BY <1>2, <1>4 DEF LegacyV, HasChainId
<1> QED
  BY <1>3, <1>4

\* What a legacy transaction that fits converts to, and recovers
LEMMA LegacyKept ==
  ASSUME NEW tx \in LegacyRlpTransaction, Fits(tx)
  PROVE  Kept(tx, UpgradeLegacy(tx), RecoverLegacy(UpgradeLegacy(tx)))
<1> DEFINE up == UpgradeLegacy(tx)
           p == up.payload
           chain_id == IF HasChainId(tx.v) THEN ChainIdOf(tx.v) ELSE None
           y == IF tx.v % 2 = 0 THEN 1 ELSE 0
<1>1. up = [payload |-> [Common(tx) EXCEPT
              !.chain_id = chain_id, !.max_fees_per_gas = Fees(tx.gas_price, None),
              !.to = SszTo(tx.to)],
            signature |-> Secp256k1Pack(tx.r, tx.s, y)]
  BY DEF UpgradeLegacy
<1>2. p = PayloadOf(tx, chain_id, Fees(tx.gas_price, None), SszTo(tx.to), None, None,
                    None, None)
  BY DEF UpgradeLegacy, Common, PayloadOf
<1>3. up.signature \in ExecutionSignature /\ up.signature # None
  <2>1. FitsSignature(tx.r, tx.s, y)
    BY WidthAssumption DEF LegacyRlpTransaction, Fits, FitsSignature, Byte
  <2> QED
    BY <1>1, <2>1, SignatureType
<1>4. tx \in RlpTransaction
  BY DEF RlpTransaction
<1>5. p \in TransactionPayload
  <2>1. chain_id \in Opt(Uint64)
    BY DEF LegacyRlpTransaction, Fits, Opt
  <2>2. Fees(tx.gas_price, None) \in Opt(FeesPerGas)
    BY FeesType DEF LegacyRlpTransaction, Fits, Opt
  <2>3. SszTo(tx.to) \in Opt(Addresses)
    BY ToKept DEF LegacyRlpTransaction
  <2> HIDE DEF up, chain_id
  <2> QED
    BY <1>2, <1>4, <2>1, <2>2, <2>3, NoneType, PayloadType
<1>6. FromBase(up) /\ IdentifiesTransaction(up)
  <2>1. /\ tx.type = 0 /\ tx.gas_price \in Uint256 /\ tx.data \in Calldata
        /\ tx.nonce \in Nat /\ tx.gas \in Nat /\ tx.value \in Nat
    BY DEF LegacyRlpTransaction, Fits
  <2>2. BasicFeesPerGas(Fees(tx.gas_price, None))
    BY <2>1, BasicFeesKept
  <2>3. Has(p, CommonFields)
    BY <1>2, <2>1, OpaqueAssumption DEF Has, CommonFields, PayloadOf
  <2> QED
    BY <1>2, <1>3, <2>1, <2>2, <2>3
    DEF PayloadOf, FromBase, IdentifiesTransaction, RlpLegacyTransactionPayload, Lacks
<1>7. RecoverLegacy(up) = tx
  <2>1. LegacyV(up) = tx.v /\ RlpTo(SszTo(tx.to)) = tx.to
    BY LegacyVKept, ToKept DEF LegacyRlpTransaction
  <2>2. up.signature.r = tx.r /\ up.signature.s = tx.s
    BY <1>1 DEF Secp256k1Pack
  <2>3. p.max_fees_per_gas.regular = tx.gas_price
    BY <1>2 DEF Fees, PayloadOf
  <2> HIDE DEF up
  <2> QED
    BY <1>2, <2>1, <2>2, <2>3 DEF PayloadOf, RecoverLegacy, LegacyRlpTransaction
<1>8. up = [payload |-> p, signature |-> up.signature]
  BY DEF UpgradeLegacy
<1>9. p.type_ = tx.type
  BY <1>2 DEF PayloadOf
<1> HIDE DEF up
<1>10. Kept(tx, up, RecoverLegacy(up))
  BY <1>3, <1>5, <1>6, <1>7, <1>8, <1>9 DEF Kept, Transaction
<1> QED
  BY <1>10 DEF up

\* What an access list transaction that fits converts to, and recovers
LEMMA AccessListKept ==
  ASSUME NEW tx \in AccessListRlpTransaction, Fits(tx)
  PROVE  Kept(tx, UpgradeAccessList(tx), RecoverAccessList(UpgradeAccessList(tx)))
<1> DEFINE up == UpgradeAccessList(tx)
           p == up.payload
<1>1. p = PayloadOf(tx, tx.chain_id, Fees(tx.gas_price, None), SszTo(tx.to),
                    tx.access_list, None, None, None)
  BY DEF UpgradeAccessList, Common, PayloadOf
<1>2. /\ up.signature = Secp256k1Pack(tx.r, tx.s, tx.y_parity)
      /\ up = [payload |-> p, signature |-> up.signature]
  BY DEF UpgradeAccessList
<1>3. up.signature \in ExecutionSignature /\ up.signature # None
  <2>1. FitsSignature(tx.r, tx.s, tx.y_parity)
    BY DEF AccessListRlpTransaction, Fits
  <2> QED
    BY <1>2, <2>1, SignatureType
<1>4. /\ tx \in RlpTransaction /\ tx.type = 1
      /\ tx.chain_id \in Opt(Uint64) /\ tx.access_list \in Opt(AccessLists)
      /\ tx.chain_id # None /\ tx.access_list # None
      /\ tx.nonce # None /\ tx.gas # None /\ tx.value # None /\ tx.data # None
  BY CommonType, OpaqueAssumption DEF RlpTransaction, AccessListRlpTransaction, Opt, Uint64
<1>6. p \in TransactionPayload
  <2>1. Fees(tx.gas_price, None) \in Opt(FeesPerGas)
    BY FeesType DEF AccessListRlpTransaction, Fits, Opt
  <2>3. SszTo(tx.to) \in Opt(Addresses)
    BY ToKept DEF AccessListRlpTransaction
  <2> HIDE DEF up
  <2> QED
    BY <1>1, <1>4, <2>1, <2>3, NoneType, PayloadType
<1>7. FromBase(up) /\ IdentifiesTransaction(up)
  <2>1. BasicFeesPerGas(Fees(tx.gas_price, None))
    BY BasicFeesKept DEF AccessListRlpTransaction, Fits
  <2>5. Has(p, CommonFields \cup {"chain_id", "access_list"})
    BY <1>1, <1>4, OpaqueAssumption DEF AccessListRlpTransaction, Has, CommonFields, PayloadOf
  <2> QED
    BY <1>1, <1>3, <1>4, <2>1, <2>5
    DEF PayloadOf, FromBase, IdentifiesTransaction, RlpAccessListTransactionPayload, Lacks
<1>8. RecoverAccessList(up) = tx
  <2>1. RlpTo(SszTo(tx.to)) = tx.to
    BY ToKept DEF AccessListRlpTransaction
  <2>2. /\ up.signature.r = tx.r /\ up.signature.s = tx.s
        /\ up.signature.y_parity = tx.y_parity
    BY <1>2 DEF Secp256k1Pack
  <2>3. p.max_fees_per_gas.regular = tx.gas_price
    BY <1>1 DEF Fees, PayloadOf
  <2> HIDE DEF up
  <2> QED
    BY <1>1, <2>1, <2>2, <2>3 DEF PayloadOf, RecoverAccessList, AccessListRlpTransaction
<1>9. p.type_ = tx.type
  BY <1>1 DEF PayloadOf
<1> HIDE DEF up
<1>10. Kept(tx, up, RecoverAccessList(up))
  BY <1>2, <1>3, <1>6, <1>7, <1>8, <1>9 DEF Kept, Transaction
<1> QED
  BY <1>10 DEF up

\* What a fee market transaction that fits converts to, and recovers
LEMMA FeeMarketKept ==
  ASSUME NEW tx \in FeeMarketRlpTransaction, Fits(tx)
  PROVE  Kept(tx, UpgradeFeeMarket(tx), RecoverFeeMarket(UpgradeFeeMarket(tx)))
<1> DEFINE up == UpgradeFeeMarket(tx)
           p == up.payload
<1>1. p = PayloadOf(tx, tx.chain_id, Fees(tx.max_fee_per_gas, None), SszTo(tx.to),
                    tx.access_list, Fees(tx.max_priority_fee_per_gas, None), None, None)
  BY DEF UpgradeFeeMarket, Common, PayloadOf
<1>2. /\ up.signature = Secp256k1Pack(tx.r, tx.s, tx.y_parity)
      /\ up = [payload |-> p, signature |-> up.signature]
  BY DEF UpgradeFeeMarket
<1>3. up.signature \in ExecutionSignature /\ up.signature # None
  <2>1. FitsSignature(tx.r, tx.s, tx.y_parity)
    BY DEF FeeMarketRlpTransaction, Fits
  <2> QED
    BY <1>2, <2>1, SignatureType
<1>4. /\ tx \in RlpTransaction /\ tx.type = 2
      /\ tx.chain_id \in Opt(Uint64) /\ tx.access_list \in Opt(AccessLists)
      /\ tx.chain_id # None /\ tx.access_list # None
      /\ tx.nonce # None /\ tx.gas # None /\ tx.value # None /\ tx.data # None
  BY CommonType, OpaqueAssumption DEF RlpTransaction, FeeMarketRlpTransaction, Opt, Uint64
<1>6. p \in TransactionPayload
  <2>1. Fees(tx.max_fee_per_gas, None) \in Opt(FeesPerGas)
    BY FeesType DEF FeeMarketRlpTransaction, Fits, Opt
  <2>2. Fees(tx.max_priority_fee_per_gas, None) \in Opt(FeesPerGas)
    BY FeesType DEF FeeMarketRlpTransaction, Fits, Opt
  <2>3. SszTo(tx.to) \in Opt(Addresses)
    BY ToKept DEF FeeMarketRlpTransaction
  <2> HIDE DEF up
  <2> QED
    BY <1>1, <1>4, <2>1, <2>2, <2>3, NoneType, PayloadType
<1>7. FromBase(up) /\ IdentifiesTransaction(up)
  <2>1. BasicFeesPerGas(Fees(tx.max_fee_per_gas, None))
    BY BasicFeesKept DEF FeeMarketRlpTransaction, Fits
  <2>2. BasicFeesPerGas(Fees(tx.max_priority_fee_per_gas, None))
    BY BasicFeesKept DEF FeeMarketRlpTransaction, Fits
  <2>5. Has(p, CommonFields \cup {"chain_id", "access_list"})
    BY <1>1, <1>4, OpaqueAssumption DEF FeeMarketRlpTransaction, Has, CommonFields, PayloadOf
  <2> QED
    BY <1>1, <1>3, <1>4, <2>1, <2>2, <2>5
    DEF PayloadOf, FromBase, IdentifiesTransaction, RlpFeeMarketTransactionPayload, Lacks
<1>8. RecoverFeeMarket(up) = tx
  <2>1. RlpTo(SszTo(tx.to)) = tx.to
    BY ToKept DEF FeeMarketRlpTransaction
  <2>2. /\ up.signature.r = tx.r /\ up.signature.s = tx.s
        /\ up.signature.y_parity = tx.y_parity
    BY <1>2 DEF Secp256k1Pack
  <2>3. /\ p.max_fees_per_gas.regular = tx.max_fee_per_gas
        /\ p.max_priority_fees_per_gas.regular = tx.max_priority_fee_per_gas
    BY <1>1 DEF Fees, PayloadOf
  <2> HIDE DEF up
  <2> QED
    BY <1>1, <2>1, <2>2, <2>3 DEF PayloadOf, RecoverFeeMarket, FeeMarketRlpTransaction
<1>9. p.type_ = tx.type
  BY <1>1 DEF PayloadOf
<1> HIDE DEF up
<1>10. Kept(tx, up, RecoverFeeMarket(up))
  BY <1>2, <1>3, <1>6, <1>7, <1>8, <1>9 DEF Kept, Transaction
<1> QED
  BY <1>10 DEF up

\* What a blob transaction that fits converts to, and recovers
LEMMA BlobKept ==
  ASSUME NEW tx \in BlobRlpTransaction, Fits(tx)
  PROVE  Kept(tx, UpgradeBlob(tx), RecoverBlob(UpgradeBlob(tx)))
<1> DEFINE up == UpgradeBlob(tx)
           p == up.payload
<1>1. p = PayloadOf(tx, tx.chain_id, Fees(tx.max_fee_per_gas, tx.max_fee_per_blob_gas), tx.to,
                    tx.access_list, Fees(tx.max_priority_fee_per_gas, 0),
                     tx.blob_versioned_hashes, None)
  BY DEF UpgradeBlob, Common, PayloadOf
<1>2. /\ up.signature = Secp256k1Pack(tx.r, tx.s, tx.y_parity)
      /\ up = [payload |-> p, signature |-> up.signature]
  BY DEF UpgradeBlob
<1>3. up.signature \in ExecutionSignature /\ up.signature # None
  <2>1. FitsSignature(tx.r, tx.s, tx.y_parity)
    BY DEF BlobRlpTransaction, Fits
  <2> QED
    BY <1>2, <2>1, SignatureType
<1>4. /\ tx \in RlpTransaction /\ tx.type = 3
      /\ tx.chain_id \in Opt(Uint64) /\ tx.access_list \in Opt(AccessLists)
      /\ tx.chain_id # None /\ tx.access_list # None
      /\ tx.nonce # None /\ tx.gas # None /\ tx.value # None /\ tx.data # None
  BY CommonType, OpaqueAssumption DEF RlpTransaction, BlobRlpTransaction, Opt, Uint64
<1>6. p \in TransactionPayload
  <2>1. Fees(tx.max_fee_per_gas, tx.max_fee_per_blob_gas) \in Opt(FeesPerGas)
    BY FeesType, WidthAssumption DEF BlobRlpTransaction, Fits, Opt, Uint256
  <2>2. Fees(tx.max_priority_fee_per_gas, 0) \in Opt(FeesPerGas)
    BY FeesType, WidthAssumption DEF BlobRlpTransaction, Fits, Opt, Uint256
  <2>3. /\ tx.to \in Opt(Addresses) /\ tx.blob_versioned_hashes \in Opt(HashLists)
        /\ None \in Opt(Seq(Authorization))
    BY NoneType DEF BlobRlpTransaction, Opt
  <2> HIDE DEF up
  <2> QED
    BY <1>1, <1>4, <2>1, <2>2, <2>3, NoneType, PayloadType
<1>7. FromBase(up) /\ IdentifiesTransaction(up)
  <2>1. BlobFeesPerGas(Fees(tx.max_fee_per_gas, tx.max_fee_per_blob_gas))
    BY BlobFeesKept DEF BlobRlpTransaction, Fits
  <2>2. /\ BlobFeesPerGas(Fees(tx.max_priority_fee_per_gas, 0))
        /\ Fees(tx.max_priority_fee_per_gas, 0) # None
    BY BlobFeesKept, WidthAssumption DEF BlobRlpTransaction, Fits, Uint256
  <2>5. Has(p, CommonFields \cup {"chain_id", "to", "access_list", "blob_versioned_hashes"})
    BY <1>1, <1>4, OpaqueAssumption DEF BlobRlpTransaction, Has, CommonFields, PayloadOf
  <2> QED
    BY <1>1, <1>3, <1>4, <2>1, <2>2, <2>5
    DEF PayloadOf, FromBase, IdentifiesTransaction, RlpBlobTransactionPayload, Lacks, Fees
<1>8. RecoverBlob(up) = tx
  <2>1. RlpTo(SszTo(tx.to)) = tx.to
    BY ToKept DEF BlobRlpTransaction
  <2>2. /\ up.signature.r = tx.r /\ up.signature.s = tx.s
        /\ up.signature.y_parity = tx.y_parity
    BY <1>2 DEF Secp256k1Pack
  <2>3. /\ p.max_fees_per_gas.regular = tx.max_fee_per_gas
        /\ p.max_priority_fees_per_gas.regular = tx.max_priority_fee_per_gas
        /\ p.max_fees_per_gas.blob = tx.max_fee_per_blob_gas
    BY <1>1 DEF Fees, PayloadOf
  <2> HIDE DEF up
  <2> QED
    BY <1>1, <2>2, <2>3 DEF PayloadOf, RecoverBlob, BlobRlpTransaction
<1>9. p.type_ = tx.type
  BY <1>1 DEF PayloadOf
<1> HIDE DEF up
<1>10. Kept(tx, up, RecoverBlob(up))
  BY <1>2, <1>3, <1>6, <1>7, <1>8, <1>9 DEF Kept, Transaction
<1> QED
  BY <1>10 DEF up

\* What a set code transaction that fits converts to, with each of its
\* authorizations, and recovers
LEMMA SetCodeKept ==
  ASSUME NEW tx \in SetCodeRlpTransaction, Fits(tx)
  PROVE  Kept(tx, UpgradeSetCode(tx), RecoverSetCode(UpgradeSetCode(tx)))
<1> DEFINE up == UpgradeSetCode(tx)
           p == up.payload
           list == tx.authorization_list
           auths == [k \in 1 .. Len(list) |-> UpgradeAuthorization(list[k])]
<1>1. p = PayloadOf(tx, tx.chain_id, Fees(tx.max_fee_per_gas, None), tx.to,
                    tx.access_list, Fees(tx.max_priority_fee_per_gas, None), None, auths)
  BY DEF UpgradeSetCode, Common, PayloadOf
<1>2. /\ up.signature = Secp256k1Pack(tx.r, tx.s, tx.y_parity)
      /\ up = [payload |-> p, signature |-> up.signature]
  BY DEF UpgradeSetCode
<1>3. up.signature \in ExecutionSignature /\ up.signature # None
  <2>1. FitsSignature(tx.r, tx.s, tx.y_parity)
    BY DEF SetCodeRlpTransaction, Fits
  <2> QED
    BY <1>2, <2>1, SignatureType
<1>4. /\ tx \in RlpTransaction /\ tx.type = 4
      /\ tx.chain_id \in Opt(Uint64) /\ tx.access_list \in Opt(AccessLists)
      /\ tx.chain_id # None /\ tx.access_list # None
      /\ tx.nonce # None /\ tx.gas # None /\ tx.value # None /\ tx.data # None
  BY CommonType, OpaqueAssumption DEF RlpTransaction, SetCodeRlpTransaction, Opt, Uint64
<1>5. /\ auths \in Seq(Authorization) /\ auths # None
      /\ Len(auths) = Len(list) /\ DOMAIN auths = 1 .. Len(list)
      /\ \A k \in 1 .. Len(list) :
           /\ list[k] \in SetCodeRlpAuthorization /\ FitsAuthorization(list[k])
           /\ auths[k] = UpgradeAuthorization(list[k])
  <2>1. list \in Seq(SetCodeRlpAuthorization)
    BY DEF SetCodeRlpTransaction
  <2>2. \A k \in 1 .. Len(list) :
           list[k] \in SetCodeRlpAuthorization /\ FitsAuthorization(list[k])
    BY <2>1 DEF SetCodeRlpTransaction, Fits
  <2>3. \A k \in 1 .. Len(list) : UpgradeAuthorization(list[k]) \in Authorization
    BY <2>2, AuthorizationKept
  <2>4. auths \in Seq(Authorization)
    BY <2>1, <2>3
  <2> QED
    BY <2>1, <2>2, <2>4, NoneAssumption
<1>6. p \in TransactionPayload
  <2>1. Fees(tx.max_fee_per_gas, None) \in Opt(FeesPerGas)
    BY FeesType DEF SetCodeRlpTransaction, Fits, Opt
  <2>2. Fees(tx.max_priority_fee_per_gas, None) \in Opt(FeesPerGas)
    BY FeesType DEF SetCodeRlpTransaction, Fits, Opt
  <2>3. tx.to \in Opt(Addresses) /\ None \in Opt(HashLists) /\ auths \in Opt(Seq(Authorization))
    BY <1>5 DEF SetCodeRlpTransaction, Opt
  <2> HIDE DEF up, auths
  <2> QED
    BY <1>1, <1>4, <2>1, <2>2, <2>3, NoneType, PayloadType
<1>7. FromBase(up) /\ IdentifiesTransaction(up)
  <2>1. BasicFeesPerGas(Fees(tx.max_fee_per_gas, None))
    BY BasicFeesKept DEF SetCodeRlpTransaction, Fits
  <2>2. BasicFeesPerGas(Fees(tx.max_priority_fee_per_gas, None))
    BY BasicFeesKept DEF SetCodeRlpTransaction, Fits
  <2>3. Authorizations(up) = {UpgradeAuthorization(list[k]) : k \in 1 .. Len(list)}
    <3>1. p.authorization_list = auths
      BY <1>1 DEF PayloadOf
    <3> HIDE DEF up, auths
    <3> QED
      BY <1>5, <3>1 DEF Authorizations
  <2>4. \A auth \in Authorizations(up) :
          /\ IdentifiesAuthorization(auth)
          /\ RlpSetCodeAuthorizationPayload(auth.payload) /\ auth.signature # None
    BY <1>5, <2>3, AuthorizationKept
  <2>5. Has(p, CommonFields \cup {"chain_id", "to", "access_list", "authorization_list"})
    BY <1>1, <1>4, <1>5, OpaqueAssumption
    DEF SetCodeRlpTransaction, Has, CommonFields, PayloadOf
  <2> HIDE DEF auths
  <2> QED
    BY <1>1, <1>3, <1>4, <2>1, <2>2, <2>4, <2>5
    DEF PayloadOf, FromBase, IdentifiesTransaction, RlpSetCodeTransactionPayload, Lacks
<1>8. RecoverSetCode(up) = tx
  <2>1. RlpTo(SszTo(tx.to)) = tx.to
    BY ToKept DEF SetCodeRlpTransaction
  <2>2. /\ up.signature.r = tx.r /\ up.signature.s = tx.s
        /\ up.signature.y_parity = tx.y_parity
    BY <1>2 DEF Secp256k1Pack
  <2>3. /\ p.max_fees_per_gas.regular = tx.max_fee_per_gas
        /\ p.max_priority_fees_per_gas.regular = tx.max_priority_fee_per_gas
    BY <1>1 DEF Fees, PayloadOf
  <2>4. p.authorization_list = auths
    BY <1>1 DEF PayloadOf
  <2>5. \A k \in 1 .. Len(list) : RecoverAuthorization(auths[k]) = list[k]
    BY <1>5, AuthorizationKept
  <2>6. [k \in 1 .. Len(auths) |-> RecoverAuthorization(auths[k])] = list
    <3>1. list \in Seq(SetCodeRlpAuthorization)
      BY DEF SetCodeRlpTransaction
    <3> HIDE DEF auths
    <3> QED
      BY <1>5, <2>5, <3>1
  <2> HIDE DEF up, auths
  <2> QED
    BY <1>1, <2>2, <2>3, <2>4, <2>6 DEF PayloadOf, RecoverSetCode, SetCodeRlpTransaction
<1>9. p.type_ = tx.type
  BY <1>1 DEF PayloadOf
<1> HIDE DEF up
<1>10. Kept(tx, up, RecoverSetCode(up))
  BY <1>2, <1>3, <1>6, <1>7, <1>8, <1>9 DEF Kept, Transaction
<1> QED
  BY <1>10 DEF up

\* What any RLP transaction that fits converts to
LEMMA UpgradeKept ==
  ASSUME NEW tx \in RlpTransaction, Fits(tx)
  PROVE  Kept(tx, Upgrade(tx), Recover(Upgrade(tx)))
<1>1. CASE tx \in LegacyRlpTransaction
  <2>1. tx.type = 0 /\ Upgrade(tx) = UpgradeLegacy(tx)
    BY <1>1 DEF LegacyRlpTransaction, Upgrade
  <2> QED
    BY <1>1, <2>1, LegacyKept DEF Kept, Recover
<1>2. CASE tx \in AccessListRlpTransaction
  <2>1. tx.type = 1 /\ Upgrade(tx) = UpgradeAccessList(tx)
    BY <1>2 DEF AccessListRlpTransaction, Upgrade
  <2> QED
    BY <1>2, <2>1, AccessListKept DEF Kept, Recover
<1>3. CASE tx \in FeeMarketRlpTransaction
  <2>1. tx.type = 2 /\ Upgrade(tx) = UpgradeFeeMarket(tx)
    BY <1>3 DEF FeeMarketRlpTransaction, Upgrade
  <2> QED
    BY <1>3, <2>1, FeeMarketKept DEF Kept, Recover
<1>4. CASE tx \in BlobRlpTransaction
  <2>1. tx.type = 3 /\ Upgrade(tx) = UpgradeBlob(tx)
    BY <1>4 DEF BlobRlpTransaction, Upgrade
  <2> QED
    BY <1>4, <2>1, BlobKept DEF Kept, Recover
<1>5. CASE tx \in SetCodeRlpTransaction
  <2>1. tx.type = 4 /\ Upgrade(tx) = UpgradeSetCode(tx)
    BY <1>5 DEF SetCodeRlpTransaction, Upgrade
  <2> QED
    BY <1>5, <2>1, SetCodeKept DEF Kept, Recover
<1> QED
  BY <1>1, <1>2, <1>3, <1>4, <1>5 DEF RlpTransaction

----------------------------------------------------------------------------
(* What a profile recovers is an RLP transaction that converts to it.      *)

Inverse(tx, recovered, up) ==
  recovered \in RlpTransaction /\ Fits(recovered) /\ up = tx

\* An address that may be None recovers to one that may be missing, and back.
LEMMA ToInverse ==
  ASSUME NEW to \in Opt(Addresses)
  PROVE  RlpTo(to) \in Addresses \cup {Empty} /\ SszTo(RlpTo(to)) = to
BY OpaqueAssumption DEF SszTo, RlpTo, Opt

\* Fees are made of what is read from them.
LEMMA FeesInverse ==
  ASSUME NEW fees \in Opt(FeesPerGas)
  PROVE  /\ BasicFeesPerGas(fees) => fees.regular \in Uint256 /\ fees = Fees(fees.regular, None)
         /\ BlobFeesPerGas(fees) => /\ fees.regular \in Uint256 /\ fees.blob \in Uint256
                                    /\ fees = Fees(fees.regular, fees.blob)
BY DEF BasicFeesPerGas, BlobFeesPerGas, FeesPerGas, Fees, Opt

\* A signature that is there is what its parts are packed to.
LEMMA SignatureInverse ==
  ASSUME NEW sig \in ExecutionSignature, sig # None
  PROVE  /\ FitsSignature(sig.r, sig.s, sig.y_parity)
         /\ sig = Secp256k1Pack(sig.r, sig.s, sig.y_parity)
         /\ sig.r \in Nat /\ sig.s \in Nat /\ sig.y_parity \in Nat
<1>1. sig \in Secp256k1ExecutionSignature
  BY DEF ExecutionSignature, Opt
<1> QED
  BY <1>1, WidthAssumption
  DEF Secp256k1ExecutionSignature, FitsSignature, Secp256k1Pack, Uint256, Byte

\* An authorization that is identified recovers one that converts to it: only
\* because chain_id 0 is refused are None and 0 not taken for one another.
LEMMA AuthorizationInverse ==
  ASSUME NEW auth \in Authorization, IdentifiesAuthorization(auth),
         RlpSetCodeAuthorizationPayload(auth.payload), auth.signature # None
  PROVE  /\ RecoverAuthorization(auth) \in SetCodeRlpAuthorization
         /\ FitsAuthorization(RecoverAuthorization(auth))
         /\ UpgradeAuthorization(RecoverAuthorization(auth)) = auth
<1> DEFINE p == auth.payload
           sig == auth.signature
           chain_id == IF p.chain_id # None THEN p.chain_id ELSE 0
           rec == RecoverAuthorization(auth)
<1>1. /\ p \in AuthorizationPayload /\ sig \in ExecutionSignature
      /\ auth = [payload |-> p, signature |-> sig]
  BY DEF Authorization
<1>2. FitsSignature(sig.r, sig.s, sig.y_parity) /\ sig.r \in Nat /\ sig.s \in Nat
      /\ sig.y_parity \in Nat /\ sig = Secp256k1Pack(sig.r, sig.s, sig.y_parity)
  BY <1>1, SignatureInverse
<1>3. /\ p.magic = 5 /\ p.chain_id # 0 /\ p.address \in Addresses
      /\ p.nonce \in Uint64 /\ p.nonce \in Nat /\ p.chain_id \in Opt(Uint64)
      /\ p = [magic |-> 5, chain_id |-> p.chain_id, address |-> p.address, nonce |-> p.nonce]
  BY <1>1 DEF IdentifiesAuthorization, RlpSetCodeAuthorizationPayload, Has,
              AuthorizationPayload, Opt, Uint64
<1>4. /\ chain_id \in Uint64 /\ chain_id \in Nat
      /\ (IF chain_id # 0 THEN chain_id ELSE None) = p.chain_id
  BY <1>3, WidthAssumption DEF Opt, Uint64
<1>5. rec = [chain_id |-> chain_id, address |-> p.address, nonce |-> p.nonce,
             y_parity |-> sig.y_parity, r |-> sig.r, s |-> sig.s]
  BY DEF RecoverAuthorization
<1> HIDE DEF p, sig, chain_id, rec
<1>6. rec \in SetCodeRlpAuthorization
  BY <1>2, <1>3, <1>4, <1>5 DEF SetCodeRlpAuthorization
<1>7. FitsAuthorization(rec)
  BY <1>2, <1>3, <1>4, <1>5 DEF FitsAuthorization
<1>8. UpgradeAuthorization(rec) = auth
  BY <1>1, <1>2, <1>3, <1>4, <1>5 DEF UpgradeAuthorization
<1> QED
  BY <1>6, <1>7, <1>8 DEF rec

\* v says what the chain id and the parity are, if the parity is a bit.
LEMMA VInverse ==
  ASSUME NEW c \in Nat, NEW y \in {0, 1}, NEW v, v = y + 35 + c * 2
  PROVE  /\ v \in Nat /\ HasChainId(v) /\ ChainIdOf(v) = c
         /\ y = IF v % 2 = 0 THEN 1 ELSE 0
<1>1. CASE y = 0
  BY <1>1 DEF HasChainId, ChainIdOf
<1>2. CASE y = 1
  <2>1. v - 35 = 1 + c * 2 /\ v = (18 + c) * 2
    BY <1>2
  <2>2. v \in Nat /\ HasChainId(v) /\ v % 2 = 0
    BY <2>1 DEF HasChainId
  <2>3. (v - 35) \div 2 = c
    BY <2>1
  <2> QED
    BY <1>2, <2>2, <2>3 DEF ChainIdOf
<1> QED
  BY <1>1, <1>2

\* A legacy profile recovers what converts to it, if its parity is a bit.
LEMMA LegacyInverse ==
  ASSUME NEW tx \in Transaction, tx.payload.type_ = 0, FromBase(tx), IdentifiesTransaction(tx),
         tx.signature.y_parity \in {0, 1}
  PROVE  Inverse(tx, RecoverLegacy(tx), UpgradeLegacy(RecoverLegacy(tx)))
<1> DEFINE p == tx.payload
           sig == tx.signature
           rec == RecoverLegacy(tx)
           v == LegacyV(tx)
<1>1. /\ p \in TransactionPayload /\ sig \in ExecutionSignature /\ sig # None
      /\ tx = [payload |-> p, signature |-> sig] /\ RlpLegacyTransactionPayload(p)
  BY DEF Transaction, FromBase
<1>2. FitsSignature(sig.r, sig.s, sig.y_parity) /\ sig.r \in Nat /\ sig.s \in Nat
      /\ sig.y_parity \in Nat /\ sig = Secp256k1Pack(sig.r, sig.s, sig.y_parity)
  BY <1>1, SignatureInverse
<1>3. /\ p.nonce \in Uint64 /\ p.gas \in Uint64 /\ p.value \in Uint256 /\ p.input_ \in Calldata
      /\ p.nonce \in Nat /\ p.gas \in Nat /\ p.value \in Nat /\ p.to \in Opt(Addresses)
      /\ p.max_fees_per_gas \in Opt(FeesPerGas)
      /\ p.chain_id \in Opt(Uint64)
  BY <1>1
  DEF RlpLegacyTransactionPayload, TransactionPayload, Has, CommonFields, Opt, Uint64,
      Uint256
<1>4. /\ p.max_fees_per_gas.regular \in Uint256 /\ p.max_fees_per_gas.regular \in Nat
      /\ p.max_fees_per_gas = Fees(p.max_fees_per_gas.regular, None)
  BY <1>1, <1>3, FeesInverse DEF RlpLegacyTransactionPayload, Uint256
<1>5. /\ v \in Nat /\ sig.y_parity = IF v % 2 = 0 THEN 1 ELSE 0
      /\ p.chain_id = IF HasChainId(v) THEN ChainIdOf(v) ELSE None
      /\ HasChainId(v) => ChainIdOf(v) \in Uint64
  <2>1. CASE p.chain_id = None
    BY <2>1 DEF LegacyV, HasChainId
  <2>2. CASE p.chain_id # None
    <3>1. p.chain_id \in Nat /\ p.chain_id \in Uint64
      BY <1>3, <2>2 DEF Opt, Uint64
    <3>2. v = sig.y_parity + 35 + p.chain_id * 2
      BY <2>2 DEF LegacyV
    <3>3. /\ v \in Nat /\ HasChainId(v) /\ ChainIdOf(v) = p.chain_id
          /\ sig.y_parity = IF v % 2 = 0 THEN 1 ELSE 0
      BY <3>1, <3>2, VInverse
    <3> HIDE DEF v
    <3> QED
      BY <3>1, <3>3
  <2> QED
    BY <2>1, <2>2
<1>6. rec = [type |-> 0, nonce |-> p.nonce, gas_price |-> p.max_fees_per_gas.regular,
             gas |-> p.gas, to |-> RlpTo(p.to), value |-> p.value, data |-> p.input_,
             v |-> v, r |-> sig.r, s |-> sig.s]
  BY DEF RecoverLegacy
<1>7. p = PayloadOf(rec, p.chain_id, p.max_fees_per_gas, p.to,
                    None, None, None, None)
  BY <1>1, <1>6 DEF PayloadOf, TransactionPayload, RlpLegacyTransactionPayload, Lacks
<1>8. SszTo(RlpTo(p.to)) = p.to /\ RlpTo(p.to) \in Addresses \cup {Empty}
  BY <1>3, ToInverse
<1> HIDE DEF p, sig, rec, v
<1>9. rec \in RlpTransaction
  <2>1. rec \in LegacyRlpTransaction
    BY <1>2, <1>3, <1>4, <1>6, <1>8, <1>5 DEF LegacyRlpTransaction
  <2> QED
    BY <2>1 DEF RlpTransaction
<1>10. Fits(rec)
  <2>1. FitsSignature(rec.r, rec.s, 0)
    BY <1>2, <1>6, WidthAssumption DEF FitsSignature, Byte
  <2> QED
    BY <1>3, <1>4, <1>5, <1>6, <2>1 DEF Fits
<1>12. UpgradeLegacy(rec) = [payload |-> p, signature |-> sig]
  <2>1. UpgradeLegacy(rec).payload = p
    BY <1>4, <1>6, <1>7, <1>8, <1>5 DEF UpgradeLegacy, Common, PayloadOf
  <2>2. UpgradeLegacy(rec).signature = sig
    BY <1>2, <1>5, <1>6 DEF UpgradeLegacy
  <2> QED
    BY <2>1, <2>2 DEF UpgradeLegacy
<1> QED
  BY <1>1, <1>9, <1>10, <1>12 DEF Inverse, rec

\* An access list profile recovers what converts to it.
LEMMA AccessListInverse ==
  ASSUME NEW tx \in Transaction, tx.payload.type_ = 1, FromBase(tx), IdentifiesTransaction(tx)
  PROVE  Inverse(tx, RecoverAccessList(tx), UpgradeAccessList(RecoverAccessList(tx)))
<1> DEFINE p == tx.payload
           sig == tx.signature
           rec == RecoverAccessList(tx)
<1>1. /\ p \in TransactionPayload /\ sig \in ExecutionSignature /\ sig # None
      /\ tx = [payload |-> p, signature |-> sig] /\ RlpAccessListTransactionPayload(p)
  BY DEF Transaction, FromBase
<1>2. FitsSignature(sig.r, sig.s, sig.y_parity) /\ sig.r \in Nat /\ sig.s \in Nat
      /\ sig.y_parity \in Nat /\ sig = Secp256k1Pack(sig.r, sig.s, sig.y_parity)
  BY <1>1, SignatureInverse
<1>3. /\ p.nonce \in Uint64 /\ p.gas \in Uint64 /\ p.value \in Uint256 /\ p.input_ \in Calldata
      /\ p.nonce \in Nat /\ p.gas \in Nat /\ p.value \in Nat /\ p.to \in Opt(Addresses)
      /\ p.max_fees_per_gas \in Opt(FeesPerGas)
      /\ p.chain_id \in Uint64 /\ p.chain_id \in Nat /\ p.access_list \in AccessLists
  BY <1>1
  DEF RlpAccessListTransactionPayload, TransactionPayload, Has, CommonFields, Opt,
      Uint64, Uint256
<1>4. /\ p.max_fees_per_gas.regular \in Uint256 /\ p.max_fees_per_gas.regular \in Nat
      /\ p.max_fees_per_gas = Fees(p.max_fees_per_gas.regular, None)
  BY <1>1, <1>3, FeesInverse DEF RlpAccessListTransactionPayload, Uint256
<1>6. rec = [type |-> 1, chain_id |-> p.chain_id, nonce |-> p.nonce,
             gas_price |-> p.max_fees_per_gas.regular, gas |-> p.gas, to |-> RlpTo(p.to),
             value |-> p.value, data |-> p.input_, access_list |-> p.access_list,
             y_parity |-> sig.y_parity, r |-> sig.r, s |-> sig.s]
  BY DEF RecoverAccessList
<1>7. p = PayloadOf(rec, p.chain_id, p.max_fees_per_gas, p.to,
                    p.access_list, None, None, None)
  BY <1>1, <1>6 DEF PayloadOf, TransactionPayload, RlpAccessListTransactionPayload, Lacks
<1>8. SszTo(RlpTo(p.to)) = p.to /\ RlpTo(p.to) \in Addresses \cup {Empty}
  BY <1>3, ToInverse
<1> HIDE DEF p, sig, rec
<1>9. rec \in RlpTransaction
  <2>1. rec \in AccessListRlpTransaction
    BY <1>2, <1>3, <1>4, <1>6, <1>8 DEF AccessListRlpTransaction
  <2> QED
    BY <2>1 DEF RlpTransaction
<1>10. Fits(rec)
  BY <1>2, <1>3, <1>4, <1>6 DEF Fits
<1>12. UpgradeAccessList(rec) = [payload |-> p, signature |-> sig]
  <2>1. UpgradeAccessList(rec).payload = p
    BY <1>4, <1>6, <1>7, <1>8 DEF UpgradeAccessList, Common, PayloadOf
  <2>2. UpgradeAccessList(rec).signature = sig
    BY <1>2, <1>6 DEF UpgradeAccessList
  <2> QED
    BY <2>1, <2>2 DEF UpgradeAccessList
<1> QED
  BY <1>1, <1>9, <1>10, <1>12 DEF Inverse, rec

\* A fee market profile recovers what converts to it.
LEMMA FeeMarketInverse ==
  ASSUME NEW tx \in Transaction, tx.payload.type_ = 2, FromBase(tx), IdentifiesTransaction(tx)
  PROVE  Inverse(tx, RecoverFeeMarket(tx), UpgradeFeeMarket(RecoverFeeMarket(tx)))
<1> DEFINE p == tx.payload
           sig == tx.signature
           rec == RecoverFeeMarket(tx)
<1>1. /\ p \in TransactionPayload /\ sig \in ExecutionSignature /\ sig # None
      /\ tx = [payload |-> p, signature |-> sig] /\ RlpFeeMarketTransactionPayload(p)
  BY DEF Transaction, FromBase
<1>2. FitsSignature(sig.r, sig.s, sig.y_parity) /\ sig.r \in Nat /\ sig.s \in Nat
      /\ sig.y_parity \in Nat /\ sig = Secp256k1Pack(sig.r, sig.s, sig.y_parity)
  BY <1>1, SignatureInverse
<1>3. /\ p.nonce \in Uint64 /\ p.gas \in Uint64 /\ p.value \in Uint256 /\ p.input_ \in Calldata
      /\ p.nonce \in Nat /\ p.gas \in Nat /\ p.value \in Nat /\ p.to \in Opt(Addresses)
      /\ p.max_fees_per_gas \in Opt(FeesPerGas)
      /\ p.max_priority_fees_per_gas \in Opt(FeesPerGas)
      /\ p.chain_id \in Uint64 /\ p.chain_id \in Nat /\ p.access_list \in AccessLists
  BY <1>1
  DEF RlpFeeMarketTransactionPayload, TransactionPayload, Has, CommonFields, Opt,
      Uint64, Uint256
<1>4. /\ p.max_fees_per_gas.regular \in Uint256 /\ p.max_fees_per_gas.regular \in Nat
      /\ p.max_fees_per_gas = Fees(p.max_fees_per_gas.regular, None)
      /\ p.max_priority_fees_per_gas.regular \in Uint256
      /\ p.max_priority_fees_per_gas.regular \in Nat
      /\ p.max_priority_fees_per_gas = Fees(p.max_priority_fees_per_gas.regular, None)
  BY <1>1, <1>3, FeesInverse DEF RlpFeeMarketTransactionPayload, Uint256
<1>6. rec = [type |-> 2, chain_id |-> p.chain_id, nonce |-> p.nonce,
             max_priority_fee_per_gas |-> p.max_priority_fees_per_gas.regular,
             max_fee_per_gas |-> p.max_fees_per_gas.regular, gas |-> p.gas,
             to |-> RlpTo(p.to), value |-> p.value, data |-> p.input_,
             access_list |-> p.access_list, y_parity |-> sig.y_parity, r |-> sig.r,
             s |-> sig.s]
  BY DEF RecoverFeeMarket
<1>7. p = PayloadOf(rec, p.chain_id, p.max_fees_per_gas, p.to,
                    p.access_list, p.max_priority_fees_per_gas, None, None)
  BY <1>1, <1>6 DEF PayloadOf, TransactionPayload, RlpFeeMarketTransactionPayload, Lacks
<1>8. SszTo(RlpTo(p.to)) = p.to /\ RlpTo(p.to) \in Addresses \cup {Empty}
  BY <1>3, ToInverse
<1> HIDE DEF p, sig, rec
<1>9. rec \in RlpTransaction
  <2>1. rec \in FeeMarketRlpTransaction
    BY <1>2, <1>3, <1>4, <1>6, <1>8 DEF FeeMarketRlpTransaction
  <2> QED
    BY <2>1 DEF RlpTransaction
<1>10. Fits(rec)
  BY <1>2, <1>3, <1>4, <1>6 DEF Fits
<1>12. UpgradeFeeMarket(rec) = [payload |-> p, signature |-> sig]
  <2>1. UpgradeFeeMarket(rec).payload = p
    BY <1>4, <1>6, <1>7, <1>8 DEF UpgradeFeeMarket, Common, PayloadOf
  <2>2. UpgradeFeeMarket(rec).signature = sig
    BY <1>2, <1>6 DEF UpgradeFeeMarket
  <2> QED
    BY <2>1, <2>2 DEF UpgradeFeeMarket
<1> QED
  BY <1>1, <1>9, <1>10, <1>12 DEF Inverse, rec

\* A blob profile recovers what converts to it, its blob priority fee being 0.
LEMMA BlobInverse ==
  ASSUME NEW tx \in Transaction, tx.payload.type_ = 3, FromBase(tx), IdentifiesTransaction(tx)
  PROVE  Inverse(tx, RecoverBlob(tx), UpgradeBlob(RecoverBlob(tx)))
<1> DEFINE p == tx.payload
           sig == tx.signature
           rec == RecoverBlob(tx)
<1>1. /\ p \in TransactionPayload /\ sig \in ExecutionSignature /\ sig # None
      /\ tx = [payload |-> p, signature |-> sig] /\ RlpBlobTransactionPayload(p)
  BY DEF Transaction, FromBase
<1>2. FitsSignature(sig.r, sig.s, sig.y_parity) /\ sig.r \in Nat /\ sig.s \in Nat
      /\ sig.y_parity \in Nat /\ sig = Secp256k1Pack(sig.r, sig.s, sig.y_parity)
  BY <1>1, SignatureInverse
<1>3. /\ p.nonce \in Uint64 /\ p.gas \in Uint64 /\ p.value \in Uint256 /\ p.input_ \in Calldata
      /\ p.nonce \in Nat /\ p.gas \in Nat /\ p.value \in Nat /\ p.to \in Opt(Addresses)
      /\ p.max_fees_per_gas \in Opt(FeesPerGas)
      /\ p.max_priority_fees_per_gas \in Opt(FeesPerGas)
      /\ p.chain_id \in Uint64 /\ p.chain_id \in Nat /\ p.access_list \in AccessLists
      /\ p.to \in Addresses
      /\ p.blob_versioned_hashes \in HashLists
  BY <1>1
  DEF RlpBlobTransactionPayload, TransactionPayload, Has, CommonFields, Opt, Uint64,
      Uint256
<1>4. /\ p.max_fees_per_gas.regular \in Uint256 /\ p.max_fees_per_gas.regular \in Nat
      /\ p.max_fees_per_gas.blob \in Uint256 /\ p.max_fees_per_gas.blob \in Nat
      /\ p.max_fees_per_gas = Fees(p.max_fees_per_gas.regular, p.max_fees_per_gas.blob)
      /\ p.max_priority_fees_per_gas.regular \in Uint256
      /\ p.max_priority_fees_per_gas.regular \in Nat
      /\ p.max_priority_fees_per_gas = Fees(p.max_priority_fees_per_gas.regular, 0)
  BY <1>1, <1>3, FeesInverse DEF RlpBlobTransactionPayload, Uint256, IdentifiesTransaction
<1>6. rec = [type |-> 3, chain_id |-> p.chain_id, nonce |-> p.nonce,
             max_priority_fee_per_gas |-> p.max_priority_fees_per_gas.regular,
             max_fee_per_gas |-> p.max_fees_per_gas.regular, gas |-> p.gas, to |-> p.to,
             value |-> p.value, data |-> p.input_, access_list |-> p.access_list,
             max_fee_per_blob_gas |-> p.max_fees_per_gas.blob,
             blob_versioned_hashes |-> p.blob_versioned_hashes, y_parity |-> sig.y_parity,
             r |-> sig.r, s |-> sig.s]
  BY DEF RecoverBlob
<1>7. p = PayloadOf(rec, p.chain_id, p.max_fees_per_gas, p.to,
                    p.access_list, p.max_priority_fees_per_gas, p.blob_versioned_hashes, None)
  BY <1>1, <1>6 DEF PayloadOf, TransactionPayload, RlpBlobTransactionPayload, Lacks
<1>8. p.to \in Addresses
  BY <1>3
<1> HIDE DEF p, sig, rec
<1>9. rec \in RlpTransaction
  <2>1. rec \in BlobRlpTransaction
    BY <1>2, <1>3, <1>4, <1>6, <1>8 DEF BlobRlpTransaction
  <2> QED
    BY <2>1 DEF RlpTransaction
<1>10. Fits(rec)
  BY <1>2, <1>3, <1>4, <1>6 DEF Fits
<1>12. UpgradeBlob(rec) = [payload |-> p, signature |-> sig]
  <2>1. UpgradeBlob(rec).payload = p
    <3>1. /\ rec.type = 3 /\ rec.chain_id = p.chain_id /\ rec.nonce = p.nonce
          /\ rec.max_priority_fee_per_gas = p.max_priority_fees_per_gas.regular
          /\ rec.max_fee_per_gas = p.max_fees_per_gas.regular /\ rec.gas = p.gas
          /\ rec.to = p.to /\ rec.value = p.value /\ rec.data = p.input_
          /\ rec.access_list = p.access_list
          /\ rec.max_fee_per_blob_gas = p.max_fees_per_gas.blob
          /\ rec.blob_versioned_hashes = p.blob_versioned_hashes
      BY <1>6
    <3>2. UpgradeBlob(rec).payload = PayloadOf(rec, p.chain_id, p.max_fees_per_gas, p.to,
            p.access_list, p.max_priority_fees_per_gas, p.blob_versioned_hashes, None)
      BY <1>4, <3>1 DEF UpgradeBlob, Common, PayloadOf
    <3> QED
      BY <1>7, <3>2
  <2>2. UpgradeBlob(rec).signature = sig
    BY <1>2, <1>6 DEF UpgradeBlob
  <2> QED
    BY <2>1, <2>2 DEF UpgradeBlob
<1> QED
  BY <1>1, <1>9, <1>10, <1>12 DEF Inverse, rec

\* A set code profile recovers what converts to it, with its authorizations.
LEMMA SetCodeInverse ==
  ASSUME NEW tx \in Transaction, tx.payload.type_ = 4, FromBase(tx), IdentifiesTransaction(tx)
  PROVE  Inverse(tx, RecoverSetCode(tx), UpgradeSetCode(RecoverSetCode(tx)))
<1> DEFINE p == tx.payload
           sig == tx.signature
           rec == RecoverSetCode(tx)
           list == p.authorization_list
           auths == [k \in 1 .. Len(list) |-> RecoverAuthorization(list[k])]
<1>1. /\ p \in TransactionPayload /\ sig \in ExecutionSignature /\ sig # None
      /\ tx = [payload |-> p, signature |-> sig] /\ RlpSetCodeTransactionPayload(p)
  BY DEF Transaction, FromBase
<1>2. FitsSignature(sig.r, sig.s, sig.y_parity) /\ sig.r \in Nat /\ sig.s \in Nat
      /\ sig.y_parity \in Nat /\ sig = Secp256k1Pack(sig.r, sig.s, sig.y_parity)
  BY <1>1, SignatureInverse
<1>3. /\ p.nonce \in Uint64 /\ p.gas \in Uint64 /\ p.value \in Uint256 /\ p.input_ \in Calldata
      /\ p.nonce \in Nat /\ p.gas \in Nat /\ p.value \in Nat /\ p.to \in Opt(Addresses)
      /\ p.max_fees_per_gas \in Opt(FeesPerGas)
      /\ p.max_priority_fees_per_gas \in Opt(FeesPerGas)
      /\ p.chain_id \in Uint64 /\ p.chain_id \in Nat /\ p.access_list \in AccessLists
      /\ p.to \in Addresses
  BY <1>1
  DEF RlpSetCodeTransactionPayload, TransactionPayload, Has, CommonFields, Opt, Uint64,
      Uint256
<1>4. /\ p.max_fees_per_gas.regular \in Uint256 /\ p.max_fees_per_gas.regular \in Nat
      /\ p.max_fees_per_gas = Fees(p.max_fees_per_gas.regular, None)
      /\ p.max_priority_fees_per_gas.regular \in Uint256
      /\ p.max_priority_fees_per_gas.regular \in Nat
      /\ p.max_priority_fees_per_gas = Fees(p.max_priority_fees_per_gas.regular, None)
  BY <1>1, <1>3, FeesInverse DEF RlpSetCodeTransactionPayload, Uint256
<1>5. /\ list \in Seq(Authorization) /\ auths \in Seq(SetCodeRlpAuthorization)
      /\ Len(auths) = Len(list) /\ DOMAIN auths = 1 .. Len(list)
      /\ \A k \in 1 .. Len(list) :
           FitsAuthorization(auths[k]) /\ UpgradeAuthorization(auths[k]) = list[k]
  <2>1. list \in Seq(Authorization) /\ list # None
    BY <1>1 DEF RlpSetCodeTransactionPayload, TransactionPayload, Has, Opt
  <2>2. \A k \in 1 .. Len(list) : list[k] \in Authorization /\ list[k] \in Authorizations(tx)
    BY <2>1 DEF Authorizations
  <2>3. \A k \in 1 .. Len(list) :
          /\ IdentifiesAuthorization(list[k])
          /\ RlpSetCodeAuthorizationPayload(list[k].payload) /\ list[k].signature # None
    BY <2>2 DEF IdentifiesTransaction
  <2>4. \A k \in 1 .. Len(list) :
          /\ RecoverAuthorization(list[k]) \in SetCodeRlpAuthorization
          /\ FitsAuthorization(RecoverAuthorization(list[k]))
          /\ UpgradeAuthorization(RecoverAuthorization(list[k])) = list[k]
    BY <2>2, <2>3, AuthorizationInverse
  <2> QED
    BY <2>1, <2>4
<1>6. rec = [type |-> 4, chain_id |-> p.chain_id, nonce |-> p.nonce,
             max_priority_fee_per_gas |-> p.max_priority_fees_per_gas.regular,
             max_fee_per_gas |-> p.max_fees_per_gas.regular, gas |-> p.gas, to |-> p.to,
             value |-> p.value, data |-> p.input_, access_list |-> p.access_list,
             authorization_list |-> auths, y_parity |-> sig.y_parity, r |-> sig.r,
             s |-> sig.s]
  BY DEF RecoverSetCode
<1>7. p = PayloadOf(rec, p.chain_id, p.max_fees_per_gas, p.to,
                    p.access_list, p.max_priority_fees_per_gas, None, list)
  BY <1>1, <1>6 DEF PayloadOf, TransactionPayload, RlpSetCodeTransactionPayload, Lacks
<1>8. p.to \in Addresses
  BY <1>3
<1> HIDE DEF p, sig, rec, list, auths
<1>9. rec \in RlpTransaction
  <2>1. rec \in SetCodeRlpTransaction
    BY <1>2, <1>3, <1>4, <1>6, <1>8, <1>5 DEF SetCodeRlpTransaction
  <2> QED
    BY <2>1 DEF RlpTransaction
<1>10. Fits(rec)
  BY <1>2, <1>3, <1>4, <1>5, <1>6 DEF Fits
<1>11. [k \in 1 .. Len(auths) |-> UpgradeAuthorization(auths[k])] = list
  BY <1>5
<1>12. UpgradeSetCode(rec) = [payload |-> p, signature |-> sig]
  <2>1. UpgradeSetCode(rec).payload = p
    <3>1. /\ rec.type = 4 /\ rec.chain_id = p.chain_id /\ rec.nonce = p.nonce
          /\ rec.max_priority_fee_per_gas = p.max_priority_fees_per_gas.regular
          /\ rec.max_fee_per_gas = p.max_fees_per_gas.regular /\ rec.gas = p.gas
          /\ rec.to = p.to /\ rec.value = p.value /\ rec.data = p.input_
          /\ rec.access_list = p.access_list
          /\ rec.authorization_list = auths
      BY <1>6
    <3>2. UpgradeSetCode(rec).payload = PayloadOf(rec, p.chain_id, p.max_fees_per_gas, p.to,
            p.access_list, p.max_priority_fees_per_gas, None, list)
      BY <1>4, <3>1, <1>11 DEF UpgradeSetCode, Common, PayloadOf
    <3> QED
      BY <1>7, <3>2
  <2>2. UpgradeSetCode(rec).signature = sig
    BY <1>2, <1>6 DEF UpgradeSetCode
  <2> QED
    BY <2>1, <2>2 DEF UpgradeSetCode
<1> QED
  BY <1>1, <1>9, <1>10, <1>12 DEF Inverse, rec

\* A legacy transaction keeps what v says only if its parity is a bit.
ParityIsBit(tx) == tx.payload.type_ = 0 => tx.signature.y_parity \in {0, 1}

\* What any SSZ transaction that can be processed recovers
LEMMA RecoverInverse ==
  ASSUME NEW tx \in Transaction, FromBase(tx), IdentifiesTransaction(tx), ParityIsBit(tx)
  PROVE  Inverse(tx, Recover(tx), Upgrade(Recover(tx))) /\ Recover(tx).type = tx.payload.type_
<1>0. tx.payload.type_ \in {0, 1, 2, 3, 4}
  BY DEF IdentifiesTransaction
<1>1. CASE tx.payload.type_ = 0
  <2>1. Recover(tx) = RecoverLegacy(tx) /\ RecoverLegacy(tx).type = 0
    BY <1>1 DEF Recover, RecoverLegacy
  <2>2. Upgrade(Recover(tx)) = UpgradeLegacy(RecoverLegacy(tx))
    BY <2>1 DEF Upgrade
  <2> QED
    BY <1>1, <2>1, <2>2, LegacyInverse DEF ParityIsBit
<1>2. CASE tx.payload.type_ = 1
  <2>1. Recover(tx) = RecoverAccessList(tx) /\ RecoverAccessList(tx).type = 1
    BY <1>2 DEF Recover, RecoverAccessList
  <2>2. Upgrade(Recover(tx)) = UpgradeAccessList(RecoverAccessList(tx))
    BY <2>1 DEF Upgrade
  <2> QED
    BY <1>2, <2>1, <2>2, AccessListInverse
<1>3. CASE tx.payload.type_ = 2
  <2>1. Recover(tx) = RecoverFeeMarket(tx) /\ RecoverFeeMarket(tx).type = 2
    BY <1>3 DEF Recover, RecoverFeeMarket
  <2>2. Upgrade(Recover(tx)) = UpgradeFeeMarket(RecoverFeeMarket(tx))
    BY <2>1 DEF Upgrade
  <2> QED
    BY <1>3, <2>1, <2>2, FeeMarketInverse
<1>4. CASE tx.payload.type_ = 3
  <2>1. Recover(tx) = RecoverBlob(tx) /\ RecoverBlob(tx).type = 3
    BY <1>4 DEF Recover, RecoverBlob
  <2>2. Upgrade(Recover(tx)) = UpgradeBlob(RecoverBlob(tx))
    BY <2>1 DEF Upgrade
  <2> QED
    BY <1>4, <2>1, <2>2, BlobInverse
<1>5. CASE tx.payload.type_ = 4
  <2>1. Recover(tx) = RecoverSetCode(tx) /\ RecoverSetCode(tx).type = 4
    BY <1>5 DEF Recover, RecoverSetCode
  <2>2. Upgrade(Recover(tx)) = UpgradeSetCode(RecoverSetCode(tx))
    BY <2>1 DEF Upgrade
  <2> QED
    BY <1>5, <2>1, <2>2, SetCodeInverse
<1> QED
  BY <1>0, <1>1, <1>2, <1>3, <1>4, <1>5

----------------------------------------------------------------------------
(* The hashes of RLP transactions tell apart what they are hashes of. *)

\* The byte before the list tells the type.
LEMMA TypesOfHashes ==
  ASSUME NEW a \in RlpTransaction
  PROVE  /\ a.type \in {0, 1, 2, 3, 4}
         /\ RlpSigHash(a).prefix = (IF a.type = 0 THEN None ELSE a.type)
         /\ RlpTxHash(a).prefix = (IF a.type = 0 THEN None ELSE a.type)
<1>1. a.type \in {0, 1, 2, 3, 4}
  BY DEF RlpTransaction, LegacyRlpTransaction, AccessListRlpTransaction,
         FeeMarketRlpTransaction, BlobRlpTransaction, SetCodeRlpTransaction
<1>2. RlpTxHash(a).prefix = (IF a.type = 0 THEN None ELSE a.type)
  BY DEF RlpTxHash, Keccak
<1>3. RlpSigHash(a).prefix = (IF a.type = 0 THEN None ELSE a.type)
  BY <1>1 DEF RlpSigHash, LegacySigHash, AccessListSigHash, FeeMarketSigHash, BlobSigHash,
              SetCodeSigHash, Keccak
<1> QED
  BY <1>1, <1>2, <1>3

\* The record set that a type names
LEMMA TypeNames ==
  ASSUME NEW a \in RlpTransaction
  PROVE  /\ a.type = 0 => a \in LegacyRlpTransaction
         /\ a.type = 1 => a \in AccessListRlpTransaction
         /\ a.type = 2 => a \in FeeMarketRlpTransaction
         /\ a.type = 3 => a \in BlobRlpTransaction
         /\ a.type = 4 => a \in SetCodeRlpTransaction
BY DEF RlpTransaction, LegacyRlpTransaction, AccessListRlpTransaction,
       FeeMarketRlpTransaction, BlobRlpTransaction, SetCodeRlpTransaction

\* What a legacy signature signs says what the payload is: with a chain id the
\* list has nine fields, without one it has six.
LEMMA LegacySigHashBinds ==
  ASSUME NEW a \in LegacyRlpTransaction, NEW b \in LegacyRlpTransaction,
         LegacySigHash(a) = LegacySigHash(b)
  PROVE  UpgradeLegacy(a).payload = UpgradeLegacy(b).payload
<1> DEFINE la == LegacySigHash(a).list
           lb == LegacySigHash(b).list
           fields == {"nonce", "gas_price", "gas", "to", "value", "data"}
<1>1. ASSUME NEW x \in LegacyRlpTransaction
      PROVE  /\ DOMAIN x = fields \cup {"type", "v", "r", "s"}
             /\ HasChainId(x.v) => /\ DOMAIN LegacySigHash(x).list = fields \cup {"v", "r", "s"}
                                   /\ LegacySigHash(x).list["v"] = ChainIdOf(x.v)
             /\ ~HasChainId(x.v) => DOMAIN LegacySigHash(x).list = fields
             /\ \A f \in fields : LegacySigHash(x).list[f] = x[f]
  <2>1. DOMAIN x = fields \cup {"type", "v", "r", "s"}
    BY DEF LegacyRlpTransaction
  <2>2. CASE HasChainId(x.v)
    <3> DEFINE y == [x EXCEPT !.v = ChainIdOf(x.v), !.r = 0, !.s = 0]
    <3>1. LegacySigHash(x).list = Without(y, {})
      BY <2>2 DEF LegacySigHash, Keccak
    <3>2. DOMAIN y = DOMAIN x /\ y["v"] = ChainIdOf(x.v) /\ \A f \in fields : y[f] = x[f]
      BY <2>1
    <3> HIDE DEF y
    <3> QED
      BY <2>1, <2>2, <3>1, <3>2 DEF Without
  <2>3. CASE ~HasChainId(x.v)
    <3>1. LegacySigHash(x).list = Without(x, {"v", "r", "s"})
      BY <2>3 DEF LegacySigHash, Keccak
    <3> QED
      BY <2>1, <2>3, <3>1 DEF Without
  <2> QED
    BY <2>1, <2>2, <2>3
<1>2. \A f \in fields : a[f] = b[f]
  BY <1>1
<1>3. /\ HasChainId(a.v) <=> HasChainId(b.v)
      /\ HasChainId(a.v) => ChainIdOf(a.v) = ChainIdOf(b.v)
  <2>1. HasChainId(a.v) <=> "v" \in DOMAIN la
    BY <1>1
  <2>2. HasChainId(b.v) <=> "v" \in DOMAIN lb
    BY <1>1
  <2> QED
    BY <1>1, <2>1, <2>2
<1>4. /\ a.nonce = b.nonce /\ a.gas_price = b.gas_price /\ a.gas = b.gas /\ a.to = b.to
      /\ a.value = b.value /\ a.data = b.data /\ a.type = b.type
  BY <1>2 DEF LegacyRlpTransaction
<1> QED
  BY <1>3, <1>4 DEF UpgradeLegacy, Common

\* What an access list signature signs says what the payload is.
LEMMA AccessListSigHashBinds ==
  ASSUME NEW a \in AccessListRlpTransaction, NEW b \in AccessListRlpTransaction,
         AccessListSigHash(a) = AccessListSigHash(b)
  PROVE  UpgradeAccessList(a).payload = UpgradeAccessList(b).payload
<1>1. Without(a, {"y_parity", "r", "s"}) = Without(b, {"y_parity", "r", "s"})
  BY DEF AccessListSigHash, Keccak
<1>2. /\ a.type = b.type
      /\ a.chain_id = b.chain_id /\ a.nonce = b.nonce /\ a.gas_price = b.gas_price
      /\ a.gas = b.gas /\ a.to = b.to /\ a.value = b.value
      /\ a.data = b.data /\ a.access_list = b.access_list
  BY <1>1 DEF Without, AccessListRlpTransaction
<1> QED
  BY <1>2 DEF UpgradeAccessList, Common

\* What a fee market signature signs says what the payload is.
LEMMA FeeMarketSigHashBinds ==
  ASSUME NEW a \in FeeMarketRlpTransaction, NEW b \in FeeMarketRlpTransaction,
         FeeMarketSigHash(a) = FeeMarketSigHash(b)
  PROVE  UpgradeFeeMarket(a).payload = UpgradeFeeMarket(b).payload
<1>1. Without(a, {"y_parity", "r", "s"}) = Without(b, {"y_parity", "r", "s"})
  BY DEF FeeMarketSigHash, Keccak
<1>2. /\ a.type = b.type
      /\ a.chain_id = b.chain_id /\ a.nonce = b.nonce
      /\ a.max_priority_fee_per_gas = b.max_priority_fee_per_gas
      /\ a.max_fee_per_gas = b.max_fee_per_gas /\ a.gas = b.gas /\ a.to = b.to
      /\ a.value = b.value /\ a.data = b.data /\ a.access_list = b.access_list
  BY <1>1 DEF Without, FeeMarketRlpTransaction
<1> QED
  BY <1>2 DEF UpgradeFeeMarket, Common

\* What a blob signature signs says what the payload is.
LEMMA BlobSigHashBinds ==
  ASSUME NEW a \in BlobRlpTransaction, NEW b \in BlobRlpTransaction,
         BlobSigHash(a) = BlobSigHash(b)
  PROVE  UpgradeBlob(a).payload = UpgradeBlob(b).payload
<1>1. Without(a, {"y_parity", "r", "s"}) = Without(b, {"y_parity", "r", "s"})
  BY DEF BlobSigHash, Keccak
<1>2. /\ a.type = b.type
      /\ a.chain_id = b.chain_id /\ a.nonce = b.nonce
      /\ a.max_priority_fee_per_gas = b.max_priority_fee_per_gas
      /\ a.max_fee_per_gas = b.max_fee_per_gas /\ a.gas = b.gas /\ a.to = b.to
      /\ a.value = b.value /\ a.data = b.data /\ a.access_list = b.access_list
      /\ a.max_fee_per_blob_gas = b.max_fee_per_blob_gas
      /\ a.blob_versioned_hashes = b.blob_versioned_hashes
  BY <1>1 DEF Without, BlobRlpTransaction
<1> QED
  BY <1>2 DEF UpgradeBlob, Common

\* What a set code signature signs says what the payload is.
LEMMA SetCodeSigHashBinds ==
  ASSUME NEW a \in SetCodeRlpTransaction, NEW b \in SetCodeRlpTransaction,
         SetCodeSigHash(a) = SetCodeSigHash(b)
  PROVE  UpgradeSetCode(a).payload = UpgradeSetCode(b).payload
<1>1. Without(a, {"y_parity", "r", "s"}) = Without(b, {"y_parity", "r", "s"})
  BY DEF SetCodeSigHash, Keccak
<1>2. /\ a.type = b.type
      /\ a.chain_id = b.chain_id /\ a.nonce = b.nonce
      /\ a.max_priority_fee_per_gas = b.max_priority_fee_per_gas
      /\ a.max_fee_per_gas = b.max_fee_per_gas /\ a.gas = b.gas /\ a.to = b.to
      /\ a.value = b.value /\ a.data = b.data /\ a.access_list = b.access_list
      /\ a.authorization_list = b.authorization_list
  BY <1>1 DEF Without, SetCodeRlpTransaction
<1> QED
  BY <1>2 DEF UpgradeSetCode, Common

\* What any signature signs says what the payload is.
LEMMA SigHashBinds ==
  ASSUME NEW a \in RlpTransaction, NEW b \in RlpTransaction, RlpSigHash(a) = RlpSigHash(b)
  PROVE  Upgrade(a).payload = Upgrade(b).payload
<1>0. a.type = b.type /\ a.type \in {0, 1, 2, 3, 4}
  BY TypesOfHashes, OpaqueAssumption
<1>1. CASE a.type = 0
  <2>1. a \in LegacyRlpTransaction /\ b \in LegacyRlpTransaction
    BY <1>0, <1>1, TypeNames
  <2>2. LegacySigHash(a) = LegacySigHash(b)
    BY <1>0, <1>1 DEF RlpSigHash
  <2>3. Upgrade(a) = UpgradeLegacy(a) /\ Upgrade(b) = UpgradeLegacy(b)
    BY <1>0, <1>1 DEF Upgrade
  <2> QED
    BY <2>1, <2>2, <2>3, LegacySigHashBinds
<1>2. CASE a.type = 1
  <2>1. a \in AccessListRlpTransaction /\ b \in AccessListRlpTransaction
    BY <1>0, <1>2, TypeNames
  <2>2. AccessListSigHash(a) = AccessListSigHash(b)
    BY <1>0, <1>2 DEF RlpSigHash
  <2>3. Upgrade(a) = UpgradeAccessList(a) /\ Upgrade(b) = UpgradeAccessList(b)
    BY <1>0, <1>2 DEF Upgrade
  <2> QED
    BY <2>1, <2>2, <2>3, AccessListSigHashBinds
<1>3. CASE a.type = 2
  <2>1. a \in FeeMarketRlpTransaction /\ b \in FeeMarketRlpTransaction
    BY <1>0, <1>3, TypeNames
  <2>2. FeeMarketSigHash(a) = FeeMarketSigHash(b)
    BY <1>0, <1>3 DEF RlpSigHash
  <2>3. Upgrade(a) = UpgradeFeeMarket(a) /\ Upgrade(b) = UpgradeFeeMarket(b)
    BY <1>0, <1>3 DEF Upgrade
  <2> QED
    BY <2>1, <2>2, <2>3, FeeMarketSigHashBinds
<1>4. CASE a.type = 3
  <2>1. a \in BlobRlpTransaction /\ b \in BlobRlpTransaction
    BY <1>0, <1>4, TypeNames
  <2>2. BlobSigHash(a) = BlobSigHash(b)
    BY <1>0, <1>4 DEF RlpSigHash
  <2>3. Upgrade(a) = UpgradeBlob(a) /\ Upgrade(b) = UpgradeBlob(b)
    BY <1>0, <1>4 DEF Upgrade
  <2> QED
    BY <2>1, <2>2, <2>3, BlobSigHashBinds
<1>5. CASE a.type = 4
  <2>1. a \in SetCodeRlpTransaction /\ b \in SetCodeRlpTransaction
    BY <1>0, <1>5, TypeNames
  <2>2. SetCodeSigHash(a) = SetCodeSigHash(b)
    BY <1>0, <1>5 DEF RlpSigHash
  <2>3. Upgrade(a) = UpgradeSetCode(a) /\ Upgrade(b) = UpgradeSetCode(b)
    BY <1>0, <1>5 DEF Upgrade
  <2> QED
    BY <2>1, <2>2, <2>3, SetCodeSigHashBinds
<1> QED
  BY <1>0, <1>1, <1>2, <1>3, <1>4, <1>5

\* What a transaction is hashed to says what it is.
LEMMA TxHashBinds ==
  ASSUME NEW a \in RlpTransaction, NEW b \in RlpTransaction, RlpTxHash(a) = RlpTxHash(b)
  PROVE  a = b
<1>0. a.type = b.type /\ a.type \in {0, 1, 2, 3, 4}
  BY TypesOfHashes, OpaqueAssumption
<1>6. Without(a, {}) = Without(b, {})
  BY DEF RlpTxHash, Keccak
<1>1. CASE a.type = 0
  <2>1. a \in LegacyRlpTransaction /\ b \in LegacyRlpTransaction
    BY <1>0, <1>1, TypeNames
  <2>2. /\ a.nonce = b.nonce /\ a.gas_price = b.gas_price /\ a.gas = b.gas
        /\ a.to = b.to /\ a.value = b.value /\ a.data = b.data
        /\ a.v = b.v /\ a.r = b.r /\ a.s = b.s
    BY <1>6, <2>1 DEF Without, LegacyRlpTransaction
  <2> QED
    BY <1>0, <2>1, <2>2 DEF LegacyRlpTransaction
<1>2. CASE a.type = 1
  <2>1. a \in AccessListRlpTransaction /\ b \in AccessListRlpTransaction
    BY <1>0, <1>2, TypeNames
  <2>2. /\ a.chain_id = b.chain_id /\ a.nonce = b.nonce /\ a.gas_price = b.gas_price
        /\ a.gas = b.gas /\ a.to = b.to /\ a.value = b.value
        /\ a.data = b.data /\ a.access_list = b.access_list /\ a.y_parity = b.y_parity
        /\ a.r = b.r /\ a.s = b.s
    BY <1>6, <2>1 DEF Without, AccessListRlpTransaction
  <2> QED
    BY <1>0, <2>1, <2>2 DEF AccessListRlpTransaction
<1>3. CASE a.type = 2
  <2>1. a \in FeeMarketRlpTransaction /\ b \in FeeMarketRlpTransaction
    BY <1>0, <1>3, TypeNames
  <2>2. /\ a.chain_id = b.chain_id /\ a.nonce = b.nonce
        /\ a.max_priority_fee_per_gas = b.max_priority_fee_per_gas
        /\ a.max_fee_per_gas = b.max_fee_per_gas /\ a.gas = b.gas /\ a.to = b.to
        /\ a.value = b.value /\ a.data = b.data /\ a.access_list = b.access_list
        /\ a.y_parity = b.y_parity /\ a.r = b.r /\ a.s = b.s
    BY <1>6, <2>1 DEF Without, FeeMarketRlpTransaction
  <2> QED
    BY <1>0, <2>1, <2>2 DEF FeeMarketRlpTransaction
<1>4. CASE a.type = 3
  <2>1. a \in BlobRlpTransaction /\ b \in BlobRlpTransaction
    BY <1>0, <1>4, TypeNames
  <2>2. /\ a.chain_id = b.chain_id /\ a.nonce = b.nonce
        /\ a.max_priority_fee_per_gas = b.max_priority_fee_per_gas
        /\ a.max_fee_per_gas = b.max_fee_per_gas /\ a.gas = b.gas /\ a.to = b.to
        /\ a.value = b.value /\ a.data = b.data /\ a.access_list = b.access_list
        /\ a.max_fee_per_blob_gas = b.max_fee_per_blob_gas
        /\ a.blob_versioned_hashes = b.blob_versioned_hashes /\ a.y_parity = b.y_parity
        /\ a.r = b.r /\ a.s = b.s
    BY <1>6, <2>1 DEF Without, BlobRlpTransaction
  <2> QED
    BY <1>0, <2>1, <2>2 DEF BlobRlpTransaction
<1>5. CASE a.type = 4
  <2>1. a \in SetCodeRlpTransaction /\ b \in SetCodeRlpTransaction
    BY <1>0, <1>5, TypeNames
  <2>2. /\ a.chain_id = b.chain_id /\ a.nonce = b.nonce
        /\ a.max_priority_fee_per_gas = b.max_priority_fee_per_gas
        /\ a.max_fee_per_gas = b.max_fee_per_gas /\ a.gas = b.gas /\ a.to = b.to
        /\ a.value = b.value /\ a.data = b.data /\ a.access_list = b.access_list
        /\ a.authorization_list = b.authorization_list /\ a.y_parity = b.y_parity /\ a.r = b.r
        /\ a.s = b.s
    BY <1>6, <2>1 DEF Without, SetCodeRlpTransaction
  <2> QED
    BY <1>0, <2>1, <2>2 DEF SetCodeRlpTransaction
<1> QED
  BY <1>0, <1>1, <1>2, <1>3, <1>4, <1>5

\* A list that is hashed for a signature lacks y_parity, or has r = 0.
LEMMA HashesApart ==
  ASSUME NEW a \in RlpTransaction, NEW b \in RlpTransaction, a.r # 0
  PROVE  RlpTxHash(a) # RlpSigHash(b)
<1> SUFFICES ASSUME RlpTxHash(a) = RlpSigHash(b) PROVE FALSE
  OBVIOUS
<1>0. a.type = b.type /\ a.type \in {0, 1, 2, 3, 4}
  BY TypesOfHashes, OpaqueAssumption
<1>6. "r" \in DOMAIN RlpTxHash(a).list /\ RlpTxHash(a).list["r"] = a.r
  <2>1. "r" \in DOMAIN a
    BY DEF RlpTransaction, LegacyRlpTransaction, AccessListRlpTransaction,
           FeeMarketRlpTransaction, BlobRlpTransaction, SetCodeRlpTransaction
  <2>2. RlpTxHash(a).list = Without(a, {})
    BY DEF RlpTxHash, Keccak
  <2>3. "r" \in DOMAIN Without(a, {}) /\ Without(a, {})["r"] = a["r"]
    BY <2>1 DEF Without
  <2> QED
    BY <2>2, <2>3
<1>1. CASE a.type = 0
  <2>1. b \in LegacyRlpTransaction
    BY <1>0, <1>1, TypeNames
  <2>0. RlpSigHash(b) = LegacySigHash(b)
    BY <1>0, <1>1 DEF RlpSigHash
  <2>2. CASE HasChainId(b.v)
    <3> DEFINE y == [b EXCEPT !.v = ChainIdOf(b.v), !.r = 0, !.s = 0]
    <3>1. LegacySigHash(b).list = Without(y, {})
      BY <2>2 DEF LegacySigHash, Keccak
    <3>2. y["r"] = 0
      BY <2>1 DEF LegacyRlpTransaction
    <3> HIDE DEF y
    <3> QED
      BY <1>6, <2>0, <2>1, <3>1, <3>2 DEF Without
  <2>3. CASE ~HasChainId(b.v)
    <3>1. LegacySigHash(b).list = Without(b, {"v", "r", "s"})
      BY <2>3 DEF LegacySigHash, Keccak
    <3> QED
      BY <1>6, <2>0, <2>1, <3>1 DEF Without
  <2> QED
    BY <2>2, <2>3
<1>2. CASE a.type # 0
  <2>1. RlpSigHash(b).list = Without(b, {"y_parity", "r", "s"})
    BY <1>0, <1>2 DEF RlpSigHash, AccessListSigHash, FeeMarketSigHash, BlobSigHash,
                      SetCodeSigHash, Keccak
  <2> QED
    BY <1>6, <2>1 DEF Without
<1> QED
  BY <1>1, <1>2

----------------------------------------------------------------------------
(* The node.                                                               *)

\* What a converted transaction becomes is kept, and an entry of the index is
\* computed from its transaction and from nothing else.
Entry(tx) == [tx |-> tx, sig_hash |-> ComputeSigHash(tx), tx_hash |-> ComputeTxHash(tx)]

Inv ==
  /\ TypeOK
  /\ \A tx \in converted : Fits(tx) /\ Upgrade(tx) \in pool
  /\ \A e \in index : CanProcess(e.tx) /\ e = Entry(e.tx)

\* The empty node satisfies it.
LEMMA InitInv == Init => Inv
BY DEF Init, Inv, TypeOK

\* Every call keeps it.
LEMMA NextInv == Inv /\ [Next]_vars => Inv'
<1> SUFFICES ASSUME Inv, [Next]_vars PROVE Inv'
  OBVIOUS
<1>1. CASE ReceiveRlp
  <2>1. PICK tx \in RlpInputs :
          /\ Fits(tx) /\ pool' = pool \cup {Upgrade(tx)}
          /\ converted' = converted \cup {tx} /\ index' = index
    BY <1>1 DEF ReceiveRlp, Keep
  <2>2. Upgrade(tx) \in Transaction
    BY <2>1, UpgradeKept, InputAssumption DEF Kept
  <2>3. TypeOK'
    BY <2>1, <2>2 DEF Inv, TypeOK
  <2>4. (\A x \in converted : Fits(x) /\ Upgrade(x) \in pool)'
    BY <2>1 DEF Inv
  <2>5. (\A e \in index : CanProcess(e.tx) /\ e = Entry(e.tx))'
    BY <2>1 DEF Inv
  <2> QED
    BY <2>3, <2>4, <2>5 DEF Inv
<1>2. CASE ReceiveSsz
  <2>1. PICK tx \in SszInputs :
          pool' = pool \cup {tx} /\ converted' = converted /\ index' = index
    BY <1>2 DEF ReceiveSsz, Keep
  <2>2. TypeOK'
    BY <2>1, InputAssumption DEF Inv, TypeOK
  <2> QED
    BY <2>1, <2>2 DEF Inv
<1>3. CASE Process
  <2>1. PICK tx \in pool :
          /\ CanProcess(tx) /\ index' = index \cup {Entry(tx)}
          /\ converted' = converted /\ pool' = pool
    BY <1>3 DEF Process, Entry
  <2>2. Entry(tx).tx = tx
    BY DEF Entry
  <2>3. TypeOK'
    BY <2>1, <2>2 DEF Inv, TypeOK
  <2>4. (\A e \in index : CanProcess(e.tx) /\ e = Entry(e.tx))'
    BY <2>1, <2>2 DEF Inv
  <2> QED
    BY <2>1, <2>3, <2>4 DEF Inv
<1>4. CASE UNCHANGED vars
  BY <1>4 DEF vars, Inv, TypeOK
<1> QED
  BY <1>1, <1>2, <1>3, <1>4 DEF Next

\* It holds of every reachable state.
LEMMA SpecInv == Spec => []Inv
BY InitInv, NextInv, PTL DEF Spec

\* The pool of TransactionPool holds SSZ transactions and nothing else, also
\* those that convert.py made, and the index only what is in the pool.
THEOREM SpecTypeOK == Spec => []TypeOK
<1>1. Inv => TypeOK
  BY DEF Inv
<1> QED
  BY <1>1, SpecInv, PTL

\* A transaction that fits converts to one that can be processed, but for a
\* legacy transaction whose v is no uint64.
LEMMA UpgradeCanBeProcessed ==
  ASSUME NEW tx \in RlpTransaction, Fits(tx), tx.type = 0 => tx.v <= MaxUint64
  PROVE  CanProcess(Upgrade(tx)) /\ Recover(Upgrade(tx)) = tx
<1> DEFINE up == Upgrade(tx)
<1>1. /\ IdentifiesTransaction(up) /\ FromBase(up) /\ up.payload.type_ = tx.type
      /\ Recover(up) = tx
  BY UpgradeKept DEF Kept
<1>2. CASE tx.type = 0
  <2>1. tx \in LegacyRlpTransaction /\ up = UpgradeLegacy(tx)
    BY <1>2, TypeNames DEF Upgrade
  <2>2. LegacyV(up) = tx.v /\ tx.v \in Uint64
    BY <1>2, <2>1, LegacyVKept, WidthAssumption DEF LegacyRlpTransaction, Uint64
  <2>3. RecoverLegacy(up) = tx
    BY <1>1, <1>2 DEF Recover
  <2>4. LegacyCanHash(tx)
    BY <1>2, <2>1 DEF Fits, LegacyCanHash, Uint64
  <2>5. CanHash(up)
    BY <1>1, <1>2, <2>2, <2>3, <2>4 DEF CanHash, CanRecover
  <2> QED
    BY <1>1, <2>5 DEF CanProcess
<1>3. CASE tx.type # 0
  <2>1. CanHash(up)
    BY <1>1, <1>3 DEF CanHash, CanRecover
  <2> QED
    BY <1>1, <2>1 DEF CanProcess
<1>4. CanProcess(up)
  BY <1>2, <1>3
<1> QED
  BY <1>1, <1>4

\* The conversion of convert.py is lossless and keeps the hashes that
\* tx_hashes.py recovers, for every transaction whose numbers fit.
THEOREM SpecConversionLossless == Spec => []ConversionLossless
<1>1. Inv => ConversionLossless
  <2> SUFFICES ASSUME Inv, NEW tx \in converted, tx.type = 0 => tx.v <= MaxUint64
               PROVE  /\ CanProcess(Upgrade(tx))
                      /\ Recover(Upgrade(tx)) = tx
                      /\ \A e \in index : e.tx = Upgrade(tx) =>
                           e.sig_hash = RlpSigHash(tx) /\ e.tx_hash = RlpTxHash(tx)
    BY DEF ConversionLossless
  <2>1. tx \in RlpTransaction /\ Fits(tx)
    BY InputAssumption DEF Inv, TypeOK
  <2>2. CanProcess(Upgrade(tx)) /\ Recover(Upgrade(tx)) = tx
    BY <2>1, UpgradeCanBeProcessed
  <2>3. ASSUME NEW e \in index, e.tx = Upgrade(tx)
        PROVE  e.sig_hash = RlpSigHash(tx) /\ e.tx_hash = RlpTxHash(tx)
    <3>1. e = Entry(Upgrade(tx))
      BY <2>3 DEF Inv
    <3>2. e.sig_hash = ComputeSigHash(Upgrade(tx)) /\ e.tx_hash = ComputeTxHash(Upgrade(tx))
      BY <3>1 DEF Entry
    <3> QED
      BY <2>2, <3>2 DEF ComputeSigHash, ComputeTxHash
  <2> QED
    BY <2>2, <2>3
<1> QED
  BY <1>1, SpecInv, PTL

\* An entry with a valid signature has what its RLP transaction is hashed to,
\* and comes from that.
LEMMA ValidatedEntry ==
  ASSUME Inv, NEW e \in Validated
  PROVE  /\ Recover(e.tx) \in RlpTransaction /\ Fits(Recover(e.tx))
         /\ Upgrade(Recover(e.tx)) = e.tx /\ Recover(e.tx).r # 0
         /\ e.sig_hash = RlpSigHash(Recover(e.tx)) /\ e.tx_hash = RlpTxHash(Recover(e.tx))
         /\ e = Entry(e.tx)
<1>1. e \in index /\ Validates(e.tx.signature)
  BY DEF Validated
<1>2. /\ e.tx \in Transaction /\ IdentifiesTransaction(e.tx) /\ FromBase(e.tx)
      /\ e = Entry(e.tx)
  BY <1>1 DEF Inv, TypeOK, CanProcess
<1>3. ParityIsBit(e.tx) /\ e.tx.signature.r # 0
  BY <1>1 DEF ParityIsBit, Validates
<1>4. Inverse(e.tx, Recover(e.tx), Upgrade(Recover(e.tx)))
  BY <1>2, <1>3, RecoverInverse
<1>5. e.sig_hash = ComputeSigHash(e.tx) /\ e.tx_hash = ComputeTxHash(e.tx)
  BY <1>2 DEF Entry
<1>6. e.tx.payload.type_ \in {0, 1, 2, 3, 4}
  BY <1>2 DEF IdentifiesTransaction
<1>7. Recover(e.tx).r = e.tx.signature.r
  BY <1>6 DEF Recover, RecoverLegacy, RecoverAccessList, RecoverFeeMarket, RecoverBlob,
              RecoverSetCode
<1> QED
  BY <1>2, <1>3, <1>4, <1>5, <1>7 DEF Inverse, ComputeSigHash, ComputeTxHash

\* SSZ expresses nothing that RLP does not: what a transaction with a valid
\* signature recovers in tx_hashes.py converts, in convert.py, to it.
THEOREM SpecIndexedFromRlp == Spec => []IndexedFromRlp
<1>1. Inv => IndexedFromRlp
  BY ValidatedEntry DEF IndexedFromRlp
<1> QED
  BY <1>1, SpecInv, PTL

\* A signature that tx_hashes.py computes a hash for signs one payload.
THEOREM SpecSigHashBindsPayload == Spec => []SigHashBindsPayload
<1>1. Inv => SigHashBindsPayload
  <2> SUFFICES ASSUME Inv, NEW d \in Validated, NEW e \in Validated, d.sig_hash = e.sig_hash
               PROVE  d.tx.payload = e.tx.payload
    BY DEF SigHashBindsPayload
  <2>1. RlpSigHash(Recover(d.tx)) = RlpSigHash(Recover(e.tx))
    BY ValidatedEntry
  <2>2. Upgrade(Recover(d.tx)).payload = Upgrade(Recover(e.tx)).payload
    BY <2>1, ValidatedEntry, SigHashBinds
  <2> QED
    BY <2>2, ValidatedEntry
<1> QED
  BY <1>1, SpecInv, PTL

\* The tx_hash of tx_hashes.py identifies a transaction and is no sig_hash.
THEOREM SpecTxHashIdentifies == Spec => []TxHashIdentifies
<1>1. Inv => TxHashIdentifies
  <2> SUFFICES ASSUME Inv, NEW d \in Validated, NEW e \in Validated
               PROVE  (d.tx_hash = e.tx_hash => d.tx = e.tx) /\ d.tx_hash # e.sig_hash
    BY DEF TxHashIdentifies
  <2>1. ASSUME d.tx_hash = e.tx_hash PROVE d.tx = e.tx
    <3>1. RlpTxHash(Recover(d.tx)) = RlpTxHash(Recover(e.tx))
      BY <2>1, ValidatedEntry
    <3>2. Recover(d.tx) = Recover(e.tx)
      BY <3>1, ValidatedEntry, TxHashBinds
    <3> QED
      BY <3>2, ValidatedEntry
  <2>2. d.tx_hash # e.sig_hash
    BY ValidatedEntry, HashesApart
  <2> QED
    BY <2>1, <2>2
<1> QED
  BY <1>1, SpecInv, PTL

\* The authorizations of a transaction that can be processed are identified
\* and have their profile.
LEMMA AuthorizationsIdentified ==
  ASSUME NEW tx \in Transaction, CanProcess(tx), NEW a \in Authorizations(tx)
  PROVE  /\ a \in Authorization /\ IdentifiesAuthorization(a)
         /\ RlpSetCodeAuthorizationPayload(a.payload) /\ a.signature # None
<1>1. tx.payload.authorization_list # None
  BY DEF Authorizations
<1>2. tx.payload.authorization_list \in Seq(Authorization)
  BY <1>1 DEF Transaction, TransactionPayload, Opt
<1>3. PICK k \in DOMAIN tx.payload.authorization_list : a = tx.payload.authorization_list[k]
  BY <1>1 DEF Authorizations
<1>4. a \in Authorization
  BY <1>2, <1>3
<1>5. tx.payload.type_ = 4
  <2>1. FromBase(tx) /\ IdentifiesTransaction(tx)
    BY DEF CanProcess
  <2>2. tx.payload.type_ = 0 => RlpLegacyTransactionPayload(tx.payload)
    BY <2>1 DEF FromBase
  <2>3. tx.payload.type_ = 1 => RlpAccessListTransactionPayload(tx.payload)
    BY <2>1 DEF FromBase
  <2>4. tx.payload.type_ = 2 => RlpFeeMarketTransactionPayload(tx.payload)
    BY <2>1 DEF FromBase
  <2>5. tx.payload.type_ = 3 => RlpBlobTransactionPayload(tx.payload)
    BY <2>1 DEF FromBase
  <2>6. tx.payload.type_ \in {0, 1, 2, 3, 4}
    BY <2>1 DEF IdentifiesTransaction
  <2> QED
    BY <1>1, <2>2, <2>3, <2>4, <2>5, <2>6
    DEF RlpLegacyTransactionPayload, RlpAccessListTransactionPayload,
        RlpFeeMarketTransactionPayload, RlpBlobTransactionPayload, Lacks
<1>6. \A x \in Authorizations(tx) :
        /\ IdentifiesAuthorization(x)
        /\ RlpSetCodeAuthorizationPayload(x.payload) /\ x.signature # None
  BY <1>5 DEF CanProcess, IdentifiesTransaction
<1> QED
  BY <1>4, <1>6

\* An authority's signature on the hash of tx_hashes.py:176-181 signs one
\* authorization, for one chain or for all.
THEOREM SpecAuthHashBindsPayload == Spec => []AuthHashBindsPayload
<1>1. Inv => AuthHashBindsPayload
  <2> SUFFICES ASSUME Inv, NEW d \in index, NEW e \in index,
                      NEW a \in Authorizations(d.tx), NEW b \in Authorizations(e.tx),
                      ComputeAuthHash(a) = ComputeAuthHash(b)
               PROVE  a.payload = b.payload
    BY DEF AuthHashBindsPayload
  <2>1. d.tx \in Transaction /\ e.tx \in Transaction /\ CanProcess(d.tx) /\ CanProcess(e.tx)
    BY DEF Inv, TypeOK
  <2> DEFINE ra == RecoverAuthorization(a)
             rb == RecoverAuthorization(b)
  <2>2. /\ ra \in SetCodeRlpAuthorization /\ UpgradeAuthorization(ra) = a
        /\ rb \in SetCodeRlpAuthorization /\ UpgradeAuthorization(rb) = b
    BY <2>1, AuthorizationsIdentified, AuthorizationInverse
  <2>3. Without(ra, {"y_parity", "r", "s"}) = Without(rb, {"y_parity", "r", "s"})
    BY DEF ComputeAuthHash, SetCodeAuthHash, Keccak
  <2> HIDE DEF ra, rb
  <2>4. ra.chain_id = rb.chain_id /\ ra.address = rb.address /\ ra.nonce = rb.nonce
    BY <2>2, <2>3 DEF Without, SetCodeRlpAuthorization
  <2>5. UpgradeAuthorization(ra).payload = UpgradeAuthorization(rb).payload
    BY <2>4 DEF UpgradeAuthorization
  <2> QED
    BY <2>2, <2>5
<1> QED
  BY <1>1, SpecInv, PTL

=============================================================================
