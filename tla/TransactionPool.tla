--------------------------- MODULE TransactionPool ---------------------------
(***************************************************************************)
(* A node that keeps SSZ transactions, as src/EIPS/eip-6404.md:433 has it: *)
(* it accepts RLP transactions and converts them, accepts SSZ transactions *)
(* from others, and identifies each, whatever its origin, by the hashes    *)
(* recovered from its SSZ form.                                            *)
(*                                                                         *)
(* A transaction that a call raises for stays without hashes.              *)
(***************************************************************************)
EXTENDS Transactions, FiniteSets

CONSTANTS
  RlpInputs,         \* the RLP transactions that may be sent to the node
  SszInputs,         \* the SSZ transactions that may be sent to the node
  MaxTransactions    \* bound on the transactions that the node keeps

ASSUME InputAssumption == RlpInputs \subseteq RlpTransaction /\ SszInputs \subseteq Transaction

VARIABLES
  converted,   \* the RLP transactions that the node has converted
  pool,        \* the SSZ transactions that it keeps
  index        \* the hashes of those that it has processed

vars == <<converted, pool, index>>

Init == converted = {} /\ pool = {} /\ index = {}

Keep(tx) ==
  /\ pool' = pool \cup {tx}
  /\ Cardinality(pool') <= MaxTransactions

ReceiveRlp ==
  \E tx \in RlpInputs :
    /\ Fits(tx)
    /\ Keep(Upgrade(tx))
    /\ converted' = converted \cup {tx}
    /\ UNCHANGED index

ReceiveSsz ==
  \E tx \in SszInputs :
    /\ Keep(tx)
    /\ UNCHANGED <<converted, index>>

CanProcess(tx) == IdentifiesTransaction(tx) /\ FromBase(tx) /\ CanHash(tx)

\* The profile is identified, the transaction converted to it and its hashes
\* computed.
Process ==
  \E tx \in pool :
    /\ CanProcess(tx)
    /\ index' = index \cup {[tx |-> tx, sig_hash |-> ComputeSigHash(tx),
                             tx_hash |-> ComputeTxHash(tx)]}
    /\ UNCHANGED <<converted, pool>>

Next == ReceiveRlp \/ ReceiveSsz \/ Process

Spec == Init /\ [][Next]_vars

----------------------------------------------------------------------------
\* The pool has transactions of the SSZ type, and only those are in the index.
TypeOK ==
  /\ converted \subseteq RlpInputs
  /\ pool \subseteq Transaction
  /\ \A e \in index : e.tx \in pool

\* The conversion is lossless (eip-6404.md:447) and keeps the hashes (433):
\* every RLP transaction that was converted can be processed, comes out as it
\* was sent, and is found under the hashes that its sender computed.  The one
\* exception is a legacy transaction whose v is no uint64 (tx_hashes.py:9).
ConversionLossless ==
  \A tx \in converted : (tx.type = LEGACY_TX_TYPE => tx.v <= MaxUint64) =>
    /\ CanProcess(Upgrade(tx))
    /\ Recover(Upgrade(tx)) = tx
    /\ \A e \in index : e.tx = Upgrade(tx) =>
         e.sig_hash = RlpSigHash(tx) /\ e.tx_hash = RlpTxHash(tx)

\* Entries whose signature secp256k1_validate (ssz_types.py:36-41) accepts
Validated == {e \in index : Validates(e.tx.signature)}

\* A signature signs one payload: whatever form they came in, two transactions
\* with the same sig_hash have the same payload, every field of it.
SigHashBindsPayload ==
  \A d, e \in Validated : d.sig_hash = e.sig_hash => d.tx.payload = e.tx.payload

\* The tx_hash identifies a transaction (eip-6404.md:445), and is never what a
\* signature signs: only validation of the signatures tells apart the legacy
\* transactions whose y_parity runs over into the chain id in v, and those
\* with r and s 0, which are hashed like a payload with a chain id.
TxHashIdentifies ==
  \A d, e \in Validated :
    /\ d.tx_hash = e.tx_hash => d.tx = e.tx
    /\ d.tx_hash # e.sig_hash

\* SSZ expresses nothing that RLP does not: a transaction with a valid signature
\* that a node has hashed is what the RLP transaction it recovers converts to.
IndexedFromRlp ==
  \A e \in Validated :
    /\ Recover(e.tx) \in RlpTransaction
    /\ Fits(Recover(e.tx))
    /\ Upgrade(Recover(e.tx)) = e.tx

\* What an authority signs is one authorization: no two authorizations in
\* processed transactions have one hash and differ in chain, address or nonce,
\* although the chain id of any chain is None in SSZ and 0 in RLP.
AuthHashBindsPayload ==
  \A d, e \in index : \A a \in Authorizations(d.tx), b \in Authorizations(e.tx) :
    ComputeAuthHash(a) = ComputeAuthHash(b) => a.payload = b.payload

=============================================================================
