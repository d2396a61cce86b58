-------------------------- MODULE MCTransactionPool --------------------------
(* Instances of TransactionPool for TLC. *)
EXTENDS TransactionPool

CONSTANTS a1, a2, data1, data2, access1, access2, hashes1, hashes2

MCAddresses == {a1, a2}
MCCalldata == {data1, data2}
MCAccessLists == {access1, access2}
MCHashLists == {hashes1, hashes2}

\* A number of its own for each field, so that fields taken for one another show
Legacy(v) ==
  [type |-> 0, nonce |-> 2, gas_price |-> 4, gas |-> 6, to |-> a1, value |-> 8,
   data |-> data1, v |-> v, r |-> 10, s |-> 12]

AccessListTx ==
  [type |-> 1, chain_id |-> 1, nonce |-> 2, gas_price |-> 4, gas |-> 6, to |-> a1,
   value |-> 8, data |-> data1, access_list |-> access1, y_parity |-> 0, r |-> 10, s |-> 12]

FeeMarketTx ==
  [type |-> 2, chain_id |-> 1, nonce |-> 2, max_priority_fee_per_gas |-> 3,
   max_fee_per_gas |-> 4, gas |-> 6, to |-> a1, value |-> 8, data |-> data1,
   access_list |-> access1, y_parity |-> 0, r |-> 10, s |-> 12]

BlobTx ==
  [type |-> 3, chain_id |-> 1, nonce |-> 2, max_priority_fee_per_gas |-> 3,
   max_fee_per_gas |-> 4, gas |-> 6, to |-> a1, value |-> 8, data |-> data1,
   access_list |-> access1, max_fee_per_blob_gas |-> 5, blob_versioned_hashes |-> hashes1,
   y_parity |-> 0, r |-> 10, s |-> 12]

Auth(chain_id, y_parity) ==
  [chain_id |-> chain_id, address |-> a1, nonce |-> 7, y_parity |-> y_parity,
   r |-> 9, s |-> 11]

SetCodeTx(auths) ==
  [type |-> 4, chain_id |-> 1, nonce |-> 2, max_priority_fee_per_gas |-> 3,
   max_fee_per_gas |-> 4, gas |-> 6, to |-> a1, value |-> 8, data |-> data1,
   access_list |-> access1, authorization_list |-> auths, y_parity |-> 0, r |-> 10, s |-> 12]

Typed == {AccessListTx, FeeMarketTx, BlobTx}
           \cup {SetCodeTx(auths) : auths \in {<<>>, <<Auth(0, 0)>>,
                   <<Auth(1, 1), [Auth(1, 0) EXCEPT !.nonce = 8]>>}}

\* v without a chain id and around it; the chain ids at which v passes uint64,
\* and at which the chain id does
Legacies == {Legacy(v) : v \in {0, 27, 28, 29, 35, 36, 37, 62, 63, 64, 65, 161, 162, 163}}

\* One field changed, to a value that SSZ may find too wide
Changed(tx) ==
  {[tx EXCEPT ![f] = n] :
     f \in DOMAIN tx \cap {"chain_id", "nonce", "value", "y_parity"}, n \in {0, 1, 64, 300}}
  \cup (IF tx.type <= 2 THEN {[tx EXCEPT !.to = Empty]} ELSE {})

MCRlpInputs == Legacies \cup Typed \cup UNION {Changed(tx) : tx \in Typed \cup {Legacy(28)}}

\* What the RLP transactions convert to, with another signature, with a field
\* taken away, or with one that the type does not have
Bases == {Upgrade(tx) : tx \in {Legacy(27), Legacy(37)} \cup Typed}

MCSszInputs ==
  {[tx EXCEPT !.signature = sig] : tx \in Bases, sig \in
     {None} \cup {[r |-> r, s |-> 12, y_parity |-> y] : r \in {0, 10}, y \in {1, 2, 8}}}
  \cup {[tx EXCEPT !.payload[f] = None] : tx \in Bases, f \in DOMAIN Common(BlobTx)}
  \cup {[tx EXCEPT !.payload[f] = Fees(1, 0)] : tx \in Bases,
          f \in {"max_fees_per_gas", "max_priority_fees_per_gas"}}
  \cup {[tx EXCEPT !.payload.max_priority_fees_per_gas = Fees(3, 1)] : tx \in Bases}
  \cup {[tx EXCEPT !.payload.chain_id = 20] : tx \in Bases}
  \cup {[Upgrade(SetCodeTx(<<Auth(0, 0)>>)) EXCEPT
           !.payload.authorization_list[1].payload[f] = n] :
         f \in {"magic", "chain_id", "nonce"}, n \in {None, 0, 1}}

=============================================================================
