------------------------------ MODULE Hashing -------------------------------
(***************************************************************************)
(* The hash primitives of assets/eip-4881/eip_4881.py, and the deposit     *)
(* contract's tree of hashes.                                              *)
(*                                                                         *)
(* Hashes are symbolic: sha256 is taken to be injective, so that a hash is *)
(* the term that was hashed.  The one coincidence of byte strings that the *)
(* code relies on is kept: thirty-two zero bytes are both zerohashes[0]    *)
(* and to_le_bytes(0).                                                     *)
(***************************************************************************)
EXTENDS Integers, Sequences

CONSTANT Depth      \* DEPOSIT_CONTRACT_DEPTH, 32 in the code

ASSUME DepthAssumption == Depth \in Nat \ {0}

Levels == 0 .. Depth

\* The deposit contract accepts one deposit less than its tree has leaves.
MaxDeposits == 2^Depth - 1

Sha256(x, y) == <<"sha256", x, y>>

ZeroBytes == <<"zero bytes">>

ToLeBytes(i) == IF i = 0 THEN ZeroBytes ELSE <<"number", i>>

\* The root of a subtree of height i that holds no deposit.
zerohashes[i \in 0 .. Depth - 1] ==
  IF i = 0 THEN ZeroBytes ELSE Sha256(zerohashes[i - 1], zerohashes[i - 1])

\* The hash of the i-th deposit of the contract's log, counted from 0.
DepositRoot(i) == <<"deposit", i>>

\* The hashes of subtrees by their height.
Hash[level \in Levels] ==
  IF level = 0 THEN {ZeroBytes} \union {DepositRoot(i) : i \in 0 .. MaxDeposits - 1}
  ELSE LET below == Hash[level - 1] IN {"sha256"} \X below \X below

\* The contract's tree of the first c deposits, level by level: leaves that
\* are not used hold zero bytes.
Layer(c) ==
  LET layer[level \in Levels] ==
        [i \in 0 .. 2^(Depth - level) - 1 |->
           IF level = 0 THEN IF i < c THEN DepositRoot(i) ELSE ZeroBytes
           ELSE Sha256(layer[level - 1][2 * i], layer[level - 1][2 * i + 1])]
  IN layer

\* get_deposit_root of the contract after c deposits.
LogRoot[c \in 0 .. MaxDeposits] == Sha256(Layer(c)[Depth][0], ToLeBytes(c))

=============================================================================
