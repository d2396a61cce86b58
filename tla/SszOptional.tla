---------------------------- MODULE SszOptional ----------------------------
(***************************************************************************)
(* Optional[T] of assets/eip-6475/optional.py: a tree with a value or no   *)
(* value on the left and their number on the right.  T is uint8 or another *)
(* Optional type: a type is the number of Optionals around uint8.          *)
(***************************************************************************)
EXTENDS SszTree

Uint8 == 0
Optional(T) == T + 1
ElementCls(T) == T - 1

\* What stands for no value where a node may be given.
None == [none |-> TRUE]

\* cls(value); contents_depth() is 0.
NewOptional(value) ==
  PairNode(SubtreeFillToContents(IF value = None THEN <<>> ELSE <<value>>, 0, 0),
           UintNode(IF value = None THEN 0 ELSE 1))

DefaultNode == PairNode(Zero(0), Zero(0))

Present(node) == UintOf(Getter(node, 3)) # 0
Get(node) == IF Present(node) THEN Getter(node, 2) ELSE None

\* set: storing a value where there was none, or none where there was a
\* value, calls to_gindex, which the file does not import (lines 83, 104).
CanSet(node, value) == (value = None) = ~Present(node)
Set(node, value) == IF value = None THEN node ELSE Setter(node, 2, value, FALSE)

----------------------------------------------------------------------------
(***************************************************************************)
(* The bytes of a value: at the type t, of what is T - t Optionals deep in *)
(* the node, and so on the left T - t times.                               *)
(***************************************************************************)

\* Mutated form: no byte tells a value from none.
SerializeBare(T, node) ==
  LET bytes[t \in Nat] ==
        LET value == Getter(node, 2^(T - t))
        IN IF t = Uint8 THEN <<UintOf(value)>>
           ELSE IF Get(value) = None THEN <<>> ELSE bytes[ElementCls(t)]
  IN bytes[T]

Serialize(T, node) ==
  LET bytes[t \in Nat] ==
        LET value == Getter(node, 2^(T - t))
        IN IF t = Uint8 THEN <<UintOf(value)>>
           ELSE IF Get(value) = None THEN <<>> ELSE <<1>> \o bytes[ElementCls(t)]
  IN bytes[T]

\* The node read from all of the bytes, or Raised.  What is read of the type t
\* is what T - t bytes precede.
Deserialize(T, bytes) ==
  LET read[t \in Nat] ==
        LET scope == Len(bytes) - (T - t)
            value == read[ElementCls(t)]
        IN IF t = Uint8 THEN IF scope = 1 THEN UintNode(bytes[T + 1]) ELSE Raised
           ELSE IF scope = 0 THEN NewOptional(None)
           ELSE IF bytes[T - t + 1] = 1 /\ value # Raised THEN NewOptional(value) ELSE Raised
  IN read[T]

MinByteLength(T) == IF T = Uint8 THEN 1 ELSE 0
MaxByteLength(T) ==
  LET max[t \in Nat] == IF t = Uint8 THEN 1 ELSE 1 + max[ElementCls(t)]
  IN max[T]

=============================================================================
