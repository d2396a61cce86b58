------------------------------ MODULE SszCodec ------------------------------
(***************************************************************************)
(* The backing trees of assets/eip-7495/stable_container.py and their      *)
(* serialization.                                                          *)
(*                                                                         *)
(* The node of a uint is a chunk with its value; zero_node(0) is the chunk *)
(* of 0, as in the library.  The node of a StableContainer or a Profile is *)
(* a pair: data has the leaves of the left subtree in their order, active  *)
(* the bits of the right one.  A stream is the sequence of its bytes.      *)
(***************************************************************************)
EXTENDS SszTypes

None == [none |-> TRUE]          \* Python's None as the value of a field

Chunk(value) == [chunk |-> value]
ZeroNode == Chunk(0)

PairNode(data, active) == [data |-> data, active |-> active]

IsActive(node, f) == node.active[f.findex]

\* Mutated form: an erased field keeps its leaf.
StableSetKeepsLeaf(node, findex, value) ==
  PairNode(IF value = None THEN node.data ELSE [node.data EXCEPT ![findex] = value],
           [node.active EXCEPT ![findex] = value # None])

\* Mutated form: a value does not make its field active again.
StableSetKeepsBit(node, findex, value) ==
  PairNode([node.data EXCEPT ![findex] = IF value = None THEN ZeroNode ELSE value],
           [node.active EXCEPT ![findex] = @ /\ value # None])

\* What stable_set makes of a backing; value is a node or None.
StableSet(node, findex, value) ==
  PairNode([node.data EXCEPT ![findex] = IF value = None THEN ZeroNode ELSE value],
           [node.active EXCEPT ![findex] = value # None])

StableGet(node, f) == IF IsActive(node, f) THEN node.data[f.findex] ELSE None

----------------------------------------------------------------------------
(***************************************************************************)
(* Construction: kwargs is a function from the given keys to nodes and     *)
(* None.  A value that is a view gives its backing, whatever its class.    *)
(***************************************************************************)
NewStableContainer(t, kwargs) ==
  LET given(i) == \E f \in Fields(t) : /\ f.findex = i
                                       /\ f.fkey \in DOMAIN kwargs
                                       /\ kwargs[f.fkey] # None
      input(i) == kwargs[(CHOOSE f \in Fields(t) : f.findex = i).fkey]
  IN PairNode([i \in Slots(t) |-> IF given(i) THEN input(i) ELSE ZeroNode],
              [i \in Slots(t) |-> given(i)])

RECURSIVE DefaultNode(_)
DefaultNode(t) ==
  CASE t.kind = "uint" -> ZeroNode
    [] t.kind = "StableContainer" -> NewStableContainer(t, <<>>)
    [] t.kind = "Profile" ->
         NewStableContainer(Base(t),
           [k \in {f.fkey : f \in {g \in Fields(t) : ~g.fopt}} |->
              DefaultNode(FieldOf(t, k).ftyp)])

\* A profile gives its required fields their default where no value is given.
NewProfile(t, kwargs) ==
  NewStableContainer(Base(t),
    [k \in DOMAIN kwargs \cup {f.fkey : f \in {g \in Fields(t) : ~g.fopt}} |->
       IF k \in DOMAIN kwargs THEN kwargs[k] ELSE DefaultNode(FieldOf(t, k).ftyp)])

New(t, kwargs) ==
  IF t.kind = "Profile" THEN NewProfile(t, kwargs) ELSE NewStableContainer(t, kwargs)

\* getattr(view, fkey) of a view of type t does not raise.
Readable(t, node, fkey) ==
  /\ fkey \in Keys(t)
  /\ t.kind = "Profile" =>
       FieldOf(t, fkey).fopt \/ IsActive(node, FieldOf(t, fkey))

\* t.coerce_view(v) for a view v of type u with backing node.
Coercible(t, u, node) == \A k \in Keys(t) : Readable(u, node, k)
CoerceView(t, u, node) ==
  New(t, [k \in Keys(t) |-> StableGet(node, FieldOf(u, k))])

----------------------------------------------------------------------------
RECURSIVE CheckBacking(_, _)

CheckField(f, node) ==
  f.ftyp.kind # "uint" => CheckBacking(f.ftyp, node.data[f.findex])

CheckBacking(t, node) ==
  /\ \A f \in Fields(t) : IsActive(node, f) => CheckField(f, node)
  /\ t.kind = "Profile" =>
       \A f \in Fields(Base(t)) :
         IF f.fkey \notin Keys(t) THEN ~IsActive(node, f)
         ELSE FieldOf(t, f.fkey).fopt \/ IsActive(node, f)
  /\ \A i \in Len(Base(t).fields) .. Capacity(t) - 1 : ~node.active[i]

----------------------------------------------------------------------------
(***************************************************************************)
(* Bytes of numbers and of bitvectors, as the library writes and reads     *)
(* them                                                                    *)
(***************************************************************************)
ToBytes(value, n) == [i \in 1 .. n |-> (value \div 256^(i - 1)) % 256]
FromBytes(bytes) ==
  FoldLeftDomain(LAMBDA sum, i : sum + bytes[i] * 256^(i - 1), 0, bytes)

\* bits is a sequence of Booleans
BitsToBytes(bits) ==
  LET bit(j, i) == IF 8 * (j - 1) + i <= Len(bits) /\ bits[8 * (j - 1) + i]
                   THEN 2^(i - 1) ELSE 0
  IN [j \in 1 .. BitvectorLength(Len(bits)) |->
        bit(j, 1) + bit(j, 2) + bit(j, 3) + bit(j, 4)
          + bit(j, 5) + bit(j, 6) + bit(j, 7) + bit(j, 8)]

BytesToBits(bytes) ==
  [i \in 1 .. 8 * Len(bytes) |->
     (bytes[(i - 1) \div 8 + 1] \div 2^((i - 1) % 8)) % 2 = 1]

\* The bits that precede the values: those of all slots, or of the optional
\* fields of a profile.
PrefixBits(t, node) ==
  IF t.kind = "Profile"
  THEN [i \in DOMAIN OptionalFields(t) |-> IsActive(node, OptionalFields(t)[i])]
  ELSE [i \in 1 .. t.n |-> node.active[i - 1]]

----------------------------------------------------------------------------
(***************************************************************************)
(* serialize: the bytes written, and the count that is returned            *)
(***************************************************************************)
\* A profile counts a required field without looking whether it is there.
Counted(t, node) ==
  SelectSeq(t.fields, LAMBDA f : IF t.kind = "Profile" /\ ~f.fopt
                                 THEN TRUE ELSE IsActive(node, f))
Written(t, node) == SelectSeq(t.fields, LAMBDA f : IsActive(node, f))

RECURSIVE Serialize(_, _)

SerializeField(node, stream, f) ==
  LET v == Serialize(f.ftyp, node.data[f.findex])
  IN IF IsFixedLength(f.ftyp)
     THEN [stream EXCEPT !.fixed = @ \o v.bytes]
     ELSE [fixed |-> stream.fixed \o ToBytes(stream.count, OFFSET_BYTE_LENGTH),
           dynamic |-> stream.dynamic \o v.bytes,
           count |-> stream.count + v.count]

Serialize(t, node) ==
  IF t.kind = "uint" THEN [bytes |-> ToBytes(node.chunk, t.n), count |-> t.n]
  ELSE LET prefix == BitsToBytes(PrefixBits(t, node))
           stream == FoldLeft(LAMBDA s, f : SerializeField(node, s, f),
                       [fixed |-> <<>>, dynamic |-> <<>>,
                        count |-> FixedSize(Counted(t, node))],
                       Written(t, node))
       IN [bytes |-> prefix \o stream.fixed \o stream.dynamic,
           count |-> Len(prefix) + stream.count]

----------------------------------------------------------------------------
(***************************************************************************)
(* deserialize: reads from the front of a stream; ok is FALSE when it      *)
(* raises                                                                  *)
(***************************************************************************)
Raised == [ok |-> FALSE, node |-> ZeroNode, rest |-> <<>>]

Take(bytes, n) == SubSeq(bytes, 1, n)
Drop(bytes, n) == SubSeq(bytes, n + 1, Len(bytes))

\* Mutated form: the bits of a profile are taken by the field's own index.
SelectedByIndex(t, bits) ==
  SelectSeq(t.fields, LAMBDA f :
    f.fopt => f.findex + 1 \in DOMAIN bits /\ bits[f.findex + 1])

\* The fields that the bits in front announce.
Selected(t, bits) ==
  LET nth(f) == Len(SelectSeq(t.fields, LAMBDA g : g.fopt /\ g.findex <= f.findex))
  IN SelectSeq(t.fields, LAMBDA f : f.fopt => bits[nth(f)])

RECURSIVE Deserialize(_, _, _)

\* The fixed-size values and the offsets, in one pass over the fields.
ReadFixed(state, f) ==
  IF ~state.ok THEN state
  ELSE IF IsFixedLength(f.ftyp)
  THEN LET v == Deserialize(f.ftyp, state.rest, MinLength(f.ftyp))
       IN [state EXCEPT !.ok = v.ok, !.rest = v.rest,
                        !.values = (f.fkey :> v.node) @@ @]
  ELSE IF Len(state.rest) < OFFSET_BYTE_LENGTH THEN [state EXCEPT !.ok = FALSE]
  ELSE [state EXCEPT !.rest = Drop(@, OFFSET_BYTE_LENGTH),
                     !.offsets = Append(@, FromBytes(Take(state.rest,
                                                          OFFSET_BYTE_LENGTH)))]

\* The i-th of the fields that have an offset; ends holds the offsets and
\* the scope.
ReadDynamic(state, f, i, ends) ==
  LET fsize == ends[i + 1] - ends[i]
      v == Deserialize(f.ftyp, state.rest, fsize)
  IN IF ~state.ok \/ fsize < 0 \/ fsize \notin MinLength(f.ftyp) .. MaxLength(f.ftyp)
     THEN [state EXCEPT !.ok = FALSE]
     ELSE [state EXCEPT !.ok = v.ok, !.rest = v.rest,
                        !.values = (f.fkey :> v.node) @@ @]

ReadValues(fields, stream, scope) ==
  LET start == [ok |-> TRUE, rest |-> stream, values |-> <<>>, offsets |-> <<>>]
      fixed == FoldLeft(ReadFixed, start, fields)
      dynamic == SelectSeq(fields, LAMBDA f : ~IsFixedLength(f.ftyp))
      fixedSize == FixedSize(fields)
      ends == Append(fixed.offsets, scope)
  IN IF ~fixed.ok THEN fixed
     ELSE IF dynamic = <<>> THEN [fixed EXCEPT !.ok = scope = fixedSize]
     ELSE IF ends[1] < fixedSize THEN [fixed EXCEPT !.ok = FALSE]
     ELSE FoldLeftDomain(LAMBDA s, i : ReadDynamic(s, dynamic[i], i, ends),
                         fixed, dynamic)

DeserializeUint(t, stream, scope) ==
  IF scope # t.n \/ Len(stream) < t.n THEN Raised
  ELSE [ok |-> TRUE, node |-> Chunk(FromBytes(Take(stream, t.n))),
        rest |-> Drop(stream, t.n)]

DeserializeFields(t, stream, scope) ==
  LET n == PrefixLength(t)
      bits == BytesToBits(Take(stream, n))
      known == IF t.kind = "Profile" THEN Len(OptionalFields(t)) ELSE Len(t.fields)
      read == ReadValues(Selected(t, bits), Drop(stream, n), scope - n)
  IN IF \/ scope < n \/ Len(stream) < n
        \/ \E i \in DOMAIN bits : i > known /\ bits[i]
     THEN Raised
     ELSE IF ~read.ok THEN Raised
     ELSE [ok |-> TRUE, node |-> New(t, read.values), rest |-> read.rest]

Deserialize(t, stream, scope) ==
  IF t.kind = "uint" THEN DeserializeUint(t, stream, scope)
                     ELSE DeserializeFields(t, stream, scope)

\* encode_bytes and decode_bytes
EncodeBytes(t, node) == Serialize(t, node).bytes
DecodeBytes(t, stream) == Deserialize(t, stream, Len(stream))

=============================================================================
