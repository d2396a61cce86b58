------------------------------ MODULE SszTypes ------------------------------
(***************************************************************************)
(* The SSZ types of assets/eip-7495/stable_container.py: what may be       *)
(* declared a StableContainer or a Profile, which types share a Merkle     *)
(* layout, and how long the serialization of a type can be.                *)
(*                                                                         *)
(* A Python class is a record: its kind is the class it derives from, n    *)
(* its capacity (of a uint, its bytes), base its element type (lists and   *)
(* vectors) or base type (profiles).                                       *)
(***************************************************************************)
EXTENDS Integers, SequencesExt

CONSTANT OFFSET_BYTE_LENGTH     \* of remerkleable, 4 in that library

ASSUME OffsetAssumption == OFFSET_BYTE_LENGTH \in Nat \ {0}

SszType(kind, name, n, fields, base) ==
  [kind |-> kind, name |-> name, n |-> n, fields |-> fields, base |-> base]

Field(fkey, findex, ftyp, fopt) ==
  [fkey |-> fkey, findex |-> findex, ftyp |-> ftyp, fopt |-> fopt]

Uint(n) == SszType("uint", "uint", n, <<>>, <<>>)
Boolean == SszType("boolean", "boolean", 1, <<>>, <<>>)
Bits(kind, n) == SszType(kind, kind, n, <<>>, <<>>)
Many(kind, elem, n) == SszType(kind, kind, n, <<>>, <<elem>>)
Bytes(kind, n) == Many(kind, Uint(1), n)

Fields(t) == ToSet(t.fields)
Keys(t) == {f.fkey : f \in Fields(t)}
FieldOf(t, fkey) == CHOOSE f \in Fields(t) : f.fkey = fkey

\* The type whose Merkle layout t has, and the class attribute N of it.
Base(t) == IF t.kind = "Profile" THEN t.base[1] ELSE t
Capacity(t) == Base(t).n
Slots(t) == 0 .. Capacity(t) - 1

----------------------------------------------------------------------------
(***************************************************************************)
(* Declarations                                                            *)
(***************************************************************************)
RECURSIVE Compatible(_, _)

SameFields(t, b) ==
  /\ Len(t.fields) = Len(b.fields)
  /\ \A i \in DOMAIN t.fields :
       /\ t.fields[i].fkey = b.fields[i].fkey
       /\ Compatible(t.fields[i].ftyp, b.fields[i].ftyp)

\* Mutated form: capacities are not compared.
CompatibleIgnoresCapacity(t, b) ==
  \/ t = b
  \/ t.kind \in {"Bitlist", "Bitvector"} /\ b.kind = t.kind
  \/ t.kind = "List" /\ b.kind = "List" /\ Compatible(t.base[1], b.base[1])

\* has_compatible_merkleization: byte lists and byte vectors count as lists
\* and vectors of uint8.
Compatible(t, b) ==
  \/ t = b
  \/ t.kind \in {"boolean", "uint"} /\ b.kind = t.kind /\ t.n = b.n
  \/ t.kind \in {"Bitlist", "Bitvector"} /\ b.kind = t.kind /\ t.n = b.n
  \/ /\ \E family \in {{"ByteList", "List"}, {"ByteVector", "Vector"}} :
          {t.kind, b.kind} \subseteq family
     /\ t.n = b.n
     /\ Compatible(t.base[1], b.base[1])
  \/ t.kind = "Container" /\ b.kind = "Container" /\ SameFields(t, b)
  \/ /\ t.kind = "StableContainer" /\ b.kind = "StableContainer"
     /\ t.n = b.n
     /\ SameFields(t, b)
  \/ /\ t.kind = "Profile" /\ b.kind = "StableContainer"
     /\ Compatible(t.base[1], b)
  \/ /\ t.kind = "Profile" /\ b.kind = "Profile"
     /\ Compatible(t.base[1], b.base[1])
     /\ SameFields(t, b)

\* class name(Container): annotations
Container(name, annotations) ==
  SszType("Container", name, 0,
    [i \in DOMAIN annotations |->
       Field(annotations[i].fkey, i - 1, annotations[i].ftyp, FALSE)], <<>>)

\* class name(StableContainer[n]): annotations
StableContainer(name, n, annotations) ==
  SszType("StableContainer", name, n,
    [i \in DOMAIN annotations |->
       Field(annotations[i].fkey, i - 1, annotations[i].ftyp, TRUE)], <<>>)

StableContainerAccepted(n, annotations) ==
  /\ n > 0
  /\ \A i \in DOMAIN annotations : annotations[i].fopt
  /\ Len(annotations) <= n

\* class name(Profile[b]): annotations
Profile(name, b, annotations) ==
  SszType("Profile", name, 0,
    [i \in DOMAIN annotations |->
       Field(annotations[i].fkey, FieldOf(b, annotations[i].fkey).findex,
             annotations[i].ftyp, annotations[i].fopt)], <<b>>)

\* The fields of a profile keep the order of the base type.
FieldsFollow(b, annotations) ==
  \A i, j \in DOMAIN annotations :
    i < j => FieldOf(b, annotations[i].fkey).findex
               < FieldOf(b, annotations[j].fkey).findex

ProfileAccepted(b, annotations) ==
  /\ \A i \in DOMAIN annotations : annotations[i].fkey \in Keys(b)
  /\ FieldsFollow(b, annotations)
  /\ \A i \in DOMAIN annotations :
       Compatible(annotations[i].ftyp, FieldOf(b, annotations[i].fkey).ftyp)

----------------------------------------------------------------------------
(***************************************************************************)
(* Lengths                                                                 *)
(***************************************************************************)
BitvectorLength(n) == (n + 7) \div 8

\* cls._o: how many fields of a profile are optional.
OptionalFields(t) == SelectSeq(t.fields, LAMBDA f : f.fopt)

PrefixLength(t) ==
  IF t.kind = "Profile" THEN BitvectorLength(Len(OptionalFields(t)))
                        ELSE BitvectorLength(t.n)

RECURSIVE IsFixedLength(_)
IsFixedLength(t) ==
  CASE t.kind = "uint" -> TRUE
    [] t.kind = "StableContainer" -> FALSE
    [] t.kind = "Profile" ->
         /\ OptionalFields(t) = <<>>
         /\ \A f \in Fields(t) : IsFixedLength(f.ftyp)

SumOf(lengths) == FoldLeft(LAMBDA sum, length : sum + length, 0, lengths)

OffsetLength(t) == IF IsFixedLength(t) THEN 0 ELSE OFFSET_BYTE_LENGTH

RECURSIVE MinLength(_)
MinLength(t) ==
  CASE t.kind = "uint" -> t.n
    [] t.kind = "StableContainer" -> PrefixLength(t)
    [] t.kind = "Profile" ->
         PrefixLength(t)
           + SumOf([i \in DOMAIN t.fields |->
                      IF t.fields[i].fopt THEN 0
                      ELSE OffsetLength(t.fields[i].ftyp) + MinLength(t.fields[i].ftyp)])

RECURSIVE MaxLength(_)

MaxLengths(fields) ==
  [i \in DOMAIN fields |-> OffsetLength(fields[i].ftyp) + MaxLength(fields[i].ftyp)]

\* Mutated form: without the bits.
MaxLengthOfFields(t) ==
  IF t.kind = "uint" THEN t.n
  ELSE SumOf(MaxLengths(t.fields))

MaxLength(t) ==
  IF t.kind = "uint" THEN t.n ELSE PrefixLength(t) + SumOf(MaxLengths(t.fields))

\* The part of a container that has its fixed-size values and its offsets.
FixedSize(fields) ==
  SumOf([i \in DOMAIN fields |->
           IF IsFixedLength(fields[i].ftyp) THEN MinLength(fields[i].ftyp)
                                            ELSE OFFSET_BYTE_LENGTH])

----------------------------------------------------------------------------
(***************************************************************************)
(* The reference for Compatible: the Merkle layout of EIPS/eip-7495.md,    *)
(* lines 133-140, where a profile has the layout of its base type.         *)
(***************************************************************************)
RECURSIVE Layout(_)
Layout(t) ==
  CASE t.kind \in {"uint", "boolean", "Bitlist", "Bitvector"} -> <<t.kind, t.n>>
    [] t.kind \in {"List", "ByteList"} -> <<"list", t.n, Layout(t.base[1])>>
    [] t.kind \in {"Vector", "ByteVector"} ->
         <<"vector", t.n, Layout(t.base[1])>>
    [] t.kind \in {"Container", "StableContainer"} ->
         <<"fields", t.n,
           [i \in DOMAIN t.fields |->
              <<t.fields[i].fkey, Layout(t.fields[i].ftyp)>>]>>
    [] t.kind = "Profile" -> Layout(t.base[1])

=============================================================================
