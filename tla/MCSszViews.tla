----------------------------- MODULE MCSszViews -----------------------------
(* Instances of SszViews for TLC. *)
EXTENDS SszViews

Ann(fkey, ftyp, fopt) == [fkey |-> fkey, ftyp |-> ftyp, fopt |-> fopt]

Stable(name, n, annotations) ==
  [kind |-> "StableContainer", name |-> name, n |-> n, annotations |-> annotations]
ProfileOf(name, base, annotations) ==
  [kind |-> "Profile", name |-> name, base |-> base, annotations |-> annotations]

Uint8 == Uint(1)

PointFields == <<Ann("x", Uint8, TRUE), Ann("y", Uint8, TRUE)>>
PointDecl == Stable("Point", 2, PointFields)
Point == Declared(PointDecl)

\* The same fields with another capacity.
Wide == Declared(Stable("Wide", 3, PointFields))

\* A profile of fixed length.
MarkDecl == ProfileOf("Mark", Point, <<Ann("x", Uint8, FALSE)>>)
Mark == Declared(MarkDecl)

ShapeDecl ==
  Stable("Shape", 3, <<Ann("color", Uint8, TRUE), Ann("at", Point, TRUE)>>)
Shape == Declared(ShapeDecl)

ShapeProfile(annotations) == ProfileOf("ShapeProfile", Shape, annotations)

ShapeProfiles ==
  {ShapeProfile(<<Ann("color", Uint8, TRUE), Ann("at", Mark, FALSE)>>),
   ShapeProfile(<<Ann("color", Uint8, FALSE), Ann("at", Point, TRUE)>>),
   ShapeProfile(<<Ann("at", Mark, FALSE)>>),
   ShapeProfile(<<Ann("at", Wide, FALSE)>>),
   ShapeProfile(<<Ann("at", Point, FALSE), Ann("color", Uint8, FALSE)>>)}

\* Containers in containers, so that a write passes two hooks.
DotDecl == Stable("Dot", 1, <<Ann("x", Uint8, TRUE)>>)
RingDecl == Stable("Ring", 1, <<Ann("dot", Declared(DotDecl), TRUE)>>)
BoxDecl == Stable("Box", 2, <<Ann("ring", Declared(RingDecl), TRUE)>>)

MCPrograms ==
  {{PointDecl, MarkDecl, ShapeDecl, d} : d \in ShapeProfiles}
    \cup {{DotDecl, RingDecl, BoxDecl}}

\* Every kind of type, with a near relation of each.
Elements == {Uint8, [Uint8 EXCEPT !.name = "Slot"], Uint(2), Boolean, Point, Mark, Wide}

MCFieldTypes ==
  Elements
    \cup {Bits(kind, n) : kind \in {"Bitlist", "Bitvector"}, n \in {2, 3}}
    \cup {Bytes(kind, n) : kind \in {"ByteList", "ByteVector"}, n \in {2, 3}}
    \cup {Many(kind, elem, 2) : kind \in {"List", "Vector"}, elem \in Elements}
    \cup {Container("Pair", <<Ann("a", elem, FALSE), Ann("b", Uint8, FALSE)>>) :
             elem \in Elements}

=============================================================================
