------------------------------ MODULE SszViews ------------------------------
(***************************************************************************)
(* StableContainer and Profile objects of                                  *)
(* assets/eip-7495/stable_container.py at run time.                        *)
(*                                                                         *)
(* A program declares classes and then makes views of them.  A view is a   *)
(* mutable object: a class, a backing tree, and the hook it was made with. *)
(* Reading a field that is itself a container makes a view with a hook to  *)
(* the view it was read from, and every later write to the new view writes *)
(* the field of the old one again, whatever happened to it meanwhile.      *)
(*                                                                         *)
(* A call that raises changes nothing and is no step.  A program keeps a   *)
(* bounded number of views; it may use the variable of one for another.    *)
(***************************************************************************)
EXTENDS SszCodec

CONSTANTS
  Programs,     \* the sets of class declarations to choose from
  Values,       \* the values of uint fields
  FieldTypes,   \* further types, to compare with those of the program
  MaxRoots,     \* bound on the objects of its own that a program keeps
  MaxViews      \* bound on all the views it keeps

ASSUME ViewsAssumption == MaxRoots <= MaxViews /\ Values \subseteq Nat

VARIABLES
  classes,      \* the classes that the program has declared
  views         \* the views it has made, in the order it made them

vars == <<classes, views>>

NoHook == [view |-> 0, findex |-> 0]

View(cls, backing, hook) == [cls |-> cls, backing |-> backing, hook |-> hook]

----------------------------------------------------------------------------
Accepted(d) ==
  IF d.kind = "Profile" THEN ProfileAccepted(d.base, d.annotations)
                        ELSE StableContainerAccepted(d.n, d.annotations)

Declared(d) ==
  IF d.kind = "Profile" THEN Profile(d.name, d.base, d.annotations)
                        ELSE StableContainer(d.name, d.n, d.annotations)

Init ==
  /\ \E program \in Programs :
       /\ \A d \in program : Accepted(d)
       /\ classes = {Declared(d) : d \in program}
  /\ views = <<>>

Roots == {v \in DOMAIN views : views[v].hook = NoHook}
Referenced == {views[v].hook.view : v \in DOMAIN views}

\* A new object with one of the backings, kept beside the others or in the
\* variable of one that no view refers to.
Make(cls, backings) ==
  /\ \/ /\ Cardinality(Roots) < MaxRoots
        /\ \E backing \in backings :
             views' = Append(views, View(cls, backing, NoHook))
     \/ \E v \in Roots \ Referenced : \E backing \in backings :
          views' = [views EXCEPT ![v] = View(cls, backing, NoHook)]
  /\ UNCHANGED classes

\* The arguments a constructor may be called with, given the inputs of each
\* field.  For an optional field, None stands for no argument too.
Kwargs(cls, inputs) ==
  LET required == {f.fkey : f \in {g \in Fields(cls) : ~g.fopt}}
      all == UNION {inputs[f] : f \in Fields(cls)}
  IN UNION {{kwargs \in [Keys(cls) \ omitted -> all] :
               \A k \in DOMAIN kwargs : kwargs[k] \in inputs[FieldOf(cls, k)]} :
            omitted \in SUBSET required}

Numbers == {Chunk(value) : value \in Values}

\* Containers that are made on the spot, from numbers only.
Temporaries ==
  [cls \in {Declared(d) : d \in {e \in UNION Programs : e.kind = "StableContainer"}} |->
     {New(cls, kwargs) : kwargs \in Kwargs(cls, [f \in Fields(cls) |->
        {None} \cup IF f.ftyp.kind = "uint" THEN Numbers ELSE {}])}]

\* What may be given for a field: no value, a number, or an object of the
\* field's layout.
Inputs(f) ==
  {None} \cup
    IF f.ftyp.kind = "uint" THEN Numbers
    ELSE Temporaries[Base(f.ftyp)]
           \cup {v.backing : v \in {u \in ToSet(views) : Layout(u.cls) = Layout(f.ftyp)}}

\* cls(**kwargs)
Construct(cls) ==
  Make(cls, {New(cls, kwargs) :
               kwargs \in Kwargs(cls, [f \in Fields(cls) |-> Inputs(f)])})

\* Mutated form: the hook counts the fields of the class, not of its base.
GetFieldByOrder(v, f) ==
  /\ Len(views) < MaxViews
  /\ f.ftyp.kind # "uint"
  /\ IsActive(views[v].backing, f)
  /\ \E i \in DOMAIN views[v].cls.fields :
       /\ views[v].cls.fields[i] = f
       /\ views' = Append(views, View(f.ftyp, views[v].backing.data[f.findex],
                                      [view |-> v, findex |-> i - 1]))
  /\ UNCHANGED classes

\* view.fkey, kept in a variable
GetField(v, f) ==
  /\ Len(views) < MaxViews
  /\ f.ftyp.kind # "uint"
  /\ IsActive(views[v].backing, f)
  /\ views' = Append(views, View(f.ftyp, views[v].backing.data[f.findex],
                                 [view |-> v, findex |-> f.findex]))
  /\ UNCHANGED classes

RECURSIVE SetBacking(_, _, _)

\* set_backing of view v, and what its hook does to the view it came from
SetBacking(all, v, backing) ==
  LET hook == all[v].hook
      written == [all EXCEPT ![v].backing = backing]
  IN IF hook = NoHook THEN written
     ELSE SetBacking(written, hook.view,
                     StableSet(all[hook.view].backing, hook.findex, backing))

\* What an object that may be assigned to field f is: a view, or a container
\* of the base type made on the spot.
Objects(f) ==
  {[cls |-> v.cls, backing |-> v.backing] : v \in ToSet(views)}
    \cup {[cls |-> Base(f.ftyp), backing |-> node] : node \in Temporaries[Base(f.ftyp)]}

\* What is stored for it: its backing, or that of a conversion.
Storable(f, v) == v.cls = f.ftyp \/ Coercible(f.ftyp, v.cls, v.backing)
Stored(f, v) ==
  IF v.cls = f.ftyp THEN v.backing ELSE CoerceView(f.ftyp, v.cls, v.backing)

AssignedValues(f) ==
  IF f.ftyp.kind = "uint" THEN Numbers
  ELSE {Stored(f, v) : v \in {u \in Objects(f) : Storable(f, u)}}

\* A profile refuses None for a field it requires.
Erasable(t, f) == t.kind = "Profile" => f.fopt

\* view.fkey = value
SetField(v, f) ==
  /\ \E value \in AssignedValues(f) \cup (IF Erasable(views[v].cls, f)
                                          THEN {None} ELSE {}) :
       views' = SetBacking(views, v, StableSet(views[v].backing, f.findex, value))
  /\ UNCHANGED classes

\* cls.from_base(view)
FromBase(v, cls) ==
  /\ Layout(views[v].cls) = Layout(cls)
  /\ CheckBacking(cls, views[v].backing)
  /\ Make(cls, {views[v].backing})

\* view.to_base(cls)
ToBase(v, cls) ==
  /\ cls.kind = "StableContainer"
  /\ Layout(views[v].cls) = Layout(cls)
  /\ Make(cls, {views[v].backing})

\* Streams that look like one that was written: exact, cut short, extended,
\* or with one byte changed.
Damaged(bytes) ==
  {bytes, Append(bytes, 0)}
    \cup {SubSeq(bytes, 1, n) : n \in 0 .. Len(bytes)}
    \cup {[bytes EXCEPT ![i] = b] : i \in DOMAIN bytes, b \in {0, 1}}

\* cls.decode_bytes(bytes)
Decode(cls) ==
  LET streams == UNION {Damaged(EncodeBytes(v.cls, v.backing)) : v \in ToSet(views)}
      reads == {DecodeBytes(cls, bytes) : bytes \in streams}
  IN Make(cls, {read.node : read \in {r \in reads : r.ok}})

Next ==
  \/ \E cls \in classes : Construct(cls) \/ Decode(cls)
  \/ \E v \in DOMAIN views :
       \/ \E f \in Fields(views[v].cls) : GetField(v, f) \/ SetField(v, f)
       \/ \E cls \in classes : FromBase(v, cls) \/ ToBase(v, cls)

Spec == Init /\ [][Next]_vars

----------------------------------------------------------------------------
(***************************************************************************)
(* Properties                                                              *)
(***************************************************************************)
RECURSIVE HasShape(_, _)

\* The backing has the shape of type t: a leaf and a bit for each slot, and
\* in the leaf of an active field a node of the field's type.
HasShape(t, node) ==
  IF t.kind = "uint" THEN node \in [chunk : 0 .. 256^t.n - 1]
  ELSE /\ DOMAIN node = {"data", "active"}
       /\ DOMAIN node.data = Slots(t)
       /\ node.active \in [Slots(t) -> BOOLEAN]
       /\ \A f \in Fields(Base(t)) :
            IsActive(node, f) => HasShape(f.ftyp, node.data[f.findex])

\* Every view has a backing of the shape its class expects, although
\* constructors and hooks store nodes without looking at their type
\* (stable_container.py:28, 87); a hook leads to an earlier view, so that a
\* write ends.
TypeOK ==
  \A v \in DOMAIN views :
    /\ views[v].cls \in classes
    /\ HasShape(views[v].cls, views[v].backing)
    /\ views[v].hook = NoHook \/
         /\ views[v].hook.view \in 1 .. v - 1
         /\ views[v].hook.findex \in Slots(views[views[v].hook.view].cls)

RECURSIVE Canonical(_, _)
Canonical(t, node) ==
  \A i \in Slots(t) :
    IF node.active[i]
    THEN \E f \in Fields(Base(t)) :
           /\ f.findex = i
           /\ f.ftyp.kind # "uint" => Canonical(f.ftyp, node.data[i])
    ELSE node.data[i] = ZeroNode

\* Equal values have equal trees: the leaf of an absent field is zero and no
\* slot beyond the fields is active, at every level, whatever was assigned,
\* erased, decoded or written through a stale view.  The root of a view is
\* thus the merkleization of EIPS/eip-7495.md:121 of its value.
BackingsCanonical == \A v \in ToSet(views) : Canonical(v.cls, v.backing)

\* What a view writes is read back: a backing that passes check_backing is
\* decoded from its own encoding, the whole stream is used, and serialize
\* returns the number of bytes it wrote (stable_container.py:316, 758),
\* which the offsets of an enclosing container rely on.
EncodingsDecode ==
  \A v \in ToSet(views) : CheckBacking(v.cls, v.backing) =>
    LET written == Serialize(v.cls, v.backing)
    IN /\ DecodeBytes(v.cls, written.bytes)
            = [ok |-> TRUE, node |-> v.backing, rest |-> <<>>]
       /\ written.count = Len(written.bytes)

\* A profile can be sent as its base type (EIPS/eip-7495.md:188): what the
\* base type writes of it the base type reads, with the same tree, and
\* from_base accepts it.
ProfilesPortable ==
  \A v \in ToSet(views) :
    v.cls.kind = "Profile" /\ CheckBacking(v.cls, v.backing) =>
      LET base == Base(v.cls)
          read == DecodeBytes(base, EncodeBytes(base, v.backing))
      IN read.ok /\ read.node = v.backing /\ CheckBacking(base, read.node)

\* A write to a view is seen through the view it was read from, even if the
\* field was erased or replaced there meanwhile, and it leaves the other
\* fields of that view alone (stable_container.py:28, 49).
WritesReachTheSource ==
  [][\A v \in DOMAIN views :
       LET source == views[v].hook.view
           findex == views[v].hook.findex
       IN views[v].hook # NoHook /\ views'[v].backing # views[v].backing =>
            /\ views'[source].backing.active[findex]
            /\ views'[source].backing.data[findex] = views'[v].backing
            /\ \A i \in Slots(views[source].cls) \ {findex} :
                 /\ views'[source].backing.active[i] = views[source].backing.active[i]
                 /\ views'[source].backing.data[i] = views[source].backing.data[i]]_vars

\* The types compared are those of the declared classes and of FieldTypes.
Compared == classes \cup FieldTypes

\* has_compatible_merkleization accepts only types with one Merkle layout,
\* and it is transitive: a profile may take the type of a field from a
\* profile that took it from another (stable_container.py:368-478).  Classes
\* do not change, so that it is enough to look before the first view.
CompatibleTypesShareLayout ==
  views = <<>> =>
    \A t, u \in Compared : Compatible(t, u) =>
      /\ Layout(t) = Layout(u)
      /\ \A w \in Compared : Compatible(u, w) => Compatible(t, w)

\* The assertion of stable_container.py:641, for the views that exist: a
\* profile has every field that it requires.
RequiredFieldsPresent ==
  \A v \in ToSet(views) : v.cls.kind = "Profile" =>
    \A f \in Fields(v.cls) : f.fopt \/ IsActive(v.backing, f)

=============================================================================
