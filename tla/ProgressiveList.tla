--------------------------- MODULE ProgressiveList ---------------------------
(***************************************************************************)
(* ProgressiveList[T] of assets/eip-7916/progressive.py: a list kept in a  *)
(* chain of subtrees of 1, 4, 16, ... chunks, the first subtree on the     *)
(* left of its pair and the rest of the chain on the right.                *)
(*                                                                         *)
(* A program makes a list, changes it, and keeps views of elements that    *)
(* are Optional values.  A view has a tree of its own and writes it to the *)
(* list at its index whenever it changes, whatever happened to the list    *)
(* meanwhile.  A call that raises and changes nothing is no step.          *)
(***************************************************************************)
EXTENDS SszOptional

CONSTANTS
  Classes,     \* the list types, each with the bounds of its instances
  Numbers      \* the values of uint8 elements

ASSUME ListAssumption ==
  /\ Numbers \subseteq Nat
  /\ \A c \in Classes :
       /\ c.maxLength \in Nat /\ 2 * c.maxLength + c.element_cls <= MaxHeight
       /\ c.maxViews \in Nat
       /\ c.element_cls \in Nat
       /\ c.is_packed \in BOOLEAN
       /\ c.is_packed => c.element_cls = Uint8

VARIABLES
  cls,       \* the type of the list: element_cls, is_packed, and the bounds
  backing,   \* the tree of the list
  views      \* the views of elements that the program keeps

vars == <<cls, backing, views>>

----------------------------------------------------------------------------
\* The chain of the subtrees from one of a depth on, which holds the last left
\* of the nodes
SubtreeFillProgressive(nodes) ==
  LET chain[left \in Nat] ==
        [depth \in Nat |->
           IF left = 0 THEN Zero(0)
           ELSE PairNode(SubtreeFillToContents(nodes, depth, Len(nodes) - left),
                         chain[IF left <= 2^depth THEN 0 ELSE left - 2^depth][depth + 2])]
  IN chain[Len(nodes)][0]

\* An element in the tree of its subtree; a packed one is a number.
ElementAt(subtree, depth, i, packed) ==
  LET leaf == Getter(subtree, ToGindex(i \div PerChunk(packed), depth))
  IN IF packed THEN Elems(leaf)[(i % PerChunk(packed)) + 1] ELSE leaf

\* create_readonly_iter
ReadonlyIter(subtree, depth, length, packed) ==
  [i \in 1 .. length |-> ElementAt(subtree, depth, i - 1, packed)]

\* Mutated form: every subtree is only twice as wide as the one before it.
IterTwiceAsWide(list, length, packed) ==
  LET iter[left \in Nat] ==
        [gindex \in Nat |-> [depth \in Nat |->
           LET width == 2^depth * PerChunk(packed)
               n == IF left < width THEN left ELSE width
           IN IF left = 0 THEN IF Getter(list, gindex) = Zero(0) THEN <<>> ELSE <<Raised>>
              ELSE ReadonlyIter(Getter(list, 2 * gindex), depth, n, packed)
                     \o iter[left - n][2 * gindex + 1][depth + 1]]]
  IN iter[length][2][0]

\* The elements in the order of iteration; raises if a tree is left over.  The
\* chain of subtrees that is left of the list is at gindex.
ReadonlyIterProgressive(list, length, packed) ==
  LET iter[left \in Nat] ==
        [gindex \in Nat |-> [depth \in Nat |->
           LET width == 2^depth * PerChunk(packed)
               n == IF left < width THEN left ELSE width
           IN IF left = 0 THEN IF Getter(list, gindex) = Zero(0) THEN <<>> ELSE <<Raised>>
              ELSE ReadonlyIter(Getter(list, 2 * gindex), depth, n, packed)
                     \o iter[left - n][2 * gindex + 1][depth + 2]]]
  IN iter[length][2][0]

\* to_gindex_progressive: the gindex, depth and chunk_i that its loop returns
Descend(chunk_i) ==
  LET descend[c \in Nat] ==
        [gindex \in Nat |-> [depth \in Nat |->
           IF c < 2^depth
           THEN [gindex |-> gindex * 2^(1 + depth) + c, depth |-> depth, chunk_i |-> c]
           ELSE descend[c - 2^depth][2 * gindex + 1][depth + 2]]]
  IN descend[chunk_i][2][0]

\* The chunks that a list can have within the bounds
ChunkIndexes == UNION {0 .. c.maxLength : c \in Classes}

ToGindexProgressive == [chunk_i \in ChunkIndexes |-> Descend(chunk_i)]

\* The pair that holds the subtree of a depth: the loop takes a turn for every
\* two levels.
Spine(depth) ==
  LET target[n \in Nat] == IF n = 0 THEN 2 ELSE 2 * target[n - 1] + 1
  IN target[(depth + 1) \div 2]

\* Mutated form: the index in the subtree leaves out the place in the chunk.
ToTargetWholeChunks(packed, i) ==
  LET chunk == ToGindexProgressive[i \div PerChunk(packed)]
  IN [gindex |-> Spine(chunk.depth), depth |-> chunk.depth,
      i |-> chunk.chunk_i * PerChunk(packed)]

ToTargetProgressive(packed, i) ==
  LET chunk == ToGindexProgressive[i \div PerChunk(packed)]
  IN [gindex |-> Spine(chunk.depth), depth |-> chunk.depth,
      i |-> chunk.chunk_i * PerChunk(packed) + (i % PerChunk(packed))]

----------------------------------------------------------------------------
\* The numbers as the leaves that hold them; nodes are leaves themselves.
ViewsIntoChunks(vals, packed) ==
  IF ~packed THEN vals
  ELSE [c \in 1 .. (Len(vals) + ElemsPerChunk - 1) \div ElemsPerChunk |->
          Chunk([k \in 1 .. ElemsPerChunk |->
                   LET i == (c - 1) * ElemsPerChunk + k
                   IN IF i <= Len(vals) THEN vals[i] ELSE 0])]

New(vals, packed) ==
  PairNode(SubtreeFillProgressive(ViewsIntoChunks(vals, packed)), UintNode(Len(vals)))

Length(list) == UintOf(list.right)

ReadItem(list, packed, i) ==
  LET leaf == Getter(list, ToGindexProgressive[i \div PerChunk(packed)].gindex)
  IN IF packed THEN Elems(leaf)[(i % PerChunk(packed)) + 1] ELSE leaf

WriteItem(list, packed, i, v) ==
  LET gindex == ToGindexProgressive[i \div PerChunk(packed)].gindex
  IN Setter(list, gindex, ElemNode(packed, v, Getter(list, gindex), i % PerChunk(packed)),
            FALSE)

\* append: the first element of a subtree makes the subtree and an empty
\* rest of the chain.
Appended(list, packed, v) ==
  LET target == ToTargetProgressive(packed, Length(list))
      next == IF target.i = 0
              THEN Setter(list, target.gindex, PairNode(Zero(target.depth), Zero(0)), FALSE)
              ELSE list
      subtree == Getter(next, 2 * target.gindex)
  IN Setter(Setter(next, 2 * target.gindex,
                   AppendView(subtree, target.depth, target.i, v, packed), FALSE),
            3, UintNode(Length(list) + 1), FALSE)

\* Mutated form: an emptied subtree is left in the chain.
PoppedNoDelete(list, packed) ==
  LET target == ToTargetProgressive(packed, Length(list) - 1)
      next == Setter(list, 2 * target.gindex,
                     PopAndSummarize(Getter(list, 2 * target.gindex), target.depth,
                                     target.i, packed), FALSE)
  IN IF Length(list) = 1 THEN PairNode(Zero(0), Zero(0))
     ELSE Setter(next, 3, UintNode(Length(list) - 1), FALSE)

\* pop of a list that is not empty: the last element of a subtree deletes it.
Popped(list, packed) ==
  LET target == ToTargetProgressive(packed, Length(list) - 1)
      next == IF target.i = 0 THEN Setter(list, target.gindex, Zero(0), FALSE)
              ELSE Setter(list, 2 * target.gindex,
                          PopAndSummarize(Getter(list, 2 * target.gindex), target.depth,
                                          target.i, packed), FALSE)
  IN IF Length(list) = 1 THEN PairNode(Zero(0), Zero(0))
     ELSE Setter(next, 3, UintNode(Length(list) - 1), FALSE)

----------------------------------------------------------------------------
\* The trees of the values of an element type
NodesOf(T) ==
  LET nodes[t \in Nat] ==
        IF t = Uint8 THEN {UintNode(n) : n \in Numbers}
        ELSE {NewOptional(v) : v \in {None} \cup nodes[ElementCls(t)]}
  IN nodes[T]

\* The values that append and set take
Inputs(c) == IF c.is_packed THEN Numbers ELSE NodesOf(c.element_cls)

Init ==
  /\ cls \in Classes
  /\ \E n \in 0 .. cls.maxLength : \E vals \in [1 .. n -> Inputs(cls)] :
       backing = New(vals, cls.is_packed)
  /\ views = <<>>

AppendItem(v) ==
  /\ Length(backing) < cls.maxLength
  /\ backing' = Appended(backing, cls.is_packed, v)
  /\ UNCHANGED <<cls, views>>

Pop ==
  /\ Length(backing) > 0
  /\ backing' = Popped(backing, cls.is_packed)
  /\ UNCHANGED <<cls, views>>

SetItem(i, v) ==
  /\ i < Length(backing)
  /\ backing' = WriteItem(backing, cls.is_packed, i, v)
  /\ UNCHANGED <<cls, views>>

\* get of an element that is a composite value
GetView(i) ==
  /\ cls.element_cls # Uint8
  /\ Len(views) < cls.maxViews
  /\ i < Length(backing)
  /\ views' = Append(views, [i |-> i, node |-> ReadItem(backing, cls.is_packed, i)])
  /\ UNCHANGED <<cls, backing>>

\* Mutated form: the hook does not check its index against the length.
HookUnchecked(list, packed, i, node) ==
  IF Getter(list, ToGindexProgressive[i].gindex) = Raised THEN list
  ELSE WriteItem(list, packed, i, node)

\* The hook of a view calls set of the list, which raises IndexError when the
\* element has been popped: then only the view has changed.
Hook(list, packed, i, node) ==
  IF i >= Length(list) THEN list ELSE WriteItem(list, packed, i, node)

\* Optional.set through a view, of a value where there is one
WriteView(k, v) ==
  LET node == Set(views[k].node, v)
  IN /\ CanSet(views[k].node, v)
     /\ views' = [views EXCEPT ![k].node = node]
     /\ backing' = Hook(backing, cls.is_packed, views[k].i, node)
     /\ UNCHANGED cls

\* The arguments that calls are made with
Indexes == 0 .. Length(backing) - 1
ViewInputs == NodesOf(ElementCls(cls.element_cls))

Next ==
  \/ \E v \in Inputs(cls) : AppendItem(v) \/ \E i \in Indexes : SetItem(i, v)
  \/ Pop
  \/ \E i \in Indexes : GetView(i)
  \/ \E k \in DOMAIN views : \E v \in ViewInputs : WriteView(k, v)

Spec == Init /\ [][Next]_vars

----------------------------------------------------------------------------
\* The elements, each read by its index
Items == [k \in 1 .. Length(backing) |-> ReadItem(backing, cls.is_packed, k - 1)]

\* A list has a length within its bound and elements of its type, and a view
\* has a value of the type of the elements.
TypeOK ==
  /\ cls \in Classes
  /\ Length(backing) \in 0 .. cls.maxLength
  /\ \A k \in DOMAIN Items : Items[k] \in Inputs(cls)
  /\ \A k \in DOMAIN views : /\ views[k].i \in 0 .. cls.maxLength - 1
                             /\ views[k].node \in Inputs(cls)

\* Whatever calls of append, pop, set and writes through views led to it, a
\* list has the very tree of a new list of its elements (progressive.py:80-111):
\* no subtree is missing, left over, or expanded where a new list has a root.
ListsCanonical == \A items \in {Items} : backing = New(items, cls.is_packed)

\* readonly_iter, which walks the subtrees (progressive.py:23-42), yields what
\* get finds by index (45-54), in order, and its assertion that no tree is left
\* over holds.
IterationComplete ==
  ReadonlyIterProgressive(backing, Length(backing), cls.is_packed) = Items

\* An Optional element is read back from its bytes (optional.py:139-155), their
\* number is within the bounds of the type (185-193), and two values of one
\* type never have the same bytes.
OptionalsDecode ==
  cls.element_cls # Uint8 =>
    \A k \in DOMAIN Items :
      LET bytes == Serialize(cls.element_cls, Items[k])
      IN /\ Deserialize(cls.element_cls, bytes) = Items[k]
         /\ Len(bytes) \in MinByteLength(cls.element_cls)
                             .. MaxByteLength(cls.element_cls)

\* A write through a view changes the element at the index of the view, to
\* the value of the view, and no other; one to an element popped meanwhile
\* changes nothing in the list.
WritesReachTheList ==
  [][\A k \in DOMAIN views :
       views' # views /\ views'[k] # views[k] =>
         IF views[k].i < Len(Items)
         THEN Items' = [Items EXCEPT ![views[k].i + 1] = views'[k].node]
         ELSE backing' = backing]_vars

Plain == INSTANCE PlainList WITH items <- Items, elem <- Inputs(cls)

\* What each call makes of the elements: what it makes of a plain sequence
PlainCalls ==
  \A old \in {Items}, new \in {Items'} :
    /\ \A v \in Inputs(cls) : AppendItem(v) => Plain!Appended(old, new, v)
    /\ Pop => Plain!Popped(old, new)
    /\ \A i \in Indexes, v \in Inputs(cls) :
         SetItem(i, v) => Plain!Replaced(old, new, i, v)
    /\ \A i \in Indexes : GetView(i) => new = old
    /\ \A k \in DOMAIN views : \A v \in ViewInputs :
         WriteView(k, v) => IF views[k].i < Len(old)
                            THEN Plain!Replaced(old, new, views[k].i, views'[k].node)
                            ELSE new = old

\* Read by index, a progressive list is a plain sequence, call by call: append
\* adds its argument at the end, pop removes the last element, set replaces the
\* element at its index by its argument, and a write through a view the element
\* at the view's index, across the borders of chunks and subtrees.
RefinesPlainList == Plain!Init /\ [][PlainCalls]_vars

=============================================================================
