------------------------------ MODULE PlainList ------------------------------
(***************************************************************************)
(* What a list promises, whatever tree it is kept in: a sequence that      *)
(* grows and shrinks at its end and in which elements are replaced.  An    *)
(* index counts from 0.                                                    *)
(***************************************************************************)
EXTENDS Integers, Sequences

VARIABLES
  elem,    \* the values of the type of the elements
  items    \* the elements

Init == items \in Seq(elem)

\* What a call with its arguments makes of the elements
Appended(old, new, v) == new = Append(old, v)

Popped(old, new) == old # <<>> /\ new = SubSeq(old, 1, Len(old) - 1)

Replaced(old, new, i, v) ==
  i \in 0 .. Len(old) - 1 /\ new = [old EXCEPT ![i + 1] = v]

Next ==
  /\ UNCHANGED elem
  /\ \E old \in {items}, new \in {items'} :
       \/ \E v \in elem : Appended(old, new, v)
       \/ Popped(old, new)
       \/ \E i \in 0 .. Len(old) - 1, v \in elem : Replaced(old, new, i, v)

Spec == Init /\ [][Next]_<<elem, items>>

=============================================================================
