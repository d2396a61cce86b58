-------------------------- MODULE MCProgressiveList --------------------------
(* Instances of ProgressiveList for TLC. *)
EXTENDS ProgressiveList

Class(element_cls, is_packed, maxLength, maxViews) ==
  [element_cls |-> element_cls, is_packed |-> is_packed,
   maxLength |-> maxLength, maxViews |-> maxViews]

\* The subtrees begin with chunks 0, 1 and 5; packed, with elements 0, 2 and 10.
\* Two views, on a short list, may be of the same element.
MCClasses ==
  {Class(Uint8, FALSE, 9, 0),
   Class(Uint8, TRUE, 11, 0),
   Class(Optional(Uint8), FALSE, 5, 1),
   Class(Optional(Optional(Uint8)), FALSE, 2, 2)}

=============================================================================
