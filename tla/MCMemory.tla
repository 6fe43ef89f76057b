------------------------------ MODULE MCMemory ------------------------------
(***************************************************************************)
(* Memory on a small machine with pages of two bytes. A table has eight    *)
(* entries, so that one space has one table per level:                     *)
(*                                                                         *)
(*   page 0      1      2      3      4     5     6      7                 *)
(*        null   image  ...    heap   ...         guard  stack             *)
(*                                                                         *)
(* The image has one, three or five pages and the heap starts behind it,   *)
(* with room for all of HeapMax, for less, or for nothing.                 *)
(***************************************************************************)
EXTENDS Memory

Seg(from, to) == [from |-> from, to |-> to, wx |-> FALSE]

\* Three good images, one whose segments overlap, one that asks for W and X.
MCImage == {<<Seg(1, 2)>>, <<Seg(1, 4)>>, <<Seg(1, 6)>>, <<Seg(1, 2), Seg(1, 3)>>,
            <<[from |-> 1, to |-> 2, wx |-> TRUE]>>}
MCFewIncrements == {-3, 5}
=============================================================================
