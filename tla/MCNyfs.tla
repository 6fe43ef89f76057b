------------------------------- MODULE MCNyfs -------------------------------
(***************************************************************************)
(* Nyfs on a disk of a few blocks.                                         *)
(***************************************************************************)
EXTENDS Nyfs, TLC

CONSTANTS n1, n2

MCName == {n1, n2}
MCOneBucket == [n \in MCName |-> 1]
MCWrite == {3}
MCSymmetry == Permutations(MCName)
=============================================================================
