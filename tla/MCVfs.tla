------------------------------- MODULE MCVfs -------------------------------
(***************************************************************************)
(* Instances of Vfs for TLC.                                               *)
(***************************************************************************)
EXTENDS Vfs, TLC

CONSTANTS a, b
Names2 == {a, b}

\* Paths in the three namespaces; those of three names are for moves below the
\* directory that moves, and for what is below a directory of a mounted disk.
Paths ==
    [ns : {"nyfs"}, names : [1 .. 1 -> Names2] \cup [1 .. 2 -> Names2]
                              \cup {<<a, b, a>>, <<b, a, b>>}]
    \cup [ns : {"app"}, names : [1 .. 1 -> Names2]]
    \cup [ns : {""}, names : [1 .. 2 -> Names2] \cup {<<b, a, a>>, <<b, a, b>>}]

NameSymmetry == Permutations(Names2)
=============================================================================
