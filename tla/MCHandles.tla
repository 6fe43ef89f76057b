----------------------------- MODULE MCHandles -----------------------------
(***************************************************************************)
(* Handles in a table of three slots, the console's at first, that are     *)
(* used twice again; two files, transfers of two chunks, and seeks to      *)
(* before the start.                                                       *)
(***************************************************************************)
EXTENDS Handles

CONSTANTS o1, o2

MCObject == {o1, o2}
MCMode == {{"READ"}, {"READ", "WRITE"}}
MCOneMask == {{"READ"}}
MCLong == {2}
MCBack == {-1}
=============================================================================
