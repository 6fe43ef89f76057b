----------------------------- MODULE MCProcess -----------------------------
(***************************************************************************)
(* Process on a small machine: the values of the constants. Two address    *)
(* spaces and one file are enough for two user processes beside the idle   *)
(* and the boot process to compete. A sleep of no tick lasts until the     *)
(* next one, so that two sleepers can have different deadlines.            *)
(***************************************************************************)
EXTENDS Process

CONSTANTS s1, s2, f1

MCSpace == {s1, s2}
MCFile == {f1}
MCSleepTicks == {0}
MCOneCode == {0}
=============================================================================
