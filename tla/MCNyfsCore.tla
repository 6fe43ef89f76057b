----------------------------- MODULE MCNyfsCore -----------------------------
(* An instance of NyfsCore: root and one other user, and on the root no    *)
(* list, or an entry for everyone and a denial with some of the flags.     *)
EXTENDS NyfsCore, TLC

MCCred == {[uid |-> 0, gid |-> 0], [uid |-> 1, gid |-> 1]}
MCMode == {{"ur", "uw", "ux", "ow", "ox"}}

Allow == [id |-> Everyone, type |-> "ALLOW",
          mask |-> {"READ_DATA", "WRITE_DATA", "EXECUTE", "DELETE_CHILD"},
          flags |-> {"INHERIT_FILE", "INHERIT_DIR"}]
Deny(flags) == [id |-> 1, type |-> "DENY", mask |-> {"WRITE_DATA"}, flags |-> flags]

\* The denial is for the root alone; for everything below it, with and without
\* the flags that change on the way down; for the directories of one level.
Both == {"INHERIT_FILE", "INHERIT_DIR"}
Flags == {{}, Both, Both \cup {"INHERIT_ONLY"}, Both \cup {"NO_PROPAGATE"},
          {"GROUP", "INHERIT_DIR", "INHERIT_ONLY", "NO_PROPAGATE"}}
MCSeed == {<<>>} \cup {<<Allow, Deny(f)>> : f \in Flags}

OneSeed == {<<>>}

Symmetry == Permutations(Name)
=============================================================================
