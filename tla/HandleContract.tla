--------------------------- MODULE HandleContract ---------------------------
(***************************************************************************)
(* What the handle table promises a process (handles.h, nyx_abi.h): a      *)
(* handle is an unforgeable name of one object with a fixed set of rights. *)
(* A name is given to one object only. A new one gives the access that was *)
(* asked for and no more, a copy has no right that its original does not   *)
(* have, and a name that was closed never names anything again.            *)
(***************************************************************************)
CONSTANTS
    Handle,     \* values a handle can have
    Right,      \* NX_RIGHT_*
    Object,     \* open-file objects of the drivers
    Console     \* the console, which is no driver object and can be shared

VARIABLES
    caps,       \* the open handles: a function to [rights, object, asked, from], where
                \* `asked` are the rights the caller asked for, and `from` is the name of
                \* which it is a copy, if it is one
    dead        \* names that were closed

vars == <<caps, dead>>

Held == {caps[h].object : h \in DOMAIN caps} \ {Console}

\* A process starts with handles to the console only.
Fresh(c) ==
    \A h \in DOMAIN c : h \in Handle /\ c[h].object = Console /\ c[h].rights \subseteq Right

Init == Fresh(caps) /\ dead = {}

\* The name h, never used before, is added and no other name is touched.
Adds(h) ==
    /\ h \in Handle \ (DOMAIN caps \cup dead)
    /\ DOMAIN caps' = DOMAIN caps \cup {h}
    /\ \A k \in DOMAIN caps : caps'[k] = caps[k]
    /\ caps'[h].rights \subseteq Right
    /\ UNCHANGED dead

\* A file is opened, to be read or written as the caller asked.
Open ==
    \E h \in DOMAIN caps' :
        /\ Adds(h) /\ caps'[h].from = {}
        /\ caps'[h].object \in Object \ Held
        /\ caps'[h].rights \cap {"READ", "WRITE"} = caps'[h].asked

\* The copy has those of the rights of the original that the caller asked for; it
\* names the console again, or a file object opened for it alone.
Duplicate(old) ==
    \E h \in DOMAIN caps' :
        /\ Adds(h) /\ caps'[h].from = {old}
        /\ caps'[h].rights = caps[old].rights \cap caps'[h].asked
        /\ IF caps[old].object = Console
             THEN caps'[h].object = Console
             ELSE caps'[h].object \in Object \ Held

Close(h) ==
    /\ caps' = [k \in DOMAIN caps \ {h} |-> caps[k]]
    /\ dead' = dead \cup {h}

\* The process ends, and the next one starts with a table of its own.
End == DOMAIN caps' = {} /\ dead' = {}
Start == DOMAIN caps = {} /\ dead = {} /\ Fresh(caps') /\ UNCHANGED dead

Next ==
    \/ Open
    \/ \E h \in DOMAIN caps : Duplicate(h) \/ Close(h)
    \/ End
    \/ Start

Spec == Init /\ [][Next]_vars
=============================================================================
