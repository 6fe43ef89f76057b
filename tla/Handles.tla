------------------------------ MODULE Handles ------------------------------
(***************************************************************************)
(* The handle table of a process (syscall/handles.c) and the system calls  *)
(* that use it: NxOpen, NxClose, NxDuplicateHandle, NxSeek, NxRead and     *)
(* NxWrite of syscall/syscall.c, over vfs_open/read/write/reopen/close.    *)
(*                                                                         *)
(* A handle is the pair <<generation, slot>> of make_handle. Calls that    *)
(* return an error and leave everything as it was are stutters. NxRead and *)
(* NxWrite go through the file chunk by chunk, and each chunk may fail in  *)
(* the driver or in the copy to or from the user's buffer.                 *)
(***************************************************************************)
EXTENDS Integers, FiniteSets

CONSTANTS
    MaxHandles,     \* NX_MAX_HANDLES
    GenModulus,     \* 2^32 in the code: generation is a u32
    Object,         \* open-file objects of the file-system drivers
    Console,        \* the console (no driver object)
    Mode,           \* what NxOpen is asked for: reading, writing or both
    Mask,           \* rights masks that are passed to NxDuplicateHandle
    FileMax,        \* the largest file the drivers support
    IoChunk,        \* IO_CHUNK
    Length,         \* lengths that are passed to NxRead and NxWrite
    SeekTo,         \* offsets that are passed to NxSeek
    SeekMax,        \* 2^62 - 1 in the code
    MaxReuse        \* bound: how often a slot is used again

Right == {"READ", "WRITE", "SEEK", "STAT", "DUP"}
Slot  == 0 .. MaxHandles - 1
Gen   == 0 .. GenModulus - 1
Handle == Gen \X Slot

ASSUME HandlesAssumption == MaxHandles \in Nat /\ MaxHandles >= 3
ASSUME GenAssumption == GenModulus \in Nat /\ GenModulus > 1 /\ MaxReuse \in Nat
ASSUME ObjectAssumption == Console \notin Object
ASSUME ModeAssumption == Mode \subseteq SUBSET {"READ", "WRITE"}
ASSUME MaskAssumption == Mask \subseteq SUBSET Right
ASSUME IoAssumption ==
    /\ FileMax \in Nat /\ IoChunk \in Nat \ {0} /\ Length \subseteq Nat \ {0}
    /\ SeekMax \in Nat /\ FileMax <= SeekMax /\ SeekTo \subseteq Int

VARIABLES
    running,    \* the process has a table (it has not ended)
    type,       \* [Slot -> {"FREE", "CONSOLE", "FILE"}]
    rights,     \* [Slot -> SUBSET Right]
    gen,        \* [Slot -> Gen]
    obj,        \* [Slot -> object behind the slot, Console when there is none]
    offset,     \* [Slot -> Nat], file.offset
    opened,     \* objects the drivers have open
    closed,     \* history: handles this process has closed
    grant,      \* history, [Slot -> what its handle was asked for, and the handle it
                \* is a copy of]
    op,         \* "none", "read" or "write": the transfer in progress
    at,         \* its slot
    len,        \* its length
    total       \* bytes transferred so far, and the result of the last transfer

table == <<running, type, rights, gen, obj, opened, closed, grant>>
io    == <<op, at, len, total>>
vars  == <<table, offset, io>>

(***************************************************************************)
(* handles.c                                                               *)
(***************************************************************************)
\* nx_handles_init: 0 = stdin, 1 = stdout, 2 = stderr, all of generation 0.
StdRights(i) == IF i = 0 THEN {"READ", "STAT", "DUP"} ELSE {"WRITE", "STAT", "DUP"}

\* A slot that no call of the process has filled asked for nothing.
Grant   == [asked : SUBSET Right, from : SUBSET Handle]
NoGrant == [asked |-> {}, from |-> {}]

Init ==
    /\ running = TRUE
    /\ type = [i \in Slot |-> IF i < 3 THEN "CONSOLE" ELSE "FREE"]
    /\ rights = [i \in Slot |-> IF i < 3 THEN StdRights(i) ELSE {}]
    /\ gen = [i \in Slot |-> 0]
    /\ obj = [i \in Slot |-> Console]
    /\ offset = [i \in Slot |-> 0]
    /\ opened = {} /\ closed = {}
    /\ grant = [i \in Slot |-> NoGrant]
    /\ op = "none" /\ at = 0 /\ len = 0 /\ total = 0

\* nx_handle_alloc takes the first free slot.
IsFirstFree(i) == type[i] = "FREE" /\ \A j \in Slot : type[j] = "FREE" => i <= j

\* nx_handle_lookup finds an open slot of the right generation and rights.
Lookup(h, need) ==
    /\ h[2] \in Slot
    /\ type[h[2]] # "FREE"
    /\ gen[h[2]] = h[1]
    /\ need \subseteq rights[h[2]]

\* Mutant: a slot is used again under its old generation.
NextGenSame(i) == gen[i]

NextGen(i) == (gen[i] + 1) % GenModulus

\* vfs_close of the file behind slot i, if it has one.
CloseFile(i) == IF type[i] = "FILE" THEN opened \ {obj[i]} ELSE opened

\* Slot i is cleared and gets its next generation (nx_handle_close).
Release(i) ==
    /\ type' = [type EXCEPT ![i] = "FREE"]
    /\ rights' = [rights EXCEPT ![i] = {}]
    /\ obj' = [obj EXCEPT ![i] = Console]
    /\ offset' = [offset EXCEPT ![i] = 0]
    /\ grant' = [grant EXCEPT ![i] = NoGrant]
    /\ gen' = [gen EXCEPT ![i] = NextGen(i)]

\* Slot i becomes a new handle.
Fill(i, t, r, o, off, asked, from) ==
    /\ type' = [type EXCEPT ![i] = t]
    /\ rights' = [rights EXCEPT ![i] = r]
    /\ obj' = [obj EXCEPT ![i] = o]
    /\ offset' = [offset EXCEPT ![i] = off]
    /\ grant' = [grant EXCEPT ![i] = [asked |-> asked, from |-> from]]

\* The bound on how often slots are used again.
MayReuse(i) == gen[i] < MaxReuse

Ready == running /\ op = "none"

-----------------------------------------------------------------------------
(***************************************************************************)
(* NxOpen, NxClose, NxDuplicateHandle                                      *)
(***************************************************************************)
OpenRights(mode) == {"SEEK", "STAT", "DUP"} \cup mode

\* The file is open in the driver, the write probe passed, a slot is free.
SysOpen(mode, o) ==
    /\ Ready
    /\ o \notin opened
    /\ opened' = opened \cup {o}
    /\ \E i \in Slot : IsFirstFree(i) /\ Fill(i, "FILE", OpenRights(mode), o, 0, mode, {})
    /\ UNCHANGED <<running, gen, closed, io>>

\* Mutant: a file for which there is no slot stays open.
OpenFullLeaks(o) == opened' = opened \cup {o}

OpenFull(o) == opened' = (opened \cup {o}) \ {o}

\* The table is full, or the file system is read-only: vfs_close at once.
SysOpenFails(o) ==
    /\ Ready
    /\ o \notin opened
    /\ OpenFull(o)
    /\ UNCHANGED <<running, type, rights, gen, obj, closed, grant, offset, io>>

SysClose(h) ==
    /\ Ready
    /\ Lookup(h, {})
    /\ MayReuse(h[2])
    /\ Release(h[2])
    /\ opened' = CloseFile(h[2])
    /\ closed' = closed \cup {h}
    /\ UNCHANGED <<running, io>>

\* Mutant: the mask is taken as it is.
DupRightsMask(i, mask) == mask

DupRights(i, mask) == rights[i] \cap mask

\* The copy of a file handle opens the file again (vfs_reopen), at the offset
\* of the original.
SysDuplicate(h, mask, o) ==
    /\ Ready
    /\ Lookup(h, {"DUP"})
    /\ IF type[h[2]] = "CONSOLE"
         THEN o = Console /\ UNCHANGED opened
         ELSE o \in Object \ opened /\ opened' = opened \cup {o}
    /\ \E i \in Slot :
        IsFirstFree(i)
          /\ Fill(i, type[h[2]], DupRights(h[2], mask), o, offset[h[2]], mask, {h})
    /\ UNCHANGED <<running, gen, closed, io>>

\* vfs_reopen fails: nx_handle_discard clears the new slot again.
SysDuplicateFails(h) ==
    /\ Ready
    /\ Lookup(h, {"DUP"})
    /\ type[h[2]] = "FILE"
    /\ \E i \in Slot : IsFirstFree(i) /\ MayReuse(i) /\ Release(i)
    /\ UNCHANGED <<running, opened, closed, io>>

(***************************************************************************)
(* NxSeek, NxRead, NxWrite                                                 *)
(***************************************************************************)
\* The base is 0, the offset, or the size of the file.
SysSeek(h, base, to) ==
    /\ Ready
    /\ Lookup(h, {"SEEK"})
    /\ type[h[2]] = "FILE"
    /\ base <= SeekMax
    /\ to \in -SeekMax .. SeekMax /\ base + to >= 0
    /\ offset' = [offset EXCEPT ![h[2]] = base + to]
    /\ UNCHANGED <<table, io>>

Least(a, b) == IF a <= b THEN a ELSE b

\* Bytes of the next chunk.
Want == Least(len - total, IoChunk)

Begin(what, h, need, n) ==
    /\ Ready
    /\ Lookup(h, {need})
    /\ op' = what /\ at' = h[2] /\ len' = n /\ total' = 0
    /\ UNCHANGED <<table, offset>>

SysRead(h, n) == type[h[2]] = "FILE" /\ Begin("read", h, "READ", n)
SysWrite(h, n) == Begin("write", h, "WRITE", n)

\* Mutant: a short transfer does not end the loop.
LoopEndsFullOnly(got) == total + got = len

\* The loop ends at a short transfer and when everything is transferred.
LoopEnds(got) == got < Want \/ total + got = len

Done == op' = "none" /\ at' = 0 /\ len' = 0

\* `got` more bytes are transferred.
Transfer(got) ==
    /\ total' = total + got
    /\ IF LoopEnds(got) THEN Done ELSE UNCHANGED <<op, at, len>>
    /\ offset' = IF type[at] = "FILE" THEN [offset EXCEPT ![at] = @ + got] ELSE offset
    /\ UNCHANGED table

\* How much of the chunk the driver may move: less at the end of the file.
Moved == {n \in 0 .. Want : n > 0 => offset[at] + n <= FileMax}

ReadChunk == op = "read" /\ \E got \in Moved : Transfer(got)

\* Mutant: the offset is left after the bytes that could not be delivered.
OffsetAfterFaultStays(got) == [offset EXCEPT ![at] = @ + got]

\* vfs_read has moved the offset on by `got`, and it is moved back.
OffsetAfterFault(got) == [offset EXCEPT ![at] = (@ + got) - got]

\* The user's buffer cannot be written: the chunk counts as not read.
ReadFault ==
    /\ op = "read"
    /\ \E got \in Moved \ {0} : offset' = OffsetAfterFault(got)
    /\ Done
    /\ UNCHANGED <<table, total>>

\* The console takes everything; a file may take a part of the chunk.
WriteChunk ==
    /\ op = "write"
    /\ IF type[at] = "CONSOLE" THEN Transfer(Want) ELSE \E n \in Moved : Transfer(n)

\* The driver fails, or the user's buffer cannot be read.
TransferFails ==
    /\ op # "none"
    /\ Done
    /\ UNCHANGED <<table, offset, total>>

(***************************************************************************)
(* The process ends (nx_handles_close_all), and its slot of the process    *)
(* table is used for the next one (nx_handles_init).                       *)
(***************************************************************************)
ProcessEnds ==
    /\ Ready
    /\ running' = FALSE
    /\ type' = [i \in Slot |-> "FREE"]
    /\ rights' = [i \in Slot |-> {}]
    /\ obj' = [i \in Slot |-> Console]
    /\ offset' = [i \in Slot |-> 0]
    /\ gen' = [i \in Slot |-> IF type[i] = "FREE" THEN gen[i] ELSE NextGen(i)]
    /\ opened' = opened \ {obj[i] : i \in Slot}
    /\ closed' = {}
    /\ grant' = [i \in Slot |-> NoGrant]
    /\ UNCHANGED io

ProcessStarts ==
    /\ ~running
    /\ running' = TRUE
    /\ type' = [i \in Slot |-> IF i < 3 THEN "CONSOLE" ELSE "FREE"]
    /\ rights' = [i \in Slot |-> IF i < 3 THEN StdRights(i) ELSE {}]
    /\ gen' = [i \in Slot |-> 0]
    /\ UNCHANGED <<obj, offset, opened, closed, grant, io>>

Next ==
    \/ \E m \in Mode, o \in Object : SysOpen(m, o)
    \/ \E o \in Object : SysOpenFails(o)
    \/ \E h \in Handle :
        \/ SysClose(h)
        \/ SysDuplicateFails(h)
        \/ \E m \in Mask, o \in Object \cup {Console} : SysDuplicate(h, m, o)
        \/ \E n \in Length : SysRead(h, n) \/ SysWrite(h, n)
        \/ \E to \in SeekTo, base \in 0 .. FileMax \cup {offset[h[2]]} : SysSeek(h, base, to)
    \/ ReadChunk \/ ReadFault \/ WriteChunk \/ TransferFails
    \/ ProcessEnds
    \/ ProcessStarts

Spec == Init /\ [][Next]_vars
FairSpec == Spec /\ WF_vars(ReadChunk \/ WriteChunk)

-----------------------------------------------------------------------------
(***************************************************************************)
(* Properties                                                              *)
(***************************************************************************)
\* Every field keeps its type; no offset leaves what an i64 can hold.
TypeOK ==
    /\ running \in BOOLEAN
    /\ type \in [Slot -> {"FREE", "CONSOLE", "FILE"}]
    /\ rights \in [Slot -> SUBSET Right]
    /\ gen \in [Slot -> Gen]
    /\ obj \in [Slot -> Object \cup {Console}]
    /\ offset \in [Slot -> Nat]
    /\ opened \subseteq Object
    /\ closed \subseteq Handle
    /\ grant \in [Slot -> Grant]
    /\ op \in {"none", "read", "write"}
    /\ at \in Slot
    /\ len \in Nat /\ total \in Nat

\* The drivers have open exactly the files of open handles, each file object
\* behind one handle: nothing leaks, and no close hits another handle's file.
OpenedMatchesTable ==
    /\ opened = {obj[i] : i \in {i \in Slot : type[i] = "FILE"}}
    /\ \A i, j \in Slot : type[i] = "FILE" /\ type[j] = "FILE" /\ obj[i] = obj[j] => i = j

\* A closed handle value is refused, whatever its slot is used for since.
StaleHandlesRefused == \A h \in closed : ~Lookup(h, {})

\* Through a read or a write the file offset moves by exactly the bytes the
\* caller is told of, wherever in the transfer the driver or the copy fails.
OffsetMatchesBytes ==
    [][op # "none" /\ type[at] = "FILE" =>
        offset'[at] - offset[at] = total' - total]_vars

\* A transfer comes to its end.
TransferEnds == op # "none" ~> op = "none"

\* The table does what the contract of handles says.
Live == {h \in Handle : type[h[2]] # "FREE" /\ gen[h[2]] = h[1]}
Contract == INSTANCE HandleContract WITH
    caps <- [h \in Live |-> [rights |-> rights[h[2]], object |-> obj[h[2]],
                             asked |-> grant[h[2]].asked, from |-> grant[h[2]].from]],
    dead <- closed
KeepsContract == Contract!Spec
=============================================================================
