--------------------------- MODULE HandlesProofs ---------------------------
(***************************************************************************)
(* Safety of the handle table for every table size, every set of objects   *)
(* and masks, and transfers of any length.                                 *)
(***************************************************************************)
EXTENDS Handles, TLAPS

USE DEF Slot, Gen, Handle, Right

\* Generations count modulo GenModulus and stay in range.
LEMMA NextGenType ==
    ASSUME TypeOK, NEW i \in Slot
    PROVE  NextGen(i) \in Gen
  BY GenAssumption DEF TypeOK, NextGen

\* What a slot was asked for is well typed.
LEMMA GrantType ==
    /\ NoGrant \in Grant
    /\ \A a \in SUBSET Right, f \in SUBSET Handle : [asked |-> a, from |-> f] \in Grant
  BY DEF NoGrant, Grant

\* nx_handle_close clears a slot and keeps the types.
LEMMA ReleaseType ==
    ASSUME TypeOK, NEW i \in Slot, Release(i)
    PROVE  /\ type' \in [Slot -> {"FREE", "CONSOLE", "FILE"}]
           /\ rights' \in [Slot -> SUBSET Right]
           /\ gen' \in [Slot -> Gen]
           /\ obj' \in [Slot -> Object \cup {Console}]
           /\ offset' \in [Slot -> Nat]
           /\ grant' \in [Slot -> Grant]
  <1>1. NextGen(i) \in Gen
    BY NextGenType
  <1>2. gen' \in [Slot -> Gen]
    BY <1>1 DEF TypeOK, Release
  <1>3. rights' \in [Slot -> SUBSET Right]
    BY DEF TypeOK, Release
  <1>4. grant' \in [Slot -> Grant]
    BY GrantType DEF TypeOK, Release
  <1> QED
    BY <1>2, <1>3, <1>4 DEF TypeOK, Release

\* A slot that becomes a handle keeps the types.
LEMMA FillType ==
    ASSUME TypeOK, NEW i \in Slot, NEW t \in {"FREE", "CONSOLE", "FILE"}, NEW r \in SUBSET Right,
           NEW o \in Object \cup {Console}, NEW off \in Nat,
           NEW a \in SUBSET Right, NEW f \in SUBSET Handle, Fill(i, t, r, o, off, a, f)
    PROVE  /\ type' \in [Slot -> {"FREE", "CONSOLE", "FILE"}]
           /\ rights' \in [Slot -> SUBSET Right]
           /\ obj' \in [Slot -> Object \cup {Console}]
           /\ offset' \in [Slot -> Nat]
           /\ grant' \in [Slot -> Grant]
  <1>1. rights' \in [Slot -> SUBSET Right]
    BY DEF TypeOK, Fill
  <1>2. grant' \in [Slot -> Grant]
    <2>1. grant' = [grant EXCEPT ![i] = [asked |-> a, from |-> f]]
      BY DEF Fill
    <2>2. PICK g \in Grant : g = [asked |-> a, from |-> f]
      BY GrantType
    <2>3. grant' = [grant EXCEPT ![i] = g]
      BY <2>1, <2>2
    <2> QED
      BY <2>3 DEF TypeOK
  <1> QED
    BY <1>1, <1>2 DEF TypeOK, Fill

\* The console's three slots are well typed.
LEMMA StdType ==
    /\ [i \in Slot |-> IF i < 3 THEN "CONSOLE" ELSE "FREE"] \in [Slot -> {"FREE", "CONSOLE", "FILE"}]
    /\ [i \in Slot |-> IF i < 3 THEN StdRights(i) ELSE {}] \in [Slot -> SUBSET Right]
  BY DEF StdRights

\* A step of a transfer keeps the types.
LEMMA TransferType ==
    ASSUME TypeOK, NEW got \in Nat, Transfer(got)
    PROVE  TypeOK'
  <1>1. 0 \in Slot
    BY HandlesAssumption
  <1>2. total' \in Nat /\ offset' \in [Slot -> Nat]
    <2>1. total \in Nat /\ at \in Slot /\ offset \in [Slot -> Nat]
      BY DEF TypeOK
    <2>2. total + got \in Nat /\ offset[at] + got \in Nat
      BY <2>1
    <2>3. [offset EXCEPT ![at] = @ + got] \in [Slot -> Nat]
      BY <2>1, <2>2
    <2> QED
      BY <2>1, <2>2, <2>3 DEF Transfer
  <1>3. op' \in {"none", "read", "write"} /\ at' \in Slot /\ len' \in Nat
    BY <1>1 DEF TypeOK, Transfer, Done
  <1>4. UNCHANGED table
    BY DEF Transfer
  <1> QED
    BY <1>2, <1>3, <1>4 DEF TypeOK, table

\* nx_handles_init is well typed.
LEMMA TypeInit == Init => TypeOK
  <1> SUFFICES ASSUME Init PROVE TypeOK
    OBVIOUS
  <1>1. type \in [Slot -> {"FREE", "CONSOLE", "FILE"}] /\ rights \in [Slot -> SUBSET Right]
    BY StdType DEF Init
  <1>2. running \in BOOLEAN
    BY DEF Init
  <1>3. gen \in [Slot -> Gen] /\ obj \in [Slot -> Object \cup {Console}] /\ offset \in [Slot -> Nat]
    BY GenAssumption DEF Init
  <1>4. opened \subseteq Object /\ closed \subseteq Handle
    BY DEF Init
  <1>5. op \in {"none", "read", "write"} /\ at \in Slot /\ len \in Nat /\ total \in Nat
    BY HandlesAssumption DEF Init
  <1>6. grant \in [Slot -> Grant]
    BY GrantType DEF Init
  <1> QED
    BY <1>1, <1>2, <1>3, <1>4, <1>5, <1>6 DEF TypeOK

\* Every step keeps the types.
LEMMA TypeStep == TypeOK /\ [Next]_vars => TypeOK'
  <1> SUFFICES ASSUME TypeOK, [Next]_vars PROVE TypeOK'
    OBVIOUS
  <1>0. 0 \in Slot
    BY HandlesAssumption
  <1>1. ASSUME NEW m \in Mode, NEW o \in Object, SysOpen(m, o) PROVE TypeOK'
    <2>1. PICK i \in Slot : Fill(i, "FILE", OpenRights(m), o, 0, m, {})
      BY <1>1 DEF SysOpen
    <2>2. OpenRights(m) \in SUBSET Right
      BY ModeAssumption DEF OpenRights
    <2>3. /\ type' \in [Slot -> {"FREE", "CONSOLE", "FILE"}]
          /\ rights' \in [Slot -> SUBSET Right]
          /\ obj' \in [Slot -> Object \cup {Console}]
          /\ offset' \in [Slot -> Nat] /\ grant' \in [Slot -> Grant]
      BY <2>1, <2>2, ModeAssumption, FillType
    <2>4. opened' \subseteq Object
      BY <1>1 DEF SysOpen, TypeOK
    <2> QED
      BY <1>1, <2>3, <2>4 DEF SysOpen, TypeOK, io
  <1>2. ASSUME NEW o \in Object, SysOpenFails(o) PROVE TypeOK'
    BY <1>2 DEF SysOpenFails, OpenFull, TypeOK, io
  <1>3. ASSUME NEW h \in Handle, SysClose(h) PROVE TypeOK'
    <2>1. h[2] \in Slot /\ Release(h[2])
      BY <1>3 DEF SysClose
    <2>2. opened' \subseteq Object
      BY <1>3 DEF SysClose, CloseFile, TypeOK
    <2>3. closed' \subseteq Handle
      BY <1>3 DEF SysClose, TypeOK
    <2> QED
      BY <1>3, <2>1, <2>2, <2>3, ReleaseType DEF SysClose, TypeOK, io
  <1>4. ASSUME NEW h \in Handle, SysDuplicateFails(h) PROVE TypeOK'
    <2>1. PICK i \in Slot : Release(i)
      BY <1>4 DEF SysDuplicateFails
    <2> QED
      BY <1>4, <2>1, ReleaseType DEF SysDuplicateFails, TypeOK, io
  <1>5. ASSUME NEW h \in Handle, NEW m \in Mask, NEW o \in Object \cup {Console},
               SysDuplicate(h, m, o)
        PROVE  TypeOK'
    <2>1. PICK i \in Slot : Fill(i, type[h[2]], DupRights(h[2], m), o, offset[h[2]], m, {h})
      BY <1>5 DEF SysDuplicate
    <2>2. h[2] \in Slot
      OBVIOUS
    <2>3. DupRights(h[2], m) \in SUBSET Right /\ m \in SUBSET Right /\ {h} \in SUBSET Handle
      BY <2>2, MaskAssumption DEF DupRights, TypeOK
    <2>4. type[h[2]] \in {"FREE", "CONSOLE", "FILE"} /\ offset[h[2]] \in Nat
      BY <2>2 DEF TypeOK
    <2>5. /\ type' \in [Slot -> {"FREE", "CONSOLE", "FILE"}]
          /\ rights' \in [Slot -> SUBSET Right]
          /\ obj' \in [Slot -> Object \cup {Console}]
          /\ offset' \in [Slot -> Nat] /\ grant' \in [Slot -> Grant]
      BY <2>1, <2>3, <2>4, FillType
    <2>6. opened' \subseteq Object
      BY <1>5 DEF SysDuplicate, TypeOK
    <2> QED
      BY <1>5, <2>5, <2>6 DEF SysDuplicate, TypeOK, io
  <1>6. ASSUME NEW h \in Handle, NEW n \in Length, SysRead(h, n) \/ SysWrite(h, n)
        PROVE  TypeOK'
    <2>1. h[2] \in Slot /\ n \in Nat
      BY IoAssumption
    <2>2. UNCHANGED <<table, offset>>
      BY <1>6 DEF SysRead, SysWrite, Begin
    <2>3. op' \in {"none", "read", "write"} /\ at' \in Slot /\ len' \in Nat /\ total' \in Nat
      BY <1>6, <2>1 DEF SysRead, SysWrite, Begin
    <2> QED
      BY <2>2, <2>3 DEF TypeOK, table
  <1>7. ASSUME NEW h \in Handle, NEW to \in SeekTo, NEW base \in 0 .. FileMax \cup {offset[h[2]]},
               SysSeek(h, base, to)
        PROVE  TypeOK'
    <2>1. h[2] \in Slot /\ to \in Int
      BY IoAssumption
    <2>2. base \in Nat
      BY <2>1, IoAssumption DEF TypeOK
    <2>3. offset' \in [Slot -> Nat]
      BY <1>7, <2>1, <2>2 DEF SysSeek, TypeOK
    <2> QED
      BY <1>7, <2>3 DEF SysSeek, TypeOK, table, io
  <1>8. ASSUME ReadChunk PROVE TypeOK'
    BY <1>8, TransferType DEF ReadChunk, Moved
  <1>9. ASSUME ReadFault PROVE TypeOK'
    <2>1. PICK got \in Moved : offset' = OffsetAfterFault(got)
      BY <1>9 DEF ReadFault
    <2>2. offset' \in [Slot -> Nat]
      BY <2>1 DEF Moved, OffsetAfterFault, TypeOK
    <2> QED
      BY <1>9, <1>0, <2>2 DEF ReadFault, Done, TypeOK, table
  <1>10. ASSUME WriteChunk PROVE TypeOK'
    <2>1. CASE type[at] = "CONSOLE"
      <3>1. Transfer(Want)
        BY <1>10, <2>1 DEF WriteChunk
      <3>2. total' \in Nat /\ offset' = offset
        BY <3>1, <2>1, IoAssumption DEF Transfer, Want, Least, TypeOK
      <3> QED
        BY <3>1, <3>2, <1>0 DEF Transfer, Done, TypeOK, table
    <2>2. CASE type[at] # "CONSOLE"
      BY <1>10, <2>2, TransferType DEF WriteChunk, Moved
    <2> QED
      BY <2>1, <2>2
  <1>11. ASSUME TransferFails PROVE TypeOK'
    BY <1>11, <1>0 DEF TransferFails, Done, TypeOK, table
  <1>12. ASSUME ProcessEnds PROVE TypeOK'
    <2>1. gen' \in [Slot -> Gen]
      BY <1>12, NextGenType DEF ProcessEnds, TypeOK
    <2>2. rights' \in [Slot -> SUBSET Right]
      BY <1>12 DEF ProcessEnds
    <2>3. /\ opened' \subseteq Object /\ closed' \subseteq Handle /\ running' \in BOOLEAN
          /\ grant' \in [Slot -> Grant]
      BY <1>12, GrantType DEF ProcessEnds, TypeOK
    <2> QED
      BY <1>12, <2>1, <2>2, <2>3 DEF ProcessEnds, TypeOK, io
  <1>13. ASSUME ProcessStarts PROVE TypeOK'
    <2>1. type' \in [Slot -> {"FREE", "CONSOLE", "FILE"}] /\ rights' \in [Slot -> SUBSET Right]
      BY <1>13, StdType DEF ProcessStarts
    <2>2. gen' \in [Slot -> Gen] /\ running' \in BOOLEAN
      BY <1>13, GenAssumption DEF ProcessStarts
    <2> QED
      BY <1>13, <2>1, <2>2 DEF ProcessStarts, TypeOK, io
  <1>14. CASE UNCHANGED vars
    BY <1>14 DEF vars, table, io, TypeOK
  <1> QED
    BY <1>1, <1>2, <1>3, <1>4, <1>5, <1>6, <1>7, <1>8, <1>9, <1>10, <1>11, <1>12, <1>13,
       <1>14 DEF Next

\* Every field of the handle table and of a transfer keeps its type: no offset
\* and no count leaves the natural numbers, no handle the table.
THEOREM TypeCorrect == Spec => []TypeOK
  BY TypeInit, TypeStep, PTL DEF Spec

-----------------------------------------------------------------------------
\* An ended process has an empty table and no history of closed handles.
EndedIsEmpty == ~running => closed = {} /\ \A i \in Slot : type[i] = "FREE"

\* Only a file slot has a driver object behind it.
FileHasObject == \A i \in Slot : IF type[i] = "FILE" THEN obj[i] \in Object ELSE obj[i] = Console

\* The inductive invariant. That a new process starts with no file open (its
\* slots are overwritten, not closed) needs EndedIsEmpty; that a close takes one
\* file away from the drivers needs that no two slots share one.
TableInv == TypeOK /\ OpenedMatchesTable /\ EndedIsEmpty /\ FileHasObject

\* The files of open handles, element by element.
LEMMA OpenedMembers ==
    OpenedMatchesTable <=>
        /\ \A o : o \in opened <=> \E i \in Slot : type[i] = "FILE" /\ obj[i] = o
        /\ \A i, j \in Slot : type[i] = "FILE" /\ type[j] = "FILE" /\ obj[i] = obj[j] => i = j
  BY DEF OpenedMatchesTable

\* A process starts with the console's slots and no file.
LEMMA TableInvInit == Init => TableInv
  <1> SUFFICES ASSUME Init PROVE TableInv
    OBVIOUS
  <1>1. TypeOK
    BY TypeInit
  <1>2. \A i \in Slot : type[i] # "FILE"
    BY DEF Init
  <1>3. OpenedMatchesTable
    BY <1>2, OpenedMembers DEF Init
  <1>4. EndedIsEmpty
    BY DEF Init, EndedIsEmpty
  <1>5. FileHasObject
    BY <1>2 DEF Init, FileHasObject
  <1> QED
    BY <1>1, <1>3, <1>4, <1>5 DEF TableInv

\* A new handle for a file that no slot has, or for the console.
LEMMA FillKeeps ==
    ASSUME TableInv, NEW i \in Slot, type[i] = "FREE", NEW t, NEW r, NEW o, NEW off,
           NEW a, NEW f, Fill(i, t, r, o, off, a, f), running, running' = running,
           \/ t = "FILE" /\ o \in Object \ opened /\ opened' = opened \cup {o}
           \/ t = "CONSOLE" /\ o = Console /\ opened' = opened
    PROVE  OpenedMatchesTable' /\ EndedIsEmpty' /\ FileHasObject'
  <1>1. /\ \A x : x \in opened <=> \E j \in Slot : type[j] = "FILE" /\ obj[j] = x
        /\ \A j, k \in Slot : type[j] = "FILE" /\ type[k] = "FILE" /\ obj[j] = obj[k] => j = k
    BY OpenedMembers DEF TableInv
  <1>2. /\ \A j \in Slot : type'[j] = IF j = i THEN t ELSE type[j]
        /\ \A j \in Slot : obj'[j] = IF j = i THEN o ELSE obj[j]
    BY DEF TableInv, TypeOK, Fill
  <1>3. FileHasObject'
    BY <1>2 DEF TableInv, FileHasObject
  <1>4. EndedIsEmpty'
    BY DEF EndedIsEmpty
  <1>5. \A j, k \in Slot : type'[j] = "FILE" /\ type'[k] = "FILE" /\ obj'[j] = obj'[k] => j = k
    BY <1>1, <1>2
  <1>6. \A x : x \in opened' <=> \E j \in Slot : type'[j] = "FILE" /\ obj'[j] = x
    BY <1>1, <1>2
  <1>7. OpenedMatchesTable'
    BY <1>5, <1>6 DEF OpenedMatchesTable
  <1> QED
    BY <1>3, <1>4, <1>7

\* A slot that is cleared takes its file, if it has one, from the drivers.
LEMMA ReleaseKeeps ==
    ASSUME TableInv, NEW i \in Slot, Release(i), opened' = CloseFile(i), running, running' = running
    PROVE  OpenedMatchesTable' /\ EndedIsEmpty' /\ FileHasObject'
  <1>1. /\ \A x : x \in opened <=> \E j \in Slot : type[j] = "FILE" /\ obj[j] = x
        /\ \A j, k \in Slot : type[j] = "FILE" /\ type[k] = "FILE" /\ obj[j] = obj[k] => j = k
    BY OpenedMembers DEF TableInv
  <1>2. /\ \A j \in Slot : type'[j] = IF j = i THEN "FREE" ELSE type[j]
        /\ \A j \in Slot : obj'[j] = IF j = i THEN Console ELSE obj[j]
    BY DEF TableInv, TypeOK, Release
  <1>3. FileHasObject'
    BY <1>2 DEF TableInv, FileHasObject
  <1>4. EndedIsEmpty'
    BY DEF EndedIsEmpty
  <1>5. \A j, k \in Slot : type'[j] = "FILE" /\ type'[k] = "FILE" /\ obj'[j] = obj'[k] => j = k
    BY <1>1, <1>2
  <1>6. \A x : x \in opened' <=> \E j \in Slot : type'[j] = "FILE" /\ obj'[j] = x
    BY <1>1, <1>2 DEF CloseFile
  <1>7. OpenedMatchesTable'
    BY <1>5, <1>6 DEF OpenedMatchesTable
  <1> QED
    BY <1>3, <1>4, <1>7

\* Steps that leave the table alone leave the invariant alone.
LEMMA TableUnchanged ==
    ASSUME TableInv, UNCHANGED table
    PROVE  OpenedMatchesTable' /\ EndedIsEmpty' /\ FileHasObject'
  BY DEF TableInv, OpenedMatchesTable, EndedIsEmpty, FileHasObject, table

\* Every step keeps the invariant.
LEMMA TableInvStep == TableInv /\ [Next]_vars => TableInv'
  <1> SUFFICES ASSUME TableInv, [Next]_vars PROVE TableInv'
    OBVIOUS
  <1>0. TypeOK'
    BY TypeStep DEF TableInv
  <1> SUFFICES OpenedMatchesTable' /\ EndedIsEmpty' /\ FileHasObject'
    BY <1>0 DEF TableInv
  <1>1. ASSUME NEW m \in Mode, NEW o \in Object, SysOpen(m, o)
        PROVE  OpenedMatchesTable' /\ EndedIsEmpty' /\ FileHasObject'
    <2>1. PICK i \in Slot : IsFirstFree(i) /\ Fill(i, "FILE", OpenRights(m), o, 0, m, {})
      BY <1>1 DEF SysOpen
    <2>2. type[i] = "FREE" /\ running /\ running' = running
      BY <1>1, <2>1 DEF IsFirstFree, SysOpen, Ready
    <2> QED
      BY <1>1, <2>1, <2>2, FillKeeps DEF SysOpen
  <1>2. ASSUME NEW o \in Object, SysOpenFails(o)
        PROVE  OpenedMatchesTable' /\ EndedIsEmpty' /\ FileHasObject'
    <2>1. opened' = opened
      BY <1>2 DEF SysOpenFails, OpenFull
    <2> QED
      BY <1>2, <2>1, TableUnchanged DEF SysOpenFails, table
  <1>3. ASSUME NEW h \in Handle, SysClose(h)
        PROVE  OpenedMatchesTable' /\ EndedIsEmpty' /\ FileHasObject'
    <2>1. h[2] \in Slot
      OBVIOUS
    <2> QED
      BY <1>3, <2>1, ReleaseKeeps DEF SysClose, Ready
  <1>4. ASSUME NEW h \in Handle, SysDuplicateFails(h)
        PROVE  OpenedMatchesTable' /\ EndedIsEmpty' /\ FileHasObject'
    <2>1. PICK i \in Slot : IsFirstFree(i) /\ Release(i)
      BY <1>4 DEF SysDuplicateFails
    <2>2. opened' = CloseFile(i)
      BY <1>4, <2>1 DEF SysDuplicateFails, IsFirstFree, CloseFile
    <2> QED
      BY <1>4, <2>1, <2>2, ReleaseKeeps DEF SysDuplicateFails, Ready
  <1>5. ASSUME NEW h \in Handle, NEW m \in Mask, NEW o \in Object \cup {Console},
               SysDuplicate(h, m, o)
        PROVE  OpenedMatchesTable' /\ EndedIsEmpty' /\ FileHasObject'
    <2>1. PICK i \in Slot : /\ IsFirstFree(i)
                           /\ Fill(i, type[h[2]], DupRights(h[2], m), o, offset[h[2]], m, {h})
      BY <1>5 DEF SysDuplicate
    <2>2. type[i] = "FREE" /\ running /\ running' = running
      BY <1>5, <2>1 DEF IsFirstFree, SysDuplicate, Ready
    <2>3. \/ type[h[2]] = "FILE" /\ o \in Object \ opened /\ opened' = opened \cup {o}
          \/ type[h[2]] = "CONSOLE" /\ o = Console /\ opened' = opened
      BY <1>5 DEF SysDuplicate, Lookup, TableInv, TypeOK
    <2> QED
      BY <2>1, <2>2, <2>3, FillKeeps
  <1>6. ASSUME NEW h \in Handle, NEW n \in Length, SysRead(h, n) \/ SysWrite(h, n)
        PROVE  OpenedMatchesTable' /\ EndedIsEmpty' /\ FileHasObject'
    BY <1>6, TableUnchanged DEF SysRead, SysWrite, Begin
  <1>7. ASSUME NEW h \in Handle, NEW to \in SeekTo, NEW base, SysSeek(h, base, to)
        PROVE  OpenedMatchesTable' /\ EndedIsEmpty' /\ FileHasObject'
    BY <1>7, TableUnchanged DEF SysSeek
  <1>8. ASSUME ReadChunk \/ ReadFault \/ WriteChunk \/ TransferFails
        PROVE  OpenedMatchesTable' /\ EndedIsEmpty' /\ FileHasObject'
    BY <1>8, TableUnchanged DEF ReadChunk, ReadFault, WriteChunk, TransferFails, Transfer
  <1>9. ASSUME ProcessEnds
        PROVE  OpenedMatchesTable' /\ EndedIsEmpty' /\ FileHasObject'
    <2>1. \A i \in Slot : type'[i] = "FREE" /\ obj'[i] = Console
      BY <1>9 DEF ProcessEnds
    <2>2. opened' = {}
      BY <1>9 DEF ProcessEnds, TableInv, OpenedMatchesTable
    <2> QED
      BY <1>9, <2>1, <2>2 DEF ProcessEnds, OpenedMatchesTable, EndedIsEmpty, FileHasObject
  <1>10. ASSUME ProcessStarts
         PROVE  OpenedMatchesTable' /\ EndedIsEmpty' /\ FileHasObject'
    <2>1. \A i \in Slot : type'[i] # "FILE" /\ obj'[i] = Console
      BY <1>10 DEF ProcessStarts, TableInv, EndedIsEmpty, FileHasObject
    <2>2. opened' = {}
      BY <1>10 DEF ProcessStarts, TableInv, EndedIsEmpty, OpenedMatchesTable
    <2> QED
      BY <1>10, <2>1, <2>2 DEF ProcessStarts, OpenedMatchesTable, EndedIsEmpty, FileHasObject
  <1>11. CASE UNCHANGED vars
    BY <1>11, TableUnchanged DEF vars
  <1> QED
    BY <1>1, <1>2, <1>3, <1>4, <1>5, <1>6, <1>7, <1>8, <1>9, <1>10, <1>11 DEF Next

\* The drivers have open exactly the files of open handles, each behind one
\* handle, whichever half of an open or of a duplicate fails.
THEOREM OpenedSafe == Spec => []OpenedMatchesTable
  <1>1. TableInv => OpenedMatchesTable
    BY DEF TableInv
  <1> QED
    BY <1>1, TableInvInit, TableInvStep, PTL DEF Spec

-----------------------------------------------------------------------------
\* What OffsetMatchesBytes says of one step.
OffsetStep ==
    op # "none" /\ type[at] = "FILE" => offset'[at] - offset[at] = total' - total

\* Every step of a transfer moves the offset by the bytes it counts.
LEMMA OffsetStepHolds == TypeOK /\ [Next]_vars => OffsetStep
  <1> SUFFICES ASSUME TypeOK, [Next]_vars, op # "none", type[at] = "FILE"
               PROVE  offset'[at] - offset[at] = total' - total
    BY DEF OffsetStep
  <1>0. at \in Slot /\ offset[at] \in Nat /\ total \in Nat
    BY DEF TypeOK
  <1>1. ASSUME NEW got \in Nat, Transfer(got)
        PROVE  offset'[at] - offset[at] = total' - total
    BY <1>0, <1>1 DEF Transfer, TypeOK
  <1>2. CASE ReadChunk \/ WriteChunk
    BY <1>1, <1>2 DEF ReadChunk, WriteChunk, Moved
  <1>3. CASE ReadFault
    <2>1. PICK got \in Moved : offset' = OffsetAfterFault(got)
      BY <1>3 DEF ReadFault
    <2>2. got \in Nat
      BY DEF Moved
    <2> QED
      BY <1>0, <1>3, <2>1, <2>2 DEF ReadFault, OffsetAfterFault, TypeOK
  <1>4. CASE offset' = offset /\ total' = total
    BY <1>0, <1>4
  <1>5. ~Ready
    BY DEF Ready
  <1> QED
    BY <1>2, <1>3, <1>4, <1>5
       DEF Next, SysOpen, SysOpenFails, SysClose, SysDuplicate, SysDuplicateFails, SysRead,
           SysWrite, Begin, SysSeek, TransferFails, ProcessEnds, ProcessStarts, vars, io

\* The offset of a file moves by exactly the bytes that are reported, wherever a
\* transfer fails.
THEOREM OffsetSafe == Spec => OffsetMatchesBytes
  <1>1. TypeOK /\ [Next]_vars =>
          [op # "none" /\ type[at] = "FILE" => offset'[at] - offset[at] = total' - total]_vars
    BY OffsetStepHolds DEF OffsetStep
  <1> QED
    BY <1>1, TypeInit, TypeStep, PTL DEF Spec, OffsetMatchesBytes

-----------------------------------------------------------------------------
\* Below the wrap of the generations a closed name is older than its slot.
ClosedIsOld == \A h \in closed : h[1] < gen[h[2]]

\* A generation below the bound is followed by the next number.
LEMMA NextGenGrows ==
    ASSUME MaxReuse < GenModulus, TypeOK, NEW i \in Slot, MayReuse(i)
    PROVE  NextGen(i) = gen[i] + 1
  <1>1. gen[i] \in Nat /\ gen[i] + 1 < GenModulus
    BY GenAssumption DEF TypeOK, MayReuse
  <1> QED
    BY <1>1, GenAssumption DEF NextGen

\* A slot that is cleared grows older and no other slot changes.
LEMMA ReleaseAges ==
    ASSUME MaxReuse < GenModulus, TypeOK, NEW i \in Slot, MayReuse(i), Release(i)
    PROVE  \A j \in Slot : gen'[j] = IF j = i THEN gen[i] + 1 ELSE gen[j]
  BY NextGenGrows DEF Release, TypeOK

\* Every step keeps closed names older than their slots.
LEMMA ClosedIsOldStep ==
    MaxReuse < GenModulus /\ TableInv /\ ClosedIsOld /\ [Next]_vars => ClosedIsOld'
  <1> SUFFICES ASSUME MaxReuse < GenModulus, TableInv, ClosedIsOld, [Next]_vars
               PROVE  ClosedIsOld'
    OBVIOUS
  <1>0. TypeOK /\ closed \subseteq Handle /\ \A i \in Slot : gen[i] \in Nat
    BY DEF TableInv, TypeOK
  <1>1. ASSUME NEW h \in Handle, SysClose(h) PROVE ClosedIsOld'
    <2>1. h[2] \in Slot /\ gen[h[2]] = h[1] /\ MayReuse(h[2]) /\ Release(h[2])
      BY <1>1 DEF SysClose, Lookup
    <2>2. \A j \in Slot : gen'[j] = IF j = h[2] THEN gen[j] + 1 ELSE gen[j]
      BY <1>0, <2>1, ReleaseAges
    <2>3. closed' = closed \cup {h}
      BY <1>1 DEF SysClose
    <2> SUFFICES ASSUME NEW k \in closed' PROVE k[1] < gen'[k[2]]
      BY DEF ClosedIsOld
    <2>4. k \in Handle /\ k[2] \in Slot /\ k[1] \in Nat
      BY <1>0, <2>3
    <2>5. k = h \/ k[1] < gen[k[2]]
      BY <2>3 DEF ClosedIsOld
    <2> QED
      BY <1>0, <2>1, <2>2, <2>4, <2>5
  <1>2. ASSUME NEW h \in Handle, SysDuplicateFails(h) PROVE ClosedIsOld'
    <2>1. PICK i \in Slot : MayReuse(i) /\ Release(i)
      BY <1>2 DEF SysDuplicateFails
    <2>2. \A j \in Slot : gen'[j] = IF j = i THEN gen[j] + 1 ELSE gen[j]
      BY <1>0, <2>1, ReleaseAges
    <2> SUFFICES ASSUME NEW k \in closed' PROVE k[1] < gen'[k[2]]
      BY DEF ClosedIsOld
    <2>3. k \in Handle /\ k[2] \in Slot /\ k[1] \in Nat /\ k[1] < gen[k[2]]
      BY <1>0, <1>2 DEF SysDuplicateFails, ClosedIsOld
    <2> QED
      BY <1>0, <2>2, <2>3
  <1>3. CASE gen' = gen /\ closed' = closed
    BY <1>3 DEF ClosedIsOld
  <1>4. CASE closed' = {}
    BY <1>4 DEF ClosedIsOld
  <1>5. ASSUME ProcessStarts PROVE closed' = {}
    BY <1>5 DEF ProcessStarts, TableInv, EndedIsEmpty
  <1>6. ASSUME ProcessEnds PROVE closed' = {}
    BY <1>6 DEF ProcessEnds
  <1>7. ASSUME ReadChunk \/ ReadFault \/ WriteChunk \/ TransferFails PROVE UNCHANGED table
    BY <1>7 DEF ReadChunk, ReadFault, WriteChunk, TransferFails, Transfer
  <1>8. ASSUME NEW h \in Handle, NEW n \in Length, SysRead(h, n) \/ SysWrite(h, n)
        PROVE  UNCHANGED table
    BY <1>8 DEF SysRead, SysWrite, Begin
  <1> QED
    BY <1>1, <1>2, <1>3, <1>4, <1>5, <1>6, <1>7, <1>8
       DEF Next, SysOpen, SysOpenFails, SysDuplicate, SysSeek, vars, table

\* As long as the generations do not wrap, a closed handle is refused for ever,
\* whatever its slot is used for since.
THEOREM StaleSafe == MaxReuse < GenModulus => (Spec => []StaleHandlesRefused)
  <1> SUFFICES ASSUME MaxReuse < GenModulus PROVE Spec => []StaleHandlesRefused
    OBVIOUS
  <1>1. Init => ClosedIsOld
    BY DEF Init, ClosedIsOld
  <1>2. TableInv /\ ClosedIsOld => StaleHandlesRefused
    <2> SUFFICES ASSUME TableInv, ClosedIsOld, NEW h \in closed PROVE ~Lookup(h, {})
      BY DEF StaleHandlesRefused
    <2>1. h \in Handle /\ h[1] \in Nat /\ h[1] < gen[h[2]]
      BY DEF TableInv, TypeOK, ClosedIsOld
    <2> QED
      BY <2>1 DEF Lookup
  <1>3. TableInv /\ ClosedIsOld /\ [Next]_vars => ClosedIsOld'
    BY ClosedIsOldStep
  <1> QED
    BY <1>1, <1>2, <1>3, TableInvInit, TableInvStep, PTL DEF Spec

-----------------------------------------------------------------------------
\* The open handles as the contract sees them, and their next value.
Caps == [h \in Live |-> [rights |-> rights[h[2]], object |-> obj[h[2]],
                        asked |-> grant[h[2]].asked, from |-> grant[h[2]].from]]

\* The contract in terms of Caps: what its definitions say of the table.
LEMMA ContractFacts ==
    /\ DOMAIN Caps = Live
    /\ \A h \in Live : Caps[h].rights = rights[h[2]] /\ Caps[h].object = obj[h[2]]
    /\ \A h \in Live : Caps[h].asked = grant[h[2]].asked /\ Caps[h].from = grant[h[2]].from
    /\ Contract!Init <=> Contract!Fresh(Caps) /\ closed = {}
  BY DEF Caps, Contract!Init

\* An object that no driver has open is held by no name.
LEMMA HeldIsOpen ==
    ASSUME TableInv, NEW o \in Object \ opened
    PROVE  o \in Object \ Contract!Held
  <1>1. \A h \in Live : obj[h[2]] = Console \/ obj[h[2]] \in opened
    BY DEF Live, TableInv, FileHasObject, OpenedMatchesTable
  <1>2. o # Console
    BY ObjectAssumption
  <1> QED
    BY <1>1, <1>2 DEF Contract!Held

\* A table that has only console slots is a fresh one.
LEMMA FreshTable ==
    ASSUME rights \in [Slot -> SUBSET Right],
           \A i \in Slot : type[i] # "FREE" => obj[i] = Console
    PROVE  Contract!Fresh(Caps)
  <1>1. \A h \in Live : h \in Handle /\ h[2] \in Slot
    BY DEF Live
  <1>2. \A h \in Live : Caps[h].object = Console /\ Caps[h].rights \subseteq Right
    BY <1>1, ContractFacts DEF Live
  <1> QED
    BY <1>1, <1>2, ContractFacts DEF Contract!Fresh

\* A slot that is filled adds its name, which was never used before.
LEMMA FillAdds ==
    ASSUME TableInv, ClosedIsOld, NEW i \in Slot, type[i] = "FREE",
           NEW t \in {"CONSOLE", "FILE"}, NEW r \in SUBSET Right, NEW o, NEW off,
           NEW a \in SUBSET Right, NEW f \in SUBSET Handle,
           Fill(i, t, r, o, off, a, f), gen' = gen, closed' = closed
    PROVE  \E h \in Live' : /\ Contract!Adds(h)
                            /\ Caps'[h].rights = r /\ Caps'[h].object = o
                            /\ Caps'[h].asked = a /\ Caps'[h].from = f
  <1> DEFINE h == <<gen[i], i>>
  <1>0. gen[i] \in Gen /\ h \in Handle /\ h[1] = gen[i] /\ h[2] = i
    BY DEF TableInv, TypeOK
  <1>1. /\ \A j \in Slot : type'[j] = IF j = i THEN t ELSE type[j]
        /\ \A j \in Slot : obj'[j] = IF j = i THEN o ELSE obj[j]
        /\ \A j \in Slot : rights'[j] = IF j = i THEN r ELSE rights[j]
        /\ \A j \in Slot \ {i} : grant'[j] = grant[j]
        /\ grant'[i].asked = a /\ grant'[i].from = f
    BY DEF TableInv, TypeOK, Fill
  <1>2. h \notin Live
    BY <1>0 DEF Live
  <1>3. h \notin closed
    BY <1>0 DEF ClosedIsOld
  <1>4. \A k \in Handle : k # h => k[2] # i \/ k[1] # gen[i]
    OBVIOUS
  <1>5. Live' = Live \cup {h}
    BY <1>0, <1>1, <1>4 DEF Live
  <1>6. \A k \in Live : k[2] \in Slot /\ k[2] # i
    BY DEF Live
  <1>7. /\ DOMAIN Caps' = Live'
        /\ \A k \in Live' :
             Caps'[k] = [rights |-> rights'[k[2]], object |-> obj'[k[2]],
                         asked |-> grant'[k[2]].asked, from |-> grant'[k[2]].from]
    BY DEF Caps
  <1>8. \A k \in Live : Caps'[k] = Caps[k]
    BY <1>1, <1>5, <1>6, <1>7 DEF Caps
  <1>9. Caps'[h].rights = r /\ Caps'[h].object = o /\ Caps'[h].asked = a /\ Caps'[h].from = f
    <2>1. /\ h \in Live' /\ rights'[h[2]] = r /\ obj'[h[2]] = o
          /\ grant'[h[2]].asked = a /\ grant'[h[2]].from = f
      BY <1>0, <1>1, <1>5
    <2>2. Caps'[h] = [rights |-> r, object |-> o, asked |-> a, from |-> f]
      BY <1>7, <2>1
    <2> QED
      BY <2>2
  <1>10. Contract!Adds(h)
    BY <1>0, <1>2, <1>3, <1>5, <1>7, <1>8, <1>9, ContractFacts DEF Contract!Adds, Caps
  <1>11. h \in Live'
    BY <1>5
  <1> HIDE DEF h
  <1> QED
    BY <1>9, <1>10, <1>11 DEF Contract!Adds

\* Steps that keep slots, their generations, rights, objects and grants are stutters.
LEMMA ContractStutters ==
    ASSUME UNCHANGED <<type, gen, rights, obj, grant, closed>>
    PROVE  Caps' = Caps /\ closed' = closed
  BY DEF Caps, Live

\* Every step of the table is a step of the contract.
LEMMA ContractStep ==
    TableInv /\ ClosedIsOld /\ TableInv' /\ [Next]_vars => [Contract!Next]_(Contract!vars)
  <1> SUFFICES ASSUME TableInv, ClosedIsOld, TableInv', [Next]_vars
               PROVE  Contract!Next \/ (Caps' = Caps /\ closed' = closed)
    BY DEF Contract!vars, Caps
  <1>1. ASSUME NEW m \in Mode, NEW o \in Object, SysOpen(m, o) PROVE Contract!Next
    <2>1. PICK i \in Slot : IsFirstFree(i) /\ Fill(i, "FILE", OpenRights(m), o, 0, m, {})
      BY <1>1 DEF SysOpen
    <2>2. OpenRights(m) \in SUBSET Right /\ OpenRights(m) \cap {"READ", "WRITE"} = m
      BY ModeAssumption DEF OpenRights
    <2>3. m \in SUBSET Right /\ {} \in SUBSET Handle
      BY ModeAssumption
    <2>4. PICK h \in Live' : /\ Contract!Adds(h)
                            /\ Caps'[h].rights = OpenRights(m) /\ Caps'[h].object = o
                            /\ Caps'[h].asked = m /\ Caps'[h].from = {}
      BY <1>1, <2>1, <2>2, <2>3, FillAdds DEF SysOpen, IsFirstFree
    <2>5. o \in Object \ Contract!Held
      BY <1>1, HeldIsOpen DEF SysOpen
    <2>6. Contract!Open
      BY <2>2, <2>4, <2>5 DEF Contract!Open, Caps
    <2> QED
      BY <2>6 DEF Contract!Next
  <1>2. ASSUME NEW h \in Handle, SysClose(h) PROVE Contract!Next
    <2>1. h[2] \in Slot /\ h \in Live
      BY <1>2 DEF SysClose, Lookup, Live
    <2>2. \A j \in Slot : j # h[2] => /\ type'[j] = type[j] /\ gen'[j] = gen[j]
                                     /\ rights'[j] = rights[j] /\ obj'[j] = obj[j]
                                     /\ grant'[j] = grant[j]
      BY <1>2 DEF SysClose, Release, TableInv, TypeOK
    <2>3. type'[h[2]] = "FREE"
      BY <1>2, <2>1 DEF SysClose, Release, TableInv, TypeOK
    <2>4. \A k \in Live : k # h => k[2] # h[2]
      BY <2>1 DEF Live
    <2>5. Live' = Live \ {h}
      BY <2>1, <2>2, <2>3, <2>4 DEF Live
    <2>6. \A k \in Live \ {h} : k[2] \in Slot /\ k[2] # h[2]
      BY <2>4 DEF Live
    <2>7. Caps' = [k \in Live \ {h} |-> Caps[k]]
      BY <2>2, <2>5, <2>6 DEF Caps
    <2>8. closed' = closed \cup {h}
      BY <1>2 DEF SysClose
    <2>9. Contract!Close(h)
      BY <2>7, <2>8, ContractFacts DEF Contract!Close, Caps
    <2> QED
      BY <2>1, <2>9, ContractFacts DEF Contract!Next, Caps
  <1>3. ASSUME NEW h \in Handle, NEW m \in Mask, NEW o \in Object \cup {Console},
               SysDuplicate(h, m, o)
        PROVE  Contract!Next
    <2>1. PICK i \in Slot : /\ IsFirstFree(i)
                           /\ Fill(i, type[h[2]], DupRights(h[2], m), o, offset[h[2]], m, {h})
      BY <1>3 DEF SysDuplicate
    <2>2. h \in Live /\ h[2] \in Slot /\ type[h[2]] \in {"CONSOLE", "FILE"}
      BY <1>3 DEF SysDuplicate, Lookup, Live, TableInv, TypeOK
    <2>3. /\ DupRights(h[2], m) \in SUBSET Right /\ DupRights(h[2], m) = rights[h[2]] \cap m
          /\ m \in SUBSET Right /\ {h} \in SUBSET Handle
      BY <2>2, MaskAssumption DEF DupRights, TableInv, TypeOK
    <2>4. PICK k \in Live' : /\ Contract!Adds(k)
                            /\ Caps'[k].rights = DupRights(h[2], m) /\ Caps'[k].object = o
                            /\ Caps'[k].asked = m /\ Caps'[k].from = {h}
      BY <1>3, <2>1, <2>2, <2>3, FillAdds DEF SysDuplicate, IsFirstFree
    <2>5. IF Caps[h].object = Console THEN o = Console ELSE o \in Object \ opened
      BY <1>3, <2>2, ContractFacts, ObjectAssumption DEF SysDuplicate, TableInv, FileHasObject
    <2>6. IF Caps[h].object = Console THEN o = Console ELSE o \in Object \ Contract!Held
      BY <2>5, HeldIsOpen
    <2>7. Caps'[k].rights = Caps[h].rights \cap Caps'[k].asked
      BY <2>2, <2>3, <2>4, ContractFacts
    <2>8. Contract!Duplicate(h)
      BY <2>4, <2>6, <2>7 DEF Contract!Duplicate, Caps
    <2> QED
      BY <2>2, <2>8, ContractFacts DEF Contract!Next, Caps
  <1>4. ASSUME NEW h \in Handle, SysDuplicateFails(h) PROVE Caps' = Caps /\ closed' = closed
    <2>1. PICK i \in Slot : IsFirstFree(i) /\ Release(i)
      BY <1>4 DEF SysDuplicateFails
    <2>2. /\ type[i] = "FREE" /\ type'[i] = "FREE"
          /\ \A j \in Slot : j # i => /\ type'[j] = type[j] /\ gen'[j] = gen[j]
                                     /\ rights'[j] = rights[j] /\ obj'[j] = obj[j]
                                     /\ grant'[j] = grant[j]
      BY <2>1 DEF IsFirstFree, Release, TableInv, TypeOK
    <2>3. Live' = Live /\ \A k \in Live : k[2] \in Slot /\ k[2] # i
      BY <2>2 DEF Live
    <2> QED
      BY <1>4, <2>2, <2>3 DEF SysDuplicateFails, Caps
  <1>5. ASSUME ProcessEnds PROVE Contract!Next
    <2>1. Live' = {}
      BY <1>5 DEF ProcessEnds, Live
    <2>2. Contract!End
      BY <1>5, <2>1 DEF ProcessEnds, Contract!End
    <2> QED
      BY <2>2 DEF Contract!Next
  <1>6. ASSUME ProcessStarts PROVE Contract!Next
    <2>1. Live = {} /\ closed = {} /\ closed' = closed
      BY <1>6 DEF ProcessStarts, TableInv, EndedIsEmpty, Live
    <2>2. \A i \in Slot : obj'[i] = Console
      BY <1>6 DEF ProcessStarts, TableInv, EndedIsEmpty, FileHasObject
    <2>3. \A k \in Live' : k \in Handle /\ k[2] \in Slot
      BY DEF Live
    <2>4. rights' \in [Slot -> SUBSET Right]
      BY DEF TableInv, TypeOK
    <2>5. Contract!Fresh(Caps')
      BY <2>2, <2>3, <2>4 DEF Contract!Fresh, Caps
    <2>6. Contract!Start
      BY <2>1, <2>5 DEF Contract!Start, Caps
    <2> QED
      BY <2>6 DEF Contract!Next
  <1>7. ASSUME ReadChunk \/ ReadFault \/ WriteChunk \/ TransferFails PROVE UNCHANGED table
    BY <1>7 DEF ReadChunk, ReadFault, WriteChunk, TransferFails, Transfer
  <1>8. ASSUME NEW h \in Handle, NEW n \in Length, SysRead(h, n) \/ SysWrite(h, n)
        PROVE  UNCHANGED table
    BY <1>8 DEF SysRead, SysWrite, Begin
  <1>9. CASE UNCHANGED <<type, gen, rights, obj, grant, closed>>
    BY <1>9, ContractStutters
  <1> QED
    BY <1>1, <1>2, <1>3, <1>4, <1>5, <1>6, <1>7, <1>8, <1>9
       DEF Next, SysOpenFails, SysSeek, vars, table

\* The table implements the contract of handles as long as the generations do
\* not wrap: a name is given to one object only and stays dead once it is closed,
\* a new handle to a file can be read or written as NxOpen was asked and no more,
\* and a copy, of a file too, has no right that its original does not have.
THEOREM ContractKept == MaxReuse < GenModulus => (Spec => KeepsContract)
  <1> SUFFICES ASSUME MaxReuse < GenModulus PROVE Spec => KeepsContract
    OBVIOUS
  <1>1. Init => Contract!Init /\ ClosedIsOld
    <2> SUFFICES ASSUME Init PROVE Contract!Init /\ ClosedIsOld
      OBVIOUS
    <2>1. TypeOK /\ \A i \in Slot : obj[i] = Console
      BY TypeInit DEF Init
    <2>2. Contract!Fresh(Caps)
      BY <2>1, FreshTable DEF TypeOK
    <2> QED
      BY <2>2, ContractFacts DEF Init, ClosedIsOld
  <1>2. TableInv /\ ClosedIsOld /\ [Next]_vars => ClosedIsOld'
    BY ClosedIsOldStep
  <1> QED
    BY <1>1, <1>2, ContractStep, TableInvInit, TableInvStep, PTL
       DEF Spec, KeepsContract, Contract!Spec
=============================================================================
