--------------------------- MODULE ProcessProofs ---------------------------
(***************************************************************************)
(* Safety of the process table for every table size, every number of       *)
(* address spaces and files, and behaviours of any length.                 *)
(***************************************************************************)
EXTENDS Process, TLAPS

USE DEF Slot, Idle, Unlink, DestroySpaces, HandlesCloseAll, NewPid, NextPid, MaySleep

\* Clearing entries of a table keeps its type and touches only those entries.
LEMMA ClearedProperties ==
    ASSUME NEW T, NEW f \in [Slot -> T], NEW S \in SUBSET Slot, NEW zero \in T
    PROVE  /\ Cleared(f, S, zero) \in [Slot -> T]
           /\ \A s \in Slot : Cleared(f, S, zero)[s] = IF s \in S THEN zero ELSE f[s]
  BY DEF Cleared

\* A switch of process_switch keeps the types of what it assigns.
LEMMA SwitchType ==
    ASSUME TypeOK, NEW next \in Runnable, NEW mine \in {"RUNNING", "BLOCKED", "TERMINATED"},
           ProcessSwitch(next, mine)
    PROVE  /\ state' \in [Slot -> State]
           /\ cr3' \in Space \cup {KernelSpace}
           /\ rsp0' \in Slot
           /\ current' \in Slot
           /\ next \in Slot \ {current}
  BY DEF TypeOK, ProcessSwitch, Runnable, State

\* The boot state of process_init is well typed.
LEMMA TypeInit == Init => TypeOK
  <1> SUFFICES ASSUME Init PROVE TypeOK
    OBVIOUS
  <1>1. files \in [Slot -> SUBSET File]
    <2>1. {} \in SUBSET File
      OBVIOUS
    <2> QED
      BY <2>1 DEF Init
  <1>2. panicked \in BOOLEAN
    BY DEF Init
  <1>3. state \in [Slot -> State]
    BY DEF Init, State
  <1>4. order \in [Slot -> 0 .. created + 1]
    BY DEF Init
  <1>5. pid \in [Slot -> 0 .. PidModulus - 1] /\ nextPid \in 0 .. PidModulus - 1
    BY PidAssumption DEF Init
  <1>6. space \in [Slot -> Space \cup {KernelSpace}] /\ cr3 \in Space \cup {KernelSpace}
    BY DEF Init
  <1>7. wake \in [Slot -> Nat]
    BY DEF Init
  <1>8. code \in [Slot -> Int]
    BY DEF Init
  <1>9. current \in Slot /\ rsp0 \in Slot
    BY ProcessMaxAssumption DEF Init
  <1>10. lastCode \in Int /\ tick \in Nat /\ created \in Nat /\ live \subseteq Space
    BY DEF Init
  <1> QED
    BY <1>1, <1>2, <1>3, <1>4, <1>5, <1>6, <1>7, <1>8, <1>9, <1>10 DEF TypeOK

\* process_create and process_create_user, with the reap they begin with, keep the
\* types.
LEMMA TypeCreate ==
    ASSUME TypeOK, NEW sp \in Space \cup {KernelSpace}, Create(sp)
    PROVE  TypeOK'
  <1> DEFINE gone == Reaped(state)
  <1>0. gone \in SUBSET Slot
    BY DEF Reaped
  <1>1. PICK s \in FreeAfter(gone) :
          /\ state' = [Cleared(state, gone, "FREE") EXCEPT ![s] = "READY"]
          /\ pid' = [Cleared(pid, gone, 0) EXCEPT ![s] = nextPid]
          /\ space' = [Cleared(space, gone, KernelSpace) EXCEPT ![s] = sp]
          /\ files' = [Cleared(files, gone, {}) EXCEPT ![s] = {}]
          /\ wake' = [Cleared(wake, gone, 0) EXCEPT ![s] = 0]
          /\ code' = [Cleared(code, gone, 0) EXCEPT ![s] = 0]
          /\ order' = [Cleared(order, gone, 0) EXCEPT ![s] = created + 2]
    BY DEF Create
  <1>2. s \in Slot
    BY DEF FreeAfter
  <1> HIDE DEF gone
  <1>3. state' \in [Slot -> State]
    BY <1>0, <1>1, <1>2 DEF TypeOK, Cleared, State
  <1>4. pid' \in [Slot -> 0 .. PidModulus - 1]
    BY <1>0, <1>1, <1>2, PidAssumption DEF TypeOK, Cleared
  <1>5. space' \in [Slot -> Space \cup {KernelSpace}]
    BY <1>0, <1>1, <1>2 DEF TypeOK, Cleared
  <1>6. files' \in [Slot -> SUBSET File]
    <2>1. {} \in SUBSET File /\ files \in [Slot -> SUBSET File]
      BY DEF TypeOK
    <2>2. Cleared(files, gone, {}) \in [Slot -> SUBSET File]
      BY <1>0, <2>1, ClearedProperties
    <2> QED
      BY <1>1, <1>2, <2>1, <2>2
  <1>7. wake' \in [Slot -> Nat]
    BY <1>0, <1>1, <1>2 DEF TypeOK, Cleared
  <1>13. code' \in [Slot -> Int]
    BY <1>0, <1>1, <1>2 DEF TypeOK, Cleared
  <1>8. created' = created + 1 /\ created \in Nat
    BY DEF Create, TypeOK
  <1>9. order' \in [Slot -> 0 .. created' + 1]
    <2>1. PICK n \in Nat : n = created /\ created' + 1 = n + 2
      BY <1>8
    <2>2. order \in [Slot -> 0 .. n + 1]
      BY <2>1 DEF TypeOK
    <2>3. order \in [Slot -> 0 .. n + 2] /\ 0 \in 0 .. n + 2 /\ n + 2 \in 0 .. n + 2
      <3>1. \A i \in 0 .. n + 1 : i \in 0 .. n + 2
        OBVIOUS
      <3> QED
        BY <2>2, <3>1
    <2>4. Cleared(order, gone, 0) \in [Slot -> 0 .. n + 2]
      BY <1>0, <2>3 DEF Cleared
    <2>5. order' = [Cleared(order, gone, 0) EXCEPT ![s] = n + 2]
      BY <1>1, <2>1
    <2>6. order' \in [Slot -> 0 .. n + 2]
      BY <1>2, <2>3, <2>4, <2>5
    <2> QED
      BY <2>1, <2>6
  <1>10. live' \subseteq Space
    BY DEF Create, TypeOK
  <1>11. nextPid' \in 0 .. PidModulus - 1
    BY PidAssumption DEF Create, TypeOK
  <1>12. UNCHANGED <<cpu, lastCode, tick, panicked>>
    BY DEF Create
  <1> QED
    BY <1>3, <1>4, <1>5, <1>6, <1>7, <1>8, <1>9, <1>10, <1>11, <1>12, <1>13 DEF TypeOK, cpu

\* process_reap keeps the types, whatever states and files it is called with.
LEMMA TypeReap ==
    ASSUME TypeOK, NEW st \in [Slot -> State], NEW fl \in [Slot -> SUBSET File],
           ProcessReap(st, fl), created' = created
    PROVE  /\ state' \in [Slot -> State]
           /\ pid' \in [Slot -> 0 .. PidModulus - 1]
           /\ space' \in [Slot -> Space \cup {KernelSpace}]
           /\ files' \in [Slot -> SUBSET File]
           /\ wake' \in [Slot -> Nat]
           /\ code' \in [Slot -> Int]
           /\ order' \in [Slot -> 0 .. created' + 1]
           /\ live' \subseteq Space
  <1> DEFINE gone == Reaped(st)
  <1>0. gone \in SUBSET Slot
    BY DEF Reaped
  <1>1. /\ state' = Cleared(st, gone, "FREE")
        /\ pid' = Cleared(pid, gone, 0)
        /\ space' = Cleared(space, gone, KernelSpace)
        /\ files' = Cleared(fl, gone, {})
        /\ wake' = Cleared(wake, gone, 0)
        /\ code' = Cleared(code, gone, 0)
        /\ order' = Cleared(order, gone, 0)
        /\ live' \subseteq live
    BY DEF ProcessReap
  <1> HIDE DEF gone
  <1> QED
    BY <1>0, <1>1, PidAssumption DEF TypeOK, Cleared, State

\* Every step of the process table keeps the types.
LEMMA TypeNext == TypeOK /\ [Next]_vars => TypeOK'
  <1> SUFFICES ASSUME TypeOK, [Next]_vars PROVE TypeOK'
    OBVIOUS
  <1>1. CASE ProcessCreate
    BY <1>1, TypeCreate DEF ProcessCreate
  <1>2. CASE ProcessCreateUser
    BY <1>2, TypeCreate DEF ProcessCreateUser
  <1>3. CASE Schedule
    <2>1. PICK next \in Runnable : /\ ProcessSwitch(next, "RUNNING")
                                  /\ wake' = [wake EXCEPT ![next] = 0]
      BY <1>3 DEF Schedule
    <2>2. wake' \in [Slot -> Nat]
      BY <2>1 DEF TypeOK
    <2> QED
      BY <1>3, <2>1, <2>2, SwitchType DEF Schedule, TypeOK
  <1>4. ASSUME NEW t \in SleepTicks, ProcessSleepTicks(t) PROVE TypeOK'
    <2>1. PICK next \in Runnable :
            /\ ProcessSwitch(next, "BLOCKED")
            /\ wake' = [wake EXCEPT ![current] = tick + (IF t = 0 THEN 1 ELSE t), ![next] = 0]
      BY <1>4 DEF ProcessSleepTicks
    <2>2. wake' \in [Slot -> Nat]
      <3>1. tick + (IF t = 0 THEN 1 ELSE t) \in Nat
        BY TicksAssumption DEF TypeOK
      <3> QED
        BY <2>1, <3>1 DEF TypeOK
    <2> QED
      BY <1>4, <2>1, <2>2, SwitchType DEF ProcessSleepTicks, TypeOK
  <1>5. ASSUME NEW t \in Slot, TerminateOther(t) PROVE TypeOK'
    <2> DEFINE st == [state EXCEPT ![t] = "TERMINATED"]
               fl == [files EXCEPT ![t] = {}]
    <2>1. st \in [Slot -> State]
      BY DEF TypeOK, State
    <2>2. fl \in [Slot -> SUBSET File]
      <3>1. {} \in SUBSET File /\ files \in [Slot -> SUBSET File]
        BY DEF TypeOK
      <3> QED
        BY <3>1
    <2>3. ProcessReap(st, fl) /\ UNCHANGED <<cpu, nextPid, lastCode, tick, created, panicked>>
      BY <1>5 DEF TerminateOther
    <2> HIDE DEF st, fl
    <2> QED
      BY <2>1, <2>2, <2>3, TypeReap DEF TypeOK, cpu
  <1>6. ASSUME NEW c \in Int, TerminateSelf(c), lastCode' \in Int PROVE TypeOK'
    <2>1. PICK next \in Runnable : /\ ProcessSwitch(next, "TERMINATED")
                                  /\ wake' = [wake EXCEPT ![next] = 0]
      BY <1>6 DEF TerminateSelf
    <2>2. wake' \in [Slot -> Nat]
      BY <2>1 DEF TypeOK
    <2>3. files' \in [Slot -> SUBSET File]
      <3>1. {} \in SUBSET File /\ files \in [Slot -> SUBSET File]
        BY DEF TypeOK
      <3> QED
        BY <1>6, <3>1 DEF TerminateSelf
    <2>4. code' \in [Slot -> Int]
      BY <1>6 DEF TerminateSelf, TypeOK
    <2> QED
      BY <1>6, <2>1, <2>2, <2>3, <2>4, SwitchType DEF TerminateSelf, TypeOK
  <1>7. CASE Panic
    <2>1. panicked' \in BOOLEAN
      BY <1>7 DEF Panic
    <2> QED
      BY <1>7, <2>1 DEF Panic, TypeOK, table, cpu
  <1>8. ASSUME NEW c \in ExitCode, ProcessExit(c) PROVE TypeOK'
    <2>1. c \in Int
      BY CodeAssumption
    <2> QED
      BY <1>6, <1>7, <1>8, <2>1 DEF ProcessExit
  <1>9. CASE ProcessTerminateSelf
    <2>1. code[current] \in Int /\ lastCode' \in Int
      BY <1>9 DEF ProcessTerminateSelf, TypeOK
    <2> QED
      BY <1>6, <1>9, <2>1 DEF ProcessTerminateSelf
  <1>10. CASE ProcessReapTerminated
    <2>1. state \in [Slot -> State] /\ files \in [Slot -> SUBSET File]
      BY DEF TypeOK
    <2>2. /\ ProcessReap(state, files)
          /\ UNCHANGED <<cpu, nextPid, lastCode, tick, created, panicked>>
      BY <1>10 DEF ProcessReapTerminated
    <2> QED
      BY <2>1, <2>2, TypeReap DEF TypeOK, cpu
  <1>11. CASE Tick
    BY <1>11 DEF Tick, TypeOK, table, cpu
  <1>12. ASSUME NEW f \in File, SysOpen(f) \/ SysClose(f) PROVE TypeOK'
    <2>1. files' \in [Slot -> SUBSET File]
      <3>1. files \in [Slot -> SUBSET File] /\ current \in Slot
        BY DEF TypeOK
      <3>2. files[current] \cup {f} \in SUBSET File /\ files[current] \ {f} \in SUBSET File
        BY <3>1
      <3> QED
        BY <1>12, <3>1, <3>2 DEF SysOpen, SysClose
    <2> QED
      BY <1>12, <2>1 DEF SysOpen, SysClose, TypeOK, cpu
  <1>13. CASE UNCHANGED vars
    BY <1>13 DEF vars, table, cpu, TypeOK
  <1> QED
    BY <1>1, <1>2, <1>3, <1>4, <1>5, <1>8, <1>9, <1>10, <1>11, <1>12, <1>13 DEF Next

\* Type correctness of the process table, for every size of the machine.
THEOREM TypeCorrect == Spec => []TypeOK
  <1>1. Init => TypeOK
    BY TypeInit
  <1>2. TypeOK /\ [Next]_vars => TypeOK'
    BY TypeNext
  <1> QED
    BY <1>1, <1>2, PTL DEF Spec
-----------------------------------------------------------------------------
(***************************************************************************)
(* The inductive invariant. Each part needs the others: the page table     *)
(* stays alive because a reap spares the RUNNING process, which is         *)
(* current; no other slot frees it because spaces are owned once; both     *)
(* rest on the list naming exactly the slots in use.                       *)
(***************************************************************************)
TableInv ==
    /\ TypeOK
    /\ ListMatchesTable
    /\ OneRunner
    /\ IdleAlwaysRunnable
    /\ LoadedSpaceIsOwn
    /\ SpacesOwnedOnce
    /\ KernelStackIsOwn
    /\ FilesOwnedOnce

\* The boot state satisfies the inductive invariant of the table.
LEMMA TableInvInit == Init => TableInv
  <1> SUFFICES ASSUME Init PROVE TableInv
    OBVIOUS
  <1>1. TypeOK
    BY TypeInit
  <1>2. Used = {Idle}
    BY ProcessMaxAssumption DEF Init, Used
  <1>3. ListMatchesTable
    BY <1>2, ProcessMaxAssumption DEF Init, ListMatchesTable
  <1>4. OneRunner /\ KernelStackIsOwn
    BY DEF Init, OneRunner, KernelStackIsOwn
  <1>5. IdleAlwaysRunnable
    BY ProcessMaxAssumption DEF Init, IdleAlwaysRunnable
  <1>6. LoadedSpaceIsOwn
    BY ProcessMaxAssumption DEF Init, LoadedSpaceIsOwn
  <1>7. SpacesOwnedOnce
    <2>1. space[Idle] = KernelSpace
      BY ProcessMaxAssumption DEF Init
    <2>2. SpacesOf(Used) = {}
      BY <1>2, <2>1 DEF SpacesOf
    <2> QED
      BY <1>2, <2>2 DEF SpacesOwnedOnce, Init
  <1>8. FilesOwnedOnce
    BY DEF Init, FilesOwnedOnce
  <1> QED
    BY <1>1, <1>3, <1>4, <1>5, <1>6, <1>7, <1>8 DEF TableInv

\* A switch away from the current process, which goes to READY, to sleep or
\* to its end (and then has closed its files), keeps the invariant.
LEMMA SwitchInv ==
    ASSUME TableInv, TypeOK', NEW next \in Runnable,
           NEW mine \in {"RUNNING", "BLOCKED", "TERMINATED"},
           mine # "RUNNING" => current # Idle,
           ProcessSwitch(next, mine),
           UNCHANGED <<pid, space, order, live>>,
           IF mine = "TERMINATED" THEN files' = [files EXCEPT ![current] = {}]
                                  ELSE files' = files
    PROVE  TableInv'
  <1>1. /\ next \in Slot
        /\ next # current
        /\ state[next] \in {"READY", "BLOCKED"}
        /\ current \in Slot
    BY DEF Runnable, TableInv, TypeOK
  <1>2. /\ state'[next] = "RUNNING"
        /\ state'[current] = IF mine = "RUNNING" THEN "READY" ELSE mine
        /\ \A s \in Slot \ {current, next} : state'[s] = state[s]
    BY <1>1 DEF TableInv, TypeOK, ProcessSwitch
  <1>3. state[current] = "RUNNING" /\ \A s \in Slot : state[s] = "RUNNING" => s = current
    BY <1>1 DEF TableInv, OneRunner
  <1>4. current' = next /\ cr3' = space[next] /\ rsp0' = IF next = Idle THEN rsp0 ELSE next
    BY DEF ProcessSwitch
  <1>5. Used' = Used
    BY <1>1, <1>2, <1>3 DEF Used
  <1>6. ListMatchesTable'
    BY <1>1, <1>2, <1>3, <1>5 DEF TableInv, ListMatchesTable
  <1>7. OneRunner'
    BY <1>1, <1>2, <1>3, <1>4 DEF OneRunner
  <1>8. IdleAlwaysRunnable'
    BY <1>1, <1>2, <1>3, ProcessMaxAssumption DEF TableInv, IdleAlwaysRunnable
  <1>9. SpacesOwnedOnce'
    BY <1>5 DEF TableInv, SpacesOwnedOnce, SpacesOf
  <1>10. LoadedSpaceIsOwn'
    <2>1. next \in Used
      BY <1>1 DEF Used
    <2>2. space[next] # KernelSpace => space[next] \in live
      BY <2>1 DEF TableInv, SpacesOwnedOnce, SpacesOf
    <2> QED
      BY <1>4, <2>2 DEF LoadedSpaceIsOwn
  <1>11. KernelStackIsOwn'
    BY <1>4 DEF KernelStackIsOwn
  <1>12. FilesOwnedOnce'
    <2>1. files \in [Slot -> SUBSET File]
      BY DEF TableInv, TypeOK
    <2>2. \A s \in Slot : files'[s] \subseteq files[s]
      BY <1>1, <2>1
    <2>3. \A s \in Slot : files[s] # {} => state[s] \in {"READY", "RUNNING", "BLOCKED"}
      BY DEF TableInv, FilesOwnedOnce
    <2>4. mine = "TERMINATED" => files'[current] = {}
      BY <1>1, <2>1
    <2>5. \A s \in Slot : files'[s] # {} => state'[s] \in {"READY", "RUNNING", "BLOCKED"}
      BY <1>1, <1>2, <2>2, <2>3, <2>4
    <2>6. \A s, t \in Slot : s # t => files[s] \cap files[t] = {}
      BY DEF TableInv, FilesOwnedOnce
    <2> QED
      BY <2>2, <2>5, <2>6 DEF FilesOwnedOnce
  <1> QED
    BY <1>6, <1>7, <1>8, <1>9, <1>10, <1>11, <1>12 DEF TableInv

\* What a reap removes: slots in use that are neither current nor idle, and
\* whose spaces no remaining slot has.
LEMMA ReapedSlots ==
    ASSUME TableInv, NEW st, \A s \in Slot : st[s] = "TERMINATED" => state[s] # "FREE"
    PROVE  /\ Reaped(st) \in SUBSET Slot
           /\ Reaped(st) \subseteq Used
           /\ current \notin Reaped(st)
           /\ Idle \notin Reaped(st)
           /\ \A s \in Used \ Reaped(st) : space[s] \notin SpacesOf(Reaped(st))
  <1>1. Reaped(st) \in SUBSET Slot /\ Reaped(st) \subseteq Used /\ current \notin Reaped(st)
    BY DEF Reaped, Used
  <1>2. Idle \notin Reaped(st)
    BY DEF Reaped, TableInv, IdleAlwaysRunnable
  <1>3. ASSUME NEW s \in Used \ Reaped(st), space[s] \in SpacesOf(Reaped(st)) PROVE FALSE
    <2>1. PICK t \in Reaped(st) : space[t] = space[s] /\ space[s] # KernelSpace
      BY <1>3 DEF SpacesOf
    <2> QED
      BY <1>1, <2>1 DEF TableInv, SpacesOwnedOnce
  <1> QED
    BY <1>1, <1>2, <1>3

\* process_reap keeps the invariant. It is called with the states st and the
\* files fl: those of the table, one process possibly just terminated.
LEMMA ReapInv ==
    ASSUME TableInv, TypeOK', NEW st \in [Slot -> State], NEW fl \in [Slot -> SUBSET File],
           ProcessReap(st, fl), UNCHANGED cpu,
           \A s \in Slot : \/ st[s] = state[s] /\ fl[s] = files[s]
                           \/ /\ st[s] = "TERMINATED" /\ fl[s] = {}
                              /\ state[s] # "FREE" /\ s # current /\ pid[s] # 0
    PROVE  TableInv'
  <1> DEFINE gone == Reaped(st)
  <1>0. \A s \in Slot : st[s] = "TERMINATED" => state[s] # "FREE"
    OBVIOUS
  <1>1. /\ gone \in SUBSET Slot /\ gone \subseteq Used
        /\ current \notin gone /\ Idle \notin gone
        /\ \A s \in Used \ gone : space[s] \notin SpacesOf(gone)
    BY <1>0, ReapedSlots
  <1>2. \A s \in Slot :
          /\ state'[s] = IF s \in gone THEN "FREE" ELSE st[s]
          /\ pid'[s] = IF s \in gone THEN 0 ELSE pid[s]
          /\ space'[s] = IF s \in gone THEN KernelSpace ELSE space[s]
          /\ files'[s] = IF s \in gone THEN {} ELSE fl[s]
          /\ order'[s] = IF s \in gone THEN 0 ELSE order[s]
    BY DEF ProcessReap, Cleared
  <1>3. live' = live \ SpacesOf(gone)
    BY DEF ProcessReap
  <1> HIDE DEF gone
  <1>4. current \in Slot /\ Idle \in Slot /\ current' = current /\ cr3' = cr3 /\ rsp0' = rsp0
    BY ProcessMaxAssumption DEF TableInv, TypeOK, cpu
  <1>5. Used' = Used \ gone
    BY <1>1, <1>2 DEF Used
  <1>6. ListMatchesTable'
    <2>1. \A s \in Slot : order'[s] # 0 <=> state'[s] # "FREE"
      BY <1>2 DEF TableInv, ListMatchesTable
    <2>2. \A s, t \in Used' : order'[s] = order'[t] => s = t
      BY <1>1, <1>2, <1>5 DEF TableInv, ListMatchesTable, Used
    <2> QED
      BY <2>1, <2>2 DEF ListMatchesTable
  <1>7. OneRunner'
    BY <1>1, <1>2, <1>4 DEF TableInv, OneRunner
  <1>8. IdleAlwaysRunnable'
    BY <1>1, <1>2, <1>4 DEF TableInv, IdleAlwaysRunnable
  <1>9. LoadedSpaceIsOwn'
    <2>1. current \in Used
      BY <1>4 DEF TableInv, OneRunner, Used
    <2>2. space'[current] = space[current] /\ space[current] \notin SpacesOf(gone)
      BY <1>1, <1>2, <1>4, <2>1
    <2> QED
      BY <1>3, <1>4, <2>2 DEF TableInv, LoadedSpaceIsOwn
  <1>10. SpacesOwnedOnce'
    <2>1. \A s \in Used \ gone : s \in Slot /\ space'[s] = space[s]
      BY <1>2 DEF Used
    <2>2. live = SpacesOf(Used)
      BY DEF TableInv, SpacesOwnedOnce
    <2>3. ASSUME NEW x \in live' PROVE x \in {space'[s] : s \in Used \ gone} \ {KernelSpace}
      <3>1. PICK s \in Used : x = space[s] /\ x # KernelSpace
        BY <1>3, <2>2, <2>3 DEF SpacesOf
      <3>2. s \notin gone
        BY <1>3, <2>3, <3>1 DEF SpacesOf
      <3> QED
        BY <2>1, <3>1, <3>2
    <2>4. ASSUME NEW x \in {space'[s] : s \in Used \ gone} \ {KernelSpace} PROVE x \in live'
      <3>1. PICK s \in Used \ gone : x = space[s] /\ x # KernelSpace
        BY <2>1, <2>4
      <3>2. x \in live
        BY <2>2, <3>1 DEF SpacesOf
      <3> QED
        BY <1>1, <1>3, <3>1, <3>2
    <2>5. SpacesOf(Used)' = {space'[s] : s \in Used \ gone} \ {KernelSpace}
      BY <1>5 DEF SpacesOf
    <2>6. \A s, t \in Used' : space'[s] = space'[t] /\ space'[s] # KernelSpace => s = t
      BY <1>5, <2>1 DEF TableInv, SpacesOwnedOnce
    <2> QED
      BY <2>3, <2>4, <2>5, <2>6 DEF SpacesOwnedOnce
  <1>11. KernelStackIsOwn'
    BY <1>4 DEF TableInv, KernelStackIsOwn
  <1>12. FilesOwnedOnce'
    <2>1. \A s \in Slot : files'[s] = {} \/ (files'[s] = files[s] /\ state'[s] = state[s])
      BY <1>2
    <2> QED
      BY <2>1 DEF TableInv, FilesOwnedOnce
  <1> QED
    BY <1>6, <1>7, <1>8, <1>9, <1>10, <1>11, <1>12 DEF TableInv

\* Creating a process (with the reap that precedes it) keeps the invariant:
\* the slot taken is free, at the tail, and its space is nobody else's.
LEMMA CreateInv ==
    ASSUME TableInv, TypeOK', NEW sp \in Space \cup {KernelSpace}, sp \notin live, Create(sp)
    PROVE  TableInv'
  <1> DEFINE gone == Reaped(state)
  <1>1. /\ gone \in SUBSET Slot /\ gone \subseteq Used
        /\ current \notin gone /\ Idle \notin gone
        /\ \A s \in Used \ gone : space[s] \notin SpacesOf(gone)
    BY ReapedSlots
  <1>2. PICK n \in FreeAfter(gone) :
          /\ state' = [Cleared(state, gone, "FREE") EXCEPT ![n] = "READY"]
          /\ pid' = [Cleared(pid, gone, 0) EXCEPT ![n] = nextPid]
          /\ space' = [Cleared(space, gone, KernelSpace) EXCEPT ![n] = sp]
          /\ files' = [Cleared(files, gone, {}) EXCEPT ![n] = {}]
          /\ order' = [Cleared(order, gone, 0) EXCEPT ![n] = created + 2]
    BY DEF Create
  <1>3. live' = (live \ SpacesOf(gone)) \cup ({sp} \ {KernelSpace}) /\ UNCHANGED cpu
    BY DEF Create
  <1> HIDE DEF gone
  <1>4. n \in Slot /\ n # Idle /\ (state[n] = "FREE" \/ n \in gone)
    BY <1>2 DEF FreeAfter
  <1>5. current \in Slot /\ Idle \in Slot /\ current' = current /\ cr3' = cr3 /\ rsp0' = rsp0
    BY <1>3, ProcessMaxAssumption DEF TableInv, TypeOK, cpu
  <1>6. n # current
    BY <1>1, <1>4, <1>5 DEF TableInv, OneRunner
  <1>7. /\ state'[n] = "READY" /\ space'[n] = sp /\ files'[n] = {} /\ order'[n] = created + 2
        /\ \A s \in Slot \ {n} :
              /\ state'[s] = IF s \in gone THEN "FREE" ELSE state[s]
              /\ pid'[s] = IF s \in gone THEN 0 ELSE pid[s]
              /\ space'[s] = IF s \in gone THEN KernelSpace ELSE space[s]
              /\ files'[s] = IF s \in gone THEN {} ELSE files[s]
              /\ order'[s] = IF s \in gone THEN 0 ELSE order[s]
    BY <1>2, <1>4 DEF Cleared
  <1>8. Used' = (Used \ gone) \cup {n} /\ n \notin Used \ gone
    BY <1>1, <1>4, <1>7 DEF Used
  <1>9. ListMatchesTable'
    <2>1. created \in Nat /\ \A s \in Slot : order[s] \in 0 .. created + 1
      BY DEF TableInv, TypeOK
    <2>2. \A s \in Slot : order'[s] # 0 <=> state'[s] # "FREE"
      BY <1>4, <1>7, <2>1 DEF TableInv, ListMatchesTable
    <2>3. \A s \in Used \ gone : s \in Slot /\ order'[s] = order[s] /\ order'[s] # order'[n]
      BY <1>7, <1>8, <2>1 DEF Used
    <2>4. \A s, t \in Used' : order'[s] = order'[t] => s = t
      BY <1>8, <2>3 DEF TableInv, ListMatchesTable
    <2> QED
      BY <2>2, <2>4 DEF ListMatchesTable
  <1>10. OneRunner'
    BY <1>1, <1>5, <1>6, <1>7 DEF TableInv, OneRunner
  <1>11. IdleAlwaysRunnable'
    BY <1>1, <1>4, <1>5, <1>7 DEF TableInv, IdleAlwaysRunnable
  <1>12. LoadedSpaceIsOwn'
    <2>1. current \in Used
      BY <1>5 DEF TableInv, OneRunner, Used
    <2>2. space'[current] = space[current] /\ space[current] \notin SpacesOf(gone)
      BY <1>1, <1>5, <1>6, <1>7, <2>1
    <2> QED
      BY <1>3, <1>5, <2>2 DEF TableInv, LoadedSpaceIsOwn
  <1>13. SpacesOwnedOnce'
    <2>1. \A s \in Used \ gone : s \in Slot /\ s # n /\ space'[s] = space[s]
      BY <1>7, <1>8 DEF Used
    <2>2. live = SpacesOf(Used)
      BY DEF TableInv, SpacesOwnedOnce
    <2>3. \A s \in Used : space[s] # KernelSpace => space[s] # sp
      BY <2>2 DEF SpacesOf
    <2>4. ASSUME NEW x \in live' PROVE x \in {space'[s] : s \in (Used \ gone) \cup {n}} \ {KernelSpace}
      <3>1. CASE x \in live \ SpacesOf(gone)
        <4>1. PICK s \in Used : x = space[s] /\ x # KernelSpace
          BY <2>2, <3>1 DEF SpacesOf
        <4>2. s \notin gone
          BY <3>1, <4>1 DEF SpacesOf
        <4> QED
          BY <2>1, <4>1, <4>2
      <3>2. CASE x = sp /\ x # KernelSpace
        BY <1>7, <3>2
      <3> QED
        BY <1>3, <2>4, <3>1, <3>2
    <2>5. ASSUME NEW x \in {space'[s] : s \in (Used \ gone) \cup {n}} \ {KernelSpace} PROVE x \in live'
      <3>1. PICK s \in (Used \ gone) \cup {n} : x = space'[s] /\ x # KernelSpace
        BY <2>5
      <3>2. CASE s = n
        BY <1>3, <1>7, <3>1, <3>2
      <3>3. CASE s \in Used \ gone
        <4>1. x = space[s] /\ x \in live
          BY <2>1, <2>2, <3>1, <3>3 DEF SpacesOf
        <4> QED
          BY <1>1, <1>3, <3>3, <4>1
      <3> QED
        BY <3>1, <3>2, <3>3
    <2>6. SpacesOf(Used)' = {space'[s] : s \in (Used \ gone) \cup {n}} \ {KernelSpace}
      BY <1>8 DEF SpacesOf
    <2>7. \A s, t \in Used' : space'[s] = space'[t] /\ space'[s] # KernelSpace => s = t
      BY <1>7, <1>8, <2>1, <2>3 DEF TableInv, SpacesOwnedOnce
    <2> QED
      BY <2>4, <2>5, <2>6, <2>7 DEF SpacesOwnedOnce
  <1>14. KernelStackIsOwn'
    BY <1>5 DEF TableInv, KernelStackIsOwn
  <1>15. FilesOwnedOnce'
    <2>1. \A s \in Slot : files'[s] = {} \/ (files'[s] = files[s] /\ state'[s] = state[s])
      BY <1>7
    <2> QED
      BY <2>1 DEF TableInv, FilesOwnedOnce
  <1> QED
    BY <1>9, <1>10, <1>11, <1>12, <1>13, <1>14, <1>15 DEF TableInv

\* Every step keeps the inductive invariant of the table, one case per action.
LEMMA TableInvNext == TableInv /\ [Next]_vars => TableInv'
  <1> SUFFICES ASSUME TableInv, [Next]_vars PROVE TableInv'
    OBVIOUS
  <1>0. TypeOK'
    BY TypeNext DEF TableInv
  <1>1. CASE ProcessCreate
    <2>1. KernelSpace \notin live
      BY SpaceAssumption DEF TableInv, TypeOK
    <2> QED
      BY <1>0, <1>1, <2>1, CreateInv DEF ProcessCreate
  <1>2. CASE ProcessCreateUser
    BY <1>0, <1>2, CreateInv DEF ProcessCreateUser
  <1>3. CASE Schedule
    <2>1. PICK next \in Runnable : ProcessSwitch(next, "RUNNING")
      BY <1>3 DEF Schedule
    <2>2. UNCHANGED <<pid, space, order, live>> /\ files' = files
      BY <1>3 DEF Schedule
    <2> QED
      BY <1>0, <2>1, <2>2, SwitchInv
  <1>4. ASSUME NEW t \in SleepTicks, ProcessSleepTicks(t) PROVE TableInv'
    <2>1. PICK next \in Runnable : ProcessSwitch(next, "BLOCKED")
      BY <1>4 DEF ProcessSleepTicks
    <2>2. UNCHANGED <<pid, space, order, live>> /\ files' = files
      BY <1>4 DEF ProcessSleepTicks
    <2>3. current # Idle
      BY <1>4 DEF ProcessSleepTicks, TableInv, IdleAlwaysRunnable
    <2> QED
      BY <1>0, <2>1, <2>2, <2>3, SwitchInv
  <1>5. ASSUME NEW t \in Slot, TerminateOther(t) PROVE TableInv'
    <2> DEFINE st == [state EXCEPT ![t] = "TERMINATED"]
               fl == [files EXCEPT ![t] = {}]
    <2>1. state \in [Slot -> State] /\ files \in [Slot -> SUBSET File]
      BY DEF TableInv, TypeOK
    <2>2. st \in [Slot -> State]
      BY <2>1 DEF State
    <2>3. fl \in [Slot -> SUBSET File]
      <3>1. {} \in SUBSET File
        OBVIOUS
      <3> QED
        BY <2>1, <3>1
    <2>4. ProcessReap(st, fl) /\ UNCHANGED cpu
      BY <1>5 DEF TerminateOther
    <2>5. state[t] # "FREE" /\ t # current /\ pid[t] # 0
      BY <1>5 DEF TerminateOther, FindPid, HasPid
    <2>6. \A s \in Slot : \/ st[s] = state[s] /\ fl[s] = files[s]
                          \/ /\ st[s] = "TERMINATED" /\ fl[s] = {}
                             /\ state[s] # "FREE" /\ s # current /\ pid[s] # 0
      BY <2>1, <2>5
    <2> HIDE DEF st, fl
    <2> QED
      BY <1>0, <2>2, <2>3, <2>4, <2>6, ReapInv
  <1>6. ASSUME NEW c, TerminateSelf(c), current # Idle PROVE TableInv'
    <2>1. PICK next \in Runnable : ProcessSwitch(next, "TERMINATED")
      BY <1>6 DEF TerminateSelf
    <2>2. UNCHANGED <<pid, space, order, live>> /\ files' = [files EXCEPT ![current] = {}]
      BY <1>6 DEF TerminateSelf
    <2> QED
      BY <1>0, <1>6, <2>1, <2>2, SwitchInv
  <1>7. ASSUME UNCHANGED <<table, cpu, live>> PROVE TableInv'
    BY <1>0, <1>7 DEF TableInv, table, cpu, ListMatchesTable, OneRunner, IdleAlwaysRunnable,
       LoadedSpaceIsOwn, SpacesOwnedOnce, SpacesOf, Used, KernelStackIsOwn, FilesOwnedOnce
  <1>8. ASSUME NEW c \in ExitCode, ProcessExit(c) PROVE TableInv'
    BY <1>6, <1>7, <1>8 DEF ProcessExit, Panic
  <1>9. CASE ProcessTerminateSelf
    <2>1. current # Idle
      BY <1>9 DEF ProcessTerminateSelf, CanLeave, TableInv, IdleAlwaysRunnable
    <2> QED
      BY <1>6, <1>9, <2>1 DEF ProcessTerminateSelf
  <1>10. CASE ProcessReapTerminated
    <2>1. state \in [Slot -> State] /\ files \in [Slot -> SUBSET File]
      BY DEF TableInv, TypeOK
    <2>2. ProcessReap(state, files) /\ UNCHANGED cpu
      BY <1>10 DEF ProcessReapTerminated
    <2> QED
      BY <1>0, <2>1, <2>2, ReapInv
  <1>11. CASE Tick
    BY <1>7, <1>11 DEF Tick
  <1>12. ASSUME NEW f \in File, SysOpen(f) \/ SysClose(f) PROVE TableInv'
    <2>1. UNCHANGED <<state, pid, space, order, cpu, live>>
      BY <1>12 DEF SysOpen, SysClose
    <2>2. FilesOwnedOnce'
      <3>1. files \in [Slot -> SUBSET File] /\ current \in Slot
        BY DEF TableInv, TypeOK
      <3>2. state[current] = "RUNNING"
        BY <3>1 DEF TableInv, OneRunner
      <3>3. \A s \in Slot : s # current => files'[s] = files[s]
        BY <1>12, <3>1 DEF SysOpen, SysClose
      <3>4. \A s \in Slot : s # current => files'[current] \cap files[s] = {}
        <4>1. CASE SysOpen(f)
          <5>1. files'[current] = files[current] \cup {f} /\ \A s \in Slot : f \notin files[s]
            BY <4>1, <3>1 DEF SysOpen, Opened
          <5> QED
            BY <3>1, <5>1 DEF TableInv, FilesOwnedOnce
        <4>2. CASE SysClose(f)
          <5>1. files'[current] = files[current] \ {f}
            BY <4>2, <3>1 DEF SysClose
          <5> QED
            BY <3>1, <5>1 DEF TableInv, FilesOwnedOnce
        <4> QED
          BY <1>12, <4>1, <4>2
      <3> QED
        BY <2>1, <3>1, <3>2, <3>3, <3>4 DEF TableInv, FilesOwnedOnce
    <2> QED
      BY <1>0, <2>1, <2>2 DEF TableInv, cpu, ListMatchesTable, OneRunner, IdleAlwaysRunnable,
         LoadedSpaceIsOwn, SpacesOwnedOnce, SpacesOf, Used, KernelStackIsOwn
  <1>13. CASE UNCHANGED vars
    BY <1>7, <1>13 DEF vars
  <1> QED
    BY <1>1, <1>2, <1>3, <1>4, <1>5, <1>8, <1>9, <1>10, <1>11, <1>12, <1>13 DEF Next

\* The list names exactly the slots in use and exactly the current process
\* runs, on its own kernel stack.
THEOREM SchedulerSafe == Spec => [](ListMatchesTable /\ OneRunner /\ KernelStackIsOwn)
  <1>1. TableInv => ListMatchesTable /\ OneRunner /\ KernelStackIsOwn
    BY DEF TableInv
  <1> QED
    BY <1>1, TableInvInit, TableInvNext, PTL DEF Spec

\* process_list links exactly the slots in use, each once: no walk of the scheduler, of a reap
\* or of process_terminate misses a process or meets one twice.
THEOREM ListSafe == Spec => []ListMatchesTable
  <1>1. TableInv => ListMatchesTable
    BY DEF TableInv
  <1> QED
    BY <1>1, TableInvInit, TableInvNext, PTL DEF Spec

\* The loaded page table is the current process's own and is never one that
\* a reap has torn down.
THEOREM LoadedSpaceSafe == Spec => []LoadedSpaceIsOwn
  <1>1. TableInv => LoadedSpaceIsOwn
    BY DEF TableInv
  <1> QED
    BY <1>1, TableInvInit, TableInvNext, PTL DEF Spec

\* Every live address space has exactly one owner in the table.
THEOREM SpacesSafe == Spec => []SpacesOwnedOnce
  <1>1. TableInv => SpacesOwnedOnce
    BY DEF TableInv
  <1> QED
    BY <1>1, TableInvInit, TableInvNext, PTL DEF Spec

\* The driver objects of a process are closed with it.
THEOREM FilesSafe == Spec => []FilesOwnedOnce
  <1>1. TableInv => FilesOwnedOnce
    BY DEF TableInv
  <1> QED
    BY <1>1, TableInvInit, TableInvNext, PTL DEF Spec

-----------------------------------------------------------------------------
(***************************************************************************)
(* Pids. As long as g_next_pid has not come round, pids are handed out in  *)
(* ascending order, so they are unique and none but idle's is 0.           *)
(***************************************************************************)
PidInv ==
    /\ created <= MaxCreate
    /\ nextPid = created + 1
    /\ \A s \in Used \ {Idle} : pid[s] \in 1 .. created
    /\ PidsUnique
    /\ NoPanic

\* In the boot state only the idle thread has a pid, and it is 0.
LEMMA PidInvInit == Init => PidInv
  <1> SUFFICES ASSUME Init PROVE PidInv
    OBVIOUS
  <1>1. Used = {Idle}
    BY ProcessMaxAssumption DEF Init, Used
  <1>2. NoPanic
    BY DEF Init, NoPanic
  <1>3. PidsUnique
    BY <1>1 DEF PidsUnique
  <1> QED
    BY <1>1, <1>2, <1>3, BoundAssumption DEF Init, PidInv

\* A step that hands out no pid and only removes slots from use.
LEMMA PidInvShrink ==
    ASSUME PidInv, UNCHANGED <<created, nextPid, panicked>>, Used' \subseteq Used,
           \A s \in Used' : pid'[s] = pid[s]
    PROVE  PidInv'
  <1>1. NoPanic'
    BY DEF PidInv, NoPanic
  <1>2. PidsUnique'
    BY DEF PidInv, PidsUnique
  <1> QED
    BY <1>1, <1>2 DEF PidInv

\* A creation hands out a pid that nobody has, while g_next_pid has not wrapped.
LEMMA PidInvCreate ==
    ASSUME MaxCreate + 1 < PidModulus, TableInv, PidInv, NEW sp, Create(sp)
    PROVE  PidInv'
  <1> DEFINE gone == Reaped(state)
  <1>1. gone \subseteq Used /\ gone \in SUBSET Slot /\ Idle \notin gone
    BY ReapedSlots
  <1>2. PICK n \in FreeAfter(gone) :
          /\ state' = [Cleared(state, gone, "FREE") EXCEPT ![n] = "READY"]
          /\ pid' = [Cleared(pid, gone, 0) EXCEPT ![n] = nextPid]
    BY DEF Create
  <1>3. /\ created < MaxCreate /\ created' = created + 1
        /\ nextPid' = (nextPid + 1) % PidModulus /\ panicked' = panicked
    BY DEF Create
  <1> HIDE DEF gone
  <1>4. n \in Slot /\ n # Idle /\ (state[n] = "FREE" \/ n \in gone)
    BY <1>2 DEF FreeAfter
  <1>5. /\ state'[n] = "READY" /\ pid'[n] = nextPid
        /\ \A s \in Slot \ {n} :
              /\ state'[s] = IF s \in gone THEN "FREE" ELSE state[s]
              /\ pid'[s] = IF s \in gone THEN 0 ELSE pid[s]
    BY <1>2, <1>4 DEF Cleared
  <1>6. Used' = (Used \ gone) \cup {n} /\ n \notin Used \ gone
    BY <1>1, <1>4, <1>5 DEF Used
  <1>7. \A s \in Used \ gone : s \in Slot /\ s # n /\ pid'[s] = pid[s]
    BY <1>5, <1>6 DEF Used
  <1>8. created \in Nat /\ nextPid = created + 1
    BY DEF TableInv, TypeOK, PidInv
  <1>9. nextPid' = created' + 1 /\ created' <= MaxCreate
    BY <1>3, <1>8, PidAssumption, BoundAssumption
  <1>10. pid[Idle] = 0 /\ Idle \in Slot
    BY ProcessMaxAssumption DEF TableInv, IdleAlwaysRunnable
  <1>11. \A s \in Used \ gone : pid[s] <= created /\ pid[s] \in Nat
    BY <1>8, <1>10 DEF PidInv, TableInv, TypeOK, Used
  <1>12. \A s \in Used' \ {Idle} : pid'[s] \in 1 .. created'
    BY <1>3, <1>5, <1>6, <1>7, <1>8 DEF PidInv
  <1>13. PidsUnique'
    <2>1. \A s \in Used \ gone : pid'[s] # pid'[n]
      BY <1>5, <1>7, <1>8, <1>11
    <2> QED
      BY <1>6, <1>7, <2>1 DEF PidInv, PidsUnique
  <1>14. NoPanic'
    BY <1>3 DEF PidInv, NoPanic
  <1> QED
    BY <1>9, <1>12, <1>13, <1>14 DEF PidInv

\* A switch hands out no pid and ends nobody.
LEMMA PidInvSwitch ==
    ASSUME TableInv, PidInv, NEW next \in Runnable,
           NEW mine \in {"RUNNING", "BLOCKED", "TERMINATED"}, ProcessSwitch(next, mine),
           UNCHANGED <<pid, created, nextPid, panicked>>
    PROVE  PidInv'
  <1>1. next \in Slot /\ current \in Slot /\ state[next] # "FREE" /\ state[current] # "FREE"
    BY DEF Runnable, TableInv, TypeOK, OneRunner
  <1>2. \A s \in Slot \ {current, next} : state'[s] = state[s]
    BY <1>1 DEF TableInv, TypeOK, ProcessSwitch
  <1>3. Used' \subseteq Used
    BY <1>1, <1>2 DEF Used
  <1> QED
    BY <1>3, PidInvShrink

\* The process that exits is found under its pid, and idle takes over from it.
LEMMA ExitDoesNotPanic ==
    ASSUME TableInv, PidInv, current # Idle
    PROVE  CanLeave
  <1>1. current \in Used /\ current \in Slot /\ Idle \in Slot
    BY ProcessMaxAssumption DEF TableInv, TypeOK, OneRunner, Used
  <1>2. pid[current] # 0
    BY <1>1 DEF PidInv
  <1>3. HasPid(current, pid[current])
    BY <1>1 DEF HasPid, TableInv, ListMatchesTable, Used
  <1>4. \A t \in Slot : HasPid(t, pid[current]) => t = current
    BY <1>1 DEF HasPid, PidInv, PidsUnique, Used
  <1>5. order[current] \in Int
    BY <1>1 DEF TableInv, TypeOK
  <1>6. FindPid(current, pid[current])
    BY <1>3, <1>4, <1>5 DEF FindPid
  <1>7. Idle \in Runnable
    BY <1>1 DEF Runnable, TableInv, IdleAlwaysRunnable, OneRunner
  <1> QED
    BY <1>2, <1>6, <1>7 DEF CanLeave

\* Every step keeps the invariant of the pids, while g_next_pid has not wrapped.
LEMMA PidInvNext ==
    ASSUME MaxCreate + 1 < PidModulus
    PROVE  TableInv /\ PidInv /\ [Next]_vars => PidInv'
  <1> SUFFICES ASSUME TableInv, PidInv, [Next]_vars PROVE PidInv'
    OBVIOUS
  <1>1. CASE ProcessCreate
    BY <1>1, PidInvCreate DEF ProcessCreate
  <1>2. CASE ProcessCreateUser
    BY <1>2, PidInvCreate DEF ProcessCreateUser
  <1>3. CASE Schedule
    BY <1>3, PidInvSwitch DEF Schedule
  <1>4. ASSUME NEW t \in SleepTicks, ProcessSleepTicks(t) PROVE PidInv'
    BY <1>4, PidInvSwitch DEF ProcessSleepTicks
  <1>5. ASSUME NEW st \in [Slot -> State], NEW fl, ProcessReap(st, fl),
               UNCHANGED <<created, nextPid, panicked>>,
               \A s \in Slot : st[s] # "FREE" => state[s] # "FREE"
        PROVE  PidInv'
    <2>1. \A s \in Slot : /\ state'[s] = IF s \in Reaped(st) THEN "FREE" ELSE st[s]
                          /\ pid'[s] = IF s \in Reaped(st) THEN 0 ELSE pid[s]
      BY <1>5 DEF ProcessReap, Cleared
    <2>2. Used' \subseteq Used /\ \A s \in Used' : pid'[s] = pid[s]
      BY <1>5, <2>1 DEF Used
    <2> QED
      BY <1>5, <2>2, PidInvShrink
  <1>6. ASSUME NEW t \in Slot, TerminateOther(t) PROVE PidInv'
    <2> DEFINE st == [state EXCEPT ![t] = "TERMINATED"]
               fl == [files EXCEPT ![t] = {}]
    <2>1. st \in [Slot -> State]
      BY DEF TableInv, TypeOK, State
    <2>2. ProcessReap(st, fl) /\ UNCHANGED <<created, nextPid, panicked>>
      BY <1>6 DEF TerminateOther
    <2>3. state[t] # "FREE"
      BY <1>6 DEF TerminateOther, FindPid, HasPid
    <2>4. \A s \in Slot : st[s] # "FREE" => state[s] # "FREE"
      BY <2>3 DEF TableInv, TypeOK
    <2> HIDE DEF st, fl
    <2> QED
      BY <1>5, <2>1, <2>2, <2>4
  <1>7. ASSUME NEW c, TerminateSelf(c) PROVE PidInv'
    BY <1>7, PidInvSwitch DEF TerminateSelf
  <1>8. ASSUME NEW c \in ExitCode, ProcessExit(c) PROVE PidInv'
    BY <1>7, <1>8, ExitDoesNotPanic DEF ProcessExit
  <1>9. CASE ProcessTerminateSelf
    BY <1>7, <1>9 DEF ProcessTerminateSelf
  <1>10. CASE ProcessReapTerminated
    <2>1. state \in [Slot -> State]
      BY DEF TableInv, TypeOK
    <2>2. ProcessReap(state, files) /\ UNCHANGED <<created, nextPid, panicked>>
      BY <1>10 DEF ProcessReapTerminated
    <2> QED
      BY <1>5, <2>1, <2>2
  <1>11. ASSUME UNCHANGED <<state, pid, created, nextPid, panicked>> PROVE PidInv'
    BY <1>11, PidInvShrink DEF Used
  <1>12. CASE Tick
    BY <1>11, <1>12 DEF Tick, table
  <1>13. ASSUME NEW f \in File, SysOpen(f) \/ SysClose(f) PROVE PidInv'
    BY <1>11, <1>13 DEF SysOpen, SysClose
  <1>14. CASE UNCHANGED vars
    BY <1>11, <1>14 DEF vars, table
  <1> QED
    BY <1>1, <1>2, <1>3, <1>4, <1>6, <1>8, <1>9, <1>10, <1>12, <1>13, <1>14 DEF Next

\* While fewer processes are created than a pid can count, pids are unique.
THEOREM PidsSafe == MaxCreate + 1 < PidModulus => (Spec => []PidsUnique)
  <1> SUFFICES ASSUME MaxCreate + 1 < PidModulus PROVE Spec => []PidsUnique
    OBVIOUS
  <1>1. PidInv => PidsUnique
    BY DEF PidInv
  <1> QED
    BY <1>1, TableInvInit, TableInvNext, PidInvInit, PidInvNext, PTL DEF Spec

\* Under the same bound no panic of process.c is reachable.
THEOREM NeverPanics == MaxCreate + 1 < PidModulus => (Spec => []NoPanic)
  <1> SUFFICES ASSUME MaxCreate + 1 < PidModulus PROVE Spec => []NoPanic
    OBVIOUS
  <1>1. PidInv => NoPanic
    BY DEF PidInv
  <1> QED
    BY <1>1, TableInvInit, TableInvNext, PidInvInit, PidInvNext, PTL DEF Spec

-----------------------------------------------------------------------------
\* What SleepsFullTime says of one step.
WokenInTime ==
    \A s \in Slot : state[s] = "BLOCKED" /\ state'[s] \in {"READY", "RUNNING"}
                     => tick >= wake[s]

\* A step that takes a process out of its sleep is taken at its deadline or later.
LEMMA WokenInTimeStep == TableInv /\ [Next]_vars => WokenInTime
  <1> SUFFICES ASSUME TableInv, [Next]_vars, NEW s \in Slot,
                      state[s] = "BLOCKED", state'[s] \in {"READY", "RUNNING"}
               PROVE  tick >= wake[s]
    BY DEF WokenInTime
  <1>0. state \in [Slot -> State] /\ current \in Slot /\ state[current] = "RUNNING"
    BY DEF TableInv, TypeOK, OneRunner
  <1>1. ASSUME NEW next \in Runnable, NEW mine, ProcessSwitch(next, mine)
        PROVE  tick >= wake[s]
    <2>1. s = next
      BY <1>0, <1>1 DEF ProcessSwitch
    <2> QED
      BY <2>1 DEF Runnable
  <1>2. ASSUME NEW sp, Create(sp) PROVE FALSE
    <2>1. Reaped(state) \in SUBSET Slot
      BY DEF Reaped
    <2>2. PICK n \in FreeAfter(Reaped(state)) :
            state' = [Cleared(state, Reaped(state), "FREE") EXCEPT ![n] = "READY"]
      BY <1>2 DEF Create
    <2>3. n # s /\ s \notin Reaped(state)
      BY DEF FreeAfter, Reaped
    <2>4. state'[s] = state[s]
      BY <1>0, <2>2, <2>3 DEF Cleared
    <2> QED
      BY <2>4
  <1>3. ASSUME NEW st, NEW fl, ProcessReap(st, fl), st[s] \in {"BLOCKED", "TERMINATED"}
        PROVE  FALSE
    <2>1. state'[s] \in {"FREE", st[s]}
      BY <1>3 DEF ProcessReap, Cleared
    <2> QED
      BY <1>3, <2>1
  <1>4. CASE ProcessCreate \/ ProcessCreateUser
    BY <1>2, <1>4 DEF ProcessCreate, ProcessCreateUser
  <1>5. CASE Schedule \/ \E t \in SleepTicks : ProcessSleepTicks(t)
    BY <1>1, <1>5 DEF Schedule, ProcessSleepTicks
  <1>6. ASSUME NEW t \in Slot, TerminateOther(t) PROVE FALSE
    <2>1. [state EXCEPT ![t] = "TERMINATED"][s] \in {"BLOCKED", "TERMINATED"}
      BY <1>0
    <2> QED
      BY <1>3, <1>6, <2>1 DEF TerminateOther
  <1>7. CASE (\E c \in ExitCode : ProcessExit(c)) \/ ProcessTerminateSelf
    BY <1>1, <1>7 DEF ProcessExit, ProcessTerminateSelf, TerminateSelf, Panic, table
  <1>8. CASE ProcessReapTerminated
    BY <1>3, <1>8 DEF ProcessReapTerminated
  <1>9. CASE Tick \/ (\E f \in File : SysOpen(f) \/ SysClose(f)) \/ UNCHANGED vars
    BY <1>9 DEF Tick, SysOpen, SysClose, vars, table
  <1> QED
    BY <1>4, <1>5, <1>6, <1>7, <1>8, <1>9 DEF Next

\* Nobody returns from process_sleep_ticks before its deadline.
THEOREM SleepSafe == Spec => SleepsFullTime
  <1>1. TableInv /\ [Next]_vars => [WokenInTime]_vars
    BY WokenInTimeStep
  <1> QED
    BY <1>1, TableInvInit, TableInvNext, PTL DEF Spec, SleepsFullTime, WokenInTime

-----------------------------------------------------------------------------
(***************************************************************************)
(* Exit codes. The answers about a pid follow its one slot until a reap.   *)
(***************************************************************************)
\* What a step may do to a slot: nobody gets a pid that was handed out before, and a
\* terminated process stays terminated with its code until it is reaped.
SlotStep ==
    \A p \in 1 .. nextPid - 1, s \in Slot : HasPid(s, p)' =>
        /\ HasPid(s, p)
        /\ state[s] = "TERMINATED" => state'[s] = "TERMINATED" /\ code'[s] = code[s]

\* Steps that touch neither states nor pids nor codes.
LEMMA SlotStepQuiet ==
    ASSUME UNCHANGED <<state, pid, order, code>>
    PROVE  SlotStep
  BY DEF SlotStep, HasPid

\* process_switch takes the CPU from a running process and gives it to one that waits.
LEMMA SlotStepSwitch ==
    ASSUME TableInv, NEW next \in Runnable, NEW mine \in {"RUNNING", "BLOCKED", "TERMINATED"},
           ProcessSwitch(next, mine),
           UNCHANGED <<pid, order>>, \A s \in Slot : s # current => code'[s] = code[s]
    PROVE  SlotStep
  <1>1. next \in Slot /\ current \in Slot /\ state[next] \in {"READY", "BLOCKED"}
    BY DEF Runnable, TableInv, TypeOK
  <1>2. state[current] = "RUNNING"
    BY <1>1 DEF TableInv, OneRunner
  <1>3. \A s \in Slot \ {current, next} : state'[s] = state[s]
    BY <1>1 DEF TableInv, TypeOK, ProcessSwitch
  <1> QED
    BY <1>1, <1>2, <1>3 DEF SlotStep, HasPid

\* process_reap takes the pids of the reaped slots away and leaves the others alone.
LEMMA SlotStepReap ==
    ASSUME TableInv, NEW st, NEW fl, ProcessReap(st, fl),
           \A s \in Slot : st[s] = state[s] \/ (st[s] = "TERMINATED" /\ state[s] # "FREE")
    PROVE  SlotStep
  <1> SUFFICES ASSUME NEW p \in 1 .. nextPid - 1, NEW s \in Slot, HasPid(s, p)'
               PROVE  /\ HasPid(s, p)
                      /\ state[s] = "TERMINATED" =>
                            state'[s] = "TERMINATED" /\ code'[s] = code[s]
    BY DEF SlotStep
  <1>1. /\ state'[s] = IF s \in Reaped(st) THEN "FREE" ELSE st[s]
        /\ pid'[s] = IF s \in Reaped(st) THEN 0 ELSE pid[s]
        /\ code'[s] = IF s \in Reaped(st) THEN 0 ELSE code[s]
        /\ order'[s] = IF s \in Reaped(st) THEN 0 ELSE order[s]
    BY DEF ProcessReap, Cleared, Unlink
  <1>2. s \notin Reaped(st)
    BY <1>1 DEF HasPid
  <1> QED
    BY <1>1, <1>2 DEF HasPid

\* A creation reuses slots, never pids: the new one has the pid nobody had before.
LEMMA SlotStepCreate ==
    ASSUME TableInv, PidInv, NEW sp, Create(sp)
    PROVE  SlotStep
  <1> SUFFICES ASSUME NEW p \in 1 .. nextPid - 1, NEW s \in Slot, HasPid(s, p)'
               PROVE  /\ HasPid(s, p)
                      /\ state[s] = "TERMINATED" =>
                            state'[s] = "TERMINATED" /\ code'[s] = code[s]
    BY DEF SlotStep
  <1> DEFINE gone == Reaped(state)
  <1>1. PICK n \in FreeAfter(gone) :
          /\ state' = [Cleared(state, gone, "FREE") EXCEPT ![n] = "READY"]
          /\ pid' = [Cleared(pid, gone, 0) EXCEPT ![n] = nextPid]
          /\ code' = [Cleared(code, gone, 0) EXCEPT ![n] = 0]
          /\ order' = [Unlink(gone) EXCEPT ![n] = created + 2]
    BY DEF Create
  <1> HIDE DEF gone
  <1>2. n \in Slot
    BY DEF FreeAfter
  <1>3. s = n => pid'[s] = nextPid
    BY <1>1, <1>2 DEF Cleared
  <1>4. s # n
    <2>1. nextPid \in Nat
      BY PidAssumption DEF TableInv, TypeOK
    <2>2. p # nextPid
      BY <2>1
    <2> QED
      BY <1>3, <2>2 DEF HasPid
  <1>5. /\ state'[s] = IF s \in gone THEN "FREE" ELSE state[s]
        /\ pid'[s] = IF s \in gone THEN 0 ELSE pid[s]
        /\ code'[s] = IF s \in gone THEN 0 ELSE code[s]
        /\ order'[s] = IF s \in gone THEN 0 ELSE order[s]
    BY <1>1, <1>4 DEF Cleared, Unlink
  <1>6. s \notin gone
    BY <1>5 DEF HasPid
  <1> QED
    BY <1>5, <1>6 DEF HasPid

\* It holds of every step of the process table.
LEMMA SlotStepHolds == TableInv /\ PidInv /\ [Next]_vars => SlotStep
  <1> SUFFICES ASSUME TableInv, PidInv, [Next]_vars PROVE SlotStep
    OBVIOUS
  <1>1. CASE ProcessCreate \/ ProcessCreateUser
    BY <1>1, SlotStepCreate DEF ProcessCreate, ProcessCreateUser
  <1>2. CASE Schedule \/ \E t \in SleepTicks : ProcessSleepTicks(t)
    BY <1>2, SlotStepSwitch DEF Schedule, ProcessSleepTicks
  <1>3. ASSUME NEW t \in Slot, TerminateOther(t) PROVE SlotStep
    <2> DEFINE st == [state EXCEPT ![t] = "TERMINATED"]
               fl == [files EXCEPT ![t] = {}]
    <2>1. ProcessReap(st, fl) /\ state[t] # "FREE"
      BY <1>3 DEF TerminateOther, FindPid, HasPid
    <2>2. \A s \in Slot : st[s] = state[s] \/ (st[s] = "TERMINATED" /\ state[s] # "FREE")
      BY <2>1 DEF TableInv, TypeOK
    <2> HIDE DEF st, fl
    <2> QED
      BY <2>1, <2>2, SlotStepReap
  <1>4. ASSUME NEW c, TerminateSelf(c) PROVE SlotStep
    <2>1. \A s \in Slot : s # current => code'[s] = code[s]
      BY <1>4 DEF TerminateSelf, TableInv, TypeOK
    <2> QED
      BY <1>4, <2>1, SlotStepSwitch DEF TerminateSelf
  <1>5. ASSUME NEW c \in ExitCode, ProcessExit(c) PROVE SlotStep
    BY <1>4, <1>5, SlotStepQuiet DEF ProcessExit, Panic, table
  <1>6. CASE ProcessTerminateSelf
    BY <1>4, <1>6 DEF ProcessTerminateSelf
  <1>7. CASE ProcessReapTerminated
    BY <1>7, SlotStepReap DEF ProcessReapTerminated
  <1>8. CASE Tick \/ (\E f \in File : SysOpen(f) \/ SysClose(f)) \/ UNCHANGED vars
    BY <1>8, SlotStepQuiet DEF Tick, SysOpen, SysClose, vars, table
  <1> QED
    BY <1>1, <1>2, <1>3, <1>5, <1>6, <1>7, <1>8 DEF Next

\* The answer of process_get_exit_code is about the one process that has the pid.
AnswerIsAboutOwner ==
    \A p \in Nat \ {0}, s \in Slot : HasPid(s, p) =>
        ExitStatus(p) = IF state[s] = "TERMINATED" THEN [status |-> "OK", code |-> code[s]]
                        ELSE [status |-> "Nbusy", code |-> 0]

\* Unique pids make it so.
LEMMA ExitStatusIs == TableInv /\ PidInv => AnswerIsAboutOwner
  <1> SUFFICES ASSUME TableInv, PidInv, NEW p \in Nat \ {0}, NEW s \in Slot, HasPid(s, p)
               PROVE  ExitStatus(p) = IF state[s] = "TERMINATED"
                                      THEN [status |-> "OK", code |-> code[s]]
                                      ELSE [status |-> "Nbusy", code |-> 0]
    BY DEF AnswerIsAboutOwner
  <1>1. \A t \in Slot : HasPid(t, p) => t = s
    BY DEF HasPid, PidInv, PidsUnique, Used
  <1>2. order[s] \in Int
    BY DEF TableInv, TypeOK
  <1>3. FindPid(s, p)
    BY <1>1, <1>2 DEF FindPid
  <1>4. \A t \in Slot : FindPid(t, p) => t = s
    BY <1>1 DEF FindPid
  <1>5. (CHOOSE t \in Slot : FindPid(t, p)) = s
    BY <1>3, <1>4
  <1> QED
    BY <1>5 DEF ExitStatus

\* What ExitStatusMonotone says of one step.
AnswersMoveOn ==
    \A p \in 1 .. nextPid - 1 :
        /\ ExitStatus(p).status = "NnotFound" => ExitStatus(p)' = ExitStatus(p)
        /\ ExitStatus(p).status = "OK" =>
              ExitStatus(p)' = ExitStatus(p) \/ ExitStatus(p)'.status = "NnotFound"

\* So the answers of process_get_exit_code move on.
LEMMA AnswersMoveOnStep ==
    ASSUME TableInv, PidInv, TableInv', PidInv', SlotStep
    PROVE  AnswersMoveOn
  <1> SUFFICES ASSUME NEW p \in 1 .. nextPid - 1
               PROVE  /\ ExitStatus(p).status = "NnotFound" => ExitStatus(p)' = ExitStatus(p)
                      /\ ExitStatus(p).status = "OK" =>
                            ExitStatus(p)' = ExitStatus(p) \/ ExitStatus(p)'.status = "NnotFound"
    BY DEF AnswersMoveOn
  <1>1. p \in Nat \ {0}
    BY PidAssumption DEF TableInv, TypeOK
  <1>2. /\ (\A s \in Slot : ~HasPid(s, p)) =>
              ExitStatus(p) = [status |-> "NnotFound", code |-> 0]
        /\ (\A s \in Slot : ~HasPid(s, p)') =>
              ExitStatus(p)' = [status |-> "NnotFound", code |-> 0]
    BY DEF ExitStatus
  <1>3. CASE \A s \in Slot : ~HasPid(s, p)
    <2>1. \A s \in Slot : ~HasPid(s, p)'
      BY <1>3 DEF SlotStep
    <2> QED
      BY <1>2, <1>3, <2>1
  <1>4. ASSUME NEW s \in Slot, HasPid(s, p)
        PROVE  /\ ExitStatus(p).status # "NnotFound"
               /\ ExitStatus(p).status = "OK" =>
                     ExitStatus(p)' = ExitStatus(p) \/ ExitStatus(p)'.status = "NnotFound"
    <2>1. ExitStatus(p) = IF state[s] = "TERMINATED" THEN [status |-> "OK", code |-> code[s]]
                          ELSE [status |-> "Nbusy", code |-> 0]
      BY <1>1, <1>4, ExitStatusIs DEF AnswerIsAboutOwner
    <2>2. CASE \A t \in Slot : ~HasPid(t, p)'
      BY <1>2, <2>1, <2>2
    <2>3. ASSUME NEW t \in Slot, HasPid(t, p)'
          PROVE  ExitStatus(p).status = "OK" => ExitStatus(p)' = ExitStatus(p)
      <3>1. HasPid(t, p) /\ (state[t] = "TERMINATED" =>
                               state'[t] = "TERMINATED" /\ code'[t] = code[t])
        BY <2>3 DEF SlotStep
      <3>2. t = s
        BY <1>4, <3>1 DEF HasPid, PidInv, PidsUnique, Used
      <3>3. TableInv' /\ PidInv' => AnswerIsAboutOwner'
        BY ExitStatusIs, PTL
      <3>4. ExitStatus(p)' = IF state'[t] = "TERMINATED"
                             THEN [status |-> "OK", code |-> code'[t]]
                             ELSE [status |-> "Nbusy", code |-> 0]
        BY <1>1, <2>3, <3>3 DEF AnswerIsAboutOwner
      <3> QED
        BY <2>1, <3>1, <3>2, <3>4
    <2> QED
      BY <2>1, <2>2, <2>3
  <1> QED
    BY <1>3, <1>4

\* While g_next_pid has not come round, process_get_exit_code answers about a pid Nbusy, then
\* one exit code, then NnotFound, in this order and for good.
THEOREM ExitStatusSafe == MaxCreate + 1 < PidModulus => (Spec => ExitStatusMonotone)
  <1> SUFFICES ASSUME MaxCreate + 1 < PidModulus PROVE Spec => ExitStatusMonotone
    OBVIOUS
  <1>1. TableInv /\ PidInv /\ [Next]_vars => TableInv' /\ PidInv'
    BY TableInvNext, PidInvNext
  <1>2. TableInv /\ PidInv /\ [Next]_vars => AnswersMoveOn
    BY <1>1, SlotStepHolds, AnswersMoveOnStep
  <1>3. Spec => [][AnswersMoveOn]_vars
    BY <1>1, <1>2, TableInvInit, PidInvInit, PTL DEF Spec
  <1> QED
    BY <1>3 DEF AnswersMoveOn, ExitStatusMonotone

-----------------------------------------------------------------------------
(***************************************************************************)
(* The round robin of sched_rr.h.                                          *)
(***************************************************************************)
\* The distance between two places of a ring of m places.
LEMMA RingDistance ==
    ASSUME NEW m \in Nat \ {0}, NEW d \in Int, -m < d, d < m
    PROVE  d % m = IF d >= 0 THEN d ELSE d + m
  <1> DEFINE q == d \div m
             r == d % m
  <1>1. q \in Int /\ r \in Int /\ 0 <= r /\ r < m /\ d = m * q + r
    OBVIOUS
  <1> HIDE DEF q, r
  <1>2. q < 1
    <2> SUFFICES ASSUME q >= 1 PROVE FALSE
      BY <1>1
    <2>1. m * q >= m
      BY <1>1
    <2> QED
      BY <1>1, <2>1
  <1>3. q > -2
    <2> SUFFICES ASSUME q <= -2 PROVE FALSE
      BY <1>1
    <2>1. m * q <= m * (-2)
      BY <1>1
    <2> QED
      BY <1>1, <2>1
  <1>4. q = 0 \/ q = -1
    BY <1>1, <1>2, <1>3
  <1>5. CASE q = 0
    <2>1. r = d
      BY <1>1, <1>5
    <2> QED
      BY <1>1, <2>1 DEF r
  <1>6. CASE q = -1
    <2>1. r = d + m
      BY <1>1, <1>6
    <2> QED
      BY <1>1, <2>1 DEF r
  <1> QED
    BY <1>4, <1>5, <1>6

\* The walk of sched_pick_next to the slots of the list, before and after a switch to n.
LEMMA AheadIs ==
    ASSUME NEW m \in Nat \ {0}, NEW a \in 0 .. m - 1, NEW c \in 0 .. m - 1
    PROVE  (a - c) % m = IF a >= c THEN a - c ELSE a - c + m
  <1>1. PICK d \in Int : d = a - c
    OBVIOUS
  <1>2. -m < d /\ d < m /\ (d >= 0 <=> a >= c)
    BY <1>1
  <1>3. d % m = IF d >= 0 THEN d ELSE d + m
    BY <1>2, RingDistance
  <1> QED
    BY <1>1, <1>2, <1>3

\* What NobodyOvertakes says of one step.
NoOvertaking ==
    \A s \in Slot : state[s] = "READY" /\ current' # current /\ current' # s
        => Between(s)' \subseteq Between(s) /\ Between(s)' # Between(s)

\* A switch to the process the policy picks takes that one out of everybody's queue.
LEMMA SwitchOvertakesNobody ==
    ASSUME TableInv, NEW next \in Runnable, IsNext(next), NEW mine, ProcessSwitch(next, mine),
           UNCHANGED <<order, created>>
    PROVE  NoOvertaking
  <1> SUFFICES ASSUME NEW s \in Slot, state[s] = "READY", next # s
               PROVE  Between(s)' \subseteq Between(s) /\ Between(s)' # Between(s)
    BY DEF NoOvertaking, ProcessSwitch
  <1> DEFINE m == created + 2
             At(t) == (order[t] - order[current]) % m
             Then(t) == (order[t] - order[next]) % m
  <1>1. /\ current \in Slot /\ next \in Slot /\ next # current /\ state[current] = "RUNNING"
        /\ order[next] # 0 /\ state[next] # "FREE"
    BY DEF TableInv, TypeOK, OneRunner, Runnable
  <1>2. m \in Nat \ {0} /\ \A t \in Slot : order[t] \in 0 .. m - 1
    <2>1. created \in Nat /\ \A t \in Slot : order[t] \in 0 .. created + 1
      BY DEF TableInv, TypeOK
    <2> QED
      BY <2>1
  <1>3. /\ Between(s) = {t \in Slot \ {current} : order[t] # 0 /\ At(t) < At(s)}
        /\ Between(s)' = {t \in Slot \ {next} : order[t] # 0 /\ Then(t) < Then(s)}
    BY DEF Between, Ahead, ProcessSwitch
  <1>4. /\ order[s] # order[current] /\ order[s] # order[next] /\ order[next] # order[current]
        /\ order[s] # 0
    BY <1>1 DEF TableInv, ListMatchesTable, Used
  <1>5. At(next) <= At(s)
    <2>1. s \in Runnable
      BY <1>1, <1>4 DEF Runnable
    <2> QED
      BY <2>1 DEF IsNext, Ahead
  <1>6. /\ \A t \in Slot : At(t) = IF order[t] >= order[current] THEN order[t] - order[current]
                                   ELSE order[t] - order[current] + m
        /\ \A t \in Slot : Then(t) = IF order[t] >= order[next] THEN order[t] - order[next]
                                     ELSE order[t] - order[next] + m
    BY <1>1, <1>2, AheadIs
  <1> HIDE DEF m, At, Then
  <1>7. At(next) < At(s)
    BY <1>1, <1>2, <1>4, <1>5, <1>6
  <1>8. ASSUME NEW t \in Slot, t # next, order[t] # 0, Then(t) < Then(s)
        PROVE  t # current /\ At(t) < At(s)
    BY <1>1, <1>2, <1>4, <1>6, <1>7, <1>8
  <1>9. next \in Between(s) /\ next \notin Between(s)'
    BY <1>1, <1>3, <1>7
  <1>10. Between(s)' \subseteq Between(s)
    BY <1>3, <1>8
  <1> QED
    BY <1>9, <1>10

\* It holds of every step: only the scheduler changes the current process.
LEMMA NoOvertakingStep == TableInv /\ [Next]_vars => NoOvertaking
  <1> SUFFICES ASSUME TableInv, [Next]_vars PROVE NoOvertaking
    OBVIOUS
  <1>1. ASSUME current' = current PROVE NoOvertaking
    BY <1>1 DEF NoOvertaking
  <1>2. CASE ProcessCreate \/ ProcessCreateUser
    BY <1>1, <1>2 DEF ProcessCreate, ProcessCreateUser, Create, cpu
  <1>3. CASE Schedule \/ \E t \in SleepTicks : ProcessSleepTicks(t)
    BY <1>3, SwitchOvertakesNobody DEF Schedule, ProcessSleepTicks
  <1>4. ASSUME NEW c, TerminateSelf(c) PROVE NoOvertaking
    BY <1>4, SwitchOvertakesNobody DEF TerminateSelf
  <1>5. ASSUME NEW c \in ExitCode, ProcessExit(c) PROVE NoOvertaking
    BY <1>1, <1>4, <1>5 DEF ProcessExit, Panic, cpu
  <1>6. CASE ProcessTerminateSelf
    BY <1>4, <1>6 DEF ProcessTerminateSelf
  <1>7. CASE (\E t \in Slot : TerminateOther(t)) \/ ProcessReapTerminated
    BY <1>1, <1>7 DEF TerminateOther, ProcessReapTerminated, cpu
  <1>8. CASE Tick \/ (\E f \in File : SysOpen(f) \/ SysClose(f)) \/ UNCHANGED vars
    BY <1>1, <1>8 DEF Tick, SysOpen, SysClose, vars, cpu
  <1> QED
    BY <1>2, <1>3, <1>5, <1>6, <1>7, <1>8 DEF Next

\* Round robin: every switch that does not choose a ready process takes at least one process out
\* of those that come before it in the walk of sched_pick_next, and adds none.
THEOREM RoundRobinSafe == Spec => NobodyOvertakes
  <1>1. Spec => [][NoOvertaking]_vars
    BY TableInvInit, TableInvNext, NoOvertakingStep, PTL DEF Spec
  <1> QED
    BY <1>1 DEF NoOvertaking, NobodyOvertakes
=============================================================================
