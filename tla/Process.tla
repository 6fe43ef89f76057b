------------------------------ MODULE Process ------------------------------
(***************************************************************************)
(* The process table and the cooperative scheduler of the kernel:          *)
(* nxkernel/kernel/process/{process.c, sched_rr.h, schedule.c, switch.s}.  *)
(*                                                                         *)
(* One CPU, no preemption: the timer interrupt only counts, and every      *)
(* function of process.c runs with interrupts off, so each call is one     *)
(* action. A call that gives the CPU away (schedule) ends, for the model,  *)
(* with the other thread running; the rest of the caller's code is reached *)
(* when some later action switches back to it.                             *)
(*                                                                         *)
(* process_list is kept as `order`: the stamp each slot got when it was    *)
(* appended at the tail (0 when it is not linked). The list is the linked  *)
(* slots by ascending stamp, with the idle process at its head.            *)
(***************************************************************************)
EXTENDS Integers, FiniteSets

CONSTANTS
    ProcessMax,     \* PROCESS_MAX, the slots of g_procs
    PidModulus,     \* 2^32 in the code: g_next_pid is a u32
    Space,          \* PML4 frames a private address space can sit in
    KernelSpace,    \* paging_kernel_cr3(), shared by all kernel threads
    File,           \* open-file objects of the file-system drivers
    ExitCode,       \* values a process may exit with
    SleepTicks,     \* arguments of process_sleep_ticks
    MaxCreate,      \* bound: process creations in one behaviour
    MaxTick         \* bound: timer ticks in one behaviour

ASSUME ProcessMaxAssumption == ProcessMax \in Nat /\ ProcessMax > 1
ASSUME PidAssumption == PidModulus \in Nat /\ PidModulus > 1
ASSUME SpaceAssumption == KernelSpace \notin Space
ASSUME CodeAssumption == ExitCode \subseteq Int /\ 0 \in ExitCode
ASSUME TicksAssumption == SleepTicks \subseteq Nat
ASSUME BoundAssumption == MaxCreate \in Nat /\ MaxTick \in Nat

VARIABLES
    state,      \* [Slot -> State]; "FREE" is in_use = false
    pid,        \* [Slot -> 0 .. PidModulus - 1]
    space,      \* addrspace.pml4, KernelSpace when it is NULL
    files,      \* driver objects the slot's handle table keeps open
    wake,       \* wake_tick, 0 when not waiting for the timer
    code,       \* exit_code
    order,      \* position in process_list (see above)
    current,    \* current_process
    nextPid,    \* g_next_pid
    lastCode,   \* g_last_exit_code
    cr3,        \* the address space the CPU has loaded
    rsp0,       \* whose kernel stack the TSS names; Idle: the boot stack
    tick,       \* timer_tick
    live,       \* address spaces created and not yet destroyed
    created,    \* processes created so far
    panicked    \* kernel_panic_simple was called

table == <<state, pid, space, files, wake, code, order>>
cpu   == <<current, cr3, rsp0>>
vars  == <<table, cpu, nextPid, lastCode, tick, live, created, panicked>>

Slot  == 0 .. ProcessMax - 1
Idle  == 0
State == {"FREE", "READY", "RUNNING", "BLOCKED", "TERMINATED"}
Used  == {s \in Slot : state[s] # "FREE"}

(***************************************************************************)
(* The scheduling policy (sched_rr.h)                                      *)
(***************************************************************************)
\* Mutants of Runnable: the deadline is not compared; the walk ends
\* at the tail instead of going on from the head.
RunnableTooEarly ==
    {s \in Slot \ {current} : order[s] # 0 /\ state[s] \in {"READY", "BLOCKED"}}
RunnableNoWrap ==
    {s \in Slot \ {current} :
        /\ order[s] > order[current]
        /\ \/ state[s] = "READY"
           \/ state[s] = "BLOCKED" /\ wake[s] # 0 /\ tick >= wake[s]}

\* The processes sched_pick_next accepts: READY, or asleep with the deadline
\* passed. It never looks at the current process.
Runnable ==
    {s \in Slot \ {current} :
        /\ order[s] # 0
        /\ \/ state[s] = "READY"
           \/ state[s] = "BLOCKED" /\ wake[s] # 0 /\ tick >= wake[s]}

\* How far the walk from current->next, wrapping at the tail, has to go for s.
Ahead(s) == (order[s] - order[current]) % (created + 2)

\* Mutants of IsNext: any runnable process; the walk starts at the head.
IsNextAny(s) == s \in Runnable
IsNextFromHead(s) == s \in Runnable /\ \A r \in Runnable : order[s] <= order[r]

\* The one process sched_pick_next returns.
IsNext(s) == s \in Runnable /\ \A r \in Runnable : Ahead(s) <= Ahead(r)

\* Mutants of ProcessSwitch: the caller is not put back to READY; a kernel
\* thread keeps the page table that happens to be loaded; the TSS gets the
\* stack of the next slot.
SwitchKeepsRunning(next, mine) ==
    /\ state' = [state EXCEPT ![current] = mine, ![next] = "RUNNING"]
    /\ cr3' = space[next]
    /\ rsp0' = IF next = Idle THEN rsp0 ELSE next
    /\ current' = next
SwitchKeepsCr3(next, mine) ==
    /\ state' = [state EXCEPT ![current] = IF mine = "RUNNING" THEN "READY" ELSE mine,
                              ![next] = "RUNNING"]
    /\ cr3' = IF space[next] = KernelSpace THEN cr3 ELSE space[next]
    /\ rsp0' = IF next = Idle THEN rsp0 ELSE next
    /\ current' = next
SwitchRsp0OffByOne(next, mine) ==
    /\ state' = [state EXCEPT ![current] = IF mine = "RUNNING" THEN "READY" ELSE mine,
                              ![next] = "RUNNING"]
    /\ cr3' = space[next]
    /\ rsp0' = IF next = Idle THEN rsp0 ELSE next + 1
    /\ current' = next

(***************************************************************************)
(* schedule() called by the current process when its own state is `mine`:  *)
(* a RUNNING caller goes back to READY, a BLOCKED or TERMINATED one stays. *)
(* process_switch loads the page table and the TSS stack of the new one.   *)
(***************************************************************************)
ProcessSwitch(next, mine) ==
    /\ state' = [state EXCEPT ![current] = IF mine = "RUNNING" THEN "READY" ELSE mine,
                              ![next] = "RUNNING"]
    /\ cr3' = space[next]
    /\ rsp0' = IF next = Idle THEN rsp0 ELSE next
    /\ current' = next

(***************************************************************************)
(* process_reap: unlink, tear down and clear every terminated process but  *)
(* the current one. `st` is the state of the slots when it is called.      *)
(***************************************************************************)
Reaped(st) ==
    {s \in Slot : order[s] # 0 /\ st[s] = "TERMINATED" /\ s # current /\ pid[s] # 0}

SpacesOf(S) == {space[s] : s \in S} \ {KernelSpace}

\* f with the entries of the slots in S cleared (memset) to zero.
Cleared(f, S, zero) == [s \in Slot |-> IF s \in S THEN zero ELSE f[s]]

\* Mutants: a reap that does not unlink, or that tears no page table down.
UnlinkNone(S) == order
DestroyNone(S) == live

\* process_list without the slots in S.
Unlink(S) == Cleared(order, S, 0)

\* paging_addrspace_destroy on the private address spaces of the slots in S.
DestroySpaces(S) == live \ SpacesOf(S)

\* Mutant: the handles of a process that ends are left open.
CloseNone(s) == files

\* nx_handles_close_all on the table of slot s.
HandlesCloseAll(s) == [files EXCEPT ![s] = {}]

Init ==
    /\ state = [s \in Slot |-> IF s = Idle THEN "RUNNING" ELSE "FREE"]
    /\ pid = [s \in Slot |-> 0]
    /\ space = [s \in Slot |-> KernelSpace]
    /\ files = [s \in Slot |-> {}]
    /\ wake = [s \in Slot |-> 0]
    /\ code = [s \in Slot |-> 0]
    /\ order = [s \in Slot |-> IF s = Idle THEN 1 ELSE 0]
    /\ current = Idle
    /\ nextPid = 1
    /\ lastCode = 0
    /\ cr3 = KernelSpace
    /\ rsp0 = Idle
    /\ tick = 0
    /\ live = {}
    /\ created = 0
    /\ panicked = FALSE

-----------------------------------------------------------------------------
(***************************************************************************)
(* Creation. Zombies are reaped first, then the first free slot is taken.  *)
(* With no slot left nothing is changed (for a user process the caller     *)
(* destroys the address space it had made), so that case is a stutter.     *)
(***************************************************************************)
\* Mutants: the pid is the slot's number; g_next_pid is not advanced.
NewPidIsSlot(s) == s
NextPidStale == nextPid

NewPid(s) == nextPid
NextPid == (nextPid + 1) % PidModulus

FreeAfter(S) == {s \in Slot \ {Idle} : state[s] = "FREE" \/ s \in S}

Create(sp) ==
    LET gone == Reaped(state) IN
    /\ ~panicked
    /\ created < MaxCreate
    /\ \E s \in FreeAfter(gone) :
        /\ \A t \in FreeAfter(gone) : s <= t
        /\ state' = [Cleared(state, gone, "FREE") EXCEPT ![s] = "READY"]
        /\ pid' = [Cleared(pid, gone, 0) EXCEPT ![s] = NewPid(s)]
        /\ space' = [Cleared(space, gone, KernelSpace) EXCEPT ![s] = sp]
        /\ files' = [Cleared(files, gone, {}) EXCEPT ![s] = {}]
        /\ wake' = [Cleared(wake, gone, 0) EXCEPT ![s] = 0]
        /\ code' = [Cleared(code, gone, 0) EXCEPT ![s] = 0]
        /\ order' = [Unlink(gone) EXCEPT ![s] = created + 2]
    /\ live' = DestroySpaces(gone) \cup ({sp} \ {KernelSpace})
    /\ nextPid' = NextPid
    /\ created' = created + 1
    /\ UNCHANGED <<cpu, lastCode, tick, panicked>>

\* A kernel thread shares the kernel's address space.
ProcessCreate == Create(KernelSpace)

\* The tail of process_spawn: the new PML4 was allocated before the reap, so
\* it is none of the spaces that are still live at that moment.
ProcessCreateUser == \E sp \in Space \ live : Create(sp)

(***************************************************************************)
(* Giving up the CPU.                                                      *)
(***************************************************************************)
\* sys_yield, the idle loop and any kernel thread's call of schedule().
Schedule ==
    /\ ~panicked
    /\ \E next \in Runnable :
        /\ IsNext(next)
        /\ ProcessSwitch(next, "RUNNING")
        /\ wake' = [wake EXCEPT ![next] = 0]
    /\ UNCHANGED <<pid, space, files, code, order, nextPid, lastCode, tick, live,
                   created, panicked>>

MaySleep == pid[current] # 0

\* process_sleep_ticks; the idle process (pid 0) may not sleep. When nobody
\* else can run the call undoes itself (Ninterrupted): a stutter.
ProcessSleepTicks(t) ==
    /\ ~panicked
    /\ MaySleep
    /\ tick + (IF t = 0 THEN 1 ELSE t) <= MaxTick
    /\ \E next \in Runnable :
        /\ IsNext(next)
        /\ ProcessSwitch(next, "BLOCKED")
        /\ wake' = [wake EXCEPT ![current] = tick + (IF t = 0 THEN 1 ELSE t), ![next] = 0]
    /\ UNCHANGED <<pid, space, files, code, order, nextPid, lastCode, tick, live,
                   created, panicked>>

(***************************************************************************)
(* Termination. process_terminate acts on the first linked process with    *)
(* the pid.                                                                *)
(***************************************************************************)
HasPid(s, p) == order[s] # 0 /\ state[s] # "FREE" /\ pid[s] = p
FindPid(s, p) ==
    HasPid(s, p) /\ \A t \in Slot : HasPid(t, p) => order[s] <= order[t]

\* process_reap called when the slots' states are st and their files fl.
ProcessReap(st, fl) ==
    LET gone == Reaped(st) IN
    /\ state' = Cleared(st, gone, "FREE")
    /\ pid' = Cleared(pid, gone, 0)
    /\ space' = Cleared(space, gone, KernelSpace)
    /\ files' = Cleared(fl, gone, {})
    /\ wake' = Cleared(wake, gone, 0)
    /\ code' = Cleared(code, gone, 0)
    /\ order' = Unlink(gone)
    /\ live' = DestroySpaces(gone)

\* Terminating another process: its files are closed and it is reaped at
\* once, with every older zombie. pid 0 and dead pids are refused (stutter).
TerminateOther(t) ==
    /\ ~panicked
    /\ t # current
    /\ pid[t] # 0
    /\ FindPid(t, pid[t])
    /\ state[t] # "TERMINATED"
    /\ ProcessReap([state EXCEPT ![t] = "TERMINATED"], HandlesCloseAll(t))
    /\ UNCHANGED <<cpu, nextPid, lastCode, tick, created, panicked>>

\* The current process leaves for good, its exit code already being `newCode`:
\* nobody reaps it yet, its address space stays until a later reap.
TerminateSelf(newCode) ==
    /\ \E next \in Runnable :
        /\ IsNext(next)
        /\ ProcessSwitch(next, "TERMINATED")
        /\ wake' = [wake EXCEPT ![next] = 0]
    /\ files' = HandlesCloseAll(current)
    /\ code' = [code EXCEPT ![current] = newCode]
    /\ UNCHANGED <<pid, space, order, nextPid, tick, live, created, panicked>>

\* kernel_panic_simple: the machine stops.
Panic ==
    /\ panicked' = TRUE
    /\ UNCHANGED <<table, cpu, nextPid, lastCode, tick, live, created>>

\* process_terminate(own pid) finds the caller only if no earlier process of
\* the list has its pid, and comes back from schedule() only if nobody runs.
CanLeave == pid[current] # 0 /\ FindPid(current, pid[current]) /\ Runnable # {}

\* process_exit_with_code: exit of a user process, end of a thread function,
\* or a fault in user mode. The boot thread never ends.
ProcessExit(c) ==
    /\ ~panicked
    /\ current # Idle
    /\ IF CanLeave THEN TerminateSelf(c) /\ lastCode' = c ELSE Panic

\* process_terminate called by a process on its own pid.
ProcessTerminateSelf ==
    /\ ~panicked
    /\ CanLeave
    /\ TerminateSelf(code[current])
    /\ UNCHANGED lastCode

ProcessReapTerminated ==
    /\ ~panicked
    /\ ProcessReap(state, files)
    /\ UNCHANGED <<cpu, nextPid, lastCode, tick, created, panicked>>

(***************************************************************************)
(* What runs meanwhile: the timer, and system calls that open and close    *)
(* files in the caller's handle table (module Handles has their detail).   *)
(***************************************************************************)
Opened == UNION {files[s] : s \in Slot}

Tick ==
    /\ ~panicked
    /\ tick < MaxTick
    /\ tick' = tick + 1
    /\ UNCHANGED <<table, cpu, nextPid, lastCode, live, created, panicked>>

SysOpen(f) ==
    /\ ~panicked
    /\ space[current] # KernelSpace
    /\ f \notin Opened
    /\ files' = [files EXCEPT ![current] = @ \cup {f}]
    /\ UNCHANGED <<state, pid, space, wake, code, order, cpu, nextPid, lastCode, tick,
                   live, created, panicked>>

SysClose(f) ==
    /\ ~panicked
    /\ space[current] # KernelSpace
    /\ f \in files[current]
    /\ files' = [files EXCEPT ![current] = @ \ {f}]
    /\ UNCHANGED <<state, pid, space, wake, code, order, cpu, nextPid, lastCode, tick,
                   live, created, panicked>>

Next ==
    \/ ProcessCreate
    \/ ProcessCreateUser
    \/ Schedule
    \/ \E t \in SleepTicks : ProcessSleepTicks(t)
    \/ \E t \in Slot : TerminateOther(t)
    \/ \E c \in ExitCode : ProcessExit(c)
    \/ ProcessTerminateSelf
    \/ ProcessReapTerminated
    \/ Tick
    \/ \E f \in File : SysOpen(f) \/ SysClose(f)

Spec == Init /\ [][Next]_vars

(***************************************************************************)
(* The timer never stops, and the thread that runs always gets to the      *)
(* scheduler again: the idle loop calls schedule() after every interrupt,  *)
(* and a process is assumed to yield, sleep or end (nothing preempts it).  *)
(***************************************************************************)
GiveUpCpu ==
    \/ Schedule
    \/ \E t \in SleepTicks : ProcessSleepTicks(t)
    \/ \E c \in ExitCode : ProcessExit(c)

FairSpec == Spec /\ WF_vars(Tick) /\ WF_vars(GiveUpCpu)

-----------------------------------------------------------------------------
(***************************************************************************)
(* Properties                                                              *)
(***************************************************************************)
\* Every field of the table and the CPU keeps its type.
TypeOK ==
    /\ state \in [Slot -> State]
    /\ pid \in [Slot -> 0 .. PidModulus - 1]
    /\ space \in [Slot -> Space \cup {KernelSpace}]
    /\ files \in [Slot -> SUBSET File]
    /\ wake \in [Slot -> Nat]
    /\ code \in [Slot -> Int]
    /\ order \in [Slot -> 0 .. created + 1]
    /\ current \in Slot
    /\ nextPid \in 0 .. PidModulus - 1
    /\ lastCode \in Int
    /\ cr3 \in Space \cup {KernelSpace}
    /\ rsp0 \in Slot
    /\ tick \in Nat
    /\ live \subseteq Space
    /\ created \in Nat
    /\ panicked \in BOOLEAN

\* The list links exactly the slots in use, no two at the same place, so the
\* walks of process_list (scheduler, reap, terminate) miss nobody.
ListMatchesTable ==
    /\ \A s \in Slot : order[s] # 0 <=> state[s] # "FREE"
    /\ \A s, t \in Used : order[s] = order[t] => s = t

\* Exactly the current process is RUNNING, whatever happened to the others.
OneRunner == \A s \in Slot : state[s] = "RUNNING" <=> s = current

\* The CPU works in the address space of current_process: what system calls
\* check (current_process->addrspace) is what the hardware uses, and that
\* page table has not been torn down by a reap.
LoadedSpaceIsOwn ==
    /\ cr3 = space[current]
    /\ cr3 # KernelSpace => cr3 \in live

\* Every live address space belongs to exactly one slot in use, so a reap
\* neither frees a space somebody else still has nor leaves one behind.
SpacesOwnedOnce ==
    /\ live = SpacesOf(Used)
    /\ \A s, t \in Used : space[s] = space[t] /\ space[s] # KernelSpace => s = t

\* Interrupts and system calls from a process enter on its own kernel stack.
KernelStackIsOwn == current # Idle => rsp0 = current

\* The idle process can always be chosen: it is linked, and neither sleep, nor
\* termination, nor a reap ever applies to it.
IdleAlwaysRunnable ==
    order[Idle] # 0 /\ pid[Idle] = 0 /\ state[Idle] \in {"READY", "RUNNING"}

\* None of the panics of process.c is reachable: somebody can always run when
\* a process ends, and only the process that asked to end is ended.
NoPanic == ~panicked

\* No two processes of the table have the same pid.
PidsUnique == \A s, t \in Used : pid[s] = pid[t] => s = t

\* Driver objects are closed with their process: a dead process keeps none
\* open, and no object sits in two handle tables.
FilesOwnedOnce ==
    /\ \A s \in Slot : files[s] # {} => state[s] \in {"READY", "RUNNING", "BLOCKED"}
    /\ \A s, t \in Slot : s # t => files[s] \cap files[t] = {}

\* Nobody is woken from process_sleep_ticks before its deadline.
SleepsFullTime ==
    [][\A s \in Slot : state[s] = "BLOCKED" /\ state'[s] \in {"READY", "RUNNING"}
                        => tick >= wake[s]]_vars

\* What process_get_exit_code answers for pid p.
ExitStatus(p) ==
    IF \A s \in Slot : ~HasPid(s, p) THEN [status |-> "NnotFound", code |-> 0]
    ELSE LET s == CHOOSE s \in Slot : FindPid(s, p) IN
         IF state[s] = "TERMINATED" THEN [status |-> "OK", code |-> code[s]]
         ELSE [status |-> "Nbusy", code |-> 0]

\* The answers about one pid only ever go Nbusy, then one exit code, then
\* NnotFound: a pid never comes back to life and its code never changes.
ExitStatusMonotone ==
    [][\A p \in 1 .. nextPid - 1 :
        /\ ExitStatus(p).status = "NnotFound" => ExitStatus(p)' = ExitStatus(p)
        /\ ExitStatus(p).status = "OK" =>
              ExitStatus(p)' = ExitStatus(p) \/ ExitStatus(p)'.status = "NnotFound"]_vars

\* Round robin: the processes that get the CPU before a ready process s are
\* the ones between the current process and s in the list, each at most once.
\* Every switch that does not choose s therefore strictly shrinks that set.
Between(s) ==
    {t \in Slot \ {current} : order[t] # 0 /\ Ahead(t) < Ahead(s)}
NobodyOvertakes ==
    [][\A s \in Slot : state[s] = "READY" /\ current' # current /\ current' # s
            => Between(s)' \subseteq Between(s) /\ Between(s)' # Between(s)]_vars

\* A process that is ready or asleep runs again, or is terminated by another one:
\* nobody starves in the round robin and no sleep lasts for ever.
WaiterRuns ==
    \A s \in Slot : state[s] \in {"READY", "BLOCKED"} ~> state[s] \in {"RUNNING", "FREE"}
=============================================================================
