------------------------------- MODULE Memory -------------------------------
(***************************************************************************)
(* Physical frames and who has them: the frame allocator (mm/pfa.c), the   *)
(* four-level page tables of user address spaces (paging/paging.c), the    *)
(* user heap (process/umem.c) and the building and tearing down of a user  *)
(* process (process/spawn.c, elf.c, process_reap of process.c).            *)
(*                                                                         *)
(* There is one CPU and no preemption, so one kernel call is in progress   *)
(* at a time; `pc` says where it is. Loops are modelled iteration by       *)
(* iteration, and the page-table walk level by level, so that memory may   *)
(* run out at every single allocation. Calls refused before they change    *)
(* anything are stutters.                                                  *)
(*                                                                         *)
(* An entry of a page table is named by its level and its position: level  *)
(* 0 are the leaves (data frames), 1 the PTs, 2 the PDs, 3 the PDPTs and 4 *)
(* the PML4. The entry that leads to page v at level l is At(l, v).        *)
(***************************************************************************)
EXTENDS Integers, Sequences, FiniteSets

CONSTANTS
    Frame,          \* physical frames of the allocator (0 is no frame)
    Proc,           \* slots of the process table for user processes
    Fan,            \* ENTRIES_PER_TABLE (512)
    PageSize,       \* PAGE_SIZE in bytes (4096)
    Image,          \* executables: sequences of PT_LOAD segments (see Segment)
    ElfMin,         \* NX_USER_ELF_MIN_VADDR, as a page number
    ElfMax,         \* NX_USER_ELF_MAX_VADDR, as a page number
    StackGuard,     \* the unmapped page below the stack
    StackTop,       \* the page after the stack
    HeapMax,        \* NX_HEAP_MAX_TOTAL in bytes
    GrowMax,        \* NX_HEAP_GROW_MAX_PER_CALL in bytes
    Increment,      \* arguments of NxVirtualAlloc
    MaxExit         \* bound: processes that end in one behaviour

Page == 0 .. StackTop - 1
StackBase == StackGuard + 1

\* A PT_LOAD segment: its pages from .. to - 1; wx when it asks for W and X.
Segment == [from : Page, to : Page, wx : BOOLEAN]

Up(k) == <<k[1] + 1, k[2] \div Fan>>
At(l, v) == CASE l = 0 -> <<0, v>>
              [] l = 1 -> Up(<<0, v>>)
              [] l = 2 -> Up(Up(<<0, v>>))
              [] l = 3 -> Up(Up(Up(<<0, v>>)))
              [] l = 4 -> <<4, 0>>
Root == <<4, 0>>
Entry == {Root} \cup UNION {{At(l, v) : v \in Page} : l \in 0 .. 3}

ASSUME FrameAssumption == IsFiniteSet(Frame) /\ 0 \notin Frame
ASSUME ProcAssumption == Proc \subseteq Nat /\ 0 \notin Proc
ASSUME GeometryAssumption ==
    /\ Fan \in Nat \ {0} /\ PageSize \in Nat \ {0}
    /\ \A v \in Page : Up(At(3, v)) = Root
ASSUME LayoutAssumption ==
    /\ {ElfMin, ElfMax, StackGuard, StackTop, HeapMax, GrowMax} \subseteq Nat
    /\ 0 < ElfMin /\ ElfMin < ElfMax /\ ElfMax <= StackGuard /\ StackGuard < StackTop - 1
ASSUME InputAssumption == Image \subseteq Seq(Segment) /\ Increment \subseteq Int \ {0}
ASSUME BoundAssumption == MaxExit \in Nat

VARIABLES
    free,       \* the frames on the allocator's free list
    tab,        \* [Owner -> [Entry -> Frame or 0]], page tables of each space
    life,       \* [Proc -> {"none", "alive", "zombie"}]
    heapStart,  \* [Proc -> Nat], bytes
    brk,        \* [Proc -> Nat], heap_brk in bytes
    pc,         \* where the kernel call in progress is; "user": none is
    loop,       \* which loop is mapping pages: "load", "stack" or "grow"
    own,        \* the address space being worked on
    segs,       \* segments still to load, the current one first
    imageEnd,   \* the page after the image being loaded
    page,       \* the loop's page
    first,      \* where the heap loop started
    last,       \* where it ends (not included)
    target,     \* the new brk
    hand,       \* the frame allocated for `page` and not yet mapped, or 0
    lvl,        \* the level paging_map_page has got to
    exits,      \* processes that have ended so far
    atCall,     \* history: the free frames when the call was made
    outcome     \* history: how the last call ended

mem   == <<free, tab>>
procs == <<life, heapStart, brk, exits>>
args  == <<own, segs, imageEnd, first, last, target>>
vars  == <<mem, procs, pc, loop, args, page, hand, lvl, atCall, outcome>>

\* The address space process_spawn is building, before it has a process.
Local == 0
Owner == Proc \cup {Local}
Empty == [k \in Entry |-> 0]

Init ==
    /\ free = Frame
    /\ tab = [o \in Owner |-> Empty]
    /\ life = [p \in Proc |-> "none"]
    /\ heapStart = [p \in Proc |-> 0]
    /\ brk = [p \in Proc |-> 0]
    /\ exits = 0
    /\ pc = "user" /\ loop = "load" /\ own = Local
    /\ segs = <<>> /\ imageEnd = 0 /\ page = 0 /\ first = 0 /\ last = 0 /\ target = 0
    /\ hand = 0 /\ lvl = 0
    /\ atCall = {} /\ outcome = "none"

(***************************************************************************)
(* The allocator. Which free frame is at the head of the list makes no     *)
(* difference to anybody, so the list is a set and its head any element.   *)
(***************************************************************************)
FreeHead == CHOOSE f \in free : TRUE

\* The entries paging_addrspace_destroy meets: it descends from the PML4 and
\* looks below an entry only when that entry is present.
Reached(t) ==
    {At(k[1], k[2]) : k \in {k \in (0 .. 4) \X Page : \A m \in k[1] .. 4 : t[At(m, k[2])] # 0}}

\* The frames paging_addrspace_destroy gives back for the spaces in O.
FramesOf(O) == UNION {{tab[o][k] : k \in Reached(tab[o])} : o \in O}

\* The page tables without the spaces in O.
Without(O) == [o \in Owner |-> IF o \in O THEN Empty ELSE tab[o]]

(***************************************************************************)
(* How calls end.                                                          *)
(***************************************************************************)
\* Ways process_spawn fails.
SpawnError == {"no memory", "bad file", "no slot"}

\* The call is over and its local variables with it.
Return(how) ==
    /\ pc' = "user" /\ loop' = "load" /\ own' = Local
    /\ segs' = <<>> /\ imageEnd' = 0 /\ page' = 0 /\ first' = 0 /\ last' = 0 /\ target' = 0
    /\ hand' = 0 /\ lvl' = 0
    /\ atCall' = {} /\ outcome' = how

\* Mutant: the frame that could not be mapped is forgotten.
SpawnFailsKeepsHand(why) ==
    /\ free' = free \cup FramesOf({Local})
    /\ tab' = Without({Local})
    /\ Return(why)
    /\ UNCHANGED procs

\* A failure after the address space exists: the frame in hand is freed and
\* process_spawn destroys the whole address space.
SpawnFails(why) ==
    /\ free' = free \cup FramesOf({Local}) \cup ({hand} \ {0})
    /\ tab' = Without({Local})
    /\ Return(why)
    /\ UNCHANGED procs

\* A failure of the heap loop: the frame in hand is freed, and the pages
\* mapped so far are unmapped again in the order they were mapped.
StartRollback ==
    /\ pc' = "rollback" /\ page' = first /\ last' = page
    /\ free' = free \cup ({hand} \ {0}) /\ hand' = 0
    /\ UNCHANGED <<tab, procs, loop, own, segs, imageEnd, first, target, lvl, atCall, outcome>>

MapFails(why) == IF loop = "grow" THEN StartRollback ELSE SpawnFails(why)

-----------------------------------------------------------------------------
(***************************************************************************)
(* process_spawn. Opening the file may fail first: a stutter.              *)
(***************************************************************************)
SpawnCall(img) ==
    /\ pc = "user"
    /\ pc' = "create" /\ own' = Local /\ segs' = img
    /\ atCall' = free /\ outcome' = "none"
    /\ UNCHANGED <<mem, procs, loop, imageEnd, page, first, last, target, hand, lvl>>

\* paging_addrspace_create: one frame for the PML4.
AddrspaceCreate ==
    /\ pc = "create"
    /\ free # {}
    /\ free' = free \ {FreeHead}
    /\ tab' = [tab EXCEPT ![Local][Root] = FreeHead]
    /\ pc' = "header"
    /\ UNCHANGED <<procs, loop, args, page, hand, lvl, atCall, outcome>>

AddrspaceCreateFails ==
    /\ pc = "create"
    /\ free = {}
    /\ Return("no memory")
    /\ UNCHANGED <<mem, procs>>

\* The checks of every program header before anything is loaded.
HeadersOk(img) ==
    /\ img # <<>>
    /\ \A i \in DOMAIN img :
        img[i].from < img[i].to /\ ElfMin <= img[i].from /\ img[i].to <= ElfMax

ImageEnd(img) ==
    CHOOSE e \in {img[i].to : i \in DOMAIN img} : \A i \in DOMAIN img : img[i].to <= e

ElfHeader ==
    /\ pc = "header"
    /\ HeadersOk(segs)
    /\ pc' = "loop" /\ loop' = "load"
    /\ page' = Head(segs).from
    /\ imageEnd' = ImageEnd(segs)
    /\ UNCHANGED <<mem, procs, own, segs, first, last, target, hand, lvl, atCall, outcome>>

\* A file that is no ELF, has bad headers or cannot be read.
ElfHeaderFails == pc = "header" /\ SpawnFails("bad file")

(***************************************************************************)
(* The heads of the three loops that map pages: load_segment (inside the   *)
(* loop over the segments), map_user_stack and the growing umem_brk.       *)
(***************************************************************************)
LoopDone == CASE loop = "load"  -> page >= Head(segs).to
              [] loop = "stack" -> page >= StackTop
              [] loop = "grow"  -> page >= last

\* pfa_alloc for the page, and the file's contents read into the new frame.
AllocPage ==
    /\ pc = "loop"
    /\ ~LoopDone
    /\ free # {}
    /\ free' = free \ {FreeHead}
    /\ hand' = FreeHead
    /\ pc' = "walk" /\ lvl' = 3
    /\ UNCHANGED <<tab, procs, loop, args, page, atCall, outcome>>

AllocPageFails ==
    /\ pc = "loop"
    /\ ~LoopDone
    /\ free = {}
    /\ MapFails("no memory")

\* The file cannot be read, or paging_map_page refuses W with X: found out
\* once the frame is allocated and before any table is.
PageRefused ==
    /\ pc = "walk" /\ lvl = 3
    /\ loop = "load"
    /\ SpawnFails("bad file")

\* A segment is loaded: on to the next one, or to the stack.
SegmentDone ==
    /\ pc = "loop" /\ loop = "load"
    /\ LoopDone
    /\ segs' = Tail(segs)
    /\ IF Tail(segs) = <<>>
         THEN loop' = "stack" /\ page' = StackBase
         ELSE page' = Head(Tail(segs)).from /\ UNCHANGED loop
    /\ UNCHANGED <<mem, procs, pc, own, imageEnd, first, last, target, hand, lvl, atCall,
                   outcome>>

StackDone ==
    /\ pc = "loop" /\ loop = "stack"
    /\ LoopDone
    /\ pc' = "enter"
    /\ UNCHANGED <<mem, procs, loop, args, page, hand, lvl, atCall, outcome>>

(***************************************************************************)
(* paging_map_page(own, hand, page): next_level_dyn at levels 3, 2 and 1,  *)
(* then the leaf. Tables made on the way stay when a later step fails.     *)
(***************************************************************************)
\* W with X is refused before the walk starts.
MayMap == loop = "load" => ~Head(segs).wx

NextLevelPresent ==
    /\ pc = "walk" /\ lvl > 0
    /\ MayMap
    /\ tab[own][At(lvl, page)] # 0
    /\ lvl' = lvl - 1
    /\ UNCHANGED <<mem, procs, pc, loop, args, page, hand, atCall, outcome>>

\* Mutant: the new table is not linked.
LinkTableNot(f) == tab

LinkTable(f) == [tab EXCEPT ![own][At(lvl, page)] = f]

NextLevelCreate ==
    /\ pc = "walk" /\ lvl > 0
    /\ MayMap
    /\ tab[own][At(lvl, page)] = 0
    /\ free # {}
    /\ free' = free \ {FreeHead}
    /\ tab' = LinkTable(FreeHead)
    /\ lvl' = lvl - 1
    /\ UNCHANGED <<procs, pc, loop, args, page, hand, atCall, outcome>>

NextLevelFails ==
    /\ pc = "walk" /\ lvl > 0
    /\ MayMap
    /\ tab[own][At(lvl, page)] = 0
    /\ free = {}
    /\ MapFails("no memory")

LeafFree == tab[own][At(0, page)] = 0

MapLeaf ==
    /\ pc = "walk" /\ lvl = 0
    /\ LeafFree
    /\ tab' = [tab EXCEPT ![own][At(0, page)] = hand]
    /\ hand' = 0
    /\ page' = page + 1
    /\ pc' = "loop"
    /\ UNCHANGED <<free, procs, loop, args, lvl, atCall, outcome>>

\* NalreadyExists: two segments of the file share a page.
MapLeafExists ==
    /\ pc = "walk" /\ lvl = 0
    /\ ~LeafFree
    /\ MapFails("bad file")

(***************************************************************************)
(* The end of process_spawn: process_create_user reaps the zombies and     *)
(* takes the first free slot; with none left the new space is destroyed.   *)
(***************************************************************************)
Zombies == {p \in Proc : life[p] = "zombie"}

\* A field of the process table after the memset of the reaped slots.
Cleared(f) == [p \in Proc |-> IF p \in Zombies THEN 0 ELSE f[p]]
FreeSlots == {p \in Proc : life[p] # "alive"}

ProcessCreateUser(p) ==
    /\ pc = "enter"
    /\ p \in FreeSlots /\ \A q \in FreeSlots : p <= q
    /\ free' = free \cup FramesOf(Zombies)
    /\ tab' = [Without(Zombies \cup {Local}) EXCEPT ![p] = tab[Local]]
    /\ life' = [q \in Proc |-> IF q = p THEN "alive" ELSE
                               IF q \in Zombies THEN "none" ELSE life[q]]
    /\ heapStart' = [Cleared(heapStart) EXCEPT ![p] = imageEnd * PageSize]
    /\ brk' = [Cleared(brk) EXCEPT ![p] = imageEnd * PageSize]
    /\ Return("ok")
    /\ UNCHANGED exits

NoSlotLeft == pc = "enter" /\ FreeSlots = {} /\ SpawnFails("no slot")

\* process_exit: the address space stays until somebody reaps the process.
ProcessExit(p) ==
    /\ pc = "user"
    /\ life[p] = "alive"
    /\ exits < MaxExit
    /\ exits' = exits + 1
    /\ life' = [life EXCEPT ![p] = "zombie"]
    /\ UNCHANGED <<mem, heapStart, brk, pc, loop, args, page, hand, lvl, atCall, outcome>>

\* process_reap_terminated, which only the boot-time self test calls.
ReapTerminated ==
    /\ pc = "user"
    /\ free' = free \cup FramesOf(Zombies)
    /\ tab' = Without(Zombies)
    /\ life' = [p \in Proc |-> IF p \in Zombies THEN "none" ELSE life[p]]
    /\ heapStart' = Cleared(heapStart)
    /\ brk' = Cleared(brk)
    /\ UNCHANGED <<exits, pc, loop, args, page, hand, lvl, atCall, outcome>>

(***************************************************************************)
(* umem_brk, called by process p on itself.                                *)
(***************************************************************************)
\* align_up(b, PAGE_SIZE), as a page number.
PageAbove(b) == (b + PageSize - 1) \div PageSize

\* Mutant: the heap may touch the guard page.
MayGrowToStack(p, inc) ==
    /\ 0 < inc /\ inc <= GrowMax
    /\ brk[p] + inc - heapStart[p] <= HeapMax
    /\ brk[p] + inc < StackBase * PageSize

MayGrow(p, inc) ==
    /\ 0 < inc /\ inc <= GrowMax
    /\ brk[p] + inc - heapStart[p] <= HeapMax
    /\ brk[p] + inc < StackGuard * PageSize

BrkGrow(p, inc) ==
    /\ pc = "user"
    /\ life[p] = "alive"
    /\ MayGrow(p, inc)
    /\ pc' = "loop" /\ loop' = "grow" /\ own' = p
    /\ first' = PageAbove(brk[p]) /\ page' = PageAbove(brk[p])
    /\ last' = PageAbove(brk[p] + inc)
    /\ target' = brk[p] + inc
    /\ atCall' = free /\ outcome' = "none"
    /\ UNCHANGED <<mem, procs, segs, imageEnd, hand, lvl>>

BrkGrown ==
    /\ pc = "loop" /\ loop = "grow"
    /\ LoopDone
    /\ brk' = [brk EXCEPT ![own] = target]
    /\ Return("ok")
    /\ UNCHANGED <<mem, life, heapStart, exits>>

\* Mutant: the heap may be shrunk below its start.
MayShrinkAlways(p, inc) == inc < 0

MayShrink(p, inc) == inc < 0 /\ -inc <= brk[p] - heapStart[p]

BrkShrink(p, inc) ==
    /\ pc = "user"
    /\ life[p] = "alive"
    /\ MayShrink(p, inc)
    /\ pc' = "shrink" /\ own' = p
    /\ first' = PageAbove(brk[p] + inc) /\ page' = PageAbove(brk[p] + inc)
    /\ last' = PageAbove(brk[p])
    /\ target' = brk[p] + inc
    /\ atCall' = free /\ outcome' = "none"
    /\ UNCHANGED <<mem, procs, loop, segs, imageEnd, hand, lvl>>

\* Mutant: the loop does not go on to the next page.
UnmapNoAdvance ==
    /\ pc \in {"shrink", "rollback"}
    /\ page < last
    /\ IF \A m \in 0 .. 4 : tab[own][At(m, page)] # 0
         THEN /\ free' = free \cup {tab[own][At(0, page)]}
              /\ tab' = [tab EXCEPT ![own][At(0, page)] = 0]
         ELSE UNCHANGED mem
    /\ UNCHANGED <<procs, pc, loop, args, page, hand, lvl, atCall, outcome>>

\* paging_unmap_free_page of `page`, an iteration of the shrinking loop or of
\* rollback_pages. The tables above the leaf stay. A page that is not mapped
\* is passed over.
UnmapFreePage ==
    /\ pc \in {"shrink", "rollback"}
    /\ page < last
    /\ IF \A m \in 0 .. 4 : tab[own][At(m, page)] # 0
         THEN /\ free' = free \cup {tab[own][At(0, page)]}
              /\ tab' = [tab EXCEPT ![own][At(0, page)] = 0]
         ELSE UNCHANGED mem
    /\ page' = page + 1
    /\ UNCHANGED <<procs, pc, loop, args, hand, lvl, atCall, outcome>>

BrkShrunk ==
    /\ pc = "shrink"
    /\ page >= last
    /\ brk' = [brk EXCEPT ![own] = target]
    /\ Return("ok")
    /\ UNCHANGED <<mem, life, heapStart, exits>>

BrkRolledBack ==
    /\ pc = "rollback"
    /\ page >= last
    /\ Return("brk failed")
    /\ UNCHANGED <<mem, procs>>

-----------------------------------------------------------------------------
Spawn == \E img \in Image : SpawnCall(img)

\* The steps inside a kernel call.
KernelStep ==
    \/ AddrspaceCreate \/ AddrspaceCreateFails
    \/ ElfHeader \/ ElfHeaderFails
    \/ AllocPage \/ AllocPageFails \/ PageRefused
    \/ SegmentDone \/ StackDone
    \/ NextLevelPresent \/ NextLevelCreate \/ NextLevelFails
    \/ MapLeaf \/ MapLeafExists
    \/ (\E p \in Proc : ProcessCreateUser(p)) \/ NoSlotLeft
    \/ BrkGrown \/ BrkShrunk \/ BrkRolledBack \/ UnmapFreePage

Next ==
    \/ Spawn
    \/ KernelStep
    \/ \E p \in Proc : ProcessExit(p)
    \/ \E p \in Proc, inc \in Increment : BrkGrow(p, inc) \/ BrkShrink(p, inc)
    \/ ReapTerminated

Spec == Init /\ [][Next]_vars

\* A kernel call runs to its end: nothing takes the CPU away from it.
FairSpec == Spec /\ WF_vars(KernelStep)

-----------------------------------------------------------------------------
(***************************************************************************)
(* Properties                                                              *)
(***************************************************************************)
\* Every variable keeps its type.
TypeOK ==
    /\ free \subseteq Frame
    /\ tab \in [Owner -> [Entry -> Frame \cup {0}]]
    /\ life \in [Proc -> {"none", "alive", "zombie"}]
    /\ heapStart \in [Proc -> Nat]
    /\ brk \in [Proc -> Nat]
    /\ exits \in Nat
    /\ pc \in {"user", "create", "header", "loop", "walk", "enter", "shrink", "rollback"}
    /\ loop \in {"load", "stack", "grow"}
    /\ own \in Owner
    /\ segs \in Seq(Segment)
    /\ imageEnd \in Nat /\ page \in Nat /\ first \in Nat /\ last \in Nat /\ target \in Nat
    /\ hand \in Frame \cup {0}
    /\ lvl \in 0 .. 3
    /\ atCall \subseteq Frame
    /\ outcome \in {"none", "ok", "brk failed"} \cup SpawnError

\* No frame is in two places and none is lost: each is free, in the hand of the
\* call in progress, or at one entry of one table of a space that a later
\* destroy can reach. A slot in no use, and between calls the space under
\* construction, holds none.
FramesAccounted ==
    /\ LET owned == FramesOf(Owner)
           used == {x \in Owner \X Entry : tab[x[1]][x[2]] # 0}
       IN  /\ Cardinality(owned) = Cardinality(used)
           /\ owned \cap free = {} /\ hand \notin owned \cup free
           /\ Frame = owned \cup free \cup ({hand} \ {0})
    /\ \A p \in Proc : life[p] = "none" => tab[p] = Empty
    /\ pc = "user" => tab[Local] = Empty /\ hand = 0

\* Page v is to be mapped in the heap of process p: it is below the brk; inside a
\* heap call of p, the growing loop has passed it, or the loop that shrinks or rolls
\* back has not.
Expected(p, v) ==
    IF pc = "user" \/ own # p THEN v < PageAbove(brk[p])
    ELSE IF pc \in {"loop", "walk"} THEN v < page
    ELSE v < first \/ (page <= v /\ v < last)

\* At every moment, also while umem_brk grows, shrinks or rolls back, a live process
\* has of its heap exactly the pages it is to have, and its whole stack, and neither
\* the guard page nor the pages at address 0.
HeapMatchesBrk ==
    \A p \in Proc : life[p] = "alive" =>
        \A v \in Page :
            LET mapped == tab[p][At(0, v)] # 0 IN
            /\ v < ElfMin => ~mapped
            /\ v >= PageAbove(heapStart[p]) /\ v < StackBase => (mapped <=> Expected(p, v))
            /\ v = StackGuard => ~mapped
            /\ v >= StackBase => mapped

\* A live process keeps its image and its stack: whatever it asks of brk and
\* whatever other calls do, only pages of its own heap are ever unmapped, and
\* none is remapped to another frame.
OnlyHeapUnmapped ==
    [][\A p \in Proc, v \in Page :
        life[p] = "alive" /\ life'[p] = "alive" /\ tab[p][At(0, v)] # 0 =>
            \/ tab'[p][At(0, v)] = tab[p][At(0, v)]
            \/ /\ tab'[p][At(0, v)] = 0
               /\ own = p /\ v >= PageAbove(heapStart[p]) /\ v < StackGuard]_vars

\* A process_spawn that fails, at whatever allocation, gives every frame back.
FailedSpawnLeaksNothing ==
    [][outcome \notin SpawnError /\ outcome' \in SpawnError => atCall \subseteq free']_vars

\* A kernel call comes to its end: its loops make progress also when memory
\* runs out half way.
CallReturns == pc # "user" ~> pc = "user"
=============================================================================
