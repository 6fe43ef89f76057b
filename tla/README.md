# A verification project for NyxisOS

NyxisOS is a small x86-64 kernel in C: a boot loader, a single-CPU kernel with
a cooperative scheduler, user processes in address spaces of their own, system
calls with handles, a VFS with a FAT16 and a NyFS driver, and host-side tools
for NyFS. This directory holds TLA+ models of its core, the TLC configurations
that check them on small instances, and TLAPS proofs for instances of any size.
`PROJECT.json` maps every definition to the lines it models and lists the runs,
mutants, hazards, findings and theorems.

    tlc -workers 2 -config MCProcess.cfg MCProcess     # one run
    for m in Process Handles Memory Fat16 NyfsCore Vfs Nyfs; do tlapm ${m}Proofs.tla; done
    tlapm NatFacts.tla                                 # the proofs

## 1. Inventory

| component | state | operations | interacts with |
|---|---|---|---|
| process table, scheduler (`process/process.c`, `sched_rr.h`, `schedule.c`, `switch.s`) | `g_procs`, `process_list`, `current_process`, `g_next_pid`, the CPU's CR3 and TSS.rsp0 | create, create_user, switch, schedule, sleep, exit, terminate, reap, get_exit_code | destroys address spaces, closes handles, reads the timer tick |
| frame allocator (`mm/pfa.c`) | free list, counters | init, alloc, free | page tables, spawn, heap |
| user page tables (`paging/paging.c`) | PML4, PDPT, PD, PT frames of every space | create, map, unmap+free, destroy | allocator, reap, spawn, heap |
| spawn and ELF loader (`process/spawn.c`, `elf.c`) | the space under construction | header checks, segment loop, stack, hand-over to the process table | VFS (file contents), page tables, process table |
| user heap (`process/umem.c`) | `heap_start`, `heap_brk` | grow, shrink, rollback | page tables |
| handle table (`syscall/handles.c`) | slots with type, rights, generation | init, alloc, lookup, close, discard, close_all | VFS objects |
| system calls (`syscall/syscall.c`, `uaccess.c`) | none of its own | NxOpen ... NxVirtualAlloc | everything above |
| timer (`timer/pit/pit_base.c`) | `timer_tick` | one interrupt | scheduler |
| VFS (`filesystem/vfs.c`, `core.c`) | namespaces, mounts, the pools of dentries and vnodes, the tree of cached names | mount, unmount, register_namespace, open, reopen, close, read, write, create, mkdir, unlink, rename, readdir | drivers, handle table |
| NyFS (`filesystem/nyfs/nyfs.c`) | superblock, two bitmaps, inode table, extent chains, directory hash areas | format, mount, lookup, read, write, create, mkdir, unlink, rename | block drivers, VFS |
| FAT16 (`filesystem/fat16/fat16.c`), read-only | device slots, vnode data, handle data; the volume is only read | mount, unmount, lookup, open, read, close | block drivers, VFS |
| NyFS tools (`tools/nyfs-utils`) | the same disk format on a host file; owners, modes and access control lists | create, mkdir, unlink, write, truncate, rename, chmod, chown behind the FUSE callbacks; mkfs | libfuse |
| boot, console, graphics, library, block drivers | - | start-up, formatting, register I/O | - |

What is hard here. There is one CPU and **no preemption**: an interrupt only
counts ticks, and every call of the kernel runs to its end or to the point
where it calls the scheduler. So the difficulties are not data races but

* **sequences**: create, exit, terminate and reap in every order, with the CPU
  on a page table that a reap may want to tear down;
* **partial failure**: memory (or the handle table, or the disk) runs out in
  the middle of a loop that has already taken something;
* **stale names**: pids, handle generations and open-file objects used after
  the thing they named has gone;
* **limits**: counters that wrap, the guard page below the stack, a full table;
* **a cache that is never checked again**: a dentry answers for the disk until
  the call that changes the disk also changes the dentry;
* **input nobody wrote**: a FAT16 volume with a chain in a circle, a boot sector
  whose areas overlap;
* **liveness of a cooperative system**: a sleeper wakes only if somebody else
  walks past it.

What makes each part correct: the list and the slots agree and exactly the
current process runs, on its own stack and page table; every physical frame is
free or has exactly one owner; a heap is exactly the pages below `brk`; every
open driver object is in exactly one slot and a closed name stays dead; a file
system never uses a block it considers free; the cache of names never disagrees
with the disk; a driver never reads outside its volume; whoever is denied by an
access list changes nothing.

## 2. Modules

| module | models | composed of |
|---|---|---|
| `Process` | process table, scheduler, timer tick, close of files at the end of a process | |
| `ProcessProofs` | theorems about `Process` | extends `Process`, `TLAPS` |
| `Memory` | allocator, page tables, loader, spawn, heap, and the part of create/exit/reap that moves frames | |
| `MemoryProofs` | theorems about the frames of `Memory`, and the pages a process has mapped | extends `Memory`, `NatFacts`, `TLAPS` |
| `Handles` | handle table and the calls on it, chunked read and write | instantiates `HandleContract` |
| `HandleContract` | the abstract promise of the handle table | |
| `HandlesProofs` | theorems about `Handles`, with the refinement | extends `Handles`, `TLAPS` |
| `Nyfs` | NyFS driver: bitmaps, inodes, extent chains, directory areas, with every disk write a step | |
| `NyfsProofs` | theorems about `Nyfs` | extends `Nyfs`, `NatFacts`, `FiniteSetTheorems` |
| `Vfs` | VFS with NyFS behind it: namespaces, mounts, cache of names, pools, open files | the disk block by block is in `Nyfs`, transfers in `Handles` |
| `VfsProofs` | theorems about `Vfs` | extends `Vfs`, `NatFacts`, `FiniteSetTheorems` |
| `Fat16` | FAT16 driver over volumes of any content | |
| `Fat16Proofs` | theorems about `Fat16` | extends `Fat16`, `NatFacts`, `TLAPS` |
| `NatFacts` | lemmas on natural numbers: least elements, quotients and remainders, iteration | |
| `NyfsCore` | host library of NyFS with users, access lists and file contents | the writes one by one are in `Nyfs` |
| `NyfsCoreProofs` | theorems about `NyfsCore` | extends `NyfsCore`, `TLAPS` |
| `MCProcess`, `MCMemory`, `MCHandles`, `MCNyfs`, `MCVfs`, `MCFat16`, `MCNyfsCore` | values of the constants for TLC | extend the above |

### Process

One action per function of `process.c`. Each runs with interrupts off, so it is
one step; a call that gives the CPU away ends with the other process running.
`process_list` is kept as the stamp `order[s]` a slot got when it was linked at
the tail; `Ahead` is how far the round-robin walk of `sched_pick_next` goes to
reach a slot. `Create` includes the reap it begins with, `TerminateOther` the
reap it ends with. `Reaped` is the exact condition of `process_reap` (TERMINATED,
not current, pid not 0). `Panic` stands for the two `kernel_panic_simple` calls.
Kernel stacks are named by their slot; their contents are left out.

### Memory

One kernel call at a time; `pc` says where it is. Loops advance page by page and
the page-table walk level by level, so that the memory can run out at every
single allocation. An entry of a table is named by level and position, and
`Reached` is the descent of `paging_addrspace_destroy`: a frame whose parent
entry is missing is *not* given back, so losing one is something the model can
express. The free list is a set: the order in which frames are handed out makes
no difference to anybody. `Local` is the address space that `process_spawn`
keeps in a local variable until `process_create_user` takes it.

### Handles and HandleContract

A handle is the pair of generation and slot that `make_handle` packs. NxRead and
NxWrite are loops over `IO_CHUNK`; each chunk can end early, fail in the driver,
or fault in the copy, and a read has then already moved the offset, which the
code takes back by what was not copied. The contract says: a name is given to
one object, a new name can be read or written as was asked and no more, a copy
(of a file, which is opened again, as of the console) has those of the rights of
its original that were asked for, and a closed name never names anything again.
`KeepsContract` maps the table to it: the open slots as a function from handle
values to rights and object. What was asked for and which handle was copied is
nowhere in the table, so the history variable `grant` remembers it.

### Nyfs

A call frame `c` holds the operation in progress and the locals of the driver
functions on its stack; `pc` names the next write to the disk. The disk is the
block bitmap, the inode bitmap, the superblock's free counts, the inode table,
and, by the root block of a stream, its extent blocks (`chain`) and, for a
directory, its hash area (`area`). Allocation sets a bit in one step and writes
the superblock in the next; `nyfs_extent_append_one` allocates, writes the new
extent block or entry, and links it; `nyfs_dirhash_insert` writes record, name,
bucket and header. Between any two of these steps the disk may be full
(`DiskFull`), an access may fail (`IoFails`, with the code's error path in
`Failed` and `AfterError`) or the machine may stop (`Crash`, followed by
`nyfs_mount`, which reads what is on the disk).

Sizes are in units: a directory's header and its buckets take a unit each, a
record two (dirent and name), and its offset is its number. The number of
entries in a directory inode is kept in the copies of inodes that the functions
work on and write back later, as in the code. `NyfsRename` is `vfs_rename` and
`nyfs_rename` together: the walk of the dentries is what keeps a directory from
being moved below itself. `birth` and `orphan` are history: how often an inode
number was given out, and which inodes lost their name in a rename that could
not be undone.

### Vfs

Every call of `vfs.c` is one step, because nothing preempts it. `mem` holds the
three pools a path goes through: the dentries with their lists of children, the
vnodes, and the driver's vnode data. `Walk` is `resolve_path`: a name is taken from
the list of the dentry if it is there and looked up in the driver otherwise, and
then cached; every call is followed by the cache it leaves, also when it fails
on its way, which is what `GivesUp` is for. `Forget`, `CacheNew` and `Move`
are what unlink, create and rename do to the cache after the driver has changed
the disk. `vfs_free_vnode` does not tell the driver: `FreeVnode` keeps the driver's
data in use, as the code does. `birth` counts how often an inode number was
given out, so that an open handle can be told from the next file of that number.

The comments at `vfs.c:1241` and `nyfs.c:2124` are more pessimistic than the code. They call a
rename of a directory below one of its own subdirectories a known limitation, caught as far as
the cache of names reaches. The walk goes over the parents of a dentry that was just
resolved, and a dentry in the tree has all its parents cached: nothing is evicted but by an unlink or
a rename. So the walk catches every such rename: `DiskIsTree` and `NamesFormTree` hold, and
`DiskTreeSafe` proves it for every size.

### Fat16

The frame `c` is the call in progress, and each turn of a loop that reads the
disk is a step (`DiskReads`), which may fail (`DiskFails`). A volume is a boot
sector, a table and directories of any content: `Geometry` and `BootOk` are the
arithmetic and the checks of `fat16_mount`, `NthCluster` the walk along a chain with
its bound, `ClusterValid` the test that keeps it inside. A byte read is its
address on the disk, so reading the wrong one is something the model can
express. `Found` fills vnode data and may find its pool empty.

A handle survives the unmount of its volume, and a read through it uses what is in the device slot.
If the next volume is refused there, the slot is cleared and `fat16_file_read` divides by
zero: `Read` then goes to `pc = "panic"`, where nothing goes on. `StaleReads` says whether such a read
is tried; it is only in `fat16_stale`, the finding. Other reads of an unused slot fail,
because its `read` function is NULL (`DiskFails`).

### NyfsCore

One step per FUSE callback. What the library has beyond the driver is modelled:
`CheckAccess` (denials first, then allowances, then the UNIX mode),
`InheritAcl` with the flags `INHERIT_ONLY` and `NO_PROPAGATE` and the block a long
list overflows into, path walks that need `EXECUTE` on every directory, `chmod` and
`chown`. The disk fills up inside a call, and the call leaves what the code leaves
(`DiskFull`). Blocks have contents, and freed blocks keep them.

Data calls go by the inode number that libfuse keeps in `fh`, and `nyfs_read_inode` does not look
at the bitmap of inodes. That the inode is still in use is an assumption about libfuse, which is
external: without the option `hard_remove` it renames an open file that is unlinked and
unlinks it when it was released. `Write` and the others therefore ask for a file in use.

No call of the library sets an access list. Lists come with the volume, written by
other programs, so `Init` puts one from `Seed` on the root; everything below it is
what `create` and `mkdir` made of it.

In all modules a call that returns an error before it changed anything is a
stuttering step.

## 3. Runs

Each run asks one question of one module; `violation` runs are the findings of
section 5.

| run | shows |
|---|---|
| `process` | list = slots in use; one runner; the loaded page table is the current process's own and alive; spaces and files owned once; no panic; pids unique; nobody wakes early; the answer of `process_get_exit_code` for a pid never turns to another process; no runnable process is overtaken twice; whoever is ready or sleeps runs again (`WaiterRuns`) |
| `memory` | every frame is free or owned exactly once, none is lost (`FramesAccounted`); heap pages = pages below `brk`, and in the middle of a heap call those the loop has got to; shrinking and rollback unmap heap pages only; a failed spawn gives everything back; every spawn and heap call returns |
| `handles` | driver objects = file slots; stale handles refused; refinement of `HandleContract`, with the rights that were asked for and copied; the offset moves by the bytes reported, also after a fault; transfers end |
| `nyfs` | on a disk that fills up, with one failed access or one crash at any place but one: blocks keep one owner, sizes stay covered, names form a tree, lookups end; without a fault, every inode in use has a name and entry counts agree in inode, header and buckets between calls (`DiskInOrder`). Space may be lost: the code has no journal and says so |
| `nyfs_torn_free` (violation) | the one place: a crash between the bucket and the header of an insertion; a later insertion makes a record point to itself, and an unlinked name can be unlinked again |
| `nyfs_open_unlink` (violation) | a handle outlives its file and names the next file with that inode number |
| `vfs` | the cache never answers otherwise than the disk; every vnode belongs to one dentry or one mount; directories stay a tree; an open file keeps its vnode as long as the file exists; with pools that run out and a disk that is mounted again |
| `vfs_rename_self` (violation) | renaming a path to itself leaves a freed dentry in the directory's list |
| `fat16` | over volumes of every shape: no access outside its area of the volume; the bytes of a read are those of the chain, in order; pools balance after every failure; every call ends |
| `fat16_stale` (violation) | a read through a handle whose volume was unmounted, after the next one was refused in its slot, calculates with no geometry |
| `nyfs_core` | blocks are accounted for, a name has one inode, a child has exactly the list its ancestors pass on, files read back what was written, and a caller who is denied changes nothing |
| `nyfs_holes` (violation) | a write behind the end makes old contents of blocks readable |

### Bounds

* `process`: `ProcessMax = 4` (idle and three others), four creations and two
  ticks, two spaces and one file: enough for a slot to be reused, for two zombies
  at once and for sleepers of different deadlines. `PidModulus` is larger than the
  creations: the wrap of the pid counter is outside the checks.
* `memory`: 18 frames, tables of eight entries, pages of two bytes, so
  byte-to-page rounding matters. A space has page 0 unmapped, an image of one, three
  or five pages, the heap behind it, the guard page 6 and the stack at 7; it takes 6 to 10 frames,
  so a second process fits or runs out at every place of its spawn and of a heap
  call, and a third is built before it finds no slot. `MaxExit = 2`: two zombies and a reused slot.
* `handles`: `MaxHandles = 3`: the table is full with the console's handles, and files
  are opened and copied in slots of console handles that were closed. `GenModulus = 3`
  with `MaxReuse = 2`: a slot is used three times, so a file can be opened, closed, and a copy
  of another take its place. Two file objects of 2 bytes in chunks of 1, opened for reading or
  for both; a copy is asked to be read, which narrows one and would widen that of stdout.
* `nyfs`: 6 or 7 data blocks of 2 units, 3 inodes (the root and two more), two names
  in one bucket. A directory's area starts in one block and grows with every
  record, since records are not reused; the disk is full after a few operations,
  at every place of them. Two extents fit into an extent block, so extents are
  lengthened, added, and continued in a second extent block. Seven blocks are
  what a rename from one directory to another takes. `MaxBirth` bounds how often
  an inode number is given out, `MaxFault = 1` the faults. `KeepOpen` and `Torn`
  are FALSE except in the violation runs that are about them: `Torn = FALSE` leaves out
  a failed write of the header after the bucket as well as a crash there.
* `vfs`: 5 dentries, 4 vnodes, 5 vnode data, 2 handles, 3 inodes: each pool is
  smaller than what the paths and the two mounts can ask of it, so each runs out
  in the middle of a path. Paths have up to three names, which is what moving a directory below
  itself takes. Two files are made, the disk is mounted twice: the dentries of the
  first mount meet the second. It is the same disk both times. `SelfRename` is TRUE only in `vfs_rename_self`; `Remount` is
  FALSE in both (section 5).
* `fat16`: sectors of 4 bytes, two table entries or two directory entries each;
  up to three clusters. The volumes are all small boot sectors, all tables with
  chains of every shape (circles, ends, bad clusters, numbers outside), and files
  that start at no cluster. One device slot, three vnode data and one handle: the
  slot is reused by a second disk while a handle of the first is open. With one device and three
  vnode data `MountRoot` never finds the pool empty; `PoolsSafe` covers that. `StaleReads`
  is FALSE except in `fat16_stale`.
* `nyfs_core`: 7 blocks, 3 inodes, two names, root and one other user. Lists
  are one entry longer than the inode holds, with a denial for the root alone, for
  everything below, with each flag that changes on the way down, and for a group.
  Seven blocks let a list overflow again two levels below the root.

### Fairness

* `Process`: `WF(Tick)`, because the PIT fires for ever, and `WF(GiveUpCpu)`:
  a running process keeps coming back to the scheduler. The second one is what
  "cooperative" asks of every process, and the idle loop of `kernel.c` does it;
  nothing in the kernel enforces it for the others. The liveness result is
  conditional on it.
* `Memory`: `WF(KernelStep)`: a kernel call in progress runs on, since nothing
  preempts it.
* `Handles`: `WF(ReadChunk \/ WriteChunk)`: the same for a transfer.
* `Fat16`: weak fairness of the turns of a call in progress: again, nothing
  preempts it, and a disk answers or fails.

`Nyfs`, `Vfs` and `NyfsCore` state safety only; that a lookup in `Nyfs` ends is
`LookupsEnd`, an invariant: no chain of records runs in a circle.

## 4. Proofs

`ProcessProofs` proves, for any number of slots, pids, spaces, files,
creations and ticks:

* `TypeCorrect`: `Spec => []TypeOK`;
* `SchedulerSafe`: the list links exactly the slots in use, exactly the current
  process runs, on its own kernel stack;
* `LoadedSpaceSafe`, `SpacesSafe`, `FilesSafe`: the loaded page table is the
  current process's and alive; address spaces and open files have one owner;
* `PidsSafe` and `NeverPanics`, under `MaxCreate + 1 < PidModulus` (without it
  an ordinary process can get pid 0, and its exit panics);
* `SleepSafe`: nobody wakes before its deadline (an action property);
* `ListSafe`: the list links exactly the slots in use, no two at the same place;
* `ExitStatusSafe`, under the same bound on the pids: the answers about a pid go
  from busy to one code to not found, and never back;
* `RoundRobinSafe`: every switch that does not choose a ready process strictly
  shrinks the set of those that get the CPU before it.

The inductive invariant `TableInv` conjoins the type invariant with five of the
properties, because none is inductive alone: the loaded table stays alive
because a reap spares the process that runs, which is the current one; no other
slot frees that table because spaces have one owner; both need the list to name
exactly the slots in use. `PidInv` adds what is needed for the pids: all pids in
use are below `g_next_pid`, only the idle slot has pid 0, and the idle process
is ready whenever it does not run, so whoever ends finds somebody to run. The
lemmas follow the code: one for the switch, one for the reap, one for the
creation, and one step per action on top. `ExitStatusSafe` needs `PidInv` before and
after a step, so that `FindPid` finds the same slot, and what a step may do to one
slot (`SlotStep`). `RoundRobinSafe` needs that `Ahead` is a distance around the ring:
the one that is chosen is ahead of nobody that could have been, and distances from
it are the old ones less its own.

The assumptions are the named `ASSUME`s of `Process`: at least two slots, at
least two pids, the kernel's page table is none of the private ones.

`HandlesProofs` proves, for tables of any size, any objects, masks and modes, and
transfers of any length:

* `OpenedSafe`: the drivers have open exactly the files of open handles;
* `OffsetSafe`: the offset moves by the bytes reported, at every step of a transfer;
* `StaleSafe` and `ContractKept`, under `MaxReuse < GenModulus`: closed handles are
  refused, and `Handles` implements `HandleContract`, copies of files included.

Its inductive invariant adds to `OpenedMatchesTable` that an ended process has an
empty table, because `nx_handles_init` overwrites slots and closes nothing, and that
only file slots have driver objects. `ClosedIsOld` (the generation of a slot is above
that of every closed name of it) is what makes a stale handle fail, and it is where
the bound on the generations is needed: it breaks when a generation wraps. In the
refinement an open or a duplicate adds a name that is neither live nor dead, by
`ClosedIsOld`; a failed duplicate gives a free slot its next generation, which the
contract cannot see.

`MemoryProofs` proves, for any finite set of frames, any size of tables and pages,
programs of any segments and any number of processes:

* `TypeCorrect`: `Spec => []TypeOK`;
* `FramesSafe`: every frame is free, in the hand of the call in progress, or at
  exactly one entry of one table which `paging_addrspace_destroy` will reach;
* `FailedSpawnSafe`: a `process_spawn` that fails, wherever it fails, has given back
  every frame (an action property).

`TypeOK` alone is not inductive: a heap that shrinks keeps its addresses above zero
because of the limits that `elf.c` and `umem_brk` check (`LimitInv`). The frame
invariant `MemInv` says in addition that tables have no holes (`Closed`: an entry in
use has all its parents), which is what makes a destroy reach everything, how far the
walk of `paging_map_page` has linked tables for the page in hand, and which spaces
exist when. `SpawnKeeps` relates a spawn to its call: what was free then is free, in
hand, or in the space that is being built.

The second half of `MemoryProofs` adds what is mapped where:

* `HeapSafe`: the pages from the heap's start to the stack are exactly those below
  `brk`, also in the middle of a heap call of the process itself, where they are those up to
  where the loop has got to (`Expected`); nothing is mapped below the image or at the guard
  page, and the stack is whole;
* `OnlyHeapSafe`: whatever calls do, a live process keeps its image and its stack, and
  no page of it moves to another frame (an action property).

The inductive invariant `HeapInv` adds to this what the bounds of the loop are, in either
direction and in the rollback (`CallHeap`), and what a spawn has mapped so far (`LoadInv`).

`Fat16Proofs` proves, for disks of any number and content, any sector size, cluster size
and numbers of devices, vnodes and handles:

* `PoolsSafe`: a device is in use exactly when it has a root with its vnode, whichever
  step of a mount failed;
* `ReadsSafe`: no loop reads outside the part of the volume it is meant for;
* `ReadChainSafe`: a read hands out the bytes of the chain of its file, all of them and in
  order, and calls a file damaged only if the table has no chain as long as the read needs;
* `GeometrySafe`, under `~StaleReads`: whatever calculates with a geometry has one of a boot
  sector that passed the checks. So no other call than the read of the finding divides by zero.

The inductive invariant `FatInv` has four parts. `TypeInv` is the types, with a device
wherever one is referred to. `GeoInv`: the geometry of a volume that passed the checks of
`fat16_load_boot_sector` fits (`Fits`: areas behind each other, inside the volume, a
table with an entry for every cluster). `PoolInv` follows the root of a device through
the steps of a mount. `ReadInv`: the buffer of a read in progress holds, byte by byte, the
addresses that the chain gives (`Filled`), and a read that failed as damaged has met a
place without a cluster. `ReadChainSafe` then needs that the walk of
`fat16_get_nth_cluster` is the only chain there is (`ChainIsNth`, `ChainBefore`). `GeometrySafe`
adds `VerifiedInv` to it: a slot has either no geometry or one that was checked, and a read that
goes on has found one.

Arguments by induction are by the least counterexample (`NatFacts!LeastNatural`): the
recursive function in `NthCluster` exists and has one value at every step (`WalkExists`,
`WalkUnique`), a chain that has cluster number p has all before it.

`NyfsCoreProofs` proves, for volumes, names, users, access lists and files of any size:

* `CoreBlocks`: no block has two owners, and until a call meets a full disk nothing else is
  taken but the list blocks of removed inodes, which the code does not free;
* `CoreNames`: an inode in use other than the root has one name, and a name an inode in use,
  but for an inode whose rename met a full disk in the new directory and again in the old one;
* `CoreReads`: a file reads back what was written to it, whatever happens to others;
* `CoreAcl`: the list of an inode is what the flags of the root's list let through to it;
* `CoreDenied`: whom an entry of the root denies to write changes no file that it reaches
  and adds no name to such a directory (an action property).

Its invariant has a part for each. `BlockInv` says it of all inodes, the free ones included (they
own nothing), and that the blocks lost with removed inodes are still taken, so that none of
them is handed out. `NameInv` speaks of entries and not of their number: no two entries name one
inode, only directories have entries, the root has no name. `ReadInv` adds to
`ReadsBack` that the blocks of a file cover its size; a block that a file gets was nobody's, which
is where it needs `BlockInv`. `AclInv` describes the list of an inode as a set of copies by the
depth at which it was made (a rename moves an inode with its list) and needs to know that
the block of a long list is not written by anybody else. `CoreDenied` follows from
`AclInv`: the entry that denies is in the list of the file, before anything that allows.

`VfsProofs` proves, for pools, disks, paths and sets of names of any size:

* `CacheAgreesSafe`: while the disk is mounted, a cached name is the inode that the disk has
  under it, for every path that can be walked in the cache;
* `VnodesSafe`: a vnode in use has one dentry and one element of the driver's pool;
* `DiskTreeSafe`: the names on the disk stay a tree;
* `OpenFilesSafe`: an open file keeps its vnode as long as the disk has the file.

None of these is inductive, and they need each other. `Inv` has six parts. `PoolInv`: a free
dentry refers to nothing, lists hold dentries that name the list's owner as their parent, the
roots are in no list, nodes and their data are not shared. `CacheInv` is `CacheAgrees` for the
dentries below the roots of the namespaces (`Live`, the least set with the roots and the
children of its members), and says that no inode is cached twice: without that, an unlink
through one dentry would leave another. The root of `nyfs:` counts as the root of the disk
even while nothing is mounted, because its children stay in the cache across mounts
(`Expected`). `DiskInv`: an inode has one name, a free inode has no entries, and every
set of inodes that has the root and is closed under entries has every inode in use; said this
way, it is kept by a rename whenever the new parent is not below what moves
(`ParentStaysBelowRoot`), which is what the loop over cached parents establishes. `MountInv`,
`NsInv` and `HandleInv` relate the volume, the namespaces and the handles to these; the root of
a namespace that was registered may be freed, and is then a dentry without node and children
until it is used again. A call that gives up half-way leaves what its walk cached, so the walk
keeps all of this turn by turn (`EnterKeeps`, `WalkKeeps`), and every action goes on from
there.

The recursive functions of the model (`Walk`, `Ancestors`, `Reachable`, the names below the root)
are iterations: `IterationExists` gives the function, `IterationKeeps` carries an invariant along
it, and `ChainStops` shows that a growing chain of subsets of `1 .. N` stands still after `N`
turns, so that what is reached in that many turns is closed.

The theorems about `Vfs` assume `~SelfRename` and `~Remount`: with a rename of a path to itself,
or with a mount below `/` after one at `nyfs:/`, the properties are false of the code (section 5).

`NyfsProofs` proves, for disks, directories and names of any size, wherever the disk fills up,
an access fails or the machine stops:

* `LookupsReturn`: in every directory that a path leads to, the walk along a bucket ends;
* `BlocksHaveOneOwner`: the blocks of whatever a path leads to are marked as used and belong
  to one stream each, once;
* `SizesCovered`: a file has a block for every byte below its size;
* `NamesAreTree`: directory entries form a tree of allocated inodes, also between the writes
  of an operation.

They assume `~Torn` and `~KeepOpen`, since with either the properties are false of the code
(section 5).

What a path leads to changes with one write, the one of a bucket (`WriteSlot`, `RemoveSlot`):
before it a new file is on the disk and has no name, after it an unlinked one still is. So
the invariant `Inv` says that there is a set L of *whole* inodes: it has the root, is closed
under directory entries, and all of it is in order. It is a set from outside the
state because "what can be reached" is not kept write by write, while a set that is closed under
entries contains it (`ReachFacts`) and changes at just two writes: `WriteSlot` puts the new
inode in, `RemoveSlot` takes the unlinked one out. Whatever a failure or a crash leaves
unfinished is outside L and may be lost, but no more than that.

`WholeInv(L)` has seven parts. `TypeInv` is the types, with the first extent block of a
stream at its root. `PhaseInv` says which fields of the frame are set at which write. `AreaInv`: along
every bucket, the records in use are in order of their offsets and their names differ, and nothing behind
the header's next offset is referred to (while the header is still to be written, the new record). `NameInv`:
L has the root, entries of its directories name allocated inodes of L other than the root, no two
entries the same, and what is open is in L. `CallInv` relates the call to L: the
directory of an insertion, the inode that is being made or has lost its name, the place
where a rename goes on. `BlockInv`: the blocks of L's streams, of the stream that grows
(`Cur`), of the block in hand (`Held`) and of the list that is being freed (`Doomed`, `Left`) are
all marked as used and disjoint. `SizeInv`: what a file of L, or the copy of its inode
that is going to be written, says of its size is covered by its stream. The lemmas follow the writes:
allocation, growth of a stream, insertion, removal, release, and then one step per action.

The assumptions are again the named `ASSUME`s. `Memory`: `Frame` is finite and does not
contain 0, the value of an absent entry (the allocator never hands out frame 0, `pfa.c`).
`Fat16`: disks hold unsigned numbers, any of them (`VolumeAssumption`), and reads of no
bytes, which do nothing, are not tried (`ReadAssumption`). The fields of a boot sector are
8, 16 or 32 bits wide and proved about without a bound; no sum or product that the
driver forms of accepted fields (in `u64`, stored in `u32`) loses a bit.

Only model-checked:

* liveness (`WaiterRuns`, `CallReturns`, `TransferEnds`, `CallsEnd`): fairness is out of the
  prover's reach;
* `DiskInOrder` of `Nyfs`: no inode is lost, and the counts are right. Both hold only while nothing has failed, when
  no space is lost either: they need the number of entries of every directory, and of bits
  in every bitmap, at each of the writes of an operation, and each needs the other
  (`MayUnlink` removes a directory when its count is zero, and a count is right because no
  entry was lost). `HandlesKeepFile` and `FreedOnce` are findings.

## 5. Findings

Each is a `violation` run, described with its lines in `PROJECT.json`:

* `nyfs_torn_free`: `nyfs.c` promises that blocks are not freed twice, which the
  order of the last two writes of a directory insertion breaks.
* `nyfs_open_unlink`: `nyfs.c` promises that only `open()` leads to the contents of
  an inode; an open handle outlives its file.
* `vfs_rename_self`: `vfs.h` says that a rename to an existing path is refused; to
  the same path it is not, and its dentry and vnode are freed while in use.
* `fat16_stale`: `fat16.c` says that its arithmetic holds only once a boot sector has passed
  the checks; a read through a handle of an unmounted volume divides by the zero
  that a refused volume has left in the slot, and the kernel panics.
* `nyfs_holes`: the host library refuses to grow a file by truncation because the
  new part would have to read as zero; a write behind the end does the same thing.

Seen while modelling, without a run of its own: `umem.h:36` says that a failed heap
call gives back every frame; the page tables it made stay with the process until
it is reaped (`FramesAccounted` counts them as the process's own). `process_spawn` allocates
everything before `process_create_user` gets to the reap, so a spawn that runs out of memory
does not reclaim what terminated processes hold. `process.h:136` leaves that case to an
explicit `process_reap_terminated`, which only the self test calls. `vfs_free_vnode`
does not tell the driver, whose pool of vnode data loses an entry with every
unlinked name that was cached.

`nyfs_unmount` looks neither for open files nor for cached names. When a disk that was mounted at
`nyfs:/` is mounted at a name below `/` afterwards, the children of `nyfs:/` are still cached
(`vfs.c:763`) and answer for the disk a second time: a name that is removed through one mount
stays in the cache of the other. With `Remount = TRUE` and six dentries TLC finds `CacheAgrees`
violated; no comment or document says what such a mount should do.

Limits that come with the width of counters are outside the checks: after 2^32
creations an ordinary process gets the idle thread's pid and its exit panics;
after 2^32 closes of a slot an old handle is accepted again, and from generation
2^31 on a good handle is a negative return value.

## 6. Not modelled

* The boot loader, `boot.s`, multiboot parsing, console, graphics and string
  library: straight-line or formatting code; firmware calls.
* The block drivers and the PIC: register I/O. The file systems see them as reads
  and writes that may fail.
* Contents of kernel stacks and of user memory; the kernel's own bootstrap page
  tables; `NxStat`, `NxSysInfo` and `NxProcessInfo`, which change nothing; the copy
  routines of `uaccess.c`, which are the faults of `Handles`.
* NyFS driver: access control lists (its checks are those of `NyfsCore`, ported),
  the contents of files, `readdir`.
* NyFS tools: `readdir`, `utimens`, `statfs`, the formatting program; libfuse with
  several threads (the model is a mount with `-s`); damaged volumes.
* VFS: parsing of path strings; FAT16: the comparison of 8.3 names.
* `pfa_init` with overlapping regions of the firmware's memory map.

## 7. What is left

1. `DiskInOrder` of `Nyfs` as a theorem: the counts of entries and of free blocks, for
   behaviours without a fault.
2. The copy routines of `uaccess.c`, `pfa_init` with overlapping regions.
3. The host library with several threads, and its `readdir`.
