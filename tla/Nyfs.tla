-------------------------------- MODULE Nyfs --------------------------------
(***************************************************************************)
(* The NyFS driver, drivers/filesystem/nyfs/nyfs.c: block and inode        *)
(* bitmaps, the inode table, extent chains and directory hash areas, and   *)
(* the operations write, create, mkdir, unlink and rename on them.         *)
(*                                                                         *)
(* The kernel is cooperative, so operations do not overlap; c is the call  *)
(* frame of the one in progress. Each write that a later step can see is a *)
(* step of its own, so that the disk may fill up, a write may fail and the *)
(* machine may stop between any two of them. There is no journal. Calls    *)
(* refused before they write are stutters, and so are lookup, read, stat   *)
(* and readdir.                                                            *)
(*                                                                         *)
(* Sizes are counted in units. A directory area starts with its header and *)
(* its buckets, one unit each; record k is the units 2k (the dirent) and   *)
(* 2k + 1 (the name), and its offset is represented by k. Left out: access *)
(* control (no operation can set an ACE, so nyfs_inherit_acl copies        *)
(* nothing), contents of files, and link_count, which is always 1.         *)
(***************************************************************************)
EXTENDS Integers, Sequences, FiniteSets

CONSTANTS
    NBlocks,        \* blocks behind the metadata
    NInodes,        \* sb.inode_count - 1: inode 0 is reserved
    Name,           \* names of directory entries
    BucketOf,       \* [Name -> bucket], nyfs_hash_name % bucket_count
    BlockUnits,     \* block_size, in units
    MaxExtents,     \* extents that fit into an extent block
    FileEnd,        \* offset + size of the writes that are tried
    MaxHandles,     \* NYFS_MAX_HANDLES
    KeepOpen,       \* may a file be open when it is unlinked?
    Torn,           \* may a fault hit between the last two writes of an insertion?
    MaxBirth,       \* bound: how often an inode number is given out
    MaxFault        \* bound: failures of the disk, and crashes

Block == 1 .. NBlocks
Ino   == 1 .. NInodes
Root  == 1                      \* NYFS_ROOT_INO
None  == 0                      \* NYFS_BLKNO_NONE, NYFS_INO_NONE, end of a bucket
Bucket == {BucketOf[n] : n \in Name}

\* nyfs_extent_write_at: the blocks a stream of u units needs.
BlocksFor(u) == (u + BlockUnits - 1) \div BlockUnits

ASSUME SizeAssumption ==
    /\ NBlocks \in Nat /\ NInodes \in Nat \ {0}
    /\ BlockUnits \in Nat /\ BlockUnits >= 2 /\ NBlocks >= 2
    /\ MaxExtents \in Nat \ {0} /\ MaxHandles \in Nat
    /\ FileEnd \subseteq Nat \ {0}
ASSUME NameAssumption == DOMAIN BucketOf = Name
ASSUME BoundAssumption ==
    MaxBirth \in Nat /\ MaxFault \in Nat /\ {KeepOpen, Torn} \subseteq BOOLEAN

VARIABLES
    bmap,       \* disk: blocks whose bit is set
    imap,       \* disk: inodes whose bit is set
    sbDisk,     \* disk: the free counts in the superblock
    itab,       \* disk: [Ino -> inode]
    chain,      \* disk: [Block -> extent blocks of the stream with this root]
    area,       \* disk: [Block -> directory hash area of the stream with this root]
    sb,         \* memory: the cached superblock
    open,       \* memory: <<inode, birth>> of the open handles
    birth,      \* history: how often an inode was allocated
    orphan,     \* history: inodes whose rename could not be undone
    c,          \* memory: the call in progress
    faults

disk == <<bmap, imap, sbDisk, itab, chain, area>>
env  == <<open, birth, orphan, faults>>
vars == <<disk, sb, env, c>>

NoInode == [type |-> "NONE", data |-> None, size |-> 0, dir |-> None, count |-> 0]
EmptyArea == [count |-> 0, next |-> 1, head |-> [b \in Bucket |-> None], rec |-> <<>>]

\* The frame of a driver call: pc, operation, arguments, the copies on its stack
\* of the file's inode and of directory inodes, and the locals of the extent and
\* the directory functions.
NoCall ==
    [pc |-> "idle", op |-> "none", dir |-> None, name |-> None, dir2 |-> None,
     name2 |-> None, ino |-> None, node |-> NoInode, end |-> 0,
     copy |-> [i \in Ino |-> NoInode],
     root |-> None, need |-> 0, ret |-> "idle", data |-> None, ext |-> None,
     idx |-> 0, todo |-> <<>>, cont |-> "idle"]

Goto(p) == IF p = "idle" THEN NoCall ELSE [c EXCEPT !.pc = p]

\* nyfs_format: an empty root directory, its area in block 1, listed in block 2.
Init ==
    /\ bmap = {1, 2} /\ imap = {Root}
    /\ sb = [blocks |-> NBlocks - 2, inodes |-> NInodes - 1] /\ sbDisk = sb
    /\ itab = [i \in Ino |-> IF i = Root THEN [NoInode EXCEPT !.type = "DIR", !.dir = 2]
                                         ELSE NoInode]
    /\ chain = [b \in Block |-> IF b = 2 THEN <<[blk |-> 2, data |-> <<1>>]>> ELSE <<>>]
    /\ area = [b \in Block |-> EmptyArea]
    /\ open = {} /\ orphan = {} /\ birth = [i \in Ino |-> 0]
    /\ c = NoCall /\ faults = 0

(***************************************************************************)
(* Extent chains                                                           *)
(***************************************************************************)
\* The data blocks that the extent blocks in s list.
DataCount(s) ==
    LET sum[k \in 0 .. Len(s)] == IF k = 0 THEN 0 ELSE sum[k - 1] + Len(s[k].data)
    IN  sum[Len(s)]

\* nyfs_extent_total_blocks
Total(r) == IF r = None THEN 0 ELSE DataCount(chain[r])

\* The order in which nyfs_free_extent_chain frees: the data of an extent
\* block, then the extent block.
Flat(s) ==
    LET flat[k \in 0 .. Len(s)] ==
            IF k = 0 THEN <<>> ELSE flat[k - 1] \o s[k].data \o <<s[k].blk>>
    IN  flat[Len(s)]

ChainBlocks(r) == IF r = None THEN <<>> ELSE Flat(chain[r])

\* The extents an extent block needs for the data blocks in s.
Extents(s) == Cardinality({k \in DOMAIN s : k = 1 \/ s[k] # s[k - 1] + 1})

\* The first clear bit, which nyfs_alloc_block takes.
FirstFree == CHOOSE b \in Block \ bmap : \A x \in Block \ bmap : b <= x

\* How nyfs_extent_append_one goes on with the data block b: it makes an extent
\* block, lengthens the last extent, or adds an extent.
AfterData(b) ==
    IF c.root = None THEN "ext"
    ELSE LET last == chain[c.root][Len(chain[c.root])].data
         IN  IF last[Len(last)] + 1 = b THEN "link"
             ELSE IF Extents(last) < MaxExtents THEN "entry" ELSE "ext"

\* nyfs_alloc_block: the bit is set here, the superblock is written next.
AllocBlock ==
    /\ \/ c.pc = "grow" /\ Total(c.root) < c.need
       \/ c.pc = "ext"
    /\ bmap # Block
    /\ bmap' = bmap \cup {FirstFree}
    /\ sb' = [sb EXCEPT !.blocks = @ - 1]
    /\ c' = IF c.pc = "grow"
              THEN [c EXCEPT !.pc = "flush", !.data = FirstFree, !.ext = None,
                             !.cont = AfterData(FirstFree)]
              ELSE [c EXCEPT !.pc = "flush", !.ext = FirstFree, !.cont = "prep"]
    /\ UNCHANGED <<imap, sbDisk, itab, chain, area, env>>

FlushSuperblock ==
    /\ c.pc = "flush"
    /\ sbDisk' = sb
    /\ c' = Goto(c.cont)
    /\ UNCHANGED <<bmap, imap, itab, chain, area, sb, env>>

\* The new extent block is written; as the first of its stream it is the root.
WriteExtentBlock ==
    /\ c.pc = "prep"
    /\ IF c.root = None
         THEN /\ chain' = [chain EXCEPT ![c.ext] = <<[blk |-> c.ext, data |-> <<c.data>>]>>]
              /\ c' = [c EXCEPT !.pc = "grow", !.root = c.ext]
         ELSE UNCHANGED chain /\ c' = Goto("link")
    /\ UNCHANGED <<bmap, imap, sbDisk, itab, area, sb, env>>

\* A new extent is written behind the ones the header counts.
WriteEntry == c.pc = "entry" /\ c' = Goto("link") /\ UNCHANGED <<disk, sb, env>>

\* The write that makes the new block part of the stream: the length of the
\* last extent, the number of extents, or the link to the new extent block.
Linked(s) ==
    IF c.ext # None THEN Append(s, [blk |-> c.ext, data |-> <<c.data>>])
    ELSE [s EXCEPT ![Len(s)].data = Append(@, c.data)]

LinkBlock ==
    /\ c.pc = "link"
    /\ chain' = [chain EXCEPT ![c.root] = Linked(@)]
    /\ c' = Goto("grow")
    /\ UNCHANGED <<bmap, imap, sbDisk, itab, area, sb, env>>

Grown ==
    /\ c.pc = "grow" /\ Total(c.root) >= c.need
    /\ c' = Goto(c.ret)
    /\ UNCHANGED <<disk, sb, env>>

\* Start of nyfs_extent_write_at for a range that ends at unit u.
Grow(f, r, u, ret) == [f EXCEPT !.pc = "grow", !.root = r, !.need = BlocksFor(u), !.ret = ret]

(***************************************************************************)
(* What a failure in the middle of an operation leads to.                  *)
(***************************************************************************)
\* Mutant: a write carries on after its error.
FailedWriteGoesOn == IF c.op = "write" THEN Goto("inode") ELSE NoCall

\* Mutant: a create gives its inode back also when the name is visible already.
FailedFreesNamed ==
    IF c.op \in {"create", "mkdir"} /\ c.ino # None THEN Goto("ifree")
    ELSE IF c.op = "restore" /\ c.pc # "dinode" THEN Goto("dinode") ELSE NoCall

Failed ==
    CASE c.op \in {"create", "mkdir"} /\ c.ino # None /\ c.pc # "dinode" -> Goto("ifree")
      [] c.op = "rename" /\ c.pc \notin {"unslot", "unheader", "dinode", "dinode2"} ->
             [c EXCEPT !.op = "restore", !.pc = "insert"]
      [] c.op = "restore" /\ c.pc # "dinode" -> Goto("dinode")
      [] OTHER -> NoCall

\* Mutant: the extent block at the root of the stream is freed as well.
CleanupFreesRoot(bs) ==
    [c EXCEPT !.pc = "undo", !.todo = IF c.root = None THEN bs ELSE Append(bs, c.root)]

\* The blocks just allocated are given back first.
Cleanup(bs) == [c EXCEPT !.pc = "undo", !.todo = bs]

\* History: the old name could not be restored.
Orphaned ==
    orphan' = IF c.op = "restore" /\ c.pc # "dinode" THEN orphan \cup {c.ino} ELSE orphan

UndoDone ==
    /\ c.pc = "undo" /\ c.todo = <<>>
    /\ c' = Failed /\ Orphaned
    /\ UNCHANGED <<disk, sb, open, birth, faults>>

DiskFull ==
    /\ \/ c.pc = "grow" /\ Total(c.root) < c.need /\ bmap = Block /\ c' = Failed /\ Orphaned
       \/ c.pc = "ext" /\ bmap = Block /\ c' = Cleanup(<<c.data>>) /\ UNCHANGED orphan
       \/ c.pc = "ialloc" /\ imap = Ino /\ c' = NoCall /\ UNCHANGED orphan
    /\ UNCHANGED <<disk, sb, open, birth, faults>>

FreeBlock ==
    /\ c.pc \in {"undo", "free", "free2"} /\ c.todo # <<>>
    /\ bmap' = bmap \ {Head(c.todo)}
    /\ sb' = [sb EXCEPT !.blocks = @ + 1]
    /\ c' = [c EXCEPT !.todo = Tail(@), !.pc = "flush", !.cont = c.pc]
    /\ UNCHANGED <<imap, sbDisk, itab, chain, area, env>>

FirstInode == CHOOSE i \in Ino \ imap : \A x \in Ino \ imap : i <= x

AllocInode ==
    /\ c.pc = "ialloc" /\ imap # Ino
    /\ LET i == FirstInode
           new == [NoInode EXCEPT !.type = IF c.op = "mkdir" THEN "DIR" ELSE "FILE"]
       IN  /\ imap' = imap \cup {i}
           /\ birth' = [birth EXCEPT ![i] = @ + 1]
           /\ c' = [c EXCEPT !.pc = "flush", !.ino = i, !.node = new,
                             !.cont = IF c.op = "mkdir" THEN "mkarea" ELSE "child"]
    /\ sb' = [sb EXCEPT !.inodes = @ - 1]
    /\ UNCHANGED <<bmap, sbDisk, itab, chain, area, open, orphan, faults>>

FreeInode ==
    /\ c.pc = "ifree"
    /\ imap' = imap \ {c.ino}
    /\ sb' = [sb EXCEPT !.inodes = @ + 1]
    /\ c' = [c EXCEPT !.pc = "flush", !.cont = "idle"]
    /\ UNCHANGED <<bmap, sbDisk, itab, chain, area, env>>

(***************************************************************************)
(* Directory areas                                                         *)
(***************************************************************************)
\* The walk of a bucket: the k-th record of it, None after its end.
Walk(a, n) ==
    LET at[k \in 0 .. Len(a.rec)] ==
            IF k = 0 THEN a.head[BucketOf[n]]
            ELSE IF at[k - 1] = None THEN None ELSE a.rec[at[k - 1]].next
    IN  at

\* name_hash and name_len agree, and then the bytes of the name.
Matches(r, n) == r.hash = n /\ r.name = n

\* Steps of the walk at which record n is found.
Hits(a, n) ==
    LET w == Walk(a, n)
    IN  {k \in DOMAIN w : w[k] # None /\ Matches(a.rec[w[k]], n)}

\* nyfs_dirhash_lookup returns: it finds the name or the end of the bucket.
LookupEnds(a, n) == Hits(a, n) # {} \/ Walk(a, n)[Len(a.rec)] = None

FirstHit(a, n) == LET h == Hits(a, n) IN CHOOSE k \in h : \A x \in h : k <= x

\* nyfs_dirhash_lookup: the inode under name n in the area a, or None.
Lookup(a, n) == IF Hits(a, n) = {} THEN None ELSE a.rec[Walk(a, n)[FirstHit(a, n)]].ino

AreaOf(d) == area[itab[d].dir]

\* Inodes with a path from i. Names found in a directory are its children.
Children(d) ==
    IF itab[d].type = "DIR" THEN {Lookup(AreaOf(d), n) : n \in Name} \ {None} ELSE {}
Below(i) ==
    LET reach[k \in 0 .. NInodes] ==
            IF k = 0 THEN {i} ELSE reach[k - 1] \cup UNION {Children(d) : d \in reach[k - 1]}
    IN  reach[NInodes]

\* Records are put at index k, over what a stopped insertion may have left.
Put(s, k, r) == [j \in 1 .. (IF k > Len(s) THEN k ELSE Len(s)) |-> IF j = k THEN r ELSE s[j]]

\* nyfs_dirhash_create, in two writes.
MakeArea ==
    /\ c.pc = "mkarea"
    /\ c' = Grow(c, None, 1, "areahead")
    /\ UNCHANGED <<disk, sb, env>>

WriteAreaHeader ==
    /\ c.pc = "areahead"
    /\ area' = [area EXCEPT ![c.root] = EmptyArea]
    /\ c' = Grow(c, c.root, 2, "buckets")
    /\ UNCHANGED <<bmap, imap, sbDisk, itab, chain, sb, env>>

WriteBuckets ==
    /\ c.pc = "buckets"
    /\ c' = [c EXCEPT !.pc = "child", !.node.dir = c.root]
    /\ UNCHANGED <<disk, sb, env>>

\* nyfs_write_inode of the new inode.
WriteChild ==
    /\ c.pc = "child"
    /\ itab' = [itab EXCEPT ![c.ino] = c.node]
    /\ c' = Goto("insert")
    /\ UNCHANGED <<bmap, imap, sbDisk, chain, area, sb, env>>

\* Where nyfs_dirhash_insert puts the name: a rename inserts into dir2.
InDir == IF c.op = "rename" THEN c.dir2 ELSE c.dir
InName == IF c.op = "rename" THEN c.name2 ELSE c.name

\* nyfs_dirhash_insert reads the header and the head of the bucket.
BeginInsert ==
    /\ c.pc = "insert"
    /\ LET r == c.copy[InDir].dir
       IN  c' = Grow([c EXCEPT !.idx = area[r].next], r, 2 * area[r].next + 1, "dirent")
    /\ UNCHANGED <<disk, sb, env>>

WriteDirent ==
    /\ c.pc = "dirent"
    /\ area' = [area EXCEPT ![c.root].rec =
                   Put(@, c.idx, [ino |-> c.ino, next |-> area[c.root].head[BucketOf[InName]],
                                  hash |-> InName,
                                  name |-> IF c.idx \in DOMAIN @ THEN @[c.idx].name ELSE None])]
    /\ c' = Grow(c, c.root, 2 * c.idx + 2, "name")
    /\ UNCHANGED <<bmap, imap, sbDisk, itab, chain, sb, env>>

WriteName ==
    /\ c.pc = "name"
    /\ area' = [area EXCEPT ![c.root].rec[c.idx].name = InName]
    /\ c' = Goto("slot")
    /\ UNCHANGED <<bmap, imap, sbDisk, itab, chain, sb, env>>

\* The bucket points to the record: the name is visible from here on.
WriteSlot ==
    /\ c.pc = "slot"
    /\ area' = [area EXCEPT ![c.root].head[BucketOf[InName]] = c.idx]
    /\ c' = Goto("header")
    /\ UNCHANGED <<bmap, imap, sbDisk, itab, chain, sb, env>>

\* Mutant: the header does not move past the record.
WriteHeaderStays ==
    /\ c.pc = "header"
    /\ area' = [area EXCEPT ![c.root].count = @ + 1]
    /\ c' = [c EXCEPT !.pc = "dinode", !.copy[InDir].count = area[c.root].count + 1]
    /\ UNCHANGED <<bmap, imap, sbDisk, itab, chain, sb, env>>

\* The header moves past the record and counts it.
WriteHeader ==
    /\ c.pc = "header"
    /\ area' = [area EXCEPT ![c.root].next = c.idx + 1, ![c.root].count = @ + 1]
    /\ c' = [c EXCEPT !.pc = "dinode", !.copy[InDir].count = area[c.root].count + 1]
    /\ UNCHANGED <<bmap, imap, sbDisk, itab, chain, sb, env>>

\* The link to the record, in the bucket or in the record before it, skips it.
Unhooked(a, n) ==
    LET w == Walk(a, n)
        k == FirstHit(a, n)
        after == a.rec[w[k]].next
    IN  IF k = 0 THEN [a EXCEPT !.head[BucketOf[n]] = after]
                 ELSE [a EXCEPT !.rec[w[k - 1]].next = after]

\* nyfs_dirhash_remove: the record is taken out of its bucket ...
RemoveSlot ==
    /\ c.pc = "unslot"
    /\ area' = [area EXCEPT ![c.copy[c.dir].dir] = Unhooked(@, c.name)]
    /\ c' = Goto("unheader")
    /\ UNCHANGED <<bmap, imap, sbDisk, itab, chain, sb, env>>

\* Mutant: the count in the directory's inode is forgotten.
RemoveHeaderStale ==
    /\ c.pc = "unheader"
    /\ area' = [area EXCEPT ![c.copy[c.dir].dir].count = @ - 1]
    /\ c' = Goto(IF c.op = "rename" THEN "insert" ELSE "dinode")
    /\ UNCHANGED <<bmap, imap, sbDisk, itab, chain, sb, env>>

\* ... and then no longer counted.
RemoveHeader ==
    /\ c.pc = "unheader"
    /\ LET r == c.copy[c.dir].dir
       IN  /\ area' = [area EXCEPT ![r].count = @ - 1]
           /\ c' = [c EXCEPT !.pc = IF c.op = "rename" THEN "insert" ELSE "dinode",
                             !.copy[c.dir].count = area[r].count - 1]
    /\ UNCHANGED <<bmap, imap, sbDisk, itab, chain, sb, env>>

\* nyfs_write_inode of the directory; a rename writes the other one as well, an
\* unlink goes on to free what the name stood for.
WriteDirInode ==
    /\ c.pc = "dinode"
    /\ itab' = [itab EXCEPT ![c.dir] = c.copy[c.dir]]
    /\ c' = CASE c.op = "unlink" -> [c EXCEPT !.pc = "free",
                                              !.todo = ChainBlocks(c.node.dir)]
              [] c.op = "rename" /\ c.dir # c.dir2 -> Goto("dinode2")
              [] OTHER -> NoCall
    /\ UNCHANGED <<bmap, imap, sbDisk, chain, area, sb, env>>

WriteDirInode2 ==
    /\ c.pc = "dinode2"
    /\ itab' = [itab EXCEPT ![c.dir2] = c.copy[c.dir2]]
    /\ c' = NoCall
    /\ UNCHANGED <<bmap, imap, sbDisk, chain, area, sb, env>>

\* The directory area is freed, then the data stream, then the inode.
FreeNext ==
    /\ c.todo = <<>>
    /\ \/ c.pc = "free" /\ c' = [c EXCEPT !.pc = "free2",
                                          !.todo = ChainBlocks(c.node.data)]
       \/ c.pc = "free2" /\ c' = Goto("ifree")
    /\ UNCHANGED <<disk, sb, env>>

(***************************************************************************)
(* The operations                                                          *)
(***************************************************************************)
Idle == c.pc = "idle"
OpenInodes == {h[1] : h \in open}

\* Files and directories that a path leads to.
Reachable == Below(Root)
Dirs == {d \in Reachable : itab[d].type = "DIR"}

\* The driver calls read the inodes they need into copies on the stack.
Call(op) == [NoCall EXCEPT !.op = op, !.copy = itab]

NyfsOpen(i) ==
    /\ Idle /\ i \in Reachable /\ Cardinality(open) < MaxHandles
    /\ open' = open \cup {<<i, birth[i]>>}
    /\ UNCHANGED <<disk, sb, c, birth, orphan, faults>>

NyfsClose(h) ==
    /\ Idle
    /\ open' = open \ {h}
    /\ UNCHANGED <<disk, sb, c, birth, orphan, faults>>

NyfsWrite(i, end) ==
    /\ Idle /\ i \in OpenInodes
    /\ c' = Grow([Call("write") EXCEPT !.ino = i, !.node = itab[i], !.end = end], itab[i].data, end, "data")
    /\ UNCHANGED <<disk, sb, env>>

WriteData == c.pc = "data" /\ c' = Goto("inode") /\ UNCHANGED <<disk, sb, env>>

\* The end of nyfs_write: root and size of the file.
WriteInode ==
    /\ c.pc = "inode"
    /\ itab' = [itab EXCEPT ![c.ino] =
                   [c.node EXCEPT !.data = c.root, !.size = IF c.end > @ THEN c.end ELSE @]]
    /\ c' = NoCall
    /\ UNCHANGED <<bmap, imap, sbDisk, chain, area, sb, env>>

NyfsMake(op, d, n) ==
    /\ Idle /\ d \in Dirs
    /\ LookupEnds(AreaOf(d), n) /\ Lookup(AreaOf(d), n) = None
    /\ imap # Ino => birth[FirstInode] < MaxBirth
    /\ c' = [Call(op) EXCEPT !.pc = "ialloc", !.dir = d, !.name = n]
    /\ UNCHANGED <<disk, sb, env>>

\* Mutant: directories with entries may be unlinked.
UnlinkAnything(t) == TRUE

\* A directory must be empty, by the count in its inode.
MayUnlink(t) == itab[t].type = "DIR" => itab[t].count = 0

NyfsUnlink(d, n) ==
    /\ Idle /\ d \in Dirs /\ LookupEnds(AreaOf(d), n)
    /\ LET t == Lookup(AreaOf(d), n)
       IN  /\ t # None /\ itab[t].type # "NONE"
           /\ MayUnlink(t)
           /\ KeepOpen \/ t \notin OpenInodes
           /\ c' = [Call("unlink") EXCEPT !.pc = "unslot", !.dir = d, !.name = n,
                                          !.ino = t, !.node = itab[t]]
    /\ UNCHANGED <<disk, sb, env>>

\* vfs_rename and nyfs_rename together. The VFS has the path to d2 in its
\* dentries, and refuses to move a directory below itself.
NotBelow(t, d) == d \notin Below(t)

NyfsRename(d, n, d2, n2) ==
    /\ Idle /\ {d, d2} \subseteq Dirs /\ <<d, n>> # <<d2, n2>>
    /\ LookupEnds(AreaOf(d), n) /\ LookupEnds(AreaOf(d2), n2)
    /\ LET t == Lookup(AreaOf(d), n)
       IN  /\ t # None /\ NotBelow(t, d2)
           /\ Lookup(AreaOf(d2), n2) = None
           /\ c' = [Call("rename") EXCEPT !.pc = "unslot", !.dir = d, !.name = n,
                                          !.dir2 = d2, !.name2 = n2, !.ino = t]
    /\ UNCHANGED <<disk, sb, env>>

(***************************************************************************)
(* Failures of the disk, and crashes                                       *)
(***************************************************************************)
\* Between WriteSlot and WriteHeader the name is visible in a record that the
\* header counts as free space.
FaultHere == c.pc = "header" => Torn

\* The error paths of the code: what was allocated is given back, or not; frees
\* that fail are ignored, except that the rest of a chain is given up.
AfterError ==
    CASE c.pc = "flush" /\ c.cont \in {"undo", "idle"} -> Goto(c.cont)
      [] c.pc = "flush" /\ c.cont \in {"free", "free2"} ->
             [c EXCEPT !.pc = c.cont, !.todo = <<>>]
      [] c.pc = "flush" /\ c.cont \in {"child", "mkarea"} -> NoCall
      [] c.pc = "flush" /\ c.cont = "prep" -> Cleanup(<<c.data>>)
      [] c.pc \in {"ext", "entry"} -> Cleanup(<<c.data>>)
      [] c.pc = "prep" -> Cleanup(<<c.data, c.ext>>)
      [] c.pc = "undo" -> [c EXCEPT !.todo = Tail(@)]
      [] c.pc \in {"free", "free2"} -> [c EXCEPT !.todo = <<>>]
      [] c.pc \in {"ialloc", "ifree", "data", "inode"} -> NoCall
      [] OTHER -> Failed

\* A disk access fails: the write of this step, or a read before it. The reads
\* before a link have an error path of their own.
IoFails ==
    /\ faults < MaxFault /\ FaultHere /\ c.pc \notin {"idle", "mkarea"}
    /\ ~(c.pc = "undo" /\ c.todo = <<>>)
    /\ faults' = faults + 1
    /\ \/ c.pc = "link" /\ c.ext = None /\ c' = Cleanup(<<c.data>>)
       \/ c' = AfterError
    /\ Orphaned
    /\ UNCHANGED <<disk, sb, open, birth>>

\* The machine stops. nyfs_mount finds what is on the disk.
Crash ==
    /\ faults < MaxFault /\ FaultHere
    /\ faults' = faults + 1
    /\ c' = NoCall /\ sb' = sbDisk /\ open' = {}
    /\ UNCHANGED <<disk, birth, orphan>>

DriverStep ==
    \/ AllocBlock \/ FlushSuperblock \/ WriteExtentBlock \/ WriteEntry \/ LinkBlock \/ Grown
    \/ UndoDone \/ DiskFull \/ FreeBlock \/ AllocInode \/ FreeInode
    \/ MakeArea \/ WriteAreaHeader \/ WriteBuckets \/ WriteChild
    \/ BeginInsert \/ WriteDirent \/ WriteName \/ WriteSlot \/ WriteHeader
    \/ RemoveSlot \/ RemoveHeader \/ WriteDirInode \/ WriteDirInode2 \/ FreeNext
    \/ WriteData \/ WriteInode

Next ==
    \/ DriverStep
    \/ \E i \in Ino : NyfsOpen(i) \/ \E end \in FileEnd : NyfsWrite(i, end)
    \/ \E h \in open : NyfsClose(h)
    \/ \E d \in Ino, n \in Name :
          \/ NyfsMake("create", d, n) \/ NyfsMake("mkdir", d, n)
          \/ NyfsUnlink(d, n)
          \/ \E d2 \in Ino, n2 \in Name : NyfsRename(d, n, d2, n2)
    \/ IoFails \/ Crash

Spec == Init /\ [][Next]_vars
-----------------------------------------------------------------------------
(***************************************************************************)
(* Properties                                                              *)
(***************************************************************************)
\* Bitmaps, counts, inodes, extent blocks and records stay within the disk; the
\* free counts never leave their range, where the code's u64 would wrap.
TypeOK ==
    /\ bmap \subseteq Block /\ imap \subseteq Ino
    /\ {sb, sbDisk} \subseteq [blocks : 0 .. NBlocks, inodes : 0 .. NInodes]
    /\ \A i \in Ino :
          /\ itab[i].type \in {"NONE", "FILE", "DIR"}
          /\ {itab[i].data, itab[i].dir} \subseteq Block \cup {None}
          /\ {itab[i].size, itab[i].count} \subseteq Nat
    /\ \A b \in Block :
          /\ \A k \in DOMAIN chain[b] :
                chain[b][k].blk \in Block /\ chain[b][k].data \in Seq(Block) \ {<<>>}
          /\ area[b].count \in Nat /\ area[b].next \in Nat
          /\ \A k \in DOMAIN area[b].rec :
                area[b].rec[k].ino \in Ino /\ area[b].rec[k].next \in DOMAIN area[b].rec \cup {None}
    /\ open \subseteq Ino \X Nat /\ orphan \subseteq Ino

Stream == {"data", "dir"}
RangeOf(s) == {s[k] : k \in DOMAIN s}
BlocksOf(i, f) == RangeOf(ChainBlocks(itab[i][f]))

\* Whatever a path leads to sits in blocks that are marked as used, no two
\* streams share a block and no stream has a block twice: the allocator never
\* hands out a block in use. Also in the middle of an operation, and after a
\* crash at any point.
BlocksOwnedOnce ==
    LET streams == Reachable \X Stream
        blocks == [s \in streams |-> BlocksOf(s[1], s[2])]
    IN  \A s \in streams :
            /\ blocks[s] \subseteq bmap
            /\ Cardinality(blocks[s]) = Len(ChainBlocks(itab[s[1]][s[2]]))
            /\ \A t \in streams \ {s} : blocks[s] \cap blocks[t] = {}

\* nyfs_read finds a block for every byte below the size of a file, also when
\* a write was cut short.
SizeCovered == \A i \in Reachable : itab[i].size <= Total(itab[i].data) * BlockUnits

\* Directory entries form a tree: an entry names an allocated inode and no inode
\* has two names, at every write and after every crash.
NamesFormTree ==
    LET names == Dirs \X Name
        target == [x \in names |-> Lookup(AreaOf(x[1]), x[2])]
    IN  \A x \in names : target[x] # None =>
            /\ target[x] \in imap \ {Root} /\ itab[target[x]].type # "NONE"
            /\ \A y \in names \ {x} : target[y] # target[x]

\* The tree has every allocated inode, but for what hangs below one whose rename
\* could not be undone because the disk was full.
NothingLost == imap = UNION {Below(i) : i \in {Root} \cup orphan}

\* The number of entries of a directory is the same in the inode, in the header
\* and in the buckets, so nyfs_unlink knows whether it is empty; and the cached
\* numbers of free blocks and inodes are those of the bitmaps.
CountsMatch ==
    /\ \A d \in Dirs :
          /\ itab[d].count = AreaOf(d).count
          /\ itab[d].count = Cardinality({n \in Name : Lookup(AreaOf(d), n) # None})
    /\ sb = sbDisk
    /\ sb.blocks = Cardinality(Block \ bmap)
    /\ sb.inodes = Cardinality(Ino \ imap)

\* Between calls, as long as no access failed, no inode is lost and all counts
\* are right, whatever calls have run into a full disk.
DiskInOrder == Idle /\ faults = 0 => NothingLost /\ CountsMatch

\* "The cost of finding a name is one bucket and the length of its chain":
\* no lookup walks in circles.
LookupsEnd == \A d \in Dirs, n \in Name : LookupEnds(AreaOf(d), n)

\* An open handle stays with the file that open() checked the access to.
HandlesKeepFile == \A h \in open : h[1] \in imap /\ birth[h[1]] = h[2]

\* "At least what is freed already is not freed again": nyfs_free_extent_chain
\* and the error paths free blocks that are in use.
FreedOnce ==
    c.pc \in {"undo", "free", "free2"} /\ c.todo # <<>> => Head(c.todo) \in bmap
=============================================================================
