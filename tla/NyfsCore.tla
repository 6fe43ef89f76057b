------------------------------ MODULE NyfsCore ------------------------------
(***************************************************************************)
(* The host tools of NyFS: libnyfscore (tools/nyfs-utils/src/nyfs_core.c)  *)
(* as the FUSE callbacks of nyfs_fuse.c call it on a mounted volume. Its   *)
(* block level is a port of the driver in the module Nyfs; what is its own *)
(* is here: users, the UNIX mode and the access control entries of an      *)
(* inode, their inheritance by create and mkdir, the walk along a path,    *)
(* chmod, chown and truncate, and the contents that a file reads back.     *)
(*                                                                         *)
(* A callback is one step, as it is in a mount with the option -s. Calls   *)
(* that are refused, reads and readdir change nothing and are stutters;    *)
(* the calls that fail half way because the disk is full are steps. An     *)
(* extent block holds all the extents of a stream, a unit of data fills a  *)
(* block, and so does a fixed number of directory records.                 *)
(***************************************************************************)
EXTENDS Integers, Sequences, FiniteSets, SequencesExt

CONSTANTS
    NBlocks,        \* total_blocks, less the blocks of the metadata
    NInodes,        \* inode_count, less the unused number 0
    Name,
    Cred,           \* the callers: uid and gid
    Mode,           \* the values of unix_mode that are given
    Seed,           \* the access control lists the root may have
    Inline,         \* NYFS_ACL_INLINE_COUNT
    AcesPerBlock,   \* how many entries fit into a block
    RecsPerBlock,   \* how many directory records fit into a block
    MaxSize,        \* bound: units of a file
    MaxRecs,        \* bound: records ever written to a directory
    MaxAttrs        \* bound: how often the owner or the mode of an inode is set

Block == 1 .. NBlocks
Ino   == 1 .. NInodes
Root  == 1                      \* NYFS_ROOT_INO
None  == 0                      \* NYFS_BLKNO_NONE, NYFS_INO_NONE
Everyone == 99                  \* NYFS_ID_EVERYONE
Hole  == -1                     \* history: a unit that was never written

\* An access control entry, with the rights that the calls ask for, and the bits
\* of unix_mode that nyfs_check_access reads.
Right   == {"READ_DATA", "WRITE_DATA", "EXECUTE", "DELETE_CHILD"}
Flag    == {"GROUP", "INHERIT_FILE", "INHERIT_DIR", "INHERIT_ONLY", "NO_PROPAGATE"}
Ace     == [id : Nat, type : {"ALLOW", "DENY"}, mask : SUBSET Right, flags : SUBSET Flag]
ModeBit == {"ur", "uw", "ux", "gr", "gw", "gx", "or", "ow", "ox"}

ASSUME SizeAssumption ==
    /\ {NBlocks, NInodes, Inline, RecsPerBlock, AcesPerBlock} \subseteq Nat \ {0}
    /\ {MaxSize, MaxRecs, MaxAttrs} \subseteq Nat
    /\ NBlocks >= 3
ASSUME SeedAssumption ==
    \A s \in Seed : s \in Seq(Ace) /\ Len(s) <= Inline + AcesPerBlock   \* also <= NYFS_MAX_TOTAL_ACES
ASSUME CredAssumption ==
    /\ \A c \in Cred : c.uid \in Nat /\ c.gid \in Nat /\ c.uid # Everyone
    /\ Mode \subseteq SUBSET ModeBit

VARIABLES
    taken,      \* the block bitmap
    disk,       \* [Block -> its unit of data, its access control entries]
    inode,      \* the inode table with its bitmap: "NONE" is a free inode
    hist        \* history: see Init

vars == <<taken, disk, inode, hist>>

NoStream == [ext |-> None, blks |-> <<>>]
NoInode  == [type |-> "NONE", uid |-> 0, gid |-> 0, mode |-> {}, ace |-> <<>>,
             over |-> None, overCount |-> 0, data |-> NoStream, size |-> 0,
             ents |-> [n \in Name |-> None], recs |-> 0]

Zero == [unit |-> 0, aces |-> <<>>]
Meta == [unit |-> 9, aces |-> <<>>]         \* directory records or extents

\* nyfs_format, with one of the lists on the root: there is no call that sets
\* a list, the tests and other writers of the format put it into the inode.
Init ==
    \E s \in Seed :
        LET over == Len(s) > Inline
            root == [NoInode EXCEPT
                       !.type = "DIR", !.mode = {"ur", "uw", "ux", "gr", "gx", "or", "ox"},
                       !.data = [ext |-> 2, blks |-> <<1>>],
                       !.ace = IF over THEN SubSeq(s, 1, Inline) ELSE s,
                       !.over = IF over THEN 3 ELSE None,
                       !.overCount = IF over THEN Len(s) - Inline ELSE 0]
        IN  /\ taken = IF over THEN 1 .. 3 ELSE 1 .. 2
            /\ disk = [b \in Block |->
                 IF b <= 2 THEN Meta
                 ELSE IF b = 3 /\ over THEN [Zero EXCEPT !.aces = SubSeq(s, Inline + 1, Len(s))]
                 ELSE Zero]
            /\ inode = [i \in Ino |-> IF i = Root THEN root ELSE NoInode]
            /\ hist = [seed |-> s,                      \* the list of the root
                       depth |-> [i \in Ino |-> 0],     \* how far below it i was made
                       want |-> [i \in Ino |-> <<>>],   \* what was last written to i
                       gone |-> {},                     \* the list blocks of removed inodes
                       lost |-> {},                     \* inodes a rename could not put back
                       full |-> FALSE,                  \* did a call meet a full disk?
                       attrs |-> 0]                     \* calls of chmod and chown

(***************************************************************************)
(* Blocks and streams. A volume v is the bitmap and the blocks.            *)
(***************************************************************************)
Vol == [taken |-> taken, disk |-> disk]

Free(v)  == Block \ v.taken
Least(S) == CHOOSE x \in S : \A y \in S : x <= y

\* The numbers of the set S in ascending order: the blocks that nyfs_alloc_block
\* hands out when it is called again and again.
Ascending(S) ==
    [k \in 1 .. Cardinality(S) |-> CHOOSE x \in S : Cardinality({y \in S : y < x}) = k - 1]

\* nyfs_extent_total_blocks, nyfs_extent_append_one: blocks are taken in the
\* order of their numbers, the first data block before the extent block. When
\* the disk fills up, what was appended so far stays in the stream.
Extend(v, s, need) ==
    LET free   == Ascending(Free(v))
        first  == s.ext = None
        wanted == IF need > Len(s.blks) THEN need - Len(s.blks) ELSE 0
        room   == IF ~first THEN Len(free) ELSE IF Len(free) > 1 THEN Len(free) - 1 ELSE 0
        n      == IF wanted <= room THEN wanted ELSE room
        data   == IF first /\ n > 0 THEN <<free[1]>> \o SubSeq(free, 3, n + 1) ELSE SubSeq(free, 1, n)
        ext    == IF first /\ n > 0 THEN free[2] ELSE s.ext
    IN  [ok |-> n = wanted,
         s  |-> [ext |-> ext, blks |-> s.blks \o data],
         v  |-> [taken |-> v.taken \cup ToSet(data) \cup (IF n > 0 THEN {ext} ELSE {}),
                 disk  |-> IF first /\ n > 0 THEN [v.disk EXCEPT ![ext] = Meta] ELSE v.disk]]

\* Mutant: the last block of the stream, where an append would go.
ResolveLast(s, at) == s.blks[Len(s.blks)]

\* nyfs_extent_resolve
Resolve(s, at) == s.blks[at + 1]

\* nyfs_free_extent_chain
Blocks(s) == ToSet(s.blks) \cup ({s.ext} \ {None})

\* Mutant: the extent block itself is not freed.
FreeStreamKeepsExtent(v, s) == [v EXCEPT !.taken = @ \ ToSet(s.blks)]

FreeStream(v, s) == [v EXCEPT !.taken = @ \ Blocks(s)]

(***************************************************************************)
(* Access                                                                  *)
(***************************************************************************)
\* nyfs_gather_aces
Aces(i) == inode[i].ace \o
           (IF inode[i].over = None THEN <<>>
            ELSE SubSeq(disk[inode[i].over].aces, 1, inode[i].overCount))

\* nyfs_ace_id_matches
Matches(a, c) ==
    \/ a.id = Everyone
    \/ IF "GROUP" \in a.flags THEN a.id = c.gid ELSE a.id = c.uid

\* The UNIX mode, read for one class of users only.
ModeGrants(n, c, what) ==
    LET bit == CASE what = "READ_DATA"  -> <<"ur", "gr", "or">>
                 [] what = "WRITE_DATA" -> <<"uw", "gw", "ow">>
                 [] what = "EXECUTE"    -> <<"ux", "gx", "ox">>
                 [] OTHER               -> <<"", "", "">>
        class == IF c.uid = n.uid THEN 1 ELSE IF c.gid = n.gid THEN 2 ELSE 3
    IN  bit[class] \in n.mode

Effective(aces) == {a \in ToSet(aces) : "INHERIT_ONLY" \notin a.flags}

\* Mutant: an entry that allows is enough.
CheckAccessAllowFirst(i, c, what) ==
    LET mine == {a \in Effective(Aces(i)) : Matches(a, c) /\ what \in a.mask}
    IN  c.uid = 0 \/ (IF Aces(i) = <<>> THEN ModeGrants(inode[i], c, what)
                      ELSE \E a \in mine : a.type = "ALLOW")

\* nyfs_check_access
CheckAccess(i, c, what) ==
    LET mine == {a \in Effective(Aces(i)) : Matches(a, c) /\ what \in a.mask}
    IN  \/ c.uid = 0
        \/ /\ Aces(i) = <<>>
           /\ ModeGrants(inode[i], c, what)
        \/ /\ Aces(i) # <<>>
           /\ ~\E a \in mine : a.type = "DENY"
           /\ \E a \in mine : a.type = "ALLOW"

\* What a child keeps of an entry of its parent.
Copy(a) ==
    [a EXCEPT !.flags = @ \ ({"INHERIT_ONLY"} \cup
        IF "NO_PROPAGATE" \in a.flags
          THEN {"INHERIT_FILE", "INHERIT_DIR", "NO_PROPAGATE"} ELSE {})]

\* What a child of that type inherits from the directory dir, in the order of dir.
Inherited(dir, type) ==
    LET flag == IF type = "DIR" THEN "INHERIT_DIR" ELSE "INHERIT_FILE"
        at   == Ascending({k \in DOMAIN Aces(dir) : flag \in Aces(dir)[k].flags})
    IN  [k \in DOMAIN at |-> Copy(Aces(dir)[at[k]])]

\* Mutant: the entries that do not fit into the inode are cut off.
InheritAclCut(v, dir, child) ==
    LET all == Inherited(dir, child.type)
    IN  [ok |-> TRUE, v |-> v,
         child |-> [child EXCEPT !.ace = SubSeq(all, 1, IF Len(all) < Inline THEN Len(all) ELSE Inline)]]

\* nyfs_inherit_acl: the entries beyond those of the inode go to a block.
InheritAcl(v, dir, child) ==
    LET all == Inherited(dir, child.type)
        b   == Least(Free(v))
    IN  IF Len(all) <= Inline
          THEN [ok |-> TRUE, v |-> v, child |-> [child EXCEPT !.ace = all]]
        ELSE IF Free(v) = {}
          THEN [ok |-> FALSE, v |-> v, child |-> child]
        ELSE [ok |-> TRUE,
              v  |-> [taken |-> v.taken \cup {b},
                      disk  |-> [v.disk EXCEPT ![b].aces = SubSeq(all, Inline + 1, Len(all))]],
              child |-> [child EXCEPT !.ace = SubSeq(all, 1, Inline), !.over = b,
                                      !.overCount = Len(all) - Inline]]

(***************************************************************************)
(* Names. A directory is its entries and the number of records in its      *)
(* stream, which a removal does not give back; the header is one more.     *)
(***************************************************************************)
DirBlocks(recs) == (1 + recs + RecsPerBlock - 1) \div RecsPerBlock

\* nyfs_dirhash_create
DirhashCreate(v, n) ==
    LET e == Extend(v, NoStream, DirBlocks(0))
    IN  [ok |-> e.ok, v |-> e.v, n |-> [n EXCEPT !.data = e.s]]

\* nyfs_dirhash_insert: a record at the end of the stream
DirhashInsert(v, dir, name, i) ==
    LET e   == Extend(v, dir.data, DirBlocks(dir.recs + 1))
        new == [dir EXCEPT !.data = e.s]
    IN  [ok |-> e.ok, v |-> e.v,
         dir |-> IF e.ok THEN [new EXCEPT !.ents[name] = i, !.recs = @ + 1] ELSE new]

\* nyfs_dirhash_remove
DirhashRemove(dir, name) == [dir EXCEPT !.ents[name] = None]

IsDir(i) == inode[i].type = "DIR"
Used     == {i \in Ino : inode[i].type # "NONE"}

\* nyfs_path_lookup and nyfs_resolve: EXECUTE on every directory that is
\* crossed; None when a name is missing or a directory refuses.
PathLookup(p, c) ==
    LET Step(i, name) ==
          IF i # None /\ IsDir(i) /\ CheckAccess(i, c, "EXECUTE") THEN inode[i].ents[name] ELSE None
        reached[k \in 0 .. Len(p)] == IF k = 0 THEN Root ELSE Step(reached[k - 1], p[k])
    IN  reached[Len(p)]

\* nyfs_path_lookup_parent: the walk ends at the parent, which is checked
\* itself only when it is the root.
LookupParent(p, c) ==
    IF p = <<>> /\ ~CheckAccess(Root, c, "EXECUTE") THEN None ELSE PathLookup(p, c)

Dirs == {<<>>} \cup {<<n>> : n \in Name}
Path == Dirs \cup {<<m, n>> : m, n \in Name}

(***************************************************************************)
(* The calls                                                               *)
(***************************************************************************)
\* A call that met a full disk: only v is written back.
DiskFull(v) ==
    /\ taken' = v.taken
    /\ disk' = v.disk
    /\ hist' = [hist EXCEPT !.full = TRUE]
    /\ UNCHANGED inode

\* nyfs_op_create and nyfs_op_mkdir. A failure frees the inode number; blocks
\* of the list and of the new directory stay taken.
Make(c, type, p, name, mode) ==
    LET d == LookupParent(p, c)
        i == Least(Ino \ Used)
    IN  /\ d # None /\ IsDir(d) /\ CheckAccess(d, c, "WRITE_DATA")
        /\ inode[d].ents[name] = None /\ Used # Ino /\ inode[d].recs < MaxRecs
        /\ LET new  == [NoInode EXCEPT !.type = type, !.uid = c.uid, !.gid = c.gid, !.mode = mode]
               acl  == InheritAcl(Vol, d, new)
               body == IF type = "DIR" THEN DirhashCreate(acl.v, acl.child)
                       ELSE [ok |-> TRUE, v |-> acl.v, n |-> acl.child]
               ins  == DirhashInsert(body.v, inode[d], name, i)
           IN  \/ /\ ~acl.ok
                  /\ DiskFull(acl.v)
               \/ /\ acl.ok /\ ~body.ok
                  /\ DiskFull(body.v)
               \/ /\ acl.ok /\ body.ok /\ ~ins.ok
                  /\ DiskFull(ins.v)
               \/ /\ acl.ok /\ body.ok /\ ins.ok
                  /\ taken' = ins.v.taken
                  /\ disk' = ins.v.disk
                  /\ inode' = [inode EXCEPT ![d] = ins.dir, ![i] = body.n]
                  /\ hist' = [hist EXCEPT !.depth[i] = hist.depth[d] + 1, !.want[i] = <<>>]

Create(c, p, name, mode) == Make(c, "FILE", p, name, mode)
Mkdir(c, p, name, mode)  == Make(c, "DIR", p, name, mode)

\* Mutant: a directory is removed whatever is in it.
IsEmptyAlways(i) == TRUE

IsEmpty(i) == \A n \in Name : inode[i].ents[n] = None     \* dir_entry_count is 0

\* nyfs_op_remove, called by unlink for files and by rmdir for directories.
\* The block of an overflowing list is not freed.
Unlink(c, p, name) ==
    LET d == LookupParent(p, c)
        i == inode[d].ents[name]
    IN  /\ d # None /\ IsDir(d) /\ CheckAccess(d, c, "DELETE_CHILD")
        /\ i # None /\ IsEmpty(i)
        /\ taken' = FreeStream(Vol, inode[i].data).taken
        /\ inode' = [inode EXCEPT ![d] = DirhashRemove(inode[d], name), ![i] = NoInode]
        /\ hist' = [hist EXCEPT !.gone = @ \cup ({inode[i].over} \ {None}), !.want[i] = <<>>]
        /\ UNCHANGED disk

\* nyfs_op_write. A data call names the inode that open or create put into fh;
\* what is written is the mark of its file. nyfs_read_inode never asks whether the
\* inode is still in use: that it is, is libfuse's doing (external), which renames an
\* open file instead of unlinking it and calls unlink when the last fh is released.
Write(c, i, at) ==
    LET e == Extend(Vol, inode[i].data, at + 1)
        size == IF at + 1 > inode[i].size THEN at + 1 ELSE inode[i].size
    IN  /\ inode[i].type = "FILE" /\ CheckAccess(i, c, "WRITE_DATA")
        /\ \/ /\ ~e.ok      \* a stream that had no extent block is not kept
              /\ taken' = e.v.taken
              /\ disk' = e.v.disk
              /\ inode' = IF inode[i].data.ext = None THEN inode ELSE [inode EXCEPT ![i].data = e.s]
              /\ hist' = [hist EXCEPT !.full = TRUE]
           \/ /\ e.ok
              /\ taken' = e.v.taken
              /\ disk' = [e.v.disk EXCEPT ![Resolve(e.s, at)] = [Zero EXCEPT !.unit = i]]
              /\ inode' = [inode EXCEPT ![i].data = e.s, ![i].size = size]
              /\ hist' = [hist EXCEPT !.want[i] =
                   [k \in 1 .. size |-> IF k = at + 1 THEN i
                                        ELSE IF k <= Len(@) THEN @[k] ELSE Hole]]

\* nyfs_op_truncate: only to a smaller size, and no block is given back.
Truncate(c, i, size) ==
    /\ inode[i].type = "FILE" /\ CheckAccess(i, c, "WRITE_DATA")
    /\ size <= inode[i].size
    /\ inode' = [inode EXCEPT ![i].size = size]
    /\ hist' = [hist EXCEPT !.want[i] = SubSeq(@, 1, size)]
    /\ UNCHANGED <<taken, disk>>

\* The kernel of the host refuses to move a directory below itself before it
\* calls the file system.
HostRefuses(p, name, q) == IsPrefix(Append(p, name), q)

\* nyfs_op_rename. When the record does not fit into the new directory, the
\* old name is entered again, which may fail as well.
Rename(c, p, old, q, new) ==
    LET d  == LookupParent(p, c)
        e  == LookupParent(q, c)
        i  == inode[d].ents[old]
        out  == [inode EXCEPT ![d] = DirhashRemove(@, old)]
        ins  == DirhashInsert(Vol, out[e], new, i)
        back == DirhashInsert(ins.v, IF d = e THEN ins.dir ELSE out[d], old, i)
    IN  /\ d # None /\ IsDir(d) /\ e # None /\ IsDir(e)
        /\ CheckAccess(d, c, "DELETE_CHILD") /\ CheckAccess(e, c, "WRITE_DATA")
        /\ i # None /\ i # e /\ inode[e].ents[new] = None
        /\ ~HostRefuses(p, old, q) /\ inode[e].recs < MaxRecs
        /\ \/ /\ ins.ok
              /\ taken' = ins.v.taken
              /\ disk' = ins.v.disk
              /\ inode' = [out EXCEPT ![e] = ins.dir]
              /\ UNCHANGED hist
           \/ /\ ~ins.ok
              /\ taken' = back.v.taken
              /\ disk' = back.v.disk
              /\ inode' = [inode EXCEPT ![d] = back.dir]
              /\ hist' = [hist EXCEPT !.full = TRUE, !.lost = IF back.ok THEN @ ELSE @ \cup {i}]

\* nyfs_op_setattr, called by chmod and by chown
Chmod(c, p, mode) ==
    LET i == PathLookup(p, c)
    IN  /\ hist.attrs < MaxAttrs
        /\ i # None /\ c.uid \in {0, inode[i].uid}
        /\ inode' = [inode EXCEPT ![i].mode = mode]
        /\ hist' = [hist EXCEPT !.attrs = @ + 1]
        /\ UNCHANGED <<taken, disk>>
Chown(c, p, to) ==
    LET i == PathLookup(p, c)
    IN  /\ hist.attrs < MaxAttrs
        /\ i # None /\ c.uid \in {0, inode[i].uid}
        /\ inode' = [inode EXCEPT ![i].uid = to.uid, ![i].gid = to.gid]
        /\ hist' = [hist EXCEPT !.attrs = @ + 1]
        /\ UNCHANGED <<taken, disk>>

Call(c) ==
    \/ \E p \in Dirs, n \in Name, m \in Mode : Create(c, p, n, m) \/ Mkdir(c, p, n, m)
    \/ \E p \in Dirs, n \in Name : Unlink(c, p, n)
    \/ \E p, q \in Dirs, m, n \in Name : Rename(c, p, m, q, n)
    \/ \E i \in Ino, k \in 0 .. MaxSize - 1 : Write(c, i, k)
    \/ \E i \in Ino, k \in 0 .. MaxSize : Truncate(c, i, k)
    \/ \E p \in Path, m \in Mode : Chmod(c, p, m)
    \/ \E p \in Path, to \in Cred : Chown(c, p, to)

Next == \E c \in Cred : Call(c)

Spec == Init /\ [][Next]_vars

(***************************************************************************)
(* Properties                                                              *)
(***************************************************************************)
Owned(i) == Blocks(inode[i].data) \cup ({inode[i].over} \ {None})

\* No block has two owners, among them the block of an inode's overflowing
\* access control list, and every owned block is taken. As long as no call met
\* a full disk, nothing else is taken but the list blocks of removed inodes,
\* which nyfs_op_remove does not free.
BlocksAccounted ==
    /\ \A i, j \in Used : i # j => Owned(i) \cap Owned(j) = {}
    /\ \A i \in Used : /\ Owned(i) \subseteq taken
                       /\ IsInjective(inode[i].data.blks)
                       /\ inode[i].data.ext \notin ToSet(inode[i].data.blks)
                       /\ inode[i].over # None => inode[i].over \notin Blocks(inode[i].data)
    /\ ~hist.full => taken = hist.gone \cup UNION {Owned(i) : i \in Used}

\* Every inode but the root has one name, in a directory that is in use, and
\* every name is that of an inode in use; except an inode whose rename met a
\* full disk in the new and again in the old directory.
NamesOnce ==
    LET named(i) == {x \in Ino \X Name : IsDir(x[1]) /\ inode[x[1]].ents[x[2]] = i}
    IN  /\ \A i \in Used \ (hist.lost \cup {Root}) : Cardinality(named(i)) = 1
        /\ \A d \in Used, n \in Name : inode[d].ents[n] # None => inode[d].ents[n] \in Used

\* Does entry a of the root's list apply to an inode made that far below it?
Applies(a, depth, type) ==
    CASE depth = 0 -> "INHERIT_ONLY" \notin a.flags
      [] depth = 1 -> (IF type = "DIR" THEN "INHERIT_DIR" ELSE "INHERIT_FILE") \in a.flags
      [] OTHER     -> /\ "INHERIT_DIR" \in a.flags /\ "NO_PROPAGATE" \notin a.flags
                      /\ type = "FILE" => "INHERIT_FILE" \in a.flags

What(S) == {[id |-> a.id, type |-> a.type, mask |-> a.mask] : a \in S}

\* The list of the root reaches the inodes below it as its flags say, however
\* deep, in the inode or in a block of its own, through every rename, chmod,
\* chown, removal and full disk: no entry is cut off, and none goes too far.
InheritedAcl ==
    \A i \in Used :
        What(Effective(Aces(i))) =
        What({a \in ToSet(hist.seed) : Applies(a, hist.depth[i], inode[i].type)})

\* A caller to whom an entry of the root denies writing never changes a file
\* that the entry reaches and never adds a name to such a directory.
DeniedNeverWrites ==
    [][\A c \in Cred, a \in ToSet(hist.seed), i \in Used :
         /\ a.type = "DENY" /\ "WRITE_DATA" \in a.mask /\ Matches(a, c) /\ c.uid # 0
         /\ Applies(a, hist.depth[i], inode[i].type) /\ inode'[i].type # "NONE"
         /\ \/ hist'.want[i] # hist.want[i]
            \/ \E n \in Name : inode[i].ents[n] = None /\ inode'[i].ents[n] # None
         => ~Call(c)]_vars

\* A file reads back what was last written to it, unit by unit.
ReadsBack ==
    \A i \in Used : inode[i].type = "FILE" =>
        /\ Len(hist.want[i]) = inode[i].size
        /\ \A k \in 1 .. inode[i].size :
             hist.want[i][k] # Hole => disk[inode[i].data.blks[k]].unit = hist.want[i][k]

\* nyfs_core.c and the README of the tools say of a unit that was never written
\* that it has to read as zero.
HolesReadZero ==
    \A i \in Used : inode[i].type = "FILE" =>
        \A k \in 1 .. inode[i].size :
            hist.want[i][k] = Hole => disk[inode[i].data.blks[k]].unit = 0
=============================================================================
