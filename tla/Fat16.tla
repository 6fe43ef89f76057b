------------------------------- MODULE Fat16 -------------------------------
(***************************************************************************)
(* The FAT16 driver, drivers/filesystem/fat16/fat16.c: mounting a volume   *)
(* with the checks of its boot sector, looking a name up in the root and   *)
(* in directories that are cluster chains, and reading files. The volume   *)
(* is not trusted: any boot sector and any table of clusters may be on it, *)
(* with chains that run in circles or leave the volume. It is read-only.   *)
(*                                                                         *)
(* One call runs at a time (c is its frame). The turns of its loops are    *)
(* steps, because a read of the disk may fail in each of them. A byte that *)
(* is read is represented by its address on the disk. 8.3 names are equal  *)
(* or not; what fat16_name_matches does with letters is left out.          *)
(***************************************************************************)
EXTENDS Integers, Sequences, FiniteSets

CONSTANTS
    SectorSize,     \* FAT16_SECTOR_SIZE
    EntrySize,      \* FAT16_ENTRY_SIZE, of a directory entry
    MinClusters,    \* FAT16_MIN_CLUSTERS
    MaxClusters,    \* FAT16_MAX_CLUSTERS
    Disk,           \* disk numbers
    Volumes,        \* the contents of the disks that are tried: [Disk -> image]
    Name,           \* the names that are looked up
    ReadAt,         \* <<offset, size>> of the reads that are tried
    MaxDevices,     \* FAT16_MAX_DEVICES
    MaxData,        \* FAT16_MAX_VNODE_DATA
    MaxVnodes,      \* VFS_MAX_VNODES
    MaxHandles,     \* FAT16_MAX_HANDLES
    MaxMounts,      \* bound: how often a volume is mounted
    StaleReads      \* whether a handle is read whose device slot has no geometry any more:
                    \* its volume was unmounted and the next one was refused in the slot

Bad  == MaxClusters + 3         \* FAT16_CLUSTER_BAD
Eoc  == MaxClusters + 4         \* FAT16_CLUSTER_EOC
None == 0
Dev    == 1 .. MaxDevices
Data   == 1 .. MaxData
Handle == 1 .. MaxHandles

\* A directory entry with a first byte of 0, one that is skipped (deleted, part
\* of a long name, volume label), or a file or directory.
End  == [name |-> "end"]
Skip == [name |-> "skip"]

ASSUME SizeAssumption ==
    /\ {SectorSize, EntrySize, MaxDevices, MaxData, MaxVnodes, MaxHandles} \subseteq Nat \ {0}
    /\ {MinClusters, MaxClusters, MaxMounts} \subseteq Nat
    /\ StaleReads \in BOOLEAN
\* What a disk may have on it: the fields of a boot sector and the entries of the
\* table and of directories are unsigned numbers, and any of them.
Boot == [signature : BOOLEAN, sectorSize : Nat, spc : Nat, reserved : Nat, fats : Nat,
         fatSize : Nat, rootEntries : Nat, total : Nat]
DirEntry == {End, Skip} \cup [name : STRING, dir : BOOLEAN, first : Nat, size : Nat]
Cluster == 2 .. MaxClusters + 1
Image == [boot : Boot, fat : [Cluster -> Nat], root : Seq(DirEntry),
          dir : [Cluster -> Seq(DirEntry)]]

ASSUME VolumeAssumption == \A v \in Volumes : v \in [Disk -> Image]
\* A read of no bytes does nothing, and is not tried.
ASSUME ReadAssumption == ReadAt \subseteq Nat \X (Nat \ {0})

VARIABLES
    image,      \* the disks: boot sector, table, root entries and directory entries
    dev,        \* [Dev -> device: mounted disk and geometry]
    data,       \* [Data -> vnode data: device, directory or file, chain, size;
                \*  history: the mount it was made in, and whether it is a root]
    nodes,      \* the vnode data that a vnode of the VFS refers to
    handle,     \* [Handle -> the copy of vnode data that a handle has]
    c,          \* the call in progress
    mounts      \* history: number of mounts

vars == <<image, dev, data, nodes, handle, c, mounts>>

NoGeo    == [firstFat |-> 0, firstRoot |-> 0, firstData |-> 0, rootSectors |-> 0,
             spc |-> 0, fatSize |-> 0, total |-> 0, clusters |-> 0]
NoDevice == [used |-> FALSE, disk |-> None, root |-> None, geo |-> NoGeo, mount |-> 0]
NoEntry  == [dev |-> None, dir |-> FALSE, first |-> 0, size |-> 0, mount |-> 0, root |-> FALSE]
NoCall   == [pc |-> "idle", dev |-> None, at |-> None, name |-> "", cluster |-> 0, len |-> 0,
             handle |-> None, from |-> 0, todo |-> 0, buf |-> <<>>, status |-> "none"]

Init ==
    /\ image \in Volumes
    /\ dev = [x \in Dev |-> NoDevice]
    /\ data = [s \in Data |-> NoEntry]
    /\ nodes = {}
    /\ handle = [h \in Handle |-> NoEntry]
    /\ c = NoCall /\ mounts = 0

Least(S) == CHOOSE x \in S : \A y \in S : x <= y
Smaller(x, y) == IF x <= y THEN x ELSE y
FreeData   == {s \in Data : data[s] = NoEntry}
FreeHandle == {h \in Handle : handle[h] = NoEntry}

Idle == c.pc = "idle"

(***************************************************************************)
(* The boot sector                                                         *)
(***************************************************************************)
IsPowerOf2(x) == x \in 1 .. 128 /\ \E k \in 0 .. 7 : x = 2 ^ k

Geometry(b) ==
    LET rootSectors == (b.rootEntries * EntrySize + SectorSize - 1) \div SectorSize
        firstRoot == b.reserved + b.fats * b.fatSize
        firstData == firstRoot + rootSectors
    IN  [firstFat |-> b.reserved, firstRoot |-> firstRoot, firstData |-> firstData,
         rootSectors |-> rootSectors, spc |-> b.spc, fatSize |-> b.fatSize, total |-> b.total,
         clusters |-> IF b.spc = 0 \/ b.total < firstData THEN 0
                      ELSE (b.total - firstData) \div b.spc]

\* Mutant: the size of the table is not compared with the number of clusters.
BootOkAnyFat(b) ==
    LET g == Geometry(b)
    IN  /\ b.signature /\ b.sectorSize = SectorSize /\ IsPowerOf2(b.spc)
        /\ b.reserved # 0 /\ b.fats \in {1, 2} /\ b.fatSize # 0 /\ b.rootEntries # 0
        /\ b.total > g.firstData
        /\ g.clusters \in MinClusters .. MaxClusters

\* fat16_load_boot_sector accepts the boot sector b. An entry of the table has
\* two bytes.
BootOk(b) ==
    LET g == Geometry(b)
    IN  /\ b.signature /\ b.sectorSize = SectorSize /\ IsPowerOf2(b.spc)
        /\ b.reserved # 0 /\ b.fats \in {1, 2} /\ b.fatSize # 0 /\ b.rootEntries # 0
        /\ b.total > g.firstData
        /\ g.clusters \in MinClusters .. MaxClusters
        /\ b.fatSize * SectorSize >= (g.clusters + 2) * 2

(***************************************************************************)
(* Mount and unmount                                                       *)
(***************************************************************************)
\* fat16_mount takes a device.
Mount(d) ==
    /\ Idle /\ mounts < MaxMounts
    /\ \A x \in Dev : dev[x].used => dev[x].disk # d
    /\ \E x \in Dev : ~dev[x].used
    /\ LET x == Least({x \in Dev : ~dev[x].used})
       IN  /\ dev' = [dev EXCEPT ![x] = [NoDevice EXCEPT !.used = TRUE, !.disk = d,
                                                         !.mount = mounts + 1]]
           /\ c' = [NoCall EXCEPT !.pc = "boot", !.dev = x]
    /\ mounts' = mounts + 1
    /\ UNCHANGED <<image, data, nodes, handle>>

MountBoot ==
    /\ c.pc = "boot"
    /\ BootOk(image[dev[c.dev].disk].boot)
    /\ dev' = [dev EXCEPT ![c.dev].geo = Geometry(image[dev[c.dev].disk].boot)]
    /\ c' = [c EXCEPT !.pc = "root"]
    /\ UNCHANGED <<image, data, nodes, handle, mounts>>

\* fat16_fill_vnode: the first free vnode data, for a new vnode.
CanFill == FreeData # {} /\ Cardinality(nodes) < MaxVnodes
Fill(e) ==
    /\ data' = [data EXCEPT ![Least(FreeData)] = e]
    /\ nodes' = nodes \cup {Least(FreeData)}

MountRoot ==
    /\ c.pc = "root" /\ CanFill
    /\ Fill([NoEntry EXCEPT !.dev = c.dev, !.dir = TRUE, !.mount = dev[c.dev].mount,
                            !.root = TRUE])
    /\ dev' = [dev EXCEPT ![c.dev].root = Least(FreeData)]
    /\ c' = [c EXCEPT !.pc = "vfs"]
    /\ UNCHANGED <<image, handle, mounts>>

\* vfs_mount takes the root.
MountDone ==
    /\ c.pc = "vfs"
    /\ c' = NoCall
    /\ UNCHANGED <<image, dev, data, nodes, handle, mounts>>

\* Mutant: the root of a volume that the VFS refused is not given back.
RootAfterFailureKept ==
    UNCHANGED <<data, nodes>>

\* What the error path of fat16_mount_internal gives back, if there is a root.
RootAfterFailure ==
    LET r == dev[c.dev].root
    IN  /\ data' = IF r = None THEN data ELSE [data EXCEPT ![r] = NoEntry]
        /\ nodes' = nodes \ {r}

\* fat16_free_device; the geometry stays in the slot.
FreeDevice(x) ==
    dev' = [dev EXCEPT ![x].used = FALSE, ![x].disk = None, ![x].root = None]

\* The boot sector cannot be read or is refused, a pool is empty, or vfs_mount
\* refuses the mount point.
MountFails ==
    /\ \/ c.pc \in {"boot", "vfs"}
       \/ c.pc = "root" /\ ~CanFill
    /\ RootAfterFailure
    /\ FreeDevice(c.dev)
    /\ c' = NoCall
    /\ UNCHANGED <<image, handle, mounts>>

\* fat16_unmount frees the device and its root; other vnodes and open handles
\* still refer to the device.
Unmount(x) ==
    /\ Idle /\ dev[x].used
    /\ data' = [data EXCEPT ![dev[x].root] = NoEntry]
    /\ nodes' = nodes \ {dev[x].root}
    /\ FreeDevice(x)
    /\ UNCHANGED <<image, handle, c, mounts>>

(***************************************************************************)
(* Cluster chains                                                          *)
(***************************************************************************)
\* fat16_cluster_valid
ClusterValid(g, k) == k >= 2 /\ k < g.clusters + 2

\* The entry of the table for cluster k (fat16_get_fat_entry), on the disk that
\* the device has now, and where it is on the disk.
FatEntry(x, k) == image[dev[x].disk].fat[k]
FatRead(x, k) ==
    [what |-> "fat", from |-> dev[x].geo.firstFat * SectorSize + k * 2, size |-> 2]

\* Mutant: one cluster too far.
NthClusterNext(x, first, index) ==
    LET g == dev[x].geo
        nth[i \in 0 .. index + 1] ==
            IF i = 0 THEN first
            ELSE IF ClusterValid(g, nth[i - 1]) THEN FatEntry(x, nth[i - 1]) ELSE nth[i - 1]
    IN  IF index >= g.clusters \/ ~ClusterValid(g, first) THEN Bad ELSE nth[index + 1]

\* fat16_get_nth_cluster: cluster number `index` of the chain; a value that is no
\* cluster where the chain ends or leaves the volume, and for an index that no
\* chain can have.
NthCluster(x, first, index) ==
    LET g == dev[x].geo
        nth[i \in 0 .. index] ==
            IF i = 0 THEN first
            ELSE IF ClusterValid(g, nth[i - 1]) THEN FatEntry(x, nth[i - 1]) ELSE nth[i - 1]
    IN  IF index >= g.clusters \/ ~ClusterValid(g, first) THEN Bad ELSE nth[index]

\* The entries of the table that it reads on its way.
FatReads(x, first, index) ==
    {FatRead(x, NthCluster(x, first, i)) :
        i \in {i \in 0 .. index - 1 : ClusterValid(dev[x].geo, NthCluster(x, first, i))}}

ClusterAddr(g, k) == (g.firstData + (k - 2) * g.spc) * SectorSize
ClusterSize(g)    == g.spc * SectorSize

(***************************************************************************)
(* Lookup                                                                  *)
(***************************************************************************)
\* fat16_scan_sector over the sectors of a root or a cluster: the entry with the
\* name, End when the entries end before it, else Skip.
Scan(entries, n) ==
    LET stop == {j \in DOMAIN entries : entries[j] = End \/ entries[j].name = n}
    IN  IF stop = {} THEN Skip ELSE entries[Least(stop)]

\* fat16_lookup starts at the directory of vnode data s; a directory whose first
\* cluster is 0 is the root. (On a device that was unmounted its first read fails
\* and nothing changes: that lookup is a stutter.)
Lookup(s, n) ==
    /\ Idle /\ s \in nodes /\ data[s].dir
    /\ dev[data[s].dev].used
    /\ c' = [NoCall EXCEPT !.pc = IF data[s].first = 0 THEN "scanroot" ELSE "scan",
                           !.dev = data[s].dev, !.at = s, !.name = n,
                           !.cluster = data[s].first]
    /\ UNCHANGED <<image, dev, data, nodes, handle, mounts>>

\* The entry is found and gets a vnode. The VFS caches the vnode, or it has no
\* dentry for it and frees it: then the driver's data is lost.
Found(e) ==
    /\ IF CanFill
         THEN /\ data' = [data EXCEPT ![Least(FreeData)] =
                            [dev |-> c.dev, dir |-> e.dir, first |-> e.first, size |-> e.size,
                             mount |-> dev[c.dev].mount, root |-> FALSE]]
              /\ \/ nodes' = nodes \cup {Least(FreeData)}
                 \/ nodes' = nodes
         ELSE UNCHANGED <<data, nodes>>
    /\ c' = NoCall

NotFound == c' = NoCall /\ UNCHANGED <<data, nodes>>

\* The sectors of the root directory.
ScanRoot ==
    /\ c.pc = "scanroot"
    /\ LET e == Scan(image[dev[c.dev].disk].root, c.name)
       IN  IF e \in {End, Skip} THEN NotFound ELSE Found(e)
    /\ UNCHANGED <<image, dev, handle, mounts>>

\* The chain has more clusters than the volume: it runs in a circle.
ChainTooLong == c.len >= dev[c.dev].geo.clusters

\* Mutant: the clusters are not counted.
ToClusterUncounted(next) == [c EXCEPT !.cluster = next]

ToCluster(next) == [c EXCEPT !.cluster = next, !.len = @ + 1]

\* One cluster of a directory, and the next entry of the table.
ScanCluster ==
    /\ c.pc = "scan"
    /\ LET e == Scan(image[dev[c.dev].disk].dir[c.cluster], c.name)
           next == FatEntry(c.dev, c.cluster)
       IN  IF ChainTooLong \/ ~ClusterValid(dev[c.dev].geo, c.cluster) THEN NotFound
           ELSE IF e # Skip THEN IF e = End THEN NotFound ELSE Found(e)
           ELSE /\ UNCHANGED <<data, nodes>>
                /\ c' = IF next \in {Bad, Eoc} THEN NoCall ELSE ToCluster(next)
    /\ UNCHANGED <<image, dev, handle, mounts>>

(***************************************************************************)
(* Files                                                                   *)
(***************************************************************************)
\* fat16_file_open copies the vnode data.
Open(s) ==
    /\ Idle /\ s \in nodes /\ ~data[s].dir /\ FreeHandle # {}
    /\ handle' = [handle EXCEPT ![Least(FreeHandle)] = data[s]]
    /\ UNCHANGED <<image, dev, data, nodes, c, mounts>>

Close(h) ==
    /\ Idle /\ handle[h] # NoEntry
    /\ handle' = [handle EXCEPT ![h] = NoEntry]
    /\ UNCHANGED <<image, dev, data, nodes, c, mounts>>

\* fat16_file_read of n bytes at the offset; at the end of the file it is over. It
\* does not look at dev->used. The first turn of its loop divides by the size of a
\* cluster, which is 0 in a slot that was cleared for a volume that was refused:
\* the division faults in the kernel, which panics.
Read(h, from, n) ==
    LET noGeo == dev[handle[h].dev].geo.spc = 0
    IN  /\ Idle /\ handle[h] # NoEntry
        /\ from < handle[h].size
        /\ noGeo => StaleReads
        /\ c' = [NoCall EXCEPT !.pc = IF noGeo THEN "panic" ELSE "read",
                               !.dev = handle[h].dev, !.handle = h, !.from = from,
                               !.todo = Smaller(n, handle[h].size - from)]
        /\ UNCHANGED <<image, dev, data, nodes, handle, mounts>>

\* The call returns with a status and what is in the buffer.
Result(status, buf) == c' = [c EXCEPT !.pc = "done", !.status = status, !.buf = buf]

Return ==
    /\ c.pc = "done"
    /\ c' = NoCall
    /\ UNCHANGED <<image, dev, data, nodes, handle, mounts>>

\* The place of the next turn of the loop: the index in the chain, the cluster
\* and the bytes in it.
Turn ==
    LET g == dev[c.dev].geo
        offset == c.from + Len(c.buf)
        index == offset \div ClusterSize(g)
        within == offset % ClusterSize(g)
        k == NthCluster(c.dev, handle[c.handle].first, index)
    IN  [index |-> index, cluster |-> k, from |-> ClusterAddr(g, k) + within,
         size |-> Smaller(ClusterSize(g) - within, c.todo - Len(c.buf))]

ReadChunk ==
    /\ c.pc = "read" /\ dev[c.dev].used
    /\ LET t == Turn
           buf == c.buf \o [i \in 1 .. t.size |-> t.from + i - 1]
       IN  IF ~ClusterValid(dev[c.dev].geo, t.cluster) THEN Result("corrupted", <<>>)
           ELSE IF Len(buf) = c.todo THEN Result("ok", buf)
           ELSE c' = [c EXCEPT !.buf = buf]
    /\ UNCHANGED <<image, dev, data, nodes, handle, mounts>>

\* A read of the disk fails, or the device was unmounted and its read function is
\* gone: no byte counts.
DiskFails ==
    /\ c.pc \in {"scanroot", "scan", "read"}
    /\ IF c.pc = "read" THEN Result("failed", <<>>) ELSE c' = NoCall
    /\ UNCHANGED <<image, dev, data, nodes, handle, mounts>>

\* What the next turn of a loop reads from the disk.
DiskReads ==
    LET g == dev[c.dev].geo
        dataAt(from, size) == [what |-> "data", from |-> from, size |-> size]
    IN  CASE c.pc = "scanroot" ->
               {[what |-> "root", from |-> g.firstRoot * SectorSize,
                 size |-> g.rootSectors * SectorSize]}
          [] c.pc = "scan" /\ ~ChainTooLong /\ ClusterValid(g, c.cluster) ->
               {dataAt(ClusterAddr(g, c.cluster), ClusterSize(g)), FatRead(c.dev, c.cluster)}
          [] c.pc = "read" /\ dev[c.dev].used ->
               LET t == Turn
               IN  FatReads(c.dev, handle[c.handle].first, t.index)
                     \cup IF ClusterValid(g, t.cluster) THEN {dataAt(t.from, t.size)} ELSE {}
          [] OTHER -> {}

Next ==
    \/ \E d \in Disk : Mount(d)
    \/ MountBoot \/ MountRoot \/ MountDone \/ MountFails
    \/ \E x \in Dev : Unmount(x)
    \/ \E s \in Data : (\E n \in Name : Lookup(s, n)) \/ Open(s)
    \/ ScanRoot \/ ScanCluster
    \/ \E h \in Handle : Close(h) \/ \E r \in ReadAt : Read(h, r[1], r[2])
    \/ ReadChunk \/ DiskFails \/ Return

Spec == Init /\ [][Next]_vars

\* A call of the driver runs to its end: the kernel does not preempt it.
FairSpec ==
    Spec /\ WF_vars(MountBoot \/ MountRoot \/ MountDone \/ MountFails)
         /\ WF_vars(ScanRoot \/ ScanCluster \/ ReadChunk \/ DiskFails \/ Return)

-----------------------------------------------------------------------------
(***************************************************************************)
(* Properties                                                              *)
(***************************************************************************)
\* Every call of the driver returns, whatever is on the disk (fat16.c, at its top: it
\* never loops for ever). Without StaleReads, because a panic does not return.
CallsEnd == c.pc # "idle" ~> c.pc = "idle"

\* Every read of the disk stays in the part of the volume it is meant for: entries
\* in the first copy of the table, directory entries in the root or in clusters,
\* bytes in clusters, and nothing behind the volume.
ReadsInPlace ==
    \A t \in DiskReads :
        LET g == dev[c.dev].geo
            inside(first, last) ==
                t.from >= first * SectorSize /\ t.from + t.size <= last * SectorSize
        IN  CASE t.what = "fat"  -> inside(g.firstFat, g.firstFat + g.fatSize)
              [] t.what = "root" -> inside(g.firstRoot, g.firstData)
              [] t.what = "data" -> inside(g.firstData, g.total)

\* A read hands out all the bytes it was asked for and the file has, each from its
\* place in the chain of the file: the first cluster is the one of the entry, and
\* from one cluster to the next there is a link in the table. It reports a damaged
\* file only when there is no such chain. (For handles of this mount: a volume
\* that is unmounted takes its device from the handles that are open.)
ReadIsChain ==
    LET e == handle[c.handle]
        x == e.dev
        g == dev[x].geo
        fat == image[dev[x].disk].fat
        needed == (c.from + c.todo - 1) \div ClusterSize(g) + 1
        chains == {s \in [1 .. needed -> 2 .. g.clusters + 1] :
                     s[1] = e.first /\ \A i \in 1 .. needed - 1 : fat[s[i]] = s[i + 1]}
    IN  c.pc = "done" /\ c.status # "failed" /\ dev[x].used /\ dev[x].mount = e.mount =>
            IF c.status = "corrupted" THEN needed > g.clusters \/ chains = {}
            ELSE /\ c.from + c.todo <= e.size
                 /\ \E s \in chains :
                     c.buf = [i \in 1 .. c.todo |->
                        LET o == c.from + i - 1
                        IN  ClusterAddr(g, s[o \div ClusterSize(g) + 1]) + (o % ClusterSize(g))]

\* The pools agree when no call is in progress: a device is in use exactly when it
\* has a root with its vnode, whichever step of a mount failed, no other root is
\* left, and every vnode has its data.
PoolsBalanced ==
    Idle =>
        /\ \A x \in Dev : dev[x].used <=> dev[x].root # None
        /\ {s \in Data : data[s].root} = {dev[x].root : x \in {x \in Dev : dev[x].used}}
        /\ {s \in Data : data[s].root} \subseteq nodes
        /\ \A s \in nodes : data[s] # NoEntry

(***************************************************************************)
(* What a comment of the code says and the code does not do.               *)
(***************************************************************************)
\* Only when a boot sector has passed the checks does the arithmetic of the driver
\* hold (fat16.c:779): a call that calculates with a geometry has one of a boot
\* sector that did.
GeometryVerified ==
    c.pc \in {"scanroot", "scan", "read", "panic"} =>
        /\ dev[c.dev].geo.spc # 0
        /\ dev[c.dev].geo.clusters \in MinClusters .. MaxClusters
=============================================================================
