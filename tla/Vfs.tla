-------------------------------- MODULE Vfs --------------------------------
(***************************************************************************)
(* The virtual file system, drivers/filesystem/vfs.c: namespaces, the tree *)
(* of cached dentries, the vnode pool and the calls mount, unmount, open,  *)
(* reopen, close, create, mkdir, unlink, rename and register_namespace,    *)
(* with the pools of the NyFS driver behind it (volume, vnode data and     *)
(* handle data of nyfs.c). One disk may be mounted, at the root of the     *)
(* namespace nyfs: or at a name below the default root.                    *)
(*                                                                         *)
(* The kernel is cooperative, so each call is one step. A call that fails  *)
(* on its way may still have cached what it looked up, and those steps are *)
(* here; calls that leave everything as it was are stutters, and so are    *)
(* read, write, fstat and readdir. The disk is the tree of its names: what *)
(* the driver's operations do on it block by block is in the module Nyfs.  *)
(* A path is a namespace and a sequence of names.                          *)
(***************************************************************************)
EXTENDS Integers, Sequences, FiniteSets

CONSTANTS
    MaxDentries,    \* VFS_MAX_DENTRIES
    MaxVnodes,      \* VFS_MAX_VNODES
    MaxData,        \* NYFS_MAX_VNODE_DATA
    MaxHandles,     \* NYFS_MAX_HANDLES
    MaxInodes,      \* inodes of the disk
    Name,
    NoName,         \* the name of a root dentry
    Path,           \* the paths that are tried: namespace and names
    MaxMakes,       \* bound: files and directories that are made
    MaxMounts,      \* bound: how often the disk is mounted
    SelfRename,     \* may a name be renamed to itself?
    Remount         \* may the disk be mounted below "/" after it was mounted as "nyfs:/"?

Dentry == 1 .. MaxDentries
Vnode  == 1 .. MaxVnodes
Data   == 1 .. MaxData
Handle == 1 .. MaxHandles
Ino    == 1 .. MaxInodes
Root   == 1                     \* NYFS_ROOT_INO
None   == 0                     \* nNULL
Ns     == {"", "nyfs", "app"}

ASSUME PoolAssumption ==
    /\ {MaxDentries, MaxVnodes, MaxData, MaxHandles, MaxInodes} \subseteq Nat \ {0}
ASSUME NameAssumption ==
    /\ NoName \notin Name
    /\ \A p \in Path : p.ns \in Ns /\ p.names \in Seq(Name) \ {<<>>}
ASSUME BoundAssumption ==
    {MaxMakes, MaxMounts} \subseteq Nat /\ {SelfRename, Remount} \subseteq BOOLEAN

VARIABLES
    mem,        \* the pools: dentries, vnodes and the driver's vnode data
    ns,         \* [Ns -> root dentry of the namespace, None when there is none]
    vol,        \* the mounted volume: where it is mounted, and its root vnode
    tree,       \* disk: [Ino -> kind and entries]
    birth,      \* history: how often an inode number was given out
    handles,    \* [Handle -> the driver's handle data and the caller's handle]
    mounts      \* history: how often the disk was mounted

vars == <<mem, ns, vol, tree, birth, handles, mounts>>

FreeDentry == [used |-> FALSE, name |-> NoName, node |-> None, parent |-> None, kids |-> {}]
NoInode    == [kind |-> "NONE", ents |-> [n \in Name |-> None]]
NoHandle   == [used |-> FALSE, held |-> FALSE, node |-> None, ino |-> None,
               birth |-> 0, mount |-> 0]
NoVolume   == [place |-> None, root |-> None]

\* vfs_init: the default namespace, with nothing mounted; an empty disk.
Init ==
    /\ mem = [dent |-> [d \in Dentry |-> IF d = 1 THEN [FreeDentry EXCEPT !.used = TRUE]
                                                  ELSE FreeDentry],
              vnode |-> [v \in Vnode |-> None],     \* its data, None when it is free
              data |-> [s \in Data |-> None]]       \* its inode, None when it is free
    /\ ns = [s \in Ns |-> IF s = "" THEN 1 ELSE None]
    /\ vol = NoVolume
    /\ tree = [i \in Ino |-> IF i = Root THEN [NoInode EXCEPT !.kind = "DIR"] ELSE NoInode]
    /\ birth = [i \in Ino |-> 0]
    /\ handles = [h \in Handle |-> NoHandle]
    /\ mounts = 0

Mounted == vol # NoVolume       \* else the read pointer of the volume is null

(***************************************************************************)
(* The pools                                                               *)
(***************************************************************************)
Least(S) == CHOOSE x \in S : \A y \in S : x <= y

FreeDentries(m) == {d \in Dentry : ~m.dent[d].used}
FreeVnodes(m)   == {v \in Vnode : m.vnode[v] = None}
FreeData(m)     == {s \in Data : m.data[s] = None}

CanMakeVnode(m) == FreeVnodes(m) # {} /\ FreeData(m) # {}

\* vfs_alloc_vnode, nyfs_alloc_vnode_data and vfs_init_vnode: the first free ones.
NewVnode(m) == Least(FreeVnodes(m))
MakeVnode(m, ino) ==
    LET s == Least(FreeData(m))
    IN  [m EXCEPT !.vnode[NewVnode(m)] = s, !.data[s] = ino]

\* vfs_free_vnode. The driver is not told, so its data stays in use.
FreeVnode(m, v) == [m EXCEPT !.vnode[v] = None]

\* alloc_dentry and attach_child
Attach(m, d, parent) == [m EXCEPT !.dent[parent].kids = @ \cup {d}]
MakeDentry(m, n, v, parent) ==
    LET d == Least(FreeDentries(m))
        new == [used |-> TRUE, name |-> n, node |-> v, parent |-> parent, kids |-> {}]
    IN  Attach([m EXCEPT !.dent[d] = new], d, parent)

\* detach_child and free_dentry. Its children are no longer in any list.
Detach(m, d, parent) == [m EXCEPT !.dent[parent].kids = @ \ {d}]

DropDentry(m, d) == [Detach(m, d, m.dent[d].parent) EXCEPT !.dent[d] = FreeDentry]

\* find_child
Child(m, d, n) ==
    IF \E k \in m.dent[d].kids : m.dent[k].name = n
      THEN CHOOSE k \in m.dent[d].kids : m.dent[k].name = n ELSE None

\* The inode behind the node of dentry d, None when it has no node or the node
\* has no operations.
InoOf(m, d) ==
    LET v == m.dent[d].node
    IN  IF v = None \/ m.vnode[v] = None THEN None ELSE m.data[m.vnode[v]]

(***************************************************************************)
(* Paths                                                                   *)
(***************************************************************************)
\* The driver can open the directory behind dentry d.
IsDir(m, d) == Mounted /\ InoOf(m, d) # None /\ tree[InoOf(m, d)].kind = "DIR"

\* nyfs_lookup finds the name and has room for its vnode.
Finds(m, d, n) == IsDir(m, d) /\ tree[InoOf(m, d)].ents[n] # None /\ CanMakeVnode(m)

\* Mutant: a vnode for which there is no dentry is not given back.
NoDentryKeepsVnode(m, v) == m

\* What resolve_path_internal_ns leaves when there is no dentry for the vnode v.
NoDentry(m, v) == FreeVnode(m, v)

\* One turn of the loops of resolve_path_internal_ns and resolve_parent_ns: the
\* child is cached, or it is looked up and cached.
Enter(w, n) ==
    LET k  == Child(w.m, w.at, n)
        v  == NewVnode(w.m)
        m1 == MakeVnode(w.m, tree[InoOf(w.m, w.at)].ents[n])
        m2 == MakeDentry(m1, n, v, w.at)
    IN  IF ~w.ok THEN w
        ELSE IF k # None THEN [w EXCEPT !.at = k]
        ELSE IF ~Finds(w.m, w.at, n) THEN [w EXCEPT !.ok = FALSE]
        ELSE IF FreeDentries(m1) = {} THEN [w EXCEPT !.m = NoDentry(m1, v), !.ok = FALSE]
        ELSE [w EXCEPT !.m = m2, !.at = Child(m2, w.at, n)]

Walk(m, root, names) ==
    LET w[k \in 0 .. Len(names)] ==
            IF k = 0 THEN [m |-> m, at |-> root, ok |-> root # None]
                     ELSE Enter(w[k - 1], names[k])
    IN  w[Len(names)]

Last(s)  == s[Len(s)]
Front(s) == SubSeq(s, 1, Len(s) - 1)

Resolve(p)          == Walk(mem, ns[p.ns], p.names)
ResolveParent(m, p) == Walk(m, ns[p.ns], Front(p.names))

\* The calls up to the point where they give up: what was cached stays.
GivesUp(w) ==
    /\ mem' = w.m
    /\ UNCHANGED <<ns, vol, tree, birth, handles, mounts>>

-----------------------------------------------------------------------------
(***************************************************************************)
(* Mounting (nyfs_mount with vfs_mount, nyfs_unmount with vfs_unmount)     *)
(***************************************************************************)
\* The mount path "nyfs:/": get_namespace makes the namespace and its root.
MountRoot ==
    /\ ~Mounted /\ mounts < MaxMounts
    /\ CanMakeVnode(mem)
    /\ LET v  == NewVnode(mem)
           m1 == MakeVnode(mem, Root)
           d  == IF ns["nyfs"] = None THEN Least(FreeDentries(m1)) ELSE ns["nyfs"]
       IN  /\ ns["nyfs"] = None => FreeDentries(m1) # {}
           /\ m1.dent[d].node = None
           /\ mem' = [m1 EXCEPT !.dent[d].used = TRUE, !.dent[d].node = v]
           /\ ns' = [ns EXCEPT !["nyfs"] = d]
           /\ vol' = [place |-> d, root |-> v]
    /\ mounts' = mounts + 1
    /\ UNCHANGED <<tree, birth, handles>>

\* The mount path "/n": a new child of the default root. Nothing asks whether the
\* disk was mounted elsewhere before; with Remount it may have been.
MountChild(n) ==
    /\ ~Mounted /\ mounts < MaxMounts
    /\ ns["nyfs"] # None => Remount
    /\ CanMakeVnode(mem) /\ FreeDentries(mem) # {}
    /\ Child(mem, ns[""], n) = None
    /\ LET v  == NewVnode(mem)
           m2 == MakeDentry(MakeVnode(mem, Root), n, v, ns[""])
       IN  mem' = m2 /\ vol' = [place |-> Child(m2, ns[""], n), root |-> v]
    /\ mounts' = mounts + 1
    /\ UNCHANGED <<ns, tree, birth, handles>>

\* vfs_unmount: a root only loses its node, another mount point is removed.
LeaveMountPoint(m, d) ==
    IF m.dent[d].parent = None THEN [m EXCEPT !.dent[d].node = None] ELSE DropDentry(m, d)

\* nyfs_unmount frees the root vnode with its data. Nothing looks for children
\* in the cache or for open handles.
Unmount ==
    /\ Mounted
    /\ mem' = [LeaveMountPoint(mem, vol.place) EXCEPT
                 !.vnode[vol.root] = None, !.data[mem.vnode[vol.root]] = None]
    /\ vol' = NoVolume
    /\ UNCHANGED <<ns, tree, birth, handles, mounts>>

\* vfs_register_namespace("app", "nyfs:/..."): the root is a dentry of the other
\* namespace. The namespace is made with a root of its own first.
RegisterNamespace(p) ==
    /\ p.ns = "nyfs"
    /\ LET w == Resolve(p)
       IN  IF w.ok /\ (ns["app"] # None \/ FreeDentries(w.m) # {})
             THEN /\ mem' = IF ns["app"] # None THEN w.m
                            ELSE [w.m EXCEPT !.dent[Least(FreeDentries(w.m))].used = TRUE]
                  /\ ns' = [ns EXCEPT !["app"] = w.at]
                  /\ UNCHANGED <<vol, tree, birth, handles, mounts>>
             ELSE GivesUp(w)

(***************************************************************************)
(* Handles (vfs_open with nyfs_open, vfs_reopen, vfs_close)                *)
(***************************************************************************)
\* nyfs_alloc_handle_data takes the first free slot of the driver's handles. (The
\* slot of the VFS itself is taken and given back within one call.)
FreeHandles == {h \in Handle : ~handles[h].used}

\* The handle refers to the vnode, the driver's data to the inode number.
Open(p) ==
    LET w == Resolve(p)
        i == InoOf(w.m, w.at)
    IN  IF w.ok /\ i # None /\ Mounted /\ FreeHandles # {}
          THEN /\ mem' = w.m
               /\ handles' = [handles EXCEPT ![Least(FreeHandles)] =
                    [used |-> TRUE, held |-> TRUE, node |-> w.m.dent[w.at].node,
                     ino |-> i, birth |-> birth[i], mount |-> mounts]]
               /\ UNCHANGED <<ns, vol, tree, birth, mounts>>
          ELSE GivesUp(w)

\* The copy opens the vnode of src again, and what is behind the vnode by now.
Reopen(src) ==
    /\ handles[src].held /\ FreeHandles # {}
    /\ Mounted /\ mem.vnode[handles[src].node] # None
    /\ LET i == mem.data[mem.vnode[handles[src].node]]
       IN  handles' = [handles EXCEPT ![Least(FreeHandles)] =
                         [handles[src] EXCEPT !.ino = i, !.birth = birth[i], !.mount = mounts]]
    /\ UNCHANGED <<mem, ns, vol, tree, birth, mounts>>

\* Without its vnode a handle cannot be closed: the caller forgets it, and the
\* driver's data stays in use.
Close(h) ==
    /\ handles[h].held
    /\ handles' = [handles EXCEPT ![h] =
                     IF mem.vnode[@.node] = None THEN [@ EXCEPT !.held = FALSE] ELSE NoHandle]
    /\ UNCHANGED <<mem, ns, vol, tree, birth, mounts>>

(***************************************************************************)
(* vfs_create, vfs_mkdir                                                   *)
(***************************************************************************)
FreeInodes == {i \in Ino : tree[i].kind = "NONE"}
Makes == LET sum[i \in 0 .. MaxInodes] == IF i = 0 THEN 0 ELSE sum[i - 1] + birth[i]
         IN  sum[MaxInodes]

\* What vfs_create does with the new inode i: the driver makes a vnode for it if
\* it can, and the dentry of the name gets it.
CacheNew(m, parent, n, i) ==
    LET k == Child(m, parent, n)
        v == NewVnode(m)
        m1 == MakeVnode(m, i)
    IN  IF ~CanMakeVnode(m) THEN m
        ELSE IF k # None THEN [m1 EXCEPT !.dent[k].node = v]
        ELSE IF FreeDentries(m1) = {} THEN NoDentry(m1, v)
        ELSE MakeDentry(m1, n, v, parent)

Make(p, kind) ==
    LET w == ResolveParent(mem, p)
        n == Last(p.names)
        k == Child(w.m, w.at, n)
        dir == InoOf(w.m, w.at)
    IN  IF /\ w.ok /\ IsDir(w.m, w.at)
           /\ k = None \/ w.m.dent[k].node = None
           /\ tree[dir].ents[n] = None
           /\ FreeInodes # {} /\ Makes < MaxMakes
          THEN LET i == Least(FreeInodes)
               IN  /\ tree' = [tree EXCEPT ![dir].ents[n] = i, ![i].kind = kind]
                   /\ birth' = [birth EXCEPT ![i] = @ + 1]
                   /\ mem' = CacheNew(w.m, w.at, n, i)
                   /\ UNCHANGED <<ns, vol, handles, mounts>>
          ELSE GivesUp(w)

(***************************************************************************)
(* vfs_unlink                                                              *)
(***************************************************************************)
IsEmpty(i) == \A n \in Name : tree[i].ents[n] = None

\* Mutant: the cache still has the name.
ForgetNothing(m, parent, n) == m

\* The name leaves the cache, with its vnode.
Forget(m, parent, n) ==
    LET k == Child(m, parent, n)
        v == m.dent[k].node
    IN  IF k = None THEN m
        ELSE DropDentry(IF v = None THEN m ELSE FreeVnode(m, v), k)

Unlink(p) ==
    LET w == ResolveParent(mem, p)
        n == Last(p.names)
        dir == InoOf(w.m, w.at)
    IN  IF w.ok /\ IsDir(w.m, w.at) /\ tree[dir].ents[n] # None /\ IsEmpty(tree[dir].ents[n])
          THEN /\ tree' = [tree EXCEPT ![dir].ents[n] = None, ![tree[dir].ents[n]] = NoInode]
               /\ mem' = Forget(w.m, w.at, n)
               /\ UNCHANGED <<ns, vol, birth, handles, mounts>>
          ELSE GivesUp(w)

(***************************************************************************)
(* vfs_rename                                                              *)
(***************************************************************************)
\* The dentries that the loop over parent pointers visits.
Ancestors(m, d) ==
    LET up[k \in 0 .. MaxDentries] ==
            IF k = 0 THEN {d}
            ELSE up[k - 1] \cup ({m.dent[x].parent : x \in up[k - 1]} \ {None})
    IN  up[MaxDentries]

\* Mutant: only the new parent itself is compared, as in the driver.
BelowItselfDriver(m, old, parent) == old = parent

\* The directory would move below itself.
BelowItself(m, old, parent) == old # None /\ old \in Ancestors(m, parent)

\* Mutant: the cached dentry of the old name is thrown away with its vnode.
MoveDrops(m, old, from, parent, n) ==
    IF old = None THEN m ELSE DropDentry(FreeVnode(m, m.dent[old].node), old)

\* The cached dentry of the old name moves to the new one.
Move(m, old, from, parent, n) ==
    IF old = None THEN m
    ELSE Attach([Detach(m, old, from) EXCEPT
                   !.dent[old].name = n, !.dent[old].parent = parent], old, parent)

\* What nyfs_rename asks of the two directories and names.
DriverRenames(m, from, n, to, n2) ==
    LET dir == InoOf(m, from)
        i == tree[dir].ents[n]
    IN  /\ IsDir(m, from) /\ IsDir(m, to)
        /\ i # None
        /\ \/ dir = InoOf(m, to) /\ n = n2          \* nothing to do, Nok
           \/ i # InoOf(m, to) /\ tree[InoOf(m, to)].ents[n2] = None

Rename(p, q) ==
    LET w1 == ResolveParent(mem, p)
        w2 == ResolveParent(w1.m, q)
        n  == Last(p.names)
        n2 == Last(q.names)
        k  == Child(w2.m, w1.at, n)
        from == InoOf(w2.m, w1.at)
        to == InoOf(w2.m, w2.at)
    IN  /\ p.ns = q.ns
        /\ w1.at = w2.at /\ n = n2 => SelfRename
        /\ IF ~w1.ok THEN GivesUp(w1)
           ELSE IF w2.ok /\ ~BelowItself(w2.m, k, w2.at) /\ DriverRenames(w2.m, w1.at, n, w2.at, n2)
             THEN /\ tree' = [[tree EXCEPT ![from].ents[n] = None]
                                    EXCEPT ![to].ents[n2] = tree[from].ents[n]]
                  /\ mem' = Move(Forget(w2.m, w2.at, n2), k, w1.at, w2.at, n2)
                  /\ UNCHANGED <<ns, vol, birth, handles, mounts>>
             ELSE GivesUp(w2)

Next ==
    \/ MountRoot \/ Unmount
    \/ \E n \in Name : MountChild(n)
    \/ \E p \in Path :
        \/ Open(p)
        \/ \E kind \in {"FILE", "DIR"} : Make(p, kind)
        \/ Unlink(p)
        \/ RegisterNamespace(p)
        \/ \E q \in Path : Rename(p, q)
    \/ \E h \in Handle : Reopen(h) \/ Close(h)

Spec == Init /\ [][Next]_vars

-----------------------------------------------------------------------------
(***************************************************************************)
(* Properties                                                              *)
(***************************************************************************)
\* The pools hold what their types say, and a free dentry refers to nothing, so
\* that a namespace whose root was removed has no file behind it.
TypeOK ==
    /\ mem.dent \in [Dentry -> [used : BOOLEAN, name : Name \cup {NoName},
                                node : Vnode \cup {None}, parent : Dentry \cup {None},
                                kids : SUBSET Dentry]]
    /\ \A d \in Dentry : ~mem.dent[d].used => mem.dent[d].node = None /\ mem.dent[d].kids = {}
    /\ mem.vnode \in [Vnode -> Data \cup {None}]
    /\ mem.data \in [Data -> Ino \cup {None}]
    /\ ns \in [Ns -> Dentry \cup {None}]
    /\ handles \in [Handle -> [used : BOOLEAN, held : BOOLEAN, node : Vnode \cup {None},
                               ino : Ino \cup {None}, birth : Nat, mount : Nat]]

\* The dentries a path can reach.
Reachable ==
    LET down[k \in 0 .. MaxDentries] ==
            IF k = 0 THEN {ns[s] : s \in Ns} \ {None}
            ELSE down[k - 1] \cup UNION {mem.dent[d].kids : d \in down[k - 1]}
    IN  down[MaxDentries]

\* Every child list holds live dentries, and each is in the list of its parent
\* alone: a free one would be handed out again while it is still in the list.
ListsHoldLiveDentries ==
    \A d \in Dentry : \A k \in mem.dent[d].kids :
        mem.dent[k].used /\ mem.dent[k].parent = d

\* The cache never contradicts the disk: while the volume is mounted, a cached
\* name below a cached directory is the inode the disk has under that name.
CacheAgrees ==
    Mounted =>
        \A d \in Reachable : \A k \in mem.dent[d].kids :
            InoOf(mem, d) # None =>
                /\ InoOf(mem, k) # None
                /\ InoOf(mem, k) = tree[InoOf(mem, d)].ents[mem.dent[k].name]

\* A vnode in use belongs to exactly one dentry, and its data to it alone: no call
\* has lost one, in whatever pool it ran out of room, and none is shared.
VnodesOwnedOnce ==
    LET owners(v) == {d \in Dentry : mem.dent[d].used /\ mem.dent[d].node = v}
    IN  \A v \in Vnode : mem.vnode[v] # None =>
            /\ Cardinality(owners(v)) = 1
            /\ mem.data[mem.vnode[v]] # None
            /\ \A u \in Vnode \ {v} : mem.vnode[u] # mem.vnode[v]

\* The names on the disk form a tree: no rename puts a directory below itself.
\* The driver only refuses the directory itself, the cache does the rest.
DiskIsTree ==
    LET kids(S) == (UNION {{tree[i].ents[n] : n \in Name} : i \in S}) \ {None}
        down[k \in 0 .. MaxInodes] == IF k = 0 THEN {Root} ELSE down[k - 1] \cup kids(down[k - 1])
    IN  \A i \in Ino : tree[i].kind # "NONE" => i \in down[MaxInodes]

\* The file an open handle was opened for still has its vnode, as long as the
\* disk has the file: fstat and reopen find it, whatever it was renamed to.
OpenFileKeepsVnode ==
    \A h \in Handle :
        LET o == handles[h]
        IN  o.held /\ Mounted /\ o.mount = mounts
                /\ tree[o.ino].kind # "NONE" /\ birth[o.ino] = o.birth =>
            mem.vnode[o.node] # None /\ mem.data[mem.vnode[o.node]] = o.ino
=============================================================================
