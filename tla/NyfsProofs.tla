----------------------------- MODULE NyfsProofs -----------------------------
(***************************************************************************)
(* Proofs about Nyfs, for disks, directories and names of every size: what *)
(* a path leads to stays whole, at every write, failure and crash.         *)
(***************************************************************************)
EXTENDS Nyfs, NatFacts, FiniteSetTheorems, TLAPS

(***************************************************************************)
(* Types                                                                   *)
(***************************************************************************)
Ptr    == Block \cup {None}
InodeT == [type : {"NONE", "FILE", "DIR"}, data : Ptr, size : Nat, dir : Ptr, count : Int]
Ext    == [blk : Block, data : Seq(Block) \ {<<>>}]
RecT   == [ino : Ino, next : Nat, hash : Name, name : Name \cup {None}]
AreaT  == [count : Int, next : Nat \ {0}, head : [Bucket -> Nat], rec : Seq(RecT)]

GrowPc == {"grow", "ext", "prep", "entry", "link"}
Pc == GrowPc \cup
      {"idle", "flush", "undo", "ialloc", "ifree", "mkarea", "areahead", "buckets", "child",
       "insert", "dirent", "name", "slot", "header", "unslot", "unheader", "dinode",
       "dinode2", "free", "free2", "data", "inode"}
Op == {"none", "write", "create", "mkdir", "unlink", "rename", "restore"}

Frame ==
    [pc : Pc, op : Op, dir : Ino \cup {None}, name : Name \cup {None}, dir2 : Ino \cup {None},
     name2 : Name \cup {None}, ino : Ino \cup {None}, node : InodeT, end : Nat,
     copy : [Ino -> InodeT], root : Ptr, need : Nat, ret : Pc, data : Ptr, ext : Ptr,
     idx : Nat, todo : Seq(Block), cont : Pc]

\* A stream has extent blocks, or no root; the root is the first of them.
Grounded(r) == r # None => chain[r] # <<>>

DiskInv ==
    /\ bmap \in SUBSET Block /\ imap \in SUBSET Ino
    /\ itab \in [Ino -> InodeT]
    /\ chain \in [Block -> Seq(Ext)]
    /\ area \in [Block -> AreaT]
    /\ \A b \in Block : chain[b] # <<>> => chain[b][1].blk = b
    /\ \A i \in Ino : Grounded(itab[i].data) /\ Grounded(itab[i].dir)

FrameInv ==
    /\ c \in Frame
    /\ \A i \in Ino : Grounded(c.copy[i].data) /\ Grounded(c.copy[i].dir)
    /\ Grounded(c.root) /\ Grounded(c.node.data) /\ Grounded(c.node.dir)

TypeInv == DiskInv /\ FrameInv

(***************************************************************************)
(* The phases of a call. At is the step that comes next, once the          *)
(* superblock is written.                                                  *)
(***************************************************************************)
At == IF c.pc = "flush" THEN c.cont ELSE c.pc

InGrow   == At \in GrowPc
Naming   == {"create", "mkdir", "rename", "restore"}

\* The growing stream is c.root.
Building == InGrow \/ At \in {"data", "inode", "areahead", "buckets"}

\* nyfs_dirhash_insert after its first reads, until the name is visible.
Inserting == (InGrow /\ c.ret \in {"dirent", "name"}) \/ At \in {"dirent", "name", "slot"}

\* The record has been written.
Recorded == (InGrow /\ c.ret = "name") \/ At \in {"name", "slot"}

\* A create or mkdir whose inode has no name yet.
Creating ==
    c.op \in {"create", "mkdir"} /\
    (InGrow \/ At \in {"mkarea", "areahead", "buckets", "child", "insert", "dirent", "name", "slot"})

\* The new inode is on the disk.
ChildWritten == Creating /\ (Inserting \/ At = "insert")

\* A rename between the removal of the old name and the new one.
Unplaced ==
    /\ c.op \in {"rename", "restore"}
    /\ InGrow \/ At \in {"unheader", "insert", "dirent", "name", "slot", "undo"}

\* Steps an operation can be at.
OpsAt(p) ==
    CASE p = "idle" -> Op
      [] p \in {"data", "inode"} -> {"write"}
      [] p \in {"mkarea", "areahead", "buckets"} -> {"mkdir"}
      [] p \in {"ialloc", "child"} -> {"create", "mkdir"}
      [] p \in {"insert", "dirent", "name", "slot", "header"} -> Naming
      [] p \in {"unslot", "unheader"} -> {"unlink", "rename"}
      [] p = "dinode" -> Naming \cup {"unlink"}
      [] p = "dinode2" -> {"rename"}
      [] p \in {"free", "free2"} -> {"unlink"}
      [] p = "ifree" -> {"create", "mkdir", "unlink"}
      [] p \in GrowPc \cup {"undo"} -> Naming \cup {"write"}
      [] OTHER -> {}

\* What nyfs_extent_write_at was called for.
RetsOf(o) ==
    CASE o = "write" -> {"data"}
      [] o = "mkdir" -> {"areahead", "buckets", "dirent", "name"}
      [] OTHER -> {"dirent", "name"}

PhaseInv ==
    /\ c.op \in OpsAt(At)
    /\ c.pc = "idle" => c = NoCall
    /\ c.pc = "flush" => c.cont \in {"ext", "prep", "entry", "link", "undo", "free", "free2",
                                   "mkarea", "child", "idle"}
    /\ InGrow => c.ret \in RetsOf(c.op)
    /\ At \in {"areahead", "buckets"} => c.ret = At /\ c.root # None
    /\ InGrow /\ c.ret = "buckets" => c.root # None
    /\ InGrow /\ c.ret = "areahead" => c.need # 0
    /\ At \in {"ext", "prep", "entry", "link"} => c.data \in Block
    /\ At = "prep" => c.ext \in Block
    /\ At \in {"entry", "link"} => c.root # None
    /\ At = "entry" => c.ext = None

(***************************************************************************)
(* Directory areas. Records have smaller offsets along a bucket, and the   *)
(* names in a bucket are distinct and belong there. lim is the end of the  *)
(* part in use.                                                            *)
(***************************************************************************)
Sorted(a, lim) ==
    /\ \A b \in Bucket : a.head[b] < lim
    /\ lim <= Len(a.rec) + 1
    /\ \A k \in DOMAIN a.rec : k < lim => a.rec[k].next < k

Live(a, n) == {Walk(a, n)[k] : k \in 0 .. Len(a.rec)} \ {None}

Distinct(a) ==
    \A n \in Name : \A x \in Live(a, n) :
        /\ a.rec[x].hash = a.rec[x].name /\ BucketOf[a.rec[x].name] = BucketOf[n]
        /\ \A y \in Live(a, n) : a.rec[x].name = a.rec[y].name => x = y

AreaOk(a, lim) == a \in AreaT /\ Sorted(a, lim) /\ Distinct(a)

\* Until the header is written, the new record is linked but behind the end.
Limit(b) == IF c.pc = "header" /\ c.root = b THEN area[b].next + 1 ELSE area[b].next

AreaInv ==
    /\ \A b \in Block : AreaOk(area[b], Limit(b))
    /\ Inserting \/ At = "header" => c.root # None /\ c.idx = area[c.root].next
    /\ Recorded =>
          /\ c.idx \in DOMAIN area[c.root].rec
          /\ area[c.root].rec[c.idx].ino = c.ino
          /\ area[c.root].rec[c.idx].hash = InName
          /\ area[c.root].rec[c.idx].next = area[c.root].head[BucketOf[InName]]
          /\ At = "slot" => area[c.root].rec[c.idx].name = InName

(***************************************************************************)
(* Names. L is a set of inodes that are whole: it has the root, and what   *)
(* the names in its directories stand for.                                 *)
(***************************************************************************)
IsDir(i) == itab[i].type = "DIR"
Kid(d, n) == IF IsDir(d) THEN Lookup(AreaOf(d), n) ELSE None

NameInv(L) ==
    /\ Root \in L /\ IsDir(Root) /\ L \subseteq imap
    /\ \A i \in L : itab[i].type # "NONE" /\ (IsDir(i) => itab[i].dir # None)
    /\ \A d \in L, n \in Name : Kid(d, n) # None => Kid(d, n) \in L \ {Root}
    /\ \A d, e \in L, m, n \in Name : Kid(d, m) # None /\ Kid(d, m) = Kid(e, n) => d = e /\ m = n
    /\ OpenInodes \subseteq L

\* The call works in directory d, and on copies of inodes in which only the count changes.
Works(L, d, n) ==
    /\ d \in L /\ IsDir(d) /\ n \in Name
    /\ c.copy[d].type = "DIR" /\ c.copy[d].dir = itab[d].dir
    /\ c.copy[d].data = itab[d].data /\ c.copy[d].size = itab[d].size

\* A write has a path to its file, and goes on from the inode it has read.
WriteOk(L) ==
    c.op = "write" =>
        /\ c.ino \in L /\ c.node = itab[c.ino]
        /\ InGrow => c.need = BlocksFor(c.end)
        /\ Building => c.node.data \in {None, c.root}
        /\ At \in {"data", "inode"} => Total(c.root) >= BlocksFor(c.end)

DirsOk(L) ==
    /\ c.op \in Naming \cup {"unlink"} => Works(L, c.dir, c.name)
    /\ c.op = "rename" => Works(L, c.dir2, c.name2)
    /\ Inserting => c.root = itab[InDir].dir

\* The inode that a create or mkdir makes, and the directory area.
NewOk(L) ==
    Creating =>
        /\ c.ino \in imap \ L
        /\ c.node.type = (IF c.op = "mkdir" THEN "DIR" ELSE "FILE")
        /\ c.node.data = None /\ c.node.size = 0
        /\ c.op = "create" => c.node.dir = None
        /\ ChildWritten => itab[c.ino] = c.node
        /\ c.op = "mkdir" /\ (At = "child" \/ ChildWritten) =>
              c.node.dir # None /\ area[c.node.dir] = EmptyArea
        /\ At = "buckets" \/ (InGrow /\ c.ret = "buckets") => area[c.root] = EmptyArea

\* What is about to be freed has no name.
GoneOk(L) ==
    (\/ At = "ifree" \/ (At = "undo" /\ c.op \in {"create", "mkdir"})
     \/ c.op = "unlink" /\ At # "unslot")
    => c.ino \in Ino \ L

\* The names a call has found, or found missing.
PlaceOk(L) ==
    /\ Creating \/ At = "ialloc" \/ Unplaced => Kid(c.dir, c.name) = None
    /\ Unplaced =>
          /\ c.ino \in L \ {Root}
          /\ \A d \in L, n \in Name : Kid(d, n) # c.ino
          /\ c.op = "rename" => Kid(c.dir2, c.name2) = None
    /\ At = "unslot" =>
          /\ c.ino # None /\ Kid(c.dir, c.name) = c.ino
          /\ c.op = "rename" => Kid(c.dir2, c.name2) = None
          /\ c.op = "unlink" => c.ino # c.dir /\ c.ino \notin OpenInodes /\ c.node = itab[c.ino]

CallInv(L) == WriteOk(L) /\ DirsOk(L) /\ NewOk(L) /\ GoneOk(L) /\ PlaceOk(L)

(***************************************************************************)
(* Blocks. Cur is the root of a stream, as the call in progress knows it.  *)
(***************************************************************************)
Cur(i, f) ==
    IF Creating /\ i = c.ino
      THEN IF f = "dir" /\ Building /\ c.ret \in {"areahead", "buckets"} THEN c.root ELSE c.node[f]
      ELSE IF c.op = "write" /\ i = c.ino /\ f = "data" /\ Building THEN c.root ELSE itab[i][f]

Members(L) == L \cup (IF Creating THEN {c.ino} ELSE {})

\* Blocks that are allocated but not part of a stream yet.
Held ==
    (IF At \in {"ext", "prep", "entry", "link"} THEN {c.data} ELSE {})
    \cup (IF At = "prep" \/ (At = "link" /\ c.ext # None) THEN {c.ext} ELSE {})

Blk(r) == RangeOf(ChainBlocks(r))

\* Blocks that the call in progress is about to free.
Doomed ==
    IF At \in {"undo", "free", "free2"} THEN RangeOf(c.todo) ELSE {}
Left == IF c.op = "unlink" /\ At # "unslot" THEN Blk(c.node.data) \cup Blk(c.node.dir) ELSE {}

Once(r) == Cardinality(Blk(r)) = Len(ChainBlocks(r))

BlockInv(L) ==
    /\ \A i \in Members(L), f \in Stream :
          /\ Blk(Cur(i, f)) \subseteq bmap /\ Once(Cur(i, f))
          /\ Blk(Cur(i, f)) \cap (Held \cup Doomed \cup Left) = {}
          /\ \A j \in Members(L), g \in Stream :
                <<i, f>> # <<j, g>> => Blk(Cur(i, f)) \cap Blk(Cur(j, g)) = {}
    /\ Held \subseteq bmap
    /\ At = "prep" \/ (At = "link" /\ c.ext # None) => c.data # c.ext

SizeInv(L) == \A i \in L : itab[i].size <= Total(itab[i].data) * BlockUnits

WholeInv(L) ==
    /\ TypeInv /\ PhaseInv /\ AreaInv
    /\ NameInv(L) /\ CallInv(L) /\ BlockInv(L) /\ SizeInv(L)

Inv == \E L \in SUBSET Ino : WholeInv(L)

-----------------------------------------------------------------------------
(***************************************************************************)
(* Lemmas about directory areas                                            *)
(***************************************************************************)
\* Every name has a bucket.
LEMMA BucketOfName ==
    ASSUME NEW n \in Name
    PROVE  BucketOf[n] \in Bucket
  BY DEF Bucket

\* The walk of a bucket goes down, and reaches the end.
LEMMA WalkFacts ==
    ASSUME NEW lim \in Nat, NEW a \in AreaT, Sorted(a, lim), NEW n \in Name
    PROVE  \A W, N : W = Walk(a, n) /\ N = Len(a.rec) =>
             /\ W \in [0 .. N -> 0 .. lim - 1] /\ W[0] = a.head[BucketOf[n]]
             /\ \A k \in 1 .. N : W[k] = IF W[k - 1] = None THEN None ELSE a.rec[W[k - 1]].next
             /\ W[N] = None
  <1> SUFFICES ASSUME NEW W, W = Walk(a, n), NEW N \in Nat, N = Len(a.rec)
               PROVE  /\ W \in [0 .. N -> 0 .. lim - 1] /\ W[0] = a.head[BucketOf[n]]
                      /\ \A k \in 1 .. N : W[k] = IF W[k - 1] = None THEN None ELSE a.rec[W[k - 1]].next
                      /\ W[N] = None
    <2>1. a.rec \in Seq(RecT)
      BY DEF AreaT
    <2>2. Len(a.rec) \in Nat
      BY <2>1
    <2> QED
      BY <2>2, Zenon
  <1> DEFINE step(x) == IF x = None THEN None ELSE a.rec[x].next
             Eq(f) == f = [k \in 0 .. Len(a.rec) |->
                             IF k = 0 THEN a.head[BucketOf[n]]
                             ELSE IF f[k - 1] = None THEN None ELSE a.rec[f[k - 1]].next]
  <1>1. PICK h \in Nat : h = a.head[BucketOf[n]] /\ h < lim
    BY BucketOfName DEF AreaT, Sorted
  <1>2. PICK S : S = 0 .. lim - 1
    OBVIOUS
  <1>3. h \in S
    BY <1>1, <1>2
  <1>4. /\ a.rec \in Seq(RecT) /\ \A x \in 1 .. N : a.rec[x].next \in Nat
        /\ lim <= N + 1 /\ \A x \in 1 .. N : x < lim => a.rec[x].next < x
    <2>1. a.rec \in Seq(RecT) /\ DOMAIN a.rec = 1 .. N
      BY DEF AreaT
    <2>2. \A x \in 1 .. N : a.rec[x] \in RecT
      BY <2>1
    <2> QED
      BY <2>1, <2>2 DEF RecT, Sorted
  <1>5. \A x \in S : step(x) \in S /\ (x # 0 => step(x) < x)
    BY <1>2, <1>4 DEF None
  <1>6. W = CHOOSE f : Eq(f)
    BY DEF Walk
  <1> DEFINE F == [k \in 1 .. N |-> [x \in S |-> step(x)]]
  <1>7. PICK f \in [0 .. N -> S] : Iterates(f, N, F, h)
    <2>1. F \in [1 .. N -> [S -> S]]
      BY <1>5
    <2> HIDE DEF F
    <2> QED
      BY <1>3, <2>1, IterationExists
  <1>8. \A k \in 1 .. N : f[k] = step(f[k - 1])
    <2> SUFFICES ASSUME NEW k \in 1 .. N PROVE f[k] = step(f[k - 1])
      OBVIOUS
    <2>1. k - 1 \in 0 .. N
      OBVIOUS
    <2>2. f[k - 1] \in S
      BY <2>1
    <2>3. f[k] = F[k][f[k - 1]]
      BY <1>7 DEF Iterates
    <2> QED
      BY <2>2, <2>3
  <1>9. Eq(f)
    <2>1. f = [k \in 0 .. N |-> f[k]]
      OBVIOUS
    <2>2. \A k \in 0 .. N : f[k] = IF k = 0 THEN h ELSE step(f[k - 1])
      BY <1>7, <1>8 DEF Iterates
    <2>3. f = [k \in 0 .. N |-> IF k = 0 THEN h ELSE step(f[k - 1])]
      BY <2>1, <2>2
    <2> QED
      BY <1>1, <2>3
  <1>10. Eq(W)
    <2> HIDE DEF Eq
    <2> QED
      BY <1>6, <1>9
  <1> HIDE DEF step
  <1>11. W = [k \in 0 .. N |-> IF k = 0 THEN h ELSE step(W[k - 1])]
    BY <1>1, <1>10 DEF step
  <1>12. W[0] = h /\ \A k \in 1 .. N : W[k] = step(W[k - 1])
    <2>1. \A k \in 0 .. N : W[k] = IF k = 0 THEN h ELSE step(W[k - 1])
      BY <1>11
    <2> QED
      BY <2>1
  <1>13. \A k \in 0 .. N : W[k] \in S
    <2>1. \A k \in 1 .. N : W[k - 1] \in S => W[k] \in S
      BY <1>5, <1>12
    <2> QED
      BY <1>3, <1>12, <2>1, IterationKeeps
  <1>14. W \in [0 .. N -> S]
    BY <1>11, <1>13
  <1>15. \A k \in 0 .. N : W[k] = 0 \/ W[k] + k <= lim - 1
    <2> DEFINE g == [k \in 0 .. N |-> IF W[k] = 0 \/ W[k] + k <= lim - 1 THEN 1 ELSE 0]
    <2>1. g[0] \in {1}
      BY <1>2, <1>13
    <2>2. \A k \in 1 .. N : g[k - 1] \in {1} => g[k] \in {1}
      <3> SUFFICES ASSUME NEW k \in 1 .. N, g[k - 1] \in {1} PROVE g[k] \in {1}
        OBVIOUS
      <3>1. k - 1 \in 0 .. N /\ k \in 0 .. N
        OBVIOUS
      <3>2. W[k - 1] = 0 \/ W[k - 1] + (k - 1) <= lim - 1
        BY <3>1
      <3>3. W[k - 1] \in 0 .. lim - 1 /\ W[k] \in 0 .. lim - 1
        BY <1>2, <1>13, <3>1
      <3>4. W[k] = 0 \/ W[k] < W[k - 1]
        BY <1>2, <1>5, <1>12, <3>3 DEF step, None
      <3> QED
        BY <3>1, <3>2, <3>3, <3>4
    <2>3. \A k \in 0 .. N : g[k] \in {1}
      <3> HIDE DEF g
      <3> QED
        BY <2>1, <2>2, IterationKeeps
    <2> QED
      BY <2>3
  <1>16. W[N] = 0
    BY <1>2, <1>4, <1>13, <1>15
  <1> QED
    BY <1>1, <1>2, <1>12, <1>14, <1>16 DEF step, None

\* The records of a bucket are those that its head leads to.
LEMMA LiveFacts ==
    ASSUME NEW lim \in Nat, NEW a \in AreaT, Sorted(a, lim), NEW n \in Name
    PROVE  /\ Live(a, n) \subseteq {x \in DOMAIN a.rec : x < lim} /\ None \notin Live(a, n)
           /\ a.head[BucketOf[n]] \in Live(a, n) \cup {None}
           /\ \A x \in Live(a, n) : a.rec[x].next \in Live(a, n) \cup {None}
           /\ \A X : /\ a.head[BucketOf[n]] \in X \cup {None}
                     /\ \A x \in X \cap Live(a, n) : a.rec[x].next \in X \cup {None}
                     => Live(a, n) \subseteq X
  <1>0. PICK W : W = Walk(a, n)
    OBVIOUS
  <1>1. PICK N \in Nat : N = Len(a.rec) /\ DOMAIN a.rec = 1 .. N
    BY DEF AreaT
  <1>2. /\ W \in [0 .. N -> 0 .. lim - 1] /\ W[0] = a.head[BucketOf[n]]
        /\ \A k \in 1 .. N : W[k] = IF W[k - 1] = None THEN None ELSE a.rec[W[k - 1]].next
        /\ W[N] = None
    <2>1. \A V, M : V = Walk(a, n) /\ M = Len(a.rec) =>
             /\ V \in [0 .. M -> 0 .. lim - 1] /\ V[0] = a.head[BucketOf[n]]
             /\ \A k \in 1 .. M : V[k] = IF V[k - 1] = None THEN None ELSE a.rec[V[k - 1]].next
             /\ V[M] = None
      BY WalkFacts, Zenon
    <2> QED
      BY <1>0, <1>1, <2>1, Zenon
  <1>3. lim <= N + 1
    BY <1>1 DEF Sorted
  <1>4. Live(a, n) = {W[k] : k \in 0 .. N} \ {None}
    BY <1>0, <1>1 DEF Live
  <1>5. Live(a, n) \subseteq {x \in DOMAIN a.rec : x < lim} /\ None \notin Live(a, n)
    <2>1. \A k \in 0 .. N : W[k] \in 0 .. lim - 1
      BY <1>2
    <2> QED
      BY <1>1, <1>3, <1>4, <2>1 DEF None
  <1>6. a.head[BucketOf[n]] \in Live(a, n) \cup {None}
    BY <1>2, <1>4
  <1>7. \A x \in Live(a, n) : a.rec[x].next \in Live(a, n) \cup {None}
    <2> SUFFICES ASSUME NEW k \in 0 .. N, W[k] # None PROVE a.rec[W[k]].next \in Live(a, n) \cup {None}
      BY <1>4
    <2>1. k # N
      BY <1>2
    <2>2. PICK j \in 1 .. N : j = k + 1 /\ j - 1 = k /\ j \in 0 .. N
      BY <2>1
    <2>3. W[j] = a.rec[W[k]].next
      BY <1>2, <2>2
    <2> QED
      BY <1>4, <2>2, <2>3
  <1>8. ASSUME NEW X, a.head[BucketOf[n]] \in X \cup {None},
               \A x \in X \cap Live(a, n) : a.rec[x].next \in X \cup {None}
        PROVE  Live(a, n) \subseteq X
    <2>1. PICK I : I = X \cup {None}
      OBVIOUS
    <2>2. W[0] \in I
      BY <1>2, <1>8, <2>1
    <2>3. \A k \in 1 .. N : W[k - 1] \in I => W[k] \in I
      <3> SUFFICES ASSUME NEW k \in 1 .. N, W[k - 1] \in I PROVE W[k] \in I
        OBVIOUS
      <3>1. CASE W[k - 1] = None
        BY <1>2, <2>1, <3>1
      <3>2. CASE W[k - 1] # None
        <4>1. k - 1 \in 0 .. N
          OBVIOUS
        <4>2. W[k - 1] \in X \cap Live(a, n)
          BY <1>4, <2>1, <3>2, <4>1
        <4> QED
          BY <1>2, <1>8, <2>1, <3>2, <4>2
      <3> QED
        BY <3>1, <3>2
    <2>4. \A k \in 0 .. N : W[k] \in I
      BY <2>2, <2>3, IterationKeeps
    <2> QED
      BY <1>4, <2>1, <2>4
  <1> QED
    BY <1>5, <1>6, <1>7, <1>8

\* What nyfs_dirhash_lookup finds.
LEMMA LookupFacts ==
    ASSUME NEW lim \in Nat, NEW a \in AreaT, Sorted(a, lim), NEW n \in Name
    PROVE  /\ LookupEnds(a, n)
           /\ (\A x \in Live(a, n) : ~Matches(a.rec[x], n)) => Lookup(a, n) = None /\ Hits(a, n) = {}
           /\ (\E x \in Live(a, n) : Matches(a.rec[x], n)) =>
                /\ Hits(a, n) # {} /\ FirstHit(a, n) \in Hits(a, n)
                /\ Walk(a, n)[FirstHit(a, n)] \in Live(a, n)
                /\ Matches(a.rec[Walk(a, n)[FirstHit(a, n)]], n)
                /\ Lookup(a, n) = a.rec[Walk(a, n)[FirstHit(a, n)]].ino
  <1>0. PICK W : W = Walk(a, n)
    OBVIOUS
  <1>1. PICK N \in Nat : N = Len(a.rec) /\ DOMAIN a.rec = 1 .. N
    BY DEF AreaT
  <1>2. W \in [0 .. N -> 0 .. lim - 1] /\ W[N] = None
    BY <1>0, <1>1, WalkFacts
  <1>3. Live(a, n) = {W[k] : k \in 0 .. N} \ {None}
    BY <1>0, <1>1 DEF Live
  <1>4. Hits(a, n) = {k \in 0 .. N : W[k] # None /\ Matches(a.rec[W[k]], n)}
    BY <1>0, <1>2 DEF Hits
  <1>5. LookupEnds(a, n)
    BY <1>0, <1>1, <1>2 DEF LookupEnds
  <1>6. Hits(a, n) # {} => FirstHit(a, n) \in Hits(a, n)
    <2> SUFFICES ASSUME Hits(a, n) # {} PROVE FirstHit(a, n) \in Hits(a, n)
      OBVIOUS
    <2>1. Hits(a, n) \in SUBSET Nat
      BY <1>4
    <2>2. \E k \in Hits(a, n) : \A x \in Hits(a, n) : k <= x
      BY <2>1, LeastNatural
    <2> QED
      BY <2>2 DEF FirstHit
  <1>7. ASSUME \A x \in Live(a, n) : ~Matches(a.rec[x], n)
        PROVE  Hits(a, n) = {}
    BY <1>3, <1>4, <1>7
  <1>8. ASSUME NEW x \in Live(a, n), Matches(a.rec[x], n)
        PROVE  Hits(a, n) # {}
    BY <1>3, <1>4, <1>8
  <1>9. \A k \in Hits(a, n) : W[k] \in Live(a, n) /\ Matches(a.rec[W[k]], n)
    BY <1>3, <1>4
  <1>10. Hits(a, n) = {} => Lookup(a, n) = None
    BY DEF Lookup
  <1>11. Hits(a, n) # {} => Lookup(a, n) = a.rec[W[FirstHit(a, n)]].ino
    BY <1>0 DEF Lookup
  <1> QED
    BY <1>5, <1>6, <1>7, <1>8, <1>9, <1>10, <1>11, <1>0

\* With distinct names: the name of a record leads to it.
LEMMA LookupOf ==
    ASSUME NEW lim \in Nat, NEW a, AreaOk(a, lim), NEW n \in Name
    PROVE  /\ Lookup(a, n) \in Ino \cup {None}
           /\ \A x \in Live(a, n) : a.rec[x].name = n => Lookup(a, n) = a.rec[x].ino
           /\ Lookup(a, n) # None => \E x \in Live(a, n) : a.rec[x].name = n /\ Lookup(a, n) = a.rec[x].ino
           /\ Lookup(a, n) = None => \A x \in Live(a, n) : a.rec[x].name # n
  <1>1. a \in AreaT /\ Sorted(a, lim) /\ Distinct(a)
    BY DEF AreaOk
  <1>2. Live(a, n) \subseteq DOMAIN a.rec
    BY <1>1, LiveFacts
  <1>3. \A x \in Live(a, n) : a.rec[x].ino \in Ino
    <2>1. a.rec \in Seq(RecT)
      BY <1>1 DEF AreaT
    <2>2. \A x \in Live(a, n) : a.rec[x] \in RecT
      BY <1>2, <2>1
    <2> QED
      BY <2>2 DEF RecT
  <1>4. \A x \in Live(a, n) : Matches(a.rec[x], n) <=> a.rec[x].name = n
    BY <1>1 DEF Distinct, Matches
  <1>5. \A x, y \in Live(a, n) : a.rec[x].name = a.rec[y].name => x = y
    BY <1>1 DEF Distinct
  <1>6. None \notin Ino
    BY DEF Ino, None
  <1>7. CASE \A x \in Live(a, n) : a.rec[x].name # n
    <2>1. Lookup(a, n) = None
      BY <1>1, <1>4, <1>7, LookupFacts
    <2> QED
      BY <1>7, <2>1
  <1>8. CASE \E x \in Live(a, n) : a.rec[x].name = n
    <2>1. PICK x \in Live(a, n) : a.rec[x].name = n /\ Lookup(a, n) = a.rec[x].ino
      <3>1. \E x \in Live(a, n) : Matches(a.rec[x], n)
        BY <1>4, <1>8
      <3>2. PICK x : x = Walk(a, n)[FirstHit(a, n)]
        OBVIOUS
      <3>3. x \in Live(a, n) /\ Matches(a.rec[x], n) /\ Lookup(a, n) = a.rec[x].ino
        BY <1>1, <3>1, <3>2, LookupFacts
      <3> QED
        BY <1>4, <3>3
    <2> QED
      BY <1>3, <1>5, <1>6, <2>1
  <1> QED
    BY <1>7, <1>8

\* A bucket is a list: a record has one predecessor at most, and the head none.
LEMMA ListFacts ==
    ASSUME NEW lim \in Nat, NEW a \in AreaT, Sorted(a, lim), NEW n \in Name
    PROVE  /\ \A x \in Live(a, n) : x \in Nat /\ x <= a.head[BucketOf[n]] /\ a.rec[x].next < x
                                    /\ a.rec[x].next \in Nat
           /\ \A x, y \in Live(a, n) :
                a.rec[x].next # None /\ a.rec[x].next = a.rec[y].next => x = y
  <1>0. PICK W : W = Walk(a, n)
    OBVIOUS
  <1>1. PICK N \in Nat : N = Len(a.rec) /\ DOMAIN a.rec = 1 .. N
    BY DEF AreaT
  <1>2. /\ W \in [0 .. N -> 0 .. lim - 1] /\ W[0] = a.head[BucketOf[n]]
        /\ \A k \in 1 .. N : W[k] = IF W[k - 1] = None THEN None ELSE a.rec[W[k - 1]].next
        /\ W[N] = None
    <2>1. \A V, M : V = Walk(a, n) /\ M = Len(a.rec) =>
             /\ V \in [0 .. M -> 0 .. lim - 1] /\ V[0] = a.head[BucketOf[n]]
             /\ \A k \in 1 .. M : V[k] = IF V[k - 1] = None THEN None ELSE a.rec[V[k - 1]].next
             /\ V[M] = None
      BY WalkFacts, Zenon
    <2> QED
      BY <1>0, <1>1, <2>1, Zenon
  <1>3. Live(a, n) = {W[k] : k \in 0 .. N} \ {None}
    BY <1>0, <1>1 DEF Live
  <1>4. \A x \in Live(a, n) : x \in Nat /\ a.rec[x].next < x /\ a.rec[x].next \in Nat
    <2> SUFFICES ASSUME NEW x \in Live(a, n) PROVE x \in Nat /\ a.rec[x].next < x /\ a.rec[x].next \in Nat
      OBVIOUS
    <2>1. x \in DOMAIN a.rec /\ x < lim
      BY LiveFacts
    <2>2. a.rec[x] \in RecT
      BY <2>1 DEF AreaT
    <2> QED
      BY <1>1, <2>1, <2>2 DEF Sorted, RecT
  <1>5. ASSUME NEW i \in 0 .. N
        PROVE  \A j \in 0 .. N : i < j => W[j] = 0 \/ W[j] < W[i]
    <2> DEFINE g == [j \in 0 .. N |-> IF i < j => W[j] = 0 \/ W[j] < W[i] THEN 1 ELSE 0]
    <2>1. g[0] \in {1}
      OBVIOUS
    <2>2. \A j \in 1 .. N : g[j - 1] \in {1} => g[j] \in {1}
      <3> SUFFICES ASSUME NEW j \in 1 .. N, g[j - 1] \in {1} PROVE g[j] \in {1}
        OBVIOUS
      <3>1. j - 1 \in 0 .. N /\ j \in 0 .. N
        OBVIOUS
      <3>2. i < j - 1 => W[j - 1] = 0 \/ W[j - 1] < W[i]
        BY <3>1
      <3>3. W[j - 1] \in Nat /\ W[j] \in Nat /\ W[i] \in Nat
        BY <1>2, <3>1
      <3>4. W[j - 1] # 0 => W[j] < W[j - 1]
        <4>1. W[j - 1] # 0 => W[j - 1] \in Live(a, n)
          BY <1>3, <3>1 DEF None
        <4> QED
          BY <1>2, <1>4, <4>1 DEF None
      <3>5. W[j - 1] = 0 => W[j] = 0
        BY <1>2 DEF None
      <3>6. i < j => i < j - 1 \/ i = j - 1
        OBVIOUS
      <3> QED
        BY <3>1, <3>2, <3>3, <3>4, <3>5, <3>6
    <2>3. \A j \in 0 .. N : g[j] \in {1}
      <3> HIDE DEF g
      <3> QED
        BY <2>1, <2>2, IterationKeeps
    <2> QED
      BY <2>3
  <1>6. \A x \in Live(a, n) : x <= a.head[BucketOf[n]]
    <2> SUFFICES ASSUME NEW k \in 0 .. N, W[k] # None PROVE W[k] <= W[0]
      BY <1>2, <1>3
    <2>1. 0 \in 0 .. N /\ W[k] \in Nat /\ W[0] \in Nat
      BY <1>2
    <2>2. k = 0 \/ W[k] < W[0]
      BY <1>5, <2>1 DEF None
    <2> QED
      BY <2>1, <2>2
  <1>7. \A x, y \in Live(a, n) : a.rec[x].next # None /\ a.rec[x].next = a.rec[y].next => x = y
    <2> SUFFICES ASSUME NEW i \in 0 .. N, NEW j \in 0 .. N, W[i] # None, W[j] # None,
                        a.rec[W[i]].next # None, a.rec[W[i]].next = a.rec[W[j]].next
                 PROVE  W[i] = W[j]
      BY <1>3
    <2>1. i # N /\ j # N
      BY <1>2
    <2>2. PICK k \in 1 .. N, m \in 1 .. N : k = i + 1 /\ m = j + 1 /\ k - 1 = i /\ m - 1 = j
      <3>1. i + 1 \in 1 .. N /\ j + 1 \in 1 .. N /\ (i + 1) - 1 = i /\ (j + 1) - 1 = j
        BY <2>1
      <3> QED
        BY <3>1
    <2>3. W[k] = W[m] /\ W[k] # 0
      BY <1>2, <2>2 DEF None
    <2>4. k \in 0 .. N /\ m \in 0 .. N /\ W[k] \in Nat
      BY <1>2
    <2>5. ~(k < m) /\ ~(m < k)
      BY <1>5, <2>3, <2>4
    <2> QED
      BY <2>2, <2>5
  <1> QED
    BY <1>4, <1>6, <1>7

\* The walk depends on the bucket only.
LEMMA SameBucket ==
    ASSUME NEW a, NEW m \in Name, NEW n \in Name, BucketOf[m] = BucketOf[n]
    PROVE  Live(a, m) = Live(a, n)
  <1>1. Walk(a, m) = Walk(a, n)
    BY DEF Walk
  <1> QED
    BY <1>1 DEF Live

\* Lookups depend on the head and on the records in use.
LEMMA SameRecords ==
    ASSUME NEW lim \in Nat, NEW a, AreaOk(a, lim), NEW lim2 \in Nat, NEW a2 \in AreaT, Sorted(a2, lim2),
           a2.head = a.head,
           \A x \in DOMAIN a.rec : x < lim => x \in DOMAIN a2.rec /\ a2.rec[x] = a.rec[x]
    PROVE  /\ AreaOk(a2, lim2)
           /\ \A n \in Name : Live(a2, n) = Live(a, n) /\ Lookup(a2, n) = Lookup(a, n)
  <1>1. a \in AreaT /\ Sorted(a, lim) /\ Distinct(a)
    BY DEF AreaOk
  <1>2. ASSUME NEW n \in Name
        PROVE  Live(a2, n) = Live(a, n) /\ \A x \in Live(a, n) : a2.rec[x] = a.rec[x]
    <2>1. /\ Live(a, n) \subseteq {x \in DOMAIN a.rec : x < lim}
          /\ a.head[BucketOf[n]] \in Live(a, n) \cup {None}
          /\ \A x \in Live(a, n) : a.rec[x].next \in Live(a, n) \cup {None}
          /\ \A X : /\ a.head[BucketOf[n]] \in X \cup {None}
                    /\ \A x \in X \cap Live(a, n) : a.rec[x].next \in X \cup {None}
                    => Live(a, n) \subseteq X
      BY <1>1, LiveFacts
    <2>2. /\ a2.head[BucketOf[n]] \in Live(a2, n) \cup {None}
          /\ \A x \in Live(a2, n) : a2.rec[x].next \in Live(a2, n) \cup {None}
          /\ \A X : /\ a2.head[BucketOf[n]] \in X \cup {None}
                    /\ \A x \in X \cap Live(a2, n) : a2.rec[x].next \in X \cup {None}
                    => Live(a2, n) \subseteq X
      BY LiveFacts
    <2>3. \A x \in Live(a, n) : a2.rec[x] = a.rec[x]
      BY <2>1
    <2>4. Live(a2, n) \subseteq Live(a, n)
      BY <2>1, <2>2, <2>3
    <2>5. Live(a, n) \subseteq Live(a2, n)
      BY <2>1, <2>2, <2>3
    <2> QED
      BY <2>3, <2>4, <2>5
  <1>3. Distinct(a2)
    BY <1>1, <1>2 DEF Distinct
  <1>4. AreaOk(a2, lim2)
    BY <1>3 DEF AreaOk
  <1>5. ASSUME NEW n \in Name PROVE Lookup(a2, n) = Lookup(a, n)
    <2>1. Live(a2, n) = Live(a, n) /\ \A x \in Live(a, n) : a2.rec[x] = a.rec[x]
      BY <1>2
    <2>2. CASE Lookup(a, n) = None
      <3>1. \A x \in Live(a, n) : a.rec[x].name # n
        BY <2>2, LookupOf
      <3>2. Lookup(a2, n) # None => \E x \in Live(a2, n) : a2.rec[x].name = n
        BY <1>4, LookupOf
      <3> QED
        BY <2>1, <2>2, <3>1, <3>2
    <2>3. CASE Lookup(a, n) # None
      <3>1. PICK x \in Live(a, n) : a.rec[x].name = n /\ Lookup(a, n) = a.rec[x].ino
        BY <2>3, LookupOf
      <3>2. Lookup(a2, n) = a2.rec[x].ino
        BY <1>4, <2>1, <3>1, LookupOf
      <3> QED
        BY <2>1, <3>1, <3>2
    <2> QED
      BY <2>2, <2>3
  <1> QED
    BY <1>2, <1>4, <1>5

\* The name of a record becomes visible when the bucket points to it.
LEMMA SlotAdds ==
    ASSUME NEW k \in Nat, NEW l \in Nat, l = k + 1, NEW a, AreaOk(a, k), NEW N \in Name, k \in DOMAIN a.rec,
           a.rec[k].next = a.head[BucketOf[N]], a.rec[k].hash = N, a.rec[k].name = N,
           Lookup(a, N) = None, NEW a2 \in AreaT, a2.rec = a.rec,
           \A b \in Bucket : a2.head[b] = IF b = BucketOf[N] THEN k ELSE a.head[b]
    PROVE  /\ AreaOk(a2, l)
           /\ \A n \in Name : Lookup(a2, n) = IF n = N THEN a.rec[k].ino ELSE Lookup(a, n)
  <1>1. a \in AreaT /\ Sorted(a, k) /\ Distinct(a)
    BY DEF AreaOk
  <1>2. /\ a.rec \in Seq(RecT) /\ a.head \in [Bucket -> Nat] /\ BucketOf[N] \in Bucket
        /\ DOMAIN a.rec = 1 .. Len(a.rec) /\ Len(a.rec) \in Nat
    BY <1>1, BucketOfName DEF AreaT
  <1>3. a2.rec = a.rec /\ \A b \in Bucket : a2.head[b] = IF b = BucketOf[N] THEN k ELSE a.head[b]
    OBVIOUS
  <1>s. Sorted(a2, l)
    <2>1. \A b \in Bucket : a2.head[b] < l
      BY <1>1, <1>2, <1>3 DEF Sorted
    <2>2. l <= Len(a2.rec) + 1
      BY <1>2, <1>3
    <2>3. \A x \in DOMAIN a2.rec : x < l => a2.rec[x].next < x
      <3>1. a.rec[k].next < k
        BY <1>1, <1>2 DEF Sorted
      <3> QED
        BY <1>1, <1>2, <1>3, <3>1 DEF Sorted
    <2> QED
      BY <2>1, <2>2, <2>3 DEF Sorted
  <1>5. k \in Nat /\ l \in Nat
    OBVIOUS
  <1>6. ASSUME NEW n \in Name
        PROVE  Live(a2, n) = IF BucketOf[n] = BucketOf[N] THEN Live(a, n) \cup {k} ELSE Live(a, n)
    <2>1. /\ a.head[BucketOf[n]] \in Live(a, n) \cup {None}
          /\ \A x \in Live(a, n) : a.rec[x].next \in Live(a, n) \cup {None}
          /\ \A X : /\ a.head[BucketOf[n]] \in X \cup {None}
                    /\ \A x \in X \cap Live(a, n) : a.rec[x].next \in X \cup {None}
                    => Live(a, n) \subseteq X
      BY <1>1, <1>5, LiveFacts
    <2>2. /\ a2.head[BucketOf[n]] \in Live(a2, n) \cup {None}
          /\ \A x \in Live(a2, n) : a2.rec[x].next \in Live(a2, n) \cup {None}
          /\ \A X : /\ a2.head[BucketOf[n]] \in X \cup {None}
                    /\ \A x \in X \cap Live(a2, n) : a2.rec[x].next \in X \cup {None}
                    => Live(a2, n) \subseteq X
      BY <1>s, LiveFacts
    <2>3. CASE BucketOf[n] # BucketOf[N]
      <3>1. a2.head[BucketOf[n]] = a.head[BucketOf[n]]
        BY <1>2, <1>3, <2>3, BucketOfName
      <3>2. Live(a2, n) \subseteq Live(a, n)
        BY <1>3, <2>1, <2>2, <3>1
      <3>3. Live(a, n) \subseteq Live(a2, n)
        BY <1>3, <2>1, <2>2, <3>1
      <3> QED
        BY <2>3, <3>2, <3>3
    <2>4. CASE BucketOf[n] = BucketOf[N]
      <3>1. a2.head[BucketOf[n]] = k /\ a.rec[k].next = a.head[BucketOf[n]]
        BY <1>2, <1>3, <2>4
      <3>2. Live(a2, n) \subseteq Live(a, n) \cup {k}
        <4>1. PICK X : X = Live(a, n) \cup {k}
          OBVIOUS
        <4>2. a2.head[BucketOf[n]] \in X \cup {None}
          BY <3>1, <4>1
        <4>3. \A x \in X \cap Live(a2, n) : a2.rec[x].next \in X \cup {None}
          BY <1>3, <2>1, <3>1, <4>1
        <4> QED
          BY <2>2, <4>1, <4>2, <4>3
      <3>3. k \in Live(a2, n)
        BY <1>2, <2>2, <3>1 DEF None
      <3>4. Live(a, n) \subseteq Live(a2, n)
        <4>1. PICK X : X = Live(a2, n)
          OBVIOUS
        <4>2. a.head[BucketOf[n]] \in X \cup {None}
          BY <1>3, <2>2, <3>1, <3>3, <4>1
        <4>3. \A x \in X \cap Live(a, n) : a.rec[x].next \in X \cup {None}
          BY <1>3, <2>2, <4>1
        <4> QED
          BY <2>1, <4>1, <4>2, <4>3
      <3> QED
        BY <2>4, <3>2, <3>3, <3>4
    <2> QED
      BY <2>3, <2>4
  <1>7. \A n \in Name : BucketOf[n] = BucketOf[N] => \A x \in Live(a, n) : a.rec[x].name # N
    <2>1. \A x \in Live(a, N) : a.rec[x].name # N
      BY <1>5, LookupOf
    <2> QED
      BY <2>1, SameBucket
  <1>8. Distinct(a2)
    <2> SUFFICES ASSUME NEW n \in Name, NEW x \in Live(a2, n)
                 PROVE  /\ a2.rec[x].hash = a2.rec[x].name /\ BucketOf[a2.rec[x].name] = BucketOf[n]
                        /\ \A y \in Live(a2, n) : a2.rec[x].name = a2.rec[y].name => x = y
      BY DEF Distinct
    <2>1. \A y \in Live(a, n) : /\ a.rec[y].hash = a.rec[y].name /\ BucketOf[a.rec[y].name] = BucketOf[n]
                                /\ \A z \in Live(a, n) : a.rec[y].name = a.rec[z].name => y = z
      BY <1>1 DEF Distinct
    <2>2. CASE BucketOf[n] # BucketOf[N]
      BY <1>3, <1>6, <2>1, <2>2
    <2>3. CASE BucketOf[n] = BucketOf[N]
      <3>1. Live(a2, n) = Live(a, n) \cup {k}
        BY <1>6, <2>3
      <3> QED
        BY <1>3, <1>7, <2>1, <2>3, <3>1
    <2> QED
      BY <2>2, <2>3
  <1>9. AreaOk(a2, l)
    BY <1>s, <1>8 DEF AreaOk
  <1>10. ASSUME NEW n \in Name
         PROVE  Lookup(a2, n) = IF n = N THEN a.rec[k].ino ELSE Lookup(a, n)
    <2>1. CASE n = N
      <3>1. k \in Live(a2, n)
        BY <1>6, <2>1
      <3> QED
        BY <1>3, <1>5, <1>9, <2>1, <3>1, LookupOf
    <2>2. CASE n # N /\ Lookup(a, n) = None
      <3>1. \A x \in Live(a, n) : a.rec[x].name # n
        BY <1>5, <2>2, LookupOf
      <3>2. \A x \in Live(a2, n) : a2.rec[x].name # n
        BY <1>3, <1>6, <2>2, <3>1
      <3> QED
        BY <1>5, <1>9, <2>2, <3>2, LookupOf
    <2>3. CASE n # N /\ Lookup(a, n) # None
      <3>1. PICK x \in Live(a, n) : a.rec[x].name = n /\ Lookup(a, n) = a.rec[x].ino
        BY <1>5, <2>3, LookupOf
      <3>2. x \in Live(a2, n)
        BY <1>6
      <3> QED
        BY <1>3, <1>5, <1>9, <2>3, <3>1, <3>2, LookupOf
    <2> QED
      BY <2>1, <2>2, <2>3
  <1> QED
    BY <1>9, <1>10

\* A record is taken out of its bucket: the link to it skips it.
LEMMA DropFacts ==
    ASSUME NEW lim \in Nat, NEW a, AreaOk(a, lim), NEW n \in Name, NEW w \in Live(a, n), a.rec[w].name = n,
           NEW a2 \in AreaT, Len(a2.rec) = Len(a.rec),
           \A x \in DOMAIN a.rec :
               /\ a2.rec[x].ino = a.rec[x].ino /\ a2.rec[x].hash = a.rec[x].hash
               /\ a2.rec[x].name = a.rec[x].name
               /\ a2.rec[x].next = IF x \in Live(a, n) /\ a.rec[x].next = w THEN a.rec[w].next ELSE a.rec[x].next,
           \A b \in Bucket :
               a2.head[b] = IF b = BucketOf[n] /\ a.head[b] = w THEN a.rec[w].next ELSE a.head[b]
    PROVE  /\ AreaOk(a2, lim)
           /\ \A m \in Name : Lookup(a2, m) = IF m = n THEN None ELSE Lookup(a, m)
  <1>1. a \in AreaT /\ Sorted(a, lim) /\ Distinct(a)
    BY DEF AreaOk
  <1>2. /\ a.head \in [Bucket -> Nat] /\ a.rec \in Seq(RecT) /\ a2.rec \in Seq(RecT)
        /\ DOMAIN a.rec = 1 .. Len(a.rec) /\ DOMAIN a2.rec = DOMAIN a.rec /\ Len(a.rec) \in Nat
    BY <1>1 DEF AreaT
  <1>3. \A x \in DOMAIN a.rec :
               /\ a2.rec[x].ino = a.rec[x].ino /\ a2.rec[x].hash = a.rec[x].hash
               /\ a2.rec[x].name = a.rec[x].name
               /\ a2.rec[x].next = IF x \in Live(a, n) /\ a.rec[x].next = w THEN a.rec[w].next ELSE a.rec[x].next
    OBVIOUS
  <1>4. \A b \in Bucket :
               a2.head[b] = IF b = BucketOf[n] /\ a.head[b] = w THEN a.rec[w].next ELSE a.head[b]
    OBVIOUS
  <1>5. w \in DOMAIN a.rec /\ w < lim /\ w \in Nat /\ w # None
    BY <1>1, <1>2, LiveFacts
  <1>6. a.rec[w].next < w /\ a.rec[w].next \in Nat
    BY <1>1, ListFacts
  <1>7. \A x \in DOMAIN a.rec : a.rec[x].next \in Nat
    <2>1. \A x \in DOMAIN a.rec : a.rec[x] \in RecT
      BY <1>2
    <2> QED
      BY <2>1 DEF RecT
  <1>8. Sorted(a2, lim)
    <2>1. \A b \in Bucket : a2.head[b] < lim
      BY <1>1, <1>2, <1>4, <1>5, <1>6 DEF Sorted
    <2>2. \A x \in DOMAIN a2.rec : x < lim => a2.rec[x].next < x
      <3> SUFFICES ASSUME NEW x \in DOMAIN a.rec, x < lim PROVE a2.rec[x].next < x
        BY <1>2
      <3>1. a.rec[x].next < x /\ x \in Nat
        BY <1>1, <1>2 DEF Sorted
      <3> QED
        BY <1>3, <1>5, <1>6, <1>7, <3>1
    <2>3. lim <= Len(a2.rec) + 1
      BY <1>1 DEF Sorted
    <2> QED
      BY <2>1, <2>2, <2>3 DEF Sorted
  <1>9. ASSUME NEW m \in Name
        PROVE  /\ Live(a, m) \subseteq DOMAIN a.rec
               /\ Live(a2, m) = IF BucketOf[m] = BucketOf[n] THEN Live(a, m) \ {w} ELSE Live(a, m)
    <2>1. /\ Live(a, m) \subseteq {x \in DOMAIN a.rec : x < lim}
          /\ a.head[BucketOf[m]] \in Live(a, m) \cup {None}
          /\ \A x \in Live(a, m) : a.rec[x].next \in Live(a, m) \cup {None}
          /\ \A X : /\ a.head[BucketOf[m]] \in X \cup {None}
                    /\ \A x \in X \cap Live(a, m) : a.rec[x].next \in X \cup {None}
                    => Live(a, m) \subseteq X
      BY <1>1, LiveFacts
    <2>2. /\ a2.head[BucketOf[m]] \in Live(a2, m) \cup {None}
          /\ \A x \in Live(a2, m) : a2.rec[x].next \in Live(a2, m) \cup {None}
          /\ \A X : /\ a2.head[BucketOf[m]] \in X \cup {None}
                    /\ \A x \in X \cap Live(a2, m) : a2.rec[x].next \in X \cup {None}
                    => Live(a2, m) \subseteq X
      BY <1>8, LiveFacts
    <2>3. Live(a, m) \subseteq DOMAIN a.rec
      BY <2>1
    <2>4. BucketOf[m] \in Bucket
      BY BucketOfName
    <2>5. CASE BucketOf[m] # BucketOf[n]
      <3>1. a2.head[BucketOf[m]] = a.head[BucketOf[m]]
        BY <1>4, <2>4, <2>5
      <3>2. Live(a, m) \cap Live(a, n) = {}
        BY <1>1, <2>5 DEF Distinct
      <3>3. \A x \in Live(a, m) : a2.rec[x].next = a.rec[x].next
        BY <1>3, <2>3, <3>2
      <3>4. Live(a2, m) \subseteq Live(a, m)
        BY <2>1, <2>2, <3>1, <3>3
      <3>5. Live(a, m) \subseteq Live(a2, m)
        BY <2>1, <2>2, <3>1, <3>3
      <3> QED
        BY <2>3, <2>5, <3>4, <3>5
    <2>6. CASE BucketOf[m] = BucketOf[n]
      <3>1. Live(a, m) = Live(a, n)
        BY <2>6, SameBucket
      <3>2. \A x \in Live(a, m) : a2.rec[x].next = IF a.rec[x].next = w THEN a.rec[w].next ELSE a.rec[x].next
        BY <1>3, <2>3, <3>1
      <3>3. a2.head[BucketOf[m]] = IF a.head[BucketOf[m]] = w THEN a.rec[w].next ELSE a.head[BucketOf[m]]
        BY <1>4, <2>4, <2>6
      <3>4. w \in Live(a, m) /\ a.rec[w].next # w
        BY <1>5, <1>6, <3>1
      <3>5. Live(a2, m) \subseteq Live(a, m) \ {w}
        <4>1. PICK X : X = Live(a, m) \ {w}
          OBVIOUS
        <4>2. a2.head[BucketOf[m]] \in X \cup {None}
          BY <2>1, <3>3, <3>4, <4>1
        <4>3. \A x \in X \cap Live(a2, m) : a2.rec[x].next \in X \cup {None}
          BY <2>1, <3>2, <3>4, <4>1
        <4> QED
          BY <2>2, <4>1, <4>2, <4>3
      <3>6. Live(a, m) \ {w} \subseteq Live(a2, m)
        <4>1. PICK X : X = Live(a2, m) \cup {x \in {w} : a.rec[w].next \in Live(a2, m) \cup {None}}
          OBVIOUS
        <4>2. a.head[BucketOf[m]] \in X \cup {None}
          BY <2>2, <3>3, <4>1
        <4>3. \A x \in X \cap Live(a, m) : a.rec[x].next \in X \cup {None}
          <5> SUFFICES ASSUME NEW x \in X, x \in Live(a, m) PROVE a.rec[x].next \in X \cup {None}
            OBVIOUS
          <5>1. CASE x \in Live(a2, m)
            <6>1. a2.rec[x].next \in Live(a2, m) \cup {None}
              BY <2>2, <5>1
            <6>2. a2.rec[x].next = IF a.rec[x].next = w THEN a.rec[w].next ELSE a.rec[x].next
              BY <3>2
            <6> QED
              BY <4>1, <6>1, <6>2
          <5>2. CASE x \notin Live(a2, m)
            BY <4>1, <5>2
          <5> QED
            BY <5>1, <5>2
        <4>4. Live(a, m) \subseteq X
          BY <2>1, <4>2, <4>3
        <4> QED
          BY <4>1, <4>4
      <3> QED
        BY <2>3, <2>6, <3>5, <3>6
    <2> QED
      BY <2>5, <2>6
  <1>10. \A m \in Name : Live(a2, m) \subseteq Live(a, m) /\ Live(a, m) \subseteq DOMAIN a.rec
    BY <1>9
  <1>11. Distinct(a2)
    <2> SUFFICES ASSUME NEW m \in Name, NEW x \in Live(a2, m)
                 PROVE  /\ a2.rec[x].hash = a2.rec[x].name /\ BucketOf[a2.rec[x].name] = BucketOf[m]
                        /\ \A y \in Live(a2, m) : a2.rec[x].name = a2.rec[y].name => x = y
      BY DEF Distinct
    <2>1. \A y \in Live(a2, m) : a2.rec[y].name = a.rec[y].name /\ a2.rec[y].hash = a.rec[y].hash
      BY <1>3, <1>10
    <2>2. /\ a.rec[x].hash = a.rec[x].name /\ BucketOf[a.rec[x].name] = BucketOf[m]
          /\ \A y \in Live(a, m) : a.rec[x].name = a.rec[y].name => x = y
      BY <1>1, <1>10 DEF Distinct
    <2> QED
      BY <1>10, <2>1, <2>2
  <1>12. AreaOk(a2, lim)
    BY <1>8, <1>11 DEF AreaOk
  <1>13. ASSUME NEW m \in Name
         PROVE  Lookup(a2, m) = IF m = n THEN None ELSE Lookup(a, m)
    <2>1. \A x \in Live(a2, m) : a2.rec[x].name = a.rec[x].name /\ a2.rec[x].ino = a.rec[x].ino
      BY <1>3, <1>10
    <2>2. CASE m = n
      <3>1. \A x \in Live(a, n) : a.rec[x].name = n => x = w
        BY <1>1 DEF Distinct
      <3>2. \A x \in Live(a2, m) : a2.rec[x].name # m
        BY <1>9, <2>1, <2>2, <3>1
      <3> QED
        BY <1>12, <2>2, <3>2, LookupOf
    <2>3. CASE m # n /\ Lookup(a, m) = None
      <3>1. \A x \in Live(a, m) : a.rec[x].name # m
        BY <2>3, LookupOf
      <3>2. \A x \in Live(a2, m) : a2.rec[x].name # m
        BY <1>10, <2>1, <3>1
      <3> QED
        BY <1>12, <2>3, <3>2, LookupOf
    <2>4. CASE m # n /\ Lookup(a, m) # None
      <3>1. PICK x \in Live(a, m) : a.rec[x].name = m /\ Lookup(a, m) = a.rec[x].ino
        BY <2>4, LookupOf
      <3>2. x \in Live(a2, m)
        BY <1>9, <2>4, <3>1
      <3>3. Lookup(a2, m) = a2.rec[x].ino
        BY <1>12, <2>1, <3>1, <3>2, LookupOf
      <3> QED
        BY <2>1, <2>4, <3>1, <3>2, <3>3
    <2> QED
      BY <2>2, <2>3, <2>4
  <1> QED
    BY <1>12, <1>13

\* nyfs_dirhash_remove does that.
LEMMA UnhookFacts ==
    ASSUME NEW lim \in Nat, NEW a, AreaOk(a, lim), NEW n \in Name, Lookup(a, n) # None
    PROVE  /\ AreaOk(Unhooked(a, n), lim)
           /\ Unhooked(a, n).next = a.next
           /\ \A m \in Name : Lookup(Unhooked(a, n), m) = IF m = n THEN None ELSE Lookup(a, m)
  <1>0. PICK a2 : a2 = Unhooked(a, n)
    OBVIOUS
  <1>1. a \in AreaT /\ Sorted(a, lim) /\ Distinct(a) /\ BucketOf[n] \in Bucket
    BY BucketOfName DEF AreaOk
  <1>2. /\ a.head \in [Bucket -> Nat] /\ a.rec \in Seq(RecT)
        /\ DOMAIN a.rec = 1 .. Len(a.rec) /\ Len(a.rec) \in Nat
    BY <1>1 DEF AreaT
  <1>3. PICK N \in Nat : N = Len(a.rec)
    BY <1>2
  <1>4. PICK W : W = Walk(a, n)
    OBVIOUS
  <1>5. PICK k : k = FirstHit(a, n)
    OBVIOUS
  <1>6. PICK w : w = W[k]
    OBVIOUS
  <1>7. \E x \in Live(a, n) : Matches(a.rec[x], n)
    BY <1>1, LookupFacts
  <1>8. k \in Hits(a, n) /\ w \in Live(a, n) /\ Matches(a.rec[w], n)
    BY <1>1, <1>4, <1>5, <1>6, <1>7, LookupFacts
  <1>9. /\ W \in [0 .. N -> 0 .. lim - 1] /\ W[0] = a.head[BucketOf[n]]
        /\ \A j \in 1 .. N : W[j] = IF W[j - 1] = None THEN None ELSE a.rec[W[j - 1]].next
    <2>1. a \in AreaT /\ Sorted(a, lim)
      BY <1>1
    <2>2. \A V, M : V = Walk(a, n) /\ M = Len(a.rec) =>
             /\ V \in [0 .. M -> 0 .. lim - 1] /\ V[0] = a.head[BucketOf[n]]
             /\ \A j \in 1 .. M : V[j] = IF V[j - 1] = None THEN None ELSE a.rec[V[j - 1]].next
      BY <2>1, WalkFacts
    <2> QED
      BY <1>3, <1>4, <2>2
  <1>10. k \in 0 .. N
    BY <1>4, <1>8, <1>9 DEF Hits
  <1>11. PICK after : after = a.rec[w].next
    OBVIOUS
  <1>12. a2 = IF k = 0 THEN [a EXCEPT !.head[BucketOf[n]] = after] ELSE [a EXCEPT !.rec[W[k - 1]].next = after]
    BY <1>0, <1>4, <1>5, <1>6, <1>11 DEF Unhooked
  <1>13. /\ \A x \in Live(a, n) : x \in Nat /\ x <= a.head[BucketOf[n]] /\ a.rec[x].next < x
                                    /\ a.rec[x].next \in Nat
         /\ \A x, y \in Live(a, n) :
                a.rec[x].next # None /\ a.rec[x].next = a.rec[y].next => x = y
    BY <1>1, ListFacts
  <1>14. w \in DOMAIN a.rec /\ Live(a, n) \subseteq DOMAIN a.rec /\ w # None /\ w \in Nat
    BY <1>1, <1>8, <1>13, LiveFacts
  <1>15. after \in Nat
    BY <1>8, <1>11, <1>13
  <1>16. \A x \in DOMAIN a.rec : a.rec[x] \in RecT
    BY <1>2
  <1>17. /\ a2 \in AreaT /\ Len(a2.rec) = Len(a.rec) /\ a2.next = a.next
         /\ \A x \in DOMAIN a.rec :
               /\ a2.rec[x].ino = a.rec[x].ino /\ a2.rec[x].hash = a.rec[x].hash
               /\ a2.rec[x].name = a.rec[x].name
               /\ a2.rec[x].next = IF x \in Live(a, n) /\ a.rec[x].next = w THEN a.rec[w].next ELSE a.rec[x].next
         /\ \A b \in Bucket :
               a2.head[b] = IF b = BucketOf[n] /\ a.head[b] = w THEN a.rec[w].next ELSE a.head[b]
    <2>1. CASE k = 0
      <3>1. a2 = [a EXCEPT !.head[BucketOf[n]] = after] /\ a.head[BucketOf[n]] = w
        BY <1>6, <1>9, <1>12, <2>1
      <3>2. \A x \in Live(a, n) : a.rec[x].next # w
        BY <1>13, <1>14, <3>1
      <3>3. /\ a2 \in AreaT /\ a2.rec = a.rec /\ a2.next = a.next
            /\ a2.head = [a.head EXCEPT ![BucketOf[n]] = after]
        BY <1>1, <1>2, <1>15, <3>1 DEF AreaT
      <3>4. \A b \in Bucket : a2.head[b] = IF b = BucketOf[n] /\ a.head[b] = w THEN a.rec[w].next ELSE a.head[b]
        BY <1>1, <1>2, <1>11, <3>1, <3>3
      <3> QED
        BY <3>2, <3>3, <3>4
    <2>2. CASE k # 0
      <3>1. PICK p : p = W[k - 1]
        OBVIOUS
      <3>2. k \in 1 .. N /\ k - 1 \in 0 .. N
        BY <1>10, <2>2
      <3>3. p # None /\ a.rec[p].next = w
        BY <1>6, <1>9, <1>14, <3>1, <3>2
      <3>4. p \in Live(a, n)
        BY <1>3, <1>4, <3>1, <3>2, <3>3 DEF Live
      <3>5. a2 = [a EXCEPT !.rec[p].next = after]
        BY <1>12, <2>2, <3>1
      <3>6. a.head[BucketOf[n]] # w
        BY <1>2, <1>1, <1>13, <1>14, <3>3, <3>4
      <3>7. \A x \in Live(a, n) : a.rec[x].next = w => x = p
        BY <1>13, <1>14, <3>3, <3>4
      <3>8. p \in DOMAIN a.rec
        BY <1>14, <3>4
      <3>9. a2.head = a.head /\ a2.next = a.next /\ a2.count = a.count
             /\ a2.rec = [a.rec EXCEPT ![p] = [a.rec[p] EXCEPT !.next = after]]
        BY <1>1, <3>5 DEF AreaT
      <3>10. [a.rec[p] EXCEPT !.next = after] \in RecT
        BY <1>15, <1>16, <3>8 DEF RecT
      <3>11. a2.rec \in Seq(RecT) /\ Len(a2.rec) = Len(a.rec)
        BY <1>2, <3>8, <3>9, <3>10
      <3>12. a2 \in AreaT
        BY <1>1, <3>5, <3>9, <3>11 DEF AreaT
      <3>13. \A x \in DOMAIN a.rec :
               /\ a2.rec[x].ino = a.rec[x].ino /\ a2.rec[x].hash = a.rec[x].hash
               /\ a2.rec[x].name = a.rec[x].name
               /\ a2.rec[x].next = IF x = p THEN after ELSE a.rec[x].next
        BY <1>16, <3>8, <3>9 DEF RecT
      <3>14. \A b \in Bucket : a2.head[b] = IF b = BucketOf[n] /\ a.head[b] = w THEN a.rec[w].next ELSE a.head[b]
        BY <3>6, <3>9
      <3> QED
        BY <1>11, <3>3, <3>4, <3>7, <3>9, <3>11, <3>12, <3>13, <3>14
    <2> QED
      BY <2>1, <2>2
  <1>18. a.rec[w].name = n
    BY <1>8 DEF Matches
  <1>19. AreaOk(a2, lim) /\ \A m \in Name : Lookup(a2, m) = IF m = n THEN None ELSE Lookup(a, m)
    BY <1>8, <1>17, <1>18, DropFacts
  <1> QED
    BY <1>0, <1>17, <1>19

\* A new area has no names.
LEMMA EmptyFacts ==
    AreaOk(EmptyArea, 1) /\ EmptyArea.next = 1 /\ \A n \in Name : Lookup(EmptyArea, n) = None
  <1>1. PICK e : e = EmptyArea
    OBVIOUS
  <1>2. /\ e \in AreaT /\ e.next = 1 /\ e.rec = <<>> /\ \A b \in Bucket : e.head[b] = None
    BY <1>1 DEF EmptyArea, AreaT, None
  <1>3. Sorted(e, 1)
    BY <1>2 DEF Sorted, None
  <1>4. \A n \in Name : Live(e, n) = {}
    <2> SUFFICES ASSUME NEW n \in Name PROVE Live(e, n) = {}
      OBVIOUS
    <2>1. Live(e, n) \subseteq {x \in DOMAIN e.rec : x < 1}
      BY <1>2, <1>3, LiveFacts
    <2> QED
      BY <1>2, <2>1
  <1>5. AreaOk(e, 1)
    BY <1>2, <1>3, <1>4 DEF AreaOk, Distinct
  <1>6. \A n \in Name : Lookup(e, n) = None
    BY <1>4, <1>5, LookupOf
  <1> QED
    BY <1>1, <1>2, <1>5, <1>6

\* A record written behind the part in use is not seen.
LEMMA DirentFacts ==
    ASSUME NEW a, AreaOk(a, a.next), NEW n \in Name, NEW r \in RecT, r.next = a.head[BucketOf[n]]
    PROVE  \A a2 : a2 = [a EXCEPT !.rec = Put(@, a.next, r)] =>
           /\ AreaOk(a2, a.next) /\ a2.next = a.next /\ a2.head = a.head
           /\ a.next \in DOMAIN a2.rec /\ a2.rec[a.next] = r
           /\ \A m \in Name : Lookup(a2, m) = Lookup(a, m)
  <1> SUFFICES ASSUME NEW a2, a2 = [a EXCEPT !.rec = Put(a.rec, a.next, r)]
               PROVE  /\ AreaOk(a2, a.next) /\ a2.next = a.next /\ a2.head = a.head
                      /\ a.next \in DOMAIN a2.rec /\ a2.rec[a.next] = r
                      /\ \A m \in Name : Lookup(a2, m) = Lookup(a, m)
    BY DEF AreaOk, AreaT
  <1>1. a \in AreaT /\ Sorted(a, a.next) /\ BucketOf[n] \in Bucket
    BY BucketOfName DEF AreaOk
  <1>2. /\ a.rec \in Seq(RecT) /\ a.head \in [Bucket -> Nat] /\ a.next \in Nat \ {0}
    BY <1>1 DEF AreaT
  <1>3. PICK k \in Nat \ {0} : k = a.next
    BY <1>2
  <1>4. PICK N \in Nat : N = Len(a.rec) /\ DOMAIN a.rec = 1 .. N
    BY <1>2
  <1>5. k <= N + 1
    BY <1>1, <1>3, <1>4 DEF Sorted
  <1>6. PICK s : s = Put(a.rec, k, r)
    OBVIOUS
  <1>7. PICK M \in Nat : M = (IF k > N THEN k ELSE N)
    OBVIOUS
  <1>8. s = [j \in 1 .. M |-> IF j = k THEN r ELSE a.rec[j]]
    BY <1>4, <1>6, <1>7 DEF Put
  <1>9. \A j \in 1 .. M : (IF j = k THEN r ELSE a.rec[j]) \in RecT
    <2> SUFFICES ASSUME NEW j \in 1 .. M, j # k PROVE a.rec[j] \in RecT
      OBVIOUS
    <2>1. j \in 1 .. N
      BY <1>5, <1>7
    <2> QED
      BY <1>2, <1>4, <2>1
  <1>10. s \in Seq(RecT) /\ Len(s) = M /\ DOMAIN s = 1 .. M
    BY <1>8, <1>9
  <1>11. /\ a2.rec = s /\ a2.next = a.next /\ a2.head = a.head /\ a2.count = a.count
         /\ a2 \in AreaT
    BY <1>1, <1>3, <1>6, <1>10 DEF AreaT
  <1>12. k \in DOMAIN s /\ s[k] = r
    BY <1>7, <1>8, <1>10
  <1>13. \A x \in DOMAIN a.rec : x < k => x \in DOMAIN s /\ s[x] = a.rec[x]
    BY <1>4, <1>7, <1>8, <1>10
  <1>14. Sorted(a2, k)
    <2>1. \A b \in Bucket : a2.head[b] < k
      BY <1>1, <1>3, <1>11 DEF Sorted
    <2>2. k <= Len(a2.rec) + 1
      BY <1>5, <1>7, <1>10, <1>11
    <2>3. \A x \in DOMAIN s : x < k => s[x].next < x
      <3> SUFFICES ASSUME NEW x \in 1 .. M, x < k PROVE s[x].next < x
        BY <1>10
      <3>1. x \in DOMAIN a.rec
        BY <1>4, <1>5
      <3>2. a.rec[x].next < x
        BY <1>1, <1>3, <3>1 DEF Sorted
      <3> QED
        BY <1>13, <3>1, <3>2
    <2> QED
      BY <1>11, <2>1, <2>2, <2>3 DEF Sorted
  <1>15. AreaOk(a, k)
    BY <1>3
  <1>16. AreaOk(a2, k) /\ \A m \in Name : Lookup(a2, m) = Lookup(a, m)
    <2>1. PICK b \in AreaT : b = a2
      BY <1>11
    <2>2. /\ Sorted(b, k) /\ b.head = a.head
          /\ \A x \in DOMAIN a.rec : x < k => x \in DOMAIN b.rec /\ b.rec[x] = a.rec[x]
      BY <1>11, <1>13, <1>14, <2>1
    <2>3. AreaOk(b, k) /\ \A m \in Name : Lookup(b, m) = Lookup(a, m)
      BY <1>15, <2>2, SameRecords
    <2> QED
      BY <2>1, <2>3
  <1> QED
    BY <1>3, <1>11, <1>12, <1>16

\* Neither is its name.
LEMMA NameFacts ==
    ASSUME NEW a, AreaOk(a, a.next), a.next \in DOMAIN a.rec, NEW n \in Name
    PROVE  \A a2 : a2 = [a EXCEPT !.rec[a.next].name = n] =>
           /\ AreaOk(a2, a.next) /\ a2.next = a.next /\ a2.head = a.head
           /\ a.next \in DOMAIN a2.rec /\ a2.rec[a.next] = [a.rec[a.next] EXCEPT !.name = n]
           /\ \A m \in Name : Lookup(a2, m) = Lookup(a, m)
  <1> SUFFICES ASSUME NEW a2, a2 = [a EXCEPT !.rec[a.next].name = n]
               PROVE  /\ AreaOk(a2, a.next) /\ a2.next = a.next /\ a2.head = a.head
                      /\ a.next \in DOMAIN a2.rec /\ a2.rec[a.next] = [a.rec[a.next] EXCEPT !.name = n]
                      /\ \A m \in Name : Lookup(a2, m) = Lookup(a, m)
    OBVIOUS
  <1>1. a \in AreaT /\ Sorted(a, a.next)
    BY DEF AreaOk
  <1>2. a.rec \in Seq(RecT) /\ a.next \in Nat \ {0}
    BY <1>1 DEF AreaT
  <1>3. PICK k \in Nat \ {0} : k = a.next
    BY <1>2
  <1>4. PICK r : r = [a.rec[k] EXCEPT !.name = n]
    OBVIOUS
  <1>5. r \in RecT /\ r.next = a.rec[k].next
    <2>1. a.rec[k] \in RecT
      BY <1>2, <1>3
    <2> QED
      BY <1>4, <2>1 DEF RecT
  <1>6. /\ a2.rec = [a.rec EXCEPT ![k] = r] /\ a2.next = a.next /\ a2.head = a.head /\ a2.count = a.count
    BY <1>1, <1>3, <1>4 DEF AreaT
  <1>7. a2.rec \in Seq(RecT) /\ Len(a2.rec) = Len(a.rec) /\ DOMAIN a2.rec = DOMAIN a.rec
    <2>1. PICK t : t = a.rec
      OBVIOUS
    <2>2. t \in Seq(RecT) /\ k \in DOMAIN t
      BY <1>2, <1>3, <2>1
    <2>3. PICK u : u = [t EXCEPT ![k] = r]
      OBVIOUS
    <2>4. u \in Seq(RecT) /\ Len(u) = Len(t) /\ DOMAIN u = DOMAIN t
      BY <1>5, <2>2, <2>3
    <2> QED
      BY <1>6, <2>1, <2>3, <2>4
  <1>8. a2.rec[k] = r
    BY <1>3, <1>6
  <1>9. \A x \in DOMAIN a.rec : x < k => x \in DOMAIN a2.rec /\ a2.rec[x] = a.rec[x]
    BY <1>2, <1>6, <1>7
  <1>10. a2 \in AreaT
    BY <1>1, <1>6, <1>7 DEF AreaT
  <1>11. Sorted(a2, k)
    BY <1>1, <1>3, <1>6, <1>7, <1>9 DEF Sorted
  <1>12. AreaOk(a, k)
    BY <1>3
  <1>13. AreaOk(a2, k) /\ \A m \in Name : Lookup(a2, m) = Lookup(a, m)
    <2>1. PICK b \in AreaT : b = a2
      BY <1>10
    <2>2. /\ Sorted(b, k) /\ b.head = a.head
          /\ \A x \in DOMAIN a.rec : x < k => x \in DOMAIN b.rec /\ b.rec[x] = a.rec[x]
      BY <1>6, <1>9, <1>11, <2>1
    <2>3. AreaOk(b, k) /\ \A m \in Name : Lookup(b, m) = Lookup(a, m)
      BY <1>12, <2>2, SameRecords
    <2> QED
      BY <2>1, <2>3
  <1> QED
    BY <1>3, <1>4, <1>6, <1>7, <1>8, <1>13

\* Area a2 has the records of a and ends at l.
Counted(a2, a, l) == AreaOk(a, l) /\ l \in Nat /\ a2 \in AreaT /\ a2.rec = a.rec /\ a2.head = a.head /\ a2.next = l

\* The header takes the record in, or counts one less.
LEMMA HeaderFacts ==
    ASSUME NEW a, NEW a2, NEW l, Counted(a2, a, l)
    PROVE  /\ AreaOk(a2, a2.next)
           /\ \A m \in Name : Lookup(a2, m) = Lookup(a, m)
  <1>1. PICK k \in Nat : k = l
    BY DEF Counted
  <1>2. AreaOk(a, k) /\ a2.next = k
    BY <1>1 DEF Counted
  <1>3. PICK b \in AreaT : b = a2
    BY DEF Counted
  <1>4. b.rec = a.rec /\ b.head = a.head /\ a \in AreaT /\ Sorted(a, k)
    BY <1>2, <1>3 DEF Counted, AreaOk
  <1>5. /\ Sorted(b, k) /\ b.head = a.head
        /\ \A x \in DOMAIN a.rec : x < k => x \in DOMAIN b.rec /\ b.rec[x] = a.rec[x]
    BY <1>4 DEF Sorted
  <1>6. AreaOk(b, k) /\ \A m \in Name : Lookup(b, m) = Lookup(a, m)
    BY <1>2, <1>5, SameRecords
  <1> QED
    BY <1>2, <1>3, <1>6

-----------------------------------------------------------------------------
(***************************************************************************)
(* Lemmas about extent chains                                              *)
(***************************************************************************)
\* f goes through the extent blocks of s, and collects the blocks.
FlatOf(f, s) ==
    /\ f \in [0 .. Len(s) -> Seq(Block)] /\ f[0] = <<>>
    /\ \A k \in 1 .. Len(s) : f[k] = f[k - 1] \o s[k].data \o <<s[k].blk>>
    /\ Flat(s) = f[Len(s)]

\* The same for the number of data blocks.
CountOf(f, s) ==
    /\ f \in [0 .. Len(s) -> Nat] /\ f[0] = 0
    /\ \A k \in 1 .. Len(s) : f[k] = f[k - 1] + Len(s[k].data)
    /\ DataCount(s) = f[Len(s)]

\* The collection of the blocks of a chain is a function on 0 .. Len(s).
LEMMA FlatExists ==
    ASSUME NEW s \in Seq(Ext)
    PROVE  \E f : FlatOf(f, s)
  <1> DEFINE Eq(f) == f = [k \in 0 .. Len(s) |->
                             IF k = 0 THEN <<>> ELSE f[k - 1] \o s[k].data \o <<s[k].blk>>]
  <1>1. PICK N \in Nat : N = Len(s) /\ DOMAIN s = 1 .. N
    OBVIOUS
  <1>2. PICK S : S = Seq(Block)
    OBVIOUS
  <1>3. \A k \in 1 .. N : s[k].data \in S /\ <<s[k].blk>> \in S
    <2>1. \A k \in 1 .. N : s[k] \in Ext
      BY <1>1
    <2>2. \A k \in 1 .. N : s[k].data \in Seq(Block) /\ s[k].blk \in Block
      BY <2>1 DEF Ext
    <2> QED
      BY <1>2, <2>2
  <1>4. \A k \in 1 .. N : \A x \in S : x \o s[k].data \o <<s[k].blk>> \in S
    BY <1>2, <1>3
  <1>5. <<>> \in S
    BY <1>2
  <1> DEFINE F == [k \in 1 .. N |-> [x \in S |-> x \o s[k].data \o <<s[k].blk>>]]
  <1>6. PICK f \in [0 .. N -> S] : Iterates(f, N, F, <<>>)
    <2>1. F \in [1 .. N -> [S -> S]]
      BY <1>4
    <2> HIDE DEF F
    <2> QED
      BY <1>5, <2>1, IterationExists
  <1>7. \A k \in 1 .. N : f[k] = f[k - 1] \o s[k].data \o <<s[k].blk>>
    <2> SUFFICES ASSUME NEW k \in 1 .. N PROVE f[k] = f[k - 1] \o s[k].data \o <<s[k].blk>>
      OBVIOUS
    <2>1. k - 1 \in 0 .. N
      OBVIOUS
    <2>2. f[k - 1] \in S
      BY <2>1
    <2>3. f[k] = F[k][f[k - 1]]
      BY <1>6 DEF Iterates
    <2> QED
      BY <2>2, <2>3
  <1>8. Eq(f)
    <2>1. f = [k \in 0 .. N |-> f[k]]
      OBVIOUS
    <2>2. \A k \in 0 .. N : f[k] = IF k = 0 THEN <<>> ELSE f[k - 1] \o s[k].data \o <<s[k].blk>>
      <3>1. \A k \in 0 .. N : k = 0 \/ k \in 1 .. N
        OBVIOUS
      <3>2. f[0] = <<>>
        BY <1>6 DEF Iterates
      <3> QED
        BY <1>7, <3>1, <3>2, Zenon
    <2>3. f = [k \in 0 .. N |-> IF k = 0 THEN <<>> ELSE f[k - 1] \o s[k].data \o <<s[k].blk>>]
      BY <2>1, <2>2
    <2> QED
      BY <1>1, <2>3
  <1>9. PICK g : g = CHOOSE h : Eq(h)
    OBVIOUS
  <1>10. Flat(s) = g[Len(s)]
    BY <1>9 DEF Flat
  <1>11. Eq(g)
    <2> HIDE DEF Eq
    <2> QED
      BY <1>8, <1>9
  <1>12. \A k \in 0 .. N : g[k] = IF k = 0 THEN <<>> ELSE g[k - 1] \o s[k].data \o <<s[k].blk>>
    <2>1. g = [k \in 0 .. N |-> IF k = 0 THEN <<>> ELSE g[k - 1] \o s[k].data \o <<s[k].blk>>]
      BY <1>1, <1>11
    <2> QED
      BY <2>1
  <1>13. g[0] = <<>> /\ \A k \in 1 .. N : g[k] = g[k - 1] \o s[k].data \o <<s[k].blk>>
    <2>1. 0 \in 0 .. N /\ \A k \in 1 .. N : k # 0 /\ k \in 0 .. N
      OBVIOUS
    <2> QED
      BY <1>12, <2>1, Zenon
  <1>14. \A k \in 0 .. N : g[k] \in S
    <2>1. \A k \in 1 .. N : g[k - 1] \in S => g[k] \in S
      BY <1>4, <1>13
    <2> QED
      BY <1>5, <1>13, <2>1, IterationKeeps
  <1>15. g \in [0 .. N -> S]
    <2>1. g = [k \in 0 .. N |-> IF k = 0 THEN <<>> ELSE g[k - 1] \o s[k].data \o <<s[k].blk>>]
      BY <1>1, <1>11
    <2> QED
      BY <1>14, <2>1
  <1> QED
    BY <1>1, <1>2, <1>10, <1>13, <1>15 DEF FlatOf

\* So is the count of its data blocks.
LEMMA CountExists ==
    ASSUME NEW s \in Seq(Ext)
    PROVE  \E f : CountOf(f, s)
  <1> DEFINE Eq(f) == f = [k \in 0 .. Len(s) |-> IF k = 0 THEN 0 ELSE f[k - 1] + Len(s[k].data)]
  <1>1. PICK N \in Nat : N = Len(s) /\ DOMAIN s = 1 .. N
    OBVIOUS
  <1>2. \A k \in 1 .. N : Len(s[k].data) \in Nat
    <2>1. \A k \in 1 .. N : s[k] \in Ext
      BY <1>1
    <2>2. \A k \in 1 .. N : s[k].data \in Seq(Block)
      BY <2>1 DEF Ext
    <2> QED
      BY <2>2
  <1> DEFINE F == [k \in 1 .. N |-> [x \in Nat |-> x + Len(s[k].data)]]
  <1>3. PICK f \in [0 .. N -> Nat] : Iterates(f, N, F, 0)
    <2>1. F \in [1 .. N -> [Nat -> Nat]]
      BY <1>2
    <2> HIDE DEF F
    <2> QED
      BY <2>1, IterationExists
  <1>4. \A k \in 1 .. N : f[k] = f[k - 1] + Len(s[k].data)
    <2> SUFFICES ASSUME NEW k \in 1 .. N PROVE f[k] = f[k - 1] + Len(s[k].data)
      OBVIOUS
    <2>1. k - 1 \in 0 .. N
      OBVIOUS
    <2>2. f[k - 1] \in Nat
      BY <2>1
    <2>3. f[k] = F[k][f[k - 1]]
      BY <1>3 DEF Iterates
    <2> QED
      BY <2>2, <2>3
  <1>5. Eq(f)
    <2>1. f = [k \in 0 .. N |-> f[k]]
      OBVIOUS
    <2>2. \A k \in 0 .. N : f[k] = IF k = 0 THEN 0 ELSE f[k - 1] + Len(s[k].data)
      BY <1>3, <1>4 DEF Iterates
    <2>3. f = [k \in 0 .. N |-> IF k = 0 THEN 0 ELSE f[k - 1] + Len(s[k].data)]
      BY <2>1, <2>2
    <2> QED
      BY <1>1, <2>3
  <1>6. PICK g : g = CHOOSE h : Eq(h)
    OBVIOUS
  <1>7. DataCount(s) = g[Len(s)]
    BY <1>6 DEF DataCount
  <1>8. Eq(g)
    <2> HIDE DEF Eq
    <2> QED
      BY <1>5, <1>6
  <1>9. g = [k \in 0 .. N |-> IF k = 0 THEN 0 ELSE g[k - 1] + Len(s[k].data)]
    BY <1>1, <1>8
  <1>10. g[0] = 0 /\ \A k \in 1 .. N : g[k] = g[k - 1] + Len(s[k].data)
    <2>1. \A k \in 0 .. N : g[k] = IF k = 0 THEN 0 ELSE g[k - 1] + Len(s[k].data)
      BY <1>9
    <2> QED
      BY <2>1
  <1>11. \A k \in 0 .. N : g[k] \in Nat
    <2>1. \A k \in 1 .. N : g[k - 1] \in Nat => g[k] \in Nat
      <3> SUFFICES ASSUME NEW k \in 1 .. N, g[k - 1] \in Nat PROVE g[k] \in Nat
        OBVIOUS
      <3>1. Len(s[k].data) \in Nat /\ g[k] = g[k - 1] + Len(s[k].data)
        BY <1>2, <1>10
      <3> QED
        BY <3>1
    <2>2. g[0] \in Nat
      BY <1>10
    <2> QED
      BY <2>1, <2>2, IterationKeeps
  <1>12. g \in [0 .. N -> Nat]
    BY <1>9, <1>11
  <1> QED
    BY <1>1, <1>7, <1>10, <1>12 DEF CountOf

\* Chains that begin alike have the same blocks at the beginning.
LEMMA ChainPrefix ==
    ASSUME NEW s \in Seq(Ext), NEW t \in Seq(Ext), NEW N \in Nat, N <= Len(s), N <= Len(t),
           \A k \in 1 .. N : s[k] = t[k]
    PROVE  /\ \A f, g : FlatOf(f, s) /\ FlatOf(g, t) => f[N] = g[N]
           /\ \A f, g : CountOf(f, s) /\ CountOf(g, t) => f[N] = g[N]
  <1>1. ASSUME NEW f, NEW g, FlatOf(f, s), FlatOf(g, t) PROVE f[N] = g[N]
    <2> DEFINE h == [k \in 0 .. N |-> IF f[k] = g[k] THEN 1 ELSE 0]
    <2>1. h[0] \in {1}
      BY <1>1 DEF FlatOf
    <2>2. \A k \in 1 .. N : h[k - 1] \in {1} => h[k] \in {1}
      <3> SUFFICES ASSUME NEW k \in 1 .. N, h[k - 1] \in {1} PROVE h[k] \in {1}
        OBVIOUS
      <3>1. k - 1 \in 0 .. N /\ k \in 0 .. N /\ k \in 1 .. Len(s) /\ k \in 1 .. Len(t)
        OBVIOUS
      <3>2. f[k - 1] = g[k - 1]
        BY <3>1
      <3>3. f[k] = g[k]
        <4>1. /\ f[k] = f[k - 1] \o s[k].data \o <<s[k].blk>>
              /\ g[k] = g[k - 1] \o t[k].data \o <<t[k].blk>>
          BY <1>1, <3>1 DEF FlatOf
        <4>2. s[k] = t[k]
          OBVIOUS
        <4> QED
          BY <3>2, <4>1, <4>2, Zenon
      <3> QED
        BY <3>1, <3>3
    <2>3. \A k \in 0 .. N : h[k] \in {1}
      <3> HIDE DEF h
      <3> QED
        BY <2>1, <2>2, IterationKeeps
    <2> QED
      BY <2>3
  <1>2. ASSUME NEW f, NEW g, CountOf(f, s), CountOf(g, t) PROVE f[N] = g[N]
    <2> DEFINE h == [k \in 0 .. N |-> IF f[k] = g[k] THEN 1 ELSE 0]
    <2>1. h[0] \in {1}
      BY <1>2 DEF CountOf
    <2>2. \A k \in 1 .. N : h[k - 1] \in {1} => h[k] \in {1}
      <3> SUFFICES ASSUME NEW k \in 1 .. N, h[k - 1] \in {1} PROVE h[k] \in {1}
        OBVIOUS
      <3>1. k - 1 \in 0 .. N /\ k \in 0 .. N /\ k \in 1 .. Len(s) /\ k \in 1 .. Len(t)
        OBVIOUS
      <3>2. f[k - 1] = g[k - 1]
        BY <3>1
      <3>3. f[k] = g[k]
        <4>1. f[k] = f[k - 1] + Len(s[k].data) /\ g[k] = g[k - 1] + Len(t[k].data)
          BY <1>2, <3>1 DEF CountOf
        <4>2. s[k] = t[k]
          OBVIOUS
        <4> QED
          BY <3>2, <4>1, <4>2, Zenon
      <3> QED
        BY <3>1, <3>3
    <2>3. \A k \in 0 .. N : h[k] \in {1}
      <3> HIDE DEF h
      <3> QED
        BY <2>1, <2>2, IterationKeeps
    <2> QED
      BY <2>3
  <1> QED
    BY <1>1, <1>2

\* The elements of sequences that are put together.
LEMMA RangeFacts ==
    ASSUME NEW S, NEW s \in Seq(S)
    PROVE  /\ RangeOf(s) \in SUBSET S
           /\ s = <<>> => RangeOf(s) = {}
           /\ \A t \in Seq(S) : RangeOf(s \o t) = RangeOf(s) \cup RangeOf(t)
           /\ \A x \in S : RangeOf(Append(s, x)) = RangeOf(s) \cup {x} /\ RangeOf(<<x>>) = {x}
  <1>1. DOMAIN s = 1 .. Len(s) /\ Len(s) \in Nat /\ \A k \in 1 .. Len(s) : s[k] \in S
    OBVIOUS
  <1>2. ASSUME NEW t \in Seq(S) PROVE RangeOf(s \o t) = RangeOf(s) \cup RangeOf(t)
    <2> DEFINE u == s \o t
    <2>1. /\ u \in Seq(S) /\ Len(u) = Len(s) + Len(t)
          /\ \A k \in 1 .. Len(s) : u[k] = s[k]
          /\ \A k \in 1 .. Len(t) : u[Len(s) + k] = t[k]
      OBVIOUS
    <2>2. DOMAIN u = 1 .. Len(s) + Len(t) /\ DOMAIN t = 1 .. Len(t) /\ Len(t) \in Nat
      BY <2>1
    <2> HIDE DEF u
    <2>3. ASSUME NEW k \in DOMAIN u PROVE u[k] \in RangeOf(s) \cup RangeOf(t)
      <3>1. CASE k <= Len(s)
        <4>1. k \in 1 .. Len(s)
          BY <1>1, <2>2, <3>1
        <4> QED
          BY <1>1, <2>1, <4>1 DEF RangeOf
      <3>2. CASE ~(k <= Len(s))
        <4>1. PICK j \in 1 .. Len(t) : k = Len(s) + j
          <5>1. k - Len(s) \in 1 .. Len(t) /\ k = Len(s) + (k - Len(s))
            BY <1>1, <2>2, <3>2
          <5> QED
            BY <5>1
        <4> QED
          BY <2>1, <2>2, <4>1 DEF RangeOf
      <3> QED
        BY <3>1, <3>2
    <2>4. ASSUME NEW k \in DOMAIN s PROVE s[k] \in RangeOf(u)
      <3>1. k \in DOMAIN u /\ u[k] = s[k]
        BY <1>1, <2>1, <2>2
      <3> QED
        BY <3>1 DEF RangeOf
    <2>5. ASSUME NEW k \in DOMAIN t PROVE t[k] \in RangeOf(u)
      <3>1. Len(s) + k \in DOMAIN u /\ u[Len(s) + k] = t[k]
        BY <1>1, <2>1, <2>2
      <3> QED
        BY <3>1 DEF RangeOf
    <2>6. RangeOf(u) = RangeOf(s) \cup RangeOf(t)
      BY <2>3, <2>4, <2>5 DEF RangeOf
    <2> QED
      BY <2>6 DEF u
  <1>3. \A x \in S : <<x>> \in Seq(S) /\ RangeOf(<<x>>) = {x}
    BY DEF RangeOf
  <1>4. \A x \in S : RangeOf(Append(s, x)) = RangeOf(s) \cup {x}
    <2> SUFFICES ASSUME NEW x \in S PROVE RangeOf(Append(s, x)) = RangeOf(s) \cup {x}
      OBVIOUS
    <2>1. Append(s, x) = s \o <<x>>
      OBVIOUS
    <2> QED
      BY <1>2, <1>3, <2>1
  <1>5. RangeOf(s) \in SUBSET S /\ (s = <<>> => RangeOf(s) = {})
    BY <1>1 DEF RangeOf
  <1> QED
    BY <1>2, <1>3, <1>4, <1>5

\* The blocks of a chain with one more extent block behind it.
LEMMA RangeOfThree ==
    ASSUME NEW a \in Seq(Block), NEW b \in Seq(Block), NEW e \in Block
    PROVE  /\ a \o b \o <<e>> \in Seq(Block)
           /\ RangeOf(a \o b \o <<e>>) = RangeOf(a) \cup RangeOf(b) \cup {e}
  <1>1. a \o b \in Seq(Block) /\ <<e>> \in Seq(Block) /\ a \o b \o <<e>> \in Seq(Block)
    OBVIOUS
  <1>2. RangeOf(a \o b) = RangeOf(a) \cup RangeOf(b)
    BY RangeFacts
  <1>3. \A u \in Seq(Block) : RangeOf(u \o <<e>>) = RangeOf(u) \cup RangeOf(<<e>>)
    <2> SUFFICES ASSUME NEW u \in Seq(Block) PROVE RangeOf(u \o <<e>>) = RangeOf(u) \cup RangeOf(<<e>>)
      OBVIOUS
    <2>1. PICK v \in Seq(Block) : v = <<e>>
      BY <1>1
    <2>2. RangeOf(u \o v) = RangeOf(u) \cup RangeOf(v)
      BY RangeFacts
    <2> QED
      BY <2>1, <2>2
  <1>4. RangeOf(<<e>>) = {e}
    BY RangeFacts
  <1> QED
    BY <1>1, <1>2, <1>3, <1>4

\* Sets of blocks are finite.
LEMMA BlockFinite ==
    ASSUME NEW S \in SUBSET Block
    PROVE  IsFiniteSet(S)
  <1>1. NBlocks \in Int /\ 1 \in Int
    BY SizeAssumption
  <1>2. IsFiniteSet(1 .. NBlocks)
    BY <1>1, FS_Interval
  <1> QED
    BY <1>2, FS_Subset DEF Block

\* Types of what a chain collects to.
LEMMA FlatType ==
    ASSUME NEW s \in Seq(Ext)
    PROVE  /\ Flat(s) \in Seq(Block) /\ DataCount(s) \in Nat
           /\ RangeOf(Flat(s)) \in SUBSET Block /\ Len(Flat(s)) \in Nat
  <1>1. PICK f : FlatOf(f, s)
    BY FlatExists
  <1>2. PICK g : CountOf(g, s)
    BY CountExists
  <1>3. Len(s) \in 0 .. Len(s)
    OBVIOUS
  <1>4. Flat(s) \in Seq(Block)
    BY <1>1, <1>3 DEF FlatOf
  <1>5. DataCount(s) \in Nat
    BY <1>2, <1>3 DEF CountOf
  <1> QED
    BY <1>4, <1>5, RangeFacts

\* What another extent block adds.
LEMMA LinkNew ==
    ASSUME NEW s \in Seq(Ext), NEW d \in Block, NEW e \in Block
    PROVE  \A t : t = Append(s, [blk |-> e, data |-> <<d>>]) =>
           /\ t \in Seq(Ext) /\ t # <<>> /\ t[1] = IF s = <<>> THEN [blk |-> e, data |-> <<d>>] ELSE s[1]
           /\ RangeOf(Flat(t)) = RangeOf(Flat(s)) \cup {d, e}
           /\ Len(Flat(t)) = Len(Flat(s)) + 2
           /\ DataCount(t) = DataCount(s) + 1
  <1> DEFINE x == [blk |-> e, data |-> <<d>>]
  <1> SUFFICES ASSUME NEW t, t = Append(s, x)
               PROVE  /\ t \in Seq(Ext) /\ t # <<>> /\ t[1] = IF s = <<>> THEN x ELSE s[1]
                      /\ RangeOf(Flat(t)) = RangeOf(Flat(s)) \cup {d, e}
                      /\ Len(Flat(t)) = Len(Flat(s)) + 2
                      /\ DataCount(t) = DataCount(s) + 1
    OBVIOUS
  <1>1. x \in Ext /\ x.blk = e /\ x.data = <<d>>
    <2>1. <<d>> \in Seq(Block) \ {<<>>}
      OBVIOUS
    <2> QED
      BY <2>1 DEF Ext
  <1>2. PICK N \in Nat : N = Len(s)
    OBVIOUS
  <1> HIDE DEF x
  <1>3. /\ t \in Seq(Ext) /\ t # <<>> /\ Len(t) = N + 1 /\ t[N + 1] = x
        /\ \A k \in 1 .. N : t[k] = s[k]
    BY <1>1, <1>2
  <1>4. t[1] = IF s = <<>> THEN x ELSE s[1]
    <2>1. CASE s = <<>>
      <3>1. N = 0
        BY <1>2, <2>1
      <3> QED
        BY <1>3, <2>1, <3>1
    <2>2. CASE s # <<>>
      <3>1. 1 \in 1 .. N
        BY <1>2, <2>2
      <3> QED
        BY <1>3, <2>2, <3>1
    <2> QED
      BY <2>1, <2>2
  <1>5. PICK M \in Nat : M = N + 1 /\ M - 1 = N /\ M \in 1 .. Len(t) /\ N \in 0 .. Len(t) /\ M = Len(t)
    BY <1>3
  <1>6. t[M] = x
    BY <1>3, <1>5
  <1>7. N <= Len(s) /\ N <= Len(t) /\ \A k \in 1 .. N : s[k] = t[k]
    BY <1>2, <1>3, <1>5
  <1>8. PICK f, g : FlatOf(f, s) /\ FlatOf(g, t)
    BY <1>3, FlatExists
  <1>9. f[N] = g[N]
    <2>1. PICK u \in Seq(Ext) : u = t
      BY <1>3
    <2>2. N <= Len(s) /\ N <= Len(u) /\ FlatOf(g, u) /\ \A k \in 1 .. N : s[k] = u[k]
      BY <1>7, <1>8, <2>1
    <2> QED
      BY <1>8, <2>2, ChainPrefix
  <1>10. Flat(t) = Flat(s) \o <<d>> \o <<e>>
    <2>1. Flat(s) = f[N] /\ Flat(t) = g[M]
      BY <1>2, <1>5, <1>8 DEF FlatOf
    <2>2. g[M] = g[M - 1] \o t[M].data \o <<t[M].blk>>
      BY <1>5, <1>8 DEF FlatOf
    <2> QED
      BY <1>1, <1>5, <1>6, <1>9, <2>1, <2>2
  <1>11. PICK a \in Seq(Block) : a = Flat(s)
    BY FlatType
  <1>12. RangeOf(a \o <<d>> \o <<e>>) = RangeOf(a) \cup {d, e}
    <2>1. <<d>> \in Seq(Block)
      OBVIOUS
    <2>2. PICK v \in Seq(Block) : v = <<d>>
      BY <2>1
    <2>3. RangeOf(v) = {d}
      BY <2>2, RangeFacts
    <2>4. RangeOf(a \o v \o <<e>>) = RangeOf(a) \cup RangeOf(v) \cup {e}
      BY RangeOfThree
    <2> QED
      BY <2>2, <2>3, <2>4
  <1>13. Len(a \o <<d>> \o <<e>>) = Len(a) + 2
    OBVIOUS
  <1>14. PICK p, q : CountOf(p, s) /\ CountOf(q, t)
    BY <1>3, CountExists
  <1>15. p[N] = q[N]
    <2>1. PICK u \in Seq(Ext) : u = t
      BY <1>3
    <2>2. N <= Len(s) /\ N <= Len(u) /\ CountOf(q, u) /\ \A k \in 1 .. N : s[k] = u[k]
      BY <1>7, <1>14, <2>1
    <2> QED
      BY <1>14, <2>2, ChainPrefix
  <1>16. DataCount(t) = DataCount(s) + 1
    <2>1. DataCount(s) = p[N] /\ DataCount(t) = q[M]
      BY <1>2, <1>5, <1>14 DEF CountOf
    <2>2. q[M] = q[M - 1] + Len(t[M].data)
      BY <1>5, <1>14 DEF CountOf
    <2>3. Len(<<d>>) = 1
      OBVIOUS
    <2> QED
      BY <1>1, <1>5, <1>6, <1>15, <2>1, <2>2, <2>3
  <1> QED
    BY <1>3, <1>4, <1>10, <1>11, <1>12, <1>13, <1>16

\* What another data block in the last extent block adds.
LEMMA LinkMore ==
    ASSUME NEW s \in Seq(Ext), s # <<>>, NEW d \in Block
    PROVE  \A t : t = [s EXCEPT ![Len(s)].data = Append(@, d)] =>
           /\ t \in Seq(Ext) /\ t # <<>> /\ t[1].blk = s[1].blk
           /\ RangeOf(Flat(t)) = RangeOf(Flat(s)) \cup {d}
           /\ Len(Flat(t)) = Len(Flat(s)) + 1
           /\ DataCount(t) = DataCount(s) + 1
  <1> SUFFICES ASSUME NEW t, t = [s EXCEPT ![Len(s)].data = Append(@, d)]
               PROVE  /\ t \in Seq(Ext) /\ t # <<>> /\ t[1].blk = s[1].blk
                      /\ RangeOf(Flat(t)) = RangeOf(Flat(s)) \cup {d}
                      /\ Len(Flat(t)) = Len(Flat(s)) + 1
                      /\ DataCount(t) = DataCount(s) + 1
    OBVIOUS
  <1>1. PICK M \in Nat \ {0}, N \in Nat :
          M = Len(s) /\ M = N + 1 /\ M - 1 = N /\ M \in 1 .. Len(s) /\ N \in 0 .. Len(s)
    <2>1. Len(s) \in Nat \ {0}
      OBVIOUS
    <2>2. /\ Len(s) - 1 \in Nat /\ Len(s) = (Len(s) - 1) + 1 /\ Len(s) \in 1 .. Len(s)
          /\ Len(s) - 1 \in 0 .. Len(s)
      BY <2>1
    <2> QED
      BY <2>1, <2>2
  <1>2. s[M] \in Ext
    <2>1. DOMAIN s = 1 .. Len(s) /\ \A k \in 1 .. Len(s) : s[k] \in Ext
      OBVIOUS
    <2> QED
      BY <1>1, <2>1
  <1>3. s[M].data \in Seq(Block) /\ s[M].blk \in Block
    BY <1>2 DEF Ext
  <1>4. PICK x : x = [s[M] EXCEPT !.data = Append(s[M].data, d)]
    OBVIOUS
  <1>5. x \in Ext /\ x.blk = s[M].blk /\ x.data = Append(s[M].data, d)
    <2>1. Append(s[M].data, d) \in Seq(Block) \ {<<>>}
      <3>1. PICK u \in Seq(Block) : u = s[M].data
        BY <1>3
      <3>2. Append(u, d) \in Seq(Block) /\ Append(u, d) # <<>>
        OBVIOUS
      <3> QED
        BY <3>1, <3>2
    <2> QED
      BY <1>2, <1>4, <2>1 DEF Ext
  <1>6. t = [s EXCEPT ![M] = x]
    BY <1>1, <1>4
  <1>7. /\ t \in Seq(Ext) /\ t # <<>> /\ Len(t) = M /\ t[M] = x
        /\ \A k \in 1 .. N : t[k] = s[k]
    <2>0. DOMAIN s = 1 .. Len(s)
      OBVIOUS
    <2>1. M \in DOMAIN s /\ \A k \in 1 .. N : k # M /\ k \in DOMAIN s
      BY <1>1, <2>0
    <2>2. t \in Seq(Ext) /\ Len(t) = Len(s) /\ t[M] = x
      BY <1>5, <1>6, <2>1
    <2>3. \A k \in 1 .. N : t[k] = s[k]
      BY <1>6, <2>1
    <2> QED
      BY <1>1, <2>2, <2>3
  <1>8. t[1].blk = s[1].blk
    <2>1. 1 = M \/ 1 \in 1 .. N
      BY <1>1
    <2> QED
      BY <1>5, <1>7, <2>1
  <1>9. N <= Len(s) /\ N <= Len(t) /\ \A k \in 1 .. N : s[k] = t[k]
    BY <1>1, <1>7
  <1>10. PICK f, g : FlatOf(f, s) /\ FlatOf(g, t)
    BY <1>7, FlatExists
  <1>11. f[N] = g[N]
    <2>1. PICK u \in Seq(Ext) : u = t
      BY <1>7
    <2>2. N <= Len(s) /\ N <= Len(u) /\ FlatOf(g, u) /\ \A k \in 1 .. N : s[k] = u[k]
      BY <1>9, <1>10, <2>1
    <2> QED
      BY <1>10, <2>2, ChainPrefix
  <1>12. PICK a \in Seq(Block), b \in Seq(Block), e \in Block :
           a = f[N] /\ b = s[M].data /\ e = s[M].blk
    BY <1>1, <1>3, <1>10 DEF FlatOf
  <1>13. Flat(s) = a \o b \o <<e>>
    <2>1. Flat(s) = f[M]
      BY <1>1, <1>10 DEF FlatOf
    <2>2. f[M] = f[M - 1] \o s[M].data \o <<s[M].blk>>
      BY <1>1, <1>10 DEF FlatOf
    <2> QED
      BY <1>1, <1>12, <2>1, <2>2
  <1>14. Flat(t) = a \o Append(b, d) \o <<e>>
    <2>1. Flat(t) = g[M]
      BY <1>7, <1>10 DEF FlatOf
    <2>2. g[M] = g[M - 1] \o t[M].data \o <<t[M].blk>>
      BY <1>1, <1>7, <1>10 DEF FlatOf
    <2> QED
      BY <1>1, <1>5, <1>7, <1>11, <1>12, <2>1, <2>2
  <1>15. RangeOf(a \o Append(b, d) \o <<e>>) = RangeOf(a \o b \o <<e>>) \cup {d}
    <2>1. Append(b, d) \in Seq(Block)
      OBVIOUS
    <2>2. PICK v \in Seq(Block) : v = Append(b, d)
      BY <2>1
    <2>3. RangeOf(v) = RangeOf(b) \cup {d}
      <3>0. PICK u \in Seq(Block) : u = b
        OBVIOUS
      <3>1. \A z \in Block : RangeOf(Append(u, z)) = RangeOf(u) \cup {z} /\ RangeOf(<<z>>) = {z}
        BY RangeFacts
      <3>2. RangeOf(Append(b, d)) = RangeOf(b) \cup {d}
        BY <3>0, <3>1
      <3> QED
        BY <2>2, <3>2
    <2>4. RangeOf(a \o v \o <<e>>) = RangeOf(a) \cup RangeOf(v) \cup {e}
      BY RangeOfThree
    <2>5. RangeOf(a \o b \o <<e>>) = RangeOf(a) \cup RangeOf(b) \cup {e}
      BY RangeOfThree
    <2>6. RangeOf(a \o Append(b, d) \o <<e>>) = RangeOf(a) \cup (RangeOf(b) \cup {d}) \cup {e}
      BY <2>2, <2>3, <2>4
    <2> QED
      BY <2>5, <2>6
  <1>16. Len(a \o Append(b, d) \o <<e>>) = Len(a \o b \o <<e>>) + 1
    OBVIOUS
  <1>17. PICK p, q : CountOf(p, s) /\ CountOf(q, t)
    BY <1>7, CountExists
  <1>18. p[N] = q[N]
    <2>1. PICK u \in Seq(Ext) : u = t
      BY <1>7
    <2>2. N <= Len(s) /\ N <= Len(u) /\ \A k \in 1 .. N : s[k] = u[k]
      BY <1>9, <2>1
    <2>3. CountOf(p, s) /\ CountOf(q, u)
      BY <1>17, <2>1
    <2>4. \A y, z : CountOf(y, s) /\ CountOf(z, u) => y[N] = z[N]
      BY <2>2, ChainPrefix
    <2> QED
      BY <2>3, <2>4
  <1>19. DataCount(t) = DataCount(s) + 1
    <2>1. DataCount(s) = p[M] /\ DataCount(t) = q[M]
      BY <1>1, <1>7, <1>17 DEF CountOf
    <2>0. p[N] \in Nat
      <3>1. p \in [0 .. Len(s) -> Nat]
        BY <1>17 DEF CountOf
      <3> QED
        BY <1>1, <3>1
    <2>2. q[M] = q[M - 1] + Len(t[M].data) /\ p[M] = p[M - 1] + Len(s[M].data)
      BY <1>1, <1>7, <1>17 DEF CountOf
    <2>3. Len(Append(b, d)) = Len(b) + 1 /\ Len(b) \in Nat
      OBVIOUS
    <2>4. Len(t[M].data) = Len(b) + 1 /\ Len(s[M].data) = Len(b)
      BY <1>5, <1>7, <1>12, <2>3
    <2>5. q[M] = p[N] + (Len(b) + 1) /\ p[M] = p[N] + Len(b)
      BY <1>1, <1>18, <2>2, <2>4
    <2>6. \A y, z \in Nat : y + (z + 1) = (y + z) + 1
      OBVIOUS
    <2>7. p[N] + (Len(b) + 1) = (p[N] + Len(b)) + 1
      BY <2>0, <2>3, <2>6
    <2> QED
      BY <2>1, <2>5, <2>7
  <1> QED
    BY <1>7, <1>8, <1>13, <1>14, <1>15, <1>16, <1>19

\* The root of a stream is one of its blocks.
LEMMA FlatRoot ==
    ASSUME NEW s \in Seq(Ext), s # <<>>
    PROVE  s[1].blk \in RangeOf(Flat(s))
  <1>1. PICK f : FlatOf(f, s)
    BY FlatExists
  <1>2. PICK N \in Nat \ {0} : N = Len(s)
    OBVIOUS
  <1>3. \A k \in 1 .. N : s[k].blk \in Block /\ s[k].data \in Seq(Block)
    <2>1. \A k \in 1 .. N : s[k] \in Ext
      BY <1>2
    <2> QED
      BY <2>1 DEF Ext
  <1>4. \A k \in 1 .. N : /\ f[k - 1] \in Seq(Block) /\ f[k] \in Seq(Block)
                          /\ RangeOf(f[k]) = RangeOf(f[k - 1]) \cup RangeOf(s[k].data) \cup {s[k].blk}
    <2> SUFFICES ASSUME NEW k \in 1 .. N
                 PROVE  /\ f[k - 1] \in Seq(Block) /\ f[k] \in Seq(Block)
                        /\ RangeOf(f[k]) = RangeOf(f[k - 1]) \cup RangeOf(s[k].data) \cup {s[k].blk}
      OBVIOUS
    <2>0. k - 1 \in 0 .. N /\ k \in 0 .. N
      OBVIOUS
    <2>1. PICK a \in Seq(Block), b \in Seq(Block), e \in Block :
            a = f[k - 1] /\ b = s[k].data /\ e = s[k].blk
      BY <1>1, <1>2, <1>3, <2>0 DEF FlatOf
    <2>2. f[k] = a \o b \o <<e>>
      <3>1. f[k] = f[k - 1] \o s[k].data \o <<s[k].blk>>
        BY <1>1, <1>2 DEF FlatOf
      <3> QED
        BY <2>1, <3>1
    <2>3. RangeOf(a \o b \o <<e>>) = RangeOf(a) \cup RangeOf(b) \cup {e} /\ a \o b \o <<e>> \in Seq(Block)
      BY RangeOfThree
    <2> QED
      BY <2>1, <2>2, <2>3
  <1>5. PICK I : I = {x \in Seq(Block) : s[1].blk \in RangeOf(x)}
    OBVIOUS
  <1> DEFINE h == [k \in 0 .. N |-> IF k = 0 \/ f[k] \in I THEN 1 ELSE 0]
  <1>6. h[0] \in {1}
    OBVIOUS
  <1>7. \A k \in 1 .. N : h[k - 1] \in {1} => h[k] \in {1}
    <2> SUFFICES ASSUME NEW k \in 1 .. N, h[k - 1] \in {1} PROVE h[k] \in {1}
      OBVIOUS
    <2>1. k - 1 \in 0 .. N /\ k \in 0 .. N /\ (k - 1 = 0 => k = 1)
      OBVIOUS
    <2>2. f[k] \in I
      <3>1. f[k] \in Seq(Block) /\ RangeOf(f[k]) = RangeOf(f[k - 1]) \cup RangeOf(s[k].data) \cup {s[k].blk}
        BY <1>4
      <3>2. k - 1 = 0 \/ f[k - 1] \in I
        BY <2>1
      <3>3. s[1].blk \in RangeOf(f[k])
        BY <1>5, <2>1, <3>1, <3>2
      <3> QED
        BY <1>5, <3>1, <3>3
    <2> QED
      BY <2>1, <2>2
  <1>8. h[N] \in {1}
    <2>1. \A k \in 0 .. N : h[k] \in {1}
      <3> HIDE DEF h
      <3> QED
        BY <1>6, <1>7, IterationKeeps
    <2> QED
      BY <2>1
  <1>9. f[N] \in I
    BY <1>2, <1>8
  <1> QED
    BY <1>1, <1>2, <1>5, <1>9 DEF FlatOf

-----------------------------------------------------------------------------
(***************************************************************************)
(* Lemmas about steps: what stays the same                                 *)
(***************************************************************************)
\* Types of the fields of the call frame.
LEMMA FrameFields ==
    ASSUME c \in Frame
    PROVE  /\ c.pc \in Pc /\ c.op \in Op /\ c.dir \in Ino \cup {None} /\ c.name \in Name \cup {None}
           /\ c.dir2 \in Ino \cup {None} /\ c.name2 \in Name \cup {None} /\ c.ino \in Ino \cup {None}
           /\ c.node \in InodeT /\ c.end \in Nat /\ c.copy \in [Ino -> InodeT] /\ c.root \in Ptr
           /\ c.need \in Nat /\ c.ret \in Pc /\ c.data \in Ptr /\ c.ext \in Ptr /\ c.idx \in Nat
           /\ c.todo \in Seq(Block) /\ c.cont \in Pc
  BY DEF Frame

\* The frame goes on to another step.
LEMMA FrameAt ==
    ASSUME c \in Frame, NEW p \in Pc
    PROVE  [c EXCEPT !.pc = p] \in Frame
  BY DEF Frame

\* The frame starts to grow a stream.
LEMMA FrameGrow ==
    ASSUME c \in Frame, NEW p \in Pc, NEW r \in Ptr, NEW u \in Nat
    PROVE  [c EXCEPT !.pc = "grow", !.root = r, !.need = u, !.ret = p] \in Frame
  <1>1. "grow" \in Pc
    BY DEF Pc, GrowPc
  <1> QED
    BY <1>1 DEF Frame
-----------------------------------------------------------------------------
(***************************************************************************)
(* What a step keeps that leaves a part of the state alone                 *)
(***************************************************************************)
\* The disk keeps its type when only the bitmaps change.
LEMMA DiskStays ==
    ASSUME DiskInv, bmap' \in SUBSET Block, imap' \in SUBSET Ino, UNCHANGED <<itab, chain, area>>
    PROVE  DiskInv'
  BY DEF DiskInv, Grounded

\* Inodes of L keep what the invariant says about them.
SameInodes(L) ==
    \A i \in L : /\ itab'[i].type = itab[i].type /\ itab'[i].dir = itab[i].dir
                 /\ itab'[i].data = itab[i].data /\ itab'[i].size = itab[i].size

\* The directories of L keep their entries.
SameKids(L) == \A d \in L, n \in Name : Kid(d, n)' = Kid(d, n)

\* The arguments of the call in progress.
SameCall ==
    /\ c'.op = c.op /\ c'.dir = c.dir /\ c'.name = c.name /\ c'.dir2 = c.dir2 /\ c'.name2 = c.name2
    /\ c'.ino = c.ino /\ c'.node = c.node /\ c'.end = c.end /\ c'.copy = c.copy

\* Where it works.
SameArgs ==
    /\ c'.op = c.op /\ c'.dir = c.dir /\ c'.name = c.name /\ c'.dir2 = c.dir2 /\ c'.name2 = c.name2
    /\ c'.copy = c.copy

\* What the names need of it.
SameDirs(L) == \A i \in L : itab'[i].type = itab[i].type /\ itab'[i].dir = itab[i].dir

\* They do when areas and inodes of directories stay.
LEMMA KidsStay ==
    ASSUME NEW L \in SUBSET Ino, SameDirs(L),
           \A d \in L, n \in Name : IsDir(d) =>
               Lookup(area'[itab[d].dir], n) = Lookup(area[itab[d].dir], n)
    PROVE  SameKids(L)
  <1> SUFFICES ASSUME NEW d \in L, NEW n \in Name PROVE Kid(d, n)' = Kid(d, n)
    BY DEF SameKids
  <1>1. itab'[d].type = itab[d].type /\ itab'[d].dir = itab[d].dir
    BY DEF SameDirs
  <1>2. Kid(d, n) = IF itab[d].type = "DIR" THEN Lookup(area[itab[d].dir], n) ELSE None
    BY DEF Kid, IsDir, AreaOf
  <1>3. Kid(d, n)' = IF itab'[d].type = "DIR" THEN Lookup(area'[itab'[d].dir], n) ELSE None
    BY DEF Kid, IsDir, AreaOf, Lookup, Hits, Walk, FirstHit, Matches
  <1> QED
    BY <1>1, <1>2, <1>3 DEF IsDir

\* What follows from an unchanged inode table.
LEMMA SameTable ==
    ASSUME NEW L \in SUBSET Ino
    PROVE  /\ itab' = itab => SameInodes(L)
           /\ SameInodes(L) => SameDirs(L)
           /\ SameDirs(L) /\ area' = area => SameKids(L)
  <1>1. (itab' = itab => SameInodes(L)) /\ (SameInodes(L) => SameDirs(L))
    BY DEF SameInodes, SameDirs
  <1>2. SameDirs(L) /\ area' = area => SameKids(L)
    BY KidsStay
  <1> QED
    BY <1>1, <1>2

\* Names stay as long as the entries of the directories do.
LEMMA NamesKeep ==
    ASSUME NEW L \in SUBSET Ino, NameInv(L), SameDirs(L), SameKids(L), L \subseteq imap', OpenInodes' \subseteq L
    PROVE  NameInv(L)'
  <1>1. \A i \in L : itab'[i].type = itab[i].type /\ itab'[i].dir = itab[i].dir
    BY DEF SameDirs
  <1>2. \A d \in L, n \in Name : Kid(d, n)' = Kid(d, n)
    BY DEF SameKids
  <1>3. Root \in L /\ IsDir(Root)'
    BY <1>1 DEF NameInv, IsDir
  <1>4. \A i \in L : itab'[i].type # "NONE" /\ (IsDir(i)' => itab'[i].dir # None)
    BY <1>1 DEF NameInv, IsDir
  <1>5. \A d \in L, n \in Name : Kid(d, n)' # None => Kid(d, n)' \in L \ {Root}
    BY <1>2 DEF NameInv
  <1>6. \A d, e \in L, m, n \in Name :
           Kid(d, m)' # None /\ Kid(d, m)' = Kid(e, n)' => d = e /\ m = n
    BY <1>2 DEF NameInv
  <1> QED
    BY <1>3, <1>4, <1>5, <1>6 DEF NameInv

\* The same when the inodes of L stay.
LEMMA NamesStay ==
    ASSUME NEW L \in SUBSET Ino, NameInv(L), SameInodes(L), SameKids(L), L \subseteq imap', OpenInodes' \subseteq L
    PROVE  NameInv(L)'
  BY NamesKeep, SameTable

\* Areas that are not written stay as they are.
LEMMA AreasStay ==
    ASSUME AreaInv, area' = area, c.pc # "header", c'.pc # "header", At' # "header",
           Inserting' => Inserting /\ c'.root = c.root /\ c'.idx = c.idx,
           Recorded' => /\ Recorded /\ SameCall /\ (At' = "slot" => At = "slot")
    PROVE  AreaInv'
  <1>1. \A b \in Block : Limit(b)' = Limit(b) /\ AreaOk(area[b], Limit(b))
    BY DEF AreaInv, Limit
  <1>2. \A b \in Block : AreaOk(area'[b], Limit(b)')
    BY <1>1
  <1>3. Inserting' => c'.root # None /\ c'.idx = area'[c'.root].next
    BY DEF AreaInv
  <1>4. Recorded' =>
          /\ c'.idx \in DOMAIN area'[c'.root].rec
          /\ area'[c'.root].rec[c'.idx].ino = c'.ino
          /\ area'[c'.root].rec[c'.idx].hash = InName'
          /\ area'[c'.root].rec[c'.idx].next = area'[c'.root].head[BucketOf[InName']]
          /\ At' = "slot" => area'[c'.root].rec[c'.idx].name = InName'
    <2> SUFFICES ASSUME Recorded'
                 PROVE /\ c'.idx \in DOMAIN area'[c'.root].rec
                       /\ area'[c'.root].rec[c'.idx].ino = c'.ino
                       /\ area'[c'.root].rec[c'.idx].hash = InName'
                       /\ area'[c'.root].rec[c'.idx].next = area'[c'.root].head[BucketOf[InName']]
                       /\ At' = "slot" => area'[c'.root].rec[c'.idx].name = InName'
      OBVIOUS
    <2>1. Recorded /\ SameCall /\ (At' = "slot" => At = "slot") /\ Inserting'
      BY DEF Recorded, Inserting
    <2>2. c'.root = c.root /\ c'.idx = c.idx /\ c'.ino = c.ino /\ InName' = InName
      BY <2>1 DEF SameCall, InName
    <2> QED
      BY <2>1, <2>2 DEF AreaInv
  <1> QED
    BY <1>2, <1>3, <1>4 DEF AreaInv, AreaOk, Sorted, Distinct, Live, Walk

\* Insertions and creations are parts of the operations that enter a name.
LEMMA NamingOps ==
    ASSUME PhaseInv
    PROVE  /\ Inserting => c.op \in Naming
           /\ Unplaced => c.op \in Naming
           /\ Creating => c.op \in Naming
  BY DEF PhaseInv, Inserting, Unplaced, Creating, Naming, OpsAt, RetsOf, GrowPc, InGrow

\* A call goes on working in its directory.
LEMMA WorksStay ==
    ASSUME NEW L \in SUBSET Ino, NEW d, NEW n, Works(L, d, n), SameInodes(L), c'.copy = c.copy
    PROVE  Works(L, d, n)'
  BY DEF Works, SameInodes, IsDir

\* The same for both directories of a rename.
LEMMA DirsStay ==
    ASSUME NEW L \in SUBSET Ino, DirsOk(L), PhaseInv, SameArgs, SameInodes(L),
           Inserting' => Inserting /\ c'.root = c.root
    PROVE  DirsOk(L)'
  <1>1. PICK d, n, d2, n2 : d = c.dir /\ n = c.name /\ d2 = c.dir2 /\ n2 = c.name2
    OBVIOUS
  <1>2. /\ c.op \in Naming \cup {"unlink"} => Works(L, d, n)
        /\ c.op = "rename" => Works(L, d2, n2)
    BY <1>1 DEF DirsOk
  <1>3. /\ c.op \in Naming \cup {"unlink"} => Works(L, d, n)'
        /\ c.op = "rename" => Works(L, d2, n2)'
    BY <1>2, WorksStay DEF SameArgs
  <1>4. c'.op = c.op /\ c'.dir = d /\ c'.name = n /\ c'.dir2 = d2 /\ c'.name2 = n2
    BY <1>1 DEF SameArgs
  <1>5. /\ c'.op \in Naming \cup {"unlink"} => Works(L, c.dir, c.name)'
        /\ c'.op = "rename" => Works(L, c.dir2, c.name2)'
    BY <1>3, <1>4 DEF Works
  <1>6. Inserting' => c'.root = itab'[InDir'].dir
    <2> SUFFICES ASSUME Inserting' PROVE c'.root = itab'[InDir'].dir
      OBVIOUS
    <2>1. c'.root = itab[InDir].dir /\ InDir' = InDir
      BY DEF DirsOk, SameArgs, InDir
    <2>2. c.op \in Naming
      BY NamingOps
    <2>3. InDir \in L
      BY <2>2 DEF DirsOk, Works, InDir, Naming
    <2> QED
      BY <2>1, <2>3 DEF SameInodes
  <1> QED
    BY <1>5, <1>6 DEF DirsOk, Naming

\* The names that a call has found stay found, or missing.
LEMMA PlaceStays ==
    ASSUME NEW L \in SUBSET Ino, DirsOk(L), PhaseInv, PlaceOk(L), SameArgs, SameKids(L),
           Creating' \/ At' = "ialloc" => Creating \/ At = "ialloc",
           Unplaced' => Unplaced /\ c'.ino = c.ino, At' # "unslot"
    PROVE  PlaceOk(L)'
  <1>1. PICK d, n, d2, n2, i : d = c.dir /\ n = c.name /\ d2 = c.dir2 /\ n2 = c.name2 /\ i = c.ino
    OBVIOUS
  <1>2. c'.op = c.op /\ c'.dir = d /\ c'.name = n /\ c'.dir2 = d2 /\ c'.name2 = n2 /\ (Unplaced' => c'.ino = i)
    BY <1>1 DEF SameArgs
  <1>3. Creating' \/ At' = "ialloc" \/ Unplaced' => Kid(d, n)' = None
    <2> SUFFICES ASSUME Creating' \/ At' = "ialloc" \/ Unplaced' PROVE Kid(d, n)' = None
      OBVIOUS
    <2>1. Kid(d, n) = None
      BY <1>1 DEF PlaceOk
    <2>2. c.op \in Naming
      <3>1. At = "ialloc" => c.op \in {"create", "mkdir"}
        BY DEF PhaseInv, OpsAt, GrowPc
      <3> QED
        BY <3>1, NamingOps DEF Naming
    <2>3. d \in L /\ n \in Name
      BY <1>1, <2>2 DEF DirsOk, Works
    <2> QED
      BY <2>1, <2>3 DEF SameKids
  <1>4. ASSUME Unplaced'
        PROVE  /\ i \in L \ {Root}
               /\ \A e \in L, m \in Name : Kid(e, m)' # i
               /\ c.op = "rename" => Kid(d2, n2)' = None
    <2>1. /\ i \in L \ {Root}
          /\ \A e \in L, m \in Name : Kid(e, m) # i
          /\ c.op = "rename" => Kid(d2, n2) = None
      BY <1>1, <1>4 DEF PlaceOk
    <2>2. c.op = "rename" => d2 \in L /\ n2 \in Name
      BY <1>1 DEF DirsOk, Works
    <2> QED
      BY <2>1, <2>2 DEF SameKids
  <1>5. Kid(c.dir, c.name)' = Kid(d, n)' /\ Kid(c.dir2, c.name2)' = Kid(d2, n2)'
    BY <1>2 DEF Kid, IsDir, AreaOf
  <1> QED
    BY <1>2, <1>3, <1>4, <1>5 DEF PlaceOk

\* The inode that is being created stays as it is.
LEMMA NewStays ==
    ASSUME NEW L \in SUBSET Ino, NewOk(L), SameCall, imap \subseteq imap', UNCHANGED <<itab, area>>,
           Creating' => Creating, ChildWritten' => ChildWritten,
           At' = "child" => At = "child" \/ c.op # "mkdir",
           At' = "buckets" \/ (InGrow' /\ c'.ret = "buckets") =>
              (At = "buckets" \/ (InGrow /\ c.ret = "buckets")) /\ c'.root = c.root
    PROVE  NewOk(L)'
  BY DEF NewOk, SameCall

\* What is about to be freed has no name later either.
LEMMA GoneStays ==
    ASSUME NEW L \in SUBSET Ino, imap \in SUBSET Ino, NewOk(L), GoneOk(L), SameCall,
           At' = "ifree" \/ (At' = "undo" /\ c.op \in {"create", "mkdir"}) =>
              Creating \/ At = "ifree" \/ (At = "undo" /\ c.op \in {"create", "mkdir"}) \/ (c.op = "unlink" /\ At # "unslot"),
           c.op = "unlink" /\ At' # "unslot" => At # "unslot"
    PROVE  GoneOk(L)'
  BY DEF GoneOk, NewOk, SameCall

\* The root of a stream is among its blocks.
LEMMA RootOwned ==
    ASSUME DiskInv, NEW r \in Block, Grounded(r)
    PROVE  r \in Blk(r)
  <1>1. chain[r] \in Seq(Ext) /\ chain[r] # <<>> /\ chain[r][1].blk = r
    BY DEF DiskInv, Grounded, None, Block
  <1>2. r \in RangeOf(Flat(chain[r]))
    BY <1>1, FlatRoot
  <1> QED
    BY <1>2 DEF Blk, ChainBlocks, None, Block

\* An absent stream has no blocks.
LEMMA NoBlocks ==
    Blk(None) = {} /\ Once(None) /\ Total(None) = 0
  <1>1. Blk(None) = {}
    BY DEF Blk, RangeOf, ChainBlocks
  <1>2. ChainBlocks(None) = <<>>
    BY DEF ChainBlocks
  <1> QED
    BY <1>1, <1>2, FS_EmptySet DEF Once, Total

\* An extent chain that is not written keeps its blocks.
LEMMA SameChain ==
    ASSUME NEW r, chain'[r] = chain[r]
    PROVE  /\ Blk(r)' = Blk(r) /\ (Once(r)' <=> Once(r)) /\ Total(r)' = Total(r)
           /\ ChainBlocks(r)' = ChainBlocks(r)
  BY DEF Blk, Once, RangeOf, ChainBlocks, Total, Flat, DataCount

\* Streams stay apart when each of them keeps its blocks or gives them up, but
\* for one that gets the blocks that were held for it.
LEMMA StreamsStay ==
    ASSUME NEW L \in SUBSET Ino, NEW M \in SUBSET Ino, BlockInv(L), NEW G,
           \A i \in Members(M)', f \in Stream :
              Once(Cur(i, f))' /\ Blk(Cur(i, f))' \subseteq bmap' /\ Blk(Cur(i, f))' \cap (Held \cup Doomed \cup Left)' = {},
           \A i \in Members(M)', f \in Stream :
              \/ Blk(Cur(i, f))' = {}
              \/ i \in Members(L) /\ Blk(Cur(i, f))' \subseteq Blk(Cur(i, f))
              \/ i \in Members(L) /\ Blk(Cur(i, f))' \subseteq Blk(Cur(i, f)) \cup Held /\ <<i, f>> = G,
           Held' \subseteq bmap',
           At' = "prep" \/ (At' = "link" /\ c'.ext # None) => c'.data # c'.ext
    PROVE  BlockInv(M)'
  <1>1. ASSUME NEW i \in Members(M)', NEW f \in Stream, NEW j \in Members(M)', NEW g \in Stream, <<i, f>> # <<j, g>>
        PROVE  Blk(Cur(i, f))' \cap Blk(Cur(j, g))' = {}
    <2>1. CASE Blk(Cur(i, f))' = {} \/ Blk(Cur(j, g))' = {}
      BY <2>1
    <2>2. CASE i \in Members(L) /\ j \in Members(L)
      <3>1. /\ Blk(Cur(i, f)) \cap Blk(Cur(j, g)) = {}
            /\ Blk(Cur(i, f)) \cap Held = {} /\ Blk(Cur(j, g)) \cap Held = {}
        BY <1>1, <2>2 DEF BlockInv
      <3>2. \/ Blk(Cur(i, f))' \subseteq Blk(Cur(i, f)) /\ Blk(Cur(j, g))' \subseteq Blk(Cur(j, g)) \cup Held
            \/ Blk(Cur(i, f))' \subseteq Blk(Cur(i, f)) \cup Held /\ Blk(Cur(j, g))' \subseteq Blk(Cur(j, g))
        <4>1. <<i, f>> # G \/ <<j, g>> # G
          BY <1>1
        <4>2. /\ \/ Blk(Cur(i, f))' = {}
                 \/ Blk(Cur(i, f))' \subseteq Blk(Cur(i, f))
                 \/ Blk(Cur(i, f))' \subseteq Blk(Cur(i, f)) \cup Held /\ <<i, f>> = G
              /\ \/ Blk(Cur(j, g))' = {}
                 \/ Blk(Cur(j, g))' \subseteq Blk(Cur(j, g))
                 \/ Blk(Cur(j, g))' \subseteq Blk(Cur(j, g)) \cup Held /\ <<j, g>> = G
          BY <1>1
        <4> QED
          BY <4>1, <4>2
      <3> QED
        BY <3>1, <3>2
    <2> QED
      BY <1>1, <2>1, <2>2
  <1> QED
    BY <1>1 DEF BlockInv

\* A step that touches no chain, and at most gives up streams and blocks.
LEMMA BlocksStay ==
    ASSUME NEW L \in SUBSET Ino, NEW M \in SUBSET Ino, BlockInv(L), chain' = chain, Members(M)' \subseteq Members(L),
           \A i \in Members(M)', f \in Stream : Cur(i, f)' \in {None, Cur(i, f)},
           \A i \in Members(M)', f \in Stream : Blk(Cur(i, f)) \subseteq bmap',
           (Held \cup Doomed \cup Left)' \subseteq Held \cup Doomed \cup Left,
           Held' \subseteq Held, Held \subseteq bmap',
           At' = "prep" \/ (At' = "link" /\ c'.ext # None) =>
              (At = "prep" \/ (At = "link" /\ c.ext # None)) /\ c'.data = c.data /\ c'.ext = c.ext
    PROVE  BlockInv(M)'
  <1> DEFINE Aux == Held \cup Doomed \cup Left
  <1>1. ASSUME NEW i \in Members(M)', NEW f \in Stream
        PROVE  /\ Blk(Cur(i, f))' \in {{}, Blk(Cur(i, f))} /\ Blk(Cur(i, f))' \subseteq bmap'
               /\ Once(Cur(i, f))' /\ Blk(Cur(i, f))' \cap Aux' = {}
    <2>1. PICK r, s : r = Cur(i, f) /\ s = Cur(i, f)'
      OBVIOUS
    <2>2. s \in {None, r} /\ Blk(r) \subseteq bmap' /\ Once(r) /\ Blk(r) \cap Aux = {}
      BY <1>1, <2>1 DEF BlockInv
    <2>3. Blk(s) \in {{}, Blk(r)} /\ Once(s)
      BY <2>2, NoBlocks
    <2>4. Blk(s)' = Blk(s) /\ (Once(s)' <=> Once(s))
      BY SameChain
    <2>5. Blk(Cur(i, f))' = Blk(s)' /\ (Once(Cur(i, f))' <=> Once(s)')
      BY <2>1 DEF Blk, Once, ChainBlocks, RangeOf
    <2> QED
      BY <2>1, <2>2, <2>3, <2>4, <2>5
  <1>2. \A i \in Members(M)', f \in Stream :
           \/ Blk(Cur(i, f))' = {}
           \/ i \in Members(L) /\ Blk(Cur(i, f))' \subseteq Blk(Cur(i, f))
    BY <1>1
  <1>3. At' = "prep" \/ (At' = "link" /\ c'.ext # None) => c'.data # c'.ext
    BY DEF BlockInv
  <1> HIDE DEF Aux
  <1>4. \A i \in Members(M)', f \in Stream :
           Once(Cur(i, f))' /\ Blk(Cur(i, f))' \subseteq bmap' /\ Blk(Cur(i, f))' \cap (Held \cup Doomed \cup Left)' = {}
    BY <1>1 DEF Aux
  <1>5. Held' \subseteq bmap'
    OBVIOUS
  <1> QED
    BY <1>2, <1>3, <1>4, <1>5, StreamsStay

\* Sizes stay covered when inodes and chains stay.
LEMMA SizesStay ==
    ASSUME NEW L \in SUBSET Ino, SizeInv(L), SameInodes(L), chain' = chain
    PROVE  SizeInv(L)'
  <1> SUFFICES ASSUME NEW i \in L PROVE itab'[i].size <= Total(itab[i].data)' * BlockUnits
    BY DEF SizeInv
  <1>1. PICK r : r = itab[i].data /\ itab'[i].data = r /\ itab'[i].size = itab[i].size
    BY DEF SameInodes
  <1>2. Total(r)' = Total(r)
    BY SameChain
  <1>3. itab[i].size <= Total(r) * BlockUnits
    BY <1>1 DEF SizeInv
  <1>4. Total(itab[i].data)' = Total(r)'
    BY <1>1 DEF Total
  <1> QED
    BY <1>1, <1>2, <1>3, <1>4

\* The stream of an inode of L is the one its inode on the disk gives, but for
\* a file that has no block yet.
LEMMA DiskStream ==
    ASSUME NEW L \in SUBSET Ino, NEW i \in L, NEW f \in Stream, WriteOk(L), NewOk(L)
    PROVE  itab[i][f] \in {None, Cur(i, f)}
  BY DEF Cur, WriteOk, NewOk, Stream

\* No call is in any phase.
LEMMA NoCallFacts ==
    ASSUME c' = NoCall
    PROVE  /\ c'.pc = "idle" /\ c'.op = "none" /\ At' = "idle" /\ c'.root = None
           /\ ~InGrow' /\ ~Building' /\ ~Inserting' /\ ~Recorded' /\ ~Creating' /\ ~Unplaced'
  <1>1. c'.pc = "idle" /\ c'.op = "none" /\ c'.root = None
    BY DEF NoCall
  <1>2. At' = "idle"
    BY <1>1 DEF At
  <1> QED
    BY <1>1, <1>2 DEF InGrow, Building, Inserting, Recorded, Creating, Unplaced, GrowPc

\* What the invariant says of a call holds when there is none.
LEMMA NoCallInv ==
    ASSUME NEW L \in SUBSET Ino, c' = NoCall
    PROVE  /\ FrameInv' /\ PhaseInv' /\ CallInv(L)'
           /\ Members(L)' = L /\ (\A i, f : Cur(i, f)' = itab'[i][f])
           /\ (Held \cup Doomed \cup Left)' = {} /\ Held' = {}
  <1>1. FrameInv'
    <2>1. NoInode \in InodeT
      BY DEF NoInode, InodeT, Ptr, None
    <2>2. NoCall \in Frame
      BY <2>1 DEF NoCall, Frame, Pc, Op, Ptr, None
    <2>3. /\ \A i \in Ino : NoCall.copy[i].data = None /\ NoCall.copy[i].dir = None
          /\ NoCall.root = None /\ NoCall.node.data = None /\ NoCall.node.dir = None
      BY DEF NoCall, NoInode
    <2> QED
      BY <2>2, <2>3 DEF FrameInv, Grounded
  <1>2. PhaseInv'
    <2>1. (c = NoCall)'
      BY DEF NoCall
    <2>2. c'.op \in OpsAt(At')
      <3>1. OpsAt("idle") = Op
        BY DEF OpsAt, GrowPc
      <3> QED
        BY <3>1, NoCallFacts DEF Op
    <2> QED
      BY NoCallFacts, <2>1, <2>2 DEF PhaseInv
  <1>3. CallInv(L)'
    <2>1. WriteOk(L)' /\ GoneOk(L)' /\ NewOk(L)'
      BY NoCallFacts DEF WriteOk, GoneOk, NewOk
    <2>2. DirsOk(L)' /\ PlaceOk(L)'
      BY NoCallFacts DEF DirsOk, PlaceOk, Naming
    <2> QED
      BY <2>1, <2>2 DEF CallInv
  <1>4. Members(L)' = L /\ \A i, f : Cur(i, f)' = itab'[i][f]
    BY NoCallFacts DEF Members, Cur
  <1>5. (Held \cup Doomed \cup Left)' = {} /\ Held' = {}
    BY NoCallFacts DEF Held, Doomed, Left
  <1> QED
    BY <1>1, <1>2, <1>3, <1>4, <1>5

\* A call ends, whatever it has done so far.
LEMMA LastStep ==
    ASSUME NEW L \in SUBSET Ino, WholeInv(L), c' = NoCall, c.pc # "header",
           DiskInv', SameInodes(L), UNCHANGED <<bmap, chain, area>>, L \subseteq imap', OpenInodes' \subseteq L
    PROVE  WholeInv(L)'
  <1>1. TypeInv' /\ PhaseInv' /\ CallInv(L)'
    BY NoCallInv DEF WholeInv, TypeInv
  <1>2. AreaInv'
    BY NoCallFacts, AreasStay DEF WholeInv
  <1>3. SameKids(L)
    BY SameTable
  <1>4. NameInv(L)'
    BY <1>3, NamesStay DEF WholeInv
  <1>5. SizeInv(L)'
    BY <1>3, SizesStay DEF WholeInv
  <1>6. BlockInv(L)'
    <2>1. BlockInv(L) /\ chain' = chain /\ Members(L)' = L /\ L \subseteq Members(L)
      BY NoCallInv DEF WholeInv, Members
    <2>2. \A i \in L, f \in Stream : Cur(i, f)' \in {None, Cur(i, f)}
      <3> SUFFICES ASSUME NEW i \in L, NEW f \in Stream PROVE Cur(i, f)' \in {None, Cur(i, f)}
        OBVIOUS
      <3>1. itab[i][f] \in {None, Cur(i, f)}
        BY DiskStream DEF WholeInv, CallInv
      <3>2. Cur(i, f)' = itab'[i][f] /\ itab'[i][f] = itab[i][f]
        BY NoCallInv DEF SameInodes, Stream
      <3> QED
        BY <3>1, <3>2
    <2>3. \A i \in L, f \in Stream : Blk(Cur(i, f)) \subseteq bmap'
      BY <2>1 DEF BlockInv
    <2>4. Held \subseteq bmap'
      BY <2>1 DEF BlockInv
    <2>5. (Held \cup Doomed \cup Left)' = {} /\ Held' = {} /\ At' = "idle"
      BY NoCallInv, NoCallFacts
    <2> QED
      BY <2>1, <2>2, <2>3, <2>4, <2>5, BlocksStay
  <1> QED
    BY <1>1, <1>2, <1>4, <1>5, <1>6 DEF WholeInv

\* A call ends without another write but to the inode bitmap.
LEMMA EndCall ==
    ASSUME NEW L \in SUBSET Ino, WholeInv(L), c' = NoCall, c.pc # "header",
           bmap' = bmap, imap' \in SUBSET Ino, L \subseteq imap', UNCHANGED <<itab, chain, area>>,
           OpenInodes' \subseteq L
    PROVE  WholeInv(L)'
  <1>1. DiskInv'
    BY DiskStays DEF WholeInv, TypeInv, DiskInv
  <1> QED
    BY <1>1, LastStep, SameTable

\* c.root is the root of a stream that no inode has yet.
Growing == Building /\ (c.op = "write" \/ (Creating /\ c.ret \in {"areahead", "buckets"}))

\* The operations that can be at a step.
LEMMA PhaseTable ==
    /\ OpsAt("data") = {"write"} /\ OpsAt("inode") = {"write"}
    /\ OpsAt("mkarea") = {"mkdir"} /\ OpsAt("areahead") = {"mkdir"} /\ OpsAt("buckets") = {"mkdir"}
    /\ OpsAt("ialloc") = {"create", "mkdir"} /\ OpsAt("child") = {"create", "mkdir"}
    /\ OpsAt("insert") = Naming /\ OpsAt("dirent") = Naming /\ OpsAt("name") = Naming
    /\ OpsAt("slot") = Naming /\ OpsAt("header") = Naming
    /\ OpsAt("unslot") = {"unlink", "rename"} /\ OpsAt("unheader") = {"unlink", "rename"}
    /\ OpsAt("dinode") = Naming \cup {"unlink"} /\ OpsAt("dinode2") = {"rename"}
    /\ OpsAt("free") = {"unlink"} /\ OpsAt("free2") = {"unlink"}
    /\ OpsAt("ifree") = {"create", "mkdir", "unlink"} /\ OpsAt("undo") = Naming \cup {"write"}
    /\ \A p \in GrowPc : OpsAt(p) = Naming \cup {"write"}
    /\ RetsOf("write") = {"data"} /\ RetsOf("mkdir") = {"areahead", "buckets", "dirent", "name"}
    /\ \A o \in {"create", "rename", "restore"} : RetsOf(o) = {"dirent", "name"}
  BY DEF OpsAt, RetsOf, GrowPc

\* Streams stay when the call goes on with the same file.
LEMMA CurStays ==
    ASSUME NEW L \in SUBSET Ino, WriteOk(L), NewOk(L), SameCall, itab' = itab,
           Creating' => Creating /\ (Growing => Growing'),
           Growing' => c'.root = None \/ (Growing /\ c'.root = c.root)
    PROVE  /\ Members(L)' \subseteq Members(L)
           /\ \A i \in Members(L)', f \in Stream : Cur(i, f)' \in {None, Cur(i, f)}
  <1>1. Members(L)' \subseteq Members(L)
    BY DEF Members, SameCall
  <1>2. ASSUME NEW i \in Members(L)', NEW f \in Stream PROVE Cur(i, f)' \in {None, Cur(i, f)}
    <2>1. CASE Creating' /\ i = c.ino
      <3>1. Creating /\ c'.ino = c.ino /\ c'.node = c.node
        BY <2>1 DEF SameCall
      <3>2. Cur(i, f) = IF f = "dir" /\ Growing /\ c.ret \in {"areahead", "buckets"} THEN c.root ELSE c.node[f]
        BY <2>1, <3>1 DEF Cur, Growing, Creating
      <3>3. Cur(i, f)' = IF f = "dir" /\ Growing' /\ c'.ret \in {"areahead", "buckets"} THEN c'.root ELSE c'.node[f]
        BY <2>1, <3>1 DEF Cur, Growing, Creating
      <3>4. (Growing => c.ret \in {"areahead", "buckets"}) /\ (Growing' => c'.ret \in {"areahead", "buckets"})
        BY <2>1, <3>1 DEF Growing, Creating
      <3> QED
        BY <2>1, <3>1, <3>2, <3>3, <3>4
    <2>2. CASE ~(Creating' /\ i = c.ino)
      <3>1. i \in L
        BY <1>2, <2>2 DEF Members, SameCall
      <3>2. itab[i][f] \in {None, Cur(i, f)}
        BY <3>1, DiskStream
      <3>3. Cur(i, f)' \in {itab[i][f], c'.root}
        BY <2>2 DEF Cur, SameCall
      <3>4. CASE Cur(i, f)' # itab[i][f]
        <4>1. c.op = "write" /\ i = c.ino /\ f = "data" /\ Building' /\ Cur(i, f)' = c'.root
          BY <2>2, <3>4 DEF Cur, SameCall
        <4>2. Growing' /\ ~Creating
          BY <4>1 DEF Growing, SameCall, Creating
        <4>3. Growing => Cur(i, f) = c.root
          BY <4>1, <4>2 DEF Cur, Growing
        <4> QED
          BY <4>1, <4>2, <4>3
      <3> QED
        BY <3>2, <3>4
    <2> QED
      BY <2>1, <2>2
  <1> QED
    BY <1>1, <1>2

\* A step of a call that changes no inode, no directory and no chain.
LEMMA QuietCall ==
    ASSUME NEW L \in SUBSET Ino, WholeInv(L), SameCall, c.pc # "header", At' # "header",
           bmap' \in SUBSET Block, UNCHANGED <<imap, itab, chain, area>>, OpenInodes' \subseteq L,
           FrameInv', PhaseInv', WriteOk(L)',
           Inserting' => Inserting /\ c'.root = c.root /\ c'.idx = c.idx,
           Recorded' => Recorded /\ (At' = "slot" => At = "slot"),
           Creating' => Creating, ChildWritten' => ChildWritten,
           At' = "child" => At = "child" \/ c.op # "mkdir",
           At' = "buckets" \/ (InGrow' /\ c'.ret = "buckets") =>
              (At = "buckets" \/ (InGrow /\ c.ret = "buckets")) /\ c'.root = c.root,
           At' = "ialloc" => At = "ialloc", Unplaced' => Unplaced, At' # "unslot",
           At' = "ifree" \/ (At' = "undo" /\ c.op \in {"create", "mkdir"}) =>
              Creating \/ At = "ifree" \/ (At = "undo" /\ c.op \in {"create", "mkdir"})
                \/ (c.op = "unlink" /\ At # "unslot"),
           c.op = "unlink" => At # "unslot"
    PROVE  /\ TypeInv' /\ AreaInv' /\ NameInv(L)' /\ CallInv(L)' /\ SizeInv(L)'
  <1>1. TypeInv'
    BY DiskStays DEF WholeInv, TypeInv, DiskInv
  <1>2. SameInodes(L) /\ SameKids(L)
    BY SameTable
  <1>3. NameInv(L)'
    BY <1>2, NamesStay DEF WholeInv, NameInv
  <1>4. SizeInv(L)'
    BY <1>2, SizesStay DEF WholeInv
  <1>5. AreaInv'
    <2>1. c'.pc # "header"
      BY DEF At
    <2> QED
      BY <2>1, AreasStay DEF WholeInv
  <1>6. DirsOk(L)'
    BY <1>2, DirsStay DEF WholeInv, CallInv, SameCall, SameArgs
  <1>7. PlaceOk(L)'
    BY <1>2, PlaceStays DEF WholeInv, CallInv, SameCall, SameArgs
  <1>8. NewOk(L)'
    BY NewStays DEF WholeInv, CallInv
  <1>9. GoneOk(L)'
    BY GoneStays DEF WholeInv, CallInv, TypeInv, DiskInv
  <1> QED
    BY <1>1, <1>3, <1>4, <1>5, <1>6, <1>7, <1>8, <1>9 DEF CallInv

-----------------------------------------------------------------------------
(***************************************************************************)
(* Steps that only move the call on                                        *)
(***************************************************************************)
\* The frame keeps its streams.
LEMMA FrameStays ==
    ASSUME FrameInv, chain' = chain, c' \in Frame, c'.copy = c.copy, c'.node = c.node, c'.root \in {None, c.root}
    PROVE  FrameInv'
  BY DEF FrameInv, Grounded

\* The step stays within the phases.
SamePhases ==
    /\ InGrow' = InGrow
    /\ Building' = Building
    /\ Inserting' = Inserting
    /\ Recorded' = Recorded
    /\ Creating' = Creating
    /\ ChildWritten' = ChildWritten
    /\ Unplaced' = Unplaced
    /\ Growing' = Growing

\* What the invariant says of phases then stays.
LEMMA SamePhase ==
    ASSUME At' = At, c'.op = c.op, c'.ret = c.ret
    PROVE  SamePhases
  BY DEF SamePhases, InGrow, Building, Inserting, Recorded, Creating, ChildWritten, Unplaced, Growing

\* A step of a call that allocates no block and touches no chain.
LEMMA QuietStep ==
    ASSUME NEW L \in SUBSET Ino, WholeInv(L), SameCall, c.pc # "header", At' # "header",
           bmap' \in SUBSET Block, UNCHANGED <<imap, itab, chain, area>>, OpenInodes' \subseteq L,
           FrameInv', PhaseInv', WriteOk(L)',
           Inserting' => Inserting /\ c'.root = c.root /\ c'.idx = c.idx,
           Recorded' => Recorded /\ (At' = "slot" => At = "slot"),
           Creating' => Creating, ChildWritten' => ChildWritten,
           At' = "child" => At = "child" \/ c.op # "mkdir",
           At' = "buckets" \/ (InGrow' /\ c'.ret = "buckets") =>
              (At = "buckets" \/ (InGrow /\ c.ret = "buckets")) /\ c'.root = c.root,
           At' = "ialloc" => At = "ialloc", Unplaced' => Unplaced, At' # "unslot",
           At' = "ifree" \/ (At' = "undo" /\ c.op \in {"create", "mkdir"}) =>
              Creating \/ At = "ifree" \/ (At = "undo" /\ c.op \in {"create", "mkdir"})
                \/ (c.op = "unlink" /\ At # "unslot"),
           c.op = "unlink" => At # "unslot",
           Creating' => (Growing => Growing'),
           Growing' => c'.root = None \/ (Growing /\ c'.root = c.root),
           (Held \cup Doomed)' \subseteq Held \cup Doomed \cup Left,
           Held' \subseteq Held,
           bmap \ Doomed \subseteq bmap',
           At' = "prep" \/ (At' = "link" /\ c'.ext # None) =>
              (At = "prep" \/ (At = "link" /\ c.ext # None)) /\ c'.data = c.data /\ c'.ext = c.ext
    PROVE  WholeInv(L)'
  <1>1. TypeInv' /\ AreaInv' /\ NameInv(L)' /\ CallInv(L)' /\ SizeInv(L)'
    BY QuietCall
  <1>2. BlockInv(L)'
    <2>1. /\ Members(L)' \subseteq Members(L)
          /\ \A i \in Members(L)', f \in Stream : Cur(i, f)' \in {None, Cur(i, f)}
      BY CurStays DEF WholeInv, CallInv
    <2>2. \A i \in Members(L)', f \in Stream : Blk(Cur(i, f)) \subseteq bmap'
      BY <2>1 DEF WholeInv, BlockInv
    <2>3. Held \subseteq bmap'
      <3>1. Held = {} \/ Doomed = {}
        BY DEF Held, Doomed
      <3> QED
        BY <3>1 DEF WholeInv, BlockInv
    <2>4. Left' \subseteq Left
      <3>1. c'.op = c.op /\ c'.node = c.node /\ (c.op = "unlink" => At # "unslot")
        BY DEF SameCall
      <3>2. Blk(c.node.data)' = Blk(c'.node.data) /\ Blk(c.node.dir)' = Blk(c'.node.dir)
        BY DEF Blk, ChainBlocks, RangeOf
      <3> QED
        BY <3>1, <3>2 DEF Left
    <2>5. (Held \cup Doomed \cup Left)' \subseteq Held \cup Doomed \cup Left
      BY <2>4
    <2>6. BlockInv(L) /\ chain' = chain
      BY DEF WholeInv
    <2> QED
      BY <2>1, <2>2, <2>3, <2>5, <2>6, BlocksStay
  <1> QED
    BY <1>1, <1>2 DEF WholeInv

\* FlushSuperblock keeps the invariant.
LEMMA FlushStep ==
    ASSUME NEW L \in SUBSET Ino, WholeInv(L), FlushSuperblock
    PROVE  WholeInv(L)'
  <1>1. /\ c.pc = "flush" /\ UNCHANGED <<bmap, imap, itab, chain, area, open>> /\ c \in Frame /\ c.cont \in Pc
        /\ OpenInodes' \subseteq L /\ L \subseteq imap /\ imap \in SUBSET Ino /\ bmap \in SUBSET Block
    BY FrameFields DEF FlushSuperblock, WholeInv, TypeInv, FrameInv, env, OpenInodes, NameInv, DiskInv
  <1>2. CASE c.cont = "idle"
    <2>1. c' = NoCall
      BY <1>2 DEF FlushSuperblock, Goto
    <2> QED
      BY <1>1, <2>1, EndCall
  <1>3. CASE c.cont # "idle"
    <2>1. c' = [c EXCEPT !.pc = c.cont]
      BY <1>3 DEF FlushSuperblock, Goto
    <2>2. c' \in Frame
      BY <1>1, <2>1, FrameAt
    <2>3. /\ c'.pc = c.cont /\ SameCall /\ c'.root = c.root /\ c'.need = c.need /\ c'.ret = c.ret
          /\ c'.data = c.data /\ c'.ext = c.ext /\ c'.idx = c.idx /\ c'.todo = c.todo
      BY <1>1, <2>1 DEF SameCall, Frame
    <2>4. At = c.cont /\ At' = At /\ At \in {"ext", "prep", "entry", "link", "undo", "free", "free2", "mkarea", "child"}
      BY <1>1, <1>3, <2>3 DEF At, WholeInv, PhaseInv
    <2>5. FrameInv'
      BY <1>1, <2>2, <2>3, FrameStays DEF WholeInv, TypeInv, SameCall
    <2>6. PhaseInv'
      BY <1>1, <2>3, <2>4, SamePhase DEF WholeInv, PhaseInv, SameCall, SamePhases
    <2>7. WriteOk(L)'
      <3>1. WriteOk(L)
        BY DEF WholeInv, CallInv
      <3>2. Total(c.root)' = Total(c.root)
        BY <1>1, <2>3 DEF Total
      <3> QED
        BY <1>1, <2>3, <2>4, <3>1, <3>2, SamePhase DEF WriteOk, SameCall, SamePhases
    <2>8. Held' = Held /\ Doomed' = Doomed
      BY <2>3, <2>4 DEF Held, Doomed, RangeOf
    <2>9. SamePhases
      BY <2>3, <2>4, SamePhase DEF SameCall
    <2> QED
      BY <1>1, <2>3, <2>4, <2>5, <2>6, <2>7, <2>8, <2>9, QuietStep DEF SamePhases
  <1> QED
    BY <1>2, <1>3

\* What changes when the frame goes on to step p.
LEMMA GotoFacts ==
    ASSUME c \in Frame, NEW p \in Pc, c' = [c EXCEPT !.pc = p]
    PROVE  /\ c' \in Frame /\ c'.pc = p /\ SameCall /\ c'.root = c.root /\ c'.need = c.need /\ c'.ret = c.ret
           /\ c'.data = c.data /\ c'.ext = c.ext /\ c'.idx = c.idx /\ c'.todo = c.todo
  BY FrameAt DEF SameCall, Frame

\* Phases of the steps that grow a stream.
LEMMA GrowPhase ==
    ASSUME At \in GrowPc, At' \in GrowPc, c'.op = c.op, c'.ret = c.ret
    PROVE  SamePhases
  BY DEF SamePhases, InGrow, Building, Inserting, Recorded, Creating, ChildWritten, Unplaced, Growing, GrowPc

\* Facts about every state in which the invariant holds.
LEMMA Given ==
    ASSUME NEW L \in SUBSET Ino, WholeInv(L)
    PROVE  /\ c \in Frame /\ FrameInv /\ DiskInv /\ OpenInodes \subseteq L /\ L \subseteq imap
           /\ imap \in SUBSET Ino /\ bmap \in SUBSET Block
  BY DEF WholeInv, TypeInv, FrameInv, DiskInv, NameInv

\* WriteEntry keeps the invariant.
LEMMA EntryStep ==
    ASSUME NEW L \in SUBSET Ino, WholeInv(L), WriteEntry
    PROVE  WholeInv(L)'
  <1>1. /\ c.pc = "entry" /\ UNCHANGED <<bmap, imap, itab, chain, area, open>>
        /\ c' = [c EXCEPT !.pc = "link"] /\ OpenInodes' = OpenInodes
    BY DEF WriteEntry, Goto, env, disk, OpenInodes
  <1>2. /\ c' \in Frame /\ c'.pc = "link" /\ SameCall /\ c'.root = c.root /\ c'.need = c.need /\ c'.ret = c.ret
        /\ c'.data = c.data /\ c'.ext = c.ext /\ c'.idx = c.idx /\ c'.todo = c.todo
    <2>1. "link" \in Pc
      BY DEF Pc, GrowPc
    <2> QED
      BY <1>1, <2>1, Given, GotoFacts
  <1>3. At = "entry" /\ At' = "link" /\ At \in GrowPc /\ At' \in GrowPc
    BY <1>1, <1>2 DEF At, GrowPc
  <1>4. SamePhases
    BY <1>2, <1>3, GrowPhase DEF SameCall
  <1>5. c.ext = None /\ c.root # None /\ c.data \in Block
    BY <1>3 DEF WholeInv, PhaseInv
  <1>6. FrameInv'
    BY <1>1, <1>2, Given, FrameStays DEF SameCall
  <1>7. PhaseInv'
    BY <1>2, <1>3, <1>4, <1>5, PhaseTable DEF WholeInv, PhaseInv, SameCall, SamePhases
  <1>8. WriteOk(L)'
    <2>1. WriteOk(L)
      BY DEF WholeInv, CallInv
    <2> QED
      BY <1>1, <1>2, <1>3, <1>4, <2>1 DEF WriteOk, SameCall, SamePhases
  <1>9. Held' \subseteq Held /\ Doomed' = {}
    BY <1>2, <1>3, <1>5 DEF Held, Doomed
  <1> QED
    BY <1>1, <1>2, <1>3, <1>4, <1>5, <1>6, <1>7, <1>8, <1>9, Given, QuietStep DEF SamePhases

\* Grown keeps the invariant.
LEMMA GrownStep ==
    ASSUME NEW L \in SUBSET Ino, WholeInv(L), Grown
    PROVE  WholeInv(L)'
  <1>1. /\ c.pc = "grow" /\ UNCHANGED <<bmap, imap, itab, chain, area, open>> /\ OpenInodes' = OpenInodes
        /\ Total(c.root) >= c.need
    BY DEF Grown, env, disk, OpenInodes
  <1>2. At = "grow" /\ InGrow /\ c.ret \in RetsOf(c.op) /\ c.op \in Naming \cup {"write"}
    BY <1>1, PhaseTable DEF At, InGrow, GrowPc, WholeInv, PhaseInv
  <1>3. c.ret \in {"data", "areahead", "buckets", "dirent", "name"} /\ c.ret \in Pc
    BY <1>2, PhaseTable DEF Naming, Pc
  <1>4. c' = [c EXCEPT !.pc = c.ret]
    BY <1>3 DEF Grown, Goto
  <1>5. /\ c' \in Frame /\ c'.pc = c.ret /\ SameCall /\ c'.root = c.root /\ c'.need = c.need /\ c'.ret = c.ret
        /\ c'.data = c.data /\ c'.ext = c.ext /\ c'.idx = c.idx /\ c'.todo = c.todo
    BY <1>3, <1>4, Given, GotoFacts
  <1>6. At' = c.ret /\ ~InGrow' /\ c'.op = c.op
    BY <1>3, <1>5 DEF At, InGrow, GrowPc, SameCall
  <1>7. /\ Building' => Building
        /\ Inserting' => Inserting
        /\ Recorded' => Recorded
        /\ Creating' => Creating
        /\ ChildWritten' => ChildWritten
        /\ Unplaced' => Unplaced
        /\ Growing' => Growing
        /\ Creating' /\ Growing => Growing'
    BY <1>2, <1>3, <1>5, <1>6 DEF Building, Inserting, Recorded, Creating, ChildWritten, Unplaced, Growing
  <1>8. c.ret \in {"areahead", "buckets"} => c.root # None
    <2>1. c.ret = "areahead" => c.need # 0 /\ c.need \in Nat
      BY <1>2, Given, FrameFields DEF WholeInv, PhaseInv
    <2>2. c.ret = "buckets" => c.root # None
      BY <1>2 DEF WholeInv, PhaseInv
    <2> QED
      BY <1>1, <2>1, <2>2, NoBlocks
  <1>9. FrameInv'
    BY <1>1, <1>5, Given, FrameStays DEF SameCall
  <1>10. PhaseInv'
    <2>1. c'.op \in OpsAt(At')
      BY <1>2, <1>3, <1>6, PhaseTable DEF Naming
    <2> QED
      BY <1>3, <1>5, <1>6, <1>8, <2>1 DEF PhaseInv
  <1>11. WriteOk(L)'
    <2>1. WriteOk(L) /\ Total(c.root)' = Total(c.root)
      BY <1>1, <1>5 DEF WholeInv, CallInv, Total
    <2> QED
      BY <1>1, <1>2, <1>5, <1>6, <1>7, <2>1 DEF WriteOk, SameCall
  <1>12. Held' = {} /\ Doomed' = {}
    BY <1>3, <1>6 DEF Held, Doomed
  <1> QED
    BY <1>1, <1>2, <1>3, <1>5, <1>6, <1>7, <1>9, <1>10, <1>11, <1>12, Given, QuietStep

\* The blocks for u units have room for them.
LEMMA BlocksForFacts ==
    ASSUME NEW u \in Nat
    PROVE  BlocksFor(u) \in Nat /\ u <= BlocksFor(u) * BlockUnits /\ (u # 0 => BlocksFor(u) # 0)
  <1>1. PICK B \in Nat \ {0} : B = BlockUnits
    BY SizeAssumption
  <1>2. PICK a \in Nat : a = u + B - 1
    BY <1>1
  <1>3. a \div B \in Nat /\ a % B \in 0 .. B - 1 /\ a = B * (a \div B) + (a % B)
    BY DivFacts
  <1>4. PICK q, r : q = a \div B /\ r = a % B
    OBVIOUS
  <1>5. q \in Nat /\ r \in 0 .. B - 1 /\ a = B * q + r /\ B * q \in Nat
    BY <1>3, <1>4
  <1>6. u <= B * q /\ B * q = q * B
    BY <1>2, <1>5
  <1>7. BlocksFor(u) = q
    BY <1>1, <1>2, <1>4 DEF BlocksFor
  <1>8. u # 0 => q # 0
    BY <1>5, <1>6
  <1> QED
    BY <1>1, <1>5, <1>6, <1>7, <1>8

\* The number of blocks of a stream, and the blocks, have their types.
LEMMA BlocksType ==
    ASSUME DiskInv, NEW r \in Ptr
    PROVE  ChainBlocks(r) \in Seq(Block) /\ Blk(r) \in SUBSET Block /\ Total(r) \in Nat
  <1>1. CASE r = None
    BY <1>1, NoBlocks DEF ChainBlocks
  <1>2. CASE r \in Block
    <2>1. chain[r] \in Seq(Ext) /\ r # None
      BY <1>2 DEF DiskInv, None, Block
    <2> QED
      BY <2>1, FlatType DEF ChainBlocks, Blk, Total
  <1> QED
    BY <1>1, <1>2 DEF Ptr

\* FreeBlock keeps the invariant: what it frees belongs to no stream of a member.
LEMMA FreeBlockStep ==
    ASSUME NEW L \in SUBSET Ino, WholeInv(L), FreeBlock
    PROVE  WholeInv(L)'
  <1>1. /\ c.pc \in {"undo", "free", "free2"} /\ UNCHANGED <<imap, itab, chain, area, open>> /\ OpenInodes' = OpenInodes
        /\ c.todo # <<>> /\ c.todo \in Seq(Block) /\ bmap' = bmap \ {Head(c.todo)}
        /\ c' = [c EXCEPT !.todo = Tail(@), !.pc = "flush", !.cont = c.pc]
    BY Given, FrameFields DEF FreeBlock, env, OpenInodes
  <1>2. Tail(c.todo) \in Seq(Block) /\ "flush" \in Pc /\ c.pc \in Pc
    BY <1>1 DEF Pc
  <1>3. /\ c' \in Frame /\ c'.pc = "flush" /\ c'.cont = c.pc /\ SameCall /\ c'.root = c.root
        /\ c'.need = c.need /\ c'.ret = c.ret /\ c'.todo = Tail(c.todo)
    BY <1>1, <1>2, Given DEF SameCall, Frame
  <1>4. At = c.pc /\ At' = At /\ At \in {"undo", "free", "free2"}
    BY <1>1, <1>3 DEF At
  <1>5. SamePhases
    BY <1>3, <1>4, SamePhase DEF SameCall
  <1>6. FrameInv'
    BY <1>1, <1>3, Given, FrameStays DEF SameCall
  <1>7. PhaseInv'
    BY <1>3, <1>4, <1>5 DEF WholeInv, PhaseInv, SameCall, SamePhases, GrowPc, InGrow
  <1>8. WriteOk(L)'
    <2>1. WriteOk(L)
      BY DEF WholeInv, CallInv
    <2> QED
      BY <1>1, <1>3, <1>4, <1>5, <2>1 DEF WriteOk, SameCall, SamePhases
  <1>9. Held' = {} /\ Doomed' \subseteq Doomed /\ Head(c.todo) \in Doomed
    <2>1. RangeOf(Tail(c.todo)) \subseteq RangeOf(c.todo) /\ Head(c.todo) \in RangeOf(c.todo)
      BY <1>1 DEF RangeOf
    <2>2. Doomed = RangeOf(c.todo) /\ Doomed' = RangeOf(c'.todo)
      BY <1>4 DEF Doomed, RangeOf
    <2> QED
      BY <1>3, <1>4, <2>1, <2>2 DEF Held
  <1>10. bmap' \in SUBSET Block /\ bmap \ Doomed \subseteq bmap'
    BY <1>1, <1>9, Given
  <1> QED
    BY <1>1, <1>3, <1>4, <1>5, <1>6, <1>7, <1>8, <1>9, <1>10, Given, QuietStep DEF SamePhases

\* FreeNext keeps the invariant.
LEMMA FreeNextStep ==
    ASSUME NEW L \in SUBSET Ino, WholeInv(L), FreeNext
    PROVE  WholeInv(L)'
  <1>1. /\ c.pc \in {"free", "free2"} /\ UNCHANGED <<bmap, imap, itab, chain, area, open>> /\ OpenInodes' = OpenInodes
        /\ \/ c.pc = "free" /\ c' = [c EXCEPT !.pc = "free2", !.todo = ChainBlocks(c.node.data)]
           \/ c.pc = "free2" /\ c' = [c EXCEPT !.pc = "ifree"]
    BY DEF FreeNext, env, disk, OpenInodes, Goto
  <1>2. c.node \in InodeT /\ ChainBlocks(c.node.data) \in Seq(Block) /\ {"free2", "ifree"} \subseteq Pc
    <2>1. c.node \in InodeT
      BY Given, FrameFields
    <2>2. c.node.data \in Ptr
      BY <2>1 DEF InodeT
    <2> QED
      BY <2>1, <2>2, Given, BlocksType DEF Pc
  <1>3. /\ c' \in Frame /\ c'.pc \in {"free2", "ifree"} /\ SameCall /\ c'.root = c.root /\ c'.need = c.need
        /\ c'.ret = c.ret /\ (c'.pc = "free2" => c'.todo = ChainBlocks(c.node.data))
    <2>1. CASE c' = [c EXCEPT !.pc = "free2", !.todo = ChainBlocks(c.node.data)]
      BY <1>2, <2>1, Given DEF SameCall, Frame
    <2>2. CASE c' = [c EXCEPT !.pc = "ifree"]
      BY <1>2, <2>2, Given, GotoFacts
    <2> QED
      BY <1>1, <2>1, <2>2
  <1>4. At = c.pc /\ At' = c'.pc /\ c.op = "unlink" /\ c'.op = c.op
    <2>1. At = c.pc /\ At' = c'.pc
      BY <1>1, <1>3 DEF At
    <2> QED
      BY <1>1, <1>3, <2>1, PhaseTable DEF WholeInv, PhaseInv, SameCall
  <1>5. /\ ~InGrow' /\ ~Building' /\ ~Inserting' /\ ~Recorded' /\ ~Creating' /\ ~ChildWritten' /\ ~Unplaced'
        /\ ~Growing'
    BY <1>3, <1>4 DEF InGrow, Building, Inserting, Recorded, Creating, ChildWritten, Unplaced, Growing, GrowPc
  <1>6. FrameInv'
    BY <1>1, <1>3, Given, FrameStays DEF SameCall
  <1>7. PhaseInv'
    <2>1. c'.op \in OpsAt(At')
      BY <1>3, <1>4, PhaseTable
    <2> QED
      BY <1>3, <1>4, <1>5, <2>1 DEF PhaseInv
  <1>8. WriteOk(L)'
    BY <1>4 DEF WriteOk
  <1>9. Held' = {} /\ Doomed' \subseteq Left
    <2>1. Left = Blk(c.node.data) \cup Blk(c.node.dir)
      BY <1>1, <1>4 DEF Left
    <2>2. Doomed' = IF At' = "free2" THEN RangeOf(c'.todo) ELSE {}
      BY <1>3, <1>4 DEF Doomed, RangeOf
    <2> QED
      BY <1>3, <1>4, <2>1, <2>2 DEF Held, Blk
  <1> QED
    BY <1>1, <1>3, <1>4, <1>5, <1>6, <1>7, <1>8, <1>9, Given, QuietStep

\* WriteData keeps the invariant.
LEMMA DataStep ==
    ASSUME NEW L \in SUBSET Ino, WholeInv(L), WriteData
    PROVE  WholeInv(L)'
  <1>1. /\ c.pc = "data" /\ UNCHANGED <<bmap, imap, itab, chain, area, open>> /\ OpenInodes' = OpenInodes
        /\ c' = [c EXCEPT !.pc = "inode"]
    BY DEF WriteData, env, disk, OpenInodes, Goto
  <1>2. /\ c' \in Frame /\ c'.pc = "inode" /\ SameCall /\ c'.root = c.root /\ c'.need = c.need /\ c'.ret = c.ret
    <2>1. "inode" \in Pc
      BY DEF Pc
    <2> QED
      BY <1>1, <2>1, Given, GotoFacts
  <1>3. At = "data" /\ At' = "inode" /\ c.op = "write" /\ c'.op = c.op
    <2>1. At = "data" /\ At' = "inode"
      BY <1>1, <1>2 DEF At
    <2> QED
      BY <1>1, <1>2, <2>1, PhaseTable DEF WholeInv, PhaseInv, SameCall
  <1>4. /\ ~InGrow' /\ Building' /\ Building /\ ~Inserting' /\ ~Recorded' /\ ~Creating' /\ ~ChildWritten' /\ ~Unplaced'
        /\ Growing' /\ Growing
    BY <1>3 DEF InGrow, Building, Inserting, Recorded, Creating, ChildWritten, Unplaced, Growing, GrowPc
  <1>5. FrameInv'
    BY <1>1, <1>2, Given, FrameStays DEF SameCall
  <1>6. PhaseInv'
    <2>1. c'.op \in OpsAt(At')
      BY <1>3, PhaseTable
    <2> QED
      BY <1>2, <1>3, <1>4, <2>1 DEF PhaseInv
  <1>7. WriteOk(L)'
    <2>1. WriteOk(L) /\ Total(c.root)' = Total(c.root)
      BY <1>1, <1>2 DEF WholeInv, CallInv, Total
    <2> QED
      BY <1>1, <1>2, <1>3, <1>4, <2>1 DEF WriteOk, SameCall
  <1>8. Held' = {} /\ Doomed' = {}
    BY <1>3 DEF Held, Doomed
  <1> QED
    BY <1>1, <1>2, <1>3, <1>4, <1>5, <1>6, <1>7, <1>8, Given, QuietStep

\* MakeArea keeps the invariant.
LEMMA MakeAreaStep ==
    ASSUME NEW L \in SUBSET Ino, WholeInv(L), MakeArea
    PROVE  WholeInv(L)'
  <1>1. /\ c.pc = "mkarea" /\ UNCHANGED <<bmap, imap, itab, chain, area, open>> /\ OpenInodes' = OpenInodes
        /\ c' = [c EXCEPT !.pc = "grow", !.root = None, !.need = BlocksFor(1), !.ret = "areahead"]
    BY DEF MakeArea, env, disk, OpenInodes, Grow
  <1>2. BlocksFor(1) \in Nat /\ BlocksFor(1) # 0
    BY BlocksForFacts
  <1>3. /\ c' \in Frame /\ c'.pc = "grow" /\ SameCall /\ c'.root = None /\ c'.need = BlocksFor(1) /\ c'.ret = "areahead"
    <2>1. "areahead" \in Pc /\ None \in Ptr
      BY DEF Pc, Ptr
    <2>2. c' \in Frame
      BY <1>1, <1>2, <2>1, Given, FrameGrow
    <2> QED
      BY <1>1, <2>2, Given DEF SameCall, Frame
  <1>4. At = "mkarea" /\ At' = "grow" /\ c.op = "mkdir" /\ c'.op = c.op
    <2>1. At = "mkarea" /\ At' = "grow"
      BY <1>1, <1>3 DEF At
    <2> QED
      BY <1>1, <1>3, <2>1, PhaseTable DEF WholeInv, PhaseInv, SameCall
  <1>5. /\ InGrow' /\ ~Inserting' /\ ~Recorded' /\ Creating /\ ~ChildWritten' /\ ~Unplaced' /\ ~Growing
    BY <1>3, <1>4 DEF InGrow, Building, Inserting, Recorded, Creating, ChildWritten, Unplaced, Growing, GrowPc
  <1>6. FrameInv'
    BY <1>1, <1>3, Given, FrameStays DEF SameCall
  <1>7. PhaseInv'
    <2>1. c'.op \in OpsAt(At')
      BY <1>4, PhaseTable DEF GrowPc, Naming
    <2> QED
      BY <1>2, <1>3, <1>4, <1>5, <2>1, PhaseTable DEF PhaseInv
  <1>8. WriteOk(L)'
    BY <1>4 DEF WriteOk
  <1>9. Held' = {} /\ Doomed' = {}
    BY <1>4 DEF Held, Doomed
  <1> QED
    BY <1>1, <1>3, <1>4, <1>5, <1>6, <1>7, <1>8, <1>9, Given, QuietStep

-----------------------------------------------------------------------------
(***************************************************************************)
(* Error paths                                                             *)
(***************************************************************************)
\* The blocks just allocated are given back.
LEMMA CleanupStep ==
    ASSUME NEW L \in SUBSET Ino, WholeInv(L), UNCHANGED <<bmap, imap, itab, chain, area, open>>,
           NEW bs \in Seq(Block), c' = [c EXCEPT !.pc = "undo", !.todo = bs],
           c.pc # "header", At \in GrowPc \cup {"undo"}, RangeOf(bs) \subseteq Held \cup Doomed
    PROVE  WholeInv(L)'
  <1>1. OpenInodes' = OpenInodes
    BY DEF OpenInodes
  <1>2. /\ c' \in Frame /\ c'.pc = "undo" /\ SameCall /\ c'.root = c.root /\ c'.todo = bs
    <2>1. "undo" \in Pc
      BY DEF Pc
    <2> QED
      BY <2>1, Given DEF SameCall, Frame
  <1>3. At' = "undo" /\ c.op \in Naming \cup {"write"} /\ c'.op = c.op
    <2>1. At' = "undo"
      BY <1>2 DEF At
    <2>2. c.op \in OpsAt(At)
      BY DEF WholeInv, PhaseInv
    <2> QED
      BY <1>2, <2>1, <2>2, PhaseTable DEF SameCall
  <1>4. /\ ~InGrow' /\ ~Building' /\ ~Inserting' /\ ~Recorded' /\ ~Creating' /\ ~ChildWritten' /\ ~Growing'
        /\ (Unplaced' => Unplaced)
        /\ (c.op \in {"create", "mkdir"} => Creating \/ At = "undo")
    BY <1>3 DEF InGrow, Building, Inserting, Recorded, Creating, ChildWritten, Unplaced, Growing, GrowPc
  <1>5. FrameInv'
    BY <1>2, Given, FrameStays DEF SameCall
  <1>6. PhaseInv'
    <2>1. c'.op \in OpsAt(At')
      BY <1>3, PhaseTable
    <2> QED
      BY <1>2, <1>3, <1>4, <2>1 DEF PhaseInv
  <1>7. WriteOk(L)'
    <2>1. WriteOk(L)
      BY DEF WholeInv, CallInv
    <2> QED
      BY <1>2, <1>3, <1>4, <2>1 DEF WriteOk, SameCall
  <1>8. Held' = {} /\ Doomed' \subseteq Held \cup Doomed
    <2>1. Doomed' = RangeOf(bs)
      BY <1>2, <1>3 DEF Doomed, RangeOf
    <2> QED
      BY <1>3, <2>1 DEF Held
  <1>9. c.op = "unlink" => At # "unslot"
    BY <1>3 DEF Naming
  <1> QED
    BY <1>1, <1>2, <1>3, <1>4, <1>5, <1>6, <1>7, <1>8, <1>9, Given, QuietStep

\* A rename that has taken the old name away goes back and puts it in again.
LEMMA RestoreStep ==
    ASSUME NEW L \in SUBSET Ino, WholeInv(L), UNCHANGED <<bmap, imap, itab, chain, area, open>>,
           c.op = "rename", Unplaced, c.pc # "header",
           c' = [c EXCEPT !.op = "restore", !.pc = "insert"]
    PROVE  WholeInv(L)'
  <1>1. OpenInodes' = OpenInodes
    BY DEF OpenInodes
  <1>2. /\ c' \in Frame /\ c'.pc = "insert" /\ c'.op = "restore" /\ c'.dir = c.dir /\ c'.name = c.name
        /\ c'.ino = c.ino /\ c'.copy = c.copy /\ c'.root = c.root /\ c'.node = c.node
    <2>1. "insert" \in Pc /\ "restore" \in Op
      BY DEF Pc, Op
    <2> QED
      BY <2>1, Given DEF Frame
  <1>3. At' = "insert"
    BY <1>2 DEF At
  <1>4. /\ ~InGrow' /\ ~Building' /\ ~Inserting' /\ ~Recorded' /\ ~Creating' /\ ~ChildWritten' /\ ~Growing'
        /\ ~Creating
    BY <1>2, <1>3 DEF InGrow, Building, Inserting, Recorded, Creating, ChildWritten, Growing, GrowPc
  <1>5. FrameInv' /\ DiskInv'
    BY <1>2, Given, FrameStays, DiskStays
  <1>6. PhaseInv'
    <2>1. c'.op \in OpsAt(At')
      BY <1>2, <1>3, PhaseTable DEF Naming
    <2> QED
      BY <1>2, <1>3, <1>4, <2>1 DEF PhaseInv
  <1>7. AreaInv'
    <2>1. c'.pc # "header" /\ At' # "header"
      BY <1>2, <1>3
    <2> QED
      BY <1>4, <2>1, AreasStay DEF WholeInv
  <1>8. SameInodes(L) /\ SameKids(L)
    BY SameTable
  <1>9. NameInv(L)' /\ SizeInv(L)'
    BY <1>1, <1>8, Given, NamesStay, SizesStay DEF WholeInv
  <1>10. CallInv(L)'
    <2>1. WriteOk(L)' /\ NewOk(L)' /\ GoneOk(L)'
      BY <1>2, <1>3, <1>4 DEF WriteOk, NewOk, GoneOk
    <2>2. PICK d, n, i : d = c.dir /\ n = c.name /\ i = c.ino
      OBVIOUS
    <2>3. Works(L, d, n) /\ Kid(d, n) = None /\ i \in L \ {Root} /\ \A e \in L, m \in Name : Kid(e, m) # i
      BY <2>2 DEF WholeInv, CallInv, DirsOk, PlaceOk, Naming
    <2>4. Works(L, d, n)' /\ Kid(d, n)' = None /\ \A e \in L, m \in Name : Kid(e, m)' # i
      <3>1. d \in L /\ n \in Name
        BY <2>3 DEF Works
      <3> QED
        BY <1>2, <1>8, <2>3, <3>1, WorksStay DEF SameKids
    <2>5. DirsOk(L)'
      <3>1. Works(L, c.dir, c.name)'
        BY <1>2, <2>2, <2>4 DEF Works
      <3> QED
        BY <1>2, <1>4, <3>1 DEF DirsOk
    <2>6. PlaceOk(L)'
      <3>1. Kid(c.dir, c.name)' = None
        BY <1>2, <2>2, <2>4 DEF Kid, IsDir, AreaOf
      <3> QED
        BY <1>2, <1>3, <2>2, <2>3, <2>4, <3>1 DEF PlaceOk
    <2> QED
      BY <2>1, <2>5, <2>6 DEF CallInv
  <1>11. BlockInv(L)'
    <2>1. Members(L)' = L /\ Members(L) = L
      BY <1>4 DEF Members
    <2>2. \A i \in L, f \in Stream : Cur(i, f)' \in {None, Cur(i, f)}
      <3> SUFFICES ASSUME NEW i \in L, NEW f \in Stream PROVE Cur(i, f)' \in {None, Cur(i, f)}
        OBVIOUS
      <3>1. Cur(i, f) = itab[i][f] /\ Cur(i, f)' = itab'[i][f]
        BY <1>2, <1>4 DEF Cur
      <3> QED
        BY <3>1
    <2>3. BlockInv(L) /\ chain' = chain
      BY DEF WholeInv
    <2>4. \A i \in L, f \in Stream : Blk(Cur(i, f)) \subseteq bmap'
      BY <2>1, <2>3 DEF BlockInv
    <2>5. (Held \cup Doomed \cup Left)' = {} /\ Held' = {} /\ Held \subseteq bmap'
      BY <1>2, <1>3, <2>3 DEF Held, Doomed, Left, BlockInv
    <2>6. At' # "prep" /\ At' # "link"
      BY <1>3
    <2> QED
      BY <2>1, <2>2, <2>3, <2>4, <2>5, <2>6, BlocksStay
  <1> QED
    BY <1>5, <1>6, <1>7, <1>9, <1>10, <1>11 DEF WholeInv, TypeInv

\* Where the operations can be.
LEMMA OpPlaces ==
    ASSUME PhaseInv, c \in Frame
    PROVE  /\ c.op \in {"create", "mkdir"} =>
              Creating \/ At \in {"idle", "ialloc", "header", "dinode", "ifree", "undo"}
           /\ c.op = "rename" => Unplaced \/ At \in {"idle", "header", "unslot", "dinode", "dinode2"}
           /\ c.pc = "flush" => At \in {"ext", "prep", "entry", "link", "undo", "free", "free2",
                                        "mkarea", "child", "idle"}
           /\ c.pc # "flush" => At = c.pc
           /\ At \in Pc
  <1>1. At \in Pc
    BY DEF At, Frame
  <1>2. c.op \in OpsAt(At)
    BY DEF PhaseInv
  <1>3. c.op \in {"create", "mkdir"} =>
           Creating \/ At \in {"idle", "ialloc", "header", "dinode", "ifree", "undo"}
    BY <1>1, <1>2 DEF OpsAt, Creating, InGrow, Pc
  <1>4. c.op = "rename" => Unplaced \/ At \in {"idle", "header", "unslot", "dinode", "dinode2"}
    BY <1>1, <1>2 DEF OpsAt, Unplaced, InGrow, Pc
  <1> QED
    BY <1>1, <1>3, <1>4 DEF PhaseInv, At

\* A call goes to a step that needs nothing from the growing stream.
LEMMA LeaveStep ==
    ASSUME NEW L \in SUBSET Ino, WholeInv(L), UNCHANGED <<bmap, imap, itab, chain, area, open>>,
           NEW p \in {"ifree", "dinode"}, c' = [c EXCEPT !.pc = p], c.pc # "header", At # "unslot",
           p = "dinode" => c.op = "restore",
           p = "ifree" => c.op \in {"create", "mkdir"} /\ (Creating \/ At = "undo")
    PROVE  WholeInv(L)'
  <1>1. OpenInodes' = OpenInodes
    BY DEF OpenInodes
  <1>2. c' \in Frame /\ c'.pc = p /\ SameCall /\ c'.root = c.root
    <2>1. p \in Pc
      BY DEF Pc
    <2> QED
      BY <2>1, Given, GotoFacts
  <1>3. At' = p /\ c'.op = c.op
    BY <1>2 DEF At, SameCall
  <1>4. /\ ~InGrow' /\ ~Building' /\ ~Inserting' /\ ~Recorded' /\ ~Creating' /\ ~ChildWritten' /\ ~Growing'
        /\ ~Unplaced'
    BY <1>3 DEF InGrow, Building, Inserting, Recorded, Creating, ChildWritten, Unplaced, Growing, GrowPc
  <1>5. FrameInv'
    BY <1>2, Given, FrameStays DEF SameCall
  <1>6. PhaseInv'
    <2>1. c'.op \in OpsAt(At')
      BY <1>3, PhaseTable DEF Naming
    <2> QED
      BY <1>2, <1>3, <1>4, <2>1 DEF PhaseInv
  <1>7. WriteOk(L)'
    BY <1>3 DEF WriteOk
  <1>8. Held' = {} /\ Doomed' = {}
    BY <1>3 DEF Held, Doomed
  <1> QED
    BY <1>1, <1>2, <1>3, <1>4, <1>5, <1>6, <1>7, <1>8, Given, QuietStep

\* A call that has failed goes on to its error path.
LEMMA FailedStep ==
    ASSUME NEW L \in SUBSET Ino, WholeInv(L), UNCHANGED <<bmap, imap, itab, chain, area, open>>,
           c' = Failed, At \notin {"header", "idle", "ialloc", "ifree"}
    PROVE  WholeInv(L)'
  <1>1. c.pc # "header" /\ At # "header" /\ OpenInodes' = OpenInodes
    BY DEF At, OpenInodes
  <1>2. CASE c.op \in {"create", "mkdir"} /\ c.ino # None /\ c.pc # "dinode"
    <2>1. c' = [c EXCEPT !.pc = "ifree"]
      BY <1>2 DEF Failed, Goto
    <2>2. (Creating \/ At = "undo") /\ At # "unslot"
      <3>1. c.op \in OpsAt(At)
        BY DEF WholeInv, PhaseInv
      <3>2. At # "unslot"
        BY <1>2, <3>1, PhaseTable
      <3>3. At # "dinode"
        BY <1>2, Given, OpPlaces DEF WholeInv
      <3> QED
        BY <1>2, <3>2, <3>3, Given, OpPlaces DEF WholeInv
    <2> QED
      BY <1>1, <1>2, <2>1, <2>2, LeaveStep
  <1>3. CASE c.op = "rename" /\ c.pc \notin {"unslot", "unheader", "dinode", "dinode2"}
    <2>1. c' = [c EXCEPT !.op = "restore", !.pc = "insert"]
      BY <1>3 DEF Failed
    <2>2. Unplaced
      BY <1>3, Given, OpPlaces DEF WholeInv
    <2> QED
      BY <1>1, <1>3, <2>1, <2>2, RestoreStep
  <1>4. CASE c.op = "restore" /\ c.pc # "dinode"
    <2>1. c' = [c EXCEPT !.pc = "dinode"]
      BY <1>4 DEF Failed, Goto
    <2>2. At # "unslot"
      BY <1>4, PhaseTable DEF WholeInv, PhaseInv
    <2> QED
      BY <1>1, <1>4, <2>1, <2>2, LeaveStep
  <1>5. CASE ~(c.op \in {"create", "mkdir"} /\ c.ino # None /\ c.pc # "dinode")
             /\ ~(c.op = "rename" /\ c.pc \notin {"unslot", "unheader", "dinode", "dinode2"})
             /\ ~(c.op = "restore" /\ c.pc # "dinode")
    <2>1. c' = NoCall
      BY <1>5 DEF Failed
    <2> QED
      BY <1>1, <2>1, Given, EndCall
  <1> QED
    BY <1>2, <1>3, <1>4, <1>5

\* UndoDone keeps the invariant.
LEMMA UndoDoneStep ==
    ASSUME NEW L \in SUBSET Ino, WholeInv(L), UndoDone
    PROVE  WholeInv(L)'
  <1>1. At = "undo" /\ c' = Failed /\ UNCHANGED <<bmap, imap, itab, chain, area, open>>
    BY DEF UndoDone, disk, At
  <1> QED
    BY <1>1, FailedStep

\* The data block is held while the chain is extended.
LEMMA OneHeld ==
    ASSUME PhaseInv, At \in {"ext", "prep", "entry", "link"}
    PROVE  <<c.data>> \in Seq(Block) /\ RangeOf(<<c.data>>) \subseteq Held
  <1>1. c.data \in Block /\ c.data \in Held
    BY DEF PhaseInv, Held
  <1>2. RangeOf(<<c.data>>) = {c.data}
    BY DEF RangeOf
  <1> QED
    BY <1>1, <1>2

\* DiskFull keeps the invariant.
LEMMA DiskFullStep ==
    ASSUME NEW L \in SUBSET Ino, WholeInv(L), DiskFull
    PROVE  WholeInv(L)'
  <1>1. UNCHANGED <<bmap, imap, itab, chain, area, open>>
    BY DEF DiskFull, disk
  <1>2. CASE c.pc = "grow" /\ c' = Failed
    <2>1. At = "grow"
      BY <1>2 DEF At
    <2> QED
      BY <1>1, <1>2, <2>1, FailedStep
  <1>3. CASE c.pc = "ext" /\ c' = Cleanup(<<c.data>>)
    <2>1. At = "ext" /\ At \in GrowPc
      BY <1>3 DEF At, GrowPc
    <2>2. <<c.data>> \in Seq(Block) /\ RangeOf(<<c.data>>) \subseteq Held
      BY <2>1, OneHeld DEF WholeInv
    <2>3. c' = [c EXCEPT !.pc = "undo", !.todo = <<c.data>>]
      BY <1>3 DEF Cleanup
    <2>4. PICK bs \in Seq(Block) : bs = <<c.data>>
      BY <2>2
    <2> QED
      BY <1>1, <1>3, <2>1, <2>2, <2>3, <2>4, CleanupStep
  <1>4. CASE c.pc = "ialloc" /\ c' = NoCall
    <2>1. OpenInodes' = OpenInodes
      BY <1>1 DEF OpenInodes
    <2> QED
      BY <1>1, <1>4, <2>1, Given, EndCall
  <1> QED
    BY <1>2, <1>3, <1>4 DEF DiskFull

\* The rest of a chain is not freed.
LEMMA DropStep ==
    ASSUME NEW L \in SUBSET Ino, WholeInv(L), UNCHANGED <<bmap, imap, itab, chain, area, open>>,
           At \in {"free", "free2"}, c' = [c EXCEPT !.pc = At, !.todo = <<>>]
    PROVE  WholeInv(L)'
  <1>1. OpenInodes' = OpenInodes /\ c.pc # "header"
    BY DEF OpenInodes, At
  <1>2. c' \in Frame /\ c'.pc = At /\ SameCall /\ c'.root = c.root /\ c'.ret = c.ret /\ c'.todo = <<>>
    <2>1. At \in Pc /\ <<>> \in Seq(Block)
      BY DEF Pc
    <2> QED
      BY <2>1, Given DEF SameCall, Frame
  <1>3. At' = At /\ c.op = "unlink" /\ c'.op = c.op
    <2>1. At' = At
      <3>1. c'.pc # "flush"
        BY <1>2
      <3> QED
        BY <1>2, <3>1 DEF At
    <2> QED
      BY <1>2, <2>1, PhaseTable DEF WholeInv, PhaseInv, SameCall
  <1>4. /\ ~InGrow' /\ ~Building' /\ ~Inserting' /\ ~Recorded' /\ ~Creating' /\ ~ChildWritten' /\ ~Unplaced'
        /\ ~Growing'
    BY <1>3 DEF InGrow, Building, Inserting, Recorded, Creating, ChildWritten, Unplaced, Growing, GrowPc
  <1>5. FrameInv'
    BY <1>2, Given, FrameStays DEF SameCall
  <1>6. PhaseInv'
    <2>1. c'.op \in OpsAt(At')
      BY <1>3, PhaseTable
    <2>2. c'.pc # "idle" /\ c'.pc # "flush"
      BY <1>2
    <2> QED
      BY <1>3, <1>4, <2>1, <2>2 DEF PhaseInv
  <1>7. WriteOk(L)'
    BY <1>3 DEF WriteOk
  <1>8. Held' = {} /\ Doomed' = {}
    BY <1>2, <1>3 DEF Held, Doomed, RangeOf
  <1> QED
    BY <1>1, <1>2, <1>3, <1>4, <1>5, <1>6, <1>7, <1>8, Given, QuietStep

\* Replacing the step of the frame by itself changes nothing.
LEMMA SameFrame ==
    ASSUME c \in Frame
    PROVE  /\ \A p : [c EXCEPT !.pc = p] = [c EXCEPT !.pc = p, !.todo = c.todo]
           /\ \A t : [c EXCEPT !.todo = t] = [c EXCEPT !.pc = c.pc, !.todo = t]
  BY DEF Frame

\* IoFails keeps the invariant, outside of the last two writes of an insertion.
LEMMA IoFailsStep ==
    ASSUME NEW L \in SUBSET Ino, WholeInv(L), ~Torn, IoFails
    PROVE  WholeInv(L)'
  <1>1. /\ UNCHANGED <<bmap, imap, itab, chain, area, open>> /\ OpenInodes' = OpenInodes
        /\ c.pc \notin {"header", "idle", "mkarea"}
        /\ \/ c.pc = "link" /\ c.ext = None /\ c' = Cleanup(<<c.data>>)
           \/ c' = AfterError
    BY DEF IoFails, disk, FaultHere, OpenInodes
  <1>2. /\ c \in Frame /\ c.todo \in Seq(Block) /\ At \in Pc /\ (c.pc # "flush" => At = c.pc) /\ PhaseInv
        /\ (c.pc = "flush" => At = c.cont /\
              c.cont \in {"ext", "prep", "entry", "link", "undo", "free", "free2", "mkarea", "child", "idle"})
    BY Given, FrameFields, OpPlaces DEF WholeInv, PhaseInv, At
  <1>3. ASSUME At \in {"ext", "prep", "entry", "link"}, c' = Cleanup(<<c.data>>) PROVE WholeInv(L)'
    <2>1. <<c.data>> \in Seq(Block) /\ RangeOf(<<c.data>>) \subseteq Held /\ At \in GrowPc
      BY <1>2, <1>3, OneHeld DEF GrowPc
    <2>2. c' = [c EXCEPT !.pc = "undo", !.todo = <<c.data>>]
      BY <1>3 DEF Cleanup
    <2>3. PICK bs \in Seq(Block) : bs = <<c.data>>
      BY <2>1
    <2> QED
      BY <1>1, <2>1, <2>2, <2>3, CleanupStep
  <1>4. CASE c.pc = "link" /\ c.ext = None /\ c' = Cleanup(<<c.data>>)
    BY <1>2, <1>3, <1>4
  <1>5. CASE c' = AfterError /\ c.pc = "flush" /\ c.cont \in {"undo", "idle"}
    <2>1. CASE c.cont = "idle"
      <3>1. c' = NoCall
        BY <1>5, <2>1 DEF AfterError, Goto
      <3> QED
        BY <1>1, <3>1, Given, EndCall
    <2>2. CASE c.cont = "undo"
      <3>1. c' = [c EXCEPT !.pc = "undo"] /\ At = "undo"
        BY <1>2, <1>5, <2>2 DEF AfterError, Goto
      <3>2. c' = [c EXCEPT !.pc = "undo", !.todo = c.todo]
        BY <1>2, <3>1, SameFrame
      <3>3. PICK bs \in Seq(Block) : bs = c.todo
        BY <1>2
      <3>4. RangeOf(bs) \subseteq Doomed
        BY <3>1, <3>3 DEF Doomed
      <3> QED
        BY <1>1, <3>1, <3>2, <3>3, <3>4, CleanupStep
    <2> QED
      BY <1>5, <2>1, <2>2
  <1>6. CASE c' = AfterError /\ c.pc = "flush" /\ c.cont \in {"free", "free2"}
    <2>1. c' = [c EXCEPT !.pc = At, !.todo = <<>>] /\ At \in {"free", "free2"}
      BY <1>2, <1>6 DEF AfterError
    <2> QED
      BY <1>1, <2>1, DropStep
  <1>7. CASE c' = AfterError /\ c.pc = "flush" /\ c.cont \in {"child", "mkarea"}
    <2>1. c' = NoCall
      BY <1>7 DEF AfterError
    <2> QED
      BY <1>1, <2>1, Given, EndCall
  <1>8. CASE c' = AfterError /\ c.pc = "flush" /\ c.cont = "prep"
    <2>1. c' = Cleanup(<<c.data>>)
      BY <1>8 DEF AfterError
    <2> QED
      BY <1>2, <1>3, <1>8, <2>1
  <1>9. CASE c' = AfterError /\ c.pc = "flush" /\ c.cont \in {"ext", "entry", "link"}
    <2>1. c' = Failed
      BY <1>9 DEF AfterError
    <2> QED
      BY <1>1, <1>2, <1>9, <2>1, FailedStep
  <1>10. CASE c' = AfterError /\ c.pc \in {"ext", "entry"}
    <2>1. c' = Cleanup(<<c.data>>)
      BY <1>10 DEF AfterError
    <2> QED
      BY <1>2, <1>3, <1>10, <2>1
  <1>11. CASE c' = AfterError /\ c.pc = "prep"
    <2>1. c' = [c EXCEPT !.pc = "undo", !.todo = <<c.data, c.ext>>] /\ At = "prep"
      BY <1>2, <1>11 DEF AfterError, Cleanup
    <2>2. c.data \in Block /\ c.ext \in Block /\ {c.data, c.ext} \subseteq Held
      BY <1>2, <2>1 DEF PhaseInv, Held
    <2>3. <<c.data, c.ext>> \in Seq(Block)
      BY <2>2
    <2>4. PICK bs \in Seq(Block) : bs = <<c.data, c.ext>>
      BY <2>3
    <2>5. RangeOf(bs) \subseteq Held
      BY <2>2, <2>4 DEF RangeOf
    <2>6. At \in GrowPc
      BY <2>1 DEF GrowPc
    <2> QED
      BY <1>1, <2>1, <2>4, <2>5, <2>6, CleanupStep
  <1>12. CASE c' = AfterError /\ c.pc = "undo"
    <2>1. c' = [c EXCEPT !.todo = Tail(c.todo)] /\ At = "undo" /\ c.todo # <<>>
      BY <1>2, <1>12 DEF AfterError, IoFails
    <2>2. c' = [c EXCEPT !.pc = "undo", !.todo = Tail(c.todo)]
      BY <1>2, <1>12, <2>1, SameFrame
    <2>0. PICK s \in Seq(Block) : s = c.todo /\ s # <<>>
      BY <1>2, <2>1
    <2>3. PICK bs \in Seq(Block) : bs = Tail(c.todo)
      <3>1. Tail(s) \in Seq(Block)
        BY <2>0
      <3> QED
        BY <2>0, <3>1
    <2>4. RangeOf(bs) \subseteq Doomed
      BY <1>2, <2>1, <2>3 DEF Doomed, RangeOf
    <2> QED
      BY <1>1, <2>1, <2>2, <2>3, <2>4, CleanupStep
  <1>13. CASE c' = AfterError /\ c.pc \in {"free", "free2"}
    <2>1. c' = [c EXCEPT !.todo = <<>>] /\ At = c.pc
      BY <1>2, <1>13 DEF AfterError
    <2>2. c' = [c EXCEPT !.pc = At, !.todo = <<>>]
      BY <1>2, <2>1, SameFrame
    <2> QED
      BY <1>1, <1>13, <2>1, <2>2, DropStep
  <1>14. CASE c' = AfterError /\ c.pc \in {"ialloc", "ifree", "data", "inode"}
    <2>1. c' = NoCall
      BY <1>14 DEF AfterError
    <2> QED
      BY <1>1, <2>1, Given, EndCall
  <1>15. CASE c' = AfterError /\ c.pc \notin {"flush", "ext", "entry", "prep", "undo", "free", "free2", "ialloc",
                                              "ifree", "data", "inode"}
    <2>1. c' = Failed
      BY <1>15 DEF AfterError
    <2> QED
      BY <1>1, <1>2, <1>15, <2>1, FailedStep
  <1> QED
    BY <1>1, <1>2, <1>4, <1>5, <1>6, <1>7, <1>8, <1>9, <1>10, <1>11, <1>12, <1>13, <1>14, <1>15

\* So does Crash.
LEMMA CrashStep ==
    ASSUME NEW L \in SUBSET Ino, WholeInv(L), ~Torn, Crash
    PROVE  WholeInv(L)'
  <1>1. /\ UNCHANGED <<bmap, imap, itab, chain, area>> /\ c' = NoCall /\ OpenInodes' = {} /\ c.pc # "header"
    BY DEF Crash, disk, FaultHere, OpenInodes
  <1> QED
    BY <1>1, Given, EndCall

-----------------------------------------------------------------------------
(***************************************************************************)
(* What a path leads to                                                    *)
(***************************************************************************)
\* Children of a directory of L are in L.
LEMMA ChildrenFacts ==
    ASSUME NEW L \in SUBSET Ino, NameInv(L), NEW d \in L
    PROVE  /\ Children(d) \subseteq L
           /\ \A x \in Children(d) : x \in L \ {Root} /\ x # None /\ \E n \in Name : Kid(d, n) = x
  <1>1. \A x \in Children(d) : x # None /\ \E n \in Name : Kid(d, n) = x
    BY DEF Children, Kid, IsDir
  <1>2. \A n \in Name : Kid(d, n) # None => Kid(d, n) \in L \ {Root}
    BY DEF NameInv
  <1> QED
    BY <1>1, <1>2

\* Reachable is within every set that has the root and what its members name.
LEMMA ReachKeeps ==
    ASSUME NEW L \in SUBSET Ino, NameInv(L), NEW X, Root \in X, \A d \in X : Children(d) \subseteq X
    PROVE  Reachable \subseteq X
  <1> DEFINE Eq(f) == f = [k \in 0 .. NInodes |->
                             IF k = 0 THEN {Root} ELSE f[k - 1] \cup UNION {Children(d) : d \in f[k - 1]}]
  <1>1. PICK N \in Nat : N = NInodes
    BY SizeAssumption
  <1>2. PICK S : S = SUBSET L
    OBVIOUS
  <1>3. {Root} \in S /\ \A x \in S : x \cup UNION {Children(d) : d \in x} \in S
    BY <1>2, ChildrenFacts DEF NameInv
  <1> DEFINE F == [k \in 1 .. N |-> [x \in S |-> x \cup UNION {Children(d) : d \in x}]]
  <1>4. PICK f \in [0 .. N -> S] : Iterates(f, N, F, {Root})
    <2>1. F \in [1 .. N -> [S -> S]]
      BY <1>3
    <2> HIDE DEF F
    <2> QED
      BY <1>3, <2>1, IterationExists
  <1>5. \A k \in 1 .. N : f[k] = f[k - 1] \cup UNION {Children(d) : d \in f[k - 1]}
    <2> SUFFICES ASSUME NEW k \in 1 .. N PROVE f[k] = f[k - 1] \cup UNION {Children(d) : d \in f[k - 1]}
      OBVIOUS
    <2>1. k - 1 \in 0 .. N
      OBVIOUS
    <2>2. f[k - 1] \in S
      BY <2>1
    <2>3. f[k] = F[k][f[k - 1]]
      BY <1>4 DEF Iterates
    <2> QED
      BY <2>2, <2>3
  <1>6. Eq(f)
    <2>1. f = [k \in 0 .. N |-> f[k]]
      OBVIOUS
    <2>2. \A k \in 0 .. N : f[k] = IF k = 0 THEN {Root} ELSE f[k - 1] \cup UNION {Children(d) : d \in f[k - 1]}
      <3>1. \A k \in 0 .. N : k = 0 \/ k \in 1 .. N
        OBVIOUS
      <3>2. f[0] = {Root}
        BY <1>4 DEF Iterates
      <3> QED
        BY <1>5, <3>1, <3>2
    <2>3. f = [k \in 0 .. N |-> IF k = 0 THEN {Root} ELSE f[k - 1] \cup UNION {Children(d) : d \in f[k - 1]}]
      BY <2>1, <2>2
    <2> QED
      BY <1>1, <2>3
  <1>7. PICK g : g = CHOOSE h : Eq(h)
    OBVIOUS
  <1>8. Reachable = g[NInodes]
    BY <1>7 DEF Reachable, Below
  <1>9. Eq(g)
    <2> HIDE DEF Eq
    <2> QED
      BY <1>6, <1>7
  <1>10. \A k \in 0 .. N : g[k] = IF k = 0 THEN {Root} ELSE g[k - 1] \cup UNION {Children(d) : d \in g[k - 1]}
    <2>1. g = [k \in 0 .. N |-> IF k = 0 THEN {Root} ELSE g[k - 1] \cup UNION {Children(d) : d \in g[k - 1]}]
      BY <1>1, <1>9
    <2> QED
      BY <2>1
  <1>11. PICK I : I = SUBSET X
    OBVIOUS
  <1>12. g[0] \in I
    <2>1. 0 \in 0 .. N
      OBVIOUS
    <2>2. g[0] = {Root}
      BY <1>10, <2>1
    <2> QED
      BY <1>11, <2>2
  <1>13. \A k \in 1 .. N : g[k - 1] \in I => g[k] \in I
    <2> SUFFICES ASSUME NEW k \in 1 .. N, g[k - 1] \in I PROVE g[k] \in I
      OBVIOUS
    <2>1. g[k] = g[k - 1] \cup UNION {Children(d) : d \in g[k - 1]}
      <3>1. k \in 0 .. N /\ k # 0
        OBVIOUS
      <3> QED
        BY <1>10, <3>1
    <2> QED
      BY <1>11, <2>1
  <1>14. \A k \in 0 .. N : g[k] \in I
    BY <1>12, <1>13, IterationKeeps
  <1> QED
    BY <1>1, <1>8, <1>11, <1>14

\* Paths lead to inodes of L, and no directory is its own entry.
LEMMA ReachFacts ==
    ASSUME NEW L \in SUBSET Ino, NameInv(L)
    PROVE  /\ Reachable \subseteq L /\ Root \in L
           /\ \A d \in Reachable, n \in Name : Kid(d, n) # d
  <1>1. Reachable \subseteq L
    BY ReachKeeps, ChildrenFacts DEF NameInv
  <1>2. ASSUME NEW d \in Reachable, NEW n \in Name, Kid(d, n) = d PROVE FALSE
    <2>1. d \in L /\ d # None /\ d # Root
      <3>1. d \in L /\ L \subseteq Ino
        BY <1>1, <1>2
      <3>2. d # None
        BY <3>1 DEF Ino, None
      <3> QED
        BY <1>2, <3>1, <3>2 DEF NameInv
    <2>2. \A e \in L \ {d} : Children(e) \subseteq L \ {d}
      <3> SUFFICES ASSUME NEW e \in L \ {d}, NEW x \in Children(e) PROVE x \in L \ {d}
        OBVIOUS
      <3>1. PICK m \in Name : Kid(e, m) = x /\ x \in L /\ x # None
        BY ChildrenFacts
      <3> QED
        BY <1>2, <2>1, <3>1 DEF NameInv
    <2>3. Reachable \subseteq L \ {d}
      BY <2>1, <2>2, ReachKeeps DEF NameInv
    <2> QED
      BY <1>2, <2>3
  <1> QED
    BY <1>1, <1>2 DEF NameInv

-----------------------------------------------------------------------------
(***************************************************************************)
(* Calls begin                                                             *)
(***************************************************************************)
\* Between calls there are no phases.
LEMMA IdleFacts ==
    ASSUME NEW L \in SUBSET Ino, WholeInv(L), Idle
    PROVE  /\ c = NoCall /\ c.pc = "idle" /\ c.op = "none" /\ At = "idle" /\ ~Creating /\ ~Inserting
           /\ Members(L) = L /\ \A i \in L, f \in Stream : Cur(i, f) = itab[i][f]
  <1>1. c = NoCall /\ c.pc = "idle" /\ c.op = "none"
    BY DEF Idle, WholeInv, PhaseInv, NoCall
  <1>2. At = "idle"
    BY <1>1 DEF At
  <1>3. ~Creating /\ ~Building /\ ~Inserting
    BY <1>1, <1>2 DEF Creating, Building, InGrow, GrowPc, Inserting
  <1> QED
    BY <1>1, <1>2, <1>3 DEF Members, Cur

\* A call starts, and has changed nothing yet.
LEMMA StartStep ==
    ASSUME NEW L \in SUBSET Ino, WholeInv(L), Idle, UNCHANGED <<bmap, imap, itab, chain, area>>,
           OpenInodes' \subseteq L, FrameInv', PhaseInv', CallInv(L)', ~Inserting', ~Creating',
           At' # "header", Held' = {}, Doomed' = {}, Left' = {}, At' \notin {"prep", "link"},
           \A i \in L, f \in Stream : Cur(i, f)' = itab[i][f]
    PROVE  WholeInv(L)'
  <1>1. TypeInv'
    BY Given, DiskStays DEF TypeInv
  <1>2. SameInodes(L) /\ SameKids(L)
    BY SameTable
  <1>3. NameInv(L)' /\ SizeInv(L)'
    BY <1>2, Given, NamesStay, SizesStay DEF WholeInv
  <1>4. AreaInv'
    <2>1. c'.pc # "header" /\ ~Recorded' /\ c.pc # "header"
      BY IdleFacts DEF At, Recorded, Inserting
    <2> QED
      BY <2>1, AreasStay DEF WholeInv
  <1>5. BlockInv(L)'
    <2>1. BlockInv(L) /\ chain' = chain /\ Members(L) = L /\ Members(L)' = L
      BY IdleFacts DEF WholeInv, Members
    <2>2. \A i \in L, f \in Stream : Cur(i, f)' \in {None, Cur(i, f)}
      BY IdleFacts
    <2>3. Held = {} /\ \A i \in L, f \in Stream : Blk(Cur(i, f)) \subseteq bmap'
      <3>1. Held = {}
        BY IdleFacts DEF Held
      <3> QED
        BY <2>1, <3>1 DEF BlockInv
    <2>4. (Held \cup Doomed \cup Left)' = {}
      OBVIOUS
    <2> QED
      BY <2>1, <2>2, <2>3, <2>4, BlocksStay
  <1> QED
    BY <1>1, <1>3, <1>4, <1>5 DEF WholeInv

\* Opening and closing change the set of open inodes only.
LEMMA HandleStep ==
    ASSUME NEW L \in SUBSET Ino, WholeInv(L), Idle, UNCHANGED <<disk, c>>, OpenInodes' \subseteq L
    PROVE  WholeInv(L)'
  <1>1. c' = NoCall /\ c.pc # "header" /\ UNCHANGED <<bmap, imap, itab, chain, area>>
    BY IdleFacts DEF disk
  <1> QED
    BY <1>1, Given, EndCall

\* NyfsOpen keeps the invariant.
LEMMA OpenStep ==
    ASSUME NEW L \in SUBSET Ino, WholeInv(L), NEW i \in Ino, NyfsOpen(i)
    PROVE  WholeInv(L)'
  <1>1. OpenInodes' \subseteq OpenInodes \cup {i} /\ i \in L
    BY ReachFacts DEF NyfsOpen, OpenInodes, WholeInv
  <1> QED
    BY <1>1, Given, HandleStep DEF NyfsOpen

\* NyfsClose keeps the invariant.
LEMMA CloseStep ==
    ASSUME NEW L \in SUBSET Ino, WholeInv(L), NEW h \in open, NyfsClose(h)
    PROVE  WholeInv(L)'
  <1>1. OpenInodes' \subseteq OpenInodes
    BY DEF NyfsClose, OpenInodes
  <1> QED
    BY <1>1, Given, HandleStep DEF NyfsClose

\* The frame of a new call.
LEMMA FreshFrame ==
    ASSUME NEW L \in SUBSET Ino, WholeInv(L), NEW op \in Op
    PROVE  /\ Call(op) \in Frame /\ Call(op).op = op /\ Call(op).copy = itab /\ Call(op).root = None
           /\ Call(op).node = NoInode /\ Call(op).dir = None /\ Call(op).name = None
           /\ Call(op).dir2 = None /\ Call(op).name2 = None /\ Call(op).ino = None
           /\ Call(op).data = None /\ Call(op).ext = None /\ Call(op).ret = "idle" /\ Call(op).need = 0
  <1>1. NoInode \in InodeT /\ itab \in [Ino -> InodeT]
    BY Given DEF NoInode, InodeT, Ptr, None, DiskInv
  <1>2. NoCall \in Frame
    BY <1>1 DEF NoCall, Frame, Pc, Op, Ptr, None
  <1>3. Call(op) \in Frame /\ Call(op).op = op /\ Call(op).copy = itab
    BY <1>1, <1>2 DEF Call, Frame
  <1>4. /\ NoCall.root = None /\ NoCall.node = NoInode /\ NoCall.dir = None /\ NoCall.name = None
        /\ NoCall.dir2 = None /\ NoCall.name2 = None /\ NoCall.ino = None
        /\ NoCall.data = None /\ NoCall.ext = None /\ NoCall.ret = "idle" /\ NoCall.need = 0
    BY DEF NoCall
  <1> QED
    BY <1>2, <1>3, <1>4 DEF Call, Frame

\* NyfsWrite keeps the invariant.
LEMMA WriteStep ==
    ASSUME NEW L \in SUBSET Ino, WholeInv(L), NEW i \in Ino, NEW end \in FileEnd, NyfsWrite(i, end)
    PROVE  WholeInv(L)'
  <1>1. /\ Idle /\ i \in L /\ UNCHANGED <<bmap, imap, itab, chain, area>> /\ OpenInodes' = OpenInodes
        /\ c' = [[Call("write") EXCEPT !.ino = i, !.node = itab[i], !.end = end]
                    EXCEPT !.pc = "grow", !.root = itab[i].data, !.need = BlocksFor(end), !.ret = "data"]
    BY Given DEF NyfsWrite, Grow, disk, env, OpenInodes
  <1>2. itab[i] \in InodeT /\ itab[i].data \in Ptr /\ itab \in [Ino -> InodeT]
    BY Given DEF DiskInv, InodeT
  <1>3. end \in Nat /\ BlocksFor(end) \in Nat
    <2>1. end \in Nat
      BY SizeAssumption
    <2> QED
      BY <2>1, BlocksForFacts
  <1>4. PICK f : f = [Call("write") EXCEPT !.ino = i, !.node = itab[i], !.end = end]
    OBVIOUS
  <1>5. f \in Frame /\ f.op = "write" /\ f.ino = i /\ f.node = itab[i] /\ f.end = end /\ f.copy = itab
    <2>1. Call("write") \in Frame /\ Call("write").op = "write" /\ Call("write").copy = itab
      BY FreshFrame DEF Op
    <2> QED
      BY <1>2, <1>3, <1>4, <2>1 DEF Frame
  <1>6. /\ c' \in Frame /\ c'.op = "write" /\ c'.ino = i /\ c'.node = itab[i] /\ c'.end = end /\ c'.copy = itab
        /\ c'.pc = "grow" /\ c'.root = itab[i].data /\ c'.need = BlocksFor(end) /\ c'.ret = "data"
    <2>1. c' = [f EXCEPT !.pc = "grow", !.root = itab[i].data, !.need = BlocksFor(end), !.ret = "data"]
      BY <1>1, <1>4
    <2>2. {"grow", "data"} \subseteq Pc
      BY DEF Pc, GrowPc
    <2> QED
      BY <1>2, <1>3, <1>5, <2>1, <2>2 DEF Frame
  <1>7. At' = "grow" /\ InGrow' /\ Building' /\ ~Creating' /\ ~Inserting' /\ ~Unplaced'
    <2>1. At' = "grow"
      BY <1>6 DEF At
    <2> QED
      BY <1>6, <2>1 DEF InGrow, Building, Creating, Inserting, Unplaced, GrowPc
  <1>8. FrameInv'
    BY <1>1, <1>2, <1>6, Given DEF FrameInv, DiskInv, Grounded
  <1>9. PhaseInv'
    <2>1. c'.op \in OpsAt(At') /\ c'.ret \in RetsOf(c'.op)
      BY <1>6, <1>7, PhaseTable DEF GrowPc
    <2> QED
      BY <1>6, <1>7, <2>1 DEF PhaseInv
  <1>10. CallInv(L)'
    <2>1. WriteOk(L)'
      <3>1. /\ c'.ino \in L /\ c'.node = itab'[c'.ino] /\ c'.node.data = c'.root /\ c'.need = BlocksFor(c'.end)
        BY <1>1, <1>6
      <3> QED
        BY <1>7, <3>1 DEF WriteOk, BlocksFor
    <2>2. DirsOk(L)' /\ NewOk(L)' /\ GoneOk(L)' /\ PlaceOk(L)'
      BY <1>6, <1>7 DEF DirsOk, NewOk, GoneOk, PlaceOk, Naming
    <2> QED
      BY <2>1, <2>2 DEF CallInv
  <1>11. Held' = {} /\ Doomed' = {} /\ Left' = {}
    BY <1>6, <1>7 DEF Held, Doomed, Left
  <1>12. \A j \in L, g \in Stream : Cur(j, g)' = itab[j][g]
    BY <1>1, <1>6, <1>7 DEF Cur
  <1> QED
    BY <1>1, <1>7, <1>8, <1>9, <1>10, <1>11, <1>12, Given, StartStep

\* The directories that calls find by a path.
LEMMA DirFacts ==
    ASSUME NEW L \in SUBSET Ino, WholeInv(L), NEW d \in Dirs, NEW n \in Name
    PROVE  d \in L /\ IsDir(d) /\ Kid(d, n) = Lookup(AreaOf(d), n) /\ Kid(d, n) # d
  <1>1. d \in Reachable /\ IsDir(d)
    BY DEF Dirs, IsDir
  <1> QED
    BY <1>1, ReachFacts DEF WholeInv, Kid

\* A new call can work in a directory that it has found.
LEMMA FoundDir ==
    ASSUME NEW L \in SUBSET Ino, NEW d \in L, NEW n \in Name, IsDir(d), UNCHANGED <<itab, area>>, c'.copy = itab
    PROVE  Works(L, d, n)' /\ Kid(d, n)' = Kid(d, n)
  BY DEF Works, IsDir, Kid, AreaOf

\* NyfsMake keeps the invariant.
LEMMA MakeStep ==
    ASSUME NEW L \in SUBSET Ino, WholeInv(L), NEW op \in {"create", "mkdir"}, NEW d \in Ino, NEW n \in Name,
           NyfsMake(op, d, n)
    PROVE  WholeInv(L)'
  <1>1. /\ Idle /\ d \in Dirs /\ Lookup(AreaOf(d), n) = None
        /\ UNCHANGED <<bmap, imap, itab, chain, area>> /\ OpenInodes' = OpenInodes
        /\ c' = [Call(op) EXCEPT !.pc = "ialloc", !.dir = d, !.name = n]
    BY DEF NyfsMake, disk, env, OpenInodes
  <1>2. d \in L /\ IsDir(d) /\ Kid(d, n) = None
    BY <1>1, DirFacts
  <1>3. /\ c' \in Frame /\ c'.op = op /\ c'.copy = itab /\ c'.root = None /\ c'.node = NoInode
        /\ c'.pc = "ialloc" /\ c'.dir = d /\ c'.name = n
    <2>1. "ialloc" \in Pc /\ op \in Op
      BY DEF Pc, Op
    <2>2. /\ Call(op) \in Frame /\ Call(op).op = op /\ Call(op).copy = itab /\ Call(op).root = None
          /\ Call(op).node = NoInode
      BY <2>1, FreshFrame
    <2> QED
      BY <1>1, <2>1, <2>2 DEF Frame
  <1>4. At' = "ialloc" /\ ~InGrow' /\ ~Building' /\ ~Creating' /\ ~Inserting' /\ ~Unplaced'
    <2>1. At' = "ialloc"
      BY <1>3 DEF At
    <2> QED
      BY <1>3, <2>1 DEF InGrow, Building, Creating, Inserting, Unplaced, GrowPc
  <1>5. FrameInv'
    BY <1>1, <1>3, Given DEF FrameInv, DiskInv, Grounded, NoInode
  <1>6. PhaseInv'
    <2>1. c'.op \in OpsAt(At')
      BY <1>3, <1>4, PhaseTable
    <2> QED
      BY <1>3, <1>4, <2>1 DEF PhaseInv
  <1>7. CallInv(L)'
    <2>1. Works(L, d, n)' /\ Kid(d, n)' = None
      BY <1>1, <1>2, <1>3, FoundDir
    <2>2. Works(L, c.dir, c.name)' /\ Kid(c.dir, c.name)' = None
      BY <1>3, <2>1 DEF Works, Kid, IsDir, AreaOf
    <2> QED
      BY <1>3, <1>4, <2>2 DEF CallInv, WriteOk, NewOk, GoneOk, DirsOk, PlaceOk
  <1>8. Held' = {} /\ Doomed' = {} /\ Left' = {}
    BY <1>3, <1>4 DEF Held, Doomed, Left
  <1>9. \A j \in L, g \in Stream : Cur(j, g)' = itab[j][g]
    BY <1>1, <1>3, <1>4 DEF Cur
  <1> QED
    BY <1>1, <1>4, <1>5, <1>6, <1>7, <1>8, <1>9, Given, StartStep

\* NyfsUnlink keeps the invariant.
LEMMA UnlinkStep ==
    ASSUME NEW L \in SUBSET Ino, WholeInv(L), ~KeepOpen, NEW d \in Ino, NEW n \in Name, NyfsUnlink(d, n)
    PROVE  WholeInv(L)'
  <1>1. PICK t : t = Lookup(AreaOf(d), n)
    OBVIOUS
  <1>2. /\ Idle /\ d \in Dirs /\ t # None /\ t \notin OpenInodes
        /\ UNCHANGED <<bmap, imap, itab, chain, area, open>> /\ OpenInodes' = OpenInodes
        /\ c' = [Call("unlink") EXCEPT !.pc = "unslot", !.dir = d, !.name = n, !.ino = t, !.node = itab[t]]
    BY <1>1 DEF NyfsUnlink, disk, env, OpenInodes
  <1>3. d \in L /\ IsDir(d) /\ Kid(d, n) = t /\ t # d
    BY <1>1, <1>2, DirFacts
  <1>4. t \in L /\ t \in Ino
    BY <1>2, <1>3 DEF WholeInv, NameInv
  <1>5. /\ c' \in Frame /\ c'.op = "unlink" /\ c'.copy = itab /\ c'.root = None /\ c'.node = itab[t]
        /\ c'.pc = "unslot" /\ c'.dir = d /\ c'.name = n /\ c'.ino = t
    <2>1. "unslot" \in Pc /\ "unlink" \in Op /\ itab[t] \in InodeT
      BY <1>4, Given DEF Pc, Op, DiskInv
    <2>2. /\ Call("unlink") \in Frame /\ Call("unlink").op = "unlink" /\ Call("unlink").copy = itab
          /\ Call("unlink").root = None
      BY <2>1, FreshFrame
    <2> QED
      BY <1>2, <1>4, <2>1, <2>2 DEF Frame
  <1>6. At' = "unslot" /\ ~InGrow' /\ ~Building' /\ ~Creating' /\ ~Inserting' /\ ~Unplaced'
    <2>1. At' = "unslot"
      BY <1>5 DEF At
    <2> QED
      BY <1>5, <2>1 DEF InGrow, Building, Creating, Inserting, Unplaced, GrowPc
  <1>7. FrameInv'
    BY <1>2, <1>4, <1>5, Given DEF FrameInv, DiskInv, Grounded
  <1>8. PhaseInv'
    <2>1. c'.op \in OpsAt(At')
      BY <1>5, <1>6, PhaseTable
    <2> QED
      BY <1>5, <1>6, <2>1 DEF PhaseInv
  <1>9. CallInv(L)'
    <2>1. Works(L, d, n)' /\ Kid(d, n)' = t
      BY <1>2, <1>3, <1>5, FoundDir
    <2>2. Works(L, c.dir, c.name)' /\ Kid(c.dir, c.name)' = t
      BY <1>5, <2>1 DEF Works, Kid, IsDir, AreaOf
    <2>3. WriteOk(L)' /\ NewOk(L)' /\ GoneOk(L)' /\ DirsOk(L)'
      BY <1>5, <1>6, <2>2 DEF WriteOk, NewOk, GoneOk, DirsOk
    <2>4. PlaceOk(L)'
      BY <1>2, <1>3, <1>5, <1>6, <2>2 DEF PlaceOk
    <2> QED
      BY <2>3, <2>4 DEF CallInv
  <1>10. Held' = {} /\ Doomed' = {} /\ Left' = {}
    BY <1>5, <1>6 DEF Held, Doomed, Left
  <1>11. \A j \in L, g \in Stream : Cur(j, g)' = itab[j][g]
    BY <1>2, <1>5, <1>6 DEF Cur
  <1> QED
    BY <1>2, <1>6, <1>7, <1>8, <1>9, <1>10, <1>11, Given, StartStep

\* NyfsRename keeps the invariant.
LEMMA RenameStep ==
    ASSUME NEW L \in SUBSET Ino, WholeInv(L), NEW d \in Ino, NEW n \in Name, NEW d2 \in Ino, NEW n2 \in Name,
           NyfsRename(d, n, d2, n2)
    PROVE  WholeInv(L)'
  <1>1. PICK t : t = Lookup(AreaOf(d), n)
    OBVIOUS
  <1>2. /\ Idle /\ d \in Dirs /\ d2 \in Dirs /\ t # None /\ Lookup(AreaOf(d2), n2) = None
        /\ UNCHANGED <<bmap, imap, itab, chain, area, open>> /\ OpenInodes' = OpenInodes
        /\ c' = [Call("rename") EXCEPT !.pc = "unslot", !.dir = d, !.name = n,
                                       !.dir2 = d2, !.name2 = n2, !.ino = t]
    BY <1>1 DEF NyfsRename, disk, env, OpenInodes
  <1>3. d \in L /\ IsDir(d) /\ Kid(d, n) = t /\ d2 \in L /\ IsDir(d2) /\ Kid(d2, n2) = None
    BY <1>1, <1>2, DirFacts
  <1>4. t \in L /\ t \in Ino
    BY <1>2, <1>3 DEF WholeInv, NameInv
  <1>5. /\ c' \in Frame /\ c'.op = "rename" /\ c'.copy = itab /\ c'.root = None /\ c'.node = NoInode
        /\ c'.pc = "unslot" /\ c'.dir = d /\ c'.name = n /\ c'.ino = t /\ c'.dir2 = d2 /\ c'.name2 = n2
    <2>1. "unslot" \in Pc /\ "rename" \in Op
      BY DEF Pc, Op
    <2>2. /\ Call("rename") \in Frame /\ Call("rename").op = "rename" /\ Call("rename").copy = itab
          /\ Call("rename").root = None /\ Call("rename").node = NoInode
      BY <2>1, FreshFrame
    <2> QED
      BY <1>2, <1>4, <2>1, <2>2 DEF Frame
  <1>6. At' = "unslot" /\ ~InGrow' /\ ~Building' /\ ~Creating' /\ ~Inserting' /\ ~Unplaced'
    <2>1. At' = "unslot"
      BY <1>5 DEF At
    <2> QED
      BY <1>5, <2>1 DEF InGrow, Building, Creating, Inserting, Unplaced, GrowPc
  <1>7. FrameInv'
    BY <1>2, <1>5, Given DEF FrameInv, DiskInv, Grounded, NoInode
  <1>8. PhaseInv'
    <2>1. c'.op \in OpsAt(At')
      BY <1>5, <1>6, PhaseTable
    <2> QED
      BY <1>5, <1>6, <2>1 DEF PhaseInv
  <1>9. CallInv(L)'
    <2>1. Works(L, d, n)' /\ Kid(d, n)' = t /\ Works(L, d2, n2)' /\ Kid(d2, n2)' = None
      BY <1>2, <1>3, <1>5, FoundDir
    <2>2. /\ Works(L, c.dir, c.name)' /\ Kid(c.dir, c.name)' = t
          /\ Works(L, c.dir2, c.name2)' /\ Kid(c.dir2, c.name2)' = None
      BY <1>5, <2>1 DEF Works, Kid, IsDir, AreaOf
    <2>3. WriteOk(L)' /\ NewOk(L)' /\ GoneOk(L)' /\ DirsOk(L)'
      BY <1>5, <1>6, <2>2 DEF WriteOk, NewOk, GoneOk, DirsOk
    <2>4. PlaceOk(L)'
      BY <1>2, <1>5, <1>6, <2>2 DEF PlaceOk
    <2> QED
      BY <2>3, <2>4 DEF CallInv
  <1>10. Held' = {} /\ Doomed' = {} /\ Left' = {}
    BY <1>5, <1>6 DEF Held, Doomed, Left
  <1>11. \A j \in L, g \in Stream : Cur(j, g)' = itab[j][g]
    BY <1>2, <1>5, <1>6 DEF Cur
  <1> QED
    BY <1>2, <1>6, <1>7, <1>8, <1>9, <1>10, <1>11, Given, StartStep

-----------------------------------------------------------------------------
(***************************************************************************)
(* Allocation, and writes of inodes                                        *)
(***************************************************************************)
\* The directory and the name that an insertion is for.
LEMMA InDirFacts ==
    ASSUME NEW L \in SUBSET Ino, WholeInv(L), c.op \in Naming
    PROVE  /\ InDir \in L /\ InDir \in Ino /\ InName \in Name /\ IsDir(InDir)
           /\ Works(L, InDir, InName) /\ itab[InDir].dir \in Block /\ c.copy[InDir].dir = itab[InDir].dir
  <1>1. Works(L, InDir, InName)
    BY DEF WholeInv, CallInv, DirsOk, InDir, InName, Naming
  <1>2. InDir \in L /\ IsDir(InDir) /\ InName \in Name /\ c.copy[InDir].dir = itab[InDir].dir
    BY <1>1 DEF Works
  <1>3. itab[InDir] \in InodeT /\ itab[InDir].dir # None
    BY <1>2, Given DEF DiskInv, WholeInv, NameInv
  <1> QED
    BY <1>1, <1>2, <1>3 DEF InodeT, Ptr

\* Offsets and counts of areas are numbers.
LEMMA AreaType ==
    ASSUME DiskInv, NEW b \in Block
    PROVE  area[b] \in AreaT /\ area[b].next \in Nat \ {0}
  BY DEF DiskInv, AreaT

\* BeginInsert keeps the invariant.
LEMMA BeginInsertStep ==
    ASSUME NEW L \in SUBSET Ino, WholeInv(L), BeginInsert
    PROVE  WholeInv(L)'
  <1>1. PICK r : r = c.copy[InDir].dir
    OBVIOUS
  <1>2. /\ c.pc = "insert" /\ UNCHANGED <<bmap, imap, itab, chain, area, open>> /\ OpenInodes' = OpenInodes
        /\ c' = [[c EXCEPT !.idx = area[r].next]
                    EXCEPT !.pc = "grow", !.root = r, !.need = BlocksFor(2 * area[r].next + 1), !.ret = "dirent"]
    BY <1>1 DEF BeginInsert, Grow, disk, env, OpenInodes
  <1>3. At = "insert" /\ c.op \in Naming
    <2>1. At = "insert"
      BY <1>2 DEF At
    <2> QED
      BY <2>1, PhaseTable DEF WholeInv, PhaseInv
  <1>4. InDir \in L /\ r = itab[InDir].dir /\ r \in Block /\ r # None
    BY <1>1, <1>3, InDirFacts DEF Block, None
  <1>5. PICK k \in Nat : k = area[r].next
    BY <1>4, Given, AreaType
  <1>6. BlocksFor(2 * k + 1) \in Nat
    BY BlocksForFacts
  <1>7. /\ c' \in Frame /\ c'.pc = "grow" /\ SameCall /\ c'.root = r /\ c'.ret = "dirent" /\ c'.idx = k
    <2>1. {"grow", "dirent"} \subseteq Pc /\ r \in Ptr
      BY <1>4 DEF Pc, GrowPc, Ptr
    <2>2. PICK f : f = [c EXCEPT !.idx = k]
      OBVIOUS
    <2>3. f \in Frame /\ f.idx = k /\ f.op = c.op /\ f.dir = c.dir /\ f.name = c.name /\ f.dir2 = c.dir2
          /\ f.name2 = c.name2 /\ f.ino = c.ino /\ f.node = c.node /\ f.end = c.end /\ f.copy = c.copy
      BY <2>2, Given DEF Frame
    <2>4. c' = [f EXCEPT !.pc = "grow", !.root = r, !.need = BlocksFor(2 * k + 1), !.ret = "dirent"]
      BY <1>2, <1>5, <2>2
    <2> QED
      BY <1>6, <2>1, <2>3, <2>4 DEF Frame, SameCall
  <1>8. At' = "grow" /\ c'.op = c.op
    BY <1>7 DEF At, SameCall
  <1>9. /\ InGrow' /\ Inserting' /\ ~Recorded' /\ ~Growing' /\ ~Growing
        /\ (Creating' => Creating) /\ (ChildWritten' => ChildWritten) /\ (Unplaced' => Unplaced)
    BY <1>3, <1>7, <1>8 DEF InGrow, Building, Inserting, Recorded, Creating, ChildWritten, Unplaced, Growing,
                            GrowPc, Naming
  <1>10. TypeInv'
    <2>1. Grounded(r) /\ \A i \in Ino : Grounded(c.copy[i].data) /\ Grounded(c.copy[i].dir)
      BY <1>4, Given DEF DiskInv, FrameInv
    <2>2. FrameInv'
      BY <1>2, <1>7, <2>1, Given DEF FrameInv, Grounded, SameCall
    <2> QED
      BY <1>2, <2>2, Given, DiskStays DEF TypeInv
  <1>11. PhaseInv'
    <2>1. c'.op \in OpsAt(At') /\ c'.ret \in RetsOf(c'.op)
      BY <1>3, <1>7, <1>8, PhaseTable DEF GrowPc, Naming
    <2> QED
      BY <1>7, <1>8, <1>9, <2>1 DEF PhaseInv
  <1>12. AreaInv'
    <2>1. \A b \in Block : Limit(b)' = Limit(b) /\ AreaOk(area[b], Limit(b))
      BY <1>2, <1>7 DEF WholeInv, AreaInv, Limit
    <2>2. \A b \in Block : AreaOk(area[b], Limit(b))'
      BY <1>2, <2>1 DEF AreaOk, Sorted, Distinct, Live, Walk
    <2> QED
      BY <1>2, <1>4, <1>5, <1>7, <1>8, <1>9, <2>2 DEF AreaInv
  <1>13. SameInodes(L) /\ SameKids(L) /\ SameArgs
    BY <1>2, <1>7, SameTable DEF SameCall, SameArgs
  <1>14. NameInv(L)' /\ SizeInv(L)'
    BY <1>2, <1>13, Given, NamesStay, SizesStay DEF WholeInv
  <1>15. CallInv(L)'
    <2>1. WriteOk(L)'
      BY <1>3, <1>8 DEF WriteOk, Naming
    <2>2. NewOk(L)'
      BY <1>2, <1>7, <1>8, <1>9, NewStays DEF WholeInv, CallInv
    <2>3. GoneOk(L)'
      BY <1>3, <1>8 DEF GoneOk, Naming
    <2>4. PlaceOk(L)'
      <3>1. c'.ino = c.ino
        BY <1>7 DEF SameCall
      <3> QED
        BY <1>8, <1>9, <1>13, <3>1, PlaceStays DEF WholeInv, CallInv
    <2>5. DirsOk(L)'
      <3>1. PICK d, n, d2, n2 : d = c.dir /\ n = c.name /\ d2 = c.dir2 /\ n2 = c.name2
        OBVIOUS
      <3>2. Works(L, d, n)' /\ (c.op = "rename" => Works(L, d2, n2)')
        <4>1. Works(L, d, n) /\ (c.op = "rename" => Works(L, d2, n2))
          BY <1>3, <3>1 DEF WholeInv, CallInv, DirsOk
        <4> QED
          BY <1>13, <4>1, WorksStay DEF SameArgs
      <3>3. Works(L, c.dir, c.name)' /\ (c'.op = "rename" => Works(L, c.dir2, c.name2)')
        BY <1>13, <3>1, <3>2 DEF Works, SameArgs
      <3>4. c'.root = itab'[InDir'].dir
        BY <1>2, <1>4, <1>7, <1>13 DEF SameArgs, InDir
      <3> QED
        BY <3>3, <3>4 DEF DirsOk
    <2> QED
      BY <2>1, <2>2, <2>3, <2>4, <2>5 DEF CallInv
  <1>16. BlockInv(L)'
    <2>1. /\ Members(L)' \subseteq Members(L)
          /\ \A i \in Members(L)', f \in Stream : Cur(i, f)' \in {None, Cur(i, f)}
      BY <1>2, <1>7, <1>9, CurStays DEF WholeInv, CallInv
    <2>2. BlockInv(L) /\ chain' = chain
      BY <1>2 DEF WholeInv
    <2>3. \A i \in Members(L)', f \in Stream : Blk(Cur(i, f)) \subseteq bmap'
      BY <1>2, <2>1, <2>2 DEF BlockInv
    <2>4. Held' = {} /\ Held = {} /\ Doomed' = {} /\ Left' = {}
      BY <1>3, <1>8 DEF Held, Doomed, Left, Naming
    <2>5. At' # "prep" /\ At' # "link"
      BY <1>8
    <2> QED
      BY <2>1, <2>2, <2>3, <2>4, <2>5, BlocksStay
  <1> QED
    BY <1>10, <1>11, <1>12, <1>14, <1>15, <1>16 DEF WholeInv

\* FreeInode keeps the invariant: the inode has no name.
LEMMA FreeInodeStep ==
    ASSUME NEW L \in SUBSET Ino, WholeInv(L), FreeInode
    PROVE  WholeInv(L)'
  <1>1. /\ c.pc = "ifree" /\ UNCHANGED <<bmap, itab, chain, area, open>> /\ OpenInodes' = OpenInodes
        /\ imap' = imap \ {c.ino} /\ c' = [c EXCEPT !.pc = "flush", !.cont = "idle"]
    BY DEF FreeInode, env, OpenInodes
  <1>2. c' \in Frame /\ c'.pc = "flush" /\ c'.cont = "idle" /\ SameCall /\ c'.root = c.root
    <2>1. {"flush", "idle"} \subseteq Pc
      BY DEF Pc
    <2> QED
      BY <1>1, <2>1, Given DEF Frame, SameCall
  <1>3. At = "ifree" /\ At' = "idle" /\ c.op \in {"create", "mkdir", "unlink"} /\ c'.op = c.op
    <2>1. At = "ifree" /\ At' = "idle"
      BY <1>1, <1>2 DEF At
    <2> QED
      BY <1>2, <2>1, PhaseTable DEF WholeInv, PhaseInv, SameCall
  <1>4. /\ ~InGrow' /\ ~Building' /\ ~Inserting' /\ ~Recorded' /\ ~Creating' /\ ~Unplaced' /\ ~Growing'
    BY <1>3 DEF InGrow, Building, Inserting, Recorded, Creating, Unplaced, Growing, GrowPc
  <1>5. c.ino \in Ino \ L
    BY <1>3 DEF WholeInv, CallInv, GoneOk
  <1>6. TypeInv'
    <2>1. FrameInv'
      BY <1>1, <1>2, Given, FrameStays DEF SameCall
    <2> QED
      BY <1>1, <2>1, Given, DiskStays DEF TypeInv
  <1>7. PhaseInv'
    <2>1. OpsAt("idle") = Op
      BY DEF OpsAt, GrowPc
    <2>2. c'.op \in OpsAt(At')
      BY <1>2, <1>3, <2>1, Given, FrameFields
    <2> QED
      BY <1>2, <1>3, <1>4, <2>2 DEF PhaseInv
  <1>8. AreaInv'
    BY <1>1, <1>2, <1>3, <1>4, AreasStay DEF WholeInv
  <1>9. SameInodes(L) /\ SameKids(L) /\ SameArgs
    BY <1>1, <1>2, SameTable DEF SameCall, SameArgs
  <1>10. NameInv(L)' /\ SizeInv(L)'
    <2>1. L \subseteq imap'
      BY <1>1, <1>5, Given
    <2> QED
      BY <1>1, <1>9, <2>1, Given, NamesStay, SizesStay DEF WholeInv
  <1>11. CallInv(L)'
    <2>1. WriteOk(L)' /\ NewOk(L)'
      BY <1>3, <1>4 DEF WriteOk, NewOk
    <2>2. GoneOk(L)'
      BY <1>2, <1>5 DEF GoneOk, SameCall
    <2>3. PlaceOk(L)' /\ DirsOk(L)'
      BY <1>3, <1>4, <1>9, DirsStay, PlaceStays DEF WholeInv, CallInv
    <2> QED
      BY <2>1, <2>2, <2>3 DEF CallInv
  <1>12. BlockInv(L)'
    <2>1. /\ Members(L)' \subseteq Members(L)
          /\ \A i \in Members(L)', f \in Stream : Cur(i, f)' \in {None, Cur(i, f)}
      BY <1>1, <1>2, <1>4, CurStays DEF WholeInv, CallInv
    <2>2. BlockInv(L) /\ chain' = chain
      BY <1>1 DEF WholeInv
    <2>3. \A i \in Members(L)', f \in Stream : Blk(Cur(i, f)) \subseteq bmap'
      BY <1>1, <2>1, <2>2 DEF BlockInv
    <2>4. Held' = {} /\ Held = {} /\ Doomed' = {} /\ Left' \subseteq Left
      <3>1. Blk(c.node.data)' = Blk(c'.node.data) /\ Blk(c.node.dir)' = Blk(c'.node.dir)
        BY <1>1 DEF Blk, ChainBlocks, RangeOf
      <3> QED
        BY <1>2, <1>3, <3>1 DEF Held, Doomed, Left, SameCall
    <2>5. At' # "prep" /\ At' # "link"
      BY <1>3
    <2> QED
      BY <2>1, <2>2, <2>3, <2>4, <2>5, BlocksStay
  <1> QED
    BY <1>6, <1>7, <1>8, <1>10, <1>11, <1>12 DEF WholeInv

\* A set of clear bits has a first one.
LEMMA LeastFree ==
    ASSUME NEW N \in Nat, NEW U \in SUBSET (1 .. N), U # 1 .. N
    PROVE  \E b \in (1 .. N) \ U : \A x \in (1 .. N) \ U : b <= x
  <1>1. (1 .. N) \ U \in SUBSET Nat
    OBVIOUS
  <1>2. PICK x \in 1 .. N : x \notin U
    OBVIOUS
  <1>3. (1 .. N) \ U # {}
    BY <1>2
  <1> QED
    BY <1>1, <1>3, LeastNatural

\* nyfs_alloc_inode takes an inode that is free.
LEMMA FirstInodeFree ==
    ASSUME imap \in SUBSET Ino, imap # Ino
    PROVE  FirstInode \in Ino \ imap
  <1>1. \E i \in Ino \ imap : \A x \in Ino \ imap : i <= x
    BY SizeAssumption, LeastFree DEF Ino
  <1> QED
    BY <1>1 DEF FirstInode

\* nyfs_alloc_block takes a block that is free.
LEMMA FirstBlockFree ==
    ASSUME bmap \in SUBSET Block, bmap # Block
    PROVE  FirstFree \in Block \ bmap
  <1>1. \E b \in Block \ bmap : \A x \in Block \ bmap : b <= x
    BY SizeAssumption, LeastFree DEF Block
  <1> QED
    BY <1>1 DEF FirstFree

\* A stream that a step leaves as it was, or gives up.
LEMMA KeptStream ==
    ASSUME NEW L \in SUBSET Ino, BlockInv(L), chain' = chain, NEW i \in Members(L), NEW f \in Stream,
           Cur(i, f)' \in {None, Cur(i, f)}, Blk(Cur(i, f)) \subseteq bmap',
           Blk(Cur(i, f)) \cap (Held \cup Doomed \cup Left)' = {}
    PROVE  /\ Once(Cur(i, f))' /\ Blk(Cur(i, f))' \subseteq bmap'
           /\ Blk(Cur(i, f))' \cap (Held \cup Doomed \cup Left)' = {} /\ Blk(Cur(i, f))' \subseteq Blk(Cur(i, f))
  <1>1. PICK r, s : r = Cur(i, f) /\ s = Cur(i, f)'
    OBVIOUS
  <1>2. s \in {None, r} /\ Blk(r) \subseteq bmap' /\ Once(r)
    BY <1>1 DEF BlockInv
  <1>3. Blk(s) \in {{}, Blk(r)} /\ Once(s)
    BY <1>2, NoBlocks
  <1>4. Blk(s)' = Blk(s) /\ (Once(s)' <=> Once(s))
    BY SameChain
  <1>5. Blk(Cur(i, f))' = Blk(s)' /\ (Once(Cur(i, f))' <=> Once(s)')
    BY <1>1 DEF Blk, Once, ChainBlocks, RangeOf
  <1> QED
    BY <1>1, <1>2, <1>3, <1>4, <1>5

\* A stream without a root has no blocks after the step either.
LEMMA EmptyStream ==
    ASSUME NEW i, NEW f, Cur(i, f)' = None
    PROVE  Once(Cur(i, f))' /\ Blk(Cur(i, f))' = {}
  <1>1. ChainBlocks(Cur(i, f))' = <<>>
    BY DEF ChainBlocks
  <1>2. Blk(Cur(i, f))' = RangeOf(<<>>)
    BY <1>1 DEF Blk, RangeOf
  <1>3. Blk(Cur(i, f))' = {}
    BY <1>2 DEF RangeOf
  <1>4. Cardinality({}) = 0 /\ Len(<<>>) = 0
    BY FS_EmptySet
  <1> QED
    BY <1>1, <1>3, <1>4 DEF Once

\* AllocInode keeps the invariant.
LEMMA AllocInodeStep ==
    ASSUME NEW L \in SUBSET Ino, WholeInv(L), AllocInode
    PROVE  WholeInv(L)'
  <1>1. PICK i, new : i = FirstInode /\ new = [NoInode EXCEPT !.type = IF c.op = "mkdir" THEN "DIR" ELSE "FILE"]
    OBVIOUS
  <1>2. /\ c.pc = "ialloc" /\ UNCHANGED <<bmap, itab, chain, area, open>> /\ OpenInodes' = OpenInodes
        /\ imap # Ino /\ imap' = imap \cup {i}
        /\ c' = [c EXCEPT !.pc = "flush", !.ino = i, !.node = new,
                          !.cont = IF c.op = "mkdir" THEN "mkarea" ELSE "child"]
    BY <1>1 DEF AllocInode, OpenInodes
  <1>3. At = "ialloc" /\ c.op \in {"create", "mkdir"}
    <2>1. At = "ialloc"
      BY <1>2 DEF At
    <2> QED
      BY <2>1, PhaseTable DEF WholeInv, PhaseInv
  <1>4. i \in Ino \ imap /\ i \notin L
    BY <1>1, <1>2, Given, FirstInodeFree
  <1>5. /\ new \in InodeT /\ new.type = (IF c.op = "mkdir" THEN "DIR" ELSE "FILE") /\ new.data = None
        /\ new.dir = None /\ new.size = 0
    BY <1>1 DEF NoInode, InodeT, Ptr
  <1>6. /\ c' \in Frame /\ c'.pc = "flush" /\ c'.cont = (IF c.op = "mkdir" THEN "mkarea" ELSE "child")
        /\ c'.ino = i /\ c'.node = new /\ SameArgs /\ c'.root = c.root
    <2>1. PICK p : p = IF c.op = "mkdir" THEN "mkarea" ELSE "child"
      OBVIOUS
    <2>2. "flush" \in Pc /\ p \in Pc
      BY <2>1 DEF Pc
    <2>3. PICK e : e = [c EXCEPT !.pc = "flush", !.cont = p]
      OBVIOUS
    <2>4. /\ e \in Frame /\ e.pc = "flush" /\ e.cont = p /\ e.op = c.op /\ e.dir = c.dir /\ e.name = c.name
          /\ e.dir2 = c.dir2 /\ e.name2 = c.name2 /\ e.copy = c.copy /\ e.root = c.root
      BY <2>2, <2>3, Given DEF Frame
    <2>5. c' = [e EXCEPT !.ino = i, !.node = new]
      BY <1>2, <2>1, <2>3, Given DEF Frame
    <2> QED
      BY <1>4, <1>5, <2>1, <2>4, <2>5 DEF Frame, SameArgs
  <1>7. At' = (IF c.op = "mkdir" THEN "mkarea" ELSE "child") /\ c'.op = c.op
    BY <1>6 DEF At, SameArgs
  <1>8. /\ ~InGrow' /\ ~Building' /\ ~Inserting' /\ ~Recorded' /\ Creating' /\ ~ChildWritten' /\ ~Unplaced'
        /\ ~Creating
    BY <1>3, <1>7 DEF InGrow, Building, Inserting, Recorded, Creating, ChildWritten, Unplaced, GrowPc
  <1>9. TypeInv'
    <2>1. FrameInv'
      BY <1>2, <1>5, <1>6, Given DEF FrameInv, Grounded, SameArgs
    <2> QED
      BY <1>2, <1>4, <2>1, Given, DiskStays DEF TypeInv
  <1>10. PhaseInv'
    <2>1. c'.op \in OpsAt(At')
      BY <1>3, <1>7, PhaseTable
    <2> QED
      BY <1>6, <1>7, <1>8, <2>1 DEF PhaseInv
  <1>11. AreaInv'
    <2>1. At' # "header" /\ c'.pc # "header" /\ c.pc # "header"
      BY <1>2, <1>6, <1>7
    <2> QED
      BY <1>2, <1>8, <2>1, AreasStay DEF WholeInv
  <1>12. SameInodes(L) /\ SameKids(L)
    BY <1>2, SameTable
  <1>13. NameInv(L)' /\ SizeInv(L)'
    <2>1. L \subseteq imap'
      BY <1>2, Given
    <2> QED
      BY <1>2, <1>12, <2>1, Given, NamesStay, SizesStay DEF WholeInv
  <1>14. CallInv(L)'
    <2>1. WriteOk(L)' /\ GoneOk(L)'
      BY <1>3, <1>7 DEF WriteOk, GoneOk
    <2>2. NewOk(L)'
      <3>1. c'.ino \in imap' \ L /\ c'.node.data = None /\ c'.node.size = 0 /\ c'.node.dir = None
        BY <1>2, <1>4, <1>5, <1>6
      <3>2. c'.node.type = (IF c'.op = "mkdir" THEN "DIR" ELSE "FILE")
        BY <1>5, <1>6, <1>7
      <3> QED
        BY <1>7, <1>8, <3>1, <3>2 DEF NewOk
    <2>3. DirsOk(L)'
      BY <1>6, <1>8, <1>12, DirsStay DEF WholeInv, CallInv
    <2>4. PlaceOk(L)'
      <3>1. At' # "unslot" /\ At' # "ialloc"
        BY <1>7
      <3> QED
        BY <1>3, <1>6, <1>8, <1>12, <3>1, PlaceStays DEF WholeInv, CallInv
    <2> QED
      BY <2>1, <2>2, <2>3, <2>4 DEF CallInv
  <1>15. BlockInv(L)'
    <2>1. Members(L) = L /\ Members(L)' = L \cup {i}
      BY <1>6, <1>8 DEF Members
    <2>2. BlockInv(L) /\ chain' = chain /\ bmap' = bmap
      BY <1>2 DEF WholeInv
    <2>3. Held' = {} /\ Doomed' = {} /\ Left' = {}
      BY <1>3, <1>7 DEF Held, Doomed, Left
    <2>4. ASSUME NEW j \in L, NEW f \in Stream
          PROVE  /\ Once(Cur(j, f))' /\ Blk(Cur(j, f))' \subseteq bmap'
                 /\ Blk(Cur(j, f))' \cap (Held \cup Doomed \cup Left)' = {} /\ Blk(Cur(j, f))' \subseteq Blk(Cur(j, f))
      <3>1. Cur(j, f)' = itab[j][f] /\ Cur(j, f) = itab[j][f]
        BY <1>2, <1>3, <1>4, <1>6, <1>7, <1>8, <2>4 DEF Cur
      <3>2. Blk(Cur(j, f)) \subseteq bmap'
        BY <2>1, <2>2, <2>4 DEF BlockInv
      <3> QED
        BY <2>1, <2>2, <2>3, <3>1, <3>2, KeptStream
    <2>5. ASSUME NEW f \in Stream PROVE Once(Cur(i, f))' /\ Blk(Cur(i, f))' = {}
      <3>1. Cur(i, f)' = None
        BY <1>5, <1>6, <1>8, <2>5 DEF Cur, Stream
      <3> QED
        BY <3>1, EmptyStream
    <2>6. \A j \in Members(L)', f \in Stream :
             Once(Cur(j, f))' /\ Blk(Cur(j, f))' \subseteq bmap' /\ Blk(Cur(j, f))' \cap (Held \cup Doomed \cup Left)' = {}
      BY <2>1, <2>4, <2>5
    <2>7. \A j \in Members(L)', f \in Stream :
             \/ Blk(Cur(j, f))' = {}
             \/ j \in Members(L) /\ Blk(Cur(j, f))' \subseteq Blk(Cur(j, f))
      BY <2>1, <2>4, <2>5
    <2>8. At' # "prep" /\ At' # "link" /\ Held' \subseteq bmap'
      BY <1>7, <2>3
    <2> QED
      BY <2>2, <2>6, <2>7, <2>8, StreamsStay
  <1> QED
    BY <1>9, <1>10, <1>11, <1>13, <1>14, <1>15 DEF WholeInv

\* WriteBuckets keeps the invariant.
LEMMA WriteBucketsStep ==
    ASSUME NEW L \in SUBSET Ino, WholeInv(L), WriteBuckets
    PROVE  WholeInv(L)'
  <1>1. /\ c.pc = "buckets" /\ UNCHANGED <<bmap, imap, itab, chain, area, open>> /\ OpenInodes' = OpenInodes
        /\ c' = [c EXCEPT !.pc = "child", !.node.dir = c.root]
    BY DEF WriteBuckets, disk, env, OpenInodes
  <1>2. At = "buckets" /\ c.op = "mkdir" /\ c.ret = "buckets" /\ c.root # None
    <2>1. At = "buckets"
      BY <1>1 DEF At
    <2> QED
      BY <2>1, PhaseTable DEF WholeInv, PhaseInv
  <1>3. PICK nd : nd = [c.node EXCEPT !.dir = c.root]
    OBVIOUS
  <1>4. nd \in InodeT /\ nd.type = c.node.type /\ nd.data = c.node.data /\ nd.size = c.node.size /\ nd.dir = c.root
    BY <1>3, Given, FrameFields DEF InodeT
  <1>5. /\ c' \in Frame /\ c'.pc = "child" /\ SameArgs /\ c'.root = c.root /\ c'.node = nd /\ c'.ino = c.ino
    <2>1. "child" \in Pc
      BY DEF Pc
    <2>2. c' = [c EXCEPT !.pc = "child", !.node = nd]
      BY <1>1, <1>3, Given DEF Frame
    <2> QED
      BY <1>4, <2>1, <2>2, Given DEF Frame, SameArgs
  <1>6. At' = "child" /\ c'.op = "mkdir"
    BY <1>2, <1>5 DEF At, SameArgs
  <1>7. /\ ~InGrow' /\ ~Building' /\ ~Inserting' /\ ~Recorded' /\ Creating' /\ ~ChildWritten' /\ ~Unplaced'
        /\ Creating /\ Building
    BY <1>2, <1>6 DEF InGrow, Building, Inserting, Recorded, Creating, ChildWritten, Unplaced, GrowPc
  <1>8. TypeInv'
    <2>1. FrameInv'
      BY <1>1, <1>4, <1>5, Given DEF FrameInv, Grounded, SameArgs
    <2> QED
      BY <1>1, <2>1, Given, DiskStays DEF TypeInv
  <1>9. PhaseInv'
    <2>1. c'.op \in OpsAt(At')
      BY <1>6, PhaseTable
    <2> QED
      BY <1>5, <1>6, <1>7, <2>1 DEF PhaseInv
  <1>10. AreaInv'
    BY <1>1, <1>5, <1>6, <1>7, AreasStay DEF WholeInv
  <1>11. SameInodes(L) /\ SameKids(L)
    BY <1>1, SameTable
  <1>12. NameInv(L)' /\ SizeInv(L)'
    BY <1>1, <1>11, Given, NamesStay, SizesStay DEF WholeInv
  <1>13. CallInv(L)'
    <2>1. WriteOk(L)' /\ GoneOk(L)'
      BY <1>6 DEF WriteOk, GoneOk
    <2>2. NewOk(L)'
      <3>1. NewOk(L)
        BY DEF WholeInv, CallInv
      <3>2. /\ c.ino \in imap \ L /\ c.node.type = "DIR" /\ c.node.data = None /\ c.node.size = 0
            /\ area[c.root] = EmptyArea
        BY <1>2, <1>7, <3>1 DEF NewOk
      <3>3. /\ c'.ino \in imap' \ L /\ c'.node.type = "DIR" /\ c'.node.data = None /\ c'.node.size = 0
            /\ c'.node.dir # None /\ area'[c'.node.dir] = EmptyArea
        BY <1>1, <1>2, <1>4, <1>5, <3>2
      <3> QED
        BY <1>6, <1>7, <3>3 DEF NewOk, EmptyArea
    <2>3. DirsOk(L)'
      BY <1>5, <1>7, <1>11, DirsStay DEF WholeInv, CallInv
    <2>4. PlaceOk(L)'
      BY <1>5, <1>6, <1>7, <1>11, PlaceStays DEF WholeInv, CallInv
    <2> QED
      BY <2>1, <2>2, <2>3, <2>4 DEF CallInv
  <1>14. BlockInv(L)'
    <2>1. Members(L)' = Members(L)
      BY <1>5, <1>7 DEF Members
    <2>2. ASSUME NEW i \in Members(L), NEW f \in Stream PROVE Cur(i, f)' = Cur(i, f)
      <3>1. CASE i = c.ino
        BY <1>2, <1>4, <1>5, <1>7, <3>1 DEF Cur, Stream
      <3>2. CASE i # c.ino
        BY <1>1, <1>5, <3>2 DEF Cur
      <3> QED
        BY <3>1, <3>2
    <2>3. BlockInv(L) /\ chain' = chain
      BY <1>1 DEF WholeInv
    <2>4. \A i \in Members(L)', f \in Stream : Blk(Cur(i, f)) \subseteq bmap'
      BY <1>1, <2>1, <2>3 DEF BlockInv
    <2>5. Held' = {} /\ Held = {} /\ Doomed' = {} /\ Left' = {}
      BY <1>2, <1>6 DEF Held, Doomed, Left
    <2>6. At' # "prep" /\ At' # "link"
      BY <1>6
    <2> QED
      BY <2>1, <2>2, <2>3, <2>4, <2>5, <2>6, BlocksStay
  <1> QED
    BY <1>8, <1>9, <1>10, <1>12, <1>13, <1>14 DEF WholeInv

\* An inode of the table is replaced.
LEMMA InodeWritten ==
    ASSUME DiskInv, NEW i \in Ino, NEW n \in InodeT, Grounded(n.data), Grounded(n.dir),
           itab' = [itab EXCEPT ![i] = n], UNCHANGED <<bmap, imap, chain, area>>
    PROVE  DiskInv'
  <1>1. itab' \in [Ino -> InodeT] /\ itab'[i] = n /\ \A j \in Ino : j # i => itab'[j] = itab[j]
    BY DEF DiskInv
  <1>2. \A j \in Ino : Grounded(itab'[j].data) /\ Grounded(itab'[j].dir)
    BY <1>1 DEF DiskInv
  <1>3. \A j \in Ino : Grounded(itab[j].data)' /\ Grounded(itab[j].dir)'
    BY <1>2 DEF Grounded
  <1> QED
    BY <1>1, <1>3 DEF DiskInv

\* WriteChild keeps the invariant.
LEMMA WriteChildStep ==
    ASSUME NEW L \in SUBSET Ino, WholeInv(L), WriteChild
    PROVE  WholeInv(L)'
  <1>1. /\ c.pc = "child" /\ UNCHANGED <<bmap, imap, chain, area, open>> /\ OpenInodes' = OpenInodes
        /\ itab' = [itab EXCEPT ![c.ino] = c.node] /\ c' = [c EXCEPT !.pc = "insert"]
    BY DEF WriteChild, Goto, env, OpenInodes
  <1>2. At = "child" /\ c.op \in {"create", "mkdir"}
    <2>1. At = "child"
      BY <1>1 DEF At
    <2> QED
      BY <2>1, PhaseTable DEF WholeInv, PhaseInv
  <1>3. /\ c' \in Frame /\ c'.pc = "insert" /\ SameCall /\ SameArgs /\ c'.root = c.root
    <2>1. "insert" \in Pc
      BY DEF Pc
    <2> QED
      BY <1>1, <2>1, Given, GotoFacts DEF SameCall, SameArgs
  <1>4. At' = "insert" /\ c'.op = c.op /\ c'.ino = c.ino /\ c'.node = c.node
    BY <1>3 DEF At, SameCall
  <1>5. /\ ~InGrow' /\ ~Building' /\ ~Building /\ ~Inserting' /\ ~Recorded' /\ Creating' /\ ChildWritten' /\ ~Unplaced'
        /\ Creating
    BY <1>2, <1>4 DEF InGrow, Building, Inserting, Recorded, Creating, ChildWritten, Unplaced, GrowPc
  <1>6. /\ c.ino \in imap \ L /\ c.ino \in Ino
        /\ c.node.type = (IF c.op = "mkdir" THEN "DIR" ELSE "FILE")
        /\ c.node.data = None /\ c.node.size = 0
        /\ c.op = "create" => c.node.dir = None
        /\ c.op = "mkdir" => c.node.dir # None /\ area[c.node.dir] = EmptyArea
    BY <1>2, <1>5, Given DEF WholeInv, CallInv, NewOk
  <1>7. /\ itab'[c.ino] = c.node /\ \A j \in Ino : j # c.ino => itab'[j] = itab[j]
    BY <1>1, <1>6, Given DEF DiskInv
  <1>8. TypeInv'
    <2>1. DiskInv'
      BY <1>1, <1>6, Given, FrameFields, InodeWritten DEF FrameInv
    <2>2. FrameInv'
      BY <1>1, <1>3, Given, FrameStays DEF SameCall
    <2> QED
      BY <2>1, <2>2 DEF TypeInv
  <1>9. PhaseInv'
    <2>1. c'.op \in OpsAt(At')
      BY <1>2, <1>4, PhaseTable DEF Naming
    <2> QED
      BY <1>3, <1>4, <1>5, <2>1 DEF PhaseInv
  <1>10. AreaInv'
    BY <1>1, <1>3, <1>4, <1>5, AreasStay DEF WholeInv
  <1>11. SameInodes(L) /\ SameKids(L)
    <2>1. SameInodes(L)
      BY <1>6, <1>7 DEF SameInodes
    <2> QED
      BY <1>1, <2>1, SameTable
  <1>12. NameInv(L)' /\ SizeInv(L)'
    BY <1>1, <1>11, Given, NamesStay, SizesStay DEF WholeInv
  <1>13. CallInv(L)'
    <2>1. WriteOk(L)' /\ GoneOk(L)'
      BY <1>2, <1>4 DEF WriteOk, GoneOk
    <2>2. NewOk(L)'
      <3>1. /\ c'.ino \in imap' \ L
            /\ c'.node.type = (IF c'.op = "mkdir" THEN "DIR" ELSE "FILE")
            /\ c'.node.data = None /\ c'.node.size = 0
            /\ c'.op = "create" => c'.node.dir = None
            /\ itab'[c'.ino] = c'.node
            /\ c'.op = "mkdir" => c'.node.dir # None /\ area'[c'.node.dir] = EmptyArea
        BY <1>1, <1>4, <1>6, <1>7
      <3> QED
        BY <1>4, <1>5, <3>1 DEF NewOk, EmptyArea
    <2>3. DirsOk(L)'
      BY <1>3, <1>5, <1>11, DirsStay DEF WholeInv, CallInv
    <2>4. PlaceOk(L)'
      BY <1>3, <1>4, <1>5, <1>11, PlaceStays DEF WholeInv, CallInv
    <2> QED
      BY <2>1, <2>2, <2>3, <2>4 DEF CallInv
  <1>14. BlockInv(L)'
    <2>1. Members(L)' = Members(L)
      BY <1>4, <1>5 DEF Members
    <2>2. ASSUME NEW i \in Members(L), NEW f \in Stream PROVE Cur(i, f)' = Cur(i, f)
      <3>1. CASE i = c.ino
        BY <1>4, <1>5, <3>1 DEF Cur, Stream
      <3>2. CASE i # c.ino
        <4>1. i \in Ino
          BY <1>6, <2>2 DEF Members
        <4> QED
          BY <1>2, <1>4, <1>7, <3>2, <4>1 DEF Cur
      <3> QED
        BY <3>1, <3>2
    <2>3. BlockInv(L) /\ chain' = chain
      BY <1>1 DEF WholeInv
    <2>4. \A i \in Members(L)', f \in Stream : Blk(Cur(i, f)) \subseteq bmap'
      BY <1>1, <2>1, <2>3 DEF BlockInv
    <2>5. Held' = {} /\ Held = {} /\ Doomed' = {} /\ Left' = {}
      BY <1>2, <1>4 DEF Held, Doomed, Left
    <2>6. At' # "prep" /\ At' # "link"
      BY <1>4
    <2> QED
      BY <2>1, <2>2, <2>3, <2>4, <2>5, <2>6, BlocksStay
  <1> QED
    BY <1>8, <1>9, <1>10, <1>12, <1>13, <1>14 DEF WholeInv

\* The copy of a directory's inode differs in the number of entries only.
LEMMA CopyWritten ==
    ASSUME NEW L \in SUBSET Ino, WholeInv(L), NEW d, NEW n, Works(L, d, n),
           itab' = [itab EXCEPT ![d] = c.copy[d]], UNCHANGED <<bmap, imap, chain, area>>
    PROVE  DiskInv' /\ SameInodes(L)
  <1>1. d \in Ino /\ c.copy[d] \in InodeT /\ Grounded(c.copy[d].data) /\ Grounded(c.copy[d].dir)
    BY Given, FrameFields DEF FrameInv, Works
  <1>2. DiskInv'
    BY <1>1, Given, InodeWritten
  <1>3. itab'[d] = c.copy[d] /\ \A j \in Ino : j # d => itab'[j] = itab[j]
    BY <1>1, Given DEF DiskInv
  <1>4. SameInodes(L)
    BY <1>3 DEF SameInodes, Works, IsDir
  <1> QED
    BY <1>2, <1>4

\* A rename or an unlink goes on when it has written the directory's inode.
LEMMA DirGoesOn ==
    ASSUME NEW L \in SUBSET Ino, WholeInv(L), DiskInv', SameInodes(L), UNCHANGED <<bmap, imap, chain, area, open>>,
           c.pc = "dinode", c' \in Frame, SameCall, c'.root = c.root,
           \/ c.op = "rename" /\ c'.pc = "dinode2"
           \/ c.op = "unlink" /\ c'.pc = "free" /\ RangeOf(c'.todo) \subseteq Blk(c.node.dir)
    PROVE  WholeInv(L)'
  <1>1. At = "dinode" /\ c'.op = c.op /\ OpenInodes' = OpenInodes /\ SameArgs /\ c'.ino = c.ino /\ c'.node = c.node
    BY DEF At, SameCall, SameArgs, OpenInodes
  <1>2. At' = c'.pc
    BY DEF At
  <1>3. /\ ~InGrow' /\ ~Building' /\ ~Inserting' /\ ~Recorded' /\ ~Creating' /\ ~Unplaced' /\ ~Creating
    BY <1>1, <1>2 DEF InGrow, Building, Inserting, Recorded, Creating, Unplaced, GrowPc
  <1>4. TypeInv'
    <2>1. FrameInv'
      BY Given, FrameStays DEF SameCall
    <2> QED
      BY <2>1 DEF TypeInv
  <1>5. PhaseInv'
    <2>1. c'.op \in OpsAt(At')
      BY <1>1, <1>2, PhaseTable
    <2> QED
      BY <1>2, <1>3, <2>1 DEF PhaseInv
  <1>6. AreaInv'
    BY <1>2, <1>3, AreasStay DEF WholeInv
  <1>7. SameKids(L)
    BY SameTable
  <1>8. NameInv(L)' /\ SizeInv(L)'
    BY <1>1, <1>7, Given, NamesStay, SizesStay DEF WholeInv
  <1>9. CallInv(L)'
    <2>1. WriteOk(L)' /\ NewOk(L)' /\ PlaceOk(L)'
      BY <1>1, <1>2, <1>3 DEF WriteOk, NewOk, PlaceOk
    <2>2. GoneOk(L)'
      BY <1>1, <1>2 DEF GoneOk, WholeInv, CallInv
    <2>3. DirsOk(L)'
      BY <1>1, <1>3, DirsStay DEF WholeInv, CallInv
    <2> QED
      BY <2>1, <2>2, <2>3 DEF CallInv
  <1>10. BlockInv(L)'
    <2>1. Members(L)' = L /\ Members(L) = L
      BY <1>3 DEF Members
    <2>2. \A i \in L, f \in Stream : Cur(i, f)' = Cur(i, f)
      BY <1>1, <1>3 DEF Cur, SameInodes, Stream
    <2>3. BlockInv(L)
      BY DEF WholeInv
    <2>4. \A i \in L, f \in Stream : Blk(Cur(i, f)) \subseteq bmap'
      BY <2>1, <2>3 DEF BlockInv
    <2>5. Held' = {} /\ Held = {}
      BY <1>1, <1>2 DEF Held
    <2>6. Doomed' \subseteq Left /\ Left' = Left
      <3>1. PICK r, s : r = c.node.data /\ s = c.node.dir
        OBVIOUS
      <3>2. Blk(r)' = Blk(r) /\ Blk(s)' = Blk(s)
        BY SameChain
      <3>3. c'.node.data = r /\ c'.node.dir = s
        BY <1>1, <3>1
      <3>4. Blk(c.node.data)' = Blk(r)' /\ Blk(c.node.dir)' = Blk(s)'
        BY <3>3 DEF Blk, RangeOf, ChainBlocks
      <3>5. Left' = Left
        BY <1>1, <1>2, <3>1, <3>2, <3>4 DEF Left
      <3>6. Doomed' \subseteq Left
        BY <1>1, <1>2 DEF Doomed, Left, RangeOf
      <3> QED
        BY <3>5, <3>6
    <2>7. At' # "prep" /\ At' # "link"
      BY <1>2
    <2> QED
      BY <2>1, <2>2, <2>3, <2>4, <2>5, <2>6, <2>7, BlocksStay
  <1> QED
    BY <1>4, <1>5, <1>6, <1>8, <1>9, <1>10 DEF WholeInv

\* WriteDirInode keeps the invariant.
LEMMA WriteDirInodeStep ==
    ASSUME NEW L \in SUBSET Ino, WholeInv(L), WriteDirInode
    PROVE  WholeInv(L)'
  <1>1. /\ c.pc = "dinode" /\ UNCHANGED <<bmap, imap, chain, area, open>> /\ OpenInodes' = OpenInodes
        /\ itab' = [itab EXCEPT ![c.dir] = c.copy[c.dir]]
    BY DEF WriteDirInode, env, OpenInodes
  <1>2. c.op \in Naming \cup {"unlink"}
    <2>1. At = "dinode"
      BY <1>1 DEF At
    <2> QED
      BY <2>1, PhaseTable DEF WholeInv, PhaseInv
  <1>3. DiskInv' /\ SameInodes(L)
    <2>1. Works(L, c.dir, c.name)
      BY <1>2 DEF WholeInv, CallInv, DirsOk
    <2> QED
      BY <1>1, <2>1, CopyWritten
  <1>4. CASE c' = NoCall
    BY <1>1, <1>3, <1>4, Given, LastStep
  <1>5. CASE c.op = "rename" /\ c' = [c EXCEPT !.pc = "dinode2"]
    <2>1. "dinode2" \in Pc
      BY DEF Pc
    <2> QED
      BY <1>1, <1>3, <1>5, <2>1, Given, GotoFacts, DirGoesOn
  <1>6. CASE c.op = "unlink" /\ c' = [c EXCEPT !.pc = "free", !.todo = ChainBlocks(c.node.dir)]
    <2>1. PICK t : t = ChainBlocks(c.node.dir)
      OBVIOUS
    <2>2. t \in Seq(Block) /\ RangeOf(t) = Blk(c.node.dir) /\ "free" \in Pc
      <3>1. c.node.dir \in Ptr
        BY Given, FrameFields DEF InodeT
      <3> QED
        BY <2>1, <3>1, Given, BlocksType DEF Blk, Pc
    <2>3. c' \in Frame /\ c'.pc = "free" /\ c'.todo = t /\ SameCall /\ c'.root = c.root
      BY <1>6, <2>1, <2>2, Given DEF Frame, SameCall
    <2> QED
      BY <1>1, <1>3, <1>6, <2>2, <2>3, DirGoesOn
  <1>7. \/ c' = NoCall
        \/ c.op = "rename" /\ c' = [c EXCEPT !.pc = "dinode2"]
        \/ c.op = "unlink" /\ c' = [c EXCEPT !.pc = "free", !.todo = ChainBlocks(c.node.dir)]
    BY DEF WriteDirInode, Goto
  <1> QED
    BY <1>4, <1>5, <1>6, <1>7

\* WriteDirInode2 keeps the invariant.
LEMMA WriteDirInode2Step ==
    ASSUME NEW L \in SUBSET Ino, WholeInv(L), WriteDirInode2
    PROVE  WholeInv(L)'
  <1>1. /\ c.pc = "dinode2" /\ UNCHANGED <<bmap, imap, chain, area, open>> /\ OpenInodes' = OpenInodes
        /\ itab' = [itab EXCEPT ![c.dir2] = c.copy[c.dir2]] /\ c' = NoCall
    BY DEF WriteDirInode2, env, OpenInodes
  <1>2. c.op = "rename"
    <2>1. At = "dinode2"
      BY <1>1 DEF At
    <2> QED
      BY <2>1, PhaseTable DEF WholeInv, PhaseInv
  <1>3. DiskInv' /\ SameInodes(L)
    <2>1. Works(L, c.dir2, c.name2)
      BY <1>2 DEF WholeInv, CallInv, DirsOk
    <2> QED
      BY <1>1, <2>1, CopyWritten
  <1> QED
    BY <1>1, <1>3, Given, LastStep

\* Multiplication keeps the order.
LEMMA TimesMonotone ==
    ASSUME NEW a \in Nat, NEW b \in Nat, NEW k \in Nat, a <= b
    PROVE  a * k <= b * k
  <1>1. PICK e \in Nat : b = a + e
    <2>1. b - a \in Nat /\ b = a + (b - a)
      OBVIOUS
    <2> QED
      BY <2>1
  <1>2. (a + e) * k = a * k + e * k
    OBVIOUS
  <1>3. a * k \in Nat /\ e * k \in Nat
    OBVIOUS
  <1>4. b * k = a * k + e * k
    BY <1>1, <1>2
  <1> QED
    BY <1>3, <1>4

\* WriteInode keeps the invariant: the stream has grown before the size does.
LEMMA WriteInodeStep ==
    ASSUME NEW L \in SUBSET Ino, WholeInv(L), WriteInode
    PROVE  WholeInv(L)'
  <1>1. PICK nd : nd = [c.node EXCEPT !.data = c.root, !.size = IF c.end > @ THEN c.end ELSE @]
    OBVIOUS
  <1>2. /\ c.pc = "inode" /\ UNCHANGED <<bmap, imap, chain, area, open>> /\ OpenInodes' = OpenInodes
        /\ itab' = [itab EXCEPT ![c.ino] = nd] /\ c' = NoCall
    BY <1>1 DEF WriteInode, env, OpenInodes
  <1>3. At = "inode" /\ c.op = "write"
    <2>1. At = "inode"
      BY <1>2 DEF At
    <2> QED
      BY <2>1, PhaseTable DEF WholeInv, PhaseInv
  <1>4. Building /\ ~Creating
    BY <1>3 DEF Building, Creating
  <1>5. /\ c.ino \in L /\ c.node = itab[c.ino] /\ c.node.data \in {None, c.root}
        /\ Total(c.root) >= BlocksFor(c.end)
    BY <1>3, <1>4 DEF WholeInv, CallInv, WriteOk
  <1>6. c.root \in Ptr /\ c.end \in Nat /\ c.node \in InodeT /\ c.node.size \in Nat
    BY Given, FrameFields DEF InodeT
  <1>7. /\ nd \in InodeT /\ nd.type = c.node.type /\ nd.dir = c.node.dir /\ nd.data = c.root
        /\ nd.size = (IF c.end > c.node.size THEN c.end ELSE c.node.size)
    BY <1>1, <1>6 DEF InodeT
  <1>8. itab'[c.ino] = nd /\ \A j \in Ino : j # c.ino => itab'[j] = itab[j]
    BY <1>2, <1>5, Given DEF DiskInv
  <1>9. DiskInv'
    <2>1. Grounded(nd.data) /\ Grounded(nd.dir)
      BY <1>7, Given DEF FrameInv
    <2> QED
      BY <1>2, <1>5, <1>7, <2>1, Given, InodeWritten
  <1>10. TypeInv' /\ PhaseInv' /\ CallInv(L)'
    BY <1>2, <1>9, NoCallInv DEF TypeInv
  <1>11. AreaInv'
    BY <1>2, NoCallFacts, AreasStay DEF WholeInv
  <1>12. SameDirs(L)
    BY <1>5, <1>7, <1>8 DEF SameDirs
  <1>13. NameInv(L)'
    <2>1. SameKids(L)
      BY <1>2, <1>12, SameTable
    <2> QED
      BY <1>2, <1>12, <2>1, Given, NamesKeep DEF WholeInv
  <1>14. SizeInv(L)'
    <2> SUFFICES ASSUME NEW i \in L PROVE itab'[i].size <= Total(itab[i].data)' * BlockUnits
      BY DEF SizeInv
    <2>1. PICK r : r = itab'[i].data
      OBVIOUS
    <2>2. Total(itab[i].data)' = Total(r)
      <3>1. Total(itab[i].data)' = Total(r)'
        BY <2>1 DEF Total
      <3> QED
        BY <1>2, <3>1, SameChain
    <2>3. itab[i].size <= Total(itab[i].data) * BlockUnits
      BY DEF WholeInv, SizeInv
    <2>4. CASE i # c.ino
      BY <1>8, <2>1, <2>2, <2>3, <2>4
    <2>5. CASE i = c.ino
      <3>1. r = c.root /\ Total(r) \in Nat /\ Total(r) * BlockUnits \in Nat
        <4>1. r = c.root
          BY <1>7, <1>8, <2>1, <2>5
        <4> QED
          BY <1>6, <4>1, Given, BlocksType, SizeAssumption
      <3>2. c.end <= Total(r) * BlockUnits
        <4>1. BlocksFor(c.end) \in Nat /\ c.end <= BlocksFor(c.end) * BlockUnits
          BY <1>6, BlocksForFacts
        <4>2. BlocksFor(c.end) * BlockUnits <= Total(r) * BlockUnits
          BY <1>5, <3>1, <4>1, TimesMonotone, SizeAssumption
        <4>3. BlocksFor(c.end) * BlockUnits \in Nat
          BY <4>1, SizeAssumption
        <4> QED
          BY <1>6, <3>1, <4>1, <4>2, <4>3
      <3>3. c.node.size <= Total(r) * BlockUnits
        <4>1. CASE c.node.data = c.root
          BY <1>5, <2>3, <2>5, <3>1, <4>1
        <4>2. CASE c.node.data = None
          <5>1. Total(None) = 0 /\ 0 * BlockUnits = 0
            BY NoBlocks, SizeAssumption
          <5>2. c.node.size <= 0
            BY <1>5, <2>3, <2>5, <4>2, <5>1
          <5> QED
            BY <1>6, <3>1, <5>2
        <4> QED
          BY <1>5, <4>1, <4>2
      <3> QED
        BY <1>7, <1>8, <2>2, <2>5, <3>2, <3>3
    <2> QED
      BY <2>4, <2>5
  <1>15. BlockInv(L)'
    <2>1. BlockInv(L) /\ chain' = chain /\ Members(L)' = L /\ Members(L) = L
      BY <1>2, <1>4, NoCallInv DEF WholeInv, Members
    <2>2. ASSUME NEW i \in L, NEW f \in Stream PROVE Cur(i, f)' = Cur(i, f)
      <3>1. Cur(i, f)' = itab'[i][f]
        BY <1>2, NoCallInv
      <3>2. CASE i = c.ino /\ f = "data"
        BY <1>3, <1>4, <1>7, <1>8, <3>1, <3>2 DEF Cur
      <3>3. CASE i = c.ino /\ f = "dir"
        BY <1>3, <1>4, <1>5, <1>7, <1>8, <3>1, <3>3 DEF Cur
      <3>4. CASE i # c.ino
        BY <1>4, <1>8, <3>1, <3>4 DEF Cur
      <3> QED
        BY <3>2, <3>3, <3>4 DEF Stream
    <2>3. \A i \in L, f \in Stream : Blk(Cur(i, f)) \subseteq bmap'
      BY <1>2, <2>1 DEF BlockInv
    <2>4. (Held \cup Doomed \cup Left)' = {} /\ Held' = {} /\ At' = "idle"
      BY <1>2, NoCallInv, NoCallFacts
    <2>5. Held \subseteq bmap'
      BY <1>2, <2>1 DEF BlockInv
    <2> QED
      BY <2>1, <2>2, <2>3, <2>4, <2>5, BlocksStay
  <1> QED
    BY <1>10, <1>11, <1>13, <1>14, <1>15 DEF WholeInv

\* AllocBlock keeps the invariant: the block is held, and belongs to no stream yet.
LEMMA AllocBlockStep ==
    ASSUME NEW L \in SUBSET Ino, WholeInv(L), AllocBlock
    PROVE  WholeInv(L)'
  <1>1. PICK b, p : b = FirstFree /\ p = AfterData(b)
    OBVIOUS
  <1>2. /\ UNCHANGED <<imap, itab, chain, area, open>> /\ OpenInodes' = OpenInodes
        /\ bmap # Block /\ bmap' = bmap \cup {b}
        /\ \/ c.pc = "grow" /\ c' = [c EXCEPT !.pc = "flush", !.data = b, !.ext = None, !.cont = p]
           \/ c.pc = "ext" /\ c' = [c EXCEPT !.pc = "flush", !.ext = b, !.cont = "prep"]
    BY <1>1 DEF AllocBlock, env, OpenInodes
  <1>3. b \in Block \ bmap
    BY <1>1, <1>2, Given, FirstBlockFree
  <1>4. p \in {"ext", "link", "entry"} /\ (p # "ext" => c.root # None)
    BY <1>1 DEF AfterData
  <1>5. At = c.pc /\ At \in {"grow", "ext"}
    BY <1>2 DEF At
  <1>6. /\ c' \in Frame /\ SameCall /\ c'.root = c.root /\ c'.need = c.need /\ c'.ret = c.ret /\ c'.idx = c.idx
        /\ c'.pc = "flush"
        /\ \/ At = "grow" /\ c'.cont = p /\ c'.data = b /\ c'.ext = None
           \/ At = "ext" /\ c'.cont = "prep" /\ c'.data = c.data /\ c'.ext = b
    <2>1. {"flush", "prep", p} \subseteq Pc /\ None \in Ptr /\ b \in Ptr
      BY <1>3, <1>4 DEF Pc, GrowPc, Ptr
    <2>2. CASE c.pc = "grow" /\ c' = [c EXCEPT !.pc = "flush", !.data = b, !.ext = None, !.cont = p]
      <3>1. PICK e : e = [c EXCEPT !.pc = "flush", !.cont = p]
        OBVIOUS
      <3>2. /\ e \in Frame /\ e.pc = "flush" /\ e.cont = p /\ e.op = c.op /\ e.dir = c.dir /\ e.name = c.name
            /\ e.dir2 = c.dir2 /\ e.name2 = c.name2 /\ e.ino = c.ino /\ e.node = c.node /\ e.end = c.end
            /\ e.copy = c.copy /\ e.root = c.root /\ e.need = c.need /\ e.ret = c.ret /\ e.idx = c.idx
        BY <2>1, <3>1, Given DEF Frame
      <3>3. c' = [e EXCEPT !.data = b, !.ext = None]
        BY <2>2, <3>1, Given DEF Frame
      <3> QED
        BY <1>5, <2>1, <2>2, <3>2, <3>3 DEF Frame, SameCall
    <2>3. CASE c.pc = "ext" /\ c' = [c EXCEPT !.pc = "flush", !.ext = b, !.cont = "prep"]
      <3>1. PICK e : e = [c EXCEPT !.pc = "flush", !.cont = "prep"]
        OBVIOUS
      <3>2. /\ e \in Frame /\ e.pc = "flush" /\ e.cont = "prep" /\ e.op = c.op /\ e.dir = c.dir /\ e.name = c.name
            /\ e.dir2 = c.dir2 /\ e.name2 = c.name2 /\ e.ino = c.ino /\ e.node = c.node /\ e.end = c.end
            /\ e.copy = c.copy /\ e.root = c.root /\ e.need = c.need /\ e.ret = c.ret /\ e.idx = c.idx
            /\ e.data = c.data
        BY <2>1, <3>1, Given DEF Frame
      <3>3. c' = [e EXCEPT !.ext = b]
        BY <2>3, <3>1, Given DEF Frame
      <3> QED
        BY <1>5, <2>1, <2>3, <3>2, <3>3 DEF Frame, SameCall
    <2> QED
      BY <1>2, <2>2, <2>3
  <1>7. At' = c'.cont /\ At' \in {"ext", "link", "entry", "prep"} /\ c'.op = c.op
    BY <1>4, <1>6 DEF At, SameCall
  <1>8. SamePhases /\ InGrow /\ InGrow'
    <2>1. At \in GrowPc /\ At' \in GrowPc
      BY <1>5, <1>7 DEF GrowPc
    <2> QED
      BY <1>6, <1>7, <2>1, GrowPhase DEF InGrow
  <1>9. PhaseInv
    BY DEF WholeInv
  <1>10. c.op \in Naming \cup {"write"}
    BY <1>5, <1>9, PhaseTable DEF PhaseInv, GrowPc
  <1>11. FrameInv'
    BY <1>2, <1>6, Given, FrameStays DEF SameCall
  <1>12. PhaseInv'
    <2>1. c'.op \in OpsAt(At')
      BY <1>7, <1>10, PhaseTable DEF GrowPc
    <2>2. c'.data \in Block /\ (At' = "prep" => c'.ext \in Block)
      BY <1>3, <1>4, <1>6, <1>7, <1>9 DEF PhaseInv
    <2>3. /\ At' \in {"entry", "link"} => c'.root # None
          /\ At' = "entry" => c'.ext = None
      BY <1>4, <1>6, <1>7
    <2>4. /\ c'.ret \in RetsOf(c'.op)
          /\ c'.ret = "buckets" => c'.root # None
          /\ c'.ret = "areahead" => c'.need # 0
      BY <1>6, <1>7, <1>8, <1>9 DEF PhaseInv
    <2> QED
      BY <1>6, <1>7, <1>8, <2>1, <2>2, <2>3, <2>4 DEF PhaseInv
  <1>13. WriteOk(L)'
    <2>1. WriteOk(L)
      BY DEF WholeInv, CallInv
    <2> QED
      BY <1>2, <1>6, <1>7, <1>8, <2>1 DEF WriteOk, SameCall, SamePhases
  <1>14. bmap' \in SUBSET Block
    BY <1>2, <1>3, Given
  <1>15. TypeInv' /\ AreaInv' /\ NameInv(L)' /\ CallInv(L)' /\ SizeInv(L)'
    <2>1. c.pc # "header" /\ At # "unslot" /\ At' \notin {"header", "slot", "child", "buckets", "ialloc", "unslot", "ifree", "undo"}
      BY <1>5, <1>7
    <2> QED
      BY <1>2, <1>6, <1>8, <1>11, <1>12, <1>13, <1>14, <2>1, Given, QuietCall DEF SamePhases
  <1>16. BlockInv(L)'
    <2>1. /\ Members(L)' \subseteq Members(L)
          /\ \A i \in Members(L)', f \in Stream : Cur(i, f)' \in {None, Cur(i, f)}
      <3>1. Creating' => Creating /\ (Growing => Growing')
        BY <1>8 DEF SamePhases
      <3>2. Growing' => c'.root = None \/ (Growing /\ c'.root = c.root)
        BY <1>6, <1>8 DEF SamePhases
      <3> QED
        BY <1>2, <1>6, <3>1, <3>2, CurStays DEF WholeInv, CallInv
    <2>2. BlockInv(L) /\ chain' = chain
      BY <1>2 DEF WholeInv
    <2>3. Held' = Held \cup {b}
      <3>1. CASE At = "grow"
        BY <1>4, <1>6, <1>7, <3>1 DEF Held
      <3>2. CASE At = "ext"
        BY <1>6, <1>7, <3>2 DEF Held
      <3> QED
        BY <1>5, <3>1, <3>2
    <2>4. Doomed' = {} /\ Left' = {}
      BY <1>7, <1>10 DEF Doomed, Left, Naming
    <2>5. Held' \subseteq bmap' /\ b \notin Held
      BY <1>2, <1>3, <2>2, <2>3 DEF BlockInv
    <2>6. At' = "prep" \/ (At' = "link" /\ c'.ext # None) => c'.data # c'.ext
      BY <1>4, <1>6, <1>7, <2>5 DEF Held
    <2>7. ASSUME NEW i \in Members(L)', NEW f \in Stream
          PROVE  /\ Once(Cur(i, f))' /\ Blk(Cur(i, f))' \subseteq bmap'
                 /\ Blk(Cur(i, f))' \cap (Held \cup Doomed \cup Left)' = {}
                 /\ i \in Members(L) /\ Blk(Cur(i, f))' \subseteq Blk(Cur(i, f))
      <3>1. i \in Members(L) /\ Cur(i, f)' \in {None, Cur(i, f)}
        BY <2>1, <2>7
      <3>2. Blk(Cur(i, f)) \subseteq bmap /\ Blk(Cur(i, f)) \cap Held = {}
        BY <2>2, <2>7, <3>1 DEF BlockInv
      <3>3. Blk(Cur(i, f)) \subseteq bmap' /\ Blk(Cur(i, f)) \cap (Held \cup Doomed \cup Left)' = {}
        BY <1>2, <1>3, <2>3, <2>4, <3>2
      <3> QED
        BY <2>2, <2>7, <3>1, <3>3, KeptStream
    <2> QED
      BY <2>2, <2>5, <2>6, <2>7, StreamsStay
  <1> QED
    BY <1>12, <1>15, <1>16 DEF WholeInv

-----------------------------------------------------------------------------
(***************************************************************************)
(* Extent chains grow                                                      *)
(***************************************************************************)
\* Roots of streams are on the disk, and there is an extent block behind them.
LEMMA CurGrounded ==
    ASSUME NEW L \in SUBSET Ino, WholeInv(L), NEW i \in Members(L), NEW f \in Stream
    PROVE  i \in Ino /\ Cur(i, f) \in Ptr /\ Grounded(Cur(i, f))
  <1>1. i \in Ino
    <2>1. Creating => c.ino \in imap
      BY DEF WholeInv, CallInv, NewOk
    <2> QED
      BY <2>1, Given DEF Members
  <1>2. /\ itab[i] \in InodeT /\ Grounded(itab[i].data) /\ Grounded(itab[i].dir)
        /\ c.node \in InodeT /\ Grounded(c.node.data) /\ Grounded(c.node.dir)
        /\ c.root \in Ptr /\ Grounded(c.root)
    BY <1>1, Given, FrameFields DEF DiskInv, FrameInv
  <1>3. itab[i][f] \in Ptr /\ Grounded(itab[i][f]) /\ c.node[f] \in Ptr /\ Grounded(c.node[f])
    BY <1>2 DEF Stream, InodeT
  <1> QED
    BY <1>1, <1>2, <1>3 DEF Cur

\* While an extent chain grows, its root is the root of one stream.
LEMMA GrowingStream ==
    ASSUME NEW L \in SUBSET Ino, WholeInv(L), At \in GrowPc, SameCall, SamePhases, itab' = itab, c'.ret = c.ret,
           Inserting => c'.root = c.root
    PROVE  \E i \in Members(L), f \in Stream :
              /\ Cur(i, f) = c.root /\ Cur(i, f)' = c'.root
              /\ \A j \in Members(L), g \in Stream : <<j, g>> # <<i, f>> => Cur(j, g)' = Cur(j, g)
  <1>1. InGrow /\ Building /\ Building' /\ c.op \in Naming \cup {"write"} /\ c.ret \in RetsOf(c.op)
        /\ c.ret \in {"data", "areahead", "buckets", "dirent", "name"}
    <2>1. InGrow /\ Building /\ Building'
      BY DEF InGrow, Building, SamePhases
    <2>2. c.op \in Naming \cup {"write"} /\ c.ret \in RetsOf(c.op)
      BY <2>1, PhaseTable DEF WholeInv, PhaseInv
    <2> QED
      BY <2>1, <2>2, PhaseTable DEF Naming
  <1>2. /\ c'.op = c.op /\ c'.ino = c.ino /\ c'.node = c.node /\ Creating' = Creating
    BY DEF SameCall, SamePhases
  <1>3. CASE c.op = "write"
    <2>1. c.ino \in Members(L) /\ ~Creating /\ "data" \in Stream
      BY <1>3 DEF Members, Creating, WholeInv, CallInv, WriteOk, Stream
    <2>2. Cur(c.ino, "data") = c.root /\ Cur(c.ino, "data")' = c'.root
      BY <1>1, <1>2, <1>3, <2>1 DEF Cur
    <2>3. \A j \in Members(L), g \in Stream : <<j, g>> # <<c.ino, "data">> => Cur(j, g)' = Cur(j, g)
      BY <1>1, <1>2, <1>3, <2>1 DEF Cur
    <2>4. PICK i : i = c.ino
      OBVIOUS
    <2>5. Cur(i, "data")' = c'.root
      BY <1>2, <2>2, <2>4 DEF Cur
    <2> QED
      BY <2>1, <2>2, <2>3, <2>4, <2>5
  <1>4. CASE c.ret \in {"areahead", "buckets"}
    <2>1. c.op = "mkdir" /\ Creating
      BY <1>1, <1>4, PhaseTable DEF Creating, Naming
    <2>2. PICK i : i = c.ino
      OBVIOUS
    <2>3. i \in Members(L) /\ "dir" \in Stream
      BY <2>1, <2>2 DEF Members, Stream
    <2>4. Cur(i, "dir") = c.root /\ Cur(i, "dir")' = c'.root
      BY <1>1, <1>2, <1>4, <2>1, <2>2 DEF Cur
    <2>5. \A j \in Members(L), g \in Stream : <<j, g>> # <<i, "dir">> => Cur(j, g)' = Cur(j, g)
      BY <1>1, <1>2, <1>4, <2>1, <2>2 DEF Cur
    <2> QED
      BY <2>3, <2>4, <2>5
  <1>5. CASE c.ret \in {"dirent", "name"}
    <2>1. Inserting /\ c.op \in Naming
      BY <1>1, <1>5, PhaseTable DEF Inserting
    <2>2. PICK i : i = InDir
      OBVIOUS
    <2>3. i \in L /\ c.root = itab[i].dir /\ c'.root = c.root
      BY <2>1, <2>2, InDirFacts DEF WholeInv, CallInv, DirsOk
    <2>4. \A j \in Members(L), g \in Stream : Cur(j, g)' = Cur(j, g)
      BY <1>1, <1>2, <1>5, <2>1 DEF Cur, Naming
    <2>5. Cur(i, "dir") = c.root
      <3>1. Creating => c.ino \notin L
        BY DEF WholeInv, CallInv, NewOk
      <3> QED
        BY <2>1, <2>3, <3>1 DEF Cur, Naming
    <2>6. i \in Members(L) /\ "dir" \in Stream
      BY <2>3 DEF Members, Stream
    <2> QED
      BY <2>3, <2>4, <2>5, <2>6
  <1>6. c.ret = "data" => c.op = "write"
    BY <1>1, PhaseTable DEF Naming
  <1> QED
    BY <1>1, <1>3, <1>4, <1>5, <1>6

\* The blocks of a chain that has been written.
LEMMA NewChain ==
    ASSUME NEW r, NEW t, chain'[r] = t, r # None
    PROVE  ChainBlocks(r)' = Flat(t) /\ Total(r)' = DataCount(t)
  <1>1. Flat(chain[r])' = Flat(chain'[r]) /\ DataCount(chain[r])' = DataCount(chain'[r])
    BY DEF Flat, DataCount
  <1>2. Flat(chain'[r]) = Flat(t) /\ DataCount(chain'[r]) = DataCount(t)
    OBVIOUS
  <1>3. ChainBlocks(r)' = Flat(chain[r])' /\ Total(r)' = DataCount(chain[r])'
    BY DEF ChainBlocks, Total
  <1> QED
    BY <1>1, <1>2, <1>3

\* An extent chain gets the blocks held for it.
LEMMA ExtendStep ==
    ASSUME NEW L \in SUBSET Ino, WholeInv(L), UNCHANGED <<bmap, imap, itab, area, open>>,
           At \in GrowPc, c.pc # "header", c' \in Frame, SameCall, c'.pc = "grow", c'.need = c.need,
           c'.ret = c.ret, c'.idx = c.idx,
           NEW r \in Block, c'.root = r, c.root \in {None, r}, c.root = None => ~Inserting /\ r \in Held,
           NEW t \in Seq(Ext), t # <<>>, t[1].blk = r, chain' = [chain EXCEPT ![r] = t],
           RangeOf(Flat(t)) = Blk(c.root) \cup Held,
           Len(Flat(t)) = Len(ChainBlocks(c.root)) + Cardinality(Held),
           DataCount(t) >= Total(c.root)
    PROVE  WholeInv(L)'
  <1>1. /\ OpenInodes' = OpenInodes /\ c'.op = c.op /\ c'.ino = c.ino /\ c'.node = c.node /\ c'.copy = c.copy
        /\ SameArgs
    BY DEF OpenInodes, SameCall, SameArgs
  <1>2. At' = "grow" /\ At' \in GrowPc
    BY DEF At, GrowPc
  <1>3. SamePhases /\ InGrow /\ InGrow' /\ (Inserting' => Inserting /\ c'.root = c.root)
    <2>1. SamePhases
      BY <1>1, <1>2, GrowPhase
    <2> QED
      BY <1>2, <2>1 DEF InGrow, SamePhases
  <1>4. r # None /\ chain'[r] = t /\ \A b \in Block : b # r => chain'[b] = chain[b]
    <2>1. r # None
      BY DEF None, Block
    <2>2. chain \in [Block -> Seq(Ext)]
      BY Given DEF DiskInv
    <2>3. chain'[r] = t /\ \A b \in Block : b # r => chain'[b] = chain[b]
      BY <2>2
    <2> QED
      BY <2>1, <2>3
  <1>5. \A x \in Ptr : Grounded(x) => Grounded(x)'
    BY <1>4 DEF Grounded, Ptr
  <1>6. TypeInv'
    <2>1. DiskInv'
      <3>1. \A i \in Ino : itab[i].data \in Ptr /\ itab[i].dir \in Ptr
        BY Given DEF DiskInv, InodeT
      <3>2. \A i \in Ino : Grounded(itab[i].data)' /\ Grounded(itab[i].dir)'
        <4> SUFFICES ASSUME NEW i \in Ino PROVE Grounded(itab[i].data)' /\ Grounded(itab[i].dir)'
          OBVIOUS
        <4>1. PICK x, y : x = itab[i].data /\ y = itab[i].dir
          OBVIOUS
        <4>2. Grounded(x)' /\ Grounded(y)'
          BY <1>5, <3>1, <4>1, Given DEF DiskInv
        <4> QED
          BY <4>1, <4>2 DEF Grounded
      <3>3. chain' \in [Block -> Seq(Ext)] /\ \A b \in Block : chain'[b] # <<>> => chain'[b][1].blk = b
        BY <1>4, Given DEF DiskInv
      <3> QED
        BY <3>2, <3>3, Given DEF DiskInv
    <2>2. FrameInv'
      <3>1. /\ \A i \in Ino : c.copy[i].data \in Ptr /\ c.copy[i].dir \in Ptr
            /\ c.node.data \in Ptr /\ c.node.dir \in Ptr
        BY Given, FrameFields DEF InodeT
      <3>2. \A i \in Ino : Grounded(c.copy[i].data)' /\ Grounded(c.copy[i].dir)'
        <4> SUFFICES ASSUME NEW i \in Ino PROVE Grounded(c.copy[i].data)' /\ Grounded(c.copy[i].dir)'
          OBVIOUS
        <4>1. PICK x, y : x = c.copy[i].data /\ y = c.copy[i].dir
          OBVIOUS
        <4>2. Grounded(x)' /\ Grounded(y)'
          BY <1>5, <3>1, <4>1, Given DEF FrameInv
        <4> QED
          BY <1>1, <4>1, <4>2 DEF Grounded
      <3>3. Grounded(c.node.data)' /\ Grounded(c.node.dir)'
        <4>1. PICK x, y : x = c.node.data /\ y = c.node.dir
          OBVIOUS
        <4>2. Grounded(x)' /\ Grounded(y)'
          BY <1>5, <3>1, <4>1, Given DEF FrameInv
        <4> QED
          BY <1>1, <4>1, <4>2 DEF Grounded
      <3>4. Grounded(c.root)'
        BY <1>4 DEF Grounded
      <3> QED
        BY <3>2, <3>3, <3>4 DEF FrameInv
    <2> QED
      BY <2>1, <2>2 DEF TypeInv
  <1>7. PhaseInv'
    <2>1. PhaseInv
      BY DEF WholeInv
    <2>2. c'.op \in OpsAt(At') /\ c'.ret \in RetsOf(c'.op)
      <3>1. c.op \in OpsAt(At) /\ OpsAt(At) = OpsAt(At')
        BY <1>2, <2>1, PhaseTable DEF PhaseInv
      <3> QED
        BY <1>1, <1>3, <2>1, <3>1 DEF PhaseInv
    <2> QED
      BY <1>2, <1>3, <1>4, <2>1, <2>2 DEF PhaseInv
  <1>8. AreaInv'
    <2>1. Recorded' => Recorded /\ SameCall
      BY <1>3 DEF SamePhases
    <2> QED
      BY <1>2, <1>3, <2>1, AreasStay DEF WholeInv
  <1>9. SameInodes(L) /\ SameKids(L)
    BY SameTable
  <1>10. NameInv(L)'
    BY <1>1, <1>9, Given, NamesStay DEF WholeInv
  <1>11. CallInv(L)'
    <2>1. WriteOk(L)'
      <3>1. WriteOk(L)
        BY DEF WholeInv, CallInv
      <3>2. c'.end = c.end
        BY DEF SameCall
      <3>3. Building' = Building
        BY <1>3 DEF SamePhases
      <3> QED
        BY <1>1, <1>2, <1>3, <3>1, <3>2, <3>3 DEF WriteOk
    <2>2. NewOk(L)'
      <3>1. c'.ret = "buckets" => c'.root = c.root
        BY <1>3 DEF WholeInv, PhaseInv
      <3> QED
        BY <1>2, <1>3, <3>1, NewStays DEF WholeInv, CallInv, SamePhases
    <2>3. GoneOk(L)'
      BY <1>2, <1>3, Given, GoneStays DEF WholeInv, CallInv, InGrow, GrowPc
    <2>4. DirsOk(L)'
      BY <1>1, <1>3, <1>9, DirsStay DEF WholeInv, CallInv
    <2>5. PlaceOk(L)'
      BY <1>1, <1>2, <1>3, <1>9, PlaceStays DEF WholeInv, CallInv, SamePhases
    <2> QED
      BY <2>1, <2>2, <2>3, <2>4, <2>5 DEF CallInv
  <1>12. BlockInv(L) /\ c.op \in Naming \cup {"write"}
    <2>1. c.op \in OpsAt(At)
      BY DEF WholeInv, PhaseInv
    <2> QED
      BY <2>1, PhaseTable DEF WholeInv
  <1>13. PICK i \in Members(L), f \in Stream :
            /\ Cur(i, f) = c.root /\ Cur(i, f)' = r
            /\ \A j \in Members(L), g \in Stream : <<j, g>> # <<i, f>> => Cur(j, g)' = Cur(j, g)
    <2>1. Inserting => c'.root = c.root
      OBVIOUS
    <2> QED
      BY <1>3, <2>1, GrowingStream
  <1>14. ASSUME NEW j \in Members(L), NEW g \in Stream, <<j, g>> # <<i, f>>
         PROVE  Cur(j, g) # r /\ Cur(j, g) \in Ptr
    <2>1. Cur(j, g) \in Ptr /\ Grounded(Cur(j, g))
      BY <1>14, CurGrounded
    <2> SUFFICES ASSUME Cur(j, g) = r PROVE FALSE
      BY <2>1
    <2>2. r \in Blk(r)
      BY <2>1, Given, RootOwned
    <2>3. Blk(Cur(j, g)) \cap Blk(c.root) = {} /\ Blk(Cur(j, g)) \cap Held = {}
      BY <1>12, <1>13, <1>14 DEF BlockInv
    <2> QED
      BY <2>2, <2>3
  <1>15. Members(L)' = Members(L)
    BY <1>1, <1>3 DEF Members, SamePhases
  <1>16. Held' = {} /\ Doomed' = {} /\ Left' = {}
    BY <1>1, <1>2, <1>12 DEF Held, Doomed, Left, Naming
  <1>17. Blk(r)' = Blk(c.root) \cup Held /\ Once(r)'
    <2>1. ChainBlocks(r)' = Flat(t)
      BY <1>4, NewChain
    <2>2. Blk(r)' = Blk(c.root) \cup Held
      BY <2>1 DEF Blk, RangeOf
    <2>3. /\ Blk(c.root) \subseteq Block /\ Held \subseteq Block /\ Blk(c.root) \cap Held = {}
          /\ Cardinality(Blk(c.root)) = Len(ChainBlocks(c.root))
      BY <1>12, <1>13, Given DEF BlockInv, Once
    <2>4. IsFiniteSet(Blk(c.root)) /\ IsFiniteSet(Held)
      BY <2>3, BlockFinite
    <2>5. Cardinality(Blk(c.root) \cup Held) = Cardinality(Blk(c.root)) + Cardinality(Held)
      <3>1. Cardinality(Blk(c.root) \cap Held) = 0
        BY <2>3, FS_EmptySet
      <3>2. Cardinality(Blk(c.root) \cup Held)
              = Cardinality(Blk(c.root)) + Cardinality(Held) - Cardinality(Blk(c.root) \cap Held)
        BY <2>4, FS_Union
      <3>3. Cardinality(Blk(c.root)) \in Nat /\ Cardinality(Held) \in Nat
        BY <2>4, FS_CardinalityType
      <3> QED
        BY <3>1, <3>2, <3>3
    <2> QED
      BY <2>1, <2>2, <2>3, <2>5 DEF Once
  <1>18. BlockInv(L)'
    <2>1. ASSUME NEW j \in Members(L), NEW g \in Stream
          PROVE  /\ Once(Cur(j, g))' /\ Blk(Cur(j, g))' \subseteq bmap'
                 /\ \/ Blk(Cur(j, g))' \subseteq Blk(Cur(j, g))
                    \/ Blk(Cur(j, g))' \subseteq Blk(Cur(j, g)) \cup Held /\ <<j, g>> = <<i, f>>
      <3>1. CASE <<j, g>> = <<i, f>>
        <4>1. Once(Cur(j, g))' = Once(r)' /\ Blk(Cur(j, g))' = Blk(r)'
          BY <1>13, <3>1 DEF Once, Blk, ChainBlocks, RangeOf
        <4>2. Blk(Cur(i, f)) \subseteq bmap /\ Held \subseteq bmap
          BY <1>12 DEF BlockInv
        <4> QED
          BY <1>13, <1>17, <3>1, <4>1, <4>2
      <3>2. CASE <<j, g>> # <<i, f>>
        <4>1. PICK s : s = Cur(j, g) /\ s = Cur(j, g)'
          BY <1>13, <2>1, <3>2
        <4>2. Once(s) /\ Blk(s) \subseteq bmap
          BY <1>12, <2>1, <4>1 DEF BlockInv
        <4>3. CASE s = None
          <5>1. Once(Cur(j, g))' /\ Blk(Cur(j, g))' = {}
            BY <4>1, <4>3, EmptyStream
          <5> QED
            BY <5>1
        <4>4. CASE s # None
          <5>1. chain'[s] = chain[s]
            BY <1>4, <1>14, <2>1, <3>2, <4>1, <4>4 DEF Ptr
          <5>2. Blk(s)' = Blk(s) /\ (Once(s)' <=> Once(s))
            BY <5>1, SameChain
          <5>3. Blk(Cur(j, g))' = Blk(s)' /\ (Once(Cur(j, g))' <=> Once(s)')
            BY <4>1 DEF Blk, Once, ChainBlocks, RangeOf
          <5> QED
            BY <4>1, <4>2, <5>2, <5>3
        <4> QED
          BY <4>3, <4>4
      <3> QED
        BY <3>1, <3>2
    <2>2. \A j \in Members(L)', g \in Stream :
             Once(Cur(j, g))' /\ Blk(Cur(j, g))' \subseteq bmap' /\ Blk(Cur(j, g))' \cap (Held \cup Doomed \cup Left)' = {}
      BY <1>15, <1>16, <2>1
    <2>3. \A j \in Members(L)', g \in Stream :
             \/ Blk(Cur(j, g))' = {}
             \/ j \in Members(L) /\ Blk(Cur(j, g))' \subseteq Blk(Cur(j, g))
             \/ j \in Members(L) /\ Blk(Cur(j, g))' \subseteq Blk(Cur(j, g)) \cup Held /\ <<j, g>> = <<i, f>>
      BY <1>15, <2>1
    <2>4. Held' \subseteq bmap' /\ At' # "prep" /\ At' # "link"
      BY <1>2, <1>16
    <2> QED
      BY <1>12, <2>2, <2>3, <2>4, StreamsStay
  <1>19. SizeInv(L)'
    <2> SUFFICES ASSUME NEW k \in L PROVE itab'[k].size <= Total(itab[k].data)' * BlockUnits
      BY DEF SizeInv
    <2>1. PICK d : d = itab[k].data
      OBVIOUS
    <2>2. Total(itab[k].data)' = Total(d)'
      BY <2>1 DEF Total
    <2>3. itab[k].size <= Total(d) * BlockUnits /\ itab[k].size \in Nat /\ d \in Ptr
      BY <2>1, Given DEF WholeInv, SizeInv, DiskInv, InodeT
    <2>4. Total(d) \in Nat
      BY <2>3, Given, BlocksType
    <2>5. CASE d # r
      <3>1. Total(d)' = Total(d)
        <4>1. CASE d = None
          BY <4>1 DEF Total
        <4>2. CASE d # None
          <5>1. chain'[d] = chain[d]
            BY <1>4, <2>3, <2>5, <4>2 DEF Ptr
          <5> QED
            BY <5>1, SameChain
        <4> QED
          BY <4>1, <4>2
      <3> QED
        BY <2>2, <2>3, <3>1
    <2>6. CASE d = r
      <3>1. k \in Members(L) /\ "data" \in Stream
        BY DEF Members, Stream
      <3>2. Cur(k, "data") = r
        <4>1. itab[k]["data"] \in {None, Cur(k, "data")}
          BY <3>1, DiskStream DEF WholeInv, CallInv
        <4> QED
          BY <1>4, <2>1, <2>6, <4>1
      <3>3. c.root = r
        BY <1>13, <1>14, <3>1, <3>2
      <3>4. Total(d)' = DataCount(t) /\ DataCount(t) \in Nat /\ DataCount(t) >= Total(d)
        <4>1. Total(d)' = DataCount(t)
          BY <1>4, <2>6, NewChain
        <4>2. DataCount(t) \in Nat
          BY FlatType
        <4> QED
          BY <2>6, <3>3, <4>1, <4>2
      <3>5. Total(d) * BlockUnits <= DataCount(t) * BlockUnits
        BY <2>4, <3>4, TimesMonotone, SizeAssumption
      <3>6. Total(d) * BlockUnits \in Nat /\ DataCount(t) * BlockUnits \in Nat
        BY <2>4, <3>4, SizeAssumption
      <3> QED
        BY <2>2, <2>3, <3>4, <3>5, <3>6
    <2> QED
      BY <2>5, <2>6
  <1> QED
    BY <1>6, <1>7, <1>8, <1>10, <1>11, <1>18, <1>19 DEF WholeInv

\* Sets of one block and of two.
LEMMA HeldFacts ==
    ASSUME NEW a, NEW b
    PROVE  Cardinality({a}) = 1 /\ (a # b => Cardinality({a, b}) = 2)
  <1>1. IsFiniteSet({a}) /\ Cardinality({a}) = 1
    BY FS_Singleton
  <1>2. ASSUME a # b PROVE Cardinality({a, b}) = 2
    <2>1. Cardinality({a} \cup {b}) = Cardinality({a}) + 1
      BY <1>1, <1>2, FS_AddElement
    <2>2. {a} \cup {b} = {a, b}
      OBVIOUS
    <2> QED
      BY <1>1, <2>1, <2>2
  <1> QED
    BY <1>1, <1>2

\* t is s with an extent block e that lists d at the end.
Longer(t, s, d, e) == t = Append(s, [blk |-> e, data |-> <<d>>])

\* Its blocks are those of s and the two new ones.
LEMMA LongerFacts ==
    ASSUME NEW s \in Seq(Ext), NEW d \in Block, NEW e \in Block, NEW t, Longer(t, s, d, e)
    PROVE  /\ t \in Seq(Ext) /\ t # <<>> /\ (s # <<>> => t[1] = s[1]) /\ (s = <<>> => t[1].blk = e)
           /\ RangeOf(Flat(t)) = RangeOf(Flat(s)) \cup {d, e}
           /\ Len(Flat(t)) = Len(Flat(s)) + 2
           /\ DataCount(t) = DataCount(s) + 1
  <1>0. t = Append(s, [blk |-> e, data |-> <<d>>])
    BY DEF Longer
  <1>1. \A u : u = Append(s, [blk |-> e, data |-> <<d>>]) =>
           /\ u \in Seq(Ext) /\ u # <<>> /\ u[1] = IF s = <<>> THEN [blk |-> e, data |-> <<d>>] ELSE s[1]
           /\ RangeOf(Flat(u)) = RangeOf(Flat(s)) \cup {d, e}
           /\ Len(Flat(u)) = Len(Flat(s)) + 2
           /\ DataCount(u) = DataCount(s) + 1
    BY LinkNew, Zenon
  <1>2. /\ t \in Seq(Ext) /\ t # <<>> /\ t[1] = IF s = <<>> THEN [blk |-> e, data |-> <<d>>] ELSE s[1]
        /\ RangeOf(Flat(t)) = RangeOf(Flat(s)) \cup {d, e}
        /\ Len(Flat(t)) = Len(Flat(s)) + 2
        /\ DataCount(t) = DataCount(s) + 1
    BY <1>0, <1>1, Zenon
  <1>3. (s # <<>> => t[1] = s[1]) /\ (s = <<>> => t[1].blk = e)
    BY <1>2
  <1> QED
    BY <1>2, <1>3

\* LinkBlock keeps the invariant.
LEMMA LinkBlockStep ==
    ASSUME NEW L \in SUBSET Ino, WholeInv(L), LinkBlock
    PROVE  WholeInv(L)'
  <1>1. PICK r, t : r = c.root /\ t = Linked(chain[c.root])
    OBVIOUS
  <1>2. /\ c.pc = "link" /\ UNCHANGED <<bmap, imap, itab, area, open>>
        /\ chain' = [chain EXCEPT ![r] = t] /\ c' = [c EXCEPT !.pc = "grow"]
    BY <1>1 DEF LinkBlock, Goto, env
  <1>3. At = "link" /\ At \in GrowPc
    BY <1>2 DEF At, GrowPc
  <1>4. c.root # None /\ c.data \in Block /\ r \in Block /\ c.ext \in Ptr
    BY <1>1, <1>3, Given, FrameFields DEF WholeInv, PhaseInv, Ptr
  <1>5. PICK s \in Seq(Ext) : s = chain[r]
    BY <1>4, Given DEF DiskInv
  <1>6. s # <<>> /\ s[1].blk = r
    BY <1>1, <1>4, <1>5, Given DEF FrameInv, DiskInv, Grounded
  <1>7. /\ RangeOf(Flat(s)) = Blk(c.root) /\ Len(Flat(s)) = Len(ChainBlocks(c.root)) /\ DataCount(s) = Total(c.root)
        /\ DataCount(s) \in Nat
    BY <1>1, <1>4, <1>5, FlatType DEF Blk, ChainBlocks, Total
  <1>8. /\ c' \in Frame /\ SameCall /\ c'.pc = "grow" /\ c'.need = c.need /\ c'.ret = c.ret /\ c'.idx = c.idx
        /\ c'.root = r
    <2>1. "grow" \in Pc
      BY DEF Pc, GrowPc
    <2> QED
      BY <1>1, <1>2, <2>1, Given, GotoFacts
  <1>9. /\ t \in Seq(Ext) /\ t # <<>> /\ t[1].blk = r
        /\ RangeOf(Flat(t)) = Blk(c.root) \cup Held
        /\ Len(Flat(t)) = Len(ChainBlocks(c.root)) + Cardinality(Held)
        /\ DataCount(t) >= Total(c.root)
    <2>1. CASE c.ext # None
      <3>1. PICK e \in Block : e = c.ext
        BY <1>4, <2>1 DEF Ptr
      <3>0. PICK d \in Block : d = c.data
        BY <1>4
      <3>2. Longer(t, s, d, e)
        BY <1>1, <1>5, <2>1, <3>0, <3>1 DEF Linked, Longer
      <3>3. /\ t \in Seq(Ext) /\ t # <<>> /\ t[1] = s[1]
            /\ RangeOf(Flat(t)) = RangeOf(Flat(s)) \cup {d, e}
            /\ Len(Flat(t)) = Len(Flat(s)) + 2
            /\ DataCount(t) = DataCount(s) + 1
        BY <1>6, <3>2, LongerFacts
      <3>4. Held = {d, e} /\ Cardinality(Held) = 2
        <4>1. Held = {d, e}
          BY <1>3, <2>1, <3>0, <3>1 DEF Held
        <4>2. d # e
          BY <1>3, <2>1, <3>0, <3>1 DEF WholeInv, BlockInv
        <4> QED
          BY <4>1, <4>2, HeldFacts
      <3> QED
        BY <1>6, <1>7, <3>3, <3>4
    <2>2. CASE c.ext = None
      <3>1. t = [s EXCEPT ![Len(s)].data = Append(@, c.data)]
        BY <1>1, <1>5, <2>2 DEF Linked
      <3>2. /\ t \in Seq(Ext) /\ t # <<>> /\ t[1].blk = s[1].blk
            /\ RangeOf(Flat(t)) = RangeOf(Flat(s)) \cup {c.data}
            /\ Len(Flat(t)) = Len(Flat(s)) + 1
            /\ DataCount(t) = DataCount(s) + 1
        BY <1>4, <1>6, <3>1, LinkMore
      <3>3. Held = {c.data} /\ Cardinality(Held) = 1
        BY <1>3, <2>2, HeldFacts DEF Held
      <3> QED
        BY <1>6, <1>7, <3>2, <3>3
    <2> QED
      BY <2>1, <2>2
  <1> QED
    BY <1>1, <1>2, <1>3, <1>4, <1>8, <1>9, ExtendStep

\* WriteExtentBlock keeps the invariant.
LEMMA WriteExtentBlockStep ==
    ASSUME NEW L \in SUBSET Ino, WholeInv(L), WriteExtentBlock
    PROVE  WholeInv(L)'
  <1>1. c.pc = "prep" /\ UNCHANGED <<bmap, imap, itab, area, open>> /\ OpenInodes' = OpenInodes
    BY DEF WriteExtentBlock, env, OpenInodes
  <1>2. At = "prep" /\ At \in GrowPc
    BY <1>1 DEF At, GrowPc
  <1>3. c.data \in Block /\ c.ext \in Block /\ c.data # c.ext /\ c.ext # None
    <2>1. c.data \in Block /\ c.ext \in Block /\ c.data # c.ext
      BY <1>2 DEF WholeInv, PhaseInv, BlockInv
    <2> QED
      BY <2>1 DEF Block, None
  <1>4. CASE c.root = None
    <2>1. PICK r, t : r = c.ext /\ t = <<[blk |-> c.ext, data |-> <<c.data>>]>>
      OBVIOUS
    <2>2. chain' = [chain EXCEPT ![r] = t] /\ c' = [c EXCEPT !.pc = "grow", !.root = c.ext]
      BY <1>4, <2>1 DEF WriteExtentBlock
    <2>3. /\ c' \in Frame /\ SameCall /\ c'.pc = "grow" /\ c'.need = c.need /\ c'.ret = c.ret /\ c'.idx = c.idx
          /\ c'.root = r
      <3>1. "grow" \in Pc /\ c.ext \in Ptr
        BY <1>3 DEF Pc, GrowPc, Ptr
      <3> QED
        BY <2>1, <2>2, <3>1, Given DEF Frame, SameCall
    <2>4. /\ t \in Seq(Ext) /\ t # <<>> /\ t[1].blk = r
          /\ RangeOf(Flat(t)) = {c.data, c.ext} /\ Len(Flat(t)) = 2 /\ DataCount(t) = 1
      <3>0. PICK d \in Block, e \in Block : d = c.data /\ e = c.ext
        BY <1>3
      <3>1. PICK s \in Seq(Ext) : s = <<>>
        <4>1. <<>> \in Seq(Ext)
          OBVIOUS
        <4> QED
          BY <4>1
      <3>2. Flat(s) = <<>> /\ DataCount(s) = 0
        <4>1. PICK f : FlatOf(f, s)
          BY FlatExists
        <4>2. PICK g : CountOf(g, s)
          BY CountExists
        <4>3. Len(s) = 0
          BY <3>1
        <4> QED
          BY <4>1, <4>2, <4>3 DEF FlatOf, CountOf
      <3>3. Longer(t, s, d, e)
        BY <2>1, <3>0, <3>1 DEF Longer
      <3>4. /\ t \in Seq(Ext) /\ t # <<>> /\ (s = <<>> => t[1].blk = e)
            /\ RangeOf(Flat(t)) = RangeOf(Flat(s)) \cup {d, e}
            /\ Len(Flat(t)) = Len(Flat(s)) + 2
            /\ DataCount(t) = DataCount(s) + 1
        BY <3>3, LongerFacts
      <3>5. RangeOf(Flat(s)) = {}
        BY <3>2 DEF RangeOf
      <3>6. t[1].blk = r
        BY <2>1, <3>0, <3>1, <3>4
      <3>7. Len(Flat(s)) = 0
        BY <3>2
      <3>8. RangeOf(Flat(t)) = {d, e}
        BY <3>4, <3>5
      <3>9. Len(Flat(t)) = 2 /\ DataCount(t) = 1
        BY <3>2, <3>4, <3>7
      <3> QED
        BY <3>0, <3>4, <3>6, <3>8, <3>9
    <2>5. Held = {c.data, c.ext} /\ Cardinality(Held) = 2
      <3>1. Held = {c.data, c.ext}
        BY <1>2 DEF Held
      <3> QED
        BY <1>3, <3>1, HeldFacts
    <2>6. Blk(c.root) = {} /\ Total(c.root) = 0 /\ Len(ChainBlocks(c.root)) = 0
      BY <1>4, NoBlocks DEF ChainBlocks
    <2>7. ~Inserting /\ r \in Held /\ r \in Block
      BY <1>3, <1>4, <2>1, <2>5 DEF WholeInv, AreaInv
    <2>8. /\ RangeOf(Flat(t)) = Blk(c.root) \cup Held /\ Len(Flat(t)) = Len(ChainBlocks(c.root)) + Cardinality(Held)
          /\ DataCount(t) >= Total(c.root)
      BY <2>4, <2>5, <2>6
    <2> QED
      BY <1>1, <1>2, <1>4, <2>2, <2>3, <2>4, <2>7, <2>8, ExtendStep
  <1>5. CASE c.root # None
    <2>1. chain' = chain /\ c' = [c EXCEPT !.pc = "link"]
      BY <1>5 DEF WriteExtentBlock, Goto
    <2>2. /\ c' \in Frame /\ c'.pc = "link" /\ SameCall /\ c'.root = c.root /\ c'.need = c.need /\ c'.ret = c.ret
          /\ c'.data = c.data /\ c'.ext = c.ext /\ c'.idx = c.idx /\ c'.todo = c.todo
      <3>1. "link" \in Pc
        BY DEF Pc, GrowPc
      <3> QED
        BY <2>1, <3>1, Given, GotoFacts
    <2>3. At' = "link" /\ At' \in GrowPc
      BY <2>2 DEF At, GrowPc
    <2>4. SamePhases
      BY <1>2, <2>2, <2>3, GrowPhase DEF SameCall
    <2>5. FrameInv'
      BY <2>1, <2>2, Given, FrameStays DEF SameCall
    <2>6. PhaseInv'
      BY <1>2, <1>3, <1>5, <2>2, <2>3, <2>4, PhaseTable DEF WholeInv, PhaseInv, SameCall, SamePhases
    <2>7. WriteOk(L)'
      <3>1. WriteOk(L)
        BY DEF WholeInv, CallInv
      <3> QED
        BY <1>1, <2>2, <2>3, <2>4, <3>1 DEF WriteOk, SameCall, SamePhases
    <2>8. Held' = Held /\ Doomed' = {}
      BY <1>2, <1>3, <2>2, <2>3 DEF Held, Doomed
    <2> QED
      BY <1>1, <1>2, <2>1, <2>2, <2>3, <2>4, <2>5, <2>6, <2>7, <2>8, Given, QuietStep DEF SamePhases
  <1> QED
    BY <1>4, <1>5

-----------------------------------------------------------------------------
(***************************************************************************)
(* Writes of directory areas                                               *)
(***************************************************************************)
\* The directory of an inode of L has an area of its own.
LEMMA RootApart ==
    ASSUME NEW L \in SUBSET Ino, WholeInv(L), NEW d \in L, IsDir(d),
           NEW i \in Members(L), NEW f \in Stream, <<i, f>> # <<d, "dir">>
    PROVE  itab[d].dir \in Block /\ Cur(d, "dir") = itab[d].dir /\ Cur(i, f) # itab[d].dir
  <1>1. PICK r : r = itab[d].dir
    OBVIOUS
  <1>2. r # None /\ r \in Ptr /\ Grounded(r)
    BY <1>1, Given DEF WholeInv, NameInv, DiskInv, InodeT
  <1>3. r \in Block /\ r \in Blk(r)
    BY <1>2, Given, RootOwned DEF Ptr
  <1>4. d \in Members(L) /\ "dir" \in Stream
    BY DEF Members, Stream
  <1>5. Cur(d, "dir") = r
    <2>1. itab[d]["dir"] \in {None, Cur(d, "dir")}
      BY <1>4, DiskStream DEF WholeInv, CallInv
    <2> QED
      BY <1>1, <1>2, <2>1
  <1>6. Blk(Cur(i, f)) \cap Blk(Cur(d, "dir")) = {}
    BY <1>4 DEF WholeInv, BlockInv
  <1> QED
    BY <1>1, <1>3, <1>5, <1>6

\* One area is written.
LEMMA AreasChange ==
    ASSUME DiskInv, AreaInv, NEW r \in Block, NEW a2, area' = [area EXCEPT ![r] = a2],
           c.pc = "header" => c.root = r, c'.pc = "header" => c'.root = r,
           AreaOk(a2, IF c'.pc = "header" THEN a2.next + 1 ELSE a2.next)
    PROVE  /\ area' \in [Block -> AreaT] /\ area'[r] = a2 /\ \A b \in Block : b # r => area'[b] = area[b]
           /\ \A b \in Block : AreaOk(area[b], Limit(b))'
  <1>1. a2 \in AreaT /\ area \in [Block -> AreaT]
    BY DEF AreaOk, DiskInv
  <1>2. area' \in [Block -> AreaT] /\ area'[r] = a2 /\ \A b \in Block : b # r => area'[b] = area[b]
    BY <1>1
  <1>3. \A b \in Block : AreaOk(area'[b], Limit(b)')
    <2> SUFFICES ASSUME NEW b \in Block PROVE AreaOk(area'[b], Limit(b)')
      OBVIOUS
    <2>1. CASE b = r
      <3>1. Limit(b)' = IF c'.pc = "header" THEN a2.next + 1 ELSE a2.next
        BY <1>2, <2>1 DEF Limit
      <3> QED
        BY <1>2, <2>1, <3>1
    <2>2. CASE b # r
      <3>1. Limit(b)' = Limit(b)
        BY <1>2, <2>2 DEF Limit
      <3> QED
        BY <1>2, <2>2, <3>1 DEF AreaInv
    <2> QED
      BY <2>1, <2>2
  <1>4. \A b \in Block : AreaOk(area[b], Limit(b))'
    BY <1>3 DEF AreaOk, Sorted, Distinct, Live, Walk
  <1> QED
    BY <1>2, <1>4

\* Lookups do not tell a2 from what is in block r.
Unseen(L, r, a2) ==
    \/ \A m \in Name : Lookup(a2, m) = Lookup(area[r], m)
    \/ \A d \in L : IsDir(d) => itab[d].dir # r

\* A step writes a2 to block r, and no lookup sees it.
Rewrites(L, r, a2) ==
    /\ r \in Block /\ a2 \in AreaT /\ area' = [area EXCEPT ![r] = a2] /\ Unseen(L, r, a2)
    /\ UNCHANGED <<bmap, imap, itab, chain, open>>

\* Disk, names and sizes then stay as they are.
LEMMA UnseenStep ==
    ASSUME NEW L \in SUBSET Ino, WholeInv(L), NEW r, NEW a2, Rewrites(L, r, a2)
    PROVE  /\ DiskInv' /\ SameInodes(L) /\ SameKids(L) /\ NameInv(L)' /\ SizeInv(L)'
           /\ area'[r] = a2 /\ \A b \in Block : b # r => area'[b] = area[b]
  <1>0. /\ r \in Block /\ a2 \in AreaT /\ area' = [area EXCEPT ![r] = a2] /\ Unseen(L, r, a2)
        /\ UNCHANGED <<bmap, imap, itab, chain, open>>
    BY DEF Rewrites
  <1>1. area' \in [Block -> AreaT] /\ area'[r] = a2 /\ \A b \in Block : b # r => area'[b] = area[b]
    BY <1>0, Given DEF DiskInv
  <1>2. DiskInv'
    BY <1>0, <1>1, Given DEF DiskInv, Grounded
  <1>3. \A d \in L : IsDir(d) => itab[d].dir \in Block
    BY Given DEF WholeInv, NameInv, DiskInv, InodeT, Ptr
  <1>4. SameInodes(L) /\ SameDirs(L)
    BY <1>0, SameTable
  <1>5. SameKids(L)
    <2>1. \A d \in L, n \in Name : IsDir(d) => Lookup(area'[itab[d].dir], n) = Lookup(area[itab[d].dir], n)
      BY <1>0, <1>1, <1>3 DEF Unseen
    <2> QED
      BY <1>4, <2>1, KidsStay
  <1>6. OpenInodes' \subseteq L
    BY <1>0, Given DEF OpenInodes
  <1> QED
    BY <1>0, <1>1, <1>2, <1>4, <1>5, <1>6, Given, NamesStay, SizesStay DEF WholeInv

\* WriteAreaHeader keeps the invariant.
LEMMA WriteAreaHeaderStep ==
    ASSUME NEW L \in SUBSET Ino, WholeInv(L), WriteAreaHeader
    PROVE  WholeInv(L)'
  <1>1. PICK r : r = c.root
    OBVIOUS
  <1>2. /\ c.pc = "areahead" /\ UNCHANGED <<bmap, imap, itab, chain, open>>
        /\ area' = [area EXCEPT ![r] = EmptyArea]
        /\ c' = [c EXCEPT !.pc = "grow", !.root = r, !.need = BlocksFor(2), !.ret = "buckets"]
    BY <1>1 DEF WriteAreaHeader, Grow, env
  <1>3. At = "areahead" /\ c.op = "mkdir" /\ c.ret = "areahead" /\ c.root # None
    <2>1. At = "areahead"
      BY <1>2 DEF At
    <2> QED
      BY <2>1, PhaseTable DEF WholeInv, PhaseInv
  <1>4. r \in Block /\ r # None /\ r \in Ptr
    BY <1>1, <1>3, Given, FrameFields DEF Ptr
  <1>5. /\ c' \in Frame /\ c'.pc = "grow" /\ SameCall /\ SameArgs /\ c'.root = c.root /\ c'.ret = "buckets"
    <2>1. "buckets" \in Pc /\ BlocksFor(2) \in Nat /\ "grow" \in Pc
      BY BlocksForFacts DEF Pc, GrowPc
    <2> QED
      BY <1>1, <1>2, <1>4, <2>1, Given DEF Frame, SameCall, SameArgs
  <1>6. At' = "grow" /\ c'.op = c.op /\ c'.ino = c.ino /\ c'.node = c.node
    BY <1>5 DEF At, SameCall
  <1>7. /\ InGrow' /\ Building' /\ ~Inserting' /\ ~Recorded' /\ Creating' /\ ~ChildWritten' /\ ~Unplaced'
        /\ Creating /\ Building
    BY <1>3, <1>5, <1>6 DEF InGrow, Building, Inserting, Recorded, Creating, ChildWritten, Unplaced, GrowPc
  <1>8. Members(L) = L \cup {c.ino} /\ Members(L)' = Members(L) /\ c.ino \notin L
    BY <1>6, <1>7 DEF Members, WholeInv, CallInv, NewOk
  <1>9. \A d \in L : IsDir(d) => itab[d].dir # r
    <2>1. Cur(c.ino, "dir") = r /\ c.ino \in Members(L) /\ "dir" \in Stream
      BY <1>1, <1>3, <1>7, <1>8 DEF Cur, Stream
    <2> QED
      BY <1>8, <2>1, RootApart
  <1>10. AreaOk(EmptyArea, 1) /\ EmptyArea.next = 1 /\ EmptyArea \in AreaT
    BY EmptyFacts DEF AreaOk
  <1>11. /\ DiskInv' /\ SameInodes(L) /\ SameKids(L) /\ NameInv(L)' /\ SizeInv(L)' /\ area'[r] = EmptyArea
    <2>1. PICK e : e = EmptyArea
      OBVIOUS
    <2>2. e \in AreaT /\ area' = [area EXCEPT ![r] = e]
      BY <1>2, <1>10, <2>1
    <2>4. UNCHANGED <<bmap, imap, itab, chain, open>>
      BY <1>2
    <2>5. Unseen(L, r, e)
      BY <1>9 DEF Unseen
    <2>6. Rewrites(L, r, e)
      BY <1>4, <2>2, <2>4, <2>5 DEF Rewrites
    <2>3. DiskInv' /\ SameInodes(L) /\ SameKids(L) /\ NameInv(L)' /\ SizeInv(L)' /\ area'[r] = e
      BY <2>6, UnseenStep
    <2> QED
      BY <2>1, <2>3
  <1>12. TypeInv'
    <2>1. FrameInv'
      BY <1>2, <1>5, Given, FrameStays DEF SameCall
    <2> QED
      BY <1>11, <2>1 DEF TypeInv
  <1>13. PhaseInv'
    <2>1. c'.op \in OpsAt(At') /\ c'.ret \in RetsOf(c'.op)
      BY <1>3, <1>5, <1>6, PhaseTable DEF GrowPc, Naming
    <2> QED
      BY <1>3, <1>5, <1>6, <1>7, <2>1 DEF PhaseInv
  <1>14. AreaInv'
    <2>1. \A b \in Block : AreaOk(area[b], Limit(b))'
      BY <1>2, <1>4, <1>5, <1>10, Given, AreasChange DEF WholeInv
    <2> QED
      BY <1>6, <1>7, <2>1 DEF AreaInv
  <1>15. CallInv(L)'
    <2>1. WriteOk(L)' /\ GoneOk(L)'
      BY <1>3, <1>6 DEF WriteOk, GoneOk
    <2>2. NewOk(L)'
      <3>1. NewOk(L)
        BY DEF WholeInv, CallInv
      <3>2. c.ino \in imap \ L /\ c.node.type = "DIR" /\ c.node.data = None /\ c.node.size = 0
        BY <1>3, <1>7, <3>1 DEF NewOk
      <3>3. area'[c'.root] = EmptyArea /\ imap' = imap
        BY <1>1, <1>2, <1>5, <1>11
      <3> QED
        BY <1>3, <1>6, <1>7, <3>2, <3>3 DEF NewOk, EmptyArea
    <2>3. DirsOk(L)'
      BY <1>5, <1>7, <1>11, DirsStay DEF WholeInv, CallInv
    <2>4. PlaceOk(L)'
      BY <1>5, <1>6, <1>7, <1>11, PlaceStays DEF WholeInv, CallInv
    <2> QED
      BY <2>1, <2>2, <2>3, <2>4 DEF CallInv
  <1>16. BlockInv(L)'
    <2>1. ASSUME NEW i \in Members(L), NEW f \in Stream PROVE Cur(i, f)' = Cur(i, f)
      BY <1>2, <1>3, <1>5, <1>6, <1>7 DEF Cur
    <2>2. BlockInv(L) /\ chain' = chain
      BY <1>2 DEF WholeInv
    <2>3. \A i \in Members(L)', f \in Stream : Blk(Cur(i, f)) \subseteq bmap'
      BY <1>2, <1>8, <2>2 DEF BlockInv
    <2>4. Held' = {} /\ Held = {} /\ Doomed' = {} /\ Left' = {}
      BY <1>3, <1>6 DEF Held, Doomed, Left
    <2>5. At' # "prep" /\ At' # "link"
      BY <1>6
    <2> QED
      BY <1>8, <2>1, <2>2, <2>3, <2>4, <2>5, BlocksStay
  <1> QED
    BY <1>11, <1>12, <1>13, <1>14, <1>15, <1>16 DEF WholeInv

\* What nyfs_dirhash_insert works on, before the header is written.
LEMMA InsertFacts ==
    ASSUME NEW L \in SUBSET Ino, WholeInv(L), c.pc \in {"dirent", "name", "slot"}
    PROVE  /\ At = c.pc /\ c.op \in Naming /\ Inserting /\ ~Building /\ (Creating => ChildWritten)
           /\ (c.op \in {"create", "mkdir"} <=> Creating) /\ (c.op \in {"rename", "restore"} => Unplaced)
           /\ (At \in {"name", "slot"} => Recorded)
           /\ c.root \in Block /\ c.root = itab[InDir].dir /\ c.idx = area[c.root].next
           /\ AreaOk(area[c.root], area[c.root].next)
           /\ c.ino \in Ino /\ InName \in Name /\ InDir \in L /\ IsDir(InDir)
  <1>1. At = c.pc /\ c.op \in Naming
    <2>1. At = c.pc
      BY DEF At
    <2> QED
      BY <2>1, PhaseTable DEF WholeInv, PhaseInv
  <1>2. /\ Inserting /\ ~Building /\ (Creating => ChildWritten) /\ (At \in {"name", "slot"} => Recorded)
        /\ (c.op \in {"create", "mkdir"} <=> Creating) /\ (c.op \in {"rename", "restore"} => Unplaced)
    BY <1>1 DEF Inserting, Building, Creating, ChildWritten, Recorded, Unplaced, InGrow, GrowPc
  <1>3. InDir \in L /\ IsDir(InDir) /\ InName \in Name /\ itab[InDir].dir \in Block
    BY <1>1, InDirFacts
  <1>4. c.root = itab[InDir].dir /\ c.idx = area[c.root].next
    BY <1>2 DEF WholeInv, CallInv, DirsOk, AreaInv
  <1>5. AreaOk(area[c.root], area[c.root].next)
    <2>1. Limit(c.root) = area[c.root].next
      BY DEF Limit
    <2> QED
      BY <1>3, <1>4, <2>1 DEF WholeInv, AreaInv
  <1>6. c.ino \in Ino
    <2>1. Creating => c.ino \in imap
      BY DEF WholeInv, CallInv, NewOk
    <2>2. Unplaced => c.ino \in L
      BY DEF WholeInv, CallInv, PlaceOk
    <2> QED
      BY <1>1, <1>2, <2>1, <2>2, Given DEF Naming
  <1> QED
    BY <1>1, <1>2, <1>3, <1>4, <1>5, <1>6

\* The record is as nyfs_dirhash_insert wants it.
Recorded2(a, name) ==
    /\ c.idx \in DOMAIN a.rec /\ a.rec[c.idx].ino = c.ino /\ a.rec[c.idx].hash = InName
    /\ a.rec[c.idx].next = a.head[BucketOf[InName]]
    /\ name => a.rec[c.idx].name = InName

\* The record and its name are written.
LEMMA RecordStep ==
    ASSUME NEW L \in SUBSET Ino, WholeInv(L), UNCHANGED <<bmap, imap, itab, chain, open>>,
           NEW a2 \in AreaT, AreaOk(a2, a2.next), Unseen(L, c.root, a2), a2.next = area[c.root].next,
           area' = [area EXCEPT ![c.root] = a2],
           c' \in Frame, SameCall, c'.root = c.root, c'.idx = c.idx,
           \/ c.pc = "dirent" /\ c'.pc = "grow" /\ c'.ret = "name" /\ Recorded2(a2, FALSE)
           \/ c.pc = "name" /\ c'.pc = "slot" /\ Recorded2(a2, TRUE)
    PROVE  WholeInv(L)'
  <1>1. PICK r : r = c.root
    OBVIOUS
  <1>2. /\ At = c.pc /\ c.op \in Naming /\ Inserting /\ ~Building /\ (Creating => ChildWritten)
        /\ (c.op \in {"create", "mkdir"} <=> Creating) /\ (c.op \in {"rename", "restore"} => Unplaced)
        /\ r \in Block /\ r = itab[InDir].dir /\ c.idx = area[r].next
        /\ c.ino \in Ino /\ InName \in Name /\ InDir \in L /\ IsDir(InDir)
    BY <1>1, InsertFacts
  <1>3. At' = c'.pc /\ c'.op = c.op /\ c'.ino = c.ino /\ c'.node = c.node /\ SameArgs /\ InName' = InName
    BY DEF At, SameCall, SameArgs, InName
  <1>4. /\ Inserting' /\ Recorded' /\ Creating' = Creating /\ (Creating' => ChildWritten') /\ (Unplaced' => Unplaced)
        /\ ~Growing' /\ ~Growing
        /\ (InGrow' => c'.pc = "grow" /\ c'.ret = "name") /\ At' \in {"grow", "slot"}
    BY <1>2, <1>3 DEF InGrow, Building, Growing, Inserting, Recorded, Creating, ChildWritten, Unplaced, GrowPc, Naming
  <1>5. r # None
    BY <1>2 DEF Block, None
  <1>6. DiskInv' /\ SameInodes(L) /\ SameKids(L) /\ NameInv(L)' /\ SizeInv(L)' /\ area'[r] = a2
        /\ \A b \in Block : b # r => area'[b] = area[b]
    <2>1. Unseen(L, r, a2) /\ area' = [area EXCEPT ![r] = a2]
      BY <1>1
    <2>2. Rewrites(L, r, a2)
      BY <1>2, <2>1 DEF Rewrites
    <2> QED
      BY <2>2, UnseenStep
  <1>7. TypeInv'
    <2>1. FrameInv'
      BY Given, FrameStays DEF SameCall
    <2> QED
      BY <1>6, <2>1 DEF TypeInv
  <1>8. PhaseInv'
    <2>1. c'.op \in OpsAt(At')
      BY <1>2, <1>3, <1>4, PhaseTable DEF GrowPc
    <2>2. InGrow' => c'.ret \in RetsOf(c'.op)
      BY <1>2, <1>3, <1>4, PhaseTable DEF Naming
    <2> QED
      BY <1>3, <1>4, <2>1, <2>2 DEF PhaseInv
  <1>9. AreaInv'
    <2>1. \A b \in Block : AreaOk(area[b], Limit(b))'
      BY <1>1, <1>2, Given, AreasChange DEF WholeInv
    <2>2. c'.root # None /\ c'.idx = area'[c'.root].next
      BY <1>1, <1>2, <1>5, <1>6
    <2>3. /\ c'.idx \in DOMAIN area'[c'.root].rec
          /\ area'[c'.root].rec[c'.idx].ino = c'.ino
          /\ area'[c'.root].rec[c'.idx].hash = InName'
          /\ area'[c'.root].rec[c'.idx].next = area'[c'.root].head[BucketOf[InName']]
          /\ At' = "slot" => area'[c'.root].rec[c'.idx].name = InName'
      BY <1>1, <1>3, <1>4, <1>6 DEF Recorded2
    <2> QED
      BY <2>1, <2>2, <2>3 DEF AreaInv
  <1>10. CallInv(L)'
    <2>1. WriteOk(L)' /\ GoneOk(L)'
      BY <1>2, <1>3, <1>4 DEF WriteOk, GoneOk, Naming
    <2>2. NewOk(L)'
      <3> SUFFICES ASSUME Creating' PROVE NewOk(L)'
        BY DEF NewOk
      <3>1. NewOk(L) /\ Creating /\ ChildWritten /\ c.ino \notin L
        BY <1>2, <1>4 DEF WholeInv, CallInv, NewOk
      <3>2. /\ c.ino \in imap \ L
            /\ c.node.type = (IF c.op = "mkdir" THEN "DIR" ELSE "FILE")
            /\ c.node.data = None /\ c.node.size = 0
            /\ c.op = "create" => c.node.dir = None
            /\ itab[c.ino] = c.node
            /\ c.op = "mkdir" => c.node.dir # None /\ area[c.node.dir] = EmptyArea
        BY <3>1 DEF NewOk
      <3>3. c.op = "mkdir" => area'[c.node.dir] = EmptyArea
        <4> SUFFICES ASSUME c.op = "mkdir" PROVE area'[c.node.dir] = EmptyArea
          OBVIOUS
        <4>1. PICK i : i = c.ino
          OBVIOUS
        <4>2. i \in Members(L) /\ "dir" \in Stream /\ Cur(i, "dir") = c.node.dir /\ i # InDir
          BY <1>2, <3>1, <4>1 DEF Members, Stream, Cur
        <4>3. c.node.dir # r
          BY <1>2, <4>2, RootApart
        <4>4. c.node.dir \in Block
          BY <3>2, Given, FrameFields DEF InodeT, Ptr
        <4> QED
          BY <1>6, <3>2, <4>3, <4>4
      <3>4. /\ c'.ino \in imap' \ L
            /\ c'.node.type = (IF c'.op = "mkdir" THEN "DIR" ELSE "FILE")
            /\ c'.node.data = None /\ c'.node.size = 0
            /\ c'.op = "create" => c'.node.dir = None
            /\ itab'[c'.ino] = c'.node
            /\ c'.op = "mkdir" => c'.node.dir # None /\ area'[c'.node.dir] = EmptyArea
        BY <1>3, <3>2, <3>3
      <3>5. At' # "child" /\ At' # "buckets" /\ ~(InGrow' /\ c'.ret = "buckets")
        BY <1>4
      <3> QED
        BY <1>3, <3>4, <3>5 DEF NewOk, EmptyArea
    <2>3. DirsOk(L)'
      BY <1>2, <1>3, <1>6, DirsStay DEF WholeInv, CallInv
    <2>4. PlaceOk(L)'
      BY <1>3, <1>4, <1>6, PlaceStays DEF WholeInv, CallInv
    <2> QED
      BY <2>1, <2>2, <2>3, <2>4 DEF CallInv
  <1>11. BlockInv(L)'
    <2>1. /\ Members(L)' \subseteq Members(L)
          /\ \A i \in Members(L)', f \in Stream : Cur(i, f)' \in {None, Cur(i, f)}
      BY <1>4, CurStays DEF WholeInv, CallInv
    <2>2. BlockInv(L) /\ chain' = chain
      BY DEF WholeInv
    <2>3. \A i \in Members(L)', f \in Stream : Blk(Cur(i, f)) \subseteq bmap'
      BY <2>1, <2>2 DEF BlockInv
    <2>4. Held' = {} /\ Held = {} /\ Doomed' = {} /\ Left' = {}
      BY <1>2, <1>3, <1>4 DEF Held, Doomed, Left, Naming
    <2>5. At' # "prep" /\ At' # "link"
      BY <1>4
    <2> QED
      BY <2>1, <2>2, <2>3, <2>4, <2>5, BlocksStay
  <1> QED
    BY <1>6, <1>7, <1>8, <1>9, <1>10, <1>11 DEF WholeInv

\* WriteDirent keeps the invariant.
LEMMA WriteDirentStep ==
    ASSUME NEW L \in SUBSET Ino, WholeInv(L), WriteDirent
    PROVE  WholeInv(L)'
  <1>1. PICK r, a : r = c.root /\ a = area[r]
    OBVIOUS
  <1>2. PICK e : e = [ino |-> c.ino, next |-> a.head[BucketOf[InName]], hash |-> InName,
                      name |-> IF c.idx \in DOMAIN a.rec THEN a.rec[c.idx].name ELSE None]
    OBVIOUS
  <1>3. PICK a2 : a2 = [a EXCEPT !.rec = Put(@, c.idx, e)]
    OBVIOUS
  <1>4. c.pc = "dirent" /\ UNCHANGED <<bmap, imap, itab, chain, open>>
        /\ c' = [c EXCEPT !.pc = "grow", !.root = c.root, !.need = BlocksFor(2 * c.idx + 2), !.ret = "name"]
    BY DEF WriteDirent, Grow, env
  <1>5. /\ r \in Block /\ c.idx = a.next /\ AreaOk(a, a.next) /\ c.ino \in Ino /\ InName \in Name
    BY <1>1, <1>4, InsertFacts
  <1>6. area' = [area EXCEPT ![c.root] = a2]
    <2>1. area' = [area EXCEPT ![c.root].rec = Put(@, c.idx, e)]
      BY <1>1, <1>2, <1>5, Given DEF WriteDirent, DiskInv
    <2> QED
      BY <1>1, <1>3, <1>5, <2>1, Given DEF DiskInv
  <1>7. a \in AreaT /\ BucketOf[InName] \in Bucket /\ c.idx \in Nat
    BY <1>5, BucketOfName, Given, FrameFields DEF AreaOk
  <1>8. e \in RecT /\ e.next = a.head[BucketOf[InName]] /\ e.ino = c.ino /\ e.hash = InName
    <2>1. a.head[BucketOf[InName]] \in Nat
      BY <1>7 DEF AreaT
    <2>2. c.idx \in DOMAIN a.rec => a.rec[c.idx].name \in Name \cup {None}
      <3> SUFFICES ASSUME c.idx \in DOMAIN a.rec PROVE a.rec[c.idx].name \in Name \cup {None}
        OBVIOUS
      <3>1. a.rec \in Seq(RecT)
        BY <1>7 DEF AreaT
      <3>2. a.rec[c.idx] \in RecT
        BY <3>1
      <3> QED
        BY <3>2 DEF RecT
    <2> QED
      BY <1>2, <1>5, <2>1, <2>2 DEF RecT
  <1>9. /\ AreaOk(a2, a.next) /\ a2.next = a.next /\ a2.head = a.head
        /\ a.next \in DOMAIN a2.rec /\ a2.rec[a.next] = e
        /\ \A m \in Name : Lookup(a2, m) = Lookup(a, m)
    <2>1. PICK n : n = InName
      OBVIOUS
    <2>2. a2 = [a EXCEPT !.rec = Put(@, a.next, e)] /\ n \in Name /\ e \in RecT /\ e.next = a.head[BucketOf[n]]
      BY <1>3, <1>5, <1>8, <2>1
    <2>3. AreaOk(a, a.next)
      BY <1>5
    <2>4. \A x : x = [a EXCEPT !.rec = Put(@, a.next, e)] =>
             /\ AreaOk(x, a.next) /\ x.next = a.next /\ x.head = a.head
             /\ a.next \in DOMAIN x.rec /\ x.rec[a.next] = e
             /\ \A m \in Name : Lookup(x, m) = Lookup(a, m)
      BY <2>2, <2>3, DirentFacts
    <2> QED
      BY <2>2, <2>4
  <1>10. a2 \in AreaT /\ Unseen(L, c.root, a2) /\ Recorded2(a2, FALSE)
    BY <1>1, <1>5, <1>8, <1>9 DEF AreaOk, Unseen, Recorded2
  <1>11. c' \in Frame /\ c'.pc = "grow" /\ SameCall /\ c'.root = c.root /\ c'.ret = "name" /\ c'.idx = c.idx
    <2>1. "name" \in Pc /\ "grow" \in Pc /\ BlocksFor(2 * c.idx + 2) \in Nat
      BY <1>7, BlocksForFacts DEF Pc, GrowPc
    <2> QED
      BY <1>4, <2>1, Given DEF Frame, SameCall
  <1> QED
    BY <1>1, <1>4, <1>6, <1>9, <1>10, <1>11, RecordStep

\* WriteName keeps the invariant.
LEMMA WriteNameStep ==
    ASSUME NEW L \in SUBSET Ino, WholeInv(L), WriteName
    PROVE  WholeInv(L)'
  <1>1. PICK r, a : r = c.root /\ a = area[r]
    OBVIOUS
  <1>2. PICK k, n : k = a.next /\ n = InName
    OBVIOUS
  <1>3. PICK a2 : a2 = [a EXCEPT !.rec[k].name = n]
    OBVIOUS
  <1>4. c.pc = "name" /\ UNCHANGED <<bmap, imap, itab, chain, open>> /\ c' = [c EXCEPT !.pc = "slot"]
    BY DEF WriteName, Goto, env
  <1>5. /\ r \in Block /\ c.idx = k /\ AreaOk(a, a.next) /\ n \in Name /\ Recorded
    BY <1>1, <1>2, <1>4, InsertFacts
  <1>6. area' = [area EXCEPT ![c.root] = a2]
    BY <1>1, <1>2, <1>3, <1>5, Given DEF WriteName, DiskInv
  <1>7. Recorded2(a, FALSE) /\ k \in DOMAIN a.rec
    BY <1>1, <1>5 DEF WholeInv, AreaInv, Recorded2
  <1>8. /\ AreaOk(a2, a.next) /\ a2.next = a.next /\ a2.head = a.head
        /\ a.next \in DOMAIN a2.rec /\ a2.rec[a.next] = [a.rec[a.next] EXCEPT !.name = n]
        /\ \A m \in Name : Lookup(a2, m) = Lookup(a, m)
    BY <1>2, <1>3, <1>5, <1>7, NameFacts
  <1>9. a.rec[k] \in RecT
    BY <1>5, <1>7 DEF AreaOk, AreaT
  <1>10. a2 \in AreaT /\ Unseen(L, c.root, a2)
    BY <1>1, <1>8 DEF AreaOk, Unseen
  <1>11. Recorded2(a2, TRUE)
    <2>1. a2.rec[k].name = n /\ a2.rec[k].ino = a.rec[k].ino /\ a2.rec[k].hash = a.rec[k].hash
          /\ a2.rec[k].next = a.rec[k].next
      BY <1>2, <1>8, <1>9 DEF RecT
    <2> QED
      BY <1>2, <1>5, <1>7, <1>8, <2>1 DEF Recorded2
  <1>12. c' \in Frame /\ c'.pc = "slot" /\ SameCall /\ c'.root = c.root /\ c'.idx = c.idx
    <2>1. "slot" \in Pc
      BY DEF Pc
    <2> QED
      BY <1>4, <2>1, Given, GotoFacts
  <1> QED
    BY <1>1, <1>4, <1>6, <1>8, <1>10, <1>11, <1>12, RecordStep

\* Record k of a, which is ready for name n, is put at the head of its bucket.
Hooked(a2, a, k, n) ==
    /\ AreaOk(a, k) /\ n \in Name /\ k \in DOMAIN a.rec
    /\ a.rec[k].next = a.head[BucketOf[n]] /\ a.rec[k].hash = n /\ a.rec[k].name = n
    /\ Lookup(a, n) = None /\ a2 \in AreaT /\ a2.rec = a.rec
    /\ \A b \in Bucket : a2.head[b] = IF b = BucketOf[n] THEN k ELSE a.head[b]

\* The area then has name n, and the other names as before.
LEMMA HookFacts ==
    ASSUME NEW k \in Nat, NEW a, NEW a2, NEW n, Hooked(a2, a, k, n)
    PROVE  /\ AreaOk(a2, k + 1)
           /\ \A m \in Name : Lookup(a2, m) = IF m = n THEN a.rec[k].ino ELSE Lookup(a, m)
  <1>1. PICK l \in Nat : l = k + 1
    OBVIOUS
  <1>2. /\ AreaOk(a2, l)
        /\ \A m \in Name : Lookup(a2, m) = IF m = n THEN a.rec[k].ino ELSE Lookup(a, m)
    BY <1>1, SlotAdds DEF Hooked
  <1> QED
    BY <1>1, <1>2

\* WriteSlot keeps the invariant: from now on the new inode belongs to L.
LEMMA WriteSlotStep ==
    ASSUME NEW L \in SUBSET Ino, WholeInv(L), WriteSlot
    PROVE  \E M \in SUBSET Ino : WholeInv(M)'
  <1>1. PICK r, a, n, k, t, e : r = c.root /\ a = area[r] /\ n = InName /\ k = c.idx /\ t = c.ino /\ e = InDir
    OBVIOUS
  <1>2. PICK a2 : a2 = [a EXCEPT !.head[BucketOf[n]] = k]
    OBVIOUS
  <1>3. c.pc = "slot" /\ UNCHANGED <<bmap, imap, itab, chain, open>> /\ OpenInodes' = OpenInodes
        /\ c' = [c EXCEPT !.pc = "header"]
    BY DEF WriteSlot, Goto, env, OpenInodes
  <1>4. /\ At = "slot" /\ c.op \in Naming /\ Inserting /\ ~Building /\ (Creating => ChildWritten)
        /\ (c.op \in {"create", "mkdir"} <=> Creating) /\ (c.op \in {"rename", "restore"} => Unplaced) /\ Recorded
        /\ r \in Block /\ r = itab[e].dir /\ k = a.next /\ AreaOk(a, k)
        /\ t \in Ino /\ n \in Name /\ e \in L /\ IsDir(e)
    BY <1>1, <1>3, InsertFacts
  <1>5. /\ k \in DOMAIN a.rec /\ a.rec[k].ino = t /\ a.rec[k].hash = n /\ a.rec[k].name = n
        /\ a.rec[k].next = a.head[BucketOf[n]]
    BY <1>1, <1>4 DEF WholeInv, AreaInv
  <1>6. a \in AreaT /\ k \in Nat /\ BucketOf[n] \in Bucket
    BY <1>1, <1>4, BucketOfName, Given, FrameFields DEF AreaOk
  <1>7. area' = [area EXCEPT ![r] = a2]
    BY <1>1, <1>2, <1>4, Given DEF WriteSlot, DiskInv
  <1>8. /\ a2 \in AreaT /\ a2.rec = a.rec /\ a2.next = a.next
        /\ \A b \in Bucket : a2.head[b] = IF b = BucketOf[n] THEN k ELSE a.head[b]
    BY <1>2, <1>6 DEF AreaT
  <1>9. Kid(e, n) = None /\ Kid(e, n) = Lookup(a, n)
    <2>1. Kid(e, n) = Lookup(a, n)
      BY <1>1, <1>4 DEF Kid, AreaOf
    <2>2. PlaceOk(L)
      BY DEF WholeInv, CallInv
    <2>3. CASE c.op = "rename"
      BY <1>1, <1>4, <2>1, <2>2, <2>3 DEF PlaceOk, InDir, InName
    <2>4. CASE c.op # "rename"
      <3>1. Creating \/ Unplaced
        BY <1>4, <2>4 DEF Naming
      <3> QED
        BY <1>1, <2>1, <2>2, <2>4, <3>1 DEF PlaceOk, InDir, InName
    <2> QED
      BY <2>3, <2>4
  <1>10. /\ AreaOk(a2, k + 1)
         /\ \A m \in Name : Lookup(a2, m) = IF m = n THEN t ELSE Lookup(a, m)
    <2>1. Hooked(a2, a, k, n)
      BY <1>4, <1>5, <1>8, <1>9 DEF Hooked
    <2>2. /\ AreaOk(a2, k + 1)
          /\ \A m \in Name : Lookup(a2, m) = IF m = n THEN a.rec[k].ino ELSE Lookup(a, m)
      BY <1>6, <2>1, HookFacts
    <2> QED
      BY <1>5, <2>2
  <1>11. /\ c' \in Frame /\ c'.pc = "header" /\ SameCall /\ SameArgs /\ c'.root = r /\ c'.idx = k
    <2>1. "header" \in Pc
      BY DEF Pc
    <2> QED
      BY <1>1, <1>3, <2>1, Given, GotoFacts DEF SameCall, SameArgs
  <1>12. At' = "header" /\ c'.op = c.op
    BY <1>11 DEF At, SameCall
  <1>13. /\ ~InGrow' /\ ~Building' /\ ~Inserting' /\ ~Recorded' /\ ~Creating' /\ ~Unplaced'
    BY <1>12 DEF InGrow, Building, Inserting, Recorded, Creating, Unplaced, GrowPc
  <1>14. /\ area' \in [Block -> AreaT] /\ area'[r] = a2 /\ \A b \in Block : b # r => area'[b] = area[b]
         /\ \A b \in Block : AreaOk(area[b], Limit(b))'
    <2>1. AreaOk(a2, IF c'.pc = "header" THEN a2.next + 1 ELSE a2.next)
      BY <1>4, <1>8, <1>10, <1>11
    <2> QED
      BY <1>3, <1>4, <1>7, <1>11, <2>1, Given, AreasChange DEF WholeInv
  <1>15. TypeInv'
    <2>1. DiskInv'
      BY <1>3, <1>14, Given DEF DiskInv, Grounded
    <2>2. FrameInv'
      BY <1>1, <1>3, <1>11, Given, FrameStays DEF SameCall
    <2> QED
      BY <2>1, <2>2 DEF TypeInv
  <1>16. PhaseInv'
    <2>1. c'.op \in OpsAt(At')
      BY <1>4, <1>12, PhaseTable
    <2> QED
      BY <1>11, <1>12, <1>13, <2>1 DEF PhaseInv
  <1>17. AreaInv'
    <2>1. c'.root # None /\ c'.idx = area'[c'.root].next
      <3>1. r # None
        BY <1>4 DEF Block, None
      <3> QED
        BY <1>4, <1>8, <1>11, <1>14, <3>1
    <2> QED
      BY <1>13, <1>14, <2>1 DEF AreaInv
  <1>18. PICK M : M = L \cup {t}
    OBVIOUS
  <1>19. /\ Creating => /\ t \in imap \ L /\ itab[t] = c.node /\ c.node.type = (IF c.op = "mkdir" THEN "DIR" ELSE "FILE")
                        /\ c.node.data = None /\ c.node.size = 0 /\ (c.op = "create" => c.node.dir = None)
                        /\ c.op = "mkdir" => c.node.dir # None /\ area[c.node.dir] = EmptyArea
         /\ ~Creating => t \in L
         /\ t # Root /\ \A d \in L, m \in Name : Kid(d, m) # t
    <2>1. CASE Creating
      <3>1. /\ t \in imap \ L /\ itab[t] = c.node /\ c.node.type = (IF c.op = "mkdir" THEN "DIR" ELSE "FILE")
            /\ c.node.data = None /\ c.node.size = 0 /\ (c.op = "create" => c.node.dir = None)
            /\ c.op = "mkdir" => c.node.dir # None /\ area[c.node.dir] = EmptyArea
        BY <1>1, <1>4, <2>1 DEF WholeInv, CallInv, NewOk
      <3>2. t # Root /\ \A d \in L, m \in Name : Kid(d, m) # t
        <4>1. t # None
          BY <1>4 DEF Ino, None
        <4> QED
          BY <3>1, <4>1 DEF WholeInv, NameInv
      <3> QED
        BY <2>1, <3>1, <3>2
    <2>2. CASE ~Creating
      <3>1. Unplaced
        BY <1>4, <2>2 DEF Naming
      <3> QED
        BY <1>1, <2>2, <3>1 DEF WholeInv, CallInv, PlaceOk
    <2> QED
      BY <2>1, <2>2
  <1>20. \A d \in L, m \in Name : Kid(d, m)' = IF d = e /\ m = n THEN t ELSE Kid(d, m)
    <2> SUFFICES ASSUME NEW d \in L, NEW m \in Name
                 PROVE Kid(d, m)' = IF d = e /\ m = n THEN t ELSE Kid(d, m)
      OBVIOUS
    <2>1. Kid(d, m)' = IF itab[d].type = "DIR" THEN Lookup(area'[itab[d].dir], m) ELSE None
      BY <1>3 DEF Kid, IsDir, AreaOf, Lookup, Hits, Walk, FirstHit, Matches
    <2>2. Kid(d, m) = IF itab[d].type = "DIR" THEN Lookup(area[itab[d].dir], m) ELSE None
      BY DEF Kid, IsDir, AreaOf
    <2>3. CASE d = e
      BY <1>1, <1>4, <1>10, <1>14, <2>1, <2>2, <2>3 DEF IsDir
    <2>4. CASE d # e /\ itab[d].type = "DIR"
      <3>1. Cur(e, "dir") = r /\ e \in Members(L) /\ "dir" \in Stream
        <4>1. d \in Members(L) /\ e \in Members(L) /\ "dir" \in Stream
          BY <1>4 DEF Members, Stream
        <4> QED
          BY <1>4, <2>4, <4>1, RootApart
      <3>2. itab[d].dir \in Block /\ itab[d].dir # r
        BY <2>4, <3>1, RootApart DEF IsDir
      <3> QED
        BY <1>14, <2>1, <2>2, <2>4, <3>2
    <2>5. CASE itab[d].type # "DIR"
      BY <1>4, <2>1, <2>2, <2>5 DEF IsDir
    <2> QED
      BY <2>3, <2>4, <2>5
  <1>21. Creating => \A m \in Name : Kid(t, m)' = None
    <2> SUFFICES ASSUME Creating, NEW m \in Name PROVE Kid(t, m)' = None
      OBVIOUS
    <2>1. Kid(t, m)' = IF itab[t].type = "DIR" THEN Lookup(area'[itab[t].dir], m) ELSE None
      BY <1>3 DEF Kid, IsDir, AreaOf, Lookup, Hits, Walk, FirstHit, Matches
    <2>2. CASE c.op = "mkdir"
      <3>1. t \in Members(L) /\ "dir" \in Stream /\ Cur(t, "dir") = c.node.dir /\ t # e
        BY <1>1, <1>4, <1>19 DEF Members, Stream, Cur
      <3>2. c.node.dir # r
        BY <1>4, <3>1, RootApart
      <3>3. c.node.dir \in Block
        BY <1>19, <2>2, Given, FrameFields DEF InodeT, Ptr
      <3>4. area'[itab[t].dir] = EmptyArea
        BY <1>14, <1>19, <2>2, <3>2, <3>3
      <3> QED
        BY <2>1, <3>4, EmptyFacts
    <2>3. CASE c.op # "mkdir"
      BY <1>19, <2>1, <2>3
    <2> QED
      BY <2>2, <2>3
  <1>22. M \in SUBSET Ino /\ L \subseteq M /\ t \in M /\ M \subseteq imap
    BY <1>4, <1>18, <1>19, Given
  <1>23. NameInv(M)'
    <2>1. NameInv(L)
      BY DEF WholeInv
    <2>2. Root \in M /\ IsDir(Root)' /\ M \subseteq imap' /\ OpenInodes' \subseteq M
      BY <1>3, <1>22, <2>1 DEF NameInv, IsDir
    <2>3. \A i \in M : itab'[i].type # "NONE" /\ (IsDir(i)' => itab'[i].dir # None)
      <3>1. Creating => itab[t].type # "NONE" /\ (itab[t].type = "DIR" => itab[t].dir # None)
        BY <1>4, <1>19
      <3> QED
        BY <1>3, <1>18, <1>19, <2>1, <3>1 DEF NameInv, IsDir
    <2>4. \A d \in M, m \in Name : d \in L \/ Kid(d, m)' = None
      BY <1>18, <1>19, <1>21
    <2>5. \A d \in M, m \in Name : Kid(d, m)' # None => Kid(d, m)' \in M \ {Root}
      BY <1>18, <1>19, <1>20, <1>22, <2>1, <2>4 DEF NameInv
    <2>6. ASSUME NEW d \in M, NEW f \in M, NEW m \in Name, NEW o \in Name,
                 Kid(d, m)' # None, Kid(d, m)' = Kid(f, o)'
          PROVE  d = f /\ m = o
      <3>1. d \in L /\ f \in L
        BY <2>4, <2>6
      <3>2. Kid(d, m)' = (IF d = e /\ m = n THEN t ELSE Kid(d, m))
            /\ Kid(f, o)' = (IF f = e /\ o = n THEN t ELSE Kid(f, o))
        BY <1>20, <3>1
      <3>3. Kid(d, m) # t /\ Kid(f, o) # t
        BY <1>19, <3>1
      <3>4. Kid(d, m) # None /\ Kid(d, m) = Kid(f, o) => d = f /\ m = o
        BY <2>1, <3>1 DEF NameInv
      <3> QED
        BY <2>6, <3>2, <3>3, <3>4
    <2> QED
      BY <2>2, <2>3, <2>5, <2>6 DEF NameInv
  <1>24. CallInv(M)'
    <2>1. WriteOk(M)' /\ NewOk(M)' /\ GoneOk(M)' /\ PlaceOk(M)'
      BY <1>4, <1>12, <1>13 DEF WriteOk, NewOk, GoneOk, PlaceOk, Naming
    <2>2. DirsOk(M)'
      <3>1. DirsOk(L)'
        BY <1>3, <1>11, <1>13, SameTable, DirsStay DEF WholeInv, CallInv
      <3> QED
        BY <1>13, <1>22, <3>1 DEF DirsOk, Works
    <2> QED
      BY <2>1, <2>2 DEF CallInv
  <1>25. BlockInv(M)'
    <2>1. Members(L) = M /\ Members(M)' = M
      BY <1>1, <1>13, <1>18, <1>19 DEF Members
    <2>2. ASSUME NEW i \in M, NEW f \in Stream PROVE Cur(i, f)' = Cur(i, f)
      <3>1. Cur(i, f)' = itab[i][f]
        BY <1>3, <1>4, <1>12, <1>13 DEF Cur, Naming
      <3>2. Cur(i, f) = itab[i][f]
        BY <1>1, <1>4, <1>19 DEF Cur, Naming
      <3> QED
        BY <3>1, <3>2
    <2>3. BlockInv(L) /\ chain' = chain
      BY <1>3 DEF WholeInv
    <2>4. \A i \in Members(M)', f \in Stream : Blk(Cur(i, f)) \subseteq bmap'
      BY <1>3, <2>1, <2>3 DEF BlockInv
    <2>5. Held' = {} /\ Held = {} /\ Doomed' = {} /\ Left' = {}
      BY <1>4, <1>12 DEF Held, Doomed, Left, Naming
    <2>6. At' # "prep" /\ At' # "link"
      BY <1>12
    <2> QED
      BY <1>22, <2>1, <2>2, <2>3, <2>4, <2>5, <2>6, BlocksStay
  <1>26. SizeInv(M)'
    <2>1. SizeInv(L)'
      BY <1>3, SameTable, SizesStay DEF WholeInv
    <2>2. Creating => itab'[t].size <= Total(itab[t].data)' * BlockUnits
      <3> SUFFICES ASSUME Creating PROVE itab'[t].size <= Total(itab[t].data)' * BlockUnits
        OBVIOUS
      <3>1. itab'[t].size = 0 /\ itab'[t].data = None
        BY <1>3, <1>19
      <3>2. Total(itab[t].data)' = 0
        BY <3>1 DEF Total
      <3>3. 0 * BlockUnits = 0
        BY SizeAssumption
      <3> QED
        BY <3>1, <3>2, <3>3
    <2> QED
      BY <1>18, <1>19, <2>1, <2>2 DEF SizeInv
  <1>27. WholeInv(M)'
    BY <1>15, <1>16, <1>17, <1>23, <1>24, <1>25, <1>26 DEF WholeInv
  <1> QED
    BY <1>22, <1>27

\* The header counts an entry more or less, and so does the copy of the directory's inode.
LEMMA CountStep ==
    ASSUME NEW L \in SUBSET Ino, WholeInv(L), NEW r, NEW a2, Rewrites(L, r, a2), AreaOk(a2, a2.next),
           NEW d \in Ino, NEW k \in Int, NEW p \in {"dinode", "insert"},
           c' = [c EXCEPT !.pc = p, !.copy[d].count = k],
           \/ c.pc = "header" /\ c.root = r /\ p = "dinode" /\ c.op \in Naming
           \/ c.pc = "unheader" /\ c.op = "rename" /\ p = "insert"
           \/ c.pc = "unheader" /\ c.op = "unlink" /\ p = "dinode"
    PROVE  WholeInv(L)'
  <1>1. /\ UNCHANGED <<bmap, imap, itab, chain, open>> /\ r \in Block /\ area' = [area EXCEPT ![r] = a2]
        /\ OpenInodes' = OpenInodes
    BY DEF Rewrites, OpenInodes
  <1>2. /\ DiskInv' /\ SameInodes(L) /\ SameKids(L) /\ NameInv(L)' /\ SizeInv(L)'
        /\ area'[r] = a2 /\ \A b \in Block : b # r => area'[b] = area[b]
    BY UnseenStep
  <1>3. /\ c' \in Frame /\ c'.pc = p /\ c'.op = c.op /\ c'.dir = c.dir /\ c'.name = c.name /\ c'.dir2 = c.dir2
        /\ c'.name2 = c.name2 /\ c'.ino = c.ino /\ c'.node = c.node /\ c'.root = c.root
        /\ \A i \in Ino : /\ c'.copy[i].type = c.copy[i].type /\ c'.copy[i].dir = c.copy[i].dir
                          /\ c'.copy[i].data = c.copy[i].data /\ c'.copy[i].size = c.copy[i].size
    <2>1. PICK x, cp : x = [c.copy[d] EXCEPT !.count = k] /\ cp = [c.copy EXCEPT ![d] = x]
      OBVIOUS
    <2>2. c.copy \in [Ino -> InodeT] /\ c.copy[d] \in InodeT
      BY Given, FrameFields
    <2>3. x \in InodeT /\ x.type = c.copy[d].type /\ x.dir = c.copy[d].dir /\ x.data = c.copy[d].data
          /\ x.size = c.copy[d].size
      BY <2>1, <2>2 DEF InodeT
    <2>4. cp \in [Ino -> InodeT] /\ cp[d] = x /\ \A i \in Ino : i # d => cp[i] = c.copy[i]
      BY <2>1, <2>2, <2>3
    <2>5. c' = [c EXCEPT !.pc = p, !.copy = cp]
      BY <2>1, <2>2, Given DEF Frame
    <2>6. p \in Pc
      BY DEF Pc
    <2>7. c' \in Frame /\ c'.pc = p /\ c'.op = c.op /\ c'.dir = c.dir /\ c'.name = c.name /\ c'.dir2 = c.dir2
          /\ c'.name2 = c.name2 /\ c'.ino = c.ino /\ c'.node = c.node /\ c'.root = c.root /\ c'.copy = cp
      <3>1. PICK z : z = c'
        OBVIOUS
      <3>2. PICK y \in Frame : y = c
        BY Given
      <3>3. PICK cq \in [Ino -> InodeT] : cq = cp
        BY <2>4
      <3>4. PICK q \in Pc : q = p
        BY <2>6
      <3>5. z = [y EXCEPT !.pc = q, !.copy = cq]
        BY <2>5, <3>1, <3>2, <3>3, <3>4
      <3>6. z \in Frame
        BY <3>5 DEF Frame
      <3>7. z.pc = q /\ z.op = y.op /\ z.dir = y.dir /\ z.name = y.name /\ z.dir2 = y.dir2
            /\ z.name2 = y.name2 /\ z.ino = y.ino /\ z.node = y.node /\ z.root = y.root /\ z.copy = cq
        BY <3>5 DEF Frame
      <3> QED
        BY <3>1, <3>2, <3>3, <3>4, <3>6, <3>7
    <2> QED
      BY <2>3, <2>4, <2>7
  <1>4. At = c.pc /\ At' = p /\ At' \in {"dinode", "insert"}
    BY <1>3 DEF At
  <1>5. /\ ~InGrow' /\ ~Building' /\ ~Inserting' /\ ~Recorded' /\ ~Creating'
        /\ (Unplaced' => p = "insert" /\ Unplaced) /\ ~Creating /\ (p = "insert" => c.op = "rename")
    BY <1>3, <1>4 DEF InGrow, Building, Inserting, Recorded, Creating, Unplaced, GrowPc
  <1>6. TypeInv'
    <2>1. FrameInv'
      <3>1. FrameInv /\ chain' = chain
        BY <1>1, Given
      <3> QED
        BY <1>3, <3>1 DEF FrameInv, Grounded
    <2> QED
      BY <1>2, <2>1 DEF TypeInv
  <1>7. PhaseInv'
    <2>1. c'.op \in OpsAt(At')
      BY <1>3, <1>4, PhaseTable DEF Naming
    <2> QED
      BY <1>3, <1>4, <1>5, <2>1 DEF PhaseInv
  <1>8. AreaInv'
    <2>1. \A b \in Block : AreaOk(area[b], Limit(b))'
      BY <1>1, <1>3, Given, AreasChange DEF WholeInv
    <2> QED
      BY <1>4, <1>5, <2>1 DEF AreaInv
  <1>9. ASSUME NEW f, NEW n, Works(L, f, n) PROVE Works(L, f, n)'
    BY <1>1, <1>3, <1>9 DEF Works, IsDir
  <1>10. CallInv(L)'
    <2>1. WriteOk(L)' /\ NewOk(L)'
      BY <1>3, <1>5 DEF WriteOk, NewOk, Naming
    <2>2. GoneOk(L)'
      <3>1. GoneOk(L)
        BY DEF WholeInv, CallInv
      <3> QED
        BY <1>3, <1>4, <3>1 DEF GoneOk, Naming
    <2>3. DirsOk(L)'
      <3>1. PICK f, n, f2, n2 : f = c.dir /\ n = c.name /\ f2 = c.dir2 /\ n2 = c.name2
        OBVIOUS
      <3>2. Works(L, f, n) /\ (c.op = "rename" => Works(L, f2, n2))
        BY <3>1 DEF WholeInv, CallInv, DirsOk, Naming
      <3>3. Works(L, f, n)' /\ (c.op = "rename" => Works(L, f2, n2)')
        BY <1>9, <3>2
      <3>4. Works(L, c.dir, c.name)' /\ (c'.op = "rename" => Works(L, c.dir2, c.name2)')
        BY <1>3, <3>1, <3>3 DEF Works
      <3> QED
        BY <1>5, <3>4 DEF DirsOk
    <2>4. PlaceOk(L)'
      <3>1. CASE ~Unplaced'
        BY <1>4, <1>5, <3>1 DEF PlaceOk
      <3>2. CASE Unplaced'
        <4>1. PICK f, n, f2, n2, t : f = c.dir /\ n = c.name /\ f2 = c.dir2 /\ n2 = c.name2 /\ t = c.ino
          OBVIOUS
        <4>2. Unplaced /\ c.op = "rename"
          BY <1>5, <3>2
        <4>3. /\ Kid(f, n) = None /\ t \in L \ {Root} /\ Kid(f2, n2) = None
              /\ \A g \in L, m \in Name : Kid(g, m) # t
          BY <4>1, <4>2 DEF WholeInv, CallInv, PlaceOk
        <4>4. f \in L /\ n \in Name /\ f2 \in L /\ n2 \in Name
          BY <4>1, <4>2 DEF WholeInv, CallInv, DirsOk, Works, Naming
        <4>5. Kid(f, n)' = None /\ Kid(f2, n2)' = None /\ \A g \in L, m \in Name : Kid(g, m)' # t
          BY <1>2, <4>3, <4>4 DEF SameKids
        <4>6. Kid(c.dir, c.name)' = Kid(f, n)' /\ Kid(c.dir2, c.name2)' = Kid(f2, n2)'
          BY <1>3, <4>1 DEF Kid, IsDir, AreaOf
        <4> QED
          BY <1>3, <1>4, <1>5, <4>1, <4>3, <4>5, <4>6 DEF PlaceOk
      <3> QED
        BY <3>1, <3>2
    <2> QED
      BY <2>1, <2>2, <2>3, <2>4 DEF CallInv
  <1>11. BlockInv(L)'
    <2>1. Members(L)' = L /\ Members(L) = L
      BY <1>5 DEF Members
    <2>2. \A i \in L, f \in Stream : Cur(i, f)' = Cur(i, f)
      <3>1. c.op # "write"
        BY DEF Naming
      <3> QED
        BY <1>1, <1>3, <1>5, <3>1 DEF Cur
    <2>3. BlockInv(L) /\ chain' = chain
      BY <1>1 DEF WholeInv
    <2>4. \A i \in L, f \in Stream : Blk(Cur(i, f)) \subseteq bmap'
      BY <1>1, <2>1, <2>3 DEF BlockInv
    <2>5. Held' = {} /\ Held = {} /\ Doomed' = {}
      BY <1>4 DEF Held, Doomed
    <2>6. Left' = Left
      <3>1. PICK x, y : x = c.node.data /\ y = c.node.dir
        OBVIOUS
      <3>2. Blk(x)' = Blk(x) /\ Blk(y)' = Blk(y)
        BY <1>1, SameChain
      <3>3. c'.node.data = x /\ c'.node.dir = y
        BY <1>3, <3>1
      <3>4. Blk(c.node.data)' = Blk(x)' /\ Blk(c.node.dir)' = Blk(y)'
        BY <3>3 DEF Blk, RangeOf, ChainBlocks
      <3> QED
        BY <1>3, <1>4, <3>1, <3>2, <3>4 DEF Left
    <2>7. At' # "prep" /\ At' # "link"
      BY <1>4
    <2> QED
      BY <2>1, <2>2, <2>3, <2>4, <2>5, <2>6, <2>7, BlocksStay
  <1> QED
    BY <1>2, <1>6, <1>7, <1>8, <1>10, <1>11 DEF WholeInv

\* WriteHeader keeps the invariant.
LEMMA WriteHeaderStep ==
    ASSUME NEW L \in SUBSET Ino, WholeInv(L), WriteHeader
    PROVE  WholeInv(L)'
  <1>1. PICK r, a, d, k : r = c.root /\ a = area[r] /\ d = InDir /\ k = area[c.root].count + 1
    OBVIOUS
  <1>2. PICK a2 : a2 = [a EXCEPT !.next = a.next + 1, !.count = @ + 1]
    OBVIOUS
  <1>3. c.pc = "header" /\ UNCHANGED <<bmap, imap, itab, chain, open>>
        /\ c' = [c EXCEPT !.pc = "dinode", !.copy[d].count = k]
    BY <1>1 DEF WriteHeader, env
  <1>4. At = "header" /\ c.op \in Naming
    <2>1. At = "header"
      BY <1>3 DEF At
    <2> QED
      BY <2>1, PhaseTable DEF WholeInv, PhaseInv
  <1>5. c.root # None /\ c.idx = area[c.root].next /\ r \in Block
    <2>1. c.root # None /\ c.idx = area[c.root].next
      BY <1>4 DEF WholeInv, AreaInv
    <2> QED
      BY <1>1, <2>1, Given, FrameFields DEF Ptr
  <1>6. AreaOk(a, a.next + 1) /\ a \in AreaT
    <2>1. Limit(r) = a.next + 1
      BY <1>1, <1>3 DEF Limit
    <2> QED
      BY <1>1, <1>5, <2>1 DEF WholeInv, AreaInv, AreaOk
  <1>7. d \in Ino /\ k \in Int /\ a.next \in Nat
    BY <1>1, <1>4, <1>6, InDirFacts DEF AreaT
  <1>8. area' = [area EXCEPT ![r] = a2]
    BY <1>1, <1>2, <1>5, Given DEF WriteHeader, DiskInv
  <1>9. /\ AreaOk(a2, a2.next) /\ \A m \in Name : Lookup(a2, m) = Lookup(a, m)
    <2>1. a2 \in AreaT /\ a2.rec = a.rec /\ a2.head = a.head /\ a2.next = a.next + 1
      <3>1. a.next + 1 \in Nat \ {0} /\ a.count + 1 \in Int
        BY <1>6 DEF AreaT
      <3>2. PICK l \in Nat \ {0}, m \in Int : l = a.next + 1 /\ m = a.count + 1
        BY <3>1
      <3>3. a2 = [a EXCEPT !.next = l, !.count = m]
        BY <1>2, <1>6, <3>2 DEF AreaT
      <3> QED
        BY <1>6, <3>2, <3>3 DEF AreaT
    <2>2. Counted(a2, a, a.next + 1)
      BY <1>6, <1>7, <2>1 DEF Counted
    <2> QED
      BY <2>2, HeaderFacts
  <1>10. Rewrites(L, r, a2)
    BY <1>1, <1>3, <1>5, <1>8, <1>9 DEF Rewrites, Unseen, AreaOk
  <1> QED
    BY <1>1, <1>3, <1>4, <1>7, <1>9, <1>10, CountStep

\* RemoveHeader keeps the invariant.
LEMMA RemoveHeaderStep ==
    ASSUME NEW L \in SUBSET Ino, WholeInv(L), RemoveHeader
    PROVE  WholeInv(L)'
  <1>1. PICK r, a, d, k : r = c.copy[c.dir].dir /\ a = area[r] /\ d = c.dir /\ k = area[r].count - 1
    OBVIOUS
  <1>2. PICK a2, p : a2 = [a EXCEPT !.count = @ - 1] /\ p = IF c.op = "rename" THEN "insert" ELSE "dinode"
    OBVIOUS
  <1>3. c.pc = "unheader" /\ UNCHANGED <<bmap, imap, itab, chain, open>>
        /\ c' = [c EXCEPT !.pc = p, !.copy[d].count = k]
    BY <1>1, <1>2 DEF RemoveHeader, env
  <1>4. At = "unheader" /\ c.op \in {"unlink", "rename"}
    <2>1. At = "unheader"
      BY <1>3 DEF At
    <2> QED
      BY <2>1, PhaseTable DEF WholeInv, PhaseInv
  <1>5. d \in L /\ d \in Ino /\ r = itab[d].dir /\ r \in Block
    <2>1. d \in L /\ IsDir(d) /\ r = itab[d].dir
      BY <1>1, <1>4 DEF WholeInv, CallInv, DirsOk, Works, Naming
    <2>2. itab[d] \in InodeT /\ itab[d].dir # None
      BY <2>1, Given DEF DiskInv, WholeInv, NameInv
    <2> QED
      BY <2>1, <2>2 DEF InodeT, Ptr
  <1>6. AreaOk(a, a.next) /\ a \in AreaT /\ a.next \in Nat
    <2>1. Limit(r) = a.next
      BY <1>1, <1>3 DEF Limit
    <2>2. AreaOk(a, a.next)
      BY <1>1, <1>5, <2>1 DEF WholeInv, AreaInv
    <2> QED
      BY <2>2 DEF AreaOk, AreaT
  <1>7. k \in Int
    BY <1>1, <1>6 DEF AreaT
  <1>8. area' = [area EXCEPT ![r] = a2]
    BY <1>1, <1>2, <1>5, Given DEF RemoveHeader, DiskInv
  <1>9. /\ AreaOk(a2, a2.next) /\ \A m \in Name : Lookup(a2, m) = Lookup(a, m)
    <2>1. a2 \in AreaT /\ a2.rec = a.rec /\ a2.head = a.head /\ a2.next = a.next
      BY <1>2, <1>6 DEF AreaT
    <2>2. Counted(a2, a, a.next)
      BY <1>6, <2>1 DEF Counted
    <2> QED
      BY <2>2, HeaderFacts
  <1>10. Rewrites(L, r, a2)
    BY <1>1, <1>3, <1>5, <1>8, <1>9 DEF Rewrites, Unseen, AreaOk
  <1> QED
    BY <1>2, <1>3, <1>4, <1>5, <1>7, <1>9, <1>10, CountStep

\* RemoveSlot keeps the invariant: what is unlinked leaves L.
LEMMA RemoveSlotStep ==
    ASSUME NEW L \in SUBSET Ino, WholeInv(L), RemoveSlot
    PROVE  \E M \in SUBSET Ino : WholeInv(M)'
  <1>1. PICK d, n, d2, n2, t, r, a : d = c.dir /\ n = c.name /\ d2 = c.dir2 /\ n2 = c.name2 /\ t = c.ino
                                     /\ r = c.copy[c.dir].dir /\ a = area[r]
    OBVIOUS
  <1>2. PICK a2 : a2 = Unhooked(a, n)
    OBVIOUS
  <1>3. c.pc = "unslot" /\ UNCHANGED <<bmap, imap, itab, chain, open>> /\ OpenInodes' = OpenInodes
        /\ c' = [c EXCEPT !.pc = "unheader"]
    BY DEF RemoveSlot, Goto, env, OpenInodes
  <1>4. At = "unslot" /\ c.op \in {"unlink", "rename"}
    <2>1. At = "unslot"
      BY <1>3 DEF At
    <2> QED
      BY <2>1, PhaseTable DEF WholeInv, PhaseInv
  <1>5. /\ Works(L, d, n) /\ (c.op = "rename" => Works(L, d2, n2))
        /\ t # None /\ Kid(d, n) = t /\ (c.op = "rename" => Kid(d2, n2) = None)
        /\ c.op = "unlink" => t # d /\ t \notin OpenInodes /\ c.node = itab[t]
    BY <1>1, <1>4 DEF WholeInv, CallInv, DirsOk, PlaceOk, Naming
  <1>6. d \in L /\ IsDir(d) /\ n \in Name /\ r = itab[d].dir /\ r \in Block
    <2>1. d \in L /\ IsDir(d) /\ n \in Name /\ r = itab[d].dir
      BY <1>1, <1>5 DEF Works
    <2>2. itab[d] \in InodeT /\ itab[d].dir # None
      BY <2>1, Given DEF DiskInv, WholeInv, NameInv
    <2> QED
      BY <2>1, <2>2 DEF InodeT, Ptr
  <1>7. AreaOk(a, a.next) /\ a.next \in Nat
    <2>1. Limit(r) = a.next
      BY <1>1, <1>3 DEF Limit
    <2>2. AreaOk(a, a.next)
      BY <1>1, <1>6, <2>1 DEF WholeInv, AreaInv
    <2> QED
      BY <2>2 DEF AreaOk, AreaT
  <1>8. Kid(d, n) = Lookup(a, n)
    BY <1>1, <1>6 DEF Kid, AreaOf
  <1>9. /\ AreaOk(a2, a2.next) /\ a2 \in AreaT
        /\ \A m \in Name : Lookup(a2, m) = IF m = n THEN None ELSE Lookup(a, m)
    <2>1. Lookup(a, n) # None
      BY <1>5, <1>8
    <2>2. /\ AreaOk(a2, a.next) /\ a2.next = a.next
          /\ \A m \in Name : Lookup(a2, m) = IF m = n THEN None ELSE Lookup(a, m)
      BY <1>2, <1>6, <1>7, <2>1, UnhookFacts
    <2> QED
      BY <2>2 DEF AreaOk
  <1>10. area' = [area EXCEPT ![r] = a2]
    BY <1>1, <1>2, <1>6, Given DEF RemoveSlot, DiskInv
  <1>11. /\ c' \in Frame /\ c'.pc = "unheader" /\ SameCall /\ SameArgs /\ c'.root = c.root
    <2>1. "unheader" \in Pc
      BY DEF Pc
    <2> QED
      BY <1>3, <2>1, Given, GotoFacts DEF SameCall, SameArgs
  <1>12. At' = "unheader" /\ c'.op = c.op /\ c'.dir = d /\ c'.name = n /\ c'.dir2 = d2 /\ c'.name2 = n2 /\ c'.ino = t
         /\ c'.node = c.node
    BY <1>1, <1>11 DEF At, SameCall
  <1>13. /\ ~InGrow' /\ ~Building' /\ ~Inserting' /\ ~Recorded' /\ ~Creating' /\ ~Creating
         /\ (Unplaced' => c.op = "rename")
    BY <1>4, <1>12 DEF InGrow, Building, Inserting, Recorded, Creating, Unplaced, GrowPc
  <1>14. /\ area' \in [Block -> AreaT] /\ area'[r] = a2 /\ \A b \in Block : b # r => area'[b] = area[b]
         /\ \A b \in Block : AreaOk(area[b], Limit(b))'
    <2>1. c.pc # "header" /\ c'.pc # "header"
      BY <1>3, <1>11
    <2> QED
      BY <1>6, <1>9, <1>10, <2>1, Given, AreasChange DEF WholeInv
  <1>15. TypeInv'
    <2>1. DiskInv'
      BY <1>3, <1>14, Given DEF DiskInv, Grounded
    <2>2. FrameInv'
      BY <1>3, <1>11, Given, FrameStays DEF SameCall
    <2> QED
      BY <2>1, <2>2 DEF TypeInv
  <1>16. PhaseInv'
    <2>1. c'.op \in OpsAt(At')
      BY <1>4, <1>12, PhaseTable
    <2> QED
      BY <1>11, <1>12, <1>13, <2>1 DEF PhaseInv
  <1>17. AreaInv'
    BY <1>12, <1>13, <1>14 DEF AreaInv
  <1>18. NameInv(L)
    BY DEF WholeInv
  <1>19. \A e \in L, m \in Name : Kid(e, m)' = IF e = d /\ m = n THEN None ELSE Kid(e, m)
    <2> SUFFICES ASSUME NEW e \in L, NEW m \in Name
                 PROVE Kid(e, m)' = IF e = d /\ m = n THEN None ELSE Kid(e, m)
      OBVIOUS
    <2>1. Kid(e, m)' = IF itab[e].type = "DIR" THEN Lookup(area'[itab[e].dir], m) ELSE None
      BY <1>3 DEF Kid, IsDir, AreaOf, Lookup, Hits, Walk, FirstHit, Matches
    <2>2. Kid(e, m) = IF itab[e].type = "DIR" THEN Lookup(area[itab[e].dir], m) ELSE None
      BY DEF Kid, IsDir, AreaOf
    <2>3. CASE e = d
      BY <1>1, <1>6, <1>9, <1>14, <2>1, <2>2, <2>3 DEF IsDir
    <2>4. CASE e # d /\ itab[e].type = "DIR"
      <3>1. d \in Members(L) /\ e \in Members(L) /\ "dir" \in Stream
        BY <1>6 DEF Members, Stream
      <3>2. Cur(d, "dir") = r
        BY <1>6, <2>4, <3>1, RootApart
      <3>3. itab[e].dir \in Block /\ itab[e].dir # r
        BY <2>4, <3>1, <3>2, RootApart DEF IsDir
      <3> QED
        BY <1>14, <2>1, <2>2, <2>4, <3>3
    <2>5. CASE itab[e].type # "DIR"
      BY <1>6, <2>1, <2>2, <2>5 DEF IsDir
    <2> QED
      BY <2>3, <2>4, <2>5
  <1>20. t \in L \ {Root}
    BY <1>5, <1>6, <1>18 DEF NameInv
  <1>21. \A e \in L, m \in Name : Kid(e, m)' # t
    BY <1>5, <1>6, <1>18, <1>19 DEF NameInv
  <1>22. PICK M : M = IF c.op = "unlink" THEN L \ {t} ELSE L
    OBVIOUS
  <1>23. /\ M \in SUBSET Ino /\ M \subseteq L /\ Root \in M /\ d \in M /\ OpenInodes' \subseteq M
         /\ \A i \in L : i \in M \/ i = t
         /\ c.op = "unlink" => t \notin M
         /\ c.op = "rename" => M = L
    BY <1>3, <1>4, <1>5, <1>6, <1>18, <1>20, <1>22 DEF NameInv
  <1>24. NameInv(M)'
    <2>1. Root \in M /\ IsDir(Root)' /\ M \subseteq imap' /\ OpenInodes' \subseteq M
      BY <1>3, <1>18, <1>23 DEF NameInv, IsDir
    <2>2. \A i \in M : itab'[i].type # "NONE" /\ (IsDir(i)' => itab'[i].dir # None)
      BY <1>3, <1>18, <1>23 DEF NameInv, IsDir
    <2>3. ASSUME NEW e \in M, NEW m \in Name, Kid(e, m)' # None PROVE Kid(e, m)' \in M \ {Root}
      <3>1. e \in L /\ Kid(e, m)' = Kid(e, m) /\ Kid(e, m)' # t
        BY <1>19, <1>21, <1>23, <2>3
      <3>2. Kid(e, m) \in L \ {Root}
        BY <1>18, <2>3, <3>1 DEF NameInv
      <3> QED
        BY <1>23, <3>1, <3>2
    <2>4. ASSUME NEW e \in M, NEW f \in M, NEW m \in Name, NEW o \in Name,
                 Kid(e, m)' # None, Kid(e, m)' = Kid(f, o)'
          PROVE  e = f /\ m = o
      <3>1. e \in L /\ f \in L /\ Kid(e, m)' = Kid(e, m) /\ Kid(f, o)' = Kid(f, o)
        BY <1>19, <1>23, <2>4
      <3>2. Kid(e, m) # None /\ Kid(e, m) = Kid(f, o) => e = f /\ m = o
        BY <1>18, <3>1 DEF NameInv
      <3> QED
        BY <2>4, <3>1, <3>2
    <2> QED
      BY <2>1, <2>2, <2>3, <2>4 DEF NameInv
  <1>25. CallInv(M)'
    <2>1. WriteOk(M)' /\ NewOk(M)'
      BY <1>4, <1>12, <1>13 DEF WriteOk, NewOk
    <2>2. GoneOk(M)'
      <3>1. c'.op = "unlink" => c'.ino \in Ino \ M
        BY <1>12, <1>20, <1>23
      <3> QED
        BY <1>12, <3>1 DEF GoneOk
    <2>3. DirsOk(M)'
      <3>1. Works(M, d, n)' /\ (c.op = "rename" => Works(M, d2, n2)')
        BY <1>3, <1>5, <1>11, <1>23 DEF Works, IsDir, SameCall
      <3>2. Works(M, c.dir, c.name)' /\ (c'.op = "rename" => Works(M, c.dir2, c.name2)')
        BY <1>12, <3>1 DEF Works
      <3> QED
        BY <1>13, <3>2 DEF DirsOk
    <2>4. PlaceOk(M)'
      <3>1. CASE c.op = "unlink"
        BY <1>12, <1>13, <3>1 DEF PlaceOk
      <3>2. CASE c.op = "rename"
        <4>1. M = L /\ d2 \in L /\ n2 \in Name
          BY <1>5, <1>23, <3>2 DEF Works
        <4>2. Kid(d, n)' = None /\ Kid(d2, n2)' = None
          BY <1>5, <1>6, <1>19, <3>2, <4>1
        <4>3. Kid(c.dir, c.name)' = Kid(d, n)' /\ Kid(c.dir2, c.name2)' = Kid(d2, n2)'
          BY <1>12 DEF Kid, IsDir, AreaOf
        <4> QED
          BY <1>12, <1>13, <1>20, <1>21, <4>1, <4>2, <4>3 DEF PlaceOk
      <3> QED
        BY <1>4, <3>1, <3>2
    <2> QED
      BY <2>1, <2>2, <2>3, <2>4 DEF CallInv
  <1>26. BlockInv(M)'
    <2>1. Members(L) = L /\ Members(M)' = M
      BY <1>13 DEF Members
    <2>2. \A i \in L, f \in Stream : Cur(i, f) = itab[i][f] /\ Cur(i, f)' = itab[i][f]
      BY <1>3, <1>4, <1>12, <1>13 DEF Cur
    <2>3. BlockInv(L) /\ chain' = chain
      BY <1>3 DEF WholeInv
    <2>4. Held' = {} /\ Doomed' = {} /\ At' # "prep" /\ At' # "link"
      BY <1>12 DEF Held, Doomed
    <2>5. Left' = IF c.op = "unlink" THEN Blk(itab[t].data) \cup Blk(itab[t].dir) ELSE {}
      <3>1. PICK x, y : x = c.node.data /\ y = c.node.dir
        OBVIOUS
      <3>2. Blk(x)' = Blk(x) /\ Blk(y)' = Blk(y)
        BY <2>3, SameChain
      <3>3. c'.node.data = x /\ c'.node.dir = y
        BY <1>12, <3>1
      <3>4. Blk(c.node.data)' = Blk(x)' /\ Blk(c.node.dir)' = Blk(y)'
        BY <3>3 DEF Blk, RangeOf, ChainBlocks
      <3>5. Left' = IF c.op = "unlink" THEN Blk(x) \cup Blk(y) ELSE {}
        BY <1>12, <3>2, <3>4 DEF Left
      <3>6. c.op = "unlink" => x = itab[t].data /\ y = itab[t].dir
        BY <1>5, <3>1
      <3> QED
        BY <3>5, <3>6
    <2>6. ASSUME NEW i \in M, NEW f \in Stream
          PROVE  /\ Once(Cur(i, f))' /\ Blk(Cur(i, f))' \subseteq bmap'
                 /\ Blk(Cur(i, f))' \cap (Held \cup Doomed \cup Left)' = {} /\ Blk(Cur(i, f))' \subseteq Blk(Cur(i, f))
      <3>1. i \in L /\ i \in Members(L) /\ Cur(i, f)' \in {None, Cur(i, f)}
        BY <1>23, <2>1, <2>2, <2>6
      <3>2. Blk(Cur(i, f)) \subseteq bmap'
        BY <1>3, <2>3, <2>6, <3>1 DEF BlockInv
      <3>3. Blk(Cur(i, f)) \cap (Held \cup Doomed \cup Left)' = {}
        <4>1. CASE c.op # "unlink"
          BY <2>4, <2>5, <4>1
        <4>2. CASE c.op = "unlink"
          <5>1. t \in Members(L) /\ t # i /\ {"data", "dir"} \subseteq Stream
            BY <1>20, <1>23, <2>1, <2>6, <4>2 DEF Stream
          <5>2. Blk(Cur(i, f)) \cap Blk(Cur(t, "data")) = {} /\ Blk(Cur(i, f)) \cap Blk(Cur(t, "dir")) = {}
            BY <2>3, <2>6, <3>1, <5>1 DEF BlockInv
          <5>3. Cur(t, "data") = itab[t].data /\ Cur(t, "dir") = itab[t].dir
            BY <2>1, <2>2, <5>1
          <5> QED
            BY <2>4, <2>5, <4>2, <5>2, <5>3
        <4> QED
          BY <4>1, <4>2
      <3> QED
        BY <2>3, <2>6, <3>1, <3>2, <3>3, KeptStream
    <2>7. \A i \in Members(M)', f \in Stream :
             Once(Cur(i, f))' /\ Blk(Cur(i, f))' \subseteq bmap' /\ Blk(Cur(i, f))' \cap (Held \cup Doomed \cup Left)' = {}
      BY <2>1, <2>6
    <2>8. \A i \in Members(M)', f \in Stream :
             \/ Blk(Cur(i, f))' = {}
             \/ i \in Members(L) /\ Blk(Cur(i, f))' \subseteq Blk(Cur(i, f))
      BY <1>23, <2>1, <2>6
    <2>9. Held' \subseteq bmap'
      BY <2>4
    <2> QED
      BY <1>23, <2>3, <2>4, <2>7, <2>8, <2>9, StreamsStay
  <1>27. SizeInv(M)'
    <2>1. SizeInv(L)'
      BY <1>3, SameTable, SizesStay DEF WholeInv
    <2> QED
      BY <1>23, <2>1 DEF SizeInv
  <1>28. WholeInv(M)'
    BY <1>15, <1>16, <1>17, <1>24, <1>25, <1>26, <1>27 DEF WholeInv
  <1> QED
    BY <1>23, <1>28

-----------------------------------------------------------------------------
(***************************************************************************)
(* The invariant is inductive                                              *)
(***************************************************************************)
\* nyfs_format writes one chain, that of the root directory.
LEMMA InitChain ==
    ASSUME Init
    PROVE  /\ chain \in [Block -> Seq(Ext)] /\ chain[2] # <<>>
           /\ \A b \in Block : chain[b] # <<>> => chain[b][1].blk = b
           /\ Blk(2) = {1, 2} /\ Once(2)
  <1>1. 1 \in Block /\ 2 \in Block /\ None # 2
    BY SizeAssumption DEF Block, None
  <1>2. PICK s \in Seq(Ext) : s = <<>>
    <2>1. <<>> \in Seq(Ext)
      OBVIOUS
    <2> QED
      BY <2>1
  <1>3. PICK x : x = [blk |-> 2, data |-> <<1>>]
    OBVIOUS
  <1>4. PICK t : t = <<x>>
    OBVIOUS
  <1>5. t = Append(s, [blk |-> 2, data |-> <<1>>])
    BY <1>2, <1>3, <1>4
  <1>6. /\ t \in Seq(Ext) /\ t # <<>> /\ t[1].blk = 2
        /\ RangeOf(Flat(t)) = RangeOf(Flat(s)) \cup {1, 2} /\ Len(Flat(t)) = Len(Flat(s)) + 2
    <2>1. PICK d \in Block, e \in Block : d = 1 /\ e = 2
      BY <1>1
    <2>2. t = Append(s, [blk |-> e, data |-> <<d>>])
      BY <1>5, <2>1
    <2>3. /\ t \in Seq(Ext) /\ t # <<>> /\ t[1].blk = e
          /\ RangeOf(Flat(t)) = RangeOf(Flat(s)) \cup {d, e} /\ Len(Flat(t)) = Len(Flat(s)) + 2
      <3>1. Longer(t, s, d, e)
        BY <2>2 DEF Longer
      <3>2. /\ t \in Seq(Ext) /\ t # <<>> /\ (s # <<>> => t[1] = s[1]) /\ (s = <<>> => t[1].blk = e)
            /\ RangeOf(Flat(t)) = RangeOf(Flat(s)) \cup {d, e} /\ Len(Flat(t)) = Len(Flat(s)) + 2
        BY <3>1, LongerFacts
      <3> QED
        BY <1>2, <3>2
    <2> QED
      BY <1>2, <2>1, <2>3
  <1>7. Flat(s) = <<>>
    <2>1. PICK f : FlatOf(f, s)
      BY FlatExists
    <2> QED
      BY <1>2, <2>1 DEF FlatOf
  <1>8. Flat(t) \in Seq(Block) /\ RangeOf(Flat(t)) = {1, 2} /\ Len(Flat(t)) = 2
    BY <1>6, <1>7, FlatType, RangeFacts
  <1>9. chain = [b \in Block |-> IF b = 2 THEN t ELSE <<>>]
    BY <1>3, <1>4 DEF Init
  <1>10. /\ chain \in [Block -> Seq(Ext)] /\ chain[2] = t
         /\ \A b \in Block : b # 2 => chain[b] = <<>>
    BY <1>1, <1>6, <1>9
  <1>11. ChainBlocks(2) = Flat(t)
    BY <1>1, <1>10 DEF ChainBlocks
  <1>12. Cardinality({1, 2}) = 2
    <2>1. PICK y, z : y = 1 /\ z = 2
      OBVIOUS
    <2>2. y # z
      BY <2>1
    <2>3. Cardinality({y, z}) = 2
      BY <2>2, HeldFacts
    <2> QED
      BY <2>1, <2>3
  <1> QED
    BY <1>6, <1>8, <1>10, <1>11, <1>12 DEF Blk, Once

\* A formatted disk has the invariant, with the root alone in L.
LEMMA InitInv ==
    ASSUME Init
    PROVE  Inv
  <1>1. /\ bmap = {1, 2} /\ imap = {Root} /\ c = NoCall /\ open = {}
        /\ area = [b \in Block |-> EmptyArea]
        /\ itab = [i \in Ino |-> IF i = Root THEN [NoInode EXCEPT !.type = "DIR", !.dir = 2] ELSE NoInode]
    BY DEF Init
  <1>2. 1 \in Block /\ 2 \in Block /\ Root \in Ino /\ None # 2
    BY SizeAssumption DEF Block, Ino, Root, None
  <1>3. /\ NoCall.pc = "idle" /\ NoCall.op = "none" /\ NoCall.root = None
        /\ NoCall.node.data = None /\ NoCall.node.dir = None
        /\ \A i \in Ino : NoCall.copy[i].data = None /\ NoCall.copy[i].dir = None
    BY DEF NoCall, NoInode
  <1>4. /\ At = "idle" /\ c.op = "none" /\ c.pc = "idle"
        /\ ~InGrow /\ ~Building /\ ~Inserting /\ ~Recorded /\ ~Creating /\ ~Unplaced
    <2>1. At = "idle" /\ c.pc = "idle" /\ c.op = "none"
      BY <1>1, <1>3 DEF At
    <2> QED
      BY <2>1 DEF InGrow, Building, Inserting, Recorded, Creating, Unplaced, GrowPc
  <1>5. /\ itab \in [Ino -> InodeT] /\ itab[Root].type = "DIR" /\ itab[Root].data = None /\ itab[Root].dir = 2
        /\ itab[Root].size = 0
    <2>1. NoInode \in InodeT /\ NoInode.data = None /\ NoInode.size = 0
      BY DEF NoInode, InodeT, Ptr, None
    <2>2. PICK x : x = [NoInode EXCEPT !.type = "DIR", !.dir = 2]
      OBVIOUS
    <2>3. x \in InodeT /\ x.type = "DIR" /\ x.data = None /\ x.dir = 2 /\ x.size = 0
      BY <1>2, <2>1, <2>2 DEF InodeT, Ptr
    <2>4. itab = [i \in Ino |-> IF i = Root THEN x ELSE NoInode]
      BY <1>1, <2>2
    <2> QED
      BY <1>2, <2>1, <2>3, <2>4
  <1>6. \A i \in Ino : i # Root => itab[i].data = None /\ itab[i].dir = None
    BY <1>1 DEF NoInode
  <1>7. TypeInv
    <2>1. DiskInv
      <3>1. bmap \in SUBSET Block /\ imap \in SUBSET Ino
        BY <1>1, <1>2
      <3>2. area \in [Block -> AreaT]
        BY <1>1, EmptyFacts DEF AreaOk
      <3>3. \A i \in Ino : Grounded(itab[i].data) /\ Grounded(itab[i].dir)
        BY <1>5, <1>6, InitChain DEF Grounded
      <3> QED
        BY <1>5, <3>1, <3>2, <3>3, InitChain DEF DiskInv
    <2>2. FrameInv
      <3>1. NoInode \in InodeT
        BY DEF NoInode, InodeT, Ptr, None
      <3>2. NoCall \in Frame
        BY <3>1 DEF NoCall, Frame, Pc, Op, Ptr, None
      <3> QED
        BY <1>1, <1>3, <3>2 DEF FrameInv, Grounded
    <2> QED
      BY <2>1, <2>2 DEF TypeInv
  <1>8. PhaseInv
    <2>1. OpsAt("idle") = Op
      BY DEF OpsAt, GrowPc
    <2>2. c.op \in OpsAt(At)
      BY <1>4, <2>1 DEF Op
    <2> QED
      BY <1>1, <1>4, <2>2 DEF PhaseInv
  <1>9. AreaInv
    <2>1. ASSUME NEW b \in Block PROVE AreaOk(area[b], Limit(b))
      <3>1. area[b] = EmptyArea /\ Limit(b) = 1
        BY <1>1, <1>4, EmptyFacts DEF Limit
      <3> QED
        BY <3>1, EmptyFacts
    <2> QED
      BY <1>4, <2>1 DEF AreaInv
  <1>10. PICK L \in SUBSET Ino : L = {Root}
    BY <1>2
  <1>11. NameInv(L)
    <2>1. \A n \in Name : Kid(Root, n) = None
      <3>1. AreaOf(Root) = EmptyArea
        BY <1>1, <1>2, <1>5 DEF AreaOf
      <3> QED
        BY <3>1, EmptyFacts DEF Kid
    <2>2. OpenInodes = {}
      BY <1>1 DEF OpenInodes
    <2> QED
      BY <1>1, <1>2, <1>5, <1>10, <2>1, <2>2 DEF NameInv, IsDir
  <1>12. CallInv(L)
    BY <1>4 DEF CallInv, WriteOk, DirsOk, NewOk, GoneOk, PlaceOk, Naming
  <1>13. BlockInv(L)
    <2>1. Members(L) = {Root} /\ Held = {} /\ Doomed = {} /\ Left = {}
      BY <1>4, <1>10 DEF Members, Held, Doomed, Left
    <2>2. Cur(Root, "data") = None /\ Cur(Root, "dir") = 2
      BY <1>4, <1>5 DEF Cur
    <2>3. Blk(None) = {} /\ Once(None) /\ Blk(2) = {1, 2} /\ Once(2)
      BY NoBlocks, InitChain
    <2> QED
      BY <1>1, <1>4, <2>1, <2>2, <2>3 DEF BlockInv, Stream
  <1>14. SizeInv(L)
    <2>1. Total(None) = 0 /\ 0 * BlockUnits = 0
      BY NoBlocks, SizeAssumption
    <2> QED
      BY <1>5, <1>10, <2>1 DEF SizeInv
  <1> QED
    BY <1>7, <1>8, <1>9, <1>11, <1>12, <1>13, <1>14 DEF WholeInv, Inv

\* A stuttering step changes nothing that the invariant speaks of.
LEMMA StutterStep ==
    ASSUME NEW L \in SUBSET Ino, WholeInv(L), UNCHANGED vars
    PROVE  WholeInv(L)'
  <1>1. UNCHANGED <<bmap, imap, itab, chain, area, open, c>>
    BY DEF vars, disk, env
  <1>2. TypeInv'
    BY <1>1 DEF WholeInv, TypeInv, DiskInv, FrameInv, Grounded
  <1>3. /\ At' = At /\ (InGrow' <=> InGrow) /\ (Building' <=> Building) /\ (Inserting' <=> Inserting)
        /\ (Recorded' <=> Recorded) /\ (Creating' <=> Creating) /\ (Unplaced' <=> Unplaced)
        /\ (ChildWritten' <=> ChildWritten)
    BY <1>1 DEF At, InGrow, Building, Inserting, Recorded, Creating, Unplaced, ChildWritten
  <1>4. PhaseInv'
    BY <1>1, <1>3 DEF WholeInv, PhaseInv
  <1>5. AreaInv'
    <2>1. AreaInv /\ \A b \in Block : Limit(b)' = Limit(b)
      BY <1>1 DEF WholeInv, Limit
    <2>2. InName' = InName
      BY <1>1 DEF InName
    <2> QED
      BY <1>1, <1>3, <2>1, <2>2 DEF AreaInv, AreaOk, Sorted, Distinct, Live, Walk
  <1>6. SameKids(L) /\ SameInodes(L) /\ OpenInodes' = OpenInodes
    BY <1>1, SameTable DEF OpenInodes
  <1>7. NameInv(L)'
    <2>1. NameInv(L) /\ L \subseteq imap' /\ OpenInodes' \subseteq L
      BY <1>1, <1>6 DEF WholeInv, NameInv
    <2> QED
      BY <1>6, <2>1, NamesStay
  <1>8. SizeInv(L)'
    BY <1>1, <1>6, SizesStay DEF WholeInv
  <1>9. CallInv(L)'
    <2>1. InDir' = InDir /\ \A d \in L, n \in Name : Kid(d, n)' = Kid(d, n)
      BY <1>1, <1>6 DEF InDir, SameKids
    <2>2. WriteOk(L)' /\ GoneOk(L)'
      BY <1>1, <1>3 DEF WholeInv, CallInv, WriteOk, GoneOk, Total, DataCount
    <2>3. DirsOk(L)' /\ NewOk(L)'
      BY <1>1, <1>3, <2>1 DEF WholeInv, CallInv, DirsOk, Works, IsDir, NewOk
    <2>4. PlaceOk(L)'
      <3>1. Kid(c.dir, c.name)' = Kid(c.dir, c.name) /\ Kid(c.dir2, c.name2)' = Kid(c.dir2, c.name2)
        BY <1>1 DEF Kid, IsDir, AreaOf, Lookup, Hits, Walk, FirstHit, Matches
      <3> QED
        BY <1>1, <1>3, <1>6, <2>1, <3>1 DEF WholeInv, CallInv, PlaceOk
    <2> QED
      BY <2>2, <2>3, <2>4 DEF CallInv
  <1>10. BlockInv(L)'
    <2>1. Members(L)' = Members(L) /\ \A i \in Members(L), f \in Stream : Cur(i, f)' = Cur(i, f)
      BY <1>1, <1>3 DEF Members, Cur
    <2>2. Held' = Held /\ Doomed' = Doomed /\ Left' = Left
      BY <1>1, <1>3 DEF Held, Doomed, Left, Blk, RangeOf, ChainBlocks, Flat
    <2>3. BlockInv(L) /\ chain' = chain
      BY <1>1 DEF WholeInv
    <2>4. Held \subseteq bmap' /\ \A i \in Members(L), f \in Stream : Blk(Cur(i, f)) \subseteq bmap'
      BY <1>1, <2>3 DEF BlockInv
    <2> QED
      BY <1>1, <1>3, <2>1, <2>2, <2>3, <2>4, BlocksStay
  <1> QED
    BY <1>2, <1>4, <1>5, <1>7, <1>8, <1>9, <1>10 DEF WholeInv

\* The steps of a call keep the invariant.
LEMMA DriverKeeps ==
    ASSUME Inv, DriverStep
    PROVE  Inv'
  <1>1. PICK L \in SUBSET Ino : WholeInv(L)
    BY DEF Inv
  <1>2. SUFFICES \E M \in SUBSET Ino : WholeInv(M)'
    BY DEF Inv
  <1>3. CASE AllocBlock \/ FlushSuperblock \/ WriteExtentBlock \/ WriteEntry \/ LinkBlock \/ Grown
    BY <1>1, <1>3, AllocBlockStep, FlushStep, WriteExtentBlockStep, EntryStep, LinkBlockStep, GrownStep
  <1>4. CASE UndoDone \/ DiskFull \/ FreeBlock \/ AllocInode \/ FreeInode
    BY <1>1, <1>4, UndoDoneStep, DiskFullStep, FreeBlockStep, AllocInodeStep, FreeInodeStep
  <1>5. CASE MakeArea \/ WriteAreaHeader \/ WriteBuckets \/ WriteChild
    BY <1>1, <1>5, MakeAreaStep, WriteAreaHeaderStep, WriteBucketsStep, WriteChildStep
  <1>6. CASE BeginInsert \/ WriteDirent \/ WriteName \/ WriteSlot \/ WriteHeader
    BY <1>1, <1>6, BeginInsertStep, WriteDirentStep, WriteNameStep, WriteSlotStep, WriteHeaderStep
  <1>7. CASE RemoveSlot \/ RemoveHeader \/ WriteDirInode \/ WriteDirInode2 \/ FreeNext
    BY <1>1, <1>7, RemoveSlotStep, RemoveHeaderStep, WriteDirInodeStep, WriteDirInode2Step, FreeNextStep
  <1>8. CASE WriteData \/ WriteInode
    BY <1>1, <1>8, DataStep, WriteInodeStep
  <1> QED
    BY <1>3, <1>4, <1>5, <1>6, <1>7, <1>8 DEF DriverStep

\* Every step does.
LEMMA NextKeeps ==
    ASSUME ~Torn, ~KeepOpen, Inv, [Next]_vars
    PROVE  Inv'
  <1>1. PICK L \in SUBSET Ino : WholeInv(L)
    BY DEF Inv
  <1>2. CASE DriverStep
    BY <1>2, DriverKeeps
  <1>3. CASE \E i \in Ino : NyfsOpen(i) \/ \E end \in FileEnd : NyfsWrite(i, end)
    BY <1>1, <1>3, OpenStep, WriteStep DEF Inv
  <1>4. CASE \E h \in open : NyfsClose(h)
    BY <1>1, <1>4, CloseStep DEF Inv
  <1>5. ASSUME NEW d \in Ino, NEW n \in Name,
               \/ NyfsMake("create", d, n) \/ NyfsMake("mkdir", d, n)
               \/ NyfsUnlink(d, n)
               \/ \E d2 \in Ino, n2 \in Name : NyfsRename(d, n, d2, n2)
        PROVE  Inv'
    <2>1. ASSUME NEW op \in {"create", "mkdir"}, NyfsMake(op, d, n) PROVE Inv'
      BY <1>1, <2>1, MakeStep DEF Inv
    <2>2. CASE NyfsUnlink(d, n)
      BY <1>1, <2>2, UnlinkStep DEF Inv
    <2>3. CASE \E d2 \in Ino, n2 \in Name : NyfsRename(d, n, d2, n2)
      BY <1>1, <2>3, RenameStep DEF Inv
    <2> QED
      BY <1>5, <2>1, <2>2, <2>3
  <1>6. CASE IoFails
    BY <1>1, <1>6, IoFailsStep DEF Inv
  <1>7. CASE Crash
    BY <1>1, <1>7, CrashStep DEF Inv
  <1>8. CASE UNCHANGED vars
    BY <1>1, <1>8, StutterStep DEF Inv
  <1> QED
    BY <1>2, <1>3, <1>4, <1>5, <1>6, <1>7, <1>8 DEF Next

-----------------------------------------------------------------------------
(***************************************************************************)
(* Theorems                                                                *)
(***************************************************************************)
\* The invariant holds as long as no fault tears the last two writes of an
\* insertion (Torn) and no file is unlinked while it is open (KeepOpen).
THEOREM NyfsInvariant ==
    ASSUME ~Torn, ~KeepOpen
    PROVE  Spec => []Inv
  <1>1. Init => Inv
    BY InitInv
  <1>2. Inv /\ [Next]_vars => Inv'
    BY NextKeeps
  <1> QED
    BY <1>1, <1>2, PTL DEF Spec

\* The walk along a bucket ends: nyfs_dirhash_lookup returns in every directory
\* that a path leads to.
THEOREM LookupsReturn ==
    ASSUME ~Torn, ~KeepOpen
    PROVE  Spec => []LookupsEnd
  <1>1. Inv => LookupsEnd
    <2> SUFFICES ASSUME Inv, NEW d \in Dirs, NEW n \in Name PROVE LookupEnds(AreaOf(d), n)
      BY DEF LookupsEnd
    <2>1. PICK L \in SUBSET Ino : WholeInv(L)
      BY DEF Inv
    <2>2. d \in L /\ itab[d].dir \in Block
      <3>1. d \in L /\ IsDir(d)
        BY <2>1, DirFacts
      <3>2. itab[d].dir # None /\ itab[d] \in InodeT
        BY <2>1, <3>1 DEF WholeInv, NameInv, TypeInv, DiskInv
      <3> QED
        BY <3>1, <3>2 DEF InodeT, Ptr
    <2>3. PICK a, l : a = AreaOf(d) /\ l = Limit(itab[d].dir)
      OBVIOUS
    <2>4. AreaOk(a, l)
      BY <2>1, <2>2, <2>3 DEF WholeInv, AreaInv, AreaOf
    <2>5. a \in AreaT /\ Sorted(a, l) /\ l \in Nat
      <3>1. a.next \in Nat /\ a \in AreaT /\ Sorted(a, l)
        BY <2>4 DEF AreaOk, AreaT
      <3> QED
        BY <2>3, <3>1 DEF Limit, AreaOf
    <2> QED
      BY <2>3, <2>5, LookupFacts
  <1> QED
    BY <1>1, NyfsInvariant, PTL

\* The blocks of whatever a path leads to are marked as used, and belong to one
\* stream each: nyfs_alloc_block never hands out a block in use.
THEOREM BlocksHaveOneOwner ==
    ASSUME ~Torn, ~KeepOpen
    PROVE  Spec => []BlocksOwnedOnce
  <1>1. Inv => BlocksOwnedOnce
    <2> SUFFICES ASSUME Inv PROVE BlocksOwnedOnce
      OBVIOUS
    <2>1. PICK L \in SUBSET Ino : WholeInv(L)
      BY DEF Inv
    <2>2. Reachable \subseteq L /\ L \subseteq Members(L) /\ BlockInv(L)
      BY <2>1, ReachFacts DEF WholeInv, Members
    <2>3. ASSUME NEW i \in Reachable, NEW f \in Stream
          PROVE  /\ Blk(itab[i][f]) \subseteq bmap /\ Once(itab[i][f])
                 /\ Blk(itab[i][f]) \subseteq Blk(Cur(i, f))
      <3>1. itab[i][f] \in {None, Cur(i, f)}
        BY <2>1, <2>2, DiskStream DEF WholeInv, CallInv
      <3>2. Blk(Cur(i, f)) \subseteq bmap /\ Once(Cur(i, f))
        BY <2>2 DEF BlockInv
      <3> QED
        BY <3>1, <3>2, NoBlocks
    <2>4. ASSUME NEW i \in Reachable, NEW j \in Reachable, NEW f \in Stream, NEW g \in Stream, <<i, f>> # <<j, g>>
          PROVE  Blk(itab[i][f]) \cap Blk(itab[j][g]) = {}
      <3>1. Blk(Cur(i, f)) \cap Blk(Cur(j, g)) = {}
        BY <2>2, <2>4 DEF BlockInv
      <3> QED
        BY <2>3, <3>1
    <2>5. ASSUME NEW i \in Reachable, NEW f \in Stream PROVE BlocksOf(i, f) = Blk(itab[i][f])
      BY DEF BlocksOf, Blk
    <2> DEFINE streams == Reachable \X Stream
               blocks == [s \in streams |-> BlocksOf(s[1], s[2])]
    <2>6. \A s \in streams : /\ s[1] \in Reachable /\ s[2] \in Stream /\ s = <<s[1], s[2]>>
                             /\ blocks[s] = Blk(itab[s[1]][s[2]])
      BY <2>5
    <2>7. \A s \in streams : /\ blocks[s] \subseteq bmap
                             /\ Cardinality(blocks[s]) = Len(ChainBlocks(itab[s[1]][s[2]]))
      BY <2>3, <2>6 DEF Once
    <2>8. ASSUME NEW s \in streams, NEW t \in streams \ {s} PROVE blocks[s] \cap blocks[t] = {}
      <3>1. <<s[1], s[2]>> # <<t[1], t[2]>>
        BY <2>6
      <3> QED
        BY <2>4, <2>6, <3>1
    <2> QED
      BY <2>7, <2>8 DEF BlocksOwnedOnce
  <1> QED
    BY <1>1, NyfsInvariant, PTL

\* nyfs_read finds a block for every byte below the size of a file.
THEOREM SizesCovered ==
    ASSUME ~Torn, ~KeepOpen
    PROVE  Spec => []SizeCovered
  <1>1. Inv => SizeCovered
    BY ReachFacts DEF Inv, WholeInv, SizeInv, SizeCovered
  <1> QED
    BY <1>1, NyfsInvariant, PTL

\* Directory entries form a tree of allocated inodes, also in the middle of a
\* create, unlink or rename, and after a crash.
THEOREM NamesAreTree ==
    ASSUME ~Torn, ~KeepOpen
    PROVE  Spec => []NamesFormTree
  <1>1. Inv => NamesFormTree
    <2> SUFFICES ASSUME Inv PROVE NamesFormTree
      OBVIOUS
    <2>1. PICK L \in SUBSET Ino : WholeInv(L)
      BY DEF Inv
    <2>2. NameInv(L)
      BY <2>1 DEF WholeInv
    <2> DEFINE names == Dirs \X Name
               target == [x \in names |-> Lookup(AreaOf(x[1]), x[2])]
    <2>3. \A x \in names : /\ x[1] \in L /\ x[2] \in Name /\ x = <<x[1], x[2]>>
                           /\ target[x] = Kid(x[1], x[2])
      BY <2>1, DirFacts
    <2>4. ASSUME NEW x \in names, target[x] # None
          PROVE  target[x] \in imap \ {Root} /\ itab[target[x]].type # "NONE"
      BY <2>2, <2>3, <2>4 DEF NameInv
    <2>5. ASSUME NEW x \in names, NEW y \in names \ {x}, target[x] # None
          PROVE  target[y] # target[x]
      BY <2>2, <2>3, <2>5 DEF NameInv
    <2> QED
      BY <2>4, <2>5 DEF NamesFormTree
  <1> QED
    BY <1>1, NyfsInvariant, PTL
=============================================================================
