----------------------------- MODULE VfsProofs -----------------------------
(***************************************************************************)
(* Proofs about Vfs: the pools, the agreement of the cache with the disk,  *)
(* the tree on the disk and the vnodes of open files, for pools, disks,    *)
(* paths and names of every size.                                          *)
(***************************************************************************)
EXTENDS Vfs, NatFacts, FiniteSetTheorems

(***************************************************************************)
(* The inductive invariant. Most of it is about the pools m, the root      *)
(* dentry r of the namespace nyfs: and the disk T, so that it can be said  *)
(* of the states that a call passes through.                               *)
(***************************************************************************)
DentryRec == [used : BOOLEAN, name : Name \cup {NoName}, node : Vnode \cup {None},
              parent : Dentry \cup {None}, kids : SUBSET Dentry]
Memory    == [dent : [Dentry -> DentryRec], vnode : [Vnode -> Data \cup {None}],
              data : [Data -> Ino \cup {None}]]
HandleRec == [used : BOOLEAN, held : BOOLEAN, node : Vnode \cup {None}, ino : Ino \cup {None},
              birth : Nat, mount : Nat]
InodeRec  == [kind : {"NONE", "FILE", "DIR"}, ents : [Name -> Ino \cup {None}]]

\* The dentries that no call frees: the root of the default namespace and that of nyfs:.
Roots(r) == {1} \cup ({r} \ {None})

\* A set of dentries with all their children.
Closed(m, Y) == \A d \in Y : m.dent[d].kids \subseteq Y

\* The dentries below the roots.
Live(m, r) == {d \in Dentry : \A Y \in SUBSET Dentry : Roots(r) \subseteq Y /\ Closed(m, Y) => d \in Y}

\* The root of a namespace that was registered may have been freed since.
LiveOrFree(m, r) == Live(m, r) \cup FreeDentries(m)

\* The inode of dentry d; the root of nyfs: stands for that of the disk even while
\* nothing is mounted, because its children stay in the cache.
Expected(m, r, d) == IF d = r THEN Root ELSE InoOf(m, d)

\* The pools are in order: lists hold live dentries, the roots are not in a list, a
\* node has one dentry and one element of the driver's pool.
PoolInv(m, r) ==
    /\ m \in Memory
    /\ \A d \in Dentry : ~m.dent[d].used => m.dent[d] = FreeDentry
    /\ \A d \in Dentry : \A k \in m.dent[d].kids :
         m.dent[k].used /\ m.dent[k].parent = d /\ m.dent[k].name \in Name
    /\ m.dent[1].used /\ m.dent[1].node = None /\ m.dent[1].parent = None
    /\ r # None => r \in Dentry \ {1} /\ m.dent[r].used /\ m.dent[r].parent = None
    /\ \A d \in Dentry : m.dent[d].node # None => m.vnode[m.dent[d].node] # None
    /\ \A d, e \in Dentry : m.dent[d].node # None /\ m.dent[d].node = m.dent[e].node => d = e
    /\ \A v \in Vnode : m.vnode[v] # None =>
         m.data[m.vnode[v]] # None /\ \E d \in Dentry : m.dent[d].node = v
    /\ \A u, v \in Vnode : m.vnode[u] # None /\ m.vnode[u] = m.vnode[v] => u = v

\* The cache below the roots agrees with the disk, and no inode is cached twice.
CacheInv(m, r, T) ==
    /\ \A d \in Live(m, r) \ {1} : Expected(m, r, d) # None
    /\ \A d \in Live(m, r) \ {1} : \A k \in m.dent[d].kids :
         InoOf(m, k) = T[Expected(m, r, d)].ents[m.dent[k].name]
    /\ \A d, e \in Live(m, r) \ {1} : Expected(m, r, d) = Expected(m, r, e) => d = e
    /\ \A k \in m.dent[1].kids : InoOf(m, k) = Root /\ r = None
    /\ r # None => InoOf(m, r) \in {Root, None}

\* Every inode has one name, and all are below the root.
DiskInv(T) ==
    /\ T \in [Ino -> InodeRec]
    /\ T[Root].kind = "DIR"
    /\ \A i \in Ino, n \in Name : T[i].ents[n] # None =>
         T[i].ents[n] # Root /\ T[T[i].ents[n]].kind # "NONE"
    /\ \A i \in Ino : T[i].kind = "NONE" => T[i] = NoInode
    /\ \A i, j \in Ino, m, n \in Name :
         T[i].ents[m] # None /\ T[i].ents[m] = T[j].ents[n] => i = j /\ m = n
    /\ \A X \in SUBSET Ino :
         Root \in X /\ (\A i \in X, n \in Name : T[i].ents[n] # None => T[i].ents[n] \in X)
           => \A i \in Ino : T[i].kind # "NONE" => i \in X

\* The disk is mounted at the root of nyfs:, or before there is one at a child of "/".
MountInv ==
    /\ vol \in [place : Dentry \cup {None}, root : Vnode \cup {None}]
    /\ Mounted => /\ vol.place \in Dentry /\ vol.root \in Vnode
                  /\ mem.dent[vol.place].node = vol.root
                  /\ InoOf(mem, vol.place) = Root
                  /\ ns["nyfs"] # None => vol.place = ns["nyfs"]
    /\ mem.dent[1].kids = IF Mounted /\ ns["nyfs"] = None THEN {vol.place} ELSE {}

NsInv ==
    /\ ns \in [Ns -> Dentry \cup {None}]
    /\ ns[""] = 1
    /\ ns["app"] # None => ns["nyfs"] # None /\ ns["app"] \in LiveOrFree(mem, ns["nyfs"])

\* OpenFileKeepsVnode, and no handle is from the future.
HandleInv ==
    /\ handles \in [Handle -> HandleRec]
    /\ birth \in [Ino -> Nat]
    /\ mounts \in Nat
    /\ \A h \in Handle : handles[h].held =>
         /\ handles[h].node \in Vnode /\ handles[h].ino \in Ino
         /\ handles[h].birth <= birth[handles[h].ino]
         /\ handles[h].mount <= mounts
    /\ OpenFileKeepsVnode

Inv ==
    /\ PoolInv(mem, ns["nyfs"])
    /\ CacheInv(mem, ns["nyfs"], tree)
    /\ DiskInv(tree)
    /\ MountInv
    /\ NsInv
    /\ HandleInv

-----------------------------------------------------------------------------
\* A chain of growing sets within 1 .. N stands still after N steps.
LEMMA ChainStops ==
    ASSUME NEW N \in Nat, NEW f \in [0 .. N -> SUBSET (1 .. N)], f[0] # {},
           NEW G \in [SUBSET (1 .. N) -> SUBSET (1 .. N)],
           \A k \in 1 .. N : f[k] = G[f[k - 1]] /\ f[k - 1] \subseteq f[k]
    PROVE  G[f[N]] = f[N]
  <1>1. IsFiniteSet(1 .. N) /\ Cardinality(1 .. N) = N
    <2>1. 1 \in Int /\ N \in Int /\ (IF 1 > N THEN 0 ELSE N - 1 + 1) = N
      OBVIOUS
    <2> QED
      BY <2>1, FS_Interval
  <1>2. \A k \in 0 .. N : /\ IsFiniteSet(f[k]) /\ Cardinality(f[k]) \in Nat
                          /\ Cardinality(f[k]) <= N
    <2> SUFFICES ASSUME NEW k \in 0 .. N
                 PROVE  /\ IsFiniteSet(f[k]) /\ Cardinality(f[k]) \in Nat
                        /\ Cardinality(f[k]) <= N
      OBVIOUS
    <2>1. f[k] \subseteq 1 .. N
      OBVIOUS
    <2>2. IsFiniteSet(f[k]) /\ Cardinality(f[k]) <= Cardinality(1 .. N)
      BY <1>1, <2>1, FS_Subset
    <2> QED
      BY <1>1, <2>2, FS_CardinalityType
  <1>3. \E k \in 1 .. N : f[k] = f[k - 1]
    <2> SUFFICES ASSUME \A k \in 1 .. N : f[k] # f[k - 1] PROVE FALSE
      OBVIOUS
    <2> DEFINE Bad == {k \in Nat : k <= N /\ ~(Cardinality(f[k]) >= k + 1)}
    <2>1. Bad = {}
      <3> SUFFICES ASSUME Bad # {} PROVE FALSE
        OBVIOUS
      <3>1. Bad \in SUBSET Nat
        OBVIOUS
      <3>2. PICK m \in Bad : \A y \in Bad : m <= y
        <4> HIDE DEF Bad
        <4> QED
          BY <3>1, LeastNatural
      <3>3. m \in Nat /\ m <= N /\ ~(Cardinality(f[m]) >= m + 1)
        BY <3>2
      <3>4. m # 0
        <4> SUFFICES ASSUME m = 0 PROVE FALSE
          OBVIOUS
        <4>1. 0 \in 0 .. N
          OBVIOUS
        <4>2. Cardinality(f[0]) # 0
          BY <1>2, <4>1, FS_EmptySet
        <4> QED
          BY <1>2, <3>3, <4>1, <4>2
      <3>5. PICK j \in Nat : j = m - 1 /\ m \in 1 .. N /\ m = j + 1 /\ j \in 0 .. N
                             /\ ~(m <= j) /\ m \in 0 .. N
        BY <3>3, <3>4
      <3>6. Cardinality(f[j]) >= j + 1
        BY <3>2, <3>5
      <3> HIDE DEF Bad
      <3>7. f[j] \subseteq f[m] /\ f[j] # f[m]
        BY <3>5
      <3>8. Cardinality(f[j]) < Cardinality(f[m])
        <4>1. f[m] \subseteq f[j] <=> Cardinality(f[j]) = Cardinality(f[m])
          BY <1>2, <3>5, <3>7, FS_Subset
        <4>2. Cardinality(f[j]) <= Cardinality(f[m])
          BY <1>2, <3>5, <3>7, FS_Subset
        <4>3. \A x, y \in Nat : x <= y /\ x # y => x < y
          OBVIOUS
        <4>4. Cardinality(f[j]) # Cardinality(f[m])
          BY <3>7, <4>1
        <4>5. Cardinality(f[j]) \in Nat /\ Cardinality(f[m]) \in Nat
          BY <1>2, <3>5
        <4> QED
          BY <4>2, <4>3, <4>4, <4>5, Zenon
      <3> QED
        BY <1>2, <3>3, <3>5, <3>6, <3>8
    <2>2. N \notin Bad /\ N \in 0 .. N
      BY <2>1
    <2>3. Cardinality(f[N]) >= N + 1
      BY <2>2
    <2> QED
      BY <1>2, <2>2, <2>3
  <1>4. PICK k \in 1 .. N : f[k] = f[k - 1]
    BY <1>3
  <1>5. G[f[k]] = f[k]
    BY <1>4
  <1> DEFINE g == [j \in 0 .. N - k |-> f[k + j]]
  <1>6. \A j \in 0 .. N - k : g[j] \in {f[k]}
    <2>1. N - k \in Nat
      OBVIOUS
    <2>2. g[0] \in {f[k]}
      BY <2>1
    <2>3. \A j \in 1 .. N - k : g[j - 1] \in {f[k]} => g[j] \in {f[k]}
      <3> SUFFICES ASSUME NEW j \in 1 .. N - k, g[j - 1] = f[k] PROVE g[j] = f[k]
        OBVIOUS
      <3>1. PICK x \in 1 .. N : x = k + j /\ x - 1 = k + (j - 1)
        <4>1. k + j \in 1 .. N /\ (k + j) - 1 = k + (j - 1)
          OBVIOUS
        <4> QED
          BY <4>1
      <3>2. j - 1 \in 0 .. N - k /\ j \in 0 .. N - k
        OBVIOUS
      <3>3. g[j - 1] = f[x - 1] /\ g[j] = f[x]
        BY <3>1, <3>2
      <3> QED
        BY <1>5, <3>1, <3>3
    <2> HIDE DEF g
    <2> QED
      BY <2>1, <2>2, <2>3, IterationKeeps
  <1>7. f[N] = f[k]
    <2>1. N - k \in 0 .. N - k /\ k + (N - k) = N
      OBVIOUS
    <2>2. g[N - k] = f[N]
      BY <2>1
    <2> HIDE DEF g
    <2> QED
      BY <1>6, <2>1, <2>2
  <1> QED
    BY <1>5, <1>7

-----------------------------------------------------------------------------
(***************************************************************************)
(* The dentries below the roots                                            *)
(***************************************************************************)
\* The pools whose lists hold dentries, with roots that are dentries.
Lists(m, r) == (\A d \in Dentry : m.dent[d].kids \subseteq Dentry) /\ Roots(r) \subseteq Dentry

\* What a set is that is the least closed one.
LEMMA LiveFacts ==
    ASSUME NEW m, NEW r, Lists(m, r)
    PROVE  /\ Live(m, r) \subseteq Dentry
           /\ Roots(r) \subseteq Live(m, r)
           /\ \A d \in Live(m, r) : m.dent[d].kids \subseteq Live(m, r)
  <1>1. Live(m, r) \subseteq Dentry
    BY DEF Live
  <1>2. Roots(r) \subseteq Live(m, r)
    BY DEF Live, Lists
  <1>3. \A d \in Live(m, r) : m.dent[d].kids \subseteq Live(m, r)
    <2> SUFFICES ASSUME NEW d \in Live(m, r), NEW k \in m.dent[d].kids PROVE k \in Live(m, r)
      OBVIOUS
    <2>1. d \in Dentry /\ k \in Dentry
      BY <1>1 DEF Lists
    <2>2. \A Y \in SUBSET Dentry : Roots(r) \subseteq Y /\ Closed(m, Y) => k \in Y
      BY DEF Live, Closed
    <2> QED
      BY <2>1, <2>2 DEF Live
  <1> QED
    BY <1>1, <1>2, <1>3

\* It is in every closed set with the roots.
LEMMA LiveLeast ==
    ASSUME NEW m, NEW r, NEW Y \in SUBSET Dentry, Roots(r) \subseteq Y,
           \A d \in Y : m.dent[d].kids \subseteq Y
    PROVE  Live(m, r) \subseteq Y
  BY DEF Live, Closed

\* A dentry below the roots is a root or in the list of another.
LEMMA LiveParent ==
    ASSUME NEW m, NEW r, Lists(m, r), NEW d \in Live(m, r), d \notin Roots(r)
    PROVE  \E p \in Live(m, r) : d \in m.dent[p].kids
  <1> SUFFICES ASSUME \A p \in Live(m, r) : d \notin m.dent[p].kids PROVE FALSE
    OBVIOUS
  <1> DEFINE Y == Live(m, r) \ {d}
  <1>1. Y \in SUBSET Dentry /\ Roots(r) \subseteq Y
    BY LiveFacts
  <1>2. \A x \in Y : m.dent[x].kids \subseteq Y
    BY LiveFacts
  <1>3. Live(m, r) \subseteq Y
    <2> HIDE DEF Y
    <2> QED
      BY <1>1, <1>2, LiveLeast
  <1> QED
    BY <1>3

-----------------------------------------------------------------------------
(***************************************************************************)
(* Pools in order                                                          *)
(***************************************************************************)
\* The first free element of a pool is one of them.
LEMMA LeastIs ==
    ASSUME NEW S \in SUBSET Nat, S # {}
    PROVE  Least(S) \in S
  <1>1. \E x \in S : \A y \in S : x <= y
    BY LeastNatural
  <1> QED
    BY <1>1, Zenon DEF Least

\* The fields of the pools.
LEMMA MemoryFields ==
    ASSUME NEW m \in Memory
    PROVE  /\ m.dent \in [Dentry -> DentryRec]
           /\ m.vnode \in [Vnode -> Data \cup {None}]
           /\ m.data \in [Data -> Ino \cup {None}]
           /\ \A d \in Dentry : /\ m.dent[d].used \in BOOLEAN
                                /\ m.dent[d].name \in Name \cup {NoName}
                                /\ m.dent[d].node \in Vnode \cup {None}
                                /\ m.dent[d].parent \in Dentry \cup {None}
                                /\ m.dent[d].kids \in SUBSET Dentry
           /\ \A d \in Dentry : InoOf(m, d) \in Ino \cup {None}
  <1>1. /\ m.dent \in [Dentry -> DentryRec]
        /\ m.vnode \in [Vnode -> Data \cup {None}]
        /\ m.data \in [Data -> Ino \cup {None}]
    BY DEF Memory
  <1>2. \A d \in Dentry : m.dent[d] \in DentryRec
    BY <1>1
  <1>3. \A d \in Dentry : /\ m.dent[d].used \in BOOLEAN
                          /\ m.dent[d].name \in Name \cup {NoName}
                          /\ m.dent[d].node \in Vnode \cup {None}
                          /\ m.dent[d].parent \in Dentry \cup {None}
                          /\ m.dent[d].kids \in SUBSET Dentry
    BY <1>2 DEF DentryRec
  <1>4. \A d \in Dentry : InoOf(m, d) \in Ino \cup {None}
    <2> SUFFICES ASSUME NEW d \in Dentry PROVE InoOf(m, d) \in Ino \cup {None}
      OBVIOUS
    <2>1. PICK v : v = m.dent[d].node
      OBVIOUS
    <2>2. InoOf(m, d) = IF v = None \/ m.vnode[v] = None THEN None ELSE m.data[m.vnode[v]]
      BY <2>1 DEF InoOf
    <2>3. v \in Vnode \cup {None}
      BY <1>3, <2>1
    <2>4. v # None => m.vnode[v] \in Data \cup {None}
      BY <1>1, <2>3
    <2>5. v # None /\ m.vnode[v] # None => m.data[m.vnode[v]] \in Ino \cup {None}
      BY <1>1, <2>4
    <2> QED
      BY <2>2, <2>5
  <1> QED
    BY <1>1, <1>3, <1>4

\* Numbers of pool elements are not None.
LEMMA NoneIsNoNumber ==
    None \notin Dentry /\ None \notin Vnode /\ None \notin Data /\ None \notin Ino
    /\ 1 \in Dentry /\ Root \in Ino
    /\ Dentry \subseteq Nat /\ Vnode \subseteq Nat /\ Data \subseteq Nat /\ Ino \subseteq Nat
    /\ NoName \notin Name
  BY PoolAssumption, NameAssumption DEF None, Dentry, Vnode, Data, Ino, Root

\* What PoolInv says of the node and the place of a dentry.
LEMMA PoolFacts ==
    ASSUME NEW m, NEW r, PoolInv(m, r)
    PROVE  /\ Lists(m, r)
           /\ Live(m, r) \subseteq Dentry
           /\ \A d \in Dentry : InoOf(m, d) # None <=> m.dent[d].node # None
           /\ \A d \in Dentry : InoOf(m, d) # None => m.dent[d].used
           /\ \A d \in Dentry : \A k \in m.dent[d].kids :
                k \in Dentry /\ k \notin Roots(r) /\ m.dent[d].used
           /\ \A d \in Live(m, r) : m.dent[d].used
           /\ \A d \in LiveOrFree(m, r) : d \in Dentry
           /\ \A d \in LiveOrFree(m, r) : InoOf(m, d) # None => d \in Live(m, r) \ {1}
           /\ \A d \in LiveOrFree(m, r) : \A k \in m.dent[d].kids :
                d \in Live(m, r) /\ k \in Live(m, r) \ {1}
  <1> USE NoneIsNoNumber
  <1>m. m \in Memory
    BY DEF PoolInv
  <1>1. Lists(m, r)
    <2>1. Roots(r) \subseteq Dentry
      BY DEF PoolInv, Roots
    <2> QED
      BY <1>m, <2>1, MemoryFields DEF Lists
  <1>2. Live(m, r) \subseteq Dentry
    BY DEF Live
  <1>3. \A d \in Dentry : InoOf(m, d) # None <=> m.dent[d].node # None
    <2> SUFFICES ASSUME NEW d \in Dentry PROVE InoOf(m, d) # None <=> m.dent[d].node # None
      OBVIOUS
    <2>1. m.dent[d].node # None =>
            m.dent[d].node \in Vnode /\ m.vnode[m.dent[d].node] # None
      BY <1>m, MemoryFields DEF PoolInv
    <2>2. m.dent[d].node # None => m.data[m.vnode[m.dent[d].node]] # None
      BY <2>1 DEF PoolInv
    <2> QED
      BY <2>1, <2>2 DEF InoOf
  <1>4. \A d \in Dentry : ~m.dent[d].used =>
          m.dent[d].node = None /\ m.dent[d].kids = {} /\ m.dent[d].parent = None
    BY DEF PoolInv, FreeDentry
  <1>5. \A d \in Dentry : InoOf(m, d) # None => m.dent[d].used
    BY <1>3, <1>4
  <1>6. \A d \in Dentry : \A k \in m.dent[d].kids :
          k \in Dentry /\ k \notin Roots(r) /\ m.dent[d].used
    <2> SUFFICES ASSUME NEW d \in Dentry, NEW k \in m.dent[d].kids
                 PROVE  k \in Dentry /\ k \notin Roots(r) /\ m.dent[d].used
      OBVIOUS
    <2>1. k \in Dentry /\ m.dent[k].parent = d
      BY <1>1 DEF PoolInv, Lists
    <2>2. \A x \in Roots(r) : m.dent[x].parent = None
      BY DEF PoolInv, Roots
    <2> QED
      BY <1>4, <2>1, <2>2
  <1>7. \A d \in Live(m, r) : m.dent[d].used
    <2> DEFINE Y == {d \in Dentry : m.dent[d].used}
    <2>1. Y \in SUBSET Dentry
      OBVIOUS
    <2>2. Roots(r) \subseteq Y
      BY DEF PoolInv, Roots
    <2>3. \A d \in Y : m.dent[d].kids \subseteq Y
      BY <1>6 DEF PoolInv
    <2>4. Live(m, r) \subseteq Y
      <3> HIDE DEF Y
      <3> QED
        BY <2>1, <2>2, <2>3, LiveLeast
    <2> QED
      BY <2>4
  <1>8. \A d \in LiveOrFree(m, r) : d \in Dentry
    BY <1>2 DEF LiveOrFree, FreeDentries
  <1>9. \A d \in LiveOrFree(m, r) : InoOf(m, d) # None => d \in Live(m, r) \ {1}
    <2>1. m.dent[1].node = None
      BY DEF PoolInv
    <2>2. InoOf(m, 1) = None
      BY <1>3, <2>1
    <2> QED
      BY <1>5, <2>2 DEF LiveOrFree, FreeDentries
  <1>10. \A d \in LiveOrFree(m, r) : \A k \in m.dent[d].kids :
           d \in Live(m, r) /\ k \in Live(m, r) \ {1}
    <2> SUFFICES ASSUME NEW d \in LiveOrFree(m, r), NEW k \in m.dent[d].kids
                 PROVE  d \in Live(m, r) /\ k \in Live(m, r) \ {1}
      OBVIOUS
    <2>1. d \in Live(m, r)
      BY <1>6, <1>8 DEF LiveOrFree, FreeDentries
    <2>2. k \in Live(m, r)
      BY <1>1, <2>1, LiveFacts
    <2>3. k \notin Roots(r)
      BY <1>6, <1>8
    <2> QED
      BY <2>1, <2>2, <2>3 DEF Roots
  <1> QED
    BY <1>1, <1>2, <1>3, <1>5, <1>6, <1>7, <1>8, <1>9, <1>10

\* What a cached name says about the disk.
LEMMA CacheFacts ==
    ASSUME NEW m, NEW r, NEW T, PoolInv(m, r), CacheInv(m, r, T), DiskInv(T)
    PROVE  /\ \A d \in Live(m, r) \ {1} :
                Expected(m, r, d) \in Ino /\ T[Expected(m, r, d)].kind # "NONE"
           /\ \A d \in Live(m, r) \ {1} : InoOf(m, d) # None => Expected(m, r, d) = InoOf(m, d)
           /\ \A d \in Live(m, r) \ {1} : \A k \in m.dent[d].kids :
                /\ k \in Live(m, r) \ {1}
                /\ Expected(m, r, k) = InoOf(m, k)
                /\ InoOf(m, k) = T[Expected(m, r, d)].ents[m.dent[k].name]
                /\ InoOf(m, k) # None
                /\ m.dent[k].name \in Name
           /\ \A d \in Live(m, r) \ {1} : \A k, l \in m.dent[d].kids :
                m.dent[k].name = m.dent[l].name => k = l
           /\ \A d \in Live(m, r) \ {1} : d # r =>
                \E p \in Live(m, r) :
                  /\ d \in m.dent[p].kids
                  /\ p = 1 => InoOf(m, d) = Root
                  /\ p # 1 => InoOf(m, d) = T[Expected(m, r, p)].ents[m.dent[d].name]
  <1> USE NoneIsNoNumber
  <1>m. m \in Memory
    BY DEF PoolInv
  <1>k. \A d \in Live(m, r) : \A k \in m.dent[d].kids :
          k \in Live(m, r) \ {1} /\ k # r /\ m.dent[k].name \in Name
    <2> SUFFICES ASSUME NEW d \in Live(m, r), NEW k \in m.dent[d].kids
                 PROVE  k \in Live(m, r) \ {1} /\ k # r /\ m.dent[k].name \in Name
      OBVIOUS
    <2>1. k \in Live(m, r) \ {1} /\ d \in Dentry
      BY PoolFacts DEF LiveOrFree
    <2>2. k \notin Roots(r) /\ k \in Dentry
      BY <2>1, PoolFacts
    <2>3. k # r
      BY <2>2 DEF Roots
    <2> QED
      BY <2>1, <2>3 DEF PoolInv
  <1>1. \A d \in Live(m, r) \ {1} : \A k \in m.dent[d].kids :
          /\ k \in Live(m, r) \ {1}
          /\ Expected(m, r, k) = InoOf(m, k)
          /\ InoOf(m, k) = T[Expected(m, r, d)].ents[m.dent[k].name]
          /\ InoOf(m, k) # None
          /\ m.dent[k].name \in Name
    <2> SUFFICES ASSUME NEW d \in Live(m, r) \ {1}, NEW k \in m.dent[d].kids
                 PROVE  /\ k \in Live(m, r) \ {1}
                        /\ Expected(m, r, k) = InoOf(m, k)
                        /\ InoOf(m, k) = T[Expected(m, r, d)].ents[m.dent[k].name]
                        /\ InoOf(m, k) # None
                        /\ m.dent[k].name \in Name
      OBVIOUS
    <2>1. Expected(m, r, k) = InoOf(m, k)
      BY <1>k DEF Expected
    <2>2. InoOf(m, k) # None
      BY <1>k, <2>1 DEF CacheInv
    <2> QED
      BY <1>k, <2>1, <2>2 DEF CacheInv
  <1>2. \A d \in Live(m, r) \ {1} : InoOf(m, d) # None => Expected(m, r, d) = InoOf(m, d)
    <2>1. r # None => InoOf(m, r) \in {Root, None}
      BY DEF CacheInv
    <2>2. \A d \in Live(m, r) : d # None
      BY PoolFacts
    <2> QED
      BY <2>1, <2>2 DEF Expected
  <1>r. T[Root].kind # "NONE"
    <2>1. T[Root].kind = "DIR"
      BY DEF DiskInv
    <2> QED
      BY <2>1
  <1>3. \A d \in Live(m, r) \ {1} : Expected(m, r, d) \in Ino
    <2> SUFFICES ASSUME NEW d \in Live(m, r) \ {1} PROVE Expected(m, r, d) \in Ino
      OBVIOUS
    <2>1. Expected(m, r, d) # None
      BY DEF CacheInv
    <2>2. d \in Dentry
      BY PoolFacts
    <2> QED
      BY <1>m, <2>1, <2>2, MemoryFields DEF Expected
  <1>4. \A d \in Live(m, r) \ {1} : d # r =>
          \E p \in Live(m, r) :
            /\ d \in m.dent[p].kids
            /\ p = 1 => InoOf(m, d) = Root
            /\ p # 1 => InoOf(m, d) = T[Expected(m, r, p)].ents[m.dent[d].name]
    <2> SUFFICES ASSUME NEW d \in Live(m, r) \ {1}, d # r
                 PROVE  \E p \in Live(m, r) :
                          /\ d \in m.dent[p].kids
                          /\ p = 1 => InoOf(m, d) = Root
                          /\ p # 1 => InoOf(m, d) = T[Expected(m, r, p)].ents[m.dent[d].name]
      OBVIOUS
    <2>1. d \notin Roots(r)
      BY DEF Roots
    <2>2. PICK p \in Live(m, r) : d \in m.dent[p].kids
      BY <2>1, PoolFacts, LiveParent
    <2>3. p = 1 => InoOf(m, d) = Root
      BY <2>2 DEF CacheInv
    <2> QED
      BY <1>1, <2>2, <2>3
  <1>5. \A d \in Live(m, r) \ {1} : T[Expected(m, r, d)].kind # "NONE"
    <2> SUFFICES ASSUME NEW d \in Live(m, r) \ {1} PROVE T[Expected(m, r, d)].kind # "NONE"
      OBVIOUS
    <2>1. CASE d = r
      BY <1>r, <2>1 DEF Expected
    <2>2. CASE d # r
      <3>1. PICK p \in Live(m, r) :
              /\ d \in m.dent[p].kids
              /\ p = 1 => InoOf(m, d) = Root
              /\ p # 1 => InoOf(m, d) = T[Expected(m, r, p)].ents[m.dent[d].name]
        BY <1>4, <2>2
      <3>2. Expected(m, r, d) = InoOf(m, d)
        BY <2>2 DEF Expected
      <3>3. CASE p = 1
        BY <1>r, <3>1, <3>2, <3>3
      <3>4. CASE p # 1
        <4>1. InoOf(m, d) # None /\ m.dent[d].name \in Name
          BY <1>1, <3>1, <3>4
        <4>2. Expected(m, r, p) \in Ino
          BY <1>3, <3>4
        <4>3. \A i \in Ino, n \in Name :
                T[i].ents[n] # None => T[T[i].ents[n]].kind # "NONE"
          BY DEF DiskInv
        <4> QED
          BY <3>1, <3>2, <3>4, <4>1, <4>2, <4>3
      <3> QED
        BY <3>3, <3>4
    <2> QED
      BY <2>1, <2>2
  <1>6. \A d \in Live(m, r) \ {1} : \A k, l \in m.dent[d].kids :
          m.dent[k].name = m.dent[l].name => k = l
    <2> SUFFICES ASSUME NEW d \in Live(m, r) \ {1},
                        NEW k \in m.dent[d].kids, NEW l \in m.dent[d].kids,
                        m.dent[k].name = m.dent[l].name
                 PROVE  k = l
      OBVIOUS
    <2>1. Expected(m, r, k) = Expected(m, r, l) /\ k \in Live(m, r) \ {1} /\ l \in Live(m, r) \ {1}
      BY <1>1
    <2> QED
      BY <2>1 DEF CacheInv
  <1> QED
    BY <1>1, <1>2, <1>3, <1>4, <1>5, <1>6

\* find_child
LEMMA ChildFacts ==
    ASSUME NEW m, NEW d, NEW n, m.dent[d].kids \subseteq Dentry
    PROVE  /\ Child(m, d, n) # None =>
                Child(m, d, n) \in m.dent[d].kids /\ m.dent[Child(m, d, n)].name = n
           /\ Child(m, d, n) = None => \A k \in m.dent[d].kids : m.dent[k].name # n
           /\ Child(m, d, n) \in Dentry \cup {None}
  <1>1. CASE \E k \in m.dent[d].kids : m.dent[k].name = n
    <2>1. Child(m, d, n) = CHOOSE k \in m.dent[d].kids : m.dent[k].name = n
      BY <1>1 DEF Child
    <2>2. Child(m, d, n) \in m.dent[d].kids /\ m.dent[Child(m, d, n)].name = n
      BY <1>1, <2>1
    <2> QED
      BY <2>2, NoneIsNoNumber
  <1>2. CASE ~ \E k \in m.dent[d].kids : m.dent[k].name = n
    BY <1>2 DEF Child
  <1> QED
    BY <1>1, <1>2

-----------------------------------------------------------------------------
(***************************************************************************)
(* A dentry with a vnode of its own is added                               *)
(***************************************************************************)
\* m1 is m with vnode v and data s for inode i.
MadeVnode(m, m1, v, s, i) ==
    /\ v \in Vnode /\ m.vnode[v] = None
    /\ s \in Data /\ m.data[s] = None
    /\ i \in Ino
    /\ m1 \in Memory
    /\ m1.dent = m.dent
    /\ m1.vnode = [m.vnode EXCEPT ![v] = s]
    /\ m1.data = [m.data EXCEPT ![s] = i]

\* m2 is m with dentry d, named n, with vnode v and data s for inode i, below at.
Added(m, m2, d, at, n, v, s, i) ==
    /\ v \in Vnode /\ m.vnode[v] = None
    /\ s \in Data /\ m.data[s] = None
    /\ i \in Ino
    /\ n \in Name
    /\ d \in Dentry /\ ~m.dent[d].used
    /\ m2 \in Memory
    /\ m2.dent[d] = [used |-> TRUE, name |-> n, node |-> v, parent |-> at, kids |-> {}]
    /\ \A x \in Dentry \ {d} : /\ m2.dent[x].used = m.dent[x].used
                               /\ m2.dent[x].name = m.dent[x].name
                               /\ m2.dent[x].node = m.dent[x].node
                               /\ m2.dent[x].parent = m.dent[x].parent
    /\ \A x \in Dentry \ {d, at} : m2.dent[x] = m.dent[x]
    /\ m2.dent[at].kids = m.dent[at].kids \cup {d}
    /\ m2.vnode = [m.vnode EXCEPT ![v] = s]
    /\ m2.data = [m.data EXCEPT ![s] = i]

\* vfs_alloc_vnode and vfs_init_vnode
LEMMA MakeVnodeIs ==
    ASSUME NEW m \in Memory, CanMakeVnode(m), NEW i \in Ino
    PROVE  \E s \in Data : MadeVnode(m, MakeVnode(m, i), NewVnode(m), s, i)
  <1> USE NoneIsNoNumber
  <1>1. NewVnode(m) \in Vnode /\ m.vnode[NewVnode(m)] = None
    <2>1. FreeVnodes(m) \in SUBSET Nat /\ FreeVnodes(m) # {}
      BY DEF FreeVnodes, CanMakeVnode
    <2>2. Least(FreeVnodes(m)) \in FreeVnodes(m)
      BY <2>1, LeastIs
    <2> QED
      BY <2>2 DEF NewVnode, FreeVnodes
  <1>2. PICK s : s = Least(FreeData(m))
    OBVIOUS
  <1>3. s \in Data /\ m.data[s] = None
    <2>1. FreeData(m) \in SUBSET Nat /\ FreeData(m) # {}
      BY DEF FreeData, CanMakeVnode
    <2>2. Least(FreeData(m)) \in FreeData(m)
      BY <2>1, LeastIs
    <2> QED
      BY <1>2, <2>2 DEF FreeData
  <1>4. PICK v : v = NewVnode(m)
    OBVIOUS
  <1>5. MakeVnode(m, i) = [m EXCEPT !.vnode[v] = s, !.data[s] = i]
    BY <1>2, <1>4 DEF MakeVnode
  <1> DEFINE m1 == MakeVnode(m, i)
  <1>6. m1.dent = m.dent /\ m1.vnode = [m.vnode EXCEPT ![v] = s]
        /\ m1.data = [m.data EXCEPT ![s] = i]
    BY <1>5 DEF Memory
  <1>7. [m.vnode EXCEPT ![v] = s] \in [Vnode -> Data \cup {None}]
    BY <1>3, MemoryFields
  <1>8. [m.data EXCEPT ![s] = i] \in [Data -> Ino \cup {None}]
    BY <1>3, MemoryFields
  <1>9. m1 \in Memory
    BY <1>5, <1>7, <1>8 DEF Memory
  <1> HIDE DEF m1
  <1>10. MadeVnode(m, m1, v, s, i)
    BY <1>1, <1>3, <1>4, <1>6, <1>9 DEF MadeVnode
  <1> QED
    BY <1>3, <1>4, <1>10 DEF m1

\* alloc_dentry and attach_child, with the vnode that was made for it
LEMMA MakeDentryIs ==
    ASSUME NEW m \in Memory, NEW m1, NEW v, NEW s, NEW i, MadeVnode(m, m1, v, s, i),
           FreeDentries(m1) # {}, NEW n \in Name, NEW at \in Dentry, m.dent[at].used
    PROVE  \E d \in Dentry : Added(m, MakeDentry(m1, n, v, at), d, at, n, v, s, i)
  <1> USE NoneIsNoNumber
  <1>1. PICK d : d = Least(FreeDentries(m1))
    OBVIOUS
  <1>2. d \in Dentry /\ ~m.dent[d].used
    <2>1. FreeDentries(m1) \in SUBSET Nat
      BY DEF FreeDentries
    <2>2. d \in FreeDentries(m1)
      BY <1>1, <2>1, LeastIs
    <2> QED
      BY <2>2 DEF FreeDentries, MadeVnode
  <1>3. d # at
    BY <1>2
  <1> DEFINE new == [used |-> TRUE, name |-> n, node |-> v, parent |-> at, kids |-> {}]
             mid == [m1 EXCEPT !.dent[d] = new]
             m2  == [mid EXCEPT !.dent[at].kids = @ \cup {d}]
  <1>4. MakeDentry(m1, n, v, at) = m2
    BY <1>1 DEF MakeDentry, Attach
  <1>5. m1 \in Memory /\ m1.dent \in [Dentry -> DentryRec] /\ m1.dent = m.dent
        /\ v \in Vnode /\ s \in Data /\ i \in Ino
        /\ m1.vnode = [m.vnode EXCEPT ![v] = s] /\ m1.data = [m.data EXCEPT ![s] = i]
    BY MemoryFields DEF MadeVnode
  <1>6. new \in DentryRec
    BY <1>5 DEF DentryRec
  <1> HIDE DEF new
  <1>7. mid.dent = [m.dent EXCEPT ![d] = new] /\ mid.vnode = m1.vnode /\ mid.data = m1.data
        /\ mid \in Memory
    <2>1. mid.dent = [m.dent EXCEPT ![d] = new] /\ mid.vnode = m1.vnode /\ mid.data = m1.data
      BY <1>5 DEF Memory
    <2>2. [m.dent EXCEPT ![d] = new] \in [Dentry -> DentryRec]
      BY <1>5, <1>6
    <2>3. mid \in Memory
      BY <1>5, <2>2 DEF Memory
    <2> QED
      BY <2>1, <2>3
  <1>8. PICK old \in DentryRec : old = m.dent[at]
    BY <1>5
  <1>9. mid.dent[at] = old
    BY <1>3, <1>5, <1>7, <1>8
  <1> HIDE DEF mid
  <1> DEFINE grown == [old EXCEPT !.kids = @ \cup {d}]
  <1>10. grown \in DentryRec /\ grown.used = old.used /\ grown.name = old.name
         /\ grown.node = old.node /\ grown.parent = old.parent
         /\ grown.kids = old.kids \cup {d}
    BY <1>2, <1>8 DEF DentryRec
  <1>11. m2.dent = [mid.dent EXCEPT ![at] = grown] /\ m2.vnode = mid.vnode
         /\ m2.data = mid.data /\ m2 \in Memory
    <2>1. m2 = [mid EXCEPT !.dent = [mid.dent EXCEPT ![at] = grown]]
      BY <1>7, <1>9 DEF Memory
    <2>2. [mid.dent EXCEPT ![at] = grown] \in [Dentry -> DentryRec]
      <3> HIDE DEF grown
      <3> QED
        BY <1>7, <1>10, MemoryFields
    <2> HIDE DEF grown, m2
    <2> QED
      BY <1>7, <2>1, <2>2 DEF Memory
  <1> HIDE DEF grown, m2
  <1>12. m2.dent[d] = new /\ m2.dent[at] = grown
         /\ \A x \in Dentry \ {d, at} : m2.dent[x] = m.dent[x]
    BY <1>2, <1>3, <1>5, <1>7, <1>11
  <1>13. \A x \in Dentry \ {d} : /\ m2.dent[x].used = m.dent[x].used
                                 /\ m2.dent[x].name = m.dent[x].name
                                 /\ m2.dent[x].node = m.dent[x].node
                                 /\ m2.dent[x].parent = m.dent[x].parent
    BY <1>8, <1>10, <1>12
  <1>14. m2.dent[at].kids = m.dent[at].kids \cup {d}
    BY <1>8, <1>10, <1>12
  <1>15. m2.vnode = [m.vnode EXCEPT ![v] = s] /\ m2.data = [m.data EXCEPT ![s] = i]
    BY <1>5, <1>7, <1>11
  <1>16. m.vnode[v] = None /\ m.data[s] = None
    BY DEF MadeVnode
  <1>17. Added(m, m2, d, at, n, v, s, i)
    BY <1>2, <1>5, <1>11, <1>12, <1>13, <1>14, <1>15, <1>16 DEF Added, new
  <1> QED
    BY <1>2, <1>4, <1>17

\* The new dentry leaves the others their inodes.
LEMMA AddedInodes ==
    ASSUME NEW m, NEW r, PoolInv(m, r), NEW m2, NEW d, NEW at, NEW n, NEW v, NEW s, NEW i,
           Added(m, m2, d, at, n, v, s, i)
    PROVE  /\ \A u \in Vnode : m.vnode[u] # None =>
                /\ u # v /\ m.vnode[u] # s
                /\ m2.vnode[u] = m.vnode[u] /\ m2.data[m.vnode[u]] = m.data[m.vnode[u]]
           /\ m2.vnode[v] = s /\ m2.data[s] = i
           /\ InoOf(m2, d) = i
           /\ \A x \in Dentry \ {d} : InoOf(m2, x) = InoOf(m, x)
  <1> USE NoneIsNoNumber
  <1>1. m \in Memory /\ v \in Vnode /\ s \in Data /\ m.vnode[v] = None /\ m.data[s] = None
        /\ m2.vnode = [m.vnode EXCEPT ![v] = s] /\ m2.data = [m.data EXCEPT ![s] = i]
    BY DEF PoolInv, Added
  <1>2. \A u \in Vnode : m.vnode[u] # None =>
          /\ u # v /\ m.vnode[u] # s
          /\ m2.vnode[u] = m.vnode[u] /\ m2.data[m.vnode[u]] = m.data[m.vnode[u]]
    <2> SUFFICES ASSUME NEW u \in Vnode, m.vnode[u] # None
                 PROVE  /\ u # v /\ m.vnode[u] # s
                        /\ m2.vnode[u] = m.vnode[u] /\ m2.data[m.vnode[u]] = m.data[m.vnode[u]]
      OBVIOUS
    <2>t. m.vnode[u] \in Data \cup {None}
      BY <1>1, MemoryFields
    <2>1. PICK t \in Data : t = m.vnode[u]
      BY <2>t
    <2>2. m.data[t] # None
      BY <2>1 DEF PoolInv
    <2>3. u # v /\ t # s
      BY <1>1, <2>2
    <2>4. m2.vnode[u] = t /\ m2.data[t] = m.data[t]
      BY <1>1, <2>1, <2>3, MemoryFields
    <2> QED
      BY <2>1, <2>3, <2>4
  <1>3. m2.vnode[v] = s /\ m2.data[s] = i
    BY <1>1, MemoryFields
  <1>4. InoOf(m2, d) = i
    <2>1. m2.dent[d].node = v
      BY DEF Added
    <2> QED
      BY <1>1, <1>3, <2>1 DEF InoOf
  <1>5. \A x \in Dentry \ {d} : InoOf(m2, x) = InoOf(m, x)
    <2> SUFFICES ASSUME NEW x \in Dentry \ {d} PROVE InoOf(m2, x) = InoOf(m, x)
      OBVIOUS
    <2>1. PICK u : u = m.dent[x].node
      OBVIOUS
    <2>2. m2.dent[x].node = u
      BY <2>1 DEF Added
    <2>3. u # None => u \in Vnode /\ m.vnode[u] # None
      BY <1>1, <2>1, MemoryFields DEF PoolInv
    <2> QED
      BY <1>2, <2>1, <2>2, <2>3 DEF InoOf
  <1> QED
    BY <1>2, <1>3, <1>4, <1>5

\* The pools stay in order.
LEMMA AddedPool ==
    ASSUME NEW m, NEW r, PoolInv(m, r), NEW m2, NEW d, NEW at \in Dentry, NEW n, NEW v, NEW s,
           NEW i, Added(m, m2, d, at, n, v, s, i), m.dent[at].used
    PROVE  PoolInv(m2, r)
  <1> USE NoneIsNoNumber
  <1>1. /\ d \in Dentry /\ ~m.dent[d].used /\ d # at
        /\ m2.dent[d].used /\ m2.dent[d].name = n /\ m2.dent[d].node = v
        /\ m2.dent[d].parent = at /\ m2.dent[d].kids = {}
        /\ n \in Name /\ v \in Vnode /\ s \in Data /\ i \in Ino
        /\ m.vnode[v] = None /\ m.data[s] = None
        /\ m2.dent[at].kids = m.dent[at].kids \cup {d}
    BY DEF Added
  <1>2. \A x \in Dentry \ {d} : /\ m2.dent[x].used = m.dent[x].used
                                /\ m2.dent[x].name = m.dent[x].name
                                /\ m2.dent[x].node = m.dent[x].node
                                /\ m2.dent[x].parent = m.dent[x].parent
    BY DEF Added
  <1>3. \A x \in Dentry \ {d, at} : m2.dent[x] = m.dent[x]
    BY DEF Added
  <1>m. m \in Memory /\ m2 \in Memory
    BY DEF PoolInv, Added
  <1>4. \A u \in Vnode : m.vnode[u] # None =>
          /\ u # v /\ m.vnode[u] # s
          /\ m2.vnode[u] = m.vnode[u] /\ m2.data[m.vnode[u]] = m.data[m.vnode[u]]
    <2>1. /\ \A u \in Vnode : m.vnode[u] # None =>
                /\ u # v /\ m.vnode[u] # s
                /\ m2.vnode[u] = m.vnode[u] /\ m2.data[m.vnode[u]] = m.data[m.vnode[u]]
          /\ m2.vnode[v] = s /\ m2.data[s] = i
          /\ InoOf(m2, d) = i
          /\ \A x \in Dentry \ {d} : InoOf(m2, x) = InoOf(m, x)
      BY ONLY AddedInodes, PoolInv(m, r), Added(m, m2, d, at, n, v, s, i)
    <2> QED
      BY <2>1
  <1>5. m2.vnode[v] = s /\ m2.data[s] = i
    BY AddedInodes
  <1>6. \A u \in Vnode \ {v} : m2.vnode[u] = m.vnode[u]
    BY <1>m, MemoryFields DEF Added
  <1>7. m.dent[d].node = None
    BY <1>1 DEF PoolInv, FreeDentry
  <1>8. \A x \in Dentry : ~m2.dent[x].used => m2.dent[x] = FreeDentry
    BY <1>1, <1>2, <1>3 DEF PoolInv
  <1>9. \A x \in Dentry : \A k \in m2.dent[x].kids :
          m2.dent[k].used /\ m2.dent[k].parent = x /\ m2.dent[k].name \in Name
    <2> SUFFICES ASSUME NEW x \in Dentry, NEW k \in m2.dent[x].kids
                 PROVE  m2.dent[k].used /\ m2.dent[k].parent = x /\ m2.dent[k].name \in Name
      OBVIOUS
    <2>1. CASE k = d
      <3>1. x = at
        <4>1. d \notin m.dent[x].kids
          BY <1>1 DEF PoolInv
        <4> QED
          BY <1>1, <1>3, <2>1, <4>1
      <3> QED
        BY <1>1, <2>1, <3>1
    <2>2. CASE k # d
      <3>1. k \in m.dent[x].kids
        BY <1>1, <1>3, <2>2
      <3>2. k \in Dentry
        BY <1>m, MemoryFields
      <3> QED
        BY <1>2, <2>2, <3>1, <3>2 DEF PoolInv
    <2> QED
      BY <2>1, <2>2
  <1>10. m2.dent[1].used /\ m2.dent[1].node = None /\ m2.dent[1].parent = None
    BY <1>1, <1>2 DEF PoolInv
  <1>11. r # None => r \in Dentry \ {1} /\ m2.dent[r].used /\ m2.dent[r].parent = None
    BY <1>1, <1>2 DEF PoolInv
  <1>12. \A x \in Dentry \ {d} : m.dent[x].node # None =>
           m.dent[x].node \in Vnode /\ m.vnode[m.dent[x].node] # None
    BY <1>m, MemoryFields DEF PoolInv
  <1>13. \A x \in Dentry : m2.dent[x].node # None => m2.vnode[m2.dent[x].node] # None
    BY <1>1, <1>2, <1>4, <1>5, <1>12
  <1>14. \A x, e \in Dentry : m2.dent[x].node # None /\ m2.dent[x].node = m2.dent[e].node => x = e
    <2>1. \A x \in Dentry \ {d} : m2.dent[x].node # None => m2.dent[x].node # v
      <3> SUFFICES ASSUME NEW x \in Dentry \ {d}, m2.dent[x].node # None
                   PROVE  m2.dent[x].node # v
        OBVIOUS
      <3>1. m2.dent[x].node = m.dent[x].node
        BY <1>2
      <3>2. m.vnode[m.dent[x].node] # None
        BY <1>12, <3>1
      <3> QED
        BY <1>1, <3>1, <3>2
    <2>2. \A x, e \in Dentry : m.dent[x].node # None /\ m.dent[x].node = m.dent[e].node => x = e
      BY DEF PoolInv
    <2> QED
      BY <1>1, <1>2, <2>1, <2>2
  <1>15. \A u \in Vnode : m2.vnode[u] # None =>
           m2.data[m2.vnode[u]] # None /\ \E x \in Dentry : m2.dent[x].node = u
    <2> SUFFICES ASSUME NEW u \in Vnode, m2.vnode[u] # None
                 PROVE  m2.data[m2.vnode[u]] # None /\ \E x \in Dentry : m2.dent[x].node = u
      OBVIOUS
    <2>1. CASE u = v
      BY <1>1, <1>5, <2>1
    <2>2. CASE u # v
      <3>1. m.vnode[u] # None
        BY <1>6, <2>2
      <3>2. m.data[m.vnode[u]] # None
        BY <3>1 DEF PoolInv
      <3>3. PICK x \in Dentry : m.dent[x].node = u
        BY <3>1 DEF PoolInv
      <3>4. x # d
        BY <1>7, <3>3
      <3> QED
        BY <1>2, <1>4, <3>1, <3>2, <3>3, <3>4
    <2> QED
      BY <2>1, <2>2
  <1>16. \A u, w \in Vnode : m2.vnode[u] # None /\ m2.vnode[u] = m2.vnode[w] => u = w
    <2>1. \A u, w \in Vnode : m.vnode[u] # None /\ m.vnode[u] = m.vnode[w] => u = w
      BY DEF PoolInv
    <2> QED
      BY <1>1, <1>4, <1>5, <1>6, <2>1
  <1> QED
    BY <1>m, <1>8, <1>9, <1>10, <1>11, <1>13, <1>14, <1>15, <1>16 DEF PoolInv

\* Below the roots there is one dentry more.
LEMMA AddedLive ==
    ASSUME NEW m, NEW r, PoolInv(m, r), NEW m2, NEW d, NEW at \in Live(m, r), NEW n, NEW v,
           NEW s, NEW i, Added(m, m2, d, at, n, v, s, i)
    PROVE  /\ Live(m2, r) = Live(m, r) \cup {d}
           /\ LiveOrFree(m2, r) = LiveOrFree(m, r)
           /\ d \notin Live(m, r)
  <1>1. at \in Dentry /\ m.dent[at].used
    BY PoolFacts
  <1>2. PoolInv(m2, r)
    BY <1>1, AddedPool
  <1>3. /\ d \in Dentry /\ ~m.dent[d].used /\ m2.dent[d].kids = {} /\ m2.dent[d].used
        /\ m2.dent[at].kids = m.dent[at].kids \cup {d}
        /\ \A x \in Dentry \ {d, at} : m2.dent[x] = m.dent[x]
        /\ \A x \in Dentry \ {d} : m2.dent[x].used = m.dent[x].used
    BY DEF Added
  <1>4. d \notin Live(m, r)
    BY <1>3, PoolFacts
  <1>5. Lists(m, r) /\ Lists(m2, r)
    BY <1>2, PoolFacts
  <1>6. Live(m2, r) \subseteq Live(m, r) \cup {d}
    <2> DEFINE Y == Live(m, r) \cup {d}
    <2>1. Y \in SUBSET Dentry /\ Roots(r) \subseteq Y
      BY <1>3, <1>5, LiveFacts
    <2>2. \A x \in Y : m2.dent[x].kids \subseteq Y
      BY <1>1, <1>3, <1>5, LiveFacts
    <2> HIDE DEF Y
    <2>3. Live(m2, r) \subseteq Y
      BY <2>1, <2>2, LiveLeast
    <2> QED
      BY <2>3 DEF Y
  <1>7. Live(m, r) \subseteq Live(m2, r)
    <2>1. Live(m2, r) \in SUBSET Dentry /\ Roots(r) \subseteq Live(m2, r)
      BY <1>5, LiveFacts
    <2>2. \A x \in Live(m2, r) : m2.dent[x].kids \subseteq Live(m2, r)
      BY <1>5, LiveFacts
    <2>3. m.dent[d].kids = {}
      BY <1>3 DEF PoolInv, FreeDentry
    <2>4. \A x \in Live(m2, r) : m.dent[x].kids \subseteq Live(m2, r)
      BY <1>3, <2>1, <2>2, <2>3
    <2> QED
      BY <2>1, <2>4, LiveLeast
  <1>8. d \in Live(m2, r)
    BY <1>3, <1>5, <1>7, LiveFacts
  <1>9. FreeDentries(m2) = FreeDentries(m) \ {d}
    BY <1>3 DEF FreeDentries
  <1>10. d \in FreeDentries(m)
    BY <1>3 DEF FreeDentries
  <1> QED
    BY <1>4, <1>6, <1>7, <1>8, <1>9, <1>10 DEF LiveOrFree

\* The cache still agrees with the disk when the disk has the name and the cache
\* did not have it.
LEMMA AddedCache ==
    ASSUME NEW m, NEW r, NEW T, PoolInv(m, r), CacheInv(m, r, T), DiskInv(T),
           NEW m2, NEW d, NEW at \in Live(m, r) \ {1}, NEW n, NEW v, NEW s, NEW i,
           Added(m, m2, d, at, n, v, s, i),
           i = T[Expected(m, r, at)].ents[n],
           \A k \in m.dent[at].kids : m.dent[k].name # n
    PROVE  CacheInv(m2, r, T)
  <1> USE NoneIsNoNumber
  <1>1. at \in Dentry /\ m.dent[at].used /\ at # 1
    BY PoolFacts
  <1>2. /\ d \in Dentry /\ ~m.dent[d].used /\ m2.dent[d].kids = {}
        /\ m2.dent[d].name = n /\ m2.dent[d].parent = at
        /\ n \in Name /\ i \in Ino
        /\ m2.dent[at].kids = m.dent[at].kids \cup {d}
        /\ \A x \in Dentry \ {d, at} : m2.dent[x] = m.dent[x]
        /\ \A x \in Dentry \ {d} : m2.dent[x].name = m.dent[x].name
    BY DEF Added
  <1>3. Live(m2, r) = Live(m, r) \cup {d} /\ d \notin Live(m, r)
    BY AddedLive
  <1>4. d # 1 /\ d # r
    BY <1>2 DEF PoolInv
  <1>5. InoOf(m2, d) = i /\ \A x \in Dentry \ {d} : InoOf(m2, x) = InoOf(m, x)
    BY AddedInodes
  <1>6. Expected(m2, r, d) = i /\ \A x \in Dentry \ {d} : Expected(m2, r, x) = Expected(m, r, x)
    BY <1>4, <1>5 DEF Expected
  <1>7. \A x \in Live(m, r) : x \in Dentry \ {d}
    BY <1>3, PoolFacts
  <1>8. \A x \in Live(m, r) \ {1} : Expected(m, r, x) # i
    <2> SUFFICES ASSUME NEW x \in Live(m, r) \ {1}, Expected(m, r, x) = i PROVE FALSE
      OBVIOUS
    <2>1. Expected(m, r, at) \in Ino
      BY CacheFacts
    <2>2. i # Root
      <3>1. \A j \in Ino, q \in Name : T[j].ents[q] # None => T[j].ents[q] # Root
        BY DEF DiskInv
      <3>2. PICK j \in Ino : j = Expected(m, r, at)
        BY <2>1
      <3>3. T[j].ents[n] = i /\ i # None /\ n \in Name
        BY <1>2, <3>2
      <3> QED
        BY <3>1, <3>3
    <2>3. x # r
      BY <2>2 DEF Expected
    <2>4. PICK p \in Live(m, r) :
            /\ x \in m.dent[p].kids
            /\ p = 1 => InoOf(m, x) = Root
            /\ p # 1 => InoOf(m, x) = T[Expected(m, r, p)].ents[m.dent[x].name]
      BY <2>3, CacheFacts
    <2>5. InoOf(m, x) = i
      BY <2>3 DEF Expected
    <2>6. p # 1
      BY <2>2, <2>4, <2>5
    <2>7. Expected(m, r, p) \in Ino /\ m.dent[x].name \in Name
      BY <2>4, <2>6, CacheFacts
    <2>8. PICK j \in Ino, q \in Name : j = Expected(m, r, p) /\ q = m.dent[x].name
      BY <2>7
    <2>9. T[j].ents[q] = i
      BY <2>4, <2>5, <2>6, <2>8
    <2>10. \A j1, j2 \in Ino, q1, q2 \in Name :
             T[j1].ents[q1] # None /\ T[j1].ents[q1] = T[j2].ents[q2] => j1 = j2 /\ q1 = q2
      BY DEF DiskInv
    <2>11. j = Expected(m, r, at) /\ q = n
      BY <1>2, <2>1, <2>9, <2>10
    <2>12. p = at
      BY <2>6, <2>8, <2>11 DEF CacheInv
    <2> QED
      BY <2>4, <2>8, <2>11, <2>12
  <1>9. \A x \in Live(m2, r) \ {1} : Expected(m2, r, x) # None
    <2>1. \A x \in Live(m, r) \ {1} : Expected(m, r, x) # None
      BY DEF CacheInv
    <2>2. i # None
      BY <1>2
    <2> QED
      BY <1>3, <1>6, <1>7, <2>1, <2>2
  <1>10. \A x \in Live(m2, r) \ {1} : \A k \in m2.dent[x].kids :
           InoOf(m2, k) = T[Expected(m2, r, x)].ents[m2.dent[k].name]
    <2> SUFFICES ASSUME NEW x \in Live(m2, r) \ {1}, NEW k \in m2.dent[x].kids
                 PROVE  InoOf(m2, k) = T[Expected(m2, r, x)].ents[m2.dent[k].name]
      OBVIOUS
    <2>1. x \in Live(m, r) \ {1} /\ x # d /\ x \in Dentry
      BY <1>2, <1>3, <1>7
    <2>2. CASE k = d
      <3>1. x = at
        <4>1. d \notin m.dent[x].kids
          BY <1>2, <2>1 DEF PoolInv
        <4> QED
          BY <1>2, <2>1, <2>2, <4>1
      <3> QED
        BY <1>2, <1>5, <1>6, <2>1, <2>2, <3>1
    <2>3. CASE k # d
      <3>1. k \in m.dent[x].kids
        BY <1>2, <2>1, <2>3
      <3>2. k \in Dentry
        BY <2>1, <3>1, PoolFacts
      <3>3. InoOf(m, k) = T[Expected(m, r, x)].ents[m.dent[k].name]
        BY <2>1, <3>1, CacheFacts
      <3> QED
        BY <1>2, <1>5, <1>6, <2>1, <2>3, <3>2, <3>3
    <2> QED
      BY <2>2, <2>3
  <1>11. \A x, e \in Live(m2, r) \ {1} : Expected(m2, r, x) = Expected(m2, r, e) => x = e
    <2>1. \A x, e \in Live(m, r) \ {1} : Expected(m, r, x) = Expected(m, r, e) => x = e
      BY DEF CacheInv
    <2> QED
      BY <1>3, <1>6, <1>7, <1>8, <2>1
  <1>12. \A k \in m2.dent[1].kids : InoOf(m2, k) = Root /\ r = None
    <2>1. m2.dent[1] = m.dent[1]
      BY <1>1, <1>2, <1>4
    <2>2. \A k \in m.dent[1].kids : k \in Dentry \ {d}
      BY <1>2, PoolFacts DEF PoolInv
    <2> QED
      BY <1>5, <2>1, <2>2 DEF CacheInv
  <1>13. r # None => InoOf(m2, r) \in {Root, None}
    BY <1>4, <1>5 DEF CacheInv, PoolInv
  <1> QED
    BY <1>9, <1>10, <1>11, <1>12, <1>13 DEF CacheInv

-----------------------------------------------------------------------------
(***************************************************************************)
(* Walks along a path                                                      *)
(***************************************************************************)
\* What a call that only looks up and makes names leaves as it was.
KeepsNodes(m, m2) ==
    /\ \A u \in Vnode : m.vnode[u] # None =>
         m2.vnode[u] = m.vnode[u] /\ m2.data[m.vnode[u]] = m.data[m.vnode[u]]
    /\ \A x \in Dentry : InoOf(m, x) # None =>
         InoOf(m2, x) = InoOf(m, x) /\ m2.dent[x].node = m.dent[x].node
    /\ m2.dent[1].kids = m.dent[1].kids

\* The same, with the dentries below the roots.
Keeps(m, m2, r) ==
    /\ KeepsNodes(m, m2)
    /\ Live(m, r) \subseteq Live(m2, r)
    /\ LiveOrFree(m, r) \subseteq LiveOrFree(m2, r)

\* To keep is a preorder.
LEMMA KeepsNodesTrans ==
    ASSUME NEW m1, NEW m2, NEW m3, m1 \in Memory, KeepsNodes(m1, m2), KeepsNodes(m2, m3)
    PROVE  KeepsNodes(m1, m3)
  <1> USE NoneIsNoNumber
  <1>1. \A u \in Vnode : m1.vnode[u] # None =>
          m3.vnode[u] = m1.vnode[u] /\ m3.data[m1.vnode[u]] = m1.data[m1.vnode[u]]
    <2>1. \A u \in Vnode : m1.vnode[u] # None =>
            m2.vnode[u] = m1.vnode[u] /\ m2.data[m1.vnode[u]] = m1.data[m1.vnode[u]]
      BY DEF KeepsNodes
    <2>2. \A u \in Vnode : m2.vnode[u] # None =>
            m3.vnode[u] = m2.vnode[u] /\ m3.data[m2.vnode[u]] = m2.data[m2.vnode[u]]
      BY DEF KeepsNodes
    <2> QED
      BY <2>1, <2>2
  <1>2. \A x \in Dentry : InoOf(m1, x) # None =>
          InoOf(m3, x) = InoOf(m1, x) /\ m3.dent[x].node = m1.dent[x].node
    BY DEF KeepsNodes
  <1> QED
    BY <1>1, <1>2 DEF KeepsNodes

\* The same for what is below the roots.
LEMMA KeepsTrans ==
    ASSUME NEW r, NEW m1, NEW m2, NEW m3, m1 \in Memory, Keeps(m1, m2, r), Keeps(m2, m3, r)
    PROVE  Keeps(m1, m3, r)
  <1>1. KeepsNodes(m1, m3)
    BY KeepsNodesTrans DEF Keeps
  <1> QED
    BY <1>1 DEF Keeps

\* Nothing changes in nothing.
LEMMA KeepsSelf ==
    ASSUME NEW r, NEW m
    PROVE  Keeps(m, m, r)
  BY DEF Keeps, KeepsNodes

\* With the lists and names the same, the same dentries are below the roots, and the
\* cache agrees with the disk as long as every dentry stands for the same inode.
LEMMA CacheSame ==
    ASSUME NEW m, NEW r, PoolInv(m, r), NEW m2,
           \A x \in Dentry : m2.dent[x].kids = m.dent[x].kids /\ m2.dent[x].name = m.dent[x].name,
           \A x \in Dentry : x # r => InoOf(m2, x) = InoOf(m, x),
           r # None => InoOf(m2, r) \in {Root, None},
           NEW T
    PROVE  Live(m2, r) = Live(m, r) /\ (CacheInv(m, r, T) => CacheInv(m2, r, T))
  <1>1. Live(m2, r) = Live(m, r)
    <2>1. \A Y \in SUBSET Dentry : Closed(m2, Y) <=> Closed(m, Y)
      BY DEF Closed
    <2> QED
      BY <2>1 DEF Live
  <1>2. \A x \in Dentry : Expected(m2, r, x) = Expected(m, r, x)
    BY DEF Expected
  <1>3. Live(m, r) \subseteq Dentry /\ 1 \in Dentry
    BY PoolFacts, NoneIsNoNumber
  <1>4. \A x \in Dentry : \A k \in m.dent[x].kids : k \in Dentry /\ k # r
    <2>1. \A x \in Dentry : \A k \in m.dent[x].kids : k \in Dentry /\ k \notin Roots(r)
      BY PoolFacts
    <2> QED
      BY <2>1, NoneIsNoNumber DEF Roots
  <1>5. \A x \in Dentry : \A k \in m2.dent[x].kids :
          k \in m.dent[x].kids /\ InoOf(m2, k) = InoOf(m, k) /\ m2.dent[k].name = m.dent[k].name
    BY <1>4
  <1> SUFFICES ASSUME CacheInv(m, r, T) PROVE CacheInv(m2, r, T)
    BY <1>1
  <1>6. \A d \in Live(m2, r) \ {1} : Expected(m2, r, d) # None
    BY <1>1, <1>2, <1>3 DEF CacheInv
  <1>7. \A d \in Live(m2, r) \ {1} : \A k \in m2.dent[d].kids :
          InoOf(m2, k) = T[Expected(m2, r, d)].ents[m2.dent[k].name]
    <2> SUFFICES ASSUME NEW d \in Live(m2, r) \ {1}, NEW k \in m2.dent[d].kids
                 PROVE  InoOf(m2, k) = T[Expected(m2, r, d)].ents[m2.dent[k].name]
      OBVIOUS
    <2>1. d \in Dentry /\ d \in Live(m, r) \ {1}
      BY <1>1, <1>3
    <2>2. InoOf(m, k) = T[Expected(m, r, d)].ents[m.dent[k].name]
      BY <1>5, <2>1 DEF CacheInv
    <2> QED
      BY <1>2, <1>5, <2>1, <2>2
  <1>8. \A d, e \in Live(m2, r) \ {1} : Expected(m2, r, d) = Expected(m2, r, e) => d = e
    <2>1. \A d, e \in Live(m, r) \ {1} : Expected(m, r, d) = Expected(m, r, e) => d = e
      BY DEF CacheInv
    <2> QED
      BY <1>1, <1>2, <1>3, <2>1
  <1>9. \A k \in m2.dent[1].kids : InoOf(m2, k) = Root /\ r = None
    BY <1>3, <1>5 DEF CacheInv
  <1> QED
    BY <1>6, <1>7, <1>8, <1>9 DEF CacheInv

\* Without a dentry for it, the vnode is given back and the driver's data is lost.
LEMMA NoDentryFacts ==
    ASSUME NEW m, NEW r, PoolInv(m, r), CanMakeVnode(m), NEW i \in Ino
    PROVE  LET m2 == NoDentry(MakeVnode(m, i), NewVnode(m))
           IN  /\ PoolInv(m2, r)
               /\ Keeps(m, m2, r)
               /\ \A T : CacheInv(m, r, T) => CacheInv(m2, r, T)
  <1> USE NoneIsNoNumber
  <1> DEFINE m1 == MakeVnode(m, i)
             v  == NewVnode(m)
             m2 == NoDentry(m1, v)
  <1>1. m \in Memory
    BY DEF PoolInv
  <1>2. PICK s \in Data : MadeVnode(m, m1, v, s, i)
    BY <1>1, MakeVnodeIs
  <1>3. m2 = [m1 EXCEPT !.vnode[v] = None]
    BY DEF NoDentry, FreeVnode
  <1> HIDE DEF m1, v, m2
  <1>4. /\ m1 \in Memory /\ m1.dent = m.dent /\ m1.vnode = [m.vnode EXCEPT ![v] = s]
        /\ m1.data = [m.data EXCEPT ![s] = i] /\ v \in Vnode /\ m.vnode[v] = None
        /\ m.data[s] = None
    BY <1>2 DEF MadeVnode
  <1>5. m2.dent = m.dent /\ m2.vnode = m.vnode /\ m2.data = m1.data
    <2>1. m2.dent = m1.dent /\ m2.data = m1.data /\ m2.vnode = [m1.vnode EXCEPT ![v] = None]
      BY <1>3, <1>4 DEF Memory
    <2>2. [m1.vnode EXCEPT ![v] = None] = m.vnode
      BY <1>1, <1>4, MemoryFields
    <2> QED
      BY <1>4, <2>1, <2>2
  <1>6. m2 \in Memory
    <2>1. m2 = [m1 EXCEPT !.vnode = m.vnode]
      <3>1. [m1.vnode EXCEPT ![v] = None] = m.vnode
        BY <1>1, <1>4, MemoryFields
      <3> QED
        BY <1>3, <1>4, <3>1 DEF Memory
    <2> QED
      BY <1>1, <1>4, <2>1 DEF Memory
  <1>7. \A u \in Vnode : m.vnode[u] # None =>
          m2.vnode[u] = m.vnode[u] /\ m2.data[m.vnode[u]] = m.data[m.vnode[u]]
    <2> SUFFICES ASSUME NEW u \in Vnode, m.vnode[u] # None
                 PROVE  m2.data[m.vnode[u]] = m.data[m.vnode[u]]
      BY <1>5
    <2>1. m.vnode[u] \in Data \cup {None} /\ m.data[m.vnode[u]] # None
      BY <1>1, MemoryFields DEF PoolInv
    <2> QED
      BY <1>1, <1>4, <1>5, <2>1, MemoryFields
  <1>8. \A x \in Dentry : InoOf(m2, x) = InoOf(m, x)
    <2> SUFFICES ASSUME NEW x \in Dentry PROVE InoOf(m2, x) = InoOf(m, x)
      OBVIOUS
    <2>1. m.dent[x].node # None => m.dent[x].node \in Vnode /\ m.vnode[m.dent[x].node] # None
      BY <1>1, MemoryFields DEF PoolInv
    <2> QED
      BY <1>5, <1>7, <2>1 DEF InoOf
  <1>9. PoolInv(m2, r)
    <2>1. \A u \in Vnode : m2.vnode[u] # None =>
            m2.data[m2.vnode[u]] # None /\ \E d \in Dentry : m2.dent[d].node = u
      BY <1>5, <1>7 DEF PoolInv
    <2> QED
      BY <1>5, <1>6, <2>1 DEF PoolInv
  <1>10. r # None => InoOf(m2, r) = InoOf(m, r)
    BY <1>8 DEF PoolInv
  <1>11. \A T : CacheInv(m, r, T) => CacheInv(m2, r, T)
    <2> SUFFICES ASSUME NEW T, CacheInv(m, r, T) PROVE CacheInv(m2, r, T)
      OBVIOUS
    <2>1. r # None => InoOf(m2, r) \in {Root, None}
      BY <1>10 DEF CacheInv
    <2> QED
      BY <1>5, <1>8, <2>1, CacheSame
  <1>12. Keeps(m, m2, r)
    <2>1. Live(m2, r) = Live(m, r)
      <3>1. \A Y \in SUBSET Dentry : Closed(m2, Y) <=> Closed(m, Y)
        BY <1>5 DEF Closed
      <3> QED
        BY <3>1 DEF Live
    <2>2. LiveOrFree(m2, r) = LiveOrFree(m, r)
      BY <1>5, <2>1 DEF LiveOrFree, FreeDentries
    <2> QED
      BY <1>5, <1>7, <1>8, <2>1, <2>2 DEF Keeps, KeepsNodes
  <1> QED
    BY <1>9, <1>11, <1>12 DEF m1, v, m2

\* A dentry that is added leaves the rest as it was.
LEMMA AddedKeeps ==
    ASSUME NEW m, NEW r, PoolInv(m, r), NEW m2, NEW d, NEW at \in Live(m, r) \ {1}, NEW n, NEW v,
           NEW s, NEW i, Added(m, m2, d, at, n, v, s, i)
    PROVE  Keeps(m, m2, r)
  <1> USE NoneIsNoNumber
  <1>1. \A u \in Vnode : m.vnode[u] # None =>
          m2.vnode[u] = m.vnode[u] /\ m2.data[m.vnode[u]] = m.data[m.vnode[u]]
    BY AddedInodes
  <1>2. d \in Dentry /\ ~m.dent[d].used
    BY DEF Added
  <1>3. \A x \in Dentry : InoOf(m, x) # None => x # d
    BY <1>2, PoolFacts
  <1>4. \A x \in Dentry \ {d} : InoOf(m2, x) = InoOf(m, x)
    BY AddedInodes
  <1>5. \A x \in Dentry \ {d} : m2.dent[x].node = m.dent[x].node
    BY DEF Added
  <1>6. m2.dent[1] = m.dent[1]
    BY <1>2 DEF Added, PoolInv
  <1>7. Live(m, r) \subseteq Live(m2, r) /\ LiveOrFree(m, r) \subseteq LiveOrFree(m2, r)
    <2>1. at \in Live(m, r)
      OBVIOUS
    <2>2. Live(m2, r) = Live(m, r) \cup {d} /\ LiveOrFree(m2, r) = LiveOrFree(m, r)
      BY <2>1, AddedLive
    <2> QED
      BY <2>2
  <1> QED
    BY <1>1, <1>3, <1>4, <1>5, <1>6, <1>7 DEF Keeps, KeepsNodes

\* Where a walk from root that began in the pools m may be.
Walks(m, r, root) ==
    {w \in [m : Memory, at : Dentry \cup {None}, ok : BOOLEAN] :
        /\ PoolInv(w.m, r)
        /\ CacheInv(w.m, r, tree)
        /\ Keeps(m, w.m, r)
        /\ w.ok => root # None /\ w.at \in LiveOrFree(w.m, r)
        /\ w.ok /\ root \in Live(m, r) => w.at \in Live(w.m, r)}

\* One turn of the loop
LEMMA EnterKeeps ==
    ASSUME NEW m, NEW r, NEW root, DiskInv(tree), PoolInv(m, r),
           NEW w \in Walks(m, r, root), NEW n \in Name
    PROVE  Enter(w, n) \in Walks(m, r, root)
  <1> USE NoneIsNoNumber
  <1> DEFINE k  == Child(w.m, w.at, n)
             i  == tree[InoOf(w.m, w.at)].ents[n]
             v  == NewVnode(w.m)
             m1 == MakeVnode(w.m, i)
             m2 == MakeDentry(m1, n, v, w.at)
  <1>1. w \in [m : Memory, at : Dentry \cup {None}, ok : BOOLEAN]
        /\ PoolInv(w.m, r) /\ CacheInv(w.m, r, tree) /\ Keeps(m, w.m, r)
        /\ (w.ok => root # None /\ w.at \in LiveOrFree(w.m, r))
        /\ (w.ok /\ root \in Live(m, r) => w.at \in Live(w.m, r))
    BY DEF Walks
  <1>2. Enter(w, n) =
          IF ~w.ok THEN w
          ELSE IF k # None THEN [w EXCEPT !.at = k]
          ELSE IF ~Finds(w.m, w.at, n) THEN [w EXCEPT !.ok = FALSE]
          ELSE IF FreeDentries(m1) = {} THEN [w EXCEPT !.m = NoDentry(m1, v), !.ok = FALSE]
          ELSE [w EXCEPT !.m = m2, !.at = Child(m2, w.at, n)]
    BY DEF Enter
  <1>3. CASE ~w.ok
    BY <1>2, <1>3
  <1>4. CASE w.ok /\ k # None
    <2>1. w.at \in LiveOrFree(w.m, r) /\ w.at \in Dentry
      BY <1>1, <1>4, PoolFacts
    <2>2. w.m.dent[w.at].kids \subseteq Dentry
      BY <1>1, <2>1, MemoryFields
    <2>3. k \in w.m.dent[w.at].kids
      BY <1>4, <2>2, ChildFacts
    <2>4. k \in Live(w.m, r) /\ k \in Dentry
      BY <1>1, <2>1, <2>2, <2>3, PoolFacts
    <2>5. k \in LiveOrFree(w.m, r)
      BY <2>4 DEF LiveOrFree
    <2> HIDE DEF k
    <2>6. Enter(w, n) = [w EXCEPT !.at = k]
      BY <1>2, <1>4
    <2>7. [w EXCEPT !.at = k] \in Walks(m, r, root)
      BY <1>1, <2>4, <2>5 DEF Walks
    <2> QED
      BY <2>6, <2>7
  <1>5. CASE w.ok /\ k = None /\ ~Finds(w.m, w.at, n)
    <2>1. Enter(w, n) = [w EXCEPT !.ok = FALSE]
      BY <1>2, <1>5
    <2>2. [w EXCEPT !.ok = FALSE] \in Walks(m, r, root)
      BY <1>1 DEF Walks
    <2> QED
      BY <2>1, <2>2
  <1>6. CASE w.ok /\ k = None /\ Finds(w.m, w.at, n)
    <2>1. InoOf(w.m, w.at) # None /\ i # None /\ CanMakeVnode(w.m)
      BY <1>6 DEF Finds, IsDir
    <2>2. w.at \in Live(w.m, r) \ {1}
      BY <1>1, <1>6, <2>1, PoolFacts
    <2>3. w.at \in Dentry /\ w.m.dent[w.at].used
      BY <1>1, <2>2, PoolFacts
    <2>4. Expected(w.m, r, w.at) = InoOf(w.m, w.at) /\ InoOf(w.m, w.at) \in Ino
      BY <1>1, <2>1, <2>2, <2>3, CacheFacts
    <2>5. i \in Ino
      <3>1. \A j \in Ino : tree[j] \in InodeRec
        BY DEF DiskInv
      <3>2. \A j \in Ino : tree[j].ents \in [Name -> Ino \cup {None}]
        BY <3>1 DEF InodeRec
      <3> QED
        BY <2>1, <2>4, <3>2
    <2>6. PICK s \in Data : MadeVnode(w.m, m1, v, s, i)
      BY <1>1, <2>1, <2>5, MakeVnodeIs
    <2>7. w.m.dent[w.at].kids \subseteq Dentry
      BY <1>1, <2>3, MemoryFields
    <2>8. \A x \in w.m.dent[w.at].kids : w.m.dent[x].name # n
      BY <1>6, <2>7, ChildFacts
    <2>9. CASE FreeDentries(m1) = {}
      <3> DEFINE lost == NoDentry(m1, v)
      <3>1. PoolInv(lost, r) /\ Keeps(w.m, lost, r) /\ CacheInv(lost, r, tree)
        BY <1>1, <2>1, <2>5, NoDentryFacts
      <3>2. Enter(w, n) = [w EXCEPT !.m = lost, !.ok = FALSE]
        BY <1>2, <1>6, <2>9
      <3> HIDE DEF lost, k, i, v, m1, m2
      <3>3. lost \in Memory /\ m \in Memory
        BY <3>1 DEF PoolInv
      <3>4. Keeps(m, lost, r)
        BY <1>1, <3>1, <3>3, KeepsTrans
      <3>5. [w EXCEPT !.m = lost, !.ok = FALSE] \in Walks(m, r, root)
        BY <1>1, <3>1, <3>3, <3>4 DEF Walks
      <3> QED
        BY <3>2, <3>5
    <2>10. CASE FreeDentries(m1) # {}
      <3>1. PICK d \in Dentry : Added(w.m, m2, d, w.at, n, v, s, i)
        BY <1>1, <2>3, <2>6, <2>10, MakeDentryIs
      <3> DEFINE next == Child(m2, w.at, n)
      <3>2. Enter(w, n) = [w EXCEPT !.m = m2, !.at = next]
        BY <1>2, <1>6, <2>10
      <3>i. PICK j : j = i
        OBVIOUS
      <3>a. j = tree[Expected(w.m, r, w.at)].ents[n]
        BY <2>4, <3>i
      <3>b. Added(w.m, m2, d, w.at, n, v, s, j)
        BY <3>1, <3>i
      <3> HIDE DEF k, i, v, m1, m2
      <3>3. PoolInv(m2, r)
        BY <1>1, <2>3, <3>b, AddedPool
      <3>c. PoolInv(w.m, r) /\ CacheInv(w.m, r, tree) /\ w.at \in Live(w.m, r)
        BY <1>1, <2>2
      <3>4. CacheInv(m2, r, tree)
        <4>1. PICK T, mm, at : T = tree /\ mm = w.m /\ at = w.at
          OBVIOUS
        <4>2. /\ PoolInv(mm, r) /\ CacheInv(mm, r, T) /\ DiskInv(T)
              /\ at \in Live(mm, r) \ {1} /\ Added(mm, m2, d, at, n, v, s, j)
              /\ j = T[Expected(mm, r, at)].ents[n]
              /\ \A x \in mm.dent[at].kids : mm.dent[x].name # n
          BY <2>2, <2>8, <3>a, <3>b, <3>c, <4>1
        <4>3. CacheInv(m2, r, T)
          BY ONLY <4>2, AddedCache
        <4> QED
          BY <4>1, <4>3
      <3>5. Keeps(w.m, m2, r)
        BY <1>1, <2>2, <3>b, AddedKeeps
      <3>6. m2 \in Memory /\ m \in Memory
        BY <3>3 DEF PoolInv
      <3>7. Keeps(m, m2, r)
        BY <1>1, <3>5, <3>6, KeepsTrans
      <3>8. next = d
        <4>1. m2.dent[w.at].kids = w.m.dent[w.at].kids \cup {d} /\ m2.dent[d].name = n
              /\ \A x \in Dentry \ {d} : m2.dent[x].name = w.m.dent[x].name
          BY <3>b DEF Added
        <4>2. m2.dent[w.at].kids \subseteq Dentry
          BY <2>7, <4>1
        <4>3. \A x \in m2.dent[w.at].kids : m2.dent[x].name = n => x = d
          BY <2>7, <2>8, <4>1
        <4>4. next # None
          BY <4>1, <4>2, ChildFacts
        <4>5. next \in m2.dent[w.at].kids /\ m2.dent[next].name = n
          BY <4>2, <4>4, ChildFacts
        <4> QED
          BY <4>3, <4>5
      <3>9. d \in Live(m2, r)
        <4>1. Live(m2, r) = Live(w.m, r) \cup {d}
          BY <3>b, <3>c, AddedLive
        <4> QED
          BY <4>1
      <3>10. d \in LiveOrFree(m2, r)
        BY <3>9 DEF LiveOrFree
      <3> HIDE DEF next
      <3>11. [w EXCEPT !.m = m2, !.at = next] \in Walks(m, r, root)
        BY <1>1, <3>3, <3>4, <3>6, <3>7, <3>8, <3>9, <3>10 DEF Walks
      <3> QED
        BY <3>2, <3>11
    <2> QED
      BY <2>9, <2>10
  <1> QED
    BY <1>3, <1>4, <1>5, <1>6

\* h is the course of the walk along the path, turn by turn.
Course(h, m, root, names) ==
    h = [k \in 0 .. Len(names) |->
           IF k = 0 THEN [m |-> m, at |-> root, ok |-> root # None]
                    ELSE Enter(h[k - 1], names[k])]

\* A walk is the last turn of its course.
LEMMA WalkIsCourse ==
    ASSUME NEW m, NEW root, NEW names
    PROVE  Walk(m, root, names) = (CHOOSE h : Course(h, m, root, names))[Len(names)]
  BY DEF Walk, Course

\* resolve_path_internal_ns and resolve_parent_ns: wherever they give up, the pools are in order
\* and the cache agrees with the disk.
LEMMA WalkKeeps ==
    ASSUME NEW m, NEW r, NEW root \in {None} \cup LiveOrFree(m, r), NEW names \in Seq(Name),
           DiskInv(tree), PoolInv(m, r), CacheInv(m, r, tree)
    PROVE  Walk(m, root, names) \in Walks(m, r, root)
  <1> USE NoneIsNoNumber
  <1> DEFINE S == Walks(m, r, root)
             a == [m |-> m, at |-> root, ok |-> root # None]
  <1>1. a \in S
    <2>1. m \in Memory /\ Keeps(m, m, r)
      BY KeepsSelf DEF PoolInv
    <2>2. root # None => root \in LiveOrFree(m, r) /\ root \in Dentry
      BY PoolFacts
    <2> QED
      BY <2>1, <2>2 DEF Walks
  <1>2. PICK N \in Nat : N = Len(names)
    OBVIOUS
  <1>3. \A k \in 1 .. N : names[k] \in Name
    BY <1>2
  <1>4. \A k \in 1 .. N : \A w \in S : Enter(w, names[k]) \in S
    BY <1>3, EnterKeeps
  <1> DEFINE F == [k \in 1 .. N |-> [w \in S |-> Enter(w, names[k])]]
  <1> HIDE DEF S, a
  <1>5. F \in [1 .. N -> [S -> S]]
    BY <1>4
  <1>6. PICK f \in [0 .. N -> S] : Iterates(f, N, F, a)
    <2> HIDE DEF F
    <2> QED
      BY <1>1, <1>5, IterationExists
  <1>7. \A k \in 1 .. N : f[k] = Enter(f[k - 1], names[k])
    <2> SUFFICES ASSUME NEW k \in 1 .. N PROVE f[k] = Enter(f[k - 1], names[k])
      OBVIOUS
    <2>1. k - 1 \in 0 .. N
      OBVIOUS
    <2>2. f[k - 1] \in S
      BY <2>1
    <2>3. f[k] = F[k][f[k - 1]]
      BY <1>6 DEF Iterates
    <2> QED
      BY <2>2, <2>3
  <1>8. Course(f, m, root, names)
    <2>1. f = [k \in 0 .. N |-> f[k]]
      OBVIOUS
    <2>2. \A k \in 0 .. N : f[k] = IF k = 0 THEN a ELSE Enter(f[k - 1], names[k])
      BY <1>6, <1>7 DEF Iterates
    <2>3. f = [k \in 0 .. N |-> IF k = 0 THEN a ELSE Enter(f[k - 1], names[k])]
      BY <2>1, <2>2
    <2> QED
      BY <1>2, <2>3 DEF Course, a
  <1>9. PICK g : g = CHOOSE h : Course(h, m, root, names)
    OBVIOUS
  <1>10. Course(g, m, root, names)
    BY <1>8, <1>9
  <1>11. g[0] = a /\ \A k \in 1 .. N : g[k] = Enter(g[k - 1], names[k])
    <2>1. g = [k \in 0 .. N |-> IF k = 0 THEN a ELSE Enter(g[k - 1], names[k])]
      BY <1>2, <1>10 DEF Course, a
    <2>2. \A k \in 0 .. N : g[k] = IF k = 0 THEN a ELSE Enter(g[k - 1], names[k])
      BY <2>1
    <2> QED
      BY <2>2
  <1>12. \A k \in 0 .. N : g[k] \in S
    <2>1. g[0] \in S
      BY <1>1, <1>11
    <2>2. \A k \in 1 .. N : g[k - 1] \in S => g[k] \in S
      BY <1>4, <1>11
    <2> QED
      BY <2>1, <2>2, IterationKeeps
  <1>13. Walk(m, root, names) = g[N]
    BY <1>2, <1>9, WalkIsCourse
  <1>14. N \in 0 .. N
    OBVIOUS
  <1> QED
    BY <1>12, <1>13, <1>14 DEF S

\* The root that a path starts from.
LEMMA RootOf ==
    ASSUME Inv, NEW p \in Path
    PROVE  /\ ns[p.ns] \in {None} \cup LiveOrFree(mem, ns["nyfs"])
           /\ p.ns = "nyfs" /\ ns["nyfs"] # None => ns[p.ns] \in Live(mem, ns["nyfs"])
           /\ p.ns \in Ns /\ p.names \in Seq(Name) /\ Last(p.names) \in Name
           /\ Front(p.names) \in Seq(Name)
  <1>1. p.ns \in Ns /\ p.names \in Seq(Name) /\ p.names # <<>>
    BY NameAssumption
  <1>2. Len(p.names) \in Nat /\ Len(p.names) # 0
    BY <1>1
  <1>3. Last(p.names) \in Name
    BY <1>1, <1>2 DEF Last
  <1>4. Front(p.names) \in Seq(Name)
    <2>1. PICK s \in Seq(Name), j \in Nat : s = p.names /\ j = Len(s) - 1 /\ j <= Len(s)
      <3>1. Len(p.names) - 1 \in Nat /\ Len(p.names) - 1 <= Len(p.names)
        BY <1>2
      <3> QED
        BY <1>1, <3>1
    <2>2. SubSeq(s, 1, j) \in Seq(Name)
      BY <2>1
    <2> QED
      BY <2>1, <2>2 DEF Front
  <1>5. 1 \in Live(mem, ns["nyfs"])
        /\ (ns["nyfs"] # None => ns["nyfs"] \in Live(mem, ns["nyfs"]))
    BY PoolFacts, LiveFacts DEF Inv, Roots
  <1>6. ns[p.ns] \in {None} \cup LiveOrFree(mem, ns["nyfs"])
    <2>1. CASE p.ns = ""
      BY <1>5, <2>1 DEF Inv, NsInv, LiveOrFree
    <2>2. CASE p.ns = "nyfs"
      BY <1>5, <2>2 DEF LiveOrFree
    <2>3. CASE p.ns = "app"
      BY <2>3 DEF Inv, NsInv
    <2> QED
      BY <1>1, <2>1, <2>2, <2>3 DEF Ns
  <1> QED
    BY <1>1, <1>3, <1>4, <1>5, <1>6

\* What the calls find when they have resolved a path or its parent.
LEMMA ResolveKeeps ==
    ASSUME Inv, NEW p \in Path
    PROVE  /\ Resolve(p) \in Walks(mem, ns["nyfs"], ns[p.ns])
           /\ ResolveParent(mem, p) \in Walks(mem, ns["nyfs"], ns[p.ns])
  BY RootOf, WalkKeeps DEF Inv, Resolve, ResolveParent

-----------------------------------------------------------------------------
(***************************************************************************)
(* What a step leaves alone                                                *)
(***************************************************************************)
\* The file that o was opened for is still there.
Lives(o) == o.held /\ Mounted /\ o.mount = mounts
            /\ tree[o.ino].kind # "NONE" /\ birth[o.ino] = o.birth

\* OpenFileKeepsVnode with that name.
LEMMA OpenFileIs ==
    OpenFileKeepsVnode <=>
        \A h \in Handle : Lives(handles[h]) =>
            mem.vnode[handles[h].node] # None
            /\ mem.data[mem.vnode[handles[h].node]] = handles[h].ino
  BY DEF OpenFileKeepsVnode, Lives

\* Handles stay good when the vnodes of all files that are still there do.
LEMMA HandlesKept ==
    ASSUME HandleInv, UNCHANGED <<handles, mounts>>, Mounted' => Mounted,
           birth' \in [Ino -> Nat], \A i \in Ino : birth[i] <= birth'[i],
           \A i \in Ino : tree'[i].kind # "NONE" /\ birth'[i] = birth[i] => tree[i].kind # "NONE",
           \A u \in Vnode :
             mem.vnode[u] # None /\ tree'[mem.data[mem.vnode[u]]].kind # "NONE" =>
               mem'.vnode[u] = mem.vnode[u]
               /\ mem'.data[mem.vnode[u]] = mem.data[mem.vnode[u]]
    PROVE  HandleInv'
  <1>1. handles' \in [Handle -> HandleRec] /\ mounts' \in Nat /\ mounts' = mounts
        /\ handles' = handles /\ birth \in [Ino -> Nat]
    BY DEF HandleInv
  <1>2. \A h \in Handle : handles[h].held =>
          /\ handles[h].node \in Vnode /\ handles[h].ino \in Ino
          /\ handles[h].birth <= birth[handles[h].ino]
          /\ handles[h].mount <= mounts
    BY DEF HandleInv
  <1>3. \A h \in Handle : handles[h] \in HandleRec
    BY DEF HandleInv
  <1>4. \A h \in Handle : handles[h].birth \in Nat
    BY <1>3 DEF HandleRec
  <1>5. \A h \in Handle : handles[h].held => handles[h].birth <= birth'[handles[h].ino]
    <2> SUFFICES ASSUME NEW h \in Handle, handles[h].held
                 PROVE  handles[h].birth <= birth'[handles[h].ino]
      OBVIOUS
    <2>1. PICK i \in Ino : i = handles[h].ino
      BY <1>2
    <2>2. PICK b \in Nat : b = handles[h].birth
      BY <1>4
    <2>3. birth[i] \in Nat /\ birth'[i] \in Nat /\ b <= birth[i] /\ birth[i] <= birth'[i]
      BY <1>1, <1>2, <2>1, <2>2
    <2> QED
      BY <2>1, <2>2, <2>3
  <1>6. OpenFileKeepsVnode'
    <2> SUFFICES ASSUME NEW h \in Handle, Lives(handles[h])'
                 PROVE  mem'.vnode[handles[h].node] # None
                        /\ mem'.data[mem'.vnode[handles[h].node]] = handles[h].ino
      <3>1. OpenFileKeepsVnode' <=>
              \A x \in Handle : Lives(handles[x])' =>
                mem'.vnode[handles'[x].node] # None
                /\ mem'.data[mem'.vnode[handles'[x].node]] = handles'[x].ino
        BY DEF OpenFileKeepsVnode, Lives, Mounted, NoVolume
      <3> QED
        BY <1>1, <3>1
    <2>1. PICK o : o = handles[h]
      OBVIOUS
    <2>2. /\ o.held /\ Mounted' /\ o.mount = mounts /\ tree'[o.ino].kind # "NONE"
          /\ birth'[o.ino] = o.birth
      BY <1>1, <2>1 DEF Lives
    <2>3. PICK i \in Ino, v \in Vnode, b \in Nat :
            i = o.ino /\ v = o.node /\ b = o.birth /\ b <= birth[i]
      BY <1>2, <1>4, <2>1, <2>2
    <2>4. birth[i] \in Nat /\ birth'[i] \in Nat /\ birth[i] <= birth'[i] /\ birth'[i] = b
      BY <1>1, <2>2, <2>3
    <2>5. birth'[i] = birth[i] /\ birth[i] = b
      BY <2>3, <2>4
    <2>6. tree[i].kind # "NONE"
      BY <2>2, <2>3, <2>5
    <2>7. Lives(handles[h])
      BY <2>1, <2>2, <2>3, <2>5, <2>6 DEF Lives
    <2>8. mem.vnode[v] # None /\ mem.data[mem.vnode[v]] = i
      BY <2>1, <2>3, <2>7, OpenFileIs DEF HandleInv
    <2>9. mem'.vnode[v] = mem.vnode[v] /\ mem'.data[mem.vnode[v]] = mem.data[mem.vnode[v]]
      BY <2>2, <2>3, <2>8
    <2> QED
      BY <2>1, <2>3, <2>8, <2>9
  <1> QED
    BY <1>1, <1>2, <1>5, <1>6 DEF HandleInv

\* The mount point is kept.
LEMMA MountKept ==
    ASSUME Inv, UNCHANGED vol, ns'["nyfs"] = ns["nyfs"], KeepsNodes(mem, mem')
    PROVE  MountInv'
  <1> USE NoneIsNoNumber
  <1>1. MountInv /\ PoolInv(mem, ns["nyfs"])
    BY DEF Inv
  <1>2. Mounted' = Mounted
    BY DEF Mounted, NoVolume
  <1>3. Mounted => /\ vol.place \in Dentry /\ vol.root \in Vnode
                   /\ mem.dent[vol.place].node = vol.root
                   /\ InoOf(mem, vol.place) = Root
                   /\ ns["nyfs"] # None => vol.place = ns["nyfs"]
    BY <1>1 DEF MountInv
  <1>4. Mounted => /\ mem'.dent[vol.place].node = vol.root
                   /\ InoOf(mem', vol.place) = Root
    BY <1>3 DEF Keeps, KeepsNodes
  <1>5. mem'.dent[1].kids = mem.dent[1].kids
    BY DEF Keeps, KeepsNodes
  <1>6. InoOf(mem, vol.place)' = InoOf(mem', vol.place)
    BY DEF InoOf
  <1> QED
    BY <1>1, <1>2, <1>3, <1>4, <1>5, <1>6 DEF MountInv

\* A call that only makes names known.
LEMMA GivesUpKeeps ==
    ASSUME Inv, NEW m, PoolInv(m, ns["nyfs"]), CacheInv(m, ns["nyfs"], tree),
           Keeps(mem, m, ns["nyfs"]), mem' = m,
           UNCHANGED <<ns, vol, tree, birth, handles, mounts>>
    PROVE  Inv'
  <1>1. PoolInv(mem, ns["nyfs"])' /\ CacheInv(mem, ns["nyfs"], tree)' /\ DiskInv(tree)'
    BY DEF Inv
  <1>2. MountInv'
    BY MountKept DEF Keeps
  <1>3. NsInv'
    <2>1. NsInv
      BY DEF Inv
    <2>2. LiveOrFree(mem, ns["nyfs"]) \subseteq LiveOrFree(mem', ns'["nyfs"])
      BY DEF Keeps, KeepsNodes
    <2>3. LiveOrFree(mem, ns["nyfs"])' = LiveOrFree(mem', ns'["nyfs"])
      OBVIOUS
    <2> QED
      BY <2>1, <2>2, <2>3 DEF NsInv
  <1>4. HandleInv'
    <2>1. HandleInv /\ birth' \in [Ino -> Nat] /\ (Mounted' => Mounted)
      BY DEF Inv, HandleInv, Mounted, NoVolume
    <2>2. \A i \in Ino : birth[i] <= birth'[i]
      BY DEF Inv, HandleInv
    <2>3. \A u \in Vnode : mem.vnode[u] # None =>
            mem'.vnode[u] = mem.vnode[u] /\ mem'.data[mem.vnode[u]] = mem.data[mem.vnode[u]]
      BY DEF Keeps, KeepsNodes
    <2> QED
      BY <2>1, <2>2, <2>3, HandlesKept
  <1> QED
    BY <1>1, <1>2, <1>3, <1>4 DEF Inv

\* A call that gives up on its way.
LEMMA GivesUpInv ==
    ASSUME Inv, NEW root, NEW w \in Walks(mem, ns["nyfs"], root), GivesUp(w)
    PROVE  Inv'
  BY GivesUpKeeps DEF Walks, GivesUp

-----------------------------------------------------------------------------
(***************************************************************************)
(* The calls that do not change the disk                                   *)
(***************************************************************************)
\* m2 is m with a root dentry for a new namespace.
RootMade(m, m2, x) == m2 = [m EXCEPT !.dent[x].used = TRUE]

\* Nothing refers to the new root yet.
LEMMA RootMadeKeeps ==
    ASSUME NEW m, NEW r, NEW T, PoolInv(m, r), CacheInv(m, r, T), NEW x \in FreeDentries(m),
           NEW m2, RootMade(m, m2, x)
    PROVE  PoolInv(m2, r) /\ CacheInv(m2, r, T) /\ KeepsNodes(m, m2) /\ Live(m2, r) = Live(m, r)
  <1> USE NoneIsNoNumber
  <1>1. m \in Memory /\ x \in Dentry /\ ~m.dent[x].used /\ m.dent[x] = FreeDentry
    BY DEF PoolInv, FreeDentries
  <1>a. m.dent[x] \in DentryRec
    BY <1>1, MemoryFields
  <1>b. m.dent[x].name = NoName /\ m.dent[x].node = None /\ m.dent[x].parent = None
        /\ m.dent[x].kids = {}
    BY <1>1 DEF FreeDentry
  <1> DEFINE new == [m.dent[x] EXCEPT !.used = TRUE]
  <1>2. new \in DentryRec /\ new.used /\ new.name = m.dent[x].name /\ new.node = m.dent[x].node
        /\ new.parent = m.dent[x].parent /\ new.kids = m.dent[x].kids
    BY <1>a DEF DentryRec
  <1>3. m2 = [m EXCEPT !.dent = [m.dent EXCEPT ![x] = new]]
    BY <1>1 DEF RootMade, Memory
  <1> HIDE DEF new
  <1>4. new.used /\ new.name = NoName /\ new.node = None /\ new.parent = None /\ new.kids = {}
    BY <1>2, <1>b
  <1>5. m2.dent = [m.dent EXCEPT ![x] = new] /\ m2.vnode = m.vnode /\ m2.data = m.data
        /\ m2 \in Memory
    <2>1. [m.dent EXCEPT ![x] = new] \in [Dentry -> DentryRec]
      BY <1>1, <1>2, MemoryFields
    <2> QED
      BY <1>1, <1>3, <2>1 DEF Memory
  <1>6. m2.dent[x] = new /\ \A y \in Dentry \ {x} : m2.dent[y] = m.dent[y]
    BY <1>1, <1>5, MemoryFields
  <1>7. \A y \in Dentry : m2.dent[y].kids = m.dent[y].kids /\ m2.dent[y].name = m.dent[y].name
                          /\ m2.dent[y].node = m.dent[y].node
                          /\ m2.dent[y].parent = m.dent[y].parent
    BY <1>1, <1>4, <1>6 DEF FreeDentry
  <1>8. \A y \in Dentry : m.dent[y].used => m2.dent[y].used /\ m2.dent[y] = m.dent[y]
    BY <1>1, <1>6
  <1>9. \A y \in Dentry : InoOf(m2, y) = InoOf(m, y)
    <2>1. \A y \in Dentry : m2.dent[y].node = m.dent[y].node
      BY <1>7
    <2> QED
      BY <1>5, <2>1 DEF InoOf
  <1>10. \A y \in Dentry : \A k \in m.dent[y].kids : k \in Dentry /\ m.dent[k].used
    BY PoolFacts DEF PoolInv
  <1>11. PoolInv(m2, r)
    <2>1. \A y \in Dentry : ~m2.dent[y].used => m2.dent[y] = FreeDentry
      BY <1>4, <1>6 DEF PoolInv
    <2>2. \A y \in Dentry : \A k \in m2.dent[y].kids :
            m2.dent[k].used /\ m2.dent[k].parent = y /\ m2.dent[k].name \in Name
      <3>1. \A y \in Dentry : \A k \in m.dent[y].kids :
              m.dent[k].used /\ m.dent[k].parent = y /\ m.dent[k].name \in Name
        BY DEF PoolInv
      <3> QED
        BY <1>7, <1>8, <1>10, <3>1
    <2>3. m2.dent[1].used /\ m2.dent[1].node = None /\ m2.dent[1].parent = None
      BY <1>8 DEF PoolInv
    <2>4. r # None => r \in Dentry \ {1} /\ m2.dent[r].used /\ m2.dent[r].parent = None
      BY <1>8 DEF PoolInv
    <2>5. /\ \A d \in Dentry : m2.dent[d].node # None => m2.vnode[m2.dent[d].node] # None
          /\ \A d, e \in Dentry :
               m2.dent[d].node # None /\ m2.dent[d].node = m2.dent[e].node => d = e
      BY <1>5, <1>7 DEF PoolInv
    <2>6. \A v \in Vnode : m2.vnode[v] # None =>
            m2.data[m2.vnode[v]] # None /\ \E d \in Dentry : m2.dent[d].node = v
      BY <1>5, <1>7 DEF PoolInv
    <2>7. \A u, v \in Vnode : m2.vnode[u] # None /\ m2.vnode[u] = m2.vnode[v] => u = v
      <3>1. \A u, v \in Vnode : m.vnode[u] # None /\ m.vnode[u] = m.vnode[v] => u = v
        BY DEF PoolInv
      <3> QED
        BY <1>5, <3>1
    <2> QED
      BY <1>5, <2>1, <2>2, <2>3, <2>4, <2>5, <2>6, <2>7 DEF PoolInv
  <1>12. r # None => InoOf(m2, r) \in {Root, None}
    BY <1>9 DEF PoolInv, CacheInv
  <1>13. Live(m2, r) = Live(m, r) /\ CacheInv(m2, r, T)
    <2>1. \A y \in Dentry : m2.dent[y].kids = m.dent[y].kids /\ m2.dent[y].name = m.dent[y].name
      BY <1>7
    <2>2. \A y \in Dentry : y # r => InoOf(m2, y) = InoOf(m, y)
      BY <1>9
    <2> QED
      BY <1>12, <2>1, <2>2, CacheSame
  <1>14. KeepsNodes(m, m2)
    BY <1>5, <1>7, <1>9 DEF KeepsNodes
  <1> QED
    BY <1>11, <1>13, <1>14

\* What remains to be shown when the calls before left the rest alone.
LEMMA RegisteredKeeps ==
    ASSUME Inv, UNCHANGED <<vol, tree, birth, handles, mounts>>, ns'["nyfs"] = ns["nyfs"],
           PoolInv(mem, ns["nyfs"])', CacheInv(mem, ns["nyfs"], tree)', DiskInv(tree)',
           NsInv', KeepsNodes(mem, mem')
    PROVE  Inv'
  <1>1. MountInv'
    BY MountKept
  <1>2. HandleInv'
    <2>1. HandleInv /\ birth' \in [Ino -> Nat] /\ (Mounted' => Mounted)
      BY DEF Inv, HandleInv, Mounted, NoVolume
    <2>2. \A i \in Ino : birth[i] <= birth'[i]
      BY DEF Inv, HandleInv
    <2>3. \A u \in Vnode : mem.vnode[u] # None =>
            mem'.vnode[u] = mem.vnode[u] /\ mem'.data[mem.vnode[u]] = mem.data[mem.vnode[u]]
      BY DEF KeepsNodes
    <2> QED
      BY <2>1, <2>2, <2>3, HandlesKept
  <1> QED
    BY <1>1, <1>2 DEF Inv

\* vfs_register_namespace: the root it makes for the namespace is lost, but nothing else.
LEMMA RegisterNamespaceInv ==
    ASSUME Inv, NEW p \in Path, RegisterNamespace(p)
    PROVE  Inv'
  <1> USE NoneIsNoNumber
  <1>1. PICK w, r : w = Resolve(p) /\ r = ns["nyfs"]
    OBVIOUS
  <1>2. w \in Walks(mem, r, ns[p.ns])
    BY <1>1, ResolveKeeps
  <1>3. PoolInv(w.m, r) /\ CacheInv(w.m, r, tree) /\ Keeps(mem, w.m, r) /\ w.m \in Memory
        /\ (w.ok => ns[p.ns] # None /\ w.at \in LiveOrFree(w.m, r))
        /\ (w.ok /\ ns[p.ns] \in Live(mem, r) => w.at \in Live(w.m, r))
    BY <1>2 DEF Walks
  <1>4. p.ns = "nyfs" /\
        IF w.ok /\ (ns["app"] # None \/ FreeDentries(w.m) # {})
          THEN /\ mem' = IF ns["app"] # None THEN w.m
                         ELSE [w.m EXCEPT !.dent[Least(FreeDentries(w.m))].used = TRUE]
               /\ ns' = [ns EXCEPT !["app"] = w.at]
               /\ UNCHANGED <<vol, tree, birth, handles, mounts>>
          ELSE GivesUp(w)
    BY <1>1 DEF RegisterNamespace
  <1>5. CASE ~(w.ok /\ (ns["app"] # None \/ FreeDentries(w.m) # {}))
    BY <1>1, <1>2, <1>4, <1>5, GivesUpInv
  <1>6. CASE w.ok /\ (ns["app"] # None \/ FreeDentries(w.m) # {})
    <2>1. /\ mem' = IF ns["app"] # None THEN w.m
                    ELSE [w.m EXCEPT !.dent[Least(FreeDentries(w.m))].used = TRUE]
          /\ ns' = [ns EXCEPT !["app"] = w.at]
          /\ UNCHANGED <<vol, tree, birth, handles, mounts>>
      BY <1>4, <1>6
    <2>2. PoolInv(mem, r) /\ DiskInv(tree) /\ MountInv /\ NsInv /\ HandleInv
      BY <1>1 DEF Inv
    <2>3. r # None => r \in Live(mem, r)
      BY <2>2, PoolFacts, LiveFacts DEF Roots
    <2>r. r # None
      BY <1>1, <1>3, <1>4, <1>6
    <2>4. w.at \in Live(w.m, r)
      BY <1>1, <1>3, <1>4, <1>6, <2>3, <2>r
    <2>5. w.at \in Dentry
      BY <1>3, <2>4, PoolFacts
    <2>6. ns' \in [Ns -> Dentry \cup {None}] /\ ns'[""] = 1 /\ ns'["nyfs"] = r /\ ns'["app"] = w.at
      BY <1>1, <2>1, <2>2, <2>5 DEF NsInv, Ns
    <2>7. CASE ns["app"] # None
      <3>1. mem' = w.m
        BY <2>1, <2>7
      <3>2. PoolInv(mem, ns["nyfs"])' /\ CacheInv(mem, ns["nyfs"], tree)' /\ DiskInv(tree)'
        BY <1>3, <2>1, <2>2, <2>6, <3>1
      <3>3. NsInv'
        <4>1. LiveOrFree(mem, ns["nyfs"])' = LiveOrFree(w.m, r)
          BY <2>6, <3>1
        <4> QED
          BY <1>3, <1>6, <2>6, <2>r, <4>1 DEF NsInv
      <3>4. KeepsNodes(mem, mem')
        BY <1>3, <3>1 DEF Keeps
      <3> QED
        BY <1>1, <2>1, <2>6, <3>2, <3>3, <3>4, RegisteredKeeps
    <2>8. CASE ns["app"] = None
      <3>1. mem' = [w.m EXCEPT !.dent[Least(FreeDentries(w.m))].used = TRUE]
        BY <2>1, <2>8
      <3>2. FreeDentries(w.m) # {}
        BY <1>6, <2>8
      <3>3. PICK x \in FreeDentries(w.m) : x = Least(FreeDentries(w.m))
        <4>1. FreeDentries(w.m) \in SUBSET Nat
          BY DEF FreeDentries
        <4> QED
          BY <3>2, <4>1, LeastIs
      <3>4. mem' = [w.m EXCEPT !.dent[x].used = TRUE]
        BY <3>1, <3>3
      <3>5. PoolInv(mem', r) /\ CacheInv(mem', r, tree) /\ KeepsNodes(w.m, mem')
            /\ Live(mem', r) = Live(w.m, r)
        BY <1>3, <3>4, RootMadeKeeps DEF RootMade
      <3>6. PoolInv(mem, ns["nyfs"])' /\ CacheInv(mem, ns["nyfs"], tree)' /\ DiskInv(tree)'
        BY <2>1, <2>2, <2>6, <3>5
      <3>7. NsInv'
        <4>1. Live(mem, ns["nyfs"])' = Live(w.m, r)
          BY <2>6, <3>5
        <4>2. LiveOrFree(mem, ns["nyfs"])' = Live(mem, ns["nyfs"])' \cup FreeDentries(mem)'
          BY DEF LiveOrFree
        <4> QED
          BY <2>4, <2>6, <2>r, <4>1, <4>2 DEF NsInv
      <3>8. KeepsNodes(mem, mem')
        BY <1>3, <2>2, <3>5, KeepsNodesTrans DEF PoolInv, Keeps
      <3> QED
        BY <1>1, <2>1, <2>6, <3>6, <3>7, <3>8, RegisteredKeeps
    <2> QED
      BY <2>7, <2>8
  <1> QED
    BY <1>5, <1>6

\* One handle changes.
LEMMA HandleSet ==
    ASSUME HandleInv, UNCHANGED <<vol, tree, birth, mounts>>,
           NEW x \in Handle, NEW o \in HandleRec, handles' = [handles EXCEPT ![x] = o],
           \A u \in Vnode : mem.vnode[u] # None =>
             mem'.vnode[u] = mem.vnode[u] /\ mem'.data[mem.vnode[u]] = mem.data[mem.vnode[u]],
           o.held => /\ o.node \in Vnode /\ o.ino \in Ino
                     /\ o.birth <= birth[o.ino] /\ o.mount <= mounts,
           Lives(o) => mem'.vnode[o.node] # None /\ mem'.data[mem'.vnode[o.node]] = o.ino
    PROVE  HandleInv'
  <1>1. /\ handles \in [Handle -> HandleRec]
        /\ birth \in [Ino -> Nat] /\ mounts \in Nat
        /\ \A h \in Handle : handles[h].held =>
             /\ handles[h].node \in Vnode /\ handles[h].ino \in Ino
             /\ handles[h].birth <= birth[handles[h].ino]
             /\ handles[h].mount <= mounts
        /\ OpenFileKeepsVnode
    BY DEF HandleInv
  <1>2. handles' \in [Handle -> HandleRec] /\ birth' \in [Ino -> Nat] /\ mounts' \in Nat
    BY <1>1
  <1>3. handles'[x] = o /\ \A h \in Handle \ {x} : handles'[h] = handles[h]
    BY <1>1
  <1>4. \A h \in Handle : handles'[h].held =>
          /\ handles'[h].node \in Vnode /\ handles'[h].ino \in Ino
          /\ handles'[h].birth <= birth'[handles'[h].ino]
          /\ handles'[h].mount <= mounts'
    <2> SUFFICES ASSUME NEW h \in Handle, handles'[h].held
                 PROVE  /\ handles'[h].node \in Vnode /\ handles'[h].ino \in Ino
                        /\ handles'[h].birth <= birth'[handles'[h].ino]
                        /\ handles'[h].mount <= mounts'
      OBVIOUS
    <2>1. CASE h = x
      BY <1>3, <2>1
    <2>2. CASE h # x
      BY <1>1, <1>3, <2>2
    <2> QED
      BY <2>1, <2>2
  <1>5. OpenFileKeepsVnode'
    <2> SUFFICES ASSUME NEW h \in Handle, Lives(handles[h])'
                 PROVE  mem'.vnode[handles'[h].node] # None
                        /\ mem'.data[mem'.vnode[handles'[h].node]] = handles'[h].ino
      BY DEF OpenFileKeepsVnode, Lives, Mounted, NoVolume
    <2>1. Lives(handles'[h])
      BY DEF Lives, Mounted, NoVolume
    <2>2. CASE h = x
      BY <1>3, <2>1, <2>2
    <2>3. CASE h # x
      <3>1. handles'[h] = handles[h] /\ Lives(handles[h])
        BY <1>3, <2>1, <2>3
      <3>2. mem.vnode[handles[h].node] # None
            /\ mem.data[mem.vnode[handles[h].node]] = handles[h].ino
        BY <1>1, <3>1, OpenFileIs
      <3>3. handles[h].node \in Vnode
        BY <1>1, <3>1 DEF Lives
      <3> QED
        BY <3>1, <3>2, <3>3
    <2> QED
      BY <2>2, <2>3
  <1> QED
    BY <1>2, <1>4, <1>5 DEF HandleInv

\* The first free handle.
LEMMA FreeHandleIs ==
    ASSUME FreeHandles # {}
    PROVE  Least(FreeHandles) \in Handle
  <1>1. FreeHandles \in SUBSET Nat
    BY DEF FreeHandles, Handle
  <1> QED
    BY <1>1, LeastIs DEF FreeHandles

\* vfs_open
LEMMA OpenInv ==
    ASSUME Inv, NEW p \in Path, Open(p)
    PROVE  Inv'
  <1> USE NoneIsNoNumber
  <1>1. PICK w, r, i : w = Resolve(p) /\ r = ns["nyfs"] /\ i = InoOf(w.m, w.at)
    OBVIOUS
  <1>2. w \in Walks(mem, r, ns[p.ns])
    BY <1>1, ResolveKeeps
  <1>3. PoolInv(w.m, r) /\ CacheInv(w.m, r, tree) /\ Keeps(mem, w.m, r) /\ w.m \in Memory
        /\ (w.ok => w.at \in LiveOrFree(w.m, r))
    BY <1>2 DEF Walks
  <1>4. CASE ~(w.ok /\ i # None /\ Mounted /\ FreeHandles # {})
    <2>1. GivesUp(w)
      BY <1>1, <1>4 DEF Open
    <2> QED
      BY <1>1, <1>2, <2>1, GivesUpInv
  <1>5. CASE w.ok /\ i # None /\ Mounted /\ FreeHandles # {}
    <2> DEFINE o == [used |-> TRUE, held |-> TRUE, node |-> w.m.dent[w.at].node,
                     ino |-> i, birth |-> birth[i], mount |-> mounts]
    <2>1. /\ mem' = w.m
          /\ handles' = [handles EXCEPT ![Least(FreeHandles)] = o]
          /\ UNCHANGED <<ns, vol, tree, birth, mounts>>
      BY <1>1, <1>5 DEF Open
    <2>2. w.at \in Dentry
      BY <1>3, <1>5, PoolFacts
    <2>a. w.m.dent[w.at].node # None
      BY <1>1, <1>5 DEF InoOf
    <2>b. w.m.dent[w.at].node \in Vnode \cup {None} /\ InoOf(w.m, w.at) \in Ino \cup {None}
      BY <1>3, <2>2, MemoryFields
    <2>3. w.m.dent[w.at].node \in Vnode /\ i \in Ino
      BY <1>1, <1>5, <2>a, <2>b
    <2>4. w.m.vnode[w.m.dent[w.at].node] # None
          /\ w.m.data[w.m.vnode[w.m.dent[w.at].node]] = i
      BY <1>1, <1>5, <2>3 DEF InoOf
    <2>5. HandleInv /\ birth[i] \in Nat /\ mounts \in Nat
      BY <2>3 DEF Inv, HandleInv
    <2>6. o \in HandleRec
      BY <2>3, <2>5 DEF HandleRec
    <2>7. Least(FreeHandles) \in Handle
      BY <1>5, FreeHandleIs
    <2>8. o.held => /\ o.node \in Vnode /\ o.ino \in Ino
                    /\ o.birth <= birth[o.ino] /\ o.mount <= mounts
      BY <2>3, <2>5
    <2>9. mem'.vnode[o.node] # None /\ mem'.data[mem'.vnode[o.node]] = o.ino
      BY <2>1, <2>4
    <2>10. \A u \in Vnode : mem.vnode[u] # None =>
             mem'.vnode[u] = mem.vnode[u] /\ mem'.data[mem.vnode[u]] = mem.data[mem.vnode[u]]
      BY <1>3, <2>1 DEF Keeps, KeepsNodes
    <2> HIDE DEF o
    <2>11. HandleInv'
      BY <2>1, <2>5, <2>6, <2>7, <2>8, <2>9, <2>10, HandleSet
    <2>12. PoolInv(mem, ns["nyfs"])' /\ CacheInv(mem, ns["nyfs"], tree)' /\ DiskInv(tree)'
      BY <1>1, <1>3, <2>1 DEF Inv
    <2>13. MountInv'
      BY <1>1, <1>3, <2>1, MountKept DEF Keeps
    <2>14. NsInv'
      <3>1. NsInv
        BY DEF Inv
      <3>2. LiveOrFree(mem, ns["nyfs"]) \subseteq LiveOrFree(mem, ns["nyfs"])'
        BY <1>1, <1>3, <2>1 DEF Keeps
      <3> QED
        BY <2>1, <3>1, <3>2 DEF NsInv
    <2> QED
      BY <2>11, <2>12, <2>13, <2>14 DEF Inv
  <1> QED
    BY <1>4, <1>5

\* A step that changes nothing but handles
LEMMA OnlyHandles ==
    ASSUME Inv, UNCHANGED <<mem, ns, vol, tree, birth, mounts>>, HandleInv'
    PROVE  Inv'
  <1>1. PoolInv(mem, ns["nyfs"])' /\ CacheInv(mem, ns["nyfs"], tree)' /\ DiskInv(tree)'
    BY DEF Inv
  <1>2. MountInv' /\ NsInv'
    BY DEF Inv, MountInv, NsInv, Mounted, NoVolume, InoOf
  <1> QED
    BY <1>1, <1>2 DEF Inv

\* vfs_reopen
LEMMA ReopenInv ==
    ASSUME Inv, NEW src \in Handle, Reopen(src)
    PROVE  Inv'
  <1> USE NoneIsNoNumber
  <1>1. handles[src].held /\ FreeHandles # {}
        /\ Mounted /\ mem.vnode[handles[src].node] # None
        /\ UNCHANGED <<mem, ns, vol, tree, birth, mounts>>
    BY DEF Reopen
  <1>2. PICK i : i = mem.data[mem.vnode[handles[src].node]]
    OBVIOUS
  <1>3. HandleInv /\ handles[src].node \in Vnode /\ mounts \in Nat /\ birth \in [Ino -> Nat]
        /\ handles[src] \in HandleRec
    BY <1>1 DEF Inv, HandleInv
  <1>4. i \in Ino
    <2>1. mem \in Memory /\ mem.data[mem.vnode[handles[src].node]] # None
      BY <1>1, <1>3 DEF Inv, PoolInv
    <2>2. mem.vnode[handles[src].node] \in Data
      <3>1. mem.vnode[handles[src].node] \in Data \cup {None}
        BY <1>3, <2>1, MemoryFields
      <3> QED
        BY <1>1, <3>1
    <2>3. mem.data[mem.vnode[handles[src].node]] \in Ino \cup {None}
      BY <2>1, <2>2, MemoryFields
    <2> QED
      BY <1>2, <2>1, <2>3
  <1> DEFINE o == [handles[src] EXCEPT !.ino = i, !.birth = birth[i], !.mount = mounts]
  <1>5. handles' = [handles EXCEPT ![Least(FreeHandles)] = o]
    BY <1>2 DEF Reopen
  <1>6. PICK b \in Nat : b = birth[i]
    BY <1>3, <1>4
  <1>7. o \in HandleRec /\ o.node = handles[src].node /\ o.ino = i /\ o.birth = b
        /\ o.mount = mounts
    BY <1>3, <1>4, <1>6 DEF HandleRec
  <1> HIDE DEF o
  <1>8. Least(FreeHandles) \in Handle
    BY <1>1, FreeHandleIs
  <1>9. o.held => /\ o.node \in Vnode /\ o.ino \in Ino
                  /\ o.birth <= birth[o.ino] /\ o.mount <= mounts
    BY <1>3, <1>4, <1>6, <1>7
  <1>10. mem'.vnode[o.node] # None /\ mem'.data[mem'.vnode[o.node]] = o.ino
    BY <1>1, <1>2, <1>7
  <1>11. HandleInv'
    BY <1>1, <1>3, <1>5, <1>7, <1>8, <1>9, <1>10, HandleSet
  <1> QED
    BY <1>1, <1>11, OnlyHandles

\* vfs_close
LEMMA CloseInv ==
    ASSUME Inv, NEW h \in Handle, Close(h)
    PROVE  Inv'
  <1>1. HandleInv /\ handles \in [Handle -> HandleRec] /\ handles[h] \in HandleRec
    BY DEF Inv, HandleInv
  <1>2. PICK o : o = IF mem.vnode[handles[h].node] = None
                     THEN [handles[h] EXCEPT !.held = FALSE] ELSE NoHandle
    OBVIOUS
  <1>3. handles' = [handles EXCEPT ![h] = o] /\ UNCHANGED <<mem, ns, vol, tree, birth, mounts>>
    BY <1>1, <1>2 DEF Close
  <1>4. o \in HandleRec /\ ~o.held
    <2>1. [handles[h] EXCEPT !.held = FALSE] \in HandleRec
          /\ ~[handles[h] EXCEPT !.held = FALSE].held
      BY <1>1 DEF HandleRec
    <2>2. NoHandle \in HandleRec /\ ~NoHandle.held
      BY DEF NoHandle, HandleRec
    <2> QED
      BY <1>2, <2>1, <2>2
  <1>5. HandleInv'
    BY <1>1, <1>3, <1>4, HandleSet DEF Lives
  <1> QED
    BY <1>3, <1>5, OnlyHandles

-----------------------------------------------------------------------------
(***************************************************************************)
(* vfs_create and vfs_mkdir                                                *)
(***************************************************************************)
\* T2 is the disk T with entry n of dir set to i, and with the kinds K.
EntrySet(T, T2, dir, n, i, K) ==
    /\ T2 \in [Ino -> InodeRec]
    /\ \A j \in Ino, q \in Name : T2[j].ents[q] = IF j = dir /\ q = n THEN i ELSE T[j].ents[q]
    /\ \A j \in Ino : T2[j].kind = K[j]

\* The fields of an inode.
LEMMA InodeFields ==
    ASSUME NEW T \in [Ino -> InodeRec], NEW i \in Ino
    PROVE  /\ T[i] \in InodeRec
           /\ T[i].kind \in {"NONE", "FILE", "DIR"}
           /\ T[i].ents \in [Name -> Ino \cup {None}]
  BY DEF InodeRec

\* An inode without entries, by its fields.
LEMMA NoInodeIs ==
    ASSUME NEW x \in InodeRec, x.kind = "NONE", \A q \in Name : x.ents[q] = None
    PROVE  x = NoInode
  <1>1. PICK k \in {"NONE", "FILE", "DIR"}, e \in [Name -> Ino \cup {None}] :
          x = [kind |-> k, ents |-> e]
    BY DEF InodeRec
  <1>2. e = [n \in Name |-> None]
    BY <1>1
  <1>3. k = "NONE"
    BY <1>1
  <1> QED
    BY <1>1, <1>2, <1>3 DEF NoInode

\* A free inode has no entries.
LEMMA NoInodeFields ==
    NoInode.kind = "NONE" /\ \A q \in Name : NoInode.ents[q] = None
  BY DEF NoInode

\* T with a new inode i of some kind in the entry n of dir.
WithNew(T, dir, n, i, kind) == [T EXCEPT ![dir].ents[n] = i, ![i].kind = kind]

\* The new name.
LEMMA MakeOnDisk ==
    ASSUME NEW T, DiskInv(T), NEW dir \in Ino, NEW n \in Name, NEW i \in Ino, NEW kind,
           kind \in {"FILE", "DIR"}, T[dir].kind = "DIR", T[dir].ents[n] = None,
           T[i].kind = "NONE", NEW T2, T2 = WithNew(T, dir, n, i, kind)
    PROVE  EntrySet(T, T2, dir, n, i, [j \in Ino |-> IF j = i THEN kind ELSE T[j].kind])
  <1>1. T \in [Ino -> InodeRec] /\ dir # i
    BY DEF DiskInv
  <1>2. PICK x \in InodeRec, y \in InodeRec : x = T[dir] /\ y = T[i]
    BY <1>1
  <1> DEFINE x2 == [x EXCEPT !.ents = [x.ents EXCEPT ![n] = i]]
             y2 == [y EXCEPT !.kind = kind]
  <1>3. x2 \in InodeRec /\ x2.kind = x.kind /\ x2.ents = [x.ents EXCEPT ![n] = i]
    BY <1>2 DEF InodeRec
  <1>4. y2 \in InodeRec /\ y2.kind = kind /\ y2.ents = y.ents
    BY <1>2 DEF InodeRec
  <1>5. T2 = [[T EXCEPT ![dir] = x2] EXCEPT ![i] = y2]
    BY <1>1, <1>2 DEF WithNew
  <1>6. x.ents \in [Name -> Ino \cup {None}]
    BY <1>2 DEF InodeRec
  <1> HIDE DEF x2, y2
  <1>7. T2 \in [Ino -> InodeRec] /\ T2[dir] = x2 /\ T2[i] = y2
        /\ \A j \in Ino \ {dir, i} : T2[j] = T[j]
    BY <1>1, <1>3, <1>4, <1>5
  <1>8. \A j \in Ino, q \in Name :
          T2[j].ents[q] = IF j = dir /\ q = n THEN i ELSE T[j].ents[q]
    <2> SUFFICES ASSUME NEW j \in Ino, NEW q \in Name
                 PROVE  T2[j].ents[q] = IF j = dir /\ q = n THEN i ELSE T[j].ents[q]
      OBVIOUS
    <2>1. CASE j = dir
      BY <1>2, <1>3, <1>6, <1>7, <2>1
    <2>2. CASE j = i
      BY <1>1, <1>2, <1>4, <1>7, <2>2
    <2>3. CASE j # dir /\ j # i
      BY <1>7, <2>3
    <2> QED
      BY <2>1, <2>2, <2>3
  <1>9. \A j \in Ino : T2[j].kind = IF j = i THEN kind ELSE T[j].kind
    BY <1>1, <1>2, <1>3, <1>4, <1>7
  <1> QED
    BY <1>7, <1>8, <1>9 DEF EntrySet

\* The names on the disk are in order when a free inode gets one.
LEMMA MadeDiskInv ==
    ASSUME NEW T, DiskInv(T), NEW dir \in Ino, NEW n \in Name, NEW i \in Ino, NEW kind,
           kind \in {"FILE", "DIR"}, T[dir].kind = "DIR", T[dir].ents[n] = None,
           T[i].kind = "NONE", NEW T2,
           EntrySet(T, T2, dir, n, i, [j \in Ino |-> IF j = i THEN kind ELSE T[j].kind])
    PROVE  DiskInv(T2)
  <1> USE NoneIsNoNumber
  <1>1. /\ T2 \in [Ino -> InodeRec]
        /\ \A j \in Ino, q \in Name :
             T2[j].ents[q] = IF j = dir /\ q = n THEN i ELSE T[j].ents[q]
        /\ \A j \in Ino : T2[j].kind = IF j = i THEN kind ELSE T[j].kind
    BY DEF EntrySet
  <1>2. /\ T \in [Ino -> InodeRec]
        /\ T[Root].kind = "DIR"
        /\ \A j \in Ino : T[j].kind = "NONE" => T[j] = NoInode
    BY DEF DiskInv
  <1>3. \A j \in Ino, q \in Name : T[j].ents[q] # None =>
          T[j].ents[q] # Root /\ T[T[j].ents[q]].kind # "NONE"
    BY DEF DiskInv
  <1>4. \A j, k \in Ino, p, q \in Name :
          T[j].ents[p] # None /\ T[j].ents[p] = T[k].ents[q] => j = k /\ p = q
    BY DEF DiskInv
  <1>5. \A j \in Ino, q \in Name : T[j].ents[q] \in Ino \cup {None}
    BY <1>2, InodeFields
  <1>6. i # Root /\ i # dir
    BY <1>2
  <1>7. \A j \in Ino, q \in Name : T[j].ents[q] # i
    BY <1>3
  <1>8. T2[Root].kind = "DIR"
    BY <1>1, <1>2, <1>6
  <1>9. \A j \in Ino, q \in Name : T2[j].ents[q] # None =>
          T2[j].ents[q] # Root /\ T2[T2[j].ents[q]].kind # "NONE"
    <2> SUFFICES ASSUME NEW j \in Ino, NEW q \in Name, T2[j].ents[q] # None
                 PROVE  T2[j].ents[q] # Root /\ T2[T2[j].ents[q]].kind # "NONE"
      OBVIOUS
    <2>1. CASE j = dir /\ q = n
      BY <1>1, <1>6, <2>1
    <2>2. CASE ~(j = dir /\ q = n)
      <3>a. T2[j].ents[q] = T[j].ents[q]
        BY <1>1, <2>2
      <3>b. T[j].ents[q] \in Ino
        BY <1>5, <3>a
      <3>1. PICK k \in Ino : k = T[j].ents[q] /\ k = T2[j].ents[q]
        BY <3>a, <3>b
      <3>2. k # Root /\ T[k].kind # "NONE" /\ k # i
        BY <1>3, <3>1
      <3> QED
        BY <1>1, <3>1, <3>2
    <2> QED
      BY <2>1, <2>2
  <1>10. \A j \in Ino : T2[j].kind = "NONE" => T2[j] = NoInode
    <2> SUFFICES ASSUME NEW j \in Ino, T2[j].kind = "NONE" PROVE T2[j] = NoInode
      OBVIOUS
    <2>1. j # i /\ T[j].kind = "NONE"
      BY <1>1
    <2>2. j # dir /\ T[j] = NoInode
      BY <1>2, <2>1
    <2>3. \A q \in Name : T2[j].ents[q] = None
      BY <1>1, <2>2, NoInodeFields
    <2> QED
      BY <1>1, <2>3, NoInodeIs
  <1>11. \A j, k \in Ino, p, q \in Name :
           T2[j].ents[p] # None /\ T2[j].ents[p] = T2[k].ents[q] => j = k /\ p = q
    <2>1. ASSUME NEW j \in Ino, NEW k \in Ino, NEW p \in Name, NEW q \in Name,
                 T2[j].ents[p] # None, T2[j].ents[p] = T2[k].ents[q]
          PROVE  j = k /\ p = q
      <3>1. CASE j = dir /\ p = n
        <4>1. T2[k].ents[q] = i
          BY <1>1, <2>1, <3>1
        <4>2. k = dir /\ q = n
          BY <1>1, <1>7, <4>1
        <4> QED
          BY <3>1, <4>2
      <3>2. CASE k = dir /\ q = n
        <4>1. T2[j].ents[p] = i
          BY <1>1, <2>1, <3>2
        <4>2. j = dir /\ p = n
          BY <1>1, <1>7, <4>1
        <4> QED
          BY <3>2, <4>2
      <3>3. CASE ~(j = dir /\ p = n) /\ ~(k = dir /\ q = n)
        <4>1. T2[j].ents[p] = T[j].ents[p] /\ T2[k].ents[q] = T[k].ents[q]
          BY <1>1, <3>3
        <4>2. T[j].ents[p] # None /\ T[j].ents[p] = T[k].ents[q]
          BY <2>1, <4>1
        <4> QED
          BY <1>4, <4>2
      <3> QED
        BY <3>1, <3>2, <3>3
    <2> QED
      BY ONLY <2>1
  <1>12. \A X \in SUBSET Ino :
           Root \in X /\ (\A j \in X, q \in Name : T2[j].ents[q] # None => T2[j].ents[q] \in X)
             => \A j \in Ino : T2[j].kind # "NONE" => j \in X
    <2> SUFFICES ASSUME NEW X \in SUBSET Ino, Root \in X,
                        \A j \in X, q \in Name : T2[j].ents[q] # None => T2[j].ents[q] \in X,
                        NEW j \in Ino, T2[j].kind # "NONE"
                 PROVE  j \in X
      OBVIOUS
    <2>1. \A k \in X, q \in Name : T[k].ents[q] # None => T[k].ents[q] \in X
      BY <1>1
    <2>2. \A k \in Ino : T[k].kind # "NONE" => k \in X
      BY <2>1 DEF DiskInv
    <2>3. dir \in X
      BY <2>2
    <2>4. i \in X
      BY <1>1, <2>3
    <2> QED
      BY <1>1, <2>2, <2>4
  <1> QED
    BY <1>1, <1>8, <1>9, <1>10, <1>11, <1>12 DEF DiskInv

\* The cache agrees with a disk that differs in names that are not cached.
LEMMA CacheOtherDisk ==
    ASSUME NEW m, NEW r, NEW T, NEW T2, CacheInv(m, r, T),
           \A d \in Live(m, r) \ {1} : \A k \in m.dent[d].kids :
             T2[Expected(m, r, d)].ents[m.dent[k].name] = T[Expected(m, r, d)].ents[m.dent[k].name]
    PROVE  CacheInv(m, r, T2)
  BY DEF CacheInv

\* The dentry for a name that the disk has got and the cache did not have.
LEMMA CacheNewKeeps ==
    ASSUME NEW m, NEW r, PoolInv(m, r), NEW T, CacheInv(m, r, T), DiskInv(T),
           NEW at \in Live(m, r) \ {1}, NEW n \in Name, NEW i \in Ino,
           i = T[Expected(m, r, at)].ents[n], Child(m, at, n) = None
    PROVE  /\ PoolInv(CacheNew(m, at, n, i), r)
           /\ CacheInv(CacheNew(m, at, n, i), r, T)
           /\ Keeps(m, CacheNew(m, at, n, i), r)
  <1> USE NoneIsNoNumber
  <1>1. m \in Memory /\ at \in Dentry /\ at \in Live(m, r) /\ m.dent[at].used
    <2>1. at \in Live(m, r)
      OBVIOUS
    <2> QED
      BY <2>1, PoolFacts DEF PoolInv
  <1>2. CASE ~CanMakeVnode(m)
    <2>1. CacheNew(m, at, n, i) = m
      BY <1>2 DEF CacheNew
    <2> QED
      BY <2>1, KeepsSelf
  <1>3. CASE CanMakeVnode(m) /\ FreeDentries(MakeVnode(m, i)) = {}
    <2>1. CacheNew(m, at, n, i) = NoDentry(MakeVnode(m, i), NewVnode(m))
      BY <1>3 DEF CacheNew
    <2> QED
      BY <1>3, <2>1, NoDentryFacts
  <1>4. CASE CanMakeVnode(m) /\ FreeDentries(MakeVnode(m, i)) # {}
    <2>1. PICK m1 : m1 = MakeVnode(m, i)
      OBVIOUS
    <2>2. PICK v : v = NewVnode(m)
      OBVIOUS
    <2>3. CacheNew(m, at, n, i) = MakeDentry(m1, n, v, at)
      BY <1>4, <2>1, <2>2 DEF CacheNew
    <2>4. PICK s \in Data : MadeVnode(m, m1, v, s, i)
      BY <1>1, <1>4, <2>1, <2>2, MakeVnodeIs
    <2>5. PICK m2 : m2 = MakeDentry(m1, n, v, at)
      OBVIOUS
    <2>6. PICK d \in Dentry : Added(m, m2, d, at, n, v, s, i)
      BY <1>1, <1>4, <2>1, <2>4, <2>5, MakeDentryIs
    <2>7. \A k \in m.dent[at].kids : m.dent[k].name # n
      <3>1. m.dent[at].kids \subseteq Dentry
        BY <1>1, PoolFacts
      <3> QED
        BY <3>1, ChildFacts
    <2>8. PoolInv(m2, r)
      BY <1>1, <2>6, AddedPool
    <2>9. CacheInv(m2, r, T)
      BY ONLY PoolInv(m, r), CacheInv(m, r, T), DiskInv(T), at \in Live(m, r) \ {1},
              i = T[Expected(m, r, at)].ents[n], <2>6, <2>7, AddedCache
    <2>10. Keeps(m, m2, r)
      BY <2>6, AddedKeeps
    <2> QED
      BY <2>3, <2>5, <2>8, <2>9, <2>10
  <1> QED
    BY <1>2, <1>3, <1>4

\* vfs_create and vfs_mkdir
LEMMA MakeInv ==
    ASSUME Inv, NEW p \in Path, NEW kind \in {"FILE", "DIR"}, Make(p, kind)
    PROVE  Inv'
  <1> USE NoneIsNoNumber
  <1> DEFINE rr == ns["nyfs"]
  <1>1. PICK w : w = ResolveParent(mem, p)
    OBVIOUS
  <1>2. PICK n : n = Last(p.names)
    OBVIOUS
  <1>3. PICK r, dir, k : r = ns["nyfs"] /\ dir = InoOf(w.m, w.at) /\ k = Child(w.m, w.at, n)
    OBVIOUS
  <1>4. PICK m : m = w.m
    OBVIOUS
  <1>5. w \in Walks(mem, r, ns[p.ns]) /\ n \in Name
    BY <1>1, <1>2, <1>3, ResolveKeeps, RootOf
  <1>6. PoolInv(m, r) /\ CacheInv(m, r, tree) /\ Keeps(mem, m, r) /\ m \in Memory
        /\ (w.ok => w.at \in LiveOrFree(m, r))
    BY <1>4, <1>5 DEF Walks
  <1>7. CASE GivesUp(w)
    BY <1>3, <1>5, <1>7, GivesUpInv
  <1>8. CASE ~GivesUp(w)
    <2> DEFINE i == Least(FreeInodes)
    <2>1. /\ w.ok /\ IsDir(m, w.at) /\ (k = None \/ m.dent[k].node = None)
          /\ tree[dir].ents[n] = None /\ FreeInodes # {}
          /\ tree' = [tree EXCEPT ![dir].ents[n] = i, ![i].kind = kind]
          /\ birth' = [birth EXCEPT ![i] = @ + 1]
          /\ mem' = CacheNew(m, w.at, n, i)
          /\ UNCHANGED <<ns, vol, handles, mounts>>
      BY <1>1, <1>2, <1>3, <1>4, <1>8 DEF Make
    <2>2. i \in Ino /\ tree[i].kind = "NONE"
      <3>1. FreeInodes \in SUBSET Nat
        BY DEF FreeInodes
      <3>2. i \in FreeInodes
        BY <2>1, <3>1, LeastIs
      <3> QED
        BY <3>2 DEF FreeInodes
    <2> HIDE DEF i
    <2>3. PICK at : at = w.at
      OBVIOUS
    <2>4. dir # None /\ tree[dir].kind = "DIR"
      BY <1>3, <1>4, <2>1 DEF IsDir
    <2>5. at \in Live(m, r) \ {1} /\ at \in Dentry
      BY <1>3, <1>4, <1>6, <2>1, <2>3, <2>4, PoolFacts
    <2>6. Expected(m, r, at) = dir /\ dir \in Ino
      BY <1>3, <1>4, <1>6, <2>3, <2>4, <2>5, CacheFacts DEF Inv
    <2>7. k = None
      <3>1. SUFFICES ASSUME k # None PROVE FALSE
        OBVIOUS
      <3>2. m.dent[at].kids \subseteq Dentry /\ k = Child(m, at, n)
        BY <1>3, <1>4, <1>6, <2>3, <2>5, PoolFacts
      <3>3. k \in m.dent[at].kids /\ k \in Dentry
        BY <3>1, <3>2, ChildFacts
      <3>4. InoOf(m, k) # None
        BY <1>6, <2>5, <3>3, CacheFacts DEF Inv
      <3> QED
        BY <1>6, <2>1, <3>1, <3>3, <3>4, PoolFacts
    <2>8. DiskInv(tree) /\ DiskInv(tree') /\ EntrySet(tree, tree', dir, n, i,
            [j \in Ino |-> IF j = i THEN kind ELSE tree[j].kind])
      <3>1. DiskInv(tree)
        BY DEF Inv
      <3>2. EntrySet(tree, tree', dir, n, i,
                     [j \in Ino |-> IF j = i THEN kind ELSE tree[j].kind])
        <4>1. tree' = WithNew(tree, dir, n, i, kind)
          BY <2>1 DEF WithNew
        <4>2. n \in Name /\ dir \in Ino /\ i \in Ino /\ kind \in {"FILE", "DIR"}
          BY <1>5, <2>2, <2>6
        <4>3. tree[dir].kind = "DIR" /\ tree[dir].ents[n] = None /\ tree[i].kind = "NONE"
          BY <2>1, <2>2, <2>4
        <4> QED
          BY ONLY <3>1, <4>1, <4>2, <4>3, MakeOnDisk
      <3>3. tree[dir].ents[n] = None
        BY <2>1
      <3>4. PICK T2 : T2 = tree'
        OBVIOUS
      <3>5. EntrySet(tree, T2, dir, n, i, [j \in Ino |-> IF j = i THEN kind ELSE tree[j].kind])
        BY ONLY <3>2, <3>4
      <3>6. DiskInv(T2)
        BY <1>5, <2>2, <2>4, <2>6, <3>1, <3>3, <3>5, MadeDiskInv
      <3> QED
        BY ONLY <3>1, <3>2, <3>4, <3>6
    <2>9. \A j \in Ino, q \in Name :
            tree'[j].ents[q] = IF j = dir /\ q = n THEN i ELSE tree[j].ents[q]
      BY <2>8 DEF EntrySet
    <2>10. CacheInv(m, r, tree')
      <3>1. \A d \in Live(m, r) \ {1} : \A kid \in m.dent[d].kids :
              tree'[Expected(m, r, d)].ents[m.dent[kid].name] =
                tree[Expected(m, r, d)].ents[m.dent[kid].name]
        <4> SUFFICES ASSUME NEW d \in Live(m, r) \ {1}, NEW kid \in m.dent[d].kids
                     PROVE  tree'[Expected(m, r, d)].ents[m.dent[kid].name] =
                              tree[Expected(m, r, d)].ents[m.dent[kid].name]
          OBVIOUS
        <4>1. PICK j \in Ino, q \in Name : j = Expected(m, r, d) /\ q = m.dent[kid].name
          BY <1>6, <2>8, CacheFacts
        <4>2. tree[j].ents[q] # None
          BY <1>6, <2>8, <4>1, CacheFacts
        <4>3. tree[dir].ents[n] = None
          BY <2>1
        <4>4. ~(j = dir /\ q = n)
          BY ONLY <4>2, <4>3
        <4>5. tree'[j].ents[q] = tree[j].ents[q]
          BY ONLY <2>9, <4>1, <4>4
        <4> QED
          BY ONLY <4>1, <4>5
      <3> QED
        BY <1>6, <3>1, CacheOtherDisk
    <2>11. PoolInv(mem', r) /\ CacheInv(mem', r, tree') /\ Keeps(m, mem', r)
      <3>1. i = tree'[Expected(m, r, at)].ents[n]
        BY <1>5, <2>6, <2>9
      <3>2. Child(m, at, n) = None
        BY <1>3, <1>4, <2>3, <2>7
      <3>3. PICK T : T = tree'
        OBVIOUS
      <3>4. /\ PoolInv(CacheNew(m, at, n, i), r)
            /\ CacheInv(CacheNew(m, at, n, i), r, T)
            /\ Keeps(m, CacheNew(m, at, n, i), r)
        BY <1>5, <1>6, <2>2, <2>5, <2>8, <2>10, <3>1, <3>2, <3>3, CacheNewKeeps
      <3> QED
        BY <2>1, <2>3, <3>3, <3>4
    <2>12. Keeps(mem, mem', r)
      <3>1. mem \in Memory
        BY DEF Inv, PoolInv
      <3> QED
        BY <1>6, <2>11, <3>1, KeepsTrans
    <2>13. MountInv'
      BY <1>3, <2>1, <2>12, MountKept DEF Keeps
    <2>14. NsInv'
      <3>1. NsInv
        BY DEF Inv
      <3>2. LiveOrFree(mem, r) \subseteq LiveOrFree(mem', r)
        BY <2>12 DEF Keeps
      <3>3. LiveOrFree(mem, ns["nyfs"])' = LiveOrFree(mem', ns'["nyfs"]) /\ ns' = ns
        BY <2>1
      <3> QED
        BY <1>3, <3>1, <3>2, <3>3 DEF NsInv
    <2>15. HandleInv'
      <3>1. HandleInv /\ (Mounted' => Mounted)
        BY <2>1 DEF Inv, Mounted, NoVolume
      <3>2. birth \in [Ino -> Nat]
        BY <3>1 DEF HandleInv
      <3>3. birth' \in [Ino -> Nat] /\ birth'[i] = birth[i] + 1 /\ birth[i] \in Nat
            /\ \A j \in Ino \ {i} : birth'[j] = birth[j]
        BY <2>1, <2>2, <3>2
      <3>4. \A j \in Ino : birth[j] <= birth'[j]
        BY <3>2, <3>3
      <3>5. \A j \in Ino : tree'[j].kind # "NONE" /\ birth'[j] = birth[j] => tree[j].kind # "NONE"
        <4>1. \A j \in Ino : tree'[j].kind = IF j = i THEN kind ELSE tree[j].kind
          BY <2>8 DEF EntrySet
        <4>2. birth'[i] # birth[i]
          BY <3>3
        <4> QED
          BY <4>1, <4>2
      <3>6. \A u \in Vnode : mem.vnode[u] # None =>
              mem'.vnode[u] = mem.vnode[u] /\ mem'.data[mem.vnode[u]] = mem.data[mem.vnode[u]]
        BY <2>12 DEF Keeps, KeepsNodes
      <3> QED
        BY <2>1, <3>1, <3>3, <3>4, <3>5, <3>6, HandlesKept
    <2>16. PoolInv(mem, ns["nyfs"])' /\ CacheInv(mem, ns["nyfs"], tree)'
      BY <1>3, <2>1, <2>11
    <2> QED
      BY <2>8, <2>13, <2>14, <2>15, <2>16 DEF Inv
  <1> QED
    BY <1>7, <1>8

-----------------------------------------------------------------------------
(***************************************************************************)
(* vfs_unlink                                                              *)
(***************************************************************************)
\* The name and the inode leave the disk.
LEMMA UnlinkOnDisk ==
    ASSUME NEW T, DiskInv(T), NEW dir \in Ino, NEW n \in Name, NEW i \in Ino,
           i = T[dir].ents[n], \A q \in Name : T[i].ents[q] = None,
           NEW T2, T2 = [T EXCEPT ![dir].ents[n] = None, ![i] = NoInode]
    PROVE  EntrySet(T, T2, dir, n, None, [j \in Ino |-> IF j = i THEN "NONE" ELSE T[j].kind])
  <1> USE NoneIsNoNumber
  <1>1. T \in [Ino -> InodeRec] /\ dir # i
    BY DEF DiskInv
  <1>2. PICK x \in InodeRec : x = T[dir]
    BY <1>1
  <1> DEFINE x2 == [x EXCEPT !.ents = [x.ents EXCEPT ![n] = None]]
  <1>3. x2 \in InodeRec /\ x2.kind = x.kind /\ x2.ents = [x.ents EXCEPT ![n] = None]
    BY <1>2 DEF InodeRec
  <1>4. NoInode \in InodeRec /\ NoInode.kind = "NONE" /\ \A q \in Name : NoInode.ents[q] = None
    BY NoInodeFields DEF InodeRec, NoInode
  <1>5. T2 = [[T EXCEPT ![dir] = x2] EXCEPT ![i] = NoInode]
    BY <1>1, <1>2
  <1>6. x.ents \in [Name -> Ino \cup {None}]
    BY <1>2 DEF InodeRec
  <1> HIDE DEF x2
  <1>7. T2 \in [Ino -> InodeRec] /\ T2[dir] = x2 /\ T2[i] = NoInode
        /\ \A j \in Ino \ {dir, i} : T2[j] = T[j]
    BY <1>1, <1>3, <1>4, <1>5
  <1>8. \A j \in Ino, q \in Name :
          T2[j].ents[q] = IF j = dir /\ q = n THEN None ELSE T[j].ents[q]
    <2> SUFFICES ASSUME NEW j \in Ino, NEW q \in Name
                 PROVE  T2[j].ents[q] = IF j = dir /\ q = n THEN None ELSE T[j].ents[q]
      OBVIOUS
    <2>1. CASE j = dir
      BY <1>2, <1>3, <1>6, <1>7, <2>1
    <2>2. CASE j = i
      BY <1>1, <1>4, <1>7, <2>2
    <2>3. CASE j # dir /\ j # i
      BY <1>7, <2>3
    <2> QED
      BY <2>1, <2>2, <2>3
  <1>9. \A j \in Ino : T2[j].kind = IF j = i THEN "NONE" ELSE T[j].kind
    BY <1>1, <1>2, <1>3, <1>4, <1>7
  <1> QED
    BY <1>7, <1>8, <1>9 DEF EntrySet

\* The names on the disk are in order when an inode without names loses its own.
LEMMA UnlinkedDiskInv ==
    ASSUME NEW T, DiskInv(T), NEW dir \in Ino, NEW n \in Name, NEW i \in Ino,
           i = T[dir].ents[n], \A q \in Name : T[i].ents[q] = None, NEW T2,
           EntrySet(T, T2, dir, n, None, [j \in Ino |-> IF j = i THEN "NONE" ELSE T[j].kind])
    PROVE  DiskInv(T2)
  <1> USE NoneIsNoNumber
  <1>1. /\ T2 \in [Ino -> InodeRec]
        /\ \A j \in Ino, q \in Name :
             T2[j].ents[q] = IF j = dir /\ q = n THEN None ELSE T[j].ents[q]
        /\ \A j \in Ino : T2[j].kind = IF j = i THEN "NONE" ELSE T[j].kind
    BY DEF EntrySet
  <1>2. /\ T \in [Ino -> InodeRec]
        /\ T[Root].kind = "DIR"
        /\ \A j \in Ino : T[j].kind = "NONE" => T[j] = NoInode
    BY DEF DiskInv
  <1>3. \A j \in Ino, q \in Name : T[j].ents[q] # None =>
          T[j].ents[q] # Root /\ T[T[j].ents[q]].kind # "NONE"
    BY DEF DiskInv
  <1>4. \A j, k \in Ino, p, q \in Name :
          T[j].ents[p] # None /\ T[j].ents[p] = T[k].ents[q] => j = k /\ p = q
    BY DEF DiskInv
  <1>5. \A j \in Ino, q \in Name : T[j].ents[q] \in Ino \cup {None}
    BY <1>2, InodeFields
  <1>6. i # Root /\ i # dir /\ i # None
    BY <1>3
  <1>7. \A j \in Ino, q \in Name : T2[j].ents[q] # None =>
          T2[j].ents[q] = T[j].ents[q] /\ T[j].ents[q] # i
    <2> SUFFICES ASSUME NEW j \in Ino, NEW q \in Name, T2[j].ents[q] # None
                 PROVE  T2[j].ents[q] = T[j].ents[q] /\ T[j].ents[q] # i
      OBVIOUS
    <2>1. ~(j = dir /\ q = n) /\ T2[j].ents[q] = T[j].ents[q]
      BY <1>1
    <2>2. T[j].ents[q] # None
      BY <2>1
    <2> QED
      BY <1>4, <2>1, <2>2
  <1>8. T2[Root].kind = "DIR"
    BY <1>1, <1>2, <1>6
  <1>9. \A j \in Ino, q \in Name : T2[j].ents[q] # None =>
          T2[j].ents[q] # Root /\ T2[T2[j].ents[q]].kind # "NONE"
    <2> SUFFICES ASSUME NEW j \in Ino, NEW q \in Name, T2[j].ents[q] # None
                 PROVE  T2[j].ents[q] # Root /\ T2[T2[j].ents[q]].kind # "NONE"
      OBVIOUS
    <2>a. T2[j].ents[q] = T[j].ents[q] /\ T[j].ents[q] \in Ino
      <3>1. T2[j].ents[q] = T[j].ents[q]
        BY <1>7
      <3> QED
        BY <1>5, <3>1
    <2>1. PICK k \in Ino : k = T[j].ents[q] /\ k = T2[j].ents[q]
      BY <2>a
    <2>2. k # Root /\ T[k].kind # "NONE" /\ k # i
      BY <1>3, <1>7, <2>1
    <2> QED
      BY <1>1, <2>1, <2>2
  <1>10. \A j \in Ino : T2[j].kind = "NONE" => T2[j] = NoInode
    <2> SUFFICES ASSUME NEW j \in Ino, T2[j].kind = "NONE" PROVE T2[j] = NoInode
      OBVIOUS
    <2>1. \A q \in Name : T[j].ents[q] = None
      <3>1. j # i => T[j] = NoInode
        BY <1>1, <1>2
      <3> QED
        BY <3>1, NoInodeFields
    <2>2. \A q \in Name : T2[j].ents[q] = None
      BY <1>7, <2>1
    <2> QED
      BY <1>1, <2>2, NoInodeIs
  <1>11. \A j, k \in Ino, p, q \in Name :
           T2[j].ents[p] # None /\ T2[j].ents[p] = T2[k].ents[q] => j = k /\ p = q
    <2>1. ASSUME NEW j \in Ino, NEW k \in Ino, NEW p \in Name, NEW q \in Name,
                 T2[j].ents[p] # None, T2[j].ents[p] = T2[k].ents[q]
          PROVE  j = k /\ p = q
      <3>1. T2[j].ents[p] = T[j].ents[p] /\ T2[k].ents[q] = T[k].ents[q]
        BY <1>7, <2>1
      <3>2. T[j].ents[p] # None /\ T[j].ents[p] = T[k].ents[q]
        BY <2>1, <3>1
      <3> QED
        BY <1>4, <3>2
    <2> QED
      BY ONLY <2>1
  <1>12. \A X \in SUBSET Ino :
           Root \in X /\ (\A j \in X, q \in Name : T2[j].ents[q] # None => T2[j].ents[q] \in X)
             => \A j \in Ino : T2[j].kind # "NONE" => j \in X
    <2> SUFFICES ASSUME NEW X \in SUBSET Ino, Root \in X,
                        \A j \in X, q \in Name : T2[j].ents[q] # None => T2[j].ents[q] \in X,
                        NEW j \in Ino, T2[j].kind # "NONE"
                 PROVE  j \in X
      OBVIOUS
    <2>1. PICK Y \in SUBSET Ino : Y = X \cup {i}
      OBVIOUS
    <2>2. \A k \in Y, q \in Name : T[k].ents[q] # None => T[k].ents[q] \in Y
      <3> SUFFICES ASSUME NEW k \in Y, NEW q \in Name, T[k].ents[q] # None
                   PROVE  T[k].ents[q] \in Y
        OBVIOUS
      <3>1. k \in X
        BY <2>1
      <3>2. CASE k = dir /\ q = n
        BY <2>1, <3>2
      <3>3. CASE ~(k = dir /\ q = n)
        <4>1. T2[k].ents[q] = T[k].ents[q]
          BY <1>1, <3>1, <3>3
        <4> QED
          BY <2>1, <3>1, <4>1
      <3> QED
        BY <3>2, <3>3
    <2>3. \A k \in Ino : T[k].kind # "NONE" => k \in Y
      BY <2>1, <2>2 DEF DiskInv
    <2>4. j # i /\ T[j].kind # "NONE"
      BY <1>1
    <2> QED
      BY <2>1, <2>3, <2>4
  <1> QED
    BY <1>1, <1>8, <1>9, <1>10, <1>11, <1>12 DEF DiskInv

\* m2 is m without dentry k, which was below at, and without its vnode v.
Dropped(m, m2, k, at, v) ==
    /\ m2 \in Memory
    /\ m2.dent[k] = FreeDentry
    /\ \A x \in Dentry \ {k} : /\ m2.dent[x].used = m.dent[x].used
                               /\ m2.dent[x].name = m.dent[x].name
                               /\ m2.dent[x].node = m.dent[x].node
                               /\ m2.dent[x].parent = m.dent[x].parent
                               /\ m2.dent[x].kids = IF x = at THEN m.dent[x].kids \ {k}
                                                              ELSE m.dent[x].kids
    /\ m2.vnode = [m.vnode EXCEPT ![v] = None]
    /\ \A s \in Data : s # m.vnode[v] => m2.data[s] = m.data[s]

\* The pools stay in order, and the other dentries keep their inodes.
LEMMA DroppedPool ==
    ASSUME NEW m, NEW r, PoolInv(m, r), NEW at \in Dentry, NEW k \in m.dent[at].kids, NEW v,
           v = m.dent[k].node, v # None, NEW m2, Dropped(m, m2, k, at, v)
    PROVE  /\ PoolInv(m2, r)
           /\ v \in Vnode
           /\ \A x \in Dentry \ {k} : InoOf(m2, x) = InoOf(m, x)
           /\ \A u \in Vnode : m.vnode[u] # None /\ u # v =>
                m2.vnode[u] = m.vnode[u] /\ m2.data[m.vnode[u]] = m.data[m.vnode[u]]
  <1> USE NoneIsNoNumber
  <1>1. m \in Memory /\ m2 \in Memory /\ k \in Dentry /\ k \notin Roots(r)
    BY PoolFacts DEF PoolInv, Dropped
  <1>2. m2.dent[k] = FreeDentry
        /\ \A x \in Dentry \ {k} : /\ m2.dent[x].used = m.dent[x].used
                                   /\ m2.dent[x].name = m.dent[x].name
                                   /\ m2.dent[x].node = m.dent[x].node
                                   /\ m2.dent[x].parent = m.dent[x].parent
                                   /\ m2.dent[x].kids = IF x = at THEN m.dent[x].kids \ {k}
                                                                  ELSE m.dent[x].kids
    BY DEF Dropped
  <1>3. ~m2.dent[k].used /\ m2.dent[k].node = None /\ m2.dent[k].kids = {}
    BY <1>2 DEF FreeDentry
  <1>4. v \in Vnode /\ m.vnode[v] # None
    <2>1. m.dent[k].node \in Vnode \cup {None}
      BY <1>1, MemoryFields
    <2>2. \A d \in Dentry : m.dent[d].node # None => m.vnode[m.dent[d].node] # None
      BY DEF PoolInv
    <2> QED
      BY <1>1, <2>1, <2>2
  <1>5. m2.vnode[v] = None /\ \A u \in Vnode \ {v} : m2.vnode[u] = m.vnode[u]
    <2>1. m2.vnode = [m.vnode EXCEPT ![v] = None]
      BY DEF Dropped
    <2> QED
      BY <1>1, <1>4, <2>1, MemoryFields
  <1>6. \A u \in Vnode : m.vnode[u] # None /\ u # v =>
          m2.vnode[u] = m.vnode[u] /\ m2.data[m.vnode[u]] = m.data[m.vnode[u]]
    <2>1. \A u, x \in Vnode : m.vnode[u] # None /\ m.vnode[u] = m.vnode[x] => u = x
      BY DEF PoolInv
    <2>2. \A u \in Vnode : m.vnode[u] \in Data \cup {None}
      BY <1>1, MemoryFields
    <2>3. \A s \in Data : s # m.vnode[v] => m2.data[s] = m.data[s]
      BY DEF Dropped
    <2> QED
      BY <1>4, <1>5, <2>1, <2>2, <2>3
  <1>7. \A x \in Dentry \ {k} : m.dent[x].node # v
    BY <1>1 DEF PoolInv
  <1>8. \A x \in Dentry \ {k} : InoOf(m2, x) = InoOf(m, x)
    <2> SUFFICES ASSUME NEW x \in Dentry \ {k} PROVE InoOf(m2, x) = InoOf(m, x)
      OBVIOUS
    <2>1. PICK u : u = m.dent[x].node
      OBVIOUS
    <2>2. u = m2.dent[x].node /\ u # v /\ u \in Vnode \cup {None}
      BY <1>1, <1>2, <1>7, <2>1, MemoryFields
    <2>3. u # None => m2.vnode[u] = m.vnode[u]
      BY <1>5, <2>2
    <2>4. u # None /\ m.vnode[u] # None => m2.data[m.vnode[u]] = m.data[m.vnode[u]]
      BY <1>6, <2>2
    <2> QED
      BY <2>1, <2>2, <2>3, <2>4 DEF InoOf
  <1>9. \A d \in Dentry : ~m2.dent[d].used => m2.dent[d] = FreeDentry
    <2> SUFFICES ASSUME NEW d \in Dentry, ~m2.dent[d].used PROVE m2.dent[d] = FreeDentry
      OBVIOUS
    <2>1. CASE d = k
      BY <1>2, <2>1
    <2>2. CASE d # k
      <3>1. ~m.dent[d].used
        BY <1>2, <2>2
      <3>2. m.dent[d] = FreeDentry
        BY <3>1 DEF PoolInv
      <3>3. d # at
        BY <3>1, PoolFacts
      <3>4. PICK x \in DentryRec : x = m2.dent[d]
        BY <1>1, MemoryFields
      <3>5. PICK f \in DentryRec : f = FreeDentry
        BY <1>1, <3>2, MemoryFields
      <3>6. x.used = f.used /\ x.name = f.name /\ x.node = f.node /\ x.parent = f.parent
            /\ x.kids = f.kids
        BY <1>2, <2>2, <3>2, <3>3, <3>4, <3>5
      <3>7. x = f
        BY <3>6 DEF DentryRec
      <3> QED
        BY <3>4, <3>5, <3>7
    <2> QED
      BY <2>1, <2>2
  <1>10. \A d \in Dentry : \A kid \in m2.dent[d].kids :
           m2.dent[kid].used /\ m2.dent[kid].parent = d /\ m2.dent[kid].name \in Name
    <2> SUFFICES ASSUME NEW d \in Dentry, NEW kid \in m2.dent[d].kids
                 PROVE  m2.dent[kid].used /\ m2.dent[kid].parent = d /\ m2.dent[kid].name \in Name
      OBVIOUS
    <2>1. d # k /\ kid \in m.dent[d].kids
      BY <1>2, <1>3
    <2>2. m.dent[kid].used /\ m.dent[kid].parent = d /\ m.dent[kid].name \in Name
      BY <2>1 DEF PoolInv
    <2>3. kid \in Dentry
      BY <2>1, PoolFacts
    <2>4. kid # k
      <3>1. m.dent[k].parent = at
        BY DEF PoolInv
      <3>2. d # at => m.dent[kid].parent # at
        BY <2>2
      <3>3. d = at => kid # k
        BY <1>2, <2>1
      <3> QED
        BY <3>1, <3>2, <3>3
    <2> QED
      BY <1>2, <2>2, <2>3, <2>4
  <1>11. 1 # k /\ (r # None => r # k)
    BY <1>1 DEF Roots
  <1>12. m2.dent[1].used /\ m2.dent[1].node = None /\ m2.dent[1].parent = None
    BY <1>2, <1>11 DEF PoolInv
  <1>13. r # None => r \in Dentry \ {1} /\ m2.dent[r].used /\ m2.dent[r].parent = None
    <2>1. r # None => r \in Dentry \ {1} /\ m.dent[r].used /\ m.dent[r].parent = None
      BY DEF PoolInv
    <2> QED
      BY <1>2, <1>11, <2>1
  <1>14. \A d \in Dentry : m2.dent[d].node # None => m2.vnode[m2.dent[d].node] # None
    <2> SUFFICES ASSUME NEW d \in Dentry, m2.dent[d].node # None
                 PROVE  m2.vnode[m2.dent[d].node] # None
      OBVIOUS
    <2>1. d # k
      BY <1>3
    <2>a. m2.dent[d].node = m.dent[d].node /\ m2.dent[d].node \in Vnode \cup {None}
      <3>1. m2.dent[d].node = m.dent[d].node
        BY <1>2, <2>1
      <3>2. m2.dent[d].node \in Vnode \cup {None}
        BY <1>1, MemoryFields
      <3> QED
        BY <3>1, <3>2
    <2>2. PICK u \in Vnode : u = m.dent[d].node /\ u = m2.dent[d].node
      BY <2>a
    <2>3. u # v
      BY <1>7, <2>1, <2>2
    <2>4. m.vnode[u] # None
      <3>1. \A x \in Dentry : m.dent[x].node # None => m.vnode[m.dent[x].node] # None
        BY DEF PoolInv
      <3> QED
        BY <2>2, <3>1
    <2> QED
      BY <1>5, <2>2, <2>3, <2>4
  <1>15. \A d, e \in Dentry : m2.dent[d].node # None /\ m2.dent[d].node = m2.dent[e].node => d = e
    <2>1. \A d, e \in Dentry : m.dent[d].node # None /\ m.dent[d].node = m.dent[e].node => d = e
      BY DEF PoolInv
    <2>2. ASSUME NEW d \in Dentry, NEW e \in Dentry,
                 m2.dent[d].node # None, m2.dent[d].node = m2.dent[e].node
          PROVE  d = e
      <3>1. d # k /\ e # k
        BY <1>3, <2>2
      <3>2. m2.dent[d].node = m.dent[d].node /\ m2.dent[e].node = m.dent[e].node
        BY <1>2, <3>1
      <3>3. m.dent[d].node # None /\ m.dent[d].node = m.dent[e].node
        BY <2>2, <3>2
      <3> QED
        BY <2>1, <3>3
    <2> QED
      BY ONLY <2>2
  <1>16. \A u \in Vnode : m2.vnode[u] # None =>
           m2.data[m2.vnode[u]] # None /\ \E d \in Dentry : m2.dent[d].node = u
    <2> SUFFICES ASSUME NEW u \in Vnode, m2.vnode[u] # None
                 PROVE  m2.data[m2.vnode[u]] # None /\ \E d \in Dentry : m2.dent[d].node = u
      OBVIOUS
    <2>1. u # v /\ m2.vnode[u] = m.vnode[u]
      BY <1>5
    <2>2. PICK d \in Dentry : m.dent[d].node = u
      BY <2>1 DEF PoolInv
    <2>3. m.data[m.vnode[u]] # None
      BY <2>1 DEF PoolInv
    <2>4. d # k
      BY <2>1, <2>2
    <2> QED
      BY <1>2, <1>6, <2>1, <2>2, <2>3, <2>4
  <1>17. \A u, x \in Vnode : m2.vnode[u] # None /\ m2.vnode[u] = m2.vnode[x] => u = x
    <2>1. \A u, x \in Vnode : m.vnode[u] # None /\ m.vnode[u] = m.vnode[x] => u = x
      BY DEF PoolInv
    <2> QED
      BY <1>5, <2>1
  <1>18. PoolInv(m2, r)
    BY <1>1, <1>9, <1>10, <1>12, <1>13, <1>14, <1>15, <1>16, <1>17 DEF PoolInv
  <1> QED
    BY <1>4, <1>6, <1>8, <1>18

\* Below the roots there is one dentry less.
LEMMA DroppedLive ==
    ASSUME NEW m, NEW r, PoolInv(m, r), NEW at \in Live(m, r), NEW k \in m.dent[at].kids, NEW v,
           v = m.dent[k].node, v # None, m.dent[k].kids = {}, NEW m2, Dropped(m, m2, k, at, v)
    PROVE  /\ Live(m2, r) = Live(m, r) \ {k}
           /\ LiveOrFree(m, r) \subseteq LiveOrFree(m2, r)
  <1> USE NoneIsNoNumber
  <1>1. at \in Dentry /\ k \in Dentry /\ k \notin Roots(r)
    BY PoolFacts
  <1>2. m2.dent[k] = FreeDentry
        /\ \A x \in Dentry \ {k} : /\ m2.dent[x].used = m.dent[x].used
                                   /\ m2.dent[x].kids = IF x = at THEN m.dent[x].kids \ {k}
                                                                  ELSE m.dent[x].kids
    BY DEF Dropped
  <1>3. PoolInv(m2, r)
    BY <1>1, DroppedPool
  <1>4. Live(m, r) \subseteq Dentry /\ Live(m2, r) \subseteq Dentry
        /\ Lists(m, r) /\ Lists(m2, r)
    BY <1>3, PoolFacts
  <1>5. ~m2.dent[k].used /\ m2.dent[k].kids = {}
    BY <1>2 DEF FreeDentry
  <1>6. Live(m2, r) \subseteq Live(m, r) \ {k}
    <2>1. PICK Y \in SUBSET Dentry : Y = Live(m, r) \ {k}
      BY <1>4
    <2>2. Roots(r) \subseteq Y
      BY <1>1, <1>4, <2>1, LiveFacts
    <2>3. \A x \in Y : m2.dent[x].kids \subseteq Y
      <3> SUFFICES ASSUME NEW x \in Y PROVE m2.dent[x].kids \subseteq Y
        OBVIOUS
      <3>1. x \in Dentry \ {k} /\ x \in Live(m, r)
        BY <1>4, <2>1
      <3>2. m.dent[x].kids \subseteq Live(m, r)
        BY <1>4, <3>1, LiveFacts
      <3>3. x # at => k \notin m.dent[x].kids
        <4>1. \A d \in Dentry : \A kid \in m.dent[d].kids : m.dent[kid].parent = d
          BY DEF PoolInv
        <4> QED
          BY <1>1, <3>1, <4>1
      <3>4. m2.dent[x].kids = IF x = at THEN m.dent[x].kids \ {k} ELSE m.dent[x].kids
        BY <1>2, <3>1
      <3> QED
        BY <2>1, <3>2, <3>3, <3>4
    <2> QED
      BY <2>1, <2>2, <2>3, LiveLeast
  <1>7. Live(m, r) \subseteq Live(m2, r) \cup {k}
    <2>1. PICK Y \in SUBSET Dentry : Y = Live(m2, r) \cup {k}
      BY <1>1, <1>4
    <2>2. Roots(r) \subseteq Y
      BY <1>4, <2>1, LiveFacts
    <2>3. \A x \in Y : m.dent[x].kids \subseteq Y
      <3> SUFFICES ASSUME NEW x \in Y, x # k PROVE m.dent[x].kids \subseteq Y
        OBVIOUS
      <3>1. x \in Dentry \ {k} /\ x \in Live(m2, r)
        BY <1>4, <2>1
      <3>2. m2.dent[x].kids \subseteq Live(m2, r)
        BY <1>4, <3>1, LiveFacts
      <3>3. m2.dent[x].kids = IF x = at THEN m.dent[x].kids \ {k} ELSE m.dent[x].kids
        BY <1>2, <3>1
      <3> QED
        BY <2>1, <3>2, <3>3
    <2> QED
      BY <2>1, <2>2, <2>3, LiveLeast
  <1>8. Live(m2, r) = Live(m, r) \ {k}
    <2>1. k \notin Live(m2, r)
      BY <1>6
    <2> QED
      BY <1>6, <1>7, <2>1
  <1>9. \A x \in FreeDentries(m) : x \in FreeDentries(m2)
    BY <1>2, <1>5 DEF FreeDentries
  <1>10. k \in FreeDentries(m2)
    BY <1>1, <1>5 DEF FreeDentries
  <1> QED
    BY <1>8, <1>9, <1>10 DEF LiveOrFree

\* The cache agrees with the disk that has lost the same name.
LEMMA DroppedCache ==
    ASSUME NEW m, NEW r, NEW T, PoolInv(m, r), CacheInv(m, r, T), DiskInv(T),
           NEW at \in Live(m, r) \ {1}, NEW k \in m.dent[at].kids, NEW v,
           v = m.dent[k].node, v # None, m.dent[k].kids = {}, NEW m2, Dropped(m, m2, k, at, v),
           NEW T2, \A j \in Ino, q \in Name :
             ~(j = Expected(m, r, at) /\ q = m.dent[k].name) => T2[j].ents[q] = T[j].ents[q]
    PROVE  CacheInv(m2, r, T2)
  <1> USE NoneIsNoNumber
  <1>1. at \in Dentry /\ at \in Live(m, r) /\ k \in Dentry /\ k \notin Roots(r)
        /\ Live(m, r) \subseteq Dentry
    <2>1. at \in Live(m, r)
      OBVIOUS
    <2>2. at \in Dentry
      BY <2>1, PoolFacts
    <2> QED
      BY <2>1, <2>2, PoolFacts
  <1>2. Live(m2, r) = Live(m, r) \ {k}
    BY <1>1, DroppedLive
  <1>3. \A x \in Dentry \ {k} : InoOf(m2, x) = InoOf(m, x)
    BY <1>1, DroppedPool
  <1>4. \A x \in Dentry \ {k} :
          /\ m2.dent[x].name = m.dent[x].name
          /\ m2.dent[x].kids = IF x = at THEN m.dent[x].kids \ {k} ELSE m.dent[x].kids
    BY DEF Dropped
  <1>5. \A x \in Dentry \ {k} : Expected(m2, r, x) = Expected(m, r, x)
    BY <1>3 DEF Expected
  <1>6. 1 # k /\ (r # None => r # k /\ r \in Dentry)
    BY <1>1 DEF Roots, PoolInv
  <1>7. \A d \in Live(m2, r) \ {1} : Expected(m2, r, d) # None
    BY <1>1, <1>2, <1>5 DEF CacheInv
  <1>8. \A d \in Live(m2, r) \ {1} : \A kid \in m2.dent[d].kids :
          InoOf(m2, kid) = T2[Expected(m2, r, d)].ents[m2.dent[kid].name]
    <2> SUFFICES ASSUME NEW d \in Live(m2, r) \ {1}, NEW kid \in m2.dent[d].kids
                 PROVE  InoOf(m2, kid) = T2[Expected(m2, r, d)].ents[m2.dent[kid].name]
      OBVIOUS
    <2>1. d \in Live(m, r) \ {1} /\ d \in Dentry \ {k}
      BY <1>1, <1>2
    <2>2. kid \in m.dent[d].kids /\ (d = at => kid # k)
      BY <1>4, <2>1
    <2>3. PICK j \in Ino, q \in Name : j = Expected(m, r, d) /\ q = m.dent[kid].name
      BY <2>1, <2>2, CacheFacts
    <2>4. InoOf(m, kid) = T[j].ents[q] /\ kid \in Dentry
      BY <1>1, <2>1, <2>2, <2>3, CacheFacts
    <2>5. j = Expected(m, r, at) => d = at
      BY <2>1, <2>3 DEF CacheInv
    <2>6. d = at /\ q = m.dent[k].name => kid = k
      <3>1. \A x, y \in m.dent[at].kids : m.dent[x].name = m.dent[y].name => x = y
        BY CacheFacts
      <3> QED
        BY <2>2, <2>3, <3>1
    <2>7. T2[j].ents[q] = T[j].ents[q]
      BY <2>2, <2>5, <2>6
    <2>8. kid # k
      <3>1. \A x \in Dentry : \A y \in m.dent[x].kids : m.dent[y].parent = x
        BY DEF PoolInv
      <3>2. m.dent[kid].parent = d /\ m.dent[k].parent = at
        BY <1>1, <2>1, <2>2, <3>1
      <3> QED
        BY <2>2, <3>2
    <2> QED
      BY <1>3, <1>4, <1>5, <2>1, <2>3, <2>4, <2>7, <2>8
  <1>9. \A d, e \in Live(m2, r) \ {1} : Expected(m2, r, d) = Expected(m2, r, e) => d = e
    <2>1. \A d, e \in Live(m, r) \ {1} : Expected(m, r, d) = Expected(m, r, e) => d = e
      BY DEF CacheInv
    <2> QED
      BY <1>1, <1>2, <1>5, <2>1
  <1>10. \A kid \in m2.dent[1].kids : InoOf(m2, kid) = Root /\ r = None
    <2> SUFFICES ASSUME NEW kid \in m2.dent[1].kids PROVE InoOf(m2, kid) = Root /\ r = None
      OBVIOUS
    <2>1. kid \in m.dent[1].kids
      BY <1>4, <1>6
    <2>2. m.dent[kid].parent = 1 /\ m.dent[k].parent = at /\ kid \in Dentry
      BY <1>1, <2>1, PoolFacts DEF PoolInv
    <2>3. InoOf(m, kid) = Root /\ r = None
      BY <2>1 DEF CacheInv
    <2> QED
      BY <1>3, <2>2, <2>3
  <1>11. r # None => InoOf(m2, r) \in {Root, None}
    BY <1>3, <1>6 DEF CacheInv
  <1> QED
    BY <1>7, <1>8, <1>9, <1>10, <1>11 DEF CacheInv

\* m2 is m without dentry k, which was below at.
DentryDropped(m, m2, k, at) ==
    /\ m2 \in Memory
    /\ m2.vnode = m.vnode
    /\ m2.data = m.data
    /\ m2.dent[k] = FreeDentry
    /\ \A x \in Dentry \ {k} : /\ m2.dent[x].used = m.dent[x].used
                               /\ m2.dent[x].name = m.dent[x].name
                               /\ m2.dent[x].node = m.dent[x].node
                               /\ m2.dent[x].parent = m.dent[x].parent
                               /\ m2.dent[x].kids = IF x = at THEN m.dent[x].kids \ {k}
                                                              ELSE m.dent[x].kids

\* detach_child and free_dentry
LEMMA DropDentryIs ==
    ASSUME NEW m \in Memory, NEW k \in Dentry, NEW at \in Dentry, m.dent[k].parent = at
    PROVE  DentryDropped(m, DropDentry(m, k), k, at)
  <1> USE NoneIsNoNumber
  <1>1. PICK a \in DentryRec : a = m.dent[at]
    BY MemoryFields
  <1> DEFINE a2 == [a EXCEPT !.kids = a.kids \ {k}]
  <1>2. a2 \in DentryRec /\ a2.used = a.used /\ a2.name = a.name /\ a2.node = a.node
        /\ a2.parent = a.parent /\ a2.kids = a.kids \ {k}
    BY <1>1 DEF DentryRec
  <1>3. FreeDentry \in DentryRec
    BY DEF FreeDentry, DentryRec
  <1>4. DropDentry(m, k) = [m EXCEPT !.dent = [[m.dent EXCEPT ![at] = a2] EXCEPT ![k] = FreeDentry]]
    <2>1. Detach(m, k, at) = [m EXCEPT !.dent = [m.dent EXCEPT ![at] = a2]]
      BY <1>1 DEF Detach, Memory
    <2>2. Detach(m, k, at).dent = [m.dent EXCEPT ![at] = a2]
      BY <2>1 DEF Memory
    <2> QED
      BY <2>1, <2>2 DEF DropDentry, Memory
  <1> HIDE DEF a2
  <1>5. m.dent \in [Dentry -> DentryRec]
    BY MemoryFields
  <1>6. PICK f \in [Dentry -> DentryRec] : f = [[m.dent EXCEPT ![at] = a2] EXCEPT ![k] = FreeDentry]
    BY <1>2, <1>3, <1>5
  <1>7. f[k] = FreeDentry /\ \A x \in Dentry \ {k} : f[x] = IF x = at THEN a2 ELSE m.dent[x]
    BY <1>2, <1>3, <1>5, <1>6
  <1>8. DropDentry(m, k) \in Memory /\ DropDentry(m, k).dent = f
        /\ DropDentry(m, k).vnode = m.vnode /\ DropDentry(m, k).data = m.data
    <2>1. DropDentry(m, k) = [m EXCEPT !.dent = f]
      BY <1>4, <1>6
    <2> QED
      BY <2>1 DEF Memory
  <1>9. \A x \in Dentry \ {k} :
          /\ f[x].used = m.dent[x].used
          /\ f[x].name = m.dent[x].name
          /\ f[x].node = m.dent[x].node
          /\ f[x].parent = m.dent[x].parent
          /\ f[x].kids = IF x = at THEN m.dent[x].kids \ {k} ELSE m.dent[x].kids
    BY <1>1, <1>2, <1>7
  <1> QED
    BY <1>7, <1>8, <1>9 DEF DentryDropped

\* What vfs_unlink and vfs_rename forget.
LEMMA ForgetIs ==
    ASSUME NEW m, NEW r, PoolInv(m, r), NEW at \in Dentry, NEW n, NEW k, k = Child(m, at, n),
           k # None, NEW v, v = m.dent[k].node, v # None
    PROVE  k \in m.dent[at].kids /\ m.dent[k].name = n /\ Dropped(m, Forget(m, at, n), k, at, v)
  <1> USE NoneIsNoNumber
  <1>1. m \in Memory /\ m.dent[at].kids \subseteq Dentry
    BY MemoryFields DEF PoolInv
  <1>2. k \in m.dent[at].kids /\ k \in Dentry /\ m.dent[k].name = n
    BY <1>1, ChildFacts
  <1>3. m.dent[k].parent = at
    BY <1>2 DEF PoolInv
  <1>4. PICK m1 : m1 = [m EXCEPT !.vnode = [m.vnode EXCEPT ![v] = None]]
    OBVIOUS
  <1>5. v \in Vnode
    BY <1>1, <1>2, MemoryFields
  <1>6. m1 \in Memory /\ m1.dent = m.dent /\ m1.data = m.data
        /\ m1.vnode = [m.vnode EXCEPT ![v] = None]
    <2>1. [m.vnode EXCEPT ![v] = None] \in [Vnode -> Data \cup {None}]
      BY <1>1, <1>5, MemoryFields
    <2> QED
      BY <1>1, <1>4, <2>1 DEF Memory
  <1>7. Forget(m, at, n) = DropDentry(m1, k)
    <2>1. FreeVnode(m, v) = m1
      BY <1>1, <1>4 DEF FreeVnode, Memory
    <2> QED
      BY <2>1 DEF Forget
  <1>8. m1.dent[k].parent = at
    BY <1>3, <1>6
  <1>9. Dropped(m, DropDentry(m1, k), k, at, v)
    <2>1. PICK m2 : m2 = DropDentry(m1, k)
      OBVIOUS
    <2>2. DentryDropped(m1, m2, k, at)
      BY <1>2, <1>6, <1>8, <2>1, DropDentryIs
    <2>3. Dropped(m, m2, k, at, v)
      <3>1. PICK f : f = m1.dent /\ f = m.dent
        BY <1>6
      <3>2. /\ m2 \in Memory /\ m2.vnode = m1.vnode /\ m2.data = m1.data
            /\ m2.dent[k] = FreeDentry
            /\ \A x \in Dentry \ {k} : /\ m2.dent[x].used = f[x].used
                                       /\ m2.dent[x].name = f[x].name
                                       /\ m2.dent[x].node = f[x].node
                                       /\ m2.dent[x].parent = f[x].parent
                                       /\ m2.dent[x].kids = IF x = at THEN f[x].kids \ {k}
                                                                      ELSE f[x].kids
        BY ONLY <2>2, <3>1 DEF DentryDropped
      <3>3. m2.vnode = [m.vnode EXCEPT ![v] = None]
            /\ \A s \in Data : s # m.vnode[v] => m2.data[s] = m.data[s]
        BY ONLY <1>6, <3>2
      <3> QED
        BY ONLY <3>1, <3>2, <3>3 DEF Dropped
    <2> QED
      BY <2>1, <2>3
  <1> QED
    BY <1>2, <1>7, <1>9

\* The mount point stays when it keeps its node and inode, and "/" its children.
LEMMA MountStays ==
    ASSUME MountInv, UNCHANGED vol, ns'["nyfs"] = ns["nyfs"],
           mem'.dent[1].kids = mem.dent[1].kids,
           Mounted => mem'.dent[vol.place].node = mem.dent[vol.place].node
                      /\ InoOf(mem', vol.place) = InoOf(mem, vol.place)
    PROVE  MountInv'
  <1>1. Mounted' = Mounted
    BY DEF Mounted, NoVolume
  <1>2. Mounted => /\ vol.place \in Dentry /\ vol.root \in Vnode
                   /\ mem.dent[vol.place].node = vol.root
                   /\ InoOf(mem, vol.place) = Root
                   /\ ns["nyfs"] # None => vol.place = ns["nyfs"]
    BY DEF MountInv
  <1>3. InoOf(mem, vol.place)' = InoOf(mem', vol.place)
    BY DEF InoOf
  <1> QED
    BY <1>1, <1>2, <1>3 DEF MountInv

\* vfs_unlink
LEMMA UnlinkInv ==
    ASSUME Inv, NEW p \in Path, Unlink(p)
    PROVE  Inv'
  <1> USE NoneIsNoNumber
  <1>1. PICK w : w = ResolveParent(mem, p)
    OBVIOUS
  <1>2. PICK n : n = Last(p.names)
    OBVIOUS
  <1>3. PICK r, dir, at : r = ns["nyfs"] /\ dir = InoOf(w.m, w.at) /\ at = w.at
    OBVIOUS
  <1>4. PICK m : m = w.m
    OBVIOUS
  <1>5. w \in Walks(mem, r, ns[p.ns]) /\ n \in Name
    BY <1>1, <1>2, <1>3, ResolveKeeps, RootOf
  <1>6. PoolInv(m, r) /\ CacheInv(m, r, tree) /\ Keeps(mem, m, r) /\ m \in Memory
        /\ (w.ok => at \in LiveOrFree(m, r))
    BY <1>3, <1>4, <1>5 DEF Walks
  <1>7. CASE GivesUp(w)
    BY <1>3, <1>5, <1>7, GivesUpInv
  <1>8. CASE ~GivesUp(w)
    <2>1. PICK i : i = tree[dir].ents[n]
      OBVIOUS
    <2>2. /\ w.ok /\ IsDir(m, at) /\ i # None /\ \A q \in Name : tree[i].ents[q] = None
          /\ tree' = [tree EXCEPT ![dir].ents[n] = None, ![i] = NoInode]
          /\ mem' = Forget(m, at, n)
          /\ UNCHANGED <<ns, vol, birth, handles, mounts>>
      BY <1>1, <1>2, <1>3, <1>4, <1>8, <2>1 DEF Unlink, IsEmpty
    <2>3. dir # None
      BY <1>3, <1>4, <2>2 DEF IsDir
    <2>4. at \in Live(m, r) \ {1} /\ at \in Dentry /\ at \in Live(m, r)
      BY <1>3, <1>4, <1>6, <2>2, <2>3, PoolFacts
    <2>5. DiskInv(tree)
      BY DEF Inv
    <2>6. Expected(m, r, at) = dir /\ dir \in Ino
      BY <1>3, <1>4, <1>6, <2>3, <2>4, <2>5, CacheFacts
    <2>7. i \in Ino /\ i # Root
      <3>1. tree \in [Ino -> InodeRec]
        BY <2>5 DEF DiskInv
      <3>2. tree[dir].ents \in [Name -> Ino \cup {None}]
        BY <2>6, <3>1, InodeFields
      <3>3. \A j \in Ino, q \in Name : tree[j].ents[q] # None => tree[j].ents[q] # Root
        BY <2>5 DEF DiskInv
      <3> QED
        BY <1>5, <2>1, <2>2, <2>6, <3>2, <3>3
    <2>8. EntrySet(tree, tree', dir, n, None,
                   [j \in Ino |-> IF j = i THEN "NONE" ELSE tree[j].kind])
      BY <1>5, <2>1, <2>2, <2>5, <2>6, <2>7, UnlinkOnDisk
    <2>9. DiskInv(tree')
      <3>1. PICK T2 : T2 = tree'
        OBVIOUS
      <3>2. EntrySet(tree, T2, dir, n, None,
                     [j \in Ino |-> IF j = i THEN "NONE" ELSE tree[j].kind])
        BY ONLY <2>8, <3>1
      <3>3. \A q \in Name : tree[i].ents[q] = None
        BY <2>2
      <3>4. DiskInv(T2)
        BY ONLY <1>5, <2>1, <2>5, <2>6, <2>7, <3>2, <3>3, UnlinkedDiskInv
      <3> QED
        BY ONLY <3>1, <3>4
    <2>10. /\ \A j \in Ino, q \in Name :
                tree'[j].ents[q] = IF j = dir /\ q = n THEN None ELSE tree[j].ents[q]
           /\ \A j \in Ino : tree'[j].kind = IF j = i THEN "NONE" ELSE tree[j].kind
      BY <2>8 DEF EntrySet
    <2> DEFINE New(m2) ==
                 /\ PoolInv(m2, r) /\ CacheInv(m2, r, tree')
                 /\ LiveOrFree(m, r) \subseteq LiveOrFree(m2, r)
                 /\ m2.dent[1].kids = m.dent[1].kids
                 /\ \A x \in Dentry : InoOf(m, x) \notin {None, i} =>
                      InoOf(m2, x) = InoOf(m, x) /\ m2.dent[x].node = m.dent[x].node
                 /\ \A u \in Vnode : m.vnode[u] # None /\ m.data[m.vnode[u]] # i =>
                      m2.vnode[u] = m.vnode[u] /\ m2.data[m.vnode[u]] = m.data[m.vnode[u]]
    <2>11. New(mem')
      <3>1. PICK k : k = Child(m, at, n)
        OBVIOUS
      <3>2. CASE k = None
        <4>1. mem' = m
          BY <2>2, <3>1, <3>2 DEF Forget
        <4>2. \A x \in m.dent[at].kids : m.dent[x].name # n
          <5>1. m.dent[at].kids \subseteq Dentry
            BY <1>6, <2>4, PoolFacts
          <5>2. Child(m, at, n) = None
            BY ONLY <3>1, <3>2
          <5> QED
            BY ONLY <5>1, <5>2, ChildFacts
        <4>3. \A d \in Live(m, r) \ {1} : \A kid \in m.dent[d].kids :
                tree'[Expected(m, r, d)].ents[m.dent[kid].name] =
                  tree[Expected(m, r, d)].ents[m.dent[kid].name]
          <5> SUFFICES ASSUME NEW d \in Live(m, r) \ {1}, NEW kid \in m.dent[d].kids
                       PROVE  tree'[Expected(m, r, d)].ents[m.dent[kid].name] =
                                tree[Expected(m, r, d)].ents[m.dent[kid].name]
            OBVIOUS
          <5>1. PICK j \in Ino, q \in Name : j = Expected(m, r, d) /\ q = m.dent[kid].name
            BY <1>6, <2>5, CacheFacts
          <5>2. j = dir => d = at
            BY <1>6, <2>4, <2>6, <5>1 DEF CacheInv
          <5>3. ~(j = dir /\ q = n)
            BY <4>2, <5>1, <5>2
          <5>4. tree'[j].ents[q] = tree[j].ents[q]
            BY ONLY <2>10, <5>1, <5>3
          <5> QED
            BY ONLY <5>1, <5>4
        <4>4. CacheInv(m, r, tree')
          BY <1>6, <4>3, CacheOtherDisk
        <4> QED
          BY ONLY <1>6, <4>1, <4>4
      <3>3. CASE k # None
        <4>1. PICK v : v = m.dent[k].node
          OBVIOUS
        <4>2. k \in m.dent[at].kids /\ k \in Dentry /\ m.dent[k].name = n
          <5>1. m.dent[at].kids \subseteq Dentry
            BY <1>6, <2>4, PoolFacts
          <5> QED
            BY <3>1, <3>3, <5>1, ChildFacts
        <4>3. /\ k \in Live(m, r) \ {1} /\ Expected(m, r, k) = InoOf(m, k)
              /\ InoOf(m, k) = tree[Expected(m, r, at)].ents[m.dent[k].name]
              /\ InoOf(m, k) # None
          BY <1>6, <2>4, <2>5, <4>2, CacheFacts
        <4>4. InoOf(m, k) = i
          BY <2>1, <2>6, <4>2, <4>3
        <4>5. v # None
          BY <1>6, <4>1, <4>2, <4>3, PoolFacts
        <4>6. m.dent[k].kids = {}
          <5> SUFFICES ASSUME NEW x \in m.dent[k].kids PROVE FALSE
            OBVIOUS
          <5>1. InoOf(m, x) = tree[Expected(m, r, k)].ents[m.dent[x].name]
                /\ InoOf(m, x) # None /\ m.dent[x].name \in Name
            BY <1>6, <2>5, <4>3, CacheFacts
          <5> QED
            BY <2>2, <4>3, <4>4, <5>1
        <4>7. PICK m2 : m2 = Forget(m, at, n)
          OBVIOUS
        <4>8. Dropped(m, m2, k, at, v)
          BY <1>6, <2>4, <3>1, <3>3, <4>1, <4>5, <4>7, ForgetIs
        <4>9. /\ PoolInv(m2, r)
              /\ v \in Vnode
              /\ \A x \in Dentry \ {k} : InoOf(m2, x) = InoOf(m, x)
              /\ \A u \in Vnode : m.vnode[u] # None /\ u # v =>
                   m2.vnode[u] = m.vnode[u] /\ m2.data[m.vnode[u]] = m.data[m.vnode[u]]
          BY <1>6, <2>4, <4>1, <4>2, <4>5, <4>8, DroppedPool
        <4>10. CacheInv(m2, r, tree')
          <5>1. PICK T2 : T2 = tree'
            OBVIOUS
          <5>2. \A j \in Ino, q \in Name :
                  ~(j = Expected(m, r, at) /\ q = m.dent[k].name) => T2[j].ents[q] = tree[j].ents[q]
            BY ONLY <2>6, <2>10, <4>2, <5>1
          <5>3. CacheInv(m2, r, T2)
            BY ONLY <1>6, <2>4, <2>5, <4>1, <4>2, <4>5, <4>6, <4>8, <5>2, DroppedCache
          <5> QED
            BY ONLY <5>1, <5>3
        <4>11. LiveOrFree(m, r) \subseteq LiveOrFree(m2, r)
          BY <1>6, <2>4, <4>1, <4>2, <4>5, <4>6, <4>8, DroppedLive
        <4>12. m2.dent[1].kids = m.dent[1].kids
          BY <2>4, <4>3, <4>8 DEF Dropped
        <4>13. \A x \in Dentry : InoOf(m, x) \notin {None, i} =>
                 InoOf(m2, x) = InoOf(m, x) /\ m2.dent[x].node = m.dent[x].node
          BY <4>4, <4>8, <4>9 DEF Dropped
        <4>14. \A u \in Vnode : m.vnode[u] # None /\ m.data[m.vnode[u]] # i =>
                 m2.vnode[u] = m.vnode[u] /\ m2.data[m.vnode[u]] = m.data[m.vnode[u]]
          <5>1. m.vnode[v] # None => m.data[m.vnode[v]] = i
            BY <4>1, <4>4, <4>5 DEF InoOf
          <5> QED
            BY <4>9, <5>1
        <4>15. mem' = m2
          BY <2>2, <4>7
        <4> QED
          BY ONLY <4>9, <4>10, <4>11, <4>12, <4>13, <4>14, <4>15
      <3> QED
        BY <3>2, <3>3
    <2>12. PoolInv(mem', r) /\ CacheInv(mem', r, tree')
      BY <2>11
    <2>13. MountInv'
      <3>1. MountInv
        BY DEF Inv
      <3>2. mem'.dent[1].kids = mem.dent[1].kids
        BY <1>6, <2>11 DEF Keeps, KeepsNodes
      <3>3. Mounted => mem'.dent[vol.place].node = mem.dent[vol.place].node
                       /\ InoOf(mem', vol.place) = InoOf(mem, vol.place)
        <4> SUFFICES ASSUME Mounted
                     PROVE  mem'.dent[vol.place].node = mem.dent[vol.place].node
                            /\ InoOf(mem', vol.place) = InoOf(mem, vol.place)
          OBVIOUS
        <4>1. PICK x \in Dentry : x = vol.place /\ InoOf(mem, x) = Root
          BY <3>1 DEF MountInv
        <4>2. InoOf(m, x) = Root /\ m.dent[x].node = mem.dent[x].node
          BY <1>6, <4>1 DEF Keeps, KeepsNodes
        <4>3. InoOf(mem', x) = Root /\ mem'.dent[x].node = m.dent[x].node
          BY <2>7, <2>11, <4>2
        <4> QED
          BY <4>1, <4>2, <4>3
      <3> QED
        BY <2>2, <3>1, <3>2, <3>3, MountStays
    <2>14. NsInv'
      <3>1. NsInv
        BY DEF Inv
      <3>2. LiveOrFree(mem, r) \subseteq LiveOrFree(mem', r)
        BY <1>6, <2>11 DEF Keeps
      <3>3. LiveOrFree(mem, ns["nyfs"])' = LiveOrFree(mem', ns'["nyfs"]) /\ ns' = ns
        BY <2>2
      <3> QED
        BY <1>3, <3>1, <3>2, <3>3 DEF NsInv
    <2>15. HandleInv'
      <3>1. HandleInv /\ (Mounted' => Mounted)
        BY <2>2 DEF Inv, Mounted, NoVolume
      <3>2. birth' \in [Ino -> Nat] /\ birth' = birth
        BY <2>2, <3>1 DEF HandleInv
      <3>3. \A j \in Ino : birth[j] <= birth'[j]
        BY <3>2
      <3>4. \A j \in Ino : tree'[j].kind # "NONE" /\ birth'[j] = birth[j] => tree[j].kind # "NONE"
        BY <2>10
      <3>5. \A u \in Vnode :
              mem.vnode[u] # None /\ tree'[mem.data[mem.vnode[u]]].kind # "NONE" =>
                mem'.vnode[u] = mem.vnode[u] /\ mem'.data[mem.vnode[u]] = mem.data[mem.vnode[u]]
        <4> SUFFICES ASSUME NEW u \in Vnode, mem.vnode[u] # None,
                            tree'[mem.data[mem.vnode[u]]].kind # "NONE"
                     PROVE  mem'.vnode[u] = mem.vnode[u]
                            /\ mem'.data[mem.vnode[u]] = mem.data[mem.vnode[u]]
          OBVIOUS
        <4>1. m.vnode[u] = mem.vnode[u] /\ m.data[mem.vnode[u]] = mem.data[mem.vnode[u]]
          BY <1>6 DEF Keeps, KeepsNodes
        <4>2. mem.data[mem.vnode[u]] # i
          BY <2>7, <2>10
        <4> QED
          BY <2>11, <4>1, <4>2
      <3> QED
        BY <2>2, <3>1, <3>2, <3>3, <3>4, <3>5, HandlesKept
    <2>16. PoolInv(mem, ns["nyfs"])' /\ CacheInv(mem, ns["nyfs"], tree)'
      BY <1>3, <2>2, <2>12
    <2> QED
      BY <2>9, <2>13, <2>14, <2>15, <2>16 DEF Inv
  <1> QED
    BY <1>7, <1>8

-----------------------------------------------------------------------------
(***************************************************************************)
(* Chains of growing sets: the loop over parent pointers, and the names    *)
(* below a root                                                            *)
(***************************************************************************)
\* f begins with the set A and goes on with the step G.
IsChain(f, N, A, G) ==
    /\ f = [k \in 0 .. N |-> f[k]]
    /\ f[0] = A
    /\ \A k \in 1 .. N : f[k - 1] \in SUBSET (1 .. N) => f[k] = G[f[k - 1]]

\* A chain exists.
LEMMA ChainExists ==
    ASSUME NEW N \in Nat, NEW A \in SUBSET (1 .. N), NEW G \in [SUBSET (1 .. N) -> SUBSET (1 .. N)]
    PROVE  \E f \in [0 .. N -> SUBSET (1 .. N)] :
             f[0] = A /\ \A k \in 1 .. N : f[k] = G[f[k - 1]]
  <1>1. PICK S : S = SUBSET (1 .. N)
    OBVIOUS
  <1>2. PICK F \in [1 .. N -> [S -> S]] : \A k \in 1 .. N : F[k] = G
    <2>1. [k \in 1 .. N |-> G] \in [1 .. N -> [S -> S]]
      BY <1>1
    <2> QED
      BY <2>1
  <1>3. PICK f \in [0 .. N -> S] : Iterates(f, N, F, A)
    BY <1>1, IterationExists
  <1> QED
    BY <1>1, <1>2, <1>3 DEF Iterates

\* Its last set has the first one, and the step adds nothing to it.
LEMMA ChainIs ==
    ASSUME NEW N \in Nat, NEW A \in SUBSET (1 .. N), A # {},
           NEW G \in [SUBSET (1 .. N) -> SUBSET (1 .. N)], \A X \in SUBSET (1 .. N) : X \subseteq G[X],
           NEW f, IsChain(f, N, A, G)
    PROVE  f[N] \in SUBSET (1 .. N) /\ A \subseteq f[N] /\ G[f[N]] = f[N]
  <1>1. PICK S : S = SUBSET (1 .. N)
    OBVIOUS
  <1>2. PICK I : I = {X \in S : A \subseteq X}
    OBVIOUS
  <1>a. /\ f = [k \in 0 .. N |-> f[k]]
        /\ f[0] = A
        /\ \A k \in 1 .. N : f[k - 1] \in SUBSET (1 .. N) => f[k] = G[f[k - 1]]
    BY DEF IsChain
  <1>3. f[0] \in I
    BY <1>1, <1>2, <1>a
  <1>4. \A k \in 1 .. N : f[k - 1] \in I => f[k] \in I
    <2> SUFFICES ASSUME NEW k \in 1 .. N, f[k - 1] \in I PROVE f[k] \in I
      OBVIOUS
    <2>1. PICK X \in S : X = f[k - 1] /\ A \subseteq X
      BY <1>2
    <2>2. f[k] = G[X]
      BY <1>1, <1>a, <2>1
    <2>3. G[X] \in S /\ X \subseteq G[X]
      BY <1>1, <2>1
    <2> QED
      BY <1>2, <2>1, <2>2, <2>3
  <1>5. \A k \in 0 .. N : f[k] \in I
    BY <1>3, <1>4, IterationKeeps
  <1>6. \A k \in 0 .. N : f[k] \in S /\ A \subseteq f[k]
    BY <1>2, <1>5
  <1>7. f \in [0 .. N -> S]
    BY <1>6, <1>a
  <1>8. \A k \in 1 .. N : f[k] = G[f[k - 1]] /\ f[k - 1] \subseteq f[k]
    <2> SUFFICES ASSUME NEW k \in 1 .. N PROVE f[k] = G[f[k - 1]] /\ f[k - 1] \subseteq f[k]
      OBVIOUS
    <2>1. k - 1 \in 0 .. N
      OBVIOUS
    <2>2. PICK X \in S : X = f[k - 1]
      BY <1>6, <2>1
    <2> QED
      BY <1>1, <1>a, <2>2
  <1>9. G[f[N]] = f[N]
    BY <1>1, <1>a, <1>7, <1>8, ChainStops
  <1>10. N \in 0 .. N
    OBVIOUS
  <1> QED
    BY <1>1, <1>6, <1>9, <1>10

\* h is the course of the loop from dentry d, turn by turn.
ParentCourse(h, m, d) ==
    h = [k \in 0 .. MaxDentries |->
           IF k = 0 THEN {d}
           ELSE h[k - 1] \cup ({m.dent[x].parent : x \in h[k - 1]} \ {None})]

\* The loop visits the last set of its course.
LEMMA AncestorsIsCourse ==
    ASSUME NEW m, NEW d
    PROVE  Ancestors(m, d) = (CHOOSE h : ParentCourse(h, m, d))[MaxDentries]
  BY DEF Ancestors, ParentCourse

\* The loop over parent pointers of vfs_rename visits the dentry and, with every
\* dentry, its parent.
LEMMA AncestorsFacts ==
    ASSUME NEW m \in Memory, NEW d \in Dentry
    PROVE  /\ d \in Ancestors(m, d)
           /\ \A x \in Ancestors(m, d) \cap Dentry :
                m.dent[x].parent # None => m.dent[x].parent \in Ancestors(m, d)
  <1>1. PICK N \in Nat : N = MaxDentries
    BY PoolAssumption
  <1>2. Dentry = 1 .. N
    BY <1>1 DEF Dentry
  <1> DEFINE Step(X) == X \cup ({m.dent[x].parent : x \in X} \ {None})
             G == [X \in SUBSET (1 .. N) |-> Step(X)]
  <1>3. \A X \in SUBSET (1 .. N) : Step(X) \in SUBSET (1 .. N) /\ X \subseteq Step(X)
    BY <1>2, MemoryFields
  <1>4. G \in [SUBSET (1 .. N) -> SUBSET (1 .. N)]
    BY <1>3
  <1>5. \A X \in SUBSET (1 .. N) : G[X] = Step(X) /\ X \subseteq G[X]
    BY <1>3
  <1>6. PICK A \in SUBSET (1 .. N) : A = {d} /\ A # {}
    BY <1>2
  <1> HIDE DEF G
  <1>7. \E h : ParentCourse(h, m, d)
    <2>1. PICK f \in [0 .. N -> SUBSET (1 .. N)] : f[0] = A /\ \A k \in 1 .. N : f[k] = G[f[k - 1]]
      BY <1>4, ChainExists
    <2>2. \A k \in 1 .. N : f[k] = Step(f[k - 1])
      <3> SUFFICES ASSUME NEW k \in 1 .. N PROVE f[k] = Step(f[k - 1])
        OBVIOUS
      <3>1. k - 1 \in 0 .. N
        OBVIOUS
      <3>2. f[k - 1] \in SUBSET (1 .. N)
        BY <3>1
      <3> QED
        BY <1>5, <2>1, <3>2
    <2>3. \A k \in 0 .. N : f[k] = IF k = 0 THEN {d} ELSE Step(f[k - 1])
      BY <1>6, <2>1, <2>2
    <2>4. f = [k \in 0 .. N |-> f[k]]
      OBVIOUS
    <2>5. f = [k \in 0 .. N |-> IF k = 0 THEN {d} ELSE Step(f[k - 1])]
      BY <2>3, <2>4
    <2> QED
      BY <1>1, <2>5 DEF ParentCourse
  <1>8. PICK h : h = CHOOSE g : ParentCourse(g, m, d)
    OBVIOUS
  <1>9. ParentCourse(h, m, d)
    BY <1>7, <1>8
  <1>10. h = [k \in 0 .. N |-> IF k = 0 THEN {d} ELSE Step(h[k - 1])]
    BY <1>1, <1>9 DEF ParentCourse
  <1>11. h[0] = A /\ \A k \in 1 .. N : h[k] = Step(h[k - 1])
    <2> HIDE DEF Step
    <2>1. \A k \in 0 .. N : h[k] = IF k = 0 THEN {d} ELSE Step(h[k - 1])
      BY <1>10
    <2>2. \A k \in 1 .. N : k \in 0 .. N /\ k # 0
      OBVIOUS
    <2>3. \A k \in 1 .. N : h[k] = Step(h[k - 1])
      BY ONLY <2>1, <2>2
    <2>4. 0 \in 0 .. N
      OBVIOUS
    <2> QED
      BY <1>6, <2>1, <2>3, <2>4
  <1>12. h = [k \in 0 .. N |-> h[k]]
    BY <1>10
  <1>13. \A k \in 1 .. N : h[k - 1] \in SUBSET (1 .. N) => h[k] = G[h[k - 1]]
    BY <1>5, <1>11
  <1>14. h[N] \in SUBSET (1 .. N) /\ A \subseteq h[N] /\ G[h[N]] = h[N]
    <2> HIDE DEF Step
    <2>1. IsChain(h, N, A, G)
      BY <1>11, <1>12, <1>13 DEF IsChain
    <2> QED
      BY <1>4, <1>5, <1>6, <2>1, ChainIs
  <1>15. Ancestors(m, d) = h[N]
    BY <1>1, <1>8, AncestorsIsCourse
  <1>16. Step(h[N]) = h[N]
    BY <1>5, <1>14
  <1> QED
    BY <1>6, <1>14, <1>15, <1>16

-----------------------------------------------------------------------------
(***************************************************************************)
(* vfs_rename                                                              *)
(***************************************************************************)
\* T2 is the disk T with entry n of from moved to entry n2 of to.
EntryMoved(T, T2, from, n, to, n2) ==
    /\ T2 \in [Ino -> InodeRec]
    /\ \A j \in Ino, q \in Name :
         T2[j].ents[q] = IF j = to /\ q = n2 THEN T[from].ents[n]
                         ELSE IF j = from /\ q = n THEN None ELSE T[j].ents[q]
    /\ \A j \in Ino : T2[j].kind = T[j].kind

\* One entry of a directory is set.
LEMMA EntryIsSet ==
    ASSUME NEW T \in [Ino -> InodeRec], NEW dir \in Ino, NEW n \in Name, NEW i \in Ino \cup {None},
           NEW T2, T2 = [T EXCEPT ![dir].ents[n] = i]
    PROVE  EntrySet(T, T2, dir, n, i, [j \in Ino |-> T[j].kind])
  <1>1. PICK x \in InodeRec : x = T[dir]
    OBVIOUS
  <1> DEFINE x2 == [x EXCEPT !.ents = [x.ents EXCEPT ![n] = i]]
  <1>2. x2 \in InodeRec /\ x2.kind = x.kind /\ x2.ents = [x.ents EXCEPT ![n] = i]
    BY <1>1 DEF InodeRec
  <1>3. T2 = [T EXCEPT ![dir] = x2]
    BY <1>1
  <1>4. x.ents \in [Name -> Ino \cup {None}]
    BY <1>1 DEF InodeRec
  <1> HIDE DEF x2
  <1>5. T2 \in [Ino -> InodeRec] /\ T2[dir] = x2 /\ \A j \in Ino \ {dir} : T2[j] = T[j]
    BY <1>2, <1>3
  <1>6. \A j \in Ino, q \in Name :
          T2[j].ents[q] = IF j = dir /\ q = n THEN i ELSE T[j].ents[q]
    <2> SUFFICES ASSUME NEW j \in Ino, NEW q \in Name
                 PROVE  T2[j].ents[q] = IF j = dir /\ q = n THEN i ELSE T[j].ents[q]
      OBVIOUS
    <2>1. CASE j = dir
      BY <1>1, <1>2, <1>4, <1>5, <2>1
    <2>2. CASE j # dir
      BY <1>5, <2>2
    <2> QED
      BY <2>1, <2>2
  <1>7. \A j \in Ino : T2[j].kind = T[j].kind
    BY <1>1, <1>2, <1>5
  <1> QED
    BY <1>5, <1>6, <1>7 DEF EntrySet

\* The entry is moved on the disk.
LEMMA RenameOnDisk ==
    ASSUME NEW T \in [Ino -> InodeRec], NEW from \in Ino, NEW n \in Name, NEW to \in Ino,
           NEW n2 \in Name, NEW T2,
           T2 = [[T EXCEPT ![from].ents[n] = None] EXCEPT ![to].ents[n2] = T[from].ents[n]]
    PROVE  EntryMoved(T, T2, from, n, to, n2)
  <1>1. PICK T1 : T1 = [T EXCEPT ![from].ents[n] = None]
    OBVIOUS
  <1>2. PICK i \in Ino \cup {None} : i = T[from].ents[n]
    BY InodeFields
  <1>3. T2 = [T1 EXCEPT ![to].ents[n2] = i]
    BY <1>1, <1>2
  <1>4. EntrySet(T, T1, from, n, None, [j \in Ino |-> T[j].kind])
    BY <1>1, EntryIsSet
  <1>5. T1 \in [Ino -> InodeRec]
        /\ (\A j \in Ino, q \in Name :
              T1[j].ents[q] = IF j = from /\ q = n THEN None ELSE T[j].ents[q])
        /\ \A j \in Ino : T1[j].kind = T[j].kind
    BY <1>4 DEF EntrySet
  <1>6. EntrySet(T1, T2, to, n2, i, [j \in Ino |-> T1[j].kind])
    BY <1>3, <1>5, EntryIsSet
  <1>7. T2 \in [Ino -> InodeRec]
        /\ (\A j \in Ino, q \in Name :
              T2[j].ents[q] = IF j = to /\ q = n2 THEN i ELSE T1[j].ents[q])
        /\ \A j \in Ino : T2[j].kind = T1[j].kind
    BY <1>6 DEF EntrySet
  <1>8. \A j \in Ino, q \in Name :
          T2[j].ents[q] = IF j = to /\ q = n2 THEN T[from].ents[n]
                          ELSE IF j = from /\ q = n THEN None ELSE T[j].ents[q]
    <2> SUFFICES ASSUME NEW j \in Ino, NEW q \in Name
                 PROVE  T2[j].ents[q] = IF j = to /\ q = n2 THEN T[from].ents[n]
                                        ELSE IF j = from /\ q = n THEN None ELSE T[j].ents[q]
      OBVIOUS
    <2>1. T2[j].ents[q] = IF j = to /\ q = n2 THEN i ELSE T1[j].ents[q]
      BY <1>7
    <2>2. T1[j].ents[q] = IF j = from /\ q = n THEN None ELSE T[j].ents[q]
      BY <1>5
    <2> QED
      BY <1>2, <2>1, <2>2
  <1> QED
    BY <1>5, <1>7, <1>8 DEF EntryMoved

\* The names on the disk stay in order when a name moves to a directory that every set
\* of inodes closed under the names of T2 has.
LEMMA MovedDiskInv ==
    ASSUME NEW T, DiskInv(T), NEW from \in Ino, NEW n \in Name, NEW to \in Ino, NEW n2 \in Name,
           T[from].ents[n] # None, T[to].ents[n2] = None, T[to].kind # "NONE",
           NEW T2, EntryMoved(T, T2, from, n, to, n2),
           \A X \in SUBSET Ino :
             Root \in X /\ (\A j \in X, q \in Name : T2[j].ents[q] # None => T2[j].ents[q] \in X)
               => to \in X
    PROVE  DiskInv(T2)
  <1> USE NoneIsNoNumber
  <1>1. PICK i : i = T[from].ents[n]
    OBVIOUS
  <1>2. /\ T2 \in [Ino -> InodeRec]
        /\ \A j \in Ino, q \in Name :
             T2[j].ents[q] = IF j = to /\ q = n2 THEN i
                             ELSE IF j = from /\ q = n THEN None ELSE T[j].ents[q]
        /\ \A j \in Ino : T2[j].kind = T[j].kind
    BY <1>1 DEF EntryMoved
  <1>3. /\ T \in [Ino -> InodeRec]
        /\ T[Root].kind = "DIR"
        /\ \A j \in Ino : T[j].kind = "NONE" => T[j] = NoInode
    BY DEF DiskInv
  <1>4. \A j \in Ino, q \in Name : T[j].ents[q] # None =>
          T[j].ents[q] # Root /\ T[T[j].ents[q]].kind # "NONE"
    BY DEF DiskInv
  <1>5. \A j, k \in Ino, p, q \in Name :
          T[j].ents[p] # None /\ T[j].ents[p] = T[k].ents[q] => j = k /\ p = q
    BY DEF DiskInv
  <1>6. \A j \in Ino, q \in Name : T[j].ents[q] \in Ino \cup {None}
    BY <1>3, InodeFields
  <1>7. i \in Ino /\ i # None /\ ~(from = to /\ n = n2)
    BY <1>1, <1>6
  <1>8. \A j \in Ino, q \in Name : T2[j].ents[q] # None =>
          IF j = to /\ q = n2 THEN T2[j].ents[q] = i
          ELSE T2[j].ents[q] = T[j].ents[q] /\ T[j].ents[q] # i
    <2> SUFFICES ASSUME NEW j \in Ino, NEW q \in Name, T2[j].ents[q] # None,
                        ~(j = to /\ q = n2)
                 PROVE  T2[j].ents[q] = T[j].ents[q] /\ T[j].ents[q] # i
      BY <1>2
    <2>1. ~(j = from /\ q = n) /\ T2[j].ents[q] = T[j].ents[q]
      BY <1>2
    <2>2. T[j].ents[q] # None
      BY <2>1
    <2> QED
      BY <1>1, <1>5, <2>1, <2>2
  <1>9. \A j \in Ino, q \in Name : T2[j].ents[q] # None =>
          T2[j].ents[q] # Root /\ T2[T2[j].ents[q]].kind # "NONE"
    <2> SUFFICES ASSUME NEW j \in Ino, NEW q \in Name, T2[j].ents[q] # None
                 PROVE  T2[j].ents[q] # Root /\ T2[T2[j].ents[q]].kind # "NONE"
      OBVIOUS
    <2>1. PICK x : x = T2[j].ents[q]
      OBVIOUS
    <2>2. CASE j = to /\ q = n2
      <3>1. x = i
        BY <1>8, <2>1, <2>2
      <3>2. i # Root /\ T[i].kind # "NONE"
        BY <1>1, <1>4, <1>7
      <3> QED
        BY <1>2, <1>7, <2>1, <3>1, <3>2
    <2>3. CASE ~(j = to /\ q = n2)
      <3>1. x = T[j].ents[q]
        BY <1>8, <2>1, <2>3
      <3>2. x \in Ino
        BY <1>6, <2>1, <3>1
      <3>3. x # Root /\ T[x].kind # "NONE"
        BY <1>4, <2>1, <3>1
      <3> QED
        BY <1>2, <2>1, <3>2, <3>3
    <2> QED
      BY <2>2, <2>3
  <1>10. \A j \in Ino : T2[j].kind = "NONE" => T2[j] = NoInode
    <2> SUFFICES ASSUME NEW j \in Ino, T2[j].kind = "NONE" PROVE T2[j] = NoInode
      OBVIOUS
    <2>1. T[j] = NoInode
      BY <1>2, <1>3
    <2>2. \A q \in Name : T[j].ents[q] = None
      BY <2>1, NoInodeFields
    <2>3. j # to
      BY <2>1, NoInodeFields
    <2>4. \A q \in Name : T2[j].ents[q] = None
      BY <1>8, <2>2, <2>3
    <2> QED
      BY <1>2, <2>4, NoInodeIs
  <1>11. \A j, k \in Ino, p, q \in Name :
           T2[j].ents[p] # None /\ T2[j].ents[p] = T2[k].ents[q] => j = k /\ p = q
    <2>1. ASSUME NEW j \in Ino, NEW k \in Ino, NEW p \in Name, NEW q \in Name,
                 T2[j].ents[p] # None, T2[j].ents[p] = T2[k].ents[q]
          PROVE  j = k /\ p = q
      <3>1. CASE j = to /\ p = n2
        <4>1. T2[k].ents[q] = i
          BY <1>8, <2>1, <3>1
        <4>2. k = to /\ q = n2
          BY <1>7, <1>8, <4>1
        <4> QED
          BY <3>1, <4>2
      <3>2. CASE k = to /\ q = n2
        <4>1. T2[j].ents[p] = i
          BY <1>8, <2>1, <3>2
        <4>2. j = to /\ p = n2
          BY <1>7, <1>8, <4>1
        <4> QED
          BY <3>2, <4>2
      <3>3. CASE ~(j = to /\ p = n2) /\ ~(k = to /\ q = n2)
        <4>1. T2[j].ents[p] = T[j].ents[p]
          BY <1>8, <2>1, <3>3
        <4>2. T2[k].ents[q] = T[k].ents[q]
          BY <1>8, <2>1, <3>3
        <4>3. T[j].ents[p] # None /\ T[j].ents[p] = T[k].ents[q]
          BY <2>1, <4>1, <4>2
        <4>4. T[j].ents[p] # None /\ T[j].ents[p] = T[k].ents[q] => j = k /\ p = q
          BY <1>5
        <4> QED
          BY <4>3, <4>4
      <3> QED
        BY <3>1, <3>2, <3>3
    <2> QED
      BY ONLY <2>1
  <1>12. \A X \in SUBSET Ino :
           Root \in X /\ (\A j \in X, q \in Name : T2[j].ents[q] # None => T2[j].ents[q] \in X)
             => \A j \in Ino : T2[j].kind # "NONE" => j \in X
    <2> SUFFICES ASSUME NEW X \in SUBSET Ino, Root \in X,
                        \A j \in X, q \in Name : T2[j].ents[q] # None => T2[j].ents[q] \in X
                 PROVE  \A j \in Ino : T2[j].kind # "NONE" => j \in X
      OBVIOUS
    <2>1. to \in X
      OBVIOUS
    <2>2. i \in X
      BY <1>2, <1>7, <2>1
    <2>3. \A j \in X, q \in Name : T[j].ents[q] # None => T[j].ents[q] \in X
      <3> SUFFICES ASSUME NEW j \in X, NEW q \in Name, T[j].ents[q] # None
                   PROVE  T[j].ents[q] \in X
        OBVIOUS
      <3>1. CASE j = from /\ q = n
        BY <1>1, <2>2, <3>1
      <3>2. CASE ~(j = from /\ q = n)
        <4>1. ~(j = to /\ q = n2)
          OBVIOUS
        <4>2. T2[j].ents[q] = T[j].ents[q]
          BY <1>2, <3>2, <4>1
        <4> QED
          BY <4>2
      <3> QED
        BY <3>1, <3>2
    <2>4. \A j \in Ino : T[j].kind # "NONE" => j \in X
      BY <2>3 DEF DiskInv
    <2> QED
      BY <1>2, <2>4
  <1>13. T2[Root].kind = "DIR"
    BY <1>2, <1>3
  <1> QED
    BY <1>2, <1>9, <1>10, <1>11, <1>12, <1>13 DEF DiskInv

\* m2 is m with dentry k moved from at to the name n2 below parent.
Moved(m, m2, k, at, parent, n2) ==
    /\ m2 \in Memory
    /\ m2.vnode = m.vnode
    /\ m2.data = m.data
    /\ \A x \in Dentry : m2.dent[x].used = m.dent[x].used /\ m2.dent[x].node = m.dent[x].node
    /\ \A x \in Dentry : m2.dent[x].name = IF x = k THEN n2 ELSE m.dent[x].name
    /\ \A x \in Dentry : m2.dent[x].parent = IF x = k THEN parent ELSE m.dent[x].parent
    /\ \A x \in Dentry : \A y : y \in m2.dent[x].kids <=>
         IF y = k THEN x = parent \/ (x # at /\ k \in m.dent[x].kids) ELSE y \in m.dent[x].kids

\* detach_child, the new name and parent, and attach_child
LEMMA MoveIs ==
    ASSUME NEW m \in Memory, NEW k \in Dentry, NEW at \in Dentry, NEW parent \in Dentry,
           NEW n2 \in Name
    PROVE  Moved(m, Move(m, k, at, parent, n2), k, at, parent, n2)
  <1> USE NoneIsNoNumber
  <1>1. PICK f \in [Dentry -> DentryRec] : f = m.dent
    BY MemoryFields
  <1>2. PICK a \in DentryRec : a = f[at]
    BY <1>1
  <1> DEFINE a2 == [a EXCEPT !.kids = a.kids \ {k}]
             f1 == [f EXCEPT ![at] = a2]
  <1>3. /\ a2 \in DentryRec
        /\ a2.used = a.used /\ a2.name = a.name /\ a2.node = a.node
        /\ a2.parent = a.parent /\ a2.kids = a.kids \ {k}
    BY DEF DentryRec
  <1> HIDE DEF a2
  <1>4. f1 \in [Dentry -> DentryRec] /\ f1[at] = a2 /\ \A x \in Dentry \ {at} : f1[x] = f[x]
    BY <1>3
  <1> HIDE DEF f1
  <1>5. PICK b \in DentryRec : b = f1[k]
    BY <1>4
  <1> DEFINE b1 == [b EXCEPT !.name = n2]
             b2 == [b1 EXCEPT !.parent = parent]
             f2 == [f1 EXCEPT ![k] = b2]
  <1>6. /\ b1 \in DentryRec /\ b2 \in DentryRec
        /\ b2.used = b.used /\ b2.name = n2 /\ b2.node = b.node
        /\ b2.parent = parent /\ b2.kids = b.kids
    BY DEF DentryRec
  <1> HIDE DEF b1, b2
  <1>7. f2 \in [Dentry -> DentryRec] /\ f2[k] = b2 /\ \A x \in Dentry \ {k} : f2[x] = f1[x]
    BY <1>4, <1>6
  <1> HIDE DEF f2
  <1>8. PICK c \in DentryRec : c = f2[parent]
    BY <1>7
  <1> DEFINE c2 == [c EXCEPT !.kids = c.kids \cup {k}]
             f3 == [f2 EXCEPT ![parent] = c2]
  <1>9. /\ c2 \in DentryRec
        /\ c2.used = c.used /\ c2.name = c.name /\ c2.node = c.node
        /\ c2.parent = c.parent /\ c2.kids = c.kids \cup {k}
    BY DEF DentryRec
  <1> HIDE DEF c2
  <1>10. f3 \in [Dentry -> DentryRec] /\ f3[parent] = c2
         /\ \A x \in Dentry \ {parent} : f3[x] = f2[x]
    BY <1>7, <1>9
  <1> HIDE DEF f3
  <1> DEFINE m1 == [m EXCEPT !.dent = f1]
             m2 == [m EXCEPT !.dent = f2]
             m3 == [m EXCEPT !.dent = f3]
  <1>11. Move(m, k, at, parent, n2) = m3
    <2>1. Detach(m, k, at) = m1
      BY <1>1, <1>2 DEF Detach, Memory, f1, a2
    <2>2. m1.dent = f1 /\ m2.dent = f2
      BY DEF Memory
    <2>3. [m1 EXCEPT !.dent[k].name = n2, !.dent[k].parent = parent] = m2
      <3>1. [[f1 EXCEPT ![k].name = n2] EXCEPT ![k].parent = parent] = f2
        <4>1. [f1 EXCEPT ![k].name = n2] = [f1 EXCEPT ![k] = b1]
          BY <1>5 DEF b1
        <4>2. [[f1 EXCEPT ![k] = b1] EXCEPT ![k].parent = parent] = [f1 EXCEPT ![k] = b2]
          BY <1>4, <1>6 DEF b2
        <4> QED
          BY <4>1, <4>2 DEF f2
      <3> QED
        BY <2>2, <3>1 DEF Memory
    <2>4. [m2 EXCEPT !.dent[parent].kids = @ \cup {k}] = m3
      <3>1. [f2 EXCEPT ![parent].kids = @ \cup {k}] = f3
        BY <1>8 DEF c2, f3
      <3> QED
        BY <2>2, <3>1 DEF Memory
    <2> QED
      BY <2>1, <2>3, <2>4 DEF Move, Attach
  <1>12. PICK mm : mm = m3
    OBVIOUS
  <1>13. mm \in Memory /\ mm.vnode = m.vnode /\ mm.data = m.data /\ mm.dent = f3
    BY <1>10, <1>12 DEF Memory
  <1>14. \A x \in Dentry : f1[x].used = f[x].used /\ f1[x].node = f[x].node
                           /\ f1[x].name = f[x].name /\ f1[x].parent = f[x].parent
                           /\ f1[x].kids = IF x = at THEN f[x].kids \ {k} ELSE f[x].kids
    BY <1>2, <1>3, <1>4
  <1>15. \A x \in Dentry : f2[x].used = f1[x].used /\ f2[x].node = f1[x].node
                           /\ f2[x].name = (IF x = k THEN n2 ELSE f1[x].name)
                           /\ f2[x].parent = (IF x = k THEN parent ELSE f1[x].parent)
                           /\ f2[x].kids = f1[x].kids
    BY <1>5, <1>6, <1>7
  <1>16. \A x \in Dentry : f3[x].used = f2[x].used /\ f3[x].node = f2[x].node
                           /\ f3[x].name = f2[x].name /\ f3[x].parent = f2[x].parent
                           /\ f3[x].kids = IF x = parent THEN f2[x].kids \cup {k} ELSE f2[x].kids
    BY <1>8, <1>9, <1>10
  <1>17. \A x \in Dentry : f3[x].used = f[x].used /\ f3[x].node = f[x].node
    BY <1>14, <1>15, <1>16
  <1>18. \A x \in Dentry : f3[x].name = IF x = k THEN n2 ELSE f[x].name
    BY <1>14, <1>15, <1>16
  <1>19. \A x \in Dentry : f3[x].parent = IF x = k THEN parent ELSE f[x].parent
    BY <1>14, <1>15, <1>16
  <1>20. \A x \in Dentry : \A y : y \in f3[x].kids <=>
           IF y = k THEN x = parent \/ (x # at /\ k \in f[x].kids) ELSE y \in f[x].kids
    <2> SUFFICES ASSUME NEW x \in Dentry, NEW y
                 PROVE  y \in f3[x].kids <=>
                          IF y = k THEN x = parent \/ (x # at /\ k \in f[x].kids)
                                   ELSE y \in f[x].kids
      OBVIOUS
    <2>1. f1[x].kids = IF x = at THEN f[x].kids \ {k} ELSE f[x].kids
      BY <1>14
    <2>2. f3[x].kids = IF x = parent THEN f1[x].kids \cup {k} ELSE f1[x].kids
      BY <1>15, <1>16
    <2> QED
      BY ONLY <2>1, <2>2
  <1>21. Moved(m, mm, k, at, parent, n2)
    BY <1>1, <1>13, <1>17, <1>18, <1>19, <1>20 DEF Moved
  <1> QED
    BY <1>11, <1>12, <1>21

\* The pools stay in order, and all dentries keep their nodes and inodes.
LEMMA MovedPool ==
    ASSUME NEW m, NEW r, PoolInv(m, r), NEW at \in Dentry, NEW k \in m.dent[at].kids,
           NEW parent \in Dentry, m.dent[parent].used, NEW n2 \in Name,
           NEW m2, Moved(m, m2, k, at, parent, n2)
    PROVE  /\ PoolInv(m2, r)
           /\ \A x \in Dentry : InoOf(m2, x) = InoOf(m, x)
           /\ \A x \in Dentry : \A y : y \in m2.dent[x].kids <=>
                IF y = k THEN x = parent ELSE y \in m.dent[x].kids
  <1> USE NoneIsNoNumber
  <1>1. m \in Memory /\ m2 \in Memory /\ k \in Dentry /\ k \notin Roots(r)
    BY PoolFacts DEF PoolInv, Moved
  <1>2. /\ m2.vnode = m.vnode
        /\ m2.data = m.data
        /\ \A x \in Dentry : m2.dent[x].used = m.dent[x].used /\ m2.dent[x].node = m.dent[x].node
        /\ \A x \in Dentry : m2.dent[x].name = IF x = k THEN n2 ELSE m.dent[x].name
        /\ \A x \in Dentry : m2.dent[x].parent = IF x = k THEN parent ELSE m.dent[x].parent
    BY DEF Moved
  <1>p. \A x \in Dentry : \A y \in m.dent[x].kids :
          m.dent[y].used /\ m.dent[y].parent = x /\ m.dent[y].name \in Name
    BY DEF PoolInv
  <1>3. \A x \in Dentry : \A y : y \in m2.dent[x].kids <=>
          IF y = k THEN x = parent ELSE y \in m.dent[x].kids
    <2>1. \A x \in Dentry : k \in m.dent[x].kids => x = at
      <3>1. m.dent[k].parent = at
        BY <1>p
      <3>2. \A x \in Dentry : k \in m.dent[x].kids => m.dent[k].parent = x
        BY <1>p
      <3> QED
        BY <3>1, <3>2
    <2>2. \A x \in Dentry : \A y : y \in m2.dent[x].kids <=>
            IF y = k THEN x = parent \/ (x # at /\ k \in m.dent[x].kids) ELSE y \in m.dent[x].kids
      BY DEF Moved
    <2> QED
      BY <2>1, <2>2
  <1>4. \A x \in Dentry : InoOf(m2, x) = InoOf(m, x)
    BY <1>2 DEF InoOf
  <1>5. \A d \in Dentry : ~m2.dent[d].used => m2.dent[d] = FreeDentry
    <2> SUFFICES ASSUME NEW d \in Dentry, ~m2.dent[d].used PROVE m2.dent[d] = FreeDentry
      OBVIOUS
    <2>1. ~m.dent[d].used
      BY <1>2
    <2>2. m.dent[d] = FreeDentry
      BY <2>1 DEF PoolInv
    <2>3. d # k /\ d # parent
      BY <1>p, <2>1
    <2>4. m2.dent[d].kids = m.dent[d].kids
      <3>1. \A y : y \in m2.dent[d].kids <=> y \in m.dent[d].kids
        <4>1. \A y : y \in m2.dent[d].kids <=> IF y = k THEN d = parent ELSE y \in m.dent[d].kids
          BY <1>3
        <4>2. k \notin m.dent[d].kids
          BY <2>1, PoolFacts
        <4> QED
          BY <2>3, <4>1, <4>2
      <3>2. m2.dent[d].kids \in SUBSET Dentry /\ m.dent[d].kids \in SUBSET Dentry
        BY <1>1, MemoryFields
      <3> QED
        BY <3>1, <3>2
    <2>a. m2.dent \in [Dentry -> DentryRec]
      BY <1>1, MemoryFields
    <2>5. PICK x \in DentryRec : x = m2.dent[d]
      BY <2>a
    <2>6. PICK f \in DentryRec : f = FreeDentry
      BY <1>1, <2>2, MemoryFields
    <2>7. x.used = f.used /\ x.name = f.name /\ x.node = f.node /\ x.parent = f.parent
          /\ x.kids = f.kids
      BY <1>2, <2>2, <2>3, <2>4, <2>5, <2>6
    <2>8. x = f
      BY <2>7 DEF DentryRec
    <2> QED
      BY <2>5, <2>6, <2>8
  <1>6. \A d \in Dentry : \A kid \in m2.dent[d].kids :
          m2.dent[kid].used /\ m2.dent[kid].parent = d /\ m2.dent[kid].name \in Name
    <2> SUFFICES ASSUME NEW d \in Dentry, NEW kid \in m2.dent[d].kids
                 PROVE  m2.dent[kid].used /\ m2.dent[kid].parent = d /\ m2.dent[kid].name \in Name
      OBVIOUS
    <2>1. CASE kid = k
      BY <1>1, <1>2, <1>3, <1>p, <2>1
    <2>2. CASE kid # k
      <3>1. kid \in m.dent[d].kids
        BY <1>3, <2>2
      <3>2. kid \in Dentry
        BY <3>1, PoolFacts
      <3> QED
        BY <1>2, <1>p, <2>2, <3>1, <3>2
    <2> QED
      BY <2>1, <2>2
  <1>7. 1 # k /\ (r # None => r # k)
    BY <1>1 DEF Roots
  <1>8. m2.dent[1].used /\ m2.dent[1].node = None /\ m2.dent[1].parent = None
    <2>1. m.dent[1].used /\ m.dent[1].node = None /\ m.dent[1].parent = None
      BY DEF PoolInv
    <2> QED
      BY <1>2, <1>7, <2>1
  <1>9. r # None => r \in Dentry \ {1} /\ m2.dent[r].used /\ m2.dent[r].parent = None
    <2>1. r # None => r \in Dentry \ {1} /\ m.dent[r].used /\ m.dent[r].parent = None
      BY DEF PoolInv
    <2> QED
      BY <1>2, <1>7, <2>1
  <1>10. \A d \in Dentry : m2.dent[d].node # None => m2.vnode[m2.dent[d].node] # None
    <2>1. \A d \in Dentry : m.dent[d].node # None => m.vnode[m.dent[d].node] # None
      BY DEF PoolInv
    <2> QED
      BY <1>2, <2>1
  <1>11. \A d, e \in Dentry : m2.dent[d].node # None /\ m2.dent[d].node = m2.dent[e].node => d = e
    <2>1. \A d, e \in Dentry : m.dent[d].node # None /\ m.dent[d].node = m.dent[e].node => d = e
      BY DEF PoolInv
    <2> QED
      BY <1>2, <2>1
  <1>12. \A v \in Vnode : m2.vnode[v] # None =>
           m2.data[m2.vnode[v]] # None /\ \E d \in Dentry : m2.dent[d].node = v
    <2>1. \A v \in Vnode : m.vnode[v] # None =>
            m.data[m.vnode[v]] # None /\ \E d \in Dentry : m.dent[d].node = v
      BY DEF PoolInv
    <2> QED
      BY <1>2, <2>1
  <1>13. \A u, v \in Vnode : m2.vnode[u] # None /\ m2.vnode[u] = m2.vnode[v] => u = v
    <2>1. \A u, v \in Vnode : m.vnode[u] # None /\ m.vnode[u] = m.vnode[v] => u = v
      BY DEF PoolInv
    <2> QED
      BY <1>2, <2>1
  <1>14. PoolInv(m2, r)
    BY <1>1, <1>5, <1>6, <1>8, <1>9, <1>10, <1>11, <1>12, <1>13 DEF PoolInv
  <1> QED
    BY <1>3, <1>4, <1>14

\* The same dentries are below the roots when the new parent is not below the dentry.
LEMMA MovedLive ==
    ASSUME NEW m, NEW r, PoolInv(m, r), NEW at \in Live(m, r), NEW k \in m.dent[at].kids,
           NEW parent \in Live(m, r), k \notin Ancestors(m, parent), NEW n2 \in Name,
           NEW m2, Moved(m, m2, k, at, parent, n2)
    PROVE  Live(m2, r) = Live(m, r) /\ LiveOrFree(m2, r) = LiveOrFree(m, r)
  <1> USE NoneIsNoNumber
  <1>1. at \in Dentry /\ parent \in Dentry /\ m.dent[parent].used /\ k \in Dentry
        /\ m \in Memory
    BY PoolFacts DEF PoolInv
  <1>2. PoolInv(m2, r)
        /\ \A x \in Dentry : \A y : y \in m2.dent[x].kids <=>
             IF y = k THEN x = parent ELSE y \in m.dent[x].kids
    <2>1. PoolInv(m2, r)
      BY <1>1, MovedPool
    <2>2. \A x \in Dentry : \A y : y \in m2.dent[x].kids <=>
            IF y = k THEN x = parent ELSE y \in m.dent[x].kids
      BY <1>1, MovedPool
    <2> QED
      BY <2>1, <2>2
  <1>3. Live(m, r) \subseteq Dentry /\ Live(m2, r) \subseteq Dentry
        /\ Lists(m, r) /\ Lists(m2, r)
    BY <1>2, PoolFacts
  <1>4. k \in Live(m, r)
    BY <1>3, LiveFacts
  <1>5. Live(m2, r) \subseteq Live(m, r)
    <2>1. PICK Y \in SUBSET Dentry : Y = Live(m, r)
      BY <1>3
    <2>2. Roots(r) \subseteq Y
      BY <1>3, <2>1, LiveFacts
    <2>3. \A x \in Y : m2.dent[x].kids \subseteq Y
      <3> SUFFICES ASSUME NEW x \in Y, NEW y \in m2.dent[x].kids PROVE y \in Y
        OBVIOUS
      <3>1. x \in Dentry /\ x \in Live(m, r)
        BY <2>1
      <3>2. m.dent[x].kids \subseteq Live(m, r)
        BY <1>3, <3>1, LiveFacts
      <3>3. y = k \/ y \in m.dent[x].kids
        BY <1>2, <3>1
      <3> QED
        BY <1>4, <2>1, <3>2, <3>3
    <2> QED
      BY <2>1, <2>2, <2>3, LiveLeast
  <1>6. parent \in Live(m2, r)
    <2>1. PICK A : A = Ancestors(m, parent)
      OBVIOUS
    <2>2. parent \in A /\ k \notin A
          /\ \A x \in A \cap Dentry : m.dent[x].parent # None => m.dent[x].parent \in A
      BY <1>1, <2>1, AncestorsFacts
    <2>3. PICK Y \in SUBSET Dentry : Y = {d \in Live(m, r) : d \in A => d \in Live(m2, r)}
      BY <1>3
    <2>4. Roots(r) \subseteq Y
      BY <1>3, <2>3, LiveFacts
    <2>5. \A x \in Y : m.dent[x].kids \subseteq Y
      <3> SUFFICES ASSUME NEW x \in Y, NEW y \in m.dent[x].kids PROVE y \in Y
        OBVIOUS
      <3>1. x \in Dentry /\ x \in Live(m, r)
        BY <2>3
      <3>2. y \in Live(m, r) /\ y \in Dentry
        BY <1>3, <3>1, LiveFacts
      <3>3. ASSUME y \in A PROVE y \in Live(m2, r)
        <4>1. m.dent[y].parent = x
          BY <3>1 DEF PoolInv
        <4>2. x \in A
          BY <2>2, <3>1, <3>2, <3>3, <4>1
        <4>3. x \in Live(m2, r)
          BY <2>3, <4>2
        <4>4. y # k
          BY <2>2, <3>3
        <4>5. y \in m2.dent[x].kids
          BY <1>2, <3>1, <4>4
        <4> QED
          BY <1>3, <4>3, <4>5, LiveFacts
      <3> QED
        BY <2>3, <3>2, <3>3
    <2>6. Live(m, r) \subseteq Y
      BY <2>4, <2>5, LiveLeast
    <2> QED
      BY <2>2, <2>3, <2>6
  <1>7. Live(m, r) \subseteq Live(m2, r)
    <2>1. PICK Y \in SUBSET Dentry : Y = Live(m2, r)
      BY <1>3
    <2>2. Roots(r) \subseteq Y
      BY <1>3, <2>1, LiveFacts
    <2>3. k \in Y
      <3>1. k \in m2.dent[parent].kids
        BY <1>1, <1>2
      <3> QED
        BY <1>3, <1>6, <2>1, <3>1, LiveFacts
    <2>4. \A x \in Y : m.dent[x].kids \subseteq Y
      <3> SUFFICES ASSUME NEW x \in Y, NEW y \in m.dent[x].kids, y # k PROVE y \in Y
        BY <2>3
      <3>1. x \in Dentry /\ x \in Live(m2, r)
        BY <2>1
      <3>2. y \in m2.dent[x].kids
        BY <1>2, <3>1
      <3> QED
        BY <1>3, <2>1, <3>1, <3>2, LiveFacts
    <2> QED
      BY <2>1, <2>2, <2>4, LiveLeast
  <1>8. Live(m2, r) = Live(m, r)
    BY <1>5, <1>7
  <1>9. FreeDentries(m2) = FreeDentries(m)
    BY DEF FreeDentries, Moved
  <1> QED
    BY <1>8, <1>9 DEF LiveOrFree

\* The cache agrees with the disk on which the same name has moved.
LEMMA MovedCache ==
    ASSUME NEW m, NEW r, NEW T, PoolInv(m, r), CacheInv(m, r, T), DiskInv(T),
           NEW at \in Live(m, r) \ {1}, NEW k \in m.dent[at].kids, NEW n, n = m.dent[k].name,
           NEW parent \in Live(m, r) \ {1}, k \notin Ancestors(m, parent), NEW n2 \in Name,
           NEW m2, Moved(m, m2, k, at, parent, n2), NEW from, from = Expected(m, r, at),
           NEW to, to = Expected(m, r, parent), T[to].ents[n2] = None,
           NEW T2, EntryMoved(T, T2, from, n, to, n2)
    PROVE  CacheInv(m2, r, T2)
  <1> USE NoneIsNoNumber
  <1>a. at \in Live(m, r) /\ parent \in Live(m, r)
    OBVIOUS
  <1>1. /\ at \in Dentry /\ parent \in Dentry /\ m.dent[parent].used /\ k \in Dentry
        /\ Live(m, r) \subseteq Dentry /\ k \notin Roots(r)
    BY <1>a, PoolFacts
  <1>2. /\ \A x \in Dentry : InoOf(m2, x) = InoOf(m, x)
        /\ \A x \in Dentry : \A y : y \in m2.dent[x].kids <=>
             IF y = k THEN x = parent ELSE y \in m.dent[x].kids
    BY <1>1, MovedPool
  <1>3. Live(m2, r) = Live(m, r)
    BY <1>a, MovedLive
  <1>4. \A x \in Dentry : m2.dent[x].name = IF x = k THEN n2 ELSE m.dent[x].name
    BY DEF Moved
  <1>5. \A x \in Dentry : Expected(m2, r, x) = Expected(m, r, x)
    BY <1>2 DEF Expected
  <1>6. InoOf(m, k) = T[from].ents[n] /\ InoOf(m, k) # None
        /\ from \in Ino /\ to \in Ino /\ n \in Name
    BY CacheFacts
  <1>7. \A d \in Live(m2, r) \ {1} : Expected(m2, r, d) # None
    BY <1>1, <1>3, <1>5 DEF CacheInv
  <1>8. \A d \in Live(m2, r) \ {1} : \A kid \in m2.dent[d].kids :
          InoOf(m2, kid) = T2[Expected(m2, r, d)].ents[m2.dent[kid].name]
    <2> SUFFICES ASSUME NEW d \in Live(m, r) \ {1}, NEW kid \in m2.dent[d].kids
                 PROVE  InoOf(m2, kid) = T2[Expected(m2, r, d)].ents[m2.dent[kid].name]
      BY <1>3
    <2>1. d \in Dentry
      BY <1>1
    <2>2. CASE kid = k
      <3>1. d = parent
        BY <1>2, <2>1, <2>2
      <3>2. T2[to].ents[n2] = T[from].ents[n]
        BY <1>6 DEF EntryMoved
      <3> QED
        BY <1>1, <1>2, <1>4, <1>5, <1>6, <2>2, <3>1, <3>2
    <2>3. CASE kid # k
      <3>1. kid \in m.dent[d].kids
        BY <1>2, <2>1, <2>3
      <3>2. PICK j \in Ino, q \in Name : j = Expected(m, r, d) /\ q = m.dent[kid].name
        BY <3>1, CacheFacts
      <3>3. InoOf(m, kid) = T[j].ents[q] /\ InoOf(m, kid) # None /\ kid \in Dentry
        <4>1. kid \in Live(m, r)
          BY <3>1, CacheFacts
        <4> QED
          BY <1>1, <3>1, <3>2, <4>1, CacheFacts
      <3>4. ~(j = to /\ q = n2)
        BY <3>3
      <3>5. ~(j = from /\ q = n)
        <4>1. j = from => d = at
          BY <3>2 DEF CacheInv
        <4>2. \A x, y \in m.dent[at].kids : m.dent[x].name = m.dent[y].name => x = y
          BY CacheFacts
        <4> QED
          BY <2>3, <3>1, <3>2, <4>1, <4>2
      <3>6. T2[j].ents[q] = T[j].ents[q]
        BY <3>4, <3>5 DEF EntryMoved
      <3>7. m2.dent[kid].name = q
        BY <1>4, <2>3, <3>2, <3>3
      <3> QED
        BY <1>2, <1>5, <2>1, <3>2, <3>3, <3>6, <3>7
    <2> QED
      BY <2>2, <2>3
  <1>9. \A d, e \in Live(m2, r) \ {1} : Expected(m2, r, d) = Expected(m2, r, e) => d = e
    <2>1. \A d, e \in Live(m, r) \ {1} : Expected(m, r, d) = Expected(m, r, e) => d = e
      BY DEF CacheInv
    <2> QED
      BY <1>1, <1>3, <1>5, <2>1
  <1>10. \A kid \in m2.dent[1].kids : InoOf(m2, kid) = Root /\ r = None
    <2> SUFFICES ASSUME NEW kid \in m2.dent[1].kids PROVE InoOf(m2, kid) = Root /\ r = None
      OBVIOUS
    <2>1. kid # k /\ kid \in m.dent[1].kids
      BY <1>2
    <2>2. kid \in Dentry
      BY <2>1, PoolFacts
    <2>3. InoOf(m, kid) = Root /\ r = None
      BY <2>1 DEF CacheInv
    <2> QED
      BY <1>2, <2>2, <2>3
  <1>11. r # None => InoOf(m2, r) \in {Root, None}
    <2>1. r # None => InoOf(m, r) \in {Root, None} /\ r \in Dentry
      BY DEF CacheInv, PoolInv
    <2> QED
      BY <1>2, <2>1
  <1> QED
    BY <1>7, <1>8, <1>9, <1>10, <1>11 DEF CacheInv

\* The new directory stays below the root of the disk: its path is in the cache, and the
\* dentry that moves is not on it.
LEMMA ParentStaysBelowRoot ==
    ASSUME NEW m, NEW r, NEW T, PoolInv(m, r), CacheInv(m, r, T), DiskInv(T),
           NEW at \in Live(m, r) \ {1}, NEW n, NEW parent \in Live(m, r) \ {1}, NEW n2 \in Name,
           NEW from, from = Expected(m, r, at), NEW to, to = Expected(m, r, parent),
           \A c \in m.dent[at].kids : m.dent[c].name = n => c \notin Ancestors(m, parent),
           NEW T2, EntryMoved(T, T2, from, n, to, n2), T[to].ents[n2] = None
    PROVE  \A X \in SUBSET Ino :
             Root \in X /\ (\A j \in X, q \in Name : T2[j].ents[q] # None => T2[j].ents[q] \in X)
               => to \in X
  <1> USE NoneIsNoNumber
  <1> SUFFICES ASSUME NEW X \in SUBSET Ino, Root \in X,
                      \A j \in X, q \in Name : T2[j].ents[q] # None => T2[j].ents[q] \in X
               PROVE  to \in X
    OBVIOUS
  <1>1. /\ at \in Dentry /\ parent \in Dentry /\ m \in Memory /\ Lists(m, r)
        /\ Live(m, r) \subseteq Dentry /\ parent \in Live(m, r)
    <2>1. parent \in Live(m, r) /\ at \in Live(m, r)
      OBVIOUS
    <2> QED
      BY <2>1, PoolFacts DEF PoolInv
  <1>2. PICK A : A = Ancestors(m, parent)
    OBVIOUS
  <1>3. parent \in A
        /\ \A x \in A \cap Dentry : m.dent[x].parent # None => m.dent[x].parent \in A
    BY <1>1, <1>2, AncestorsFacts
  <1>4. PICK Y \in SUBSET Dentry :
          Y = {d \in Live(m, r) : d \in A /\ d # 1 => Expected(m, r, d) \in X}
    BY <1>1
  <1>5. Roots(r) \subseteq Y
    <2>1. Roots(r) \subseteq Live(m, r)
      BY <1>1, LiveFacts
    <2>2. r # None => Expected(m, r, r) = Root
      BY DEF Expected
    <2> QED
      BY <1>4, <2>1, <2>2 DEF Roots
  <1>6. \A d \in Y : m.dent[d].kids \subseteq Y
    <2> SUFFICES ASSUME NEW d \in Y, NEW c \in m.dent[d].kids PROVE c \in Y
      OBVIOUS
    <2>1. d \in Dentry /\ d \in Live(m, r)
      BY <1>4
    <2>2. c \in Live(m, r) \ {1} /\ c \in Dentry /\ c \in Live(m, r)
      <3>1. d \in LiveOrFree(m, r)
        BY <2>1 DEF LiveOrFree
      <3> QED
        BY <1>1, <3>1, PoolFacts
    <2>3. ASSUME c \in A PROVE Expected(m, r, c) \in X
      <3>1. m.dent[c].parent = d
        BY <2>1 DEF PoolInv
      <3>2. d \in A
        BY <1>3, <2>1, <2>2, <2>3, <3>1
      <3>3. c # r
        <4>1. c \notin Roots(r)
          BY <2>1, PoolFacts
        <4> QED
          BY <2>2, <4>1 DEF Roots
      <3>4. Expected(m, r, c) = InoOf(m, c)
        BY <3>3 DEF Expected
      <3>5. CASE d = 1
        BY <3>4, <3>5 DEF CacheInv
      <3>6. CASE d # 1
        <4>1. d \in Live(m, r) \ {1} /\ Expected(m, r, d) \in X
          BY <1>4, <2>1, <3>2, <3>6
        <4>2. PICK j \in Ino, q \in Name : j = Expected(m, r, d) /\ q = m.dent[c].name
          BY <4>1, CacheFacts
        <4>3. InoOf(m, c) = T[j].ents[q] /\ InoOf(m, c) # None
          BY <4>1, <4>2, CacheFacts
        <4>4. ~(j = to /\ q = n2)
          BY <4>3
        <4>5. ~(j = from /\ q = n)
          <5>1. j = from => d = at
            BY <4>1, <4>2 DEF CacheInv
          <5> QED
            BY <1>2, <2>3, <4>2, <5>1
        <4>6. T2[j].ents[q] = T[j].ents[q]
          BY <4>4, <4>5 DEF EntryMoved
        <4> QED
          BY <3>4, <4>1, <4>2, <4>3, <4>6
      <3> QED
        BY <3>5, <3>6
    <2> QED
      BY <1>4, <2>2, <2>3
  <1>7. Live(m, r) \subseteq Y
    BY <1>5, <1>6, LiveLeast
  <1> QED
    BY <1>1, <1>3, <1>4, <1>7

\* vfs_rename, unless a name is renamed to itself
LEMMA RenameInv ==
    ASSUME ~SelfRename, Inv, NEW p \in Path, NEW q \in Path, Rename(p, q)
    PROVE  Inv'
  <1> USE NoneIsNoNumber
  <1>1. PICK w1 : w1 = ResolveParent(mem, p)
    OBVIOUS
  <1>2. PICK w2 : w2 = ResolveParent(w1.m, q)
    OBVIOUS
  <1>3. PICK n, n2 : n = Last(p.names) /\ n2 = Last(q.names)
    OBVIOUS
  <1>4. PICK r : r = ns["nyfs"]
    OBVIOUS
  <1>5. PICK m, at, parent : m = w2.m /\ at = w1.at /\ parent = w2.at
    OBVIOUS
  <1>6. n \in Name /\ n2 \in Name /\ p.ns = q.ns
    BY <1>3, RootOf DEF Rename
  <1>7. w1 \in Walks(mem, r, ns[p.ns])
    BY <1>1, <1>4, ResolveKeeps
  <1>8. PoolInv(w1.m, r) /\ CacheInv(w1.m, r, tree) /\ Keeps(mem, w1.m, r) /\ w1.m \in Memory
        /\ (w1.ok => at \in LiveOrFree(w1.m, r))
    BY <1>5, <1>7 DEF Walks
  <1>9. DiskInv(tree) /\ mem \in Memory
    BY DEF Inv, PoolInv
  <1>10. w2 \in Walks(w1.m, r, ns[q.ns])
    <2>1. PICK root : root = ns[q.ns]
      OBVIOUS
    <2>2. root \in {None} \cup LiveOrFree(w1.m, r)
      BY <1>4, <1>8, <2>1, RootOf DEF Keeps
    <2>3. Front(q.names) \in Seq(Name)
      BY RootOf
    <2>4. Walk(w1.m, root, Front(q.names)) \in Walks(w1.m, r, root)
      BY <1>8, <1>9, <2>2, <2>3, WalkKeeps
    <2> QED
      BY <1>2, <2>1, <2>4 DEF ResolveParent
  <1>11. PoolInv(m, r) /\ CacheInv(m, r, tree) /\ Keeps(w1.m, m, r) /\ m \in Memory
         /\ (w2.ok => parent \in LiveOrFree(m, r))
    BY <1>5, <1>10 DEF Walks
  <1>12. Keeps(mem, m, r)
    BY <1>8, <1>9, <1>11, KeepsTrans
  <1>13. CASE GivesUp(w1)
    BY <1>4, <1>7, <1>13, GivesUpInv
  <1>14. CASE GivesUp(w2)
    <2>1. mem' = m /\ UNCHANGED <<ns, vol, tree, birth, handles, mounts>>
      BY <1>5, <1>14 DEF GivesUp
    <2> QED
      BY <1>4, <1>11, <1>12, <2>1, GivesUpKeeps
  <1>15. CASE ~GivesUp(w1) /\ ~GivesUp(w2)
    <2>1. PICK k, from, to : k = Child(m, at, n) /\ from = InoOf(m, at) /\ to = InoOf(m, parent)
      OBVIOUS
    <2>2. /\ w1.ok /\ w2.ok /\ ~BelowItself(m, k, parent) /\ DriverRenames(m, at, n, parent, n2)
          /\ ~(at = parent /\ n = n2)
          /\ tree' = [[tree EXCEPT ![from].ents[n] = None]
                             EXCEPT ![to].ents[n2] = tree[from].ents[n]]
          /\ mem' = Move(Forget(m, parent, n2), k, at, parent, n2)
          /\ UNCHANGED <<ns, vol, birth, handles, mounts>>
      BY <1>1, <1>2, <1>3, <1>5, <1>15, <2>1 DEF Rename
    <2>3. /\ from # None /\ to # None /\ tree[to].kind = "DIR" /\ tree[from].ents[n] # None
          /\ \/ from = to /\ n = n2
             \/ tree[from].ents[n] # to /\ tree[to].ents[n2] = None
      BY <2>1, <2>2 DEF DriverRenames, IsDir
    <2>4. /\ at \in Live(m, r) \ {1} /\ at \in Live(m, r) /\ at \in Dentry
          /\ parent \in Live(m, r) \ {1} /\ parent \in Live(m, r) /\ parent \in Dentry
      <3>1. at \in LiveOrFree(m, r) /\ parent \in LiveOrFree(m, r)
        BY <1>8, <1>11, <2>2 DEF Keeps
      <3> QED
        BY <1>11, <2>1, <2>3, <3>1, PoolFacts
    <2>5. /\ from = Expected(m, r, at) /\ to = Expected(m, r, parent)
          /\ from \in Ino /\ to \in Ino
      BY <1>9, <1>11, <2>1, <2>3, <2>4, CacheFacts
    <2>6. tree[to].ents[n2] = None /\ tree[from].ents[n] # None /\ tree[to].kind # "NONE"
      <3>1. from = to => at = parent
        BY <1>11, <2>4, <2>5 DEF CacheInv
      <3> QED
        BY <2>2, <2>3, <3>1
    <2>7. \A c \in m.dent[parent].kids : m.dent[c].name # n2
      <3> SUFFICES ASSUME NEW c \in m.dent[parent].kids, m.dent[c].name = n2 PROVE FALSE
        OBVIOUS
      <3>1. InoOf(m, c) = tree[Expected(m, r, parent)].ents[m.dent[c].name] /\ InoOf(m, c) # None
        BY <1>9, <1>11, <2>4, CacheFacts
      <3> QED
        BY <2>5, <2>6, <3>1
    <2>8. mem' = Move(m, k, at, parent, n2)
      <3>1. Child(m, parent, n2) = None
        BY <2>7 DEF Child
      <3>2. Forget(m, parent, n2) = m
        BY <3>1 DEF Forget
      <3> QED
        BY <2>2, <3>2
    <2>9. EntryMoved(tree, tree', from, n, to, n2)
      <3>1. tree \in [Ino -> InodeRec]
        BY <1>9 DEF DiskInv
      <3> QED
        BY <1>6, <2>2, <2>5, <3>1, RenameOnDisk
    <2>10. k # None => k \in m.dent[at].kids /\ m.dent[k].name = n /\ k \in Dentry
                       /\ k \notin Ancestors(m, parent)
      <3>1. m.dent[at].kids \subseteq Dentry
        BY <1>11, <2>4, MemoryFields
      <3>2. k # None => k \in m.dent[at].kids /\ m.dent[k].name = n
        BY <2>1, <3>1, ChildFacts
      <3> QED
        BY <2>2, <3>1, <3>2 DEF BelowItself
    <2>11. \A c \in m.dent[at].kids : m.dent[c].name = n => c \notin Ancestors(m, parent)
      <3> SUFFICES ASSUME NEW c \in m.dent[at].kids, m.dent[c].name = n
                   PROVE  c \notin Ancestors(m, parent)
        OBVIOUS
      <3>1. m.dent[at].kids \subseteq Dentry
        BY <1>11, <2>4, MemoryFields
      <3>2. k # None
        <4>1. Child(m, at, n) = None => \A x \in m.dent[at].kids : m.dent[x].name # n
          BY <3>1, ChildFacts
        <4> QED
          BY <2>1, <4>1
      <3>3. \A x, y \in m.dent[at].kids : m.dent[x].name = m.dent[y].name => x = y
        BY <1>9, <1>11, <2>4, CacheFacts
      <3>4. c = k
        BY <2>10, <3>2, <3>3
      <3> QED
        BY <2>10, <3>2, <3>4
    <2>12. PICK T2 : T2 = tree'
      OBVIOUS
    <2>13. EntryMoved(tree, T2, from, n, to, n2)
      BY ONLY <2>9, <2>12
    <2>14. DiskInv(tree')
      <3>1. \A X \in SUBSET Ino :
              Root \in X /\ (\A j \in X, x \in Name : T2[j].ents[x] # None => T2[j].ents[x] \in X)
                => to \in X
        <4>1. PoolInv(m, r) /\ CacheInv(m, r, tree) /\ DiskInv(tree)
          BY <1>9, <1>11
        <4>2. at \in Live(m, r) \ {1} /\ parent \in Live(m, r) \ {1} /\ n2 \in Name
          BY <1>6, <2>4
        <4>3. from = Expected(m, r, at) /\ to = Expected(m, r, parent) /\ tree[to].ents[n2] = None
          BY <2>5, <2>6
        <4> QED
          BY ONLY <2>11, <2>13, <4>1, <4>2, <4>3, ParentStaysBelowRoot
      <3>2. DiskInv(T2)
        BY <1>6, <1>9, <2>5, <2>6, <2>13, <3>1, MovedDiskInv
      <3> QED
        BY ONLY <2>12, <3>2
    <2> DEFINE New(m2) ==
                 /\ PoolInv(m2, r) /\ CacheInv(m2, r, T2)
                 /\ LiveOrFree(m, r) \subseteq LiveOrFree(m2, r)
                 /\ KeepsNodes(m, m2)
    <2>15. New(mem')
      <3>1. CASE k = None
        <4>1. mem' = m
          BY <2>8, <3>1 DEF Move
        <4>2. \A c \in m.dent[at].kids : m.dent[c].name # n
          <5>1. m.dent[at].kids \subseteq Dentry
            BY <1>11, <2>4, MemoryFields
          <5>2. Child(m, at, n) = None
            BY ONLY <2>1, <3>1
          <5> QED
            BY ONLY <5>1, <5>2, ChildFacts
        <4>3. \A d \in Live(m, r) \ {1} : \A kid \in m.dent[d].kids :
                T2[Expected(m, r, d)].ents[m.dent[kid].name] =
                  tree[Expected(m, r, d)].ents[m.dent[kid].name]
          <5> SUFFICES ASSUME NEW d \in Live(m, r) \ {1}, NEW kid \in m.dent[d].kids
                       PROVE  T2[Expected(m, r, d)].ents[m.dent[kid].name] =
                                tree[Expected(m, r, d)].ents[m.dent[kid].name]
            OBVIOUS
          <5>1. PICK j \in Ino, x \in Name : j = Expected(m, r, d) /\ x = m.dent[kid].name
            BY <1>9, <1>11, CacheFacts
          <5>2. (j = from => d = at) /\ (j = to => d = parent)
            BY <1>11, <2>4, <2>5, <5>1 DEF CacheInv
          <5>3. ~(j = from /\ x = n) /\ ~(j = to /\ x = n2)
            BY <2>7, <4>2, <5>1, <5>2
          <5>4. T2[j].ents[x] = tree[j].ents[x]
            BY <2>13, <5>3 DEF EntryMoved
          <5> QED
            BY ONLY <5>1, <5>4
        <4>4. CacheInv(m, r, T2)
          BY <1>11, <4>3, CacheOtherDisk
        <4>5. KeepsNodes(m, m)
          BY DEF KeepsNodes
        <4> QED
          BY ONLY <1>11, <4>1, <4>4, <4>5
      <3>2. CASE k # None
        <4>1. PICK m2 : m2 = Move(m, k, at, parent, n2)
          OBVIOUS
        <4>2. Moved(m, m2, k, at, parent, n2)
          BY <1>6, <1>11, <2>4, <2>10, <3>2, <4>1, MoveIs
        <4>3. m.dent[parent].used
          BY <1>11, <2>4, PoolFacts
        <4>4. PoolInv(m2, r) /\ \A x \in Dentry : InoOf(m2, x) = InoOf(m, x)
          BY <1>6, <1>11, <2>4, <2>10, <3>2, <4>2, <4>3, MovedPool
        <4>5. \A x \in Dentry : \A y : y \in m2.dent[x].kids <=>
                IF y = k THEN x = parent ELSE y \in m.dent[x].kids
          BY <1>6, <1>11, <2>4, <2>10, <3>2, <4>2, <4>3, MovedPool
        <4>6. LiveOrFree(m2, r) = LiveOrFree(m, r)
          BY <1>6, <1>11, <2>4, <2>10, <3>2, <4>2, MovedLive
        <4>7. CacheInv(m2, r, T2)
          <5>1. k \in m.dent[at].kids /\ n = m.dent[k].name /\ k \notin Ancestors(m, parent)
            BY <2>10, <3>2
          <5>2. tree[to].ents[n2] = None
            BY <2>6
          <5> QED
            BY ONLY <1>6, <1>9, <1>11, <2>4, <2>5, <2>13, <4>2, <5>1, <5>2, MovedCache
        <4>8. m2.dent[1].kids = m.dent[1].kids
          <5>1. 1 # parent /\ k \notin m.dent[1].kids
            <6>1. \A x \in Dentry : \A y \in m.dent[x].kids : m.dent[y].parent = x
              BY <1>11 DEF PoolInv
            <6>2. m.dent[k].parent = at
              BY <2>4, <2>10, <3>2, <6>1
            <6>3. k \in m.dent[1].kids => m.dent[k].parent = 1
              BY <6>1
            <6> QED
              BY <2>4, <6>2, <6>3
          <5>2. \A y : y \in m2.dent[1].kids <=> IF y = k THEN 1 = parent ELSE y \in m.dent[1].kids
            BY <4>5
          <5>3. m2.dent[1].kids \in SUBSET Dentry /\ m.dent[1].kids \in SUBSET Dentry
            BY <1>11, <4>2, MemoryFields DEF Moved
          <5> QED
            BY <5>1, <5>2, <5>3
        <4>9. KeepsNodes(m, m2)
          BY <4>2, <4>4, <4>8 DEF KeepsNodes, Moved
        <4> QED
          BY ONLY <2>8, <4>1, <4>4, <4>6, <4>7, <4>9
      <3> QED
        BY <3>1, <3>2
    <2>16. PoolInv(mem', r) /\ CacheInv(mem', r, T2)
           /\ LiveOrFree(mem, r) \subseteq LiveOrFree(mem', r) /\ KeepsNodes(mem, mem')
      BY <1>9, <1>12, <2>15, KeepsNodesTrans DEF Keeps
    <2>17. MountInv'
      BY <1>4, <2>2, <2>16, MountKept
    <2>18. NsInv'
      <3>1. NsInv
        BY DEF Inv
      <3>2. LiveOrFree(mem, ns["nyfs"])' = LiveOrFree(mem', ns'["nyfs"]) /\ ns' = ns
        BY <2>2
      <3> QED
        BY <1>4, <2>16, <3>1, <3>2 DEF NsInv
    <2>19. HandleInv'
      <3>1. HandleInv /\ (Mounted' => Mounted)
        BY <2>2 DEF Inv, Mounted, NoVolume
      <3>2. birth' \in [Ino -> Nat] /\ birth' = birth
        BY <2>2, <3>1 DEF HandleInv
      <3>3. \A j \in Ino : birth[j] <= birth'[j]
        BY <3>2
      <3>4. \A j \in Ino : tree'[j].kind # "NONE" /\ birth'[j] = birth[j] => tree[j].kind # "NONE"
        BY <2>9 DEF EntryMoved
      <3>5. \A u \in Vnode : mem.vnode[u] # None =>
              mem'.vnode[u] = mem.vnode[u] /\ mem'.data[mem.vnode[u]] = mem.data[mem.vnode[u]]
        BY <2>16 DEF KeepsNodes
      <3> QED
        BY <2>2, <3>1, <3>2, <3>3, <3>4, <3>5, HandlesKept
    <2>20. PoolInv(mem, ns["nyfs"])' /\ CacheInv(mem, ns["nyfs"], tree)'
      BY <1>4, <2>2, <2>12, <2>16
    <2> QED
      BY <2>14, <2>17, <2>18, <2>19, <2>20 DEF Inv
  <1> QED
    BY <1>13, <1>14, <1>15

-----------------------------------------------------------------------------
(***************************************************************************)
(* Mounting                                                                *)
(***************************************************************************)
\* The handles of earlier mounts say nothing about the disk.
LEMMA HandlesOld ==
    ASSUME HandleInv, UNCHANGED <<handles, birth>>,
           mounts' = mounts + 1 \/ (mounts' = mounts /\ ~Mounted')
    PROVE  HandleInv'
  <1>1. /\ handles \in [Handle -> HandleRec] /\ birth \in [Ino -> Nat] /\ mounts \in Nat
        /\ \A h \in Handle : handles[h].held =>
             /\ handles[h].node \in Vnode /\ handles[h].ino \in Ino
             /\ handles[h].birth <= birth[handles[h].ino]
             /\ handles[h].mount <= mounts
    BY DEF HandleInv
  <1>2. \A h \in Handle : handles[h].mount \in Nat
    <2>1. \A h \in Handle : handles[h] \in HandleRec
      BY <1>1
    <2> QED
      BY <2>1 DEF HandleRec
  <1>3. mounts' \in Nat /\ mounts <= mounts'
    BY <1>1
  <1>4. \A h \in Handle : handles[h].held => handles[h].mount <= mounts'
    BY <1>1, <1>2, <1>3
  <1>5. \A h \in Handle : ~Lives(handles[h])'
    <2> SUFFICES ASSUME NEW h \in Handle, Lives(handles[h])' PROVE FALSE
      OBVIOUS
    <2>1. PICK o : o = handles[h]
      OBVIOUS
    <2>2. o.held /\ Mounted' /\ o.mount = mounts'
      BY <2>1 DEF Lives
    <2>3. o.mount \in Nat /\ o.mount <= mounts
      BY <1>1, <1>2, <2>1, <2>2
    <2>4. mounts' = mounts + 1
      BY <2>2
    <2> QED
      BY <1>1, <2>2, <2>3, <2>4
  <1>6. OpenFileKeepsVnode'
    <2>1. OpenFileKeepsVnode' <=>
            \A x \in Handle : Lives(handles[x])' =>
              mem'.vnode[handles'[x].node] # None
              /\ mem'.data[mem'.vnode[handles'[x].node]] = handles'[x].ino
      BY DEF OpenFileKeepsVnode, Lives, Mounted, NoVolume
    <2> QED
      BY <1>5, <2>1
  <1> QED
    BY <1>1, <1>3, <1>4, <1>6 DEF HandleInv

\* m2 is m with the root dentry d and a vnode v with data s for the root of the disk.
Rooted(m, m2, d, v, s) ==
    /\ m2 \in Memory
    /\ v \in Vnode /\ m.vnode[v] = None
    /\ s \in Data /\ m.data[s] = None
    /\ m2.dent[d].used /\ m2.dent[d].node = v
    /\ m2.dent[d].name = m.dent[d].name /\ m2.dent[d].parent = m.dent[d].parent
    /\ m2.dent[d].kids = m.dent[d].kids
    /\ \A x \in Dentry \ {d} : m2.dent[x] = m.dent[x]
    /\ m2.vnode[v] = s /\ \A u \in Vnode \ {v} : m2.vnode[u] = m.vnode[u]
    /\ m2.data[s] = Root /\ \A t \in Data \ {s} : m2.data[t] = m.data[t]

\* The pools stay in order.
LEMMA RootedPool ==
    ASSUME NEW m, NEW r, PoolInv(m, r), NEW d \in Dentry \ {1}, r \in {None, d},
           m.dent[d].node = None, m.dent[d].parent = None,
           NEW v, NEW s, NEW m2, Rooted(m, m2, d, v, s)
    PROVE  /\ PoolInv(m2, d)
           /\ InoOf(m2, d) = Root
           /\ \A x \in Dentry \ {d} : InoOf(m2, x) = InoOf(m, x)
  <1> USE NoneIsNoNumber
  <1>1. m \in Memory /\ m2 \in Memory /\ v \in Vnode /\ s \in Data /\ m.vnode[v] = None
        /\ m.data[s] = None
    BY DEF PoolInv, Rooted
  <1>2. m2.dent[d].used /\ m2.dent[d].node = v /\ m2.dent[d].parent = None
        /\ m2.dent[d].kids = m.dent[d].kids /\ m2.dent[d].name = m.dent[d].name
        /\ \A x \in Dentry \ {d} : m2.dent[x] = m.dent[x]
    BY DEF Rooted
  <1>3. m2.vnode[v] = s /\ (\A u \in Vnode \ {v} : m2.vnode[u] = m.vnode[u])
        /\ m2.data[s] = Root /\ \A t \in Data \ {s} : m2.data[t] = m.data[t]
    BY DEF Rooted
  <1>4. \A u \in Vnode : m.vnode[u] # None =>
          /\ u # v /\ m.vnode[u] # s
          /\ m2.vnode[u] = m.vnode[u] /\ m2.data[m.vnode[u]] = m.data[m.vnode[u]]
    <2> SUFFICES ASSUME NEW u \in Vnode, m.vnode[u] # None
                 PROVE  /\ u # v /\ m.vnode[u] # s
                        /\ m2.vnode[u] = m.vnode[u] /\ m2.data[m.vnode[u]] = m.data[m.vnode[u]]
      OBVIOUS
    <2>1. m.data[m.vnode[u]] # None
      BY DEF PoolInv
    <2>2. m.vnode[u] \in Data
      <3>1. m.vnode[u] \in Data \cup {None}
        BY <1>1, MemoryFields
      <3> QED
        BY <3>1
    <2> QED
      BY <1>1, <1>3, <2>1, <2>2
  <1>5. \A x \in Dentry : m.dent[x].node # None =>
          m.dent[x].node \in Vnode /\ m.vnode[m.dent[x].node] # None /\ m.dent[x].node # v
    <2>1. \A x \in Dentry : m.dent[x].node \in Vnode \cup {None}
      BY <1>1, MemoryFields
    <2>2. \A x \in Dentry : m.dent[x].node # None => m.vnode[m.dent[x].node] # None
      BY DEF PoolInv
    <2> QED
      BY <1>1, <2>1, <2>2
  <1>6. \A x \in Dentry \ {d} : InoOf(m2, x) = InoOf(m, x)
    <2> SUFFICES ASSUME NEW x \in Dentry \ {d} PROVE InoOf(m2, x) = InoOf(m, x)
      OBVIOUS
    <2>1. PICK u : u = m.dent[x].node /\ u = m2.dent[x].node
      BY <1>2
    <2>2. u # None => m2.vnode[u] = m.vnode[u] /\ m2.data[m.vnode[u]] = m.data[m.vnode[u]]
      BY <1>4, <1>5, <2>1
    <2> QED
      BY <2>1, <2>2 DEF InoOf
  <1>7. InoOf(m2, d) = Root
    BY <1>1, <1>2, <1>3 DEF InoOf
  <1>8. \A x \in Dentry : \A k \in m.dent[x].kids :
          k \in Dentry /\ k # d /\ m.dent[k].used /\ m.dent[k].parent = x /\ m.dent[k].name \in Name
    <2> SUFFICES ASSUME NEW x \in Dentry, NEW k \in m.dent[x].kids
                 PROVE  /\ k \in Dentry /\ k # d /\ m.dent[k].used
                        /\ m.dent[k].parent = x /\ m.dent[k].name \in Name
      OBVIOUS
    <2>1. k \in Dentry
      BY PoolFacts
    <2>2. m.dent[k].used /\ m.dent[k].parent = x /\ m.dent[k].name \in Name
      BY DEF PoolInv
    <2> QED
      BY <2>1, <2>2
  <1>9. \A x \in Dentry : ~m2.dent[x].used => m2.dent[x] = FreeDentry
    <2>1. \A x \in Dentry : ~m.dent[x].used => m.dent[x] = FreeDentry
      BY DEF PoolInv
    <2> QED
      BY <1>2, <2>1
  <1>10. \A x \in Dentry : \A k \in m2.dent[x].kids :
           m2.dent[k].used /\ m2.dent[k].parent = x /\ m2.dent[k].name \in Name
    <2> SUFFICES ASSUME NEW x \in Dentry, NEW k \in m2.dent[x].kids
                 PROVE  m2.dent[k].used /\ m2.dent[k].parent = x /\ m2.dent[k].name \in Name
      OBVIOUS
    <2>1. k \in m.dent[x].kids
      BY <1>2
    <2> QED
      BY <1>2, <1>8, <2>1
  <1>11. m2.dent[1].used /\ m2.dent[1].node = None /\ m2.dent[1].parent = None
    <2>1. m.dent[1].used /\ m.dent[1].node = None /\ m.dent[1].parent = None
      BY DEF PoolInv
    <2> QED
      BY <1>2, <2>1
  <1>12. \A x \in Dentry : m2.dent[x].node # None => m2.vnode[m2.dent[x].node] # None
    <2> SUFFICES ASSUME NEW x \in Dentry, m2.dent[x].node # None
                 PROVE  m2.vnode[m2.dent[x].node] # None
      OBVIOUS
    <2>1. CASE x = d
      BY <1>1, <1>2, <1>3, <2>1
    <2>2. CASE x # d
      <3>1. m2.dent[x].node = m.dent[x].node
        BY <1>2, <2>2
      <3>2. PICK u \in Vnode : u = m.dent[x].node /\ m.vnode[u] # None
        BY <1>5, <3>1
      <3> QED
        BY <1>4, <3>1, <3>2
    <2> QED
      BY <2>1, <2>2
  <1>13. \A x, y \in Dentry : m2.dent[x].node # None /\ m2.dent[x].node = m2.dent[y].node => x = y
    <2>1. \A x, y \in Dentry : m.dent[x].node # None /\ m.dent[x].node = m.dent[y].node => x = y
      BY DEF PoolInv
    <2>2. ASSUME NEW x \in Dentry, NEW y \in Dentry,
                 m2.dent[x].node # None, m2.dent[x].node = m2.dent[y].node
          PROVE  x = y
      <3>1. x # d => m2.dent[x].node = m.dent[x].node
        BY <1>2
      <3>2. y # d => m2.dent[y].node = m.dent[y].node
        BY <1>2
      <3>3. x # d => m.dent[x].node # v
        BY <1>1, <1>5
      <3>4. y # d => m.dent[y].node # v
        BY <1>1, <1>5
      <3>5. CASE x = d
        BY <1>2, <2>2, <3>2, <3>4, <3>5
      <3>6. CASE y = d
        BY <1>2, <2>2, <3>1, <3>3, <3>6
      <3>7. CASE x # d /\ y # d
        BY <2>1, <2>2, <3>1, <3>2, <3>7
      <3> QED
        BY <3>5, <3>6, <3>7
    <2> QED
      BY ONLY <2>2
  <1>14. \A u \in Vnode : m2.vnode[u] # None =>
           m2.data[m2.vnode[u]] # None /\ \E x \in Dentry : m2.dent[x].node = u
    <2> SUFFICES ASSUME NEW u \in Vnode, m2.vnode[u] # None
                 PROVE  m2.data[m2.vnode[u]] # None /\ \E x \in Dentry : m2.dent[x].node = u
      OBVIOUS
    <2>1. CASE u = v
      BY <1>2, <1>3, <2>1
    <2>2. CASE u # v
      <3>1. m2.vnode[u] = m.vnode[u] /\ m.vnode[u] # None
        BY <1>3, <2>2
      <3>2. m.data[m.vnode[u]] # None /\ \E x \in Dentry : m.dent[x].node = u
        BY <3>1 DEF PoolInv
      <3>3. PICK x \in Dentry : m.dent[x].node = u
        BY <3>2
      <3>4. x # d
        BY <3>3
      <3> QED
        BY <1>2, <1>4, <3>1, <3>2, <3>3, <3>4
    <2> QED
      BY <2>1, <2>2
  <1>15. \A u, x \in Vnode : m2.vnode[u] # None /\ m2.vnode[u] = m2.vnode[x] => u = x
    <2>1. \A u, x \in Vnode : m.vnode[u] # None /\ m.vnode[u] = m.vnode[x] => u = x
      BY DEF PoolInv
    <2> QED
      BY <1>1, <1>3, <1>4, <2>1
  <1>16. d # None => d \in Dentry \ {1} /\ m2.dent[d].used /\ m2.dent[d].parent = None
    BY <1>2
  <1>17. PoolInv(m2, d)
    BY <1>1, <1>9, <1>10, <1>11, <1>12, <1>13, <1>14, <1>15, <1>16 DEF PoolInv
  <1> QED
    BY <1>6, <1>7, <1>17

\* nyfs_mount at "nyfs:/"
LEMMA MountRootInv ==
    ASSUME Inv, MountRoot
    PROVE  Inv'
  <1> USE NoneIsNoNumber
  <1>1. PICK r, m : r = ns["nyfs"] /\ m = mem
    OBVIOUS
  <1>2. PoolInv(m, r) /\ CacheInv(m, r, tree) /\ DiskInv(tree) /\ MountInv /\ NsInv /\ HandleInv
        /\ m \in Memory
    BY <1>1 DEF Inv, PoolInv
  <1>3. PICK v : v = NewVnode(m)
    OBVIOUS
  <1>4. PICK m1 : m1 = MakeVnode(m, Root)
    OBVIOUS
  <1>5. PICK d : d = IF r = None THEN Least(FreeDentries(m1)) ELSE r
    OBVIOUS
  <1>6. /\ ~Mounted /\ CanMakeVnode(m)
        /\ r = None => FreeDentries(m1) # {}
        /\ m1.dent[d].node = None
        /\ mem' = [m1 EXCEPT !.dent[d].used = TRUE, !.dent[d].node = v]
        /\ ns' = [ns EXCEPT !["nyfs"] = d]
        /\ vol' = [place |-> d, root |-> v]
        /\ mounts' = mounts + 1 /\ UNCHANGED <<tree, birth, handles>>
    BY <1>1, <1>3, <1>4, <1>5 DEF MountRoot
  <1>7. PICK s \in Data : MadeVnode(m, m1, v, s, Root)
    BY <1>2, <1>3, <1>4, <1>6, MakeVnodeIs
  <1>8. m1 \in Memory /\ m1.dent = m.dent /\ v \in Vnode /\ m.vnode[v] = None /\ m.data[s] = None
        /\ m1.vnode = [m.vnode EXCEPT ![v] = s] /\ m1.data = [m.data EXCEPT ![s] = Root]
    BY <1>7 DEF MadeVnode
  <1>9. /\ d \in Dentry \ {1} /\ r \in {None, d} /\ m.dent[d].node = None
        /\ m.dent[d].parent = None
        /\ r = None => ~m.dent[d].used /\ m.dent[d].kids = {}
    <2>1. CASE r = None
      <3>1. FreeDentries(m1) \in SUBSET Nat
        BY DEF FreeDentries
      <3>2. d \in FreeDentries(m1)
        BY <1>5, <1>6, <2>1, <3>1, LeastIs
      <3>3. d \in Dentry /\ ~m.dent[d].used
        BY <1>8, <3>2 DEF FreeDentries
      <3>4. m.dent[1].used /\ m.dent[d] = FreeDentry
        BY <1>2, <3>3 DEF PoolInv
      <3> QED
        BY <2>1, <3>3, <3>4 DEF FreeDentry
    <2>2. CASE r # None
      <3>1. r \in Dentry \ {1} /\ m.dent[r].parent = None
        BY <1>2, <2>2 DEF PoolInv
      <3> QED
        BY <1>5, <1>6, <1>8, <2>2, <3>1
    <2> QED
      BY <2>1, <2>2
  <1>10. PICK m2 : m2 = mem'
    OBVIOUS
  <1>11. Rooted(m, m2, d, v, s)
    <2>1. PICK a \in DentryRec : a = m.dent[d]
      BY <1>2, <1>9, MemoryFields
    <2> DEFINE b == [a EXCEPT !.used = TRUE]
               c == [b EXCEPT !.node = v]
    <2>2. c \in DentryRec /\ c.used /\ c.node = v /\ c.name = a.name /\ c.parent = a.parent
          /\ c.kids = a.kids
      BY <1>8 DEF DentryRec
    <2>3. [[m1.dent EXCEPT ![d].used = TRUE] EXCEPT ![d].node = v] = [m.dent EXCEPT ![d] = c]
      <3>1. m.dent \in [Dentry -> DentryRec]
        BY <1>2, MemoryFields
      <3>2. [m1.dent EXCEPT ![d].used = TRUE] = [m.dent EXCEPT ![d] = b]
        BY <1>8, <2>1
      <3>3. [[m.dent EXCEPT ![d] = b] EXCEPT ![d].node = v] = [m.dent EXCEPT ![d] = c]
        BY <1>9, <3>1
      <3> QED
        BY <3>2, <3>3
    <2>4. m2 = [m1 EXCEPT !.dent = [[m1.dent EXCEPT ![d].used = TRUE] EXCEPT ![d].node = v]]
      <3>1. m2 = [m1 EXCEPT !.dent[d].used = TRUE, !.dent[d].node = v]
        BY <1>6, <1>10
      <3> DEFINE f == [m1.dent EXCEPT ![d].used = TRUE]
                 x == [m1 EXCEPT !.dent = f]
      <3>2. x.dent = f
        BY <1>8 DEF Memory
      <3>3. m2 = [x EXCEPT !.dent[d].node = v]
        BY <3>1
      <3>4. m2 = [x EXCEPT !.dent = [f EXCEPT ![d].node = v]]
        BY <3>2, <3>3
      <3>5. [x EXCEPT !.dent = [f EXCEPT ![d].node = v]]
            = [m1 EXCEPT !.dent = [f EXCEPT ![d].node = v]]
        <4>1. PICK g : g = [f EXCEPT ![d].node = v]
          OBVIOUS
        <4> HIDE DEF f
        <4>2. [x EXCEPT !.dent = g] = [m1 EXCEPT !.dent = g]
          BY <1>8 DEF Memory
        <4> QED
          BY <4>1, <4>2
      <3> QED
        BY <3>4, <3>5
    <2> HIDE DEF b, c
    <2>5. [m.dent EXCEPT ![d] = c] \in [Dentry -> DentryRec]
      BY <1>2, <2>2, MemoryFields
    <2>6. m2 \in Memory /\ m2.dent = [m.dent EXCEPT ![d] = c] /\ m2.vnode = m1.vnode
          /\ m2.data = m1.data
      BY <1>8, <2>3, <2>4, <2>5 DEF Memory
    <2>7. m2.dent[d] = c /\ \A x \in Dentry \ {d} : m2.dent[x] = m.dent[x]
      BY <1>2, <1>9, <2>6, MemoryFields
    <2>8. m2.vnode[v] = s /\ (\A u \in Vnode \ {v} : m2.vnode[u] = m.vnode[u])
          /\ m2.data[s] = Root /\ \A t \in Data \ {s} : m2.data[t] = m.data[t]
      BY <1>2, <1>8, <2>6, MemoryFields
    <2> QED
      BY <1>8, <2>1, <2>2, <2>6, <2>7, <2>8 DEF Rooted
  <1>12. PoolInv(m2, d) /\ InoOf(m2, d) = Root
         /\ \A x \in Dentry \ {d} : InoOf(m2, x) = InoOf(m, x)
    BY <1>2, <1>9, <1>11, RootedPool
  <1>13. \A x \in Dentry : m2.dent[x].kids = m.dent[x].kids /\ m2.dent[x].name = m.dent[x].name
    BY <1>11 DEF Rooted
  <1>14. m2.dent[1].kids = {}
    <2>1. m.dent[1].kids = {}
      BY <1>1, <1>2, <1>6 DEF MountInv
    <2> QED
      BY <1>13, <2>1
  <1>15. CacheInv(m2, d, tree)
    <2>1. CASE r = None
      <3>1. Live(m2, d) \subseteq {1, d}
        <4>1. PICK Y \in SUBSET Dentry : Y = {1, d}
          BY <1>9
        <4>2. Roots(d) \subseteq Y
          BY <4>1 DEF Roots
        <4>3. \A x \in Y : m2.dent[x].kids \subseteq Y
          BY <1>9, <1>13, <1>14, <2>1, <4>1
        <4> QED
          BY <4>1, <4>2, <4>3, LiveLeast
      <3>2. Expected(m2, d, d) = Root
        BY DEF Expected
      <3>3. m2.dent[d].kids = {}
        BY <1>9, <1>13, <2>1
      <3> QED
        BY <1>12, <1>14, <3>1, <3>2, <3>3 DEF CacheInv
    <2>2. CASE r # None
      <3>1. r = d
        BY <1>9, <2>2
      <3> QED
        BY <1>2, <1>12, <1>13, <3>1, CacheSame
    <2> QED
      BY <2>1, <2>2
  <1>16. ns' \in [Ns -> Dentry \cup {None}] /\ ns'["nyfs"] = d /\ ns'[""] = ns[""]
         /\ ns'["app"] = ns["app"]
    <2>1. ns \in [Ns -> Dentry \cup {None}]
      BY <1>2 DEF NsInv
    <2> QED
      BY <1>6, <1>9, <2>1 DEF Ns
  <1>17. NsInv'
    <2>1. ns[""] = 1 /\ (ns["app"] # None => r # None /\ ns["app"] \in LiveOrFree(m, r))
      BY <1>1, <1>2 DEF NsInv
    <2>2. r # None => LiveOrFree(m, r) \subseteq LiveOrFree(m2, d)
      <3> SUFFICES ASSUME r # None PROVE LiveOrFree(m, r) \subseteq LiveOrFree(m2, d)
        OBVIOUS
      <3>1. r = d
        BY <1>9
      <3>2. Live(m2, d) = Live(m, d)
        BY <1>2, <1>12, <1>13, <3>1, CacheSame
      <3>3. m.dent[d].used
        BY <1>2, <3>1 DEF PoolInv
      <3>4. FreeDentries(m) \subseteq FreeDentries(m2)
        BY <1>11, <3>3 DEF FreeDentries, Rooted
      <3> QED
        BY <3>1, <3>2, <3>4 DEF LiveOrFree
    <2>3. LiveOrFree(mem, ns["nyfs"])' = LiveOrFree(m2, d)
      BY <1>10, <1>16
    <2>4. d # None
      BY <1>9
    <2> QED
      BY <1>16, <2>1, <2>2, <2>3, <2>4 DEF NsInv
  <1>18. MountInv'
    <2>1. Mounted'
      BY <1>6, <1>9 DEF Mounted, NoVolume
    <2>2. vol'.place = d /\ vol'.root = v
          /\ vol' \in [place : Dentry \cup {None}, root : Vnode \cup {None}]
      BY <1>6, <1>8, <1>9
    <2>3. m2.dent[d].node = v
      BY <1>11 DEF Rooted
    <2>4. InoOf(mem, vol.place)' = InoOf(m2, d)
      BY <1>10, <2>2 DEF InoOf
    <2> QED
      BY <1>8, <1>9, <1>10, <1>12, <1>14, <1>16, <2>1, <2>2, <2>3, <2>4 DEF MountInv
  <1>19. HandleInv'
    BY <1>2, <1>6, HandlesOld
  <1>20. PoolInv(mem, ns["nyfs"])' /\ CacheInv(mem, ns["nyfs"], tree)' /\ DiskInv(tree)'
    BY <1>2, <1>6, <1>10, <1>12, <1>15, <1>16
  <1> QED
    BY <1>17, <1>18, <1>19, <1>20 DEF Inv

\* nyfs_mount at a child of "/"
LEMMA MountChildInv ==
    ASSUME ~Remount, Inv, NEW n \in Name, MountChild(n)
    PROVE  Inv'
  <1> USE NoneIsNoNumber
  <1>1. PICK m : m = mem
    OBVIOUS
  <1>2. ns["nyfs"] = None /\ ns[""] = 1 /\ ns["app"] = None
    BY DEF MountChild, Inv, NsInv
  <1>3. PoolInv(m, None) /\ CacheInv(m, None, tree) /\ DiskInv(tree) /\ MountInv /\ NsInv
        /\ HandleInv /\ m \in Memory
    BY <1>1, <1>2 DEF Inv, PoolInv
  <1>4. PICK v : v = NewVnode(m)
    OBVIOUS
  <1>5. PICK m1 : m1 = MakeVnode(m, Root)
    OBVIOUS
  <1>6. PICK m2 : m2 = MakeDentry(m1, n, v, 1)
    OBVIOUS
  <1>7. /\ ~Mounted /\ CanMakeVnode(m) /\ FreeDentries(m) # {}
        /\ mem' = m2 /\ vol' = [place |-> Child(m2, 1, n), root |-> v]
        /\ mounts' = mounts + 1 /\ UNCHANGED <<ns, tree, birth, handles>>
    BY <1>1, <1>2, <1>4, <1>5, <1>6 DEF MountChild
  <1>8. PICK s \in Data : MadeVnode(m, m1, v, s, Root)
    BY <1>3, <1>4, <1>5, <1>7, MakeVnodeIs
  <1>9. m.dent[1].used
    BY <1>3 DEF PoolInv
  <1>10. PICK d \in Dentry : Added(m, m2, d, 1, n, v, s, Root)
    <2>1. FreeDentries(m1) # {}
      BY <1>7, <1>8 DEF FreeDentries, MadeVnode
    <2> QED
      BY <1>3, <1>6, <1>8, <1>9, <2>1, MakeDentryIs
  <1>11. PoolInv(m2, None)
    BY <1>3, <1>9, <1>10, AddedPool
  <1>12. InoOf(m2, d) = Root
    BY <1>3, <1>10, AddedInodes
  <1>13. m2.dent[1].kids = {d} /\ m2.dent[d].kids = {} /\ m2.dent[d].name = n
         /\ m2.dent[d].node = v /\ d # 1 /\ v \in Vnode
    <2>1. m.dent[1].kids = {}
      BY <1>1, <1>3, <1>7 DEF MountInv
    <2> QED
      BY <1>9, <1>10, <2>1 DEF Added
  <1>14. CacheInv(m2, None, tree)
    <2>1. Live(m2, None) \subseteq {1, d}
      <3>1. PICK Y \in SUBSET Dentry : Y = {1, d}
        OBVIOUS
      <3>2. Roots(None) \subseteq Y
        BY <3>1 DEF Roots
      <3>3. \A x \in Y : m2.dent[x].kids \subseteq Y
        BY <1>13, <3>1
      <3> QED
        BY <3>1, <3>2, <3>3, LiveLeast
    <2>2. Expected(m2, None, d) = Root
      BY <1>12 DEF Expected
    <2> QED
      BY <1>12, <1>13, <2>1, <2>2 DEF CacheInv
  <1>15. Child(m2, 1, n) = d
    BY <1>13 DEF Child
  <1>16. NsInv'
    BY <1>2, <1>3, <1>7 DEF NsInv
  <1>17. MountInv'
    <2>1. vol'.place = d /\ vol'.root = v
          /\ vol' \in [place : Dentry \cup {None}, root : Vnode \cup {None}]
      BY <1>7, <1>13, <1>15
    <2>2. Mounted'
      <3>1. NoVolume.place = None
        BY DEF NoVolume
      <3>2. vol' # NoVolume
        BY <2>1, <3>1
      <3> QED
        BY <3>2 DEF Mounted, NoVolume
    <2>3. InoOf(mem, vol.place)' = InoOf(m2, d)
      BY <1>7, <2>1 DEF InoOf
    <2> QED
      BY <1>2, <1>7, <1>12, <1>13, <2>1, <2>2, <2>3 DEF MountInv
  <1>18. HandleInv'
    BY <1>3, <1>7, HandlesOld
  <1>19. PoolInv(mem, ns["nyfs"])' /\ CacheInv(mem, ns["nyfs"], tree)' /\ DiskInv(tree)'
    BY <1>2, <1>3, <1>7, <1>11, <1>14
  <1> QED
    BY <1>16, <1>17, <1>18, <1>19 DEF Inv

\* m2 is m without the vnode v of the root dentry d.
Unrooted(m, m2, d, v) ==
    /\ m2 \in Memory
    /\ m2.dent[d].used = m.dent[d].used /\ m2.dent[d].name = m.dent[d].name
    /\ m2.dent[d].parent = m.dent[d].parent /\ m2.dent[d].kids = m.dent[d].kids
    /\ m2.dent[d].node = None
    /\ \A x \in Dentry \ {d} : m2.dent[x] = m.dent[x]
    /\ m2.vnode = [m.vnode EXCEPT ![v] = None]
    /\ \A s \in Data : s # m.vnode[v] => m2.data[s] = m.data[s]

\* The pools stay in order.
LEMMA UnrootedPool ==
    ASSUME NEW m, NEW r \in Dentry, PoolInv(m, r), NEW v, v = m.dent[r].node, v # None,
           NEW m2, Unrooted(m, m2, r, v)
    PROVE  /\ PoolInv(m2, r)
           /\ InoOf(m2, r) = None
           /\ \A x \in Dentry \ {r} : InoOf(m2, x) = InoOf(m, x)
           /\ \A x \in Dentry : m2.dent[x].kids = m.dent[x].kids /\ m2.dent[x].name = m.dent[x].name
           /\ \A x \in Dentry : m2.dent[x].used = m.dent[x].used
  <1> USE NoneIsNoNumber
  <1>1. m \in Memory /\ m2 \in Memory /\ r # None
    BY DEF PoolInv, Unrooted
  <1>2. \A x \in Dentry : /\ m2.dent[x].used = m.dent[x].used
                          /\ m2.dent[x].name = m.dent[x].name
                          /\ m2.dent[x].parent = m.dent[x].parent
                          /\ m2.dent[x].kids = m.dent[x].kids
                          /\ m2.dent[x].node = IF x = r THEN None ELSE m.dent[x].node
    BY DEF Unrooted
  <1>3. \A x \in Dentry \ {r} : m2.dent[x] = m.dent[x]
    BY DEF Unrooted
  <1>4. v \in Vnode /\ m.vnode[v] # None
    <2>1. v \in Vnode \cup {None}
      BY <1>1, MemoryFields
    <2>2. \A d \in Dentry : m.dent[d].node # None => m.vnode[m.dent[d].node] # None
      BY DEF PoolInv
    <2> QED
      BY <2>1, <2>2
  <1>5. m2.vnode[v] = None /\ \A u \in Vnode \ {v} : m2.vnode[u] = m.vnode[u]
    <2>1. m2.vnode = [m.vnode EXCEPT ![v] = None]
      BY DEF Unrooted
    <2> QED
      BY <1>1, <1>4, <2>1, MemoryFields
  <1>6. \A u \in Vnode : m.vnode[u] # None /\ u # v =>
          m2.vnode[u] = m.vnode[u] /\ m2.data[m.vnode[u]] = m.data[m.vnode[u]]
    <2>1. \A u, x \in Vnode : m.vnode[u] # None /\ m.vnode[u] = m.vnode[x] => u = x
      BY DEF PoolInv
    <2>2. \A u \in Vnode : m.vnode[u] \in Data \cup {None}
      BY <1>1, MemoryFields
    <2>3. \A s \in Data : s # m.vnode[v] => m2.data[s] = m.data[s]
      BY DEF Unrooted
    <2> QED
      BY <1>4, <1>5, <2>1, <2>2, <2>3
  <1>7. \A x \in Dentry \ {r} : m.dent[x].node # v
    BY DEF PoolInv
  <1>8. \A x \in Dentry \ {r} : InoOf(m2, x) = InoOf(m, x)
    <2> SUFFICES ASSUME NEW x \in Dentry \ {r} PROVE InoOf(m2, x) = InoOf(m, x)
      OBVIOUS
    <2>1. PICK u : u = m.dent[x].node
      OBVIOUS
    <2>2. u = m2.dent[x].node /\ u # v /\ u \in Vnode \cup {None}
      BY <1>1, <1>2, <1>7, <2>1, MemoryFields
    <2>3. u # None => m2.vnode[u] = m.vnode[u]
      BY <1>5, <2>2
    <2>4. u # None /\ m.vnode[u] # None => m2.data[m.vnode[u]] = m.data[m.vnode[u]]
      BY <1>6, <2>2
    <2> QED
      BY <2>1, <2>2, <2>3, <2>4 DEF InoOf
  <1>9. InoOf(m2, r) = None
    BY <1>2 DEF InoOf
  <1>10. \A d \in Dentry : ~m2.dent[d].used => m2.dent[d] = FreeDentry
    <2>1. \A d \in Dentry : ~m.dent[d].used => m.dent[d] = FreeDentry
      BY DEF PoolInv
    <2>2. m.dent[r].used
      BY <1>1 DEF PoolInv
    <2> QED
      BY <1>2, <1>3, <2>1, <2>2
  <1>11. \A d \in Dentry : \A k \in m2.dent[d].kids :
           m2.dent[k].used /\ m2.dent[k].parent = d /\ m2.dent[k].name \in Name
    <2> SUFFICES ASSUME NEW d \in Dentry, NEW k \in m2.dent[d].kids
                 PROVE  m2.dent[k].used /\ m2.dent[k].parent = d /\ m2.dent[k].name \in Name
      OBVIOUS
    <2>1. k \in m.dent[d].kids /\ k \in Dentry
      BY <1>2, PoolFacts
    <2>2. m.dent[k].used /\ m.dent[k].parent = d /\ m.dent[k].name \in Name
      BY <2>1 DEF PoolInv
    <2> QED
      BY <1>2, <2>1, <2>2
  <1>12. m2.dent[1].used /\ m2.dent[1].node = None /\ m2.dent[1].parent = None
    <2>1. m.dent[1].used /\ m.dent[1].node = None /\ m.dent[1].parent = None
      BY DEF PoolInv
    <2> QED
      BY <1>2, <2>1
  <1>13. r \in Dentry \ {1} /\ m2.dent[r].used /\ m2.dent[r].parent = None
    <2>1. r \in Dentry \ {1} /\ m.dent[r].used /\ m.dent[r].parent = None
      BY <1>1 DEF PoolInv
    <2> QED
      BY <1>2, <2>1
  <1>14. \A d \in Dentry : m2.dent[d].node # None => m2.vnode[m2.dent[d].node] # None
    <2> SUFFICES ASSUME NEW d \in Dentry, m2.dent[d].node # None
                 PROVE  m2.vnode[m2.dent[d].node] # None
      OBVIOUS
    <2>1. d # r /\ m2.dent[d].node = m.dent[d].node
      BY <1>2
    <2>2. PICK u \in Vnode : u = m.dent[d].node /\ u # v
      <3>1. m.dent[d].node \in Vnode \cup {None}
        BY <1>1, MemoryFields
      <3> QED
        BY <1>7, <2>1, <3>1
    <2>3. m.vnode[u] # None
      BY <2>1, <2>2 DEF PoolInv
    <2> QED
      BY <1>5, <2>1, <2>2, <2>3
  <1>15. \A d, e \in Dentry : m2.dent[d].node # None /\ m2.dent[d].node = m2.dent[e].node => d = e
    <2>1. ASSUME NEW d \in Dentry, NEW e \in Dentry,
                 m2.dent[d].node # None, m2.dent[d].node = m2.dent[e].node
          PROVE  d = e
      <3>1. d # r /\ e # r
        BY <1>2, <2>1
      <3>2. m.dent[d].node # None /\ m.dent[d].node = m.dent[e].node
        BY <1>2, <2>1, <3>1
      <3> QED
        BY <3>2 DEF PoolInv
    <2> QED
      BY ONLY <2>1
  <1>16. \A u \in Vnode : m2.vnode[u] # None =>
           m2.data[m2.vnode[u]] # None /\ \E d \in Dentry : m2.dent[d].node = u
    <2> SUFFICES ASSUME NEW u \in Vnode, m2.vnode[u] # None
                 PROVE  m2.data[m2.vnode[u]] # None /\ \E d \in Dentry : m2.dent[d].node = u
      OBVIOUS
    <2>1. u # v /\ m2.vnode[u] = m.vnode[u]
      BY <1>5
    <2>2. m.data[m.vnode[u]] # None /\ \E d \in Dentry : m.dent[d].node = u
      BY <2>1 DEF PoolInv
    <2>3. PICK d \in Dentry : m.dent[d].node = u
      BY <2>2
    <2>4. m2.dent[d].node = u
      BY <1>2, <2>1, <2>3
    <2>5. m2.data[m.vnode[u]] = m.data[m.vnode[u]]
      BY <1>6, <2>1
    <2> QED
      BY <2>1, <2>2, <2>4, <2>5
  <1>17. \A u, x \in Vnode : m2.vnode[u] # None /\ m2.vnode[u] = m2.vnode[x] => u = x
    <2>1. \A u, x \in Vnode : m.vnode[u] # None /\ m.vnode[u] = m.vnode[x] => u = x
      BY DEF PoolInv
    <2> QED
      BY <1>5, <2>1
  <1>18. PoolInv(m2, r)
    BY <1>1, <1>10, <1>11, <1>12, <1>13, <1>14, <1>15, <1>16, <1>17 DEF PoolInv
  <1> QED
    BY <1>2, <1>8, <1>9, <1>18

\* The end of nyfs_unmount: the root vnode v is free, and its data s.
FreeVolume(m, v, s) == [m EXCEPT !.vnode[v] = None, !.data[s] = None]

\* What is left of the pools.
LEMMA VolumeFreed ==
    ASSUME NEW m \in Memory, NEW v \in Vnode, NEW s \in Data, NEW m2, m2 = FreeVolume(m, v, s)
    PROVE  /\ m2 \in Memory
           /\ m2.dent = m.dent
           /\ m2.vnode = [m.vnode EXCEPT ![v] = None]
           /\ \A t \in Data : t # s => m2.data[t] = m.data[t]
  <1>1. /\ m.vnode \in [Vnode -> Data \cup {None}]
        /\ m.data \in [Data -> Ino \cup {None}]
    BY MemoryFields
  <1>2. PICK f \in [Vnode -> Data \cup {None}] : f = [m.vnode EXCEPT ![v] = None]
    BY <1>1
  <1>3. PICK g \in [Data -> Ino \cup {None}] : g = [m.data EXCEPT ![s] = None]
    BY <1>1
  <1>4. [m EXCEPT !.vnode = f].data = m.data
    BY DEF Memory
  <1>5. m2 = [[m EXCEPT !.vnode = f] EXCEPT !.data = g]
    BY <1>2, <1>3, <1>4 DEF FreeVolume
  <1>6. m2 \in Memory /\ m2.dent = m.dent /\ m2.vnode = f /\ m2.data = g
    BY <1>5 DEF Memory
  <1> QED
    BY <1>1, <1>2, <1>3, <1>6

\* nyfs_unmount
LEMMA UnmountInv ==
    ASSUME Inv, Unmount
    PROVE  Inv'
  <1> USE NoneIsNoNumber
  <1>1. PICK r, m : r = ns["nyfs"] /\ m = mem
    OBVIOUS
  <1>2. PoolInv(m, r) /\ CacheInv(m, r, tree) /\ DiskInv(tree) /\ MountInv /\ NsInv /\ HandleInv
        /\ m \in Memory
    BY <1>1 DEF Inv, PoolInv
  <1>3. PICK p, v : p = vol.place /\ v = vol.root
    OBVIOUS
  <1>4. /\ p \in Dentry /\ v \in Vnode /\ v # None /\ m.dent[p].node = v
        /\ r # None => p = r
        /\ m.dent[1].kids = IF r = None THEN {p} ELSE {}
    BY <1>1, <1>2, <1>3 DEF Unmount, MountInv
  <1>5. PICK s \in Data : s = m.vnode[v]
    <2>1. m.vnode[v] # None
      BY <1>2, <1>4 DEF PoolInv
    <2>2. m.vnode[v] \in Data \cup {None}
      BY <1>2, <1>4, MemoryFields
    <2> QED
      BY <2>1, <2>2
  <1>6. PICK m1 : m1 = LeaveMountPoint(m, p)
    OBVIOUS
  <1>7. PICK m2 : m2 = mem'
    OBVIOUS
  <1>8. /\ m2 = FreeVolume(m1, v, s)
        /\ vol' = NoVolume
        /\ UNCHANGED <<ns, tree, birth, handles, mounts>>
    BY <1>1, <1>3, <1>5, <1>6, <1>7 DEF Unmount, FreeVolume
  <1>9. ~Mounted'
    BY <1>8 DEF Mounted, NoVolume
  <1>10. HandleInv'
    BY <1>2, <1>8, <1>9, HandlesOld
  <1>11. /\ ns \in [Ns -> Dentry \cup {None}] /\ ns[""] = 1
         /\ ns["app"] # None => r # None /\ ns["app"] \in LiveOrFree(m, r)
    BY <1>1, <1>2 DEF NsInv
  <1>12. SUFFICES /\ PoolInv(m2, r) /\ CacheInv(m2, r, tree) /\ m2.dent[1].kids = {}
                  /\ r # None => LiveOrFree(m2, r) = LiveOrFree(m, r)
    <2>1. NsInv'
      BY <1>1, <1>7, <1>8, <1>11, <1>12 DEF NsInv
    <2>2. MountInv'
      <3>1. vol' \in [place : Dentry \cup {None}, root : Vnode \cup {None}]
        BY <1>8 DEF NoVolume
      <3> QED
        BY <1>7, <1>9, <1>12, <3>1 DEF MountInv
    <2>3. PoolInv(mem, ns["nyfs"])' /\ CacheInv(mem, ns["nyfs"], tree)' /\ DiskInv(tree)'
      BY <1>1, <1>2, <1>7, <1>8, <1>12
    <2> QED
      BY <1>10, <2>1, <2>2, <2>3 DEF Inv
  <1>13. CASE r # None
    <2>1. p = r /\ r \in Dentry \ {1} /\ m.dent[r].parent = None
      BY <1>2, <1>4, <1>13 DEF PoolInv
    <2>2. m1 = [m EXCEPT !.dent[r].node = None]
      BY <1>6, <2>1 DEF LeaveMountPoint
    <2>3. PICK a \in DentryRec : a = m.dent[r]
      BY <1>2, <2>1, MemoryFields
    <2>4. PICK b \in DentryRec : b = [a EXCEPT !.node = None]
      <3>1. [a EXCEPT !.node = None] \in DentryRec
        BY DEF DentryRec
      <3> QED
        BY <3>1
    <2>5. b.used = a.used /\ b.name = a.name /\ b.parent = a.parent /\ b.kids = a.kids
          /\ b.node = None
      BY <2>4 DEF DentryRec
    <2>6. PICK f \in [Dentry -> DentryRec] : f = [m.dent EXCEPT ![r] = b]
      BY <1>2, <2>1, MemoryFields
    <2>7. m1 \in Memory /\ m1.dent = f /\ m1.vnode = m.vnode /\ m1.data = m.data
      <3>1. m1 = [m EXCEPT !.dent = f]
        BY <2>2, <2>3, <2>4, <2>6
      <3> QED
        BY <1>2, <3>1 DEF Memory
    <2>8. f[r] = b /\ \A x \in Dentry \ {r} : f[x] = m.dent[x]
      BY <1>2, <2>1, <2>6, MemoryFields
    <2>9. /\ m2 \in Memory
          /\ m2.dent = m1.dent
          /\ m2.vnode = [m1.vnode EXCEPT ![v] = None]
          /\ \A t \in Data : t # s => m2.data[t] = m1.data[t]
      <3>1. m2 = FreeVolume(m1, v, s)
        BY <1>8
      <3>2. m1 \in Memory /\ v \in Vnode /\ s \in Data
        BY <1>4, <2>7
      <3> QED
        BY ONLY <3>1, <3>2, VolumeFreed
    <2>10. Unrooted(m, m2, r, v)
      BY <1>5, <2>3, <2>5, <2>7, <2>8, <2>9 DEF Unrooted
    <2>11. /\ PoolInv(m2, r)
           /\ InoOf(m2, r) = None
           /\ \A x \in Dentry \ {r} : InoOf(m2, x) = InoOf(m, x)
           /\ \A x \in Dentry : m2.dent[x].kids = m.dent[x].kids /\ m2.dent[x].name = m.dent[x].name
           /\ \A x \in Dentry : m2.dent[x].used = m.dent[x].used
      BY <1>2, <1>4, <2>1, <2>10, UnrootedPool
    <2>12. Live(m2, r) = Live(m, r) /\ CacheInv(m2, r, tree)
      BY <1>2, <2>11, CacheSame
    <2>13. LiveOrFree(m2, r) = LiveOrFree(m, r)
      <3>1. FreeDentries(m2) = FreeDentries(m)
        BY <2>11 DEF FreeDentries
      <3> QED
        BY <2>12, <3>1 DEF LiveOrFree
    <2>14. m2.dent[1].kids = {}
      BY <1>4, <1>13, <2>11
    <2> QED
      BY <2>11, <2>12, <2>13, <2>14
  <1>14. CASE r = None
    <2>1. p \in m.dent[1].kids /\ m.dent[1].kids = {p}
      BY <1>4, <1>14
    <2>2. m.dent[p].parent = 1 /\ p # 1
      <3>1. m.dent[p].parent = 1
        BY <1>2, <2>1 DEF PoolInv
      <3>2. m.dent[1].parent = None
        BY <1>2 DEF PoolInv
      <3> QED
        BY <3>1, <3>2
    <2>3. m1 = DropDentry(m, p)
      BY <1>6, <2>2 DEF LeaveMountPoint
    <2>4. DentryDropped(m, m1, p, 1)
      BY <1>2, <1>4, <2>2, <2>3, DropDentryIs
    <2>5. m1 \in Memory /\ m1.vnode = m.vnode /\ m1.data = m.data
      BY <2>4 DEF DentryDropped
    <2>6. /\ m2 \in Memory
          /\ m2.dent = m1.dent
          /\ m2.vnode = [m1.vnode EXCEPT ![v] = None]
          /\ \A t \in Data : t # s => m2.data[t] = m1.data[t]
      <3>1. m2 = FreeVolume(m1, v, s)
        BY <1>8
      <3>2. m1 \in Memory /\ v \in Vnode /\ s \in Data
        BY <1>4, <2>5
      <3> QED
        BY ONLY <3>1, <3>2, VolumeFreed
    <2>7. Dropped(m, m2, p, 1, v)
      BY <1>5, <2>4, <2>5, <2>6 DEF Dropped, DentryDropped
    <2>8. PoolInv(m2, r)
      BY <1>2, <1>4, <2>1, <2>7, DroppedPool
    <2>9. m2.dent[1].kids = {}
      BY <2>1, <2>2, <2>7 DEF Dropped
    <2>10. Live(m2, r) \subseteq {1}
      <3>1. PICK Y \in SUBSET Dentry : Y = {1}
        OBVIOUS
      <3>2. Roots(r) \subseteq Y
        BY <1>14, <3>1 DEF Roots
      <3>3. \A x \in Y : m2.dent[x].kids \subseteq Y
        BY <2>9, <3>1
      <3> QED
        BY <3>1, <3>2, <3>3, LiveLeast
    <2>11. CacheInv(m2, r, tree)
      BY <1>14, <2>9, <2>10 DEF CacheInv
    <2> QED
      BY <1>14, <2>8, <2>9, <2>11
  <1> QED
    BY <1>13, <1>14

-----------------------------------------------------------------------------
(***************************************************************************)
(* The invariant                                                           *)
(***************************************************************************)
\* vfs_init: the pools are empty but for the default root.
LEMMA InitPools ==
    ASSUME Init
    PROVE  PoolInv(mem, None) /\ CacheInv(mem, None, tree) /\ mem.dent[1].kids = {}
  <1> USE NoneIsNoNumber
  <1>1. PICK m : m = mem
    OBVIOUS
  <1>2. FreeDentry \in DentryRec /\ ~FreeDentry.used /\ FreeDentry.node = None
        /\ FreeDentry.parent = None /\ FreeDentry.kids = {} /\ FreeDentry.name = NoName
    BY DEF FreeDentry, DentryRec
  <1>3. PICK a \in DentryRec : a = [FreeDentry EXCEPT !.used = TRUE]
    BY <1>2 DEF DentryRec
  <1>4. a.used /\ a.node = None /\ a.parent = None /\ a.kids = {}
    BY <1>2, <1>3 DEF FreeDentry
  <1>5. /\ m.dent = [d \in Dentry |-> IF d = 1 THEN a ELSE FreeDentry]
        /\ m.vnode = [v \in Vnode |-> None]
        /\ m.data = [s \in Data |-> None]
        /\ m = [dent |-> m.dent, vnode |-> m.vnode, data |-> m.data]
    BY <1>1, <1>3 DEF Init
  <1>6. m \in Memory
    <2>1. m.dent \in [Dentry -> DentryRec]
      BY <1>2, <1>5
    <2>2. m.vnode \in [Vnode -> Data \cup {None}]
      BY <1>5
    <2>3. m.data \in [Data -> Ino \cup {None}]
      BY <1>5
    <2> QED
      BY <1>5, <2>1, <2>2, <2>3 DEF Memory
  <1>7. m.dent[1] = a /\ \A d \in Dentry \ {1} : m.dent[d] = FreeDentry
    BY <1>5
  <1>8. \A d \in Dentry : m.dent[d].node = None /\ m.dent[d].kids = {} /\ m.dent[d].parent = None
    BY <1>2, <1>4, <1>7
  <1>9. \A d \in Dentry : ~m.dent[d].used => m.dent[d] = FreeDentry
    BY <1>4, <1>7
  <1>10. \A v \in Vnode : m.vnode[v] = None
    BY <1>5
  <1>11. PoolInv(m, None)
    BY <1>4, <1>6, <1>7, <1>8, <1>9, <1>10 DEF PoolInv
  <1>12. Live(m, None) \subseteq {1}
    <2>1. PICK Y \in SUBSET Dentry : Y = {1}
      OBVIOUS
    <2>2. Roots(None) \subseteq Y
      BY <2>1 DEF Roots
    <2>3. \A x \in Y : m.dent[x].kids \subseteq Y
      BY <1>8, <2>1
    <2> QED
      BY <2>1, <2>2, <2>3, LiveLeast
  <1>13. CacheInv(m, None, tree)
    BY <1>8, <1>12 DEF CacheInv
  <1> QED
    BY <1>1, <1>8, <1>11, <1>13

\* The empty disk is in order.
LEMMA InitDisk ==
    ASSUME Init
    PROVE  DiskInv(tree)
  <1> USE NoneIsNoNumber
  <1>1. PICK T : T = tree
    OBVIOUS
  <1>2. PICK x \in InodeRec : x = NoInode
    <2>1. NoInode \in InodeRec
      BY DEF NoInode, InodeRec
    <2> QED
      BY <2>1
  <1>3. x.kind = "NONE" /\ \A n \in Name : x.ents[n] = None
    BY <1>2 DEF NoInode
  <1>4. PICK y \in InodeRec : y = [x EXCEPT !.kind = "DIR"]
    BY <1>2 DEF InodeRec
  <1>5. y.kind = "DIR" /\ \A n \in Name : y.ents[n] = None
    <2>1. y.kind = "DIR" /\ y.ents = x.ents
      BY <1>2, <1>4 DEF InodeRec
    <2> QED
      BY <1>3, <2>1
  <1>6. T = [i \in Ino |-> IF i = Root THEN y ELSE x]
    BY <1>1, <1>2, <1>4 DEF Init
  <1>7. T \in [Ino -> InodeRec] /\ T[Root] = y /\ \A i \in Ino \ {Root} : T[i] = x
    BY <1>6
  <1>8. \A i \in Ino, n \in Name : T[i].ents[n] = None
    BY <1>3, <1>5, <1>7
  <1>9. \A i \in Ino : T[i].kind # "NONE" => i = Root
    BY <1>3, <1>7
  <1>10. \A i \in Ino : T[i].kind = "NONE" => T[i] = NoInode
    BY <1>2, <1>5, <1>7
  <1> QED
    BY <1>1, <1>5, <1>7, <1>8, <1>9, <1>10 DEF DiskInv

\* The initial state
LEMMA InitInv == Init => Inv
  <1> USE NoneIsNoNumber
  <1> SUFFICES ASSUME Init PROVE Inv
    OBVIOUS
  <1>1. ns \in [Ns -> Dentry \cup {None}] /\ ns[""] = 1 /\ ns["nyfs"] = None /\ ns["app"] = None
    BY DEF Init, Ns
  <1>2. vol = NoVolume /\ vol \in [place : Dentry \cup {None}, root : Vnode \cup {None}] /\ ~Mounted
    BY DEF Init, Mounted, NoVolume
  <1>3. NsInv
    BY <1>1 DEF NsInv
  <1>4. MountInv
    BY <1>1, <1>2, InitPools DEF MountInv
  <1>5. HandleInv
    <2>1. NoHandle \in HandleRec /\ NoHandle.held = FALSE
      BY DEF NoHandle, HandleRec
    <2>2. handles \in [Handle -> HandleRec] /\ \A h \in Handle : handles[h] = NoHandle
      BY <2>1 DEF Init
    <2>3. \A h \in Handle : ~handles[h].held
      BY <2>1, <2>2
    <2>4. birth \in [Ino -> Nat] /\ mounts \in Nat
      BY DEF Init
    <2>5. OpenFileKeepsVnode
      BY <2>3 DEF OpenFileKeepsVnode
    <2> QED
      BY <2>2, <2>3, <2>4, <2>5 DEF HandleInv
  <1> QED
    BY <1>1, <1>3, <1>4, <1>5, InitPools, InitDisk DEF Inv

\* Every step
LEMMA NextInv ==
    ASSUME ~SelfRename, ~Remount, Inv, [Next]_vars
    PROVE  Inv'
  <1>1. CASE MountRoot
    BY <1>1, MountRootInv
  <1>2. CASE Unmount
    BY <1>2, UnmountInv
  <1>3. ASSUME NEW n \in Name, MountChild(n) PROVE Inv'
    BY <1>3, MountChildInv
  <1>4. ASSUME NEW p \in Path, Open(p) PROVE Inv'
    BY <1>4, OpenInv
  <1>5. ASSUME NEW p \in Path, NEW kind \in {"FILE", "DIR"}, Make(p, kind) PROVE Inv'
    BY <1>5, MakeInv
  <1>6. ASSUME NEW p \in Path, Unlink(p) PROVE Inv'
    BY <1>6, UnlinkInv
  <1>7. ASSUME NEW p \in Path, RegisterNamespace(p) PROVE Inv'
    BY <1>7, RegisterNamespaceInv
  <1>8. ASSUME NEW p \in Path, NEW q \in Path, Rename(p, q) PROVE Inv'
    BY <1>8, RenameInv
  <1>9. ASSUME NEW h \in Handle, Reopen(h) PROVE Inv'
    BY <1>9, ReopenInv
  <1>10. ASSUME NEW h \in Handle, Close(h) PROVE Inv'
    BY <1>10, CloseInv
  <1>11. CASE UNCHANGED vars
    <2>1. UNCHANGED <<mem, ns, vol, tree, birth, handles, mounts>>
      BY <1>11 DEF vars
    <2>2. MountInv' /\ NsInv'
      BY <2>1 DEF Inv, MountInv, NsInv, Mounted, NoVolume
    <2>3. HandleInv'
      BY <2>1 DEF Inv, HandleInv, OpenFileKeepsVnode, Mounted, NoVolume
    <2>4. PoolInv(mem, ns["nyfs"])' /\ CacheInv(mem, ns["nyfs"], tree)' /\ DiskInv(tree)'
      BY <2>1 DEF Inv
    <2> QED
      BY <2>2, <2>3, <2>4 DEF Inv
  <1> QED
    BY <1>1, <1>2, <1>3, <1>4, <1>5, <1>6, <1>7, <1>8, <1>9, <1>10, <1>11 DEF Next

\* The pools, the cache, the disk, the mount, the namespaces and the handles stay in order, whatever
\* calls are made, and wherever they give up: for pools, disks and paths of every size. A name is not
\* renamed to itself, and the disk is not mounted below "/" once it was mounted at "nyfs:/".
THEOREM VfsInvariant ==
    ASSUME ~SelfRename, ~Remount
    PROVE  Spec => []Inv
  <1>1. Init => Inv
    BY InitInv
  <1>2. Inv /\ [Next]_vars => Inv'
    BY NextInv
  <1> QED
    BY <1>1, <1>2, PTL DEF Spec

-----------------------------------------------------------------------------
(***************************************************************************)
(* The properties                                                          *)
(***************************************************************************)
\* h is the course of the search for the dentries below those of A, turn by turn.
ReachCourse(h, m, A) ==
    h = [k \in 0 .. MaxDentries |->
           IF k = 0 THEN A ELSE h[k - 1] \cup (UNION {m.dent[d].kids : d \in h[k - 1]})]

\* The search ends with the last set of its course.
LEMMA ReachableIsCourse ==
    Reachable = (CHOOSE h : ReachCourse(h, mem, {ns[s] : s \in Ns} \ {None}))[MaxDentries]
  BY DEF Reachable, ReachCourse

\* What a path can reach is below the roots, or it is the root of a namespace that was removed.
LEMMA ReachableIsLive ==
    ASSUME Inv
    PROVE  Reachable \subseteq LiveOrFree(mem, ns["nyfs"])
  <1> USE NoneIsNoNumber
  <1>1. PICK r, m : r = ns["nyfs"] /\ m = mem
    OBVIOUS
  <1>2. PoolInv(m, r) /\ m \in Memory
    BY <1>1 DEF Inv, PoolInv
  <1>3. PICK N \in Nat : N = MaxDentries
    BY PoolAssumption
  <1>4. Dentry = 1 .. N
    BY <1>3 DEF Dentry
  <1>5. PICK A : A = {ns[s] : s \in Ns} \ {None}
    OBVIOUS
  <1>6. PICK L : L = LiveOrFree(m, r)
    OBVIOUS
  <1>7. A \subseteq L /\ A \in SUBSET (1 .. N)
    <2>1. ns \in [Ns -> Dentry \cup {None}] /\ ns[""] = 1 /\ (ns["app"] # None => ns["app"] \in L)
      BY <1>1, <1>6 DEF Inv, NsInv
    <2>2. Roots(r) \subseteq L
      BY <1>2, <1>6, PoolFacts, LiveFacts DEF LiveOrFree
    <2>3. A \subseteq L
      <3> SUFFICES ASSUME NEW a \in A PROVE a \in L
        OBVIOUS
      <3>1. PICK s \in Ns : a = ns[s] /\ a # None
        BY <1>5
      <3>2. s = "" \/ s = "nyfs" \/ s = "app"
        BY DEF Ns
      <3> QED
        BY <1>1, <2>1, <2>2, <3>1, <3>2 DEF Roots
    <2>4. L \subseteq Dentry
      BY <1>2, <1>6, PoolFacts
    <2> QED
      BY <1>4, <2>3, <2>4
  <1> DEFINE Step(X) == X \cup (UNION {m.dent[d].kids : d \in X})
             G == [X \in SUBSET (1 .. N) |-> Step(X)]
  <1>8. \A X \in SUBSET (1 .. N) : Step(X) \in SUBSET (1 .. N)
    <2> SUFFICES ASSUME NEW X \in SUBSET (1 .. N), NEW d \in X, NEW k \in m.dent[d].kids
                 PROVE  k \in 1 .. N
      OBVIOUS
    <2>1. m.dent[d].kids \in SUBSET Dentry
      BY <1>2, <1>4, MemoryFields
    <2> QED
      BY <1>4, <2>1
  <1>9. \A X \in SUBSET L : Step(X) \in SUBSET L
    <2> SUFFICES ASSUME NEW X \in SUBSET L, NEW d \in X, NEW k \in m.dent[d].kids PROVE k \in L
      OBVIOUS
    <2>1. k \in Live(m, r) \ {1}
      BY <1>2, <1>6, PoolFacts
    <2> QED
      BY <1>6, <2>1 DEF LiveOrFree
  <1>10. G \in [SUBSET (1 .. N) -> SUBSET (1 .. N)]
    BY <1>8
  <1>11. \A X \in SUBSET (1 .. N) : G[X] = Step(X)
    OBVIOUS
  <1> HIDE DEF G
  <1>12. \E h : ReachCourse(h, m, A)
    <2>1. PICK f \in [0 .. N -> SUBSET (1 .. N)] : f[0] = A /\ \A k \in 1 .. N : f[k] = G[f[k - 1]]
      BY <1>7, <1>10, ChainExists
    <2>2. \A k \in 1 .. N : f[k] = Step(f[k - 1])
      <3> SUFFICES ASSUME NEW k \in 1 .. N PROVE f[k] = Step(f[k - 1])
        OBVIOUS
      <3>1. k - 1 \in 0 .. N
        OBVIOUS
      <3>2. f[k - 1] \in SUBSET (1 .. N)
        BY <3>1
      <3> QED
        BY <1>11, <2>1, <3>2
    <2>3. \A k \in 0 .. N : f[k] = IF k = 0 THEN A ELSE Step(f[k - 1])
      <3> HIDE DEF Step
      <3> QED
        BY <2>1, <2>2
    <2>4. f = [k \in 0 .. N |-> f[k]]
      OBVIOUS
    <2>5. f = [k \in 0 .. N |-> IF k = 0 THEN A ELSE Step(f[k - 1])]
      <3> HIDE DEF Step
      <3> QED
        BY <2>3, <2>4
    <2> QED
      BY <1>3, <2>5 DEF ReachCourse
  <1>13. PICK h : h = CHOOSE g : ReachCourse(g, m, A)
    OBVIOUS
  <1>14. ReachCourse(h, m, A)
    BY <1>12, <1>13
  <1>15. h = [k \in 0 .. N |-> IF k = 0 THEN A ELSE Step(h[k - 1])]
    BY <1>3, <1>14 DEF ReachCourse
  <1>16. h[0] = A /\ \A k \in 1 .. N : h[k] = Step(h[k - 1])
    <2> HIDE DEF Step
    <2>1. \A k \in 0 .. N : h[k] = IF k = 0 THEN A ELSE Step(h[k - 1])
      BY <1>15
    <2>2. \A k \in 1 .. N : k \in 0 .. N /\ k # 0
      OBVIOUS
    <2>3. \A k \in 1 .. N : h[k] = Step(h[k - 1])
      BY ONLY <2>1, <2>2
    <2>4. 0 \in 0 .. N
      OBVIOUS
    <2> QED
      BY <2>1, <2>3, <2>4
  <1>17. PICK I : I = SUBSET L
    OBVIOUS
  <1>18. \A k \in 0 .. N : h[k] \in I
    <2> HIDE DEF Step
    <2>1. h[0] \in I
      BY <1>7, <1>16, <1>17
    <2>2. \A k \in 1 .. N : h[k - 1] \in I => h[k] \in I
      BY <1>9, <1>16, <1>17
    <2> QED
      BY <2>1, <2>2, IterationKeeps
  <1>19. N \in 0 .. N
    OBVIOUS
  <1>20. Reachable = h[N]
    <2>1. Reachable = (CHOOSE g : ReachCourse(g, m, A))[N]
      BY <1>1, <1>3, <1>5, ReachableIsCourse
    <2> QED
      BY <1>13, <2>1
  <1> QED
    BY <1>1, <1>6, <1>17, <1>18, <1>19, <1>20

\* The cache agrees with the disk on every path.
LEMMA CacheAgreesHolds == Inv => CacheAgrees
  <1> SUFFICES ASSUME Inv, Mounted, NEW d \in Reachable, NEW k \in mem.dent[d].kids,
                      InoOf(mem, d) # None
               PROVE  /\ InoOf(mem, k) # None
                      /\ InoOf(mem, k) = tree[InoOf(mem, d)].ents[mem.dent[k].name]
    BY DEF CacheAgrees
  <1>1. PICK r, m : r = ns["nyfs"] /\ m = mem
    OBVIOUS
  <1>2. PoolInv(m, r) /\ CacheInv(m, r, tree) /\ DiskInv(tree)
    BY <1>1 DEF Inv
  <1>3. d \in LiveOrFree(m, r)
    BY <1>1, ReachableIsLive
  <1>4. d \in Live(m, r) \ {1}
    BY <1>1, <1>2, <1>3, PoolFacts
  <1>5. Expected(m, r, d) = InoOf(m, d)
    BY <1>1, <1>2, <1>4, CacheFacts
  <1>6. InoOf(m, k) = tree[Expected(m, r, d)].ents[m.dent[k].name] /\ InoOf(m, k) # None
    BY <1>1, <1>2, <1>4, CacheFacts
  <1> QED
    BY <1>1, <1>5, <1>6

\* A vnode in use has one dentry.
LEMMA VnodesOwnedOnceHolds == Inv => VnodesOwnedOnce
  <1> DEFINE owners(v) == {d \in Dentry : mem.dent[d].used /\ mem.dent[d].node = v}
  <1> SUFFICES ASSUME Inv, NEW v \in Vnode, mem.vnode[v] # None
               PROVE  /\ Cardinality(owners(v)) = 1
                      /\ mem.data[mem.vnode[v]] # None
                      /\ \A u \in Vnode \ {v} : mem.vnode[u] # mem.vnode[v]
    BY DEF VnodesOwnedOnce
  <1> USE NoneIsNoNumber
  <1>1. PICK r, m : r = ns["nyfs"] /\ m = mem
    OBVIOUS
  <1>2. PoolInv(m, r)
    BY <1>1 DEF Inv
  <1>3. m.data[m.vnode[v]] # None /\ \E d \in Dentry : m.dent[d].node = v
    BY <1>1, <1>2 DEF PoolInv
  <1>4. PICK d \in Dentry : m.dent[d].node = v
    BY <1>3
  <1>5. m.dent[d].used
    BY <1>2, <1>4, PoolFacts
  <1>6. \A e \in Dentry : m.dent[e].node = v => e = d
    BY <1>2, <1>4 DEF PoolInv
  <1>7. owners(v) = {d}
    BY <1>1, <1>4, <1>5, <1>6
  <1>8. Cardinality(owners(v)) = 1
    <2> HIDE DEF owners
    <2> QED
      BY <1>7, FS_Singleton
  <1>9. \A u \in Vnode \ {v} : m.vnode[u] # m.vnode[v]
    BY <1>1, <1>2 DEF PoolInv
  <1> QED
    BY <1>1, <1>3, <1>8, <1>9

\* h is the course of the search for the names below the root of the disk.
DiskCourse(h, T) ==
    h = [k \in 0 .. MaxInodes |->
           IF k = 0 THEN {Root}
           ELSE h[k - 1] \cup ((UNION {{T[i].ents[n] : n \in Name} : i \in h[k - 1]}) \ {None})]

\* DiskIsTree with that name.
LEMMA DiskIsCourse ==
    DiskIsTree <=>
        \A i \in Ino : tree[i].kind # "NONE" => i \in (CHOOSE h : DiskCourse(h, tree))[MaxInodes]
  BY DEF DiskIsTree, DiskCourse

\* Every inode in use is found below the root.
LEMMA DiskIsTreeHolds == Inv => DiskIsTree
  <1> USE NoneIsNoNumber
  <1> SUFFICES ASSUME Inv PROVE DiskIsTree
    OBVIOUS
  <1>1. PICK T : T = tree
    OBVIOUS
  <1>2. DiskInv(T) /\ T \in [Ino -> InodeRec]
    BY <1>1 DEF Inv, DiskInv
  <1>3. PICK N \in Nat : N = MaxInodes
    BY PoolAssumption
  <1>4. Ino = 1 .. N
    BY <1>3 DEF Ino
  <1> DEFINE Step(X) == X \cup ((UNION {{T[i].ents[n] : n \in Name} : i \in X}) \ {None})
             G == [X \in SUBSET (1 .. N) |-> Step(X)]
  <1>a. \A X, j : j \in Step(X) <=> j \in X \/ (j # None /\ \E i \in X, n \in Name : j = T[i].ents[n])
    OBVIOUS
  <1>5. \A i \in Ino, n \in Name : T[i].ents[n] \in Ino \cup {None}
    BY <1>2, InodeFields
  <1>6. \A X \in SUBSET (1 .. N) : Step(X) \in SUBSET (1 .. N) /\ X \subseteq Step(X)
    <2> SUFFICES ASSUME NEW X \in SUBSET (1 .. N)
                 PROVE  Step(X) \in SUBSET (1 .. N) /\ X \subseteq Step(X)
      OBVIOUS
    <2>1. ASSUME NEW j \in Step(X) PROVE j \in 1 .. N
      <3>1. CASE j \in X
        BY <3>1
      <3>2. CASE j \notin X
        <4>1. PICK i \in X, n \in Name : j = T[i].ents[n] /\ j # None
          BY <1>a, <3>2
        <4> QED
          BY <1>4, <1>5, <4>1
      <3> QED
        BY <3>1, <3>2
    <2> QED
      BY <2>1
  <1>7. G \in [SUBSET (1 .. N) -> SUBSET (1 .. N)]
    BY <1>6
  <1>8. \A X \in SUBSET (1 .. N) : G[X] = Step(X) /\ X \subseteq G[X]
    BY <1>6
  <1>9. PICK A \in SUBSET (1 .. N) : A = {Root} /\ A # {}
    BY <1>4
  <1> HIDE DEF G
  <1>10. \E h : DiskCourse(h, T)
    <2>1. PICK f \in [0 .. N -> SUBSET (1 .. N)] : f[0] = A /\ \A k \in 1 .. N : f[k] = G[f[k - 1]]
      BY <1>7, ChainExists
    <2>2. \A k \in 1 .. N : f[k] = Step(f[k - 1])
      <3> SUFFICES ASSUME NEW k \in 1 .. N PROVE f[k] = Step(f[k - 1])
        OBVIOUS
      <3>1. k - 1 \in 0 .. N
        OBVIOUS
      <3>2. f[k - 1] \in SUBSET (1 .. N)
        BY <3>1
      <3> QED
        BY <1>8, <2>1, <3>2
    <2>3. \A k \in 0 .. N : f[k] = IF k = 0 THEN {Root} ELSE Step(f[k - 1])
      <3> HIDE DEF Step
      <3> QED
        BY <1>9, <2>1, <2>2
    <2>4. f = [k \in 0 .. N |-> f[k]]
      OBVIOUS
    <2>5. f = [k \in 0 .. N |-> IF k = 0 THEN {Root} ELSE Step(f[k - 1])]
      <3> HIDE DEF Step
      <3> QED
        BY <2>3, <2>4
    <2> QED
      BY <1>3, <2>5 DEF DiskCourse
  <1>11. PICK h : h = CHOOSE g : DiskCourse(g, T)
    OBVIOUS
  <1>12. DiskCourse(h, T)
    BY <1>10, <1>11
  <1>13. h = [k \in 0 .. N |-> IF k = 0 THEN {Root} ELSE Step(h[k - 1])]
    BY <1>3, <1>12 DEF DiskCourse
  <1>14. h[0] = A /\ \A k \in 1 .. N : h[k] = Step(h[k - 1])
    <2> HIDE DEF Step
    <2>1. \A k \in 0 .. N : h[k] = IF k = 0 THEN {Root} ELSE Step(h[k - 1])
      BY <1>13
    <2>2. \A k \in 1 .. N : k \in 0 .. N /\ k # 0
      OBVIOUS
    <2>3. \A k \in 1 .. N : h[k] = Step(h[k - 1])
      BY ONLY <2>1, <2>2
    <2>4. 0 \in 0 .. N
      OBVIOUS
    <2> QED
      BY <1>9, <2>1, <2>3, <2>4
  <1>15. h = [k \in 0 .. N |-> h[k]]
    BY <1>13
  <1>16. \A k \in 1 .. N : h[k - 1] \in SUBSET (1 .. N) => h[k] = G[h[k - 1]]
    <2> HIDE DEF Step
    <2> QED
      BY <1>8, <1>14
  <1>17. h[N] \in SUBSET (1 .. N) /\ A \subseteq h[N] /\ G[h[N]] = h[N]
    <2> HIDE DEF Step
    <2>1. IsChain(h, N, A, G)
      BY <1>14, <1>15, <1>16 DEF IsChain
    <2>2. \A X \in SUBSET (1 .. N) : X \subseteq G[X]
      BY <1>8
    <2>3. A \in SUBSET (1 .. N) /\ A # {}
      BY <1>9
    <2> QED
      BY ONLY N \in Nat, <1>7, <2>1, <2>2, <2>3, ChainIs
  <1>18. PICK X \in SUBSET Ino : X = h[N]
    BY <1>4, <1>17
  <1>19. Step(X) = X /\ Root \in X
    BY <1>8, <1>9, <1>17, <1>18
  <1>20. \A i \in X, n \in Name : T[i].ents[n] # None => T[i].ents[n] \in X
    <2> SUFFICES ASSUME NEW i \in X, NEW n \in Name, T[i].ents[n] # None PROVE T[i].ents[n] \in Step(X)
      BY <1>19
    <2> QED
      BY <1>a
  <1>21. \A i \in Ino : T[i].kind # "NONE" => i \in X
    <2> HIDE DEF Step
    <2> QED
      BY <1>2, <1>19, <1>20 DEF DiskInv
  <1> QED
    <2>1. DiskIsTree <=>
            \A i \in Ino : tree[i].kind # "NONE" => i \in (CHOOSE g : DiskCourse(g, T))[N]
      BY <1>1, <1>3, DiskIsCourse
    <2> QED
      BY <1>1, <1>11, <1>18, <1>21, <2>1

\* The pools hold what their types say.
LEMMA TypeOKHolds == Inv => TypeOK
  <1> SUFFICES ASSUME Inv PROVE TypeOK
    OBVIOUS
  <1>1. mem \in Memory /\ \A d \in Dentry : ~mem.dent[d].used => mem.dent[d] = FreeDentry
    BY DEF Inv, PoolInv
  <1>2. \A d \in Dentry : ~mem.dent[d].used => mem.dent[d].node = None /\ mem.dent[d].kids = {}
    BY <1>1 DEF FreeDentry
  <1>3. /\ mem.dent \in [Dentry -> DentryRec]
        /\ mem.vnode \in [Vnode -> Data \cup {None}]
        /\ mem.data \in [Data -> Ino \cup {None}]
    BY <1>1, MemoryFields
  <1>4. handles \in [Handle -> HandleRec] /\ ns \in [Ns -> Dentry \cup {None}]
    BY DEF Inv, HandleInv, NsInv
  <1> QED
    BY <1>2, <1>3, <1>4 DEF TypeOK, DentryRec, HandleRec

\* Every child list holds live dentries.
LEMMA ListsHold == Inv => ListsHoldLiveDentries
  BY DEF Inv, PoolInv, ListsHoldLiveDentries

\* While the disk is mounted, a name in the cache is the inode the disk has under it: after every
\* create, unlink and rename, for every cached path, every namespace that was registered, and every
\* dentry that was freed and used again.
THEOREM CacheAgreesSafe ==
    ASSUME ~SelfRename, ~Remount
    PROVE  Spec => []CacheAgrees
  <1>1. Spec => []Inv
    BY VfsInvariant
  <1> QED
    BY <1>1, CacheAgreesHolds, PTL

\* No call loses a vnode or shares one, in whatever pool it runs out of room.
THEOREM VnodesSafe ==
    ASSUME ~SelfRename, ~Remount
    PROVE  Spec => []VnodesOwnedOnce
  <1>1. Spec => []Inv
    BY VfsInvariant
  <1> QED
    BY <1>1, VnodesOwnedOnceHolds, PTL

\* No rename takes a directory off the tree of the disk: the loop over the parents of cached dentries
\* is enough, although the driver compares one inode number only.
THEOREM DiskTreeSafe ==
    ASSUME ~SelfRename, ~Remount
    PROVE  Spec => []DiskIsTree
  <1>1. Spec => []Inv
    BY VfsInvariant
  <1> QED
    BY <1>1, DiskIsTreeHolds, PTL

\* An open file keeps its vnode as long as the disk has the file, whatever it is renamed to.
THEOREM OpenFilesSafe ==
    ASSUME ~SelfRename, ~Remount
    PROVE  Spec => []OpenFileKeepsVnode
  <1>1. Spec => []Inv
    BY VfsInvariant
  <1>2. Inv => OpenFileKeepsVnode
    BY DEF Inv, HandleInv
  <1> QED
    BY <1>1, <1>2, PTL

\* A free dentry is in no list, and every other one in the list of its parent alone.
THEOREM ListsSafe ==
    ASSUME ~SelfRename, ~Remount
    PROVE  Spec => []ListsHoldLiveDentries
  <1>1. Spec => []Inv
    BY VfsInvariant
  <1> QED
    BY <1>1, ListsHold, PTL

\* Every pool holds what its type says.
THEOREM TypeSafe ==
    ASSUME ~SelfRename, ~Remount
    PROVE  Spec => []TypeOK
  <1>1. Spec => []Inv
    BY VfsInvariant
  <1> QED
    BY <1>1, TypeOKHolds, PTL
=============================================================================
