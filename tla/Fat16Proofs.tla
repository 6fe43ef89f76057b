------------------------------ MODULE Fat16Proofs ------------------------------
(***************************************************************************)
(* Proofs about the FAT16 driver, for any number and contents of disks,    *)
(* any size of sectors and volumes and any sequence of calls. The          *)
(* invariant FatInv has four parts: types, geometries that fit, pools that *)
(* balance, and a read that follows its chain; VerifiedInv adds, without   *)
(* StaleReads, that a call calculates with a geometry that was checked.    *)
(* What the recursion of fat16_get_nth_cluster computes is shown with the  *)
(* least number for which it would fail.                                   *)
(***************************************************************************)
EXTENDS Fat16, NatFacts, TLAPS

(***************************************************************************)
(* Chains: the walk of fat16_get_nth_cluster, by the least counterexample  *)
(***************************************************************************)
\* Where the table leads from k on a volume with K clusters: a number that is no cluster of the
\* volume leads nowhere.
Follow(K, F, k) == IF k >= 2 /\ k < K + 2 THEN F[k] ELSE k

\* f is the walk of n steps that starts with cluster a.
IsWalk(f, K, F, a, n) == f = [i \in 0 .. n |-> IF i = 0 THEN a ELSE Follow(K, F, f[i - 1])]

\* The table leads to a number.
LEMMA FollowType ==
    ASSUME NEW K \in Nat, K <= MaxClusters, NEW F \in [Cluster -> Nat], NEW k \in Nat
    PROVE  Follow(K, F, k) \in Nat
  <1>1. CASE k >= 2 /\ k < K + 2
    <2>1. k \in Cluster
      BY <1>1, SizeAssumption DEF Cluster
    <2> QED
      BY <1>1, <2>1 DEF Follow
  <1>2. CASE ~(k >= 2 /\ k < K + 2)
    BY <1>2 DEF Follow
  <1> QED
    BY <1>1, <1>2

\* There is a walk of every length.
LEMMA WalkExists ==
    ASSUME NEW K \in Nat, K <= MaxClusters, NEW F \in [Cluster -> Nat], NEW a \in Nat,
           NEW n \in Nat
    PROVE  \E f \in [0 .. n -> Nat] : IsWalk(f, K, F, a, n)
  <1> DEFINE S == {m \in Nat : ~ \E f \in [0 .. m -> Nat] : IsWalk(f, K, F, a, m)}
  <1>1. SUFFICES ASSUME S # {} PROVE FALSE
    OBVIOUS
  <1>2. S \in SUBSET Nat
    OBVIOUS
  <1>3. PICK m \in S : \A y \in S : m <= y
    <2> HIDE DEF S
    <2> QED
      BY <1>1, <1>2, LeastNatural
  <1>4. m \in Nat /\ ~ \E f \in [0 .. m -> Nat] : IsWalk(f, K, F, a, m)
    BY <1>3
  <1>5. CASE m = 0
    <2> DEFINE f == [i \in 0 .. m |-> a]
    <2>1. f \in [0 .. m -> Nat]
      OBVIOUS
    <2>2. f = [i \in 0 .. m |-> IF i = 0 THEN a ELSE Follow(K, F, f[i - 1])]
      BY <1>5
    <2> HIDE DEF f
    <2> QED
      BY <1>4, <2>1, <2>2 DEF IsWalk
  <1>6. CASE m # 0
    <2>1. m - 1 \in Nat /\ ~(m <= m - 1)
      BY <1>4, <1>6
    <2>2. m - 1 \notin S
      BY <1>3, <2>1
    <2>3. PICK h \in [0 .. m - 1 -> Nat] : IsWalk(h, K, F, a, m - 1)
      BY <2>1, <2>2
    <2> HIDE DEF S
    <2>4. PICK last \in Nat : last = Follow(K, F, h[m - 1])
      <3>1. h[m - 1] \in Nat
        BY <2>1
      <3> QED
        BY <3>1, FollowType
    <2> DEFINE f == [i \in 0 .. m |-> IF i = m THEN last ELSE h[i]]
    <2>5. f \in [0 .. m -> Nat]
      BY <1>4
    <2>6. \A i \in 0 .. m - 1 : f[i] = h[i]
      BY <1>4
    <2>7. f[m] = last
      BY <1>4
    <2>8. \A i \in 0 .. m - 1 : h[i] = IF i = 0 THEN a ELSE Follow(K, F, h[i - 1])
      BY <2>3 DEF IsWalk
    <2> HIDE DEF f
    <2>9. \A i \in 0 .. m : f[i] = IF i = 0 THEN a ELSE Follow(K, F, f[i - 1])
      <3> SUFFICES ASSUME NEW i \in 0 .. m
                   PROVE  f[i] = IF i = 0 THEN a ELSE Follow(K, F, f[i - 1])
        OBVIOUS
      <3>1. CASE i = m
        <4>1. f[i - 1] = h[m - 1] /\ i # 0
          BY <1>4, <1>6, <2>1, <2>6, <3>1
        <4> QED
          BY <2>4, <2>7, <3>1, <4>1
      <3>2. CASE i # m
        <4>1. i \in 0 .. m - 1
          BY <1>4, <3>2
        <4>2. i # 0 => i - 1 \in 0 .. m - 1
          BY <1>4, <4>1
        <4>3. i # 0 => f[i - 1] = h[i - 1]
          BY <2>6, <4>2
        <4> QED
          BY <2>6, <2>8, <4>1, <4>3
      <3> QED
        BY <3>1, <3>2
    <2>10. IsWalk(f, K, F, a, m)
      BY <2>5, <2>9 DEF IsWalk
    <2> QED
      BY <1>4, <2>5, <2>10
  <1> QED
    BY <1>5, <1>6

\* The places of a walk.
LEMMA WalkPlaces ==
    ASSUME NEW f, NEW K, NEW F, NEW a, NEW n \in Nat, IsWalk(f, K, F, a, n)
    PROVE  f[0] = a /\ \A i \in 1 .. n : f[i] = Follow(K, F, f[i - 1])
  <1>1. \A i \in 0 .. n : f[i] = IF i = 0 THEN a ELSE Follow(K, F, f[i - 1])
    BY DEF IsWalk
  <1>2. 0 \in 0 .. n /\ \A i \in 1 .. n : i \in 0 .. n /\ i # 0
    OBVIOUS
  <1> QED
    BY <1>1, <1>2

\* Walks that start at the same cluster go the same way.
LEMMA WalkUnique ==
    ASSUME NEW K, NEW F, NEW a, NEW n \in Nat, NEW m \in Nat, NEW f, NEW h,
           IsWalk(f, K, F, a, n), IsWalk(h, K, F, a, m),
           NEW i \in Nat, i <= n, i <= m
    PROVE  f[i] = h[i]
  <1> DEFINE S == {j \in Nat : j <= n /\ j <= m /\ f[j] # h[j]}
  <1>1. SUFFICES ASSUME S # {} PROVE FALSE
    OBVIOUS
  <1>2. PICK j \in S : \A y \in S : j <= y
    <2>1. S \in SUBSET Nat
      OBVIOUS
    <2> HIDE DEF S
    <2> QED
      BY <1>1, <2>1, LeastNatural
  <1>3. j \in Nat /\ j <= n /\ j <= m /\ f[j] # h[j]
    BY <1>2
  <1>4. /\ f[0] = a /\ \A k \in 1 .. n : f[k] = Follow(K, F, f[k - 1])
        /\ h[0] = a /\ \A k \in 1 .. m : h[k] = Follow(K, F, h[k - 1])
    BY WalkPlaces
  <1>5. j # 0
    BY <1>3, <1>4
  <1>6. j - 1 \in Nat /\ j - 1 <= n /\ j - 1 <= m /\ ~(j <= j - 1) /\ j \in 1 .. n /\ j \in 1 .. m
    BY <1>3, <1>5
  <1>7. f[j - 1] = h[j - 1]
    BY <1>2, <1>6
  <1> QED
    BY <1>3, <1>4, <1>6, <1>7

(***************************************************************************)
(* Types and the geometry of a volume                                      *)
(***************************************************************************)
\* The geometry of a volume.
Geo == [firstFat : Nat, firstRoot : Nat, firstData : Nat, rootSectors : Nat, spc : Nat,
        fatSize : Nat, total : Nat, clusters : Nat]
\* An element of the pool of devices.
Device == [used : BOOLEAN, disk : Disk \cup {None}, root : Data \cup {None}, geo : Geo,
           mount : Nat]
\* An element of the pool of vnode data; a handle has a copy of one.
VnodeData == [dev : Dev \cup {None}, dir : BOOLEAN, first : Nat, size : Nat, mount : Nat,
              root : BOOLEAN]
\* The frame of the call in progress.
Call == [pc : {"idle", "boot", "root", "vfs", "scanroot", "scan", "read", "done", "panic"},
         dev : Dev \cup {None}, at : Data \cup {None}, name : Name \cup {""}, cluster : Nat,
         len : Nat, handle : Handle \cup {None}, from : Nat, todo : Nat, buf : Seq(Nat),
         status : {"none", "ok", "corrupted", "failed"}]

\* The types, and that whatever refers to a device refers to one there is.
TypeInv ==
    /\ image \in [Disk -> Image]
    /\ dev \in [Dev -> Device]
    /\ data \in [Data -> VnodeData]
    /\ nodes \subseteq Data
    /\ handle \in [Handle -> VnodeData]
    /\ c \in Call
    /\ mounts \in Nat
    /\ c.pc # "idle" => c.dev \in Dev
    /\ \A s \in Data : data[s] # NoEntry => data[s].dev \in Dev
    /\ \A h \in Handle : handle[h] # NoEntry => handle[h].dev \in Dev
    /\ \A x \in Dev : dev[x].used => dev[x].disk \in Disk

\* The parts of a volume lie behind each other, inside it, and its table has all its entries.
Fits(g) ==
    /\ g.spc > 0 /\ g.clusters <= MaxClusters
    /\ g.firstData = g.firstRoot + g.rootSectors
    /\ g.firstData + g.clusters * g.spc <= g.total
    /\ (g.clusters + 2) * 2 <= g.fatSize * SectorSize

\* Every volume that passed the checks of its boot sector fits, and calls work on devices in use.
GeoInv ==
    /\ \A x \in Dev : dev[x].used /\ ~(c.pc = "boot" /\ c.dev = x) => Fits(dev[x].geo)
    /\ c.pc \in {"boot", "root", "vfs", "scanroot", "scan"} => dev[c.dev].used

\* The geometry of any boot sector.
LEMMA GeometryType ==
    ASSUME NEW b \in Boot
    PROVE  Geometry(b) \in Geo
  <1> DEFINE rs == (b.rootEntries * EntrySize + SectorSize - 1) \div SectorSize
             fr == b.reserved + b.fats * b.fatSize
             cl == IF b.spc = 0 \/ b.total < fr + rs THEN 0 ELSE (b.total - (fr + rs)) \div b.spc
  <1>1. /\ b.rootEntries \in Nat /\ b.reserved \in Nat /\ b.fats \in Nat /\ b.fatSize \in Nat
        /\ b.spc \in Nat /\ b.total \in Nat
    BY DEF Boot
  <1>2. rs \in Nat
    <2>1. PICK a \in Nat : a = b.rootEntries * EntrySize + SectorSize - 1
      <3>1. b.rootEntries * EntrySize \in Nat
        BY <1>1, SizeAssumption
      <3> QED
        BY <3>1, SizeAssumption
    <2>2. a \div SectorSize \in Nat
      BY SizeAssumption, DivFacts
    <2> QED
      BY <2>1, <2>2
  <1>3. fr \in Nat
    <2>1. b.fats * b.fatSize \in Nat
      BY <1>1
    <2> QED
      BY <1>1, <2>1
  <1> HIDE DEF rs, fr
  <1>4. cl \in Nat
    <2>1. CASE b.spc = 0 \/ b.total < fr + rs
      BY <2>1
    <2>2. CASE b.spc # 0 /\ ~(b.total < fr + rs)
      <3>1. PICK a \in Nat : a = b.total - (fr + rs)
        BY <1>1, <1>2, <1>3, <2>2
      <3>2. a \div b.spc \in Nat
        BY <1>1, <2>2, DivFacts
      <3> QED
        BY <2>2, <3>1, <3>2
    <2> QED
      BY <2>1, <2>2
  <1> HIDE DEF cl
  <1>5. Geometry(b) = [firstFat |-> b.reserved, firstRoot |-> fr, firstData |-> fr + rs,
                       rootSectors |-> rs, spc |-> b.spc, fatSize |-> b.fatSize,
                       total |-> b.total, clusters |-> cl]
    BY DEF Geometry, fr, rs, cl
  <1>6. fr + rs \in Nat
    BY <1>2, <1>3
  <1> QED
    BY <1>1, <1>2, <1>3, <1>4, <1>5, <1>6 DEF Geo

\* The checks of fat16_load_boot_sector leave only volumes whose parts fit.
LEMMA GeometryFits ==
    ASSUME NEW b \in Boot, BootOk(b)
    PROVE  Fits(Geometry(b))
  <1> DEFINE g == Geometry(b)
  <1>1. g \in Geo
    BY GeometryType
  <1>2. /\ IsPowerOf2(b.spc) /\ b.total > g.firstData
        /\ g.clusters \in MinClusters .. MaxClusters
        /\ b.fatSize * SectorSize >= (g.clusters + 2) * 2
    BY DEF BootOk
  <1>3. /\ g.spc = b.spc /\ g.total = b.total /\ g.fatSize = b.fatSize
        /\ g.firstData = g.firstRoot + g.rootSectors
        /\ g.clusters = IF b.spc = 0 \/ b.total < g.firstData THEN 0
                        ELSE (b.total - g.firstData) \div b.spc
    BY DEF Geometry
  <1> HIDE DEF g
  <1>4. /\ g.firstData \in Nat /\ g.clusters \in Nat /\ g.spc \in Nat /\ g.total \in Nat
        /\ g.fatSize \in Nat
    BY <1>1 DEF Geo
  <1>5. g.spc > 0
    BY <1>2, <1>3 DEF IsPowerOf2
  <1>6. PICK a \in Nat : a = g.total - g.firstData
    BY <1>2, <1>3, <1>4
  <1>7. g.clusters = a \div g.spc
    BY <1>2, <1>3, <1>4, <1>5, <1>6
  <1>8. g.spc * (a \div g.spc) <= a
    <2>1. PICK d \in Nat \ {0} : d = g.spc
      BY <1>4, <1>5
    <2>2. a \div d \in Nat /\ (a % d) \in 0 .. d - 1 /\ a = d * (a \div d) + (a % d)
      BY DivFacts
    <2>3. PICK q \in Nat, r \in Nat : q = a \div d /\ r = (a % d) /\ a = d * q + r
      BY <2>2
    <2>4. d * q \in Nat
      OBVIOUS
    <2>5. d * q <= a
      BY <2>3, <2>4
    <2> QED
      BY <2>1, <2>3, <2>5
  <1>9. g.firstData + g.clusters * g.spc <= g.total
    <2>1. g.clusters * g.spc <= a /\ g.clusters * g.spc \in Nat
      BY <1>4, <1>7, <1>8
    <2> QED
      BY <1>4, <1>6, <2>1
  <1>10. g.clusters <= MaxClusters /\ (g.clusters + 2) * 2 <= g.fatSize * SectorSize
    BY <1>2, <1>3, <1>4, SizeAssumption
  <1> QED
    BY <1>3, <1>5, <1>9, <1>10 DEF Fits, g

\* The first free element of a pool is a free element of it.
LEMMA LeastIn ==
    ASSUME NEW S \in SUBSET Nat, S # {}
    PROVE  Least(S) \in S
  <1>1. \E x \in S : \A y \in S : x <= y
    BY LeastNatural
  <1> QED
    BY <1>1 DEF Least

\* fat16_scan_sector finds an entry of the directory, or none.
LEMMA ScanType ==
    ASSUME NEW e \in Seq(DirEntry), NEW n
    PROVE  /\ Scan(e, n) \in DirEntry
           /\ Scan(e, n) \notin {End, Skip} =>
                Scan(e, n) \in [name : STRING, dir : BOOLEAN, first : Nat, size : Nat]
  <1> DEFINE stop == {j \in DOMAIN e : e[j] = End \/ e[j].name = n}
  <1>1. CASE stop = {}
    BY <1>1 DEF Scan, DirEntry
  <1>2. CASE stop # {}
    <2>1. stop \in SUBSET Nat /\ stop \subseteq DOMAIN e
      OBVIOUS
    <2>2. Scan(e, n) = e[Least(stop)]
      BY <1>2 DEF Scan
    <2> HIDE DEF stop
    <2>3. Least(stop) \in DOMAIN e
      BY <1>2, <2>1, LeastIn
    <2> QED
      BY <2>2, <2>3 DEF DirEntry
  <1> QED
    BY <1>1, <1>2

\* The parts of a call and of the tables.
LEMMA TypeParts ==
    ASSUME TypeInv
    PROVE  /\ c.pc \in {"idle", "boot", "root", "vfs", "scanroot", "scan", "read", "done", "panic"}
           /\ c.dev \in Dev \cup {None} /\ c.cluster \in Nat /\ c.len \in Nat
           /\ c.handle \in Handle \cup {None} /\ c.from \in Nat /\ c.todo \in Nat
           /\ c.buf \in Seq(Nat)
           /\ \A x \in Dev : /\ dev[x] \in Device /\ dev[x].geo \in Geo
                             /\ dev[x].root \in Data \cup {None} /\ dev[x].mount \in Nat
           /\ \A s \in Data : data[s] \in VnodeData
           /\ \A h \in Handle : handle[h] \in VnodeData
  BY DEF TypeInv, Call, Device

\* The types hold before the first mount.
LEMMA TypeInit == Init => TypeInv
  <1> SUFFICES ASSUME Init PROVE TypeInv
    OBVIOUS
  <1>1. image \in [Disk -> Image]
    BY VolumeAssumption DEF Init
  <1>2. NoGeo \in Geo
    BY DEF NoGeo, Geo
  <1>3. NoDevice \in Device /\ NoEntry \in VnodeData
    BY <1>2 DEF NoDevice, Device, NoEntry, VnodeData
  <1>4. NoCall \in Call /\ NoCall.pc = "idle" /\ ~NoDevice.used
    <2>1. <<>> \in Seq(Nat)
      OBVIOUS
    <2> QED
      BY <2>1 DEF NoCall, Call, NoDevice
  <1> QED
    BY <1>1, <1>3, <1>4 DEF Init, TypeInv

\* The free element that fat16_alloc_vnode_data takes.
LEMMA FreeDataIs ==
    ASSUME TypeInv, FreeData # {}
    PROVE  Least(FreeData) \in Data /\ data[Least(FreeData)] = NoEntry
  <1>1. FreeData \in SUBSET Nat
    BY DEF FreeData, Data
  <1>2. Least(FreeData) \in FreeData
    BY <1>1, LeastIn
  <1> QED
    BY <1>2 DEF FreeData

\* Steps that touch vnode data.
LEMMA TypeData ==
    ASSUME TypeInv, NEW s \in Data, NEW e \in VnodeData, e # NoEntry => e.dev \in Dev,
           data' = [data EXCEPT ![s] = e]
    PROVE  data' \in [Data -> VnodeData] /\ \A r \in Data : data'[r] # NoEntry => data'[r].dev \in Dev
  <1>1. data \in [Data -> VnodeData] /\ \A r \in Data : data[r] # NoEntry => data[r].dev \in Dev
    BY DEF TypeInv
  <1>2. \A r \in Data : data'[r] = IF r = s THEN e ELSE data[r]
    BY <1>1
  <1>3. data' \in [Data -> VnodeData]
    BY <1>1
  <1> QED
    BY <1>1, <1>2, <1>3

\* The data of fat16_free_vnode_data.
LEMMA NoEntryType == NoEntry \in VnodeData /\ NoEntry.dev = None /\ ~NoEntry.root
  BY DEF NoEntry, VnodeData, None

\* The frame of no call.
LEMMA NoCallType == NoCall \in Call /\ NoCall.pc = "idle" /\ NoCall.dev = None
  <1>1. <<>> \in Seq(Nat)
    OBVIOUS
  <1> QED
    BY <1>1 DEF NoCall, Call, None

\* fat16_free_device.
LEMMA FreeDeviceType ==
    ASSUME TypeInv, NEW x \in Dev, FreeDevice(x)
    PROVE  /\ dev' \in [Dev -> Device]
           /\ \A y \in Dev : y # x => dev'[y] = dev[y]
           /\ ~dev'[x].used /\ dev'[x].root = None /\ dev'[x].geo = dev[x].geo
           /\ \A y \in Dev : dev'[y].used => dev'[y].disk \in Disk
  <1>1. dev \in [Dev -> Device] /\ \A y \in Dev : dev[y].used => dev[y].disk \in Disk
    BY DEF TypeInv
  <1>2. dev[x] \in Device
    BY <1>1
  <1>3. PICK r \in Device : r = [dev[x] EXCEPT !.used = FALSE, !.disk = None, !.root = None]
    BY <1>2 DEF Device
  <1>4. dev' = [dev EXCEPT ![x] = r]
    BY <1>1, <1>3 DEF FreeDevice
  <1>5. ~r.used /\ r.root = None /\ r.geo = dev[x].geo
    BY <1>2, <1>3 DEF Device
  <1> QED
    BY <1>1, <1>4, <1>5

\* The error path of a mount and the root of fat16_unmount.
LEMMA RootAfterFailureType ==
    ASSUME TypeInv, c.dev \in Dev, RootAfterFailure
    PROVE  /\ data' \in [Data -> VnodeData] /\ nodes' \subseteq Data
           /\ \A r \in Data : data'[r] # NoEntry => data'[r].dev \in Dev
  <1>1. dev[c.dev].root \in Data \cup {None} /\ nodes \subseteq Data
    BY TypeParts DEF TypeInv
  <1>2. nodes' \subseteq Data
    BY <1>1 DEF RootAfterFailure
  <1>3. CASE dev[c.dev].root = None
    <2>1. data' = data
      BY <1>3 DEF RootAfterFailure
    <2> QED
      BY <1>2, <2>1 DEF TypeInv
  <1>4. CASE dev[c.dev].root # None
    <2>1. data' = [data EXCEPT ![dev[c.dev].root] = NoEntry]
      BY <1>4 DEF RootAfterFailure
    <2>2. PICK s \in Data : s = dev[c.dev].root
      BY <1>1, <1>4
    <2>3. data' = [data EXCEPT ![s] = NoEntry]
      BY <2>1, <2>2
    <2> QED
      BY <1>2, <2>3, NoEntryType, TypeData
  <1> QED
    BY <1>3, <1>4

(***************************************************************************)
(* Lookup                                                                  *)
(***************************************************************************)
\* Steps of a call that change nothing but the call.
LEMMA TypeCall ==
    ASSUME TypeInv, UNCHANGED <<image, dev, data, nodes, handle, mounts>>,
           c' \in Call, c'.pc # "idle" => c'.dev \in Dev
    PROVE  TypeInv'
  BY DEF TypeInv

\* A free vnode data gets an entry of the directory, and a vnode refers to it or none does.
NewEntry ==
    \E s \in Data, r \in VnodeData :
        /\ data[s] = NoEntry /\ r.dev = c.dev /\ ~r.root
        /\ data' = [data EXCEPT ![s] = r]
        /\ nodes' = nodes \/ nodes' = nodes \cup {s}

\* An entry that a lookup has found gets the first free vnode data, and a vnode or none.
LEMMA FoundIs ==
    ASSUME TypeInv, c.dev \in Dev, NEW e, Found(e),
           e \in [name : STRING, dir : BOOLEAN, first : Nat, size : Nat]
    PROVE  /\ c' = NoCall
           /\ \/ data' = data /\ nodes' = nodes
              \/ NewEntry
  <1>1. CASE ~CanFill
    BY <1>1 DEF Found
  <1>2. CASE CanFill
    <2>1. FreeData # {}
      BY <1>2 DEF CanFill
    <2>2. PICK s \in Data : s = Least(FreeData) /\ data[s] = NoEntry
      BY <2>1, FreeDataIs
    <2>3. dev[c.dev].mount \in Nat
      BY TypeParts
    <2>4. PICK r \in VnodeData :
            r = [dev |-> c.dev, dir |-> e.dir, first |-> e.first, size |-> e.size,
                 mount |-> dev[c.dev].mount, root |-> FALSE]
      BY <2>3 DEF VnodeData
    <2>5. r.dev = c.dev /\ ~r.root
      BY <2>4
    <2>6. data' = [data EXCEPT ![s] = r] /\ (nodes' = nodes \/ nodes' = nodes \cup {s})
      BY <1>2, <2>2, <2>4 DEF Found
    <2> QED
      BY <2>2, <2>5, <2>6 DEF Found, NewEntry
  <1> QED
    BY <1>1, <1>2

\* A lookup that ends in the root or in a cluster of a directory.
LEMMA LookupStep ==
    ASSUME TypeInv, GeoInv, ScanRoot \/ ScanCluster
    PROVE  /\ UNCHANGED <<image, dev, handle, mounts>>
           /\ \/ UNCHANGED <<data, nodes>>
              \/ NewEntry
           /\ \/ c' = NoCall
              \/ \E k \in Nat : c' = [c EXCEPT !.cluster = k, !.len = @ + 1]
  <1>0. c.dev \in Dev /\ dev[c.dev].used /\ dev[c.dev].disk \in Disk
    BY DEF ScanRoot, ScanCluster, TypeInv, GeoInv
  <1>1. PICK im \in Image : im = image[dev[c.dev].disk]
    BY <1>0 DEF TypeInv
  <1>2. /\ im.fat \in [Cluster -> Nat] /\ im.root \in Seq(DirEntry)
        /\ im.dir \in [Cluster -> Seq(DirEntry)]
    BY DEF Image
  <1>3. ASSUME NEW ents \in Seq(DirEntry), NEW e, e = Scan(ents, c.name), e \notin {End, Skip},
               Found(e)
        PROVE  /\ c' = NoCall
               /\ \/ data' = data /\ nodes' = nodes
                  \/ NewEntry
    <2>1. e \in [name : STRING, dir : BOOLEAN, first : Nat, size : Nat]
      BY <1>3, ScanType
    <2> QED
      BY <1>0, <1>3, <2>1, FoundIs
  <1>4. CASE ScanRoot
    <2>1. UNCHANGED <<image, dev, handle, mounts>>
      BY <1>4 DEF ScanRoot
    <2>2. PICK e : e = Scan(im.root, c.name)
      OBVIOUS
    <2>3. CASE e \in {End, Skip}
      BY <1>1, <1>4, <2>1, <2>2, <2>3 DEF ScanRoot, NotFound
    <2>4. CASE e \notin {End, Skip}
      <3>1. Found(e)
        BY <1>1, <1>4, <2>2, <2>4 DEF ScanRoot
      <3>2. /\ c' = NoCall
            /\ \/ data' = data /\ nodes' = nodes
               \/ NewEntry
        BY <1>2, <1>3, <2>2, <2>4, <3>1
      <3> QED
        BY <2>1, <3>2
    <2> QED
      BY <2>3, <2>4
  <1>5. CASE ScanCluster
    <2>1. UNCHANGED <<image, dev, handle, mounts>>
      BY <1>5 DEF ScanCluster
    <2>2. CASE ChainTooLong \/ ~ClusterValid(dev[c.dev].geo, c.cluster)
      BY <1>5, <2>1, <2>2 DEF ScanCluster, NotFound
    <2>3. CASE ~(ChainTooLong \/ ~ClusterValid(dev[c.dev].geo, c.cluster))
      <3>1. c.cluster \in Cluster
        <4>1. c.pc = "scan"
          BY <1>5 DEF ScanCluster
        <4>2. Fits(dev[c.dev].geo)
          BY <1>0, <4>1 DEF GeoInv
        <4>3. dev[c.dev].geo.clusters \in Nat /\ dev[c.dev].geo.clusters <= MaxClusters
          BY <1>0, <4>2, TypeParts DEF Fits, Geo
        <4>4. c.cluster \in Nat /\ c.cluster >= 2 /\ c.cluster < dev[c.dev].geo.clusters + 2
          BY <2>3, TypeParts DEF ClusterValid
        <4> QED
          BY <4>3, <4>4, SizeAssumption DEF Cluster
      <3>2. im.dir[c.cluster] \in Seq(DirEntry) /\ im.fat[c.cluster] \in Nat
        BY <1>2, <3>1
      <3>3. PICK e : e = Scan(im.dir[c.cluster], c.name)
        OBVIOUS
      <3>4. CASE e = Skip
        <4>1. /\ UNCHANGED <<data, nodes>>
              /\ \/ c' = NoCall
                 \/ c' = [c EXCEPT !.cluster = im.fat[c.cluster], !.len = @ + 1]
          BY <1>1, <1>5, <2>3, <3>3, <3>4 DEF ScanCluster, FatEntry, ToCluster
        <4> QED
          BY <2>1, <3>2, <4>1
      <3>5. CASE e = End /\ e # Skip
        BY <1>1, <1>5, <2>1, <2>3, <3>3, <3>5 DEF ScanCluster, NotFound
      <3>6. CASE e \notin {End, Skip}
        <4>1. Found(e)
          BY <1>1, <1>5, <2>3, <3>3, <3>6 DEF ScanCluster
        <4>2. /\ c' = NoCall
              /\ \/ data' = data /\ nodes' = nodes
                 \/ NewEntry
          BY <1>3, <3>2, <3>3, <3>6, <4>1
        <4> QED
          BY <2>1, <4>2
      <3> QED
        BY <3>4, <3>5, <3>6
    <2> QED
      BY <2>2, <2>3
  <1> QED
    BY <1>4, <1>5

\* fat16_get_nth_cluster is the walk.
Walk(x, first, n) ==
    CHOOSE f : f = [i \in 0 .. n |->
        IF i = 0 THEN first ELSE Follow(dev[x].geo.clusters, image[dev[x].disk].fat, f[i - 1])]

\* The recursion of NthCluster is that walk.
LEMMA NthIsWalk ==
    ASSUME NEW x, NEW first, NEW index
    PROVE  NthCluster(x, first, index) =
             IF index >= dev[x].geo.clusters \/ ~ClusterValid(dev[x].geo, first) THEN Bad
             ELSE Walk(x, first, index)[index]
  BY DEF NthCluster, Walk, ClusterValid, FatEntry, Follow

\* The cluster numbers of a chain: the first, what the table says of each, and nothing that is a
\* cluster where there is no chain.
LEMMA NthFacts ==
    ASSUME TypeInv, NEW x \in Dev, dev[x].used, Fits(dev[x].geo), NEW first \in Nat
    PROVE  /\ \A i \in Nat : NthCluster(x, first, i) \in Nat
           /\ \A i \in Nat : i >= dev[x].geo.clusters \/ ~ClusterValid(dev[x].geo, first)
                => ~ClusterValid(dev[x].geo, NthCluster(x, first, i))
           /\ ClusterValid(dev[x].geo, first) => NthCluster(x, first, 0) = first
           /\ \A i \in Nat : ClusterValid(dev[x].geo, first) /\ i + 1 < dev[x].geo.clusters
                => NthCluster(x, first, i + 1) =
                     Follow(dev[x].geo.clusters, image[dev[x].disk].fat, NthCluster(x, first, i))
  <1>1. PICK K \in Nat : K = dev[x].geo.clusters /\ K <= MaxClusters
    BY TypeParts DEF Geo, Fits
  <1>2. PICK F \in [Cluster -> Nat] : F = image[dev[x].disk].fat
    BY DEF TypeInv, Image
  <1> DEFINE W(n) == Walk(x, first, n)
             N(n) == NthCluster(x, first, n)
  <1>3. ASSUME NEW n \in Nat PROVE IsWalk(W(n), K, F, first, n)
    <2>1. PICK f \in [0 .. n -> Nat] : IsWalk(f, K, F, first, n)
      BY <1>1, WalkExists
    <2>2. W(n) = CHOOSE h : IsWalk(h, K, F, first, n)
      BY <1>1, <1>2 DEF Walk, IsWalk
    <2> QED
      BY <2>1, <2>2
  <1>4. ASSUME NEW n \in Nat PROVE W(n)[n] \in Nat
    <2>1. PICK f \in [0 .. n -> Nat] : IsWalk(f, K, F, first, n)
      BY <1>1, WalkExists
    <2>2. IsWalk(W(n), K, F, first, n)
      BY <1>3
    <2> HIDE DEF W
    <2>3. n <= n /\ n \in 0 .. n
      OBVIOUS
    <2>4. W(n)[n] = f[n]
      BY <2>1, <2>2, <2>3, WalkUnique
    <2> QED
      BY <2>1, <2>3, <2>4
  <1>5. \A n \in Nat : N(n) = IF n >= K \/ ~ClusterValid(dev[x].geo, first) THEN Bad ELSE W(n)[n]
    BY <1>1, NthIsWalk
  <1>6. Bad \in Nat /\ ~ClusterValid(dev[x].geo, Bad)
    BY <1>1, SizeAssumption DEF Bad, ClusterValid
  <1> HIDE DEF W, N
  <1>7. \A i \in Nat : N(i) \in Nat
    BY <1>4, <1>5, <1>6
  <1>8. \A i \in Nat : i >= K \/ ~ClusterValid(dev[x].geo, first) => ~ClusterValid(dev[x].geo, N(i))
    BY <1>5, <1>6
  <1>9. ClusterValid(dev[x].geo, first) => N(0) = first
    <2> SUFFICES ASSUME ClusterValid(dev[x].geo, first) PROVE N(0) = first
      OBVIOUS
    <2>1. PICK z \in Nat : z = 0
      OBVIOUS
    <2>2. ~(z >= K)
      BY <1>1, <2>1 DEF ClusterValid
    <2>3. N(z) = W(z)[z]
      BY <1>5, <2>2
    <2>4. W(z)[0] = first
      BY <1>3, WalkPlaces
    <2> QED
      BY <2>1, <2>3, <2>4
  <1>10. ASSUME NEW i \in Nat, ClusterValid(dev[x].geo, first), i + 1 < K
         PROVE  N(i + 1) = Follow(K, F, N(i))
    <2>1. PICK j \in Nat : j = i + 1
      OBVIOUS
    <2>2. N(j) = W(j)[j] /\ N(i) = W(i)[i]
      BY <1>5, <1>10, <2>1
    <2>3. IsWalk(W(j), K, F, first, j) /\ IsWalk(W(i), K, F, first, i)
      BY <1>3
    <2>4. j \in 1 .. j /\ j - 1 = i /\ i <= j /\ i <= i
      BY <2>1
    <2>5. W(j)[j] = Follow(K, F, W(j)[i])
      BY <2>3, <2>4, WalkPlaces
    <2>6. W(j)[i] = W(i)[i]
      BY <2>3, <2>4, WalkUnique
    <2> QED
      BY <2>1, <2>2, <2>5, <2>6
  <1> QED
    BY <1>1, <1>2, <1>7, <1>8, <1>9, <1>10 DEF N

(***************************************************************************)
(* The invariants of the pools and of a read                               *)
(***************************************************************************)
\* A device that is in use has a root with its vnode, unless it is being mounted; there are no other
\* roots; every vnode has its data.
PoolInv ==
    /\ \A x \in Dev : dev[x].root # None =>
        /\ dev[x].used /\ dev[x].root \in nodes
        /\ data[dev[x].root].root /\ data[dev[x].root].dev = x
    /\ \A x \in Dev : dev[x].used /\ ~(c.pc \in {"boot", "root"} /\ c.dev = x) => dev[x].root # None
    /\ c.pc \in {"boot", "root"} => dev[c.dev].root = None
    /\ \A s \in Data : data[s].root => \E x \in Dev : dev[x].root = s
    /\ \A s \in nodes : data[s] # NoEntry

\* Cluster number i of the file that is read, and the number in the chain for byte i of the read.
Nth(i)   == NthCluster(c.dev, handle[c.handle].first, i)
Place(i) == (c.from + i - 1) \div ClusterSize(dev[c.dev].geo)

\* The bytes in the buffer are the ones of the chain.
Filled ==
    \A i \in 1 .. Len(c.buf) :
        /\ ClusterValid(dev[c.dev].geo, Nth(Place(i)))
        /\ c.buf[i] = ClusterAddr(dev[c.dev].geo, Nth(Place(i)))
                        + ((c.from + i - 1) % ClusterSize(dev[c.dev].geo))

\* The read in progress or just over: it asks for bytes the file has, the buffer is filled from the
\* chain, it is over with all of its bytes or at a place where the chain has no cluster.
ReadInv ==
    /\ c.pc \in {"read", "done"} =>
        /\ c.handle \in Handle /\ handle[c.handle].dev = c.dev
        /\ c.todo > 0 /\ c.from + c.todo <= handle[c.handle].size
    /\ c.pc = "read" => Len(c.buf) < c.todo
    /\ c.pc = "read" /\ dev[c.dev].used => Filled
    /\ c.pc = "done" /\ c.status = "ok" => Len(c.buf) = c.todo /\ (dev[c.dev].used => Filled)
    /\ c.pc = "done" /\ dev[c.dev].used /\ c.status = "corrupted" =>
         \E i \in 1 .. c.todo : ~ClusterValid(dev[c.dev].geo, Nth(Place(i)))
    /\ c.pc = "done" => c.status # "none"

\* Clusters that fit have a size and an address.
LEMMA ClusterFacts ==
    ASSUME NEW g \in Geo, Fits(g)
    PROVE  /\ ClusterSize(g) \in Nat \ {0}
           /\ \A k \in Nat : ClusterValid(g, k) => ClusterAddr(g, k) \in Nat
  <1>1. g.spc \in Nat \ {0} /\ g.firstData \in Nat /\ SectorSize \in Nat \ {0}
    BY SizeAssumption DEF Geo, Fits
  <1>2. ClusterSize(g) \in Nat \ {0}
    <2>1. PICK a \in Nat \ {0}, b \in Nat \ {0} : a = g.spc /\ b = SectorSize
      BY <1>1
    <2>2. a * b \in Nat \ {0}
      OBVIOUS
    <2> QED
      BY <2>1, <2>2 DEF ClusterSize
  <1>3. ASSUME NEW k \in Nat, ClusterValid(g, k) PROVE ClusterAddr(g, k) \in Nat
    <2>1. PICK j \in Nat : j = k - 2
      BY <1>3 DEF ClusterValid
    <2>2. j * g.spc \in Nat
      BY <1>1
    <2>3. PICK a \in Nat : a = g.firstData + j * g.spc
      BY <1>1, <2>2
    <2>4. a * SectorSize \in Nat
      BY <1>1
    <2> QED
      BY <2>1, <2>3, <2>4 DEF ClusterAddr
  <1> QED
    BY <1>2, <1>3

\* The next turn of the loop of fat16_file_read: bytes of one cluster, at least one, and no more than
\* are left to read.
LEMMA TurnFacts ==
    ASSUME TypeInv, GeoInv, ReadInv, c.pc = "read", dev[c.dev].used
    PROVE  /\ c.dev \in Dev /\ dev[c.dev].geo \in Geo /\ Fits(dev[c.dev].geo)
           /\ Turn.index \in Nat /\ Turn.cluster \in Nat /\ Turn.size \in Nat \ {0}
           /\ Turn.cluster = Nth(Turn.index)
           /\ \E w \in Nat :
                /\ Turn.from = ClusterAddr(dev[c.dev].geo, Turn.cluster) + w
                /\ w + Turn.size <= ClusterSize(dev[c.dev].geo)
                /\ \A i \in 1 .. Turn.size :
                    /\ Place(Len(c.buf) + i) = Turn.index
                    /\ (c.from + (Len(c.buf) + i) - 1) % ClusterSize(dev[c.dev].geo) = w + i - 1
           /\ Len(c.buf) + Turn.size <= c.todo
  <1>1. /\ c.dev \in Dev /\ c.from \in Nat /\ c.todo \in Nat /\ Len(c.buf) \in Nat
        /\ c.handle \in Handle /\ Len(c.buf) < c.todo
    <2>1. c.dev \in Dev /\ c.handle \in Handle /\ Len(c.buf) < c.todo
      BY DEF TypeInv, ReadInv
    <2> QED
      BY <2>1, TypeParts
  <1>2. PICK g \in Geo : g = dev[c.dev].geo /\ Fits(g)
    BY <1>1, TypeParts DEF GeoInv
  <1>3. PICK CS \in Nat \ {0} : CS = ClusterSize(g)
    BY <1>2, ClusterFacts
  <1>4. PICK o \in Nat : o = c.from + Len(c.buf)
    BY <1>1
  <1>5. PICK ix \in Nat, w \in 0 .. CS - 1 : ix = o \div CS /\ w = o % CS
    BY <1>3, DivFacts
  <1>6. handle[c.handle].first \in Nat
    BY <1>1, TypeParts DEF VnodeData
  <1>7. PICK k \in Nat : k = NthCluster(c.dev, handle[c.handle].first, ix)
    BY <1>1, <1>2, <1>6, NthFacts
  <1>8. PICK sz \in Nat \ {0} : /\ sz = Smaller(CS - w, c.todo - Len(c.buf))
                                /\ w + sz <= CS /\ Len(c.buf) + sz <= c.todo
    <2>1. CS - w \in Nat \ {0} /\ c.todo - Len(c.buf) \in Nat \ {0}
      <3>1. CS - w \in Nat \ {0}
        BY <1>5
      <3>2. PICK a \in Nat, b \in Nat : a = Len(c.buf) /\ b = c.todo /\ a < b
        BY <1>1
      <3>3. b - a \in Nat \ {0}
        BY <3>2
      <3> QED
        BY <3>1, <3>2, <3>3
    <2>2. PICK p \in Nat \ {0}, q \in Nat \ {0} : p = CS - w /\ q = c.todo - Len(c.buf)
      BY <2>1
    <2>3. Smaller(p, q) \in Nat \ {0} /\ Smaller(p, q) <= p /\ Smaller(p, q) <= q
      BY DEF Smaller
    <2>4. PICK sz \in Nat \ {0} : sz = Smaller(p, q) /\ sz <= p /\ sz <= q
      BY <2>3
    <2>5. w + sz <= CS
      BY <1>5, <2>2, <2>4
    <2>6. Len(c.buf) + sz <= c.todo
      <3>1. PICK a \in Nat, b \in Nat : a = Len(c.buf) /\ b = c.todo
        BY <1>1
      <3>2. a + sz <= b
        BY <2>2, <2>4, <3>1
      <3> QED
        BY <3>1, <3>2
    <2> QED
      BY <2>2, <2>4, <2>5, <2>6
  <1>9. Turn = [index |-> ix, cluster |-> k, from |-> ClusterAddr(g, k) + w, size |-> sz]
    BY <1>2, <1>3, <1>4, <1>5, <1>7, <1>8 DEF Turn
  <1>10. /\ Turn.index = ix /\ Turn.cluster = k /\ Turn.size = sz
         /\ Turn.from = ClusterAddr(g, k) + w
    BY <1>9
  <1>11. ASSUME NEW i \in 1 .. sz
         PROVE  /\ Place(Len(c.buf) + i) = ix
                /\ (c.from + (Len(c.buf) + i) - 1) % CS = w + i - 1
    <2>1. PICK j \in Nat : j = i - 1
      BY <1>8
    <2>2. w + j < CS /\ (o % CS) + j < CS
      BY <1>3, <1>5, <1>8, <2>1
    <2>6. (o + j) \div CS = o \div CS /\ (o + j) % CS = (o % CS) + j
      BY <2>2, DivShift
    <2>3. (o + j) \div CS = ix /\ (o + j) % CS = w + j
      BY <1>5, <2>6
    <2>4. c.from + (Len(c.buf) + i) - 1 = o + j
      <3>1. PICK p \in Nat, q \in Nat, a \in Nat : p = c.from /\ q = Len(c.buf) /\ a = i
        BY <1>1, <1>8
      <3>2. o = p + q /\ j = a - 1
        BY <1>4, <2>1, <3>1
      <3>3. p + (q + a) - 1 = o + j
        BY <3>2
      <3> QED
        BY <3>1, <3>3
    <2>5. w + i - 1 = w + j
      BY <1>5, <1>8, <2>1
    <2> QED
      BY <1>2, <1>3, <2>3, <2>4, <2>5 DEF Place
  <1>12. w \in Nat
    BY <1>5
  <1> HIDE DEF Turn
  <1> QED
    BY <1>1, <1>2, <1>3, <1>7, <1>8, <1>10, <1>11, <1>12 DEF Nth

(***************************************************************************)
(* Where the turns of the loops read                                       *)
(***************************************************************************)
\* An entry of the table lies in the first copy of the table.
LEMMA EntryInPlace ==
    ASSUME NEW g \in Geo, Fits(g), NEW k \in Nat, ClusterValid(g, k)
    PROVE  /\ g.firstFat * SectorSize + k * 2 >= g.firstFat * SectorSize
           /\ (g.firstFat * SectorSize + k * 2) + 2 <= (g.firstFat + g.fatSize) * SectorSize
  <1>1. PICK a \in Nat, b \in Nat, n \in Nat, S \in Nat :
          a = g.firstFat /\ b = g.fatSize /\ n = g.clusters /\ S = SectorSize
    BY SizeAssumption DEF Geo
  <1>2. (n + 2) * 2 <= b * S /\ k < n + 2
    BY <1>1 DEF Fits, ClusterValid
  <1>3. PICK p \in Nat, q \in Nat : p = a * S /\ q = b * S
    OBVIOUS
  <1>4. (a + b) * S = p + q
    BY <1>3
  <1>5. p + k * 2 >= p /\ (p + k * 2) + 2 <= p + q
    BY <1>2, <1>3
  <1> QED
    BY <1>1, <1>3, <1>4, <1>5

\* Bytes of a cluster lie in the clusters of the volume, and those in the volume.
LEMMA ClusterInPlace ==
    ASSUME NEW g \in Geo, Fits(g), NEW k \in Nat, ClusterValid(g, k), NEW w \in Nat, NEW n \in Nat,
           w + n <= ClusterSize(g)
    PROVE  /\ ClusterAddr(g, k) + w >= g.firstData * SectorSize
           /\ (ClusterAddr(g, k) + w) + n <= g.total * SectorSize
  <1>1. PICK f \in Nat, p \in Nat, m \in Nat, t \in Nat, S \in Nat :
          f = g.firstData /\ p = g.spc /\ m = g.clusters /\ t = g.total /\ S = SectorSize
    BY SizeAssumption DEF Geo
  <1>2. f + m * p <= t /\ k >= 2 /\ k < m + 2 /\ w + n <= p * S
    BY <1>1 DEF Fits, ClusterValid, ClusterSize
  <1>3. PICK j \in Nat, d \in Nat : j = k - 2 /\ m = j + 1 + d
    <2>1. k - 2 \in Nat /\ m - (k - 2) - 1 \in Nat /\ m = (k - 2) + 1 + (m - (k - 2) - 1)
      BY <1>2
    <2> QED
      BY <2>1
  <1>4. PICK jp \in Nat, dp \in Nat : jp = j * p /\ dp = d * p
    OBVIOUS
  <1>5. m * p = jp + p + dp
    BY <1>3, <1>4
  <1>6. PICK e \in Nat : t = f + jp + p + dp + e
    <2>1. t - (f + jp + p + dp) \in Nat /\ t = f + jp + p + dp + (t - (f + jp + p + dp))
      BY <1>2, <1>5
    <2> QED
      BY <2>1
  <1>7. PICK fS \in Nat, jS \in Nat, pS \in Nat, dS \in Nat, eS \in Nat :
          fS = f * S /\ jS = jp * S /\ pS = p * S /\ dS = dp * S /\ eS = e * S
    OBVIOUS
  <1>8. (f + jp) * S = fS + jS
    BY <1>7
  <1>9. t * S = fS + jS + pS + dS + eS
    BY <1>6, <1>7
  <1>10. ClusterAddr(g, k) = fS + jS
    BY <1>1, <1>3, <1>4, <1>8 DEF ClusterAddr
  <1>11. w + n <= pS
    BY <1>2, <1>7
  <1>12. (fS + jS) + w >= fS /\ ((fS + jS) + w) + n <= fS + jS + pS + dS + eS
    BY <1>11
  <1>13. ClusterAddr(g, k) + w >= f * S /\ (ClusterAddr(g, k) + w) + n <= t * S
    BY <1>7, <1>9, <1>10, <1>12
  <1> QED
    BY <1>1, <1>13

\* The root directory lies before the clusters.
LEMMA RootInPlace ==
    ASSUME NEW g \in Geo, Fits(g)
    PROVE  /\ g.firstRoot * SectorSize >= g.firstRoot * SectorSize
           /\ g.firstRoot * SectorSize + g.rootSectors * SectorSize <= g.firstData * SectorSize
  <1>1. PICK f \in Nat, r \in Nat, d \in Nat, S \in Nat :
          f = g.firstRoot /\ r = g.rootSectors /\ d = g.firstData /\ S = SectorSize
    BY SizeAssumption DEF Geo
  <1>2. d = f + r
    BY <1>1 DEF Fits
  <1>3. f * S \in Nat /\ r * S \in Nat /\ d * S = f * S + r * S
    BY <1>2
  <1>4. f * S >= f * S /\ f * S + r * S <= d * S
    BY <1>3
  <1> QED
    BY <1>1, <1>4

\* What ReadsInPlace says of one read.
InPlace(g, t) ==
    CASE t.what = "fat" -> /\ t.from >= g.firstFat * SectorSize
                           /\ t.from + t.size <= (g.firstFat + g.fatSize) * SectorSize
      [] t.what = "root" -> /\ t.from >= g.firstRoot * SectorSize
                            /\ t.from + t.size <= g.firstData * SectorSize
      [] t.what = "data" -> /\ t.from >= g.firstData * SectorSize
                            /\ t.from + t.size <= g.total * SectorSize

\* So does the read of an entry.
LEMMA FatReadInPlace ==
    ASSUME NEW x, dev[x].geo \in Geo, Fits(dev[x].geo), NEW k \in Nat, ClusterValid(dev[x].geo, k)
    PROVE  InPlace(dev[x].geo, FatRead(x, k))
  <1>1. PICK g \in Geo : g = dev[x].geo
    OBVIOUS
  <1>2. /\ g.firstFat * SectorSize + k * 2 >= g.firstFat * SectorSize
        /\ (g.firstFat * SectorSize + k * 2) + 2 <= (g.firstFat + g.fatSize) * SectorSize
    BY <1>1, EntryInPlace
  <1>3. /\ FatRead(x, k).what = "fat" /\ FatRead(x, k).size = 2
        /\ FatRead(x, k).from = g.firstFat * SectorSize + k * 2
    BY <1>1 DEF FatRead
  <1> HIDE DEF FatRead
  <1> QED
    BY <1>1, <1>2, <1>3 DEF InPlace

\* So does a read of bytes.
LEMMA DataReadInPlace ==
    ASSUME NEW g \in Geo, Fits(g), NEW k \in Nat, ClusterValid(g, k), NEW w \in Nat, NEW n \in Nat,
           w + n <= ClusterSize(g), NEW t,
           t = [what |-> "data", from |-> ClusterAddr(g, k) + w, size |-> n]
    PROVE  InPlace(g, t)
  <1>1. /\ ClusterAddr(g, k) + w >= g.firstData * SectorSize
        /\ (ClusterAddr(g, k) + w) + n <= g.total * SectorSize
    BY ClusterInPlace
  <1>2. t.what = "data" /\ t.from = ClusterAddr(g, k) + w /\ t.size = n
    OBVIOUS
  <1> QED
    BY <1>1, <1>2 DEF InPlace

\* The turns of all loops read where they should.
LEMMA TurnReadsInPlace ==
    ASSUME TypeInv, GeoInv, ReadInv
    PROVE  \A t \in DiskReads : InPlace(dev[c.dev].geo, t)
  <1> DEFINE g == dev[c.dev].geo
  <1>1. CASE c.pc = "scanroot"
    <2>1. g \in Geo /\ Fits(g)
      BY <1>1, TypeParts DEF TypeInv, GeoInv
    <2>2. DiskReads = {[what |-> "root", from |-> g.firstRoot * SectorSize,
                        size |-> g.rootSectors * SectorSize]}
      BY <1>1 DEF DiskReads
    <2> HIDE DEF g
    <2>3. /\ g.firstRoot * SectorSize >= g.firstRoot * SectorSize
          /\ g.firstRoot * SectorSize + g.rootSectors * SectorSize <= g.firstData * SectorSize
      BY <2>1, RootInPlace
    <2>4. \A t \in DiskReads : InPlace(g, t)
      <3> SUFFICES ASSUME NEW t \in DiskReads PROVE InPlace(g, t)
        OBVIOUS
      <3>1. /\ t.what = "root" /\ t.from = g.firstRoot * SectorSize
            /\ t.size = g.rootSectors * SectorSize
        BY <2>2
      <3> QED
        BY <2>3, <3>1 DEF InPlace
    <2> QED
      BY <2>4 DEF g
  <1>2. CASE c.pc = "scan" /\ ~ChainTooLong /\ ClusterValid(g, c.cluster)
    <2>1. g \in Geo /\ Fits(g) /\ c.cluster \in Nat
      BY <1>2, TypeParts DEF TypeInv, GeoInv
    <2>2. DiskReads = {[what |-> "data", from |-> ClusterAddr(g, c.cluster),
                        size |-> ClusterSize(g)], FatRead(c.dev, c.cluster)}
      BY <1>2 DEF DiskReads
    <2>3. InPlace(g, FatRead(c.dev, c.cluster))
      BY <1>2, <2>1, FatReadInPlace
    <2>4. InPlace(g, [what |-> "data", from |-> ClusterAddr(g, c.cluster), size |-> ClusterSize(g)])
      <3> HIDE DEF g
      <3>1. ClusterSize(g) \in Nat /\ ClusterAddr(g, c.cluster) \in Nat
        BY <1>2, <2>1, ClusterFacts
      <3>2. PICK w \in Nat : w = 0
        OBVIOUS
      <3>3. /\ w + ClusterSize(g) <= ClusterSize(g)
            /\ ClusterAddr(g, c.cluster) = ClusterAddr(g, c.cluster) + w
        BY <3>1, <3>2
      <3> QED
        BY <1>2, <2>1, <3>1, <3>3, DataReadInPlace
    <2> HIDE DEF g
    <2>5. \A t \in DiskReads : InPlace(g, t)
      BY <2>2, <2>3, <2>4
    <2> QED
      BY <2>5 DEF g
  <1>3. CASE c.pc = "read" /\ dev[c.dev].used
    <2>1. /\ c.dev \in Dev /\ g \in Geo /\ Fits(g) /\ Turn.index \in Nat /\ Turn.cluster \in Nat
          /\ Turn.size \in Nat
          /\ \E w \in Nat : /\ Turn.from = ClusterAddr(g, Turn.cluster) + w
                            /\ w + Turn.size <= ClusterSize(g)
      BY <1>3, TurnFacts
    <2>2. DiskReads = FatReads(c.dev, handle[c.handle].first, Turn.index)
                        \cup IF ClusterValid(g, Turn.cluster)
                               THEN {[what |-> "data", from |-> Turn.from, size |-> Turn.size]} ELSE {}
      BY <1>3 DEF DiskReads
    <2>3. ASSUME NEW t \in FatReads(c.dev, handle[c.handle].first, Turn.index)
          PROVE  InPlace(g, t)
      <3>1. handle[c.handle].first \in Nat
        BY <1>3, TypeParts DEF ReadInv, VnodeData
      <3>2. PICK i \in 0 .. Turn.index - 1 :
              /\ ClusterValid(g, NthCluster(c.dev, handle[c.handle].first, i))
              /\ t = FatRead(c.dev, NthCluster(c.dev, handle[c.handle].first, i))
        BY <2>3 DEF FatReads
      <3>3. NthCluster(c.dev, handle[c.handle].first, i) \in Nat
        <4>1. i \in Nat
          BY <2>1
        <4> QED
          BY <1>3, <2>1, <3>1, <4>1, NthFacts
      <3> QED
        BY <2>1, <3>2, <3>3, FatReadInPlace
    <2>4. ASSUME ClusterValid(g, Turn.cluster)
          PROVE  InPlace(g, [what |-> "data", from |-> Turn.from, size |-> Turn.size])
      <3> HIDE DEF g, Turn
      <3> QED
        BY <2>1, <2>4, DataReadInPlace
    <2> HIDE DEF g, Turn
    <2>5. \A t \in DiskReads : InPlace(g, t)
      BY <2>2, <2>3, <2>4
    <2> QED
      BY <2>5 DEF g
  <1>4. CASE /\ c.pc # "scanroot"
             /\ ~(c.pc = "scan" /\ ~ChainTooLong /\ ClusterValid(g, c.cluster))
             /\ ~(c.pc = "read" /\ dev[c.dev].used)
    BY <1>4 DEF DiskReads
  <1> QED
    BY <1>1, <1>2, <1>3, <1>4

\* The invariants give ReadsInPlace.
LEMMA ReadsInPlaceHolds ==
    ASSUME TypeInv, GeoInv, ReadInv
    PROVE  ReadsInPlace
  BY TurnReadsInPlace DEF ReadsInPlace, InPlace

(***************************************************************************)
(* What each step does                                                     *)
(***************************************************************************)
\* What the steps of a mount do to the tables.
LEMMA MountStep ==
    ASSUME TypeInv, NEW d \in Disk, Mount(d)
    PROVE  /\ UNCHANGED <<image, data, nodes, handle>> /\ c.pc = "idle" /\ mounts' \in Nat
           /\ \E x \in Dev : \E r \in Device :
                /\ ~dev[x].used /\ r.used /\ r.disk = d /\ r.root = None /\ r.geo = NoGeo
                /\ dev' = [dev EXCEPT ![x] = r]
                /\ c' \in Call /\ c'.pc = "boot" /\ c'.dev = x
  <1>1. PICK x : /\ x = Least({y \in Dev : ~dev[y].used})
                 /\ dev' = [dev EXCEPT ![x] = [NoDevice EXCEPT !.used = TRUE, !.disk = d,
                                                               !.mount = mounts + 1]]
                 /\ c' = [NoCall EXCEPT !.pc = "boot", !.dev = x]
    BY DEF Mount
  <1>2. x \in Dev /\ ~dev[x].used
    <2> DEFINE S == {y \in Dev : ~dev[y].used}
    <2>1. S # {} /\ S \in SUBSET Nat
      BY DEF Mount, Dev
    <2>2. x = Least(S)
      BY <1>1
    <2>3. x \in S
      <3> HIDE DEF S
      <3> QED
        BY <2>1, <2>2, LeastIn
    <2> QED
      BY <2>3
  <1>3. mounts + 1 \in Nat
    BY DEF TypeInv
  <1>4. PICK r : r = [NoDevice EXCEPT !.used = TRUE, !.disk = d, !.mount = mounts + 1]
    OBVIOUS
  <1>5. r \in Device /\ r.used /\ r.disk = d /\ r.root = None /\ r.geo = NoGeo
    <2>1. NoGeo \in Geo
      BY DEF NoGeo, Geo
    <2> QED
      BY <1>3, <1>4, <2>1 DEF NoDevice, Device
  <1>6. c' \in Call /\ c'.pc = "boot" /\ c'.dev = x
    <2>1. <<>> \in Seq(Nat)
      OBVIOUS
    <2> QED
      BY <1>1, <1>2, <2>1 DEF NoCall, Call
  <1> QED
    BY <1>1, <1>2, <1>3, <1>4, <1>5, <1>6 DEF Mount, Idle

\* The boot sector was accepted.
LEMMA MountBootStep ==
    ASSUME TypeInv, GeoInv, MountBoot
    PROVE  /\ UNCHANGED <<image, data, nodes, handle, mounts>> /\ c.pc = "boot" /\ c.dev \in Dev
           /\ c' \in Call /\ c'.pc = "root" /\ c'.dev = c.dev
           /\ dev[c.dev].used /\ dev[c.dev].disk \in Disk
           /\ \E r \in Device :
                /\ r.used = dev[c.dev].used /\ r.disk = dev[c.dev].disk /\ r.root = dev[c.dev].root
                /\ Fits(r.geo)
                /\ dev' = [dev EXCEPT ![c.dev] = r]
  <1>1. c.pc = "boot" /\ c.dev \in Dev /\ dev[c.dev].used /\ dev[c.dev].disk \in Disk
    BY DEF MountBoot, TypeInv, GeoInv
  <1>2. PICK b \in Boot : b = image[dev[c.dev].disk].boot
    BY <1>1 DEF TypeInv, Image
  <1>3. PICK g \in Geo : g = Geometry(b) /\ Fits(g)
    BY <1>2, GeometryType, GeometryFits DEF MountBoot
  <1>4. dev[c.dev] \in Device
    BY <1>1, TypeParts
  <1>5. PICK r \in Device : r = [dev[c.dev] EXCEPT !.geo = g]
    BY <1>4 DEF Device
  <1>6. /\ r.used = dev[c.dev].used /\ r.disk = dev[c.dev].disk /\ r.root = dev[c.dev].root
        /\ r.geo = g
    BY <1>4, <1>5 DEF Device
  <1>7. dev' = [dev EXCEPT ![c.dev] = r]
    BY <1>1, <1>2, <1>3, <1>5 DEF MountBoot, TypeInv
  <1>8. c' \in Call /\ c'.pc = "root" /\ c'.dev = c.dev
    <2>1. c \in Call /\ c' = [c EXCEPT !.pc = "root"]
      BY DEF MountBoot, TypeInv
    <2> QED
      BY <2>1 DEF Call
  <1> QED
    BY <1>1, <1>3, <1>6, <1>7, <1>8 DEF MountBoot

\* The root gets its vnode data.
LEMMA MountRootStep ==
    ASSUME TypeInv, GeoInv, MountRoot
    PROVE  /\ UNCHANGED <<image, handle, mounts>> /\ c.pc = "root" /\ c.dev \in Dev
           /\ c' \in Call /\ c'.pc = "vfs" /\ c'.dev = c.dev
           /\ \E s \in Data : \E e \in VnodeData : \E r \in Device :
                /\ data[s] = NoEntry /\ e.root /\ e.dev = c.dev
                /\ data' = [data EXCEPT ![s] = e] /\ nodes' = nodes \cup {s}
                /\ r.used = dev[c.dev].used /\ r.disk = dev[c.dev].disk /\ r.root = s
                /\ r.geo = dev[c.dev].geo
                /\ dev' = [dev EXCEPT ![c.dev] = r]
  <1>1. c.pc = "root" /\ c.dev \in Dev
    BY DEF MountRoot, TypeInv
  <1>2. PICK s \in Data : s = Least(FreeData) /\ data[s] = NoEntry
    BY FreeDataIs DEF MountRoot, CanFill
  <1>3. dev[c.dev] \in Device /\ dev[c.dev].mount \in Nat
    BY <1>1, TypeParts
  <1>4. PICK e \in VnodeData : e = [NoEntry EXCEPT !.dev = c.dev, !.dir = TRUE,
                                                   !.mount = dev[c.dev].mount, !.root = TRUE]
    BY <1>1, <1>3 DEF NoEntry, VnodeData
  <1>5. e.root /\ e.dev = c.dev
    BY <1>4 DEF NoEntry
  <1>6. PICK r \in Device : r = [dev[c.dev] EXCEPT !.root = s]
    BY <1>3 DEF Device
  <1>7. /\ r.used = dev[c.dev].used /\ r.disk = dev[c.dev].disk /\ r.root = s
        /\ r.geo = dev[c.dev].geo
    BY <1>3, <1>6 DEF Device
  <1>8. data' = [data EXCEPT ![s] = e] /\ nodes' = nodes \cup {s}
    BY <1>2, <1>4 DEF MountRoot, Fill
  <1>9. dev' = [dev EXCEPT ![c.dev] = r]
    BY <1>1, <1>2, <1>6 DEF MountRoot, TypeInv
  <1>10. c' \in Call /\ c'.pc = "vfs" /\ c'.dev = c.dev
    <2>1. c \in Call /\ c' = [c EXCEPT !.pc = "vfs"]
      BY DEF MountRoot, TypeInv
    <2> QED
      BY <2>1 DEF Call
  <1> QED
    BY <1>1, <1>2, <1>5, <1>7, <1>8, <1>9, <1>10 DEF MountRoot

\* fat16_file_read starts.
LEMMA ReadStep ==
    ASSUME TypeInv, NEW h \in Handle, NEW q \in ReadAt, Read(h, q[1], q[2])
    PROVE  /\ UNCHANGED <<image, dev, data, nodes, handle, mounts>>
           /\ c' \in Call /\ c'.pc \in {"read", "panic"}
           /\ c'.dev = handle[h].dev /\ c'.handle = h
           /\ c'.pc = "read" <=> dev[handle[h].dev].geo.spc # 0
           /\ c'.pc = "panic" => StaleReads
           /\ handle[h].dev \in Dev
           /\ c'.todo > 0 /\ c'.from + c'.todo <= handle[h].size /\ c'.buf = <<>>
  <1>1. q[1] \in Nat /\ q[2] \in Nat \ {0}
    BY ReadAssumption
  <1>2. handle[h] \in VnodeData /\ handle[h].dev \in Dev
    BY DEF TypeInv, Read
  <1>3. PICK a \in Nat, n \in Nat \ {0}, z \in Nat : a = q[1] /\ n = q[2] /\ z = handle[h].size
    BY <1>1, <1>2 DEF VnodeData
  <1>4. a < z
    BY <1>3 DEF Read
  <1>5. PICK t \in Nat : t = Smaller(n, z - a) /\ t > 0 /\ a + t <= z
    <2>1. /\ Smaller(n, z - a) \in Nat /\ Smaller(n, z - a) > 0
          /\ a + Smaller(n, z - a) <= z
      BY <1>4 DEF Smaller
    <2> QED
      BY <2>1
  <1>p. PICK k \in {"read", "panic"} :
          /\ k = IF dev[handle[h].dev].geo.spc = 0 THEN "panic" ELSE "read"
          /\ k = "panic" => StaleReads
    BY DEF Read
  <1>6. c' = [NoCall EXCEPT !.pc = k, !.dev = handle[h].dev, !.handle = h, !.from = a, !.todo = t]
    BY <1>3, <1>5, <1>p DEF Read
  <1>7. /\ c' \in Call /\ c'.pc = k /\ c'.dev = handle[h].dev /\ c'.handle = h
        /\ c'.from = a /\ c'.todo = t /\ c'.buf = <<>>
    <2>1. <<>> \in Seq(Nat)
      OBVIOUS
    <2>2. PICK y \in Dev : y = handle[h].dev
      BY <1>2
    <2>3. c' = [NoCall EXCEPT !.pc = k, !.dev = y, !.handle = h, !.from = a, !.todo = t]
      BY <1>6, <2>2
    <2>4. /\ c' \in Call /\ c'.pc = k /\ c'.dev = y /\ c'.handle = h
          /\ c'.from = a /\ c'.todo = t /\ c'.buf = <<>>
      BY <2>1, <2>3 DEF NoCall, Call
    <2> QED
      BY <2>2, <2>4
  <1> QED
    BY <1>2, <1>3, <1>5, <1>p, <1>7 DEF Read

\* One turn of its loop: a cluster that is none, the last bytes, or more to come.
LEMMA ReadChunkStep ==
    ASSUME TypeInv, GeoInv, ReadInv, ReadChunk
    PROVE  /\ UNCHANGED <<image, dev, data, nodes, handle, mounts>>
           /\ c.pc = "read" /\ c.dev \in Dev /\ dev[c.dev].used
           /\ c' \in Call /\ c'.dev = c.dev /\ c'.handle = c.handle /\ c'.from = c.from
           /\ c'.todo = c.todo
           /\ \/ /\ c'.pc = "done" /\ c'.status = "corrupted"
                 /\ ~ClusterValid(dev[c.dev].geo, Nth(Place(Len(c.buf) + 1)))
              \/ /\ \/ c'.pc = "done" /\ c'.status = "ok" /\ Len(c'.buf) = c.todo
                    \/ c'.pc = "read" /\ Len(c'.buf) < c.todo
                 /\ \E n \in Nat :
                      /\ Len(c'.buf) = Len(c.buf) + n
                      /\ \A i \in 1 .. Len(c.buf) : c'.buf[i] = c.buf[i]
                      /\ \A i \in 1 .. n :
                          /\ ClusterValid(dev[c.dev].geo, Nth(Place(Len(c.buf) + i)))
                          /\ c'.buf[Len(c.buf) + i] =
                               ClusterAddr(dev[c.dev].geo, Nth(Place(Len(c.buf) + i)))
                               + ((c.from + (Len(c.buf) + i) - 1) % ClusterSize(dev[c.dev].geo))
  <1>1. c.pc = "read" /\ dev[c.dev].used /\ UNCHANGED <<image, dev, data, nodes, handle, mounts>>
    BY DEF ReadChunk
  <1>2. PICK t : t = Turn
    OBVIOUS
  <1>3. /\ c.dev \in Dev /\ dev[c.dev].geo \in Geo /\ Fits(dev[c.dev].geo)
        /\ t.index \in Nat /\ t.cluster \in Nat /\ t.size \in Nat \ {0}
        /\ t.cluster = Nth(t.index)
        /\ Len(c.buf) + t.size <= c.todo
    BY <1>1, <1>2, TurnFacts
  <1>4. PICK w \in Nat :
          /\ t.from = ClusterAddr(dev[c.dev].geo, t.cluster) + w
          /\ \A i \in 1 .. t.size :
              /\ Place(Len(c.buf) + i) = t.index
              /\ (c.from + (Len(c.buf) + i) - 1) % ClusterSize(dev[c.dev].geo) = w + i - 1
    BY <1>1, <1>2, TurnFacts
  <1>5. PICK n \in Nat \ {0} : n = t.size
    BY <1>3
  <1> DEFINE add == [i \in 1 .. n |-> t.from + i - 1]
             buf == c.buf \o add
  <1>6. /\ ~ClusterValid(dev[c.dev].geo, t.cluster) => c' = [c EXCEPT !.pc = "done",
                                                    !.status = "corrupted", !.buf = <<>>]
        /\ ClusterValid(dev[c.dev].geo, t.cluster) =>
             c' = IF Len(buf) = c.todo THEN [c EXCEPT !.pc = "done", !.status = "ok", !.buf = buf]
                  ELSE [c EXCEPT !.buf = buf]
    BY <1>1, <1>2, <1>5 DEF ReadChunk, Result
  <1>7. c \in Call /\ c.buf \in Seq(Nat) /\ <<>> \in Seq(Nat) /\ c.todo \in Nat
    BY TypeParts DEF TypeInv
  <1>8. 1 \in 1 .. n /\ 1 .. n = 1 .. t.size
    BY <1>5
  <1>9. CASE ~ClusterValid(dev[c.dev].geo, t.cluster)
    <2>1. c' = [c EXCEPT !.pc = "done", !.status = "corrupted", !.buf = <<>>]
      BY <1>6, <1>9
    <2>2. /\ c' \in Call /\ c'.dev = c.dev /\ c'.handle = c.handle /\ c'.from = c.from
          /\ c'.todo = c.todo /\ c'.pc = "done" /\ c'.status = "corrupted"
      BY <1>7, <2>1 DEF Call
    <2>3. Place(Len(c.buf) + 1) = t.index
      BY <1>4, <1>8
    <2> QED
      BY <1>1, <1>3, <1>9, <2>2, <2>3
  <1>10. CASE ClusterValid(dev[c.dev].geo, t.cluster)
    <2>1. PICK a \in Nat : a = t.from /\ a = ClusterAddr(dev[c.dev].geo, t.cluster) + w
      <3>1. ClusterAddr(dev[c.dev].geo, t.cluster) \in Nat
        BY <1>3, <1>10, ClusterFacts
      <3> QED
        BY <1>4, <3>1
    <2>2. add \in Seq(Nat) /\ Len(add) = n /\ \A i \in 1 .. n : add[i] = a + i - 1
      <3>1. \A i \in 1 .. n : a + i - 1 \in Nat
        OBVIOUS
      <3>2. add = [i \in 1 .. n |-> a + i - 1]
        BY <2>1
      <3> HIDE DEF add
      <3> QED
        BY <3>1, <3>2
    <2> HIDE DEF add
    <2>3. /\ buf \in Seq(Nat) /\ Len(buf) = Len(c.buf) + n
          /\ \A i \in 1 .. Len(c.buf) : buf[i] = c.buf[i]
          /\ \A i \in 1 .. n : buf[Len(c.buf) + i] = a + i - 1
      <3>1. PICK b \in Seq(Nat) : b = c.buf
        BY <1>7
      <3>2. b \o add \in Seq(Nat) /\ Len(b \o add) = Len(b) + n
        <4>1. PICK d \in Seq(Nat) : d = add /\ Len(d) = n
          BY <2>2
        <4>2. b \o d \in Seq(Nat)
          OBVIOUS
        <4>3. Len(b \o d) = Len(b) + Len(d)
          OBVIOUS
        <4> QED
          BY <4>1, <4>2, <4>3
      <3>3. \A i \in 1 .. Len(b) : (b \o add)[i] = b[i]
        BY <2>2
      <3>4. ASSUME NEW i \in 1 .. n PROVE (b \o add)[Len(b) + i] = add[i]
        <4>1. PICK m \in Nat : m = Len(b)
          OBVIOUS
        <4>2. PICK j \in Nat : j = m + i /\ j - m = i /\ j > m /\ j <= m + n
          OBVIOUS
        <4>3. j \in 1 .. Len(b) + Len(add) /\ ~(j <= Len(b))
          BY <2>2, <4>1, <4>2
        <4>4. (b \o add)[j] = add[j - Len(b)]
          BY <2>2, <4>3
        <4> QED
          BY <4>1, <4>2, <4>4
      <3> QED
        BY <2>2, <3>1, <3>2, <3>3, <3>4
    <2> HIDE DEF buf
    <2>4. \/ /\ Len(buf) = c.todo /\ c' = [c EXCEPT !.pc = "done", !.status = "ok", !.buf = buf]
          \/ /\ Len(buf) < c.todo /\ c' = [c EXCEPT !.buf = buf]
      <3>1. Len(buf) <= c.todo /\ Len(buf) \in Nat
        BY <1>3, <1>5, <2>3
      <3> QED
        BY <1>6, <1>7, <1>10, <3>1
    <2>5. /\ c' \in Call /\ c'.dev = c.dev /\ c'.handle = c.handle /\ c'.from = c.from
          /\ c'.todo = c.todo /\ c'.buf = buf
          /\ \/ c'.pc = "done" /\ c'.status = "ok" /\ Len(buf) = c.todo
             \/ c'.pc = c.pc /\ Len(buf) < c.todo
      BY <1>7, <2>3, <2>4 DEF Call
    <2>6. ASSUME NEW i \in 1 .. n
          PROVE  /\ ClusterValid(dev[c.dev].geo, Nth(Place(Len(c.buf) + i)))
                 /\ buf[Len(c.buf) + i] =
                      ClusterAddr(dev[c.dev].geo, Nth(Place(Len(c.buf) + i)))
                      + ((c.from + (Len(c.buf) + i) - 1) % ClusterSize(dev[c.dev].geo))
      <3>1. /\ Place(Len(c.buf) + i) = t.index
            /\ (c.from + (Len(c.buf) + i) - 1) % ClusterSize(dev[c.dev].geo) = w + i - 1
        BY <1>4, <1>8
      <3>2. PICK A \in Nat : A = ClusterAddr(dev[c.dev].geo, t.cluster)
        BY <1>3, <1>10, ClusterFacts
      <3>3. a + i - 1 = A + (w + i - 1)
        <4>1. a = A + w /\ i \in Nat
          BY <2>1, <3>2
        <4> QED
          BY <4>1
      <3> QED
        BY <1>3, <1>10, <2>3, <3>1, <3>2, <3>3
    <2>7. \E m \in Nat :
            /\ Len(c'.buf) = Len(c.buf) + m
            /\ \A i \in 1 .. Len(c.buf) : c'.buf[i] = c.buf[i]
            /\ \A i \in 1 .. m :
                /\ ClusterValid(dev[c.dev].geo, Nth(Place(Len(c.buf) + i)))
                /\ c'.buf[Len(c.buf) + i] =
                     ClusterAddr(dev[c.dev].geo, Nth(Place(Len(c.buf) + i)))
                     + ((c.from + (Len(c.buf) + i) - 1) % ClusterSize(dev[c.dev].geo))
      BY <2>3, <2>5, <2>6
    <2> QED
      BY <1>1, <1>3, <2>5, <2>7
  <1> QED
    BY <1>9, <1>10

(***************************************************************************)
(* Types                                                                   *)
(***************************************************************************)
\* A device is set to r.
LEMMA TypeDev ==
    ASSUME TypeInv, NEW x \in Dev, NEW r \in Device, r.used => r.disk \in Disk,
           dev' = [dev EXCEPT ![x] = r]
    PROVE  /\ dev' \in [Dev -> Device] /\ \A y \in Dev : dev'[y].used => dev'[y].disk \in Disk
           /\ dev'[x] = r /\ \A y \in Dev : y # x => dev'[y] = dev[y]
  BY DEF TypeInv

\* A call that looks, opens, reads or returns.
LEMMA LookupType ==
    ASSUME TypeInv, PoolInv, NEW s \in Data, NEW n \in Name, Lookup(s, n)
    PROVE  /\ UNCHANGED <<image, dev, data, nodes, handle, mounts>> /\ c.pc = "idle"
           /\ c' \in Call /\ c'.pc \in {"scanroot", "scan"} /\ c'.dev \in Dev /\ dev[c'.dev].used
  <1>1. data[s] \in VnodeData /\ data[s].dev \in Dev /\ dev[data[s].dev].used
    BY DEF Lookup, TypeInv, PoolInv
  <1>2. PICK p \in {"scanroot", "scan"} : p = IF data[s].first = 0 THEN "scanroot" ELSE "scan"
    OBVIOUS
  <1>3. c' = [NoCall EXCEPT !.pc = p, !.dev = data[s].dev, !.at = s, !.name = n,
                            !.cluster = data[s].first]
    BY <1>2 DEF Lookup
  <1>4. PICK x \in Dev, k \in Nat : x = data[s].dev /\ k = data[s].first
    BY <1>1 DEF VnodeData
  <1>5. <<>> \in Seq(Nat)
    OBVIOUS
  <1>6. c' \in Call /\ c'.pc = p /\ c'.dev = x
    BY <1>3, <1>4, <1>5 DEF NoCall, Call
  <1> QED
    BY <1>1, <1>2, <1>4, <1>6 DEF Lookup, Idle

\* A read of the disk fails: no byte counts.
LEMMA DiskFailsStep ==
    ASSUME TypeInv, DiskFails
    PROVE  /\ UNCHANGED <<image, dev, data, nodes, handle, mounts>>
           /\ c' \in Call
           /\ \/ c' = NoCall
              \/ /\ c.pc = "read" /\ c'.pc = "done" /\ c'.status = "failed" /\ c'.dev = c.dev
                 /\ c'.handle = c.handle /\ c'.todo = c.todo /\ c'.from = c.from
  <1>1. CASE c.pc = "read"
    <2>1. c' = [c EXCEPT !.pc = "done", !.status = "failed", !.buf = <<>>]
      BY <1>1 DEF DiskFails, Result
    <2>2. c \in Call /\ <<>> \in Seq(Nat)
      BY DEF TypeInv
    <2>3. /\ c' \in Call /\ c'.pc = "done" /\ c'.status = "failed" /\ c'.dev = c.dev
          /\ c'.handle = c.handle /\ c'.todo = c.todo /\ c'.from = c.from
      BY <2>1, <2>2 DEF Call
    <2> QED
      BY <1>1, <2>3 DEF DiskFails
  <1>2. CASE c.pc # "read"
    BY <1>2, NoCallType DEF DiskFails
  <1> QED
    BY <1>1, <1>2

\* fat16_file_open.
LEMMA OpenStep ==
    ASSUME TypeInv, PoolInv, NEW s \in Data, Open(s)
    PROVE  /\ UNCHANGED <<image, dev, data, nodes, c, mounts>> /\ c.pc = "idle"
           /\ handle' \in [Handle -> VnodeData]
           /\ \A h \in Handle : handle'[h] # NoEntry => handle'[h].dev \in Dev
  <1>1. data[s] \in VnodeData /\ data[s].dev \in Dev
    BY DEF Open, TypeInv, PoolInv
  <1>2. PICK h \in Handle : h = Least(FreeHandle)
    <2>1. FreeHandle \in SUBSET Nat /\ FreeHandle # {} /\ FreeHandle \subseteq Handle
      BY DEF FreeHandle, Handle, Open
    <2> QED
      BY <2>1, LeastIn
  <1>3. handle' = [handle EXCEPT ![h] = data[s]]
    BY <1>2 DEF Open
  <1> QED
    BY <1>1, <1>3 DEF Open, Idle, TypeInv

\* The error path of fat16_mount_internal.
LEMMA MountFailsStep ==
    ASSUME TypeInv, MountFails
    PROVE  /\ c.dev \in Dev /\ c.pc # "idle" /\ c' = NoCall /\ UNCHANGED <<image, handle, mounts>>
           /\ RootAfterFailure /\ FreeDevice(c.dev)
  BY DEF MountFails, TypeInv

\* A root that fat16_unmount frees is there, so it frees what the error path of a mount would.
LEMMA UnmountStep ==
    ASSUME TypeInv, PoolInv, NEW x \in Dev, Unmount(x)
    PROVE  /\ c.pc = "idle" /\ UNCHANGED <<image, handle, c, mounts>> /\ FreeDevice(x)
           /\ dev[x].root \in Data
           /\ data' = [data EXCEPT ![dev[x].root] = NoEntry] /\ nodes' = nodes \ {dev[x].root}
  <1>1. c.pc = "idle" /\ dev[x].used
    BY DEF Unmount, Idle
  <1>2. dev[x].root # None
    BY <1>1 DEF PoolInv
  <1>3. dev[x].root \in Data
    BY <1>2, TypeParts
  <1> QED
    BY <1>1, <1>3 DEF Unmount

\* Every step keeps the types. That bytes have addresses needs the geometry and the read.
LEMMA TypeNext ==
    ASSUME TypeInv, GeoInv, PoolInv, ReadInv, [Next]_vars
    PROVE  TypeInv'
  <1>1. ASSUME NEW d \in Disk, Mount(d) PROVE TypeInv'
    <2>1. /\ UNCHANGED <<image, data, nodes, handle>> /\ mounts' \in Nat
      BY <1>1, MountStep
    <2>2. PICK x \in Dev, r \in Device :
            /\ r.used /\ r.disk = d /\ dev' = [dev EXCEPT ![x] = r]
            /\ c' \in Call /\ c'.dev = x
      BY <1>1, MountStep
    <2>3. dev' \in [Dev -> Device] /\ \A y \in Dev : dev'[y].used => dev'[y].disk \in Disk
      BY <2>2, TypeDev
    <2> QED
      BY <2>1, <2>2, <2>3 DEF TypeInv
  <1>2. CASE MountBoot
    <2>1. /\ UNCHANGED <<image, data, nodes, handle, mounts>> /\ c.dev \in Dev
          /\ c' \in Call /\ c'.dev = c.dev /\ dev[c.dev].disk \in Disk
      BY <1>2, MountBootStep
    <2>2. PICK r \in Device : r.disk = dev[c.dev].disk /\ dev' = [dev EXCEPT ![c.dev] = r]
      BY <1>2, MountBootStep
    <2>3. dev' \in [Dev -> Device] /\ \A y \in Dev : dev'[y].used => dev'[y].disk \in Disk
      BY <2>1, <2>2, TypeDev
    <2> QED
      BY <2>1, <2>2, <2>3 DEF TypeInv
  <1>3. CASE MountRoot
    <2>1. /\ UNCHANGED <<image, handle, mounts>> /\ c.dev \in Dev /\ c' \in Call /\ c'.dev = c.dev
      BY <1>3, MountRootStep
    <2>2. PICK s \in Data, e \in VnodeData, r \in Device :
            /\ e.dev = c.dev /\ data' = [data EXCEPT ![s] = e] /\ nodes' = nodes \cup {s}
            /\ r.used = dev[c.dev].used /\ r.disk = dev[c.dev].disk
            /\ dev' = [dev EXCEPT ![c.dev] = r]
      BY <1>3, MountRootStep
    <2>3. r.used => r.disk \in Disk
      BY <2>1, <2>2 DEF TypeInv
    <2>4. dev' \in [Dev -> Device] /\ \A y \in Dev : dev'[y].used => dev'[y].disk \in Disk
      BY <2>1, <2>2, <2>3, TypeDev
    <2>5. data' \in [Data -> VnodeData] /\ \A q \in Data : data'[q] # NoEntry => data'[q].dev \in Dev
      BY <2>1, <2>2, TypeData
    <2>6. nodes' \subseteq Data
      BY <2>2 DEF TypeInv
    <2> QED
      BY <2>1, <2>4, <2>5, <2>6 DEF TypeInv
  <1>4. CASE MountDone \/ Return
    <2>1. UNCHANGED <<image, dev, data, nodes, handle, mounts>> /\ c' = NoCall
      BY <1>4 DEF MountDone, Return
    <2> QED
      BY <2>1, NoCallType, TypeCall
  <1>5. CASE MountFails
    <2>1. /\ c.dev \in Dev /\ c' = NoCall /\ UNCHANGED <<image, handle, mounts>>
          /\ RootAfterFailure /\ FreeDevice(c.dev)
      BY <1>5, MountFailsStep
    <2>2. /\ data' \in [Data -> VnodeData] /\ nodes' \subseteq Data
          /\ \A q \in Data : data'[q] # NoEntry => data'[q].dev \in Dev
      BY <2>1, RootAfterFailureType
    <2>3. dev' \in [Dev -> Device] /\ \A y \in Dev : dev'[y].used => dev'[y].disk \in Disk
      BY <2>1, FreeDeviceType
    <2> QED
      BY <2>1, <2>2, <2>3, NoCallType DEF TypeInv
  <1>6. ASSUME NEW x \in Dev, Unmount(x) PROVE TypeInv'
    <2>1. /\ UNCHANGED <<image, handle, c, mounts>> /\ FreeDevice(x) /\ dev[x].root \in Data
          /\ data' = [data EXCEPT ![dev[x].root] = NoEntry] /\ nodes' = nodes \ {dev[x].root}
      BY <1>6, UnmountStep
    <2>2. data' \in [Data -> VnodeData] /\ \A q \in Data : data'[q] # NoEntry => data'[q].dev \in Dev
      BY <2>1, NoEntryType, TypeData
    <2>3. dev' \in [Dev -> Device] /\ \A y \in Dev : dev'[y].used => dev'[y].disk \in Disk
      BY <2>1, FreeDeviceType
    <2> QED
      BY <2>1, <2>2, <2>3 DEF TypeInv
  <1>7. ASSUME NEW s \in Data, NEW n \in Name, Lookup(s, n) PROVE TypeInv'
    BY <1>7, LookupType, TypeCall
  <1>8. ASSUME NEW s \in Data, Open(s) PROVE TypeInv'
    <2>1. /\ UNCHANGED <<image, dev, data, nodes, c, mounts>> /\ handle' \in [Handle -> VnodeData]
          /\ \A h \in Handle : handle'[h] # NoEntry => handle'[h].dev \in Dev
      BY <1>8, OpenStep
    <2> QED
      BY <2>1 DEF TypeInv
  <1>9. CASE ScanRoot \/ ScanCluster
    <2>1. UNCHANGED <<image, dev, handle, mounts>>
      BY <1>9, LookupStep
    <2>2. c.dev \in Dev
      BY <1>9 DEF TypeInv, ScanRoot, ScanCluster
    <2>3. c' \in Call /\ (c'.pc # "idle" => c'.dev \in Dev)
      <3>1. CASE c' = NoCall
        BY <3>1, NoCallType
      <3>2. ASSUME NEW k \in Nat, c' = [c EXCEPT !.cluster = k, !.len = @ + 1]
            PROVE  c' \in Call /\ c'.dev = c.dev
        <4>1. c \in Call
          BY DEF TypeInv
        <4>2. PICK l \in Nat : l = c.len + 1
          BY TypeParts
        <4>3. c' = [c EXCEPT !.cluster = k, !.len = l]
          BY <3>2, <4>2
        <4> QED
          BY <4>1, <4>3 DEF Call
      <3> QED
        BY <1>9, <2>2, <3>1, <3>2, LookupStep
    <2>4. /\ data' \in [Data -> VnodeData] /\ nodes' \subseteq Data
          /\ \A q \in Data : data'[q] # NoEntry => data'[q].dev \in Dev
      <3>1. CASE UNCHANGED <<data, nodes>>
        BY <3>1 DEF TypeInv
      <3>2. CASE NewEntry
        <4>1. PICK s \in Data, e \in VnodeData :
                /\ e.dev = c.dev /\ data' = [data EXCEPT ![s] = e]
                /\ nodes' = nodes \/ nodes' = nodes \cup {s}
          BY <3>2 DEF NewEntry
        <4>2. /\ data' \in [Data -> VnodeData]
              /\ \A q \in Data : data'[q] # NoEntry => data'[q].dev \in Dev
          BY <2>2, <4>1, TypeData
        <4> QED
          BY <4>1, <4>2 DEF TypeInv
      <3> QED
        BY <1>9, <3>1, <3>2, LookupStep
    <2> QED
      BY <2>1, <2>3, <2>4 DEF TypeInv
  <1>10. ASSUME NEW h \in Handle, Close(h) PROVE TypeInv'
    BY <1>10, NoEntryType DEF Close, TypeInv
  <1>11. ASSUME NEW h \in Handle, NEW q \in ReadAt, Read(h, q[1], q[2]) PROVE TypeInv'
    BY <1>11, ReadStep, TypeCall
  <1>12. CASE ReadChunk
    BY <1>12, ReadChunkStep, TypeCall
  <1>13. CASE DiskFails
    <2>1. c.dev \in Dev
      BY <1>13 DEF DiskFails, TypeInv
    <2> QED
      BY <1>13, <2>1, DiskFailsStep, NoCallType, TypeCall
  <1>14. CASE UNCHANGED vars
    BY <1>14 DEF vars, TypeInv
  <1> QED
    BY <1>1, <1>2, <1>3, <1>4, <1>5, <1>6, <1>7, <1>8, <1>9, <1>10, <1>11, <1>12, <1>13, <1>14
       DEF Next

(***************************************************************************)
(* The geometry and the pools                                              *)
(***************************************************************************)
\* No volume is mounted at first.
LEMMA GeoInit == Init => GeoInv
  <1> SUFFICES ASSUME Init PROVE GeoInv
    OBVIOUS
  <1>1. c.pc = "idle" /\ \A x \in Dev : ~dev[x].used
    BY DEF Init, NoDevice, NoCall
  <1> QED
    BY <1>1 DEF GeoInv

\* Only the boot sector of a mount changes a geometry, and no device is freed under a call but by
\* the mount that took it.
LEMMA GeoNext ==
    ASSUME TypeInv, GeoInv, PoolInv, ReadInv, [Next]_vars
    PROVE  GeoInv'
  <1>0. /\ \A x \in Dev : dev[x].used /\ ~(c.pc = "boot" /\ c.dev = x) => Fits(dev[x].geo)
        /\ c.pc \in {"boot", "root", "vfs", "scanroot", "scan"} => dev[c.dev].used
    BY DEF GeoInv
  <1>a. c.pc # "idle" => c.dev \in Dev
    BY DEF TypeInv
  <1>1. ASSUME NEW d \in Disk, Mount(d) PROVE GeoInv'
    <2>1. PICK x \in Dev, r \in Device :
            /\ r.used /\ r.disk = d /\ dev' = [dev EXCEPT ![x] = r]
            /\ c'.pc = "boot" /\ c'.dev = x
      BY <1>1, MountStep
    <2>2. dev'[x] = r /\ \A y \in Dev : y # x => dev'[y] = dev[y]
      BY <2>1, TypeDev
    <2>3. c.pc = "idle"
      BY <1>1, MountStep
    <2> QED
      BY <1>0, <2>1, <2>2, <2>3 DEF GeoInv
  <1>2. CASE MountBoot
    <2>1. c.pc = "boot" /\ c.dev \in Dev /\ c'.pc = "root" /\ c'.dev = c.dev /\ dev[c.dev].used
          /\ dev[c.dev].disk \in Disk
      BY <1>2, MountBootStep
    <2>2. PICK r \in Device : /\ r.used = dev[c.dev].used /\ r.disk = dev[c.dev].disk /\ Fits(r.geo)
                              /\ dev' = [dev EXCEPT ![c.dev] = r]
      BY <1>2, MountBootStep
    <2>3. dev'[c.dev] = r /\ \A y \in Dev : y # c.dev => dev'[y] = dev[y]
      BY <2>1, <2>2, TypeDev
    <2> QED
      BY <1>0, <2>1, <2>2, <2>3 DEF GeoInv
  <1>3. CASE MountRoot
    <2>1. c.pc = "root" /\ c.dev \in Dev /\ c'.pc = "vfs" /\ c'.dev = c.dev
      BY <1>3, MountRootStep
    <2>2. PICK r \in Device : /\ r.used = dev[c.dev].used /\ r.disk = dev[c.dev].disk
                              /\ r.geo = dev[c.dev].geo /\ dev' = [dev EXCEPT ![c.dev] = r]
      BY <1>3, MountRootStep
    <2>3. r.used => r.disk \in Disk
      BY <2>1, <2>2 DEF TypeInv
    <2>4. dev'[c.dev] = r /\ \A y \in Dev : y # c.dev => dev'[y] = dev[y]
      BY <2>1, <2>2, <2>3, TypeDev
    <2>5. c.pc # "boot"
      BY <2>1
    <2> QED
      BY <1>0, <2>1, <2>2, <2>4, <2>5 DEF GeoInv
  <1>4. CASE MountDone \/ Return
    <2>1. dev' = dev /\ c' = NoCall /\ c.pc # "boot"
      BY <1>4 DEF MountDone, Return
    <2> QED
      BY <1>0, <2>1, NoCallType DEF GeoInv
  <1>5. CASE MountFails
    <2>1. c.dev \in Dev /\ c' = NoCall /\ FreeDevice(c.dev)
      BY <1>5, MountFailsStep
    <2>2. ~dev'[c.dev].used /\ \A y \in Dev : y # c.dev => dev'[y] = dev[y]
      BY <2>1, FreeDeviceType
    <2> QED
      BY <1>0, <2>1, <2>2, NoCallType DEF GeoInv
  <1>6. ASSUME NEW x \in Dev, Unmount(x) PROVE GeoInv'
    <2>1. c.pc = "idle" /\ c' = c /\ FreeDevice(x)
      BY <1>6, UnmountStep
    <2>2. ~dev'[x].used /\ \A y \in Dev : y # x => dev'[y] = dev[y]
      BY <2>1, FreeDeviceType
    <2> QED
      BY <1>0, <2>1, <2>2 DEF GeoInv
  <1>7. ASSUME NEW s \in Data, NEW n \in Name, Lookup(s, n) PROVE GeoInv'
    <2>1. dev' = dev /\ c.pc = "idle" /\ c'.pc \in {"scanroot", "scan"} /\ dev[c'.dev].used
      BY <1>7, LookupType
    <2> QED
      BY <1>0, <2>1 DEF GeoInv
  <1>8. ASSUME NEW s \in Data, Open(s) PROVE GeoInv'
    BY <1>0, <1>8 DEF Open, GeoInv
  <1>9. CASE ScanRoot \/ ScanCluster
    <2>1. dev' = dev /\ c.pc \in {"scanroot", "scan"}
      BY <1>9, LookupStep DEF ScanRoot, ScanCluster
    <2>2. c'.pc = "idle" \/ (c'.pc = c.pc /\ c'.dev = c.dev)
      <3>1. c \in Call
        BY DEF TypeInv
      <3> QED
        BY <1>9, <3>1, LookupStep, NoCallType DEF Call
    <2> QED
      BY <1>0, <2>1, <2>2 DEF GeoInv
  <1>10. ASSUME NEW h \in Handle, Close(h) PROVE GeoInv'
    BY <1>0, <1>10 DEF Close, GeoInv
  <1>11. ASSUME NEW h \in Handle, NEW q \in ReadAt, Read(h, q[1], q[2]) PROVE GeoInv'
    <2>1. dev' = dev /\ c'.pc \in {"read", "panic"} /\ c.pc = "idle"
      BY <1>11, ReadStep DEF Read, Idle
    <2> QED
      BY <1>0, <2>1 DEF GeoInv
  <1>12. CASE ReadChunk
    <2>1. dev' = dev /\ c.pc = "read" /\ c'.pc \in {"read", "done"}
      BY <1>12, ReadChunkStep
    <2> QED
      BY <1>0, <2>1 DEF GeoInv
  <1>13. CASE DiskFails
    <2>1. dev' = dev /\ c'.pc \in {"idle", "done"} /\ c.pc # "boot"
      BY <1>13, DiskFailsStep, NoCallType DEF DiskFails
    <2> QED
      BY <1>0, <2>1 DEF GeoInv
  <1>14. CASE UNCHANGED vars
    BY <1>0, <1>14 DEF vars, GeoInv
  <1> QED
    BY <1>1, <1>2, <1>3, <1>4, <1>5, <1>6, <1>7, <1>8, <1>9, <1>10, <1>11, <1>12, <1>13, <1>14
       DEF Next

\* The pools are free at first.
LEMMA PoolInit == Init => PoolInv
  <1> SUFFICES ASSUME Init PROVE PoolInv
    OBVIOUS
  <1>1. c.pc = "idle" /\ \A x \in Dev : ~dev[x].used /\ dev[x].root = None
    BY DEF Init, NoDevice, NoCall
  <1>2. nodes = {} /\ \A s \in Data : ~data[s].root
    BY DEF Init, NoEntry
  <1> QED
    BY <1>1, <1>2 DEF PoolInv

\* Steps that leave the pools alone, and enter or leave no mount.
LEMMA PoolSame ==
    ASSUME PoolInv, UNCHANGED <<dev, data, nodes>>, c.pc \notin {"boot", "root"},
           c'.pc \notin {"boot", "root"}
    PROVE  PoolInv'
  BY DEF PoolInv

\* A root is freed with its device.
LEMMA PoolFree ==
    ASSUME TypeInv, PoolInv, NEW x \in Dev, FreeDevice(x),
           data' = IF dev[x].root = None THEN data ELSE [data EXCEPT ![dev[x].root] = NoEntry],
           nodes' = nodes \ {dev[x].root}, c.pc \in {"boot", "root"} => c.dev = x, c'.pc = "idle"
    PROVE  PoolInv'
  <1>1. /\ \A y \in Dev : y # x => dev'[y] = dev[y]
        /\ ~dev'[x].used /\ dev'[x].root = None
    BY FreeDeviceType
  <1>2. /\ \A y \in Dev : dev[y].root # None =>
            /\ dev[y].used /\ dev[y].root \in nodes
            /\ data[dev[y].root].root /\ data[dev[y].root].dev = y
        /\ \A y \in Dev : dev[y].used /\ ~(c.pc \in {"boot", "root"} /\ c.dev = y) => dev[y].root # None
        /\ \A s \in Data : data[s].root => \E y \in Dev : dev[y].root = s
        /\ \A s \in nodes : data[s] # NoEntry
    BY DEF PoolInv
  <1>3. \A y \in Dev : y # x /\ dev[y].root # None => dev[y].root # dev[x].root
    BY <1>2
  <1>4. data \in [Data -> VnodeData] /\ nodes \subseteq Data
    BY DEF TypeInv
  <1>5. \A s \in Data : s # dev[x].root => data'[s] = data[s]
    BY <1>4
  <1>6. dev[x].root \in Data => data'[dev[x].root] = NoEntry
    BY <1>4 DEF None, Data
  <1>7. \A y \in Dev : dev'[y].root # None =>
            /\ dev'[y].used /\ dev'[y].root \in nodes'
            /\ data'[dev'[y].root].root /\ data'[dev'[y].root].dev = y
    <2> SUFFICES ASSUME NEW y \in Dev, dev'[y].root # None
                 PROVE  /\ dev'[y].used /\ dev'[y].root \in nodes'
                        /\ data'[dev'[y].root].root /\ data'[dev'[y].root].dev = y
      OBVIOUS
    <2>1. y # x /\ dev'[y] = dev[y]
      BY <1>1
    <2>2. /\ dev[y].used /\ dev[y].root \in nodes /\ dev[y].root # dev[x].root
          /\ data[dev[y].root].root /\ data[dev[y].root].dev = y
      BY <1>2, <1>3, <2>1
    <2> QED
      BY <1>4, <1>5, <2>1, <2>2
  <1>8. \A y \in Dev : dev'[y].used => dev'[y].root # None
    BY <1>1, <1>2
  <1>9. \A s \in Data : data'[s].root => \E y \in Dev : dev'[y].root = s
    <2> SUFFICES ASSUME NEW s \in Data, data'[s].root PROVE \E y \in Dev : dev'[y].root = s
      OBVIOUS
    <2>1. s # dev[x].root
      BY <1>6, NoEntryType
    <2>2. PICK y \in Dev : dev[y].root = s
      BY <1>2, <1>5, <2>1
    <2> QED
      BY <1>1, <2>1, <2>2
  <1>10. \A s \in nodes' : data'[s] # NoEntry
    BY <1>2, <1>4, <1>5
  <1> QED
    BY <1>7, <1>8, <1>9, <1>10 DEF PoolInv

\* Every step keeps the pools: whichever step of a mount fails, the root goes with the device.
LEMMA PoolNext ==
    ASSUME TypeInv, GeoInv, PoolInv, ReadInv, [Next]_vars
    PROVE  PoolInv'
  <1>0. /\ \A x \in Dev : dev[x].root # None =>
            /\ dev[x].used /\ dev[x].root \in nodes
            /\ data[dev[x].root].root /\ data[dev[x].root].dev = x
        /\ \A x \in Dev : dev[x].used /\ ~(c.pc \in {"boot", "root"} /\ c.dev = x) => dev[x].root # None
        /\ c.pc \in {"boot", "root"} => dev[c.dev].root = None
        /\ \A s \in Data : data[s].root => \E x \in Dev : dev[x].root = s
        /\ \A s \in nodes : data[s] # NoEntry
    BY DEF PoolInv
  <1>a. data \in [Data -> VnodeData] /\ nodes \subseteq Data /\ None \notin Data
    BY DEF TypeInv, None, Data
  <1>b. \A x \in Dev : dev[x].root \in Data \cup {None}
    BY TypeParts
  <1>1. ASSUME NEW d \in Disk, Mount(d) PROVE PoolInv'
    <2>1. PICK x \in Dev, r \in Device :
            /\ ~dev[x].used /\ r.used /\ r.disk = d /\ r.root = None /\ dev' = [dev EXCEPT ![x] = r]
            /\ c'.pc = "boot" /\ c'.dev = x
      BY <1>1, MountStep
    <2>2. dev'[x] = r /\ \A y \in Dev : y # x => dev'[y] = dev[y]
      BY <2>1, TypeDev
    <2>3. c.pc = "idle" /\ data' = data /\ nodes' = nodes
      BY <1>1, MountStep
    <2>4. dev[x].root = None
      BY <1>0, <2>1
    <2>5. \A y \in Dev : dev'[y].root = dev[y].root
      BY <2>1, <2>2, <2>4
    <2>6. \A y \in Dev : dev'[y].root # None => dev'[y].used
      BY <1>0, <2>1, <2>2
    <2>7. \A y \in Dev : dev'[y].used /\ y # x => dev'[y].root # None
      BY <1>0, <2>2, <2>3
    <2>8. dev'[c'.dev].root = None
      BY <2>1, <2>2
    <2> QED
      BY <1>0, <2>1, <2>3, <2>5, <2>6, <2>7, <2>8 DEF PoolInv
  <1>2. CASE MountBoot
    <2>1. c.pc = "boot" /\ c.dev \in Dev /\ c'.pc = "root" /\ c'.dev = c.dev /\ dev[c.dev].used
          /\ dev[c.dev].disk \in Disk /\ data' = data /\ nodes' = nodes
      BY <1>2, MountBootStep
    <2>2. PICK r \in Device : /\ r.used = dev[c.dev].used /\ r.disk = dev[c.dev].disk
                              /\ r.root = dev[c.dev].root /\ dev' = [dev EXCEPT ![c.dev] = r]
      BY <1>2, MountBootStep
    <2>3. dev'[c.dev] = r /\ \A y \in Dev : y # c.dev => dev'[y] = dev[y]
      BY <2>1, <2>2, TypeDev
    <2>4. \A y \in Dev : dev'[y].root = dev[y].root /\ dev'[y].used = dev[y].used
      BY <2>2, <2>3
    <2> QED
      BY <1>0, <2>1, <2>4 DEF PoolInv
  <1>3. CASE MountRoot
    <2>1. c.pc = "root" /\ c.dev \in Dev /\ c'.pc = "vfs" /\ c'.dev = c.dev
      BY <1>3, MountRootStep
    <2>2. PICK s \in Data, e \in VnodeData, r \in Device :
            /\ data[s] = NoEntry /\ e.root /\ e.dev = c.dev
            /\ data' = [data EXCEPT ![s] = e] /\ nodes' = nodes \cup {s}
            /\ r.used = dev[c.dev].used /\ r.disk = dev[c.dev].disk /\ r.root = s
            /\ dev' = [dev EXCEPT ![c.dev] = r]
      BY <1>3, MountRootStep
    <2>3. r.used => r.disk \in Disk
      BY <2>1, <2>2 DEF TypeInv
    <2>4. dev'[c.dev] = r /\ \A y \in Dev : y # c.dev => dev'[y] = dev[y]
      BY <2>1, <2>2, <2>3, TypeDev
    <2>5. dev[c.dev].used
      BY <2>1 DEF GeoInv
    <2>6. data'[s] = e /\ \A q \in Data : q # s => data'[q] = data[q]
      BY <1>a, <2>2
    <2>7. e # NoEntry
      BY <2>2, NoEntryType
    <2>8. ASSUME NEW y \in Dev, dev'[y].root # None
          PROVE  /\ dev'[y].used /\ dev'[y].root \in nodes'
                 /\ data'[dev'[y].root].root /\ data'[dev'[y].root].dev = y
      <3>1. CASE y = c.dev
        <4>1. dev'[y] = r /\ r.used /\ r.root = s /\ s \in nodes'
          BY <2>2, <2>4, <2>5, <3>1
        <4>2. data'[s].root /\ data'[s].dev = y
          BY <2>2, <2>6, <3>1
        <4> QED
          BY <4>1, <4>2
      <3>2. CASE y # c.dev
        <4>1. /\ dev[y].used /\ dev[y].root \in nodes /\ dev'[y] = dev[y] /\ dev[y].root \in Data
              /\ data[dev[y].root].root /\ data[dev[y].root].dev = y
          BY <1>0, <1>b, <2>4, <2>8, <3>2
        <4>2. dev[y].root # s
          BY <2>2, <4>1, NoEntryType
        <4> QED
          BY <2>2, <2>6, <4>1, <4>2
      <3> QED
        BY <3>1, <3>2
    <2>9. \A y \in Dev : dev'[y].used => dev'[y].root # None
      BY <1>0, <1>a, <2>1, <2>2, <2>4
    <2>10. \A q \in Data : data'[q].root => \E y \in Dev : dev'[y].root = q
      <3> SUFFICES ASSUME NEW q \in Data, data'[q].root PROVE \E y \in Dev : dev'[y].root = q
        OBVIOUS
      <3>1. CASE q = s
        BY <2>1, <2>2, <2>4, <3>1
      <3>2. CASE q # s
        <4>1. PICK y \in Dev : dev[y].root = q
          BY <1>0, <2>6, <3>2
        <4>2. y # c.dev
          BY <1>0, <1>a, <2>1, <4>1
        <4> QED
          BY <2>4, <4>1, <4>2
      <3> QED
        BY <3>1, <3>2
    <2>11. \A q \in nodes' : data'[q] # NoEntry
      BY <1>0, <1>a, <2>2, <2>6, <2>7
    <2> QED
      BY <2>1, <2>8, <2>9, <2>10, <2>11 DEF PoolInv
  <1>4. CASE MountDone \/ Return
    <2>1. UNCHANGED <<dev, data, nodes>> /\ c' = NoCall /\ c.pc \notin {"boot", "root"}
      BY <1>4 DEF MountDone, Return
    <2> QED
      BY <2>1, NoCallType, PoolSame
  <1>5. CASE MountFails
    <2>1. c.dev \in Dev /\ c' = NoCall /\ FreeDevice(c.dev) /\ RootAfterFailure
      BY <1>5, MountFailsStep
    <2>2. PICK x \in Dev : x = c.dev
      BY <2>1
    <2>3. /\ data' = IF dev[x].root = None THEN data ELSE [data EXCEPT ![dev[x].root] = NoEntry]
          /\ nodes' = nodes \ {dev[x].root}
      BY <2>1, <2>2 DEF RootAfterFailure
    <2> QED
      BY <2>1, <2>2, <2>3, NoCallType, PoolFree
  <1>6. ASSUME NEW x \in Dev, Unmount(x) PROVE PoolInv'
    <2>1. c.pc = "idle" /\ c' = c /\ FreeDevice(x) /\ dev[x].root \in Data
          /\ data' = [data EXCEPT ![dev[x].root] = NoEntry] /\ nodes' = nodes \ {dev[x].root}
      BY <1>6, UnmountStep
    <2>2. data' = IF dev[x].root = None THEN data ELSE [data EXCEPT ![dev[x].root] = NoEntry]
      BY <1>a, <2>1
    <2> QED
      BY <2>1, <2>2, PoolFree
  <1>7. ASSUME NEW s \in Data, NEW n \in Name, Lookup(s, n) PROVE PoolInv'
    <2>1. /\ UNCHANGED <<dev, data, nodes>> /\ c.pc \notin {"boot", "root"}
          /\ c'.pc \notin {"boot", "root"}
      BY <1>7, LookupType
    <2> QED
      BY <2>1, PoolSame
  <1>8. ASSUME NEW s \in Data, Open(s) PROVE PoolInv'
    BY <1>8, PoolSame DEF Open, Idle
  <1>9. CASE ScanRoot \/ ScanCluster
    <2>1. dev' = dev /\ c.pc \in {"scanroot", "scan"}
      BY <1>9, LookupStep DEF ScanRoot, ScanCluster
    <2>2. c'.pc \notin {"boot", "root"}
      <3>1. c \in Call
        BY DEF TypeInv
      <3> QED
        BY <1>9, <2>1, <3>1, LookupStep, NoCallType DEF Call
    <2>3. CASE UNCHANGED <<data, nodes>>
      BY <2>1, <2>2, <2>3, PoolSame
    <2>4. CASE NewEntry
      <3>1. PICK s \in Data, e \in VnodeData :
              /\ data[s] = NoEntry /\ e.dev = c.dev /\ ~e.root
              /\ data' = [data EXCEPT ![s] = e]
              /\ nodes' = nodes \/ nodes' = nodes \cup {s}
        BY <2>4 DEF NewEntry
      <3>2. data'[s] = e /\ \A q \in Data : q # s => data'[q] = data[q]
        BY <1>a, <3>1
      <3>3. e # NoEntry
        <4>1. c.dev \in Dev /\ None \notin Dev
          BY <2>1 DEF TypeInv, None, Dev
        <4> QED
          BY <3>1, <4>1, NoEntryType
      <3>4. ASSUME NEW y \in Dev, dev[y].root # None
            PROVE  /\ dev[y].used /\ dev[y].root \in nodes'
                   /\ data'[dev[y].root].root /\ data'[dev[y].root].dev = y
        <4>1. /\ dev[y].used /\ dev[y].root \in nodes /\ dev[y].root \in Data
              /\ data[dev[y].root].root /\ data[dev[y].root].dev = y
          BY <1>0, <1>b, <3>4
        <4>2. dev[y].root # s
          BY <3>1, <4>1, NoEntryType
        <4> QED
          BY <3>1, <3>2, <4>1, <4>2
      <3>5. \A q \in Data : data'[q].root => \E y \in Dev : dev[y].root = q
        BY <1>0, <3>1, <3>2
      <3>6. \A q \in nodes' : data'[q] # NoEntry
        BY <1>0, <1>a, <3>1, <3>2, <3>3
      <3>7. \A y \in Dev : dev[y].used => dev[y].root # None
        BY <1>0, <2>1
      <3> QED
        BY <2>1, <2>2, <3>4, <3>5, <3>6, <3>7 DEF PoolInv
    <2> QED
      BY <1>9, <2>3, <2>4, LookupStep
  <1>10. ASSUME NEW h \in Handle, Close(h) PROVE PoolInv'
    BY <1>10, PoolSame DEF Close, Idle
  <1>11. ASSUME NEW h \in Handle, NEW q \in ReadAt, Read(h, q[1], q[2]) PROVE PoolInv'
    <2>1. UNCHANGED <<dev, data, nodes>> /\ c'.pc \in {"read", "panic"} /\ c.pc = "idle"
      BY <1>11, ReadStep DEF Read, Idle
    <2> QED
      BY <2>1, PoolSame
  <1>12. CASE ReadChunk
    <2>1. UNCHANGED <<dev, data, nodes>> /\ c.pc = "read" /\ c'.pc \in {"read", "done"}
      BY <1>12, ReadChunkStep
    <2> QED
      BY <2>1, PoolSame
  <1>13. CASE DiskFails
    <2>1. /\ UNCHANGED <<dev, data, nodes>> /\ c'.pc \in {"idle", "done"}
          /\ c.pc \notin {"boot", "root"}
      BY <1>13, DiskFailsStep, NoCallType DEF DiskFails
    <2> QED
      BY <2>1, PoolSame
  <1>14. CASE UNCHANGED vars
    BY <1>0, <1>14 DEF vars, PoolInv
  <1> QED
    BY <1>1, <1>2, <1>3, <1>4, <1>5, <1>6, <1>7, <1>8, <1>9, <1>10, <1>11, <1>12, <1>13, <1>14
       DEF Next

(***************************************************************************)
(* The read                                                                *)
(***************************************************************************)
\* Steps that change neither the volume nor the file that is read leave its chain.
LEMMA NthSame ==
    ASSUME UNCHANGED <<image, dev, handle>>, c'.dev = c.dev, c'.handle = c.handle,
           c'.from = c.from, NEW i
    PROVE  Nth(i)' = Nth(i) /\ Place(i)' = Place(i)
  <1>1. Place(i)' = Place(i)
    BY DEF Place, ClusterSize
  <1>2. Nth(i)' = Nth(i)
    BY DEF Nth, NthCluster, ClusterValid, FatEntry
  <1> QED
    BY <1>1, <1>2

\* There is no read at first.
LEMMA ReadInit == Init => ReadInv
  <1> SUFFICES ASSUME Init PROVE ReadInv
    OBVIOUS
  <1>1. c.pc = "idle"
    BY DEF Init, NoCall
  <1> QED
    BY <1>1 DEF ReadInv

\* Without a read there is nothing to keep.
LEMMA ReadNone ==
    ASSUME c'.pc \notin {"read", "done"}
    PROVE  ReadInv'
  BY DEF ReadInv

\* A step of others.
LEMMA ReadSame ==
    ASSUME ReadInv, UNCHANGED <<image, dev, handle, c>>
    PROVE  ReadInv'
  <1>1. \A i : Nth(i)' = Nth(i) /\ Place(i)' = Place(i)
    BY NthSame
  <1>2. \A i : Nth(Place(i))' = Nth(Place(i))
    BY <1>1 DEF Nth
  <1>3. \A i : ClusterValid(dev[c.dev].geo, Nth(Place(i)))' <=> ClusterValid(dev[c.dev].geo, Nth(Place(i)))
    BY <1>2 DEF ClusterValid
  <1>4. Filled' <=> Filled
    BY <1>2, <1>3 DEF Filled, ClusterAddr, ClusterSize
  <1> HIDE DEF Filled
  <1> QED
    BY <1>3, <1>4 DEF ReadInv

\* Every step keeps what is said of a read: each turn appends bytes of the cluster it has found.
LEMMA ReadNext ==
    ASSUME TypeInv, GeoInv, PoolInv, ReadInv, [Next]_vars
    PROVE  ReadInv'
  <1>1. ASSUME NEW d \in Disk, Mount(d) PROVE ReadInv'
    <2>1. c'.pc = "boot"
      BY <1>1, MountStep
    <2> QED
      BY <2>1, ReadNone
  <1>2. CASE MountBoot
    <2>1. c'.pc = "root"
      BY <1>2, MountBootStep
    <2> QED
      BY <2>1, ReadNone
  <1>3. CASE MountRoot
    <2>1. c'.pc = "vfs"
      BY <1>3, MountRootStep
    <2> QED
      BY <2>1, ReadNone
  <1>4. CASE MountDone \/ Return \/ MountFails
    <2>1. c' = NoCall
      BY <1>4 DEF MountDone, Return, MountFails
    <2> QED
      BY <2>1, NoCallType, ReadNone
  <1>6. ASSUME NEW x \in Dev, Unmount(x) PROVE ReadInv'
    <2>1. c'.pc = "idle"
      BY <1>6 DEF Unmount, Idle
    <2> QED
      BY <2>1, ReadNone
  <1>7. ASSUME NEW s \in Data, NEW n \in Name, Lookup(s, n) PROVE ReadInv'
    <2>1. c'.pc \in {"scanroot", "scan"}
      BY <1>7, LookupType
    <2> QED
      BY <2>1, ReadNone
  <1>8. ASSUME NEW s \in Data, Open(s) PROVE ReadInv'
    <2>1. c'.pc = "idle"
      BY <1>8 DEF Open, Idle
    <2> QED
      BY <2>1, ReadNone
  <1>9. CASE ScanRoot \/ ScanCluster
    <2>1. c.pc \in {"scanroot", "scan"} /\ c \in Call
      BY <1>9 DEF ScanRoot, ScanCluster, TypeInv
    <2>2. c'.pc \notin {"read", "done"}
      BY <1>9, <2>1, LookupStep, NoCallType DEF Call
    <2> QED
      BY <2>2, ReadNone
  <1>10. ASSUME NEW h \in Handle, Close(h) PROVE ReadInv'
    <2>1. c'.pc = "idle"
      BY <1>10 DEF Close, Idle
    <2> QED
      BY <2>1, ReadNone
  <1>11. ASSUME NEW h \in Handle, NEW q \in ReadAt, Read(h, q[1], q[2]) PROVE ReadInv'
    <2>1. /\ handle' = handle /\ c'.pc \in {"read", "panic"} /\ c'.dev = handle[h].dev /\ c'.handle = h
          /\ c'.todo > 0 /\ c'.from + c'.todo <= handle[h].size /\ c'.buf = <<>> /\ c' \in Call
      BY <1>11, ReadStep
    <2>2. Len(c'.buf) = 0 /\ c'.todo \in Nat
      BY <2>1 DEF Call
    <2>3. Filled'
      BY <2>2 DEF Filled
    <2> HIDE DEF Filled
    <2> QED
      BY <2>1, <2>2, <2>3 DEF ReadInv
  <1>12. CASE ReadChunk
    <2>1. /\ UNCHANGED <<image, dev, handle>> /\ c.pc = "read" /\ c.dev \in Dev /\ dev[c.dev].used
          /\ c'.dev = c.dev /\ c'.handle = c.handle /\ c'.from = c.from /\ c'.todo = c.todo
      BY <1>12, ReadChunkStep
    <2>2. /\ c'.handle \in Handle /\ handle'[c'.handle].dev = c'.dev
          /\ c'.todo > 0 /\ c'.from + c'.todo <= handle'[c'.handle].size
      BY <2>1 DEF ReadInv
    <2>3. Filled /\ Len(c.buf) < c.todo /\ Len(c.buf) \in Nat /\ c.todo \in Nat
      BY <2>1, TypeParts DEF ReadInv
    <2>4. \A i : Nth(i)' = Nth(i) /\ Place(i)' = Place(i)
      BY <2>1, NthSame
    <2>5. CASE /\ c'.pc = "done" /\ c'.status = "corrupted"
               /\ ~ClusterValid(dev[c.dev].geo, Nth(Place(Len(c.buf) + 1)))
      <3>1. PICK i \in 1 .. c.todo : i = Len(c.buf) + 1
        BY <2>3
      <3>2. ~ClusterValid(dev[c.dev].geo, Nth(Place(i)))
        BY <2>5, <3>1
      <3>3. Nth(Place(i))' = Nth(Place(i))
        BY <2>1, <2>4 DEF Nth
      <3>4. ~ClusterValid(dev[c.dev].geo, Nth(Place(i)))'
        BY <2>1, <3>2, <3>3 DEF ClusterValid
      <3>5. i \in 1 .. c'.todo
        BY <2>1
      <3> QED
        BY <2>2, <2>5, <3>4, <3>5 DEF ReadInv
    <2>6. ASSUME \/ c'.pc = "done" /\ c'.status = "ok" /\ Len(c'.buf) = c.todo
                 \/ c'.pc = "read" /\ Len(c'.buf) < c.todo,
                 NEW n \in Nat,
                 Len(c'.buf) = Len(c.buf) + n,
                 \A i \in 1 .. Len(c.buf) : c'.buf[i] = c.buf[i],
                 \A i \in 1 .. n :
                     /\ ClusterValid(dev[c.dev].geo, Nth(Place(Len(c.buf) + i)))
                     /\ c'.buf[Len(c.buf) + i] =
                          ClusterAddr(dev[c.dev].geo, Nth(Place(Len(c.buf) + i)))
                          + ((c.from + (Len(c.buf) + i) - 1) % ClusterSize(dev[c.dev].geo))
          PROVE  ReadInv'
      <3>1. ASSUME NEW i \in 1 .. Len(c'.buf)
            PROVE  /\ ClusterValid(dev[c.dev].geo, Nth(Place(i)))
                   /\ c'.buf[i] = ClusterAddr(dev[c.dev].geo, Nth(Place(i)))
                                    + ((c.from + i - 1) % ClusterSize(dev[c.dev].geo))
        <4>1. CASE i \in 1 .. Len(c.buf)
          BY <2>3, <2>6, <4>1 DEF Filled
        <4>2. CASE i \notin 1 .. Len(c.buf)
          <5>1. PICK m \in Nat : m = Len(c.buf)
            BY <2>3
          <5>2. PICK j \in 1 .. n : i = m + j
            <6>1. i \in 1 .. m + n /\ i \notin 1 .. m
              BY <2>6, <4>2, <5>1
            <6>2. i - m \in 1 .. n /\ i = m + (i - m)
              BY <6>1
            <6> QED
              BY <6>2
          <5> QED
            BY <2>6, <5>1, <5>2
        <4> QED
          BY <4>1, <4>2
      <3>2. Filled'
        <4> SUFFICES ASSUME NEW i \in 1 .. Len(c'.buf)
                     PROVE  /\ ClusterValid(dev[c.dev].geo, Nth(Place(i)))'
                            /\ c'.buf[i] = ClusterAddr(dev[c.dev].geo, Nth(Place(i)))'
                                    + ((c.from + i - 1) % ClusterSize(dev[c.dev].geo))'
          BY DEF Filled
        <4>1. Nth(Place(i))' = Nth(Place(i))
          BY <2>1, <2>4 DEF Nth
        <4>2. ClusterValid(dev[c.dev].geo, Nth(Place(i)))' <=> ClusterValid(dev[c.dev].geo, Nth(Place(i)))
          BY <2>1, <4>1 DEF ClusterValid
        <4>3. ClusterAddr(dev[c.dev].geo, Nth(Place(i)))' = ClusterAddr(dev[c.dev].geo, Nth(Place(i)))
          BY <2>1, <4>1 DEF ClusterAddr
        <4>4. ((c.from + i - 1) % ClusterSize(dev[c.dev].geo))'
                = (c.from + i - 1) % ClusterSize(dev[c.dev].geo)
          BY <2>1 DEF ClusterSize
        <4> QED
          BY <3>1, <4>2, <4>3, <4>4
      <3> HIDE DEF Filled
      <3>3. Len(c'.buf) = c'.todo \/ (c'.pc = "read" /\ Len(c'.buf) < c'.todo)
        BY <2>1, <2>6
      <3> QED
        BY <2>1, <2>2, <2>6, <3>2, <3>3 DEF ReadInv
    <2> QED
      BY <1>12, <2>5, <2>6, ReadChunkStep
  <1>13. CASE DiskFails
    <2>1. CASE c' = NoCall
      BY <2>1, NoCallType, ReadNone
    <2>2. CASE /\ c.pc = "read" /\ c'.pc = "done" /\ c'.status = "failed" /\ c'.dev = c.dev
               /\ c'.handle = c.handle /\ c'.todo = c.todo /\ c'.from = c.from
      <3>1. handle' = handle
        BY <1>13 DEF DiskFails
      <3> QED
        BY <2>2, <3>1 DEF ReadInv
    <2> QED
      BY <1>13, <2>1, <2>2, DiskFailsStep
  <1>14. CASE UNCHANGED vars
    <2>1. UNCHANGED <<image, dev, data, nodes, handle, c, mounts>>
      BY <1>14 DEF vars
    <2> QED
      BY <2>1, ReadSame
  <1> QED
    BY <1>1, <1>2, <1>3, <1>4, <1>6, <1>7, <1>8, <1>9, <1>10, <1>11, <1>12, <1>13, <1>14
       DEF Next

(***************************************************************************)
(* What the invariant gives                                                *)
(***************************************************************************)
\* A chain that has a cluster number p has all the clusters before it, and the table links them.
LEMMA ChainBefore ==
    ASSUME TypeInv, NEW x \in Dev, dev[x].used, Fits(dev[x].geo), NEW first \in Nat,
           NEW p \in Nat, ClusterValid(dev[x].geo, NthCluster(x, first, p))
    PROVE  /\ \A i \in 0 .. p : ClusterValid(dev[x].geo, NthCluster(x, first, i))
           /\ \A i \in 0 .. p - 1 : NthCluster(x, first, i + 1) =
                                      image[dev[x].disk].fat[NthCluster(x, first, i)]
           /\ NthCluster(x, first, 0) = first
  <1> DEFINE N(i) == NthCluster(x, first, i)
             F == image[dev[x].disk].fat
             V(k) == ClusterValid(dev[x].geo, k)
  <1>1. PICK K \in Nat : K = dev[x].geo.clusters
    BY TypeParts DEF Geo
  <1>2. /\ \A i \in Nat : i >= K \/ ~V(first) => ~V(N(i))
        /\ V(first) => N(0) = first
        /\ \A i \in Nat : V(first) /\ i + 1 < K => N(i + 1) = Follow(K, F, N(i))
    BY <1>1, NthFacts
  <1>3. \A k : Follow(K, F, k) = IF V(k) THEN F[k] ELSE k
    BY <1>1 DEF Follow, ClusterValid
  <1>4. V(N(p))
    OBVIOUS
  <1> HIDE DEF N, F, V
  <1>5. V(first) /\ p < K
    BY <1>1, <1>2, <1>4
  <1>6. ASSUME NEW i \in Nat, i < p PROVE N(i + 1) = Follow(K, F, N(i))
    BY <1>1, <1>2, <1>5, <1>6
  <1>7. \A i \in 0 .. p : V(N(i))
    <2> DEFINE S == {j \in Nat : j <= p /\ ~V(N(p - j))}
    <2>1. SUFFICES ASSUME S # {} PROVE FALSE
      <3> SUFFICES ASSUME NEW i \in 0 .. p, ~V(N(i)) PROVE S # {}
        BY <2>1
      <3>1. p - i \in Nat /\ p - i <= p /\ p - (p - i) = i
        OBVIOUS
      <3>2. p - i \in S
        BY <3>1
      <3> QED
        BY <3>2
    <2>2. S \in SUBSET Nat
      OBVIOUS
    <2>3. PICK m \in S : \A y \in S : m <= y
      <3> HIDE DEF S
      <3> QED
        BY <2>1, <2>2, LeastNatural
    <2>4. m \in Nat /\ m <= p /\ ~V(N(p - m))
      BY <2>3
    <2>5. m # 0
      BY <1>4, <2>4
    <2>6. m - 1 \in Nat /\ m - 1 <= p /\ ~(m <= m - 1)
      BY <2>4, <2>5
    <2>7. m - 1 \notin S
      BY <2>3, <2>6
    <2>8. V(N(p - (m - 1)))
      BY <2>6, <2>7
    <2> HIDE DEF S
    <2>9. PICK a \in Nat : a = p - m /\ a < p /\ p - (m - 1) = a + 1
      BY <2>4, <2>5
    <2>10. N(a + 1) = Follow(K, F, N(a))
      BY <1>6, <2>9
    <2>11. ~V(N(a)) /\ V(N(a + 1))
      BY <2>4, <2>8, <2>9
    <2> QED
      BY <1>3, <2>10, <2>11
  <1>8. ASSUME NEW i \in 0 .. p - 1 PROVE N(i + 1) = F[N(i)]
    <2>1. i \in Nat /\ i < p /\ i \in 0 .. p
      OBVIOUS
    <2>2. N(i + 1) = Follow(K, F, N(i)) /\ V(N(i))
      BY <1>6, <1>7, <2>1
    <2> QED
      BY <1>3, <2>2
  <1>9. N(0) = first
    BY <1>2, <1>5
  <1> QED
    BY <1>7, <1>8, <1>9 DEF N, F, V

\* s starts with the cluster `first`, and the table leads from each of its clusters to the next.
IsChain(s, n, F, first) == s[1] = first /\ \A i \in 1 .. n - 1 : F[s[i]] = s[i + 1]

\* A chain of the table is the one that fat16_get_nth_cluster walks.
LEMMA ChainIsNth ==
    ASSUME TypeInv, NEW x \in Dev, dev[x].used, Fits(dev[x].geo), NEW first \in Nat,
           NEW n \in Nat \ {0}, n <= dev[x].geo.clusters,
           NEW s \in [1 .. n -> 2 .. dev[x].geo.clusters + 1],
           IsChain(s, n, image[dev[x].disk].fat, first)
    PROVE  \A j \in 0 .. n - 1 : NthCluster(x, first, j) = s[j + 1]
  <1> DEFINE N(i) == NthCluster(x, first, i)
             F == image[dev[x].disk].fat
             V(k) == ClusterValid(dev[x].geo, k)
             S == {j \in Nat : j < n /\ N(j) # s[j + 1]}
  <1>1. PICK K \in Nat : K = dev[x].geo.clusters
    BY TypeParts DEF Geo
  <1>2. /\ V(first) => N(0) = first
        /\ \A i \in Nat : V(first) /\ i + 1 < K => N(i + 1) = Follow(K, F, N(i))
    BY <1>1, NthFacts
  <1>3. \A k \in 2 .. K + 1 : V(k) /\ Follow(K, F, k) = F[k]
    BY <1>1 DEF Follow, ClusterValid
  <1>4. /\ n <= K /\ s \in [1 .. n -> 2 .. K + 1] /\ s[1] = first
        /\ \A i \in 1 .. n - 1 : F[s[i]] = s[i + 1]
    BY <1>1 DEF IsChain
  <1> HIDE DEF N, F, V
  <1>5. SUFFICES ASSUME S # {} PROVE FALSE
    <2> SUFFICES ASSUME NEW j \in 0 .. n - 1, N(j) # s[j + 1] PROVE S # {}
      BY <1>5 DEF N
    <2>1. j \in S
      OBVIOUS
    <2> QED
      BY <2>1
  <1>6. PICK m \in S : \A y \in S : m <= y
    <2>1. S \in SUBSET Nat
      OBVIOUS
    <2> HIDE DEF S
    <2> QED
      BY <1>5, <2>1, LeastNatural
  <1>7. m \in Nat /\ m < n /\ N(m) # s[m + 1]
    BY <1>6
  <1>8. V(first)
    <2>1. 1 \in 1 .. n
      OBVIOUS
    <2> QED
      BY <1>3, <1>4, <2>1
  <1>9. m # 0
    BY <1>2, <1>4, <1>7, <1>8
  <1>10. PICK a \in Nat : m = a + 1 /\ ~(m <= a) /\ a < n
    <2>1. m - 1 \in Nat /\ m = (m - 1) + 1 /\ ~(m <= m - 1) /\ m - 1 < n
      BY <1>7, <1>9
    <2> QED
      BY <2>1
  <1>11. a \notin S
    BY <1>6, <1>10
  <1>12. N(a) = s[a + 1]
    BY <1>10, <1>11
  <1> HIDE DEF S
  <1>13. a + 1 \in 1 .. n - 1 /\ a + 1 \in 1 .. n /\ a + 1 < K
    BY <1>1, <1>4, <1>7, <1>10
  <1>14. N(a + 1) = Follow(K, F, N(a))
    BY <1>2, <1>8, <1>13
  <1>15. PICK k \in 2 .. K + 1 : k = s[a + 1]
    BY <1>4, <1>13
  <1>16. PICK b \in 1 .. n - 1 : b = a + 1
    BY <1>13
  <1>17. F[s[b]] = s[b + 1]
    BY <1>4
  <1>18. N(a + 1) = F[k]
    BY <1>3, <1>12, <1>14, <1>15
  <1> QED
    BY <1>7, <1>10, <1>15, <1>16, <1>17, <1>18

\* The places of the bytes of a read in the chain.
LEMMA PlaceFacts ==
    ASSUME TypeInv, c.dev \in Dev, Fits(dev[c.dev].geo), NEW i \in 1 .. c.todo
    PROVE  /\ Place(i) \in Nat /\ Place(c.todo) \in Nat /\ Place(i) <= Place(c.todo)
           /\ c.todo \in 1 .. c.todo
  <1>1. c.from \in Nat /\ c.todo \in Nat /\ dev[c.dev].geo \in Geo
    BY TypeParts
  <1>2. PICK CS \in Nat \ {0} : CS = ClusterSize(dev[c.dev].geo)
    BY <1>1, ClusterFacts
  <1>3. PICK a \in Nat, b \in Nat : a = c.from + i - 1 /\ b = c.from + c.todo - 1 /\ a <= b
    BY <1>1
  <1>4. a \div CS \in Nat /\ b \div CS \in Nat /\ a \div CS <= b \div CS
    BY <1>3, DivFacts, DivMonotone
  <1> QED
    BY <1>1, <1>2, <1>3, <1>4 DEF Place

\* When a read is over, ReadIsChain holds of its result.
LEMMA ReadIsChainHolds ==
    ASSUME TypeInv, GeoInv, ReadInv
    PROVE  ReadIsChain
  <1> DEFINE e == handle[c.handle]
             x == e.dev
             g == dev[x].geo
             F == image[dev[x].disk].fat
             needed == (c.from + c.todo - 1) \div ClusterSize(g) + 1
             chains == {s \in [1 .. needed -> 2 .. g.clusters + 1] :
                          s[1] = e.first /\ \A i \in 1 .. needed - 1 : F[s[i]] = s[i + 1]}
  <1>1. SUFFICES ASSUME c.pc = "done", c.status # "failed", dev[x].used
                 PROVE  IF c.status = "corrupted" THEN needed > g.clusters \/ chains = {}
                        ELSE /\ c.from + c.todo <= e.size
                             /\ \E s \in chains :
                                 c.buf = [i \in 1 .. c.todo |->
                                    LET o == c.from + i - 1
                                    IN  ClusterAddr(g, s[o \div ClusterSize(g) + 1])
                                          + (o % ClusterSize(g))]
    BY DEF ReadIsChain
  <1>2. /\ c.handle \in Handle /\ x = c.dev /\ c.todo > 0 /\ c.from + c.todo <= e.size
        /\ c.status # "none"
    BY <1>1 DEF ReadInv
  <1>3. c.status = "ok" \/ c.status = "corrupted"
    BY <1>1, <1>2 DEF TypeInv, Call
  <1>4. c.dev \in Dev /\ Fits(g) /\ g \in Geo /\ g.clusters \in Nat /\ e.first \in Nat
    <2>1. c.dev \in Dev
      BY <1>1 DEF TypeInv
    <2>2. Fits(g)
      BY <1>1, <1>2, <2>1 DEF GeoInv
    <2> QED
      BY <1>2, <2>1, <2>2, TypeParts DEF VnodeData, Geo
  <1>5. c.from \in Nat /\ c.todo \in Nat /\ c.buf \in Seq(Nat)
    BY TypeParts
  <1>6. PICK p \in Nat : p = Place(c.todo)
    <2>1. c.todo \in 1 .. c.todo
      BY <1>2, <1>5
    <2> QED
      BY <1>2, <1>4, <2>1, PlaceFacts
  <1>7. needed = p + 1
    BY <1>2, <1>6 DEF Place
  <1>8. \A i \in 1 .. c.todo : Place(i) \in 0 .. p
    BY <1>2, <1>4, <1>6, PlaceFacts
  <1>9. \A i : Nth(i) = NthCluster(c.dev, e.first, i)
    BY DEF Nth
  <1>10. CASE c.status = "ok"
    <2>1. Len(c.buf) = c.todo /\ Filled
      BY <1>1, <1>2, <1>10 DEF ReadInv
    <2>2. \A i \in 1 .. c.todo : /\ ClusterValid(g, Nth(Place(i)))
                                 /\ c.buf[i] = ClusterAddr(g, Nth(Place(i)))
                                                 + ((c.from + i - 1) % ClusterSize(g))
      BY <1>2, <2>1 DEF Filled
    <2>3. ClusterValid(g, NthCluster(c.dev, e.first, p))
      <3>1. c.todo \in 1 .. c.todo
        BY <1>2, <1>5
      <3> QED
        BY <1>6, <1>9, <2>2, <3>1
    <2>4. /\ \A i \in 0 .. p : ClusterValid(g, Nth(i)) /\ Nth(i) \in Nat
          /\ \A i \in 0 .. p - 1 : Nth(i + 1) = F[Nth(i)]
          /\ Nth(0) = e.first
      <3>1. \A i \in Nat : Nth(i) \in Nat
        BY <1>1, <1>2, <1>4, <1>9, NthFacts
      <3>2. /\ \A i \in 0 .. p : ClusterValid(g, Nth(i))
            /\ \A i \in 0 .. p - 1 : Nth(i + 1) = F[Nth(i)]
            /\ Nth(0) = e.first
        BY <1>1, <1>2, <1>4, <1>9, <2>3, ChainBefore
      <3> QED
        BY <3>1, <3>2
    <2> DEFINE s == [j \in 1 .. needed |-> Nth(j - 1)]
    <2>5. \A j \in 1 .. p + 1 : j - 1 \in 0 .. p
      OBVIOUS
    <2>6. \A k \in Nat : ClusterValid(g, k) => k \in 2 .. g.clusters + 1
      BY <1>4 DEF ClusterValid
    <2> HIDE DEF e, x, g, F, needed
    <2>7. s \in [1 .. needed -> 2 .. g.clusters + 1]
      BY <1>7, <2>4, <2>5, <2>6
    <2>8. s[1] = e.first
      <3>1. 1 \in 1 .. needed /\ 1 - 1 = 0
        BY <1>7
      <3> QED
        BY <2>4, <3>1
    <2>9. \A i \in 1 .. needed - 1 : F[s[i]] = s[i + 1]
      <3> SUFFICES ASSUME NEW i \in 1 .. needed - 1 PROVE F[s[i]] = s[i + 1]
        OBVIOUS
      <3>1. PICK j \in 0 .. p - 1 : j = i - 1 /\ i = j + 1 /\ (i + 1) - 1 = j + 1
        BY <1>7
      <3>2. i \in 1 .. needed /\ i + 1 \in 1 .. needed
        BY <1>7
      <3>3. s[i] = Nth(j) /\ s[i + 1] = Nth(j + 1)
        BY <3>1, <3>2
      <3> QED
        BY <2>4, <3>3
    <2>10. s \in chains
      BY <2>7, <2>8, <2>9
    <2>11. ASSUME NEW i \in 1 .. c.todo
           PROVE  c.buf[i] = LET o == c.from + i - 1
                             IN  ClusterAddr(g, s[o \div ClusterSize(g) + 1]) + (o % ClusterSize(g))
      <3>1. PICK q \in 0 .. p : q = Place(i)
        BY <1>8
      <3>2. q + 1 \in 1 .. needed /\ (q + 1) - 1 = q
        BY <1>7
      <3>3. s[q + 1] = Nth(q)
        BY <3>2
      <3>4. q = (c.from + i - 1) \div ClusterSize(g)
        BY <1>2, <3>1 DEF Place, g
      <3> HIDE DEF s
      <3> QED
        BY <2>2, <3>1, <3>3, <3>4
    <2> HIDE DEF s, chains
    <2>12. c.buf = [i \in 1 .. c.todo |->
                      LET o == c.from + i - 1
                      IN  ClusterAddr(g, s[o \div ClusterSize(g) + 1]) + (o % ClusterSize(g))]
      <3>1. c.buf = [i \in 1 .. c.todo |-> c.buf[i]]
        <4>1. PICK b \in Seq(Nat) : b = c.buf
          BY <1>5
        <4>2. b = [i \in 1 .. Len(b) |-> b[i]]
          OBVIOUS
        <4> QED
          BY <2>1, <4>1, <4>2
      <3> QED
        BY <2>11, <3>1
    <2> QED
      BY <1>2, <1>10, <2>10, <2>12
  <1>11. CASE c.status = "corrupted"
    <2>1. PICK i \in 1 .. c.todo : ~ClusterValid(g, Nth(Place(i)))
      BY <1>1, <1>2, <1>11 DEF ReadInv
    <2>2. SUFFICES ASSUME ~(needed > g.clusters), NEW s \in chains PROVE FALSE
      BY <1>11
    <2>3. PICK n \in Nat \ {0} : n = needed /\ n = p + 1 /\ n <= g.clusters
      <3> HIDE DEF needed, g
      <3> QED
        BY <1>4, <1>7, <2>2
    <2>4. /\ s \in [1 .. n -> 2 .. g.clusters + 1] /\ s[1] = e.first
          /\ \A j \in 1 .. n - 1 : F[s[j]] = s[j + 1]
      BY <2>2, <2>3
    <2>5. \A j \in 0 .. n - 1 : Nth(j) = s[j + 1]
      <3>1. dev[c.dev].used /\ g = dev[c.dev].geo /\ F = image[dev[c.dev].disk].fat
        BY <1>1, <1>2
      <3> HIDE DEF e, g, F
      <3>2. PICK f \in Nat : f = e.first
        BY <1>4
      <3>3. /\ n <= dev[c.dev].geo.clusters /\ s \in [1 .. n -> 2 .. dev[c.dev].geo.clusters + 1]
            /\ s[1] = f /\ Fits(dev[c.dev].geo)
            /\ \A j \in 1 .. n - 1 : image[dev[c.dev].disk].fat[s[j]] = s[j + 1]
        BY <1>4, <2>3, <2>4, <3>1, <3>2
      <3>4. \A j \in 0 .. n - 1 : NthCluster(c.dev, f, j) = s[j + 1]
        <4> HIDE DEF needed, chains, x
        <4>1. PICK y \in Dev : y = c.dev
          BY <1>4
        <4>2. PICK t \in [1 .. n -> 2 .. dev[y].geo.clusters + 1] : t = s
          BY <3>3, <4>1
        <4>3. /\ dev[y].used /\ Fits(dev[y].geo) /\ n <= dev[y].geo.clusters
              /\ IsChain(t, n, image[dev[y].disk].fat, f)
          BY <3>1, <3>3, <4>1, <4>2 DEF IsChain
        <4>4. \A j \in 0 .. n - 1 : NthCluster(y, f, j) = t[j + 1]
          BY <4>3, ChainIsNth
        <4> QED
          BY <4>1, <4>2, <4>4
      <3> QED
        BY <1>9, <3>2, <3>4
    <2>6. PICK q \in 0 .. p : q = Place(i)
      BY <1>8
    <2> HIDE DEF e, x, g, F, needed, chains
    <2>7. q \in 0 .. n - 1 /\ q + 1 \in 1 .. n
      BY <2>3
    <2>8. PICK k \in 2 .. g.clusters + 1 : k = Nth(q)
      BY <2>4, <2>5, <2>7
    <2>9. ClusterValid(g, k)
      BY <1>4 DEF ClusterValid
    <2> QED
      BY <2>1, <2>6, <2>8, <2>9
  <1> QED
    BY <1>3, <1>10, <1>11

\* The pools balance when no call is in progress.
LEMMA PoolsHold ==
    ASSUME TypeInv, PoolInv
    PROVE  PoolsBalanced
  <1> SUFFICES ASSUME Idle PROVE PoolsBalanced
    BY DEF PoolsBalanced
  <1>1. \A x \in Dev : dev[x].used <=> dev[x].root # None
    BY DEF PoolInv, Idle, TypeInv, Device
  <1>2. {s \in Data : data[s].root} = {dev[x].root : x \in {x \in Dev : dev[x].used}}
    <2>1. ASSUME NEW s \in Data, data[s].root PROVE \E x \in Dev : dev[x].used /\ dev[x].root = s
      <3>1. PICK x \in Dev : dev[x].root = s
        BY <2>1 DEF PoolInv
      <3>2. s # None
        BY DEF Data, None
      <3> QED
        BY <1>1, <3>1, <3>2
    <2>2. ASSUME NEW x \in Dev, dev[x].used PROVE dev[x].root \in Data /\ data[dev[x].root].root
      BY <1>1, <2>2, TypeParts DEF PoolInv
    <2> QED
      BY <2>1, <2>2
  <1>3. {s \in Data : data[s].root} \subseteq nodes
    <2> SUFFICES ASSUME NEW s \in Data, data[s].root PROVE s \in nodes
      OBVIOUS
    <2>1. PICK x \in Dev : dev[x].root = s
      BY DEF PoolInv
    <2>2. s # None
      BY DEF Data, None
    <2> QED
      BY <2>1, <2>2 DEF PoolInv
  <1>4. \A s \in nodes : data[s] # NoEntry
    BY DEF PoolInv
  <1> QED
    BY <1>1, <1>2, <1>3, <1>4 DEF PoolsBalanced

\* The inductive invariant. Its parts need each other: bytes have addresses because the volume fits,
\* and a lookup finds a device because every vnode has its data.
FatInv == TypeInv /\ GeoInv /\ PoolInv /\ ReadInv

\* It holds in every reachable state, whatever is on the disks.
THEOREM FatSafe == Spec => []FatInv
  <1>1. Init => FatInv
    BY TypeInit, GeoInit, PoolInit, ReadInit DEF FatInv
  <1>2. FatInv /\ [Next]_vars => FatInv'
    BY TypeNext, GeoNext, PoolNext, ReadNext DEF FatInv
  <1> QED
    BY <1>1, <1>2, PTL DEF Spec

\* Whichever step of fat16_mount_internal fails, and whatever is unmounted while files are open, a
\* device is in use exactly when it has a root with its vnode, and no other root is left behind.
THEOREM PoolsSafe == Spec => []PoolsBalanced
  <1>1. FatInv => PoolsBalanced
    BY PoolsHold DEF FatInv
  <1> QED
    BY <1>1, FatSafe, PTL

\* No turn of a loop of fat16.c reads outside the part of the volume it is meant for, on any disk that
\* fat16_load_boot_sector accepts: its comparison of the table's size with the number of clusters, and
\* fat16_cluster_valid before every address, are enough.
THEOREM ReadsSafe == Spec => []ReadsInPlace
  <1>1. FatInv => ReadsInPlace
    BY ReadsInPlaceHolds DEF FatInv
  <1> QED
    BY <1>1, FatSafe, PTL

\* A fat16_file_read hands out exactly the bytes of the chain of its file, in order and across clusters,
\* and reports a damaged file only when the table has no chain as long as the read needs: for every
\* table, cluster size, offset and length.
THEOREM ReadChainSafe == Spec => []ReadIsChain
  <1>1. FatInv => ReadIsChain
    BY ReadIsChainHolds DEF FatInv
  <1> QED
    BY <1>1, FatSafe, PTL

(***************************************************************************)
(* Geometries                                                              *)
(***************************************************************************)
\* A slot has the geometry of a boot sector that passed the checks, or none since it was cleared,
\* and a read has found one.
VerifiedInv ==
    /\ \A x \in Dev : dev[x].geo.spc # 0 => dev[x].geo.clusters \in MinClusters .. MaxClusters
    /\ c.pc = "read" => dev[c.dev].geo.spc # 0
    /\ c.pc = "panic" => StaleReads

\* A geometry stays in its slot until the slot is cleared for the next volume.
LEMMA GeometryStays ==
    ASSUME TypeInv, GeoInv, PoolInv, ReadInv, [Next]_vars, NEW x \in Dev
    PROVE  \/ dev'[x].geo = dev[x].geo
           \/ dev'[x].geo.spc = 0
           \/ dev'[x].geo.clusters \in MinClusters .. MaxClusters
  <1>a. dev \in [Dev -> Device]
    BY DEF TypeInv
  <1>1. ASSUME NEW d \in Disk, Mount(d) PROVE dev'[x].geo = dev[x].geo \/ dev'[x].geo.spc = 0
    <2>1. PICK y \in Dev, r \in Device : r.geo = NoGeo /\ dev' = [dev EXCEPT ![y] = r]
      BY <1>1, MountStep
    <2> QED
      BY <1>a, <2>1 DEF NoGeo
  <1>2. CASE MountBoot
    <2>1. PICK b : BootOk(b) /\ dev' = [dev EXCEPT ![c.dev].geo = Geometry(b)]
      BY <1>2 DEF MountBoot
    <2>2. Geometry(b).clusters \in MinClusters .. MaxClusters
      BY <2>1 DEF BootOk
    <2>3. CASE x = c.dev
      BY <1>a, <2>1, <2>2, <2>3 DEF Device
    <2>4. CASE x # c.dev
      BY <1>a, <2>1, <2>4
    <2> QED
      BY <2>3, <2>4
  <1>3. CASE MountRoot
    <2>1. dev' = [dev EXCEPT ![c.dev].root = Least(FreeData)]
      BY <1>3 DEF MountRoot
    <2> QED
      BY <1>a, <2>1 DEF Device
  <1>4. CASE MountFails \/ \E y \in Dev : Unmount(y)
    <2>1. PICK y : FreeDevice(y)
      BY <1>4 DEF MountFails, Unmount
    <2> QED
      BY <1>a, <2>1 DEF FreeDevice, Device
  <1>5. CASE \/ MountDone \/ ScanRoot \/ ScanCluster \/ ReadChunk \/ DiskFails \/ Return
             \/ (\E s \in Data : (\E n \in Name : Lookup(s, n)) \/ Open(s))
             \/ (\E h \in Handle : Close(h) \/ \E q \in ReadAt : Read(h, q[1], q[2]))
             \/ UNCHANGED vars
    BY <1>5 DEF MountDone, ScanRoot, ScanCluster, ReadChunk, DiskFails, Return, Lookup, Open, Close,
       Read, vars
  <1> QED
    BY <1>1, <1>2, <1>3, <1>4, <1>5 DEF Next

\* Only fat16_file_read starts to calculate with a slot that may be free.
LEMMA VerifiedNext ==
    ASSUME TypeInv, GeoInv, PoolInv, ReadInv, VerifiedInv, [Next]_vars
    PROVE  VerifiedInv'
  <1>1. \A x \in Dev : dev'[x].geo.spc # 0 => dev'[x].geo.clusters \in MinClusters .. MaxClusters
    BY GeometryStays DEF VerifiedInv
  <1>2. CASE \E h \in Handle : \E q \in ReadAt : Read(h, q[1], q[2])
    <2>1. /\ dev' = dev
          /\ c'.pc = "read" => dev[c'.dev].geo.spc # 0
          /\ c'.pc = "panic" => StaleReads
      BY <1>2, ReadStep
    <2> QED
      BY <1>1, <2>1 DEF VerifiedInv
  <1>3. CASE ReadChunk
    <2>1. dev' = dev /\ c.pc = "read" /\ c'.pc \in {"read", "done"} /\ c'.dev = c.dev
      BY <1>3, ReadChunkStep
    <2> QED
      BY <1>1, <2>1 DEF VerifiedInv
  <1>4. CASE ~(ReadChunk \/ \E h \in Handle : \E q \in ReadAt : Read(h, q[1], q[2]))
    <2>1. c'.pc \notin {"read", "panic"} \/ (dev' = dev /\ c' = c)
      <3>1. CASE \E d \in Disk : Mount(d)
        BY <3>1, MountStep
      <3>2. CASE MountBoot \/ MountRoot
        BY <3>2, MountBootStep, MountRootStep
      <3>3. CASE MountDone \/ MountFails \/ Return
        BY <3>3, NoCallType DEF MountDone, MountFails, Return
      <3>4. CASE \/ \E x \in Dev : Unmount(x)
                 \/ \E s \in Data : Open(s)
                 \/ \E h \in Handle : Close(h)
        BY <3>4 DEF Unmount, Open, Close, Idle
      <3>5. CASE \E s \in Data : \E n \in Name : Lookup(s, n)
        BY <3>5, LookupType
      <3>6. CASE ScanRoot \/ ScanCluster
        <4>1. c.pc \in {"scanroot", "scan"} /\ c \in Call
          BY <3>6 DEF ScanRoot, ScanCluster, TypeInv
        <4> QED
          BY <3>6, <4>1, LookupStep, NoCallType DEF Call
      <3>7. CASE DiskFails
        BY <3>7, DiskFailsStep, NoCallType
      <3>8. CASE UNCHANGED vars
        BY <3>8 DEF vars
      <3> QED
        BY <1>4, <3>1, <3>2, <3>3, <3>4, <3>5, <3>6, <3>7, <3>8 DEF Next
    <2> QED
      BY <1>1, <2>1 DEF VerifiedInv
  <1> QED
    BY <1>2, <1>3, <1>4

\* As long as no handle is read whose slot was cleared for a volume that was then refused, the driver
\* calculates only with geometries that passed the checks of fat16_load_boot_sector: a slot that is
\* unmounted keeps its own, so that case is the only one that goes wrong.
THEOREM GeometrySafe ==
    ASSUME ~StaleReads
    PROVE  Spec => []GeometryVerified
  <1>1. Init => VerifiedInv
    <2> SUFFICES ASSUME Init PROVE VerifiedInv
      OBVIOUS
    <2>1. c.pc = "idle" /\ \A x \in Dev : dev[x].geo.spc = 0
      BY DEF Init, NoDevice, NoGeo, NoCall
    <2> QED
      BY <2>1 DEF VerifiedInv
  <1>2. FatInv /\ VerifiedInv /\ [Next]_vars => VerifiedInv'
    BY VerifiedNext DEF FatInv
  <1>3. FatInv /\ VerifiedInv => GeometryVerified
    <2> SUFFICES ASSUME FatInv, VerifiedInv,
                        c.pc \in {"scanroot", "scan", "read", "panic"}
                 PROVE  /\ dev[c.dev].geo.spc # 0
                        /\ dev[c.dev].geo.clusters \in MinClusters .. MaxClusters
      BY DEF GeometryVerified
    <2>1. c.dev \in Dev /\ c.pc # "panic"
      BY DEF FatInv, TypeInv, VerifiedInv
    <2>2. c.pc \in {"scanroot", "scan"} => dev[c.dev].geo.spc > 0
      BY <2>1 DEF FatInv, GeoInv, Fits
    <2>3. dev[c.dev].geo.spc # 0
      BY <2>1, <2>2 DEF VerifiedInv
    <2> QED
      BY <2>1, <2>3 DEF VerifiedInv
  <1>4. Spec => []VerifiedInv
    BY <1>1, <1>2, FatSafe, PTL DEF Spec
  <1> QED
    BY <1>3, <1>4, FatSafe, PTL
=============================================================================
