--------------------------- MODULE NyfsCoreProofs ---------------------------
(***************************************************************************)
(* Proofs about NyfsCore.                                                  *)
(***************************************************************************)
EXTENDS NyfsCore, NatFacts, FiniteSetTheorems

(***************************************************************************)
(* The inductive invariant                                                 *)
(***************************************************************************)
\* A block, a volume, a stream, an inode and the history. The entries of a list are
\* those of the root, or copies.
Content == [unit : Nat, aces : Seq(Ace)]
Volume  == [taken : SUBSET Block, disk : [Block -> Content]]
Stream  == [ext : Block \cup {None}, blks : Seq(Block)]
Inode   == [type : {"NONE", "FILE", "DIR"}, uid : Nat, gid : Nat, mode : SUBSET ModeBit,
            ace : Seq(Ace), over : Block \cup {None}, overCount : Nat, data : Stream,
            size : Nat, ents : [Name -> Ino \cup {None}], recs : Nat]

History == [seed : Seq(Ace), depth : [Ino -> Nat], want : [Ino -> Seq(Int)],
            gone : SUBSET Block, lost : SUBSET Ino, full : BOOLEAN, attrs : Nat]

\* The types; a free inode is empty.
TypeInv ==
    /\ taken \in SUBSET Block
    /\ disk \in [Block -> Content]
    /\ inode \in [Ino -> Inode]
    /\ hist \in History
    /\ \A i \in Ino : inode[i].type = "NONE" => inode[i] = NoInode

\* A stream has no block twice, and its extent block is none of its data.
StreamOk(s) == IsInjective(s.blks) /\ s.ext \notin ToSet(s.blks)

\* BlocksAccounted for all inodes, and what is lost with removed inodes is taken.
BlockInv ==
    /\ \A i, j \in Ino : i # j => Owned(i) \cap Owned(j) = {}
    /\ \A i \in Ino : /\ Owned(i) \subseteq taken
                      /\ Owned(i) \cap hist.gone = {}
                      /\ StreamOk(inode[i].data)
                      /\ inode[i].over \notin Blocks(inode[i].data)
    /\ hist.gone \subseteq taken
    /\ ~hist.full => taken = hist.gone \cup UNION {Owned(i) : i \in Ino}

\* Only directories have names, the root has none and stays, every other inode has
\* one at most, and one exactly if no rename has lost it.
NameInv ==
    /\ IsDir(Root)
    /\ \A d \in Ino, n \in Name : inode[d].ents[n] # None =>
          IsDir(d) /\ inode[d].ents[n] \in Used \ {Root}
    /\ \A d, e \in Ino, m, n \in Name :
          inode[d].ents[m] # None /\ inode[d].ents[m] = inode[e].ents[n] => d = e /\ m = n
    /\ \A i \in Used \ (hist.lost \cup {Root}) : \E d \in Ino, n \in Name : inode[d].ents[n] = i

\* ReadsBack, and the size is covered by blocks.
ReadInv ==
    \A i \in Ino : inode[i].type = "FILE" =>
        /\ Len(hist.want[i]) = inode[i].size
        /\ inode[i].size <= Len(inode[i].data.blks)
        /\ \A k \in 1 .. inode[i].size :
             hist.want[i][k] # Hole => disk[inode[i].data.blks[k]].unit = hist.want[i][k]

\* The flag that lets a child of that type inherit an entry.
InheritFlag(type) == IF type = "DIR" THEN "INHERIT_DIR" ELSE "INHERIT_FILE"

\* The entries that an inode has which was made that far below the root.
Reaching(depth, type) ==
    IF depth = 0 THEN ToSet(hist.seed)
    ELSE {Copy(a) : a \in {x \in ToSet(hist.seed) :
                             /\ InheritFlag(type) \in x.flags
                             /\ depth > 1 => "INHERIT_DIR" \in x.flags /\ "NO_PROPAGATE" \notin x.flags}}

\* InheritedAcl with the flags of the entries, which decide what is inherited further
\* down; only the root has depth 0; a list block holds all the entries that are counted.
AclInv ==
    \A i \in Used :
        /\ inode[i].over # None => inode[i].overCount <= Len(disk[inode[i].over].aces)
        /\ hist.depth[i] = 0 <=> i = Root
        /\ ToSet(Aces(i)) = Reaching(hist.depth[i], inode[i].type)

\* The inductive invariant.
Inv == TypeInv /\ BlockInv /\ NameInv /\ ReadInv /\ AclInv

(***************************************************************************)
(* The numbers of a set in ascending order                                 *)
(***************************************************************************)
\* How many elements of S are smaller than x.
Rank(S, x) == Cardinality({y \in S : y < x})

\* A finite set of naturals has an element with every rank below its size.
LEMMA RankExists ==
    ASSUME NEW S \in SUBSET Nat, IsFiniteSet(S), NEW r \in Nat, r < Cardinality(S)
    PROVE  \E x \in S : Rank(S, x) = r
  <1>0. \A y \in S : y \in Nat
    OBVIOUS
  <1> DEFINE Bad == {q \in Nat : q < Cardinality(S) /\ \A x \in S : Rank(S, x) # q}
  <1> SUFFICES ASSUME Bad # {} PROVE FALSE
    OBVIOUS
  <1>1. PICK q \in Bad : \A p \in Bad : q <= p
    <2>1. Bad \in SUBSET Nat
      OBVIOUS
    <2> HIDE DEF Bad
    <2> QED
      BY <2>1, LeastNatural
  <1>2. Cardinality(S) \in Nat
    BY FS_CardinalityType
  <1>3. q # 0
    <2> SUFFICES ASSUME q = 0 PROVE FALSE
      OBVIOUS
    <2>1. S # {}
      BY <1>1, FS_EmptySet
    <2>2. PICK x \in S : \A y \in S : x <= y
      BY <2>1, LeastNatural
    <2>3. {y \in S : y < x} = {}
      <3>1. \A y \in S : ~(y < x)
        BY <1>0, <2>2
      <3> QED
        BY <3>1
    <2>4. Rank(S, x) = 0
      BY <2>3, FS_EmptySet DEF Rank
    <2> QED
      BY <1>1, <2>4
  <1>4. PICK x \in S : Rank(S, x) = q - 1
    BY <1>1, <1>2, <1>3
  <1> DEFINE L == {y \in S : y < x}
             G == {y \in S : y > x}
  <1>5. IsFiniteSet(L)
    BY FS_Subset
  <1>6. IsFiniteSet(L \cup {x}) /\ Cardinality(L \cup {x}) = q
    <2>1. x \notin L /\ Cardinality(L) = q - 1
      BY <1>4 DEF Rank
    <2> HIDE DEF L
    <2> QED
      BY <1>1, <1>3, <1>5, <2>1, FS_AddElement
  <1>7. G # {}
    <2> SUFFICES ASSUME G = {} PROVE FALSE
      OBVIOUS
    <2>1. S = L \cup {x}
      <3>1. \A y \in S : y < x \/ y = x
        BY <1>0
      <3> QED
        BY <3>1
    <2> QED
      BY <1>1, <1>6, <2>1
  <1>8. PICK z \in G : \A y \in G : z <= y
    <2>1. G \in SUBSET Nat
      OBVIOUS
    <2> HIDE DEF G
    <2> QED
      BY <1>7, <2>1, LeastNatural
  <1>9. {y \in S : y < z} = L \cup {x}
    <2>1. \A y \in S : y < z <=> (y < x \/ y = x)
      BY <1>0, <1>8
    <2> QED
      BY <2>1
  <1>10. Rank(S, z) = q
    BY <1>6, <1>9 DEF Rank
  <1> QED
    BY <1>1, <1>8, <1>10

\* Every element has a rank, and no two have the same.
LEMMA RankUnique ==
    ASSUME NEW S \in SUBSET Nat, IsFiniteSet(S), NEW x \in S
    PROVE  /\ Rank(S, x) \in Nat /\ Rank(S, x) < Cardinality(S)
           /\ \A y \in S : Rank(S, y) = Rank(S, x) => y = x
  <1>0. \A y \in S : y \in Nat
    OBVIOUS
  <1> DEFINE L(u) == {y \in S : y < u}
  <1>1. \A u \in S : IsFiniteSet(L(u)) /\ Rank(S, u) = Cardinality(L(u)) /\ Cardinality(L(u)) \in Nat
    BY FS_Subset, FS_CardinalityType DEF Rank
  <1>2. \A u, w \in S : u < w => Cardinality(L(u)) < Cardinality(L(w))
    <2> SUFFICES ASSUME NEW u \in S, NEW w \in S, u < w
                 PROVE  Cardinality(L(u)) < Cardinality(L(w))
      OBVIOUS
    <2>1. L(u) \subseteq L(w) /\ L(u) # L(w)
      <3>1. u \in L(w) /\ u \notin L(u)
        BY <1>0
      <3>2. L(u) \subseteq L(w)
        <4>1. \A y \in S : y < u => y < w
          BY <1>0
        <4> QED
          BY <4>1
      <3> QED
        BY <3>1, <3>2
    <2>2. IsFiniteSet(L(w))
      BY <1>1
    <2> HIDE DEF L
    <2>3. Cardinality(L(u)) <= Cardinality(L(w))
          /\ (Cardinality(L(u)) = Cardinality(L(w)) => L(u) = L(w))
      BY <2>1, <2>2, FS_Subset
    <2> QED
      BY <1>1, <2>1, <2>3
  <1>3. Cardinality(L(x)) < Cardinality(S)
    <2>1. L(x) \subseteq S /\ x \notin L(x)
      OBVIOUS
    <2>2. L(x) # S
      BY <2>1
    <2> HIDE DEF L
    <2>3. Cardinality(L(x)) <= Cardinality(S) /\ (Cardinality(L(x)) = Cardinality(S) => L(x) = S)
      BY <2>1, FS_Subset
    <2>4. Cardinality(S) \in Nat
      BY FS_CardinalityType
    <2> QED
      BY <1>1, <2>2, <2>3, <2>4
  <1> HIDE DEF L
  <1>4. \A y \in S : Rank(S, y) = Rank(S, x) => y = x
    BY <1>1, <1>2
  <1> QED
    BY <1>1, <1>3, <1>4

\* Ascending(S) lists the elements of S, each of them once.
LEMMA AscendingFacts ==
    ASSUME NEW S \in SUBSET Nat, IsFiniteSet(S)
    PROVE  /\ Ascending(S) \in Seq(S) /\ Len(Ascending(S)) = Cardinality(S)
           /\ IsInjective(Ascending(S))
           /\ ToSet(Ascending(S)) = S
  <1> DEFINE n == Cardinality(S)
             f == Ascending(S)
  <1>1. n \in Nat
    BY FS_CardinalityType
  <1>2. f = [k \in 1 .. n |-> CHOOSE x \in S : Rank(S, x) = k - 1]
    BY DEF Ascending, Rank
  <1>3. ASSUME NEW k \in 1 .. n PROVE f[k] \in S /\ Rank(S, f[k]) = k - 1
    <2>1. k - 1 \in Nat /\ k - 1 < n
      BY <1>1
    <2>2. \E x \in S : Rank(S, x) = k - 1
      BY <2>1, RankExists
    <2>3. f[k] = CHOOSE x \in S : Rank(S, x) = k - 1
      BY <1>2
    <2> QED
      BY <2>2, <2>3
  <1>4. DOMAIN f = 1 .. n
    BY <1>2
  <1>5. f \in [1 .. n -> S]
    BY <1>2, <1>3
  <1>6. f \in Seq(S) /\ Len(f) = n
    BY <1>1, <1>5
  <1>7. IsInjective(f)
    <2> SUFFICES ASSUME NEW a \in 1 .. n, NEW b \in 1 .. n, f[a] = f[b] PROVE a = b
      BY <1>4 DEF IsInjective
    <2>1. a - 1 = b - 1
      BY <1>3
    <2> QED
      BY <1>1, <2>1
  <1>8. \A x \in S : \E k \in 1 .. n : f[k] = x
    <2> SUFFICES ASSUME NEW x \in S PROVE \E k \in 1 .. n : f[k] = x
      OBVIOUS
    <2>1. /\ Rank(S, x) \in Nat /\ Rank(S, x) < n
          /\ \A y \in S : Rank(S, y) = Rank(S, x) => y = x
      BY RankUnique
    <2>2. PICK k \in 1 .. n : k - 1 = Rank(S, x)
      <3>1. Rank(S, x) + 1 \in 1 .. n /\ (Rank(S, x) + 1) - 1 = Rank(S, x)
        BY <1>1, <2>1
      <3> QED
        BY <3>1
    <2> QED
      BY <1>3, <2>1, <2>2
  <1>9. ToSet(f) = S
    BY <1>4, <1>5, <1>8 DEF ToSet
  <1> QED
    BY <1>6, <1>7, <1>9

(***************************************************************************)
(* Streams                                                                 *)
(***************************************************************************)
LEMMA BlockFinite ==
    ASSUME NEW S \in SUBSET Block
    PROVE  S \in SUBSET Nat /\ IsFiniteSet(S)
  <1>1. NBlocks \in Nat
    BY SizeAssumption
  <1>2. IsFiniteSet(1 .. NBlocks)
    BY <1>1, FS_Interval
  <1>3. S \subseteq 1 .. NBlocks
    BY DEF Block
  <1>4. S \in SUBSET Nat
    BY <1>1, <1>3
  <1>5. IsFiniteSet(S)
    BY <1>2, <1>3, FS_Subset
  <1> QED
    BY <1>4, <1>5

\* The elements of a sequence that is put together, part by part.
LEMMA ConcatSet ==
    ASSUME NEW S, NEW s \in Seq(S), NEW t \in Seq(S)
    PROVE  /\ s \o t \in Seq(S) /\ Len(s \o t) = Len(s) + Len(t)
           /\ \A k \in 1 .. Len(s) : (s \o t)[k] = s[k]
           /\ \A k \in 1 .. Len(t) : (s \o t)[Len(s) + k] = t[k]
           /\ ToSet(s \o t) = ToSet(s) \cup ToSet(t)
  <1> DEFINE u == s \o t
  <1>1. u \in Seq(S) /\ Len(u) = Len(s) + Len(t)
    OBVIOUS
  <1>2. \A k \in 1 .. Len(s) : u[k] = s[k]
    OBVIOUS
  <1>3. \A k \in 1 .. Len(t) : u[Len(s) + k] = t[k]
    OBVIOUS
  <1>4. Len(s) \in Nat /\ Len(t) \in Nat
    OBVIOUS
  <1>5. DOMAIN u = 1 .. Len(s) + Len(t) /\ DOMAIN s = 1 .. Len(s) /\ DOMAIN t = 1 .. Len(t)
    BY <1>1
  <1> HIDE DEF u
  <1>6. \A x : x \in ToSet(u) => x \in ToSet(s) \cup ToSet(t)
    <2> SUFFICES ASSUME NEW x \in ToSet(u) PROVE x \in ToSet(s) \cup ToSet(t)
      OBVIOUS
    <2>1. PICK k \in 1 .. Len(s) + Len(t) : x = u[k]
      BY <1>5 DEF ToSet
    <2>2. CASE k <= Len(s)
      BY <1>2, <1>4, <1>5, <2>1, <2>2 DEF ToSet
    <2>3. CASE k > Len(s)
      <3>1. PICK j \in 1 .. Len(t) : k = Len(s) + j
        <4>1. k - Len(s) \in 1 .. Len(t) /\ k = Len(s) + (k - Len(s))
          BY <1>4, <2>3
        <4> QED
          BY <4>1
      <3> QED
        BY <1>3, <1>5, <2>1, <3>1 DEF ToSet
    <2> QED
      BY <1>4, <2>2, <2>3
  <1>7. \A x : x \in ToSet(s) => x \in ToSet(u)
    BY <1>2, <1>4, <1>5 DEF ToSet
  <1>8. \A x : x \in ToSet(t) => x \in ToSet(u)
    <2> SUFFICES ASSUME NEW j \in 1 .. Len(t) PROVE t[j] \in ToSet(u)
      BY <1>5 DEF ToSet
    <2>1. Len(s) + j \in 1 .. Len(s) + Len(t)
      BY <1>4
    <2> QED
      BY <1>3, <1>5, <2>1 DEF ToSet
  <1> QED
    BY <1>1, <1>2, <1>3, <1>6, <1>7, <1>8 DEF u

\* What a sequence has in front, and from m on.
LEMMA SubSeqFacts ==
    ASSUME NEW S, NEW s \in Seq(S), NEW m \in 1 .. Len(s) + 1, NEW n \in 0 .. Len(s), m <= n + 1
    PROVE  /\ SubSeq(s, m, n) \in Seq(S)
           /\ Len(SubSeq(s, m, n)) = n - m + 1
           /\ \A k \in 1 .. n - m + 1 : SubSeq(s, m, n)[k] = s[m + k - 1]
  OBVIOUS

\* Extend adds blocks that were free to the end of the stream, as many as are
\* needed or as there are, and writes nothing but a new extent block.
LEMMA ExtendFacts ==
    ASSUME NEW v \in Volume, NEW s \in Stream, NEW need \in Nat,
           StreamOk(s), Blocks(s) \subseteq v.taken
    PROVE  LET e == Extend(v, s, need)
           IN  /\ e.ok \in BOOLEAN /\ e.s \in Stream /\ e.v \in Volume
               /\ StreamOk(e.s)
               /\ Blocks(s) \subseteq Blocks(e.s)
               /\ (Blocks(e.s) \ Blocks(s)) \cap v.taken = {}
               /\ e.v.taken = v.taken \cup Blocks(e.s)
               /\ Len(s.blks) <= Len(e.s.blks)
               /\ \A k \in 1 .. Len(s.blks) : e.s.blks[k] = s.blks[k]
               /\ e.ok => need <= Len(e.s.blks)
               /\ \A b \in v.taken : e.v.disk[b] = v.disk[b]
  <1> DEFINE free   == Ascending(Free(v))
             first  == s.ext = None
             wanted == IF need > Len(s.blks) THEN need - Len(s.blks) ELSE 0
             room   == IF ~first THEN Len(free) ELSE IF Len(free) > 1 THEN Len(free) - 1 ELSE 0
             n      == IF wanted <= room THEN wanted ELSE room
             data   == IF first /\ n > 0 THEN <<free[1]>> \o SubSeq(free, 3, n + 1)
                       ELSE SubSeq(free, 1, n)
             ext    == IF first /\ n > 0 THEN free[2] ELSE s.ext
             e      == Extend(v, s, need)
  <1>1. e = [ok |-> n = wanted,
             s  |-> [ext |-> ext, blks |-> s.blks \o data],
             v  |-> [taken |-> v.taken \cup ToSet(data) \cup (IF n > 0 THEN {ext} ELSE {}),
                     disk  |-> IF first /\ n > 0 THEN [v.disk EXCEPT ![ext] = Meta] ELSE v.disk]]
    BY DEF Extend
  <1>2. /\ v.taken \in SUBSET Block /\ v.disk \in [Block -> Content]
        /\ s.ext \in Block \cup {None} /\ s.blks \in Seq(Block) /\ Len(s.blks) \in Nat
    BY DEF Volume, Stream
  <1>3. /\ free \in Seq(Free(v)) /\ IsInjective(free) /\ Len(free) \in Nat
    <2>1. Free(v) \in SUBSET Block
      BY DEF Free
    <2>2. Free(v) \in SUBSET Nat /\ IsFiniteSet(Free(v))
      BY <2>1, BlockFinite
    <2> QED
      BY <2>2, AscendingFacts
  <1>4. Free(v) \subseteq Block /\ Free(v) \cap v.taken = {} /\ None \notin Block
    BY <1>2, SizeAssumption DEF Free, Block, None
  <1> HIDE DEF free
  <1>5. /\ wanted \in Nat /\ room \in Nat /\ n \in Nat
        /\ n = wanted => need <= Len(s.blks) + n
        /\ first /\ n > 0 => n + 1 <= Len(free)
        /\ ~first => n <= Len(free)
        /\ first => n = 0 \/ n + 1 <= Len(free)
    BY <1>2, <1>3
  <1> HIDE DEF wanted, room, n
  <1>6. /\ data \in Seq(Free(v)) /\ Len(data) = n /\ IsInjective(data)
        /\ first /\ n > 0 => ext \in Free(v) /\ ext \notin ToSet(data)
        /\ ~(first /\ n > 0) => ext = s.ext
    <2>1. CASE first /\ n > 0
      <3> DEFINE tl == SubSeq(free, 3, n + 1)
      <3>1. Len(free) >= 2 /\ n + 1 \in 2 .. Len(free) /\ n - 1 \in Nat
        BY <1>3, <1>5, <2>1
      <3>2. tl \in Seq(Free(v)) /\ Len(tl) = n - 1 /\ \A k \in 1 .. n - 1 : tl[k] = free[k + 2]
        <4>1. 3 \in 1 .. Len(free) + 1 /\ n + 1 \in 0 .. Len(free) /\ 3 <= (n + 1) + 1
          BY <1>3, <1>5, <2>1, <3>1
        <4> HIDE DEF tl
        <4>2. /\ tl \in Seq(Free(v)) /\ Len(tl) = (n + 1) - 3 + 1
              /\ \A k \in 1 .. (n + 1) - 3 + 1 : tl[k] = free[3 + k - 1]
          BY <1>3, <4>1, SubSeqFacts DEF tl
        <4>3. (n + 1) - 3 + 1 = n - 1 /\ \A k \in Nat : 3 + k - 1 = k + 2
          BY <1>5
        <4> QED
          BY <4>2, <4>3
      <3> HIDE DEF tl
      <3>3. free[1] \in Free(v) /\ free[2] \in Free(v)
        BY <1>3, <3>1
      <3>4. <<free[1]>> \in Seq(Free(v)) /\ Len(<<free[1]>>) = 1 /\ <<free[1]>>[1] = free[1]
        BY <3>3
      <3>5. data = <<free[1]>> \o tl
        BY <2>1 DEF tl
      <3>6. data \in Seq(Free(v)) /\ Len(data) = n /\ data[1] = free[1]
            /\ \A k \in 1 .. n - 1 : data[1 + k] = free[k + 2]
        <4> HIDE DEF data
        <4>1. /\ <<free[1]>> \o tl \in Seq(Free(v))
              /\ Len(<<free[1]>> \o tl) = Len(<<free[1]>>) + Len(tl)
              /\ \A k \in 1 .. Len(<<free[1]>>) : (<<free[1]>> \o tl)[k] = <<free[1]>>[k]
              /\ \A k \in 1 .. Len(tl) : (<<free[1]>> \o tl)[Len(<<free[1]>>) + k] = tl[k]
          BY <3>2, <3>4, ConcatSet
        <4>2. data \in Seq(Free(v)) /\ Len(data) = 1 + (n - 1) /\ data[1] = free[1]
              /\ \A k \in 1 .. n - 1 : data[1 + k] = tl[k]
          BY <3>2, <3>4, <3>5, <4>1
        <4>3. 1 + (n - 1) = n
          BY <1>5
        <4>4. \A k \in 1 .. n - 1 : data[1 + k] = free[k + 2]
          BY <3>2, <4>2
        <4> QED
          BY <4>2, <4>3, <4>4
      <3> HIDE DEF data
      <3>7. \A k \in 1 .. n : \/ k = 1 /\ data[k] = free[1]
                              \/ k > 1 /\ data[k] = free[k + 1]
        <4> SUFFICES ASSUME NEW k \in 1 .. n, k > 1 PROVE data[k] = free[k + 1]
          BY <3>6
        <4>1. k - 1 \in 1 .. n - 1 /\ 1 + (k - 1) = k /\ (k - 1) + 2 = k + 1
          BY <1>5
        <4> QED
          BY <3>6, <4>1
      <3>8. DOMAIN data = 1 .. n /\ DOMAIN free = 1 .. Len(free)
        BY <1>3, <3>6
      <3>9. \A a, b \in 1 .. Len(free) : free[a] = free[b] => a = b
        BY <1>3, <3>8 DEF IsInjective
      <3>10. \A k \in 1 .. n : k + 1 \in 1 .. Len(free) /\ k \in Nat
        BY <1>3, <1>5, <3>1
      <3>11. IsInjective(data)
        <4> SUFFICES ASSUME NEW a \in 1 .. n, NEW b \in 1 .. n, data[a] = data[b] PROVE a = b
          BY <3>8 DEF IsInjective
        <4>1. 1 \in 1 .. Len(free)
          BY <1>3, <3>1
        <4> QED
          BY <3>7, <3>9, <3>10, <4>1
      <3>12. free[2] \notin ToSet(data)
        <4> SUFFICES ASSUME NEW k \in 1 .. n, data[k] = free[2] PROVE FALSE
          BY <3>8 DEF ToSet
        <4>1. 1 \in 1 .. Len(free) /\ 2 \in 1 .. Len(free)
          BY <1>3, <3>1
        <4> QED
          BY <3>7, <3>9, <3>10, <4>1
      <3> QED
        BY <2>1, <3>3, <3>6, <3>11, <3>12
    <2>2. CASE ~(first /\ n > 0)
      <3>1. n <= Len(free) /\ data = SubSeq(free, 1, n)
        BY <1>3, <1>5, <2>2
      <3>2. 1 \in 1 .. Len(free) + 1 /\ n \in 0 .. Len(free) /\ 1 <= n + 1 /\ n - 1 + 1 = n
        BY <1>3, <1>5, <3>1
      <3> HIDE DEF data
      <3>3. data \in Seq(Free(v)) /\ Len(data) = n - 1 + 1
            /\ \A k \in 1 .. n - 1 + 1 : data[k] = free[1 + k - 1]
        BY <1>3, <3>1, <3>2, SubSeqFacts
      <3>4. Len(data) = n /\ DOMAIN data = 1 .. n /\ DOMAIN free = 1 .. Len(free)
        BY <1>3, <3>2, <3>3
      <3>5. \A k \in 1 .. n : data[k] = free[k] /\ k \in 1 .. Len(free)
        BY <1>3, <1>5, <3>1, <3>2, <3>3
      <3>6. IsInjective(data)
        BY <1>3, <3>4, <3>5 DEF IsInjective
      <3> QED
        BY <2>2, <3>3, <3>4, <3>6
    <2> QED
      BY <2>1, <2>2
  <1> HIDE DEF data, ext, first
  <1>7. data \in Seq(Block) /\ ToSet(data) \subseteq Free(v)
    BY <1>4, <1>6 DEF ToSet
  <1> DEFINE blks == s.blks \o data
  <1>8. /\ blks \in Seq(Block) /\ Len(blks) = Len(s.blks) + n
        /\ \A k \in 1 .. Len(s.blks) : blks[k] = s.blks[k]
        /\ \A k \in 1 .. n : blks[Len(s.blks) + k] = data[k]
        /\ ToSet(blks) = ToSet(s.blks) \cup ToSet(data)
    <2>1. PICK b \in Seq(Block) : b = s.blks
      BY <1>2
    <2>2. /\ b \o data \in Seq(Block) /\ Len(b \o data) = Len(b) + Len(data)
          /\ \A k \in 1 .. Len(b) : (b \o data)[k] = b[k]
          /\ \A k \in 1 .. Len(data) : (b \o data)[Len(b) + k] = data[k]
          /\ ToSet(b \o data) = ToSet(b) \cup ToSet(data)
      BY <1>7, ConcatSet
    <2>3. Len(data) = n
      BY <1>6
    <2> QED
      BY <2>1, <2>2, <2>3
  <1>9. /\ e.ok = (n = wanted) /\ e.s.ext = ext /\ e.s.blks = blks
        /\ e.s = [ext |-> ext, blks |-> blks]
        /\ e.v = [taken |-> v.taken \cup ToSet(data) \cup (IF n > 0 THEN {ext} ELSE {}),
                  disk  |-> IF first /\ n > 0 THEN [v.disk EXCEPT ![ext] = Meta] ELSE v.disk]
    BY <1>1
  <1> HIDE DEF e, blks
  <1>10. ext \in Block \cup {None}
    BY <1>2, <1>4, <1>6
  <1>11. /\ ToSet(s.blks) \subseteq v.taken
         /\ s.ext # None => s.ext \in v.taken
         /\ s.ext \notin ToSet(s.blks) /\ IsInjective(s.blks)
    BY DEF Blocks, StreamOk
  <1>12. StreamOk(e.s)
    <2>1. IsInjective(blks)
      <3> SUFFICES ASSUME NEW a \in 1 .. Len(s.blks) + n, NEW b \in 1 .. Len(s.blks) + n,
                          blks[a] = blks[b]
                   PROVE  a = b
        BY <1>8 DEF IsInjective
      <3>1. \A k \in 1 .. Len(s.blks) : s.blks[k] \in v.taken
        BY <1>2, <1>11 DEF ToSet
      <3>2. DOMAIN data = 1 .. n /\ DOMAIN s.blks = 1 .. Len(s.blks)
        BY <1>2, <1>6
      <3>3. \A k \in 1 .. n : data[k] \in Free(v)
        BY <1>7, <3>2 DEF ToSet
      <3>4. \A k \in 1 .. Len(s.blks) + n : k > Len(s.blks) =>
              k - Len(s.blks) \in 1 .. n /\ Len(s.blks) + (k - Len(s.blks)) = k
        BY <1>2, <1>5
      <3>5. \A k \in 1 .. Len(s.blks) + n :
              k > Len(s.blks) => blks[k] = data[k - Len(s.blks)] /\ blks[k] \in Free(v)
        BY <1>8, <3>3, <3>4
      <3>6. \A k \in 1 .. Len(s.blks) + n :
              k <= Len(s.blks) => k \in 1 .. Len(s.blks) /\ blks[k] = s.blks[k] /\ blks[k] \in v.taken
        BY <1>2, <1>8, <3>1
      <3>7. CASE a <= Len(s.blks) /\ b <= Len(s.blks)
        BY <1>11, <3>2, <3>6, <3>7 DEF IsInjective
      <3>8. CASE a > Len(s.blks) /\ b > Len(s.blks)
        <4>1. data[a - Len(s.blks)] = data[b - Len(s.blks)]
          BY <3>5, <3>8
        <4>2. a - Len(s.blks) = b - Len(s.blks)
          BY <1>6, <3>2, <3>4, <3>8, <4>1 DEF IsInjective
        <4> QED
          BY <1>2, <1>5, <4>2
      <3>9. CASE ~(a <= Len(s.blks) <=> b <= Len(s.blks))
        BY <1>2, <1>4, <1>5, <3>5, <3>6, <3>9
      <3> QED
        BY <1>2, <1>5, <3>7, <3>8, <3>9
    <2>2. ext \notin ToSet(blks)
      <3>1. CASE first /\ n > 0
        BY <1>4, <1>6, <1>8, <1>11, <3>1
      <3>2. CASE ~(first /\ n > 0)
        <4>1. ext = s.ext
          BY <1>6, <3>2
        <4>2. s.ext \notin ToSet(data)
          BY <1>2, <1>4, <1>7, <1>11
        <4> QED
          BY <1>8, <1>11, <4>1, <4>2
      <3> QED
        BY <3>1, <3>2
    <2> QED
      BY <1>9, <2>1, <2>2 DEF StreamOk
  <1>13. Blocks(e.s) = Blocks(s) \cup ToSet(data) \cup (IF first /\ n > 0 THEN {ext} ELSE {})
    <2>1. CASE first /\ n > 0
      <3>1. s.ext = None /\ ext # None
        BY <1>4, <1>6, <2>1 DEF first
      <3> QED
        BY <1>8, <1>9, <2>1, <3>1 DEF Blocks
    <2>2. CASE ~(first /\ n > 0)
      BY <1>6, <1>8, <1>9, <2>2 DEF Blocks
    <2> QED
      BY <2>1, <2>2
  <1>14. Blocks(s) \subseteq Blocks(e.s) /\ (Blocks(e.s) \ Blocks(s)) \cap v.taken = {}
    BY <1>4, <1>6, <1>7, <1>13
  <1>15. e.v.taken = v.taken \cup Blocks(e.s)
    <2>1. e.v.taken = v.taken \cup ToSet(data) \cup (IF n > 0 THEN {ext} ELSE {})
      BY <1>9
    <2>2. CASE first
      BY <1>13, <2>1, <2>2
    <2>3. CASE ~first
      <3>1. ext = s.ext /\ s.ext \in v.taken
        BY <1>6, <1>11, <2>3 DEF first
      <3> QED
        BY <1>13, <2>1, <2>3, <3>1
    <2> QED
      BY <2>2, <2>3
  <1>16. e.v \in Volume /\ \A b \in v.taken : e.v.disk[b] = v.disk[b]
    <2>1. e.v.disk \in [Block -> Content] /\ \A b \in v.taken : e.v.disk[b] = v.disk[b]
      <3>1. CASE first /\ n > 0
        <4>1. e.v.disk = [v.disk EXCEPT ![ext] = Meta] /\ ext \in Block \ v.taken
          BY <1>4, <1>6, <1>9, <3>1
        <4>2. Meta \in Content
          BY DEF Meta, Content
        <4> QED
          BY <1>2, <4>1, <4>2
      <3>2. CASE ~(first /\ n > 0)
        BY <1>2, <1>9, <3>2
      <3> QED
        BY <3>1, <3>2
    <2>2. Blocks(e.s) \subseteq Block
      BY <1>8, <1>9, <1>10 DEF Blocks, ToSet
    <2>3. e.v.taken \in SUBSET Block
      BY <1>2, <1>15, <2>2
    <2>4. e.v = [taken |-> e.v.taken, disk |-> e.v.disk]
      BY <1>9
    <2> QED
      BY <2>1, <2>3, <2>4 DEF Volume
  <1>17. e.s \in Stream
    BY <1>8, <1>9, <1>10 DEF Stream
  <1>18. Len(s.blks) <= Len(e.s.blks) /\ e.ok => need <= Len(e.s.blks)
    BY <1>2, <1>5, <1>8, <1>9
  <1>19. Len(s.blks) <= Len(e.s.blks) /\ \A k \in 1 .. Len(s.blks) : e.s.blks[k] = s.blks[k]
    BY <1>2, <1>5, <1>8, <1>9
  <1>20. e.ok \in BOOLEAN
    BY <1>9
  <1> QED
    BY <1>12, <1>14, <1>15, <1>16, <1>17, <1>18, <1>19, <1>20 DEF e

(***************************************************************************)
(* Access control lists                                                    *)
(***************************************************************************)
\* nyfs_inherit_acl changes nothing but the flags of an entry.
LEMMA CopyFacts ==
    ASSUME NEW a \in Ace
    PROVE  /\ Copy(a) \in Ace
           /\ Copy(a).id = a.id /\ Copy(a).type = a.type /\ Copy(a).mask = a.mask
           /\ "GROUP" \in Copy(a).flags <=> "GROUP" \in a.flags
           /\ "INHERIT_ONLY" \notin Copy(a).flags /\ "NO_PROPAGATE" \notin Copy(a).flags
           /\ \A f \in {"INHERIT_FILE", "INHERIT_DIR"} :
                f \in Copy(a).flags <=> f \in a.flags /\ "NO_PROPAGATE" \notin a.flags
           /\ "NO_PROPAGATE" \notin a.flags => Copy(Copy(a)) = Copy(a)
  <1> DEFINE gone(x) == {"INHERIT_ONLY"} \cup
                        (IF "NO_PROPAGATE" \in x.flags
                           THEN {"INHERIT_FILE", "INHERIT_DIR", "NO_PROPAGATE"} ELSE {})
  <1>1. \A x : Copy(x) = [x EXCEPT !.flags = x.flags \ gone(x)]
    BY DEF Copy
  <1>2. a = [id |-> a.id, type |-> a.type, mask |-> a.mask, flags |-> a.flags]
        /\ a.id \in Nat /\ a.type \in {"ALLOW", "DENY"} /\ a.mask \in SUBSET Right
        /\ a.flags \in SUBSET Flag
    BY DEF Ace
  <1>3. Copy(a) = [id |-> a.id, type |-> a.type, mask |-> a.mask, flags |-> a.flags \ gone(a)]
    BY <1>1, <1>2
  <1>4. Copy(a).flags = a.flags \ gone(a)
    BY <1>3
  <1>5. Copy(a) \in Ace
    BY <1>2, <1>3 DEF Ace
  <1>6. /\ "GROUP" \in Copy(a).flags <=> "GROUP" \in a.flags
        /\ "INHERIT_ONLY" \notin Copy(a).flags /\ "NO_PROPAGATE" \notin Copy(a).flags
        /\ \A f \in {"INHERIT_FILE", "INHERIT_DIR"} :
             f \in Copy(a).flags <=> f \in a.flags /\ "NO_PROPAGATE" \notin a.flags
    BY <1>4
  <1>7. ASSUME "NO_PROPAGATE" \notin a.flags PROVE Copy(Copy(a)) = Copy(a)
    <2> DEFINE c == Copy(a)
    <2>1. c.flags \ gone(c) = c.flags
      BY <1>4, <1>6, <1>7
    <2>2. Copy(c) = [c EXCEPT !.flags = c.flags \ gone(c)]
      BY <1>1
    <2>3. c = [id |-> a.id, type |-> a.type, mask |-> a.mask, flags |-> c.flags]
      BY <1>3
    <2> HIDE DEF c, gone
    <2>4. Copy(c) = [id |-> a.id, type |-> a.type, mask |-> a.mask, flags |-> c.flags]
      BY <2>1, <2>2, <2>3
    <2> QED
      BY <2>3, <2>4 DEF c
  <1> QED
    BY <1>3, <1>5, <1>6, <1>7

\* What a directory hands on to its child is what reaches the child from the root.
LEMMA ReachingStep ==
    ASSUME NEW depth \in Nat, NEW type \in {"FILE", "DIR"}, hist.seed \in Seq(Ace)
    PROVE  {Copy(a) : a \in {x \in Reaching(depth, "DIR") : InheritFlag(type) \in x.flags}}
             = Reaching(depth + 1, type)
  <1> DEFINE S == ToSet(hist.seed)
             g == InheritFlag(type)
             From(n, t) == {x \in S : /\ InheritFlag(t) \in x.flags
                                      /\ n > 1 => "INHERIT_DIR" \in x.flags /\ "NO_PROPAGATE" \notin x.flags}
             Passed == {x \in Reaching(depth, "DIR") : g \in x.flags}
  <1>1. \A x \in S : x \in Ace
    BY DEF ToSet
  <1>2. g \in {"INHERIT_FILE", "INHERIT_DIR"} /\ InheritFlag("DIR") = "INHERIT_DIR"
    BY DEF InheritFlag
  <1>3. Reaching(depth + 1, type) = {Copy(a) : a \in From(depth + 1, type)}
    BY DEF Reaching
  <1>4. CASE depth = 0
    <2>1. Reaching(depth, "DIR") = S
      BY <1>4 DEF Reaching
    <2>2. From(depth + 1, type) = {x \in S : g \in x.flags}
      BY <1>4
    <2> QED
      BY <1>3, <2>1, <2>2
  <1>5. CASE depth > 0
    <2>1. Reaching(depth, "DIR") = {Copy(a) : a \in From(depth, "DIR")}
      BY <1>5 DEF Reaching
    <2>2. depth + 1 > 1
      BY <1>5
    <2>3. ASSUME NEW y \in Passed PROVE Copy(y) \in Reaching(depth + 1, type)
      <3>1. PICK a \in From(depth, "DIR") : y = Copy(a)
        BY <2>1
      <3>2. a \in Ace /\ a \in S /\ g \in Copy(a).flags
        BY <1>1, <2>3, <3>1
      <3>3. g \in a.flags /\ "NO_PROPAGATE" \notin a.flags /\ Copy(Copy(a)) = Copy(a)
        BY <1>2, <3>2, CopyFacts
      <3>4. a \in From(depth + 1, type)
        BY <1>2, <3>1, <3>2, <3>3
      <3> QED
        BY <1>3, <3>1, <3>3, <3>4
    <2>4. ASSUME NEW z \in Reaching(depth + 1, type)
          PROVE  \E y \in Passed : z = Copy(y)
      <3>1. PICK a \in From(depth + 1, type) : z = Copy(a)
        BY <1>3
      <3>2. a \in Ace /\ a \in S /\ g \in a.flags
            /\ "INHERIT_DIR" \in a.flags /\ "NO_PROPAGATE" \notin a.flags
        BY <1>1, <2>2, <3>1
      <3>3. a \in From(depth, "DIR")
        BY <1>2, <3>2
      <3>4. g \in Copy(a).flags /\ Copy(Copy(a)) = Copy(a)
        BY <1>2, <3>2, CopyFacts
      <3>5. Copy(a) \in Passed
        BY <2>1, <3>3, <3>4
      <3> QED
        BY <3>1, <3>4, <3>5
    <2> HIDE DEF Passed
    <2>5. {Copy(a) : a \in Passed} = Reaching(depth + 1, type)
      BY <2>3, <2>4
    <2> QED
      BY <2>5 DEF Passed
  <1> QED
    BY <1>4, <1>5

\* The list of an inode in use is a sequence of entries.
LEMMA AcesType ==
    ASSUME TypeInv, AclInv, NEW i \in Used
    PROVE  Aces(i) \in Seq(Ace)
  <1>1. inode[i] \in Inode
    BY DEF TypeInv, Used
  <1>2. /\ inode[i].ace \in Seq(Ace) /\ inode[i].over \in Block \cup {None}
        /\ inode[i].overCount \in Nat
    BY <1>1 DEF Inode
  <1>3. CASE inode[i].over = None
    BY <1>2, <1>3 DEF Aces
  <1>4. CASE inode[i].over # None
    <2>1. disk[inode[i].over].aces \in Seq(Ace)
      BY <1>2, <1>4 DEF TypeInv, Content
    <2>2. inode[i].overCount <= Len(disk[inode[i].over].aces)
      BY <1>4 DEF AclInv
    <2>3. SubSeq(disk[inode[i].over].aces, 1, inode[i].overCount) \in Seq(Ace)
      BY <1>2, <2>1, <2>2
    <2> QED
      BY <1>2, <1>4, <2>3 DEF Aces
  <1> QED
    BY <1>3, <1>4

\* nyfs_inherit_acl gathers the entries with the flag of the child's type.
LEMMA InheritedFacts ==
    ASSUME TypeInv, AclInv, NEW d \in Used, NEW type \in {"FILE", "DIR"}
    PROVE  /\ Inherited(d, type) \in Seq(Ace)
           /\ ToSet(Inherited(d, type)) =
                {Copy(a) : a \in {x \in ToSet(Aces(d)) : InheritFlag(type) \in x.flags}}
  <1> DEFINE A  == Aces(d)
             P  == {k \in DOMAIN A : InheritFlag(type) \in A[k].flags}
             at == Ascending(P)
             r  == Inherited(d, type)
  <1>1. A \in Seq(Ace) /\ Len(A) \in Nat /\ DOMAIN A = 1 .. Len(A)
    BY AcesType
  <1>2. r = [k \in DOMAIN at |-> Copy(A[at[k]])]
    BY DEF Inherited, InheritFlag
  <1>3. P \in SUBSET Nat /\ IsFiniteSet(P)
    <2>1. IsFiniteSet(1 .. Len(A))
      BY <1>1, FS_Interval
    <2>2. P \subseteq 1 .. Len(A)
      BY <1>1
    <2> HIDE DEF P
    <2>3. P \in SUBSET Nat
      BY <1>1, <2>2
    <2> QED
      BY <2>1, <2>2, <2>3, FS_Subset
  <1>4. at \in Seq(P) /\ ToSet(at) = P
    <2> HIDE DEF P
    <2> QED
      BY <1>3, AscendingFacts
  <1> HIDE DEF at
  <1>5. Len(at) \in Nat /\ DOMAIN at = 1 .. Len(at) /\ \A k \in 1 .. Len(at) : at[k] \in P
    BY <1>4
  <1>6. \A k \in P : A[k] \in Ace /\ Copy(A[k]) \in Ace
    BY <1>1, CopyFacts
  <1> HIDE DEF A, r
  <1>7. r \in [1 .. Len(at) -> Ace]
    BY <1>2, <1>5, <1>6
  <1>8. r \in Seq(Ace) /\ DOMAIN r = 1 .. Len(at)
    BY <1>5, <1>7
  <1> DEFINE Q == {x \in ToSet(A) : InheritFlag(type) \in x.flags}
  <1>9. ToSet(r) \subseteq {Copy(a) : a \in Q}
    <2> SUFFICES ASSUME NEW k \in 1 .. Len(at) PROVE r[k] \in {Copy(a) : a \in Q}
      BY <1>8 DEF ToSet
    <2>1. at[k] \in P /\ r[k] = Copy(A[at[k]])
      BY <1>2, <1>5
    <2>2. A[at[k]] \in Q
      BY <2>1 DEF ToSet
    <2> QED
      BY <2>1, <2>2
  <1>10. {Copy(a) : a \in Q} \subseteq ToSet(r)
    <2> SUFFICES ASSUME NEW a \in Q PROVE Copy(a) \in ToSet(r)
      OBVIOUS
    <2>1. PICK j \in DOMAIN A : a = A[j]
      BY DEF ToSet
    <2>2. j \in ToSet(at)
      BY <1>4, <2>1
    <2>3. PICK k \in 1 .. Len(at) : at[k] = j
      BY <1>5, <2>2 DEF ToSet
    <2>4. r[k] = Copy(a)
      BY <1>2, <1>5, <2>1, <2>3
    <2> QED
      BY <1>8, <2>4 DEF ToSet
  <1> QED
    BY <1>8, <1>9, <1>10 DEF A, r

\* The least element of a set of numbers is one of them.
LEMMA LeastIn ==
    ASSUME NEW S \in SUBSET Nat, S # {}
    PROVE  Least(S) \in S
  <1>1. \E x \in S : \A y \in S : x <= y
    BY LeastNatural
  <1> QED
    BY <1>1 DEF Least

\* The list of an inode: the entries in it, and those in the block of the volume v.
ListOf(n, v) ==
    n.ace \o (IF n.over = None THEN <<>> ELSE SubSeq(v.disk[n.over].aces, 1, n.overCount))

\* A sequence in two parts has the same elements.
LEMMA SplitSet ==
    ASSUME NEW S, NEW s \in Seq(S), NEW m \in 0 .. Len(s)
    PROVE  /\ SubSeq(s, 1, m) \in Seq(S) /\ SubSeq(s, m + 1, Len(s)) \in Seq(S)
           /\ Len(SubSeq(s, m + 1, Len(s))) = Len(s) - m
           /\ SubSeq(SubSeq(s, m + 1, Len(s)), 1, Len(s) - m) = SubSeq(s, m + 1, Len(s))
           /\ ToSet(SubSeq(s, 1, m) \o SubSeq(s, m + 1, Len(s))) = ToSet(s)
  <1> DEFINE a == SubSeq(s, 1, m)
             b == SubSeq(s, m + 1, Len(s))
  <1>1. Len(s) \in Nat /\ m \in Nat /\ Len(s) - m \in Nat /\ m - 1 + 1 = m
        /\ Len(s) - (m + 1) + 1 = Len(s) - m
    OBVIOUS
  <1>2. a \in Seq(S) /\ Len(a) = m /\ \A k \in 1 .. m : a[k] = s[k]
    <2>1. 1 \in 1 .. Len(s) + 1 /\ 1 <= m + 1
      BY <1>1
    <2>2. a \in Seq(S) /\ Len(a) = m - 1 + 1 /\ \A k \in 1 .. m - 1 + 1 : a[k] = s[1 + k - 1]
      BY <2>1, SubSeqFacts
    <2>3. \A k \in Nat : 1 + k - 1 = k
      OBVIOUS
    <2> HIDE DEF a
    <2> QED
      BY <1>1, <2>2, <2>3
  <1>3. b \in Seq(S) /\ Len(b) = Len(s) - m /\ \A k \in 1 .. Len(s) - m : b[k] = s[m + k]
    <2>1. m + 1 \in 1 .. Len(s) + 1 /\ Len(s) \in 0 .. Len(s) /\ m + 1 <= Len(s) + 1
      BY <1>1
    <2>2. /\ b \in Seq(S) /\ Len(b) = Len(s) - (m + 1) + 1
          /\ \A k \in 1 .. Len(s) - (m + 1) + 1 : b[k] = s[(m + 1) + k - 1]
      BY <2>1, SubSeqFacts
    <2>3. \A k \in Nat : (m + 1) + k - 1 = m + k
      BY <1>1
    <2> HIDE DEF b
    <2> QED
      BY <1>1, <2>2, <2>3
  <1> HIDE DEF a, b
  <1>4. SubSeq(b, 1, Len(s) - m) = b
    <2>1. SubSeq(b, 1, Len(b)) = b
      BY <1>3
    <2> QED
      BY <1>3, <2>1
  <1>5. a \o b \in Seq(S) /\ ToSet(a \o b) = ToSet(a) \cup ToSet(b)
    BY <1>2, <1>3, ConcatSet
  <1>6. ToSet(a) \cup ToSet(b) = ToSet(s)
    <2>1. DOMAIN a = 1 .. m /\ DOMAIN b = 1 .. Len(s) - m /\ DOMAIN s = 1 .. Len(s)
      BY <1>2, <1>3
    <2>2. ToSet(a) \subseteq ToSet(s)
      BY <1>1, <1>2, <2>1 DEF ToSet
    <2>3. ToSet(b) \subseteq ToSet(s)
      <3> SUFFICES ASSUME NEW k \in 1 .. Len(s) - m PROVE b[k] \in ToSet(s)
        BY <2>1 DEF ToSet
      <3>1. m + k \in 1 .. Len(s)
        BY <1>1
      <3> QED
        BY <1>3, <2>1, <3>1 DEF ToSet
    <2>4. ToSet(s) \subseteq ToSet(a) \cup ToSet(b)
      <3> SUFFICES ASSUME NEW j \in 1 .. Len(s) PROVE s[j] \in ToSet(a) \cup ToSet(b)
        BY <2>1 DEF ToSet
      <3>1. CASE j <= m
        BY <1>1, <1>2, <2>1, <3>1 DEF ToSet
      <3>2. CASE j > m
        <4>1. j - m \in 1 .. Len(s) - m /\ m + (j - m) = j
          BY <1>1, <3>2
        <4> QED
          BY <1>3, <2>1, <4>1 DEF ToSet
      <3> QED
        BY <1>1, <3>1, <3>2
    <2> QED
      BY <2>2, <2>3, <2>4
  <1> QED
    BY <1>2, <1>3, <1>4, <1>5, <1>6 DEF a, b

\* The child's list is what it inherits; entries that do not fit are in a block that
\* was free.
LEMMA InheritFacts ==
    ASSUME TypeInv, AclInv, NEW d \in Used, NEW v \in Volume,
           NEW child \in Inode, child.type \in {"FILE", "DIR"}, child.over = None
    PROVE  LET r == InheritAcl(v, d, child)
           IN  /\ r.ok \in BOOLEAN /\ r.v \in Volume /\ r.child \in Inode
               /\ ~r.ok => r.v = v
               /\ \A b \in v.taken : r.v.disk[b] = v.disk[b]
               /\ \A b \in Block : r.v.disk[b].unit = v.disk[b].unit
               /\ r.child.type = child.type /\ r.child.data = child.data
               /\ r.child.size = child.size /\ r.child.ents = child.ents
               /\ r.ok => /\ r.v.taken = v.taken \cup ({r.child.over} \ {None})
                          /\ r.child.over \notin v.taken
                          /\ r.child.over # None =>
                               r.child.overCount <= Len(r.v.disk[r.child.over].aces)
                          /\ ToSet(ListOf(r.child, r.v)) = ToSet(Inherited(d, child.type))
  <1> DEFINE all == Inherited(d, child.type)
             b   == Least(Free(v))
             r   == InheritAcl(v, d, child)
             c1  == [child EXCEPT !.ace = all]
             c2  == [child EXCEPT !.ace = SubSeq(all, 1, Inline), !.over = b,
                                  !.overCount = Len(all) - Inline]
             tl  == SubSeq(all, Inline + 1, Len(all))
             v2  == [taken |-> v.taken \cup {b}, disk |-> [v.disk EXCEPT ![b].aces = tl]]
  <1>1. all \in Seq(Ace)
    BY InheritedFacts
  <1>2. r = IF Len(all) <= Inline THEN [ok |-> TRUE, v |-> v, child |-> c1]
            ELSE IF Free(v) = {} THEN [ok |-> FALSE, v |-> v, child |-> child]
            ELSE [ok |-> TRUE, v |-> v2, child |-> c2]
    BY DEF InheritAcl
  <1> HIDE DEF all, r
  <1>3. Inline \in Nat /\ Len(all) \in Nat
    BY <1>1, SizeAssumption
  <1>4. v.taken \in SUBSET Block /\ v.disk \in [Block -> Content] /\ None \notin Block
    BY SizeAssumption DEF Volume, Block, None
  <1>5. CASE Len(all) <= Inline
    <2>1. r.ok = TRUE /\ r.v = v /\ r.child = c1
      BY <1>2, <1>5
    <2>2. c1 \in Inode /\ c1.type = child.type /\ c1.data = child.data /\ c1.over = None
          /\ c1.size = child.size /\ c1.ents = child.ents /\ c1.ace = all
      BY <1>1 DEF Inode
    <2>3. ListOf(c1, v) = all
      BY <1>1, <2>2 DEF ListOf
    <2> HIDE DEF c1
    <2> QED
      BY <1>4, <2>1, <2>2, <2>3 DEF all, r
  <1>6. CASE Len(all) > Inline /\ Free(v) = {}
    BY <1>2, <1>3, <1>6 DEF all, r
  <1>7. CASE Len(all) > Inline /\ Free(v) # {}
    <2>1. r.ok = TRUE /\ r.v = v2 /\ r.child = c2
      BY <1>2, <1>3, <1>7
    <2>2. b \in Free(v)
      <3>1. Free(v) \in SUBSET Nat
        BY BlockFinite DEF Free
      <3> QED
        BY <1>7, <3>1, LeastIn
    <2> HIDE DEF b
    <2>3. b \in Block /\ b \notin v.taken /\ b # None
      BY <1>4, <2>2 DEF Free
    <2>4. /\ SubSeq(all, 1, Inline) \in Seq(Ace) /\ tl \in Seq(Ace)
          /\ Len(tl) = Len(all) - Inline /\ SubSeq(tl, 1, Len(all) - Inline) = tl
          /\ ToSet(SubSeq(all, 1, Inline) \o tl) = ToSet(all)
      <3>1. Inline \in 0 .. Len(all)
        BY <1>3, <1>7
      <3> QED
        BY <1>1, <3>1, SplitSet
    <2> HIDE DEF tl
    <2>5. Len(all) - Inline \in Nat
      BY <1>3, <1>7
    <2>6. c2 \in Inode /\ c2.type = child.type /\ c2.data = child.data /\ c2.over = b
          /\ c2.size = child.size /\ c2.ents = child.ents /\ c2.ace = SubSeq(all, 1, Inline)
          /\ c2.overCount = Len(all) - Inline
      BY <2>3, <2>4, <2>5 DEF Inode
    <2> HIDE DEF c2
    <2>7. v2.disk \in [Block -> Content] /\ v2.disk[b].aces = tl
          /\ \A x \in Block : v2.disk[x].unit = v.disk[x].unit
          /\ \A y \in Block \ {b} : v2.disk[y] = v.disk[y]
      <3>1. v2.disk = [v.disk EXCEPT ![b].aces = tl]
        OBVIOUS
      <3>2. v.disk[b] \in Content
        BY <1>4, <2>3
      <3> DEFINE new == [unit |-> v.disk[b].unit, aces |-> tl]
      <3>3. new \in Content /\ new.unit = v.disk[b].unit /\ new.aces = tl
        BY <2>4, <3>2 DEF Content
      <3>a. [v.disk[b] EXCEPT !.aces = tl] = new
        BY <3>2 DEF Content
      <3> HIDE DEF new
      <3>4. v2.disk = [v.disk EXCEPT ![b] = new]
        BY <1>4, <2>3, <3>1, <3>a
      <3> QED
        BY <1>4, <2>3, <3>3, <3>4
    <2>8. v2.taken = v.taken \cup {b}
      OBVIOUS
    <2>9. v2 \in Volume
      BY <1>4, <2>3, <2>7 DEF Volume
    <2> HIDE DEF v2
    <2>10. ListOf(c2, v2) = SubSeq(all, 1, Inline) \o tl
      BY <2>3, <2>4, <2>6, <2>7 DEF ListOf
    <2>11. \A x \in v.taken : v2.disk[x] = v.disk[x]
      BY <1>4, <2>3, <2>7
    <2>12. c2.overCount <= Len(v2.disk[c2.over].aces)
      BY <2>4, <2>5, <2>6, <2>7
    <2>13. r.v.taken = v.taken \cup ({r.child.over} \ {None}) /\ r.child.over \notin v.taken
      BY <2>1, <2>3, <2>6, <2>8
    <2>14. ToSet(ListOf(r.child, r.v)) = ToSet(all)
      BY <2>1, <2>4, <2>10
    <2>15. /\ r.ok \in BOOLEAN /\ r.ok /\ r.v \in Volume /\ r.child \in Inode
           /\ r.child.type = child.type /\ r.child.data = child.data
           /\ r.child.size = child.size /\ r.child.ents = child.ents
      BY <2>1, <2>6, <2>9
    <2>16. /\ \A x \in v.taken : r.v.disk[x] = v.disk[x]
           /\ \A x \in Block : r.v.disk[x].unit = v.disk[x].unit
           /\ r.child.overCount <= Len(r.v.disk[r.child.over].aces)
      BY <2>1, <2>7, <2>11, <2>12
    <2> HIDE DEF b
    <2> QED
      BY <2>13, <2>14, <2>15, <2>16 DEF all, r
  <1> QED
    BY <1>3, <1>5, <1>6, <1>7

(***************************************************************************)
(* The walk along a path                                                   *)
(***************************************************************************)
\* One step of PathLookup.
Cross(i, name, c) ==
    IF i # None /\ IsDir(i) /\ CheckAccess(i, c, "EXECUTE") THEN inode[i].ents[name] ELSE None

\* The function that PathLookup defines.
IsReached(h, p, c) ==
    h = [k \in 0 .. Len(p) |-> IF k = 0 THEN Root ELSE Cross(h[k - 1], p[k], c)]

\* A step of the walk ends at an inode in use or nowhere.
LEMMA CrossType ==
    ASSUME TypeInv, NameInv, NEW c, NEW i \in Used \cup {None}, NEW n \in Name
    PROVE  Cross(i, n, c) \in Used \cup {None}
  <1>1. Used \subseteq Ino
    BY DEF Used
  <1> QED
    BY <1>1 DEF Cross, NameInv

\* The walk ends at an inode in use or nowhere.
LEMMA LookupType ==
    ASSUME TypeInv, NameInv, NEW c, NEW p \in Path
    PROVE  PathLookup(p, c) \in Used \cup {None}
  <1>1. Len(p) \in 0 .. 2 /\ \A k \in 1 .. Len(p) : p[k] \in Name
    BY DEF Path, Dirs
  <1>2. Root \in Used
    <2>1. Root \in Ino
      BY SizeAssumption DEF Root, Ino
    <2> QED
      BY <2>1 DEF NameInv, IsDir, Used
  <1> DEFINE x1 == Cross(Root, p[1], c)
             x2 == Cross(x1, p[2], c)
             g  == [k \in 0 .. Len(p) |-> IF k = 0 THEN Root ELSE IF k = 1 THEN x1 ELSE x2]
             h  == CHOOSE f : IsReached(f, p, c)
  <1>3. IsReached(g, p, c)
    <2>1. \A k \in 0 .. Len(p) :
             (IF k = 0 THEN Root ELSE IF k = 1 THEN x1 ELSE x2)
               = (IF k = 0 THEN Root ELSE Cross(g[k - 1], p[k], c))
      <3> TAKE k \in 0 .. Len(p)
      <3>1. k = 0 \/ k = 1 \/ k = 2
        BY <1>1
      <3>2. CASE k = 0
        BY <3>2
      <3>3. CASE k = 1
        <4>1. g[0] = Root
          BY <1>1
        <4> HIDE DEF g
        <4> QED
          BY <3>3, <4>1
      <3>4. CASE k = 2
        <4>1. g[1] = x1
          BY <1>1, <3>4
        <4> HIDE DEF g, x1
        <4> QED
          BY <3>4, <4>1
      <3> QED
        BY <3>1, <3>2, <3>3, <3>4
    <2>2. g = [k \in 0 .. Len(p) |-> IF k = 0 THEN Root ELSE IF k = 1 THEN x1 ELSE x2]
      OBVIOUS
    <2> HIDE DEF g, x1, x2
    <2> QED
      BY <2>1, <2>2 DEF IsReached
  <1>4. IsReached(h, p, c)
    <2> HIDE DEF g
    <2> QED
      BY <1>3
  <1>5. PathLookup(p, c) = h[Len(p)]
    BY DEF PathLookup, IsReached, Cross
  <1> HIDE DEF h, g, x1, x2
  <1>6. h[0] = Root
    BY <1>1, <1>4 DEF IsReached
  <1>7. \A k \in 1 .. Len(p) : h[k] = Cross(h[k - 1], p[k], c)
    BY <1>1, <1>4 DEF IsReached
  <1>8. CASE Len(p) = 0
    BY <1>2, <1>5, <1>6, <1>8
  <1>9. CASE Len(p) = 1
    <2>1. h[1] = Cross(h[0], p[1], c)
      BY <1>7, <1>9
    <2> QED
      BY <1>1, <1>2, <1>5, <1>6, <1>9, <2>1, CrossType
  <1>10. CASE Len(p) = 2
    <2>1. h[1] = Cross(h[0], p[1], c) /\ h[2] = Cross(h[1], p[2], c)
      BY <1>7, <1>10
    <2>2. h[1] \in Used \cup {None}
      BY <1>1, <1>2, <1>6, <1>10, <2>1, CrossType
    <2> QED
      BY <1>1, <1>5, <1>10, <2>1, <2>2, CrossType
  <1> QED
    BY <1>1, <1>8, <1>9, <1>10

\* The parent that a call works in.
LEMMA ParentType ==
    ASSUME TypeInv, NameInv, NEW c, NEW p \in Dirs
    PROVE  LookupParent(p, c) \in Used \cup {None}
  BY LookupType DEF LookupParent, Path

(***************************************************************************)
(* What a call may do to an inode                                          *)
(***************************************************************************)
\* The blocks of an inode record.
Holds(n) == Blocks(n.data) \cup ({n.over} \ {None})

\* The stream t is s with more blocks at its end.
Longer(s, t) ==
    /\ Len(s.blks) <= Len(t.blks)
    /\ \A k \in 1 .. Len(s.blks) : t.blks[k] = s.blks[k]
    /\ Blocks(s) \subseteq Blocks(t)

\* The inode m is n with a longer stream: same type, list and size.
Grown(n, m) ==
    /\ m.type = n.type /\ m.ace = n.ace /\ m.over = n.over /\ m.overCount = n.overCount
    /\ m.size = n.size
    /\ Longer(n.data, m.data)
    /\ StreamOk(m.data)

\* nyfs_dirhash_insert enters the name or leaves the entries alone; what it adds to
\* the stream was free.
LEMMA InsertFacts ==
    ASSUME NEW v \in Volume, NEW dir \in Inode, NEW name \in Name, NEW i \in Ino,
           StreamOk(dir.data), Blocks(dir.data) \subseteq v.taken
    PROVE  LET r == DirhashInsert(v, dir, name, i)
           IN  /\ r.ok \in BOOLEAN /\ r.v \in Volume /\ r.dir \in Inode
               /\ Grown(dir, r.dir)
               /\ (Blocks(r.dir.data) \ Blocks(dir.data)) \cap v.taken = {}
               /\ r.v.taken = v.taken \cup Blocks(r.dir.data)
               /\ \A b \in v.taken : r.v.disk[b] = v.disk[b]
               /\ r.dir.ents = IF r.ok THEN [dir.ents EXCEPT ![name] = i] ELSE dir.ents
  <1> DEFINE need == DirBlocks(dir.recs + 1)
             e   == Extend(v, dir.data, need)
             new == [dir EXCEPT !.data = e.s]
             fin == [new EXCEPT !.ents[name] = i, !.recs = @ + 1]
             r   == DirhashInsert(v, dir, name, i)
  <1>1. dir.recs \in Nat /\ dir.data \in Stream /\ dir.ents \in [Name -> Ino \cup {None}]
    BY DEF Inode
  <1>2. need \in Nat
    <2>1. PICK R \in Nat \ {0} : R = RecsPerBlock
      BY SizeAssumption
    <2>2. PICK a \in Nat : a = 1 + (dir.recs + 1) + RecsPerBlock - 1
      BY <1>1, <2>1
    <2>3. a \div R \in Nat
      BY DivFacts
    <2> QED
      BY <2>1, <2>2, <2>3 DEF DirBlocks
  <1> HIDE DEF need
  <1>3. /\ e.ok \in BOOLEAN /\ e.s \in Stream /\ e.v \in Volume
        /\ StreamOk(e.s)
        /\ Blocks(dir.data) \subseteq Blocks(e.s)
        /\ (Blocks(e.s) \ Blocks(dir.data)) \cap v.taken = {}
        /\ e.v.taken = v.taken \cup Blocks(e.s)
        /\ Len(dir.data.blks) <= Len(e.s.blks)
        /\ \A k \in 1 .. Len(dir.data.blks) : e.s.blks[k] = dir.data.blks[k]
        /\ \A b \in v.taken : e.v.disk[b] = v.disk[b]
    BY <1>1, <1>2, ExtendFacts
  <1>4. r = [ok |-> e.ok, v |-> e.v, dir |-> IF e.ok THEN fin ELSE new]
    BY DEF DirhashInsert, need
  <1> HIDE DEF e, r
  <1>5. /\ new \in Inode /\ new.type = dir.type /\ new.ace = dir.ace /\ new.over = dir.over
        /\ new.overCount = dir.overCount /\ new.size = dir.size /\ new.data = e.s
        /\ new.ents = dir.ents /\ new.recs = dir.recs
    BY <1>3 DEF Inode
  <1> DEFINE ents2 == [dir.ents EXCEPT ![name] = i]
  <1>6. ents2 \in [Name -> Ino \cup {None}]
    BY <1>1
  <1> DEFINE mid == [new EXCEPT !.ents = ents2]
  <1>b. PICK q \in Nat : q = dir.recs + 1
    BY <1>1
  <1>7. fin = [mid EXCEPT !.recs = q]
    BY <1>5, <1>b DEF Inode
  <1> HIDE DEF new, ents2, fin
  <1>a. /\ mid \in Inode /\ mid.type = dir.type /\ mid.ace = dir.ace /\ mid.over = dir.over
        /\ mid.overCount = dir.overCount /\ mid.size = dir.size /\ mid.data = e.s
        /\ mid.ents = ents2
    BY <1>5, <1>6 DEF Inode
  <1> HIDE DEF mid
  <1>8. /\ fin \in Inode /\ fin.type = dir.type /\ fin.ace = dir.ace /\ fin.over = dir.over
        /\ fin.overCount = dir.overCount /\ fin.size = dir.size /\ fin.data = e.s
        /\ fin.ents = ents2
    BY <1>7, <1>a DEF Inode
  <1> DEFINE x == IF e.ok THEN fin ELSE new
  <1>9. /\ x \in Inode /\ x.type = dir.type /\ x.ace = dir.ace /\ x.over = dir.over
        /\ x.overCount = dir.overCount /\ x.size = dir.size /\ x.data = e.s
        /\ x.ents = IF e.ok THEN ents2 ELSE dir.ents
    BY <1>5, <1>8
  <1>10. r.ok = e.ok /\ r.v = e.v /\ r.dir = x
    BY <1>4
  <1> HIDE DEF x
  <1>11. Grown(dir, x)
    BY <1>3, <1>9 DEF Grown, Longer
  <1>12. r.ok \in BOOLEAN /\ r.v \in Volume /\ r.dir \in Inode /\ Grown(dir, r.dir)
    BY <1>3, <1>9, <1>10, <1>11
  <1>13. /\ (Blocks(r.dir.data) \ Blocks(dir.data)) \cap v.taken = {}
         /\ r.v.taken = v.taken \cup Blocks(r.dir.data)
         /\ \A b \in v.taken : r.v.disk[b] = v.disk[b]
    BY <1>3, <1>9, <1>10
  <1>14. r.dir.ents = IF r.ok THEN [dir.ents EXCEPT ![name] = i] ELSE dir.ents
    BY <1>9, <1>10 DEF ents2
  <1> QED
    BY <1>12, <1>13, <1>14 DEF r

\* The blocks of a stream are a sequence.
LEMMA BlksType ==
    ASSUME NEW n \in Inode
    PROVE  n.data \in Stream /\ n.data.blks \in Seq(Block) /\ Len(n.data.blks) \in Nat
  <1>1. n.data \in Stream
    BY DEF Inode
  <1>2. n.data.blks \in Seq(Block)
    BY <1>1 DEF Stream
  <1> QED
    BY <1>1, <1>2

\* Growth is transitive and reflexive.
LEMMA GrownTwice ==
    ASSUME NEW n \in Inode, NEW m \in Inode, NEW o \in Inode, Grown(n, m), Grown(m, o)
    PROVE  Grown(n, o)
  <1>1. Len(n.data.blks) \in Nat /\ Len(m.data.blks) \in Nat /\ Len(o.data.blks) \in Nat
    BY BlksType
  <1>2. Len(n.data.blks) <= Len(o.data.blks)
    BY <1>1 DEF Grown, Longer
  <1>3. \A k \in 1 .. Len(n.data.blks) : o.data.blks[k] = n.data.blks[k]
    BY <1>1 DEF Grown, Longer
  <1> QED
    BY <1>2, <1>3 DEF Grown, Longer

\* An inode that stays as it is has grown.
LEMMA GrownSelf ==
    ASSUME NEW n \in Inode, StreamOk(n.data)
    PROVE  Grown(n, n)
  <1>1. Len(n.data.blks) \in Nat
    BY BlksType
  <1> QED
    BY <1>1 DEF Grown, Longer

(***************************************************************************)
(* What keeps the parts of the invariant                                   *)
(***************************************************************************)
\* Blocks that were free may be added to the inodes, none to two of them. Only a
\* call that met a full disk may take more than it adds.
LEMMA BlocksKept ==
    ASSUME BlockInv, NEW N \in [Ino -> SUBSET Block],
           \A i \in Ino : /\ Holds(inode'[i]) = Holds(inode[i]) \cup N[i]
                          /\ N[i] \cap taken = {} /\ N[i] \subseteq taken'
                          /\ StreamOk(inode'[i].data)
                          /\ inode'[i].over \notin Blocks(inode'[i].data),
           \A i, j \in Ino : i # j => N[i] \cap N[j] = {},
           taken \subseteq taken', hist'.gone = hist.gone,
           ~hist'.full => ~hist.full /\ taken' = taken \cup UNION {N[i] : i \in Ino}
    PROVE  BlockInv'
  <1>1. \A i \in Ino : Owned(i) = Holds(inode[i]) /\ Owned(i)' = Holds(inode'[i])
    BY DEF Owned, Holds
  <1> DEFINE H(i) == Holds(inode[i])
             G(i) == Holds(inode'[i])
  <1>2. \A i \in Ino : /\ G(i) = H(i) \cup N[i] /\ H(i) \subseteq taken
                       /\ H(i) \cap hist.gone = {}
    BY <1>1 DEF BlockInv
  <1>3. \A i, j \in Ino : i # j => H(i) \cap H(j) = {}
    BY <1>1 DEF BlockInv
  <1>4. hist.gone \subseteq taken
    BY DEF BlockInv
  <1>5. ~hist.full => taken = hist.gone \cup UNION {H(i) : i \in Ino}
    BY <1>1 DEF BlockInv
  <1> HIDE DEF H, G
  <1>6. \A i, j \in Ino : i # j => G(i) \cap G(j) = {}
    BY <1>2, <1>3
  <1>7. \A i \in Ino : G(i) \subseteq taken' /\ G(i) \cap hist'.gone = {}
    BY <1>2, <1>4
  <1>8. ~hist'.full => taken' = hist'.gone \cup UNION {G(i) : i \in Ino}
    BY <1>2, <1>5
  <1> QED
    BY <1>1, <1>4, <1>6, <1>7, <1>8 DEF BlockInv, G

\* A file keeps what it reads back when its stream only grows, the units of its
\* blocks stay and its history stays.
LEMMA FileKept ==
    ASSUME TypeInv, ReadInv, NEW i \in Ino, inode'[i] \in Inode, Grown(inode[i], inode'[i]),
           hist'.want[i] = hist.want[i],
           \A b \in Blocks(inode[i].data) : disk'[b].unit = disk[b].unit
    PROVE  inode'[i].type = "FILE" =>
             /\ Len(hist'.want[i]) = inode'[i].size
             /\ inode'[i].size <= Len(inode'[i].data.blks)
             /\ \A k \in 1 .. inode'[i].size :
                  hist'.want[i][k] # Hole => disk'[inode'[i].data.blks[k]].unit = hist'.want[i][k]
  <1> SUFFICES ASSUME inode'[i].type = "FILE"
               PROVE  /\ Len(hist'.want[i]) = inode'[i].size
                      /\ inode'[i].size <= Len(inode'[i].data.blks)
                      /\ \A k \in 1 .. inode'[i].size :
                           hist'.want[i][k] # Hole =>
                             disk'[inode'[i].data.blks[k]].unit = hist'.want[i][k]
    OBVIOUS
  <1>1. inode[i] \in Inode
    BY DEF TypeInv
  <1>2. PICK s \in Seq(Block), t \in Seq(Block) : s = inode[i].data.blks /\ t = inode'[i].data.blks
    BY <1>1, BlksType
  <1>3. PICK z \in Nat : z = inode[i].size /\ z = inode'[i].size
    BY <1>1 DEF Inode, Grown
  <1>4. /\ inode[i].type = "FILE" /\ Len(s) <= Len(t)
        /\ \A k \in 1 .. Len(s) : t[k] = s[k]
    BY <1>2 DEF Grown, Longer
  <1>5. /\ Len(hist.want[i]) = z /\ z <= Len(s)
        /\ \A k \in 1 .. z : hist.want[i][k] # Hole => disk[s[k]].unit = hist.want[i][k]
    BY <1>2, <1>3, <1>4 DEF ReadInv
  <1>6. \A k \in 1 .. Len(s) : s[k] \in Blocks(inode[i].data)
    BY <1>2 DEF Blocks, ToSet
  <1>7. \A k \in 1 .. z : k \in 1 .. Len(s)
    BY <1>5
  <1>8. \A k \in 1 .. z : t[k] = s[k] /\ disk'[s[k]].unit = disk[s[k]].unit
    BY <1>4, <1>6, <1>7
  <1>9. z <= Len(t)
    BY <1>4, <1>5
  <1>10. PICK w : w = hist.want[i] /\ w = hist'.want[i]
    OBVIOUS
  <1>11. Len(w) = z /\ \A k \in 1 .. z : w[k] # Hole => disk'[t[k]].unit = w[k]
    BY <1>5, <1>8, <1>10
  <1> QED
    BY <1>2, <1>3, <1>9, <1>10, <1>11

\* An inode keeps its list when neither its record nor its block changes.
LEMMA ListKept ==
    ASSUME AclInv, NEW i \in Used,
           inode'[i].type = inode[i].type, inode'[i].ace = inode[i].ace,
           inode'[i].over = inode[i].over, inode'[i].overCount = inode[i].overCount,
           inode[i].over # None => disk'[inode[i].over] = disk[inode[i].over],
           hist'.depth[i] = hist.depth[i], hist'.seed = hist.seed
    PROVE  /\ inode'[i].over # None => inode'[i].overCount <= Len(disk'[inode'[i].over].aces)
           /\ hist'.depth[i] = 0 <=> i = Root
           /\ ToSet(Aces(i)') = Reaching(hist.depth[i], inode[i].type)'
  <1>1. Aces(i)' = Aces(i)
    BY DEF Aces
  <1>2. Reaching(hist.depth[i], inode[i].type)' = Reaching(hist.depth[i], inode[i].type)
    BY DEF Reaching
  <1> QED
    BY <1>1, <1>2 DEF AclInv

\* The blocks of a stream are blocks.
LEMMA BlocksType ==
    ASSUME NEW n \in Inode
    PROVE  Blocks(n.data) \in SUBSET Block /\ None \notin Blocks(n.data) /\ Holds(n) \in SUBSET Block
  <1>1. n.data \in Stream /\ n.over \in Block \cup {None}
    BY DEF Inode
  <1>2. PICK q \in Seq(Block), e \in Block \cup {None} : q = n.data.blks /\ e = n.data.ext
    BY <1>1 DEF Stream
  <1>3. ToSet(q) \in SUBSET Block
    BY DEF ToSet
  <1>4. None \notin Block
    BY DEF None, Block
  <1> QED
    BY <1>1, <1>2, <1>3, <1>4 DEF Blocks, Holds

\* The stream of one inode may grow by blocks that were free: no block has two owners.
LEMMA GrowBlocks ==
    ASSUME TypeInv, BlockInv, NEW g \in Ino, inode' \in [Ino -> Inode],
           \A j \in Ino : inode'[j].over = inode[j].over /\ StreamOk(inode'[j].data),
           \A j \in Ino \ {g} : inode'[j].data = inode[j].data,
           Blocks(inode[g].data) \subseteq Blocks(inode'[g].data),
           (Blocks(inode'[g].data) \ Blocks(inode[g].data)) \cap taken = {},
           Blocks(inode'[g].data) \subseteq taken', taken \subseteq taken',
           hist'.gone = hist.gone,
           ~hist'.full => ~hist.full /\ taken' = taken \cup Blocks(inode'[g].data)
    PROVE  BlockInv'
  <1> DEFINE new == Blocks(inode'[g].data) \ Blocks(inode[g].data)
             N   == [j \in Ino |-> IF j = g THEN new ELSE {}]
  <1>0. \A j \in Ino : inode[j] \in Inode /\ inode'[j] \in Inode
    BY DEF TypeInv
  <1>1. \A j \in Ino : Blocks(inode[j].data) \subseteq taken /\ Holds(inode[j]) \subseteq taken
    BY DEF BlockInv, Owned, Holds
  <1>2. N \in [Ino -> SUBSET Block]
    <2>1. new \in SUBSET Block
      BY <1>0, BlocksType
    <2> HIDE DEF new
    <2> QED
      BY <2>1
  <1>3. N[g] = new /\ \A j \in Ino \ {g} : N[j] = {}
    OBVIOUS
  <1>4. UNION {N[j] : j \in Ino} = new
    <2> HIDE DEF N, new
    <2> QED
      BY <1>3
  <1>5. new \cap taken = {} /\ new \subseteq taken' /\ taken \cup Blocks(inode'[g].data) = taken \cup new
    BY <1>1
  <1>6. Blocks(inode'[g].data) = Blocks(inode[g].data) \cup new
    OBVIOUS
  <1> HIDE DEF N, new
  <1>7. ASSUME NEW i \in Ino
        PROVE  /\ Holds(inode'[i]) = Holds(inode[i]) \cup N[i]
               /\ N[i] \cap taken = {} /\ N[i] \subseteq taken'
               /\ StreamOk(inode'[i].data)
               /\ inode'[i].over \notin Blocks(inode'[i].data)
    <2>1. inode'[i].over = inode[i].over /\ StreamOk(inode'[i].data)
      OBVIOUS
    <2>2. inode[i].over \notin Blocks(inode[i].data)
      BY DEF BlockInv
    <2>3. CASE i # g
      <3>1. inode'[i].data = inode[i].data /\ N[i] = {}
        BY <1>3, <2>3
      <3> QED
        BY <2>1, <2>2, <3>1 DEF Holds
    <2>4. CASE i = g
      <3>1. inode'[i].over # None => inode'[i].over \in taken
        BY <1>1, <2>1 DEF Holds
      <3>2. None \notin Blocks(inode'[i].data)
        BY <1>0, BlocksType
      <3>3. N[i] = new /\ Blocks(inode'[i].data) = Blocks(inode[i].data) \cup new
        BY <1>3, <1>6, <2>4
      <3>4. inode'[i].over \notin Blocks(inode'[i].data)
        BY <1>5, <2>1, <2>2, <3>1, <3>2, <3>3
      <3> QED
        BY <1>5, <2>1, <3>3, <3>4 DEF Holds
    <2> QED
      BY <2>3, <2>4
  <1>8. \A i, j \in Ino : i # j => N[i] \cap N[j] = {}
    BY <1>3
  <1>9. ~hist'.full => ~hist.full /\ taken' = taken \cup UNION {N[i] : i \in Ino}
    BY <1>4, <1>5
  <1> QED
    BY <1>2, <1>7, <1>8, <1>9, BlocksKept

\* Contents and lists stay in order as well, when only blocks that were free are written.
LEMMA GrowKeeps ==
    ASSUME TypeInv, BlockInv, ReadInv, AclInv, NEW g \in Ino,
           inode' \in [Ino -> Inode], \A j \in Ino : Grown(inode[j], inode'[j]),
           \A j \in Ino \ {g} : inode'[j].data = inode[j].data,
           (Blocks(inode'[g].data) \ Blocks(inode[g].data)) \cap taken = {},
           Blocks(inode'[g].data) \subseteq taken', taken \subseteq taken',
           \A b \in taken : disk'[b] = disk[b],
           hist'.seed = hist.seed, hist'.depth = hist.depth, hist'.want = hist.want,
           hist'.gone = hist.gone,
           ~hist'.full => ~hist.full /\ taken' = taken \cup Blocks(inode'[g].data)
    PROVE  BlockInv' /\ ReadInv' /\ AclInv'
  <1>0. \A j \in Ino : inode[j] \in Inode /\ inode'[j] \in Inode
    BY DEF TypeInv
  <1>1. \A j \in Ino : Blocks(inode[j].data) \subseteq taken /\ Holds(inode[j]) \subseteq taken
    BY DEF BlockInv, Owned, Holds
  <1>2. BlockInv'
    <2>1. \A j \in Ino : inode'[j].over = inode[j].over /\ StreamOk(inode'[j].data)
      BY DEF Grown
    <2>2. Blocks(inode[g].data) \subseteq Blocks(inode'[g].data)
      BY DEF Grown, Longer
    <2> QED
      BY <2>1, <2>2, GrowBlocks
  <1>3. ReadInv'
    <2> SUFFICES ASSUME NEW i \in Ino
                 PROVE  inode'[i].type = "FILE" =>
                          /\ Len(hist'.want[i]) = inode'[i].size
                          /\ inode'[i].size <= Len(inode'[i].data.blks)
                          /\ \A k \in 1 .. inode'[i].size :
                               hist'.want[i][k] # Hole =>
                                 disk'[inode'[i].data.blks[k]].unit = hist'.want[i][k]
      BY DEF ReadInv
    <2>1. \A b \in Blocks(inode[i].data) : disk'[b].unit = disk[b].unit
      BY <1>1
    <2> QED
      BY <1>0, <2>1, FileKept
  <1>4. AclInv'
    <2>1. \A j \in Ino : inode'[j].type = inode[j].type
      BY DEF Grown
    <2> SUFFICES ASSUME NEW i \in Used
                 PROVE  /\ inode'[i].over # None => inode'[i].overCount <= Len(disk'[inode'[i].over].aces)
                        /\ hist'.depth[i] = 0 <=> i = Root
                        /\ ToSet(Aces(i)') = Reaching(hist.depth[i], inode[i].type)'
      BY <2>1 DEF AclInv, Used
    <2>2. i \in Ino
      BY DEF Used
    <2>3. inode[i].over # None => disk'[inode[i].over] = disk[inode[i].over]
      BY <1>1, <2>2 DEF Holds
    <2> QED
      BY <2>2, <2>3, ListKept DEF Grown
  <1> QED
    BY <1>2, <1>3, <1>4

\* Names stay in order when types and entries stay; more inodes may be lost.
LEMMA NamesKept ==
    ASSUME NameInv, \A j \in Ino : inode'[j].type = inode[j].type /\ inode'[j].ents = inode[j].ents,
           hist.lost \subseteq hist'.lost
    PROVE  NameInv'
  <1>0. Root \in Ino
    BY SizeAssumption DEF Root, Ino
  <1>1. Used' = Used
    BY DEF Used
  <1>2. \A j \in Ino : IsDir(j)' <=> IsDir(j)
    BY DEF IsDir
  <1> QED
    BY <1>0, <1>1, <1>2 DEF NameInv

\* A stream is on the volume that the call finds.
LEMMA StreamsTaken ==
    ASSUME TypeInv, BlockInv
    PROVE  /\ Vol \in Volume /\ Vol.taken = taken /\ Vol.disk = disk
           /\ \A j \in Ino : /\ inode[j] \in Inode /\ StreamOk(inode[j].data)
                             /\ Blocks(inode[j].data) \subseteq taken
                             /\ Holds(inode[j]) \subseteq taken
  BY DEF TypeInv, BlockInv, Vol, Volume, Owned, Holds

\* The history of a call that met a full disk.
LEMMA FullHistory ==
    ASSUME TypeInv, hist' = [hist EXCEPT !.full = TRUE]
    PROVE  /\ hist' \in History
           /\ hist'.seed = hist.seed /\ hist'.depth = hist.depth /\ hist'.want = hist.want
           /\ hist'.gone = hist.gone /\ hist'.lost = hist.lost /\ hist'.full
  BY DEF TypeInv, History

\* A call that met a full disk and changed no inode.
LEMMA DiskFullStep ==
    ASSUME Inv, NEW v \in Volume, taken \subseteq v.taken, \A b \in taken : v.disk[b] = disk[b],
           DiskFull(v)
    PROVE  Inv'
  <1>1. TypeInv /\ BlockInv /\ NameInv /\ ReadInv /\ AclInv
    BY DEF Inv
  <1>2. taken' = v.taken /\ disk' = v.disk /\ inode' = inode /\ hist' = [hist EXCEPT !.full = TRUE]
    BY DEF DiskFull
  <1>3. TypeInv'
    BY <1>1, <1>2, FullHistory DEF TypeInv, Volume
  <1>4. /\ hist'.seed = hist.seed /\ hist'.depth = hist.depth /\ hist'.want = hist.want
        /\ hist'.gone = hist.gone /\ hist'.lost = hist.lost /\ hist'.full
    BY <1>1, <1>2, FullHistory
  <1>5. \A j \in Ino : Grown(inode[j], inode'[j])
    BY <1>1, <1>2, StreamsTaken, GrownSelf
  <1>6. Root \in Ino
    BY SizeAssumption DEF Root, Ino
  <1>7. BlockInv' /\ ReadInv' /\ AclInv'
    <2>1. inode' \in [Ino -> Inode]
      BY <1>3 DEF TypeInv
    <2>2. \A j \in Ino : inode'[j].data = inode[j].data
      BY <1>2
    <2>3. Blocks(inode'[Root].data) \subseteq taken' /\ taken \subseteq taken'
      BY <1>1, <1>2, <1>6, StreamsTaken
    <2>4. (Blocks(inode'[Root].data) \ Blocks(inode[Root].data)) \cap taken = {}
      BY <1>2
    <2>5. \A b \in taken : disk'[b] = disk[b]
      BY <1>2
    <2> QED
      BY <1>1, <1>4, <1>5, <1>6, <2>1, <2>2, <2>3, <2>4, <2>5, GrowKeeps
  <1>8. NameInv'
    BY <1>1, <1>2, <1>4, NamesKept
  <1> QED
    BY <1>3, <1>7, <1>8 DEF Inv

\* nyfs_op_setattr
LEMMA AttrStep ==
    ASSUME Inv, NEW c \in Cred, NEW p \in Path,
           (\E m \in Mode : Chmod(c, p, m)) \/ (\E to \in Cred : Chown(c, p, to))
    PROVE  Inv'
  <1>1. TypeInv /\ BlockInv /\ NameInv /\ ReadInv /\ AclInv
    BY DEF Inv
  <1> DEFINE i == PathLookup(p, c)
  <1>2. i # None
    BY DEF Chmod, Chown
  <1>3. i \in Used
    BY <1>1, <1>2, LookupType
  <1>4. /\ taken' = taken /\ disk' = disk
        /\ hist' = [hist EXCEPT !.attrs = @ + 1]
        /\ \/ \E m \in Mode : inode' = [inode EXCEPT ![i].mode = m]
           \/ \E to \in Cred : inode' = [inode EXCEPT ![i].uid = to.uid, ![i].gid = to.gid]
    BY DEF Chmod, Chown
  <1> HIDE DEF i
  <1>5. i \in Ino /\ inode[i].type # "NONE"
    BY <1>3 DEF Used
  <1>6. PICK n \in Inode : /\ inode' = [inode EXCEPT ![i] = n]
                           /\ n.type = inode[i].type /\ n.ace = inode[i].ace
                           /\ n.over = inode[i].over /\ n.overCount = inode[i].overCount
                           /\ n.data = inode[i].data /\ n.size = inode[i].size
                           /\ n.ents = inode[i].ents
    <2>0. inode[i] \in Inode
      BY <1>1, <1>5 DEF TypeInv
    <2>1. ASSUME NEW m \in Mode, inode' = [inode EXCEPT ![i].mode = m]
          PROVE  \E n \in Inode : /\ inode' = [inode EXCEPT ![i] = n]
                           /\ n.type = inode[i].type /\ n.ace = inode[i].ace
                           /\ n.over = inode[i].over /\ n.overCount = inode[i].overCount
                           /\ n.data = inode[i].data /\ n.size = inode[i].size
                           /\ n.ents = inode[i].ents
      <3> DEFINE n == [inode[i] EXCEPT !.mode = m]
      <3>1. inode' = [inode EXCEPT ![i] = n]
        BY <2>1
      <3>2. m \in SUBSET ModeBit
        BY CredAssumption
      <3>3. n \in Inode /\ n.type = inode[i].type /\ n.ace = inode[i].ace
            /\ n.over = inode[i].over /\ n.overCount = inode[i].overCount
            /\ n.data = inode[i].data /\ n.size = inode[i].size /\ n.ents = inode[i].ents
        BY <2>0, <3>2 DEF Inode
      <3> HIDE DEF n
      <3> QED
        BY <3>1, <3>3
    <2>2. ASSUME NEW to \in Cred, inode' = [inode EXCEPT ![i].uid = to.uid, ![i].gid = to.gid]
          PROVE  \E n \in Inode : /\ inode' = [inode EXCEPT ![i] = n]
                           /\ n.type = inode[i].type /\ n.ace = inode[i].ace
                           /\ n.over = inode[i].over /\ n.overCount = inode[i].overCount
                           /\ n.data = inode[i].data /\ n.size = inode[i].size
                           /\ n.ents = inode[i].ents
      <3> DEFINE n == [inode[i] EXCEPT !.uid = to.uid, !.gid = to.gid]
      <3>1. inode' = [inode EXCEPT ![i] = n]
        BY <1>1, <1>5, <2>2 DEF TypeInv
      <3>2. to.uid \in Nat /\ to.gid \in Nat
        BY CredAssumption
      <3>3. n \in Inode /\ n.type = inode[i].type /\ n.ace = inode[i].ace
            /\ n.over = inode[i].over /\ n.overCount = inode[i].overCount
            /\ n.data = inode[i].data /\ n.size = inode[i].size /\ n.ents = inode[i].ents
        BY <2>0, <3>2 DEF Inode
      <3> HIDE DEF n
      <3> QED
        BY <3>1, <3>3
    <2> QED
      BY <1>4, <2>1, <2>2
  <1>7. /\ hist'.seed = hist.seed /\ hist'.depth = hist.depth /\ hist'.want = hist.want
        /\ hist'.gone = hist.gone /\ hist'.lost = hist.lost /\ hist'.full = hist.full
    BY <1>1, <1>4 DEF TypeInv
  <1>8. inode'[i] = n /\ \A j \in Ino \ {i} : inode'[j] = inode[j]
    BY <1>1, <1>5, <1>6 DEF TypeInv
  <1>9. TypeInv'
    <2>1. inode' \in [Ino -> Inode]
      BY <1>1, <1>5, <1>6 DEF TypeInv
    <2>2. \A j \in Ino : inode'[j].type = "NONE" => inode'[j] = NoInode
      BY <1>1, <1>5, <1>6, <1>8 DEF TypeInv
    <2>3. hist' \in History
      <3>1. PICK q \in Nat : q = hist.attrs + 1
        BY <1>1 DEF TypeInv, History
      <3>2. hist' = [hist EXCEPT !.attrs = q]
        BY <1>1, <1>4, <3>1 DEF TypeInv, History
      <3> QED
        BY <1>1, <3>2 DEF TypeInv, History
    <2> QED
      BY <1>1, <1>4, <2>1, <2>2, <2>3 DEF TypeInv
  <1>10. \A j \in Ino : inode'[j].data = inode[j].data
    BY <1>6, <1>8
  <1>11. \A j \in Ino : Grown(inode[j], inode'[j])
    <2>1. \A j \in Ino : Grown(inode[j], inode[j])
      BY <1>1, StreamsTaken, GrownSelf
    <2>2. Grown(inode[i], n)
      BY <1>5, <1>6, <2>1 DEF Grown
    <2> QED
      BY <1>8, <2>1, <2>2
  <1>12. BlockInv' /\ ReadInv' /\ AclInv'
    <2>1. inode' \in [Ino -> Inode]
      BY <1>9 DEF TypeInv
    <2>2. Blocks(inode'[i].data) \subseteq taken' /\ taken \subseteq taken'
      BY <1>1, <1>4, <1>5, <1>10, StreamsTaken
    <2>3. (Blocks(inode'[i].data) \ Blocks(inode[i].data)) \cap taken = {}
      BY <1>5, <1>10
    <2>4. \A b \in taken : disk'[b] = disk[b]
      BY <1>4
    <2>5. taken' = taken \cup Blocks(inode'[i].data)
      BY <1>4, <2>2
    <2> QED
      BY <1>1, <1>5, <1>7, <1>10, <1>11, <2>1, <2>2, <2>3, <2>4, <2>5, GrowKeeps
  <1>13. NameInv'
    BY <1>1, <1>6, <1>7, <1>8, NamesKept
  <1> QED
    BY <1>9, <1>12, <1>13 DEF Inv

(***************************************************************************)
(* Data                                                                    *)
(***************************************************************************)
\* nyfs_op_write on a disk that fills up.
LEMMA WriteFullStep ==
    ASSUME Inv, NEW i \in Ino, NEW need \in Nat, inode[i].type = "FILE",
           taken' = Extend(Vol, inode[i].data, need).v.taken,
           disk' = Extend(Vol, inode[i].data, need).v.disk,
           inode' = (IF inode[i].data.ext = None THEN inode
                     ELSE [inode EXCEPT ![i].data = Extend(Vol, inode[i].data, need).s]),
           hist' = [hist EXCEPT !.full = TRUE]
    PROVE  Inv'
  <1>1. TypeInv /\ BlockInv /\ NameInv /\ ReadInv /\ AclInv
    BY DEF Inv
  <1> DEFINE s == inode[i].data
             e == Extend(Vol, s, need)
  <1>2. inode[i] \in Inode /\ s \in Stream /\ StreamOk(s) /\ Blocks(s) \subseteq taken
    BY <1>1, StreamsTaken, BlksType
  <1>3. Vol \in Volume /\ Vol.taken = taken /\ Vol.disk = disk
    BY <1>1, StreamsTaken
  <1>4. /\ e.s \in Stream /\ e.v \in Volume
        /\ StreamOk(e.s)
        /\ Blocks(s) \subseteq Blocks(e.s)
        /\ (Blocks(e.s) \ Blocks(s)) \cap taken = {}
        /\ e.v.taken = taken \cup Blocks(e.s)
        /\ Len(s.blks) <= Len(e.s.blks)
        /\ \A k \in 1 .. Len(s.blks) : e.s.blks[k] = s.blks[k]
        /\ \A b \in taken : e.v.disk[b] = disk[b]
    <2> HIDE DEF s
    <2> QED
      BY <1>2, <1>3, ExtendFacts
  <1>5. taken' = e.v.taken /\ disk' = e.v.disk
    OBVIOUS
  <1>6. CASE s.ext = None
    <2>1. inode' = inode
      BY <1>6
    <2>2. DiskFull(e.v)
      BY <1>5, <2>1 DEF DiskFull
    <2> HIDE DEF e
    <2> QED
      BY <1>4, <2>2, DiskFullStep
  <1>7. CASE s.ext # None
    <2>1. inode' = [inode EXCEPT ![i].data = e.s]
      BY <1>7
    <2> HIDE DEF e
    <2> DEFINE n == [inode[i] EXCEPT !.data = e.s]
    <2>2. inode' = [inode EXCEPT ![i] = n]
      BY <2>1
    <2>3. n \in Inode /\ n.type = inode[i].type /\ n.ace = inode[i].ace
          /\ n.over = inode[i].over /\ n.overCount = inode[i].overCount
          /\ n.data = e.s /\ n.size = inode[i].size /\ n.ents = inode[i].ents
      BY <1>2, <1>4 DEF Inode
    <2> HIDE DEF n
    <2>4. inode'[i] = n /\ \A j \in Ino \ {i} : inode'[j] = inode[j]
      BY <1>1, <2>2 DEF TypeInv
    <2>5. inode' \in [Ino -> Inode]
      BY <1>1, <2>2, <2>3 DEF TypeInv
    <2>6. \A j \in Ino : inode'[j].type = "NONE" => inode'[j] = NoInode
      BY <1>1, <2>3, <2>4 DEF TypeInv
    <2>7. TypeInv'
      BY <1>1, <1>4, <1>5, <2>5, <2>6, FullHistory DEF TypeInv, Volume
    <2>8. \A j \in Ino : Grown(inode[j], inode'[j])
      <3>1. \A j \in Ino : Grown(inode[j], inode[j])
        BY <1>1, StreamsTaken, GrownSelf
      <3>2. Grown(inode[i], n)
        BY <1>4, <2>3 DEF Grown, Longer
      <3> QED
        BY <2>4, <3>1, <3>2
    <2>9. BlockInv' /\ ReadInv' /\ AclInv'
      <3>1. Blocks(inode'[i].data) \subseteq taken' /\ taken \subseteq taken'
        BY <1>4, <1>5, <2>3, <2>4
      <3>2. (Blocks(inode'[i].data) \ Blocks(inode[i].data)) \cap taken = {}
        BY <1>4, <2>3, <2>4
      <3>3. \A b \in taken : disk'[b] = disk[b]
        BY <1>4, <1>5
      <3>4. \A j \in Ino \ {i} : inode'[j].data = inode[j].data
        BY <2>4
      <3> QED
        BY <1>1, <2>5, <2>8, <3>1, <3>2, <3>3, <3>4, FullHistory, GrowKeeps
    <2>10. NameInv'
      <3>1. \A j \in Ino : inode'[j].type = inode[j].type /\ inode'[j].ents = inode[j].ents
        BY <2>3, <2>4
      <3> QED
        BY <1>1, <3>1, FullHistory, NamesKept
    <2> QED
      BY <2>7, <2>9, <2>10 DEF Inv
  <1> QED
    BY <1>6, <1>7

\* A function from 1 .. n is a sequence of length n.
LEMMA SeqOfFunction ==
    ASSUME NEW S, NEW n \in Nat, NEW f \in [1 .. n -> S]
    PROVE  f \in Seq(S) /\ Len(f) = n
  OBVIOUS

\* What nyfs_op_write has done when it succeeds: its second disjunct.
Written(i, at, e, size) ==
    /\ taken' = e.v.taken
    /\ disk' = [e.v.disk EXCEPT ![Resolve(e.s, at)] = [Zero EXCEPT !.unit = i]]
    /\ inode' = [inode EXCEPT ![i].data = e.s, ![i].size = size]
    /\ hist' = [hist EXCEPT !.want[i] =
         [k \in 1 .. size |-> IF k = at + 1 THEN i
                              ELSE IF k <= Len(@) THEN @[k] ELSE Hole]]

\* nyfs_op_write: only a block of the file is overwritten.
LEMMA WriteStep ==
    ASSUME Inv, NEW i \in Ino, NEW at \in Nat, inode[i].type = "FILE",
           NEW e, e = Extend(Vol, inode[i].data, at + 1), e.ok,
           NEW size, size = (IF at + 1 > inode[i].size THEN at + 1 ELSE inode[i].size),
           Written(i, at, e, size)
    PROVE  Inv'
  <1>1. TypeInv /\ BlockInv /\ NameInv /\ ReadInv /\ AclInv
    BY DEF Inv
  <1> DEFINE s == inode[i].data
             b == e.s.blks[at + 1]
             w == hist.want[i]
             x == [unit |-> i, aces |-> <<>>]
             y == [k \in 1 .. size |-> IF k = at + 1 THEN i ELSE IF k <= Len(w) THEN w[k] ELSE Hole]
             n == [[inode[i] EXCEPT !.data = e.s] EXCEPT !.size = size]
  <1>2. inode[i] \in Inode /\ s \in Stream /\ StreamOk(s) /\ Blocks(s) \subseteq taken
        /\ s.blks \in Seq(Block) /\ inode[i].size \in Nat
    <2>1. inode[i] \in Inode
      BY <1>1, StreamsTaken
    <2>2. inode[i].size \in Nat
      BY <2>1 DEF Inode
    <2> QED
      BY <1>1, <2>2, StreamsTaken, BlksType
  <1>3. Vol \in Volume /\ Vol.taken = taken /\ Vol.disk = disk
    BY <1>1, StreamsTaken
  <1>4. /\ e.s \in Stream /\ e.v \in Volume
        /\ StreamOk(e.s)
        /\ Blocks(s) \subseteq Blocks(e.s)
        /\ (Blocks(e.s) \ Blocks(s)) \cap taken = {}
        /\ e.v.taken = taken \cup Blocks(e.s)
        /\ Len(s.blks) <= Len(e.s.blks)
        /\ \A k \in 1 .. Len(s.blks) : e.s.blks[k] = s.blks[k]
        /\ at + 1 <= Len(e.s.blks)
        /\ \A z \in taken : e.v.disk[z] = disk[z]
    <2> HIDE DEF s
    <2>1. PICK need \in Nat : need = at + 1
      OBVIOUS
    <2>2. e = Extend(Vol, s, need)
      BY <2>1 DEF s
    <2> QED
      BY <1>2, <1>3, <2>1, <2>2, ExtendFacts
  <1>5. PICK t \in Seq(Block) : t = e.s.blks
    BY <1>4 DEF Stream
  <1>6. size \in Nat /\ at + 1 <= size /\ inode[i].size <= size
        /\ (size = at + 1 \/ size = inode[i].size)
    BY <1>2
  <1>7. w \in Seq(Int) /\ Len(w) = inode[i].size /\ inode[i].size <= Len(s.blks)
    <2>1. w \in Seq(Int)
      BY <1>1 DEF TypeInv, History
    <2> QED
      BY <1>1, <2>1 DEF ReadInv
  <1>8. at + 1 \in 1 .. Len(t) /\ b = t[at + 1] /\ b \in Block /\ b \in Blocks(e.s)
    <2>1. at + 1 \in 1 .. Len(t) /\ b = t[at + 1]
      BY <1>4, <1>5
    <2>2. b \in ToSet(t)
      BY <2>1 DEF ToSet
    <2> QED
      BY <1>5, <2>1, <2>2 DEF Blocks
  <1>9. x \in Content /\ x.unit = i /\ [Zero EXCEPT !.unit = i] = x
    <2>1. i \in Nat
      BY SizeAssumption DEF Ino
    <2>2. x.aces \in Seq(Ace)
      OBVIOUS
    <2> QED
      BY <2>1, <2>2 DEF Content, Zero
  <1>10. e.v.disk \in [Block -> Content] /\ e.v.taken \in SUBSET Block
    BY <1>4 DEF Volume
  <1>11. /\ disk' \in [Block -> Content] /\ disk'[b] = x
         /\ \A z \in Block \ {b} : disk'[z] = e.v.disk[z]
    <2>1. disk' = [e.v.disk EXCEPT ![b] = x]
      BY <1>9 DEF Resolve, Written
    <2>2. PICK D \in [Block -> Content] : D = e.v.disk
      BY <1>10
    <2>3. disk' = [D EXCEPT ![b] = x]
      BY <2>1, <2>2
    <2> HIDE DEF b, x
    <2>4. disk' \in [Block -> Content] /\ disk'[b] = x /\ \A z \in Block \ {b} : disk'[z] = D[z]
      BY <1>8, <1>9, <2>3
    <2> QED
      BY <2>2, <2>4
  <1>12. /\ n \in Inode /\ n.type = inode[i].type /\ n.ace = inode[i].ace
         /\ n.over = inode[i].over /\ n.overCount = inode[i].overCount
         /\ n.data = e.s /\ n.size = size /\ n.ents = inode[i].ents
    <2> DEFINE m == [inode[i] EXCEPT !.data = e.s]
    <2>1. /\ m \in Inode /\ m.type = inode[i].type /\ m.ace = inode[i].ace
          /\ m.over = inode[i].over /\ m.overCount = inode[i].overCount
          /\ m.data = e.s /\ m.ents = inode[i].ents
      BY <1>2, <1>4 DEF Inode
    <2>2. n = [m EXCEPT !.size = size]
      OBVIOUS
    <2> HIDE DEF m, n
    <2> QED
      BY <1>6, <2>1, <2>2 DEF Inode
  <1>13. inode' = [inode EXCEPT ![i] = n]
    <2>1. inode \in [Ino -> Inode]
      BY <1>1 DEF TypeInv
    <2> QED
      BY <2>1 DEF Written
  <1> HIDE DEF n, x, b
  <1>14. /\ inode' \in [Ino -> Inode] /\ inode'[i] = n
         /\ \A j \in Ino \ {i} : inode'[j] = inode[j]
    BY <1>1, <1>12, <1>13 DEF TypeInv
  <1>15. y \in Seq(Int) /\ Len(y) = size
    <2>1. i \in Int /\ Hole \in Int
      BY SizeAssumption DEF Ino, Hole
    <2>2. \A k \in 1 .. size : k <= Len(w) => w[k] \in Int
      BY <1>6, <1>7
    <2>3. \A k \in 1 .. size : (IF k = at + 1 THEN i ELSE IF k <= Len(w) THEN w[k] ELSE Hole) \in Int
      BY <2>1, <2>2
    <2>4. y \in [1 .. size -> Int]
      BY <2>3
    <2> HIDE DEF y
    <2> QED
      BY <1>6, <2>4, SeqOfFunction
  <1>16. /\ hist' \in History /\ hist'.want[i] = y
         /\ \A j \in Ino \ {i} : hist'.want[j] = hist.want[j]
         /\ hist'.seed = hist.seed /\ hist'.depth = hist.depth
         /\ hist'.gone = hist.gone /\ hist'.lost = hist.lost /\ hist'.full = hist.full
    <2> DEFINE W == [hist.want EXCEPT ![i] = y]
    <2>1. hist \in History /\ hist.want \in [Ino -> Seq(Int)]
      BY <1>1 DEF TypeInv, History
    <2>2. hist' = [hist EXCEPT !.want = W]
      BY <2>1 DEF History, Written
    <2> HIDE DEF y
    <2>3. W \in [Ino -> Seq(Int)] /\ W[i] = y /\ \A j \in Ino \ {i} : W[j] = hist.want[j]
      BY <1>15, <2>1
    <2> HIDE DEF W
    <2> QED
      BY <2>1, <2>2, <2>3 DEF History
  <1>17. TypeInv'
    <2>1. \A j \in Ino : inode'[j].type = "NONE" => inode'[j] = NoInode
      BY <1>1, <1>12, <1>14 DEF TypeInv
    <2> QED
      BY <1>10, <1>11, <1>14, <1>16, <2>1 DEF TypeInv, Written
  <1>18. BlockInv'
    <2>1. \A j \in Ino : inode'[j].over = inode[j].over /\ StreamOk(inode'[j].data)
      BY <1>1, <1>4, <1>12, <1>14, StreamsTaken
    <2>2. \A j \in Ino \ {i} : inode'[j].data = inode[j].data
      BY <1>14
    <2>3. inode'[i].data = e.s
      BY <1>12, <1>14
    <2>4. taken' = taken \cup Blocks(inode'[i].data)
      BY <1>4, <2>3 DEF Written
    <2>5. Blocks(s) \subseteq Blocks(inode'[i].data)
          /\ (Blocks(inode'[i].data) \ Blocks(s)) \cap taken = {}
      BY <1>4, <2>3
    <2> QED
      BY <1>1, <1>14, <1>16, <2>1, <2>2, <2>4, <2>5, GrowBlocks
  <1>19. \A j \in Ino : inode'[j].type = inode[j].type /\ inode'[j].ents = inode[j].ents
    BY <1>12, <1>14
  <1>20. NameInv'
    BY <1>1, <1>16, <1>19, NamesKept
  <1>21. \A j \in Ino \ {i} : b \notin Holds(inode[j])
    <2> TAKE j \in Ino \ {i}
    <2>1. Holds(inode[j]) \subseteq taken
      BY <1>1, StreamsTaken
    <2>2. Holds(inode[j]) \cap Blocks(s) = {}
      BY <1>1 DEF BlockInv, Owned, Holds
    <2> QED
      BY <1>4, <1>8, <2>1, <2>2
  <1>22. inode[i].over # b
    <2>1. inode[i].over \notin Blocks(s)
      BY <1>1 DEF BlockInv
    <2>2. inode[i].over \in taken \cup {None} /\ None \notin Block
      BY <1>1, StreamsTaken DEF Holds, None, Block
    <2> QED
      BY <1>4, <1>8, <2>1, <2>2
  <1>23. \A z \in taken \ {b} : disk'[z] = disk[z]
    <2>1. taken \in SUBSET Block
      BY <1>1 DEF TypeInv
    <2> QED
      BY <1>4, <1>11, <2>1
  <1>24. AclInv'
    <2> SUFFICES ASSUME NEW j \in Used
                 PROVE  /\ inode'[j].over # None => inode'[j].overCount <= Len(disk'[inode'[j].over].aces)
                        /\ hist'.depth[j] = 0 <=> j = Root
                        /\ ToSet(Aces(j)') = Reaching(hist.depth[j], inode[j].type)'
      BY <1>19 DEF AclInv, Used
    <2>1. j \in Ino
      BY DEF Used
    <2>2. inode'[j].type = inode[j].type /\ inode'[j].ace = inode[j].ace
          /\ inode'[j].over = inode[j].over /\ inode'[j].overCount = inode[j].overCount
      BY <1>12, <1>14, <2>1
    <2>3. inode[j].over # None => inode[j].over \in taken \ {b}
      BY <1>1, <1>21, <1>22, <2>1, StreamsTaken DEF Holds
    <2> QED
      BY <1>1, <1>16, <1>23, <2>2, <2>3, ListKept
  <1>25. ReadInv'
    <2> SUFFICES ASSUME NEW j \in Ino
                 PROVE  inode'[j].type = "FILE" =>
                          /\ Len(hist'.want[j]) = inode'[j].size
                          /\ inode'[j].size <= Len(inode'[j].data.blks)
                          /\ \A k \in 1 .. inode'[j].size :
                               hist'.want[j][k] # Hole =>
                                 disk'[inode'[j].data.blks[k]].unit = hist'.want[j][k]
      BY DEF ReadInv
    <2>1. CASE j # i
      <3>1. inode'[j] = inode[j] /\ hist'.want[j] = hist.want[j] /\ inode[j] \in Inode
        BY <1>1, <1>14, <1>16, <2>1 DEF TypeInv
      <3>2. Grown(inode[j], inode'[j])
        BY <1>1, <3>1, StreamsTaken, GrownSelf
      <3>3. \A z \in Blocks(inode[j].data) : disk'[z].unit = disk[z].unit
        <4>1. Blocks(inode[j].data) \subseteq taken \ {b}
          BY <1>1, <1>21, <2>1, StreamsTaken DEF Holds
        <4> QED
          BY <1>23, <4>1
      <3> QED
        BY <1>1, <3>1, <3>2, <3>3, FileKept
    <2>2. CASE j = i
      <3>1. inode'[j].size = size /\ inode'[j].data.blks = t /\ hist'.want[j] = y
        BY <1>5, <1>12, <1>14, <1>16, <2>2
      <3>2. size <= Len(t)
        <4>1. PICK u \in Nat, v \in Nat, z \in Nat, a \in Nat :
                u = Len(s.blks) /\ v = Len(t) /\ z = inode[i].size /\ a = at + 1
          BY <1>2, <1>5
        <4>2. u <= v /\ z <= u /\ a <= v /\ (size = a \/ size = z)
          BY <1>4, <1>5, <1>6, <1>7, <4>1
        <4>3. size <= v
          BY <4>2
        <4> QED
          BY <4>1, <4>3
      <3>3. ASSUME NEW k \in 1 .. size, y[k] # Hole
            PROVE  disk'[t[k]].unit = y[k]
        <4>1. CASE k = at + 1
          <5>1. y[k] = i
            BY <4>1
          <5> QED
            BY <1>8, <1>9, <1>11, <4>1, <5>1
        <4>2. CASE k # at + 1
          <5>1. k <= Len(w) /\ y[k] = w[k]
            BY <3>3, <4>2
          <5>2. k \in 1 .. inode[i].size /\ k \in 1 .. Len(s.blks) /\ k \in 1 .. Len(t)
            <6>1. PICK u \in Nat, v \in Nat, z \in Nat :
                    u = Len(s.blks) /\ v = Len(t) /\ z = inode[i].size
              BY <1>2, <1>5
            <6>2. u <= v /\ z <= u /\ k <= z
              BY <1>4, <1>5, <1>7, <5>1, <6>1
            <6>3. k \in 1 .. z /\ k \in 1 .. u /\ k \in 1 .. v
              BY <1>6, <6>2
            <6> QED
              BY <6>1, <6>3
          <5>3. t[k] = s.blks[k]
            BY <1>4, <1>5, <5>2
          <5>4. t[k] # b
            <6>1. IsInjective(t)
              BY <1>4, <1>5 DEF StreamOk
            <6>2. k \in DOMAIN t /\ at + 1 \in DOMAIN t
              BY <1>5, <1>8, <5>2
            <6> QED
              BY <1>8, <4>2, <6>1, <6>2 DEF IsInjective
          <5>5. t[k] \in taken
            <6>1. s.blks[k] \in Blocks(s)
              BY <1>2, <5>2 DEF Blocks, ToSet
            <6> QED
              BY <1>2, <5>3, <6>1
          <5>6. disk[s.blks[k]].unit = w[k]
            <6>1. w[k] # Hole
              BY <3>3, <5>1
            <6> QED
              BY <1>1, <5>2, <6>1 DEF ReadInv
          <5> QED
            BY <1>23, <5>1, <5>3, <5>4, <5>5, <5>6
        <4> QED
          BY <4>1, <4>2
      <3> HIDE DEF y
      <3> QED
        BY <1>15, <3>1, <3>2, <3>3
    <2> QED
      BY <2>1, <2>2
  <1> QED
    BY <1>17, <1>18, <1>20, <1>24, <1>25 DEF Inv

\* nyfs_op_truncate
LEMMA TruncateStep ==
    ASSUME Inv, NEW c, NEW i \in Ino, NEW size \in Nat, Truncate(c, i, size)
    PROVE  Inv'
  <1>1. TypeInv /\ BlockInv /\ NameInv /\ ReadInv /\ AclInv
    BY DEF Inv
  <1>2. inode[i].type = "FILE" /\ size <= inode[i].size /\ taken' = taken /\ disk' = disk
    BY DEF Truncate
  <1> DEFINE n == [inode[i] EXCEPT !.size = size]
             w == hist.want[i]
             W == [hist.want EXCEPT ![i] = SubSeq(w, 1, size)]
  <1>3. hist \in History /\ hist.want \in [Ino -> Seq(Int)] /\ inode \in [Ino -> Inode]
    BY <1>1 DEF TypeInv, History
  <1>4. inode[i] \in Inode /\ inode[i].size \in Nat /\ w \in Seq(Int)
    BY <1>3 DEF Inode
  <1>5. Len(w) = inode[i].size /\ inode[i].size <= Len(inode[i].data.blks)
    BY <1>1, <1>2 DEF ReadInv
  <1>6. inode' = [inode EXCEPT ![i] = n] /\ hist' = [hist EXCEPT !.want = W]
    BY <1>3 DEF Truncate, History
  <1>7. /\ n \in Inode /\ n.type = inode[i].type /\ n.ace = inode[i].ace
        /\ n.over = inode[i].over /\ n.overCount = inode[i].overCount
        /\ n.data = inode[i].data /\ n.size = size /\ n.ents = inode[i].ents
    BY <1>4 DEF Inode
  <1>8. /\ SubSeq(w, 1, size) \in Seq(Int) /\ Len(SubSeq(w, 1, size)) = size
        /\ \A k \in 1 .. size : SubSeq(w, 1, size)[k] = w[k]
    BY <1>2, <1>4, <1>5
  <1>9. W \in [Ino -> Seq(Int)] /\ W[i] = SubSeq(w, 1, size) /\ \A j \in Ino \ {i} : W[j] = hist.want[j]
    BY <1>3, <1>8
  <1> HIDE DEF n, W
  <1>10. /\ inode' \in [Ino -> Inode] /\ inode'[i] = n
         /\ \A j \in Ino \ {i} : inode'[j] = inode[j]
    BY <1>3, <1>6, <1>7
  <1>11. /\ hist' \in History /\ hist'.want = W
         /\ hist'.seed = hist.seed /\ hist'.depth = hist.depth
         /\ hist'.gone = hist.gone /\ hist'.lost = hist.lost /\ hist'.full = hist.full
    BY <1>3, <1>6, <1>9 DEF History
  <1>12. TypeInv'
    <2>1. \A j \in Ino : inode'[j].type = "NONE" => inode'[j] = NoInode
      BY <1>1, <1>2, <1>7, <1>10 DEF TypeInv
    <2> QED
      BY <1>1, <1>2, <1>10, <1>11, <2>1 DEF TypeInv
  <1>13. \A j \in Ino : inode'[j].over = inode[j].over /\ inode'[j].data = inode[j].data
    BY <1>7, <1>10
  <1>14. BlockInv'
    <2>1. \A j \in Ino : StreamOk(inode'[j].data) /\ Blocks(inode[j].data) \subseteq taken
      BY <1>1, <1>13, StreamsTaken
    <2>2. taken' = taken \cup Blocks(inode'[i].data)
      BY <1>2, <1>13, <2>1
    <2>3. (Blocks(inode'[i].data) \ Blocks(inode[i].data)) \cap taken = {}
          /\ Blocks(inode[i].data) \subseteq Blocks(inode'[i].data)
          /\ Blocks(inode'[i].data) \subseteq taken' /\ taken \subseteq taken'
      BY <1>13, <2>2
    <2> QED
      BY <1>1, <1>10, <1>11, <1>13, <2>1, <2>2, <2>3, GrowBlocks
  <1>15. \A j \in Ino : inode'[j].type = inode[j].type /\ inode'[j].ents = inode[j].ents
    BY <1>7, <1>10
  <1>16. NameInv'
    BY <1>1, <1>11, <1>15, NamesKept
  <1>17. AclInv'
    <2> SUFFICES ASSUME NEW j \in Used
                 PROVE  /\ inode'[j].over # None => inode'[j].overCount <= Len(disk'[inode'[j].over].aces)
                        /\ hist'.depth[j] = 0 <=> j = Root
                        /\ ToSet(Aces(j)') = Reaching(hist.depth[j], inode[j].type)'
      BY <1>15 DEF AclInv, Used
    <2>1. j \in Ino
      BY DEF Used
    <2>2. inode'[j].type = inode[j].type /\ inode'[j].ace = inode[j].ace
          /\ inode'[j].over = inode[j].over /\ inode'[j].overCount = inode[j].overCount
      BY <1>7, <1>10, <2>1
    <2> QED
      BY <1>1, <1>2, <1>11, <2>2, ListKept
  <1>18. ReadInv'
    <2> SUFFICES ASSUME NEW j \in Ino, inode'[j].type = "FILE"
                 PROVE  /\ Len(hist'.want[j]) = inode'[j].size
                        /\ inode'[j].size <= Len(inode'[j].data.blks)
                        /\ \A k \in 1 .. inode'[j].size :
                             hist'.want[j][k] # Hole =>
                               disk'[inode'[j].data.blks[k]].unit = hist'.want[j][k]
      BY DEF ReadInv
    <2>1. CASE j # i
      <3>1. inode'[j] = inode[j] /\ hist'.want[j] = hist.want[j]
        BY <1>9, <1>10, <1>11, <2>1
      <3> QED
        BY <1>1, <1>2, <3>1 DEF ReadInv
    <2>2. CASE j = i
      <3>1. inode'[j].size = size /\ inode'[j].data = inode[i].data
            /\ hist'.want[j] = SubSeq(w, 1, size)
        BY <1>7, <1>9, <1>10, <1>11, <2>2
      <3>2. PICK z \in Nat, u \in Nat : z = inode[i].size /\ u = Len(inode[i].data.blks)
        BY <1>4, BlksType
      <3>3. size <= z /\ z <= u
        BY <1>2, <1>5, <3>2
      <3>4. size <= u /\ \A k \in 1 .. size : k \in 1 .. z
        BY <3>3
      <3>5. \A k \in 1 .. z : w[k] # Hole => disk[inode[i].data.blks[k]].unit = w[k]
        BY <1>1, <1>2, <3>2 DEF ReadInv
      <3> QED
        BY <1>2, <1>8, <3>1, <3>2, <3>4, <3>5
    <2> QED
      BY <2>1, <2>2
  <1> QED
    BY <1>12, <1>14, <1>16, <1>17, <1>18 DEF Inv

(***************************************************************************)
(* Names                                                                   *)
(***************************************************************************)
\* A free inode holds nothing.
LEMMA NoInodeFacts ==
    /\ NoInode \in Inode /\ NoInode.type = "NONE" /\ NoInode.over = None
    /\ \A n \in Name : NoInode.ents[n] = None
    /\ Blocks(NoInode.data) = {} /\ Holds(NoInode) = {} /\ StreamOk(NoInode.data)
  <1>1. /\ NoInode.data = NoStream /\ NoInode.over = None /\ NoInode.type = "NONE"
        /\ NoInode.ents = [n \in Name |-> None]
    BY DEF NoInode
  <1>2. NoStream.ext = None /\ NoStream.blks = <<>>
    BY DEF NoStream
  <1>3. NoStream \in Stream
    BY DEF NoStream, Stream
  <1>4. ToSet(<<>>) = {} /\ IsInjective(<<>>)
    BY DEF ToSet, IsInjective
  <1>5. <<>> \in Seq(Ace)
    OBVIOUS
  <1>6. NoInode \in Inode
    BY <1>3, <1>5 DEF NoInode, Inode
  <1> QED
    BY <1>1, <1>2, <1>4, <1>6 DEF Blocks, Holds, StreamOk

\* No inode has two names.
LEMMA NamesOf ==
    ASSUME NameInv, NEW d \in Ino, NEW e \in Ino, NEW m \in Name, NEW n \in Name,
           inode[d].ents[m] # None, inode[d].ents[m] = inode[e].ents[n]
    PROVE  d = e /\ m = n
  BY DEF NameInv

\* nyfs_op_remove
LEMMA UnlinkStep ==
    ASSUME Inv, NEW c, NEW p \in Dirs, NEW name \in Name, Unlink(c, p, name)
    PROVE  Inv'
  <1>1. TypeInv /\ BlockInv /\ NameInv /\ ReadInv /\ AclInv
    BY DEF Inv
  <1> DEFINE d == LookupParent(p, c)
             i == inode[d].ents[name]
             m == DirhashRemove(inode[d], name)
             D == inode[i].data
             o == {inode[i].over} \ {None}
  <1>2. /\ d # None /\ IsDir(d) /\ i # None /\ IsEmpty(i)
        /\ taken' = FreeStream(Vol, D).taken
        /\ inode' = [inode EXCEPT ![d] = m, ![i] = NoInode]
        /\ hist' = [hist EXCEPT !.gone = @ \cup o, !.want[i] = <<>>]
        /\ disk' = disk
    BY DEF Unlink
  <1>3. d \in Used
    BY <1>1, <1>2, ParentType
  <1> HIDE DEF d
  <1>4. d \in Ino /\ inode[d] \in Inode
    BY <1>1, <1>3 DEF Used, TypeInv
  <1>5. i \in Used \ {Root} /\ i \in Ino
    BY <1>1, <1>2, <1>4 DEF NameInv, Used
  <1>6. i # d
    BY <1>2 DEF IsEmpty
  <1>7. m = [inode[d] EXCEPT !.ents[name] = None]
    BY DEF DirhashRemove
  <1> HIDE DEF m
  <1>8. /\ m \in Inode /\ m.type = inode[d].type /\ m.ace = inode[d].ace
        /\ m.over = inode[d].over /\ m.overCount = inode[d].overCount
        /\ m.data = inode[d].data /\ m.size = inode[d].size
        /\ m.ents[name] = None /\ \A n \in Name \ {name} : m.ents[n] = inode[d].ents[n]
    <2> DEFINE f == [inode[d].ents EXCEPT ![name] = None]
    <2>1. inode[d].ents \in [Name -> Ino \cup {None}]
      BY <1>4 DEF Inode
    <2>2. m = [inode[d] EXCEPT !.ents = f]
      BY <1>7
    <2>3. f \in [Name -> Ino \cup {None}] /\ f[name] = None
          /\ \A n \in Name \ {name} : f[n] = inode[d].ents[n]
      BY <2>1
    <2> HIDE DEF f
    <2> QED
      BY <1>4, <2>2, <2>3 DEF Inode
  <1>9. inode \in [Ino -> Inode] /\ disk \in [Block -> Content] /\ taken \in SUBSET Block
        /\ hist \in History
    BY <1>1 DEF TypeInv
  <1> HIDE DEF i
  <1>10. /\ inode' \in [Ino -> Inode] /\ inode'[d] = m /\ inode'[i] = NoInode
         /\ \A j \in Ino \ {d, i} : inode'[j] = inode[j]
    BY <1>2, <1>4, <1>5, <1>6, <1>8, <1>9, NoInodeFacts
  <1>11. taken' = taken \ Blocks(D)
    BY <1>2 DEF FreeStream, Vol
  <1>12. /\ hist' \in History /\ hist'.gone = hist.gone \cup o /\ hist'.want[i] = <<>>
         /\ \A j \in Ino \ {i} : hist'.want[j] = hist.want[j]
         /\ hist'.seed = hist.seed /\ hist'.depth = hist.depth
         /\ hist'.lost = hist.lost /\ hist'.full = hist.full
    <2> DEFINE W == [hist.want EXCEPT ![i] = <<>>]
               G == hist.gone \cup o
    <2>1. hist.want \in [Ino -> Seq(Int)] /\ hist.gone \in SUBSET Block
      BY <1>9 DEF History
    <2>2. hist' = [[hist EXCEPT !.gone = G] EXCEPT !.want = W]
      BY <1>2, <1>9 DEF History
    <2>3. W \in [Ino -> Seq(Int)] /\ W[i] = <<>> /\ \A j \in Ino \ {i} : W[j] = hist.want[j]
      <3>1. <<>> \in Seq(Int)
        OBVIOUS
      <3> QED
        BY <1>5, <2>1, <3>1
    <2>4. G \in SUBSET Block
      <3>1. inode[i].over \in Block \cup {None}
        BY <1>5, <1>9 DEF Inode
      <3> QED
        BY <2>1, <3>1
    <2>5. G = hist.gone \cup o
      OBVIOUS
    <2> HIDE DEF W, G
    <2> QED
      BY <1>9, <2>2, <2>3, <2>4, <2>5 DEF History
  <1>13. TypeInv'
    <2>1. \A j \in Ino : inode'[j].type = "NONE" => inode'[j] = NoInode
      BY <1>1, <1>3, <1>8, <1>10 DEF TypeInv, Used
    <2> QED
      BY <1>2, <1>9, <1>10, <1>11, <1>12, <2>1 DEF TypeInv
  <1>14. /\ Holds(inode'[i]) = {} /\ StreamOk(inode'[i].data)
         /\ inode'[i].over = None /\ None \notin Blocks(inode'[i].data)
    BY <1>10, NoInodeFacts
  <1>15. \A j \in Ino \ {i} : inode'[j].data = inode[j].data /\ inode'[j].over = inode[j].over
    BY <1>8, <1>10
  <1>16. BlockInv'
    <2> DEFINE H(j) == Holds(inode[j])
               G(j) == Holds(inode'[j])
    <2>1. \A j \in Ino : Owned(j) = H(j) /\ Owned(j)' = G(j)
      BY DEF Owned, Holds
    <2>2. H(i) = Blocks(D) \cup o /\ Blocks(D) \cap o = {}
      <3>1. inode[i].over \notin Blocks(D)
        BY <1>1, <1>5 DEF BlockInv
      <3> QED
        BY <3>1 DEF Holds
    <2>3. G(i) = {} /\ \A j \in Ino \ {i} : G(j) = H(j)
      BY <1>14, <1>15 DEF Holds
    <2>4. /\ \A j, k \in Ino : j # k => H(j) \cap H(k) = {}
          /\ \A j \in Ino : H(j) \subseteq taken /\ H(j) \cap hist.gone = {}
          /\ hist.gone \subseteq taken
          /\ ~hist.full => taken = hist.gone \cup UNION {H(j) : j \in Ino}
      BY <1>1, <2>1 DEF BlockInv
    <2> DEFINE B == Blocks(D)
    <2> HIDE DEF H, G, o, B
    <2>5. H(i) = B \cup o /\ B \cap o = {} /\ taken' = taken \ B /\ hist'.gone = hist.gone \cup o
      BY <1>11, <1>12, <2>2 DEF B
    <2>6. \A j, k \in Ino : j # k => G(j) \cap G(k) = {}
      BY <2>3, <2>4
    <2>7. \A j \in Ino : G(j) \subseteq taken' /\ G(j) \cap hist'.gone = {}
      <3> TAKE j \in Ino
      <3>1. CASE j = i
        BY <2>3, <3>1
      <3>2. CASE j # i
        <4>1. G(j) = H(j) /\ H(j) \cap H(i) = {}
          BY <1>5, <2>3, <2>4, <3>2
        <4> QED
          BY <2>4, <2>5, <4>1
      <3> QED
        BY <3>1, <3>2
    <2>8. hist'.gone \subseteq taken'
      BY <1>5, <2>4, <2>5
    <2>9. ~hist'.full => taken' = hist'.gone \cup UNION {G(j) : j \in Ino}
      <3> SUFFICES ASSUME ~hist'.full PROVE taken' = hist'.gone \cup UNION {G(j) : j \in Ino}
        OBVIOUS
      <3>1. taken = hist.gone \cup UNION {H(j) : j \in Ino}
        BY <1>12, <2>4
      <3>2. UNION {H(j) : j \in Ino} = H(i) \cup UNION {G(j) : j \in Ino}
        BY <1>5, <2>3
      <3>3. (UNION {G(j) : j \in Ino}) \cap B = {}
        BY <1>5, <2>3, <2>4, <2>5
      <3>4. hist.gone \cap B = {}
        BY <1>5, <2>4, <2>5
      <3> QED
        BY <2>5, <3>1, <3>2, <3>3, <3>4
    <2>10. \A j \in Ino : StreamOk(inode'[j].data) /\ inode'[j].over \notin Blocks(inode'[j].data)
      BY <1>1, <1>14, <1>15 DEF BlockInv
    <2> QED
      BY <2>1, <2>6, <2>7, <2>8, <2>9, <2>10 DEF BlockInv
  <1>17. /\ \A j \in Ino \ {i} : inode'[j].type = inode[j].type
         /\ \A n \in Name : inode'[i].ents[n] = None /\ inode[i].ents[n] = None
         /\ inode'[d].ents[name] = None /\ inode[d].ents[name] = i
         /\ \A j \in Ino, n \in Name : j # d \/ n # name => inode'[j].ents[n] = inode[j].ents[n]
    <2>1. \A n \in Name : inode'[i].ents[n] = None /\ inode[i].ents[n] = None
      BY <1>2, <1>10, NoInodeFacts DEF IsEmpty
    <2> QED
      BY <1>8, <1>10, <2>1 DEF i
  <1>18. Used' = Used \ {i}
    BY <1>5, <1>10, <1>17, NoInodeFacts DEF Used
  <1>19. NameInv'
    <2>1. IsDir(Root)'
      BY <1>1, <1>5, <1>17, SizeAssumption DEF NameInv, IsDir, Root, Ino
    <2>2. ASSUME NEW e \in Ino, NEW n \in Name, inode'[e].ents[n] # None
          PROVE  /\ inode'[e].ents[n] = inode[e].ents[n] /\ e # i
                 /\ IsDir(e)' /\ inode'[e].ents[n] \in Used' \ {Root}
      <3>1. e # i /\ (e # d \/ n # name)
        BY <1>17, <2>2
      <3>2. inode'[e].ents[n] = inode[e].ents[n]
        BY <1>17, <3>1
      <3>3. inode[e].ents[n] # i
        BY <1>1, <1>2, <1>4, <1>17, <3>1 DEF NameInv
      <3>4. IsDir(e) /\ inode[e].ents[n] \in Used \ {Root}
        BY <1>1, <2>2, <3>2 DEF NameInv
      <3>5. IsDir(e)'
        BY <1>17, <3>1, <3>4 DEF IsDir
      <3> QED
        BY <1>18, <3>1, <3>2, <3>3, <3>4, <3>5
    <2>3. ASSUME NEW e \in Ino, NEW g \in Ino, NEW n \in Name, NEW k \in Name,
                 inode'[e].ents[n] # None, inode'[e].ents[n] = inode'[g].ents[k]
          PROVE  e = g /\ n = k
      <3>1. inode'[e].ents[n] = inode[e].ents[n] /\ inode'[g].ents[k] = inode[g].ents[k]
        BY <2>2, <2>3
      <3>2. inode[e].ents[n] # None /\ inode[e].ents[n] = inode[g].ents[k]
        BY <2>3, <3>1
      <3> QED
        BY <1>1, <3>2, NamesOf
    <2>4. ASSUME NEW j \in Used' \ (hist'.lost \cup {Root})
          PROVE  \E e \in Ino, n \in Name : inode'[e].ents[n] = j
      <3>1. j \in Used \ (hist.lost \cup {Root}) /\ j # i
        BY <1>12, <1>18, <2>4
      <3>2. PICK e \in Ino, n \in Name : inode[e].ents[n] = j
        BY <1>1, <3>1 DEF NameInv
      <3>3. e # d \/ n # name
        BY <1>17, <3>1, <3>2
      <3> QED
        BY <1>17, <3>2, <3>3
    <2> QED
      BY <2>1, <2>2, <2>3, <2>4 DEF NameInv
  <1>20. ReadInv'
    <2> SUFFICES ASSUME NEW j \in Ino, inode'[j].type = "FILE"
                 PROVE  /\ Len(hist'.want[j]) = inode'[j].size
                        /\ inode'[j].size <= Len(inode'[j].data.blks)
                        /\ \A k \in 1 .. inode'[j].size :
                             hist'.want[j][k] # Hole =>
                               disk'[inode'[j].data.blks[k]].unit = hist'.want[j][k]
      BY DEF ReadInv
    <2>1. j # i
      BY <1>10, NoInodeFacts
    <2>2. inode'[j].type = inode[j].type /\ inode'[j].size = inode[j].size
          /\ inode'[j].data = inode[j].data /\ hist'.want[j] = hist.want[j]
      BY <1>8, <1>10, <1>12, <2>1
    <2> QED
      BY <1>1, <1>2, <2>2 DEF ReadInv
  <1>21. AclInv'
    <2> SUFFICES ASSUME NEW j \in Used \ {i}
                 PROVE  /\ inode'[j].over # None => inode'[j].overCount <= Len(disk'[inode'[j].over].aces)
                        /\ hist'.depth[j] = 0 <=> j = Root
                        /\ ToSet(Aces(j)') = Reaching(hist.depth[j], inode[j].type)'
      BY <1>18 DEF AclInv
    <2>1. j \in Ino
      BY DEF Used
    <2>2. inode'[j].type = inode[j].type /\ inode'[j].ace = inode[j].ace
          /\ inode'[j].over = inode[j].over /\ inode'[j].overCount = inode[j].overCount
      BY <1>8, <1>10, <2>1
    <2> QED
      BY <1>1, <1>2, <1>12, <2>2, ListKept
  <1> QED
    BY <1>13, <1>16, <1>19, <1>20, <1>21 DEF Inv

\* nyfs_dirhash_remove
LEMMA RemoveFacts ==
    ASSUME NEW n \in Inode, NEW name \in Name, StreamOk(n.data)
    PROVE  LET m == DirhashRemove(n, name)
           IN  /\ m \in Inode /\ Grown(n, m) /\ m.data = n.data
               /\ m.ents = [n.ents EXCEPT ![name] = None]
  <1> DEFINE f == [n.ents EXCEPT ![name] = None]
             m == DirhashRemove(n, name)
  <1>1. n.ents \in [Name -> Ino \cup {None}]
    BY DEF Inode
  <1>2. m = [n EXCEPT !.ents = f]
    BY DEF DirhashRemove
  <1>3. f \in [Name -> Ino \cup {None}]
    BY <1>1
  <1> HIDE DEF f, m
  <1>4. /\ m \in Inode /\ m.type = n.type /\ m.ace = n.ace /\ m.over = n.over
        /\ m.overCount = n.overCount /\ m.data = n.data /\ m.size = n.size /\ m.ents = f
    BY <1>2, <1>3 DEF Inode
  <1>5. Grown(n, n)
    BY GrownSelf
  <1>6. Grown(n, m)
    BY <1>4, <1>5 DEF Grown
  <1> QED
    BY <1>4, <1>6 DEF f, m

\* nyfs_op_rename has found the inode i and removed its name, which leaves the old
\* directory d as m; e is the new directory and v the volume after the call.
Moving(d, e, i, m, n, v, old, new) ==
    /\ IsDir(d) /\ IsDir(e) /\ inode[d].ents[old] = i /\ inode[e].ents[new] = None
    /\ m.ents = [inode[d].ents EXCEPT ![old] = None]
    /\ taken' = v.taken /\ disk' = v.disk
    /\ taken \subseteq v.taken /\ \A b \in taken : v.disk[b] = disk[b]

\* It is entered in the new directory, which is then n.
Moved(d, e, i, m, n, v, old, new) ==
    /\ Moving(d, e, i, m, n, v, old, new)
    /\ Grown(inode[d], m) /\ m.data = inode[d].data
    /\ Grown(inode[e], n)
    /\ n.ents = [(IF d = e THEN m ELSE inode[e]).ents EXCEPT ![new] = i]
    /\ (Blocks(n.data) \ Blocks(inode[e].data)) \cap taken = {}
    /\ v.taken = taken \cup Blocks(n.data)
    /\ inode' = [[inode EXCEPT ![d] = m] EXCEPT ![e] = n]
    /\ hist' = hist

\* The disk is full: it is entered again in the old directory, which is then n, or lost.
NotMoved(d, e, i, m, n, v, old, new) ==
    /\ Moving(d, e, i, m, n, v, old, new)
    /\ Grown(inode[d], n)
    /\ (Blocks(n.data) \ Blocks(inode[d].data)) \cap taken = {}
    /\ Blocks(n.data) \subseteq v.taken
    /\ inode' = [inode EXCEPT ![d] = n]
    /\ \/ n.ents = inode[d].ents /\ hist' = [hist EXCEPT !.full = TRUE]
       \/ n.ents = m.ents /\ hist' = [hist EXCEPT !.full = TRUE, !.lost = @ \cup {i}]

\* nyfs_op_rename does the one or the other.
LEMMA RenameFacts ==
    ASSUME Inv, NEW c, NEW p \in Dirs, NEW q \in Dirs, NEW old \in Name, NEW new \in Name,
           Rename(c, p, old, q, new)
    PROVE  \E d \in Used, e \in Used, i \in Used \ {Root}, m \in Inode, n \in Inode, v \in Volume :
             /\ e = LookupParent(q, c)
             /\ Moved(d, e, i, m, n, v, old, new) \/ NotMoved(d, e, i, m, n, v, old, new)
  <1>1. TypeInv /\ BlockInv /\ NameInv
    BY DEF Inv
  <1> DEFINE d    == LookupParent(p, c)
             e    == LookupParent(q, c)
             i    == inode[d].ents[old]
             m    == DirhashRemove(inode[d], old)
             out  == [inode EXCEPT ![d] = m]
             ins  == DirhashInsert(Vol, out[e], new, i)
             dir2 == IF d = e THEN ins.dir ELSE out[d]
             back == DirhashInsert(ins.v, dir2, old, i)
  <1>2. /\ d # None /\ IsDir(d) /\ e # None /\ IsDir(e)
        /\ i # None /\ i # e /\ inode[e].ents[new] = None
        /\ \/ /\ ins.ok
              /\ taken' = ins.v.taken
              /\ disk' = ins.v.disk
              /\ inode' = [out EXCEPT ![e] = ins.dir]
              /\ UNCHANGED hist
           \/ /\ ~ins.ok
              /\ taken' = back.v.taken
              /\ disk' = back.v.disk
              /\ inode' = [inode EXCEPT ![d] = back.dir]
              /\ hist' = [hist EXCEPT !.full = TRUE, !.lost = IF back.ok THEN @ ELSE @ \cup {i}]
    BY DEF Rename
  <1>3. d \in Used /\ e \in Used
    BY <1>1, <1>2, ParentType
  <1> HIDE DEF d, e
  <1>4. /\ d \in Ino /\ inode[d] \in Inode /\ e \in Ino /\ inode[e] \in Inode
        /\ StreamOk(inode[d].data) /\ Blocks(inode[d].data) \subseteq taken
        /\ StreamOk(inode[e].data) /\ Blocks(inode[e].data) \subseteq taken
        /\ Vol \in Volume /\ Vol.taken = taken /\ Vol.disk = disk
    BY <1>1, <1>3, StreamsTaken DEF Used
  <1>5. i \in Used \ {Root} /\ i \in Ino
    BY <1>1, <1>2, <1>4 DEF NameInv, Used
  <1>6. /\ m \in Inode /\ Grown(inode[d], m) /\ m.data = inode[d].data
        /\ m.ents = [inode[d].ents EXCEPT ![old] = None]
    BY <1>4, RemoveFacts
  <1>7. out[d] = m /\ out[e] = IF d = e THEN m ELSE inode[e]
    BY <1>1, <1>4 DEF TypeInv
  <1> HIDE DEF m, i
  <1> DEFINE x == out[e]
  <1>8. x \in Inode /\ StreamOk(x.data) /\ x.data = inode[e].data
        /\ x.ents = (IF d = e THEN m ELSE inode[e]).ents
    BY <1>4, <1>6, <1>7
  <1>9. Grown(inode[e], x)
    BY <1>4, <1>6, <1>7, GrownSelf
  <1> HIDE DEF x
  <1>10. /\ ins.ok \in BOOLEAN /\ ins.v \in Volume /\ ins.dir \in Inode
         /\ Grown(x, ins.dir)
         /\ (Blocks(ins.dir.data) \ Blocks(x.data)) \cap taken = {}
         /\ ins.v.taken = taken \cup Blocks(ins.dir.data)
         /\ \A b \in taken : ins.v.disk[b] = disk[b]
         /\ ins.dir.ents = IF ins.ok THEN [x.ents EXCEPT ![new] = i] ELSE x.ents
    <2>1. ins = DirhashInsert(Vol, x, new, i)
      BY DEF x
    <2> HIDE DEF ins
    <2> QED
      BY <1>4, <1>5, <1>8, <2>1, InsertFacts
  <1> HIDE DEF ins
  <1>11. Grown(inode[e], ins.dir)
    BY <1>4, <1>8, <1>9, <1>10, GrownTwice
  <1>12. CASE ins.ok
    <2>1. /\ taken' = ins.v.taken /\ disk' = ins.v.disk
          /\ inode' = [[inode EXCEPT ![d] = m] EXCEPT ![e] = ins.dir] /\ hist' = hist
      BY <1>2, <1>12
    <2>2. /\ ins.dir.ents = [(IF d = e THEN m ELSE inode[e]).ents EXCEPT ![new] = i]
          /\ (Blocks(ins.dir.data) \ Blocks(inode[e].data)) \cap taken = {}
      BY <1>8, <1>10, <1>12
    <2>3. inode[d].ents[old] = i
      BY DEF i
    <2>4. PICK n \in Inode, v \in Volume : n = ins.dir /\ v = ins.v
      BY <1>10
    <2>5. /\ taken' = v.taken /\ disk' = v.disk
          /\ taken \subseteq v.taken /\ \A b \in taken : v.disk[b] = disk[b]
          /\ Grown(inode[e], n)
          /\ n.ents = [(IF d = e THEN m ELSE inode[e]).ents EXCEPT ![new] = i]
          /\ (Blocks(n.data) \ Blocks(inode[e].data)) \cap taken = {}
          /\ v.taken = taken \cup Blocks(n.data)
          /\ inode' = [[inode EXCEPT ![d] = m] EXCEPT ![e] = n]
      BY <1>10, <1>11, <2>1, <2>2, <2>4
    <2>6. Moved(d, e, i, m, n, v, old, new)
      BY <1>2, <1>6, <2>1, <2>3, <2>5 DEF Moved, Moving
    <2>7. e = LookupParent(q, c)
      BY DEF e
    <2> QED
      BY <1>3, <1>5, <1>6, <2>6, <2>7
  <1>13. CASE ~ins.ok
    <2>1. dir2 = IF d = e THEN ins.dir ELSE m
      BY <1>7
    <2>2. /\ dir2 \in Inode /\ StreamOk(dir2.data) /\ Blocks(dir2.data) \subseteq ins.v.taken
          /\ Grown(inode[d], dir2) /\ dir2.ents = m.ents
          /\ (Blocks(dir2.data) \ Blocks(inode[d].data)) \cap taken = {}
      <3>1. CASE d = e
        <4>1. dir2 = ins.dir /\ ins.dir.ents = m.ents
          BY <1>8, <1>10, <1>13, <2>1, <3>1
        <4>2. StreamOk(ins.dir.data) /\ Blocks(ins.dir.data) \subseteq ins.v.taken
          BY <1>10 DEF Grown
        <4> QED
          BY <1>8, <1>10, <1>11, <3>1, <4>1, <4>2
      <3>2. CASE d # e
        <4>1. dir2 = m
          BY <2>1, <3>2
        <4>2. StreamOk(m.data) /\ Blocks(m.data) \subseteq ins.v.taken
          BY <1>4, <1>6, <1>10
        <4> QED
          BY <1>6, <4>1, <4>2
      <3> QED
        BY <3>1, <3>2
    <2> HIDE DEF dir2
    <2>3. /\ back.ok \in BOOLEAN /\ back.v \in Volume /\ back.dir \in Inode
          /\ Grown(dir2, back.dir)
          /\ (Blocks(back.dir.data) \ Blocks(dir2.data)) \cap ins.v.taken = {}
          /\ back.v.taken = ins.v.taken \cup Blocks(back.dir.data)
          /\ \A b \in ins.v.taken : back.v.disk[b] = ins.v.disk[b]
          /\ back.dir.ents = IF back.ok THEN [dir2.ents EXCEPT ![old] = i] ELSE dir2.ents
      <3>1. PICK v2 \in Volume : v2 = ins.v
        BY <1>10
      <3>2. back = DirhashInsert(v2, dir2, old, i) /\ Blocks(dir2.data) \subseteq v2.taken
        BY <2>2, <3>1
      <3> HIDE DEF back
      <3> QED
        BY <1>5, <2>2, <3>1, <3>2, InsertFacts
    <2> HIDE DEF back
    <2>4. /\ taken' = back.v.taken /\ disk' = back.v.disk
          /\ inode' = [inode EXCEPT ![d] = back.dir]
          /\ hist' = [hist EXCEPT !.full = TRUE, !.lost = IF back.ok THEN @ ELSE @ \cup {i}]
      BY <1>2, <1>13 DEF back
    <2>5. Grown(inode[d], back.dir)
      BY <1>4, <2>2, <2>3, GrownTwice
    <2>6. PICK n \in Inode, v \in Volume : n = back.dir /\ v = back.v
      BY <2>3
    <2>7. /\ taken \subseteq v.taken /\ \A b \in taken : v.disk[b] = disk[b]
          /\ Blocks(n.data) \subseteq v.taken
          /\ (Blocks(n.data) \ Blocks(inode[d].data)) \cap taken = {}
      BY <1>10, <2>2, <2>3, <2>6
    <2>8. inode[d].ents[old] = i
      BY DEF i
    <2>9. \/ n.ents = inode[d].ents /\ hist' = [hist EXCEPT !.full = TRUE]
          \/ n.ents = m.ents /\ hist' = [hist EXCEPT !.full = TRUE, !.lost = @ \cup {i}]
      <3>1. inode[d].ents \in [Name -> Ino \cup {None}] /\ hist \in History
        BY <1>1, <1>4 DEF Inode, TypeInv
      <3>2. CASE back.ok
        <4>1. n.ents = [[inode[d].ents EXCEPT ![old] = None] EXCEPT ![old] = inode[d].ents[old]]
          BY <1>6, <2>2, <2>3, <2>6, <2>8, <3>2
        <4>2. n.ents = inode[d].ents
          BY <3>1, <4>1
        <4>3. hist' = [hist EXCEPT !.full = TRUE]
          BY <2>4, <3>1, <3>2 DEF History
        <4> QED
          BY <4>2, <4>3
      <3>3. CASE ~back.ok
        BY <2>2, <2>3, <2>4, <2>6, <3>3
      <3> QED
        BY <3>2, <3>3
    <2>10. Grown(inode[d], n) /\ taken' = v.taken /\ disk' = v.disk /\ inode' = [inode EXCEPT ![d] = n]
      BY <2>4, <2>5, <2>6
    <2>11. NotMoved(d, e, i, m, n, v, old, new)
      BY <1>2, <1>6, <2>7, <2>8, <2>9, <2>10 DEF NotMoved, Moving
    <2>12. e = LookupParent(q, c)
      BY DEF e
    <2> QED
      BY <1>3, <1>5, <1>6, <2>11, <2>12
  <1> QED
    BY <1>12, <1>13

\* nyfs_op_rename when the new name fits.
LEMMA MovedStep ==
    ASSUME Inv, NEW d \in Used, NEW e \in Used, NEW i \in Used \ {Root},
           NEW m \in Inode, NEW n \in Inode, NEW v \in Volume, NEW old \in Name, NEW new \in Name,
           Moved(d, e, i, m, n, v, old, new)
    PROVE  Inv'
  <1>1. TypeInv /\ BlockInv /\ NameInv /\ ReadInv /\ AclInv
    BY DEF Inv
  <1>2. d \in Ino /\ e \in Ino /\ i \in Ino /\ inode \in [Ino -> Inode] /\ None \notin Ino
    BY <1>1 DEF TypeInv, Used, Ino, None
  <1>3. /\ taken' = v.taken /\ disk' = v.disk /\ hist' = hist
        /\ inode' = [[inode EXCEPT ![d] = m] EXCEPT ![e] = n]
        /\ Grown(inode[d], m) /\ m.data = inode[d].data /\ Grown(inode[e], n)
        /\ (Blocks(n.data) \ Blocks(inode[e].data)) \cap taken = {}
        /\ taken' = taken \cup Blocks(n.data) /\ \A b \in taken : disk'[b] = disk[b]
    BY DEF Moved, Moving
  <1>4. /\ inode' \in [Ino -> Inode] /\ inode'[e] = n /\ (d # e => inode'[d] = m)
        /\ \A j \in Ino \ {d, e} : inode'[j] = inode[j]
    BY <1>2, <1>3
  <1>5. \A j \in Ino : Grown(inode[j], inode'[j])
    <2>1. \A j \in Ino : Grown(inode[j], inode[j])
      BY <1>1, StreamsTaken, GrownSelf
    <2> QED
      BY <1>2, <1>3, <1>4, <2>1
  <1>6. \A j \in Ino : inode'[j].type = inode[j].type
    BY <1>5 DEF Grown
  <1>7. TypeInv'
    <2>1. \A j \in Ino : inode'[j].type = "NONE" => inode'[j] = NoInode
      <3> SUFFICES ASSUME NEW j \in Ino, inode'[j].type = "NONE" PROVE inode'[j] = NoInode
        OBVIOUS
      <3>1. j # d /\ j # e
        BY <1>6 DEF Used
      <3> QED
        BY <1>1, <1>4, <1>6, <3>1 DEF TypeInv
    <2> QED
      BY <1>1, <1>3, <1>4, <2>1 DEF TypeInv, Volume
  <1>8. BlockInv' /\ ReadInv' /\ AclInv'
    <2>1. \A j \in Ino \ {e} : inode'[j].data = inode[j].data
      BY <1>3, <1>4
    <2>2. /\ (Blocks(inode'[e].data) \ Blocks(inode[e].data)) \cap taken = {}
          /\ Blocks(inode'[e].data) \subseteq taken' /\ taken \subseteq taken'
          /\ taken' = taken \cup Blocks(inode'[e].data)
      BY <1>3, <1>4
    <2> QED
      BY <1>1, <1>2, <1>3, <1>4, <1>5, <2>1, <2>2, GrowKeeps
  <1> DEFINE E(j, k) == inode[j].ents[k]
             F(j, k) == inode'[j].ents[k]
  <1>9. E(d, old) = i /\ E(e, new) = None /\ IsDir(d) /\ IsDir(e) /\ i # None
    BY <1>2 DEF Moved, Moving
  <1>10. F(d, old) = None /\ F(e, new) = i
         /\ \A j \in Ino, k \in Name : (j # d \/ k # old) /\ (j # e \/ k # new) => F(j, k) = E(j, k)
    <2>1. inode[d].ents \in [Name -> Ino \cup {None}] /\ inode[e].ents \in [Name -> Ino \cup {None}]
      BY <1>2 DEF Inode
    <2>2. m.ents = [inode[d].ents EXCEPT ![old] = None]
          /\ n.ents = [(IF d = e THEN m ELSE inode[e]).ents EXCEPT ![new] = i]
      BY DEF Moved, Moving
    <2>3. m.ents \in [Name -> Ino \cup {None}] /\ m.ents[old] = None
          /\ \A k \in Name \ {old} : m.ents[k] = inode[d].ents[k]
      BY <2>1, <2>2
    <2>4. CASE d = e
      <3>1. n.ents = [m.ents EXCEPT ![new] = i]
        BY <2>2, <2>4
      <3>2. n.ents[new] = i /\ \A k \in Name \ {new} : n.ents[k] = m.ents[k]
        BY <2>3, <3>1
      <3>3. old # new
        BY <1>9, <2>4
      <3> QED
        BY <1>4, <2>3, <2>4, <3>2, <3>3
    <2>5. CASE d # e
      <3>1. n.ents = [inode[e].ents EXCEPT ![new] = i]
        BY <2>2, <2>5
      <3>2. n.ents[new] = i /\ \A k \in Name \ {new} : n.ents[k] = inode[e].ents[k]
        BY <2>1, <3>1
      <3> QED
        BY <1>4, <2>3, <2>5, <3>2
    <2> QED
      BY <2>4, <2>5
  <1>11. /\ \A j \in Ino : IsDir(j)' <=> IsDir(j)
         /\ Used' = Used
    BY <1>6 DEF IsDir, Used
  <1>12. NameInv'
    <2>0. Root \in Ino
      BY SizeAssumption DEF Root, Ino
    <2>1. /\ \A j \in Ino, k \in Name : E(j, k) # None => IsDir(j) /\ E(j, k) \in Used \ {Root}
          /\ \A j, l \in Ino, k, h \in Name : E(j, k) # None /\ E(j, k) = E(l, h) => j = l /\ k = h
          /\ \A j \in Used \ (hist.lost \cup {Root}) : \E l \in Ino, k \in Name : E(l, k) = j
          /\ IsDir(Root)
      BY <1>1 DEF NameInv
    <2> HIDE DEF E, F
    <2>2. \A j \in Ino, k \in Name : F(j, k) = i => j = e /\ k = new
      BY <1>2, <1>9, <1>10, <2>1
    <2>3. \A j \in Ino, k \in Name : F(j, k) # None => IsDir(j) /\ F(j, k) \in Used \ {Root}
      BY <1>2, <1>9, <1>10, <2>1
    <2>4. ASSUME NEW j \in Ino, NEW l \in Ino, NEW k \in Name, NEW h \in Name,
                 F(j, k) # None, F(j, k) = F(l, h)
          PROVE  j = l /\ k = h
      <3>1. CASE F(j, k) = i
        <4>1. F(l, h) = i
          BY <2>4, <3>1
        <4>2. (j = e /\ k = new) /\ (l = e /\ h = new)
          BY <2>2, <3>1, <4>1
        <4> QED
          BY <4>2
      <3>2. CASE F(j, k) # i
        <4>1. F(j, k) = E(j, k) /\ F(l, h) = E(l, h)
          BY <1>10, <2>4, <3>2
        <4>2. E(j, k) # None /\ E(j, k) = E(l, h)
          BY <2>4, <4>1
        <4> QED
          BY <2>1, <4>2
      <3> QED
        BY <3>1, <3>2
    <2>5. ASSUME NEW j \in Used \ (hist.lost \cup {Root})
          PROVE  \E l \in Ino, k \in Name : F(l, k) = j
      <3>1. CASE j = i
        BY <1>2, <1>10, <3>1
      <3>2. CASE j # i
        <4>1. PICK l \in Ino, k \in Name : E(l, k) = j
          BY <2>1
        <4>2. j # None
          BY <1>2 DEF Used
        <4>3. F(l, k) = j
          BY <1>9, <1>10, <3>2, <4>1, <4>2
        <4> QED
          BY <4>3
      <3> QED
        BY <3>1, <3>2
    <2>6. hist'.lost = hist.lost
      BY <1>3
    <2>7. \A j \in Used' \ (hist'.lost \cup {Root}) : \E l \in Ino, k \in Name : F(l, k) = j
      BY <1>11, <2>5, <2>6
    <2> QED
      BY <1>11, <2>0, <2>1, <2>3, <2>4, <2>7 DEF NameInv, F
  <1> QED
    BY <1>7, <1>8, <1>12 DEF Inv

\* nyfs_op_rename when the disk is full.
LEMMA NotMovedStep ==
    ASSUME Inv, NEW d \in Used, NEW e \in Used, NEW i \in Used \ {Root},
           NEW m \in Inode, NEW n \in Inode, NEW v \in Volume, NEW old \in Name, NEW new \in Name,
           NotMoved(d, e, i, m, n, v, old, new)
    PROVE  Inv'
  <1>1. TypeInv /\ BlockInv /\ NameInv /\ ReadInv /\ AclInv
    BY DEF Inv
  <1>2. d \in Ino /\ i \in Ino /\ inode \in [Ino -> Inode] /\ None \notin Ino /\ hist \in History
    BY <1>1 DEF TypeInv, Used, Ino, None
  <1>3. /\ taken' = v.taken /\ disk' = v.disk
        /\ inode' = [inode EXCEPT ![d] = n]
        /\ Grown(inode[d], n)
        /\ (Blocks(n.data) \ Blocks(inode[d].data)) \cap taken = {}
        /\ Blocks(n.data) \subseteq taken' /\ taken \subseteq taken'
        /\ \A b \in taken : disk'[b] = disk[b]
        /\ \/ n.ents = inode[d].ents /\ hist' = [hist EXCEPT !.full = TRUE]
           \/ n.ents = m.ents /\ hist' = [hist EXCEPT !.full = TRUE, !.lost = @ \cup {i}]
    BY DEF NotMoved, Moving
  <1>4. /\ inode' \in [Ino -> Inode] /\ inode'[d] = n
        /\ \A j \in Ino \ {d} : inode'[j] = inode[j]
    BY <1>2, <1>3
  <1>5. \A j \in Ino : Grown(inode[j], inode'[j])
    <2>1. \A j \in Ino : Grown(inode[j], inode[j])
      BY <1>1, StreamsTaken, GrownSelf
    <2> QED
      BY <1>2, <1>3, <1>4, <2>1
  <1>6. \A j \in Ino : inode'[j].type = inode[j].type
    BY <1>5 DEF Grown
  <1>7. /\ hist' \in History
        /\ hist'.seed = hist.seed /\ hist'.depth = hist.depth /\ hist'.want = hist.want
        /\ hist'.gone = hist.gone /\ hist'.full
        /\ hist.lost \subseteq hist'.lost /\ hist'.lost \subseteq hist.lost \cup {i}
        /\ n.ents = inode[d].ents \/ (n.ents = m.ents /\ i \in hist'.lost)
    <2>1. CASE n.ents = inode[d].ents /\ hist' = [hist EXCEPT !.full = TRUE]
      BY <1>1, <2>1, FullHistory
    <2>2. CASE n.ents = m.ents /\ hist' = [hist EXCEPT !.full = TRUE, !.lost = @ \cup {i}]
      <3>1. hist.lost \cup {i} \in SUBSET Ino
        BY <1>2 DEF History
      <3> DEFINE L == hist.lost \cup {i}
      <3>2. hist' = [[hist EXCEPT !.full = TRUE] EXCEPT !.lost = L]
        BY <1>2, <2>2 DEF History
      <3>3. L \in SUBSET Ino /\ L = hist.lost \cup {i}
        BY <3>1
      <3> HIDE DEF L
      <3> QED
        BY <1>2, <2>2, <3>2, <3>3 DEF History
    <2> QED
      BY <1>3, <2>1, <2>2
  <1>8. TypeInv'
    <2>1. \A j \in Ino : inode'[j].type = "NONE" => inode'[j] = NoInode
      <3> SUFFICES ASSUME NEW j \in Ino, inode'[j].type = "NONE" PROVE inode'[j] = NoInode
        OBVIOUS
      <3>1. j # d
        BY <1>6 DEF Used
      <3> QED
        BY <1>1, <1>4, <1>6, <3>1 DEF TypeInv
    <2> QED
      BY <1>3, <1>4, <1>7, <2>1 DEF TypeInv, Volume
  <1>9. BlockInv' /\ ReadInv' /\ AclInv'
    <2>1. \A j \in Ino \ {d} : inode'[j].data = inode[j].data
      BY <1>4
    <2>2. /\ (Blocks(inode'[d].data) \ Blocks(inode[d].data)) \cap taken = {}
          /\ Blocks(inode'[d].data) \subseteq taken'
      BY <1>3, <1>4
    <2> QED
      BY <1>1, <1>2, <1>3, <1>4, <1>5, <1>7, <2>1, <2>2, GrowKeeps
  <1>10. NameInv'
    <2>1. CASE n.ents = inode[d].ents
      <3>1. \A j \in Ino : inode'[j].type = inode[j].type /\ inode'[j].ents = inode[j].ents
        BY <1>4, <1>6, <2>1
      <3> QED
        BY <1>1, <1>7, <3>1, NamesKept
    <2>2. CASE n.ents = m.ents /\ i \in hist'.lost
      <3> DEFINE E(j, k) == inode[j].ents[k]
                 F(j, k) == inode'[j].ents[k]
      <3>1. E(d, old) = i
        BY DEF NotMoved, Moving
      <3>2. F(d, old) = None /\ \A j \in Ino, k \in Name : j # d \/ k # old => F(j, k) = E(j, k)
        <4>1. inode[d].ents \in [Name -> Ino \cup {None}]
          BY <1>2 DEF Inode
        <4>2. n.ents = [inode[d].ents EXCEPT ![old] = None]
          BY <2>2 DEF NotMoved, Moving
        <4>3. n.ents[old] = None /\ \A k \in Name \ {old} : n.ents[k] = inode[d].ents[k]
          BY <4>1, <4>2
        <4> QED
          BY <1>4, <4>3
      <3>3. /\ \A j \in Ino, k \in Name : E(j, k) # None => IsDir(j) /\ E(j, k) \in Used \ {Root}
            /\ \A j, l \in Ino, k, h \in Name : E(j, k) # None /\ E(j, k) = E(l, h) => j = l /\ k = h
            /\ \A j \in Used \ (hist.lost \cup {Root}) : \E l \in Ino, k \in Name : E(l, k) = j
            /\ IsDir(Root)
        BY <1>1 DEF NameInv
      <3> HIDE DEF E, F
      <3>4. \A j \in Ino, k \in Name : F(j, k) # None => F(j, k) = E(j, k)
        BY <3>2
      <3>5. \A j \in Ino, k \in Name : F(j, k) # None => IsDir(j) /\ F(j, k) \in Used \ {Root}
        BY <3>3, <3>4
      <3>6. ASSUME NEW j \in Ino, NEW l \in Ino, NEW k \in Name, NEW h \in Name,
                   F(j, k) # None, F(j, k) = F(l, h)
            PROVE  j = l /\ k = h
        <4>1. E(j, k) # None /\ E(j, k) = E(l, h)
          BY <3>4, <3>6
        <4> QED
          BY <3>3, <4>1
      <3>7. ASSUME NEW j \in Used \ (hist'.lost \cup {Root})
            PROVE  \E l \in Ino, k \in Name : F(l, k) = j
        <4>1. j # i /\ j \in Used \ (hist.lost \cup {Root})
          BY <1>7, <2>2, <3>7
        <4>2. PICK l \in Ino, k \in Name : E(l, k) = j
          BY <3>3, <4>1
        <4>3. F(l, k) = j
          BY <3>1, <3>2, <4>1, <4>2
        <4> QED
          BY <4>3
      <3>8. Used' = Used /\ \A j \in Ino : IsDir(j)' <=> IsDir(j)
        BY <1>6 DEF IsDir, Used
      <3>9. Root \in Ino
        BY SizeAssumption DEF Root, Ino
      <3> QED
        BY <3>3, <3>5, <3>6, <3>7, <3>8, <3>9 DEF NameInv, F
    <2> QED
      BY <1>7, <2>1, <2>2
  <1> QED
    BY <1>8, <1>9, <1>10 DEF Inv

\* nyfs_op_create and nyfs_op_mkdir have made the inode i in the directory d, with the
\* records n and m, and left the volume v.
Made(type, name, d, i, m, n, v) ==
    /\ taken' = v.taken /\ disk' = v.disk
    /\ inode' = [[inode EXCEPT ![d] = m] EXCEPT ![i] = n]
    /\ hist' = [hist EXCEPT !.depth[i] = hist.depth[d] + 1, !.want[i] = <<>>]
    /\ IsDir(d) /\ inode[d].ents[name] = None
    /\ n.type = type /\ n.size = 0 /\ \A k \in Name : n.ents[k] = None
    /\ StreamOk(n.data) /\ n.over \notin Blocks(n.data) /\ Holds(n) \cap taken = {}
    /\ Grown(inode[d], m) /\ m.ents = [inode[d].ents EXCEPT ![name] = i]
    /\ (Blocks(m.data) \ Blocks(inode[d].data)) \cap (taken \cup Holds(n)) = {}
    /\ v.taken = taken \cup Holds(n) \cup Blocks(m.data)
    /\ \A b \in taken : v.disk[b] = disk[b]
    /\ n.over # None => n.overCount <= Len(v.disk[n.over].aces)
    /\ ToSet(ListOf(n, v)) = ToSet(Inherited(d, type))

\* The call meets a full disk or makes an inode.
LEMMA MakeFacts ==
    ASSUME Inv, NEW c \in Cred, NEW type \in {"FILE", "DIR"}, NEW p \in Dirs, NEW name \in Name,
           NEW mode \in Mode, Make(c, type, p, name, mode)
    PROVE  \/ \E v \in Volume : /\ taken \subseteq v.taken /\ \A b \in taken : v.disk[b] = disk[b]
                                /\ DiskFull(v)
           \/ \E d \in Used, i \in Ino \ Used, m \in Inode, n \in Inode, v \in Volume :
                d = LookupParent(p, c) /\ Made(type, name, d, i, m, n, v)
  <1>1. TypeInv /\ BlockInv /\ NameInv /\ AclInv
    BY DEF Inv
  <1> DEFINE d    == LookupParent(p, c)
             i    == Least(Ino \ Used)
             new  == [NoInode EXCEPT !.type = type, !.uid = c.uid, !.gid = c.gid, !.mode = mode]
             acl  == InheritAcl(Vol, d, new)
             body == IF type = "DIR" THEN DirhashCreate(acl.v, acl.child)
                     ELSE [ok |-> TRUE, v |-> acl.v, n |-> acl.child]
             ins  == DirhashInsert(body.v, inode[d], name, i)
  <1>2. /\ d # None /\ IsDir(d) /\ inode[d].ents[name] = None /\ Used # Ino
        /\ \/ /\ ~acl.ok
              /\ DiskFull(acl.v)
           \/ /\ acl.ok /\ ~body.ok
              /\ DiskFull(body.v)
           \/ /\ acl.ok /\ body.ok /\ ~ins.ok
              /\ DiskFull(ins.v)
           \/ /\ acl.ok /\ body.ok /\ ins.ok
              /\ taken' = ins.v.taken
              /\ disk' = ins.v.disk
              /\ inode' = [inode EXCEPT ![d] = ins.dir, ![i] = body.n]
              /\ hist' = [hist EXCEPT !.depth[i] = hist.depth[d] + 1, !.want[i] = <<>>]
    BY DEF Make
  <1>3. d \in Used
    BY <1>1, <1>2, ParentType
  <1>4. i \in Ino \ Used
    <2>1. Used \subseteq Ino /\ Ino \in SUBSET Nat
      BY SizeAssumption DEF Used, Ino
    <2> QED
      BY <1>2, <2>1, LeastIn
  <1> HIDE DEF d, i
  <1>5. /\ d \in Ino /\ inode[d] \in Inode /\ i \in Ino
        /\ StreamOk(inode[d].data) /\ Blocks(inode[d].data) \subseteq taken
        /\ Vol \in Volume /\ Vol.taken = taken /\ Vol.disk = disk
    BY <1>1, <1>3, <1>4, StreamsTaken DEF Used
  <1>6. /\ new \in Inode /\ new.type = type /\ new.over = None /\ new.data = NoStream
        /\ new.size = 0 /\ \A k \in Name : new.ents[k] = None
    <2>1. c.uid \in Nat /\ c.gid \in Nat /\ mode \in SUBSET ModeBit
      BY CredAssumption
    <2>2. NoInode.size = 0 /\ NoInode.data = NoStream
      BY DEF NoInode
    <2> QED
      BY <2>1, <2>2, NoInodeFacts DEF Inode
  <1> HIDE DEF new
  <1>7. /\ acl.ok \in BOOLEAN /\ acl.v \in Volume /\ acl.child \in Inode
        /\ ~acl.ok => acl.v = Vol
        /\ \A b \in taken : acl.v.disk[b] = disk[b]
        /\ acl.child.type = type /\ acl.child.data = NoStream
        /\ acl.child.size = 0 /\ acl.child.ents = new.ents
        /\ acl.ok => /\ acl.v.taken = taken \cup ({acl.child.over} \ {None})
                     /\ acl.child.over \notin taken
                     /\ acl.child.over # None =>
                          acl.child.overCount <= Len(acl.v.disk[acl.child.over].aces)
                     /\ ToSet(ListOf(acl.child, acl.v)) = ToSet(Inherited(d, type))
    BY <1>1, <1>3, <1>5, <1>6, InheritFacts
  <1> HIDE DEF acl
  <1>8. PICK u \in Volume, a \in Inode : u = acl.v /\ a = acl.child
    BY <1>7
  <1>9. taken \subseteq u.taken
    BY <1>5, <1>7, <1>8
  <1>10. /\ body.ok \in BOOLEAN /\ body.v \in Volume /\ body.n \in Inode
         /\ body.n.type = type /\ body.n.over = a.over /\ body.n.ace = a.ace
         /\ body.n.overCount = a.overCount /\ body.n.size = 0 /\ body.n.ents = a.ents
         /\ StreamOk(body.n.data) /\ Blocks(body.n.data) \cap u.taken = {}
         /\ body.v.taken = u.taken \cup Blocks(body.n.data)
         /\ \A b \in u.taken : body.v.disk[b] = u.disk[b]
    <2>0. Blocks(NoStream) = {} /\ StreamOk(NoStream) /\ NoStream \in Stream
      <3>1. NoInode.data = NoStream
        BY DEF NoInode
      <3> QED
        BY <3>1, NoInodeFacts, BlksType
    <2>1. CASE type = "DIR"
      <3> DEFINE need == DirBlocks(0)
                 x == Extend(u, NoStream, need)
                 n == [a EXCEPT !.data = x.s]
      <3>1. need \in Nat
        <4>1. PICK R \in Nat \ {0} : R = RecsPerBlock
          BY SizeAssumption
        <4>2. PICK z \in Nat : z = 1 + 0 + RecsPerBlock - 1
          BY <4>1
        <4>3. z \div R \in Nat
          BY DivFacts
        <4> QED
          BY <4>1, <4>2, <4>3 DEF DirBlocks
      <3> HIDE DEF need
      <3>2. /\ x.ok \in BOOLEAN /\ x.s \in Stream /\ x.v \in Volume /\ StreamOk(x.s)
            /\ Blocks(x.s) \cap u.taken = {} /\ x.v.taken = u.taken \cup Blocks(x.s)
            /\ \A b \in u.taken : x.v.disk[b] = u.disk[b]
        <4>1. Blocks(NoStream) \subseteq u.taken
          BY <2>0
        <4>2. /\ x.ok \in BOOLEAN /\ x.s \in Stream /\ x.v \in Volume /\ StreamOk(x.s)
              /\ (Blocks(x.s) \ Blocks(NoStream)) \cap u.taken = {}
              /\ x.v.taken = u.taken \cup Blocks(x.s)
              /\ \A b \in u.taken : x.v.disk[b] = u.disk[b]
          BY <2>0, <3>1, <4>1, ExtendFacts
        <4> HIDE DEF x
        <4> QED
          BY <2>0, <4>2
      <3>3. body = [ok |-> x.ok, v |-> x.v, n |-> n]
        BY <1>8, <2>1 DEF DirhashCreate, need
      <3> HIDE DEF x
      <3>4. n \in Inode /\ n.type = a.type /\ n.over = a.over /\ n.ace = a.ace
            /\ n.overCount = a.overCount /\ n.size = a.size /\ n.ents = a.ents /\ n.data = x.s
        BY <3>2 DEF Inode
      <3> HIDE DEF n, body
      <3>5. body.ok = x.ok /\ body.v = x.v /\ body.n = n
        BY <3>3
      <3> QED
        BY <1>7, <1>8, <3>2, <3>4, <3>5
    <2>2. CASE type = "FILE"
      <3>1. body.ok = TRUE /\ body.v = u /\ body.n = a
        BY <1>8, <2>2
      <3> HIDE DEF body
      <3> QED
        BY <1>7, <1>8, <2>0, <3>1
    <2> QED
      BY <2>1, <2>2
  <1> HIDE DEF body
  <1>11. PICK w \in Volume, n \in Inode : w = body.v /\ n = body.n
    BY <1>10
  <1>12. u.taken \subseteq w.taken /\ taken \subseteq w.taken /\ \A b \in taken : w.disk[b] = disk[b]
    BY <1>7, <1>8, <1>9, <1>10, <1>11
  <1>13. /\ ins.ok \in BOOLEAN /\ ins.v \in Volume /\ ins.dir \in Inode
         /\ Grown(inode[d], ins.dir)
         /\ (Blocks(ins.dir.data) \ Blocks(inode[d].data)) \cap w.taken = {}
         /\ ins.v.taken = w.taken \cup Blocks(ins.dir.data)
         /\ \A b \in w.taken : ins.v.disk[b] = w.disk[b]
         /\ ins.dir.ents = IF ins.ok THEN [inode[d].ents EXCEPT ![name] = i] ELSE inode[d].ents
    <2>1. ins = DirhashInsert(w, inode[d], name, i) /\ Blocks(inode[d].data) \subseteq w.taken
      BY <1>5, <1>11, <1>12
    <2> HIDE DEF ins
    <2> QED
      BY <1>5, <2>1, InsertFacts
  <1> HIDE DEF ins
  <1>14. PICK v \in Volume, m \in Inode : v = ins.v /\ m = ins.dir
    BY <1>13
  <1>15. taken \subseteq v.taken /\ \A b \in taken : v.disk[b] = disk[b]
    BY <1>12, <1>13, <1>14
  <1>16. CASE ~acl.ok /\ DiskFull(acl.v)
    BY <1>7, <1>8, <1>9, <1>16
  <1>17. CASE acl.ok /\ ~body.ok /\ DiskFull(body.v)
    BY <1>11, <1>12, <1>17
  <1>18. CASE acl.ok /\ body.ok /\ ~ins.ok /\ DiskFull(ins.v)
    BY <1>14, <1>15, <1>18
  <1>19. CASE /\ acl.ok /\ body.ok /\ ins.ok
              /\ taken' = ins.v.taken
              /\ disk' = ins.v.disk
              /\ inode' = [inode EXCEPT ![d] = ins.dir, ![i] = body.n]
              /\ hist' = [hist EXCEPT !.depth[i] = hist.depth[d] + 1, !.want[i] = <<>>]
    <2>1. /\ taken' = v.taken /\ disk' = v.disk
          /\ inode' = [[inode EXCEPT ![d] = m] EXCEPT ![i] = n]
          /\ hist' = [hist EXCEPT !.depth[i] = hist.depth[d] + 1, !.want[i] = <<>>]
      BY <1>11, <1>14, <1>19
    <2>2. /\ n.type = type /\ n.size = 0 /\ StreamOk(n.data)
          /\ n.over = a.over /\ n.overCount = a.overCount /\ n.ace = a.ace
      BY <1>10, <1>11
    <2>3. \A k \in Name : n.ents[k] = None
      BY <1>6, <1>7, <1>8, <1>10, <1>11
    <2>4. /\ u.taken = taken \cup ({n.over} \ {None}) /\ n.over \notin taken
          /\ Blocks(n.data) \cap u.taken = {} /\ w.taken = u.taken \cup Blocks(n.data)
      BY <1>7, <1>8, <1>10, <1>11, <1>19
    <2>5. None \notin Blocks(n.data)
      BY BlocksType
    <2>6. /\ n.over \notin Blocks(n.data) /\ Holds(n) \cap taken = {}
          /\ w.taken = taken \cup Holds(n)
      BY <2>4, <2>5 DEF Holds
    <2>7. /\ Grown(inode[d], m) /\ m.ents = [inode[d].ents EXCEPT ![name] = i]
          /\ (Blocks(m.data) \ Blocks(inode[d].data)) \cap (taken \cup Holds(n)) = {}
          /\ v.taken = taken \cup Holds(n) \cup Blocks(m.data)
      BY <1>13, <1>14, <1>19, <2>6
    <2>8. n.over # None => v.disk[n.over] = u.disk[n.over]
      <3> SUFFICES ASSUME n.over # None PROVE v.disk[n.over] = u.disk[n.over]
        OBVIOUS
      <3>1. n.over \in u.taken /\ n.over \in w.taken
        BY <2>4
      <3>2. w.disk[n.over] = u.disk[n.over]
        BY <1>10, <1>11, <3>1
      <3>3. v.disk[n.over] = w.disk[n.over]
        BY <1>13, <1>14, <3>1
      <3> QED
        BY <3>2, <3>3
    <2>9. ListOf(n, v) = ListOf(a, u)
      BY <2>2, <2>8 DEF ListOf
    <2>10. n.over # None => n.overCount <= Len(v.disk[n.over].aces)
      BY <1>7, <1>8, <1>19, <2>2, <2>8
    <2>11. ToSet(ListOf(n, v)) = ToSet(Inherited(d, type))
      BY <1>7, <1>8, <1>19, <2>9
    <2>12. Made(type, name, d, i, m, n, v)
      BY <1>2, <1>15, <2>1, <2>2, <2>3, <2>6, <2>7, <2>10, <2>11 DEF Made
    <2>13. d = LookupParent(p, c)
      BY DEF d
    <2> QED
      BY <1>3, <1>4, <2>12, <2>13
  <1> QED
    BY <1>2, <1>16, <1>17, <1>18, <1>19

\* nyfs_op_create and nyfs_op_mkdir
LEMMA MadeStep ==
    ASSUME Inv, NEW type \in {"FILE", "DIR"}, NEW name \in Name, NEW d \in Used, NEW i \in Ino \ Used,
           NEW m \in Inode, NEW n \in Inode, NEW v \in Volume, Made(type, name, d, i, m, n, v)
    PROVE  Inv'
  <1>1. TypeInv /\ BlockInv /\ NameInv /\ ReadInv /\ AclInv
    BY DEF Inv
  <1>2. /\ d \in Ino /\ d # i /\ inode \in [Ino -> Inode] /\ None \notin Ino /\ hist \in History
        /\ inode[i] = NoInode /\ inode[d] \in Inode /\ Root \in Used
    <2>1. inode[i] = NoInode
      BY <1>1 DEF TypeInv, Used
    <2>2. Root \in Ino
      BY SizeAssumption DEF Root, Ino
    <2>3. Root \in Used
      BY <1>1, <2>2 DEF NameInv, IsDir, Used
    <2> QED
      BY <1>1, <2>1, <2>3 DEF TypeInv, Used, Ino, None
  <1>3. /\ taken' = v.taken /\ disk' = v.disk /\ taken \subseteq taken'
        /\ inode' = [[inode EXCEPT ![d] = m] EXCEPT ![i] = n]
        /\ Grown(inode[d], m) /\ n.type = type
        /\ \A b \in taken : disk'[b] = disk[b]
    BY DEF Made
  <1>4. /\ inode' \in [Ino -> Inode] /\ inode'[d] = m /\ inode'[i] = n
        /\ \A j \in Ino \ {d, i} : inode'[j] = inode[j]
    BY <1>2, <1>3
  <1>5. /\ hist' \in History /\ hist'.depth[i] = hist.depth[d] + 1 /\ hist'.want[i] = <<>>
        /\ \A j \in Ino \ {i} : hist'.depth[j] = hist.depth[j] /\ hist'.want[j] = hist.want[j]
        /\ hist'.seed = hist.seed /\ hist'.gone = hist.gone
        /\ hist'.lost = hist.lost /\ hist'.full = hist.full
    <2>1. hist.depth \in [Ino -> Nat] /\ hist.want \in [Ino -> Seq(Int)]
      BY <1>2 DEF History
    <2>2. PICK q \in Nat : q = hist.depth[d] + 1
      BY <1>2, <2>1
    <2> DEFINE P == [hist.depth EXCEPT ![i] = q]
               W == [hist.want EXCEPT ![i] = <<>>]
    <2>3. hist' = [[hist EXCEPT !.depth = P] EXCEPT !.want = W]
      BY <1>2, <2>2 DEF Made, History
    <2>4. P \in [Ino -> Nat] /\ P[i] = q /\ \A j \in Ino \ {i} : P[j] = hist.depth[j]
      BY <2>1
    <2>5. W \in [Ino -> Seq(Int)] /\ W[i] = <<>> /\ \A j \in Ino \ {i} : W[j] = hist.want[j]
      <3>1. <<>> \in Seq(Int)
        OBVIOUS
      <3> QED
        BY <2>1, <3>1
    <2> HIDE DEF P, W
    <2>6. /\ hist' \in History /\ hist'.depth = P /\ hist'.want = W
          /\ hist'.seed = hist.seed /\ hist'.gone = hist.gone
          /\ hist'.lost = hist.lost /\ hist'.full = hist.full
      BY <1>2, <2>3, <2>4, <2>5 DEF History
    <2> QED
      BY <2>2, <2>4, <2>5, <2>6
  <1>6. \A j \in Ino \ {i} : Grown(inode[j], inode'[j])
    <2>1. \A j \in Ino : Grown(inode[j], inode[j])
      BY <1>1, StreamsTaken, GrownSelf
    <2> QED
      BY <1>3, <1>4, <2>1
  <1>7. \A j \in Ino \ {i} : inode'[j].type = inode[j].type
    BY <1>6 DEF Grown
  <1>8. Used' = Used \cup {i} /\ \A j \in Ino \ {i} : IsDir(j)' <=> IsDir(j)
    BY <1>3, <1>4, <1>7 DEF Used, IsDir
  <1>9. TypeInv'
    <2>1. \A j \in Ino : inode'[j].type = "NONE" => inode'[j] = NoInode
      <3> SUFFICES ASSUME NEW j \in Ino, inode'[j].type = "NONE" PROVE inode'[j] = NoInode
        OBVIOUS
      <3>1. j # i
        BY <1>3, <1>4
      <3>2. j # d
        BY <1>7, <3>1 DEF Used
      <3> QED
        BY <1>1, <1>4, <1>7, <3>1, <3>2 DEF TypeInv
    <2> QED
      BY <1>3, <1>4, <1>5, <2>1 DEF TypeInv, Volume
  <1>10. /\ StreamOk(n.data) /\ n.over \notin Blocks(n.data) /\ Holds(n) \cap taken = {}
         /\ (Blocks(m.data) \ Blocks(inode[d].data)) \cap (taken \cup Holds(n)) = {}
         /\ taken' = taken \cup Holds(n) \cup Blocks(m.data)
    BY DEF Made
  <1>11. BlockInv'
    <2> DEFINE new == Blocks(m.data) \ Blocks(inode[d].data)
               X   == Holds(n)
               N   == [j \in Ino |-> IF j = i THEN X ELSE IF j = d THEN new ELSE {}]
    <2>1. new \in SUBSET Block /\ X \in SUBSET Block
      BY BlocksType
    <2>2. /\ Blocks(inode[d].data) \subseteq taken /\ Holds(inode[d]) \subseteq taken
          /\ \A j \in Ino : inode[j].over \notin Blocks(inode[j].data)
      BY <1>1, <1>2, StreamsTaken DEF BlockInv
    <2>3. Blocks(m.data) = Blocks(inode[d].data) \cup new
      BY <1>3 DEF Grown, Longer
    <2>4. new \cap taken = {} /\ new \cap X = {} /\ X \cap taken = {} /\ taken' = taken \cup new \cup X
      BY <1>10, <2>2
    <2> HIDE DEF new, X
    <2>5. N \in [Ino -> SUBSET Block]
      BY <2>1
    <2>6. N[i] = X /\ N[d] = new /\ \A j \in Ino \ {d, i} : N[j] = {}
      BY <1>2
    <2> HIDE DEF N
    <2>7. UNION {N[j] : j \in Ino} = new \cup X
      BY <1>2, <2>6
    <2>8. ASSUME NEW j \in Ino
          PROVE  /\ Holds(inode'[j]) = Holds(inode[j]) \cup N[j]
                 /\ N[j] \cap taken = {} /\ N[j] \subseteq taken'
                 /\ StreamOk(inode'[j].data)
                 /\ inode'[j].over \notin Blocks(inode'[j].data)
      <3>1. CASE j = i
        <4>1. Holds(inode[j]) = {}
          BY <1>2, <3>1, NoInodeFacts
        <4> QED
          BY <1>4, <1>10, <2>4, <2>6, <3>1, <4>1 DEF X
      <3>2. CASE j = d
        <4>1. m.over = inode[d].over /\ StreamOk(m.data)
          BY <1>3 DEF Grown
        <4>2. Holds(m) = Holds(inode[d]) \cup new
          BY <2>3, <4>1 DEF Holds
        <4>3. m.over \notin Blocks(m.data)
          <5>1. None \notin Blocks(m.data)
            BY BlocksType
          <5>2. m.over # None => m.over \in taken
            BY <2>2, <4>1 DEF Holds
          <5> QED
            BY <1>2, <2>2, <2>3, <2>4, <4>1, <5>1, <5>2
        <4> QED
          BY <1>4, <2>4, <2>6, <3>2, <4>1, <4>2, <4>3
      <3>3. CASE j # i /\ j # d
        <4>1. inode'[j] = inode[j] /\ N[j] = {}
          BY <1>4, <2>6, <3>3
        <4> QED
          BY <1>1, <2>2, <4>1, StreamsTaken
      <3> QED
        BY <3>1, <3>2, <3>3
    <2>9. \A j, k \in Ino : j # k => N[j] \cap N[k] = {}
      BY <2>4, <2>6
    <2>10. taken \subseteq taken' /\ taken' = taken \cup UNION {N[j] : j \in Ino}
      BY <2>4, <2>7
    <2> QED
      BY <1>1, <1>5, <2>5, <2>8, <2>9, <2>10, BlocksKept
  <1>12. ReadInv'
    <2> SUFFICES ASSUME NEW j \in Ino
                 PROVE  inode'[j].type = "FILE" =>
                        /\ Len(hist'.want[j]) = inode'[j].size
                        /\ inode'[j].size <= Len(inode'[j].data.blks)
                        /\ \A k \in 1 .. inode'[j].size :
                             hist'.want[j][k] # Hole =>
                               disk'[inode'[j].data.blks[k]].unit = hist'.want[j][k]
      BY DEF ReadInv
    <2>1. CASE j = i
      <3>1. inode'[j].size = 0 /\ hist'.want[j] = <<>>
        BY <1>4, <1>5, <2>1 DEF Made
      <3>2. Len(inode'[j].data.blks) \in Nat
        BY <1>4, BlksType
      <3> QED
        BY <3>1, <3>2
    <2>2. CASE j # i
      <3>1. \A b \in Blocks(inode[j].data) : disk'[b].unit = disk[b].unit
        BY <1>1, <1>3, StreamsTaken
      <3>2. Grown(inode[j], inode'[j]) /\ hist'.want[j] = hist.want[j] /\ inode'[j] \in Inode
        BY <1>4, <1>5, <1>6, <2>2
      <3> QED
        BY <1>1, <3>1, <3>2, FileKept
    <2> QED
      BY <2>1, <2>2
  <1>13. AclInv'
    <2>1. ASSUME NEW j \in Used
          PROVE  /\ inode'[j].over # None => inode'[j].overCount <= Len(disk'[inode'[j].over].aces)
                 /\ hist'.depth[j] = 0 <=> j = Root
                 /\ ToSet(Aces(j)') = Reaching(hist.depth[j], inode[j].type)'
      <3>1. j \in Ino \ {i}
        BY DEF Used
      <3>2. inode'[j].type = inode[j].type /\ inode'[j].ace = inode[j].ace
            /\ inode'[j].over = inode[j].over /\ inode'[j].overCount = inode[j].overCount
        BY <1>6, <3>1 DEF Grown
      <3>3. inode[j].over # None => disk'[inode[j].over] = disk[inode[j].over]
        BY <1>1, <1>3, <3>1, StreamsTaken DEF Holds
      <3> QED
        BY <1>1, <1>5, <3>1, <3>2, <3>3, ListKept
    <2>2. inode'[i].over # None => inode'[i].overCount <= Len(disk'[inode'[i].over].aces)
      BY <1>3, <1>4 DEF Made
    <2>3. hist.depth[d] \in Nat
      BY <1>2 DEF History
    <2>4. hist'.depth[i] # 0 /\ i # Root
      BY <1>2, <1>5, <2>3
    <2>5. Aces(i)' = ListOf(n, v)
      BY <1>3, <1>4 DEF Aces, ListOf
    <2>6. ToSet(ListOf(n, v)) = ToSet(Inherited(d, type))
      BY DEF Made
    <2>7. ToSet(Inherited(d, type)) =
            {Copy(a) : a \in {x \in ToSet(Aces(d)) : InheritFlag(type) \in x.flags}}
      BY <1>1, InheritedFacts
    <2>8. ToSet(Aces(d)) = Reaching(hist.depth[d], "DIR")
      <3>1. inode[d].type = "DIR"
        BY DEF Made, IsDir
      <3> QED
        BY <1>1, <3>1 DEF AclInv
    <2>9. {Copy(a) : a \in {x \in Reaching(hist.depth[d], "DIR") : InheritFlag(type) \in x.flags}}
            = Reaching(hist.depth[d] + 1, type)
      <3>1. hist.seed \in Seq(Ace)
        BY <1>2 DEF History
      <3>2. PICK q \in Nat : q = hist.depth[d]
        BY <2>3
      <3> QED
        BY <3>1, <3>2, ReachingStep
    <2>10. Reaching(hist.depth[i], inode[i].type)' = Reaching(hist.depth[d] + 1, type)
      <3>1. hist'.depth[i] = hist.depth[d] + 1 /\ inode'[i].type = type /\ hist'.seed = hist.seed
        BY <1>3, <1>4, <1>5
      <3> QED
        BY <3>1 DEF Reaching
    <2>11. ToSet(Aces(i)') = Reaching(hist.depth[i], inode[i].type)'
      BY <2>5, <2>6, <2>7, <2>8, <2>9, <2>10
    <2> QED
      BY <1>8, <2>1, <2>2, <2>4, <2>11 DEF AclInv
  <1>14. NameInv'
    <2> DEFINE E(j, k) == inode[j].ents[k]
               F(j, k) == inode'[j].ents[k]
    <2>1. E(d, name) = None /\ F(d, name) = i
          /\ (\A k \in Name : E(i, k) = None /\ F(i, k) = None)
          /\ \A j \in Ino, k \in Name : j # d \/ k # name => F(j, k) = E(j, k)
      <3>1. inode[d].ents \in [Name -> Ino \cup {None}]
        BY <1>2 DEF Inode
      <3>2. m.ents = [inode[d].ents EXCEPT ![name] = i] /\ inode[d].ents[name] = None
            /\ \A k \in Name : n.ents[k] = None
        BY DEF Made
      <3>3. m.ents[name] = i /\ \A k \in Name \ {name} : m.ents[k] = inode[d].ents[k]
        BY <3>1, <3>2
      <3>4. \A k \in Name : E(i, k) = None
        BY <1>2, NoInodeFacts
      <3>5. \A k \in Name : F(i, k) = None
        BY <1>4, <3>2
      <3>6. F(d, name) = i /\ \A k \in Name \ {name} : F(d, k) = E(d, k)
        BY <1>4, <3>3
      <3>7. \A j \in Ino \ {d}, k \in Name : F(j, k) = E(j, k)
        <4> TAKE j \in Ino \ {d}, k \in Name
        <4>1. CASE j = i
          BY <3>4, <3>5, <4>1
        <4>2. CASE j # i
          BY <1>4, <4>2
        <4> QED
          BY <4>1, <4>2
      <3>8. E(d, name) = None
        BY <3>2
      <3> HIDE DEF E, F
      <3> QED
        BY <3>4, <3>5, <3>6, <3>7, <3>8
    <2>2. /\ \A j \in Ino, k \in Name : E(j, k) # None => IsDir(j) /\ E(j, k) \in Used \ {Root}
          /\ \A j, l \in Ino, k, h \in Name : E(j, k) # None /\ E(j, k) = E(l, h) => j = l /\ k = h
          /\ \A j \in Used \ (hist.lost \cup {Root}) : \E l \in Ino, k \in Name : E(l, k) = j
          /\ IsDir(Root)
      BY <1>1 DEF NameInv
    <2>3. IsDir(d)
      BY DEF Made
    <2> HIDE DEF E, F
    <2>4. \A j \in Ino, k \in Name : F(j, k) = i => j = d /\ k = name
      <3> SUFFICES ASSUME NEW j \in Ino, NEW k \in Name, F(j, k) = i, j # d \/ k # name PROVE FALSE
        OBVIOUS
      <3>1. E(j, k) = i /\ i # None
        BY <1>2, <2>1
      <3>2. i \in Used
        BY <2>2, <3>1
      <3> QED
        BY <3>2
    <2>5. \A j \in Ino, k \in Name : F(j, k) # None => IsDir(j)' /\ F(j, k) \in Used' \ {Root}
      <3> SUFFICES ASSUME NEW j \in Ino, NEW k \in Name, F(j, k) # None
                   PROVE  IsDir(j)' /\ F(j, k) \in Used' \ {Root}
        OBVIOUS
      <3>1. j # i
        BY <2>1
      <3>2. IsDir(j) /\ F(j, k) \in (Used \cup {i}) \ {Root}
        BY <1>2, <2>1, <2>2, <2>3
      <3> QED
        BY <1>8, <3>1, <3>2
    <2>6. ASSUME NEW j \in Ino, NEW l \in Ino, NEW k \in Name, NEW h \in Name,
                 F(j, k) # None, F(j, k) = F(l, h)
          PROVE  j = l /\ k = h
      <3>1. CASE F(j, k) = i
        <4>1. F(l, h) = i
          BY <2>6, <3>1
        <4>2. (j = d /\ k = name) /\ (l = d /\ h = name)
          BY <2>4, <3>1, <4>1
        <4> QED
          BY <4>2
      <3>2. CASE F(j, k) # i
        <4>1. F(j, k) = E(j, k) /\ F(l, h) = E(l, h)
          BY <2>1, <2>6, <3>2
        <4>2. E(j, k) # None /\ E(j, k) = E(l, h)
          BY <2>6, <4>1
        <4> QED
          BY <2>2, <4>2
      <3> QED
        BY <3>1, <3>2
    <2>7. ASSUME NEW j \in Used' \ (hist'.lost \cup {Root})
          PROVE  \E l \in Ino, k \in Name : F(l, k) = j
      <3>1. CASE j = i
        BY <1>2, <2>1, <3>1
      <3>2. CASE j # i
        <4>1. j \in Used \ (hist.lost \cup {Root}) /\ j # None
          BY <1>2, <1>5, <1>8, <2>7, <3>2 DEF Used
        <4>2. PICK l \in Ino, k \in Name : E(l, k) = j
          BY <2>2, <4>1
        <4>3. F(l, k) = j
          BY <2>1, <4>1, <4>2
        <4> QED
          BY <4>3
      <3> QED
        BY <3>1, <3>2
    <2>8. IsDir(Root)'
      <3>1. Root \in Ino \ {i}
        BY <1>2 DEF Used
      <3> QED
        BY <1>8, <2>2, <3>1
    <2> QED
      BY <2>5, <2>6, <2>7, <2>8 DEF NameInv, F
  <1> QED
    BY <1>9, <1>11, <1>12, <1>13, <1>14 DEF Inv

(***************************************************************************)
(* The invariant                                                           *)
(***************************************************************************)
\* nyfs_format leaves a volume that satisfies the invariant.
LEMMA InitInv == Init => Inv
  <1> SUFFICES ASSUME Init PROVE Inv
    OBVIOUS
  <1> DEFINE over(s) == Len(s) > Inline
             root(s) == [NoInode EXCEPT
                       !.type = "DIR", !.mode = {"ur", "uw", "ux", "gr", "gx", "or", "ox"},
                       !.data = [ext |-> 2, blks |-> <<1>>],
                       !.ace = IF over(s) THEN SubSeq(s, 1, Inline) ELSE s,
                       !.over = IF over(s) THEN 3 ELSE None,
                       !.overCount = IF over(s) THEN Len(s) - Inline ELSE 0]
  <1>1. PICK s \in Seed :
          /\ taken = IF over(s) THEN 1 .. 3 ELSE 1 .. 2
          /\ disk = [b \in Block |->
                 IF b <= 2 THEN Meta
                 ELSE IF b = 3 /\ over(s) THEN [Zero EXCEPT !.aces = SubSeq(s, Inline + 1, Len(s))]
                 ELSE Zero]
          /\ inode = [i \in Ino |-> IF i = Root THEN root(s) ELSE NoInode]
          /\ hist = [seed |-> s, depth |-> [i \in Ino |-> 0], want |-> [i \in Ino |-> <<>>],
                     gone |-> {}, lost |-> {}, full |-> FALSE, attrs |-> 0]
    BY DEF Init
  <1>2. s \in Seq(Ace) /\ Inline \in Nat /\ NBlocks \in Nat /\ NBlocks >= 3 /\ Root \in Ino
    BY SeedAssumption, SizeAssumption DEF Root, Ino
  <1> DEFINE A == IF over(s) THEN SubSeq(s, 1, Inline) ELSE s
             T == SubSeq(s, Inline + 1, Len(s))
             x == IF over(s) THEN 3 ELSE None
             n == IF over(s) THEN Len(s) - Inline ELSE 0
             D == [ext |-> 2, blks |-> <<1>>]
             r == root(s)
  <1>3. A \in Seq(Ace) /\ T \in Seq(Ace) /\ n \in Nat
        /\ (over(s) => Len(T) = n /\ SubSeq(T, 1, n) = T /\ ToSet(A \o T) = ToSet(s))
    <2>1. CASE over(s)
      <3>1. Inline \in 0 .. Len(s)
        BY <1>2, <2>1
      <3>2. /\ SubSeq(s, 1, Inline) \in Seq(Ace) /\ T \in Seq(Ace)
            /\ Len(T) = Len(s) - Inline /\ SubSeq(T, 1, Len(s) - Inline) = T
            /\ ToSet(SubSeq(s, 1, Inline) \o T) = ToSet(s)
        BY <1>2, <3>1, SplitSet
      <3>3. A = SubSeq(s, 1, Inline) /\ n = Len(s) - Inline /\ n \in Nat
        BY <1>2, <2>1
      <3> QED
        BY <3>2, <3>3
    <2>2. CASE ~over(s)
      <3>1. A = s /\ n = 0
        BY <2>2
      <3>2. T \in Seq(Ace)
        BY <1>2
      <3> QED
        BY <1>2, <2>2, <3>1, <3>2
    <2> QED
      BY <2>1, <2>2
  <1>4. D \in Stream /\ D.ext = 2 /\ D.blks = <<1>>
    <2>1. 2 \in Block /\ <<1>> \in Seq(Block)
      BY <1>2 DEF Block
    <2> QED
      BY <2>1 DEF Stream
  <1>5. x \in Block \cup {None}
    BY <1>2 DEF Block
  <1> DEFINE M == {"ur", "uw", "ux", "gr", "gx", "or", "ox"}
  <1>a. r = [NoInode EXCEPT !.type = "DIR", !.mode = M, !.data = D, !.ace = A, !.over = x,
                            !.overCount = n]
    OBVIOUS
  <1> HIDE DEF A, T, n, D, x, M, r
  <1>6. r = [type |-> "DIR", uid |-> 0, gid |-> 0, mode |-> M, ace |-> A,
             over |-> x, overCount |-> n, data |-> D, size |-> 0,
             ents |-> [k \in Name |-> None], recs |-> 0]
    BY <1>a DEF NoInode
  <1>7. /\ r \in Inode /\ r.type = "DIR" /\ r.ace = A /\ r.over = x /\ r.overCount = n
        /\ r.data = D /\ \A k \in Name : r.ents[k] = None
    <2>1. M \in SUBSET ModeBit
      BY DEF ModeBit, M
    <2>2. [k \in Name |-> None] \in [Name -> Ino \cup {None}]
      OBVIOUS
    <2> QED
      BY <1>3, <1>4, <1>5, <1>6, <2>1, <2>2 DEF Inode
  <1>8. inode[Root] = r /\ \A i \in Ino \ {Root} : inode[i] = NoInode
    BY <1>1, <1>2 DEF r
  <1>9. /\ hist \in History /\ hist.seed = s /\ hist.gone = {} /\ hist.lost = {}
        /\ \A i \in Ino : hist.depth[i] = 0 /\ hist.want[i] = <<>>
    <2>1. [i \in Ino |-> 0] \in [Ino -> Nat] /\ [i \in Ino |-> <<>>] \in [Ino -> Seq(Int)]
      OBVIOUS
    <2> QED
      BY <1>1, <1>2, <2>1 DEF History
  <1>10. disk \in [Block -> Content] /\ (over(s) => disk[3].aces = T)
    <2>1. Zero \in Content /\ Meta \in Content
      BY DEF Zero, Meta, Content
    <2> DEFINE y == [Zero EXCEPT !.aces = SubSeq(s, Inline + 1, Len(s))]
    <2>2. y \in Content /\ y.aces = T
      BY <1>3, <2>1 DEF T, Content
    <2>3. disk = [b \in Block |-> IF b <= 2 THEN Meta ELSE IF b = 3 /\ over(s) THEN y ELSE Zero]
      BY <1>1
    <2> HIDE DEF y, over
    <2>4. 3 \in Block
      BY <1>2 DEF Block
    <2> QED
      BY <2>1, <2>2, <2>3, <2>4
  <1>11. taken \in SUBSET Block /\ {1, 2} \cup ({x} \ {None}) = taken
    BY <1>1, <1>2 DEF Block, None, x
  <1>12. TypeInv
    <2>1. inode \in [Ino -> Inode]
      <3>1. inode = [i \in Ino |-> IF i = Root THEN r ELSE NoInode]
        BY <1>1 DEF r
      <3> QED
        BY <1>7, <3>1, NoInodeFacts
    <2>2. \A i \in Ino : inode[i].type = "NONE" => inode[i] = NoInode
      BY <1>7, <1>8
    <2> QED
      BY <1>9, <1>10, <1>11, <2>1, <2>2 DEF TypeInv
  <1>13. BlockInv
    <2>1. Blocks(D) = {1, 2} /\ StreamOk(D)
      <3>1. ToSet(D.blks) = {1} /\ IsInjective(D.blks)
        BY <1>4 DEF ToSet, IsInjective
      <3> QED
        BY <1>4, <3>1 DEF Blocks, StreamOk, None
    <2>2. x \notin {1, 2}
      BY DEF None, x
    <2>3. Holds(r) = taken
      BY <1>7, <1>11, <2>1 DEF Holds
    <2>4. \A i \in Ino : Owned(i) = Holds(inode[i])
      BY DEF Owned, Holds
    <2>5. Owned(Root) = taken /\ \A i \in Ino \ {Root} : Owned(i) = {}
      BY <1>2, <1>8, <2>3, <2>4, NoInodeFacts
    <2>6. \A i \in Ino : StreamOk(inode[i].data) /\ inode[i].over \notin Blocks(inode[i].data)
      <3>1. StreamOk(r.data) /\ r.over \notin Blocks(r.data)
        BY <1>7, <2>1, <2>2
      <3> QED
        BY <1>8, <3>1, NoInodeFacts
    <2>7. taken = hist.gone \cup UNION {Owned(i) : i \in Ino}
      BY <1>2, <1>9, <2>5
    <2> QED
      BY <1>9, <2>5, <2>6, <2>7 DEF BlockInv
  <1>14. Used = {Root}
    BY <1>2, <1>7, <1>8, NoInodeFacts DEF Used
  <1>15. NameInv
    <2>1. \A i \in Ino, k \in Name : inode[i].ents[k] = None
      BY <1>7, <1>8, NoInodeFacts
    <2> QED
      BY <1>7, <1>8, <1>14, <2>1 DEF NameInv, IsDir
  <1>16. ReadInv
    BY <1>7, <1>8, NoInodeFacts DEF ReadInv
  <1>17. AclInv
    <2>1. Aces(Root) = A \o (IF x = None THEN <<>> ELSE SubSeq(disk[x].aces, 1, n))
      BY <1>7, <1>8 DEF Aces
    <2>2. ToSet(Aces(Root)) = ToSet(s)
      <3>1. CASE over(s)
        <4>1. x = 3 /\ x # None
          BY <3>1 DEF None, x
        <4>2. Aces(Root) = A \o T
          BY <1>3, <1>10, <2>1, <3>1, <4>1
        <4> QED
          BY <1>3, <3>1, <4>2
      <3>2. CASE ~over(s)
        <4>1. Aces(Root) = A \o <<>> /\ A = s
          BY <2>1, <3>2 DEF A, x
        <4> QED
          BY <1>2, <4>1
      <3> QED
        BY <3>1, <3>2
    <2>3. Reaching(hist.depth[Root], inode[Root].type) = ToSet(s)
      BY <1>2, <1>9 DEF Reaching
    <2>4. inode[Root].over # None => inode[Root].overCount <= Len(disk[inode[Root].over].aces)
      <3> SUFFICES ASSUME inode[Root].over # None
                   PROVE  inode[Root].overCount <= Len(disk[inode[Root].over].aces)
        OBVIOUS
      <3>1. over(s) /\ x = 3
        BY <1>7, <1>8 DEF x
      <3>2. Len(T) = n /\ n \in Nat /\ disk[x].aces = T
        BY <1>3, <1>10, <3>1
      <3>3. n <= Len(disk[x].aces)
        BY <3>2
      <3> QED
        BY <1>7, <1>8, <3>3
    <2> QED
      BY <1>2, <1>9, <1>14, <2>2, <2>3, <2>4 DEF AclInv
  <1> QED
    BY <1>12, <1>13, <1>15, <1>16, <1>17 DEF Inv

\* Every call keeps the invariant.
LEMMA NextInv == Inv /\ [Next]_vars => Inv'
  <1> SUFFICES ASSUME Inv, [Next]_vars PROVE Inv'
    OBVIOUS
  <1>1. CASE UNCHANGED vars
    <2>1. taken' = taken /\ disk' = disk /\ inode' = inode /\ hist' = hist
      BY <1>1 DEF vars
    <2>2. TypeInv'
      BY <2>1 DEF Inv, TypeInv
    <2>3. BlockInv'
      BY <2>1 DEF Inv, BlockInv, Owned
    <2>4. Used' = Used /\ \A j \in Ino : IsDir(j)' <=> IsDir(j)
      BY <2>1 DEF Used, IsDir
    <2>5. NameInv'
      BY <2>1, NamesKept DEF Inv
    <2>6. ReadInv'
      BY <2>1 DEF Inv, ReadInv
    <2>7. AclInv'
      BY <2>1, <2>4, ListKept DEF Inv, AclInv
    <2> QED
      BY <2>2, <2>3, <2>5, <2>6, <2>7 DEF Inv
  <1>2. ASSUME NEW c \in Cred, Call(c) PROVE Inv'
    <2>1. ASSUME NEW type \in {"FILE", "DIR"}, NEW p \in Dirs, NEW name \in Name, NEW mode \in Mode,
                 Make(c, type, p, name, mode)
          PROVE  Inv'
      <3>1. CASE \E v \in Volume : /\ taken \subseteq v.taken /\ \A b \in taken : v.disk[b] = disk[b]
                                   /\ DiskFull(v)
        BY <3>1, DiskFullStep
      <3>2. CASE \E d \in Used, i \in Ino \ Used, m \in Inode, n \in Inode, v \in Volume :
                   d = LookupParent(p, c) /\ Made(type, name, d, i, m, n, v)
        BY <3>2, MadeStep
      <3> QED
        BY <2>1, <3>1, <3>2, MakeFacts
    <2>2. ASSUME NEW p \in Dirs, NEW q \in Dirs, NEW m \in Name, NEW n \in Name, Rename(c, p, m, q, n)
          PROVE  Inv'
      BY <2>2, RenameFacts, MovedStep, NotMovedStep
    <2>3. ASSUME NEW i \in Ino, NEW at \in 0 .. MaxSize - 1, Write(c, i, at) PROVE Inv'
      <3> DEFINE e == Extend(Vol, inode[i].data, at + 1)
                 size == IF at + 1 > inode[i].size THEN at + 1 ELSE inode[i].size
      <3>0. at \in Nat /\ at + 1 \in Nat
        OBVIOUS
      <3>1. inode[i].type = "FILE"
        BY <2>3 DEF Write
      <3>2. \/ /\ ~e.ok
               /\ taken' = e.v.taken
               /\ disk' = e.v.disk
               /\ inode' = IF inode[i].data.ext = None THEN inode ELSE [inode EXCEPT ![i].data = e.s]
               /\ hist' = [hist EXCEPT !.full = TRUE]
            \/ e.ok /\ Written(i, at, e, size)
        BY <2>3 DEF Write, Written
      <3>3. CASE ~e.ok
        <4>1. PICK need \in Nat : need = at + 1
          BY <3>0
        <4> QED
          BY <3>1, <3>2, <3>3, <4>1, WriteFullStep
      <3>4. CASE e.ok
        <4>1. Written(i, at, e, size)
          BY <3>2, <3>4
        <4> QED
          BY <3>0, <3>1, <3>4, <4>1, WriteStep
      <3> QED
        BY <3>3, <3>4
    <2>4. ASSUME NEW i \in Ino, NEW k \in 0 .. MaxSize, Truncate(c, i, k) PROVE Inv'
      BY <2>4, TruncateStep
    <2> QED
      BY <1>2, <2>1, <2>2, <2>3, <2>4, UnlinkStep, AttrStep DEF Call, Create, Mkdir
  <1> QED
    BY <1>1, <1>2 DEF Next

(***************************************************************************)
(* The theorems                                                            *)
(***************************************************************************)
\* The invariant holds on every mounted volume, whatever its size and its lists.
THEOREM CoreInvariant == Spec => []Inv
  <1>1. Init => Inv
    BY InitInv
  <1>2. Inv /\ [Next]_vars => Inv'
    BY NextInv
  <1> QED
    BY <1>1, <1>2, PTL DEF Spec

\* No block has two owners, every owned block is taken, and until a call meets a full
\* disk nothing else is, but the list blocks that nyfs_op_remove leaves behind.
THEOREM CoreBlocks == Spec => []BlocksAccounted
  <1>1. Inv => BlocksAccounted
    <2> SUFFICES ASSUME Inv PROVE BlocksAccounted
      OBVIOUS
    <2>1. TypeInv /\ BlockInv
      BY DEF Inv
    <2>2. Used \subseteq Ino
      BY DEF Used
    <2>3. \A i \in Ino \ Used : Owned(i) = {}
      <3> TAKE i \in Ino \ Used
      <3>1. inode[i] = NoInode
        BY <2>1 DEF TypeInv, Used
      <3>2. Owned(i) = Holds(inode[i])
        BY DEF Owned, Holds
      <3> QED
        BY <3>1, <3>2, NoInodeFacts
    <2>4. UNION {Owned(i) : i \in Ino} = UNION {Owned(i) : i \in Used}
      BY <2>2, <2>3
    <2> QED
      BY <2>1, <2>2, <2>4 DEF BlocksAccounted, BlockInv, StreamOk
  <1> QED
    BY <1>1, CoreInvariant, PTL

\* Every inode has one name, but the root and those that a rename on a full disk lost.
THEOREM CoreNames == Spec => []NamesOnce
  <1>1. Inv => NamesOnce
    <2> SUFFICES ASSUME Inv PROVE NamesOnce
      OBVIOUS
    <2>1. TypeInv /\ NameInv
      BY DEF Inv
    <2> DEFINE named(i) == {x \in Ino \X Name : IsDir(x[1]) /\ inode[x[1]].ents[x[2]] = i}
    <2>2. ASSUME NEW i \in Used \ (hist.lost \cup {Root})
          PROVE  Cardinality(named(i)) = 1
      <3>0. i # None
        BY DEF Used, Ino, None
      <3>1. PICK d \in Ino, n \in Name : inode[d].ents[n] = i
        BY <2>1, <2>2 DEF NameInv
      <3>2. IsDir(d)
        BY <2>1, <3>0, <3>1 DEF NameInv
      <3>3. named(i) = {<<d, n>>}
        <4>1. <<d, n>> \in named(i)
          BY <3>1, <3>2
        <4>2. ASSUME NEW x \in named(i) PROVE x = <<d, n>>
          <5>1. PICK e \in Ino, m \in Name : x = <<e, m>> /\ inode[e].ents[m] = i
            BY <4>2
          <5>2. e = d /\ m = n
            BY <2>1, <3>0, <3>1, <5>1, NamesOf
          <5> QED
            BY <5>1, <5>2
        <4> HIDE DEF named
        <4> QED
          BY <4>1, <4>2
      <3> HIDE DEF named
      <3> QED
        BY <3>3, FS_Singleton
    <2>3. \A d \in Used, n \in Name : inode[d].ents[n] # None => inode[d].ents[n] \in Used
      BY <2>1 DEF NameInv, Used
    <2> QED
      BY <2>2, <2>3 DEF NamesOnce
  <1> QED
    BY <1>1, CoreInvariant, PTL

\* A file reads back what was last written to it.
THEOREM CoreReads == Spec => []ReadsBack
  <1>1. Inv => ReadsBack
    BY DEF Inv, ReadInv, ReadsBack, Used
  <1> QED
    BY <1>1, CoreInvariant, PTL

\* An entry of the root that applies to an inode is in its list, with its GROUP flag.
LEMMA AppliesHere ==
    ASSUME TypeInv, AclInv, NEW i \in Used, NEW a \in ToSet(hist.seed),
           Applies(a, hist.depth[i], inode[i].type)
    PROVE  \E x \in Effective(Aces(i)) :
             /\ x.id = a.id /\ x.type = a.type /\ x.mask = a.mask
             /\ "GROUP" \in x.flags <=> "GROUP" \in a.flags
  <1>1. hist.seed \in Seq(Ace) /\ hist.depth[i] \in Nat /\ inode[i].type \in {"FILE", "DIR"}
    BY DEF TypeInv, History, Inode, Used
  <1>2. a \in Ace
    BY <1>1 DEF ToSet
  <1>3. ToSet(Aces(i)) = Reaching(hist.depth[i], inode[i].type)
    BY DEF AclInv
  <1>4. CASE hist.depth[i] = 0
    <2>1. a \in ToSet(Aces(i)) /\ "INHERIT_ONLY" \notin a.flags
      BY <1>3, <1>4 DEF Reaching, Applies
    <2> QED
      BY <2>1 DEF Effective
  <1>5. CASE hist.depth[i] # 0
    <2>1. /\ InheritFlag(inode[i].type) \in a.flags
          /\ hist.depth[i] > 1 => "INHERIT_DIR" \in a.flags /\ "NO_PROPAGATE" \notin a.flags
      <3>1. CASE hist.depth[i] = 1
        BY <1>5, <3>1 DEF Applies, InheritFlag
      <3>2. CASE hist.depth[i] # 1
        BY <1>1, <1>5, <3>2 DEF Applies, InheritFlag
      <3> QED
        BY <3>1, <3>2
    <2>2. Copy(a) \in ToSet(Aces(i))
      BY <1>3, <1>5, <2>1 DEF Reaching
    <2> QED
      BY <1>2, <2>2, CopyFacts DEF Effective
  <1> QED
    BY <1>4, <1>5

\* The list of the root reaches every inode below it as its flags say: no entry is cut
\* off on the way down and none goes too far.
THEOREM CoreAcl == Spec => []InheritedAcl
  <1>1. Inv => InheritedAcl
    <2> SUFFICES ASSUME Inv, NEW i \in Used
                 PROVE  What(Effective(Aces(i))) =
                        What({a \in ToSet(hist.seed) : Applies(a, hist.depth[i], inode[i].type)})
      BY DEF InheritedAcl
    <2>1. TypeInv /\ AclInv
      BY DEF Inv
    <2>2. hist.seed \in Seq(Ace) /\ hist.depth[i] \in Nat /\ inode[i].type \in {"FILE", "DIR"}
      BY <2>1 DEF TypeInv, History, Inode, Used
    <2>3. \A a \in ToSet(hist.seed) : a \in Ace
      BY <2>2 DEF ToSet
    <2>4. ToSet(Aces(i)) = Reaching(hist.depth[i], inode[i].type)
      BY <2>1 DEF AclInv
    <2> DEFINE S == {a \in ToSet(hist.seed) : Applies(a, hist.depth[i], inode[i].type)}
               E == Effective(Aces(i))
    <2>5. \A a \in S : \E x \in E : x.id = a.id /\ x.type = a.type /\ x.mask = a.mask
      BY <2>1, AppliesHere
    <2>6. \A x \in E : \E a \in S : x.id = a.id /\ x.type = a.type /\ x.mask = a.mask
      <3> SUFFICES ASSUME NEW x \in E
                   PROVE  \E a \in S : x.id = a.id /\ x.type = a.type /\ x.mask = a.mask
        OBVIOUS
      <3>1. x \in Reaching(hist.depth[i], inode[i].type) /\ "INHERIT_ONLY" \notin x.flags
        BY <2>4 DEF Effective
      <3>2. CASE hist.depth[i] = 0
        <4>1. x \in ToSet(hist.seed)
          BY <3>1, <3>2 DEF Reaching
        <4>2. Applies(x, hist.depth[i], inode[i].type)
          BY <3>1, <3>2 DEF Applies
        <4> QED
          BY <4>1, <4>2
      <3>3. CASE hist.depth[i] # 0
        <4>1. PICK a \in ToSet(hist.seed) :
                /\ x = Copy(a) /\ InheritFlag(inode[i].type) \in a.flags
                /\ hist.depth[i] > 1 => "INHERIT_DIR" \in a.flags /\ "NO_PROPAGATE" \notin a.flags
          BY <3>1, <3>3 DEF Reaching
        <4>2. Applies(a, hist.depth[i], inode[i].type)
          <5>1. CASE hist.depth[i] = 1
            BY <3>3, <4>1, <5>1 DEF Applies, InheritFlag
          <5>2. CASE hist.depth[i] # 1
            <6>1. hist.depth[i] > 1
              BY <2>2, <3>3, <5>2
            <6> QED
              BY <3>3, <4>1, <5>2, <6>1 DEF Applies, InheritFlag
          <5> QED
            BY <5>1, <5>2
        <4>3. x.id = a.id /\ x.type = a.type /\ x.mask = a.mask
          BY <2>3, <4>1, CopyFacts
        <4> QED
          BY <4>2, <4>3
      <3> QED
        BY <3>2, <3>3
    <2> HIDE DEF S, E
    <2>7. What(E) = What(S)
      <3>1. \A y \in What(E) : y \in What(S)
        BY <2>6 DEF What
      <3>2. \A y \in What(S) : y \in What(E)
        BY <2>5 DEF What
      <3> QED
        BY <3>1, <3>2
    <2> QED
      BY <2>7 DEF S, E
  <1> QED
    BY <1>1, CoreInvariant, PTL

\* nyfs_check_access refuses what an entry of the root denies.
LEMMA DeniedHere ==
    ASSUME TypeInv, AclInv, NEW c, c.uid # 0, NEW i \in Used, NEW a \in ToSet(hist.seed),
           Applies(a, hist.depth[i], inode[i].type),
           a.type = "DENY", "WRITE_DATA" \in a.mask, Matches(a, c)
    PROVE  ~CheckAccess(i, c, "WRITE_DATA")
  <1>1. PICK x \in Effective(Aces(i)) :
             /\ x.id = a.id /\ x.type = a.type /\ x.mask = a.mask
             /\ "GROUP" \in x.flags <=> "GROUP" \in a.flags
    BY AppliesHere
  <1>2. Matches(x, c)
    BY <1>1 DEF Matches
  <1>3. Effective(Aces(i)) # {} => Aces(i) # <<>>
    <2> SUFFICES ASSUME Aces(i) = <<>> PROVE Effective(Aces(i)) = {}
      OBVIOUS
    <2> QED
      BY DEF Effective, ToSet
  <1> QED
    BY <1>1, <1>2, <1>3 DEF CheckAccess

\* A call changes the contents of a file or adds a name to a directory only if
\* nyfs_check_access grants its caller to write there.
LEMMA WritesAreGranted ==
    ASSUME Inv, NEW c \in Cred, Call(c), NEW i \in Used, inode'[i].type # "NONE",
           \/ hist'.want[i] # hist.want[i]
           \/ \E n \in Name : inode[i].ents[n] = None /\ inode'[i].ents[n] # None
    PROVE  CheckAccess(i, c, "WRITE_DATA")
  <1>0. i \in Ino /\ TypeInv /\ NameInv /\ BlockInv
    BY DEF Used, Inv
  <1>1. ASSUME NEW type \in {"FILE", "DIR"}, NEW p \in Dirs, NEW name \in Name, NEW mode \in Mode,
               Make(c, type, p, name, mode)
        PROVE  CheckAccess(i, c, "WRITE_DATA")
    <2>1. CASE \E v \in Volume : DiskFull(v)
      <3>1. inode' = inode /\ hist'.want = hist.want
        BY <1>0, <2>1, FullHistory DEF DiskFull
      <3> QED
        BY <3>1
    <2>2. ASSUME NEW d \in Used, NEW j \in Ino \ Used, NEW m \in Inode, NEW n \in Inode,
                 NEW v \in Volume, d = LookupParent(p, c), Made(type, name, d, j, m, n, v)
          PROVE  CheckAccess(i, c, "WRITE_DATA")
      <3>1. i # j /\ d \in Ino
        BY DEF Used
      <3>2. /\ inode' = [[inode EXCEPT ![d] = m] EXCEPT ![j] = n]
            /\ hist' = [hist EXCEPT !.depth[j] = hist.depth[d] + 1, !.want[j] = <<>>]
        BY <2>2 DEF Made
      <3>3. hist'.want[i] = hist.want[i]
        <4>1. hist \in History /\ hist.want \in [Ino -> Seq(Int)]
          BY <1>0 DEF TypeInv, History
        <4>2. hist'.want = [hist.want EXCEPT ![j] = <<>>]
          BY <3>2, <4>1 DEF History
        <4> QED
          BY <1>0, <3>1, <4>1, <4>2
      <3>4. i # d => inode'[i] = inode[i]
        BY <1>0, <3>1, <3>2 DEF TypeInv
      <3>5. i = d
        BY <3>3, <3>4
      <3>6. CheckAccess(LookupParent(p, c), c, "WRITE_DATA")
        BY <1>1 DEF Make
      <3> QED
        BY <2>2, <3>5, <3>6
    <2> QED
      BY <1>1, <2>1, <2>2, MakeFacts
  <1>2. ASSUME NEW p \in Dirs, NEW name \in Name, Unlink(c, p, name)
        PROVE  CheckAccess(i, c, "WRITE_DATA")
    <2> DEFINE d == LookupParent(p, c)
               j == inode[d].ents[name]
               m == DirhashRemove(inode[d], name)
    <2>1. /\ d # None /\ j # None
          /\ inode' = [inode EXCEPT ![d] = m, ![j] = NoInode]
          /\ hist' = [hist EXCEPT !.gone = @ \cup ({inode[j].over} \ {None}), !.want[j] = <<>>]
      BY <1>2 DEF Unlink
    <2>2. d \in Used
      BY <1>0, <2>1, ParentType
    <2> HIDE DEF d
    <2>3. d \in Ino /\ inode[d] \in Inode
      BY <1>0, <2>2 DEF Used, TypeInv
    <2>4. j \in Ino
      BY <1>0, <2>1, <2>3 DEF NameInv, Used
    <2>5. m.ents = [inode[d].ents EXCEPT ![name] = None]
      BY <1>0, <2>3, RemoveFacts, StreamsTaken
    <2> HIDE DEF j, m
    <2>6. inode \in [Ino -> Inode] /\ hist \in History /\ hist.want \in [Ino -> Seq(Int)]
      BY <1>0 DEF TypeInv, History
    <2>7. i # j
      <3>1. i = j => inode'[i] = NoInode
        BY <2>1, <2>4, <2>6
      <3> QED
        BY <3>1, NoInodeFacts
    <2>8. hist'.want[i] = hist.want[i]
      <3>1. hist'.want = [hist.want EXCEPT ![j] = <<>>]
        BY <2>1, <2>6 DEF History
      <3> QED
        BY <1>0, <2>6, <2>7, <3>1
    <2>9. i # d => inode'[i] = inode[i]
      BY <1>0, <2>1, <2>6, <2>7
    <2>10. i = d => inode'[i] = m
      BY <1>0, <2>1, <2>6, <2>7
    <2>11. \A n \in Name : m.ents[n] # None => m.ents[n] = inode[d].ents[n]
      <3>1. inode[d].ents \in [Name -> Ino \cup {None}]
        BY <2>3 DEF Inode
      <3> QED
        BY <2>5, <3>1
    <2> QED
      BY <2>8, <2>9, <2>10, <2>11
  <1>3. ASSUME NEW p \in Dirs, NEW q \in Dirs, NEW old \in Name, NEW new \in Name,
               Rename(c, p, old, q, new)
        PROVE  CheckAccess(i, c, "WRITE_DATA")
    <2>1. PICK d \in Used, e \in Used, j \in Used \ {Root}, m \in Inode, n \in Inode, v \in Volume :
             /\ e = LookupParent(q, c)
             /\ Moved(d, e, j, m, n, v, old, new) \/ NotMoved(d, e, j, m, n, v, old, new)
      BY <1>3, RenameFacts
    <2>2. d \in Ino /\ e \in Ino /\ inode \in [Ino -> Inode] /\ inode[d] \in Inode /\ hist \in History
      BY <1>0 DEF Used, TypeInv
    <2>3. CheckAccess(e, c, "WRITE_DATA")
      BY <1>3, <2>1 DEF Rename
    <2>4. m.ents = [inode[d].ents EXCEPT ![old] = None]
      BY <2>1 DEF Moved, NotMoved, Moving
    <2>5. \A k \in Name : m.ents[k] # None => m.ents[k] = inode[d].ents[k]
      <3>1. inode[d].ents \in [Name -> Ino \cup {None}]
        BY <2>2 DEF Inode
      <3> QED
        BY <2>4, <3>1
    <2>6. hist'.want = hist.want
      BY <2>1, <2>2 DEF Moved, NotMoved, History
    <2>7. ASSUME Moved(d, e, j, m, n, v, old, new), i # e PROVE FALSE
      <3>1. inode' = [[inode EXCEPT ![d] = m] EXCEPT ![e] = n]
        BY <2>7 DEF Moved
      <3>2. inode'[i] = IF i = d THEN m ELSE inode[i]
        BY <1>0, <2>2, <2>7, <3>1
      <3> QED
        BY <2>5, <2>6, <3>2
    <2>8. ASSUME NotMoved(d, e, j, m, n, v, old, new) PROVE FALSE
      <3>1. inode' = [inode EXCEPT ![d] = n] /\ (n.ents = inode[d].ents \/ n.ents = m.ents)
        BY <2>8 DEF NotMoved
      <3>2. inode'[i] = IF i = d THEN n ELSE inode[i]
        BY <1>0, <2>2, <3>1
      <3> QED
        BY <2>5, <2>6, <3>1, <3>2
    <2> QED
      BY <2>1, <2>3, <2>7, <2>8
  <1>4. ASSUME NEW j \in Ino, NEW at \in 0 .. MaxSize - 1, Write(c, j, at)
        PROVE  CheckAccess(i, c, "WRITE_DATA")
    <2> DEFINE e == Extend(Vol, inode[j].data, at + 1)
               size == IF at + 1 > inode[j].size THEN at + 1 ELSE inode[j].size
    <2>1. CheckAccess(j, c, "WRITE_DATA")
      BY <1>4 DEF Write
    <2>2. inode \in [Ino -> Inode] /\ inode[j] \in Inode /\ hist \in History
          /\ hist.want \in [Ino -> Seq(Int)]
      BY <1>0 DEF TypeInv, History
    <2>3. \/ inode' = inode \/ inode' = [inode EXCEPT ![j].data = e.s]
          \/ inode' = [inode EXCEPT ![j].data = e.s, ![j].size = size]
      BY <1>4 DEF Write
    <2>4. \/ hist' = [hist EXCEPT !.full = TRUE]
          \/ \E w : hist' = [hist EXCEPT !.want[j] = w]
      BY <1>4 DEF Write
    <2> HIDE DEF e, size
    <2>5. i # j => inode'[i] = inode[i] /\ hist'.want[i] = hist.want[i]
      <3> SUFFICES ASSUME i # j PROVE inode'[i] = inode[i] /\ hist'.want[i] = hist.want[i]
        OBVIOUS
      <3>1. inode'[i] = inode[i]
        BY <1>0, <2>2, <2>3
      <3>2. CASE hist' = [hist EXCEPT !.full = TRUE]
        BY <1>0, <3>1, <3>2, FullHistory
      <3>3. ASSUME NEW w, hist' = [hist EXCEPT !.want[j] = w]
            PROVE  hist'.want[i] = hist.want[i]
        <4>1. hist'.want = [hist.want EXCEPT ![j] = w]
          BY <2>2, <3>3 DEF History
        <4> QED
          BY <1>0, <2>2, <4>1
      <3> QED
        BY <2>4, <3>1, <3>2, <3>3
    <2> QED
      BY <2>1, <2>5
  <1>5. ASSUME NEW j \in Ino, NEW k \in 0 .. MaxSize, Truncate(c, j, k)
        PROVE  CheckAccess(i, c, "WRITE_DATA")
    <2>1. CheckAccess(j, c, "WRITE_DATA") /\ inode' = [inode EXCEPT ![j].size = k]
          /\ hist' = [hist EXCEPT !.want[j] = SubSeq(@, 1, k)]
      BY <1>5 DEF Truncate
    <2>2. inode \in [Ino -> Inode] /\ hist \in History /\ hist.want \in [Ino -> Seq(Int)]
      BY <1>0 DEF TypeInv, History
    <2>3. hist'.want = [hist.want EXCEPT ![j] = SubSeq(hist.want[j], 1, k)]
      BY <2>1, <2>2 DEF History
    <2>4. i # j => inode'[i] = inode[i] /\ hist'.want[i] = hist.want[i]
      BY <1>0, <2>1, <2>2, <2>3
    <2> QED
      BY <2>1, <2>4
  <1>6. ASSUME NEW p \in Path,
               (\E m \in Mode : Chmod(c, p, m)) \/ (\E to \in Cred : Chown(c, p, to))
        PROVE  CheckAccess(i, c, "WRITE_DATA")
    <2> DEFINE j == PathLookup(p, c)
    <2>1. /\ hist' = [hist EXCEPT !.attrs = @ + 1] /\ j # None
          /\ \/ \E m \in Mode : inode' = [inode EXCEPT ![j].mode = m]
             \/ \E to \in Cred : inode' = [inode EXCEPT ![j].uid = to.uid, ![j].gid = to.gid]
      BY <1>6 DEF Chmod, Chown
    <2>2. j \in Used
      BY <1>0, <2>1, LookupType
    <2> HIDE DEF j
    <2>3. j \in Ino /\ inode \in [Ino -> Inode] /\ inode[j] \in Inode /\ hist \in History
      BY <1>0, <2>2 DEF TypeInv, Used
    <2>4. hist'.want = hist.want
      BY <2>1, <2>3 DEF History
    <2>5. inode'[i].ents = inode[i].ents
      <3>1. CASE i # j
        BY <1>0, <2>1, <2>3, <3>1
      <3>2. CASE i = j
        <4>1. ASSUME NEW m \in Mode, inode' = [inode EXCEPT ![j].mode = m]
              PROVE  inode'[j].ents = inode[j].ents
          <5>1. inode'[j] = [inode[j] EXCEPT !.mode = m]
            BY <2>3, <4>1
          <5> QED
            BY <2>3, <5>1 DEF Inode
        <4>2. ASSUME NEW to \in Cred, inode' = [inode EXCEPT ![j].uid = to.uid, ![j].gid = to.gid]
              PROVE  inode'[j].ents = inode[j].ents
          <5>1. inode'[j] = [inode[j] EXCEPT !.uid = to.uid, !.gid = to.gid]
            BY <2>3, <4>2
          <5> QED
            BY <2>3, <5>1 DEF Inode
        <4> QED
          BY <2>1, <3>2, <4>1, <4>2
      <3> QED
        BY <3>1, <3>2
    <2> QED
      BY <2>4, <2>5
  <1> QED
    BY <1>1, <1>2, <1>3, <1>4, <1>5, <1>6 DEF Call, Create, Mkdir

\* Whoever an entry of the root denies to write never changes a file and never adds a
\* name to a directory that the entry reaches.
THEOREM CoreDenied == Spec => DeniedNeverWrites
  <1>1. ASSUME Inv, NEW c \in Cred, NEW a \in ToSet(hist.seed), NEW i \in Used,
               a.type = "DENY", "WRITE_DATA" \in a.mask, Matches(a, c), c.uid # 0,
               Applies(a, hist.depth[i], inode[i].type), inode'[i].type # "NONE",
               \/ hist'.want[i] # hist.want[i]
               \/ \E n \in Name : inode[i].ents[n] = None /\ inode'[i].ents[n] # None
        PROVE  ~Call(c)
    <2> SUFFICES ASSUME Call(c) PROVE FALSE
      OBVIOUS
    <2>1. CheckAccess(i, c, "WRITE_DATA")
      BY <1>1, WritesAreGranted
    <2>2. ~CheckAccess(i, c, "WRITE_DATA")
      BY <1>1, DeniedHere DEF Inv
    <2> QED
      BY <2>1, <2>2
  <1> DEFINE A == \A c \in Cred, a \in ToSet(hist.seed), i \in Used :
                    /\ a.type = "DENY" /\ "WRITE_DATA" \in a.mask /\ Matches(a, c) /\ c.uid # 0
                    /\ Applies(a, hist.depth[i], inode[i].type) /\ inode'[i].type # "NONE"
                    /\ \/ hist'.want[i] # hist.want[i]
                       \/ \E n \in Name : inode[i].ents[n] = None /\ inode'[i].ents[n] # None
                    => ~Call(c)
  <1>2. Inv => A
    BY <1>1
  <1>3. Inv /\ [Next]_vars => [A]_vars
    BY <1>2
  <1>4. Spec => [][A]_vars
    <2> HIDE DEF A
    <2> QED
      BY <1>3, CoreInvariant, PTL DEF Spec
  <1> QED
    BY <1>4 DEF DeniedNeverWrites
=============================================================================
