---------------------------- MODULE MemoryProofs ----------------------------
(***************************************************************************)
(* Proofs about Memory, for any number of frames and processes, any image, *)
(* any layout and any page-table fan-out.                                  *)
(*                                                                         *)
(* The invariant has four parts. TypeOK and LimitInv are types and limits; *)
(* MemInv says where each frame is, and needs every table to be without    *)
(* holes (Closed), or a destroy would miss frames below a hole. SpawnKeeps *)
(* follows the frames that were free when process_spawn was called.        *)
(*                                                                         *)
(* HeapInv, in the second half, says which pages a process has mapped. It  *)
(* needs what the image and stack loops of a spawn have mapped so far      *)
(* (LoadInv), where a heap call in progress stands (CallHeap), and for     *)
(* each process the pages it is to have (ProcHeap), in the middle of its   *)
(* own heap call too (Expected).                                           *)
(***************************************************************************)
EXTENDS Memory, NatFacts, FiniteSetTheorems, TLAPS

\* The end of an image: elf_load takes the largest end of its segments.
LEMMA ImageEndIsLargest ==
    ASSUME NEW img \in Seq(Segment), HeadersOk(img)
    PROVE  /\ \A i \in DOMAIN img : img[i].to <= ImageEnd(img)
           /\ \E i \in DOMAIN img : ImageEnd(img) = img[i].to
  <1> DEFINE ends == {img[i].to : i \in DOMAIN img}
             rest == {ElfMax - e : e \in ends}
  <1>1. \A i \in DOMAIN img : img[i].to \in Nat /\ img[i].to <= ElfMax
    <2>1. \A i \in DOMAIN img : img[i] \in Segment
      OBVIOUS
    <2>2. \A g \in Segment : g.to \in Page
      BY DEF Segment
    <2>3. \A i \in DOMAIN img : img[i].to <= ElfMax
      BY DEF HeadersOk
    <2> QED
      BY <2>1, <2>2, <2>3, LayoutAssumption DEF Page
  <1>2. rest \in SUBSET Nat
    <2>1. \A e \in ends : e \in Nat /\ e <= ElfMax
      BY <1>1
    <2> HIDE DEF ends
    <2> QED
      BY <2>1, LayoutAssumption
  <1>3. 1 \in DOMAIN img
    BY DEF HeadersOk
  <1>4. rest # {}
    BY <1>3
  <1> HIDE DEF rest
  <1>5. PICK x \in rest : \A y \in rest : x <= y
    BY <1>2, <1>4, LeastNatural
  <1>6. PICK j \in DOMAIN img : x = ElfMax - img[j].to
    BY <1>5 DEF rest
  <1>7. \A i \in DOMAIN img : ElfMax - img[i].to \in rest
    BY DEF rest
  <1>8. ASSUME NEW i \in DOMAIN img PROVE img[i].to <= img[j].to
    <2>1. PICK a \in Nat, b \in Nat, m \in Nat : a = img[i].to /\ b = img[j].to /\ m = ElfMax
      BY <1>1, LayoutAssumption
    <2>2. m - b <= m - a
      BY <1>5, <1>6, <1>7, <2>1
    <2>3. a <= b
      BY <2>2
    <2> QED
      BY <2>1, <2>3
  <1>9. \E e \in {img[i].to : i \in DOMAIN img} : \A i \in DOMAIN img : img[i].to <= e
    BY <1>8
  <1>10. ImageEnd(img) \in ends /\ \A i \in DOMAIN img : img[i].to <= ImageEnd(img)
    BY <1>9 DEF ImageEnd
  <1> QED
    BY <1>10

\* align_up: the page of PageAbove(b) is the first one that starts at b or after it.
LEMMA PageAboveFacts ==
    /\ \A b \in Nat : PageAbove(b) \in Nat
    /\ \A b \in Nat : b <= PageAbove(b) * PageSize
    /\ \A b \in Nat : PageAbove(b) * PageSize < b + PageSize
  <1>1. \A b \in Nat : b + PageSize - 1 \in Nat
    BY GeometryAssumption
  <1>2. \A a \in Nat : /\ a \div PageSize \in Nat
                       /\ (a \div PageSize) * PageSize <= a
                       /\ a < (a \div PageSize) * PageSize + PageSize
    BY GeometryAssumption
  <1> QED
    BY <1>1, <1>2, GeometryAssumption DEF PageAbove

\* align_up does not pass a page boundary that b has not passed.
LEMMA PageAboveBound ==
    ASSUME NEW b \in Nat, NEW x \in Nat, b <= x * PageSize
    PROVE  PageAbove(b) <= x
  <1>1. PageAbove(b) \in Nat /\ PageAbove(b) * PageSize < b + PageSize
    BY PageAboveFacts
  <1>2. SUFFICES ASSUME x + 1 <= PageAbove(b) PROVE FALSE
    BY <1>1
  <1>3. (x + 1) * PageSize <= PageAbove(b) * PageSize
    BY <1>1, <1>2, GeometryAssumption
  <1> QED
    BY <1>1, <1>3, GeometryAssumption

\* align_up is monotone: a larger brk has no smaller page.
LEMMA PageAboveMonotone ==
    ASSUME NEW a \in Nat, NEW b \in Nat, a <= b
    PROVE  PageAbove(a) <= PageAbove(b)
  <1>1. b <= PageAbove(b) * PageSize /\ PageAbove(b) \in Nat
    BY PageAboveFacts
  <1>2. a <= PageAbove(b) * PageSize
    BY <1>1, GeometryAssumption
  <1> QED
    BY <1>1, <1>2, PageAboveBound

\* align_up of an aligned address is that address: where a heap starts.
LEMMA PageAboveExact ==
    ASSUME NEW x \in Nat
    PROVE  x * PageSize \in Nat /\ PageAbove(x * PageSize) = x
  <1>1. x * PageSize \in Nat
    BY GeometryAssumption
  <1>2. PageAbove(x * PageSize) <= x
    BY <1>1, PageAboveBound
  <1>3. PageAbove(x * PageSize) \in Nat /\ x * PageSize <= PageAbove(x * PageSize) * PageSize
    BY <1>1, PageAboveFacts
  <1>4. SUFFICES ASSUME PageAbove(x * PageSize) + 1 <= x PROVE FALSE
    BY <1>1, <1>2, <1>3
  <1>5. (PageAbove(x * PageSize) + 1) * PageSize <= x * PageSize
    BY <1>3, <1>4, GeometryAssumption
  <1> QED
    BY <1>1, <1>3, <1>5, GeometryAssumption
-----
\* Page numbers are natural numbers and page 0 is one.
LEMMA PageIsNat == Page \subseteq Nat /\ 0 \in Page
  BY LayoutAssumption DEF Page

\* The entries are the positions the walk of some page goes through.
LEMMA EntryIsAt ==
    /\ \A l \in 0 .. 4, v \in Page : At(l, v) \in Entry
    /\ \A k \in Entry : \E l \in 0 .. 4, v \in Page : k = At(l, v)
    /\ \A v \in Page : At(4, v) = Root
  <1>1. \A l \in 0 .. 3, v \in Page : At(l, v) \in Entry
    BY DEF Entry
  <1>2. \A v \in Page : At(4, v) = Root
    BY DEF At, Root
  <1>3. Root \in Entry
    BY DEF Entry
  <1>4. \A l \in 0 .. 4, v \in Page : At(l, v) \in Entry
    BY <1>1, <1>2, <1>3
  <1>5. ASSUME NEW k \in Entry PROVE \E l \in 0 .. 4, v \in Page : k = At(l, v)
    <2>1. CASE k = Root
      BY <1>2, <2>1, PageIsNat
    <2>2. CASE \E l \in 0 .. 3, v \in Page : k = At(l, v)
      BY <2>2
    <2> QED
      BY <2>1, <2>2 DEF Entry
  <1> QED
    BY <1>2, <1>4, <1>5

\* The walk of a page is at level l at its l-th entry,
LEMMA AtLevels ==
    ASSUME NEW l \in 0 .. 4, NEW v \in Page
    PROVE  At(l, v)[1] = l
  <1>1. l = 0 \/ l = 1 \/ l = 2 \/ l = 3 \/ l = 4
    OBVIOUS
  <1> QED
    BY <1>1 DEF At, Up

\* so entries of different levels differ.
LEMMA AtLevelsDiffer ==
    ASSUME NEW l \in 0 .. 4, NEW m \in 0 .. 4, NEW v \in Page, NEW w \in Page, At(l, v) = At(m, w)
    PROVE  l = m
  BY AtLevels

\* Pages with the same leaf are the same page.
LEMMA AtLeaf ==
    ASSUME NEW v \in Page, NEW w \in Page, At(0, v) = At(0, w)
    PROVE  v = w
  BY DEF At

\* Walks that meet at a level stay together above it, up to the PML4.
LEMMA AtParents ==
    ASSUME NEW v \in Page, NEW w \in Page, NEW l \in 0 .. 4, NEW m \in 0 .. 4, l <= m,
           At(l, v) = At(l, w)
    PROVE  At(m, v) = At(m, w)
  <1>1. At(1, v) = Up(At(0, v)) /\ At(1, w) = Up(At(0, w))
    BY DEF At
  <1>2. At(2, v) = Up(At(1, v)) /\ At(2, w) = Up(At(1, w))
    BY DEF At
  <1>3. At(3, v) = Up(At(2, v)) /\ At(3, w) = Up(At(2, w))
    BY DEF At
  <1>4. At(4, v) = At(4, w)
    BY DEF At
  <1>5. l = 0 \/ l = 1 \/ l = 2 \/ l = 3 \/ l = 4
    OBVIOUS
  <1>6. m = 0 \/ m = 1 \/ m = 2 \/ m = 3 \/ m = 4
    OBVIOUS
  <1> QED
    BY <1>1, <1>2, <1>3, <1>4, <1>5, <1>6

\* process_spawn is in progress.
Spawning == pc \in {"create", "header", "enter"} \/ (pc \in {"loop", "walk"} /\ loop # "grow")
\* umem_brk is in progress.
HeapCall == pc \in {"shrink", "rollback"} \/ (pc \in {"loop", "walk"} /\ loop = "grow")

\* The limits the code's checks establish: an image below NX_USER_ELF_MAX_VADDR, a brk
\* between the heap's start and the guard page, a heap loop inside its bounds, and a walk only
\* for a page its loop has yet to map.
LimitInv ==
    /\ Spawning /\ pc \notin {"create", "header"} => imageEnd <= ElfMax
    /\ \A p \in Proc : life[p] = "alive" =>
        heapStart[p] <= brk[p] /\ brk[p] <= StackGuard * PageSize
    /\ HeapCall =>
        /\ own \in Proc /\ life[own] = "alive"
        /\ heapStart[own] <= target /\ target <= StackGuard * PageSize
        /\ first <= page /\ page <= last /\ last <= StackGuard
    /\ pc = "walk" => ~LoopDone

\* While segments are loaded, those still to load passed the header checks.
SegsInv == pc \in {"loop", "walk"} /\ loop = "load" => HeadersOk(segs)

\* The bounds of a segment are numbers, and a list of segments is taken apart into segments.
LEMMA SegmentFacts ==
    /\ \A g \in Segment : g.from \in Nat /\ g.to \in Nat
    /\ \A s \in Seq(Segment) : s # <<>> => Head(s) \in Segment /\ Tail(s) \in Seq(Segment)
  <1>1. \A g \in Segment : g.from \in Page /\ g.to \in Page
    BY DEF Segment
  <1>2. \A s \in Seq(Segment) : s # <<>> => Head(s) \in Segment /\ Tail(s) \in Seq(Segment)
    OBVIOUS
  <1> QED
    BY <1>1, <1>2, PageIsNat

\* The numbers of the state.
LEMMA TypeNumbers ==
    ASSUME TypeOK
    PROVE  /\ imageEnd \in Nat /\ page \in Nat /\ first \in Nat /\ last \in Nat /\ target \in Nat
           /\ lvl \in 0 .. 3 /\ exits \in Nat
           /\ \A p \in Proc : heapStart[p] \in Nat /\ brk[p] \in Nat
  BY DEF TypeOK

\* What the checks of umem_brk say in numbers when the heap shrinks.
LEMMA ShrinkFacts ==
    ASSUME TypeOK, NEW p \in Proc, NEW inc \in Increment, MayShrink(p, inc)
    PROVE  /\ brk[p] \in Nat /\ heapStart[p] \in Nat /\ brk[p] + inc \in Nat
           /\ heapStart[p] <= brk[p] + inc /\ brk[p] + inc <= brk[p]
  <1>1. PICK b \in Nat, h \in Nat, n \in Int : b = brk[p] /\ h = heapStart[p] /\ n = inc
    BY InputAssumption, TypeNumbers
  <1>2. n < 0 /\ -n <= b - h
    BY <1>1 DEF MayShrink
  <1>3. b + n \in Nat /\ h <= b + n /\ b + n <= b
    BY <1>2
  <1> QED
    BY <1>1, <1>3

\* What they say when it grows.
LEMMA GrowFacts ==
    ASSUME TypeOK, NEW p \in Proc, NEW inc \in Increment, MayGrow(p, inc)
    PROVE  /\ brk[p] \in Nat /\ heapStart[p] \in Nat /\ inc \in Nat /\ brk[p] + inc \in Nat
           /\ brk[p] + inc < StackGuard * PageSize
  <1>1. PICK b \in Nat, h \in Nat, n \in Int : b = brk[p] /\ h = heapStart[p] /\ n = inc
    BY InputAssumption, TypeNumbers
  <1>2. 0 < n /\ b + n < StackGuard * PageSize
    BY <1>1 DEF MayGrow
  <1>3. n \in Nat /\ b + n \in Nat
    BY <1>2
  <1> QED
    BY <1>1, <1>2, <1>3

\* paging_addrspace_destroy frees frames, never the 0 of an absent entry.
LEMMA FramesOfType ==
    ASSUME TypeOK, NEW O \in SUBSET Owner
    PROVE  FramesOf(O) \subseteq Frame
  <1> SUFFICES ASSUME NEW o \in O, NEW k \in Reached(tab[o]) PROVE tab[o][k] \in Frame
    BY DEF FramesOf
  <1>1. PICK x \in (0 .. 4) \X Page :
          k = At(x[1], x[2]) /\ \A m \in x[1] .. 4 : tab[o][At(m, x[2])] # 0
    BY DEF Reached
  <1>2. PICK l \in 0 .. 4, v \in Page :
          k = At(l, v) /\ \A m \in l .. 4 : tab[o][At(m, v)] # 0
    BY <1>1
  <1>3. l \in l .. 4 /\ k \in Entry
    BY <1>2, EntryIsAt
  <1>4. tab[o][k] # 0
    BY <1>2, <1>3
  <1>5. tab[o] \in [Entry -> Frame \cup {0}]
    BY DEF TypeOK
  <1> QED
    BY <1>3, <1>4, <1>5

\* Destroyed spaces are page tables again.
LEMMA WithoutType ==
    ASSUME TypeOK, NEW O
    PROVE  Without(O) \in [Owner -> [Entry -> Frame \cup {0}]]
  <1>1. Empty \in [Entry -> Frame \cup {0}]
    BY DEF Empty
  <1> QED
    BY <1>1 DEF Without, TypeOK

\* pfa_alloc returns a free frame.
LEMMA FreeHeadIsFree == free # {} => FreeHead \in free
  BY DEF FreeHead

\* The types hold at boot.
LEMMA TypeInit == Init => TypeOK /\ SegsInv
  <1> SUFFICES ASSUME Init PROVE TypeOK /\ SegsInv
    OBVIOUS
  <1>1. tab \in [Owner -> [Entry -> Frame \cup {0}]]
    BY DEF Init, Empty
  <1>2. segs \in Seq(Segment)
    BY DEF Init
  <1>3. free \subseteq Frame /\ atCall \subseteq Frame
    BY DEF Init
  <1> QED
    BY <1>1, <1>2, <1>3 DEF Init, TypeOK, Owner, Local, SegsInv

\* Return resets the locals of the call.
LEMMA ReturnType ==
    ASSUME NEW how, Return(how)
    PROVE  /\ pc' = "user" /\ loop' = "load" /\ own' \in Owner
           /\ segs' \in Seq(Segment)
           /\ imageEnd' \in Nat /\ page' \in Nat /\ first' \in Nat /\ last' \in Nat
           /\ target' \in Nat
           /\ hand' \in Frame \cup {0}
           /\ lvl' \in 0 .. 3
           /\ atCall' \subseteq Frame
           /\ outcome' = how
           /\ SegsInv'
  BY DEF Return, Owner, SegsInv

\* The error path of process_spawn keeps the types.
LEMMA SpawnFailsType ==
    ASSUME TypeOK, NEW why \in SpawnError, SpawnFails(why)
    PROVE  TypeOK' /\ SegsInv'
  <1>1. free' \subseteq Frame
    <2>1. FramesOf({Local}) \subseteq Frame
      BY FramesOfType DEF Owner
    <2> QED
      BY <2>1 DEF SpawnFails, TypeOK
  <1>2. tab' \in [Owner -> [Entry -> Frame \cup {0}]]
    BY WithoutType DEF SpawnFails
  <1>3. Return(why) /\ UNCHANGED procs
    BY DEF SpawnFails
  <1>4. outcome' \in {"none", "ok", "brk failed"} \cup SpawnError
    <2>1. outcome' = why
      BY <1>3, ReturnType
    <2> QED
      BY <2>1
  <1> QED
    BY <1>1, <1>2, <1>3, <1>4, ReturnType DEF TypeOK, procs

\* So does the error path of paging_map_page in each of its callers.
LEMMA MapFailsType ==
    ASSUME TypeOK, NEW why \in SpawnError, MapFails(why)
    PROVE  TypeOK' /\ SegsInv'
  <1>1. CASE loop = "grow"
    <2>1. StartRollback
      BY <1>1 DEF MapFails
    <2>2. free' \subseteq Frame
      BY <2>1 DEF StartRollback, TypeOK
    <2> QED
      BY <2>1, <2>2 DEF StartRollback, TypeOK, SegsInv, procs
  <1>2. CASE loop # "grow"
    BY <1>2, SpawnFailsType DEF MapFails
  <1> QED
    BY <1>1, <1>2

\* So does process_reap of all terminated processes.
LEMMA TypeReap ==
    ASSUME TypeOK
    PROVE  /\ FramesOf(Zombies) \subseteq Frame
           /\ \A f \in [Proc -> Nat] : Cleared(f) \in [Proc -> Nat]
           /\ Zombies \subseteq Proc
  <1>1. Zombies \subseteq Proc
    BY DEF Zombies
  <1>2. FramesOf(Zombies) \subseteq Frame
    BY <1>1, FramesOfType DEF Owner
  <1>3. \A f \in [Proc -> Nat] : Cleared(f) \in [Proc -> Nat]
    BY DEF Cleared
  <1> QED
    BY <1>1, <1>2, <1>3

\* Every step keeps the types. That a shrunk brk stays a natural number needs LimitInv.
LEMMA TypeNext == TypeOK /\ SegsInv /\ LimitInv /\ [Next]_vars => TypeOK' /\ SegsInv'
  <1> SUFFICES ASSUME TypeOK, SegsInv, LimitInv, [Next]_vars PROVE TypeOK' /\ SegsInv'
    OBVIOUS
  <1> USE DEF mem, procs, args
  <1>1. CASE \E img \in Image : SpawnCall(img)
    BY <1>1, InputAssumption DEF SpawnCall, TypeOK, SegsInv, Owner, Local
  <1>2. CASE AddrspaceCreate
    BY <1>2, FreeHeadIsFree DEF AddrspaceCreate, TypeOK, SegsInv, Owner, Local
  <1>3. CASE AddrspaceCreateFails
    BY <1>3, ReturnType DEF AddrspaceCreateFails, TypeOK, SpawnError
  <1>4. CASE ElfHeader
    <2>1. Head(segs).from \in Nat /\ imageEnd' \in Nat
      <3>1. segs \in Seq(Segment) /\ HeadersOk(segs) /\ segs # <<>>
        BY <1>4 DEF ElfHeader, HeadersOk, TypeOK
      <3>2. \A i \in DOMAIN segs : segs[i] \in Segment
        BY <3>1
      <3> QED
        BY <1>4, <3>1, <3>2, ImageEndIsLargest, SegmentFacts DEF ElfHeader
    <2> QED
      BY <1>4, <2>1 DEF ElfHeader, TypeOK, SegsInv
  <1>5. CASE ElfHeaderFails
    BY <1>5, SpawnFailsType DEF ElfHeaderFails, SpawnError
  <1>6. CASE AllocPage
    <2>1. TypeOK'
      <3>1. free' \subseteq Frame /\ hand' \in Frame \cup {0}
        BY <1>6, FreeHeadIsFree DEF AllocPage, TypeOK
      <3>2. lvl' \in 0 .. 3
        BY <1>6 DEF AllocPage
      <3> QED
        BY <1>6, <3>1, <3>2 DEF AllocPage, TypeOK
    <2>2. SegsInv'
      BY <1>6 DEF AllocPage, SegsInv, HeadersOk
    <2> QED
      BY <2>1, <2>2
  <1>7. CASE AllocPageFails
    BY <1>7, MapFailsType DEF AllocPageFails, SpawnError
  <1>8. CASE PageRefused
    BY <1>8, SpawnFailsType DEF PageRefused, SpawnError
  <1>9. CASE SegmentDone
    <2>1. segs \in Seq(Segment) /\ segs # <<>> /\ HeadersOk(segs)
      BY <1>9 DEF SegmentDone, SegsInv, HeadersOk, TypeOK
    <2>2. Tail(segs) \in Seq(Segment)
      BY <2>1
    <2>3. page' \in Nat
      <3>1. CASE Tail(segs) = <<>>
        BY <1>9, <3>1, LayoutAssumption DEF SegmentDone, StackBase
      <3>2. CASE Tail(segs) # <<>>
        BY <1>9, <2>2, <3>2, SegmentFacts DEF SegmentDone
      <3> QED
        BY <3>1, <3>2
    <2>4. Tail(segs) # <<>> => HeadersOk(Tail(segs))
      <3>1. \A i \in DOMAIN Tail(segs) : i + 1 \in DOMAIN segs /\ Tail(segs)[i] = segs[i + 1]
        BY <2>1
      <3> QED
        BY <2>1, <3>1 DEF HeadersOk
    <2> QED
      BY <1>9, <2>2, <2>3, <2>4 DEF SegmentDone, TypeOK, SegsInv
  <1>10. CASE StackDone
    BY <1>10 DEF StackDone, TypeOK, SegsInv
  <1>11. CASE NextLevelPresent
    <2>1. TypeOK'
      <3>1. lvl' \in 0 .. 3
        BY <1>11, TypeNumbers DEF NextLevelPresent
      <3> QED
        BY <1>11, <3>1 DEF NextLevelPresent, TypeOK
    <2>2. SegsInv'
      BY <1>11 DEF NextLevelPresent, SegsInv, HeadersOk
    <2> QED
      BY <2>1, <2>2
  <1>12. CASE NextLevelCreate
    <2>1. TypeOK'
      <3>1. lvl' \in 0 .. 3
        BY <1>12, TypeNumbers DEF NextLevelCreate
      <3>2. free' \subseteq Frame /\ tab' \in [Owner -> [Entry -> Frame \cup {0}]]
        BY <1>12, FreeHeadIsFree DEF NextLevelCreate, LinkTable, TypeOK
      <3> QED
        BY <1>12, <3>1, <3>2 DEF NextLevelCreate, TypeOK
    <2>2. SegsInv'
      BY <1>12 DEF NextLevelCreate, SegsInv, HeadersOk
    <2> QED
      BY <2>1, <2>2
  <1>13. CASE NextLevelFails
    BY <1>13, MapFailsType DEF NextLevelFails, SpawnError
  <1>14. CASE MapLeaf
    <2>1. TypeOK'
      <3>1. page' \in Nat /\ hand' \in Frame \cup {0}
        BY <1>14, TypeNumbers DEF MapLeaf
      <3>2. tab' \in [Owner -> [Entry -> Frame \cup {0}]]
        BY <1>14 DEF MapLeaf, TypeOK
      <3> QED
        BY <1>14, <3>1, <3>2 DEF MapLeaf, TypeOK
    <2>2. SegsInv'
      BY <1>14 DEF MapLeaf, SegsInv, HeadersOk
    <2> QED
      BY <2>1, <2>2
  <1>15. CASE MapLeafExists
    BY <1>15, MapFailsType DEF MapLeafExists, SpawnError
  <1>16. CASE \E p \in Proc : ProcessCreateUser(p)
    <2>1. PICK p \in Proc : ProcessCreateUser(p)
      BY <1>16
    <2>2. free' \subseteq Frame
      BY <2>1, TypeReap DEF ProcessCreateUser, TypeOK
    <2>3. tab' \in [Owner -> [Entry -> Frame \cup {0}]]
      <3>1. Without(Zombies \cup {Local}) \in [Owner -> [Entry -> Frame \cup {0}]]
        BY WithoutType
      <3>2. tab[Local] \in [Entry -> Frame \cup {0}]
        BY DEF TypeOK, Owner
      <3> QED
        BY <2>1, <3>1, <3>2 DEF ProcessCreateUser
    <2>4. heapStart' \in [Proc -> Nat] /\ brk' \in [Proc -> Nat]
      <3>1. imageEnd * PageSize \in Nat
        BY GeometryAssumption, TypeNumbers
      <3> QED
        BY <2>1, <3>1, TypeReap DEF ProcessCreateUser, TypeOK
    <2>5. life' \in [Proc -> {"none", "alive", "zombie"}]
      BY <2>1 DEF ProcessCreateUser, TypeOK
    <2>6. Return("ok") /\ exits' = exits
      BY <2>1 DEF ProcessCreateUser
    <2> QED
      BY <2>2, <2>3, <2>4, <2>5, <2>6, ReturnType DEF TypeOK
  <1>17. CASE NoSlotLeft
    BY <1>17, SpawnFailsType DEF NoSlotLeft, SpawnError
  <1>18. CASE BrkGrown
    <2>1. brk' \in [Proc -> Nat]
      BY <1>18 DEF BrkGrown, TypeOK
    <2> QED
      BY <1>18, <2>1, ReturnType DEF BrkGrown, TypeOK
  <1>19. CASE BrkShrunk
    <2>1. brk' \in [Proc -> Nat]
      BY <1>19 DEF BrkShrunk, TypeOK
    <2> QED
      BY <1>19, <2>1, ReturnType DEF BrkShrunk, TypeOK
  <1>20. CASE BrkRolledBack
    BY <1>20, ReturnType DEF BrkRolledBack, TypeOK
  <1>21. CASE UnmapFreePage
    <2>1. At(0, page) \in Entry
      <3>1. page \in Page
        BY <1>21, LayoutAssumption, TypeNumbers DEF UnmapFreePage, LimitInv, HeapCall, Page
      <3> QED
        BY <3>1, EntryIsAt
    <2>0. page' \in Nat
      BY <1>21, TypeNumbers DEF UnmapFreePage
    <2>2. SegsInv'
      BY <1>21 DEF UnmapFreePage, SegsInv
    <2>3. CASE \A m \in 0 .. 4 : tab[own][At(m, page)] # 0
      <3>1. tab[own][At(0, page)] # 0
        BY <2>3
      <3>2. tab[own][At(0, page)] \in Frame
        BY <2>1, <3>1 DEF TypeOK
      <3>3. /\ free' = free \cup {tab[own][At(0, page)]}
            /\ tab' = [tab EXCEPT ![own][At(0, page)] = 0]
        BY <1>21, <2>3 DEF UnmapFreePage
      <3>4. free' \subseteq Frame /\ tab' \in [Owner -> [Entry -> Frame \cup {0}]]
        BY <3>2, <3>3 DEF TypeOK
      <3> QED
        BY <1>21, <2>0, <2>2, <3>4 DEF UnmapFreePage, TypeOK
    <2>4. CASE ~ \A m \in 0 .. 4 : tab[own][At(m, page)] # 0
      <3>1. UNCHANGED mem
        BY <1>21, <2>4 DEF UnmapFreePage
      <3> QED
        BY <1>21, <2>0, <2>2, <3>1 DEF UnmapFreePage, TypeOK
    <2> QED
      BY <2>3, <2>4
  <1>22. CASE \E p \in Proc : ProcessExit(p)
    <2>1. TypeOK'
      <3>1. exits' \in Nat
        BY <1>22, TypeNumbers DEF ProcessExit
      <3>2. life' \in [Proc -> {"none", "alive", "zombie"}]
        BY <1>22 DEF ProcessExit, TypeOK
      <3> QED
        BY <1>22, <3>1, <3>2 DEF ProcessExit, TypeOK
    <2>2. SegsInv'
      BY <1>22 DEF ProcessExit, SegsInv, HeadersOk
    <2> QED
      BY <2>1, <2>2
  <1>23. ASSUME NEW p \in Proc, NEW inc \in Increment, BrkGrow(p, inc) PROVE TypeOK' /\ SegsInv'
    <2>1. brk[p] \in Nat /\ inc \in Nat /\ brk[p] + inc \in Nat
      BY <1>23, InputAssumption, TypeNumbers DEF BrkGrow, MayGrow
    <2>2. PageAbove(brk[p]) \in Nat /\ PageAbove(brk[p] + inc) \in Nat
      BY <2>1, PageAboveFacts
    <2> QED
      BY <1>23, <2>1, <2>2 DEF BrkGrow, TypeOK, SegsInv, Owner
  <1>24. ASSUME NEW p \in Proc, NEW inc \in Increment, BrkShrink(p, inc) PROVE TypeOK' /\ SegsInv'
    <2>1. brk[p] \in Nat /\ brk[p] + inc \in Nat
      BY <1>24, InputAssumption, TypeNumbers DEF BrkShrink, MayShrink
    <2>2. PageAbove(brk[p]) \in Nat /\ PageAbove(brk[p] + inc) \in Nat
      BY <2>1, PageAboveFacts
    <2> QED
      BY <1>24, <2>1, <2>2 DEF BrkShrink, TypeOK, SegsInv, Owner
  <1>25. CASE ReapTerminated
    <2>1. free' \subseteq Frame /\ tab' \in [Owner -> [Entry -> Frame \cup {0}]]
      BY <1>25, TypeReap, WithoutType DEF ReapTerminated, TypeOK
    <2>2. heapStart' \in [Proc -> Nat] /\ brk' \in [Proc -> Nat]
      BY <1>25, TypeReap DEF ReapTerminated, TypeOK
    <2>3. life' \in [Proc -> {"none", "alive", "zombie"}]
      BY <1>25 DEF ReapTerminated, TypeOK
    <2> QED
      BY <1>25, <2>1, <2>2, <2>3 DEF ReapTerminated, TypeOK, SegsInv
  <1>26. CASE UNCHANGED vars
    BY <1>26 DEF vars, TypeOK, SegsInv, HeadersOk
  <1> QED
    BY <1>1, <1>2, <1>3, <1>4, <1>5, <1>6, <1>7, <1>8, <1>9, <1>10, <1>11, <1>12, <1>13, <1>14,
       <1>15, <1>16, <1>17, <1>18, <1>19, <1>20, <1>21, <1>22, <1>23, <1>24, <1>25, <1>26
    DEF Next, Spawn, KernelStep

\* The limits hold at boot.
LEMMA LimitInit == Init => LimitInv
  BY DEF Init, LimitInv, Spawning, HeapCall

\* A return leaves no call in progress.
LEMMA ReturnLimit ==
    ASSUME NEW how, Return(how)
    PROVE  ~Spawning' /\ ~HeapCall' /\ pc' = "user"
  BY DEF Return, Spawning, HeapCall

\* The error path of process_spawn keeps the limits.
LEMMA SpawnFailsLimit ==
    ASSUME LimitInv, NEW why, SpawnFails(why)
    PROVE  LimitInv'
  BY ReturnLimit DEF SpawnFails, LimitInv, procs

\* So does a failed mapping; in the heap it turns the loop into the rollback of what it mapped.
LEMMA MapFailsLimit ==
    ASSUME TypeOK, LimitInv, NEW why, MapFails(why), pc \in {"loop", "walk"}, ~LoopDone
    PROVE  LimitInv'
  <1>1. CASE loop = "grow"
    <2>1. StartRollback
      BY <1>1 DEF MapFails
    <2>2. HeapCall /\ HeapCall' /\ ~Spawning' /\ pc' # "walk"
      BY <1>1, <2>1 DEF StartRollback, HeapCall, Spawning
    <2>3. page < last
      BY <1>1, TypeNumbers DEF LoopDone
    <2>4. first <= page /\ page <= StackGuard
      BY <2>2, <2>3, TypeNumbers, LayoutAssumption DEF LimitInv
    <2> QED
      BY <2>1, <2>2, <2>4, TypeNumbers DEF StartRollback, LimitInv, procs
  <1>2. CASE loop # "grow"
    BY <1>2, SpawnFailsLimit DEF MapFails
  <1> QED
    BY <1>1, <1>2

\* Every step keeps the limits: the checks of elf.c and umem_brk are enough, and nothing moves a
\* brk or ends a process while umem_brk is in a loop for it.
LEMMA LimitNext == TypeOK /\ SegsInv /\ LimitInv /\ [Next]_vars => LimitInv'
  <1> SUFFICES ASSUME TypeOK, SegsInv, LimitInv, [Next]_vars PROVE LimitInv'
    OBVIOUS
  <1> USE DEF mem, procs, args
  <1>1. CASE (\E img \in Image : SpawnCall(img)) \/ AddrspaceCreate \/ StackDone
    BY <1>1 DEF SpawnCall, AddrspaceCreate, StackDone, LimitInv, Spawning, HeapCall
  <1>2. CASE AddrspaceCreateFails \/ BrkRolledBack
    BY <1>2, ReturnLimit DEF AddrspaceCreateFails, BrkRolledBack, LimitInv
  <1>3. CASE ElfHeader
    <2>1. ImageEnd(segs) <= ElfMax
      <3>1. HeadersOk(segs) /\ segs \in Seq(Segment)
        BY <1>3 DEF ElfHeader, TypeOK
      <3>2. PICK i \in DOMAIN segs : ImageEnd(segs) = segs[i].to
        BY <3>1, ImageEndIsLargest
      <3> QED
        BY <3>1, <3>2 DEF HeadersOk
    <2>2. ~HeapCall' /\ pc' # "walk"
      BY <1>3 DEF ElfHeader, HeapCall
    <2> QED
      BY <1>3, <2>1, <2>2 DEF ElfHeader, LimitInv
  <1>4. CASE ElfHeaderFails \/ PageRefused \/ NoSlotLeft
    BY <1>4, SpawnFailsLimit DEF ElfHeaderFails, PageRefused, NoSlotLeft
  <1>5. CASE AllocPage
    BY <1>5 DEF AllocPage, LimitInv, Spawning, HeapCall, LoopDone
  <1>6. CASE AllocPageFails \/ NextLevelFails \/ MapLeafExists
    <2>1. pc \in {"loop", "walk"} /\ ~LoopDone
      BY <1>6 DEF AllocPageFails, NextLevelFails, MapLeafExists, LimitInv
    <2> QED
      BY <1>6, <2>1, MapFailsLimit DEF AllocPageFails, NextLevelFails, MapLeafExists
  <1>7. CASE SegmentDone
    BY <1>7 DEF SegmentDone, LimitInv, Spawning, HeapCall
  <1>8. CASE NextLevelPresent \/ NextLevelCreate
    BY <1>8 DEF NextLevelPresent, NextLevelCreate, LimitInv, Spawning, HeapCall, LoopDone
  <1>9. CASE MapLeaf
    <2>1. HeapCall' => HeapCall /\ loop = "grow"
      BY <1>9 DEF MapLeaf, HeapCall
    <2>2. HeapCall' => first <= page + 1 /\ page + 1 <= last
      BY <1>9, <2>1, TypeNumbers DEF MapLeaf, LimitInv, LoopDone
    <2>3. Spawning' => Spawning /\ pc \notin {"create", "header"}
      BY <1>9 DEF MapLeaf, Spawning
    <2> QED
      BY <1>9, <2>1, <2>2, <2>3 DEF MapLeaf, LimitInv
  <1>10. CASE \E p \in Proc : ProcessCreateUser(p)
    <2>1. PICK p \in Proc : ProcessCreateUser(p)
      BY <1>10
    <2>2. ~Spawning' /\ ~HeapCall' /\ pc' = "user"
      BY <2>1, ReturnLimit DEF ProcessCreateUser
    <2>3. imageEnd <= ElfMax
      BY <2>1 DEF ProcessCreateUser, LimitInv, Spawning
    <2>4. imageEnd * PageSize \in Nat /\ imageEnd * PageSize <= StackGuard * PageSize
      BY <2>3, TypeNumbers, LayoutAssumption, GeometryAssumption
    <2>5. ASSUME NEW q \in Proc, life'[q] = "alive"
          PROVE  heapStart'[q] <= brk'[q] /\ brk'[q] <= StackGuard * PageSize
      <3>1. CASE q = p
        <4>1. heapStart'[q] = imageEnd * PageSize /\ brk'[q] = imageEnd * PageSize
          BY <2>1, <3>1 DEF ProcessCreateUser, Cleared
        <4> QED
          BY <2>4, <4>1
      <3>2. CASE q # p
        <4>1. life[q] = "alive" /\ q \notin Zombies
          BY <2>1, <2>5, <3>2 DEF ProcessCreateUser, Zombies
        <4>2. heapStart'[q] = heapStart[q] /\ brk'[q] = brk[q]
          BY <2>1, <3>2, <4>1 DEF ProcessCreateUser, Cleared
        <4> QED
          BY <4>1, <4>2 DEF LimitInv
      <3> QED
        BY <3>1, <3>2
    <2> QED
      BY <2>2, <2>5 DEF LimitInv
  <1>11. CASE BrkGrown \/ BrkShrunk
    <2>1. ~Spawning' /\ ~HeapCall' /\ pc' = "user"
      BY <1>11, ReturnLimit DEF BrkGrown, BrkShrunk
    <2>2. HeapCall
      BY <1>11 DEF BrkGrown, BrkShrunk, HeapCall
    <2>3. /\ life' = life /\ heapStart' = heapStart /\ own \in Proc
          /\ \A p \in Proc : brk'[p] = IF p = own THEN target ELSE brk[p]
      BY <1>11, <2>2 DEF BrkGrown, BrkShrunk, TypeOK, LimitInv
    <2> QED
      BY <2>1, <2>2, <2>3 DEF LimitInv
  <1>12. CASE UnmapFreePage
    <2>1. HeapCall /\ ~Spawning' /\ pc' # "walk" /\ page + 1 <= last
      BY <1>12, TypeNumbers DEF UnmapFreePage, HeapCall, Spawning
    <2>2. first <= page'
      BY <1>12, <2>1, TypeNumbers DEF UnmapFreePage, LimitInv
    <2>3. /\ UNCHANGED <<life, heapStart, brk, own, first, last, target, imageEnd>>
          /\ page' = page + 1
      BY <1>12 DEF UnmapFreePage
    <2> QED
      BY <2>1, <2>2, <2>3 DEF LimitInv
  <1>13. CASE \E p \in Proc : ProcessExit(p)
    <2>1. ~Spawning' /\ ~HeapCall' /\ pc' = "user"
      BY <1>13 DEF ProcessExit, HeapCall, Spawning
    <2>2. \A p \in Proc : life'[p] = "alive" => life[p] = "alive"
      BY <1>13 DEF ProcessExit, TypeOK
    <2> QED
      BY <1>13, <2>1, <2>2 DEF ProcessExit, LimitInv
  <1>14. ASSUME NEW p \in Proc, NEW inc \in Increment, BrkGrow(p, inc) PROVE LimitInv'
    <2>1. /\ brk[p] \in Nat /\ heapStart[p] \in Nat /\ inc \in Nat /\ brk[p] + inc \in Nat
          /\ heapStart[p] <= brk[p] /\ brk[p] + inc < StackGuard * PageSize
      <3>1. MayGrow(p, inc) /\ heapStart[p] <= brk[p]
        BY <1>14 DEF BrkGrow, LimitInv
      <3> QED
        BY <3>1, GrowFacts
    <2>2. brk[p] + inc <= StackGuard * PageSize
      BY <2>1, LayoutAssumption, GeometryAssumption
    <2>3. PageAbove(brk[p]) <= PageAbove(brk[p] + inc) /\ PageAbove(brk[p] + inc) <= StackGuard
      BY <2>1, <2>2, PageAboveMonotone, PageAboveBound, LayoutAssumption
    <2>4. ~Spawning' /\ pc' # "walk"
      BY <1>14 DEF BrkGrow, Spawning
    <2>5. /\ own' = p /\ life' = life /\ life[p] = "alive" /\ target' = brk[p] + inc
          /\ UNCHANGED <<heapStart, brk>>
          /\ first' = PageAbove(brk[p]) /\ page' = first' /\ last' = PageAbove(brk[p] + inc)
      BY <1>14 DEF BrkGrow
    <2> QED
      BY <2>1, <2>2, <2>3, <2>4, <2>5, PageAboveFacts DEF LimitInv
  <1>15. ASSUME NEW p \in Proc, NEW inc \in Increment, BrkShrink(p, inc) PROVE LimitInv'
    <2>1. /\ brk[p] \in Nat /\ heapStart[p] \in Nat /\ brk[p] + inc \in Nat
          /\ heapStart[p] <= brk[p] + inc /\ brk[p] + inc <= brk[p]
      <3>1. MayShrink(p, inc)
        BY <1>15 DEF BrkShrink
      <3> QED
        BY <3>1, ShrinkFacts
    <2>2. brk[p] <= StackGuard * PageSize
      BY <1>15 DEF BrkShrink, LimitInv
    <2>3. PageAbove(brk[p] + inc) <= PageAbove(brk[p]) /\ PageAbove(brk[p]) <= StackGuard
      BY <2>1, <2>2, PageAboveMonotone, PageAboveBound, LayoutAssumption
    <2>4. ~Spawning' /\ pc' # "walk"
      BY <1>15 DEF BrkShrink, Spawning
    <2>5. /\ own' = p /\ life' = life /\ life[p] = "alive" /\ target' = brk[p] + inc
          /\ UNCHANGED <<heapStart, brk>>
          /\ first' = PageAbove(brk[p] + inc) /\ page' = first' /\ last' = PageAbove(brk[p])
      BY <1>15 DEF BrkShrink
    <2>6. brk[p] + inc <= StackGuard * PageSize
      BY <2>1, <2>2, LayoutAssumption, GeometryAssumption
    <2> QED
      BY <2>1, <2>3, <2>4, <2>5, <2>6, PageAboveFacts DEF LimitInv
  <1>16. CASE ReapTerminated
    <2>1. ~Spawning' /\ ~HeapCall' /\ pc' = "user"
      BY <1>16 DEF ReapTerminated, HeapCall, Spawning
    <2>2. \A p \in Proc : life'[p] = "alive" =>
            life[p] = "alive" /\ heapStart'[p] = heapStart[p] /\ brk'[p] = brk[p]
      BY <1>16 DEF ReapTerminated, Zombies, Cleared
    <2> QED
      BY <2>1, <2>2 DEF LimitInv
  <1>17. CASE UNCHANGED vars
    BY <1>17 DEF vars, LimitInv, Spawning, HeapCall, LoopDone
  <1> QED
    BY <1>1, <1>2, <1>3, <1>4, <1>5, <1>6, <1>7, <1>8, <1>9, <1>10, <1>11, <1>12, <1>13, <1>14,
       <1>15, <1>16, <1>17 DEF Next, Spawn, KernelStep

\* Memory keeps its types: no frame number, page, level or program break ever leaves
\* its range.
THEOREM TypeCorrect == Spec => []TypeOK
  <1>1. Init => TypeOK /\ SegsInv /\ LimitInv
    BY TypeInit, LimitInit
  <1>2. TypeOK /\ SegsInv /\ LimitInv /\ [Next]_vars => TypeOK' /\ SegsInv' /\ LimitInv'
    BY TypeNext, LimitNext
  <1> QED
    BY <1>1, <1>2, PTL DEF Spec

\* A table that has an entry has the entries above it.
Closed(t) == \A v \in Page : \A l, m \in 0 .. 4 : l <= m /\ t[At(l, v)] # 0 => t[At(m, v)] # 0

\* Every frame is in one place: on the free list, in hand, or at one entry.
FrameInv ==
    /\ \A o \in Owner : Closed(tab[o])
    /\ \A o, q \in Owner : \A k, j \in Entry :
          tab[o][k] # 0 /\ tab[o][k] = tab[q][j] => o = q /\ k = j
    /\ \A o \in Owner : \A k \in Entry : tab[o][k] # 0 => tab[o][k] \notin free /\ tab[o][k] # hand
    /\ hand \notin free
    /\ \A f \in Frame : f \in free \/ f = hand \/ \E o \in Owner : \E k \in Entry : tab[o][k] = f

\* A slot in no use has no tables, a live process has its PML4, and the space under
\* construction exists exactly between paging_addrspace_create and the end of process_spawn.
SpaceInv ==
    /\ \A p \in Proc : life[p] = "none" => tab[p] = Empty
    /\ \A p \in Proc : life[p] = "alive" => tab[p][Root] # 0
    /\ ~Spawning \/ pc = "create" => tab[Local] = Empty
    /\ Spawning /\ pc # "create" => tab[Local][Root] # 0

\* The call in progress: who it works for, when it has a frame in hand, and how far the walk of
\* paging_map_page has linked tables.
CallInv ==
    /\ pc # "user" => Spawning \/ HeapCall
    /\ Spawning => own = Local
    /\ hand # 0 <=> pc = "walk"
    /\ pc = "walk" => \A m \in lvl + 1 .. 4 : tab[own][At(m, page)] # 0

\* In a table without holes paging_addrspace_destroy meets every entry in use.
LEMMA ReachedIsUsed ==
    ASSUME NEW t \in [Entry -> Frame \cup {0}], Closed(t)
    PROVE  Reached(t) = {k \in Entry : t[k] # 0}
  <1>1. ASSUME NEW k \in Reached(t) PROVE k \in Entry /\ t[k] # 0
    <2>1. PICK x \in (0 .. 4) \X Page :
            k = At(x[1], x[2]) /\ \A m \in x[1] .. 4 : t[At(m, x[2])] # 0
      BY DEF Reached
    <2>2. PICK l \in 0 .. 4, v \in Page : k = At(l, v) /\ \A m \in l .. 4 : t[At(m, v)] # 0
      BY <2>1
    <2>3. l \in l .. 4
      BY <2>2
    <2> QED
      BY <2>2, <2>3, EntryIsAt
  <1>2. ASSUME NEW k \in Entry, t[k] # 0 PROVE k \in Reached(t)
    <2>1. PICK l \in 0 .. 4, v \in Page : k = At(l, v)
      BY EntryIsAt
    <2>2. \A m \in l .. 4 : t[At(m, v)] # 0
      BY <1>2, <2>1 DEF Closed
    <2>3. <<l, v>> \in (0 .. 4) \X Page /\ <<l, v>>[1] = l /\ <<l, v>>[2] = v
      BY <2>1
    <2>4. \A m \in <<l, v>>[1] .. 4 : t[At(m, <<l, v>>[2])] # 0
      BY <2>2, <2>3
    <2>5. <<l, v>> \in {x \in (0 .. 4) \X Page : \A m \in x[1] .. 4 : t[At(m, x[2])] # 0}
      BY <2>3, <2>4
    <2> QED
      BY <2>1, <2>3, <2>5 DEF Reached
  <1> QED
    BY <1>1, <1>2

\* What paging_addrspace_destroy frees is all the spaces hold.
LEMMA FramesOfMembers ==
    ASSUME TypeOK, FrameInv, NEW O \in SUBSET Owner
    PROVE  \A f : f \in FramesOf(O) <=> f # 0 /\ \E o \in O : \E k \in Entry : tab[o][k] = f
  <1>1. ASSUME NEW o \in O PROVE Reached(tab[o]) = {k \in Entry : tab[o][k] # 0}
    <2>1. o \in Owner
      OBVIOUS
    <2>2. tab[o] \in [Entry -> Frame \cup {0}]
      BY <2>1 DEF TypeOK
    <2>3. Closed(tab[o])
      BY <2>1 DEF FrameInv
    <2> QED
      BY <2>2, <2>3, ReachedIsUsed
  <1> QED
    BY <1>1 DEF FramesOf

\* The tables that are left when the spaces in O are gone.
LEMMA WithoutIs ==
    ASSUME NEW O
    PROVE  \A o \in Owner : \A k \in Entry : Without(O)[o][k] = IF o \in O THEN 0 ELSE tab[o][k]
  BY DEF Without, Empty

\* paging_addrspace_destroy of the spaces in O, with or without the frame in hand.
LEMMA DestroyFrames ==
    ASSUME TypeOK, FrameInv, NEW O \in SUBSET Owner, NEW H \in SUBSET ({hand} \ {0}),
           hand' = IF H = {} THEN hand ELSE 0,
           free' = free \cup FramesOf(O) \cup H,
           tab' = Without(O)
    PROVE  FrameInv'
  <1>1. \A f : f \in FramesOf(O) <=> f # 0 /\ \E o \in O : \E k \in Entry : tab[o][k] = f
    BY FramesOfMembers
  <1>2. \A o \in Owner : \A k \in Entry : tab'[o][k] = IF o \in O THEN 0 ELSE tab[o][k]
    BY WithoutIs
  <1>3. \A o \in Owner : Closed(tab[o])'
    BY <1>2, EntryIsAt DEF FrameInv, Closed
  <1>4. \A o, q \in Owner : \A k, j \in Entry :
          tab'[o][k] # 0 /\ tab'[o][k] = tab'[q][j] => o = q /\ k = j
    BY <1>2 DEF FrameInv
  <1>5. \A o \in Owner : \A k \in Entry :
          tab'[o][k] # 0 => tab'[o][k] \notin free' /\ tab'[o][k] # hand'
    <2> SUFFICES ASSUME NEW o \in Owner, NEW k \in Entry, tab'[o][k] # 0
                 PROVE  tab'[o][k] \notin free' /\ tab'[o][k] # hand'
      OBVIOUS
    <2>1. o \notin O /\ tab'[o][k] = tab[o][k]
      BY <1>2
    <2>2. tab[o][k] \notin FramesOf(O)
      BY <1>1, <2>1 DEF FrameInv
    <2> QED
      BY <2>1, <2>2 DEF FrameInv
  <1>6. hand' \notin free'
    <2>1. 0 \notin free /\ 0 \notin FramesOf(O)
      BY <1>1, FrameAssumption DEF TypeOK
    <2>2. hand \notin FramesOf(O)
      BY <1>1 DEF FrameInv
    <2> QED
      BY <2>1, <2>2 DEF FrameInv
  <1>7. ASSUME NEW f \in Frame
        PROVE  f \in free' \/ f = hand' \/ \E o \in Owner : \E k \in Entry : tab'[o][k] = f
    <2>0. f # 0
      BY FrameAssumption
    <2>1. CASE f \in free
      BY <2>1
    <2>2. CASE f = hand
      BY <2>0, <2>2
    <2>3. CASE \E o \in Owner : \E k \in Entry : tab[o][k] = f
      <3>1. PICK o \in Owner, k \in Entry : tab[o][k] = f
        BY <2>3
      <3>2. CASE o \in O
        BY <1>1, <2>0, <3>1, <3>2
      <3>3. CASE o \notin O
        BY <1>2, <3>1, <3>3
      <3> QED
        BY <3>2, <3>3
    <2> QED
      BY <2>1, <2>2, <2>3 DEF FrameInv
  <1> QED
    BY <1>3, <1>4, <1>5, <1>6, <1>7 DEF FrameInv

\* A frame from the free list or from the hand goes into an entry below present ones.
LEMMA LinkFrames ==
    ASSUME TypeOK, FrameInv, NEW o \in Owner, NEW l \in 0 .. 4, NEW v \in Page,
           \A m \in l + 1 .. 4 : tab[o][At(m, v)] # 0,
           tab[o][At(l, v)] = 0,
           NEW f \in Frame, f \in free \/ f = hand,
           free' = free \ {f}, hand' = IF f = hand THEN 0 ELSE hand,
           tab' = [tab EXCEPT ![o][At(l, v)] = f]
    PROVE  FrameInv'
  <1> DEFINE e == At(l, v)
  <1>0. e \in Entry /\ f # 0
    BY EntryIsAt, FrameAssumption
  <1>1. \A q \in Owner : \A j \in Entry : tab'[q][j] = IF q = o /\ j = e THEN f ELSE tab[q][j]
    BY <1>0 DEF TypeOK
  <1>2. ASSUME NEW q \in Owner PROVE Closed(tab[q])'
    <2> SUFFICES ASSUME NEW w \in Page, NEW m \in 0 .. 4, NEW n \in 0 .. 4, m <= n,
                        tab'[q][At(m, w)] # 0
                 PROVE  tab'[q][At(n, w)] # 0
      BY DEF Closed
    <2>1. At(m, w) \in Entry /\ At(n, w) \in Entry
      BY EntryIsAt
    <2>2. CASE tab[q][At(m, w)] # 0
      BY <1>0, <1>1, <2>1, <2>2 DEF FrameInv, Closed
    <2>3. CASE tab[q][At(m, w)] = 0
      <3>1. q = o /\ At(m, w) = At(l, v)
        BY <1>1, <2>1, <2>3
      <3>2. m = l
        BY <3>1, AtLevelsDiffer
      <3>3. At(n, w) = At(n, v)
        BY <3>1, <3>2, AtParents
      <3>4. CASE n = l
        BY <1>0, <1>1, <3>1, <3>2, <3>4
      <3>5. CASE n # l
        <4>1. n \in l + 1 .. 4
          BY <3>2, <3>5
        <4> QED
          BY <1>0, <1>1, <2>1, <3>1, <3>3, <4>1
      <3> QED
        BY <3>4, <3>5
    <2> QED
      BY <2>2, <2>3
  <1> HIDE DEF e
  <1>3. \A q, r \in Owner : \A k, j \in Entry :
          tab'[q][k] # 0 /\ tab'[q][k] = tab'[r][j] => q = r /\ k = j
    BY <1>0, <1>1 DEF FrameInv
  <1>4. \A q \in Owner : \A k \in Entry :
          tab'[q][k] # 0 => tab'[q][k] \notin free' /\ tab'[q][k] # hand'
    BY <1>0, <1>1 DEF FrameInv
  <1>5. hand' \notin free'
    BY FrameAssumption DEF FrameInv, TypeOK
  <1>6. ASSUME NEW g \in Frame
        PROVE  g \in free' \/ g = hand' \/ \E q \in Owner : \E k \in Entry : tab'[q][k] = g
    <2>1. CASE g = f
      BY <1>0, <1>1, <2>1
    <2>2. CASE g # f /\ \E q \in Owner : \E k \in Entry : tab[q][k] = g
      <3>1. PICK q \in Owner, k \in Entry : tab[q][k] = g
        BY <2>2
      <3>2. g # 0
        BY FrameAssumption
      <3>3. tab[o][e] = 0
        BY DEF e
      <3>4. tab'[q][k] = g
        BY <1>1, <3>1, <3>2, <3>3
      <3> QED
        BY <3>4
    <2> QED
      BY <2>1, <2>2 DEF FrameInv
  <1> QED
    BY <1>2, <1>3, <1>4, <1>5, <1>6 DEF FrameInv

\* A leaf is taken out and its frame freed; the tables above it stay.
LEMMA UnlinkFrames ==
    ASSUME TypeOK, FrameInv, NEW o \in Owner, NEW v \in Page,
           tab[o][At(0, v)] # 0,
           free' = free \cup {tab[o][At(0, v)]}, hand' = hand,
           tab' = [tab EXCEPT ![o][At(0, v)] = 0]
    PROVE  FrameInv'
  <1> DEFINE e == At(0, v)
  <1>0. e \in Entry
    BY EntryIsAt
  <1>1. \A q \in Owner : \A j \in Entry : tab'[q][j] = IF q = o /\ j = e THEN 0 ELSE tab[q][j]
    BY <1>0 DEF TypeOK
  <1>2. ASSUME NEW q \in Owner PROVE Closed(tab[q])'
    <2> SUFFICES ASSUME NEW w \in Page, NEW m \in 0 .. 4, NEW n \in 0 .. 4, m <= n,
                        tab'[q][At(m, w)] # 0
                 PROVE  tab'[q][At(n, w)] # 0
      BY DEF Closed
    <2>1. At(m, w) \in Entry /\ At(n, w) \in Entry
      BY EntryIsAt
    <2>2. tab[q][At(m, w)] # 0 /\ tab[q][At(n, w)] # 0
      BY <1>1, <2>1 DEF FrameInv, Closed
    <2>3. SUFFICES ASSUME q = o, At(n, w) = At(0, v) PROVE FALSE
      BY <1>1, <2>1, <2>2
    <2>4. n = 0
      BY <2>3, AtLevelsDiffer
    <2>5. At(m, w) = e
      BY <2>3, <2>4
    <2> QED
      BY <1>1, <2>1, <2>3, <2>5
  <1> HIDE DEF e
  <1>3. \A q, r \in Owner : \A k, j \in Entry :
          tab'[q][k] # 0 /\ tab'[q][k] = tab'[r][j] => q = r /\ k = j
    BY <1>0, <1>1 DEF FrameInv
  <1>7. free' = free \cup {tab[o][e]} /\ tab[o][e] # 0
    BY DEF e
  <1>4. \A q \in Owner : \A k \in Entry :
          tab'[q][k] # 0 => tab'[q][k] \notin free' /\ tab'[q][k] # hand'
    BY <1>0, <1>1, <1>7 DEF FrameInv
  <1>5. hand' \notin free'
    BY <1>0, <1>7 DEF FrameInv
  <1>6. ASSUME NEW g \in Frame
        PROVE  g \in free' \/ g = hand' \/ \E q \in Owner : \E k \in Entry : tab'[q][k] = g
    BY <1>0, <1>1, <1>7, FrameAssumption DEF FrameInv
  <1> QED
    BY <1>2, <1>3, <1>4, <1>5, <1>6 DEF FrameInv

\* The page of a walk is a page of the address space.
LEMMA WalkPage ==
    ASSUME TypeOK, SegsInv, LimitInv, pc = "walk"
    PROVE  page \in Page
  <1>1. CASE loop = "load"
    <2>1. segs \in Seq(Segment) /\ segs # <<>> /\ HeadersOk(segs)
      BY <1>1 DEF SegsInv, HeadersOk, TypeOK
    <2>2. 1 \in DOMAIN segs /\ Head(segs) = segs[1] /\ segs[1] \in Segment
      BY <2>1
    <2>3. Head(segs).to \in Nat /\ Head(segs).to <= ElfMax
      BY <2>1, <2>2, SegmentFacts DEF HeadersOk
    <2>4. page < Head(segs).to
      BY <1>1, <2>3, TypeNumbers DEF LimitInv, LoopDone
    <2> QED
      BY <2>3, <2>4, TypeNumbers, LayoutAssumption DEF Page
  <1>2. CASE loop = "stack"
    BY <1>2, TypeNumbers, LayoutAssumption DEF LimitInv, LoopDone, Page
  <1>3. CASE loop = "grow"
    <2>1. page < last /\ last <= StackGuard
      BY <1>3, TypeNumbers DEF LimitInv, LoopDone, HeapCall
    <2> QED
      BY <2>1, TypeNumbers, LayoutAssumption DEF Page
  <1> QED
    BY <1>1, <1>2, <1>3 DEF TypeOK

\* The space under construction is that of no process; an empty space has no entry.
LEMMA OwnerFacts == /\ Local \in Owner /\ Proc \subseteq Owner /\ Local \notin Proc
                    /\ \A k \in Entry : Empty[k] = 0
                    /\ Root \in Entry
  BY ProcAssumption DEF Owner, Local, Empty, Entry

\* An entry of the space at work is set: the space invariants survive when the root does.
LEMMA EntrySetSpaces ==
    ASSUME TypeOK, LimitInv, CallInv, SpaceInv, pc # "user", pc # "create",
           pc' \in {"loop", "walk", "shrink", "rollback"}, Spawning' <=> Spawning, life' = life,
           NEW e \in Entry, NEW f, f # 0 \/ e # Root,
           tab' = [tab EXCEPT ![own][e] = f]
    PROVE  SpaceInv'
  <1>1. Spawning \/ HeapCall
    BY DEF CallInv
  <1>2. \A q \in Owner : q # own => tab'[q] = tab[q]
    BY DEF TypeOK
  <1>3. own \in Owner /\ tab'[own][Root] = IF e = Root THEN f ELSE tab[own][Root]
    BY OwnerFacts DEF TypeOK
  <1>4. CASE Spawning
    <2>1. own = Local
      BY <1>4 DEF CallInv
    <2>2. \A p \in Proc : tab'[p] = tab[p]
      BY <1>2, <2>1, OwnerFacts
    <2> QED
      BY <1>3, <1>4, <2>1, <2>2 DEF SpaceInv
  <1>5. CASE ~Spawning
    <2>1. own \in Proc /\ life[own] = "alive" /\ own # Local
      BY <1>1, <1>5, OwnerFacts DEF LimitInv
    <2>2. tab'[Local] = tab[Local]
      BY <1>2, <2>1, OwnerFacts
    <2> QED
      BY <1>2, <1>3, <1>5, <2>1, <2>2, OwnerFacts DEF SpaceInv
  <1> QED
    BY <1>4, <1>5

\* The frame in hand goes back to the free list.
LEMMA HandFreed ==
    ASSUME FrameInv, TypeOK, free' = free \cup ({hand} \ {0}), hand' = 0, tab' = tab
    PROVE  FrameInv'
  <1>1. \A o \in Owner : Closed(tab[o])'
    BY DEF FrameInv, Closed
  <1>2. 0 \notin free
    BY FrameAssumption DEF TypeOK
  <1>3. \A o \in Owner : \A k \in Entry :
          tab'[o][k] # 0 => tab'[o][k] \notin free' /\ tab'[o][k] # hand'
    BY DEF FrameInv
  <1>4. hand' \notin free'
    BY <1>2
  <1>5. \A f \in Frame :
          f \in free' \/ f = hand' \/ \E o \in Owner : \E k \in Entry : tab'[o][k] = f
    BY FrameAssumption DEF FrameInv
  <1> QED
    BY <1>1, <1>3, <1>4, <1>5 DEF FrameInv

\* The new process gets the tables that were built, after the zombies gave theirs back.
LEMMA MoveFrames ==
    ASSUME TypeOK, FrameInv, NEW O \in SUBSET Proc, NEW p \in Proc,
           p \in O \/ tab[p] = Empty,
           free' = free \cup FramesOf(O), hand' = hand,
           tab' = [Without(O \cup {Local}) EXCEPT ![p] = tab[Local]]
    PROVE  FrameInv'
  <1>0. O \subseteq Owner /\ Local \notin O /\ p # Local /\ p \in Owner
    BY OwnerFacts
  <1>1. \A f : f \in FramesOf(O) <=> f # 0 /\ \E o \in O : \E k \in Entry : tab[o][k] = f
    BY <1>0, FramesOfMembers
  <1>2. \A o \in Owner : \A k \in Entry :
          tab'[o][k] = IF o = p THEN tab[Local][k]
                       ELSE IF o \in O \/ o = Local THEN 0 ELSE tab[o][k]
    BY <1>0, WithoutIs DEF Without
  <1> DEFINE from(o) == IF o = p THEN Local ELSE o
  <1>8. \A o \in Owner : \A k \in Entry : tab'[o][k] # 0 =>
          tab'[o][k] = tab[from(o)][k] /\ from(o) \in Owner \ O /\ o # Local
                                      /\ (o = p \/ o \notin O)
    <2> SUFFICES ASSUME NEW o \in Owner, NEW k \in Entry, tab'[o][k] # 0
                 PROVE  tab'[o][k] = tab[from(o)][k] /\ from(o) \in Owner \ O /\ o # Local
                                                    /\ (o = p \/ o \notin O)
      OBVIOUS
    <2>1. CASE o = p
      <3>1. from(o) = Local /\ tab'[o][k] = tab[Local][k]
        BY <1>2, <2>1
      <3> QED
        BY <1>0, <2>1, <3>1, OwnerFacts
    <2>2. CASE o # p
      <3>1. tab'[o][k] = IF o \in O \/ o = Local THEN 0 ELSE tab[o][k]
        BY <1>2, <2>2
      <3>2. from(o) = o
        BY <2>2
      <3> HIDE DEF from
      <3>3. o \notin O /\ o # Local /\ tab'[o][k] = tab[o][k]
        BY <3>1
      <3> QED
        BY <3>2, <3>3
    <2> QED
      BY <2>1, <2>2
  <1>9. \A o, q \in Owner : o # Local /\ q # Local /\ from(o) = from(q) => o = q
    OBVIOUS
  <1>10. \A o \in Owner : \A k \in Entry : o # Local /\ (o = p \/ o \notin O) =>
           tab'[o][k] = tab[from(o)][k]
    BY <1>2
  <1> HIDE DEF from
  <1>3. ASSUME NEW o \in Owner PROVE Closed(tab[o])'
    <2> SUFFICES ASSUME NEW v \in Page, NEW l \in 0 .. 4, NEW m \in 0 .. 4, l <= m,
                        tab'[o][At(l, v)] # 0
                 PROVE  tab'[o][At(m, v)] # 0
      BY DEF Closed
    <2>1. At(l, v) \in Entry /\ At(m, v) \in Entry
      BY EntryIsAt
    <2>2. tab[from(o)][At(l, v)] # 0 /\ from(o) \in Owner /\ o # Local /\ (o = p \/ o \notin O)
      BY <1>8, <2>1
    <2>3. tab[from(o)][At(m, v)] # 0
      BY <2>2 DEF FrameInv, Closed
    <2> QED
      BY <1>10, <2>1, <2>2, <2>3
  <1>4. \A o, q \in Owner : \A k, j \in Entry :
          tab'[o][k] # 0 /\ tab'[o][k] = tab'[q][j] => o = q /\ k = j
    <2> SUFFICES ASSUME NEW o \in Owner, NEW q \in Owner, NEW k \in Entry, NEW j \in Entry,
                        tab'[o][k] # 0, tab'[o][k] = tab'[q][j]
                 PROVE  o = q /\ k = j
      OBVIOUS
    <2>1. tab[from(o)][k] # 0 /\ tab[from(o)][k] = tab[from(q)][j]
      BY <1>8
    <2>2. from(o) \in Owner /\ from(q) \in Owner /\ o # Local /\ q # Local
      BY <1>8
    <2>3. from(o) = from(q) /\ k = j
      BY <2>1, <2>2 DEF FrameInv
    <2> QED
      BY <1>9, <2>2, <2>3
  <1>5. \A o \in Owner : \A k \in Entry :
          tab'[o][k] # 0 => tab'[o][k] \notin free' /\ tab'[o][k] # hand'
    <2> SUFFICES ASSUME NEW o \in Owner, NEW k \in Entry, tab'[o][k] # 0
                 PROVE  tab'[o][k] \notin free' /\ tab'[o][k] # hand'
      OBVIOUS
    <2>1. PICK q \in Owner : q \notin O /\ tab'[o][k] = tab[q][k]
      BY <1>8
    <2>2. tab[q][k] \notin FramesOf(O)
      BY <1>0, <1>1, <2>1 DEF FrameInv
    <2> QED
      BY <2>1, <2>2 DEF FrameInv
  <1>6. hand' \notin free'
    BY <1>0, <1>1 DEF FrameInv
  <1>7. ASSUME NEW f \in Frame
        PROVE  f \in free' \/ f = hand' \/ \E o \in Owner : \E k \in Entry : tab'[o][k] = f
    <2>0. f # 0
      BY FrameAssumption
    <2>1. CASE f \in free \/ f = hand
      BY <2>1
    <2>2. CASE \E o \in Owner : \E k \in Entry : tab[o][k] = f
      <3>1. PICK o \in Owner, k \in Entry : tab[o][k] = f
        BY <2>2
      <3>2. CASE o \in O
        BY <1>1, <2>0, <3>1, <3>2
      <3>3. CASE o = Local
        BY <1>0, <1>2, <3>1, <3>3
      <3>4. CASE o \notin O /\ o # Local
        <4>1. o # p
          BY <2>0, <3>1, <3>4, OwnerFacts
        <4> QED
          BY <1>2, <3>1, <3>4, <4>1
      <3> QED
        BY <3>2, <3>3, <3>4
    <2> QED
      BY <2>1, <2>2 DEF FrameInv
  <1> QED
    BY <1>3, <1>4, <1>5, <1>6, <1>7 DEF FrameInv

\* The inductive invariant about frames.
MemInv == FrameInv /\ SpaceInv /\ CallInv

\* It holds at boot, with every frame on the free list.
LEMMA MemInit == Init => MemInv
  <1> SUFFICES ASSUME Init PROVE MemInv
    OBVIOUS
  <1>1. \A o \in Owner : tab[o] = Empty /\ \A k \in Entry : tab[o][k] = 0
    BY OwnerFacts DEF Init
  <1>2. FrameInv
    BY <1>1, EntryIsAt, FrameAssumption DEF Init, FrameInv, Closed
  <1>3. SpaceInv
    BY <1>1, OwnerFacts DEF Init, SpaceInv, Spawning
  <1>4. CallInv
    BY DEF Init, CallInv, Spawning
  <1> QED
    BY <1>2, <1>3, <1>4 DEF MemInv

\* The error path of process_spawn keeps it.
LEMMA SpawnFailsMem ==
    ASSUME TypeOK, MemInv, NEW why, SpawnFails(why)
    PROVE  MemInv'
  <1>1. pc' = "user" /\ ~Spawning' /\ hand' = 0
    BY ReturnLimit DEF SpawnFails, Return
  <1>2. FrameInv'
    <2> DEFINE H == {hand} \ {0}
    <2>1. H \in SUBSET ({hand} \ {0}) /\ hand' = IF H = {} THEN hand ELSE 0
      BY <1>1
    <2>2. free' = free \cup FramesOf({Local}) \cup H /\ tab' = Without({Local})
      BY DEF SpawnFails
    <2> HIDE DEF H
    <2> QED
      BY <2>1, <2>2, DestroyFrames, OwnerFacts DEF MemInv
  <1>3. \A o \in Owner : tab'[o] = IF o = Local THEN Empty ELSE tab[o]
    BY DEF SpawnFails, Without
  <1>4. SpaceInv'
    BY <1>1, <1>3, OwnerFacts DEF SpawnFails, procs, MemInv, SpaceInv
  <1>5. CallInv'
    BY <1>1 DEF CallInv
  <1> QED
    BY <1>2, <1>4, <1>5 DEF MemInv

\* So does a mapping that fails half way, whoever asked for it.
LEMMA MapFailsMem ==
    ASSUME TypeOK, LimitInv, MemInv, NEW why, MapFails(why), pc \in {"loop", "walk"}
    PROVE  MemInv'
  <1>1. CASE loop = "grow"
    <2>1. StartRollback
      BY <1>1 DEF MapFails
    <2>2. FrameInv'
      BY <2>1, HandFreed DEF StartRollback, MemInv
    <2>3. pc' = "rollback" /\ HeapCall' /\ ~Spawning' /\ ~Spawning
      BY <1>1, <2>1 DEF StartRollback, HeapCall, Spawning
    <2>4. SpaceInv'
      BY <2>1, <2>3 DEF StartRollback, MemInv, SpaceInv, procs
    <2>5. CallInv'
      BY <2>1, <2>3 DEF StartRollback, CallInv
    <2> QED
      BY <2>2, <2>4, <2>5 DEF MemInv
  <1>2. CASE loop # "grow"
    BY <1>2, SpawnFailsMem DEF MapFails
  <1> QED
    BY <1>1, <1>2

\* Steps that leave memory, the process table and the frame in hand alone.
LEMMA QuietMem ==
    ASSUME MemInv, UNCHANGED <<mem, life, hand>>, pc' # "walk", pc # "walk",
           Spawning' /\ pc' # "create" <=> Spawning /\ pc # "create",
           pc' # "user" => Spawning' \/ HeapCall',
           Spawning' => own' = Local
    PROVE  MemInv'
  <1>1. FrameInv'
    BY DEF MemInv, FrameInv, Closed, mem
  <1>2. SpaceInv'
    BY DEF MemInv, SpaceInv, mem
  <1>3. CallInv'
    BY DEF MemInv, CallInv
  <1> QED
    BY <1>1, <1>2, <1>3 DEF MemInv

\* Every step keeps the frame invariant.
LEMMA MemNext == TypeOK /\ SegsInv /\ LimitInv /\ MemInv /\ [Next]_vars => MemInv'
  <1> SUFFICES ASSUME TypeOK, SegsInv, LimitInv, MemInv, [Next]_vars PROVE MemInv'
    OBVIOUS
  <1>0. FrameInv /\ SpaceInv /\ CallInv
    BY DEF MemInv
  <1> USE DEF mem, procs, args
  <1>1. CASE (\E img \in Image : SpawnCall(img)) \/ ElfHeader \/ SegmentDone \/ StackDone
    <2>1. /\ UNCHANGED <<mem, life, hand>> /\ pc' # "walk" /\ pc # "walk"
          /\ Spawning' /\ pc' # "create" <=> Spawning /\ pc # "create"
          /\ Spawning' /\ own' = Local
      BY <1>0, <1>1 DEF SpawnCall, ElfHeader, SegmentDone, StackDone, Spawning, CallInv
    <2> QED
      BY <2>1, QuietMem
  <1>2. CASE AddrspaceCreate
    <2>1. /\ FreeHead \in free /\ tab' = [tab EXCEPT ![Local][Root] = FreeHead]
          /\ free' = free \ {FreeHead} /\ hand' = hand /\ hand = 0 /\ tab[Local] = Empty
          /\ pc' = "header" /\ life' = life /\ own' = own /\ own = Local
      BY <1>0, <1>2, FreeHeadIsFree DEF AddrspaceCreate, CallInv, SpaceInv, Spawning
    <2>2. FreeHead \in Frame /\ FreeHead # 0 /\ FreeHead # hand
      BY <2>1, FrameAssumption DEF TypeOK
    <2>3. PICK l \in 0 .. 4, v \in Page : l = 4 /\ At(l, v) = Root
      BY EntryIsAt, PageIsNat
    <2>4. \A m \in l + 1 .. 4 : tab[Local][At(m, v)] # 0
      BY <2>3
    <2>5. FrameInv'
      <3>1. tab' = [tab EXCEPT ![Local][At(l, v)] = FreeHead]
        BY <2>1, <2>3, Zenon
      <3>2. hand' = IF FreeHead = hand THEN 0 ELSE hand
        BY <2>1, <2>2
      <3>3. tab[Local][At(l, v)] = 0
        BY <2>1, <2>3, OwnerFacts
      <3>4. FreeHead \in free \/ FreeHead = hand
        BY <2>1
      <3>5. free' = free \ {FreeHead} /\ Local \in Owner /\ FreeHead \in Frame
        BY <2>1, <2>2, OwnerFacts
      <3> QED
        BY <1>0, <2>4, <3>1, <3>2, <3>3, <3>4, <3>5, LinkFrames
    <2>6. /\ tab'[Local][Root] = FreeHead
          /\ \A p \in Proc : tab'[p] = tab[p]
      BY <2>1, OwnerFacts DEF TypeOK
    <2>7. Spawning' /\ ~(pc' = "create")
      BY <2>1 DEF Spawning
    <2>8. SpaceInv'
      BY <1>0, <2>1, <2>2, <2>6, <2>7 DEF SpaceInv
    <2>9. CallInv'
      BY <2>1, <2>7 DEF CallInv
    <2> QED
      BY <2>5, <2>8, <2>9 DEF MemInv
  <1>3. CASE AddrspaceCreateFails \/ BrkGrown \/ BrkShrunk \/ BrkRolledBack
    <2>1. /\ UNCHANGED <<mem, life>> /\ hand' = 0 /\ pc' = "user" /\ pc # "walk" /\ ~Spawning'
          /\ (~Spawning \/ pc = "create")
      BY <1>3, ReturnLimit
      DEF AddrspaceCreateFails, BrkGrown, BrkShrunk, BrkRolledBack, Return, Spawning
    <2>2. hand' = hand
      BY <1>0, <2>1 DEF CallInv
    <2> QED
      BY <2>1, <2>2, QuietMem
  <1>4. CASE ElfHeaderFails \/ PageRefused \/ NoSlotLeft
    BY <1>4, SpawnFailsMem DEF ElfHeaderFails, PageRefused, NoSlotLeft
  <1>5. CASE AllocPage
    <2>1. /\ FreeHead \in free /\ UNCHANGED <<tab, life, own, loop, page>> /\ pc = "loop"
          /\ free' = free \ {FreeHead} /\ hand' = FreeHead /\ hand = 0 /\ pc' = "walk"
          /\ lvl' = 3
      BY <1>0, <1>5, FreeHeadIsFree DEF AllocPage, CallInv
    <2>2. FreeHead # 0
      BY <2>1, FrameAssumption DEF TypeOK
    <2>3. FrameInv'
      <3>1. \A o \in Owner : Closed(tab[o])'
        BY <1>0, <2>1 DEF FrameInv, Closed
      <3> QED
        BY <1>0, <2>1, <3>1, FrameAssumption DEF FrameInv
    <2>4. (Spawning' <=> Spawning) /\ (HeapCall' <=> HeapCall) /\ (Spawning \/ HeapCall)
      BY <2>1 DEF Spawning, HeapCall
    <2>5. SpaceInv'
      BY <1>0, <2>1, <2>4 DEF SpaceInv
    <2>6. tab[own][Root] # 0
      BY <1>0, <2>1, <2>4 DEF SpaceInv, CallInv, LimitInv
    <2>7. \A m \in lvl' + 1 .. 4 : tab'[own'][At(m, page')] # 0
      <3>1. At(4, page) = Root
        BY DEF At, Root
      <3>2. \A m \in lvl' + 1 .. 4 : m = 4
        BY <2>1
      <3> QED
        BY <2>1, <2>6, <3>1, <3>2
    <2>8. CallInv'
      BY <1>0, <2>1, <2>2, <2>4, <2>7 DEF CallInv
    <2> QED
      BY <2>3, <2>5, <2>8 DEF MemInv
  <1>6. CASE AllocPageFails \/ NextLevelFails \/ MapLeafExists
    BY <1>6, MapFailsMem DEF AllocPageFails, NextLevelFails, MapLeafExists
  <1>7. CASE NextLevelPresent
    <2>1. /\ UNCHANGED <<mem, life, hand, pc, loop, own, page>> /\ pc = "walk"
          /\ lvl' = lvl - 1 /\ tab[own][At(lvl, page)] # 0
      BY <1>7 DEF NextLevelPresent
    <2>2. (Spawning' <=> Spawning) /\ (HeapCall' <=> HeapCall)
      BY <2>1 DEF Spawning, HeapCall
    <2>3. FrameInv'
      BY <1>0, <2>1 DEF FrameInv, Closed
    <2>4. SpaceInv'
      BY <1>0, <2>1, <2>2 DEF SpaceInv
    <2>5. \A m \in lvl' + 1 .. 4 : m = lvl \/ m \in lvl + 1 .. 4
      BY <2>1, TypeNumbers
    <2>6. CallInv'
      BY <1>0, <2>1, <2>2, <2>5 DEF CallInv
    <2> QED
      BY <2>3, <2>4, <2>6 DEF MemInv
  <1>8. CASE NextLevelCreate
    <2>1. /\ FreeHead \in free /\ tab' = [tab EXCEPT ![own][At(lvl, page)] = FreeHead]
          /\ free' = free \ {FreeHead} /\ hand' = hand /\ pc = "walk" /\ lvl' = lvl - 1
          /\ UNCHANGED <<life, pc, loop, own, page>>
          /\ tab[own][At(lvl, page)] = 0
      BY <1>8, FreeHeadIsFree DEF NextLevelCreate, LinkTable
    <2>2. FreeHead \in Frame /\ FreeHead # 0 /\ FreeHead # hand
      BY <1>0, <2>1, FrameAssumption DEF TypeOK, FrameInv
    <2>3. page \in Page /\ own \in Owner /\ lvl \in 0 .. 4
      <3>1. page \in Page
        BY <2>1, WalkPage
      <3>2. own \in Owner
        BY DEF TypeOK
      <3>3. lvl \in 0 .. 4
        BY TypeNumbers
      <3> QED
        BY <3>1, <3>2, <3>3
    <2>4. FrameInv'
      BY <1>0, <2>1, <2>2, <2>3, LinkFrames DEF CallInv
    <2>5. (Spawning' <=> Spawning) /\ (HeapCall' <=> HeapCall)
      BY <2>1 DEF Spawning, HeapCall
    <2>6. At(lvl, page) \in Entry
      BY <2>3, EntryIsAt
    <2>7. SpaceInv'
      BY <1>0, <2>1, <2>2, <2>5, <2>6, EntrySetSpaces
    <2>8. ASSUME NEW m \in lvl' + 1 .. 4 PROVE tab'[own][At(m, page)] # 0
      <3>1. m = lvl \/ m \in lvl + 1 .. 4
        BY <2>1, TypeNumbers
      <3>2. m \in 0 .. 4 /\ At(m, page) \in Entry
        BY <2>1, <2>3, EntryIsAt, TypeNumbers
      <3>3. tab'[own][At(m, page)] =
              IF At(m, page) = At(lvl, page) THEN FreeHead ELSE tab[own][At(m, page)]
        BY <2>1, <2>3, <2>6, <3>2 DEF TypeOK
      <3> QED
        BY <1>0, <2>1, <2>2, <3>1, <3>3 DEF CallInv
    <2>9. CallInv'
      BY <1>0, <2>1, <2>5, <2>8 DEF CallInv
    <2> QED
      BY <2>4, <2>7, <2>9 DEF MemInv
  <1>9. CASE MapLeaf
    <2>1. /\ tab' = [tab EXCEPT ![own][At(0, page)] = hand] /\ tab[own][At(0, page)] = 0
          /\ free' = free /\ hand' = 0 /\ pc = "walk" /\ lvl = 0 /\ pc' = "loop"
          /\ UNCHANGED <<life, loop, own>>
      BY <1>9 DEF MapLeaf, LeafFree
    <2>2. hand \in Frame /\ hand # 0 /\ free' = free \ {hand}
      <3>1. hand # 0
        BY <1>0, <2>1 DEF CallInv
      <3>2. hand \in Frame
        BY <3>1 DEF TypeOK
      <3>3. hand \notin free
        BY <1>0 DEF FrameInv
      <3> QED
        BY <2>1, <3>1, <3>2, <3>3
    <2>3. page \in Page /\ own \in Owner
      BY <2>1, WalkPage DEF TypeOK
    <2>4. \A m \in 0 + 1 .. 4 : tab[own][At(m, page)] # 0
      BY <1>0, <2>1 DEF CallInv
    <2>5. FrameInv'
      <3>1. hand' = (IF hand = hand THEN 0 ELSE hand) /\ 0 \in 0 .. 4
        BY <2>1
      <3> QED
        BY <1>0, <2>1, <2>2, <2>3, <2>4, <3>1, LinkFrames
    <2>6. (Spawning' <=> Spawning) /\ (HeapCall' <=> HeapCall)
      BY <2>1 DEF Spawning, HeapCall
    <2>7. At(0, page) \in Entry
      BY <2>3, EntryIsAt
    <2>8. SpaceInv'
      BY <1>0, <2>1, <2>2, <2>6, <2>7, EntrySetSpaces
    <2>9. CallInv'
      BY <1>0, <2>1, <2>6 DEF CallInv
    <2> QED
      BY <2>5, <2>8, <2>9 DEF MemInv
  <1>10. CASE \E p \in Proc : ProcessCreateUser(p)
    <2>1. PICK p \in Proc : ProcessCreateUser(p)
      BY <1>10
    <2>2. /\ pc' = "user" /\ ~Spawning' /\ hand' = 0 /\ hand = 0 /\ Spawning /\ pc = "enter"
      BY <1>0, <2>1, ReturnLimit DEF ProcessCreateUser, Return, Spawning, CallInv
    <2>3. Zombies \subseteq Proc /\ (p \in Zombies \/ tab[p] = Empty)
      BY <1>0, <2>1 DEF ProcessCreateUser, Zombies, FreeSlots, SpaceInv, TypeOK
    <2>4. /\ tab' = [Without(Zombies \cup {Local}) EXCEPT ![p] = tab[Local]]
          /\ free' = free \cup FramesOf(Zombies)
      BY <2>1 DEF ProcessCreateUser
    <2>5. FrameInv'
      BY <1>0, <2>2, <2>3, <2>4, MoveFrames
    <2>6. /\ tab'[Local] = Empty /\ tab'[p] = tab[Local]
          /\ \A q \in Proc : q # p => tab'[q] = IF q \in Zombies THEN Empty ELSE tab[q]
      BY <2>4, OwnerFacts DEF Without
    <2>7. \A q \in Proc : life'[q] = IF q = p THEN "alive" ELSE
                                     IF q \in Zombies THEN "none" ELSE life[q]
      BY <2>1 DEF ProcessCreateUser
    <2>8. tab[Local][Root] # 0
      BY <1>0, <2>2 DEF SpaceInv
    <2>9. SpaceInv'
      BY <1>0, <2>2, <2>6, <2>7, <2>8 DEF SpaceInv
    <2>10. CallInv'
      BY <2>2 DEF CallInv
    <2> QED
      BY <2>5, <2>9, <2>10 DEF MemInv
  <1>11. CASE UnmapFreePage
    <2>1. /\ UNCHANGED <<life, pc, loop, own, hand>> /\ pc \in {"shrink", "rollback"}
          /\ page < last
      BY <1>11 DEF UnmapFreePage
    <2>2. ~Spawning /\ ~Spawning' /\ HeapCall /\ HeapCall'
      BY <2>1 DEF Spawning, HeapCall
    <2>3. page \in Page /\ own \in Owner
      BY <2>1, <2>2, LayoutAssumption, TypeNumbers, OwnerFacts DEF LimitInv, Page
    <2>4. CallInv'
      BY <1>0, <2>1, <2>2 DEF CallInv
    <2>5. CASE \A m \in 0 .. 4 : tab[own][At(m, page)] # 0
      <3>1. /\ free' = free \cup {tab[own][At(0, page)]}
            /\ tab' = [tab EXCEPT ![own][At(0, page)] = 0]
        BY <1>11, <2>5 DEF UnmapFreePage
      <3>2. tab[own][At(0, page)] # 0
        BY <2>5
      <3>3. FrameInv'
        BY <1>0, <2>1, <2>3, <3>1, <3>2, UnlinkFrames
      <3>4. At(0, page) \in Entry /\ At(0, page) # Root
        BY <2>3, EntryIsAt, AtLevelsDiffer
      <3>5. SpaceInv'
        BY <1>0, <2>1, <2>2, <3>1, <3>4, EntrySetSpaces
      <3> QED
        BY <2>4, <3>3, <3>5 DEF MemInv
    <2>6. CASE ~ \A m \in 0 .. 4 : tab[own][At(m, page)] # 0
      <3>1. UNCHANGED <<tab, free>>
        BY <1>11, <2>6 DEF UnmapFreePage
      <3> QED
        BY <2>1, <2>2, <3>1, QuietMem
    <2> QED
      BY <2>5, <2>6
  <1>12. CASE \E p \in Proc : ProcessExit(p)
    <2>1. /\ UNCHANGED <<mem, hand, pc>> /\ ~Spawning /\ ~Spawning' /\ pc = "user"
      BY <1>12 DEF ProcessExit, Spawning
    <2>2. \A p \in Proc : life'[p] = life[p] \/ life'[p] = "zombie"
      BY <1>12 DEF ProcessExit, TypeOK
    <2>3. FrameInv'
      BY <1>0, <2>1 DEF FrameInv, Closed
    <2>4. SpaceInv'
      BY <1>0, <2>1, <2>2 DEF SpaceInv
    <2>5. CallInv'
      BY <1>0, <2>1 DEF CallInv
    <2> QED
      BY <2>3, <2>4, <2>5 DEF MemInv
  <1>13. CASE \E p \in Proc, inc \in Increment : BrkGrow(p, inc) \/ BrkShrink(p, inc)
    <2>1. /\ UNCHANGED <<mem, life, hand>> /\ pc' # "walk" /\ pc = "user"
          /\ ~Spawning /\ ~Spawning' /\ HeapCall'
      BY <1>13 DEF BrkGrow, BrkShrink, Spawning, HeapCall
    <2> QED
      BY <2>1, QuietMem
  <1>14. CASE ReapTerminated
    <2>1. /\ tab' = Without(Zombies) /\ free' = free \cup FramesOf(Zombies) /\ UNCHANGED hand
          /\ ~Spawning /\ ~Spawning' /\ pc = "user" /\ pc' = "user" /\ Zombies \subseteq Proc
      BY <1>14 DEF ReapTerminated, Spawning, Zombies
    <2>2. FrameInv'
      <3>1. Zombies \in SUBSET Owner
        BY <2>1, OwnerFacts
      <3>2. free' = free \cup FramesOf(Zombies) \cup {}
        BY <2>1
      <3> QED
        BY <1>0, <2>1, <3>1, <3>2, DestroyFrames
    <2>3. \A o \in Owner : tab'[o] = IF o \in Zombies THEN Empty ELSE tab[o]
      BY <2>1 DEF Without
    <2>4. \A p \in Proc : life'[p] = IF p \in Zombies THEN "none" ELSE life[p]
      BY <1>14 DEF ReapTerminated
    <2>5. SpaceInv'
      BY <1>0, <2>1, <2>3, <2>4, OwnerFacts DEF SpaceInv
    <2>6. CallInv'
      BY <1>0, <2>1 DEF CallInv
    <2> QED
      BY <2>2, <2>5, <2>6 DEF MemInv
  <1>15. CASE UNCHANGED vars
    <2>1. FrameInv'
      BY <1>0, <1>15 DEF vars, FrameInv, Closed
    <2>2. SpaceInv'
      BY <1>0, <1>15 DEF vars, SpaceInv, Spawning
    <2>3. CallInv'
      BY <1>0, <1>15 DEF vars, CallInv, Spawning, HeapCall
    <2> QED
      BY <2>1, <2>2, <2>3 DEF MemInv
  <1> QED
    BY <1>1, <1>2, <1>3, <1>4, <1>5, <1>6, <1>7, <1>8, <1>9, <1>10, <1>11, <1>12, <1>13, <1>14,
       <1>15 DEF Next, Spawn, KernelStep

\* With every frame at one entry at most, there are as many frames in tables as entries in use.
LEMMA FramesOnce ==
    ASSUME TypeOK, FrameInv
    PROVE  Cardinality(FramesOf(Owner)) =
           Cardinality({x \in Owner \X Entry : tab[x[1]][x[2]] # 0})
  <1> DEFINE owned == FramesOf(Owner)
             used == {x \in Owner \X Entry : tab[x[1]][x[2]] # 0}
             g == [x \in used |-> tab[x[1]][x[2]]]
  <1>1. \A f : f \in owned <=> f # 0 /\ \E o \in Owner : \E k \in Entry : tab[o][k] = f
    BY FramesOfMembers
  <1>2. IsFiniteSet(owned)
    BY FramesOfType, FrameAssumption, FS_Subset
  <1> HIDE DEF owned
  <1>3. \A x \in used : x[1] \in Owner /\ x[2] \in Entry /\ g[x] = tab[x[1]][x[2]] /\ g[x] # 0
                        /\ x = <<x[1], x[2]>>
    OBVIOUS
  <1>4. \A x \in used : g[x] \in owned
    BY <1>1, <1>3
  <1>5. g \in [used -> owned]
    BY <1>4
  <1>6. \A x, y \in used : g[x] = g[y] => x = y
    BY <1>3 DEF FrameInv
  <1>7. ASSUME NEW f \in owned PROVE \E x \in used : g[x] = f
    <2>1. PICK o \in Owner, k \in Entry : f # 0 /\ tab[o][k] = f
      BY <1>1
    <2>2. <<o, k>> \in used /\ g[<<o, k>>] = f
      BY <2>1
    <2> QED
      BY <2>2
  <1> HIDE DEF g, used
  <1>8. g \in Injection(used, owned) /\ g \in Surjection(used, owned)
    BY <1>5, <1>6, <1>7 DEF Injection, Surjection, IsInjective
  <1>9. Cardinality(used) = Cardinality(owned)
    BY <1>2, <1>8, FS_Injection
  <1> QED
    BY <1>9 DEF used, owned

\* The invariant gives FramesAccounted.
LEMMA AccountedFromInv == TypeOK /\ MemInv => FramesAccounted
  <1> SUFFICES ASSUME TypeOK, FrameInv, SpaceInv, CallInv PROVE FramesAccounted
    BY DEF MemInv
  <1>1. \A f : f \in FramesOf(Owner) <=> f # 0 /\ \E o \in Owner : \E k \in Entry : tab[o][k] = f
    BY FramesOfMembers
  <1>2. FramesOf(Owner) \cap free = {} /\ hand \notin FramesOf(Owner) \cup free
    BY <1>1 DEF FrameInv
  <1>3. Frame = FramesOf(Owner) \cup free \cup ({hand} \ {0})
    <2>1. FramesOf(Owner) \subseteq Frame /\ free \subseteq Frame /\ {hand} \ {0} \subseteq Frame
      BY FramesOfType DEF TypeOK
    <2>2. \A f \in Frame : f \in FramesOf(Owner) \cup free \cup ({hand} \ {0})
      BY <1>1, FrameAssumption DEF FrameInv
    <2> QED
      BY <2>1, <2>2
  <1>4. pc = "user" => tab[Local] = Empty /\ hand = 0
    BY DEF SpaceInv, CallInv, Spawning
  <1>5. \A p \in Proc : life[p] = "none" => tab[p] = Empty
    BY DEF SpaceInv
  <1> QED
    BY <1>2, <1>3, <1>4, <1>5, FramesOnce DEF FramesAccounted

\* In every reachable state each frame is on the allocator's free list, in the hand of the call
\* in progress, or at exactly one entry of one table that paging_addrspace_destroy will reach:
\* pfa.c, paging.c, umem.c, elf.c and spawn.c together neither lose a frame nor use one twice.
THEOREM FramesSafe == Spec => []FramesAccounted
  <1>1. Init => TypeOK /\ SegsInv /\ LimitInv /\ MemInv
    BY TypeInit, LimitInit, MemInit
  <1>2. TypeOK /\ SegsInv /\ LimitInv /\ MemInv /\ [Next]_vars
          => TypeOK' /\ SegsInv' /\ LimitInv' /\ MemInv'
    BY TypeNext, LimitNext, MemNext
  <1>3. TypeOK /\ MemInv => FramesAccounted
    BY AccountedFromInv
  <1> QED
    BY <1>1, <1>2, <1>3, PTL DEF Spec

-----------------------------------------------------------------------------
\* While process_spawn runs, a frame that was free when it was called is free, in hand, or in
\* the space it is building.
SpawnKeeps ==
    Spawning => \A f \in atCall : f \in free \/ f = hand \/ \E k \in Entry : tab[Local][k] = f

\* No spawn is in progress at boot.
LEMMA SpawnKeepsInit == Init => SpawnKeeps
  BY DEF Init, SpawnKeeps, Spawning

\* Every step keeps it: nothing but the call in progress takes frames.
LEMMA SpawnKeepsNext ==
    TypeOK /\ SegsInv /\ LimitInv /\ MemInv /\ SpawnKeeps /\ [Next]_vars => SpawnKeeps'
  <1> SUFFICES ASSUME TypeOK, SegsInv, LimitInv, MemInv, SpawnKeeps, [Next]_vars, Spawning',
                      NEW f \in atCall'
               PROVE  f \in free' \/ f = hand' \/ \E k \in Entry : tab'[Local][k] = f
    BY DEF SpawnKeeps
  <1>0. FrameInv /\ SpaceInv /\ CallInv
    BY DEF MemInv
  <1> USE DEF mem, procs, args
  <1>1. CASE \E img \in Image : SpawnCall(img)
    BY <1>1 DEF SpawnCall
  <1>2. CASE AddrspaceCreate
    <2>1. f \in free
      <3>1. Spawning /\ tab[Local] = Empty /\ hand = 0 /\ f \in atCall /\ f \in Frame
        BY <1>0, <1>2 DEF AddrspaceCreate, Spawning, SpaceInv, CallInv, TypeOK
      <3> QED
        BY <3>1, FrameAssumption, OwnerFacts DEF SpawnKeeps
    <2>2. tab'[Local][Root] = FreeHead /\ free' = free \ {FreeHead}
      BY <1>2, OwnerFacts DEF AddrspaceCreate, TypeOK
    <2> QED
      BY <2>1, <2>2, OwnerFacts
  <1>3. CASE ElfHeader \/ SegmentDone \/ StackDone \/ NextLevelPresent
    <2>1. Spawning /\ UNCHANGED <<free, tab, hand, atCall>>
      BY <1>3 DEF ElfHeader, SegmentDone, StackDone, NextLevelPresent, Spawning
    <2> QED
      BY <2>1 DEF SpawnKeeps
  <1>4. CASE AllocPage
    <2>1. Spawning /\ UNCHANGED <<tab, atCall>> /\ hand = 0 /\ f \in Frame
      BY <1>0, <1>4 DEF AllocPage, Spawning, CallInv, TypeOK
    <2>2. free' = free \ {FreeHead} /\ hand' = FreeHead
      BY <1>4 DEF AllocPage
    <2> QED
      BY <2>1, <2>2, FrameAssumption DEF SpawnKeeps
  <1>5. CASE NextLevelCreate \/ MapLeaf
    <2>1. PICK l, g :
            /\ l \in 0 .. 4
            /\ Spawning /\ pc = "walk" /\ atCall' = atCall
            /\ tab' = [tab EXCEPT ![own][At(l, page)] = g] /\ tab[own][At(l, page)] = 0
            /\ \A x : x \in free \/ x = hand => x \in free' \/ x = hand' \/ x = g
      <3>1. CASE NextLevelCreate
        <4>1. /\ Spawning /\ pc = "walk" /\ atCall' = atCall
              /\ tab' = [tab EXCEPT ![own][At(lvl, page)] = FreeHead]
              /\ tab[own][At(lvl, page)] = 0
              /\ free' = free \ {FreeHead} /\ hand' = hand
          BY <3>1 DEF NextLevelCreate, LinkTable, Spawning
        <4>2. lvl \in 0 .. 4
          BY TypeNumbers
        <4>3. \A x : x \in free \/ x = hand => x \in free' \/ x = hand' \/ x = FreeHead
          BY <4>1
        <4> QED
          BY <4>1, <4>2, <4>3
      <3>2. CASE MapLeaf
        <4>1. /\ Spawning /\ pc = "walk" /\ atCall' = atCall
              /\ tab' = [tab EXCEPT ![own][At(0, page)] = hand]
              /\ tab[own][At(0, page)] = 0
              /\ \A x : x \in free \/ x = hand => x \in free' \/ x = hand' \/ x = hand
          BY <3>2 DEF MapLeaf, LeafFree, Spawning
        <4>2. 0 \in 0 .. 4
          OBVIOUS
        <4> QED
          BY <4>1, <4>2
      <3> QED
        BY <1>5, <3>1, <3>2
    <2>2. page \in Page /\ own = Local /\ At(l, page) \in Entry
      BY <1>0, <2>1, WalkPage, EntryIsAt DEF CallInv
    <2>3. \A k \in Entry : tab'[Local][k] = IF k = At(l, page) THEN g ELSE tab[Local][k]
      BY <2>1, <2>2, OwnerFacts DEF TypeOK
    <2>4. f # 0
      BY <2>1, FrameAssumption DEF TypeOK
    <2>5. f \in free \/ f = hand \/ \E k \in Entry : tab[Local][k] = f
      BY <2>1 DEF SpawnKeeps
    <2> QED
      BY <2>1, <2>2, <2>3, <2>4, <2>5
  <1>6. CASE UNCHANGED vars
    BY <1>6 DEF vars, SpawnKeeps, Spawning
  <1>7. CASE AllocPageFails \/ NextLevelFails \/ MapLeafExists
    BY <1>7, ReturnLimit
    DEF AllocPageFails, NextLevelFails, MapLeafExists, MapFails, StartRollback, SpawnFails, Spawning
  <1>8. CASE \/ AddrspaceCreateFails \/ ElfHeaderFails \/ PageRefused \/ NoSlotLeft
             \/ (\E p \in Proc : ProcessCreateUser(p)) \/ BrkGrown \/ BrkShrunk \/ BrkRolledBack
    BY <1>8, ReturnLimit DEF AddrspaceCreateFails, ElfHeaderFails, PageRefused, NoSlotLeft,
       SpawnFails, ProcessCreateUser, BrkGrown, BrkShrunk, BrkRolledBack
  <1>9. CASE \/ UnmapFreePage \/ (\E p \in Proc : ProcessExit(p)) \/ ReapTerminated
             \/ \E p \in Proc, inc \in Increment : BrkGrow(p, inc) \/ BrkShrink(p, inc)
    BY <1>9 DEF UnmapFreePage, ProcessExit, ReapTerminated, BrkGrow, BrkShrink, Spawning
  <1> QED
    BY <1>1, <1>2, <1>3, <1>4, <1>5, <1>6, <1>7, <1>8, <1>9 DEF Next, Spawn, KernelStep

\* The error path of process_spawn gives back every frame that was free at the call.
LEMMA SpawnFailsGivesBack ==
    ASSUME TypeOK, MemInv, SpawnKeeps, Spawning, NEW why, SpawnFails(why)
    PROVE  atCall \subseteq free'
  <1> SUFFICES ASSUME NEW f \in atCall PROVE f \in free'
    OBVIOUS
  <1>1. f # 0
    BY FrameAssumption DEF TypeOK
  <1>2. f \in free \/ f = hand \/ \E k \in Entry : tab[Local][k] = f
    BY DEF SpawnKeeps
  <1>3. (\E k \in Entry : tab[Local][k] = f) => f \in FramesOf({Local})
    BY <1>1, FramesOfMembers, OwnerFacts DEF MemInv
  <1> QED
    BY <1>1, <1>2, <1>3 DEF SpawnFails

\* What FailedSpawnLeaksNothing says of one step.
LeaksNothing == outcome \notin SpawnError /\ outcome' \in SpawnError => atCall \subseteq free'

\* It holds of every step from a state of the invariant.
LEMMA LeaksNothingStep ==
    TypeOK /\ SegsInv /\ LimitInv /\ MemInv /\ SpawnKeeps /\ [Next]_vars => LeaksNothing
  <1> SUFFICES ASSUME TypeOK, MemInv, SpawnKeeps, [Next]_vars,
                      outcome \notin SpawnError, outcome' \in SpawnError
               PROVE  atCall \subseteq free'
    BY DEF LeaksNothing
  <1> USE DEF mem, procs, args
  <1>1. CASE AddrspaceCreateFails
    <2>1. Spawning /\ tab[Local] = Empty /\ hand = 0 /\ free' = free
      BY <1>1 DEF AddrspaceCreateFails, Spawning, MemInv, SpaceInv, CallInv
    <2> QED
      BY <2>1, OwnerFacts, FrameAssumption DEF SpawnKeeps, TypeOK
  <1>2. CASE \E why \in SpawnError : Spawning /\ SpawnFails(why)
    BY <1>2, SpawnFailsGivesBack
  <1>3. CASE ElfHeaderFails \/ PageRefused \/ NoSlotLeft
    BY <1>2, <1>3 DEF ElfHeaderFails, PageRefused, NoSlotLeft, Spawning, SpawnError
  <1>4. CASE AllocPageFails \/ NextLevelFails \/ MapLeafExists
    <2>1. CASE loop = "grow"
      BY <1>4, <2>1 DEF AllocPageFails, NextLevelFails, MapLeafExists, MapFails, StartRollback
    <2>2. CASE loop # "grow"
      BY <1>2, <1>4, <2>2
      DEF AllocPageFails, NextLevelFails, MapLeafExists, MapFails, Spawning, SpawnError
    <2> QED
      BY <2>1, <2>2
  <1>5. CASE \/ \E img \in Image : SpawnCall(img)
             \/ AddrspaceCreate \/ ElfHeader \/ AllocPage \/ SegmentDone \/ StackDone
             \/ NextLevelPresent \/ NextLevelCreate \/ MapLeaf \/ UnmapFreePage
             \/ (\E p \in Proc : ProcessExit(p)) \/ ReapTerminated
             \/ (\E p \in Proc, inc \in Increment : BrkGrow(p, inc) \/ BrkShrink(p, inc))
             \/ UNCHANGED vars
    <2>1. outcome' = outcome \/ outcome' = "none"
      BY <1>5 DEF SpawnCall, AddrspaceCreate, ElfHeader, AllocPage, SegmentDone, StackDone,
         NextLevelPresent, NextLevelCreate, MapLeaf, UnmapFreePage, ProcessExit, ReapTerminated,
         BrkGrow, BrkShrink, vars
    <2> QED
      BY <2>1 DEF SpawnError
  <1>6. CASE (\E p \in Proc : ProcessCreateUser(p)) \/ BrkGrown \/ BrkShrunk \/ BrkRolledBack
    <2>1. outcome' = "ok" \/ outcome' = "brk failed"
      BY <1>6 DEF ProcessCreateUser, BrkGrown, BrkShrunk, BrkRolledBack, Return
    <2> QED
      BY <2>1 DEF SpawnError
  <1> QED
    BY <1>1, <1>3, <1>4, <1>5, <1>6 DEF Next, Spawn, KernelStep

\* A process_spawn that fails, at whatever allocation, header or slot, has given every frame back
\* when it returns.
THEOREM FailedSpawnSafe == Spec => FailedSpawnLeaksNothing
  <1>1. Init => TypeOK /\ SegsInv /\ LimitInv /\ MemInv /\ SpawnKeeps
    BY TypeInit, LimitInit, MemInit, SpawnKeepsInit
  <1>2. TypeOK /\ SegsInv /\ LimitInv /\ MemInv /\ SpawnKeeps /\ [Next]_vars
          => TypeOK' /\ SegsInv' /\ LimitInv' /\ MemInv' /\ SpawnKeeps'
    BY TypeNext, LimitNext, MemNext, SpawnKeepsNext
  <1>3. TypeOK /\ SegsInv /\ LimitInv /\ MemInv /\ SpawnKeeps /\ [Next]_vars => LeaksNothing
    BY LeaksNothingStep
  <1>4. Spec => [][LeaksNothing]_vars
    BY <1>1, <1>2, <1>3, PTL DEF Spec
  <1> QED
    BY <1>4 DEF LeaksNothing, FailedSpawnLeaksNothing

-----------------------------------------------------------------------------
(***************************************************************************)
(* The pages of the heap                                                   *)
(***************************************************************************)
\* Page v of space o is mapped.
Mapped(o, v) == tab[o][At(0, v)] # 0

\* What a live process has mapped: nothing below the image, of the heap and the pages up to the
\* stack just the expected ones, and all of its stack.
ProcHeap(p) ==
    life[p] = "alive" =>
        /\ ElfMin < PageAbove(heapStart[p])
        /\ \A v \in Page :
            /\ v < ElfMin => ~Mapped(p, v)
            /\ PageAbove(heapStart[p]) <= v /\ v < StackBase => (Mapped(p, v) <=> Expected(p, v))
            /\ v >= StackBase => Mapped(p, v)

\* Where the loop of umem_brk started and where it is going, as the brk and the target say.
CallHeap ==
    HeapCall =>
        /\ PageAbove(heapStart[own]) <= first
        /\ pc # "shrink" => first = PageAbove(brk[own])
        /\ pc = "shrink" => first = PageAbove(target)
        /\ pc \in {"loop", "walk"} => last = PageAbove(target)

\* What process_spawn has mapped so far: pages of the image, and from the stack's base up to the
\* page the stack loop has got to.
LoadInv ==
    /\ pc \in {"loop", "walk"} /\ loop = "load" =>
        ElfMin <= page /\ \A i \in DOMAIN segs : segs[i].to <= imageEnd
    /\ Spawning /\ pc \notin {"create", "header"} => ElfMin < imageEnd
    /\ pc = "enter" => loop = "stack" /\ page >= StackTop
    /\ Spawning => \A v \in Page : Mapped(Local, v) =>
        /\ pc \notin {"create", "header"}
        /\ (ElfMin <= v /\ v < imageEnd) \/ (StackBase <= v /\ loop = "stack")
    /\ Spawning /\ pc \notin {"create", "header"} /\ loop = "stack" =>
        /\ StackBase <= page
        /\ \A v \in Page : StackBase <= v /\ v < page => Mapped(Local, v)

\* The inductive invariant about mapped pages.
HeapInv == LoadInv /\ CallHeap /\ \A p \in Proc : ProcHeap(p)

\* Different pages have different leaves.
LEMMA LeavesDiffer ==
    ASSUME NEW w \in Page, NEW v \in Page
    PROVE  At(0, v) \in Entry /\ (At(0, v) = At(0, w) <=> v = w)
  BY EntryIsAt, AtLeaf

\* Linking a table changes no leaf.
LEMMA TableSet ==
    ASSUME TypeOK, NEW o \in Owner, NEW l \in 0 .. 4, l # 0, NEW w \in Page, NEW x,
           tab' = [tab EXCEPT ![o][At(l, w)] = x],
           NEW q \in Owner, NEW v \in Page
    PROVE  tab'[q][At(0, v)] = tab[q][At(0, v)]
  <1>1. At(0, v) \in Entry /\ At(l, w) \in Entry
    BY EntryIsAt
  <1>2. At(0, v) # At(l, w)
    BY AtLevelsDiffer
  <1> QED
    BY <1>1, <1>2 DEF TypeOK

\* The leaves of a live process change only when it maps or unmaps a page itself.
LEMMA LeavesKept ==
    ASSUME TypeOK, SegsInv, LimitInv, MemInv, [Next]_vars,
           NEW p \in Proc, life[p] = "alive", life'[p] = "alive",
           ~(own = p /\ (MapLeaf \/ UnmapFreePage)),
           NEW v \in Page
    PROVE  tab'[p][At(0, v)] = tab[p][At(0, v)]
  <1>0. p \in Owner /\ p # Local /\ p \notin Zombies /\ Local \in Owner
    BY OwnerFacts DEF Zombies
  <1> USE DEF mem, procs, args
  <1>1. CASE AddrspaceCreate
    BY <1>0, <1>1 DEF AddrspaceCreate, TypeOK
  <1>2. CASE NextLevelCreate
    <2>1. lvl \in 0 .. 4 /\ lvl # 0 /\ own \in Owner /\ page \in Page
      <3>1. own \in Owner
        BY DEF TypeOK
      <3> QED
        BY <1>2, <3>1, TypeNumbers, WalkPage DEF NextLevelCreate
    <2>2. tab' = [tab EXCEPT ![own][At(lvl, page)] = FreeHead]
      BY <1>2 DEF NextLevelCreate, LinkTable
    <2>3. PICK o \in Owner, l \in 0 .. 4, w \in Page : o = own /\ l = lvl /\ w = page
      BY <2>1
    <2>4. tab' = [tab EXCEPT ![o][At(l, w)] = FreeHead] /\ l # 0
      BY <2>1, <2>2, <2>3
    <2> QED
      BY <1>0, <2>4, TableSet
  <1>3. CASE MapLeaf
    BY <1>0, <1>3 DEF MapLeaf, TypeOK
  <1>4. CASE UnmapFreePage
    BY <1>0, <1>4 DEF UnmapFreePage, TypeOK
  <1>5. CASE ElfHeaderFails \/ PageRefused \/ NoSlotLeft
    BY <1>0, <1>5 DEF ElfHeaderFails, PageRefused, NoSlotLeft, SpawnFails, Without
  <1>6. CASE AllocPageFails \/ NextLevelFails \/ MapLeafExists
    BY <1>0, <1>6 DEF AllocPageFails, NextLevelFails, MapLeafExists, MapFails, StartRollback,
       SpawnFails, Without
  <1>7. CASE \E q \in Proc : ProcessCreateUser(q)
    <2>1. PICK q \in Proc : ProcessCreateUser(q)
      BY <1>7
    <2>2. q # p
      BY <2>1 DEF ProcessCreateUser, FreeSlots
    <2> QED
      BY <1>0, <2>1, <2>2 DEF ProcessCreateUser, Without
  <1>8. CASE ReapTerminated
    BY <1>0, <1>8 DEF ReapTerminated, Without
  <1>9. CASE \/ \E img \in Image : SpawnCall(img)
             \/ AddrspaceCreateFails \/ ElfHeader \/ AllocPage \/ SegmentDone \/ StackDone
             \/ NextLevelPresent \/ BrkGrown \/ BrkShrunk \/ BrkRolledBack
             \/ (\E q \in Proc : ProcessExit(q))
             \/ (\E q \in Proc, inc \in Increment : BrkGrow(q, inc) \/ BrkShrink(q, inc))
             \/ UNCHANGED vars
    <2>1. tab' = tab
      BY <1>9 DEF SpawnCall, AddrspaceCreateFails, ElfHeader, AllocPage, SegmentDone, StackDone,
         NextLevelPresent, BrkGrown, BrkShrunk, BrkRolledBack, ProcessExit, BrkGrow, BrkShrink, vars
    <2> QED
      BY <2>1
  <1> QED
    BY <1>1, <1>2, <1>3, <1>4, <1>5, <1>6, <1>7, <1>8, <1>9 DEF Next, Spawn, KernelStep

\* A process that is alive after a step was made by it, or was alive and keeps its heap's
\* start; its brk changes only when its own heap call succeeds.
LEMMA FieldsKept ==
    ASSUME TypeOK, LimitInv, [Next]_vars, NEW p \in Proc, life'[p] = "alive", ~ProcessCreateUser(p)
    PROVE  /\ life[p] = "alive" /\ heapStart'[p] = heapStart[p]
           /\ ~(own = p /\ (BrkGrown \/ BrkShrunk)) => brk'[p] = brk[p]
  <1> USE DEF mem, procs, args
  <1>1. CASE \E q \in Proc : ProcessCreateUser(q)
    <2>1. PICK q \in Proc : ProcessCreateUser(q)
      BY <1>1
    <2>2. q # p
      BY <2>1
    <2>3. life[p] = "alive" /\ p \notin Zombies
      BY <2>1, <2>2 DEF ProcessCreateUser, Zombies
    <2> QED
      BY <2>1, <2>2, <2>3 DEF ProcessCreateUser, Cleared
  <1>2. CASE ReapTerminated
    BY <1>2 DEF ReapTerminated, Zombies, Cleared
  <1>3. CASE \E q \in Proc : ProcessExit(q)
    BY <1>3 DEF ProcessExit, TypeOK
  <1>4. CASE BrkGrown \/ BrkShrunk
    BY <1>4 DEF BrkGrown, BrkShrunk, TypeOK
  <1>5. CASE ElfHeaderFails \/ PageRefused \/ NoSlotLeft
    BY <1>5 DEF ElfHeaderFails, PageRefused, NoSlotLeft, SpawnFails
  <1>6. CASE AllocPageFails \/ NextLevelFails \/ MapLeafExists
    BY <1>6 DEF AllocPageFails, NextLevelFails, MapLeafExists, MapFails, StartRollback, SpawnFails
  <1>7. CASE \/ \E img \in Image : SpawnCall(img)
             \/ AddrspaceCreate \/ AddrspaceCreateFails \/ ElfHeader \/ AllocPage \/ SegmentDone
             \/ StackDone \/ NextLevelPresent \/ NextLevelCreate \/ MapLeaf \/ UnmapFreePage
             \/ BrkRolledBack
             \/ (\E q \in Proc, inc \in Increment : BrkGrow(q, inc) \/ BrkShrink(q, inc))
             \/ UNCHANGED vars
    <2>1. UNCHANGED <<life, heapStart, brk>>
      BY <1>7 DEF SpawnCall, AddrspaceCreate, AddrspaceCreateFails, ElfHeader, AllocPage,
         SegmentDone, StackDone, NextLevelPresent, NextLevelCreate, MapLeaf, UnmapFreePage,
         BrkRolledBack, BrkGrow, BrkShrink, vars
    <2> QED
      BY <2>1
  <1> QED
    BY <1>1, <1>2, <1>3, <1>4, <1>5, <1>6, <1>7 DEF Next, Spawn, KernelStep

\* A process that is in a call is in a heap call.
LEMMA OwnHeapCall ==
    ASSUME CallInv, own \in Proc, pc # "user"
    PROVE  HeapCall /\ ~Spawning
  BY OwnerFacts DEF CallInv

\* Only a heap call of p makes p the owner of the call in progress.
LEMMA OwnerChanges ==
    ASSUME [Next]_vars, MemInv, NEW p \in Proc, own' = p, pc' # "user"
    PROVE  \/ own = p /\ pc # "user"
           \/ \E inc \in Increment : pc = "user" /\ (BrkGrow(p, inc) \/ BrkShrink(p, inc))
  <1>0. p # Local /\ CallInv
    BY OwnerFacts DEF MemInv
  <1> USE DEF mem, procs, args
  <1>1. CASE \/ \E img \in Image : SpawnCall(img)
             \/ AddrspaceCreateFails \/ ElfHeaderFails \/ PageRefused \/ NoSlotLeft
             \/ (\E q \in Proc : ProcessCreateUser(q)) \/ BrkGrown \/ BrkShrunk \/ BrkRolledBack
    BY <1>0, <1>1 DEF SpawnCall, AddrspaceCreateFails, ElfHeaderFails, PageRefused, NoSlotLeft,
       SpawnFails, ProcessCreateUser, BrkGrown, BrkShrunk, BrkRolledBack, Return
  <1>2. CASE AllocPageFails \/ NextLevelFails \/ MapLeafExists
    BY <1>0, <1>2 DEF AllocPageFails, NextLevelFails, MapLeafExists, MapFails, StartRollback,
       SpawnFails, Return
  <1>3. CASE \/ AddrspaceCreate \/ ElfHeader \/ AllocPage \/ SegmentDone \/ StackDone
             \/ NextLevelPresent \/ NextLevelCreate \/ MapLeaf \/ UnmapFreePage
    BY <1>0, <1>3 DEF AddrspaceCreate, ElfHeader, AllocPage, SegmentDone, StackDone,
       NextLevelPresent, NextLevelCreate, MapLeaf, UnmapFreePage
  <1>4. CASE (\E q \in Proc : ProcessExit(q)) \/ ReapTerminated \/ UNCHANGED vars
    BY <1>4 DEF ProcessExit, ReapTerminated, vars
  <1>5. ASSUME NEW q \in Proc, NEW inc \in Increment, BrkGrow(q, inc) \/ BrkShrink(q, inc)
        PROVE  \E i \in Increment : pc = "user" /\ (BrkGrow(p, i) \/ BrkShrink(p, i))
    <2>1. q = p /\ pc = "user"
      BY <1>5 DEF BrkGrow, BrkShrink
    <2> QED
      BY <1>5, <2>1
  <1> QED
    BY <1>1, <1>2, <1>3, <1>4, <1>5 DEF Next, Spawn, KernelStep

\* Besides mapping and unmapping a page, no step changes which heap pages p is to have.
LEMMA ExpectedKept ==
    ASSUME TypeOK, SegsInv, LimitInv, MemInv, CallHeap, [Next]_vars,
           NEW p \in Proc, life[p] = "alive", life'[p] = "alive",
           ~(own = p /\ (MapLeaf \/ UnmapFreePage)),
           NEW v \in Page
    PROVE  Expected(p, v)' <=> Expected(p, v)
  <1>0. CallInv /\ p # Local /\ v \in Nat
    BY OwnerFacts, PageIsNat DEF MemInv
  <1> USE DEF mem, procs, args
  <1>1. CASE pc = "user" \/ own # p
    <2>1. ~(own = p /\ (BrkGrown \/ BrkShrunk))
      BY <1>1 DEF BrkGrown, BrkShrunk
    <2>2. ~ProcessCreateUser(p)
      BY DEF ProcessCreateUser, FreeSlots
    <2>3. brk'[p] = brk[p]
      BY <2>1, <2>2, FieldsKept
    <2>4. CASE pc' = "user" \/ own' # p
      BY <1>1, <2>3, <2>4 DEF Expected
    <2>5. CASE pc' # "user" /\ own' = p
      <3>1. PICK inc \in Increment : BrkGrow(p, inc) \/ BrkShrink(p, inc)
        BY <1>1, <2>5, OwnerChanges
      <3>2. CASE BrkGrow(p, inc)
        BY <1>1, <3>2 DEF BrkGrow, Expected
      <3>3. CASE BrkShrink(p, inc)
        <4>1. /\ pc' = "shrink" /\ own' = p /\ first' = PageAbove(brk[p] + inc) /\ page' = first'
              /\ last' = PageAbove(brk[p])
          BY <3>3 DEF BrkShrink
        <4>2. brk[p] \in Nat /\ brk[p] + inc \in Nat /\ brk[p] + inc <= brk[p]
          <5>1. MayShrink(p, inc)
            BY <3>3 DEF BrkShrink
          <5> QED
            BY <5>1, ShrinkFacts
        <4>3. /\ PageAbove(brk[p] + inc) <= PageAbove(brk[p])
              /\ PageAbove(brk[p] + inc) \in Nat /\ PageAbove(brk[p]) \in Nat
          BY <4>2, PageAboveMonotone, PageAboveFacts
        <4> QED
          BY <1>0, <1>1, <4>1, <4>3 DEF Expected
      <3> QED
        BY <3>1, <3>2, <3>3
    <2> QED
      BY <2>4, <2>5
  <1>2. CASE pc # "user" /\ own = p
    <2>0. HeapCall /\ ~Spawning
      BY <1>0, <1>2, OwnHeapCall
    <2>1. CASE AllocPage \/ NextLevelPresent \/ NextLevelCreate \/ UNCHANGED vars
      <3>1. /\ UNCHANGED <<own, page, first, last, brk>> /\ pc' # "user"
            /\ (pc \in {"loop", "walk"} <=> pc' \in {"loop", "walk"})
        BY <1>2, <2>1 DEF AllocPage, NextLevelPresent, NextLevelCreate, vars
      <3> QED
        BY <1>2, <3>1 DEF Expected
    <2>2. CASE AllocPageFails \/ NextLevelFails \/ MapLeafExists
      <3>1. StartRollback /\ pc \in {"loop", "walk"}
        BY <2>0, <2>2 DEF AllocPageFails, NextLevelFails, MapLeafExists, MapFails, Spawning
      <3>2. /\ pc' = "rollback" /\ own' = own /\ first' = first /\ page' = first /\ last' = page
        BY <3>1 DEF StartRollback
      <3>3. first <= page
        BY <2>0 DEF LimitInv
      <3> QED
        BY <1>0, <1>2, <3>1, <3>2, <3>3, TypeNumbers DEF Expected
    <2>3. CASE BrkGrown
      <3>1. page = PageAbove(target) /\ pc = "loop"
        BY <2>0, <2>3, TypeNumbers DEF BrkGrown, LoopDone, LimitInv, CallHeap
      <3>2. brk'[p] = target /\ pc' = "user"
        BY <1>2, <2>3 DEF BrkGrown, Return, TypeOK
      <3> QED
        BY <1>2, <3>1, <3>2 DEF Expected
    <2>4. CASE BrkShrunk
      <3>1. first = PageAbove(target) /\ pc = "shrink" /\ page >= last
        BY <2>0, <2>4 DEF BrkShrunk, CallHeap
      <3>2. brk'[p] = target /\ pc' = "user"
        BY <1>2, <2>4 DEF BrkShrunk, Return, TypeOK
      <3> QED
        BY <1>0, <1>2, <3>1, <3>2, TypeNumbers DEF Expected
    <2>5. CASE BrkRolledBack
      <3>1. first = PageAbove(brk[own]) /\ pc = "rollback" /\ page >= last
        BY <2>0, <2>5 DEF BrkRolledBack, CallHeap
      <3>2. brk' = brk /\ pc' = "user"
        BY <1>2, <2>5 DEF BrkRolledBack, Return
      <3> QED
        BY <1>0, <1>2, <3>1, <3>2, TypeNumbers DEF Expected
    <2>6. CASE \/ AddrspaceCreate \/ AddrspaceCreateFails \/ ElfHeader \/ ElfHeaderFails
               \/ PageRefused \/ SegmentDone \/ StackDone \/ NoSlotLeft
               \/ \E q \in Proc : ProcessCreateUser(q)
      BY <2>0, <2>6 DEF AddrspaceCreate, AddrspaceCreateFails, ElfHeader, ElfHeaderFails,
         PageRefused, SegmentDone, StackDone, NoSlotLeft, ProcessCreateUser, Spawning
    <2>7. CASE \/ \E img \in Image : SpawnCall(img)
               \/ \E q \in Proc : ProcessExit(q)
               \/ ReapTerminated
               \/ \E q \in Proc, inc \in Increment : BrkGrow(q, inc) \/ BrkShrink(q, inc)
      BY <1>2, <2>7 DEF SpawnCall, ProcessExit, ReapTerminated, BrkGrow, BrkShrink
    <2> QED
      BY <1>2, <2>1, <2>2, <2>3, <2>4, <2>5, <2>6, <2>7 DEF Next, Spawn, KernelStep
  <1> QED
    BY <1>1, <1>2

\* Every step keeps it for each process: a new one starts with an empty heap, others change by
\* their own heap calls only.
LEMMA ProcHeapNext ==
    ASSUME TypeOK, SegsInv, LimitInv, MemInv, HeapInv, [Next]_vars, NEW p \in Proc
    PROVE  ProcHeap(p)'
  <1> SUFFICES ASSUME life'[p] = "alive"
               PROVE  /\ ElfMin < PageAbove(heapStart[p])'
                      /\ \A v \in Page :
                          /\ v < ElfMin => ~Mapped(p, v)'
                          /\ PageAbove(heapStart[p])' <= v /\ v < StackBase
                               => (Mapped(p, v)' <=> Expected(p, v)')
                          /\ v >= StackBase => Mapped(p, v)'
    BY DEF ProcHeap
  <1>0. LoadInv /\ CallHeap /\ ProcHeap(p) /\ FrameInv /\ SpaceInv /\ CallInv
    BY DEF HeapInv, MemInv
  <1>1. CASE ProcessCreateUser(p)
    <2>1. /\ pc = "enter" /\ tab'[p] = tab[Local] /\ pc' = "user"
          /\ heapStart'[p] = imageEnd * PageSize /\ brk'[p] = imageEnd * PageSize
      BY <1>1, OwnerFacts DEF ProcessCreateUser, Return, Without, Cleared
    <2>2. PageAbove(heapStart'[p]) = imageEnd /\ PageAbove(brk'[p]) = imageEnd
      BY <2>1, PageAboveExact, TypeNumbers
    <2>3. /\ ElfMin < imageEnd /\ loop = "stack" /\ page >= StackTop
          /\ \A v \in Page : Mapped(Local, v) => (ElfMin <= v /\ v < imageEnd) \/ StackBase <= v
          /\ \A v \in Page : StackBase <= v /\ v < page => Mapped(Local, v)
      BY <1>0, <2>1 DEF LoadInv, Spawning
    <2>4. \A v \in Page : Mapped(p, v)' <=> Mapped(Local, v)
      BY <2>1 DEF Mapped
    <2>5. \A v \in Page : Expected(p, v)' <=> v < imageEnd
      BY <2>1, <2>2 DEF Expected
    <2>6. ElfMin < PageAbove(heapStart[p])'
      BY <2>2, <2>3
    <2>7. \A v \in Page : v \in Nat /\ v < StackTop
      BY LayoutAssumption DEF Page
    <2>8. ASSUME NEW v \in Page
          PROVE  /\ v < ElfMin => ~Mapped(Local, v)
                 /\ imageEnd <= v /\ v < StackBase => (Mapped(Local, v) <=> v < imageEnd)
                 /\ v >= StackBase => Mapped(Local, v)
      BY <2>3, <2>7, TypeNumbers, LayoutAssumption DEF StackBase
    <2> QED
      BY <2>2, <2>4, <2>5, <2>6, <2>8
  <1>2. CASE ~ProcessCreateUser(p)
    <2>1. life[p] = "alive" /\ heapStart'[p] = heapStart[p]
      BY <1>2, FieldsKept
    <2>2. PageAbove(heapStart[p])' = PageAbove(heapStart[p]) /\ PageAbove(heapStart[p]) \in Nat
      BY <2>1, PageAboveFacts, TypeNumbers
    <2>3. /\ ElfMin < PageAbove(heapStart[p])
          /\ \A v \in Page :
              /\ v < ElfMin => ~Mapped(p, v)
              /\ PageAbove(heapStart[p]) <= v /\ v < StackBase
                   => (Mapped(p, v) <=> Expected(p, v))
              /\ v >= StackBase => Mapped(p, v)
      BY <1>0, <2>1 DEF ProcHeap
    <2>4. CASE ~(own = p /\ (MapLeaf \/ UnmapFreePage))
      <3>1. \A v \in Page : Mapped(p, v)' <=> Mapped(p, v)
        BY <2>1, <2>4, LeavesKept DEF Mapped
      <3>2. \A v \in Page : Expected(p, v)' <=> Expected(p, v)
        BY <1>0, <2>1, <2>4, ExpectedKept
      <3> QED
        BY <2>2, <2>3, <3>1, <3>2
    <2>5. CASE own = p /\ MapLeaf
      <3>0. /\ pc = "walk" /\ pc' = "loop" /\ own' = own /\ page' = page + 1 /\ page \in Page
            /\ tab' = [tab EXCEPT ![own][At(0, page)] = hand] /\ hand # 0
        BY <1>0, <2>5, WalkPage DEF MapLeaf, CallInv, args
      <3>1. HeapCall
        BY <1>0, <2>5, <3>0, OwnHeapCall
      <3>2. PageAbove(heapStart[p]) <= page /\ page < StackBase
        <4>1. /\ PageAbove(heapStart[p]) <= first /\ first <= page
              /\ page <= last /\ last <= StackGuard
          BY <1>0, <2>5, <3>1 DEF CallHeap, LimitInv
        <4> QED
          BY <2>2, <4>1, TypeNumbers, LayoutAssumption DEF StackBase
      <3>3. \A v \in Page : Mapped(p, v)' <=> v = page \/ Mapped(p, v)
        <4>1. 0 \in 0 .. 4 /\ p \in Owner
          BY OwnerFacts
        <4>2. PICK o \in Owner, w \in Page : o = own /\ w = page
          BY <2>5, <3>0, <4>1
        <4>3. tab' = [tab EXCEPT ![o][At(0, w)] = hand]
          BY <3>0, <4>2
        <4>4. \A k \in Entry : tab'[p][k] = IF k = At(0, w) THEN hand ELSE tab[p][k]
          BY <2>5, <4>1, <4>2, <4>3 DEF TypeOK
        <4>5. \A v \in Page : tab'[p][At(0, v)] = IF v = w THEN hand ELSE tab[p][At(0, v)]
          BY <4>4, LeavesDiffer
        <4> QED
          BY <3>0, <4>2, <4>5 DEF Mapped
      <3>4. \A v \in Page : (Expected(p, v)' <=> v < page + 1) /\ (Expected(p, v) <=> v < page)
        BY <2>5, <3>0 DEF Expected
      <3>5. \A v \in Page : v \in Nat
        BY PageIsNat
      <3>6. ASSUME NEW v \in Page
            PROVE  /\ v < ElfMin => ~Mapped(p, v)'
                   /\ PageAbove(heapStart[p]) <= v /\ v < StackBase
                       => (Mapped(p, v)' <=> Expected(p, v)')
                   /\ v >= StackBase => Mapped(p, v)'
        BY <2>2, <2>3, <3>2, <3>3, <3>4, <3>5, TypeNumbers, LayoutAssumption
      <3> QED
        BY <2>2, <2>3, <3>6
    <2>6. CASE own = p /\ UnmapFreePage
      <3>0. /\ pc \in {"shrink", "rollback"} /\ pc' = pc /\ own' = own /\ page' = page + 1
            /\ page < last /\ first' = first /\ last' = last
        BY <2>6 DEF UnmapFreePage, args
      <3>1. HeapCall
        BY <1>0, <2>6, <3>0, OwnHeapCall
      <3>2. PageAbove(heapStart[p]) <= page /\ page < StackBase /\ first <= page /\ page \in Page
        <4>1. PageAbove(heapStart[p]) <= first /\ first <= page /\ last <= StackGuard
          BY <1>0, <2>6, <3>1 DEF CallHeap, LimitInv
        <4> QED
          BY <2>2, <3>0, <4>1, TypeNumbers, LayoutAssumption DEF StackBase, Page
      <3>3. \A v \in Page : Mapped(p, v)' <=> v # page /\ Mapped(p, v)
        <4>1. CASE \A m \in 0 .. 4 : tab[own][At(m, page)] # 0
          <5>1. 0 \in 0 .. 4 /\ p \in Owner
            BY OwnerFacts
          <5>2. tab' = [tab EXCEPT ![own][At(0, page)] = 0]
            BY <2>6, <4>1 DEF UnmapFreePage
          <5>3. PICK o \in Owner, w \in Page : o = own /\ w = page
            BY <2>6, <3>2, <5>1
          <5>4. tab' = [tab EXCEPT ![o][At(0, w)] = 0]
            BY <5>2, <5>3
          <5>5. \A k \in Entry : tab'[p][k] = IF k = At(0, w) THEN 0 ELSE tab[p][k]
            BY <2>6, <5>1, <5>3, <5>4 DEF TypeOK
          <5>6. \A v \in Page : tab'[p][At(0, v)] = IF v = w THEN 0 ELSE tab[p][At(0, v)]
            BY <5>5, LeavesDiffer
          <5> QED
            BY <5>3, <5>6 DEF Mapped
        <4>2. CASE ~ \A m \in 0 .. 4 : tab[own][At(m, page)] # 0
          <5>1. tab' = tab
            BY <2>6, <4>2 DEF UnmapFreePage, mem
          <5>2. PICK m \in 0 .. 4 : tab[own][At(m, page)] = 0
            BY <4>2
          <5>3. 0 \in 0 .. 4 /\ 0 <= m /\ own \in Owner
            BY <2>6, OwnerFacts
          <5>4. ~Mapped(p, page)
            BY <1>0, <2>6, <3>2, <5>2, <5>3 DEF Mapped, FrameInv, Closed
          <5> QED
            BY <5>1, <5>4 DEF Mapped
        <4> QED
          BY <4>1, <4>2
      <3>4. \A v \in Page : /\ Expected(p, v)' <=> v < first \/ (page + 1 <= v /\ v < last)
                            /\ Expected(p, v) <=> v < first \/ (page <= v /\ v < last)
        BY <2>6, <3>0 DEF Expected
      <3>5. \A v \in Page : v \in Nat
        BY PageIsNat
      <3>6. ASSUME NEW v \in Page
            PROVE  /\ v < ElfMin => ~Mapped(p, v)'
                   /\ PageAbove(heapStart[p]) <= v /\ v < StackBase
                       => (Mapped(p, v)' <=> Expected(p, v)')
                   /\ v >= StackBase => Mapped(p, v)'
        BY <2>2, <2>3, <3>2, <3>3, <3>4, <3>5, TypeNumbers, LayoutAssumption DEF StackBase
      <3> QED
        BY <2>2, <2>3, <3>6
    <2> QED
      BY <2>4, <2>5, <2>6
  <1> QED
    BY <1>1, <1>2

\* The steps after which no process is under construction.
LEMMA NotLoading ==
    ASSUME [Next]_vars, MemInv,
           ~ \E img \in Image : SpawnCall(img),
           ~ (AddrspaceCreate \/ ElfHeader \/ SegmentDone \/ StackDone),
           ~ (loop # "grow" /\ (AllocPage \/ NextLevelPresent \/ NextLevelCreate \/ MapLeaf)),
           ~ UNCHANGED vars
    PROVE  ~Spawning'
  <1> USE DEF mem, procs, args
  <1>1. CASE AllocPage \/ NextLevelPresent \/ NextLevelCreate \/ MapLeaf
    BY <1>1 DEF AllocPage, NextLevelPresent, NextLevelCreate, MapLeaf, Spawning
  <1>2. CASE \/ AddrspaceCreateFails \/ ElfHeaderFails \/ PageRefused \/ NoSlotLeft
             \/ (\E q \in Proc : ProcessCreateUser(q)) \/ BrkGrown \/ BrkShrunk \/ BrkRolledBack
    BY <1>2 DEF AddrspaceCreateFails, ElfHeaderFails, PageRefused, NoSlotLeft, SpawnFails,
       ProcessCreateUser, BrkGrown, BrkShrunk, BrkRolledBack, Return, Spawning
  <1>3. CASE AllocPageFails \/ NextLevelFails \/ MapLeafExists
    BY <1>3 DEF AllocPageFails, NextLevelFails, MapLeafExists, MapFails, StartRollback,
       SpawnFails, Return, Spawning
  <1>4. CASE UnmapFreePage \/ ReapTerminated \/ \E q \in Proc : ProcessExit(q)
    BY <1>4 DEF UnmapFreePage, ReapTerminated, ProcessExit, Spawning
  <1>5. CASE \E q \in Proc, inc \in Increment : BrkGrow(q, inc) \/ BrkShrink(q, inc)
    BY <1>5 DEF BrkGrow, BrkShrink, Spawning
  <1> QED
    BY <1>1, <1>2, <1>3, <1>4, <1>5 DEF Next, Spawn, KernelStep

\* Steps inside a loop that keep its variables and the leaves of the space being built.
LEMMA LoadQuiet ==
    ASSUME LoadInv, pc \in {"loop", "walk"}, pc' \in {"loop", "walk"},
           UNCHANGED <<loop, segs, imageEnd, page>>,
           \A v \in Page : Mapped(Local, v)' <=> Mapped(Local, v)
    PROVE  LoadInv'
  <1>1. /\ loop' = loop /\ segs' = segs /\ imageEnd' = imageEnd /\ page' = page
        /\ Spawning' <=> Spawning
    BY DEF Spawning
  <1> QED
    BY <1>1 DEF LoadInv

\* Every step keeps the description of the space under construction.
LEMMA LoadNext ==
    ASSUME TypeOK, SegsInv, LimitInv, MemInv, HeapInv, [Next]_vars
    PROVE  LoadInv'
  <1>0. LoadInv /\ SpaceInv /\ CallInv /\ Local \in Owner /\ \A v \in Page : At(0, v) \in Entry
    BY OwnerFacts, LeavesDiffer DEF HeapInv, MemInv
  <1> USE DEF mem, procs, args
  <1>1. CASE ~Spawning'
    BY <1>1 DEF LoadInv, Spawning
  <1>2. CASE \E img \in Image : SpawnCall(img)
    <2>1. pc' = "create" /\ tab' = tab /\ tab[Local] = Empty
      BY <1>0, <1>2 DEF SpawnCall, SpaceInv, Spawning
    <2>2. \A v \in Page : ~Mapped(Local, v)'
      BY <1>0, <2>1, OwnerFacts DEF Mapped
    <2> QED
      BY <2>1, <2>2 DEF LoadInv
  <1>3. CASE AddrspaceCreate
    <2>1. pc' = "header" /\ tab' = [tab EXCEPT ![Local][Root] = FreeHead] /\ tab[Local] = Empty
      BY <1>0, <1>3 DEF AddrspaceCreate, SpaceInv
    <2>2. \A v \in Page : At(0, v) # Root
      <3>1. PICK z \in 0 .. 4, r \in 0 .. 4 : z = 0 /\ r = 4
        OBVIOUS
      <3>2. \A v \in Page : At(z, v) # At(r, v)
        BY <3>1, AtLevelsDiffer
      <3> QED
        BY <3>1, <3>2, EntryIsAt
    <2>3. \A k \in Entry : k # Root => tab'[Local][k] = 0
      BY <1>0, <2>1, OwnerFacts DEF TypeOK
    <2>4. \A v \in Page : ~Mapped(Local, v)'
      BY <1>0, <2>2, <2>3 DEF Mapped
    <2> QED
      BY <2>1, <2>4 DEF LoadInv
  <1>4. CASE ElfHeader
    <2>1. /\ pc' = "loop" /\ loop' = "load" /\ segs' = segs /\ tab' = tab
          /\ page' = Head(segs).from /\ imageEnd' = ImageEnd(segs)
          /\ pc = "header" /\ Spawning
      BY <1>4 DEF ElfHeader, Spawning
    <2>2. HeadersOk(segs) /\ segs \in Seq(Segment) /\ segs # <<>>
      BY <1>4 DEF ElfHeader, HeadersOk, TypeOK
    <2>3. 1 \in DOMAIN segs /\ Head(segs) = segs[1]
      BY <2>2
    <2>4. /\ \A i \in DOMAIN segs : segs[i].to <= ImageEnd(segs)
          /\ \A i \in DOMAIN segs : segs[i] \in Segment /\ segs[i].from < segs[i].to
          /\ \A i \in DOMAIN segs : ElfMin <= segs[i].from
      BY <2>2, ImageEndIsLargest DEF HeadersOk
    <2>5. ImageEnd(segs) \in Nat
      <3>1. PICK i \in DOMAIN segs : ImageEnd(segs) = segs[i].to
        BY <2>2, ImageEndIsLargest
      <3> QED
        BY <2>4, <3>1, SegmentFacts
    <2>6. ElfMin <= Head(segs).from /\ ElfMin < ImageEnd(segs)
      <3>1. /\ segs[1].from \in Nat /\ segs[1].to \in Nat /\ segs[1].from < segs[1].to
            /\ ElfMin <= segs[1].from /\ segs[1].to <= ImageEnd(segs)
        BY <2>3, <2>4, SegmentFacts
      <3> QED
        BY <2>3, <2>5, <3>1, LayoutAssumption
    <2>7. \A v \in Page : ~Mapped(Local, v)'
      BY <1>0, <2>1 DEF LoadInv, Mapped
    <2> QED
      BY <2>1, <2>4, <2>6, <2>7 DEF LoadInv
  <1>5. CASE SegmentDone
    <2>1. /\ pc' = pc /\ segs' = Tail(segs) /\ tab' = tab /\ imageEnd' = imageEnd
          /\ pc = "loop" /\ loop = "load" /\ Spawning
      BY <1>5 DEF SegmentDone, Spawning
    <2>2. HeadersOk(segs) /\ segs \in Seq(Segment) /\ segs # <<>>
      BY <2>1 DEF SegsInv, HeadersOk, TypeOK
    <2>3. \A i \in DOMAIN segs : segs[i].to <= imageEnd
      BY <1>0, <2>1 DEF LoadInv
    <2>4. /\ ElfMin < imageEnd
          /\ \A v \in Page : Mapped(Local, v)' => ElfMin <= v /\ v < imageEnd
      BY <1>0, <2>1 DEF LoadInv, Mapped
    <2>5. CASE Tail(segs) = <<>>
      <3>1. loop' = "stack" /\ page' = StackBase
        BY <1>5, <2>5 DEF SegmentDone
      <3>2. \A v \in Page : ~(StackBase <= v /\ v < StackBase)
        BY PageIsNat, LayoutAssumption DEF StackBase
      <3>3. StackBase <= StackBase
        BY LayoutAssumption DEF StackBase
      <3> QED
        BY <2>1, <2>4, <3>1, <3>2, <3>3 DEF LoadInv
    <2>6. CASE Tail(segs) # <<>>
      <3>1. loop' = "load" /\ page' = Head(Tail(segs)).from
        BY <1>5, <2>1, <2>6 DEF SegmentDone
      <3>2. \A i \in DOMAIN Tail(segs) : i + 1 \in DOMAIN segs /\ Tail(segs)[i] = segs[i + 1]
        BY <2>2
      <3>3. 1 \in DOMAIN Tail(segs) /\ Head(Tail(segs)) = Tail(segs)[1]
        BY <2>2, <2>6
      <3>4. \A i \in DOMAIN segs' : segs'[i].to <= imageEnd
        BY <2>1, <2>3, <3>2
      <3>5. ElfMin <= Head(Tail(segs)).from
        BY <2>2, <3>2, <3>3 DEF HeadersOk
      <3> QED
        BY <2>1, <2>4, <3>1, <3>4, <3>5 DEF LoadInv
    <2> QED
      BY <2>5, <2>6
  <1>6. CASE StackDone
    <2>1. /\ pc' = "enter" /\ loop = "stack" /\ pc = "loop" /\ page >= StackTop
          /\ UNCHANGED <<tab, loop, page, imageEnd, segs>> /\ Spawning
      BY <1>6 DEF StackDone, LoopDone, Spawning
    <2> QED
      BY <1>0, <2>1 DEF LoadInv, Mapped
  <1>7. CASE AllocPage \/ NextLevelPresent
    <2>1. /\ pc \in {"loop", "walk"} /\ pc' \in {"loop", "walk"}
          /\ UNCHANGED <<loop, segs, imageEnd, page>> /\ tab' = tab
      BY <1>7 DEF AllocPage, NextLevelPresent
    <2> QED
      BY <1>0, <2>1, LoadQuiet DEF Mapped
  <1>8. CASE NextLevelCreate
    <2>1. /\ pc \in {"loop", "walk"} /\ pc' \in {"loop", "walk"}
          /\ UNCHANGED <<loop, segs, imageEnd, page>>
          /\ tab' = [tab EXCEPT ![own][At(lvl, page)] = FreeHead]
      BY <1>8 DEF NextLevelCreate, LinkTable
    <2>2. lvl \in 0 .. 4 /\ lvl # 0 /\ page \in Page
      BY <1>8, TypeNumbers, WalkPage DEF NextLevelCreate
    <2>3. own \in Owner
      BY DEF TypeOK
    <2>4. PICK o \in Owner, l \in 0 .. 4, w \in Page : o = own /\ l = lvl /\ w = page
      BY <2>2, <2>3
    <2>5. tab' = [tab EXCEPT ![o][At(l, w)] = FreeHead] /\ l # 0
      BY <2>1, <2>2, <2>4
    <2>6. \A v \in Page : tab'[Local][At(0, v)] = tab[Local][At(0, v)]
      BY <1>0, <2>5, TableSet
    <2> QED
      BY <1>0, <2>1, <2>6, LoadQuiet DEF Mapped
  <1>9. CASE MapLeaf /\ loop # "grow"
    <2>1. /\ pc = "walk" /\ pc' = "loop" /\ UNCHANGED <<loop, segs, imageEnd>>
          /\ tab' = [tab EXCEPT ![own][At(0, page)] = hand] /\ page' = page + 1
          /\ Spawning /\ Spawning'
      BY <1>9 DEF MapLeaf, Spawning
    <2>2. own = Local /\ hand # 0 /\ page \in Page
      BY <1>0, <2>1, WalkPage DEF CallInv
    <2>3. PICK w \in Page : w = page
      BY <2>2
    <2>4. \A k \in Entry : tab'[Local][k] = IF k = At(0, w) THEN hand ELSE tab[Local][k]
      <3>1. tab' = [tab EXCEPT ![Local][At(0, w)] = hand]
        BY <2>1, <2>2, <2>3
      <3> QED
        BY <1>0, <3>1, OwnerFacts DEF TypeOK
    <2>5. \A v \in Page : tab'[Local][At(0, v)] = IF v = w THEN hand ELSE tab[Local][At(0, v)]
      BY <2>4, LeavesDiffer
    <2>6. \A v \in Page : Mapped(Local, v)' <=> v = page \/ Mapped(Local, v)
      BY <2>2, <2>3, <2>5 DEF Mapped
    <2>7. page \in Nat /\ \A v \in Page : v \in Nat
      BY PageIsNat, TypeNumbers
    <2>8. CASE loop = "load"
      <3>1. /\ ElfMin <= page /\ ElfMin < imageEnd
            /\ \A i \in DOMAIN segs : segs[i].to <= imageEnd
            /\ \A v \in Page : Mapped(Local, v) => ElfMin <= v /\ v < imageEnd
        BY <1>0, <2>1, <2>8 DEF LoadInv
      <3>2. page < imageEnd
        <4>1. segs \in Seq(Segment) /\ segs # <<>>
          BY <2>1, <2>8 DEF SegsInv, HeadersOk, TypeOK
        <4>2. 1 \in DOMAIN segs /\ Head(segs) = segs[1] /\ segs[1] \in Segment
          BY <4>1
        <4>3. ~(page >= segs[1].to)
          BY <2>1, <2>8, <4>2 DEF LimitInv, LoopDone
        <4>4. segs[1].to \in Nat /\ segs[1].to <= imageEnd
          BY <3>1, <4>2, SegmentFacts
        <4> QED
          BY <2>7, <4>3, <4>4, TypeNumbers
      <3>3. ElfMin <= page + 1
        BY <2>7, <3>1, LayoutAssumption
      <3>4. \A v \in Page : Mapped(Local, v)' => ElfMin <= v /\ v < imageEnd
        BY <2>6, <3>1, <3>2
      <3> QED
        BY <2>1, <2>8, <3>1, <3>3, <3>4 DEF LoadInv
    <2>9. CASE loop = "stack"
      <3>1. /\ ElfMin < imageEnd /\ StackBase <= page
            /\ \A v \in Page : Mapped(Local, v) => (ElfMin <= v /\ v < imageEnd) \/ StackBase <= v
            /\ \A v \in Page : StackBase <= v /\ v < page => Mapped(Local, v)
        BY <1>0, <2>1, <2>9 DEF LoadInv
      <3>2. StackBase <= page + 1
        BY <2>7, <3>1, LayoutAssumption DEF StackBase
      <3>3. \A v \in Page : Mapped(Local, v)' => (ElfMin <= v /\ v < imageEnd) \/ StackBase <= v
        BY <2>6, <3>1
      <3>4. \A v \in Page : StackBase <= v /\ v < page + 1 => Mapped(Local, v)'
        <4>1. \A v \in Page : v < page + 1 => v < page \/ v = page
          BY <2>7
        <4> QED
          BY <2>6, <3>1, <4>1
      <3> QED
        BY <2>1, <2>9, <3>1, <3>2, <3>3, <3>4 DEF LoadInv
    <2> QED
      BY <1>9, <2>8, <2>9 DEF TypeOK
  <1>10. CASE UNCHANGED vars
    <2>1. UNCHANGED <<tab, pc, loop, segs, imageEnd, page>>
      BY <1>10 DEF vars
    <2> QED
      BY <1>0, <2>1 DEF LoadInv, Mapped, Spawning
  <1> QED
    BY <1>1, <1>2, <1>3, <1>4, <1>5, <1>6, <1>7, <1>8, <1>9, <1>10, NotLoading

\* Every step keeps the description of the heap call in progress.
LEMMA CallHeapNext ==
    ASSUME TypeOK, SegsInv, LimitInv, MemInv, HeapInv, [Next]_vars
    PROVE  CallHeap'
  <1>0. CallHeap /\ CallInv
    BY DEF HeapInv, MemInv
  <1> USE DEF mem, procs, args
  <1>1. CASE ~HeapCall'
    BY <1>1 DEF CallHeap
  <1>2. CASE \/ AllocPage \/ NextLevelPresent \/ NextLevelCreate \/ MapLeaf \/ UnmapFreePage
             \/ UNCHANGED vars
    <2>1. /\ UNCHANGED <<own, heapStart, brk, first, last, target, loop>>
          /\ pc' = pc \/ (pc \in {"loop", "walk"} /\ pc' \in {"loop", "walk"})
      BY <1>2 DEF AllocPage, NextLevelPresent, NextLevelCreate, MapLeaf, UnmapFreePage, vars
    <2>2. HeapCall' <=> HeapCall
      BY <2>1 DEF HeapCall
    <2> QED
      BY <1>0, <2>1, <2>2 DEF CallHeap
  <1>3. CASE AllocPageFails \/ NextLevelFails \/ MapLeafExists
    <2>1. CASE loop = "grow"
      <3>1. StartRollback /\ pc \in {"loop", "walk"} /\ HeapCall
        BY <1>3, <2>1 DEF AllocPageFails, NextLevelFails, MapLeafExists, MapFails, HeapCall
      <3>2. pc' = "rollback" /\ UNCHANGED <<own, heapStart, brk, first>>
        BY <3>1 DEF StartRollback
      <3>3. PageAbove(heapStart[own]) <= first /\ first = PageAbove(brk[own])
        BY <1>0, <3>1 DEF CallHeap
      <3> QED
        BY <3>2, <3>3 DEF CallHeap
    <2>2. CASE loop # "grow"
      <3>1. ~HeapCall'
        BY <1>3, <2>2 DEF AllocPageFails, NextLevelFails, MapLeafExists, MapFails, SpawnFails,
           Return, HeapCall
      <3> QED
        BY <1>1, <3>1
    <2> QED
      BY <2>1, <2>2
  <1>4. ASSUME NEW q \in Proc, NEW inc \in Increment, BrkGrow(q, inc) PROVE CallHeap'
    <2>1. /\ pc' = "loop" /\ own' = q /\ UNCHANGED <<heapStart, brk>>
          /\ first' = PageAbove(brk[q]) /\ last' = PageAbove(brk[q] + inc) /\ target' = brk[q] + inc
      BY <1>4 DEF BrkGrow
    <2>2. heapStart[q] <= brk[q] /\ heapStart[q] \in Nat /\ brk[q] \in Nat
      BY <1>4, TypeNumbers DEF BrkGrow, LimitInv
    <2>3. PageAbove(heapStart[q]) <= PageAbove(brk[q])
      BY <2>2, PageAboveMonotone
    <2> QED
      BY <2>1, <2>3 DEF CallHeap
  <1>5. ASSUME NEW q \in Proc, NEW inc \in Increment, BrkShrink(q, inc) PROVE CallHeap'
    <2>1. /\ pc' = "shrink" /\ own' = q /\ UNCHANGED <<heapStart, brk>>
          /\ first' = PageAbove(brk[q] + inc) /\ target' = brk[q] + inc
      BY <1>5 DEF BrkShrink
    <2>2. /\ heapStart[q] <= brk[q] + inc /\ heapStart[q] \in Nat /\ brk[q] + inc \in Nat
      <3>1. MayShrink(q, inc)
        BY <1>5 DEF BrkShrink
      <3> QED
        BY <3>1, ShrinkFacts
    <2>3. PageAbove(heapStart[q]) <= PageAbove(brk[q] + inc)
      BY <2>2, PageAboveMonotone
    <2> QED
      BY <2>1, <2>3 DEF CallHeap
  <1>6. CASE \/ \E img \in Image : SpawnCall(img)
             \/ AddrspaceCreate \/ ElfHeader \/ SegmentDone \/ StackDone
    <2>1. ~HeapCall'
      BY <1>6 DEF SpawnCall, AddrspaceCreate, ElfHeader, SegmentDone, StackDone, HeapCall
    <2> QED
      BY <1>1, <2>1
  <1>7. CASE \/ AddrspaceCreateFails \/ ElfHeaderFails \/ PageRefused \/ NoSlotLeft
             \/ (\E q \in Proc : ProcessCreateUser(q)) \/ BrkGrown \/ BrkShrunk \/ BrkRolledBack
             \/ (\E q \in Proc : ProcessExit(q)) \/ ReapTerminated
    <2>1. ~HeapCall'
      BY <1>7 DEF AddrspaceCreateFails, ElfHeaderFails, PageRefused, NoSlotLeft, SpawnFails,
         ProcessCreateUser, BrkGrown, BrkShrunk, BrkRolledBack, Return, ProcessExit,
         ReapTerminated, HeapCall
    <2> QED
      BY <1>1, <2>1
  <1> QED
    BY <1>2, <1>3, <1>4, <1>5, <1>6, <1>7 DEF Next, Spawn, KernelStep

\* There is no process at boot.
LEMMA HeapInit == Init => HeapInv
  BY DEF Init, HeapInv, LoadInv, CallHeap, ProcHeap, Spawning, HeapCall

\* Every step keeps the invariant about mapped pages.
LEMMA HeapNext ==
    TypeOK /\ SegsInv /\ LimitInv /\ MemInv /\ HeapInv /\ [Next]_vars => HeapInv'
  <1> SUFFICES ASSUME TypeOK, SegsInv, LimitInv, MemInv, HeapInv, [Next]_vars PROVE HeapInv'
    OBVIOUS
  <1>1. LoadInv'
    BY LoadNext
  <1>2. CallHeap'
    BY CallHeapNext
  <1>3. \A p \in Proc : ProcHeap(p)'
    BY ProcHeapNext
  <1> QED
    BY <1>1, <1>2, <1>3 DEF HeapInv

\* The invariant gives HeapMatchesBrk: the guard page is above every page that a heap has, and
\* above every page that a heap call is to map.
LEMMA HeapMatchesFromInv == TypeOK /\ LimitInv /\ CallInv /\ HeapInv => HeapMatchesBrk
  <1> SUFFICES ASSUME TypeOK, LimitInv, CallInv, HeapInv, NEW p \in Proc, life[p] = "alive",
                      NEW v \in Page
               PROVE  /\ v < ElfMin => ~Mapped(p, v)
                      /\ v >= PageAbove(heapStart[p]) /\ v < StackBase =>
                            (Mapped(p, v) <=> Expected(p, v))
                      /\ v = StackGuard => ~Mapped(p, v)
                      /\ v >= StackBase => Mapped(p, v)
    BY DEF HeapMatchesBrk, Mapped
  <1>1. /\ v < ElfMin => ~Mapped(p, v)
        /\ PageAbove(heapStart[p]) <= v /\ v < StackBase => (Mapped(p, v) <=> Expected(p, v))
        /\ v >= StackBase => Mapped(p, v)
    BY DEF HeapInv, ProcHeap
  <1>2. /\ heapStart[p] \in Nat /\ brk[p] \in Nat /\ heapStart[p] <= brk[p]
        /\ brk[p] <= StackGuard * PageSize /\ v \in Nat
    BY TypeNumbers, PageIsNat DEF LimitInv
  <1>3. /\ PageAbove(brk[p]) <= StackGuard /\ PageAbove(heapStart[p]) <= PageAbove(brk[p])
        /\ PageAbove(brk[p]) \in Nat /\ PageAbove(heapStart[p]) \in Nat
    BY <1>2, PageAboveBound, PageAboveMonotone, PageAboveFacts, LayoutAssumption
  <1>4. v = StackGuard => ~Expected(p, v)
    <2>1. CASE pc = "user" \/ own # p
      BY <1>3, <2>1, LayoutAssumption DEF Expected
    <2>2. CASE ~(pc = "user" \/ own # p)
      <3>1. HeapCall /\ first <= page /\ page <= last /\ last <= StackGuard
        BY <2>2, OwnHeapCall DEF LimitInv
      <3>2. first \in Nat /\ page \in Nat /\ last \in Nat
        BY TypeNumbers
      <3> QED
        BY <2>2, <3>1, <3>2, LayoutAssumption DEF Expected
    <2> QED
      BY <2>1, <2>2
  <1> QED
    BY <1>1, <1>2, <1>3, <1>4, LayoutAssumption DEF StackBase

\* In every reachable state a live process has of its heap exactly the pages it is to have: those
\* its heap_brk stands for, and inside umem_brk those its growing loop has got to, or its shrinking
\* or rolling back loop has not yet taken. It has its whole stack, and neither the guard page nor
\* the pages at address 0.
THEOREM HeapSafe == Spec => []HeapMatchesBrk
  <1> DEFINE IInv == TypeOK /\ SegsInv /\ LimitInv /\ MemInv /\ HeapInv
  <1>1. Init => IInv
    BY TypeInit, LimitInit, MemInit, HeapInit
  <1>2. IInv /\ [Next]_vars => IInv'
    BY TypeNext, LimitNext, MemNext, HeapNext
  <1>3. IInv => HeapMatchesBrk
    BY HeapMatchesFromInv DEF MemInv
  <1> QED
    BY <1>1, <1>2, <1>3, PTL DEF Spec

\* What OnlyHeapUnmapped says of one step.
HeapStep ==
    \A p \in Proc, v \in Page :
        life[p] = "alive" /\ life'[p] = "alive" /\ tab[p][At(0, v)] # 0 =>
            \/ tab'[p][At(0, v)] = tab[p][At(0, v)]
            \/ /\ tab'[p][At(0, v)] = 0
               /\ own = p /\ v >= PageAbove(heapStart[p]) /\ v < StackGuard

\* It holds of every step from a state of the invariant.
LEMMA HeapStepHolds ==
    TypeOK /\ SegsInv /\ LimitInv /\ MemInv /\ HeapInv /\ [Next]_vars => HeapStep
  <1> SUFFICES ASSUME TypeOK, SegsInv, LimitInv, MemInv, HeapInv, [Next]_vars,
                      NEW p \in Proc, NEW v \in Page,
                      life[p] = "alive", life'[p] = "alive", tab[p][At(0, v)] # 0
               PROVE  \/ tab'[p][At(0, v)] = tab[p][At(0, v)]
                      \/ /\ tab'[p][At(0, v)] = 0
                         /\ own = p /\ v >= PageAbove(heapStart[p]) /\ v < StackGuard
    BY DEF HeapStep
  <1>0. p \in Owner /\ CallHeap /\ CallInv
    BY OwnerFacts DEF HeapInv, MemInv
  <1>1. CASE ~(own = p /\ (MapLeaf \/ UnmapFreePage))
    BY <1>1, LeavesKept
  <1>2. CASE own = p /\ MapLeaf
    <2>1. /\ tab' = [tab EXCEPT ![own][At(0, page)] = hand]
          /\ tab[own][At(0, page)] = 0 /\ page \in Page
      BY <1>2, WalkPage DEF MapLeaf, LeafFree
    <2>2. PICK w \in Page : w = page
      BY <2>1
    <2>3. \A k \in Entry : k # At(0, w) => tab'[p][k] = tab[p][k]
      BY <1>0, <1>2, <2>1, <2>2 DEF TypeOK
    <2>4. v # w
      BY <1>2, <2>1, <2>2
    <2> QED
      BY <2>3, <2>4, LeavesDiffer
  <1>3. CASE own = p /\ UnmapFreePage
    <2>1. pc \in {"shrink", "rollback"} /\ page < last
      BY <1>3 DEF UnmapFreePage
    <2>2. HeapCall
      BY <2>1 DEF HeapCall
    <2>3. PageAbove(heapStart[p]) <= first /\ first <= page /\ last <= StackGuard
      BY <1>0, <1>3, <2>2 DEF CallHeap, LimitInv
    <2>4. PageAbove(heapStart[p]) \in Nat
      BY PageAboveFacts, TypeNumbers
    <2>5. page >= PageAbove(heapStart[p]) /\ page < StackGuard /\ page \in Page
      BY <2>1, <2>3, <2>4, TypeNumbers, LayoutAssumption DEF Page
    <2>6. PICK w \in Page : w = page
      BY <2>5
    <2>7. CASE tab' = tab
      BY <2>7
    <2>8. CASE tab' = [tab EXCEPT ![own][At(0, page)] = 0]
      <3>1. tab' = [tab EXCEPT ![p][At(0, w)] = 0]
        BY <1>3, <2>6, <2>8
      <3>2. \A k \in Entry : tab'[p][k] = IF k = At(0, w) THEN 0 ELSE tab[p][k]
        BY <1>0, <3>1 DEF TypeOK
      <3>3. tab'[p][At(0, v)] = IF v = w THEN 0 ELSE tab[p][At(0, v)]
        BY <3>2, LeavesDiffer
      <3>4. CASE v = w
        BY <1>3, <2>5, <2>6, <3>3, <3>4
      <3>5. CASE v # w
        BY <3>3, <3>5
      <3> QED
        BY <3>4, <3>5
    <2> QED
      BY <1>3, <2>7, <2>8 DEF UnmapFreePage, mem
  <1> QED
    BY <1>1, <1>2, <1>3

\* No step unmaps or remaps a page of a live process except its own umem_brk a page of its heap:
\* image, stack and other processes are out of reach of a shrink and of a rollback.
THEOREM OnlyHeapSafe == Spec => OnlyHeapUnmapped
  <1> DEFINE IInv == TypeOK /\ SegsInv /\ LimitInv /\ MemInv /\ HeapInv
  <1>1. Init => IInv
    BY TypeInit, LimitInit, MemInit, HeapInit
  <1>2. IInv /\ [Next]_vars => IInv'
    BY TypeNext, LimitNext, MemNext, HeapNext
  <1>3. IInv /\ [Next]_vars => HeapStep
    BY HeapStepHolds
  <1>4. Spec => [][HeapStep]_vars
    BY <1>1, <1>2, <1>3, PTL DEF Spec
  <1> QED
    BY <1>4 DEF HeapStep, OnlyHeapUnmapped
=============================================================================
