------------------------- MODULE PageManagerProofs -------------------------
(***************************************************************************)
(* Proofs about PageManager: no page has two owners, the pages of the last *)
(* checkpoint are not overwritten, every logged checkpoint is complete,    *)
(* and allocation is a best fit, for every file and every request.         *)
(***************************************************************************)
EXTENDS PageManager, FiniteSetTheorems, WellFoundedInduction, TLAPS

Apart(q, r) == End(q) <= r.start \/ End(r) <= q.start

\* The ranges that something refers to: the tables, the transaction, the
\* running checkpoint, or the last one.
Used == uncheckpointed \cup chunks \cup optimistic
        \cup Valid(header.catalog) \cup Valid(header.metadata) \cup InUse(disk)

\* Ranges are the same or have no page in common, and no free one is used.
Spread ==
    /\ \A q, r \in Free : q = r \/ Apart(q, r)
    /\ \A q, r \in Used : q = r \/ Apart(q, r)
    /\ \A q \in Free, r \in Used : Apart(q, r)
    /\ freeLists \cap rest = {} /\ prev \notin freeLists \cup rest

\* They end in the file; the pages of a running checkpoint are not written yet.
Bounds ==
    /\ \A r \in Free \cup Used : End(r) <= numPages
    /\ \A r \in Free \cup uncheckpointed \cup chunks \cup optimistic : End(r) <= fileSize
    /\ \A r \in InUse(disk) \cup disk.free : End(r) <= fileSize

\* Each range has one owner.
Owners ==
    /\ chunks \cap uncheckpointed \subseteq reclaimed /\ chunks \cap optimistic = {}
    /\ header.catalog \notin uncheckpointed \cup chunks
    /\ header.metadata \notin uncheckpointed \cup chunks
    /\ header.catalog = header.metadata => header.catalog = NoRange
    /\ disk.catalog \notin chunks \cup optimistic /\ disk.metadata \notin chunks \cup optimistic
    /\ disk.chunks \cap optimistic = {}

\* What a crash reopens is in order by itself.
DiskInv ==
    /\ \A q, r \in InUse(disk) \cup disk.free : q = r \/ Apart(q, r)
    /\ InUse(disk) \cap disk.free = {}
    /\ disk.catalog \notin disk.chunks /\ disk.metadata \notin disk.chunks
    /\ disk.catalog = disk.metadata => disk.catalog = NoRange
    /\ disk.metadata # NoRange => disk.catalog # NoRange

\* What holds at each point of a checkpoint.
PhaseInv ==
    /\ phase # "none" => optimistic = {}
    /\ phase = "none" => uncheckpointed = {} /\ header = NoHeader
    /\ phase # "merge" => rest = {} /\ prev = NoRange
    /\ phase = "merge" => uncheckpointed = {} /\ prev # NoRange
    /\ phase # "storage" => reclaimed = {}
    /\ reclaimed \subseteq chunks \cap uncheckpointed
    /\ uncheckpointed # {} => versioned
    /\ phase \in {"none", "storage"} => ~hasStorageChanges
    /\ phase \notin {"none", "storage"} => ~hasChanges
    /\ phase \in {"storage", "catalog"} =>
          header.catalog = disk.catalog /\ header.metadata = disk.metadata
    /\ phase = "metadata" =>
          /\ header.metadata = disk.metadata /\ header.catalog # NoRange
          /\ header.catalog = disk.catalog \/ catalogChanged \/ header.metadata = NoRange
    /\ phase \in {"finalize", "merge"} =>
          /\ disk.chunks = chunks
          /\ header.catalog = disk.catalog /\ header.metadata = disk.metadata

\* What is about to be logged: the last checkpoint again, if nothing changed, or
\* all there is now.
LogInv ==
    phase = "log" =>
        /\ header.catalog = image.catalog /\ header.metadata = image.metadata
        /\ image.catalog # NoRange /\ image.metadata # NoRange
        /\ \/ image = disk /\ ~hasStorageChanges /\ ~catalogChanged /\ ~versioned
           \/ /\ image.chunks = chunks /\ image.free = freeLists \cup uncheckpointed
              /\ versioned \/ disk.metadata = NoRange

\* While no flag says that something changed, the last checkpoint has the chunks
\* of the tables, and knows of every free page.
CleanInv ==
    /\ ~hasChanges /\ ~hasStorageChanges /\ ~catalogChanged /\ ~versioned
          /\ disk.metadata # NoRange
       => chunks = disk.chunks
    /\ ~versioned \/ phase \in {"finalize", "merge"} =>
          AllPages(Free \cup uncheckpointed) \subseteq AllPages(disk.free)

\* The pages of catalog and metadata: of the running checkpoint, or the last.
MetaRanges ==
    IF phase = "none" THEN Valid(disk.catalog) \cup Valid(disk.metadata)
    ELSE Valid(header.catalog) \cup Valid(header.metadata)

Known == Free \cup uncheckpointed \cup chunks \cup optimistic \cup MetaRanges

\* While nothing has failed, no page is forgotten.
Coverage == intact => 1 .. numPages - 1 \subseteq AllPages(Known)

\* mergePageRanges goes through the entries in order.
MergeInv == phase = "merge" => \A r \in rest : End(prev) <= r.start

IInv ==
    /\ TypeOK /\ Spread /\ Bounds /\ Owners /\ DiskInv
    /\ PhaseInv /\ LogInv /\ CleanInv /\ Coverage /\ MergeInv
-----------------------------------------------------------------------------
(* Pages and ranges.                                                       *)

\* The pages of a set of ranges.
LEMMA PagesIn ==
    ASSUME NEW S \in SUBSET PageRanges, NEW p
    PROVE  p \in AllPages(S) <=> p \in Int /\ \E r \in S : r.start <= p /\ p < End(r)
BY DEF AllPages, PagesOf, End, PageRanges

\* More ranges have more pages.
LEMMA MorePages ==
    ASSUME NEW S, NEW T, S \subseteq T
    PROVE  AllPages(S) \subseteq AllPages(T)
BY Zenon DEF AllPages

\* The pages of two sets of ranges together.
LEMMA PagesOfUnion ==
    ASSUME NEW S, NEW T
    PROVE  AllPages(S \cup T) = AllPages(S) \cup AllPages(T)
BY Zenon DEF AllPages

\* Ranges that are apart have no page in common.
LEMMA ApartPages ==
    ASSUME NEW q \in PageRanges, NEW r \in PageRanges, Apart(q, r)
    PROVE  PagesOf(q) \cap PagesOf(r) = {} /\ q # r
BY DEF Apart, PagesOf, End, PageRanges

\* Ranges that are apart pairwise are disjoint.
LEMMA ApartSets ==
    ASSUME NEW S \in SUBSET PageRanges, NEW T \in SUBSET PageRanges,
           \A q \in S, r \in T : Apart(q, r)
    PROVE  AllPages(S) \cap AllPages(T) = {} /\ S \cap T = {}
<1>1. \A q \in S, r \in T : PagesOf(q) \cap PagesOf(r) = {} /\ q # r
  BY ApartPages, Zenon
<1>2. ASSUME NEW p \in AllPages(S) PROVE p \notin AllPages(T)
  <2>1. PICK q \in S : p \in PagesOf(q)
    BY Zenon DEF AllPages
  <2> QED  BY <1>1, <2>1, Zenon DEF AllPages
<1> QED  BY <1>1, <1>2, Zenon

-----------------------------------------------------------------------------
(* popFreePages.                                                           *)

\* A set of numbers has a least one.
LEMMA LeastNumber ==
    ASSUME NEW S \in SUBSET Nat, S # {}
    PROVE  \E x \in S : \A y \in S : x <= y
<1>1. PICK x \in S : \A y \in S : ~ (<<y, x>> \in OpToRel(<, Nat))
  BY NatLessThanWellFounded, WFMin, Zenon
<1>2. \A y \in S : ~ (y < x)
  BY <1>1, Zenon DEF OpToRel
<1> QED  BY <1>2

\* A level is a number.
LEMMA LevelType == \A n \in Nat : getLevel(n) \in Nat
<1> TAKE n \in Nat
<1> DEFINE L == {k \in 1 .. n : 2 ^ k \in 1 .. n}
<1>1. IsFiniteSet(1 .. n)
  BY FS_Interval
<1>2. IsFiniteSet(L)
  BY <1>1, FS_Subset, L \in SUBSET (1 .. n), Zenon
<1> QED  BY <1>2, FS_CardinalityType, Zenon DEF getLevel

\* A larger range has no lower level.
LEMMA LevelsGrow ==
    ASSUME NEW m \in Nat, NEW n \in Nat, m <= n
    PROVE  getLevel(m) <= getLevel(n)
<1> DEFINE L(x) == {k \in 1 .. x : 2 ^ k \in 1 .. x}
<1>1. 1 .. m \subseteq 1 .. n
  OBVIOUS
<1>2. L(m) \subseteq L(n)
  BY <1>1, Zenon
<1>3. IsFiniteSet(1 .. n)
  BY FS_Interval
<1>4. IsFiniteSet(L(n))
  BY <1>3, FS_Subset, L(n) \in SUBSET (1 .. n), Zenon
<1>5. Cardinality(L(m)) <= Cardinality(L(n))
  BY <1>2, <1>4, FS_Subset, L(m) \in SUBSET L(n), Zenon
<1> QED  BY <1>5, Zenon DEF getLevel

\* The first range of a list that is large enough: there is one, and no other
\* is before it.
LEMMA FirstOfList ==
    ASSUME NEW S \in SUBSET PageRanges, S # {},
           NEW f, f = CHOOSE r \in S : \A q \in S \ {r} : entryCmp(r, q)
    PROVE  f \in S /\ \A q \in S \ {f} : entryCmp(f, q)
<1>1. PICK m \in {r.num : r \in S} : \A y \in {r.num : r \in S} : m <= y
  <2>1. {r.num : r \in S} \in SUBSET Nat /\ {r.num : r \in S} # {}
    BY Zenon DEF PageRanges
  <2> QED  BY <2>1, LeastNumber, Zenon
<1> DEFINE T == {r \in S : r.num = m}
<1>2. PICK a \in {r.start : r \in T} : \A y \in {r.start : r \in T} : a <= y
  <2>1. {r.start : r \in T} \in SUBSET Nat /\ {r.start : r \in T} # {}
    BY <1>1, Zenon DEF PageRanges
  <2> QED  BY <2>1, LeastNumber, Zenon
<1>3. PICK r \in T : r.start = a
  BY <1>2, Zenon
<1>4. ASSUME NEW q \in S \ {r} PROVE entryCmp(r, q)
  <2>1. m <= q.num
    BY <1>1, Zenon
  <2>2. CASE q.num = m
    <3>1. a <= q.start
      BY <1>2, <2>2, Zenon
    <3>2. q.start # r.start
      BY <1>3, <2>2 DEF PageRanges
    <3> QED  BY <1>3, <2>2, <3>1, <3>2 DEF entryCmp, PageRanges
  <2>3. CASE q.num # m
    BY <1>3, <2>1, <2>3 DEF entryCmp, PageRanges
  <2> QED  BY <2>2, <2>3, Zenon
<1> QED  BY <1>3, <1>4, Zenon

\* popFreePages looks for a list, and takes its first range.
LEMMA FoundIsFirst ==
    ASSUME TypeOK, NEW n \in Nat, searched(n) # {}
    PROVE  \E l \in searched(n) :
              /\ \A k \in searched(n) : l <= k
              /\ found(n) \in candidates(n, l)
              /\ \A q \in candidates(n, l) \ {found(n)} : entryCmp(found(n), q)
<1> DEFINE l == Min(searched(n))
<1>1. freeLists \in SUBSET PageRanges
  BY Zenon DEF TypeOK
<1>2. searched(n) \in SUBSET Nat
  <2>1. \A r \in freeLists : r.num \in Nat
    BY <1>1, Zenon DEF PageRanges
  <2> QED  BY <2>1, LevelType, Zenon DEF searched, Levels
<1>3. l \in searched(n) /\ \A k \in searched(n) : l <= k
  BY <1>2, LeastNumber, Zenon DEF Min
<1>4. candidates(n, l) \in SUBSET PageRanges /\ candidates(n, l) # {}
  BY <1>1, <1>3, Zenon DEF searched, candidates, freeList
<1> HIDE DEF l
<1>5. /\ found(n) \in candidates(n, l)
      /\ \A q \in candidates(n, l) \ {found(n)} : entryCmp(found(n), q)
  BY <1>4, FirstOfList, Zenon DEF found, l
<1> QED  BY <1>3, <1>5, Zenon

\* What popFreePages finds is free and large enough.
LEMMA FoundFits ==
    ASSUME TypeOK, NEW n \in Nat, searched(n) # {}
    PROVE  found(n) \in freeLists /\ found(n).num >= n
BY FoundIsFirst, Zenon DEF candidates, freeList

\* PopsBestFit holds in every state of the right type.
LEMMA BestFit ==
    ASSUME TypeOK
    PROVE  PopsBestFit
<1> SUFFICES ASSUME NEW n \in 1 .. MaxPages
             PROVE  LET fits == {r \in freeLists : r.num >= n} IN
                    /\ (searched(n) = {}) <=> (fits = {})
                    /\ fits # {} => \A r \in fits \ {found(n)} : entryCmp(found(n), r)
  BY Zenon DEF PopsBestFit
<1> DEFINE fits == {r \in freeLists : r.num >= n}
<1>1. n \in Nat
  BY ConstantsAssumption
<1>2. \A r \in freeLists : r \in PageRanges /\ r.num \in Nat
  BY Zenon DEF TypeOK, PageRanges
<1>3. \A r \in fits : getLevel(n) <= getLevel(r.num)
  BY <1>1, <1>2, LevelsGrow, Zenon
<1>4. \A r \in fits : getLevel(r.num) \in searched(n) /\ r \in candidates(n, getLevel(r.num))
  <2> TAKE r \in fits
  <2>1. getLevel(r.num) >= getLevel(n)
    BY <1>1, <1>2, <1>3, LevelType, Zenon
  <2> QED  BY <2>1, Zenon DEF searched, Levels, candidates, freeList
<1>5. (searched(n) = {}) <=> (fits = {})
  BY <1>4, Zenon DEF searched, candidates, freeList
<1>6. ASSUME NEW r \in fits \ {found(n)}
      PROVE  entryCmp(found(n), r)
  <2>1. PICK l \in searched(n) :
              /\ \A k \in searched(n) : l <= k
              /\ found(n) \in candidates(n, l)
              /\ \A q \in candidates(n, l) \ {found(n)} : entryCmp(found(n), q)
    BY <1>1, <1>5, FoundIsFirst, Zenon
  <2>2. CASE getLevel(r.num) = l
    BY <1>4, <2>1, <2>2, Zenon
  <2>3. CASE getLevel(r.num) # l
    <3>1. found(n) \in freeLists /\ getLevel(found(n).num) = l
      BY <2>1, Zenon DEF candidates, freeList
    <3>2. l <= getLevel(r.num)
      BY <1>4, <2>1, Zenon
    <3>3. ~ (r.num <= found(n).num)
      BY <1>2, <2>3, <3>1, <3>2, LevelsGrow, LevelType
    <3> QED  BY <1>2, <3>1, <3>3 DEF entryCmp
  <2> QED  BY <2>2, <2>3, Zenon
<1> QED  BY <1>5, <1>6, Zenon

-----------------------------------------------------------------------------
(* allocatePageRange.                                                      *)

\* The pages come from a free range, or from the end of the file.
LEMMA AllocateCases ==
    ASSUME TypeOK, NEW n \in Nat \ {0}, allocatePages(n)
    PROVE  \/ /\ allocated(n) = PageRange(numPages, n)
              /\ numPages' = numPages + n /\ numPages' <= MaxPages
              /\ freeLists' = freeLists
           \/ \E f \in freeLists :
                 /\ f.num >= n /\ allocated(n) = PageRange(f.start, n)
                 /\ freeLists' = (freeLists \ {f}) \cup splitPageRange(f, n)
                 /\ numPages' = numPages
                 /\ searched(n) # {}
<1>1. CASE searched(n) = {}
  BY <1>1, Zenon DEF allocatePages, allocated
<1>2. CASE searched(n) # {}
  <2>1. found(n) \in freeLists /\ found(n).num >= n
    BY <1>2, FoundFits, Zenon
  <2> QED  BY <1>2, <2>1, Zenon DEF allocatePages, allocated
<1> QED  BY <1>1, <1>2, Zenon

\* What a request gets, and what it leaves.
Gets(a) ==
    /\ a \in PageRanges /\ End(a) <= numPages'
    /\ numPages' \in 1 .. MaxPages /\ numPages <= numPages'
    /\ freeLists' \in SUBSET PageRanges
    /\ \A f \in freeLists' : Apart(f, a)
    /\ \A f, g \in freeLists' : f = g \/ Apart(f, g)
    /\ \A f \in freeLists' : \E g \in freeLists : g.start <= f.start /\ End(f) <= End(g)
    /\ \A p \in Int : p \in AllPages(freeLists) \/ p \in numPages .. numPages' - 1
                      => p \in AllPages(freeLists') \/ p \in PagesOf(a)
    /\ a.start = numPages \/ \E g \in freeLists : g.start <= a.start /\ End(a) <= End(g)

\* Allocation gives pages that are not in use, and keeps the lists in order.
LEMMA Allocation ==
    ASSUME TypeOK, NEW n \in Nat \ {0}, allocatePages(n),
           \A q, r \in freeLists : q = r \/ Apart(q, r),
           \A r \in freeLists : End(r) <= numPages
    PROVE  Gets(allocated(n)) /\ (freeLists' = freeLists \/ searched(n) # {})
<1> USE DEF PageRanges, PageRange, End, Apart
<1>0. numPages \in 1 .. MaxPages /\ MaxPages \in Nat /\ freeLists \in SUBSET PageRanges
  BY ConstantsAssumption, Zenon DEF TypeOK
<1>1. CASE /\ allocated(n) = PageRange(numPages, n)
           /\ numPages' = numPages + n /\ numPages' <= MaxPages
           /\ freeLists' = freeLists
  BY <1>0, <1>1 DEF Gets, PagesOf
<1>2. ASSUME NEW f \in freeLists, f.num >= n, allocated(n) = PageRange(f.start, n),
             freeLists' = (freeLists \ {f}) \cup splitPageRange(f, n),
             numPages' = numPages, searched(n) # {}
      PROVE  Gets(allocated(n))
  <2> DEFINE a == allocated(n)
             s == PageRange(f.start + n, f.num - n)
  <2>1. \A g \in freeLists' : (g \in freeLists /\ g # f) \/ (g = s /\ n < f.num)
    BY <1>2, Zenon DEF splitPageRange
  <2>2. n < f.num => s \in PageRanges /\ s \in freeLists'
    BY <1>0, <1>2 DEF splitPageRange
  <2>3. a \in PageRanges /\ End(a) <= numPages'
    BY <1>0, <1>2
  <2>4. freeLists' \in SUBSET PageRanges
    BY <1>0, <2>1, <2>2, Zenon
  <2>5. \A g \in freeLists' : Apart(g, a)
    BY <1>0, <1>2, <2>1
  <2>6. \A g, h \in freeLists' : g = h \/ Apart(g, h)
    BY <1>0, <1>2, <2>1
  <2>7. \A g \in freeLists' : \E h \in freeLists : h.start <= g.start /\ End(g) <= End(h)
    BY <1>0, <1>2, <2>1
  <2>8. ASSUME NEW p \in Int, p \in AllPages(freeLists) \/ p \in numPages .. numPages' - 1
        PROVE  p \in AllPages(freeLists') \/ p \in PagesOf(a)
    <3>1. PICK g \in freeLists : g.start <= p /\ p < End(g)
      BY <1>0, <1>2, <2>8, PagesIn
    <3>2. CASE g # f
      <4>1. g \in freeLists'
        BY <1>2, <3>2, Zenon
      <4> QED  BY <2>4, <3>1, <4>1, PagesIn, Zenon
    <3>3. CASE g = f /\ p < f.start + n
      BY <1>0, <1>2, <3>1, <3>3 DEF PagesOf
    <3>4. CASE g = f /\ ~ (p < f.start + n)
      <4>1. n < f.num /\ s.start <= p /\ p < End(s)
        BY <1>0, <1>2, <3>1, <3>4
      <4> QED  BY <2>2, <2>4, <4>1, PagesIn, Zenon
    <3> QED  BY <3>2, <3>3, <3>4, Zenon
  <2>9. \E g \in freeLists : g.start <= a.start /\ End(a) <= End(g)
    BY <1>0, <1>2
  <2> QED  BY <1>0, <1>2, <2>3, <2>4, <2>5, <2>6, <2>7, <2>8, <2>9 DEF Gets
<1> QED  BY <1>1, <1>2, AllocateCases, Zenon

\* A range that is apart from the free ones stays so, and is not given away.
LEMMA NotGivenAway ==
    ASSUME TypeOK, NEW a, Gets(a), NEW x \in PageRanges, End(x) <= numPages,
           \A f \in freeLists : Apart(f, x)
    PROVE  Apart(a, x) /\ \A f \in freeLists' : Apart(f, x)
BY DEF Gets, TypeOK, Apart, End, PageRanges

-----------------------------------------------------------------------------
(* Steps.                                                                  *)

\* A range that is there is a range.
LEMMA ValidRanges ==
    ASSUME NEW r \in PageRanges \cup {NoRange}
    PROVE  /\ Valid(r) \in SUBSET PageRanges
           /\ r # NoRange => Valid(r) = {r}
           /\ r = NoRange => Valid(r) = {}
           /\ NoRange \notin PageRanges
BY Zenon DEF Valid, NoRange, PageRange, PageRanges

\* The parts of an image are ranges.
LEMMA ImageRanges ==
    ASSUME NEW d \in Images
    PROVE  /\ d.chunks \in SUBSET PageRanges /\ d.free \in SUBSET PageRanges
           /\ d.catalog \in PageRanges \cup {NoRange} /\ d.metadata \in PageRanges \cup {NoRange}
           /\ InUse(d) \in SUBSET PageRanges
<1>1. /\ d.chunks \in SUBSET PageRanges /\ d.free \in SUBSET PageRanges
      /\ d.catalog \in PageRanges \cup {NoRange} /\ d.metadata \in PageRanges \cup {NoRange}
  BY Zenon DEF Images
<1> QED  BY <1>1, ValidRanges, Zenon DEF InUse

\* All that is tracked are ranges.
LEMMA TrackedTypes ==
    ASSUME TypeOK
    PROVE  /\ Used \in SUBSET PageRanges /\ Free \in SUBSET PageRanges
           /\ InUse(disk) \in SUBSET PageRanges /\ disk.free \in SUBSET PageRanges
           /\ disk.chunks \in SUBSET PageRanges
           /\ Valid(header.catalog) \in SUBSET PageRanges
           /\ Valid(header.metadata) \in SUBSET PageRanges
           /\ header.catalog \in PageRanges \cup {NoRange}
           /\ header.metadata \in PageRanges \cup {NoRange}
           /\ disk.catalog \in PageRanges \cup {NoRange}
           /\ disk.metadata \in PageRanges \cup {NoRange}
<1>1. /\ header.catalog \in PageRanges \cup {NoRange}
      /\ header.metadata \in PageRanges \cup {NoRange}
  BY Zenon DEF TypeOK
<1>2. /\ Valid(header.catalog) \in SUBSET PageRanges
      /\ Valid(header.metadata) \in SUBSET PageRanges
      /\ Valid(prev) \in SUBSET PageRanges
  BY <1>1, ValidRanges, Zenon DEF TypeOK
<1>3. /\ InUse(disk) \in SUBSET PageRanges /\ disk.free \in SUBSET PageRanges
      /\ disk.chunks \in SUBSET PageRanges
      /\ disk.catalog \in PageRanges \cup {NoRange}
      /\ disk.metadata \in PageRanges \cup {NoRange}
  BY ImageRanges, Zenon DEF TypeOK
<1> QED  BY <1>1, <1>2, <1>3, Zenon DEF Used, Free, TypeOK

\* Outside mergePageRanges the free ranges are those of the lists.
LEMMA FreeIsLists ==
    ASSUME rest = {}, prev = NoRange
    PROVE  Free = freeLists
BY Zenon DEF Free, Valid

\* A step that allocates one range.
LEMMA SpreadByAllocation ==
    ASSUME TypeOK, Spread, Bounds, rest = {}, prev = NoRange, NEW a, Gets(a),
           Used' \subseteq Used \cup {a}, UNCHANGED merge
    PROVE  /\ Spread'
           /\ \A r \in Free' \cup Used' : End(r) <= numPages'
           /\ \A r \in Used : Apart(a, r) /\ a # r
<1>1. Free = freeLists /\ Free' = freeLists'
  BY FreeIsLists, Zenon DEF Free, Valid, merge
<1>2. Used \in SUBSET PageRanges /\ freeLists \in SUBSET PageRanges
  BY TrackedTypes, Zenon DEF TypeOK
<1>3. numPages \in Int /\ numPages' \in Int /\ numPages <= numPages'
  BY DEF Gets, TypeOK
<1>4. \A r \in Used : Apart(a, r) /\ \A f \in freeLists' : Apart(f, r)
  BY <1>1, <1>2, NotGivenAway, Zenon DEF Spread, Bounds
<1>5. \A f \in freeLists' : Apart(f, a)
  BY Zenon DEF Gets
<1>6. \A q, r \in PageRanges : Apart(q, r) => Apart(r, q) /\ q # r
  BY DEF Apart, PageRanges, End
<1>7. a \in PageRanges /\ freeLists' \in SUBSET PageRanges
  BY Zenon DEF Gets
<1>8. /\ \A q, r \in Used' : q = r \/ Apart(q, r)
      /\ \A q \in Free', r \in Used' : Apart(q, r)
  <2>1. \A r \in Used : Apart(r, a)
    BY <1>2, <1>4, <1>6, <1>7, Zenon
  <2>2. ASSUME NEW q \in Used', NEW r \in Used' PROVE q = r \/ Apart(q, r)
    BY <1>4, <2>1, Zenon DEF Spread
  <2>3. ASSUME NEW q \in Free', NEW r \in Used' PROVE Apart(q, r)
    BY <1>1, <1>4, <1>5, Zenon
  <2> QED  BY <2>2, <2>3, Zenon
<1>9. /\ \A q, r \in Free' : q = r \/ Apart(q, r)
      /\ (freeLists \cap rest = {} /\ prev \notin freeLists \cup rest)'
  <2>1. NoRange \notin PageRanges
    BY ValidRanges, Zenon
  <2> QED  BY <1>1, <1>7, <2>1, Zenon DEF Gets, merge
<1>10. \A r \in Free' \cup Used' : End(r) <= numPages'
  <2>1. ASSUME NEW r \in freeLists' PROVE End(r) <= numPages'
    <3>1. PICK g \in freeLists : g.start <= r.start /\ End(r) <= End(g)
      BY Zenon DEF Gets
    <3>2. End(g) <= numPages
      BY <1>1, Zenon DEF Bounds
    <3> QED  BY <1>2, <1>3, <1>7, <3>1, <3>2 DEF PageRanges, End
  <2>2. ASSUME NEW r \in Used PROVE End(r) <= numPages'
    <3>1. End(r) <= numPages
      BY Zenon DEF Bounds
    <3> QED  BY <1>2, <1>3, <3>1 DEF PageRanges, End
  <2> QED  BY <1>1, <2>1, <2>2, Zenon DEF Gets
<1> QED  BY <1>2, <1>4, <1>6, <1>7, <1>8, <1>9, <1>10, Zenon DEF Spread

\* A step that changes neither the free ranges nor the file.
LEMMA SpreadKept ==
    ASSUME Spread, Bounds, Used' \subseteq Used, UNCHANGED <<numPages, freeLists, merge>>
    PROVE  /\ Spread' /\ Free' = Free
           /\ \A r \in Free' \cup Used' : End(r) <= numPages'
<1>1. Free' = Free
  BY Zenon DEF Free, merge
<1> QED  BY <1>1, Zenon DEF Spread, Bounds, merge

\* What is in the file stays in the file when it grows.
LEMMA FileGrows ==
    ASSUME NEW size \in Nat \ {0}, NEW r \in PageRanges \cup {NoRange}
    PROVE  /\ grown(size, r) \in Nat \ {0} /\ size <= grown(size, r) /\ End(r) <= grown(size, r)
           /\ \A m \in Nat : size <= m /\ End(r) <= m => grown(size, r) <= m
BY DEF grown, End, PageRanges, NoRange, PageRange

\* The free ranges that an allocation leaves end where they did.
LEMMA EndsKept ==
    ASSUME TypeOK, NEW a, Gets(a), \A r \in freeLists : End(r) <= fileSize
    PROVE  \A r \in freeLists' : End(r) <= fileSize
<1> SUFFICES ASSUME NEW r \in freeLists' PROVE End(r) <= fileSize
  BY Zenon
<1>1. PICK g \in freeLists : End(r) <= End(g)
  BY Zenon DEF Gets
<1>2. End(g) <= fileSize /\ r \in PageRanges /\ g \in PageRanges
  BY Zenon DEF Gets, TypeOK
<1> QED  BY <1>1, <1>2 DEF TypeOK, PageRanges, End

\* Ranges that end in a file end in a larger one.
LEMMA EndsInLarger ==
    ASSUME NEW m \in Int, NEW n \in Int, m <= n, NEW S \in SUBSET PageRanges,
           \A r \in S : End(r) <= m
    PROVE  \A r \in S : End(r) <= n
BY DEF PageRanges, End

\* A page is one of the old or one of the new ones.
LEMMA OldOrNew ==
    ASSUME NEW m \in Int, NEW k \in Int, m >= 1, NEW p \in 1 .. k - 1
    PROVE  p \in Int /\ (p \in 1 .. m - 1 \/ p \in m .. k - 1)
OBVIOUS

\* The pages of the file are still known when some have been allocated.
LEMMA CoverageByAllocation ==
    ASSUME TypeOK, NEW a, Gets(a), NEW S, NEW T, S \cup {a} \subseteq T,
           1 .. numPages - 1 \subseteq AllPages(freeLists \cup S)
    PROVE  1 .. numPages' - 1 \subseteq AllPages(freeLists' \cup T)
<1> SUFFICES ASSUME NEW p \in 1 .. numPages' - 1 PROVE p \in AllPages(freeLists' \cup T)
  BY Zenon
<1>1. numPages \in Int /\ numPages' \in Int /\ numPages >= 1
  BY DEF TypeOK, Gets
<1>2. p \in Int /\ (p \in 1 .. numPages - 1 \/ p \in numPages .. numPages' - 1)
  BY <1>1, OldOrNew, Zenon
<1>3. p \in Int /\ (p \in AllPages(freeLists) \cup AllPages(S) \/ p \in numPages .. numPages' - 1)
  BY <1>1, <1>2, PagesOfUnion, Zenon
<1>4. p \in AllPages(freeLists') \cup AllPages(S) \cup PagesOf(a)
  BY <1>3, Zenon DEF Gets
<1> QED  BY <1>4, Zenon DEF AllPages

\* A step that forgets no range and leaves the file alone.
LEMMA CoverageKept ==
    ASSUME Coverage, UNCHANGED <<numPages, intact>>, Known \subseteq Known'
    PROVE  Coverage'
<1>1. AllPages(Known) \subseteq AllPages(Known')
  BY MorePages, Zenon
<1> QED  BY <1>1, Zenon DEF Coverage, AllPages, PagesOf

\* An empty database.
LEMMA InitHolds == Init => IInv
<1> SUFFICES ASSUME Init PROVE IInv
  BY Zenon
<1>1. NoRange \notin PageRanges /\ Valid(NoRange) = {}
  BY ValidRanges, Zenon
<1>2. TypeOK
  <2>1. /\ EmptyImage \in Images
        /\ NoHeader \in [catalog : PageRanges \cup {NoRange}, metadata : PageRanges \cup {NoRange}]
    BY Zenon DEF EmptyImage, Images, NoHeader
  <2>2. 1 \in 1 .. MaxPages
    BY ConstantsAssumption
  <2> QED  BY <2>1, <2>2, Zenon DEF Init, TypeOK
<1>3. /\ EmptyImage.chunks = {} /\ EmptyImage.free = {}
      /\ EmptyImage.catalog = NoRange /\ EmptyImage.metadata = NoRange
      /\ NoHeader.catalog = NoRange /\ NoHeader.metadata = NoRange
  BY Zenon DEF EmptyImage, NoHeader
<1>4. Free = {} /\ Used = {} /\ InUse(disk) = {} /\ disk.free = {}
  BY <1>1, <1>3, Zenon DEF Init, Free, Used, InUse
<1>5. Spread /\ Bounds
  BY <1>1, <1>4, Zenon DEF Init, Spread, Bounds
<1>6. Owners /\ DiskInv
  BY <1>1, <1>3, <1>4, Zenon DEF Init, Owners, DiskInv
<1>7. PhaseInv /\ LogInv /\ MergeInv
  BY <1>3, Zenon DEF Init, PhaseInv, LogInv, MergeInv
<1>8. CleanInv
  <2>1. AllPages({}) = {}
    BY Zenon DEF AllPages
  <2> QED  BY <1>3, <1>4, <2>1, Zenon DEF Init, CleanInv
<1>9. Coverage
  BY DEF Init, Coverage
<1> QED  BY <1>2, <1>5, <1>6, <1>7, <1>8, <1>9, Zenon DEF IInv

\* A batch insert: new pages belong to the transaction.
LEMMA BatchInsertKeeps ==
    ASSUME IInv, NEW n \in Sizes, BatchInsert(n)
    PROVE  IInv'
<1> DEFINE a == allocated(n)
<1>1. TypeOK /\ Spread /\ Bounds /\ Owners /\ DiskInv /\ PhaseInv /\ CleanInv /\ Coverage
  BY Zenon DEF IInv
<1>2. /\ phase = "none" /\ phase' = phase /\ uncheckpointed = {} /\ uncheckpointed' = {}
      /\ rest = {} /\ prev = NoRange /\ rest' = {} /\ prev' = NoRange
      /\ UNCHANGED <<chunks, reclaimed, header, image, disk, hasChanges, catalogChanged,
                     hasStorageChanges, intact>>
      /\ optimistic' = optimistic \cup {a} /\ allocatePages(n)
      /\ versioned' = (versioned \/ searched(n) # {})
      /\ fileSize' = grown(fileSize, a)
  BY <1>1, Zenon DEF BatchInsert, allocatePageRange, PhaseInv, changes, merge
<1>3. Free = freeLists /\ Free' = freeLists'
  BY <1>2, FreeIsLists, Zenon DEF Free, Valid
<1>4. Gets(a) /\ (freeLists' = freeLists \/ searched(n) # {})
  <2>1. n \in Nat \ {0}
    BY ConstantsAssumption, Zenon
  <2> QED  BY <1>1, <1>2, <1>3, <2>1, Allocation, Zenon DEF Spread, Bounds
<1>5. a \in PageRanges /\ freeLists' \in SUBSET PageRanges /\ numPages' \in 1 .. MaxPages
  BY <1>4, Zenon DEF Gets
<1>6. Used' = Used \cup {a}
  BY <1>2, Zenon DEF Used, InUse
<1>7. /\ Spread' /\ \A r \in Used : a # r
      /\ \A r \in Free' \cup Used' : End(r) <= numPages'
  BY <1>1, <1>2, <1>4, <1>6, SpreadByAllocation, Zenon DEF merge
<1> HIDE DEF a
<1>8. /\ fileSize' \in 1 .. MaxPages /\ fileSize <= fileSize' /\ End(a) <= fileSize'
  <2>1. fileSize \in Nat \ {0} /\ fileSize <= MaxPages /\ MaxPages \in Nat
    BY <1>1, ConstantsAssumption DEF TypeOK
  <2>2. End(a) <= MaxPages
    BY <1>4, <2>1 DEF Gets, PageRanges, End
  <2> QED  BY <1>2, <1>5, <2>1, <2>2, FileGrows
<1>9. TypeOK'
  BY <1>1, <1>2, <1>5, <1>8, Zenon DEF TypeOK
<1>10. Bounds'
  <2>1. fileSize \in Int /\ fileSize' \in Int
    BY <1>1, <1>8 DEF TypeOK
  <2>2. \A r \in freeLists' \cup chunks \cup optimistic : End(r) <= fileSize'
    <3>1. \A r \in freeLists' \cup chunks \cup optimistic : End(r) <= fileSize
      BY <1>1, <1>3, <1>4, EndsKept, Zenon DEF Bounds
    <3>2. freeLists' \cup chunks \cup optimistic \in SUBSET PageRanges
      BY <1>1, <1>5, Zenon DEF TypeOK
    <3> QED  BY <1>8, <2>1, <3>1, <3>2, EndsInLarger, Zenon
  <2>3. \A r \in InUse(disk) \cup disk.free : End(r) <= fileSize'
    <3>1. \A r \in InUse(disk) \cup disk.free : End(r) <= fileSize
      BY <1>1, Zenon DEF Bounds
    <3>2. InUse(disk) \cup disk.free \in SUBSET PageRanges
      BY <1>1, TrackedTypes, Zenon
    <3> QED  BY <1>8, <2>1, <3>1, <3>2, EndsInLarger, Zenon
  <2> QED  BY <1>2, <1>3, <1>7, <1>8, <2>2, <2>3, Zenon DEF Bounds
<1>11. Owners'
  <2>1. \A r \in chunks \cup InUse(disk) : a # r
    BY <1>7, Zenon DEF Used
  <2>2. a # disk.catalog /\ a # disk.metadata
    BY <1>5, <2>1, ValidRanges, Zenon DEF InUse, Valid
  <2> QED  BY <1>1, <1>2, <2>1, <2>2, Zenon DEF Owners, InUse
<1>12. DiskInv'
  BY <1>1, <1>2, Zenon DEF DiskInv
<1>13. PhaseInv' /\ LogInv' /\ MergeInv'
  BY <1>1, <1>2, Zenon DEF PhaseInv, LogInv, MergeInv
<1>14. CleanInv'
  BY <1>1, <1>2, <1>3, <1>4, Zenon DEF CleanInv
<1>15. Coverage'
  <2>1. MetaRanges' = MetaRanges
    BY <1>2, Zenon DEF MetaRanges
  <2> DEFINE S == uncheckpointed \cup chunks \cup optimistic \cup MetaRanges
  <2>2. intact => 1 .. numPages - 1 \subseteq AllPages(freeLists \cup S)
    BY <1>1, <1>3, PagesOfUnion, Zenon DEF Coverage, Known
  <2>3. S \cup {a} \subseteq S'
    BY <1>2, <2>1, Zenon
  <2>4. intact => 1 .. numPages' - 1 \subseteq AllPages(freeLists' \cup S')
    BY <1>1, <1>4, <2>2, <2>3, CoverageByAllocation, Zenon
  <2> QED  BY <1>2, <1>3, <2>4, PagesOfUnion, Zenon DEF Coverage, Known
<1> QED  BY <1>7, <1>9, <1>10, <1>11, <1>12, <1>13, <1>14, <1>15, Zenon DEF IInv

\* A commit: the pages of the transaction become chunks of the tables.
LEMMA CommitKeeps ==
    ASSUME IInv, Commit
    PROVE  IInv'
<1>1. TypeOK /\ Spread /\ Bounds /\ Owners /\ DiskInv /\ PhaseInv /\ CleanInv /\ Coverage
  BY Zenon DEF IInv
<1>2. /\ phase = "none" /\ phase' = phase /\ uncheckpointed = {} /\ uncheckpointed' = {}
      /\ header = NoHeader
      /\ UNCHANGED <<numPages, freeLists, merge, rest, prev, reclaimed, header, image, disk,
                     fileSize, hasStorageChanges, versioned, intact>>
      /\ chunks' = chunks \cup optimistic /\ optimistic' = {}
      /\ hasChanges' \in {hasChanges \/ optimistic # {}, TRUE}
      /\ catalogChanged' \in {catalogChanged, TRUE}
  BY <1>1, Zenon DEF Commit, PhaseInv, merge
<1>3. TypeOK'
  BY <1>1, <1>2, Zenon DEF TypeOK
<1>4. Used' \subseteq Used
  BY <1>2, Zenon DEF Used, InUse
<1>5. /\ Spread' /\ Free' = Free
      /\ \A r \in Free' \cup Used' : End(r) <= numPages'
  BY <1>1, <1>2, <1>4, SpreadKept, Zenon
<1>6. Bounds'
  BY <1>1, <1>2, <1>5, Zenon DEF Bounds
<1>7. Owners'
  <2>1. NoHeader.catalog = NoRange /\ NoHeader.metadata = NoRange
    BY Zenon DEF NoHeader
  <2>2. NoRange \notin PageRanges
    BY ValidRanges, Zenon
  <2> QED  BY <1>1, <1>2, <2>1, <2>2, Zenon DEF Owners, TypeOK
<1>8. DiskInv'
  BY <1>1, <1>2, Zenon DEF DiskInv
<1>9. PhaseInv' /\ LogInv' /\ MergeInv'
  BY <1>1, <1>2, Zenon DEF PhaseInv, LogInv, MergeInv
<1>10. CleanInv'
  <2>1. hasChanges' = FALSE => optimistic = {} /\ hasChanges = FALSE
    BY <1>1, <1>2, Zenon DEF TypeOK
  <2>2. catalogChanged' = FALSE => catalogChanged = FALSE
    BY <1>1, <1>2, Zenon DEF TypeOK
  <2> QED  BY <1>1, <1>2, <1>5, <2>1, <2>2 DEF CleanInv, TypeOK
<1>11. Coverage'
  <2>1. MetaRanges' = MetaRanges
    BY <1>2, Zenon DEF MetaRanges
  <2>2. Known \subseteq Known'
    BY <1>2, <1>5, <2>1, Zenon DEF Known
  <2> QED  BY <1>1, <1>2, <2>2, CoverageKept, Zenon
<1> QED  BY <1>3, <1>5, <1>6, <1>7, <1>8, <1>9, <1>10, <1>11, Zenon DEF IInv

\* A rollback: nothing else has the pages of the transaction, they are free.
LEMMA RollbackKeeps ==
    ASSUME IInv, Rollback
    PROVE  IInv'
<1>1. TypeOK /\ Spread /\ Bounds /\ Owners /\ DiskInv /\ PhaseInv /\ CleanInv /\ Coverage
  BY Zenon DEF IInv
<1>2. /\ phase = "none" /\ phase' = phase /\ uncheckpointed = {} /\ uncheckpointed' = {}
      /\ header = NoHeader /\ rest = {} /\ prev = NoRange /\ rest' = {} /\ prev' = NoRange
      /\ UNCHANGED <<numPages, chunks, reclaimed, header, image, disk, fileSize, hasChanges,
                     catalogChanged, hasStorageChanges, intact>>
      /\ freeLists' = freeLists \cup optimistic /\ optimistic' = {} /\ versioned' = TRUE
  BY <1>1, Zenon DEF Rollback, PhaseInv, merge, changes
<1>3. TypeOK'
  BY <1>1, <1>2, Zenon DEF TypeOK
<1>4. Free = freeLists /\ Free' = freeLists \cup optimistic
  BY <1>2, FreeIsLists, Zenon DEF Free, Valid
<1>5. Used' \subseteq Used \ optimistic /\ optimistic \subseteq Used
  <2>1. Valid(NoHeader.catalog) = {} /\ Valid(NoHeader.metadata) = {}
    BY Zenon DEF NoHeader, Valid
  <2> QED  BY <1>1, <1>2, <2>1, Zenon DEF Used, InUse, Owners, Valid
<1>6. Spread'
  <2>1. \A q, r \in PageRanges : Apart(q, r) => Apart(r, q)
    BY Zenon DEF Apart
  <2>2. Used \in SUBSET PageRanges /\ freeLists \in SUBSET PageRanges /\ NoRange \notin PageRanges
    BY <1>1, TrackedTypes, ValidRanges, Zenon DEF TypeOK
  <2>3. ASSUME NEW q \in Free', NEW r \in Free' PROVE q = r \/ Apart(q, r)
    BY <1>1, <1>4, <1>5, <2>1, <2>2, Zenon DEF Spread
  <2>4. ASSUME NEW q \in Free', NEW r \in Used' PROVE Apart(q, r)
    BY <1>1, <1>4, <1>5, Zenon DEF Spread
  <2>5. freeLists' \in SUBSET PageRanges
    BY <1>3, Zenon DEF TypeOK
  <2> QED  BY <1>1, <1>2, <1>5, <2>2, <2>3, <2>4, <2>5, Zenon DEF Spread
<1>7. Bounds'
  BY <1>1, <1>2, <1>4, <1>5, Zenon DEF Bounds
<1>8. Owners'
  BY <1>1, <1>2, Zenon DEF Owners
<1>9. DiskInv'
  BY <1>1, <1>2, Zenon DEF DiskInv
<1>10. PhaseInv' /\ LogInv' /\ MergeInv'
  BY <1>1, <1>2, Zenon DEF PhaseInv, LogInv, MergeInv
<1>11. CleanInv'
  BY <1>2, Zenon DEF CleanInv
<1>12. Coverage'
  <2>1. MetaRanges' = MetaRanges
    BY <1>2, Zenon DEF MetaRanges
  <2>2. Known \subseteq Known'
    BY <1>2, <1>4, <2>1, Zenon DEF Known
  <2> QED  BY <1>1, <1>2, <2>2, CoverageKept, Zenon
<1> QED  BY <1>3, <1>6, <1>7, <1>8, <1>9, <1>10, <1>11, <1>12, Zenon DEF IInv

\* A checkpoint begins with the header of the last one.
LEMMA BeginCheckpointKeeps ==
    ASSUME IInv, BeginCheckpoint
    PROVE  IInv'
<1>1. TypeOK /\ Spread /\ Bounds /\ Owners /\ DiskInv /\ PhaseInv /\ CleanInv /\ Coverage
  BY Zenon DEF IInv
<1>2. /\ phase = "none" /\ phase' = "storage" /\ uncheckpointed = {} /\ optimistic = {}
      /\ UNCHANGED <<numPages, freeLists, uncheckpointed, chunks, optimistic, merge, rest, prev,
                     reclaimed, image, disk, fileSize, hasChanges, catalogChanged,
                     hasStorageChanges, versioned, intact>>
      /\ header' = [catalog |-> disk.catalog, metadata |-> disk.metadata]
  BY <1>1, Zenon DEF BeginCheckpoint, PhaseInv, merge, changes
<1>3. header'.catalog = disk.catalog /\ header'.metadata = disk.metadata
  BY <1>2, Zenon
<1>4. TypeOK'
  <2>1. disk.catalog \in PageRanges \cup {NoRange} /\ disk.metadata \in PageRanges \cup {NoRange}
    BY <1>1, TrackedTypes, Zenon
  <2>2. header' \in [catalog : PageRanges \cup {NoRange}, metadata : PageRanges \cup {NoRange}]
    BY <1>2, <2>1, Zenon
  <2> QED  BY <1>1, <1>2, <2>2, Zenon DEF TypeOK
<1>5. Used' \subseteq Used
  BY <1>2, <1>3, Zenon DEF Used, InUse
<1>6. /\ Spread' /\ Free' = Free
      /\ \A r \in Free' \cup Used' : End(r) <= numPages'
  BY <1>1, <1>2, <1>5, SpreadKept, Zenon
<1>7. Bounds'
  BY <1>1, <1>2, <1>6, Zenon DEF Bounds
<1>8. Owners'
  BY <1>1, <1>2, <1>3, Zenon DEF Owners, DiskInv
<1>9. DiskInv'
  BY <1>1, <1>2, Zenon DEF DiskInv
<1>10. PhaseInv' /\ LogInv' /\ MergeInv'
  BY <1>1, <1>2, <1>3, Zenon DEF PhaseInv, LogInv, MergeInv
<1>11. CleanInv'
  BY <1>1, <1>2, <1>6, Zenon DEF CleanInv
<1>12. Coverage'
  <2>1. MetaRanges' = MetaRanges
    BY <1>2, <1>3, Zenon DEF MetaRanges
  <2> QED  BY <1>1, <1>2, <1>6, <2>1, Zenon DEF Coverage, Known
<1> QED  BY <1>4, <1>6, <1>7, <1>8, <1>9, <1>10, <1>11, <1>12, Zenon DEF IInv

\* The checkpoint frees the old pages of a chunk.
LEMMA ReclaimChunkKeeps ==
    ASSUME IInv, NEW c \in chunks, ReclaimChunk(c)
    PROVE  IInv'
<1>1. TypeOK /\ Spread /\ Bounds /\ Owners /\ DiskInv /\ PhaseInv /\ CleanInv /\ Coverage
  BY Zenon DEF IInv
<1>2. /\ phase = "storage" /\ phase' = phase /\ optimistic = {} /\ c \notin reclaimed
      /\ UNCHANGED <<numPages, freeLists, optimistic, merge, rest, prev, header, image, disk,
                     fileSize, hasChanges, catalogChanged, hasStorageChanges, intact>>
      /\ uncheckpointed' = uncheckpointed \cup {c} /\ versioned' = TRUE
      /\ \/ chunks' = chunks \ {c} /\ reclaimed' = reclaimed
         \/ chunks' = chunks /\ reclaimed' = reclaimed \cup {c}
  BY <1>1, Zenon DEF ReclaimChunk, freePageRange, PhaseInv, merge, changes
<1>3. TypeOK'
  BY <1>1, <1>2, Zenon DEF TypeOK
<1>4. Used' \subseteq Used
  <2>1. InUse(disk)' = InUse(disk)
    BY <1>2, Zenon
  <2>2. chunks' \subseteq chunks /\ uncheckpointed' \subseteq uncheckpointed \cup chunks
    BY <1>2, Zenon
  <2> QED  BY <1>2, <2>1, <2>2, Zenon DEF Used
<1>5. /\ Spread' /\ Free' = Free
      /\ \A r \in Free' \cup Used' : End(r) <= numPages'
  BY <1>1, <1>2, <1>4, SpreadKept, Zenon
<1>6. Bounds'
  BY <1>1, <1>2, <1>5, Zenon DEF Bounds
<1>7. Owners'
  BY <1>1, <1>2, Zenon DEF Owners
<1>8. DiskInv'
  BY <1>1, <1>2, Zenon DEF DiskInv
<1>9. PhaseInv' /\ LogInv' /\ MergeInv'
  BY <1>1, <1>2, Zenon DEF PhaseInv, LogInv, MergeInv
<1>10. CleanInv'
  BY <1>2, Zenon DEF CleanInv
<1>11. Coverage'
  <2>1. MetaRanges' = MetaRanges
    BY <1>2, Zenon DEF MetaRanges
  <2>2. Known \subseteq Known'
    BY <1>2, <1>5, <2>1, Zenon DEF Known
  <2> QED  BY <1>1, <1>2, <2>2, CoverageKept, Zenon
<1> QED  BY <1>3, <1>5, <1>6, <1>7, <1>8, <1>9, <1>10, <1>11, Zenon DEF IInv

\* All tables are checkpointed, the dropped ones are gone.
LEMMA StorageCheckpointedKeeps ==
    ASSUME IInv, StorageCheckpointed
    PROVE  IInv'
<1>1. TypeOK /\ Spread /\ Bounds /\ Owners /\ DiskInv /\ PhaseInv /\ CleanInv /\ Coverage
  BY Zenon DEF IInv
<1>2. /\ phase = "storage" /\ phase' = "catalog" /\ optimistic = {}
      /\ UNCHANGED <<numPages, freeLists, uncheckpointed, optimistic, merge, rest, prev, header,
                     image, disk, fileSize, catalogChanged, versioned, intact>>
      /\ hasStorageChanges' = hasChanges /\ hasChanges' = FALSE
      /\ chunks' = chunks \ reclaimed /\ reclaimed' = {}
      /\ reclaimed \subseteq uncheckpointed /\ ~hasStorageChanges
  BY <1>1, Zenon DEF StorageCheckpointed, PhaseInv, merge
<1>3. TypeOK'
  BY <1>1, <1>2, Zenon DEF TypeOK
<1>4. Used' \subseteq Used
  BY <1>2, Zenon DEF Used, InUse
<1>5. /\ Spread' /\ Free' = Free
      /\ \A r \in Free' \cup Used' : End(r) <= numPages'
  BY <1>1, <1>2, <1>4, SpreadKept, Zenon
<1>6. Bounds'
  BY <1>1, <1>2, <1>5, Zenon DEF Bounds
<1>7. Owners'
  BY <1>1, <1>2, Zenon DEF Owners
<1>8. DiskInv'
  BY <1>1, <1>2, Zenon DEF DiskInv
<1>9. PhaseInv' /\ LogInv' /\ MergeInv'
  BY <1>1, <1>2, Zenon DEF PhaseInv, LogInv, MergeInv
<1>10. CleanInv'
  <2>1. ~versioned => reclaimed = {}
    BY <1>1, <1>2, Zenon DEF PhaseInv
  <2> QED  BY <1>1, <1>2, <1>5, <2>1, Zenon DEF CleanInv
<1>11. Coverage'
  <2>1. MetaRanges' = MetaRanges
    BY <1>2, Zenon DEF MetaRanges
  <2>2. Known \subseteq Known'
    BY <1>2, <1>5, <2>1, Zenon DEF Known
  <2> QED  BY <1>1, <1>2, <2>2, CoverageKept, Zenon
<1> QED  BY <1>3, <1>5, <1>6, <1>7, <1>8, <1>9, <1>10, <1>11, Zenon DEF IInv

\* A chunk is flushed to new pages.
LEMMA FlushChunkKeeps ==
    ASSUME IInv, NEW n \in Sizes, FlushChunk(n)
    PROVE  IInv'
<1> DEFINE a == allocated(n)
<1>1. TypeOK /\ Spread /\ Bounds /\ Owners /\ DiskInv /\ PhaseInv /\ CleanInv /\ Coverage
  BY Zenon DEF IInv
<1>2. /\ phase = "storage" /\ phase' = phase /\ optimistic = {} /\ optimistic' = {} /\ hasChanges
      /\ rest = {} /\ prev = NoRange /\ rest' = {} /\ prev' = NoRange
      /\ UNCHANGED <<uncheckpointed, reclaimed, header, image, disk, hasChanges, catalogChanged,
                     hasStorageChanges, intact>>
      /\ chunks' = chunks \cup {a} /\ allocatePages(n)
      /\ versioned' = (versioned \/ searched(n) # {})
      /\ fileSize' = grown(fileSize, a)
  BY <1>1, Zenon DEF FlushChunk, allocatePageRange, PhaseInv, changes, merge
<1>3. Free = freeLists /\ Free' = freeLists'
  BY <1>2, FreeIsLists, Zenon DEF Free, Valid
<1>4. Gets(a) /\ (freeLists' = freeLists \/ searched(n) # {})
  <2>1. n \in Nat \ {0}
    BY ConstantsAssumption, Zenon
  <2> QED  BY <1>1, <1>2, <1>3, <2>1, Allocation, Zenon DEF Spread, Bounds
<1>5. a \in PageRanges /\ freeLists' \in SUBSET PageRanges /\ numPages' \in 1 .. MaxPages
  BY <1>4, Zenon DEF Gets
<1>6. Used' = Used \cup {a}
  BY <1>2, Zenon DEF Used, InUse
<1>7. /\ Spread' /\ \A r \in Used : a # r
      /\ \A r \in Free' \cup Used' : End(r) <= numPages'
  BY <1>1, <1>2, <1>4, <1>6, SpreadByAllocation, Zenon DEF merge
<1> HIDE DEF a
<1>8. /\ fileSize' \in 1 .. MaxPages /\ fileSize <= fileSize' /\ End(a) <= fileSize'
  <2>1. fileSize \in Nat \ {0} /\ fileSize <= MaxPages /\ MaxPages \in Nat
    BY <1>1, ConstantsAssumption DEF TypeOK
  <2>2. End(a) <= MaxPages
    BY <1>4, <2>1 DEF Gets, PageRanges, End
  <2> QED  BY <1>2, <1>5, <2>1, <2>2, FileGrows
<1>9. TypeOK'
  BY <1>1, <1>2, <1>5, <1>8, Zenon DEF TypeOK
<1>10. Bounds'
  <2>1. fileSize \in Int /\ fileSize' \in Int
    BY <1>1, <1>8 DEF TypeOK
  <2>2. \A r \in freeLists' \cup uncheckpointed \cup chunks : End(r) <= fileSize'
    <3>1. \A r \in freeLists' \cup uncheckpointed \cup chunks : End(r) <= fileSize
      BY <1>1, <1>3, <1>4, EndsKept, Zenon DEF Bounds
    <3>2. freeLists' \cup uncheckpointed \cup chunks \in SUBSET PageRanges
      BY <1>1, <1>5, Zenon DEF TypeOK
    <3> QED  BY <1>8, <2>1, <3>1, <3>2, EndsInLarger, Zenon
  <2>3. \A r \in InUse(disk) \cup disk.free : End(r) <= fileSize'
    <3>1. \A r \in InUse(disk) \cup disk.free : End(r) <= fileSize
      BY <1>1, Zenon DEF Bounds
    <3>2. InUse(disk) \cup disk.free \in SUBSET PageRanges
      BY <1>1, TrackedTypes, Zenon
    <3> QED  BY <1>8, <2>1, <3>1, <3>2, EndsInLarger, Zenon
  <2> QED  BY <1>2, <1>3, <1>7, <1>8, <2>2, <2>3, Zenon DEF Bounds
<1>11. Owners'
  <2>1. a \notin uncheckpointed /\ a # header.catalog /\ a # header.metadata
        /\ a # disk.catalog /\ a # disk.metadata
    BY <1>5, <1>7, ValidRanges, Zenon DEF Used, InUse, Valid
  <2> QED  BY <1>1, <1>2, <2>1, Zenon DEF Owners
<1>12. DiskInv'
  BY <1>1, <1>2, Zenon DEF DiskInv
<1>13. PhaseInv' /\ LogInv' /\ MergeInv'
  BY <1>1, <1>2, Zenon DEF PhaseInv, LogInv, MergeInv
<1>14. CleanInv'
  BY <1>1, <1>2, <1>3, <1>4, Zenon DEF CleanInv
<1>15. Coverage'
  <2>1. MetaRanges' = MetaRanges
    BY <1>2, Zenon DEF MetaRanges
  <2> DEFINE S == uncheckpointed \cup chunks \cup optimistic \cup MetaRanges
  <2>2. intact => 1 .. numPages - 1 \subseteq AllPages(freeLists \cup S)
    BY <1>1, <1>3, PagesOfUnion, Zenon DEF Coverage, Known
  <2>3. S \cup {a} \subseteq S'
    BY <1>2, <2>1, Zenon
  <2>4. intact => 1 .. numPages' - 1 \subseteq AllPages(freeLists' \cup S')
    BY <1>1, <1>4, <2>2, <2>3, CoverageByAllocation, Zenon
  <2> QED  BY <1>2, <1>3, <2>4, PagesOfUnion, Zenon DEF Coverage, Known
<1> QED  BY <1>7, <1>9, <1>10, <1>11, <1>12, <1>13, <1>14, <1>15, Zenon DEF IInv

\* The catalog is written to new pages, or stays where it is.
LEMMA SerializeCatalogKeeps ==
    ASSUME IInv, NEW n \in Sizes, SerializeCatalog(n)
    PROVE  IInv'
<1> DEFINE a == allocated(n)
<1>1. TypeOK /\ Spread /\ Bounds /\ Owners /\ DiskInv /\ PhaseInv /\ CleanInv /\ Coverage
  BY Zenon DEF IInv
<1>2. /\ phase = "catalog" /\ phase' = "metadata" /\ optimistic = {} /\ optimistic' = {}
      /\ rest = {} /\ prev = NoRange /\ rest' = {} /\ prev' = NoRange /\ UNCHANGED merge
      /\ UNCHANGED <<chunks, reclaimed, image, disk, fileSize, hasChanges, catalogChanged,
                     hasStorageChanges, intact>>
      /\ header.catalog = disk.catalog /\ header.metadata = disk.metadata
  BY <1>1, Zenon DEF SerializeCatalog, PhaseInv, changes, merge
<1>3. DiskInv'
  BY <1>1, <1>2, Zenon DEF DiskInv
<1>4. CASE ~catalogToWrite /\ UNCHANGED <<numPages, freeLists, uncheckpointed, header, versioned>>
  <2>1. TypeOK'
    BY <1>1, <1>2, <1>4, Zenon DEF TypeOK
  <2>2. Used' \subseteq Used
    BY <1>2, <1>4, Zenon DEF Used, InUse
  <2>3. /\ Spread' /\ Free' = Free
        /\ \A r \in Free' \cup Used' : End(r) <= numPages'
    BY <1>1, <1>2, <1>4, <2>2, SpreadKept, Zenon
  <2>4. Bounds'
    BY <1>1, <1>2, <1>4, <2>3, Zenon DEF Bounds
  <2>5. Owners'
    BY <1>1, <1>2, <1>4, Zenon DEF Owners
  <2>6. PhaseInv' /\ LogInv' /\ MergeInv'
    BY <1>1, <1>2, <1>4, Zenon DEF PhaseInv, LogInv, MergeInv, catalogToWrite
  <2>7. CleanInv'
    BY <1>1, <1>2, <1>4, <2>3, Zenon DEF CleanInv
  <2>8. Coverage'
    <3>1. MetaRanges' = MetaRanges
      BY <1>2, <1>4, Zenon DEF MetaRanges
    <3> QED  BY <1>1, <1>2, <1>4, <2>3, <3>1, Zenon DEF Coverage, Known
  <2> QED  BY <1>3, <2>1, <2>3, <2>4, <2>5, <2>6, <2>7, <2>8, Zenon DEF IInv
<1>5. CASE /\ catalogToWrite /\ allocatePages(n)
           /\ header' = [header EXCEPT !.catalog = a]
           /\ uncheckpointed' = uncheckpointed \cup Valid(header.catalog)
           /\ versioned' = (versioned \/ searched(n) # {} \/ header.catalog # NoRange)
  <2>1. Free = freeLists /\ Free' = freeLists'
    BY <1>2, FreeIsLists, Zenon DEF Free, Valid
  <2>2. Gets(a) /\ (freeLists' = freeLists \/ searched(n) # {})
    <3>1. n \in Nat \ {0}
      BY ConstantsAssumption, Zenon
    <3> QED  BY <1>1, <1>5, <2>1, <3>1, Allocation, Zenon DEF Spread, Bounds
  <2>3. a \in PageRanges /\ freeLists' \in SUBSET PageRanges /\ numPages' \in 1 .. MaxPages
    BY <2>2, Zenon DEF Gets
  <2> HIDE DEF a
  <2>4. /\ header'.catalog = a /\ header'.metadata = header.metadata /\ a # NoRange
        /\ header' \in [catalog : PageRanges \cup {NoRange}, metadata : PageRanges \cup {NoRange}]
        /\ Valid(header'.catalog) = {a}
        /\ Valid(header.catalog) \in SUBSET PageRanges
    <3>1. header'.catalog = a /\ header'.metadata = header.metadata
          /\ header' \in [catalog : PageRanges \cup {NoRange}, metadata : PageRanges \cup {NoRange}]
      BY <1>1, <1>5, <2>3, Zenon DEF TypeOK
    <3> QED  BY <1>1, <2>3, <3>1, ValidRanges, TrackedTypes, Zenon
  <2>5. Used' \subseteq Used \cup {a}
    BY <1>2, <1>5, <2>4, Zenon DEF Used, InUse
  <2>6. /\ Spread' /\ \A r \in Used : a # r
        /\ \A r \in Free' \cup Used' : End(r) <= numPages'
    BY <1>1, <1>2, <2>2, <2>5, SpreadByAllocation, Zenon
  <2>7. TypeOK'
    BY <1>1, <1>2, <1>5, <2>3, <2>4, Zenon DEF TypeOK
  <2>8. Bounds'
    <3>1. \A r \in freeLists' : End(r) <= fileSize
      BY <1>1, <2>1, <2>2, EndsKept, Zenon DEF Bounds
    <3>2. \A r \in Valid(header.catalog) : End(r) <= fileSize
      BY <1>1, <1>2, Zenon DEF Bounds, InUse
    <3> QED  BY <1>1, <1>2, <1>5, <2>1, <2>6, <3>1, <3>2, Zenon DEF Bounds
  <2>9. Owners'
    <3>1. a \notin uncheckpointed \cup chunks \cup Valid(header.catalog) /\ a # header.metadata
      BY <2>3, <2>6, ValidRanges, Zenon DEF Used, Valid
    <3>2. chunks \cap uncheckpointed' \subseteq reclaimed
          /\ header.metadata \notin uncheckpointed' \cup chunks
      BY <1>1, <1>5, Zenon DEF Owners, Valid
    <3> QED  BY <1>1, <1>2, <1>5, <2>4, <3>1, <3>2, Zenon DEF Owners
  <2>10. PhaseInv'
    <3>1. uncheckpointed' # {} => versioned'
      BY <1>1, <1>5, Zenon DEF PhaseInv, Valid
    <3>2. disk.metadata # NoRange => disk.catalog # NoRange
      BY <1>1, Zenon DEF DiskInv
    <3>3. reclaimed = {}
      BY <1>1, <1>2, Zenon DEF PhaseInv
    <3> QED  BY <1>1, <1>2, <1>5, <2>4, <3>1, <3>2, <3>3, Zenon DEF PhaseInv, catalogToWrite
  <2>11. LogInv' /\ MergeInv'
    BY <1>2, Zenon DEF LogInv, MergeInv
  <2>12. CleanInv'
    <3>1. ~versioned' => ~versioned /\ freeLists' = freeLists /\ Valid(header.catalog) = {}
      BY <1>5, <2>2, Zenon DEF Valid
    <3>2. ~versioned' => (Free \cup uncheckpointed)' = Free \cup uncheckpointed
      BY <1>5, <2>1, <3>1, Zenon
    <3> QED  BY <1>1, <1>2, <3>1, <3>2, Zenon DEF CleanInv
  <2>13. Coverage'
    <3> DEFINE S == uncheckpointed \cup chunks \cup optimistic \cup MetaRanges
    <3>1. /\ MetaRanges = Valid(header.catalog) \cup Valid(header.metadata)
          /\ MetaRanges' = {a} \cup Valid(header.metadata)
      BY <1>2, <2>4, Zenon DEF MetaRanges
    <3>2. intact => 1 .. numPages - 1 \subseteq AllPages(freeLists \cup S)
      BY <1>1, <2>1, PagesOfUnion, Zenon DEF Coverage, Known
    <3>3. S \cup {a} \subseteq S'
      BY <1>2, <1>5, <3>1, Zenon
    <3>4. intact => 1 .. numPages' - 1 \subseteq AllPages(freeLists' \cup S')
      BY <1>1, <2>2, <3>2, <3>3, CoverageByAllocation, Zenon
    <3> QED  BY <1>2, <2>1, <3>4, PagesOfUnion, Zenon DEF Coverage, Known
  <2> QED  BY <1>3, <2>6, <2>7, <2>8, <2>9, <2>10, <2>11, <2>12, <2>13, Zenon DEF IInv
<1> QED  BY <1>4, <1>5, Zenon DEF SerializeCatalog

\* The metadata are written to new pages, after the old ones have been freed; or
\* nothing has changed.
LEMMA SerializeMetadataKeeps ==
    ASSUME IInv, NEW n \in Sizes, SerializeMetadata(n)
    PROVE  IInv'
<1> DEFINE a == allocated(n)
<1>1. TypeOK /\ Spread /\ Bounds /\ Owners /\ DiskInv /\ PhaseInv /\ CleanInv /\ Coverage
  BY Zenon DEF IInv
<1>2. /\ phase = "metadata" /\ phase' = "log" /\ optimistic = {} /\ optimistic' = {}
      /\ rest = {} /\ prev = NoRange /\ rest' = {} /\ prev' = NoRange /\ UNCHANGED merge
      /\ UNCHANGED <<chunks, reclaimed, disk, fileSize, hasChanges, catalogChanged,
                     hasStorageChanges, intact>>
      /\ header.metadata = disk.metadata /\ header.catalog # NoRange /\ reclaimed = {}
      /\ ~hasChanges
  BY <1>1, Zenon DEF SerializeMetadata, PhaseInv, changes, merge
<1>3. DiskInv'
  BY <1>1, <1>2, Zenon DEF DiskInv
<1>4. CASE /\ ~metadataToWrite /\ image' = disk
           /\ UNCHANGED <<numPages, freeLists, uncheckpointed, header, versioned>>
  <2>1. TypeOK'
    BY <1>1, <1>2, <1>4, Zenon DEF TypeOK
  <2>2. Used' \subseteq Used
    BY <1>2, <1>4, Zenon DEF Used, InUse
  <2>3. /\ Spread' /\ Free' = Free
        /\ \A r \in Free' \cup Used' : End(r) <= numPages'
    BY <1>1, <1>2, <1>4, <2>2, SpreadKept, Zenon
  <2>4. Bounds'
    BY <1>1, <1>2, <1>4, <2>3, Zenon DEF Bounds
  <2>5. Owners'
    BY <1>1, <1>2, <1>4, Zenon DEF Owners
  <2>6. PhaseInv' /\ MergeInv'
    BY <1>1, <1>2, <1>4, Zenon DEF PhaseInv, MergeInv
  <2>7. LogInv'
    <3>1. header.catalog = disk.catalog /\ header.metadata # NoRange
      BY <1>1, <1>2, <1>4, Zenon DEF PhaseInv, metadataToWrite
    <3> QED  BY <1>2, <1>4, <3>1, Zenon DEF LogInv, metadataToWrite
  <2>8. CleanInv'
    BY <1>1, <1>2, <1>4, <2>3, Zenon DEF CleanInv
  <2>9. Coverage'
    <3>1. MetaRanges' = MetaRanges
      BY <1>2, <1>4, Zenon DEF MetaRanges
    <3> QED  BY <1>1, <1>2, <1>4, <2>3, <3>1, Zenon DEF Coverage, Known
  <2> QED  BY <1>3, <2>1, <2>3, <2>4, <2>5, <2>6, <2>7, <2>8, <2>9, Zenon DEF IInv
<1>5. CASE /\ metadataToWrite /\ allocatePages(n)
           /\ header' = [header EXCEPT !.metadata = a]
           /\ uncheckpointed' = uncheckpointed \cup Valid(header.metadata)
           /\ image' = [chunks |-> chunks, catalog |-> header.catalog,
                        metadata |-> a, free |-> serializeInternal]
           /\ versioned' = (versioned \/ searched(n) # {} \/ header.metadata # NoRange)
  <2>1. Free = freeLists /\ Free' = freeLists'
    BY <1>2, FreeIsLists, Zenon DEF Free, Valid
  <2>2. Gets(a) /\ (freeLists' = freeLists \/ searched(n) # {})
    <3>1. n \in Nat \ {0}
      BY ConstantsAssumption, Zenon
    <3> QED  BY <1>1, <1>5, <2>1, <3>1, Allocation, Zenon DEF Spread, Bounds
  <2>3. a \in PageRanges /\ freeLists' \in SUBSET PageRanges /\ numPages' \in 1 .. MaxPages
    BY <2>2, Zenon DEF Gets
  <2> HIDE DEF a
  <2>4. /\ header'.metadata = a /\ header'.catalog = header.catalog /\ a # NoRange
        /\ header' \in [catalog : PageRanges \cup {NoRange}, metadata : PageRanges \cup {NoRange}]
        /\ Valid(header'.metadata) = {a}
        /\ Valid(header.metadata) \in SUBSET PageRanges
        /\ header.catalog \in PageRanges \cup {NoRange}
    <3>1. header'.metadata = a /\ header'.catalog = header.catalog
          /\ header' \in [catalog : PageRanges \cup {NoRange}, metadata : PageRanges \cup {NoRange}]
      BY <1>1, <1>5, <2>3, Zenon DEF TypeOK
    <3> QED  BY <1>1, <2>3, <3>1, ValidRanges, TrackedTypes, Zenon
  <2>5. Used' \subseteq Used \cup {a}
    BY <1>2, <1>5, <2>4, Zenon DEF Used, InUse
  <2>6. /\ Spread' /\ \A r \in Used : a # r
        /\ \A r \in Free' \cup Used' : End(r) <= numPages'
    BY <1>1, <1>2, <2>2, <2>5, SpreadByAllocation, Zenon
  <2>7. /\ image'.chunks = chunks /\ image'.catalog = header.catalog /\ image'.metadata = a
        /\ image'.free = freeLists' \cup uncheckpointed' /\ image' \in Images
    <3>1. uncheckpointed' \in SUBSET PageRanges /\ chunks \in SUBSET PageRanges
      BY <1>1, <1>5, <2>4, Zenon DEF TypeOK
    <3> QED  BY <1>5, <2>3, <2>4, <3>1, Zenon DEF Images, serializeInternal
  <2>8. TypeOK'
    BY <1>1, <1>2, <1>5, <2>3, <2>4, <2>7, Zenon DEF TypeOK
  <2>9. Bounds'
    <3>1. \A r \in freeLists' : End(r) <= fileSize
      BY <1>1, <2>1, <2>2, EndsKept, Zenon DEF Bounds
    <3>2. \A r \in Valid(header.metadata) : End(r) <= fileSize
      BY <1>1, <1>2, Zenon DEF Bounds, InUse
    <3> QED  BY <1>1, <1>2, <1>5, <2>1, <2>6, <3>1, <3>2, Zenon DEF Bounds
  <2>10. Owners'
    <3>1. a \notin uncheckpointed \cup chunks \cup Valid(header.metadata) /\ a # header.catalog
      BY <2>3, <2>6, ValidRanges, Zenon DEF Used, Valid
    <3>2. chunks \cap uncheckpointed' \subseteq reclaimed
          /\ header.catalog \notin uncheckpointed' \cup chunks
      BY <1>1, <1>5, Zenon DEF Owners, Valid
    <3> QED  BY <1>1, <1>2, <1>5, <2>4, <3>1, <3>2, Zenon DEF Owners
  <2>11. PhaseInv' /\ MergeInv'
    <3>1. uncheckpointed' # {} => versioned'
      BY <1>1, <1>5, Zenon DEF PhaseInv, Valid
    <3> QED  BY <1>1, <1>2, <1>5, <2>4, <3>1, Zenon DEF PhaseInv, MergeInv
  <2>12. LogInv'
    <3>1. versioned' \/ disk'.metadata = NoRange
      BY <1>2, <1>5, Zenon
    <3> QED  BY <1>2, <2>4, <2>7, <3>1, Zenon DEF LogInv
  <2>13. CleanInv'
    <3>1. ~versioned' => ~versioned /\ freeLists' = freeLists /\ Valid(header.metadata) = {}
      BY <1>5, <2>2, Zenon DEF Valid
    <3>2. ~versioned' => (Free \cup uncheckpointed)' = Free \cup uncheckpointed
      BY <1>5, <2>1, <3>1, Zenon
    <3> QED  BY <1>1, <1>2, <3>1, <3>2, Zenon DEF CleanInv
  <2>14. Coverage'
    <3> DEFINE S == uncheckpointed \cup chunks \cup optimistic \cup MetaRanges
    <3>1. /\ MetaRanges = Valid(header.catalog) \cup Valid(header.metadata)
          /\ MetaRanges' = {a} \cup Valid(header.catalog)
      BY <1>2, <2>4, Zenon DEF MetaRanges
    <3>2. intact => 1 .. numPages - 1 \subseteq AllPages(freeLists \cup S)
      BY <1>1, <2>1, PagesOfUnion, Zenon DEF Coverage, Known
    <3>3. S \cup {a} \subseteq S'
      BY <1>2, <1>5, <3>1, Zenon
    <3>4. intact => 1 .. numPages' - 1 \subseteq AllPages(freeLists' \cup S')
      BY <1>1, <2>2, <3>2, <3>3, CoverageByAllocation, Zenon
    <3> QED  BY <1>2, <2>1, <3>4, PagesOfUnion, Zenon DEF Coverage, Known
  <2> QED  BY <1>3, <2>6, <2>8, <2>9, <2>10, <2>11, <2>12, <2>13, <2>14, Zenon DEF IInv
<1> QED  BY <1>4, <1>5, Zenon DEF SerializeMetadata

\* The checkpoint is logged: recovery starts from it.
LEMMA LogCheckpointKeeps ==
    ASSUME IInv, LogCheckpoint
    PROVE  IInv'
<1>1. /\ TypeOK /\ Spread /\ Bounds /\ Owners /\ DiskInv /\ PhaseInv /\ LogInv /\ CleanInv
      /\ Coverage
  BY Zenon DEF IInv
<1>2. /\ phase = "log" /\ phase' = "finalize" /\ optimistic = {} /\ reclaimed = {}
      /\ rest = {} /\ prev = NoRange /\ ~hasChanges /\ disk' = image
      /\ UNCHANGED <<numPages, freeLists, uncheckpointed, chunks, optimistic, merge, rest, prev,
                     reclaimed, header, image, hasChanges, catalogChanged, hasStorageChanges,
                     versioned, intact>>
      /\ fileSize' = grown(grown(fileSize, image.catalog), image.metadata)
  BY <1>1, Zenon DEF LogCheckpoint, PhaseInv, merge, changes
<1>3. /\ header.catalog = image.catalog /\ header.metadata = image.metadata
      /\ image.catalog # NoRange /\ image.metadata # NoRange
  BY <1>1, <1>2, Zenon DEF LogInv
<1>4. /\ image.catalog \in PageRanges /\ image.metadata \in PageRanges
      /\ Valid(image.catalog) = {header.catalog} /\ Valid(image.metadata) = {header.metadata}
      /\ {header.catalog, header.metadata} \subseteq Used
  <2>1. image.catalog \in PageRanges /\ image.metadata \in PageRanges
    BY <1>1, <1>3, ImageRanges, Zenon DEF TypeOK
  <2>2. Valid(image.catalog) = {image.catalog} /\ Valid(image.metadata) = {image.metadata}
    BY <1>3, Zenon DEF Valid
  <2> QED  BY <1>3, <2>1, <2>2, Zenon DEF Used
<1>5. \/ image = disk /\ ~versioned /\ chunks = disk.chunks
      \/ image.chunks = chunks /\ image.free = freeLists \cup uncheckpointed
  BY <1>1, <1>2, <1>3, Zenon DEF LogInv, CleanInv
<1>6. /\ InUse(image) = chunks \cup {header.catalog, header.metadata}
      /\ image.chunks = chunks
  BY <1>4, <1>5, Zenon DEF InUse
<1>7. Used' \subseteq Used
  BY <1>2, <1>4, <1>6, Zenon DEF Used
<1>8. /\ Spread' /\ Free' = Free /\ Free = freeLists
      /\ \A r \in Free' \cup Used' : End(r) <= numPages'
  BY <1>1, <1>2, <1>7, SpreadKept, FreeIsLists, Zenon
<1>9. /\ fileSize' \in 1 .. MaxPages /\ fileSize <= fileSize'
      /\ End(image.catalog) <= fileSize' /\ End(image.metadata) <= fileSize'
  <2> DEFINE m == grown(fileSize, image.catalog)
  <2>1. fileSize \in Nat \ {0} /\ fileSize <= MaxPages /\ MaxPages \in Nat
    BY <1>1, ConstantsAssumption DEF TypeOK
  <2>2. End(image.catalog) <= numPages /\ End(image.metadata) <= numPages
    BY <1>1, <1>3, <1>4, Zenon DEF Bounds
  <2>3. End(image.catalog) <= MaxPages /\ End(image.metadata) <= MaxPages
    BY <1>1, <1>4, <2>1, <2>2 DEF TypeOK, PageRanges, End
  <2>4. m \in Nat \ {0} /\ fileSize <= m /\ End(image.catalog) <= m /\ m <= MaxPages
    BY <1>4, <2>1, <2>3, FileGrows, Zenon
  <2> HIDE DEF m
  <2>5. fileSize' \in Nat \ {0} /\ m <= fileSize' /\ End(image.metadata) <= fileSize'
        /\ fileSize' <= MaxPages
    BY <1>2, <1>4, <2>1, <2>3, <2>4, FileGrows, Zenon DEF m
  <2> QED  BY <1>4, <2>1, <2>4, <2>5 DEF PageRanges, End
<1>10. TypeOK'
  BY <1>1, <1>2, <1>9, Zenon DEF TypeOK
<1>11. Bounds'
  <2>1. fileSize \in Int /\ fileSize' \in Int
    BY <1>1, <1>9 DEF TypeOK
  <2>2. \A r \in freeLists \cup uncheckpointed \cup chunks : End(r) <= fileSize'
    <3>1. \A r \in freeLists \cup uncheckpointed \cup chunks : End(r) <= fileSize
      BY <1>1, <1>8, Zenon DEF Bounds
    <3>2. freeLists \cup uncheckpointed \cup chunks \in SUBSET PageRanges
      BY <1>1, Zenon DEF TypeOK
    <3> QED  BY <1>9, <2>1, <3>1, <3>2, EndsInLarger, Zenon
  <2>3. \A r \in disk.free : End(r) <= fileSize'
    <3>1. \A r \in disk.free : End(r) <= fileSize
      BY <1>1, Zenon DEF Bounds
    <3>2. disk.free \in SUBSET PageRanges
      BY <1>1, TrackedTypes, Zenon
    <3> QED  BY <1>9, <2>1, <3>1, <3>2, EndsInLarger, Zenon
  <2>4. \A r \in InUse(image) \cup image.free : End(r) <= fileSize'
    BY <1>3, <1>5, <1>6, <1>9, <2>2, <2>3, Zenon
  <2> QED  BY <1>2, <1>8, <2>2, <2>4, Zenon DEF Bounds
<1>12. Owners'
  BY <1>1, <1>2, <1>3, Zenon DEF Owners
<1>13. DiskInv'
  <2>1. CASE image = disk
    BY <1>1, <1>2, <2>1, Zenon DEF DiskInv
  <2>2. CASE image.chunks = chunks /\ image.free = freeLists \cup uncheckpointed
    <3>1. InUse(image) \cup uncheckpointed \subseteq Used
      BY <1>4, <1>6, Zenon DEF Used
    <3>2. InUse(image) \cap uncheckpointed = {}
      BY <1>1, <1>2, <1>6, Zenon DEF Owners
    <3>3. \A q, r \in PageRanges : Apart(q, r) => Apart(r, q) /\ q # r
      BY DEF Apart, PageRanges, End
    <3>4. Used \in SUBSET PageRanges /\ freeLists \in SUBSET PageRanges
      BY <1>1, TrackedTypes, Zenon DEF TypeOK
    <3>5. ASSUME NEW q \in InUse(image) \cup image.free, NEW r \in InUse(image) \cup image.free
          PROVE  q = r \/ Apart(q, r)
      <4>1. CASE q \in freeLists
        BY <1>1, <1>8, <2>2, <3>1, <3>5, <4>1, Zenon DEF Spread
      <4>2. CASE q \in Used
        <5>1. CASE r \in freeLists
          BY <1>1, <1>8, <3>3, <3>4, <4>2, <5>1, Zenon DEF Spread
        <5>2. CASE r \in Used
          BY <1>1, <4>2, <5>2, Zenon DEF Spread
        <5> QED  BY <2>2, <3>1, <3>5, <5>1, <5>2, Zenon
      <4> QED  BY <2>2, <3>1, <3>5, <4>1, <4>2, Zenon
    <3>6. InUse(image) \cap image.free = {}
      BY <1>1, <1>8, <2>2, <3>1, <3>2, <3>3, <3>4, Zenon DEF Spread
    <3>7. /\ image.catalog \notin image.chunks /\ image.metadata \notin image.chunks
          /\ image.catalog # image.metadata
      BY <1>1, <1>3, <1>6, Zenon DEF Owners
    <3> QED  BY <1>2, <1>3, <3>5, <3>6, <3>7, Zenon DEF DiskInv
  <2> QED  BY <1>5, <2>1, <2>2, Zenon
<1>14. PhaseInv' /\ LogInv' /\ MergeInv'
  BY <1>1, <1>2, <1>3, <1>6, Zenon DEF PhaseInv, LogInv, MergeInv
<1>15. CleanInv'
  <2>1. AllPages(Free \cup uncheckpointed) \subseteq AllPages(image.free)
    <3>1. CASE image = disk /\ ~versioned
      BY <1>1, <3>1, Zenon DEF CleanInv
    <3>2. CASE image.free = freeLists \cup uncheckpointed
      BY <1>8, <3>2, Zenon
    <3> QED  BY <1>5, <3>1, <3>2, Zenon
  <2> QED  BY <1>2, <1>6, <1>8, <2>1, Zenon DEF CleanInv
<1>16. Coverage'
  <2>1. MetaRanges' = MetaRanges
    BY <1>2, Zenon DEF MetaRanges
  <2>2. Known \subseteq Known'
    BY <1>2, <1>8, <2>1, Zenon DEF Known
  <2> QED  BY <1>1, <1>2, <2>2, CoverageKept, Zenon
<1> QED  BY <1>8, <1>10, <1>11, <1>12, <1>13, <1>14, <1>15, <1>16, Zenon DEF IInv

\* At the end of a checkpoint catalog and metadata are where the header says.
LEMMA MetaAtTheEnd ==
    ASSUME phase \in {"finalize", "merge"}, PhaseInv, UNCHANGED disk,
           phase' = "none" \/ (phase' = "merge" /\ UNCHANGED header)
    PROVE  MetaRanges' = MetaRanges
BY Zenon DEF MetaRanges, PhaseInv

\* finalizeCheckpoint: what has been freed joins the free ranges.
LEMMA FinalizeCheckpointKeeps ==
    ASSUME IInv, finalizeCheckpoint
    PROVE  IInv'
<1> DEFINE S == freeLists \cup uncheckpointed
<1>1. TypeOK /\ Spread /\ Bounds /\ Owners /\ DiskInv /\ PhaseInv /\ CleanInv /\ Coverage
  BY Zenon DEF IInv
<1>2. /\ phase = "finalize" /\ uncheckpointed' = {} /\ optimistic = {} /\ reclaimed = {}
      /\ rest = {} /\ prev = NoRange /\ ~hasChanges /\ disk.chunks = chunks
      /\ header.catalog = disk.catalog /\ header.metadata = disk.metadata
      /\ UNCHANGED <<numPages, chunks, optimistic, disk, fileSize, hasChanges, intact>>
  BY <1>1, Zenon DEF finalizeCheckpoint, PhaseInv
<1>3. Free = freeLists
  BY <1>2, FreeIsLists, Zenon
<1>4. /\ freeLists \in SUBSET PageRanges /\ Used \in SUBSET PageRanges
      /\ S \in SUBSET PageRanges /\ NoRange \notin PageRanges
  BY <1>1, TrackedTypes, ValidRanges, Zenon DEF TypeOK
<1>5. DiskInv'
  BY <1>1, <1>2, Zenon DEF DiskInv
<1>6. CASE S = {} /\ CheckpointDone /\ UNCHANGED freeLists
  <2>1. /\ phase' = "none" /\ reclaimed' = {} /\ hasStorageChanges' = FALSE
        /\ header' = NoHeader /\ image' = EmptyImage /\ rest' = {} /\ prev' = NoRange
        /\ catalogChanged' = FALSE /\ versioned' = FALSE /\ UNCHANGED <<freeLists, merge>>
        /\ freeLists = {} /\ uncheckpointed = {}
    BY <1>2, <1>6, Zenon DEF CheckpointDone, CheckpointEnds, merge
  <2>2. /\ NoHeader.catalog = NoRange /\ NoHeader.metadata = NoRange
        /\ Valid(NoHeader.catalog) = {} /\ Valid(NoHeader.metadata) = {}
    BY Zenon DEF NoHeader, Valid
  <2>3. TypeOK'
    <3>1. /\ EmptyImage \in Images
          /\ NoHeader \in [catalog : PageRanges \cup {NoRange}, metadata : PageRanges \cup {NoRange}]
      BY Zenon DEF EmptyImage, Images, NoHeader
    <3> QED  BY <1>1, <1>2, <2>1, <3>1, Zenon DEF TypeOK
  <2>4. Used' \subseteq Used
    BY <1>2, <2>1, <2>2, Zenon DEF Used, InUse
  <2>5. /\ Spread' /\ Free' = Free
        /\ \A r \in Free' \cup Used' : End(r) <= numPages'
    BY <1>1, <1>2, <2>1, <2>4, SpreadKept, Zenon
  <2>6. Bounds'
    BY <1>1, <1>2, <2>1, <2>5, Zenon DEF Bounds
  <2>7. Owners'
    BY <1>1, <1>2, <1>4, <2>1, <2>2, Zenon DEF Owners, TypeOK
  <2>8. PhaseInv' /\ LogInv' /\ MergeInv'
    BY <1>2, <2>1, <2>2, Zenon DEF PhaseInv, LogInv, MergeInv
  <2>9. CleanInv'
    BY <1>1, <1>2, <2>1, <2>5, Zenon DEF CleanInv
  <2>10. Coverage'
    <3>1. MetaRanges' = MetaRanges
      BY <1>1, <1>2, <2>1, MetaAtTheEnd, Zenon
    <3> QED  BY <1>1, <1>2, <2>1, <2>5, <3>1, Zenon DEF Coverage, Known
  <2> QED  BY <1>5, <2>3, <2>5, <2>6, <2>7, <2>8, <2>9, <2>10, Zenon DEF IInv
<1>7. ASSUME NEW r \in First(S), phase' = "merge", freeLists' = {}, prev' = r, rest' = S \ {r},
             UNCHANGED <<reclaimed, hasStorageChanges, header, image, catalogChanged, versioned>>
      PROVE  IInv'
  <2>1. r \in S /\ \A q \in S : r.start <= q.start
    BY <1>7, Zenon DEF First
  <2>2. r \in PageRanges /\ r # NoRange /\ Valid(r) = {r}
    BY <1>4, <2>1, ValidRanges, Zenon
  <2>3. Free' = Free \cup uncheckpointed /\ Free' = S
    BY <1>3, <1>7, <2>1, <2>2, Zenon DEF Free
  <2>4. /\ Used' \subseteq Used /\ Used' \cap uncheckpointed = {} /\ uncheckpointed \subseteq Used
    <3>1. Used' = chunks \cup Valid(header.catalog) \cup Valid(header.metadata)
      BY <1>2, <1>7, Zenon DEF Used, InUse
    <3>2. chunks \cap uncheckpointed = {} /\ header.catalog \notin uncheckpointed
          /\ header.metadata \notin uncheckpointed
      BY <1>1, <1>2, Zenon DEF Owners
    <3> QED  BY <3>1, <3>2, Zenon DEF Used, Valid
  <2>5. TypeOK'
    <3>1. S \ {r} \in SUBSET PageRanges
      BY <1>4, Zenon
    <3> QED  BY <1>1, <1>2, <1>7, <2>2, <3>1, Zenon DEF TypeOK
  <2>6. \A q, x \in S : q = x \/ Apart(q, x)
    <3>1. \A q, x \in PageRanges : Apart(q, x) => Apart(x, q)
      BY Zenon DEF Apart
    <3>2. ASSUME NEW q \in S, NEW x \in S PROVE q = x \/ Apart(q, x)
      BY <1>1, <1>3, <1>4, <2>4, <3>1, Zenon DEF Spread
    <3> QED  BY <3>2, Zenon
  <2>7. Spread'
    <3>1. ASSUME NEW q \in S, NEW x \in Used' PROVE Apart(q, x)
      BY <1>1, <1>3, <2>4, Zenon DEF Spread
    <3> QED  BY <1>1, <1>7, <2>3, <2>4, <2>6, <3>1, Zenon DEF Spread
  <2>8. Bounds'
    BY <1>1, <1>2, <2>3, <2>4, Zenon DEF Bounds
  <2>9. Owners'
    BY <1>1, <1>2, <1>7, Zenon DEF Owners
  <2>10. PhaseInv' /\ LogInv'
    BY <1>1, <1>2, <1>7, <2>2, Zenon DEF PhaseInv, LogInv
  <2>11. CleanInv'
    <3>1. AllPages(Free \cup uncheckpointed) \subseteq AllPages(disk.free)
      BY <1>1, <1>2, Zenon DEF CleanInv
    <3>2. (Free \cup uncheckpointed)' = Free \cup uncheckpointed
      BY <1>2, <2>3, Zenon
    <3> QED  BY <1>2, <3>1, <3>2, Zenon DEF CleanInv
  <2>12. Coverage'
    <3>1. MetaRanges' = MetaRanges
      BY <1>1, <1>2, <1>7, MetaAtTheEnd, Zenon
    <3>2. Known \subseteq Known'
      BY <1>2, <2>3, <3>1, Zenon DEF Known
    <3> QED  BY <1>1, <1>2, <3>2, CoverageKept, Zenon
  <2>13. MergeInv'
    <3>1. ASSUME NEW q \in S \ {r} PROVE End(r) <= q.start
      BY <1>4, <2>1, <2>2, <2>6 DEF Apart, PageRanges, End
    <3> QED  BY <1>7, <3>1, Zenon DEF MergeInv
  <2> QED  BY <1>5, <2>5, <2>7, <2>8, <2>9, <2>10, <2>11, <2>12, <2>13, Zenon DEF IInv
<1> QED  BY <1>6, <1>7, Zenon DEF finalizeCheckpoint

\* Two adjacent ranges and the range they make up.
LEMMA Joined ==
    ASSUME NEW q \in PageRanges, NEW r \in PageRanges, End(q) = r.start,
           NEW j, j = PageRange(q.start, q.num + r.num)
    PROVE  /\ j \in PageRanges /\ End(j) = End(r) /\ j.start = q.start
           /\ PagesOf(q) \cup PagesOf(r) = PagesOf(j)
           /\ \A x \in PageRanges : Apart(x, q) /\ Apart(x, r) => Apart(x, j) /\ Apart(j, x) /\ x # j
<1>1. j \in PageRanges /\ End(j) = End(r) /\ j.start = q.start
  BY DEF PageRange, PageRanges, End
<1>2. PagesOf(q) \cup PagesOf(r) = PagesOf(j)
  BY <1>1 DEF PagesOf, PageRanges, End
<1>3. \A x \in PageRanges : Apart(x, q) /\ Apart(x, r) => Apart(x, j) /\ Apart(j, x) /\ x # j
  BY <1>1 DEF Apart, PageRanges, End
<1> QED  BY <1>1, <1>2, <1>3, Zenon

\* mergePageRanges: the next entry extends prevEntry or follows it.
LEMMA MergeEntryKeeps ==
    ASSUME IInv, mergeEntry
    PROVE  IInv'
<1>1. /\ TypeOK /\ Spread /\ Bounds /\ Owners /\ DiskInv /\ PhaseInv /\ CleanInv /\ Coverage
      /\ MergeInv
  BY Zenon DEF IInv
<1>2. /\ phase = "merge" /\ phase' = phase /\ uncheckpointed = {} /\ optimistic = {}
      /\ prev # NoRange
      /\ UNCHANGED <<numPages, uncheckpointed, chunks, optimistic, reclaimed, header, image, disk,
                     fileSize, hasChanges, catalogChanged, hasStorageChanges, versioned, intact>>
  BY <1>1, Zenon DEF mergeEntry, PhaseInv, changes
<1>3. PICK r \in First(rest) :
          /\ rest' = rest \ {r}
          /\ \/ /\ End(prev) = r.start
                /\ prev' = PageRange(prev.start, prev.num + r.num)
                /\ freeLists' = freeLists
             \/ /\ End(prev) # r.start
                /\ prev' = r
                /\ freeLists' = freeLists \cup {prev}
  BY Zenon DEF mergeEntry
<1>4. r \in rest /\ \A q \in rest : r.start <= q.start
  BY <1>3, Zenon DEF First
<1>5. /\ prev \in PageRanges /\ r \in PageRanges /\ rest \in SUBSET PageRanges
      /\ freeLists \in SUBSET PageRanges /\ Used \in SUBSET PageRanges /\ NoRange \notin PageRanges
  BY <1>1, <1>2, <1>4, TrackedTypes, ValidRanges, Zenon DEF TypeOK
<1>6. Valid(prev) = {prev} /\ Free = freeLists \cup rest \cup {prev}
  BY <1>5, ValidRanges, Zenon DEF Free
<1>7. Used' = Used /\ MetaRanges' = MetaRanges
  BY <1>2, Zenon DEF Used, MetaRanges, InUse
<1>8. DiskInv' /\ Owners'
  BY <1>1, <1>2, Zenon DEF DiskInv, Owners
<1>9. CASE /\ End(prev) = r.start /\ prev' = PageRange(prev.start, prev.num + r.num)
           /\ freeLists' = freeLists
  <2> DEFINE j == PageRange(prev.start, prev.num + r.num)
  <2>1. /\ j \in PageRanges /\ End(j) = End(r) /\ j.start = prev.start
        /\ PagesOf(prev) \cup PagesOf(r) = PagesOf(j)
        /\ \A x \in PageRanges :
              Apart(x, prev) /\ Apart(x, r) => Apart(x, j) /\ Apart(j, x) /\ x # j
    BY <1>5, <1>9, Joined
  <2> HIDE DEF j
  <2>2. prev' = j
    BY <1>9, Zenon DEF j
  <2>3. j # NoRange /\ Free' = freeLists \cup (rest \ {r}) \cup {j}
    BY <1>3, <1>5, <1>9, <2>1, <2>2, ValidRanges, Zenon DEF Free
  <2>4. TypeOK'
    BY <1>1, <1>2, <1>3, <1>9, <2>1, <2>2, Zenon DEF TypeOK
  <2>5. \A q, x \in PageRanges : Apart(q, x) => Apart(x, q) /\ q # x
    BY DEF Apart, PageRanges, End
  <2>6. \A x \in freeLists \cup (rest \ {r}) \cup Used : Apart(x, j) /\ Apart(j, x) /\ x # j
    <3>1. ASSUME NEW x \in freeLists \cup (rest \ {r}) PROVE Apart(x, prev) /\ Apart(x, r)
      BY <1>1, <1>4, <1>6, Zenon DEF Spread
    <3>2. ASSUME NEW x \in Used PROVE Apart(x, prev) /\ Apart(x, r)
      BY <1>1, <1>4, <1>5, <1>6, <2>5, Zenon DEF Spread
    <3> QED  BY <1>5, <2>1, <3>1, <3>2, Zenon
  <2>7. Spread'
    <3>1. ASSUME NEW q \in Free', NEW x \in Free' PROVE q = x \/ Apart(q, x)
      BY <1>1, <1>6, <2>3, <2>6, Zenon DEF Spread
    <3>2. ASSUME NEW q \in Free', NEW x \in Used' PROVE Apart(q, x)
      BY <1>1, <1>6, <1>7, <2>3, <2>6, Zenon DEF Spread
    <3>3. freeLists' \cap rest' = {} /\ prev' \notin freeLists' \cup rest'
      BY <1>1, <1>3, <1>9, <2>2, <2>6, Zenon DEF Spread
    <3> QED  BY <1>1, <1>7, <3>1, <3>2, <3>3, Zenon DEF Spread
  <2>8. Bounds'
    <3>1. r \in Free
      BY <1>4, <1>6, Zenon
    <3> QED  BY <1>1, <1>2, <1>6, <1>7, <2>1, <2>3, <3>1, Zenon DEF Bounds
  <2>9. PhaseInv' /\ LogInv'
    BY <1>1, <1>2, <2>2, <2>3, Zenon DEF PhaseInv, LogInv
  <2>10. AllPages(Free') = AllPages(Free)
    <3>1. AllPages({j}) = AllPages({prev}) \cup AllPages({r})
      BY <2>1, Zenon DEF AllPages
    <3>2. Free = freeLists \cup (rest \ {r}) \cup {prev} \cup {r}
      BY <1>4, <1>6, Zenon
    <3> DEFINE A == freeLists \cup (rest \ {r})
    <3>3. AllPages(Free') = AllPages(A) \cup AllPages({j})
      BY <2>3, PagesOfUnion, Zenon
    <3>4. AllPages(Free) = AllPages(A \cup {prev}) \cup AllPages({r})
      BY <3>2, PagesOfUnion, Zenon
    <3>5. AllPages(A \cup {prev}) = AllPages(A) \cup AllPages({prev})
      BY PagesOfUnion, Zenon
    <3> QED  BY <3>1, <3>3, <3>4, <3>5, Zenon
  <2>11. CleanInv'
    <3>1. (Free \cup uncheckpointed)' = Free' /\ Free \cup uncheckpointed = Free
      BY <1>2, Zenon
    <3> QED  BY <1>1, <1>2, <2>10, <3>1, Zenon DEF CleanInv
  <2>12. Coverage'
    <3>1. AllPages(Known') = AllPages(Known)
      <4> DEFINE B == chunks \cup optimistic \cup uncheckpointed \cup MetaRanges
      <4>1. Known = Free \cup B /\ Known' = Free' \cup B
        BY <1>2, <1>7, Zenon DEF Known
      <4>2. AllPages(Free \cup B) = AllPages(Free) \cup AllPages(B)
        BY PagesOfUnion, Zenon
      <4>3. AllPages(Free' \cup B) = AllPages(Free') \cup AllPages(B)
        BY PagesOfUnion, Zenon
      <4> QED  BY <2>10, <4>1, <4>2, <4>3, Zenon
    <3> QED  BY <1>1, <1>2, <3>1, Zenon DEF Coverage
  <2>13. MergeInv'
    <3>1. ASSUME NEW q \in rest \ {r} PROVE End(j) <= q.start
      <4>1. Apart(q, r) /\ q \in PageRanges /\ r.start <= q.start
        BY <1>1, <1>4, <1>5, <1>6, Zenon DEF Spread
      <4> QED  BY <1>5, <2>1, <4>1 DEF Apart, PageRanges, End
    <3> QED  BY <1>3, <2>2, <3>1, Zenon DEF MergeInv
  <2> QED  BY <1>8, <2>4, <2>7, <2>8, <2>9, <2>11, <2>12, <2>13, Zenon DEF IInv
<1>10. CASE End(prev) # r.start /\ prev' = r /\ freeLists' = freeLists \cup {prev}
  <2>1. Free' = Free
    <3>1. Valid(prev') = {r}
      BY <1>5, <1>10, Zenon DEF Valid
    <3>2. Free' = freeLists \cup {prev} \cup (rest \ {r}) \cup {r}
      BY <1>3, <1>10, <3>1, Zenon DEF Free
    <3> QED  BY <1>4, <1>6, <3>2, Zenon
  <2>2. TypeOK'
    BY <1>1, <1>2, <1>3, <1>5, <1>10, Zenon DEF TypeOK
  <2>3. Spread'
    <3>1. freeLists' \cap rest' = {} /\ prev' \notin freeLists' \cup rest'
      BY <1>1, <1>3, <1>4, <1>10, Zenon DEF Spread
    <3> QED  BY <1>1, <1>7, <2>1, <3>1, Zenon DEF Spread
  <2>4. Bounds'
    BY <1>1, <1>2, <1>7, <2>1, Zenon DEF Bounds
  <2>5. PhaseInv' /\ LogInv'
    BY <1>1, <1>2, <1>5, <1>10, Zenon DEF PhaseInv, LogInv
  <2>6. CleanInv'
    BY <1>1, <1>2, <2>1, Zenon DEF CleanInv
  <2>7. Coverage'
    BY <1>1, <1>2, <1>7, <2>1, Zenon DEF Coverage, Known
  <2>8. MergeInv'
    <3>1. ASSUME NEW q \in rest \ {r} PROVE End(r) <= q.start
      <4>1. Apart(q, r) /\ q \in PageRanges /\ r.start <= q.start
        BY <1>1, <1>4, <1>5, <1>6, Zenon DEF Spread
      <4> QED  BY <1>5, <4>1 DEF Apart, PageRanges, End
    <3> QED  BY <1>3, <1>10, <3>1, Zenon DEF MergeInv
  <2> QED  BY <1>8, <2>2, <2>3, <2>4, <2>5, <2>6, <2>7, <2>8, Zenon DEF IInv
<1> QED  BY <1>3, <1>9, <1>10, Zenon

\* handleLastPageRange: the file ends before its last range, or the range is free.
LEMMA HandleLastPageRangeKeeps ==
    ASSUME IInv, handleLastPageRange
    PROVE  IInv'
<1>1. TypeOK /\ Spread /\ Bounds /\ Owners /\ DiskInv /\ PhaseInv /\ CleanInv /\ Coverage
  BY Zenon DEF IInv
<1>2. /\ phase = "merge" /\ rest = {} /\ prev # NoRange /\ uncheckpointed = {} /\ optimistic = {}
      /\ ~hasChanges /\ disk.chunks = chunks
      /\ UNCHANGED <<uncheckpointed, chunks, optimistic, disk, fileSize, hasChanges, intact>>
      /\ CheckpointDone
  BY <1>1, Zenon DEF handleLastPageRange, PhaseInv
<1>3. /\ phase' = "none" /\ reclaimed' = {} /\ hasStorageChanges' = FALSE
      /\ header' = NoHeader /\ image' = EmptyImage /\ rest' = {} /\ prev' = NoRange
      /\ catalogChanged' = FALSE /\ versioned' = FALSE
  BY <1>2, Zenon DEF CheckpointDone, CheckpointEnds
<1>4. /\ NoHeader.catalog = NoRange /\ NoHeader.metadata = NoRange
      /\ Valid(NoHeader.catalog) = {} /\ Valid(NoHeader.metadata) = {}
      /\ EmptyImage \in Images
      /\ NoHeader \in [catalog : PageRanges \cup {NoRange}, metadata : PageRanges \cup {NoRange}]
  BY Zenon DEF NoHeader, Valid, EmptyImage, Images
<1>5. /\ prev \in PageRanges /\ freeLists \in SUBSET PageRanges /\ Used \in SUBSET PageRanges
      /\ NoRange \notin PageRanges
  BY <1>1, <1>2, TrackedTypes, ValidRanges, Zenon DEF TypeOK
<1>6. Free = freeLists \cup {prev} /\ Free' = freeLists'
  <2>1. Valid(prev) = {prev} /\ Valid(NoRange) = {}
    BY <1>2, Zenon DEF Valid
  <2> QED  BY <1>2, <1>3, <2>1, Zenon DEF Free
<1>7. Used' \subseteq Used
  BY <1>2, <1>3, <1>4, Zenon DEF Used, InUse
<1>8. MetaRanges' = MetaRanges
  BY <1>1, <1>2, <1>3, MetaAtTheEnd, Zenon
<1>9. DiskInv'
  BY <1>1, <1>2, Zenon DEF DiskInv
<1>10. Owners'
  BY <1>1, <1>2, <1>3, <1>4, <1>5, Zenon DEF Owners, TypeOK
<1>11. PhaseInv' /\ LogInv' /\ MergeInv'
  BY <1>2, <1>3, <1>4, Zenon DEF PhaseInv, LogInv, MergeInv
<1>12. freeLists' \subseteq freeLists \cup {prev}
  BY Zenon DEF handleLastPageRange
<1>13. Spread'
  BY <1>1, <1>3, <1>5, <1>6, <1>7, <1>12, Zenon DEF Spread
<1>14. CleanInv'
  <2>1. AllPages(Free \cup uncheckpointed) \subseteq AllPages(disk.free)
    BY <1>1, <1>2, Zenon DEF CleanInv
  <2>2. (Free \cup uncheckpointed)' \subseteq Free \cup uncheckpointed
    BY <1>2, <1>6, <1>12, Zenon
  <2>3. AllPages((Free \cup uncheckpointed)') \subseteq AllPages(Free \cup uncheckpointed)
    BY <2>2, MorePages, Zenon
  <2> QED  BY <1>2, <2>1, <2>3, Zenon DEF CleanInv
<1>15. CASE End(prev) = numPages /\ numPages' = prev.start /\ UNCHANGED freeLists
  <2>1. numPages' \in 1 .. MaxPages
    BY <1>1, <1>5, <1>15, ConstantsAssumption DEF TypeOK, PageRanges, End
  <2>2. TypeOK'
    BY <1>1, <1>2, <1>3, <1>4, <1>15, <2>1, Zenon DEF TypeOK
  <2>3. Bounds'
    <3>1. ASSUME NEW r \in freeLists \cup Used PROVE End(r) <= numPages'
      <4>1. Apart(prev, r) \/ Apart(r, prev)
        BY <1>1, <1>6, Zenon DEF Spread
      <4>2. End(r) <= numPages /\ r \in PageRanges
        BY <1>1, <1>5, <1>6, Zenon DEF Bounds
      <4> QED  BY <1>5, <1>15, <4>1, <4>2 DEF Apart, PageRanges, End
    <3> QED  BY <1>1, <1>2, <1>6, <1>7, <1>15, <3>1, Zenon DEF Bounds
  <2>4. Coverage'
    <3> SUFFICES ASSUME intact PROVE 1 .. numPages' - 1 \subseteq AllPages(Known')
      BY <1>2, Zenon DEF Coverage
    <3>1. Known = Known' \cup {prev}
      BY <1>2, <1>6, <1>8, <1>15, Zenon DEF Known
    <3>2. AllPages(Known) = AllPages(Known') \cup AllPages({prev})
      BY <3>1, PagesOfUnion, Zenon
    <3>3. AllPages({prev}) = PagesOf(prev)
      BY Zenon DEF AllPages
    <3>4. 1 .. numPages' - 1 \subseteq 1 .. numPages - 1
          /\ (1 .. numPages' - 1) \cap PagesOf(prev) = {}
      BY <1>1, <1>5, <1>15 DEF TypeOK, PageRanges, End, PagesOf
    <3> QED  BY <1>1, <3>2, <3>3, <3>4, Zenon DEF Coverage
  <2> QED  BY <1>9, <1>10, <1>11, <1>13, <1>14, <2>2, <2>3, <2>4, Zenon DEF IInv
<1>16. CASE End(prev) # numPages /\ freeLists' = freeLists \cup {prev} /\ UNCHANGED numPages
  <2>1. TypeOK'
    BY <1>1, <1>2, <1>3, <1>4, <1>5, <1>16, Zenon DEF TypeOK
  <2>2. Bounds'
    BY <1>1, <1>2, <1>6, <1>7, <1>16, Zenon DEF Bounds
  <2>3. Coverage'
    <3>1. Known \subseteq Known'
      BY <1>2, <1>6, <1>8, <1>16, Zenon DEF Known
    <3> QED  BY <1>1, <1>2, <1>16, <3>1, CoverageKept, Zenon
  <2> QED  BY <1>9, <1>10, <1>11, <1>13, <1>14, <2>1, <2>2, <2>3, Zenon DEF IInv
<1> QED  BY <1>15, <1>16, Zenon DEF handleLastPageRange

\* A checkpoint fails: what it freed is not free, what it allocated is lost.
LEMMA CheckpointFailsKeeps ==
    ASSUME IInv, CheckpointFails
    PROVE  IInv'
<1>1. /\ TypeOK /\ Spread /\ Bounds /\ Owners /\ DiskInv /\ PhaseInv /\ LogInv /\ CleanInv
      /\ Coverage
  BY Zenon DEF IInv
<1>2. /\ phase \in {"storage", "catalog", "metadata", "log"} /\ phase' = "none"
      /\ optimistic = {} /\ rest = {} /\ prev = NoRange
      /\ reclaimed' = {} /\ hasStorageChanges' = FALSE /\ header' = NoHeader
      /\ image' = EmptyImage /\ rest' = {} /\ prev' = NoRange /\ uncheckpointed' = {}
      /\ intact' = FALSE
      /\ UNCHANGED <<numPages, freeLists, merge, chunks, optimistic, disk, fileSize, hasChanges,
                     catalogChanged>>
      /\ versioned' \in {versioned, versioned \/ header.metadata # NoRange}
  BY <1>1, Zenon DEF CheckpointFails, CheckpointEnds, rollbackCheckpoint, PhaseInv, changes, merge
<1>3. /\ NoHeader.catalog = NoRange /\ NoHeader.metadata = NoRange
      /\ Valid(NoHeader.catalog) = {} /\ Valid(NoHeader.metadata) = {}
      /\ EmptyImage \in Images
      /\ NoHeader \in [catalog : PageRanges \cup {NoRange}, metadata : PageRanges \cup {NoRange}]
  BY Zenon DEF NoHeader, Valid, EmptyImage, Images
<1>4. TypeOK'
  BY <1>1, <1>2, <1>3, Zenon DEF TypeOK
<1>5. Used' \subseteq Used
  BY <1>2, <1>3, Zenon DEF Used, InUse
<1>6. /\ Spread' /\ Free' = Free
      /\ \A r \in Free' \cup Used' : End(r) <= numPages'
  BY <1>1, <1>2, <1>5, SpreadKept, Zenon
<1>7. Bounds'
  BY <1>1, <1>2, <1>6, Zenon DEF Bounds
<1>8. Owners'
  <2>1. NoRange \notin PageRanges
    BY ValidRanges, Zenon
  <2> QED  BY <1>1, <1>2, <1>3, <2>1, Zenon DEF Owners, TypeOK
<1>9. DiskInv'
  BY <1>1, <1>2, Zenon DEF DiskInv
<1>10. PhaseInv' /\ LogInv' /\ MergeInv'
  BY <1>2, <1>3, Zenon DEF PhaseInv, LogInv, MergeInv
<1>11. CleanInv'
  <2>1. ASSUME ~hasChanges, ~catalogChanged, ~versioned', disk.metadata # NoRange
        PROVE  chunks = disk.chunks
    <3>1. ~versioned
      BY <1>1, <1>2, <2>1, Zenon DEF TypeOK
    <3>2. CASE phase = "storage"
      BY <1>1, <2>1, <3>1, <3>2, Zenon DEF CleanInv, PhaseInv
    <3>3. CASE phase = "log"
      BY <1>1, <2>1, <3>1, <3>3, Zenon DEF CleanInv, LogInv
    <3>4. CASE phase = "catalog"
      BY <1>1, <2>1, <3>4, Zenon DEF CheckpointFails, catalogToWrite, PhaseInv, DiskInv
    <3>5. CASE phase = "metadata"
      BY <1>1, <2>1, <3>5, Zenon DEF CheckpointFails, PhaseInv
    <3> QED  BY <1>2, <3>2, <3>3, <3>4, <3>5, Zenon
  <2>2. ASSUME ~versioned' PROVE AllPages((Free \cup uncheckpointed)') \subseteq AllPages(disk.free)
    <3>1. ~versioned
      BY <1>1, <1>2, <2>2, Zenon DEF TypeOK
    <3>2. AllPages((Free \cup uncheckpointed)') \subseteq AllPages(Free \cup uncheckpointed)
      BY <1>2, <1>6, MorePages, Zenon
    <3> QED  BY <1>1, <3>1, <3>2, Zenon DEF CleanInv
  <2> QED  BY <1>2, <2>1, <2>2, Zenon DEF CleanInv
<1>12. Coverage'
  BY <1>2, Zenon DEF Coverage
<1> QED  BY <1>4, <1>6, <1>7, <1>8, <1>9, <1>10, <1>11, <1>12, Zenon DEF IInv

\* A crash: the last logged checkpoint is all there is.
LEMMA CrashKeeps ==
    ASSUME IInv, Crash
    PROVE  IInv'
<1>1. TypeOK /\ Bounds /\ DiskInv
  BY Zenon DEF IInv
<1>2. /\ phase' = "none" /\ reclaimed' = {} /\ hasStorageChanges' = FALSE /\ header' = NoHeader
      /\ image' = EmptyImage /\ rest' = {} /\ prev' = NoRange /\ uncheckpointed' = {}
      /\ optimistic' = {} /\ chunks' = disk.chunks /\ freeLists' = disk.free
      /\ numPages' = fileSize /\ hasChanges' \in BOOLEAN /\ catalogChanged' \in BOOLEAN
      /\ versioned' = FALSE /\ intact' = FALSE /\ UNCHANGED <<disk, fileSize>>
  BY Zenon DEF Crash, CheckpointEnds
<1>3. /\ NoHeader.catalog = NoRange /\ NoHeader.metadata = NoRange
      /\ Valid(NoHeader.catalog) = {} /\ Valid(NoHeader.metadata) = {}
      /\ EmptyImage \in Images
      /\ NoHeader \in [catalog : PageRanges \cup {NoRange}, metadata : PageRanges \cup {NoRange}]
  BY Zenon DEF NoHeader, Valid, EmptyImage, Images
<1>4. /\ disk.chunks \in SUBSET PageRanges /\ disk.free \in SUBSET PageRanges
      /\ InUse(disk) \in SUBSET PageRanges /\ NoRange \notin PageRanges
  BY <1>1, TrackedTypes, ValidRanges, Zenon
<1>5. TypeOK'
  BY <1>1, <1>2, <1>3, <1>4, Zenon DEF TypeOK
<1>6. Used' = InUse(disk) /\ Free' = disk.free
  BY <1>2, <1>3, Zenon DEF Used, Free, InUse, Valid
<1>7. Spread'
  <2>1. ASSUME NEW q \in disk.free, NEW r \in InUse(disk) PROVE Apart(q, r)
    BY <1>1, Zenon DEF DiskInv
  <2> QED  BY <1>1, <1>2, <1>4, <1>6, <2>1, Zenon DEF Spread, DiskInv
<1>8. Bounds'
  BY <1>1, <1>2, <1>6, Zenon DEF Bounds, InUse
<1>9. Owners' /\ DiskInv'
  BY <1>1, <1>2, <1>3, <1>4, Zenon DEF Owners, DiskInv
<1>10. PhaseInv' /\ LogInv' /\ MergeInv'
  BY <1>2, <1>3, Zenon DEF PhaseInv, LogInv, MergeInv
<1>11. CleanInv'
  BY <1>2, <1>6, MorePages, Zenon DEF CleanInv
<1>12. Coverage'
  BY <1>2, Zenon DEF Coverage
<1> QED  BY <1>5, <1>7, <1>8, <1>9, <1>10, <1>11, <1>12, Zenon DEF IInv

-----------------------------------------------------------------------------
(* Theorems.                                                               *)

\* IInv is an inductive invariant.
THEOREM InductiveInvariant == Spec => []IInv
<1>1. Init => IInv
  BY InitHolds, Zenon
<1>2. IInv /\ [Next]_vars => IInv'
  <2> SUFFICES ASSUME IInv, [Next]_vars PROVE IInv'
    BY Zenon
  <2>1. CASE Next
    BY Zenon, <2>1, BatchInsertKeeps, FlushChunkKeeps, SerializeCatalogKeeps, SerializeMetadataKeeps,
       ReclaimChunkKeeps, CommitKeeps, RollbackKeeps, BeginCheckpointKeeps,
       StorageCheckpointedKeeps, LogCheckpointKeeps, FinalizeCheckpointKeeps, MergeEntryKeeps,
       HandleLastPageRangeKeeps, CheckpointFailsKeeps, CrashKeeps, Zenon DEF Next
  <2>2. CASE UNCHANGED vars
    <3>1. /\ UNCHANGED <<numPages, freeLists, uncheckpointed, chunks, optimistic, phase, reclaimed,
                         header, image, disk, rest, prev, fileSize, hasChanges, catalogChanged,
                         hasStorageChanges, versioned, intact>>
      BY <2>2, Zenon DEF vars, changes, merge
    <3>2. Free' = Free /\ Used' = Used /\ MetaRanges' = MetaRanges /\ Known' = Known
      BY <3>1, Zenon DEF Free, Used, Known, MetaRanges, InUse
    <3>3. TypeOK' /\ Owners' /\ PhaseInv' /\ LogInv' /\ MergeInv'
      BY <3>1 DEF IInv, TypeOK, Owners, PhaseInv, LogInv, MergeInv
    <3>4. Spread' /\ Bounds' /\ DiskInv' /\ CleanInv' /\ Coverage'
      BY <3>1, <3>2, Zenon DEF IInv, Spread, Bounds, DiskInv, CleanInv, Coverage
    <3> QED  BY <3>3, <3>4, Zenon DEF IInv
  <2> QED  BY <2>1, <2>2, Zenon
<1> QED  BY <1>1, <1>2, PTL DEF Spec

\* Ranges that are the same or apart are disjoint.
LEMMA DisjointRanges ==
    ASSUME NEW S \in SUBSET PageRanges, \A q, r \in S : q = r \/ Apart(q, r)
    PROVE  Disjoint(S)
BY ApartPages, Zenon DEF Disjoint

\* No page has two owners: what PageManager and FreeSpaceManager track, the
\* chunks of the tables and the pages of a transaction never overlap.
THEOREM OneOwner == Spec => []PagesHaveOneOwner
<1>1. IInv => PagesHaveOneOwner
  <2> SUFFICES ASSUME IInv PROVE PagesHaveOneOwner
    BY Zenon
  <2> DEFINE S == uncheckpointed \cup chunks \cup optimistic
  <2>1. /\ Free \in SUBSET PageRanges /\ S \in SUBSET PageRanges /\ S \subseteq Used
    BY TrackedTypes, Zenon DEF IInv, TypeOK, Used
  <2>2. \A q, r \in PageRanges : Apart(q, r) => Apart(r, q) /\ q # r
    BY DEF Apart, PageRanges, End
  <2>3. \A q \in Free, r \in S : Apart(q, r) /\ Apart(r, q) /\ q # r
    BY <2>1, <2>2, Zenon DEF IInv, Spread
  <2>4. \A q, r \in Free \cup S : q = r \/ Apart(q, r)
    BY <2>1, <2>3, Zenon DEF IInv, Spread
  <2>5. Disjoint(Free \cup S)
    BY <2>1, <2>4, DisjointRanges, Zenon
  <2>6. Free \cup S = Free \cup uncheckpointed \cup chunks \cup optimistic
    BY Zenon
  <2>7. Free \cap S = {}
    BY <2>3, Zenon
  <2>8. chunks \cap (optimistic \cup uncheckpointed) \subseteq reclaimed
    BY Zenon DEF IInv, Owners
  <2> QED  BY <2>5, <2>6, <2>7, <2>8, Zenon DEF PagesHaveOneOwner
<1> QED  BY <1>1, InductiveInvariant, PTL

\* No page of the checkpoint that a crash would reopen is free, allocated to a
\* transaction or part of a chunk written since.
THEOREM DurablePages == Spec => []DurablePagesAreNotReused
<1>1. IInv => DurablePagesAreNotReused
  <2> SUFFICES ASSUME IInv PROVE DurablePagesAreNotReused
    BY Zenon
  <2> DEFINE D == InUse(disk)
             T == Free \cup optimistic \cup (chunks \ disk.chunks)
  <2>1. D \in SUBSET PageRanges /\ T \in SUBSET PageRanges
    BY TrackedTypes, Zenon DEF IInv, TypeOK
  <2>2. \A q, r \in PageRanges : Apart(q, r) => Apart(r, q)
    BY Zenon DEF Apart
  <2>3. ASSUME NEW q \in D, NEW r \in T PROVE Apart(q, r)
    <3>1. q \in Used
      BY Zenon DEF Used
    <3>2. CASE r \in Free
      BY <2>1, <2>2, <3>1, <3>2, Zenon DEF IInv, Spread
    <3>3. CASE r \in optimistic \cup (chunks \ disk.chunks)
      <4>1. q # r
        BY <3>3, Zenon DEF IInv, Owners, InUse, Valid
      <4>2. r \in Used
        BY <3>3, Zenon DEF Used
      <4> QED  BY <3>1, <4>1, <4>2, Zenon DEF IInv, Spread
    <3> QED  BY <3>2, <3>3, Zenon
  <2>4. \A q \in D, r \in T : Apart(q, r)
    BY <2>3, Zenon
  <2> HIDE DEF D, T
  <2>5. AllPages(D) \cap AllPages(T) = {}
    BY <2>1, <2>4, ApartSets, Zenon
  <2> QED  BY <2>5, Zenon DEF DurablePagesAreNotReused, D, T
<1> QED  BY <1>1, InductiveInvariant, PTL

\* Recovery knows every page: a logged checkpoint has no overlapping ranges and,
\* unless something failed before, leaves out no page of the file.
THEOREM CompleteCheckpoint == Spec => []CheckpointIsComplete
<1>1. IInv => CheckpointIsComplete
  <2> SUFFICES ASSUME IInv, phase = "finalize"
               PROVE  /\ Disjoint(InUse(disk) \cup disk.free) /\ InUse(disk) \cap disk.free = {}
                      /\ intact => 1 .. numPages - 1 \subseteq AllPages(InUse(disk) \cup disk.free)
    BY Zenon DEF CheckpointIsComplete
  <2>1. Disjoint(InUse(disk) \cup disk.free)
    <3>1. InUse(disk) \cup disk.free \in SUBSET PageRanges
      BY TrackedTypes, Zenon DEF IInv
    <3> QED  BY <3>1, DisjointRanges, Zenon DEF IInv, DiskInv
  <2>2. InUse(disk) \cap disk.free = {}
    BY Zenon DEF IInv, DiskInv
  <2>3. ASSUME intact PROVE 1 .. numPages - 1 \subseteq AllPages(InUse(disk) \cup disk.free)
    <3>1. /\ optimistic = {} /\ disk.chunks = chunks
          /\ header.catalog = disk.catalog /\ header.metadata = disk.metadata
      BY Zenon DEF IInv, PhaseInv
    <3>2. MetaRanges = Valid(disk.catalog) \cup Valid(disk.metadata)
      BY <3>1, Zenon DEF MetaRanges
    <3> DEFINE A == Free \cup uncheckpointed
    <3>3. Known = A \cup InUse(disk)
      BY <3>1, <3>2, Zenon DEF Known, InUse
    <3>4. AllPages(A) \subseteq AllPages(disk.free)
      BY Zenon DEF IInv, CleanInv
    <3>5. AllPages(A \cup InUse(disk)) = AllPages(A) \cup AllPages(InUse(disk))
      BY PagesOfUnion, Zenon
    <3>6. AllPages(InUse(disk) \cup disk.free) = AllPages(InUse(disk)) \cup AllPages(disk.free)
      BY PagesOfUnion, Zenon
    <3>7. 1 .. numPages - 1 \subseteq AllPages(Known)
      BY <2>3, Zenon DEF IInv, Coverage
    <3> QED  BY <3>3, <3>4, <3>5, <3>6, <3>7, Zenon
  <2> QED  BY <2>1, <2>2, <2>3, Zenon
<1> QED  BY <1>1, InductiveInvariant, PTL

\* A logged checkpoint has every chunk of the tables.
THEOREM ChunksAreLogged == Spec => []RecoveryFindsChunks
<1>1. IInv => RecoveryFindsChunks
  BY Zenon DEF IInv, PhaseInv, RecoveryFindsChunks
<1> QED  BY <1>1, InductiveInvariant, PTL

\* No range reaches behind the end of the file, now or after a crash.
THEOREM PagesExist == Spec => []TrackedPagesExist
<1>1. ASSUME NEW S \in SUBSET PageRanges, NEW m \in Int, \A r \in S : End(r) <= m
      PROVE  AllPages(S) \subseteq 1 .. m - 1
  <2> SUFFICES ASSUME NEW p \in AllPages(S) PROVE p \in 1 .. m - 1
    BY Zenon
  <2>1. p \in Int /\ \E r \in S : r.start <= p /\ p < End(r)
    BY PagesIn, Zenon
  <2> QED  BY <1>1, <2>1 DEF PageRanges, End
<1>2. IInv => TrackedPagesExist
  <2> SUFFICES ASSUME IInv PROVE TrackedPagesExist
    BY Zenon
  <2>1. numPages \in Int /\ fileSize \in Int
    BY DEF IInv, TypeOK
  <2> DEFINE S == Free \cup uncheckpointed \cup chunks \cup optimistic
  <2>2. S \in SUBSET PageRanges /\ InUse(disk) \cup disk.free \in SUBSET PageRanges
    BY TrackedTypes, Zenon DEF IInv, TypeOK
  <2>3. \A r \in S : End(r) <= numPages
    BY Zenon DEF IInv, Bounds, Used
  <2>4. \A r \in InUse(disk) \cup disk.free : End(r) <= fileSize
    BY Zenon DEF IInv, Bounds
  <2>5. AllPages(S) \subseteq 1 .. numPages - 1
    BY <1>1, <2>1, <2>2, <2>3, Zenon
  <2>6. AllPages(InUse(disk) \cup disk.free) \subseteq 1 .. fileSize - 1
    BY <1>1, <2>1, <2>2, <2>4, Zenon
  <2> QED  BY <2>5, <2>6, Zenon DEF TrackedPagesExist
<1> QED  BY <1>2, InductiveInvariant, PTL

\* popFreePages is a best fit: searching the lists level by level, it finds the
\* smallest free range that is large enough, the first of its size.
THEOREM BestFitAlways == Spec => []PopsBestFit
<1>1. IInv => PopsBestFit
  BY BestFit, Zenon DEF IInv
<1> QED  BY <1>1, InductiveInvariant, PTL

\* The assertion of mergePageRanges holds: the entries it has not reached start
\* behind the end of prevEntry.
THEOREM MergeAssertion == Spec => []MergeInv
<1>1. IInv => MergeInv
  BY Zenon DEF IInv
<1> QED  BY <1>1, InductiveInvariant, PTL

=============================================================================
