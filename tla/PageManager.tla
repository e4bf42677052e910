---------------------------- MODULE PageManager ----------------------------
(***************************************************************************)
(* The pages of the data file: PageManager and FreeSpaceManager, the       *)
(* transactions that allocate pages optimistically, and the checkpoints    *)
(* that rewrite, free and reallocate them.  Each call of PageManager holds *)
(* its mutex, so it is one step.  Checkpoints run alone.  A crash reopens  *)
(* the database from the last checkpoint that was logged.                  *)
(***************************************************************************)
EXTENDS Integers, FiniteSets, FiniteSetsExt

CONSTANTS
    Sizes,      \* numbers of pages that are asked for
    MaxPages    \* bound on the pages of the file

ASSUME ConstantsAssumption == Sizes \subseteq Nat \ {0} /\ MaxPages \in Nat \ {0}

VARIABLES
    numPages,        \* FileHandle::numPages
    freeLists,       \* FreeSpaceManager: ranges that can be allocated
    uncheckpointed,  \* uncheckpointedFreePageRanges
    chunks,          \* ranges of the column chunks on disk, as the tables have them
    optimistic,      \* optimisticallyAllocatedPages of the running transaction
    phase,           \* where the checkpoint is
    reclaimed,       \* chunks it has freed that still belong to their tables
    header,          \* its databaseHeader: catalogPageRange and metadataPageRange
    image,           \* what it has serialized
    disk,            \* the last logged checkpoint
    rest,            \* mergePageRanges: the entries behind prevEntry
    prev,            \* mergePageRanges: prevEntry
    fileSize,        \* pages of the file itself
    hasChanges,      \* a table has changes that no checkpoint has looked at
    catalogChanged,  \* Catalog::changedSinceLastCheckpoint
    hasStorageChanges,  \* of the running checkpoint
    versioned,       \* PageManager::changedSinceLastCheckpoint (version # 0)
    intact           \* history: no checkpoint has failed, nothing has crashed

changes == <<hasChanges, catalogChanged>>
merge == <<rest, prev>>
vars == <<numPages, freeLists, uncheckpointed, chunks, optimistic, phase, reclaimed,
          header, image, disk, merge, fileSize, changes, hasStorageChanges, versioned, intact>>

PageRange(a, n) == [start |-> a, num |-> n]
End(r) == r.start + r.num
PageRanges == [start : Nat \ {0}, num : Nat \ {0}]
PagesOf(r) == r.start .. End(r) - 1
AllPages(S) == UNION {PagesOf(r) : r \in S}

\* INVALID_PAGE_IDX: a header of an empty database has no ranges.
NoRange == PageRange(0, 0)
Valid(r) == {x \in {r} : x # NoRange}
InUse(d) == d.chunks \cup Valid(d.catalog) \cup Valid(d.metadata)

NoHeader == [catalog |-> NoRange, metadata |-> NoRange]
EmptyImage == [chunks |-> {}, catalog |-> NoRange, metadata |-> NoRange, free |-> {}]

\* initDataFileHandle reserves and writes the header page.
Init ==
    /\ numPages = 1 /\ fileSize = 1
    /\ freeLists = {} /\ uncheckpointed = {} /\ chunks = {} /\ optimistic = {}
    /\ phase = "none" /\ reclaimed = {}
    /\ header = NoHeader /\ rest = {} /\ prev = NoRange
    /\ image = EmptyImage /\ disk = EmptyImage
    /\ hasChanges = FALSE /\ catalogChanged = FALSE
    /\ hasStorageChanges = FALSE /\ versioned = FALSE
    /\ intact = TRUE

-----------------------------------------------------------------------------
(* FreeSpaceManager.                                                       *)

\* The exponent of the largest power of 2 that is <= n.
getLevel(n) == Cardinality({k \in 1 .. n : 2 ^ k \in 1 .. n})

entryCmp(a, b) == IF a.num = b.num THEN a.start < b.start ELSE a.num < b.num

freeList(l) == {r \in freeLists : getLevel(r.num) = l}

\* lower_bound(PageRange{0, numPages}) in the first list that has one.
candidates(n, l) == {r \in freeList(l) : r.num >= n}
Levels == {getLevel(r.num) : r \in freeLists}

\* Mutant: the list of the range's own level is passed over.
searched_Above(n) == {l \in Levels : l > getLevel(n) /\ candidates(n, l) # {}}

searched(n) == {l \in Levels : l >= getLevel(n) /\ candidates(n, l) # {}}

found(n) == LET l == Min(searched(n))
            IN CHOOSE r \in candidates(n, l) :
                   \A q \in candidates(n, l) \ {r} : entryCmp(r, q)

\* What splitPageRange gives back to the free lists.
splitPageRange(r, n) ==
    IF n < r.num THEN {PageRange(r.start + n, r.num - n)} ELSE {}

\* PageManager::allocatePageRange: popFreePages, else addNewPages.
allocated(n) == PageRange(IF searched(n) # {} THEN found(n).start ELSE numPages, n)

allocatePages(n) ==
    \/ /\ searched(n) # {}
       /\ freeLists' = (freeLists \ {found(n)}) \cup splitPageRange(found(n), n)
       /\ UNCHANGED numPages
    \/ /\ searched(n) = {}
       /\ numPages + n <= MaxPages
       /\ numPages' = numPages + n
       /\ UNCHANGED freeLists

\* New pages at the end of the file leave the version alone.
allocatePageRange(n) == allocatePages(n) /\ versioned' = (versioned \/ searched(n) # {})

\* The file grows when pages behind its end are written.
grown(size, r) == IF End(r) > size THEN End(r) ELSE size

-----------------------------------------------------------------------------
(* Transactions.                                                           *)

\* A batch insert flushes a chunk into pages of its own
\* (OptimisticAllocator::allocatePageRange, then the writing).
BatchInsert(n) ==
    /\ phase = "none"
    /\ allocatePageRange(n)
    /\ optimistic' = optimistic \cup {allocated(n)}
    /\ fileSize' = grown(fileSize, allocated(n))
    /\ UNCHANGED <<uncheckpointed, chunks, phase, reclaimed, header, image, disk, changes,
                   hasStorageChanges, merge, intact>>

\* A transaction commits; it may have changed rows in memory or the catalog.
Commit ==
    /\ phase = "none"
    /\ chunks' = chunks \cup optimistic
    /\ optimistic' = {}
    /\ hasChanges' \in {hasChanges \/ optimistic # {}, TRUE}
    /\ catalogChanged' \in {catalogChanged, TRUE}
    /\ UNCHANGED <<numPages, freeLists, uncheckpointed, phase, reclaimed, header, image,
                   disk, fileSize, hasStorageChanges, versioned, merge, intact>>

\* freeImmediatelyRewritablePageRange of every range: no checkpoint has them.
Rollback ==
    /\ optimistic # {}
    /\ freeLists' = freeLists \cup optimistic
    /\ optimistic' = {}
    /\ versioned' = TRUE
    /\ UNCHANGED <<numPages, uncheckpointed, chunks, phase, reclaimed, header, image, disk,
                   fileSize, changes, hasStorageChanges, merge, intact>>

-----------------------------------------------------------------------------
(* Checkpoints: writeCheckpoint.                                           *)

\* The locals of a checkpoint die with it.
CheckpointEnds ==
    /\ phase' = "none" /\ reclaimed' = {} /\ hasStorageChanges' = FALSE
    /\ header' = NoHeader /\ image' = EmptyImage
    /\ rest' = {} /\ prev' = NoRange

\* The header is read from the file.
BeginCheckpoint ==
    /\ phase = "none" /\ optimistic = {}
    /\ phase' = "storage"
    /\ header' = [catalog |-> disk.catalog, metadata |-> disk.metadata]
    /\ UNCHANGED <<numPages, freeLists, uncheckpointed, chunks, optimistic, reclaimed, image,
                   disk, fileSize, changes, hasStorageChanges, versioned, merge, intact>>

\* PageManager::freePageRange.
freePageRange(S) ==
    /\ uncheckpointed' = uncheckpointed \cup S
    /\ versioned' = (versioned \/ S # {})

\* Mutant: the old pages of a chunk can be allocated at once.
ReclaimChunk_Immediately(c) ==
    /\ phase = "storage" /\ hasChanges /\ c \in chunks \ reclaimed
    /\ freeLists' = freeLists \cup {c}
    /\ chunks' = chunks \ {c}
    /\ versioned' = TRUE
    /\ UNCHANGED <<numPages, uncheckpointed, optimistic, phase, reclaimed, header, image, disk,
                   fileSize, changes, hasStorageChanges, merge, intact>>

\* The old range of a chunk is freed: the chunk is rewritten out of place and
\* in memory until it is flushed, or its rows or its table are gone.
ReclaimChunk(c) ==
    /\ phase = "storage" /\ c \in chunks \ reclaimed
    /\ freePageRange({c})
    /\ \/ hasChanges /\ chunks' = chunks \ {c} /\ UNCHANGED reclaimed
       \/ (hasChanges \/ catalogChanged) /\ reclaimed' = reclaimed \cup {c} /\ UNCHANGED chunks
    /\ UNCHANGED <<numPages, freeLists, optimistic, phase, header, image, disk, fileSize,
                   changes, hasStorageChanges, merge, intact>>

\* ColumnChunkData::flush of a chunk that is in memory.
FlushChunk(n) ==
    /\ phase = "storage" /\ hasChanges
    /\ allocatePageRange(n)
    /\ chunks' = chunks \cup {allocated(n)}
    /\ fileSize' = grown(fileSize, allocated(n))
    /\ UNCHANGED <<uncheckpointed, optimistic, phase, reclaimed, header, image, disk, changes,
                   hasStorageChanges, merge, intact>>

\* The tables have no changes any more, and the dropped ones are erased.
StorageCheckpointed ==
    /\ phase = "storage"
    /\ phase' = "catalog"
    /\ hasStorageChanges' = hasChanges
    /\ hasChanges' = FALSE
    /\ chunks' = chunks \ reclaimed
    /\ reclaimed' = {}
    /\ UNCHANGED <<numPages, freeLists, uncheckpointed, optimistic, header, image, disk,
                   fileSize, catalogChanged, versioned, merge, intact>>

catalogToWrite == header.catalog = NoRange \/ catalogChanged

\* The catalog gets new pages before its old ones are freed.
SerializeCatalog(n) ==
    /\ phase = "catalog"
    /\ phase' = "metadata"
    /\ \/ /\ ~catalogToWrite
          /\ UNCHANGED <<numPages, freeLists, uncheckpointed, header, versioned>>
       \/ /\ catalogToWrite
          /\ allocatePages(n)
          /\ header' = [header EXCEPT !.catalog = allocated(n)]
          /\ uncheckpointed' = uncheckpointed \cup Valid(header.catalog)
          /\ versioned' = (versioned \/ searched(n) # {} \/ header.catalog # NoRange)
    /\ UNCHANGED <<chunks, optimistic, reclaimed, image, disk, fileSize, changes,
                   hasStorageChanges, merge, intact>>

\* Mutant: a change of the tables shows in the page manager, they say.
metadataToWrite_Pages == header.metadata = NoRange \/ catalogChanged \/ versioned

metadataToWrite ==
    header.metadata = NoRange \/ hasStorageChanges \/ catalogChanged \/ versioned

\* Mutant: only the ranges that can be allocated are written.
serializeInternal_ListsOnly == freeLists'

\* The ranges the free space manager writes.
serializeInternal == freeLists' \cup uncheckpointed'

\* The old metadata pages are freed, then the new ones are allocated, then the
\* free ranges are written, the ones just freed included.  If nothing changed
\* the metadata on disk stay.
SerializeMetadata(n) ==
    /\ phase = "metadata"
    /\ phase' = "log"
    /\ \/ /\ ~metadataToWrite
          /\ image' = disk
          /\ UNCHANGED <<numPages, freeLists, uncheckpointed, header, versioned>>
       \/ /\ metadataToWrite
          /\ uncheckpointed' = uncheckpointed \cup Valid(header.metadata)
          /\ allocatePages(n)
          /\ header' = [header EXCEPT !.metadata = allocated(n)]
          /\ image' = [chunks |-> chunks, catalog |-> header.catalog,
                       metadata |-> allocated(n), free |-> serializeInternal]
          /\ versioned' = (versioned \/ searched(n) # {} \/ header.metadata # NoRange)
    /\ UNCHANGED <<chunks, optimistic, reclaimed, disk, fileSize, changes, hasStorageChanges,
                   merge, intact>>

\* logCheckpointAndApplyShadowPages: the checkpoint is the one that recovery
\* starts from; catalog and metadata pages reach the file.
LogCheckpoint ==
    /\ phase = "log"
    /\ phase' = "finalize"
    /\ disk' = image
    /\ fileSize' = grown(grown(fileSize, image.catalog), image.metadata)
    /\ UNCHANGED <<numPages, freeLists, uncheckpointed, chunks, optimistic, reclaimed, header,
                   image, changes, hasStorageChanges, versioned, merge, intact>>

-----------------------------------------------------------------------------
(* finalizeCheckpoint: mergePageRanges and handleLastPageRange.            *)

\* The entry that is next in the order of the first pages.
First(S) == {r \in S : \A q \in S : r.start <= q.start}

\* The versions are reset: there is nothing that is not checkpointed.
CheckpointDone == CheckpointEnds /\ catalogChanged' = FALSE /\ versioned' = FALSE

\* All free ranges are taken out of the lists and sorted.
finalizeCheckpoint ==
    /\ phase = "finalize"
    /\ uncheckpointed' = {}
    /\ LET S == freeLists \cup uncheckpointed IN
       \/ S = {} /\ CheckpointDone /\ UNCHANGED freeLists
       \/ \E r \in First(S) :
             /\ phase' = "merge" /\ freeLists' = {}
             /\ prev' = r /\ rest' = S \ {r}
             /\ UNCHANGED <<reclaimed, hasStorageChanges, header, image, catalogChanged, versioned>>
    /\ UNCHANGED <<numPages, chunks, optimistic, disk, fileSize, hasChanges, intact>>

\* One turn of the loop: prevEntry grows or is finished.
mergeEntry ==
    /\ phase = "merge"
    /\ \E r \in First(rest) :
          /\ rest' = rest \ {r}
          /\ \/ /\ End(prev) = r.start
                /\ prev' = PageRange(prev.start, prev.num + r.num)
                /\ UNCHANGED freeLists
             \/ /\ End(prev) # r.start
                /\ prev' = r
                /\ freeLists' = freeLists \cup {prev}
    /\ UNCHANGED <<numPages, uncheckpointed, chunks, optimistic, phase, reclaimed, header, image,
                   disk, fileSize, changes, hasStorageChanges, versioned, intact>>

\* Mutant: the file shrinks and the range stays free.
handleLastPageRange_Keeps ==
    /\ phase = "merge" /\ rest = {}
    /\ freeLists' = freeLists \cup {prev}
    /\ numPages' = IF End(prev) = numPages THEN prev.start ELSE numPages
    /\ CheckpointDone
    /\ UNCHANGED <<uncheckpointed, chunks, optimistic, disk, fileSize, hasChanges, intact>>

\* A last range at the end of the file is given up, and the checkpoint is done.
handleLastPageRange ==
    /\ phase = "merge" /\ rest = {}
    /\ \/ End(prev) = numPages /\ numPages' = prev.start /\ UNCHANGED freeLists
       \/ End(prev) # numPages /\ freeLists' = freeLists \cup {prev} /\ UNCHANGED numPages
    /\ CheckpointDone
    /\ UNCHANGED <<uncheckpointed, chunks, optimistic, disk, fileSize, hasChanges, intact>>

\* Mutant: what the checkpoint freed is freed by the next one.
rollbackCheckpoint_Keeps == UNCHANGED uncheckpointed

\* FreeSpaceManager::rollbackCheckpoint.
rollbackCheckpoint == uncheckpointed' = {}

\* A checkpoint throws before it is logged; what it allocated is not freed.
\* It can throw while it checkpoints a table or writes the catalog, or after it
\* has freed the metadata pages.
CheckpointFails ==
    /\ \/ phase \in {"storage", "log"} /\ UNCHANGED versioned
       \/ phase = "catalog" /\ catalogToWrite /\ UNCHANGED versioned
       \/ phase = "metadata" /\ metadataToWrite
          /\ versioned' = (versioned \/ header.metadata # NoRange)
    /\ CheckpointEnds
    /\ rollbackCheckpoint
    /\ intact' = FALSE
    /\ UNCHANGED <<numPages, freeLists, chunks, optimistic, disk, fileSize, changes>>

\* A crash, and readCheckpoint: numPages comes from the size of the file.  The
\* commits that are replayed from the log leave their changes in memory.
Crash ==
    /\ numPages' = fileSize
    /\ freeLists' = disk.free
    /\ uncheckpointed' = {}
    /\ chunks' = disk.chunks
    /\ optimistic' = {}
    /\ CheckpointEnds
    /\ hasChanges' \in BOOLEAN /\ catalogChanged' \in BOOLEAN /\ versioned' = FALSE
    /\ intact' = FALSE
    /\ UNCHANGED <<disk, fileSize>>

-----------------------------------------------------------------------------
Next ==
    \/ \E n \in Sizes :
          BatchInsert(n) \/ FlushChunk(n) \/ SerializeCatalog(n) \/ SerializeMetadata(n)
    \/ \E c \in chunks : ReclaimChunk(c)
    \/ Commit \/ Rollback
    \/ BeginCheckpoint \/ StorageCheckpointed \/ LogCheckpoint
    \/ finalizeCheckpoint \/ mergeEntry \/ handleLastPageRange \/ CheckpointFails
    \/ Crash

Spec == Init /\ [][Next]_vars

-----------------------------------------------------------------------------
(* Properties.                                                             *)

Images == [chunks : SUBSET PageRanges, catalog : PageRanges \cup {NoRange},
           metadata : PageRanges \cup {NoRange}, free : SUBSET PageRanges]

\* Every variable has its type.
TypeOK ==
    /\ numPages \in 1 .. MaxPages /\ fileSize \in 1 .. MaxPages
    /\ freeLists \in SUBSET PageRanges /\ uncheckpointed \in SUBSET PageRanges
    /\ chunks \in SUBSET PageRanges /\ optimistic \in SUBSET PageRanges
    /\ reclaimed \in SUBSET PageRanges
    /\ phase \in {"none", "storage", "catalog", "metadata", "log", "finalize", "merge"}
    /\ header \in [catalog : PageRanges \cup {NoRange}, metadata : PageRanges \cup {NoRange}]
    /\ image \in Images /\ disk \in Images
    /\ rest \in SUBSET PageRanges /\ prev \in PageRanges \cup {NoRange}
    /\ hasChanges \in BOOLEAN /\ catalogChanged \in BOOLEAN
    /\ hasStorageChanges \in BOOLEAN /\ versioned \in BOOLEAN /\ intact \in BOOLEAN

\* The free ranges: in the lists, or on their way through mergePageRanges.
Free == freeLists \cup rest \cup Valid(prev)

Disjoint(S) == \A q, r \in S : q # r => PagesOf(q) \cap PagesOf(r) = {}

\* No page has two owners: no range that can be allocated, is waiting for the
\* end of the checkpoint, or belongs to a chunk or a transaction overlaps
\* another, and outside a checkpoint what is in use is not about to be freed.
PagesHaveOneOwner ==
    /\ Disjoint(Free \cup uncheckpointed \cup chunks \cup optimistic)
    /\ Free \cap (uncheckpointed \cup chunks \cup optimistic) = {}
    /\ chunks \cap (optimistic \cup uncheckpointed) \subseteq reclaimed

\* "Freed pages cannot be immediately reused to ensure checkpoint recovery
\* works" (page_manager.cpp): whatever is allocated or can be allocated, the
\* pages of the checkpoint that a crash would reopen are not overwritten.
DurablePagesAreNotReused ==
    AllPages(InUse(disk)) \cap
        AllPages(Free \cup optimistic \cup (chunks \ disk.chunks)) = {}

\* Recovery knows every page: the logged ranges do not overlap, and unless
\* something failed earlier they leave out no page of the file.
CheckpointIsComplete ==
    phase = "finalize" =>
        /\ Disjoint(InUse(disk) \cup disk.free) /\ InUse(disk) \cap disk.free = {}
        /\ intact => 1 .. numPages - 1 \subseteq AllPages(InUse(disk) \cup disk.free)

\* A logged checkpoint has every chunk of the tables, also when it left the
\* metadata as they were because nothing seemed to have changed, and whichever
\* checkpoints failed before it.
RecoveryFindsChunks == phase = "finalize" => disk.chunks = chunks

\* No range reaches behind the end of the file, now or after a crash: addNewPages
\* would hand out its pages a second time.
TrackedPagesExist ==
    /\ AllPages(Free \cup uncheckpointed \cup chunks \cup optimistic) \subseteq 1 .. numPages - 1
    /\ AllPages(InUse(disk) \cup disk.free) \subseteq 1 .. fileSize - 1

\* The level-wise search is a best fit: the smallest free range that is large
\* enough, the first of its size.
PopsBestFit ==
    \A n \in 1 .. MaxPages :
        LET fits == {r \in freeLists : r.num >= n} IN
        /\ (searched(n) = {}) <=> (fits = {})
        /\ fits # {} => \A r \in fits \ {found(n)} : entryCmp(found(n), r)
=============================================================================
