--------------------------- MODULE BufferManager ---------------------------
(***************************************************************************)
(* The buffer manager: a page state word per page, frames that are claimed *)
(* and evicted, a circular queue of eviction candidates, one counter of    *)
(* used memory.  Threads pin pages to write them, read pages               *)
(* optimistically without a lock, and allocate buffers with malloc; a      *)
(* thread that needs memory evicts pages.  A rollback drops pages of its   *)
(* transaction beside them, a checkpoint does so while they are idle.      *)
(* Atomics are touched one at a time; a load followed by the               *)
(* compare-and-exchange that it feeds is one step, because a failed        *)
(* exchange only loads again.  There is no spiller, as in a database that  *)
(* is read-only or has spilling switched off.                              *)
(***************************************************************************)
EXTENDS Integers, Sequences, FiniteSets, FiniteSetsExt

CONSTANTS
    Threads,
    Pages,       \* the pages of a file on disk
    Written,     \* the pages that callers pin to write them
    PoolSize,    \* bufferPoolSize, in pages
    BatchSize,   \* EvictionQueue::BATCH_SIZE
    AllocSizes,  \* sizes of MemoryManager's malloc buffers, in pages
    Retries,     \* rounds of reserve that may find nothing (2 in the code)
    Checkpoints, \* whether checkpoints maintain the pages
    Races,       \* the states, of LOCKED and EVICTED, in which a rollback may
                 \*   find a page that it is about to lock and release
    MaxOps,      \* bound on the operations started
    None

ASSUME ConstantsAssumption ==
    /\ PoolSize \in Nat \ {0} /\ BatchSize \in Nat \ {0} /\ Retries \in Nat /\ MaxOps \in Nat
    /\ Written \subseteq Pages /\ AllocSizes \subseteq Nat \ {0} /\ Checkpoints \in BOOLEAN
    /\ Races \subseteq {"LOCKED", "EVICTED"}
    /\ None \notin Pages \cup Nat
    /\ IsFiniteSet(Threads) /\ IsFiniteSet(Pages)

VARIABLES
    word,        \* PageState::stateAndVersion of each page
    frame, file, \* contents of the page in its frame (None: released), on disk
    latest,      \* history: the contents the page was given last
    queue,       \* EvictionQueue::data, a page or None per slot
    insertCursor, evictionCursor,
    usedMemory,
    ops,         \* operations started; also the source of new contents
    pc, op, page,                  \* per thread: place, operation, its page
    seen, got, evicted,            \* optimisticRead: word loaded (also by a
                                   \*   rollback), halves read, history: whose
                                   \*   page was evicted meanwhile
    size, claimed, failed,         \* reserve: sizeToReserve, totalClaimedMemory
    scanned, batch, cands, victim, freed,   \* evictPages, tryEvictPage; the
                                   \*   page that a rollback drops is a victim
    malloced                       \* size of the thread's malloc buffer

reading == <<seen, got, evicted>>
reserving == <<size, claimed, failed>>
evicting == <<scanned, batch, cands, victim, freed>>
slots == <<queue, insertCursor, evictionCursor>>
contents == <<frame, file, latest>>
vars == <<word, contents, slots, usedMemory, ops, pc, op, page,
          reading, reserving, evicting, malloced>>

\* Capacity needs to be a multiple of the batch size.
Capacity == PoolSize + (BatchSize - (PoolSize % BatchSize))
Slots == 0 .. Capacity - 1
failureLimit == 2 * Capacity

-----------------------------------------------------------------------------
(* PageState.                                                              *)

Evicted == [state |-> "EVICTED", version |-> 0, dirty |-> 0]

withState(w, s) == [w EXCEPT !.state = s]
withDirty(w, d) == [w EXCEPT !.dirty = d]

\* Mutant: the version stays.
unlocked_SameVersion(w) == [w EXCEPT !.state = "UNLOCKED"]

\* unlock(): the page may have been written, so its version changes.
unlocked(w) == [w EXCEPT !.state = "UNLOCKED", !.version = @ + 1]

\* Mutant: a page that someone holds can be locked too.
Lockable_Always(p) == word[p].state \in {"UNLOCKED", "MARKED", "LOCKED"}

\* A pin of a cached page succeeds in tryLock.
Lockable(p) == word[p].state \in {"UNLOCKED", "MARKED"}

Init ==
    /\ word = [p \in Pages |-> Evicted]
    /\ frame = [p \in Pages |-> None]
    /\ file = [p \in Pages |-> 0]
    /\ latest = [p \in Pages |-> 0]
    /\ queue = [k \in Slots |-> None]
    /\ insertCursor = 0
    /\ evictionCursor = 0
    /\ usedMemory = 0
    /\ ops = 0
    /\ pc = [t \in Threads |-> "idle"]
    /\ op = [t \in Threads |-> None]
    /\ page = [t \in Threads |-> None]
    /\ seen = [t \in Threads |-> Evicted]
    /\ got = [t \in Threads |-> <<>>]
    /\ evicted = {}
    /\ size = [t \in Threads |-> 0]
    /\ claimed = [t \in Threads |-> 0]
    /\ failed = [t \in Threads |-> 0]
    /\ scanned = [t \in Threads |-> 0]
    /\ batch = [t \in Threads |-> <<>>]
    /\ cands = [t \in Threads |-> <<>>]
    /\ victim = [t \in Threads |-> None]
    /\ freed = [t \in Threads |-> 0]
    /\ malloced = [t \in Threads |-> 0]

goto(t, place) == pc' = [pc EXCEPT ![t] = place]

-----------------------------------------------------------------------------
(* The callers.                                                            *)

Start(t, o, p, place) ==
    /\ pc[t] = "idle" /\ ops < MaxOps
    /\ ops' = ops + 1
    /\ goto(t, place)
    /\ op' = [op EXCEPT ![t] = o]
    /\ page' = [page EXCEPT ![t] = p]
    /\ UNCHANGED <<word, contents, slots, reading, malloced>>

\* The page is dropped by the transaction that allocated it: nobody else knows it.
Dropped(p) == \E t \in Threads : op[t] = "rollback" /\ victim[t] = p

StartRead(t, p) ==
    ~Dropped(p) /\ Start(t, "read", p, "load") /\ UNCHANGED <<usedMemory, reserving, evicting>>
StartWrite(t, p) ==
    ~Dropped(p) /\ Start(t, "write", p, "pin") /\ UNCHANGED <<usedMemory, reserving, evicting>>

\* The beginning of reserve.
reserve(t, s) ==
    /\ usedMemory' = usedMemory + s
    /\ size' = [size EXCEPT ![t] = s]
    /\ UNCHANGED <<claimed, failed>>

\* MemoryManager::mallocBuffer
StartAlloc(t, s) ==
    /\ malloced[t] = 0
    /\ Start(t, "alloc", None, "loop")
    /\ reserve(t, s)
    /\ UNCHANGED evicting

\* The thread is back in its caller: its locals are gone.
Return(t) ==
    /\ goto(t, "idle")
    /\ op' = [op EXCEPT ![t] = None]
    /\ page' = [page EXCEPT ![t] = None]
    /\ seen' = [seen EXCEPT ![t] = Evicted]
    /\ got' = [got EXCEPT ![t] = <<>>]
    /\ evicted' = evicted \ {t}
    /\ size' = [size EXCEPT ![t] = 0]
    /\ claimed' = [claimed EXCEPT ![t] = 0]
    /\ failed' = [failed EXCEPT ![t] = 0]

\* ~MemoryBuffer of a malloc buffer: freeBlock and freeUsedMemory.
FreeBuffer(t) ==
    /\ pc[t] = "idle" /\ malloced[t] > 0
    /\ usedMemory' = usedMemory - malloced[t]
    /\ malloced' = [malloced EXCEPT ![t] = 0]
    /\ UNCHANGED <<word, contents, slots, ops, pc, op, page, reading, reserving, evicting>>

\* A caller that pinned the page writes it and sets it dirty.
WritePage(t) ==
    /\ pc[t] = "pinned" /\ op[t] = "write"
    /\ frame' = [frame EXCEPT ![page[t]] = ops]
    /\ latest' = [latest EXCEPT ![page[t]] = ops]
    /\ word' = [word EXCEPT ![page[t]] = withDirty(@, 1)]
    /\ goto(t, "unpin")
    /\ UNCHANGED <<file, slots, usedMemory, ops, op, page, reading, reserving, evicting, malloced>>

\* unpin(); the pin inside an optimistic read is followed by the unpin at
\* once, and the read starts over.
unpin(t) ==
    /\ pc[t] = "unpin" \/ (pc[t] = "pinned" /\ op[t] = "read")
    /\ word' = [word EXCEPT ![page[t]] = unlocked(@)]
    /\ IF op[t] = "write"
       THEN Return(t)
       ELSE goto(t, "load") /\ UNCHANGED <<op, page, reading, reserving>>
    /\ UNCHANGED <<contents, slots, usedMemory, ops, evicting, malloced>>

-----------------------------------------------------------------------------
(* optimisticRead: load the word, run func on the frame, load it again.    *)

OptimisticLoad(t) ==
    /\ pc[t] = "load"
    /\ LET p == page[t] IN
       \/ /\ word[p].state = "UNLOCKED"
          /\ seen' = [seen EXCEPT ![t] = word[p]]
          /\ got' = [got EXCEPT ![t] = <<>>]
          /\ evicted' = evicted \ {t}
          /\ goto(t, "func")
          /\ UNCHANGED word
       \/ /\ word[p].state = "MARKED"
          /\ word' = [word EXCEPT ![p] = withState(@, "UNLOCKED")]
          /\ UNCHANGED <<pc, reading>>
       \/ /\ word[p].state = "EVICTED"
          /\ goto(t, "pin")
          /\ UNCHANGED <<word, reading>>
    /\ UNCHANGED <<contents, slots, usedMemory, ops, op, page, reserving, evicting, malloced>>

\* func reads the frame in two steps.
RunFunc(t) ==
    /\ pc[t] = "func"
    /\ got' = [got EXCEPT ![t] = Append(@, frame[page[t]])]
    /\ goto(t, IF Len(got[t]) = 1 THEN "validate" ELSE "func")
    /\ UNCHANGED <<word, contents, slots, usedMemory, ops, op, page, seen, evicted,
                   reserving, evicting, malloced>>

Validate(t) ==
    /\ pc[t] = "validate"
    /\ IF word[page[t]] = seen[t]
       THEN Return(t)
       ELSE goto(t, "load") /\ UNCHANGED <<op, page, reading, reserving>>
    /\ UNCHANGED <<word, contents, slots, usedMemory, ops, evicting, malloced>>

-----------------------------------------------------------------------------
(* pin and claimAFrame.                                                    *)

PinCached(t) ==
    /\ pc[t] = "pin"
    /\ Lockable(page[t])
    /\ word' = [word EXCEPT ![page[t]] = withState(@, "LOCKED")]
    /\ goto(t, "pinned")
    /\ UNCHANGED <<contents, slots, usedMemory, ops, op, page, reading, reserving, evicting,
                   malloced>>

PinEvicted(t) ==
    /\ pc[t] = "pin"
    /\ word[page[t]].state = "EVICTED"
    /\ word' = [word EXCEPT ![page[t]] = withState(@, "LOCKED")]
    /\ reserve(t, 1)
    /\ goto(t, "loop")
    /\ UNCHANGED <<contents, slots, ops, op, page, reading, evicting, malloced>>

\* Mutant: the memory in use before the reservation is compared.
needMoreMemory_BeforeAdding(t) ==
    size[t] > claimed[t] /\ usedMemory - size[t] > PoolSize - claimed[t]

needMoreMemory(t) ==
    size[t] > claimed[t] /\ usedMemory > PoolSize - claimed[t]

\* reserve succeeds: the claimed memory is given back, and the buffer is
\* allocated or the page is read into its frame (cachePageIntoFrame).
Reserved(t) ==
    /\ pc[t] = "loop"
    /\ ~needMoreMemory(t)
    /\ usedMemory' = usedMemory - claimed[t]
    /\ IF op[t] = "alloc"
       THEN /\ malloced' = [malloced EXCEPT ![t] = size[t]]
            /\ Return(t)
            /\ UNCHANGED <<word, frame>>
       ELSE /\ frame' = [frame EXCEPT ![page[t]] = file[page[t]]]
            /\ word' = [word EXCEPT ![page[t]] = withDirty(@, 0)]
            /\ size' = [size EXCEPT ![t] = 0]
            /\ claimed' = [claimed EXCEPT ![t] = 0]
            /\ failed' = [failed EXCEPT ![t] = 0]
            /\ goto(t, "insert")
            /\ UNCHANGED <<op, page, reading, malloced>>
    /\ UNCHANGED <<file, latest, slots, ops, evicting>>

\* EvictionQueue::insert, one slot at a time (without spurious failures).
InsertCandidate(t) ==
    /\ pc[t] = "insert"
    /\ \E k \in Slots : queue[k] = None
    /\ insertCursor' = (insertCursor + 1) % Capacity
    /\ IF queue[insertCursor] = None
       THEN queue' = [queue EXCEPT ![insertCursor] = page[t]] /\ goto(t, "pinned")
       ELSE UNCHANGED <<queue, pc>>
    /\ UNCHANGED <<word, contents, evictionCursor, usedMemory, ops, op, page, reading,
                   reserving, evicting, malloced>>

\* "Eviction queue is full!": the page is left locked.
QueueIsFull(t) ==
    /\ pc[t] = "insert"
    /\ \A k \in Slots : queue[k] # None
    /\ Return(t)
    /\ UNCHANGED <<word, contents, slots, usedMemory, ops, evicting, malloced>>

-----------------------------------------------------------------------------
(* evictPages.                                                             *)

\* The slots of a batch; as Capacity is a multiple of BatchSize, none wraps.
batchAt(k) == [i \in 1 .. BatchSize |-> (k + i - 1) % Capacity]

\* A thread that goes through the queue and has not gone far enough.
Scanning(t) == \/ pc[t] \in {"next", "scan"} /\ scanned[t] < failureLimit
               \/ pc[t] \in {"purge", "sift", "drop"} /\ scanned[t] < Capacity

\* EvictionQueue::next: every scanning thread's distance from its start grows.
next(t) ==
    /\ evictionCursor' = (evictionCursor + BatchSize) % Capacity
    /\ batch' = [batch EXCEPT ![t] = batchAt(evictionCursor')]
    /\ scanned' = [u \in Threads |-> IF u = t \/ Scanning(u) THEN scanned[u] + BatchSize
                                     ELSE scanned[u]]
    /\ UNCHANGED <<word, contents, queue, insertCursor, usedMemory, ops, op, page, reading,
                   reserving, cands, victim, freed, malloced>>

\* The loop of evictPages.
NextBatch(t) ==
    /\ \/ pc[t] = "loop" /\ needMoreMemory(t)
       \/ pc[t] = "next" /\ Scanning(t)
    /\ next(t)
    /\ goto(t, "scan")

\* Look at one candidate: a marked page can be evicted, an unlocked one is
\* marked and gets a second chance.
ScanSlot(t) ==
    /\ pc[t] = "scan"
    /\ LET k == Head(batch[t])
           q == queue[k]
           found == IF q # None /\ word[q].state = "MARKED" THEN Append(cands[t], k) ELSE cands[t]
       IN /\ cands' = [cands EXCEPT ![t] = found]
          /\ word' = [p \in Pages |-> IF p = q /\ word[p].state = "UNLOCKED"
                                      THEN withState(word[p], "MARKED") ELSE word[p]]
          /\ goto(t, CASE Len(batch[t]) > 1 -> "scan"
                       [] Len(batch[t]) = 1 /\ found = <<>> -> "next"
                       [] OTHER -> "try")
    /\ batch' = [batch EXCEPT ![t] = Tail(@)]
    /\ UNCHANGED <<contents, slots, usedMemory, ops, op, page, reading, reserving,
                   scanned, victim, freed, malloced>>

\* tryEvictPage is done with the candidate.
NextCandidate(t) ==
    /\ cands' = [cands EXCEPT ![t] = Tail(@)]
    /\ victim' = [victim EXCEPT ![t] = None]
    /\ goto(t, "try")

\* tryEvictPage: load the slot.
LoadCandidate(t) ==
    /\ pc[t] = "try" /\ cands[t] # <<>>
    /\ LET q == queue[Head(cands[t])] IN
       IF q = None
       THEN NextCandidate(t)
       ELSE victim' = [victim EXCEPT ![t] = q] /\ goto(t, "lock") /\ UNCHANGED cands
    /\ UNCHANGED <<word, contents, slots, usedMemory, ops, op, page, reading, reserving,
                   scanned, batch, freed, malloced>>

\* Check again that the page is evictable, and tryLock.
LockVictim(t) ==
    /\ pc[t] = "lock"
    /\ IF word[victim[t]].state = "MARKED"
       THEN /\ word' = [word EXCEPT ![victim[t]] = withState(@, "LOCKED")]
            /\ goto(t, "recheck")
            /\ UNCHANGED <<cands, victim>>
       ELSE NextCandidate(t) /\ UNCHANGED word
    /\ UNCHANGED <<contents, slots, usedMemory, ops, op, page, reading, reserving,
                   scanned, batch, freed, malloced>>

\* Mutant: a dirty page is not flushed.
flushed_Never(p) == file[p]

\* flushPageIfDirtyWithoutLock: what is on disk afterwards.
flushed(p) == IF word[p].dirty = 1 THEN frame[p] ELSE file[p]

\* The slot must still hold the page: flush it if it is dirty, release the
\* frame, resetToEvicted.  Otherwise unlockUnchanged.
EvictVictim(t) ==
    /\ pc[t] = "recheck"
    /\ LET q == victim[t] IN
       IF queue[Head(cands[t])] = q
       THEN /\ file' = [file EXCEPT ![q] = flushed(q)]
            /\ frame' = [frame EXCEPT ![q] = None]
            /\ word' = [word EXCEPT ![q] = Evicted]
            /\ evicted' = evicted \cup {u \in Threads : page[u] = q}
            /\ goto(t, "clear")
            /\ UNCHANGED <<cands, victim>>
       ELSE /\ word' = [word EXCEPT ![q] = withState(@, "UNLOCKED")]
            /\ NextCandidate(t)
            /\ UNCHANGED <<file, frame, evicted>>
    /\ UNCHANGED <<latest, slots, usedMemory, ops, op, page, seen, got, reserving,
                   scanned, batch, freed, malloced>>

\* EvictionQueue::clear, after the page was unlocked: whatever is in the slot
\* is removed; an empty slot is KU_UNREACHABLE, which throws through pin and
\* leaves the page of the pin locked and its memory reserved.
ClearCandidate(t) ==
    /\ pc[t] = "clear"
    /\ LET k == Head(cands[t]) IN
       IF queue[k] # None
       THEN /\ queue' = [queue EXCEPT ![k] = None]
            /\ freed' = [freed EXCEPT ![t] = @ + 1]
            /\ NextCandidate(t)
            /\ UNCHANGED <<op, page, reading, reserving, scanned>>
       ELSE /\ Return(t)
            /\ scanned' = [scanned EXCEPT ![t] = 0]
            /\ cands' = [cands EXCEPT ![t] = <<>>]
            /\ victim' = [victim EXCEPT ![t] = None]
            /\ freed' = [freed EXCEPT ![t] = 0]
            /\ UNCHANGED queue
    /\ UNCHANGED <<word, contents, insertCursor, evictionCursor, usedMemory, ops, batch, malloced>>

\* Back in reserve: rounds without any memory make it fail.
PagesEvicted(t) ==
    /\ cands[t] = <<>>
    /\ pc[t] = "try" \/ (pc[t] = "next" /\ scanned[t] >= failureLimit)
    /\ LET stuck == freed[t] = 0 /\ needMoreMemory(t) IN
       IF stuck /\ failed[t] = Retries
       THEN /\ usedMemory' = usedMemory - (size[t] + claimed[t])
            /\ word' = [p \in Pages |-> IF p = page[t] THEN Evicted ELSE word[p]]
            /\ Return(t)
       ELSE /\ claimed' = [claimed EXCEPT ![t] = @ + freed[t]]
            /\ failed' = [failed EXCEPT ![t] = IF stuck THEN @ + 1 ELSE @]
            /\ goto(t, "loop")
            /\ UNCHANGED <<usedMemory, word, op, page, reading, size>>
    /\ freed' = [freed EXCEPT ![t] = 0]
    /\ scanned' = [scanned EXCEPT ![t] = 0]
    /\ UNCHANGED <<contents, slots, ops, batch, cands, victim, malloced>>

-----------------------------------------------------------------------------
(* A rollback drops a page that its transaction allocated                  *)
(* (OptimisticAllocator::rollback), one at a time, while other             *)
(* transactions go on; only threads that evict pages meet it.              *)

\* removePageFromFrame does nothing to a page that is evicted ...
StartRollback(t, p) ==
    LET cached == word[p].state # "EVICTED" IN
    /\ \A u \in Threads : op[u] # "rollback" /\ page[u] # p
    /\ Start(t, "rollback", None, IF cached THEN "reload" ELSE "purge")
    /\ victim' = [victim EXCEPT ![t] = IF cached THEN p ELSE None]
    /\ UNCHANGED <<usedMemory, reserving, scanned, batch, cands, freed>>

\* ... and else loads the word again, "We assume the page is not pinned (locked) here" ...
LoadRemoved(t) ==
    /\ pc[t] = "reload"
    /\ word[victim[t]].state \in {"UNLOCKED", "MARKED"} \cup Races
    /\ seen' = [seen EXCEPT ![t] = word[victim[t]]]
    /\ goto(t, "spin")
    /\ UNCHANGED <<word, contents, slots, usedMemory, ops, op, page, got, evicted, reserving,
                   evicting, malloced>>

\* ... spins until the word is what it was, and locks it ...
spinLock(t) ==
    /\ pc[t] = "spin"
    /\ word[victim[t]] = seen[t]
    /\ word' = [word EXCEPT ![victim[t]] = withState(@, "LOCKED")]
    /\ goto(t, "release")
    /\ UNCHANGED <<contents, slots, usedMemory, ops, op, page, reading, reserving, evicting,
                   malloced>>

\* What releaseFrameForPage, freeUsedMemory and resetToEvicted leave of a page
\* whose contents are no longer needed.
Released(p) ==
    /\ frame' = [frame EXCEPT ![p] = None]
    /\ latest' = [latest EXCEPT ![p] = file[p]]
    /\ usedMemory' = usedMemory - 1
    /\ word' = [word EXCEPT ![p] = Evicted]

\* ... and releases the frame.
ReleaseRemoved(t) ==
    /\ pc[t] = "release"
    /\ Released(victim[t])
    /\ evicted' = evicted \cup {u \in Threads : page[u] = victim[t]}
    /\ seen' = [seen EXCEPT ![t] = Evicted]
    /\ victim' = [victim EXCEPT ![t] = None]
    /\ goto(t, "purge")
    /\ UNCHANGED <<file, slots, ops, op, page, got, reserving, scanned, batch, cands, freed,
                   malloced>>

\* removeEvictedCandidates goes through the queue once ...
PurgeBatch(t) == pc[t] = "purge" /\ Scanning(t) /\ next(t) /\ goto(t, "sift")

Purged(t) ==
    /\ pc[t] = "purge" /\ ~Scanning(t)
    /\ Return(t)
    /\ scanned' = [scanned EXCEPT ![t] = 0]
    /\ UNCHANGED <<word, contents, slots, usedMemory, ops, batch, cands, victim, freed, malloced>>

\* It is done with a slot of the batch.
NextSlot(t) ==
    /\ batch' = [batch EXCEPT ![t] = Tail(@)]
    /\ goto(t, IF Len(batch[t]) = 1 THEN "purge" ELSE "sift")

\* ... looks for candidates whose page is evicted ...
SiftSlot(t) ==
    /\ pc[t] = "sift"
    /\ LET q == queue[Head(batch[t])] IN
       IF q # None /\ word[q].state = "EVICTED"
       THEN goto(t, "drop") /\ UNCHANGED batch
       ELSE NextSlot(t)
    /\ UNCHANGED <<word, contents, slots, usedMemory, ops, op, page, reading, reserving, scanned,
                   cands, victim, freed, malloced>>

\* ... and clears their slots, whatever they hold by then.  "This function only
\* works when run in a single-threaded context": a slot that the evicting thread
\* has cleared is KU_UNREACHABLE, and the rollback throws.
DropCandidate(t) ==
    /\ pc[t] = "drop"
    /\ LET k == Head(batch[t]) IN
       IF queue[k] # None
       THEN /\ queue' = [queue EXCEPT ![k] = None]
            /\ NextSlot(t)
            /\ UNCHANGED <<op, page, reading, reserving, scanned>>
       ELSE /\ Return(t)
            /\ batch' = [batch EXCEPT ![t] = <<>>]
            /\ scanned' = [scanned EXCEPT ![t] = 0]
            /\ UNCHANGED queue
    /\ UNCHANGED <<word, contents, insertCursor, evictionCursor, usedMemory, ops, cands, victim,
                   freed, malloced>>

-----------------------------------------------------------------------------
(* What the checkpoint does while no other thread uses the pages.          *)

Quiescent == Checkpoints /\ \A t \in Threads : pc[t] = "idle"
locals == <<pc, op, page, reading, reserving, evicting, malloced>>

\* removePageFromFrame without flushing; a locked page is one that a failed pin
\* has left so.  The candidate stays in the queue: the end of a checkpoint that
\* succeeds removes it, one that fails and rolls back leaves it there.
removePageFromFrame(p) ==
    /\ Quiescent /\ word[p].state # "EVICTED"
    /\ Released(p)
    /\ UNCHANGED <<file, slots, ops, locals>>

removeEvictedCandidates ==
    /\ Quiescent
    /\ \E k \in Slots : queue[k] # None /\ word[queue[k]].state = "EVICTED"
    /\ queue' = [k \in Slots |-> IF queue[k] # None /\ word[queue[k]].state = "EVICTED"
                                 THEN None ELSE queue[k]]
    /\ UNCHANGED <<word, contents, insertCursor, evictionCursor, usedMemory, ops, locals>>

\* A shadow page replaces the page on disk; a cached copy is updated without
\* lock or version (updateFrameIfPageIsInFrameWithoutLock).
ApplyShadowPage(p) ==
    /\ Quiescent /\ ops < MaxOps
    /\ ops' = ops + 1
    /\ file' = [file EXCEPT ![p] = ops']
    /\ latest' = [latest EXCEPT ![p] = ops']
    /\ frame' = [frame EXCEPT ![p] = IF word[p].state = "EVICTED" THEN @ ELSE ops']
    /\ UNCHANGED <<word, slots, usedMemory, locals>>

flushAllDirtyPagesInFrames ==
    /\ Quiescent
    /\ \E p \in Pages : word[p].dirty = 1
    /\ file' = [p \in Pages |-> flushed(p)]
    /\ word' = [p \in Pages |-> withDirty(word[p], 0)]
    /\ UNCHANGED <<frame, latest, slots, usedMemory, ops, locals>>

-----------------------------------------------------------------------------
ThreadStep(t) ==
    \/ WritePage(t) \/ unpin(t)
    \/ OptimisticLoad(t) \/ RunFunc(t) \/ Validate(t)
    \/ PinCached(t) \/ PinEvicted(t)
    \/ Reserved(t)
    \/ InsertCandidate(t) \/ QueueIsFull(t)
    \/ NextBatch(t) \/ ScanSlot(t)
    \/ LoadCandidate(t) \/ LockVictim(t) \/ EvictVictim(t) \/ ClearCandidate(t)
    \/ PagesEvicted(t)

RollbackStep(t) ==
    \/ LoadRemoved(t) \/ spinLock(t) \/ ReleaseRemoved(t)
    \/ PurgeBatch(t) \/ SiftSlot(t) \/ DropCandidate(t) \/ Purged(t)

Next ==
    \/ \E t \in Threads :
          \/ ThreadStep(t) \/ RollbackStep(t)
          \/ \E p \in Pages : StartRead(t, p) \/ StartRollback(t, p)
          \/ \E p \in Written : StartWrite(t, p)
          \/ \E s \in AllocSizes : StartAlloc(t, s)
          \/ FreeBuffer(t)
    \/ \E p \in Pages : removePageFromFrame(p) \/ ApplyShadowPage(p)
    \/ removeEvictedCandidates
    \/ flushAllDirtyPagesInFrames

Spec == Init /\ [][Next]_vars

-----------------------------------------------------------------------------
(* Properties.                                                             *)

Content == Nat \cup {None}

\* Every variable has its type.
TypeOK ==
    /\ word \in [Pages -> [state : {"UNLOCKED", "LOCKED", "MARKED", "EVICTED"},
                           version : Nat, dirty : {0, 1}]]
    /\ frame \in [Pages -> Content] /\ file \in [Pages -> Nat] /\ latest \in [Pages -> Nat]
    /\ queue \in [Slots -> Pages \cup {None}]
    /\ insertCursor \in Slots /\ evictionCursor \in Slots
    /\ usedMemory \in Nat /\ ops \in Nat
    /\ op \in [Threads -> {"read", "write", "alloc", "rollback", None}]
    /\ page \in [Threads -> Pages \cup {None}]
    /\ victim \in [Threads -> Pages \cup {None}]
    /\ cands \in [Threads -> Seq(Slots)]

pinning == {"loop", "next", "scan", "try", "lock", "recheck", "clear", "insert",
            "pinned", "unpin"}

\* The pages a thread has locked.
Held(t) == (IF pc[t] \in pinning /\ op[t] # "alloc" THEN {page[t]} ELSE {})
             \cup (IF pc[t] \in {"recheck", "release"} THEN {victim[t]} ELSE {})

\* A frame that is being read in, written or released belongs to one thread:
\* tryLock never lets two threads in, whether they pin, evict or roll back,
\* unless a rollback has loaded the word of a page that is locked (see Races).
FramesAreExclusive ==
    \A t \in Threads :
        /\ \A p \in Held(t) : word[p].state = "LOCKED"
        /\ \A u \in Threads \ {t} : Held(t) \cap Held(u) = {}

\* No write is lost: a page out of its frame is up to date on disk, and a page
\* that anyone may lock or read is up to date in its frame.
NoLostWrite ==
    \A p \in Pages :
        /\ word[p].state = "EVICTED" => file[p] = latest[p]
        /\ word[p].state \in {"UNLOCKED", "MARKED"} => frame[p] = latest[p]

\* "we should never actually exceed the buffer pool size": what the frames and
\* buffers occupy, however many threads reserve, evict and roll back at once,
\* unless a rollback and an evicting thread release the same frame (see Races).
MemoryIsBounded ==
    Cardinality({p \in Pages : frame[p] # None})
      + MapThenSumSet(LAMBDA t : malloced[t], Threads) <= PoolSize

\* An optimistic read that returns has read one version of the page, the
\* current one, unless the page was evicted while func ran.
ReadsAreConsistent ==
    [][\A t \in Threads : pc[t] = "validate" /\ pc'[t] = "idle" /\ t \notin evicted =>
          got[t] = <<latest[page[t]], latest[page[t]]>>]_vars
=============================================================================
