# Verification of the Kuzu/CycleJoin engine

This directory holds TLA+ models of the parts of the engine in which order,
failure and concurrency decide whether it is correct: the transaction manager,
the task scheduler, the log/checkpoint/recovery path, the buffer manager, page
allocation, multi-version storage with the catalog, and CycleJoin, the multiway
join this fork adds to Kuzu. TLC checks the models on small instances. TLAPS
proves the safety properties of the first five for every size of the system.

Paths below are relative to the `src/` directory of the repository.

## The system

| Part | State | Operations | What makes it hard |
|---|---|---|---|
| Connections and transaction manager (`transaction/`, `main/client_context.cpp`) | active transactions, clock, two mutexes; per connection a mode and a transaction pointer | begin, commit, rollback, checkpoint, statements in three phases, closing | commits that throw, checkpoints that wait or fail after the commit they belong to, statements that fail in any phase |
| Task scheduler (`common/task_system/`, `processor/processor_task.cpp`, `function/gds/gds_utils.cpp`) | task queue, thread counts and exception of each task, threads | schedule and wait, register, run, deregister and finalize, launch a thread, stop | late workers, lost wake-ups, nested tasks, one of several threads failing |
| Log, shadow file, checkpoint, recovery (`storage/wal/`, `storage/shadow_file.cpp`, `storage/checkpointer.cpp`) | log file and its writer, shadow file, data file, each with a synced part | commit, checkpoint, close, open with recovery | crash, power failure or I/O error between any two file operations, also during recovery |
| Buffer manager (`storage/buffer_manager/`) | a state word per page, frames, eviction queue, memory counter | pin, unpin, optimistic read, evict, reserve, allocate and free buffers, drop the pages of a rollback, checkpoint-time maintenance | lock-free protocols, second chances, several threads evicting at once |
| Pages and free space (`storage/page_manager.cpp`, `storage/free_space_manager.cpp`, `storage/optimistic_allocator.cpp`) | number of pages, free ranges, freed ranges, ranges allocated ahead of a commit | allocate, free, commit, rollback, serialize, merge, truncate | pages freed before and reused after a checkpoint, checkpoints that fail, crashes |
| Multi-version storage (`storage/table/`, `storage/undo_buffer.cpp`), local tables, catalog (`catalog/catalog_set.cpp`) | node groups with version and update information, undo buffers, catalog chains | insert, bulk load, delete, update, create, drop, alter, rename, commit, rollback, checkpoint, reads | readers beside a commit that goes record by record, rolled back appends |
| CycleJoin build, shared scan, hash table (`processor/operator/intersect/`, `scan/shared_scan_rel_table.cpp`, `hash_join/`) | cached vectors and hash table per thread, shared hash table | scan a batch, cache it, dump a key, merge, link | keys spread over several batches, two-edge paths, several threads |
| CycleJoin probe (`intersect_multiway.cpp`) | neighbour lists, cursors, cached result vectors, output vectors | probe, sort, intersect, loop over the product | results larger than a vector, repeated neighbours, lists longer than a vector |

The parts interact as follows. A connection runs each phase of a statement in a
transaction of the manager, and the execution phase hands its pipelines to the
task scheduler. A committing transaction stamps its versions and writes the log
under the manager's lock. The manager runs checkpoints when no transaction is
active, which is why the log and page models need only one process. CycleJoin is
a pair of operators in pipelines; the scheduler's dependency order guarantees
that the hash tables are complete when the probe starts.

## Modules

| Module | Models | Proofs |
|---|---|---|
| `TransactionManager` | transaction manager and connections | `TransactionManagerProofs` |
| `TaskScheduler` | task scheduler | `TaskSchedulerProofs` |
| `Durability` implements `DurableStore` | log, shadow file, checkpoint, recovery | `DurabilityProofs` |
| `BufferManager` | buffer manager | `BufferManagerSteps`, `BufferManagerLocks`, `BufferManagerProofs`, `BufferManagerMemory` |
| `PageManager` | page and free space management | `PageManagerProofs` |
| `VersionedStore` (with `NodeGroups`, `CatalogSet`) implements `SnapshotStore` | multi-version storage, local tables, catalog | |
| `CycleJoin` (with `IntersectMultiwayBuild`, `IntersectMultiway`) | CycleJoin | |

Modules named `MC...` are instances for TLC.

### TransactionManager

One action is one critical section, or one step between two of them, of a
connection's thread.

| Variables | Code |
|---|---|
| `pubLock`, `startLock` | `mtxForSerializingPublicFunctionCalls`, `mtxForStartingNewTransactions` |
| `lastTransactionID`, `lastTimestamp`, `activeTransactions` | members of `TransactionManager` |
| `mode`, `txn` | `TransactionContext::mode`, `activeTransaction` |
| `stmt`, `phase`, `isNew`, `pc` | the statement, the `runFuncInTransaction` call it is in, `requireNewTransaction`, the thread's place |
| `committed` and the field `seen` of a transaction | history, for `SnapshotIsStable` |

`Submit`, `Enter`, `FunReturns`, `FunThrows` and `FunTransactionStatement` are
the phases of `ClientContext::query`. `LockPublic`, `beginTransaction`,
`CommitReadOnly`, `CommitWrite`, `CommitThrows` and `Rollback` are the manager's
functions. `StopNewTransactions`, `AllTransactionsLeft`, `WaitTimesOut`,
`CheckpointWritten` and `CheckpointFails` are `checkpointNoLock`. The model is a
build with runtime checks (a failing `KU_ASSERT` throws) on an on-disk database;
whether a commit triggers a checkpoint is a free choice. Recovery transactions,
the `prepare()` interface and rollbacks that throw are left out.

A BEGIN that fails leaves its connection in MANUAL mode without a transaction
(`transaction/transaction_context.cpp:26`), and the next statement fails the
`KU_ASSERT` at `main/client_context.cpp:647`. The model has this behaviour.

### TaskScheduler

A call of `scheduleTaskAndWaitOrError` is identified with its task, a launched
thread with the task it is launched for. `reg`, `fin` and `exc` are the fields of
`Task`; `call` and `tpc` say where calls and threads are. `schedLock` appears
only where the code holds `taskSchedulerMtx` across two steps of the model.
After `scheduleTaskAndWaitOrError` returns, a successful task can stay in the
queue until the next worker drops it (`OnlySuccessfulTasksLinger`).
`TerminationAssumption` says what the planner does: only CREATE TABLE terminates
a query early, and it is a direct dependency of the root. Destroying the
scheduler while queries run is left out.

### Durability and DurableStore

`DurableStore` is the promise of a durable database: it is open or not, it
contains a sequence of committed transactions, and when it is opened after a
stop it contains what was committed, plus possibly the one commit that was under
way. Bulk loads (COPY FROM) are the exception: their rows are not logged, and
`TransactionManager::commit` makes them visible before the checkpoint that saves
them. The store keeps `durable` beside `committed`: what a restart brings back,
in which a bulk load is missing until everything is saved.

`Durability` is the implementation, one action per file operation or sync. A
file is abstracted to the sequence of transactions it contains. `wal`, `data`
and `shadow` are the files as the operating system has them; `walSynced` and
`dataDisk` are what a power failure cannot take away. `ImplementsDurableStore`
is the refinement, with `isOpen` mapped to the statements of an open database
and `committed` to `mem`. `BulkLoads` are the transactions that consist of a
COPY: replaying one restores nothing (`Restored`), and its commit goes on to the
checkpoint it forces, which may fail or time out (`CheckpointTimesOut`) and
leaves the load committed and not saved. Logged writes in the same transaction as
a COPY are not told apart from it.

Faults are named, and a configuration chooses which ones happen:

| Fault | Tolerated | Otherwise |
|---|---|---|
| `crash`: the process dies between two statements | yes | |
| `power`: unsynced writes may be lost | yes | |
| `ioUnlogged`: a checkpoint fails before its CHECKPOINT record is in the log | yes | |
| `crashWhileRemoving`: a crash between recovery's two file removals | no | the database cannot be opened again |
| `powerAfterReplay`: power fails after recovery copied pages that it never syncs | no | old and new pages are mixed in the data file |
| `ioLogged`: a checkpoint fails after its record is in the log | no | commits acknowledged later are lost |
| `ioCommit`: writing or syncing a commit fails | no | commits acknowledged later are lost behind torn records; the failed commit can reappear |

Not modelled: read-only opening, failing truncates or removals of the shadow
file, undoing a failed commit in memory, and the in-memory state after a
half-finished checkpoint. Removing and truncating files is assumed to be ordered
with later syncs, as on a journaling file system.

### BufferManager

Atomics are touched one at a time; a load and the compare-and-exchange it feeds
are one step, because a failed exchange only loads again.

| Variables | Code |
|---|---|
| `word` | `PageState::stateAndVersion`: state, version, dirty bit |
| `frame`, `file`, `latest` | contents of a page in its frame and on disk; history: what it was given last |
| `queue`, `insertCursor`, `evictionCursor` | `EvictionQueue` |
| `usedMemory` | `BufferManager::usedMemory` |
| `pc`, `op`, `page` and the other functions of a thread | locals of `pin`, `optimisticRead`, `reserve`, `evictPages`, `tryEvictPage` |
| `malloced` | the thread's buffer of `MemoryManager` |

`func` reads a frame in two steps, so that a write in between is visible.
`removePageFromFrame`, `removeEvictedCandidates`, `ApplyShadowPage` and
`flushAllDirtyPagesInFrames` are what a checkpoint does while no thread uses the
pages.

A rollback drops the pages its transaction allocated while other threads go on,
so for it the same two functions are sequences of steps. `StartRollback`,
`LoadRemoved`, `spinLock` and `ReleaseRemoved` are `removePageFromFrame`: a first
load looks for EVICTED pages, of which nothing has to be released; a second load
is what `spinLock` exchanges for LOCKED, whatever state it shows. `PurgeBatch`, `SiftSlot` and
`DropCandidate` are `removeEvictedCandidates`, slot by slot. A rollback drops one
page, which only its own transaction used, and one rollback runs at a time, under
the public lock of the transaction manager; never beside a checkpoint.

The comment at `buffer_manager.cpp:483` assumes that the page is not pinned or
locked. The code does not ensure it: at the second load an evicting thread may
hold the page, or have evicted it since the first. `Races` says which of these
states, LOCKED and EVICTED, the second load may find in a configuration. With `{"LOCKED"}` TLC finds `FramesAreExclusive` violated:
rollback and evictor both release the frame. With `{"EVICTED"}` it finds
`MemoryIsBounded` violated: both give the memory of the frame back. With `{}`, as
in the run and the theorems, the second load finds the page neither locked nor
evicted. An evictor that takes the page after the second load is in the model in
any case: `spinLock` then waits for a word that may never come back, and the code
spins for ever with the public lock held.

When a thread finds the slot of a page it evicted empty,
`EvictionQueue::clear` throws: its page stays locked and its memory reserved, as
in the code. Left out: the spiller, in-memory databases, and the lag of the
queue's `size` counter.

An optimistic read may return although the page was evicted and read in again
meanwhile: `resetToEvicted` stores version 0, so the word can come back
(`ReadsAreConsistent` excludes evicted pages for this reason).

### PageManager

A page range is a record `[start, num]`. `freeLists`, `uncheckpointed` and
`optimistic` are the ranges of `FreeSpaceManager` and `OptimisticAllocator`,
`chunks` the ranges the tables own, `disk` what the last logged checkpoint says.
The free lists by level are abstracted to one set; `getLevel`, `searched`,
`candidates` and `found` are the code's search in it. `phase` follows
`Checkpointer::writeCheckpoint`. The merge loop of `mergePageRanges` is one
action per entry (`finalizeCheckpoint`, `mergeEntry`, `handleLastPageRange`),
with `prev` and `rest` for `prevEntry` and the entries behind it. Failing
checkpoints, rollbacks and crashes are actions.

### VersionedStore, NodeGroups, CatalogSet and SnapshotStore

`NodeGroups` holds the data structures of a node table and the operations on
them as operators: `VectorVersionInfo` and `VersionInfo` (who inserted and
deleted rows), `UpdateInfo` (version chains of updated values),
`ChunkedNodeGroup`, `NodeGroup` and `NodeGroupCollection`. `CatalogSet` does the
same for the version chains of the catalog. `VersionedStore` has the state: the
groups, the catalog, and per client a transaction with its undo buffer and local
rows. Commit and rollback take one undo record per step, with readers in
between. One writer at a time, as `SingleWriter` of `TransactionManager` shows
for the default configuration.

`SnapshotStore` is the promise: a transaction sees the database as it was when
it began and its own writes; a commit takes effect at once, a rollback not at
all. `ImplementsSnapshotStore` maps each row and each name to what a transaction
reads.

Appends may throw (memory and I/O can run out at any chunk or flush):
`AppendThrows`, `FlushThrows` and `CommitThrows` leave every prefix of chunks
that the code can leave behind, and the rows that were counted before. The
statement is then rolled back as in the code.

Four steps of the code lead outside its own assumptions. They are named in
`UnsoundSteps`, and a configuration allows them or not: appending to a chunk
that keeps the values of rolled back rows (`appendToCut`), appending to a group
whose reserved rows were never given back (`appendUnreserved`), and rolling back
an append to a group whose older rows were deleted and checkpointed
(`rollbackInEmptied`), and appending while the table counts rows of an append
that threw (`appendOvercounted`). The passing run excludes them; two runs show what the
first two do.

A delete or an update of a row is one step; the code changes the version
information in several assignments outside the lock of the chunks.

Left out: ALTER of columns, several columns, serialization, relationship tables,
sequences and functions in the catalog.

### CycleJoin, IntersectMultiwayBuild and IntersectMultiway

`IntersectMultiwayBuild` builds the hash table of one left node with several
threads: `SharedScan` is `SharedScanRelTable` with batches of any size,
`HashJoinContinues` the probes of two-edge paths, `CacheTuple` and `Dumped` the
operator itself, `Merge` `FactorizedTable::merge`, `Lookup` the chains of
`JoinHashTable` as a probe follows them.

`IntersectMultiway` is the probe, run by one thread. `ChooseNode` picks the next
right node and sorts its blocks in place; `ForwardCursors` and `MatchTarget` are
one turn each of the intersection loop; `gotoNext` and `LoopFinished` are the
loop over the cached vectors. Where the code moves cursors one by one, the model
states where they end up. The first cached vector shares its state with the
output vector in the code; `selSize` is that shared size. `emitted` counts the
returned combinations (history).

`CycleJoin` composes the two: the table of `BuiltNode` is built, the tables of
the other left nodes are taken as built in the same way.

All nodes are in one node table: the code sorts by offset only and compares by
table and offset. Several threads sort the blocks of shared hash tables in place
without a lock; this race is not modelled.

## Runs

Passing runs:

| Run | Instance | What it shows |
|---|---|---|
| `transaction_manager` | 2 connections, 3 statements in all, single writer, fair | A checkpoint is written only while no transaction is active; contexts and active transactions point to each other; automatic transactions end with their statement; snapshots never change; one writer; every statement ends |
| `task_scheduler` | 2 workers; a join with its build, a graph algorithm with a nested task; fair | No thread works on a task whose call is over; `finalize()` runs once, last; no exception is lost; dependencies are complete before a task starts; every query ends |
| `durability` | 2 pages, 4 transactions, the second a bulk load, 3 checkpoints, 3 crashes, 2 I/O errors, the tolerated faults | The refinement of `DurableStore`; log and data file stay consistent; a database that is down comes up |
| `durability_all_faults` | 2 pages, 3 transactions, 2 checkpoints, 3 crashes, 2 I/O errors, all faults, no runtime checks | Whatever happened before, a checkpoint that completes leaves the contents of the open database on disk |
| `buffer_manager` | 2 threads, 2 pages, a pool of 1 page, 4 operations, rollbacks (`Races = {}`), checkpoints | Frames belong to one thread; no write is lost; the pool is not exceeded; optimistic reads see one version |
| `page_manager` | ranges of 1 and 2 pages, a file of up to 6 pages | No page has two owners or is reused while a crash would need it; a logged checkpoint is complete; no range reaches behind the file; the search finds the best fit |
| `versioned_store` | 2 clients, 3 transactions of up to 2 writes, vectors of 2 and groups of 4 rows | The refinement of `SnapshotStore`; ended transactions leave no version behind; appended rows are found where the index is told, with their values |
| `cycle_join` | 2 build threads, 2 keys, 3 left and 2 right nodes, vectors of 2, 2 probe tuples | The hash table holds every neighbour list exactly once and in order; nothing outside the join is returned; the whole join is, when the lists are in order and at most one right node overflows a vector |

Runs whose property, taken from a comment, an assertion or a test, does not hold
of the code:

| Run | Statement | What happens |
|---|---|---|
| `crash_while_removing_files` | `storage/checkpointer.cpp:183`: a CHECKPOINT record means the shadow pages are there | Recovery removes the shadow file before the log |
| `rolled_back_copy_shifts_values` | `test/test_files/transaction/copy/copy_node.test:13`: a failed COPY reverts all of its insertions and the second one succeeds | The column keeps the rolled back values; the rows of the next batch read them |
| `rolled_back_copy_loses_rows` | the same, and the `KU_ASSERT` at `storage/table/node_group.cpp:275` | The rows a rolled back batch reserved are not given back; the next COPY opens a new group and its rows are not where the index is told. A commit of local rows in this situation loops forever |
| `truncated_cartesian_product` | `intersect_multiway.h:181`: the operator outputs the Cartesian product of the intersections | With two right nodes that overflow a vector, the first vector comes back with the size of the last one: 14 of 16 tuples |

### Bounds

- `transaction_manager`: two connections meet every pair of critical sections;
  three statements allow BEGIN and a statement on one beside a checkpoint or a
  writer on the other, and two statements after one that failed.
- `task_scheduler`: two workers and two threads per task give a task with a late
  and a last thread; the four tasks contain a dependency and a nested task, which
  two threads can join.
- `durability`: two pages are enough for a mixed data file. Three crashes allow
  one in normal operation, one during the recovery from it and one during the
  next.
- `buffer_manager`: a pool of one page makes every pin evict; two threads then
  evict, pin and read the same page at the same time. Four operations let one
  page be written, evicted, written again and read, or a rollback run beside a
  pin and an eviction. A reservation gives up after one round that finds nothing
  (`Retries = 0`, 2 in the code): a further round repeats the same steps and
  triples the states. The theorems hold for every number of rounds.
- `page_manager`: six pages hold a header, two chunks, catalog and metadata of a
  checkpoint, and a free page; ranges of one and two pages split and merge.
- `versioned_store`: a group of two vectors and a first chunk on disk have every
  boundary of `findChunkedGroupIdxFromRowIdx`; three transactions are a writer, a
  reader beside it and one that begins after the commit or rollback.
- `cycle_join`: vectors of two identifiers make lists and results of several
  vectors small; two probe tuples show state left over from the previous one.

### Fairness

- `TransactionManager`: each connection that is inside a statement goes on; no
  connection has to submit a statement. Weak fairness is enough because the
  statements are bounded: with an unbounded stream of them a mutex that is not
  fair could starve a connection. The wait of a checkpoint is bounded by
  its timeout, so its end is a step of the connection.
- `TaskScheduler`: every call and every thread that can take a step takes it.
  Nothing makes `run()` throw, and spurious wake-ups are possible but not
  promised. `run()` is assumed to end.
- `Durability`: an open that was started runs its recovery; crashes are bounded.

The other specifications are about safety and assume no fairness.

## Proofs

The theorems hold for every value of the constants that the named assumptions of
a module allow, including the bounds on operations, which the proofs never use.

| Module | Theorem | Property |
|---|---|---|
| `TransactionManagerProofs` | `TypeCorrect` | `TypeOK` |
| | `CheckpointIsExclusive` | `CheckpointRunsAlone` |
| | `PointersAreValid` | `NoDanglingTransaction` |
| | `TransactionsAreOwned` | `NoLeakedTransaction` |
| | `AutoTransactionsEnd` | `AutoStatementsCloseTheirTransaction` |
| | `SnapshotsAreStable` | `SnapshotIsStable` |
| | `OneWriter` | `SingleWriter` |
| `TaskSchedulerProofs` | `TypeCorrect` | `TypeOK` |
| | `TasksAreReleased` | `NoThreadWorksAfterReturn` |
| | `FinalizedOnce` | `FinalizedOnceByLast` |
| | `NoExceptionIsLost` | `ReturnMeansSuccess` |
| | `DependenciesFirst` | `DependenciesComplete` |
| | `QueueIsClean` | `OnlySuccessfulTasksLinger` |
| `DurabilityProofs` | `LogIsWellFormed` | `NothingFollowsTheStop` |
| | `CheckpointCanBeRedone` | `CheckpointRecordMeansShadowPages` |
| | `DataFileCanBeRead` | `DataFileIsWhole` |
| | `Refinement` | `ImplementsDurableStore` |
| | `CheckpointsHeal` | `CompletedCheckpointHeals` |
| `BufferManagerProofs` | `FramesExclusive` | `FramesAreExclusive` |
| | `WritesAreKept` | `NoLostWrite` |
| | `ReadsConsistent` | `ReadsAreConsistent` (an action property) |
| `BufferManagerMemory` | `MemoryBounded` | `MemoryIsBounded` |
| | `MemoryCovered`, `TypeCorrect` | `MemoryInv`, `TypeOK` (no run checks them) |
| `PageManagerProofs` | `OneOwner` | `PagesHaveOneOwner` |
| | `DurablePages` | `DurablePagesAreNotReused` |
| | `CompleteCheckpoint` | `CheckpointIsComplete` |
| | `ChunksAreLogged` | `RecoveryFindsChunks` |
| | `PagesExist` | `TrackedPagesExist` |
| | `BestFitAlways` | `PopsBestFit` |
| | `MergeAssertion` | the `KU_ASSERT` of `mergePageRanges` (no run checks it) |

In every module the argument has the same shape. `IInv` is an inductive
invariant that implies the properties. One lemma per action, or per group of
actions that change the same things, shows that the action preserves it;
`NextIInv` combines them, `Invariance` is the temporal step, and the theorems
follow. None of the properties above is inductive by itself, apart from types.

### TransactionManagerProofs

Assumption: `None` is no connection, `EnableMultiWrites` is a Boolean,
`MaxStatements` a number. `IInv` adds to the properties:

- `LockInv`: who may hold the public lock where. Without it a transaction could
  begin while a checkpoint is written, because the start lock is released before
  the writing begins.
- `OwnerInv`: contexts and active transactions correspond one to one, except
  that a pointer dangles while its own thread checkpoints after the commit.
- `AutoInv`: from which phase to which phase an automatic transaction is open.
- `StatementInv`: a CHECKPOINT statement has no transaction of its own while it
  checkpoints, so forgetting the pointer leaks nothing.
- `SnapshotInv`: no commit timestamp and no snapshot is ahead of the clock.
- `CheckpointInv`: nothing is active while a checkpoint is written.

### TaskSchedulerProofs

Assumptions: finitely many workers and tasks, every task admits at least one
thread, and `TerminationAssumption` (see above). `IInv` consists of:

- `ThreadInv`, `CountInv`: `numThreadsRegistered` is `numThreadsFinished` plus
  the number of threads working on the task. Everything rests on this: "the last
  thread" is a fact about counters, the properties are about threads.
- `FreshInv`, `QueueInv`, `CallInv`: nothing has happened to a task before it is
  pushed; a task of the queue is waited for or completed; what a call knows when
  it stops waiting.
- `OutcomeInv`: `finalize()` belongs to the completion of the task, and an
  exception is with the task or with a thread that has yet to deregister. The
  second half is why no exception is lost.
- `DepInv`: the dependencies that a call has passed have returned.

### DurabilityProofs

Assumption: a finite, nonempty set of pages. All theorems but `CheckpointsHeal`
also assume `FaultsAreTolerated`, that is, the first three faults of the table
above; with the others the properties do not hold. `IInv` consists of:

- `LogInv`: what each statement leaves in the log; at most the last record is
  not synced.
- `CheckpointInv`: a logged checkpoint can be redone from the shadow file until
  its pages are in the data file and on disk.
- `DataInv`: while no checkpoint is logged and synced, data file and log together
  hold what is committed.
- `CountInv`: transactions are numbered in the order of their commits.

`Refinement` shows step by step that an action is an action of `DurableStore` or
changes nothing of it. The reading of the log by recovery is proved from facts
about the first CHECKPOINT record and the first torn transaction.
`CheckpointsHeal` holds under all faults and has an invariant of its own,
`HealInv`: from the sync of the shadow pages on, each statement of a checkpoint
finds what the ones before it did, whatever state the checkpoint began in.

### BufferManagerSteps, BufferManagerLocks, BufferManagerProofs

Assumptions: the constants are numbers of the right sign, threads and pages are
finite, `None` is no page and no content. The theorems have the hypothesis
`Races = {}` (see above), without which they do not hold. `BufferManagerSteps` has
the invariant and the steps of callers, `BufferManagerLocks` those of eviction,
`BufferManagerProofs` those of checkpoints and the theorems. `IInv` consists of:

- `Types`: also which operation can be where with a page.
- `LockInv`: a page that a thread pins or evicts is locked, by one thread and for
  one of the two purposes.
- `DataInv`: where the contents of a page are, in each of its states. A page left
  locked by a failed pin is up to date on disk or in its frame.
- `ReadInv`, `FuncInv`: while the word an optimistic reader saw is unchanged and
  the page was not evicted, what it has read is current. This needs the versions:
  a word with a larger version never comes back without an eviction.

### BufferManagerMemory

That frames and buffers fit into the pool is not a consequence of
`usedMemory <= PoolSize`, which does not hold: `reserve` adds first and looks
afterwards, and a thread that evicts counts what it freed in a local variable.
`MemoryInv` therefore follows each unit of memory:

- `Occupied` are the pages in frames, and those a failed pin has left locked.
- `Kept` is what a thread has at its disposal: its buffer, what it claimed and
  freed by evicting, and the page whose candidate it has not cleared yet.
- `Asked` is that and what it is reserving.
- `CoverInv`: occupied pages and `Asked` of all threads are at most `usedMemory`.
- `PoolInv`: occupied pages and `Kept` of all threads are at most `PoolSize`.

`CoverInv` is needed for `PoolInv`: when a reservation succeeds, `usedMemory` is
within the pool, so by `CoverInv` there is room for what was asked. TLC checked
`MemoryInv` on the instance of the `buffer_manager` run, and on a pool of two
pages with buffers of one and two, before it was proved. `TypeCorrect` includes
that `usedMemory`, from which the code subtracts, never becomes negative.

The sums are `MapThenSumSet` over the threads. What it computes is proved without
an induction theorem: if a fact about sums failed for some set of threads, there
would be a smallest one (`SmallestSet`), and the sum over it is one thread's
share more than the sum over a smaller set.

### PageManagerProofs

Assumption: the sizes of requests and the size of the file are positive. `IInv`
consists of:

- `Spread`, `Bounds`, `Owners`: ranges are the same or disjoint, end within the
  file, and have one owner.
- `DiskInv`: what a crash would reopen is in order by itself, and is not touched
  by what is free now.
- `PhaseInv`, `LogInv`: what holds at each point of a checkpoint and what is about
  to be logged.
- `CleanInv`: while no flag says that something changed, the last checkpoint has
  the chunks of the tables. A checkpoint that finds nothing to write relies on it.
- `Coverage`: while nothing has failed, no page is forgotten.
- `MergeInv`: the entries still to be merged start behind `prevEntry`.

### Only model-checked

- Liveness: `StatementsEnd`, `QueriesEnd`, `ComesUp`. The prover does not handle
  fairness.
- `VersionedStore` and its refinement. Its operators fold over rows, vectors,
  chunks and undo records; what they compute for every input needs an induction
  over data for each of them, with an operator as a parameter.
- `CycleJoin`. The properties compare what nested loops return with a set defined
  by folds and flattened sequences, for the same reason.

## Where the code and its documentation disagree

Besides the runs above, the following came up while reading the code for the
models. They are not runs of their own.

- `storage/checkpointer.cpp:189` and `storage/wal/wal_replayer.cpp:109`: a
  checkpoint that fails after its CHECKPOINT record was written leaves the record
  in the log; commits that are logged behind it are not replayed (fault
  `ioLogged`).
- `include/transaction/transaction_manager.h:72-74` says that commits and
  rollbacks are let in while a checkpoint waits for transactions to leave. The
  wait holds the lock they need, so they are not and the wait times out.
- `common/task_system/task_scheduler.cpp:80-83` says that errored tasks are
  interrupted. `common/task_system/task.cpp:25-28` lets running threads finish.
- `storage/buffer_manager/buffer_manager.cpp:432` says that the evicting thread
  has exclusive access to the candidate. It clears the slot after `resetToEvicted`
  has unlocked the page, when others may use page and slot again.
- `storage/buffer_manager/buffer_manager.cpp:483` assumes that a page to be removed
  is not locked; in a rollback it can be (`Races`).
- `include/storage/buffer_manager/buffer_manager.h:224` says that
  `removeEvictedCandidates` is used by one thread. A rollback runs it beside
  others, where a slot may be cleared by someone else and `EvictionQueue::clear`
  throws.
- `main/client_context.cpp:576` forces a checkpoint for each COPY. When it fails,
  the COPY is reported as failed but is committed, and gone after a restart.
- `needMoreMemory` compares with `PoolSize - claimed` although `usedMemory` still
  contains what is claimed; a reservation can fail with room left.
- `resetToEvicted` stores version 0, so an optimistic reader can accept what it
  read from a frame that was released and read in again.
- `transaction/transaction.cpp:63` commits the undo buffer before it writes the
  log. When the log throws, the rollback meets stamped records and keeps updates.
- `storage/undo_buffer.cpp:317`: rolling back the newest entry of an update chain
  leaves the `next` pointer of the entry below on it; `update_info.cpp:122`
  follows such pointers.
- `catalog/catalog_set.cpp:75`: the undo record is pushed after the chain was
  changed; if pushing throws, the change stays.
- With `enableMultiWrites`, updates of rows are not snapshot isolated,
  `dropEntryNoLock` has no write-write check, and the rollback of the catalog
  takes no lock.
- Two two-edge paths that begin at one left node are hash joins on top of each
  other: the upper one returns its neighbours again for every further tuple of the
  lower one, and the lists contain duplicates. `NoRepeatedProbe` of
  `IntersectMultiwayBuild` excludes such builds from `TableHoldsLists`.
- The planner of CycleJoin makes one edge of parallel relationships between two
  nodes, applies a WHERE predicate over several parts in none of them, and orders
  candidates by a comparison that is not an ordering.

## Not modelled

`PROJECT.json` lists every component with its status.

- The CycleJoin planner: sequential search on query graphs, whose results are
  plans. A model would repeat the enumeration.
- Threads that sort shared blocks in the CycleJoin probe: the outcomes of
  `std::sort` on data that changes are not bounded by the source.
- Hash index, relationship tables with their CSR groups, compression, column
  storage: sequential data structures whose concurrency is that of the buffer
  manager and of multi-version storage.
- Parser, binder, optimizer, the other operators, expressions, client interfaces:
  sequential code on values or wrappers, where a model adds little over tests.
