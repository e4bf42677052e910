----------------------------- MODULE Durability -----------------------------
(***************************************************************************)
(* How a database file survives crashes: the write-ahead log (storage/wal),*)
(* the shadow file, the checkpointer and the recovery that opens a         *)
(* database.                                                               *)
(*                                                                         *)
(* A transaction is one number; what a file holds is the sequence of       *)
(* transactions whose effects it contains.  A checkpoint rewrites Pages,   *)
(* one page at a time, and the data file can be read only when all of them *)
(* come from the same checkpoint.  Commits and checkpoints are serialised  *)
(* by the transaction manager (see TransactionManager), so the open        *)
(* database is one process: pc is the statement it is about to execute.    *)
(*                                                                         *)
(* The rows of a COPY, a bulk load, are not in the log: its commit forces  *)
(* a checkpoint, and replaying its records brings nothing back.            *)
(*                                                                         *)
(* The environment injects the faults in Faults:                           *)
(*   crash              the process dies between two statements            *)
(*   crashWhileRemoving it dies between recovery's two file removals       *)
(*   power              power fails: unsynced writes may be lost           *)
(*   powerAfterReplay   ... also while recovery's page writes are unsynced *)
(*   ioUnlogged         a checkpoint fails while the log does not hold its *)
(*                      CHECKPOINT record                                  *)
(*   ioLogged           a checkpoint fails while the log, or the log's     *)
(*                      writer, holds it                                   *)
(*   ioCommit           writing or syncing a commit to the log fails       *)
(* Removing or truncating a file is ordered with later syncs, as on a      *)
(* journaling file system.                                                 *)
(***************************************************************************)
EXTENDS Naturals, Sequences, FiniteSets

CONSTANTS Pages,            \* the pages that checkpoints rewrite
          BulkLoads,        \* the transactions whose rows a COPY FROM wrote
          MaxTransactions,  \* bound: commits attempted
          MaxCheckpoints,   \* bound: checkpoints started
          MaxCrashes,       \* bound: crashes and power failures
          MaxFailures,      \* bound: I/O errors
          Faults,           \* the faults that may happen
          RuntimeChecks,    \* KU_ASSERT throws (KUZU_RUNTIME_CHECKS builds)
          Absent,           \* a file that does not exist
          Corrupt           \* contents that are not a database's

FaultKinds == {"crash", "crashWhileRemoving", "power", "powerAfterReplay",
               "ioUnlogged", "ioLogged", "ioCommit"}

Transactions == 1..MaxTransactions
None == 0
\* What may stand for a transaction in a file: itself, or nothing.
Effects == Transactions \cup {None}

CommitRecord(t) == [type |-> "COMMIT", txn |-> t]
Checkpoint == [type |-> "CHECKPOINT", txn |-> 0]
\* The records of a transaction cut off in the middle.
Torn == [type |-> "TORN", txn |-> 0]

Records == {CommitRecord(t) : t \in Transactions} \cup {Checkpoint, Torn}

ASSUME DurabilityAssumption ==
    /\ Pages # {} /\ IsFiniteSet(Pages)
    /\ {MaxTransactions, MaxCheckpoints, MaxCrashes, MaxFailures} \subseteq Nat
    /\ Faults \subseteq FaultKinds
    /\ RuntimeChecks \in BOOLEAN
    /\ Absent # Corrupt
    /\ BulkLoads \subseteq Transactions
    /\ {Absent, Corrupt} \cap (Seq(Effects) \cup Seq(Records)) = {}

VARIABLES pc,          \* what the database does next; "down" when not open
          mem,         \* what the open database contains; while it is down,
                       \* what it contained when it stopped
          durable,     \* history: as much of mem as a restart brings back
          committing,  \* the transaction being committed; while the database is
                       \* down, the one being committed when it stopped
          wal,         \* the log file as the operating system has it
          walSynced,   \* how many of its records are on disk
          buffer,      \* records left in the log's BufferedFileWriter
          shadow,      \* the shadow file: Absent, Corrupt (partly written) or
                       \* the contents its pages bring
          data,        \* the data file's pages as the operating system has them
          dataDisk,    \* and as they are on disk
          replayedUnsynced, \* recovery wrote pages that were never synced
          count        \* how many transactions, checkpoints, crashes, failures

vars == <<pc, mem, durable, committing, wal, walSynced, buffer, shadow, data, dataDisk,
          replayedUnsynced, count>>

database == <<mem, durable, committing>>
log == <<wal, walSynced, buffer>>
dataFile == <<data, dataDisk, replayedUnsynced>>

OpenPCs == {"idle", "commitSync", "force", "flush", "flushSync", "log",
            "logSync", "apply", "dataSync", "clearWAL", "clearShadow",
            "resetWAL", "resetShadow"}
RecoveryPCs == {"replay", "replayShadow", "removeShadow", "removeWAL",
                "replayRecords"}
PCs == OpenPCs \cup RecoveryPCs \cup {"down", "openFailed"}

-----------------------------------------------------------------------------
(* What the files say.                                                     *)

\* Reading the data file (readCheckpoint): its pages must belong together.
readCheckpoint(d) ==
    LET p == CHOOSE p \in Pages : TRUE
    IN  IF \A q \in Pages : d[q] = d[p] THEN d[p] ELSE Corrupt

\* The scan that decides how to recover.  It stops at the first CHECKPOINT
\* record or at records it cannot read.  A CHECKPOINT record with records
\* after it trips an assertion, which the scan takes for an unreadable record.
dryReplay(w) ==
    LET stops == {i \in 1..Len(w) : w[i].type # "COMMIT"}
        stop  == IF stops = {} THEN Len(w) + 1
                 ELSE CHOOSE i \in stops : \A j \in stops : i <= j
    IN  [offset |-> stop - 1,
         isLastRecordCheckpoint |->
            /\ stop <= Len(w)
            /\ w[stop].type = "CHECKPOINT"
            /\ RuntimeChecks => stop = Len(w)]

\* What replaying a transaction brings back: replayCopyTableRecord does nothing.
Restored(t) == IF t \in BulkLoads THEN None ELSE t

\* The data file's contents with the log's first n records replayed on top.
Replayed(d, w, n) ==
    LET base == readCheckpoint(d)
    IN  IF base = Corrupt THEN Corrupt
        ELSE base \o [i \in 1..n |-> Restored(w[i].txn)]

-----------------------------------------------------------------------------
Init ==
    /\ pc = "down"
    /\ mem = <<>> /\ durable = <<>> /\ committing = None
    /\ wal = Absent /\ walSynced = 0 /\ buffer = <<>>
    /\ shadow = Absent
    /\ data = [p \in Pages |-> <<>>] /\ dataDisk = data
    /\ replayedUnsynced = FALSE
    /\ count = [transactions |-> 0, checkpoints |-> 0, crashes |-> 0, failures |-> 0]

LogRecords == IF wal = Absent THEN <<>> ELSE wal

-----------------------------------------------------------------------------
(* Committing a transaction: Transaction::commit, WAL::logCommittedWAL.    *)

\* The transaction's records follow whatever the writer still buffers into
\* the file.
logCommittedWAL ==
    /\ pc = "idle"
    /\ count.transactions < MaxTransactions
    /\ count' = [count EXCEPT !.transactions = @ + 1]
    /\ committing' = count.transactions + 1
    /\ wal' = LogRecords \o buffer \o <<CommitRecord(committing')>>
    /\ buffer' = <<>>
    /\ pc' = "commitSync"
    /\ UNCHANGED <<mem, durable, walSynced, shadow, dataFile>>

\* The commit is done; a COPY goes on to force a checkpoint.
Committed ==
    /\ mem' = Append(mem, committing)
    /\ durable' = Append(durable, Restored(committing))
    /\ committing' = None
    /\ pc' = IF committing \in BulkLoads THEN "force" ELSE "idle"

\* Mutant: the log is not synced.
CommitWithoutSync ==
    /\ pc = "commitSync"
    /\ Committed
    /\ UNCHANGED <<log, shadow, dataFile, count>>

\* The sync returns: the transaction is committed.
CommitSync ==
    /\ pc = "commitSync"
    /\ walSynced' = Len(wal)
    /\ Committed
    /\ UNCHANGED <<wal, buffer, shadow, dataFile, count>>

\* The sync fails: the transaction is rolled back, its records stay.
CommitSyncFails ==
    /\ pc = "commitSync"
    /\ "ioCommit" \in Faults /\ count.failures < MaxFailures
    /\ count' = [count EXCEPT !.failures = @ + 1]
    /\ committing' = None
    /\ pc' = "idle"
    /\ UNCHANGED <<mem, durable, log, shadow, dataFile>>

\* A write of the flush fails and the transaction is rolled back.  The writer
\* keeps the bytes it could not write: all of a small transaction, one buffer's
\* worth of a large one, whose earlier buffers may be in the file.
CommitWriteFails ==
    /\ pc = "idle"
    /\ "ioCommit" \in Faults /\ count.failures < MaxFailures
    /\ count.transactions < MaxTransactions
    /\ count' = [count EXCEPT !.transactions = @ + 1, !.failures = @ + 1]
    /\ \/ /\ buffer' = Append(buffer, CommitRecord(count.transactions + 1))
          /\ wal' = LogRecords
       \/ /\ buffer' = Append(buffer, Torn)
          /\ wal' = LogRecords
       \/ /\ buffer' = <<Torn>>
          /\ wal' = LogRecords \o buffer \o <<Torn>>
    /\ UNCHANGED <<pc, database, walSynced, shadow, dataFile>>

-----------------------------------------------------------------------------
(* A checkpoint: Checkpointer::writeCheckpoint, statement by statement.    *)

\* Tables, catalog, metadata and header are written to shadow pages in memory;
\* the first of them creates the shadow file.  A user asks for the checkpoint, the
\* log has grown long, or a COPY forces it.
BuildShadowPages ==
    /\ pc \in {"idle", "force"}
    /\ count.checkpoints < MaxCheckpoints
    /\ count' = [count EXCEPT !.checkpoints = @ + 1]
    /\ shadow' = IF shadow = Absent THEN Corrupt ELSE shadow
    /\ pc' = "flush"
    /\ UNCHANGED <<database, log, dataFile>>

\* Mutant: the shadow file is not synced.
flushAllWithoutSync ==
    /\ pc = "flush"
    /\ shadow' = Corrupt
    /\ pc' = "log"
    /\ UNCHANGED <<database, log, dataFile, count>>

\* ShadowFile::flushAll: header, pages and records go to the file ...
flushAll ==
    /\ pc = "flush"
    /\ shadow' = Corrupt
    /\ pc' = "flushSync"
    /\ UNCHANGED <<database, log, dataFile, count>>

\* ... and then to disk.
FlushSync ==
    /\ pc = "flushSync"
    /\ shadow' = mem
    /\ pc' = "log"
    /\ UNCHANGED <<database, log, dataFile, count>>

logAndFlushCheckpoint ==
    /\ pc = "log"
    /\ wal' = LogRecords \o buffer \o <<Checkpoint>>
    /\ buffer' = <<>>
    /\ pc' = "logSync"
    /\ UNCHANGED <<database, walSynced, shadow, dataFile, count>>

\* The checkpoint cannot be lost any more, nor what it holds.
LogSync ==
    /\ pc = "logSync"
    /\ walSynced' = Len(wal)
    /\ durable' = mem
    /\ pc' = "apply"
    /\ UNCHANGED <<mem, committing, wal, buffer, shadow, dataFile, count>>

\* ShadowFile::applyShadowPages: one page after the other ...
applyShadowPages ==
    /\ pc = "apply"
    /\ \E p \in Pages : data[p] # shadow /\ data' = [data EXCEPT ![p] = shadow]
    /\ UNCHANGED <<pc, database, log, shadow, dataDisk, replayedUnsynced, count>>

PagesApplied ==
    /\ pc = "apply"
    /\ \A p \in Pages : data[p] = shadow
    /\ pc' = "dataSync"
    /\ UNCHANGED <<database, log, shadow, dataFile, count>>

\* Mutant: the data file is not synced.
NoDataSync ==
    /\ pc = "dataSync"
    /\ pc' = "clearWAL"
    /\ UNCHANGED <<database, log, shadow, dataFile, count>>

\* ... and a sync at the end.
DataSync ==
    /\ pc = "dataSync"
    /\ dataDisk' = data
    /\ replayedUnsynced' = FALSE
    /\ pc' = "clearWAL"
    /\ UNCHANGED <<database, log, shadow, data, count>>

\* WAL::clear truncates the log and empties the writer.
ClearWAL ==
    /\ pc = "clearWAL"
    /\ wal' = <<>> /\ walSynced' = 0 /\ buffer' = <<>>
    /\ pc' = "clearShadow"
    /\ UNCHANGED <<database, shadow, dataFile, count>>

\* ShadowFile::clear truncates the shadow file.
ClearShadow ==
    /\ pc = "clearShadow"
    /\ shadow' = Corrupt
    /\ pc' = "resetWAL"
    /\ UNCHANGED <<database, log, dataFile, count>>

ResetWAL ==
    /\ pc = "resetWAL"
    /\ wal' = Absent /\ walSynced' = 0
    /\ pc' = "resetShadow"
    /\ UNCHANGED <<database, buffer, shadow, dataFile, count>>

ResetShadow ==
    /\ pc = "resetShadow"
    /\ shadow' = Absent
    /\ pc' = "idle"
    /\ UNCHANGED <<database, log, dataFile, count>>

\* A statement of the checkpoint throws and the checkpoint is rolled back,
\* which touches neither the log nor the shadow file; the database stays open.
\* When it is the write of the CHECKPOINT record that fails, the record stays
\* in the writer's buffer.
CheckpointFails ==
    /\ count.failures < MaxFailures
    /\ count' = [count EXCEPT !.failures = @ + 1]
    /\ \/ /\ pc \in {"flush", "flushSync", "resetWAL"}
          /\ "ioUnlogged" \in Faults
          /\ UNCHANGED buffer
       \/ /\ pc = "log"
          /\ "ioLogged" \in Faults
          /\ buffer' = Append(buffer, Checkpoint)
       \/ /\ pc \in {"logSync", "apply", "dataSync", "clearWAL"}
          /\ "ioLogged" \in Faults
          /\ UNCHANGED buffer
    /\ pc' = "idle"
    /\ UNCHANGED <<database, wal, walSynced, shadow, dataFile>>

\* The checkpoint that a COPY forces gives up waiting for other transactions to
\* leave.  The COPY is reported as failed, but is committed.
CheckpointTimesOut ==
    /\ pc = "force"
    /\ pc' = "idle"
    /\ UNCHANGED <<database, log, shadow, dataFile, count>>

-----------------------------------------------------------------------------
(* Opening the database: StorageManager::recover, WALReplayer::replay.     *)

Open ==
    /\ pc = "down"
    /\ pc' = "replay"
    /\ UNCHANGED <<database, log, shadow, dataFile, count>>

\* Recovery ends: with a database, or with an error when the data file cannot
\* be read.
OpenWith(contents) ==
    IF contents = Corrupt
    THEN pc' = "openFailed" /\ UNCHANGED database
    ELSE pc' = "idle" /\ mem' = contents /\ durable' = contents /\ committing' = None

\* Mutant: an empty log is not told from one with records, and cannot be read.
ReplayEmptyLogThrows ==
    /\ pc = "replay"
    /\ wal \in {Absent, <<>>}
    /\ shadow' = Absent
    /\ IF wal = Absent THEN OpenWith(readCheckpoint(data))
                       ELSE pc' = "openFailed" /\ UNCHANGED database
    /\ UNCHANGED <<log, dataFile, count>>

\* No log, or an empty one: the data file is all there is.
ReplayWithoutLog ==
    /\ pc = "replay"
    /\ wal \in {Absent, <<>>}
    /\ shadow' = Absent
    /\ wal' = Absent
    /\ OpenWith(readCheckpoint(data))
    /\ UNCHANGED <<walSynced, buffer, dataFile, count>>

\* Otherwise the log is synced and scanned: either the checkpoint is redone
\* from the shadow file, or the log is replayed on the data file.
Replay ==
    /\ pc = "replay"
    /\ wal \notin {Absent, <<>>}
    /\ walSynced' = Len(wal)
    /\ IF dryReplay(wal).isLastRecordCheckpoint
       THEN /\ pc' = IF shadow = Absent THEN "openFailed" ELSE "replayShadow"
            /\ durable' = mem
            /\ UNCHANGED shadow
       ELSE /\ pc' = "replayRecords"
            /\ shadow' = Absent
            /\ UNCHANGED durable
    /\ UNCHANGED <<mem, committing, wal, buffer, dataFile, count>>

\* ShadowFile::replayShadowPageRecords: the pages are written, not synced.
replayShadowPageRecords ==
    /\ pc = "replayShadow"
    /\ \E p \in Pages : data[p] # shadow /\ data' = [data EXCEPT ![p] = shadow]
    /\ UNCHANGED <<pc, database, log, shadow, dataDisk, replayedUnsynced, count>>

ShadowPagesReplayed ==
    /\ pc = "replayShadow"
    /\ \A p \in Pages : data[p] = shadow
    /\ replayedUnsynced' = (dataDisk # data)
    /\ pc' = "removeShadow"
    /\ UNCHANGED <<database, log, shadow, data, dataDisk, count>>

\* removeWALAndShadowFiles
RemoveShadow ==
    /\ pc = "removeShadow"
    /\ shadow' = Absent
    /\ pc' = "removeWAL"
    /\ UNCHANGED <<database, log, dataFile, count>>

RemoveWAL ==
    /\ pc = "removeWAL"
    /\ wal' = Absent /\ walSynced' = 0
    /\ OpenWith(readCheckpoint(data))
    /\ UNCHANGED <<buffer, shadow, dataFile, count>>

\* Mutant: the log is not cut off behind the last commit.
ReplayRecordsWithoutTruncation ==
    /\ pc = "replayRecords"
    /\ OpenWith(Replayed(data, wal, dryReplay(wal).offset))
    /\ UNCHANGED <<log, shadow, dataFile, count>>

\* The committed records are replayed and the log is cut off behind them.
ReplayRecords ==
    /\ pc = "replayRecords"
    /\ LET offset == dryReplay(wal).offset
       IN  /\ OpenWith(Replayed(data, wal, offset))
           /\ wal' = SubSeq(wal, 1, offset)
           /\ walSynced' = offset
    /\ UNCHANGED <<buffer, shadow, dataFile, count>>

\* The error of a failed recovery reaches the user, who may try again.
GiveUp ==
    /\ pc = "openFailed"
    /\ pc' = "down"
    /\ UNCHANGED <<database, log, shadow, dataFile, count>>

-----------------------------------------------------------------------------
(* Stopping.                                                               *)

\* Closing destroys the log's writer, which flushes what it still buffers.
Close ==
    /\ pc = "idle"
    /\ wal' = IF buffer = <<>> THEN wal ELSE LogRecords \o buffer
    /\ buffer' = <<>>
    /\ pc' = "down"
    /\ UNCHANGED <<database, walSynced, shadow, dataFile, count>>

MayStop ==
    /\ count.crashes < MaxCrashes
    /\ pc = "removeWAL" => "crashWhileRemoving" \in Faults

\* The process dies; the operating system still has all it wrote.
Crash ==
    /\ "crash" \in Faults /\ MayStop
    /\ pc \notin {"down", "openFailed"}
    /\ count' = [count EXCEPT !.crashes = @ + 1]
    /\ pc' = "down"
    /\ buffer' = <<>>
    /\ UNCHANGED <<database, wal, walSynced, shadow, dataFile>>

\* What is left of a log whose first `synced` records are on disk.
Remains(w, synced) ==
    {SubSeq(w, 1, n) : n \in synced..Len(w)}
      \cup {Append(SubSeq(w, 1, n), Torn) : n \in synced..(Len(w) - 1)}

\* Power fails: of the writes that were not synced any may be lost.
PowerFails ==
    /\ "power" \in Faults /\ MayStop
    /\ replayedUnsynced => "powerAfterReplay" \in Faults
    /\ count' = [count EXCEPT !.crashes = @ + 1]
    /\ pc' = "down"
    /\ buffer' = <<>>
    /\ IF wal = Absent THEN wal' = Absent ELSE wal' \in Remains(wal, walSynced)
    /\ walSynced' = IF wal' = Absent THEN 0 ELSE Len(wal')
    /\ \E kept \in SUBSET Pages :
          dataDisk' = [p \in Pages |-> IF p \in kept THEN data[p] ELSE dataDisk[p]]
    /\ data' = dataDisk'
    /\ replayedUnsynced' = FALSE
    /\ UNCHANGED <<database, shadow>>

-----------------------------------------------------------------------------
Commit == logCommittedWAL \/ CommitSync \/ CommitSyncFails \/ CommitWriteFails

writeCheckpoint ==
    \/ BuildShadowPages \/ flushAll \/ FlushSync \/ logAndFlushCheckpoint
    \/ LogSync \/ applyShadowPages \/ PagesApplied \/ DataSync \/ ClearWAL
    \/ ClearShadow \/ ResetWAL \/ ResetShadow

Recover ==
    \/ Open \/ ReplayWithoutLog \/ Replay \/ replayShadowPageRecords
    \/ ShadowPagesReplayed \/ RemoveShadow \/ RemoveWAL \/ ReplayRecords

Next ==
    \/ Commit \/ writeCheckpoint \/ CheckpointFails \/ CheckpointTimesOut
    \/ Recover \/ GiveUp \/ Close \/ Crash \/ PowerFails

Spec == Init /\ [][Next]_vars

\* Whoever opens a database runs its recovery to the end.
FairSpec == Spec /\ WF_vars(Recover)

-----------------------------------------------------------------------------
(* Properties.                                                             *)

\* Every variable has its type: no operation of commit, checkpoint or recovery
\* claims more synced records than the log has.
TypeOK ==
    /\ pc \in PCs
    /\ mem \in Seq(Effects) /\ durable \in Seq(Effects)
    /\ committing \in Transactions \cup {None}
    /\ wal \in {Absent} \cup Seq(Records)
    /\ walSynced \in 0..Len(LogRecords)
    /\ buffer \in Seq(Records)
    /\ shadow \in {Absent, Corrupt} \cup Seq(Effects)
    /\ \A p \in Pages : {data[p], dataDisk[p]} \subseteq {Corrupt} \cup Seq(Effects)
    /\ replayedUnsynced \in BOOLEAN
    /\ count \in [transactions : 0..MaxTransactions, checkpoints : 0..MaxCheckpoints,
                  crashes : 0..MaxCrashes, failures : 0..MaxFailures]

\* checkpointer.cpp: a logged CHECKPOINT record "indicates that all shadow
\* pages ... have been written to disk", so a database that is down and whose
\* log asks for the checkpoint to be redone has a complete shadow file.
CheckpointRecordMeansShadowPages ==
    pc = "down" /\ dryReplay(LogRecords).isLastRecordCheckpoint
      => shadow \notin {Absent, Corrupt}

\* dryReplay stops at a CHECKPOINT record, behind which it asserts the end of
\* the log, and at records it cannot read, which "should only happen for
\* records of the last transaction recorded": nothing follows either.
NothingFollowsTheStop ==
    \A i \in 1..Len(LogRecords) : LogRecords[i].type # "COMMIT" => i = Len(LogRecords)

\* Whenever the log does not ask for the checkpoint to be redone, the pages of
\* the data file on disk belong together: applyShadowPages and
\* replayShadowPageRecords finish before the CHECKPOINT record goes.
DataFileIsWhole ==
    pc = "down" /\ ~dryReplay(LogRecords).isLastRecordCheckpoint
      => readCheckpoint(data) # Corrupt

\* A checkpoint that completes leaves, in the data file alone and on disk,
\* exactly what the open database contains, whatever checkpoints, commits or
\* recoveries failed before it and whatever they left in the log, in its writer
\* and in the shadow file.  A COPY returns when the checkpoint it forced completes,
\* so its rows are saved then.
CompletedCheckpointHeals ==
    pc = "resetShadow" =>
      /\ wal = Absent /\ buffer = <<>>
      /\ \A p \in Pages : data[p] = mem /\ dataDisk[p] = mem
      /\ durable = mem /\ ~replayedUnsynced

Store == INSTANCE DurableStore WITH isOpen <- pc \in OpenPCs, committed <- mem

\* Log, shadow file, checkpointer and recovery together keep the promise of
\* DurableStore: every commit, and nothing else but the commit that was under
\* way, is there after any crash, except for bulk loads that no checkpoint has
\* saved: the rows of a COPY whose forced checkpoint failed or timed out.
ImplementsDurableStore == Store!Spec

\* A database that is down comes up when it is opened often enough.
ComesUp == pc = "down" ~> pc = "idle"

=============================================================================
