--------------------------- MODULE VersionedStore ---------------------------
(***************************************************************************)
(* Transactions on a node table and on the catalog: their writes put       *)
(* uncommitted versions into shared structures and records into an undo    *)
(* buffer; commit and rollback go through the records one by one while     *)
(* readers keep reading.  The public lock of the transaction manager is    *)
(* held from the first to the last record, so no transaction begins or     *)
(* ends meanwhile (LockIsFree).                                            *)
(*                                                                         *)
(* Rows are named by their offsets.  Primary keys, the index, the log and  *)
(* the pages are not part of this module.                                  *)
(*                                                                         *)
(* An append may throw (it may run out of memory, or fail to write): the   *)
(* statement or the commit fails and the transaction is rolled back.       *)
(***************************************************************************)
EXTENDS NodeGroups, CatalogSet

CONSTANTS
    Clients, Names,
    RowValues,            \* the values of the column
    TableValues,          \* what a catalog entry may say
    InitialRows,          \* numbers of checkpointed rows the table may start with
    BatchSizes,           \* numbers of rows a bulk load appends at once
    MaxSize, MaxTransactions, MaxLocalRows,     \* bounds
    MaxRecords,           \* bound on the writes of each transaction
    Unsound               \* the steps of UnsoundSteps that are allowed

(***************************************************************************)
(* Four steps of the code that lead outside its own assumptions:           *)
(*  - appendToCut: appending to, or checkpointing, a chunk whose column    *)
(*    kept the values of rolled back rows;                                 *)
(*  - appendUnreserved: appending when rolled back rows used up the rows   *)
(*    that the last node group has to give, though it is not full;         *)
(*  - rollbackInEmptied: rolling back an append to a node group all of     *)
(*    whose older rows were deleted and checkpointed;                      *)
(*  - appendOvercounted: appending when the table still counts the rows of  *)
(*    an append that threw, which its rollback did not take back.          *)
(***************************************************************************)
UnsoundSteps == {"appendToCut", "appendUnreserved", "rollbackInEmptied", "appendOvercounted"}

ASSUME StoreAssumption ==
    /\ Unsound \subseteq UnsoundSteps
    /\ NoValue \notin RowValues \cup TableValues
    /\ INVALID_TRANSACTION > START_TRANSACTION_ID + MaxTransactions
    /\ START_TRANSACTION_ID > MaxTransactions
    /\ MaxLocalRows <= VectorCapacity
    /\ \A n \in InitialRows : n <= NodeGroupSize

VARIABLES
    lastTimestamp, lastTransactionID,
    txn,                  \* per client: its transaction
    nodeGroups, numTotalRows,
    entries,              \* the map of the catalog set
    thrown                \* history: numTotalRows counts these rows of appends that threw

vars == <<lastTimestamp, lastTransactionID, txn, nodeGroups, numTotalRows, entries, thrown>>

\* No local table has been created.
NoLocalTable == -1

NoTransaction ==
    [status |-> "none", write |-> FALSE, id |-> 0, startTS |-> 0, commitTS |-> 0,
     undo |-> <<>>, next |-> 0, local |-> <<>>, localStart |-> NoLocalTable,
     flushing |-> {}]

CheckpointedGroup(n, val) ==
    [numRows |-> n, nextRowToAppend |-> n,
     chunks |-> <<[NewChunkedGroup(0) EXCEPT !.onDisk = TRUE, !.numRows = n,
                                             !.data = [i \in 1 .. n |-> val]]>>]

Init ==
    /\ lastTimestamp = 1 /\ lastTransactionID = START_TRANSACTION_ID
    /\ txn = [c \in Clients |-> NoTransaction]
    /\ \E n \in InitialRows, val \in RowValues :
        /\ nodeGroups = IF n = 0 THEN <<>> ELSE <<CheckpointedGroup(n, val)>>
        /\ numTotalRows = n
    /\ entries = [name \in Names |-> <<>>]
    /\ thrown = 0

LockIsFree ==
    \A c \in Clients : txn[c].status \notin {"committing", "rollingBack", "hung"}

IsWriter(c) == txn[c].status # "none" /\ txn[c].write
IsWriting(c) == txn[c].status = "active" /\ txn[c].write /\ txn[c].flushing = {}

\* The rows, the local rows and the versions of catalog entries may not be more
\* than MaxSize.
HasRoom(numRows, catalog) ==
    numRows + MapThenSumSet(LAMBDA name : Len(catalog[name]), Names) <= MaxSize

\* Room for n more writes of the transaction.
CanLog(c, n) ==
    Len(txn[c].undo) + Len(txn[c].local) + n
        <= MaxRecords[txn[c].id - START_TRANSACTION_ID]

Log(c, records) == txn' = [txn EXCEPT ![c].undo = @ \o records]

(***************************************************************************)
(* Rows of a transaction: the ones in its local table, which holds what it *)
(* inserted, and the stored ones it sees.                                  *)
(***************************************************************************)
isUnCommitted(t, offset) == t.localStart # NoLocalTable /\ offset >= t.localStart

LocalRow(t, offset) == offset - t.localStart + 1

\* The value the transaction reads at an offset, if there is a row for it.
RowSeen(t, offset) ==
    IF ~isUnCommitted(t, offset) THEN lookupOffset(nodeGroups, t, offset)
    ELSE {row.val : row \in {t.local[i] : i \in
            {j \in {LocalRow(t, offset)} \cap DOMAIN t.local : ~t.local[j].deleted}}}

ChunkAt(at) == nodeGroups[at.group].chunks[at.chunk]

OnChunk(at, chunk) == nodeGroups' = [nodeGroups EXCEPT ![at.group].chunks[at.chunk] = chunk]

(***************************************************************************)
(* Beginning and reading.                                                  *)
(***************************************************************************)
beginTransaction(c, write) ==
    /\ LockIsFree /\ txn[c].status = "none"
    /\ lastTransactionID < START_TRANSACTION_ID + MaxTransactions
    /\ write => \A d \in Clients : ~IsWriter(d)
    /\ lastTransactionID' = lastTransactionID + 1
    /\ txn' = [txn EXCEPT ![c] = [NoTransaction EXCEPT !.status = "active",
            !.write = write, !.id = lastTransactionID', !.startTS = lastTimestamp]]
    /\ UNCHANGED <<lastTimestamp, nodeGroups, numTotalRows, entries, thrown>>

\* Commit and rollback of a read-only transaction do the same.
EndReader(c) ==
    /\ LockIsFree /\ txn[c].status = "active" /\ ~txn[c].write
    /\ txn' = [txn EXCEPT ![c] = NoTransaction]
    /\ UNCHANGED <<lastTimestamp, lastTransactionID, nodeGroups, numTotalRows, entries, thrown>>

(***************************************************************************)
(* Writing rows.                                                           *)
(***************************************************************************)
\* The offset is the one the row will have after the commit.
LocalInsert(c, val) ==
    LET start == IF txn[c].localStart = NoLocalTable THEN numTotalRows
                 ELSE txn[c].localStart
    IN  /\ IsWriting(c) /\ CanLog(c, 1)
        /\ Len(txn[c].local) < MaxLocalRows
        /\ HasRoom(start + Len(txn[c].local) + 1, entries)
        /\ txn' = [txn EXCEPT ![c].localStart = start,
                       ![c].local = Append(@, [val |-> val, deleted |-> FALSE])]
        /\ UNCHANGED <<lastTimestamp, lastTransactionID, nodeGroups, numTotalRows, entries, thrown>>

\* The record of rows appended to the last group remembers their values, and the
\* offset given to the index (history, for the properties below).
InsertRecord(groups, offset, vals) ==
    [type |-> "INSERT_INFO", group |-> Len(groups), startRow |-> Last(groups).numRows,
     numRows |-> Len(vals), offset |-> offset, vals |-> vals]

IsFlushing(group) == \E c \in Clients : \E f \in txn[c].flushing : f.group = group

\* The column of a chunk that was cut has less room than the chunk has rows;
\* an assertion stops an append beyond it.
SoundAppend(size) ==
    /\ thrown # 0 => "appendOvercounted" \in Unsound
    /\ nodeGroups # <<>> =>
        LET ng == Last(nodeGroups)
        IN  /\ ng.chunks # <<>> /\ IsCut(Last(ng.chunks)) =>
                /\ "appendToCut" \in Unsound
                /\ Len(Last(ng.chunks).data) + size <= VectorCapacity
            /\ getNumRowsLeftToAppend(ng) = 0 /\ ~isFull(ng) /\ ~IsFlushing(Len(nodeGroups)) =>
                "appendUnreserved" \in Unsound

\* A worker of a COPY appends one batch; it bypasses the local table.  The rows
\* are reserved, logged and counted before they are copied.  A batch for a whole
\* group is flushed after the lock of the groups is released.  When one worker
\* threw, others may still append before they are interrupted.
appendToLastNodeGroupAndFlushWhenFull(c, size, val) ==
    LET groups == ForCopy(nodeGroups)
        left == getNumRowsLeftToAppend(Last(groups))
        vals == [i \in 1 .. Min({size, left}) |-> val]
        flush == Len(vals) = left /\ Last(groups).numRows = 0
        ng == Reserve(Last(groups), Len(vals))
        record == InsertRecord(groups, numTotalRows, vals)
        logged == [txn[c] EXCEPT !.undo = Append(@, record)]
    IN  /\ txn[c].write /\ CanLog(c, 1) /\ txn[c].localStart = NoLocalTable
        /\ txn[c].status \in {"active", "interrupted"}
        /\ txn[c].status = "active" => SoundAppend(size)
        /\ HasRoom(numTotalRows + Len(vals), entries)
        /\ numTotalRows' = numTotalRows + Len(vals)
        /\ \/ /\ ~flush
              /\ nodeGroups' = WithLast(groups, append(ng, txn[c].id, vals))
              /\ txn' = [txn EXCEPT ![c] = logged]
              /\ UNCHANGED thrown
           \/ /\ flush
              /\ nodeGroups' = WithLast(groups, ng)
              /\ txn' = [txn EXCEPT ![c] = [logged EXCEPT !.flushing = @ \cup {record}]]
              /\ UNCHANGED thrown
           \/ /\ ~flush
              /\ \E after \in AppendThrows(ng, txn[c].id, vals) :
                    nodeGroups' = WithLast(groups, after)
              /\ txn' = [txn EXCEPT ![c] = [logged EXCEPT !.status = "interrupted"]]
              /\ thrown' = thrown + Len(vals)
        /\ UNCHANGED <<lastTimestamp, lastTransactionID, entries>>

\* The flushed group is merged into its node group.
EndFlush(c, record) ==
    /\ nodeGroups' = [nodeGroups EXCEPT ![record.group] =
            flushAsNewChunkedNodeGroup(@, txn[c].id, record.vals)]
    /\ txn' = [txn EXCEPT ![c].flushing = @ \ {record}]
    /\ UNCHANGED <<lastTimestamp, lastTransactionID, numTotalRows, entries, thrown>>

FlushThrows(c, record) ==
    /\ txn' = [txn EXCEPT ![c].flushing = @ \ {record}, ![c].status = "interrupted"]
    /\ thrown' = thrown + record.numRows
    /\ UNCHANGED <<lastTimestamp, lastTransactionID, nodeGroups, numTotalRows, entries>>

\* A statement may come across a row again after it deleted it.
MayDelete(t, offset) ==
    \/ RowSeen(t, offset) # {}
    \/ \E i \in DOMAIN t.undo : /\ t.undo[i].type = "DELETE_INFO"
                                /\ t.undo[i].group = GroupOf(offset)
                                /\ t.undo[i].startRow = RowInGroup(offset)

DeleteRecord(offset) ==
    [type |-> "DELETE_INFO", group |-> GroupOf(offset), startRow |-> RowInGroup(offset),
     numRows |-> 1]

\* The code changes the version information, here and in update, after it has
\* released the lock under which readers look at it; the change is one step here.
delete_(c, offset) ==
    /\ IsWriting(c) /\ MayDelete(txn[c], offset)
    /\ IF isUnCommitted(txn[c], offset)
       THEN /\ txn' = [txn EXCEPT ![c].local[LocalRow(txn[c], offset)].deleted = TRUE]
            /\ UNCHANGED nodeGroups
       ELSE \E at \in Find(nodeGroups, offset) :
            /\ CanLog(c, 1) /\ CanDelete(ChunkAt(at), txn[c].id, at.row)
            /\ OnChunk(at, chunkDelete(ChunkAt(at), txn[c].id, at.row))
            /\ Log(c, <<DeleteRecord(offset)>>)
    /\ UNCHANGED <<lastTimestamp, lastTransactionID, numTotalRows, entries, thrown>>

\* Local rows are overwritten in place.  A write-write conflict, which needs a
\* second writer, would throw.  Here and in AlterTable the new value is another one.
update(c, offset, val) ==
    /\ IsWriting(c) /\ RowSeen(txn[c], offset) \notin {{}, {val}}
    /\ IF isUnCommitted(txn[c], offset)
       THEN /\ txn' = [txn EXCEPT ![c].local[LocalRow(txn[c], offset)].val = val]
            /\ UNCHANGED nodeGroups
       ELSE \E at \in Find(nodeGroups, offset) :
            /\ CanLog(c, 1)
            /\ CanUpdate(Chain(ChunkAt(at), at.row), txn[c], RowInVector(at.row))
            /\ OnChunk(at, chunkUpdate(ChunkAt(at), txn[c], at.row, val))
            /\ Log(c, <<[type |-> "UPDATE_INFO", group |-> at.group,
                         chunk |-> at.chunk, vector |-> VectorOf(at.row)]>>)
    /\ UNCHANGED <<lastTimestamp, lastTransactionID, numTotalRows, entries, thrown>>

(***************************************************************************)
(* Writing the catalog.                                                    *)
(***************************************************************************)
ChangeCatalog(c, changed, names) ==
    /\ CanLog(c, Len(names)) /\ HasRoom(numTotalRows + Len(txn[c].local), changed)
    /\ entries' = changed
    /\ Log(c, [i \in DOMAIN names |-> CatalogRecord(changed, names[i])])
    /\ UNCHANGED <<lastTimestamp, lastTransactionID, nodeGroups, numTotalRows, thrown>>

CreateTable(c, name, value) ==
    /\ IsWriting(c) /\ CanCreate(entries, txn[c], name)
    /\ ChangeCatalog(c, createEntry(entries, txn[c], name, value), <<name>>)

DropTable(c, name) ==
    /\ IsWriting(c) /\ containsEntry(entries, txn[c], name)
    /\ ChangeCatalog(c, dropEntry(entries, txn[c], name), <<name>>)

AlterTable(c, name, value) ==
    /\ IsWriting(c) /\ getEntry(entries, txn[c], name) \notin {NoValue, value}
    /\ ChangeCatalog(c, alterTableEntry(entries, txn[c], name, value), <<name>>)

\* The binder has checked that the new name is free.
RenameTable(c, name, newName) ==
    /\ IsWriting(c) /\ containsEntry(entries, txn[c], name)
    /\ CanCreate(entries, txn[c], newName)
    /\ ChangeCatalog(c, renameTableEntry(entries, txn[c], name, newName),
                     <<name, newName>>)

(***************************************************************************)
(* Commit: the local rows are appended, then one record after the other    *)
(* gets the commit timestamp.                                              *)
(***************************************************************************)
\* What is known before the first batch of the local rows is appended.
BeforeAppend(c) ==
    [groups |-> nodeGroups, vals |-> [i \in DOMAIN txn[c].local |-> txn[c].local[i].val],
     total |-> numTotalRows, records |-> <<>>]

\* The rows of the next batch.
NextBatch(s) ==
    SubSeq(s.vals, 1, Min({Len(s.vals), getNumRowsLeftToAppend(Last(ForCommit(s.groups)))}))

\* One batch of the local rows that are left; the last group becomes ng.
Batch(s, ng) ==
    LET groups == ForCommit(s.groups)
        vals == NextBatch(s)
    IN  [groups |-> WithLast(groups, ng),
         vals |-> SubSeq(s.vals, Len(vals) + 1, Len(s.vals)), total |-> s.total + Len(vals),
         records |-> Append(s.records, InsertRecord(groups, s.total, vals))]

ReservedForBatch(s) == Reserve(Last(ForCommit(s.groups)), Len(NextBatch(s)))

CommitBatch(c, s) ==
    IF s.vals = <<>> THEN s
    ELSE Batch(s, append(ReservedForBatch(s), txn[c].id, NextBatch(s)))

\* Two batches are enough: MaxLocalRows fit into a new node group.  If rows are
\* left then, the last group has none to give and is not full, and the loop
\* goes on forever.
AppendLocal(c) == CommitBatch(c, CommitBatch(c, BeforeAppend(c)))

\* How far the appends may have come when one of them throws.
AppendLocalThrows(c) ==
    UNION {{Batch(s, ng) : ng \in AppendThrows(ReservedForBatch(s), txn[c].id, NextBatch(s))}
              : s \in {b \in {BeforeAppend(c), CommitBatch(c, BeforeAppend(c))} : b.vals # <<>>}}

\* Rows deleted in the local table are appended, too, and then deleted.
LocallyDeleted(c) ==
    {numTotalRows + i - 1 : i \in {j \in DOMAIN txn[c].local : txn[c].local[j].deleted}}

deleteInGroups(groups, id, offset) ==
    LET at == CHOOSE place \in Find(groups, offset) : TRUE
    IN  [groups EXCEPT ![at.group].chunks[at.chunk] = chunkDelete(@, id, at.row)]

\* The commit may fail when the local rows enter the index.
StartCommit(c, ok) ==
    LET appended == AppendLocal(c)
        deleted == SetToSortSeq(LocallyDeleted(c), <)
        done == appended.vals = <<>>
    IN  /\ LockIsFree /\ IsWriting(c)
        /\ txn[c].local = <<>> => ok
        /\ txn[c].local # <<>> => SoundAppend(Len(txn[c].local))
        /\ ~done => "appendUnreserved" \in Unsound
        /\ lastTimestamp' = lastTimestamp + 1
        /\ nodeGroups' = IF ~done THEN appended.groups
                         ELSE FoldLeft(LAMBDA g, o : deleteInGroups(g, txn[c].id, o),
                                       appended.groups, deleted)
        /\ numTotalRows' = appended.total
        /\ txn' = [txn EXCEPT
                ![c].status = IF ~done THEN "hung" ELSE IF ok THEN "committing" ELSE "failed",
                ![c].commitTS = lastTimestamp', ![c].next = 1,
                ![c].undo = @ \o appended.records
                              \o [i \in DOMAIN deleted |-> DeleteRecord(deleted[i])],
                ![c].local = IF done /\ ok THEN <<>> ELSE @,
                ![c].localStart = IF done /\ ok THEN NoLocalTable ELSE @]
        /\ UNCHANGED <<lastTransactionID, entries, thrown>>

\* An append of local rows throws: the commit fails, and will be rolled back.
CommitThrows(c) ==
    /\ LockIsFree /\ IsWriting(c) /\ SoundAppend(Len(txn[c].local))
    /\ lastTimestamp' = lastTimestamp + 1
    /\ \E appended \in AppendLocalThrows(c) :
        /\ nodeGroups' = appended.groups
        /\ numTotalRows' = appended.total
        /\ txn' = [txn EXCEPT ![c].status = "interrupted", ![c].commitTS = lastTimestamp',
                              ![c].undo = @ \o appended.records]
        /\ thrown' = thrown + Last(appended.records).numRows
    /\ UNCHANGED <<lastTransactionID, entries>>

OnRows(record, Op(_, _, _)) ==
    [nodeGroups EXCEPT ![record.group] =
        applyFuncToChunkedGroups(@, record.startRow, record.numRows, Op)]

CommitVersions(chain, t) ==
    [i \in DOMAIN chain |-> IF chain[i].version = t.id
                            THEN [chain[i] EXCEPT !.version = t.commitTS] ELSE chain[i]]

commitRecord(c) ==
    LET t == txn[c]
        r == t.undo[t.next]
    IN  /\ t.status = "committing" /\ t.next <= Len(t.undo)
        /\ entries' = IF r.type = "CATALOG_ENTRY"
                      THEN commitCatalogEntryRecord(entries, r, t.commitTS) ELSE entries
        /\ nodeGroups' =
            CASE r.type = "INSERT_INFO" ->
                    OnRows(r, LAMBDA ch, start, rows : commitInsert(ch, rows, t.commitTS))
              [] r.type = "DELETE_INFO" ->
                    OnRows(r, LAMBDA ch, start, rows : commitDelete(ch, rows, t.commitTS))
              [] r.type = "UPDATE_INFO" ->
                    [nodeGroups EXCEPT ![r.group].chunks[r.chunk].updateInfo[r.vector] =
                        CommitVersions(@, t)]
              [] r.type = "CATALOG_ENTRY" -> nodeGroups
        /\ txn' = [txn EXCEPT ![c].next = @ + 1]
        /\ UNCHANGED <<lastTimestamp, lastTransactionID, numTotalRows, thrown>>

EndCommit(c) ==
    /\ txn[c].status = "committing" /\ txn[c].next > Len(txn[c].undo)
    /\ txn' = [txn EXCEPT ![c] = NoTransaction]
    /\ UNCHANGED <<lastTimestamp, lastTransactionID, nodeGroups, numTotalRows, entries, thrown>>

(***************************************************************************)
(* Rollback: the local table is cleared, then the records are undone, the  *)
(* last one first.                                                         *)
(***************************************************************************)
IsEmptied(ng) == ng.chunks # <<>> /\ Head(ng.chunks).onDisk /\ Head(ng.chunks).numRows = 0

StartRollback(c) ==
    /\ LockIsFree /\ txn[c].status \in {"active", "interrupted", "failed"} /\ txn[c].write
    /\ txn[c].flushing = {}
    /\ \A i \in DOMAIN txn[c].undo :
        txn[c].undo[i].type = "INSERT_INFO" /\ IsEmptied(nodeGroups[txn[c].undo[i].group])
            => "rollbackInEmptied" \in Unsound
    /\ txn' = [txn EXCEPT ![c].status = "rollingBack", ![c].next = Len(txn[c].undo),
                          ![c].local = <<>>, ![c].localStart = NoLocalTable]
    /\ UNCHANGED <<lastTimestamp, lastTransactionID, nodeGroups, numTotalRows, entries, thrown>>

\* A second record of the same version finds it gone and does nothing.
rollbackVectorUpdateInfo(chain, t) ==
    LET i == getVectorInfo(chain, t)
    IN  IF i # 0 /\ chain[i].version = t.id THEN RemoveAt(chain, i) ELSE chain

rollbackRecord(c) ==
    LET t == txn[c]
        r == t.undo[t.next]
    IN  /\ t.status = "rollingBack" /\ t.next > 0
        /\ entries' = IF r.type = "CATALOG_ENTRY"
                      THEN rollbackCatalogEntryRecord(entries, r) ELSE entries
        /\ nodeGroups' =
            CASE r.type = "INSERT_INFO" -> rollbackInsertRecord(nodeGroups, r)
              [] r.type = "DELETE_INFO" ->
                    OnRows(r, LAMBDA ch, start, rows : rollbackDelete(ch, rows))
              [] r.type = "UPDATE_INFO" ->
                    [nodeGroups EXCEPT ![r.group].chunks[r.chunk].updateInfo[r.vector] =
                        rollbackVectorUpdateInfo(@, t)]
              [] r.type = "CATALOG_ENTRY" -> nodeGroups
        /\ numTotalRows' =
            IF r.type = "INSERT_INFO" /\ r.group <= Len(nodeGroups)
            THEN numTotalRows - Min({r.numRows, nodeGroups[r.group].numRows - r.startRow})
            ELSE numTotalRows
        /\ txn' = [txn EXCEPT ![c].next = @ - 1]
        /\ UNCHANGED <<lastTimestamp, lastTransactionID, thrown>>

EndRollback(c) ==
    /\ txn[c].status = "rollingBack" /\ txn[c].next = 0
    /\ txn' = [txn EXCEPT ![c] = NoTransaction]
    /\ UNCHANGED <<lastTimestamp, lastTransactionID, nodeGroups, numTotalRows, entries, thrown>>

\* Checkpoints run while no transaction is active (TransactionManager).
checkpointTable ==
    /\ \A c \in Clients : txn[c].status = "none"
    /\ \A g \in DOMAIN nodeGroups : nodeGroups[g].chunks # <<>>
    /\ \A g \in DOMAIN nodeGroups :
        IsCut(Last(nodeGroups[g].chunks)) => "appendToCut" \in Unsound
    /\ nodeGroups' = [g \in DOMAIN nodeGroups |-> checkpoint(nodeGroups[g])]
    /\ UNCHANGED <<lastTimestamp, lastTransactionID, txn, numTotalRows, entries, thrown>>

Offsets == 0 .. MaxSize - 1

ClientNext(c) ==
    \/ \E write \in BOOLEAN : beginTransaction(c, write)
    \/ EndReader(c)
    \/ \E val \in RowValues : LocalInsert(c, val)
    \/ \E size \in BatchSizes, val \in RowValues :
            appendToLastNodeGroupAndFlushWhenFull(c, size, val)
    \/ \E record \in txn[c].flushing : EndFlush(c, record) \/ FlushThrows(c, record)
    \/ \E offset \in Offsets : delete_(c, offset)
    \/ \E offset \in Offsets, val \in RowValues : update(c, offset, val)
    \/ \E name \in Names, value \in TableValues : CreateTable(c, name, value)
    \/ \E name \in Names : DropTable(c, name)
    \/ \E name \in Names, value \in TableValues : AlterTable(c, name, value)
    \/ \E name, newName \in Names : RenameTable(c, name, newName)
    \/ \E ok \in BOOLEAN : StartCommit(c, ok)
    \/ CommitThrows(c)
    \/ commitRecord(c) \/ EndCommit(c)
    \/ StartRollback(c) \/ rollbackRecord(c) \/ EndRollback(c)

Next == checkpointTable \/ \E c \in Clients : ClientNext(c)

Spec == Init /\ [][Next]_vars

(***************************************************************************)
(* Properties.                                                             *)
(***************************************************************************)
\* The rows of node groups that are being flushed: they are counted already.
NumFlushing ==
    MapThenSumSet(LAMBDA c : MapThenSumSet(LAMBDA r : r.numRows, txn[c].flushing), Clients)

\* The structures have their shapes, and the table counts the rows of its node
\* groups, each of which has at most NodeGroupSize, the rows that are being
\* flushed, and for good the rows of appends that threw.
TypeOK ==
    /\ lastTimestamp \in Nat
    /\ lastTransactionID \in START_TRANSACTION_ID .. START_TRANSACTION_ID + MaxTransactions
    /\ \A c \in Clients :
        /\ txn[c].status \in {"none", "active", "interrupted", "committing", "failed",
                              "rollingBack", "hung"}
        /\ txn[c].next \in 0 .. Len(txn[c].undo) + 1
    /\ numTotalRows = thrown + NumFlushing
            + MapThenSumSet(LAMBDA g : nodeGroups[g].numRows, DOMAIN nodeGroups)
    /\ \A g \in DOMAIN nodeGroups : nodeGroups[g].numRows \in 0 .. NodeGroupSize

ActiveIDs == {txn[c].id : c \in {d \in Clients : IsWriter(d)}}

ArrayVersions(array) == {array[i] : i \in DOMAIN array}

ChunkVersions(chunk) ==
    UNION {{chunk.versionInfo[v].sameInsertionVersion}
              \cup ArrayVersions(chunk.versionInfo[v].insertedVersions)
              \cup ArrayVersions(chunk.versionInfo[v].deletedVersions)
              : v \in DOMAIN chunk.versionInfo}
    \cup UNION {{chunk.updateInfo[v][i].version : i \in DOMAIN chunk.updateInfo[v]}
              : v \in DOMAIN chunk.updateInfo}

AllVersions ==
    UNION {UNION {ChunkVersions(nodeGroups[g].chunks[k]) : k \in DOMAIN nodeGroups[g].chunks}
              : g \in DOMAIN nodeGroups}
    \cup UNION {{entries[name][i].timestamp : i \in DOMAIN entries[name]} : name \in Names}

\* A transaction that ended leaves no version of its own behind, neither in the
\* rows nor in the updates nor in the catalog: every version that is not a
\* commit timestamp belongs to a transaction that is still there.
NoTracesLeft ==
    \A version \in AllVersions \ {INVALID_TRANSACTION} :
        version >= START_TRANSACTION_ID => version \in ActiveIDs

\* The records of the rows a writer has appended so far; after an append that
\* threw they will all be taken back.
Appended(c) ==
    {txn[c].undo[i] : i \in {j \in DOMAIN txn[c].undo :
        /\ txn[c].undo[j].type = "INSERT_INFO"
        /\ txn[c].undo[j] \notin txn[c].flushing
        /\ txn[c].status \notin {"rollingBack", "interrupted"}}}

\* A row that was appended is found at the offset that was given to the index
\* for it: the chunk exists and has the row, as KU_ASSERT(chunkedGroupToScan) of
\* the lookup in a node group and KU_ASSERT(rowIdxInChunk + 1 <= numRows) say.
IndexedRowsAreFound ==
    \A c \in Clients : \A r \in Appended(c) : \A i \in 0 .. r.numRows - 1 :
        \E at \in Find(nodeGroups, r.offset + i) : at.row < ChunkAt(at).numRows

\* The column has, at the place of an appended row, the value it was appended
\* with.
AppendedRowsReadBack ==
    \A c \in Clients : \A r \in Appended(c) : \A i \in 0 .. r.numRows - 1 :
        \A at \in Find(nodeGroups, r.offset + i) :
            ChunkAt(at).data[at.row + 1] = r.vals[i + 1]

(***************************************************************************)
(* The refinement.  While records get the commit timestamp, the writer     *)
(* sees its versions whether they have it already or not, and nobody else  *)
(* sees them; a rollback has happened when it begins.                      *)
(***************************************************************************)
Items == Offsets \cup Names

SeenBy(t) ==
    [i \in Items |-> IF i \in Names THEN {getEntry(entries, t, i)} \ {NoValue}
                     ELSE RowSeen(t, i)]

IsCommitting == \E c \in Clients : txn[c].status = "committing"

AbstractDb ==
    LET reader == [NoTransaction EXCEPT
            !.startTS = IF IsCommitting THEN lastTimestamp - 1 ELSE lastTimestamp]
    IN  SeenBy(reader)

ModeOf(t) ==
    IF t.status \in {"none", "rollingBack"} THEN "none"
    ELSE IF t.write THEN "write" ELSE "read"

ViewOf(t) ==
    LET committed == [t EXCEPT !.startTS = t.commitTS]
    IN  IF ModeOf(t) = "none" THEN [i \in Items |-> {}]
        ELSE IF t.status = "committing" THEN SeenBy(committed) ELSE SeenBy(t)

Snapshot == INSTANCE SnapshotStore WITH
    Values <- {{v} : v \in RowValues \cup TableValues}, Absent <- {},
    db <- AbstractDb,
    mode <- [c \in Clients |-> ModeOf(txn[c])],
    view <- [c \in Clients |-> ViewOf(txn[c])]

\* The versions implement snapshots: readers see the database as it was when
\* they began whatever commits, rolls back or is checkpointed meanwhile, and a
\* commit takes effect at once.
ImplementsSnapshotStore == Snapshot!Spec

=============================================================================
