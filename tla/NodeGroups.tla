----------------------------- MODULE NodeGroups -----------------------------
(***************************************************************************)
(* The storage of a node table: node groups of chunked groups, the version *)
(* information of their rows (VersionInfo) and the versions of updated     *)
(* values (UpdateInfo).  The operators take and return these structures;   *)
(* VersionedStore holds them in its state.                                 *)
(*                                                                         *)
(* Offsets, rows and vectors count from 0, sequences from 1.  A function   *)
(* with an empty domain stands for a null pointer.  There is one column.   *)
(***************************************************************************)
EXTENDS Integers, Sequences, SequencesExt, FiniteSetsExt, TLC

CONSTANTS
    VectorCapacity,   \* DEFAULT_VECTOR_CAPACITY, also CHUNKED_NODE_GROUP_CAPACITY
    NodeGroupSize,    \* NODE_GROUP_SIZE
    START_TRANSACTION_ID,
    INVALID_TRANSACTION

ASSUME StorageAssumption ==
    /\ VectorCapacity \in Nat \ {0}
    /\ NodeGroupSize \in Nat \ {0}
    /\ NodeGroupSize % VectorCapacity = 0
    /\ START_TRANSACTION_ID \in Nat
    /\ INVALID_TRANSACTION \in Nat
    /\ START_TRANSACTION_ID < INVALID_TRANSACTION

Null == <<>>
RowsInVector == 0 .. VectorCapacity - 1

\* Mutant: every committed version is visible, also a newer one.
isVisibleToLate(version, t) == version = t.id \/ version < START_TRANSACTION_ID

\* A transaction t, [id, startTS], sees what it wrote and what was committed
\* when it began.
isVisibleTo(version, t) == version = t.id \/ version <= t.startTS

\* Checkpoints read with this transaction.
DUMMY_CHECKPOINT_TRANSACTION == [id |-> 0, startTS |-> START_TRANSACTION_ID - 1]

(***************************************************************************)
(* VectorVersionInfo: who inserted and who deleted the rows of one vector. *)
(* Nothing ever sets sameDeletionVersion, so it is left out.               *)
(***************************************************************************)
NewVectorVersionInfo ==
    [insertionStatus |-> "NO_INSERTED", deletionStatus |-> "NO_DELETED",
     sameInsertionVersion |-> INVALID_TRANSACTION,
     insertedVersions |-> Null, deletedVersions |-> Null]

isSameInsertionVersion(v) == v.sameInsertionVersion # INVALID_TRANSACTION

Overwrite(array, rows, version) ==
    [i \in RowsInVector |-> IF i \in rows THEN version ELSE array[i]]

AllInvalid == [i \in RowsInVector |-> INVALID_TRANSACTION]

\* The array is allocated when a second transaction appends to the vector.
vectorAppend(v, id, rows) ==
    LET checked == [v EXCEPT !.insertionStatus = "CHECK_VERSION"]
        array == IF v.insertedVersions # Null THEN v.insertedVersions
                 ELSE Overwrite(AllInvalid, 0 .. Min(rows) - 1, v.sameInsertionVersion)
    IN  IF id = v.sameInsertionVersion THEN checked
        ELSE IF ~isSameInsertionVersion(v) /\ v.insertedVersions = Null
        THEN [checked EXCEPT !.sameInsertionVersion = id]
        ELSE [checked EXCEPT !.insertedVersions = Overwrite(array, rows, id),
                             !.sameInsertionVersion = INVALID_TRANSACTION]

\* A vector without insertions got its version information from this
\* deletion: its rows are checkpointed ones.
vectorDelete(v, id, row) ==
    LET array == IF v.deletedVersions = Null THEN AllInvalid ELSE v.deletedVersions
    IN  [v EXCEPT !.insertionStatus = IF @ = "NO_INSERTED" THEN "ALWAYS_INSERTED" ELSE @,
                  !.deletionStatus = "CHECK_VERSION",
                  !.deletedVersions = Overwrite(array, {row}, id)]

setInsertCommitTS(v, commitTS, rows) ==
    IF isSameInsertionVersion(v) THEN [v EXCEPT !.sameInsertionVersion = commitTS]
    ELSE [v EXCEPT !.insertedVersions = Overwrite(@, rows, commitTS)]

setDeleteCommitTS(v, commitTS, rows) ==
    [v EXCEPT !.deletedVersions = Overwrite(@, rows, commitTS)]

Cleared(array, rows) ==
    LET cleared == Overwrite(array, rows, INVALID_TRANSACTION)
    IN  IF array = Null \/ cleared = AllInvalid THEN Null ELSE cleared

rollbackInsertions(v, rows) ==
    LET array == IF isSameInsertionVersion(v) THEN v.insertedVersions
                 ELSE Cleared(v.insertedVersions, rows)
    IN  [v EXCEPT !.sameInsertionVersion = INVALID_TRANSACTION,
                  !.insertedVersions = array,
                  !.insertionStatus = IF array = Null THEN "NO_INSERTED" ELSE @,
                  !.deletionStatus = IF array = Null THEN "NO_DELETED" ELSE @]

rollbackDeletions(v, rows) ==
    LET array == Cleared(v.deletedVersions, rows)
    IN  [v EXCEPT !.deletedVersions = array,
                  !.deletionStatus = IF array = Null THEN "NO_DELETED" ELSE @]

isInserted(v, t, row) ==
    CASE v.insertionStatus = "ALWAYS_INSERTED" -> TRUE
      [] v.insertionStatus = "NO_INSERTED" -> FALSE
      [] v.insertionStatus = "CHECK_VERSION" ->
            isVisibleTo(IF isSameInsertionVersion(v) THEN v.sameInsertionVersion
                        ELSE v.insertedVersions[row], t)

isDeleted(v, t, row) ==
    /\ v.deletionStatus = "CHECK_VERSION"
    /\ isVisibleTo(v.deletedVersions[row], t)

(***************************************************************************)
(* VersionInfo: the vectors of a chunked group.                            *)
(***************************************************************************)
VectorOf(row) == row \div VectorCapacity
RowInVector(row) == row % VectorCapacity

getOrCreateVersionInfo(versions, v) ==
    IF v \in DOMAIN versions THEN versions[v] ELSE NewVectorVersionInfo

\* Which of the given rows are in vector v.
RowsOfVector(rows, v) == {RowInVector(r) : r \in {x \in rows : VectorOf(x) = v}}

\* Applies Op(vector info, its rows) to the vectors of the given rows.
OnVectors(versions, rows, Op(_, _)) ==
    LET touched == {VectorOf(r) : r \in rows}
    IN  [v \in DOMAIN versions \cup touched |->
            IF v \in touched
            THEN Op(getOrCreateVersionInfo(versions, v), RowsOfVector(rows, v))
            ELSE versions[v]]

isSelected(versions, t, row) ==
    VectorOf(row) \in DOMAIN versions =>
        LET v == versions[VectorOf(row)]
        IN  isInserted(v, t, RowInVector(row)) /\ ~isDeleted(v, t, RowInVector(row))

(***************************************************************************)
(* UpdateInfo: per vector a chain of versions, the newest first.  A        *)
(* version holds the values of all rows updated up to then.                *)
(***************************************************************************)
\* The position of the version that t reads, 0 if there is none.
getVectorInfo(chain, t) ==
    SelectInSeq(chain, LAMBDA info : isVisibleTo(info.version, t))

\* The new version copies the one before.  The search for conflicts follows
\* `next' from the newest version and so looks at that version only.
getOrCreateVectorInfo(chain, t) ==
    IF chain # <<>> /\ Head(chain).version = t.id THEN chain
    ELSE <<[version |-> t.id, data |-> IF chain = <<>> THEN Null ELSE Head(chain).data]>>
            \o chain

CanUpdate(chain, t, row) ==
    chain # <<>> /\ Head(chain).version # t.id /\ Head(chain).version > t.startTS
        => row \notin DOMAIN Head(chain).data

updateVector(chain, t, row, val) ==
    [getOrCreateVectorInfo(chain, t) EXCEPT ![1].data = (row :> val) @@ @]

(***************************************************************************)
(* ChunkedNodeGroup.  numRows is the group's own count of rows, data the   *)
(* values of the column with their count, Len(data).                       *)
(***************************************************************************)
NewChunkedGroup(startRowIdx) ==
    [startRowIdx |-> startRowIdx, onDisk |-> FALSE, numRows |-> 0, data |-> <<>>,
     versionInfo |-> Null, updateInfo |-> Null]

Chain(chunk, row) ==
    IF VectorOf(row) \in DOMAIN chunk.updateInfo
    THEN chunk.updateInfo[VectorOf(row)] ELSE <<>>

chunkAppend(chunk, id, val) ==
    [chunk EXCEPT
        !.data = Append(@, val),
        !.versionInfo = OnVectors(@, {chunk.numRows},
                                  LAMBDA v, rows : vectorAppend(v, id, rows)),
        !.numRows = @ + 1]

\* handleAppendException: copying into the column threw, before the versions and
\* the number of rows; the column gets the chunk's number of values again.
handleAppendException(chunk) == [chunk EXCEPT !.data = SubSeq(@, 1, chunk.numRows)]

\* delete_ throws a write-write conflict when another transaction deleted the row.
CanDelete(chunk, id, row) ==
    VectorOf(row) \in DOMAIN chunk.versionInfo =>
        LET deleted == chunk.versionInfo[VectorOf(row)].deletedVersions
        IN  deleted # Null => deleted[RowInVector(row)] \in {id, INVALID_TRANSACTION}

chunkDelete(chunk, id, row) ==
    [chunk EXCEPT !.versionInfo =
        OnVectors(@, {row}, LAMBDA v, rows : vectorDelete(v, id, Max(rows)))]

chunkUpdate(chunk, t, row, val) ==
    [chunk EXCEPT !.updateInfo =
        (VectorOf(row) :> updateVector(Chain(chunk, row), t, RowInVector(row), val)) @@ @]

\* What t reads in a row of the column: the update it sees or the value itself.
lookup(chunk, t, row) ==
    LET chain == Chain(chunk, row)
        i == getVectorInfo(chain, t)
    IN  IF chain # <<>> /\ i # 0 /\ RowInVector(row) \in DOMAIN chain[i].data
        THEN chain[i].data[RowInVector(row)] ELSE chunk.data[row + 1]

commitInsert(chunk, rows, commitTS) ==
    [chunk EXCEPT !.versionInfo =
        OnVectors(@, rows, LAMBDA v, rs : setInsertCommitTS(v, commitTS, rs))]

\* Mutant: deletions keep the identifier of their transaction.
commitDeleteForgotten(chunk, rows, commitTS) == chunk

commitDelete(chunk, rows, commitTS) ==
    [chunk EXCEPT !.versionInfo =
        OnVectors(@, rows, LAMBDA v, rs : setDeleteCommitTS(v, commitTS, rs))]

\* Only the first case resets the number of values of the column.
rollbackInsert(chunk, startRow, rows) ==
    CASE startRow = 0 ->
            [chunk EXCEPT !.numRows = 0, !.data = <<>>, !.versionInfo = Null]
      [] startRow # 0 /\ startRow >= chunk.numRows -> chunk
      [] OTHER -> [chunk EXCEPT !.versionInfo = OnVectors(@, rows, rollbackInsertions),
                                !.numRows = startRow]

rollbackDelete(chunk, rows) ==
    [chunk EXCEPT !.versionInfo = OnVectors(@, rows, rollbackDeletions)]

(***************************************************************************)
(* NodeGroup: chunked groups of VectorCapacity rows behind a first one,    *)
(* which a checkpoint or a bulk load may have written to disk.             *)
(***************************************************************************)
NewNodeGroup == [numRows |-> 0, nextRowToAppend |-> 0, chunks |-> <<>>]

NoChunkedGroup == [idx |-> 0, row |-> 0]

findChunkedGroupIdxFromRowIdx(ng, rowIdx) ==
    IF ng.chunks = <<>> \/ rowIdx < Head(ng.chunks).startRowIdx THEN NoChunkedGroup
    ELSE LET row == rowIdx - Head(ng.chunks).startRowIdx
             rest == row - Head(ng.chunks).numRows
             idx == rest \div VectorCapacity + 2
         IN  IF rest < 0 THEN [idx |-> 1, row |-> row]
             ELSE IF idx > Len(ng.chunks) THEN NoChunkedGroup
             ELSE [idx |-> idx, row |-> rest % VectorCapacity]

\* Which of numRows rows from startRow on are in chunk k, if the loop over the
\* chunks comes there.
RowsOfChunk(ng, startRow, numRows, k) ==
    LET first == findChunkedGroupIdxFromRowIdx(ng, startRow)
        startIn(j) == IF j = first.idx THEN first.row ELSE 0
        left == numRows - MapThenSumSet(LAMBDA j : ng.chunks[j].numRows - startIn(j),
                                        DOMAIN ng.chunks \cap (first.idx .. k - 1))
    IN  [reached |-> first.idx # 0 /\ k >= first.idx /\ left > 0,
         start |-> startIn(k),
         rows |-> startIn(k) .. startIn(k) + Min({left, ng.chunks[k].numRows - startIn(k)}) - 1]

\* Applies Op(chunk, first row, rows) to these rows of each chunk.
applyFuncToChunkedGroups(ng, startRow, numRows, Op(_, _, _)) ==
    [ng EXCEPT !.chunks = [k \in DOMAIN @ |->
        LET part == RowsOfChunk(ng, startRow, numRows, k)
        IN  IF part.reached THEN Op(@[k], part.start, part.rows) ELSE @[k]]]

isFullOrOnDisk(chunk) == chunk.onDisk \/ chunk.numRows = VectorCapacity

\* The last chunk has room for another row.
WithRoom(ng) ==
    LET chunks == IF ng.chunks = <<>> THEN <<NewChunkedGroup(0)>> ELSE ng.chunks
    IN  [ng EXCEPT !.chunks = IF isFullOrOnDisk(Last(chunks))
                              THEN Append(chunks, NewChunkedGroup(ng.numRows)) ELSE chunks]

\* Appends one row; the code copies as many at once as the chunk holds.
appendRow(ng, id, val) ==
    LET all == WithRoom(ng).chunks
    IN  [ng EXCEPT !.chunks = Front(all) \o <<chunkAppend(Last(all), id, val)>>,
                   !.numRows = @ + 1]

\* Mutant: the rows are appended in the wrong order.
appendBackwards(ng, id, vals) ==
    FoldLeft(LAMBDA g, val : appendRow(g, id, val), ng, Reverse(vals))

append(ng, id, vals) == FoldLeft(LAMBDA g, val : appendRow(g, id, val), ng, vals)

\* How the group may look when an append throws: the rows that filled a chunk
\* before are in it, and the group's own number of rows is still the old one.
AppendThrows(ng, id, vals) ==
    LET copied(n) == append(ng, id, SubSeq(vals, 1, n))
        thrown(g) == [g EXCEPT !.numRows = ng.numRows,
                               !.chunks = Front(@) \o <<handleAppendException(Last(@))>>]
    IN  {thrown(WithRoom(copied(n))) : n \in {m \in 0 .. Len(vals) - 1 :
            m > 0 => isFullOrOnDisk(Last(copied(m).chunks))}}

\* A bulk load that fills an empty node group writes it to disk directly.
flushAsNewChunkedNodeGroup(ng, id, vals) ==
    [ng EXCEPT !.numRows = Len(vals),
               !.chunks = <<[NewChunkedGroup(0) EXCEPT
                    !.onDisk = TRUE, !.numRows = Len(vals), !.data = vals,
                    !.versionInfo = OnVectors(Null, 0 .. Len(vals) - 1,
                        LAMBDA v, rows : vectorAppend(v, id, rows))]>>]

WithoutEmptyTrailing(groups) ==
    SubSeq(groups, 1, SelectLastInSeq(groups, LAMBDA g : g.numRows # 0))

\* Mutant: the group keeps its number of rows.
nodeGroupRollbackKeepsCount(ng, startRow, numRows) ==
    LET undone == applyFuncToChunkedGroups(ng, startRow, numRows, rollbackInsert)
    IN  [undone EXCEPT !.chunks = WithoutEmptyTrailing(@)]

\* Takes back the rows from startRow on.  nextRowToAppend keeps its value.
nodeGroupRollbackInsert(ng, startRow, numRows) ==
    LET undone == applyFuncToChunkedGroups(ng, startRow, numRows, rollbackInsert)
    IN  [undone EXCEPT !.chunks = WithoutEmptyTrailing(@), !.numRows = startRow]

\* Whether the column of a chunk has more values than the chunk has rows.
IsCut(chunk) == Len(chunk.data) > chunk.numRows

\* The committed values of a chunk, as a checkpoint reads them.
scanCommitted(chunk) ==
    [i \in DOMAIN chunk.data |-> lookup(chunk, DUMMY_CHECKPOINT_TRANSACTION, i - 1)]

\* The deletions that are still known after a checkpoint.
checkpointVersionInfo(ng) ==
    LET before(k) == MapThenSumSet(LAMBDA j : ng.chunks[j].numRows, 1 .. k - 1)
        gone(k) == {before(k) + row : row \in {r \in 0 .. ng.chunks[k].numRows - 1 :
            /\ VectorOf(r) \in DOMAIN ng.chunks[k].versionInfo
            /\ isDeleted(ng.chunks[k].versionInfo[VectorOf(r)],
                         DUMMY_CHECKPOINT_TRANSACTION, RowInVector(r))}}
    IN  FoldSet(LAMBDA row, info : OnVectors(info, {row}, LAMBDA v, rows :
                    vectorDelete(v, DUMMY_CHECKPOINT_TRANSACTION.id, Max(rows))),
                Null, UNION {gone(k) : k \in DOMAIN ng.chunks})

getNumDeletions(versions) ==
    MapThenSumSet(LAMBDA v : Cardinality({r \in RowsInVector :
                      isDeleted(versions[v], DUMMY_CHECKPOINT_TRANSACTION, r)}),
                  DOMAIN versions)

\* All chunks become one on disk; a group with only deleted rows becomes empty.
checkpoint(ng) ==
    LET versions == checkpointVersionInfo(ng)
        startRowIdx == Head(ng.chunks).startRowIdx
        numRows == MapThenSumSet(LAMBDA k : ng.chunks[k].numRows, DOMAIN ng.chunks)
        data == FlattenSeq([k \in DOMAIN ng.chunks |-> scanCommitted(ng.chunks[k])])
        new == IF getNumDeletions(versions) = ng.numRows - startRowIdx
               THEN NewChunkedGroup(ng.numRows)
               ELSE [NewChunkedGroup(startRowIdx) EXCEPT !.numRows = numRows,
                        !.data = SubSeq(data, 1, numRows), !.versionInfo = versions]
    IN  [ng EXCEPT !.chunks = <<[new EXCEPT !.onDisk = TRUE]>>]

(***************************************************************************)
(* NodeGroupCollection, with the number of rows of the whole table.        *)
(***************************************************************************)
GroupOf(offset) == offset \div NodeGroupSize + 1
RowInGroup(offset) == offset % NodeGroupSize

isFull(ng) == ng.numRows = NodeGroupSize
getNumRowsLeftToAppend(ng) == NodeGroupSize - ng.nextRowToAppend

Reserve(ng, numRows) == [ng EXCEPT !.nextRowToAppend = @ + numRows]

\* Mutant: a group with one row left counts as full.
ForCommitEarly(groups) ==
    IF groups = <<>> \/ Last(groups).numRows >= NodeGroupSize - 1
    THEN Append(groups, NewNodeGroup) ELSE groups

\* The group that the commit of local rows, or a bulk load, appends to is the
\* last one.  They disagree on when it is replaced.
ForCommit(groups) ==
    IF groups = <<>> \/ isFull(Last(groups)) THEN Append(groups, NewNodeGroup) ELSE groups

ForCopy(groups) ==
    IF groups = <<>> \/ getNumRowsLeftToAppend(Last(groups)) = 0
    THEN Append(groups, NewNodeGroup) ELSE groups

\* The last group becomes ng.
WithLast(groups, ng) == Front(groups) \o <<ng>>

\* Where an offset is: its group, chunk and row in the chunk.  A set with at most
\* one member stands for something that may not exist.
Find(groups, offset) ==
    UNION {{[group |-> g, chunk |-> at.idx,
             row |-> RowInGroup(offset) - groups[g].chunks[at.idx].startRowIdx]
               : at \in {findChunkedGroupIdxFromRowIdx(groups[g], RowInGroup(offset))}
                           \ {NoChunkedGroup}}
               : g \in {GroupOf(offset)} \cap DOMAIN groups}

\* What the lookup of an offset reads for t, if the row is visible to t.
lookupOffset(groups, t, offset) ==
    UNION {{lookup(chunk, t, at.row)
               : chunk \in {ch \in {groups[at.group].chunks[at.chunk]} :
                    at.row < ch.numRows /\ isSelected(ch.versionInfo, t, at.row)}}
               : at \in Find(groups, offset)}

rollbackInsertRecord(groups, record) ==
    IF record.group > Len(groups) THEN groups
    ELSE WithoutEmptyTrailing([groups EXCEPT
            ![record.group] = nodeGroupRollbackInsert(@, record.startRow, record.numRows)])

=============================================================================
