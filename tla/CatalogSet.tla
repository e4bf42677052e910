----------------------------- MODULE CatalogSet -----------------------------
(***************************************************************************)
(* The version chains of a catalog set.  A chain is a sequence with the    *)
(* newest entry first; the empty chain stands for a name that is not in    *)
(* the map.  An entry is [timestamp, isDeleted, value], where the value    *)
(* stands for everything a table entry says.  The operators take and       *)
(* return the map from names to chains.                                    *)
(***************************************************************************)
EXTENDS Integers, Sequences, SequencesExt

CONSTANTS NoValue             \* what a dummy entry says

DummyEntry(timestamp) == [timestamp |-> timestamp, isDeleted |-> TRUE, value |-> NoValue]

\* The position of the entry that t reads.
traverseVersionChainsForTransaction(chain, t) ==
    SelectInSeq(chain, LAMBDA e : e.timestamp = t.id \/ e.timestamp <= t.startTS)

\* What t knows of a name: the value of its entry, NoValue if it has none.
getEntry(entries, t, name) ==
    LET chain == entries[name]
    IN  IF chain = <<>> THEN NoValue
        ELSE chain[traverseVersionChainsForTransaction(chain, t)].value

containsEntry(entries, t, name) == getEntry(entries, t, name) # NoValue

\* The newest entry is one that t does not see.
checkWWConflict(chain, t) ==
    chain # <<>> /\ Head(chain).timestamp # t.id /\ Head(chain).timestamp > t.startTS

emplace(entries, name, entry) == [entries EXCEPT ![name] = <<entry>> \o @]

CanCreate(entries, t, name) ==
    /\ ~containsEntry(entries, t, name)
    /\ ~checkWWConflict(entries[name], t)
    /\ entries[name] # <<>> => Head(entries[name]).isDeleted

\* A new chain begins with a dummy entry that everyone sees.
createEntry(entries, t, name, value) ==
    LET based == IF entries[name] = <<>> THEN emplace(entries, name, DummyEntry(0))
                 ELSE entries
    IN  emplace(based, name, [timestamp |-> t.id, isDeleted |-> FALSE, value |-> value])

dropEntry(entries, t, name) == emplace(entries, name, DummyEntry(t.id))

alterTableEntry(entries, t, name, value) ==
    emplace(entries, name, [timestamp |-> t.id, isDeleted |-> FALSE, value |-> value])

\* A rename is a drop and a create.
renameTableEntry(entries, t, name, newName) ==
    createEntry(dropEntry(entries, t, name), t, newName, getEntry(entries, t, name))

(***************************************************************************)
(* The undo record holds the entry before the new one; the new one is its  *)
(* successor.  The model counts its place from the old end of the chain,   *)
(* which commits and rollbacks of newer entries do not move.               *)
(***************************************************************************)
CatalogRecord(entries, name) ==
    [type |-> "CATALOG_ENTRY", name |-> name, place |-> Len(entries[name])]

PlaceInChain(entries, record) == Len(entries[record.name]) - record.place + 1

commitCatalogEntryRecord(entries, record, commitTS) ==
    [entries EXCEPT ![record.name][PlaceInChain(entries, record)].timestamp = commitTS]

rollbackCatalogEntryRecord(entries, record) ==
    [entries EXCEPT ![record.name] = RemoveAt(@, PlaceInChain(entries, record))]

=============================================================================
