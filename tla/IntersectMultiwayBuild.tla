----------------------- MODULE IntersectMultiwayBuild -----------------------
(***************************************************************************)
(* The build side of CycleJoin for one left node: several threads fill one *)
(* shared hash table with the neighbour lists of the nodes the left node   *)
(* can be.  In each thread                                                 *)
(*   - SharedScanRelTable takes the next node (the key) and scans one rel  *)
(*     table per path that leaves it, a batch of each at a time;           *)
(*   - for a path of two edges the scan shows one middle node at a time,   *)
(*     and a HashJoinProbe finds the end nodes of the path;                *)
(*   - IntersectMultiwayBuild caches what arrives for a key, and dumps it  *)
(*     into the thread's hash table when the key changes.                  *)
(* Each thread merges its table into the shared one; the last one links    *)
(* the tuples into hash chains.                                            *)
(*                                                                         *)
(* A middle node is represented by the tuples that the hash join has for   *)
(* it, each a vector of end nodes.  The joins with the node tables on      *)
(* single edges, which exist when a query needs properties, only drop      *)
(* neighbours: a batch they drop as a whole is an empty batch.             *)
(***************************************************************************)
EXTENDS Naturals, Sequences, SequencesExt, FiniteSets, FiniteSetsExt

CONSTANTS Threads,                 \* the threads of the build task
          Keys,                    \* the nodes of the left node's table
          Payloads,                \* the right nodes connected to it
          FlatPaths,               \* those reached by a path of two edges
          Edges,                   \* the paths the graph may have
          DEFAULT_VECTOR_CAPACITY, \* identifiers in a vector
          numTuplesPerBlock        \* hash table tuples in a data block

ASSUME BuildAssumption ==
    /\ Payloads \subseteq Nat /\ FlatPaths \subseteq Payloads
    /\ \A e \in Edges : DOMAIN e = Keys /\ \A k \in Keys : DOMAIN e[k] = Payloads
    /\ DEFAULT_VECTOR_CAPACITY \in Nat \ {0}
    /\ numTuplesPerBlock \in Nat \ {0}

VARIABLES edges,          \* the graph: per key and payload the neighbours, or
                          \* the middle nodes
          unscanned,      \* the keys no thread has taken
          sharedTable,    \* the data blocks of the shared hash table
          built,          \* its tuples are linked into chains
          state,          \* per thread: pull a tuple, cache it, or merged
          boundNode,      \* the key its scan is at: at most one
          rest,           \* what its scan of each table has yet to return
          stateFinished,  \* the tables whose scan has returned everything
          batch,          \* the middle nodes of the batch not shown yet
          mid,            \* the middle node that is shown: at most one
          matched,        \* its tuples that the hash join has yet to return
          payloadVectors, \* the identifiers selected in the payload vectors
          cachedKey,      \* the key in the cache: at most one
          cachedPayloads, \* the cached vectors of each payload
          hashTable       \* the data blocks of the thread's hash table

scanVars == <<boundNode, rest, stateFinished, batch, mid>>
cacheVars == <<cachedKey, cachedPayloads, hashTable>>
sharedVars == <<edges, unscanned, sharedTable, built>>
buildVars == <<sharedVars, state, scanVars, matched, payloadVectors, cacheVars>>

NoIds == [j \in Payloads |-> <<>>]

\* The neighbours of a key by one path, in the order of the scan.
Scanned(k, j) ==
    IF j \in FlatPaths THEN FlattenSeq(FlattenSeq(edges[k][j])) ELSE edges[k][j]

BuildInit ==
    /\ edges \in Edges /\ unscanned = Keys
    /\ sharedTable = <<>> /\ built = FALSE
    /\ state = [t \in Threads |-> "pull"]
    /\ boundNode = [t \in Threads |-> {}]
    /\ rest = [t \in Threads |-> NoIds]
    /\ stateFinished = [t \in Threads |-> Payloads]
    /\ batch = [t \in Threads |-> NoIds]
    /\ mid = [t \in Threads |-> NoIds]
    /\ matched = [t \in Threads |-> NoIds]
    /\ payloadVectors = [t \in Threads |-> NoIds]
    /\ cachedKey = [t \in Threads |-> {}]
    /\ cachedPayloads = [t \in Threads |-> [j \in Payloads |-> <<<<>>>>]]
    /\ hashTable = [t \in Threads |-> <<>>]

-----------------------------------------------------------------------------
\* The hash join has tuples left for the middle node of some path.
Pending(t) == {j \in FlatPaths : matched[t][j] # <<>>}

\* The tuples that the hash join has for the middle node, if one is shown.
Matches(shown) == FlattenSeq(shown)

\* HashJoinProbe with allowEmptyJoinResult: it returns one tuple at a time,
\* and an empty vector when it has none.
FirstMatch(tuples) == IF tuples = <<>> THEN <<>> ELSE Head(tuples)
FurtherMatches(tuples) == SubSeq(tuples, 2, Len(tuples))

\* The tables that have something to return: the next middle node of their
\* batch, or a batch of their scan.
Unfinished(t, active, left) ==
    {j \in active : (j \in FlatPaths /\ batch[t][j] # <<>>) \/ left[j] # <<>>}

\* SharedScanRelTable, and the hash joins above it.  When all scans have
\* finished, they start at a node that no thread has taken.  Each table
\* returns its next batch, of any size, and an empty vector once it has
\* finished.  A table of middle nodes scans when those of its batch are all
\* shown, and shows the next one.
SharedScan(t) ==
    /\ state[t] = "pull" /\ Pending(t) = {}
    /\ \E k \in IF stateFinished[t] = Payloads THEN unscanned ELSE boundNode[t] :
       \E size \in [Payloads -> 0..DEFAULT_VECTOR_CAPACITY] :
          LET isNew == stateFinished[t] = Payloads
              left == IF isNew THEN edges[k] ELSE rest[t]
              active == IF isNew THEN Payloads ELSE Payloads \ stateFinished[t]
              unfinished == Unfinished(t, active, left)
              showing == {j \in unfinished \cap FlatPaths : batch[t][j] # <<>>}
              scanning == unfinished \ showing
              out == [j \in Payloads |->
                         IF j \in showing THEN batch[t][j] ELSE SubSeq(left[j], 1, size[j])]
              shown == [j \in FlatPaths |-> SubSeq(out[j], 1, Min({1, Len(out[j])}))]
          IN  /\ \A j \in Payloads :
                    /\ j \notin scanning => size[j] = 0
                    /\ j \in scanning \cap FlatPaths => size[j] > 0
                    /\ size[j] <= Len(left[j])
              /\ boundNode' = [boundNode EXCEPT ![t] = {k}]
              /\ unscanned' = unscanned \ {k}
              /\ stateFinished' = [stateFinished EXCEPT ![t] = Payloads \ unfinished]
              /\ rest' = [rest EXCEPT ![t] = [j \in Payloads |->
                             SubSeq(left[j], size[j] + 1, Len(left[j]))]]
              /\ batch' = [batch EXCEPT ![t] = [j \in Payloads |->
                     IF j \in FlatPaths THEN SubSeq(out[j], 2, Len(out[j])) ELSE <<>>]]
              /\ mid' = [mid EXCEPT ![t] = [j \in Payloads |->
                     IF j \in FlatPaths THEN shown[j] ELSE <<>>]]
              /\ matched' = [matched EXCEPT ![t] = [j \in Payloads |->
                     IF j \in FlatPaths THEN FurtherMatches(Matches(shown[j])) ELSE <<>>]]
              /\ payloadVectors' = [payloadVectors EXCEPT ![t] = [j \in Payloads |->
                     IF j \in FlatPaths THEN FirstMatch(Matches(shown[j])) ELSE out[j]]]
    /\ state' = [state EXCEPT ![t] = "cache"]
    /\ UNCHANGED <<edges, sharedTable, built, cacheVars>>

\* The uppermost hash join with tuples left returns the next one without
\* asking its child.  The joins above it probe again for the middle node in
\* their vector; all other vectors stay as the build left them.
HashJoinContinues(t) ==
    /\ state[t] = "pull" /\ Pending(t) # {}
    /\ LET top == Max(Pending(t))
           tuples == [j \in Payloads |->
              IF j \in FlatPaths /\ j > top THEN Matches(mid[t][j]) ELSE matched[t][j]]
       IN  /\ payloadVectors' = [payloadVectors EXCEPT ![t] = [j \in Payloads |->
                  IF j \in FlatPaths /\ j >= top THEN FirstMatch(tuples[j]) ELSE @[j]]]
           /\ matched' = [matched EXCEPT ![t] = [j \in Payloads |->
                  IF j \in FlatPaths /\ j >= top THEN FurtherMatches(tuples[j]) ELSE @[j]]]
    /\ state' = [state EXCEPT ![t] = "cache"]
    /\ UNCHANGED <<sharedVars, scanVars, cacheVars>>

-----------------------------------------------------------------------------
\* An identifier goes into the first cached vector with room, or a new one.
CacheId(vectors, id) ==
    LET room == {v \in DOMAIN vectors : Len(vectors[v]) < DEFAULT_VECTOR_CAPACITY}
    IN  IF room = {} THEN Append(vectors, <<id>>)
                     ELSE [vectors EXCEPT ![Min(room)] = Append(@, id)]

\* A tuple goes into the last data block, or a new one when that is full.
AppendTuple(blocks, tuple) ==
    IF blocks = <<>> \/ Len(Last(blocks)) = numTuplesPerBlock
    THEN Append(blocks, <<tuple>>)
    ELSE [blocks EXCEPT ![Len(blocks)] = Append(@, tuple)]

\* The vectors of a payload up to the first empty one.
FilledVectors(vectors) ==
    SubSeq(vectors, 1, Min({v \in DOMAIN vectors : vectors[v] = <<>>} \cup {Len(vectors) + 1}) - 1)

\* A dump appends as many tuples as the longest payload has vectors.
Rounds(filled) == Max({Len(filled[j]) : j \in Payloads})

\* dumpCachedKeyPayloads: a key with an empty payload is skipped.  Otherwise
\* the vectors of all payloads are appended side by side; a payload that has
\* no more is empty in the tuples that follow.
Dumped(t) ==
    LET filled == [j \in Payloads |-> FilledVectors(cachedPayloads[t][j])]
        tuple(k, r) == [key |-> k, ids |-> [j \in Payloads |->
                          IF r <= Len(filled[j]) THEN filled[j][r] ELSE <<>>]]
    IN  IF cachedKey[t] = {} \/ \E j \in Payloads : filled[j] = <<>>
        THEN hashTable[t]
        ELSE LET k == CHOOSE x \in cachedKey[t] : TRUE
             IN  FoldLeft(AppendTuple, hashTable[t], [r \in 1..Rounds(filled) |-> tuple(k, r)])

\* The cleanup after a dump: the vectors stay allocated.
Emptied(vectors) == [v \in DOMAIN vectors |-> <<>>]

\* Mutant: the payload vectors keep what was cached.
NothingCleared(vectors) == vectors

\* After caching, nothing is selected in the payload vectors: the hash joins
\* may return them again.
Cleared(vectors) == NoIds

\* One tuple of the child in executeInternal: a new key dumps the cached one.
CacheTuple(t) ==
    /\ state[t] = "cache"
    /\ LET isNewKey == cachedKey[t] # boundNode[t]
           cache == [j \in Payloads |-> IF isNewKey THEN Emptied(cachedPayloads[t][j])
                                                    ELSE cachedPayloads[t][j]]
       IN  /\ hashTable' = [hashTable EXCEPT ![t] = IF isNewKey THEN Dumped(t) ELSE @]
           /\ cachedKey' = [cachedKey EXCEPT ![t] = boundNode[t]]
           /\ cachedPayloads' = [cachedPayloads EXCEPT ![t] = [j \in Payloads |->
                  FoldLeft(CacheId, cache[j], payloadVectors[t][j])]]
    /\ payloadVectors' = [payloadVectors EXCEPT ![t] = Cleared(@)]
    /\ state' = [state EXCEPT ![t] = "pull"]
    /\ UNCHANGED <<sharedVars, scanVars, matched>>

\* FactorizedTable::merge: the other table's blocks take the place of the last
\* block, whose tuples fill up the new last block; the rest is a block again.
Merge(blocks, other) ==
    IF other = <<>> THEN blocks
    ELSE IF blocks = <<>> THEN other
    ELSE LET old == Last(blocks)
             moved == Min({numTuplesPerBlock - Len(Last(other)), Len(old)})
         IN  Front(blocks) \o Front(other) \o <<Last(other) \o SubSeq(old, 1, moved)>>
                \o (IF moved < Len(old) THEN <<SubSeq(old, moved + 1, Len(old))>> ELSE <<>>)

\* The child has no more tuples: the thread dumps the last key and merges its
\* table under the mutex of the shared state.  Its operators are gone then.
MergeTable(t) ==
    /\ state[t] = "pull" /\ Pending(t) = {}
    /\ stateFinished[t] = Payloads /\ unscanned = {}
    /\ sharedTable' = Merge(sharedTable, Dumped(t))
    /\ cachedKey' = [cachedKey EXCEPT ![t] = {}]
    /\ cachedPayloads' = [cachedPayloads EXCEPT ![t] = [j \in Payloads |-> <<<<>>>>]]
    /\ hashTable' = [hashTable EXCEPT ![t] = <<>>]
    /\ boundNode' = [boundNode EXCEPT ![t] = {}]
    /\ state' = [state EXCEPT ![t] = "merged"]
    /\ UNCHANGED <<edges, unscanned, built, rest, stateFinished, batch, mid,
                   matched, payloadVectors>>

\* finalizeInternal, after the last thread: the tuples are linked.
BuildHashSlots ==
    /\ ~built
    /\ \A t \in Threads : state[t] = "merged"
    /\ built' = TRUE
    /\ UNCHANGED <<edges, unscanned, sharedTable, state, scanVars, matched,
                   payloadVectors, cacheVars>>

BuildNext ==
    \/ \E t \in Threads :
          SharedScan(t) \/ HashJoinContinues(t) \/ CacheTuple(t) \/ MergeTable(t)
    \/ BuildHashSlots

-----------------------------------------------------------------------------
\* Block by block, each tuple is put in front of the chain of its slot.
Chain == Reverse(FlattenSeq(sharedTable))

\* What a probe finds: it follows the chain, compares the keys, leaves out
\* empty vectors and reverses the rest.
Lookup(k, j) ==
    LET mine == SelectSeq(Chain, LAMBDA tuple : tuple.key = k /\ tuple.ids[j] # <<>>)
    IN  Reverse([n \in DOMAIN mine |-> mine[n].ids[j]])

\* The vectors of a list: full ones, and a shorter last one.
Vectors(list) ==
    [v \in 1..((Len(list) + DEFAULT_VECTOR_CAPACITY - 1) \div DEFAULT_VECTOR_CAPACITY) |->
        SubSeq(list, (v - 1) * DEFAULT_VECTOR_CAPACITY + 1,
               Min({v * DEFAULT_VECTOR_CAPACITY, Len(list)}))]

\* Hash joins on top of each other return the neighbours by an upper path
\* again for every further tuple of a lower one.
NoRepeatedProbe ==
    \/ Cardinality(FlatPaths) <= 1
    \/ \A k \in Keys, j \in FlatPaths :
          \A n \in DOMAIN edges[k][j] : Len(edges[k][j][n]) <= 1

\* The shared hash table holds, for each key that has a neighbour by every
\* path, all its neighbours exactly once and in the order of the scan, in full
\* vectors but for the last; and nothing for any other key.  This holds
\* however the scans split the lists into batches, the threads share the
\* keys, and the tables are merged, unless NoRepeatedProbe fails.
TableHoldsLists ==
    built /\ NoRepeatedProbe =>
        \A k \in Keys, j \in Payloads :
            Lookup(k, j) = IF \A i \in Payloads : Scanned(k, i) # <<>>
                           THEN Vectors(Scanned(k, j)) ELSE <<>>
=============================================================================
