------------------------- MODULE IntersectMultiway -------------------------
(***************************************************************************)
(* The probe side of CycleJoin: for each tuple of the probe child,         *)
(* IntersectMultiway looks up the neighbour lists of its left nodes in one *)
(* hash table per left node, intersects for every right node the lists of  *)
(* the left nodes connected to it, and returns the Cartesian product of    *)
(* the intersections, vector by vector.                                    *)
(*                                                                         *)
(* Node identifiers are numbers (one node table).  A neighbour list is     *)
(* stored as IntersectMultiwayBuild leaves it: in blocks of Capacity       *)
(* identifiers, the vector capacity of the system.  CycleJoin composes the *)
(* two.  One thread runs the operator.  Where the code loops over cursors, *)
(* the model says where they end up.                                       *)
(***************************************************************************)
EXTENDS Naturals, Sequences, SequencesExt, FiniteSetsExt, Functions

CONSTANTS numLeftNodes,       \* the probe (left) nodes
          numRightNodes,      \* the build (right) nodes
          Connected,          \* the pairs <<left, right>> that share an edge
          Ids,                \* the node identifiers
          Capacity,           \* identifiers in a vector
          EnableDynamicOrder, \* intersect the cheapest right node first
          MaxTuples           \* bound: tuples of the probe child

LeftNodes == 1..numLeftNodes
RightNodes == 1..numRightNodes

right2left(j) == {i \in LeftNodes : <<i, j>> \in Connected}
left2right(i) == {j \in RightNodes : <<i, j>> \in Connected}

ASSUME IntersectMultiwayAssumption ==
    /\ numLeftNodes \in Nat \ {0, 1}
    /\ numRightNodes \in Nat \ {0, 1}
    /\ Connected \subseteq LeftNodes \X RightNodes
    /\ \A i \in LeftNodes : Cardinality(left2right(i)) >= 2
    /\ \A j \in RightNodes : Cardinality(right2left(j)) >= 2
    /\ Ids \subseteq Nat
    /\ Capacity \in Nat \ {0}
    /\ EnableDynamicOrder \in BOOLEAN
    /\ MaxTuples \in Nat

VARIABLES pc,         \* pull, choose, scan, emit or end
          tuples,     \* tuples pulled from the child
          lists,      \* the neighbour lists of this tuple in the graph
          probedIds,  \* the blocks of the neighbour lists of this tuple
          remaining,  \* right nodes not intersected yet
          node,       \* the right node being intersected
          cursor,     \* the position of each of its left nodes' TupleCursor
          target,     \* the identifier the cursors are looking for
          cached,     \* per right node, cachedIntersectionResults in one row
          selSize,    \* the selected size of the output vector, which is also
                      \* that of the first cached vector: they share a state
          position,   \* tuple_cursors of the loop over the cached vectors
          output,     \* the identifiers in the output vectors
          emitted     \* how often each combination was returned for the tuple

probeVars == <<pc, tuples, lists, probedIds, remaining, node, cursor, target,
               cached, selSize, position, output, emitted>>

probing == <<tuples, lists, probedIds>>
scanning == <<remaining, node, cursor, target>>
looping == <<position, output, emitted>>

\* The identifiers a TupleCursor walks through.
Row(i, j) == FlattenSeq(probedIds[i][j])

Occurrences(list, x) == Cardinality({p \in 1..Len(list) : list[p] = x})

Combinations == [RightNodes -> Ids]

Product(f, S) == FoldFunctionOnSet(LAMBDA a, b : a * b, 1, f, S)

\* What the query asks for: a combination occurs once for every choice of an
\* edge between each connected pair of nodes.
Expected(x) ==
    Product([e \in Connected |-> Occurrences(lists[e], x[e[2]])], Connected)

-----------------------------------------------------------------------------
ProbeInit ==
    /\ pc = "pull" /\ tuples = 0 /\ lists = [e \in Connected |-> <<>>]
    /\ probedIds = [i \in LeftNodes |-> [j \in RightNodes |-> <<>>]]
    /\ remaining = {} /\ node = 1
    /\ cursor = [i \in LeftNodes |-> 1] /\ target = 0
    /\ cached = [j \in RightNodes |-> <<>>]
    /\ selSize = [j \in RightNodes |-> 0]
    /\ position = [j \in RightNodes |-> 0]
    /\ output = [j \in RightNodes |-> <<>>]
    /\ emitted = [x \in Combinations |-> 0]

\* The child has no more tuples.
ChildExhausted ==
    /\ pc = "pull"
    /\ pc' = "end"
    /\ UNCHANGED <<probing, scanning, cached, selSize, looping>>

\* The child's next tuple: its keys are looked up in the hash tables.  The
\* tuple is dropped when a list is missing.
probeHTs(found, graphLists) ==
    /\ pc = "pull"
    /\ tuples < MaxTuples
    /\ tuples' = tuples + 1
    /\ lists' = graphLists
    /\ probedIds' = found
    /\ pc' = IF \E e \in Connected : found[e[1]][e[2]] = <<>> THEN "pull" ELSE "choose"
    /\ remaining' = RightNodes
    /\ emitted' = [x \in Combinations |-> 0]
    /\ UNCHANGED <<node, cursor, target, cached, selSize, position, output>>

\* The product of the lengths of the lists that meet in a right node.
card_prod(j) == Product([i \in LeftNodes |-> Len(Row(i, j))], right2left(j))

\* Mutant: the blocks are taken for sorted.
KeepBlocks(blocks) == blocks

SortBlocks(blocks) == [b \in DOMAIN blocks |-> SortSeq(blocks[b], <)]

\* The next right node: the one with the smallest product (equal ones in any
\* order) or the next in line.  Each block of its lists is sorted, in place.
ChooseNode ==
    /\ pc = "choose"
    /\ \E j \in remaining :
          /\ \A k \in remaining :
                IF EnableDynamicOrder THEN card_prod(j) <= card_prod(k) ELSE j <= k
          /\ node' = j
          /\ remaining' = remaining \ {j}
          /\ probedIds' = [i \in LeftNodes |-> [probedIds[i] EXCEPT ![j] = SortBlocks(@)]]
          /\ cached' = [cached EXCEPT ![j] = <<>>]
          /\ selSize' = [selSize EXCEPT ![j] = 0]
          /\ target' = probedIds'[Min(right2left(j))][j][1][1]
    /\ cursor' = [i \in LeftNodes |-> 1]
    /\ pc' = "scan"
    /\ UNCHANGED <<tuples, lists, looping>>

\* The vectors of a right node hold Capacity results each; the first one's
\* size is selSize.  Mutant: a full vector takes more results.
UnboundedVectorSize(results) == Len(results)

FirstVectorSize(results) == Min({Len(results), Capacity})

cursorFinished(j, v) == v * Capacity >= Len(cached[j])

CachedVector(j, v) ==
    SubSeq(cached[j], v * Capacity + 1, Min({(v + 1) * Capacity, Len(cached[j])}))

\* The output vectors are returned: all their combinations are output tuples.
Return(vectors) ==
    /\ output' = vectors
    /\ emitted' = [x \in Combinations |->
          emitted[x] + Product([j \in RightNodes |-> Occurrences(vectors[j], x[j])],
                               RightNodes)]

\* The lists of one right node are intersected.  An empty intersection drops
\* the tuple; after the last right node the loop over the results is reset
\* and the first vectors are returned.
Intersected ==
    /\ cursor' = [i \in LeftNodes |-> 1]
    /\ target' = 0
    /\ \/ /\ cached'[node] = <<>>
          /\ pc' = "pull"
          /\ UNCHANGED looping
       \/ /\ cached'[node] # <<>> /\ remaining # {}
          /\ pc' = "choose"
          /\ UNCHANGED looping
       \/ /\ cached'[node] # <<>> /\ remaining = {}
          /\ pc' = "emit"
          /\ position' = [j \in RightNodes |-> 0]
          /\ Return([j \in RightNodes |-> SubSeq(cached'[j], 1, selSize'[j])])

\* goUtil: the cursor's first position at or after the target.
goUtil(i) ==
    Min({p \in cursor[i]..Len(Row(i, node)) : Row(i, node)[p] >= target}
            \cup {Len(Row(i, node)) + 1})

Hits(i) == goUtil(i) <= Len(Row(i, node)) /\ Row(i, node)[goUtil(i)] = target

\* The cursors move to the target in turn, up to the first that misses it:
\* where that one stands is the new target, unless its list is exhausted.
ForwardCursors ==
    /\ pc = "scan"
    /\ \E k \in right2left(node) :
          /\ ~Hits(k)
          /\ \A i \in right2left(node) : i < k => Hits(i)
          /\ UNCHANGED <<cached, selSize>>
          /\ \/ /\ goUtil(k) > Len(Row(k, node))
                /\ Intersected
             \/ /\ goUtil(k) <= Len(Row(k, node))
                /\ target' = Row(k, node)[goUtil(k)]
                /\ cursor' = [i \in LeftNodes |->
                      IF i \in right2left(node) /\ i <= k THEN goUtil(i) ELSE cursor[i]]
                /\ UNCHANGED <<pc, looping>>
    /\ UNCHANGED <<probing, remaining, node>>

\* The first position behind the run of the target that the cursor is at.
BehindRun(i) ==
    Min({p \in goUtil(i)..Len(Row(i, node)) : Row(i, node)[p] # target}
            \cup {Len(Row(i, node)) + 1})

\* All cursors are at the target: it is a result as often as its runs can be
\* combined, and the cursors move behind their runs.
MatchTarget ==
    /\ pc = "scan"
    /\ \A i \in right2left(node) : Hits(i)
    /\ LET behind == [i \in right2left(node) |-> BehindRun(i)]
           count == Product([i \in right2left(node) |-> behind[i] - goUtil(i)],
                            right2left(node))
           found == cached[node] \o [n \in 1..count |-> target]
       IN  /\ cached' = [cached EXCEPT ![node] = found]
           /\ selSize' = [selSize EXCEPT ![node] = FirstVectorSize(found)]
           /\ \/ /\ \E i \in right2left(node) : behind[i] > Len(Row(i, node))
                 /\ Intersected
              \/ /\ \A i \in right2left(node) : behind[i] <= Len(Row(i, node))
                 /\ cursor' = [i \in LeftNodes |->
                       IF i \in right2left(node) THEN behind[i] ELSE cursor[i]]
                 /\ target' = Max({target} \cup
                       {Row(i, node)[behind[i]] : i \in right2left(node)})
                 /\ UNCHANGED <<pc, looping>>
    /\ UNCHANGED <<probing, remaining, node>>

\* Mutant: the output vectors are left as they are.
NotRewound(k) == [j \in RightNodes |-> output[j]]

\* The output vectors after the loop moved the vectors of the right nodes
\* before k back to their first one (those that had left it), with the size
\* that the first vector has now.
Rewound(k) ==
    [j \in RightNodes |->
        IF j < k /\ position[j] # 0 THEN SubSeq(cached[j], 1, selSize[j]) ELSE output[j]]

\* The loop over the combinations of cached vectors: the first right node that
\* has another vector moves to it, which sets the size of its output vector.
gotoNext ==
    /\ pc = "emit"
    /\ \E k \in RightNodes :
          /\ ~cursorFinished(k, position[k] + 1)
          /\ \A j \in RightNodes : j < k => cursorFinished(j, position[j] + 1)
          /\ position' = [j \in RightNodes |->
                IF j < k THEN 0 ELSE IF j = k THEN position[j] + 1 ELSE position[j]]
          /\ LET vector == CachedVector(k, position[k] + 1)
             IN  /\ selSize' = [selSize EXCEPT ![k] = Len(vector)]
                 /\ Return([Rewound(k) EXCEPT ![k] = vector])
    /\ UNCHANGED <<pc, probing, scanning, cached>>

\* All combinations are returned: the operator asks its child again.
LoopFinished ==
    /\ pc = "emit"
    /\ \A j \in RightNodes : cursorFinished(j, position[j] + 1)
    /\ position' = [j \in RightNodes |->
          IF j < Max(RightNodes) THEN 0 ELSE position[j] + 1]
    /\ output' = Rewound(Max(RightNodes))
    /\ pc' = "pull"
    /\ UNCHANGED <<probing, scanning, cached, selSize, emitted>>

ProbeNext ==
    \/ ChildExhausted \/ ChooseNode \/ ForwardCursors \/ MatchTarget
    \/ gotoNext \/ LoopFinished

-----------------------------------------------------------------------------
\* The state has its type; in particular the operator never selects more
\* than a cached vector holds, nor leaves a cursor outside its list.
TypeOK ==
    /\ pc \in {"pull", "choose", "scan", "emit", "end"}
    /\ tuples \in 0..MaxTuples
    /\ remaining \subseteq RightNodes /\ node \in RightNodes
    /\ \A j \in RightNodes :
          /\ selSize[j] \in 0..Min({Capacity, Len(cached[j])})
          /\ Len(output[j]) <= Capacity
    /\ pc = "scan" =>
          \A i \in right2left(node) : cursor[i] \in 1..Len(Row(i, node))
    /\ emitted \in [Combinations -> Nat]

\* What the operator returns is in the join: no combination is returned more
\* often than the edges of the graph justify, whatever the blocks, the
\* repeated neighbours and the number of result vectors.
OnlyMatches == \A x \in Combinations : emitted[x] <= Expected(x)

TupleDone == pc \in {"pull", "end"} /\ tuples > 0

\* A list is in order when sorting its blocks sorts it.
InOrder(i, j) ==
    \A a, b \in DOMAIN probedIds[i][j] :
        a < b => \A p \in DOMAIN probedIds[i][j][a], q \in DOMAIN probedIds[i][j][b] :
                    probedIds[i][j][a][p] <= probedIds[i][j][b][q]

\* When the lists are in order and at most one right node has more results
\* than fit in a vector, the operator returns the whole join of the tuple.
AllMatches ==
    /\ TupleDone
    /\ \A e \in Connected : InOrder(e[1], e[2])
    /\ \A j, k \in RightNodes :
          Len(cached[j]) > Capacity /\ Len(cached[k]) > Capacity => j = k
    => \A x \in Combinations : emitted[x] = Expected(x)

\* intersect_multiway.h: "this operator outputs the Cartesian product of
\* intersections".  When a tuple is done, each combination of intersected
\* neighbours was returned as often as the product has it.
OutputsProduct ==
    TupleDone =>
        \/ \E j \in RightNodes : cached[j] = <<>>
        \/ \E e \in Connected : probedIds[e[1]][e[2]] = <<>>
        \/ \A x \in Combinations :
              emitted[x] = Product([j \in RightNodes |-> Occurrences(cached[j], x[j])],
                                   RightNodes)
=============================================================================
