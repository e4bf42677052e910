----------------------------- MODULE CycleJoin -----------------------------
(***************************************************************************)
(* CycleJoin as a whole: the hash table of one left node is built by       *)
(* IntersectMultiwayBuild, then IntersectMultiway probes it together with  *)
(* the tables of the other left nodes.  Those are built in the same way,   *)
(* by tasks of their own, and are taken as built.  The task scheduler      *)
(* starts the probe when the builds are complete.                          *)
(*                                                                         *)
(* The probe sorts the vectors of the tables in place.  A later tuple with *)
(* the same key finds them sorted and sorts them again, which changes      *)
(* nothing; the model leaves the tables as they were built.                *)
(***************************************************************************)
EXTENDS IntersectMultiwayBuild, IntersectMultiway

CONSTANTS BuiltNode,  \* the left node whose table is built
          Neighbours  \* the neighbour lists of the other left nodes

ASSUME CycleJoinAssumption ==
    /\ BuiltNode \in LeftNodes
    /\ Payloads = left2right(BuiltNode)
    /\ DEFAULT_VECTOR_CAPACITY = Capacity
    /\ \A other \in Neighbours : DOMAIN other = {e \in Connected : e[1] # BuiltNode}

vars == <<buildVars, probeVars>>

Init == BuildInit /\ ProbeInit

\* The threads of the build task.
Build == BuildNext /\ UNCHANGED probeVars

\* The neighbour lists of a tuple with key k for the left node BuiltNode.
GraphLists(k, other) ==
    [e \in Connected |-> IF e[1] = BuiltNode THEN Scanned(k, e[2]) ELSE other[e]]

\* A complete table of another left node: nothing for a key without a
\* neighbour by one of its paths.
Stored(other, e) ==
    IF \E j \in left2right(e[1]) : other[<<e[1], j>>] = <<>> THEN <<>> ELSE Vectors(other[e])

\* A tuple of the probe child is looked up in all tables.
ProbeTuple ==
    /\ built
    /\ \E k \in Keys, other \in Neighbours :
          probeHTs([i \in LeftNodes |-> [j \in RightNodes |->
                       IF <<i, j>> \notin Connected THEN <<>>
                       ELSE IF i = BuiltNode THEN Lookup(k, j)
                       ELSE Stored(other, <<i, j>>)]],
                   GraphLists(k, other))
    /\ UNCHANGED buildVars

\* The probe goes on with the tuple, or ends.
Probe == built /\ ProbeNext /\ UNCHANGED buildVars

Next == Build \/ ProbeTuple \/ Probe

Spec == Init /\ [][Next]_vars
=============================================================================
