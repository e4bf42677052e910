---------------------------- MODULE MCCycleJoin ----------------------------
(***************************************************************************)
(* Instances of CycleJoin: three left nodes, all connected to two right    *)
(* nodes, and vectors of two or three identifiers.  The right node 2 is    *)
(* reached from the built left node by paths of two edges.                 *)
(***************************************************************************)
EXTENDS CycleJoin, TLC

MCConnected == (1..3) \X (1..2)

OtherConnected == {e \in MCConnected : e[1] # 1}

\* Middle nodes with no, one and two tuples in the hash join.
OneTuple == <<<<1, 2>>>>
TwoTuples == <<<<2>>, <<2, 1>>>>
MiddleNodes == {<<OneTuple>>, <<<<>>, TwoTuples>>, <<TwoTuples, <<>>, <<<<3>>>>>>}

\* One key with lists of up to two vectors, in order or not, with repeated
\* neighbours or none; one with a list of three vectors.
MCEdges ==
    {<< <<direct, middle>>, <<<<3, 1, 2, 2, 1>>, <<OneTuple>>>> >> :
        direct \in {<<>>, <<3>>, <<2, 1>>, <<1, 1>>, <<1, 2, 3>>, <<2, 3, 1>>},
        middle \in MiddleNodes}

MCNeighbours ==
    {[e \in OtherConnected |-> IF e[2] = 1 THEN left[e[1] - 1] ELSE right[e[1] - 1]] :
        left \in {<<2>>, <<3, 1>>, <<1, 3, 1>>, <<1, 1, 2>>, <<1, 2, 3>>}
                \X {<<>>, <<1>>, <<3, 2>>, <<2, 1, 3>>},
        right \in {<<2, 1>>, <<1, 2, 2>>} \X {<<1, 2>>}}

\* Lists of one block, with parallel edges.
MCParallelEdges == [{1} -> [1..2 -> {<<1>>, <<1, 1>>}]]
MCParallelNeighbours == [OtherConnected -> {<<1>>, <<1, 1>>}]

ThreadSymmetry == Permutations(Threads)
=============================================================================
