-------------------------- MODULE MCTaskScheduler --------------------------
(* A small instance of TaskScheduler for TLC. *)
EXTENDS TaskScheduler

CONSTANTS join, build, gds, frontier

\* A hash join, whose probe pipeline depends on the build pipeline, together
\* with a graph algorithm that schedules a frontier task.
BothTasks == {join, build, gds, frontier}
BothChildren == [t \in BothTasks |-> IF t = join THEN <<build>> ELSE <<>>]
BothNested == [t \in BothTasks |-> IF t = gds THEN frontier ELSE None]
BothThreads == [t \in BothTasks |-> IF t \in {build, frontier} THEN 2 ELSE 1]
=============================================================================
