--------------------------- MODULE SnapshotStore ---------------------------
(***************************************************************************)
(* What the tables and the catalog promise their users, whatever versions  *)
(* they keep: a transaction works on the database as it was when it began, *)
(* plus its own writes.  Its writes reach the database all at once when it *)
(* commits, and not at all when it rolls back.  One transaction writes at  *)
(* a time.                                                                 *)
(***************************************************************************)
EXTENDS Naturals, FiniteSets

CONSTANTS Clients, Items, Values, Absent

VARIABLES db,                   \* the committed value of each item, or Absent
          mode,                 \* per client: "none", "read" or "write"
          view                  \* per client: the items as its transaction sees them

vars == <<db, mode, view>>

Contents == [Items -> Values \cup {Absent}]
Nothing == [i \in Items |-> Absent]

Init ==
    /\ db \in Contents
    /\ mode = [c \in Clients |-> "none"]
    /\ view = [c \in Clients |-> Nothing]

Begin(c, m) ==
    /\ mode[c] = "none"
    /\ m = "write" => \A d \in Clients : mode[d] # "write"
    /\ mode' = [mode EXCEPT ![c] = m]
    /\ UNCHANGED db
    /\ view' = [view EXCEPT ![c] = db]

\* A write inserts items that were absent, changes or removes one item, or
\* moves a value from one item to another.
IsWrite(old, new) ==
    LET changed == {i \in Items : new[i] # old[i]}
    IN  /\ \A i \in changed : new[i] \in Values \cup {Absent}
        /\ \/ \A i \in changed : old[i] = Absent
           \/ Cardinality(changed) = 1
           \/ \E i, j \in changed : /\ changed = {i, j}
                                    /\ old[j] = Absent /\ new[i] = Absent
                                    /\ new[j] = old[i]

Write(c) ==
    /\ mode[c] = "write"
    /\ UNCHANGED <<mode, db>>
    /\ \A d \in Clients \ {c} : view'[d] = view[d]
    /\ IsWrite(view[c], view'[c])

Leave(c) ==
    /\ mode[c] # "none"
    /\ mode' = [mode EXCEPT ![c] = "none"]

Forget(c) == view' = [view EXCEPT ![c] = Nothing]

Commit(c) == mode[c] = "write" /\ Leave(c) /\ db' = view[c] /\ Forget(c)

EndOrRollback(c) == Leave(c) /\ UNCHANGED db /\ Forget(c)

Next ==
    \E c \in Clients :
        \/ \E m \in {"read", "write"} : Begin(c, m)
        \/ Write(c) \/ Commit(c) \/ EndOrRollback(c)

Spec == Init /\ [][Next]_vars
=============================================================================
