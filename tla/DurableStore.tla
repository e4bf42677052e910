---------------------------- MODULE DurableStore ----------------------------
(***************************************************************************)
(* What a database on disk promises its users, whatever its files look     *)
(* like: a committed transaction stays committed, in its place, across     *)
(* closing, crashing and reopening.  Bulk loads are different: they are    *)
(* committed before they are saved, are acknowledged once they are saved,  *)
(* and may be gone after a restart until then, while the transactions      *)
(* behind them stay.                                                       *)
(*                                                                         *)
(* The one thing a crash leaves open is the fate of a transaction whose    *)
(* commit was under way; opening the database settles it.                  *)
(***************************************************************************)
EXTENDS Naturals, Sequences, Functions

CONSTANTS Transactions,         \* the transactions that may ever commit
          BulkLoads,            \* the ones a commit alone does not save
          None                  \* no transaction, or nothing left of one

VARIABLES isOpen,               \* the database is open
          committed,            \* the committed transactions, in commit order
          durable,              \* what is left of them after a restart
          committing            \* the transaction whose commit is under way

vars == <<isOpen, committed, durable, committing>>

Init == isOpen = FALSE /\ committed = <<>> /\ durable = <<>> /\ committing = None

BeginCommit ==
    /\ isOpen /\ committing = None
    /\ committing' \in Transactions \ Range(committed)
    /\ UNCHANGED <<isOpen, committed, durable>>

\* What is left of committed transactions when one more is committed.
WithCommit == Append(durable, IF committing \in BulkLoads THEN None ELSE committing)

EndCommit ==
    /\ isOpen /\ committing # None
    /\ committed' = Append(committed, committing)
    /\ durable' = WithCommit
    /\ committing' = None
    /\ UNCHANGED isOpen

\* The open database, or the recovery of what it had begun, saves all that is
\* committed.
Save == durable' = committed /\ UNCHANGED <<isOpen, committed, committing>>

\* Closing waits for the commit under way; crashing does not.
Stop == isOpen /\ isOpen' = FALSE /\ UNCHANGED <<committed, durable, committing>>

Open ==
    /\ ~isOpen /\ isOpen' = TRUE
    /\ committing' = None
    /\ \/ committed' = durable
       \/ committing # None /\ committed' = WithCommit
    /\ durable' = committed'

Next == BeginCommit \/ EndCommit \/ Save \/ Stop \/ Open

Spec == Init /\ [][Next]_vars
=============================================================================
