------------------------- MODULE TransactionManager -------------------------
(***************************************************************************)
(* Connections running statements against the transaction manager of one   *)
(* on-disk database.                                                       *)
(*                                                                         *)
(* Each connection (a ClientContext with its TransactionContext) executes  *)
(* its statements one at a time.  ClientContext::query runs a statement in *)
(* three calls of TransactionHelper::runFuncInTransaction, the phases      *)
(* below: the read/write analysis, binding and planning, and execution.    *)
(* The manager's public functions take mtxForSerializingPublicFunctionCalls*)
(* (pubLock); beginTransaction and the checkpoint's wait also take         *)
(* mtxForStartingNewTransactions (startLock).                              *)
(***************************************************************************)
EXTENDS Integers, FiniteSets

CONSTANTS
    Clients,            \* connections
    None,               \* "no thread holds the lock"
    EnableMultiWrites,  \* DBConfig::enableMultiWrites
    MaxStatements       \* bound: statements the connections submit in all

ASSUME ConstantsAssumption ==
    /\ None \notin Clients
    /\ EnableMultiWrites \in BOOLEAN
    /\ MaxStatements \in Nat

VARIABLES
    pubLock,            \* holder of mtxForSerializingPublicFunctionCalls
    startLock,          \* holder of mtxForStartingNewTransactions
    lastTransactionID,  \* relative to START_TRANSACTION_ID
    lastTimestamp,
    activeTransactions, \* records [id, type, startTS, seen]
    committed,          \* history: [id, commitTS] of every committed write
    mode,               \* TransactionContext::mode of each connection
    txn,                \* TransactionContext::activeTransaction, as an ID
    stmt,               \* the statement being run
    phase,              \* which runFuncInTransaction call it is in
    isNew,              \* that call's requireNewTransaction
    pc,                 \* where in the call the connection's thread is
    left                \* statements that may still be submitted

locks == <<pubLock, startLock>>
manager == <<lastTransactionID, lastTimestamp, activeTransactions, committed>>
context == <<mode, txn>>
call == <<stmt, phase, isNew, pc, left>>
vars == <<locks, manager, context, call>>

\* A null activeTransaction pointer; transaction IDs start at 1.
NoTxn == 0

TransactionStatements ==
    {"beginRead", "beginWrite", "commit", "rollback", "checkpoint"}
Statements == {"read", "write"} \cup TransactionStatements
Phases == {"analyze", "plan", "execute"}
\* The places where a thread is inside a checkpoint, with pubLock held.
CheckpointPCs == {"stop", "wait", "write"}
PCs == {"idle", "enter", "begin", "fun", "commit", "rollback", "checkpoint",
        "closing", "closed"} \cup CheckpointPCs

Init ==
    /\ pubLock = None
    /\ startLock = None
    /\ lastTransactionID = 0
    /\ lastTimestamp = 1
    /\ activeTransactions = {}
    /\ committed = {}
    /\ mode = [c \in Clients |-> "AUTO"]
    /\ txn = [c \in Clients |-> NoTxn]
    /\ stmt = [c \in Clients |-> "read"]
    /\ phase = [c \in Clients |-> "analyze"]
    /\ isNew = [c \in Clients |-> FALSE]
    /\ pc = [c \in Clients |-> "idle"]
    /\ left = MaxStatements

-----------------------------------------------------------------------------
(* Helpers of the connection.                                              *)

hasActiveTransaction(c) == txn[c] # NoTxn
isAutoTransaction(c) == mode[c] = "AUTO"

\* The flag each phase passes: the analysis always passes false.
isTransactionStatement(c) ==
    phase[c] # "analyze" /\ stmt[c] \in TransactionStatements

\* Type of the transaction that a phase or a BEGIN statement starts.
beginType(c) ==
    IF phase[c] # "analyze" /\ stmt[c] \in {"write", "beginWrite"}
    THEN "WRITE" ELSE "READ_ONLY"

\* Mutant: an auto transaction opened by an earlier call is never committed.
commitsAfterFun_OnlyIfNew(c) == isNew[c] /\ phase[c] # "plan"

\* The condition under which runFuncInTransaction commits after fun():
\* COMMIT_IF_NEW for the analysis, NOT_COMMIT for planning, and
\* COMMIT_NEW_OR_AUTO (COMMIT_IF_NEW for transaction statements) for execution.
commitsAfterFun(c) ==
    \/ isNew[c] /\ phase[c] # "plan"
    \/ isAutoTransaction(c) /\ phase[c] = "execute" /\ ~isTransactionStatement(c)

\* ClientContext::validateTransaction: a write statement is refused inside a
\* manual read-only transaction.
validateTransaction(c) ==
    stmt[c] = "write" =>
        \A t \in activeTransactions : t.id = txn[c] => isNew[c] \/ t.type # "READ_ONLY"

\* A runFuncInTransaction call returned normally.
phaseDone(c) ==
    CASE phase[c] = "analyze" /\ validateTransaction(c) ->
            /\ phase' = [phase EXCEPT ![c] = "plan"]
            /\ pc' = [pc EXCEPT ![c] = "enter"]
      [] phase[c] = "plan" ->
            /\ phase' = [phase EXCEPT ![c] = "execute"]
            /\ pc' = [pc EXCEPT ![c] = "enter"]
      [] OTHER ->
            /\ pc' = [pc EXCEPT ![c] = "idle"]
            /\ UNCHANGED phase

\* Mutant: the context keeps an invalid ID instead of a null pointer.
clearTransaction_InvalidID(c) ==
    /\ txn' = [txn EXCEPT ![c] = -1]
    /\ mode' = [mode EXCEPT ![c] = "AUTO"]

clearTransaction(c) ==
    /\ txn' = [txn EXCEPT ![c] = NoTxn]
    /\ mode' = [mode EXCEPT ![c] = "AUTO"]

-----------------------------------------------------------------------------
(* Steps of the connection outside the manager.                            *)

\* ClientContext::query: a user submits the next statement.
Submit(c) ==
    /\ pc[c] = "idle"
    /\ left > 0
    /\ left' = left - 1
    /\ \E s \in Statements : stmt' = [stmt EXCEPT ![c] = s]
    /\ phase' = [phase EXCEPT ![c] = "analyze"]
    /\ pc' = [pc EXCEPT ![c] = "enter"]
    /\ UNCHANGED <<locks, manager, context, isNew>>

\* runFuncInTransaction up to the call of fun.  A failing KU_ASSERT throws
\* before the try block, so the statement fails and nothing is rolled back.
Enter(c) ==
    /\ pc[c] = "enter"
    /\ IF isAutoTransaction(c) \/ hasActiveTransaction(c)
       THEN LET requireNew == /\ isAutoTransaction(c)
                              /\ ~hasActiveTransaction(c)
                              /\ ~isTransactionStatement(c)
            IN /\ isNew' = [isNew EXCEPT ![c] = requireNew]
               /\ pc' = [pc EXCEPT ![c] = IF requireNew THEN "begin" ELSE "fun"]
       ELSE /\ pc' = [pc EXCEPT ![c] = "idle"]
            /\ UNCHANGED isNew
    /\ UNCHANGED <<locks, manager, context, stmt, phase, left>>

\* Mutant: the handler clears the context without rolling back.
FunThrows_NoRollback(c) ==
    /\ pc[c] = "fun"
    /\ pc' = [pc EXCEPT ![c] = "idle"]
    /\ clearTransaction(c)
    /\ UNCHANGED <<locks, manager, stmt, phase, isNew, left>>

\* fun() throws: the analyzer, the binder, an operator, an interrupt.
FunThrows(c) ==
    /\ pc[c] = "fun"
    /\ pc' = [pc EXCEPT ![c] = "rollback"]
    /\ UNCHANGED <<locks, manager, context, stmt, phase, isNew, left>>

\* fun() of the analysis, of planning, or of a query's execution returns.
FunReturns(c) ==
    /\ pc[c] = "fun"
    /\ ~(phase[c] = "execute" /\ isTransactionStatement(c))
    /\ IF commitsAfterFun(c) /\ hasActiveTransaction(c)
       THEN pc' = [pc EXCEPT ![c] = "commit"] /\ UNCHANGED phase
       ELSE phaseDone(c)
    /\ UNCHANGED <<locks, manager, context, stmt, isNew, left>>

\* fun() of a transaction statement: Transaction::getNextTuplesInternal after
\* validateActiveTransaction accepted it (FunThrows when it does not).
FunTransactionStatement(c) ==
    /\ pc[c] = "fun"
    /\ phase[c] = "execute"
    /\ \/ /\ stmt[c] \in {"beginRead", "beginWrite"}
          /\ ~hasActiveTransaction(c)
          /\ mode' = [mode EXCEPT ![c] = "MANUAL"]
          /\ pc' = [pc EXCEPT ![c] = "begin"]
       \/ /\ stmt[c] \in {"commit", "rollback"}
          /\ hasActiveTransaction(c)
          /\ pc' = [pc EXCEPT ![c] = stmt[c]]
          /\ UNCHANGED mode
       \/ /\ stmt[c] = "checkpoint"
          /\ ~hasActiveTransaction(c)
          /\ pc' = [pc EXCEPT ![c] = "checkpoint"]
          /\ UNCHANGED mode
    /\ UNCHANGED <<locks, manager, txn, stmt, phase, isNew, left>>

\* ~ClientContext: an open transaction is rolled back.
Close(c) ==
    /\ pc[c] = "idle"
    /\ pc' = [pc EXCEPT ![c] = IF hasActiveTransaction(c) THEN "closing" ELSE "closed"]
    /\ UNCHANGED <<locks, manager, context, stmt, phase, isNew, left>>

-----------------------------------------------------------------------------
(* The manager's public functions.                                         *)

\* Any public function first takes the lock that serializes them all.
LockPublic(c) ==
    /\ pc[c] \in {"begin", "commit", "rollback", "closing", "checkpoint"}
    /\ pc[c] = "rollback" => hasActiveTransaction(c)
    /\ pubLock = None
    /\ pubLock' = c
    /\ UNCHANGED <<startLock, manager, context, call>>

\* Mutant: only recovery transactions count as writers.
hasActiveWriteTransactionNoLock_Recovery ==
    \E t \in activeTransactions : t.type = "RECOVERY"

hasActiveWriteTransactionNoLock ==
    \E t \in activeTransactions : t.type = "WRITE"

\* beginTransaction, called by beginAutoTransaction before the try block of
\* runFuncInTransaction or by a BEGIN statement inside it.  On a throw the
\* statement fails with no active transaction, so there is nothing that
\* TransactionContext::rollback would undo: mode keeps what it was set to.
beginTransaction(c) ==
    /\ pc[c] = "begin"
    /\ pubLock = c
    /\ startLock = None
    /\ pubLock' = None
    /\ IF beginType(c) = "WRITE" /\ ~EnableMultiWrites /\ hasActiveWriteTransactionNoLock
       THEN /\ pc' = [pc EXCEPT ![c] = "idle"]
            /\ UNCHANGED <<lastTransactionID, activeTransactions, txn>>
       ELSE /\ lastTransactionID' = lastTransactionID + 1
            /\ activeTransactions' = activeTransactions \cup
                 {[id |-> lastTransactionID', type |-> beginType(c),
                   startTS |-> lastTimestamp, seen |-> {r.id : r \in committed}]}
            /\ txn' = [txn EXCEPT ![c] = lastTransactionID']
            /\ pc' = [pc EXCEPT ![c] = IF isTransactionStatement(c) THEN "idle" ELSE "fun"]
    /\ UNCHANGED <<startLock, lastTimestamp, committed, mode, stmt, phase, isNew, left>>

clearTransactionNoLock(id) ==
    activeTransactions' = {t \in activeTransactions : t.id # id}

\* The type of the transaction that connection c's context points to.
txnType(c) == (CHOOSE t \in activeTransactions : t.id = txn[c]).type

\* commit of a read-only transaction.
CommitReadOnly(c) ==
    /\ pc[c] = "commit"
    /\ pubLock = c
    /\ txnType(c) = "READ_ONLY"
    /\ clearTransactionNoLock(txn[c])
    /\ pubLock' = None
    /\ clearTransaction(c)
    /\ phaseDone(c)
    /\ UNCHANGED <<startLock, lastTransactionID, lastTimestamp, committed,
                   stmt, isNew, left>>

\* Mutant: the commit timestamp is read without advancing the clock.
CommitWrite_SameTimestamp(c) ==
    /\ pc[c] = "commit"
    /\ pubLock = c
    /\ txnType(c) = "WRITE"
    /\ committed' = committed \cup {[id |-> txn[c], commitTS |-> lastTimestamp]}
    /\ clearTransactionNoLock(txn[c])
    /\ pubLock' = None
    /\ clearTransaction(c)
    /\ phaseDone(c)
    /\ UNCHANGED <<startLock, lastTimestamp, lastTransactionID, stmt, isNew, left>>

\* commit of a write transaction whose Transaction::commit succeeds.  Whether
\* a checkpoint follows (forced by COPY FROM, or the WAL over its threshold)
\* is left open; the checkpoint runs under the same hold of pubLock.
CommitWrite(c) ==
    /\ pc[c] = "commit"
    /\ pubLock = c
    /\ txnType(c) = "WRITE"
    /\ lastTimestamp' = lastTimestamp + 1
    /\ committed' = committed \cup {[id |-> txn[c], commitTS |-> lastTimestamp']}
    /\ clearTransactionNoLock(txn[c])
    /\ \E shouldCheckpoint \in BOOLEAN :
          IF shouldCheckpoint
          THEN /\ pc' = [pc EXCEPT ![c] = "stop"]
               /\ UNCHANGED <<pubLock, mode, txn, phase>>
          ELSE /\ pubLock' = None
               /\ clearTransaction(c)
               /\ phaseDone(c)
    /\ UNCHANGED <<startLock, lastTransactionID, stmt, isNew, left>>

\* Mutant: the transaction leaves the active list before its commit throws.
CommitThrows_Cleared(c) ==
    /\ pc[c] = "commit"
    /\ pubLock = c
    /\ txnType(c) = "WRITE"
    /\ lastTimestamp' = lastTimestamp + 1
    /\ clearTransactionNoLock(txn[c])
    /\ pubLock' = None
    /\ pc' = [pc EXCEPT ![c] = "rollback"]
    /\ UNCHANGED <<startLock, lastTransactionID, committed,
                   context, stmt, phase, isNew, left>>

\* Transaction::commit throws (writing the WAL fails, a constraint is
\* violated): the lock is released with the transaction still active, and
\* runFuncInTransaction's handler goes on to roll it back.
CommitThrows(c) ==
    /\ pc[c] = "commit"
    /\ pubLock = c
    /\ txnType(c) = "WRITE"
    /\ lastTimestamp' = lastTimestamp + 1
    /\ pubLock' = None
    /\ pc' = [pc EXCEPT ![c] = "rollback"]
    /\ UNCHANGED <<startLock, lastTransactionID, activeTransactions, committed,
                   context, stmt, phase, isNew, left>>

\* TransactionContext::rollback and the rollback it calls, or the destructor's.
\* With no active transaction it returns at once, leaving mode as it is.
Rollback(c) ==
    /\ pc[c] \in {"rollback", "closing"}
    /\ IF hasActiveTransaction(c)
       THEN /\ pubLock = c
            /\ pubLock' = None
            /\ clearTransactionNoLock(txn[c])
            /\ clearTransaction(c)
       ELSE UNCHANGED <<pubLock, activeTransactions, context>>
    /\ pc' = [pc EXCEPT ![c] = IF @ = "closing" THEN "closed" ELSE "idle"]
    /\ UNCHANGED <<startLock, lastTransactionID, lastTimestamp, committed,
                   stmt, phase, isNew, left>>

\* The CHECKPOINT statement's checkpoint(), once it holds pubLock.
Checkpoint(c) ==
    /\ pc[c] = "checkpoint"
    /\ pubLock = c
    /\ pc' = [pc EXCEPT ![c] = "stop"]
    /\ UNCHANGED <<locks, manager, context, stmt, phase, isNew, left>>

\* stopNewTransactionsAndWaitUntilAllTransactionsLeave takes the start lock.
StopNewTransactions(c) ==
    /\ pc[c] = "stop"
    /\ startLock = None
    /\ startLock' = c
    /\ pc' = [pc EXCEPT ![c] = "wait"]
    /\ UNCHANGED <<pubLock, manager, context, stmt, phase, isNew, left>>

\* Mutant: both locks are given up before the checkpoint is written.
AllTransactionsLeft_UnlocksBoth(c) ==
    /\ pc[c] = "wait"
    /\ activeTransactions = {}
    /\ startLock' = None
    /\ pubLock' = None
    /\ pc' = [pc EXCEPT ![c] = "write"]
    /\ UNCHANGED <<manager, context, stmt, phase, isNew, left>>

\* A poll finds no active transaction.  The returned lock is destroyed at the
\* end of checkpointNoLock's first try block, before writeCheckpoint.
AllTransactionsLeft(c) ==
    /\ pc[c] = "wait"
    /\ activeTransactions = {}
    /\ startLock' = None
    /\ pc' = [pc EXCEPT ![c] = "write"]
    /\ UNCHANGED <<pubLock, manager, context, stmt, phase, isNew, left>>

\* Mutant: a wait that ran out of polls is tried again.
WaitTimesOut_Retries(c) ==
    /\ pc[c] = "wait"
    /\ activeTransactions # {}
    /\ startLock' = None
    /\ pc' = [pc EXCEPT ![c] = "stop"]
    /\ UNCHANGED <<pubLock, manager, context, stmt, phase, isNew, left>>

\* The polls run out: a CheckpointException leaves the manager, and
\* runFuncInTransaction clears the context instead of rolling back.
WaitTimesOut(c) ==
    /\ pc[c] = "wait"
    /\ activeTransactions # {}
    /\ startLock' = None
    /\ pubLock' = None
    /\ clearTransaction(c)
    /\ pc' = [pc EXCEPT ![c] = "idle"]
    /\ UNCHANGED <<manager, stmt, phase, isNew, left>>

\* writeCheckpoint returns.  After a commit the context is cleared by
\* TransactionContext::commit; a CHECKPOINT statement leaves it alone.
CheckpointWritten(c) ==
    /\ pc[c] = "write"
    /\ pubLock' = None
    /\ IF stmt[c] = "checkpoint" THEN UNCHANGED context ELSE clearTransaction(c)
    /\ pc' = [pc EXCEPT ![c] = "idle"]
    /\ UNCHANGED <<startLock, manager, stmt, phase, isNew, left>>

\* writeCheckpoint throws: Checkpointer::rollback, then CheckpointException.
CheckpointFails(c) ==
    /\ pc[c] = "write"
    /\ pubLock' = None
    /\ clearTransaction(c)
    /\ pc' = [pc EXCEPT ![c] = "idle"]
    /\ UNCHANGED <<startLock, manager, stmt, phase, isNew, left>>

-----------------------------------------------------------------------------
\* What a connection's thread does once a statement is submitted.
Step(c) ==
    \/ Enter(c)
    \/ FunThrows(c)
    \/ FunReturns(c)
    \/ FunTransactionStatement(c)
    \/ LockPublic(c)
    \/ beginTransaction(c)
    \/ CommitReadOnly(c)
    \/ CommitWrite(c)
    \/ CommitThrows(c)
    \/ Rollback(c)
    \/ Checkpoint(c)
    \/ StopNewTransactions(c)
    \/ AllTransactionsLeft(c)
    \/ WaitTimesOut(c)
    \/ CheckpointWritten(c)
    \/ CheckpointFails(c)

\* Every connection is closed; nothing is left to do.
AllClosed ==
    /\ \A c \in Clients : pc[c] = "closed"
    /\ UNCHANGED vars

Next ==
    \/ \E c \in Clients : Submit(c) \/ Close(c) \/ Step(c)
    \/ AllClosed

Spec == Init /\ [][Next]_vars

\* A thread that can take its next step eventually does.
FairSpec == Spec /\ \A c \in Clients : WF_vars(Step(c))

-----------------------------------------------------------------------------
(* Properties.                                                             *)

TransactionRecords ==
    [id : Nat, type : {"READ_ONLY", "WRITE"}, startTS : Nat, seen : SUBSET Nat]

\* Every variable has its type.
TypeOK ==
    /\ pubLock \in Clients \cup {None}
    /\ startLock \in Clients \cup {None}
    /\ lastTransactionID \in Nat
    /\ lastTimestamp \in Nat
    /\ activeTransactions \subseteq TransactionRecords
    /\ committed \subseteq [id : Nat, commitTS : Nat]
    /\ mode \in [Clients -> {"AUTO", "MANUAL"}]
    /\ txn \in [Clients -> Nat]
    /\ stmt \in [Clients -> Statements]
    /\ phase \in [Clients -> Phases]
    /\ isNew \in [Clients -> BOOLEAN]
    /\ pc \in [Clients -> PCs]
    /\ left \in Nat

\* While writeCheckpoint runs no transaction is active and no connection is
\* inside a function that works in a transaction.  checkpointNoLock gives up
\* the start lock before writeCheckpoint, so this rests on pubLock alone.
CheckpointRunsAlone ==
    \A c \in Clients : pc[c] = "write" =>
        /\ activeTransactions = {}
        /\ \A d \in Clients : pc[d] = "fun" => ~hasActiveTransaction(d)

\* clearTransactionNoLock asserts that the transaction is in the active list:
\* whenever a connection is about to use its activeTransaction pointer (in
\* fun, commit or rollback) the transaction it points to is still there.
NoDanglingTransaction ==
    \A c \in Clients :
        hasActiveTransaction(c) /\ pc[c] \notin CheckpointPCs =>
            \E t \in activeTransactions : t.id = txn[c]

\* Every active transaction is the activeTransaction of one connection, on
\* every error path of runFuncInTransaction: one that belongs to nobody would
\* make every later checkpoint time out.
NoLeakedTransaction ==
    \A t \in activeTransactions :
        \E c \in Clients : /\ txn[c] = t.id
                           /\ pc[c] # "closed"
                           /\ \A d \in Clients : txn[d] = t.id => d = c

\* A connection in AUTO mode is between statements only with no transaction:
\* the auto transaction that planning leaves open is closed by the end of the
\* statement whichever of its phases fails.
AutoStatementsCloseTheirTransaction ==
    \A c \in Clients :
        pc[c] \in {"idle", "closed"} /\ isAutoTransaction(c) => ~hasActiveTransaction(c)

\* A snapshot is what was committed when it was taken, for ever: the commit
\* timestamps at most a transaction's startTS are those of exactly the
\* transactions that had committed when it began.
SnapshotIsStable ==
    \A t \in activeTransactions :
        t.seen = {r.id : r \in {q \in committed : q.commitTS <= t.startTS}}

\* Without enableMultiWrites at most one write transaction is active.
SingleWriter ==
    ~EnableMultiWrites =>
        \A s, t \in activeTransactions :
            s.type = "WRITE" /\ t.type = "WRITE" => s = t

\* Every statement ends: the public lock is released through commits that
\* throw, checkpoints that wait and checkpoints that fail.
StatementsEnd ==
    \A c \in Clients : pc[c] = "enter" ~> pc[c] = "idle"
=============================================================================
