---------------------- MODULE TransactionManagerProofs ----------------------
(***************************************************************************)
(* The safety properties of TransactionManager hold for any number of      *)
(* connections and statements.  Each is one conjunct, or a consequence, of *)
(* the inductive invariant IInv: who may hold the public lock, which       *)
(* connection owns which active transaction, what a connection in AUTO     *)
(* mode may have open, and how timestamps relate to the clock.             *)
(***************************************************************************)
EXTENDS TransactionManager, TLAPS

\* The places where a thread may hold the public lock.
LockedPCs == {"begin", "commit", "rollback", "closing", "checkpoint"} \cup CheckpointPCs

\* A thread inside a checkpoint holds the public lock, and a thread holds it
\* only inside a public function.
LockInv ==
    \A c \in Clients :
        /\ pubLock = c => pc[c] \in LockedPCs
        /\ pc[c] \in CheckpointPCs => pubLock = c
        /\ pubLock = c /\ pc[c] = "rollback" => txn[c] # NoTxn

\* Transactions and the contexts that point to them correspond one to one,
\* except that a context's pointer dangles while its thread checkpoints.
OwnerInv ==
    /\ \A t \in activeTransactions : t.id \in 1..lastTransactionID
    /\ \A s, t \in activeTransactions : s.id = t.id => s = t
    /\ \A t \in activeTransactions : \E c \in Clients : txn[c] = t.id
    /\ \A c, d \in Clients : txn[c] = txn[d] /\ txn[c] # NoTxn => c = d
    /\ \A c \in Clients :
        /\ txn[c] \in 0..lastTransactionID
        /\ pc[c] \in {"begin", "checkpoint", "closed"} => txn[c] = NoTxn
        /\ pc[c] \in {"commit", "closing"} => txn[c] # NoTxn
        /\ IF pc[c] \in CheckpointPCs
           THEN \A t \in activeTransactions : t.id # txn[c]
           ELSE txn[c] # NoTxn => \E t \in activeTransactions : t.id = txn[c]

\* In AUTO mode a transaction is open only from the phase that started it to
\* the phase that commits it.
AutoInv ==
    \A c \in Clients :
        /\ pc[c] = "begin" =>
            IF isTransactionStatement(c) THEN mode[c] = "MANUAL" ELSE isNew[c]
        /\ mode[c] = "AUTO" /\ txn[c] # NoTxn =>
            /\ pc[c] \notin {"idle", "closed", "closing"}
            /\ pc[c] = "enter" => phase[c] = "execute" /\ ~isTransactionStatement(c)
            /\ pc[c] = "fun" => /\ ~isTransactionStatement(c)
                                /\ phase[c] # "execute" => isNew[c]

\* A CHECKPOINT statement never checkpoints with a transaction of its own: the
\* only one it starts is the analysis phase's, which is read-only.
StatementInv ==
    \A c \in Clients :
        /\ pc[c] \in {"fun", "commit"} /\ phase[c] = "analyze" /\ isNew[c] =>
            \A t \in activeTransactions : t.id = txn[c] => t.type = "READ_ONLY"
        /\ pc[c] = "commit" /\ stmt[c] = "checkpoint" => phase[c] = "analyze" /\ isNew[c]
        /\ pc[c] \in CheckpointPCs /\ stmt[c] = "checkpoint" => txn[c] = NoTxn

\* Nothing is committed or started ahead of the clock.
SnapshotInv ==
    /\ \A r \in committed : r.commitTS <= lastTimestamp
    /\ \A t \in activeTransactions : t.startTS <= lastTimestamp
    /\ SnapshotIsStable

\* While a checkpoint is written the active list is empty.
CheckpointInv == \A c \in Clients : pc[c] = "write" => activeTransactions = {}

IInv ==
    /\ TypeOK
    /\ LockInv
    /\ OwnerInv
    /\ AutoInv
    /\ StatementInv
    /\ SnapshotInv
    /\ SingleWriter
    /\ CheckpointInv

-----------------------------------------------------------------------------
\* The initial state satisfies the invariant.
LEMMA InitIInv == Init => IInv
  BY ConstantsAssumption, SMTT(30)
  DEF Init, IInv, TypeOK, LockInv, OwnerInv, AutoInv, StatementInv, SnapshotInv, SnapshotIsStable,
      SingleWriter, CheckpointInv, NoTxn, PCs, LockedPCs, CheckpointPCs, Statements, Phases

\* Submitting a statement starts no transaction and takes no lock.
LEMMA SubmitIInv == ASSUME IInv, NEW c \in Clients, Submit(c) PROVE IInv'
<1> USE ConstantsAssumption DEF IInv, Submit, locks, manager, context, call, NoTxn,
      CheckpointPCs, clearTransaction, phaseDone, hasActiveTransaction, clearTransactionNoLock
<1>1. TypeOK'
  BY DEF TypeOK, Statements, PCs, Phases
<1>2. LockInv'
  BY DEF TypeOK, LockInv, LockedPCs, OwnerInv
<1>3. OwnerInv'
  BY DEF TypeOK, LockInv, OwnerInv, StatementInv
<1>4. AutoInv'
  BY DEF TypeOK, AutoInv, isTransactionStatement, commitsAfterFun, isAutoTransaction
<1>5. StatementInv'
  BY DEF TypeOK, StatementInv, OwnerInv
<1>6. SnapshotInv'
  BY DEF TypeOK, SnapshotInv, SnapshotIsStable
<1>7. SingleWriter'
  BY DEF TypeOK, SingleWriter
<1>8. CheckpointInv'
  BY DEF TypeOK, CheckpointInv, LockInv
<1> QED BY <1>1, <1>2, <1>3, <1>4, <1>5, <1>6, <1>7, <1>8

\* Closing a connection with an open transaction goes to the destructor's
\* rollback, so no transaction loses its owner.
LEMMA CloseIInv == ASSUME IInv, NEW c \in Clients, Close(c) PROVE IInv'
<1> USE ConstantsAssumption DEF IInv, Close, locks, manager, context, call, NoTxn,
      CheckpointPCs, clearTransaction, phaseDone, hasActiveTransaction, clearTransactionNoLock
<1>1. TypeOK'
  BY DEF TypeOK, Statements, PCs, Phases
<1>2. LockInv'
  BY DEF TypeOK, LockInv, LockedPCs, OwnerInv
<1>3. OwnerInv'
  BY DEF TypeOK, LockInv, OwnerInv, StatementInv
<1>4. AutoInv'
  BY DEF TypeOK, AutoInv, isTransactionStatement, commitsAfterFun, isAutoTransaction
<1>5. StatementInv'
  BY DEF TypeOK, StatementInv, OwnerInv
<1>6. SnapshotInv'
  BY DEF TypeOK, SnapshotInv, SnapshotIsStable
<1>7. SingleWriter'
  BY DEF TypeOK, SingleWriter
<1>8. CheckpointInv'
  BY DEF TypeOK, CheckpointInv, LockInv
<1> QED BY <1>1, <1>2, <1>3, <1>4, <1>5, <1>6, <1>7, <1>8

\* Entering runFuncInTransaction begins a transaction only when the context
\* has none.
LEMMA EnterIInv == ASSUME IInv, NEW c \in Clients, Enter(c) PROVE IInv'
<1> USE ConstantsAssumption DEF IInv, Enter, locks, manager, context, call, NoTxn,
      CheckpointPCs, clearTransaction, phaseDone, hasActiveTransaction, clearTransactionNoLock
<1>1. TypeOK'
  BY DEF TypeOK, Statements, PCs, Phases
<1>2. LockInv'
  BY DEF TypeOK, LockInv, LockedPCs, OwnerInv
<1>3. OwnerInv'
  BY DEF TypeOK, LockInv, OwnerInv, StatementInv
<1>4. AutoInv'
  BY DEF TypeOK, AutoInv, isTransactionStatement, commitsAfterFun, isAutoTransaction
<1>5. StatementInv'
  BY DEF TypeOK, StatementInv, OwnerInv
<1>6. SnapshotInv'
  BY DEF TypeOK, SnapshotInv, SnapshotIsStable
<1>7. SingleWriter'
  BY DEF TypeOK, SingleWriter
<1>8. CheckpointInv'
  BY DEF TypeOK, CheckpointInv, LockInv
<1> QED BY <1>1, <1>2, <1>3, <1>4, <1>5, <1>6, <1>7, <1>8

\* A throwing function sends its connection to rollback, whoever started the
\* transaction.
LEMMA FunThrowsIInv == ASSUME IInv, NEW c \in Clients, FunThrows(c) PROVE IInv'
<1> USE ConstantsAssumption DEF IInv, FunThrows, locks, manager, context, call, NoTxn,
      CheckpointPCs, clearTransaction, phaseDone, hasActiveTransaction, clearTransactionNoLock
<1>1. TypeOK'
  BY DEF TypeOK, Statements, PCs, Phases
<1>2. LockInv'
  BY DEF TypeOK, LockInv, LockedPCs, OwnerInv
<1>3. OwnerInv'
  BY DEF TypeOK, LockInv, OwnerInv, StatementInv
<1>4. AutoInv'
  BY DEF TypeOK, AutoInv, isTransactionStatement, commitsAfterFun, isAutoTransaction
<1>5. StatementInv'
  BY DEF TypeOK, StatementInv, OwnerInv
<1>6. SnapshotInv'
  BY DEF TypeOK, SnapshotInv, SnapshotIsStable
<1>7. SingleWriter'
  BY DEF TypeOK, SingleWriter
<1>8. CheckpointInv'
  BY DEF TypeOK, CheckpointInv, LockInv
<1> QED BY <1>1, <1>2, <1>3, <1>4, <1>5, <1>6, <1>7, <1>8

\* A returning function either commits or leaves open what the next phase of
\* the statement, or the manual transaction, will use.
LEMMA FunReturnsIInv == ASSUME IInv, NEW c \in Clients, FunReturns(c) PROVE IInv'
<1> USE ConstantsAssumption DEF IInv, FunReturns, locks, manager, context, call, NoTxn,
      CheckpointPCs, clearTransaction, phaseDone, hasActiveTransaction, clearTransactionNoLock
<1>1. TypeOK'
  BY DEF TypeOK, Statements, PCs, Phases
<1>2. LockInv'
  BY DEF TypeOK, LockInv, LockedPCs, OwnerInv
<1>3. OwnerInv'
  BY DEF TypeOK, LockInv, OwnerInv, StatementInv
<1>4. AutoInv'
  BY DEF TypeOK, AutoInv, isTransactionStatement, commitsAfterFun, isAutoTransaction
<1>5. StatementInv'
  <2>1. CASE commitsAfterFun(c) /\ hasActiveTransaction(c)
    BY <2>1 DEF TypeOK, StatementInv, isTransactionStatement, commitsAfterFun,
       TransactionStatements, Phases
  <2>2. CASE ~(commitsAfterFun(c) /\ hasActiveTransaction(c))
    BY <2>2 DEF TypeOK, StatementInv
  <2> QED BY <2>1, <2>2
<1>6. SnapshotInv'
  BY DEF TypeOK, SnapshotInv, SnapshotIsStable
<1>7. SingleWriter'
  BY DEF TypeOK, SingleWriter
<1>8. CheckpointInv'
  BY DEF TypeOK, CheckpointInv, LockInv
<1> QED BY <1>1, <1>2, <1>3, <1>4, <1>5, <1>6, <1>7, <1>8

\* A transaction statement enters the manager only in the states that
\* validateActiveTransaction accepts.
LEMMA FunTransactionStatementIInv == ASSUME IInv, NEW c \in Clients, FunTransactionStatement(c) PROVE IInv'
<1> USE ConstantsAssumption DEF IInv, FunTransactionStatement, locks, manager, context, call, NoTxn,
      CheckpointPCs, clearTransaction, phaseDone, hasActiveTransaction, clearTransactionNoLock
<1>1. TypeOK'
  BY DEF TypeOK, Statements, PCs, Phases
<1>2. LockInv'
  BY DEF TypeOK, LockInv, LockedPCs, OwnerInv
<1>3. OwnerInv'
  BY DEF TypeOK, LockInv, OwnerInv, StatementInv
<1>4. AutoInv'
  BY DEF TypeOK, AutoInv, isTransactionStatement, commitsAfterFun, isAutoTransaction,
         TransactionStatements
<1>5. StatementInv'
  BY DEF TypeOK, StatementInv, OwnerInv
<1>6. SnapshotInv'
  BY DEF TypeOK, SnapshotInv, SnapshotIsStable
<1>7. SingleWriter'
  BY DEF TypeOK, SingleWriter
<1>8. CheckpointInv'
  BY DEF TypeOK, CheckpointInv, LockInv
<1> QED BY <1>1, <1>2, <1>3, <1>4, <1>5, <1>6, <1>7, <1>8

\* Taking the public lock changes nothing else, and no checkpoint is under
\* way while it is free.
LEMMA LockPublicIInv == ASSUME IInv, NEW c \in Clients, LockPublic(c) PROVE IInv'
<1> USE ConstantsAssumption DEF IInv, LockPublic, locks, manager, context, call, NoTxn,
      CheckpointPCs, clearTransaction, phaseDone, hasActiveTransaction, clearTransactionNoLock
<1>1. TypeOK'
  BY DEF TypeOK, Statements, PCs, Phases
<1>2. LockInv'
  BY DEF TypeOK, LockInv, LockedPCs, OwnerInv
<1>3. OwnerInv'
  BY DEF TypeOK, LockInv, OwnerInv, StatementInv
<1>4. AutoInv'
  BY DEF TypeOK, AutoInv, isTransactionStatement, commitsAfterFun, isAutoTransaction
<1>5. StatementInv'
  BY DEF TypeOK, StatementInv, OwnerInv
<1>6. SnapshotInv'
  BY DEF TypeOK, SnapshotInv, SnapshotIsStable
<1>7. SingleWriter'
  BY DEF TypeOK, SingleWriter
<1>8. CheckpointInv'
  BY DEF TypeOK, CheckpointInv, LockInv
<1> QED BY <1>1, <1>2, <1>3, <1>4, <1>5, <1>6, <1>7, <1>8

\* beginTransaction gives its caller the only pointer to a fresh transaction
\* whose snapshot is what is committed now, or changes nothing.
LEMMA beginTransactionIInv == ASSUME IInv, NEW c \in Clients, beginTransaction(c) PROVE IInv'
<1> DEFINE new == [id |-> lastTransactionID + 1, type |-> beginType(c),
                   startTS |-> lastTimestamp, seen |-> {r.id : r \in committed}]
<1> USE ConstantsAssumption DEF IInv, NoTxn, CheckpointPCs
<1>1. CASE activeTransactions' = activeTransactions
  <2>1. /\ UNCHANGED <<startLock, lastTransactionID, lastTimestamp, activeTransactions, committed,
                       txn, mode, stmt, phase, isNew, left>>
        /\ pc[c] = "begin" /\ pc' = [pc EXCEPT ![c] = "idle"]
        /\ pubLock = c /\ pubLock' = None
    <3>1. new \in activeTransactions => FALSE
      BY DEF OwnerInv, TypeOK
    <3> QED BY <1>1, <3>1 DEF beginTransaction
  <2> QED
    BY <2>1 DEF TypeOK, PCs, LockInv, LockedPCs, OwnerInv, AutoInv, StatementInv, SnapshotInv,
       SnapshotIsStable, SingleWriter, CheckpointInv, isTransactionStatement
<1>2. CASE activeTransactions' # activeTransactions
  <2>1. /\ pc[c] = "begin" /\ pubLock = c /\ pubLock' = None
        /\ lastTransactionID' = lastTransactionID + 1
        /\ activeTransactions' = activeTransactions \cup {new}
        /\ txn' = [txn EXCEPT ![c] = lastTransactionID + 1]
        /\ pc' = [pc EXCEPT ![c] = IF isTransactionStatement(c) THEN "idle" ELSE "fun"]
        /\ UNCHANGED <<startLock, lastTimestamp, committed, mode, stmt, phase, isNew, left>>
        /\ ~(beginType(c) = "WRITE" /\ ~EnableMultiWrites /\ hasActiveWriteTransactionNoLock)
    BY <1>2 DEF beginTransaction
  <2>2. /\ new \in TransactionRecords
        /\ new.id = lastTransactionID + 1
        /\ new.type = beginType(c)
    BY DEF TypeOK, TransactionRecords, beginType
  <2>3. TypeOK'
    <3> HIDE DEF new
    <3> QED BY <2>1, <2>2 DEF TypeOK, PCs
  <2>4. LockInv'
    BY <2>1 DEF TypeOK, LockInv, LockedPCs, OwnerInv
  <2>5. OwnerInv'
    <3> HIDE DEF new
    <3>1. txn' = [d \in Clients |-> IF d = c THEN new.id ELSE txn[d]]
      BY <2>1, <2>2 DEF TypeOK
    <3>2. \A t \in activeTransactions : t.id # new.id
      BY <2>2 DEF OwnerInv, TypeOK
    <3>3. /\ \A t \in activeTransactions' : t.id \in 1..lastTransactionID'
          /\ \A s, t \in activeTransactions' : s.id = t.id => s = t
      BY <2>1, <2>2, <3>2 DEF OwnerInv, TypeOK
    <3>4. \A t \in activeTransactions' : \E d \in Clients : txn'[d] = t.id
      BY <2>1, <3>1 DEF OwnerInv
    <3>5. \A d, e \in Clients : txn'[d] = txn'[e] /\ txn'[d] # NoTxn => d = e
      BY <2>1, <2>2, <3>1 DEF OwnerInv, TypeOK
    <3>6. ASSUME NEW d \in Clients
          PROVE  /\ txn'[d] \in 0..lastTransactionID'
                 /\ pc'[d] \in {"begin", "checkpoint", "closed"} => txn'[d] = NoTxn
                 /\ pc'[d] \in {"commit", "closing"} => txn'[d] # NoTxn
                 /\ IF pc'[d] \in CheckpointPCs
                    THEN \A t \in activeTransactions' : t.id # txn'[d]
                    ELSE txn'[d] # NoTxn => \E t \in activeTransactions' : t.id = txn'[d]
      BY <2>1, <2>2, <3>1 DEF OwnerInv, TypeOK
    <3> QED BY <3>3, <3>4, <3>5, <3>6 DEF OwnerInv
  <2>6. AutoInv'
    BY <2>1 DEF TypeOK, AutoInv, isTransactionStatement
  <2>7. StatementInv'
    BY <2>1 DEF TypeOK, StatementInv, OwnerInv, beginType
  <2>8. SnapshotInv'
    <3>1. {q \in committed : q.commitTS <= lastTimestamp} = committed
      BY DEF SnapshotInv
    <3>2. /\ new.startTS = lastTimestamp
          /\ new.seen = {r.id : r \in {q \in committed : q.commitTS <= lastTimestamp}}
      BY <3>1
    <3>3. SnapshotIsStable'
      <4> HIDE DEF new
      <4>1. ASSUME NEW t \in activeTransactions'
            PROVE  t.seen = {r.id : r \in {q \in committed : q.commitTS <= t.startTS}}
        <5>1. CASE t = new
          BY <5>1, <3>2, Zenon
        <5>2. CASE t \in activeTransactions
          BY <5>2, Zenon DEF SnapshotInv, SnapshotIsStable
        <5> QED BY <2>1, <5>1, <5>2
      <4>2. committed' = committed
        BY <2>1
      <4> QED BY <4>1, <4>2, Zenon DEF SnapshotIsStable
    <3> QED BY <2>1, <3>2, <3>3 DEF TypeOK, SnapshotInv
  <2>9. SingleWriter'
    <3> HIDE DEF new
    <3> QED BY <2>1, <2>2 DEF SingleWriter, hasActiveWriteTransactionNoLock
  <2>10. CheckpointInv'
    BY <2>1 DEF TypeOK, CheckpointInv, LockInv
  <2> QED BY <2>3, <2>4, <2>5, <2>6, <2>7, <2>8, <2>9, <2>10
<1> QED BY <1>1, <1>2

\* Committing a read-only transaction removes it and the pointer to it.
LEMMA CommitReadOnlyIInv == ASSUME IInv, NEW c \in Clients, CommitReadOnly(c) PROVE IInv'
<1> USE ConstantsAssumption DEF IInv, CommitReadOnly, locks, manager, context, call, NoTxn,
      CheckpointPCs, clearTransaction, phaseDone, hasActiveTransaction, clearTransactionNoLock
<1>1. TypeOK'
  BY DEF TypeOK, Statements, PCs, Phases
<1>2. LockInv'
  BY DEF TypeOK, LockInv, LockedPCs, OwnerInv
<1>3. OwnerInv'
  BY DEF TypeOK, LockInv, OwnerInv, StatementInv
<1>4. AutoInv'
  BY DEF TypeOK, AutoInv, isTransactionStatement, commitsAfterFun, isAutoTransaction
<1>5. StatementInv'
  BY DEF TypeOK, StatementInv, OwnerInv
<1>6. SnapshotInv'
  BY DEF TypeOK, SnapshotInv, SnapshotIsStable
<1>7. SingleWriter'
  BY DEF TypeOK, SingleWriter
<1>8. CheckpointInv'
  BY DEF TypeOK, CheckpointInv, LockInv
<1> QED BY <1>1, <1>2, <1>3, <1>4, <1>5, <1>6, <1>7, <1>8

\* Committing a write transaction advances the clock past every open
\* snapshot; its pointer dangles only if a checkpoint follows.
LEMMA CommitWriteIInv == ASSUME IInv, NEW c \in Clients, CommitWrite(c) PROVE IInv'
<1> USE ConstantsAssumption DEF IInv, CommitWrite, locks, manager, context, call, NoTxn,
      CheckpointPCs, clearTransaction, phaseDone, hasActiveTransaction, clearTransactionNoLock
<1>1. TypeOK'
  BY DEF TypeOK, Statements, PCs, Phases
<1>2. LockInv'
  BY DEF TypeOK, LockInv, LockedPCs, OwnerInv
<1>3. OwnerInv'
  BY DEF TypeOK, LockInv, OwnerInv, StatementInv
<1>4. AutoInv'
  BY DEF TypeOK, AutoInv, isTransactionStatement, commitsAfterFun, isAutoTransaction
<1>5. StatementInv'
  <2>1. PICK t \in activeTransactions : t.id = txn[c] /\ t.type = "WRITE"
    BY DEF OwnerInv, txnType
  <2>2. stmt[c] # "checkpoint"
    BY <2>1 DEF StatementInv
  <2> QED BY <2>2 DEF TypeOK, StatementInv, OwnerInv
<1>6. SnapshotInv'
  <2>1. \A t \in activeTransactions :
          {q \in committed' : q.commitTS <= t.startTS} = {q \in committed : q.commitTS <= t.startTS}
    BY DEF TypeOK, TransactionRecords, SnapshotInv
  <2>2. SnapshotIsStable'
    BY <2>1 DEF SnapshotInv, SnapshotIsStable
  <2> QED BY <2>2 DEF TypeOK, TransactionRecords, SnapshotInv
<1>7. SingleWriter'
  BY DEF TypeOK, SingleWriter
<1>8. CheckpointInv'
  BY DEF TypeOK, CheckpointInv, LockInv
<1> QED BY <1>1, <1>2, <1>3, <1>4, <1>5, <1>6, <1>7, <1>8

\* A throwing commit keeps the transaction active and owned.
LEMMA CommitThrowsIInv == ASSUME IInv, NEW c \in Clients, CommitThrows(c) PROVE IInv'
<1> USE ConstantsAssumption DEF IInv, CommitThrows, locks, manager, context, call, NoTxn,
      CheckpointPCs, clearTransaction, phaseDone, hasActiveTransaction, clearTransactionNoLock
<1>1. TypeOK'
  BY DEF TypeOK, Statements, PCs, Phases
<1>2. LockInv'
  BY DEF TypeOK, LockInv, LockedPCs, OwnerInv
<1>3. OwnerInv'
  BY DEF TypeOK, LockInv, OwnerInv, StatementInv
<1>4. AutoInv'
  BY DEF TypeOK, AutoInv, isTransactionStatement, commitsAfterFun, isAutoTransaction
<1>5. StatementInv'
  BY DEF TypeOK, StatementInv, OwnerInv
<1>6. SnapshotInv'
  BY DEF TypeOK, TransactionRecords, SnapshotInv, SnapshotIsStable
<1>7. SingleWriter'
  BY DEF TypeOK, SingleWriter
<1>8. CheckpointInv'
  BY DEF TypeOK, CheckpointInv, LockInv
<1> QED BY <1>1, <1>2, <1>3, <1>4, <1>5, <1>6, <1>7, <1>8

\* Rolling back removes the transaction and the pointer to it; without one it
\* takes no lock.
LEMMA RollbackIInv == ASSUME IInv, NEW c \in Clients, Rollback(c) PROVE IInv'
<1> USE ConstantsAssumption DEF IInv, Rollback, locks, manager, context, call, NoTxn,
      CheckpointPCs, clearTransaction, phaseDone, hasActiveTransaction, clearTransactionNoLock
<1>1. TypeOK'
  BY DEF TypeOK, Statements, PCs, Phases
<1>2. LockInv'
  BY DEF TypeOK, LockInv, LockedPCs, OwnerInv
<1>3. OwnerInv'
  BY DEF TypeOK, LockInv, OwnerInv, StatementInv
<1>4. AutoInv'
  BY DEF TypeOK, AutoInv, isTransactionStatement, commitsAfterFun, isAutoTransaction
<1>5. StatementInv'
  BY DEF TypeOK, StatementInv, OwnerInv
<1>6. SnapshotInv'
  BY DEF TypeOK, SnapshotInv, SnapshotIsStable
<1>7. SingleWriter'
  BY DEF TypeOK, SingleWriter
<1>8. CheckpointInv'
  BY DEF TypeOK, CheckpointInv, LockInv
<1> QED BY <1>1, <1>2, <1>3, <1>4, <1>5, <1>6, <1>7, <1>8

\* The CHECKPOINT statement enters the checkpoint with the lock and without a
\* transaction.
LEMMA CheckpointIInv == ASSUME IInv, NEW c \in Clients, Checkpoint(c) PROVE IInv'
<1> USE ConstantsAssumption DEF IInv, Checkpoint, locks, manager, context, call, NoTxn,
      CheckpointPCs, clearTransaction, phaseDone, hasActiveTransaction, clearTransactionNoLock
<1>1. TypeOK'
  BY DEF TypeOK, Statements, PCs, Phases
<1>2. LockInv'
  BY DEF TypeOK, LockInv, LockedPCs, OwnerInv
<1>3. OwnerInv'
  BY DEF TypeOK, LockInv, OwnerInv, StatementInv
<1>4. AutoInv'
  BY DEF TypeOK, AutoInv, isTransactionStatement, commitsAfterFun, isAutoTransaction
<1>5. StatementInv'
  BY DEF TypeOK, StatementInv, OwnerInv
<1>6. SnapshotInv'
  BY DEF TypeOK, SnapshotInv, SnapshotIsStable
<1>7. SingleWriter'
  BY DEF TypeOK, SingleWriter
<1>8. CheckpointInv'
  BY DEF TypeOK, CheckpointInv, LockInv
<1> QED BY <1>1, <1>2, <1>3, <1>4, <1>5, <1>6, <1>7, <1>8

\* Taking the start lock changes neither transactions nor contexts.
LEMMA StopNewTransactionsIInv == ASSUME IInv, NEW c \in Clients, StopNewTransactions(c) PROVE IInv'
<1> USE ConstantsAssumption DEF IInv, StopNewTransactions, locks, manager, context, call, NoTxn,
      CheckpointPCs, clearTransaction, phaseDone, hasActiveTransaction, clearTransactionNoLock
<1>1. TypeOK'
  BY DEF TypeOK, Statements, PCs, Phases
<1>2. LockInv'
  BY DEF TypeOK, LockInv, LockedPCs, OwnerInv
<1>3. OwnerInv'
  BY DEF TypeOK, LockInv, OwnerInv, StatementInv
<1>4. AutoInv'
  BY DEF TypeOK, AutoInv, isTransactionStatement, commitsAfterFun, isAutoTransaction
<1>5. StatementInv'
  BY DEF TypeOK, StatementInv, OwnerInv
<1>6. SnapshotInv'
  BY DEF TypeOK, SnapshotInv, SnapshotIsStable
<1>7. SingleWriter'
  BY DEF TypeOK, SingleWriter
<1>8. CheckpointInv'
  BY DEF TypeOK, CheckpointInv, LockInv
<1> QED BY <1>1, <1>2, <1>3, <1>4, <1>5, <1>6, <1>7, <1>8

\* A checkpoint goes on to write only when no transaction is active.
LEMMA AllTransactionsLeftIInv == ASSUME IInv, NEW c \in Clients, AllTransactionsLeft(c) PROVE IInv'
<1> USE ConstantsAssumption DEF IInv, AllTransactionsLeft, locks, manager, context, call, NoTxn,
      CheckpointPCs, clearTransaction, phaseDone, hasActiveTransaction, clearTransactionNoLock
<1>1. TypeOK'
  BY DEF TypeOK, Statements, PCs, Phases
<1>2. LockInv'
  BY DEF TypeOK, LockInv, LockedPCs, OwnerInv
<1>3. OwnerInv'
  BY DEF TypeOK, LockInv, OwnerInv, StatementInv
<1>4. AutoInv'
  BY DEF TypeOK, AutoInv, isTransactionStatement, commitsAfterFun, isAutoTransaction
<1>5. StatementInv'
  BY DEF TypeOK, StatementInv, OwnerInv
<1>6. SnapshotInv'
  BY DEF TypeOK, SnapshotInv, SnapshotIsStable
<1>7. SingleWriter'
  BY DEF TypeOK, SingleWriter
<1>8. CheckpointInv'
  BY DEF TypeOK, CheckpointInv, LockInv
<1> QED BY <1>1, <1>2, <1>3, <1>4, <1>5, <1>6, <1>7, <1>8

\* A wait that times out clears a context whose transaction is already gone.
LEMMA WaitTimesOutIInv == ASSUME IInv, NEW c \in Clients, WaitTimesOut(c) PROVE IInv'
<1> USE ConstantsAssumption DEF IInv, WaitTimesOut, locks, manager, context, call, NoTxn,
      CheckpointPCs, clearTransaction, phaseDone, hasActiveTransaction, clearTransactionNoLock
<1>1. TypeOK'
  BY DEF TypeOK, Statements, PCs, Phases
<1>2. LockInv'
  BY DEF TypeOK, LockInv, LockedPCs, OwnerInv
<1>3. OwnerInv'
  BY DEF TypeOK, LockInv, OwnerInv, StatementInv
<1>4. AutoInv'
  BY DEF TypeOK, AutoInv, isTransactionStatement, commitsAfterFun, isAutoTransaction
<1>5. StatementInv'
  BY DEF TypeOK, StatementInv, OwnerInv
<1>6. SnapshotInv'
  BY DEF TypeOK, SnapshotInv, SnapshotIsStable
<1>7. SingleWriter'
  BY DEF TypeOK, SingleWriter
<1>8. CheckpointInv'
  BY DEF TypeOK, CheckpointInv, LockInv
<1> QED BY <1>1, <1>2, <1>3, <1>4, <1>5, <1>6, <1>7, <1>8

\* A written checkpoint leaves no pointer behind: a CHECKPOINT statement had
\* none, a commit's is cleared.
LEMMA CheckpointWrittenIInv == ASSUME IInv, NEW c \in Clients, CheckpointWritten(c) PROVE IInv'
<1> USE ConstantsAssumption DEF IInv, CheckpointWritten, locks, manager, context, call, NoTxn,
      CheckpointPCs, clearTransaction, phaseDone, hasActiveTransaction, clearTransactionNoLock
<1>1. TypeOK'
  BY DEF TypeOK, Statements, PCs, Phases
<1>2. LockInv'
  BY DEF TypeOK, LockInv, LockedPCs, OwnerInv
<1>3. OwnerInv'
  BY DEF TypeOK, LockInv, OwnerInv, StatementInv
<1>4. AutoInv'
  BY DEF TypeOK, AutoInv, StatementInv, isTransactionStatement, commitsAfterFun, isAutoTransaction
<1>5. StatementInv'
  BY DEF TypeOK, StatementInv, OwnerInv
<1>6. SnapshotInv'
  BY DEF TypeOK, SnapshotInv, SnapshotIsStable
<1>7. SingleWriter'
  BY DEF TypeOK, SingleWriter
<1>8. CheckpointInv'
  BY DEF TypeOK, CheckpointInv, LockInv
<1> QED BY <1>1, <1>2, <1>3, <1>4, <1>5, <1>6, <1>7, <1>8

\* A failed checkpoint clears the context as a timed-out wait does.
LEMMA CheckpointFailsIInv == ASSUME IInv, NEW c \in Clients, CheckpointFails(c) PROVE IInv'
<1> USE ConstantsAssumption DEF IInv, CheckpointFails, locks, manager, context, call, NoTxn,
      CheckpointPCs, clearTransaction, phaseDone, hasActiveTransaction, clearTransactionNoLock
<1>1. TypeOK'
  BY DEF TypeOK, Statements, PCs, Phases
<1>2. LockInv'
  BY DEF TypeOK, LockInv, LockedPCs, OwnerInv
<1>3. OwnerInv'
  BY DEF TypeOK, LockInv, OwnerInv, StatementInv
<1>4. AutoInv'
  BY DEF TypeOK, AutoInv, isTransactionStatement, commitsAfterFun, isAutoTransaction
<1>5. StatementInv'
  BY DEF TypeOK, StatementInv, OwnerInv
<1>6. SnapshotInv'
  BY DEF TypeOK, SnapshotInv, SnapshotIsStable
<1>7. SingleWriter'
  BY DEF TypeOK, SingleWriter
<1>8. CheckpointInv'
  BY DEF TypeOK, CheckpointInv, LockInv
<1> QED BY <1>1, <1>2, <1>3, <1>4, <1>5, <1>6, <1>7, <1>8
-----------------------------------------------------------------------------
\* Every step of every connection preserves the invariant.
LEMMA NextIInv == IInv /\ [Next]_vars => IInv'
<1> SUFFICES ASSUME IInv, [Next]_vars PROVE IInv'
  OBVIOUS
<1>1. ASSUME NEW c \in Clients, Submit(c) \/ Close(c) \/ Step(c) PROVE IInv'
  <2>1. CASE Submit(c)
    BY <2>1, SubmitIInv
  <2>2. CASE Close(c)
    BY <2>2, CloseIInv
  <2>3. CASE Enter(c)
    BY <2>3, EnterIInv
  <2>4. CASE FunThrows(c)
    BY <2>4, FunThrowsIInv
  <2>5. CASE FunReturns(c)
    BY <2>5, FunReturnsIInv
  <2>6. CASE FunTransactionStatement(c)
    BY <2>6, FunTransactionStatementIInv
  <2>7. CASE LockPublic(c)
    BY <2>7, LockPublicIInv
  <2>8. CASE beginTransaction(c)
    BY <2>8, beginTransactionIInv
  <2>9. CASE CommitReadOnly(c)
    BY <2>9, CommitReadOnlyIInv
  <2>10. CASE CommitWrite(c)
    BY <2>10, CommitWriteIInv
  <2>11. CASE CommitThrows(c)
    BY <2>11, CommitThrowsIInv
  <2>12. CASE Rollback(c)
    BY <2>12, RollbackIInv
  <2>13. CASE Checkpoint(c)
    BY <2>13, CheckpointIInv
  <2>14. CASE StopNewTransactions(c)
    BY <2>14, StopNewTransactionsIInv
  <2>15. CASE AllTransactionsLeft(c)
    BY <2>15, AllTransactionsLeftIInv
  <2>16. CASE WaitTimesOut(c)
    BY <2>16, WaitTimesOutIInv
  <2>17. CASE CheckpointWritten(c)
    BY <2>17, CheckpointWrittenIInv
  <2>18. CASE CheckpointFails(c)
    BY <2>18, CheckpointFailsIInv
  <2> QED BY <1>1, <2>1, <2>2, <2>3, <2>4, <2>5, <2>6, <2>7, <2>8, <2>9,
          <2>10, <2>11, <2>12, <2>13, <2>14, <2>15, <2>16, <2>17, <2>18 DEF Step
<1>2. CASE UNCHANGED vars
  <2> USE <1>2 DEF vars, locks, manager, context, call, IInv
  <2>1. TypeOK'
    BY DEF TypeOK
  <2>2. LockInv' /\ OwnerInv' /\ CheckpointInv'
    BY DEF LockInv, OwnerInv, CheckpointInv
  <2>3. AutoInv' /\ StatementInv'
    BY DEF AutoInv, StatementInv, isTransactionStatement
  <2>4. SnapshotInv' /\ SingleWriter'
    BY DEF SnapshotInv, SnapshotIsStable, SingleWriter
  <2> QED BY <2>1, <2>2, <2>3, <2>4
<1> QED BY <1>1, <1>2 DEF Next, AllClosed

\* The invariant holds in every reachable state.
THEOREM Invariance == Spec => []IInv
  BY InitIInv, NextIInv, PTL DEF Spec

\* beginTransaction, commit, rollback and every error path keep the variables
\* in their types.
THEOREM TypeCorrect == Spec => []TypeOK
<1>1. IInv => TypeOK
  BY DEF IInv
<1> QED BY <1>1, Invariance, PTL

\* writeCheckpoint runs with no active transaction and with no connection in a
\* function that works in one, although checkpointNoLock has released the
\* start lock by then.
THEOREM CheckpointIsExclusive == Spec => []CheckpointRunsAlone
<1>1. IInv => CheckpointRunsAlone
  BY DEF IInv, CheckpointRunsAlone, CheckpointInv, OwnerInv, hasActiveTransaction, CheckpointPCs
<1> QED BY <1>1, Invariance, PTL

\* The assertion of clearTransactionNoLock: a context's pointer is used only
\* while its transaction is in the active list.
THEOREM PointersAreValid == Spec => []NoDanglingTransaction
<1>1. IInv => NoDanglingTransaction
  BY DEF IInv, NoDanglingTransaction, OwnerInv, hasActiveTransaction
<1> QED BY <1>1, Invariance, PTL

\* No error path of runFuncInTransaction leaves a transaction in the active
\* list that no open connection owns.
THEOREM TransactionsAreOwned == Spec => []NoLeakedTransaction
<1>1. IInv => NoLeakedTransaction
  BY DEF IInv, NoLeakedTransaction, OwnerInv, TypeOK, TransactionRecords, NoTxn
<1> QED BY <1>1, Invariance, PTL

\* An auto-commit statement leaves no transaction open, whichever of its
\* three runFuncInTransaction calls fails.
THEOREM AutoTransactionsEnd == Spec => []AutoStatementsCloseTheirTransaction
<1>1. IInv => AutoStatementsCloseTheirTransaction
  BY DEF IInv, AutoStatementsCloseTheirTransaction, AutoInv, TypeOK, isAutoTransaction,
     hasActiveTransaction
<1> QED BY <1>1, Invariance, PTL

\* The timestamps that beginTransaction and commit hand out make a snapshot
\* the set of transactions committed when it was taken.
THEOREM SnapshotsAreStable == Spec => []SnapshotIsStable
<1>1. IInv => SnapshotIsStable
  BY DEF IInv, SnapshotInv
<1> QED BY <1>1, Invariance, PTL

\* beginTransaction's check admits one write transaction at a time when
\* enableMultiWrites is off.
THEOREM OneWriter == Spec => []SingleWriter
<1>1. IInv => SingleWriter
  BY DEF IInv
<1> QED BY <1>1, Invariance, PTL
=============================================================================
