-------------------------- MODULE DurabilityProofs --------------------------
(***************************************************************************)
(* Proofs about Durability, for any number of pages, transactions,         *)
(* checkpoints, crashes and failures.                                      *)
(*                                                                         *)
(* Under the faults the design tolerates (crashes and power failures, and  *)
(* checkpoints that fail before their record is logged), log and files     *)
(* always say what recovery has to find.  IInv states it: where each       *)
(* statement of commit, checkpoint and recovery leaves the log and its     *)
(* synced part (LogInv), that a logged checkpoint has its shadow pages and *)
(* that the pages hold it once it is applied (CheckpointInv), and that     *)
(* data file and log together hold what is committed as long as the log is *)
(* needed, but for bulk loads that no checkpoint has saved (DataInv).      *)
(* The refinement of DurableStore follows step by step. *)
(***************************************************************************)
EXTENDS Durability, SequenceTheorems, TLAPS

-----------------------------------------------------------------------------
(* Lemmas about records and logs.                                          *)

\* The log's last record has this type.
EndsIn(w, type) == Len(w) > 0 /\ w[Len(w)].type = type

\* The records of a well-formed log that recovery replays.
Complete(w) == IF Len(w) > 0 /\ w[Len(w)].type # "COMMIT" THEN Len(w) - 1 ELSE Len(w)

\* Only the last record of a log may be anything but a commit.
WellFormed(w) == \A i \in 1..Len(w) : w[i].type # "COMMIT" => i = Len(w)

\* What replaying a log's first n records brings back.
Txns(w, n) == [i \in 1..n |-> Restored(w[i].txn)]

\* What a record is, by its type.
LEMMA RecordTypes ==
  ASSUME NEW r \in Records
  PROVE  /\ r.type \in {"COMMIT", "CHECKPOINT", "TORN"}
         /\ r.type = "COMMIT" => r.txn \in Transactions /\ r = CommitRecord(r.txn)
         /\ r.type = "CHECKPOINT" <=> r = Checkpoint
  BY DEF Records, CommitRecord, Checkpoint, Torn

\* dryReplay of a well-formed log finds all its commits, and the CHECKPOINT
\* record if there is one, whether or not assertions are compiled in.
LEMMA DryReplayOfWellFormed ==
  ASSUME NEW w \in Seq(Records), WellFormed(w)
  PROVE  /\ dryReplay(w).offset = Complete(w)
         /\ dryReplay(w).isLastRecordCheckpoint <=> EndsIn(w, "CHECKPOINT")
<1> DEFINE stops == {i \in 1..Len(w) : w[i].type # "COMMIT"}
           stop == IF stops = {} THEN Len(w) + 1
                   ELSE CHOOSE i \in stops : \A j \in stops : i <= j
<1>0. /\ dryReplay(w).offset = stop - 1
      /\ dryReplay(w).isLastRecordCheckpoint <=>
            /\ stop <= Len(w) /\ w[stop].type = "CHECKPOINT"
            /\ RuntimeChecks => stop = Len(w)
  BY Zenon DEF dryReplay
<1>1. Len(w) \in Nat
  OBVIOUS
<1>2. CASE Len(w) > 0 /\ w[Len(w)].type # "COMMIT"
  <2>1. stops = {Len(w)}
    BY <1>1, <1>2 DEF WellFormed
  <2>2. stop = Len(w)
    BY <1>1, <2>1
  <2> HIDE DEF stop
  <2> QED  BY <1>0, <1>1, <1>2, <2>2 DEF Complete, EndsIn
<1>3. CASE ~(Len(w) > 0 /\ w[Len(w)].type # "COMMIT")
  <2>1. stops = {}
    BY <1>1, <1>3 DEF WellFormed
  <2>2. stop = Len(w) + 1
    BY Zenon, <2>1
  <2> HIDE DEF stop
  <2> QED  BY <1>0, <1>1, <1>3, <2>2 DEF Complete, EndsIn
<1> QED BY Zenon, <1>2, <1>3

\* Appending a record to a log.
LEMMA LogAppend ==
  ASSUME NEW w \in Seq(Records), NEW r \in Records
  PROVE  /\ w \o <<>> \o <<r>> \in Seq(Records)
         /\ Len(w \o <<>> \o <<r>>) = Len(w) + 1
         /\ \A i \in 1..Len(w) : (w \o <<>> \o <<r>>)[i] = w[i]
         /\ (w \o <<>> \o <<r>>)[Len(w) + 1] = r
<1>1. w \o <<>> = w
  BY Zenon, ConcatEmptySeq
<1>2. /\ <<r>> \in Seq(Records) /\ Len(<<r>>) = 1 /\ <<r>>[1] = r
  OBVIOUS
<1> QED BY <1>1, <1>2, ConcatProperties

\* Replaying a transaction brings back itself or nothing.
LEMMA RestoredType ==
  ASSUME NEW t \in Transactions
  PROVE  Restored(t) \in Effects /\ Restored(t) \in {t, None}
  BY Zenon DEF Restored, Effects

\* What the first n records, which are commits, bring back.
LEMMA TxnsType ==
  ASSUME NEW w \in Seq(Records), NEW n \in 0..Len(w),
         \A i \in 1..n : w[i].type = "COMMIT"
  PROVE  Txns(w, n) \in Seq(Effects) /\ Len(Txns(w, n)) = n
<1>1. \A i \in 1..n : w[i].txn \in Transactions
  BY RecordTypes
<1>2. \A i \in 1..n : Restored(w[i].txn) \in Effects
  BY Zenon, <1>1, RestoredType
<1> QED BY <1>2 DEF Txns

\* One record more replays one transaction more.
LEMMA TxnsAppend ==
  ASSUME NEW c \in Seq(Effects), NEW w \in Seq(Records), NEW n \in 0..(Len(w) - 1),
         \A i \in 1..(n + 1) : w[i].type = "COMMIT"
  PROVE  c \o Txns(w, n + 1) = Append(c \o Txns(w, n), Restored(w[n + 1].txn))
<1>1. /\ Txns(w, n) \in Seq(Effects) /\ Len(Txns(w, n)) = n
      /\ Txns(w, n + 1) \in Seq(Effects) /\ Len(Txns(w, n + 1)) = n + 1
  BY TxnsType
<1>2. Restored(w[n + 1].txn) \in Effects
  <2>1. w[n + 1].txn \in Transactions
    BY RecordTypes
  <2> QED BY Zenon, <2>1, RestoredType
<1>3. Txns(w, n + 1) = Append(Txns(w, n), Restored(w[n + 1].txn))
  <2> DEFINE s == Append(Txns(w, n), Restored(w[n + 1].txn))
  <2>1. s \in Seq(Effects) /\ Len(s) = n + 1
    BY <1>1, <1>2
  <2>2. \A i \in 1..(n + 1) : Txns(w, n + 1)[i] = s[i]
    BY <1>1, <1>2 DEF Txns
  <2> QED BY Zenon, <1>1, <2>1, <2>2, SeqEqual
<1> HIDE DEF Txns
<1>4. c \o Append(Txns(w, n), Restored(w[n + 1].txn)) = Append(c \o Txns(w, n), Restored(w[n + 1].txn))
  BY <1>1, <1>2
<1> QED BY Zenon, <1>3, <1>4

\* Replaying looks at no record behind the first n.
LEMMA TxnsPrefix ==
  ASSUME NEW v, NEW w, NEW n \in Nat, \A i \in 1..n : v[i] = w[i]
  PROVE  Txns(v, n) = Txns(w, n)
  BY Zenon DEF Txns

\* A log with only commits, and one record appended to it.
LEMMA LogAppendShape ==
  ASSUME NEW w \in Seq(Records), WellFormed(w), Complete(w) = Len(w), NEW r \in Records,
         NEW v, v = w \o <<>> \o <<r>>
  PROVE  /\ v \in Seq(Records) /\ Len(v) = Len(w) + 1 /\ v[Len(v)] = r
         /\ WellFormed(v)
         /\ r.type = "COMMIT" => Complete(v) = Len(v)
         /\ Txns(v, Len(w)) = Txns(w, Len(w))
<1>1. /\ v \in Seq(Records) /\ Len(v) = Len(w) + 1 /\ v[Len(v)] = r
      /\ \A i \in 1..Len(w) : v[i] = w[i]
  BY LogAppend
<1>2. \A i \in 1..Len(w) : w[i].type = "COMMIT"
  BY DEF WellFormed, Complete
<1>3. WellFormed(v)
  BY <1>1, <1>2 DEF WellFormed
<1>c. r.type = "COMMIT" => Complete(v) = Len(v)
  BY Zenon, <1>1 DEF Complete
<1>4. Txns(v, Len(w)) = Txns(w, Len(w))
  <2>1. Len(w) \in Nat
    OBVIOUS
  <2> QED  BY Zenon, <1>1, <2>1, TxnsPrefix
<1> QED BY Zenon, <1>1, <1>3, <1>c, <1>4

\* The first records of a well-formed log, all commits, without the rest.
LEMMA LogPrefix ==
  ASSUME NEW w \in Seq(Records), WellFormed(w), NEW n \in 0..Complete(w),
         NEW v, v = SubSeq(w, 1, n)
  PROVE  /\ v \in Seq(Records) /\ Len(v) = n
         /\ \A i \in 1..n : v[i] = w[i] /\ v[i].type = "COMMIT" /\ w[i].type = "COMMIT"
         /\ WellFormed(v) /\ Complete(v) = n
         /\ Txns(v, n) = Txns(w, n)
<1>1. n \in 0..Len(w) /\ Complete(w) \in 0..Len(w)
  BY DEF Complete
<1>2. \A i \in 1..n : w[i] \in Records /\ w[i].type = "COMMIT"
  BY <1>1 DEF Complete, WellFormed
<1>3. v \in Seq(Records) /\ Len(v) = n /\ \A i \in 1..n : v[i] = w[i]
  BY <1>1, <1>2, SubSeqProperties
<1>4. WellFormed(v) /\ Complete(v) = n
  BY <1>1, <1>2, <1>3 DEF WellFormed, Complete
<1>5. Txns(v, n) = Txns(w, n)
  <2>1. n \in Nat
    BY <1>1
  <2> QED  BY Zenon, <1>3, <2>1, TxnsPrefix
<1> QED BY Zenon, <1>2, <1>3, <1>4, <1>5

\* A log of which everything is replayed has only commits.
LEMMA CommitsOnly ==
  ASSUME NEW w \in Seq(Records), WellFormed(w), Complete(w) = Len(w)
  PROVE  (\A i \in 1..Len(w) : w[i].type = "COMMIT") /\ ~EndsIn(w, "CHECKPOINT")
  BY DEF WellFormed, Complete, EndsIn

\* An empty log adds nothing.
LEMMA EmptyLog ==
  /\ WellFormed(<<>>) /\ Complete(<<>>) = 0 /\ Len(<<>>) = 0
  /\ ~EndsIn(<<>>, "CHECKPOINT")
  /\ \A c \in Seq(Effects) : c \o Txns(<<>>, 0) = c
<1>1. Txns(<<>>, 0) = <<>>
  BY DEF Txns
<1> QED BY <1>1 DEF WellFormed, Complete, EndsIn

\* Pages that agree can be read.
LEMMA ReadWhole ==
  ASSUME NEW f, NEW c, \A p \in Pages : f[p] = c
  PROVE  readCheckpoint(f) = c
<1>1. (CHOOSE p \in Pages : TRUE) \in Pages
  BY Zenon, DurabilityAssumption
<1> QED BY Zenon, <1>1 DEF readCheckpoint

-----------------------------------------------------------------------------
(* The inductive invariant.                                                *)

\* The faults the design tolerates.
FaultsAreTolerated == Faults \subseteq {"crash", "power", "ioUnlogged"}
\* The bounds of checkpoints, crashes and failures play no part.
Counts == [transactions : 0..MaxTransactions, checkpoints : Nat, crashes : Nat, failures : Nat]

\* The types; the log's writer is empty between two statements, and recovery succeeds.
Types ==
    /\ pc \in PCs \ {"openFailed"}
    /\ mem \in Seq(Effects) /\ durable \in Seq(Effects)
    /\ committing \in Transactions \cup {None}
    /\ wal \in {Absent} \cup Seq(Records)
    /\ walSynced \in 0..Len(LogRecords)
    /\ buffer = <<>>
    /\ shadow \in {Absent, Corrupt} \cup Seq(Effects)
    /\ data \in [Pages -> Seq(Effects)]
    /\ dataDisk \in [Pages -> Seq(Effects)]
    /\ replayedUnsynced \in BOOLEAN
    /\ count \in Counts

\* All of the log is on disk.
Synced == walSynced = Len(LogRecords)

\* What each statement leaves in the log.  At most the last record is not
\* synced, while it is being written or after a crash.
LogInv ==
    /\ WellFormed(LogRecords)
    /\ pc \in {"idle", "force", "flush", "flushSync", "log", "commitSync"} =>
          Complete(LogRecords) = Len(LogRecords)
    /\ pc \in {"logSync", "apply", "dataSync", "clearWAL", "replayShadow", "removeShadow",
               "removeWAL"} => EndsIn(LogRecords, "CHECKPOINT")
    /\ pc = "replayRecords" => ~EndsIn(LogRecords, "CHECKPOINT") /\ wal # Absent
    /\ pc \in {"clearShadow", "resetWAL", "resetShadow"} => LogRecords = <<>>
    /\ pc = "commitSync" =>
          ~Synced /\ committing # None /\ LogRecords[Len(LogRecords)] = CommitRecord(committing)
    /\ pc \in OpenPCs /\ committing # None => pc = "commitSync"
    /\ ~Synced =>
          /\ pc \in {"commitSync", "logSync", "down", "replay"}
          /\ walSynced = Len(LogRecords) - 1
          /\ \/ EndsIn(LogRecords, "CHECKPOINT")
             \/ committing # None /\ LogRecords[Len(LogRecords)] = CommitRecord(committing)

\* A logged checkpoint can be redone from the shadow file until its pages are
\* in the data file, and on disk before the checkpoint goes on.
CheckpointInv ==
    /\ EndsIn(LogRecords, "CHECKPOINT") /\ pc # "removeWAL" => shadow = mem
    /\ pc = "log" => shadow = mem
    /\ pc \in {"apply", "dataSync", "clearWAL", "clearShadow", "resetWAL", "resetShadow",
               "replayShadow", "removeShadow", "removeWAL"} =>
          durable = mem
    /\ pc \in {"dataSync", "clearWAL", "clearShadow", "resetWAL", "resetShadow",
               "removeShadow", "removeWAL"} => \A p \in Pages : data[p] = mem
    /\ pc = "clearWAL" => dataDisk = data
    /\ pc \in {"removeShadow", "removeWAL"} => (replayedUnsynced \/ dataDisk = data)

\* What recovery may find: the commit under way when the database went down
\* is in the log or is not.
Outcomes ==
    IF pc \in OpenPCs \/ committing = None THEN {durable}
    ELSE {durable, Append(durable, Restored(committing))}

\* As long as no checkpoint is logged and synced, data file and log hold what
\* survives of the committed transactions.
DataInv ==
    ~Synced \/ ~EndsIn(LogRecords, "CHECKPOINT") =>
        /\ replayedUnsynced \/ dataDisk = data
        /\ \A p, q \in Pages : data[p] = data[q]
        /\ Synced => \A p \in Pages : data[p] \o Txns(LogRecords, Complete(LogRecords)) \in Outcomes
        /\ ~Synced => \A p \in Pages : data[p] \o Txns(LogRecords, walSynced) = durable

\* Transactions are numbered in the order in which they began to commit.
CountInv ==
    /\ committing <= count.transactions
    /\ \A i \in 1..Len(mem) : mem[i] <= count.transactions
    /\ \A i \in 1..Len(durable) : durable[i] <= count.transactions

\* The inductive invariant.
IInv == Types /\ LogInv /\ CheckpointInv /\ DataInv /\ CountInv

-----------------------------------------------------------------------------
(* Every step preserves the invariant.                                     *)

\* A new database has no files but an empty data file.
LEMMA InitIInv == Init => IInv
<1> SUFFICES ASSUME Init PROVE IInv
  BY Zenon
<1>1. LogRecords = <<>> /\ Synced
  BY Zenon DEF Init, LogRecords, Synced
<1>2. Types
  <2>1. data \in [Pages -> Seq(Effects)] /\ dataDisk \in [Pages -> Seq(Effects)]
    BY DEF Init
  <2>2. walSynced \in 0..Len(LogRecords) /\ count \in Counts
    BY <1>1, DurabilityAssumption DEF Init, Synced, Counts
  <2>3. /\ pc \in PCs \ {"openFailed"} /\ mem \in Seq(Effects) /\ durable \in Seq(Effects)
        /\ committing \in Transactions \cup {None} /\ wal \in {Absent} \cup Seq(Records)
    BY DEF Init, PCs
  <2>4. /\ buffer = <<>> /\ shadow \in {Absent, Corrupt} \cup Seq(Effects)
        /\ replayedUnsynced \in BOOLEAN
    BY Zenon DEF Init
  <2> QED  BY Zenon, <2>1, <2>2, <2>3, <2>4 DEF Types
<1>3. LogInv /\ CheckpointInv
  BY Zenon, <1>1, EmptyLog DEF Init, LogInv, CheckpointInv, OpenPCs
<1>4. DataInv
  <2>1. /\ dataDisk = data /\ durable = <<>> /\ committing = None
        /\ \A p \in Pages : data[p] = <<>>
    BY Zenon DEF Init
  <2>2. \A p \in Pages : data[p] \o Txns(LogRecords, Complete(LogRecords)) \in Outcomes
    <3>1. <<>> \in Seq(Effects)
      OBVIOUS
    <3> QED  BY Zenon, <1>1, <2>1, <3>1, EmptyLog DEF Outcomes
  <2> QED  BY Zenon, <1>1, <2>1, <2>2 DEF DataInv
<1>5. CountInv
  BY DEF Init, CountInv, None
<1> QED BY Zenon, <1>2, <1>3, <1>4, <1>5 DEF IInv

\* Counting checkpoints, crashes and failures does not count transactions.
LEMMA OtherCounts ==
  ASSUME NEW c \in Counts
  PROVE  \A d \in {[c EXCEPT !.checkpoints = @ + 1], [c EXCEPT !.crashes = @ + 1],
                   [c EXCEPT !.failures = @ + 1]} :
            d \in Counts /\ d.transactions = c.transactions
  BY DEF Counts

\* What is found when the last record is not synced but there.
LEMMA UnsyncedCommit ==
  ASSUME IInv, ~Synced, ~EndsIn(LogRecords, "CHECKPOINT")
  PROVE  /\ committing # None
         /\ \A p \in Pages : data[p] \o Txns(LogRecords, Complete(LogRecords))
                               = Append(durable, Restored(committing))
<1> DEFINE n == Len(LogRecords)
<1>1. /\ LogRecords \in Seq(Records) /\ WellFormed(LogRecords) /\ committing # None
      /\ LogRecords[n] = CommitRecord(committing)
      /\ \A p \in Pages : data[p] \in Seq(Effects)
      /\ \A p \in Pages : data[p] \o Txns(LogRecords, walSynced) = durable
  BY DEF IInv, Types, LogInv, DataInv, LogRecords
<1>2. walSynced \in 0..(n - 1) /\ walSynced + 1 = n /\ n \in Nat /\ n > 0
  BY <1>1 DEF IInv, LogInv, Types
<1>3. CommitRecord(committing).type = "COMMIT" /\ CommitRecord(committing).txn = committing
  BY Zenon DEF CommitRecord
<1>4. Complete(LogRecords) = n
  BY Zenon, <1>1, <1>2, <1>3 DEF Complete
<1>5. \A i \in 1..n : LogRecords[i].type = "COMMIT"
  BY Zenon, <1>1, <1>4, CommitsOnly
<1> HIDE DEF n
<1>6. \A p \in Pages : data[p] \o Txns(LogRecords, walSynced + 1)
                       = Append(durable, Restored(LogRecords[walSynced + 1].txn))
  <2>1. \A i \in 1..(walSynced + 1) : LogRecords[i].type = "COMMIT"
    BY Zenon, <1>2, <1>5
  <2>2. walSynced \in 0..(Len(LogRecords) - 1)
    BY Zenon, <1>2 DEF n
  <2> QED  BY Zenon, <1>1, <2>1, <2>2, TxnsAppend
<1> QED  BY Zenon, <1>1, <1>2, <1>3, <1>4, <1>6

\* What recovery may find was committed, or was being committed.
LEMMA OutcomesAreCounted ==
  ASSUME IInv, NEW c \in Outcomes
  PROVE  c \in Seq(Effects) /\ \A i \in 1..Len(c) : c[i] <= count.transactions
<1>1. /\ durable \in Seq(Effects) /\ committing \in Transactions \cup {None}
      /\ committing <= count.transactions
      /\ \A i \in 1..Len(durable) : durable[i] <= count.transactions
  BY Zenon DEF IInv, Types, CountInv
<1>2. CASE c = durable
  BY Zenon, <1>1, <1>2
<1>3. CASE c = Append(durable, Restored(committing)) /\ committing # None
  <2>1. Restored(committing) \in Effects /\ Restored(committing) \in {committing, None}
    BY Zenon, <1>1, <1>3, RestoredType
  <2>2. 0 <= count.transactions
    BY DEF IInv, Types, Counts
  <2>3. Restored(committing) <= count.transactions
    BY Zenon, <1>1, <2>1, <2>2 DEF None
  <2> QED  BY <1>1, <1>3, <2>1, <2>3
<1> QED  BY Zenon, <1>2, <1>3 DEF Outcomes

\* Transactions are numbers, and so is None.
LEMMA Numbers ==
  ASSUME NEW c \in Seq(Effects)
  PROVE  \A i \in 1..Len(c) : c[i] \in Nat
<1>1. Effects \subseteq Nat
  BY DEF Effects, Transactions, None
<1> QED  BY Zenon, <1>1, ElementOfSeq

\* The commit record is written.
LEMMA logCommittedWALIInv ==
  ASSUME IInv, logCommittedWAL PROVE IInv'
<1> DEFINE r == CommitRecord(committing')
<1>1. /\ committing' = count.transactions + 1 /\ committing' \in Transactions /\ committing' # None
      /\ r \in Records /\ r.type = "COMMIT"
  <2>1. /\ committing' = count.transactions + 1 /\ committing' \in Transactions
        /\ committing' # None
    <3>1. /\ committing' = count.transactions + 1 /\ count.transactions < MaxTransactions
          /\ count \in Counts
      BY Zenon DEF logCommittedWAL, IInv, Types
    <3>2. count.transactions \in Nat /\ MaxTransactions \in Nat
      BY <3>1, DurabilityAssumption DEF Counts
    <3> QED  BY <3>1, <3>2 DEF Transactions, None
  <2> QED  BY Zenon, <2>1 DEF Records, CommitRecord
<1>2. LogRecords \in Seq(Records) /\ WellFormed(LogRecords) /\ Complete(LogRecords) = Len(LogRecords)
  BY DEF IInv, Types, LogInv, logCommittedWAL, LogRecords
<1>3. wal' = LogRecords \o <<>> \o <<r>>
  BY Zenon DEF logCommittedWAL, IInv, Types
<1>4. /\ wal' \in Seq(Records) /\ Len(wal') = Len(LogRecords) + 1 /\ wal'[Len(wal')] = r
      /\ WellFormed(wal') /\ Complete(wal') = Len(wal')
      /\ Txns(wal', Len(LogRecords)) = Txns(LogRecords, Len(LogRecords))
  <2>1. ASSUME NEW v, v = LogRecords \o <<>> \o <<r>>
        PROVE  /\ v \in Seq(Records) /\ Len(v) = Len(LogRecords) + 1 /\ v[Len(v)] = r
               /\ WellFormed(v) /\ Complete(v) = Len(v)
               /\ Txns(v, Len(LogRecords)) = Txns(LogRecords, Len(LogRecords))
    <3> HIDE DEF r
    <3> QED  BY Zenon, <1>1, <1>2, <2>1, LogAppendShape
  <2> QED  BY Zenon, <1>3, <2>1
<1>5. LogRecords' = wal'
  BY Zenon, <1>4, DurabilityAssumption DEF LogRecords
<1>6. /\ walSynced = Len(LogRecords) /\ walSynced' = walSynced
      /\ Synced /\ ~Synced' /\ ~EndsIn(LogRecords, "CHECKPOINT") /\ ~EndsIn(LogRecords', "CHECKPOINT")
  BY <1>1, <1>2, <1>4, <1>5 DEF IInv, LogInv, logCommittedWAL, Synced, EndsIn, Complete
<1> HIDE DEF r
<1>c. count'.transactions = count.transactions + 1 /\ count' \in Counts
  <2>1. /\ count \in Counts /\ count.transactions < MaxTransactions /\ MaxTransactions \in Nat
        /\ count' = [count EXCEPT !.transactions = @ + 1]
    BY Zenon, DurabilityAssumption DEF logCommittedWAL, IInv, Types
  <2>2. count.transactions + 1 \in 0..MaxTransactions
    BY <2>1 DEF Counts
  <2> QED  BY Zenon, <2>1, <2>2 DEF Counts
<1>7. Types'
  <2>1. walSynced' \in 0..Len(LogRecords')
    BY <1>2, <1>4, <1>5, <1>6
  <2> QED  BY Zenon, <1>1, <1>4, <1>5, <1>c, <2>1
               DEF IInv, Types, logCommittedWAL, dataFile, PCs, OpenPCs
<1>8. LogInv'
  BY <1>1, <1>4, <1>5, <1>6 DEF IInv, LogInv, logCommittedWAL, r
<1>9. CheckpointInv'
  BY Zenon, <1>6 DEF CheckpointInv, logCommittedWAL
<1>10. DataInv'
  <2>1. \A p \in Pages : data[p] \o Txns(LogRecords, Len(LogRecords)) = durable
    BY Zenon, <1>2, <1>6 DEF IInv, DataInv, Outcomes, logCommittedWAL, OpenPCs
  <2>2. /\ replayedUnsynced \/ dataDisk = data
        /\ \A p, q \in Pages : data[p] = data[q]
    BY Zenon, <1>6 DEF IInv, DataInv
  <2> QED BY Zenon, <1>4, <1>5, <1>6, <2>1, <2>2 DEF DataInv, logCommittedWAL, dataFile
<1>11. CountInv'
  <2>1. /\ mem' = mem /\ durable' = durable /\ count.transactions \in Nat
        /\ \A i \in 1..Len(mem) : mem[i] <= count.transactions
        /\ \A i \in 1..Len(durable) : durable[i] <= count.transactions
    BY DEF IInv, Types, Counts, CountInv, logCommittedWAL
  <2>2. /\ \A i \in 1..Len(mem) : mem[i] \in Nat
        /\ \A i \in 1..Len(durable) : durable[i] \in Nat
    BY Zenon, Numbers DEF IInv, Types
  <2> QED  BY <1>1, <1>c, <2>1, <2>2 DEF CountInv
<1> QED BY Zenon, <1>7, <1>8, <1>9, <1>10, <1>11 DEF IInv

\* The commit is acknowledged.
LEMMA CommitSyncIInv ==
  ASSUME IInv, CommitSync PROVE IInv'
<1>1. /\ LogRecords \in Seq(Records) /\ WellFormed(LogRecords)
      /\ Complete(LogRecords) = Len(LogRecords) /\ ~Synced /\ walSynced = Len(LogRecords) - 1
      /\ Len(LogRecords) > 0 /\ LogRecords = wal /\ wal' = wal /\ LogRecords' = LogRecords
      /\ LogRecords[Len(LogRecords)] = CommitRecord(committing)
      /\ committing \in Transactions
  BY DEF IInv, Types, LogInv, CommitSync, LogRecords, Synced
<1>2. ~EndsIn(LogRecords, "CHECKPOINT")
  BY Zenon, <1>1, CommitsOnly
<1>3. /\ walSynced' = Len(LogRecords) /\ Synced' /\ pc' \in {"idle", "force"}
      /\ mem' = Append(mem, committing) /\ committing' = None
      /\ durable' = Append(durable, Restored(committing)) /\ Restored(committing) \in Effects
  BY Zenon, <1>1, RestoredType DEF CommitSync, Committed, Synced
<1>4. Types'
  <2>1. mem' \in Seq(Effects) /\ durable' \in Seq(Effects)
    <3>1. mem \in Seq(Effects) /\ durable \in Seq(Effects) /\ committing \in Effects
      BY Zenon, <1>1 DEF IInv, Types, Effects
    <3> QED  BY <1>3, <3>1
  <2>2. walSynced' \in 0..Len(LogRecords') /\ pc' \in PCs \ {"openFailed"}
    BY <1>1, <1>3 DEF PCs, OpenPCs
  <2> QED  BY Zenon, <1>1, <1>3, <2>1, <2>2 DEF IInv, Types, CommitSync, dataFile
<1>5. LogInv'
  BY Zenon, <1>1, <1>3 DEF IInv, LogInv
<1>6. CheckpointInv'
  BY Zenon, <1>1, <1>2, <1>3 DEF CheckpointInv
<1>7. DataInv'
  <2>1. /\ replayedUnsynced \/ dataDisk = data
        /\ \A p, q \in Pages : data[p] = data[q]
    BY Zenon, <1>1 DEF IInv, DataInv
  <2>2. \A p \in Pages : data[p] \o Txns(LogRecords, Complete(LogRecords)) = durable'
    BY Zenon, <1>1, <1>2, <1>3, UnsyncedCommit
  <2> QED  BY Zenon, <1>1, <1>3, <2>1, <2>2 DEF DataInv, Outcomes, CommitSync, dataFile
<1>8. CountInv'
  <2>1. /\ mem \in Seq(Effects) /\ durable \in Seq(Effects) /\ count' = count
        /\ committing <= count.transactions /\ 0 <= count.transactions
        /\ \A i \in 1..Len(mem) : mem[i] <= count.transactions
        /\ \A i \in 1..Len(durable) : durable[i] <= count.transactions
    BY <1>1 DEF IInv, Types, Counts, CountInv, CommitSync
  <2>2. ASSUME NEW c \in Seq(Effects), NEW e \in Effects, e <= count.transactions,
               \A i \in 1..Len(c) : c[i] <= count.transactions
        PROVE  \A i \in 1..Len(Append(c, e)) : Append(c, e)[i] <= count.transactions
    BY <2>2
  <2>3. /\ Restored(committing) <= count.transactions /\ committing \in Effects
    BY Zenon, <1>1, <2>1, RestoredType DEF None, Effects
  <2> QED  BY Zenon, <1>3, <2>1, <2>2, <2>3 DEF CountInv, None
<1> QED BY Zenon, <1>4, <1>5, <1>6, <1>7, <1>8 DEF IInv

\* The CHECKPOINT record is written.
LEMMA logAndFlushCheckpointIInv ==
  ASSUME IInv, logAndFlushCheckpoint PROVE IInv'
<1>1. Checkpoint \in Records /\ Checkpoint.type = "CHECKPOINT"
  BY Zenon DEF Records, Checkpoint
<1>2. LogRecords \in Seq(Records) /\ WellFormed(LogRecords) /\ Complete(LogRecords) = Len(LogRecords)
  BY DEF IInv, Types, LogInv, logAndFlushCheckpoint, LogRecords
<1>3. wal' = LogRecords \o <<>> \o <<Checkpoint>>
  BY Zenon DEF logAndFlushCheckpoint, IInv, Types
<1>4. /\ wal' \in Seq(Records) /\ Len(wal') = Len(LogRecords) + 1 /\ wal'[Len(wal')] = Checkpoint
      /\ WellFormed(wal')
      /\ Txns(wal', Len(LogRecords)) = Txns(LogRecords, Len(LogRecords))
  BY Zenon, <1>1, <1>2, <1>3, LogAppendShape
<1>5. LogRecords' = wal'
  BY Zenon, <1>4, DurabilityAssumption DEF LogRecords
<1>6. /\ walSynced = Len(LogRecords) /\ walSynced' = walSynced
      /\ Synced /\ ~Synced' /\ ~EndsIn(LogRecords, "CHECKPOINT") /\ EndsIn(LogRecords', "CHECKPOINT")
  BY <1>1, <1>2, <1>4, <1>5 DEF IInv, LogInv, logAndFlushCheckpoint, Synced, EndsIn, Complete
<1>7. Types'
  BY <1>4, <1>5, <1>6 DEF IInv, Types, logAndFlushCheckpoint, dataFile, database, PCs, OpenPCs
<1>8. LogInv'
  BY <1>4, <1>5, <1>6 DEF IInv, LogInv, logAndFlushCheckpoint, database, OpenPCs
<1>9. CheckpointInv'
  BY Zenon DEF IInv, CheckpointInv, logAndFlushCheckpoint, database
<1>10. DataInv'
  <2>1. \A p \in Pages : data[p] \o Txns(LogRecords, Len(LogRecords)) = durable
    BY Zenon, <1>2, <1>6 DEF IInv, DataInv, Outcomes, logAndFlushCheckpoint, OpenPCs
  <2>2. /\ replayedUnsynced \/ dataDisk = data
        /\ \A p, q \in Pages : data[p] = data[q]
    BY Zenon, <1>6 DEF IInv, DataInv
  <2> QED BY Zenon, <1>4, <1>5, <1>6, <2>1, <2>2 DEF DataInv, logAndFlushCheckpoint, dataFile, database
<1>11. CountInv'
  BY Zenon DEF IInv, CountInv, logAndFlushCheckpoint, database
<1> QED BY Zenon, <1>7, <1>8, <1>9, <1>10, <1>11 DEF IInv

\* Statements of the checkpoint that leave the log alone.
LEMMA CheckpointStatementIInv ==
  ASSUME IInv,
         \/ BuildShadowPages \/ flushAll \/ FlushSync \/ LogSync \/ applyShadowPages
         \/ PagesApplied \/ DataSync \/ ClearShadow \/ ResetShadow
  PROVE  IInv'
<1> USE DEF IInv, database, log, dataFile
<1>1. LogRecords' = LogRecords /\ (walSynced' = walSynced => (Synced' <=> Synced))
  BY Zenon DEF LogRecords, Synced, BuildShadowPages, flushAll, FlushSync, LogSync,
     applyShadowPages, PagesApplied, DataSync, ClearShadow, ResetShadow
<1>2. mem \in Seq(Effects) /\ mem # Absent
  BY Zenon, DurabilityAssumption DEF Types
<1>3. CASE BuildShadowPages
  <2>1. Types'
    <3>1. count' \in Counts
      BY Zenon, <1>3, OtherCounts DEF Types, BuildShadowPages
    <3> QED  BY Zenon, <1>1, <1>3, <3>1 DEF Types, BuildShadowPages, PCs, OpenPCs
  <2>2. LogInv' /\ CheckpointInv'
    BY <1>1, <1>3 DEF LogInv, CheckpointInv, BuildShadowPages, OpenPCs, Complete, EndsIn
  <2>3. DataInv' /\ CountInv'
    BY <1>1, <1>3 DEF DataInv, Outcomes, CountInv, BuildShadowPages, OpenPCs, Types
  <2> QED BY Zenon, <2>1, <2>2, <2>3
<1>4. CASE flushAll
  <2>1. Types'
    BY Zenon, <1>1, <1>4 DEF Types, flushAll, PCs, OpenPCs
  <2>2. LogInv' /\ CheckpointInv'
    BY <1>1, <1>4 DEF LogInv, CheckpointInv, flushAll, OpenPCs, Complete, EndsIn
  <2>3. DataInv' /\ CountInv'
    BY Zenon, <1>1, <1>4 DEF DataInv, Outcomes, CountInv, flushAll, OpenPCs
  <2> QED BY Zenon, <2>1, <2>2, <2>3
<1>5. CASE FlushSync
  <2>1. Types'
    BY Zenon, <1>1, <1>2, <1>5 DEF Types, FlushSync, PCs, OpenPCs
  <2>2. LogInv' /\ CheckpointInv'
    BY Zenon, <1>1, <1>5 DEF LogInv, CheckpointInv, FlushSync, OpenPCs, Complete, EndsIn
  <2>3. DataInv' /\ CountInv'
    BY Zenon, <1>1, <1>5 DEF DataInv, Outcomes, CountInv, FlushSync, OpenPCs
  <2> QED BY Zenon, <2>1, <2>2, <2>3
<1>6. CASE LogSync
  <2>1. LogRecords = wal /\ Synced'
    BY <1>1, <1>6 DEF LogInv, LogSync, LogRecords, Synced, EndsIn
  <2>2. Types'
    BY <1>1, <1>6, <2>1 DEF Types, LogSync, PCs, OpenPCs, Synced
  <2>3. LogInv' /\ CheckpointInv'
    BY Zenon, <1>1, <1>6, <2>1 DEF LogInv, CheckpointInv, LogSync, OpenPCs
  <2>4. DataInv' /\ CountInv'
    BY Zenon, <1>1, <1>6, <2>1, <2>3 DEF DataInv, LogInv, LogSync, CountInv
  <2> QED BY Zenon, <2>2, <2>3, <2>4
<1>7. CASE applyShadowPages
  <2>1. shadow = mem
    BY Zenon, <1>7 DEF LogInv, CheckpointInv, applyShadowPages
  <2>2. Types'
    BY Zenon, <1>1, <1>2, <1>7, <2>1 DEF Types, applyShadowPages
  <2>3. LogInv' /\ CheckpointInv'
    BY Zenon, <1>1, <1>7 DEF LogInv, CheckpointInv, applyShadowPages
  <2>4. DataInv' /\ CountInv'
    BY Zenon, <1>1, <1>7 DEF DataInv, LogInv, applyShadowPages, CountInv
  <2> QED BY Zenon, <2>2, <2>3, <2>4
<1>8. CASE PagesApplied
  <2>1. Types'
    BY Zenon, <1>1, <1>8 DEF Types, PagesApplied, PCs, OpenPCs
  <2>2. LogInv' /\ CheckpointInv'
    BY Zenon, <1>1, <1>8 DEF LogInv, CheckpointInv, PagesApplied, OpenPCs
  <2>3. DataInv' /\ CountInv'
    BY Zenon, <1>1, <1>8 DEF DataInv, LogInv, PagesApplied, CountInv
  <2> QED BY Zenon, <2>1, <2>2, <2>3
<1>9. CASE DataSync
  <2>1. Types'
    BY Zenon, <1>1, <1>9 DEF Types, DataSync, PCs, OpenPCs
  <2>2. LogInv' /\ CheckpointInv'
    BY Zenon, <1>1, <1>9 DEF LogInv, CheckpointInv, DataSync, OpenPCs
  <2>3. DataInv' /\ CountInv'
    BY Zenon, <1>1, <1>9 DEF DataInv, LogInv, DataSync, CountInv
  <2> QED BY Zenon, <2>1, <2>2, <2>3
<1>10. CASE ClearShadow
  <2>1. Types'
    BY Zenon, <1>1, <1>10 DEF Types, ClearShadow, PCs, OpenPCs
  <2>2. LogInv' /\ CheckpointInv'
    BY Zenon, <1>1, <1>10, EmptyLog DEF LogInv, CheckpointInv, ClearShadow, OpenPCs
  <2>3. DataInv' /\ CountInv'
    BY Zenon, <1>1, <1>10 DEF DataInv, Outcomes, ClearShadow, CountInv, OpenPCs
  <2> QED BY Zenon, <2>1, <2>2, <2>3
<1>11. CASE ResetShadow
  <2>1. Types'
    BY Zenon, <1>1, <1>11 DEF Types, ResetShadow, PCs, OpenPCs
  <2>2. LogInv' /\ CheckpointInv'
    BY Zenon, <1>1, <1>11, EmptyLog DEF LogInv, CheckpointInv, ResetShadow, OpenPCs
  <2>3. DataInv' /\ CountInv'
    BY Zenon, <1>1, <1>11 DEF DataInv, Outcomes, ResetShadow, CountInv, OpenPCs
  <2> QED BY Zenon, <2>1, <2>2, <2>3
<1> QED BY Zenon, <1>3, <1>4, <1>5, <1>6, <1>7, <1>8, <1>9, <1>10, <1>11

\* The log is emptied and removed when the data file holds everything.
LEMMA ClearLogIInv ==
  ASSUME IInv, ClearWAL \/ ResetWAL PROVE IInv'
<1> USE DEF IInv, database, dataFile
<1>1. LogRecords' = <<>> /\ walSynced' = 0 /\ Synced'
  BY Zenon DEF LogRecords, Synced, ClearWAL, ResetWAL
<1>2. /\ dataDisk = data \/ replayedUnsynced
      /\ \A p \in Pages : data[p] = mem
      /\ durable = mem /\ mem' = mem /\ durable' = mem /\ data' = data /\ dataDisk' = dataDisk
      /\ replayedUnsynced' = replayedUnsynced /\ shadow' = shadow
      /\ committing = None /\ committing' = None
  BY Zenon, EmptyLog DEF CheckpointInv, DataInv, LogInv, ClearWAL, ResetWAL, OpenPCs, Types
<1>3. Types'
  <2>1. walSynced' \in 0..Len(LogRecords') /\ wal' \in {Absent} \cup Seq(Records)
    <3>1. <<>> \in Seq(Records) /\ 0 \in 0..Len(<<>>)
      OBVIOUS
    <3> QED  BY Zenon, <1>1, <3>1 DEF ClearWAL, ResetWAL
  <2> QED  BY Zenon, <2>1 DEF Types, ClearWAL, ResetWAL, PCs, OpenPCs
<1>4. LogInv' /\ CheckpointInv'
  BY Zenon, <1>1, <1>2, EmptyLog DEF LogInv, CheckpointInv, ClearWAL, ResetWAL, OpenPCs
<1>5. DataInv'
  BY Zenon, <1>1, <1>2, EmptyLog DEF DataInv, Outcomes, Types
<1>6. CountInv'
  BY Zenon DEF CountInv, ClearWAL, ResetWAL
<1> QED BY Zenon, <1>3, <1>4, <1>5, <1>6

\* A checkpoint that fails before its record is logged leaves a database that
\* recovers from its log.
LEMMA CheckpointFailsIInv ==
  ASSUME IInv, FaultsAreTolerated, CheckpointFails PROVE IInv'
<1> USE DEF IInv, database, dataFile
<1>1. /\ pc \in {"flush", "flushSync", "resetWAL"} /\ pc' = "idle"
      /\ UNCHANGED <<mem, durable, committing, wal, walSynced, shadow, data, dataDisk,
                     replayedUnsynced, buffer>>
      /\ count' = [count EXCEPT !.failures = @ + 1]
  BY Zenon DEF CheckpointFails, FaultsAreTolerated
<1>2. LogRecords' = LogRecords /\ (Synced' <=> Synced)
  BY Zenon, <1>1 DEF LogRecords, Synced
<1>3. Types'
  BY Zenon, <1>1, <1>2, OtherCounts DEF Types, PCs, OpenPCs
<1>4. LogInv' /\ CheckpointInv'
  BY Zenon, <1>1, <1>2, EmptyLog DEF LogInv, CheckpointInv, OpenPCs, Complete, EndsIn
<1>5. DataInv'
  BY Zenon, <1>1, <1>2 DEF DataInv, Outcomes, OpenPCs
<1>6. CountInv'
  BY <1>1 DEF CountInv, Types
<1> QED BY Zenon, <1>3, <1>4, <1>5, <1>6

\* So does a COPY whose checkpoint does not come about.
LEMMA CheckpointTimesOutIInv ==
  ASSUME IInv, CheckpointTimesOut PROVE IInv'
<1> USE DEF IInv, database, log, dataFile, CheckpointTimesOut
<1>1. LogRecords' = LogRecords /\ (Synced' <=> Synced)
  BY Zenon DEF LogRecords, Synced
<1>2. Types'
  BY Zenon, <1>1 DEF Types, PCs, OpenPCs
<1>3. LogInv' /\ CheckpointInv'
  BY Zenon, <1>1 DEF LogInv, CheckpointInv, OpenPCs
<1>4. DataInv' /\ CountInv'
  BY Zenon, <1>1 DEF DataInv, Outcomes, CountInv, OpenPCs
<1> QED BY Zenon, <1>2, <1>3, <1>4

\* Recovery without a log finds everything in the data file.
LEMMA ReplayWithoutLogIInv ==
  ASSUME IInv, ReplayWithoutLog
  PROVE  IInv' /\ pc' = "idle" /\ mem' \in Outcomes /\ durable' = mem' /\ committing' = None
<1> USE DEF IInv, dataFile
<1>1. /\ LogRecords = <<>> /\ LogRecords' = <<>> /\ walSynced = 0 /\ walSynced' = 0
      /\ Synced /\ Synced' /\ ~EndsIn(LogRecords, "CHECKPOINT")
  BY EmptyLog DEF Types, ReplayWithoutLog, LogRecords, Synced
<1>2. PICK p0 \in Pages : TRUE
  BY Zenon, DurabilityAssumption
<1>3. /\ \A p \in Pages : data[p] = data[p0]
      /\ data[p0] \in Seq(Effects) /\ data[p0] \in Outcomes
      /\ replayedUnsynced \/ dataDisk = data
  <2>1. \A p \in Pages : data[p] \in Seq(Effects)
    BY Zenon DEF Types
  <2> QED  BY Zenon, <1>1, <2>1, EmptyLog DEF DataInv
<1>4. pc' = "idle" /\ mem' = data[p0] /\ durable' = mem' /\ committing' = None
  <2>1. readCheckpoint(data) = data[p0]
    BY Zenon, <1>3, ReadWhole
  <2> QED BY Zenon, <1>3, <2>1, DurabilityAssumption DEF ReplayWithoutLog, OpenWith
<1>5. Types'
  BY Zenon, <1>1, <1>3, <1>4 DEF Types, ReplayWithoutLog, PCs, OpenPCs
<1>6. LogInv' /\ CheckpointInv'
  BY Zenon, <1>1, <1>4, EmptyLog DEF LogInv, CheckpointInv
<1>7. DataInv'
  BY Zenon, <1>1, <1>3, <1>4, EmptyLog DEF DataInv, Outcomes, ReplayWithoutLog
<1>8. CountInv'
  <2>1. 0 <= count.transactions /\ count' = count
    BY DEF Types, Counts, ReplayWithoutLog
  <2> QED  BY Zenon, <1>3, <1>4, <2>1, OutcomesAreCounted DEF CountInv, None
<1> QED BY Zenon, <1>3, <1>4, <1>5, <1>6, <1>7, <1>8

\* Recovery syncs the log: a commit under way is then in it.
LEMMA ReplayIInv ==
  ASSUME IInv, Replay PROVE IInv'
<1> USE DEF IInv, database, dataFile
<1>1. /\ LogRecords = wal /\ LogRecords' = LogRecords /\ wal # Absent /\ wal \in Seq(Records)
      /\ WellFormed(wal) /\ walSynced' = Len(LogRecords) /\ Synced' /\ pc = "replay"
  BY Zenon DEF Types, LogInv, Replay, LogRecords, Synced
<1>2. dryReplay(wal).isLastRecordCheckpoint <=> EndsIn(LogRecords, "CHECKPOINT")
  BY Zenon, <1>1, DryReplayOfWellFormed
<1>3. mem # Absent
  BY Zenon, DurabilityAssumption DEF Types
<1>4. CASE EndsIn(LogRecords, "CHECKPOINT")
  <2>1. pc' = "replayShadow" /\ durable' = mem
        /\ UNCHANGED <<mem, committing, shadow, data, dataDisk, replayedUnsynced, wal, buffer,
                       count>>
    BY Zenon, <1>2, <1>3, <1>4, <1>1 DEF Replay, CheckpointInv
  <2>2. Types'
    BY <1>1, <2>1 DEF Types, PCs, RecoveryPCs
  <2>3. LogInv' /\ CheckpointInv'
    BY Zenon, <1>1, <1>4, <2>1 DEF LogInv, CheckpointInv, OpenPCs
  <2>4. DataInv' /\ CountInv'
    BY Zenon, <1>1, <1>4, <2>1 DEF DataInv, CountInv
  <2> QED BY Zenon, <2>2, <2>3, <2>4
<1>5. CASE ~EndsIn(LogRecords, "CHECKPOINT")
  <2>1. pc' = "replayRecords" /\ shadow' = Absent
        /\ UNCHANGED <<mem, durable, committing, data, dataDisk, replayedUnsynced, wal, buffer, count>>
    BY Zenon, <1>2, <1>5 DEF Replay
  <2>2. Types'
    BY <1>1, <2>1 DEF Types, PCs, RecoveryPCs
  <2>3. LogInv' /\ CheckpointInv'
    BY Zenon, <1>1, <1>5, <2>1 DEF LogInv, CheckpointInv, OpenPCs
  <2>4. \A p \in Pages : data[p] \o Txns(LogRecords, Complete(LogRecords)) \in Outcomes'
    <3>1. CASE Synced
      BY Zenon, <1>1, <1>5, <2>1, <3>1 DEF DataInv, Outcomes, OpenPCs
    <3>2. CASE ~Synced
      BY Zenon, <1>1, <1>5, <2>1, <3>2, UnsyncedCommit DEF Outcomes, OpenPCs
    <3> QED BY Zenon, <3>1, <3>2
  <2>5. DataInv'
    BY Zenon, <1>1, <1>5, <2>1, <2>4 DEF DataInv
  <2>6. CountInv'
    BY Zenon, <2>1 DEF CountInv
  <2> QED BY Zenon, <2>2, <2>3, <2>5, <2>6
<1> QED BY Zenon, <1>4, <1>5

\* The pages of a logged checkpoint are copied, then its files are removed.
LEMMA RedoCheckpointIInv ==
  ASSUME IInv, Open \/ replayShadowPageRecords \/ ShadowPagesReplayed \/ RemoveShadow
  PROVE  IInv'
<1> USE DEF IInv, database, log, dataFile
<1>1. LogRecords' = LogRecords /\ (Synced' <=> Synced)
  BY Zenon DEF LogRecords, Synced, Open, replayShadowPageRecords, ShadowPagesReplayed, RemoveShadow
<1>2. CASE Open
  <2>1. Types'
    BY Zenon, <1>1, <1>2 DEF Types, Open, PCs, RecoveryPCs
  <2>2. LogInv' /\ CheckpointInv'
    BY Zenon, <1>1, <1>2 DEF LogInv, CheckpointInv, Open, OpenPCs
  <2>3. DataInv' /\ CountInv'
    BY Zenon, <1>1, <1>2 DEF DataInv, Outcomes, Open, CountInv, OpenPCs
  <2> QED BY Zenon, <2>1, <2>2, <2>3
<1>3. CASE replayShadowPageRecords
  <2>1. shadow = mem /\ mem \in Seq(Effects)
    BY Zenon, <1>3 DEF LogInv, CheckpointInv, replayShadowPageRecords, Types
  <2>2. Types'
    BY Zenon, <1>1, <1>3, <2>1 DEF Types, replayShadowPageRecords
  <2>3. LogInv' /\ CheckpointInv'
    BY Zenon, <1>1, <1>3 DEF LogInv, CheckpointInv, replayShadowPageRecords
  <2>4. DataInv' /\ CountInv'
    BY Zenon, <1>1, <1>3 DEF DataInv, LogInv, replayShadowPageRecords, CountInv
  <2> QED BY Zenon, <2>2, <2>3, <2>4
<1>4. CASE ShadowPagesReplayed
  <2>1. Types'
    BY Zenon, <1>1, <1>4 DEF Types, ShadowPagesReplayed, PCs, RecoveryPCs
  <2>2. LogInv' /\ CheckpointInv'
    BY Zenon, <1>1, <1>4 DEF LogInv, CheckpointInv, ShadowPagesReplayed, OpenPCs
  <2>3. DataInv' /\ CountInv'
    BY Zenon, <1>1, <1>4 DEF DataInv, LogInv, ShadowPagesReplayed, CountInv
  <2> QED BY Zenon, <2>1, <2>2, <2>3
<1>5. CASE RemoveShadow
  <2>1. Types'
    BY Zenon, <1>1, <1>5 DEF Types, RemoveShadow, PCs, RecoveryPCs
  <2>2. LogInv' /\ CheckpointInv'
    BY Zenon, <1>1, <1>5 DEF LogInv, CheckpointInv, RemoveShadow, OpenPCs
  <2>3. DataInv' /\ CountInv'
    BY Zenon, <1>1, <1>5 DEF DataInv, LogInv, RemoveShadow, CountInv
  <2> QED BY Zenon, <2>1, <2>2, <2>3
<1> QED BY Zenon, <1>2, <1>3, <1>4, <1>5

\* Then the data file is opened.
LEMMA RemoveWALIInv ==
  ASSUME IInv, RemoveWAL
  PROVE  IInv' /\ pc' = "idle" /\ mem' = durable /\ durable' = mem' /\ committing' = None
<1> USE DEF IInv, dataFile
<1>1. /\ \A p \in Pages : data[p] = mem
      /\ mem \in Seq(Effects) /\ mem # Corrupt /\ durable = mem
      /\ replayedUnsynced \/ dataDisk = data
  BY Zenon, DurabilityAssumption DEF Types, CheckpointInv, RemoveWAL
<1>2. pc' = "idle" /\ mem' = mem /\ durable' = mem /\ committing' = None
  <2>1. readCheckpoint(data) = mem
    BY Zenon, <1>1, ReadWhole
  <2> QED BY Zenon, <1>1, <2>1 DEF RemoveWAL, OpenWith
<1>3. LogRecords' = <<>> /\ walSynced' = 0 /\ Synced'
  BY Zenon DEF RemoveWAL, LogRecords, Synced
<1>4. Types'
  BY <1>2, <1>3 DEF Types, RemoveWAL, PCs, OpenPCs
<1>5. LogInv' /\ CheckpointInv'
  BY Zenon, <1>2, <1>3, EmptyLog DEF LogInv, CheckpointInv
<1>6. DataInv'
  BY Zenon, <1>1, <1>2, <1>3, EmptyLog DEF DataInv, Outcomes, RemoveWAL
<1>7. CountInv'
  BY <1>2 DEF CountInv, RemoveWAL, Types, Counts, None
<1> QED BY Zenon, <1>1, <1>2, <1>4, <1>5, <1>6, <1>7

\* Replaying the log restores what was committed, with or without the commit
\* that was under way, and cuts the log off behind it.
LEMMA ReplayRecordsIInv ==
  ASSUME IInv, ReplayRecords
  PROVE  IInv' /\ pc' = "idle" /\ mem' \in Outcomes /\ durable' = mem' /\ committing' = None
<1> USE DEF IInv, dataFile
<1> DEFINE n == Complete(wal)
<1>1. /\ LogRecords = wal /\ wal \in Seq(Records) /\ WellFormed(wal) /\ Synced
      /\ ~EndsIn(LogRecords, "CHECKPOINT") /\ n = Complete(wal) /\ n \in 0..Len(wal)
      /\ n \in 0..Complete(wal)
  BY DEF Types, LogInv, ReplayRecords, LogRecords, Complete
<1>2. dryReplay(wal).offset = n
  BY Zenon, <1>1, DryReplayOfWellFormed
<1>3. wal' = SubSeq(wal, 1, n) /\ walSynced' = n
  BY Zenon, <1>2 DEF ReplayRecords
<1> HIDE DEF n
<1>4. /\ wal' \in Seq(Records) /\ Len(wal') = n /\ WellFormed(wal') /\ Complete(wal') = n
      /\ Txns(wal', n) = Txns(wal, n)
      /\ \A i \in 1..n : wal[i].type = "COMMIT"
  <2>1. ASSUME NEW v, v = SubSeq(wal, 1, n)
        PROVE  /\ v \in Seq(Records) /\ Len(v) = n /\ WellFormed(v) /\ Complete(v) = n
               /\ Txns(v, n) = Txns(wal, n)
               /\ \A i \in 1..n : wal[i].type = "COMMIT"
    BY Zenon, <1>1, <2>1, LogPrefix
  <2> QED  BY Zenon, <1>3, <2>1
<1>5. LogRecords' = wal' /\ Synced' /\ ~EndsIn(LogRecords', "CHECKPOINT")
  <2>1. wal' # Absent
    BY Zenon, <1>4, DurabilityAssumption
  <2>2. LogRecords' = wal' /\ Synced'
    BY Zenon, <1>3, <1>4, <2>1 DEF LogRecords, Synced
  <2> QED  BY Zenon, <1>4, <2>2, CommitsOnly
<1>6. PICK p0 \in Pages : TRUE
  BY Zenon, DurabilityAssumption
<1>7. /\ \A p \in Pages : data[p] = data[p0]
      /\ data[p0] \in Seq(Effects)
      /\ data[p0] \o Txns(wal, n) \in Outcomes
      /\ replayedUnsynced \/ dataDisk = data
  BY Zenon, <1>1 DEF DataInv, Types, n
<1>8. data[p0] \o Txns(wal, n) \in Seq(Effects)
  BY Zenon, <1>1, <1>4, <1>7, TxnsType, ConcatProperties
<1>9. pc' = "idle" /\ mem' = data[p0] \o Txns(wal, n) /\ durable' = mem' /\ committing' = None
  <2>1. readCheckpoint(data) = data[p0]
    BY Zenon, <1>7, ReadWhole
  <2>2. Replayed(data, wal, n) = data[p0] \o Txns(wal, n)
    BY Zenon, <1>7, <2>1, DurabilityAssumption DEF Replayed, Txns
  <2> QED BY Zenon, <1>2, <1>8, <2>2, DurabilityAssumption DEF ReplayRecords, OpenWith
<1>10. Types'
  BY <1>3, <1>4, <1>5, <1>8, <1>9 DEF Types, ReplayRecords, PCs, OpenPCs, Synced
<1>11. LogInv' /\ CheckpointInv'
  BY Zenon, <1>4, <1>5, <1>9 DEF LogInv, CheckpointInv
<1>12. DataInv'
  BY Zenon, <1>4, <1>5, <1>7, <1>9 DEF DataInv, Outcomes, ReplayRecords
<1>13. CountInv'
  <2>1. 0 <= count.transactions /\ count' = count
    BY DEF Types, Counts, ReplayRecords
  <2> QED  BY Zenon, <1>7, <1>9, <2>1, OutcomesAreCounted DEF CountInv, None
<1> QED BY Zenon, <1>7, <1>9, <1>10, <1>11, <1>12, <1>13

\* The database is closed, or its process dies.
LEMMA StopIInv ==
  ASSUME IInv, FaultsAreTolerated, Close \/ Crash PROVE IInv'
<1> USE DEF IInv, database, dataFile
<1>1. /\ pc' = "down" /\ pc # "removeWAL"
      /\ UNCHANGED <<mem, durable, committing, wal, walSynced, buffer, shadow, data, dataDisk,
                     replayedUnsynced>>
      /\ count' = count \/ count' = [count EXCEPT !.crashes = @ + 1]
  BY Zenon DEF Close, Crash, MayStop, FaultsAreTolerated, Types
<1>2. LogRecords' = LogRecords /\ (Synced' <=> Synced)
  BY Zenon, <1>1 DEF LogRecords, Synced
<1>3. Types'
  BY Zenon, <1>1, <1>2, OtherCounts DEF Types, PCs
<1>4. LogInv' /\ CheckpointInv'
  BY Zenon, <1>1, <1>2 DEF LogInv, CheckpointInv, OpenPCs
<1>5. DataInv'
  BY Zenon, <1>1, <1>2 DEF DataInv, Outcomes, OpenPCs
<1>6. CountInv'
  BY Zenon, <1>1, OtherCounts DEF CountInv, Types
<1> QED BY Zenon, <1>3, <1>4, <1>5, <1>6

\* What a power failure leaves of a well-formed log.
LEMMA RemainsOfWellFormed ==
  ASSUME NEW w \in Seq(Records), WellFormed(w), NEW synced \in 0..Len(w),
         synced \in {Len(w), Len(w) - 1}, NEW v \in Remains(w, synced)
  PROVE  /\ v \in Seq(Records) /\ WellFormed(v)
         /\ \/ v = w
            \/ /\ synced = Len(w) - 1 /\ Complete(v) = synced
               /\ ~EndsIn(v, "CHECKPOINT")
               /\ Txns(v, synced) = Txns(w, synced)
<1> DEFINE u == SubSeq(w, 1, synced)
<1>1. SubSeq(w, 1, Len(w)) = w
  BY Zenon, SubSeqFull
<1>2. CASE v = w
  BY Zenon, <1>2
<1>3. CASE v # w
  <2>1. synced = Len(w) - 1 /\ synced \in 0..Complete(w) /\ (v = u \/ v = Append(u, Torn))
    <3>1. Len(w) \in Nat /\ synced \in Nat /\ (synced = Len(w) \/ synced = Len(w) - 1)
      OBVIOUS
    <3>2. \/ \E n \in synced..Len(w) : v = SubSeq(w, 1, n)
          \/ \E n \in synced..(Len(w) - 1) : v = Append(SubSeq(w, 1, n), Torn)
      BY Zenon DEF Remains
    <3>3. CASE \E n \in synced..Len(w) : v = SubSeq(w, 1, n)
      <4>1. PICK n \in synced..Len(w) : v = SubSeq(w, 1, n)
        BY Zenon, <3>3
      <4>2. n # Len(w)
        BY Zenon, <1>1, <1>3, <4>1
      <4>3. n = synced /\ synced = Len(w) - 1
        BY <3>1, <4>2
      <4> QED  BY <3>1, <4>1, <4>3 DEF Complete
    <3>4. CASE \E n \in synced..(Len(w) - 1) : v = Append(SubSeq(w, 1, n), Torn)
      <4>1. PICK n \in synced..(Len(w) - 1) : v = Append(SubSeq(w, 1, n), Torn)
        BY Zenon, <3>4
      <4>2. n = synced /\ synced = Len(w) - 1
        BY <3>1
      <4> QED  BY <3>1, <4>1, <4>2 DEF Complete
    <3> QED  BY Zenon, <3>2, <3>3, <3>4
  <2>2. /\ u \in Seq(Records) /\ Len(u) = synced
        /\ \A i \in 1..synced : u[i] = w[i] /\ u[i].type = "COMMIT"
        /\ WellFormed(u) /\ Complete(u) = synced
        /\ Txns(u, synced) = Txns(w, synced)
    BY Zenon, <2>1, LogPrefix
  <2> HIDE DEF u
  <2>3. CASE v = u
    BY <2>1, <2>2, <2>3 DEF EndsIn, Complete
  <2>4. CASE v = Append(u, Torn)
    <3>1. Torn \in Records /\ Torn.type = "TORN"
      BY Zenon DEF Torn, Records
    <3>2. /\ v \in Seq(Records) /\ Len(v) = synced + 1 /\ v[synced + 1] = Torn
          /\ \A i \in 1..synced : v[i] = u[i]
      BY <2>2, <2>4, <3>1
    <3>3. Txns(v, synced) = Txns(u, synced)
      BY <3>2, TxnsPrefix
    <3>4. WellFormed(v)
      BY <2>2, <3>2 DEF WellFormed
    <3>5. Complete(v) = synced /\ ~EndsIn(v, "CHECKPOINT")
      BY <3>1, <3>2 DEF EndsIn, Complete
    <3> QED  BY Zenon, <2>1, <2>2, <3>2, <3>3, <3>4, <3>5
  <2> QED BY Zenon, <2>1, <2>3, <2>4
<1> QED BY Zenon, <1>2, <1>3

\* Power fails: an unsynced last record is there, torn or gone; the pages are
\* as they were unless the checkpoint will be redone.
LEMMA PowerFailsIInv ==
  ASSUME IInv, FaultsAreTolerated, PowerFails PROVE IInv'
<1> USE DEF IInv, database
<1>1. /\ pc' = "down" /\ pc # "removeWAL" /\ ~replayedUnsynced /\ replayedUnsynced' = FALSE
      /\ mem' = mem /\ durable' = durable /\ committing' = committing /\ shadow' = shadow /\ buffer' = <<>>
      /\ data' = dataDisk' /\ count' = [count EXCEPT !.crashes = @ + 1]
  BY Zenon DEF PowerFails, MayStop, FaultsAreTolerated
<1>2. /\ data' \in [Pages -> Seq(Effects)]
      /\ ~Synced \/ ~EndsIn(LogRecords, "CHECKPOINT") => data' = data
  BY Zenon, <1>1 DEF PowerFails, Types, DataInv
<1>3. /\ LogRecords \in Seq(Records) /\ WellFormed(LogRecords)
      /\ walSynced \in 0..Len(LogRecords) /\ walSynced \in {Len(LogRecords), Len(LogRecords) - 1}
  BY DEF Types, LogInv, LogRecords, Synced
<1>4. /\ wal' \in {Absent} \cup Seq(Records) /\ LogRecords' \in Seq(Records)
      /\ walSynced' = Len(LogRecords') /\ Synced' /\ WellFormed(LogRecords')
      /\ \/ LogRecords' = LogRecords
         \/ /\ walSynced = Len(LogRecords) - 1 /\ Complete(LogRecords') = walSynced
            /\ ~EndsIn(LogRecords', "CHECKPOINT")
            /\ Txns(LogRecords', walSynced) = Txns(LogRecords, walSynced)
  <2>1. CASE wal = Absent
    BY Zenon, <1>3, <2>1 DEF PowerFails, LogRecords, Synced
  <2>2. CASE wal # Absent
    <3>1. LogRecords = wal /\ wal' \in Remains(wal, walSynced)
      BY Zenon, <2>2 DEF PowerFails, LogRecords
    <3>2. /\ wal' \in Seq(Records) /\ WellFormed(wal')
          /\ \/ wal' = wal
             \/ /\ walSynced = Len(wal) - 1 /\ Complete(wal') = walSynced
                /\ ~EndsIn(wal', "CHECKPOINT")
                /\ Txns(wal', walSynced) = Txns(wal, walSynced)
      BY <1>3, <3>1, RemainsOfWellFormed
    <3>3. wal' # Absent /\ LogRecords' = wal' /\ walSynced' = Len(wal')
      BY Zenon, <3>2, DurabilityAssumption DEF PowerFails, LogRecords
    <3> QED BY Zenon, <3>1, <3>2, <3>3 DEF Synced
  <2> QED BY Zenon, <2>1, <2>2
<1>5. Types'
  <2>1. walSynced' \in 0..Len(LogRecords')
    BY <1>4
  <2> QED  BY Zenon, <1>1, <1>2, <1>4, <2>1, OtherCounts DEF Types, PCs
<1>6. LogInv' /\ CheckpointInv'
  BY Zenon, <1>1, <1>4 DEF LogInv, CheckpointInv, OpenPCs
<1>7. DataInv'
  <2> SUFFICES ASSUME ~EndsIn(LogRecords', "CHECKPOINT") PROVE DataInv'
    BY Zenon, <1>4 DEF DataInv
  <2>1. \A p \in Pages :
           data[p] \o Txns(LogRecords', Complete(LogRecords')) \in Outcomes'
        /\ data' = data /\ \A q \in Pages : data[p] = data[q]
    <3>1. CASE LogRecords' = LogRecords /\ Synced
      BY Zenon, <1>1, <1>2, <3>1 DEF DataInv, Outcomes, OpenPCs
    <3>2. CASE LogRecords' = LogRecords /\ ~Synced
      <4>1. Outcomes' = IF committing = None THEN {durable}
                        ELSE {durable, Append(durable, Restored(committing))}
        BY Zenon, <1>1 DEF Outcomes, OpenPCs
      <4>2. committing # None /\ \A p \in Pages :
                data[p] \o Txns(LogRecords, Complete(LogRecords))
                    = Append(durable, Restored(committing))
        BY Zenon, <3>2, UnsyncedCommit
      <4> QED  BY Zenon, <1>2, <3>2, <4>1, <4>2 DEF DataInv
    <3>3. CASE LogRecords' # LogRecords
      <4>1. ~Synced /\ Complete(LogRecords') = walSynced
            /\ Txns(LogRecords', walSynced) = Txns(LogRecords, walSynced)
        BY <1>3, <1>4, <3>3 DEF Synced
      <4> QED BY Zenon, <1>1, <1>2, <4>1 DEF DataInv, Outcomes
    <3> QED BY Zenon, <3>1, <3>2, <3>3
  <2> QED BY Zenon, <1>1, <1>4, <2>1 DEF DataInv
<1>8. CountInv'
  BY <1>1 DEF CountInv, Types
<1> QED BY Zenon, <1>5, <1>6, <1>7, <1>8

\* Nothing else happens under the tolerated faults.
LEMMA NextIInv ==
  ASSUME FaultsAreTolerated PROVE IInv /\ [Next]_vars => IInv'
<1> SUFFICES ASSUME IInv, [Next]_vars PROVE IInv'
  BY Zenon
<1>1. CASE Commit
  BY Zenon, <1>1, logCommittedWALIInv, CommitSyncIInv
     DEF Commit, CommitSyncFails, CommitWriteFails, FaultsAreTolerated
<1>2. CASE writeCheckpoint
  BY Zenon, <1>2, logAndFlushCheckpointIInv, CheckpointStatementIInv, ClearLogIInv DEF writeCheckpoint
<1>3. CASE Recover
  BY Zenon, <1>3, ReplayWithoutLogIInv, ReplayIInv, RedoCheckpointIInv, RemoveWALIInv,
     ReplayRecordsIInv DEF Recover
<1>4. CASE CheckpointFails \/ Close \/ Crash \/ PowerFails
  BY Zenon, <1>4, CheckpointFailsIInv, StopIInv, PowerFailsIInv
<1>5. CASE GiveUp \/ CheckpointTimesOut
  BY Zenon, <1>5, CheckpointTimesOutIInv DEF GiveUp, IInv, Types
<1>6. CASE UNCHANGED vars
  BY <1>6 DEF vars, IInv, Types, LogInv, CheckpointInv, DataInv, CountInv, Outcomes, Synced,
     LogRecords
<1> QED BY Zenon, <1>1, <1>2, <1>3, <1>4, <1>5, <1>6 DEF Next

\* IInv holds of every reachable state as long as the faults are tolerated ones.
LEMMA Invariance ==
  ASSUME FaultsAreTolerated PROVE Spec => []IInv
  BY InitIInv, NextIInv, PTL DEF Spec

-----------------------------------------------------------------------------
(* What follows from it.                                                   *)

\* Whatever recovery finds in the log, dryReplay may stop at the first record
\* that is not a commit: nothing follows it.
THEOREM LogIsWellFormed ==
  ASSUME FaultsAreTolerated PROVE Spec => []NothingFollowsTheStop
<1>1. IInv => NothingFollowsTheStop
  BY Zenon DEF IInv, LogInv, WellFormed, NothingFollowsTheStop
<1> QED BY <1>1, Invariance, PTL

\* A database that goes down with a CHECKPOINT record at the end of its log has
\* a complete shadow file: applyShadowPages can be repeated.
THEOREM CheckpointCanBeRedone ==
  ASSUME FaultsAreTolerated PROVE Spec => []CheckpointRecordMeansShadowPages
<1>1. IInv => CheckpointRecordMeansShadowPages
  <2> SUFFICES ASSUME IInv, pc = "down", dryReplay(LogRecords).isLastRecordCheckpoint
               PROVE  shadow \notin {Absent, Corrupt}
    BY Zenon DEF CheckpointRecordMeansShadowPages
  <2>1. LogRecords \in Seq(Records) /\ WellFormed(LogRecords)
    BY DEF IInv, Types, LogInv, LogRecords
  <2>2. EndsIn(LogRecords, "CHECKPOINT")
    BY Zenon, <2>1, DryReplayOfWellFormed
  <2>3. shadow = mem /\ mem \in Seq(Effects)
    BY Zenon, <2>2 DEF IInv, CheckpointInv, Types
  <2> QED BY Zenon, <2>3, DurabilityAssumption
<1> QED BY <1>1, Invariance, PTL

\* Without such a record the pages of the data file belong together, so that
\* readCheckpoint finds a database.
THEOREM DataFileCanBeRead ==
  ASSUME FaultsAreTolerated PROVE Spec => []DataFileIsWhole
<1>1. IInv => DataFileIsWhole
  <2> SUFFICES ASSUME IInv, pc = "down", ~dryReplay(LogRecords).isLastRecordCheckpoint
               PROVE  readCheckpoint(data) # Corrupt
    BY Zenon DEF DataFileIsWhole
  <2>1. LogRecords \in Seq(Records) /\ WellFormed(LogRecords)
    BY DEF IInv, Types, LogInv, LogRecords
  <2>2. ~EndsIn(LogRecords, "CHECKPOINT")
    BY Zenon, <2>1, DryReplayOfWellFormed
  <2>3. PICK p0 \in Pages : TRUE
    BY Zenon, DurabilityAssumption
  <2>4. (\A p \in Pages : data[p] = data[p0]) /\ data[p0] \in Seq(Effects)
    BY Zenon, <2>2, <2>3 DEF IInv, DataInv, Types
  <2> QED BY Zenon, <2>4, ReadWhole, DurabilityAssumption
<1> QED BY <1>1, Invariance, PTL

\* What the open database contains changes only when a commit is done or recovery
\* has settled the one that was under way, and what survives of it also when a
\* checkpoint saves it.
LEMMA StepRefines ==
  ASSUME FaultsAreTolerated PROVE IInv /\ [Next]_vars => [Store!Next]_(Store!vars)
<1> SUFFICES ASSUME IInv, [Next]_vars PROVE [Store!Next]_(Store!vars)
  BY Zenon
<1> USE DEF Store!vars, Store!Next
<1>1. CASE logCommittedWAL
  <2>1. committing = None /\ committing' \in Transactions /\ committing' = count.transactions + 1
    BY <1>1, DurabilityAssumption
       DEF logCommittedWAL, IInv, LogInv, OpenPCs, Types, Counts, Transactions
  <2>2. committing' \notin Store!Range(mem)
    <3>1. mem \in Seq(Effects) /\ count.transactions \in Nat
      BY DEF IInv, Types, Counts
    <3>2. \A i \in 1..Len(mem) : mem[i] \in Nat /\ mem[i] <= count.transactions
      BY Zenon, <3>1, Numbers DEF IInv, CountInv
    <3> QED  BY <2>1, <3>1, <3>2 DEF Store!Range
  <2> QED BY <1>1, <2>1, <2>2 DEF Store!BeginCommit, logCommittedWAL, OpenPCs
<1>2. CASE CommitSync
  <2>1. committing # None /\ pc \in OpenPCs /\ pc' \in OpenPCs
    BY Zenon, <1>2 DEF CommitSync, Committed, IInv, LogInv, OpenPCs
  <2>2. /\ mem' = Append(mem, committing) /\ committing' = None
        /\ durable' = Append(durable, IF committing \in BulkLoads THEN None ELSE committing)
    BY Zenon, <1>2 DEF CommitSync, Committed, Restored
  <2> QED  BY Zenon, <2>1, <2>2 DEF Store!EndCommit, Store!WithCommit
<1>3. CASE CommitSyncFails \/ CommitWriteFails
  BY Zenon, <1>3 DEF CommitSyncFails, CommitWriteFails, FaultsAreTolerated
<1>4. CASE writeCheckpoint \/ CheckpointFails \/ CheckpointTimesOut
  BY <1>4 DEF writeCheckpoint, CheckpointFails, CheckpointTimesOut, BuildShadowPages, flushAll,
     FlushSync, logAndFlushCheckpoint, LogSync, applyShadowPages, PagesApplied, DataSync,
     ClearWAL, ClearShadow, ResetWAL, ResetShadow, database, OpenPCs, Store!Save
<1>5. CASE Open \/ Replay \/ replayShadowPageRecords \/ ShadowPagesReplayed \/ RemoveShadow
           \/ GiveUp
  BY <1>5 DEF Open, Replay, replayShadowPageRecords, ShadowPagesReplayed, RemoveShadow,
     GiveUp, database, OpenPCs, Store!Save
<1>6. CASE ReplayWithoutLog \/ ReplayRecords \/ RemoveWAL
  <2>1. pc' = "idle" /\ mem' \in Outcomes /\ durable' = mem' /\ committing' = None
    BY Zenon, <1>6, ReplayWithoutLogIInv, ReplayRecordsIInv, RemoveWALIInv DEF Outcomes
  <2>2. pc \notin OpenPCs
    BY Zenon, <1>6 DEF ReplayWithoutLog, ReplayRecords, RemoveWAL, OpenPCs
  <2> QED BY Zenon, <2>1, <2>2 DEF Store!Open, Store!WithCommit, Outcomes, Restored, OpenPCs
<1>7. CASE Close \/ Crash \/ PowerFails
  BY <1>7 DEF Store!Stop, Close, Crash, PowerFails, database, OpenPCs
<1>8. CASE UNCHANGED vars
  BY Zenon, <1>8 DEF vars
<1> QED BY Zenon, <1>1, <1>2, <1>3, <1>4, <1>5, <1>6, <1>7, <1>8 DEF Next, Commit, Recover

\* Commit, checkpoint, crash, power failure and recovery implement a durable
\* store: every commit survives in its place, and only the commit that was under
\* way may be there or not; of the bulk loads, whose rows are not in the log,
\* those survive that a checkpoint has saved since.
THEOREM Refinement ==
  ASSUME FaultsAreTolerated PROVE Spec => ImplementsDurableStore
<1>1. Init => Store!Init
  BY DEF Init, Store!Init, OpenPCs
<1> QED BY <1>1, StepRefines, Invariance, PTL DEF Spec, ImplementsDurableStore, Store!Spec

-----------------------------------------------------------------------------
(* Under all faults.                                                       *)

\* From the sync of the shadow pages on, each statement of a checkpoint finds
\* what the ones before it have done, whatever state the checkpoint began in.
HealInv ==
    /\ pc \in {"log", "logSync", "apply", "dataSync"} => shadow = mem
    /\ pc \in {"dataSync", "clearWAL", "clearShadow", "resetWAL", "resetShadow"} =>
          \A p \in Pages : data[p] = mem
    /\ pc \in {"clearWAL", "clearShadow", "resetWAL", "resetShadow"} =>
          dataDisk = data /\ ~replayedUnsynced
    /\ pc \in {"clearShadow", "resetWAL", "resetShadow"} => buffer = <<>>
    /\ pc = "resetShadow" => wal = Absent
    /\ pc \in {"apply", "dataSync", "clearWAL", "clearShadow", "resetWAL", "resetShadow"} =>
          durable = mem

\* No step, and no fault, breaks what a checkpoint has done so far.
LEMMA NextHealInv == HealInv /\ [Next]_vars => HealInv'
<1> SUFFICES ASSUME HealInv, [Next]_vars PROVE HealInv'
  BY Zenon
<1> USE DEF HealInv, database, log, dataFile
<1>1. CASE Commit
  BY Zenon, <1>1 DEF Commit, logCommittedWAL, CommitSync, Committed, CommitSyncFails,
     CommitWriteFails
<1>2. CASE writeCheckpoint
  BY <1>2 DEF writeCheckpoint, BuildShadowPages, flushAll, FlushSync, logAndFlushCheckpoint,
     LogSync, applyShadowPages, PagesApplied, DataSync, ClearWAL, ClearShadow, ResetWAL,
     ResetShadow
<1>3. CASE CheckpointFails \/ CheckpointTimesOut \/ GiveUp \/ Close \/ Crash \/ PowerFails
  BY Zenon, <1>3 DEF CheckpointFails, CheckpointTimesOut, GiveUp, Close, Crash, PowerFails
<1>4. CASE Recover
  BY Zenon, <1>4 DEF Recover, Open, ReplayWithoutLog, Replay, replayShadowPageRecords,
     ShadowPagesReplayed, RemoveShadow, RemoveWAL, ReplayRecords, OpenWith
<1>5. CASE UNCHANGED vars
  BY Zenon, <1>5 DEF vars
<1> QED BY Zenon, <1>1, <1>2, <1>3, <1>4, <1>5 DEF Next

\* A checkpoint that reaches its end has written exactly the open database to
\* the data file, synced it and emptied the log, whichever faults came before.
THEOREM CheckpointsHeal == Spec => []CompletedCheckpointHeals
<1>1. Init => HealInv
  BY Zenon DEF Init, HealInv
<1>2. HealInv => CompletedCheckpointHeals
  BY Zenon DEF HealInv, CompletedCheckpointHeals
<1> QED BY <1>1, <1>2, NextHealInv, PTL DEF Spec
=============================================================================
