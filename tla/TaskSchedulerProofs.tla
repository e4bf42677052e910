------------------------ MODULE TaskSchedulerProofs ------------------------
(***************************************************************************)
(* Proofs about TaskScheduler for any number of workers and any finite set *)
(* of tasks with any dependencies, nested tasks and thread limits.         *)
(***************************************************************************)
EXTENDS TaskScheduler, FiniteSetTheorems, TLAPS

-----------------------------------------------------------------------------
(* The inductive invariant.                                                *)

Registered(t) == {th \in Threads : ttask[th] = t}

beforePush == {"none", "deps", "launch"}
waiting == {"notify", "check", "asleep", "join"}

\* A thread is registered while it works; a launched thread only with the
\* task it was launched for; an exception is caught when run() is over.
ThreadInv ==
    /\ \A th \in Threads : ttask[th] # None <=> tpc[th] \in WorkingPCs
    /\ \A t \in Tasks : ttask[t] \in {t, None}
    /\ \A th \in Threads : texc[th] => tpc[th] = "finish"

\* The counters of a task count its threads.
CountInv == \A t \in Tasks : reg[t] = fin[t] + Cardinality(Registered(t))

\* Nothing has happened to a task that was not pushed yet.
FreshInv ==
    \A t \in Tasks : call[t] \in beforePush =>
        /\ reg[t] = 0 /\ fin[t] = 0 /\ ~exc[t]
        /\ tpc[t] = "none"

\* The tasks of the queue are waited for or completed.
QueueInv ==
    \A s \in taskQueue : \/ call[s.task] \in waiting
                         \/ call[s.task] = "returned" /\ isCompletedSuccessfully(s.task)

\* What a call knows when it stops waiting, and when it is over.
CallInv ==
    \A t \in Tasks :
        /\ call[t] = "join" => isCompletedNoLock(t)
        /\ call[t] = "threw" => isCompletedNoLock(t) \/ reg[t] = 0
        /\ call[t] = "returned" =>
              \/ isCompletedSuccessfully(t)
              \/ reg[t] = 0 /\ \E i \in DOMAIN Children[t] : Children[t][i] \in MayTerminate

\* finalize() belongs to the completion of the task, and an exception is
\* with the task or with a thread that has yet to deregister.
OutcomeInv ==
    \A t \in Tasks :
        /\ finalized[t] > 0 => finalized[t] = 1 /\ isCompletedNoLock(t)
        /\ isCompletedSuccessfully(t) => finalized[t] = 1
        /\ failed[t] => exc[t] \/ \E th \in Threads : ttask[th] = t /\ texc[th]

\* The dependencies that a call has passed returned.
DepInv ==
    \A t \in Tasks :
        /\ dep[t] <= Len(Children[t])
        /\ \A i \in 1..dep[t] : call[Children[t][i]] = "returned"
        /\ call[t] \in {"launch", "push"} \cup waiting \/ reg[t] > 0 => dep[t] = Len(Children[t])

IInv == TypeOK /\ ThreadInv /\ CountInv /\ FreshInv /\ QueueInv /\ CallInv /\ OutcomeInv /\ DepInv

-----------------------------------------------------------------------------
(* Counting threads.                                                       *)

\* There are finitely many threads, so those of a task can be counted.
LEMMA RegisteredFinite ==
    ASSUME NEW t
    PROVE  IsFiniteSet(Registered(t)) /\ Cardinality(Registered(t)) \in Nat
<1>1. IsFiniteSet(Threads)
    BY Zenon, FS_Union, ConstantsAssumption DEF Threads, ConstantsAssumption
<1>2. Registered(t) \in SUBSET Threads
    BY Zenon DEF Registered
<1>3. IsFiniteSet(Registered(t))
    BY Zenon, <1>1, <1>2, FS_Subset
<1> QED
    BY Zenon, <1>3, FS_CardinalityType

\* A task has a registered thread exactly while fewer threads have finished
\* than have registered.
LEMMA ThreadsLeft ==
    ASSUME TypeOK, CountInv, NEW t \in Tasks
    PROVE  /\ fin[t] <= reg[t]
           /\ \A th \in Threads : ttask[th] = t => fin[t] < reg[t]
           /\ fin[t] < reg[t] => \E th \in Threads : ttask[th] = t
<1> DEFINE R == Registered(t)
<1>1. IsFiniteSet(R) /\ Cardinality(R) \in Nat
    BY Zenon, RegisteredFinite
<1>2. Cardinality(R) = 0 <=> R = {}
    BY Zenon, <1>1, FS_EmptySet
<1>3. R = {} <=> \A th \in Threads : ttask[th] # t
    BY Zenon DEF Registered
<1>4. reg[t] = fin[t] + Cardinality(R) /\ reg[t] \in Nat /\ fin[t] \in Nat
    BY Zenon DEF CountInv, TypeOK
<1> HIDE DEF R
<1> QED
    BY <1>1, <1>2, <1>3, <1>4

\* A thread that registers adds one to the threads of its task and to no
\* other's.
LEMMA ThreadAdded ==
    ASSUME TypeOK, NEW th \in Threads, NEW t \in Tasks, ttask[th] = None,
           ttask' = [ttask EXCEPT ![th] = t], NEW u \in Tasks
    PROVE  Cardinality(Registered(u)') =
               IF u = t THEN Cardinality(Registered(u)) + 1 ELSE Cardinality(Registered(u))
<1>1. None \notin Tasks
    BY Zenon, ConstantsAssumption DEF ConstantsAssumption
<1>2. th \notin Registered(t)
    BY Zenon, <1>1 DEF Registered
<1>3. CASE u = t
    <2>1. Registered(u)' = Registered(u) \cup {th}
        BY Zenon, <1>3 DEF Registered, TypeOK
    <2> QED
        BY Zenon, <2>1, <1>2, <1>3, RegisteredFinite, FS_AddElement
<1>4. CASE u # t
    <2>1. Registered(u)' = Registered(u)
        BY Zenon, <1>1, <1>4 DEF Registered, TypeOK
    <2> QED
        BY Zenon, <2>1, <1>4
<1> QED
    BY Zenon, <1>3, <1>4

\* A thread that deregisters is taken from the threads of its task and from
\* no other's.
LEMMA ThreadRemoved ==
    ASSUME TypeOK, NEW th \in Threads, NEW t \in Tasks, ttask[th] = t,
           ttask' = [ttask EXCEPT ![th] = None], NEW u \in Tasks
    PROVE  Cardinality(Registered(u)') =
               IF u = t THEN Cardinality(Registered(u)) - 1 ELSE Cardinality(Registered(u))
<1>1. None \notin Tasks
    BY Zenon, ConstantsAssumption DEF ConstantsAssumption
<1>2. th \in Registered(t)
    BY Zenon DEF Registered
<1>3. CASE u = t
    <2>1. Registered(u)' = Registered(u) \ {th}
        BY Zenon, <1>1, <1>3 DEF Registered, TypeOK
    <2> QED
        BY <2>1, <1>2, <1>3, RegisteredFinite, FS_RemoveElement
<1>4. CASE u # t
    <2>1. Registered(u)' = Registered(u)
        BY Zenon, <1>1, <1>4 DEF Registered, TypeOK
    <2> QED
        BY Zenon, <2>1, <1>4
<1> QED
    BY Zenon, <1>3, <1>4

\* What Init and Next need of the constants.
LEMMA Constants ==
    /\ None \notin Tasks
    /\ None \notin Threads
    /\ Workers \cap Tasks = {}
    /\ Tasks \subseteq Threads
    /\ Workers \subseteq Threads
    /\ \A t \in Tasks : Children[t] \in Seq(Tasks)
    /\ \A t \in Tasks : MaxThreads[t] \in Nat \ {0}
    /\ \A t \in Tasks : Nested[t] \in Tasks \cup {None}
BY Zenon, ConstantsAssumption DEF ConstantsAssumption, Threads

-----------------------------------------------------------------------------
(* One lemma per action.                                                   *)

\* The invariant holds before anything is scheduled.
LEMMA InitIInv == Init => IInv
<1> SUFFICES ASSUME Init PROVE IInv
    BY Zenon
<1>1. TypeOK
    BY Zenon, Constants DEF Init, TypeOK, Threads, EndedCalls
<1>2. ThreadInv
    BY Zenon, Constants DEF Init, ThreadInv, Threads, WorkingPCs
<1>3. CountInv
    <2> SUFFICES ASSUME NEW t \in Tasks PROVE reg[t] = fin[t] + Cardinality(Registered(t))
        BY Zenon DEF CountInv
    <2>1. Registered(t) = {}
        BY Zenon, Constants DEF Init, Registered
    <2> QED
        BY <2>1, FS_EmptySet DEF Init
<1>4. FreshInv /\ QueueInv
    BY Zenon, Constants DEF Init, FreshInv, QueueInv, beforePush
<1>5. CallInv /\ OutcomeInv
    BY DEF Init, CallInv, OutcomeInv, isCompletedNoLock, isCompletedSuccessfully
<1>6. DepInv
    BY Constants DEF Init, DepInv, waiting
<1> QED
    BY Zenon, <1>1, <1>2, <1>3, <1>4, <1>5, <1>6 DEF IInv

\* The dependencies that a call has passed, and the next one, are tasks.
LEMMA DependencyIsTask ==
    ASSUME TypeOK, DepInv, NEW t \in Tasks
    PROVE  /\ Len(Children[t]) \in Nat /\ DOMAIN Children[t] = 1..Len(Children[t])
           /\ \A i \in 1..Len(Children[t]) : Children[t][i] \in Tasks
           /\ \A i \in 1..dep[t] : Children[t][i] \in Tasks
<1>1. Children[t] \in Seq(Tasks)
    BY Zenon, Constants
<1>2. dep[t] \in Nat /\ dep[t] <= Len(Children[t])
    BY Zenon DEF TypeOK, DepInv
<1> QED
    BY <1>1, <1>2

\* Steps that move the call of t on, may put t into the queue or take it out,
\* and may wake threads: what has to hold of t in its new place for the
\* invariant to hold.
LEMMA CallMoves ==
    ASSUME IInv, NEW t \in Tasks, NEW s, call' = [call EXCEPT ![t] = s],
           UNCHANGED <<reg, fin, exc, finalized, failed, dep, ttask, texc, schedLock>>,
           taskQueue' \subseteq [task : Tasks, ID : Nat], nextScheduledTaskID' \in Nat,
           \A q \in taskQueue' : q \in taskQueue \/ q.task = t,
           tpc' = tpc \/ tpc' = [th \in Threads |-> IF tpc[th] = "asleep" THEN "ready" ELSE tpc[th]],
           call[t] # "returned",
           s \in {"deps", "launch", "push"} \cup waiting \cup EndedCalls,
           s \in beforePush => call[t] \in beforePush,
           \A q \in taskQueue' : q.task = t =>
               s \in waiting \/ (s = "returned" /\ isCompletedSuccessfully(t)),
           s = "join" => isCompletedNoLock(t),
           s = "threw" => isCompletedNoLock(t) \/ reg[t] = 0,
           s = "returned" => \/ isCompletedSuccessfully(t)
                             \/ reg[t] = 0 /\ \E i \in DOMAIN Children[t] : Children[t][i] \in MayTerminate,
           s \in {"launch", "push"} \cup waiting => dep[t] = Len(Children[t])
    PROVE  IInv'
<1> USE DEF IInv
<1>1. TypeOK'
    BY Zenon DEF TypeOK, waiting, EndedCalls
<1>2. ThreadInv'
    BY DEF TypeOK, ThreadInv, WorkingPCs
<1>3. CountInv' /\ OutcomeInv'
    BY DEF CountInv, Registered, OutcomeInv, isCompletedNoLock, isCompletedSuccessfully
<1>4. FreshInv'
    BY Zenon, Constants DEF TypeOK, FreshInv
<1>5. QueueInv'
    BY Zenon DEF TypeOK, QueueInv, isCompletedNoLock, isCompletedSuccessfully
<1>6. CallInv'
    <2>1. \A u \in Tasks : /\ isCompletedNoLock(u)' <=> isCompletedNoLock(u)
                           /\ isCompletedSuccessfully(u)' <=> isCompletedSuccessfully(u)
        BY Zenon DEF isCompletedNoLock, isCompletedSuccessfully
    <2>2. \A u \in Tasks : call'[u] = IF u = t THEN s ELSE call[u]
        BY Zenon DEF TypeOK
    <2> QED
        BY <2>1, <2>2 DEF CallInv
<1>7. DepInv'
    <2>1. \A u \in Tasks : call'[u] = IF u = t THEN s ELSE call[u]
        BY Zenon DEF TypeOK
    <2>2. \A u \in Tasks : \A i \in 1..dep[u] : call'[Children[u][i]] = "returned"
        BY <2>1, DependencyIsTask DEF DepInv
    <2> QED
        BY Zenon, <2>1, <2>2 DEF DepInv
<1> QED
    BY Zenon, <1>1, <1>2, <1>3, <1>4, <1>5, <1>6, <1>7

\* The loop over the dependencies passes one that returned, and returns early
\* after one that terminates.
LEMMA CallDependenciesStep ==
    ASSUME IInv, NEW t \in Tasks, CallDependencies(t)
    PROVE  IInv'
<1> USE DEF IInv
<1>1. call[t] = "deps" /\ t \in {q.task : q \in taskQueue} => FALSE
    BY Zenon DEF QueueInv, waiting
<1>2. call[t] = "deps" /\ UNCHANGED <<schedLock, taskQueue, nextScheduledTaskID>>
                       /\ UNCHANGED <<reg, fin, exc, finalized, failed, tpc, ttask, texc>>
    BY Zenon DEF CallDependencies, queue, task, threads
<1>3. taskQueue \subseteq [task : Tasks, ID : Nat] /\ nextScheduledTaskID \in Nat
    BY Zenon DEF TypeOK
<1>4. reg[t] = 0
    BY Zenon, <1>2 DEF FreshInv, beforePush
<1>5. CASE dep[t] = Len(Children[t])
    <2>1. PICK s \in {"launch", "push"} : call' = [call EXCEPT ![t] = s] /\ dep' = dep
        BY Zenon, <1>5 DEF CallDependencies, setCall
    <2> QED
        BY Zenon, <1>1, <1>2, <1>3, <1>5, <2>1, CallMoves DEF beforePush, waiting, EndedCalls
<1>6. CASE dep[t] # Len(Children[t])
    <2> DEFINE d == Children[t][dep[t] + 1]
    <2>1. dep[t] + 1 \in 1..Len(Children[t]) /\ d \in Tasks
        <3>1. dep[t] \in Nat /\ dep[t] <= Len(Children[t]) /\ Len(Children[t]) \in Nat
            BY Zenon, DependencyIsTask DEF TypeOK, DepInv
        <3>2. dep[t] + 1 \in 1..Len(Children[t])
            BY <1>6, <3>1
        <3> QED
            BY Zenon, <3>2, DependencyIsTask
    <2>2. \/ call[d] = "none" /\ call' = [call EXCEPT ![d] = "deps"] /\ dep' = dep
          \/ call[d] = "threw" /\ call' = [call EXCEPT ![t] = "threw"] /\ dep' = dep
          \/ call[d] = "returned" /\ call' = call /\ dep' = [dep EXCEPT ![t] = @ + 1]
          \/ call[d] = "returned" /\ d \in MayTerminate
             /\ call' = [call EXCEPT ![t] = "returned"] /\ dep' = dep
        BY Zenon, <1>6 DEF CallDependencies, setCall
    <2>3. CASE call[d] = "none" /\ call' = [call EXCEPT ![d] = "deps"] /\ dep' = dep
        <3>1. d \in {q.task : q \in taskQueue} => FALSE
            BY Zenon, <2>3 DEF QueueInv, waiting
        <3> HIDE DEF d
        <3> QED
            BY Zenon, <1>2, <1>3, <2>1, <2>3, <3>1, CallMoves DEF beforePush, waiting, EndedCalls
    <2>4. CASE call[d] = "threw" /\ call' = [call EXCEPT ![t] = "threw"] /\ dep' = dep
        BY <1>1, <1>2, <1>3, <1>4, <2>4, CallMoves DEF beforePush, waiting, EndedCalls
    <2>5. CASE call[d] = "returned" /\ call' = call /\ dep' = [dep EXCEPT ![t] = @ + 1]
        <3>1. TypeOK'
            BY <1>2, <2>5 DEF TypeOK
        <3>2. DepInv'
            <4>1. \A u \in Tasks : dep'[u] = IF u = t THEN dep[t] + 1 ELSE dep[u]
                BY Zenon, <2>5 DEF TypeOK
            <4>2. \A i \in 1..(dep[t] + 1) : i = dep[t] + 1 \/ i \in 1..dep[t]
                BY DEF TypeOK
            <4> QED
                BY <1>2, <1>4, <2>1, <2>5, <4>1, <4>2, DependencyIsTask DEF DepInv, waiting
        <3>3. ThreadInv' /\ CountInv' /\ FreshInv'
            BY Zenon, <1>2, <2>5 DEF ThreadInv, CountInv, Registered, FreshInv
        <3>4. QueueInv'
            BY Zenon, <1>2, <2>5 DEF QueueInv, isCompletedNoLock, isCompletedSuccessfully
        <3>5. CallInv'
            BY Zenon, <1>2, <2>5 DEF CallInv, isCompletedNoLock, isCompletedSuccessfully
        <3>6. OutcomeInv'
            BY Zenon, <1>2, <2>5 DEF OutcomeInv, isCompletedNoLock, isCompletedSuccessfully
        <3> QED
            BY Zenon, <3>1, <3>2, <3>3, <3>4, <3>5, <3>6
    <2>6. CASE call[d] = "returned" /\ d \in MayTerminate
               /\ call' = [call EXCEPT ![t] = "returned"] /\ dep' = dep
        <3>1. \E i \in DOMAIN Children[t] : Children[t][i] \in MayTerminate
            BY Zenon, <2>1, <2>6, DependencyIsTask
        <3> QED
            BY Zenon, <1>1, <1>2, <1>3, <1>4, <2>6, <3>1, CallMoves DEF beforePush, waiting, EndedCalls
    <2> QED
        BY Zenon, <2>2, <2>3, <2>4, <2>5, <2>6
<1> QED
    BY Zenon, <1>5, <1>6

\* A task is pushed once it waits for its threads.
LEMMA PushStep ==
    ASSUME IInv, NEW t \in Tasks, pushTaskIntoQueue(t)
    PROVE  IInv'
<1> USE DEF IInv
<1>1. call[t] = "push" /\ call' = [call EXCEPT ![t] = "notify"]
    BY Zenon DEF pushTaskIntoQueue, setCall
<1>2. /\ taskQueue' \subseteq [task : Tasks, ID : Nat] /\ nextScheduledTaskID' \in Nat
      /\ \A q \in taskQueue' : q \in taskQueue \/ q.task = t
    BY DEF pushTaskIntoQueue, TypeOK
<1>3. UNCHANGED <<reg, fin, exc, finalized, failed, dep, ttask, texc, schedLock>> /\ tpc' = tpc
    BY Zenon DEF pushTaskIntoQueue, task, threads
<1>4. dep[t] = Len(Children[t])
    BY Zenon, <1>1 DEF DepInv
<1>5. "notify" \in waiting /\ "notify" \notin beforePush
    BY Zenon DEF waiting, beforePush
<1> HIDE DEF IInv
<1> QED
    BY Zenon, <1>1, <1>2, <1>3, <1>4, <1>5, CallMoves

\* Waking the workers, looking at the task, and waking up.
LEMMA WaitingSteps ==
    ASSUME IInv, NEW t \in Tasks, NotifyWorkers(t) \/ CheckTask(t) \/ WakeUp(t)
    PROVE  IInv'
<1> USE DEF IInv
<1>1. PICK s \in {"check", "join", "asleep"} :
          call' = [call EXCEPT ![t] = s] /\ (s = "join" => isCompletedNoLock(t))
    BY Zenon DEF NotifyWorkers, CheckTask, WakeUp, setCall
<1>2. call[t] \in waiting /\ call[t] # "returned"
    BY Zenon DEF NotifyWorkers, CheckTask, WakeUp, waiting
<1>3. UNCHANGED <<reg, fin, exc, finalized, failed, dep, ttask, texc, schedLock>>
    BY Zenon DEF NotifyWorkers, CheckTask, WakeUp, task, threads
<1>4. /\ taskQueue' = taskQueue /\ taskQueue \subseteq [task : Tasks, ID : Nat]
      /\ nextScheduledTaskID' \in Nat
    BY Zenon DEF NotifyWorkers, CheckTask, WakeUp, queue, TypeOK
<1>5. tpc' = tpc \/ tpc' = [th \in Threads |-> IF tpc[th] = "asleep" THEN "ready" ELSE tpc[th]]
    BY Zenon DEF NotifyWorkers, CheckTask, WakeUp, threads
<1>6. dep[t] = Len(Children[t])
    BY Zenon, <1>2 DEF DepInv
<1>7. s \in waiting /\ s \notin beforePush /\ s # "returned" /\ s # "threw"
    BY Zenon DEF waiting, beforePush
<1> HIDE DEF IInv
<1> QED
    BY Zenon, <1>1, <1>2, <1>3, <1>4, <1>5, <1>6, <1>7, CallMoves

\* A call ends with a completed task; a failed one leaves the queue.
LEMMA JoinAndReturnStep ==
    ASSUME IInv, NEW t \in Tasks, JoinAndReturn(t)
    PROVE  IInv'
<1> USE DEF IInv
<1>1. call[t] = "join" /\ isCompletedNoLock(t)
    BY Zenon DEF JoinAndReturn, CallInv
<1>2. /\ taskQueue \subseteq [task : Tasks, ID : Nat]
      /\ nextScheduledTaskID' = nextScheduledTaskID /\ nextScheduledTaskID \in Nat
    BY Zenon DEF JoinAndReturn, TypeOK
<1>3. UNCHANGED <<reg, fin, exc, finalized, failed, dep, ttask, texc, schedLock, tpc>>
    BY Zenon DEF JoinAndReturn, task, threads
<1>4. CASE ~exc[t] /\ call' = [call EXCEPT ![t] = "returned"] /\ taskQueue' = taskQueue
    BY Zenon, <1>1, <1>2, <1>3, <1>4, CallMoves
    DEF isCompletedSuccessfully, beforePush, waiting, EndedCalls
<1>5. CASE exc[t] /\ call' = [call EXCEPT ![t] = "threw"]
           /\ taskQueue' = {q \in taskQueue : q.task # t}
    BY Zenon, <1>1, <1>2, <1>3, <1>5, CallMoves DEF beforePush, waiting, EndedCalls
<1> QED
    BY Zenon, <1>4, <1>5 DEF JoinAndReturn, setCall

\* A working thread is registered with a task.
LEMMA WorkingThread ==
    ASSUME TypeOK, ThreadInv, NEW th \in Threads, tpc[th] \in WorkingPCs
    PROVE  ttask[th] \in Tasks /\ (th \in Tasks => ttask[th] = th)
BY Zenon, Constants DEF TypeOK, ThreadInv

\* Steps of a registered thread inside run(): it goes on, or it has caught an
\* exception, which its task's history records.
LEMMA RunMoves ==
    ASSUME IInv, NEW th \in Threads, tpc[th] \in WorkingPCs,
           NEW p \in WorkingPCs, NEW e \in BOOLEAN, e => p = "finish",
           tpc' = [tpc EXCEPT ![th] = p],
           texc' = [texc EXCEPT ![th] = e],
           failed' = [failed EXCEPT ![ttask[th]] = @ \/ e],
           texc[th] => e,
           UNCHANGED <<taskQueue, nextScheduledTaskID, schedLock, reg, fin, exc, finalized>>,
           UNCHANGED <<call, dep, ttask>>
    PROVE  IInv'
<1> USE DEF IInv
<1>1. ttask[th] \in Tasks /\ tpc[th] # "none"
    BY Zenon, WorkingThread DEF WorkingPCs
<1>2. TypeOK'
    BY Zenon, <1>1 DEF TypeOK, WorkingPCs
<1>3. ThreadInv'
    BY Zenon DEF TypeOK, ThreadInv
<1>4. CountInv'
    BY Zenon DEF CountInv, Registered
<1>5. QueueInv'
    BY Zenon DEF QueueInv, isCompletedNoLock, isCompletedSuccessfully
<1>6. CallInv'
    BY Zenon DEF CallInv, isCompletedNoLock, isCompletedSuccessfully
<1>7. DepInv'
    BY Zenon DEF DepInv
<1>8. FreshInv'
    BY Zenon, <1>1, Constants DEF TypeOK, FreshInv
<1>9. OutcomeInv'
    <2>1. \A t \in Tasks : failed'[t] => failed[t] \/ (t = ttask[th] /\ e)
        BY Zenon, <1>1 DEF TypeOK
    <2>2. \A u \in Threads : texc[u] => texc'[u]
        BY Zenon DEF TypeOK
    <2>3. e => texc'[th]
        BY Zenon DEF TypeOK
    <2> QED
        BY Zenon, <2>1, <2>2, <2>3 DEF OutcomeInv, isCompletedNoLock, isCompletedSuccessfully
<1> QED
    BY Zenon, <1>2, <1>3, <1>4, <1>5, <1>6, <1>7, <1>8, <1>9

\* run() starts, returns, throws, or gets back what its nested call did.
LEMMA RunSteps ==
    ASSUME IInv, NEW th \in Threads,
           StartRun(th) \/ RunReturns(th) \/ RunThrows(th) \/ NestedReturns(th)
    PROVE  IInv'
<1> USE DEF IInv
<1>1. tpc[th] \in WorkingPCs \ {"finish"} /\ texc[th] = FALSE
    BY Zenon DEF StartRun, RunReturns, RunThrows, NestedReturns, WorkingPCs, ThreadInv, TypeOK
<1>2. UNCHANGED <<taskQueue, nextScheduledTaskID, schedLock, reg, fin, exc, finalized>>
      /\ UNCHANGED <<call, dep, ttask>>
    BY Zenon DEF StartRun, RunReturns, RunThrows, NestedReturns, queue, task, calls
<1>3. ttask[th] \in Tasks
    BY Zenon, <1>1, WorkingThread
<1>4. texc = [texc EXCEPT ![th] = FALSE] /\ failed = [failed EXCEPT ![ttask[th]] = @ \/ FALSE]
    BY Zenon, <1>1, <1>3 DEF TypeOK
<1>5. PICK p \in WorkingPCs, e \in BOOLEAN :
          /\ e => p = "finish"
          /\ tpc' = [tpc EXCEPT ![th] = p]
          /\ texc' = [texc EXCEPT ![th] = e]
          /\ failed' = [failed EXCEPT ![ttask[th]] = @ \/ e]
    <2>1. CASE StartRun(th)
        BY Zenon, <1>4, <2>1 DEF StartRun, task, WorkingPCs
    <2>2. CASE RunReturns(th)
        BY Zenon, <1>4, <2>2 DEF RunReturns, task, WorkingPCs
    <2>3. CASE RunThrows(th)
        BY Zenon, <1>4, <2>3 DEF RunThrows, WorkingPCs
    <2>4. CASE NestedReturns(th)
        BY Zenon, <1>4, <2>4 DEF NestedReturns, WorkingPCs
    <2> QED
        BY Zenon, <2>1, <2>2, <2>3, <2>4
<1> QED
    BY Zenon, <1>1, <1>2, <1>5, RunMoves

\* run() schedules its nested task.
LEMMA ScheduleNestedStep ==
    ASSUME IInv, NEW th \in Threads, ScheduleNested(th)
    PROVE  IInv'
<1> USE DEF IInv
<1> DEFINE n == Nested[ttask[th]]
<1>1. tpc[th] = "run" /\ tpc' = [tpc EXCEPT ![th] = "nested"] /\ call[n] = "none"
      /\ call' = [call EXCEPT ![n] = "deps"]
    BY Zenon DEF ScheduleNested, setCall
<1>2. n \in Tasks
    BY Zenon, <1>1, WorkingThread, Constants DEF ScheduleNested, WorkingPCs
<1>3. UNCHANGED <<taskQueue, nextScheduledTaskID, schedLock, reg, fin, exc, finalized, failed>>
      /\ UNCHANGED <<dep, ttask, texc>>
    BY Zenon DEF ScheduleNested, queue, task
<1> HIDE DEF n
<1>4. \A t \in Tasks : call'[t] = IF t = n THEN "deps" ELSE call[t]
    BY Zenon, <1>1, <1>2 DEF TypeOK
<1>5. TypeOK'
    BY Zenon, <1>1, <1>2, <1>3 DEF TypeOK, WorkingPCs
<1>6. ThreadInv'
    BY Zenon, <1>1, <1>3 DEF TypeOK, ThreadInv, WorkingPCs
<1>7. CountInv'
    BY Zenon, <1>3 DEF CountInv, Registered
<1>8. OutcomeInv'
    BY Zenon, <1>3 DEF OutcomeInv, isCompletedNoLock, isCompletedSuccessfully
<1>9. FreshInv'
    BY Zenon, <1>1, <1>3, <1>4, Constants DEF TypeOK, FreshInv, beforePush
<1>10. QueueInv'
    BY Zenon, <1>1, <1>3, <1>4 DEF TypeOK, QueueInv, waiting, isCompletedNoLock, isCompletedSuccessfully
<1>11. CallInv'
    BY Zenon, <1>3, <1>4 DEF CallInv, isCompletedNoLock, isCompletedSuccessfully
<1>12. DepInv'
    <2>1. \A t \in Tasks : \A i \in 1..dep[t] : call'[Children[t][i]] = "returned"
        BY Zenon, <1>1, <1>4, DependencyIsTask DEF DepInv
    <2> QED
        BY Zenon, <1>3, <1>4, <2>1 DEF DepInv, waiting
<1> QED
    BY Zenon, <1>5, <1>6, <1>7, <1>8, <1>9, <1>10, <1>11, <1>12

\* The workers leave when they have nothing to do.
LEMMA StopStep ==
    ASSUME IInv, StopWorkers
    PROVE  IInv'
<1> USE DEF IInv
<1>1. UNCHANGED <<taskQueue, nextScheduledTaskID, schedLock, reg, fin, exc, finalized, failed>>
      /\ UNCHANGED <<call, dep, ttask, texc>>
    BY Zenon DEF StopWorkers, queue, task, calls
<1>2. tpc' = [th \in Threads |-> IF th \in Workers THEN "exited" ELSE tpc[th]]
      /\ \A w \in Workers : tpc[w] = "asleep"
    BY Zenon DEF StopWorkers
<1>3. TypeOK'
    BY Zenon, <1>1, <1>2 DEF TypeOK
<1>4. ThreadInv'
    BY Zenon, <1>1, <1>2, Constants DEF ThreadInv, TypeOK, WorkingPCs
<1>5. FreshInv'
    BY Zenon, <1>1, <1>2, Constants DEF FreshInv
<1>6. CountInv'
    BY Zenon, <1>1 DEF CountInv, Registered
<1>7. QueueInv'
    BY Zenon, <1>1 DEF QueueInv, isCompletedNoLock, isCompletedSuccessfully
<1>8. CallInv'
    BY Zenon, <1>1 DEF CallInv, isCompletedNoLock, isCompletedSuccessfully
<1>9. OutcomeInv'
    BY Zenon, <1>1 DEF OutcomeInv, isCompletedNoLock, isCompletedSuccessfully
<1>10. DepInv'
    BY Zenon, <1>1 DEF DepInv
<1> QED
    BY Zenon, <1>3, <1>4, <1>5, <1>6, <1>7, <1>8, <1>9, <1>10
\* Thread th registers with task u: u accepts threads, its call is about to
\* push it or waits for it, and other tasks are not concerned.
Registers(th, u, c) ==
    /\ canRegister(u) /\ ttask[th] = None
    /\ th \in Tasks => th = u
    /\ reg' = [reg EXCEPT ![u] = @ + 1]
    /\ tpc' = [tpc EXCEPT ![th] = "init"]
    /\ ttask' = [ttask EXCEPT ![th] = u]
    /\ call' = [call EXCEPT ![u] = c]
    /\ call[u] # "returned" /\ dep[u] = Len(Children[u])
    /\ c = "push" => \A q \in taskQueue : q.task # u
    /\ taskQueue' \subseteq taskQueue
    /\ schedLock' \in Workers \cup {None}
    /\ UNCHANGED <<nextScheduledTaskID, fin, exc, finalized, failed, dep, texc>>

\* A step in which a thread registers preserves the invariant.
LEMMA RegisterMoves ==
    ASSUME IInv, NEW th \in Threads, NEW u \in Tasks,
           NEW c \in {"push", "notify", "check", "asleep"}, Registers(th, u, c)
    PROVE  IInv'
<1>1. \A t \in Tasks : call'[t] = IF t = u THEN c ELSE call[t]
    BY Zenon DEF Registers, IInv, TypeOK
<1>2. \A t \in Tasks : reg'[t] = IF t = u THEN reg[t] + 1 ELSE reg[t]
    BY Zenon DEF Registers, IInv, TypeOK
<1>3. \A x \in Threads : ttask'[x] = IF x = th THEN u ELSE ttask[x]
    BY Zenon DEF Registers, IInv, TypeOK
<1>4. /\ fin[u] = 0 /\ ttask[th] = None /\ call[u] # "returned" /\ dep[u] = Len(Children[u])
      /\ UNCHANGED <<fin, exc, finalized, failed, dep, texc>>
    BY Zenon DEF Registers, canRegister
<1>5. ~isCompletedNoLock(u) /\ ~isCompletedSuccessfully(u)
    BY <1>4 DEF isCompletedNoLock, isCompletedSuccessfully, IInv, TypeOK
<1>6. ~isCompletedNoLock(u)' /\ ~isCompletedSuccessfully(u)'
    BY <1>2, <1>4 DEF isCompletedNoLock, isCompletedSuccessfully, IInv, TypeOK
<1>7. \A t \in Tasks : t # u => /\ isCompletedNoLock(t)' <=> isCompletedNoLock(t)
                                /\ isCompletedSuccessfully(t)' <=> isCompletedSuccessfully(t)
    BY Zenon, <1>2, <1>4 DEF isCompletedNoLock, isCompletedSuccessfully
<1>8. TypeOK'
    BY DEF Registers, IInv, TypeOK, WorkingPCs
<1>9. ThreadInv'
    BY Constants DEF Registers, IInv, TypeOK, ThreadInv, WorkingPCs
<1>10. CountInv'
    <2> SUFFICES ASSUME NEW t \in Tasks
                 PROVE  reg'[t] = fin'[t] + Cardinality(Registered(t)')
        BY Zenon DEF CountInv
    <2> DEFINE n == Cardinality(Registered(t))
               m == Cardinality(Registered(t)')
    <2>1. m = IF t = u THEN n + 1 ELSE n
        BY Zenon, ThreadAdded DEF Registers, IInv
    <2>2. reg[t] = fin[t] + n /\ fin[t] \in Nat /\ n \in Nat
        BY Zenon, RegisteredFinite DEF IInv, CountInv, TypeOK
    <2> HIDE DEF n, m
    <2>3. reg'[t] = fin'[t] + m
        BY <1>2, <1>4, <2>1, <2>2
    <2> QED
        BY Zenon, <2>3 DEF m
<1>11. FreshInv'
    BY <1>1, <1>2, <1>4, Constants DEF Registers, IInv, TypeOK, FreshInv, beforePush
<1>12. QueueInv'
    BY <1>1, <1>5, <1>7 DEF Registers, IInv, TypeOK, QueueInv, waiting
<1>13. CallInv'
    BY Zenon, <1>1, <1>2, <1>7 DEF IInv, CallInv
<1>14. OutcomeInv'
    <2>1. \A t \in Tasks : failed[t] => exc[t] \/ \E x \in Threads : ttask[x] = t /\ texc[x]
        BY Zenon DEF IInv, OutcomeInv
    <2>2. \A t \in Tasks : failed'[t] => exc'[t] \/ \E x \in Threads : ttask'[x] = t /\ texc'[x]
        BY <1>3, <1>4, <2>1, Constants
    <2> QED
        BY Zenon, <1>4, <1>5, <1>6, <1>7, <2>2 DEF IInv, OutcomeInv
<1>15. DepInv'
    <2>1. \A t \in Tasks : \A i \in 1..dep[t] : call'[Children[t][i]] = "returned"
        BY <1>1, <1>4, DependencyIsTask DEF IInv, DepInv
    <2> QED
        BY Zenon, <1>1, <1>2, <1>4, <2>1 DEF IInv, DepInv, waiting
<1> QED
    BY Zenon, <1>8, <1>9, <1>10, <1>11, <1>12, <1>13, <1>14, <1>15 DEF IInv

\* The launched thread always registers: nothing has happened to its task.
LEMMA LaunchThreadStep ==
    ASSUME IInv, NEW t \in Tasks, LaunchThread(t)
    PROVE  IInv'
<1> USE DEF IInv
<1>1. call[t] = "launch" /\ call' = [call EXCEPT ![t] = "push"]
    BY Zenon DEF LaunchThread, setCall
<1>2. reg[t] = 0 /\ fin[t] = 0 /\ ~exc[t] /\ tpc[t] = "none"
    BY Zenon, <1>1 DEF FreshInv, beforePush
<1>3. canRegister(t)
    <2>1. MaxThreads[t] \in Nat \ {0}
        BY Zenon, Constants
    <2> QED
        BY <1>2, <2>1 DEF canRegister
<1>4. t \in Threads /\ ttask[t] = None
    BY Zenon, <1>2, Constants DEF ThreadInv, WorkingPCs
<1>5. \A q \in taskQueue : q.task # t
    BY Zenon, <1>1 DEF QueueInv, waiting
<1>6. dep[t] = Len(Children[t])
    BY Zenon, <1>1 DEF DepInv
<1>7. /\ reg' = [reg EXCEPT ![t] = @ + 1]
      /\ tpc' = [tpc EXCEPT ![t] = "init"] /\ ttask' = [ttask EXCEPT ![t] = t]
      /\ UNCHANGED <<nextScheduledTaskID, fin, exc, finalized, failed, dep, texc>>
      /\ taskQueue' = taskQueue /\ schedLock' \in Workers \cup {None}
    BY Zenon, <1>3 DEF LaunchThread, queue, TypeOK
<1>8. Registers(t, t, "push")
    BY Zenon, <1>1, <1>3, <1>4, <1>5, <1>6, <1>7 DEF Registers
<1> HIDE DEF IInv
<1> QED
    BY Zenon, <1>4, <1>8, RegisterMoves

\* A worker registers with a task of the queue, or goes to sleep.
LEMMA FetchTaskStep ==
    ASSUME IInv, NEW w \in Workers, FetchTask(w)
    PROVE  IInv'
<1> USE DEF IInv
<1>1. w \in Threads /\ w \notin Tasks /\ tpc[w] = "ready" /\ ttask[w] = None
    BY Zenon, Constants DEF FetchTask, ThreadInv, WorkingPCs
<1>2. UNCHANGED <<nextScheduledTaskID, fin, exc, finalized, failed, call, dep, texc>>
      /\ schedLock' \in Workers \cup {None} /\ taskQueue' \subseteq taskQueue
    BY Zenon DEF FetchTask, getTaskAndRegister, calls
<1>3. CASE tpc' = [tpc EXCEPT ![w] = "asleep"] /\ UNCHANGED <<ttask, reg>>
    <2>1. TypeOK'
        BY Zenon, <1>2, <1>3 DEF TypeOK
    <2>2. ThreadInv' /\ FreshInv'
        BY <1>1, <1>2, <1>3 DEF TypeOK, ThreadInv, FreshInv, WorkingPCs
    <2>3. CountInv'
        BY Zenon, <1>2, <1>3 DEF CountInv, Registered
    <2>4. QueueInv'
        BY Zenon, <1>2, <1>3 DEF QueueInv, isCompletedNoLock, isCompletedSuccessfully
    <2>5. CallInv'
        BY Zenon, <1>2, <1>3 DEF CallInv, isCompletedNoLock, isCompletedSuccessfully
    <2>6. OutcomeInv'
        BY Zenon, <1>2, <1>3 DEF OutcomeInv, isCompletedNoLock, isCompletedSuccessfully
    <2>7. DepInv'
        BY Zenon, <1>2, <1>3 DEF DepInv
    <2> QED
        BY Zenon, <2>1, <2>2, <2>3, <2>4, <2>5, <2>6, <2>7
<1>4. CASE \E s \in taskQueue : /\ canRegister(s.task)
                                /\ tpc' = [tpc EXCEPT ![w] = "init"]
                                /\ ttask' = [ttask EXCEPT ![w] = s.task]
                                /\ reg' = [reg EXCEPT ![s.task] = @ + 1]
    <2>1. PICK u \in Tasks : /\ canRegister(u) /\ u \in {s.task : s \in taskQueue}
                             /\ tpc' = [tpc EXCEPT ![w] = "init"]
                             /\ ttask' = [ttask EXCEPT ![w] = u]
                             /\ reg' = [reg EXCEPT ![u] = @ + 1]
        BY Zenon, <1>4 DEF TypeOK
    <2>2. ~isCompletedNoLock(u)
        BY <2>1 DEF canRegister, isCompletedNoLock, TypeOK
    <2>3. call[u] \in waiting /\ call[u] # "join"
        BY Zenon, <2>1, <2>2 DEF QueueInv, CallInv, isCompletedSuccessfully
    <2>4. dep[u] = Len(Children[u])
        BY Zenon, <2>3 DEF DepInv
    <2>5. call' = [call EXCEPT ![u] = call[u]]
        BY Zenon, <1>2 DEF TypeOK
    <2>6. call[u] \in {"push", "notify", "check", "asleep"} /\ call[u] # "push"
          /\ call[u] # "returned"
        BY Zenon, <2>3 DEF waiting
    <2>7. Registers(w, u, call[u])
        BY Zenon, <1>1, <1>2, <2>1, <2>4, <2>5, <2>6 DEF Registers
    <2> HIDE DEF IInv
    <2> QED
        BY Zenon, <1>1, <2>6, <2>7, RegisterMoves
<1> QED
    BY Zenon, <1>3, <1>4 DEF FetchTask, getTaskAndRegister
\* Thread th deregisters from its task u.
Deregisters(th, u, p) ==
    /\ tpc[th] = "finish" /\ ttask[th] = u
    /\ deRegisterThreadAndFinalizeTask(th, u)
    /\ tpc' = [tpc EXCEPT ![th] = p]
    /\ ttask' = [ttask EXCEPT ![th] = None]
    /\ texc' = [texc EXCEPT ![th] = FALSE]
    /\ schedLock' \in Workers \cup {None}
    /\ UNCHANGED <<taskQueue, nextScheduledTaskID, reg, dep>>

\* A step in which a thread deregisters preserves the invariant: its task is
\* not completed before, so the call still waits; the last thread finalizes
\* the task, and an exception that the thread caught is with the task then.
LEMMA DeRegisterMoves ==
    ASSUME IInv, NEW th \in Threads, NEW u \in Tasks, NEW p \in {"ready", "exited"},
           Deregisters(th, u, p)
    PROVE  IInv'
<1> DEFINE last == fin[u] + 1 = reg[u]
           e == exc[u] \/ texc[th]
<1>1. fin[u] \in Nat /\ reg[u] \in Nat /\ fin[u] < reg[u]
    BY Zenon, ThreadsLeft DEF Deregisters, IInv, TypeOK
<1>2. ~isCompletedNoLock(u) /\ ~isCompletedSuccessfully(u) /\ reg[u] # 0
    BY <1>1 DEF isCompletedNoLock, isCompletedSuccessfully
<1>3. call[u] \notin beforePush /\ call[u] \notin {"join", "returned", "threw"}
    <2>1. call[u] \notin beforePush
        BY Zenon, <1>2 DEF IInv, FreshInv
    <2>2. call[u] \notin {"join", "returned", "threw"}
        BY Zenon, <1>2 DEF IInv, CallInv
    <2> QED
        BY Zenon, <2>1, <2>2
<1>4. UNCHANGED <<taskQueue, reg, dep>>
    BY Zenon DEF Deregisters
<1>5. \A t \in Tasks : \/ call'[t] = call[t]
                       \/ t = u /\ call[t] = "asleep" /\ call'[t] = "check"
    <2>1. call' = call \/ call' = [call EXCEPT ![u] = IF @ = "asleep" THEN "check" ELSE @]
        BY Zenon DEF Deregisters, deRegisterThreadAndFinalizeTask, notifyTask
    <2> QED
        BY Zenon, <2>1 DEF IInv, TypeOK
<1>6. \A t \in Tasks : fin'[t] = IF t = u THEN fin[t] + 1 ELSE fin[t]
    BY Zenon DEF Deregisters, deRegisterThreadAndFinalizeTask, IInv, TypeOK
<1>7. \A t \in Tasks : t # u =>
          exc'[t] = exc[t] /\ failed'[t] = failed[t] /\ finalized'[t] = finalized[t]
    BY Zenon DEF Deregisters, deRegisterThreadAndFinalizeTask, IInv, TypeOK
<1>8. finalized'[u] = IF last /\ ~e THEN finalized[u] + 1 ELSE finalized[u]
    BY Zenon DEF Deregisters, deRegisterThreadAndFinalizeTask, IInv, TypeOK
<1>9. (e => exc'[u]) /\ (failed'[u] => failed[u] \/ exc'[u])
    BY Zenon DEF Deregisters, deRegisterThreadAndFinalizeTask, IInv, TypeOK
<1>10. \A x \in Threads : /\ ttask'[x] = IF x = th THEN None ELSE ttask[x]
                          /\ texc'[x] = IF x = th THEN FALSE ELSE texc[x]
    BY Zenon DEF Deregisters, IInv, TypeOK
<1> HIDE DEF last, e
<1>11. TypeOK'
    <2>1. call' \in [Tasks -> {"none", "deps", "launch", "push", "notify", "check", "asleep",
                               "join"} \cup EndedCalls]
        BY DEF Deregisters, deRegisterThreadAndFinalizeTask, notifyTask, IInv, TypeOK
    <2>2. fin' \in [Tasks -> Nat] /\ finalized' \in [Tasks -> Nat]
        BY DEF Deregisters, deRegisterThreadAndFinalizeTask, IInv, TypeOK
    <2>3. exc' \in [Tasks -> BOOLEAN] /\ failed' \in [Tasks -> BOOLEAN]
        BY Zenon DEF Deregisters, deRegisterThreadAndFinalizeTask, IInv, TypeOK
    <2> QED
        BY Zenon, <2>1, <2>2, <2>3 DEF Deregisters, IInv, TypeOK
<1>12. ThreadInv'
    <2>1. \A x \in Threads : tpc'[x] = IF x = th THEN p ELSE tpc[x]
        BY Zenon DEF Deregisters, IInv, TypeOK
    <2> QED
        BY Zenon, <1>10, <2>1, Constants DEF IInv, ThreadInv, WorkingPCs
<1>13. CountInv'
    <2> SUFFICES ASSUME NEW t \in Tasks
                 PROVE  reg'[t] = fin'[t] + Cardinality(Registered(t)')
        BY Zenon DEF CountInv
    <2> DEFINE n == Cardinality(Registered(t))
               m == Cardinality(Registered(t)')
    <2>1. m = IF t = u THEN n - 1 ELSE n
        BY Zenon, ThreadRemoved DEF Deregisters, IInv
    <2>2. reg[t] = fin[t] + n /\ fin[t] \in Nat /\ n \in Nat
        BY Zenon, RegisteredFinite DEF IInv, CountInv, TypeOK
    <2> HIDE DEF n, m
    <2>3. reg'[t] = fin'[t] + m
        BY <1>4, <1>6, <2>1, <2>2
    <2> QED
        BY Zenon, <2>3 DEF m
<1>14. FreshInv'
    <2>1. \A t \in Tasks : t # u \/ tpc'[t] # "none" => tpc'[t] = tpc[t] \/ t = th
        BY Zenon, Constants DEF Deregisters, IInv, TypeOK
    <2>2. \A t \in Tasks : call'[t] \in beforePush => call[t] \in beforePush /\ t # u
        BY Zenon, <1>3, <1>5 DEF beforePush
    <2>3. th \in Tasks => th = u
        BY Zenon DEF Deregisters, IInv, ThreadInv, TypeOK
    <2> QED
        BY Zenon, <1>4, <1>6, <1>7, <2>1, <2>2, <2>3 DEF IInv, FreshInv
<1>15. \A t \in Tasks : t # u => /\ isCompletedNoLock(t)' <=> isCompletedNoLock(t)
                                 /\ isCompletedSuccessfully(t)' <=> isCompletedSuccessfully(t)
    BY Zenon, <1>4, <1>6, <1>7 DEF isCompletedNoLock, isCompletedSuccessfully
<1>16. QueueInv'
    BY Zenon, <1>2, <1>3, <1>4, <1>5, <1>15 DEF IInv, TypeOK, QueueInv, waiting
<1>17. CallInv'
    BY Zenon, <1>3, <1>4, <1>5, <1>15 DEF IInv, CallInv
<1>18. OutcomeInv'
    <2>1. finalized[u] = 0
        BY <1>2 DEF IInv, OutcomeInv, TypeOK
    <2>2. isCompletedNoLock(u)' <=> last
        <3>1. fin'[u] = fin[u] + 1 /\ reg'[u] = reg[u]
            BY Zenon, <1>4, <1>6
        <3> QED
            BY <1>1, <3>1 DEF isCompletedNoLock, last
    <2>3. finalized'[u] > 0 => finalized'[u] = 1 /\ isCompletedNoLock(u)'
        BY <1>8, <2>1, <2>2
    <2>4. isCompletedSuccessfully(u)' => finalized'[u] = 1
        <3> SUFFICES ASSUME isCompletedNoLock(u)', ~exc'[u] PROVE finalized'[u] = 1
            BY Zenon DEF isCompletedSuccessfully
        <3>1. last /\ ~e
            BY Zenon, <1>9, <2>2
        <3> QED
            BY <1>8, <2>1, <3>1
    <2>5. \A t \in Tasks : failed[t] => exc[t] \/ \E x \in Threads : ttask[x] = t /\ texc[x]
        BY Zenon DEF IInv, OutcomeInv
    <2>6. failed'[u] => exc'[u] \/ \E x \in Threads : ttask'[x] = u /\ texc'[x]
        BY Zenon, <1>9, <1>10, <2>5 DEF e
    <2>7. ttask[th] = u
        BY Zenon DEF Deregisters
    <2>8. \A t \in Tasks : t # u /\ failed'[t] =>
              exc'[t] \/ \E x \in Threads : ttask'[x] = t /\ texc'[x]
        BY <1>7, <1>10, <2>5, <2>7
    <2>9. \A t \in Tasks : t # u => /\ finalized'[t] > 0 => finalized'[t] = 1 /\ isCompletedNoLock(t)'
                                    /\ isCompletedSuccessfully(t)' => finalized'[t] = 1
        BY Zenon, <1>7, <1>15 DEF IInv, OutcomeInv
    <2> QED
        BY Zenon, <2>3, <2>4, <2>6, <2>8, <2>9 DEF OutcomeInv
<1>19. DepInv'
    <2>1. \A t \in Tasks : \A i \in 1..dep[t] : call'[Children[t][i]] = "returned"
        BY <1>3, <1>5, DependencyIsTask DEF IInv, DepInv
    <2> QED
        BY Zenon, <1>4, <1>5, <2>1 DEF IInv, DepInv, waiting
<1> QED
    BY Zenon, <1>11, <1>12, <1>13, <1>14, <1>16, <1>17, <1>18, <1>19 DEF IInv

\* A worker and a launched thread finish their work.
LEMMA FinishSteps ==
    ASSUME IInv, NEW th \in Threads, WorkerFinishes(th) \/ LaunchedFinishes(th)
    PROVE  IInv'
<1> USE DEF IInv
<1>1. tpc[th] = "finish" /\ ttask[th] \in Tasks /\ (th \in Tasks => ttask[th] = th)
    BY Zenon, WorkingThread DEF WorkerFinishes, LaunchedFinishes, WorkingPCs
<1>2. deRegisterThreadAndFinalizeTask(th, ttask[th])
    BY Zenon, <1>1 DEF WorkerFinishes, LaunchedFinishes
<1>3. PICK p \in {"ready", "exited"} : tpc' = [tpc EXCEPT ![th] = p]
    BY Zenon DEF WorkerFinishes, LaunchedFinishes
<1>4. /\ ttask' = [ttask EXCEPT ![th] = None] /\ texc' = [texc EXCEPT ![th] = FALSE]
      /\ schedLock' \in Workers \cup {None}
      /\ UNCHANGED <<taskQueue, nextScheduledTaskID, reg, dep>>
    BY Zenon DEF WorkerFinishes, LaunchedFinishes, queue, TypeOK
<1>5. Deregisters(th, ttask[th], p)
    BY Zenon, <1>1, <1>2, <1>3, <1>4 DEF Deregisters
<1> HIDE DEF IInv
<1> QED
    BY Zenon, <1>1, <1>5, DeRegisterMoves

\* Every step preserves the invariant.
LEMMA NextIInv ==
    ASSUME IInv, [Next]_vars
    PROVE  IInv'
<1>1. CASE UNCHANGED vars
    <2>1. UNCHANGED <<taskQueue, nextScheduledTaskID, schedLock, reg, fin, exc, finalized, failed>>
          /\ UNCHANGED <<call, dep, tpc, ttask, texc>>
        BY Zenon, <1>1 DEF vars, queue, task, calls, threads
    <2>2. TypeOK' /\ ThreadInv'
        BY Zenon, <2>1 DEF IInv, TypeOK, ThreadInv
    <2>3. CountInv' /\ FreshInv' /\ DepInv'
        BY Zenon, <2>1 DEF IInv, CountInv, Registered, FreshInv, DepInv
    <2>4. QueueInv'
        BY Zenon, <2>1 DEF IInv, QueueInv, isCompletedNoLock, isCompletedSuccessfully
    <2>5. CallInv'
        BY Zenon, <2>1 DEF IInv, CallInv, isCompletedNoLock, isCompletedSuccessfully
    <2>6. OutcomeInv'
        BY Zenon, <2>1 DEF IInv, OutcomeInv, isCompletedNoLock, isCompletedSuccessfully
    <2> QED
        BY Zenon, <2>2, <2>3, <2>4, <2>5, <2>6 DEF IInv
<1>2. ASSUME NEW t \in Tasks, CallStep(t) \/ WakeUp(t) PROVE IInv'
    BY Zenon, <1>2, CallDependenciesStep, LaunchThreadStep, PushStep, WaitingSteps, JoinAndReturnStep
    DEF CallStep
<1>3. ASSUME NEW th \in Threads, ThreadStep(th) \/ RunThrows(th) PROVE IInv'
    BY Zenon, <1>3, FetchTaskStep, RunSteps, ScheduleNestedStep, FinishSteps DEF ThreadStep
<1>4. CASE StopWorkers
    BY Zenon, <1>4, StopStep
<1> QED
    BY Zenon, <1>1, <1>2, <1>3, <1>4 DEF Next, Stopped
-----------------------------------------------------------------------------
(* The theorems.                                                           *)

\* The inductive invariant holds in every behaviour of the scheduler.
THEOREM Invariance == Spec => []IInv
<1>1. IInv /\ [Next]_vars => IInv'
    BY Zenon, NextIInv
<1> QED
    BY InitIInv, <1>1, PTL DEF Spec

\* Every variable of the scheduler keeps its type.
THEOREM TypeCorrect == Spec => []TypeOK
<1>1. IInv => TypeOK
    BY Zenon DEF IInv
<1> QED
    BY <1>1, Invariance, PTL

\* When scheduleTaskAndWaitOrError returns or throws, no thread works on the
\* task: a late worker cannot register any more, and all others have left.
THEOREM TasksAreReleased == Spec => []NoThreadWorksAfterReturn
<1>1. IInv => NoThreadWorksAfterReturn
    <2> SUFFICES ASSUME IInv, NEW t \in Tasks, call[t] \in EndedCalls
                 PROVE  \A th \in Threads : ttask[th] # t
        BY Zenon DEF NoThreadWorksAfterReturn
    <2>1. ~(fin[t] < reg[t])
        BY DEF IInv, CallInv, TypeOK, EndedCalls, isCompletedNoLock, isCompletedSuccessfully
    <2> QED
        BY Zenon, <2>1, ThreadsLeft DEF IInv
<1> QED
    BY <1>1, Invariance, PTL

\* finalize() runs at most once, and only after every thread has left run().
THEOREM FinalizedOnce == Spec => []FinalizedOnceByLast
<1>1. IInv => FinalizedOnceByLast
    <2> SUFFICES ASSUME IInv, NEW t \in Tasks, finalized[t] > 0
                 PROVE  finalized[t] = 1 /\ \A th \in Threads : ttask[th] # t
        BY Zenon DEF FinalizedOnceByLast
    <2>1. finalized[t] = 1 /\ isCompletedNoLock(t)
        BY Zenon DEF IInv, OutcomeInv
    <2>2. ~(fin[t] < reg[t])
        BY <2>1 DEF isCompletedNoLock, IInv, TypeOK
    <2> QED
        BY Zenon, <2>1, <2>2, ThreadsLeft DEF IInv
<1> QED
    BY <1>1, Invariance, PTL

\* A call that returns normally has finalized its task, and no exception of a
\* thread or of finalize() was lost on the way.
THEOREM NoExceptionIsLost == Spec => []ReturnMeansSuccess
<1>1. IInv => ReturnMeansSuccess
    <2> SUFFICES ASSUME IInv, NEW t \in Tasks, call[t] = "returned", reg[t] > 0
                 PROVE  finalized[t] = 1 /\ ~failed[t]
        BY Zenon DEF ReturnMeansSuccess
    <2>1. isCompletedSuccessfully(t)
        BY DEF IInv, CallInv, TypeOK
    <2>2. ~(fin[t] < reg[t]) /\ ~exc[t]
        BY <2>1 DEF isCompletedSuccessfully, isCompletedNoLock, IInv, TypeOK
    <2>3. \A th \in Threads : ttask[th] # t
        BY Zenon, <2>2, ThreadsLeft DEF IInv
    <2> QED
        BY Zenon, <2>1, <2>2, <2>3 DEF IInv, OutcomeInv
<1> QED
    BY <1>1, Invariance, PTL

\* A pipeline runs only after all its dependencies have been completed and
\* finalized, if only root tasks wait for tasks that terminate.
THEOREM DependenciesFirst == Spec => []DependenciesComplete
<1>1. IInv => DependenciesComplete
    <2> SUFFICES ASSUME IInv, NEW t \in Tasks, reg[t] > 0, NEW d \in Range(Children[t])
                 PROVE  isCompletedSuccessfully(d) /\ finalized[d] = 1
        BY Zenon DEF DependenciesComplete
    <2>1. PICK i \in DOMAIN Children[t] : d = Children[t][i]
        BY Zenon DEF Range
    <2>2. DOMAIN Children[t] = 1..Len(Children[t]) /\ d \in Tasks
        BY Zenon, <2>1, DependencyIsTask DEF IInv
    <2>3. call[d] = "returned"
        BY Zenon, <2>1, <2>2 DEF IInv, DepInv
    <2>4. \A j \in DOMAIN Children[d] : Children[d][j] \notin MayTerminate
        BY Zenon, <2>1, TerminationAssumption DEF TerminationAssumption
    <2>5. isCompletedSuccessfully(d)
        BY Zenon, <2>2, <2>3, <2>4 DEF IInv, CallInv
    <2> QED
        BY Zenon, <2>2, <2>5 DEF IInv, OutcomeInv
<1> QED
    BY <1>1, Invariance, PTL

\* The queue never keeps a task whose call has ended with an exception.
THEOREM QueueIsClean == Spec => []OnlySuccessfulTasksLinger
<1>1. IInv => OnlySuccessfulTasksLinger
    BY Zenon DEF IInv, QueueInv, OnlySuccessfulTasksLinger, waiting, EndedCalls
<1> QED
    BY <1>1, Invariance, PTL
=============================================================================
