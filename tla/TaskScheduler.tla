--------------------------- MODULE TaskScheduler ---------------------------
(***************************************************************************)
(* The task scheduler of the query processor.  A query is a root task with *)
(* dependency tasks that run before it; a task that runs a graph algorithm *)
(* schedules a nested task from inside its own run() and has a new thread  *)
(* launched for it.  Every task has one scheduleTaskAndWaitOrError call,   *)
(* so a call is identified with its task; a launched thread is identified  *)
(* with the task it was launched for.                                      *)
(***************************************************************************)
EXTENDS Integers, Sequences, Functions, FiniteSets

CONSTANTS
    Workers,       \* the scheduler's worker threads
    Tasks,
    Roots,         \* tasks that QueryProcessor::execute schedules
    Children,      \* Task::children, dependencies in order
    Nested,        \* the task that run() schedules, or None
    MaxThreads,    \* Task::maxNumThreads
    MayTerminate,  \* tasks whose terminate() may return true
    None

ASSUME ConstantsAssumption ==
    /\ Roots \subseteq Tasks
    /\ Children \in [Tasks -> Seq(Tasks)]
    /\ Nested \in [Tasks -> Tasks \cup {None}]
    /\ MaxThreads \in [Tasks -> Nat \ {0}]
    /\ None \notin Tasks \cup Workers
    /\ Workers \cap Tasks = {}
    /\ IsFiniteSet(Workers) /\ IsFiniteSet(Tasks)

\* Only CreateTable terminates, and planCreateTable makes it a dependency of
\* the root: a task with a dependency that terminates is nobody's dependency.
ASSUME TerminationAssumption ==
    \A t \in Tasks : \A i \in DOMAIN Children[t] : \A j \in DOMAIN Children[Children[t][i]] :
        Children[Children[t][i]][j] \notin MayTerminate

VARIABLES
    taskQueue,     \* the ScheduledTasks; the deque holds them in the order of their IDs
    nextScheduledTaskID,
    schedLock,     \* holder of taskSchedulerMtx across two steps, or None
    reg, fin,      \* numThreadsRegistered and numThreadsFinished of each task
    exc,           \* the task's exceptionsPtr is set
    finalized,     \* history: number of times finalize() ran
    failed,        \* history: some run() or finalize() of the task threw
    call,          \* where the task's scheduleTaskAndWaitOrError call is
    dep,           \* number of dependencies the call has finished
    tpc,           \* where each thread is
    ttask,         \* the task a thread is registered with, or None
    texc           \* the thread caught an exception from run()

task == <<reg, fin, exc, finalized, failed>>
calls == <<call, dep>>
threads == <<tpc, ttask, texc>>
queue == <<taskQueue, nextScheduledTaskID>>
vars == <<queue, schedLock, task, calls, threads>>

Threads == Workers \cup Tasks
WorkingPCs == {"init", "run", "nested", "finish"}
EndedCalls == {"returned", "threw"}

Init ==
    /\ taskQueue = {}
    /\ nextScheduledTaskID = 0
    /\ schedLock = None
    /\ reg = [t \in Tasks |-> 0]
    /\ fin = [t \in Tasks |-> 0]
    /\ exc = [t \in Tasks |-> FALSE]
    /\ finalized = [t \in Tasks |-> 0]
    /\ failed = [t \in Tasks |-> FALSE]
    /\ call = [t \in Tasks |-> IF t \in Roots THEN "deps" ELSE "none"]
    /\ dep = [t \in Tasks |-> 0]
    /\ tpc = [th \in Threads |-> IF th \in Workers THEN "ready" ELSE "none"]
    /\ ttask = [th \in Threads |-> None]
    /\ texc = [th \in Threads |-> FALSE]

-----------------------------------------------------------------------------
(* Task.                                                                   *)

isCompletedNoLock(t) == reg[t] > 0 /\ fin[t] = reg[t]
isCompletedSuccessfully(t) == isCompletedNoLock(t) /\ ~exc[t]

\* Mutant: a finished thread does not stop others from registering.
canRegister_AfterFinish(t) == ~exc[t] /\ MaxThreads[t] > reg[t]

\* The condition of registerThread.
canRegister(t) == ~exc[t] /\ fin[t] = 0 /\ MaxThreads[t] > reg[t]

\* Wake the thread waiting on the task's condition variable, if any.
notifyTask(t) ==
    call' = [call EXCEPT ![t] = IF @ = "asleep" THEN "check" ELSE @]

\* Mutant: finished threads are counted down.
deRegister_CountsDown(th, t) ==
    /\ fin' = [fin EXCEPT ![t] = @ - 1]
    /\ IF fin[t] = 1 - reg[t] THEN notifyTask(t) ELSE UNCHANGED call
    /\ UNCHANGED <<exc, finalized, failed>>

\* Mutant: an exception of finalize() is swallowed.
deRegister_SwallowsFinalize(th, t) ==
    LET e == exc[t] \/ texc[th]
        last == fin[t] + 1 = reg[t]
    IN /\ fin' = [fin EXCEPT ![t] = @ + 1]
       /\ finalized' = [finalized EXCEPT ![t] = IF last /\ ~e THEN @ + 1 ELSE @]
       /\ exc' = [exc EXCEPT ![t] = e]
       /\ \E throws \in BOOLEAN :
             failed' = [failed EXCEPT ![t] = @ \/ (throws /\ last /\ ~e)]
       /\ IF last THEN notifyTask(t) ELSE UNCHANGED call

\* setException, if the thread caught one, and deRegisterThreadAndFinalizeTask:
\* the last thread finalizes a task without exception, and finalize may throw.
deRegisterThreadAndFinalizeTask(th, t) ==
    LET e == exc[t] \/ texc[th]
        last == fin[t] + 1 = reg[t]
    IN /\ fin' = [fin EXCEPT ![t] = @ + 1]
       /\ finalized' = [finalized EXCEPT ![t] = IF last /\ ~e THEN @ + 1 ELSE @]
       /\ \E throws \in BOOLEAN :
             /\ exc' = [exc EXCEPT ![t] = e \/ (throws /\ last)]
             /\ failed' = [failed EXCEPT ![t] = @ \/ (throws /\ last /\ ~e)]
       /\ IF last THEN notifyTask(t) ELSE UNCHANGED call

-----------------------------------------------------------------------------
(* scheduleTaskAndWaitOrError, the call on task t.                         *)

setCall(t, s) == call' = [call EXCEPT ![t] = s]

\* Mutant: the dependencies are scheduled but not waited for.
CallDependencies_NoWait(t) ==
    /\ call[t] = "deps"
    /\ IF dep[t] = Len(Children[t])
       THEN setCall(t, IF t \in Range(Nested) THEN "launch" ELSE "push") /\ UNCHANGED dep
       ELSE /\ dep' = [dep EXCEPT ![t] = @ + 1]
            /\ setCall(Children[t][dep[t] + 1], "deps")
    /\ UNCHANGED <<queue, schedLock, task, threads>>

\* The loop over task->children: schedule the next dependency, or go on with
\* its outcome.  A dependency that terminates ends this call as well.
CallDependencies(t) ==
    /\ call[t] = "deps"
    /\ IF dep[t] = Len(Children[t])
       THEN /\ setCall(t, IF t \in Range(Nested) THEN "launch" ELSE "push")
            /\ UNCHANGED dep
       ELSE LET d == Children[t][dep[t] + 1] IN
            \/ /\ call[d] = "none"
               /\ setCall(d, "deps")
               /\ UNCHANGED dep
            \/ /\ call[d] = "threw"
               /\ setCall(t, "threw")
               /\ UNCHANGED dep
            \/ /\ call[d] = "returned"
               /\ dep' = [dep EXCEPT ![t] = @ + 1]
               /\ UNCHANGED call
            \/ /\ call[d] = "returned" /\ d \in MayTerminate
               /\ setCall(t, "returned")
               /\ UNCHANGED dep
    /\ UNCHANGED <<queue, schedLock, task, threads>>

\* launchNewWorkerThread: registerThread and start the thread on runTask.
LaunchThread(t) ==
    /\ call[t] = "launch"
    /\ reg' = [reg EXCEPT ![t] = IF canRegister(t) THEN @ + 1 ELSE @]
    /\ tpc' = [tpc EXCEPT ![t] = "init"]
    /\ ttask' = [ttask EXCEPT ![t] = t]
    /\ setCall(t, "push")
    /\ UNCHANGED <<queue, schedLock, fin, exc, finalized, failed, dep, texc>>

pushTaskIntoQueue(t) ==
    /\ call[t] = "push"
    /\ schedLock = None
    /\ taskQueue' = taskQueue \cup {[task |-> t, ID |-> nextScheduledTaskID]}
    /\ nextScheduledTaskID' = nextScheduledTaskID + 1
    /\ setCall(t, "notify")
    /\ UNCHANGED <<schedLock, task, dep, threads>>

\* Mutant: the workers are not woken.
NotifyWorkers_None(t) ==
    /\ call[t] = "notify"
    /\ setCall(t, "check")
    /\ UNCHANGED <<queue, schedLock, task, dep, threads>>

\* cv.notify_all()
NotifyWorkers(t) ==
    /\ call[t] = "notify"
    /\ tpc' = [th \in Threads |-> IF tpc[th] = "asleep" THEN "ready" ELSE tpc[th]]
    /\ setCall(t, "check")
    /\ UNCHANGED <<queue, schedLock, task, dep, ttask, texc>>

\* Mutant: the waiting thread leaves as soon as the task has an exception.
CheckTask_LeavesOnError(t) ==
    /\ call[t] = "check"
    /\ setCall(t, IF isCompletedNoLock(t) \/ exc[t] THEN "join" ELSE "asleep")
    /\ UNCHANGED <<queue, schedLock, task, dep, threads>>

\* One turn of the waiting loop: leave when the task is completed; otherwise
\* interrupt a query that errored or timed out, and sleep.  An interrupt sets
\* a flag that makes run() throw, which RunThrows allows at any time, so the
\* flag is not kept.
CheckTask(t) ==
    /\ call[t] = "check"
    /\ setCall(t, IF isCompletedNoLock(t) THEN "join" ELSE "asleep")
    /\ UNCHANGED <<queue, schedLock, task, dep, threads>>

\* cv.wait may return without a notification; with a query timeout wait_for
\* does.
WakeUp(t) ==
    /\ call[t] = "asleep"
    /\ setCall(t, "check")
    /\ UNCHANGED <<queue, schedLock, task, dep, threads>>

\* Mutant: a failed task stays in the queue.
JoinAndReturn_KeepsErroring(t) ==
    /\ call[t] = "join"
    /\ t \in Range(Nested) => tpc[t] = "exited"
    /\ setCall(t, IF exc[t] THEN "threw" ELSE "returned")
    /\ UNCHANGED <<queue, schedLock, task, dep, threads>>

\* Join the launched thread; return, or removeErroringTask and rethrow.
JoinAndReturn(t) ==
    /\ call[t] = "join"
    /\ t \in Range(Nested) => tpc[t] = "exited"
    /\ \/ /\ ~exc[t]
          /\ setCall(t, "returned")
          /\ UNCHANGED taskQueue
       \/ /\ exc[t]
          /\ schedLock = None
          /\ taskQueue' = {s \in taskQueue : s.task # t}
          /\ setCall(t, "threw")
    /\ UNCHANGED <<nextScheduledTaskID, schedLock, task, dep, threads>>

-----------------------------------------------------------------------------
(* The threads.                                                            *)

\* getTaskAndRegister: register with the first task that accepts the worker;
\* tasks that completed successfully are dropped from the part of the queue
\* that was walked over.
getTaskAndRegister(w) ==
    LET open == {s \in taskQueue : canRegister(s.task)}
    IN \/ /\ open = {}
          /\ taskQueue' = {s \in taskQueue : ~isCompletedSuccessfully(s.task)}
          /\ tpc' = [tpc EXCEPT ![w] = "asleep"]
          /\ UNCHANGED <<ttask, reg>>
       \/ \E s \in open :
          /\ \A o \in open : s.ID <= o.ID
          /\ taskQueue' = {o \in taskQueue : o.ID < s.ID => ~isCompletedSuccessfully(o.task)}
          /\ tpc' = [tpc EXCEPT ![w] = "init"]
          /\ ttask' = [ttask EXCEPT ![w] = s.task]
          /\ reg' = [reg EXCEPT ![s.task] = @ + 1]

\* A worker evaluates the predicate of its cv.wait under taskSchedulerMtx,
\* right after deregistering (with the lock still held) or after waking up.
FetchTask(w) ==
    /\ tpc[w] = "ready"
    /\ schedLock \in {None, w}
    /\ schedLock' = None
    /\ getTaskAndRegister(w)
    /\ UNCHANGED <<nextScheduledTaskID, fin, exc, finalized, failed, calls, texc>>

\* ProcessorTask::run up to the operators' execution: initGlobalState (once)
\* and copying the plan, under the task's mutex.
StartRun(th) ==
    /\ tpc[th] = "init"
    /\ tpc' = [tpc EXCEPT ![th] = "run"]
    /\ UNCHANGED <<queue, schedLock, task, calls, ttask, texc>>

\* run() calls scheduleTaskAndWaitOrError(task, context, true).
ScheduleNested(th) ==
    /\ tpc[th] = "run"
    /\ Nested[ttask[th]] # None
    /\ call[Nested[ttask[th]]] = "none"
    /\ tpc' = [tpc EXCEPT ![th] = "nested"]
    /\ setCall(Nested[ttask[th]], "deps")
    /\ UNCHANGED <<queue, schedLock, task, dep, ttask, texc>>

\* The nested call is over; what it rethrows leaves run() too.
NestedReturns(th) ==
    /\ tpc[th] = "nested"
    /\ call[Nested[ttask[th]]] \in EndedCalls
    /\ LET threw == call[Nested[ttask[th]]] = "threw" IN
          /\ tpc' = [tpc EXCEPT ![th] = IF threw THEN "finish" ELSE "run"]
          /\ texc' = [texc EXCEPT ![th] = threw]
          /\ failed' = [failed EXCEPT ![ttask[th]] = @ \/ threw]
    /\ UNCHANGED <<queue, schedLock, reg, fin, exc, finalized, calls, ttask>>

\* run() returns.
RunReturns(th) ==
    /\ tpc[th] = "run"
    /\ Nested[ttask[th]] # None => call[Nested[ttask[th]]] \in EndedCalls
    /\ tpc' = [tpc EXCEPT ![th] = "finish"]
    /\ UNCHANGED <<queue, schedLock, task, calls, ttask, texc>>

\* run() throws: an operator's error, or InterruptException.
RunThrows(th) ==
    /\ tpc[th] = "run"
    /\ tpc' = [tpc EXCEPT ![th] = "finish"]
    /\ texc' = [texc EXCEPT ![th] = TRUE]
    /\ failed' = [failed EXCEPT ![ttask[th]] = TRUE]
    /\ UNCHANGED <<queue, schedLock, reg, fin, exc, finalized, calls, ttask>>

\* A worker takes taskSchedulerMtx and deregisters; it goes on to FetchTask
\* without giving up the lock.
WorkerFinishes(w) ==
    /\ w \in Workers
    /\ tpc[w] = "finish"
    /\ schedLock = None
    /\ schedLock' = w
    /\ deRegisterThreadAndFinalizeTask(w, ttask[w])
    /\ tpc' = [tpc EXCEPT ![w] = "ready"]
    /\ ttask' = [ttask EXCEPT ![w] = None]
    /\ texc' = [texc EXCEPT ![w] = FALSE]
    /\ UNCHANGED <<queue, reg, dep>>

\* runTask on a launched thread deregisters without the scheduler's mutex.
LaunchedFinishes(t) ==
    /\ t \in Tasks
    /\ tpc[t] = "finish"
    /\ deRegisterThreadAndFinalizeTask(t, t)
    /\ tpc' = [tpc EXCEPT ![t] = "exited"]
    /\ ttask' = [ttask EXCEPT ![t] = None]
    /\ texc' = [texc EXCEPT ![t] = FALSE]
    /\ UNCHANGED <<queue, schedLock, reg, dep>>

\* ~TaskScheduler, once no query runs: the workers leave their loop.
StopWorkers ==
    /\ \A r \in Roots : call[r] \in EndedCalls
    /\ \A w \in Workers : tpc[w] = "asleep"
    /\ tpc' = [th \in Threads |-> IF th \in Workers THEN "exited" ELSE tpc[th]]
    /\ UNCHANGED <<queue, schedLock, task, calls, ttask, texc>>

Stopped ==
    /\ \A w \in Workers : tpc[w] = "exited"
    /\ UNCHANGED vars

-----------------------------------------------------------------------------
CallStep(t) ==
    \/ CallDependencies(t)
    \/ LaunchThread(t)
    \/ pushTaskIntoQueue(t)
    \/ NotifyWorkers(t)
    \/ CheckTask(t)
    \/ JoinAndReturn(t)

\* Steps that a running thread takes sooner or later: everything but throwing.
ThreadStep(th) ==
    \/ th \in Workers /\ FetchTask(th)
    \/ StartRun(th)
    \/ ScheduleNested(th)
    \/ NestedReturns(th)
    \/ RunReturns(th)
    \/ WorkerFinishes(th)
    \/ LaunchedFinishes(th)

Next ==
    \/ \E t \in Tasks : CallStep(t) \/ WakeUp(t)
    \/ \E th \in Threads : ThreadStep(th) \/ RunThrows(th)
    \/ StopWorkers
    \/ Stopped

Spec == Init /\ [][Next]_vars

\* Every call and every thread that can go on does; nothing makes run() throw
\* and nothing wakes a waiting thread without a notification.
FairSpec ==
    /\ Spec
    /\ \A t \in Tasks : WF_vars(CallStep(t))
    /\ \A th \in Threads : WF_vars(ThreadStep(th))

-----------------------------------------------------------------------------
(* Properties.                                                             *)

\* Every variable has its type.
TypeOK ==
    /\ taskQueue \subseteq [task : Tasks, ID : Nat]
    /\ nextScheduledTaskID \in Nat
    /\ schedLock \in Workers \cup {None}
    /\ reg \in [Tasks -> Nat]
    /\ fin \in [Tasks -> Nat]
    /\ exc \in [Tasks -> BOOLEAN]
    /\ finalized \in [Tasks -> Nat]
    /\ failed \in [Tasks -> BOOLEAN]
    /\ call \in [Tasks -> {"none", "deps", "launch", "push", "notify", "check", "asleep",
                           "join"} \cup EndedCalls]
    /\ dep \in [Tasks -> Nat]
    /\ tpc \in [Threads -> {"none", "asleep", "ready", "exited"} \cup WorkingPCs]
    /\ ttask \in [Threads -> Tasks \cup {None}]
    /\ texc \in [Threads -> BOOLEAN]

\* task_scheduler.h: when scheduleTaskAndWaitOrError returns or throws, no
\* thread works on the task, so its operators can be destroyed.
NoThreadWorksAfterReturn ==
    \A t \in Tasks : call[t] \in EndedCalls => \A th \in Threads : ttask[th] # t

\* task.h: finalize() runs once, by the last thread, with no thread in run().
FinalizedOnceByLast ==
    \A t \in Tasks : finalized[t] > 0 =>
        finalized[t] = 1 /\ \A th \in Threads : ttask[th] # t

\* A call that returns normally ran its task to the end, finalized it, and no
\* thread's exception got lost.
ReturnMeansSuccess ==
    \A t \in Tasks : call[t] = "returned" /\ reg[t] > 0 =>
        finalized[t] = 1 /\ ~failed[t]

\* A pipeline's threads start only when everything it depends on (the build
\* sides of its joins) is complete and finalized.
DependenciesComplete ==
    \A t \in Tasks : reg[t] > 0 =>
        \A d \in Range(Children[t]) : isCompletedSuccessfully(d) /\ finalized[d] = 1

\* What stays in the queue after its call is over is a successful task that
\* the next worker drops, never a failed one.
OnlySuccessfulTasksLinger ==
    \A s \in taskQueue : call[s.task] \in EndedCalls => isCompletedSuccessfully(s.task)

\* Every query's call ends, with one worker or many, with nested tasks, and
\* whatever throws: no wake-up is lost and no thread waits for a thread that
\* waits for it.
QueriesEnd == \A r \in Roots : <>(call[r] \in EndedCalls)
=============================================================================
