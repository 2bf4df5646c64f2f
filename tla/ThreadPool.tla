----------------------------- MODULE ThreadPool -----------------------------
(***************************************************************************)
(* The calculation threads: multithread.c and mtsupport.c.                 *)
(*                                                                         *)
(* The main thread puts tasks into td.tasks and polls td.doneTasks until   *)
(* every one is done; the workers sleep on td.activity, take a task, run   *)
(* it and count it done.  The same counters and the same wait tell the     *)
(* main thread that its workers have been created, and that they have been *)
(* closed: a worker is closed by a task (CloseThread) of its own.          *)
(*                                                                         *)
(* A task is its number in the batch handed over since the last wait       *)
(* ended.  What it computes is left out; that it succeeds, fails           *)
(* (MT_SetResultFailed) or aborts the batch (MT_AbortTasks) is not.        *)
(***************************************************************************)
EXTENDS Integers, Sequences

CONSTANTS MaxThreads,      \* MAX_NUMTHREADS
          MaxTasks,        \* bound: tasks of one batch
          CreationMayFail, \* g_thread_try_new may return NULL
          WaitExpires,     \* an event may be waited for longer than ten seconds
          OpenInput        \* fBackgroundAnalysis: input is not grabbed in a wait

ASSUME SizeAssumption == MaxThreads \in Nat \ {0} /\ MaxTasks \in Nat \ {0}
ASSUME SwitchAssumption == {CreationMayFail, WaitExpires, OpenInput} \subseteq BOOLEAN

VARIABLES
    numThreads, closingThreads,                \* td, of the same names
    tasks,                                     \* td.tasks
    signalled,                                 \* td.activity->signalled
    doneTasks, addedTasks, totalTasks, result, \* td
    locking,    \* EvaluatePosition = EvaluatePositionWithLocking, ...
    main,       \* where the main thread is
    target,     \* the argument of MT_SetNumThreads; 0: MT_Close
    spawned,    \* the loop counter of MT_CreateThreads
    batch,      \* what the counters count: "create", "work" or "close"
    waits,      \* nested calls of MT_WaitForTasks
    pc,         \* where each worker is
    held,       \* the task a worker runs, 0: none
    left,       \* move records its task still has to analyse
    freed,      \* its ThreadLocalData is freed
    settled,    \* history: tasks of the batch counted by MT_TaskDone
    failed      \* history: a task of the batch failed or aborted

counters == <<doneTasks, addedTasks, totalTasks, result>>
workers == <<pc, held, left, freed>>
history == <<settled, failed>>
vars == <<numThreads, closingThreads, tasks, signalled, counters, locking, main, target,
          spawned, batch, waits, workers, history>>

Workers == 1..MaxThreads
Failed == -1    \* td.result
NoWait == -1    \* td.totalTasks
MaxWaits == IF OpenInput THEN 2 ELSE 1

Go(w, from, to) == pc[w] = from /\ pc' = [pc EXCEPT ![w] = to]

Init == /\ numThreads = 0 /\ closingThreads = FALSE
        /\ tasks = <<>> /\ signalled = FALSE
        /\ doneTasks = 0 /\ addedTasks = 0 /\ totalTasks = NoWait /\ result = 0
        /\ locking = FALSE
        /\ main = "idle" /\ target = 0 /\ spawned = 0 /\ batch = "work" /\ waits = 0
        /\ pc = [w \in Workers |-> "none"]
        /\ held = [w \in Workers |-> 0]
        /\ left = [w \in Workers |-> 0]
        /\ freed = [w \in Workers |-> FALSE]
        /\ settled = {} /\ failed = FALSE

-----------------------------------------------------------------------------
\* The queue.  Both operations hold queueLock from their first read to their
\* last write, and set or reset the event inside it: each is one step.

\* Bug: every addition takes the batch for a new one.
MutResultIsReset(n) ==
    /\ result' = 0
    /\ addedTasks' = addedTasks + n
    /\ tasks' = tasks \o [i \in 1..n |-> addedTasks + i]
    /\ signalled' = (signalled \/ tasks = <<>>)

\* mt_add_tasks; MT_AddTask when n = 1.
Enqueue(n) ==
    /\ result' = IF addedTasks = 0 THEN 0 ELSE result
    /\ addedTasks' = addedTasks + n
    /\ tasks' = tasks \o [i \in 1..n |-> addedTasks + i]
    /\ signalled' = (signalled \/ tasks = <<>>)

\* Bug: the event stays set when the last task is taken.
MutEventStaysSet == tasks # <<>> /\ tasks' = Tail(tasks) /\ UNCHANGED signalled

\* MT_GetTask of a list that is not empty.
Dequeue == /\ tasks # <<>>
           /\ tasks' = Tail(tasks)
           /\ signalled' = (signalled /\ Len(tasks) > 1)

\* MT_TaskDone
TaskDone(k) == /\ doneTasks' = doneTasks + 1
               /\ settled' = settled \cup {k}

-----------------------------------------------------------------------------
\* The main thread.

\* The entry of MT_CreateThreads.
BeginCreate(n) ==
    /\ numThreads' = n
    /\ result' = 0 /\ closingThreads' = FALSE
    /\ spawned' = 0
    /\ main' = "spawn"

\* The program starts its threads: from the saved "set threads", or one.
StartThreads(n) ==
    /\ main = "idle" /\ numThreads = 0
    /\ BeginCreate(n)
    /\ UNCHANGED <<tasks, signalled, doneTasks, addedTasks, totalTasks, locking, target,
                   batch, waits, workers, history>>

\* Bug: the loop runs once too often.
MutSpawnsOneMore ==
    /\ main = "spawn" /\ spawned <= numThreads
    /\ spawned' = spawned + 1
    /\ pc' = [pc EXCEPT ![spawned + 1] = "start"]
    /\ freed' = [freed EXCEPT ![spawned + 1] = FALSE]
    /\ UNCHANGED <<numThreads, closingThreads, tasks, signalled, counters, locking, main,
                   target, batch, waits, held, left, history>>

\* An iteration of the loop of MT_CreateThreads.
Spawn ==
    /\ main = "spawn" /\ spawned < numThreads
    /\ spawned' = spawned + 1
    /\ \/ /\ pc' = [pc EXCEPT ![spawned + 1] = "start"]
          /\ freed' = [freed EXCEPT ![spawned + 1] = FALSE]
       \/ CreationMayFail /\ UNCHANGED <<pc, freed>>
    /\ UNCHANGED <<numThreads, closingThreads, tasks, signalled, counters, locking, main,
                   target, batch, waits, held, left, history>>

\* MT_CreateThreads waits for what its threads do first: count themselves.
WaitForThreads ==
    /\ main = "spawn" /\ spawned = numThreads
    /\ addedTasks' = numThreads /\ totalTasks' = numThreads
    /\ batch' = "create" /\ waits' = 1
    /\ main' = "wait"
    /\ UNCHANGED <<numThreads, closingThreads, tasks, signalled, doneTasks, result, locking,
                   target, spawned, workers, history>>

\* A command hands over tasks, at once (mt_add_tasks) or one by one while the
\* first are already running (AnalyzeGame).  No command runs before
\* MT_StartThreads.
AddTasks(n) ==
    /\ main = "idle" /\ numThreads > 0
    /\ addedTasks + n <= MaxTasks
    /\ Enqueue(n)
    /\ UNCHANGED <<numThreads, closingThreads, doneTasks, totalTasks, locking, main, target,
                   spawned, batch, waits, workers, history>>

\* MT_WaitForTasks, to its loop.
WaitForTasks ==
    /\ main = "idle" /\ numThreads > 0
    /\ totalTasks' = addedTasks
    /\ waits' = 1
    /\ main' = "wait"
    /\ UNCHANGED <<numThreads, closingThreads, tasks, signalled, doneTasks, addedTasks, result,
                   locking, target, spawned, batch, workers, history>>

\* ProcessEvents, in that loop, runs a command of the user that computes: it
\* adds a task (RunAsyncProcess) and waits in its turn.
NestedCommand ==
    /\ main = "wait" /\ batch = "work"
    /\ waits < MaxWaits /\ totalTasks # 0     \* with nothing to wait for, no event is processed
    /\ addedTasks < MaxTasks
    /\ Enqueue(1)
    /\ totalTasks' = addedTasks'
    /\ waits' = waits + 1
    /\ UNCHANGED <<numThreads, closingThreads, doneTasks, locking, main, target, spawned,
                   batch, workers, history>>

\* MT_SetNumThreads, up to the first assignment of MT_CloseThreads; n = 0
\* stands for MT_Close.
SetNumThreads(n) ==
    /\ main = "idle" /\ addedTasks = 0
    /\ numThreads > 0 /\ n # numThreads
    /\ target' = n
    /\ closingThreads' = TRUE
    /\ main' = "closing"
    /\ UNCHANGED <<numThreads, tasks, signalled, counters, locking, spawned, batch, waits,
                   workers, history>>

\* The rest of MT_CloseThreads, to its wait.
CloseThreads ==
    /\ main = "closing"
    /\ Enqueue(numThreads)
    /\ totalTasks' = addedTasks'
    /\ batch' = "close" /\ waits' = 1
    /\ main' = "wait"
    /\ UNCHANGED <<numThreads, closingThreads, doneTasks, locking, target, spawned, workers,
                   history>>

\* What follows the end of the innermost wait: its caller's next step.
AfterWait ==
    IF batch = "close" THEN "join" ELSE "idle"

\* Bug: the tasks of a batch stay counted.
MutStaysCounted ==
    /\ main = "wait" /\ doneTasks = totalTasks
    /\ addedTasks' = 0 /\ totalTasks' = NoWait
    /\ settled' = {} /\ failed' = FALSE
    /\ waits' = waits - 1
    /\ main' = IF waits > 1 THEN "wait" ELSE AfterWait
    /\ locking' = IF batch = "create" THEN numThreads # 1 ELSE locking
    /\ batch' = "work"
    /\ UNCHANGED <<numThreads, closingThreads, tasks, signalled, doneTasks, result, target,
                   spawned, workers>>

\* Bug: several threads keep the functions of one.
MutSelectsOnce ==
    /\ main = "wait" /\ doneTasks = totalTasks
    /\ doneTasks' = 0 /\ addedTasks' = 0 /\ totalTasks' = NoWait
    /\ settled' = {} /\ failed' = FALSE
    /\ waits' = waits - 1
    /\ main' = IF waits > 1 THEN "wait" ELSE AfterWait
    /\ batch' = "work"
    /\ UNCHANGED <<numThreads, closingThreads, tasks, signalled, result, locking, target,
                   spawned, workers>>

\* WaitForAllTasks returns TRUE: the counters are reset for the next batch.
\* After MT_CreateThreads, MT_SetNumThreads selects the evaluation functions.
\* (MT_StartThreads leaves them as they are, which is the same for a thread.)
WaitEnds ==
    /\ main = "wait" /\ doneTasks = totalTasks
    /\ doneTasks' = 0 /\ addedTasks' = 0 /\ totalTasks' = NoWait
    /\ settled' = {} /\ failed' = FALSE
    /\ waits' = waits - 1
    /\ main' = IF waits > 1 THEN "wait" ELSE AfterWait
    /\ locking' = IF batch = "create" THEN numThreads # 1 ELSE locking
    /\ batch' = "work"
    /\ UNCHANGED <<numThreads, closingThreads, tasks, signalled, result, target, spawned, workers>>

\* g_thread_join of every thread, and MT_CreateThreads or the end.
Join ==
    /\ main = "join"
    /\ \A w \in 1..numThreads : pc[w] = "exited"
    /\ pc' = [w \in Workers |-> "none"]
    /\ IF target = 0
       THEN main' = "ended" /\ UNCHANGED <<numThreads, result, closingThreads, spawned>>
       ELSE BeginCreate(target)
    /\ UNCHANGED <<tasks, signalled, doneTasks, addedTasks, totalTasks, locking, target, batch,
                   waits, held, left, freed, history>>

-----------------------------------------------------------------------------
\* A worker: MT_WorkerThreadFunction.

poolOf == <<numThreads, closingThreads, addedTasks, totalTasks, locking, main, target, spawned,
            batch, waits>>

Start(w) ==
    /\ Go(w, "start", "created")
    /\ result' = result + 1
    /\ UNCHANGED <<poolOf, tasks, signalled, doneTasks, held, left, freed, history>>

\* MT_TaskDone(NULL)
Created(w) ==
    /\ Go(w, "created", "wait")
    /\ doneTasks' = doneTasks + 1
    /\ UNCHANGED <<poolOf, tasks, signalled, result, held, left, freed, history>>

\* WaitForManualEvent returns when the event is set, or after ten seconds.
Wake(w) ==
    /\ Go(w, "wait", "get")
    /\ signalled \/ WaitExpires
    /\ UNCHANGED <<poolOf, tasks, signalled, doneTasks, result, held, left, freed, history>>

\* Bug: the event is reset after queueLock is released.
MutResetsUnlocked(w) ==
    \/ /\ Go(w, "get", IF Len(tasks) = 1 THEN "reset" ELSE "run")
       /\ tasks # <<>> /\ tasks' = Tail(tasks)
       /\ held' = [held EXCEPT ![w] = Head(tasks)]
       /\ \E n \in 1..2 : left' = [left EXCEPT ![w] = IF batch = "close" THEN 1 ELSE n]
       /\ UNCHANGED <<poolOf, signalled, doneTasks, result, freed, history>>
    \/ /\ Go(w, "reset", "run")
       /\ signalled' = FALSE
       /\ UNCHANGED <<poolOf, tasks, doneTasks, result, held, left, freed, history>>

\* A task has one move record to analyse, or two when it is linked to another.
GetTask(w) ==
    /\ Go(w, "get", "run")
    /\ Dequeue
    /\ held' = [held EXCEPT ![w] = Head(tasks)]
    /\ \E n \in 1..2 : left' = [left EXCEPT ![w] = IF batch = "close" THEN 1 ELSE n]
    /\ UNCHANGED <<poolOf, doneTasks, result, freed, history>>

GetNothing(w) ==
    /\ Go(w, "get", "test")
    /\ tasks = <<>>
    /\ UNCHANGED <<poolOf, tasks, signalled, doneTasks, result, held, left, freed, history>>

\* One part of the task is computed, and may report its failure.
Compute(w) ==
    /\ pc[w] = "run" /\ left[w] > 0 /\ batch # "close"
    /\ left' = [left EXCEPT ![w] = left[w] - 1]
    /\ \/ UNCHANGED <<result, failed>>
       \/ result' = Failed /\ failed' = TRUE     \* MT_SetResultFailed
    /\ UNCHANGED <<poolOf, tasks, signalled, doneTasks, pc, held, freed, settled>>

\* AnalyzeMove is interrupted: MT_AbortTasks
BeginAbort(w) ==
    /\ Go(w, "run", "abort")
    /\ left[w] > 0 /\ batch # "close"
    /\ left' = [left EXCEPT ![w] = left[w] - 1]
    /\ UNCHANGED <<poolOf, tasks, signalled, doneTasks, result, held, freed, history>>

\* Bug: a task that is thrown away is not counted.
MutDropsUncounted(w) ==
    /\ pc[w] = "abort"
    /\ Dequeue
    /\ UNCHANGED <<poolOf, doneTasks, result, workers, history>>

\* An iteration of its loop.  The worker's own task is not done yet, so that
\* nobody can tell whether its two calls are one step.
DropTask(w) ==
    /\ pc[w] = "abort"
    /\ Dequeue
    /\ TaskDone(Head(tasks))
    /\ UNCHANGED <<poolOf, result, workers, failed>>

EndAbort(w) ==
    /\ Go(w, "abort", "aborted")
    /\ tasks = <<>>
    /\ UNCHANGED <<poolOf, tasks, signalled, doneTasks, result, held, left, freed, history>>

FailBatch(w) ==
    /\ Go(w, "aborted", "run")
    /\ result' = Failed /\ failed' = TRUE
    /\ UNCHANGED <<poolOf, tasks, signalled, doneTasks, held, left, freed, settled>>

\* The task CloseThread.
CloseThread(w) ==
    /\ pc[w] = "run" /\ left[w] > 0 /\ batch = "close"
    /\ freed' = [freed EXCEPT ![w] = TRUE]
    /\ result' = result + 1
    /\ left' = [left EXCEPT ![w] = 0]
    /\ UNCHANGED <<poolOf, tasks, signalled, doneTasks, pc, held, history>>

Finish(w) ==
    /\ Go(w, "run", "test")
    /\ left[w] = 0
    /\ TaskDone(held[w])
    /\ held' = [held EXCEPT ![w] = 0]
    /\ UNCHANGED <<poolOf, tasks, signalled, result, left, freed, failed>>

\* The condition of the loop.
Test(w) ==
    /\ Go(w, "test", IF closingThreads THEN "exited" ELSE "wait")
    /\ UNCHANGED <<poolOf, tasks, signalled, doneTasks, result, held, left, freed, history>>

WorkerStep(w) ==
    \/ Start(w) \/ Created(w) \/ Wake(w) \/ GetTask(w) \/ GetNothing(w)
    \/ Compute(w) \/ BeginAbort(w) \/ DropTask(w) \/ EndAbort(w) \/ FailBatch(w)
    \/ CloseThread(w) \/ Finish(w) \/ Test(w)

-----------------------------------------------------------------------------
MainStep == Spawn \/ WaitForThreads \/ CloseThreads \/ WaitEnds \/ Join

Command ==
    \/ \E n \in Workers : StartThreads(n)
    \/ \E n \in 1..MaxTasks : AddTasks(n)
    \/ WaitForTasks
    \/ NestedCommand
    \/ \E n \in 0..MaxThreads : SetNumThreads(n)

\* The program has ended and its threads with it.
Ended == main = "ended" /\ UNCHANGED vars

Next == MainStep \/ Command \/ (\E w \in Workers : WorkerStep(w)) \/ Ended

Spec == Init /\ [][Next]_vars

\* The operating system runs every thread, and what a task computes ends.
\* Nobody has to type a command, and no thread has to win a race.
FairSpec == /\ Spec /\ WF_vars(MainStep)
            /\ \A w \in Workers : WF_vars(WorkerStep(w))

-----------------------------------------------------------------------------
\* Properties

\* Every variable has its type: no worker is created past MAX_NUMTHREADS and
\* none is in a place that its loop does not have.
TypeOK ==
    /\ numThreads \in 0..MaxThreads /\ target \in 0..MaxThreads /\ spawned \in 0..MaxThreads
    /\ {closingThreads, signalled, locking, failed} \subseteq BOOLEAN
    /\ doneTasks \in Nat /\ addedTasks \in Nat /\ totalTasks \in Nat \cup {NoWait}
    /\ result \in Nat \cup {Failed}
    /\ tasks \in Seq(Nat \ {0})
    /\ main \in {"idle", "spawn", "wait", "closing", "join", "ended"}
    /\ batch \in {"create", "work", "close"} /\ waits \in 0..MaxWaits
    /\ pc \in [Workers -> {"none", "start", "created", "wait", "get", "run", "abort", "aborted",
                           "test", "exited"}]
    /\ held \in [Workers -> Nat] /\ left \in [Workers -> 0..2] /\ freed \in [Workers -> BOOLEAN]
    /\ settled \subseteq Nat

\* The pool is a fork and a join: whatever the workers do and in whatever
\* order, aborts and late additions included, a wait of the main thread ends
\* only when each task handed over was counted done exactly once.
ForkedTasks == INSTANCE ForkJoin WITH
    submitted <- IF batch = "create" THEN 0 ELSE addedTasks
TasksAreJoined == ForkedTasks!Spec

\* A worker that finds the event reset has nothing to take: no wakeup is lost
\* between the emptying of the list and the next addition.
SignalledMeansWork == signalled <=> tasks # <<>>

\* What MT_WaitForTasks tells its caller: -1 when a task of this batch failed
\* and at no other time, however many tasks were added after the failure;
\* the number of threads when these were created or closed.  (A wait for no
\* task at all tells the result of an earlier batch.)
ResultIsTold ==
    [][main = "wait" /\ main' # "wait" =>
         IF batch # "work" THEN result = numThreads
         ELSE addedTasks > 0 => (result = Failed <=> failed)]_vars

\* The functions without locking are in use only while one worker at most
\* computes: the assumption under which they are correct.
AloneWithoutLocks ==
    locking \/ \A v, w \in Workers : pc[v] = "run" /\ pc[w] = "run" /\ batch = "work" => v = w

\* MT_CloseThreads counts numThreads CloseThread tasks, that is, every worker
\* runs its own before it leaves its loop, and frees its data.
ClosedBeforeExit == \A w \in Workers : pc[w] = "exited" => freed[w]

\* Every wait of the main thread ends, without the help of an expiring wait: for
\* the creation of threads ("timeout after 1 second"), for a batch, and for the
\* closing of threads with its joins, unless a worker left its loop too early:
\* there is no other way for MT_CloseThreads to hang.
EveryWaitEnds ==
    /\ main = "wait" /\ batch # "close" ~> main # "wait"
    /\ main = "closing" ~> main \in {"spawn", "ended"} \/ ~ClosedBeforeExit
=============================================================================
