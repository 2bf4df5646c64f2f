---------------------------- MODULE SyncBarrier ----------------------------
(***************************************************************************)
(* MT_SyncStart and MT_SyncEnd (multithread.c), the two barriers between   *)
(* which the calibration (speed.c) times numThreads calculation threads.   *)
(*                                                                         *)
(* A barrier is a static counter and an event.  The last thread to arrive  *)
(* takes itself off the counter again (with a plain count--, a read and a  *)
(* write) and sets the event; each of the others takes itself off when it  *)
(* leaves, and the one that brings the counter to zero resets the event.   *)
(* CommandCalibrate hands out numThreads tasks (RunEvals) and waits for    *)
(* all of them before it hands out the next numThreads.                    *)
(***************************************************************************)
EXTENDS Integers, FiniteSets

CONSTANTS Threads,     \* the calculation threads
          numThreads,  \* how many they are
          WaitExpires  \* WaitForManualEvent returns after ten seconds

ASSUME ThreadsAssumption == IsFiniteSet(Threads) /\ Cardinality(Threads) = numThreads /\ numThreads > 1
ASSUME ExpiryAssumption == WaitExpires \in BOOLEAN

VARIABLES count,     \* count[b]: the static counter of barrier b
          signalled, \* signalled[b]: td.syncStart->signalled, td.syncEnd->signalled
          todo,      \* tasks of this iteration nobody has taken yet
          at,        \* the barrier a thread is at
          pc,        \* where in it, or "rest", or "eval" between the two
          read       \* what the thread read for its count--

vars == <<count, signalled, todo, at, pc, read>>

Barriers == {"start", "end"}

Go(t, from, to) == pc[t] = from /\ pc' = [pc EXCEPT ![t] = to]

\* Where a thread goes that gets past its barrier.
Beyond(t) == IF at[t] = "start" THEN "eval" ELSE "rest"

\* MT_SyncInit; the first tasks are queued.
Init == /\ count = [b \in Barriers |-> 0]
        /\ signalled = [b \in Barriers |-> FALSE]
        /\ todo = numThreads
        /\ at = [t \in Threads |-> "start"]
        /\ pc = [t \in Threads |-> "rest"]
        /\ read = [t \in Threads |-> 0]

\* A worker takes one of the tasks and comes to MT_SyncStart.
TakeTask(t) ==
    /\ Go(t, "rest", "arrive")
    /\ todo > 0 /\ todo' = todo - 1
    /\ at' = [at EXCEPT ![t] = "start"]
    /\ UNCHANGED <<count, signalled, read>>

\* It has evaluated its positions and comes to MT_SyncEnd.
Evaluate(t) ==
    /\ Go(t, "eval", "arrive")
    /\ at' = [at EXCEPT ![t] = "end"]
    /\ UNCHANGED <<count, signalled, todo, read>>

\* MT_SafeIncValue(&count) == td.numThreads ?
Arrive(t) ==
    /\ Go(t, "arrive", IF count[at[t]] + 1 = numThreads THEN "last" ELSE "await")
    /\ count' = [count EXCEPT ![at[t]] = @ + 1]
    /\ UNCHANGED <<signalled, todo, at, read>>

\* count--
ReadCount(t) ==
    /\ Go(t, "last", "write")
    /\ read' = [read EXCEPT ![t] = count[at[t]]]
    /\ UNCHANGED <<count, signalled, todo, at>>

WriteCount(t) ==
    /\ Go(t, "write", "set")
    /\ count' = [count EXCEPT ![at[t]] = read[t] - 1]
    /\ UNCHANGED <<signalled, todo, at, read>>

SetEvent(t) ==
    /\ Go(t, "set", Beyond(t))
    /\ signalled' = [signalled EXCEPT ![at[t]] = TRUE]
    /\ UNCHANGED <<count, todo, at, read>>

\* WaitForManualEvent
Await(t) ==
    /\ Go(t, "await", "leave")
    /\ signalled[at[t]] \/ WaitExpires
    /\ UNCHANGED <<count, signalled, todo, at, read>>

\* Bug: the value tested is the one before the decrement.
MutTestsOldCount(t) ==
    /\ Go(t, "leave", IF count[at[t]] = 0 THEN "reset" ELSE Beyond(t))
    /\ count' = [count EXCEPT ![at[t]] = @ - 1]
    /\ UNCHANGED <<signalled, todo, at, read>>

\* Bug: the event is reset while a thread still waits for it.
MutResetsEarly(t) ==
    /\ Go(t, "leave", IF count[at[t]] = 2 THEN "reset" ELSE Beyond(t))
    /\ count' = [count EXCEPT ![at[t]] = @ - 1]
    /\ UNCHANGED <<signalled, todo, at, read>>

\* MT_SafeDecCheck(&count) ?
Leave(t) ==
    /\ Go(t, "leave", IF count[at[t]] = 1 THEN "reset" ELSE Beyond(t))
    /\ count' = [count EXCEPT ![at[t]] = @ - 1]
    /\ UNCHANGED <<signalled, todo, at, read>>

ResetEvent(t) ==
    /\ Go(t, "reset", Beyond(t))
    /\ signalled' = [signalled EXCEPT ![at[t]] = FALSE]
    /\ UNCHANGED <<count, todo, at, read>>

\* MT_WaitForTasks has returned; the next iteration of the loop.
NextIteration ==
    /\ todo = 0 /\ \A t \in Threads : pc[t] = "rest"
    /\ todo' = numThreads
    /\ UNCHANGED <<count, signalled, at, pc, read>>

\* It polls until every task is done.
Poll ==
    /\ ~(todo = 0 /\ \A t \in Threads : pc[t] = "rest")
    /\ UNCHANGED vars

ThreadStep(t) ==
    \/ TakeTask(t) \/ Evaluate(t) \/ Arrive(t) \/ ReadCount(t) \/ WriteCount(t)
    \/ SetEvent(t) \/ Await(t) \/ Leave(t) \/ ResetEvent(t)

Next == NextIteration \/ Poll \/ \E t \in Threads : ThreadStep(t)

Spec == Init /\ [][Next]_vars

\* The scheduler runs every thread; evaluating a batch of positions ends.
FairSpec == Spec /\ WF_vars(NextIteration) /\ \A t \in Threads : WF_vars(ThreadStep(t))

-----------------------------------------------------------------------------
\* Properties

\* Every variable has its type; the counters stay between 0 and numThreads.
TypeOK ==
    /\ count \in [Barriers -> 0..numThreads]
    /\ signalled \in [Barriers -> BOOLEAN]
    /\ todo \in 0..numThreads
    /\ at \in [Threads -> Barriers]
    /\ pc \in [Threads -> {"rest", "arrive", "last", "write", "set", "await", "leave", "reset",
                           "eval"}]
    /\ read \in [Threads -> 0..numThreads]

\* "Wait for all threads to get here": while a thread evaluates, every other
\* one has come to MT_SyncStart and none has got past MT_SyncEnd.  So the
\* time between the two barriers is that of numThreads threads at work.
AllTogether ==
    (\E t \in Threads : pc[t] = "eval") =>
        \A t \in Threads : pc[t] # "rest" /\ ~(pc[t] = "arrive" /\ at[t] = "start")

\* A barrier can be used again: between two iterations no thread is left on a
\* counter and no event is still set.
Reusable ==
    todo = numThreads /\ (\A t \in Threads : pc[t] = "rest") =>
        \A b \in Barriers : count[b] = 0 /\ ~signalled[b]

\* The barriers keep threads together and are as new afterwards, with their
\* counters in range: the last thread's plain count-- loses nobody's.
BarriersHold == TypeOK /\ AllTogether /\ Reusable

\* Nobody is left behind at a barrier: each iteration comes to its end.
IterationsEnd == []<>(todo = numThreads)
=============================================================================
