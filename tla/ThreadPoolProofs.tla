-------------------------- MODULE ThreadPoolProofs --------------------------
(***************************************************************************)
(* The thread pool is a fork and a join for any number of threads and      *)
(* tasks, with failing creation, expiring waits and nested waits.          *)
(***************************************************************************)
EXTENDS ThreadPool, FiniteSetTheorems, SequenceTheorems, TLAPS

\* While threads are created the counters count them, not tasks.
Creating == main = "spawn" \/ batch = "create"
Started == {w \in Workers : pc[w] \notin {"none", "start"}}
Counted == {w \in Workers : pc[w] \notin {"none", "start", "created"}}

\* Tasks whose CloseThread has run.
Closed == settled \cup {held[w] : w \in {v \in Workers : held[v] # 0 /\ left[v] = 0}}

\* How far the main thread is, and what the counters are for.
Phases ==
    /\ main # "wait" => batch = "work" /\ totalTasks = NoWait
    /\ main \in {"spawn", "closing", "join", "ended"} => addedTasks = 0
    /\ main = "wait" => /\ numThreads > 0 /\ waits > 0
                        /\ totalTasks = addedTasks \/ (batch = "work" /\ addedTasks = 0)
                        /\ batch # "work" => waits = 1 /\ addedTasks = numThreads
    /\ main = "closing" => numThreads > 0
    /\ main = "spawn" => spawned <= numThreads /\ numThreads > 0
    /\ numThreads = 0 => addedTasks = 0

\* The queue holds the last tasks of the batch, in their order.
Queue ==
    /\ Len(tasks) <= addedTasks
    /\ \A i \in 1..Len(tasks) : tasks[i] = addedTasks - Len(tasks) + i

\* The others are settled, or held by one worker.
Holding ==
    /\ settled \subseteq 1..(addedTasks - Len(tasks))
    /\ \A w \in Workers : /\ held[w] <= addedTasks - Len(tasks)
                          /\ held[w] # 0 <=> pc[w] \in {"run", "abort", "aborted"}
                          /\ held[w] \notin settled
    /\ \A v, w \in Workers : held[v] = held[w] /\ held[v] # 0 => v = w

\* Where workers can be.
Living ==
    /\ \A w \in Workers : /\ pc[w] # "none" => w <= numThreads
                          /\ pc[w] # "none" /\ main = "spawn" => w <= spawned
                          /\ pc[w] \in {"start", "created"} => Creating
                          /\ pc[w] \in {"abort", "aborted"} => batch = "work"
    /\ Creating => settled = {} /\ tasks = <<>> /\ \A w \in Workers : held[w] = 0
    /\ main = "ended" => \A w \in Workers : pc[w] = "none"

\* What the counters count.
Counting ==
    /\ Creating => doneTasks = Cardinality(Counted) /\ result = Cardinality(Started)
    /\ ~Creating => doneTasks = Cardinality(settled)
    /\ batch = "close" => result = Cardinality(Closed)

\* What result says of a batch, and what locking of the number of threads.
Telling ==
    /\ failed => batch = "work" /\ addedTasks > 0
    /\ batch = "work" /\ addedTasks > 0 => (result = Failed <=> failed)
    /\ main \in {"idle", "wait"} /\ batch = "work" /\ numThreads > 0 => locking \/ numThreads = 1

Invariant == TypeOK /\ SignalledMeansWork /\ Phases /\ Queue /\ Holding /\ Living /\ Counting /\ Telling

-----------------------------------------------------------------------------
(* The queue. *)

\* A sequence is empty when its length is zero.
LEMMA EmptyLength ==
  ASSUME NEW S, NEW s \in Seq(S)
  PROVE  Len(s) \in Nat /\ (s = <<>> <=> Len(s) = 0)
BY LenProperties, EmptySeq

\* A queue that is enlarged by n tasks holds the last ones of a larger batch.
LEMMA Enqueued ==
  ASSUME TypeOK, SignalledMeansWork, Queue, NEW n \in Nat \ {0}, Enqueue(n)
  PROVE  /\ addedTasks' = addedTasks + n
         /\ tasks' \in Seq(Nat \ {0}) /\ Len(tasks') = Len(tasks) + n
         /\ addedTasks' - Len(tasks') = addedTasks - Len(tasks)
         /\ Queue' /\ SignalledMeansWork' /\ signalled' \in BOOLEAN
<1> DEFINE more == [i \in 1..n |-> addedTasks + i]
<1> USE DEF TypeOK, Enqueue
<1>1. more \in Seq(Nat \ {0}) /\ Len(more) = n
  <2>1. more \in [1..n -> Nat \ {0}]
    OBVIOUS
  <2> QED BY <2>1
<1> HIDE DEF more
<1>2. tasks' = tasks \o more
  BY DEF more
<1>3. /\ tasks' \in Seq(Nat \ {0}) /\ Len(tasks') = Len(tasks) + n
      /\ \A i \in 1..(Len(tasks) + n) :
            tasks'[i] = IF i <= Len(tasks) THEN tasks[i] ELSE more[i - Len(tasks)]
  <2>1. /\ tasks \o more \in Seq(Nat \ {0}) /\ Len(tasks \o more) = Len(tasks) + Len(more)
        /\ \A i \in 1..(Len(tasks) + Len(more)) :
              (tasks \o more)[i] = IF i <= Len(tasks) THEN tasks[i] ELSE more[i - Len(tasks)]
    BY <1>1, ConcatProperties, ZenonT(60)
  <2> QED BY <1>1, <1>2, <2>1
<1>4. Len(tasks) \in Nat
  BY LenProperties
<1>5. \A i \in 1..Len(tasks') : tasks'[i] = addedTasks' - Len(tasks') + i
  BY <1>3, <1>4 DEF Queue, more
<1>6. tasks' # <<>>
  <2> HIDE DEF Enqueue
  <2>1. Len(tasks') # 0
    BY <1>3, <1>4
  <2> QED BY <1>3, <2>1, EmptyLength
<1>7. signalled' = TRUE
  <2>1. signalled = TRUE \/ tasks = <<>>
    BY Zenon DEF SignalledMeansWork
  <2> QED BY <2>1, Zenon
<1>8. SignalledMeansWork' /\ signalled' \in BOOLEAN
  BY <1>6, <1>7 DEF SignalledMeansWork
<1> QED BY <1>3, <1>4, <1>5, <1>8 DEF Queue

\* The first of the queue is the next task of the batch.
LEMMA Dequeued ==
  ASSUME TypeOK, SignalledMeansWork, Queue, Dequeue, UNCHANGED addedTasks
  PROVE  /\ tasks' \in Seq(Nat \ {0}) /\ Len(tasks') = Len(tasks) - 1 /\ Len(tasks) > 0
         /\ Head(tasks) = addedTasks' - Len(tasks') /\ Head(tasks) > 0
         /\ addedTasks - Len(tasks) = Head(tasks) - 1
         /\ Queue' /\ SignalledMeansWork' /\ signalled' \in BOOLEAN
<1>1. /\ tasks' \in Seq(Nat \ {0}) /\ Len(tasks') = Len(tasks) - 1
      /\ \A i \in 1..Len(tasks') : tasks'[i] = tasks[i + 1]
  BY HeadTailProperties DEF TypeOK, Dequeue
<1>2. Len(tasks) \in Nat \ {0}
  BY EmptyLength DEF TypeOK, Dequeue
<1>3. Head(tasks) = addedTasks - Len(tasks) + 1
  BY <1>2 DEF Queue, TypeOK, Dequeue
<1>4. Queue'
  <2>1. ASSUME NEW i \in 1..Len(tasks')
        PROVE  tasks'[i] = addedTasks' - Len(tasks') + i
    <3>1. i \in Int /\ i + 1 \in 1..Len(tasks)
      BY <1>1, <1>2
    <3>0. addedTasks' = addedTasks /\ addedTasks \in Nat
      BY DEF TypeOK
    <3>3. tasks'[i] = tasks[i + 1]
      BY <1>1, <2>1
    <3>2. tasks[i + 1] = addedTasks - Len(tasks) + (i + 1)
      BY <3>1 DEF Queue
    <3> QED BY <1>1, <1>2, <3>0, <3>1, <3>2, <3>3
  <2> QED BY <1>1, <1>2, <2>1 DEF Queue, TypeOK
<1>5. signalled' <=> Len(tasks) > 1
  <2>1. signalled
    BY DEF SignalledMeansWork, Dequeue
  <2>2. signalled' = (signalled /\ Len(tasks) > 1)
    BY DEF Dequeue
  <2> QED BY <2>1, <2>2
<1>6. tasks' = <<>> <=> Len(tasks') = 0
  BY <1>1, EmptyLength
<1>7. signalled' <=> Len(tasks') # 0
  BY <1>1, <1>2, <1>5
<1>8. signalled' \in BOOLEAN
  BY DEF Dequeue
<1> QED BY <1>1, <1>2, <1>3, <1>4, <1>6, <1>7, <1>8, SMTT(30) DEF Queue, SignalledMeansWork, TypeOK

-----------------------------------------------------------------------------
(* What the counters count is finite. *)

\* Threads and tasks are finitely many.
LEMMA Finiteness ==
  ASSUME TypeOK, Holding, Queue
  PROVE  /\ \A S \in SUBSET Workers : IsFiniteSet(S)
         /\ IsFiniteSet(settled) /\ IsFiniteSet(Closed)
<1>1. IsFiniteSet(Workers)
  BY FS_Interval, SizeAssumption DEF Workers
<1>2. ASSUME NEW S \in SUBSET Workers PROVE IsFiniteSet(S)
  BY <1>1, FS_Subset
<1>3. addedTasks \in Nat /\ Len(tasks) \in Nat
  BY EmptyLength DEF TypeOK
<1>4. IsFiniteSet(1..(addedTasks - Len(tasks)))
  BY <1>3, FS_Interval
<1>5. settled \subseteq 1..(addedTasks - Len(tasks)) /\ Closed \subseteq 1..(addedTasks - Len(tasks))
  <2>1. ASSUME NEW v \in Workers, held[v] # 0
        PROVE  held[v] \in 1..(addedTasks - Len(tasks))
    <3>1. held[v] \in Nat
      BY DEF TypeOK
    <3>2. held[v] <= addedTasks - Len(tasks)
      BY DEF Holding
    <3> QED BY <1>3, <2>1, <3>1, <3>2
  <2> QED BY <2>1 DEF Holding, Closed
<1>6. IsFiniteSet(settled) /\ IsFiniteSet(Closed)
  BY <1>4, <1>5, FS_Subset
<1> QED BY <1>2, <1>6

\* The main thread waits once, or twice.
LEMMA WaitBound == MaxWaits \in {1, 2}
BY DEF MaxWaits

\* A worker goes from a place to another, and no other does.
LEMMA Moves ==
  ASSUME TypeOK, NEW w \in Workers, NEW from, NEW to, Go(w, from, to)
  PROVE  /\ pc[w] = from /\ pc'[w] = to
         /\ \A v \in Workers \ {w} : pc'[v] = pc[v]
BY DEF Go, TypeOK

-----------------------------------------------------------------------------
(* Every step preserves the invariant. *)

\* The program begins with no thread and no task.
LEMMA Initially == Init => Invariant
<1> SUFFICES ASSUME Init PROVE Invariant
  OBVIOUS
<1> USE DEF Init
<1>1. TypeOK
  <2>1. tasks \in Seq(Nat \ {0})
    BY EmptySeq
  <2>2. 0 \in 0..MaxThreads /\ 0 \in 0..MaxWaits
    BY SizeAssumption, WaitBound
  <2>3. /\ held \in [Workers -> Nat] /\ left \in [Workers -> 0..2]
        /\ freed \in [Workers -> BOOLEAN]
    OBVIOUS
  <2>4. pc \in [Workers -> {"none", "start", "created", "wait", "get", "run", "abort",
                            "aborted", "test", "exited"}]
    OBVIOUS
  <2>5. main \in {"idle", "spawn", "wait", "closing", "join", "ended"}
        /\ batch \in {"create", "work", "close"}
    OBVIOUS
  <2>6. /\ {closingThreads, signalled, locking, failed} \subseteq BOOLEAN
        /\ doneTasks \in Nat /\ addedTasks \in Nat /\ totalTasks \in Nat \cup {NoWait}
        /\ result \in Nat \cup {Failed} /\ settled \subseteq Nat
    OBVIOUS
  <2> QED BY <2>1, <2>2, <2>3, <2>4, <2>5, <2>6 DEF TypeOK
<1>2. SignalledMeansWork /\ Queue /\ Phases
  BY EmptySeq DEF SignalledMeansWork, Queue, Phases
<1>3. Holding /\ Living
  BY EmptySeq DEF Holding, Living, Creating
<1>4. Counting
  BY FS_EmptySet DEF Counting, Creating
<1>5. Telling
  BY DEF Telling
<1> QED BY <1>1, <1>2, <1>3, <1>4, <1>5 DEF Invariant

\* A created worker counts itself in td.result.
LEMMA StartKeeps ==
  ASSUME Invariant, NEW w \in Workers, Start(w)
  PROVE  Invariant'
<1> USE DEF Start, poolOf, history
<1>1. TypeOK'
  BY DEF Invariant, TypeOK, Go, Failed
<1>2. SignalledMeansWork' /\ Queue' /\ Phases'
  BY DEF Invariant, SignalledMeansWork, Queue, Phases
<1>3. pc[w] = "start" /\ pc'[w] = "created" /\ \A v \in Workers \ {w} : pc'[v] = pc[v]
  BY Moves DEF Invariant
<1>4. Holding'
  BY <1>3 DEF Invariant, Holding
<1>5. Living'
  BY <1>3 DEF Invariant, Living, Creating
<1>6. Counting'
  <2>1. Creating /\ Creating' /\ batch # "close"
    BY <1>3 DEF Invariant, Living, Creating, Phases
  <2>2. Started' = Started \cup {w} /\ w \notin Started /\ Started \subseteq Workers
    BY <1>3 DEF Started
  <2>3. Counted' = Counted
    BY <1>3 DEF Counted
  <2>4. Cardinality(Started') = Cardinality(Started) + 1
    BY <2>2, Finiteness, FS_AddElement DEF Invariant
  <2> QED BY <2>1, <2>3, <2>4 DEF Invariant, Counting
<1>7. Telling'
  BY <1>3 DEF Invariant, Telling, Living, Creating, Phases
<1> QED BY <1>1, <1>2, <1>4, <1>5, <1>6, <1>7 DEF Invariant

\* A created worker counts itself in td.doneTasks.
LEMMA CreatedKeeps ==
  ASSUME Invariant, NEW w \in Workers, Created(w)
  PROVE  Invariant'
<1> USE DEF Created, poolOf, history
<1>1. TypeOK'
  BY DEF Invariant, TypeOK, Go
<1>2. SignalledMeansWork' /\ Queue' /\ Phases'
  BY DEF Invariant, SignalledMeansWork, Queue, Phases
<1>3. pc[w] = "created" /\ pc'[w] = "wait" /\ \A v \in Workers \ {w} : pc'[v] = pc[v]
  BY Moves DEF Invariant
<1>4. Holding'
  BY <1>3 DEF Invariant, Holding
<1>5. Living'
  BY <1>3 DEF Invariant, Living, Creating
<1>6. Counting'
  <2>1. Creating /\ Creating' /\ batch # "close"
    BY <1>3 DEF Invariant, Living, Creating, Phases
  <2>2. Counted' = Counted \cup {w} /\ w \notin Counted /\ Counted \subseteq Workers
    BY <1>3 DEF Counted
  <2>3. Started' = Started
    BY <1>3 DEF Started
  <2>4. Cardinality(Counted') = Cardinality(Counted) + 1
    BY <2>2, Finiteness, FS_AddElement DEF Invariant
  <2> QED BY <2>1, <2>3, <2>4 DEF Invariant, Counting
<1>7. Telling'
  BY DEF Invariant, Telling
<1> QED BY <1>1, <1>2, <1>4, <1>5, <1>6, <1>7 DEF Invariant

\* A worker that wakes up, finds no task, has emptied the queue or tests the
\* condition of its loop goes from a place to another of the same meaning.
LEMMA OnlyMoves ==
  ASSUME Invariant, NEW w \in Workers, NEW from, NEW to, Go(w, from, to),
         \/ from = "wait" /\ to = "get"
         \/ from = "get" /\ to = "test"
         \/ from = "abort" /\ to = "aborted"
         \/ from = "test" /\ to \in {"wait", "exited"},
         UNCHANGED <<poolOf, tasks, signalled, doneTasks, result, held, left, freed, history>>
  PROVE  Invariant'
<1> USE DEF poolOf, history
<1>1. TypeOK'
  BY DEF Invariant, TypeOK, Go
<1>2. SignalledMeansWork' /\ Queue' /\ Phases' /\ Telling'
  BY DEF Invariant, SignalledMeansWork, Queue, Phases, Telling
<1>3. pc[w] = from /\ pc'[w] = to /\ \A v \in Workers \ {w} : pc'[v] = pc[v]
  BY Moves DEF Invariant
<1>4. Holding'
  BY <1>3 DEF Invariant, Holding
<1>5. Living'
  BY <1>3 DEF Invariant, Living, Creating
<1>6. Counting'
  <2>1. Started' = Started /\ Counted' = Counted
    BY <1>3 DEF Started, Counted
  <2>2. Closed' = Closed
    BY DEF Closed
  <2> QED BY <2>1, <2>2 DEF Invariant, Counting, Creating
<1> QED BY <1>1, <1>2, <1>4, <1>5, <1>6 DEF Invariant

\* A worker takes the first task, which no other holds and nobody has settled.
LEMMA GetTaskKeeps ==
  ASSUME Invariant, NEW w \in Workers, GetTask(w)
  PROVE  Invariant'
<1>0. Dequeue /\ UNCHANGED addedTasks
  BY DEF GetTask, poolOf
<1>1. /\ tasks' \in Seq(Nat \ {0}) /\ Len(tasks') = Len(tasks) - 1 /\ Len(tasks) > 0
      /\ Head(tasks) = addedTasks' - Len(tasks') /\ Head(tasks) > 0
      /\ addedTasks - Len(tasks) = Head(tasks) - 1
      /\ Queue' /\ SignalledMeansWork' /\ signalled' \in BOOLEAN
  BY <1>0, Dequeued DEF Invariant
<1>2. addedTasks \in Nat /\ Len(tasks) \in Nat /\ Head(tasks) \in Nat
  BY <1>0, <1>1, EmptyLength DEF Invariant, TypeOK
<1>3. pc[w] = "get" /\ pc'[w] = "run" /\ \A v \in Workers \ {w} : pc'[v] = pc[v]
  BY Moves DEF Invariant, GetTask
<1>4. held'[w] = Head(tasks) /\ \A v \in Workers \ {w} : held'[v] = held[v]
  BY DEF Invariant, TypeOK, GetTask
<1>5. TypeOK'
  BY <1>1, <1>2, SMTT(30) DEF Invariant, TypeOK, GetTask, Go, poolOf, history
<1>6. Phases' /\ Telling'
  BY DEF Invariant, Phases, Telling, GetTask, poolOf, history
<1>7. Holding'
  <2>1. addedTasks' - Len(tasks') = addedTasks - Len(tasks) + 1 /\ settled' = settled
    BY <1>0, <1>1, <1>2 DEF GetTask, history
  <2>2. settled' \subseteq 1..(addedTasks' - Len(tasks'))
    BY <1>2, <2>1 DEF Invariant, Holding
  <2>3. Head(tasks) \notin settled /\ \A v \in Workers : held[v] # Head(tasks)
    BY <1>1, <1>2 DEF Invariant, Holding
  <2>4. \A v \in Workers : held[v] \in Nat
    BY DEF Invariant, TypeOK
  <2>5. ASSUME NEW v \in Workers
        PROVE  /\ held'[v] <= addedTasks' - Len(tasks')
               /\ held'[v] # 0 <=> pc'[v] \in {"run", "abort", "aborted"}
               /\ held'[v] \notin settled'
    BY <1>1, <1>2, <1>3, <1>4, <2>1, <2>3, <2>4 DEF Invariant, Holding
  <2>6. ASSUME NEW u \in Workers, NEW v \in Workers, held'[u] = held'[v], held'[u] # 0
        PROVE  u = v
    BY <1>4, <2>3, <2>6 DEF Invariant, Holding
  <2> QED BY <2>2, <2>5, <2>6 DEF Holding
<1>8. ~Creating /\ ~Creating'
  BY <1>1, EmptyLength DEF Invariant, Living, Creating, GetTask, poolOf, TypeOK
<1>9. Living'
  BY <1>3, <1>8 DEF Invariant, Living, GetTask, poolOf, history
<1>10. Counting'
  <2>1. ASSUME batch = "close" PROVE Closed' = Closed
    <3>1. left'[w] = 1 /\ \A v \in Workers \ {w} : left'[v] = left[v]
      BY <2>1 DEF GetTask, Invariant, TypeOK
    <3>2. held[w] = 0
      BY <1>3 DEF Invariant, Holding
    <3> QED BY <1>4, <3>1, <3>2 DEF Closed, GetTask, history
  <2> QED BY <1>8, <2>1 DEF Invariant, Counting, GetTask, poolOf, history
<1> QED BY <1>1, <1>5, <1>6, <1>7, <1>9, <1>10 DEF Invariant

\* A worker that has a task holds one that is not settled, and the main thread
\* is where tasks can be handed over or waited for.
LEMMA Working ==
  ASSUME Invariant, NEW w \in Workers, pc[w] \in {"run", "abort", "aborted"}
  PROVE  /\ held[w] \in Nat \ {0} /\ held[w] \in 1..(addedTasks - Len(tasks))
         /\ held[w] \notin settled
         /\ addedTasks \in Nat \ {0} /\ Len(tasks) \in Nat
         /\ main \in {"idle", "wait"} /\ batch \in {"work", "close"} /\ ~Creating
<1>1. held[w] \in Nat \ {0}
  BY DEF Invariant, TypeOK, Holding
<1>2. addedTasks \in Nat /\ Len(tasks) \in Nat
  BY EmptyLength DEF Invariant, TypeOK
<1>3. held[w] <= addedTasks - Len(tasks) /\ held[w] \notin settled
  BY DEF Invariant, Holding
<1>4. addedTasks # 0
  BY <1>1, <1>2, <1>3
<1>5. main \in {"idle", "wait"}
  BY <1>4 DEF Invariant, TypeOK, Phases
<1>6. ~Creating /\ batch \in {"work", "close"}
  BY <1>1 DEF Invariant, TypeOK, Living, Creating
<1> QED BY <1>1, <1>2, <1>3, <1>4, <1>5, <1>6

\* A part of a task that fails makes the batch fail.
LEMMA ComputeKeeps ==
  ASSUME Invariant, NEW w \in Workers, Compute(w)
  PROVE  Invariant'
<1> USE DEF Compute, poolOf
<1>1. addedTasks \in Nat \ {0} /\ batch = "work" /\ ~Creating
  BY Working
<1>2. TypeOK'
  <2>1. left' \in [Workers -> 0..2]
    BY DEF Invariant, TypeOK
  <2>2. result' \in Nat \cup {Failed} /\ failed' \in BOOLEAN
    BY DEF Invariant, TypeOK
  <2> QED BY <2>1, <2>2 DEF Invariant, TypeOK
<1>3. SignalledMeansWork' /\ Queue' /\ Phases' /\ Holding' /\ Living'
  BY DEF Invariant, SignalledMeansWork, Queue, Phases, Holding, Living, Creating
<1>4. Counting'
  BY <1>1 DEF Invariant, Counting, Creating
<1>5. Telling'
  BY <1>1 DEF Invariant, Telling
<1> QED BY <1>2, <1>3, <1>4, <1>5 DEF Invariant

\* A worker that is interrupted keeps its task.
LEMMA BeginAbortKeeps ==
  ASSUME Invariant, NEW w \in Workers, BeginAbort(w)
  PROVE  Invariant'
<1> USE DEF BeginAbort, poolOf, history
<1>1. pc[w] = "run" /\ pc'[w] = "abort" /\ \A v \in Workers \ {w} : pc'[v] = pc[v]
  BY Moves DEF Invariant
<1>2. batch = "work" /\ ~Creating
  BY <1>1, Working
<1>3. TypeOK'
  BY DEF Invariant, TypeOK, Go
<1>4. SignalledMeansWork' /\ Queue' /\ Phases' /\ Telling'
  BY DEF Invariant, SignalledMeansWork, Queue, Phases, Telling
<1>5. Holding'
  BY <1>1 DEF Invariant, Holding
<1>6. Living'
  BY <1>1, <1>2 DEF Invariant, Living, Creating
<1>7. Counting'
  BY <1>2 DEF Invariant, Counting, Creating
<1> QED BY <1>3, <1>4, <1>5, <1>6, <1>7 DEF Invariant

\* A worker that throws tasks away settles the first, which nobody holds.
LEMMA DropTaskKeeps ==
  ASSUME Invariant, NEW w \in Workers, DropTask(w)
  PROVE  /\ Invariant'
         /\ Head(tasks) \in (1..addedTasks) \ settled
<1>0. Dequeue /\ TaskDone(Head(tasks)) /\ UNCHANGED <<poolOf, result, workers, failed>>
  BY DEF DropTask
<1>1. /\ tasks' \in Seq(Nat \ {0}) /\ Len(tasks') = Len(tasks) - 1 /\ Len(tasks) > 0
      /\ Head(tasks) = addedTasks' - Len(tasks') /\ Head(tasks) > 0
      /\ addedTasks - Len(tasks) = Head(tasks) - 1
      /\ Queue' /\ SignalledMeansWork' /\ signalled' \in BOOLEAN
  BY <1>0, Dequeued DEF Invariant, poolOf
<1>2. batch = "work" /\ ~Creating
  BY Working DEF Invariant, Living, DropTask
<1>3. addedTasks \in Nat /\ Len(tasks) \in Nat /\ Head(tasks) \in Nat
  BY <1>0, <1>1, EmptyLength DEF Invariant, TypeOK
<1>4. Head(tasks) \notin settled /\ settled' = settled \cup {Head(tasks)}
  BY <1>0, <1>1, <1>3 DEF Invariant, Holding, TaskDone
<1>5. TypeOK'
  <2>1. doneTasks' \in Nat
    BY <1>0 DEF Invariant, TypeOK, TaskDone
  <2>2. settled' \subseteq Nat
    BY <1>3, <1>4 DEF Invariant, TypeOK
  <2> QED BY <1>0, <1>1, <2>1, <2>2 DEF Invariant, TypeOK, poolOf, workers
<1>6. Phases' /\ Telling'
  BY <1>0 DEF Invariant, Phases, Telling, poolOf
<1>7. Holding'
  <2>1. addedTasks' - Len(tasks') = addedTasks - Len(tasks) + 1
    BY <1>0, <1>1, <1>3 DEF poolOf
  <2>2. settled' \subseteq 1..(addedTasks' - Len(tasks'))
    <3>1. settled \subseteq 1..(Head(tasks) - 1)
      BY <1>1 DEF Invariant, Holding
    <3>2. addedTasks' - Len(tasks') = Head(tasks)
      BY <1>1
    <3>3. \A h \in Nat \ {0} : \A S \in SUBSET (1..(h - 1)) : S \cup {h} \subseteq 1..h
      OBVIOUS
    <3>4. Head(tasks) \in Nat \ {0}
      BY <1>1, <1>3
    <3> QED BY <1>4, <3>1, <3>2, <3>3, <3>4
  <2>3. \A v \in Workers : held[v] \in Nat /\ held[v] # Head(tasks)
    BY <1>1, <1>3 DEF Invariant, Holding, TypeOK
  <2>4. ASSUME NEW v \in Workers
        PROVE  /\ held[v] <= addedTasks' - Len(tasks')
               /\ held[v] \notin settled'
    BY <1>3, <1>1, <1>4, <2>1, <2>3 DEF Invariant, Holding
  <2> QED BY <1>0, <2>2, <2>4 DEF Invariant, Holding, workers
<1>8. Living'
  BY <1>0, <1>2 DEF Invariant, Living, Creating, poolOf, workers
<1>9. Counting'
  <2>1. Cardinality(settled') = Cardinality(settled) + 1
    BY <1>4, Finiteness, FS_AddElement DEF Invariant
  <2> QED BY <1>0, <1>2, <2>1 DEF Invariant, Counting, Creating, TaskDone, poolOf
<1> QED BY <1>1, <1>3, <1>4, <1>5, <1>6, <1>7, <1>8, <1>9 DEF Invariant

\* The aborted batch fails as a whole.
LEMMA FailBatchKeeps ==
  ASSUME Invariant, NEW w \in Workers, FailBatch(w)
  PROVE  Invariant'
<1> USE DEF FailBatch, poolOf
<1>1. pc[w] = "aborted" /\ pc'[w] = "run" /\ \A v \in Workers \ {w} : pc'[v] = pc[v]
  BY Moves DEF Invariant
<1>2. addedTasks \in Nat \ {0} /\ ~Creating
  BY <1>1, Working
<1>3. batch = "work"
  BY <1>1 DEF Invariant, Living
<1>4. TypeOK'
  BY DEF Invariant, TypeOK, Go
<1>5. SignalledMeansWork' /\ Queue' /\ Phases'
  BY DEF Invariant, SignalledMeansWork, Queue, Phases
<1>6. Holding'
  BY <1>1 DEF Invariant, Holding
<1>7. Living'
  BY <1>1, <1>2 DEF Invariant, Living, Creating
<1>8. Counting'
  BY <1>2, <1>3 DEF Invariant, Counting, Creating
<1>9. Telling'
  BY <1>2, <1>3 DEF Invariant, Telling
<1> QED BY <1>4, <1>5, <1>6, <1>7, <1>8, <1>9 DEF Invariant

\* A task CloseThread that has run counts its worker in td.result.
LEMMA CloseThreadKeeps ==
  ASSUME Invariant, NEW w \in Workers, CloseThread(w)
  PROVE  Invariant'
<1> USE DEF CloseThread, poolOf, history
<1>1. held[w] \in Nat \ {0} /\ held[w] \notin settled /\ ~Creating
  BY Working
<1>2. TypeOK'
  BY DEF Invariant, TypeOK, Failed
<1>3. SignalledMeansWork' /\ Queue' /\ Phases' /\ Holding'
  BY DEF Invariant, SignalledMeansWork, Queue, Phases, Holding
<1>4. Living' /\ Telling'
  BY DEF Invariant, Living, Creating, Telling
<1>5. Counting'
  <2>1. left'[w] = 0 /\ left[w] # 0 /\ \A v \in Workers \ {w} : left'[v] = left[v]
    BY DEF Invariant, TypeOK
  <2>2. Closed' = Closed \cup {held[w]}
    BY <1>1, <2>1 DEF Closed
  <2>3. held[w] \notin Closed
    BY <1>1, <2>1 DEF Closed, Invariant, Holding
  <2>4. Cardinality(Closed') = Cardinality(Closed) + 1
    BY <2>2, <2>3, Finiteness, FS_AddElement DEF Invariant
  <2> QED BY <1>1, <2>4 DEF Invariant, Counting, Creating
<1> QED BY <1>2, <1>3, <1>4, <1>5 DEF Invariant

\* A worker settles the task it holds, and no other does.
LEMMA FinishKeeps ==
  ASSUME Invariant, NEW w \in Workers, Finish(w)
  PROVE  /\ Invariant'
         /\ held[w] \in (1..addedTasks) \ settled
<1> USE DEF Finish, poolOf
<1>1. pc[w] = "run" /\ pc'[w] = "test" /\ \A v \in Workers \ {w} : pc'[v] = pc[v]
  BY Moves DEF Invariant
<1>2. /\ held[w] \in Nat \ {0} /\ held[w] \in 1..(addedTasks - Len(tasks))
      /\ held[w] \notin settled
      /\ addedTasks \in Nat \ {0} /\ Len(tasks) \in Nat /\ ~Creating
  BY <1>1, Working
<1>3. held'[w] = 0 /\ \A v \in Workers \ {w} : held'[v] = held[v]
  BY DEF Invariant, TypeOK
<1>4. doneTasks' = doneTasks + 1 /\ settled' = settled \cup {held[w]}
  BY DEF TaskDone
<1>5. TypeOK'
  <2>1. doneTasks' \in Nat
    BY <1>4 DEF Invariant, TypeOK
  <2>2. settled' \subseteq Nat
    BY <1>2, <1>4 DEF Invariant, TypeOK
  <2> QED BY <2>1, <2>2 DEF Invariant, TypeOK, Go
<1>6. SignalledMeansWork' /\ Queue' /\ Phases' /\ Telling'
  BY DEF Invariant, SignalledMeansWork, Queue, Phases, Telling
<1>7. Holding'
  <2>1. settled' \subseteq 1..(addedTasks' - Len(tasks'))
    BY <1>2, <1>4 DEF Invariant, Holding
  <2>2. ASSUME NEW v \in Workers
        PROVE  /\ held'[v] <= addedTasks' - Len(tasks')
               /\ held'[v] # 0 <=> pc'[v] \in {"run", "abort", "aborted"}
               /\ held'[v] \notin settled'
    BY <1>1, <1>2, <1>3, <1>4 DEF Invariant, Holding
  <2>3. ASSUME NEW u \in Workers, NEW v \in Workers, held'[u] = held'[v], held'[u] # 0
        PROVE  u = v
    BY <1>3, <2>3 DEF Invariant, Holding
  <2> QED BY <2>1, <2>2, <2>3 DEF Holding
<1>8. Living'
  BY <1>1, <1>2, <1>3 DEF Invariant, Living, Creating
<1>9. Counting'
  <2>1. Cardinality(settled') = Cardinality(settled) + 1
    BY <1>2, <1>4, Finiteness, FS_AddElement DEF Invariant
  <2>2. Closed' = Closed
    BY <1>2, <1>3, <1>4 DEF Closed
  <2> QED BY <1>2, <1>4, <2>1, <2>2 DEF Invariant, Counting, Creating
<1>10. held[w] \in (1..addedTasks) \ settled
  BY <1>2
<1> QED BY <1>5, <1>6, <1>7, <1>8, <1>9, <1>10 DEF Invariant

\* Whatever a worker does, the invariant holds afterwards.
LEMMA WorkersKeep ==
  ASSUME Invariant, NEW w \in Workers, WorkerStep(w)
  PROVE  Invariant'
<1>1. CASE Wake(w) \/ GetNothing(w) \/ EndAbort(w) \/ Test(w)
  BY <1>1, OnlyMoves DEF Wake, GetNothing, EndAbort, Test
<1>2. CASE Start(w)
  BY <1>2, StartKeeps
<1>3. CASE Created(w)
  BY <1>3, CreatedKeeps
<1>4. CASE GetTask(w)
  BY <1>4, GetTaskKeeps
<1>5. CASE Compute(w)
  BY <1>5, ComputeKeeps
<1>6. CASE BeginAbort(w)
  BY <1>6, BeginAbortKeeps
<1>7. CASE DropTask(w)
  BY <1>7, DropTaskKeeps
<1>8. CASE FailBatch(w)
  BY <1>8, FailBatchKeeps
<1>9. CASE CloseThread(w)
  BY <1>9, CloseThreadKeeps
<1>10. CASE Finish(w)
  BY <1>10, FinishKeeps
<1> QED BY <1>1, <1>2, <1>3, <1>4, <1>5, <1>6, <1>7, <1>8, <1>9, <1>10 DEF WorkerStep

\* Without a batch there is nothing in the queue, nothing held and nothing
\* settled, and no batch has failed.
LEMMA NoBatch ==
  ASSUME Invariant, addedTasks = 0
  PROVE  /\ tasks = <<>> /\ Len(tasks) = 0 /\ settled = {} /\ ~failed
         /\ \A w \in Workers : held[w] = 0 /\ pc[w] \notin {"run", "abort", "aborted"}
         /\ ~Creating => doneTasks = 0
<1>1. tasks = <<>> /\ Len(tasks) = 0
  BY EmptyLength DEF Invariant, Queue, TypeOK
<1>2. settled = {}
  BY <1>1 DEF Invariant, Holding
<1>3. ~failed
  BY DEF Invariant, Telling
<1>4. ASSUME NEW w \in Workers PROVE held[w] = 0
  <2>1. held[w] \in Nat /\ held[w] <= addedTasks - Len(tasks)
    BY DEF Invariant, Holding, TypeOK
  <2> QED BY <1>1, <2>1
<1>5. \A w \in Workers : pc[w] \notin {"run", "abort", "aborted"}
  BY <1>4 DEF Invariant, Holding
<1>6. ~Creating => doneTasks = 0
  BY <1>2, FS_EmptySet DEF Invariant, Counting
<1> QED BY <1>1, <1>2, <1>3, <1>4, <1>5, <1>6

\* No thread is counted before it is created.
LEMMA StartThreadsKeeps ==
  ASSUME Invariant, NEW n \in Workers, StartThreads(n)
  PROVE  Invariant'
<1> USE DEF StartThreads, BeginCreate, workers, history
<1>1. addedTasks = 0 /\ batch = "work" /\ totalTasks = NoWait /\ ~Creating
  BY DEF Invariant, Phases, Creating
<1>2. /\ tasks = <<>> /\ settled = {} /\ ~failed /\ doneTasks = 0
      /\ \A w \in Workers : held[w] = 0
  BY <1>1, NoBatch
<1>3. \A w \in Workers : pc[w] = "none"
  BY DEF Invariant, Living, Workers
<1>4. TypeOK'
  <2>1. numThreads' \in 0..MaxThreads /\ spawned' \in 0..MaxThreads
    BY SizeAssumption DEF Workers
  <2> QED BY <2>1 DEF Invariant, TypeOK
<1>5. SignalledMeansWork' /\ Queue' /\ Holding'
  BY DEF Invariant, SignalledMeansWork, Queue, Holding
<1>6. Phases'
  BY <1>1, SizeAssumption DEF Invariant, Phases, Workers
<1>7. Living'
  BY <1>2, <1>3 DEF Living
<1>8. Counting'
  <2>1. Started' = {} /\ Counted' = {}
    BY <1>3 DEF Started, Counted
  <2> QED BY <1>1, <1>2, <2>1, FS_EmptySet DEF Counting, Creating
<1>9. Telling'
  BY <1>1, <1>2 DEF Telling
<1> QED BY <1>4, <1>5, <1>6, <1>7, <1>8, <1>9 DEF Invariant

\* A thread that is created is counted by nobody yet.
LEMMA SpawnKeeps ==
  ASSUME Invariant, Spawn
  PROVE  Invariant'
<1> USE DEF Spawn, counters, history
<1>1. spawned \in Nat /\ numThreads \in 0..MaxThreads /\ spawned + 1 \in 1..numThreads
      /\ spawned + 1 \in Workers
  BY SizeAssumption DEF Invariant, TypeOK, Workers
<1>2. pc[spawned + 1] = "none" /\ held[spawned + 1] = 0
  BY <1>1 DEF Invariant, Living, Creating
<1>3. \A w \in Workers : pc'[w] = pc[w] \/ (w = spawned + 1 /\ pc'[w] = "start")
  BY <1>1 DEF Invariant, TypeOK
<1>4. TypeOK'
  <2>1. /\ pc' \in [Workers -> {"none", "start", "created", "wait", "get", "run", "abort",
                                "aborted", "test", "exited"}]
        /\ freed' \in [Workers -> BOOLEAN]
    BY DEF Invariant, TypeOK
  <2>2. spawned' \in 0..MaxThreads
    BY <1>1 DEF Workers
  <2> QED BY <2>1, <2>2 DEF Invariant, TypeOK
<1>5. SignalledMeansWork' /\ Queue' /\ Phases' /\ Telling'
  BY <1>1 DEF Invariant, SignalledMeansWork, Queue, Phases, Telling
<1>6. Holding'
  BY <1>2, <1>3 DEF Invariant, Holding
<1>7. Living'
  <2>1. ASSUME NEW w \in Workers, pc'[w] # "none"
        PROVE  w <= numThreads' /\ w <= spawned'
    <3>1. CASE w = spawned + 1
      BY <1>1, <3>1
    <3>2. CASE w # spawned + 1
      <4>1. w <= spawned /\ w \in Int
        BY <1>3, <2>1, <3>2 DEF Invariant, Living, Workers
      <4> QED BY <1>1, <4>1
    <3> QED BY <3>1, <3>2
  <2>2. Creating /\ Creating'
    BY DEF Creating
  <2>3. \A w \in Workers : pc'[w] \notin {"abort", "aborted"}
    BY <1>2, <1>3, <2>2 DEF Invariant, Living, Holding
  <2> QED BY <2>1, <2>2, <2>3 DEF Invariant, Living
<1>8. Counting'
  <2>1. Started' = Started /\ Counted' = Counted
    BY <1>2, <1>3 DEF Started, Counted
  <2> QED BY <2>1 DEF Invariant, Counting, Creating, Phases
<1> QED BY <1>4, <1>5, <1>6, <1>7, <1>8 DEF Invariant

\* The main thread waits for as many threads as it meant to create.
LEMMA WaitForThreadsKeeps ==
  ASSUME Invariant, WaitForThreads
  PROVE  Invariant'
<1> USE DEF WaitForThreads, workers, history
<1>1. Creating /\ Creating' /\ addedTasks = 0 /\ batch = "work"
  BY DEF Invariant, Phases, Creating
<1>2. /\ tasks = <<>> /\ Len(tasks) = 0 /\ settled = {} /\ ~failed
      /\ \A w \in Workers : held[w] = 0 /\ pc[w] \notin {"run", "abort", "aborted"}
  BY <1>1, NoBatch
<1>3. numThreads \in Nat \ {0}
  BY DEF Invariant, TypeOK, Phases
<1>4. TypeOK'
  BY <1>3, WaitBound DEF Invariant, TypeOK
<1>5. SignalledMeansWork' /\ Phases'
  BY <1>3 DEF Invariant, SignalledMeansWork, Phases
<1>6. Queue' /\ Holding'
  BY <1>2, <1>3 DEF Invariant, Queue, Holding
<1>7. Living'
  BY <1>1, <1>2 DEF Invariant, Living, Creating
<1>8. Counting'
  BY <1>1 DEF Invariant, Counting, Started, Counted
<1>9. Telling'
  BY <1>2 DEF Invariant, Telling
<1> QED BY <1>4, <1>5, <1>6, <1>7, <1>8, <1>9 DEF Invariant

\* Tasks are handed over behind those of the same batch.
LEMMA AddTasksKeeps ==
  ASSUME Invariant, NEW n \in Nat \ {0}, AddTasks(n)
  PROVE  Invariant' /\ addedTasks' \in Nat /\ addedTasks' > addedTasks
<1>0. main = "idle" /\ batch = "work" /\ ~Creating /\ numThreads > 0
  BY DEF AddTasks, Invariant, Phases, Creating
<1>1. /\ addedTasks' = addedTasks + n
      /\ tasks' \in Seq(Nat \ {0}) /\ Len(tasks') = Len(tasks) + n
      /\ addedTasks' - Len(tasks') = addedTasks - Len(tasks)
      /\ Queue' /\ SignalledMeansWork' /\ signalled' \in BOOLEAN
  BY Enqueued DEF AddTasks, Invariant
<1>2. addedTasks \in Nat /\ Len(tasks) \in Nat
  BY EmptyLength DEF Invariant, TypeOK
<1>3. result' = IF addedTasks = 0 THEN 0 ELSE result
  BY DEF AddTasks, Enqueue
<1>4. UNCHANGED <<numThreads, closingThreads, doneTasks, totalTasks, locking, main, target,
                  spawned, batch, waits, pc, held, left, freed, settled, failed>>
  BY DEF AddTasks, workers, history
<1>5. TypeOK'
  BY <1>1, <1>2, <1>3, <1>4 DEF Invariant, TypeOK
<1>6. Phases'
  BY <1>0, <1>4 DEF Invariant, Phases
<1>7. Holding'
  BY <1>1, <1>4 DEF Invariant, Holding
<1>8. Living' /\ Counting'
  BY <1>0, <1>4 DEF Invariant, Living, Counting, Creating
<1>9. Telling'
  BY <1>0, <1>1, <1>2, <1>3, <1>4 DEF Invariant, Telling, Failed
<1> QED BY <1>1, <1>2, <1>5, <1>6, <1>7, <1>8, <1>9 DEF Invariant

\* The main thread waits for the tasks it has handed over, if any.
LEMMA WaitForTasksKeeps ==
  ASSUME Invariant, WaitForTasks
  PROVE  Invariant'
<1> USE DEF WaitForTasks, workers, history
<1>1. TypeOK'
  BY WaitBound DEF Invariant, TypeOK
<1>2. SignalledMeansWork' /\ Queue' /\ Phases' /\ Telling'
  BY DEF Invariant, SignalledMeansWork, Queue, Phases, Telling
<1>3. Holding' /\ Living'
  BY DEF Invariant, Holding, Living, Creating
<1>4. Counting'
  BY DEF Invariant, Counting, Creating, Closed, Started, Counted
<1> QED BY <1>1, <1>2, <1>3, <1>4 DEF Invariant

\* A command that runs inside a wait hands its task over and waits in its turn.
LEMMA NestedCommandKeeps ==
  ASSUME Invariant, NestedCommand
  PROVE  Invariant' /\ addedTasks' \in Nat /\ addedTasks' > addedTasks
<1>0. main = "wait" /\ batch = "work" /\ ~Creating /\ Enqueue(1) /\ waits < MaxWaits
  BY DEF NestedCommand, Invariant, Phases, Creating
<1>1. /\ addedTasks' = addedTasks + 1
      /\ tasks' \in Seq(Nat \ {0}) /\ Len(tasks') = Len(tasks) + 1
      /\ addedTasks' - Len(tasks') = addedTasks - Len(tasks)
      /\ Queue' /\ SignalledMeansWork' /\ signalled' \in BOOLEAN
  BY <1>0, Enqueued DEF Invariant
<1>2. addedTasks \in Nat /\ Len(tasks) \in Nat
  BY EmptyLength DEF Invariant, TypeOK
<1>3. result' = IF addedTasks = 0 THEN 0 ELSE result
  BY <1>0 DEF Enqueue
<1>4. UNCHANGED <<numThreads, closingThreads, doneTasks, locking, main, target,
                  spawned, batch, pc, held, left, freed, settled, failed>>
  BY DEF NestedCommand, workers, history
<1>5. totalTasks' = addedTasks' /\ waits' = waits + 1
  BY DEF NestedCommand
<1>6. TypeOK'
  <2>1. waits' \in 0..MaxWaits
    BY <1>0, <1>5, WaitBound DEF Invariant, TypeOK
  <2> QED BY <1>1, <1>2, <1>3, <1>4, <1>5, <2>1, SMTT(30) DEF Invariant, TypeOK
<1>7. Phases'
  BY <1>0, <1>1, <1>4, <1>5, WaitBound, SMTT(30) DEF Invariant, Phases, TypeOK
<1>8. Holding'
  BY <1>1, <1>4 DEF Invariant, Holding
<1>9. Living' /\ Counting'
  BY <1>0, <1>4 DEF Invariant, Living, Counting, Creating
<1>10. Telling'
  BY <1>0, <1>1, <1>2, <1>3, <1>4 DEF Invariant, Telling, Failed
<1> QED BY <1>1, <1>2, <1>6, <1>7, <1>8, <1>9, <1>10 DEF Invariant

\* The number of threads changes only between two batches.
LEMMA SetNumThreadsKeeps ==
  ASSUME Invariant, NEW n \in 0..MaxThreads, SetNumThreads(n)
  PROVE  Invariant'
<1> USE DEF SetNumThreads, workers, counters, history
<1>1. TypeOK'
  BY DEF Invariant, TypeOK
<1>2. SignalledMeansWork' /\ Queue' /\ Phases' /\ Telling'
  BY DEF Invariant, SignalledMeansWork, Queue, Phases, Telling
<1>3. Holding' /\ Living'
  BY DEF Invariant, Holding, Living, Creating
<1>4. Counting'
  BY DEF Invariant, Counting, Creating, Closed, Started, Counted
<1> QED BY <1>1, <1>2, <1>3, <1>4 DEF Invariant

\* The tasks CloseThread are a batch of their own, of which none has run.
LEMMA CloseThreadsKeeps ==
  ASSUME Invariant, CloseThreads
  PROVE  Invariant' /\ addedTasks' \in Nat /\ addedTasks' > addedTasks
<1>0. /\ addedTasks = 0 /\ batch = "work" /\ ~Creating /\ numThreads \in Nat \ {0}
      /\ Enqueue(numThreads)
  BY DEF CloseThreads, Invariant, Phases, Creating, TypeOK
<1>1. /\ addedTasks' = addedTasks + numThreads
      /\ tasks' \in Seq(Nat \ {0}) /\ Len(tasks') = Len(tasks) + numThreads
      /\ addedTasks' - Len(tasks') = addedTasks - Len(tasks)
      /\ Queue' /\ SignalledMeansWork' /\ signalled' \in BOOLEAN
  BY <1>0, Enqueued DEF Invariant
<1>2. /\ tasks = <<>> /\ Len(tasks) = 0 /\ settled = {} /\ ~failed /\ doneTasks = 0
      /\ \A w \in Workers : held[w] = 0 /\ pc[w] \notin {"run", "abort", "aborted"}
  BY <1>0, NoBatch
<1>3. result' = 0
  BY <1>0 DEF Enqueue
<1>4. UNCHANGED <<numThreads, closingThreads, doneTasks, locking, target, spawned, pc, held,
                  left, freed, settled, failed>>
  BY DEF CloseThreads, workers, history
<1>5. totalTasks' = addedTasks' /\ batch' = "close" /\ waits' = 1 /\ main' = "wait"
  BY DEF CloseThreads
<1>6. TypeOK'
  BY <1>0, <1>1, <1>3, <1>4, <1>5, WaitBound, SMTT(30) DEF Invariant, TypeOK
<1>7. Phases'
  BY <1>0, <1>1, <1>4, <1>5 DEF Phases
<1>8. Holding'
  BY <1>1, <1>4 DEF Invariant, Holding
<1>9. Living'
  BY <1>0, <1>2, <1>4, <1>5 DEF Invariant, Living, Creating
<1>10. Counting'
  <2>1. Closed' = {}
    BY <1>2, <1>4 DEF Closed
  <2> QED BY <1>2, <1>3, <1>4, <1>5, <2>1, FS_EmptySet DEF Counting, Creating
<1>11. Telling'
  BY <1>2, <1>4, <1>5 DEF Telling
<1> QED BY <1>0, <1>1, <1>6, <1>7, <1>8, <1>9, <1>10, <1>11 DEF Invariant

\* A wait for tasks ends when the settled ones are all that were handed over.
LEMMA AllSettled ==
  ASSUME Invariant, main = "wait", doneTasks = totalTasks, batch # "create"
  PROVE  /\ settled = 1..addedTasks /\ tasks = <<>>
         /\ \A w \in Workers : held[w] = 0 /\ pc[w] \notin {"run", "abort", "aborted"}
<1>1. addedTasks \in Nat /\ Len(tasks) \in Nat
  BY EmptyLength DEF Invariant, TypeOK
<1>2. CASE addedTasks = 0
  <2>1. settled = {} /\ 1..addedTasks = {}
    BY <1>2, NoBatch
  <2> QED BY <1>2, <2>1, NoBatch
<1>3. CASE addedTasks # 0
  <2>1. Cardinality(settled) = addedTasks
    BY <1>3 DEF Invariant, Phases, Counting, Creating
  <2>2. IsFiniteSet(1..(addedTasks - Len(tasks))) /\ Len(tasks) <= addedTasks
    BY <1>1, FS_Interval DEF Invariant, Queue
  <2>3. Cardinality(1..(addedTasks - Len(tasks))) = addedTasks - Len(tasks)
    BY <1>1, <2>2, FS_Interval
  <2>4. Cardinality(settled) <= addedTasks - Len(tasks)
    <3>1. settled \in SUBSET (1..(addedTasks - Len(tasks)))
      BY DEF Invariant, Holding
    <3> QED BY <2>2, <2>3, <3>1, FS_Subset
  <2>5. Len(tasks) = 0
    BY <1>1, <2>1, <2>4
  <2>6. settled = 1..addedTasks
    <3>1. addedTasks - Len(tasks) = addedTasks
      BY <1>1, <2>5
    <3> QED BY <2>1, <2>2, <2>3, <3>1, FS_Subset DEF Invariant, Holding
  <2>7. tasks = <<>>
    BY <2>5, EmptyLength DEF Invariant, TypeOK
  <2>8. ASSUME NEW w \in Workers PROVE held[w] = 0
    <3>1. held[w] \in Nat /\ held[w] <= addedTasks /\ held[w] \notin 1..addedTasks
      BY <1>1, <2>5, <2>6 DEF Invariant, Holding, TypeOK
    <3> QED BY <1>1, <3>1
  <2> QED BY <2>6, <2>7, <2>8 DEF Invariant, Holding
<1> QED BY <1>2, <1>3

\* A wait for threads ends when all of them have counted themselves twice.
LEMMA AllCreated ==
  ASSUME Invariant, main = "wait", doneTasks = totalTasks, batch = "create"
  PROVE  /\ result = numThreads
         /\ \A w \in Workers : pc[w] \notin {"start", "created"}
<1>1. Creating /\ numThreads \in Nat \ {0} /\ numThreads <= MaxThreads
      /\ totalTasks = numThreads
  BY DEF Invariant, Phases, Creating, TypeOK
<1>2. IsFiniteSet(1..numThreads) /\ Cardinality(1..numThreads) = numThreads
  BY <1>1, FS_Interval
<1>3. Counted \subseteq Started /\ Started \subseteq 1..numThreads
  <2>1. ASSUME NEW w \in Started PROVE w \in 1..numThreads
    <3>1. w \in Workers /\ pc[w] # "none"
      BY DEF Started
    <3>2. w <= numThreads
      BY <3>1 DEF Invariant, Living
    <3> QED BY <1>1, <3>1, <3>2, SizeAssumption DEF Workers
  <2> QED BY <2>1 DEF Started, Counted
<1>4. Cardinality(Counted) = numThreads
  BY <1>1 DEF Invariant, Counting
<1>5. Counted = 1..numThreads
  BY <1>2, <1>3, <1>4, FS_Subset
<1>6. Started = 1..numThreads
  BY <1>3, <1>5
<1>7. result = numThreads
  BY <1>1, <1>2, <1>6 DEF Invariant, Counting
<1>8. ASSUME NEW w \in Workers PROVE pc[w] \notin {"start", "created"}
  <2>1. pc[w] # "none" => w \in Counted
    <3>1. pc[w] # "none" => w <= numThreads
      BY DEF Invariant, Living
    <3> QED BY <1>1, <1>5, <3>1, SizeAssumption DEF Workers
  <2> QED BY <2>1 DEF Counted
<1> QED BY <1>7, <1>8

\* When a wait ends there is no batch any more, and nothing is left of it.
LEMMA WaitEndsKeeps ==
  ASSUME Invariant, WaitEnds
  PROVE  Invariant'
<1> USE DEF WaitEnds, workers, AfterWait
<1>1. /\ tasks = <<>> /\ Len(tasks) = 0
      /\ \A w \in Workers : held[w] = 0 /\ pc[w] \notin {"run", "abort", "aborted"}
  <2>1. CASE batch = "create"
    BY <2>1, EmptyLength DEF Invariant, TypeOK, Living, Creating, Holding
  <2>2. CASE batch # "create"
    BY <2>2, AllSettled, EmptyLength DEF Invariant, TypeOK
  <2> QED BY <2>1, <2>2
<1>2. \A w \in Workers : pc[w] \notin {"start", "created"}
  BY AllCreated DEF Invariant, Living, Creating
<1>3. waits \in 1..MaxWaits /\ numThreads > 0 /\ (batch # "work" => waits = 1)
  BY WaitBound DEF Invariant, Phases, TypeOK
<1>4. main' \in {"idle", "wait", "join"} /\ (main' = "wait" => waits' > 0) /\ ~Creating'
  BY <1>3 DEF Creating
<1>5. TypeOK'
  <2>1. waits' \in 0..MaxWaits /\ totalTasks' = NoWait
    BY <1>3, WaitBound
  <2>2. locking' \in BOOLEAN
    BY DEF Invariant, TypeOK
  <2> QED BY <1>4, <2>1, <2>2 DEF Invariant, TypeOK
<1>6. SignalledMeansWork' /\ Phases'
  BY <1>3, <1>4 DEF Invariant, SignalledMeansWork, Phases
<1>7. Queue' /\ Holding'
  BY <1>1 DEF Invariant, Queue, Holding
<1>8. Living'
  BY <1>1, <1>2, <1>4 DEF Invariant, Living
<1>9. Counting'
  BY <1>4, FS_EmptySet DEF Counting
<1>10. Telling'
  <2>1. ASSUME main' \in {"idle", "wait"} PROVE locking' \/ numThreads' = 1
    <3>1. CASE batch = "create"
      BY <3>1
    <3>2. CASE batch = "work"
      BY <1>3, <3>2 DEF Invariant, Telling
    <3>3. CASE batch = "close"
      BY <1>3, <2>1, <3>3
    <3> QED BY <3>1, <3>2, <3>3 DEF Invariant, TypeOK
  <2> QED BY <2>1 DEF Telling
<1> QED BY <1>5, <1>6, <1>7, <1>8, <1>9, <1>10 DEF Invariant

\* The threads that are joined are gone, and others are created or none.
LEMMA JoinKeeps ==
  ASSUME Invariant, Join
  PROVE  Invariant'
<1> USE DEF Join, BeginCreate, history
<1>1. addedTasks = 0 /\ batch = "work" /\ totalTasks = NoWait /\ ~Creating
  BY DEF Invariant, Phases, Creating
<1>2. /\ tasks = <<>> /\ Len(tasks) = 0 /\ settled = {} /\ ~failed /\ doneTasks = 0
      /\ \A w \in Workers : held[w] = 0
  BY <1>1, NoBatch
<1>3. \A w \in Workers : pc'[w] = "none"
  OBVIOUS
<1>4. main' = "ended" \/ (main' = "spawn" /\ numThreads' \in 1..MaxThreads /\ spawned' = 0 /\ result' = 0)
  BY SizeAssumption DEF Invariant, TypeOK
<1>5. TypeOK'
  <2>1. numThreads' \in 0..MaxThreads /\ spawned' \in 0..MaxThreads
    BY <1>4, SizeAssumption DEF Invariant, TypeOK
  <2>2. result' \in Nat \cup {Failed}
    BY DEF Invariant, TypeOK
  <2>3. closingThreads' \in BOOLEAN
    BY DEF Invariant, TypeOK
  <2>4. pc' \in [Workers -> {"none", "start", "created", "wait", "get", "run", "abort",
                             "aborted", "test", "exited"}]
    OBVIOUS
  <2> QED BY <1>4, <2>1, <2>2, <2>3, <2>4 DEF Invariant, TypeOK
<1>6. SignalledMeansWork' /\ Queue' /\ Phases'
  BY <1>1, <1>2, <1>4, SizeAssumption DEF Invariant, SignalledMeansWork, Queue, Phases, TypeOK
<1>7. Holding'
  BY <1>2, <1>3 DEF Invariant, Holding
<1>8. Living'
  BY <1>2, <1>3 DEF Living
<1>9. Counting'
  <2>1. Started' = {} /\ Counted' = {}
    BY <1>3 DEF Started, Counted
  <2> QED BY <1>1, <1>2, <1>4, <2>1, FS_EmptySet DEF Counting, Creating
<1>10. Telling'
  BY <1>1, <1>2, <1>4 DEF Telling
<1> QED BY <1>5, <1>6, <1>7, <1>8, <1>9, <1>10 DEF Invariant

\* Every step keeps the invariant.
LEMMA StepsKeep == Invariant /\ [Next]_vars => Invariant'
<1> SUFFICES ASSUME Invariant, [Next]_vars PROVE Invariant'
  OBVIOUS
<1>1. CASE MainStep
  BY <1>1, SpawnKeeps, WaitForThreadsKeeps, CloseThreadsKeeps, WaitEndsKeeps, JoinKeeps DEF MainStep
<1>2. CASE Command
  <2>1. ASSUME NEW n \in 1..MaxTasks PROVE n \in Nat \ {0}
    BY <2>1
  <2> QED BY <1>2, <2>1, StartThreadsKeeps, AddTasksKeeps, WaitForTasksKeeps, NestedCommandKeeps,
             SetNumThreadsKeeps DEF Command
<1>3. CASE \E w \in Workers : WorkerStep(w)
  BY <1>3, WorkersKeep
<1>4. CASE UNCHANGED vars
  BY <1>4 DEF vars, counters, workers, history, Invariant, TypeOK, SignalledMeansWork, Phases, Queue,
              Holding, Living, Counting, Telling, Creating, Started, Counted, Closed
<1> QED BY <1>1, <1>2, <1>3, <1>4 DEF Next, Ended

-----------------------------------------------------------------------------
(* What the program may rely on. *)

\* The inductive invariant holds for any number of threads and tasks.
THEOREM InvariantHolds == Spec => []Invariant
<1>1. Init => Invariant
  BY Initially
<1>2. Invariant /\ [Next]_vars => Invariant'
  BY StepsKeep
<1> QED BY <1>1, <1>2, PTL DEF Spec

\* No worker is created past MAX_NUMTHREADS and none is in a place that its
\* loop does not have.
THEOREM TypesHold == Spec => []TypeOK
<1>1. Invariant => TypeOK
  BY DEF Invariant
<1> QED BY <1>1, InvariantHolds, PTL

\* No wakeup is lost: td.activity is set if and only if td.tasks is not empty.
THEOREM NoWakeupIsLost == Spec => []SignalledMeansWork
<1>1. Invariant => SignalledMeansWork
  BY DEF Invariant
<1> QED BY <1>1, InvariantHolds, PTL

\* The evaluation functions without locking are in use only while one worker at
\* most computes.
THEOREM OneWithoutLocks == Spec => []AloneWithoutLocks
<1>1. Invariant => AloneWithoutLocks
  <2> SUFFICES ASSUME Invariant, ~locking,
                      NEW v \in Workers, NEW w \in Workers,
                      pc[v] = "run", pc[w] = "run", batch = "work"
               PROVE  v = w
    BY DEF AloneWithoutLocks
  <2>1. main \in {"idle", "wait"} /\ addedTasks # 0
    BY Working
  <2>2. numThreads = 1
    BY <2>1 DEF Invariant, TypeOK, Telling, Phases
  <2>3. v <= 1 /\ w <= 1
    BY <2>2 DEF Invariant, Living
  <2> QED BY <2>3 DEF Workers
<1> QED BY <1>1, InvariantHolds, PTL

\* MT_WaitForTasks tells -1 when a task of its batch failed and at no other
\* time, and the number of threads when these were created or closed.
THEOREM ResultsAreTold == Spec => ResultIsTold
<1>1. ASSUME Invariant, [Next]_vars, main = "wait", main' # "wait"
      PROVE  IF batch # "work" THEN result = numThreads
             ELSE addedTasks > 0 => (result = Failed <=> failed)
  <2>1. WaitEnds
    BY <1>1 DEF Next, MainStep, Command, Ended, vars, Spawn, WaitForThreads, CloseThreads, Join,
                StartThreads, AddTasks, WaitForTasks, NestedCommand, SetNumThreads, WorkerStep,
                Start, Created, Wake, GetTask, GetNothing, Compute, BeginAbort, DropTask, EndAbort,
                FailBatch, CloseThread, Finish, Test, poolOf
  <2>2. doneTasks = totalTasks
    BY <2>1 DEF WaitEnds
  <2>3. CASE batch = "create"
    BY <1>1, <2>2, <2>3, AllCreated
  <2>4. CASE batch = "close"
    <3>1. settled = 1..addedTasks /\ \A w \in Workers : held[w] = 0
      BY <1>1, <2>2, <2>4, AllSettled
    <3>2. Closed = 1..addedTasks /\ addedTasks = numThreads /\ result = Cardinality(Closed)
      BY <1>1, <2>4, <3>1 DEF Invariant, Phases, Counting, Closed
    <3>3. Cardinality(1..numThreads) = numThreads
      BY FS_Interval, <1>1 DEF Invariant, TypeOK
    <3> QED BY <2>4, <3>2, <3>3
  <2>5. CASE batch = "work"
    BY <1>1, <2>5 DEF Invariant, Telling
  <2> QED BY <1>1, <2>3, <2>4, <2>5 DEF Invariant, TypeOK
<1>2. Invariant /\ [Next]_vars
      => [main = "wait" /\ main' # "wait" =>
            IF batch # "work" THEN result = numThreads
            ELSE addedTasks > 0 => (result = Failed <=> failed)]_vars
  BY <1>1
<1> QED BY <1>2, InvariantHolds, PTL DEF Spec, ResultIsTold

\* The pool implements the fork and the join: a wait ends only when each task
\* handed over was counted done exactly once.
THEOREM JoinsTasks == Spec => TasksAreJoined
<1>1. Init => ForkedTasks!Init
  BY DEF Init, ForkedTasks!Init
<1>2. ASSUME Invariant, [Next]_vars
      PROVE  [ForkedTasks!Next]_ForkedTasks!joinVars
  <2> USE DEF ForkedTasks!joinVars, ForkedTasks!Next
  <2>1. ASSUME addedTasks' \in Nat, addedTasks' > addedTasks, batch # "create", batch' # "create",
               UNCHANGED settled
        PROVE  ForkedTasks!Submit
    BY <2>1 DEF ForkedTasks!Submit
  <2>2. CASE CloseThreads \/ NestedCommand \/ \E n \in 1..MaxTasks : AddTasks(n)
    <3>1. batch # "create" /\ batch' # "create" /\ UNCHANGED settled
      BY <1>2, <2>2 DEF CloseThreads, NestedCommand, AddTasks, history, Invariant, Phases
    <3>2. addedTasks' \in Nat /\ addedTasks' > addedTasks
      <4>1. \A n \in 1..MaxTasks : n \in Nat \ {0}
        OBVIOUS
      <4> QED BY <1>2, <2>2, <4>1, CloseThreadsKeeps, NestedCommandKeeps, AddTasksKeeps
    <3> QED BY <2>1, <3>1, <3>2
  <2>3. ASSUME NEW w \in Workers, DropTask(w) \/ Finish(w)
        PROVE  ForkedTasks!Next
    <3>1. PICK k \in (1..addedTasks) \ settled : TaskDone(k)
      BY <1>2, <2>3, DropTaskKeeps, FinishKeeps DEF DropTask, Finish
    <3>2. batch # "create"
      BY <1>2, <2>3, Working DEF DropTask, Finish, Go
    <3>3. UNCHANGED <<addedTasks, batch>>
      BY <2>3 DEF DropTask, Finish, poolOf
    <3>4. ForkedTasks!Settle(k)
      BY <3>1, <3>2, <3>3 DEF ForkedTasks!Settle, TaskDone
    <3> QED BY <3>1, <3>2, <3>4
  <2>4. CASE WaitEnds
    <3>1. batch = "create" => settled = {}
      BY <1>2 DEF Invariant, Living, Creating
    <3>2. batch # "create" => settled = 1..addedTasks
      BY <1>2, <2>4, AllSettled DEF WaitEnds
    <3>3. 1..0 = {}
      OBVIOUS
    <3>4. ForkedTasks!Join
      BY <2>4, <3>1, <3>2, <3>3 DEF ForkedTasks!Join, WaitEnds
    <3> QED BY <3>4
  <2>5. CASE WaitForThreads
    <3>1. batch # "create" /\ addedTasks = 0
      BY <1>2, <2>5 DEF Invariant, Phases, WaitForThreads
    <3> QED BY <2>5, <3>1 DEF WaitForThreads, history
  <2>6. CASE Spawn \/ Join
    BY <2>6 DEF Spawn, Join, counters, history
  <2>7. CASE WaitForTasks \/ (\E n \in Workers : StartThreads(n))
             \/ \E n \in 0..MaxThreads : SetNumThreads(n)
    BY <2>7 DEF WaitForTasks, StartThreads, SetNumThreads, counters, history
  <2>8. ASSUME NEW w \in Workers, WorkerStep(w), ~DropTask(w), ~Finish(w)
        PROVE  UNCHANGED <<addedTasks, batch, settled>>
    BY <2>8 DEF WorkerStep, Start, Created, Wake, GetTask, GetNothing, Compute, BeginAbort, EndAbort,
                FailBatch, CloseThread, Test, poolOf, history
  <2>9. CASE UNCHANGED vars
    BY <2>9 DEF vars, counters, history
  <2> QED BY <1>2, <2>2, <2>3, <2>4, <2>5, <2>6, <2>7, <2>8, <2>9 DEF Next, MainStep, Command, Ended
<1> QED BY <1>1, <1>2, InvariantHolds, PTL DEF Spec, TasksAreJoined, ForkedTasks!Spec

=============================================================================
