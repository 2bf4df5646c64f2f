-------------------------- MODULE SyncBarrierProofs --------------------------
(***************************************************************************)
(* The two barriers of the calibration hold any number of threads together *)
(* as long as no wait expires.  An iteration has three phases: the threads *)
(* gather at the first barrier; they leave it and gather at the second;    *)
(* they leave that one.  A barrier is left by all before any thread can be *)
(* the last to come to the other.                                          *)
(***************************************************************************)
EXTENDS SyncBarrier, FiniteSetTheorems, TLAPS

\* The threads that count[b] counts.
Inside(b) == {t \in Threads : at[t] = b /\ pc[t] \in {"last", "write", "await", "leave"}}
Resting == {t \in Threads : pc[t] = "rest"}

\* The counters are what they stand for: no decrement was lost.
Counting == \A b \in Barriers : count[b] = Cardinality(Inside(b))

\* Threads come to barrier b and wait.  The last one is alone with threads that
\* wait, so that what it read for its count-- is still the value.
Gathers(b) ==
    /\ ~signalled[b]
    /\ \A t \in Threads : at[t] = b => pc[t] \notin {"leave", "reset"}
    /\ \A t \in Threads : at[t] = b /\ pc[t] \in {"last", "write", "set"} =>
         \A u \in Threads \ {t} : at[u] = b /\ pc[u] = "await"
    /\ \A t \in Threads : at[t] = b /\ pc[t] = "write" => read[t] = count[b]

\* Threads leave barrier b, and its event is set until the last of them is
\* about to go.
Leaves(b) ==
    /\ \A t \in Threads : at[t] = b => pc[t] \notin {"arrive", "last", "write", "set"}
    /\ signalled[b] <=> \E t \in Threads : at[t] = b /\ pc[t] \in {"await", "leave", "reset"}
    /\ \A t \in Threads : at[t] = b /\ pc[t] = "reset" =>
         \A u \in Threads \ {t} : ~(at[u] = b /\ pc[u] \in {"await", "leave", "reset"})

First == /\ Gathers("start") /\ ~signalled["end"]
         /\ todo = Cardinality(Resting)
         /\ \A t \in Threads : pc[t] = "rest" \/ (at[t] = "start" /\ pc[t] # "eval")

Second == /\ Leaves("start") /\ Gathers("end")
          /\ todo = 0
          /\ \A t \in Threads : pc[t] # "rest" /\ (pc[t] = "eval" => at[t] = "start")

Third == /\ Leaves("end") /\ ~signalled["start"]
         /\ todo = 0
         /\ \A t \in Threads : pc[t] = "rest" \/ (at[t] = "end" /\ pc[t] # "eval")

Invariant == TypeOK /\ Counting /\ (First \/ Second \/ Third)

-----------------------------------------------------------------------------
(* Counting threads. *)

\* The size of a set of threads tells whether it is empty or has them all.
LEMMA Sizes ==
  ASSUME NEW S \in SUBSET Threads
  PROVE  /\ IsFiniteSet(S) /\ Cardinality(S) \in 0..numThreads
         /\ Cardinality(S) = numThreads <=> S = Threads
         /\ Cardinality(S) = 0 <=> S = {}
<1>1. IsFiniteSet(S) /\ Cardinality(S) <= numThreads /\ (Cardinality(S) = numThreads => S = Threads)
  BY ThreadsAssumption, FS_Subset
<1>2. Cardinality(S) \in Nat /\ numThreads \in Nat
  BY <1>1, ThreadsAssumption, FS_CardinalityType
<1>3. Cardinality(S) = 0 <=> S = {}
  BY <1>1, FS_EmptySet
<1>4. S = Threads => Cardinality(S) = numThreads
  BY ThreadsAssumption
<1> QED BY <1>1, <1>2, <1>3, <1>4

\* A thread is never alone.
LEMMA Others ==
  ASSUME NEW t \in Threads
  PROVE  \E u \in Threads : u # t
<1> SUFFICES ASSUME Threads = {t} PROVE FALSE
  OBVIOUS
<1>1. Cardinality({t}) = 1
  BY FS_Singleton
<1> QED BY <1>1, ThreadsAssumption

\* A thread that comes to a set of threads makes it larger by one.
LEMMA OneMore ==
  ASSUME NEW S \in SUBSET Threads, NEW t \in Threads \ S
  PROVE  Cardinality(S \cup {t}) = Cardinality(S) + 1
BY Sizes, FS_AddElement

\* A thread that leaves a set of threads makes it smaller by one.
LEMMA OneLess ==
  ASSUME NEW S \in SUBSET Threads, NEW t \in S
  PROVE  Cardinality(S \ {t}) = Cardinality(S) - 1
BY Sizes, FS_RemoveElement

\* A thread goes from a place to another, and no other does.
LEMMA Moves ==
  ASSUME TypeOK, NEW t \in Threads, NEW from, NEW to, Go(t, from, to)
  PROVE  /\ pc[t] = from /\ pc'[t] = to
         /\ \A u \in Threads \ {t} : pc'[u] = pc[u]
BY DEF Go, TypeOK

\* The counters are never out of range.
LEMMA InRange ==
  ASSUME Counting
  PROVE  \A b \in Barriers : /\ count[b] \in 0..numThreads
                             /\ count[b] = 0 <=> Inside(b) = {}
                             /\ count[b] = numThreads <=> Inside(b) = Threads
<1>1. \A b \in Barriers : Inside(b) \in SUBSET Threads
  BY DEF Inside
<1> QED BY <1>1, Sizes DEF Counting

-----------------------------------------------------------------------------
(* Every step preserves the invariant. *)

\* The first threads gather.
LEMMA Initially == Init => Invariant
<1> SUFFICES ASSUME Init PROVE Invariant
  OBVIOUS
<1> USE DEF Init
<1>1. 0 \in 0..numThreads /\ numThreads \in 0..numThreads /\ Cardinality({}) = 0
  BY Sizes, ThreadsAssumption, FS_EmptySet
<1>2. TypeOK
  BY <1>1 DEF TypeOK, Barriers
<1>3. Counting
  <2>1. \A b \in Barriers : Inside(b) = {}
    BY DEF Inside
  <2> QED BY <1>1, <2>1 DEF Counting
<1>4. First
  <2>1. Resting = Threads
    BY DEF Resting
  <2> QED BY <2>1, ThreadsAssumption DEF First, Gathers, Barriers
<1> QED BY <1>2, <1>3, <1>4 DEF Invariant

\* A task is taken while the threads gather at the first barrier.
LEMMA TakeTaskKeeps ==
  ASSUME Invariant, NEW t \in Threads, TakeTask(t)
  PROVE  Invariant'
<1>1. /\ pc[t] = "rest" /\ pc'[t] = "arrive" /\ \A u \in Threads \ {t} : pc'[u] = pc[u]
      /\ at'[t] = "start" /\ \A u \in Threads \ {t} : at'[u] = at[u]
      /\ UNCHANGED <<count, signalled, read>>
  BY Moves DEF Invariant, TakeTask, TypeOK
<1>2. todo > 0 /\ todo' = todo - 1 /\ todo \in 0..numThreads /\ numThreads \in Nat
  BY Sizes, ThreadsAssumption DEF TakeTask, Invariant, TypeOK
<1>3. First
  BY <1>2 DEF Invariant, Second, Third
<1>4. TypeOK'
  BY <1>2 DEF Invariant, TypeOK, TakeTask, Go, Barriers
<1>5. Counting'
  <2>1. \A b \in Barriers : Inside(b)' = Inside(b)
    BY <1>1 DEF Inside
  <2> QED BY <1>1, <2>1 DEF Invariant, Counting
<1>6. First'
  <2>1. Resting' = Resting \ {t} /\ t \in Resting /\ Resting \subseteq Threads
    BY <1>1 DEF Resting
  <2>2. todo' = Cardinality(Resting')
    BY <1>2, <1>3, <2>1, OneLess DEF First
  <2>3. Gathers("start")'
    BY <1>1, <1>3 DEF First, Gathers
  <2> QED BY <1>1, <1>3, <2>2, <2>3 DEF First
<1> QED BY <1>4, <1>5, <1>6 DEF Invariant

\* A thread comes to the second barrier while others may still leave the first.
LEMMA EvaluateKeeps ==
  ASSUME Invariant, NEW t \in Threads, Evaluate(t)
  PROVE  Invariant'
<1>1. /\ pc[t] = "eval" /\ pc'[t] = "arrive" /\ \A u \in Threads \ {t} : pc'[u] = pc[u]
      /\ at'[t] = "end" /\ \A u \in Threads \ {t} : at'[u] = at[u]
      /\ UNCHANGED <<count, signalled, todo, read>>
  BY Moves DEF Invariant, Evaluate, TypeOK
<1>2. Second
  BY <1>1 DEF Invariant, First, Third
<1>3. TypeOK'
  BY DEF Invariant, TypeOK, Evaluate, Go, Barriers
<1>4. Counting'
  <2>1. \A b \in Barriers : Inside(b)' = Inside(b)
    BY <1>1 DEF Inside
  <2> QED BY <1>1, <2>1 DEF Invariant, Counting
<1>5. Leaves("start")'
  BY <1>1, <1>2 DEF Second, Leaves
<1>6. Gathers("end")'
  BY <1>1, <1>2 DEF Second, Gathers
<1> QED BY <1>1, <1>2, <1>3, <1>4, <1>5, <1>6 DEF Invariant, Second

\* The thread that makes the counter full is alone with threads that wait.
LEMMA ArriveKeeps ==
  ASSUME Invariant, NEW t \in Threads, Arrive(t)
  PROVE  Invariant'
<1> DEFINE b == at[t]
<1>1. /\ pc[t] = "arrive" /\ \A u \in Threads \ {t} : pc'[u] = pc[u]
      /\ pc'[t] = IF count[b] + 1 = numThreads THEN "last" ELSE "await"
      /\ UNCHANGED <<at, signalled, todo, read>> /\ b \in Barriers
  BY Moves DEF Invariant, Arrive, TypeOK
<1>2. count'[b] = count[b] + 1 /\ \A c \in Barriers \ {b} : count'[c] = count[c]
  BY <1>1 DEF Arrive, Invariant, TypeOK
<1>3. (First /\ b = "start") \/ (Second /\ b = "end")
  BY <1>1 DEF Invariant, First, Second, Third, Leaves, Barriers
<1>4. Gathers(b) /\ \A u \in Threads : at[u] = b => pc[u] \notin {"last", "write", "set"}
  BY <1>1, <1>3 DEF First, Second, Gathers
<1>5. Inside(b)' = Inside(b) \cup {t} /\ t \notin Inside(b) /\ Inside(b) \subseteq Threads
  BY <1>1 DEF Inside
<1>6. Counting'
  <2>1. \A c \in Barriers \ {b} : Inside(c)' = Inside(c)
    BY <1>1 DEF Inside
  <2>2. Cardinality(Inside(b)') = Cardinality(Inside(b)) + 1
    BY <1>5, OneMore
  <2> QED BY <1>1, <1>2, <2>1, <2>2 DEF Invariant, Counting
<1>7. TypeOK'
  <2>1. \A c \in Barriers : count'[c] \in 0..numThreads
    BY <1>6, Sizes DEF Counting, Inside
  <2> QED BY <2>1 DEF Invariant, TypeOK, Arrive, Go
<1>8. pc'[t] = "last" => \A u \in Threads \ {t} : at[u] = b /\ pc[u] = "await"
  <2>1. ASSUME pc'[t] = "last" PROVE Inside(b)' = Threads
    <3>1. count'[b] = numThreads
      BY <1>1, <1>2, <2>1
    <3>2. Inside(b)' \subseteq Threads
      BY DEF Inside
    <3> QED BY <1>1, <1>6, <3>1, <3>2, Sizes DEF Counting
  <2> QED BY <1>4, <1>5, <2>1 DEF Gathers, Inside
<1>9. Gathers(b)'
  BY <1>1, <1>4, <1>8 DEF Gathers
<1>10. CASE First /\ b = "start"
  <2>1. Resting' = Resting
    BY <1>1 DEF Resting
  <2>2. First'
    BY <1>1, <1>9, <1>10, <2>1 DEF First
  <2> QED BY <1>6, <1>7, <2>2 DEF Invariant
<1>11. CASE Second /\ b = "end"
  <2>1. Leaves("start")'
    BY <1>1, <1>11 DEF Second, Leaves
  <2>2. Second'
    BY <1>1, <1>9, <1>11, <2>1 DEF Second
  <2> QED BY <1>6, <1>7, <2>2 DEF Invariant
<1> QED BY <1>3, <1>10, <1>11

\* A thread that has arrived last is in one of the phases in which threads
\* gather at its barrier, and the others wait there.
LEMMA LastAlone ==
  ASSUME Invariant, NEW t \in Threads, pc[t] \in {"last", "write", "set"}
  PROVE  /\ at[t] \in Barriers /\ Gathers(at[t])
         /\ (First /\ at[t] = "start") \/ (Second /\ at[t] = "end")
         /\ \A u \in Threads \ {t} : at[u] = at[t] /\ pc[u] = "await"
<1>1. at[t] \in Barriers
  BY DEF Invariant, TypeOK
<1>2. (First /\ at[t] = "start") \/ (Second /\ at[t] = "end")
  BY <1>1 DEF Invariant, First, Second, Third, Leaves, Barriers
<1>3. Gathers(at[t])
  BY <1>2 DEF First, Second
<1> QED BY <1>1, <1>2, <1>3 DEF Gathers

\* It reads the counter.
LEMMA ReadCountKeeps ==
  ASSUME Invariant, NEW t \in Threads, ReadCount(t)
  PROVE  Invariant'
<1>1. /\ pc[t] = "last" /\ pc'[t] = "write" /\ \A u \in Threads \ {t} : pc'[u] = pc[u]
      /\ UNCHANGED <<count, signalled, todo, at>>
      /\ read'[t] = count[at[t]] /\ \A u \in Threads \ {t} : read'[u] = read[u]
  BY Moves DEF Invariant, ReadCount, TypeOK
<1>2. /\ at[t] \in Barriers /\ Gathers(at[t])
      /\ (First /\ at[t] = "start") \/ (Second /\ at[t] = "end")
      /\ \A u \in Threads \ {t} : at[u] = at[t] /\ pc[u] = "await"
  BY <1>1, LastAlone
<1>3. TypeOK'
  BY <1>2 DEF Invariant, TypeOK, ReadCount, Go
<1>4. Counting'
  <2>1. \A c \in Barriers : Inside(c)' = Inside(c)
    BY <1>1 DEF Inside
  <2> QED BY <1>1, <2>1 DEF Invariant, Counting
<1>5. Gathers(at[t])'
  BY <1>1, <1>2 DEF Gathers
<1>6. CASE First /\ at[t] = "start"
  <2>1. Resting' = Resting
    BY <1>1 DEF Resting
  <2>2. First'
    BY <1>1, <1>5, <1>6, <2>1 DEF First
  <2> QED BY <1>3, <1>4, <2>2 DEF Invariant
<1>7. CASE Second /\ at[t] = "end"
  <2>1. Leaves("start")'
    BY <1>1, <1>7 DEF Second, Leaves
  <2>2. Second'
    BY <1>1, <1>5, <1>7, <2>1 DEF Second
  <2> QED BY <1>3, <1>4, <2>2 DEF Invariant
<1> QED BY <1>2, <1>6, <1>7

\* It writes what it read, less one: nobody came or left in between.
LEMMA WriteCountKeeps ==
  ASSUME Invariant, NEW t \in Threads, WriteCount(t)
  PROVE  Invariant'
<1> DEFINE b == at[t]
<1>1. /\ pc[t] = "write" /\ pc'[t] = "set" /\ \A u \in Threads \ {t} : pc'[u] = pc[u]
      /\ UNCHANGED <<read, signalled, todo, at>>
  BY Moves DEF Invariant, WriteCount, TypeOK
<1>2. /\ b \in Barriers /\ Gathers(b)
      /\ (First /\ b = "start") \/ (Second /\ b = "end")
      /\ \A u \in Threads \ {t} : at[u] = b /\ pc[u] = "await"
  BY <1>1, LastAlone
<1>3. count'[b] = count[b] - 1 /\ \A c \in Barriers \ {b} : count'[c] = count[c]
  <2>1. read[t] = count[b]
    BY <1>1, <1>2 DEF Gathers
  <2> QED BY <1>2, <2>1 DEF WriteCount, Invariant, TypeOK
<1>4. Inside(b)' = Inside(b) \ {t} /\ t \in Inside(b) /\ Inside(b) \subseteq Threads
  BY <1>1 DEF Inside
<1>5. Counting'
  <2>1. \A c \in Barriers \ {b} : Inside(c)' = Inside(c)
    BY <1>1 DEF Inside
  <2>2. Cardinality(Inside(b)') = Cardinality(Inside(b)) - 1
    BY <1>4, OneLess
  <2>3. count'[b] = Cardinality(Inside(b)')
    BY <1>2, <1>3, <2>2 DEF Invariant, Counting
  <2>4. \A c \in Barriers \ {b} : count'[c] = Cardinality(Inside(c)')
    BY <1>3, <2>1 DEF Invariant, Counting
  <2> QED BY <1>1, <2>3, <2>4 DEF Counting
<1>6. TypeOK'
  <2>1. \A c \in Barriers : count'[c] \in 0..numThreads
    BY <1>5, Sizes DEF Counting, Inside
  <2> QED BY <2>1 DEF Invariant, TypeOK, WriteCount, Go
<1>7. Gathers(b)'
  BY <1>1, <1>2 DEF Gathers
<1>8. CASE First /\ b = "start"
  <2>1. Resting' = Resting
    BY <1>1 DEF Resting
  <2>2. First'
    BY <1>1, <1>7, <1>8, <2>1 DEF First
  <2> QED BY <1>5, <1>6, <2>2 DEF Invariant
<1>9. CASE Second /\ b = "end"
  <2>1. Leaves("start")'
    BY <1>1, <1>9 DEF Second, Leaves
  <2>2. Second'
    BY <1>1, <1>7, <1>9, <2>1 DEF Second
  <2> QED BY <1>5, <1>6, <2>2 DEF Invariant
<1> QED BY <1>2, <1>8, <1>9

\* It lets the others go, and goes itself.
LEMMA SetEventKeeps ==
  ASSUME Invariant, NEW t \in Threads, SetEvent(t)
  PROVE  Invariant'
<1>1. /\ pc[t] = "set" /\ pc'[t] = Beyond(t) /\ \A u \in Threads \ {t} : pc'[u] = pc[u]
      /\ UNCHANGED <<read, count, todo, at>>
  BY Moves DEF Invariant, SetEvent, TypeOK
<1>2. /\ at[t] \in Barriers /\ Gathers(at[t])
      /\ (First /\ at[t] = "start") \/ (Second /\ at[t] = "end")
      /\ \A u \in Threads \ {t} : at[u] = at[t] /\ pc[u] = "await"
  BY <1>1, LastAlone
<1>3. signalled'[at[t]] /\ \A c \in Barriers \ {at[t]} : signalled'[c] = signalled[c]
  BY <1>2 DEF SetEvent, Invariant, TypeOK
<1>4. PICK u \in Threads : u # t
  BY Others
<1>5. TypeOK'
  BY DEF Invariant, TypeOK, SetEvent, Go, Beyond
<1>6. Counting'
  <2>1. \A c \in Barriers : Inside(c)' = Inside(c)
    BY <1>1 DEF Inside, Beyond
  <2> QED BY <1>1, <2>1 DEF Invariant, Counting
<1>7. Leaves(at[t])'
  BY <1>1, <1>2, <1>3, <1>4 DEF Leaves, Beyond
<1>8. CASE First /\ at[t] = "start"
  <2>1. Gathers("end")'
    BY <1>1, <1>2, <1>3, <1>8 DEF First, Gathers, Barriers, Beyond
  <2>2. todo' = 0
    <3>1. Resting = {}
      BY <1>1, <1>2 DEF Resting
    <3> QED BY <1>1, <1>8, <3>1, FS_EmptySet DEF First
  <2>3. Second'
    BY <1>1, <1>2, <1>7, <1>8, <2>1, <2>2 DEF Second, Beyond
  <2> QED BY <1>5, <1>6, <2>3 DEF Invariant
<1>9. CASE Second /\ at[t] = "end"
  <2>1. ~signalled["start"]
    BY <1>2, <1>9 DEF Second, Leaves
  <2>2. Third'
    BY <1>1, <1>2, <1>3, <1>7, <1>9, <2>1 DEF Third, Second, Beyond, Barriers
  <2> QED BY <1>5, <1>6, <2>2 DEF Invariant
<1> QED BY <1>2, <1>8, <1>9

\* A thread that is about to leave a barrier, or to reset its event, is in one
\* of the phases in which threads leave it.
LEMMA Leaving ==
  ASSUME Invariant, NEW t \in Threads,
         pc[t] \in {"leave", "reset"} \/ (pc[t] = "await" /\ signalled[at[t]])
  PROVE  /\ at[t] \in Barriers /\ Leaves(at[t])
         /\ (Second /\ at[t] = "start") \/ (Third /\ at[t] = "end")
<1>1. at[t] \in Barriers
  BY DEF Invariant, TypeOK
<1>2. (Second /\ at[t] = "start") \/ (Third /\ at[t] = "end")
  BY <1>1 DEF Invariant, First, Second, Third, Gathers, Barriers
<1> QED BY <1>1, <1>2 DEF Second, Third

\* No thread is let go before the last one has set the event: this is where a
\* wait that expires would do harm.
LEMMA AwaitKeeps ==
  ASSUME Invariant, NEW t \in Threads, Await(t), ~WaitExpires
  PROVE  Invariant'
<1>1. /\ pc[t] = "await" /\ pc'[t] = "leave" /\ \A u \in Threads \ {t} : pc'[u] = pc[u]
      /\ UNCHANGED <<read, count, signalled, todo, at>> /\ signalled[at[t]]
  BY Moves DEF Invariant, Await
<1>2. /\ at[t] \in Barriers /\ Leaves(at[t])
      /\ (Second /\ at[t] = "start") \/ (Third /\ at[t] = "end")
  BY <1>1, Leaving
<1>3. TypeOK'
  BY DEF Invariant, TypeOK, Await, Go
<1>4. Counting'
  <2>1. \A c \in Barriers : Inside(c)' = Inside(c)
    BY <1>1 DEF Inside
  <2> QED BY <1>1, <2>1 DEF Invariant, Counting
<1>5. Leaves(at[t])'
  BY <1>1, <1>2 DEF Leaves
<1>6. CASE Second /\ at[t] = "start"
  <2>1. Gathers("end")'
    BY <1>1, <1>6 DEF Second, Gathers
  <2>2. Second'
    BY <1>1, <1>5, <1>6, <2>1 DEF Second
  <2> QED BY <1>3, <1>4, <2>2 DEF Invariant
<1>7. CASE Third /\ at[t] = "end"
  <2>1. Third'
    BY <1>1, <1>5, <1>7 DEF Third
  <2> QED BY <1>3, <1>4, <2>1 DEF Invariant
<1> QED BY <1>2, <1>6, <1>7

\* The thread that brings the counter to zero is the last one to leave.
LEMMA LeaveKeeps ==
  ASSUME Invariant, NEW t \in Threads, Leave(t)
  PROVE  Invariant'
<1> DEFINE b == at[t]
<1>1. /\ pc[t] = "leave" /\ \A u \in Threads \ {t} : pc'[u] = pc[u]
      /\ pc'[t] = IF count[b] = 1 THEN "reset" ELSE Beyond(t)
      /\ UNCHANGED <<read, signalled, todo, at>>
  BY Moves DEF Invariant, Leave, TypeOK
<1>2. /\ b \in Barriers /\ Leaves(b)
      /\ (Second /\ b = "start") \/ (Third /\ b = "end")
  BY <1>1, Leaving
<1>3. count'[b] = count[b] - 1 /\ \A c \in Barriers \ {b} : count'[c] = count[c]
  BY <1>2 DEF Leave, Invariant, TypeOK
<1>4. Inside(b)' = Inside(b) \ {t} /\ t \in Inside(b) /\ Inside(b) \subseteq Threads
  BY <1>1 DEF Inside, Beyond
<1>5. Cardinality(Inside(b)') = Cardinality(Inside(b)) - 1
  BY <1>4, OneLess
<1>6. Counting'
  <2>1. \A c \in Barriers \ {b} : Inside(c)' = Inside(c)
    BY <1>1 DEF Inside, Beyond
  <2>2. count'[b] = Cardinality(Inside(b)')
    BY <1>2, <1>3, <1>5 DEF Invariant, Counting
  <2>3. \A c \in Barriers \ {b} : count'[c] = Cardinality(Inside(c)')
    BY <1>3, <2>1 DEF Invariant, Counting
  <2> QED BY <1>1, <2>2, <2>3 DEF Counting
<1>7. TypeOK'
  <2>1. \A c \in Barriers : count'[c] \in 0..numThreads
    BY <1>6, Sizes DEF Counting, Inside
  <2> QED BY <2>1 DEF Invariant, TypeOK, Leave, Go, Beyond
<1>8. count[b] = 1 <=> Inside(b) \ {t} = {}
  <2>1. Inside(b) \ {t} \in SUBSET Threads
    BY <1>4
  <2>2. Cardinality(Inside(b) \ {t}) = 0 <=> Inside(b) \ {t} = {}
    BY <2>1, Sizes
  <2>3. count[b] = Cardinality(Inside(b)) /\ Cardinality(Inside(b)) \in Nat
    BY <1>2, <1>4, Sizes DEF Invariant, Counting
  <2> QED BY <1>4, <1>5, <2>2, <2>3
<1>9. Leaves(b)'
  <2>1. signalled[b] /\ \A u \in Threads \ {t} : ~(at[u] = b /\ pc[u] = "reset")
    BY <1>1, <1>2 DEF Leaves
  <2>2. CASE count[b] = 1
    BY <1>1, <1>2, <1>8, <2>1, <2>2 DEF Leaves, Inside
  <2>3. CASE count[b] # 1
    <3>1. PICK u \in Threads \ {t} : u \in Inside(b)
      BY <1>4, <1>8, <2>3
    <3> QED BY <1>1, <1>2, <2>1, <2>3, <3>1 DEF Leaves, Inside, Beyond
  <2> QED BY <2>2, <2>3
<1>10. CASE Second /\ b = "start"
  <2>1. Gathers("end")'
    BY <1>1, <1>3, <1>10 DEF Second, Gathers, Beyond, Barriers
  <2>2. Second'
    BY <1>1, <1>9, <1>10, <2>1 DEF Second, Beyond
  <2> QED BY <1>6, <1>7, <2>2 DEF Invariant
<1>11. CASE Third /\ b = "end"
  <2>1. Third'
    BY <1>1, <1>9, <1>11 DEF Third, Beyond
  <2> QED BY <1>6, <1>7, <2>1 DEF Invariant
<1> QED BY <1>2, <1>10, <1>11

\* It resets the event for the next iteration, in time.
LEMMA ResetEventKeeps ==
  ASSUME Invariant, NEW t \in Threads, ResetEvent(t)
  PROVE  Invariant'
<1>1. /\ pc[t] = "reset" /\ pc'[t] = Beyond(t) /\ \A u \in Threads \ {t} : pc'[u] = pc[u]
      /\ UNCHANGED <<read, count, todo, at>>
  BY Moves DEF Invariant, ResetEvent, TypeOK
<1>2. /\ at[t] \in Barriers /\ Leaves(at[t])
      /\ (Second /\ at[t] = "start") \/ (Third /\ at[t] = "end")
  BY <1>1, Leaving
<1>3. ~signalled'[at[t]] /\ \A c \in Barriers \ {at[t]} : signalled'[c] = signalled[c]
  BY <1>2 DEF ResetEvent, Invariant, TypeOK
<1>4. TypeOK'
  BY DEF Invariant, TypeOK, ResetEvent, Go, Beyond
<1>5. Counting'
  <2>1. \A c \in Barriers : Inside(c)' = Inside(c)
    BY <1>1 DEF Inside, Beyond
  <2> QED BY <1>1, <2>1 DEF Invariant, Counting
<1>6. Leaves(at[t])'
  BY <1>1, <1>2, <1>3 DEF Leaves, Beyond
<1>7. CASE Second /\ at[t] = "start"
  <2>1. Gathers("end")'
    BY <1>1, <1>3, <1>7 DEF Second, Gathers, Beyond, Barriers
  <2>2. Second'
    BY <1>1, <1>6, <1>7, <2>1 DEF Second, Beyond
  <2> QED BY <1>4, <1>5, <2>2 DEF Invariant
<1>8. CASE Third /\ at[t] = "end"
  <2>1. Third'
    BY <1>1, <1>3, <1>6, <1>8 DEF Third, Beyond, Barriers
  <2> QED BY <1>4, <1>5, <2>1 DEF Invariant
<1> QED BY <1>2, <1>7, <1>8

\* The barriers are as new when the next tasks are handed out.
LEMMA NextIterationKeeps ==
  ASSUME Invariant, NextIteration
  PROVE  Invariant'
<1>1. /\ todo = 0 /\ \A t \in Threads : pc[t] = "rest"
      /\ todo' = numThreads /\ UNCHANGED <<count, signalled, at, pc, read>>
  BY DEF NextIteration
<1>2. Resting = Threads /\ Cardinality(Threads) = numThreads /\ numThreads \in 0..numThreads
      /\ numThreads # 0 /\ Threads # {}
  BY <1>1, Sizes, ThreadsAssumption DEF Resting
<1>3. Third
  BY <1>1, <1>2 DEF Invariant, First, Second
<1>4. TypeOK' /\ Counting'
  BY <1>1, <1>2 DEF Invariant, TypeOK, Counting, Inside
<1>5. First'
  BY <1>1, <1>2, <1>3 DEF First, Third, Leaves, Gathers, Resting
<1> QED BY <1>4, <1>5 DEF Invariant

-----------------------------------------------------------------------------
\* The threads are kept together, and the barriers are as new after each
\* iteration, for any number of threads, as long as no wait expires.
THEOREM BarriersAreSafe ==
  ASSUME ~WaitExpires
  PROVE  Spec => []BarriersHold
<1>1. Init => Invariant
  BY Initially
<1>2. Invariant /\ [Next]_vars => Invariant'
  <2> SUFFICES ASSUME Invariant, [Next]_vars PROVE Invariant'
    OBVIOUS
  <2>1. ASSUME NEW t \in Threads, ThreadStep(t) PROVE Invariant'
    BY <2>1, TakeTaskKeeps, EvaluateKeeps, ArriveKeeps, ReadCountKeeps, WriteCountKeeps,
       SetEventKeeps, AwaitKeeps, LeaveKeeps, ResetEventKeeps DEF ThreadStep
  <2>2. CASE UNCHANGED vars
    BY <2>2 DEF vars, Invariant, TypeOK, Counting, Inside, First, Second, Third, Gathers, Leaves,
                Resting
  <2> QED BY <2>1, <2>2, NextIterationKeeps DEF Next, Poll
<1>3. Invariant => BarriersHold
  <2> SUFFICES ASSUME Invariant PROVE BarriersHold
    OBVIOUS
  <2>1. AllTogether
    BY DEF AllTogether, Invariant, First, Second, Third, Leaves, TypeOK
  <2>2. Reusable
    <3> SUFFICES ASSUME todo = numThreads, \A t \in Threads : pc[t] = "rest",
                        NEW b \in Barriers
                 PROVE  count[b] = 0 /\ ~signalled[b]
      BY DEF Reusable
    <3>1. ~signalled[b]
      BY ThreadsAssumption DEF Invariant, First, Second, Third, Gathers, Barriers
    <3>2. Inside(b) = {}
      BY DEF Inside
    <3> QED BY <3>1, <3>2, FS_EmptySet DEF Invariant, Counting
  <2> QED BY <2>1, <2>2 DEF BarriersHold, Invariant
<1> QED BY <1>1, <1>2, <1>3, PTL DEF Spec

=============================================================================
