-------------------------- MODULE EvalCacheProofs --------------------------
(***************************************************************************)
(* The evaluation cache hands out true evaluations, and keeps the most     *)
(* recently used ones, for any number of threads, keys, buckets, tables    *)
(* and plies.                                                              *)
(***************************************************************************)
EXTENDS EvalCache, TLAPS

-----------------------------------------------------------------------------
\* Every variable keeps its type, and a call has a key exactly while it runs.
THEOREM TypeCorrect == Spec => []TypeOK
<1>1. Init => TypeOK
  BY NoKeyAssumption DEF Init, TypeOK, Ars, Labels
<1>2. ASSUME TypeOK, [Next]_vars PROVE TypeOK'
  <2> USE <1>2 DEF TypeOK
  <2>1. ASSUME NEW p \in Calls, CacheLookup(p) PROVE TypeOK'
    <3>1. key[p] \in Keys
      BY <2>1 DEF CacheLookup, LookupLock, ComparePrimary, CompareSecondary, SwapSave,
                  SwapPrimaryKey, SwapPrimaryAr, SwapSecondaryKey, SwapSecondaryAr,
                  CopyOut, UnlockHit, UnlockMiss, Go, Return
    <3>2. At(p) \in Buckets
      BY <3>1, HashAssumption DEF At
    <3>3. CASE LookupLock(p)
      BY <3>1, <3>2, <3>3 DEF LookupLock, Go, CacheLock, nodes, Labels
    <3>4. CASE ComparePrimary(p)
      BY <3>1, <3>2, <3>4 DEF ComparePrimary, Go, nodes, Labels
    <3>5. CASE CompareSecondary(p)
      BY <3>1, <3>2, <3>5 DEF CompareSecondary, Go, nodes, Labels
    <3>6. CASE SwapSave(p)
      BY <3>1, <3>2, <3>6 DEF SwapSave, Go, nodes, Labels
    <3>7. CASE SwapPrimaryKey(p)
      BY <3>1, <3>2, <3>7 DEF SwapPrimaryKey, Go, Labels
    <3>8. CASE SwapPrimaryAr(p)
      BY <3>1, <3>2, <3>8 DEF SwapPrimaryAr, Go, Labels
    <3>9. CASE SwapSecondaryKey(p)
      BY <3>1, <3>2, <3>9 DEF SwapSecondaryKey, Go, Labels
    <3>10. CASE SwapSecondaryAr(p)
      BY <3>1, <3>2, <3>10 DEF SwapSecondaryAr, Go, Labels, Ars
    <3>11. CASE CopyOut(p)
      BY <3>1, <3>2, <3>11 DEF CopyOut, Go, nodes, Labels
    <3>12. CASE UnlockHit(p)
      BY <3>1, <3>2, <3>12, NoKeyAssumption DEF UnlockHit, Return, Go, CacheUnlock, nodes, Labels
    <3>13. CASE UnlockMiss(p)
      BY <3>1, <3>2, <3>13 DEF UnlockMiss, Go, CacheUnlock, nodes, Labels
    <3> QED BY <2>1, <3>3, <3>4, <3>5, <3>6, <3>7, <3>8, <3>9, <3>10, <3>11, <3>12, <3>13
            DEF CacheLookup
  <2>2. ASSUME NEW p \in Calls, CacheAdd(p) PROVE TypeOK'
    <3>1. key[p] \in Keys
      BY <2>2 DEF CacheAdd, AddLock, AddSecondaryKey, AddSecondaryAr, AddPrimaryKey,
                  AddPrimaryAr, AddUnlock, Go, Return
    <3>2. At(p) \in Buckets
      BY <3>1, HashAssumption DEF At
    <3>3. CASE AddLock(p)
      BY <3>1, <3>2, <3>3 DEF AddLock, Go, CacheLock, nodes, Labels
    <3>4. CASE AddSecondaryKey(p)
      BY <3>1, <3>2, <3>4 DEF AddSecondaryKey, Go, Labels
    <3>5. CASE AddSecondaryAr(p)
      BY <3>1, <3>2, <3>5 DEF AddSecondaryAr, Go, Labels
    <3>6. CASE AddPrimaryKey(p)
      BY <3>1, <3>2, <3>6 DEF AddPrimaryKey, Go, Labels
    <3>7. CASE AddPrimaryAr(p)
      BY <3>1, <3>2, <3>7 DEF AddPrimaryAr, Go, Labels
    <3>8. CASE AddUnlock(p)
      BY <3>1, <3>2, <3>8, NoKeyAssumption DEF AddUnlock, Return, Go, CacheUnlock, nodes, Labels
    <3> QED BY <2>2, <3>3, <3>4, <3>5, <3>6, <3>7, <3>8 DEF CacheAdd
  <2>3. ASSUME NEW p \in Calls, Evaluate(p) PROVE TypeOK'
    <3>1. key[p] \in Keys
      BY <2>3 DEF Evaluate, EvaluateFull, EvaluateUncached, EvaluateInterrupted, Go, Return
    <3>2. CASE EvaluateFull(p)
      BY <3>1, <3>2 DEF EvaluateFull, Go, nodes, Labels, Ars, Evaluations
    <3>3. CASE EvaluateUncached(p)
      BY <3>1, <3>3, NoKeyAssumption DEF EvaluateUncached, Return, Go, nodes, Labels, Ars
    <3>4. CASE EvaluateInterrupted(p)
      BY <3>1, <3>4, NoKeyAssumption DEF EvaluateInterrupted, Return, Go, nodes, Labels
    <3> QED BY <2>3, <3>2, <3>3, <3>4 DEF Evaluate
  <2>4. ASSUME NEW p \in Calls, NEW k \in Keys, Request(p, k) \/ RequestUncached(p, k)
        PROVE TypeOK'
    <3>1. CASE Request(p, k)
      BY <3>1, NoKeyAssumption DEF Request, Go, nodes, Labels
    <3>2. CASE RequestUncached(p, k)
      BY <3>2, NoKeyAssumption DEF RequestUncached, Go, nodes, Labels
    <3> QED BY <2>4, <3>1, <3>2
  <2>5. CASE CommandClearCache
    BY <2>5 DEF CommandClearCache, CacheFlush
  <2>6. ASSUME NEW m \in METs, CommandSetMET(m) PROVE TypeOK'
    BY <2>6 DEF CommandSetMET, CacheFlush, Quiescent, Ars, Evaluations
  <2>7. ASSUME NEW on \in BOOLEAN, EvalCacheResize(on) PROVE TypeOK'
    BY <2>7 DEF EvalCacheResize, CacheFlush, Ars
  <2>8. CASE UNCHANGED vars
    BY <2>8 DEF vars, nodes
  <2> QED BY <2>1, <2>2, <2>3, <2>4, <2>5, <2>6, <2>7, <2>8 DEF Next, Thread
<1> QED BY <1>1, <1>2, PTL DEF Spec
-----------------------------------------------------------------------------
\* What a step of call p does to the program counters, the keys and the lock,
\* whichever step it is.
LEMMA ThreadStep ==
  ASSUME TypeOK, NEW p \in Calls, Thread(p)
  PROVE  /\ pc[p] # "idle" /\ key[p] \in Keys
         /\ \A q \in Calls : q # p => pc'[q] = pc[q] /\ key'[q] = key[q]
         /\ pc'[p] # "idle" => key'[p] = key[p]
         /\ pc[p] \in {"eval", "bypass"} => NoCallBelow(p)
         /\ pc[p] \notin Critical /\ pc'[p] \in Critical => pc[p] \in {"lookup", "add"} /\ CacheLock(p)
         /\ pc[p] \in Critical /\ pc'[p] \notin Critical => CacheUnlock(p)
         /\ (pc[p] \in Critical <=> pc'[p] \in Critical) => lock' = lock
<1> USE DEF TypeOK, Critical
<1>1. CASE CacheLookup(p)
  <2>1. CASE LookupLock(p) \/ UnlockHit(p) \/ UnlockMiss(p)
    BY <2>1 DEF LookupLock, UnlockHit, UnlockMiss, Go, Return
  <2>2. CASE ComparePrimary(p) \/ CompareSecondary(p)
    BY <2>2 DEF ComparePrimary, CompareSecondary, Go
  <2>3. CASE \/ SwapSave(p) \/ SwapPrimaryKey(p) \/ SwapPrimaryAr(p)
             \/ SwapSecondaryKey(p) \/ SwapSecondaryAr(p) \/ CopyOut(p)
    BY <2>3 DEF SwapSave, SwapPrimaryKey, SwapPrimaryAr, SwapSecondaryKey, SwapSecondaryAr,
                CopyOut, Go
  <2> QED BY <1>1, <2>1, <2>2, <2>3 DEF CacheLookup
<1>2. CASE CacheAdd(p)
  <2>1. CASE AddLock(p) \/ AddUnlock(p)
    BY <2>1 DEF AddLock, AddUnlock, Go, Return
  <2>2. CASE AddSecondaryKey(p) \/ AddSecondaryAr(p) \/ AddPrimaryKey(p) \/ AddPrimaryAr(p)
    BY <2>2 DEF AddSecondaryKey, AddSecondaryAr, AddPrimaryKey, AddPrimaryAr, Go
  <2> QED BY <1>2, <2>1, <2>2 DEF CacheAdd
<1>3. CASE Evaluate(p)
  BY <1>3 DEF Evaluate, EvaluateFull, EvaluateUncached, EvaluateInterrupted, Go, Return
<1> QED BY <1>1, <1>2, <1>3 DEF Thread

\* The calls of a thread form a stack: a call with another one below it is
\* evaluating, so it is inside no bucket.
LEMMA StackStep ==
  ASSUME TypeOK, StackDiscipline, [Next]_vars
  PROVE  StackDiscipline'
<1>1. ASSUME NEW p \in Calls, Thread(p) PROVE StackDiscipline'
  <2> SUFFICES ASSUME NEW x \in Calls, NEW y \in Calls, x[1] = y[1], x[2] < y[2],
                      pc'[y] # "idle"
               PROVE  pc'[x] \in {"eval", "bypass"}
    BY DEF StackDiscipline
  <2>1. pc[p] # "idle" /\ \A q \in Calls : q # p => pc'[q] = pc[q]
    BY <1>1, ThreadStep
  <2>2. pc[y] # "idle" /\ pc[x] \in {"eval", "bypass"}
    BY <2>1 DEF StackDiscipline
  <2>3. x # p
    <3> SUFFICES ASSUME x = p PROVE FALSE
      OBVIOUS
    <3>1. NoCallBelow(x)
      BY <1>1, <2>2, ThreadStep
    <3> DEFINE child == <<x[1], x[2] + 1>>
    <3>2. x[2] \in 0..MaxPly /\ y[2] \in 0..MaxPly /\ y = <<x[1], y[2]>> /\ x[1] \in Threads
      BY DEF Calls
    <3>3. x[2] < MaxPly /\ child \in Calls
      BY <3>2, PlyAssumption DEF Calls
    <3>4. pc[child] = "idle"
      BY <3>1, <3>3 DEF NoCallBelow
    <3>5. child[1] = y[1] /\ (child[2] < y[2] \/ child = y)
      BY <3>2, PlyAssumption
    <3> HIDE DEF child
    <3> QED BY <2>2, <3>3, <3>4, <3>5 DEF StackDiscipline
  <2> QED BY <2>1, <2>2, <2>3
<1>2. ASSUME NEW p \in Calls, NEW k \in Keys, Request(p, k) \/ RequestUncached(p, k)
      PROVE  StackDiscipline'
  <2>1. PICK where \in {"eval", "bypass"} : CalledFrom(p, where)
    BY <1>2 DEF Request, RequestUncached
  <2>2. /\ pc[p] = "idle" /\ pc'[p] \in {"lookup", "bypass"}
        /\ \A q \in Calls : q # p => pc'[q] = pc[q]
    BY <1>2 DEF Request, RequestUncached, Go, TypeOK
  <2> SUFFICES ASSUME NEW x \in Calls, NEW y \in Calls, x[1] = y[1], x[2] < y[2],
                      pc'[y] # "idle"
               PROVE  pc'[x] \in {"eval", "bypass"}
    BY DEF StackDiscipline
  <2>3. CASE y # p
    BY <2>2, <2>3 DEF StackDiscipline
  <2>4. CASE y = p
    <3> DEFINE parent == <<p[1], p[2] - 1>>
    <3>1. x = <<p[1], x[2]>> /\ x[2] \in 0..MaxPly /\ p[2] \in 0..MaxPly /\ p[1] \in Threads
      BY <2>4 DEF Calls
    <3>2. parent \in Calls /\ p[2] > 0
      BY <2>4, <3>1, PlyAssumption DEF Calls
    <3>3. pc[parent] \in {"eval", "bypass"}
      BY <2>1, <3>2 DEF CalledFrom
    <3>4. parent[1] = x[1] /\ (x[2] < parent[2] \/ x = parent)
      BY <2>4, <3>1, PlyAssumption
    <3> HIDE DEF parent
    <3>5. pc[x] \in {"eval", "bypass"}
      BY <3>2, <3>3, <3>4 DEF StackDiscipline
    <3> QED BY <2>2, <3>5
  <2> QED BY <2>3, <2>4
<1>3. CASE pc' = pc
  BY <1>3 DEF StackDiscipline
<1> QED BY <1>1, <1>2, <1>3 DEF Next, vars, CommandClearCache, CommandSetMET, EvalCacheResize

\* What mutual exclusion needs is kept by every step: a call enters a bucket
\* only by taking its lock, or, without locks, at the top of the only stack.
LEMMA ExclusionStep ==
  ASSUME TypeOK, TypeOK', Exclusion, [Next]_vars
  PROVE  Exclusion'
<1> USE DEF Exclusion
<1>1. StackDiscipline'
  BY StackStep
<1>2. ASSUME NEW p \in Calls, Thread(p) PROVE HoldersLock' /\ MutualExclusion'
  <2>1. /\ \A q \in Calls : q # p => pc'[q] = pc[q] /\ key'[q] = key[q]
        /\ key[p] \in Keys /\ pc[p] # "idle"
        /\ pc'[p] # "idle" => key'[p] = key[p]
    BY <1>2, ThreadStep
  <2>2. \A q \in Calls : pc'[q] \in Critical => At(q)' = At(q) /\ At(q) \in Buckets
    BY <2>1, HashAssumption DEF At, Critical, TypeOK
  <2>3. CASE pc[p] \notin Critical /\ pc'[p] \in Critical
    <3>1. CacheLock(p) /\ pc[p] \in {"lookup", "add"}
      BY <1>2, <2>3, ThreadStep
    <3>2. ASSUME NEW q \in Calls, q # p, pc[q] \in Critical PROVE At(q) # At(p)
      <4>1. CASE Locking
        BY <3>1, <3>2, <4>1 DEF CacheLock, HoldersLock
      <4>2. CASE ~Locking
        <5>1. p[1] = q[1]
          BY <4>2, LockingAssumption DEF Calls
        <5>2. p[2] < q[2] \/ q[2] < p[2]
          <6>1. p[2] # q[2]
            BY <3>2, <5>1 DEF Calls
          <6> QED BY <6>1 DEF Calls
        <5> QED BY <3>1, <3>2, <5>1, <5>2 DEF StackDiscipline, Critical
      <4> QED BY <4>1, <4>2
    <3>3. MutualExclusion'
      BY <2>1, <2>2, <3>2 DEF MutualExclusion
    <3>4. HoldersLock'
      BY <2>1, <2>2, <3>1, <2>3 DEF HoldersLock, CacheLock, TypeOK
    <3> QED BY <3>3, <3>4
  <2>4. CASE pc[p] \in Critical /\ pc'[p] \notin Critical
    <3>1. CacheUnlock(p)
      BY <1>2, <2>4, ThreadStep
    <3>2. MutualExclusion'
      BY <2>1, <2>2, <2>4 DEF MutualExclusion
    <3>3. ASSUME NEW q \in Calls, pc'[q] \in Critical PROVE Locking => lock'[At(q)'] = 1
      <4>1. q # p /\ pc[q] \in Critical /\ At(q)' = At(q) /\ At(q) \in Buckets /\ At(q) # At(p)
        BY <2>1, <2>2, <2>4, <3>3 DEF MutualExclusion
      <4> QED BY <3>1, <4>1 DEF HoldersLock, CacheUnlock, TypeOK
    <3> QED BY <3>2, <3>3 DEF HoldersLock
  <2>5. CASE pc[p] \in Critical <=> pc'[p] \in Critical
    <3>1. lock' = lock
      BY <1>2, <2>5, ThreadStep
    <3> QED BY <2>1, <2>2, <2>5, <3>1 DEF MutualExclusion, HoldersLock
  <2> QED BY <2>3, <2>4, <2>5
<1>3. ASSUME NEW p \in Calls, NEW k \in Keys, Request(p, k) \/ RequestUncached(p, k)
      PROVE  HoldersLock' /\ MutualExclusion'
  <2>1. /\ pc'[p] \notin Critical /\ lock' = lock
        /\ \A q \in Calls : q # p => pc'[q] = pc[q] /\ key'[q] = key[q]
    BY <1>3 DEF Request, RequestUncached, Go, TypeOK, Critical
  <2> QED BY <2>1 DEF HoldersLock, MutualExclusion, At
<1>4. CASE Quiescent /\ pc' = pc
  <2>1. \A q \in Calls : pc'[q] \notin Critical
    BY <1>4 DEF Quiescent, Critical
  <2> QED BY <1>1, <2>1 DEF HoldersLock, MutualExclusion
<1>5. CASE UNCHANGED <<lock, pc, key>>
  BY <1>1, <1>5 DEF HoldersLock, MutualExclusion, At
<1> QED BY <1>1, <1>2, <1>3, <1>4, <1>5
        DEF Next, vars, CommandClearCache, CommandSetMET, EvalCacheResize

\* No two calls are ever inside the same bucket, with the spin locks or, for
\* a single thread, without them.
THEOREM Excluded == Spec => []MutualExclusion
<1>1. Init => Exclusion
  BY DEF Init, Exclusion, StackDiscipline, HoldersLock, MutualExclusion, Critical
<1>2. TypeOK /\ TypeOK' /\ Exclusion /\ [Next]_vars => Exclusion'
  BY ExclusionStep
<1>3. Exclusion => MutualExclusion
  BY DEF Exclusion
<1> QED BY <1>1, <1>2, <1>3, TypeCorrect, PTL DEF Spec
-----------------------------------------------------------------------------
\* A step of call p inside its bucket disturbs no other call and no other
\* bucket, so only its own bucket and its own progress need a look.
LEMMA OnlyItsBucket ==
  ASSUME TypeOK, MutualExclusion, Coherence, NEW p \in Calls, NEW a \in Buckets, a = At(p),
         met' = met,
         \A q \in Calls : q # p => /\ pc'[q] = pc[q] /\ key'[q] = key[q]
                                  /\ tmp'[q] = tmp[q] /\ out'[q] = out[q],
         \A b \in Buckets : b # a => /\ primKey'[b] = primKey[b] /\ primAr'[b] = primAr[b]
                                     /\ secKey'[b] = secKey[b] /\ secAr'[b] = secAr[b],
         pc[p] \in Critical \/ UNCHANGED nodes,
         EntryIsTrue(a)', ProgressOf(p)'
  PROVE  Coherence'
<1>1. ASSUME NEW b \in Buckets, b # a PROVE EntryIsTrue(b)'
  <2>1. ASSUME NEW labels, Untouched(b, labels)' PROVE Untouched(b, labels)
    BY <1>1, <2>1 DEF Untouched, At
  <2>2. EntryIsTrue(b)
    BY DEF Coherence, EntriesAreTrue
  <2> QED BY <1>1, <2>1, <2>2 DEF EntryIsTrue, Truthful
<1>2. ASSUME NEW q \in Calls, q # p PROVE ProgressOf(q)'
  <2>1. ProgressOf(q) /\ At(q)' = At(q)
    BY <1>2 DEF Coherence, At
  <2>2. pc[q] \in Critical => At(q) \in Buckets
    BY HashAssumption DEF At, TypeOK, Critical
  <2>3. CASE pc[p] \in Critical /\ pc[q] \in Critical
    <3>1. At(q) # At(p)
      BY <1>2, <2>3 DEF MutualExclusion
    <3> QED BY <1>2, <2>1, <2>2, <2>3, <3>1 DEF ProgressOf, Truthful
  <2>4. CASE UNCHANGED nodes
    BY <1>2, <2>1, <2>4 DEF ProgressOf, Truthful, nodes
  <2>5. CASE pc[q] \notin Critical
    BY <1>2, <2>1, <2>5 DEF ProgressOf, Truthful, Critical
  <2> QED BY <2>3, <2>4, <2>5
<1> QED BY <1>1, <1>2 DEF Coherence, EntriesAreTrue

\* A call inside bucket a is alone there.
LEMMA Alone ==
  ASSUME TypeOK, MutualExclusion, NEW p \in Calls, pc[p] \in Critical,
         NEW labels \in SUBSET Critical,
         \A q \in Calls : q # p => pc'[q] = pc[q] /\ key'[q] = key[q],
         key'[p] = key[p] \/ pc'[p] \notin labels,
         NEW a \in Buckets, a = At(p)
  PROVE  /\ pc[p] \notin labels => Untouched(a, labels)
         /\ Untouched(a, labels)' => pc'[p] \notin labels
BY DEF MutualExclusion, Untouched, At

\* A lookup under the bucket's lock returns a true evaluation and leaves the
\* entries true, though it swaps them word by word (CacheLookupWithLocking).
LEMMA LookupCoherent ==
  ASSUME TypeOK, TypeOK', MutualExclusion, Coherence, NEW p \in Calls, CacheLookup(p)
  PROVE  Coherence'
<1>1. PICK a \in Buckets : a = At(p)
  BY ThreadStep, HashAssumption DEF Thread, At
<1>2. /\ \A q \in Calls : q # p => pc'[q] = pc[q] /\ key'[q] = key[q]
      /\ key[p] \in Keys
      /\ pc'[p] # "idle" => key'[p] = key[p]
  BY ThreadStep DEF Thread
<1>3. EntryIsTrue(a) /\ ProgressOf(p)
  BY DEF Coherence, EntriesAreTrue
<1>4. /\ met' = met
      /\ \A q \in Calls : q # p => tmp'[q] = tmp[q] /\ out'[q] = out[q]
      /\ \A b \in Buckets : b # a => /\ primKey'[b] = primKey[b] /\ primAr'[b] = primAr[b]
                                   /\ secKey'[b] = secKey[b] /\ secAr'[b] = secAr[b]
      /\ pc[p] \in Critical \/ UNCHANGED nodes
  BY <1>1 DEF CacheLookup, LookupLock, ComparePrimary, CompareSecondary, SwapSave, SwapPrimaryKey,
         SwapPrimaryAr, SwapSecondaryKey, SwapSecondaryAr, CopyOut, UnlockHit, UnlockMiss,
         Go, Return, nodes, TypeOK, Critical
<1>5. SUFFICES EntryIsTrue(a)' /\ ProgressOf(p)'
  BY <1>1, <1>2, <1>4, OnlyItsBucket
<1>6. pc[p] \in Critical =>
        /\ pc[p] \notin {"swap2", "add4"} => Truthful(primKey[a], primAr[a])
        /\ pc[p] \notin {"swap4", "add2"} => Truthful(secKey[a], secAr[a])
        /\ Untouched(a, {"swap2", "add4"})' => pc'[p] \notin {"swap2", "add4"}
        /\ Untouched(a, {"swap4", "add2"})' => pc'[p] \notin {"swap4", "add2"}
  <2>1. {"swap2", "add4"} \in SUBSET Critical /\ {"swap4", "add2"} \in SUBSET Critical
    BY DEF Critical
  <2> QED BY <1>1, <1>2, <1>3, <2>1, Alone DEF EntryIsTrue
<1>7. CASE LookupLock(p)
  <2>1. Untouched(a, {"swap2", "add4"})' => Untouched(a, {"swap2", "add4"})
    BY <1>1, <1>2, <1>7 DEF LookupLock, Go, Untouched, At, TypeOK
  <2>2. Untouched(a, {"swap4", "add2"})' => Untouched(a, {"swap4", "add2"})
    BY <1>1, <1>2, <1>7 DEF LookupLock, Go, Untouched, At, TypeOK
  <2> QED BY <1>3, <1>4, <1>7, <2>1, <2>2
          DEF LookupLock, Go, EntryIsTrue, ProgressOf, Truthful, TypeOK, nodes
<1> USE <1>1, <1>2, <1>3, <1>4, <1>6 DEF EntryIsTrue, ProgressOf, Truthful, TypeOK, nodes
<1>8. CASE ComparePrimary(p)
  BY <1>8 DEF ComparePrimary, Go, Return, At, Critical
<1>9. CASE CompareSecondary(p)
  BY <1>9 DEF CompareSecondary, Go, Return, At, Critical
<1>10. CASE SwapSave(p)
  BY <1>10 DEF SwapSave, Go, Return, At, Critical
<1>11. CASE SwapPrimaryKey(p)
  BY <1>11 DEF SwapPrimaryKey, Go, Return, At, Critical
<1>12. CASE SwapPrimaryAr(p)
  BY <1>12, NoKeyAssumption DEF SwapPrimaryAr, Go, Return, At, Critical
<1>13. CASE SwapSecondaryKey(p)
  BY <1>13 DEF SwapSecondaryKey, Go, Return, At, Critical
<1>14. CASE SwapSecondaryAr(p)
  BY <1>14 DEF SwapSecondaryAr, Go, Return, At, Critical
<1>15. CASE CopyOut(p)
  BY <1>15, NoKeyAssumption DEF CopyOut, Go, Return, At, Critical
<1>16. CASE UnlockHit(p)
  <2>1. UNCHANGED nodes /\ pc[p] = "hit" /\ pc[p] \in Critical /\ pc'[p] = "idle"
    BY <1>16 DEF UnlockHit, Go, Return, Critical
  <2> QED BY <2>1
<1>17. CASE UnlockMiss(p)
  <2>1. UNCHANGED nodes /\ pc[p] = "miss" /\ pc[p] \in Critical /\ pc'[p] = "eval"
    BY <1>17 DEF UnlockMiss, Go, Return, Critical
  <2> QED BY <2>1
<1> QED BY <1>7, <1>8, <1>9, <1>10, <1>11, <1>12, <1>13, <1>14, <1>15, <1>16, <1>17 DEF CacheLookup

\* An insertion under the bucket's lock demotes one entry and writes another,
\* word by word, and leaves both true (CacheAddWithLocking).
LEMMA AddCoherent ==
  ASSUME TypeOK, TypeOK', MutualExclusion, Coherence, NEW p \in Calls, CacheAdd(p)
  PROVE  Coherence'
<1>1. PICK a \in Buckets : a = At(p)
  BY ThreadStep, HashAssumption DEF Thread, At
<1>2. /\ \A q \in Calls : q # p => pc'[q] = pc[q] /\ key'[q] = key[q]
      /\ key[p] \in Keys
      /\ pc'[p] # "idle" => key'[p] = key[p]
  BY ThreadStep DEF Thread
<1>3. EntryIsTrue(a) /\ ProgressOf(p)
  BY DEF Coherence, EntriesAreTrue
<1>4. /\ met' = met
      /\ \A q \in Calls : q # p => tmp'[q] = tmp[q] /\ out'[q] = out[q]
      /\ \A b \in Buckets : b # a => /\ primKey'[b] = primKey[b] /\ primAr'[b] = primAr[b]
                                   /\ secKey'[b] = secKey[b] /\ secAr'[b] = secAr[b]
      /\ pc[p] \in Critical \/ UNCHANGED nodes
  BY <1>1 DEF CacheAdd, AddLock, AddSecondaryKey, AddSecondaryAr, AddPrimaryKey, AddPrimaryAr,
         AddUnlock, Go, Return, nodes, TypeOK, Critical
<1>5. SUFFICES EntryIsTrue(a)' /\ ProgressOf(p)'
  BY <1>1, <1>2, <1>4, OnlyItsBucket
<1>6. pc[p] \in Critical =>
        /\ pc[p] \notin {"swap2", "add4"} => Truthful(primKey[a], primAr[a])
        /\ pc[p] \notin {"swap4", "add2"} => Truthful(secKey[a], secAr[a])
        /\ Untouched(a, {"swap2", "add4"})' => pc'[p] \notin {"swap2", "add4"}
        /\ Untouched(a, {"swap4", "add2"})' => pc'[p] \notin {"swap4", "add2"}
  <2>1. {"swap2", "add4"} \in SUBSET Critical /\ {"swap4", "add2"} \in SUBSET Critical
    BY DEF Critical
  <2> QED BY <1>1, <1>2, <1>3, <2>1, Alone DEF EntryIsTrue
<1>7. CASE AddLock(p)
  <2>1. Untouched(a, {"swap2", "add4"})' => Untouched(a, {"swap2", "add4"})
    BY <1>1, <1>2, <1>7 DEF AddLock, Go, Untouched, At, TypeOK
  <2>2. Untouched(a, {"swap4", "add2"})' => Untouched(a, {"swap4", "add2"})
    BY <1>1, <1>2, <1>7 DEF AddLock, Go, Untouched, At, TypeOK
  <2> QED BY <1>3, <1>4, <1>7, <2>1, <2>2
          DEF AddLock, Go, EntryIsTrue, ProgressOf, Truthful, TypeOK, nodes
<1> USE <1>1, <1>2, <1>3, <1>4, <1>6 DEF EntryIsTrue, ProgressOf, Truthful, TypeOK, nodes
<1>8. CASE AddSecondaryKey(p)
  BY <1>8 DEF AddSecondaryKey, Go, At, Critical
<1>9. CASE AddSecondaryAr(p)
  BY <1>9 DEF AddSecondaryAr, Go, At, Critical
<1>10. CASE AddPrimaryKey(p)
  BY <1>10 DEF AddPrimaryKey, Go, At, Critical
<1>11. CASE AddPrimaryAr(p)
  BY <1>11, NoKeyAssumption DEF AddPrimaryAr, Go, At, Critical
<1>12. CASE AddUnlock(p)
  <2>1. UNCHANGED nodes /\ pc[p] = "added" /\ pc[p] \in Critical /\ pc'[p] = "idle"
    BY <1>12 DEF AddUnlock, Go, Return, Critical
  <2> QED BY <2>1
<1> QED BY <1>7, <1>8, <1>9, <1>10, <1>11, <1>12 DEF CacheAdd

\* A step of a call that is inside no bucket and enters none.
LEMMA OutsideCoherent ==
  ASSUME TypeOK, Coherence, NEW p \in Calls, UNCHANGED <<nodes, met, tmp>>,
         \A q \in Calls : q # p => pc'[q] = pc[q] /\ key'[q] = key[q] /\ out'[q] = out[q],
         pc[p] \notin Critical, pc'[p] \in {"idle", "bypass", "lookup", "eval", "add"},
         pc'[p] = "add" => out'[p] = <<key'[p], met>>
  PROVE  Coherence'
<1>1. ASSUME NEW b \in Buckets PROVE EntryIsTrue(b)'
  <2>1. ASSUME NEW labels \in SUBSET Critical, Untouched(b, labels)' PROVE Untouched(b, labels)
    BY <2>1 DEF Untouched, At
  <2>2. {"swap2", "add4"} \in SUBSET Critical /\ {"swap4", "add2"} \in SUBSET Critical
    BY DEF Critical
  <2> QED BY <2>1, <2>2 DEF Coherence, EntriesAreTrue, EntryIsTrue, Truthful, nodes
<1>2. ASSUME NEW q \in Calls PROVE ProgressOf(q)'
  BY DEF Coherence, ProgressOf, Truthful, At, nodes
<1> QED BY <1>1, <1>2 DEF Coherence, EntriesAreTrue

\* Every step keeps the entries true, and what each call knows of its bucket;
\* a new equity table does because it flushes them.
LEMMA CoherenceStep ==
  ASSUME TypeOK, TypeOK', MutualExclusion, Coherence, [Next]_vars
  PROVE  Coherence'
<1>1. ASSUME NEW p \in Calls, Thread(p) PROVE Coherence'
  <2>1. CASE Evaluate(p)
    <3>1. /\ UNCHANGED <<nodes, met, tmp>> /\ pc[p] \notin Critical /\ pc'[p] \in {"idle", "add"}
          /\ \A q \in Calls : q # p => pc'[q] = pc[q] /\ key'[q] = key[q] /\ out'[q] = out[q]
          /\ pc'[p] = "add" => out'[p] = <<key'[p], met>>
      BY <2>1 DEF Evaluate, EvaluateFull, EvaluateUncached, EvaluateInterrupted, Go, Return,
                  TypeOK, Critical
    <3> QED BY <3>1, OutsideCoherent
  <2> QED BY <1>1, <2>1, LookupCoherent, AddCoherent DEF Thread
<1>2. ASSUME NEW p \in Calls, NEW k \in Keys, Request(p, k) \/ RequestUncached(p, k)
      PROVE  Coherence'
  <2>1. /\ UNCHANGED <<nodes, met, tmp>> /\ pc[p] \notin Critical
        /\ pc'[p] \in {"lookup", "bypass"}
        /\ \A q \in Calls : q # p => pc'[q] = pc[q] /\ key'[q] = key[q] /\ out'[q] = out[q]
    BY <1>2 DEF Request, RequestUncached, Go, TypeOK, Critical
  <2> QED BY <2>1, OutsideCoherent
<1>3. CASE Quiescent /\ CacheFlush /\ pc' = pc
  <2>1. \A b \in Buckets : primKey'[b] = NoKey /\ secKey'[b] = NoKey
    BY <1>3 DEF CacheFlush
  <2>2. \A p \in Calls : pc'[p] = "idle"
    BY <1>3 DEF Quiescent
  <2> QED BY <2>1, <2>2 DEF Coherence, EntriesAreTrue, EntryIsTrue, Truthful, ProgressOf
<1>4. CASE UNCHANGED vars
  BY <1>4 DEF vars, nodes, Coherence, EntriesAreTrue, EntryIsTrue, Truthful, Untouched,
              ProgressOf, At
<1> QED BY <1>1, <1>2, <1>3, <1>4 DEF Next, CommandClearCache, CommandSetMET, EvalCacheResize

\* The inductive invariant.
LEMMA Invariant == Spec => [](TypeOK /\ Exclusion /\ Coherence)
<1>1. Init => Exclusion /\ Coherence
  BY DEF Init, Exclusion, StackDiscipline, HoldersLock, MutualExclusion, Critical, Coherence,
         EntriesAreTrue, EntryIsTrue, Truthful, ProgressOf
<1>2. TypeOK /\ TypeOK' /\ Exclusion /\ Coherence /\ [Next]_vars => Exclusion' /\ Coherence'
  BY ExclusionStep, CoherenceStep DEF Exclusion
<1> QED BY <1>1, <1>2, TypeCorrect, PTL DEF Spec

\* Outside a copy under way, every entry is the evaluation of its own key
\* under the match equity table in force.
THEOREM EntriesTrue == Spec => []EntriesAreTrue
<1>1. Coherence => EntriesAreTrue
  BY DEF Coherence
<1> QED BY <1>1, Invariant, PTL

\* A hit hands the caller the evaluation it asked for.
THEOREM HitsTrue == Spec => []HitsAreTrue
<1>1. Coherence => HitsAreTrue
  BY DEF Coherence, ProgressOf, HitsAreTrue
<1> QED BY <1>1, Invariant, PTL
-----------------------------------------------------------------------------
\* Refinement: each step of the cache is a step of the evaluation service.

\* The abstract state sees of a step only the call that takes it.
LEMMA AskedStep ==
  ASSUME NEW p \in Calls,
         \A q \in Calls : q # p => pc'[q] = pc[q] /\ key'[q] = key[q],
         NEW k, (IF pc'[p] \in Waiting THEN key'[p] ELSE NoKey) = k
  PROVE  Asked' = [Asked EXCEPT ![p] = k]
BY DEF Asked

\* A lookup that ends with a hit answers what was asked; its other steps are
\* invisible to the caller.
LEMMA LookupRefines ==
  ASSUME TypeOK, MutualExclusion, Coherence, NEW p \in Calls, CacheLookup(p)
  PROVE  Service!Answer(p) \/ UNCHANGED Service!serviceVars
<1>1. /\ \A q \in Calls : q # p => pc'[q] = pc[q] /\ key'[q] = key[q]
      /\ key[p] \in Keys
  BY ThreadStep DEF Thread
<1>2. CASE CopyOut(p)
  <2>1. PICK a \in Buckets : a = At(p)
    BY <1>1, HashAssumption DEF At
  <2>2. pc[p] = "copy" /\ pc'[p] = "hit" /\ out' = [out EXCEPT ![p] = primAr[a]] /\ met' = met
    BY <1>2, <2>1 DEF CopyOut, Go, TypeOK
  <2>3. primKey[a] = key[p]
    BY <2>1, <2>2 DEF Coherence, ProgressOf
  <2>4. Untouched(a, {"swap2", "add4"})
    BY <2>1, <2>2 DEF MutualExclusion, Untouched, Critical
  <2>5. primAr[a] = <<key[p], met>>
    BY <1>1, <2>3, <2>4, NoKeyAssumption DEF Coherence, EntriesAreTrue, EntryIsTrue, Truthful
  <2>6. Asked[p] = key[p] /\ Asked' = [Asked EXCEPT ![p] = NoKey]
    BY <1>1, <2>2, AskedStep DEF Asked, Waiting
  <2> QED BY <1>1, <2>2, <2>5, <2>6, NoKeyAssumption DEF Service!Answer, Service!Evaluation
<1>3. CASE ~CopyOut(p)
  <2>1. /\ UNCHANGED <<met, out>>
        /\ pc[p] \in Waiting <=> pc'[p] \in Waiting
        /\ pc[p] \in Waiting => key'[p] = key[p]
    <3>1. CASE LookupLock(p) \/ UnlockHit(p) \/ UnlockMiss(p)
      BY <3>1 DEF LookupLock, UnlockHit, UnlockMiss, Go, Return, TypeOK, Waiting
    <3>2. CASE ComparePrimary(p) \/ CompareSecondary(p)
      BY <3>2 DEF ComparePrimary, CompareSecondary, Go, TypeOK, Waiting
    <3>3. CASE \/ SwapSave(p) \/ SwapPrimaryKey(p) \/ SwapPrimaryAr(p)
               \/ SwapSecondaryKey(p) \/ SwapSecondaryAr(p)
      BY <3>3 DEF SwapSave, SwapPrimaryKey, SwapPrimaryAr, SwapSecondaryKey,
                  SwapSecondaryAr, Go, TypeOK, Waiting
    <3> QED BY <1>3, <3>1, <3>2, <3>3 DEF CacheLookup
  <2> QED BY <1>1, <2>1 DEF Asked, Service!serviceVars
<1> QED BY <1>2, <1>3

\* Every step of the cache is a step of the evaluation service, or none.
LEMMA ServiceStep ==
  ASSUME TypeOK, Exclusion, Coherence, [Next]_vars
  PROVE  [Service!Next]_Service!serviceVars
<1> USE DEF Exclusion
<1>1. ASSUME NEW p \in Calls, CacheLookup(p)
      PROVE  [Service!Next]_Service!serviceVars
  BY <1>1, LookupRefines DEF Service!Next
<1>2. ASSUME NEW p \in Calls, Evaluate(p)
      PROVE  Service!Next
  <2>1. \A q \in Calls : q # p => pc'[q] = pc[q] /\ key'[q] = key[q]
    BY <1>2, ThreadStep DEF Thread
  <2>2. pc'[p] \notin Waiting /\ met' = met
    BY <1>2 DEF Evaluate, EvaluateFull, EvaluateUncached, EvaluateInterrupted, Go, Return,
                TypeOK, Waiting
  <2>3. Asked' = [Asked EXCEPT ![p] = NoKey]
    BY <2>1, <2>2, AskedStep
  <2>4. CASE EvaluateFull(p)
    <3>1. Asked[p] = key[p] /\ key[p] \in Keys
      BY <2>4 DEF EvaluateFull, Go, Asked, Waiting, TypeOK
    <3>2. Service!Answer(p)
      BY <2>3, <2>4, <3>1, NoKeyAssumption
         DEF EvaluateFull, Service!Answer, Service!Evaluation
    <3> QED BY <3>2 DEF Service!Next
  <2>5. CASE EvaluateUncached(p)
    <3>1. Asked[p] = NoKey
      BY <2>5 DEF EvaluateUncached, Return, Go, Asked, Waiting
    <3>2. Asked' = Asked
      BY <2>3, <3>1 DEF Asked
    <3>3. Service!Uncached(p)
      BY <2>5, <3>1, <3>2 DEF EvaluateUncached, Service!Uncached
    <3> QED BY <3>3 DEF Service!Next
  <2>6. CASE EvaluateInterrupted(p)
    <3>1. Asked[p] = key[p] /\ key[p] \in Keys
      BY <2>6 DEF EvaluateInterrupted, Return, Go, Asked, Waiting, TypeOK
    <3>2. Service!Interrupt(p)
      BY <2>3, <2>6, <3>1, NoKeyAssumption DEF EvaluateInterrupted, Service!Interrupt
    <3> QED BY <3>2 DEF Service!Next
  <2> QED BY <1>2, <2>4, <2>5, <2>6 DEF Evaluate
<1>3. ASSUME NEW p \in Calls, CacheAdd(p)
      PROVE  UNCHANGED Service!serviceVars
  <2>1. \A q \in Calls : q # p => pc'[q] = pc[q] /\ key'[q] = key[q]
    BY <1>3, ThreadStep DEF Thread
  <2>2. /\ UNCHANGED <<met, out>> /\ pc[p] \notin Waiting /\ pc'[p] \notin Waiting
    BY <1>3 DEF CacheAdd, AddLock, AddSecondaryKey, AddSecondaryAr, AddPrimaryKey,
                AddPrimaryAr, AddUnlock, Go, Return, TypeOK, Waiting
  <2> QED BY <2>1, <2>2 DEF Asked, Service!serviceVars
<1>4. ASSUME NEW p \in Calls, NEW k \in Keys, Request(p, k)
      PROVE  Service!Next
  <2>1. /\ \A q \in Calls : q # p => pc'[q] = pc[q] /\ key'[q] = key[q]
        /\ pc[p] \notin Waiting /\ pc'[p] \in Waiting /\ key'[p] = k
        /\ UNCHANGED <<met, out>>
    BY <1>4 DEF Request, Go, TypeOK, Waiting
  <2>2. Asked[p] = NoKey /\ Asked' = [Asked EXCEPT ![p] = k]
    BY <2>1, AskedStep DEF Asked
  <2>3. Service!Ask(p, k)
    BY <2>1, <2>2 DEF Service!Ask
  <2> QED BY <2>3 DEF Service!Next
<1>5. ASSUME NEW p \in Calls, NEW k \in Keys, RequestUncached(p, k)
      PROVE  UNCHANGED Service!serviceVars
  <2>1. /\ \A q \in Calls : q # p => pc'[q] = pc[q] /\ key'[q] = key[q]
        /\ pc[p] \notin Waiting /\ pc'[p] \notin Waiting
        /\ UNCHANGED <<met, out>>
    BY <1>5 DEF RequestUncached, Go, TypeOK, Waiting
  <2> QED BY <2>1 DEF Asked, Service!serviceVars
<1>6. ASSUME NEW m \in METs, CommandSetMET(m)
      PROVE  Service!Next
  <2>1. \A p \in Calls : Asked[p] = NoKey
    BY <1>6 DEF CommandSetMET, Quiescent, Asked, Waiting
  <2>2. Asked' = Asked
    BY <1>6 DEF CommandSetMET, Asked
  <2>3. Service!ChangeTable(m)
    BY <1>6, <2>1, <2>2 DEF CommandSetMET, Service!ChangeTable
  <2> QED BY <2>3 DEF Service!Next
<1>7. CASE UNCHANGED <<met, out, pc, key>>
  BY <1>7 DEF Asked, Service!serviceVars
<1> QED BY <1>1, <1>2, <1>3, <1>4, <1>5, <1>6, <1>7
        DEF Next, Thread, vars, CommandClearCache, EvalCacheResize

\* The cache implements the evaluation service: a caller gets from it exactly
\* what a direct call of the evaluator gives.
THEOREM Transparent == Spec => TransparentCache
<1>1. Init => Service!Init
  BY DEF Init, Service!Init, Asked, Waiting
<1>2. TypeOK /\ Exclusion /\ Coherence /\ [Next]_vars => [Service!Next]_Service!serviceVars
  BY ServiceStep
<1> QED BY <1>1, <1>2, Invariant, PTL DEF Spec, TransparentCache, Service!Spec
-----------------------------------------------------------------------------
\* Refinement: the two slots of a bucket are kept in the order of their use.

\* What the call inside its bucket makes of it (the cases of Slots).
Holds(p, slots) ==
  LET b == At(p)
      old == Entry(tmp[p][1], tmp[p][2])
      prim == Entry(primKey[b], primAr[b])
      sec == Entry(secKey[b], secAr[b])
      new == <<key[p], out[p]>>
  IN /\ pc[p] \in {"swap2", "swap3"} => slots = <<old, sec>>
     /\ pc[p] = "swap4" => slots = <<prim, old>>
     /\ pc[p] = "add2" => slots = <<new, prim>>
     /\ pc[p] \in {"add3", "add4"} => slots = <<new, sec>>
     /\ pc[p] \notin {"swap2", "swap3", "swap4", "add2", "add3", "add4"} => slots = <<prim, sec>>

\* A bucket with a call inside is what that call, the only one, makes of it.
LEMMA SlotsInside ==
  ASSUME MutualExclusion, NEW p \in Calls, pc[p] \in Critical
  PROVE  Holds(p, Slots(At(p)))
<1> DEFINE a == At(p)
           inside == {q \in Calls : pc[q] \in Critical /\ At(q) = a}
           chosen == CHOOSE q \in inside : TRUE
<1>1. inside = {p}
  BY DEF MutualExclusion
<1>2. chosen = p
  BY <1>1
<1> QED BY <1>1, <1>2 DEF Slots, Holds

\* The same in the next state.
LEMMA SlotsInsideNext ==
  ASSUME MutualExclusion', NEW p \in Calls, pc'[p] \in Critical
  PROVE  Holds(p, Slots(At(p)))'
<1> DEFINE inside == {q \in Calls : pc'[q] \in Critical /\ At(q)' = At(p)'}
           chosen == CHOOSE q \in inside : TRUE
<1>1. inside = {p}
  BY DEF MutualExclusion
<1>2. chosen = p
  BY <1>1
<1> QED BY <1>1, <1>2 DEF Slots, Holds

\* A bucket without a call inside is what its four words say.
Rest(b) == <<Entry(primKey[b], primAr[b]), Entry(secKey[b], secAr[b])>>

LEMMA SlotsAtRest ==
  ASSUME NEW b
  PROVE  /\ Untouched(b, Critical) => Slots(b) = Rest(b)
         /\ Untouched(b, Critical)' => Slots(b)' = Rest(b)'
<1>1. ASSUME Untouched(b, Critical) PROVE Slots(b) = Rest(b)
  <2>1. {p \in Calls : pc[p] \in Critical /\ At(p) = b} = {}
    BY <1>1 DEF Untouched
  <2> QED BY <2>1 DEF Slots, Rest
<1>2. ASSUME Untouched(b, Critical)' PROVE Slots(b)' = Rest(b)'
  <2>1. {p \in Calls : pc'[p] \in Critical /\ At(p)' = b} = {}
    BY <1>2 DEF Untouched
  <2> QED BY <2>1 DEF Slots, Rest
<1> QED BY <1>1, <1>2

\* A step of call p leaves a bucket it is not inside of as it was.
LEMMA SlotsElsewhere ==
  ASSUME TypeOK, MutualExclusion, MutualExclusion', NEW p \in Calls, NEW b \in Buckets,
         \A q \in Calls : q # p => /\ pc'[q] = pc[q] /\ key'[q] = key[q]
                                  /\ tmp'[q] = tmp[q] /\ out'[q] = out[q],
         ~(pc[p] \in Critical /\ At(p) = b), ~(pc'[p] \in Critical /\ At(p)' = b),
         primKey'[b] = primKey[b], primAr'[b] = primAr[b],
         secKey'[b] = secKey[b], secAr'[b] = secAr[b]
  PROVE  Slots(b)' = Slots(b)
<1>1. CASE Untouched(b, Critical)
  <2>1. Untouched(b, Critical)'
    BY <1>1 DEF Untouched, At
  <2> QED BY <1>1, <2>1, SlotsAtRest DEF Rest, Entry
<1>2. CASE ~Untouched(b, Critical)
  <2>1. PICK q \in Calls : pc[q] \in Critical /\ At(q) = b
    BY <1>2 DEF Untouched
  <2>2. q # p /\ pc'[q] \in Critical /\ At(q)' = b
    BY <2>1 DEF At
  <2>3. Holds(q, Slots(At(q))) /\ Holds(q, Slots(At(q)))'
    BY <2>1, <2>2, SlotsInside, SlotsInsideNext
  <2>4. Slots(At(q)) = Slots(b) /\ Slots(At(q))' = Slots(b)'
    BY <2>1, <2>2
  <2> QED BY <2>1, <2>2, <2>3, <2>4 DEF Holds, Entry, Critical
<1> QED BY <1>1, <1>2

\* What the abstract bucket sees of a step of call p: nothing, when the step
\* leaves the call's own bucket as it was.
Contents == [b \in Buckets |-> Slots(b)]

LEMMA ContentsStep ==
  ASSUME NEW a \in Buckets, NEW s, \A b \in Buckets : b # a => Slots(b)' = Slots(b),
         Slots(a)' = s
  PROVE  Contents' = [Contents EXCEPT ![a] = s]
BY DEF Contents

\* A step of call p reaches no bucket but the one it works on.
LEMMA OthersKeepTheirSlots ==
  ASSUME TypeOK, MutualExclusion, MutualExclusion', NEW p \in Calls, Thread(p),
         NEW b \in Buckets, b # At(p)
  PROVE  Slots(b)' = Slots(b)
<1>1. /\ \A q \in Calls : q # p => pc'[q] = pc[q] /\ key'[q] = key[q]
      /\ pc'[p] # "idle" => key'[p] = key[p]
  BY ThreadStep
<1>2. ~(pc'[p] \in Critical /\ At(p)' = b)
  BY <1>1 DEF At, Critical
<1>3. \A q \in Calls : q # p => tmp'[q] = tmp[q] /\ out'[q] = out[q]
  <2> USE DEF TypeOK
  <2>1. CASE CacheLookup(p)
    BY <2>1 DEF CacheLookup, LookupLock, ComparePrimary, CompareSecondary, SwapSave,
                SwapPrimaryKey, SwapPrimaryAr, SwapSecondaryKey, SwapSecondaryAr, CopyOut,
                UnlockHit, UnlockMiss
  <2>2. CASE CacheAdd(p)
    BY <2>2 DEF CacheAdd, AddLock, AddSecondaryKey, AddSecondaryAr, AddPrimaryKey,
                AddPrimaryAr, AddUnlock
  <2>3. CASE Evaluate(p)
    BY <2>3 DEF Evaluate, EvaluateFull, EvaluateUncached, EvaluateInterrupted
  <2> QED BY <2>1, <2>2, <2>3 DEF Thread
<1>4. /\ primKey'[b] = primKey[b] /\ primAr'[b] = primAr[b]
      /\ secKey'[b] = secKey[b] /\ secAr'[b] = secAr[b]
  <2> USE DEF TypeOK, nodes
  <2>1. CASE CacheLookup(p)
    BY <2>1 DEF CacheLookup, LookupLock, ComparePrimary, CompareSecondary, SwapSave,
                SwapPrimaryKey, SwapPrimaryAr, SwapSecondaryKey, SwapSecondaryAr, CopyOut,
                UnlockHit, UnlockMiss
  <2>2. CASE CacheAdd(p)
    BY <2>2 DEF CacheAdd, AddLock, AddSecondaryKey, AddSecondaryAr, AddPrimaryKey,
                AddPrimaryAr, AddUnlock
  <2>3. CASE Evaluate(p)
    BY <2>3 DEF Evaluate, EvaluateFull, EvaluateUncached, EvaluateInterrupted
  <2> QED BY <2>1, <2>2, <2>3 DEF Thread
<1> QED BY <1>1, <1>2, <1>3, <1>4, SlotsElsewhere

\* A call that takes a bucket's lock finds no other inside, and one that gives
\* it back leaves none: the bucket is at rest on the other side of the step.
LEMMA EntersAndLeaves ==
  ASSUME TypeOK, MutualExclusion, MutualExclusion', NEW p \in Calls, Thread(p),
         NEW a, a = At(p)
  PROVE  /\ pc[p] \notin Critical /\ pc'[p] \in Critical => Untouched(a, Critical)
         /\ pc[p] \in Critical /\ pc'[p] \notin Critical => Untouched(a, Critical)'
<1>1. /\ \A q \in Calls : q # p => pc'[q] = pc[q] /\ key'[q] = key[q]
      /\ pc'[p] # "idle" => key'[p] = key[p]
  BY ThreadStep
<1>2. pc'[p] \in Critical => At(p)' = At(p)
  BY <1>1 DEF At, Critical
<1>3. ASSUME pc[p] \notin Critical, pc'[p] \in Critical PROVE Untouched(a, Critical)
  BY <1>1, <1>2, <1>3 DEF MutualExclusion, Untouched, At
<1>4. ASSUME pc[p] \in Critical, pc'[p] \notin Critical PROVE Untouched(a, Critical)'
  <2> SUFFICES ASSUME NEW q \in Calls, pc'[q] \in Critical PROVE At(q)' # a
    BY DEF Untouched
  <2>1. q # p /\ pc[q] \in Critical /\ At(q)' = At(q)
    BY <1>1, <1>4 DEF At
  <2> QED BY <1>4, <2>1 DEF MutualExclusion
<1> QED BY <1>3, <1>4

\* A step of the call that is inside bucket a, or enters or leaves it, seen
\* from outside: nothing changes but when an old entry is overwritten.
LEMMA SlotsStep ==
  ASSUME TypeOK, MutualExclusion, MutualExclusion', NEW p \in Calls, Thread(p),
         NEW a \in Buckets, a = At(p)
  PROVE  /\ pc[p] \in Critical => Holds(p, Slots(a))
         /\ pc[p] \notin Critical /\ pc'[p] \in Critical => Slots(a) = Rest(a)
         /\ pc'[p] \in Critical => Holds(p, Slots(a))'
         /\ pc[p] \in Critical /\ pc'[p] \notin Critical => Slots(a)' = Rest(a)'
         /\ pc[p] \notin Critical /\ pc'[p] \notin Critical => \A b \in Buckets : UNCHANGED Slots(b)
<1>1. /\ \A q \in Calls : q # p => pc'[q] = pc[q] /\ key'[q] = key[q]
      /\ pc'[p] # "idle" => key'[p] = key[p]
  BY ThreadStep
<1>2. pc'[p] \in Critical => At(p)' = At(p)
  BY <1>1 DEF At, Critical
<1>3. ASSUME pc'[p] \in Critical PROVE Holds(p, Slots(a))'
  <2>1. Holds(p, Slots(At(p)))'
    BY <1>3, SlotsInsideNext
  <2>2. Slots(At(p))' = Slots(a)'
    BY <1>2, <1>3
  <2> QED BY <2>1, <2>2 DEF Holds
<1>4. ASSUME pc[p] \notin Critical, pc'[p] \notin Critical, NEW b \in Buckets
      PROVE  UNCHANGED Slots(b)
  <2>1. /\ \A q \in Calls : q # p => tmp'[q] = tmp[q] /\ out'[q] = out[q]
        /\ UNCHANGED nodes
    <3> USE <1>4 DEF TypeOK, nodes, Critical, Go, Return
    <3>1. CASE CacheLookup(p)
      BY <3>1 DEF CacheLookup, LookupLock, ComparePrimary, CompareSecondary, SwapSave,
                  SwapPrimaryKey, SwapPrimaryAr, SwapSecondaryKey, SwapSecondaryAr, CopyOut,
                  UnlockHit, UnlockMiss
    <3>2. CASE CacheAdd(p)
      BY <3>2 DEF CacheAdd, AddLock, AddSecondaryKey, AddSecondaryAr, AddPrimaryKey,
                  AddPrimaryAr, AddUnlock
    <3>3. CASE Evaluate(p)
      BY <3>3 DEF Evaluate, EvaluateFull, EvaluateUncached, EvaluateInterrupted
    <3> QED BY <3>1, <3>2, <3>3 DEF Thread
  <2> QED BY <1>1, <1>4, <2>1, SlotsElsewhere DEF nodes
<1> QED BY <1>3, <1>4, SlotsInside, SlotsAtRest, EntersAndLeaves

\* A lookup promotes the secondary entry at the moment it overwrites it with
\* the old primary one, which it saved; no other step of it can be seen.
LEMMA LookupPromotes ==
  ASSUME TypeOK, MutualExclusion, MutualExclusion', Coherence, NEW p \in Calls, CacheLookup(p),
         NEW a \in Buckets, a = At(p)
  PROVE  Lru!Promote(a) \/ UNCHANGED Contents
<1>1. Thread(p) /\ ProgressOf(p) /\ EntryIsTrue(a) /\ key[p] \in Keys
  BY ThreadStep DEF Thread, Coherence, EntriesAreTrue
<1>2. \A b \in Buckets : b # a => Slots(b)' = Slots(b)
  BY <1>1, OthersKeepTheirSlots
<1>3. SUFFICES Slots(a)' = <<Slots(a)[2], Slots(a)[1]>> \/ Slots(a)' = Slots(a)
  <2>1. CASE Slots(a)' = <<Slots(a)[2], Slots(a)[1]>>
    BY <1>2, <2>1, ContentsStep DEF Contents, Lru!Promote
  <2>2. CASE Slots(a)' = Slots(a)
    BY <1>2, <2>2 DEF Contents
  <2> QED BY <1>3, <2>1, <2>2
<1>4. /\ pc[p] \in Critical => Holds(p, Slots(a))
      /\ pc[p] \notin Critical /\ pc'[p] \in Critical => Slots(a) = Rest(a)
      /\ pc'[p] \in Critical => Holds(p, Slots(a))'
      /\ pc[p] \in Critical /\ pc'[p] \notin Critical => Slots(a)' = Rest(a)'
  BY <1>1, SlotsStep
<1>5. pc'[p] \in Critical => At(p)' = a
  BY <1>1, ThreadStep DEF At, Critical
<1> USE DEF TypeOK, Go, Critical, Holds, Entry, nodes
<1>6. CASE LookupLock(p)
  BY <1>4, <1>5, <1>6 DEF LookupLock, Rest
<1>7. CASE UnlockHit(p) \/ UnlockMiss(p)
  BY <1>4, <1>7 DEF UnlockHit, UnlockMiss, Return, Rest
<1>8. CASE ComparePrimary(p) \/ CompareSecondary(p)
  BY <1>4, <1>5, <1>8 DEF ComparePrimary, CompareSecondary
<1>9. CASE SwapSave(p)
  BY <1>4, <1>5, <1>9 DEF SwapSave
<1>10. CASE CopyOut(p)
  BY <1>4, <1>5, <1>10 DEF CopyOut
<1>11. CASE SwapPrimaryKey(p)
  <2>1. Entry(tmp[p][1], tmp[p][2]) = Entry(primKey[a], primAr[a])
    <3>1. Untouched(a, {"swap2", "add4"})
      BY <1>11 DEF SwapPrimaryKey, MutualExclusion, Untouched
    <3>2. Truthful(primKey[a], primAr[a])
      BY <1>1, <3>1 DEF EntryIsTrue
    <3>3. pc[p] = "swap1"
      BY <1>11 DEF SwapPrimaryKey
    <3>4. tmp[p][1] = primKey[a] /\ Truthful(tmp[p][1], tmp[p][2])
      BY <1>1, <3>3 DEF ProgressOf
    <3> QED BY <3>2, <3>4 DEF Truthful
  <2> QED BY <1>4, <1>5, <1>11, <2>1 DEF SwapPrimaryKey
<1>12. CASE SwapPrimaryAr(p)
  BY <1>4, <1>5, <1>12 DEF SwapPrimaryAr
<1>13. CASE SwapSecondaryKey(p)
  <2>1. primKey[a] = secKey[a] /\ primAr[a] = secAr[a]
    <3>1. pc[p] = "swap3"
      BY <1>13 DEF SwapSecondaryKey
    <3>2. primKey[a] = key[p] /\ secKey[a] = key[p]
      BY <1>1, <3>1 DEF ProgressOf
    <3>3. Untouched(a, {"swap2", "add4"}) /\ Untouched(a, {"swap4", "add2"})
      BY <3>1 DEF MutualExclusion, Untouched
    <3>4. Truthful(primKey[a], primAr[a]) /\ Truthful(secKey[a], secAr[a])
      BY <1>1, <3>3 DEF EntryIsTrue
    <3> QED BY <1>1, <3>2, <3>4, NoKeyAssumption DEF Truthful
  <2>2. Slots(a) = <<Entry(tmp[p][1], tmp[p][2]), Entry(secKey[a], secAr[a])>>
    BY <1>4, <1>13 DEF SwapSecondaryKey
  <2>3. Slots(a)' = <<Entry(primKey[a], primAr[a]), Entry(tmp[p][1], tmp[p][2])>>
    BY <1>4, <1>5, <1>13 DEF SwapSecondaryKey
  <2> QED BY <2>1, <2>2, <2>3
<1>14. CASE SwapSecondaryAr(p)
  <2>1. secKey[a] = tmp[p][1]
    BY <1>1, <1>14 DEF SwapSecondaryAr, ProgressOf
  <2> QED BY <1>4, <1>5, <1>14, <2>1 DEF SwapSecondaryAr
<1> QED BY <1>6, <1>7, <1>8, <1>9, <1>10, <1>11, <1>12, <1>13, <1>14 DEF CacheLookup

\* An insertion counts from the moment the least recently used entry is lost.
LEMMA AddInserts ==
  ASSUME TypeOK, MutualExclusion, MutualExclusion', Coherence, NEW p \in Calls, CacheAdd(p),
         NEW a \in Buckets, a = At(p)
  PROVE  \/ \E e \in Keys \X Evaluations : Lru!Insert(a, e)
         \/ UNCHANGED Contents
<1>1. Thread(p) /\ ProgressOf(p) /\ key[p] \in Keys
  BY ThreadStep DEF Thread, Coherence
<1>2. \A b \in Buckets : b # a => Slots(b)' = Slots(b)
  BY <1>1, OthersKeepTheirSlots
<1>3. SUFFICES \/ \E e \in Keys \X Evaluations : Slots(a)' = <<e, Slots(a)[1]>>
               \/ Slots(a)' = Slots(a)
  <2>1. ASSUME NEW e \in Keys \X Evaluations, Slots(a)' = <<e, Slots(a)[1]>>
        PROVE  Lru!Insert(a, e)
    BY <1>2, <2>1, ContentsStep DEF Contents, Lru!Insert
  <2>2. CASE Slots(a)' = Slots(a)
    BY <1>2, <2>2 DEF Contents
  <2> QED BY <1>3, <2>1, <2>2
<1>4. /\ pc[p] \in Critical => Holds(p, Slots(a))
      /\ pc[p] \notin Critical /\ pc'[p] \in Critical => Slots(a) = Rest(a)
      /\ pc'[p] \in Critical => Holds(p, Slots(a))'
      /\ pc[p] \in Critical /\ pc'[p] \notin Critical => Slots(a)' = Rest(a)'
  BY <1>1, SlotsStep
<1>5. pc'[p] \in Critical => At(p)' = a
  BY <1>1, ThreadStep DEF At, Critical
<1> USE DEF TypeOK, Go, Critical, Holds, Entry, nodes
<1>6. CASE AddLock(p)
  BY <1>4, <1>5, <1>6 DEF AddLock, Rest
<1>7. CASE AddUnlock(p)
  BY <1>4, <1>7 DEF AddUnlock, Return, Rest
<1>8. CASE AddSecondaryKey(p)
  <2>1. out[p] = <<key[p], met>>
    BY <1>1, <1>8 DEF AddSecondaryKey, ProgressOf
  <2>2. <<key[p], out[p]>> \in Keys \X Evaluations
    BY <1>1, <2>1 DEF Evaluations
  <2>3. Slots(a) = Rest(a)
    BY <1>4, <1>8 DEF AddSecondaryKey, Rest
  <2>4. Slots(a)' = <<<<key[p], out[p]>>, Entry(primKey[a], primAr[a])>>
    BY <1>4, <1>5, <1>8 DEF AddSecondaryKey
  <2> QED BY <2>2, <2>3, <2>4 DEF Rest
<1>9. CASE AddSecondaryAr(p)
  <2>1. secKey[a] = primKey[a]
    BY <1>1, <1>9 DEF AddSecondaryAr, ProgressOf
  <2> QED BY <1>4, <1>5, <1>9, <2>1 DEF AddSecondaryAr
<1>10. CASE AddPrimaryKey(p)
  BY <1>4, <1>5, <1>10 DEF AddPrimaryKey
<1>11. CASE AddPrimaryAr(p)
  <2>1. primKey[a] = key[p] /\ key[p] # NoKey
    BY <1>1, <1>11, NoKeyAssumption DEF AddPrimaryAr, ProgressOf
  <2> QED BY <1>4, <1>5, <1>11, <2>1 DEF AddPrimaryAr
<1> QED BY <1>6, <1>7, <1>8, <1>9, <1>10, <1>11 DEF CacheAdd

\* The commands run while no call is inside a bucket and empty every slot.
LEMMA FlushEmpties ==
  ASSUME Quiescent, CacheFlush, pc' = pc
  PROVE  Lru!Flush
<1> SUFFICES ASSUME NEW b \in Buckets PROVE Slots(b)' = <<NoKey, NoKey>>
  BY DEF Lru!Flush
<1>1. Untouched(b, Critical)'
  BY DEF Quiescent, Untouched, Critical
<1>2. Slots(b)' = Rest(b)'
  BY <1>1, SlotsAtRest
<1> QED BY <1>2 DEF CacheFlush, Rest, Entry

\* Every step of the cache is a step of the two-entry buckets, or none.
LEMMA LruStep ==
  ASSUME TypeOK, MutualExclusion, MutualExclusion', Coherence, [Next]_vars
  PROVE  Lru!Next \/ UNCHANGED Contents
<1>1. ASSUME NEW p \in Calls, Thread(p) PROVE Lru!Next \/ UNCHANGED Contents
  <2>1. PICK a \in Buckets : a = At(p)
    BY <1>1, ThreadStep, HashAssumption DEF At
  <2>2. CASE CacheLookup(p)
    <3>1. Lru!Promote(a) \/ UNCHANGED Contents
      BY <2>1, <2>2, LookupPromotes
    <3> QED BY <3>1 DEF Lru!Next
  <2>3. CASE CacheAdd(p)
    <3>1. (\E e \in Keys \X Evaluations : Lru!Insert(a, e)) \/ UNCHANGED Contents
      BY <2>1, <2>3, AddInserts
    <3> QED BY <3>1 DEF Lru!Next
  <2>4. CASE Evaluate(p)
    <3>1. pc[p] \notin Critical /\ pc'[p] \notin Critical
      BY <2>4 DEF Evaluate, EvaluateFull, EvaluateUncached, EvaluateInterrupted, Go, Return,
                  TypeOK, Critical
    <3>2. \A b \in Buckets : Slots(b)' = Slots(b)
      BY <1>1, <2>1, <3>1, SlotsStep
    <3> QED BY <3>2 DEF Contents
  <2> QED BY <1>1, <2>2, <2>3, <2>4 DEF Thread
<1>2. ASSUME NEW p \in Calls, NEW k \in Keys, Request(p, k) \/ RequestUncached(p, k)
      PROVE  UNCHANGED Contents
  <2>1. /\ \A q \in Calls : q # p => pc'[q] = pc[q] /\ key'[q] = key[q]
        /\ UNCHANGED <<nodes, tmp, out>>
        /\ pc[p] \notin Critical /\ pc'[p] \notin Critical
    BY <1>2 DEF Request, RequestUncached, Go, TypeOK, Critical
  <2>2. \A b \in Buckets : Slots(b)' = Slots(b)
    BY <2>1, SlotsElsewhere DEF nodes
  <2> QED BY <2>2 DEF Contents
<1>3. CASE Quiescent /\ CacheFlush /\ pc' = pc
  BY <1>3, FlushEmpties DEF Lru!Next
<1>4. CASE UNCHANGED vars
  <2> SUFFICES ASSUME NEW b \in Buckets PROVE Slots(b)' = Slots(b)
    BY DEF Contents
  <2> QED BY <1>4 DEF vars, nodes, Slots, Entry, At
<1> QED BY <1>1, <1>2, <1>3, <1>4 DEF Next, CommandClearCache, CommandSetMET, EvalCacheResize

\* The cache implements two-entry buckets that keep the most recently used
\* key and lose the other one: a lookup and an insertion behave as if each
\* were a single step, though they copy word by word (CacheLookup, CacheAdd)
\* and though nested calls of a thread come in between.
THEOREM MostRecentlyUsedKept == Spec => LeastRecentlyUsed
<1>1. Init => Lru!Init
  <2> SUFFICES ASSUME Init, NEW b \in Buckets PROVE Slots(b) = <<NoKey, NoKey>>
    BY DEF Lru!Init
  <2>1. Untouched(b, Critical)
    BY DEF Init, Untouched, Critical
  <2>2. Slots(b) = Rest(b)
    BY <2>1, SlotsAtRest
  <2> QED BY <2>2 DEF Init, Rest, Entry
<1>2. ASSUME TypeOK, Exclusion, Coherence, Exclusion', [Next]_vars
      PROVE  [Lru!Next]_([b \in Buckets |-> Slots(b)])
  BY <1>2, LruStep DEF Exclusion, Contents
<1> QED BY <1>1, <1>2, Invariant, PTL DEF Spec, LeastRecentlyUsed, Lru!Spec
=============================================================================
