----------------------------- MODULE EvalCache -----------------------------
(***************************************************************************)
(* The evaluation cache: lib/cache.c, its caller EvaluatePositionCache     *)
(* (eval.c) and the commands that flush it.                                *)
(*                                                                         *)
(* A bucket (cacheNode) has a primary and a secondary entry and a spin     *)
(* lock.  An entry is a struct that the C code copies word by word, so its *)
(* key and its evaluation are two variables here and a copy is two steps:  *)
(* only the lock keeps another thread from seeing half a copy.             *)
(*                                                                         *)
(* An evaluation that looks n plies ahead calls EvaluatePositionCache again *)
(* for n - 1 plies, without a lock held: a call is a thread and a depth,   *)
(* and a call deeper than the first exists while its parent evaluates.     *)
(*                                                                         *)
(* A failed test-and-set and the read-only inner loop of cache_lock change *)
(* nothing, so a spinning thread is one that waits for lock = 0.           *)
(***************************************************************************)
EXTENDS Integers

CONSTANTS Threads,   \* the calculation threads
          MaxPly,    \* the deepest look-ahead
          Keys,      \* <<position key, nEvalContext>> pairs, as model values
          Buckets,   \* indices into pc->entries
          Hash,      \* GetHashKey: the bucket of every key
          METs,      \* the match equity tables a session may load
          Locking,   \* the ...WithLocking functions are in use
          NoKey,     \* a key whose data[0] is -1: equal to no position's key
          NoValue    \* no reproducible evaluation: noise, or ar never written

\* MT_SetNumThreads selects the functions without locking for one thread.
ASSUME LockingAssumption == Locking \in BOOLEAN /\ (Locking \/ \A t, u \in Threads : t = u)
ASSUME HashAssumption == Hash \in [Keys -> Buckets]
ASSUME NoKeyAssumption == NoKey \notin Keys
ASSUME PlyAssumption == MaxPly \in Nat

VARIABLES
    lock,               \* entries[b].lock
    primKey, primAr,    \* entries[b].nd_primary
    secKey, secAr,      \* entries[b].nd_secondary
    cCache,             \* TRUE iff the cache has a size
    pc,                 \* where call p is
    key,                \* key[p]: the local ec.key / ec.nEvalContext
    tmp,                \* tmp[p]: the local copy CacheLookup swaps through
    out,                \* out[p]: arOutput
    met                 \* the match equity table evaluations use

nodes == <<primKey, primAr, secKey, secAr>>
vars == <<lock, nodes, cCache, pc, key, tmp, out, met>>

Calls == Threads \X (0..MaxPly)
Evaluations == {<<k, m>> : k \in Keys, m \in METs}
Ars == Evaluations \cup {NoValue}
Labels == {"idle", "bypass", "lookup", "cmp1", "cmp2", "swap0", "swap1", "swap2", "swap3",
           "swap4", "copy", "hit", "miss", "eval", "add", "add1", "add2", "add3", "add4", "added"}

\* The call is between cache_lock and cache_unlock.
Critical == {"cmp1", "cmp2", "swap0", "swap1", "swap2", "swap3", "swap4",
             "copy", "hit", "miss", "add1", "add2", "add3", "add4", "added"}

\* The bucket call p works on: l, the index CacheLookup returns on a miss.
At(p) == Hash[key[p]]

Go(p, from, to) == pc[p] = from /\ pc' = [pc EXCEPT ![p] = to]

\* The call ends and its locals with it.
Return(p, from) == Go(p, from, "idle") /\ key' = [key EXCEPT ![p] = NoKey]

Init == /\ lock = [b \in Buckets |-> 0]
        /\ primKey = [b \in Buckets |-> NoKey] /\ primAr = [b \in Buckets |-> NoValue]
        /\ secKey = [b \in Buckets |-> NoKey] /\ secAr = [b \in Buckets |-> NoValue]
        /\ cCache = TRUE
        /\ pc = [p \in Calls |-> "idle"]
        /\ key = [p \in Calls |-> NoKey]
        /\ tmp = [p \in Calls |-> <<NoKey, NoValue>>]
        /\ out = [p \in Calls |-> NoValue]
        /\ met \in METs

-----------------------------------------------------------------------------
\* The lock.

\* Mutants of CacheLock: the test of the old value lost, and a counting lock
\* whose holder is not looked for.
MutLockUntested(p) == IF Locking THEN lock' = [lock EXCEPT ![At(p)] = 1] ELSE UNCHANGED lock
MutLockCounts(p) == IF Locking THEN lock' = [lock EXCEPT ![At(p)] = @ + 1] ELSE UNCHANGED lock

CacheLock(p) == IF Locking THEN /\ lock[At(p)] = 0
                                /\ lock' = [lock EXCEPT ![At(p)] = 1]
                           ELSE UNCHANGED lock

CacheUnlock(p) == IF Locking THEN lock' = [lock EXCEPT ![At(p)] = 0]
                             ELSE UNCHANGED lock

-----------------------------------------------------------------------------
\* EvaluatePositionCache and CacheLookup.

\* The caller is EvaluatePosition, or EvaluatePositionFull one ply up, which
\* passes its own evaluation context (and with it rNoise) down.
CalledFrom(p, where) == p[2] > 0 => pc[<<p[1], p[2] - 1>>] = where

Request(p, k) == /\ cCache
                 /\ CalledFrom(p, "eval")
                 /\ Go(p, "idle", "lookup")
                 /\ key' = [key EXCEPT ![p] = k]
                 /\ UNCHANGED <<lock, nodes, cCache, tmp, out, met>>

\* A noisy evaluation, or one without a cache, goes straight to the evaluator.
RequestUncached(p, k) == /\ CalledFrom(p, "bypass")
                         /\ Go(p, "idle", "bypass")
                         /\ key' = [key EXCEPT ![p] = k]
                         /\ UNCHANGED <<lock, nodes, cCache, tmp, out, met>>

LookupLock(p) == /\ Go(p, "lookup", "cmp1")
                 /\ CacheLock(p)
                 /\ UNCHANGED <<nodes, cCache, key, tmp, out, met>>

ComparePrimary(p) == /\ Go(p, "cmp1", IF primKey[At(p)] = key[p] THEN "copy" ELSE "cmp2")
                     /\ UNCHANGED <<lock, nodes, cCache, key, tmp, out, met>>

CompareSecondary(p) == /\ Go(p, "cmp2", IF secKey[At(p)] = key[p] THEN "swap0" ELSE "miss")
                       /\ UNCHANGED <<lock, nodes, cCache, key, tmp, out, met>>

SwapSave(p) == /\ Go(p, "swap0", "swap1")
               /\ tmp' = [tmp EXCEPT ![p] = <<primKey[At(p)], primAr[At(p)]>>]
               /\ UNCHANGED <<lock, nodes, cCache, key, out, met>>

SwapPrimaryKey(p) == /\ Go(p, "swap1", "swap2")
                     /\ primKey' = [primKey EXCEPT ![At(p)] = secKey[At(p)]]
                     /\ UNCHANGED <<lock, primAr, secKey, secAr, cCache, key, tmp, out, met>>

SwapPrimaryAr(p) == /\ Go(p, "swap2", "swap3")
                    /\ primAr' = [primAr EXCEPT ![At(p)] = secAr[At(p)]]
                    /\ UNCHANGED <<lock, primKey, secKey, secAr, cCache, key, tmp, out, met>>

SwapSecondaryKey(p) == /\ Go(p, "swap3", "swap4")
                       /\ secKey' = [secKey EXCEPT ![At(p)] = tmp[p][1]]
                       /\ UNCHANGED <<lock, primKey, primAr, secAr, cCache, key, tmp, out, met>>

SwapSecondaryAr(p) == /\ Go(p, "swap4", "copy")
                      /\ secAr' = [secAr EXCEPT ![At(p)] = tmp[p][2]]
                      /\ tmp' = [tmp EXCEPT ![p] = <<NoKey, NoValue>>]
                      /\ UNCHANGED <<lock, primKey, primAr, secKey, cCache, key, out, met>>

CopyOut(p) == /\ Go(p, "copy", "hit")
              /\ out' = [out EXCEPT ![p] = primAr[At(p)]]
              /\ UNCHANGED <<lock, nodes, cCache, key, tmp, met>>

UnlockHit(p) == /\ Return(p, "hit")
                /\ CacheUnlock(p)
                /\ UNCHANGED <<nodes, cCache, tmp, out, met>>

\* Mutant: the miss path returns without cache_unlock.
MutMissKeepsLock(p) == /\ Go(p, "miss", "eval")
                       /\ UNCHANGED <<lock, nodes, cCache, key, tmp, out, met>>

UnlockMiss(p) == /\ Go(p, "miss", "eval")
                 /\ CacheUnlock(p)
                 /\ UNCHANGED <<nodes, cCache, key, tmp, out, met>>

-----------------------------------------------------------------------------
\* EvaluatePositionFull, without the lock, then CacheAdd.

NoCallBelow(p) == p[2] < MaxPly => pc[<<p[1], p[2] + 1>>] = "idle"

EvaluateFull(p) == /\ NoCallBelow(p)
                   /\ Go(p, "eval", "add")
                   /\ out' = [out EXCEPT ![p] = <<key[p], met>>]
                   /\ UNCHANGED <<lock, nodes, cCache, key, tmp, met>>

EvaluateUncached(p) == /\ NoCallBelow(p)
                       /\ Return(p, "bypass")
                       /\ out' = [out EXCEPT ![p] = NoValue]
                       /\ UNCHANGED <<lock, nodes, cCache, tmp, met>>

\* fInterrupt: -1 is returned up the recursion and nothing is stored.
\* Mutant: the error return is not looked at.
MutInterruptedIsStored(p) == /\ NoCallBelow(p)
                             /\ Go(p, "eval", "add")
                             /\ UNCHANGED <<lock, nodes, cCache, key, tmp, out, met>>

EvaluateInterrupted(p) == /\ NoCallBelow(p)
                          /\ Return(p, "eval")
                          /\ UNCHANGED <<lock, nodes, cCache, tmp, out, met>>

AddLock(p) == /\ Go(p, "add", "add1")
              /\ CacheLock(p)
              /\ UNCHANGED <<nodes, cCache, key, tmp, out, met>>

\* Mutant: the new entry replaces the primary one, which is not kept.
MutNotDemoted(p) == /\ Go(p, "add1", "add3")
                    /\ UNCHANGED <<lock, nodes, cCache, key, tmp, out, met>>

AddSecondaryKey(p) == /\ Go(p, "add1", "add2")
                      /\ secKey' = [secKey EXCEPT ![At(p)] = primKey[At(p)]]
                      /\ UNCHANGED <<lock, primKey, primAr, secAr, cCache, key, tmp, out, met>>

AddSecondaryAr(p) == /\ Go(p, "add2", "add3")
                     /\ secAr' = [secAr EXCEPT ![At(p)] = primAr[At(p)]]
                     /\ UNCHANGED <<lock, primKey, primAr, secKey, cCache, key, tmp, out, met>>

AddPrimaryKey(p) == /\ Go(p, "add3", "add4")
                    /\ primKey' = [primKey EXCEPT ![At(p)] = key[p]]
                    /\ UNCHANGED <<lock, primAr, secKey, secAr, cCache, key, tmp, out, met>>

AddPrimaryAr(p) == /\ Go(p, "add4", "added")
                   /\ primAr' = [primAr EXCEPT ![At(p)] = out[p]]
                   /\ UNCHANGED <<lock, primKey, secKey, secAr, cCache, key, tmp, out, met>>

AddUnlock(p) == /\ Return(p, "added")
                /\ CacheUnlock(p)
                /\ UNCHANGED <<nodes, cCache, tmp, out, met>>

-----------------------------------------------------------------------------
\* What the commands below assume of the program around the cache: they run
\* while no evaluation is under way.  The wait for tasks grabs input, except
\* with fBackgroundAnalysis, when only the menus are insensitive and the
\* command panel could deliver them: that is not modelled.

Quiescent == \A p \in Calls : pc[p] = "idle"

\* Mutant: the secondary entries survive.
MutFlushPrimaryOnly == /\ primKey' = [b \in Buckets |-> NoKey]
                       /\ lock' = [b \in Buckets |-> 0]
                       /\ UNCHANGED secKey

CacheFlush == /\ primKey' = [b \in Buckets |-> NoKey]
              /\ secKey' = [b \in Buckets |-> NoKey]
              /\ lock' = [b \in Buckets |-> 0]

CommandClearCache == /\ Quiescent
                     /\ CacheFlush
                     /\ UNCHANGED <<primAr, secAr, cCache, pc, key, tmp, out, met>>

\* Mutant: the table changes under the cached results.
MutTableWithoutFlush(m) == /\ Quiescent
                           /\ met' = m
                           /\ UNCHANGED <<lock, nodes, cCache, pc, key, tmp, out>>

\* CommandSetMET, SetInvertMET: the new table, then the flush.
CommandSetMET(m) == /\ Quiescent
                    /\ met' = m
                    /\ CacheFlush
                    /\ UNCHANGED <<primAr, secAr, cCache, pc, key, tmp, out>>

\* CacheResize: new, uninitialised memory (or none), then CacheFlush.
EvalCacheResize(on) == /\ Quiescent
                       /\ cCache' = on
                       /\ CacheFlush
                       /\ primAr' = [b \in Buckets |-> NoValue]
                       /\ secAr' = [b \in Buckets |-> NoValue]
                       /\ UNCHANGED <<pc, key, tmp, out, met>>

CacheLookup(p) == \/ LookupLock(p) \/ ComparePrimary(p) \/ CompareSecondary(p) \/ SwapSave(p)
                  \/ SwapPrimaryKey(p) \/ SwapPrimaryAr(p)
                  \/ SwapSecondaryKey(p) \/ SwapSecondaryAr(p)
                  \/ CopyOut(p) \/ UnlockHit(p) \/ UnlockMiss(p)

CacheAdd(p) == \/ AddLock(p) \/ AddSecondaryKey(p) \/ AddSecondaryAr(p)
               \/ AddPrimaryKey(p) \/ AddPrimaryAr(p) \/ AddUnlock(p)

Evaluate(p) == EvaluateFull(p) \/ EvaluateUncached(p) \/ EvaluateInterrupted(p)

Thread(p) == CacheLookup(p) \/ Evaluate(p) \/ CacheAdd(p)

Next == \/ \E p \in Calls : Thread(p)
        \/ \E p \in Calls, k \in Keys : Request(p, k) \/ RequestUncached(p, k)
        \/ CommandClearCache
        \/ \E m \in METs : CommandSetMET(m)
        \/ \E on \in BOOLEAN : EvalCacheResize(on)

Spec == Init /\ [][Next]_vars

\* The scheduler runs every thread that can take a step; whether a request
\* follows is up to the caller.
FairSpec == Spec /\ \A p \in Calls : WF_vars(Thread(p))

-----------------------------------------------------------------------------
\* Properties

\* Every variable has its type, and a call has a key exactly while it runs.
TypeOK ==
    /\ lock \in [Buckets -> {0, 1}]
    /\ primKey \in [Buckets -> Keys \cup {NoKey}] /\ primAr \in [Buckets -> Ars]
    /\ secKey \in [Buckets -> Keys \cup {NoKey}] /\ secAr \in [Buckets -> Ars]
    /\ cCache \in BOOLEAN
    /\ pc \in [Calls -> Labels]
    /\ key \in [Calls -> Keys \cup {NoKey}]
    /\ tmp \in [Calls -> (Keys \cup {NoKey}) \X Ars]
    /\ out \in [Calls -> Ars]
    /\ met \in METs
    /\ \A p \in Calls : pc[p] # "idle" <=> key[p] \in Keys

\* Two calls never work inside the same bucket: the lock, or the one thread
\* for which MT_SetNumThreads drops it (whose nested calls come between a
\* lookup and its insertion), keeps them apart.
MutualExclusion ==
    \A p, q \in Calls : p # q /\ pc[p] \in Critical /\ pc[q] \in Critical => At(p) # At(q)

\* Every complete entry holds the evaluation of its own key under the table
\* in force: no mix of two entries (a torn copy), no noise, no result that
\* outlives a change of the match equity table.
Truthful(k, v) == k # NoKey => v = <<k, met>>

Untouched(b, labels) == \A p \in Calls : pc[p] \in labels => At(p) # b

EntryIsTrue(b) == /\ Untouched(b, {"swap2", "add4"}) => Truthful(primKey[b], primAr[b])
                  /\ Untouched(b, {"swap4", "add2"}) => Truthful(secKey[b], secAr[b])

EntriesAreTrue == \A b \in Buckets : EntryIsTrue(b)

\* A hit hands out the evaluation of the key that was asked for: what
\* TransparentCache needs of the cache alone.
HitsAreTrue == \A p \in Calls : pc[p] = "hit" => out[p] = <<key[p], met>>

\* The rest of the inductive invariant: a call has calls below it only while
\* it evaluates, a call inside a bucket holds its lock, and what each label
\* says about the entries, the local copy and the result.
StackDiscipline ==
    \A p, q \in Calls : p[1] = q[1] /\ p[2] < q[2] /\ pc[q] # "idle" => pc[p] \in {"eval", "bypass"}

HoldersLock == Locking => \A p \in Calls : pc[p] \in Critical => lock[At(p)] = 1

ProgressOf(p) ==
    /\ pc[p] \in {"swap0", "swap1", "swap2", "swap3"} => secKey[At(p)] = key[p]
    /\ pc[p] = "swap1" => tmp[p][1] = primKey[At(p)]
    /\ pc[p] \in {"swap1", "swap2", "swap3", "swap4"} => Truthful(tmp[p][1], tmp[p][2])
    /\ pc[p] \in {"swap2", "swap3", "swap4", "copy", "add4"} => primKey[At(p)] = key[p]
    /\ pc[p] = "swap4" => secKey[At(p)] = tmp[p][1]
    /\ pc[p] = "add2" => secKey[At(p)] = primKey[At(p)]
    /\ pc[p] \in {"hit", "add", "add1", "add2", "add3", "add4"} => out[p] = <<key[p], met>>

Exclusion == StackDiscipline /\ HoldersLock /\ MutualExclusion
Coherence == EntriesAreTrue /\ \A p \in Calls : ProgressOf(p)

\* A thread that takes a bucket's lock gives it back on every path: hit,
\* promotion, miss and insertion.
LocksAreReleased == \A b \in Buckets : lock[b] = 1 ~> lock[b] = 0

\* The callers cannot tell the cache from the evaluator: see EvalService.
Waiting == {"lookup", "cmp1", "cmp2", "swap0", "swap1", "swap2", "swap3", "swap4",
            "copy", "miss", "eval"}
Asked == [p \in Calls |-> IF pc[p] \in Waiting THEN key[p] ELSE NoKey]
Service == INSTANCE EvalService WITH asked <- Asked
TransparentCache == Service!Spec

\* What the two slots of bucket b hold, as the call inside will leave them:
\* a promotion counts from the moment the old secondary entry is overwritten,
\* an insertion from the moment it is lost.
Entry(k, v) == IF k = NoKey THEN NoKey ELSE <<k, v>>
Slots(b) ==
    LET inside == {p \in Calls : pc[p] \in Critical /\ At(p) = b}
        p == CHOOSE q \in inside : TRUE
        old == Entry(tmp[p][1], tmp[p][2])
        prim == Entry(primKey[b], primAr[b])
        sec == Entry(secKey[b], secAr[b])
        new == <<key[p], out[p]>>
    IN IF inside = {} THEN <<prim, sec>>
       ELSE CASE pc[p] \in {"swap2", "swap3"} -> <<old, sec>>
              [] pc[p] = "swap4" -> <<prim, old>>
              [] pc[p] = "add2" -> <<new, prim>>
              [] pc[p] \in {"add3", "add4"} -> <<new, sec>>
              [] OTHER -> <<prim, sec>>

\* Lookups and insertions behave as atomic operations on two-entry buckets
\* that keep the most recently used key: see LruBuckets.
Lru == INSTANCE LruBuckets WITH bucket <- [b \in Buckets |-> Slots(b)],
                                Entries <- Keys \X Evaluations,
                                Empty <- NoKey
LeastRecentlyUsed == Lru!Spec
=============================================================================
