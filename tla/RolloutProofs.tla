------------------------------ MODULE RolloutProofs ------------------------------
(***************************************************************************)
(* Theorems about Rollout, for any number of threads and alternatives and  *)
(* any sequence of commands.  First, who stops alternatives and when a     *)
(* thread may leave early: what multiLock protects.  Then the counters,    *)
(* which the threads change with atomic operations: what they say of the   *)
(* games that were played.                                                 *)
(***************************************************************************)
EXTENDS Rollout, FiniteSetTheorems, WellFoundedInduction, TLAPS

-----------------------------------------------------------------------------
(* Who stops alternatives, and when a thread may leave early.              *)

\* The places in which a thread holds multiLock.
CheckPlaces == {"none", "jsd", "jsdcube", "jsdcube2", "std", "std2", "std3", "decide"}

Stopped == {a \in Alts : fNoMore[a]}

\* The stopped ones of the moves that check_jsds has been through.
Later(t) == {a \in Stopped : \E j \in (i[t] + 1)..nAlternatives : rank[t][j] = a}

ControlTypes ==
    /\ fCubeRollout \in CubeRollouts /\ stopOn \in StopsOn
    /\ fNoMore \in [Alts -> BOOLEAN] /\ multiLock \in Procs \cup {Free}
    /\ pc \in [Procs -> Places] /\ alt \in [Procs -> Alts]
    /\ active \in [Procs -> 0..(2 * nAlternatives)]
    /\ rank \in [Procs -> Rankings] /\ i \in [Procs -> 1..(nAlternatives + 1)]

\* The main thread is in no loop, and the others rest unless it waits for them.
Roles ==
    /\ pc[Main] \in {"idle", "start", "wait", "enter"} \cup CheckPlaces
    /\ \A t \in Threads : pc[t] \notin {"idle", "start", "wait"}
    /\ pc[Main] # "wait" => \A t \in Threads : pc[t] = "end"

\* One thread at a time checks, and it is the holder of multiLock.
Locking == \A t \in Procs : pc[t] \in CheckPlaces <=> multiLock = t

\* Which check a thread is in.
CriterionOf(t) ==
    /\ pc[t] = "none" => stopOn = "none"
    /\ pc[t] = "jsd" => stopOn = "jsd" /\ ~fCubeRollout
    /\ pc[t] \in {"jsdcube", "jsdcube2"} => stopOn = "jsd" /\ fCubeRollout
    /\ pc[t] \in {"std", "std2", "std3"} => stopOn = "std"
    /\ pc[t] \in {"std2", "std3"} => fCubeRollout

\* What is known of the two sides of a cube decision in the midst of a check.
SidesOf(t) ==
    fCubeRollout => /\ pc[t] \in {"none", "jsdcube", "decide"} => fNoMore[1] = fNoMore[2]
                    /\ pc[t] = "jsdcube2" => fNoMore[1]
                    /\ pc[t] = "std3" => ~fNoMore[2]

\* active_alternatives is at least the number of those that are not stopped.
ActiveOf(t) ==
    /\ pc[t] \in {"take", "test", "giveback", "roll", "apply", "looped", "enter", "none",
                  "jsdcube", "jsdcube2"} => active[t] = nAlternatives
    /\ pc[t] = "jsd" => /\ active[t] >= i[t] /\ active[t] <= 2 * nAlternatives - i[t]
                        /\ active[t] >= nAlternatives - Cardinality(Later(t))
    /\ pc[t] = "std" => /\ active[t] >= nAlternatives + 1 - i[t]
                        /\ active[t] <= nAlternatives
                        /\ active[t] >= nAlternatives - Cardinality(Stopped)
    /\ pc[t] = "decide" => active[t] >= nAlternatives - Cardinality(Stopped)

Checks == \A t \in Procs : CriterionOf(t) /\ SidesOf(t) /\ ActiveOf(t)

Control == ControlTypes /\ Roles /\ Locking /\ Checks /\ StoppedTogether

-----------------------------------------------------------------------------
(* Alternatives. *)

\* There is an alternative at least, and a cube decision has its two sides.
LEMMA Alternatives ==
  ASSUME fCubeRollout \in CubeRollouts
  PROVE  /\ fCubeRollout \in BOOLEAN
         /\ nAlternatives \in Nat \ {0} /\ Alts = 1..nAlternatives
         /\ fCubeRollout => nAlternatives = 2
         /\ IsFiniteSet(Alts) /\ Cardinality(Alts) = nAlternatives
         /\ InOrder \in Rankings
<1>1. fCubeRollout \in BOOLEAN
  BY AlternativesAssumption
<1>2. nAlternatives \in Nat \ {0} /\ (fCubeRollout => nAlternatives = 2)
  BY <1>1, AlternativesAssumption DEF nAlternatives
<1>3. IsFiniteSet(Alts) /\ Cardinality(Alts) = nAlternatives
  BY <1>2, FS_Interval DEF Alts
<1>4. InOrder \in Rankings
  BY DEF InOrder, Rankings
<1> QED BY <1>1, <1>2, <1>3, <1>4 DEF Alts

\* The numbers of stopped and of other alternatives make up all of them.
LEMMA Running ==
  ASSUME fCubeRollout \in CubeRollouts, fNoMore \in [Alts -> BOOLEAN]
  PROVE  /\ IsFiniteSet(Stopped) /\ Cardinality(Stopped) \in Nat
         /\ Cardinality({a \in Alts : ~fNoMore[a]}) = nAlternatives - Cardinality(Stopped)
<1>1. IsFiniteSet(Alts) /\ Cardinality(Alts) = nAlternatives
  BY Alternatives
<1>2. Stopped \subseteq Alts /\ IsFiniteSet(Stopped) /\ Cardinality(Stopped) \in Nat
  BY <1>1, FS_Subset, FS_CardinalityType DEF Stopped
<1>3. {a \in Alts : ~fNoMore[a]} = Alts \ Stopped /\ Alts \cap Stopped = Stopped
  BY DEF Stopped
<1> QED BY <1>1, <1>2, <1>3, FS_Difference

\* A thread goes from a place to another, and no other does.
LEMMA Moves ==
  ASSUME ControlTypes, NEW t \in Procs, NEW from, NEW to, Go(t, from, to)
  PROVE  /\ pc[t] = from /\ pc'[t] = to
         /\ \A u \in Procs \ {t} : pc'[u] = pc[u]
BY DEF Go, ControlTypes

-----------------------------------------------------------------------------
(* Every step preserves the invariant. *)

\* Nothing is stopped before the first rollout, and all threads rest.
LEMMA InitialControl == Init => Control
<1> SUFFICES ASSUME Init PROVE Control
  OBVIOUS
<1>1. fCubeRollout \in CubeRollouts /\ stopOn \in StopsOn
  BY DEF Init
<1>2. /\ fCubeRollout \in BOOLEAN /\ nAlternatives \in Nat \ {0} /\ Alts = 1..nAlternatives
      /\ InOrder \in Rankings /\ (fCubeRollout => nAlternatives = 2)
  BY <1>1, Alternatives
<1>3. /\ pc = [t \in Procs |-> IF t = Main THEN "idle" ELSE "end"]
      /\ multiLock = Free /\ fNoMore = [a \in Alts |-> FALSE]
      /\ alt = [t \in Procs |-> 1] /\ active = [t \in Procs |-> nAlternatives]
      /\ rank = [t \in Procs |-> InOrder] /\ i = [t \in Procs |-> 1]
  BY DEF Init
<1>4. ControlTypes
  <2>1. 1 \in Alts /\ 1 \in 1..(nAlternatives + 1) /\ nAlternatives \in 0..(2 * nAlternatives)
    BY <1>2
  <2>2. pc \in [Procs -> Places]
    BY <1>3 DEF Places
  <2> QED BY <1>1, <1>2, <1>3, <2>1, <2>2 DEF ControlTypes
<1>5. Roles /\ Locking
  BY <1>3, ThreadsAssumption, FreeAssumption DEF Roles, Locking, Procs, CheckPlaces
<1>6. Checks
  BY <1>3 DEF Checks, CriterionOf, SidesOf, ActiveOf
<1>7. StoppedTogether
  BY <1>2, <1>3 DEF StoppedTogether
<1> QED BY <1>4, <1>5, <1>6, <1>7 DEF Control

\* A thread that goes on in its loop, outside of the checks, has counted all
\* alternatives as active and touches neither the lock nor what it protects.
LEMMA LoopSteps ==
  ASSUME Control, NEW t \in Threads,
         pc[t] \in {"next", "take", "test", "giveback", "roll", "apply", "looped"},
         NEW x \in {"take", "test", "giveback", "roll", "apply", "looped", "end", "enter"},
         pc' = [pc EXCEPT ![t] = x],
         NEW y \in Alts, alt' = [alt EXCEPT ![t] = y],
         \/ active' = active /\ pc[t] # "next"
         \/ active' = [active EXCEPT ![t] = nAlternatives],
         UNCHANGED <<fCubeRollout, stopOn, fNoMore, multiLock, rank, i>>
  PROVE  Control'
<1>1. t \in Procs /\ Alts' = Alts /\ nAlternatives' = nAlternatives /\ Rankings' = Rankings
  BY DEF Procs, Alts, nAlternatives, Rankings
<1>2. nAlternatives \in Nat \ {0}
  BY Alternatives DEF Control, ControlTypes
<1>3. /\ pc'[t] = x /\ \A u \in Procs \ {t} : pc'[u] = pc[u]
      /\ \A u \in Procs \ {t} : active'[u] = active[u]
      /\ (active'[t] = active[t] /\ pc[t] # "next") \/ active'[t] = nAlternatives
  BY <1>1 DEF Control, ControlTypes
<1>4. ControlTypes'
  <2>1. pc' \in [Procs -> Places]
    BY <1>1 DEF Control, ControlTypes, Places
  <2>2. nAlternatives \in 0..(2 * nAlternatives)
    BY <1>2
  <2>3. active' \in [Procs -> 0..(2 * nAlternatives)]
    BY <1>1, <2>2 DEF Control, ControlTypes
  <2> QED BY <1>1, <2>1, <2>3 DEF Control, ControlTypes
<1>5. Roles'
  BY <1>1, <1>3, ThreadsAssumption DEF Control, Roles, Procs
<1>6. Locking' /\ StoppedTogether'
  BY <1>1, <1>3 DEF Control, Locking, StoppedTogether, CheckPlaces
<1>7. Checks'
  <2>1. Stopped' = Stopped /\ \A u \in Procs : Later(u)' = Later(u)
    BY <1>1 DEF Stopped, Later
  <2>2. pc[t] # "next" => active[t] = nAlternatives
    BY <1>1 DEF Control, Checks, ActiveOf
  <2>3. \A u \in Procs : CriterionOf(u)' /\ SidesOf(u)'
    BY <1>3 DEF Control, Checks, CriterionOf, SidesOf
  <2>4. \A u \in Procs : ActiveOf(u)'
    BY <1>1, <1>3, <2>1, <2>2 DEF Control, Checks, ActiveOf
  <2> QED BY <2>3, <2>4 DEF Checks
<1> QED BY <1>4, <1>5, <1>6, <1>7 DEF Control

\* The holder of multiLock may change what it protects: no other thread is in
\* a check.
LEMMA CheckSteps ==
  ASSUME Control, NEW t \in Procs,
         \/ pc[t] \in CheckPlaces
         \/ pc[t] = "enter" /\ multiLock = Free,
         multiLock' = t, pc'[t] \in CheckPlaces,
         \A u \in Procs \ {t} : pc'[u] = pc[u] /\ active'[u] = active[u],
         UNCHANGED <<fCubeRollout, stopOn>>,
         ControlTypes', CriterionOf(t)', SidesOf(t)', ActiveOf(t)'
  PROVE  Control'
<1>1. Alts' = Alts /\ nAlternatives' = nAlternatives /\ Rankings' = Rankings
  BY DEF Alts, nAlternatives, Rankings
<1>2. \A u \in Procs \ {t} : pc'[u] = pc[u] /\ pc[u] \notin CheckPlaces
  BY FreeAssumption DEF Control, Locking, Procs
<1>3. Roles'
  BY <1>2, ThreadsAssumption DEF Control, Roles, Procs, CheckPlaces
<1>4. Locking'
  BY <1>2 DEF Locking
<1>5. Checks'
  <2>1. ASSUME NEW u \in Procs \ {t}
        PROVE  CriterionOf(u)' /\ SidesOf(u)' /\ ActiveOf(u)'
    BY <1>1, <1>2 DEF Control, Checks, CriterionOf, SidesOf, ActiveOf, CheckPlaces
  <2> QED BY <2>1 DEF Checks
<1>6. StoppedTogether'
  BY FreeAssumption DEF StoppedTogether, Procs
<1> QED BY <1>3, <1>4, <1>5, <1>6 DEF Control

\* A thread enters a check: with all alternatives counted as active.
LEMMA EnterCheckKeeps ==
  ASSUME Control, NEW t \in Procs, EnterCheck(t)
  PROVE  Control'
<1>1. /\ nAlternatives \in Nat \ {0} /\ InOrder \in Rankings /\ fCubeRollout \in BOOLEAN
      /\ IsFiniteSet(Stopped) /\ Cardinality(Stopped) \in Nat /\ stopOn \in {"none", "jsd", "std"}
  BY Alternatives, Running, StopAssumption DEF Control, ControlTypes
<1>2. UNCHANGED <<fCubeRollout, cGames, stopOn, fInterrupt, rollouts, fNoMore, alt, active>>
  BY DEF EnterCheck, run
<1>3. Alts' = Alts /\ nAlternatives' = nAlternatives /\ Rankings' = Rankings
  BY <1>2 DEF Alts, nAlternatives, Rankings
<1>4. /\ pc[t] = "enter" /\ \A u \in Procs \ {t} : pc'[u] = pc[u]
      /\ pc'[t] = IF stopOn = "jsd" /\ fCubeRollout THEN "jsdcube" ELSE stopOn
  BY Moves DEF Control, EnterCheck
<1>5. multiLock = Free /\ multiLock' = t /\ pc'[t] \in CheckPlaces
  BY <1>1, <1>4 DEF EnterCheck, CheckPlaces
<1>6. active'[t] = nAlternatives
  BY <1>2, <1>4 DEF Control, Checks, ActiveOf
<1>7. i'[t] = IF stopOn = "jsd" /\ ~fCubeRollout THEN nAlternatives ELSE 1
  BY DEF EnterCheck, Control, ControlTypes
<1>8. ControlTypes'
  <2>1. rank' \in [Procs -> Rankings]
    BY <1>1 DEF EnterCheck, Control, ControlTypes
  <2>2. nAlternatives \in 1..(nAlternatives + 1) /\ 1 \in 1..(nAlternatives + 1)
    BY <1>1
  <2>3. i' \in [Procs -> 1..(nAlternatives + 1)]
    BY <2>2 DEF EnterCheck, Control, ControlTypes
  <2>4. pc' \in [Procs -> Places]
    BY <1>1 DEF EnterCheck, Go, Control, ControlTypes, Places
  <2> QED BY <1>2, <1>3, <1>5, <2>1, <2>3, <2>4 DEF Control, ControlTypes
<1>9. CriterionOf(t)'
  BY <1>1, <1>2, <1>4 DEF CriterionOf
<1>10. SidesOf(t)'
  BY <1>1, <1>2, <1>4, <1>5 DEF SidesOf, Control, StoppedTogether
<1>11. ActiveOf(t)'
  <2>1. Stopped' = Stopped
    BY <1>2, <1>3 DEF Stopped
  <2>2. IsFiniteSet(Later(t)') /\ Cardinality(Later(t)') \in Nat
    <3>1. Later(t)' \in SUBSET Stopped
      BY <2>1 DEF Later
    <3> QED BY <1>1, <3>1, FS_Subset, FS_CardinalityType
  <2> QED BY <1>1, <1>3, <1>4, <1>6, <1>7, <2>1, <2>2 DEF ActiveOf
<1> QED BY <1>2, <1>4, <1>5, <1>8, <1>9, <1>10, <1>11, CheckSteps

\* A step of a check that leaves the lock and the order alone has these facts.
LEMMA Checking ==
  ASSUME Control, NEW t \in Procs, pc[t] \in CheckPlaces, UNCHANGED checked
  PROVE  /\ UNCHANGED <<fCubeRollout, stopOn, multiLock, alt, rank>>
         /\ Alts' = Alts /\ nAlternatives' = nAlternatives /\ Rankings' = Rankings
         /\ multiLock' = t
         /\ nAlternatives \in Nat \ {0} /\ Alts = 1..nAlternatives
         /\ (fCubeRollout => nAlternatives = 2) /\ fCubeRollout \in BOOLEAN
         /\ IsFiniteSet(Stopped) /\ Cardinality(Stopped) \in Nat
         /\ active[t] \in 0..(2 * nAlternatives) /\ i[t] \in 1..(nAlternatives + 1)
<1>1. UNCHANGED <<fCubeRollout, stopOn, multiLock, alt, rank>>
  BY DEF checked, run
<1>2. Alts' = Alts /\ nAlternatives' = nAlternatives /\ Rankings' = Rankings
  BY <1>1 DEF Alts, nAlternatives, Rankings
<1>3. multiLock' = t
  BY <1>1 DEF Control, Locking
<1>4. /\ nAlternatives \in Nat \ {0} /\ Alts = 1..nAlternatives
      /\ (fCubeRollout => nAlternatives = 2) /\ fCubeRollout \in BOOLEAN
      /\ IsFiniteSet(Stopped) /\ Cardinality(Stopped) \in Nat
  BY Alternatives, Running DEF Control, ControlTypes
<1>5. active[t] \in 0..(2 * nAlternatives) /\ i[t] \in 1..(nAlternatives + 1)
  BY DEF Control, ControlTypes
<1> QED BY <1>1, <1>2, <1>3, <1>4, <1>5

\* One move of the sorted list is stopped, resumed or left as it is.
LEMMA JsdMoveKeeps ==
  ASSUME Control, NEW t \in Procs, JsdMove(t)
  PROVE  Control'
<1> DEFINE n == nAlternatives
           a == rank[t][i[t]]
<1>1. pc[t] = "jsd" /\ i[t] > 1 /\ pc' = pc /\ i' = [i EXCEPT ![t] = @ - 1] /\ UNCHANGED checked
  BY DEF JsdMove
<1>2. /\ UNCHANGED <<fCubeRollout, stopOn, multiLock, alt, rank>>
      /\ Alts' = Alts /\ nAlternatives' = n /\ Rankings' = Rankings
      /\ multiLock' = t /\ n \in Nat \ {0} /\ Alts = 1..n /\ fCubeRollout \in BOOLEAN
      /\ IsFiniteSet(Stopped) /\ Cardinality(Stopped) \in Nat
      /\ active[t] \in 0..(2 * n) /\ i[t] \in 1..(n + 1)
  BY <1>1, Checking DEF CheckPlaces
<1>3. /\ ~fCubeRollout /\ stopOn = "jsd"
      /\ active[t] >= i[t] /\ active[t] <= 2 * n - i[t]
      /\ active[t] >= n - Cardinality(Later(t))
  BY <1>1 DEF Control, Checks, CriterionOf, ActiveOf
<1>4. i[t] \in 2..n
  BY <1>1, <1>2, <1>3
<1>5. i'[t] = i[t] - 1 /\ i' \in [Procs -> 1..(n + 1)]
  BY <1>1, <1>2 DEF Control, ControlTypes
<1>6. rank[t] \in [Alts -> Alts] /\ a \in Alts /\ \A j \in (i[t] + 1)..n : rank[t][j] # a
  <2>1. i[t] \in Alts /\ \A j \in (i[t] + 1)..n : j \in Alts /\ j # i[t]
    BY <1>2, <1>4
  <2>2. rank[t] \in [Alts -> Alts] /\ \A c, d \in Alts : rank[t][c] = rank[t][d] => c = d
    BY DEF Control, ControlTypes, Rankings
  <2> QED BY <2>1, <2>2
<1>7. IsFiniteSet(Later(t)) /\ Cardinality(Later(t)) \in Nat
  BY <1>2, FS_Subset, FS_CardinalityType DEF Later
<1>8. \A b \in Alts : (\E j \in (i'[t] + 1)..n : rank[t][j] = b)
                        <=> b = a \/ \E j \in (i[t] + 1)..n : rank[t][j] = b
  <2>1. (i'[t] + 1)..n = {i[t]} \cup ((i[t] + 1)..n)
    BY <1>2, <1>4, <1>5
  <2> QED BY <2>1
<1>9. a \notin Later(t)
  BY <1>6 DEF Later
<1>10. \/ /\ fNoMore' = [fNoMore EXCEPT ![a] = TRUE]
          /\ active' = [active EXCEPT ![t] = @ - 1]
       \/ /\ fNoMore' = [fNoMore EXCEPT ![a] = FALSE]
          /\ active' = [active EXCEPT ![t] = IF fNoMore[a] THEN @ + 1 ELSE @]
       \/ UNCHANGED <<fNoMore, active>>
  BY DEF JsdMove
<1>11. fNoMore' \in [Alts -> BOOLEAN] /\ \A b \in Alts \ {a} : fNoMore'[b] = fNoMore[b]
  BY <1>10 DEF Control, ControlTypes
<1>12. \A b \in Alts \ {a} : b \in Later(t)' <=> b \in Later(t)
  BY <1>2, <1>8, <1>11, SMTT(30) DEF Later, Stopped
<1>13. a \in Later(t)' <=> fNoMore'[a]
  BY <1>2, <1>6, <1>8 DEF Later, Stopped
<1>14. Later(t) \subseteq Alts /\ Later(t)' \subseteq Alts
  BY <1>2 DEF Later, Stopped
<1>15. /\ active'[t] >= i'[t] /\ active'[t] <= 2 * n - i'[t]
       /\ active'[t] >= n - Cardinality(Later(t)')
       /\ \A u \in Procs \ {t} : active'[u] = active[u]
       /\ active' \in [Procs -> Int]
  <2>1. Later(t)' = Later(t) \/ Later(t)' = Later(t) \cup {a}
    BY <1>9, <1>12, <1>13, <1>14, <1>6
  <2>2. Cardinality(Later(t) \cup {a}) = Cardinality(Later(t)) + 1
    BY <1>7, <1>9, FS_AddElement
  <2>3. Cardinality(Later(t)') \in Nat /\ Cardinality(Later(t)') >= Cardinality(Later(t))
    <3>1. CASE Later(t)' = Later(t)
      BY <1>7, <3>1
    <3>2. CASE Later(t)' = Later(t) \cup {a}
      <4>1. Cardinality(Later(t)') = Cardinality(Later(t)) + 1
        BY <2>2, <3>2
      <4> QED BY <1>7, <4>1
    <3> QED BY <2>1, <3>1, <3>2
  <2>4. active \in [Procs -> Int]
    BY <1>2 DEF Control, ControlTypes
  <2>5. CASE fNoMore' = [fNoMore EXCEPT ![a] = TRUE] /\ active' = [active EXCEPT ![t] = @ - 1]
    <3>1. fNoMore'[a] /\ active'[t] = active[t] - 1
      BY <1>6, <2>4, <2>5 DEF Control, ControlTypes
    <3>2. Cardinality(Later(t)') = Cardinality(Later(t)) + 1
      BY <1>9, <1>13, <2>1, <2>2, <3>1
    <3>3. /\ \A u \in Procs \ {t} : active'[u] = active[u]
          /\ active' \in [Procs -> Int]
      BY <2>4, <2>5
    <3>4. active'[t] >= i'[t] /\ active'[t] <= 2 * n - i'[t]
      BY <1>2, <1>3, <1>4, <1>5, <3>1, SMTT(30)
    <3>5. active'[t] >= n - Cardinality(Later(t)')
      BY <1>2, <1>3, <1>7, <2>3, <3>1, <3>2
    <3> QED BY <3>3, <3>4, <3>5
  <2>6. CASE active' = [active EXCEPT ![t] = IF fNoMore[a] THEN @ + 1 ELSE @] \/ active' = active
    <3>1. active'[t] \in {active[t], active[t] + 1}
      BY <2>4, <2>6
    <3>2. /\ \A u \in Procs \ {t} : active'[u] = active[u]
          /\ active' \in [Procs -> Int]
      BY <2>4, <2>6
    <3>3. active'[t] >= i'[t] /\ active'[t] <= 2 * n - i'[t]
      BY <1>2, <1>3, <1>4, <1>5, <3>1, SMTT(30)
    <3>4. active'[t] >= n - Cardinality(Later(t)')
      BY <1>2, <1>3, <1>7, <2>3, <3>1
    <3> QED BY <3>2, <3>3, <3>4
  <2> QED BY <1>10, <2>5, <2>6
<1>16. ControlTypes'
  <2>1. active'[t] \in 0..(2 * n)
    BY <1>2, <1>4, <1>5, <1>15, SMTT(30)
  <2>2. active' \in [Procs -> 0..(2 * n)]
    BY <1>15, <2>1 DEF Control, ControlTypes
  <2> QED BY <1>1, <1>2, <1>5, <1>11, <2>2 DEF Control, ControlTypes
<1>17. CriterionOf(t)' /\ SidesOf(t)' /\ ActiveOf(t)'
  BY <1>1, <1>2, <1>3, <1>15 DEF CriterionOf, SidesOf, ActiveOf
<1> QED BY <1>1, <1>2, <1>15, <1>16, <1>17, CheckSteps DEF CheckPlaces

\* After the second of the list all have been gone through.
LEMMA JsdMovesDoneKeeps ==
  ASSUME Control, NEW t \in Procs, JsdMovesDone(t)
  PROVE  Control'
<1>1. pc[t] \in CheckPlaces /\ UNCHANGED checked
  BY DEF JsdMovesDone, Go, CheckPlaces
<1>2. /\ UNCHANGED <<fCubeRollout, stopOn, multiLock, alt, rank>>
      /\ Alts' = Alts /\ nAlternatives' = nAlternatives /\ Rankings' = Rankings
      /\ multiLock' = t
      /\ nAlternatives \in Nat \ {0} /\ Alts = 1..nAlternatives
      /\ (fCubeRollout => nAlternatives = 2) /\ fCubeRollout \in BOOLEAN
      /\ IsFiniteSet(Stopped) /\ Cardinality(Stopped) \in Nat
      /\ active[t] \in 0..(2 * nAlternatives) /\ i[t] \in 1..(nAlternatives + 1)
  BY <1>1, Checking
<1>3. /\ pc[t] = "jsd" /\ pc'[t] = "decide" /\ \A u \in Procs \ {t} : pc'[u] = pc[u]
      /\ i[t] = 1 /\ UNCHANGED <<fNoMore, active, i>>
  BY Moves DEF JsdMovesDone, Control
<1>4. ~fCubeRollout /\ active[t] >= nAlternatives - Cardinality(Later(t))
  BY <1>3 DEF Control, Checks, CriterionOf, ActiveOf
<1>5. Stopped' = Stopped
  BY <1>2, <1>3 DEF Stopped
<1>6. Cardinality(Later(t)) \in Nat /\ Cardinality(Later(t)) <= Cardinality(Stopped)
  <2>1. Later(t) \in SUBSET Stopped
    BY DEF Later
  <2> QED BY <1>2, <2>1, FS_Subset, FS_CardinalityType
<1>7. active'[t] >= nAlternatives - Cardinality(Stopped')
  BY <1>2, <1>3, <1>4, <1>5, <1>6
<1>8. ControlTypes'
  BY <1>2, <1>3 DEF Control, ControlTypes, JsdMovesDone, Go, Places
<1>9. CriterionOf(t)' /\ SidesOf(t)' /\ ActiveOf(t)'
  BY <1>2, <1>3, <1>4, <1>7 DEF CriterionOf, SidesOf, ActiveOf
<1> QED BY <1>1, <1>2, <1>3, <1>8, <1>9, CheckSteps DEF CheckPlaces

\* The first side of a cube decision stops, with the second one to follow.
LEMMA JsdCubeKeeps ==
  ASSUME Control, NEW t \in Procs, JsdCube(t)
  PROVE  Control'
<1>1. pc[t] \in CheckPlaces /\ UNCHANGED checked
  BY DEF JsdCube, Go, CheckPlaces
<1>2. /\ UNCHANGED <<fCubeRollout, stopOn, multiLock, alt, rank>>
      /\ Alts' = Alts /\ nAlternatives' = nAlternatives /\ Rankings' = Rankings
      /\ multiLock' = t
      /\ nAlternatives \in Nat \ {0} /\ Alts = 1..nAlternatives
      /\ (fCubeRollout => nAlternatives = 2) /\ fCubeRollout \in BOOLEAN
      /\ IsFiniteSet(Stopped) /\ Cardinality(Stopped) \in Nat
      /\ active[t] \in 0..(2 * nAlternatives) /\ i[t] \in 1..(nAlternatives + 1)
  BY <1>1, Checking
<1>3. /\ pc[t] = "jsdcube" /\ pc'[t] \in {"jsdcube2", "decide"}
      /\ \A u \in Procs \ {t} : pc'[u] = pc[u]
      /\ pc' \in [Procs -> Places] /\ UNCHANGED <<active, i>>
  BY DEF JsdCube, Go, Control, ControlTypes, Places
<1>4. /\ fCubeRollout /\ stopOn = "jsd" /\ active[t] = nAlternatives /\ fNoMore[1] = fNoMore[2]
  BY <1>3 DEF Control, Checks, CriterionOf, SidesOf, ActiveOf
<1>5. \/ pc'[t] = "jsdcube2" /\ fNoMore' = [fNoMore EXCEPT ![1] = TRUE]
      \/ pc'[t] = "decide" /\ fNoMore' = fNoMore
  BY <1>3 DEF JsdCube, Go, Control, ControlTypes
<1>6. fNoMore' \in [Alts -> BOOLEAN] /\ (pc'[t] = "jsdcube2" => fNoMore'[1])
  <2>1. 1 \in Alts /\ fNoMore \in [Alts -> BOOLEAN]
    BY <1>2 DEF Control, ControlTypes
  <2> QED BY <1>5, <2>1
<1>7. ControlTypes'
  BY <1>2, <1>3, <1>6 DEF Control, ControlTypes
<1>8. pc'[t] = "decide" => Stopped' = Stopped
  BY <1>2, <1>3, <1>5 DEF Stopped
<1>9. CriterionOf(t)' /\ SidesOf(t)'
  BY <1>2, <1>3, <1>4, <1>5, <1>6 DEF CriterionOf, SidesOf
<1>10. ActiveOf(t)'
  BY <1>2, <1>3, <1>4, <1>8 DEF ActiveOf
<1> QED BY <1>1, <1>2, <1>3, <1>7, <1>9, <1>10, CheckSteps DEF CheckPlaces

\* The second side follows before the lock is released.
LEMMA JsdCubeStopsKeeps ==
  ASSUME Control, NEW t \in Procs, JsdCubeStops(t)
  PROVE  Control'
<1>1. pc[t] \in CheckPlaces /\ UNCHANGED checked
  BY DEF JsdCubeStops, Go, CheckPlaces
<1>2. /\ UNCHANGED <<fCubeRollout, stopOn, multiLock, alt, rank>>
      /\ Alts' = Alts /\ nAlternatives' = nAlternatives /\ Rankings' = Rankings
      /\ multiLock' = t
      /\ nAlternatives \in Nat \ {0} /\ Alts = 1..nAlternatives
      /\ (fCubeRollout => nAlternatives = 2) /\ fCubeRollout \in BOOLEAN
      /\ IsFiniteSet(Stopped) /\ Cardinality(Stopped) \in Nat
      /\ active[t] \in 0..(2 * nAlternatives) /\ i[t] \in 1..(nAlternatives + 1)
  BY <1>1, Checking
<1>3. /\ pc[t] = "jsdcube2" /\ pc'[t] = "decide" /\ \A u \in Procs \ {t} : pc'[u] = pc[u]
      /\ UNCHANGED i
  BY Moves DEF JsdCubeStops, Control
<1>4. fCubeRollout /\ stopOn = "jsd" /\ fNoMore[1]
  BY <1>3 DEF Control, Checks, CriterionOf, SidesOf
<1>5. /\ fNoMore' \in [Alts -> BOOLEAN] /\ fNoMore'[1] /\ fNoMore'[2]
      /\ active'[t] = 0 /\ \A u \in Procs \ {t} : active'[u] = active[u]
      /\ active' \in [Procs -> 0..(2 * nAlternatives)]
  BY <1>2, <1>4 DEF JsdCubeStops, Control, ControlTypes
<1>6. ControlTypes'
  BY <1>2, <1>3, <1>5 DEF Control, ControlTypes, JsdCubeStops, Go, Places
<1>7. Cardinality(Stopped') = nAlternatives
  <2>1. Stopped' = Alts
    BY <1>2, <1>4, <1>5 DEF Stopped
  <2> QED BY <2>1, Alternatives DEF Control, ControlTypes
<1>8. CriterionOf(t)' /\ SidesOf(t)' /\ ActiveOf(t)'
  BY <1>2, <1>3, <1>5, <1>7 DEF CriterionOf, SidesOf, ActiveOf
<1> QED BY <1>1, <1>2, <1>3, <1>5, <1>6, <1>8, CheckSteps DEF CheckPlaces

\* One alternative is stopped, or left as it is.
LEMMA StdAlternativeKeeps ==
  ASSUME Control, NEW t \in Procs, StdAlternative(t)
  PROVE  Control'
<1>1. pc[t] \in CheckPlaces /\ UNCHANGED checked
  BY DEF StdAlternative, Go, CheckPlaces
<1>2. /\ UNCHANGED <<fCubeRollout, stopOn, multiLock, alt, rank>>
      /\ Alts' = Alts /\ nAlternatives' = nAlternatives /\ Rankings' = Rankings
      /\ multiLock' = t
      /\ nAlternatives \in Nat \ {0} /\ Alts = 1..nAlternatives
      /\ (fCubeRollout => nAlternatives = 2) /\ fCubeRollout \in BOOLEAN
      /\ IsFiniteSet(Stopped) /\ Cardinality(Stopped) \in Nat
      /\ active[t] \in 0..(2 * nAlternatives) /\ i[t] \in 1..(nAlternatives + 1)
  BY <1>1, Checking
<1>3. pc[t] = "std" /\ pc' = pc /\ i[t] <= nAlternatives /\ i' = [i EXCEPT ![t] = @ + 1]
  BY DEF StdAlternative
<1>4. /\ stopOn = "std"
      /\ active[t] >= nAlternatives + 1 - i[t] /\ active[t] <= nAlternatives
      /\ active[t] >= nAlternatives - Cardinality(Stopped)
  BY <1>3 DEF Control, Checks, CriterionOf, ActiveOf
<1>5. i[t] \in Alts /\ i'[t] = i[t] + 1 /\ i'[t] \in 1..(nAlternatives + 1)
  BY <1>2, <1>3 DEF Control, ControlTypes
<1>6. i' \in [Procs -> 1..(nAlternatives + 1)]
  BY <1>3, <1>5 DEF Control, ControlTypes
<1>7. \/ /\ ~fNoMore[i[t]] /\ fNoMore' = [fNoMore EXCEPT ![i[t]] = TRUE]
         /\ active' = [active EXCEPT ![t] = @ - 1]
      \/ UNCHANGED <<fNoMore, active>>
  BY DEF StdAlternative
<1>8. fNoMore' \in [Alts -> BOOLEAN]
  BY <1>5, <1>7 DEF Control, ControlTypes
<1>9. /\ active'[t] >= nAlternatives + 1 - i'[t] /\ active'[t] <= nAlternatives
      /\ active'[t] >= nAlternatives - Cardinality(Stopped')
      /\ active'[t] \in 0..(2 * nAlternatives)
      /\ \A u \in Procs \ {t} : active'[u] = active[u]
      /\ active' \in [Procs -> Int]
  <2>1. CASE /\ ~fNoMore[i[t]] /\ fNoMore' = [fNoMore EXCEPT ![i[t]] = TRUE]
             /\ active' = [active EXCEPT ![t] = @ - 1]
    <3>1. Stopped' = Stopped \cup {i[t]} /\ i[t] \notin Stopped
      BY <1>2, <1>5, <2>1 DEF Stopped, Control, ControlTypes
    <3>2. Cardinality(Stopped') = Cardinality(Stopped) + 1
      BY <1>2, <3>1, FS_AddElement
    <3>3. /\ active'[t] = active[t] - 1 /\ \A u \in Procs \ {t} : active'[u] = active[u]
          /\ active' \in [Procs -> Int]
      BY <2>1 DEF Control, ControlTypes
    <3>4. active'[t] >= nAlternatives - Cardinality(Stopped')
      BY <1>2, <1>4, <3>2, <3>3
    <3>5. i[t] \in Int /\ active[t] \in Int /\ nAlternatives \in Int /\ i[t] <= nAlternatives
      BY <1>2, <1>3
    <3>6. active'[t] >= nAlternatives + 1 - i'[t] /\ active'[t] <= nAlternatives
      BY <1>4, <1>5, <3>3, <3>5
    <3>7. active'[t] \in 0..(2 * nAlternatives)
      BY <1>5, <3>3, <3>5, <3>6
    <3> QED BY <3>3, <3>4, <3>6, <3>7
  <2>2. CASE UNCHANGED <<fNoMore, active>>
    <3>1. Stopped' = Stopped
      BY <1>2, <2>2 DEF Stopped
    <3>2. active \in [Procs -> Int]
      BY DEF Control, ControlTypes
    <3> QED BY <1>2, <1>4, <1>5, <2>2, <3>1, <3>2, SMTT(30)
  <2> QED BY <1>7, <2>1, <2>2
<1>10. ControlTypes'
  <2>1. active' \in [Procs -> 0..(2 * nAlternatives)]
    BY <1>9 DEF Control, ControlTypes
  <2> QED BY <1>2, <1>3, <1>6, <1>8, <2>1 DEF Control, ControlTypes
<1>11. CriterionOf(t)' /\ SidesOf(t)' /\ ActiveOf(t)'
  BY <1>2, <1>3, <1>4, <1>9 DEF CriterionOf, SidesOf, ActiveOf
<1> QED BY <1>1, <1>2, <1>3, <1>9, <1>10, <1>11, CheckSteps

\* The check of standard errors ends when both sides are stopped, unless they
\* are no cube decision.
LEMMA StdDoneKeeps ==
  ASSUME Control, NEW t \in Procs, StdDone(t)
  PROVE  Control'
<1>1. pc[t] \in CheckPlaces /\ UNCHANGED checked
  BY DEF StdDone, Go, CheckPlaces
<1>2. /\ UNCHANGED <<fCubeRollout, stopOn, multiLock, alt, rank>>
      /\ Alts' = Alts /\ nAlternatives' = nAlternatives /\ Rankings' = Rankings
      /\ multiLock' = t
      /\ nAlternatives \in Nat \ {0} /\ Alts = 1..nAlternatives
      /\ (fCubeRollout => nAlternatives = 2) /\ fCubeRollout \in BOOLEAN
      /\ IsFiniteSet(Stopped) /\ Cardinality(Stopped) \in Nat
      /\ active[t] \in 0..(2 * nAlternatives) /\ i[t] \in 1..(nAlternatives + 1)
  BY <1>1, Checking
<1>3. /\ pc[t] = "std" /\ \A u \in Procs \ {t} : pc'[u] = pc[u]
      /\ pc'[t] = IF fCubeRollout /\ (\E a \in Alts : ~fNoMore[a]) THEN "std2" ELSE "decide"
      /\ UNCHANGED <<fNoMore, active, i>>
  BY Moves DEF StdDone, Control
<1>4. stopOn = "std" /\ active[t] >= nAlternatives - Cardinality(Stopped)
  BY <1>3 DEF Control, Checks, CriterionOf, ActiveOf
<1>5. Stopped' = Stopped
  BY <1>2, <1>3 DEF Stopped
<1>6. fCubeRollout /\ pc'[t] = "decide" => fNoMore[1] /\ fNoMore[2]
  BY <1>2, <1>3
<1>7. ControlTypes'
  <2>1. pc' \in [Procs -> Places]
    BY DEF Control, ControlTypes, StdDone, Go, Places
  <2> QED BY <1>2, <1>3, <2>1 DEF Control, ControlTypes
<1>8. SidesOf(t)'
  <2>1. (fNoMore[1] \in BOOLEAN /\ fNoMore[2] \in BOOLEAN) \/ ~fCubeRollout
    BY <1>2 DEF Control, ControlTypes
  <2> QED BY <1>2, <1>3, <1>6, <2>1 DEF SidesOf
<1>9. CriterionOf(t)' /\ ActiveOf(t)'
  BY <1>2, <1>3, <1>4, <1>5 DEF CriterionOf, ActiveOf
<1> QED BY <1>1, <1>2, <1>3, <1>7, <1>8, <1>9, CheckSteps DEF CheckPlaces

\* The second side is resumed, and then the first one.
LEMMA StdCubeResumesKeeps ==
  ASSUME Control, NEW t \in Procs,
         StdCubeResumes(t, "std2", "std3", 2) \/ StdCubeResumes(t, "std3", "decide", 1)
  PROVE  Control'
<1>1. pc[t] \in CheckPlaces /\ UNCHANGED checked
  BY DEF StdCubeResumes, Go, CheckPlaces
<1>2. /\ UNCHANGED <<fCubeRollout, stopOn, multiLock, alt, rank>>
      /\ Alts' = Alts /\ nAlternatives' = nAlternatives /\ Rankings' = Rankings
      /\ multiLock' = t
      /\ nAlternatives \in Nat \ {0} /\ Alts = 1..nAlternatives
      /\ (fCubeRollout => nAlternatives = 2) /\ fCubeRollout \in BOOLEAN
      /\ IsFiniteSet(Stopped) /\ Cardinality(Stopped) \in Nat
      /\ active[t] \in 0..(2 * nAlternatives) /\ i[t] \in 1..(nAlternatives + 1)
  BY <1>1, Checking
<1>3. PICK a \in {1, 2} : /\ fNoMore' = [fNoMore EXCEPT ![a] = FALSE]
                           /\ (a = 1 => pc[t] = "std3" /\ pc'[t] = "decide")
                           /\ (a = 2 => pc[t] = "std2" /\ pc'[t] = "std3")
                           /\ pc' \in [Procs -> Places]
                           /\ \A u \in Procs \ {t} : pc'[u] = pc[u]
  BY DEF StdCubeResumes, Go, Control, ControlTypes, Places
<1>4. active' = [active EXCEPT ![t] = 2] /\ UNCHANGED i
  BY DEF StdCubeResumes
<1>5. fCubeRollout /\ nAlternatives = 2 /\ Alts = 1..2 /\ stopOn = "std"
      /\ (a = 1 => ~fNoMore[2])
  BY <1>2, <1>3 DEF Control, Checks, CriterionOf, SidesOf
<1>6. /\ fNoMore' \in [Alts -> BOOLEAN] /\ ~fNoMore'[2] /\ (a = 1 => ~fNoMore'[1])
      /\ (a = 1 => fNoMore'[1] = fNoMore'[2])
  <2>1. fNoMore \in [Alts -> BOOLEAN] /\ 1 \in Alts /\ 2 \in Alts
    BY <1>5 DEF Control, ControlTypes
  <2>2. fNoMore' \in [Alts -> BOOLEAN]
    BY <1>3, <2>1
  <2>3. CASE a = 1
    <3>1. fNoMore'[1] = FALSE /\ fNoMore'[2] = fNoMore[2] /\ fNoMore[2] = FALSE
      BY <1>3, <1>5, <2>1, <2>3
    <3> QED BY <2>2, <3>1
  <2>4. CASE a = 2
    BY <1>3, <2>1, <2>2, <2>4
  <2> QED BY <2>3, <2>4
<1>7. /\ active' \in [Procs -> 0..(2 * nAlternatives)]
      /\ active'[t] = 2 /\ \A u \in Procs \ {t} : active'[u] = active[u]
  BY <1>4, <1>5 DEF Control, ControlTypes
<1>8. ControlTypes'
  BY <1>2, <1>3, <1>4, <1>6, <1>7 DEF Control, ControlTypes
<1>9. Cardinality(Stopped') \in Nat
  <2>1. IsFiniteSet(Stopped')
    BY <1>2, <1>5, Alternatives, FS_Subset DEF Stopped, Control, ControlTypes
  <2> QED BY <2>1, FS_CardinalityType
<1>10. CriterionOf(t)' /\ SidesOf(t)'
  BY <1>2, <1>3, <1>5, <1>6 DEF CriterionOf, SidesOf
<1>11. ActiveOf(t)'
  BY <1>2, <1>3, <1>5, <1>7, <1>9 DEF ActiveOf
<1> QED BY <1>1, <1>2, <1>3, <1>7, <1>8, <1>10, <1>11, CheckSteps DEF CheckPlaces

\* Without a criterion nothing is stopped.
LEMMA CheckNothingKeeps ==
  ASSUME Control, NEW t \in Procs, CheckNothing(t)
  PROVE  Control'
<1>1. pc[t] \in CheckPlaces /\ UNCHANGED checked
  BY DEF CheckNothing, Go, CheckPlaces
<1>2. /\ UNCHANGED <<fCubeRollout, stopOn, multiLock, alt, rank>>
      /\ Alts' = Alts /\ nAlternatives' = nAlternatives /\ Rankings' = Rankings
      /\ multiLock' = t
      /\ nAlternatives \in Nat \ {0} /\ Alts = 1..nAlternatives
      /\ (fCubeRollout => nAlternatives = 2) /\ fCubeRollout \in BOOLEAN
      /\ IsFiniteSet(Stopped) /\ Cardinality(Stopped) \in Nat
      /\ active[t] \in 0..(2 * nAlternatives) /\ i[t] \in 1..(nAlternatives + 1)
  BY <1>1, Checking
<1>3. /\ pc[t] = "none" /\ pc'[t] = "decide" /\ \A u \in Procs \ {t} : pc'[u] = pc[u]
      /\ UNCHANGED <<fNoMore, active, i>>
  BY Moves DEF CheckNothing, Control
<1>4. active[t] = nAlternatives /\ (fCubeRollout => fNoMore[1] = fNoMore[2])
  BY <1>3 DEF Control, Checks, ActiveOf, SidesOf
<1>5. Stopped' = Stopped
  BY <1>2, <1>3 DEF Stopped
<1>6. ControlTypes'
  BY <1>2, <1>3 DEF Control, ControlTypes, CheckNothing, Go, Places
<1>7. CriterionOf(t)' /\ SidesOf(t)' /\ ActiveOf(t)'
  BY <1>2, <1>3, <1>4, <1>5 DEF CriterionOf, SidesOf, ActiveOf
<1> QED BY <1>1, <1>2, <1>3, <1>6, <1>7, CheckSteps DEF CheckPlaces

\* The lock is released when the two sides of a cube decision are equal again.
LEMMA DecideKeeps ==
  ASSUME Control, NEW t \in Procs, Decide(t)
  PROVE  Control'
<1>1. /\ UNCHANGED <<fCubeRollout, stopOn, fNoMore, alt, active, rank, i>> /\ multiLock' = Free
      /\ pc[t] = "decide" /\ \A u \in Procs \ {t} : pc'[u] = pc[u]
      /\ pc'[t] = IF t = Main THEN "start" ELSE IF DoneEarly(t) THEN "end" ELSE "next"
  BY Moves DEF Decide, run, locals, Control
<1>2. Alts' = Alts /\ nAlternatives' = nAlternatives /\ Rankings' = Rankings
  BY <1>1 DEF Alts, nAlternatives, Rankings
<1>3. \A u \in Procs : pc'[u] \notin CheckPlaces
  BY <1>1 DEF Control, Locking, CheckPlaces
<1>4. ControlTypes'
  <2>1. pc' \in [Procs -> Places]
    BY DEF Control, ControlTypes, Decide, Go, Places
  <2> QED BY <1>1, <1>2, <2>1 DEF Control, ControlTypes
<1>5. Roles'
  BY <1>1, ThreadsAssumption DEF Control, Roles, Procs, CheckPlaces
<1>6. Locking'
  BY <1>1, <1>3, FreeAssumption DEF Locking, Procs
<1>7. Checks'
  <2>1. ASSUME NEW u \in Procs PROVE CriterionOf(u)' /\ SidesOf(u)'
    BY <1>3 DEF CriterionOf, SidesOf, CheckPlaces
  <2>2. ASSUME NEW u \in Procs PROVE ActiveOf(u)'
    BY <1>1, <1>2, <1>3 DEF Control, Checks, ActiveOf, CheckPlaces
  <2> QED BY <2>1, <2>2 DEF Checks
<1>8. StoppedTogether'
  BY <1>1 DEF StoppedTogether, Control, Checks, SidesOf
<1> QED BY <1>4, <1>5, <1>6, <1>7, <1>8 DEF Control

\* Every step of a check keeps what is known of the checks.
LEMMA ChecksKeep ==
  ASSUME Control, NEW t \in Procs, Check(t)
  PROVE  Control'
BY EnterCheckKeeps, JsdMoveKeeps, JsdMovesDoneKeeps, JsdCubeKeeps, JsdCubeStopsKeeps,
   StdAlternativeKeeps, StdDoneKeeps, StdCubeResumesKeeps, CheckNothingKeeps, DecideKeeps DEF Check

\* A command starts with nothing stopped.
LEMMA RolloutGeneralKeeps ==
  ASSUME Control, NEW n \in TrialsAsked, NEW condition \in StopsOn,
         RolloutGeneral(n, condition)
  PROVE  Control'
<1>1. /\ UNCHANGED <<fCubeRollout, multiLock, alt, rank, i>>
      /\ pc[Main] = "idle" /\ pc'[Main] \in {"start", "enter"} /\ pc' \in [Procs -> Places]
      /\ \A u \in Procs \ {Main} : pc'[u] = pc[u]
      /\ stopOn' = condition /\ fNoMore' = [a \in Alts |-> FALSE]
      /\ active' = [active EXCEPT ![Main] = nAlternatives]
  BY DEF RolloutGeneral, Go, Control, ControlTypes, Places, Procs
<1>2. Alts' = Alts /\ nAlternatives' = nAlternatives /\ Rankings' = Rankings
  BY <1>1 DEF Alts, nAlternatives, Rankings
<1>3. /\ nAlternatives \in Nat \ {0} /\ Alts = 1..nAlternatives
      /\ (fCubeRollout => nAlternatives = 2) /\ fCubeRollout \in BOOLEAN
  BY Alternatives DEF Control, ControlTypes
<1>4. active' \in [Procs -> 0..(2 * nAlternatives)] /\ active'[Main] = nAlternatives
  <2>1. nAlternatives \in 0..(2 * nAlternatives)
    BY <1>3
  <2> QED BY <1>1, <2>1 DEF Control, ControlTypes, Procs
<1>5. ControlTypes'
  BY <1>1, <1>2, <1>4 DEF Control, ControlTypes
<1>6. \A u \in Threads : pc[u] = "end" /\ pc'[u] = "end"
  BY <1>1, ThreadsAssumption DEF Control, Roles, Procs
<1>7. Roles' /\ Locking'
  BY <1>1, <1>6 DEF Control, Roles, Locking, Procs, CheckPlaces
<1>8. Checks'
  BY <1>1, <1>2, <1>4, <1>6 DEF Checks, CriterionOf, SidesOf, ActiveOf, Procs
<1>9. StoppedTogether'
  BY <1>1, <1>2, <1>3 DEF StoppedTogether
<1> QED BY <1>5, <1>7, <1>8, <1>9 DEF Control

\* The threads start when none of them has the lock.
LEMMA StartThreadsKeeps ==
  ASSUME Control, StartThreads
  PROVE  Control'
<1>1. /\ UNCHANGED <<fCubeRollout, stopOn, fNoMore, multiLock, alt, active, rank, i>>
      /\ pc[Main] = "start"
      /\ \/ pc' = [t \in Procs |-> IF t = Main THEN "wait" ELSE "next"]
         \/ pc' = [pc EXCEPT ![Main] = "idle"]
  BY DEF StartThreads, run, locals
<1>2. Alts' = Alts /\ nAlternatives' = nAlternatives /\ Rankings' = Rankings
  BY <1>1 DEF Alts, nAlternatives, Rankings
<1>3. pc' \in [Procs -> Places] /\ Main \in Procs
  BY <1>1 DEF Control, ControlTypes, Places, Procs
<1>4. /\ pc'[Main] \in {"wait", "idle"} /\ \A u \in Threads : pc[u] = "end"
      /\ pc'[Main] = "wait" => \A u \in Threads : pc'[u] = "next"
      /\ pc'[Main] = "idle" => \A u \in Threads : pc'[u] = "end"
  BY <1>1, <1>3, ThreadsAssumption DEF Control, ControlTypes, Roles, Procs
<1>5. ControlTypes'
  BY <1>1, <1>2, <1>3 DEF Control, ControlTypes
<1>6. Roles' /\ Locking'
  BY <1>1, <1>4 DEF Control, Roles, Locking, Procs, CheckPlaces
<1>7. Checks'
  BY <1>4 DEF Checks, CriterionOf, SidesOf, ActiveOf, Procs
<1>8. StoppedTogether'
  BY <1>1 DEF StoppedTogether, Control
<1> QED BY <1>5, <1>6, <1>7, <1>8 DEF Control

\* The end of a command, and an interruption, change nothing of this.
LEMMA OthersKeep ==
  ASSUME Control, Finish \/ Interrupt \/ UNCHANGED vars
  PROVE  Control'
<1> DEFINE steady == <<fCubeRollout, stopOn, fNoMore, multiLock, alt, active, rank, i>>
<1>1. pc \in [Procs -> Places] /\ Main \in Procs /\ Threads \subseteq Procs \ {Main}
  BY ThreadsAssumption DEF Control, ControlTypes, Procs
<1>2. /\ UNCHANGED steady /\ pc' \in [Procs -> Places]
      /\ \A u \in Threads : pc'[u] = pc[u]
      /\ \/ pc'[Main] = pc[Main]
         \/ pc'[Main] = "idle" /\ pc[Main] = "wait" /\ \A u \in Threads : pc[u] = "end"
  <2>1. CASE Finish
    <3>1. pc' = [pc EXCEPT ![Main] = "idle"] /\ pc[Main] = "wait" /\ \A u \in Threads : pc[u] = "end"
      BY <2>1 DEF Finish, Go
    <3>2. UNCHANGED steady
      BY <2>1 DEF Finish, run, locals
    <3>3. pc' \in [Procs -> Places]
      BY <1>1, <3>1 DEF Places
    <3> QED BY <1>1, <3>1, <3>2, <3>3
  <2>2. CASE Interrupt
    BY <1>1, <2>2 DEF Interrupt, locals
  <2>3. CASE UNCHANGED vars
    BY <1>1, <2>3 DEF vars, run, locals
  <2> QED BY <2>1, <2>2, <2>3
<1>3. Alts' = Alts /\ nAlternatives' = nAlternatives /\ Rankings' = Rankings
  BY <1>2 DEF Alts, nAlternatives, Rankings
<1>4. ControlTypes'
  BY <1>2, <1>3 DEF Control, ControlTypes
<1>5. Roles' /\ Locking'
  BY <1>1, <1>2 DEF Control, Roles, Locking, Procs, CheckPlaces
<1>6. Checks'
  <2>1. Stopped' = Stopped /\ \A u \in Procs : Later(u)' = Later(u)
    BY <1>2, <1>3 DEF Stopped, Later
  <2> QED BY <1>2, <1>3, <2>1 DEF Control, Checks, CriterionOf, SidesOf, ActiveOf, Procs
<1>7. StoppedTogether'
  BY <1>2 DEF StoppedTogether, Control
<1> QED BY <1>4, <1>5, <1>6, <1>7 DEF Control

\* A thread in its loop, outside of the checks, keeps what is known of them.
LEMMA LoopKeeps ==
  ASSUME Control, NEW t \in Threads,
         \/ NextTrial(t) \/ TakeTrial(t) \/ TestAlternative(t) \/ GiveBack(t)
         \/ PlayTrial(t) \/ AddResult(t) \/ Looped(t)
  PROVE  Control'
<1>1. nAlternatives \in Nat \ {0} /\ Alts = 1..nAlternatives /\ t \in Procs /\ alt[t] \in Alts
  BY Alternatives DEF Control, ControlTypes, Procs
<1>2. alt = [alt EXCEPT ![t] = alt[t]] /\ active = [active EXCEPT ![t] = active[t]]
  BY DEF Control, ControlTypes
<1>3. ASSUME NEW from \in {"giveback", "apply"}, NextAlternative(t, from)
      PROVE  /\ pc[t] = from
             /\ \E x \in {"take", "looped"} : pc' = [pc EXCEPT ![t] = x]
             /\ \E y \in Alts : alt' = [alt EXCEPT ![t] = y]
  <2>1. alt[t] < nAlternatives => alt[t] + 1 \in Alts
    BY <1>1
  <2>2. alt' = [alt EXCEPT ![t] = IF alt[t] < nAlternatives THEN alt[t] + 1 ELSE alt[t]]
    BY <1>1, <1>3 DEF NextAlternative, Control, ControlTypes
  <2> QED BY <1>1, <1>3, <2>1, <2>2 DEF NextAlternative, Go
<1>4. CASE NextTrial(t)
  <2>1. 1 \in Alts
    BY <1>1
  <2> QED BY <1>4, <2>1, LoopSteps DEF NextTrial, Go, run
<1>5. CASE TakeTrial(t)
  BY <1>1, <1>2, <1>5, LoopSteps DEF TakeTrial, Go, run
<1>6. CASE TestAlternative(t)
  BY <1>1, <1>2, <1>6, LoopSteps DEF TestAlternative, Go, run, locals
<1>7. CASE GiveBack(t)
  BY <1>3, <1>7, LoopSteps DEF GiveBack, run
<1>8. CASE PlayTrial(t)
  BY <1>1, <1>2, <1>8, LoopSteps DEF PlayTrial, Go, run, locals
<1>9. CASE AddResult(t)
  BY <1>3, <1>9, LoopSteps DEF AddResult, run
<1>10. CASE Looped(t)
  BY <1>1, <1>2, <1>10, LoopSteps DEF Looped, Go, run, locals
<1> QED BY <1>4, <1>5, <1>6, <1>7, <1>8, <1>9, <1>10

\* Every step of the system keeps the invariant.
LEMMA ControlIsKept == Control /\ [Next]_vars => Control'
<1> SUFFICES ASSUME Control, [Next]_vars PROVE Control'
  OBVIOUS
<1>1. CASE \E n \in TrialsAsked, condition \in StopsOn : RolloutGeneral(n, condition)
  BY <1>1, RolloutGeneralKeeps
<1>2. CASE MainStep
  BY <1>2, StartThreadsKeeps, OthersKeep, ChecksKeep DEF MainStep, Procs
<1>3. CASE \E t \in Threads : ThreadStep(t)
  BY <1>3, LoopKeeps, ChecksKeep DEF ThreadStep, Procs
<1>4. CASE Interrupt \/ Ended \/ UNCHANGED vars
  BY <1>4, OthersKeep DEF Ended
<1> QED BY <1>1, <1>2, <1>3, <1>4 DEF Next

-----------------------------------------------------------------------------
(* What follows, for every value of the constants. *)

\* The control of a rollout is as the invariant says, in every state.
THEOREM ControlHolds == Spec => []Control
BY InitialControl, ControlIsKept, PTL DEF Spec

\* The two sides of a cube decision are stopped together or not at all, as seen
\* by any thread that may take multiLock: check_jsds and check_sds leave one
\* side stopped only while they hold the lock.
THEOREM SidesStopTogether == Spec => []StoppedTogether
<1>1. Control => StoppedTogether
  BY DEF Control
<1> QED BY <1>1, ControlHolds, PTL

\* A thread changes its place in its own steps only, but for the start.
LEMMA OwnSteps ==
  ASSUME Control, [Next]_vars, NEW t \in Threads, pc'[t] # pc[t]
  PROVE  ThreadStep(t) \/ (StartThreads /\ pc[t] = "end")
<1> DEFINE Own(u) == \A v \in Procs \ {u} : pc'[v] = pc[v]
<1>1. ControlTypes /\ t \in Procs /\ t # Main /\ Main \in Procs
  BY ThreadsAssumption DEF Control, Procs
<1>2. \A u \in Procs : Own(u) => u = t
  BY <1>1
<1> HIDE DEF Own
<1>3. ASSUME NEW u \in Procs, Check(u)
      PROVE  Own(u) \/ pc' = pc
  <2>1. CASE EnterCheck(u)
    BY <1>1, <2>1, Moves DEF EnterCheck, Own
  <2>2. CASE JsdMove(u) \/ StdAlternative(u)
    BY <2>2 DEF JsdMove, StdAlternative
  <2>3. CASE \/ JsdMovesDone(u) \/ JsdCube(u) \/ JsdCubeStops(u) \/ StdDone(u)
             \/ StdCubeResumes(u, "std2", "std3", 2) \/ StdCubeResumes(u, "std3", "decide", 1)
             \/ CheckNothing(u) \/ Decide(u)
    BY <1>1, <2>3, Moves DEF JsdMovesDone, JsdCube, JsdCubeStops, StdDone, StdCubeResumes,
                             CheckNothing, Decide, Own
  <2> QED BY <1>3, <2>1, <2>2, <2>3 DEF Check
<1>4. ASSUME NEW u \in Threads, ThreadStep(u)
      PROVE  u = t
  <2>1. CASE \/ NextTrial(u) \/ TakeTrial(u) \/ TestAlternative(u) \/ GiveBack(u)
             \/ PlayTrial(u) \/ AddResult(u) \/ Looped(u)
    <3>1. Own(u)
      BY <1>1, <2>1, Moves DEF NextTrial, TakeTrial, TestAlternative, GiveBack, PlayTrial,
                               AddResult, Looped, NextAlternative, Own, Procs
    <3> QED BY <1>2, <3>1 DEF Procs
  <2>2. CASE Check(u)
    BY <1>2, <1>3, <2>2 DEF Procs
  <2> QED BY <1>4, <2>1, <2>2 DEF ThreadStep
<1>5. \/ StartThreads
      \/ \E u \in Threads : ThreadStep(u)
      \/ Own(Main) \/ pc' = pc
  <2>1. CASE \E n \in TrialsAsked, condition \in StopsOn : RolloutGeneral(n, condition)
    BY <1>1, <2>1, Moves DEF RolloutGeneral, Own
  <2>2. CASE Finish
    BY <1>1, <2>2, Moves DEF Finish, Own
  <2>3. CASE Interrupt \/ Ended \/ UNCHANGED vars
    BY <2>3 DEF Interrupt, Ended, vars
  <2> QED BY <1>3, <2>1, <2>2, <2>3 DEF Next, MainStep, Procs
<1>6. StartThreads => pc[t] = "end"
  BY DEF StartThreads, Control, Roles
<1> QED BY <1>1, <1>2, <1>4, <1>5, <1>6 DEF Procs

\* The steps of a thread are told apart by the place it is in.
LEMMA StepAtDecide ==
  ASSUME NEW t \in Threads, ThreadStep(t), pc[t] = "decide"
  PROVE  Decide(t)
<1>1. ~(EnterCheck(t) \/ JsdMove(t) \/ JsdMovesDone(t) \/ JsdCube(t) \/ JsdCubeStops(t))
  BY DEF EnterCheck, JsdMove, JsdMovesDone, JsdCube, JsdCubeStops, Go
<1>2. ~(StdAlternative(t) \/ StdDone(t) \/ CheckNothing(t))
  BY DEF StdAlternative, StdDone, CheckNothing, Go
<1>3. ~(StdCubeResumes(t, "std2", "std3", 2) \/ StdCubeResumes(t, "std3", "decide", 1))
  BY DEF StdCubeResumes, Go
<1>4. ~(NextTrial(t) \/ TakeTrial(t) \/ TestAlternative(t) \/ PlayTrial(t) \/ Looped(t))
  BY DEF NextTrial, TakeTrial, TestAlternative, PlayTrial, Looped, Go
<1>5. ~(GiveBack(t) \/ AddResult(t))
  BY DEF GiveBack, AddResult, NextAlternative, Go
<1> QED BY <1>1, <1>2, <1>3, <1>4, <1>5 DEF ThreadStep, Check

\* The alternatives that are rolled out are no more than a thread in "decide"
\* counts as active.
LEMMA EarlyEnd ==
  ASSUME Control, [Next]_vars, NEW t \in Procs, pc[t] = "decide", pc'[t] = "end"
  PROVE  Cardinality({a \in Alts : ~fNoMore[a]}) <= (IF stopOn = "jsd" THEN 1 ELSE 0)
<1>1. t \in Threads
  <2>1. Control'
    BY ControlIsKept
  <2> QED BY <2>1 DEF Procs, Control, Roles, CheckPlaces
<1>2. /\ Cardinality({a \in Alts : ~fNoMore[a]}) = nAlternatives - Cardinality(Stopped)
      /\ Cardinality(Stopped) \in Nat /\ nAlternatives \in Nat /\ active[t] \in Nat
  BY <1>1, Running, Alternatives DEF Control, ControlTypes
<1>3. active[t] >= nAlternatives - Cardinality(Stopped)
  BY <1>1 DEF Control, Checks, ActiveOf
<1>4. DoneEarly(t)
  <2>1. Decide(t)
    BY <1>1, OwnSteps, StepAtDecide
  <2> QED BY <1>1, <2>1, ThreadsAssumption, Moves DEF Decide, Control, Procs
<1> QED BY <1>2, <1>3, <1>4 DEF DoneEarly

\* A thread breaks out of the loop of RolloutLoopMT only when one alternative at
\* most is still rolled out, and none if the standard errors are the criterion:
\* resumed alternatives are counted again, and its count of active ones is at
\* least their number.
THEOREM EarlyEndsAreJustified == Spec => EarlyEndIsJustified
<1> DEFINE Justified == \A t \in Threads : pc[t] = "decide" /\ pc'[t] = "end" =>
                          Cardinality({a \in Alts : ~fNoMore[a]}) <= (IF stopOn = "jsd" THEN 1 ELSE 0)
<1>1. Control /\ [Next]_vars => [Justified]_vars
  BY EarlyEnd DEF Procs
<1> HIDE DEF Justified
<1>2. Spec => [][Justified]_vars
  BY <1>1, ControlHolds, PTL DEF Spec
<1> QED BY <1>2 DEF EarlyEndIsJustified, Justified

-----------------------------------------------------------------------------
(* What the counters say of the games.                                     *)

\* The places in which a thread holds the number of a trial.
TrialPlaces == {"test", "giveback", "roll", "apply"}

\* The threads that hold the number of a trial of an alternative, and those of
\* them whose number is too large: they give it back.
Held(a) == {t \in Threads : alt[t] = a /\ pc[t] \in TrialPlaces}
Over(a) == {t \in Held(a) : trial[t] > cGames}

\* The trials drawn, but for those that are too large.
Drawn(a) == altTrialCount[a] - Cardinality(Over(a))

Most == Max(TrialsAsked \cup Prior)

CounterTypes ==
    /\ cGames \in TrialsAsked \cup {0} /\ fInterrupt \in BOOLEAN
    /\ rollouts \in 0..MaxRollouts /\ ro_NextTrial \in Nat
    /\ altTrialCount \in [Alts -> Nat] /\ altGameCount \in [Alts -> Nat]
    /\ nGamesDone \in [Alts -> Nat] /\ trial \in [Procs -> Nat]
    /\ counted \in [Alts -> [0..MaxTrials -> Nat]]

\* A number that was drawn is held by a thread, or its game is in the results;
\* an interruption loses some.
AccountOf(a) ==
    /\ altTrialCount[a] >= altGameCount[a] + Cardinality(Held(a))
    /\ ~fInterrupt => altTrialCount[a] = altGameCount[a] + Cardinality(Held(a))

\* The results of an alternative have one game at most more than was asked for.
BoundOf(a) ==
    /\ Drawn(a) <= Most + 1
    /\ altGameCount[a] <= nGamesDone[a] /\ nGamesDone[a] <= Most + 1
    /\ \A n \in 0..MaxTrials : counted[a][n] <= altGameCount[a]

\* No trial is played that was not asked for, but for one.
NumberOf(t) ==
    /\ trial[t] <= MaxTrials
    /\ pc[t] \in {"roll", "apply"} => trial[t] <= cGames

\* Each thread that ends may have increased ro_NextTrial once more.
AtEnd == {t \in Threads : pc[t] = "end"}
Rounds ==
    /\ ro_NextTrial <= cGames + Cardinality(AtEnd)
    /\ pc[Main] \notin {"idle", "wait"} => ro_NextTrial <= cGames

Counters ==
    /\ CounterTypes
    /\ \A a \in Alts : AccountOf(a) /\ BoundOf(a)
    /\ \A t \in Procs : NumberOf(t)
    /\ Rounds

-----------------------------------------------------------------------------
(* Numbers. *)

\* The greatest element of a set that has one is its Max.
LEMMA Greatest ==
  ASSUME NEW S \in SUBSET Nat, NEW m \in S, \A n \in S : n <= m
  PROVE  Max(S) \in S /\ \A n \in S : n <= Max(S)
<1>1. \E x \in S : \A y \in S : x >= y
  OBVIOUS
<1> QED BY <1>1 DEF Max

\* The larger of two numbers.
LEMMA Larger ==
  ASSUME NEW x \in Nat, NEW y \in Nat
  PROVE  Max({x, y}) \in {x, y} /\ x <= Max({x, y}) /\ y <= Max({x, y})
<1>1. \E m \in {x, y} : \A n \in {x, y} : n <= m
  OBVIOUS
<1>2. {x, y} \in SUBSET Nat
  OBVIOUS
<1> QED BY <1>1, <1>2, Greatest

\* A set of naturals has a least element, and it is its Min.
LEMMA Least ==
  ASSUME NEW S \in SUBSET Nat, S # {}
  PROVE  Min(S) \in S /\ \A n \in S : Min(S) <= n
<1> DEFINE T == {0..x : x \in S}
           R == StrictSubsetOrdering(Nat)
<1>1. T \subseteq FiniteSubsetsOf(Nat) /\ T # {}
  <2>1. ASSUME NEW x \in S PROVE IsFiniteSet(0..x) /\ 0..x \in SUBSET Nat
    BY FS_Interval
  <2> QED BY <2>1 DEF FiniteSubsetsOf
<1>2. \E X \in T : \A Y \in T : ~ (<<Y, X>> \in R)
  BY <1>1, FS_StrictSubsetOrderingWellFounded, WFMin
<1>3. PICK x \in S : \A y \in S : ~ (<<0..y, 0..x>> \in R)
  BY <1>2
<1>4. ASSUME NEW y \in S PROVE x <= y
  <2>1. SUFFICES ASSUME y < x PROVE FALSE
    OBVIOUS
  <2>2. 0..y \subseteq 0..x /\ 0..y # 0..x /\ 0..y \in SUBSET Nat /\ 0..x \in SUBSET Nat
    BY <2>1
  <2>3. <<0..y, 0..x>> \in R
    BY <2>2 DEF StrictSubsetOrdering
  <2> QED BY <1>3, <2>3
<1> QED BY <1>4 DEF Min

\* The bounds on the numbers of games asked for.
LEMMA MostAsked ==
  /\ Most \in Nat /\ \A n \in TrialsAsked \cup Prior : n <= Most
  /\ Cardinality(Threads) \in Nat \ {0} /\ MaxTrials = Most + Cardinality(Threads)
  /\ MinGames \in Nat /\ MaxRollouts \in Nat
<1>1. PICK m \in TrialsAsked \cup Prior : \A n \in TrialsAsked \cup Prior : n <= m
  BY CountsAssumption
<1>2. Max(TrialsAsked \cup Prior) \in TrialsAsked \cup Prior
      /\ \A n \in TrialsAsked \cup Prior : n <= Max(TrialsAsked \cup Prior)
  BY <1>1, CountsAssumption, Greatest
<1>3. Cardinality(Threads) \in Nat /\ Cardinality(Threads) # 0
  BY ThreadsAssumption, FS_CardinalityType, FS_EmptySet
<1> QED BY <1>2, <1>3, CountsAssumption DEF Most, MaxTrials

-----------------------------------------------------------------------------
(* Who holds a number, and how steps change it. *)

\* The sets of threads are finite, and as large as there are threads at most.
LEMMA Sizes ==
  ASSUME NEW a
  PROVE  /\ IsFiniteSet(Held(a)) /\ IsFiniteSet(Over(a)) /\ IsFiniteSet(AtEnd)
         /\ Cardinality(Held(a)) \in Nat /\ Cardinality(Over(a)) \in Nat
         /\ Cardinality(AtEnd) \in Nat
         /\ Cardinality(Over(a)) <= Cardinality(Held(a))
         /\ Cardinality(Held(a)) <= Cardinality(Threads)
         /\ Cardinality(AtEnd) <= Cardinality(Threads)
<1>1. Held(a) \in SUBSET Threads /\ AtEnd \in SUBSET Threads /\ Over(a) \in SUBSET Held(a)
  BY DEF Held, AtEnd, Over
<1>2. IsFiniteSet(Held(a)) /\ IsFiniteSet(AtEnd)
  BY <1>1, ThreadsAssumption, FS_Subset
<1> QED BY <1>1, <1>2, ThreadsAssumption, FS_Subset, FS_CardinalityType

\* A step that leaves the numbers alone, and no thread of which starts or ends
\* to hold one, changes none of these sets.
LEMMA SameHolders ==
  ASSUME UNCHANGED <<cGames, trial>>,
         \A t \in Threads : \/ pc[t] \in TrialPlaces /\ pc'[t] \in TrialPlaces /\ alt'[t] = alt[t]
                            \/ pc[t] \notin TrialPlaces /\ pc'[t] \notin TrialPlaces
  PROVE  \A a : Held(a)' = Held(a) /\ Over(a)' = Over(a)
BY DEF Held, Over

\* A thread that takes a number holds it.
LEMMA Taken ==
  ASSUME Control, CounterTypes, NEW t \in Threads, TakeTrial(t), NEW a, alt[t] = a
  PROVE  /\ UNCHANGED <<run, ro_NextTrial, altGameCount, nGamesDone, counted, fNoMore, alt>>
         /\ Alts' = Alts /\ a \in Alts
         /\ pc[t] = "take" /\ pc'[t] = "test" /\ \A u \in Procs \ {t} : pc'[u] = pc[u]
         /\ trial' \in [Procs -> Nat] /\ trial'[t] = altTrialCount[a]
         /\ \A u \in Procs \ {t} : trial'[u] = trial[u]
         /\ altTrialCount' = [altTrialCount EXCEPT ![a] = @ + 1]
         /\ \A b \in Alts \ {a} : Held(b)' = Held(b) /\ Over(b)' = Over(b)
         /\ t \notin Held(a) /\ Held(a)' = Held(a) \cup {t}
         /\ Over(a)' = IF altTrialCount[a] > cGames THEN Over(a) \cup {t}
                            ELSE Over(a)
<1>1. t \in Procs /\ t # Main /\ Threads \subseteq Procs
  BY ThreadsAssumption DEF Procs
<1>2. UNCHANGED <<run, ro_NextTrial, altGameCount, nGamesDone, counted, fNoMore, alt>>
  BY DEF TakeTrial
<1>3. UNCHANGED <<fCubeRollout, cGames>> /\ Alts' = Alts /\ a \in Alts
  BY <1>1, <1>2 DEF run, Alts, nAlternatives, Control, ControlTypes
<1>4. pc[t] = "take" /\ pc'[t] = "test" /\ \A u \in Procs \ {t} : pc'[u] = pc[u]
  BY <1>1, Moves DEF TakeTrial, Control
<1>5. /\ trial' \in [Procs -> Nat] /\ trial'[t] = altTrialCount[a]
      /\ \A u \in Procs \ {t} : trial'[u] = trial[u]
  BY <1>1, <1>3 DEF TakeTrial, CounterTypes
<1>6. /\ \A b \in Alts \ {a} : Held(b)' = Held(b)
      /\ t \notin Held(a) /\ Held(a)' = Held(a) \cup {t}
  BY <1>1, <1>2, <1>4 DEF Held, TrialPlaces
<1>7. \A b \in Alts \ {a} : t \notin Held(b)
  BY DEF Held
<1>8. \A b \in Alts \ {a} : Over(b)' = Over(b)
  BY <1>1, <1>3, <1>5, <1>6, <1>7 DEF Over, Held
<1>9. Over(a)' = {u \in Held(a) \cup {t} : trial'[u] > cGames}
  BY <1>2, <1>3, <1>6 DEF Over
<1>10. Over(a)' = IF altTrialCount[a] > cGames THEN Over(a) \cup {t}
                       ELSE Over(a)
  <2>1. \A u \in Held(a) : trial'[u] = trial[u]
    BY <1>1, <1>5, <1>6 DEF Held
  <2> QED BY <1>5, <1>6, <1>9, <2>1 DEF Over
<1> QED BY <1>2, <1>3, <1>4, <1>5, <1>6, <1>8, <1>10 DEF TakeTrial

\* A thread that goes on, or leaves, does not hold its number any more.
LEMMA Released ==
  ASSUME Control, CounterTypes, NEW t \in Threads, pc[t] \in TrialPlaces, NEW a, alt[t] = a,
         UNCHANGED <<cGames, trial>>,
         \A u \in Procs \ {t} : pc'[u] = pc[u] /\ alt'[u] = alt[u],
         pc'[t] \notin TrialPlaces
  PROVE  /\ a \in Alts
         /\ \A b \in Alts \ {a} : Held(b)' = Held(b) /\ Over(b)' = Over(b)
         /\ t \in Held(a) /\ Held(a)' = Held(a) \ {t}
         /\ Over(a)' = Over(a) \ {t}
         /\ (t \in Over(a) <=> trial[t] > cGames)
<1>1. t \in Procs /\ Threads \subseteq Procs /\ a \in Alts
  BY DEF Procs, Control, ControlTypes
<1>2. t \in Held(a) /\ (t \in Over(a) <=> trial[t] > cGames)
  BY DEF Held, Over
<1>3. \A u \in Threads \ {t} : pc'[u] = pc[u] /\ alt'[u] = alt[u]
  BY <1>1
<1>4. /\ \A b \in Alts \ {a} : Held(b)' = Held(b)
      /\ Held(a)' = Held(a) \ {t}
  <2>1. ASSUME NEW b \in Alts \ {a} PROVE Held(b)' = Held(b)
    <3>1. t \notin Held(b) /\ t \notin Held(b)'
      BY DEF Held
    <3> QED BY <1>3, <3>1 DEF Held
  <2>2. Held(a)' = Held(a) \ {t}
    <3>1. t \notin Held(a)'
      BY DEF Held
    <3> QED BY <1>3, <3>1 DEF Held
  <2> QED BY <2>1, <2>2
<1>5. /\ \A b \in Alts \ {a} : Over(b)' = Over(b)
      /\ Over(a)' = Over(a) \ {t}
  BY <1>4 DEF Over
<1> QED BY <1>1, <1>2, <1>4, <1>5

\* The step to the next alternative.
LEMMA GoesOn ==
  ASSUME Control, NEW t \in Threads, NEW from, NextAlternative(t, from)
  PROVE  /\ pc[t] = from /\ pc'[t] = (IF alt[t] < nAlternatives THEN "take" ELSE "looped")
         /\ alt'[t] = IF alt[t] < nAlternatives THEN alt[t] + 1 ELSE alt[t]
         /\ \A u \in Procs \ {t} : pc'[u] = pc[u] /\ alt'[u] = alt[u]
BY Moves DEF NextAlternative, Control, ControlTypes, Procs

-----------------------------------------------------------------------------
(* Every step preserves the counters. *)

\* At first the counters are those of the earlier rollouts.
LEMMA InitialCounters == Init => Counters
<1> SUFFICES ASSUME Init PROVE Counters
  OBVIOUS
<1>1. Control /\ nAlternatives \in Nat \ {0} /\ Alts = 1..nAlternatives
  BY InitialControl, Alternatives DEF Control, ControlTypes
<1>2. /\ cGames = 0 /\ ro_NextTrial = 0 /\ rollouts = 0 /\ fInterrupt = FALSE
      /\ nGamesDone \in [Alts -> Prior] /\ altTrialCount = nGamesDone /\ altGameCount = nGamesDone
      /\ counted = [a \in Alts |-> [n \in 0..MaxTrials |-> IF n < nGamesDone[a] THEN 1 ELSE 0]]
      /\ pc = [t \in Procs |-> IF t = Main THEN "idle" ELSE "end"]
      /\ trial = [t \in Procs |-> 0]
  BY DEF Init
<1>3. /\ Most \in Nat /\ (\A n \in TrialsAsked \cup Prior : n <= Most) /\ MaxRollouts \in Nat
      /\ Prior \subseteq Nat /\ MaxTrials \in Nat
  BY MostAsked, CountsAssumption
<1>4. CounterTypes
  <2>1. nGamesDone \in [Alts -> Nat]
    BY <1>2, <1>3
  <2>2. counted \in [Alts -> [0..MaxTrials -> Nat]]
    BY <1>2
  <2>3. /\ cGames \in TrialsAsked \cup {0} /\ fInterrupt \in BOOLEAN
        /\ rollouts \in 0..MaxRollouts /\ ro_NextTrial \in Nat
    <3>1. cGames = 0 /\ fInterrupt = FALSE /\ rollouts = 0 /\ ro_NextTrial = 0
      BY <1>2
    <3>2. MaxRollouts \in Nat
      BY <1>3
    <3>3. rollouts \in 0..MaxRollouts /\ ro_NextTrial \in Nat
      BY <3>1, <3>2
    <3>4. cGames \in TrialsAsked \cup {0} /\ fInterrupt \in BOOLEAN
      BY <3>1
    <3> QED BY <3>3, <3>4
  <2>4. trial \in [Procs -> Nat]
    BY <1>2
  <2>5. altTrialCount \in [Alts -> Nat] /\ altGameCount \in [Alts -> Nat]
    BY <1>2, <2>1
  <2> QED BY <2>1, <2>2, <2>3, <2>4, <2>5 DEF CounterTypes
<1>5. \A a : Held(a) = {} /\ Over(a) = {}
  <2>1. \A t \in Threads : pc[t] = "end"
    BY <1>2, ThreadsAssumption DEF Procs
  <2> QED BY <2>1 DEF Held, Over, TrialPlaces
<1>6. ASSUME NEW a \in Alts PROVE AccountOf(a) /\ BoundOf(a)
  <2>1. nGamesDone[a] \in Nat /\ nGamesDone[a] <= Most
    BY <1>2, <1>3
  <2>2. Cardinality(Held(a)) = 0 /\ Cardinality(Over(a)) = 0
    BY <1>5, FS_EmptySet
  <2>3. \A n \in 0..MaxTrials : counted[a][n] <= altGameCount[a]
    BY <1>2, <2>1
  <2> QED BY <1>2, <1>3, <2>1, <2>2, <2>3 DEF AccountOf, BoundOf, Drawn
<1>7. \A t \in Procs : NumberOf(t)
  BY <1>2, <1>3 DEF NumberOf
<1>8. Rounds
  BY <1>2, Sizes, SMTT(30) DEF Rounds, Procs
<1> QED BY <1>4, <1>6, <1>7, <1>8 DEF Counters

\* A trial whose number is too large is counted among those to be given back;
\* the others are among those that were asked for.
LEMMA TakeCounts ==
  ASSUME Control, Counters, NEW t \in Threads, TakeTrial(t)
  PROVE  Counters'
<1> PICK a : alt[t] = a
  OBVIOUS
<1>1. CounterTypes /\ t \in Procs
  BY DEF Counters, Procs
<1>2. /\ UNCHANGED <<run, ro_NextTrial, altGameCount, nGamesDone, counted, fNoMore, alt>>
      /\ Alts' = Alts /\ a \in Alts
      /\ pc[t] = "take" /\ pc'[t] = "test" /\ \A u \in Procs \ {t} : pc'[u] = pc[u]
      /\ trial' \in [Procs -> Nat] /\ trial'[t] = altTrialCount[a]
      /\ \A u \in Procs \ {t} : trial'[u] = trial[u]
      /\ altTrialCount' = [altTrialCount EXCEPT ![a] = @ + 1]
      /\ \A b \in Alts \ {a} : Held(b)' = Held(b) /\ Over(b)' = Over(b)
      /\ t \notin Held(a) /\ Held(a)' = Held(a) \cup {t}
      /\ Over(a)' = IF altTrialCount[a] > cGames THEN Over(a) \cup {t} ELSE Over(a)
  BY <1>1, Taken
<1>3. UNCHANGED <<cGames, fInterrupt, rollouts>>
  BY <1>2 DEF run
<1>4. /\ altTrialCount[a] \in Nat /\ cGames \in Nat /\ cGames <= Most /\ Most \in Nat
      /\ MaxTrials = Most + Cardinality(Threads) /\ Cardinality(Threads) \in Nat
      /\ altTrialCount' \in [Alts -> Nat] /\ altTrialCount'[a] = altTrialCount[a] + 1
      /\ \A b \in Alts \ {a} : altTrialCount'[b] = altTrialCount[b]
      /\ altGameCount[a] \in Nat
  BY <1>1, <1>2, MostAsked, CountsAssumption DEF CounterTypes
<1>5. /\ IsFiniteSet(Held(a)) /\ IsFiniteSet(Over(a)) /\ t \notin Over(a)
      /\ Cardinality(Held(a)) \in Nat /\ Cardinality(Over(a)) \in Nat
  BY <1>2, Sizes DEF Over
<1>6. /\ Cardinality(Held(a)') = Cardinality(Held(a)) + 1
      /\ Cardinality(Over(a)') = IF altTrialCount[a] > cGames THEN Cardinality(Over(a)) + 1
                                 ELSE Cardinality(Over(a))
  <2>1. Cardinality(Held(a) \cup {t}) = Cardinality(Held(a)) + 1
    BY <1>2, <1>5, FS_AddElement
  <2>2. Cardinality(Over(a) \cup {t}) = Cardinality(Over(a)) + 1
    BY <1>5, FS_AddElement
  <2> QED BY <1>2, <2>1, <2>2
<1>7. AccountOf(a)' /\ BoundOf(a)'
  <2>1. AccountOf(a) /\ BoundOf(a)
    BY <1>2 DEF Counters
  <2>2. AccountOf(a)'
    BY <1>2, <1>3, <1>4, <1>5, <1>6, <2>1 DEF AccountOf
  <2>3. Drawn(a)' = altTrialCount'[a] - Cardinality(Over(a)')
    BY DEF Drawn
  <2>4. Drawn(a)' <= Most + 1
    <3>1. altTrialCount[a] - Cardinality(Over(a)) <= Most + 1
      BY <2>1 DEF BoundOf, Drawn
    <3> QED BY <1>4, <1>5, <1>6, <2>3, <3>1
  <2>5. BoundOf(a)'
    BY <1>2, <2>1, <2>4 DEF BoundOf
  <2> QED BY <2>2, <2>5
<1>8. ASSUME NEW b \in Alts \ {a} PROVE AccountOf(b)' /\ BoundOf(b)'
  <2>1. AccountOf(b) /\ BoundOf(b) /\ Held(b)' = Held(b) /\ Over(b)' = Over(b)
    BY <1>2 DEF Counters
  <2> QED BY <1>2, <1>3, <1>4, <2>1 DEF AccountOf, BoundOf, Drawn
<1>9. altTrialCount[a] <= MaxTrials
  <2>1. Over(a) \in SUBSET (Threads \ {t})
    BY <1>5 DEF Over, Held
  <2>2. IsFiniteSet(Threads \ {t}) /\ Cardinality(Threads \ {t}) = Cardinality(Threads) - 1
    BY ThreadsAssumption, FS_RemoveElement
  <2>3. Cardinality(Over(a)) <= Cardinality(Threads) - 1
    BY <2>1, <2>2, FS_Subset
  <2>4. altTrialCount[a] - Cardinality(Over(a)) <= Most + 1
    BY <1>2 DEF Counters, BoundOf, Drawn
  <2> QED BY <1>4, <1>5, <2>3, <2>4
<1>10. \A u \in Procs : NumberOf(u)'
  BY <1>2, <1>3, <1>9 DEF Counters, NumberOf
<1>11. Rounds'
  <2>1. AtEnd' = AtEnd /\ pc'[Main] = pc[Main]
    BY <1>2, ThreadsAssumption DEF AtEnd, Procs
  <2> QED BY <1>2, <1>3, <2>1 DEF Counters, Rounds
<1>12. CounterTypes'
  BY <1>1, <1>2, <1>3, <1>4 DEF CounterTypes
<1> QED BY <1>2, <1>7, <1>8, <1>10, <1>11, <1>12 DEF Counters

\* Of one alternative, a thread gives its number up; the counters of the other
\* alternatives, and what the threads still hold, are left alone.
LEMMA GivesUp ==
  ASSUME Control, Counters, NEW t \in Threads, pc[t] \in TrialPlaces, NEW a, alt[t] = a,
         UNCHANGED <<cGames, trial, ro_NextTrial, rollouts, fCubeRollout, fInterrupt>>,
         \A u \in Procs \ {t} : pc'[u] = pc[u] /\ alt'[u] = alt[u],
         pc'[t] \in {"take", "looped", "end"},
         altTrialCount' \in [Alts -> Nat], altGameCount' \in [Alts -> Nat],
         nGamesDone' \in [Alts -> Nat], counted' \in [Alts -> [0..MaxTrials -> Nat]],
         \A b \in Alts \ {a} : /\ altTrialCount'[b] = altTrialCount[b]
                               /\ altGameCount'[b] = altGameCount[b]
                               /\ counted'[b] = counted[b]
                               /\ nGamesDone[b] <= nGamesDone'[b] /\ nGamesDone'[b] <= Most + 1,
         AccountOf(a)', BoundOf(a)'
  PROVE  Counters'
<1>1. Alts' = Alts
  BY DEF Alts, nAlternatives
<1>2. CounterTypes'
  BY <1>1 DEF Counters, CounterTypes
<1>3. /\ a \in Alts
      /\ \A b \in Alts \ {a} : Held(b)' = Held(b) /\ Over(b)' = Over(b)
  <2>1. pc'[t] \notin TrialPlaces
    BY DEF TrialPlaces
  <2> QED BY <2>1, Released DEF Counters
<1>4. ASSUME NEW b \in Alts \ {a} PROVE AccountOf(b)' /\ BoundOf(b)'
  <2>1. AccountOf(b) /\ BoundOf(b)
    BY DEF Counters
  <2>2. AccountOf(b)'
    BY <1>3, <2>1 DEF AccountOf
  <2>3. Drawn(b)' = Drawn(b)
    BY <1>3 DEF Drawn
  <2>4. /\ altGameCount[b] \in Nat /\ nGamesDone[b] \in Nat /\ nGamesDone'[b] \in Nat
        /\ altGameCount'[b] = altGameCount[b] /\ counted'[b] = counted[b]
        /\ nGamesDone[b] <= nGamesDone'[b] /\ nGamesDone'[b] <= Most + 1
    BY DEF Counters, CounterTypes
  <2>5. altGameCount'[b] <= nGamesDone'[b]
    BY <2>1, <2>4 DEF BoundOf
  <2> QED BY <2>1, <2>2, <2>3, <2>4, <2>5 DEF BoundOf
<1>5. \A u \in Procs : NumberOf(u)'
  BY DEF Counters, NumberOf
<1>6. Rounds'
  <2>1. AtEnd \in SUBSET AtEnd' /\ IsFiniteSet(AtEnd')
    <3>1. AtEnd' \in SUBSET Threads
      BY DEF AtEnd
    <3>2. \A u \in AtEnd : u \in Procs \ {t} /\ pc[u] = "end"
      BY DEF AtEnd, Procs, TrialPlaces
    <3>3. AtEnd \in SUBSET AtEnd'
      BY <3>2 DEF AtEnd
    <3> QED BY <3>1, <3>3, ThreadsAssumption, FS_Subset
  <2>2. /\ Cardinality(AtEnd) <= Cardinality(AtEnd')
        /\ Cardinality(AtEnd) \in Nat /\ Cardinality(AtEnd') \in Nat
    BY <2>1, Sizes, FS_Subset, FS_CardinalityType
  <2>3. cGames \in Nat /\ ro_NextTrial \in Nat
    BY CountsAssumption DEF Counters, CounterTypes
  <2>4. pc'[Main] = pc[Main]
    BY ThreadsAssumption DEF Procs
  <2>5. ro_NextTrial <= cGames + Cardinality(AtEnd)
    BY DEF Counters, Rounds
  <2>6. ro_NextTrial <= cGames + Cardinality(AtEnd')
    BY <2>2, <2>3, <2>5
  <2> QED BY <2>4, <2>6 DEF Counters, Rounds
<1> QED BY <1>1, <1>2, <1>3, <1>4, <1>5, <1>6 DEF Counters

\* The counts of an alternative when a thread gives up its number.
LEMMA Fewer ==
  ASSUME Control, Counters, NEW t \in Threads, pc[t] \in TrialPlaces, NEW a, alt[t] = a,
         UNCHANGED <<cGames, trial>>,
         \A u \in Procs \ {t} : pc'[u] = pc[u] /\ alt'[u] = alt[u],
         pc'[t] \in {"take", "looped", "end"}
  PROVE  /\ a \in Alts
         /\ altTrialCount[a] \in Nat /\ altGameCount[a] \in Nat /\ nGamesDone[a] \in Nat
         /\ Cardinality(Held(a)) \in Nat \ {0} /\ Cardinality(Held(a)') = Cardinality(Held(a)) - 1
         /\ Cardinality(Over(a)) \in Nat
         /\ Cardinality(Over(a)') = IF trial[t] > cGames THEN Cardinality(Over(a)) - 1
                                    ELSE Cardinality(Over(a))
         /\ trial[t] <= cGames => Cardinality(Over(a)) <= Cardinality(Held(a)) - 1
         /\ trial[t] > cGames => Cardinality(Over(a)) >= 1
         /\ AccountOf(a) /\ BoundOf(a) /\ Most \in Nat
<1>1. /\ a \in Alts /\ t \in Held(a) /\ Held(a)' = Held(a) \ {t}
      /\ Over(a)' = Over(a) \ {t} /\ (t \in Over(a) <=> trial[t] > cGames)
  <2>1. pc'[t] \notin TrialPlaces
    BY DEF TrialPlaces
  <2> QED BY <2>1, Released DEF Counters
<1>2. IsFiniteSet(Held(a)) /\ IsFiniteSet(Over(a))
      /\ Cardinality(Held(a)) \in Nat /\ Cardinality(Over(a)) \in Nat
  BY Sizes
<1>3. Cardinality(Held(a) \ {t}) = Cardinality(Held(a)) - 1 /\ IsFiniteSet(Held(a) \ {t})
      /\ Cardinality(Held(a)) # 0
  BY <1>1, <1>2, FS_RemoveElement, FS_EmptySet
<1>4. Cardinality(Over(a) \ {t}) = IF t \in Over(a) THEN Cardinality(Over(a)) - 1
                                   ELSE Cardinality(Over(a))
  BY <1>2, FS_RemoveElement
<1>5. t \notin Over(a) => Cardinality(Over(a)) <= Cardinality(Held(a)) - 1
  <2>1. t \notin Over(a) => Over(a) \in SUBSET (Held(a) \ {t})
    BY DEF Over
  <2> QED BY <1>3, <2>1, FS_Subset
<1>6. t \in Over(a) => Cardinality(Over(a)) >= 1
  BY <1>2, FS_EmptySet
<1>7. altTrialCount[a] \in Nat /\ altGameCount[a] \in Nat /\ nGamesDone[a] \in Nat
  BY <1>1 DEF Counters, CounterTypes
<1>8. cGames \in Nat /\ trial[t] \in Nat
  BY CountsAssumption DEF Counters, CounterTypes, Procs
<1> QED BY <1>1, <1>2, <1>3, <1>4, <1>5, <1>6, <1>7, <1>8, MostAsked DEF Counters

\* A number that is given back can be drawn again.
LEMMA GiveBackCounts ==
  ASSUME Control, Counters, NEW t \in Threads, GiveBack(t)
  PROVE  Counters'
<1> PICK a : alt[t] = a
  OBVIOUS
<1>1. /\ UNCHANGED <<cGames, trial, ro_NextTrial, rollouts, fCubeRollout, fInterrupt,
                     altGameCount, nGamesDone, counted>>
      /\ altTrialCount' = [altTrialCount EXCEPT ![a] = @ - 1]
  BY DEF GiveBack, run
<1>2. /\ pc[t] \in TrialPlaces /\ pc'[t] \in {"take", "looped", "end"}
      /\ \A u \in Procs \ {t} : pc'[u] = pc[u] /\ alt'[u] = alt[u]
  BY GoesOn DEF GiveBack, TrialPlaces
<1>3. /\ a \in Alts
      /\ altTrialCount[a] \in Nat /\ altGameCount[a] \in Nat /\ nGamesDone[a] \in Nat
      /\ Cardinality(Held(a)) \in Nat \ {0} /\ Cardinality(Held(a)') = Cardinality(Held(a)) - 1
      /\ Cardinality(Over(a)) \in Nat
      /\ Cardinality(Over(a)') = IF trial[t] > cGames THEN Cardinality(Over(a)) - 1
                                 ELSE Cardinality(Over(a))
      /\ AccountOf(a) /\ BoundOf(a) /\ Most \in Nat
  BY <1>1, <1>2, Fewer
<1>4. altTrialCount[a] - 1 \in Nat
  BY <1>3 DEF AccountOf
<1>5. /\ altTrialCount' \in [Alts -> Nat] /\ altTrialCount'[a] = altTrialCount[a] - 1
      /\ \A b \in Alts \ {a} : altTrialCount'[b] = altTrialCount[b]
  BY <1>1, <1>3, <1>4 DEF Counters, CounterTypes
<1>6. AccountOf(a)'
  BY <1>1, <1>3, <1>5 DEF AccountOf
<1>7. BoundOf(a)'
  <2>1. Drawn(a)' = altTrialCount'[a] - Cardinality(Over(a)')
    BY DEF Drawn
  <2>2. altTrialCount[a] - Cardinality(Over(a)) <= Most + 1
    BY <1>3 DEF BoundOf, Drawn
  <2>3. Drawn(a)' <= Most + 1
    BY <1>3, <1>5, <2>1, <2>2
  <2> QED BY <1>1, <1>3, <2>3 DEF BoundOf
<1>8. /\ altGameCount' \in [Alts -> Nat] /\ nGamesDone' \in [Alts -> Nat]
      /\ counted' \in [Alts -> [0..MaxTrials -> Nat]]
      /\ \A b \in Alts : nGamesDone[b] <= nGamesDone'[b] /\ nGamesDone'[b] <= Most + 1
  BY <1>1 DEF Counters, CounterTypes, BoundOf
<1> QED BY <1>1, <1>2, <1>5, <1>6, <1>7, <1>8, GivesUp

\* One more, of a function to the naturals.
LEMMA OneMoreAt ==
  ASSUME NEW D, NEW f \in [D -> Nat], NEW n \in D
  PROVE  /\ [f EXCEPT ![n] = f[n] + 1] \in [D -> Nat]
         /\ [f EXCEPT ![n] = f[n] + 1][n] = f[n] + 1
         /\ \A m \in D \ {n} : [f EXCEPT ![n] = f[n] + 1][m] = f[m]
<1>1. f[n] + 1 \in Nat
  OBVIOUS
<1> QED BY <1>1

\* A game is added to the results of an alternative, at most one more than was
\* asked for.
LEMMA AddCounts ==
  ASSUME Control, Counters, NEW t \in Threads, AddResult(t)
  PROVE  Counters'
<1> PICK a : alt[t] = a
  OBVIOUS
<1>1. /\ UNCHANGED <<cGames, trial, ro_NextTrial, rollouts, fCubeRollout, fInterrupt,
                     altTrialCount>>
      /\ altGameCount' = [altGameCount EXCEPT ![a] = @ + 1]
      /\ counted' = [counted EXCEPT ![a][trial[t]] = @ + 1]
      /\ nGamesDone' = [b \in Alts |->
             IF Context(b) = Context(a) THEN Max({nGamesDone[b], altGameCount'[a]})
             ELSE nGamesDone[b]]
  BY DEF AddResult, run
<1>2. /\ pc[t] = "apply" /\ pc[t] \in TrialPlaces /\ pc'[t] \in {"take", "looped", "end"}
      /\ \A u \in Procs \ {t} : pc'[u] = pc[u] /\ alt'[u] = alt[u]
  BY GoesOn DEF AddResult, TrialPlaces
<1>3. trial[t] <= cGames
  BY <1>2 DEF Counters, NumberOf, Procs
<1>4. /\ a \in Alts
      /\ altTrialCount[a] \in Nat /\ altGameCount[a] \in Nat /\ nGamesDone[a] \in Nat
      /\ Cardinality(Held(a)) \in Nat \ {0} /\ Cardinality(Held(a)') = Cardinality(Held(a)) - 1
      /\ Cardinality(Over(a)) \in Nat
      /\ Cardinality(Over(a)) <= Cardinality(Held(a)) - 1
      /\ AccountOf(a) /\ BoundOf(a) /\ Most \in Nat
  BY <1>1, <1>2, <1>3, Fewer
<1>5. Cardinality(Over(a)') = Cardinality(Over(a))
  <2>1. trial[t] \in Nat /\ cGames \in Nat
    BY CountsAssumption DEF Counters, CounterTypes, Procs
  <2>2. Cardinality(Over(a)') = IF trial[t] > cGames THEN Cardinality(Over(a)) - 1
                                ELSE Cardinality(Over(a))
    BY <1>1, <1>2, Fewer
  <2> QED BY <1>3, <2>1, <2>2
<1>6. /\ altGameCount' \in [Alts -> Nat] /\ altGameCount'[a] = altGameCount[a] + 1
      /\ \A b \in Alts \ {a} : altGameCount'[b] = altGameCount[b]
  BY <1>1, <1>4 DEF Counters, CounterTypes
<1>7. altGameCount'[a] <= Most + 1
  <2>1. altTrialCount[a] - Cardinality(Over(a)) <= Most + 1
    BY <1>4 DEF BoundOf, Drawn
  <2>2. altTrialCount[a] >= altGameCount[a] + Cardinality(Held(a))
    BY <1>4 DEF AccountOf
  <2> QED BY <1>4, <1>6, <2>1, <2>2
<1>8. ASSUME NEW b \in Alts
      PROVE  /\ nGamesDone'[b] \in Nat /\ nGamesDone[b] <= nGamesDone'[b]
             /\ nGamesDone'[b] <= Most + 1
             /\ b = a => altGameCount'[a] <= nGamesDone'[a]
  <2>1. nGamesDone[b] \in Nat /\ altGameCount'[a] \in Nat /\ nGamesDone[b] <= Most + 1
    BY <1>4, <1>6 DEF Counters, CounterTypes, BoundOf
  <2>2. nGamesDone'[b] = IF Context(b) = Context(a) THEN Max({nGamesDone[b], altGameCount'[a]})
                         ELSE nGamesDone[b]
    BY <1>1
  <2> HIDE DEF Context
  <2> QED BY <1>4, <1>7, <2>1, <2>2, Larger
<1>9. nGamesDone' \in [Alts -> Nat]
  BY <1>1, <1>8
<1>10. /\ counted' \in [Alts -> [0..MaxTrials -> Nat]]
       /\ \A b \in Alts \ {a} : counted'[b] = counted[b]
       /\ \A n \in 0..MaxTrials : counted'[a][n] <= counted[a][n] + 1
  <2>1. /\ counted \in [Alts -> [0..MaxTrials -> Nat]] /\ counted[a] \in [0..MaxTrials -> Nat]
        /\ trial[t] \in 0..MaxTrials
    BY <1>4, MostAsked DEF Counters, CounterTypes, NumberOf, Procs
  <2>2. counted' = [counted EXCEPT ![a] = [counted[a] EXCEPT ![trial[t]] = counted[a][trial[t]] + 1]]
    BY <1>1
  <2>3. ASSUME NEW n \in 0..MaxTrials
        PROVE  [counted[a] EXCEPT ![trial[t]] = counted[a][trial[t]] + 1][n]
                  \in {counted[a][n], counted[a][n] + 1}
    BY <2>1, OneMoreAt
  <2>4. [counted[a] EXCEPT ![trial[t]] = counted[a][trial[t]] + 1] \in [0..MaxTrials -> Nat]
    BY <2>1, OneMoreAt
  <2>5. counted'[a] = [counted[a] EXCEPT ![trial[t]] = counted[a][trial[t]] + 1]
    BY <1>4, <2>1, <2>2
  <2>6. counted' \in [Alts -> [0..MaxTrials -> Nat]]
        /\ \A b \in Alts \ {a} : counted'[b] = counted[b]
    BY <1>4, <2>1, <2>2, <2>4
  <2>7. \A n \in 0..MaxTrials : counted[a][n] \in Nat
    BY <2>1
  <2> QED BY <2>3, <2>5, <2>6, <2>7
<1>11. AccountOf(a)'
  BY <1>1, <1>4, <1>6 DEF AccountOf
<1>12. BoundOf(a)'
  <2>1. Drawn(a)' = Drawn(a)
    BY <1>1, <1>5 DEF Drawn
  <2>2. \A n \in 0..MaxTrials : counted'[a][n] <= altGameCount'[a]
    <3>1. ASSUME NEW n \in 0..MaxTrials PROVE counted'[a][n] <= altGameCount'[a]
      <4>1. counted[a][n] \in Nat /\ counted'[a][n] \in Nat
        BY <1>4, <1>10 DEF Counters, CounterTypes
      <4>2. counted[a][n] <= altGameCount[a]
        BY <1>4 DEF BoundOf
      <4> QED BY <1>4, <1>6, <1>10, <4>1, <4>2
    <3> QED BY <3>1
  <2> QED BY <1>4, <1>8, <2>1, <2>2 DEF BoundOf
<1>13. altTrialCount' \in [Alts -> Nat] /\ \A b \in Alts : altTrialCount'[b] = altTrialCount[b]
  BY <1>1 DEF Counters, CounterTypes
<1> QED BY <1>1, <1>2, <1>6, <1>8, <1>9, <1>10, <1>11, <1>12, <1>13, GivesUp

\* The number of a game that was interrupted is lost.
LEMMA AbandonCounts ==
  ASSUME Control, Counters, NEW t \in Threads, PlayTrial(t), fInterrupt
  PROVE  Counters'
<1> PICK a : alt[t] = a
  OBVIOUS
<1>1. UNCHANGED <<cGames, trial, ro_NextTrial, rollouts, fCubeRollout, fInterrupt,
                  altTrialCount, altGameCount, nGamesDone, counted, alt>>
  BY DEF PlayTrial, run, counts, locals
<1>2. /\ pc[t] = "roll" /\ pc[t] \in TrialPlaces /\ pc'[t] \in {"take", "looped", "end"}
      /\ \A u \in Procs \ {t} : pc'[u] = pc[u] /\ alt'[u] = alt[u]
  BY <1>1, Moves DEF PlayTrial, Control, TrialPlaces, Procs
<1>3. trial[t] <= cGames /\ trial[t] \in Nat /\ cGames \in Nat
  BY <1>2, CountsAssumption DEF Counters, CounterTypes, NumberOf, Procs
<1>4. /\ a \in Alts
      /\ altTrialCount[a] \in Nat /\ altGameCount[a] \in Nat
      /\ Cardinality(Held(a)) \in Nat \ {0} /\ Cardinality(Held(a)') = Cardinality(Held(a)) - 1
      /\ Cardinality(Over(a)') = IF trial[t] > cGames THEN Cardinality(Over(a)) - 1
                                 ELSE Cardinality(Over(a))
      /\ AccountOf(a) /\ BoundOf(a)
  BY <1>1, <1>2, Fewer
<1>5. AccountOf(a)'
  BY <1>1, <1>4 DEF AccountOf
<1>6. Drawn(a)' = Drawn(a)
  BY <1>1, <1>3, <1>4 DEF Drawn
<1>7. BoundOf(a)'
  BY <1>1, <1>4, <1>6 DEF BoundOf
<1>8. /\ altTrialCount' \in [Alts -> Nat] /\ altGameCount' \in [Alts -> Nat]
      /\ nGamesDone' \in [Alts -> Nat] /\ counted' \in [Alts -> [0..MaxTrials -> Nat]]
      /\ \A b \in Alts : nGamesDone[b] <= nGamesDone'[b] /\ nGamesDone'[b] <= Most + 1
  BY <1>1 DEF Counters, CounterTypes, BoundOf
<1> QED BY <1>1, <1>2, <1>5, <1>7, <1>8, GivesUp

\* Other steps leave the counters of the alternatives alone.
LEMMA QuietCounts ==
  ASSUME Counters,
         UNCHANGED <<fCubeRollout, cGames, rollouts, altTrialCount, altGameCount, nGamesDone,
                     counted, trial>>,
         fInterrupt' \in BOOLEAN, fInterrupt => fInterrupt', ro_NextTrial' \in Nat, Rounds',
         \A a : Held(a)' = Held(a) /\ Over(a)' = Over(a),
         \A u \in Procs : pc'[u] \in {"roll", "apply"} => trial[u] <= cGames
  PROVE  Counters'
<1>1. Alts' = Alts
  BY DEF Alts, nAlternatives
<1>2. CounterTypes'
  BY <1>1 DEF Counters, CounterTypes
<1>3. ASSUME NEW a \in Alts PROVE AccountOf(a)' /\ BoundOf(a)'
  BY DEF Counters, AccountOf, BoundOf, Drawn
<1>4. \A u \in Procs : NumberOf(u)'
  BY DEF Counters, NumberOf
<1> QED BY <1>1, <1>2, <1>3, <1>4 DEF Counters

\* A command starts with the games that are done, and without trials drawn.
LEMMA CommandCounts ==
  ASSUME Control, Counters, NEW n \in TrialsAsked, NEW condition \in StopsOn,
         RolloutGeneral(n, condition)
  PROVE  Counters'
<1>1. /\ UNCHANGED <<fCubeRollout, nGamesDone, trial>>
      /\ cGames' = n /\ fInterrupt' = FALSE /\ rollouts < MaxRollouts /\ rollouts' = rollouts + 1
      /\ altTrialCount' = nGamesDone /\ altGameCount' = nGamesDone
      /\ counted' = [a \in Alts |-> [k \in 0..MaxTrials |-> IF Fresh(a) THEN 0 ELSE counted[a][k]]]
      /\ ro_NextTrial' = Min({n} \cup {nGamesDone[a] : a \in Alts})
  BY DEF RolloutGeneral
<1>2. Alts' = Alts
  BY <1>1 DEF Alts, nAlternatives
<1>3. /\ n \in Nat /\ n <= Most /\ Most \in Nat /\ MaxRollouts \in Nat /\ MaxTrials \in Nat
  BY MostAsked, CountsAssumption
<1>4. ro_NextTrial' \in Nat /\ ro_NextTrial' <= n
  <2> DEFINE S == {n} \cup {nGamesDone[a] : a \in Alts}
  <2>1. S \in SUBSET Nat /\ n \in S
    BY <1>3 DEF Counters, CounterTypes
  <2>2. Min(S) \in S /\ Min(S) <= n
    BY <2>1, Least
  <2> QED BY <1>1, <2>1, <2>2
<1>5. pc'[Main] \notin {"idle", "wait"} /\ \A u \in Threads : pc'[u] = "end"
  <2>1. /\ pc[Main] = "idle" /\ pc'[Main] \in {"start", "enter"}
        /\ \A u \in Procs \ {Main} : pc'[u] = pc[u]
    BY Moves DEF RolloutGeneral, Control, Procs
  <2> QED BY <2>1, ThreadsAssumption DEF Control, Roles, Procs
<1>6. \A a : Held(a)' = {} /\ Over(a)' = {}
  BY <1>5 DEF Held, Over, TrialPlaces
<1>7. ASSUME NEW a \in Alts PROVE AccountOf(a)' /\ BoundOf(a)'
  <2>1. nGamesDone[a] \in Nat /\ nGamesDone[a] <= Most + 1 /\ altGameCount[a] <= nGamesDone[a]
        /\ altGameCount[a] \in Nat
    BY DEF Counters, CounterTypes, BoundOf
  <2>2. Cardinality(Held(a)') = 0 /\ Cardinality(Over(a)') = 0
    BY <1>6, FS_EmptySet
  <2>3. AccountOf(a)'
    BY <1>1, <2>1, <2>2 DEF AccountOf
  <2>4. Drawn(a)' <= Most + 1
    BY <1>1, <2>1, <2>2 DEF Drawn
  <2>5. ASSUME NEW k \in 0..MaxTrials PROVE counted'[a][k] <= altGameCount'[a]
    <3>1. counted[a][k] <= altGameCount[a] /\ counted[a][k] \in Nat
      BY DEF Counters, CounterTypes, BoundOf
    <3>2. counted'[a][k] = IF Fresh(a) THEN 0 ELSE counted[a][k]
      BY <1>1
    <3> QED BY <1>1, <2>1, <3>1, <3>2
  <2> QED BY <1>1, <2>1, <2>3, <2>4, <2>5 DEF BoundOf
<1>8. CounterTypes'
  <2>1. counted' \in [Alts -> [0..MaxTrials -> Nat]]
    <3>1. ASSUME NEW a \in Alts, NEW k \in 0..MaxTrials
          PROVE  (IF Fresh(a) THEN 0 ELSE counted[a][k]) \in Nat
      BY DEF Counters, CounterTypes
    <3> QED BY <1>1, <3>1
  <2>2. rollouts' \in 0..MaxRollouts
    BY <1>1, <1>3 DEF Counters, CounterTypes
  <2> QED BY <1>1, <1>2, <1>4, <2>1, <2>2 DEF Counters, CounterTypes
<1>9. \A u \in Procs : NumberOf(u)'
  <2>1. \A u \in Procs : pc'[u] \notin {"roll", "apply"}
    <3>1. pc'[Main] \in {"start", "enter"}
      BY Moves DEF RolloutGeneral, Control, Procs
    <3> QED BY <1>5, <3>1 DEF Procs
  <2> QED BY <1>1, <2>1 DEF Counters, NumberOf
<1>10. Rounds'
  <2>1. AtEnd' \in SUBSET Threads
    BY DEF AtEnd
  <2>2. Cardinality(AtEnd') \in Nat
    BY <2>1, ThreadsAssumption, FS_Subset, FS_CardinalityType
  <2> QED BY <1>1, <1>3, <1>4, <2>2 DEF Rounds
<1> QED BY <1>2, <1>7, <1>8, <1>9, <1>10 DEF Counters

\* The next trial is drawn while there are some left; a thread that finds none
\* ends.
LEMMA NextCounts ==
  ASSUME Control, Counters, NEW t \in Threads, NextTrial(t)
  PROVE  Counters'
<1>1. /\ UNCHANGED <<fCubeRollout, cGames, rollouts, fInterrupt, altTrialCount, altGameCount,
                     nGamesDone, counted, trial>>
      /\ ro_NextTrial' = ro_NextTrial + 1
  BY DEF NextTrial, run, counts
<1>2. /\ pc[t] = "next" /\ pc'[t] = (IF ro_NextTrial < cGames THEN "take" ELSE "end")
      /\ \A u \in Procs \ {t} : pc'[u] = pc[u] /\ alt'[u] = alt[u]
  BY Moves DEF NextTrial, Control, ControlTypes, Procs
<1>3. ro_NextTrial \in Nat /\ cGames \in Nat /\ ro_NextTrial <= cGames + Cardinality(AtEnd)
  BY CountsAssumption DEF Counters, CounterTypes, Rounds
<1>4. pc[Main] = "wait" /\ pc'[Main] = "wait"
  BY <1>2, ThreadsAssumption DEF Control, Roles, Procs
<1>5. Rounds'
  <2>1. CASE ro_NextTrial < cGames
    <3>1. AtEnd' \in SUBSET Threads
      BY DEF AtEnd
    <3>2. Cardinality(AtEnd') \in Nat
      BY <3>1, ThreadsAssumption, FS_Subset, FS_CardinalityType
    <3> QED BY <1>1, <1>3, <1>4, <2>1, <3>2 DEF Rounds
  <2>2. CASE ~(ro_NextTrial < cGames)
    <3>1. AtEnd' = AtEnd \cup {t} /\ t \notin AtEnd
      BY <1>2, <2>2 DEF AtEnd, Procs
    <3>2. Cardinality(AtEnd') = Cardinality(AtEnd) + 1 /\ Cardinality(AtEnd) \in Nat
      BY <3>1, Sizes, FS_AddElement
    <3> QED BY <1>1, <1>3, <1>4, <3>2 DEF Rounds
  <2> QED BY <2>1, <2>2
<1>6. \A a : Held(a)' = Held(a) /\ Over(a)' = Over(a)
  <2>1. \A u \in Threads : u # t => pc'[u] = pc[u] /\ alt'[u] = alt[u]
    BY <1>2 DEF Procs
  <2> QED BY <1>1, <1>2, <2>1, SameHolders DEF TrialPlaces
<1>7. \A u \in Procs : pc'[u] \in {"roll", "apply"} => trial[u] <= cGames
  BY <1>2 DEF Counters, NumberOf
<1>8. fInterrupt' \in BOOLEAN /\ ro_NextTrial' \in Nat
  BY <1>1, <1>3 DEF Counters, CounterTypes
<1> QED BY <1>1, <1>5, <1>6, <1>7, <1>8, QuietCounts

\* What happens between the counters: places change, and no thread comes to hold
\* or to lose a number.
LEMMA PlacesCount ==
  ASSUME Control, Counters,
         UNCHANGED <<fCubeRollout, cGames, rollouts, ro_NextTrial, altTrialCount, altGameCount,
                     nGamesDone, counted, trial, alt>>,
         fInterrupt' \in BOOLEAN, fInterrupt => fInterrupt',
         \A u \in Threads :
            \/ pc'[u] = pc[u]
            \/ pc[u] = "test" /\ pc'[u] = "giveback"
            \/ pc[u] = "test" /\ pc'[u] = "roll" /\ trial[u] <= cGames
            \/ pc[u] = "roll" /\ pc'[u] = "apply"
            \/ /\ pc[u] \notin TrialPlaces \cup {"end"} /\ pc'[u] \notin TrialPlaces
            \/ pc[u] = "end" /\ pc'[u] = "next" /\ pc[Main] \notin {"idle", "wait"},
         pc'[Main] \in {"idle", "wait"} \/ pc[Main] \notin {"idle", "wait"},
         pc'[Main] \notin {"roll", "apply"}
  PROVE  Counters'
<1>1. \A a : Held(a)' = Held(a) /\ Over(a)' = Over(a)
  BY SameHolders DEF TrialPlaces
<1>2. \A u \in Procs : pc'[u] \in {"roll", "apply"} => trial[u] <= cGames
  <2>1. \A u \in Threads : pc'[u] \in {"roll", "apply"} => trial[u] <= cGames
    BY DEF Counters, NumberOf, Procs, TrialPlaces
  <2> QED BY <2>1 DEF Procs
<1>3. ro_NextTrial' \in Nat
  BY DEF Counters, CounterTypes
<1>4. Rounds'
  <2>1. AtEnd' \in SUBSET Threads
    BY DEF AtEnd
  <2>2. Cardinality(AtEnd') \in Nat /\ IsFiniteSet(AtEnd')
    BY <2>1, ThreadsAssumption, FS_Subset, FS_CardinalityType
  <2>3. ro_NextTrial \in Nat /\ cGames \in Nat
    BY CountsAssumption DEF Counters, CounterTypes
  <2>4. CASE pc[Main] \notin {"idle", "wait"}
    BY <2>2, <2>3, <2>4 DEF Counters, Rounds
  <2>5. CASE pc[Main] \in {"idle", "wait"}
    <3>1. AtEnd \in SUBSET AtEnd'
      BY <2>5 DEF AtEnd, TrialPlaces
    <3>2. Cardinality(AtEnd) <= Cardinality(AtEnd') /\ Cardinality(AtEnd) \in Nat
      BY <2>2, <3>1, FS_Subset, Sizes
    <3> QED BY <2>2, <2>3, <2>5, <3>2 DEF Counters, Rounds
  <2> QED BY <2>4, <2>5
<1> QED BY <1>1, <1>2, <1>3, <1>4, QuietCounts

\* A check leaves the counters and the trials alone, and its thread only moves
\* within the check or out of it.
LEMMA CheckEffects ==
  ASSUME Control, NEW t \in Procs, Check(t)
  PROVE  /\ UNCHANGED <<fCubeRollout, cGames, stopOn, fInterrupt, rollouts, ro_NextTrial, altTrialCount,
                        altGameCount, nGamesDone, counted, trial, alt>>
         /\ pc[t] \in CheckPlaces \cup {"enter"}
         /\ pc'[t] \in CheckPlaces \cup {"start", "next", "end"}
         /\ \A u \in Procs \ {t} : pc'[u] = pc[u]
<1>1. ControlTypes
  BY DEF Control
<1>2. CASE EnterCheck(t)
  <2>1. UNCHANGED <<fCubeRollout, cGames, stopOn, fInterrupt, rollouts, ro_NextTrial, altTrialCount,
                    altGameCount, nGamesDone, counted, trial, alt>>
    BY <1>2 DEF EnterCheck, run, counts
  <2>2. /\ pc[t] = "enter" /\ \A u \in Procs \ {t} : pc'[u] = pc[u]
        /\ pc'[t] = IF stopOn = "jsd" /\ fCubeRollout THEN "jsdcube" ELSE stopOn
    BY <1>1, <1>2, Moves DEF EnterCheck
  <2>3. stopOn \in CheckPlaces
    BY <1>1, StopAssumption DEF ControlTypes, CheckPlaces
  <2> QED BY <2>1, <2>2, <2>3 DEF CheckPlaces
<1>3. CASE ~EnterCheck(t)
  <2>1. UNCHANGED <<fCubeRollout, cGames, stopOn, fInterrupt, rollouts, ro_NextTrial, altTrialCount,
                    altGameCount, nGamesDone, counted, trial, alt>>
    BY <1>3 DEF Check, JsdMove, JsdMovesDone, JsdCube, JsdCubeStops, StdAlternative, StdDone,
                StdCubeResumes, CheckNothing, Decide, checked, run, counts, locals
  <2>2. CASE JsdMove(t) \/ StdAlternative(t)
    BY <2>1, <2>2 DEF JsdMove, StdAlternative, CheckPlaces
  <2>3. CASE \/ JsdMovesDone(t) \/ JsdCube(t) \/ JsdCubeStops(t) \/ StdDone(t)
             \/ StdCubeResumes(t, "std2", "std3", 2) \/ StdCubeResumes(t, "std3", "decide", 1)
             \/ CheckNothing(t) \/ Decide(t)
    BY <1>1, <2>1, <2>3, Moves DEF JsdMovesDone, JsdCube, JsdCubeStops, StdDone, StdCubeResumes,
                                   CheckNothing, Decide, CheckPlaces
  <2> QED BY <1>3, <2>2, <2>3 DEF Check
<1> QED BY <1>2, <1>3

\* Each check keeps the counters.
LEMMA ChecksCount ==
  ASSUME Control, Counters, NEW t \in Procs, Check(t)
  PROVE  Counters'
<1>1. /\ UNCHANGED <<fCubeRollout, cGames, stopOn, fInterrupt, rollouts, ro_NextTrial, altTrialCount,
                     altGameCount, nGamesDone, counted, trial, alt>>
      /\ pc[t] \in CheckPlaces \cup {"enter"}
      /\ pc'[t] \in CheckPlaces \cup {"start", "next", "end"}
      /\ \A u \in Procs \ {t} : pc'[u] = pc[u]
  BY CheckEffects
<1>2. \A u \in Threads : \/ pc'[u] = pc[u]
                         \/ pc[u] \notin TrialPlaces \cup {"end"} /\ pc'[u] \notin TrialPlaces
  BY <1>1 DEF CheckPlaces, TrialPlaces, Procs
<1>3. /\ pc'[Main] \in {"idle", "wait"} \/ pc[Main] \notin {"idle", "wait"}
      /\ pc'[Main] \notin {"roll", "apply"}
  BY <1>1 DEF CheckPlaces, Procs, Control, Roles
<1>4. fInterrupt' \in BOOLEAN
  BY <1>1 DEF Counters, CounterTypes
<1> QED BY <1>1, <1>2, <1>3, <1>4, PlacesCount

\* A thread's own steps between the counters.
LEMMA QuietThreadCounts ==
  ASSUME Control, Counters, NEW t \in Threads,
         TestAlternative(t) \/ (PlayTrial(t) /\ ~fInterrupt) \/ Looped(t)
  PROVE  Counters'
<1>1. UNCHANGED <<fCubeRollout, cGames, rollouts, fInterrupt, ro_NextTrial, altTrialCount,
                  altGameCount, nGamesDone, counted, trial, alt>>
  BY DEF TestAlternative, PlayTrial, Looped, run, counts, locals
<1>2. /\ \A u \in Procs \ {t} : pc'[u] = pc[u]
      /\ \/ pc[t] = "test" /\ pc'[t] = "giveback"
         \/ pc[t] = "test" /\ pc'[t] = "roll" /\ ~(trial[t] > cGames)
         \/ pc[t] = "roll" /\ pc'[t] = "apply"
         \/ pc[t] = "looped" /\ pc'[t] \in {"end", "enter"}
  BY Moves DEF TestAlternative, PlayTrial, Looped, Skipped, Control, Procs
<1>3. trial[t] \in Nat /\ cGames \in Nat /\ fInterrupt' \in BOOLEAN
  BY <1>1, CountsAssumption DEF Counters, CounterTypes, Procs
<1>4. pc[Main] = "wait" /\ pc'[Main] = "wait"
  BY <1>2, ThreadsAssumption DEF Control, Roles, Procs
<1>5. \A u \in Threads :
            \/ pc'[u] = pc[u]
            \/ pc[u] = "test" /\ pc'[u] = "giveback"
            \/ pc[u] = "test" /\ pc'[u] = "roll" /\ trial[u] <= cGames
            \/ pc[u] = "roll" /\ pc'[u] = "apply"
            \/ pc[u] \notin TrialPlaces \cup {"end"} /\ pc'[u] \notin TrialPlaces
  BY <1>2, <1>3 DEF TrialPlaces, Procs
<1> QED BY <1>1, <1>3, <1>4, <1>5, PlacesCount

\* The main thread's steps between commands, and an interruption.
LEMMA QuietMainCounts ==
  ASSUME Control, Counters, StartThreads \/ Finish \/ Interrupt \/ UNCHANGED vars
  PROVE  Counters'
<1>1. UNCHANGED <<fCubeRollout, cGames, rollouts, ro_NextTrial, altTrialCount,
                  altGameCount, nGamesDone, counted, trial, alt>>
  BY DEF StartThreads, Finish, Interrupt, vars, run, counts, locals
<1>2. fInterrupt' \in BOOLEAN /\ (fInterrupt => fInterrupt')
  <2>1. fInterrupt \in BOOLEAN
    BY DEF Counters, CounterTypes
  <2>2. fInterrupt' = fInterrupt \/ fInterrupt' = TRUE
    BY DEF StartThreads, Finish, Interrupt, vars, run
  <2> QED BY <2>1, <2>2
<1>3. ControlTypes /\ Main \in Procs
  BY DEF Control, Procs
<1>4. CASE StartThreads
  <2>1. /\ pc[Main] = "start" /\ pc'[Main] \in {"idle", "wait"}
        /\ \A u \in Threads : pc'[u] = pc[u] \/ (pc[u] = "end" /\ pc'[u] = "next")
    BY <1>3, <1>4, ThreadsAssumption DEF StartThreads, Control, ControlTypes, Roles, Procs
  <2> QED BY <1>1, <1>2, <2>1, PlacesCount
<1>5. CASE Finish
  <2>1. pc'[Main] = "idle" /\ \A u \in Threads : pc'[u] = pc[u]
    BY <1>3, <1>5, ThreadsAssumption, Moves DEF Finish, Procs
  <2> QED BY <1>1, <1>2, <2>1, PlacesCount
<1>6. CASE Interrupt \/ UNCHANGED vars
  <2>1. UNCHANGED pc
    BY <1>6 DEF Interrupt, vars
  <2>2. pc[Main] \notin {"roll", "apply"}
    BY DEF Control, Roles, CheckPlaces
  <2> QED BY <1>1, <1>2, <2>1, <2>2, PlacesCount
<1> QED BY <1>4, <1>5, <1>6

\* Every step of the system keeps the counters.
LEMMA CountersAreKept == Control /\ Counters /\ [Next]_vars => Counters'
<1> SUFFICES ASSUME Control, Counters, [Next]_vars PROVE Counters'
  OBVIOUS
<1>1. CASE \E n \in TrialsAsked, condition \in StopsOn : RolloutGeneral(n, condition)
  BY <1>1, CommandCounts
<1>2. CASE MainStep
  BY <1>2, QuietMainCounts, ChecksCount DEF MainStep, Procs
<1>3. CASE \E t \in Threads : ThreadStep(t)
  BY <1>3, NextCounts, TakeCounts, QuietThreadCounts, GiveBackCounts, AbandonCounts, AddCounts,
     ChecksCount DEF ThreadStep, Procs
<1>4. CASE Interrupt \/ Ended \/ UNCHANGED vars
  BY <1>4, QuietMainCounts DEF Ended
<1> QED BY <1>1, <1>2, <1>3, <1>4 DEF Next

-----------------------------------------------------------------------------
(* What follows for the counters, for every value of the constants. *)

\* The counters are as the invariant says, in every state.
THEOREM CountersHold == Spec => []Counters
<1>1. Control /\ Counters /\ [Next]_vars => Counters'
  BY CountersAreKept
<1> QED BY <1>1, InitialCounters, ControlHolds, PTL DEF Spec

\* Every variable has its type: no counter goes below zero, or beyond the trials
\* that were asked for by more than one per thread.
THEOREM TypesHold == Spec => []TypeOK
<1>1. ASSUME Control, Counters PROVE TypeOK
  <2>1. /\ nAlternatives \in Nat \ {0} /\ Most \in Nat /\ Cardinality(Threads) \in Nat
        /\ MaxTrials = Most + Cardinality(Threads)
    BY <1>1, Alternatives, MostAsked DEF Control, ControlTypes
  <2>2. \A n \in Nat : n <= MaxTrials + 1 => n \in Range0
    BY <2>1 DEF Range0
  <2>3. ASSUME NEW a \in Alts
        PROVE  /\ altTrialCount[a] \in Range0 /\ altGameCount[a] \in Range0
               /\ nGamesDone[a] \in Range0
               /\ \A n \in 0..MaxTrials : counted[a][n] \in Range0
    <3>1. AccountOf(a) /\ BoundOf(a)
      BY <1>1 DEF Counters
    <3>2. /\ altTrialCount[a] \in Nat /\ altGameCount[a] \in Nat /\ nGamesDone[a] \in Nat
          /\ \A n \in 0..MaxTrials : counted[a][n] \in Nat
      BY <1>1 DEF Counters, CounterTypes
    <3>3. /\ Cardinality(Over(a)) \in Nat /\ Cardinality(Over(a)) <= Cardinality(Threads)
          /\ Cardinality(Held(a)) \in Nat
      BY <2>1, Sizes
    <3>4. altTrialCount[a] <= MaxTrials + 1
      BY <2>1, <3>1, <3>2, <3>3 DEF BoundOf, Drawn
    <3>5. nGamesDone[a] <= MaxTrials + 1 /\ altGameCount[a] <= MaxTrials + 1
      BY <2>1, <3>1, <3>2 DEF BoundOf
    <3>6. ASSUME NEW n \in 0..MaxTrials PROVE counted[a][n] \in Range0
      <4>1. counted[a][n] <= altGameCount[a] /\ counted[a][n] \in Nat
        BY <3>1, <3>2 DEF BoundOf
      <4>2. counted[a][n] <= MaxTrials + 1
        BY <2>1, <3>2, <3>5, <4>1
      <4> QED BY <2>2, <4>1, <4>2
    <3> QED BY <2>2, <3>2, <3>4, <3>5, <3>6
  <2>4. ro_NextTrial \in Range0
    <3>1. ro_NextTrial \in Nat /\ cGames \in Nat /\ cGames <= Most
      BY <1>1, <2>1, MostAsked, CountsAssumption DEF Counters, CounterTypes
    <3>2. Cardinality(AtEnd) \in Nat /\ Cardinality(AtEnd) <= Cardinality(Threads)
      BY Sizes
    <3> QED BY <1>1, <2>1, <2>2, <3>1, <3>2 DEF Counters, Rounds
  <2>5. trial \in [Procs -> 0..MaxTrials]
    BY <1>1, <2>1 DEF Counters, CounterTypes, NumberOf
  <2>6. /\ altTrialCount \in [Alts -> Range0] /\ altGameCount \in [Alts -> Range0]
        /\ nGamesDone \in [Alts -> Range0]
    BY <1>1, <2>3 DEF Counters, CounterTypes
  <2>7. counted \in [Alts -> [0..MaxTrials -> Range0]]
    <3>1. counted \in [Alts -> [0..MaxTrials -> Nat]]
      BY <1>1 DEF Counters, CounterTypes
    <3>2. ASSUME NEW a \in Alts PROVE counted[a] \in [0..MaxTrials -> Range0]
      BY <2>3, <3>1
    <3> QED BY <3>1, <3>2
  <2>8. /\ fCubeRollout \in CubeRollouts /\ stopOn \in StopsOn
        /\ fNoMore \in [Alts -> BOOLEAN] /\ multiLock \in Procs \cup {Free}
        /\ pc \in [Procs -> Places] /\ alt \in [Procs -> Alts]
        /\ active \in [Procs -> 0..(2 * nAlternatives)]
        /\ rank \in [Procs -> Rankings] /\ i \in [Procs -> 1..(nAlternatives + 1)]
    BY <1>1 DEF Control, ControlTypes
  <2>9. cGames \in TrialsAsked \cup {0} /\ fInterrupt \in BOOLEAN /\ rollouts \in 0..MaxRollouts
    BY <1>1 DEF Counters, CounterTypes
  <2> QED BY <2>4, <2>5, <2>6, <2>7, <2>8, <2>9 DEF TypeOK
<1> QED BY <1>1, ControlHolds, CountersHold, PTL

\* A rollout that is not interrupted leaves no trial number drawn and not
\* counted: what RolloutLoopMT takes with MT_SafeIncValue it gives back with
\* MT_SafeDec or adds to the results.
THEOREM TrialsSettle == Spec => []TrialsAreSettled
<1>1. ASSUME Control, Counters PROVE TrialsAreSettled
  <2>1. SUFFICES ASSUME AtRest, ~fInterrupt, NEW a \in Alts
                 PROVE  altTrialCount[a] = altGameCount[a]
    BY DEF TrialsAreSettled
  <2>2. Held(a) = {}
    BY <1>1, <2>1 DEF AtRest, Control, Roles, Held, TrialPlaces
  <2>3. Cardinality(Held(a)) = 0
    BY <2>2, FS_EmptySet
  <2> QED BY <1>1, <2>1, <2>3 DEF Counters, CounterTypes, AccountOf
<1> QED BY <1>1, ControlHolds, CountersHold, PTL
=============================================================================
