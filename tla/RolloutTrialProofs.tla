-------------------------- MODULE RolloutTrialProofs --------------------------
(***************************************************************************)
(* Which games a rollout plays: the minimum before an alternative is       *)
(* stopped and, when none is stopped, that every trial that was asked for  *)
(* is played, and none twice.                                              *)
(***************************************************************************)
EXTENDS RolloutProofs

-----------------------------------------------------------------------------
(* The kinds of steps. *)

\* A step of a thread, or none, that neither takes nor releases a number.
QuietMove(u) ==
    \/ pc'[u] = pc[u] /\ alt'[u] = alt[u]
    \/ pc[u] = "next" /\ ro_NextTrial < cGames /\ pc'[u] = "take" /\ alt'[u] = 1
    \/ pc[u] = "next" /\ ~(ro_NextTrial < cGames) /\ pc'[u] = "end"
    \/ pc[u] = "test" /\ Skipped(u) /\ pc'[u] = "giveback" /\ alt'[u] = alt[u]
    \/ pc[u] = "test" /\ ~Skipped(u) /\ pc'[u] = "roll" /\ alt'[u] = alt[u]
    \/ pc[u] = "roll" /\ pc'[u] = "apply" /\ alt'[u] = alt[u]
    \/ /\ pc[u] \in {"looped", "enter"} \cup CheckPlaces /\ alt'[u] = alt[u]
       /\ pc'[u] \in {"enter", "next", "end"} \cup CheckPlaces

\* A step that changes nothing of what the counters say.
Quiet ==
    /\ UNCHANGED <<fCubeRollout, stopOn, cGames, rollouts, altTrialCount, altGameCount, nGamesDone,
                   counted, trial>>
    /\ fInterrupt => fInterrupt'
    /\ \A u \in Threads : QuietMove(u)
    /\ \/ pc'[Main] = pc[Main]
       \/ pc[Main] = "wait" /\ pc'[Main] = "idle"
       \/ pc[Main] \notin {"idle", "wait", "start"} /\ pc'[Main] \notin {"idle", "wait"}

\* Numbers are drawn one after the other.
Drawing ==
    \/ UNCHANGED ro_NextTrial /\ \A u \in Threads : pc[u] # "next" \/ pc'[u] = "next"
    \/ ro_NextTrial' = ro_NextTrial + 1 /\ \E t \in Threads :
          pc[t] = "next" /\ pc'[t] # "next" /\ \A u \in Threads \ {t} : pc'[u] = pc[u] /\ alt'[u] = alt[u]

\* A number is taken or released, a command starts, its threads start, or the
\* step is quiet.
LEMMA StepKinds ==
  ASSUME Control, Counters, [Next]_vars
  PROVE  \/ \E n \in TrialsAsked, condition \in StopsOn : RolloutGeneral(n, condition)
         \/ \E t \in Threads : TakeTrial(t) \/ GiveBack(t) \/ AddResult(t)
         \/ \E t \in Threads : PlayTrial(t) /\ fInterrupt
         \/ StartThreads
         \/ Quiet /\ Drawing
<1>1. ControlTypes /\ Main \in Procs /\ Main \notin Threads /\ Threads \subseteq Procs
  BY ThreadsAssumption DEF Control, Procs
<1>2. ASSUME NEW t \in Threads, NextTrial(t) PROVE Quiet /\ Drawing
  <2>1. /\ UNCHANGED <<fCubeRollout, stopOn, cGames, rollouts, fInterrupt, altTrialCount,
                       altGameCount, nGamesDone, counted, trial>>
        /\ ro_NextTrial' = ro_NextTrial + 1
    BY <1>2 DEF NextTrial, run, counts
  <2>2. /\ pc[t] = "next" /\ pc'[t] = (IF ro_NextTrial < cGames THEN "take" ELSE "end")
        /\ alt'[t] = 1
        /\ \A u \in Procs \ {t} : pc'[u] = pc[u] /\ alt'[u] = alt[u]
    BY <1>1, <1>2, Moves DEF NextTrial, ControlTypes
  <2>3. \A u \in Threads : QuietMove(u)
    BY <1>1, <2>2 DEF QuietMove
  <2>4. pc'[Main] = pc[Main]
    BY <1>1, <2>2
  <2>5. Drawing
    BY <1>1, <2>1, <2>2 DEF Drawing
  <2> QED BY <2>1, <2>3, <2>4, <2>5 DEF Quiet
<1>3. ASSUME NEW t \in Threads, TestAlternative(t) \/ (PlayTrial(t) /\ ~fInterrupt) \/ Looped(t)
      PROVE  Quiet /\ Drawing
  <2>1. UNCHANGED <<fCubeRollout, stopOn, cGames, rollouts, fInterrupt, ro_NextTrial,
                    altTrialCount, altGameCount, nGamesDone, counted, trial, alt>>
    BY <1>3 DEF TestAlternative, PlayTrial, Looped, run, counts, locals
  <2>2. /\ \A u \in Procs \ {t} : pc'[u] = pc[u]
        /\ \/ pc[t] = "test" /\ Skipped(t) /\ pc'[t] = "giveback"
           \/ pc[t] = "test" /\ ~Skipped(t) /\ pc'[t] = "roll"
           \/ pc[t] = "roll" /\ pc'[t] = "apply"
           \/ pc[t] = "looped" /\ pc'[t] \in {"end", "enter"}
    BY <1>1, <1>3, Moves DEF TestAlternative, PlayTrial, Looped
  <2>3. \A u \in Threads : QuietMove(u)
    BY <1>1, <2>1, <2>2 DEF QuietMove
  <2>4. pc'[Main] = pc[Main]
    BY <1>1, <2>2
  <2>5. Drawing
    BY <1>1, <2>1, <2>2 DEF Drawing
  <2> QED BY <2>1, <2>3, <2>4, <2>5 DEF Quiet
<1>4. ASSUME NEW t \in Procs, Check(t) PROVE Quiet /\ Drawing
  <2>1. /\ UNCHANGED <<fCubeRollout, cGames, stopOn, fInterrupt, rollouts, ro_NextTrial,
                       altTrialCount, altGameCount, nGamesDone, counted, trial, alt>>
        /\ pc[t] \in CheckPlaces \cup {"enter"}
        /\ pc'[t] \in CheckPlaces \cup {"start", "next", "end"}
        /\ \A u \in Procs \ {t} : pc'[u] = pc[u]
    BY <1>4, CheckEffects
  <2>2. t \in Threads => pc'[t] # "start"
    <3>1. Control'
      BY ControlIsKept
    <3> QED BY <3>1 DEF Control, Roles
  <2>3. t = Main => pc'[t] \notin {"idle", "wait", "next", "end"}
    BY <1>4, <2>1, ControlIsKept DEF Control, Roles, CheckPlaces
  <2>4. \A u \in Threads : QuietMove(u)
    BY <1>1, <2>1, <2>2 DEF QuietMove
  <2>5. \/ pc'[Main] = pc[Main]
        \/ pc[Main] \notin {"idle", "wait", "start"} /\ pc'[Main] \notin {"idle", "wait"}
    BY <1>1, <2>1, <2>3 DEF CheckPlaces
  <2>6. Drawing
    BY <2>1 DEF Drawing, CheckPlaces, Procs
  <2> QED BY <2>1, <2>4, <2>5, <2>6 DEF Quiet
<1>5. ASSUME Finish \/ Interrupt \/ UNCHANGED vars PROVE Quiet /\ Drawing
  <2>1. UNCHANGED <<fCubeRollout, stopOn, cGames, rollouts, ro_NextTrial,
                    altTrialCount, altGameCount, nGamesDone, counted, trial, alt>>
    BY <1>5 DEF Finish, Interrupt, vars, run, counts, locals
  <2>2. fInterrupt => fInterrupt'
    BY <1>5 DEF Finish, Interrupt, vars, run
  <2>3. /\ \A u \in Threads : pc'[u] = pc[u]
        /\ pc'[Main] = pc[Main] \/ (pc[Main] = "wait" /\ pc'[Main] = "idle")
    <3>1. CASE Finish
      BY <1>1, <3>1, Moves DEF Finish
    <3>2. CASE Interrupt \/ UNCHANGED vars
      BY <3>2 DEF Interrupt, vars
    <3> QED BY <1>5, <3>1, <3>2
  <2>4. Drawing
    BY <2>1, <2>3 DEF Drawing
  <2> QED BY <2>1, <2>2, <2>3, <2>4 DEF Quiet, QuietMove
<1> QED BY <1>2, <1>3, <1>4, <1>5 DEF Next, MainStep, ThreadStep, Ended, Procs

\* A quiet step changes no holder of a number; a thread that is behind the first
\* alternative, or has ended, stays so, and no thread gives back a number without
\* a reason.
LEMMA QuietHolders ==
  ASSUME Quiet
  PROVE  /\ \A a : Held(a)' = Held(a) /\ Over(a)' = Over(a) /\ Drawn(a)' = Drawn(a)
         /\ Alts' = Alts /\ nAlternatives' = nAlternatives
<1>1. \A u \in Threads : \/ pc[u] \in TrialPlaces /\ pc'[u] \in TrialPlaces /\ alt'[u] = alt[u]
                         \/ pc[u] \notin TrialPlaces /\ pc'[u] \notin TrialPlaces
  BY DEF Quiet, QuietMove, TrialPlaces, CheckPlaces
<1>2. UNCHANGED <<fCubeRollout, cGames, trial, altTrialCount>>
  BY DEF Quiet
<1>3. \A a : Held(a)' = Held(a) /\ Over(a)' = Over(a)
  BY <1>1, <1>2, SameHolders
<1> QED BY <1>2, <1>3 DEF Drawn, Alts, nAlternatives

\* While the main thread is between commands all other threads have ended; a
\* thread that holds a number means that it waits.
LEMMA Waiting ==
  ASSUME Control, NEW t \in Threads, pc[t] # "end"
  PROVE  pc[Main] = "wait"
BY DEF Control, Roles

\* The sets and counts of an alternative when its number is taken.
LEMMA TakenOf ==
  ASSUME Control, Counters, NEW t \in Threads, TakeTrial(t), NEW a, alt[t] = a
  PROVE  /\ UNCHANGED <<fCubeRollout, stopOn, cGames, rollouts, fInterrupt, ro_NextTrial, altGameCount,
                        nGamesDone, counted, fNoMore, alt>>
         /\ Alts' = Alts /\ a \in Alts /\ cGames \in Nat
         /\ pc[t] = "take" /\ pc'[t] = "test" /\ \A u \in Procs \ {t} : pc'[u] = pc[u]
         /\ trial'[t] = altTrialCount[a] /\ \A u \in Procs \ {t} : trial'[u] = trial[u]
         /\ altTrialCount[a] \in Nat /\ altTrialCount'[a] = altTrialCount[a] + 1
         /\ \A b \in Alts \ {a} : /\ altTrialCount'[b] = altTrialCount[b]
                                  /\ Held(b)' = Held(b) /\ Over(b)' = Over(b) /\ Drawn(b)' = Drawn(b)
         /\ t \notin Held(a) /\ Held(a)' = Held(a) \cup {t}
         /\ Cardinality(Held(a)') = Cardinality(Held(a)) + 1
         /\ altTrialCount[a] > cGames => Over(a)' = Over(a) \cup {t} /\ Drawn(a)' = Drawn(a)
         /\ altTrialCount[a] <= cGames => Over(a)' = Over(a) /\ Drawn(a)' = Drawn(a) + 1
<1>1. CounterTypes
  BY DEF Counters
<1>2. /\ UNCHANGED <<run, ro_NextTrial, altGameCount, nGamesDone, counted, fNoMore, alt>>
      /\ Alts' = Alts /\ a \in Alts
      /\ pc[t] = "take" /\ pc'[t] = "test" /\ \A u \in Procs \ {t} : pc'[u] = pc[u]
      /\ trial'[t] = altTrialCount[a] /\ \A u \in Procs \ {t} : trial'[u] = trial[u]
      /\ altTrialCount' = [altTrialCount EXCEPT ![a] = @ + 1]
      /\ \A b \in Alts \ {a} : Held(b)' = Held(b) /\ Over(b)' = Over(b)
      /\ t \notin Held(a) /\ Held(a)' = Held(a) \cup {t}
      /\ Over(a)' = IF altTrialCount[a] > cGames THEN Over(a) \cup {t} ELSE Over(a)
  BY <1>1, Taken
<1>3. UNCHANGED <<fCubeRollout, stopOn, cGames, rollouts, fInterrupt>>
  BY <1>2 DEF run
<1>4. /\ altTrialCount[a] \in Nat /\ altTrialCount'[a] = altTrialCount[a] + 1 /\ cGames \in Nat
      /\ \A b \in Alts \ {a} : altTrialCount'[b] = altTrialCount[b]
  BY <1>1, <1>2, CountsAssumption DEF CounterTypes
<1>5. IsFiniteSet(Held(a)) /\ IsFiniteSet(Over(a)) /\ Cardinality(Over(a)) \in Nat /\ t \notin Over(a)
  BY <1>2, Sizes DEF Over
<1>6. Cardinality(Held(a) \cup {t}) = Cardinality(Held(a)) + 1
  BY <1>2, <1>5, FS_AddElement
<1>7. Cardinality(Over(a) \cup {t}) = Cardinality(Over(a)) + 1
  BY <1>5, FS_AddElement
<1>8. \A b \in Alts \ {a} : Drawn(b)' = Drawn(b)
  BY <1>2, <1>4 DEF Drawn
<1>9. altTrialCount[a] > cGames => Over(a)' = Over(a) \cup {t} /\ Drawn(a)' = Drawn(a)
  <2>1. SUFFICES ASSUME altTrialCount[a] > cGames
                 PROVE  Over(a)' = Over(a) \cup {t} /\ Drawn(a)' = Drawn(a)
    OBVIOUS
  <2>2. Over(a)' = Over(a) \cup {t}
    BY <1>2, <2>1
  <2>3. Cardinality(Over(a)') = Cardinality(Over(a)) + 1
    BY <1>7, <2>2
  <2> QED BY <1>4, <1>5, <2>2, <2>3 DEF Drawn
<1>10. altTrialCount[a] <= cGames => Over(a)' = Over(a) /\ Drawn(a)' = Drawn(a) + 1
  <2>1. SUFFICES ASSUME altTrialCount[a] <= cGames
                 PROVE  Over(a)' = Over(a) /\ Drawn(a)' = Drawn(a) + 1
    OBVIOUS
  <2>2. Over(a)' = Over(a)
    BY <1>2, <1>4, <2>1
  <2> QED BY <1>4, <1>5, <2>2 DEF Drawn
<1> QED BY <1>2, <1>3, <1>4, <1>6, <1>8, <1>9, <1>10

\* A thread releases its number, in one of three ways: it gives it back, the game
\* is added to the results, or the game was interrupted.
Releases(t, a) ==
    /\ UNCHANGED <<fCubeRollout, stopOn, cGames, rollouts, fInterrupt, ro_NextTrial, fNoMore, trial>>
    /\ alt[t] = a /\ trial[t] \in Nat
    /\ \A u \in Procs \ {t} : pc'[u] = pc[u] /\ alt'[u] = alt[u]
    /\ \/ /\ pc[t] = "giveback"
          /\ altTrialCount'[a] = altTrialCount[a] - 1 /\ UNCHANGED <<altGameCount, nGamesDone, counted>>
       \/ /\ pc[t] = "apply" /\ trial[t] <= cGames
          /\ altTrialCount'[a] = altTrialCount[a] /\ altGameCount'[a] = altGameCount[a] + 1
       \/ /\ pc[t] = "roll" /\ fInterrupt /\ pc'[t] = "end" /\ alt'[t] = a /\ trial[t] <= cGames
          /\ altTrialCount'[a] = altTrialCount[a] /\ UNCHANGED <<altGameCount, nGamesDone, counted>>
    /\ pc[t] # "roll" =>
          \/ a < nAlternatives /\ pc'[t] = "take" /\ alt'[t] = a + 1
          \/ ~(a < nAlternatives) /\ pc'[t] = "looped" /\ alt'[t] = a
    /\ \A b \in Alts \ {a} : /\ altTrialCount'[b] = altTrialCount[b]
                             /\ altGameCount'[b] = altGameCount[b] /\ counted'[b] = counted[b]

\* These three actions release a number.
LEMMA ReleaseSteps ==
  ASSUME Control, Counters, NEW t \in Threads, NEW a, alt[t] = a,
         GiveBack(t) \/ AddResult(t) \/ (PlayTrial(t) /\ fInterrupt)
  PROVE  Releases(t, a)
<1>1. /\ t \in Procs /\ trial[t] \in Nat /\ a \in Alts /\ ControlTypes
      /\ altTrialCount \in [Alts -> Nat] /\ altGameCount \in [Alts -> Nat]
      /\ counted \in [Alts -> [0..MaxTrials -> Nat]]
  BY DEF Procs, Control, ControlTypes, Counters, CounterTypes
<1>2. pc[t] \in {"roll", "apply"} => trial[t] <= cGames
  BY <1>1 DEF Counters, NumberOf
<1>3. CASE GiveBack(t)
  <2>1. /\ UNCHANGED <<fCubeRollout, stopOn, cGames, rollouts, fInterrupt, ro_NextTrial, fNoMore,
                       trial, altGameCount, nGamesDone, counted>>
        /\ altTrialCount' = [altTrialCount EXCEPT ![a] = @ - 1]
    BY <1>3 DEF GiveBack, run
  <2>2. /\ altTrialCount'[a] = altTrialCount[a] - 1
        /\ \A b \in Alts \ {a} : altTrialCount'[b] = altTrialCount[b]
    BY <1>1, <2>1
  <2>3. /\ pc[t] = "giveback" /\ pc'[t] = (IF a < nAlternatives THEN "take" ELSE "looped")
        /\ alt'[t] = IF a < nAlternatives THEN a + 1 ELSE a
        /\ \A u \in Procs \ {t} : pc'[u] = pc[u] /\ alt'[u] = alt[u]
    BY <1>3, GoesOn DEF GiveBack
  <2> QED BY <1>1, <2>1, <2>2, <2>3 DEF Releases
<1>4. CASE AddResult(t)
  <2>1. /\ UNCHANGED <<fCubeRollout, stopOn, cGames, rollouts, fInterrupt, ro_NextTrial, fNoMore,
                       trial, altTrialCount>>
        /\ altGameCount' = [altGameCount EXCEPT ![a] = @ + 1]
        /\ counted' = [counted EXCEPT ![a][trial[t]] = @ + 1]
    BY <1>4 DEF AddResult, run
  <2>2. /\ altGameCount'[a] = altGameCount[a] + 1
        /\ \A b \in Alts \ {a} : altGameCount'[b] = altGameCount[b] /\ counted'[b] = counted[b]
    BY <1>1, <2>1
  <2>3. /\ pc[t] = "apply" /\ pc'[t] = (IF a < nAlternatives THEN "take" ELSE "looped")
        /\ alt'[t] = IF a < nAlternatives THEN a + 1 ELSE a
        /\ \A u \in Procs \ {t} : pc'[u] = pc[u] /\ alt'[u] = alt[u]
    BY <1>4, GoesOn DEF AddResult
  <2> QED BY <1>1, <1>2, <2>1, <2>2, <2>3 DEF Releases
<1>5. CASE PlayTrial(t) /\ fInterrupt
  <2>1. UNCHANGED <<fCubeRollout, stopOn, cGames, rollouts, fInterrupt, ro_NextTrial, fNoMore,
                    trial, altTrialCount, altGameCount, nGamesDone, counted, alt>>
    BY <1>5 DEF PlayTrial, run, counts, locals
  <2>2. pc[t] = "roll" /\ pc'[t] = "end" /\ \A u \in Procs \ {t} : pc'[u] = pc[u]
    BY <1>1, <1>5, Moves DEF PlayTrial
  <2> QED BY <1>1, <1>2, <1>5, <2>1, <2>2 DEF Releases
<1> QED BY <1>3, <1>4, <1>5

\* The sets and counts of an alternative when a number of it is released.
LEMMA ReleasedOf ==
  ASSUME Control, Counters, NEW t \in Threads, NEW a, Releases(t, a)
  PROVE  /\ Alts' = Alts /\ nAlternatives' = nAlternatives /\ a \in Alts /\ cGames \in Nat
         /\ t \in Held(a) /\ Held(a)' = Held(a) \ {t} /\ Over(a)' = Over(a) \ {t}
         /\ (t \in Over(a) <=> trial[t] > cGames)
         /\ Cardinality(Held(a)') = Cardinality(Held(a)) - 1
         /\ trial[t] <= cGames => /\ Cardinality(Over(a)) <= Cardinality(Held(a)) - 1
                                 /\ Drawn(a)' = IF pc[t] = "giveback" THEN Drawn(a) - 1 ELSE Drawn(a)
         /\ trial[t] > cGames => pc[t] = "giveback" /\ Drawn(a)' = Drawn(a)
         /\ \A b \in Alts \ {a} : Held(b)' = Held(b) /\ Over(b)' = Over(b) /\ Drawn(b)' = Drawn(b)
<1>1. Alts' = Alts /\ nAlternatives' = nAlternatives /\ cGames \in Nat /\ trial[t] \in Nat
  BY CountsAssumption DEF Releases, Alts, nAlternatives, Counters, CounterTypes
<1>2. /\ UNCHANGED <<cGames, trial>> /\ alt[t] = a /\ pc[t] \in TrialPlaces
      /\ \A u \in Procs \ {t} : pc'[u] = pc[u] /\ alt'[u] = alt[u]
      /\ pc'[t] \in {"take", "looped", "end"} /\ pc'[t] \notin TrialPlaces
  BY DEF Releases, TrialPlaces
<1>3. /\ a \in Alts
      /\ \A b \in Alts \ {a} : Held(b)' = Held(b) /\ Over(b)' = Over(b)
      /\ t \in Held(a) /\ Held(a)' = Held(a) \ {t}
      /\ Over(a)' = Over(a) \ {t}
      /\ (t \in Over(a) <=> trial[t] > cGames)
  BY <1>2, Released DEF Counters
<1>4. /\ altTrialCount[a] \in Nat
      /\ Cardinality(Held(a)') = Cardinality(Held(a)) - 1 /\ Cardinality(Over(a)) \in Nat
      /\ Cardinality(Over(a)') = IF trial[t] > cGames THEN Cardinality(Over(a)) - 1
                                 ELSE Cardinality(Over(a))
      /\ trial[t] <= cGames => Cardinality(Over(a)) <= Cardinality(Held(a)) - 1
  BY <1>2, Fewer
<1>5. \A b \in Alts \ {a} : Drawn(b)' = Drawn(b)
  BY <1>3 DEF Releases, Drawn
<1>6. altTrialCount'[a] = IF pc[t] = "giveback" THEN altTrialCount[a] - 1 ELSE altTrialCount[a]
  BY DEF Releases
<1>7. trial[t] > cGames => pc[t] = "giveback"
  BY <1>1 DEF Releases
<1>8. trial[t] > cGames => Drawn(a)' = Drawn(a)
  BY <1>4, <1>6, <1>7 DEF Drawn
<1>9. trial[t] <= cGames => Drawn(a)' = IF pc[t] = "giveback" THEN Drawn(a) - 1 ELSE Drawn(a)
  BY <1>1, <1>4, <1>6 DEF Drawn
<1> QED BY <1>1, <1>3, <1>4, <1>5, <1>7, <1>8, <1>9

\* The start of the threads changes no holder, and no counter.
LEMMA StartHolders ==
  ASSUME Control, StartThreads
  PROVE  /\ UNCHANGED <<fCubeRollout, stopOn, cGames, rollouts, fInterrupt, ro_NextTrial, altTrialCount,
                        altGameCount, nGamesDone, counted, fNoMore, trial, alt>>
         /\ \A a : Held(a)' = {} /\ Held(a) = {} /\ Over(a)' = {} /\ Over(a) = {} /\ Drawn(a)' = Drawn(a)
         /\ Alts' = Alts /\ nAlternatives' = nAlternatives
         /\ pc[Main] = "start" /\ pc'[Main] \in {"wait", "idle"}
         /\ \A u \in Threads : pc[u] = "end"
         /\ \/ pc'[Main] = "idle" /\ \A u \in Threads : pc'[u] = "end"
            \/ pc'[Main] = "wait" /\ \A u \in Threads : pc'[u] = "next"
<1>1. UNCHANGED <<fCubeRollout, stopOn, cGames, rollouts, fInterrupt, ro_NextTrial, altTrialCount,
                  altGameCount, nGamesDone, counted, fNoMore, trial, alt>>
  BY DEF StartThreads, run, counts, locals
<1>2. /\ pc[Main] = "start" /\ \A u \in Threads : pc[u] = "end"
      /\ \/ pc'[Main] = "idle" /\ \A u \in Threads : pc'[u] = "end"
         \/ pc'[Main] = "wait" /\ \A u \in Threads : pc'[u] = "next"
  BY ThreadsAssumption DEF StartThreads, Control, ControlTypes, Roles, Procs
<1>3. \A a : Held(a)' = {} /\ Held(a) = {} /\ Over(a)' = {} /\ Over(a) = {}
  BY <1>2 DEF Held, Over, TrialPlaces
<1>4. \A a : Over(a)' = Over(a)
  BY <1>3
<1> QED BY <1>1, <1>2, <1>3, <1>4 DEF Drawn, Alts, nAlternatives

\* A command starts when no thread holds a number.
LEMMA CommandHolders ==
  ASSUME Control, NEW n \in TrialsAsked, NEW condition \in StopsOn, RolloutGeneral(n, condition)
  PROVE  /\ UNCHANGED <<fCubeRollout, nGamesDone, trial>>
         /\ cGames' = n /\ stopOn' = condition /\ fInterrupt' = FALSE /\ rollouts' = rollouts + 1
         /\ altTrialCount' = nGamesDone /\ altGameCount' = nGamesDone
         /\ fNoMore' = [a \in Alts |-> FALSE]
         /\ \A a : Held(a)' = {} /\ Held(a) = {} /\ Over(a)' = {} /\ Over(a) = {}
         /\ Alts' = Alts /\ nAlternatives' = nAlternatives
         /\ pc[Main] = "idle" /\ pc'[Main] \in {"start", "enter"}
         /\ \A u \in Threads : pc[u] = "end" /\ pc'[u] = "end"
<1>1. /\ UNCHANGED <<fCubeRollout, nGamesDone, trial>>
      /\ cGames' = n /\ stopOn' = condition /\ fInterrupt' = FALSE /\ rollouts' = rollouts + 1
      /\ altTrialCount' = nGamesDone /\ altGameCount' = nGamesDone
      /\ fNoMore' = [a \in Alts |-> FALSE]
  BY DEF RolloutGeneral
<1>2. /\ pc[Main] = "idle" /\ pc'[Main] \in {"start", "enter"}
      /\ \A u \in Procs \ {Main} : pc'[u] = pc[u]
  BY Moves DEF RolloutGeneral, Control, Procs
<1>3. \A u \in Threads : pc[u] = "end" /\ pc'[u] = "end"
  BY <1>2, ThreadsAssumption DEF Control, Roles, Procs
<1>4. \A a : Held(a)' = {} /\ Held(a) = {} /\ Over(a)' = {} /\ Over(a) = {}
  BY <1>3 DEF Held, Over, TrialPlaces
<1> QED BY <1>1, <1>2, <1>3, <1>4 DEF Alts, nAlternatives

-----------------------------------------------------------------------------
(* Trials of all alternatives. *)

\* Numbers beyond the trials asked for are drawn only to be given back; the sides
\* of a cube decision have the same games done; and the counters start there.
Plain ==
    /\ \A a \in Alts : Held(a) # Over(a) => Drawn(a) <= cGames + 1
    /\ fCubeRollout => nGamesDone[1] = nGamesDone[2]
    /\ pc[Main] \notin {"idle", "wait"} => altTrialCount = nGamesDone /\ altGameCount = nGamesDone

\* The sides of a cube decision share the context that counts the games done.
LEMMA SharedContext ==
  ASSUME Control, Counters, Plain, NEW t \in Threads, AddResult(t), fCubeRollout
  PROVE  nGamesDone'[1] = nGamesDone'[2]
<1>1. 1 \in Alts /\ 2 \in Alts
  BY Alternatives DEF Control, ControlTypes
<1>2. \A a : Context(a) = 1
  BY DEF Context
<1>3. \A a \in Alts : nGamesDone'[a] = Max({nGamesDone[a], altGameCount'[alt[t]]})
  BY <1>2 DEF AddResult
<1> QED BY <1>1, <1>3 DEF Plain

\* Every step keeps this.
LEMMA PlainIsKept ==
  ASSUME Control, Counters, Plain, [Next]_vars
  PROVE  Plain'
<1>1. CASE \E n \in TrialsAsked, condition \in StopsOn : RolloutGeneral(n, condition)
  BY <1>1, CommandHolders DEF Plain
<1>2. ASSUME NEW t \in Threads, TakeTrial(t) PROVE Plain'
  <2> PICK a : alt[t] = a
    OBVIOUS
  <2>1. /\ UNCHANGED <<fCubeRollout, cGames, nGamesDone>> /\ Alts' = Alts /\ a \in Alts
        /\ pc[t] = "take" /\ \A u \in Procs \ {t} : pc'[u] = pc[u]
        /\ altTrialCount[a] \in Nat /\ altTrialCount'[a] = altTrialCount[a] + 1 /\ cGames \in Nat
        /\ \A b \in Alts \ {a} : Held(b)' = Held(b) /\ Over(b)' = Over(b) /\ Drawn(b)' = Drawn(b)
        /\ t \notin Held(a) /\ Held(a)' = Held(a) \cup {t}
        /\ altTrialCount[a] > cGames => Over(a)' = Over(a) \cup {t} /\ Drawn(a)' = Drawn(a)
    BY <1>2, TakenOf
  <2>2. pc'[Main] = "wait"
    BY <2>1, Waiting, ThreadsAssumption DEF Procs
  <2>3. ASSUME Held(a)' # Over(a)' PROVE Drawn(a)' <= cGames + 1
    <3>1. CASE altTrialCount[a] > cGames
      <4>1. Held(a) # Over(a)
        BY <2>1, <2>3, <3>1
      <4> QED BY <2>1, <3>1, <4>1 DEF Plain
    <3>2. CASE altTrialCount[a] <= cGames
      <4>1. Over(a)' = Over(a) /\ IsFiniteSet(Over(a)) /\ Cardinality(Over(a)) \in Nat
        BY <1>2, <3>2, TakenOf, Sizes
      <4>2. Drawn(a)' = altTrialCount[a] + 1 - Cardinality(Over(a))
        BY <2>1, <4>1 DEF Drawn
      <4> QED BY <2>1, <3>2, <4>1, <4>2
    <3> QED BY <2>1, <3>1, <3>2
  <2>4. ASSUME NEW b \in Alts, Held(b)' # Over(b)' PROVE Drawn(b)' <= cGames' + 1
    BY <2>1, <2>3, <2>4 DEF Plain
  <2>5. fCubeRollout' => nGamesDone'[1] = nGamesDone'[2]
    BY <2>1 DEF Plain
  <2> QED BY <2>1, <2>2, <2>4, <2>5 DEF Plain
<1>3. ASSUME NEW t \in Threads, GiveBack(t) \/ AddResult(t) \/ (PlayTrial(t) /\ fInterrupt)
      PROVE  Plain'
  <2> PICK a : alt[t] = a
    OBVIOUS
  <2>1. Releases(t, a)
    BY <1>3, ReleaseSteps
  <2>2. /\ Alts' = Alts /\ a \in Alts /\ cGames \in Nat
        /\ t \in Held(a) /\ Held(a)' = Held(a) \ {t} /\ Over(a)' = Over(a) \ {t}
        /\ trial[t] <= cGames => Drawn(a)' = IF pc[t] = "giveback" THEN Drawn(a) - 1 ELSE Drawn(a)
        /\ trial[t] > cGames => Drawn(a)' = Drawn(a)
        /\ \A b \in Alts \ {a} : Held(b)' = Held(b) /\ Over(b)' = Over(b) /\ Drawn(b)' = Drawn(b)
    BY <2>1, ReleasedOf
  <2>3. /\ trial[t] \in Nat /\ altTrialCount[a] \in Nat /\ Cardinality(Over(a)) \in Nat
        /\ Drawn(a) \in Int
    BY <2>1, <2>2, Sizes DEF Counters, CounterTypes, Releases, Drawn
  <2>4. Drawn(a)' <= Drawn(a)
    BY <2>2, <2>3
  <2>5. Held(a)' # Over(a)' => Drawn(a)' <= cGames + 1
    <3>1. Drawn(a)' \in Int
      BY <2>2, <2>3
    <3>2. Held(a)' # Over(a)' => Held(a) # Over(a)
      BY <2>2
    <3> QED BY <2>2, <2>3, <2>4, <3>1, <3>2 DEF Plain
  <2>6. fCubeRollout' = fCubeRollout /\ cGames' = cGames /\ pc[t] # "end"
        /\ \A u \in Procs \ {t} : pc'[u] = pc[u]
    BY <2>1 DEF Releases
  <2>7. pc'[Main] = "wait"
    BY <2>6, Waiting, ThreadsAssumption DEF Procs
  <2>8. fCubeRollout => nGamesDone'[1] = nGamesDone'[2]
    <3>1. CASE AddResult(t)
      BY <3>1, SharedContext
    <3>2. CASE GiveBack(t) \/ PlayTrial(t)
      BY <3>2 DEF GiveBack, PlayTrial, counts, Plain
    <3> QED BY <1>3, <3>1, <3>2
  <2> QED BY <2>2, <2>5, <2>6, <2>7, <2>8 DEF Plain
<1>4. CASE StartThreads
  BY <1>4, StartHolders DEF Plain
<1>5. CASE Quiet
  <2>1. UNCHANGED <<fCubeRollout, cGames, altTrialCount, altGameCount, nGamesDone>>
    BY <1>5 DEF Quiet
  <2>2. pc'[Main] \notin {"idle", "wait"} => pc[Main] \notin {"idle", "wait"}
    BY <1>5 DEF Quiet
  <2> QED BY <1>5, <2>1, <2>2, QuietHolders DEF Plain
<1> QED BY <1>1, <1>2, <1>3, <1>4, <1>5, StepKinds

-----------------------------------------------------------------------------
(* What stops, and when. *)

\* A cube decision whose sides stop together when they differ enough.
CubeJsd == fCubeRollout /\ stopOn = "jsd"

\* Alternatives stop or resume in checks: after their minimum, but for the second
\* side of a cube decision, and never to resume when that is the criterion.
LEMMA StopSteps ==
  ASSUME Control, Counters, [Next]_vars,
         ~ \E n \in TrialsAsked, condition \in StopsOn : RolloutGeneral(n, condition)
  PROVE  \/ UNCHANGED fNoMore
         \/ ~CubeJsd /\ \E a \in Alts : fNoMore' = [fNoMore EXCEPT ![a] = FALSE]
         \/ /\ \E a \in Alts : /\ altGameCount[a] >= MinGames
                              /\ fNoMore' = [fNoMore EXCEPT ![a] = TRUE]
            /\ ~(CubeJsd /\ fNoMore'[2] # fNoMore[2])
         \/ \E t \in Procs : JsdCubeStops(t)
<1>1. ControlTypes
  BY DEF Control
<1>2. ASSUME NEW t \in Procs, EnterCheck(t) \/ JsdMovesDone(t) \/ StdDone(t) \/ CheckNothing(t) \/ Decide(t)
      PROVE  UNCHANGED fNoMore
  BY <1>2 DEF EnterCheck, JsdMovesDone, StdDone, CheckNothing, Decide
<1>3. ASSUME NEW t \in Procs, JsdMove(t)
      PROVE  /\ ~CubeJsd
             /\ \/ UNCHANGED fNoMore
                \/ \E a \in Alts : fNoMore' = [fNoMore EXCEPT ![a] = FALSE]
                \/ \E a \in Alts : /\ altGameCount[a] >= MinGames
                                  /\ fNoMore' = [fNoMore EXCEPT ![a] = TRUE]
  <2>1. pc[t] = "jsd" /\ i[t] > 1 /\ i[t] \in 1..(nAlternatives + 1) /\ rank[t] \in [Alts -> Alts]
    BY <1>1, <1>3 DEF JsdMove, ControlTypes, Rankings
  <2>2. ~CubeJsd
    BY <2>1 DEF Control, Checks, CriterionOf, CubeJsd
  <2>3. i[t] \in Alts
    <3>1. active[t] \in Nat /\ active[t] >= i[t] /\ active[t] <= 2 * nAlternatives - i[t]
      BY <1>1, <2>1 DEF Control, Checks, ActiveOf, ControlTypes
    <3>2. nAlternatives \in Nat
      BY <1>1, Alternatives DEF ControlTypes
    <3> QED BY <2>1, <3>1, <3>2 DEF Alts
  <2>4. rank[t][i[t]] \in Alts
    BY <2>1, <2>3
  <2> QED BY <1>3, <2>2, <2>4 DEF JsdMove
<1>4. ASSUME NEW t \in Procs, JsdCube(t)
      PROVE  /\ ~(fNoMore'[2] # fNoMore[2])
             /\ \/ UNCHANGED fNoMore
                \/ \E a \in Alts : /\ altGameCount[a] >= MinGames
                                  /\ fNoMore' = [fNoMore EXCEPT ![a] = TRUE]
  <2>1. pc[t] = "jsdcube"
    BY <1>4 DEF JsdCube, Go
  <2>2. 1 \in Alts /\ 2 \in Alts /\ fNoMore \in [Alts -> BOOLEAN]
    BY <1>1, <2>1, Alternatives DEF Control, Checks, CriterionOf, ControlTypes
  <2> QED BY <1>4, <2>2 DEF JsdCube
<1>5. ASSUME NEW t \in Procs, StdAlternative(t)
      PROVE  /\ ~CubeJsd
             /\ \/ UNCHANGED fNoMore
                \/ \E a \in Alts : /\ altGameCount[a] >= MinGames
                                  /\ fNoMore' = [fNoMore EXCEPT ![a] = TRUE]
  <2>1. pc[t] = "std" /\ i[t] <= nAlternatives /\ i[t] \in 1..(nAlternatives + 1)
    BY <1>1, <1>5 DEF StdAlternative, ControlTypes
  <2>2. ~CubeJsd
    BY <2>1 DEF Control, Checks, CriterionOf, CubeJsd
  <2>3. i[t] \in Alts
    BY <1>1, <2>1, Alternatives DEF ControlTypes
  <2> QED BY <1>5, <2>2, <2>3 DEF StdAlternative
<1>6. ASSUME NEW t \in Procs, StdCubeResumes(t, "std2", "std3", 2) \/ StdCubeResumes(t, "std3", "decide", 1)
      PROVE  ~CubeJsd /\ \E a \in Alts : fNoMore' = [fNoMore EXCEPT ![a] = FALSE]
  <2>1. pc[t] \in {"std2", "std3"}
    BY <1>6 DEF StdCubeResumes, Go
  <2>2. ~CubeJsd /\ fCubeRollout
    BY <2>1 DEF Control, Checks, CriterionOf, CubeJsd
  <2>3. 1 \in Alts /\ 2 \in Alts
    BY <1>1, <2>2, Alternatives DEF ControlTypes
  <2> QED BY <1>6, <2>2, <2>3 DEF StdCubeResumes
<1>7. ASSUME NEW t \in Procs, Check(t)
      PROVE  \/ UNCHANGED fNoMore
             \/ ~CubeJsd /\ \E a \in Alts : fNoMore' = [fNoMore EXCEPT ![a] = FALSE]
             \/ /\ \E a \in Alts : /\ altGameCount[a] >= MinGames
                                  /\ fNoMore' = [fNoMore EXCEPT ![a] = TRUE]
                /\ ~(CubeJsd /\ fNoMore'[2] # fNoMore[2])
             \/ JsdCubeStops(t)
  BY <1>2, <1>3, <1>4, <1>5, <1>6, <1>7 DEF Check
<1>8. ASSUME NEW t \in Threads,
             \/ NextTrial(t) \/ TakeTrial(t) \/ TestAlternative(t) \/ GiveBack(t)
             \/ PlayTrial(t) \/ AddResult(t) \/ Looped(t)
      PROVE  UNCHANGED fNoMore
  BY <1>8 DEF NextTrial, TakeTrial, TestAlternative, GiveBack, PlayTrial, AddResult, Looped
<1>9. ASSUME StartThreads \/ Finish \/ Interrupt \/ Ended \/ UNCHANGED vars
      PROVE  UNCHANGED fNoMore
  BY <1>9 DEF StartThreads, Finish, Interrupt, Ended, vars
<1> QED BY <1>7, <1>8, <1>9 DEF Next, MainStep, ThreadStep, Procs

\* Threads that have yet to play a trial of the second side after the first, and
\* those of them that were interrupted.
Behind == {t \in Threads : alt[t] = 2 /\ pc[t] \in TrialPlaces \cup {"take", "end"}}
Gone == {t \in Threads : alt[t] = 2 /\ pc[t] = "end"}

\* The second side of a cube decision falls back behind the first by the threads
\* that are between them, and by no more.
Second ==
    CubeJsd =>
    /\ \A t \in Threads : pc[t] = "giveback" /\ alt[t] = 2 /\ trial[t] <= cGames => fNoMore[2]
    /\ ~fNoMore[2] /\ Over(2) # {} => Drawn(2) >= cGames + 1
    /\ altGameCount[1] <= cGames + 1 \/ altGameCount[1] <= altGameCount[2]
    /\ altTrialCount[2] <= altGameCount[2] + Cardinality(Held(2)) + Cardinality(Gone)
    /\ ~fNoMore[2] => altGameCount[1] <= altGameCount[2] + Cardinality(Behind)

\* The sizes of these sets.
LEMMA BehindSizes ==
  /\ IsFiniteSet(Behind) /\ Cardinality(Behind) \in Nat
  /\ IsFiniteSet(Gone) /\ Cardinality(Gone) \in Nat
  /\ IsFiniteSet(Behind') /\ Cardinality(Behind') \in Nat
  /\ IsFiniteSet(Gone') /\ Cardinality(Gone') \in Nat
<1>1. /\ Behind \in SUBSET Threads /\ Gone \in SUBSET Threads
      /\ Behind' \in SUBSET Threads /\ Gone' \in SUBSET Threads
  BY DEF Behind, Gone
<1>2. /\ IsFiniteSet(Behind) /\ IsFiniteSet(Gone) /\ IsFiniteSet(Behind') /\ IsFiniteSet(Gone')
  BY <1>1, ThreadsAssumption, FS_Subset
<1> QED BY <1>2, FS_CardinalityType

\* The second side is never resumed when the sides stop by their difference.
LEMMA SecondStays ==
  ASSUME Control, Counters, [Next]_vars, CubeJsd, fNoMore[2],
         ~ \E n \in TrialsAsked, condition \in StopsOn : RolloutGeneral(n, condition)
  PROVE  fNoMore'[2]
<1>1. 2 \in Alts /\ fNoMore \in [Alts -> BOOLEAN]
  BY Alternatives DEF Control, ControlTypes, CubeJsd
<1>2. CASE UNCHANGED fNoMore
  BY <1>2
<1>3. CASE \E a \in Alts : fNoMore' = [fNoMore EXCEPT ![a] = TRUE]
  BY <1>1, <1>3
<1>4. CASE \E t \in Procs : JsdCubeStops(t)
  BY <1>1, <1>4 DEF JsdCubeStops
<1> QED BY <1>2, <1>3, <1>4, StopSteps

\* The size of two sets that have nothing in common.
LEMMA Disjoint ==
  ASSUME NEW S, NEW T, IsFiniteSet(S), IsFiniteSet(T), S \cap T = {}
  PROVE  Cardinality(S \cup T) = Cardinality(S) + Cardinality(T)
<1>1. Cardinality(S \cup T) = Cardinality(S) + Cardinality(T) - Cardinality(S \cap T)
  BY FS_Union
<1>2. Cardinality(S \cap T) = 0 /\ Cardinality(S) \in Nat /\ Cardinality(T) \in Nat
  BY FS_EmptySet, FS_CardinalityType
<1> QED BY <1>1, <1>2

\* With equal counters and no number held, nothing is behind.
LEMMA SecondStarts ==
  ASSUME CubeJsd' => /\ altTrialCount' = nGamesDone' /\ altGameCount' = nGamesDone'
                     /\ nGamesDone'[1] = nGamesDone'[2] /\ nGamesDone'[2] \in Nat,
         \A a : Held(a)' = {} /\ Over(a)' = {},
         \A t \in Threads : pc'[t] # "giveback"
  PROVE  Second'
<1>1. Cardinality(Held(2)') = 0
  BY FS_EmptySet
<1> QED BY <1>1, BehindSizes DEF Second

\* A step of which no thread comes nearer keeps it.
LEMMA SecondQuiet ==
  ASSUME Control, Counters, Second, [Next]_vars, Quiet,
         ~ \E n \in TrialsAsked, condition \in StopsOn : RolloutGeneral(n, condition)
  PROVE  Second'
<1>1. SUFFICES ASSUME CubeJsd' PROVE Second'
  BY DEF Second
<1>2. /\ UNCHANGED <<fCubeRollout, stopOn, cGames, altTrialCount, altGameCount, trial>> /\ CubeJsd
      /\ Held(2)' = Held(2) /\ Over(2)' = Over(2) /\ Drawn(2)' = Drawn(2)
  BY <1>1, QuietHolders DEF Quiet, CubeJsd
<1>3. /\ altGameCount[1] \in Nat /\ altGameCount[2] \in Nat /\ altTrialCount[2] \in Nat
      /\ cGames \in Nat /\ Cardinality(Held(2)) \in Nat
  BY <1>2, Alternatives, CountsAssumption, Sizes DEF Control, ControlTypes, Counters, CounterTypes, CubeJsd
<1>4. Behind \in SUBSET Behind' /\ Gone \in SUBSET Gone'
  BY DEF Quiet, QuietMove, Behind, Gone, TrialPlaces, CheckPlaces
<1>5. Cardinality(Behind) <= Cardinality(Behind') /\ Cardinality(Gone) <= Cardinality(Gone')
  BY <1>4, BehindSizes, FS_Subset
<1>6. fNoMore[2] => fNoMore'[2]
  BY <1>2, SecondStays
<1>7. ASSUME NEW t \in Threads, pc'[t] = "giveback", alt'[t] = 2, trial[t] <= cGames
      PROVE  fNoMore'[2]
  <2>1. QuietMove(t) /\ trial[t] \in Nat
    BY DEF Quiet, Counters, CounterTypes, Procs
  <2>2. \/ pc[t] = "giveback" /\ alt[t] = 2
        \/ pc[t] = "test" /\ Skipped(t) /\ alt[t] = 2
    BY <1>7, <2>1 DEF QuietMove, CheckPlaces
  <2>3. fNoMore[2]
    BY <1>2, <1>3, <1>7, <2>1, <2>2 DEF Skipped, Second
  <2> QED BY <1>6, <2>3
<1>8. altTrialCount'[2] <= altGameCount'[2] + Cardinality(Held(2)') + Cardinality(Gone')
  BY <1>2, <1>3, <1>5, BehindSizes DEF Second
<1>9. ~fNoMore'[2] => altGameCount'[1] <= altGameCount'[2] + Cardinality(Behind')
  BY <1>2, <1>3, <1>5, <1>6, BehindSizes DEF Second
<1>10. ~fNoMore'[2] /\ Over(2)' # {} => Drawn(2)' >= cGames' + 1
  BY <1>2, <1>6 DEF Second
<1> QED BY <1>2, <1>7, <1>8, <1>9, <1>10 DEF Second

\* A thread that takes a number stays as far behind as it was.
LEMMA SecondTakes ==
  ASSUME Control, Counters, Second, NEW t \in Threads, TakeTrial(t)
  PROVE  Second'
<1> PICK a : alt[t] = a
  OBVIOUS
<1>1. SUFFICES ASSUME CubeJsd' PROVE Second'
  BY DEF Second
<1>2. /\ UNCHANGED <<fCubeRollout, stopOn, cGames, altGameCount, fNoMore, alt>>
      /\ a \in Alts /\ cGames \in Nat
      /\ pc[t] = "take" /\ pc'[t] = "test" /\ \A u \in Procs \ {t} : pc'[u] = pc[u]
      /\ \A u \in Procs \ {t} : trial'[u] = trial[u]
      /\ altTrialCount[a] \in Nat /\ altTrialCount'[a] = altTrialCount[a] + 1
      /\ \A b \in Alts \ {a} : /\ altTrialCount'[b] = altTrialCount[b]
                               /\ Held(b)' = Held(b) /\ Over(b)' = Over(b) /\ Drawn(b)' = Drawn(b)
      /\ Cardinality(Held(a)') = Cardinality(Held(a)) + 1
      /\ altTrialCount[a] > cGames => Over(a)' = Over(a) \cup {t} /\ Drawn(a)' = Drawn(a)
      /\ altTrialCount[a] <= cGames => Over(a)' = Over(a) /\ Drawn(a)' = Drawn(a) + 1
  BY TakenOf
<1>3. /\ CubeJsd /\ 1 \in Alts /\ 2 \in Alts /\ altGameCount[2] \in Nat /\ altTrialCount[2] \in Nat
      /\ Cardinality(Held(2)) \in Nat /\ Threads \subseteq Procs
      /\ IsFiniteSet(Over(2)) /\ Cardinality(Over(2)) \in Nat
  <2>1. CubeJsd /\ nAlternatives = 2 /\ Alts = 1..2
    BY <1>1, <1>2, Alternatives DEF Control, ControlTypes, CubeJsd
  <2>2. \A b \in Alts : altGameCount[b] \in Nat /\ altTrialCount[b] \in Nat
    BY DEF Counters, CounterTypes
  <2>3. 1 \in Alts /\ 2 \in Alts
    BY <2>1
  <2> QED BY <2>1, <2>2, <2>3, Sizes DEF Procs
<1>4. Behind' = Behind /\ Gone' = Gone
  BY <1>2, <1>3 DEF Behind, Gone, TrialPlaces
<1>5. \A u \in Threads : pc'[u] = "giveback" /\ alt'[u] = 2 /\ trial'[u] <= cGames => fNoMore[2]
  BY <1>2, <1>3 DEF Second
<1>6. altTrialCount'[2] <= altGameCount'[2] + Cardinality(Held(2)') + Cardinality(Gone')
  BY <1>2, <1>3, <1>4, BehindSizes DEF Second
<1>7. ~fNoMore[2] /\ Over(2)' # {} => Drawn(2)' >= cGames + 1
  <2>1. CASE a = 2 /\ altTrialCount[2] > cGames
    <3>1. SUFFICES ASSUME ~fNoMore[2] PROVE Drawn(2) >= cGames + 1
      BY <1>2, <2>1
    <3>2. CASE Over(2) = {}
      <4>1. Drawn(2) = altTrialCount[2] - 0
        BY <3>2, FS_EmptySet DEF Drawn
      <4> QED BY <1>2, <1>3, <2>1, <4>1
    <3>3. CASE Over(2) # {}
      BY <1>3, <3>1, <3>3 DEF Second
    <3> QED BY <3>2, <3>3
  <2>2. CASE a = 2 /\ altTrialCount[2] <= cGames
    <3>1. Over(2)' = Over(2) /\ Drawn(2)' = Drawn(2) + 1 /\ Drawn(2) \in Int
      BY <1>2, <1>3, <2>2 DEF Drawn
    <3> QED BY <1>2, <1>3, <3>1 DEF Second
  <2>3. CASE a # 2
    BY <1>2, <1>3, <2>3 DEF Second
  <2> QED BY <1>2, <1>3, <2>1, <2>2, <2>3
<1>8. /\ altGameCount'[1] <= cGames' + 1 \/ altGameCount'[1] <= altGameCount'[2]
      /\ ~fNoMore'[2] => altGameCount'[1] <= altGameCount'[2] + Cardinality(Behind')
  BY <1>2, <1>3, <1>4 DEF Second
<1> QED BY <1>2, <1>5, <1>6, <1>7, <1>8 DEF Second

\* A thread that is done with the first side is behind; one that is done with the
\* second has played its trial, or no trial was left.
LEMMA SecondReleases ==
  ASSUME Control, Counters, Plain, Second, NEW t \in Threads, NEW a, Releases(t, a)
  PROVE  Second'
<1>1. SUFFICES ASSUME CubeJsd' PROVE Second'
  BY DEF Second
<1>2. /\ UNCHANGED <<fCubeRollout, stopOn, cGames, fNoMore, trial>> /\ alt[t] = a /\ trial[t] \in Nat
      /\ \A u \in Procs \ {t} : pc'[u] = pc[u] /\ alt'[u] = alt[u]
  BY DEF Releases
<1>3. /\ CubeJsd /\ Alts = {1, 2} /\ nAlternatives = 2
      /\ \A b \in Alts : /\ altGameCount[b] \in Nat /\ altTrialCount[b] \in Nat
                        /\ IsFiniteSet(Held(b)) /\ IsFiniteSet(Over(b))
                        /\ Cardinality(Held(b)) \in Nat /\ Cardinality(Over(b)) \in Nat
                        /\ Drawn(b) \in Int
      /\ Threads \subseteq Procs
  <2>1. CubeJsd /\ nAlternatives = 2 /\ Alts = 1..2
    BY <1>1, <1>2, Alternatives DEF Control, ControlTypes, CubeJsd
  <2>2. \A b \in Alts : altGameCount[b] \in Nat /\ altTrialCount[b] \in Nat
    BY DEF Counters, CounterTypes
  <2> QED BY <2>1, <2>2, Sizes DEF Drawn, Procs
<1>4. /\ a \in Alts /\ cGames \in Nat
      /\ t \in Held(a) /\ Held(a)' = Held(a) \ {t} /\ Over(a)' = Over(a) \ {t}
      /\ (t \in Over(a) <=> trial[t] > cGames)
      /\ Cardinality(Held(a)') = Cardinality(Held(a)) - 1
      /\ trial[t] <= cGames => /\ Cardinality(Over(a)) <= Cardinality(Held(a)) - 1
                              /\ Drawn(a)' = IF pc[t] = "giveback" THEN Drawn(a) - 1 ELSE Drawn(a)
      /\ trial[t] > cGames => pc[t] = "giveback" /\ Drawn(a)' = Drawn(a)
      /\ \A b \in Alts \ {a} : Held(b)' = Held(b) /\ Over(b)' = Over(b) /\ Drawn(b)' = Drawn(b)
  BY ReleasedOf
<1>5. /\ pc[t] \in {"giveback", "apply", "roll"} /\ pc'[t] \in {"take", "looped", "end"}
      /\ a = 1 /\ pc[t] # "roll" => pc'[t] = "take" /\ alt'[t] = 2
      /\ a = 2 /\ pc[t] # "roll" => pc'[t] = "looped"
      /\ pc[t] = "roll" => pc'[t] = "end" /\ alt'[t] = a /\ trial[t] <= cGames
      /\ pc[t] = "apply" => trial[t] <= cGames
  BY <1>3 DEF Releases
<1>6. /\ altTrialCount'[a] = IF pc[t] = "giveback" THEN altTrialCount[a] - 1 ELSE altTrialCount[a]
      /\ altGameCount'[a] = IF pc[t] = "apply" THEN altGameCount[a] + 1 ELSE altGameCount[a]
      /\ \A b \in Alts \ {a} : altTrialCount'[b] = altTrialCount[b] /\ altGameCount'[b] = altGameCount[b]
  BY DEF Releases
<1>7. \A u \in Threads : pc'[u] = "giveback" /\ alt'[u] = 2 /\ trial'[u] <= cGames => fNoMore[2]
  BY <1>2, <1>3, <1>5 DEF Second
<1>8. trial[t] <= cGames /\ pc[t] = "giveback" /\ a = 2 => fNoMore[2]
  BY <1>2, <1>3 DEF Second
<1>9. ~fNoMore[2] /\ Over(2)' # {} => Drawn(2)' >= cGames + 1
  <2>1. ~fNoMore[2] => Drawn(2)' = Drawn(2)
    BY <1>2, <1>3, <1>4, <1>8
  <2>2. Over(2)' # {} => Over(2) # {}
    BY <1>3, <1>4
  <2> QED BY <1>3, <2>1, <2>2 DEF Second
<1>10. a = 2 /\ pc[t] = "roll" => Gone' = Gone \cup {t} /\ t \notin Gone
  BY <1>2, <1>3, <1>5 DEF Gone
<1>11. ~(a = 2 /\ pc[t] = "roll") => Gone' = Gone
  BY <1>2, <1>3, <1>4, <1>5 DEF Gone
<1>12. altTrialCount'[2] <= altGameCount'[2] + Cardinality(Held(2)') + Cardinality(Gone')
  <2>1. Cardinality(Gone') = IF a = 2 /\ pc[t] = "roll" THEN Cardinality(Gone) + 1 ELSE Cardinality(Gone)
    BY <1>10, <1>11, BehindSizes, FS_AddElement
  <2>2. altTrialCount[2] <= altGameCount[2] + Cardinality(Held(2)) + Cardinality(Gone)
    BY <1>3 DEF Second
  <2>3. CASE a = 2
    <3>1. /\ Cardinality(Held(2)') = Cardinality(Held(2)) - 1 /\ pc[t] \in {"giveback", "apply", "roll"}
          /\ altTrialCount'[2] = IF pc[t] = "giveback" THEN altTrialCount[2] - 1 ELSE altTrialCount[2]
          /\ altGameCount'[2] = IF pc[t] = "apply" THEN altGameCount[2] + 1 ELSE altGameCount[2]
          /\ Cardinality(Gone') = IF pc[t] = "roll" THEN Cardinality(Gone) + 1 ELSE Cardinality(Gone)
      BY <1>4, <1>5, <1>6, <2>1, <2>3
    <3>2. /\ altTrialCount[2] \in Nat /\ altGameCount[2] \in Nat /\ Cardinality(Held(2)) \in Nat
          /\ Cardinality(Gone) \in Nat
      BY <1>3, BehindSizes
    <3> QED BY <2>2, <3>1, <3>2
  <2>4. CASE a # 2
    BY <1>3, <1>4, <1>6, <2>1, <2>2, <2>4
  <2> QED BY <2>3, <2>4
<1>13. altGameCount'[1] <= cGames + 1 \/ altGameCount'[1] <= altGameCount'[2]
  <2>1. CASE a = 1 /\ pc[t] = "apply"
    <3>1. Cardinality(Over(1)) <= Cardinality(Held(1)) - 1 /\ Held(1) # Over(1)
      BY <1>2, <1>4, <1>5, <2>1
    <3>2. altTrialCount[1] - Cardinality(Over(1)) <= cGames + 1
      BY <1>3, <3>1 DEF Plain, Drawn
    <3>3. altTrialCount[1] >= altGameCount[1] + Cardinality(Held(1))
      BY <1>3 DEF Counters, AccountOf
    <3> QED BY <1>3, <1>4, <1>6, <2>1, <3>1, <3>2, <3>3
  <2>2. CASE a = 2 \/ pc[t] # "apply"
    BY <1>3, <1>4, <1>6, <2>2 DEF Second
  <2> QED BY <1>3, <1>4, <2>1, <2>2
<1>14. ~fNoMore[2] => altGameCount'[1] <= altGameCount'[2] + Cardinality(Behind')
  <2>1. SUFFICES ASSUME ~fNoMore[2] PROVE altGameCount'[1] <= altGameCount'[2] + Cardinality(Behind')
    OBVIOUS
  <2>2. altGameCount[1] <= altGameCount[2] + Cardinality(Behind)
    BY <1>3, <2>1 DEF Second
  <2>3. CASE a = 1 /\ pc[t] # "roll"
    <3>1. Behind' = Behind \cup {t} /\ t \notin Behind
      BY <1>2, <1>3, <1>5, <2>3 DEF Behind
    <3>2. Cardinality(Behind') = Cardinality(Behind) + 1
      BY <3>1, BehindSizes, FS_AddElement
    <3> QED BY <1>3, <1>4, <1>6, <2>2, <2>3, <3>2, BehindSizes
  <2>4. CASE pc[t] = "roll"
    <3>1. Behind' = Behind
      BY <1>2, <1>3, <1>5, <2>4 DEF Behind, TrialPlaces
    <3> QED BY <1>3, <1>4, <1>6, <2>2, <2>4, <3>1
  <2>5. CASE a = 2 /\ pc[t] = "apply"
    <3>1. Behind' = Behind \ {t}
      BY <1>2, <1>3, <1>5, <2>5 DEF Behind, TrialPlaces
    <3>2. Cardinality(Behind') >= Cardinality(Behind) - 1
      BY <3>1, BehindSizes, FS_RemoveElement
    <3> QED BY <1>3, <1>4, <1>6, <2>2, <2>5, <3>2, BehindSizes
  <2>6. CASE a = 2 /\ pc[t] = "giveback"
    <3>1. trial[t] > cGames /\ t \in Over(2) /\ Drawn(2) >= cGames + 1
      BY <1>2, <1>3, <1>4, <1>8, <2>1, <2>6 DEF Second
    <3>2. (Held(2) \ Over(2)) \cup Gone \in SUBSET Behind'
      <4>1. ASSUME NEW u \in Held(2), u \notin Over(2) PROVE u \in Behind'
        <5>1. u \in Threads /\ alt[u] = 2 /\ pc[u] \in TrialPlaces /\ u # t
          BY <3>1, <4>1 DEF Held
        <5>2. alt'[u] = 2 /\ pc'[u] = pc[u]
          BY <1>2, <1>3, <5>1
        <5> QED BY <5>1, <5>2 DEF Behind
      <4>2. ASSUME NEW u \in Gone PROVE u \in Behind'
        <5>1. u \in Threads /\ alt[u] = 2 /\ pc[u] = "end" /\ u # t
          BY <2>6 DEF Gone
        <5>2. alt'[u] = 2 /\ pc'[u] = "end"
          BY <1>2, <1>3, <5>1
        <5> QED BY <5>1, <5>2 DEF Behind
      <4> QED BY <4>1, <4>2
    <3>3. /\ IsFiniteSet(Held(2) \ Over(2)) /\ Cardinality(Held(2) \ Over(2)) = Cardinality(Held(2)) - Cardinality(Over(2))
      <4>1. Held(2) \cap Over(2) = Over(2)
        BY DEF Over
      <4> QED BY <1>3, <4>1, FS_Difference, ZenonT(60)
    <3>4. Cardinality((Held(2) \ Over(2)) \cup Gone) = Cardinality(Held(2)) - Cardinality(Over(2)) + Cardinality(Gone)
      <4>1. (Held(2) \ Over(2)) \cap Gone = {}
        BY DEF Held, Gone, TrialPlaces
      <4>2. Cardinality((Held(2) \ Over(2)) \cup Gone)
              = Cardinality(Held(2) \ Over(2)) + Cardinality(Gone)
        BY <3>3, <4>1, BehindSizes, Disjoint
      <4> QED BY <3>3, <4>2
    <3>5. Cardinality(Held(2)) - Cardinality(Over(2)) + Cardinality(Gone) <= Cardinality(Behind')
      BY <3>2, <3>4, BehindSizes, FS_Subset
    <3>6. altTrialCount[2] <= altGameCount[2] + Cardinality(Held(2)) + Cardinality(Gone)
      BY <1>3 DEF Second
    <3>7. cGames + 1 <= altGameCount[2] + Cardinality(Behind')
      BY <1>3, <1>4, <3>1, <3>5, <3>6, BehindSizes DEF Drawn
    <3>8. altGameCount'[1] = altGameCount[1] /\ altGameCount'[2] = altGameCount[2]
      BY <1>3, <1>6, <2>6
    <3>9. altGameCount[1] <= cGames + 1 \/ altGameCount[1] <= altGameCount[2]
      BY <1>3 DEF Second
    <3> QED BY <1>3, <1>4, <3>7, <3>8, <3>9, BehindSizes
  <2> QED BY <1>3, <1>4, <1>5, <2>3, <2>4, <2>5, <2>6
<1> QED BY <1>2, <1>7, <1>9, <1>12, <1>13, <1>14 DEF Second

\* Every step keeps it.
LEMMA SecondIsKept ==
  ASSUME Control, Counters, Plain, Second, [Next]_vars
  PROVE  Second'
<1>1. CASE \E n \in TrialsAsked, condition \in StopsOn : RolloutGeneral(n, condition)
  <2>1. /\ UNCHANGED <<fCubeRollout, nGamesDone>>
        /\ altTrialCount' = nGamesDone /\ altGameCount' = nGamesDone
        /\ \A a : Held(a)' = {} /\ Over(a)' = {}
        /\ \A u \in Threads : pc'[u] = "end"
    BY <1>1, CommandHolders
  <2>2. fCubeRollout => nGamesDone[1] = nGamesDone[2] /\ nGamesDone[2] \in Nat
    BY Alternatives DEF Plain, Control, ControlTypes, Counters, CounterTypes
  <2>3. \A a : Held(a)' = {} /\ Over(a)' = {}
    BY <2>1
  <2> QED BY <2>1, <2>2, <2>3, SecondStarts DEF CubeJsd
<1>2. CASE StartThreads
  <2>1. /\ UNCHANGED <<fCubeRollout, nGamesDone, altTrialCount, altGameCount>>
        /\ \A a : Held(a)' = {} /\ Over(a)' = {}
        /\ \A u \in Threads : pc'[u] # "giveback"
        /\ pc[Main] = "start"
    BY <1>2, StartHolders
  <2>2. fCubeRollout => nGamesDone[1] = nGamesDone[2] /\ nGamesDone[2] \in Nat
    BY Alternatives DEF Plain, Control, ControlTypes, Counters, CounterTypes
  <2>3. \A a : Held(a)' = {} /\ Over(a)' = {}
    BY <2>1
  <2>4. altTrialCount = nGamesDone /\ altGameCount = nGamesDone
    BY <2>1 DEF Plain
  <2> QED BY <2>1, <2>2, <2>3, <2>4, SecondStarts DEF CubeJsd
<1>3. CASE \E t \in Threads : TakeTrial(t)
  BY <1>3, SecondTakes
<1>4. CASE \E t \in Threads : GiveBack(t) \/ AddResult(t) \/ (PlayTrial(t) /\ fInterrupt)
  BY <1>4, ReleaseSteps, SecondReleases
<1>5. CASE Quiet
  BY <1>1, <1>5, SecondQuiet
<1> QED BY <1>1, <1>2, <1>3, <1>4, <1>5, StepKinds

\* Games are only added to an alternative, until the next command.
LEMMA GamesGrow ==
  ASSUME Control, Counters, [Next]_vars,
         ~ \E n \in TrialsAsked, condition \in StopsOn : RolloutGeneral(n, condition)
  PROVE  /\ UNCHANGED <<fCubeRollout, stopOn>> /\ Alts' = Alts
         /\ \A a \in Alts : altGameCount[a] \in Nat /\ altGameCount'[a] >= altGameCount[a]
<1>1. \A a \in Alts : altGameCount[a] \in Nat
  BY DEF Counters, CounterTypes
<1>2. ASSUME NEW t \in Threads, TakeTrial(t)
      PROVE  UNCHANGED <<fCubeRollout, stopOn, altGameCount>>
  BY <1>2 DEF TakeTrial, run
<1>3. ASSUME NEW t \in Threads, NEW a, Releases(t, a)
      PROVE  /\ UNCHANGED <<fCubeRollout, stopOn>>
             /\ \A b \in Alts : altGameCount'[b] >= altGameCount[b]
  BY <1>1, <1>3 DEF Releases
<1>4. CASE \E t \in Threads : GiveBack(t) \/ AddResult(t) \/ (PlayTrial(t) /\ fInterrupt)
  BY <1>1, <1>3, <1>4, ReleaseSteps DEF Alts, nAlternatives
<1>5. CASE StartThreads \/ Quiet
  BY <1>1, <1>5, StartHolders DEF Quiet, Alts, nAlternatives
<1>6. CASE \E t \in Threads : TakeTrial(t)
  BY <1>1, <1>2, <1>6 DEF Alts, nAlternatives
<1> QED BY <1>4, <1>5, <1>6, StepKinds

\* The first side of a cube decision is stopped after its minimum of games, and the
\* second is stopped next.
LEMMA FirstSide ==
  ASSUME Control, [Next]_vars, NEW t \in Procs, pc'[t] = "jsdcube2", pc[t] # "jsdcube2"
  PROVE  altGameCount[1] >= MinGames
<1>1. ControlTypes /\ Main \in Procs /\ Threads \subseteq Procs
  BY DEF Control, Procs
<1>2. ASSUME NEW u \in Procs, Check(u) PROVE altGameCount[1] >= MinGames
  <2>1. CASE EnterCheck(u)
    <3>1. /\ pc'[u] = (IF stopOn = "jsd" /\ fCubeRollout THEN "jsdcube" ELSE stopOn)
          /\ \A v \in Procs \ {u} : pc'[v] = pc[v]
      BY <1>1, <2>1, Moves DEF EnterCheck
    <3> QED BY <1>1, <3>1, StopAssumption DEF ControlTypes
  <2>2. CASE JsdMove(u) \/ StdAlternative(u)
    BY <2>2 DEF JsdMove, StdAlternative
  <2>3. CASE JsdCube(u)
    BY <1>1, <2>3, Moves DEF JsdCube
  <2>4. CASE \/ JsdMovesDone(u) \/ JsdCubeStops(u) \/ StdDone(u)
             \/ StdCubeResumes(u, "std2", "std3", 2) \/ StdCubeResumes(u, "std3", "decide", 1)
             \/ CheckNothing(u) \/ Decide(u)
    BY <1>1, <2>4, Moves DEF JsdMovesDone, JsdCubeStops, StdDone, StdCubeResumes, CheckNothing, Decide
  <2> QED BY <1>2, <2>1, <2>2, <2>3, <2>4 DEF Check
<1>3. ASSUME NEW u \in Threads,
             \/ NextTrial(u) \/ TakeTrial(u) \/ TestAlternative(u) \/ GiveBack(u)
             \/ PlayTrial(u) \/ AddResult(u) \/ Looped(u)
      PROVE  FALSE
  BY <1>1, <1>3, Moves DEF NextTrial, TakeTrial, TestAlternative, GiveBack, PlayTrial, AddResult, Looped,
                           NextAlternative
<1>4. ASSUME NEW n \in TrialsAsked, NEW condition \in StopsOn, RolloutGeneral(n, condition)
      PROVE  FALSE
  BY <1>1, <1>4, Moves DEF RolloutGeneral
<1>5. ASSUME StartThreads PROVE FALSE
  BY <1>1, <1>5, StartHolders DEF Procs
<1>6. ASSUME Finish \/ Interrupt \/ Ended \/ UNCHANGED vars PROVE FALSE
  <2>1. CASE Finish
    BY <1>1, <2>1, Moves DEF Finish
  <2> QED BY <1>6, <2>1 DEF Interrupt, Ended, vars
<1> QED BY <1>1, <1>2, <1>3, <1>4, <1>5, <1>6 DEF Next, MainStep, ThreadStep

\* Alternatives have their minimum of games when they stop.
Minimum ==
    /\ StopsAfterMinimum
    /\ \A t \in Procs : pc[t] = "jsdcube2" => altGameCount[1] >= MinGames

\* Every step keeps it.
LEMMA MinimumIsKept ==
  ASSUME Control, Counters, Plain, Second, Minimum, [Next]_vars
  PROVE  Minimum'
<1>1. CASE \E n \in TrialsAsked, condition \in StopsOn : RolloutGeneral(n, condition)
  <2>1. /\ fNoMore' = [a \in Alts |-> FALSE] /\ Alts' = Alts
        /\ pc'[Main] \in {"start", "enter"} /\ \A u \in Threads : pc'[u] = "end"
    BY <1>1, CommandHolders
  <2> QED BY <2>1 DEF Minimum, StopsAfterMinimum, Procs
<1>2. CASE ~ \E n \in TrialsAsked, condition \in StopsOn : RolloutGeneral(n, condition)
  <2>1. /\ UNCHANGED <<fCubeRollout, stopOn>> /\ Alts' = Alts
        /\ \A a \in Alts : altGameCount[a] \in Nat /\ altGameCount'[a] >= altGameCount[a]
    BY <1>2, GamesGrow
  <2>2. /\ MinGames \in Nat /\ Cardinality(Threads) \in Nat \ {0} /\ 1 \in Alts
        /\ \A a : BehindOf(a) \in Nat /\ BehindOf(a)' = BehindOf(a)
        /\ \A a \in Alts : altGameCount[a] \in Int /\ altGameCount'[a] \in Int
    <3>1. MinGames \in Nat /\ Cardinality(Threads) \in Nat \ {0} /\ 1 \in Alts
      BY MostAsked, Alternatives DEF Control, ControlTypes
    <3>2. \A a \in Alts : altGameCount'[a] \in Int
      BY <2>1, CountersAreKept DEF Counters, CounterTypes
    <3> QED BY <2>1, <3>1, <3>2 DEF BehindOf
  <2>3. ASSUME NEW t \in Procs, pc'[t] = "jsdcube2" PROVE altGameCount'[1] >= MinGames
    <3>1. altGameCount[1] >= MinGames
      BY <2>3, FirstSide DEF Minimum
    <3> QED BY <2>1, <2>2, <3>1
  <2>4. ASSUME NEW a \in Alts, fNoMore'[a] PROVE altGameCount[a] >= MinGames - BehindOf(a)
    <3>1. CASE fNoMore[a]
      BY <3>1 DEF Minimum, StopsAfterMinimum
    <3>2. CASE ~fNoMore[a] /\ \E b \in Alts : /\ altGameCount[b] >= MinGames
                                           /\ fNoMore' = [fNoMore EXCEPT ![b] = TRUE]
      BY <2>1, <2>2, <2>4, <3>2
    <3>3. CASE ~fNoMore[a] /\ \E b \in Alts : fNoMore' = [fNoMore EXCEPT ![b] = FALSE]
      BY <2>4, <3>3 DEF Control, ControlTypes
    <3>4. CASE ~fNoMore[a] /\ \E t \in Procs : JsdCubeStops(t)
      <4> PICK t \in Procs : JsdCubeStops(t)
        BY <3>4
      <4>1. pc[t] = "jsdcube2" /\ fNoMore' = [fNoMore EXCEPT ![2] = TRUE]
        BY DEF JsdCubeStops, Go
      <4>2. a = 2
        BY <2>4, <3>4, <4>1 DEF Control, ControlTypes
      <4>3. CubeJsd /\ altGameCount[1] >= MinGames /\ BehindOf(2) = Cardinality(Threads) - 1
        BY <4>1 DEF Control, Checks, CriterionOf, CubeJsd, Minimum, BehindOf
      <4>4. CASE t \in Threads
        <5>1. Behind \in SUBSET (Threads \ {t})
          BY <4>1 DEF Behind, TrialPlaces
        <5>2. IsFiniteSet(Threads \ {t}) /\ Cardinality(Threads \ {t}) = Cardinality(Threads) - 1
          BY <4>4, ThreadsAssumption, FS_RemoveElement
        <5>3. Cardinality(Behind) <= Cardinality(Threads) - 1
          BY <5>1, <5>2, FS_Subset
        <5>4. altGameCount[1] <= altGameCount[2] + Cardinality(Behind)
          BY <3>4, <4>2, <4>3 DEF Second
        <5> QED BY <2>1, <2>2, <4>2, <4>3, <5>3, <5>4, BehindSizes
      <4>5. CASE t = Main
        <5>1. altGameCount = nGamesDone /\ nGamesDone[1] = nGamesDone[2]
          BY <4>1, <4>3, <4>5 DEF Plain, CubeJsd
        <5> QED BY <2>1, <2>2, <4>2, <4>3, <5>1
      <4> QED BY <4>4, <4>5 DEF Procs
    <3>5. CASE UNCHANGED fNoMore
      BY <2>4, <3>1, <3>5
    <3> QED BY <1>2, <3>1, <3>2, <3>3, <3>4, <3>5, StopSteps
  <2>5. StopsAfterMinimum'
    <3>1. ASSUME NEW a \in Alts, fNoMore'[a] PROVE altGameCount'[a] >= MinGames - BehindOf(a)'
      BY <2>1, <2>2, <2>4, <3>1
    <3> QED BY <2>1, <3>1 DEF StopsAfterMinimum
  <2> QED BY <2>3, <2>5 DEF Minimum
<1> QED BY <1>1, <1>2

\* At first nothing is stopped, and no game of a rollout has been played.
LEMMA InitialTrials == Init => Plain /\ Second /\ Minimum
<1> SUFFICES ASSUME Init PROVE Plain /\ Second /\ Minimum
  OBVIOUS
<1>1. Control /\ Counters
  BY InitialControl, InitialCounters
<1>2. /\ nGamesDone \in [Alts -> Prior] /\ altTrialCount = nGamesDone /\ altGameCount = nGamesDone
      /\ \A a \in Alts : nGamesDone[a] = nGamesDone[Context(a)]
      /\ fNoMore = [a \in Alts |-> FALSE]
      /\ pc = [t \in Procs |-> IF t = Main THEN "idle" ELSE "end"]
  BY DEF Init
<1>3. \A u \in Threads : pc[u] = "end"
  BY <1>2, ThreadsAssumption DEF Procs
<1>4. \A a : Held(a) = {} /\ Over(a) = {}
  BY <1>3 DEF Held, Over, TrialPlaces
<1>5. fCubeRollout => /\ 1 \in Alts /\ 2 \in Alts
                      /\ nGamesDone[1] \in Nat /\ nGamesDone[2] \in Nat
  BY <1>1, Alternatives DEF Control, ControlTypes, Counters, CounterTypes
<1>6. fCubeRollout => nGamesDone[1] = nGamesDone[2]
  BY <1>2, <1>5 DEF Context
<1>7. Plain
  BY <1>2, <1>4, <1>6 DEF Plain
<1>8. Second
  <2>1. Cardinality(Held(2)) = 0
    BY <1>4, FS_EmptySet
  <2> QED BY <1>2, <1>3, <1>4, <1>5, <1>6, <2>1, BehindSizes DEF Second, CubeJsd
<1>9. Minimum
  BY <1>2, <1>3 DEF Minimum, StopsAfterMinimum, Procs
<1> QED BY <1>7, <1>8, <1>9

\* "Always do at least this many": check_jsds and check_sds stop nothing before
\* its minimum of games; of a cube decision only the first side is asked for it,
\* and the second may be short of it by one game for each other thread.
THEOREM MinimumFirst == Spec => []StopsAfterMinimum
<1>1. Control /\ Counters /\ Plain /\ Second /\ Minimum /\ [Next]_vars => (Plain /\ Second /\ Minimum)'
  BY PlainIsKept, SecondIsKept, MinimumIsKept
<1>2. Minimum => StopsAfterMinimum
  BY DEF Minimum
<1> QED BY <1>1, <1>2, InitialTrials, ControlHolds, CountersHold, PTL DEF Spec

-----------------------------------------------------------------------------
(* Games asked for. *)

\* A set of naturals that has a bound has a greatest element.
LEMMA Bounded ==
  ASSUME NEW S \in SUBSET Nat, S # {}, NEW m \in Nat, \A n \in S : n <= m
  PROVE  Max(S) \in S /\ \A n \in S : n <= Max(S)
<1> DEFINE Bounds == {k \in Nat : \A n \in S : n <= k}
<1>1. Min(Bounds) \in Bounds /\ \A k \in Bounds : Min(Bounds) <= k
  <2>1. Bounds \in SUBSET Nat /\ m \in Bounds
    OBVIOUS
  <2> HIDE DEF Bounds
  <2> QED BY <2>1, Least
<1> PICK k \in Bounds : \A j \in Bounds : k <= j
  BY <1>1
<1>2. k \in S
  <2>1. SUFFICES ASSUME k \notin S PROVE FALSE
    OBVIOUS
  <2>2. \A n \in S : n \in Nat /\ n <= k - 1 /\ k - 1 \in Nat
    BY <2>1
  <2>3. k - 1 \in Bounds
    BY <2>2
  <2> QED BY <2>3
<1> QED BY <1>2, Greatest

\* A rollout that asks for c games gets one more at most, unless it had more before.
Limit(c) == Max({c + 1} \cup Prior)

\* The games that it may get.
LEMMA Limits ==
  ASSUME NEW c \in Nat
  PROVE  Limit(c) \in Nat /\ c + 1 <= Limit(c) /\ \A n \in Prior : n <= Limit(c)
<1>1. Most \in Nat /\ (\A n \in Prior : n <= Most) /\ Prior \subseteq Nat
  BY MostAsked, CountsAssumption
<1>2. \A n \in {c + 1} \cup Prior : n <= c + 1 + Most
  BY <1>1
<1>3. {c + 1} \cup Prior \in SUBSET Nat /\ c + 1 + Most \in Nat
  BY <1>1
<1> QED BY <1>2, <1>3, Bounded DEF Limit

\* What is known before the first command, and of interruptions.
Settled ==
    /\ rollouts = 0 => pc[Main] = "idle" /\ altTrialCount = nGamesDone
    /\ fInterrupt => Interrupts

\* Every step keeps it.
LEMMA SettledIsKept ==
  ASSUME Control, Counters, Settled, [Next]_vars
  PROVE  Settled'
<1>1. rollouts \in Nat
  BY MostAsked DEF Counters, CounterTypes
<1>2. fInterrupt' => Interrupts
  <2>1. CASE \E t \in Procs : Check(t)
    BY <2>1, CheckEffects DEF Settled
  <2>2. CASE \E t \in Threads : \/ NextTrial(t) \/ TakeTrial(t) \/ TestAlternative(t) \/ GiveBack(t)
                                \/ PlayTrial(t) \/ AddResult(t) \/ Looped(t)
    BY <2>2 DEF Settled, NextTrial, TakeTrial, TestAlternative, GiveBack, PlayTrial, AddResult,
                Looped, run
  <2>3. CASE \/ \E n \in TrialsAsked, condition \in StopsOn : RolloutGeneral(n, condition)
             \/ StartThreads \/ Finish \/ Interrupt \/ Ended \/ UNCHANGED vars
    BY <2>3 DEF Settled, RolloutGeneral, StartThreads, Finish, Interrupt, Ended, vars, run
  <2> QED BY <2>1, <2>2, <2>3 DEF Next, MainStep, ThreadStep, Procs
<1>3. CASE \E n \in TrialsAsked, condition \in StopsOn : RolloutGeneral(n, condition)
  <2>1. rollouts' = rollouts + 1
    BY <1>3, CommandHolders
  <2> QED BY <1>1, <1>2, <2>1 DEF Settled
<1>4. ASSUME NEW t \in Threads, pc[t] # "end", UNCHANGED rollouts PROVE Settled'
  BY <1>2, <1>4, Waiting DEF Settled
<1>5. CASE \E t \in Threads : TakeTrial(t)
  BY <1>4, <1>5 DEF TakeTrial, run, Go
<1>6. CASE \E t \in Threads : GiveBack(t) \/ AddResult(t) \/ (PlayTrial(t) /\ fInterrupt)
  BY <1>4, <1>6 DEF GiveBack, AddResult, PlayTrial, run, NextAlternative, Go
<1>7. CASE StartThreads
  BY <1>2, <1>7, StartHolders DEF Settled
<1>8. CASE Quiet
  BY <1>2, <1>8 DEF Settled, Quiet
<1> QED BY <1>3, <1>5, <1>6, <1>7, <1>8, StepKinds

\* The games drawn in the one rollout that starts from earlier, finished ones.
Limited ==
    /\ rollouts = 0 => nGamesDone \in [Alts -> Prior]
    /\ rollouts > 0 => \A a \in Alts : Drawn(a) <= Limit(cGames)

\* Every step keeps it.
LEMMA LimitedIsKept ==
  ASSUME MaxRollouts <= 1, Control, Counters, Settled, Limited, [Next]_vars
  PROVE  Limited'
<1>1. rollouts \in 0..1 /\ cGames \in Nat
  BY MostAsked, CountsAssumption DEF Counters, CounterTypes
<1>2. CASE \E n \in TrialsAsked, condition \in StopsOn : RolloutGeneral(n, condition)
  <2> PICK n \in TrialsAsked, condition \in StopsOn : RolloutGeneral(n, condition)
    BY <1>2
  <2>1. /\ cGames' = n /\ rollouts' = rollouts + 1 /\ altTrialCount' = nGamesDone
        /\ \A a : Over(a)' = {}
        /\ Alts' = Alts
    BY CommandHolders
  <2>2. rollouts = 0 /\ nGamesDone \in [Alts -> Prior]
    BY <1>1, MostAsked DEF RolloutGeneral, Limited
  <2>3. Prior \subseteq Nat /\ n \in Nat
    BY CountsAssumption
  <2>4. ASSUME NEW a \in Alts PROVE Drawn(a)' <= Limit(n)
    <3>1. Cardinality(Over(a)') = 0
      BY <2>1, FS_EmptySet
    <3>2. Drawn(a)' = nGamesDone[a] - 0
      BY <2>1, <3>1 DEF Drawn
    <3>3. nGamesDone[a] \in Prior /\ nGamesDone[a] \in Nat
      BY <2>2, <2>3
    <3>4. nGamesDone[a] <= Limit(n)
      BY <2>3, <3>3, Limits
    <3> QED BY <3>2, <3>3, <3>4
  <2> QED BY <1>1, <2>1, <2>2, <2>4 DEF Limited
<1>3. ASSUME UNCHANGED <<cGames, rollouts>>, Alts' = Alts, rollouts > 0,
             \A a \in Alts : Drawn(a)' <= Limit(cGames)
      PROVE  Limited'
  BY <1>1, <1>3 DEF Limited
<1>4. ASSUME NEW t \in Threads, TakeTrial(t) PROVE Limited'
  <2> PICK a : alt[t] = a
    OBVIOUS
  <2>1. /\ UNCHANGED <<cGames, rollouts>> /\ Alts' = Alts /\ a \in Alts /\ pc[t] # "end"
        /\ \A b \in Alts \ {a} : Drawn(b)' = Drawn(b)
        /\ altTrialCount[a] \in Nat /\ altTrialCount'[a] = altTrialCount[a] + 1
        /\ altTrialCount[a] > cGames => Drawn(a)' = Drawn(a)
        /\ altTrialCount[a] <= cGames => Over(a)' = Over(a)
    BY <1>4, TakenOf
  <2>2. rollouts > 0
    BY <1>1, <2>1, Waiting DEF Settled
  <2>3. Drawn(a)' <= Limit(cGames)
    <3>1. CASE altTrialCount[a] > cGames
      BY <2>1, <2>2, <3>1 DEF Limited
    <3>2. CASE altTrialCount[a] <= cGames
      <4>1. Drawn(a)' = altTrialCount[a] + 1 - Cardinality(Over(a)) /\ Cardinality(Over(a)) \in Nat
        BY <2>1, <3>2, Sizes DEF Drawn
      <4> QED BY <1>1, <2>1, <3>2, <4>1, Limits
    <3> QED BY <1>1, <2>1, <3>1, <3>2
  <2> QED BY <1>3, <2>1, <2>2, <2>3 DEF Limited
<1>5. ASSUME NEW t \in Threads, GiveBack(t) \/ AddResult(t) \/ (PlayTrial(t) /\ fInterrupt)
      PROVE  Limited'
  <2> PICK a : alt[t] = a
    OBVIOUS
  <2>1. Releases(t, a)
    BY <1>5, ReleaseSteps
  <2>2. /\ UNCHANGED <<cGames, rollouts>> /\ pc[t] # "end" /\ trial[t] \in Nat
    BY <2>1 DEF Releases
  <2>3. /\ Alts' = Alts /\ a \in Alts
        /\ \A b \in Alts \ {a} : Drawn(b)' = Drawn(b)
        /\ trial[t] <= cGames => Drawn(a)' = Drawn(a) - 1 \/ Drawn(a)' = Drawn(a)
        /\ trial[t] > cGames => Drawn(a)' = Drawn(a)
    BY <2>1, ReleasedOf
  <2>4. altTrialCount[a] \in Nat /\ Cardinality(Over(a)) \in Nat /\ Limit(cGames) \in Nat
    BY <1>1, <2>3, Sizes, Limits DEF Counters, CounterTypes
  <2>5. Drawn(a) \in Int
    BY <2>4 DEF Drawn
  <2>6. rollouts > 0
    BY <1>1, <2>2, Waiting DEF Settled
  <2>7. Drawn(a)' <= Limit(cGames)
    BY <1>1, <2>2, <2>3, <2>4, <2>5, <2>6 DEF Limited
  <2> QED BY <1>3, <2>2, <2>3, <2>6, <2>7 DEF Limited
<1>6. CASE StartThreads
  <2>1. /\ UNCHANGED <<cGames, rollouts>> /\ Alts' = Alts /\ pc[Main] = "start"
        /\ \A a : Drawn(a)' = Drawn(a)
    BY <1>6, StartHolders
  <2> QED BY <1>1, <1>3, <2>1 DEF Settled, Limited
<1>7. CASE Quiet
  <2>1. /\ UNCHANGED <<cGames, rollouts, nGamesDone>> /\ Alts' = Alts
        /\ \A a : Drawn(a)' = Drawn(a)
    BY <1>7, QuietHolders DEF Quiet
  <2> QED BY <2>1 DEF Limited
<1> QED BY <1>2, <1>4, <1>5, <1>6, <1>7, StepKinds

\* At first no number is held, and the counters are those of earlier rollouts.
LEMMA InitialGames == Init => Settled /\ Limited
BY DEF Init, Settled, Limited, Procs

-----------------------------------------------------------------------------
(* When no stopping condition is chosen, no alternative stops. *)

Nothing == \A a \in Alts : ~fNoMore[a]

\* Only the checks of a condition stop alternatives.
LEMMA NothingStops ==
  ASSUME StopsOn = {"none"}, Control, Nothing, [Next]_vars
  PROVE  Nothing'
<1>1. stopOn = "none"
  BY DEF Control, ControlTypes
<1>2. ASSUME NEW t \in Procs, Check(t) PROVE UNCHANGED <<fCubeRollout, fNoMore>>
  <2>1. pc[t] \notin {"jsd", "jsdcube", "jsdcube2", "std", "std2", "std3"}
    BY <1>1 DEF Control, Checks, CriterionOf
  <2> QED BY <1>2, <2>1 DEF Check, EnterCheck, JsdMove, JsdMovesDone, JsdCube, JsdCubeStops,
                StdAlternative, StdDone, StdCubeResumes, CheckNothing, Decide, Go, checked, run
<1>3. CASE \E n \in TrialsAsked, condition \in StopsOn : RolloutGeneral(n, condition)
  BY <1>3, CommandHolders DEF Nothing
<1>4. CASE StartThreads \/ Finish \/ Interrupt \/ Ended \/ UNCHANGED vars
  <2>1. UNCHANGED <<fCubeRollout, fNoMore>>
    BY <1>4 DEF StartThreads, Finish, Interrupt, Ended, vars, run
  <2> QED BY <2>1 DEF Nothing, Alts, nAlternatives
<1>5. CASE \E t \in Threads : \/ NextTrial(t) \/ TakeTrial(t) \/ TestAlternative(t) \/ GiveBack(t)
                              \/ PlayTrial(t) \/ AddResult(t) \/ Looped(t)
  <2>1. UNCHANGED <<fCubeRollout, fNoMore>>
    BY <1>5 DEF NextTrial, TakeTrial, TestAlternative, GiveBack, PlayTrial, AddResult, Looped, run
  <2> QED BY <2>1 DEF Nothing, Alts, nAlternatives
<1>6. CASE \E t \in Procs : Check(t)
  BY <1>2, <1>6 DEF Nothing, Alts, nAlternatives
<1> QED BY <1>3, <1>4, <1>5, <1>6 DEF Next, MainStep, ThreadStep, Procs

-----------------------------------------------------------------------------
(* No game is counted twice. *)

\* The trials of an alternative that are played, or are going to be: numbers that
\* are not too large.
Playing(a) == Held(a) \ Over(a)

\* A trial is held by one thread or counted once, and its number was drawn;
\* numbers that are too large come when all others are drawn.
OnceOf(a) ==
    /\ Over(a) # {} => Drawn(a) >= cGames + 1
    /\ \A n \in 0..MaxTrials : counted[a][n] <= 1 /\ (counted[a][n] > 0 => n < Drawn(a))
    /\ \A t \in Playing(a) :
          /\ trial[t] < Drawn(a) /\ counted[a][trial[t]] = 0
          /\ \A u \in Playing(a) : trial[t] = trial[u] => t = u

Once ==
    /\ \A a \in Alts : OnceOf(a)
    /\ \A t \in Threads : pc[t] = "giveback" => trial[t] > cGames

\* A number that is taken is new, or too large.
LEMMA OnceTakes ==
  ASSUME Control, Counters, Once, NEW t \in Threads, TakeTrial(t)
  PROVE  Once'
<1> PICK a : alt[t] = a
  OBVIOUS
<1>1. /\ UNCHANGED <<cGames, counted, alt>> /\ Alts' = Alts /\ a \in Alts /\ cGames \in Nat
      /\ pc'[t] = "test" /\ \A u \in Procs \ {t} : pc'[u] = pc[u]
      /\ trial'[t] = altTrialCount[a] /\ \A u \in Procs \ {t} : trial'[u] = trial[u]
      /\ altTrialCount[a] \in Nat
      /\ \A b \in Alts \ {a} : Held(b)' = Held(b) /\ Over(b)' = Over(b) /\ Drawn(b)' = Drawn(b)
      /\ t \notin Held(a) /\ Held(a)' = Held(a) \cup {t}
      /\ altTrialCount[a] > cGames => Over(a)' = Over(a) \cup {t} /\ Drawn(a)' = Drawn(a)
      /\ altTrialCount[a] <= cGames => Over(a)' = Over(a) /\ Drawn(a)' = Drawn(a) + 1
  BY TakenOf
<1>2. /\ IsFiniteSet(Over(a)) /\ Cardinality(Over(a)) \in Nat /\ OnceOf(a)
      /\ counted[a] \in [0..MaxTrials -> Nat]
  BY <1>1, Sizes DEF Once, Counters, CounterTypes
<1>3. \A u \in Held(a) : trial'[u] = trial[u] /\ u # t
  BY <1>1 DEF Held, Procs
<1>4. ASSUME altTrialCount[a] > cGames PROVE OnceOf(a)'
  <2>1. Drawn(a) >= cGames + 1
    <3>1. CASE Over(a) = {}
      BY <1>1, <1>4, <3>1, FS_EmptySet DEF Drawn
    <3> QED BY <1>2, <3>1 DEF OnceOf
  <2>2. Playing(a)' = Playing(a)
    BY <1>1, <1>4 DEF Playing
  <2>3. \A u \in Playing(a) : trial'[u] = trial[u]
    BY <1>3 DEF Playing
  <2> QED BY <1>1, <1>2, <1>4, <2>1, <2>2, <2>3 DEF OnceOf
<1>5. ASSUME altTrialCount[a] <= cGames PROVE OnceOf(a)'
  <2>1. Over(a) = {}
    <3>1. SUFFICES ASSUME Over(a) # {} PROVE FALSE
      OBVIOUS
    <3> QED BY <1>1, <1>2, <1>5, <3>1 DEF OnceOf, Drawn
  <2>2. Drawn(a) = altTrialCount[a] /\ Drawn(a)' = altTrialCount[a] + 1 /\ Over(a)' = {}
    BY <1>1, <1>5, <2>1, FS_EmptySet DEF Drawn
  <2>3. Playing(a)' = Playing(a) \cup {t}
    BY <1>1, <2>1, <2>2 DEF Playing
  <2>4. \A u \in Playing(a) : trial'[u] = trial[u] /\ trial[u] < Drawn(a) /\ trial[u] \in Nat
    BY <1>2, <1>3 DEF Playing, OnceOf, Held, Procs, Counters, CounterTypes
  <2>5. counted[a][altTrialCount[a]] = 0
    <3>1. altTrialCount[a] \in 0..MaxTrials
      BY <1>1, <1>5, MostAsked, CountsAssumption DEF Counters, CounterTypes
    <3>2. counted[a][altTrialCount[a]] \in Nat
      BY <1>2, <3>1
    <3>3. ~(counted[a][altTrialCount[a]] > 0)
      BY <1>1, <1>2, <2>2, <3>1 DEF OnceOf
    <3> QED BY <3>2, <3>3
  <2>6. \A n \in 0..MaxTrials : counted'[a][n] <= 1 /\ (counted'[a][n] > 0 => n < Drawn(a)')
    BY <1>1, <1>2, <2>2 DEF OnceOf
  <2>7. ASSUME NEW u \in Playing(a)'
        PROVE  /\ trial'[u] < Drawn(a)' /\ counted'[a][trial'[u]] = 0
               /\ \A v \in Playing(a)' : trial'[u] = trial'[v] => u = v
    <3>1. CASE u = t
      BY <1>1, <2>2, <2>3, <2>4, <2>5, <3>1
    <3>2. CASE u \in Playing(a)
      <4>1. trial'[u] < Drawn(a)' /\ counted'[a][trial'[u]] = 0
        BY <1>1, <1>2, <2>2, <2>4, <3>2 DEF OnceOf
      <4>2. \A v \in Playing(a) : trial'[u] = trial'[v] => u = v
        BY <1>2, <2>4, <3>2 DEF OnceOf
      <4>3. trial'[u] # trial'[t]
        BY <1>1, <2>2, <2>4, <3>2
      <4> QED BY <2>3, <4>1, <4>2, <4>3
    <3> QED BY <2>3, <3>1, <3>2
  <2> QED BY <2>2, <2>6, <2>7 DEF OnceOf
<1>6. ASSUME NEW b \in Alts \ {a} PROVE OnceOf(b)'
  <2>1. Playing(b)' = Playing(b) /\ \A u \in Playing(b) : trial'[u] = trial[u]
    BY <1>1 DEF Playing, Held, Procs
  <2> QED BY <1>1, <2>1 DEF Once, OnceOf
<1>7. ASSUME NEW u \in Threads, pc'[u] = "giveback" PROVE trial'[u] > cGames
  BY <1>1, <1>7 DEF Once, Procs
<1> QED BY <1>1, <1>4, <1>5, <1>6, <1>7 DEF Once

\* A game is added under its own number, which no other thread has.
LEMMA OnceReleases ==
  ASSUME Control, Counters, Once, NEW t \in Threads,
         GiveBack(t) \/ AddResult(t) \/ (PlayTrial(t) /\ fInterrupt)
  PROVE  Once'
<1> PICK a : alt[t] = a
  OBVIOUS
<1>1. Releases(t, a)
  BY ReleaseSteps
<1>2. /\ Alts' = Alts /\ a \in Alts /\ cGames \in Nat
      /\ t \in Held(a) /\ Held(a)' = Held(a) \ {t} /\ Over(a)' = Over(a) \ {t}
      /\ (t \in Over(a) <=> trial[t] > cGames)
      /\ trial[t] <= cGames => Drawn(a)' = IF pc[t] = "giveback" THEN Drawn(a) - 1 ELSE Drawn(a)
      /\ trial[t] > cGames => pc[t] = "giveback" /\ Drawn(a)' = Drawn(a)
      /\ \A b \in Alts \ {a} : Held(b)' = Held(b) /\ Over(b)' = Over(b) /\ Drawn(b)' = Drawn(b)
  BY <1>1, ReleasedOf
<1>3. /\ UNCHANGED <<cGames, trial>> /\ pc'[t] # "giveback" /\ trial[t] \in Nat
      /\ \A u \in Procs \ {t} : pc'[u] = pc[u]
      /\ \A b \in Alts \ {a} : counted'[b] = counted[b]
      /\ pc[t] \in {"giveback", "apply", "roll"}
      /\ pc[t] # "giveback" => trial[t] <= cGames
  BY <1>1 DEF Releases
<1>4. pc[t] = "giveback" => trial[t] > cGames
  BY DEF Once
<1>5. /\ Drawn(a)' = Drawn(a) /\ Playing(a)' = Playing(a) \ {t}
      /\ (t \in Playing(a) <=> pc[t] # "giveback")
  BY <1>2, <1>3, <1>4 DEF Playing
<1>6. OnceOf(a) /\ counted[a] \in [0..MaxTrials -> Nat] /\ Drawn(a) \in Int
  BY <1>2, Sizes DEF Once, Counters, CounterTypes, Drawn
<1>7. CASE ~AddResult(t)
  <2>1. UNCHANGED counted
    BY <1>7 DEF GiveBack, PlayTrial, counts
  <2> QED BY <1>2, <1>3, <1>5, <1>6, <2>1 DEF Once, OnceOf, Playing, Procs
<1>8. CASE AddResult(t)
  <2>1. pc[t] = "apply" /\ counted' = [counted EXCEPT ![a][trial[t]] = @ + 1]
    BY <1>8 DEF AddResult, NextAlternative, Go
  <2>2. t \in Playing(a) /\ trial[t] \in 0..MaxTrials
    BY <1>3, <1>5, <2>1, MostAsked DEF Counters, NumberOf, Procs
  <2>3. /\ counted'[a][trial[t]] = counted[a][trial[t]] + 1
        /\ \A n \in 0..MaxTrials : n # trial[t] => counted'[a][n] = counted[a][n]
    BY <1>2, <2>1, <2>2 DEF Counters, CounterTypes
  <2>4. counted[a][trial[t]] = 0 /\ trial[t] < Drawn(a)
        /\ \A u \in Playing(a) : trial[t] = trial[u] => t = u
    BY <1>6, <2>2 DEF OnceOf
  <2>5. \A n \in 0..MaxTrials : counted'[a][n] <= 1 /\ (counted'[a][n] > 0 => n < Drawn(a)')
    BY <1>5, <1>6, <2>3, <2>4 DEF OnceOf
  <2>6. ASSUME NEW u \in Playing(a)'
        PROVE  /\ trial[u] < Drawn(a)' /\ counted'[a][trial[u]] = 0
               /\ \A v \in Playing(a)' : trial[u] = trial[v] => u = v
    <3>1. u \in Playing(a) /\ trial[u] # trial[t]
      BY <1>5, <2>4
    <3>2. trial[u] \in 0..MaxTrials
      BY <3>1, MostAsked DEF Playing, Held, Counters, CounterTypes, NumberOf, Procs
    <3> QED BY <1>5, <1>6, <2>3, <3>1, <3>2 DEF OnceOf
  <2>7. OnceOf(a)'
    BY <1>2, <1>3, <1>5, <1>6, <2>5, <2>6 DEF OnceOf
  <2>8. ASSUME NEW b \in Alts \ {a} PROVE OnceOf(b)'
    BY <1>2, <1>3 DEF Once, OnceOf, Playing
  <2>9. \A u \in Threads : pc'[u] = "giveback" => trial'[u] > cGames
    BY <1>3 DEF Once, Procs
  <2> QED BY <1>2, <1>3, <2>7, <2>8, <2>9 DEF Once
<1> QED BY <1>7, <1>8

\* Before a command no number beyond the games done was drawn, if the rollout
\* before was not interrupted or there was none.
LEMMA NoneLost ==
  ASSUME MaxRollouts <= 1 \/ ~Interrupts, Control, Counters, Settled,
         pc[Main] = "idle", rollouts < MaxRollouts, NEW a \in Alts
  PROVE  altTrialCount[a] <= nGamesDone[a] /\ Drawn(a) = altTrialCount[a]
<1>1. rollouts \in Nat /\ MaxRollouts \in Nat /\ altTrialCount[a] \in Nat
      /\ altGameCount[a] \in Nat /\ nGamesDone[a] \in Nat
  BY MostAsked DEF Counters, CounterTypes
<1>2. Held(a) = {} /\ Over(a) = {}
  BY DEF Control, Roles, Held, Over, TrialPlaces
<1>3. Cardinality(Held(a)) = 0 /\ Cardinality(Over(a)) = 0
  BY <1>2, FS_EmptySet
<1>4. CASE rollouts = 0
  BY <1>1, <1>3, <1>4 DEF Settled, Drawn
<1>5. CASE rollouts # 0
  <2>1. ~fInterrupt
    BY <1>1, <1>5 DEF Settled
  <2>2. altTrialCount[a] = altGameCount[a] + Cardinality(Held(a)) /\ altGameCount[a] <= nGamesDone[a]
    BY <2>1 DEF Counters, AccountOf, BoundOf
  <2> QED BY <1>1, <1>3, <2>2 DEF Drawn
<1> QED BY <1>4, <1>5

\* Every step keeps it.
LEMMA OnceIsKept ==
  ASSUME StopsOn = {"none"}, MaxRollouts <= 1 \/ ~Interrupts,
         Control, Counters, Settled, Nothing, Once, [Next]_vars
  PROVE  Once'
<1>1. CASE \E n \in TrialsAsked, condition \in StopsOn : RolloutGeneral(n, condition)
  <2> PICK n \in TrialsAsked, condition \in StopsOn : RolloutGeneral(n, condition)
    BY <1>1
  <2>1. /\ altTrialCount' = nGamesDone /\ Alts' = Alts
        /\ \A a : Held(a)' = {} /\ Over(a)' = {} /\ Held(a) = {} /\ Over(a) = {}
        /\ \A u \in Threads : pc'[u] = "end"
    BY CommandHolders
  <2>2. /\ pc[Main] = "idle" /\ rollouts < MaxRollouts
        /\ counted' = [a \in Alts |-> [k \in 0..MaxTrials |-> IF Fresh(a) THEN 0 ELSE counted[a][k]]]
    BY DEF RolloutGeneral, Go
  <2>3. ASSUME NEW a \in Alts PROVE OnceOf(a)'
    <3>1. /\ altTrialCount[a] <= nGamesDone[a] /\ Drawn(a) = altTrialCount[a] /\ OnceOf(a)
          /\ altTrialCount[a] \in Nat /\ nGamesDone[a] \in Nat /\ counted[a] \in [0..MaxTrials -> Nat]
      BY <2>2, NoneLost DEF Once, Counters, CounterTypes
    <3>2. Over(a)' = {} /\ Playing(a)' = {} /\ Cardinality(Over(a)') = 0
      BY <2>1, FS_EmptySet DEF Playing
    <3>3. Drawn(a)' = nGamesDone[a]
      BY <2>1, <3>1, <3>2 DEF Drawn
    <3>4. ASSUME NEW k \in 0..MaxTrials
          PROVE  counted'[a][k] <= 1 /\ (counted'[a][k] > 0 => k < Drawn(a)')
      <4>1. counted'[a][k] = IF Fresh(a) THEN 0 ELSE counted[a][k]
        BY <2>2
      <4>2. counted[a][k] <= 1 /\ (counted[a][k] > 0 => k < altTrialCount[a])
        BY <3>1 DEF OnceOf
      <4> QED BY <3>1, <3>3, <4>1, <4>2
    <3> QED BY <3>2, <3>4 DEF OnceOf
  <2> QED BY <2>1, <2>3 DEF Once
<1>2. CASE \E t \in Threads : TakeTrial(t)
  BY <1>2, OnceTakes
<1>3. CASE \E t \in Threads : GiveBack(t) \/ AddResult(t) \/ (PlayTrial(t) /\ fInterrupt)
  BY <1>3, OnceReleases
<1>4. ASSUME UNCHANGED <<cGames, counted, trial>>, Alts' = Alts,
             \A a : Held(a)' = Held(a) /\ Over(a)' = Over(a) /\ Drawn(a)' = Drawn(a),
             \A t \in Threads : pc'[t] = "giveback" => trial[t] > cGames
      PROVE  Once'
  <2>1. ASSUME NEW a \in Alts PROVE OnceOf(a)'
    BY <1>4, <2>1 DEF Once, OnceOf, Playing
  <2> QED BY <1>4, <2>1 DEF Once
<1>5. CASE StartThreads
  BY <1>4, <1>5, StartHolders
<1>6. CASE Quiet
  <2>1. ASSUME NEW t \in Threads, pc'[t] = "giveback" PROVE trial[t] > cGames
    <3>1. pc[t] = "giveback" \/ (pc[t] = "test" /\ Skipped(t))
      BY <1>6, <2>1 DEF Quiet, QuietMove, CheckPlaces
    <3>2. ~fNoMore[alt[t]]
      BY DEF Nothing, Control, ControlTypes, Procs
    <3> QED BY <3>1, <3>2 DEF Once, Skipped
  <2> QED BY <1>4, <1>6, <2>1, QuietHolders DEF Quiet
<1> QED BY <1>1, <1>2, <1>3, <1>5, <1>6, StepKinds

\* At first the games of earlier rollouts are counted once.
LEMMA InitialOnce == Init => Once /\ Nothing
<1> SUFFICES ASSUME Init PROVE Once /\ Nothing
  OBVIOUS
<1>1. /\ nGamesDone \in [Alts -> Prior] /\ altTrialCount = nGamesDone
      /\ counted = [a \in Alts |-> [n \in 0..MaxTrials |-> IF n < nGamesDone[a] THEN 1 ELSE 0]]
      /\ fNoMore = [a \in Alts |-> FALSE]
      /\ \A u \in Threads : pc[u] = "end"
  BY ThreadsAssumption DEF Init, Procs
<1>2. ASSUME NEW a \in Alts PROVE OnceOf(a)
  <2>1. Over(a) = {} /\ Playing(a) = {} /\ Cardinality(Over(a)) = 0
    BY <1>1, FS_EmptySet DEF Playing, Held, Over, TrialPlaces
  <2>2. nGamesDone[a] \in Nat /\ Drawn(a) = nGamesDone[a]
    BY <1>1, <2>1, CountsAssumption DEF Drawn
  <2> QED BY <1>1, <2>1, <2>2 DEF OnceOf
<1> QED BY <1>1, <1>2 DEF Once, Nothing

\* The trials of an alternative have different numbers, and so different dice,
\* when nothing stops it: a number is given back only if it is too large, and
\* then no smaller one is left to be drawn.  Of a rollout that was interrupted
\* numbers are lost; it is not extended here.
THEOREM NoTrialIsTwice ==
  ASSUME StopsOn = {"none"}, MaxRollouts <= 1 \/ ~Interrupts
  PROVE  Spec => []NoTrialTwice
<1>1. Control /\ Counters /\ Settled /\ Nothing /\ Once /\ [Next]_vars => (Settled /\ Nothing /\ Once)'
  BY SettledIsKept, NothingStops, OnceIsKept
<1>2. Init => Settled /\ Nothing /\ Once
  BY InitialGames, InitialOnce
<1>3. Once => NoTrialTwice
  BY DEF Once, OnceOf, NoTrialTwice
<1> QED BY <1>1, <1>2, <1>3, ControlHolds, CountersHold, PTL DEF Spec

-----------------------------------------------------------------------------
(* All games are played. *)

\* The threads that are going to draw a number of an alternative before they ask
\* for the next trial.
Sooner(a) == {t \in Threads : \/ pc[t] = "take" /\ alt[t] = a
                              \/ pc[t] \in TrialPlaces \cup {"take"} /\ alt[t] < a}

\* Each increase of ro_NextTrial draws a number of each alternative.
ReachedOf(a) ==
    \/ Drawn(a) + Cardinality(Sooner(a)) >= ro_NextTrial
    \/ Drawn(a) + Cardinality(Sooner(a)) >= cGames

\* Threads end when there is no trial left.
Ends ==
    rollouts > 0 /\ pc[Main] \in {"idle", "wait"} /\ AtEnd # {} => ro_NextTrial >= cGames

Reached ==
    /\ pc[Main] = "start" => active[Main] > 0
    /\ ~fInterrupt => Ends /\ \A a \in Alts : ReachedOf(a)

\* These threads are finite in number.
LEMMA SoonerSizes ==
  ASSUME NEW a
  PROVE  /\ IsFiniteSet(Sooner(a)) /\ Cardinality(Sooner(a)) \in Nat
         /\ IsFiniteSet(Sooner(a)') /\ Cardinality(Sooner(a)') \in Nat
<1>1. Sooner(a) \in SUBSET Threads /\ Sooner(a)' \in SUBSET Threads
  BY DEF Sooner
<1> QED BY <1>1, ThreadsAssumption, FS_Subset, FS_CardinalityType

\* The threads are started when nothing stops alternatives.
LEMMA Starts ==
  ASSUME StopsOn = {"none"}, Control, Nothing, [Next]_vars,
         pc[Main] = "start" => active[Main] > 0
  PROVE  pc'[Main] = "start" => active'[Main] > 0
<1>1. ControlTypes /\ Main \in Procs /\ Main \notin Threads /\ Threads \subseteq Procs
  BY ThreadsAssumption DEF Control, Procs
<1>2. /\ nAlternatives \in Nat \ {0} /\ Cardinality(Stopped) = 0 /\ active[Main] \in Nat
      /\ active \in [Procs -> 0..(2 * nAlternatives)]
  <2>1. Stopped = {}
    BY DEF Nothing, Stopped
  <2> QED BY <1>1, <2>1, Alternatives, FS_EmptySet DEF ControlTypes
<1>3. CASE \E n \in TrialsAsked, condition \in StopsOn : RolloutGeneral(n, condition)
  BY <1>1, <1>2, <1>3 DEF RolloutGeneral
<1>4. CASE Check(Main)
  <2>1. SUFFICES ASSUME pc'[Main] = "start" PROVE active'[Main] > 0
    OBVIOUS
  <2>2. CASE Decide(Main)
    <3>1. pc[Main] = "decide" /\ UNCHANGED active
      BY <2>2 DEF Decide, Go, locals
    <3>2. active[Main] >= nAlternatives - Cardinality(Stopped)
      BY <1>1, <3>1 DEF Control, Checks, ActiveOf
    <3> QED BY <1>2, <3>1, <3>2
  <2>3. CASE EnterCheck(Main)
    <3>1. pc'[Main] = (IF stopOn = "jsd" /\ fCubeRollout THEN "jsdcube" ELSE stopOn)
      BY <1>1, <2>3, Moves DEF EnterCheck
    <3> QED BY <1>1, <2>1, <3>1 DEF ControlTypes
  <2>4. CASE JsdMove(Main) \/ StdAlternative(Main)
    BY <2>1, <2>4 DEF JsdMove, StdAlternative
  <2>5. CASE \/ JsdMovesDone(Main) \/ JsdCube(Main) \/ JsdCubeStops(Main) \/ StdDone(Main)
             \/ StdCubeResumes(Main, "std2", "std3", 2) \/ StdCubeResumes(Main, "std3", "decide", 1)
             \/ CheckNothing(Main)
    BY <1>1, <2>1, <2>5, Moves DEF JsdMovesDone, JsdCube, JsdCubeStops, StdDone, StdCubeResumes,
                                   CheckNothing
  <2> QED BY <1>4, <2>2, <2>3, <2>4, <2>5 DEF Check
<1>5. CASE StartThreads \/ Finish
  <2>1. pc'[Main] # "start"
    BY <1>1, <1>5, StartHolders, Moves DEF Finish
  <2> QED BY <2>1
<1>6. CASE Interrupt \/ Ended \/ UNCHANGED vars
  BY <1>6 DEF Interrupt, Ended, vars, locals
<1>7. CASE \E t \in Threads : ThreadStep(t)
  <2> PICK t \in Threads : ThreadStep(t)
    BY <1>7
  <2>1. pc[t] # "end" /\ pc'[Main] = pc[Main]
    <3>1. CASE \/ NextTrial(t) \/ TakeTrial(t) \/ TestAlternative(t) \/ GiveBack(t)
               \/ PlayTrial(t) \/ AddResult(t) \/ Looped(t)
      BY <1>1, <3>1, Moves DEF NextTrial, TakeTrial, TestAlternative, GiveBack, PlayTrial,
                               AddResult, Looped, NextAlternative
    <3>2. CASE Check(t)
      BY <1>1, <3>2, CheckEffects DEF CheckPlaces
    <3> QED BY <1>7, <3>1, <3>2 DEF ThreadStep
  <2> QED BY <2>1, Waiting
<1> QED BY <1>3, <1>4, <1>5, <1>6, <1>7 DEF Next, MainStep

\* No thread leaves its loop early when nothing stops alternatives.
LEMMA LastEnds ==
  ASSUME StopsOn = {"none"}, Control, Nothing, [Next]_vars, ~fInterrupt,
         NEW t \in Threads, pc[t] \in {"looped", "enter"} \cup CheckPlaces
  PROVE  pc'[t] # "end"
<1> SUFFICES ASSUME pc'[t] = "end" PROVE FALSE
  OBVIOUS
<1>1. ControlTypes /\ t \in Procs /\ t # Main /\ stopOn = "none"
  BY ThreadsAssumption DEF Control, ControlTypes, Procs
<1>2. ThreadStep(t)
  BY OwnSteps DEF CheckPlaces
<1>3. CASE pc[t] = "decide"
  <2>1. Stopped = {}
    BY DEF Nothing, Stopped
  <2>2. Cardinality({a \in Alts : ~fNoMore[a]}) = nAlternatives /\ nAlternatives \in Nat \ {0}
    BY <1>1, <2>1, Running, Alternatives, FS_EmptySet DEF ControlTypes
  <2> QED BY <1>1, <1>3, <2>2, EarlyEnd
<1>4. CASE pc[t] # "decide"
  <2>1. ~(\/ NextTrial(t) \/ TakeTrial(t) \/ TestAlternative(t) \/ GiveBack(t) \/ PlayTrial(t)
          \/ AddResult(t) \/ Looped(t))
    BY <1>1, Moves DEF NextTrial, TakeTrial, TestAlternative, GiveBack, PlayTrial, AddResult,
                       Looped, NextAlternative, CheckPlaces
  <2>2. ~EnterCheck(t)
    BY <1>1, Moves DEF EnterCheck
  <2>3. ~(JsdMove(t) \/ StdAlternative(t))
    BY DEF JsdMove, StdAlternative
  <2>4. ~(\/ JsdMovesDone(t) \/ JsdCube(t) \/ JsdCubeStops(t) \/ StdDone(t)
          \/ StdCubeResumes(t, "std2", "std3", 2) \/ StdCubeResumes(t, "std3", "decide", 1)
          \/ CheckNothing(t) \/ Decide(t))
    BY <1>1, <1>4, Moves DEF JsdMovesDone, JsdCube, JsdCubeStops, StdDone, StdCubeResumes,
                             CheckNothing, Decide
  <2> QED BY <1>2, <2>1, <2>2, <2>3, <2>4 DEF ThreadStep, Check
<1> QED BY <1>3, <1>4

\* Taking a number leaves the sum of those drawn and those to be drawn as it is,
\* unless it is too large.
LEMMA ReachedTakes ==
  ASSUME Control, Counters, Once, Ends /\ \A a \in Alts : ReachedOf(a),
         NEW t \in Threads, TakeTrial(t)
  PROVE  (Ends /\ \A a \in Alts : ReachedOf(a))'
<1> PICK a : alt[t] = a
  OBVIOUS
<1>1. /\ UNCHANGED <<cGames, rollouts, ro_NextTrial, alt>> /\ Alts' = Alts /\ a \in Alts
      /\ cGames \in Nat /\ pc[t] = "take" /\ pc'[t] = "test"
      /\ \A u \in Procs \ {t} : pc'[u] = pc[u]
      /\ \A b \in Alts \ {a} : Drawn(b)' = Drawn(b)
      /\ altTrialCount[a] > cGames => Over(a)' = Over(a) \cup {t} /\ Drawn(a)' = Drawn(a)
      /\ altTrialCount[a] <= cGames => Drawn(a)' = Drawn(a) + 1
      /\ altTrialCount[a] \in Nat
  BY TakenOf
<1>2. /\ t # Main /\ Main \in Procs /\ Threads \subseteq Procs /\ ro_NextTrial \in Nat
      /\ \A b \in Alts : b \in Nat /\ altTrialCount[b] \in Nat /\ Cardinality(Over(b)) \in Nat
  <2>1. \A b \in Alts : b \in Nat
    BY Alternatives DEF Control, ControlTypes
  <2>2. ro_NextTrial \in Nat /\ \A b \in Alts : altTrialCount[b] \in Nat
    BY DEF Counters, CounterTypes
  <2> QED BY <2>1, <2>2, ThreadsAssumption, Sizes DEF Procs
<1>3. \A u \in Threads \ {t} : pc'[u] = pc[u]
  BY <1>1, <1>2
<1>4. Ends'
  <2>1. AtEnd' = AtEnd /\ pc'[Main] = pc[Main]
    BY <1>1, <1>2, <1>3 DEF AtEnd
  <2> QED BY <1>1, <2>1 DEF Ends
<1>5. ReachedOf(a)'
  <2>1. Sooner(a)' = Sooner(a) \ {t} /\ t \in Sooner(a)
    BY <1>1, <1>2, <1>3 DEF Sooner, TrialPlaces
  <2>2. Cardinality(Sooner(a)') = Cardinality(Sooner(a)) - 1
    BY <2>1, SoonerSizes, FS_RemoveElement
  <2>3. Drawn(a) \in Int
    BY <1>1, <1>2 DEF Drawn
  <2>4. CASE altTrialCount[a] > cGames
    <3>1. Once'
      BY OnceTakes
    <3>2. Over(a)' # {} /\ OnceOf(a)'
      BY <1>1, <2>4, <3>1 DEF Once
    <3>3. Drawn(a)' >= cGames + 1
      BY <1>1, <3>2 DEF OnceOf
    <3> QED BY <1>1, <2>3, <2>4, <3>3, SoonerSizes DEF ReachedOf
  <2>5. CASE altTrialCount[a] <= cGames
    BY <1>1, <1>2, <2>2, <2>3, <2>5, SoonerSizes DEF ReachedOf
  <2> QED BY <1>1, <2>4, <2>5
<1>6. ASSUME NEW b \in Alts \ {a} PROVE ReachedOf(b)'
  <2>1. Sooner(b)' = Sooner(b)
    BY <1>1, <1>2, <1>3, <1>6 DEF Sooner, TrialPlaces
  <2> QED BY <1>1, <2>1 DEF ReachedOf
<1> QED BY <1>1, <1>4, <1>5, <1>6

\* A thread that releases a number of an alternative is next to draw one of
\* another, as it was.
LEMMA ReachedReleases ==
  ASSUME Control, Counters, Once, Ends /\ \A a \in Alts : ReachedOf(a), ~fInterrupt,
         NEW t \in Threads, NEW a, Releases(t, a)
  PROVE  (Ends /\ \A b \in Alts : ReachedOf(b))'
<1>1. /\ Alts' = Alts /\ a \in Alts /\ cGames \in Nat
      /\ trial[t] <= cGames => Drawn(a)' = IF pc[t] = "giveback" THEN Drawn(a) - 1 ELSE Drawn(a)
      /\ trial[t] > cGames => Drawn(a)' = Drawn(a)
      /\ \A b \in Alts \ {a} : Drawn(b)' = Drawn(b)
  BY ReleasedOf
<1>2. /\ UNCHANGED <<cGames, rollouts, ro_NextTrial>> /\ trial[t] \in Nat
      /\ alt[t] = a /\ pc[t] \in {"giveback", "apply"}
      /\ \A u \in Procs \ {t} : pc'[u] = pc[u] /\ alt'[u] = alt[u]
      /\ \/ a < nAlternatives /\ pc'[t] = "take" /\ alt'[t] = a + 1
         \/ ~(a < nAlternatives) /\ pc'[t] = "looped" /\ alt'[t] = a
  BY DEF Releases
<1>3. /\ t # Main /\ Main \in Procs /\ Threads \subseteq Procs /\ nAlternatives \in Nat
      /\ \A b \in Alts : b \in Nat /\ b <= nAlternatives
  BY ThreadsAssumption, Alternatives, SMTT(30) DEF Procs, Control, ControlTypes
<1>4. \A u \in Threads \ {t} : pc'[u] = pc[u] /\ alt'[u] = alt[u]
  BY <1>2, <1>3
<1>5. Ends'
  <2>1. AtEnd' = AtEnd /\ pc'[Main] = pc[Main]
    BY <1>2, <1>3, <1>4 DEF AtEnd
  <2> QED BY <1>2, <2>1 DEF Ends
<1>6. ASSUME NEW b \in Alts PROVE ReachedOf(b)'
  <2>1. t \in Sooner(b) <=> a < b
    BY <1>2 DEF Sooner, TrialPlaces
  <2>2. t \in Sooner(b)' <=> a < b
    BY <1>1, <1>2, <1>3 DEF Sooner, TrialPlaces
  <2>3. Sooner(b)' = Sooner(b)
    <3>1. \A u \in Threads \ {t} : u \in Sooner(b)' <=> u \in Sooner(b)
      BY <1>4 DEF Sooner
    <3>2. Sooner(b)' \in SUBSET Threads /\ Sooner(b) \in SUBSET Threads
      BY DEF Sooner
    <3> QED BY <2>1, <2>2, <3>1, <3>2
  <2>4. Drawn(b)' = Drawn(b)
    <3>1. pc[t] = "giveback" => trial[t] > cGames
      BY DEF Once
    <3> QED BY <1>1, <1>2, <3>1
  <2> QED BY <1>2, <2>3, <2>4 DEF ReachedOf
<1> QED BY <1>1, <1>5, <1>6

\* A thread that asks for the next trial is going to draw a number of each
\* alternative, or ends for lack of trials.
LEMMA ReachedQuiet ==
  ASSUME StopsOn = {"none"}, Control, Counters, Nothing, [Next]_vars, ~fInterrupt,
         Ends /\ \A a \in Alts : ReachedOf(a), Quiet, Drawing
  PROVE  (Ends /\ \A a \in Alts : ReachedOf(a))'
<1>1. /\ UNCHANGED <<cGames, rollouts>> /\ cGames \in Nat /\ ro_NextTrial \in Nat
      /\ Alts' = Alts /\ \A a : Drawn(a)' = Drawn(a)
      /\ \A a \in Alts : a \in Nat \ {0} /\ altTrialCount[a] \in Nat /\ Cardinality(Over(a)) \in Nat
  <2>1. UNCHANGED <<cGames, rollouts>> /\ Alts' = Alts /\ \A a : Drawn(a)' = Drawn(a)
    BY QuietHolders DEF Quiet
  <2>2. \A a \in Alts : a \in Nat \ {0}
    BY Alternatives DEF Control, ControlTypes
  <2>3. cGames \in Nat /\ ro_NextTrial \in Nat /\ \A a \in Alts : altTrialCount[a] \in Nat
    BY CountsAssumption DEF Counters, CounterTypes
  <2> QED BY <2>1, <2>2, <2>3, Sizes
<1>2. ro_NextTrial' \in {ro_NextTrial, ro_NextTrial + 1}
  BY DEF Drawing
<1>3. Ends'
  <2>1. SUFFICES ASSUME rollouts > 0, pc'[Main] \in {"idle", "wait"}, NEW u \in AtEnd'
                 PROVE  ro_NextTrial' >= cGames
    BY <1>1 DEF Ends
  <2>2. u \in Threads /\ pc'[u] = "end" /\ QuietMove(u)
    BY <2>1 DEF AtEnd, Quiet
  <2>3. CASE pc[u] = "end"
    <3>1. pc[Main] \in {"idle", "wait"} /\ AtEnd # {}
      BY <2>1, <2>2, <2>3 DEF Quiet, AtEnd
    <3> QED BY <1>1, <1>2, <2>1, <3>1 DEF Ends
  <2>4. CASE pc[u] # "end"
    <3>1. pc[u] \notin {"looped", "enter"} \cup CheckPlaces
      BY <2>2, LastEnds
    <3>2. ~(ro_NextTrial < cGames)
      BY <2>2, <2>4, <3>1 DEF QuietMove
    <3> QED BY <1>1, <1>2, <3>2
  <2> QED BY <2>3, <2>4
<1>4. ASSUME NEW a \in Alts PROVE ReachedOf(a)'
  <2>1. Drawn(a) \in Int
    BY <1>1 DEF Drawn
  <2>2. CASE UNCHANGED ro_NextTrial /\ \A u \in Threads : pc[u] # "next" \/ pc'[u] = "next"
    <3>1. Sooner(a)' = Sooner(a)
      BY <2>2 DEF Quiet, QuietMove, Sooner, TrialPlaces, CheckPlaces
    <3> QED BY <1>1, <2>2, <3>1 DEF ReachedOf
  <2>3. ASSUME ro_NextTrial' = ro_NextTrial + 1, NEW t \in Threads, pc[t] = "next", pc'[t] # "next",
               \A u \in Threads \ {t} : pc'[u] = pc[u] /\ alt'[u] = alt[u]
        PROVE  ReachedOf(a)'
    <3>1. \/ ro_NextTrial < cGames /\ pc'[t] = "take" /\ alt'[t] = 1
          \/ ~(ro_NextTrial < cGames) /\ pc'[t] = "end"
      BY <2>3 DEF Quiet, QuietMove, CheckPlaces
    <3>2. CASE pc'[t] = "take" /\ alt'[t] = 1
      <4>1. Sooner(a)' = Sooner(a) \cup {t} /\ t \notin Sooner(a)
        BY <1>1, <2>3, <3>2 DEF Sooner, TrialPlaces
      <4>2. Cardinality(Sooner(a)') = Cardinality(Sooner(a)) + 1
        BY <4>1, SoonerSizes, FS_AddElement
      <4> QED BY <1>1, <2>1, <2>3, <4>2, SoonerSizes DEF ReachedOf
    <3>3. CASE ~(ro_NextTrial < cGames) /\ pc'[t] = "end"
      <4>1. Sooner(a)' = Sooner(a)
        BY <2>3, <3>3 DEF Sooner, TrialPlaces
      <4> QED BY <1>1, <2>1, <2>3, <3>3, <4>1, SoonerSizes DEF ReachedOf
    <3> QED BY <3>1, <3>2, <3>3
  <2> QED BY <2>2, <2>3 DEF Drawing
<1> QED BY <1>1, <1>3, <1>4

\* Every step keeps it.
LEMMA ReachedIsKept ==
  ASSUME StopsOn = {"none"}, Control, Counters, Nothing, Once, Reached, [Next]_vars
  PROVE  Reached'
<1>1. pc'[Main] = "start" => active'[Main] > 0
  BY Starts DEF Reached
<1>2. CASE \E n \in TrialsAsked, condition \in StopsOn : RolloutGeneral(n, condition)
  <2> PICK n \in TrialsAsked, condition \in StopsOn : RolloutGeneral(n, condition)
    BY <1>2
  <2>1. /\ altTrialCount' = nGamesDone /\ Alts' = Alts /\ \A a : Over(a)' = {}
        /\ pc'[Main] \in {"start", "enter"} /\ \A u \in Threads : pc'[u] = "end"
    BY CommandHolders
  <2>2. ro_NextTrial' = Min({n} \cup {nGamesDone[a] : a \in Alts})
    BY DEF RolloutGeneral
  <2>3. {n} \cup {nGamesDone[a] : a \in Alts} \in SUBSET Nat
    BY CountsAssumption DEF Counters, CounterTypes
  <2>4. Ends'
    BY <2>1 DEF Ends
  <2>5. ASSUME NEW a \in Alts PROVE ReachedOf(a)'
    <3>1. Sooner(a)' = {}
      BY <2>1 DEF Sooner, TrialPlaces
    <3>2. Cardinality(Sooner(a)') = 0 /\ Cardinality(Over(a)') = 0
      BY <2>1, <3>1, FS_EmptySet
    <3>3. ro_NextTrial' \in Nat /\ ro_NextTrial' <= nGamesDone[a] /\ nGamesDone[a] \in Nat
      BY <2>2, <2>3, Least
    <3> QED BY <2>1, <3>2, <3>3 DEF ReachedOf, Drawn
  <2> QED BY <1>1, <2>1, <2>4, <2>5 DEF Reached
<1>3. CASE ~ \E n \in TrialsAsked, condition \in StopsOn : RolloutGeneral(n, condition)
  <2>1. SUFFICES ASSUME ~fInterrupt' PROVE (Ends /\ \A a \in Alts : ReachedOf(a))'
    BY <1>1 DEF Reached
  <2>2. CASE \E t \in Threads : TakeTrial(t)
    <3>1. ~fInterrupt
      BY <2>1, <2>2 DEF TakeTrial, run
    <3> QED BY <2>2, <3>1, ReachedTakes DEF Reached
  <2>3. CASE \E t \in Threads : GiveBack(t) \/ AddResult(t) \/ (PlayTrial(t) /\ fInterrupt)
    <3> PICK t \in Threads : GiveBack(t) \/ AddResult(t) \/ (PlayTrial(t) /\ fInterrupt)
      BY <2>3
    <3> PICK a : alt[t] = a
      OBVIOUS
    <3>1. Releases(t, a)
      BY ReleaseSteps
    <3>2. ~fInterrupt
      BY <2>1, <3>1 DEF Releases
    <3> QED BY <3>1, <3>2, ReachedReleases DEF Reached
  <2>4. CASE StartThreads
    <3>1. /\ UNCHANGED <<cGames, fInterrupt, ro_NextTrial>> /\ Alts' = Alts
          /\ \A a : Drawn(a)' = Drawn(a)
          /\ \A u \in Threads : pc[u] = "end"
      BY <2>4, StartHolders
    <3>2. pc'[Main] = "wait" /\ \A u \in Threads : pc'[u] = "next"
      <4>1. active[Main] > 0 /\ stopOn # "jsd"
        BY <2>4 DEF Reached, StartThreads, Control, ControlTypes
      <4> QED BY <2>4, <4>1, ThreadsAssumption DEF StartThreads, Procs
    <3>3. AtEnd' = {} /\ \A a : Sooner(a)' = {} /\ Sooner(a) = {}
      BY <3>1, <3>2 DEF AtEnd, Sooner, TrialPlaces
    <3>4. \A a : Sooner(a)' = Sooner(a)
      BY <3>3
    <3> QED BY <2>1, <3>1, <3>3, <3>4 DEF Reached, Ends, ReachedOf
  <2>5. CASE Quiet /\ Drawing
    <3>1. ~fInterrupt
      BY <2>1, <2>5 DEF Quiet
    <3> QED BY <2>5, <3>1, ReachedQuiet DEF Reached
  <2> QED BY <1>3, <2>2, <2>3, <2>4, <2>5, StepKinds
<1> QED BY <1>2, <1>3

\* At first no number is asked for.
LEMMA InitialReached == Init => Reached
<1> SUFFICES ASSUME Init PROVE Reached
  OBVIOUS
<1>1. /\ nGamesDone \in [Alts -> Prior] /\ altTrialCount = nGamesDone /\ ro_NextTrial = 0
      /\ rollouts = 0 /\ pc[Main] = "idle" /\ \A u \in Threads : pc[u] = "end"
  BY ThreadsAssumption DEF Init, Procs
<1>2. ASSUME NEW a \in Alts PROVE ReachedOf(a)
  <2>1. Sooner(a) = {} /\ Over(a) = {}
    BY <1>1 DEF Sooner, Over, Held, TrialPlaces
  <2>2. Cardinality(Sooner(a)) = 0 /\ Cardinality(Over(a)) = 0
    BY <2>1, FS_EmptySet
  <2> QED BY <1>1, <2>2, CountsAssumption DEF ReachedOf, Drawn
<1> QED BY <1>1, <1>2 DEF Reached, Ends

\* A rollout that stops nothing and is not interrupted gives each alternative the
\* games it was asked for: with a thread that ends there is no trial left, and
\* those that were asked for are drawn.
LEMMA AllPlayed ==
  ASSUME Control, Counters, Reached
  PROVE  AllTrialsPlayed
<1> SUFFICES ASSUME AtRest, ~fInterrupt, NEW a \in Alts
             PROVE  altGameCount[a] >= cGames
  BY DEF AllTrialsPlayed
<1>1. pc[Main] = "idle" /\ rollouts > 0 /\ \A t \in Threads : pc[t] = "end"
  BY DEF AtRest, Control, Roles
<1>2. AtEnd # {} /\ Sooner(a) = {} /\ Held(a) = {} /\ Over(a) = {}
  BY <1>1, ThreadsAssumption DEF AtEnd, Sooner, Held, Over, TrialPlaces
<1>3. Cardinality(Sooner(a)) = 0 /\ Cardinality(Held(a)) = 0 /\ Cardinality(Over(a)) = 0
  BY <1>2, FS_EmptySet
<1>4. ro_NextTrial >= cGames /\ ReachedOf(a)
  BY <1>1, <1>2 DEF Reached, Ends
<1>5. /\ altTrialCount[a] \in Nat /\ altGameCount[a] \in Nat /\ ro_NextTrial \in Nat /\ cGames \in Nat
      /\ altTrialCount[a] = altGameCount[a] + Cardinality(Held(a))
  BY CountsAssumption DEF Counters, CounterTypes, AccountOf
<1> QED BY <1>3, <1>4, <1>5 DEF ReachedOf, Drawn

\* Numbers that are too large are given back, so that an alternative gets no more
\* than one game more than was asked for.
LEMMA NoMore ==
  ASSUME Control, Counters, Limited
  PROVE  AtMostOneMore
<1> SUFFICES ASSUME rollouts > 0, NEW a \in Alts
             PROVE  altGameCount[a] <= Limit(cGames)
  BY DEF AtMostOneMore, Limit
<1>1. /\ altTrialCount[a] \in Nat /\ altGameCount[a] \in Nat /\ cGames \in Nat
      /\ altTrialCount[a] >= altGameCount[a] + Cardinality(Held(a))
  BY CountsAssumption DEF Counters, CounterTypes, AccountOf
<1>2. /\ Cardinality(Over(a)) <= Cardinality(Held(a))
      /\ Cardinality(Over(a)) \in Nat /\ Cardinality(Held(a)) \in Nat
  BY Sizes
<1>3. Drawn(a) <= Limit(cGames) /\ Limit(cGames) \in Nat
  BY <1>1, Limits DEF Limited
<1> QED BY <1>1, <1>2, <1>3 DEF Drawn

\* With any condition to stop, an alternative gets one game at most more than it
\* was asked for, or than it had before.
THEOREM OneMoreAtMost ==
  ASSUME MaxRollouts <= 1
  PROVE  Spec => []AtMostOneMore
<1>1. Control /\ Counters /\ Settled /\ Limited /\ [Next]_vars => (Settled /\ Limited)'
  BY SettledIsKept, LimitedIsKept
<1>2. Control /\ Counters /\ Limited => AtMostOneMore
  BY NoMore
<1> QED BY <1>1, <1>2, InitialGames, ControlHolds, CountersHold, PTL DEF Spec

\* With no condition to stop, whatever the threads do, each alternative gets the
\* games it was asked for, and at most one more.
THEOREM GamesAreAsAsked ==
  ASSUME StopsOn = {"none"}, MaxRollouts <= 1
  PROVE  Spec => []GamesAsAsked
<1>1. /\ Control /\ Counters /\ Settled /\ Nothing /\ Once /\ Reached /\ [Next]_vars
      => (Settled /\ Nothing /\ Once /\ Reached)'
  BY SettledIsKept, NothingStops, OnceIsKept, ReachedIsKept
<1>2. Init => Settled /\ Nothing /\ Once /\ Reached
  BY InitialGames, InitialOnce, InitialReached
<1>3. Control /\ Counters /\ Reached => AllTrialsPlayed
  BY AllPlayed
<1>4. AllTrialsPlayed /\ AtMostOneMore => GamesAsAsked
  BY DEF GamesAsAsked
<1> QED BY <1>1, <1>2, <1>3, <1>4, OneMoreAtMost, ControlHolds, CountersHold, PTL DEF Spec
=============================================================================
