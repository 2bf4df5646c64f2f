------------------------------ MODULE Rollout ------------------------------
(***************************************************************************)
(* Rollouts: RolloutGeneral, RolloutLoopMT, check_jsds and check_sds of    *)
(* rollout.c.                                                              *)
(*                                                                         *)
(* A rollout plays numbered trials (games) of several alternatives: the    *)
(* moves of a position, or the two sides of a cube decision.  Each thread  *)
(* runs the same loop.  It draws trial numbers from shared counters with   *)
(* atomic operations, reads fNoMore without a lock, and holds multiLock    *)
(* while it adds a result or checks whether alternatives can be stopped.   *)
(*                                                                         *)
(* The number of a trial seeds its dice, so it stands for the game.  What  *)
(* the statistics say of an alternative is left open: any ranking and any  *)
(* outcome of a comparison with a limit.                                   *)
(***************************************************************************)
EXTENDS Integers, FiniteSetsExt

CONSTANTS Threads,       \* MT_GetNumThreads() of them
          Main,          \* the main thread
          nMoves,        \* alternatives, when moves are rolled out
          CubeRollouts,  \* values of fCubeRollout: subset of BOOLEAN
          StopsOn,       \* values of the condition to stop: "jsd" (rcRollout.fStopOnJsd),
                         \* "std" (fStopOnSTD) or "none"
          MinGames,      \* rcRollout.nMinimumJsdGames or nMinimumGames
          TrialsAsked,   \* values of rcRollout.nTrials
          Prior,         \* values of nGamesDone from earlier, finished rollouts
          MaxRollouts,   \* bound: commands that roll out the same alternatives
          Interrupts     \* the user may interrupt

ASSUME StopAssumption == StopsOn \subseteq {"none", "jsd", "std"}
\* With one alternative fStopOnJsd is cleared; a cube decision has two.
ASSUME AlternativesAssumption == /\ nMoves \in Nat \ {0}
                                 /\ "jsd" \in StopsOn => nMoves > 1
                                 /\ CubeRollouts \subseteq BOOLEAN
\* MT_CreateThreads creates a thread at least; the numbers of games are unsigned.
ASSUME ThreadsAssumption == IsFiniteSet(Threads) /\ Threads # {} /\ Main \notin Threads
ASSUME CountsAssumption == /\ TrialsAsked \cup Prior \subseteq Nat /\ TrialsAsked # {}
                           /\ \E m \in TrialsAsked \cup Prior :
                                \A n \in TrialsAsked \cup Prior : n <= m
                           /\ MinGames \in Nat /\ MaxRollouts \in Nat

VARIABLES
    fCubeRollout,                  \* the alternatives share one evalsetup, and so one prc
    cGames, stopOn,                \* of rcRollout, when the command was given
    ro_NextTrial,
    altTrialCount, altGameCount,   \* per alternative
    fNoMore,
    nGamesDone,                    \* of the rolloutcontext of an alternative
    multiLock,                     \* its holder, or Free
    fInterrupt,
    rollouts,                      \* commands so far
    pc, alt, trial,                \* per thread: its place in the loop and locals
    active,                        \* active_alternatives
    rank, i,                       \* ajiJSD sorted, and the index into it
    counted                        \* history: games of a trial in an alternative's results

counts == <<altTrialCount, altGameCount, nGamesDone, counted>>
run == <<fCubeRollout, cGames, stopOn, fInterrupt, rollouts>>
locals == <<alt, trial, active, rank, i>>
vars == <<run, ro_NextTrial, counts, fNoMore, multiLock, pc, locals>>

Free == "free"
ASSUME FreeAssumption == Free \notin Threads \cup {Main}
nAlternatives == IF fCubeRollout THEN 2 ELSE nMoves
Alts == 1..nAlternatives
Procs == Threads \cup {Main}
MaxTrials == Max(TrialsAsked \cup Prior) + Cardinality(Threads)
Rankings == {r \in [Alts -> Alts] : \A a, b \in Alts : r[a] = r[b] => a = b}
InOrder == [a \in Alts |-> a]

\* The two sides of a cube decision share a context.
Context(a) == IF fCubeRollout THEN 1 ELSE a

Go(t, from, to) == pc[t] = from /\ pc' = [pc EXCEPT ![t] = to]

\* Earlier rollouts, each finished, left Prior games per context.
Init == /\ fCubeRollout \in CubeRollouts
        /\ cGames = 0 /\ stopOn \in StopsOn /\ ro_NextTrial = 0 /\ rollouts = 0
        /\ nGamesDone \in [Alts -> Prior]
        /\ \A a \in Alts : nGamesDone[a] = nGamesDone[Context(a)]
        /\ altTrialCount = nGamesDone /\ altGameCount = nGamesDone
        /\ counted = [a \in Alts |-> [n \in 0..MaxTrials |-> IF n < nGamesDone[a] THEN 1 ELSE 0]]
        /\ fNoMore = [a \in Alts |-> FALSE]
        /\ multiLock = Free /\ fInterrupt = FALSE
        /\ pc = [t \in Procs |-> IF t = Main THEN "idle" ELSE "end"]
        /\ alt = [t \in Procs |-> 1] /\ trial = [t \in Procs |-> 0]
        /\ active = [t \in Procs |-> nAlternatives]
        /\ rank = [t \in Procs |-> InOrder] /\ i = [t \in Procs |-> 1]

-----------------------------------------------------------------------------
\* RolloutGeneral, in the main thread.

Fresh(a) == nGamesDone[a] = 0

\* An alternative is rolled out from scratch, or extended; the stopping
\* conditions are checked first only when all are extended.
RolloutGeneral(n, condition) ==
    /\ Go(Main, "idle", IF \E a \in Alts : Fresh(a) THEN "start" ELSE "enter")
    /\ rollouts < MaxRollouts /\ rollouts' = rollouts + 1
    /\ cGames' = n /\ stopOn' = condition
    /\ fInterrupt' = FALSE
    /\ ro_NextTrial' = Min({n} \cup {nGamesDone[a] : a \in Alts})
    /\ altTrialCount' = nGamesDone /\ altGameCount' = nGamesDone
    /\ counted' = [a \in Alts |-> [k \in 0..MaxTrials |-> IF Fresh(a) THEN 0 ELSE counted[a][k]]]
    /\ fNoMore' = [a \in Alts |-> FALSE]
    /\ active' = [active EXCEPT ![Main] = nAlternatives]
    /\ UNCHANGED <<fCubeRollout, nGamesDone, multiLock, alt, trial, rank, i>>

\* mt_add_tasks and MT_WaitForTasks, if there is anything to roll out.
StartThreads ==
    /\ pc[Main] = "start"
    /\ IF active[Main] > 1 \/ (stopOn # "jsd" /\ active[Main] > 0)
       THEN pc' = [t \in Procs |-> IF t = Main THEN "wait" ELSE "next"]
       ELSE pc' = [pc EXCEPT ![Main] = "idle"]
    /\ UNCHANGED <<run, ro_NextTrial, counts, fNoMore, multiLock, locals>>

\* Every task is done.
Finish ==
    /\ Go(Main, "wait", "idle")
    /\ \A t \in Threads : pc[t] = "end"
    /\ UNCHANGED <<run, ro_NextTrial, counts, fNoMore, multiLock, locals>>

\* The stop button, or ^C.
Interrupt ==
    /\ Interrupts /\ pc[Main] = "wait"
    /\ fInterrupt' = TRUE
    /\ UNCHANGED <<fCubeRollout, cGames, stopOn, rollouts, ro_NextTrial, counts, fNoMore, multiLock, pc, locals>>

-----------------------------------------------------------------------------
\* The loop of RolloutLoopMT.

\* while (MT_SafeIncValue(&ro_NextTrial) <= cGames)
NextTrial(t) ==
    /\ Go(t, "next", IF ro_NextTrial < cGames THEN "take" ELSE "end")
    /\ ro_NextTrial' = ro_NextTrial + 1
    /\ alt' = [alt EXCEPT ![t] = 1]
    /\ active' = [active EXCEPT ![t] = nAlternatives]
    /\ UNCHANGED <<run, counts, fNoMore, multiLock, trial, rank, i>>

\* Bug: the trial is numbered by the games that are over.
MutNumberedByGames(t) ==
    /\ Go(t, "take", "test")
    /\ trial' = [trial EXCEPT ![t] = altGameCount[alt[t]]]
    /\ altTrialCount' = [altTrialCount EXCEPT ![alt[t]] = @ + 1]
    /\ UNCHANGED <<run, ro_NextTrial, altGameCount, nGamesDone, counted, fNoMore, multiLock,
                   alt, active, rank, i>>

\* trial = MT_SafeIncValue(&altTrialCount[alt]) - 1
TakeTrial(t) ==
    /\ Go(t, "take", "test")
    /\ trial' = [trial EXCEPT ![t] = altTrialCount[alt[t]]]
    /\ altTrialCount' = [altTrialCount EXCEPT ![alt[t]] = @ + 1]
    /\ UNCHANGED <<run, ro_NextTrial, altGameCount, nGamesDone, counted, fNoMore, multiLock,
                   alt, active, rank, i>>

\* Bug: the number of the trial is not tested.
MutSkipsStoppedOnly(t) == fNoMore[alt[t]]

\* if (fNoMore[alt] || (trial > cGames))
Skipped(t) == fNoMore[alt[t]] \/ trial[t] > cGames

TestAlternative(t) ==
    /\ Go(t, "test", IF Skipped(t) THEN "giveback" ELSE "roll")
    /\ UNCHANGED <<run, ro_NextTrial, counts, fNoMore, multiLock, locals>>

\* The next iteration over the alternatives, or what follows the loop.
NextAlternative(t, from) ==
    /\ Go(t, from, IF alt[t] < nAlternatives THEN "take" ELSE "looped")
    /\ alt' = [alt EXCEPT ![t] = IF @ < nAlternatives THEN @ + 1 ELSE @]

\* Bug: the number that was drawn is not given back.
MutKeepsNumber(t) ==
    /\ NextAlternative(t, "giveback")
    /\ UNCHANGED <<run, ro_NextTrial, counts, fNoMore, multiLock, trial, active, rank, i>>

\* Bug: the alternative is tried again.
MutTriesAgain(t) ==
    /\ Go(t, "giveback", "take")
    /\ altTrialCount' = [altTrialCount EXCEPT ![alt[t]] = @ - 1]
    /\ UNCHANGED <<run, ro_NextTrial, altGameCount, nGamesDone, counted, fNoMore, multiLock,
                   alt, trial, active, rank, i>>

\* MT_SafeDec(&altTrialCount[alt])
GiveBack(t) ==
    /\ NextAlternative(t, "giveback")
    /\ altTrialCount' = [altTrialCount EXCEPT ![alt[t]] = @ - 1]
    /\ UNCHANGED <<run, ro_NextTrial, altGameCount, nGamesDone, counted, fNoMore, multiLock,
                   trial, active, rank, i>>

\* BasicCubefulRollout, and the test of fInterrupt: an interrupted game does
\* not count.
PlayTrial(t) ==
    /\ Go(t, "roll", IF fInterrupt THEN "end" ELSE "apply")
    /\ UNCHANGED <<run, ro_NextTrial, counts, fNoMore, multiLock, locals>>

\* Under multiLock, the game is added to the results.
AddResult(t) ==
    /\ multiLock = Free
    /\ NextAlternative(t, "apply")
    /\ altGameCount' = [altGameCount EXCEPT ![alt[t]] = @ + 1]
    /\ counted' = [counted EXCEPT ![alt[t]][trial[t]] = @ + 1]
    /\ nGamesDone' = [a \in Alts |->
           IF Context(a) = Context(alt[t]) THEN Max({nGamesDone[a], altGameCount'[alt[t]]})
           ELSE nGamesDone[a]]
    /\ UNCHANGED <<run, ro_NextTrial, altTrialCount, fNoMore, multiLock, trial, active, rank, i>>

Looped(t) ==
    /\ Go(t, "looped", IF fInterrupt THEN "end" ELSE "enter")
    /\ UNCHANGED <<run, ro_NextTrial, counts, fNoMore, multiLock, locals>>

-----------------------------------------------------------------------------
\* The stopping conditions, under multiLock (RolloutGeneral runs them before
\* there is a thread to be locked out).

EnterCheck(t) ==
    /\ Go(t, "enter", IF stopOn = "jsd" /\ fCubeRollout THEN "jsdcube" ELSE stopOn)
    /\ multiLock = Free /\ multiLock' = t
    /\ \E r \in IF stopOn = "jsd" /\ ~fCubeRollout THEN Rankings ELSE {InOrder} :
          rank' = [rank EXCEPT ![t] = r]
    /\ i' = [i EXCEPT ![t] = IF stopOn = "jsd" /\ ~fCubeRollout THEN nAlternatives ELSE 1]
    /\ UNCHANGED <<run, ro_NextTrial, counts, fNoMore, alt, trial, active>>

checked == <<run, ro_NextTrial, counts, multiLock, alt, trial, rank>>

\* Bug: the first of the list is compared with itself.
MutToTheFirst(t) ==
    LET a == rank[t][i[t]]
        enough == altGameCount[a] >= MinGames
    IN  /\ pc[t] = "jsd" /\ i[t] > 0
        /\ \/ /\ enough
              /\ fNoMore' = [fNoMore EXCEPT ![a] = FALSE]
              /\ active' = [active EXCEPT ![t] = IF fNoMore[a] THEN @ + 1 ELSE @]
           \/ ~enough /\ UNCHANGED <<fNoMore, active>>
        /\ i' = [i EXCEPT ![t] = @ - 1]
        /\ UNCHANGED <<checked, pc>>

\* check_jsds, moves: from the last of the sorted list to its second.  A move
\* that trails by more than the limit stops; another one resumes.
JsdMove(t) ==
    LET a == rank[t][i[t]]                            \* ajiJSD[alt].nOrder
        enough == altGameCount[a] >= MinGames
    IN  /\ pc[t] = "jsd" /\ i[t] > 1
        /\ \/ /\ enough                               \* rJSD > rcRollout.rJsdLimit
              /\ fNoMore' = [fNoMore EXCEPT ![a] = TRUE]
                  /\ active' = [active EXCEPT ![t] = @ - 1]
           \/ /\ enough
              /\ fNoMore' = [fNoMore EXCEPT ![a] = FALSE]
              /\ active' = [active EXCEPT ![t] = IF fNoMore[a] THEN @ + 1 ELSE @]
           \/ ~enough /\ UNCHANGED <<fNoMore, active>>
        /\ i' = [i EXCEPT ![t] = @ - 1]
        /\ UNCHANGED <<checked, pc>>

JsdMovesDone(t) ==
    /\ Go(t, "jsd", "decide") /\ i[t] = 1
    /\ UNCHANGED <<checked, fNoMore, active, i>>

\* check_jsds, cube decision: both sides stop, or none.
JsdCube(t) ==
    /\ \/ /\ Go(t, "jsdcube", "jsdcube2")
          /\ altGameCount[1] >= MinGames
          /\ fNoMore' = [fNoMore EXCEPT ![1] = TRUE]
       \/ Go(t, "jsdcube", "decide") /\ UNCHANGED fNoMore
    /\ UNCHANGED <<checked, active, i>>

JsdCubeStops(t) ==
    /\ Go(t, "jsdcube2", "decide")
    /\ fNoMore' = [fNoMore EXCEPT ![2] = TRUE]
    /\ active' = [active EXCEPT ![t] = 0]
    /\ UNCHANGED <<checked, i>>

\* Bug: the minimum number of games is not asked for.
MutStdAnytime(t) ==
    LET a == i[t] IN
    /\ pc[t] = "std" /\ a <= nAlternatives
    /\ \/ /\ ~fNoMore[a]
          /\ fNoMore' = [fNoMore EXCEPT ![a] = TRUE]
          /\ active' = [active EXCEPT ![t] = @ - 1]
       \/ UNCHANGED <<fNoMore, active>>
    /\ i' = [i EXCEPT ![t] = @ + 1]
    /\ UNCHANGED <<checked, pc>>

\* check_sds: an alternative whose standard errors are small enough stops.
StdAlternative(t) ==
    LET a == i[t] IN
    /\ pc[t] = "std" /\ a <= nAlternatives
    /\ \/ /\ ~fNoMore[a] /\ altGameCount[a] >= MinGames
          /\ fNoMore' = [fNoMore EXCEPT ![a] = TRUE]
          /\ active' = [active EXCEPT ![t] = @ - 1]
       \/ UNCHANGED <<fNoMore, active>>
    /\ i' = [i EXCEPT ![t] = @ + 1]
    /\ UNCHANGED <<checked, pc>>

\* A cube decision goes on with both sides until both may stop.
StdDone(t) ==
    /\ i[t] > nAlternatives
    /\ Go(t, "std", IF fCubeRollout /\ (\E a \in Alts : ~fNoMore[a]) THEN "std2" ELSE "decide")
    /\ UNCHANGED <<checked, fNoMore, active, i>>

\* Bug: a side that may stop is not resumed.
MutResumesNothing(t, from, to, a) ==
    /\ Go(t, from, to)
    /\ active' = [active EXCEPT ![t] = 2]
    /\ UNCHANGED <<checked, fNoMore, i>>

StdCubeResumes(t, from, to, a) ==
    /\ Go(t, from, to)
    /\ fNoMore' = [fNoMore EXCEPT ![a] = FALSE]
    /\ active' = [active EXCEPT ![t] = 2]
    /\ UNCHANGED <<checked, i>>

CheckNothing(t) ==
    /\ Go(t, "none", "decide")
    /\ UNCHANGED <<checked, fNoMore, active, i>>

\* Bug: off by one.
MutDoneWithOneLeft(t) == active[t] <= 1 \/ (stopOn = "jsd" /\ active[t] <= 2)

\* if ((active_alternatives < 2 && rcRollout.fStopOnJsd) || active_alternatives < 1)
DoneEarly(t) == active[t] < 1 \/ (stopOn = "jsd" /\ active[t] < 2)

Decide(t) ==
    /\ Go(t, "decide", IF t = Main THEN "start" ELSE IF DoneEarly(t) THEN "end" ELSE "next")
    /\ multiLock' = Free
    /\ UNCHANGED <<run, ro_NextTrial, counts, fNoMore, locals>>

Check(t) ==
    \/ EnterCheck(t)
    \/ JsdMove(t) \/ JsdMovesDone(t)
    \/ JsdCube(t) \/ JsdCubeStops(t)
    \/ StdAlternative(t) \/ StdDone(t)
    \/ StdCubeResumes(t, "std2", "std3", 2) \/ StdCubeResumes(t, "std3", "decide", 1)
    \/ CheckNothing(t)
    \/ Decide(t)

ThreadStep(t) ==
    \/ NextTrial(t) \/ TakeTrial(t) \/ TestAlternative(t) \/ GiveBack(t)
    \/ PlayTrial(t) \/ AddResult(t) \/ Looped(t)
    \/ Check(t)

MainStep == StartThreads \/ Finish \/ Check(Main)

Ended == pc[Main] = "idle" /\ rollouts = MaxRollouts /\ UNCHANGED vars

Next == \/ \E n \in TrialsAsked, condition \in StopsOn : RolloutGeneral(n, condition)
        \/ MainStep
        \/ \E t \in Threads : ThreadStep(t)
        \/ Interrupt
        \/ Ended

Spec == Init /\ [][Next]_vars

\* The scheduler runs every thread, the games end, and a thread that waits for
\* multiLock gets it in the end (GMutex does not promise it, but every thread
\* stops asking for it once the trials are used up).
FairSpec == /\ Spec /\ WF_vars(MainStep)
            /\ \A t \in Threads : WF_vars(ThreadStep(t))

-----------------------------------------------------------------------------
\* Properties

Range0 == 0..(MaxTrials + nAlternatives)
Places == {"idle", "start", "wait", "next", "take", "test", "giveback", "roll", "apply", "looped",
           "enter", "none", "jsd", "jsdcube", "jsdcube2", "std", "std2", "std3", "decide", "end"}

\* Every variable has its type; no counter leaves the range of the trials.
TypeOK ==
    /\ fCubeRollout \in CubeRollouts
    /\ cGames \in TrialsAsked \cup {0} /\ stopOn \in StopsOn /\ ro_NextTrial \in Range0
    /\ altTrialCount \in [Alts -> Range0] /\ altGameCount \in [Alts -> Range0]
    /\ nGamesDone \in [Alts -> Range0]
    /\ fNoMore \in [Alts -> BOOLEAN]
    /\ multiLock \in Procs \cup {Free} /\ fInterrupt \in BOOLEAN
    /\ rollouts \in 0..MaxRollouts
    /\ pc \in [Procs -> Places]
    /\ alt \in [Procs -> Alts] /\ trial \in [Procs -> 0..MaxTrials]
    /\ active \in [Procs -> 0..(2 * nAlternatives)]
    /\ rank \in [Procs -> Rankings] /\ i \in [Procs -> 1..(nAlternatives + 1)]
    /\ counted \in [Alts -> [0..MaxTrials -> Range0]]

AtRest == pc[Main] = "idle" /\ rollouts > 0

\* No game is counted twice: the trials of an alternative have different
\* numbers, and so different dice.
NoTrialTwice == \A a \in Alts : \A n \in 0..MaxTrials : counted[a][n] <= 1

\* A rollout that is not interrupted leaves no trial number drawn and not
\* counted, and none given back that was used: the next one goes on where
\* this one ended.
TrialsAreSettled ==
    AtRest /\ ~fInterrupt => \A a \in Alts : altTrialCount[a] = altGameCount[a]

\* An alternative that is never stopped gets all the games asked for.
AllTrialsPlayed ==
    AtRest /\ ~fInterrupt /\ (\A a \in Alts : ~fNoMore[a]) =>
        \A a \in Alts : altGameCount[a] >= cGames

\* One game too many is the most an alternative gets, with any threads.
AtMostOneMore == rollouts > 0 => \A a \in Alts : altGameCount[a] <= Max({cGames + 1} \cup Prior)

\* A rollout gives each alternative the games it was asked for, unless it stops
\* the alternative, and at most one more.
GamesAsAsked == AllTrialsPlayed /\ AtMostOneMore

\* Games of the second side of a cube decision that other threads still play
\* when the first side has its minimum, which is the one that is asked for.
BehindOf(a) == IF fCubeRollout /\ stopOn = "jsd" /\ a = 2 THEN Cardinality(Threads) - 1 ELSE 0

\* "always do at least this many": nothing is stopped before the minimum; the
\* second side of a cube decision may be short of it by one game per other
\* thread.
StopsAfterMinimum == \A a \in Alts : fNoMore[a] => altGameCount[a] >= MinGames - BehindOf(a)

\* The sides of a cube decision are stopped together, or not at all: no other
\* thread sees one of them stopped while it may add to the results.
StoppedTogether == fCubeRollout /\ multiLock = Free => fNoMore[1] = fNoMore[2]

\* A thread leaves early only when there is nothing left to decide: one
\* alternative at most is being rolled out, none when errors are the criterion.
EarlyEndIsJustified ==
    [][\A t \in Threads : pc[t] = "decide" /\ pc'[t] = "end" =>
         Cardinality({a \in Alts : ~fNoMore[a]}) <= (IF stopOn = "jsd" THEN 1 ELSE 0)]_vars

\* A rollout ends, whatever was stopped, resumed or given back.
RolloutEnds == pc[Main] # "idle" ~> pc[Main] = "idle"
=============================================================================
