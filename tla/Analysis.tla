------------------------------ MODULE Analysis ------------------------------
(***************************************************************************)
(* The analysis of a match: analysis.c.                                    *)
(*                                                                         *)
(* The main thread replays the records of a game and hands each, with a    *)
(* copy of the match state at that place, to the worker threads; a double  *)
(* and its answer are one task.  Workers evaluate outside the lock and     *)
(* write what they found into the record, and into the statistics of its   *)
(* game, inside it.  Meanwhile the user may interrupt, or quit.            *)
(*                                                                         *)
(* The threads are what ForkJoin promises of ThreadPool: a task handed     *)
(* over is run once or dropped by MT_AbortTasks, and a wait ends when none *)
(* is left.  An evaluation setup is a level, 0 is EVAL_NONE; cube and      *)
(* chequer play are analysed at the same one, and moves, cube and dice all *)
(* are.                                                                    *)
(***************************************************************************)
EXTENDS Records, SequencesExt

CONSTANTS Threads,
          Matches,         \* what lMatch may hold: games as in Match
          Levels,          \* the levels an analysis may be asked for are 1..Levels
          PlayersAsked,    \* what afAnalysePlayers may be
          Scopes,          \* of an analysis: "match", "game" or "move"
          Interrupts,      \* whether the user interrupts
          fAutoSaveAnalysis,
          gtk_main_level,  \* when the user quits
          MaxCommands      \* bound: commands given, quitting is one

\* Games as Match makes them: a resignation ends its game.
ASSUME MatchesAssumption ==
    \A match \in Matches :
        /\ match \in Seq(Games) /\ match # <<>>
        /\ \A g \in DOMAIN match : \A k \in 1..(Len(match[g].moves) - 1) :
              match[g].moves[k].mt # "MOVE_RESIGN"
ASSUME LevelsAssumption == Levels \in Nat \ {0} /\ MaxCommands \in Nat /\ gtk_main_level \in Nat
ASSUME AskedAssumption == /\ PlayersAsked \subseteq SUBSET Players
                          /\ Scopes \subseteq {"match", "game", "move"}
ASSUME SwitchAssumption == {Interrupts, fAutoSaveAnalysis} \subseteq BOOLEAN

VARIABLES
    lMatch,       \* the games; they do not change while an analysis runs
    data,         \* what the records hold of their analysis
    sc,           \* how often each record is in the statistics of its game
    main,         \* where the main thread is
    asked,        \* the command: its scope, level and players
    plGame,       \* the game being handed over, 0: none
    plLast,       \* the last of its records that was
    msAnalyse,    \* the match state after it
    pParentTask,  \* a double that waits for the record after it
    added,        \* td.addedTasks > 0
    tasks,        \* td.tasks
    result,       \* td.result
    told,         \* what the last analysis returned
    lock,         \* who is between MT_Exclusive and MT_Release
    at,           \* where each worker is
    task,         \* what it has still to analyse, the present record first
    doubleError,  \* of AnalyseMoveMT
    fInterrupt,
    quits,        \* gtk_main_quit was called
    freed,        \* FreeMatch was called
    nCommands

records == <<lMatch, data, sc>>
handing == <<plGame, plLast, msAnalyse, pParentTask>>
pool == <<added, tasks, result>>
workers == <<lock, at, task, doubleError>>
user == <<asked, told, fInterrupt, quits, freed, nCommands>>
vars == <<records, main, handing, pool, workers, user>>

Nothing == "nobody"
ASSUME ThreadsAssumption == Nothing \notin Threads
Failed == -1

\* Of *pdoubleError, and of the skill of an answer: not the level at which the
\* double was found.  0 is what AnalyseMoveMT begins with.
NotTold == -1
ERR_VAL == -2
NULL == -3
Waiting == {"info", "add", "wait"}

Moves(g) == lMatch[g].moves

\* LinkToDouble: a chain of doubles and its answer share their CubeDecPtr.
CubeDec(g, k) ==
    LET first[j \in 1..k] ==
            IF /\ j > 1 /\ Moves(g)[j].mt \in {"MOVE_DOUBLE", "MOVE_TAKE", "MOVE_DROP"}
               /\ Moves(g)[j - 1].mt = "MOVE_DOUBLE"
            THEN first[j - 1] ELSE j
    IN first[k]

esDouble(g, k) == data[g][CubeDec(g, k)].esDouble

\* A list of moves is the one that was found, or none (cMoves is 0), or lost:
\* cMoves is not 0, but amMoves is NULL.
Unanalysed == [esDouble |-> 0, esChequer |-> 0, ml |-> "none", fLuck |-> FALSE, stCube |-> NotTold]

DoubleType(m) == IF ~m.fDoubled THEN "DT_NORMAL"
                 ELSE IF m.fTurn # m.fMove THEN "DT_BEAVER" ELSE "DT_RACCOON"

\* A taketype is a doubletype under other names: TT_NORMAL is DT_BEAVER.
IsNormalTake(m) == DoubleType(m) # "DT_RACCOON"

OwnsCube(m) == m.fCubeOwner \in {Nobody, m.fMove}

\* The player on roll may double, and it makes a difference.
GetDPEq(m) ==
    IF m.nMatchTo = 0 THEN OwnsCube(m)
    ELSE LET oneAway(p) == m.anScore[p] = m.nMatchTo - 1
         IN /\ ~m.fCrawford
            /\ m.anScore[m.fMove] + m.nCube < m.nMatchTo
            /\ ~oneAway(m.fMove)
            /\ OwnsCube(m)

\* The state a record is analysed in.
AnalysedIn(m, r) ==
    LET fixed == FixMatchState(m, r)
    IN IF r.mt \in {"MOVE_NORMAL", "MOVE_RESIGN", "MOVE_SETDICE"} /\ r.fPlayer # fixed.fMove
       THEN [fixed EXCEPT !.anBoard = SwapSides(@), !.fMove = r.fPlayer]
       ELSE fixed

Apply(m, g, r) == ApplyMoveRecord([ms |-> m, info |-> lMatch[g].info], r).ms

MutAddsToTheOld(g) == sc
IniStatcontext(g) == [sc EXCEPT ![g] = [k \in DOMAIN Moves(g) |-> 0]]

\* Whether updateStatcontext counts a record, seen in state m, for the game.
Counts(m, g, k, d) ==
    LET r == Moves(g)[k]
    IN CASE r.mt = "MOVE_NORMAL"  -> TRUE
         [] r.mt = "MOVE_DOUBLE"  -> DoubleType(m) = "DT_NORMAL" /\ esDouble(g, k) # 0
         [] r.mt = "MOVE_TAKE"    -> IsNormalTake(m) /\ esDouble(g, k) # 0
         [] r.mt = "MOVE_DROP"    -> esDouble(g, k) # 0
         [] r.mt = "MOVE_SETDICE" -> d.fLuck
         [] OTHER                 -> FALSE

Init == /\ lMatch \in Matches
        /\ data = [g \in DOMAIN lMatch |-> [k \in DOMAIN Moves(g) |-> Unanalysed]]
        /\ sc = [g \in DOMAIN lMatch |-> [k \in DOMAIN Moves(g) |-> 0]]
        /\ main = "idle" /\ asked = [scope |-> "none", es |-> 0, players |-> {}]
        /\ plGame = 0 /\ plLast = 0 /\ msAnalyse = StartState(lMatch[1].info) /\ pParentTask = <<>>
        /\ added = FALSE /\ tasks = <<>> /\ result = 0 /\ told = Failed
        /\ lock = Nothing /\ at = [t \in Threads |-> "idle"] /\ task = [t \in Threads |-> <<>>]
        /\ doubleError = [t \in Threads |-> NotTold]
        /\ fInterrupt = FALSE /\ quits = FALSE /\ freed = FALSE /\ nCommands = 0

-----------------------------------------------------------------------------
(* The main thread.                                                        *)

\* MT_AddTask: the first task of a batch resets the result.
AddTask(calls) == /\ tasks' = Append(tasks, calls)
                  /\ added' = TRUE
                  /\ result' = IF added THEN result ELSE 0

\* `analyse match`, `analyse game`
Analyse(scope, g, es, players) ==
    /\ main = "idle" /\ nCommands < MaxCommands /\ scope \in {"match", "game"}
    /\ main' = "info" /\ plGame' = g
    /\ asked' = [scope |-> scope, es |-> es, players |-> players]
    /\ told' = Failed /\ nCommands' = nCommands + 1
    /\ UNCHANGED <<records, plLast, msAnalyse, pParentTask, pool, workers, fInterrupt, quits, freed>>

\* `analyse move`, of the record after the present one; no statistics.  It is
\* refused for a take.
AnalyseMove(g, k, es) ==
    /\ main = "idle" /\ nCommands < MaxCommands
    /\ Moves(g)[k].mt # "MOVE_TAKE"
    /\ main' = "wait"
    /\ asked' = [scope |-> "move", es |-> es, players |-> Players]
    /\ AddTask(<<[g |-> g, k |-> k, ms |-> CalculateBoard(lMatch[g], k - 1).ms]>>)
    /\ told' = Failed /\ nCommands' = nCommands + 1
    /\ UNCHANGED <<records, handing, workers, fInterrupt, quits, freed>>

\* AnalyzeGame begins with the MOVE_GAMEINFO.  A match goes on to the wait
\* when it is interrupted here, a game returns at once.
GameInfo ==
    /\ main = "info" /\ lock = Nothing
    /\ sc' = IniStatcontext(plGame)
    /\ plLast' = 0 /\ msAnalyse' = StartState(lMatch[plGame].info) /\ pParentTask' = <<>>
    /\ \/ ~fInterrupt /\ main' = "add" /\ UNCHANGED <<asked, fInterrupt>>
       \/ fInterrupt /\ asked.scope = "match" /\ main' = "wait"
          /\ asked' = [asked EXCEPT !.scope = "cut match"] /\ UNCHANGED fInterrupt
       \/ fInterrupt /\ asked.scope = "game" /\ main' = "idle" /\ fInterrupt' = FALSE
          /\ UNCHANGED asked
    /\ UNCHANGED <<lMatch, data, plGame, pool, workers, told, quits, freed, nCommands>>

\* A double with a record after it waits for this record, and is handed over
\* with it; a redouble in between is not analysed.  A double without is not
\* handed over.
MutStateAfter(calls, call, r) ==
    IF r.mt # "MOVE_DOUBLE"
    THEN AddTask(Append(calls, [call EXCEPT !.ms = Apply(AnalysedIn(@, r), call.g, r)])) /\ pParentTask' = <<>>
    ELSE /\ pParentTask' = IF calls = <<>> /\ call.k < Len(Moves(call.g)) THEN <<call>> ELSE calls
         /\ UNCHANGED pool
MutLinksRedoubles(calls, call, r) ==
    IF r.mt # "MOVE_DOUBLE" THEN AddTask(Append(calls, call)) /\ pParentTask' = <<>>
    ELSE pParentTask' = Append(calls, call) /\ UNCHANGED pool
MutDoubleAlone(calls, call, r) == AddTask(<<call>>) /\ UNCHANGED pParentTask
HandOver(calls, call, r) ==
    IF r.mt # "MOVE_DOUBLE" THEN AddTask(Append(calls, call)) /\ pParentTask' = <<>>
    ELSE /\ IF calls = <<>> /\ DoubleType(msAnalyse) = "DT_NORMAL" /\ call.k < Len(Moves(call.g))
            THEN pParentTask' = <<call>> ELSE UNCHANGED pParentTask
         /\ UNCHANGED pool

AddRecord ==
    /\ main = "add" /\ plLast < Len(Moves(plGame))
    /\ LET k == plLast + 1
           r == Moves(plGame)[k]
       IN /\ HandOver(pParentTask, [g |-> plGame, k |-> k, ms |-> msAnalyse], r)
          /\ plLast' = k
          /\ msAnalyse' = Apply(AnalysedIn(msAnalyse, r), plGame, r)
    /\ UNCHANGED <<records, main, plGame, workers, user>>

\* What AnalyzeGame keeps of a game ends with it.
NoGame == /\ plLast' = 0 /\ msAnalyse' = StartState(lMatch[1].info) /\ pParentTask' = <<>>

\* After its last record, on to the next game (AddStatcontext sums up into
\* scMatch, which every reader of it computes anew) or to the wait.
EndOfGame ==
    /\ main = "add" /\ plLast = Len(Moves(plGame))
    /\ IF asked.scope = "match" /\ plGame < Len(lMatch)
       THEN main' = "info" /\ plGame' = plGame + 1
       ELSE main' = "wait" /\ UNCHANGED plGame
    /\ NoGame
    /\ UNCHANGED <<records, pool, workers, user>>

AllDone == tasks = <<>> /\ \A t \in Threads : at[t] = "idle"

\* MT_WaitForTasks, and the end of the command.  A game whose analysis failed
\* has no statistics.  If the user has quit meanwhile, the program ends.
WaitEnds ==
    /\ main = "wait" /\ AllDone
    /\ told' = IF asked.scope = "cut match" THEN Failed ELSE result
    /\ sc' = IF asked.scope = "game" /\ result = Failed THEN IniStatcontext(plGame) ELSE sc
    /\ added' = FALSE /\ fInterrupt' = FALSE
    /\ main' = IF quits THEN "ended" ELSE "idle"
    /\ freed' = quits
    /\ UNCHANGED <<lMatch, data, handing, tasks, result, workers, asked, quits, nCommands>>

\* `analyse clear match`
Clear ==
    /\ main = "idle" /\ nCommands < MaxCommands /\ nCommands > 0
    /\ data' = [g \in DOMAIN lMatch |-> [k \in DOMAIN Moves(g) |-> Unanalysed]]
    /\ sc' = [g \in DOMAIN lMatch |-> [k \in DOMAIN Moves(g) |-> 0]]
    /\ told' = Failed /\ nCommands' = nCommands + 1
    /\ UNCHANGED <<lMatch, main, handing, pool, workers, asked, fInterrupt, quits, freed>>

\* HandleInterrupt
Interrupt ==
    /\ Interrupts /\ main \in Waiting /\ ~fInterrupt
    /\ fInterrupt' = TRUE
    /\ UNCHANGED <<records, main, handing, pool, workers, asked, told, quits, freed, nCommands>>

\* The timer of MT_WaitForTasks: save_autosave writes the moves of every list.
Autosave ==
    /\ fAutoSaveAnalysis /\ main = "wait"
    /\ \E g \in DOMAIN lMatch : \E k \in DOMAIN Moves(g) : data[g][k].ml = "lost"
    /\ main' = "crashed"
    /\ UNCHANGED <<records, handing, pool, workers, user>>

\* PromptForExit, from the events that the wait handles.
MutShutdownAtOnce == /\ main = "wait" /\ ~quits /\ nCommands < MaxCommands
                     /\ quits' = TRUE /\ main' = "ended" /\ freed' = TRUE
                     /\ nCommands' = nCommands + 1
                     /\ UNCHANGED <<records, handing, pool, workers, asked, told, fInterrupt>>
Quit ==
    /\ main = "wait" /\ ~quits /\ nCommands < MaxCommands
    /\ quits' = TRUE /\ nCommands' = nCommands + 1
    /\ IF gtk_main_level = 1 THEN UNCHANGED <<main, freed>>
       ELSE main' = "ended" /\ freed' = TRUE
    /\ UNCHANGED <<records, handing, pool, workers, asked, told, fInterrupt>>

-----------------------------------------------------------------------------
(* A worker in AnalyseMoveMT and AnalyzeMove.                              *)

Call(t) == Head(task[t])
Record(t) == Moves(Call(t).g)[Call(t).k]
Data(t) == data[Call(t).g][Call(t).k]

Write(t, field, value) == data' = [data EXCEPT ![Call(t).g][Call(t).k][field] = value]
WriteDouble(t, es) ==
    data' = [data EXCEPT ![Call(t).g][CubeDec(Call(t).g, Call(t).k)].esDouble = es]

Go(t, from, to) == main # "crashed" /\ at[t] = from /\ at' = [at EXCEPT ![t] = to]
MT_Exclusive(t) == lock = Nothing /\ lock' = t
MT_Release == lock' = Nothing
InLock(t) == UNCHANGED <<lMatch, main, handing, pool, lock, user>>
NoOther == UNCHANGED <<lMatch, main, handing, pool, user>>

GetTask(t) ==
    /\ Go(t, "idle", "enter") /\ tasks # <<>>
    /\ tasks' = Tail(tasks) /\ task' = [task EXCEPT ![t] = Head(tasks)]
    /\ doubleError' = [doubleError EXCEPT ![t] = IF asked.scope = "move" THEN NULL ELSE 0]
    /\ UNCHANGED <<records, main, handing, added, result, lock, user>>

Enter(t) ==
    /\ Go(t, "enter", "begin") /\ MT_Exclusive(t)
    /\ LET begun == [Call(t) EXCEPT !.ms = AnalysedIn(@, Record(t))]
       IN task' = [task EXCEPT ![t] = <<begun>> \o Tail(@)]
    /\ UNCHANGED <<data, sc, doubleError>> /\ NoOther

NotAnalysed(t) ==
    \/ Record(t).mt # "MOVE_DOUBLE" /\ Record(t).fPlayer \notin asked.players
    \/ Record(t).mt = "MOVE_DOUBLE" /\ DoubleType(Call(t).ms) # "DT_NORMAL"
    \/ Record(t).mt \in {"MOVE_TAKE", "MOVE_DROP"} /\ ~IsNormalTake(Call(t).ms)
    \/ Record(t).mt \in {"MOVE_RESIGN", "MOVE_SETBOARD", "MOVE_SETCUBEVAL", "MOVE_SETCUBEPOS"}

\* Left out, or without statistics.  (What is found of a resignation is not
\* used by anything else here.)
Skip(t) ==
    /\ Go(t, "begin", "apply") /\ NotAnalysed(t)
    /\ UNCHANGED <<data, sc, task, doubleError>> /\ InLock(t)

\* The cube before a move: its evaluation leaves the lock.
BeginMove(t) ==
    /\ at[t] = "begin" /\ Record(t).mt = "MOVE_NORMAL" /\ ~NotAnalysed(t)
    /\ \/ /\ Call(t).ms.anBoard # InitBoard /\ GetDPEq(Call(t).ms)
          /\ asked.es > esDouble(Call(t).g, Call(t).k)
          /\ Go(t, "begin", "cube") /\ MT_Release /\ UNCHANGED data
       \/ /\ Call(t).ms.anBoard # InitBoard /\ GetDPEq(Call(t).ms)
          /\ asked.es <= esDouble(Call(t).g, Call(t).k)
          /\ Go(t, "begin", "play") /\ UNCHANGED <<lock, data>>
       \/ /\ ~(Call(t).ms.anBoard # InitBoard /\ GetDPEq(Call(t).ms))
          /\ Go(t, "begin", "play") /\ WriteDouble(t, 0) /\ UNCHANGED lock
    /\ UNCHANGED <<sc, task, doubleError>> /\ NoOther

\* A double: what it costs is told to the answer.
CubeAvailable(m) == GetDPEq(m) \/ OwnsCube(m)
BeginDouble(t) ==
    /\ at[t] = "begin" /\ Record(t).mt = "MOVE_DOUBLE" /\ ~NotAnalysed(t)
    /\ LET es == esDouble(Call(t).g, Call(t).k)
           found == IF CubeAvailable(Call(t).ms) THEN es ELSE ERR_VAL
       IN \/ /\ CubeAvailable(Call(t).ms) /\ asked.es > es
             /\ Go(t, "begin", "cube") /\ MT_Release /\ UNCHANGED doubleError
          \/ /\ ~(CubeAvailable(Call(t).ms) /\ asked.es > es)
             /\ Go(t, "begin", "count") /\ UNCHANGED lock
             /\ doubleError' = [doubleError EXCEPT ![t] = IF @ = NULL THEN @ ELSE found]
    /\ UNCHANGED <<data, sc, task>> /\ NoOther

\* An answer reads *pdoubleError, whether or not there is one.
BeginAnswer(t) ==
    /\ at[t] = "begin" /\ Record(t).mt \in {"MOVE_TAKE", "MOVE_DROP"} /\ ~NotAnalysed(t)
    /\ Go(t, "begin", "count")
    /\ IF doubleError[t] = NULL THEN main' = "crashed" ELSE UNCHANGED main
    /\ IF doubleError[t] \in {NULL, ERR_VAL} THEN UNCHANGED data
       ELSE Write(t, "stCube", doubleError[t])
    /\ UNCHANGED <<sc, task, doubleError, lMatch, handing, pool, lock, user>>

BeginDice(t) ==
    /\ at[t] = "begin" /\ Record(t).mt = "MOVE_SETDICE" /\ ~NotAnalysed(t)
    /\ Go(t, "begin", "count") /\ Write(t, "fLuck", TRUE)
    /\ UNCHANGED <<sc, task, doubleError>> /\ InLock(t)

\* GeneralCubeDecision, and what it found stored; it fails only when it is
\* interrupted.
StoreCube(t) ==
    /\ \/ Go(t, "cube", "play") /\ Record(t).mt = "MOVE_NORMAL" /\ UNCHANGED doubleError
       \/ /\ Go(t, "cube", "count") /\ Record(t).mt = "MOVE_DOUBLE"
          /\ doubleError' = [doubleError EXCEPT ![t] = IF @ = NULL THEN @ ELSE asked.es]
    /\ MT_Exclusive(t) /\ WriteDouble(t, asked.es)
    /\ UNCHANGED <<sc, task>> /\ NoOther

\* The luck of the roll; then the moves, unless they were found at this level.
\* The list that is to be replaced is lost at once.
Play(t) ==
    /\ \/ /\ Go(t, "play", "moves") /\ asked.es > Data(t).esChequer /\ MT_Release
          /\ LET lost == [Data(t) EXCEPT !.fLuck = TRUE, !.ml = IF @ = "none" THEN @ ELSE "lost"]
             IN data' = [data EXCEPT ![Call(t).g][Call(t).k] = lost]
       \/ /\ Go(t, "play", "skill") /\ asked.es <= Data(t).esChequer /\ UNCHANGED lock
          /\ Write(t, "fLuck", TRUE)
    /\ UNCHANGED <<sc, task, doubleError>> /\ NoOther

\* FindnSaveBestMoves and CopyMoveList.  A player who cannot move has an
\* empty list.
StoreMoves(t) ==
    /\ Go(t, "moves", "skill") /\ MT_Exclusive(t)
    /\ Write(t, "ml", IF Record(t).n = 0 THEN "none" ELSE "whole")
    /\ UNCHANGED <<sc, task, doubleError>> /\ NoOther

\* Either evaluation is interrupted: AnalyzeMove returns, outside the lock.
EvaluationFails(t) ==
    /\ fInterrupt /\ \E evaluation \in {"cube", "moves"} : Go(t, evaluation, "failed")
    /\ UNCHANGED <<data, sc, task, doubleError>> /\ InLock(t)

\* The move is looked up in the list.  The level is the one asked for, also
\* when a deeper one was found before.
Skill(t) ==
    /\ Go(t, "skill", "count")
    /\ IF Data(t).ml = "lost" THEN main' = "crashed" /\ UNCHANGED data
       ELSE Write(t, "esChequer", asked.es) /\ UNCHANGED main
    /\ UNCHANGED <<sc, task, doubleError, lMatch, handing, pool, lock, user>>

\* updateStatcontext
Count(t) ==
    /\ Go(t, "count", "apply")
    /\ sc' = IF asked.scope # "move" /\ Counts(Call(t).ms, Call(t).g, Call(t).k, Data(t))
             THEN [sc EXCEPT ![Call(t).g][Call(t).k] = @ + 1] ELSE sc
    /\ UNCHANGED <<data, task, doubleError>> /\ InLock(t)

\* The answer after its double, or nothing more.
GoOn(t, from) ==
    /\ Go(t, from, IF Len(task[t]) > 1 THEN "enter" ELSE "idle")
    /\ task' = [task EXCEPT ![t] = Tail(@)]
    /\ doubleError' = [doubleError EXCEPT ![t] = IF Len(task[t]) > 1 THEN @ ELSE NotTold]

MutKeepsLock(t) ==
    /\ \/ ~fInterrupt /\ GoOn(t, "apply") /\ MT_Release
       \/ fInterrupt /\ Go(t, "apply", "failed") /\ UNCHANGED <<lock, task, doubleError>>
    /\ UNCHANGED <<data, sc>> /\ NoOther

\* ApplyMoveRecord changes the task's own copy, which is not used again.
Leave(t) ==
    /\ \/ ~fInterrupt /\ GoOn(t, "apply")
       \/ fInterrupt /\ Go(t, "apply", "failed") /\ UNCHANGED <<task, doubleError>>
    /\ MT_Release
    /\ UNCHANGED <<data, sc>> /\ NoOther

MutAbortsSilently(t) ==
    /\ GoOn(t, "failed") /\ tasks' = <<>>
    /\ UNCHANGED <<records, main, handing, added, result, lock, user>>

\* MT_AbortTasks: whatever waits is dropped; the worker goes on with its task.
Abort(t) ==
    /\ GoOn(t, "failed") /\ tasks' = <<>> /\ result' = Failed
    /\ UNCHANGED <<records, main, handing, added, lock, user>>

WorkerStep(t) ==
    \/ GetTask(t) \/ Enter(t)
    \/ Skip(t) \/ BeginMove(t) \/ BeginDouble(t) \/ BeginAnswer(t) \/ BeginDice(t)
    \/ StoreCube(t) \/ Play(t) \/ StoreMoves(t) \/ EvaluationFails(t)
    \/ Skill(t) \/ Count(t) \/ Leave(t) \/ Abort(t)

MainStep == GameInfo \/ AddRecord \/ EndOfGame \/ WaitEnds

Command ==
    \/ \E scope \in Scopes : \E es \in 1..Levels : \E players \in PlayersAsked :
          \E g \in IF scope = "match" THEN {1} ELSE DOMAIN lMatch : Analyse(scope, g, es, players)
    \/ /\ "move" \in Scopes
       /\ \E g \in DOMAIN lMatch : \E k \in DOMAIN Moves(g) : \E es \in 1..Levels : AnalyseMove(g, k, es)
    \/ Clear

Next == \/ Command \/ Interrupt \/ Autosave \/ Quit \/ MainStep
        \/ \E t \in Threads : WorkerStep(t)

Spec == Init /\ [][Next]_vars

\* Both threads of control go on; commands, interrupts and quitting are the
\* user's.
FairSpec == Spec /\ WF_vars(MainStep) /\ \A t \in Threads : WF_vars(WorkerStep(t))

-----------------------------------------------------------------------------
(* What the records say afterwards.                                        *)

\* MoveAnalysed, of every record of the match (lMatch): luck, cube decision
\* and moves are there.  The answer is asked by way of its double's decision.
MoveAnalysed(g, k) ==
    LET r == Moves(g)[k]
        d == data[g][k]
        m == AnalysedIn(CalculateBoard(lMatch[g], k - 1).ms, r)
    IN CASE r.mt = "MOVE_NORMAL" ->
              /\ m.anBoard # InitBoard /\ GetDPEq(m) => esDouble(g, k) # 0
              /\ d.fLuck /\ d.esChequer # 0
         [] r.mt = "MOVE_DOUBLE" ->
              DoubleType(m) = "DT_NORMAL" /\ CubeAvailable(m) => esDouble(g, k) # 0
         [] r.mt = "MOVE_DROP" -> IsNormalTake(m) => esDouble(g, k) # 0
         [] OTHER -> TRUE

MatchAnalysed == \A g \in DOMAIN lMatch : \A k \in DOMAIN Moves(g) : MoveAnalysed(g, k)

\* updateStatisticsMove, of a double: the player who doubles moves.
Recounted(m, r) ==
    LET fixed == FixMatchState(m, r)
    IN IF r.mt \in {"MOVE_NORMAL", "MOVE_DOUBLE"} /\ r.fPlayer # fixed.fMove
       THEN [fixed EXCEPT !.anBoard = SwapSides(@), !.fMove = r.fPlayer]
       ELSE fixed

\* updateStatisticsGame: how often each record is counted when the statistics
\* are shown.
updateStatisticsGame(g) ==
    LET before[k \in 0..Len(Moves(g))] ==
            IF k = 0 THEN StartState(lMatch[g].info)
            ELSE Apply(Recounted(before[k - 1], Moves(g)[k]), g, Moves(g)[k])
    IN [k \in DOMAIN Moves(g) |->
          LET m == Recounted(before[k - 1], Moves(g)[k])
          IN IF Moves(g)[k].mt # "MOVE_SETDICE" /\ Counts(m, g, k, data[g][k]) THEN 1 ELSE 0]

-----------------------------------------------------------------------------
(* Properties                                                              *)

\* Every variable has its type.
TypeOK ==
    /\ lMatch \in Matches
    /\ \A g \in DOMAIN lMatch : \A k \in DOMAIN Moves(g) :
         /\ data[g][k].esDouble \in 0..Levels /\ data[g][k].esChequer \in 0..Levels
         /\ data[g][k].ml \in {"none", "whole", "lost"} /\ data[g][k].fLuck \in BOOLEAN
         /\ data[g][k].stCube \in NotTold..Levels
         /\ sc[g][k] \in Nat
    /\ main \in Waiting \cup {"idle", "ended", "crashed"}
    /\ plGame \in 0..Len(lMatch) /\ plLast \in Nat /\ Len(pParentTask) <= 1
    /\ result \in {0, Failed} /\ told \in {0, Failed}
    /\ lock \in Threads \cup {Nothing}
    /\ \A t \in Threads : Len(task[t]) <= 2 /\ doubleError[t] \in NULL..Levels
    /\ {added, fInterrupt, quits, freed} \subseteq BOOLEAN /\ nCommands \in 0..MaxCommands

\* Tasks are analysed in any order, while the main thread has gone on: each
\* record is seen in the state that replaying its game up to it gives.
AnalysedInContext ==
    \A t \in Threads : at[t] = "begin" =>
        Call(t).ms = AnalysedIn(CalculateBoard(lMatch[Call(t).g], Call(t).k - 1).ms, Record(t))

\* Doubles and their answers are as the commands make them.
MatchesAreProper == \A match \in Matches : \A g \in DOMAIN match : IsProper(match[g])

\* The whole match was asked for, for both players, and the analysis did not
\* return that it failed.
Complete == main = "idle" /\ asked.scope = "match" /\ asked.players = Players /\ told = 0

\* A double, or a chain of them, that ends its game.
IsOpenDouble(g, k) == \A j \in k..Len(Moves(g)) : Moves(g)[j].mt = "MOVE_DOUBLE"

\* An answer is judged by what was found of the double that it answers, at the
\* level that the double has now.
AnswerKnowsDouble ==
    Complete => \A g \in DOMAIN lMatch : \A k \in DOMAIN Moves(g) :
        LET m == AnalysedIn(CalculateBoard(lMatch[g], k - 1).ms, Moves(g)[k])
        IN Moves(g)[k].mt \in {"MOVE_TAKE", "MOVE_DROP"} /\ IsNormalTake(m)
               /\ esDouble(g, k) # 0 =>
             data[g][k].stCube = esDouble(g, k)

\* A record is in the statistics of its game as often as a recount would put
\* it there: once or not at all, never twice, whatever was analysed before.
\* (Not so the luck of dice that were not played, which is not recounted, the
\* answer to a redouble, recounted in another state (Recounted), and a double
\* that ends a game, which is not handed over.)
CountedAsShown ==
    Complete => \A g \in DOMAIN lMatch : \A k \in DOMAIN Moves(g) :
        \/ Moves(g)[k].mt = "MOVE_SETDICE" \/ IsOpenDouble(g, k)
        \/ k > 1 /\ CubeDec(g, k) < k - 1
        \/ sc[g][k] = updateStatisticsGame(g)[k]

\* After an analysis of the match that returned no failure MatchAnalysed finds
\* nothing missing, and every list of moves is there; unless a game ends in a
\* double.
CompleteIsSeen ==
    Complete =>
        /\ \A g \in DOMAIN lMatch : \A k \in DOMAIN Moves(g) : data[g][k].ml # "lost"
        /\ \/ MatchAnalysed
           \/ \E g \in DOMAIN lMatch : \E k \in DOMAIN Moves(g) : IsOpenDouble(g, k)

\* The match is freed when nobody analyses it any more.
FreedAtRest == freed => AllDone

\* A command that analyses ends, whoever interrupts it, or the program does: it
\* is quit, or crashes for a double's error or a list of moves that is not there.
AnalysisEnds == main \in Waiting ~> main \in {"idle", "ended", "crashed"}

\* No list of moves is read, by the analysis or by the autosave, that is not
\* there.
NothingMissingIsRead == main # "crashed"
=============================================================================
