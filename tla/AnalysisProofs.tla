--------------------------- MODULE AnalysisProofs ---------------------------
(***************************************************************************)
(* Theorems about Analysis: types and the lock; that a record is analysed  *)
(* in the state that replaying its game gives; that the match is freed at  *)
(* rest; and, for matches whose records about the cube are as the commands *)
(* of play.c make them, what a whole analysis has found and counted.       *)
(***************************************************************************)
EXTENDS Analysis, RecordsProofs, SequenceTheorems

-----------------------------------------------------------------------------
(* The lock, the types, and the states that records are analysed in.       *)

\* Where a worker holds the lock.
Inside == {"begin", "play", "skill", "count", "apply"}
Places == Inside \cup {"idle", "enter", "cube", "moves", "failed"}

Locking == \A t \in Threads : lock = t <=> at[t] \in Inside

Analyses == [esDouble : 0..Levels, esChequer : 0..Levels, ml : {"none", "whole", "lost"},
             fLuck : BOOLEAN, stCube : NotTold..Levels]

\* A call of AnalyzeMove: a record and a match state.
Calls == {c \in [g : Nat, k : Nat, ms : MatchStates] :
            c.g \in DOMAIN lMatch /\ c.k \in DOMAIN Moves(c.g)}

DataTypes == /\ data = [g \in DOMAIN lMatch |-> data[g]]
             /\ \A g \in DOMAIN lMatch : data[g] \in [DOMAIN Moves(g) -> Analyses]
CountTypes == /\ sc = [g \in DOMAIN lMatch |-> sc[g]]
              /\ \A g \in DOMAIN lMatch : sc[g] \in [DOMAIN Moves(g) -> Nat]

Commands == [scope : {"none", "match", "game", "move", "cut match"}, es : 0..Levels,
             players : SUBSET Players]
UserTypes == /\ asked \in Commands /\ told \in {0, Failed} /\ nCommands \in 0..MaxCommands
             /\ fInterrupt \in BOOLEAN /\ quits \in BOOLEAN /\ freed \in BOOLEAN
HandingTypes == /\ main \in Waiting \cup {"idle", "ended", "crashed"}
                /\ plGame \in 0..Len(lMatch) /\ plLast \in Nat /\ msAnalyse \in MatchStates
                /\ main \in {"info", "add"} => plGame > 0
                /\ main = "add" => plLast <= Len(Moves(plGame))
                /\ pParentTask \in Seq(Calls) /\ Len(pParentTask) <= 1
PoolTypes == /\ tasks \in Seq(Seq(Calls)) /\ \A i \in DOMAIN tasks : Len(tasks[i]) \in 1..2
             /\ added \in BOOLEAN /\ result \in {0, Failed}

WorkerTypes == /\ lock \in Threads \cup {Nothing}
               /\ at \in [Threads -> Places]
               /\ task \in [Threads -> Seq(Calls)]
               /\ \A t \in Threads : Len(task[t]) <= 2 /\ (at[t] = "idle" <=> task[t] = <<>>)
               /\ doubleError \in [Threads -> NULL..Levels]

MainTypes == UserTypes /\ HandingTypes /\ PoolTypes
Types == lMatch \in Matches /\ DataTypes /\ CountTypes /\ MainTypes /\ WorkerTypes /\ Locking

\* A task's state need not be that of the replay: what FixMatchState repairs
\* before a record is repaired when the task is begun.
Context(c) == FixMatchState(c.ms, Moves(c.g)[c.k]) = CalculateBoard(lMatch[c.g], c.k - 1).ms

Handing == main = "add" /\ plLast < Len(Moves(plGame)) =>
              FixMatchState(msAnalyse, Moves(plGame)[plLast + 1]) = CalculateBoard(lMatch[plGame], plLast).ms

Parents == \A j \in DOMAIN pParentTask : Context(pParentTask[j])
Queued == \A i \in DOMAIN tasks : \A j \in DOMAIN tasks[i] : Context(tasks[i][j])
Held == \A t \in Threads : \A j \in DOMAIN task[t] : j > 1 \/ at[t] = "enter" => Context(task[t][j])

Contexts == Handing /\ Parents /\ Queued /\ Held /\ AnalysedInContext

AtRest == freed => main = "ended" /\ AllDone

-----------------------------------------------------------------------------
(* What the operators of the model return.                                 *)

\* The only sequence of length 0 is the empty one.
LEMMA NoElements ==
  ASSUME NEW S, NEW q \in Seq(S)
  PROVE  Len(q) \in Nat /\ (q = <<>> <=> Len(q) = 0)
<1>1. Len(q) = 0 => q = <<>>
  BY EmptySeq
<1> QED BY <1>1

\* What a length of 1 or 2 may be.
LEMMA OneOrTwo ==
  ASSUME NEW n \in 1..2
  PROVE  n \in Nat /\ n <= 2 /\ n # 0 /\ (n > 1 <=> n # 1) /\ n - 1 <= 2 /\ (n - 1 = 0 <=> n = 1)
OBVIOUS

\* A match is a sequence of games, a game a sequence of records.
LEMMA MatchTypes ==
  ASSUME NEW match \in Matches
  PROVE  /\ match \in Seq(Games) /\ Len(match) \in Nat \ {0} /\ DOMAIN match = 1..Len(match)
         /\ \A g \in DOMAIN match :
              /\ match[g] \in Games /\ match[g].info \in GameInfos
              /\ match[g].moves \in Seq(MoveRecords) /\ Len(match[g].moves) \in Nat
              /\ DOMAIN match[g].moves = 1..Len(match[g].moves)
              /\ \A k \in DOMAIN match[g].moves : match[g].moves[k] \in MoveRecords
              /\ StartState(match[g].info) \in MatchStates
<1>1. match \in Seq(Games) /\ match # <<>>
  BY MatchesAssumption
<1>2. Len(match) \in Nat \ {0} /\ DOMAIN match = 1..Len(match)
  BY <1>1
<1>3. ASSUME NEW g \in DOMAIN match
      PROVE  /\ match[g] \in Games /\ match[g].info \in GameInfos
             /\ match[g].moves \in Seq(MoveRecords) /\ Len(match[g].moves) \in Nat
             /\ DOMAIN match[g].moves = 1..Len(match[g].moves)
             /\ \A k \in DOMAIN match[g].moves : match[g].moves[k] \in MoveRecords
             /\ StartState(match[g].info) \in MatchStates
  <2>1. match[g] \in Games
    BY <1>1, <1>2
  <2>2. match[g].info \in GameInfos /\ match[g].moves \in Seq(MoveRecords)
    BY <2>1 DEF Games
  <2> QED BY <2>1, <2>2, StartStateTypes
<1> QED BY <1>1, <1>2, <1>3

\* The state that a replay of a game gives is a match state, and repaired for
\* the record that follows.
LEMMA ReplayedTypes ==
  ASSUME NEW match \in Matches, NEW g \in DOMAIN match, NEW k \in DOMAIN match[g].moves
  PROVE  /\ CalculateBoard(match[g], k - 1).ms \in MatchStates
         /\ SomebodyMoves(CalculateBoard(match[g], k - 1).ms)
         /\ FixMatchState(CalculateBoard(match[g], k - 1).ms, match[g].moves[k])
               = CalculateBoard(match[g], k - 1).ms
<1> DEFINE game == match[g]
           n == k - 1
<1>1. game \in Games /\ game.info \in GameInfos /\ Len(game.moves) \in Nat
      /\ n \in 0..Len(game.moves) /\ n < Len(game.moves) /\ n + 1 = k
  BY MatchTypes
<1> HIDE DEF game, n
<1>2. CalculateBoard(game, n) \in [ms : MatchStates, info : GameInfos]
  BY <1>1, CalculateBoardTypes
<1>3. PICK x \in [ms : MatchStates, info : GameInfos] : CalculateBoard(game, n) = FixForNext(game, n, x)
  <2>1. CASE n = 0
    <3>1. [ms |-> StartState(game.info), info |-> game.info] \in [ms : MatchStates, info : GameInfos]
      BY <1>1, StartStateTypes
    <3> QED BY <2>1, <3>1, CalculateBoardFirst DEF FirstState
  <2>2. CASE n # 0
    <3>1. n - 1 \in 0..Len(game.moves) /\ n - 1 \in Nat /\ (n - 1) + 1 = n /\ game.moves[n] \in MoveRecords
      BY <1>1, <2>2 DEF Games
    <3> DEFINE old == CalculateBoard(game, n - 1)
    <3>2. old \in [ms : MatchStates, info : GameInfos]
      BY <1>1, <3>1, CalculateBoardTypes
    <3>3. CalculateBoard(game, n) = NextState(game, n, old)
      BY <3>1, CalculateBoardThen
    <3> HIDE DEF old
    <3>4. old = [ms |-> old.ms, info |-> old.info] /\ old.ms \in MatchStates /\ old.info \in GameInfos
      BY <3>2
    <3>5. ApplyMoveRecord(old, game.moves[n]) \in [ms : MatchStates, info : GameInfos]
      BY <3>1, <3>4, ApplyMoveRecordTypes
    <3> QED BY <3>3, <3>5 DEF NextState
  <2> QED BY <2>1, <2>2
<1>4. CalculateBoard(game, n).ms = FixMatchState(x.ms, game.moves[k])
  BY <1>1, <1>3 DEF FixForNext
<1>5. FixMatchState(CalculateBoard(game, n).ms, game.moves[k]) = CalculateBoard(game, n).ms
  BY <1>3, <1>4, FixMatchStateOnce
<1>6. SomebodyMoves(CalculateBoard(game, n).ms)
  BY <1>1, CalculateBoardMoves
<1> QED BY <1>2, <1>5, <1>6 DEF game, n

\* What AnalyzeMove does beyond FixMatchState: the player of the record moves.
Turned(m, r) ==
    IF r.mt \in {"MOVE_NORMAL", "MOVE_RESIGN", "MOVE_SETDICE"} /\ r.fPlayer # m.fMove
    THEN [m EXCEPT !.anBoard = SwapSides(@), !.fMove = r.fPlayer] ELSE m

\* The state a record is analysed in: repaired, then turned.
LEMMA AnalysedInTurned ==
  ASSUME NEW m, NEW r
  PROVE  AnalysedIn(m, r) = Turned(FixMatchState(m, r), r)
BY DEF AnalysedIn, Turned

\* A match state that is turned is a match state.
LEMMA TurnedTypes ==
  ASSUME NEW m \in MatchStates, NEW r \in MoveRecords
  PROVE  Turned(m, r) \in MatchStates
<1>1. r.fPlayer \in Nobodies
  BY DEF MoveRecords, Nobodies
<1>2. SwapSides(m.anBoard) \in Board
  BY SwappedBoards DEF MatchStates
<1> QED BY <1>1, <1>2 DEF Turned, MatchStates

\* AnalyzeMove moves the turn before it applies the record, a replay leaves that
\* to ApplyMoveRecord: with the same result, but for a resignation.
LEMMA AppliedTheSame ==
  ASSUME NEW m \in MatchStates, NEW r \in MoveRecords, NEW info, SomebodyMoves(m),
         FixMatchState(m, r) = m, r.mt # "MOVE_RESIGN"
  PROVE  ApplyMoveRecord([ms |-> Turned(m, r), info |-> info], r)
            = ApplyMoveRecord([ms |-> m, info |-> info], r)
<1>1. CASE Turned(m, r) = m
  BY <1>1
<1>2. CASE Turned(m, r) # m
  <2> DEFINE turned == [m EXCEPT !.anBoard = SwapSides(@), !.fMove = r.fPlayer]
             Playing(x) == [x EXCEPT !.gs = "GAME_PLAYING", !.fResigned = 0, !.fResignationDeclined = 0]
             old == Playing(m)
             new == Playing(turned)
  <2>1. r.mt \in {"MOVE_NORMAL", "MOVE_SETDICE"} /\ r.fPlayer # m.fMove /\ Turned(m, r) = turned
    BY <1>2 DEF Turned
  <2>2. new = [old EXCEPT !.anBoard = SwapSides(@), !.fMove = r.fPlayer] /\ DOMAIN old = DOMAIN m
    BY DEF MatchStates
  <2>3. r.fPlayer \in Players /\ r.fPlayer # Nobody
    BY DEF MoveRecords, Players, Nobody
  <2>4. old.fMove = m.fMove /\ old.fTurn = m.fTurn /\ old \in MatchStates
    BY DEF MatchStates
  <2> HIDE DEF old, new, turned
  <2>5. CASE r.mt = "MOVE_SETDICE"
    <3>1. ApplySetDice(new, r) = ApplySetDice(old, r)
      BY <2>1, <2>2, <2>4 DEF ApplySetDice, MatchStates
    <3>2. ApplyMoveRecord([ms |-> turned, info |-> info], r) = [ms |-> ApplySetDice(new, r), info |-> info]
      BY <2>5 DEF ApplyMoveRecord, new
    <3>3. ApplyMoveRecord([ms |-> m, info |-> info], r) = [ms |-> ApplySetDice(old, r), info |-> info]
      BY <2>5 DEF ApplyMoveRecord, old
    <3> QED BY <2>1, <3>1, <3>2, <3>3
  <2>6. CASE r.mt = "MOVE_NORMAL"
    <3>1. m.fTurn = r.fPlayer
      <4>1. m.fTurn # r.fPlayer => FixMatchState(m, r).fTurn = r.fPlayer
        BY <2>6 DEF FixMatchState, MatchStates
      <4> QED BY <4>1
    <3>2. m.fMove # Nobody
      BY <2>3, <3>1 DEF SomebodyMoves
    <3> DEFINE old1 == [old EXCEPT !.fDoubled = FALSE]
               new1 == [new EXCEPT !.fDoubled = FALSE]
    <3>3. /\ new1 = [old1 EXCEPT !.anBoard = SwapSides(@), !.fMove = r.fPlayer]
          /\ old1 \in MatchStates /\ old1.fMove = m.fMove
      BY <2>2, <2>4 DEF MatchStates
    <3> HIDE DEF old1, new1
    <3>4. PlayMove(new1, r) = PlayMove(old1, r)
      <4> DEFINE Moved(x, b) == [x EXCEPT !.anBoard = SwapSides([b EXCEPT ![1] = Max({0, @ - r.n})]),
                                          !.fMove = Opponent(r.fPlayer), !.fTurn = Opponent(r.fPlayer)]
                 b == SwapSides(old1.anBoard)
      <4>1. PlayMove(new1, r) = Moved(new1, b)
        <5>1. new1.anBoard = b /\ new1.fMove = r.fPlayer
          BY <3>3 DEF MatchStates
        <5> QED BY <5>1 DEF PlayMove
      <4>2. PlayMove(old1, r) = Moved(old1, b)
        BY <2>1, <3>2, <3>3 DEF PlayMove
      <4>3. \A c : Moved(new1, c) = Moved(old1, c)
        BY <3>3 DEF MatchStates
      <4> QED BY <4>1, <4>2, <4>3
    <3>5. /\ new.fCubeOwner = old.fCubeOwner /\ new.nMatchTo = old.nMatchTo /\ new.nCube = old.nCube
      BY <2>2, <2>4 DEF MatchStates
    <3>6. ApplyNormal(new, info, r) = ApplyNormal(old, info, r)
      <4> DEFINE Rest(y, owner, length, cube) ==
                     LET played == [y EXCEPT !.anDice = 0]
                         n == GameStatus(played.anBoard)
                         counts == IF fJacoby /\ owner = Nobody /\ length = 0 THEN 1 ELSE n
                     IN IF n = 0 THEN [ms |-> played, info |-> info]
                        ELSE Ended(played, info, "GAME_OVER", r.fPlayer, cube * counts)
      <4>1. ASSUME NEW x
            PROVE  ApplyNormal(x, info, r)
                     = Rest(PlayMove([x EXCEPT !.fDoubled = FALSE], r), x.fCubeOwner, x.nMatchTo, x.nCube)
        BY DEF ApplyNormal
      <4> HIDE DEF Rest
      <4> QED BY <3>4, <3>5, <4>1 DEF new1, old1
    <3>7. ApplyMoveRecord([ms |-> turned, info |-> info], r) = ApplyNormal(new, info, r)
      BY <2>6 DEF ApplyMoveRecord, new
    <3>8. ApplyMoveRecord([ms |-> m, info |-> info], r) = ApplyNormal(old, info, r)
      BY <2>6 DEF ApplyMoveRecord, old
    <3> QED BY <2>1, <3>6, <3>7, <3>8
  <2> QED BY <2>1, <2>5, <2>6
<1> QED BY <1>1, <1>2

\* CubeDec is a record of the same chain.
LEMMA CubeDecBetween ==
  ASSUME NEW g, NEW k \in Nat \ {0}
  PROVE  CubeDec(g, k) \in 1..k
<1> DEFINE Linked(j) == /\ j > 1 /\ Moves(g)[j].mt \in {"MOVE_DOUBLE", "MOVE_TAKE", "MOVE_DROP"}
                        /\ Moves(g)[j - 1].mt = "MOVE_DOUBLE"
           F(f, j) == IF Linked(j) THEN f[j - 1] ELSE j
           Is(f, n) == f = [j \in 1..n |-> F(f, j)]
           S == {n \in Nat : \E f : Is(f, n) /\ \A j \in 1..n : f[j] \in 1..j}
<1> HIDE DEF Linked
<1>1. 0 \in S
  <2> DEFINE f == [j \in 1..0 |-> j]
  <2>1. Is(f, 0) /\ \A j \in 1..0 : f[j] \in 1..j
    OBVIOUS
  <2> HIDE DEF f, Is
  <2> QED BY <2>1
<1>2. ASSUME NEW n \in Nat, n \in S PROVE n + 1 \in S
  <2>1. PICK f : Is(f, n) /\ \A j \in 1..n : f[j] \in 1..j
    BY <1>2
  <2> DEFINE h == [j \in 1..(n + 1) |-> IF j = n + 1 THEN (IF Linked(j) THEN f[n] ELSE j) ELSE f[j]]
  <2>2. ASSUME NEW j \in 1..(n + 1) PROVE h[j] = F(h, j) /\ h[j] \in 1..j
    <3>1. CASE j = n + 1
      <4>1. Linked(j) => j > 1 /\ n \in 1..n
        BY <3>1 DEF Linked
      <4> QED BY <2>1, <3>1, <4>1
    <3>2. CASE j \in 1..n
      <4>1. Linked(j) => j - 1 \in 1..n
        BY <3>2 DEF Linked
      <4> QED BY <2>1, <3>2, <4>1
    <3> QED BY <3>1, <3>2
  <2>3. Is(h, n + 1)
    BY <2>2
  <2> HIDE DEF h
  <2> QED BY <2>2, <2>3
<1> HIDE DEF S
<1>3. k \in S
  BY <1>1, <1>2, AllNumbers
<1> DEFINE first == CHOOSE f : Is(f, k)
<1>4. CubeDec(g, k) = first[k]
  BY DEF CubeDec, Linked
<1>5. PICK f0 : Is(f0, k) /\ \A j \in 1..k : f0[j] \in 1..j
  BY <1>3 DEF S
<1>6. Is(first, k)
  <2> HIDE DEF Is
  <2> QED BY <1>5
<1> HIDE DEF first
<1> DEFINE T == {j \in 1..k : first[j] # f0[j]}
<1>7. CASE T = {}
  <2>1. k \in 1..k /\ first[k] = f0[k]
    BY <1>7
  <2> QED BY <1>4, <1>5, <2>1
<1>8. CASE T # {}
  <2>1. T \in SUBSET Nat
    OBVIOUS
  <2>2. PICK x \in T : \A y \in T : x <= y
    <3> HIDE DEF T
    <3> QED BY <1>8, <2>1, LeastNumber
  <2>3. Linked(x)
    BY <1>5, <1>6, <2>2
  <2>4. x - 1 \in 1..k /\ x - 1 \notin T
    BY <2>2, <2>3 DEF Linked
  <2> QED BY <1>5, <1>6, <2>3, <2>4
<1> QED BY <1>7, <1>8

-----------------------------------------------------------------------------
(* Types, and the lock.                                                    *)

\* At the start every variable has its type.
LEMMA InitTypes == Init => Types
<1> SUFFICES ASSUME Init PROVE Types
  OBVIOUS
<1> USE DEF Init
<1>1. lMatch \in Matches /\ 1 \in DOMAIN lMatch /\ Len(lMatch) \in Nat
  BY MatchTypes
<1>2. Unanalysed \in Analyses
  BY LevelsAssumption DEF Unanalysed, Analyses, NotTold
<1>3. DataTypes
  BY <1>2 DEF DataTypes
<1>4. CountTypes
  BY DEF CountTypes
<1>5. MainTypes
  <2>1. msAnalyse \in MatchStates
    BY <1>1, MatchTypes
  <2>2. pParentTask \in Seq(Calls) /\ Len(pParentTask) <= 1 /\ tasks \in Seq(Seq(Calls)) /\ DOMAIN tasks = {}
    OBVIOUS
  <2>3. asked \in [scope : {"none", "match", "game", "move", "cut match"}, es : 0..Levels,
                   players : SUBSET Players]
    BY LevelsAssumption
  <2>4. plGame \in 0..Len(lMatch) /\ plLast \in Nat /\ nCommands \in 0..MaxCommands
    BY <1>1, LevelsAssumption
  <2>5. /\ main = "idle" /\ result \in {0, Failed} /\ told \in {0, Failed}
        /\ added \in BOOLEAN /\ fInterrupt \in BOOLEAN /\ quits \in BOOLEAN /\ freed \in BOOLEAN
    OBVIOUS
  <2> HIDE DEF Init
  <2> QED BY <2>1, <2>2, <2>3, <2>4, <2>5 DEF MainTypes, UserTypes, HandingTypes, PoolTypes, Commands
<1>6. WorkerTypes
  <2>1. \A t \in Threads : task[t] = <<>> /\ task[t] \in Seq(Calls) /\ Len(task[t]) <= 2 /\ at[t] = "idle"
    OBVIOUS
  <2>2. NotTold \in NULL..Levels
    BY LevelsAssumption DEF NotTold, NULL
  <2> QED BY <2>1, <2>2 DEF WorkerTypes, Places
<1>7. Locking
  BY ThreadsAssumption DEF Locking, Inside
<1> QED BY <1>1, <1>3, <1>4, <1>5, <1>6, <1>7 DEF Types

\* What a worker's step may do to its place, the lock and its task.
LEMMA WorkerTypesStep ==
  ASSUME Types, NEW t \in Threads, lMatch' = lMatch,
         NEW x \in Places, at' = [at EXCEPT ![t] = x],
         NEW q \in Seq(Calls), task' = [task EXCEPT ![t] = q], Len(q) <= 2, x = "idle" <=> q = <<>>,
         NEW e \in NULL..Levels, doubleError' = [doubleError EXCEPT ![t] = e],
         \/ lock' = lock /\ (at[t] \in Inside <=> x \in Inside)
         \/ lock = Nothing /\ lock' = t /\ x \in Inside
         \/ lock' = Nothing /\ at[t] \in Inside /\ x \notin Inside
  PROVE  WorkerTypes' /\ Locking'
<1>1. Calls' = Calls
  BY DEF Calls, Moves
<1>2. /\ at \in [Threads -> Places] /\ task \in [Threads -> Seq(Calls)]
      /\ doubleError \in [Threads -> NULL..Levels] /\ lock \in Threads \cup {Nothing}
  BY DEF Types, WorkerTypes
<1>3. /\ at'[t] = x /\ task'[t] = q
      /\ \A u \in Threads \ {t} : at'[u] = at[u] /\ task'[u] = task[u]
  BY <1>2
<1>4. Locking'
  <2>1. \A u \in Threads : lock = u <=> at[u] \in Inside
    BY DEF Types, Locking
  <2> QED BY <1>2, <1>3, <2>1, ThreadsAssumption DEF Locking
<1>5. lock' \in Threads \cup {Nothing}
  BY <1>2
<1>6. /\ at' \in [Threads -> Places] /\ task' \in [Threads -> Seq(Calls)]
      /\ doubleError' \in [Threads -> NULL..Levels]
  BY <1>2
<1>7. \A u \in Threads : Len(task'[u]) <= 2 /\ (at'[u] = "idle" <=> task'[u] = <<>>)
  BY <1>3 DEF Types, WorkerTypes
<1> QED BY <1>1, <1>4, <1>5, <1>6, <1>7 DEF WorkerTypes

\* What is written into a record is what a record holds.
LEMMA DataTypesStep ==
  ASSUME DataTypes, lMatch' = lMatch, NEW g \in DOMAIN lMatch, NEW k \in DOMAIN Moves(g),
         NEW d \in Analyses, data' = [data EXCEPT ![g][k] = d]
  PROVE  DataTypes'
<1>1. \A h \in DOMAIN lMatch : data[h] \in [DOMAIN Moves(h) -> Analyses]
  BY DEF DataTypes
<1>2. /\ data' = [h \in DOMAIN lMatch |-> data'[h]] /\ data'[g] = [data[g] EXCEPT ![k] = d]
      /\ \A h \in DOMAIN lMatch \ {g} : data'[h] = data[h]
  BY DEF DataTypes
<1>3. \A h \in DOMAIN lMatch : data'[h] \in [DOMAIN Moves(h) -> Analyses]
  BY <1>1, <1>2
<1> QED BY <1>2, <1>3 DEF DataTypes, Moves

\* A worker that has a task has a record of the match, and what it holds.
LEMMA CallTypes ==
  ASSUME Types, NEW t \in Threads, at[t] # "idle"
  PROVE  /\ task[t] \in Seq(Calls) /\ task[t] # <<>> /\ Len(task[t]) \in 1..2
         /\ Call(t) \in Calls /\ Call(t) = task[t][1]
         /\ Call(t).g \in DOMAIN lMatch /\ Call(t).k \in DOMAIN Moves(Call(t).g)
         /\ Call(t).ms \in MatchStates /\ Record(t) \in MoveRecords
         /\ Data(t) \in Analyses
         /\ CubeDec(Call(t).g, Call(t).k) \in DOMAIN Moves(Call(t).g)
         /\ data[Call(t).g][CubeDec(Call(t).g, Call(t).k)] \in Analyses
<1>1. task[t] \in Seq(Calls) /\ task[t] # <<>> /\ Len(task[t]) \in 1..2
  <2>1. task[t] \in Seq(Calls)
    BY DEF Types, WorkerTypes
  <2>2. task[t] # <<>> /\ Len(task[t]) <= 2
    BY DEF Types, WorkerTypes
  <2> DEFINE n == Len(task[t])
  <2>3. n \in Nat /\ n # 0
    BY <2>1, <2>2
  <2>4. n <= 2
    BY <2>2
  <2> HIDE DEF n
  <2>5. n \in 1..2
    BY <2>3, <2>4
  <2> QED BY <2>1, <2>2, <2>5 DEF n
<1>2. Call(t) \in Calls /\ Call(t) = task[t][1]
  BY <1>1 DEF Call
<1>3. /\ Call(t).g \in DOMAIN lMatch /\ Call(t).k \in DOMAIN Moves(Call(t).g)
      /\ Call(t).ms \in MatchStates
  BY <1>2 DEF Calls
<1>4. lMatch \in Matches
  BY DEF Types
<1>5. Record(t) \in MoveRecords
  BY <1>3, <1>4, MatchTypes DEF Record, Moves
<1>6. data[Call(t).g] \in [DOMAIN Moves(Call(t).g) -> Analyses]
  BY <1>3 DEF Types, DataTypes
<1>7. CubeDec(Call(t).g, Call(t).k) \in DOMAIN Moves(Call(t).g)
  <2>1. DOMAIN Moves(Call(t).g) = 1..Len(Moves(Call(t).g)) /\ Len(Moves(Call(t).g)) \in Nat
    BY <1>3, <1>4, MatchTypes DEF Moves
  <2>2. CubeDec(Call(t).g, Call(t).k) \in 1..Call(t).k
    BY <1>3, <2>1, CubeDecBetween
  <2> QED BY <1>3, <2>1, <2>2
<1> QED BY <1>1, <1>2, <1>3, <1>5, <1>6, <1>7 DEF Data

\* A step of a worker that keeps its task.
LEMMA SameTaskStep ==
  ASSUME Types, NEW t \in Threads, lMatch' = lMatch, at[t] # "idle",
         NEW x \in Places \ {"idle"}, at' = [at EXCEPT ![t] = x], UNCHANGED task,
         NEW e \in NULL..Levels, doubleError' = [doubleError EXCEPT ![t] = e],
         \/ lock' = lock /\ (at[t] \in Inside <=> x \in Inside)
         \/ lock = Nothing /\ lock' = t /\ x \in Inside
         \/ lock' = Nothing /\ at[t] \in Inside /\ x \notin Inside
  PROVE  WorkerTypes' /\ Locking'
<1>1. task[t] \in Seq(Calls) /\ task[t] # <<>> /\ Len(task[t]) <= 2
  <2>1. task[t] \in Seq(Calls) /\ task[t] # <<>>
    BY CallTypes
  <2>2. Len(task[t]) <= 2
    BY DEF Types, WorkerTypes
  <2> QED BY <2>1, <2>2
<1>2. task' = [task EXCEPT ![t] = task[t]]
  BY DEF Types, WorkerTypes
<1> QED BY <1>1, <1>2, WorkerTypesStep

\* A step of a worker that leaves the main thread's variables alone.
LEMMA MainTypesStay ==
  ASSUME Types, lMatch' = lMatch, main' \in {main, "crashed"}, UNCHANGED handing, UNCHANGED user,
         tasks' \in Seq(Seq(Calls)), \A i \in DOMAIN tasks' : Len(tasks'[i]) \in 1..2,
         added' = added, result' \in {0, Failed}
  PROVE  MainTypes'
<1>1. Calls' = Calls
  BY DEF Calls, Moves
<1> QED BY <1>1 DEF Types, MainTypes, UserTypes, HandingTypes, PoolTypes, handing, user, Moves

\* What the types say of the tasks that wait.
LEMMA PoolStays ==
  ASSUME Types
  PROVE  tasks \in Seq(Seq(Calls)) /\ (\A i \in DOMAIN tasks : Len(tasks[i]) \in 1..2) /\ result \in {0, Failed}
BY DEF Types, MainTypes, PoolTypes

\* The lists of tasks after one of them is taken.
LEMMA TailTypes ==
  ASSUME NEW S, NEW q \in Seq(S), q # <<>>
  PROVE  /\ Head(q) \in S /\ Head(q) = q[1] /\ Tail(q) \in Seq(S)
         /\ Len(q) \in Nat \ {0} /\ Len(Tail(q)) = Len(q) - 1
         /\ \A i \in DOMAIN Tail(q) : i + 1 \in DOMAIN q /\ Tail(q)[i] = q[i + 1]
<1>1. Len(q) \in Nat \ {0} /\ DOMAIN q = 1..Len(q)
  OBVIOUS
<1>2. Head(q) \in S /\ Head(q) = q[1] /\ Tail(q) \in Seq(S) /\ Len(Tail(q)) = Len(q) - 1
  OBVIOUS
<1>3. \A i \in 1..(Len(q) - 1) : Tail(q)[i] = q[i + 1]
  OBVIOUS
<1> QED BY <1>1, <1>2, <1>3

\* A worker takes a task,
LEMMA GetTaskTypes ==
  ASSUME Types, NEW t \in Threads, GetTask(t)
  PROVE  Types'
<1> USE DEF GetTask, Go, records, user, handing
<1>1. tasks \in Seq(Seq(Calls)) /\ tasks # <<>> /\ \A i \in DOMAIN tasks : Len(tasks[i]) \in 1..2
  BY PoolStays
<1>2. /\ Head(tasks) \in Seq(Calls) /\ Head(tasks) = tasks[1] /\ 1 \in DOMAIN tasks
      /\ Tail(tasks) \in Seq(Seq(Calls))
      /\ \A i \in DOMAIN Tail(tasks) : Len(Tail(tasks)[i]) \in 1..2
  BY <1>1, TailTypes
<1>3. MainTypes'
  BY <1>2, MainTypesStay, PoolStays
<1>4. Head(tasks) # <<>> /\ Len(Head(tasks)) <= 2
  <2>1. Len(Head(tasks)) \in 1..2
    BY <1>1, <1>2
  <2> HIDE DEF GetTask
  <2>2. Len(Head(tasks)) <= 2 /\ Len(Head(tasks)) # 0
    BY <2>1, OneOrTwo
  <2> QED BY <1>2, <2>2, NoElements
<1>5. WorkerTypes' /\ Locking'
  <2>1. "enter" \in Places /\ "enter" \notin Inside /\ at[t] = "idle" /\ "idle" \notin Inside
    BY DEF Places, Inside
  <2>2. (IF asked.scope = "move" THEN NULL ELSE 0) \in NULL..Levels
    BY LevelsAssumption DEF NULL
  <2> QED BY <1>2, <1>4, <2>1, <2>2, WorkerTypesStep
<1>6. DataTypes' /\ CountTypes' /\ lMatch' \in Matches
  BY DEF Types, DataTypes, CountTypes, Moves
<1> QED BY <1>3, <1>5, <1>6 DEF Types

\* repairs its state inside the lock,
LEMMA EnterTypes ==
  ASSUME Types, NEW t \in Threads, Enter(t)
  PROVE  Types'
<1> USE DEF Enter, Go, NoOther, user, handing, pool, MT_Exclusive
<1>1. at[t] = "enter" /\ "enter" # "idle" /\ lMatch' = lMatch
  OBVIOUS
<1>2. /\ task[t] \in Seq(Calls) /\ task[t] # <<>> /\ Len(task[t]) \in 1..2
      /\ Call(t) \in Calls /\ Call(t) = task[t][1] /\ Call(t).ms \in MatchStates /\ Record(t) \in MoveRecords
  BY <1>1, CallTypes
<1> DEFINE c == [Call(t) EXCEPT !.ms = AnalysedIn(@, Record(t))]
           q == <<c>> \o Tail(task[t])
<1>3. c \in Calls
  <2>1. AnalysedIn(Call(t).ms, Record(t)) \in MatchStates
    BY <1>2, AnalysedInTurned, TurnedTypes, FixMatchStateTypes
  <2> QED BY <1>2, <2>1 DEF Calls
<1>4. q \in Seq(Calls) /\ Len(q) = Len(task[t]) /\ q # <<>>
  <2> HIDE DEF c
  <2>1. Tail(task[t]) \in Seq(Calls) /\ Len(Tail(task[t])) = Len(task[t]) - 1
    BY <1>2
  <2>2. <<c>> \in Seq(Calls) /\ Len(<<c>>) = 1
    BY <1>3
  <2> QED BY <1>2, <2>1, <2>2
<1>5. WorkerTypes' /\ Locking'
  <2>1. "begin" \in Places /\ "begin" \in Inside /\ "begin" # "idle"
    BY DEF Places, Inside
  <2>2. doubleError' = [doubleError EXCEPT ![t] = doubleError[t]] /\ doubleError[t] \in NULL..Levels
    BY DEF Types, WorkerTypes
  <2>3. at' = [at EXCEPT ![t] = "begin"] /\ lock = Nothing /\ lock' = t
    OBVIOUS
  <2>4. task' = [task EXCEPT ![t] = q]
    OBVIOUS
  <2>5. Len(q) <= 2
    BY <1>2, <1>4, OneOrTwo
  <2> HIDE DEF q, Enter
  <2> QED BY <1>1, <1>4, <2>1, <2>2, <2>3, <2>4, <2>5, WorkerTypesStep
<1>6. MainTypes'
  BY MainTypesStay, PoolStays
<1>7. DataTypes' /\ CountTypes' /\ lMatch' \in Matches
  BY DEF Types, DataTypes, CountTypes, Moves
<1> QED BY <1>5, <1>6, <1>7 DEF Types

\* and goes on to the answer after its double, or to the next task.
LEMMA GoOnTypes ==
  ASSUME Types, NEW t \in Threads, NEW from \in Places \ {"idle"}, GoOn(t, from), lMatch' = lMatch,
         \/ lock' = lock /\ from \notin Inside
         \/ lock' = Nothing /\ from \in Inside
  PROVE  WorkerTypes' /\ Locking'
<1> USE DEF GoOn, Go
<1>1. at[t] = from /\ at[t] # "idle"
  OBVIOUS
<1>2. task[t] \in Seq(Calls) /\ task[t] # <<>> /\ Len(task[t]) \in 1..2
  BY <1>1, CallTypes
<1> DEFINE q == Tail(task[t])
           x == IF Len(task[t]) > 1 THEN "enter" ELSE "idle"
           e == IF Len(task[t]) > 1 THEN doubleError[t] ELSE NotTold
<1>3. q \in Seq(Calls) /\ Len(q) = Len(task[t]) - 1
  BY <1>2
<1>4. Len(q) <= 2 /\ (q = <<>> <=> Len(task[t]) = 1)
  <2> HIDE DEF q
  <2>1. q = <<>> <=> Len(q) = 0
    BY <1>3, NoElements
  <2> HIDE DEF GoOn
  <2>2. Len(task[t]) - 1 <= 2 /\ (Len(task[t]) - 1 = 0 <=> Len(task[t]) = 1)
    BY <1>2, OneOrTwo
  <2> QED BY <1>3, <2>1, <2>2
<1>5. x = "idle" <=> q = <<>>
  <2> HIDE DEF q, GoOn
  <2>1. Len(task[t]) > 1 <=> Len(task[t]) # 1
    BY <1>2, OneOrTwo
  <2> QED BY <1>4, <2>1
<1>6. x \in Places /\ x \notin Inside
  BY DEF Places, Inside
<1>7. e \in NULL..Levels
  BY LevelsAssumption DEF Types, WorkerTypes, NotTold, NULL
<1>8. at' = [at EXCEPT ![t] = x] /\ task' = [task EXCEPT ![t] = q] /\ doubleError' = [doubleError EXCEPT ![t] = e]
  BY DEF Types, WorkerTypes
<1> HIDE DEF q, x, e, GoOn
<1> QED BY <1>1, <1>3, <1>4, <1>5, <1>6, <1>7, <1>8, WorkerTypesStep

\* What a worker finds is written where it is told to, and is of its type.
LEMMA WriteTypes ==
  ASSUME Types, NEW t \in Threads, at[t] # "idle", lMatch' = lMatch,
         \/ UNCHANGED data
         \/ \E es \in 0..Levels : WriteDouble(t, es)
         \/ Write(t, "fLuck", TRUE)
         \/ \E es \in 0..Levels : Write(t, "esChequer", es)
         \/ \E es \in NotTold..Levels : Write(t, "stCube", es)
         \/ \E ml \in {"none", "whole", "lost"} :
               data' = [data EXCEPT ![Call(t).g][Call(t).k] = [Data(t) EXCEPT !.fLuck = TRUE, !.ml = ml]]
         \/ \E ml \in {"none", "whole"} : Write(t, "ml", ml)
  PROVE  DataTypes'
<1>1. /\ Call(t).g \in DOMAIN lMatch /\ Call(t).k \in DOMAIN Moves(Call(t).g) /\ Data(t) \in Analyses
      /\ CubeDec(Call(t).g, Call(t).k) \in DOMAIN Moves(Call(t).g)
      /\ data[Call(t).g][CubeDec(Call(t).g, Call(t).k)] \in Analyses /\ DataTypes
  BY CallTypes DEF Types
<1> DEFINE g == Call(t).g
           k == Call(t).k
           c == CubeDec(g, k)
<1> HIDE DEF g, k, c
<1>2. CASE UNCHANGED data
  BY <1>1, <1>2 DEF DataTypes, Moves
<1>3. ASSUME NEW d \in Analyses, data' = [data EXCEPT ![g][k] = d] PROVE DataTypes'
  BY <1>1, <1>3, DataTypesStep DEF g, k
<1>4. ASSUME NEW es \in 0..Levels, WriteDouble(t, es) PROVE DataTypes'
  <2>1. [data[g][c] EXCEPT !.esDouble = es] \in Analyses
    BY <1>1, <1>4 DEF Analyses, g, k, c
  <2>2. data' = [data EXCEPT ![g][c] = [data[g][c] EXCEPT !.esDouble = es]]
    BY <1>4 DEF WriteDouble, g, k, c
  <2> QED BY <1>1, <2>1, <2>2, DataTypesStep DEF g, k, c
<1>5. CASE Write(t, "fLuck", TRUE)
  <2>1. [Data(t) EXCEPT !.fLuck = TRUE] \in Analyses
    BY <1>1 DEF Analyses
  <2>2. data' = [data EXCEPT ![g][k] = [Data(t) EXCEPT !.fLuck = TRUE]]
    BY <1>5 DEF Write, Data, g, k
  <2> QED BY <1>3, <2>1, <2>2
<1>6. ASSUME NEW es \in 0..Levels, Write(t, "esChequer", es) PROVE DataTypes'
  <2>1. [Data(t) EXCEPT !.esChequer = es] \in Analyses
    BY <1>1, <1>6 DEF Analyses
  <2>2. data' = [data EXCEPT ![g][k] = [Data(t) EXCEPT !.esChequer = es]]
    BY <1>6 DEF Write, Data, g, k
  <2> QED BY <1>3, <2>1, <2>2
<1>7. ASSUME NEW es \in NotTold..Levels, Write(t, "stCube", es) PROVE DataTypes'
  <2>1. [Data(t) EXCEPT !.stCube = es] \in Analyses
    BY <1>1, <1>7 DEF Analyses
  <2>2. data' = [data EXCEPT ![g][k] = [Data(t) EXCEPT !.stCube = es]]
    BY <1>7 DEF Write, Data, g, k
  <2> QED BY <1>3, <2>1, <2>2
<1>8. ASSUME NEW ml \in {"none", "whole", "lost"},
             data' = [data EXCEPT ![Call(t).g][Call(t).k] = [Data(t) EXCEPT !.fLuck = TRUE, !.ml = ml]]
      PROVE  DataTypes'
  <2>1. [Data(t) EXCEPT !.fLuck = TRUE, !.ml = ml] \in Analyses
    BY <1>1, <1>8 DEF Analyses
  <2> QED BY <1>3, <1>8, <2>1 DEF g, k
<1>9. ASSUME NEW ml \in {"none", "whole"}, Write(t, "ml", ml) PROVE DataTypes'
  <2>1. [Data(t) EXCEPT !.ml = ml] \in Analyses
    BY <1>1, <1>9 DEF Analyses
  <2>2. data' = [data EXCEPT ![g][k] = [Data(t) EXCEPT !.ml = ml]]
    BY <1>9 DEF Write, Data, g, k
  <2> QED BY <1>3, <2>1, <2>2
<1> QED BY <1>2, <1>4, <1>5, <1>6, <1>7, <1>8, <1>9

\* What a step within a task does: the places it leads from and to, with the
\* lock that goes with them; what it is told of a double; what it writes, and
\* counts.
Between(t, from, x) ==
    /\ main # "crashed" /\ at[t] = from /\ at' = [at EXCEPT ![t] = x]
    /\ from \in Places \ {"idle", "enter"} /\ x \in Places \ {"idle", "enter", "begin"}
Keeps(t, from, x) == Between(t, from, x) /\ lock' = lock /\ (from \in Inside <=> x \in Inside)
Takes(t, from, x) == Between(t, from, x) /\ lock = Nothing /\ lock' = t /\ x \in Inside
Leaves(t, from, x) == Between(t, from, x) /\ lock' = Nothing /\ from \in Inside /\ x \notin Inside
Moved(t) == \E from, x \in Places : Keeps(t, from, x) \/ Takes(t, from, x) \/ Leaves(t, from, x)
Told(t) == \E e \in NULL..Levels : doubleError' = [doubleError EXCEPT ![t] = e]
Written(t) == \/ UNCHANGED data
              \/ \E es \in 0..Levels : WriteDouble(t, es)
              \/ Write(t, "fLuck", TRUE)
              \/ \E es \in 0..Levels : Write(t, "esChequer", es)
              \/ \E es \in NotTold..Levels : Write(t, "stCube", es)
              \/ \E ml \in {"none", "whole", "lost"} :
                    data' = [data EXCEPT ![Call(t).g][Call(t).k] = [Data(t) EXCEPT !.fLuck = TRUE, !.ml = ml]]
              \/ \E ml \in {"none", "whole"} : Write(t, "ml", ml)
Counted(t) == UNCHANGED sc \/ sc' = [sc EXCEPT ![Call(t).g][Call(t).k] = @ + 1]
Rest == UNCHANGED <<lMatch, handing, pool, user, task>> /\ main' \in {main, "crashed"}
Within(t) == Moved(t) /\ Told(t) /\ Written(t) /\ Counted(t) /\ Rest

\* A step that leaves doubleError alone tells nothing new.
LEMMA NothingToTell ==
  ASSUME Types, NEW t \in Threads, UNCHANGED doubleError
  PROVE  Told(t)
<1>1. doubleError' = [doubleError EXCEPT ![t] = doubleError[t]] /\ doubleError[t] \in NULL..Levels
  BY DEF Types, WorkerTypes
<1> QED BY <1>1 DEF Told

\* Every step within a task is one of these.
LEMMA WithinTask ==
  ASSUME Types, NEW t \in Threads,
         \/ Skip(t) \/ BeginMove(t) \/ BeginDouble(t) \/ BeginAnswer(t) \/ BeginDice(t)
         \/ StoreCube(t) \/ Play(t) \/ StoreMoves(t) \/ EvaluationFails(t)
         \/ Skill(t) \/ Count(t)
  PROVE  Within(t)
<1>1. doubleError \in [Threads -> NULL..Levels] /\ doubleError[t] \in NULL..Levels
  BY DEF Types, WorkerTypes
<1>2. asked.es \in 0..Levels /\ asked.es \in NULL..Levels
  <2>1. asked.es \in 0..Levels
    BY DEF Types, MainTypes, UserTypes, Commands
  <2> QED BY <2>1, LevelsAssumption DEF NULL
<1>3. 0 \in 0..Levels /\ 0 \in NULL..Levels /\ ERR_VAL \in NULL..Levels /\ NULL \in NULL..Levels
  BY LevelsAssumption DEF NULL, ERR_VAL
<1>4. UNCHANGED doubleError => Told(t)
  BY NothingToTell
<1> USE DEF Go, InLock, NoOther, MT_Exclusive, MT_Release
<1>5. CASE Skip(t)
  <2>1. Keeps(t, "begin", "apply") /\ "begin" \in Places /\ "apply" \in Places
    BY <1>5 DEF Skip, Keeps, Between, Inside, Places
  <2>2. Rest /\ UNCHANGED data /\ UNCHANGED sc /\ UNCHANGED doubleError
    BY <1>5 DEF Skip, Rest
  <2> QED BY <1>4, <2>1, <2>2 DEF Within, Moved, Written, Counted
<1>6. CASE BeginMove(t)
  <2>1. /\ \/ Leaves(t, "begin", "cube") \/ Keeps(t, "begin", "play")
        /\ {"begin", "cube", "play"} \subseteq Places
    BY <1>6 DEF BeginMove, Keeps, Leaves, Between, Inside, Places
  <2>2. Rest /\ (UNCHANGED data \/ WriteDouble(t, 0)) /\ UNCHANGED sc /\ UNCHANGED doubleError
    BY <1>6 DEF BeginMove, Rest
  <2> QED BY <1>3, <1>4, <2>1, <2>2 DEF Within, Moved, Written, Counted
<1>7. CASE BeginDouble(t)
  <2>1. /\ \/ Leaves(t, "begin", "cube") \/ Keeps(t, "begin", "count")
        /\ {"begin", "cube", "count"} \subseteq Places
    BY <1>7 DEF BeginDouble, Keeps, Leaves, Between, Inside, Places
  <2>2. Rest /\ UNCHANGED data /\ UNCHANGED sc
    BY <1>7 DEF BeginDouble, Rest
  <2>3. Told(t)
    <3>1. esDouble(Call(t).g, Call(t).k) \in NULL..Levels
      <4>1. at[t] = "begin"
        BY <1>7 DEF BeginDouble
      <4>2. data[Call(t).g][CubeDec(Call(t).g, Call(t).k)] \in Analyses
        BY <4>1, CallTypes
      <4> QED BY <4>2, LevelsAssumption DEF esDouble, Analyses, NULL
    <3> DEFINE es == esDouble(Call(t).g, Call(t).k)
               found == IF CubeAvailable(Call(t).ms) THEN es ELSE ERR_VAL
               new == IF doubleError[t] = NULL THEN doubleError[t] ELSE found
    <3>2. UNCHANGED doubleError \/ doubleError' = [doubleError EXCEPT ![t] = new]
      BY <1>7 DEF BeginDouble
    <3>3. new \in NULL..Levels
      BY <1>1, <1>3, <3>1
    <3> HIDE DEF new
    <3> QED BY <1>4, <3>2, <3>3 DEF Told
  <2> QED BY <2>1, <2>2, <2>3 DEF Within, Moved, Written, Counted
<1>8. CASE BeginAnswer(t)
  <2>1. Keeps(t, "begin", "count") /\ {"begin", "count"} \subseteq Places
    BY <1>8 DEF BeginAnswer, Keeps, Between, Inside, Places
  <2>2. Rest /\ UNCHANGED sc /\ UNCHANGED doubleError
    BY <1>8 DEF BeginAnswer, Rest
  <2>3. UNCHANGED data \/ (Write(t, "stCube", doubleError[t]) /\ doubleError[t] \notin {NULL, ERR_VAL})
    BY <1>8 DEF BeginAnswer
  <2>4. doubleError[t] \notin {NULL, ERR_VAL} => doubleError[t] \in NotTold..Levels
    BY <1>1, LevelsAssumption DEF NULL, ERR_VAL, NotTold
  <2> QED BY <1>4, <2>1, <2>2, <2>3, <2>4 DEF Within, Moved, Written, Counted
<1>9. CASE BeginDice(t)
  <2>1. Keeps(t, "begin", "count") /\ {"begin", "count"} \subseteq Places
    BY <1>9 DEF BeginDice, Keeps, Between, Inside, Places
  <2>2. Rest /\ Write(t, "fLuck", TRUE) /\ UNCHANGED sc /\ UNCHANGED doubleError
    BY <1>9 DEF BeginDice, Rest
  <2> QED BY <1>4, <2>1, <2>2 DEF Within, Moved, Written, Counted
<1>10. CASE StoreCube(t)
  <2>1. /\ Takes(t, "cube", "play") \/ Takes(t, "cube", "count")
        /\ {"cube", "play", "count"} \subseteq Places
    BY <1>10 DEF StoreCube, Takes, Between, Inside, Places
  <2>2. Rest /\ WriteDouble(t, asked.es) /\ UNCHANGED sc
    BY <1>10 DEF StoreCube, Rest
  <2>3. Told(t)
    <3> DEFINE new == IF doubleError[t] = NULL THEN doubleError[t] ELSE asked.es
    <3>1. UNCHANGED doubleError \/ doubleError' = [doubleError EXCEPT ![t] = new]
      BY <1>10 DEF StoreCube
    <3>2. new \in NULL..Levels
      BY <1>1, <1>2
    <3> HIDE DEF new
    <3> QED BY <1>4, <3>1, <3>2 DEF Told
  <2> QED BY <1>2, <2>1, <2>2, <2>3 DEF Within, Moved, Written, Counted
<1>11. CASE Play(t)
  <2>1. /\ Leaves(t, "play", "moves") \/ Keeps(t, "play", "skill")
        /\ {"play", "moves", "skill"} \subseteq Places
    BY <1>11 DEF Play, Keeps, Leaves, Between, Inside, Places
  <2>2. Rest /\ UNCHANGED sc /\ UNCHANGED doubleError
    BY <1>11 DEF Play, Rest
  <2>3. at[t] # "idle" /\ Data(t) \in Analyses
    <3>1. at[t] # "idle"
      BY <1>11 DEF Play
    <3> QED BY <3>1, CallTypes
  <2> DEFINE ml == IF Data(t).ml = "none" THEN Data(t).ml ELSE "lost"
  <2>4. \/ data' = [data EXCEPT ![Call(t).g][Call(t).k] = [Data(t) EXCEPT !.fLuck = TRUE, !.ml = ml]]
        \/ Write(t, "fLuck", TRUE)
    BY <1>11, <2>3 DEF Play, Analyses
  <2>5. ml \in {"none", "whole", "lost"}
    BY <2>3 DEF Analyses
  <2> HIDE DEF ml
  <2>6. Written(t)
    BY <2>4, <2>5 DEF Written
  <2> QED BY <1>4, <2>1, <2>2, <2>6 DEF Within, Moved, Counted
<1>12. CASE StoreMoves(t)
  <2>1. Takes(t, "moves", "skill") /\ {"moves", "skill"} \subseteq Places
    BY <1>12 DEF StoreMoves, Takes, Between, Inside, Places
  <2>2. Rest /\ UNCHANGED sc /\ UNCHANGED doubleError
    BY <1>12 DEF StoreMoves, Rest
  <2>3. Write(t, "ml", "none") \/ Write(t, "ml", "whole")
    BY <1>12 DEF StoreMoves
  <2>4. Written(t)
    BY <2>3 DEF Written
  <2> QED BY <1>4, <2>1, <2>2, <2>4 DEF Within, Moved, Counted
<1>13. CASE EvaluationFails(t)
  <2>1. /\ Keeps(t, "cube", "failed") \/ Keeps(t, "moves", "failed")
        /\ {"cube", "moves", "failed"} \subseteq Places
    BY <1>13 DEF EvaluationFails, Keeps, Between, Inside, Places
  <2>2. Rest /\ UNCHANGED data /\ UNCHANGED sc /\ UNCHANGED doubleError
    BY <1>13 DEF EvaluationFails, Rest
  <2> QED BY <1>4, <2>1, <2>2 DEF Within, Moved, Written, Counted
<1>14. CASE Skill(t)
  <2>1. Keeps(t, "skill", "count") /\ {"skill", "count"} \subseteq Places
    BY <1>14 DEF Skill, Keeps, Between, Inside, Places
  <2>2. Rest /\ UNCHANGED sc /\ UNCHANGED doubleError /\ (UNCHANGED data \/ Write(t, "esChequer", asked.es))
    BY <1>14 DEF Skill, Rest
  <2> QED BY <1>2, <1>4, <2>1, <2>2 DEF Within, Moved, Written, Counted
<1>15. CASE Count(t)
  <2>1. Keeps(t, "count", "apply") /\ {"count", "apply"} \subseteq Places
    BY <1>15 DEF Count, Keeps, Between, Inside, Places
  <2>2. Rest /\ UNCHANGED data /\ UNCHANGED doubleError
    BY <1>15 DEF Count, Rest
  <2>3. Counted(t)
    BY <1>15 DEF Count, Counted
  <2> QED BY <1>4, <2>1, <2>2, <2>3 DEF Within, Moved, Written
<1> QED BY <1>5, <1>6, <1>7, <1>8, <1>9, <1>10, <1>11, <1>12, <1>13, <1>14, <1>15

\* A step within a task keeps every type.
LEMMA WithinTypes ==
  ASSUME Types, NEW t \in Threads, Within(t)
  PROVE  Types'
<1> USE DEF Within, Rest
<1>1. PICK from \in Places, x \in Places : Keeps(t, from, x) \/ Takes(t, from, x) \/ Leaves(t, from, x)
  BY DEF Moved
<1>2. /\ at[t] = from /\ at' = [at EXCEPT ![t] = x] /\ at[t] # "idle" /\ x \in Places \ {"idle"}
      /\ \/ lock' = lock /\ (at[t] \in Inside <=> x \in Inside)
         \/ lock = Nothing /\ lock' = t /\ x \in Inside
         \/ lock' = Nothing /\ at[t] \in Inside /\ x \notin Inside
  BY <1>1 DEF Keeps, Takes, Leaves, Between
<1>3. PICK e \in NULL..Levels : doubleError' = [doubleError EXCEPT ![t] = e]
  BY DEF Told
<1>4. WorkerTypes' /\ Locking'
  BY <1>2, <1>3, SameTaskStep
<1>5. DataTypes'
  BY <1>2, WriteTypes DEF Written
<1>6. MainTypes'
  <2>1. tasks' = tasks /\ added' = added /\ result' = result
    BY DEF pool
  <2> QED BY <2>1, MainTypesStay, PoolStays
<1>7. CountTypes' /\ lMatch' \in Matches
  <2>1. /\ Call(t).g \in DOMAIN lMatch /\ Call(t).k \in DOMAIN Moves(Call(t).g)
    BY <1>2, CallTypes
  <2> QED BY <2>1 DEF Types, CountTypes, Counted, Moves
<1> QED BY <1>4, <1>5, <1>6, <1>7 DEF Types

\* A task is done, or dropped.
LEMMA LeaveTypes ==
  ASSUME Types, NEW t \in Threads, Leave(t)
  PROVE  Types'
<1> USE DEF Leave, NoOther, MT_Release
<1>1. lMatch' = lMatch /\ lock' = Nothing /\ "apply" \in Places \ {"idle"} /\ "apply" \in Inside
  BY DEF Places, Inside
<1>2. WorkerTypes' /\ Locking'
  <2>1. CASE GoOn(t, "apply")
    BY <1>1, <2>1, GoOnTypes
  <2>2. CASE Go(t, "apply", "failed") /\ UNCHANGED <<task, doubleError>>
    <3>1. "failed" \in Places \ {"idle"} /\ "failed" \notin Inside
      BY DEF Places, Inside
    <3>2. doubleError' = [doubleError EXCEPT ![t] = doubleError[t]] /\ doubleError[t] \in NULL..Levels
      BY <2>2 DEF Types, WorkerTypes
    <3>3. at[t] = "apply" /\ at' = [at EXCEPT ![t] = "failed"] /\ UNCHANGED task
      BY <2>2 DEF Go
    <3> QED BY <1>1, <3>1, <3>2, <3>3, SameTaskStep
  <2> QED BY <2>1, <2>2
<1>3. MainTypes'
  BY MainTypesStay, PoolStays DEF pool
<1>4. DataTypes' /\ CountTypes' /\ lMatch' \in Matches
  BY DEF Types, DataTypes, CountTypes, Moves
<1> QED BY <1>2, <1>3, <1>4 DEF Types

\* MT_AbortTasks drops the tasks that wait.
LEMMA AbortTypes ==
  ASSUME Types, NEW t \in Threads, Abort(t)
  PROVE  Types'
<1> USE DEF Abort
<1>1. lMatch' = lMatch /\ lock' = lock /\ "failed" \in Places \ {"idle"} /\ "failed" \notin Inside
  BY DEF Places, Inside, records
<1>2. WorkerTypes' /\ Locking'
  BY <1>1, GoOnTypes
<1>3. tasks' \in Seq(Seq(Calls)) /\ DOMAIN tasks' = {} /\ result' \in {0, Failed} /\ added' = added
  OBVIOUS
<1>4. MainTypes'
  BY <1>1, <1>3, MainTypesStay
<1>5. DataTypes' /\ CountTypes' /\ lMatch' \in Matches
  BY DEF Types, DataTypes, CountTypes, Moves, records
<1> QED BY <1>2, <1>4, <1>5 DEF Types

\* A worker's step.
LEMMA WorkerStepTypes ==
  ASSUME Types, NEW t \in Threads, WorkerStep(t)
  PROVE  Types'
BY GetTaskTypes, EnterTypes, WithinTask, WithinTypes, LeaveTypes, AbortTypes DEF WorkerStep

\* The main thread leaves the workers alone.
LEMMA OthersStay ==
  ASSUME Types, lMatch' = lMatch
  PROVE  /\ Calls' = Calls /\ \A g : Moves(g)' = Moves(g)
         /\ UNCHANGED workers => WorkerTypes' /\ Locking'
         /\ UNCHANGED data => DataTypes'
         /\ UNCHANGED sc => CountTypes'
         /\ \A g \in DOMAIN lMatch : sc' = IniStatcontext(g) => CountTypes'
         /\ UNCHANGED user => UserTypes'
         /\ UNCHANGED pool => PoolTypes'
         /\ UNCHANGED handing /\ main' \in {main, "idle", "wait", "ended", "crashed"} => HandingTypes'
<1>1. Calls' = Calls /\ \A g : Moves(g)' = Moves(g)
  BY DEF Calls, Moves
<1>2. UNCHANGED workers => WorkerTypes' /\ Locking'
  BY <1>1 DEF workers, Types, WorkerTypes, Locking
<1>3. UNCHANGED data => DataTypes'
  BY <1>1 DEF Types, DataTypes
<1>4. UNCHANGED sc => CountTypes'
  BY <1>1 DEF Types, CountTypes
<1>5. ASSUME NEW g \in DOMAIN lMatch, sc' = IniStatcontext(g) PROVE CountTypes'
  <2>1. [k \in DOMAIN Moves(g) |-> 0] \in [DOMAIN Moves(g) -> Nat]
    OBVIOUS
  <2>2. /\ sc = [h \in DOMAIN lMatch |-> sc[h]]
        /\ \A h \in DOMAIN lMatch : sc[h] \in [DOMAIN Moves(h) -> Nat]
    BY DEF Types, CountTypes
  <2>3. sc' = [h \in DOMAIN lMatch |-> sc'[h]] /\ \A h \in DOMAIN lMatch : sc'[h] \in [DOMAIN Moves(h) -> Nat]
    BY <1>5, <2>1, <2>2 DEF IniStatcontext
  <2> QED BY <1>1, <2>3 DEF CountTypes
<1>6. UNCHANGED user => UserTypes'
  BY DEF Types, MainTypes, UserTypes, user
<1>7. UNCHANGED pool => PoolTypes'
  BY <1>1 DEF Types, MainTypes, PoolTypes, pool
<1>8. UNCHANGED handing /\ main' \in {main, "idle", "wait", "ended", "crashed"} => HandingTypes'
  BY <1>1 DEF Types, MainTypes, HandingTypes, handing, Waiting
<1> QED BY <1>1, <1>2, <1>3, <1>4, <1>5, <1>6, <1>7, <1>8

\* One command more.
LEMMA OneCommandMore ==
  ASSUME Types, nCommands < MaxCommands
  PROVE  nCommands + 1 \in 0..MaxCommands
BY LevelsAssumption DEF Types, MainTypes, UserTypes


\* MT_AddTask, of one call or of two.
LEMMA AddTaskTypes ==
  ASSUME Types, NEW calls \in Seq(Calls), Len(calls) \in 1..2, AddTask(calls)
  PROVE  /\ tasks' \in Seq(Seq(Calls)) /\ \A i \in DOMAIN tasks' : Len(tasks'[i]) \in 1..2
         /\ added' \in BOOLEAN /\ result' \in {0, Failed}
<1>1. tasks \in Seq(Seq(Calls)) /\ (\A i \in DOMAIN tasks : Len(tasks[i]) \in 1..2) /\ result \in {0, Failed}
  BY PoolStays
<1>2. tasks' = Append(tasks, calls) /\ added' = TRUE /\ result' \in {0, result}
  BY DEF AddTask
<1>3. /\ tasks' \in Seq(Seq(Calls)) /\ Len(tasks) \in Nat /\ DOMAIN tasks' = 1..(Len(tasks) + 1)
      /\ \A i \in 1..Len(tasks) : tasks'[i] = tasks[i]
      /\ tasks'[Len(tasks) + 1] = calls
  BY <1>1, <1>2
<1>4. ASSUME NEW i \in DOMAIN tasks' PROVE Len(tasks'[i]) \in 1..2
  <2>1. CASE i = Len(tasks) + 1
    BY <1>3, <2>1
  <2>2. CASE i \in 1..Len(tasks)
    <3>1. i \in DOMAIN tasks /\ tasks'[i] = tasks[i]
      BY <1>1, <1>3, <2>2
    <3> QED BY <1>1, <3>1
  <2> QED BY <1>3, <2>1, <2>2
<1> QED BY <1>1, <1>2, <1>3, <1>4

\* The commands.
LEMMA AnalyseTypes ==
  ASSUME Types, NEW scope, NEW g \in DOMAIN lMatch, NEW es \in 1..Levels, NEW players \in PlayersAsked,
         Analyse(scope, g, es, players)
  PROVE  Types'
<1> USE DEF Analyse
<1>1. /\ lMatch' = lMatch /\ UNCHANGED data /\ UNCHANGED sc /\ UNCHANGED workers /\ UNCHANGED pool
      /\ main' = "info" /\ plGame' = g /\ UNCHANGED <<plLast, msAnalyse, pParentTask>>
  BY DEF records
<1>2. UserTypes'
  <2>1. asked' \in Commands
    <3>1. es \in 0..Levels /\ players \in SUBSET Players /\ scope \in {"match", "game"}
          /\ asked' = [scope |-> scope, es |-> es, players |-> players]
      BY LevelsAssumption, AskedAssumption
    <3> HIDE DEF Analyse
    <3> QED BY <3>1 DEF Commands
  <2>2. nCommands' \in 0..MaxCommands
    BY OneCommandMore
  <2>3. told' = Failed /\ UNCHANGED <<fInterrupt, quits, freed>>
    OBVIOUS
  <2> HIDE DEF Analyse
  <2> QED BY <2>1, <2>2, <2>3 DEF Types, MainTypes, UserTypes, Commands
<1>3. HandingTypes'
  <2>1. g \in 0..Len(lMatch) /\ g > 0
    BY MatchTypes DEF Types
  <2> HIDE DEF Analyse
  <2> QED BY <1>1, <2>1, OthersStay DEF Types, MainTypes, HandingTypes, Waiting
<1> QED BY <1>1, <1>2, <1>3, OthersStay DEF Types, MainTypes

\* `analyse move` hands one record over, in the state that its replay gives.
LEMMA AnalyseMoveTypes ==
  ASSUME Types, NEW g \in DOMAIN lMatch, NEW k \in DOMAIN Moves(g), NEW es \in 1..Levels,
         AnalyseMove(g, k, es)
  PROVE  Types'
<1>1. /\ lMatch' = lMatch /\ UNCHANGED data /\ UNCHANGED sc /\ UNCHANGED workers
      /\ UNCHANGED handing /\ main' = "wait"
  BY DEF AnalyseMove, records
<1> DEFINE c == [g |-> g, k |-> k, ms |-> CalculateBoard(lMatch[g], k - 1).ms]
<1>2. c \in Calls
  <2>1. lMatch \in Matches /\ DOMAIN lMatch \subseteq Nat /\ DOMAIN Moves(g) \subseteq Nat
    BY MatchTypes DEF Types, Moves
  <2>2. CalculateBoard(lMatch[g], k - 1).ms \in MatchStates
    BY <2>1, ReplayedTypes DEF Moves
  <2> QED BY <2>1, <2>2 DEF Calls
<1>3. AddTask(<<c>>)
  BY DEF AnalyseMove
<1> HIDE DEF c
<1>4. PoolTypes'
  <2>1. <<c>> \in Seq(Calls) /\ Len(<<c>>) \in 1..2
    BY <1>2
  <2> QED BY <1>1, <1>3, <2>1, AddTaskTypes, OthersStay DEF PoolTypes
<1>5. UserTypes'
  <2>1. asked' \in Commands
    BY LevelsAssumption DEF AnalyseMove, Commands
  <2>2. nCommands' \in 0..MaxCommands
    BY OneCommandMore DEF AnalyseMove
  <2>3. told' = Failed /\ UNCHANGED <<fInterrupt, quits, freed>>
    BY DEF AnalyseMove
  <2> QED BY <2>1, <2>2, <2>3 DEF Types, MainTypes, UserTypes, Commands
<1> QED BY <1>1, <1>4, <1>5, OthersStay DEF Types, MainTypes

\* `analyse clear` forgets what was found.
LEMMA ClearTypes ==
  ASSUME Types, Clear
  PROVE  Types'
<1> USE DEF Clear
<1>1. lMatch' = lMatch /\ UNCHANGED workers /\ UNCHANGED handing /\ UNCHANGED pool /\ main' = main
  OBVIOUS
<1>2. UserTypes'
  <2>1. nCommands' \in 0..MaxCommands
    BY OneCommandMore
  <2>2. told' = Failed /\ UNCHANGED <<asked, fInterrupt, quits, freed>>
    OBVIOUS
  <2> HIDE DEF Clear
  <2> QED BY <2>1, <2>2 DEF Types, MainTypes, UserTypes, Commands
<1>3. DataTypes'
  <2>1. Unanalysed \in Analyses
    BY LevelsAssumption DEF Unanalysed, Analyses, NotTold
  <2> QED BY <1>1, <2>1 DEF DataTypes, Moves
<1>4. CountTypes'
  BY <1>1 DEF CountTypes, Moves
<1> QED BY <1>1, <1>2, <1>3, <1>4, OthersStay DEF Types, MainTypes

\* Interrupting, and quitting.
LEMMA UserStepTypes ==
  ASSUME Types, Interrupt \/ Autosave \/ Quit
  PROVE  Types'
<1>1. lMatch' = lMatch /\ UNCHANGED data /\ UNCHANGED sc /\ UNCHANGED workers
      /\ UNCHANGED pool /\ UNCHANGED handing
  BY DEF Interrupt, Autosave, Quit, records
<1>2. UNCHANGED <<asked, told>>
  BY DEF Interrupt, Autosave, Quit, user
<1>3. main' \in {main, "crashed", "ended"}
  BY DEF Interrupt, Autosave, Quit
<1>4. fInterrupt' \in BOOLEAN /\ quits' \in BOOLEAN /\ freed' \in BOOLEAN
  BY DEF Interrupt, Autosave, Quit, user, Types, MainTypes, UserTypes
<1>5. nCommands' \in 0..MaxCommands
  <2>1. nCommands' = nCommands \/ (nCommands < MaxCommands /\ nCommands' = nCommands + 1)
    BY DEF Interrupt, Autosave, Quit, user
  <2> QED BY <2>1, OneCommandMore DEF Types, MainTypes, UserTypes
<1>6. UserTypes'
  BY <1>2, <1>4, <1>5 DEF Types, MainTypes, UserTypes, Commands
<1> QED BY <1>1, <1>3, <1>6, OthersStay DEF Types, MainTypes

\* A game is begun, and ended.
LEMMA GameInfoTypes ==
  ASSUME Types, GameInfo
  PROVE  Types'
<1> USE DEF GameInfo
<1>1. lMatch' = lMatch /\ UNCHANGED data /\ UNCHANGED workers /\ UNCHANGED pool
  OBVIOUS
<1>2. /\ plGame \in DOMAIN lMatch /\ plGame \in 0..Len(lMatch) /\ plGame > 0
      /\ StartState(lMatch[plGame].info) \in MatchStates /\ Len(Moves(plGame)) \in Nat
  <2>1. plGame \in 0..Len(lMatch) /\ plGame > 0 /\ lMatch \in Matches
    BY DEF Types, MainTypes, HandingTypes
  <2> HIDE DEF GameInfo
  <2>2. plGame \in DOMAIN lMatch
    BY <2>1, MatchTypes
  <2> QED BY <2>1, <2>2, MatchTypes DEF Moves
<1>3. CountTypes'
  BY <1>1, <1>2, OthersStay
<1>4. HandingTypes'
  <2>1. plLast' = 0 /\ msAnalyse' = StartState(lMatch[plGame].info) /\ pParentTask' = <<>>
        /\ main' \in {"add", "wait", "idle"} /\ plGame' = plGame
    OBVIOUS
  <2> HIDE DEF GameInfo
  <2>2. pParentTask' \in Seq(Calls') /\ Len(pParentTask') <= 1
    BY <2>1
  <2>3. 0 <= Len(Moves(plGame)) /\ Moves(plGame)' = Moves(plGame)
    BY <1>1, <1>2, <2>1 DEF Moves
  <2>4. plLast' <= Len(Moves(plGame))'
    BY <2>1, <2>3
  <2> QED BY <1>1, <1>2, <2>1, <2>2, <2>4 DEF HandingTypes, Waiting
<1>5. UserTypes'
  <2>1. asked' \in Commands /\ fInterrupt' \in BOOLEAN
    BY DEF Types, MainTypes, UserTypes, Commands
  <2>2. UNCHANGED <<told, quits, freed, nCommands>>
    OBVIOUS
  <2> HIDE DEF GameInfo
  <2> QED BY <2>1, <2>2 DEF Types, MainTypes, UserTypes, Commands
<1> QED BY <1>1, <1>3, <1>4, <1>5, OthersStay DEF Types, MainTypes

\* After the last record of a game, on to the next.
LEMMA EndOfGameTypes ==
  ASSUME Types, EndOfGame
  PROVE  Types'
<1> USE DEF EndOfGame
<1>1. lMatch' = lMatch /\ UNCHANGED data /\ UNCHANGED sc /\ UNCHANGED workers
      /\ UNCHANGED pool /\ UNCHANGED user
  BY DEF records
<1>2. 1 \in DOMAIN lMatch /\ StartState(lMatch[1].info) \in MatchStates /\ Len(lMatch) \in Nat
  <2>1. lMatch \in Matches
    BY DEF Types
  <2> HIDE DEF EndOfGame
  <2> QED BY <2>1, MatchTypes
<1>3. HandingTypes'
  <2>1. /\ plLast' = 0 /\ msAnalyse' \in MatchStates /\ pParentTask' = <<>>
        /\ \/ plGame < Len(lMatch) /\ main' = "info" /\ plGame' = plGame + 1
           \/ main' = "wait" /\ plGame' = plGame
    BY <1>2 DEF NoGame
  <2> HIDE DEF EndOfGame
  <2>2. plGame \in 0..Len(lMatch)
    BY DEF Types, MainTypes, HandingTypes
  <2>3. plGame' \in 0..Len(lMatch) /\ (main' = "info" => plGame' > 0)
    BY <1>2, <2>1, <2>2
  <2>4. pParentTask' \in Seq(Calls') /\ Len(pParentTask') <= 1
    BY <2>1
  <2> QED BY <1>1, <2>1, <2>3, <2>4 DEF HandingTypes, Waiting
<1> QED BY <1>1, <1>3, OthersStay DEF Types, MainTypes

\* The wait ends when nothing is left to do.
LEMMA WaitEndsTypes ==
  ASSUME Types, WaitEnds
  PROVE  Types'
<1> USE DEF WaitEnds
<1>1. lMatch' = lMatch /\ UNCHANGED data /\ UNCHANGED workers /\ UNCHANGED handing
      /\ main' \in {"idle", "ended"} /\ UNCHANGED <<asked, quits, nCommands, tasks, result>>
  OBVIOUS
<1>2. UserTypes'
  <2>1. told' \in {0, Failed} /\ fInterrupt' = FALSE /\ freed' = quits
    BY DEF Types, MainTypes, PoolTypes
  <2> HIDE DEF WaitEnds
  <2> QED BY <1>1, <2>1 DEF Types, MainTypes, UserTypes, Commands
<1>3. PoolTypes'
  <2>1. added' = FALSE
    OBVIOUS
  <2> HIDE DEF WaitEnds
  <2>2. Calls' = Calls
    BY <1>1, OthersStay
  <2> QED BY <1>1, <2>1, <2>2 DEF Types, MainTypes, PoolTypes
<1>4. CountTypes'
  <2>1. sc' = sc \/ sc' = IniStatcontext(plGame)
    OBVIOUS
  <2> HIDE DEF WaitEnds
  <2>2. CASE plGame \in DOMAIN lMatch
    BY <1>1, <2>1, <2>2, OthersStay
  <2>3. CASE plGame \notin DOMAIN lMatch
    <3>1. IniStatcontext(plGame) = sc
      BY <2>3 DEF IniStatcontext, Types, CountTypes
    <3> QED BY <1>1, <2>1, <3>1, OthersStay
  <2> QED BY <2>2, <2>3
<1> QED BY <1>1, <1>2, <1>3, <1>4, OthersStay DEF Types, MainTypes

\* The record that is handed over next, and the state after it.
LEMMA NextRecord ==
  ASSUME Types, main = "add", plLast < Len(Moves(plGame))
  PROVE  /\ plGame \in DOMAIN lMatch /\ plGame \in Nat /\ plLast + 1 \in DOMAIN Moves(plGame)
         /\ plLast \in Nat /\ Len(Moves(plGame)) \in Nat
         /\ Moves(plGame)[plLast + 1] \in MoveRecords
         /\ [g |-> plGame, k |-> plLast + 1, ms |-> msAnalyse] \in Calls
         /\ AnalysedIn(msAnalyse, Moves(plGame)[plLast + 1]) \in MatchStates
         /\ Apply(AnalysedIn(msAnalyse, Moves(plGame)[plLast + 1]), plGame, Moves(plGame)[plLast + 1])
              \in MatchStates
<1>1. /\ plGame \in 0..Len(lMatch) /\ plGame > 0 /\ plLast \in Nat /\ msAnalyse \in MatchStates
      /\ lMatch \in Matches
  BY DEF Types, MainTypes, HandingTypes
<1>2. plGame \in DOMAIN lMatch /\ plGame \in Nat
  BY <1>1, MatchTypes
<1>3. /\ Len(Moves(plGame)) \in Nat /\ DOMAIN Moves(plGame) = 1..Len(Moves(plGame))
      /\ \A k \in DOMAIN Moves(plGame) : Moves(plGame)[k] \in MoveRecords
      /\ lMatch[plGame].info \in GameInfos
  BY <1>1, <1>2, MatchTypes DEF Moves
<1>4. plLast + 1 \in DOMAIN Moves(plGame) /\ plLast + 1 \in Nat
  BY <1>1, <1>3
<1>5. Moves(plGame)[plLast + 1] \in MoveRecords
  BY <1>3, <1>4
<1>6. [g |-> plGame, k |-> plLast + 1, ms |-> msAnalyse] \in Calls
  BY <1>1, <1>2, <1>4 DEF Calls
<1> DEFINE r == Moves(plGame)[plLast + 1]
           m == AnalysedIn(msAnalyse, r)
<1> HIDE DEF r
<1>7. m \in MatchStates
  BY <1>1, <1>5, AnalysedInTurned, TurnedTypes, FixMatchStateTypes DEF r
<1> HIDE DEF m
<1>8. Apply(m, plGame, r) \in MatchStates
  <2>1. ApplyMoveRecord([ms |-> m, info |-> lMatch[plGame].info], r) \in [ms : MatchStates, info : GameInfos]
    BY <1>3, <1>5, <1>7, ApplyMoveRecordTypes DEF r
  <2> QED BY <2>1 DEF Apply
<1> QED BY <1>1, <1>2, <1>3, <1>4, <1>5, <1>6, <1>7, <1>8 DEF r, m

\* A record is handed over, or waits for the answer that comes after it.
LEMMA AddRecordTypes ==
  ASSUME Types, AddRecord
  PROVE  Types'
<1> DEFINE r == Moves(plGame)[plLast + 1]
           c == [g |-> plGame, k |-> plLast + 1, ms |-> msAnalyse]
<1>1. /\ main = "add" /\ plLast < Len(Moves(plGame)) /\ plLast' = plLast + 1
      /\ HandOver(pParentTask, c, r) /\ msAnalyse' = Apply(AnalysedIn(msAnalyse, r), plGame, r)
  BY DEF AddRecord
<1>2. /\ lMatch' = lMatch /\ UNCHANGED data /\ UNCHANGED sc /\ UNCHANGED workers /\ UNCHANGED user
      /\ main' = main /\ plGame' = plGame
  BY DEF AddRecord, records
<1>3. c \in Calls /\ msAnalyse' \in MatchStates /\ plLast \in Nat /\ Len(Moves(plGame)) \in Nat
  BY <1>1, NextRecord
<1>4. pParentTask \in Seq(Calls) /\ Len(pParentTask) <= 1 /\ plGame \in 0..Len(lMatch) /\ plGame > 0
  BY <1>1 DEF Types, MainTypes, HandingTypes
<1> HIDE DEF r, c
<1>5. Append(pParentTask, c) \in Seq(Calls) /\ Len(Append(pParentTask, c)) \in 1..2
  <2>1. Append(pParentTask, c) \in Seq(Calls) /\ Len(Append(pParentTask, c)) = Len(pParentTask) + 1
    BY <1>3, <1>4
  <2>2. Len(pParentTask) \in Nat
    BY <1>4
  <2> QED BY <1>4, <2>1, <2>2
<1>6. PoolTypes'
  <2>1. CASE AddTask(Append(pParentTask, c))
    BY <1>2, <1>5, <2>1, AddTaskTypes, OthersStay DEF PoolTypes
  <2>2. CASE UNCHANGED pool
    BY <1>2, <2>2, OthersStay
  <2> QED BY <1>1, <2>1, <2>2 DEF HandOver
<1>7. pParentTask' \in Seq(Calls) /\ Len(pParentTask') <= 1
  <2>1. pParentTask' \in {<<>>, <<c>>, pParentTask}
    BY <1>1 DEF HandOver, c
  <2>2. <<>> \in Seq(Calls) /\ Len(<<>>) <= 1 /\ <<c>> \in Seq(Calls) /\ Len(<<c>>) <= 1
    BY <1>3
  <2> QED BY <1>4, <2>1, <2>2
<1>8. HandingTypes'
  <2>1. plLast' \in Nat /\ plLast' <= Len(Moves(plGame))
    BY <1>1, <1>3
  <2> QED BY <1>1, <1>2, <1>3, <1>4, <1>7, <2>1, OthersStay DEF HandingTypes, Waiting
<1> QED BY <1>2, <1>6, <1>8, OthersStay DEF Types, MainTypes

\* No step leaves the types.
LEMMA NextTypes == Types /\ [Next]_vars => Types'
<1> SUFFICES ASSUME Types, [Next]_vars PROVE Types'
  OBVIOUS
<1>1. CASE Command
  <2>1. ASSUME NEW scope \in Scopes, NEW es \in 1..Levels, NEW players \in PlayersAsked,
               NEW g \in IF scope = "match" THEN {1} ELSE DOMAIN lMatch, Analyse(scope, g, es, players)
        PROVE  Types'
    <3>1. 1 \in DOMAIN lMatch
      BY MatchTypes DEF Types
    <3>2. g \in DOMAIN lMatch
      BY <3>1
    <3> QED BY <2>1, <3>2, AnalyseTypes
  <2>2. ASSUME NEW g \in DOMAIN lMatch, NEW k \in DOMAIN Moves(g), NEW es \in 1..Levels, AnalyseMove(g, k, es)
        PROVE  Types'
    BY <2>2, AnalyseMoveTypes
  <2> QED BY <1>1, <2>1, <2>2, ClearTypes DEF Command
<1>2. CASE Interrupt \/ Autosave \/ Quit
  BY <1>2, UserStepTypes
<1>3. CASE MainStep
  BY <1>3, GameInfoTypes, AddRecordTypes, EndOfGameTypes, WaitEndsTypes DEF MainStep
<1>4. ASSUME NEW t \in Threads, WorkerStep(t) PROVE Types'
  BY <1>4, WorkerStepTypes
<1>5. CASE UNCHANGED vars
  <2>1. UNCHANGED <<records, main, handing, pool, workers, user>>
    BY <1>5 DEF vars
  <2> QED BY <2>1, OthersStay DEF records, Types, MainTypes
<1> QED BY <1>1, <1>2, <1>3, <1>4, <1>5 DEF Next

\* Every variable has its type: the tasks that wait, and what each worker has,
\* are records of the match, and what is written of them what a record holds.
THEOREM TypesHold == Spec => []TypeOK
<1>1. Types => TypeOK
  <2> SUFFICES ASSUME Types PROVE TypeOK
    OBVIOUS
  <2>1. \A g \in DOMAIN lMatch : \A k \in DOMAIN Moves(g) : data[g][k] \in Analyses /\ sc[g][k] \in Nat
    BY DEF Types, DataTypes, CountTypes
  <2>2. \A g \in DOMAIN lMatch : \A k \in DOMAIN Moves(g) :
         /\ data[g][k].esDouble \in 0..Levels /\ data[g][k].esChequer \in 0..Levels
         /\ data[g][k].ml \in {"none", "whole", "lost"} /\ data[g][k].fLuck \in BOOLEAN
         /\ data[g][k].stCube \in NotTold..Levels
         /\ sc[g][k] \in Nat
    BY <2>1 DEF Analyses
  <2>3. \A t \in Threads : Len(task[t]) <= 2 /\ doubleError[t] \in NULL..Levels
    BY DEF Types, WorkerTypes
  <2>4. lock \in Threads \cup {Nothing}
    BY DEF Types, WorkerTypes
  <2> QED BY <2>2, <2>3, <2>4 DEF TypeOK, Types, MainTypes, UserTypes, HandingTypes, PoolTypes
<1> QED BY <1>1, InitTypes, NextTypes, PTL DEF Spec

\* A worker is alone where it writes into the records and the statistics.
THEOREM OneHoldsTheLock ==
  Spec => [](\A t, u \in Threads : at[t] \in Inside /\ at[u] \in Inside => t = u)
<1>1. Types => \A t, u \in Threads : at[t] \in Inside /\ at[u] \in Inside => t = u
  BY DEF Types, Locking
<1> QED BY <1>1, InitTypes, NextTypes, PTL DEF Spec

-----------------------------------------------------------------------------
(* The match is freed at rest.                                             *)

\* When the user quits, in the wait, the program goes on to the end of the wait:
\* nobody analyses the match that is freed then.  (This is so when the wait is
\* the outermost main loop: otherwise PromptForExit ends the program at once.)
THEOREM MatchIsFreedAtRest ==
  ASSUME gtk_main_level = 1
  PROVE  Spec => []FreedAtRest
<1>1. Init => AtRest
  BY DEF Init, AtRest
<1>2. AtRest /\ [Next]_vars => AtRest'
  <2> SUFFICES ASSUME AtRest, [Next]_vars PROVE AtRest'
    OBVIOUS
  <2>1. CASE UNCHANGED vars
    BY <2>1 DEF AtRest, AllDone, vars, records, handing, pool, workers, user
  <2>2. CASE UNCHANGED freed /\ ~freed
    BY <2>2 DEF AtRest
  <2>3. CASE Command \/ Interrupt \/ Autosave \/ Quit
    <3>1. main # "ended" /\ UNCHANGED freed
      BY <2>3 DEF Command, Analyse, AnalyseMove, Clear, Interrupt, Autosave, Quit, user, Waiting
    <3> QED BY <2>2, <3>1 DEF AtRest
  <2>4. CASE GameInfo \/ AddRecord \/ EndOfGame
    <3>1. main # "ended" /\ UNCHANGED freed
      BY <2>4 DEF GameInfo, AddRecord, EndOfGame, user
    <3> QED BY <2>2, <3>1 DEF AtRest
  <2>5. CASE WaitEnds
    BY <2>5 DEF WaitEnds, AtRest, AllDone, workers
  <2>6. ASSUME NEW t \in Threads, WorkerStep(t) PROVE AtRest'
    <3>1. UNCHANGED freed
      BY <2>6 DEF WorkerStep, GetTask, Enter, Skip, BeginMove, BeginDouble, BeginAnswer, BeginDice, StoreCube,
                  Play, StoreMoves, EvaluationFails, Skill, Count, Leave, Abort, InLock, NoOther, user
    <3>2. at[t] # "idle" \/ tasks # <<>>
      BY <2>6 DEF WorkerStep, GetTask, Enter, Skip, BeginMove, BeginDouble, BeginAnswer, BeginDice, StoreCube,
                  Play, StoreMoves, EvaluationFails, Skill, Count, Leave, Abort, GoOn, Go
    <3> QED BY <2>2, <3>1, <3>2 DEF AtRest, AllDone
  <2> QED BY <2>1, <2>3, <2>4, <2>5, <2>6 DEF Next, MainStep
<1>3. AtRest => FreedAtRest
  BY DEF AtRest, FreedAtRest
<1> QED BY <1>1, <1>2, <1>3, PTL DEF Spec

-----------------------------------------------------------------------------
(* The states that records are analysed in.                                *)

\* A context is of the match, which does not change.
LEMMA SameContext ==
  ASSUME lMatch' = lMatch
  PROVE  \A c : Context(c)' = Context(c)
BY DEF Context, Moves

\* What the main thread hands over, and analyses itself.
LEMMA HandedInContext ==
  ASSUME Types, Contexts, NEW c \in Calls, Context(c), HandOver(pParentTask, c, Moves(c.g)[c.k]), lMatch' = lMatch
  PROVE  Parents' /\ Queued'
<1>1. /\ \A x : Context(x)' = Context(x)
      /\ pParentTask \in Seq(Calls) /\ tasks \in Seq(Seq(Calls)) /\ Parents /\ Queued
  BY SameContext DEF Contexts, Types, MainTypes, HandingTypes, PoolTypes
<1> DEFINE calls == Append(pParentTask, c)
<1>2. calls \in Seq(Calls) /\ \A j \in DOMAIN calls : Context(calls[j])
  <2>1. /\ DOMAIN calls = 1..(Len(pParentTask) + 1) /\ calls[Len(pParentTask) + 1] = c
        /\ \A j \in DOMAIN pParentTask : calls[j] = pParentTask[j]
        /\ DOMAIN pParentTask = 1..Len(pParentTask) /\ Len(pParentTask) \in Nat /\ calls \in Seq(Calls)
    BY <1>1
  <2> HIDE DEF calls
  <2> QED BY <1>1, <2>1 DEF Parents
<1> HIDE DEF calls
<1>3. Parents'
  <2>1. pParentTask' \in {<<>>, <<c>>, pParentTask}
    BY DEF HandOver
  <2>2. CASE pParentTask' = <<c>>
    BY <1>1, <2>2 DEF Parents
  <2>3. CASE pParentTask' = <<>> \/ pParentTask' = pParentTask
    BY <1>1, <2>3 DEF Parents
  <2> QED BY <2>1, <2>2, <2>3
<1>4. Queued'
  <2>1. tasks' = tasks \/ tasks' = Append(tasks, calls)
    BY DEF HandOver, AddTask, pool, calls
  <2>2. CASE tasks' = tasks
    BY <1>1, <2>2 DEF Queued
  <2>3. CASE tasks' = Append(tasks, calls)
    <3>1. /\ DOMAIN tasks' = 1..(Len(tasks) + 1) /\ tasks'[Len(tasks) + 1] = calls
          /\ \A i \in DOMAIN tasks : tasks'[i] = tasks[i]
          /\ DOMAIN tasks = 1..Len(tasks) /\ Len(tasks) \in Nat
      BY <1>1, <1>2, <2>3
    <3>2. ASSUME NEW i \in DOMAIN tasks', NEW j \in DOMAIN tasks'[i] PROVE Context(tasks'[i][j])
      <4>1. CASE i \in DOMAIN tasks
        BY <1>1, <3>1, <4>1 DEF Queued
      <4>2. CASE i = Len(tasks) + 1
        BY <1>2, <3>1, <4>2
      <4> QED BY <3>1, <4>1, <4>2
    <3> QED BY <1>1, <3>2 DEF Queued
  <2> QED BY <2>1, <2>2, <2>3
<1> QED BY <1>3, <1>4

\* The state after a record is the one that the replay has there, but for what
\* FixMatchState repairs for the record that follows.
LEMMA HandingGoesOn ==
  ASSUME Types, Contexts, AddRecord
  PROVE  Handing'
<1> DEFINE game == lMatch[plGame]
           k == plLast + 1
           r == Moves(plGame)[k]
           old == CalculateBoard(game, plLast)
           m == old.ms
<1>1. /\ main = "add" /\ plLast < Len(Moves(plGame)) /\ plLast' = k
      /\ msAnalyse' = Apply(AnalysedIn(msAnalyse, r), plGame, r)
      /\ lMatch' = lMatch /\ plGame' = plGame
  BY DEF AddRecord, records
<1> SUFFICES ASSUME k < Len(Moves(plGame))
             PROVE  FixMatchState(msAnalyse', Moves(plGame)[k + 1]) = CalculateBoard(game, k).ms
  BY <1>1 DEF Handing, Moves
<1>2. /\ plGame \in DOMAIN lMatch /\ k \in DOMAIN Moves(plGame) /\ plLast \in Nat
      /\ Len(Moves(plGame)) \in Nat /\ r \in MoveRecords /\ lMatch \in Matches /\ game \in Games
  BY <1>1, NextRecord, MatchTypes DEF Types
<1>3. FixMatchState(msAnalyse, r) = m
  BY <1>1 DEF Contexts, Handing
<1>4. m \in MatchStates /\ SomebodyMoves(m) /\ FixMatchState(m, r) = m
  <2>1. k - 1 = plLast /\ game.moves = Moves(plGame)
    BY <1>2 DEF Moves
  <2> QED BY <1>2, <2>1, ReplayedTypes
<1>5. r.mt # "MOVE_RESIGN"
  <2>1. k \in 1..(Len(game.moves) - 1)
    BY <1>2 DEF Moves
  <2> QED BY <1>2, <2>1, MatchesAssumption DEF Moves
<1>6. old = [ms |-> m, info |-> old.info]
  <2>1. plLast \in 0..Len(game.moves)
    BY <1>1, <1>2 DEF Moves
  <2>2. old \in [ms : MatchStates, info : GameInfos]
    BY <1>2, <2>1, CalculateBoardTypes
  <2> HIDE DEF old
  <2> QED BY <2>2
<1> HIDE DEF m, r, old, game
<1>7. msAnalyse' = ApplyMoveRecord(old, r).ms
  <2>1. msAnalyse' = ApplyMoveRecord([ms |-> Turned(m, r), info |-> lMatch[plGame].info], r).ms
    BY <1>1, <1>3, AnalysedInTurned DEF Apply
  <2>2. msAnalyse' = ApplyMoveRecord([ms |-> m, info |-> lMatch[plGame].info], r).ms
    BY <1>2, <1>4, <1>5, <2>1, AppliedTheSame
  <2> QED BY <1>2, <1>4, <1>6, <2>2, InfoIsNotRead
<1>8. CalculateBoard(game, k) = FixForNext(game, k, ApplyMoveRecord(old, r))
  BY <1>2, CalculateBoardThen DEF NextState, old, r, game, Moves
<1>9. CalculateBoard(game, k).ms = FixMatchState(ApplyMoveRecord(old, r).ms, Moves(plGame)[k + 1])
  <2>1. ApplyMoveRecord(old, r) \in [ms : MatchStates, info : GameInfos]
    <3>1. old \in [ms : MatchStates, info : GameInfos]
      <4>1. plLast \in 0..Len(game.moves)
        BY <1>1, <1>2 DEF Moves, game
      <4> QED BY <1>2, <4>1, CalculateBoardTypes DEF old
    <3>2. old.ms \in MatchStates /\ old.info \in GameInfos /\ old = [ms |-> old.ms, info |-> old.info]
      BY <3>1
    <3> QED BY <1>2, <3>2, ApplyMoveRecordTypes
  <2> QED BY <1>8, <2>1 DEF FixForNext, Moves, game
<1> QED BY <1>7, <1>9

\* A step that hands nothing over keeps what waits; a worker's step that keeps
\* its task keeps what it holds.
LEMMA ContextsStay ==
  ASSUME Contexts, lMatch' = lMatch
  PROVE  /\ UNCHANGED <<main, handing>> \/ main' # "add" => Handing'
         /\ UNCHANGED pParentTask \/ pParentTask' = <<>> => Parents'
         /\ UNCHANGED tasks => Queued'
         /\ UNCHANGED <<at, task>> => Held' /\ AnalysedInContext'
<1>1. \A c : Context(c)' = Context(c)
  BY SameContext
<1>2. UNCHANGED <<main, handing>> \/ main' # "add" => Handing'
  BY DEF Contexts, Handing, handing, Moves
<1>3. UNCHANGED pParentTask \/ pParentTask' = <<>> => Parents'
  BY <1>1 DEF Contexts, Parents
<1>4. UNCHANGED tasks => Queued'
  BY <1>1 DEF Contexts, Queued
<1>5. UNCHANGED <<at, task>> => Held'
  BY <1>1 DEF Contexts, Held
<1>6. UNCHANGED <<at, task>> => AnalysedInContext'
  BY DEF Contexts, AnalysedInContext, Call, Record, Moves
<1> QED BY <1>2, <1>3, <1>4, <1>5, <1>6

\* The steps of the main thread and of the user.
LEMMA MainContexts ==
  ASSUME Types, Contexts, Command \/ Interrupt \/ Autosave \/ Quit \/ MainStep
  PROVE  Contexts'
<1>1. lMatch' = lMatch /\ UNCHANGED <<at, task>>
  BY DEF Command, Analyse, AnalyseMove, Clear, Interrupt, Autosave, Quit, MainStep, GameInfo, AddRecord,
         EndOfGame, WaitEnds, records, workers
<1>2. Held' /\ AnalysedInContext'
  BY <1>1, ContextsStay
<1>3. CASE \/ Clear \/ Interrupt \/ Autosave \/ Quit \/ EndOfGame \/ WaitEnds
           \/ \E scope, g, es, players : Analyse(scope, g, es, players)
  <2>1. UNCHANGED tasks /\ (UNCHANGED pParentTask \/ pParentTask' = <<>>)
        /\ (UNCHANGED <<main, handing>> \/ main' # "add")
    BY <1>3 DEF Clear, Interrupt, Autosave, Quit, EndOfGame, WaitEnds, Analyse, NoGame, pool, handing
  <2> QED BY <1>1, <1>2, <2>1, ContextsStay DEF Contexts
<1>4. CASE GameInfo
  <2>1. /\ UNCHANGED tasks /\ pParentTask' = <<>> /\ plLast' = 0 /\ plGame' = plGame /\ main = "info"
        /\ msAnalyse' = StartState(lMatch[plGame].info)
    BY <1>4 DEF GameInfo, pool
  <2>2. plGame \in DOMAIN lMatch /\ lMatch \in Matches
    <3>1. plGame \in 0..Len(lMatch) /\ plGame > 0 /\ lMatch \in Matches
      BY <2>1 DEF Types, MainTypes, HandingTypes
    <3> QED BY <3>1, MatchTypes
  <2>3. Handing'
    <3> DEFINE game == lMatch[plGame]
               start == StartState(game.info)
    <3> SUFFICES ASSUME 0 < Len(game.moves)
                 PROVE  FixMatchState(start, game.moves[1]) = CalculateBoard(game, 0).ms
      BY <1>1, <2>1 DEF Handing, Moves
    <3> HIDE DEF start, game
    <3>1. CalculateBoard(game, 0) = FixForNext(game, 0, [ms |-> start, info |-> game.info])
      BY CalculateBoardFirst DEF FirstState, start
    <3> QED BY <3>1 DEF FixForNext
  <2> QED BY <1>1, <1>2, <2>1, <2>3, ContextsStay DEF Contexts
<1>5. CASE AddRecord
  <2> DEFINE c == [g |-> plGame, k |-> plLast + 1, ms |-> msAnalyse]
  <2>1. main = "add" /\ plLast < Len(Moves(plGame)) /\ HandOver(pParentTask, c, Moves(c.g)[c.k])
    BY <1>5 DEF AddRecord
  <2>2. c \in Calls /\ plLast \in Nat
    BY <2>1, NextRecord
  <2>3. Context(c)
    <3>1. FixMatchState(msAnalyse, Moves(plGame)[plLast + 1]) = CalculateBoard(lMatch[plGame], plLast).ms
      BY <2>1 DEF Contexts, Handing
    <3> QED BY <2>2, <3>1 DEF Context
  <2> HIDE DEF c
  <2>4. Parents' /\ Queued'
    BY <1>1, <2>1, <2>2, <2>3, HandedInContext
  <2> QED BY <1>2, <1>5, <2>4, HandingGoesOn DEF Contexts
<1>6. ASSUME NEW g \in DOMAIN lMatch, NEW k \in DOMAIN Moves(g), NEW es \in 1..Levels, AnalyseMove(g, k, es)
      PROVE  Contexts'
  <2> DEFINE c == [g |-> g, k |-> k, ms |-> CalculateBoard(lMatch[g], k - 1).ms]
  <2>1. main' = "wait" /\ UNCHANGED pParentTask /\ tasks' = Append(tasks, <<c>>)
    BY <1>6 DEF AnalyseMove, AddTask, handing
  <2>2. Context(c)
    BY ReplayedTypes DEF Context, Types, Moves
  <2> HIDE DEF c
  <2>3. tasks \in Seq(Seq(Calls)) /\ Queued /\ \A x : Context(x)' = Context(x)
    BY <1>1, SameContext DEF Types, MainTypes, PoolTypes, Contexts
  <2>4. /\ DOMAIN tasks' = 1..(Len(tasks) + 1) /\ tasks'[Len(tasks) + 1] = <<c>>
        /\ \A i \in DOMAIN tasks : tasks'[i] = tasks[i]
        /\ DOMAIN tasks = 1..Len(tasks) /\ Len(tasks) \in Nat
    BY <2>1, <2>3
  <2>5. ASSUME NEW i \in DOMAIN tasks', NEW j \in DOMAIN tasks'[i] PROVE Context(tasks'[i][j])
    <3>1. CASE i \in DOMAIN tasks
      BY <2>3, <2>4, <3>1 DEF Queued
    <3>2. CASE i = Len(tasks) + 1
      BY <2>2, <2>4, <3>2
    <3> QED BY <2>4, <3>1, <3>2
  <2>6. Queued'
    BY <2>3, <2>5 DEF Queued
  <2> QED BY <1>1, <1>2, <2>1, <2>6, ContextsStay DEF Contexts
<1> QED BY <1>3, <1>4, <1>5, <1>6 DEF Command, MainStep

\* The steps of a worker.
LEMMA WorkerContexts ==
  ASSUME Types, Contexts, NEW t \in Threads, WorkerStep(t)
  PROVE  Contexts'
<1>1. lMatch' = lMatch /\ UNCHANGED handing /\ main' \in {main, "crashed"}
  BY WithinTask DEF WorkerStep, GetTask, Enter, Leave, Abort, NoOther, records, Within, Rest
<1>2. Handing' /\ Parents'
  <2>1. UNCHANGED <<main, handing>> \/ main' # "add"
    BY <1>1
  <2>2. UNCHANGED pParentTask
    BY <1>1 DEF handing
  <2> QED BY <1>1, <2>1, <2>2, ContextsStay
<1>3. /\ at \in [Threads -> Places] /\ task \in [Threads -> Seq(Calls)] /\ Queued /\ Held /\ AnalysedInContext
      /\ \A c : Context(c)' = Context(c)
  BY <1>1, SameContext DEF Types, WorkerTypes, Contexts
\* It is enough to look at the worker itself.
<1>4. ASSUME NEW x, NEW q, at' = [at EXCEPT ![t] = x], task' = [task EXCEPT ![t] = q], Queued',
             \A j \in DOMAIN q : j > 1 \/ x = "enter" => Context(q[j]),
             x = "begin" => Head(q).ms = AnalysedIn(CalculateBoard(lMatch[Head(q).g], Head(q).k - 1).ms,
                                                    Moves(Head(q).g)[Head(q).k])
      PROVE  Contexts'
  <2>1. /\ at'[t] = x /\ task'[t] = q
        /\ \A u \in Threads \ {t} : at'[u] = at[u] /\ task'[u] = task[u]
    BY <1>3, <1>4
  <2>2. Held'
    <3> SUFFICES ASSUME NEW u \in Threads, NEW j \in DOMAIN task'[u], j > 1 \/ at'[u] = "enter"
                 PROVE  Context(task'[u][j])
      BY <1>3 DEF Held
    <3>1. CASE u = t
      BY <1>4, <2>1, <3>1
    <3>2. CASE u # t
      BY <1>3, <2>1, <3>2 DEF Held
    <3> QED BY <3>1, <3>2
  <2>3. AnalysedInContext'
    <3> SUFFICES ASSUME NEW u \in Threads, at'[u] = "begin"
                 PROVE  Head(task'[u]).ms
                          = AnalysedIn(CalculateBoard(lMatch[Head(task'[u]).g], Head(task'[u]).k - 1).ms,
                                       Moves(Head(task'[u]).g)[Head(task'[u]).k])
      BY <1>1 DEF AnalysedInContext, Call, Record, Moves
    <3>1. CASE u = t
      BY <1>4, <2>1, <3>1
    <3>2. CASE u # t
      BY <1>3, <2>1, <3>2 DEF AnalysedInContext, Call, Record
    <3> QED BY <3>1, <3>2
  <2> QED BY <1>2, <1>4, <2>2, <2>3 DEF Contexts
<1>5. CASE GetTask(t)
  <2>1. /\ tasks # <<>> /\ tasks' = Tail(tasks) /\ at' = [at EXCEPT ![t] = "enter"]
        /\ task' = [task EXCEPT ![t] = Head(tasks)]
    BY <1>5 DEF GetTask, Go
  <2>2. tasks \in Seq(Seq(Calls))
    BY DEF Types, MainTypes, PoolTypes
  <2>3. /\ Head(tasks) = tasks[1] /\ 1 \in DOMAIN tasks
        /\ \A i \in DOMAIN tasks' : i + 1 \in DOMAIN tasks /\ tasks'[i] = tasks[i + 1]
    BY <2>1, <2>2, TailTypes
  <2>4. Queued'
    BY <1>3, <2>3 DEF Queued
  <2>5. \A j \in DOMAIN Head(tasks) : Context(Head(tasks)[j])
    BY <1>3, <2>3 DEF Queued
  <2> QED BY <1>4, <2>1, <2>4, <2>5
<1>6. CASE Enter(t)
  <2> DEFINE c == [Call(t) EXCEPT !.ms = AnalysedIn(@, Record(t))]
             q == <<c>> \o Tail(task[t])
  <2>1. /\ at[t] = "enter" /\ at' = [at EXCEPT ![t] = "begin"] /\ task' = [task EXCEPT ![t] = q]
        /\ UNCHANGED tasks
    BY <1>6 DEF Enter, Go, NoOther, pool
  <2>2. /\ task[t] \in Seq(Calls) /\ task[t] # <<>> /\ Call(t) \in Calls /\ Call(t) = task[t][1]
        /\ Record(t) = Moves(Call(t).g)[Call(t).k]
    BY <2>1, CallTypes DEF Record
  <2>3. c.g = Call(t).g /\ c.k = Call(t).k /\ c.ms = AnalysedIn(Call(t).ms, Record(t))
    BY <2>2 DEF Calls
  <2> HIDE DEF c
  <2>4. /\ Head(q) = c
        /\ \A j \in DOMAIN q : j > 1 => j \in DOMAIN task[t] /\ q[j] = task[t][j]
    <3>1. /\ Len(task[t]) \in Nat \ {0} /\ Len(Tail(task[t])) = Len(task[t]) - 1
          /\ Tail(task[t]) \in Seq(Calls) /\ DOMAIN task[t] = 1..Len(task[t])
          /\ \A j \in 1..(Len(task[t]) - 1) : Tail(task[t])[j] = task[t][j + 1]
      BY <2>2
    <3> DEFINE rest == Tail(task[t])
               n == Len(task[t])
    <3>2. rest \in Seq(Calls) /\ Len(rest) = n - 1 /\ n \in Nat \ {0}
          /\ \A j \in 1..(n - 1) : rest[j] = task[t][j + 1]
      BY <3>1
    <3> HIDE DEF rest, n
    <3>3. <<c>> \o rest = [j \in 1..(1 + Len(rest)) |-> IF j <= 1 THEN <<c>>[j] ELSE rest[j - 1]]
      BY <3>2
    <3>4. \A j \in 1..n : (<<c>> \o rest)[j] = IF j <= 1 THEN <<c>>[j] ELSE rest[j - 1]
      BY <3>2, <3>3
    <3>5. DOMAIN (<<c>> \o rest) = 1..n /\ (<<c>> \o rest)[1] = c
      BY <3>2, <3>3
    <3>6. \A j \in 1..n : j > 1 => (<<c>> \o rest)[j] = task[t][j]
      BY <3>2, <3>4
    <3> QED BY <3>1, <3>5, <3>6 DEF rest, n
  <2>5. Context(Call(t))
    BY <1>3, <2>1, <2>2 DEF Held
  <2>6. Head(q).ms = AnalysedIn(CalculateBoard(lMatch[Head(q).g], Head(q).k - 1).ms,
                                Moves(Head(q).g)[Head(q).k])
    <3> DEFINE g == Call(t).g
               k == Call(t).k
               m == CalculateBoard(lMatch[g], k - 1).ms
    <3>1. g \in DOMAIN lMatch /\ k \in DOMAIN lMatch[g].moves /\ lMatch \in Matches
      BY <2>2 DEF Calls, Types, Moves
    <3>2. FixMatchState(Call(t).ms, Record(t)) = m
      BY <2>2, <2>5 DEF Context
    <3>3. FixMatchState(m, Record(t)) = m
      BY <2>2, <3>1, ReplayedTypes DEF Moves
    <3> HIDE DEF m
    <3>4. AnalysedIn(Call(t).ms, Record(t)) = AnalysedIn(m, Record(t))
      BY <3>2, <3>3, AnalysedInTurned
    <3> QED BY <2>2, <2>3, <2>4, <3>4 DEF m
  <2>7. \A j \in DOMAIN q : j > 1 => Context(q[j])
    BY <1>3, <2>4 DEF Held
  <2>8. Queued'
    BY <1>1, <2>1, ContextsStay
  <2> HIDE DEF q
  <2>9. PICK x : x = "begin" /\ at' = [at EXCEPT ![t] = x]
    BY <2>1
  <2>10. task' = [task EXCEPT ![t] = q]
    BY <2>1
  <2>11. \A j \in DOMAIN q : j > 1 \/ x = "enter" => Context(q[j])
    BY <2>7, <2>9
  <2> QED BY <1>4, <2>6, <2>8, <2>9, <2>10, <2>11
<1>7. CASE Within(t)
  <2>1. PICK x \in Places \ {"enter", "begin"} : at' = [at EXCEPT ![t] = x]
    BY <1>7 DEF Within, Moved, Keeps, Takes, Leaves, Between
  <2>2. UNCHANGED <<tasks, task>>
    BY <1>7 DEF Within, Rest, pool
  <2>3. task' = [task EXCEPT ![t] = task[t]] /\ \A j \in DOMAIN task[t] : j > 1 => Context(task[t][j])
    BY <1>3, <2>2 DEF Held
  <2>4. Queued'
    BY <1>1, <2>2, ContextsStay
  <2> QED BY <1>4, <2>1, <2>3, <2>4
<1>8. CASE Leave(t) \/ Abort(t)
  <2>1. Queued'
    <3>1. tasks' = tasks \/ tasks' = <<>>
      BY <1>8 DEF Leave, Abort, NoOther, pool
    <3> QED BY <1>1, <1>3, <3>1, ContextsStay DEF Queued
  <2>2. CASE \E from : GoOn(t, from) /\ from # "idle"
    <3>1. PICK x \in {"enter", "idle"} : at' = [at EXCEPT ![t] = x]
      BY <2>2 DEF GoOn, Go
    <3>2. at[t] # "idle" /\ task' = [task EXCEPT ![t] = Tail(task[t])]
      BY <1>3, <2>2 DEF GoOn, Go
    <3>3. task[t] \in Seq(Calls) /\ task[t] # <<>>
      BY <3>2, CallTypes
    <3>4. \A j \in DOMAIN Tail(task[t]) : /\ j + 1 \in DOMAIN task[t] /\ j + 1 > 1
                                          /\ Tail(task[t])[j] = task[t][j + 1]
      BY <3>3, TailTypes
    <3>5. \A j \in DOMAIN Tail(task[t]) : Context(Tail(task[t])[j])
      BY <1>3, <3>4 DEF Held
    <3> QED BY <1>4, <2>1, <3>1, <3>2, <3>5
  <2>3. CASE Go(t, "apply", "failed") /\ UNCHANGED task
    <3>1. PICK x : x = "failed" /\ at' = [at EXCEPT ![t] = x]
      BY <2>3 DEF Go
    <3>2. task' = [task EXCEPT ![t] = task[t]] /\ \A j \in DOMAIN task[t] : j > 1 => Context(task[t][j])
      BY <1>3, <2>3 DEF Held
    <3>3. \A j \in DOMAIN task[t] : j > 1 \/ x = "enter" => Context(task[t][j])
      BY <3>1, <3>2
    <3> QED BY <1>4, <2>1, <3>1, <3>2, <3>3
  <2> QED BY <1>8, <2>2, <2>3 DEF Leave, Abort
<1> QED BY <1>5, <1>6, <1>7, <1>8, WithinTask DEF WorkerStep

\* At the start nothing is handed over, queued or analysed.
LEMMA InitContexts == Init => Contexts
<1> SUFFICES ASSUME Init PROVE Contexts
  OBVIOUS
<1>1. DOMAIN pParentTask = {} /\ DOMAIN tasks = {} /\ main = "idle"
      /\ \A t \in Threads : DOMAIN task[t] = {} /\ at[t] = "idle"
  BY DEF Init
<1> QED BY <1>1 DEF Contexts, Handing, Parents, Queued, Held, AnalysedInContext

\* Every step keeps the states that the calls are made with.
LEMMA NextContexts == Types /\ Contexts /\ [Next]_vars => Contexts'
<1> SUFFICES ASSUME Types, Contexts, [Next]_vars PROVE Contexts'
  OBVIOUS
<1>1. CASE UNCHANGED vars
  <2>1. lMatch' = lMatch /\ UNCHANGED <<main, handing>> /\ UNCHANGED pParentTask /\ UNCHANGED tasks
        /\ UNCHANGED <<at, task>>
    BY <1>1 DEF vars, records, handing, pool, workers
  <2> QED BY <2>1, ContextsStay DEF Contexts
<1> QED BY <1>1, MainContexts, WorkerContexts DEF Next

\* Tasks are analysed in any order while the main thread has gone on, and each
\* record is seen in the state that replaying its game up to it gives.
THEOREM RecordsAreSeenInContext == Spec => []AnalysedInContext
<1>1. Contexts => AnalysedInContext
  BY DEF Contexts
<1> QED BY <1>1, InitContexts, NextContexts, InitTypes, NextTypes, PTL DEF Spec

-----------------------------------------------------------------------------
(* Chains of doubles.                                                      *)

Answers == {"MOVE_TAKE", "MOVE_DROP"}
Kind(g, k) == Moves(g)[k].mt
IsFirst(g, k) == Kind(g, k) = "MOVE_DOUBLE" /\ ~(k > 1 /\ Kind(g, k - 1) = "MOVE_DOUBLE")
Chain(g, k, n) == \A j \in k..n : Kind(g, j) = "MOVE_DOUBLE"
Linked(g, j) == j > 1 /\ Kind(g, j) \in Answers \cup {"MOVE_DOUBLE"} /\ Kind(g, j - 1) = "MOVE_DOUBLE"

IsDecs(f, g, n) == f = [j \in 1..n |-> IF Linked(g, j) THEN f[j - 1] ELSE j]

\* The function that CubeDec is defined by exists,
LEMMA DecsExist ==
  ASSUME NEW g, NEW n \in Nat
  PROVE  \E f : IsDecs(f, g, n)
<1> DEFINE S == {m \in Nat : \E f : IsDecs(f, g, m)}
<1>1. 0 \in S
  <2>1. IsDecs([j \in 1..0 |-> j], g, 0)
    BY DEF IsDecs
  <2> QED BY <2>1
<1>2. ASSUME NEW m \in Nat, m \in S PROVE m + 1 \in S
  <2>1. PICK f : IsDecs(f, g, m)
    BY <1>2
  <2> DEFINE h == [j \in 1..(m + 1) |-> IF j = m + 1 THEN (IF Linked(g, j) THEN f[m] ELSE j) ELSE f[j]]
  <2>2. ASSUME NEW j \in 1..(m + 1) PROVE h[j] = IF Linked(g, j) THEN h[j - 1] ELSE j
    <3>1. Linked(g, j) => j > 1
      BY DEF Linked
    <3>2. CASE j = m + 1
      BY <3>1, <3>2
    <3>3. CASE j \in 1..m
      BY <2>1, <3>1, <3>3 DEF IsDecs
    <3> QED BY <3>2, <3>3
  <2>3. IsDecs(h, g, m + 1)
    BY <2>2 DEF IsDecs
  <2> HIDE DEF h
  <2> QED BY <2>3
<1> HIDE DEF S
<1>3. n \in S
  BY <1>1, <1>2, AllNumbers
<1> QED BY <1>3 DEF S

\* and two of them agree as far as both go.
LEMMA DecsAgree ==
  ASSUME NEW g, NEW m \in Nat, NEW n \in Nat, NEW f, NEW h, IsDecs(f, g, m), IsDecs(h, g, n)
  PROVE  \A j \in 1..m : j \in 1..n => f[j] = h[j]
<1> DEFINE T == {j \in 1..m : j \in 1..n /\ f[j] # h[j]}
<1>1. SUFFICES ASSUME T # {} PROVE FALSE
  OBVIOUS
<1>2. PICK x \in T : \A y \in T : x <= y
  <2>1. T \in SUBSET Nat
    OBVIOUS
  <2> HIDE DEF T
  <2> QED BY <1>1, <2>1, LeastNumber
<1>3. Linked(g, x)
  BY <1>2 DEF IsDecs
<1>4. x - 1 \in 1..m /\ x - 1 \in 1..n /\ x - 1 \notin T
  BY <1>2, <1>3 DEF Linked
<1> QED BY <1>2, <1>3, <1>4 DEF IsDecs

\* CubeDec, unfolded once.
LEMMA CubeDecIs ==
  ASSUME NEW g, NEW k \in Nat \ {0}
  PROVE  CubeDec(g, k) = IF Linked(g, k) THEN CubeDec(g, k - 1) ELSE k
<1>1. ASSUME NEW n \in Nat \ {0} PROVE \E f : IsDecs(f, g, n) /\ CubeDec(g, n) = f[n]
  <2> DEFINE F(f, j) == IF /\ j > 1 /\ Moves(g)[j].mt \in {"MOVE_DOUBLE", "MOVE_TAKE", "MOVE_DROP"}
                           /\ Moves(g)[j - 1].mt = "MOVE_DOUBLE"
                        THEN f[j - 1] ELSE j
             first == CHOOSE f : f = [j \in 1..n |-> F(f, j)]
  <2>1. CubeDec(g, n) = first[n]
    BY DEF CubeDec
  <2>2. \A f : IsDecs(f, g, n) <=> f = [j \in 1..n |-> F(f, j)]
    BY DEF IsDecs, Linked, Kind, Answers
  <2>3. first = [j \in 1..n |-> F(first, j)]
    <3> HIDE DEF F
    <3> QED BY <2>2, DecsExist
  <2> HIDE DEF first, F
  <2> QED BY <2>1, <2>2, <2>3
<1>2. PICK f : IsDecs(f, g, k) /\ CubeDec(g, k) = f[k]
  BY <1>1
<1>3. CASE ~Linked(g, k)
  BY <1>2, <1>3 DEF IsDecs
<1>4. CASE Linked(g, k)
  <2>1. k - 1 \in Nat \ {0}
    BY <1>4 DEF Linked
  <2>2. PICK h : IsDecs(h, g, k - 1) /\ CubeDec(g, k - 1) = h[k - 1]
    BY <1>1, <2>1
  <2>3. f[k - 1] = h[k - 1]
    BY <1>2, <2>1, <2>2, DecsAgree
  <2> QED BY <1>2, <1>4, <2>2, <2>3 DEF IsDecs
<1> QED BY <1>3, <1>4

\* A record that shares its CubeDecPtr shares that of the first double of the
\* chain before it.
LEMMA CubeDecOfChain ==
  ASSUME NEW g, NEW k \in Nat \ {0}
  PROVE  /\ ~Linked(g, k) => CubeDec(g, k) = k
         /\ Linked(g, k) => /\ CubeDec(g, k) \in 1..(k - 1) /\ IsFirst(g, CubeDec(g, k))
                            /\ Chain(g, CubeDec(g, k), k - 1)
<1> DEFINE Good(n) == Linked(g, n) => /\ CubeDec(g, n) \in 1..(n - 1) /\ IsFirst(g, CubeDec(g, n))
                                      /\ Chain(g, CubeDec(g, n), n - 1)
           S == {n \in Nat : n = 0 \/ Good(n)}
<1>1. 0 \in S
  OBVIOUS
<1>2. ASSUME NEW n \in Nat, n \in S PROVE n + 1 \in S
  <2> SUFFICES ASSUME Linked(g, n + 1) PROVE Good(n + 1)
    OBVIOUS
  <2>1. n > 0 /\ Kind(g, n) = "MOVE_DOUBLE" /\ CubeDec(g, n + 1) = CubeDec(g, n)
    BY CubeDecIs DEF Linked
  <2>2. CASE Linked(g, n)
    <3>1. CubeDec(g, n) \in 1..(n - 1) /\ IsFirst(g, CubeDec(g, n)) /\ Chain(g, CubeDec(g, n), n - 1)
      BY <1>2, <2>1, <2>2
    <3> QED BY <2>1, <3>1 DEF Chain
  <2>3. CASE ~Linked(g, n)
    <3>1. CubeDec(g, n) = n
      BY <2>1, <2>3, CubeDecIs
    <3> QED BY <2>1, <2>3, <3>1 DEF Chain, IsFirst, Linked
  <2> QED BY <2>2, <2>3
<1> HIDE DEF S
<1>3. k \in S
  BY <1>1, <1>2, AllNumbers
<1> QED BY <1>3, CubeDecIs DEF S

\* The first of a chain of doubles is the CubeDecPtr of the answer alone.
LEMMA OneAnswer ==
  ASSUME NEW g, NEW s \in Nat \ {0}, NEW k \in Nat \ {0}, s < k, IsFirst(g, s), Chain(g, s, k - 1),
         Kind(g, k) # "MOVE_DOUBLE"
  PROVE  /\ CubeDec(g, s) = s
         /\ Kind(g, k) \in Answers => CubeDec(g, k) = s
         /\ \A j \in Nat \ {0} : CubeDec(g, j) = s /\ j # s /\ Kind(g, j) # "MOVE_DOUBLE" => j = k
<1>1. CubeDec(g, s) = s
  BY CubeDecIs DEF IsFirst, Linked
<1>2. ASSUME Kind(g, k) \in Answers PROVE CubeDec(g, k) = s
  <2>1. k - 1 \in s..(k - 1)
    OBVIOUS
  <2>2. Linked(g, k)
    BY <1>2, <2>1 DEF Linked, Chain
  <2> DEFINE c == CubeDec(g, k)
  <2>3. c \in 1..(k - 1) /\ IsFirst(g, c) /\ Chain(g, c, k - 1)
    BY <2>2, CubeDecOfChain
  <2> HIDE DEF c
  <2>4. ~(c < s)
    <3> SUFFICES ASSUME c < s PROVE FALSE
      OBVIOUS
    <3>1. s - 1 \in c..(k - 1) /\ s > 1
      BY <2>3
    <3> QED BY <2>3, <3>1 DEF Chain, IsFirst
  <2>5. ~(s < c)
    <3> SUFFICES ASSUME s < c PROVE FALSE
      OBVIOUS
    <3>1. c - 1 \in s..(k - 1) /\ c > 1
      BY <2>3
    <3> QED BY <2>3, <3>1 DEF Chain, IsFirst
  <2> QED BY <2>3, <2>4, <2>5 DEF c
<1>3. ASSUME NEW j \in Nat \ {0}, CubeDec(g, j) = s, j # s, Kind(g, j) # "MOVE_DOUBLE" PROVE j = k
  <2>1. s \in 1..(j - 1) /\ Chain(g, s, j - 1)
    BY <1>3, CubeDecOfChain
  <2>2. ~(j < k)
    BY <1>3, <2>1 DEF Chain
  <2>3. ~(k < j)
    BY <2>1 DEF Chain
  <2> QED BY <2>2, <2>3
<1> QED BY <1>1, <1>2, <1>3

-----------------------------------------------------------------------------
(* Whether a double is offered, and the value of the cube: what a record   *)
(* makes of them depends on nothing else.                                  *)

OffersAfter(doubled, cube, r) ==
    \/ r.mt = "MOVE_DOUBLE" /\ (doubled \/ cube < MAX_CUBE)
    \/ r.mt \in {"MOVE_RESIGN", "MOVE_SETBOARD"} /\ doubled
CubeAfter(doubled, cube, r) ==
    CASE r.mt = "MOVE_DOUBLE"     -> IF doubled /\ cube < MAX_CUBE THEN 2 * cube ELSE cube
      [] r.mt = "MOVE_TAKE"       -> IF doubled THEN 2 * cube ELSE cube
      [] r.mt = "MOVE_SETCUBEVAL" -> r.nCube
      [] OTHER                    -> cube

\* A record applied to a match state.
LEMMA CubeStep ==
  ASSUME NEW m \in MatchStates, NEW r \in MoveRecords, NEW info
  PROVE  LET n == ApplyMoveRecord([ms |-> m, info |-> info], r).ms
         IN /\ n.fDoubled = OffersAfter(m.fDoubled, m.nCube, r)
            /\ n.nCube = CubeAfter(m.fDoubled, m.nCube, r)
            /\ r.mt = "MOVE_DOUBLE" /\ m.fMove = r.fPlayer /\ ~m.fDoubled /\ m.nCube < MAX_CUBE =>
                 n.fMove = r.fPlayer /\ n.fTurn = Opponent(r.fPlayer)
<1> DEFINE p == [m EXCEPT !.gs = "GAME_PLAYING", !.fResigned = 0, !.fResignationDeclined = 0]
           g == ApplyMoveRecord([ms |-> m, info |-> info], r)
           n == g.ms
<1>1. /\ p \in MatchStates /\ p.fDoubled = m.fDoubled /\ p.nCube = m.nCube /\ p.fMove = m.fMove
      /\ p.fDoubled \in BOOLEAN /\ p.nCube \in Nat
  BY DEF MatchStates
<1>2. MAX_CUBE \in Nat
  <2>1. PICK k \in 0..15 : MAX_CUBE = 2 ^ k
    BY MaxCubeAssumption
  <2> QED BY <2>1, PowersOfTwo
<1>3. ASSUME NEW x, "fDoubled" \in DOMAIN x, "nCube" \in DOMAIN x, NEW gs, NEW w, NEW k
      PROVE  Ended(x, info, gs, w, k).ms.fDoubled = x.fDoubled /\ Ended(x, info, gs, w, k).ms.nCube = x.nCube
  BY <1>3 DEF Ended
<1> DEFINE offers == OffersAfter(m.fDoubled, m.nCube, r)
           cube == CubeAfter(m.fDoubled, m.nCube, r)
           doubles == r.mt = "MOVE_DOUBLE" /\ m.fMove = r.fPlayer /\ ~m.fDoubled /\ m.nCube < MAX_CUBE
<1>4. CASE r.mt = "MOVE_DOUBLE"
  <2>1. n = ApplyDouble(p, r)
    BY <1>4 DEF ApplyMoveRecord
  <2> HIDE DEF p, n
  <2>2. CASE p.nCube >= MAX_CUBE
    <3>1. n.fDoubled = p.fDoubled /\ n.nCube = p.nCube
      BY <1>1, <2>1, <2>2 DEF ApplyDouble, MatchStates
    <3>2. offers = p.fDoubled
      <4>1. CASE p.fDoubled
        BY <1>1, <1>4, <4>1 DEF OffersAfter
      <4>2. CASE ~p.fDoubled
        <5>1. ~(m.nCube < MAX_CUBE) /\ ~m.fDoubled
          BY <1>1, <1>2, <2>2, <4>2
        <5>2. ~offers
          BY <1>4, <5>1 DEF OffersAfter
        <5> QED BY <1>1, <4>2, <5>2 DEF OffersAfter
      <4> QED BY <4>1, <4>2
    <3>3. cube = p.nCube /\ ~doubles
      BY <1>1, <1>2, <1>4, <2>2 DEF CubeAfter
    <3> QED BY <3>1, <3>2, <3>3 DEF n
  <2>3. CASE p.nCube < MAX_CUBE /\ p.fDoubled
    <3> DEFINE mover == IF p.fMove = Nobody THEN r.fPlayer ELSE p.fMove
               twice == [p EXCEPT !.fMove = mover, !.cBeavers = @ + 1, !.nCube = 2 * @, !.fCubeOwner = Opponent(mover)]
    <3>1. n = [twice EXCEPT !.fTurn = Opponent(r.fPlayer)]
      BY <1>1, <1>2, <2>1, <2>3 DEF ApplyDouble
    <3>2. twice.fDoubled = p.fDoubled /\ twice.nCube = 2 * p.nCube
          /\ "fDoubled" \in DOMAIN twice /\ "nCube" \in DOMAIN twice
      BY <1>1 DEF MatchStates
    <3> HIDE DEF twice
    <3>3. n.fDoubled = p.fDoubled /\ n.nCube = 2 * p.nCube
      BY <3>1, <3>2
    <3>4. offers = p.fDoubled
      BY <1>1, <1>4, <2>3 DEF OffersAfter
    <3>5. cube = 2 * p.nCube /\ ~doubles
      BY <1>1, <1>4, <2>3 DEF CubeAfter
    <3> QED BY <3>3, <3>4, <3>5 DEF n
  <2>4. CASE p.nCube < MAX_CUBE /\ ~p.fDoubled
    <3>1. n.fDoubled = TRUE /\ n.nCube = p.nCube /\ n.fTurn = Opponent(r.fPlayer)
      BY <1>1, <1>2, <2>1, <2>4 DEF ApplyDouble, MatchStates
    <3>2. m.fMove = r.fPlayer => n.fMove = r.fPlayer
      BY <1>1, <1>2, <2>1, <2>4 DEF ApplyDouble, MatchStates
    <3>3. offers = TRUE
      BY <1>1, <1>4, <2>4 DEF OffersAfter
    <3>4. cube = p.nCube
      BY <1>1, <1>4, <2>4 DEF CubeAfter
    <3> QED BY <3>1, <3>2, <3>3, <3>4 DEF n
  <2> QED BY <1>1, <1>2, <2>2, <2>3, <2>4
<1>5. CASE r.mt = "MOVE_TAKE"
  <2>1. n = ApplyTake(p)
    BY <1>5 DEF ApplyMoveRecord
  <2>2. offers = FALSE /\ ~doubles
    BY <1>5 DEF OffersAfter
  <2>3. cube = IF p.fDoubled THEN 2 * p.nCube ELSE p.nCube
    BY <1>1, <1>5 DEF CubeAfter
  <2> HIDE DEF p, n
  <2>4. n.fDoubled = FALSE /\ n.nCube = IF p.fDoubled THEN 2 * p.nCube ELSE p.nCube
    <3>1. CASE p.fDoubled
      BY <1>1, <2>1, <3>1 DEF ApplyTake, MatchStates
    <3>2. CASE ~p.fDoubled
      BY <1>1, <2>1, <3>2 DEF ApplyTake
    <3> QED BY <3>1, <3>2
  <2> QED BY <2>2, <2>3, <2>4 DEF n
<1>6. CASE r.mt = "MOVE_DROP"
  <2>1. g = ApplyDrop(p, info, r)
    BY <1>6 DEF ApplyMoveRecord
  <2>2. offers = FALSE /\ ~doubles
    BY <1>6 DEF OffersAfter
  <2>3. cube = p.nCube
    BY <1>1, <1>6 DEF CubeAfter
  <2> HIDE DEF p, g
  <2>4. g.ms.fDoubled = FALSE /\ g.ms.nCube = p.nCube
    <3>1. CASE p.fDoubled
      <4> DEFINE x == [p EXCEPT !.fDoubled = FALSE, !.cBeavers = 0]
      <4>1. "fDoubled" \in DOMAIN x /\ "nCube" \in DOMAIN x /\ x.fDoubled = FALSE /\ x.nCube = p.nCube
        BY <1>1 DEF MatchStates
      <4>2. g = Ended(x, info, "GAME_DROP", Opponent(r.fPlayer), p.nCube)
        BY <2>1, <3>1 DEF ApplyDrop
      <4> HIDE DEF x
      <4> QED BY <1>3, <4>1, <4>2
    <3>2. CASE ~p.fDoubled
      BY <1>1, <2>1, <3>2 DEF ApplyDrop
    <3> QED BY <3>1, <3>2
  <2> QED BY <2>2, <2>3, <2>4 DEF g
<1>7. CASE r.mt = "MOVE_NORMAL"
  <2>1. g = ApplyNormal(p, info, r)
    BY <1>7 DEF ApplyMoveRecord
  <2>2. offers = FALSE /\ ~doubles
    BY <1>7 DEF OffersAfter
  <2>3. cube = p.nCube
    BY <1>1, <1>7 DEF CubeAfter
  <2> DEFINE old == [p EXCEPT !.fDoubled = FALSE]
             moved == PlayMove(old, r)
             x == [moved EXCEPT !.anDice = 0]
  <2> HIDE DEF p, g
  <2>4. old.fDoubled = FALSE /\ old.nCube = p.nCube /\ "fDoubled" \in DOMAIN old /\ "nCube" \in DOMAIN old
    BY <1>1 DEF MatchStates
  <2>5. \/ g = [ms |-> x, info |-> info]
        \/ \E w, k : g = Ended(x, info, "GAME_OVER", w, k)
    <3>1. \/ ApplyNormal(p, info, r) = [ms |-> x, info |-> info]
          \/ \E k : ApplyNormal(p, info, r) = Ended(x, info, "GAME_OVER", r.fPlayer, k)
      <4> HIDE DEF x
      <4> QED BY DEF ApplyNormal, x
    <3> QED BY <2>1, <3>1
  <2> HIDE DEF old
  <2>6. moved.fDoubled = FALSE /\ moved.nCube = p.nCube /\ "fDoubled" \in DOMAIN moved /\ "nCube" \in DOMAIN moved
    BY <2>4 DEF PlayMove
  <2> HIDE DEF moved
  <2>7. x.fDoubled = FALSE /\ x.nCube = p.nCube /\ "fDoubled" \in DOMAIN x /\ "nCube" \in DOMAIN x
    BY <2>6
  <2> HIDE DEF x
  <2>8. g.ms.fDoubled = FALSE /\ g.ms.nCube = p.nCube
    <3>1. CASE g = [ms |-> x, info |-> info]
      BY <2>7, <3>1
    <3>2. CASE \E w, k : g = Ended(x, info, "GAME_OVER", w, k)
      BY <1>3, <2>7, <3>2
    <3> QED BY <2>5, <3>1, <3>2
  <2> QED BY <2>2, <2>3, <2>8 DEF g
<1>8. CASE r.mt = "MOVE_RESIGN"
  <2>1. g = ApplyResign(p, info, r)
    BY <1>8 DEF ApplyMoveRecord
  <2>2. offers = p.fDoubled /\ ~doubles
    BY <1>1, <1>8 DEF OffersAfter
  <2>3. cube = p.nCube
    BY <1>1, <1>8 DEF CubeAfter
  <2> DEFINE x == [p EXCEPT !.fResigned = r.nResigned]
  <2> HIDE DEF p, g
  <2>4. "fDoubled" \in DOMAIN x /\ "nCube" \in DOMAIN x /\ x.fDoubled = p.fDoubled /\ x.nCube = p.nCube
    BY <1>1 DEF MatchStates
  <2>5. g = Ended(x, info, "GAME_RESIGNED", Opponent(r.fPlayer), p.nCube * r.nResigned)
    BY <2>1 DEF ApplyResign
  <2> HIDE DEF x
  <2>6. g.ms.fDoubled = p.fDoubled /\ g.ms.nCube = p.nCube
    BY <1>3, <2>4, <2>5
  <2> QED BY <2>2, <2>3, <2>6 DEF g
<1>9. CASE r.mt = "MOVE_SETBOARD"
  <2>1. n = ApplySetBoard(p, r)
    BY <1>9 DEF ApplyMoveRecord
  <2>2. offers = p.fDoubled /\ ~doubles
    BY <1>1, <1>9 DEF OffersAfter
  <2>3. cube = p.nCube
    BY <1>1, <1>9 DEF CubeAfter
  <2> HIDE DEF p, n
  <2>4. n.fDoubled = p.fDoubled /\ n.nCube = p.nCube
    BY <1>1, <2>1 DEF ApplySetBoard, MatchStates
  <2> QED BY <2>2, <2>3, <2>4 DEF n
<1>10. CASE r.mt = "MOVE_SETDICE"
  <2>1. n = ApplySetDice(p, r)
    BY <1>10 DEF ApplyMoveRecord
  <2>2. offers = FALSE /\ ~doubles
    BY <1>10 DEF OffersAfter
  <2>3. cube = p.nCube
    BY <1>1, <1>10 DEF CubeAfter
  <2> HIDE DEF p, n
  <2>4. n.fDoubled = FALSE /\ n.nCube = p.nCube
    BY <1>1, <2>1 DEF ApplySetDice, MatchStates
  <2> QED BY <2>2, <2>3, <2>4 DEF n
<1>11. CASE r.mt \in {"MOVE_SETCUBEVAL", "MOVE_SETCUBEPOS"}
  <2> DEFINE value == IF r.mt = "MOVE_SETCUBEVAL" THEN r.nCube ELSE p.nCube
  <2>1. \E owner : n = ApplySetCube(p, value, owner)
    <3>1. CASE r.mt = "MOVE_SETCUBEVAL"
      BY <3>1 DEF ApplyMoveRecord
    <3>2. CASE r.mt = "MOVE_SETCUBEPOS"
      BY <3>2 DEF ApplyMoveRecord
    <3> QED BY <1>11, <3>1, <3>2
  <2>2. offers = FALSE /\ ~doubles
    BY <1>11 DEF OffersAfter
  <2>3. cube = value
    BY <1>1, <1>11 DEF CubeAfter
  <2> HIDE DEF p, n, value
  <2>4. n.fDoubled = FALSE /\ n.nCube = value
    BY <1>1, <2>1 DEF ApplySetCube, MatchStates
  <2> QED BY <2>2, <2>3, <2>4 DEF n
<1>12. r.mt \in {"MOVE_NORMAL", "MOVE_DOUBLE", "MOVE_TAKE", "MOVE_DROP", "MOVE_RESIGN", "MOVE_SETBOARD",
                 "MOVE_SETDICE", "MOVE_SETCUBEVAL", "MOVE_SETCUBEPOS"}
  BY DEF MoveRecords
<1> QED BY <1>4, <1>5, <1>6, <1>7, <1>8, <1>9, <1>10, <1>11, <1>12

\* What repairs or turns a state leaves the cube alone.
LEMMA CubeStays ==
  ASSUME NEW m \in MatchStates, NEW r \in MoveRecords
  PROVE  /\ FixMatchState(m, r).fDoubled = m.fDoubled /\ FixMatchState(m, r).nCube = m.nCube
         /\ Turned(m, r).fDoubled = m.fDoubled /\ Turned(m, r).nCube = m.nCube
         /\ Recounted(m, r).fDoubled = m.fDoubled /\ Recounted(m, r).nCube = m.nCube
         /\ Recounted(m, r) \in MatchStates
         /\ r.mt = "MOVE_DOUBLE" => Recounted(m, r).fMove = r.fPlayer
<1> DEFINE f == FixMatchState(m, r)
<1>1. f \in MatchStates /\ f.fDoubled = m.fDoubled /\ f.nCube = m.nCube
  BY FixMatchStateTypes DEF FixMatchState, MatchStates
<1>2. Turned(m, r).fDoubled = m.fDoubled /\ Turned(m, r).nCube = m.nCube
  BY DEF Turned, MatchStates
<1>3. Recounted(m, r) = IF r.mt \in {"MOVE_NORMAL", "MOVE_DOUBLE"} /\ r.fPlayer # f.fMove
                        THEN [f EXCEPT !.anBoard = SwapSides(f.anBoard), !.fMove = r.fPlayer] ELSE f
  BY <1>1 DEF Recounted, MatchStates
<1> HIDE DEF f
<1>4. SwapSides(f.anBoard) \in Board /\ r.fPlayer \in Nobodies
  BY <1>1, SwappedBoards DEF MatchStates, MoveRecords, Nobodies
<1>5. CASE r.mt \in {"MOVE_NORMAL", "MOVE_DOUBLE"} /\ r.fPlayer # f.fMove
  <2> DEFINE x == [f EXCEPT !.anBoard = SwapSides(f.anBoard), !.fMove = r.fPlayer]
  <2>1. x \in MatchStates /\ x.fDoubled = f.fDoubled /\ x.nCube = f.nCube /\ x.fMove = r.fPlayer
    BY <1>1, <1>4 DEF MatchStates
  <2>2. Recounted(m, r) = x
    BY <1>3, <1>5
  <2> HIDE DEF x
  <2> QED BY <1>1, <1>2, <2>1, <2>2 DEF f
<1>6. CASE ~(r.mt \in {"MOVE_NORMAL", "MOVE_DOUBLE"} /\ r.fPlayer # f.fMove)
  <2>1. Recounted(m, r) = f
    BY <1>3, <1>6
  <2> QED BY <1>1, <1>2, <1>6, <2>1 DEF f
<1> QED BY <1>5, <1>6

-----------------------------------------------------------------------------
(* What a replay says of doubles and their answers.                        *)

Replayed(g, k) == CalculateBoard(lMatch[g], k - 1).ms
Seen(g, k) == AnalysedIn(Replayed(g, k), Moves(g)[k])

\* Records of a match, and the states they are replayed and analysed in.
LEMMA SeenTypes ==
  ASSUME Types, NEW g \in DOMAIN lMatch, NEW k \in DOMAIN Moves(g)
  PROVE  /\ Moves(g)[k] \in MoveRecords /\ Len(Moves(g)) \in Nat /\ DOMAIN Moves(g) = 1..Len(Moves(g))
         /\ k \in Nat \ {0} /\ Replayed(g, k) \in MatchStates /\ Seen(g, k) = Turned(Replayed(g, k), Moves(g)[k])
         /\ lMatch[g].moves = Moves(g) /\ lMatch[g] \in Games /\ lMatch[g].info \in GameInfos
         /\ StartState(lMatch[g].info) \in MatchStates
<1>1. lMatch \in Matches /\ lMatch[g].moves = Moves(g)
  BY DEF Types, Moves
<1>2. /\ Moves(g)[k] \in MoveRecords /\ Len(Moves(g)) \in Nat /\ DOMAIN Moves(g) = 1..Len(Moves(g))
      /\ lMatch[g] \in Games /\ lMatch[g].info \in GameInfos /\ StartState(lMatch[g].info) \in MatchStates
  BY <1>1, MatchTypes
<1>3. k \in Nat \ {0}
  BY <1>2
<1>4. Replayed(g, k) \in MatchStates /\ FixMatchState(Replayed(g, k), Moves(g)[k]) = Replayed(g, k)
  BY <1>1, ReplayedTypes DEF Replayed
<1>5. Seen(g, k) = Turned(Replayed(g, k), Moves(g)[k])
  BY <1>4, AnalysedInTurned DEF Seen
<1> QED BY <1>1, <1>2, <1>3, <1>4, <1>5

\* One record more.
LEMMA ReplayedNext ==
  ASSUME Types, NEW g \in DOMAIN lMatch, NEW k \in DOMAIN Moves(g), k > 1
  PROVE  /\ k - 1 \in DOMAIN Moves(g)
         /\ \E info : LET n == ApplyMoveRecord([ms |-> Replayed(g, k - 1), info |-> info], Moves(g)[k - 1]).ms
                      IN n \in MatchStates /\ Replayed(g, k) = FixMatchState(n, Moves(g)[k])
<1> DEFINE game == lMatch[g]
           old == CalculateBoard(game, k - 2)
           r == Moves(g)[k - 1]
<1>1. /\ k - 1 \in DOMAIN Moves(g) /\ k - 2 \in 0..Len(game.moves) /\ k - 2 \in Nat /\ k - 1 = (k - 2) + 1
      /\ k - 1 < Len(game.moves) /\ game.moves = Moves(g) /\ game \in Games /\ (k - 1) - 1 = k - 2
      /\ (k - 1) + 1 = k
  BY SeenTypes
<1>2. old \in [ms : MatchStates, info : GameInfos]
  BY <1>1, CalculateBoardTypes
<1>3. Replayed(g, k - 1) = old.ms
  BY <1>1 DEF Replayed
<1>4. CalculateBoard(game, k - 1) = FixForNext(game, k - 1, ApplyMoveRecord(old, r))
  <2>1. CalculateBoard(game, (k - 2) + 1) = NextState(game, (k - 2) + 1, old)
    BY <1>1, CalculateBoardThen
  <2> HIDE DEF old
  <2> QED BY <1>1, <2>1 DEF NextState, game
<1> HIDE DEF old
<1>5. old = [ms |-> old.ms, info |-> old.info] /\ old.ms \in MatchStates /\ old.info \in GameInfos
  BY <1>2
<1>6. r \in MoveRecords
  BY <1>1, SeenTypes
<1>7. ApplyMoveRecord(old, r) \in [ms : MatchStates, info : GameInfos]
  BY <1>5, <1>6, ApplyMoveRecordTypes
<1> HIDE DEF r, game
<1>8. PICK x \in [ms : MatchStates, info : GameInfos] : x = ApplyMoveRecord(old, r)
  BY <1>7
<1>9. FixForNext(game, k - 1, x).ms = FixMatchState(x.ms, Moves(g)[k])
  BY <1>1, <1>8 DEF FixForNext
<1>10. Replayed(g, k) = FixMatchState(x.ms, Moves(g)[k])
  BY <1>4, <1>8, <1>9 DEF Replayed, game
<1>11. x = ApplyMoveRecord([ms |-> Replayed(g, k - 1), info |-> old.info], r)
  BY <1>3, <1>5, <1>8
<1> QED BY <1>1, <1>8, <1>10, <1>11 DEF r

\* In a proper match the first double of a chain may be analysed, a later one
\* may not; an answer follows a double, and the answer to a first one is no
\* answer to a raccoon.
LEMMA ProperDoubles ==
  ASSUME Types, MatchesAreProper, NEW g \in DOMAIN lMatch, NEW k \in DOMAIN Moves(g)
  PROVE  /\ Kind(g, k) = "MOVE_DOUBLE" => (IsFirst(g, k) <=> ~Replayed(g, k).fDoubled)
         /\ Kind(g, k) = "MOVE_DOUBLE" => Replayed(g, k).nCube < MAX_CUBE
         /\ Kind(g, k) = "MOVE_DOUBLE" => (IsFirst(g, k) <=> DoubleType(Seen(g, k)) = "DT_NORMAL")
         /\ IsFirst(g, k) => CubeAvailable(Seen(g, k)) /\ Replayed(g, k).fMove = Moves(g)[k].fPlayer
         /\ Kind(g, k) \in Answers => Linked(g, k)
         /\ Kind(g, k) \in Answers /\ IsFirst(g, k - 1) => IsNormalTake(Seen(g, k))
<1> DEFINE m == Replayed(g, k)
           r == Moves(g)[k]
<1>1. /\ r \in MoveRecords /\ k \in Nat \ {0} /\ m \in MatchStates
      /\ Kind(g, k) # "MOVE_NORMAL" /\ Kind(g, k) # "MOVE_RESIGN" /\ Kind(g, k) # "MOVE_SETDICE" => Seen(g, k) = m
      /\ lMatch \in Matches /\ lMatch[g].moves = Moves(g)
  <2>1. Kind(g, k) # "MOVE_NORMAL" /\ Kind(g, k) # "MOVE_RESIGN" /\ Kind(g, k) # "MOVE_SETDICE"
          => Turned(m, r) = m
    BY DEF Turned, Kind
  <2> QED BY <2>1, SeenTypes DEF Types
<1>2. IsProper(lMatch[g])
  BY <1>1 DEF MatchesAreProper
<1>3. /\ r.mt = "MOVE_DOUBLE" =>
           /\ m.nCube < MAX_CUBE
           /\ \/ k > 1 /\ Moves(g)[k - 1].mt = "MOVE_DOUBLE"
              \/ ~m.fDoubled /\ m.fMove = r.fPlayer /\ m.fCubeOwner \in {Nobody, m.fMove}
      /\ r.mt \in {"MOVE_TAKE", "MOVE_DROP"} => k > 1 /\ Moves(g)[k - 1].mt = "MOVE_DOUBLE"
  BY <1>1, <1>2 DEF IsProper, Replayed
<1> HIDE DEF m, r
<1>4. Kind(g, k) = r.mt
  BY DEF Kind, r
<1>5. Kind(g, k) = "MOVE_DOUBLE" => m.nCube < MAX_CUBE
  BY <1>3, <1>4
<1>6. IsFirst(g, k) => ~m.fDoubled /\ m.fMove = r.fPlayer /\ m.fCubeOwner \in {Nobody, m.fMove}
  BY <1>3, <1>4 DEF IsFirst, Kind
<1>7. Kind(g, k) \in Answers => Linked(g, k)
  BY <1>3, <1>4 DEF Linked, Kind, Answers
<1>8. ASSUME k > 1, Kind(g, k - 1) = "MOVE_DOUBLE", Kind(g, k) \in Answers \cup {"MOVE_DOUBLE"}
      PROVE  /\ m.fDoubled
             /\ IsFirst(g, k - 1) /\ Kind(g, k) \in Answers => m.fTurn # m.fMove
  <2> DEFINE old == Replayed(g, k - 1)
             d == Moves(g)[k - 1]
  <2>1. PICK info : /\ ApplyMoveRecord([ms |-> old, info |-> info], d).ms \in MatchStates
                    /\ m = FixMatchState(ApplyMoveRecord([ms |-> old, info |-> info], d).ms, r)
    BY <1>8, ReplayedNext DEF m, r
  <2>2. k - 1 \in DOMAIN Moves(g) /\ (k - 1) - 1 = k - 2
    BY <1>1, <1>8, ReplayedNext
  <2>3. old \in MatchStates /\ d \in MoveRecords /\ d.mt = "MOVE_DOUBLE"
    BY <1>8, <2>2, SeenTypes DEF Kind
  <2>4. old.nCube < MAX_CUBE
    BY <1>1, <1>2, <2>2, <2>3 DEF IsProper, Replayed
  <2>5. IsFirst(g, k - 1) => ~old.fDoubled /\ old.fMove = d.fPlayer
    BY <1>1, <1>2, <2>2, <2>3 DEF IsProper, Replayed, IsFirst, Kind
  <2> HIDE DEF old, d
  <2>6. PICK n \in MatchStates : n = ApplyMoveRecord([ms |-> old, info |-> info], d).ms
    BY <2>1
  <2>7. n.fDoubled = OffersAfter(old.fDoubled, old.nCube, d)
        /\ (~old.fDoubled /\ old.fMove = d.fPlayer => n.fMove = d.fPlayer /\ n.fTurn = Opponent(d.fPlayer))
    BY <2>3, <2>4, <2>6, CubeStep
  <2>8. n.fDoubled
    BY <2>3, <2>4, <2>7 DEF OffersAfter
  <2>9. m.fDoubled
    BY <1>1, <2>1, <2>6, <2>8, CubeStays
  <2>10. ASSUME IsFirst(g, k - 1), Kind(g, k) \in Answers PROVE m.fTurn # m.fMove
    <3>1. m = n
      BY <1>4, <2>1, <2>6, <2>10 DEF FixMatchState, Answers
    <3>2. d.fPlayer \in {0, 1}
      BY <2>3 DEF MoveRecords, Players
    <3> QED BY <2>5, <2>7, <2>10, <3>1, <3>2 DEF Opponent
  <2> QED BY <2>9, <2>10
<1>9. Kind(g, k) = "MOVE_DOUBLE" => (IsFirst(g, k) <=> ~m.fDoubled)
  BY <1>6, <1>8 DEF IsFirst
<1>10. Kind(g, k) = "MOVE_DOUBLE" => (IsFirst(g, k) <=> DoubleType(Seen(g, k)) = "DT_NORMAL")
  BY <1>1, <1>9 DEF DoubleType
<1>11. IsFirst(g, k) => CubeAvailable(Seen(g, k))
  BY <1>1, <1>6 DEF CubeAvailable, OwnsCube, IsFirst
<1>12. Kind(g, k) \in Answers /\ IsFirst(g, k - 1) => IsNormalTake(Seen(g, k))
  <2> SUFFICES ASSUME Kind(g, k) \in Answers, IsFirst(g, k - 1) PROVE IsNormalTake(Seen(g, k))
    OBVIOUS
  <2>1. k > 1 /\ Kind(g, k - 1) = "MOVE_DOUBLE"
    BY <1>7 DEF Linked
  <2>2. m.fDoubled /\ m.fTurn # m.fMove
    BY <1>8, <2>1
  <2>3. Seen(g, k) = m
    BY <1>1 DEF Answers
  <2> QED BY <2>2, <2>3 DEF IsNormalTake, DoubleType
<1> QED BY <1>5, <1>6, <1>7, <1>9, <1>10, <1>11, <1>12 DEF m, r

-----------------------------------------------------------------------------
(* What a whole analysis of the match owes each record.                    *)

CubeKnown(g, k, es) == Seen(g, k).anBoard # InitBoard /\ GetDPEq(Seen(g, k)) => es # 0

\* What analysing record k leaves in it, d, and finds of its cube, es.
IsAnalysed(g, k, d, es) ==
    /\ Kind(g, k) = "MOVE_NORMAL" => CubeKnown(g, k, es) /\ d.fLuck /\ d.esChequer # 0 /\ d.ml # "lost"
    /\ IsFirst(g, k) => es # 0
    /\ Kind(g, k) \in Answers /\ IsNormalTake(Seen(g, k)) /\ es # 0 => d.stCube = es

\* Whether it is counted then.
IsDue(g, k, es) == \/ Kind(g, k) = "MOVE_NORMAL"
                   \/ IsFirst(g, k) /\ es # 0
                   \/ Kind(g, k) \in Answers /\ IsNormalTake(Seen(g, k)) /\ es # 0
IsTallied(g, k, n, es) == Kind(g, k) = "MOVE_SETDICE" \/ n = IF IsDue(g, k, es) THEN 1 ELSE 0

Analysed(g, k) == IsAnalysed(g, k, data[g][k], esDouble(g, k))
Tallied(g, k) == IsTallied(g, k, sc[g][k], esDouble(g, k))
Done(g, k) == IsOpenDouble(g, k) \/ (Analysed(g, k) /\ Tallied(g, k))

\* An analysis of the match for both players that has not failed yet.
GoesWell == /\ asked.scope = "match" /\ asked.players = Players /\ main \in Waiting
            /\ ~(added /\ result = Failed)

IsHanded(g, k) == main = "wait" \/ g < plGame \/ (main = "add" /\ g = plGame /\ k <= plLast)

\* The records of some calls; those that wait for an answer, and all that are
\* waited for.
Named(q) == {<<q[j].g, q[j].k>> : j \in DOMAIN q}
Doubles == IF main = "add" THEN Named(pParentTask) ELSE {}
IsPending(x) == \/ \E i \in DOMAIN tasks : x \in Named(tasks[i])
                \/ \E t \in Threads : x \in Named(task[t])
                \/ x \in Doubles

\* No record is handed over twice,
Apart == /\ \A i, j \in DOMAIN tasks : i # j => Named(tasks[i]) \cap Named(tasks[j]) = {}
         /\ \A t, u \in Threads : t # u => Named(task[t]) \cap Named(task[u]) = {}
         /\ \A i \in DOMAIN tasks : \A t \in Threads : Named(tasks[i]) \cap Named(task[t]) = {}
         /\ \A i \in DOMAIN tasks : Named(tasks[i]) \cap Doubles = {}
         /\ \A t \in Threads : Named(task[t]) \cap Doubles = {}
Known == \A x : IsPending(x) => IsHanded(x[1], x[2])

\* a task is a record that has nothing to do with a double, or the first double
\* of a chain and the record after the chain, and a worker may hold the rest of
\* one;
IsPair(q) == /\ Len(q) = 2 /\ q[2].g = q[1].g /\ q[1].k < q[2].k /\ IsFirst(q[1].g, q[1].k)
             /\ Chain(q[1].g, q[1].k, q[2].k - 1) /\ Kind(q[2].g, q[2].k) # "MOVE_DOUBLE"
IsTask(q) == IsPair(q) \/ (Len(q) = 1 /\ Kind(q[1].g, q[1].k) \notin Answers \cup {"MOVE_DOUBLE"})
IsRest(q) == IsPair(q) \/ (Len(q) = 1 /\ Kind(q[1].g, q[1].k) # "MOVE_DOUBLE")
Shapes == /\ \A i \in DOMAIN tasks : IsTask(tasks[i])
          /\ \A t \in Threads : at[t] # "idle" => IsRest(task[t])

\* the main thread keeps the first double of the chain that it has come to;
Chained == main = "add" =>
    /\ pParentTask # <<>> => /\ pParentTask[1].g = plGame /\ pParentTask[1].k <= plLast
                             /\ IsFirst(plGame, pParentTask[1].k) /\ Chain(plGame, pParentTask[1].k, plLast)
    /\ plLast \in 1..(Len(Moves(plGame)) - 1) /\ Kind(plGame, plLast) = "MOVE_DOUBLE" => pParentTask # <<>>

\* what waits is not counted yet,
Uncounted == /\ \A i \in DOMAIN tasks : \A x \in Named(tasks[i]) : sc[x[1]][x[2]] = 0
             /\ \A x \in Doubles : sc[x[1]][x[2]] = 0
             /\ \A t \in Threads : \A j \in DOMAIN task[t] :
                   j > 1 \/ at[t] \notin {"apply", "failed"} => sc[task[t][j].g][task[t][j].k] = 0
             /\ main = "add" => \A k \in DOMAIN Moves(plGame) : k > plLast => sc[plGame][k] = 0

\* what a worker has is analysed as far as it has come,
AtPlace(t, g, k) ==
    /\ doubleError[t] # NULL
    /\ at[t] \in {"begin", "cube", "play", "moves", "skill", "count"} => Call(t).ms = Seen(g, k)
    /\ at[t] \in {"enter", "begin"} /\ Kind(g, k) \in Answers => doubleError[t] = esDouble(g, k)
    /\ at[t] = "cube" => Kind(g, k) \in {"MOVE_NORMAL", "MOVE_DOUBLE"}
    /\ at[t] \in {"play", "moves", "skill"} => Kind(g, k) = "MOVE_NORMAL" /\ CubeKnown(g, k, esDouble(g, k))
    /\ at[t] \in {"moves", "skill"} => data[g][k].fLuck
    /\ at[t] = "count" => Analysed(g, k) /\ (Kind(g, k) \in Answers => IsNormalTake(Seen(g, k)))
    /\ at[t] = "apply" => Analysed(g, k) /\ Tallied(g, k)
    /\ at[t] \in {"count", "apply"} /\ Kind(g, k) = "MOVE_DOUBLE" => doubleError[t] = esDouble(g, k)
AtPlaces == \A t \in Threads : at[t] # "idle" => AtPlace(t, Call(t).g, Call(t).k)

\* and what waits no more is done.
Covered == \A g \in DOMAIN lMatch : \A k \in DOMAIN Moves(g) : IsHanded(g, k) => IsPending(<<g, k>>) \/ Done(g, k)

Accounts == Apart /\ Known /\ Shapes /\ Chained /\ Uncounted /\ AtPlaces /\ Covered

\* At any time: without a task in this batch all are idle; and only a record of
\* a move has a list of moves.
Batch == /\ ~added => AllDone
         /\ main = "idle" \/ (main = "info" /\ asked.scope = "game") => ~added
         /\ asked.scope = "match" => asked.es # 0
Kinds == \A t \in Threads : /\ at[t] \in {"play", "moves", "skill"} => Record(t).mt = "MOVE_NORMAL"
                            /\ at[t] = "cube" => Record(t).mt \in {"MOVE_NORMAL", "MOVE_DOUBLE"}
Lists == \A g \in DOMAIN lMatch : \A k \in DOMAIN Moves(g) : Kind(g, k) # "MOVE_NORMAL" => data[g][k].ml # "lost"

AllAccounted == Complete => \A g \in DOMAIN lMatch : \A k \in DOMAIN Moves(g) : Done(g, k)
IsAccounted == Batch /\ Kinds /\ Lists /\ (GoesWell => Accounts) /\ AllAccounted

\* The records do not change, nor the states they are analysed in.
LEMMA SameRecords ==
  ASSUME lMatch' = lMatch
  PROVE  /\ \A g : Moves(g)' = Moves(g)
         /\ \A g, k : /\ Kind(g, k)' = Kind(g, k) /\ IsFirst(g, k)' = IsFirst(g, k) /\ Linked(g, k)' = Linked(g, k)
                      /\ IsOpenDouble(g, k)' = IsOpenDouble(g, k)
                      /\ CubeDec(g, k)' = CubeDec(g, k) /\ Seen(g, k)' = Seen(g, k)
                      /\ esDouble(g, k)' = data'[g][CubeDec(g, k)].esDouble
         /\ \A g, k, n : Chain(g, k, n)' = Chain(g, k, n)
         /\ \A g, k, es : CubeKnown(g, k, es)' = CubeKnown(g, k, es) /\ IsDue(g, k, es)' = IsDue(g, k, es)
         /\ \A g, k, d, es : IsAnalysed(g, k, d, es)' = IsAnalysed(g, k, d, es)
         /\ \A g, k, n, es : IsTallied(g, k, n, es)' = IsTallied(g, k, n, es)
         /\ \A q : IsTask(q)' = IsTask(q) /\ IsRest(q)' = IsRest(q) /\ IsPair(q)' = IsPair(q)
<1>1. \A g : Moves(g)' = Moves(g)
  BY DEF Moves
<1>2. \A g, k : Kind(g, k)' = Kind(g, k)
  BY <1>1 DEF Kind
<1>3. \A g, k : IsFirst(g, k)' = IsFirst(g, k) /\ Linked(g, k)' = Linked(g, k)
  BY <1>2 DEF IsFirst, Linked
<1>4. \A g, k : IsOpenDouble(g, k)' = IsOpenDouble(g, k)
  BY <1>1 DEF IsOpenDouble
<1>5. \A g, k : CubeDec(g, k)' = CubeDec(g, k)
  BY DEF CubeDec, Moves
<1>6. \A g, k : Seen(g, k)' = Seen(g, k)
  BY DEF Seen, Replayed, Moves
<1>7. \A g, k : esDouble(g, k)' = data'[g][CubeDec(g, k)].esDouble
  BY <1>5 DEF esDouble
<1>8. \A g, k, n : Chain(g, k, n)' = Chain(g, k, n)
  BY <1>2 DEF Chain
<1>9. \A g, k, es : CubeKnown(g, k, es)' = CubeKnown(g, k, es) /\ IsDue(g, k, es)' = IsDue(g, k, es)
  BY <1>2, <1>3, <1>6 DEF CubeKnown, IsDue
<1>10. \A g, k, d, es : IsAnalysed(g, k, d, es)' = IsAnalysed(g, k, d, es)
  BY <1>2, <1>3, <1>6, <1>9 DEF IsAnalysed
<1>11. \A g, k, n, es : IsTallied(g, k, n, es)' = IsTallied(g, k, n, es)
  BY <1>2, <1>9 DEF IsTallied
<1>12. \A q : IsPair(q)' = IsPair(q)
  BY <1>2, <1>3, <1>8 DEF IsPair
<1>13. \A q : IsTask(q)' = IsTask(q) /\ IsRest(q)' = IsRest(q)
  BY <1>2, <1>12 DEF IsTask, IsRest
<1> QED BY <1>1, <1>2, <1>3, <1>4, <1>5, <1>6, <1>7, <1>8, <1>9, <1>10, <1>11, <1>12, <1>13

-----------------------------------------------------------------------------
(* A worker's step within its task.                                        *)

\* What a worker holds: its record, and perhaps the one after its double.
LEMMA HeldTask ==
  ASSUME Types, Shapes, NEW t \in Threads, at[t] # "idle"
  PROVE  /\ Call(t) = task[t][1] /\ 1 \in DOMAIN task[t] /\ DOMAIN task[t] = 1..Len(task[t])
         /\ Len(task[t]) \in 1..2 /\ task[t] \in Seq(Calls)
         /\ Call(t).g \in DOMAIN lMatch /\ Call(t).k \in DOMAIN Moves(Call(t).g)
         /\ <<Call(t).g, Call(t).k>> \in Named(task[t])
         /\ IsRest(task[t])
         /\ Kind(Call(t).g, Call(t).k) = "MOVE_DOUBLE" => IsPair(task[t])
         /\ \A j \in DOMAIN task[t] : /\ task[t][j].g \in DOMAIN lMatch /\ task[t][j].k \in DOMAIN Moves(task[t][j].g)
                                      /\ task[t][j].k \in Nat \ {0}
<1>1. /\ Call(t) = task[t][1] /\ Len(task[t]) \in 1..2 /\ task[t] \in Seq(Calls)
      /\ Call(t).g \in DOMAIN lMatch /\ Call(t).k \in DOMAIN Moves(Call(t).g)
  BY CallTypes
<1>2. DOMAIN task[t] = 1..Len(task[t]) /\ 1 \in DOMAIN task[t]
  BY <1>1
<1>3. <<Call(t).g, Call(t).k>> \in Named(task[t])
  BY <1>1, <1>2 DEF Named
<1>4. IsRest(task[t])
  BY DEF Shapes
<1>5. Kind(Call(t).g, Call(t).k) = "MOVE_DOUBLE" => IsPair(task[t])
  BY <1>1, <1>4 DEF IsRest
<1>6. ASSUME NEW j \in DOMAIN task[t]
      PROVE  /\ task[t][j].g \in DOMAIN lMatch /\ task[t][j].k \in DOMAIN Moves(task[t][j].g)
             /\ task[t][j].k \in Nat \ {0}
  <2>1. task[t][j] \in Calls
    BY <1>1
  <2>2. task[t][j].g \in DOMAIN lMatch /\ task[t][j].k \in DOMAIN Moves(task[t][j].g)
    BY <2>1 DEF Calls
  <2> QED BY <2>2, SeenTypes
<1> QED BY <1>1, <1>2, <1>3, <1>4, <1>5, <1>6

\* A step of worker t that keeps its task, and writes of its own record only.
Own(t) ==
    /\ lMatch' = lMatch /\ UNCHANGED <<main, handing, pool, user, task>>
    /\ at[t] # "idle" /\ at'[t] # "idle"
    /\ \A u \in Threads \ {t} : at'[u] = at[u] /\ doubleError'[u] = doubleError[u]
    /\ \A g \in DOMAIN lMatch : \A k \in DOMAIN Moves(g) :
          g # Call(t).g \/ k # Call(t).k => data'[g][k] = data[g][k] /\ sc'[g][k] = sc[g][k]

\* Of a record that the worker does not hold, even the cube stays the same,
\* unless it is a later double, of which nothing is said.
LEMMA OthersCubeStays ==
  ASSUME Types, Shapes, NEW t \in Threads, Own(t),
         NEW g \in DOMAIN lMatch, NEW k \in DOMAIN Moves(g), <<g, k>> \notin Named(task[t])
  PROVE  /\ data'[g][k] = data[g][k] /\ sc'[g][k] = sc[g][k]
         /\ \/ esDouble(g, k)' = esDouble(g, k)
            \/ Kind(g, k) = "MOVE_DOUBLE" /\ ~IsFirst(g, k)
<1> DEFINE c == Call(t)
           s == CubeDec(g, k)
<1>1. /\ lMatch' = lMatch /\ at[t] # "idle"
      /\ \A h \in DOMAIN lMatch : \A j \in DOMAIN Moves(h) :
            h # c.g \/ j # c.k => data'[h][j] = data[h][j] /\ sc'[h][j] = sc[h][j]
  BY DEF Own
<1>2. /\ c = task[t][1] /\ 1 \in DOMAIN task[t] /\ <<c.g, c.k>> \in Named(task[t])
      /\ Kind(c.g, c.k) = "MOVE_DOUBLE" => IsPair(task[t])
      /\ \A j \in DOMAIN task[t] : task[t][j].k \in Nat \ {0}
      /\ DOMAIN task[t] = 1..Len(task[t]) /\ Len(task[t]) \in 1..2
  BY <1>1, HeldTask
<1> HIDE DEF c
<1>3. data'[g][k] = data[g][k] /\ sc'[g][k] = sc[g][k]
  BY <1>1, <1>2
<1>4. esDouble(g, k)' = data'[g][s].esDouble /\ esDouble(g, k) = data[g][s].esDouble
  BY <1>1, SameRecords DEF esDouble
<1>5. k \in Nat \ {0} /\ DOMAIN Moves(g) = 1..Len(Moves(g)) /\ Len(Moves(g)) \in Nat
  BY SeenTypes
<1>6. s \in 1..k /\ s \in DOMAIN Moves(g)
  BY <1>5, CubeDecBetween
<1>7. CASE g # c.g \/ s # c.k
  <2>1. data'[g][s] = data[g][s]
    BY <1>1, <1>6, <1>7
  <2> HIDE DEF s
  <2> QED BY <1>3, <1>4, <2>1
<1>8. CASE g = c.g /\ s = c.k /\ k # s
  <2>1. Linked(g, k) /\ IsFirst(g, s)
    BY <1>5, <1>8, CubeDecOfChain
  <2>2. IsPair(task[t])
    BY <1>2, <1>8, <2>1 DEF IsFirst
  <2>3. Kind(g, k) = "MOVE_DOUBLE"
    <3> SUFFICES ASSUME Kind(g, k) # "MOVE_DOUBLE" PROVE FALSE
      OBVIOUS
    <3> DEFINE n == task[t][2].k
    <3>1. /\ Len(task[t]) = 2 /\ task[t][2].g = g /\ s < n /\ Chain(g, s, n - 1) /\ Kind(g, n) # "MOVE_DOUBLE"
          /\ IsFirst(g, s) /\ n \in Nat \ {0}
      BY <1>2, <1>8, <2>2 DEF IsPair
    <3> HIDE DEF n, s
    <3>2. k = n
      BY <1>5, <1>6, <1>8, <3>1, OneAnswer DEF s
    <3> QED BY <1>2, <3>1, <3>2 DEF Named, n
  <2>4. ~IsFirst(g, k)
    BY <2>1 DEF Linked, IsFirst
  <2> QED BY <1>3, <2>3, <2>4
<1>9. CASE g = c.g /\ s = c.k /\ k = s
  BY <1>2, <1>9
<1> QED BY <1>7, <1>8, <1>9

\* What is waited for is a record of the match.
LEMMA PendingTypes ==
  ASSUME Types, NEW x, IsPending(x)
  PROVE  /\ x = <<x[1], x[2]>> /\ x[1] \in DOMAIN lMatch /\ x[2] \in DOMAIN Moves(x[1])
         /\ x[1] \in Nat /\ x[2] \in Nat \ {0}
<1>1. tasks \in Seq(Seq(Calls)) /\ task \in [Threads -> Seq(Calls)] /\ pParentTask \in Seq(Calls)
  BY DEF Types, MainTypes, PoolTypes, HandingTypes, WorkerTypes
<1>2. \E q \in Seq(Calls) : x \in Named(q)
  <2>1. CASE \E i \in DOMAIN tasks : x \in Named(tasks[i])
    <3>1. \A i \in DOMAIN tasks : tasks[i] \in Seq(Calls)
      BY <1>1
    <3> QED BY <2>1, <3>1
  <2>2. CASE \E u \in Threads : x \in Named(task[u])
    BY <1>1, <2>2
  <2>3. CASE x \in Doubles
    BY <1>1, <2>3 DEF Doubles
  <2> QED BY <2>1, <2>2, <2>3 DEF IsPending
<1>3. PICK q \in Seq(Calls) : x \in Named(q)
  BY <1>2
<1>4. PICK j \in DOMAIN q : x = <<q[j].g, q[j].k>>
  BY <1>3 DEF Named
<1>5. q[j] \in Calls
  OBVIOUS
<1>6. x = <<x[1], x[2]>> /\ x[1] \in DOMAIN lMatch /\ x[2] \in DOMAIN Moves(x[1]) /\ x[1] \in Nat
  BY <1>4, <1>5 DEF Calls
<1>7. x[2] \in Nat \ {0}
  BY <1>6, SeenTypes
<1> QED BY <1>6, <1>7

\* Such a step keeps the accounts, if its own record is in order.
LEMMA OwnAccounts ==
  ASSUME Types, Accounts, NEW t \in Threads, Own(t), AtPlace(t, Call(t).g, Call(t).k)',
         at'[t] \in {"apply", "failed"} \/ sc'[Call(t).g][Call(t).k] = 0
  PROVE  Accounts'
<1> DEFINE c == Call(t)
<1>1. /\ lMatch' = lMatch /\ UNCHANGED <<main, plGame, plLast, pParentTask, tasks, task>>
      /\ at[t] # "idle" /\ at'[t] # "idle"
      /\ \A u \in Threads \ {t} : at'[u] = at[u] /\ doubleError'[u] = doubleError[u]
      /\ \A u \in Threads : Call(u)' = Call(u)
  BY DEF Own, handing, pool, Call
<1>2. Apart /\ Known /\ Shapes /\ Chained /\ Uncounted /\ AtPlaces /\ Covered
  BY DEF Accounts
<1>3. Doubles' = Doubles /\ \A x : IsPending(x)' = IsPending(x)
  BY <1>1 DEF Doubles, IsPending, Named
<1>4. Apart'
  BY <1>1, <1>2, <1>3 DEF Apart
<1>5. \A g, k : IsHanded(g, k)' = IsHanded(g, k)
  BY <1>1 DEF IsHanded
<1>6. Known'
  BY <1>2, <1>3, <1>5 DEF Known
<1>7. Shapes'
  <2>1. \A q : IsTask(q)' = IsTask(q) /\ IsRest(q)' = IsRest(q)
    BY <1>1, SameRecords
  <2>2. \A u \in Threads : at'[u] # "idle" => at[u] # "idle"
    BY <1>1
  <2> QED BY <1>1, <1>2, <2>1, <2>2 DEF Shapes
<1>8. Chained'
  <2>1. /\ \A g, k : Kind(g, k)' = Kind(g, k) /\ IsFirst(g, k)' = IsFirst(g, k)
        /\ \A g, k, n : Chain(g, k, n)' = Chain(g, k, n)
        /\ \A g : Moves(g)' = Moves(g)
    BY <1>1, SameRecords
  <2> QED BY <1>1, <1>2, <2>1 DEF Chained
<1>9. /\ c = task[t][1] /\ 1 \in DOMAIN task[t] /\ <<c.g, c.k>> \in Named(task[t]) /\ IsRest(task[t])
      /\ c.g \in DOMAIN lMatch /\ c.k \in DOMAIN Moves(c.g)
      /\ DOMAIN task[t] = 1..Len(task[t]) /\ Len(task[t]) \in 1..2
      /\ \A j \in DOMAIN task[t] : /\ task[t][j].g \in DOMAIN lMatch /\ task[t][j].k \in DOMAIN Moves(task[t][j].g)
                                   /\ task[t][j].k \in Nat \ {0}
  BY <1>1, <1>2, HeldTask
<1>11. ASSUME NEW x, IsPending(x), x \notin Named(task[t])
       PROVE  /\ sc'[x[1]][x[2]] = sc[x[1]][x[2]] /\ data'[x[1]][x[2]] = data[x[1]][x[2]]
              /\ \/ esDouble(x[1], x[2])' = esDouble(x[1], x[2])
                 \/ Kind(x[1], x[2]) = "MOVE_DOUBLE" /\ ~IsFirst(x[1], x[2])
  <2>1. x = <<x[1], x[2]>> /\ x[1] \in DOMAIN lMatch /\ x[2] \in DOMAIN Moves(x[1])
    BY <1>11, PendingTypes
  <2> QED BY <1>2, <1>11, <2>1, OthersCubeStays
<1>12. Uncounted'
  <2>1. ASSUME NEW i \in DOMAIN tasks, NEW x \in Named(tasks[i]) PROVE sc'[x[1]][x[2]] = 0
    <3>1. IsPending(x) /\ x \notin Named(task[t])
      BY <1>2 DEF IsPending, Apart
    <3> QED BY <1>2, <1>11, <3>1 DEF Uncounted
  <2>2. ASSUME NEW x \in Doubles PROVE sc'[x[1]][x[2]] = 0
    <3>1. IsPending(x) /\ x \notin Named(task[t])
      BY <1>2 DEF IsPending, Apart
    <3> QED BY <1>2, <1>11, <3>1 DEF Uncounted
  <2>3. ASSUME NEW u \in Threads, NEW j \in DOMAIN task[u], j > 1 \/ at'[u] \notin {"apply", "failed"}
        PROVE  sc'[task[u][j].g][task[u][j].k] = 0
    <3> DEFINE x == <<task[u][j].g, task[u][j].k>>
    <3>1. x \in Named(task[u])
      BY DEF Named
    <3>2. CASE u # t
      <4>1. IsPending(x) /\ x \notin Named(task[t])
        BY <1>2, <3>1, <3>2 DEF IsPending, Apart
      <4>2. sc'[x[1]][x[2]] = sc[x[1]][x[2]]
        <5> HIDE DEF x
        <5> QED BY <1>11, <4>1
      <4>3. at'[u] = at[u]
        BY <1>1, <3>2
      <4> QED BY <1>2, <2>3, <4>2, <4>3 DEF Uncounted
    <3>3. CASE u = t /\ j = 1
      BY <1>9, <2>3, <3>3
    <3>4. CASE u = t /\ j # 1
      <4>1. Len(task[t]) = 2 /\ j = 2 /\ task[t][1].k < task[t][2].k /\ 2 \in DOMAIN task[t]
        BY <1>9, <3>4 DEF IsRest, IsPair
      <4>2. task[t][2].k # c.k /\ task[t][2].g \in DOMAIN lMatch /\ task[t][2].k \in DOMAIN Moves(task[t][2].g)
        BY <1>9, <4>1
      <4>3. sc'[task[t][2].g][task[t][2].k] = sc[task[t][2].g][task[t][2].k]
        BY <4>2 DEF Own
      <4> QED BY <1>2, <3>4, <4>1, <4>3 DEF Uncounted
    <3> QED BY <3>2, <3>3, <3>4
  <2>4. ASSUME main = "add", NEW k \in DOMAIN Moves(plGame), k > plLast PROVE sc'[plGame][k] = 0
    <3>1. plGame \in 1..Len(lMatch) /\ plLast \in Nat /\ lMatch \in Matches
      BY <2>4 DEF Types, MainTypes, HandingTypes
    <3>2. plGame \in DOMAIN lMatch /\ plGame \in Nat
      BY <3>1, MatchTypes
    <3>3. k \in Nat
      BY <3>2, SeenTypes
    <3>4. IsHanded(c.g, c.k)
      BY <1>2, <1>9 DEF Known, IsPending
    <3>5. c.g # plGame \/ c.k # k
      BY <2>4, <3>1, <3>2, <3>3, <3>4 DEF IsHanded
    <3>6. sc'[plGame][k] = sc[plGame][k]
      BY <3>2, <3>5 DEF Own
    <3> QED BY <1>2, <2>4, <3>6 DEF Uncounted
  <2>5. Moves(plGame)' = Moves(plGame)
    BY <1>1, SameRecords
  <2> QED BY <1>1, <1>3, <2>1, <2>2, <2>3, <2>4, <2>5 DEF Uncounted
<1>13. AtPlaces'
  <2> SUFFICES ASSUME NEW u \in Threads, at'[u] # "idle" PROVE AtPlace(u, Call(u).g, Call(u).k)'
    BY <1>1 DEF AtPlaces
  <2>1. CASE u = t
    BY <2>1
  <2>2. CASE u # t
    <3>1. at'[u] = at[u] /\ at[u] # "idle" /\ doubleError'[u] = doubleError[u] /\ Call(u)' = Call(u)
      BY <1>1, <2>2
    <3>2. AtPlace(u, Call(u).g, Call(u).k)
      BY <1>2, <3>1 DEF AtPlaces
    <3>a. PICK g, k : g = Call(u).g /\ k = Call(u).k
      OBVIOUS
    <3>3. <<g, k>> \in Named(task[u]) /\ (Kind(g, k) = "MOVE_DOUBLE" => IsPair(task[u])) /\ Call(u) = task[u][1]
      BY <1>2, <3>a, <3>1, HeldTask
    <3>4. IsPending(<<g, k>>) /\ <<g, k>> \notin Named(task[t])
      BY <1>2, <2>2, <3>3 DEF IsPending, Apart
    <3>5. Kind(g, k) = "MOVE_DOUBLE" => IsFirst(g, k)
      BY <3>a, <3>3 DEF IsPair
    <3>6. /\ sc'[g][k] = sc[g][k] /\ data'[g][k] = data[g][k]
          /\ esDouble(g, k)' = esDouble(g, k)
      <4> DEFINE x == <<g, k>>
      <4>1. /\ sc'[x[1]][x[2]] = sc[x[1]][x[2]] /\ data'[x[1]][x[2]] = data[x[1]][x[2]]
            /\ \/ esDouble(x[1], x[2])' = esDouble(x[1], x[2])
               \/ Kind(x[1], x[2]) = "MOVE_DOUBLE" /\ ~IsFirst(x[1], x[2])
        BY <1>11, <3>4
      <4> QED BY <3>5, <4>1
    <3>7. /\ Kind(g, k)' = Kind(g, k) /\ Seen(g, k)' = Seen(g, k)
          /\ \A es : CubeKnown(g, k, es)' = CubeKnown(g, k, es)
          /\ \A d, es : IsAnalysed(g, k, d, es)' = IsAnalysed(g, k, d, es)
          /\ \A n, es : IsTallied(g, k, n, es)' = IsTallied(g, k, n, es)
      BY <1>1, SameRecords
    <3>8. Analysed(g, k)' = Analysed(g, k) /\ Tallied(g, k)' = Tallied(g, k)
      BY <3>6, <3>7 DEF Analysed, Tallied
    <3>9. AtPlace(u, g, k)
      BY <3>a, <3>2
    <3>10. AtPlace(u, g, k)'
      BY <3>1, <3>6, <3>7, <3>8, <3>9 DEF AtPlace
    <3> QED BY <3>a, <3>1, <3>10
  <2> QED BY <2>1, <2>2
<1>14. Covered'
  <2> SUFFICES ASSUME NEW g \in DOMAIN lMatch, NEW k \in DOMAIN Moves(g), IsHanded(g, k), ~IsPending(<<g, k>>)
               PROVE  Done(g, k)'
    BY <1>1, <1>3, <1>5, SameRecords DEF Covered
  <2>1. Done(g, k) /\ <<g, k>> \notin Named(task[t])
    BY <1>2 DEF Covered, IsPending
  <2>2. /\ data'[g][k] = data[g][k] /\ sc'[g][k] = sc[g][k]
        /\ \/ esDouble(g, k)' = esDouble(g, k)
           \/ Kind(g, k) = "MOVE_DOUBLE" /\ ~IsFirst(g, k)
    BY <1>2, <2>1, OthersCubeStays
  <2>3. /\ IsOpenDouble(g, k)' = IsOpenDouble(g, k)
        /\ \A d, es : IsAnalysed(g, k, d, es)' = IsAnalysed(g, k, d, es)
        /\ \A n, es : IsTallied(g, k, n, es)' = IsTallied(g, k, n, es)
    BY <1>1, SameRecords
  <2>4. ASSUME Kind(g, k) = "MOVE_DOUBLE", ~IsFirst(g, k)
        PROVE  \A d, n, es1, es2 : /\ IsAnalysed(g, k, d, es1) = IsAnalysed(g, k, d, es2)
                                   /\ IsTallied(g, k, n, es1) = IsTallied(g, k, n, es2)
    BY <2>4 DEF IsAnalysed, IsTallied, IsDue, Answers
  <2>5. Analysed(g, k)' = Analysed(g, k) /\ Tallied(g, k)' = Tallied(g, k)
    BY <2>2, <2>3, <2>4 DEF Analysed, Tallied
  <2> QED BY <2>1, <2>3, <2>5 DEF Done
<1> QED BY <1>4, <1>6, <1>7, <1>8, <1>12, <1>13, <1>14 DEF Accounts

\* Where a step leads a worker: x, told e of a double, with d in its record, the
\* cube found at level es, and the record n times in the statistics.
Placed(g, k, x, e, d, es, n) ==
    /\ x \in Places \ {"idle", "enter", "begin"} /\ e # NULL
    /\ n = 0 \/ x \in {"apply", "failed"}
    /\ x = "cube" => Kind(g, k) \in {"MOVE_NORMAL", "MOVE_DOUBLE"}
    /\ x \in {"play", "moves", "skill"} => Kind(g, k) = "MOVE_NORMAL" /\ CubeKnown(g, k, es)
    /\ x \in {"moves", "skill"} => d.fLuck
    /\ x = "count" => IsAnalysed(g, k, d, es) /\ (Kind(g, k) \in Answers => IsNormalTake(Seen(g, k)))
    /\ x = "apply" => IsAnalysed(g, k, d, es) /\ IsTallied(g, k, n, es)
    /\ x \in {"count", "apply"} /\ Kind(g, k) = "MOVE_DOUBLE" => e = es

\* What a record of a match holds, and a step that writes one of them.
LEMMA OneWritten ==
  ASSUME Types, NEW g \in DOMAIN lMatch, NEW k \in DOMAIN Moves(g), NEW d \in Analyses, NEW n \in Nat
  PROVE  /\ data' = [data EXCEPT ![g][k] = d] =>
              /\ data'[g][k] = d
              /\ \A h \in DOMAIN lMatch : \A j \in DOMAIN Moves(h) : h # g \/ j # k => data'[h][j] = data[h][j]
         /\ sc' = [sc EXCEPT ![g][k] = n] =>
              /\ sc'[g][k] = n
              /\ \A h \in DOMAIN lMatch : \A j \in DOMAIN Moves(h) : h # g \/ j # k => sc'[h][j] = sc[h][j]
         /\ data[g][k] \in Analyses /\ sc[g][k] \in Nat
<1>1. /\ data = [h \in DOMAIN lMatch |-> data[h]] /\ sc = [h \in DOMAIN lMatch |-> sc[h]]
      /\ \A h \in DOMAIN lMatch : data[h] \in [DOMAIN Moves(h) -> Analyses] /\ sc[h] \in [DOMAIN Moves(h) -> Nat]
  BY DEF Types, DataTypes, CountTypes
<1>2. ASSUME data' = [data EXCEPT ![g][k] = d]
      PROVE  /\ data'[g][k] = d
             /\ \A h \in DOMAIN lMatch : \A j \in DOMAIN Moves(h) : h # g \/ j # k => data'[h][j] = data[h][j]
  BY <1>1, <1>2
<1>3. ASSUME sc' = [sc EXCEPT ![g][k] = n]
      PROVE  /\ sc'[g][k] = n
             /\ \A h \in DOMAIN lMatch : \A j \in DOMAIN Moves(h) : h # g \/ j # k => sc'[h][j] = sc[h][j]
  BY <1>1, <1>3
<1> QED BY <1>1, <1>2, <1>3

\* The cube of a worker's record, after it has written d.
CubeOf(g, k, d) == IF CubeDec(g, k) = k THEN d.esDouble ELSE esDouble(g, k)

\* A step to such a place keeps the accounts.
LEMMA PlacedAccounts ==
  ASSUME Types, Accounts, NEW t \in Threads, at[t] # "idle", lMatch' = lMatch,
         UNCHANGED <<main, handing, pool, user, task>>,
         NEW g, NEW k, g = Call(t).g, k = Call(t).k,
         NEW x, at' = [at EXCEPT ![t] = x],
         NEW e, doubleError' = [doubleError EXCEPT ![t] = e],
         NEW d \in Analyses, data' = [data EXCEPT ![g][k] = d] \/ (UNCHANGED data /\ d = Data(t)),
         NEW n \in Nat, sc' = [sc EXCEPT ![g][k] = n] \/ (UNCHANGED sc /\ n = sc[g][k]),
         Placed(g, k, x, e, d, CubeOf(g, k, d), n),
         x \in {"cube", "play", "moves", "skill", "count"} => Call(t).ms = Seen(g, k)
  PROVE  Accounts'
<1>1. /\ at \in [Threads -> Places] /\ doubleError \in [Threads -> NULL..Levels]
  BY DEF Types, WorkerTypes
<1>2. /\ at'[t] = x /\ doubleError'[t] = e
      /\ \A u \in Threads \ {t} : at'[u] = at[u] /\ doubleError'[u] = doubleError[u]
  BY <1>1
<1>3. g \in DOMAIN lMatch /\ k \in DOMAIN Moves(g) /\ Data(t) = data[g][k]
  BY CallTypes DEF Data
<1>4. /\ data'[g][k] = d /\ sc'[g][k] = n
      /\ \A h \in DOMAIN lMatch : \A j \in DOMAIN Moves(h) :
            h # g \/ j # k => data'[h][j] = data[h][j] /\ sc'[h][j] = sc[h][j]
  <2>1. /\ data'[g][k] = d
        /\ \A h \in DOMAIN lMatch : \A j \in DOMAIN Moves(h) : h # g \/ j # k => data'[h][j] = data[h][j]
    BY <1>3, OneWritten
  <2>2. /\ sc'[g][k] = n
        /\ \A h \in DOMAIN lMatch : \A j \in DOMAIN Moves(h) : h # g \/ j # k => sc'[h][j] = sc[h][j]
    BY <1>3, OneWritten
  <2> QED BY <2>1, <2>2
<1>5. Own(t)
  <2>1. at'[t] # "idle"
    BY <1>2 DEF Placed
  <2> QED BY <1>2, <1>4, <2>1 DEF Own
<1>6. esDouble(g, k)' = CubeOf(g, k, d)
  <2>1. esDouble(g, k)' = data'[g][CubeDec(g, k)].esDouble
    BY SameRecords
  <2>2. CASE CubeDec(g, k) = k
    BY <1>4, <2>1, <2>2 DEF CubeOf
  <2>3. CASE CubeDec(g, k) # k
    <3>1. CubeDec(g, k) \in DOMAIN Moves(g)
      BY CallTypes
    <3>2. data'[g][CubeDec(g, k)] = data[g][CubeDec(g, k)]
      BY <1>3, <1>4, <2>3, <3>1
    <3> QED BY <2>1, <2>3, <3>2 DEF CubeOf, esDouble
  <2> QED BY <2>2, <2>3
<1>7. /\ Kind(g, k)' = Kind(g, k) /\ Seen(g, k)' = Seen(g, k) /\ Call(t)' = Call(t)
      /\ \A es : CubeKnown(g, k, es)' = CubeKnown(g, k, es)
      /\ \A y, es : IsAnalysed(g, k, y, es)' = IsAnalysed(g, k, y, es)
      /\ \A m, es : IsTallied(g, k, m, es)' = IsTallied(g, k, m, es)
  BY SameRecords, SMTT(30) DEF Call
<1>8. Analysed(g, k)' = IsAnalysed(g, k, d, CubeOf(g, k, d)) /\ Tallied(g, k)' = IsTallied(g, k, n, CubeOf(g, k, d))
  BY <1>4, <1>6, <1>7 DEF Analysed, Tallied
<1>9. AtPlace(t, g, k)'
  <2> DEFINE es == CubeOf(g, k, d)
  <2>1. /\ x \notin {"idle", "enter", "begin"} /\ e # NULL
        /\ x = "cube" => Kind(g, k) \in {"MOVE_NORMAL", "MOVE_DOUBLE"}
        /\ x \in {"play", "moves", "skill"} => Kind(g, k) = "MOVE_NORMAL" /\ CubeKnown(g, k, es)
        /\ x \in {"moves", "skill"} => d.fLuck
        /\ x = "count" => IsAnalysed(g, k, d, es) /\ (Kind(g, k) \in Answers => IsNormalTake(Seen(g, k)))
        /\ x = "apply" => IsAnalysed(g, k, d, es) /\ IsTallied(g, k, n, es)
        /\ x \in {"count", "apply"} /\ Kind(g, k) = "MOVE_DOUBLE" => e = es
    BY DEF Placed
  <2> HIDE DEF es
  <2>2. esDouble(g, k)' = es
    BY <1>6 DEF es
  <2>3. Analysed(g, k)' = IsAnalysed(g, k, d, es) /\ Tallied(g, k)' = IsTallied(g, k, n, es)
    BY <1>8 DEF es
  <2>4. (Kind(g, k) \in Answers => IsNormalTake(Seen(g, k)))' = (Kind(g, k) \in Answers => IsNormalTake(Seen(g, k)))
    BY <1>7
  <2> QED BY <1>2, <1>4, <1>7, <2>1, <2>2, <2>3, <2>4 DEF AtPlace
<1>10. AtPlace(t, Call(t).g, Call(t).k)'
  BY <1>7, <1>9
<1>11. at'[t] \in {"apply", "failed"} \/ sc'[Call(t).g][Call(t).k] = 0
  BY <1>2, <1>4 DEF Placed
<1> QED BY <1>5, <1>10, <1>11, OwnAccounts

\* What is known of a worker's record.
LEMMA InOrder ==
  ASSUME Types, MatchesAreProper, Batch, GoesWell, Accounts, NEW t \in Threads, at[t] # "idle",
         NEW g, NEW k, g = Call(t).g, k = Call(t).k
  PROVE  /\ g \in DOMAIN lMatch /\ k \in DOMAIN Moves(g) /\ k \in Nat \ {0}
         /\ Record(t) = Moves(g)[k] /\ Record(t).mt = Kind(g, k) /\ Record(t).fPlayer \in Players
         /\ Record(t) \in MoveRecords
         /\ Kind(g, k) = "MOVE_DOUBLE" =>
              IsFirst(g, k) /\ DoubleType(Seen(g, k)) = "DT_NORMAL" /\ CubeAvailable(Seen(g, k))
         /\ Kind(g, k) \in {"MOVE_NORMAL", "MOVE_DOUBLE"} => CubeDec(g, k) = k
         /\ Kind(g, k) \in Answers => CubeDec(g, k) # k
         /\ asked.es \in 1..Levels /\ asked.scope = "match" /\ asked.players = Players
         /\ at[t] \notin {"apply", "failed"} => sc[g][k] = 0
         /\ AtPlace(t, g, k) /\ Data(t) = data[g][k] /\ Data(t) \in Analyses /\ sc[g][k] \in Nat
         /\ esDouble(g, k) \in 0..Levels
         /\ at \in [Threads -> Places] /\ doubleError = [doubleError EXCEPT ![t] = doubleError[t]]
<1>1. Apart /\ Known /\ Shapes /\ Chained /\ Uncounted /\ AtPlaces /\ Covered
  BY DEF Accounts
<1>2. /\ Call(t) = task[t][1] /\ 1 \in DOMAIN task[t] /\ g \in DOMAIN lMatch /\ k \in DOMAIN Moves(g)
      /\ Kind(g, k) = "MOVE_DOUBLE" => IsPair(task[t])
  BY <1>1, HeldTask
<1>3. k \in Nat \ {0} /\ Moves(g)[k] \in MoveRecords
  BY <1>2, SeenTypes
<1>4. Record(t) = Moves(g)[k] /\ Record(t).mt = Kind(g, k)
  BY DEF Record, Kind
<1>5. Record(t).fPlayer \in Players
  BY <1>3, <1>4 DEF MoveRecords
<1>6. ASSUME Kind(g, k) = "MOVE_DOUBLE"
      PROVE  IsFirst(g, k) /\ DoubleType(Seen(g, k)) = "DT_NORMAL" /\ CubeAvailable(Seen(g, k))
  <2>1. IsFirst(g, k)
    BY <1>2, <1>6 DEF IsPair
  <2> QED BY <1>2, <1>6, <2>1, ProperDoubles
<1>7. Kind(g, k) \in {"MOVE_NORMAL", "MOVE_DOUBLE"} => CubeDec(g, k) = k
  <2>1. Kind(g, k) \in {"MOVE_NORMAL", "MOVE_DOUBLE"} => ~Linked(g, k)
    BY <1>6 DEF Linked, IsFirst, Answers
  <2> QED BY <1>3, <2>1, CubeDecOfChain
<1>8. Kind(g, k) \in Answers => CubeDec(g, k) # k
  <2>1. Kind(g, k) \in Answers => Linked(g, k)
    BY <1>2, ProperDoubles
  <2> QED BY <1>3, <2>1, CubeDecOfChain
<1>9. asked.es \in 1..Levels /\ asked.scope = "match" /\ asked.players = Players
  <2>1. asked.scope = "match" /\ asked.players = Players /\ asked.es # 0
    BY DEF GoesWell, Batch
  <2>2. asked.es \in 0..Levels
    BY DEF Types, MainTypes, UserTypes, Commands
  <2> QED BY <2>1, <2>2, LevelsAssumption
<1>10. at[t] \notin {"apply", "failed"} => sc[g][k] = 0
  BY <1>1, <1>2 DEF Uncounted
<1>11. AtPlace(t, g, k)
  BY <1>1 DEF AtPlaces
<1>12. Data(t) = data[g][k] /\ Data(t) \in Analyses
  BY CallTypes DEF Data
<1>13. sc[g][k] \in Nat
  BY <1>2 DEF Types, CountTypes
<1>14. esDouble(g, k) \in 0..Levels
  <2>1. data[g][CubeDec(g, k)] \in Analyses
    BY CallTypes
  <2> QED BY <2>1 DEF esDouble, Analyses
<1>15. at \in [Threads -> Places] /\ doubleError = [doubleError EXCEPT ![t] = doubleError[t]]
  BY DEF Types, WorkerTypes
<1> QED BY <1>2, <1>3, <1>4, <1>5, <1>6, <1>7, <1>8, <1>9, <1>10, <1>11, <1>12, <1>13, <1>14, <1>15

\* A step within a task keeps the accounts: at the beginning,
LEMMA BeginAccounts ==
  ASSUME Types, MatchesAreProper, Batch, GoesWell, Accounts, NEW t \in Threads,
         Skip(t) \/ BeginMove(t) \/ BeginDouble(t) \/ BeginAnswer(t) \/ BeginDice(t), main' # "crashed"
  PROVE  Accounts'
<1>1. /\ at[t] = "begin" /\ lMatch' = lMatch /\ UNCHANGED <<main, handing, pool, user, task>> /\ UNCHANGED sc
  BY DEF Skip, BeginMove, BeginDouble, BeginAnswer, BeginDice, Go, InLock, NoOther
<1> PICK g, k : g = Call(t).g /\ k = Call(t).k
  OBVIOUS
<1> PICK es, d : es = esDouble(g, k) /\ d = Data(t)
  OBVIOUS
<1>2. /\ g \in DOMAIN lMatch /\ k \in DOMAIN Moves(g)
      /\ Record(t) = Moves(g)[k] /\ Record(t).mt = Kind(g, k) /\ Record(t).fPlayer \in Players
      /\ Kind(g, k) = "MOVE_DOUBLE" =>
           IsFirst(g, k) /\ DoubleType(Seen(g, k)) = "DT_NORMAL" /\ CubeAvailable(Seen(g, k))
      /\ Kind(g, k) \in {"MOVE_NORMAL", "MOVE_DOUBLE"} => CubeDec(g, k) = k
      /\ Kind(g, k) \in Answers => CubeDec(g, k) # k
      /\ asked.es \in 1..Levels /\ asked.players = Players /\ sc[g][k] = 0
      /\ d = data[g][k] /\ d \in Analyses /\ es \in 0..Levels
      /\ doubleError = [doubleError EXCEPT ![t] = doubleError[t]]
  BY <1>1, InOrder
<1>3. Call(t).ms = Seen(g, k) /\ doubleError[t] # NULL /\ (Kind(g, k) \in Answers => doubleError[t] = es)
  <2>1. AtPlace(t, g, k)
    BY <1>1, InOrder
  <2> QED BY <1>1, <2>1 DEF AtPlace
<1>4. CubeOf(g, k, d) = es
  BY <1>2 DEF CubeOf, esDouble
<1>11. ASSUME NEW x, NEW e, at' = [at EXCEPT ![t] = x], doubleError' = [doubleError EXCEPT ![t] = e],
              NEW w \in Analyses, data' = [data EXCEPT ![g][k] = w] \/ (UNCHANGED data /\ w = d),
              Placed(g, k, x, e, w, CubeOf(g, k, w), 0)
       PROVE  Accounts'
  <2>1. at[t] # "idle" /\ 0 \in Nat /\ (sc' = [sc EXCEPT ![g][k] = 0] \/ (UNCHANGED sc /\ 0 = sc[g][k]))
    BY <1>1, <1>2
  <2>2. data' = [data EXCEPT ![g][k] = w] \/ (UNCHANGED data /\ w = Data(t))
    BY <1>11
  <2>3. x \in {"cube", "play", "moves", "skill", "count"} => Call(t).ms = Seen(g, k)
    BY <1>3
  <2> QED BY <1>1, <1>11, <2>1, <2>2, <2>3, PlacedAccounts
<1>5. ASSUME NEW x, NEW e, at' = [at EXCEPT ![t] = x], doubleError' = [doubleError EXCEPT ![t] = e],
             UNCHANGED data, Placed(g, k, x, e, d, es, 0)
      PROVE  Accounts'
  <2>1. Placed(g, k, x, e, d, CubeOf(g, k, d), 0)
    BY <1>4, <1>5
  <2>2. d \in Analyses
    BY <1>2
  <2> QED BY <1>5, <1>11, <2>1, <2>2
<1>6. CASE Skip(t)
  <2>1. /\ at' = [at EXCEPT ![t] = "apply"] /\ UNCHANGED data /\ doubleError' = [doubleError EXCEPT ![t] = doubleError[t]]
        /\ NotAnalysed(t)
    BY <1>2, <1>6 DEF Skip, Go
  <2>2. /\ Kind(g, k) \notin {"MOVE_NORMAL", "MOVE_DOUBLE"}
        /\ Kind(g, k) \in Answers => ~IsNormalTake(Seen(g, k))
    <3>1. ~(Record(t).mt # "MOVE_DOUBLE" /\ Record(t).fPlayer \notin asked.players)
      BY <1>2
    <3>2. ~(Record(t).mt = "MOVE_DOUBLE" /\ DoubleType(Call(t).ms) # "DT_NORMAL")
      BY <1>2, <1>3
    <3> QED BY <1>2, <1>3, <2>1, <3>1, <3>2 DEF NotAnalysed, Answers
  <2>3. ~IsFirst(g, k)
    BY <2>2 DEF IsFirst
  <2>4. IsAnalysed(g, k, d, es) /\ IsTallied(g, k, 0, es)
    BY <2>2, <2>3 DEF IsAnalysed, IsTallied, IsDue
  <2>5. Placed(g, k, "apply", doubleError[t], d, es, 0)
    BY <1>3, <2>2, <2>4 DEF Placed, Places, Inside
  <2> QED BY <1>5, <2>1, <2>5
<1>7. CASE BeginMove(t)
  <2>1. Kind(g, k) = "MOVE_NORMAL" /\ CubeDec(g, k) = k /\ Kind(g, k) \notin Answers
    BY <1>2, <1>7 DEF BeginMove, Answers
  <2>2. doubleError' = [doubleError EXCEPT ![t] = doubleError[t]]
    BY <1>2, <1>7 DEF BeginMove
  <2>3. CASE at' = [at EXCEPT ![t] = "cube"] /\ UNCHANGED data
    <3>1. Placed(g, k, "cube", doubleError[t], d, es, 0)
      BY <1>3, <2>1 DEF Placed, Places, Inside
    <3> QED BY <1>5, <2>2, <2>3, <3>1
  <2>4. CASE at' = [at EXCEPT ![t] = "play"] /\ UNCHANGED data /\ asked.es <= esDouble(g, k)
    <3>1. es # 0
      BY <1>2, <2>4, LevelsAssumption
    <3>2. CubeKnown(g, k, es)
      BY <3>1 DEF CubeKnown
    <3>3. Placed(g, k, "play", doubleError[t], d, es, 0)
      BY <1>3, <2>1, <3>2 DEF Placed, Places, Inside
    <3> QED BY <1>5, <2>2, <2>4, <3>3
  <2>5. CASE /\ at' = [at EXCEPT ![t] = "play"] /\ WriteDouble(t, 0)
             /\ ~(Call(t).ms.anBoard # InitBoard /\ GetDPEq(Call(t).ms))
    <3> PICK w : w = [d EXCEPT !.esDouble = 0]
      OBVIOUS
    <3>1. w \in Analyses /\ w.esDouble = 0
      BY <1>2, LevelsAssumption DEF Analyses
    <3>2. data' = [data EXCEPT ![g][k] = w]
      BY <1>2, <2>1, <2>5 DEF WriteDouble
    <3>3. CubeOf(g, k, w) = 0
      BY <2>1, <3>1 DEF CubeOf
    <3>4. CubeKnown(g, k, 0)
      BY <1>3, <2>5 DEF CubeKnown
    <3>5. Placed(g, k, "play", doubleError[t], w, CubeOf(g, k, w), 0)
      BY <1>3, <2>1, <3>3, <3>4 DEF Placed, Places, Inside
    <3> QED BY <1>11, <2>2, <2>5, <3>1, <3>2, <3>5
  <2> QED BY <1>7, <2>3, <2>4, <2>5 DEF BeginMove, Go
<1>8. CASE BeginDouble(t)
  <2>1. Kind(g, k) = "MOVE_DOUBLE" /\ Kind(g, k) \notin Answers /\ UNCHANGED data /\ CubeAvailable(Call(t).ms)
    BY <1>2, <1>3, <1>8 DEF BeginDouble, Answers
  <2>2. CASE at' = [at EXCEPT ![t] = "cube"] /\ UNCHANGED doubleError
    <3>1. Placed(g, k, "cube", doubleError[t], d, es, 0)
      BY <1>3, <2>1 DEF Placed, Places, Inside
    <3> QED BY <1>2, <1>5, <2>1, <2>2, <3>1
  <2>3. CASE /\ at' = [at EXCEPT ![t] = "count"] /\ doubleError' = [doubleError EXCEPT ![t] = es]
             /\ ~(asked.es > es)
    <3>1. es # 0
      BY <1>2, <2>3, LevelsAssumption
    <3>2. IsAnalysed(g, k, d, es) /\ es # NULL
      BY <1>2, <2>1, <3>1, LevelsAssumption DEF IsAnalysed, NULL
    <3>3. Placed(g, k, "count", es, d, es, 0)
      BY <2>1, <3>2 DEF Placed, Places, Inside
    <3> QED BY <1>5, <2>1, <2>3, <3>3
  <2> QED BY <1>3, <1>8, <2>1, <2>2, <2>3 DEF BeginDouble, Go
<1>9. CASE BeginAnswer(t)
  <2>1. Kind(g, k) \in Answers /\ ~NotAnalysed(t) /\ at' = [at EXCEPT ![t] = "count"]
        /\ doubleError' = [doubleError EXCEPT ![t] = doubleError[t]]
    BY <1>2, <1>9 DEF BeginAnswer, Answers, Go
  <2>2. doubleError[t] = es /\ es \notin {NULL, ERR_VAL} /\ es \in NotTold..Levels
    BY <1>2, <1>3, <2>1, LevelsAssumption DEF NULL, ERR_VAL, NotTold
  <2>3. IsNormalTake(Seen(g, k))
    BY <1>2, <1>3, <2>1 DEF NotAnalysed, Answers
  <2> PICK w : w = [d EXCEPT !.stCube = es]
    OBVIOUS
  <2>4. w \in Analyses /\ w.stCube = es
    BY <1>2, <2>2 DEF Analyses
  <2>5. data' = [data EXCEPT ![g][k] = w]
    BY <1>2, <1>9, <2>2 DEF BeginAnswer, Write
  <2>6. CubeOf(g, k, w) = es
    BY <1>2, <2>1 DEF CubeOf
  <2>7. IsAnalysed(g, k, w, es)
    BY <2>1, <2>4 DEF IsAnalysed, IsFirst, Answers
  <2>8. Placed(g, k, "count", doubleError[t], w, CubeOf(g, k, w), 0)
    BY <1>3, <2>1, <2>3, <2>6, <2>7 DEF Placed, Places, Inside, Answers
  <2> QED BY <1>11, <2>1, <2>4, <2>5, <2>8
<1>10. CASE BeginDice(t)
  <2>1. Kind(g, k) = "MOVE_SETDICE" /\ at' = [at EXCEPT ![t] = "count"]
        /\ doubleError' = [doubleError EXCEPT ![t] = doubleError[t]]
    BY <1>2, <1>10 DEF BeginDice, Go
  <2> PICK w : w = [d EXCEPT !.fLuck = TRUE]
    OBVIOUS
  <2>2. w \in Analyses
    BY <1>2 DEF Analyses
  <2>3. data' = [data EXCEPT ![g][k] = w]
    BY <1>2, <1>10 DEF BeginDice, Write
  <2>4. Placed(g, k, "count", doubleError[t], w, CubeOf(g, k, w), 0)
    BY <1>3, <2>1 DEF Placed, Places, Inside, Answers, IsAnalysed, IsFirst
  <2> QED BY <1>11, <2>1, <2>2, <2>3, <2>4
<1> QED BY <1>6, <1>7, <1>8, <1>9, <1>10

\* while it is evaluated,
LEMMA EvaluationAccounts ==
  ASSUME Types, MatchesAreProper, Batch, GoesWell, Accounts, NEW t \in Threads,
         StoreCube(t) \/ Play(t) \/ StoreMoves(t) \/ EvaluationFails(t) \/ Skill(t), main' # "crashed"
  PROVE  Accounts'
<1>1. /\ at[t] \in {"cube", "play", "moves", "skill"} /\ lMatch' = lMatch
      /\ UNCHANGED <<main, handing, pool, user, task>> /\ UNCHANGED sc
  BY DEF StoreCube, Play, StoreMoves, EvaluationFails, Skill, Go, InLock, NoOther
<1> PICK g, k : g = Call(t).g /\ k = Call(t).k
  OBVIOUS
<1> PICK es, d : es = esDouble(g, k) /\ d = Data(t)
  OBVIOUS
<1>2. /\ g \in DOMAIN lMatch /\ k \in DOMAIN Moves(g)
      /\ Record(t) = Moves(g)[k] /\ Record(t).mt = Kind(g, k)
      /\ Kind(g, k) \in {"MOVE_NORMAL", "MOVE_DOUBLE"} => CubeDec(g, k) = k
      /\ asked.es \in 1..Levels /\ sc[g][k] = 0
      /\ d = data[g][k] /\ d \in Analyses /\ es \in 0..Levels
      /\ doubleError = [doubleError EXCEPT ![t] = doubleError[t]]
      /\ at[t] # "idle" /\ AtPlace(t, g, k)
  BY <1>1, InOrder
<1>3. /\ Call(t).ms = Seen(g, k) /\ doubleError[t] # NULL
      /\ at[t] = "cube" => Kind(g, k) \in {"MOVE_NORMAL", "MOVE_DOUBLE"}
      /\ at[t] # "cube" => Kind(g, k) = "MOVE_NORMAL" /\ CubeKnown(g, k, es)
      /\ at[t] \in {"moves", "skill"} => d.fLuck
  BY <1>1, <1>2 DEF AtPlace
<1>4. asked.es # 0 /\ asked.es # NULL /\ asked.es \in 0..Levels
  BY <1>2, LevelsAssumption DEF NULL
<1>5. ASSUME NEW x, NEW e, at' = [at EXCEPT ![t] = x], doubleError' = [doubleError EXCEPT ![t] = e],
             NEW w \in Analyses, data' = [data EXCEPT ![g][k] = w] \/ (UNCHANGED data /\ w = d),
             Placed(g, k, x, e, w, CubeOf(g, k, w), 0)
      PROVE  Accounts'
  <2>1. at[t] # "idle" /\ 0 \in Nat /\ (sc' = [sc EXCEPT ![g][k] = 0] \/ (UNCHANGED sc /\ 0 = sc[g][k]))
    BY <1>1, <1>2
  <2>2. data' = [data EXCEPT ![g][k] = w] \/ (UNCHANGED data /\ w = Data(t))
    BY <1>5
  <2>3. x \in {"cube", "play", "moves", "skill", "count"} => Call(t).ms = Seen(g, k)
    BY <1>3
  <2> QED BY <1>1, <1>5, <2>1, <2>2, <2>3, PlacedAccounts
<1>6. ASSUME NEW w, w.esDouble = d.esDouble PROVE CubeOf(g, k, w) = es
  BY <1>2, <1>6 DEF CubeOf, esDouble
<1>7. CASE StoreCube(t)
  <2>1. at[t] = "cube" /\ CubeDec(g, k) = k /\ WriteDouble(t, asked.es)
    BY <1>2, <1>3, <1>7 DEF StoreCube, Go
  <2> PICK w : w = [d EXCEPT !.esDouble = asked.es]
    OBVIOUS
  <2>2. w \in Analyses /\ w.esDouble = asked.es
    BY <1>2, <1>4 DEF Analyses
  <2>3. data' = [data EXCEPT ![g][k] = w]
    BY <1>2, <2>1 DEF WriteDouble
  <2>4. CubeOf(g, k, w) = asked.es
    BY <2>1, <2>2 DEF CubeOf
  <2>5. CASE at' = [at EXCEPT ![t] = "play"] /\ Kind(g, k) = "MOVE_NORMAL" /\ UNCHANGED doubleError
    <3>1. Placed(g, k, "play", doubleError[t], w, CubeOf(g, k, w), 0)
      BY <1>3, <1>4, <2>4, <2>5 DEF Placed, Places, Inside, CubeKnown
    <3> QED BY <1>2, <1>5, <2>2, <2>3, <2>5, <3>1
  <2>6. CASE /\ at' = [at EXCEPT ![t] = "count"] /\ Kind(g, k) = "MOVE_DOUBLE"
             /\ doubleError' = [doubleError EXCEPT ![t] = asked.es]
    <3>1. IsAnalysed(g, k, w, asked.es)
      BY <1>4, <2>6 DEF IsAnalysed, Answers
    <3>2. Placed(g, k, "count", asked.es, w, CubeOf(g, k, w), 0)
      BY <1>4, <2>4, <2>6, <3>1 DEF Placed, Places, Inside, Answers
    <3> QED BY <1>5, <2>2, <2>3, <2>6, <3>2
  <2> QED BY <1>2, <1>3, <1>7, <2>5, <2>6 DEF StoreCube, Go
<1>8. CASE Play(t)
  <2>1. doubleError' = [doubleError EXCEPT ![t] = doubleError[t]] /\ at[t] = "play"
    BY <1>2, <1>8 DEF Play, Go
  <2>2. Kind(g, k) = "MOVE_NORMAL" /\ CubeKnown(g, k, es)
    BY <1>3, <2>1
  <2>3. ASSUME NEW x \in {"moves", "skill"}, at' = [at EXCEPT ![t] = x],
               NEW w \in Analyses, data' = [data EXCEPT ![g][k] = w], w.fLuck, w.esDouble = d.esDouble
        PROVE  Accounts'
    <3>1. CubeOf(g, k, w) = es
      BY <1>6, <2>3
    <3>2. Placed(g, k, x, doubleError[t], w, CubeOf(g, k, w), 0)
      BY <1>3, <2>2, <2>3, <3>1 DEF Placed, Places, Inside
    <3> QED BY <1>5, <2>1, <2>3, <3>2
  <2>4. CASE at' = [at EXCEPT ![t] = "skill"] /\ Write(t, "fLuck", TRUE)
    <3> PICK w : w = [d EXCEPT !.fLuck = TRUE]
      OBVIOUS
    <3>1. w \in Analyses /\ w.fLuck /\ w.esDouble = d.esDouble
      BY <1>2 DEF Analyses
    <3>2. data' = [data EXCEPT ![g][k] = w]
      BY <1>2, <2>4 DEF Write
    <3> QED BY <2>3, <2>4, <3>1, <3>2
  <2>5. CASE /\ at' = [at EXCEPT ![t] = "moves"]
             /\ data' = [data EXCEPT ![g][k] = [d EXCEPT !.fLuck = TRUE, !.ml = IF @ = "none" THEN @ ELSE "lost"]]
    <3> PICK w : w = [d EXCEPT !.fLuck = TRUE, !.ml = IF @ = "none" THEN @ ELSE "lost"]
      OBVIOUS
    <3>1. w \in Analyses /\ w.fLuck /\ w.esDouble = d.esDouble
      BY <1>2 DEF Analyses
    <3>2. data' = [data EXCEPT ![g][k] = w]
      BY <2>5
    <3> QED BY <2>3, <2>5, <3>1, <3>2
  <2> QED BY <1>8, <2>4, <2>5 DEF Play, Go
<1>9. CASE StoreMoves(t)
  <2>1. /\ doubleError' = [doubleError EXCEPT ![t] = doubleError[t]] /\ at[t] = "moves" /\ at' = [at EXCEPT ![t] = "skill"]
    BY <1>2, <1>9 DEF StoreMoves, Go
  <2>2. PICK ml \in {"none", "whole"} : Write(t, "ml", ml)
    BY <1>9 DEF StoreMoves
  <2> PICK w : w = [d EXCEPT !.ml = ml]
    OBVIOUS
  <2>3. w \in Analyses /\ w.fLuck /\ w.esDouble = d.esDouble
    BY <1>2, <1>3, <2>1 DEF Analyses
  <2>4. data' = [data EXCEPT ![g][k] = w]
    BY <1>2, <2>2 DEF Write
  <2>5. Placed(g, k, "skill", doubleError[t], w, CubeOf(g, k, w), 0)
    <3>1. CubeOf(g, k, w) = es
      BY <1>6, <2>3
    <3> QED BY <1>3, <2>1, <2>3, <3>1 DEF Placed, Places, Inside
  <2> QED BY <1>5, <2>1, <2>3, <2>4, <2>5
<1>10. CASE EvaluationFails(t)
  <2>1. /\ doubleError' = [doubleError EXCEPT ![t] = doubleError[t]] /\ UNCHANGED data /\ at' = [at EXCEPT ![t] = "failed"]
    BY <1>2, <1>10 DEF EvaluationFails, Go
  <2>2. Placed(g, k, "failed", doubleError[t], d, CubeOf(g, k, d), 0)
    BY <1>3 DEF Placed, Places, Inside
  <2> QED BY <1>2, <1>5, <2>1, <2>2
<1>11. CASE Skill(t)
  <2>1. /\ doubleError' = [doubleError EXCEPT ![t] = doubleError[t]] /\ at[t] = "skill" /\ at' = [at EXCEPT ![t] = "count"]
        /\ d.ml # "lost" /\ Write(t, "esChequer", asked.es)
    BY <1>2, <1>11 DEF Skill, Go
  <2> PICK w : w = [d EXCEPT !.esChequer = asked.es]
    OBVIOUS
  <2>2. w \in Analyses /\ w.fLuck /\ w.esDouble = d.esDouble /\ w.esChequer = asked.es /\ w.ml # "lost"
    BY <1>2, <1>3, <1>4, <2>1 DEF Analyses
  <2>3. data' = [data EXCEPT ![g][k] = w]
    BY <1>2, <2>1 DEF Write
  <2>4. Kind(g, k) = "MOVE_NORMAL" /\ CubeKnown(g, k, es)
    BY <1>3, <2>1
  <2>5. IsAnalysed(g, k, w, es)
    BY <1>4, <2>2, <2>4 DEF IsAnalysed, IsFirst, Answers
  <2>6. Placed(g, k, "count", doubleError[t], w, CubeOf(g, k, w), 0)
    <3>1. CubeOf(g, k, w) = es
      BY <1>6, <2>2
    <3> QED BY <1>3, <2>4, <2>5, <3>1 DEF Placed, Places, Inside, Answers
  <2> QED BY <1>5, <2>1, <2>2, <2>3, <2>6
<1> QED BY <1>7, <1>8, <1>9, <1>10, <1>11

\* and when it is counted.
LEMMA CountAccounts ==
  ASSUME Types, MatchesAreProper, Batch, GoesWell, Accounts, NEW t \in Threads, Count(t)
  PROVE  Accounts'
<1>1. /\ at[t] = "count" /\ at' = [at EXCEPT ![t] = "apply"] /\ lMatch' = lMatch
      /\ UNCHANGED <<main, handing, pool, user, task>> /\ UNCHANGED data /\ UNCHANGED doubleError
  BY DEF Count, Go, InLock
<1> PICK g, k : g = Call(t).g /\ k = Call(t).k
  OBVIOUS
<1> PICK es, d : es = esDouble(g, k) /\ d = Data(t)
  OBVIOUS
<1>2. /\ g \in DOMAIN lMatch /\ k \in DOMAIN Moves(g) /\ Record(t) \in MoveRecords
      /\ Record(t) = Moves(g)[k] /\ Record(t).mt = Kind(g, k)
      /\ Kind(g, k) = "MOVE_DOUBLE" => IsFirst(g, k) /\ DoubleType(Seen(g, k)) = "DT_NORMAL"
      /\ asked.scope = "match" /\ sc[g][k] = 0
      /\ d = data[g][k] /\ d \in Analyses
      /\ doubleError = [doubleError EXCEPT ![t] = doubleError[t]]
      /\ AtPlace(t, g, k)
  BY <1>1, InOrder
<1>3. /\ Call(t).ms = Seen(g, k) /\ doubleError[t] # NULL /\ IsAnalysed(g, k, d, es)
      /\ Kind(g, k) \in Answers => IsNormalTake(Seen(g, k))
      /\ Kind(g, k) = "MOVE_DOUBLE" => doubleError[t] = es
  BY <1>1, <1>2 DEF AtPlace, Analysed
<1> PICK n : n = IF Counts(Seen(g, k), g, k, d) THEN 1 ELSE 0
  OBVIOUS
<1>4. sc' = [sc EXCEPT ![g][k] = n] \/ (UNCHANGED sc /\ n = sc[g][k])
  <2>1. sc' = IF Counts(Seen(g, k), g, k, d) THEN [sc EXCEPT ![g][k] = @ + 1] ELSE sc
    BY <1>2, <1>3 DEF Count
  <2>2. CASE Counts(Seen(g, k), g, k, d)
    <3>1. n = 1 /\ sc' = [sc EXCEPT ![g][k] = sc[g][k] + 1] /\ sc[g][k] + 1 = 1
      BY <1>2, <2>1, <2>2
    <3> QED BY <3>1
  <2>3. CASE ~Counts(Seen(g, k), g, k, d)
    BY <1>2, <2>1, <2>3
  <2> QED BY <2>2, <2>3
<1>5. n \in Nat
  OBVIOUS
<1>6. IsTallied(g, k, n, es)
  <2>1. CASE Kind(g, k) = "MOVE_NORMAL"
    BY <2>1 DEF IsTallied, IsDue, Counts, Kind
  <2>2. CASE Kind(g, k) = "MOVE_DOUBLE"
    <3>1. Counts(Seen(g, k), g, k, d) <=> es # 0
      BY <1>2, <2>2 DEF Counts, Kind
    <3>2. IsDue(g, k, es) <=> es # 0
      BY <1>2, <2>2 DEF IsDue, Answers
    <3> QED BY <3>1, <3>2 DEF IsTallied
  <2>3. CASE Kind(g, k) \in Answers
    <3>1. Counts(Seen(g, k), g, k, d) <=> es # 0
      BY <1>3, <2>3 DEF Counts, Kind, Answers
    <3>2. IsDue(g, k, es) <=> es # 0
      BY <1>3, <2>3 DEF IsDue, Answers, IsFirst
    <3> QED BY <3>1, <3>2 DEF IsTallied
  <2>4. CASE Kind(g, k) = "MOVE_SETDICE"
    BY <2>4 DEF IsTallied
  <2>5. CASE Kind(g, k) \notin Answers \cup {"MOVE_NORMAL", "MOVE_DOUBLE", "MOVE_SETDICE"}
    <3>1. ~Counts(Seen(g, k), g, k, d)
      BY <2>5 DEF Counts, Kind, Answers
    <3>2. ~IsDue(g, k, es)
      BY <2>5 DEF IsDue, Answers, IsFirst
    <3> QED BY <3>1, <3>2 DEF IsTallied
  <2> QED BY <2>1, <2>2, <2>3, <2>4, <2>5
<1>7. CubeOf(g, k, d) = es
  BY <1>2 DEF CubeOf, esDouble
<1>8. Placed(g, k, "apply", doubleError[t], d, CubeOf(g, k, d), n)
  BY <1>3, <1>6, <1>7 DEF Placed, Places, Inside
<1>9. doubleError' = [doubleError EXCEPT ![t] = doubleError[t]]
  BY <1>1, <1>2
<1>10. at[t] # "idle" /\ (data' = [data EXCEPT ![g][k] = d] \/ (UNCHANGED data /\ d = Data(t)))
  BY <1>1
<1> QED BY <1>1, <1>2, <1>3, <1>4, <1>5, <1>8, <1>9, <1>10, PlacedAccounts

-----------------------------------------------------------------------------
(* A worker takes a task, enters it, and goes on.                          *)

\* A step that writes nothing changes nothing that was found; of a worker that
\* it leaves alone, all stays.
LEMMA NothingWritten ==
  ASSUME lMatch' = lMatch, UNCHANGED <<data, sc>>
  PROVE  /\ \A g, k : /\ esDouble(g, k)' = esDouble(g, k) /\ Analysed(g, k)' = Analysed(g, k)
                      /\ Tallied(g, k)' = Tallied(g, k) /\ Done(g, k)' = Done(g, k)
         /\ \A g, k : \A u \in Threads : at'[u] = at[u] /\ doubleError'[u] = doubleError[u] /\ task'[u] = task[u] =>
                        AtPlace(u, g, k)' = AtPlace(u, g, k)
<1>1. \A g, k : esDouble(g, k)' = esDouble(g, k)
  BY SameRecords DEF esDouble
<1>2. \A g, k : Analysed(g, k)' = Analysed(g, k)
  BY <1>1, SameRecords DEF Analysed
<1>3. \A g, k : Tallied(g, k)' = Tallied(g, k)
  BY <1>1, SameRecords DEF Tallied
<1>4. \A g, k : Done(g, k)' = Done(g, k)
  BY <1>2, <1>3, SameRecords DEF Done
<1>5. ASSUME NEW g, NEW k, NEW u \in Threads,
             at'[u] = at[u], doubleError'[u] = doubleError[u], task'[u] = task[u]
      PROVE  AtPlace(u, g, k)' = AtPlace(u, g, k)
  <2>1. /\ Kind(g, k)' = Kind(g, k) /\ Seen(g, k)' = Seen(g, k) /\ esDouble(g, k)' = esDouble(g, k)
        /\ \A es : CubeKnown(g, k, es)' = CubeKnown(g, k, es)
        /\ Analysed(g, k)' = Analysed(g, k) /\ Tallied(g, k)' = Tallied(g, k)
    BY <1>1, <1>2, <1>3, SameRecords
  <2>2. Call(u)' = Call(u)
    BY <1>5 DEF Call
  <2> QED BY <1>5, <2>1, <2>2 DEF AtPlace
<1> QED BY <1>1, <1>2, <1>3, <1>4, <1>5

\* What waits, and what is kept of a game, is the same when main, handing and
\* records are.
LEMMA SameHanding ==
  ASSUME lMatch' = lMatch, UNCHANGED <<main, handing>>
  PROVE  /\ Doubles' = Doubles /\ Chained' = Chained /\ \A g, k : IsHanded(g, k)' = IsHanded(g, k)
<1>1. Doubles' = Doubles
  BY DEF Doubles, Named, handing
<1>2. Chained' = Chained
  BY SameRecords DEF Chained, handing
<1>3. \A g, k : IsHanded(g, k)' = IsHanded(g, k)
  BY DEF IsHanded, handing
<1> QED BY <1>1, <1>2, <1>3

\* A worker now holds what it held, or less.
LEMMA HeldAccounts ==
  ASSUME Types, Accounts, lMatch' = lMatch, UNCHANGED <<main, handing, tasks, data, sc>>,
         NEW t \in Threads, at[t] # "idle",
         \A u \in Threads \ {t} : at'[u] = at[u] /\ task'[u] = task[u] /\ doubleError'[u] = doubleError[u],
         Named(task'[t]) \subseteq Named(task[t]), at'[t] # "idle" => IsRest(task'[t]),
         \A j \in DOMAIN task'[t] :
            j > 1 \/ at'[t] \notin {"apply", "failed"} => sc[task'[t][j].g][task'[t][j].k] = 0,
         at'[t] # "idle" => AtPlace(t, Call(t).g, Call(t).k)',
         \A y \in Named(task[t]) : y \notin Named(task'[t]) => Done(y[1], y[2])
  PROVE  Accounts'
<1>1. Apart /\ Known /\ Shapes /\ Chained /\ Uncounted /\ AtPlaces /\ Covered
  BY DEF Accounts
<1>2. \A u \in Threads \ {t} : at'[u] = at[u] /\ task'[u] = task[u] /\ doubleError'[u] = doubleError[u]
  OBVIOUS
<1>3. \A u \in Threads : Named(task'[u]) \subseteq Named(task[u])
  BY <1>2
<1>4. \A p : Named(p)' = Named(p)
  BY DEF Named
<1>5. /\ Doubles' = Doubles /\ Chained' = Chained /\ \A g, k : IsHanded(g, k)' = IsHanded(g, k)
  BY SameHanding
<1>6. \A y : IsPending(y)' => IsPending(y)
  BY <1>3, <1>5 DEF IsPending, Named
<1>7. Apart'
  <2>1. \A i, j \in DOMAIN tasks : i # j => Named(tasks[i]) \cap Named(tasks[j]) = {}
    BY <1>1 DEF Apart
  <2>2. \A u, v \in Threads : u # v => Named(task'[u]) \cap Named(task'[v]) = {}
    BY <1>1, <1>3 DEF Apart
  <2>3. \A i \in DOMAIN tasks : \A u \in Threads : Named(tasks[i]) \cap Named(task'[u]) = {}
    BY <1>1, <1>3 DEF Apart
  <2>4. \A i \in DOMAIN tasks : Named(tasks[i]) \cap Doubles = {}
    BY <1>1 DEF Apart
  <2>5. \A u \in Threads : Named(task'[u]) \cap Doubles = {}
    BY <1>1, <1>3 DEF Apart
  <2> QED BY <1>5, <2>1, <2>2, <2>3, <2>4, <2>5 DEF Apart, Named
<1>8. Known'
  BY <1>1, <1>5, <1>6 DEF Known
<1>9. Shapes'
  <2>1. \A p : IsTask(p)' = IsTask(p) /\ IsRest(p)' = IsRest(p)
    BY SameRecords
  <2>2. \A u \in Threads : at'[u] # "idle" => IsRest(task'[u])
    BY <1>1, <1>2 DEF Shapes
  <2> QED BY <1>1, <2>1, <2>2 DEF Shapes
<1>10. Uncounted'
  <2>1. \A u \in Threads : \A j \in DOMAIN task'[u] :
           j > 1 \/ at'[u] \notin {"apply", "failed"} => sc[task'[u][j].g][task'[u][j].k] = 0
    BY <1>1, <1>2 DEF Uncounted
  <2>2. Moves(plGame)' = Moves(plGame) /\ plLast' = plLast /\ plGame' = plGame
    BY DEF Moves, handing
  <2>3. \A i \in DOMAIN tasks : \A y \in Named(tasks[i]) : sc[y[1]][y[2]] = 0
    BY <1>1 DEF Uncounted
  <2>4. /\ \A y \in Doubles : sc[y[1]][y[2]] = 0
        /\ main = "add" => \A k \in DOMAIN Moves(plGame) : k > plLast => sc[plGame][k] = 0
    BY <1>1 DEF Uncounted
  <2>5. \A i \in DOMAIN tasks' : \A y \in Named(tasks[i])' : sc'[y[1]][y[2]] = 0
    BY <1>4, <2>3
  <2> QED BY <1>5, <2>1, <2>2, <2>4, <2>5 DEF Uncounted
<1>11. AtPlaces'
  <2> SUFFICES ASSUME NEW u \in Threads, at'[u] # "idle" PROVE AtPlace(u, Call(u).g, Call(u).k)'
    BY DEF AtPlaces
  <2>1. CASE u = t
    BY <1>2, <2>1
  <2>2. CASE u # t
    <3> PICK g, k : g = Call(u).g /\ k = Call(u).k
      OBVIOUS
    <3>1. AtPlace(u, g, k) /\ at'[u] = at[u] /\ doubleError'[u] = doubleError[u] /\ task'[u] = task[u]
      BY <1>1, <1>2, <2>2 DEF AtPlaces
    <3>2. AtPlace(u, g, k)'
      BY <3>1, NothingWritten
    <3>3. Call(u)' = Call(u)
      BY <3>1 DEF Call
    <3> QED BY <3>2, <3>3
  <2> QED BY <2>1, <2>2
<1>12. Covered'
  <2> SUFFICES ASSUME NEW g \in DOMAIN lMatch, NEW k \in DOMAIN Moves(g), IsHanded(g, k), ~IsPending(<<g, k>>)'
               PROVE  Done(g, k)
    BY <1>5, SameRecords, NothingWritten DEF Covered
  <2>1. CASE ~IsPending(<<g, k>>)
    BY <1>1, <2>1 DEF Covered
  <2>2. CASE IsPending(<<g, k>>)
    <3> DEFINE y == <<g, k>>
    <3>1. ~(\E i \in DOMAIN tasks : y \in Named(tasks[i])) /\ y \notin Doubles
      BY <1>5 DEF IsPending, Named
    <3>2. \A u \in Threads : y \notin Named(task'[u])
      BY DEF IsPending, Named
    <3>3. y \in Named(task[t])
      BY <1>2, <2>2, <3>1, <3>2 DEF IsPending
    <3>4. Done(y[1], y[2])
      BY <1>2, <3>2, <3>3
    <3> QED BY <3>4
  <2> QED BY <2>1, <2>2
<1> QED BY <1>1, <1>5, <1>7, <1>8, <1>9, <1>10, <1>11, <1>12 DEF Accounts

\* The first task that waits is taken.
LEMMA GetTaskAccounts ==
  ASSUME Types, GoesWell, Accounts, NEW t \in Threads, GetTask(t)
  PROVE  Accounts'
<1>1. Apart /\ Known /\ Shapes /\ Chained /\ Uncounted /\ AtPlaces /\ Covered
  BY DEF Accounts
<1> PICK q : q = Head(tasks)
  OBVIOUS
<1>2. /\ at[t] = "idle" /\ at' = [at EXCEPT ![t] = "enter"] /\ tasks # <<>> /\ tasks' = Tail(tasks)
      /\ task' = [task EXCEPT ![t] = q] /\ doubleError' = [doubleError EXCEPT ![t] = 0]
      /\ UNCHANGED <<main, handing, data, sc>> /\ lMatch' = lMatch
  BY DEF GetTask, Go, records, GoesWell
<1>3. /\ tasks \in Seq(Seq(Calls)) /\ at \in [Threads -> Places] /\ task \in [Threads -> Seq(Calls)]
      /\ doubleError \in [Threads -> NULL..Levels] /\ task[t] = <<>>
      /\ \A i \in DOMAIN tasks : Len(tasks[i]) \in 1..2
  BY <1>2, PoolStays DEF Types, WorkerTypes
<1>4. /\ q = tasks[1] /\ 1 \in DOMAIN tasks
      /\ \A i \in DOMAIN tasks' : i + 1 \in DOMAIN tasks /\ i + 1 # 1 /\ tasks'[i] = tasks[i + 1]
      /\ \A i \in DOMAIN tasks : i # 1 => i - 1 \in DOMAIN tasks' /\ tasks[i] = tasks'[i - 1]
      /\ \A i \in DOMAIN tasks' : i \in Nat
  <2>1. /\ Len(tasks) \in Nat \ {0} /\ DOMAIN tasks = 1..Len(tasks) /\ q = tasks[1]
        /\ DOMAIN tasks' = 1..(Len(tasks) - 1) /\ \A i \in 1..(Len(tasks) - 1) : tasks'[i] = tasks[i + 1]
    BY <1>2, <1>3
  <2> QED BY <2>1
<1>5. /\ at'[t] = "enter" /\ task'[t] = q /\ doubleError'[t] = 0
      /\ \A u \in Threads \ {t} : at'[u] = at[u] /\ task'[u] = task[u] /\ doubleError'[u] = doubleError[u]
  BY <1>2, <1>3
<1>6. \A p : Named(p)' = Named(p)
  BY DEF Named
<1>7. /\ Doubles' = Doubles /\ Chained' = Chained /\ \A g, k : IsHanded(g, k)' = IsHanded(g, k)
  BY <1>2, SameHanding
<1>8. Named(task[t]) = {}
  BY <1>3 DEF Named
<1>9. \A y : IsPending(y)' <=> IsPending(y)
  <2>1. ASSUME NEW y PROVE (\E i \in DOMAIN tasks : y \in Named(tasks[i]))
                            <=> (y \in Named(q) \/ \E i \in DOMAIN tasks' : y \in Named(tasks'[i]))
    BY <1>4
  <2>2. ASSUME NEW y PROVE (\E u \in Threads : y \in Named(task'[u]))
                            <=> (y \in Named(q) \/ \E u \in Threads : y \in Named(task[u]))
    BY <1>5, <1>8
  <2>3. \A y : IsPending(y)' <=> \/ \E i \in DOMAIN tasks' : y \in Named(tasks'[i])
                                 \/ \E u \in Threads : y \in Named(task'[u])
                                 \/ y \in Doubles
    BY <1>7 DEF IsPending, Named
  <2> QED BY <2>1, <2>2, <2>3 DEF IsPending
<1>10. Apart'
  <2>1. \A i, j \in DOMAIN tasks' : i # j => Named(tasks'[i]) \cap Named(tasks'[j]) = {}
    <3>1. \A i, j \in DOMAIN tasks' : i # j => i + 1 # j + 1
      BY <1>4
    <3> QED BY <1>1, <1>4, <3>1 DEF Apart
  <2>2. \A u, v \in Threads : u # v => Named(task'[u]) \cap Named(task'[v]) = {}
    BY <1>1, <1>4, <1>5 DEF Apart
  <2>3. \A i \in DOMAIN tasks' : \A u \in Threads : Named(tasks'[i]) \cap Named(task'[u]) = {}
    BY <1>1, <1>4, <1>5 DEF Apart
  <2>4. \A i \in DOMAIN tasks' : Named(tasks'[i]) \cap Doubles = {}
    BY <1>1, <1>4 DEF Apart
  <2>5. \A u \in Threads : Named(task'[u]) \cap Doubles = {}
    BY <1>1, <1>4, <1>5 DEF Apart
  <2> QED BY <1>7, <2>1, <2>2, <2>3, <2>4, <2>5 DEF Apart, Named
<1>11. Known'
  BY <1>1, <1>7, <1>9 DEF Known
<1>12. IsTask(q) /\ IsRest(q) /\ 1 \in DOMAIN q
  <2>1. IsTask(q) /\ Len(q) \in 1..2 /\ q \in Seq(Calls)
    BY <1>1, <1>3, <1>4 DEF Shapes
  <2> QED BY <2>1 DEF IsTask, IsRest
<1>13. Shapes'
  <2>1. \A p : IsTask(p)' = IsTask(p) /\ IsRest(p)' = IsRest(p)
    BY <1>2, SameRecords
  <2>2. \A u \in Threads : at'[u] # "idle" => IsRest(task'[u])
    BY <1>1, <1>5, <1>12 DEF Shapes
  <2>3. \A i \in DOMAIN tasks' : IsTask(tasks'[i])
    BY <1>1, <1>4 DEF Shapes
  <2> QED BY <2>1, <2>2, <2>3 DEF Shapes
<1>14. Uncounted'
  <2>1. \A i \in DOMAIN tasks : \A y \in Named(tasks[i]) : sc[y[1]][y[2]] = 0
    BY <1>1 DEF Uncounted
  <2>2. \A j \in DOMAIN q : sc[q[j].g][q[j].k] = 0
    <3>1. \A j \in DOMAIN q : <<q[j].g, q[j].k>> \in Named(q)
      BY DEF Named
    <3>2. \A y \in Named(q) : sc[y[1]][y[2]] = 0
      BY <1>4, <2>1
    <3> QED BY <3>1, <3>2
  <2>3. \A u \in Threads : \A j \in DOMAIN task'[u] :
           j > 1 \/ at'[u] \notin {"apply", "failed"} => sc[task'[u][j].g][task'[u][j].k] = 0
    BY <1>1, <1>5, <2>2 DEF Uncounted
  <2>4. Moves(plGame)' = Moves(plGame) /\ plLast' = plLast /\ plGame' = plGame
    BY <1>2 DEF Moves, handing
  <2>5. \A i \in DOMAIN tasks' : \A y \in Named(tasks'[i]) : sc[y[1]][y[2]] = 0
    BY <1>4, <2>1
  <2>6. \A i \in DOMAIN tasks' : \A y \in Named(tasks[i])' : sc'[y[1]][y[2]] = 0
    <3>1. \A i : Named(tasks[i])' = Named(tasks'[i])
      BY DEF Named
    <3> QED BY <1>2, <2>5, <3>1
  <2>7. /\ \A y \in Doubles : sc[y[1]][y[2]] = 0
        /\ main = "add" => \A k \in DOMAIN Moves(plGame) : k > plLast => sc[plGame][k] = 0
    BY <1>1 DEF Uncounted
  <2> QED BY <1>2, <1>7, <2>3, <2>4, <2>6, <2>7 DEF Uncounted
<1>15. AtPlaces'
  <2> SUFFICES ASSUME NEW u \in Threads, at'[u] # "idle" PROVE AtPlace(u, Call(u).g, Call(u).k)'
    BY DEF AtPlaces
  <2>1. CASE u = t
    <3> PICK g, k : g = q[1].g /\ k = q[1].k
      OBVIOUS
    <3>1. Kind(g, k) \notin Answers
      BY <1>12 DEF IsTask, IsPair, IsFirst, Answers
    <3>2. AtPlace(t, g, k)'
      <4>1. Kind(g, k)' = Kind(g, k) /\ 0 # NULL
        BY <1>2, SameRecords DEF NULL
      <4> QED BY <1>5, <3>1, <4>1 DEF AtPlace
    <3>3. Call(t)' = q[1]
      <4>1. q # <<>> /\ q \in Seq(Calls)
        BY <1>3, <1>4, <1>12
      <4>2. Head(q) = q[1]
        BY <4>1
      <4> QED BY <1>5, <4>2 DEF Call
    <3> QED BY <2>1, <3>2, <3>3
  <2>2. CASE u # t
    <3> PICK g, k : g = Call(u).g /\ k = Call(u).k
      OBVIOUS
    <3>1. AtPlace(u, g, k) /\ at'[u] = at[u] /\ doubleError'[u] = doubleError[u] /\ task'[u] = task[u]
      BY <1>1, <1>5, <2>2 DEF AtPlaces
    <3>2. AtPlace(u, g, k)'
      BY <1>2, <3>1, NothingWritten
    <3>3. Call(u)' = Call(u)
      BY <3>1 DEF Call
    <3> QED BY <3>2, <3>3
  <2> QED BY <2>1, <2>2
<1>16. Covered'
  <2>1. \A g, k : Done(g, k)' = Done(g, k)
    BY <1>2, NothingWritten
  <2>2. \A g : Moves(g)' = Moves(g)
    BY <1>2, SameRecords
  <2> QED BY <1>1, <1>2, <1>7, <1>9, <2>1, <2>2 DEF Covered
<1> QED BY <1>1, <1>7, <1>10, <1>11, <1>13, <1>14, <1>15, <1>16 DEF Accounts

\* The record is looked at in its state.
LEMMA EnterAccounts ==
  ASSUME Types, Contexts', Accounts, NEW t \in Threads, Enter(t)
  PROVE  Accounts'
<1> PICK c, q : c = [Call(t) EXCEPT !.ms = AnalysedIn(@, Record(t))] /\ q = <<c>> \o Tail(task[t])
  OBVIOUS
<1>1. /\ at[t] = "enter" /\ at' = [at EXCEPT ![t] = "begin"] /\ lMatch' = lMatch
      /\ UNCHANGED <<main, handing, tasks, data, sc>> /\ UNCHANGED doubleError
      /\ task' = [task EXCEPT ![t] = q]
  BY DEF Enter, Go, NoOther, pool
<1>2. /\ Call(t) = task[t][1] /\ Call(t) \in Calls /\ Len(task[t]) \in 1..2 /\ task[t] \in Seq(Calls)
      /\ DOMAIN task[t] = 1..Len(task[t]) /\ IsRest(task[t])
      /\ at \in [Threads -> Places] /\ task \in [Threads -> Seq(Calls)]
      /\ doubleError' = [doubleError EXCEPT ![t] = doubleError[t]]
  BY <1>1, CallTypes, HeldTask DEF Accounts, Types, WorkerTypes
<1>3. c.g = Call(t).g /\ c.k = Call(t).k
  BY <1>2 DEF Calls
<1>4. Len(q) = Len(task[t]) /\ DOMAIN q = DOMAIN task[t]
      /\ \A j \in DOMAIN q : q[j].g = task[t][j].g /\ q[j].k = task[t][j].k
  <2> DEFINE rest == Tail(task[t])
             n == Len(task[t])
  <2>1. rest \in Seq(Calls) /\ Len(rest) = n - 1 /\ n \in Nat \ {0} /\ \A j \in 1..(n - 1) : rest[j] = task[t][j + 1]
    BY <1>2
  <2>2. q = <<c>> \o rest /\ DOMAIN task[t] = 1..n
    BY <1>2
  <2> HIDE DEF rest, n
  <2>3. Len(q) = n /\ DOMAIN q = 1..n
    BY <2>1, <2>2
  <2>4. \A j \in 1..n : q[j] = IF j = 1 THEN c ELSE task[t][j]
    <3>1. \A j \in 1..n : q[j] = IF j <= 1 THEN <<c>>[j] ELSE rest[j - 1]
      BY <2>1, <2>2
    <3>2. \A j \in 1..n : j > 1 => rest[j - 1] = task[t][j]
      BY <2>1
    <3>3. q[1] = c
      BY <2>1, <3>1
    <3>4. \A j \in 1..n : j # 1 => j > 1 /\ q[j] = rest[j - 1]
      <4> SUFFICES ASSUME NEW j \in 1..n, j # 1 PROVE j > 1 /\ q[j] = rest[j - 1]
        OBVIOUS
      <4>1. j > 1 /\ ~(j <= 1)
        BY <2>1
      <4> QED BY <3>1, <4>1
    <3> QED BY <3>2, <3>3, <3>4
  <2> QED BY <1>2, <1>3, <2>2, <2>3, <2>4 DEF n
<1>5. Named(q) = Named(task[t])
  BY <1>4 DEF Named
<1>6. IsRest(q)
  <2>1. 1 \in DOMAIN q /\ (Len(q) = 2 => 2 \in DOMAIN q)
    BY <1>2, <1>4
  <2> QED BY <1>2, <1>4, <2>1 DEF IsRest, IsPair
<1>7. \A j \in DOMAIN q : sc[q[j].g][q[j].k] = 0
  <2>1. \A j \in DOMAIN task[t] : sc[task[t][j].g][task[t][j].k] = 0
    BY <1>1 DEF Accounts, Uncounted
  <2> QED BY <1>4, <2>1
<1>8. AtPlace(t, Call(t).g, Call(t).k)'
  <2> PICK g, k : g = Call(t).g /\ k = Call(t).k
    OBVIOUS
  <2>1. Call(t)' = c /\ at'[t] = "begin" /\ doubleError'[t] = doubleError[t]
    <3>1. task'[t] = q /\ q # <<>>
      BY <1>1, <1>2, <1>4
    <3>2. Head(q) = c
      <4>1. q[1] = c
        BY <1>2
      <4>2. q[1] = Head(q)
        BY <3>1
      <4> QED BY <4>1, <4>2
    <3> QED BY <1>1, <1>2, <3>1, <3>2 DEF Call
  <2>2. AtPlace(t, g, k)
    BY <1>1 DEF Accounts, AtPlaces
  <2>3. c.ms = Seen(g, k)
    <3>1. Call(t)'.ms = AnalysedIn(CalculateBoard(lMatch[c.g], c.k - 1).ms, Moves(c.g)[c.k])
      BY <1>1, <2>1 DEF Contexts, AnalysedInContext, Record, Moves
    <3> QED BY <1>3, <2>1, <3>1 DEF Seen, Replayed
  <2>4. Kind(g, k)' = Kind(g, k) /\ Seen(g, k)' = Seen(g, k) /\ esDouble(g, k)' = esDouble(g, k)
    BY <1>1, SameRecords, NothingWritten
  <2>5. AtPlace(t, g, k)'
    BY <1>1, <2>1, <2>2, <2>3, <2>4 DEF AtPlace
  <2> QED BY <1>3, <2>1, <2>5
<1>9. at[t] # "idle" /\ Named(q) \subseteq Named(task[t])
      /\ \A y \in Named(task[t]) : y \notin Named(q) => Done(y[1], y[2])
  BY <1>1, <1>5
<1>10. /\ task'[t] = q
       /\ \A u \in Threads \ {t} : at'[u] = at[u] /\ task'[u] = task[u] /\ doubleError'[u] = doubleError[u]
  BY <1>1, <1>2
<1> QED BY <1>1, <1>6, <1>7, <1>8, <1>9, <1>10, HeldAccounts, ZenonT(60)

\* A task is done, or what is left of it, the answer, is next.
LEMMA LeaveAccounts ==
  ASSUME Types, Accounts, NEW t \in Threads, Leave(t)
  PROVE  Accounts'
<1>1. Apart /\ Known /\ Shapes /\ Chained /\ Uncounted /\ AtPlaces /\ Covered
  BY DEF Accounts
<1>2. at[t] = "apply" /\ lMatch' = lMatch /\ UNCHANGED <<main, handing, tasks, data, sc>>
  BY DEF Leave, GoOn, Go, NoOther, pool
<1> PICK g, k : g = Call(t).g /\ k = Call(t).k
  OBVIOUS
<1>3. /\ Call(t) = task[t][1] /\ Len(task[t]) \in 1..2 /\ task[t] \in Seq(Calls) /\ 1 \in DOMAIN task[t]
      /\ DOMAIN task[t] = 1..Len(task[t]) /\ IsRest(task[t]) /\ (Kind(g, k) = "MOVE_DOUBLE" => IsPair(task[t]))
      /\ \A j \in DOMAIN task[t] : task[t][j].k \in Nat \ {0}
  BY <1>1, <1>2, HeldTask
<1>4. /\ at \in [Threads -> Places] /\ task \in [Threads -> Seq(Calls)]
      /\ doubleError \in [Threads -> NULL..Levels]
  BY DEF Types, WorkerTypes
<1>5. AtPlace(t, g, k) /\ doubleError[t] # NULL /\ Analysed(g, k) /\ Tallied(g, k)
      /\ (Kind(g, k) = "MOVE_DOUBLE" => doubleError[t] = esDouble(g, k))
  BY <1>1, <1>2 DEF AtPlaces, AtPlace
<1>6. CASE fInterrupt
  <2> PICK x, e, q : x = "failed" /\ e = doubleError[t] /\ q = task[t]
    OBVIOUS
  <2>1. /\ at' = [at EXCEPT ![t] = x] /\ task' = [task EXCEPT ![t] = q] /\ doubleError' = [doubleError EXCEPT ![t] = e]
    BY <1>4, <1>6 DEF Leave, Go
  <2>2. x # "idle" => AtPlace(t, Call(t).g, Call(t).k)'
    <3>1. at'[t] = "failed" /\ doubleError'[t] # NULL
      BY <1>4, <1>5, <2>1
    <3> QED BY <3>1 DEF AtPlace
  <2>3. /\ at[t] # "idle" /\ Named(q) \subseteq Named(task[t]) /\ (x # "idle" => IsRest(q))
        /\ \A y \in Named(task[t]) : y \notin Named(q) => Done(y[1], y[2])
    BY <1>2, <1>3
  <2>4. \A j \in DOMAIN q : j > 1 \/ x \notin {"apply", "failed"} => sc[q[j].g][q[j].k] = 0
    BY <1>1 DEF Uncounted
  <2>5. /\ task'[t] = q /\ at'[t] = x
        /\ \A u \in Threads \ {t} : at'[u] = at[u] /\ task'[u] = task[u] /\ doubleError'[u] = doubleError[u]
    BY <1>4, <2>1
  <2> QED BY <1>2, <2>2, <2>3, <2>4, <2>5, HeldAccounts
<1>7. CASE ~fInterrupt
  <2> PICK q : q = Tail(task[t])
    OBVIOUS
  <2> PICK x, e : /\ x = IF Len(task[t]) > 1 THEN "enter" ELSE "idle"
                  /\ e = IF Len(task[t]) > 1 THEN doubleError[t] ELSE NotTold
    OBVIOUS
  <2>1. /\ at' = [at EXCEPT ![t] = x] /\ task' = [task EXCEPT ![t] = q]
    BY <1>7 DEF Leave, GoOn, Go
  <2>2. doubleError' = [doubleError EXCEPT ![t] = e]
    BY <1>7 DEF Leave, GoOn
  <2>3. /\ DOMAIN q = 1..(Len(task[t]) - 1) /\ Len(q) = Len(task[t]) - 1
        /\ \A j \in 1..(Len(task[t]) - 1) : q[j] = task[t][j + 1]
    BY <1>3
  <2>4. \A j \in DOMAIN q : j + 1 \in DOMAIN task[t] /\ q[j] = task[t][j + 1] /\ j + 1 > 1
    BY <1>3, <2>3
  <2>5. Named(q) \subseteq Named(task[t])
    BY <2>4 DEF Named
  <2>6. \A y \in Named(task[t]) : y \notin Named(q) => Done(y[1], y[2])
    <3> SUFFICES ASSUME NEW j \in DOMAIN task[t], <<task[t][j].g, task[t][j].k>> \notin Named(q)
                 PROVE  Done(task[t][j].g, task[t][j].k)
      BY DEF Named
    <3>1. j = 1
      <4> SUFFICES ASSUME j # 1 PROVE FALSE
        OBVIOUS
      <4>1. j - 1 \in 1..(Len(task[t]) - 1) /\ (j - 1) + 1 = j
        BY <1>3
      <4>2. j - 1 \in DOMAIN q /\ q[j - 1] = task[t][j]
        BY <2>3, <4>1
      <4> QED BY <4>2 DEF Named
    <3> QED BY <1>3, <1>5, <3>1 DEF Done
  <2>7. \A j \in DOMAIN q : sc[q[j].g][q[j].k] = 0
    BY <1>1, <2>4 DEF Uncounted
  <2>8. ASSUME x # "idle" PROVE IsRest(q) /\ AtPlace(t, Call(t).g, Call(t).k)'
    <3>1. Len(task[t]) = 2 /\ x = "enter" /\ e = doubleError[t]
      BY <1>3, <2>8
    <3>2. IsPair(task[t])
      BY <1>3, <3>1 DEF IsRest
    <3>3. Len(q) = 1 /\ q[1] = task[t][2] /\ 2 \in DOMAIN task[t]
      BY <1>3, <2>3, <3>1
    <3> PICK n : n = q[1].k
      OBVIOUS
    <3>4. /\ q[1].g = g /\ k < n /\ IsFirst(g, k) /\ Chain(g, k, n - 1) /\ Kind(g, n) # "MOVE_DOUBLE"
          /\ n \in Nat \ {0} /\ k \in Nat \ {0}
      BY <1>3, <3>2, <3>3 DEF IsPair
    <3>5. IsRest(q)
      BY <3>3, <3>4 DEF IsRest
    <3>6. Call(t)' = q[1]
      <4>1. task'[t] = q
        BY <1>4, <2>1
      <4>2. Head(q) = q[1]
        BY <1>3, <3>3
      <4> QED BY <4>1, <4>2 DEF Call
    <3>7. Kind(g, n) \in Answers => doubleError[t] = esDouble(g, n)
      <4>1. CubeDec(g, k) = k /\ (Kind(g, n) \in Answers => CubeDec(g, n) = k)
        BY <3>4, OneAnswer
      <4>2. doubleError[t] = esDouble(g, k)
        BY <1>5, <3>4 DEF IsFirst
      <4> QED BY <4>1, <4>2 DEF esDouble
    <3>8. AtPlace(t, g, n)'
      <4>1. Kind(g, n)' = Kind(g, n) /\ esDouble(g, n)' = esDouble(g, n)
        BY <1>2, SameRecords, NothingWritten
      <4>2. at'[t] = "enter" /\ doubleError'[t] = doubleError[t]
        BY <1>4, <2>1, <2>2, <3>1
      <4> QED BY <1>5, <3>7, <4>1, <4>2 DEF AtPlace
    <3> QED BY <3>4, <3>5, <3>6, <3>8
  <2>9. /\ x # "idle" => IsRest(q)
        /\ \A j \in DOMAIN q : j > 1 \/ x \notin {"apply", "failed"} => sc[q[j].g][q[j].k] = 0
        /\ at[t] # "idle"
    BY <1>2, <2>7, <2>8
  <2>10. x # "idle" => AtPlace(t, Call(t).g, Call(t).k)'
    BY <2>8
  <2>11. /\ task'[t] = q /\ at'[t] = x
         /\ \A u \in Threads \ {t} : at'[u] = at[u] /\ task'[u] = task[u] /\ doubleError'[u] = doubleError[u]
    BY <1>4, <2>1, <2>2
  <2> QED BY <1>2, <2>5, <2>6, <2>9, <2>10, <2>11, HeldAccounts
<1> QED BY <1>6, <1>7

\* Whatever a worker does, an analysis that has not failed keeps its accounts.
LEMMA WorkerAccounts ==
  ASSUME Types, Contexts, MatchesAreProper, Batch, GoesWell => Accounts, NEW t \in Threads, WorkerStep(t)
  PROVE  GoesWell' => Accounts'
<1> SUFFICES ASSUME GoesWell' PROVE Accounts'
  OBVIOUS
<1>1. CASE Abort(t)
  <2>1. at[t] = "failed" /\ result' = Failed /\ added' = added
    BY <1>1 DEF Abort, GoOn, Go
  <2>2. added
    BY <2>1 DEF Batch, AllDone
  <2> QED BY <2>1, <2>2 DEF GoesWell
<1>2. CASE ~Abort(t)
  <2>1. main' # "crashed" /\ UNCHANGED asked /\ UNCHANGED <<added, result>> /\ main' \in {main, "crashed"}
    <3>1. main' # "crashed"
      BY DEF GoesWell, Waiting
    <3>2. CASE GetTask(t) \/ Enter(t) \/ Leave(t)
      BY <3>1, <3>2 DEF GetTask, Enter, Leave, NoOther, user, pool
    <3>3. CASE Within(t)
      BY <3>1, <3>3 DEF Within, Rest, user, pool
    <3> QED BY <1>2, <3>2, <3>3, <3>1, WithinTask DEF WorkerStep
  <2>2. GoesWell
    BY <2>1 DEF GoesWell
  <2>3. Accounts
    BY <2>2
  <2>4. Contexts'
    BY WorkerContexts
  <2> QED BY <1>2, <2>1, <2>2, <2>3, <2>4, GetTaskAccounts, EnterAccounts, LeaveAccounts, BeginAccounts,
             EvaluationAccounts, CountAccounts DEF WorkerStep
<1> QED BY <1>1, <1>2

-----------------------------------------------------------------------------
(* The main thread hands a game over.                                      *)

\* While the workers do nothing, what they hold is as it was, if the records
\* that they hold are counted as they were.
LEMMA WorkersWait ==
  ASSUME Types, Shapes, AtPlaces, lMatch' = lMatch, UNCHANGED <<at, task, doubleError, data>>,
         \A y : IsPending(y) => sc'[y[1]][y[2]] = sc[y[1]][y[2]]
  PROVE  AtPlaces'
<1> SUFFICES ASSUME NEW u \in Threads, at[u] # "idle" PROVE AtPlace(u, Call(u).g, Call(u).k)'
  BY DEF AtPlaces
<1> PICK g, k : g = Call(u).g /\ k = Call(u).k
  OBVIOUS
<1>1. AtPlace(u, g, k)
  BY DEF AtPlaces
<1>2. IsPending(<<g, k>>)
  <2>1. <<g, k>> \in Named(task[u])
    BY HeldTask
  <2> QED BY <2>1 DEF IsPending
<1>3. sc'[g][k] = sc[g][k]
  <2> DEFINE y == <<g, k>>
  <2>1. sc'[y[1]][y[2]] = sc[y[1]][y[2]]
    BY <1>2
  <2> QED BY <2>1
<1>4. /\ Kind(g, k)' = Kind(g, k) /\ Seen(g, k)' = Seen(g, k) /\ esDouble(g, k)' = esDouble(g, k)
      /\ \A es : CubeKnown(g, k, es)' = CubeKnown(g, k, es)
      /\ \A d, es : IsAnalysed(g, k, d, es)' = IsAnalysed(g, k, d, es)
      /\ \A n, es : IsTallied(g, k, n, es)' = IsTallied(g, k, n, es)
  BY SameRecords DEF esDouble
<1>5. Analysed(g, k)' = Analysed(g, k) /\ Tallied(g, k)' = Tallied(g, k)
  BY <1>3, <1>4 DEF Analysed, Tallied
<1>6. Call(u)' = Call(u)
  BY DEF Call
<1>7. AtPlace(u, g, k)'
  BY <1>1, <1>4, <1>5, <1>6 DEF AtPlace
<1> QED BY <1>6, <1>7

\* At rest nothing waits.
LEMMA NothingPending ==
  ASSUME Types, AllDone
  PROVE  /\ tasks = <<>> /\ \A t \in Threads : at[t] = "idle" /\ task[t] = <<>> /\ Named(task[t]) = {}
         /\ \A y : IsPending(y) => y \in Doubles
<1>1. tasks = <<>> /\ DOMAIN tasks = {} /\ \A t \in Threads : at[t] = "idle" /\ task[t] = <<>>
  BY DEF AllDone, Types, WorkerTypes
<1>2. \A t \in Threads : Named(task[t]) = {}
  BY <1>1 DEF Named
<1> QED BY <1>1, <1>2 DEF IsPending

\* An analysis begins with nothing.
LEMMA AnalyseAccounts ==
  ASSUME Types, Batch, NEW g, NEW es, NEW players, Analyse("match", g, es, players), g = 1
  PROVE  Accounts'
<1>1. /\ main = "idle" /\ main' = "info" /\ plGame' = 1 /\ lMatch' = lMatch
      /\ UNCHANGED <<tasks, at, task>>
  BY DEF Analyse, records, pool, workers
<1>2. AllDone
  BY <1>1 DEF Batch
<1>3. /\ tasks' = <<>> /\ DOMAIN tasks' = {}
      /\ \A t \in Threads : at'[t] = "idle" /\ DOMAIN task'[t] = {} /\ Named(task'[t]) = {}
  BY <1>1, <1>2, NothingPending
<1>4. Doubles' = {}
  BY <1>1 DEF Doubles
<1>5. \A y : ~IsPending(y)'
  BY <1>3, <1>4 DEF IsPending, Named
<1>6. \A h \in DOMAIN lMatch : \A k : ~IsHanded(h, k)'
  <2>1. \A h \in DOMAIN lMatch : h \in Nat \ {0}
    BY MatchTypes DEF Types
  <2> QED BY <1>1, <2>1 DEF IsHanded
<1>7. Apart'
  BY <1>3, <1>4 DEF Apart, Named
<1>8. Known' /\ Shapes' /\ Chained' /\ Uncounted' /\ AtPlaces'
  BY <1>1, <1>3, <1>4, <1>5 DEF Known, Shapes, Chained, Uncounted, AtPlaces
<1>9. Covered'
  BY <1>1, <1>6 DEF Covered
<1> QED BY <1>7, <1>8, <1>9 DEF Accounts

\* The statistics of a game are reset before any of its records is handed over.
LEMMA GameInfoAccounts ==
  ASSUME Types, Accounts, GameInfo, main' = "add"
  PROVE  Accounts'
<1>1. Apart /\ Known /\ Shapes /\ Chained /\ Uncounted /\ AtPlaces /\ Covered
  BY DEF Accounts
<1>2. /\ main = "info" /\ plGame' = plGame /\ plLast' = 0 /\ pParentTask' = <<>> /\ sc' = IniStatcontext(plGame)
      /\ lMatch' = lMatch /\ UNCHANGED <<tasks, at, task, doubleError, data>>
  BY DEF GameInfo, pool, workers
<1>3. plGame \in DOMAIN lMatch /\ plGame \in Nat
  <2>1. plGame \in 0..Len(lMatch) /\ plGame > 0 /\ lMatch \in Matches
    BY <1>2 DEF Types, MainTypes, HandingTypes
  <2> QED BY <2>1, MatchTypes
<1>4. Doubles = {} /\ Doubles' = {}
  BY <1>2 DEF Doubles, Named
<1>5. \A y : IsPending(y)' = IsPending(y)
  BY <1>2, <1>4 DEF IsPending, Named
<1>6. /\ \A g \in DOMAIN lMatch : g # plGame => sc'[g] = sc[g]
      /\ \A k \in DOMAIN Moves(plGame) : sc'[plGame][k] = 0
  BY <1>2, <1>3 DEF IniStatcontext, Types, CountTypes
<1>7. \A g \in DOMAIN lMatch : \A k \in DOMAIN Moves(g) : IsHanded(g, k)' <=> IsHanded(g, k)
  <2>1. \A g \in DOMAIN lMatch : \A k \in DOMAIN Moves(g) : k \in Nat \ {0}
    BY SeenTypes
  <2>2. \A g \in DOMAIN lMatch : \A k \in DOMAIN Moves(g) : ~(k <= 0)
    BY <2>1
  <2> QED BY <1>2, <2>2 DEF IsHanded
<1>8. ASSUME NEW y, IsPending(y)
      PROVE  /\ y[1] \in DOMAIN lMatch /\ y[2] \in DOMAIN Moves(y[1]) /\ IsHanded(y[1], y[2])
             /\ sc'[y[1]][y[2]] = sc[y[1]][y[2]]
  <2>1. y[1] \in DOMAIN lMatch /\ y[2] \in DOMAIN Moves(y[1]) /\ y[1] \in Nat
    BY <1>8, PendingTypes
  <2>2. IsHanded(y[1], y[2])
    BY <1>1, <1>8 DEF Known
  <2>3. y[1] # plGame
    BY <1>2, <1>3, <2>1, <2>2 DEF IsHanded
  <2> QED BY <1>6, <2>1, <2>2, <2>3
<1>9. Apart'
  BY <1>1, <1>2, <1>4 DEF Apart, Named
<1>10. Known'
  BY <1>5, <1>7, <1>8 DEF Known
<1>11. Shapes'
  BY <1>1, <1>2, SameRecords DEF Shapes
<1>12. Chained'
  BY <1>2 DEF Chained
<1>13. Uncounted'
  <2>1. ASSUME NEW i \in DOMAIN tasks, NEW y \in Named(tasks[i]) PROVE sc'[y[1]][y[2]] = 0
    BY <1>1, <1>8 DEF IsPending, Uncounted
  <2>2. ASSUME NEW u \in Threads, NEW j \in DOMAIN task[u], j > 1 \/ at[u] \notin {"apply", "failed"}
        PROVE  sc'[task[u][j].g][task[u][j].k] = 0
    <3> PICK y : y = <<task[u][j].g, task[u][j].k>>
      OBVIOUS
    <3>1. IsPending(y)
      BY DEF IsPending, Named
    <3>2. sc'[y[1]][y[2]] = sc[y[1]][y[2]]
      BY <1>8, <3>1
    <3> QED BY <1>1, <2>2, <3>2 DEF Uncounted
  <2>3. \A i \in DOMAIN tasks' : \A y \in Named(tasks[i])' : sc'[y[1]][y[2]] = 0
    BY <1>2, <2>1 DEF Named
  <2>4. Moves(plGame)' = Moves(plGame)
    BY <1>2 DEF Moves
  <2> QED BY <1>2, <1>4, <1>6, <2>2, <2>3, <2>4 DEF Uncounted
<1>14. AtPlaces'
  BY <1>1, <1>2, <1>8, WorkersWait
<1>15. Covered'
  <2> SUFFICES ASSUME NEW g \in DOMAIN lMatch, NEW k \in DOMAIN Moves(g), IsHanded(g, k), ~IsPending(<<g, k>>)
               PROVE  Done(g, k)'
    BY <1>2, <1>5, <1>7, SameRecords DEF Covered
  <2>1. Done(g, k)
    BY <1>1 DEF Covered
  <2>2. g # plGame
    <3>1. g \in Nat
      BY MatchTypes DEF Types
    <3> QED BY <1>2, <1>3, <3>1 DEF IsHanded
  <2>3. sc'[g][k] = sc[g][k] /\ data'[g][k] = data[g][k] /\ esDouble(g, k)' = esDouble(g, k)
    BY <1>2, <1>6, <2>2, SameRecords DEF esDouble
  <2>4. Analysed(g, k)' = Analysed(g, k) /\ Tallied(g, k)' = Tallied(g, k)
    BY <1>2, <2>3, SameRecords DEF Analysed, Tallied
  <2> QED BY <1>2, <2>1, <2>4, SameRecords DEF Done
<1> QED BY <1>9, <1>10, <1>11, <1>12, <1>13, <1>14, <1>15 DEF Accounts

\* What waits at the end of a game is a double that ends it.
LEMMA EndOfGameAccounts ==
  ASSUME Types, GoesWell, Accounts, EndOfGame
  PROVE  Accounts'
<1>1. Apart /\ Known /\ Shapes /\ Chained /\ Uncounted /\ AtPlaces /\ Covered
  BY DEF Accounts
<1>2. /\ main = "add" /\ plLast = Len(Moves(plGame)) /\ lMatch' = lMatch
      /\ UNCHANGED <<tasks, at, task, doubleError, data, sc>> /\ main' \in {"info", "wait"}
      /\ main' = "info" => plGame' = plGame + 1
      /\ main' = "wait" => ~(plGame < Len(lMatch))
  BY DEF EndOfGame, pool, workers, records, GoesWell
<1>3. plGame \in DOMAIN lMatch /\ plGame \in Nat /\ Len(lMatch) \in Nat /\ DOMAIN lMatch = 1..Len(lMatch)
      /\ pParentTask \in Seq(Calls) /\ Len(pParentTask) <= 1
  <2>1. plGame \in 0..Len(lMatch) /\ plGame > 0 /\ lMatch \in Matches
        /\ pParentTask \in Seq(Calls) /\ Len(pParentTask) <= 1
    BY <1>2 DEF Types, MainTypes, HandingTypes
  <2> QED BY <2>1, MatchTypes
<1>4. Doubles' = {} /\ Doubles = Named(pParentTask)
  BY <1>2 DEF Doubles
<1>5. \A y : IsPending(y) <=> (IsPending(y)' \/ y \in Doubles)
  BY <1>2, <1>4 DEF IsPending, Named
<1>6. \A g \in DOMAIN lMatch : \A k \in DOMAIN Moves(g) : IsHanded(g, k)' <=> IsHanded(g, k)
  <2> SUFFICES ASSUME NEW g \in DOMAIN lMatch, NEW k \in DOMAIN Moves(g)
               PROVE  IsHanded(g, k)' <=> IsHanded(g, k)
    OBVIOUS
  <2>1. k \in Nat /\ k <= Len(Moves(g)) /\ g \in Nat /\ g <= Len(lMatch)
    BY <1>3, SeenTypes
  <2>2. IsHanded(g, k) <=> g <= plGame
    BY <1>2, <1>3, <2>1 DEF IsHanded
  <2>3. IsHanded(g, k)' <=> g <= plGame
    <3>1. CASE main' = "info"
      BY <1>2, <1>3, <2>1, <3>1 DEF IsHanded
    <3>2. CASE main' = "wait"
      BY <1>2, <1>3, <2>1, <3>2 DEF IsHanded
    <3> QED BY <1>2, <3>1, <3>2
  <2> QED BY <2>2, <2>3
<1>7. ASSUME NEW y \in Doubles PROVE Done(y[1], y[2])
  <2>1. pParentTask # <<>> /\ DOMAIN pParentTask = {1} /\ y = <<pParentTask[1].g, pParentTask[1].k>>
    <3>1. PICK j \in DOMAIN pParentTask : y = <<pParentTask[j].g, pParentTask[j].k>>
      BY <1>4, <1>7 DEF Named
    <3>2. Len(pParentTask) \in Nat /\ DOMAIN pParentTask = 1..Len(pParentTask)
      BY <1>3
    <3>3. Len(pParentTask) = 1 /\ j = 1
      BY <1>3, <3>1, <3>2
    <3> QED BY <3>1, <3>2, <3>3
  <2>2. y[1] = plGame /\ Chain(plGame, y[2], plLast)
    BY <1>1, <1>2, <2>1 DEF Chained
  <2>3. IsOpenDouble(y[1], y[2])
    BY <1>2, <2>2 DEF Chain, IsOpenDouble, Kind
  <2> QED BY <2>3 DEF Done
<1>8. Apart'
  BY <1>1, <1>2, <1>4 DEF Apart, Named
<1>9. Known'
  <2> SUFFICES ASSUME NEW y, IsPending(y)' PROVE IsHanded(y[1], y[2])'
    BY DEF Known
  <2>1. IsPending(y)
    BY <1>5
  <2> QED BY <1>1, <1>6, <2>1, PendingTypes DEF Known
<1>10. Shapes'
  BY <1>1, <1>2, SameRecords DEF Shapes
<1>11. Chained'
  BY <1>2 DEF Chained
<1>12. Uncounted'
  BY <1>1, <1>2, <1>4 DEF Uncounted, Named
<1>13. AtPlaces'
  BY <1>1, <1>2, WorkersWait
<1>14. Covered'
  <2> SUFFICES ASSUME NEW g \in DOMAIN lMatch, NEW k \in DOMAIN Moves(g), IsHanded(g, k), ~IsPending(<<g, k>>)'
               PROVE  Done(g, k)
    BY <1>2, <1>6, SameRecords, NothingWritten DEF Covered
  <2>1. CASE ~IsPending(<<g, k>>)
    BY <1>1, <2>1 DEF Covered
  <2>2. CASE IsPending(<<g, k>>)
    <3> PICK y : y = <<g, k>>
      OBVIOUS
    <3>1. y \in Doubles
      BY <1>5, <2>2
    <3>2. Done(y[1], y[2])
      BY <1>7, <3>1
    <3> QED BY <3>2
  <2> QED BY <2>1, <2>2
<1> QED BY <1>8, <1>9, <1>10, <1>11, <1>12, <1>13, <1>14 DEF Accounts

\* The record that is handed over next is new.
LEMMA NextIsNew ==
  ASSUME Types, Contexts, MatchesAreProper, Accounts, AddRecord, NEW g, NEW k, g = plGame, k = plLast + 1
  PROVE  /\ g \in DOMAIN lMatch /\ g \in Nat /\ k \in Nat \ {0} /\ k \in DOMAIN Moves(g) /\ k <= Len(Moves(g))
         /\ main = "add" /\ main' = main /\ plGame' = g /\ plLast' = k /\ lMatch' = lMatch
         /\ UNCHANGED <<at, task, doubleError, data, sc>> /\ UNCHANGED user
         /\ ~IsPending(<<g, k>>) /\ sc[g][k] = 0
         /\ \A h \in DOMAIN lMatch : \A j \in DOMAIN Moves(h) : IsHanded(h, j)' <=> IsHanded(h, j) \/ (h = g /\ j = k)
         /\ Len(Moves(g)) \in Nat
<1>1. /\ main = "add" /\ plLast < Len(Moves(plGame)) /\ plLast' = plLast + 1 /\ lMatch' = lMatch
      /\ UNCHANGED <<at, task, doubleError, data, sc, main, plGame>> /\ UNCHANGED user
  BY DEF AddRecord, records, workers
<1>2. /\ g \in DOMAIN lMatch /\ g \in Nat /\ k \in DOMAIN Moves(g) /\ plLast \in Nat /\ Len(Moves(g)) \in Nat
  BY <1>1, NextRecord
<1>3. k \in Nat \ {0} /\ k > plLast /\ ~(k <= plLast) /\ k <= Len(Moves(g))
  BY <1>1, <1>2
<1>4. ~IsHanded(g, k)
  BY <1>1, <1>2, <1>3 DEF IsHanded
<1>5. ~IsPending(<<g, k>>)
  BY <1>4 DEF Accounts, Known
<1>6. sc[g][k] = 0
  BY <1>1, <1>2, <1>3 DEF Accounts, Uncounted
<1>7. ASSUME NEW h \in DOMAIN lMatch, NEW j \in DOMAIN Moves(h)
      PROVE  IsHanded(h, j)' <=> IsHanded(h, j) \/ (h = g /\ j = k)
  <2>1. j \in Nat
    BY SeenTypes
  <2>2. j <= plLast + 1 <=> j <= plLast \/ j = plLast + 1
    BY <1>2, <2>1
  <2> QED BY <1>1, <2>2 DEF IsHanded
<1> QED BY <1>1, <1>2, <1>3, <1>4, <1>5, <1>6, <1>7

\* What is kept of the double before it.
LEMMA NextIsChained ==
  ASSUME Types, Contexts, MatchesAreProper, Accounts, AddRecord, NEW g, NEW k, g = plGame, k = plLast + 1
  PROVE  /\ pParentTask \in Seq(Calls) /\ Len(pParentTask) \in 0..1 /\ (pParentTask = <<>> <=> Len(pParentTask) = 0)
         /\ pParentTask # <<>> => /\ DOMAIN pParentTask = {1} /\ pParentTask[1].g = g /\ pParentTask[1].k < k
                                  /\ pParentTask[1].k \in Nat \ {0}
                                  /\ IsFirst(g, pParentTask[1].k) /\ Chain(g, pParentTask[1].k, k - 1)
         /\ Kind(g, k) \in Answers => pParentTask # <<>>
         /\ Kind(g, k) = "MOVE_DOUBLE" => /\ IsFirst(g, k) <=> pParentTask = <<>>
                                          /\ IsFirst(g, k) <=> DoubleType(msAnalyse) = "DT_NORMAL"
<1>1. /\ g \in DOMAIN lMatch /\ k \in Nat \ {0} /\ k \in DOMAIN Moves(g) /\ k <= Len(Moves(g)) /\ main = "add"
      /\ plLast = k - 1 /\ plLast < Len(Moves(plGame)) /\ plLast \in Nat /\ Len(Moves(g)) \in Nat
  <2>1. main = "add" /\ plLast < Len(Moves(plGame))
    BY DEF AddRecord
  <2> QED BY <2>1, NextRecord, NextIsNew
<1>2. /\ pParentTask \in Seq(Calls) /\ Len(pParentTask) \in 0..1 /\ (pParentTask = <<>> <=> Len(pParentTask) = 0)
      /\ DOMAIN pParentTask = 1..Len(pParentTask)
  <2>1. pParentTask \in Seq(Calls) /\ Len(pParentTask) <= 1
    BY DEF Types, MainTypes, HandingTypes
  <2>2. Len(pParentTask) \in Nat /\ (pParentTask = <<>> <=> Len(pParentTask) = 0)
    BY <2>1, NoElements
  <2>3. Len(pParentTask) \in 0..1
    <3>1. Len(pParentTask) \in Nat /\ Len(pParentTask) <= 1
      BY <2>1, <2>2
    <3>2. \A n \in Nat : n <= 1 => n \in 0..1
      OBVIOUS
    <3> QED BY <3>1, <3>2
  <2>4. DOMAIN pParentTask = 1..Len(pParentTask)
    BY <2>1
  <2> QED BY <2>1, <2>2, <2>3, <2>4
<1>3. ASSUME pParentTask # <<>>
      PROVE  /\ DOMAIN pParentTask = {1} /\ pParentTask[1].g = g /\ pParentTask[1].k < k
             /\ pParentTask[1].k \in Nat \ {0}
             /\ IsFirst(g, pParentTask[1].k) /\ Chain(g, pParentTask[1].k, k - 1)
  <2>1. Len(pParentTask) = 1 /\ DOMAIN pParentTask = {1}
    BY <1>2, <1>3
  <2>2. /\ pParentTask[1].g = g /\ pParentTask[1].k <= k - 1 /\ IsFirst(g, pParentTask[1].k)
        /\ Chain(g, pParentTask[1].k, k - 1)
    BY <1>1, <1>3 DEF Accounts, Chained
  <2>3. pParentTask[1] \in Calls
    BY <1>2, <2>1
  <2>4. pParentTask[1].k \in Nat \ {0}
    <3>1. pParentTask[1].k \in DOMAIN Moves(g)
      BY <2>2, <2>3 DEF Calls
    <3> QED BY <1>1, <3>1, SeenTypes
  <2>5. pParentTask[1].k < k
    BY <1>1, <2>2, <2>4
  <2> QED BY <2>1, <2>2, <2>4, <2>5
<1>4. ASSUME k > 1, Kind(g, k - 1) = "MOVE_DOUBLE" PROVE pParentTask # <<>>
  <2>1. plLast \in 1..(Len(Moves(plGame)) - 1) /\ Kind(plGame, plLast) = "MOVE_DOUBLE"
    BY <1>1, <1>4
  <2> QED BY <1>1, <2>1 DEF Accounts, Chained
<1>5. Kind(g, k) \in Answers => pParentTask # <<>>
  <2>1. Kind(g, k) \in Answers => Linked(g, k)
    BY <1>1, ProperDoubles
  <2> QED BY <1>4, <2>1 DEF Linked
<1>6. ASSUME Kind(g, k) = "MOVE_DOUBLE" PROVE IsFirst(g, k) <=> pParentTask = <<>>
  <2>1. pParentTask = <<>> => IsFirst(g, k)
    BY <1>4, <1>6 DEF IsFirst
  <2>2. ASSUME pParentTask # <<>> PROVE ~IsFirst(g, k)
    <3>1. k - 1 \in pParentTask[1].k..(k - 1) /\ k > 1
      BY <1>1, <1>3, <2>2
    <3> QED BY <1>3, <2>2, <3>1 DEF Chain, IsFirst
  <2> QED BY <2>1, <2>2
<1>7. ASSUME Kind(g, k) = "MOVE_DOUBLE" PROVE IsFirst(g, k) <=> DoubleType(msAnalyse) = "DT_NORMAL"
  <2>1. IsFirst(g, k) <=> ~Replayed(g, k).fDoubled
    BY <1>1, <1>7, ProperDoubles
  <2>2. FixMatchState(msAnalyse, Moves(g)[k]) = Replayed(g, k)
    BY <1>1 DEF Contexts, Handing, Replayed
  <2>3. msAnalyse \in MatchStates /\ Moves(g)[k] \in MoveRecords
    BY <1>1, SeenTypes DEF Types, MainTypes, HandingTypes
  <2>4. FixMatchState(msAnalyse, Moves(g)[k]).fDoubled = msAnalyse.fDoubled
    BY <2>3, CubeStays
  <2> QED BY <2>1, <2>2, <2>4 DEF DoubleType
<1> QED BY <1>2, <1>3, <1>5, <1>6, <1>7

\* A record that is no double is handed over, with the double before it.
LEMMA HandedAccounts ==
  ASSUME Types, Contexts, MatchesAreProper, Accounts, AddRecord,
         NEW g, NEW k, g = plGame, k = plLast + 1, Kind(g, k) # "MOVE_DOUBLE"
  PROVE  Accounts'
<1> PICK c, q : c = [g |-> g, k |-> k, ms |-> msAnalyse] /\ q = Append(pParentTask, c)
  OBVIOUS
<1>1. Apart /\ Known /\ Shapes /\ Chained /\ Uncounted /\ AtPlaces /\ Covered
  BY DEF Accounts
<1>2. /\ g \in DOMAIN lMatch /\ g \in Nat /\ k \in Nat \ {0} /\ k \in DOMAIN Moves(g)
      /\ main = "add" /\ main' = "add" /\ plGame' = g /\ plLast' = k /\ lMatch' = lMatch
      /\ UNCHANGED <<at, task, doubleError, data, sc>>
      /\ ~IsPending(<<g, k>>) /\ sc[g][k] = 0
      /\ \A h \in DOMAIN lMatch : \A j \in DOMAIN Moves(h) : IsHanded(h, j)' <=> IsHanded(h, j) \/ (h = g /\ j = k)
  BY NextIsNew
<1>3. tasks' = Append(tasks, q) /\ pParentTask' = <<>>
  BY DEF AddRecord, HandOver, AddTask, Kind
<1>4. /\ tasks \in Seq(Seq(Calls)) /\ c \in Calls /\ c.g = g /\ c.k = k
  BY <1>2, PoolStays, NextRecord DEF AddRecord
<1> PICK P : P = pParentTask
  OBVIOUS
<1>5. /\ P \in Seq(Calls) /\ Len(P) \in 0..1 /\ (P = <<>> <=> Len(P) = 0)
      /\ P # <<>> => /\ DOMAIN P = {1} /\ P[1].g = g /\ P[1].k < k /\ P[1].k \in Nat \ {0}
                     /\ IsFirst(g, P[1].k) /\ Chain(g, P[1].k, k - 1)
      /\ Kind(g, k) \in Answers => P # <<>>
  BY NextIsChained
<1>6. /\ q = Append(P, c) /\ Len(q) = Len(P) + 1 /\ DOMAIN q = 1..(Len(P) + 1) /\ q[Len(P) + 1] = c
      /\ \A j \in 1..Len(P) : q[j] = P[j]
  BY <1>4, <1>5
<1>7. IsTask(q)
  <2>1. CASE P = <<>>
    <3>1. Len(q) = 1 /\ q[1] = c
      BY <1>5, <1>6, <2>1
    <3> QED BY <1>4, <1>5, <2>1, <3>1 DEF IsTask
  <2>2. CASE P # <<>>
    <3>1. Len(P) = 1
      BY <1>5, <2>2
    <3>2. Len(q) = 2 /\ q[1] = P[1] /\ q[2] = c
      BY <1>6, <3>1
    <3> QED BY <1>4, <1>5, <2>2, <3>2 DEF IsTask, IsPair
  <2> QED BY <2>1, <2>2
<1>8. Doubles = Named(P) /\ Doubles' = {}
  BY <1>2, <1>3 DEF Doubles, Named
<1>9. \A y : y \in Named(q) <=> y \in Doubles \/ y = <<g, k>>
  <2>1. DOMAIN P = 1..Len(P) /\ Len(P) \in Nat
    BY <1>5
  <2>2. \A j : j \in DOMAIN q <=> j \in DOMAIN P \/ j = Len(P) + 1
    BY <1>6, <2>1
  <2>3. \A j \in DOMAIN P : q[j] = P[j]
    BY <1>6, <2>1
  <2>4. \A y : y \in Named(q) <=> \E j \in DOMAIN q : y = <<q[j].g, q[j].k>>
    BY DEF Named
  <2>5. \A y : y \in Named(P) <=> \E j \in DOMAIN P : y = <<P[j].g, P[j].k>>
    BY DEF Named
  <2> QED BY <1>4, <1>6, <1>8, <2>2, <2>3, <2>4, <2>5
<1> PICK n : n = Len(tasks) + 1
  OBVIOUS
<1>10. /\ \A i : i \in DOMAIN tasks' <=> i \in DOMAIN tasks \/ i = n
       /\ tasks'[n] = q /\ n \notin DOMAIN tasks
       /\ \A i \in DOMAIN tasks : tasks'[i] = tasks[i]
  <2>1. DOMAIN tasks = 1..Len(tasks) /\ Len(tasks) \in Nat /\ DOMAIN tasks' = 1..(Len(tasks) + 1)
        /\ \A i \in 1..Len(tasks) : tasks'[i] = tasks[i] /\ tasks'[Len(tasks) + 1] = q
    BY <1>3, <1>4
  <2>2. tasks'[Len(tasks) + 1] = q
    BY <1>3, <1>4
  <2> QED BY <2>1, <2>2
<1>11. \A y : IsPending(y)' <=> IsPending(y) \/ y = <<g, k>>
  <2> SUFFICES ASSUME NEW y PROVE IsPending(y)' <=> IsPending(y) \/ y = <<g, k>>
    OBVIOUS
  <2>1. IsPending(y)' <=> \/ \E i \in DOMAIN tasks' : y \in Named(tasks'[i])
                          \/ \E t \in Threads : y \in Named(task[t])
    BY <1>2, <1>8 DEF IsPending, Named
  <2>2. (\E i \in DOMAIN tasks' : y \in Named(tasks'[i])) <=>
           (\E i \in DOMAIN tasks : y \in Named(tasks[i])) \/ y \in Named(q)
    BY <1>10
  <2> QED BY <1>9, <2>1, <2>2 DEF IsPending
<1>12. Apart'
  <2>1. \A i \in DOMAIN tasks : Named(tasks[i]) \cap Named(q) = {}
    BY <1>1, <1>2, <1>9 DEF Apart, IsPending
  <2>2. \A t \in Threads : Named(task[t]) \cap Named(q) = {}
    BY <1>1, <1>2, <1>9 DEF Apart, IsPending
  <2>3. \A i, j \in DOMAIN tasks' : i # j => Named(tasks'[i]) \cap Named(tasks'[j]) = {}
    BY <1>1, <1>10, <2>1 DEF Apart
  <2>4. \A i \in DOMAIN tasks' : \A t \in Threads : Named(tasks'[i]) \cap Named(task[t]) = {}
    BY <1>1, <1>10, <2>2 DEF Apart
  <2>5. \A t, u \in Threads : t # u => Named(task[t]) \cap Named(task[u]) = {}
    BY <1>1 DEF Apart
  <2> QED BY <1>2, <1>8, <2>3, <2>4, <2>5, SMTT(30) DEF Apart, Named
<1>13. Known'
  <2> SUFFICES ASSUME NEW y, IsPending(y)' PROVE IsHanded(y[1], y[2])'
    BY DEF Known
  <2>1. CASE IsPending(y)
    <3>1. y[1] \in DOMAIN lMatch /\ y[2] \in DOMAIN Moves(y[1]) /\ IsHanded(y[1], y[2])
      BY <1>1, <2>1, PendingTypes DEF Known
    <3> QED BY <1>2, <3>1
  <2>2. CASE y = <<g, k>>
    <3>1. y[1] = g /\ y[2] = k
      BY <2>2
    <3>2. IsHanded(g, k)'
      BY <1>2
    <3> QED BY <3>1, <3>2
  <2> QED BY <1>11, <2>1, <2>2
<1>14. Shapes'
  <2>1. \A i \in DOMAIN tasks' : IsTask(tasks'[i])
    BY <1>1, <1>7, <1>10 DEF Shapes
  <2>2. \A p : IsTask(p)' = IsTask(p) /\ IsRest(p)' = IsRest(p)
    BY <1>2, SameRecords
  <2>3. \A t \in Threads : at'[t] # "idle" => IsRest(task'[t])
    BY <1>1, <1>2 DEF Shapes
  <2> QED BY <2>1, <2>2, <2>3 DEF Shapes
<1>15. Chained'
  <2>1. Kind(g, k)' # "MOVE_DOUBLE"
    BY <1>2, SameRecords
  <2> QED BY <1>2, <1>3, <2>1 DEF Chained, Kind, Moves
<1>16. Uncounted'
  <2>1. \A y \in Named(q) : sc[y[1]][y[2]] = 0
    BY <1>1, <1>2, <1>9 DEF Uncounted
  <2>2. \A i \in DOMAIN tasks' : \A y \in Named(tasks'[i]) : sc[y[1]][y[2]] = 0
    <3>1. \A i \in DOMAIN tasks : \A y \in Named(tasks[i]) : sc[y[1]][y[2]] = 0
      BY <1>1 DEF Uncounted
    <3> SUFFICES ASSUME NEW i \in DOMAIN tasks', NEW y \in Named(tasks'[i]) PROVE sc[y[1]][y[2]] = 0
      OBVIOUS
    <3>2. CASE i = n
      BY <1>10, <2>1, <3>2
    <3>3. CASE i # n
      <4>1. i \in DOMAIN tasks /\ tasks'[i] = tasks[i]
        BY <1>10, <3>3
      <4> QED BY <3>1, <4>1
    <3> QED BY <3>2, <3>3
  <2>3. \A j \in DOMAIN Moves(g) : j > k => sc[g][j] = 0
    <3>1. \A j \in DOMAIN Moves(g) : j \in Nat /\ plLast \in Nat /\ (j > k => j > plLast)
      BY <1>2, SeenTypes, NextRecord DEF AddRecord
    <3> QED BY <1>1, <1>2, <3>1 DEF Uncounted
  <2>4. Moves(g)' = Moves(g)
    BY <1>2 DEF Moves
  <2>5. \A t \in Threads : \A j \in DOMAIN task[t] :
            j > 1 \/ at[t] \notin {"apply", "failed"} => sc[task[t][j].g][task[t][j].k] = 0
    BY <1>1 DEF Uncounted
  <2>6. \A i \in DOMAIN tasks' : \A y \in Named(tasks[i])' : sc'[y[1]][y[2]] = 0
    BY <1>2, <2>2 DEF Named
  <2>7. \A j \in DOMAIN Moves(g)' : j > k => sc'[g][j] = 0
    BY <1>2, <2>3, <2>4
  <2>8. \A j \in DOMAIN Moves(plGame)' : j > plLast' => sc'[plGame'][j] = 0
    BY <1>2, <2>7 DEF Moves
  <2>9. \A t \in Threads : \A j \in DOMAIN task'[t] :
            j > 1 \/ at'[t] \notin {"apply", "failed"} => sc'[task'[t][j].g][task'[t][j].k] = 0
    BY <1>2, <2>5
  <2> QED BY <1>8, <2>6, <2>8, <2>9 DEF Uncounted
<1>17. AtPlaces'
  BY <1>1, <1>2, WorkersWait
<1>18. Covered'
  <2>1. ASSUME NEW h \in DOMAIN lMatch, NEW j \in DOMAIN Moves(h), IsHanded(h, j)', ~IsPending(<<h, j>>)'
        PROVE  Done(h, j)'
    <3>1. ~IsPending(<<h, j>>) /\ <<h, j>> # <<g, k>>
      BY <1>11, <2>1
    <3>2. IsHanded(h, j)
      BY <1>2, <2>1, <3>1
    <3>3. Done(h, j)
      BY <1>1, <3>1, <3>2 DEF Covered
    <3> QED BY <1>2, <3>3, NothingWritten
  <2> QED BY <1>2, <2>1, SameRecords DEF Covered
<1> QED BY <1>12, <1>13, <1>14, <1>15, <1>16, <1>17, <1>18 DEF Accounts

\* A double waits for the record after it, or is not handed over.
LEMMA DoubleAccounts ==
  ASSUME Types, Contexts, MatchesAreProper, Accounts, AddRecord,
         NEW g, NEW k, g = plGame, k = plLast + 1, Kind(g, k) = "MOVE_DOUBLE"
  PROVE  Accounts'
<1> PICK c : c = [g |-> g, k |-> k, ms |-> msAnalyse]
  OBVIOUS
<1>1. Apart /\ Known /\ Shapes /\ Chained /\ Uncounted /\ AtPlaces /\ Covered
  BY DEF Accounts
<1>2. /\ g \in DOMAIN lMatch /\ g \in Nat /\ k \in Nat \ {0} /\ k \in DOMAIN Moves(g)
      /\ main = "add" /\ main' = "add" /\ plGame' = g /\ plLast' = k /\ lMatch' = lMatch
      /\ UNCHANGED <<at, task, doubleError, data, sc>>
      /\ ~IsPending(<<g, k>>) /\ sc[g][k] = 0 /\ Len(Moves(g)) \in Nat /\ k <= Len(Moves(g))
      /\ \A h \in DOMAIN lMatch : \A j \in DOMAIN Moves(h) : IsHanded(h, j)' <=> IsHanded(h, j) \/ (h = g /\ j = k)
  BY NextIsNew
<1> PICK P : P = pParentTask
  OBVIOUS
<1>3. /\ P \in Seq(Calls) /\ Len(P) \in 0..1 /\ (P = <<>> <=> Len(P) = 0)
      /\ P # <<>> => /\ DOMAIN P = {1} /\ P[1].g = g /\ P[1].k < k /\ P[1].k \in Nat \ {0}
                     /\ IsFirst(g, P[1].k) /\ Chain(g, P[1].k, k - 1)
      /\ IsFirst(g, k) <=> P = <<>>
      /\ IsFirst(g, k) <=> DoubleType(msAnalyse) = "DT_NORMAL"
  BY NextIsChained
<1>4. tasks' = tasks /\ pParentTask' = IF IsFirst(g, k) /\ k < Len(Moves(g)) THEN <<c>> ELSE P
  <2>1. tasks' = tasks /\ pParentTask' = IF P = <<>> /\ DoubleType(msAnalyse) = "DT_NORMAL" /\ k < Len(Moves(g))
                                         THEN <<c>> ELSE P
    BY DEF AddRecord, HandOver, Kind, pool
  <2> QED BY <1>3, <2>1
<1> DEFINE kept == IsFirst(g, k) /\ k < Len(Moves(g))
<1>5. Doubles = Named(P) /\ Doubles' = IF kept THEN {<<g, k>>} ELSE Named(P)
  <2>1. Doubles = Named(P)
    BY <1>2 DEF Doubles
  <2>2. Named(<<c>>) = {<<g, k>>}
    <3>1. DOMAIN <<c>> = {1} /\ <<c>>[1] = c
      OBVIOUS
    <3> QED BY <3>1 DEF Named
  <2>3. \A p : Named(p)' = Named(p)
    BY DEF Named
  <2>4. Doubles' = Named(pParentTask')
    BY <1>2 DEF Doubles, Named
  <2> QED BY <1>4, <2>1, <2>2, <2>4
<1>6. kept => P = <<>> /\ Named(P) = {}
  <2>1. P = <<>> => Named(P) = {}
    BY DEF Named
  <2> QED BY <1>3, <2>1
<1>7. \A y : IsPending(y)' <=> IsPending(y) \/ (kept /\ y = <<g, k>>)
  <2>1. \A y : y \in Doubles' <=> y \in Doubles \/ (kept /\ y = <<g, k>>)
    BY <1>5, <1>6
  <2> QED BY <1>2, <1>4, <2>1 DEF IsPending, Named
<1> HIDE DEF kept
<1>8. Apart'
  <2>1. /\ \A i \in DOMAIN tasks : Named(tasks[i]) \cap Doubles' = {}
        /\ \A t \in Threads : Named(task[t]) \cap Doubles' = {}
    BY <1>1, <1>2, <1>5 DEF Apart, IsPending
  <2> QED BY <1>1, <1>2, <1>4, <2>1 DEF Apart, Named
<1>9. Known'
  <2> SUFFICES ASSUME NEW y, IsPending(y)' PROVE IsHanded(y[1], y[2])'
    BY DEF Known
  <2>1. CASE IsPending(y)
    <3>1. y[1] \in DOMAIN lMatch /\ y[2] \in DOMAIN Moves(y[1]) /\ IsHanded(y[1], y[2])
      BY <1>1, <2>1, PendingTypes DEF Known
    <3> QED BY <1>2, <3>1
  <2>2. CASE y = <<g, k>>
    <3>1. y[1] = g /\ y[2] = k
      BY <2>2
    <3>2. IsHanded(g, k)'
      BY <1>2
    <3> QED BY <3>1, <3>2
  <2> QED BY <1>7, <2>1, <2>2
<1>10. Shapes'
  <2>1. \A p : IsTask(p)' = IsTask(p) /\ IsRest(p)' = IsRest(p)
    BY <1>2, SameRecords
  <2> QED BY <1>1, <1>2, <1>4, <2>1 DEF Shapes
<1>11. Chained'
  <2>1. pParentTask' # <<>> => /\ pParentTask'[1].g = g /\ pParentTask'[1].k <= k
                               /\ IsFirst(g, pParentTask'[1].k) /\ Chain(g, pParentTask'[1].k, k)
    <3>1. CASE kept
      <4>1. pParentTask'[1] = c /\ c.g = g /\ c.k = k /\ IsFirst(g, k)
        BY <1>4, <3>1 DEF kept
      <4>2. Chain(g, k, k)
        BY <1>2 DEF Chain
      <4> QED BY <1>2, <4>1, <4>2
    <3>2. CASE ~kept
      <4>1. pParentTask' = P
        BY <1>4, <3>2 DEF kept
      <4> SUFFICES ASSUME P # <<>> PROVE P[1].g = g /\ P[1].k <= k /\ IsFirst(g, P[1].k) /\ Chain(g, P[1].k, k)
        BY <4>1
      <4>2. \A j \in P[1].k..k : j = k \/ j \in P[1].k..(k - 1)
        BY <1>2, <1>3
      <4>3. Chain(g, P[1].k, k)
        BY <1>3, <4>2 DEF Chain
      <4> QED BY <1>2, <1>3, <4>3
    <3> QED BY <3>1, <3>2
  <2>2. k \in 1..(Len(Moves(g)) - 1) => pParentTask' # <<>>
    <3>1. k \in 1..(Len(Moves(g)) - 1) => k < Len(Moves(g))
      BY <1>2
    <3>2. <<c>> # <<>>
      OBVIOUS
    <3> QED BY <1>3, <1>4, <3>1, <3>2
  <2> PICK p : p = pParentTask'
    OBVIOUS
  <2>3. /\ \A h, j : Kind(h, j)' = Kind(h, j) /\ IsFirst(h, j)' = IsFirst(h, j)
        /\ \A h, j, n : Chain(h, j, n)' = Chain(h, j, n)
        /\ Moves(g)' = Moves(g)
    BY <1>2, SameRecords
  <2>4. p # <<>> => /\ p[1].g = g /\ p[1].k <= k /\ IsFirst(g, p[1].k)' /\ Chain(g, p[1].k, k)'
    BY <2>1, <2>3
  <2>5. k \in 1..(Len(Moves(g)') - 1) => p # <<>>
    BY <2>2, <2>3
  <2> QED BY <1>2, <2>4, <2>5 DEF Chained
<1>12. Uncounted'
  <2>1. \A y \in Doubles' : sc[y[1]][y[2]] = 0
    <3>1. \A y \in Named(P) : sc[y[1]][y[2]] = 0
      BY <1>1, <1>5 DEF Uncounted
    <3> QED BY <1>2, <1>5, <3>1
  <2>2. \A j \in DOMAIN Moves(g) : j > k => sc[g][j] = 0
    <3>1. \A j \in DOMAIN Moves(g) : j \in Nat /\ plLast \in Nat /\ (j > k => j > plLast)
      BY <1>2, SeenTypes, NextRecord DEF AddRecord
    <3> QED BY <1>1, <1>2, <3>1 DEF Uncounted
  <2>3. \A j \in DOMAIN Moves(plGame)' : j > plLast' => sc'[plGame'][j] = 0
    BY <1>2, <2>2 DEF Moves
  <2>4. \A t \in Threads : \A j \in DOMAIN task'[t] :
            j > 1 \/ at'[t] \notin {"apply", "failed"} => sc'[task'[t][j].g][task'[t][j].k] = 0
    BY <1>1, <1>2 DEF Uncounted
  <2>5. \A i \in DOMAIN tasks' : \A y \in Named(tasks[i])' : sc'[y[1]][y[2]] = 0
    BY <1>1, <1>2, <1>4 DEF Uncounted, Named
  <2>6. \A y \in Doubles' : sc'[y[1]][y[2]] = 0
    BY <1>2, <2>1
  <2> QED BY <2>3, <2>4, <2>5, <2>6 DEF Uncounted
<1>13. AtPlaces'
  BY <1>1, <1>2, WorkersWait
<1>14. ~kept => Done(g, k)
  <2> SUFFICES ASSUME ~kept PROVE Done(g, k)
    OBVIOUS
  <2>1. CASE IsFirst(g, k)
    <3>1. k = Len(Moves(g))
      BY <1>2, <2>1 DEF kept
    <3>2. \A j \in k..Len(Moves(g)) : j = k
      BY <1>2, <3>1
    <3> QED BY <3>2 DEF Done, IsOpenDouble, Kind
  <2>2. CASE ~IsFirst(g, k)
    BY <1>2, <2>2 DEF Done, Analysed, Tallied, IsAnalysed, IsTallied, IsDue, Answers
  <2> QED BY <2>1, <2>2
<1>15. Covered'
  <2>1. ASSUME NEW h \in DOMAIN lMatch, NEW j \in DOMAIN Moves(h), IsHanded(h, j)', ~IsPending(<<h, j>>)'
        PROVE  Done(h, j)'
    <3>1. ~IsPending(<<h, j>>) /\ (<<h, j>> # <<g, k>> \/ ~kept)
      BY <1>7, <2>1
    <3>2. CASE h = g /\ j = k
      BY <1>2, <1>14, <3>1, <3>2, NothingWritten
    <3>3. CASE ~(h = g /\ j = k)
      <4>1. IsHanded(h, j)
        BY <1>2, <2>1, <3>3
      <4>2. Done(h, j)
        BY <1>1, <3>1, <4>1 DEF Covered
      <4> QED BY <1>2, <4>2, NothingWritten
    <3> QED BY <3>2, <3>3
  <2> QED BY <1>2, <2>1, SameRecords DEF Covered
<1> QED BY <1>8, <1>9, <1>10, <1>11, <1>12, <1>13, <1>15 DEF Accounts

\* A record of the game is handed over.
LEMMA AddRecordAccounts ==
  ASSUME Types, Contexts, MatchesAreProper, Accounts, AddRecord
  PROVE  Accounts'
<1> PICK g, k : g = plGame /\ k = plLast + 1
  OBVIOUS
<1>1. CASE Kind(g, k) # "MOVE_DOUBLE"
  BY <1>1, HandedAccounts
<1>2. CASE Kind(g, k) = "MOVE_DOUBLE"
  BY <1>2, DoubleAccounts
<1> QED BY <1>1, <1>2

\* A step that moves neither the main thread nor the workers.
LEMMA SameAccounts ==
  ASSUME lMatch' = lMatch, UNCHANGED <<main, handing, tasks, at, task, doubleError, data, sc>>
  PROVE  Accounts' = Accounts
<1>1. Doubles' = Doubles /\ Chained' = Chained /\ \A g, k : IsHanded(g, k)' = IsHanded(g, k)
  BY SameHanding
<1>2. \A y : IsPending(y)' = IsPending(y)
  BY <1>1 DEF IsPending, Named
<1>3. Apart' = Apart
  BY <1>1 DEF Apart, Named
<1>4. Known' = Known
  BY <1>1, <1>2 DEF Known
<1>5. Shapes' = Shapes
  <2>1. \A p : IsTask(p)' = IsTask(p) /\ IsRest(p)' = IsRest(p)
    BY SameRecords
  <2> QED BY <2>1 DEF Shapes
<1>6. Uncounted' = Uncounted
  BY <1>1 DEF Uncounted, Named, Moves, handing
<1>7. AtPlaces' = AtPlaces
  <2>1. \A u \in Threads : Call(u)' = Call(u)
    BY DEF Call
  <2>2. \A g, k : \A u \in Threads : AtPlace(u, g, k)' = AtPlace(u, g, k)
    BY NothingWritten
  <2>3. ASSUME NEW u \in Threads PROVE AtPlace(u, Call(u).g, Call(u).k)' = AtPlace(u, Call(u).g, Call(u).k)
    <3> PICK g, k : g = Call(u).g /\ k = Call(u).k
      OBVIOUS
    <3> QED BY <2>1, <2>2
  <2> QED BY <2>3 DEF AtPlaces
<1>8. Covered' = Covered
  <2>1. \A g, k : Done(g, k)' = Done(g, k)
    BY NothingWritten
  <2> QED BY <1>1, <1>2, <2>1 DEF Covered, Moves
<1> QED BY <1>1, <1>3, <1>4, <1>5, <1>6, <1>7, <1>8 DEF Accounts

\* The steps of the main thread and of the user.
LEMMA MainAccounts ==
  ASSUME Types, Contexts, MatchesAreProper, Batch, GoesWell => Accounts,
         Command \/ Interrupt \/ Autosave \/ Quit \/ MainStep
  PROVE  GoesWell' => Accounts'
<1> SUFFICES ASSUME GoesWell' PROVE Accounts'
  OBVIOUS
<1>1. /\ asked'.scope = "match" /\ asked'.players = Players /\ main' \in Waiting /\ ~(added' /\ result' = Failed)
      /\ main' \notin {"idle", "ended", "crashed"}
  BY DEF GoesWell, Waiting
<1>2. CASE Command
  <2>1. ASSUME NEW scope \in Scopes, NEW es \in 1..Levels, NEW players \in PlayersAsked,
               NEW g \in IF scope = "match" THEN {1} ELSE DOMAIN lMatch, Analyse(scope, g, es, players)
        PROVE  Accounts'
    <3>1. asked' = [scope |-> scope, es |-> es, players |-> players]
      BY <2>1 DEF Analyse
    <3>2. scope = "match" /\ g = 1
      BY <1>1, <3>1
    <3> QED BY <2>1, <3>2, AnalyseAccounts
  <2>2. ASSUME NEW g, NEW k, NEW es, AnalyseMove(g, k, es) PROVE FALSE
    BY <1>1, <2>2 DEF AnalyseMove
  <2>3. ~Clear
    BY <1>1 DEF Clear
  <2> QED BY <1>2, <2>1, <2>2, <2>3 DEF Command
<1>3. CASE Interrupt \/ Quit
  <2>1. /\ lMatch' = lMatch /\ UNCHANGED <<main, handing, tasks, at, task, doubleError, data, sc>>
        /\ UNCHANGED <<asked, added, result>>
    BY <1>1, <1>3 DEF Interrupt, Quit, records, pool, workers
  <2>2. GoesWell
    BY <2>1 DEF GoesWell
  <2> QED BY <2>1, <2>2, SameAccounts
<1>4. CASE Autosave
  BY <1>1, <1>4 DEF Autosave
<1>5. CASE MainStep
  <2>1. CASE GameInfo
    <3>1. main = "info" /\ main' = "add" /\ UNCHANGED <<asked, added, result>>
      <4>1. asked \in Commands
        BY DEF Types, MainTypes, UserTypes
      <4>2. ~(asked' = [asked EXCEPT !.scope = "cut match"])
        BY <1>1, <4>1 DEF Commands
      <4> QED BY <1>1, <2>1, <4>2 DEF GameInfo, pool
    <3>2. GoesWell
      BY <3>1 DEF GoesWell, Waiting
    <3> QED BY <2>1, <3>1, <3>2, GameInfoAccounts
  <2>2. CASE AddRecord
    <3>1. main = "add" /\ UNCHANGED asked
      BY <2>2 DEF AddRecord, user
    <3>2. ~(added /\ result = Failed)
      <4>1. added => added' /\ result' = result
        BY <2>2 DEF AddRecord, HandOver, AddTask, pool
      <4> QED BY <1>1, <4>1
    <3>3. GoesWell
      BY <3>1, <3>2 DEF GoesWell, Waiting
    <3> QED BY <2>2, <3>3, AddRecordAccounts
  <2>3. CASE EndOfGame
    <3>1. main = "add" /\ UNCHANGED <<asked, added, result>>
      BY <2>3 DEF EndOfGame, user, pool
    <3>2. GoesWell
      BY <3>1 DEF GoesWell, Waiting
    <3> QED BY <2>3, <3>2, EndOfGameAccounts
  <2>4. CASE WaitEnds
    BY <1>1, <2>4 DEF WaitEnds
  <2> QED BY <1>5, <2>1, <2>2, <2>3, <2>4 DEF MainStep
<1> QED BY <1>2, <1>3, <1>4, <1>5

-----------------------------------------------------------------------------
(* What holds at any time.                                                 *)

\* What an analysis of the match was asked for.
LEMMA BatchStays ==
  ASSUME Types, Batch, [Next]_vars
  PROVE  Batch'
<1>1. CASE Command
  <2>1. ASSUME NEW scope, NEW es \in 1..Levels, NEW players, NEW g, Analyse(scope, g, es, players)
        PROVE  Batch'
    <3>1. main = "idle" /\ main' = "info" /\ asked' = [scope |-> scope, es |-> es, players |-> players]
          /\ UNCHANGED <<added, tasks, at>>
      BY <2>1 DEF Analyse, pool, workers
    <3>2. ~added' /\ AllDone' /\ asked'.es # 0
      BY <3>1 DEF Batch, AllDone
    <3> QED BY <3>1, <3>2 DEF Batch
  <2>2. ASSUME NEW g, NEW k, NEW es, AnalyseMove(g, k, es) PROVE Batch'
    BY <2>2 DEF AnalyseMove, AddTask, Batch
  <2>3. CASE Clear
    BY <2>3 DEF Clear, Batch, AllDone, pool, workers
  <2> QED BY <1>1, <2>1, <2>2, <2>3 DEF Command
<1>2. CASE Interrupt \/ Autosave \/ Quit
  <2>1. UNCHANGED <<added, tasks, at, asked>> /\ main' \in {main, "crashed", "ended"}
    BY <1>2 DEF Interrupt, Autosave, Quit, pool, workers, user
  <2> QED BY <2>1 DEF Batch, AllDone
<1>3. CASE MainStep
  <2>1. CASE GameInfo
    <3>1. main = "info" /\ UNCHANGED <<added, tasks, at>> /\ asked \in Commands
      BY <2>1 DEF GameInfo, pool, workers, Types, MainTypes, UserTypes
    <3>2. \/ main' = "add" /\ asked' = asked
          \/ main' = "wait" /\ asked'.scope = "cut match"
          \/ main' = "idle" /\ asked' = asked /\ asked.scope = "game"
      BY <2>1, <3>1 DEF GameInfo, Commands
    <3> QED BY <3>1, <3>2 DEF Batch, AllDone
  <2>2. CASE AddRecord
    <3>1. main' = "add" /\ UNCHANGED <<asked, at>> /\ ((UNCHANGED <<added, tasks>>) \/ added')
      BY <2>2 DEF AddRecord, HandOver, AddTask, pool, workers, user
    <3> QED BY <3>1 DEF Batch, AllDone
  <2>3. CASE EndOfGame
    <3>1. UNCHANGED <<added, tasks, at, asked>> /\ (main' = "info" => asked.scope = "match") /\ main' # "idle"
      BY <2>3 DEF EndOfGame, pool, workers, user
    <3> QED BY <3>1 DEF Batch, AllDone
  <2>4. CASE WaitEnds
    <3>1. AllDone /\ UNCHANGED <<tasks, at, asked>> /\ added' = FALSE
      BY <2>4 DEF WaitEnds, workers
    <3> QED BY <3>1 DEF Batch, AllDone
  <2> QED BY <1>3, <2>1, <2>2, <2>3, <2>4 DEF MainStep
<1>4. ASSUME NEW t \in Threads, WorkerStep(t) PROVE Batch'
  <2>1. at[t] # "idle" \/ tasks # <<>>
    BY <1>4 DEF WorkerStep, GetTask, Enter, Skip, BeginMove, BeginDouble, BeginAnswer, BeginDice, StoreCube, Play,
                StoreMoves, EvaluationFails, Skill, Count, Leave, Abort, GoOn, Go
  <2>2. added
    BY <2>1 DEF Batch, AllDone
  <2>3. UNCHANGED <<added, asked>> /\ main' \in {main, "crashed"}
    <3>1. CASE GetTask(t) \/ Enter(t) \/ Leave(t) \/ Abort(t)
      BY <3>1 DEF GetTask, Enter, Leave, Abort, NoOther, user, pool
    <3>2. CASE Within(t)
      BY <3>2 DEF Within, Rest, user, pool
    <3> QED BY <1>4, <3>1, <3>2, WithinTask DEF WorkerStep
  <2> QED BY <2>2, <2>3 DEF Batch
<1>5. CASE UNCHANGED vars
  BY <1>5 DEF vars, pool, workers, user, Batch, AllDone
<1> QED BY <1>1, <1>2, <1>3, <1>4, <1>5 DEF Next

\* Only a move is looked up in a list of moves, or has its cube evaluated with a
\* double.
LEMMA KindsStay ==
  ASSUME Types, Kinds, [Next]_vars
  PROVE  Kinds'
<1>1. ASSUME lMatch' = lMatch, NEW u \in Threads, at'[u] = at[u], task'[u] = task[u]
      PROVE  /\ at'[u] \in {"play", "moves", "skill"} => Record(u).mt' = "MOVE_NORMAL"
             /\ at'[u] = "cube" => Record(u).mt' \in {"MOVE_NORMAL", "MOVE_DOUBLE"}
  <2>1. Record(u).mt' = Record(u).mt
    BY <1>1 DEF Record, Call, Moves
  <2> QED BY <1>1, <2>1 DEF Kinds
<1>2. ASSUME lMatch' = lMatch, UNCHANGED <<at, task>> PROVE Kinds'
  BY <1>1, <1>2 DEF Kinds
<1>3. CASE Command \/ Interrupt \/ Autosave \/ Quit \/ MainStep \/ UNCHANGED vars
  <2>1. lMatch' = lMatch /\ UNCHANGED <<at, task>>
    BY <1>3 DEF Command, Analyse, AnalyseMove, Clear, Interrupt, Autosave, Quit, MainStep, GameInfo, AddRecord,
                EndOfGame, WaitEnds, vars, records, workers
  <2> QED BY <1>2, <2>1
<1>4. ASSUME NEW t \in Threads, WorkerStep(t) PROVE Kinds'
  <2>1. at \in [Threads -> Places] /\ task \in [Threads -> Seq(Calls)]
    BY DEF Types, WorkerTypes
  <2>2. lMatch' = lMatch /\ \A u \in Threads \ {t} : at'[u] = at[u] /\ task'[u] = task[u]
    <3>1. CASE GetTask(t) \/ Enter(t) \/ Leave(t) \/ Abort(t)
      BY <2>1, <3>1 DEF GetTask, Enter, Leave, Abort, GoOn, Go, NoOther, records
    <3>2. CASE Within(t)
      BY <2>1, <3>2 DEF Within, Moved, Keeps, Takes, Leaves, Between, Rest
    <3> QED BY <1>4, <3>1, <3>2, WithinTask DEF WorkerStep
  <2>3. \/ at'[t] \notin {"cube", "play", "moves", "skill"}
        \/ task' = task /\ (Record(t).mt = "MOVE_NORMAL" \/ (Record(t).mt = "MOVE_DOUBLE" /\ at'[t] = "cube"))
    <3>1. CASE GetTask(t) \/ Enter(t) \/ Leave(t) \/ Abort(t)
      BY <2>1, <3>1 DEF GetTask, Enter, Leave, Abort, GoOn, Go
    <3>2. CASE BeginMove(t) \/ BeginDouble(t) \/ StoreCube(t)
      BY <2>1, <3>2 DEF BeginMove, BeginDouble, StoreCube, Go
    <3>3. CASE Play(t) \/ StoreMoves(t)
      <4>1. at[t] \in {"play", "moves"} /\ task' = task
        BY <3>3 DEF Play, StoreMoves, Go
      <4> QED BY <4>1 DEF Kinds
    <3>4. CASE Skip(t) \/ BeginAnswer(t) \/ BeginDice(t) \/ EvaluationFails(t) \/ Skill(t) \/ Count(t)
      BY <2>1, <3>4 DEF Skip, BeginAnswer, BeginDice, EvaluationFails, Skill, Count, Go
    <3> QED BY <1>4, <3>1, <3>2, <3>3, <3>4 DEF WorkerStep
  <2>4. /\ at'[t] \in {"play", "moves", "skill"} => Record(t).mt' = "MOVE_NORMAL"
        /\ at'[t] = "cube" => Record(t).mt' \in {"MOVE_NORMAL", "MOVE_DOUBLE"}
    <3>1. task' = task => Record(t).mt' = Record(t).mt
      BY <2>2 DEF Record, Call, Moves
    <3> QED BY <2>3, <3>1
  <2> QED BY <1>1, <2>2, <2>4 DEF Kinds
<1> QED BY <1>2, <1>3, <1>4 DEF Next

\* A list of moves is not lost by writing something else.
LEMMA ListKept ==
  ASSUME Types, NEW h \in DOMAIN lMatch, NEW j \in DOMAIN Moves(h), NEW field, NEW v,
         data' = [data EXCEPT ![h][j][field] = v], field # "ml" \/ v # "lost",
         NEW g \in DOMAIN lMatch, NEW k \in DOMAIN Moves(g), data[g][k].ml # "lost"
  PROVE  data'[g][k].ml # "lost"
<1>1. /\ data = [i \in DOMAIN lMatch |-> data[i]] /\ data[g] \in [DOMAIN Moves(g) -> Analyses]
      /\ data[g][k] \in Analyses
  BY DEF Types, DataTypes
<1>2. CASE g = h /\ k = j
  <2>1. data'[g][k] = [data[g][k] EXCEPT ![field] = v]
    BY <1>1, <1>2
  <2>2. DOMAIN data[g][k] = {"esDouble", "esChequer", "ml", "fLuck", "stCube"}
    BY <1>1 DEF Analyses
  <2> QED BY <2>1, <2>2
<1>3. CASE ~(g = h /\ k = j)
  <2>1. data'[g][k] = data[g][k]
    BY <1>1, <1>3
  <2> QED BY <2>1
<1> QED BY <1>2, <1>3

\* Only a move has a list of moves to lose.
LEMMA ListsStay ==
  ASSUME Types, Kinds, Lists, [Next]_vars
  PROVE  Lists'
<1>1. ASSUME lMatch' = lMatch, UNCHANGED data PROVE Lists'
  BY <1>1 DEF Lists, Kind, Moves
<1>2. CASE Clear
  <2>1. lMatch' = lMatch /\ data' = [g \in DOMAIN lMatch |-> [k \in DOMAIN Moves(g) |-> Unanalysed]]
    BY <1>2 DEF Clear
  <2>2. Unanalysed.ml # "lost"
    BY DEF Unanalysed
  <2> HIDE DEF Unanalysed
  <2>3. \A g \in DOMAIN lMatch : \A k \in DOMAIN Moves(g) : data'[g][k].ml # "lost"
    BY <2>1, <2>2
  <2> QED BY <2>1, <2>3 DEF Lists, Moves
<1>3. CASE Command \/ Interrupt \/ Autosave \/ Quit \/ MainStep \/ UNCHANGED vars
  <2>1. ~Clear => lMatch' = lMatch /\ UNCHANGED data
    BY <1>3 DEF Command, Analyse, AnalyseMove, Interrupt, Autosave, Quit, MainStep, GameInfo, AddRecord,
                EndOfGame, WaitEnds, vars, records
  <2> QED BY <1>1, <1>2, <2>1
<1>4. ASSUME NEW t \in Threads, WorkerStep(t) PROVE Lists'
  <2>1. CASE UNCHANGED data
    <3>1. lMatch' = lMatch
      <4>1. CASE GetTask(t) \/ Enter(t) \/ Leave(t) \/ Abort(t)
        BY <4>1 DEF GetTask, Enter, Leave, Abort, NoOther, records
      <4>2. CASE Within(t)
        BY <4>2 DEF Within, Rest
      <4> QED BY <1>4, <4>1, <4>2, WithinTask DEF WorkerStep
    <3> QED BY <1>1, <2>1, <3>1
  <2>2. CASE ~UNCHANGED data
    <3> PICK h, j, c : h = Call(t).g /\ j = Call(t).k /\ c = CubeDec(Call(t).g, Call(t).k)
      OBVIOUS
    <3>1. /\ \/ BeginMove(t) \/ BeginAnswer(t) \/ BeginDice(t) \/ StoreCube(t) \/ Play(t) \/ StoreMoves(t) \/ Skill(t)
          /\ lMatch' = lMatch /\ at[t] # "idle"
      BY <1>4, <2>2 DEF WorkerStep, GetTask, Enter, Skip, BeginMove, BeginDouble, BeginAnswer, BeginDice, StoreCube,
                        Play, StoreMoves, EvaluationFails, Skill, Count, Leave, Abort, Go, InLock, NoOther, records
    <3>2. h \in DOMAIN lMatch /\ j \in DOMAIN Moves(h) /\ Record(t).mt = Kind(h, j)
      BY <3>1, CallTypes DEF Record, Kind
    <3>3. c \in DOMAIN Moves(h)
      <4>1. j \in Nat \ {0} /\ DOMAIN Moves(h) = 1..Len(Moves(h)) /\ Len(Moves(h)) \in Nat
        BY <3>2, SeenTypes
      <4>2. c \in 1..j
        BY <4>1, CubeDecBetween
      <4> QED BY <3>2, <4>1, <4>2
    <3> DEFINE Puts(i, field, v) == data' = [data EXCEPT ![h][i][field] = v] /\ (field # "ml" \/ v # "lost")
    <3>4. \/ \E i \in DOMAIN Moves(h) : \E field, v : Puts(i, field, v)
          \/ Kind(h, j) = "MOVE_NORMAL" /\ \E d : data' = [data EXCEPT ![h][j] = d]
      <4>1. CASE BeginMove(t) \/ StoreCube(t)
        <5>1. PICK es : WriteDouble(t, es)
          BY <2>2, <4>1 DEF BeginMove, StoreCube
        <5> PICK field : field = "esDouble"
          OBVIOUS
        <5>2. data' = [data EXCEPT ![h][c][field] = es]
          BY <5>1 DEF WriteDouble
        <5>3. Puts(c, field, es)
          BY <5>2
        <5> HIDE DEF Puts
        <5> QED BY <3>3, <5>3
      <4>2. CASE BeginAnswer(t) \/ BeginDice(t) \/ Skill(t) \/ StoreMoves(t)
        <5>1. \E field, v : Write(t, field, v) /\ (field # "ml" \/ v # "lost")
          <6>1. CASE BeginAnswer(t)
            <7>1. Write(t, "stCube", doubleError[t]) /\ "stCube" # "ml"
              BY <2>2, <6>1 DEF BeginAnswer
            <7> QED BY <7>1
          <6>2. CASE BeginDice(t)
            <7>1. Write(t, "fLuck", TRUE) /\ "fLuck" # "ml"
              BY <6>2 DEF BeginDice
            <7> QED BY <7>1
          <6>3. CASE Skill(t)
            <7>1. Write(t, "esChequer", asked.es) /\ "esChequer" # "ml"
              BY <2>2, <6>3 DEF Skill
            <7> QED BY <7>1
          <6>4. CASE StoreMoves(t)
            <7>1. Write(t, "ml", "none") \/ Write(t, "ml", "whole")
              BY <6>4 DEF StoreMoves
            <7>2. "none" # "lost" /\ "whole" # "lost"
              OBVIOUS
            <7> QED BY <7>1, <7>2
          <6> QED BY <4>2, <6>1, <6>2, <6>3, <6>4
        <5>2. PICK field, v : Write(t, field, v) /\ (field # "ml" \/ v # "lost")
          BY <5>1
        <5>3. Puts(j, field, v)
          BY <5>2 DEF Write
        <5> HIDE DEF Puts
        <5> QED BY <3>2, <5>3
      <4>3. CASE Play(t)
        <5>1. at[t] = "play"
          BY <4>3 DEF Play, Go
        <5>2. Kind(h, j) = "MOVE_NORMAL"
          BY <3>2, <5>1 DEF Kinds
        <5> QED BY <3>2, <4>3, <5>2 DEF Play, Write
      <4> QED BY <3>1, <4>1, <4>2, <4>3
    <3> SUFFICES ASSUME NEW g \in DOMAIN lMatch, NEW k \in DOMAIN Moves(g), Kind(g, k) # "MOVE_NORMAL"
                 PROVE  data'[g][k].ml # "lost"
      BY <3>1 DEF Lists, Kind, Moves
    <3>5. data[g][k].ml # "lost"
      BY DEF Lists
    <3>6. CASE \E i \in DOMAIN Moves(h) : \E field, v : Puts(i, field, v)
      <4>1. PICK i \in DOMAIN Moves(h) : \E field, v : Puts(i, field, v)
        BY <3>6
      <4>2. PICK field, v : Puts(i, field, v)
        BY <4>1
      <4> QED BY <3>2, <3>5, <4>2, ListKept
    <3>7. CASE Kind(h, j) = "MOVE_NORMAL" /\ \E d : data' = [data EXCEPT ![h][j] = d]
      <4>1. g # h \/ k # j
        BY <3>7
      <4>2. data = [i \in DOMAIN lMatch |-> data[i]] /\ data[h] \in [DOMAIN Moves(h) -> Analyses]
        BY <3>2 DEF Types, DataTypes
      <4>3. data'[g][k] = data[g][k]
        BY <3>7, <4>1, <4>2
      <4> QED BY <3>5, <4>3
    <3> QED BY <3>4, <3>6, <3>7
  <2> QED BY <2>1, <2>2
<1> QED BY <1>2, <1>3, <1>4 DEF Next

\* When a whole analysis of the match has returned that it did not fail, each
\* record is done.
LEMMA AllAccountedStays ==
  ASSUME Types, Batch, GoesWell => Accounts, AllAccounted, [Next]_vars
  PROVE  AllAccounted'
<1> SUFFICES ASSUME Complete'
             PROVE  \A g \in DOMAIN lMatch' : \A k \in DOMAIN Moves(g)' : Done(g, k)'
  BY DEF AllAccounted
<1>1. main' = "idle" /\ asked'.scope = "match" /\ asked'.players = Players /\ told' = 0 /\ told' # Failed
  BY DEF Complete, Failed
<1>2. CASE Command
  BY <1>1, <1>2 DEF Command, Analyse, AnalyseMove, Clear
<1>3. CASE Interrupt \/ Autosave \/ Quit
  BY <1>1, <1>3 DEF Interrupt, Autosave, Quit, Waiting
<1>4. CASE MainStep
  <2>1. CASE GameInfo
    BY <1>1, <2>1 DEF GameInfo
  <2>2. CASE AddRecord \/ EndOfGame
    BY <1>1, <2>2 DEF AddRecord, EndOfGame
  <2>3. CASE WaitEnds
    <3>1. /\ main = "wait" /\ AllDone /\ UNCHANGED <<asked, data>> /\ lMatch' = lMatch /\ UNCHANGED sc
          /\ result # Failed
      BY <1>1, <2>3 DEF WaitEnds
    <3>2. Covered
      BY <1>1, <3>1 DEF GoesWell, Waiting, Accounts
    <3>3. \A y : ~IsPending(y)
      <4>1. Doubles = {}
        BY <3>1 DEF Doubles
      <4> QED BY <3>1, <4>1, NothingPending
    <3>4. \A g \in DOMAIN lMatch : \A k \in DOMAIN Moves(g) : Done(g, k)
      BY <3>1, <3>2, <3>3 DEF Covered, IsHanded
    <3> QED BY <3>1, <3>4, NothingWritten, SameRecords
  <2> QED BY <1>4, <2>1, <2>2, <2>3 DEF MainStep
<1>5. ASSUME NEW t \in Threads, WorkerStep(t) PROVE FALSE
  <2>1. main' \in {main, "crashed"}
    <3>1. CASE GetTask(t) \/ Enter(t) \/ Leave(t) \/ Abort(t)
      BY <3>1 DEF GetTask, Enter, Leave, Abort, NoOther
    <3>2. CASE Within(t)
      BY <3>2 DEF Within, Rest
    <3> QED BY <1>5, <3>1, <3>2, WithinTask DEF WorkerStep
  <2>2. AllDone
    BY <1>1, <2>1 DEF Batch
  <2> QED BY <1>5, <2>2 DEF AllDone, WorkerStep, GetTask, Enter, Skip, BeginMove, BeginDouble, BeginAnswer, BeginDice,
                            StoreCube, Play, StoreMoves, EvaluationFails, Skill, Count, Leave, Abort, GoOn, Go
<1>6. CASE UNCHANGED vars
  <2>1. lMatch' = lMatch /\ UNCHANGED <<data, sc>> /\ Complete
    BY <1>1, <1>6 DEF vars, records, user, Complete
  <2>2. \A g \in DOMAIN lMatch : \A k \in DOMAIN Moves(g) : Done(g, k)
    BY <2>1 DEF AllAccounted
  <2> QED BY <2>1, <2>2, NothingWritten, SameRecords
<1> QED BY <1>2, <1>3, <1>4, <1>5, <1>6 DEF Next

\* At the start there is no analysis.
LEMMA InitAccounted == Init => IsAccounted
<1> SUFFICES ASSUME Init PROVE IsAccounted
  OBVIOUS
<1>1. /\ added = FALSE /\ tasks = <<>> /\ at = [t \in Threads |-> "idle"] /\ asked.scope = "none"
      /\ data = [g \in DOMAIN lMatch |-> [k \in DOMAIN Moves(g) |-> Unanalysed]]
  BY DEF Init
<1>2. Unanalysed.ml # "lost"
  BY DEF Unanalysed
<1>3. Batch /\ Kinds
  BY <1>1 DEF Batch, Kinds, AllDone
<1>4. Lists
  BY <1>1, <1>2 DEF Lists
<1>5. ~GoesWell /\ AllAccounted
  BY <1>1 DEF GoesWell, AllAccounted, Complete
<1> QED BY <1>3, <1>4, <1>5 DEF IsAccounted

\* No step leaves the accounts.
LEMMA NextAccounted ==
  MatchesAreProper /\ Types /\ Contexts /\ IsAccounted /\ [Next]_vars => IsAccounted'
<1> SUFFICES ASSUME MatchesAreProper, Types, Contexts, IsAccounted, [Next]_vars PROVE IsAccounted'
  OBVIOUS
<1>1. Batch /\ Kinds /\ Lists /\ (GoesWell => Accounts) /\ AllAccounted
  BY DEF IsAccounted
<1>2. Batch'
  BY <1>1, BatchStays
<1>3. Kinds' /\ Lists'
  BY <1>1, KindsStay, ListsStay
<1>4. AllAccounted'
  BY <1>1, AllAccountedStays
<1>5. GoesWell' => Accounts'
  <2>1. CASE Command \/ Interrupt \/ Autosave \/ Quit \/ MainStep
    BY <1>1, <2>1, MainAccounts
  <2>2. CASE \E t \in Threads : WorkerStep(t)
    BY <1>1, <2>2, WorkerAccounts
  <2>3. CASE UNCHANGED vars
    <3>1. /\ lMatch' = lMatch /\ UNCHANGED <<main, handing, tasks, at, task, doubleError, data, sc>>
          /\ UNCHANGED <<asked, added, result>>
      BY <2>3 DEF vars, records, pool, workers, user
    <3>2. GoesWell' => GoesWell
      BY <3>1 DEF GoesWell
    <3> QED BY <1>1, <3>1, <3>2, SameAccounts
  <2> QED BY <2>1, <2>2, <2>3 DEF Next
<1> QED BY <1>2, <1>3, <1>4, <1>5 DEF IsAccounted

\* The invariant of a whole analysis of the match, in proper matches.
THEOREM RecordsAreAccounted == ASSUME MatchesAreProper PROVE Spec => []IsAccounted
<1>1. Init => Types /\ Contexts /\ IsAccounted
  BY InitTypes, InitContexts, InitAccounted
<1>2. Types /\ Contexts /\ IsAccounted /\ [Next]_vars => Types' /\ Contexts' /\ IsAccounted'
  BY NextTypes, NextContexts, NextAccounted
<1> QED BY <1>1, <1>2, PTL DEF Spec

\* The types, as an invariant of every behaviour (stated by TypesHold with the
\* lock): what the properties below are read off with.
LEMMA TypesAreKept == Spec => []Types
BY InitTypes, NextTypes, PTL DEF Spec

\* An open double is a double.
LEMMA OpenDoubles ==
  ASSUME Types, NEW g \in DOMAIN lMatch, NEW k \in DOMAIN Moves(g), IsOpenDouble(g, k)
  PROVE  Kind(g, k) = "MOVE_DOUBLE"
<1>1. k \in k..Len(Moves(g))
  BY SeenTypes
<1> QED BY <1>1 DEF IsOpenDouble, Kind

\* The evaluation of the cube that an answer has is that of the first double of
\* its chain.
LEMMA AnswersShare ==
  ASSUME Types, MatchesAreProper, NEW g \in DOMAIN lMatch, NEW k \in DOMAIN Moves(g), Kind(g, k) \in Answers
  PROVE  LET c == CubeDec(g, k)
         IN c \in DOMAIN Moves(g) /\ c \in 1..(k - 1) /\ IsFirst(g, c) /\ esDouble(g, c) = esDouble(g, k) /\ k > 1
<1> PICK c : c = CubeDec(g, k)
  OBVIOUS
<1>1. k \in Nat \ {0} /\ DOMAIN Moves(g) = 1..Len(Moves(g)) /\ Len(Moves(g)) \in Nat
  BY SeenTypes
<1>2. Linked(g, k)
  BY ProperDoubles
<1>3. c \in 1..(k - 1) /\ IsFirst(g, c)
  BY <1>1, <1>2, CubeDecOfChain
<1>4. c \in DOMAIN Moves(g) /\ c \in Nat \ {0} /\ k > 1
  BY <1>1, <1>3
<1>5. CubeDec(g, c) = c
  <2>1. ~Linked(g, c)
    BY <1>3 DEF IsFirst, Linked
  <2> QED BY <1>4, <2>1, CubeDecOfChain
<1>6. esDouble(g, c) = esDouble(g, k)
  BY <1>5 DEF esDouble
<1> QED BY <1>3, <1>4, <1>6

\* MatchAnalysed finds what a whole analysis has done.
LEMMA DoneIsSeen ==
  ASSUME Types, MatchesAreProper, Lists, \A g \in DOMAIN lMatch : \A k \in DOMAIN Moves(g) : Done(g, k)
  PROVE  /\ \A g \in DOMAIN lMatch : \A k \in DOMAIN Moves(g) : data[g][k].ml # "lost"
         /\ MatchAnalysed \/ \E g \in DOMAIN lMatch : \E k \in DOMAIN Moves(g) : IsOpenDouble(g, k)
<1>1. ASSUME NEW g \in DOMAIN lMatch, NEW k \in DOMAIN Moves(g) PROVE data[g][k].ml # "lost"
  <2>1. CASE Kind(g, k) # "MOVE_NORMAL"
    BY <2>1 DEF Lists
  <2>2. CASE Kind(g, k) = "MOVE_NORMAL"
    <3>1. ~IsOpenDouble(g, k)
      BY <2>2, OpenDoubles
    <3> QED BY <2>2, <3>1 DEF Done, Analysed, IsAnalysed
  <2> QED BY <2>1, <2>2
<1>2. ASSUME \A g \in DOMAIN lMatch : \A k \in DOMAIN Moves(g) : ~IsOpenDouble(g, k)
      PROVE  MatchAnalysed
  <2>1. \A g \in DOMAIN lMatch : \A k \in DOMAIN Moves(g) : Analysed(g, k)
    BY <1>2 DEF Done
  <2> SUFFICES ASSUME NEW g \in DOMAIN lMatch, NEW k \in DOMAIN Moves(g) PROVE MoveAnalysed(g, k)
    BY DEF MatchAnalysed
  <2>2. Analysed(g, k)
    BY <2>1
  <2>3. CASE Kind(g, k) = "MOVE_NORMAL"
    BY <2>2, <2>3 DEF MoveAnalysed, Analysed, IsAnalysed, CubeKnown, Kind, Seen, Replayed
  <2>4. CASE Kind(g, k) = "MOVE_DOUBLE"
    <3>1. DoubleType(Seen(g, k)) = "DT_NORMAL" => esDouble(g, k) # 0
      BY <2>2, <2>4, ProperDoubles DEF Analysed, IsAnalysed
    <3> QED BY <2>4, <3>1 DEF MoveAnalysed, Kind, Seen, Replayed
  <2>5. CASE Kind(g, k) = "MOVE_DROP"
    <3> PICK c : c = CubeDec(g, k)
      OBVIOUS
    <3>1. c \in DOMAIN Moves(g) /\ IsFirst(g, c) /\ esDouble(g, c) = esDouble(g, k)
      BY <2>5, AnswersShare DEF Answers
    <3>2. esDouble(g, k) # 0
      BY <2>1, <3>1 DEF Analysed, IsAnalysed
    <3> QED BY <2>5, <3>2 DEF MoveAnalysed, Kind
  <2>6. CASE Kind(g, k) \notin {"MOVE_NORMAL", "MOVE_DOUBLE", "MOVE_DROP"}
    BY <2>6 DEF MoveAnalysed, Kind
  <2> QED BY <2>3, <2>4, <2>5, <2>6
<1> QED BY <1>1, <1>2

\* After an analysis of the match that returned no failure, MatchAnalysed finds
\* nothing missing, and no list of moves is lost.
THEOREM CompleteAnalysisIsSeen == ASSUME MatchesAreProper PROVE Spec => []CompleteIsSeen
<1>1. Types /\ IsAccounted => CompleteIsSeen
  BY DoneIsSeen DEF IsAccounted, AllAccounted, CompleteIsSeen
<1> QED BY <1>1, TypesAreKept, RecordsAreAccounted, PTL

\* An answer is judged by what was found of the double that it answers.
THEOREM AnswersKnowTheirDouble == ASSUME MatchesAreProper PROVE Spec => []AnswerKnowsDouble
<1>1. Types /\ IsAccounted => AnswerKnowsDouble
  <2> SUFFICES ASSUME Types, IsAccounted, Complete, NEW g \in DOMAIN lMatch, NEW k \in DOMAIN Moves(g),
                      Kind(g, k) \in Answers, IsNormalTake(Seen(g, k)), esDouble(g, k) # 0
               PROVE  data[g][k].stCube = esDouble(g, k)
    BY DEF AnswerKnowsDouble, Kind, Answers, Seen, Replayed
  <2>1. Done(g, k)
    BY DEF IsAccounted, AllAccounted
  <2>2. ~IsOpenDouble(g, k)
    BY OpenDoubles DEF Answers
  <2> QED BY <2>1, <2>2 DEF Done, Analysed, IsAnalysed
<1> QED BY <1>1, TypesAreKept, RecordsAreAccounted, PTL

-----------------------------------------------------------------------------
(* The recount.                                                            *)

\* The states that updateStatisticsGame goes through, up to record n.
RecountedNext(g, k, m) == Apply(Recounted(m, Moves(g)[k]), g, Moves(g)[k])
IsRecount(f, g, n) ==
    f = [k \in 0..n |-> IF k = 0 THEN StartState(lMatch[g].info) ELSE RecountedNext(g, k, f[k - 1])]

\* There are such states,
LEMMA RecountsExist ==
  ASSUME NEW g, NEW n \in Nat
  PROVE  \E f : IsRecount(f, g, n)
<1> DEFINE S == {m \in Nat : \E f : IsRecount(f, g, m)}
<1>1. 0 \in S
  <2> DEFINE f == [k \in 0..0 |-> StartState(lMatch[g].info)]
  <2>1. \A k \in 0..0 : k = 0
    OBVIOUS
  <2>2. IsRecount(f, g, 0)
    BY <2>1 DEF IsRecount
  <2> HIDE DEF f
  <2> QED BY <2>2
<1>2. ASSUME NEW m \in Nat, m \in S PROVE m + 1 \in S
  <2>1. PICK f : IsRecount(f, g, m)
    BY <1>2
  <2> DEFINE h == [k \in 0..(m + 1) |-> IF k = m + 1 THEN RecountedNext(g, k, f[m]) ELSE f[k]]
  <2>2. ASSUME NEW k \in 0..(m + 1)
        PROVE  h[k] = IF k = 0 THEN StartState(lMatch[g].info) ELSE RecountedNext(g, k, h[k - 1])
    <3>1. CASE k = m + 1
      BY <3>1
    <3>2. CASE k # m + 1
      <4>1. k \in 0..m /\ (k # 0 => k - 1 \in 0..(m + 1) /\ k - 1 # m + 1)
        BY <3>2
      <4> QED BY <2>1, <3>2, <4>1 DEF IsRecount
    <3> QED BY <3>1, <3>2
  <2>3. IsRecount(h, g, m + 1)
    BY <2>2 DEF IsRecount
  <2> HIDE DEF h
  <2> QED BY <2>3
<1> HIDE DEF S
<1>3. n \in S
  BY <1>1, <1>2, AllNumbers
<1> QED BY <1>3 DEF S

\* and the recount sees each record in one of them.
LEMMA RecountIs ==
  ASSUME NEW g, Len(Moves(g)) \in Nat
  PROVE  \E f : /\ IsRecount(f, g, Len(Moves(g)))
                /\ \A k \in DOMAIN Moves(g) :
                     updateStatisticsGame(g)[k] =
                        IF /\ Moves(g)[k].mt # "MOVE_SETDICE"
                           /\ Counts(Recounted(f[k - 1], Moves(g)[k]), g, k, data[g][k]) THEN 1 ELSE 0
<1> DEFINE F(f, k) == IF k = 0 THEN StartState(lMatch[g].info)
                      ELSE Apply(Recounted(f[k - 1], Moves(g)[k]), g, Moves(g)[k])
           before == CHOOSE f : f = [k \in 0..Len(Moves(g)) |-> F(f, k)]
<1>1. \A f : IsRecount(f, g, Len(Moves(g))) <=> f = [k \in 0..Len(Moves(g)) |-> F(f, k)]
  BY DEF IsRecount, RecountedNext
<1>2. before = [k \in 0..Len(Moves(g)) |-> F(before, k)]
  <2> HIDE DEF F
  <2> QED BY <1>1, RecountsExist
<1>3. IsRecount(before, g, Len(Moves(g)))
  <2> HIDE DEF F, before
  <2> QED BY <1>1, <1>2
<1>4. updateStatisticsGame(g) =
        [k \in DOMAIN Moves(g) |->
            IF /\ Moves(g)[k].mt # "MOVE_SETDICE"
               /\ Counts(Recounted(before[k - 1], Moves(g)[k]), g, k, data[g][k]) THEN 1 ELSE 0]
  BY DEF updateStatisticsGame
<1> HIDE DEF before
<1> QED BY <1>3, <1>4

\* A recount goes through other states than a replay does, but finds the cube
\* the same.
LEMMA RecountKnowsCube ==
  ASSUME Types, NEW g \in DOMAIN lMatch, NEW f, IsRecount(f, g, Len(Moves(g))), NEW k \in DOMAIN Moves(g)
  PROVE  /\ f[k - 1] \in MatchStates
         /\ f[k - 1].fDoubled = Replayed(g, k).fDoubled /\ f[k - 1].nCube = Replayed(g, k).nCube
         /\ k > 1 => f[k - 1] = RecountedNext(g, k - 1, f[k - 2])
<1>1. /\ Len(Moves(g)) \in Nat /\ DOMAIN Moves(g) = 1..Len(Moves(g)) /\ lMatch[g].moves = Moves(g)
      /\ lMatch[g].info \in GameInfos /\ StartState(lMatch[g].info) \in MatchStates /\ k \in Nat \ {0}
  BY SeenTypes
<1>2. \A j \in 0..Len(Moves(g)) :
         f[j] = IF j = 0 THEN StartState(lMatch[g].info) ELSE RecountedNext(g, j, f[j - 1])
  BY DEF IsRecount
<1> DEFINE Same(j) == /\ f[j] \in MatchStates
                      /\ f[j].fDoubled = Replayed(g, j + 1).fDoubled /\ f[j].nCube = Replayed(g, j + 1).nCube
           S == {j \in Nat : j < Len(Moves(g)) => Same(j)}
<1>3. 0 \in S
  <2> SUFFICES ASSUME 0 < Len(Moves(g)) PROVE Same(0)
    OBVIOUS
  <2>1. 1 \in DOMAIN Moves(g) /\ Moves(g)[1] \in MoveRecords
    BY <1>1, SeenTypes
  <2>2. f[0] = StartState(lMatch[g].info)
    BY <1>1, <1>2
  <2>3. Replayed(g, 1) = FixMatchState(StartState(lMatch[g].info), Moves(g)[1])
    <3>1. CalculateBoard(lMatch[g], 0) = FirstState(lMatch[g])
      BY CalculateBoardFirst
    <3> QED BY <1>1, <3>1 DEF Replayed, FirstState, FixForNext
  <2> QED BY <1>1, <2>1, <2>2, <2>3, CubeStays
<1>4. ASSUME NEW j \in Nat, j \in S PROVE j + 1 \in S
  <2> SUFFICES ASSUME j + 1 < Len(Moves(g)) PROVE Same(j + 1)
    OBVIOUS
  <2> PICK m, r, x : m = f[j] /\ r = Moves(g)[j + 1] /\ x = Recounted(m, r)
    OBVIOUS
  <2>1. /\ j + 1 \in DOMAIN Moves(g) /\ j + 2 \in DOMAIN Moves(g) /\ (j + 2) - 1 = j + 1 /\ j + 2 > 1
        /\ j < Len(Moves(g)) /\ j + 1 \in 0..Len(Moves(g)) /\ (j + 1) - 1 = j /\ j + 1 # 0 /\ (j + 1) + 1 = j + 2
    BY <1>1
  <2>2. m \in MatchStates /\ m.fDoubled = Replayed(g, j + 1).fDoubled /\ m.nCube = Replayed(g, j + 1).nCube
    BY <1>4, <2>1
  <2>3. r \in MoveRecords /\ Moves(g)[j + 2] \in MoveRecords /\ Replayed(g, j + 1) \in MatchStates
    BY <2>1, SeenTypes
  <2>4. x \in MatchStates /\ x.fDoubled = m.fDoubled /\ x.nCube = m.nCube
    BY <2>2, <2>3, CubeStays
  <2>5. f[j + 1] = ApplyMoveRecord([ms |-> x, info |-> lMatch[g].info], r).ms
    BY <1>2, <2>1 DEF RecountedNext, Apply
  <2>6. f[j + 1] \in MatchStates
    <3>1. ApplyMoveRecord([ms |-> x, info |-> lMatch[g].info], r) \in [ms : MatchStates, info : GameInfos]
      BY <1>1, <2>3, <2>4, ApplyMoveRecordTypes
    <3> QED BY <2>5, <3>1
  <2>7. f[j + 1].fDoubled = OffersAfter(x.fDoubled, x.nCube, r) /\ f[j + 1].nCube = CubeAfter(x.fDoubled, x.nCube, r)
    BY <2>3, <2>4, <2>5, CubeStep
  <2> PICK i : i = j + 2
    OBVIOUS
  <2>8. PICK info, y : /\ y = ApplyMoveRecord([ms |-> Replayed(g, j + 1), info |-> info], r).ms
                       /\ y \in MatchStates /\ Replayed(g, i) = FixMatchState(y, Moves(g)[i])
    <3>1. i \in DOMAIN Moves(g) /\ i > 1 /\ i - 1 = j + 1
      BY <2>1
    <3>2. \E info : LET n == ApplyMoveRecord([ms |-> Replayed(g, i - 1), info |-> info], Moves(g)[i - 1]).ms
                    IN n \in MatchStates /\ Replayed(g, i) = FixMatchState(n, Moves(g)[i])
      BY <3>1, ReplayedNext
    <3> QED BY <3>1, <3>2
  <2>9. y.fDoubled = OffersAfter(m.fDoubled, m.nCube, r) /\ y.nCube = CubeAfter(m.fDoubled, m.nCube, r)
    <3> PICK q : q = Replayed(g, j + 1)
      OBVIOUS
    <3>1. q \in MatchStates /\ q.fDoubled = m.fDoubled /\ q.nCube = m.nCube
      BY <2>2, <2>3
    <3>2. y = ApplyMoveRecord([ms |-> q, info |-> info], r).ms
      BY <2>8
    <3>3. y.fDoubled = OffersAfter(q.fDoubled, q.nCube, r) /\ y.nCube = CubeAfter(q.fDoubled, q.nCube, r)
      BY <2>3, <3>1, <3>2, CubeStep
    <3> QED BY <3>1, <3>3
  <2>10. Replayed(g, i).fDoubled = y.fDoubled /\ Replayed(g, i).nCube = y.nCube
    <3>1. Moves(g)[i] \in MoveRecords
      BY <2>3
    <3> QED BY <2>8, <3>1, CubeStays
  <2> QED BY <2>1, <2>4, <2>6, <2>7, <2>9, <2>10
<1> HIDE DEF S
<1>5. k - 1 \in Nat /\ k - 1 < Len(Moves(g)) /\ (k - 1) + 1 = k /\ k - 1 \in 0..Len(Moves(g))
      /\ (k > 1 => k - 1 # 0 /\ (k - 1) - 1 = k - 2)
  BY <1>1
<1>6. k - 1 \in S
  BY <1>3, <1>4, <1>5, AllNumbers
<1>7. Same(k - 1)
  BY <1>5, <1>6 DEF S
<1> QED BY <1>2, <1>5, <1>7

\* A record that is done is counted as the recount counts it.
LEMMA DoneIsRecounted ==
  ASSUME Types, MatchesAreProper, NEW g \in DOMAIN lMatch, NEW k \in DOMAIN Moves(g), Tallied(g, k),
         Kind(g, k) # "MOVE_SETDICE", ~(k > 1 /\ CubeDec(g, k) < k - 1)
  PROVE  sc[g][k] = updateStatisticsGame(g)[k]
<1> PICK es, r : es = esDouble(g, k) /\ r = Moves(g)[k]
  OBVIOUS
<1>1. Len(Moves(g)) \in Nat /\ DOMAIN Moves(g) = 1..Len(Moves(g)) /\ k \in Nat \ {0} /\ r \in MoveRecords
  BY SeenTypes
<1>2. PICK f : /\ IsRecount(f, g, Len(Moves(g)))
               /\ updateStatisticsGame(g)[k] =
                    IF r.mt # "MOVE_SETDICE" /\ Counts(Recounted(f[k - 1], r), g, k, data[g][k]) THEN 1 ELSE 0
  BY <1>1, RecountIs
<1> PICK m : m = Recounted(f[k - 1], r)
  OBVIOUS
<1>3. m.fDoubled = Replayed(g, k).fDoubled
  BY <1>1, <1>2, RecountKnowsCube, CubeStays
<1>4. Counts(m, g, k, data[g][k]) <=> IsDue(g, k, es)
  <2>1. CASE r.mt = "MOVE_NORMAL"
    BY <2>1 DEF Counts, IsDue, Kind
  <2>2. CASE r.mt = "MOVE_DOUBLE"
    <3>1. IsFirst(g, k) <=> DoubleType(m) = "DT_NORMAL"
      BY <1>3, <2>2, ProperDoubles DEF DoubleType, Kind
    <3> QED BY <2>2, <3>1 DEF Counts, IsDue, Kind, Answers
  <2>3. CASE r.mt \in Answers
    <3> PICK n, d, y, x : n = k - 1 /\ d = Moves(g)[n] /\ y = f[k - 2] /\ x = Recounted(y, d)
      OBVIOUS
    <3>1. k > 1 /\ IsFirst(g, n)
      <4>1. CubeDec(g, k) \in 1..(k - 1) /\ IsFirst(g, CubeDec(g, k)) /\ k > 1
        BY <2>3, AnswersShare DEF Kind
      <4>2. CubeDec(g, k) = n
        BY <1>1, <4>1
      <4> QED BY <4>1, <4>2
    <3>2. n \in DOMAIN Moves(g) /\ n - 1 = k - 2
      BY <1>1, <3>1
    <3>3. d \in MoveRecords /\ d.mt = "MOVE_DOUBLE" /\ d.fPlayer \in {0, 1}
      BY <3>1, <3>2, SeenTypes DEF IsFirst, Kind, MoveRecords, Players
    <3>4. ~Replayed(g, n).fDoubled /\ Replayed(g, n).nCube < MAX_CUBE
      BY <3>1, <3>2, ProperDoubles DEF IsFirst
    <3>5. y \in MatchStates /\ ~y.fDoubled /\ y.nCube < MAX_CUBE
      BY <1>2, <3>2, <3>4, RecountKnowsCube
    <3>6. x \in MatchStates /\ ~x.fDoubled /\ x.nCube < MAX_CUBE /\ x.fMove = d.fPlayer
      BY <3>3, <3>5, CubeStays
    <3>7. f[k - 1] = ApplyMoveRecord([ms |-> x, info |-> lMatch[g].info], d).ms
      BY <1>2, <3>1, RecountKnowsCube DEF RecountedNext, Apply
    <3>8. f[k - 1].fMove = d.fPlayer /\ f[k - 1].fTurn = Opponent(d.fPlayer)
      BY <3>3, <3>6, <3>7, CubeStep
    <3>9. m = f[k - 1]
      BY <2>3 DEF Recounted, FixMatchState, Answers
    <3>10. IsNormalTake(m)
      BY <3>3, <3>8, <3>9 DEF IsNormalTake, DoubleType, Opponent
    <3>11. IsNormalTake(Seen(g, k))
      BY <2>3, <3>1, ProperDoubles DEF Kind
    <3> QED BY <2>3, <3>10, <3>11 DEF Counts, IsDue, Kind, Answers, IsFirst
  <2>4. CASE r.mt \notin {"MOVE_NORMAL", "MOVE_DOUBLE"} \cup Answers
    BY <2>4 DEF Counts, IsDue, Kind, Answers, IsFirst
  <2> QED BY <2>1, <2>2, <2>3, <2>4
<1> QED BY <1>2, <1>4 DEF Tallied, IsTallied, Kind

\* A record is in the statistics of its game as often as a recount would put it
\* there, whatever was analysed before.
THEOREM RecordsAreCountedAsShown == ASSUME MatchesAreProper PROVE Spec => []CountedAsShown
<1>1. Types /\ IsAccounted => CountedAsShown
  <2> SUFFICES ASSUME Types, IsAccounted, Complete, NEW g \in DOMAIN lMatch, NEW k \in DOMAIN Moves(g),
                      Kind(g, k) # "MOVE_SETDICE", ~IsOpenDouble(g, k), ~(k > 1 /\ CubeDec(g, k) < k - 1)
               PROVE  sc[g][k] = updateStatisticsGame(g)[k]
    BY DEF CountedAsShown, Kind
  <2>1. Tallied(g, k)
    BY DEF IsAccounted, AllAccounted, Done
  <2> QED BY <2>1, DoneIsRecounted
<1> QED BY <1>1, TypesAreKept, RecordsAreAccounted, PTL
=============================================================================
