------------------------------- MODULE Match -------------------------------
(***************************************************************************)
(* A match, its games and their records: play.c, and the set commands of   *)
(* set.c that add a record.                                                *)
(*                                                                         *)
(* A command adds records to the current game and applies them to the live *)
(* match state ms one by one.  Moving about in the match applies the       *)
(* records anew.  Adding a record at an earlier place discards what came   *)
(* after it, the later games included.                                     *)
(*                                                                         *)
(* Both players are human, the program runs without a window, and every    *)
(* question is answered with yes (a no changes nothing).                   *)
(***************************************************************************)
EXTENDS Records, SequencesExt

CONSTANTS Lengths,        \* lengths of matches; 0 is a session
          nSessionLen,    \* a session ends after so many games
          MAXSCORE,
          Resignations,   \* results a player offers to resign
          SetValues, SetOwners, SetBoards,   \* what the cube and the board may be set to
          nBeavers, cAutoDoubles, fDisplay,   \* settings
          Habits,         \* what the user also does, see below
          MaxRecords,     \* bound: records in the match, MOVE_GAMEINFOs aside
          MaxSettings     \* bound: records in a game that set the cube or the board

ASSUME LengthsAssumption == Lengths \subseteq Nat /\ nSessionLen \in Nat \ {0}
ASSUME ResignationsAssumption == Resignations \subseteq 1..3
\* A board that is set is one of a game that goes on, though `set board' takes any.
ASSUME SettingsAssumption == /\ SetValues \subseteq CubeValues /\ SetOwners \subseteq Nobodies
                             /\ SetBoards \subseteq {b \in Board : GameStatus(b) = 0}
ASSUME CubeAssumption == MAXSCORE \in Nat /\ nBeavers \in Nat /\ cAutoDoubles \in Nat
\* "abandon", "restart": starts a new game, or a new match, in the middle of a
\* game.  "append": starts a game at the end of one that is not the last.
\* "counter": while a resignation is offered, answers a double, resigns too, or
\* goes to the next record.  "dice", "board": sets the dice while a double, the
\* board while a double or a resignation is offered.
ASSUME HabitsAssumption == Habits \subseteq {"abandon", "restart", "append", "counter",
                                               "dice", "board"}

VARIABLES
    lMatch,        \* the games, each with its MOVE_GAMEINFO and its other records
    plGame,        \* the current game, 0 is NULL
    plLastMove,    \* the record that was applied last, 0 is the MOVE_GAMEINFO
    ms,            \* the live match state
    fCrawfordState,
    fNextTurn      \* NextTurn is due before the next command

vars == <<lMatch, plGame, plLastMove, ms, fCrawfordState, fNextTurn>>

-----------------------------------------------------------------------------
(* What the commands are made of.  s stands for the games, the place in    *)
(* them, and the live state, which a command may change more than once.    *)

Here == [lMatch |-> lMatch, plGame |-> plGame, plLastMove |-> plLastMove, ms |-> ms]

Become(s) == /\ lMatch' = s.lMatch /\ plGame' = s.plGame
             /\ plLastMove' = s.plLastMove /\ ms' = s.ms

RecordsOf(games) == FoldSeq(LAMBDA game, n : Len(game.moves) + n, 0, games)

\* A move replaces the roll before it, a setting the same one before it.
MutElidesAnySetting(r, old) == /\ old.fPlayer = r.fPlayer
                               /\ r.mt = "MOVE_NORMAL" \/ r.mt \in Sets
                               /\ old.mt \in Sets
Elides(r, old) == /\ old.fPlayer = r.fPlayer
                  /\ \/ r.mt = "MOVE_NORMAL" /\ old.mt = "MOVE_SETDICE"
                     \/ r.mt \in Sets /\ old.mt = r.mt

MutKeepsLaterGames(s, r) ==
    LET game == s.lMatch[s.plGame]
        kept == SubSeq(game.moves, 1, s.plLastMove)
        before == IF kept # <<>> /\ Elides(r, Last(kept)) THEN Front(kept) ELSE kept
        g == ApplyMoveRecord([ms |-> FixMatchState(s.ms, r), info |-> game.info], r)
    IN [lMatch |-> [s.lMatch EXCEPT ![s.plGame] = [info |-> g.info, moves |-> Append(before, r)]],
        plGame |-> s.plGame, plLastMove |-> Len(before) + 1, ms |-> g.ms]

\* Later games and records go, whatever the result of the game was stays.
AddMoveRecord(s, r) ==
    LET game == s.lMatch[s.plGame]
        kept == SubSeq(game.moves, 1, s.plLastMove)
        before == IF kept # <<>> /\ Elides(r, Last(kept)) THEN Front(kept) ELSE kept
        g == ApplyMoveRecord([ms |-> FixMatchState(s.ms, r), info |-> game.info], r)
    IN [lMatch |-> Append(SubSeq(s.lMatch, 1, s.plGame - 1),
                          [info |-> g.info, moves |-> Append(before, r)]),
        plGame |-> s.plGame, plLastMove |-> Len(before) + 1, ms |-> g.ms]

move_is_last_in_match(s) ==
    s.plGame = 0 \/ s.plLastMove = Len(s.lMatch[s.plGame].moves)

\* To place k of the current game.
GoTo(s, k) ==
    LET g == CalculateBoard(s.lMatch[s.plGame], k)
    IN [s EXCEPT !.lMatch[s.plGame].info = g.info, !.plLastMove = k, !.ms = g.ms]

SetTurn(m, p) ==
    [m EXCEPT !.anBoard = IF m.fTurn # p THEN SwapSides(@) ELSE @,
              !.fTurn = p, !.fMove = p, !.fDoubled = FALSE, !.anDice = 0]

\* The start of a game, with the player of its first record on roll.
ChangeGame(s, g) ==
    LET start == GoTo([s EXCEPT !.plGame = g], 0)
        next == s.lMatch[g].moves
    IN IF next # <<>> /\ Head(next).fPlayer # start.ms.fTurn
       THEN [start EXCEPT !.ms = SetTurn(@, Head(next).fPlayer)]
       ELSE start

\* The rule for the next game, from the score and the game before.
PostCrawford(m, score) == m.fPostCrawford \/ (m.fCrawford /\ score < m.nMatchTo)
CrawfordIsNext(m, high, low) ==
    ~PostCrawford(m, high) /\ ~m.fCrawford /\ high = m.nMatchTo - 1 /\ low < m.nMatchTo - 1

CrawfordByScore(m) ==
    /\ m.nMatchTo # 0
    /\ CrawfordIsNext(m, Max({m.anScore[0], m.anScore[1]}), Min({m.anScore[0], m.anScore[1]}))

\* crawford is fCrawfordState: bit 0 as NextTurn has left it, or -1.
MutIgnoresNextTurn(m, crawford) == CrawfordByScore(m)
IsCrawford(m, crawford) == IF crawford = -1 THEN CrawfordByScore(m) ELSE crawford % 2 = 1

GameInfo(m, crawford) ==
    [i |-> m.cGames, nMatch |-> m.nMatchTo, anScore |-> m.anScore,
     fCrawfordGame |-> IsCrawford(m, crawford),
     fWinner |-> Nobody, nPoints |-> 0, nAutoDoubles |-> 0]

\* Both roll until the dice differ, in a session each tie may double the cube;
\* whose are higher begins.  The doubling is an argument of the message.
Opening(s, info, ties, p, d) ==
    LET game == [info |-> [info EXCEPT !.nAutoDoubles = ties], moves |-> <<>>]
        started == [StartState(info) EXCEPT !.nCube = IF fDisplay THEN 2 ^ ties ELSE 1]
    IN AddMoveRecord([lMatch |-> Append(s.lMatch, game), plGame |-> Len(s.lMatch) + 1,
                      plLastMove |-> 0, ms |-> started], DiceSet(p, d))

\* When the dice cannot be had, the first game becomes the current one, at its
\* start: a second CalculateBoard undoes the SetTurn of ChangeGame.
NewGame(s, crawford) ==
    \/ \E ties \in 0..cAutoDoubles, p \in Players, d \in Dice :
          /\ ties > 0 => s.ms.nMatchTo = 0 /\ 2 ^ ties <= MAX_CUBE
          /\ RecordsOf(s.lMatch) < MaxRecords
          /\ Become(Opening(s, GameInfo(s.ms, crawford), ties, p, d))
    \/ /\ s.lMatch # <<>>
       /\ Become(GoTo([lMatch |-> s.lMatch, plGame |-> 1, plLastMove |-> 0, ms |-> s.ms], 0))

TurnDone == fNextTurn' = TRUE
NotDone == fNextTurn' = FALSE

-----------------------------------------------------------------------------
(* Commands. *)

AtPrompt == ~fNextTurn
Playing == AtPrompt /\ plGame # 0 /\ ms.gs = "GAME_PLAYING"
Room(n) == RecordsOf(lMatch) + n <= MaxRecords
Record(r) == Become(AddMoveRecord(Here, r)) /\ UNCHANGED fCrawfordState

\* ClearMatch; what it leaves alone, the next MOVE_GAMEINFO sets.
NoMatch(n) == [StartState([i |-> 0, nMatch |-> n, anScore |-> [p \in Players |-> 0],
                           fCrawfordGame |-> FALSE, nAutoDoubles |-> 0])
                  EXCEPT !.fPostCrawford = FALSE]

Init == /\ lMatch = <<>> /\ plGame = 0 /\ plLastMove = 0
        /\ ms = [NoMatch(0) EXCEPT !.anBoard = [s \in Players |-> 0]]
        /\ fCrawfordState = -1 /\ fNextTurn = FALSE

\* CommandNewMatch, and CommandNewSession for length 0.
CommandNewMatch(n) ==
    /\ AtPrompt
    /\ ms.gs = "GAME_PLAYING" => "restart" \in Habits
    /\ NewGame([lMatch |-> <<>>, plGame |-> 0, plLastMove |-> 0, ms |-> NoMatch(n)], -1)
    /\ fCrawfordState' = -1 /\ NotDone

CommandNewGame ==
    LET discards == ms.gs = "GAME_PLAYING" \/ ~move_is_last_in_match(Here)
        kept == SubSeq(lMatch, 1, plGame - 1)
    IN /\ AtPrompt
       /\ ms.nMatchTo # 0 => \A p \in Players : ms.anScore[p] < ms.nMatchTo
       /\ discards => "abandon" \in Habits
       /\ ~discards /\ plGame # Len(lMatch) => "append" \in Habits
       /\ NewGame(IF discards THEN [Here EXCEPT !.lMatch = kept] ELSE Here, fCrawfordState)
       /\ UNCHANGED fCrawfordState /\ NotDone

\* No legal move, only one, or a bearoff may be played at once.
CommandRoll(d) ==
    LET rolled == AddMoveRecord(Here, DiceSet(ms.fTurn, d))
    IN /\ Playing /\ Room(1) /\ ~ms.fDoubled /\ ms.fResigned = 0 /\ ms.anDice = 0
       /\ \/ Become(rolled) /\ NotDone
          \/ \E n \in {0, 1} :
                Become(AddMoveRecord(rolled, Normal(ms.fTurn, n))) /\ TurnDone
       /\ UNCHANGED fCrawfordState

CommandMove(n) ==
    /\ Playing /\ Room(1) /\ ms.anDice # 0 /\ ms.fResigned = 0 /\ ~ms.fDoubled
    /\ Record(Normal(ms.fTurn, n)) /\ TurnDone

\* By habit a resignation is agreed to or declined first.
NoResignation == ms.gs = "GAME_PLAYING" /\ ms.fResigned # 0 => "counter" \in Habits

MutDoublesOthersCube ==
    /\ Playing /\ Room(1) /\ ~ms.fCrawford /\ ~ms.fDoubled
    /\ ms.fTurn = ms.fMove /\ ms.anDice = 0
    /\ ms.nCube < MAX_CUBE
    /\ ms.nMatchTo # 0 => ms.nCube < ms.nMatchTo - ms.anScore[ms.fTurn]
    /\ Record(Cube("MOVE_DOUBLE", ms.fTurn)) /\ TurnDone

CommandDouble ==
    LET limit == IF ms.nMatchTo # 0 THEN MAXSCORE ELSE MAX_CUBE
    IN /\ Playing /\ Room(1) /\ ~ms.fCrawford /\ ~ms.fDoubled
       /\ ms.fTurn = ms.fMove /\ ms.anDice = 0
       /\ ms.fCubeOwner \in {Nobody, ms.fTurn}
       /\ ms.nCube < limit
       /\ ms.nMatchTo # 0 => ms.nCube < ms.nMatchTo - ms.anScore[ms.fTurn]
       /\ Record(Cube("MOVE_DOUBLE", ms.fTurn)) /\ TurnDone

MutRedoublesTooHigh ==
    /\ Playing /\ Room(1) /\ NoResignation /\ ms.nMatchTo = 0
    /\ ms.cBeavers < nBeavers /\ ms.fDoubled /\ ms.nCube < MAX_CUBE
    /\ Become(AddMoveRecord([Here EXCEPT !.ms.fCubeOwner = Opponent(ms.fMove)],
                            Cube("MOVE_DOUBLE", ms.fTurn)))
    /\ UNCHANGED fCrawfordState /\ TurnDone

\* Also CommandDouble while a double is offered.
CommandRedouble ==
    /\ Playing /\ Room(1) /\ NoResignation /\ ms.nMatchTo = 0
    /\ ms.cBeavers < nBeavers /\ ms.fDoubled /\ ms.nCube < MAX_CUBE \div 2
    /\ Become(AddMoveRecord([Here EXCEPT !.ms.fCubeOwner = Opponent(ms.fMove)],
                            Cube("MOVE_DOUBLE", ms.fTurn)))
    /\ UNCHANGED fCrawfordState /\ TurnDone

\* LinkToDouble: the last record is the double.
LinkToDouble == /\ plLastMove > 0
                /\ lMatch[plGame].moves[plLastMove].mt = "MOVE_DOUBLE"

CommandTake ==
    /\ Playing /\ Room(1) /\ NoResignation /\ ms.fDoubled /\ LinkToDouble
    /\ Record(Cube("MOVE_TAKE", ms.fTurn)) /\ TurnDone

CommandDrop ==
    /\ Playing /\ Room(1) /\ NoResignation /\ ms.fDoubled /\ LinkToDouble
    /\ Record(Cube("MOVE_DROP", ms.fTurn)) /\ TurnDone

\* An offer that was declined before is withdrawn.
CommandResign(n) ==
    /\ Playing /\ NoResignation
    /\ IF n <= ms.fResignationDeclined
       THEN ms' = [ms EXCEPT !.fResigned = 0] /\ NotDone
       ELSE ms' = [ms EXCEPT !.fResigned = n, !.fTurn = Opponent(@)] /\ TurnDone
    /\ UNCHANGED <<lMatch, plGame, plLastMove>> /\ UNCHANGED fCrawfordState

CommandAgree ==
    /\ Playing /\ Room(1) /\ ms.fResigned # 0
    /\ Record(Resigns(Opponent(ms.fTurn), ms.fResigned)) /\ TurnDone

CommandDecline ==
    /\ Playing /\ ms.fResigned # 0
    /\ ms' = [ms EXCEPT !.fResignationDeclined = ms.fResigned, !.fResigned = 0,
                        !.fTurn = Opponent(@)]
    /\ TurnDone /\ UNCHANGED <<lMatch, plGame, plLastMove>> /\ UNCHANGED fCrawfordState

MoreSettings == Len(SelectSeq(lMatch[plGame].moves,
                    LAMBDA r : r.mt \in Sets \ {"MOVE_SETDICE"})) < MaxSettings

\* The settings need not be at the end of the match, and nobody is asked.
CubeAllowed == Playing /\ Room(1) /\ ~ms.fCrawford

CommandSetCubeValue(n) == /\ CubeAllowed /\ MoreSettings
                          /\ Record(CubeValue(ms.fMove, n)) /\ NotDone
CommandSetCubeOwner(o) == /\ CubeAllowed /\ MoreSettings
                          /\ Record(CubePos(ms.fMove, o)) /\ NotDone
CommandSetDice(d) == /\ Playing /\ Room(1) /\ (ms.fDoubled => "dice" \in Habits)
                     /\ Record(DiceSet(ms.fMove, d)) /\ NotDone
\* The key is stored as if player 0 were on roll.
SetBoard(b) ==
    /\ Playing /\ Room(1) /\ MoreSettings
    /\ ms.fDoubled \/ ms.fResigned # 0 => "board" \in Habits
    /\ Record(BoardSet(ms.fMove, IF ms.fMove = 1 THEN SwapSides(b) ELSE b)) /\ NotDone

\* Moving about.
CommandPrevious ==
    /\ AtPrompt /\ plGame # 0
    /\ Become(GoTo(Here, Max({0, plLastMove - 1}))) /\ UNCHANGED fCrawfordState /\ NotDone

CommandNext ==
    LET game == lMatch[plGame]
        r == game.moves[plLastMove + 1]
        g == FixForNext(game, plLastMove + 1,
                 ApplyMoveRecord([ms |-> FixMatchState(ms, r), info |-> game.info], r))
    IN /\ AtPrompt /\ plGame # 0 /\ plLastMove < Len(game.moves) /\ NoResignation
       /\ Become([lMatch |-> [lMatch EXCEPT ![plGame].info = g.info], plGame |-> plGame,
                  plLastMove |-> plLastMove + 1, ms |-> g.ms])
       /\ UNCHANGED fCrawfordState /\ NotDone

\* CommandNextGame and CommandPreviousGame by any count, CommandFirstMove.
ToGame(g) ==
    /\ AtPrompt /\ plGame # 0 /\ g \in DOMAIN lMatch
    /\ Become(ChangeGame(Here, g)) /\ UNCHANGED fCrawfordState /\ NotDone

\* A game that has ended: the Crawford rule for the next one, and perhaps that
\* game at once (fAutoGame, which may be set at any time).
NextTurn ==
    LET over == GameStatus(ms.anBoard) # 0 \/ ms.gs \in {"GAME_DROP", "GAME_RESIGNED"}
        winner == lMatch[plGame].info.fWinner
        high == ms.anScore[winner]
        low == ms.anScore[Opponent(winner)]
        after == IF ms.nMatchTo = 0 THEN ms
                 ELSE [ms EXCEPT !.fPostCrawford = PostCrawford(ms, high),
                                 !.fCrawford = CrawfordIsNext(ms, high, low)]
        crawford == (IF after.fCrawford THEN 1 ELSE 0) + (IF after.fPostCrawford THEN 2 ELSE 0)
        complete == IF ms.nMatchTo # 0 THEN high >= ms.nMatchTo ELSE ms.cGames >= nSessionLen
    IN /\ fNextTurn /\ NotDone
       /\ IF ~over THEN UNCHANGED <<lMatch, plGame, plLastMove, ms, fCrawfordState>>
          ELSE /\ fCrawfordState' = crawford
               /\ \/ Become([Here EXCEPT !.ms = after])
                  \/ ~complete /\ NewGame([Here EXCEPT !.ms = after], crawford)

Plays == \/ \E d \in Dice : CommandRoll(d)
         \/ \E n \in {0, 1} : CommandMove(n)
         \/ CommandDouble \/ CommandRedouble \/ CommandTake \/ CommandDrop
         \/ \E n \in Resignations : CommandResign(n)
         \/ CommandAgree \/ CommandDecline

Settings == \/ \E n \in SetValues : CommandSetCubeValue(n)
            \/ \E o \in SetOwners : CommandSetCubeOwner(o)
            \/ \E d \in Dice : CommandSetDice(d)
            \/ \E b \in SetBoards : SetBoard(b)

Browsing == CommandPrevious \/ CommandNext \/ \E g \in DOMAIN lMatch : ToGame(g)

Next == \/ \E n \in Lengths : CommandNewMatch(n)
        \/ CommandNewGame \/ Plays \/ Settings \/ Browsing \/ NextTurn

Spec == Init /\ [][Next]_vars

-----------------------------------------------------------------------------
(* Properties. *)

Records ==
    {Normal(p, n) : p \in Players, n \in {0, 1}}
    \cup {Cube(mt, p) : mt \in {"MOVE_DOUBLE", "MOVE_TAKE", "MOVE_DROP"}, p \in Players}
    \cup {Resigns(p, n) : p \in Players, n \in Resignations}
    \cup {BoardSet(p, b) : p \in Players, b \in Board}
    \cup {DiceSet(p, d) : p \in Players, d \in Dice}
    \cup {CubeValue(p, n) : p \in Players, n \in CubeValues}
    \cup {CubePos(p, o) : p \in Players, o \in Nobodies}

Infos == [i : Nat, nMatch : Lengths \cup {0}, anScore : [Players -> Nat], fCrawfordGame : BOOLEAN,
          fWinner : Nobodies, nPoints : Nat, nAutoDoubles : Nat]

States == [anBoard : Board, nMatchTo : Lengths \cup {0}, anScore : [Players -> Nat], cGames : Nat,
           gs : {"GAME_NONE", "GAME_PLAYING", "GAME_OVER", "GAME_RESIGNED", "GAME_DROP"},
           fMove : Nobodies, fTurn : Nobodies, fCubeOwner : Nobodies, anDice : Dice \cup {0},
           cBeavers : 0..nBeavers, fDoubled : BOOLEAN, nCube : CubeValues,
           fCrawford : BOOLEAN, fPostCrawford : BOOLEAN,
           fResigned : Resignations \cup {0}, fResignationDeclined : Resignations \cup {0}]

\* The types of play.c's variables: in particular there is a current record
\* in the current game, and the cube is a power of 2 of at most MAX_CUBE.
TypeOK ==
    /\ \A g \in DOMAIN lMatch : /\ lMatch[g].info \in Infos
                                /\ \A j \in DOMAIN lMatch[g].moves : lMatch[g].moves[j] \in Records
    /\ plGame \in 0..Len(lMatch)
    /\ plLastMove \in 0..(IF plGame = 0 THEN 0 ELSE Len(lMatch[plGame].moves))
    /\ ms \in States /\ fCrawfordState \in -1..3
    /\ fNextTurn \in BOOLEAN

\* The live state at the end of a game is what its records give, as moving away
\* and back (CalculateBoard), or saving and loading, would make it.  Not in a
\* record: an offer to resign, that it was declined, and whose turn it is when
\* the game is resigned; nor, once the game is over, what NextTurn says of the
\* Crawford rule in the next one.
ReplayMatches ==
    LET g == CalculateBoard(lMatch[plGame], plLastMove)
        Recorded(m) == [m EXCEPT !.fResignationDeclined = 0,
                                 !.fTurn = IF m.gs = "GAME_RESIGNED" THEN Nobody ELSE @,
                                 !.fCrawford = m.gs = "GAME_PLAYING" /\ m.fCrawford,
                                 !.fPostCrawford = m.gs = "GAME_PLAYING" /\ m.fPostCrawford]
        unoffered == IF ms.gs = "GAME_PLAYING" /\ ms.fResigned # 0
                     THEN [ms EXCEPT !.fResigned = 0, !.fTurn = Opponent(@)] ELSE ms
    IN plGame # 0 /\ plLastMove = Len(lMatch[plGame].moves)
         => Recorded(unoffered) = Recorded(g.ms) /\ lMatch[plGame].info = g.info

\* Each game starts with the number and the score that the one before it has
\* led to (the asserts of add_moverecord_sanity_check included).
ScoresFollow ==
    \A g \in DOMAIN lMatch :
        LET info == lMatch[g].info
            last == lMatch[g - 1].info
        IN /\ info.nMatch # 0 => \A p \in Players : info.anScore[p] < info.nMatch
           /\ info.nMatch # 0 => info.i <= 2 * info.nMatch + 1
           /\ IF g = 1 THEN info.i = 0 /\ \A p \in Players : info.anScore[p] = 0
              ELSE /\ info.nMatch = last.nMatch /\ info.i = last.i + 1
                   /\ last.fWinner \in Players
                   /\ info.anScore = [last.anScore EXCEPT ![last.fWinner] = @ + last.nPoints]

\* The Crawford game is the first one with a player one point short of the
\* match, and no other (the manual, gnubg.texi 585-612).
CrawfordOnce ==
    LET OneAway(info) == /\ \E p \in Players : info.anScore[p] = info.nMatch - 1
                         /\ \E p \in Players : info.anScore[p] < info.nMatch - 1
    IN \A g \in DOMAIN lMatch :
         lMatch[g].info.fCrawfordGame <=>
           /\ OneAway(lMatch[g].info)
           /\ \A h \in 1..(g - 1) : ~OneAway(lMatch[h].info)

\* No game that counts as the Crawford game has a record about the cube, though
\* the commands test ms.fCrawford, which NextTurn sets for the next game
\* and moving about for another one.
NoCubeInCrawford ==
    \A g \in DOMAIN lMatch :
        lMatch[g].info.fCrawfordGame =>
            \A j \in DOMAIN lMatch[g].moves :
                lMatch[g].moves[j].mt \notin {"MOVE_DOUBLE", "MOVE_TAKE", "MOVE_DROP",
                                              "MOVE_SETCUBEVAL", "MOVE_SETCUBEPOS"}

\* The Crawford rule: one game without doubling, the right one.
CrawfordRule == CrawfordOnce /\ NoCubeInCrawford

\* A double that is offered can be answered: its record is the current one, as
\* LinkToDouble demands, and the player to answer is not the one who offered it
\* last, unless that player is to consider a resignation.
DoubleIsAnswerable ==
    plGame # 0 /\ ms.gs = "GAME_PLAYING" /\ ms.fDoubled =>
        /\ LinkToDouble
        /\ (ms.fTurn # lMatch[plGame].moves[plLastMove].fPlayer) <=> (ms.fResigned = 0)

\* Whatever was undone, cut off or browsed before, replaying a game finds a
\* record about the cube where such a record makes sense: CommandDouble and its
\* like test the live state, CalculateBoard applies the records alone.
GamesAreProper == \A g \in DOMAIN lMatch : IsProper(lMatch[g])
=============================================================================
