------------------------------ MODULE Records ------------------------------
(***************************************************************************)
(* The records of a game and what each does to a match state: play.c,      *)
(* ApplyMoveRecord and FixMatchState.  The commands (Match) and the        *)
(* analysis (Analysis) both apply records, each to a state of its own.     *)
(*                                                                         *)
(* A board is abstracted to what is left to bear off, seen by the player   *)
(* on roll; a move to what it bears off; the dice to a number.             *)
(***************************************************************************)
EXTENDS Integers, Sequences, FiniteSetsExt

CONSTANTS Chequers,       \* chequers of a player
          Dice,           \* what a roll may give; 0 is no roll
          MAX_CUBE,
          fJacoby         \* the setting

ASSUME ChequersAssumption == Chequers \in Nat \ {0} /\ Dice \subseteq Nat \ {0}
ASSUME MaxCubeAssumption == \E k \in 0..15 : MAX_CUBE = 2 ^ k

Players == {0, 1}
Nobody == -1
Opponent(p) == IF p = 0 THEN 1 ELSE 0     \* C's !p, also of -1
Board == [Players -> 0..Chequers]

\* The kinds of records.
Normal(p, n) == [mt |-> "MOVE_NORMAL", fPlayer |-> p, n |-> n]
Cube(mt, p) == [mt |-> mt, fPlayer |-> p]
Resigns(p, n) == [mt |-> "MOVE_RESIGN", fPlayer |-> p, nResigned |-> n]
BoardSet(p, b) == [mt |-> "MOVE_SETBOARD", fPlayer |-> p, key |-> b]
DiceSet(p, d) == [mt |-> "MOVE_SETDICE", fPlayer |-> p, anDice |-> d]
CubeValue(p, n) == [mt |-> "MOVE_SETCUBEVAL", fPlayer |-> p, nCube |-> n]
CubePos(p, o) == [mt |-> "MOVE_SETCUBEPOS", fPlayer |-> p, fCubeOwner |-> o]
Sets == {"MOVE_SETBOARD", "MOVE_SETDICE", "MOVE_SETCUBEVAL", "MOVE_SETCUBEPOS"}
CubeValues == {n \in 1..MAX_CUBE : \E k \in 0..15 : n = 2 ^ k}

Nobodies == Players \cup {Nobody}
MoveRecords ==
         [mt : {"MOVE_NORMAL"}, fPlayer : Players, n : {0, 1}]
    \cup [mt : {"MOVE_DOUBLE", "MOVE_TAKE", "MOVE_DROP"}, fPlayer : Players]
    \cup [mt : {"MOVE_RESIGN"}, fPlayer : Players, nResigned : 1..3]
    \cup [mt : {"MOVE_SETBOARD"}, fPlayer : Players, key : Board]
    \cup [mt : {"MOVE_SETDICE"}, fPlayer : Players, anDice : Dice]
    \cup [mt : {"MOVE_SETCUBEVAL"}, fPlayer : Players, nCube : CubeValues]
    \cup [mt : {"MOVE_SETCUBEPOS"}, fPlayer : Players, fCubeOwner : Nobodies]

\* A MOVE_GAMEINFO, a game, and a match state (xmovegameinfo, matchstate).
GameInfos == [i : Nat, nMatch : Nat, anScore : [Players -> Nat], fCrawfordGame : BOOLEAN,
              fWinner : Nobodies, nPoints : Nat, nAutoDoubles : Nat]
Games == [info : GameInfos, moves : Seq(MoveRecords)]
MatchStates ==
    [anBoard : Board, nMatchTo : Nat, anScore : [Players -> Nat], cGames : Nat,
     gs : {"GAME_NONE", "GAME_PLAYING", "GAME_OVER", "GAME_RESIGNED", "GAME_DROP"},
     fMove : Nobodies, fTurn : Nobodies, fCubeOwner : Nobodies, anDice : Nat, cBeavers : Nat,
     fDoubled : BOOLEAN, nCube : Nat, fCrawford : BOOLEAN, fPostCrawford : BOOLEAN,
     fResigned : Nat, fResignationDeclined : Nat]

-----------------------------------------------------------------------------
(* Records applied to a match state.  A game that ends writes its result   *)
(* into the MOVE_GAMEINFO of the game, so that state and info go together. *)

InitBoard == [s \in Players |-> Chequers]
SwapSides(b) == [s \in Players |-> b[1 - s]]
GameStatus(b) == IF \A s \in Players : b[s] > 0 THEN 0
                 ELSE IF \E s \in Players : b[s] = Chequers THEN 2 ELSE 1

\* MOVE_GAMEINFO.
StartState(info) ==
    LET atOneAway == \E p \in Players : info.anScore[p] = info.nMatch - 1
    IN [anBoard |-> InitBoard, nMatchTo |-> info.nMatch, anScore |-> info.anScore,
        cGames |-> info.i, gs |-> "GAME_NONE", fMove |-> Nobody, fTurn |-> Nobody,
        fCubeOwner |-> Nobody, anDice |-> 0, cBeavers |-> 0, fDoubled |-> FALSE,
        nCube |-> 2 ^ info.nAutoDoubles, fCrawford |-> info.fCrawfordGame,
        fPostCrawford |-> ~info.fCrawfordGame /\ atOneAway,
        fResigned |-> 0, fResignationDeclined |-> 0]

\* ApplyGameOver, and what its callers write into the MOVE_GAMEINFO.
Ended(m, info, gs, winner, points) ==
    [ms |-> [m EXCEPT !.gs = gs, !.anScore[winner] = @ + points, !.cGames = @ + 1],
     info |-> [info EXCEPT !.fWinner = winner, !.nPoints = points]]

ApplyDouble(m, r) ==
    LET mover == IF m.fMove = Nobody THEN r.fPlayer ELSE m.fMove
        doubled == IF m.fDoubled
                   THEN [m EXCEPT !.fMove = mover, !.cBeavers = @ + 1, !.nCube = 2 * @,
                                  !.fCubeOwner = Opponent(mover)]
                   ELSE [m EXCEPT !.fMove = mover, !.fDoubled = TRUE]
    IN IF m.nCube >= MAX_CUBE THEN [m EXCEPT !.fMove = mover]
       ELSE [doubled EXCEPT !.fTurn = Opponent(r.fPlayer)]

ApplyTake(m) ==
    IF ~m.fDoubled THEN m
    ELSE [m EXCEPT !.nCube = 2 * @, !.cBeavers = 0, !.fDoubled = FALSE,
                   !.fCubeOwner = Opponent(m.fMove), !.fTurn = m.fMove]

ApplyDrop(m, info, r) ==
    IF ~m.fDoubled THEN [ms |-> m, info |-> info]
    ELSE Ended([m EXCEPT !.fDoubled = FALSE, !.cBeavers = 0], info,
               "GAME_DROP", Opponent(r.fPlayer), m.nCube)

PlayMove(m, r) ==
    LET b == IF m.fMove # Nobody /\ r.fPlayer # m.fMove THEN SwapSides(m.anBoard) ELSE m.anBoard
    IN [m EXCEPT !.anBoard = SwapSides([b EXCEPT ![1] = Max({0, @ - r.n})]),
                 !.fMove = Opponent(r.fPlayer), !.fTurn = Opponent(r.fPlayer)]

\* Gammons do not count with a centred cube under the Jacoby rule.
ApplyNormal(m, info, r) ==
    LET played == [PlayMove([m EXCEPT !.fDoubled = FALSE], r) EXCEPT !.anDice = 0]
        n == GameStatus(played.anBoard)
        counts == IF fJacoby /\ m.fCubeOwner = Nobody /\ m.nMatchTo = 0 THEN 1 ELSE n
    IN IF n = 0 THEN [ms |-> played, info |-> info]
       ELSE Ended(played, info, "GAME_OVER", r.fPlayer, m.nCube * counts)

ApplyResign(m, info, r) ==
    Ended([m EXCEPT !.fResigned = r.nResigned], info,
          "GAME_RESIGNED", Opponent(r.fPlayer), m.nCube * r.nResigned)

ApplySetBoard(m, r) ==
    LET mover == IF m.fMove = Nobody THEN 0 ELSE m.fMove
    IN [m EXCEPT !.fMove = mover, !.fTurn = IF m.fMove = Nobody THEN 0 ELSE @,
                 !.anBoard = IF mover = 1 THEN SwapSides(r.key) ELSE r.key]

ApplySetDice(m, r) ==
    [m EXCEPT !.anDice = r.anDice, !.fDoubled = FALSE, !.fTurn = r.fPlayer, !.fMove = r.fPlayer,
              !.anBoard = IF m.fMove # r.fPlayer THEN SwapSides(@) ELSE @]

MutSettingKeepsDouble(m, value, owner) == [m EXCEPT !.nCube = value, !.fCubeOwner = owner]
ApplySetCube(m, value, owner) ==
    LET mover == IF m.fMove = Nobody THEN 0 ELSE m.fMove
    IN [m EXCEPT !.fMove = mover, !.fTurn = mover, !.fDoubled = FALSE,
                 !.nCube = value, !.fCubeOwner = owner]

ApplyMoveRecord(g, r) ==
    LET m == [g.ms EXCEPT !.gs = "GAME_PLAYING", !.fResigned = 0, !.fResignationDeclined = 0]
        Only(state) == [ms |-> state, info |-> g.info]
    IN CASE r.mt = "MOVE_DOUBLE"     -> Only(ApplyDouble(m, r))
         [] r.mt = "MOVE_TAKE"       -> Only(ApplyTake(m))
         [] r.mt = "MOVE_DROP"       -> ApplyDrop(m, g.info, r)
         [] r.mt = "MOVE_NORMAL"     -> ApplyNormal(m, g.info, r)
         [] r.mt = "MOVE_RESIGN"     -> ApplyResign(m, g.info, r)
         [] r.mt = "MOVE_SETBOARD"   -> Only(ApplySetBoard(m, r))
         [] r.mt = "MOVE_SETDICE"    -> Only(ApplySetDice(m, r))
         [] r.mt = "MOVE_SETCUBEVAL" -> Only(ApplySetCube(m, r.nCube, m.fCubeOwner))
         [] r.mt = "MOVE_SETCUBEPOS" -> Only(ApplySetCube(m, m.nCube, r.fCubeOwner))

\* A record of the player whose turn it is not: one before it is missing.
FixMatchState(m, r) ==
    IF r.mt \in {"MOVE_NORMAL", "MOVE_DOUBLE"} /\ m.fTurn # r.fPlayer
    THEN [m EXCEPT !.anBoard = SwapSides(@), !.fMove = r.fPlayer, !.fTurn = r.fPlayer]
    ELSE m

FixForNext(game, k, g) ==
    IF k < Len(game.moves) THEN [g EXCEPT !.ms = FixMatchState(@, game.moves[k + 1])] ELSE g

\* The records of a game applied from its start up to number k.
CalculateBoard(game, k) ==
    LET upTo[j \in 0..k] ==
            FixForNext(game, j,
                IF j = 0 THEN [ms |-> StartState(game.info), info |-> game.info]
                ELSE ApplyMoveRecord(upTo[j - 1], game.moves[j]))
    IN upTo[k]

\* What the commands of play.c see to when they add a record about the cube: a
\* player who doubles is on roll and may use the cube, or redoubles in answer to
\* a double, and only what has just been doubled is taken or dropped.
IsProper(game) ==
    \A k \in DOMAIN game.moves :
        LET m == CalculateBoard(game, k - 1).ms
            r == game.moves[k]
            doubled == k > 1 /\ game.moves[k - 1].mt = "MOVE_DOUBLE"
        IN /\ r.mt = "MOVE_DOUBLE" =>
                /\ m.nCube < MAX_CUBE
                /\ doubled \/ (~m.fDoubled /\ m.fMove = r.fPlayer /\ m.fCubeOwner \in {Nobody, m.fMove})
           /\ r.mt \in {"MOVE_TAKE", "MOVE_DROP"} => doubled
=============================================================================
