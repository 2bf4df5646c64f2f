---------------------------- MODULE MatchProofs ----------------------------
(***************************************************************************)
(* Theorems about Match, for matches of every length with any number of    *)
(* games and records: that going back and forth gives the live state, that *)
(* a double can be answered, that scores follow, and the Crawford rule.    *)
(* The user has none of the Habits, except to restart.                     *)
(***************************************************************************)
EXTENDS Match, RecordsProofs, SequenceTheorems

-----------------------------------------------------------------------------
(* What the records of a game are, and the states they lead to.            *)

CubeKinds == {"MOVE_DOUBLE", "MOVE_TAKE", "MOVE_DROP", "MOVE_SETCUBEVAL", "MOVE_SETCUBEPOS"}
OverKinds == {"GAME_OVER", "GAME_RESIGNED", "GAME_DROP"}

\* The start of a game, with player p on roll.
Opened(info, p) == [StartState(info) EXCEPT !.gs = "GAME_PLAYING", !.fMove = p, !.fTurn = p]

Applied(t, info, r) == ApplyMoveRecord([ms |-> t, info |-> info], r)

\* The states of a game: at its start, and after each record.
Trace(game) ==
    [k \in 0..Len(game.moves) |->
        IF k = 0 THEN Opened(game.info, game.moves[1].fPlayer) ELSE CalculateBoard(game, k).ms]

\* The player on roll may use the cube; a match does not let it grow beyond
\* MAXSCORE, which play.c has below MAX_CUBE.
MayDouble(t) == t.fCubeOwner \in {Nobody, t.fMove} /\ (MAXSCORE <= MAX_CUBE => t.nCube < MAX_CUBE)

\* What the commands ask of a state before they add a record.
Legal(t, r) ==
    /\ r \in Records
    /\ r.mt = "MOVE_NORMAL" => ~t.fDoubled /\ r.fPlayer = t.fTurn
    /\ r.mt = "MOVE_DOUBLE" => /\ r.fPlayer = t.fTurn
                               /\ t.fDoubled => t.cBeavers < nBeavers /\ 2 * t.nCube < MAX_CUBE
                               /\ ~t.fDoubled => MayDouble(t)
    /\ r.mt \in {"MOVE_TAKE", "MOVE_DROP"} => t.fDoubled
    /\ r.mt \in Sets => r.fPlayer = t.fMove
    /\ r.mt \in {"MOVE_SETDICE", "MOVE_SETBOARD"} => ~t.fDoubled
    /\ r.mt = "MOVE_SETBOARD" => GameStatus(r.key) = 0
    /\ r.mt \in CubeKinds => ~t.fCrawford

\* What is not changed by the records of a game before its last.
SameMatch(t, info) ==
    LET start == StartState(info)
    IN t.nMatchTo = start.nMatchTo /\ t.fCrawford = start.fCrawford /\ t.fPostCrawford = start.fPostCrawford

\* A game that is being played.
InPlay(t, info) ==
    /\ t.gs = "GAME_PLAYING" /\ t.anScore = info.anScore /\ t.cGames = info.i
    /\ t.fMove \in Players /\ t.fTurn \in Players /\ (~t.fDoubled => t.fTurn = t.fMove)
    /\ GameStatus(t.anBoard) = 0 /\ t.fResigned = 0 /\ t.fResignationDeclined = 0
    /\ t.fDoubled => t.nCube < MAX_CUBE /\ ~t.fCrawford

\* A game that has ended, and its MOVE_GAMEINFO.
IsOver(t, info) ==
    /\ t.gs \in OverKinds /\ t.cGames = info.i + 1 /\ t.fTurn \in Players /\ t.fResignationDeclined = 0
    /\ info.fWinner \in Players /\ info.nPoints > 0
    /\ t.anScore = [info.anScore EXCEPT ![info.fWinner] = @ + info.nPoints]
    /\ t.gs = "GAME_OVER" => GameStatus(t.anBoard) # 0

\* After record r; info is what it leaves in the MOVE_GAMEINFO.
After(t, info, r) ==
    /\ t \in States /\ SameMatch(t, info)
    /\ InPlay(t, info) \/ IsOver(t, info)
    /\ InPlay(t, info) /\ t.fDoubled => r.mt = "MOVE_DOUBLE" /\ t.fTurn = Opponent(r.fPlayer)

\* The states of a game lead from one to the next, and its MOVE_GAMEINFO is
\* what the last record leaves.
Run(f, game) ==
    LET last == Len(game.moves)
    IN /\ f[0] = Opened(game.info, game.moves[1].fPlayer)
       /\ \A k \in 0..(last - 1) :
            LET g == Applied(f[k], game.info, game.moves[k + 1])
            IN /\ InPlay(f[k], game.info) /\ Legal(f[k], game.moves[k + 1])
               /\ f[k + 1] = g.ms /\ g.info = game.info /\ After(g.ms, g.info, game.moves[k + 1])

GoodInfo(info) == 2 ^ info.nAutoDoubles \in CubeValues

MatchGames == [info : Infos, moves : Seq(Records)]

Good(game) ==
    /\ game \in MatchGames /\ GoodInfo(game.info) /\ game.moves # <<>>
    /\ game.moves[1].mt \in {"MOVE_SETDICE", "MOVE_NORMAL"}
    /\ Run(Trace(game), game)

Final(game) == Trace(game)[Len(game.moves)]
Finished(game) == Final(game).gs # "GAME_PLAYING"

-----------------------------------------------------------------------------
(* The games of a match.                                                   *)

OneAway(info) == /\ \E p \in Players : info.anScore[p] = info.nMatch - 1
                 /\ \E p \in Players : info.anScore[p] < info.nMatch - 1
OneAwayBefore(games, g) == \E h \in 1..(g - 1) : OneAway(games[h].info)

\* Numbers and scores.
InMatch(info) == /\ info.nMatch # 0 => /\ \A p \in Players : info.anScore[p] < info.nMatch
                                       /\ info.i <= info.anScore[0] + info.anScore[1]
FirstGame(info) == info.i = 0 /\ \A p \in Players : info.anScore[p] = 0
NextGame(info, last) ==
    /\ info.nMatch = last.nMatch /\ info.i = last.i + 1 /\ last.fWinner \in Players
    /\ info.anScore = [last.anScore EXCEPT ![last.fWinner] = @ + last.nPoints]

\* The Crawford game, and that a state knows of it afterwards.
Crawford(games, g) ==
    LET info == games[g].info
    IN /\ info.fCrawfordGame <=> OneAway(info) /\ ~OneAwayBefore(games, g)
       /\ info.nMatch # 1 => ((OneAway(info) \/ OneAwayBefore(games, g))
                               <=> (info.fCrawfordGame \/ StartState(info).fPostCrawford))

Chronicle(games) ==
    /\ games \in Seq(MatchGames)
    /\ \A g \in DOMAIN games :
         /\ Good(games[g]) /\ InMatch(games[g].info)
         /\ IF g = 1 THEN FirstGame(games[g].info) ELSE NextGame(games[g].info, games[g - 1].info)
         /\ g # Len(games) => Finished(games[g])
         /\ Crawford(games, g)

-----------------------------------------------------------------------------
(* The live state.                                                         *)

\* It is that of the records, but for an offer to resign, and for what follows
\* the end of a game.
Agrees(m, t) ==
    /\ m.gs = t.gs
    /\ m = [t EXCEPT !.fResigned = m.fResigned, !.fResignationDeclined = m.fResignationDeclined,
                     !.fTurn = m.fTurn, !.fCrawford = m.fCrawford, !.fPostCrawford = m.fPostCrawford]
    /\ {m.fResigned, m.fResignationDeclined} \subseteq Resignations \cup {0}
    /\ {m.fCrawford, m.fPostCrawford} \subseteq BOOLEAN /\ m.fTurn \in Players
    /\ m.gs = "GAME_PLAYING" => /\ m.fCrawford = t.fCrawford /\ m.fPostCrawford = t.fPostCrawford
                                /\ m.fTurn = IF m.fResigned = 0 THEN t.fTurn ELSE Opponent(t.fTurn)
    /\ m.gs # "GAME_PLAYING" => /\ m.fResigned = t.fResigned /\ m.fResignationDeclined = 0
                                /\ m.gs # "GAME_RESIGNED" => m.fTurn = t.fTurn

\* At the start of a game, where the player of its first record may be on roll.
AtStart(m, game) ==
    LET start == StartState(game.info)
        p == game.moves[1].fPlayer
    IN m \in {start, [start EXCEPT !.fMove = p, !.fTurn = p]}

Live(s) ==
    /\ s.plGame \in DOMAIN s.lMatch
    /\ s.plLastMove \in 0..Len(s.lMatch[s.plGame].moves)
    /\ IF s.plLastMove = 0 THEN AtStart(s.ms, s.lMatch[s.plGame])
       ELSE Agrees(s.ms, Trace(s.lMatch[s.plGame])[s.plLastMove])

Sound(s) == Chronicle(s.lMatch) /\ Live(s)

\* Whether the game after one that has ended is the Crawford game.
CrawfordNext(info) ==
    LET score == [info.anScore EXCEPT ![info.fWinner] = @ + info.nPoints]
    IN /\ ~info.fCrawfordGame /\ ~StartState(info).fPostCrawford
       /\ score[info.fWinner] = info.nMatch - 1 /\ score[Opponent(info.fWinner)] < info.nMatch - 1

\* NextTurn is due for a game that has ended.
Due(s, next) == next /\ s.ms.gs # "GAME_PLAYING"
Ending(s, next) ==
    Due(s, next) => /\ s.plGame = Len(s.lMatch) /\ s.plLastMove = Len(s.lMatch[s.plGame].moves)
                    /\ SameMatch(s.ms, s.lMatch[s.plGame].info)

\* fCrawfordState is that of the last game, once NextTurn has seen it end.
Told(s, crawford, next) ==
    LET last == Last(s.lMatch)
    IN Finished(last) /\ ~Due(s, next) =>
          crawford \in 0..3 /\ (crawford % 2 = 1 <=> CrawfordNext(last.info))

\* Before the first match.
Before(s, crawford, next) ==
    /\ s.lMatch = <<>> /\ s.plGame = 0 /\ s.plLastMove = 0 /\ s.ms.gs = "GAME_NONE"
    /\ s.ms \in States /\ s.ms.nMatchTo = 0 /\ s.ms.cGames = 0 /\ (\A p \in Players : s.ms.anScore[p] = 0)
    /\ crawford = -1 /\ ~next

Consistent(s, crawford, next) ==
    /\ next \in BOOLEAN /\ crawford \in -1..3
    /\ \/ Before(s, crawford, next)
       \/ Sound(s) /\ Told(s, crawford, next) /\ Ending(s, next) /\ (next => s.plLastMove > 0)

Invariant == Consistent(Here, fCrawfordState, fNextTurn)


-----------------------------------------------------------------------------
(* Types.                                                                  *)

\* A power of two counts the subsets of an interval, so that powers increase.
LEMMA Subsets ==
  ASSUME NEW n \in Nat
  PROVE  IsFiniteSet(SUBSET (1..n)) /\ Cardinality(SUBSET (1..n)) = 2 ^ n
<1>1. IsFiniteSet(1..n) /\ Cardinality(1..n) = n
  BY FS_Interval
<1> QED BY <1>1, FS_SUBSET

\* Higher powers of two are larger.
LEMMA Increasing ==
  ASSUME NEW m \in Nat, NEW n \in Nat, m <= n
  PROVE  2 ^ m <= 2 ^ n /\ 2 ^ m > 0
<1>1. SUBSET (1..m) \subseteq SUBSET (1..n) /\ SUBSET (1..m) # {}
  <2>1. 1..m \subseteq 1..n
    OBVIOUS
  <2>2. {} \in SUBSET (1..m)
    OBVIOUS
  <2> QED BY <2>1, <2>2, Zenon
<1>2. /\ IsFiniteSet(SUBSET (1..m)) /\ Cardinality(SUBSET (1..m)) = 2 ^ m
      /\ IsFiniteSet(SUBSET (1..n)) /\ Cardinality(SUBSET (1..n)) = 2 ^ n
  BY Subsets
<1>3. 2 ^ m <= 2 ^ n
  BY <1>1, <1>2, FS_Subset
<1>4. 2 ^ m \in Nat /\ 2 ^ m # 0
  <2> DEFINE S == SUBSET (1..m)
  <2>1. IsFiniteSet(S) /\ Cardinality(S) = 2 ^ m /\ S # {}
    BY <1>1, <1>2
  <2> HIDE DEF S
  <2> QED BY <2>1, FS_EmptySet, FS_CardinalityType
<1> QED BY <1>3, <1>4

\* The values of a cube, up to 2^15.
LEMMA Cubes ==
  /\ MAX_CUBE \in CubeValues /\ 1 \in CubeValues /\ CubeValues \subseteq Nat \ {0}
  /\ \A n \in CubeValues : n <= MAX_CUBE /\ (n < MAX_CUBE => 2 * n \in CubeValues)
<1> DEFINE Powers == {1, 2, 4, 8, 16, 32, 64, 128, 256, 512, 1024, 2048, 4096, 8192, 16384, 32768}
<1>1. /\ 2 ^ 0 = 1 /\ 2 ^ 1 = 2 /\ 2 ^ 2 = 4 /\ 2 ^ 3 = 8 /\ 2 ^ 4 = 16 /\ 2 ^ 5 = 32
      /\ 2 ^ 6 = 64 /\ 2 ^ 7 = 128 /\ 2 ^ 8 = 256 /\ 2 ^ 9 = 512 /\ 2 ^ 10 = 1024
      /\ 2 ^ 11 = 2048 /\ 2 ^ 12 = 4096 /\ 2 ^ 13 = 8192 /\ 2 ^ 14 = 16384 /\ 2 ^ 15 = 32768
  OBVIOUS
<1>2. \A n : (\E k \in 0..15 : n = 2 ^ k) <=> n \in Powers
  <2>1. ASSUME NEW n, NEW k \in 0..15, n = 2 ^ k PROVE n \in Powers
    <3>1. k = 0 => n \in Powers
      BY <1>1, <2>1
    <3>2. k = 1 => n \in Powers
      BY <1>1, <2>1
    <3>3. k = 2 => n \in Powers
      BY <1>1, <2>1
    <3>4. k = 3 => n \in Powers
      BY <1>1, <2>1
    <3>5. k = 4 => n \in Powers
      BY <1>1, <2>1
    <3>6. k = 5 => n \in Powers
      BY <1>1, <2>1
    <3>7. k = 6 => n \in Powers
      BY <1>1, <2>1
    <3>8. k = 7 => n \in Powers
      BY <1>1, <2>1
    <3>9. k = 8 => n \in Powers
      BY <1>1, <2>1
    <3>10. k = 9 => n \in Powers
      BY <1>1, <2>1
    <3>11. k = 10 => n \in Powers
      BY <1>1, <2>1
    <3>12. k = 11 => n \in Powers
      BY <1>1, <2>1
    <3>13. k = 12 => n \in Powers
      BY <1>1, <2>1
    <3>14. k = 13 => n \in Powers
      BY <1>1, <2>1
    <3>15. k = 14 => n \in Powers
      BY <1>1, <2>1
    <3>16. k = 15 => n \in Powers
      BY <1>1, <2>1
    <3>17. k = 0 \/ k = 1 \/ k = 2 \/ k = 3 \/ k = 4 \/ k = 5 \/ k = 6 \/ k = 7
           \/ k = 8 \/ k = 9 \/ k = 10 \/ k = 11 \/ k = 12 \/ k = 13 \/ k = 14 \/ k = 15
      BY <2>1
    <3> QED BY <3>1, <3>2, <3>3, <3>4, <3>5, <3>6, <3>7, <3>8, <3>9,
               <3>10, <3>11, <3>12, <3>13, <3>14, <3>15, <3>16, <3>17
  <2>2. ASSUME NEW n \in Powers PROVE \E k \in 0..15 : n = 2 ^ k
    BY <1>1
  <2> QED BY <2>1, <2>2
<1>3. CubeValues = {n \in 1..MAX_CUBE : n \in Powers} /\ MAX_CUBE \in Powers
  <2> HIDE DEF Powers
  <2> QED BY <1>2, MaxCubeAssumption DEF CubeValues
<1>4. \A n \in Powers : n \in Nat /\ n > 0
  OBVIOUS
<1>5. \A m, n \in Powers : n < m => 2 * n \in Powers /\ 2 * n <= m
  OBVIOUS
<1> HIDE DEF Powers
<1>6. MAX_CUBE \in Nat /\ MAX_CUBE > 0
  BY <1>3, <1>4
<1>7. 1 \in CubeValues
  BY <1>3, <1>6 DEF Powers
<1>8. \A n \in CubeValues : n \in 1..MAX_CUBE /\ n \in Powers
  BY <1>3
<1>9. ASSUME NEW n \in CubeValues, n < MAX_CUBE PROVE 2 * n \in CubeValues
  <2>1. 2 * n \in Powers /\ 2 * n <= MAX_CUBE
    BY <1>3, <1>5, <1>8, <1>9
  <2> QED BY <1>3, <1>4, <1>6, <2>1
<1> QED BY <1>3, <1>6, <1>7, <1>8, <1>9

\* A power of two that is no larger than MAX_CUBE is the value of a cube.
LEMMA SmallPowers ==
  ASSUME NEW n \in Nat, 2 ^ n <= MAX_CUBE
  PROVE  2 ^ n \in CubeValues
<1>1. 2 ^ n \in Nat /\ MAX_CUBE \in Nat
  BY PowersOfTwo, Cubes
<1>2. PICK k \in 0..15 : MAX_CUBE = 2 ^ k
  BY MaxCubeAssumption
<1>3. n <= 15
  <2>1. SUFFICES ASSUME n >= 16 PROVE FALSE
    OBVIOUS
  <2>2. 2 ^ 16 <= 2 ^ n /\ 2 ^ k <= 2 ^ 15
    <3>1. 15 \in Nat /\ 16 \in Nat /\ k \in Nat /\ k <= 15 /\ 16 <= n
      BY <1>2, <2>1
    <3> QED BY <3>1, Increasing
  <2>3. 2 ^ 16 = 65536 /\ 2 ^ 15 = 32768
    OBVIOUS
  <2> QED BY <1>1, <1>2, <2>2, <2>3
<1>4. 2 ^ n > 0 /\ n \in 0..15
  BY <1>3, Increasing
<1>5. 2 ^ n \in 1..MAX_CUBE
  BY <1>1, <1>4
<1> QED BY <1>4, <1>5 DEF CubeValues

\* The types of Match are types of Records.
LEMMA MatchTypes ==
  /\ Infos \subseteq GameInfos /\ Records \subseteq MoveRecords /\ States \subseteq MatchStates
  /\ \A r \in Records : /\ r.fPlayer \in Players
                        /\ r.mt = "MOVE_RESIGN" => r.nResigned \in Resignations
<1>1. Infos \subseteq GameInfos
  <2>1. Lengths \cup {0} \subseteq Nat
    BY LengthsAssumption
  <2> QED BY <2>1 DEF Infos, GameInfos
<1>2. /\ \A p \in Players, n \in {0, 1} : Normal(p, n) \in MoveRecords
      /\ \A p \in Players, mt \in {"MOVE_DOUBLE", "MOVE_TAKE", "MOVE_DROP"} : Cube(mt, p) \in MoveRecords
      /\ \A p \in Players, n \in Resignations : Resigns(p, n) \in MoveRecords
  BY ResignationsAssumption DEF MoveRecords, Normal, Cube, Resigns
<1>3. /\ \A p \in Players, b \in Board : BoardSet(p, b) \in MoveRecords
      /\ \A p \in Players, d \in Dice : DiceSet(p, d) \in MoveRecords
      /\ \A p \in Players, n \in CubeValues : CubeValue(p, n) \in MoveRecords
      /\ \A p \in Players, o \in Nobodies : CubePos(p, o) \in MoveRecords
  BY DEF MoveRecords, BoardSet, DiceSet, CubeValue, CubePos
<1>4. ASSUME NEW r \in Records
      PROVE  r \in MoveRecords /\ (r.mt = "MOVE_RESIGN" => r.nResigned \in Resignations)
  <2>1. ASSUME NEW p \in Players, NEW n \in {0, 1}, r = Normal(p, n)
        PROVE  r \in MoveRecords /\ r.mt # "MOVE_RESIGN"
    BY <1>2, <2>1 DEF Normal
  <2>2. ASSUME NEW p \in Players, NEW mt \in {"MOVE_DOUBLE", "MOVE_TAKE", "MOVE_DROP"}, r = Cube(mt, p)
        PROVE  r \in MoveRecords /\ r.mt # "MOVE_RESIGN"
    BY <1>2, <2>2 DEF Cube
  <2>3. ASSUME NEW p \in Players, NEW n \in Resignations, r = Resigns(p, n)
        PROVE  r \in MoveRecords /\ r.nResigned \in Resignations
    BY <1>2, <2>3 DEF Resigns
  <2>4. ASSUME NEW p \in Players, NEW b \in Board, r = BoardSet(p, b)
        PROVE  r \in MoveRecords /\ r.mt # "MOVE_RESIGN"
    BY <1>3, <2>4 DEF BoardSet
  <2>5. ASSUME NEW p \in Players, NEW d \in Dice, r = DiceSet(p, d)
        PROVE  r \in MoveRecords /\ r.mt # "MOVE_RESIGN"
    BY <1>3, <2>5 DEF DiceSet
  <2>6. ASSUME NEW p \in Players, NEW n \in CubeValues, r = CubeValue(p, n)
        PROVE  r \in MoveRecords /\ r.mt # "MOVE_RESIGN"
    BY <1>3, <2>6 DEF CubeValue
  <2>7. ASSUME NEW p \in Players, NEW o \in Nobodies, r = CubePos(p, o)
        PROVE  r \in MoveRecords /\ r.mt # "MOVE_RESIGN"
    BY <1>3, <2>7 DEF CubePos
  <2>8. \/ \E p \in Players, n \in {0, 1} : r = Normal(p, n)
        \/ \E p \in Players, mt \in {"MOVE_DOUBLE", "MOVE_TAKE", "MOVE_DROP"} : r = Cube(mt, p)
        \/ \E p \in Players, n \in Resignations : r = Resigns(p, n)
        \/ \E p \in Players, b \in Board : r = BoardSet(p, b)
        \/ \E p \in Players, d \in Dice : r = DiceSet(p, d)
        \/ \E p \in Players, n \in CubeValues : r = CubeValue(p, n)
        \/ \E p \in Players, o \in Nobodies : r = CubePos(p, o)
    BY DEF Records
  <2> QED BY <2>1, <2>2, <2>3, <2>4, <2>5, <2>6, <2>7, <2>8
<1>5. \A r \in MoveRecords : r.fPlayer \in Players
  BY DEF MoveRecords
<1>7. States \subseteq MatchStates
  <2>1. /\ Lengths \cup {0} \subseteq Nat /\ Dice \cup {0} \subseteq Nat /\ 0..nBeavers \subseteq Nat
        /\ CubeValues \subseteq Nat /\ Resignations \cup {0} \subseteq Nat
    BY LengthsAssumption, ChequersAssumption, CubeAssumption, Cubes, ResignationsAssumption
  <2> QED BY <2>1 DEF States, MatchStates
<1> QED BY <1>1, <1>4, <1>5, <1>7

-----------------------------------------------------------------------------
(* What each record does to the state of a game in play.                   *)

\* Types and terms by name, so that a lemma applies wherever the name is.
Flags == BOOLEAN
Beavers == 0..nBeavers
Rolls == Dice \cup {0}
None == 0
OneBeaverMore(t) == t.cBeavers + 1
TwiceTheCube(t) == 2 * t.nCube

\* A state that differs from t in what records change.
With(t, board, mover, turn, owner, dice, beavers, doubled, cube) ==
    [t EXCEPT !.anBoard = board, !.fMove = mover, !.fTurn = turn, !.fCubeOwner = owner,
              !.anDice = dice, !.cBeavers = beavers, !.fDoubled = doubled, !.nCube = cube]

\* ApplyMoveRecord starts with a state of this kind.
LEMMA AlreadyPlaying ==
  ASSUME NEW t \in MatchStates, t.gs = "GAME_PLAYING", t.fResigned = 0, t.fResignationDeclined = 0
  PROVE  [t EXCEPT !.gs = "GAME_PLAYING", !.fResigned = 0, !.fResignationDeclined = 0] = t
BY DEF MatchStates

\* Each kind of record in turn.
LEMMA Effects ==
  ASSUME NEW t \in MatchStates, t.gs = "GAME_PLAYING", t.fResigned = 0, t.fResignationDeclined = 0,
         NEW info, NEW r
  PROVE  /\ r.mt = "MOVE_DOUBLE" => Applied(t, info, r) = [ms |-> ApplyDouble(t, r), info |-> info]
         /\ r.mt = "MOVE_TAKE" => Applied(t, info, r) = [ms |-> ApplyTake(t), info |-> info]
         /\ r.mt = "MOVE_DROP" => Applied(t, info, r) = ApplyDrop(t, info, r)
         /\ r.mt = "MOVE_NORMAL" => Applied(t, info, r) = ApplyNormal(t, info, r)
         /\ r.mt = "MOVE_RESIGN" => Applied(t, info, r) = ApplyResign(t, info, r)
         /\ r.mt = "MOVE_SETBOARD" => Applied(t, info, r) = [ms |-> ApplySetBoard(t, r), info |-> info]
         /\ r.mt = "MOVE_SETDICE" => Applied(t, info, r) = [ms |-> ApplySetDice(t, r), info |-> info]
         /\ r.mt = "MOVE_SETCUBEVAL" =>
              Applied(t, info, r) = [ms |-> ApplySetCube(t, r.nCube, t.fCubeOwner), info |-> info]
         /\ r.mt = "MOVE_SETCUBEPOS" =>
              Applied(t, info, r) = [ms |-> ApplySetCube(t, t.nCube, r.fCubeOwner), info |-> info]
<1> DEFINE m == [t EXCEPT !.gs = "GAME_PLAYING", !.fResigned = 0, !.fResignationDeclined = 0]
<1>1. m = t
  BY AlreadyPlaying
<1> HIDE DEF m
<1>2. Applied(t, info, r) =
        CASE r.mt = "MOVE_DOUBLE"     -> [ms |-> ApplyDouble(m, r), info |-> info]
          [] r.mt = "MOVE_TAKE"       -> [ms |-> ApplyTake(m), info |-> info]
          [] r.mt = "MOVE_DROP"       -> ApplyDrop(m, info, r)
          [] r.mt = "MOVE_NORMAL"     -> ApplyNormal(m, info, r)
          [] r.mt = "MOVE_RESIGN"     -> ApplyResign(m, info, r)
          [] r.mt = "MOVE_SETBOARD"   -> [ms |-> ApplySetBoard(m, r), info |-> info]
          [] r.mt = "MOVE_SETDICE"    -> [ms |-> ApplySetDice(m, r), info |-> info]
          [] r.mt = "MOVE_SETCUBEVAL" -> [ms |-> ApplySetCube(m, r.nCube, m.fCubeOwner), info |-> info]
          [] r.mt = "MOVE_SETCUBEPOS" -> [ms |-> ApplySetCube(m, m.nCube, r.fCubeOwner), info |-> info]
  BY DEF Applied, ApplyMoveRecord, m
<1> QED BY <1>1, <1>2

\* The kinds there are.
LEMMA Kinds ==
  ASSUME NEW r \in Records
  PROVE  r.mt \in {"MOVE_NORMAL", "MOVE_DOUBLE", "MOVE_TAKE", "MOVE_DROP", "MOVE_RESIGN", "MOVE_SETBOARD",
                   "MOVE_SETDICE", "MOVE_SETCUBEVAL", "MOVE_SETCUBEPOS"}
BY MatchTypes DEF MoveRecords

\* The doubled cube: at its limit,
LEMMA DoubleAtLimit ==
  ASSUME NEW t \in MatchStates, t.fMove \in Players, NEW r, t.nCube >= MAX_CUBE
  PROVE  ApplyDouble(t, r) = t
<1>1. t.fMove # Nobody
  BY DEF Players, Nobody
<1>2. [t EXCEPT !.fMove = t.fMove] = t
  BY DEF MatchStates
<1> QED BY <1>1, <1>2 DEF ApplyDouble

\* doubled again,
LEMMA RedoubleWith ==
  ASSUME NEW t \in MatchStates, t.fMove \in Players, NEW r, ~(t.nCube >= MAX_CUBE), t.fDoubled
  PROVE  ApplyDouble(t, r) = With(t, t.anBoard, t.fMove, Opponent(r.fPlayer), Opponent(t.fMove), t.anDice,
                                  OneBeaverMore(t), t.fDoubled, TwiceTheCube(t))
<1>1. t.fMove # Nobody
  BY DEF Players, Nobody
<1>2. ApplyDouble(t, r) = [t EXCEPT !.fMove = t.fMove, !.cBeavers = @ + 1, !.nCube = 2 * @,
                                    !.fCubeOwner = Opponent(t.fMove), !.fTurn = Opponent(r.fPlayer)]
  BY <1>1 DEF ApplyDouble, MatchStates
<1>3. ApplyDouble(t, r) = [t EXCEPT !.fMove = t.fMove, !.cBeavers = OneBeaverMore(t), !.nCube = TwiceTheCube(t),
                                    !.fCubeOwner = Opponent(t.fMove), !.fTurn = Opponent(r.fPlayer)]
  BY <1>2 DEF OneBeaverMore, TwiceTheCube
<1> QED BY <1>3, ZenonT(60) DEF With, MatchStates

\* and doubled for the first time.
LEMMA DoubleWith ==
  ASSUME NEW t \in MatchStates, t.fMove \in Players, NEW r, ~(t.nCube >= MAX_CUBE), ~t.fDoubled,
         NEW yes \in Flags, yes = TRUE
  PROVE  ApplyDouble(t, r) = With(t, t.anBoard, t.fMove, Opponent(r.fPlayer), t.fCubeOwner, t.anDice,
                                  t.cBeavers, yes, t.nCube)
<1>1. t.fMove # Nobody
  BY DEF Players, Nobody
<1>2. ApplyDouble(t, r) = [t EXCEPT !.fMove = t.fMove, !.fDoubled = TRUE, !.fTurn = Opponent(r.fPlayer)]
  BY <1>1 DEF ApplyDouble, MatchStates
<1>3. ApplyDouble(t, r) = [t EXCEPT !.fMove = t.fMove, !.fDoubled = yes, !.fTurn = Opponent(r.fPlayer)]
  BY <1>2
<1> QED BY <1>3 DEF With, MatchStates

\* The double that is taken.
LEMMA TakeWith ==
  ASSUME NEW t \in MatchStates, t.fDoubled, NEW no \in Flags, no = FALSE
  PROVE  ApplyTake(t) = With(t, t.anBoard, t.fMove, t.fMove, Opponent(t.fMove), t.anDice, None, no, TwiceTheCube(t))
<1>1. ApplyTake(t) = [t EXCEPT !.nCube = 2 * @, !.cBeavers = 0, !.fDoubled = FALSE,
                               !.fCubeOwner = Opponent(t.fMove), !.fTurn = t.fMove]
  BY DEF ApplyTake
<1>2. ApplyTake(t) = [t EXCEPT !.nCube = TwiceTheCube(t), !.cBeavers = None, !.fDoubled = no,
                               !.fCubeOwner = Opponent(t.fMove), !.fTurn = t.fMove]
  BY <1>1 DEF TwiceTheCube, None
<1> QED BY <1>2 DEF With, MatchStates

\* The settings.
LEMMA SetCubeWith ==
  ASSUME NEW t \in MatchStates, t.fMove \in Players, NEW value, NEW owner, NEW no \in Flags, no = FALSE
  PROVE  ApplySetCube(t, value, owner) =
           With(t, t.anBoard, t.fMove, t.fMove, owner, t.anDice, t.cBeavers, no, value)
<1>1. t.fMove # Nobody
  BY DEF Players, Nobody
<1>2. ApplySetCube(t, value, owner) =
        [t EXCEPT !.fMove = t.fMove, !.fTurn = t.fMove, !.fDoubled = FALSE, !.nCube = value, !.fCubeOwner = owner]
  BY <1>1 DEF ApplySetCube
<1> QED BY <1>2, ZenonT(60) DEF With, MatchStates

\* The records that set board and dice;
LEMMA SetWith ==
  ASSUME NEW t \in MatchStates, t.fMove \in Players, NEW r, NEW no \in Flags, no = FALSE
  PROVE  /\ ApplySetBoard(t, r) =
              With(t, IF t.fMove = 1 THEN SwapSides(r.key) ELSE r.key, t.fMove, t.fTurn, t.fCubeOwner,
                   t.anDice, t.cBeavers, t.fDoubled, t.nCube)
         /\ r.fPlayer = t.fMove => ApplySetDice(t, r) =
              With(t, t.anBoard, t.fMove, t.fMove, t.fCubeOwner, r.anDice, t.cBeavers, no, t.nCube)
<1>1. t.fMove # Nobody
  BY DEF Players, Nobody
<1>2. ApplySetBoard(t, r) =
        With(t, IF t.fMove = 1 THEN SwapSides(r.key) ELSE r.key, t.fMove, t.fTurn, t.fCubeOwner,
             t.anDice, t.cBeavers, t.fDoubled, t.nCube)
  <2> DEFINE board == IF t.fMove = 1 THEN SwapSides(r.key) ELSE r.key
  <2>1. ApplySetBoard(t, r) = [t EXCEPT !.fMove = t.fMove, !.fTurn = t.fTurn, !.anBoard = board]
    BY <1>1 DEF ApplySetBoard
  <2> HIDE DEF board
  <2>2. ApplySetBoard(t, r) = With(t, board, t.fMove, t.fTurn, t.fCubeOwner, t.anDice, t.cBeavers,
                                   t.fDoubled, t.nCube)
    BY <2>1 DEF With, MatchStates
  <2> QED BY <2>2 DEF board
<1>3. r.fPlayer = t.fMove =>
        ApplySetDice(t, r) = [t EXCEPT !.anDice = r.anDice, !.fDoubled = FALSE, !.fTurn = t.fMove,
                                       !.fMove = t.fMove, !.anBoard = t.anBoard]
  BY DEF ApplySetDice
<1>4. r.fPlayer = t.fMove => ApplySetDice(t, r) =
        With(t, t.anBoard, t.fMove, t.fMove, t.fCubeOwner, r.anDice, t.cBeavers, no, t.nCube)
  BY <1>3, ZenonT(60) DEF With, MatchStates
<1> QED BY <1>2, <1>4

\* The move of the player on roll.
Moved(b, r) == SwapSides([b EXCEPT ![1] = Max({0, @ - r.n})])
Played(t, r) == With(t, Moved(t.anBoard, r), Opponent(r.fPlayer), Opponent(r.fPlayer), t.fCubeOwner, None,
                     t.cBeavers, FALSE, t.nCube)
Counts(t, n) == IF fJacoby /\ t.fCubeOwner = Nobody /\ t.nMatchTo = 0 THEN 1 ELSE n

\* a move, after which the game goes on or has ended.
LEMMA NormalWith ==
  ASSUME NEW t \in MatchStates, NEW r, r.fPlayer = t.fMove, NEW info
  PROVE  LET n == GameStatus(Moved(t.anBoard, r))
         IN ApplyNormal(t, info, r) =
              IF n = 0 THEN [ms |-> Played(t, r), info |-> info]
              ELSE Ended(Played(t, r), info, "GAME_OVER", r.fPlayer, t.nCube * Counts(t, n))
<1> DEFINE alone == [t EXCEPT !.fDoubled = FALSE]
           played == [PlayMove(alone, r) EXCEPT !.anDice = 0]
<1>1. alone.fMove = t.fMove /\ alone.anBoard = t.anBoard
  BY DEF MatchStates
<1>2. PlayMove(alone, r) = [alone EXCEPT !.anBoard = Moved(t.anBoard, r), !.fMove = Opponent(r.fPlayer),
                                         !.fTurn = Opponent(r.fPlayer)]
  <2> HIDE DEF alone
  <2> QED BY <1>1 DEF PlayMove, Moved
<1>3. played = Played(t, r)
  <2> DEFINE board == Moved(t.anBoard, r)
             other == Opponent(r.fPlayer)
  <2> HIDE DEF board, other
  <2>1. played = [t EXCEPT !.fDoubled = FALSE, !.anBoard = board, !.fMove = other, !.fTurn = other, !.anDice = 0]
    BY <1>2 DEF MatchStates, board, other
  <2>2. Played(t, r) = With(t, board, other, other, t.fCubeOwner, None, t.cBeavers, FALSE, t.nCube)
    BY DEF Played, board, other
  <2> HIDE DEF played
  <2> QED BY <2>1, <2>2, ZenonT(60) DEF With, MatchStates, None
<1>4. played.anBoard = Moved(t.anBoard, r)
  BY <1>3 DEF Played, With, MatchStates
<1>5. ApplyNormal(t, info, r) =
        LET n == GameStatus(played.anBoard)
        IN IF n = 0 THEN [ms |-> played, info |-> info]
           ELSE Ended(played, info, "GAME_OVER", r.fPlayer, t.nCube * Counts(t, n))
  BY DEF ApplyNormal, Counts
<1> HIDE DEF played
<1> QED BY <1>3, <1>4, <1>5

\* What a state changed in this way still is: a state,
LEMMA WithTypes ==
  ASSUME NEW t \in States, NEW board \in Board, NEW mover \in Players, NEW turn \in Players,
         NEW owner \in Nobodies, NEW dice \in Rolls, NEW beavers \in Beavers,
         NEW doubled \in Flags, NEW cube \in CubeValues,
         NEW x, x = With(t, board, mover, turn, owner, dice, beavers, doubled, cube)
  PROVE  /\ x \in States
         /\ x.anBoard = board /\ x.fMove = mover /\ x.fTurn = turn /\ x.fCubeOwner = owner /\ x.anDice = dice
         /\ x.cBeavers = beavers /\ x.fDoubled = doubled /\ x.nCube = cube
         /\ x.nMatchTo = t.nMatchTo /\ x.anScore = t.anScore /\ x.cGames = t.cGames /\ x.gs = t.gs
         /\ x.fCrawford = t.fCrawford /\ x.fPostCrawford = t.fPostCrawford
         /\ x.fResigned = t.fResigned /\ x.fResignationDeclined = t.fResignationDeclined
<1>1. /\ x.anBoard = board /\ x.fMove = mover /\ x.fTurn = turn /\ x.fCubeOwner = owner /\ x.anDice = dice
      /\ x.cBeavers = beavers /\ x.fDoubled = doubled /\ x.nCube = cube
      /\ x.nMatchTo = t.nMatchTo /\ x.anScore = t.anScore /\ x.cGames = t.cGames /\ x.gs = t.gs
      /\ x.fCrawford = t.fCrawford /\ x.fPostCrawford = t.fPostCrawford
      /\ x.fResigned = t.fResigned /\ x.fResignationDeclined = t.fResignationDeclined
  BY DEF With, States
<1>2. mover \in Nobodies /\ turn \in Nobodies
  BY DEF Nobodies
<1>3. x \in States
  <2>1. x = [t EXCEPT !.anBoard = board, !.fMove = mover, !.fTurn = turn, !.fCubeOwner = owner,
                      !.anDice = dice, !.cBeavers = beavers, !.fDoubled = doubled, !.nCube = cube]
    BY DEF With
  <2>2. [t EXCEPT !.anBoard = board, !.fMove = mover, !.fTurn = turn, !.fCubeOwner = owner] \in States
    BY <1>2, ZenonT(60) DEF States
  <2>3. ASSUME NEW y \in States
        PROVE  [y EXCEPT !.anDice = dice, !.cBeavers = beavers, !.fDoubled = doubled, !.nCube = cube] \in States
    BY ZenonT(60) DEF States, Rolls, Beavers, Flags
  <2>4. x = [[t EXCEPT !.anBoard = board, !.fMove = mover, !.fTurn = turn, !.fCubeOwner = owner]
               EXCEPT !.anDice = dice, !.cBeavers = beavers, !.fDoubled = doubled, !.nCube = cube]
    BY <2>1 DEF States
  <2> QED BY <2>2, <2>3, <2>4
<1> QED BY <1>1, <1>3

\* and one of a game in play.
LEMMA Stays ==
  ASSUME NEW info, NEW t \in States, SameMatch(t, info), InPlay(t, info),
         NEW board \in Board, GameStatus(board) = 0, NEW mover \in Players, NEW turn \in Players,
         NEW owner \in Nobodies, NEW dice \in Rolls, NEW beavers \in Beavers,
         NEW doubled \in Flags, NEW cube \in CubeValues, ~doubled => turn = mover,
         doubled => cube < MAX_CUBE /\ ~t.fCrawford,
         NEW x, x = With(t, board, mover, turn, owner, dice, beavers, doubled, cube)
  PROVE  x \in States /\ SameMatch(x, info) /\ InPlay(x, info) /\ x.fTurn = turn /\ x.fDoubled = doubled
<1>1. /\ x \in States
      /\ x.anBoard = board /\ x.fMove = mover /\ x.fTurn = turn /\ x.nCube = cube /\ x.fDoubled = doubled
      /\ x.nMatchTo = t.nMatchTo /\ x.anScore = t.anScore /\ x.cGames = t.cGames /\ x.gs = t.gs
      /\ x.fCrawford = t.fCrawford /\ x.fPostCrawford = t.fPostCrawford
      /\ x.fResigned = t.fResigned /\ x.fResignationDeclined = t.fResignationDeclined
  BY WithTypes
<1>2. SameMatch(x, info)
  BY <1>1 DEF SameMatch
<1>3. InPlay(x, info)
  BY <1>1 DEF InPlay
<1> QED BY <1>1, <1>2, <1>3

\* Infos of one game differ in its result only.
SameGame(info, other) ==
    /\ other.i = info.i /\ other.nMatch = info.nMatch /\ other.anScore = info.anScore
    /\ other.fCrawfordGame = info.fCrawfordGame /\ other.nAutoDoubles = info.nAutoDoubles

\* The start of a game does not depend on its result.
LEMMA SameStart ==
  ASSUME NEW info, NEW other, SameGame(info, other)
  PROVE  StartState(other) = StartState(info)
BY DEF StartState, SameGame

\* The end of a game.
LEMMA Ends ==
  ASSUME NEW info \in Infos, NEW x \in States, SameMatch(x, info), x.anScore = info.anScore,
         x.cGames = info.i, x.fTurn \in Players, x.fResignationDeclined = 0,
         NEW gs \in OverKinds, NEW w \in Players, NEW p, p \in Nat, p > 0,
         gs = "GAME_OVER" => GameStatus(x.anBoard) # 0,
         NEW g, g = Ended(x, info, gs, w, p)
  PROVE  /\ g.ms \in States /\ SameMatch(g.ms, g.info) /\ IsOver(g.ms, g.info) /\ ~InPlay(g.ms, g.info)
         /\ g.info \in Infos /\ SameGame(info, g.info)
<1> DEFINE score == [x.anScore EXCEPT ![w] = @ + p]
           y == [x EXCEPT !.gs = gs, !.anScore = score, !.cGames = @ + 1]
           other == [info EXCEPT !.fWinner = w, !.nPoints = p]
<1>1. g = [ms |-> y, info |-> other]
  BY DEF Ended, States
<1>2. score \in [Players -> Nat] /\ score = [info.anScore EXCEPT ![w] = @ + p]
  BY DEF States
<1> HIDE DEF score
<1>3. /\ y.gs = gs /\ y.anScore = score /\ y.cGames = x.cGames + 1 /\ y.anBoard = x.anBoard
      /\ y.fTurn = x.fTurn /\ y.fResignationDeclined = x.fResignationDeclined /\ y.nMatchTo = x.nMatchTo
      /\ y.fCrawford = x.fCrawford /\ y.fPostCrawford = x.fPostCrawford /\ y.cGames \in Nat
  BY DEF States
<1>4. y \in States
  <2>1. x.cGames + 1 \in Nat /\ gs \in {"GAME_NONE", "GAME_PLAYING", "GAME_OVER", "GAME_RESIGNED", "GAME_DROP"}
    BY DEF States, OverKinds
  <2>2. y = [x EXCEPT !.gs = gs, !.anScore = score, !.cGames = x.cGames + 1]
    OBVIOUS
  <2> HIDE DEF y
  <2> QED BY <1>2, <2>1, <2>2, ZenonT(60) DEF States
<1>5. SameGame(info, other) /\ other.fWinner = w /\ other.nPoints = p
  BY DEF Infos, SameGame
<1>6. other \in Infos
  <2>1. w \in Nobodies
    BY DEF Nobodies
  <2> QED BY <2>1 DEF Infos
<1> HIDE DEF y, other
<1>7. StartState(other) = StartState(info)
  BY <1>5, SameStart
<1>8. SameMatch(y, other)
  BY <1>3, <1>7 DEF SameMatch
<1>9. IsOver(y, other) /\ ~InPlay(y, other)
  BY <1>2, <1>3, <1>5 DEF IsOver, InPlay, OverKinds, SameGame
<1> QED BY <1>1, <1>4, <1>5, <1>6, <1>8, <1>9

\* Boards.
LEMMA MovedBoards ==
  ASSUME NEW b \in Board, NEW r \in Records, r.mt = "MOVE_NORMAL"
  PROVE  Moved(b, r) \in Board /\ GameStatus(Moved(b, r)) \in 0..2
<1>1. r.n \in {0, 1}
  BY MatchTypes DEF MoveRecords
<1>2. b[1] \in 0..Chequers /\ 1 \in Players
  BY DEF Board, Players
<1>3. Max({0, b[1] - r.n}) \in 0..Chequers
  BY <1>1, <1>2, LargerOfTwo, ChequersAssumption
<1>4. [b EXCEPT ![1] = Max({0, @ - r.n})] \in Board
  BY <1>2, <1>3 DEF Board
<1>5. Moved(b, r) \in Board
  BY <1>4, SwappedBoards DEF Moved
<1> QED BY <1>5 DEF GameStatus

\* The game is not over for one view exactly when it is not for the other.
LEMMA SwappedStatus ==
  ASSUME NEW b \in Board
  PROVE  SwapSides(b) \in Board /\ (GameStatus(SwapSides(b)) = 0 <=> GameStatus(b) = 0)
<1>1. \A c \in Board : GameStatus(c) = 0 <=> \A s \in Players : c[s] > 0
  BY DEF GameStatus
<1>2. SwapSides(b) \in Board /\ SwapSides(b)[0] = b[1] /\ SwapSides(b)[1] = b[0]
  BY SwappedBoards DEF SwapSides, Players
<1>3. \A c : (\A s \in Players : c[s] > 0) <=> c[0] > 0 /\ c[1] > 0
  BY DEF Players
<1> QED BY <1>1, <1>2, <1>3

-----------------------------------------------------------------------------
(* A legal record, of each kind, in a game that is being played.           *)

\* What a legal record does.
Step(g, info, r) ==
    /\ After(g.ms, g.info, r) /\ g.info \in Infos /\ SameGame(info, g.info)
    /\ InPlay(g.ms, g.info) => g.info = info

\* The game goes on,
LEMMA GoesOn ==
  ASSUME NEW info \in Infos, NEW r, NEW x \in States, SameMatch(x, info), InPlay(x, info),
         x.fDoubled => r.mt = "MOVE_DOUBLE" /\ x.fTurn = Opponent(r.fPlayer)
  PROVE  Step([ms |-> x, info |-> info], info, r)
BY DEF Step, After, SameGame

\* or ends.
LEMMA IsEnded ==
  ASSUME NEW info \in Infos, NEW r, NEW x \in States, SameMatch(x, info), x.anScore = info.anScore,
         x.cGames = info.i, x.fTurn \in Players, x.fResignationDeclined = 0,
         NEW gs \in OverKinds, NEW w \in Players, NEW p, p \in Nat, p > 0,
         gs = "GAME_OVER" => GameStatus(x.anBoard) # 0,
         NEW g, g = Ended(x, info, gs, w, p)
  PROVE  Step(g, info, r)
<1>1. /\ g.ms \in States /\ SameMatch(g.ms, g.info) /\ IsOver(g.ms, g.info) /\ ~InPlay(g.ms, g.info)
      /\ g.info \in Infos /\ SameGame(info, g.info)
  BY Ends
<1> QED BY <1>1 DEF Step, After

\* A legal record of any kind leads to a state of the same match, in which the
\* game goes on or is over as its record says.
LEMMA StepAfter ==
  ASSUME NEW info \in Infos, NEW t \in States, SameMatch(t, info), InPlay(t, info), NEW r, Legal(t, r)
  PROVE  Step(Applied(t, info, r), info, r)
<1>1. /\ t \in MatchStates /\ t.gs = "GAME_PLAYING" /\ t.fResigned = 0 /\ t.fResignationDeclined = 0
      /\ t.fMove \in Players /\ t.fTurn \in Players /\ GameStatus(t.anBoard) = 0
      /\ t.anScore = info.anScore /\ t.cGames = info.i /\ (~t.fDoubled => t.fTurn = t.fMove)
      /\ (t.fDoubled => t.nCube < MAX_CUBE /\ ~t.fCrawford)
  BY MatchTypes DEF InPlay
<1>2. /\ t.anBoard \in Board /\ t.fCubeOwner \in Nobodies /\ t.anDice \in Rolls
      /\ t.cBeavers \in Beavers /\ t.fDoubled \in Flags /\ t.nCube \in CubeValues
  BY DEF States, Rolls, Beavers, Flags
<1>3. r \in Records /\ r \in MoveRecords /\ r.fPlayer \in Players
  BY MatchTypes DEF Legal
<1>4. \A p : Opponent(p) \in Players /\ Opponent(p) \in Nobodies
  BY DEF Opponent, Players, Nobodies
<1>0. PICK yes \in Flags, no \in Flags : yes = TRUE /\ no = FALSE
  BY DEF Flags
<1>15. None \in Beavers /\ None \in Rolls
  BY CubeAssumption DEF None, Beavers, Rolls
<1>5. CASE r.mt = "MOVE_DOUBLE"
  <2>1. Applied(t, info, r) = [ms |-> ApplyDouble(t, r), info |-> info]
    BY <1>1, <1>5, Effects
  <2>2. t.nCube \in Nat /\ MAX_CUBE \in Nat /\ ~t.fCrawford
    BY <1>2, <1>5, Cubes DEF Legal, CubeKinds
  <2>3. PICK x, turn, owner : x = ApplyDouble(t, r) /\ turn = Opponent(r.fPlayer) /\ owner = Opponent(t.fMove)
    OBVIOUS
  <2>7. turn \in Players /\ owner \in Nobodies
    BY <1>4, <2>3
  <2>8. ~t.fCrawford
    BY <2>2
  <2>4. CASE t.nCube >= MAX_CUBE
    <3>1. x = t
      BY <1>1, <2>4, <2>3, DoubleAtLimit
    <3>2. ~t.fDoubled
      BY <1>1, <2>2, <2>4
    <3> QED BY <2>1, <3>1, <3>2, <2>3, GoesOn
  <2>5. CASE ~(t.nCube >= MAX_CUBE) /\ t.fDoubled
    <3>1. OneBeaverMore(t) \in Beavers /\ TwiceTheCube(t) \in CubeValues /\ TwiceTheCube(t) < MAX_CUBE
      BY <1>2, <1>5, <2>2, <2>5, Cubes, CubeAssumption DEF Legal, OneBeaverMore, TwiceTheCube, Beavers
    <3>2. x = With(t, t.anBoard, t.fMove, turn, owner, t.anDice, OneBeaverMore(t), t.fDoubled, TwiceTheCube(t))
      BY <1>1, <2>5, <2>3, RedoubleWith
    <3>4. /\ ~t.fDoubled => turn = t.fMove
          /\ t.fDoubled => TwiceTheCube(t) < MAX_CUBE /\ ~t.fCrawford
      BY <2>5, <2>8, <3>1
    <3>5. OneBeaverMore(t) \in Beavers /\ TwiceTheCube(t) \in CubeValues
      BY <3>1
    <3>3. x \in States /\ SameMatch(x, info) /\ InPlay(x, info) /\ x.fTurn = turn
      BY <1>1, <1>2, <2>7, <3>2, <3>4, <3>5, Stays
    <3> QED BY <1>5, <2>1, <3>3, <2>3, GoesOn
  <2>6. CASE ~(t.nCube >= MAX_CUBE) /\ ~t.fDoubled
    <3>1. t.nCube < MAX_CUBE
      BY <2>2, <2>6
    <3>2. x = With(t, t.anBoard, t.fMove, turn, t.fCubeOwner, t.anDice, t.cBeavers, yes, t.nCube)
      BY <1>0, <1>1, <2>6, <2>3, DoubleWith
    <3>4. yes \in Flags /\ (~yes => turn = t.fMove) /\ (yes => t.nCube < MAX_CUBE /\ ~t.fCrawford)
      BY <1>0, <2>8, <3>1
    <3>3. x \in States /\ SameMatch(x, info) /\ InPlay(x, info) /\ x.fTurn = turn
      BY <1>1, <1>2, <2>7, <3>2, <3>4, Stays
    <3> QED BY <1>5, <2>1, <3>3, <2>3, GoesOn
  <2> QED BY <2>4, <2>5, <2>6
<1>6. CASE r.mt = "MOVE_TAKE"
  <2>1. Applied(t, info, r) = [ms |-> ApplyTake(t), info |-> info]
    BY <1>1, <1>6, Effects
  <2>2. t.fDoubled /\ TwiceTheCube(t) \in CubeValues
    <3>1. t.fDoubled
      BY <1>6 DEF Legal
    <3> QED BY <1>1, <1>2, <3>1, Cubes DEF TwiceTheCube
  <2>3. PICK x, owner : x = ApplyTake(t) /\ owner = Opponent(t.fMove)
    OBVIOUS
  <2>4. owner \in Nobodies /\ x = With(t, t.anBoard, t.fMove, t.fMove, owner, t.anDice, None, no, TwiceTheCube(t))
    BY <1>0, <1>1, <1>4, <2>2, <2>3, TakeWith
  <2>5. x \in States /\ SameMatch(x, info) /\ InPlay(x, info) /\ ~x.fDoubled
    BY <1>0, <1>1, <1>2, <1>15, <2>2, <2>4, Stays
  <2> QED BY <2>1, <2>3, <2>5, GoesOn
<1>7. CASE r.mt = "MOVE_DROP"
  <2> DEFINE x == [t EXCEPT !.fDoubled = FALSE, !.cBeavers = 0]
  <2>1. t.fDoubled
    BY <1>7 DEF Legal
  <2>2. Applied(t, info, r) = Ended(x, info, "GAME_DROP", Opponent(r.fPlayer), t.nCube)
    <3>1. Applied(t, info, r) = ApplyDrop(t, info, r)
      BY <1>1, <1>7, Effects
    <3> QED BY <2>1, <3>1 DEF ApplyDrop
  <2>3. x = With(t, t.anBoard, t.fMove, t.fTurn, t.fCubeOwner, t.anDice, None, no, t.nCube)
    BY <1>0, <1>1, <2>1 DEF With, MatchStates, None
  <2> HIDE DEF x
  <2>4. /\ x \in States /\ x.anScore = t.anScore /\ x.cGames = t.cGames /\ x.fTurn = t.fTurn
        /\ x.fResignationDeclined = t.fResignationDeclined /\ x.nMatchTo = t.nMatchTo
        /\ x.fCrawford = t.fCrawford /\ x.fPostCrawford = t.fPostCrawford
    BY <1>1, <1>2, <1>0, <1>15, <2>1, <2>3, WithTypes
  <2>5. SameMatch(x, info) /\ x.anScore = info.anScore /\ x.cGames = info.i
        /\ x.fTurn \in Players /\ x.fResignationDeclined = 0
    BY <1>1, <2>4 DEF SameMatch
  <2>6. t.nCube \in Nat \ {0} /\ "GAME_DROP" \in OverKinds
    BY <1>2, Cubes DEF OverKinds
  <2>7. Step(Ended(x, info, "GAME_DROP", Opponent(r.fPlayer), t.nCube), info, r)
    BY <1>4, <2>4, <2>5, <2>6, IsEnded
  <2> QED BY <2>2, <2>7
<1>8. CASE r.mt = "MOVE_RESIGN"
  <2> DEFINE x == [t EXCEPT !.fResigned = r.nResigned]
             points == t.nCube * r.nResigned
  <2>1. Applied(t, info, r) = Ended(x, info, "GAME_RESIGNED", Opponent(r.fPlayer), points)
    BY <1>1, <1>8, Effects DEF ApplyResign
  <2>2. r.nResigned \in Resignations /\ r.nResigned \in 1..3
    BY <1>3, <1>8, MatchTypes, ResignationsAssumption
  <2>3. x \in States
    BY <2>2 DEF States
  <2>4. /\ x.anScore = t.anScore /\ x.cGames = t.cGames /\ x.fTurn = t.fTurn
        /\ x.fResignationDeclined = t.fResignationDeclined /\ x.nMatchTo = t.nMatchTo
        /\ x.fCrawford = t.fCrawford /\ x.fPostCrawford = t.fPostCrawford
    BY DEF States
  <2> HIDE DEF x
  <2>5. SameMatch(x, info) /\ x.anScore = info.anScore /\ x.cGames = info.i
        /\ x.fTurn \in Players /\ x.fResignationDeclined = 0
    BY <1>1, <2>4 DEF SameMatch
  <2>6. points \in Nat \ {0} /\ "GAME_RESIGNED" \in OverKinds
    <3>1. t.nCube \in Nat \ {0}
      BY <1>2, Cubes
    <3> QED BY <2>2, <3>1 DEF OverKinds
  <2> HIDE DEF points
  <2>7. Step(Ended(x, info, "GAME_RESIGNED", Opponent(r.fPlayer), points), info, r)
    BY <1>4, <2>3, <2>5, <2>6, IsEnded
  <2> QED BY <2>1, <2>7
<1>9. CASE r.mt = "MOVE_SETBOARD"
  <2> DEFINE board == IF t.fMove = 1 THEN SwapSides(r.key) ELSE r.key
             x == ApplySetBoard(t, r)
  <2>1. Applied(t, info, r) = [ms |-> x, info |-> info]
    BY <1>1, <1>9, Effects
  <2>2. r.key \in Board /\ GameStatus(r.key) = 0 /\ ~t.fDoubled
    BY <1>3, <1>9 DEF Legal, MoveRecords
  <2>3. board \in Board /\ GameStatus(board) = 0
    BY <2>2, SwappedStatus
  <2>4. x = With(t, board, t.fMove, t.fTurn, t.fCubeOwner, t.anDice, t.cBeavers, t.fDoubled, t.nCube)
    BY <1>1, <1>0, SetWith
  <2> HIDE DEF x, board
  <2>5. x \in States /\ SameMatch(x, info) /\ InPlay(x, info) /\ ~x.fDoubled
    BY <1>0, <1>1, <1>2, <2>2, <2>3, <2>4, Stays
  <2>6. Step([ms |-> x, info |-> info], info, r)
    BY <2>5, GoesOn
  <2> QED BY <2>1, <2>6
<1>10. CASE r.mt = "MOVE_SETDICE"
  <2> DEFINE x == ApplySetDice(t, r)
  <2>1. Applied(t, info, r) = [ms |-> x, info |-> info]
    BY <1>1, <1>10, Effects
  <2>2. r.anDice \in Rolls /\ r.fPlayer = t.fMove
    BY <1>3, <1>10 DEF Legal, MoveRecords, Sets, Rolls
  <2>3. x = With(t, t.anBoard, t.fMove, t.fMove, t.fCubeOwner, r.anDice, t.cBeavers, no, t.nCube)
    BY <1>1, <2>2, <1>0, SetWith
  <2> HIDE DEF x
  <2>4. x \in States /\ SameMatch(x, info) /\ InPlay(x, info) /\ ~x.fDoubled
    BY <1>0, <1>1, <1>2, <2>2, <2>3, Stays
  <2>5. Step([ms |-> x, info |-> info], info, r)
    BY <2>4, GoesOn
  <2> QED BY <2>1, <2>5
<1>11. ASSUME NEW value \in CubeValues, NEW owner \in Nobodies
       PROVE  Step([ms |-> ApplySetCube(t, value, owner), info |-> info], info, r)
  <2> DEFINE x == ApplySetCube(t, value, owner)
  <2>1. x = With(t, t.anBoard, t.fMove, t.fMove, owner, t.anDice, t.cBeavers, no, value)
    BY <1>1, <1>0, SetCubeWith
  <2> HIDE DEF x
  <2>2. x \in States /\ SameMatch(x, info) /\ InPlay(x, info) /\ ~x.fDoubled
    BY <1>0, <1>1, <1>2, <1>11, <2>1, Stays
  <2>3. Step([ms |-> x, info |-> info], info, r)
    BY <2>2, GoesOn
  <2> QED BY <2>3 DEF x
<1>12. CASE r.mt = "MOVE_SETCUBEVAL"
  <2>1. r.nCube \in CubeValues
    BY <1>3, <1>12 DEF MoveRecords
  <2> QED BY <1>1, <1>2, <1>11, <1>12, <2>1, Effects
<1>13. CASE r.mt = "MOVE_SETCUBEPOS"
  <2>1. r.fCubeOwner \in Nobodies
    BY <1>3, <1>13 DEF MoveRecords
  <2> QED BY <1>1, <1>2, <1>11, <1>13, <2>1, Effects
<1>14. CASE r.mt = "MOVE_NORMAL"
  <2> DEFINE board == Moved(t.anBoard, r)
             other == Opponent(r.fPlayer)
             x == Played(t, r)
             n == GameStatus(board)
             points == t.nCube * Counts(t, n)
  <2>1. r.fPlayer = t.fMove /\ ~t.fDoubled
    BY <1>1, <1>14 DEF Legal
  <2>2. Applied(t, info, r) = IF n = 0 THEN [ms |-> x, info |-> info]
                              ELSE Ended(x, info, "GAME_OVER", r.fPlayer, points)
    BY <1>1, <1>14, <2>1, Effects, NormalWith
  <2>3. board \in Board /\ n \in 0..2
    BY <1>2, <1>3, <1>14, MovedBoards
  <2>4. /\ x = With(t, board, other, other, t.fCubeOwner, None, t.cBeavers, no, t.nCube)
    BY <1>0 DEF Played
  <2>5. other \in Players
    BY <1>4
  <2>6. n # 0 => points \in Nat \ {0} /\ "GAME_OVER" \in OverKinds
    <3>1. t.nCube \in Nat \ {0}
      BY <1>2, Cubes
    <3>2. n # 0 => Counts(t, n) \in 1..2
      <4>1. Counts(t, n) \in {1, n}
        BY DEF Counts
      <4> QED BY <2>3, <4>1
    <3> HIDE DEF n
    <3> QED BY <3>1, <3>2 DEF OverKinds
  <2> HIDE DEF x, other, points
  <2>7. CASE n = 0
    <3> HIDE DEF board
    <3>1. x \in States /\ SameMatch(x, info) /\ InPlay(x, info) /\ ~x.fDoubled
      BY <1>0, <1>1, <1>2, <2>3, <1>15, <2>4, <2>5, <2>7, Stays
    <3>2. Step([ms |-> x, info |-> info], info, r)
      BY <3>1, GoesOn
    <3> QED BY <2>2, <2>7, <3>2
  <2>8. CASE n # 0
    <3> HIDE DEF board
    <3>1. /\ x \in States /\ x.anScore = t.anScore /\ x.cGames = t.cGames /\ x.fTurn = other
          /\ x.fResignationDeclined = t.fResignationDeclined /\ x.nMatchTo = t.nMatchTo
          /\ x.fCrawford = t.fCrawford /\ x.fPostCrawford = t.fPostCrawford /\ x.anBoard = board
      BY <1>0, <1>1, <1>2, <2>3, <1>15, <2>4, <2>5, WithTypes
    <3>2. SameMatch(x, info) /\ x.anScore = info.anScore /\ x.cGames = info.i
          /\ x.fTurn \in Players /\ x.fResignationDeclined = 0 /\ GameStatus(x.anBoard) # 0
      BY <1>1, <2>5, <2>8, <3>1 DEF SameMatch
    <3>3. Step(Ended(x, info, "GAME_OVER", r.fPlayer, points), info, r)
      BY <1>3, <2>6, <2>8, <3>1, <3>2, IsEnded
    <3> QED BY <2>2, <2>8, <3>3
  <2> QED BY <2>7, <2>8
<1> QED BY <1>3, <1>5, <1>6, <1>7, <1>8, <1>9, <1>10, <1>12, <1>13, <1>14, Kinds

-----------------------------------------------------------------------------
(* Runs: the states of a game are those that CalculateBoard gives.         *)

\* Which of the infos of a game it is does not matter.
LEMMA SamePlay ==
  ASSUME NEW info, NEW other, SameGame(info, other)
  PROVE  /\ StartState(other) = StartState(info)
         /\ \A p : Opened(other, p) = Opened(info, p)
         /\ \A t : InPlay(t, other) <=> InPlay(t, info)
         /\ \A t : SameMatch(t, other) <=> SameMatch(t, info)
<1>1. StartState(other) = StartState(info)
  BY SameStart
<1>2. \A p : Opened(other, p) = Opened(info, p)
  BY <1>1 DEF Opened
<1>3. \A t : InPlay(t, other) <=> InPlay(t, info)
  BY DEF InPlay, SameGame
<1>4. \A t : SameMatch(t, other) <=> SameMatch(t, info)
  BY <1>1 DEF SameMatch
<1> QED BY <1>1, <1>2, <1>3, <1>4

\* Two infos of a game with the same score after it are the same.
LEMMA OneResult ==
  ASSUME NEW info \in Infos, NEW a \in Infos, NEW b \in Infos, SameGame(info, a), SameGame(info, b),
         NEW t, IsOver(t, a), IsOver(t, b)
  PROVE  a = b
<1> DEFINE s == info.anScore
           v == a.fWinner
           w == b.fWinner
           m == a.nPoints
           n == b.nPoints
<1>1. s \in [Players -> Nat] /\ m \in Nat /\ n \in Nat /\ m > 0 /\ n > 0 /\ v \in Players /\ w \in Players
  BY DEF Infos, IsOver
<1>2. [s EXCEPT ![v] = @ + m] = [s EXCEPT ![w] = @ + n]
  BY DEF IsOver, SameGame
<1> HIDE DEF s, v, w, m, n
<1>3. v = w
  <2>1. [s EXCEPT ![v] = @ + m][v] = s[v] + m
    BY <1>1
  <2>2. v # w => [s EXCEPT ![w] = @ + n][v] = s[v]
    BY <1>1
  <2>3. s[v] \in Nat
    BY <1>1
  <2> QED BY <1>1, <1>2, <2>1, <2>2, <2>3
<1>4. m = n
  <2>1. [s EXCEPT ![v] = @ + m][v] = s[v] + m /\ [s EXCEPT ![w] = @ + n][v] = s[v] + n
    BY <1>1, <1>3
  <2>2. s[v] \in Nat
    BY <1>1
  <2> QED BY <1>1, <1>2, <2>1, <2>2
<1> QED BY <1>3, <1>4 DEF Infos, SameGame, v, w, m, n

\* A game has a state and an info after a record.
LEMMA AppliedPair ==
  ASSUME NEW t \in States, NEW info \in Infos, NEW r \in Records
  PROVE  Applied(t, info, r) = [ms |-> Applied(t, info, r).ms, info |-> Applied(t, info, r).info]
<1>1. Applied(t, info, r) \in [ms : MatchStates, info : GameInfos]
  BY MatchTypes, ApplyMoveRecordTypes DEF Applied
<1> QED BY <1>1

\* A record does to a game the same, whatever its info has been:
LEMMA SameStep ==
  ASSUME NEW info \in Infos, NEW other \in Infos, SameGame(info, other),
         NEW t \in States, SameMatch(t, info), InPlay(t, info), NEW r, Legal(t, r)
  PROVE  /\ Applied(t, other, r).ms = Applied(t, info, r).ms
         /\ InPlay(Applied(t, info, r).ms, info) => /\ Applied(t, info, r).info = info
                                                    /\ Applied(t, other, r).info = other
         /\ ~InPlay(Applied(t, info, r).ms, info) => Applied(t, other, r).info = Applied(t, info, r).info
<1> DEFINE a == Applied(t, info, r)
           b == Applied(t, other, r)
<1>1. b.ms = a.ms
  <2>1. t \in MatchStates /\ r \in MoveRecords
    BY MatchTypes DEF Legal
  <2> QED BY <2>1, InfoIsNotRead DEF Applied
<1>2. SameMatch(t, other) /\ InPlay(t, other)
  BY SamePlay
<1>3. Step(a, info, r) /\ Step(b, other, r)
  BY <1>2, StepAfter
<1> HIDE DEF a, b
<1>4. /\ a.info \in Infos /\ b.info \in Infos /\ SameGame(info, a.info) /\ SameGame(info, b.info)
      /\ InPlay(a.ms, a.info) => a.info = info
      /\ InPlay(b.ms, b.info) => b.info = other
  BY <1>3 DEF Step, After, SameGame
<1>5. (InPlay(a.ms, a.info) <=> InPlay(a.ms, info)) /\ (InPlay(b.ms, b.info) <=> InPlay(a.ms, info))
  BY <1>1, <1>4, SamePlay
<1>6. CASE InPlay(a.ms, info)
  BY <1>1, <1>4, <1>5, <1>6 DEF a, b
<1>7. CASE ~InPlay(a.ms, info)
  <2>1. IsOver(a.ms, a.info) /\ IsOver(a.ms, b.info)
    BY <1>1, <1>3, <1>5, <1>7 DEF Step, After
  <2>2. a.info = b.info
    BY <1>4, <2>1, OneResult
  <2> QED BY <1>1, <1>7, <2>2 DEF a, b
<1> QED BY <1>6, <1>7

\* The start of a game is a state,
LEMMA StartIsState ==
  ASSUME NEW info, info.nMatch \in Lengths \cup {0}, info.anScore \in [Players -> Nat], info.i \in Nat,
         info.fCrawfordGame \in BOOLEAN, GoodInfo(info)
  PROVE  StartState(info) \in States
<1> DEFINE s == StartState(info)
           post == s.fPostCrawford
<1>1. InitBoard \in Board
  BY ChequersAssumption DEF InitBoard, Board
<1>2. 2 ^ info.nAutoDoubles \in CubeValues
  BY DEF GoodInfo
<1>3. Nobody \in Nobodies /\ 0 \in Dice \cup {0} /\ 0 \in 0..nBeavers /\ 0 \in Resignations \cup {0}
  BY CubeAssumption DEF Nobodies
<1>4. s = [anBoard |-> InitBoard, nMatchTo |-> info.nMatch, anScore |-> info.anScore,
           cGames |-> info.i, gs |-> "GAME_NONE", fMove |-> Nobody, fTurn |-> Nobody,
           fCubeOwner |-> Nobody, anDice |-> 0, cBeavers |-> 0, fDoubled |-> FALSE,
           nCube |-> 2 ^ info.nAutoDoubles, fCrawford |-> info.fCrawfordGame,
           fPostCrawford |-> post, fResigned |-> 0, fResignationDeclined |-> 0]
  BY DEF StartState
<1>5. post \in BOOLEAN
  BY DEF StartState
<1> HIDE DEF post, s
<1>6. s \in States
  BY <1>1, <1>2, <1>3, <1>4, <1>5, ZenonT(60) DEF States
<1> QED BY <1>6 DEF s

\* and with a player on roll one of a game in play.
LEMMA OpenedPlays ==
  ASSUME NEW info \in Infos, GoodInfo(info), NEW p \in Players
  PROVE  LET t == Opened(info, p)
         IN t \in States /\ SameMatch(t, info) /\ InPlay(t, info) /\ ~t.fDoubled /\ t.fMove = p /\ t.fTurn = p
<1> DEFINE s == StartState(info)
           t == Opened(info, p)
<1>1. /\ InitBoard \in Board /\ GameStatus(InitBoard) = 0
  BY ChequersAssumption DEF InitBoard, Board, GameStatus
<1>2. /\ s.anBoard = InitBoard /\ s.nMatchTo = info.nMatch /\ s.anScore = info.anScore /\ s.cGames = info.i
      /\ s.gs = "GAME_NONE" /\ s.fMove = Nobody /\ s.fTurn = Nobody /\ s.fCubeOwner = Nobody /\ s.anDice = 0
      /\ s.cBeavers = 0 /\ s.fDoubled = FALSE /\ s.nCube = 2 ^ info.nAutoDoubles
      /\ s.fCrawford = info.fCrawfordGame /\ s.fPostCrawford \in BOOLEAN /\ s.fResigned = 0
      /\ s.fResignationDeclined = 0
  BY DEF StartState
<1>3. s \in States
  BY StartIsState DEF Infos
<1> HIDE DEF s
<1>4. t = [s EXCEPT !.gs = "GAME_PLAYING", !.fMove = p, !.fTurn = p]
  BY DEF Opened, s
<1>5. p \in Nobodies
  BY DEF Nobodies
<1> HIDE DEF t
<1>6. t \in States
  BY <1>3, <1>4, <1>5, ZenonT(60) DEF States
<1>7. /\ t.gs = "GAME_PLAYING" /\ t.fMove = p /\ t.fTurn = p /\ t.anBoard = s.anBoard /\ t.nMatchTo = s.nMatchTo
      /\ t.anScore = s.anScore /\ t.cGames = s.cGames /\ t.fDoubled = s.fDoubled /\ t.fCrawford = s.fCrawford
      /\ t.fPostCrawford = s.fPostCrawford /\ t.fResigned = s.fResigned
      /\ t.fResignationDeclined = s.fResignationDeclined
  BY <1>3, <1>4 DEF States
<1>8. SameMatch(t, info)
  BY <1>7 DEF SameMatch, s
<1>9. InPlay(t, info)
  BY <1>1, <1>2, <1>7 DEF InPlay
<1> QED BY <1>2, <1>6, <1>7, <1>8, <1>9 DEF t

\* The board at the start is the same from both sides.
LEMMA InitBoardSwapped == SwapSides(InitBoard) = InitBoard
BY DEF SwapSides, InitBoard, Players

\* From either start of a game its first record gives the same: what it gives
\* from the start with its player on roll.
LEMMA FirstRecord ==
  ASSUME NEW info \in Infos, GoodInfo(info), NEW r \in Records, r.mt \in {"MOVE_SETDICE", "MOVE_NORMAL"},
         NEW p, p = r.fPlayer,
         NEW m \in {StartState(info), [StartState(info) EXCEPT !.fMove = p, !.fTurn = p]}
  PROVE  Applied(FixMatchState(m, r), info, r) = Applied(Opened(info, p), info, r)
<1> DEFINE s == StartState(info)
           turned == [s EXCEPT !.fMove = p, !.fTurn = p]
           playing == [s EXCEPT !.gs = "GAME_PLAYING", !.fResigned = 0, !.fResignationDeclined = 0]
           t == Opened(info, p)
<1>1. s \in MatchStates /\ s.anBoard = InitBoard /\ s.fTurn = Nobody /\ s.fMove = Nobody
      /\ s.fResigned = 0 /\ s.fResignationDeclined = 0
  BY MatchTypes, StartStateTypes DEF StartState
<1>2. p \in Players /\ p # Nobody
  BY MatchTypes DEF Players, Nobody
<1>3. t = [s EXCEPT !.gs = "GAME_PLAYING", !.fMove = p, !.fTurn = p]
  BY DEF Opened
<1> HIDE DEF s, t
<1>4. \A x : x = turned \/ x = t => [x EXCEPT !.gs = "GAME_PLAYING", !.fResigned = 0, !.fResignationDeclined = 0] = t
  BY <1>1, <1>3 DEF MatchStates
<1>5. Applied(turned, info, r) = Applied(t, info, r)
  <2>1. \A x, y : [x EXCEPT !.gs = "GAME_PLAYING", !.fResigned = 0, !.fResignationDeclined = 0]
                    = [y EXCEPT !.gs = "GAME_PLAYING", !.fResigned = 0, !.fResignationDeclined = 0]
                  => Applied(x, info, r) = Applied(y, info, r)
    BY DEF Applied, ApplyMoveRecord
  <2> HIDE DEF turned
  <2> QED BY <1>4, <2>1, ZenonT(60)
<1>6. FixMatchState(turned, r) = turned
  BY <1>1 DEF FixMatchState, MatchStates
<1>7. CASE m = turned
  BY <1>5, <1>6, <1>7 DEF s, t
<1>8. CASE m = s /\ r.mt = "MOVE_NORMAL"
  <2>1. FixMatchState(s, r) = [s EXCEPT !.anBoard = SwapSides(@), !.fMove = p, !.fTurn = p]
    BY <1>1, <1>2, <1>8 DEF FixMatchState
  <2>2. FixMatchState(s, r) = turned
    BY <1>1, <2>1, InitBoardSwapped DEF MatchStates
  <2> QED BY <1>5, <1>8, <2>2 DEF t
<1>9. CASE m = s /\ r.mt = "MOVE_SETDICE"
  <2>1. FixMatchState(s, r) = s
    BY <1>9 DEF FixMatchState
  <2>2. Applied(s, info, r) = [ms |-> ApplySetDice(playing, r), info |-> info]
    BY <1>9 DEF Applied, ApplyMoveRecord
  <2>3. Applied(t, info, r) = [ms |-> ApplySetDice(t, r), info |-> info]
    <3>1. [t EXCEPT !.gs = "GAME_PLAYING", !.fResigned = 0, !.fResignationDeclined = 0] = t
      BY <1>4
    <3> DEFINE x == [t EXCEPT !.gs = "GAME_PLAYING", !.fResigned = 0, !.fResignationDeclined = 0]
    <3>2. Applied(t, info, r) = [ms |-> ApplySetDice(x, r), info |-> info]
      BY <1>9 DEF Applied, ApplyMoveRecord
    <3> QED BY <3>1, <3>2
  <2>4. ApplySetDice(playing, r) = ApplySetDice(t, r)
    <3> DEFINE d == r.anDice
               board == InitBoard
    <3>1. playing.fMove = Nobody /\ playing.anBoard = InitBoard /\ t.fMove = p /\ t.anBoard = InitBoard
      BY <1>1, <1>3 DEF MatchStates
    <3>2. ApplySetDice(playing, r) = [playing EXCEPT !.anDice = d, !.fDoubled = FALSE, !.fTurn = p, !.fMove = p,
                                                     !.anBoard = board]
      <4> HIDE DEF playing
      <4> QED BY <1>2, <3>1, InitBoardSwapped DEF ApplySetDice
    <3>3. ApplySetDice(t, r) = [t EXCEPT !.anDice = d, !.fDoubled = FALSE, !.fTurn = p, !.fMove = p, !.anBoard = board]
      BY <1>2, <3>1 DEF ApplySetDice
    <3> HIDE DEF d, board
    <3>4. ApplySetDice(playing, r) =
            [s EXCEPT !.gs = "GAME_PLAYING", !.fResigned = 0, !.fResignationDeclined = 0, !.anDice = d,
                      !.fDoubled = FALSE, !.fTurn = p, !.fMove = p, !.anBoard = board]
      BY <1>1, <3>2 DEF MatchStates
    <3>5. ApplySetDice(t, r) = [s EXCEPT !.gs = "GAME_PLAYING", !.anDice = d, !.fDoubled = FALSE, !.fTurn = p,
                                         !.fMove = p, !.anBoard = board]
      BY <1>1, <1>3, <3>3 DEF MatchStates
    <3>6. s = [s EXCEPT !.fResigned = 0, !.fResignationDeclined = 0]
      BY <1>1 DEF MatchStates
    <3> DEFINE z == [s EXCEPT !.fResigned = 0, !.fResignationDeclined = 0]
    <3>7. ApplySetDice(playing, r) = [z EXCEPT !.gs = "GAME_PLAYING", !.anDice = d, !.fDoubled = FALSE,
                                               !.fTurn = p, !.fMove = p, !.anBoard = board]
      BY <1>1, <3>4 DEF MatchStates
    <3>8. z = s
      BY <3>6
    <3> HIDE DEF z
    <3> QED BY <3>5, <3>7, <3>8
  <2> QED BY <1>9, <2>1, <2>2, <2>3, <2>4 DEF t
<1> QED BY <1>7, <1>8, <1>9 DEF s

\* The states of a run.
LEMMA RunStates ==
  ASSUME NEW game \in MatchGames, GoodInfo(game.info), game.moves # <<>>, NEW f, Run(f, game)
  PROVE  /\ \A k \in 0..Len(game.moves) : /\ f[k] \in States /\ SameMatch(f[k], game.info)
                                          /\ InPlay(f[k], game.info) \/ IsOver(f[k], game.info)
         /\ \A k \in 0..(Len(game.moves) - 1) :
              Applied(f[k], game.info, game.moves[k + 1]) = [ms |-> f[k + 1], info |-> game.info]
         /\ \A k \in 1..Len(game.moves) : After(f[k], game.info, game.moves[k])
<1> DEFINE last == Len(game.moves)
           info == game.info
<1>1. last \in Nat /\ last > 0 /\ info \in Infos /\ game.moves[1] \in Records
  BY DEF MatchGames
<1>2. \A j \in 0..(last - 1) :
        LET g == Applied(f[j], info, game.moves[j + 1])
        IN /\ InPlay(f[j], info) /\ Legal(f[j], game.moves[j + 1])
           /\ f[j + 1] = g.ms /\ g.info = info /\ After(g.ms, g.info, game.moves[j + 1])
  BY DEF Run
<1>3. f[0] = Opened(info, game.moves[1].fPlayer)
  BY DEF Run
<1> HIDE DEF last, info
<1>4. ASSUME NEW k \in 1..last
      PROVE  After(f[k], info, game.moves[k])
  <2>1. k - 1 \in 0..(last - 1) /\ (k - 1) + 1 = k
    BY <1>1
  <2> QED BY <1>2, <2>1
<1>5. ASSUME NEW k \in 0..last
      PROVE  f[k] \in States /\ SameMatch(f[k], info) /\ (InPlay(f[k], info) \/ IsOver(f[k], info))
  <2>1. CASE k = 0
    <3>1. game.moves[1].fPlayer \in Players
      BY <1>1, MatchTypes
    <3>2. GoodInfo(info)
      BY DEF info
    <3> QED BY <1>1, <1>3, <2>1, <3>1, <3>2, OpenedPlays
  <2>2. CASE k # 0
    <3>1. k \in 1..last
      BY <1>1, <2>2
    <3> QED BY <1>4, <3>1 DEF After
  <2> QED BY <2>1, <2>2
<1>6. ASSUME NEW k \in 0..(last - 1)
      PROVE  Applied(f[k], info, game.moves[k + 1]) = [ms |-> f[k + 1], info |-> info]
  <2>1. f[k] \in States /\ game.moves[k + 1] \in Records
    <3>1. k \in 0..last
      BY <1>1
    <3>2. f[k] \in States
      BY <1>5, <3>1
    <3>3. game.moves[k + 1] \in Records
      BY <1>2 DEF Legal
    <3> QED BY <3>2, <3>3
  <2>2. Applied(f[k], info, game.moves[k + 1]) = [ms |-> Applied(f[k], info, game.moves[k + 1]).ms,
                                                  info |-> Applied(f[k], info, game.moves[k + 1]).info]
    BY <1>1, <2>1, AppliedPair
  <2> QED BY <1>2, <2>2
<1> QED BY <1>4, <1>5, <1>6 DEF last, info

\* A state to which a legal record can be added need not be repaired for it.
LEMMA LegalIsFixed ==
  ASSUME NEW t, NEW r, Legal(t, r)
  PROVE  FixMatchState(t, r) = t
BY DEF Legal, FixMatchState

\* CalculateBoard gives the states of a run.
LEMMA ReplayIsRun ==
  ASSUME NEW game \in MatchGames, GoodInfo(game.info), game.moves # <<>>,
         game.moves[1].mt \in {"MOVE_SETDICE", "MOVE_NORMAL"}, NEW f, Run(f, game)
  PROVE  /\ \A k \in 1..Len(game.moves) : CalculateBoard(game, k) = [ms |-> f[k], info |-> game.info]
         /\ \A k \in 0..Len(game.moves) : Trace(game)[k] = f[k]
         /\ Run(Trace(game), game)
<1> DEFINE last == Len(game.moves)
           info == game.info
           S == {n \in Nat : n + 1 <= last => CalculateBoard(game, n + 1) = [ms |-> f[n + 1], info |-> info]}
<1>1. last \in Nat /\ last > 0 /\ info \in Infos /\ game.moves[1] \in Records /\ info \in GameInfos
  BY MatchTypes DEF MatchGames
<1>2. \A k \in 0..(last - 1) : /\ Applied(f[k], info, game.moves[k + 1]) = [ms |-> f[k + 1], info |-> info]
                               /\ Legal(f[k], game.moves[k + 1])
  BY RunStates DEF Run
<1>3. ASSUME NEW k \in Nat, k <= last
      PROVE  FixForNext(game, k, [ms |-> f[k], info |-> info]) = [ms |-> f[k], info |-> info]
  <2>1. CASE k < last
    <3>1. k \in 0..(last - 1)
      BY <1>1, <2>1
    <3>2. FixMatchState(f[k], game.moves[k + 1]) = f[k]
      BY <1>2, <3>1, LegalIsFixed
    <3> QED BY <2>1, <3>2 DEF FixForNext
  <2>2. CASE ~(k < last)
    BY <2>2 DEF FixForNext
  <2> QED BY <2>1, <2>2
<1>4. CalculateBoard(game, 1) = [ms |-> f[1], info |-> info]
  <2> DEFINE r == game.moves[1]
             m == FixMatchState(StartState(info), r)
  <2>1. CalculateBoard(game, 0) = [ms |-> m, info |-> info]
    <3>1. 0 < last /\ game.moves[0 + 1] = r
      BY <1>1
    <3>2. CalculateBoard(game, 0) = FixForNext(game, 0, [ms |-> StartState(info), info |-> info])
      BY CalculateBoardFirst DEF FirstState
    <3> QED BY <3>1, <3>2 DEF FixForNext
  <2>2. CalculateBoard(game, 1) = NextState(game, 1, CalculateBoard(game, 0))
    <3>1. 0 \in Nat /\ 0 + 1 = 1
      OBVIOUS
    <3> QED BY <3>1, CalculateBoardThen
  <2>3. ApplyMoveRecord(CalculateBoard(game, 0), r) = Applied(m, info, r)
    BY <2>1 DEF Applied
  <2>4. Applied(m, info, r) = Applied(Opened(info, r.fPlayer), info, r)
    BY <1>1, FirstRecord
  <2>5. f[0] = Opened(info, r.fPlayer)
    BY DEF Run
  <2>6. 0 \in 0..(last - 1) /\ 0 + 1 = 1
    BY <1>1
  <2>7. Applied(f[0], info, r) = [ms |-> f[1], info |-> info]
    BY <1>2, <2>6
  <2> HIDE DEF r, m, info, last
  <2>8. CalculateBoard(game, 1) = FixForNext(game, 1, [ms |-> f[1], info |-> info])
    BY <2>2, <2>3, <2>4, <2>5, <2>7 DEF NextState, r
  <2>9. 1 \in Nat /\ 1 <= last
    BY <1>1
  <2> QED BY <1>3, <2>8, <2>9
<1>5. 0 \in S
  BY <1>4
<1>6. ASSUME NEW n \in Nat, n \in S PROVE n + 1 \in S
  <2>1. SUFFICES ASSUME n + 2 <= last PROVE CalculateBoard(game, n + 2) = [ms |-> f[n + 2], info |-> info]
    OBVIOUS
  <2> DEFINE k == n + 1
  <2>2. k \in Nat /\ k + 1 = n + 2 /\ k \in 0..(last - 1) /\ k + 1 <= last /\ k + 1 \in Nat
    BY <1>1, <2>1
  <2>3. CalculateBoard(game, k) = [ms |-> f[k], info |-> info]
    BY <1>6, <2>1
  <2> HIDE DEF k, info, last
  <2>4. CalculateBoard(game, k + 1) = NextState(game, k + 1, [ms |-> f[k], info |-> info])
    BY <2>2, <2>3, CalculateBoardThen
  <2>5. CalculateBoard(game, k + 1) = FixForNext(game, k + 1, [ms |-> f[k + 1], info |-> info])
    BY <1>2, <2>2, <2>4 DEF NextState, Applied
  <2>6. CalculateBoard(game, k + 1) = [ms |-> f[k + 1], info |-> info]
    BY <1>3, <2>2, <2>5
  <2> QED BY <2>2, <2>6
<1> HIDE DEF S
<1>7. Nat \subseteq S
  BY <1>5, <1>6, AllNumbers
<1>8. \A k \in 1..last : CalculateBoard(game, k) = [ms |-> f[k], info |-> info]
  <2> TAKE k \in 1..last
  <2>1. k - 1 \in Nat /\ (k - 1) + 1 = k /\ k <= last
    BY <1>1
  <2> DEFINE n == k - 1
  <2>2. n \in S /\ n + 1 <= last /\ n + 1 = k
    BY <1>7, <2>1
  <2> HIDE DEF n
  <2> QED BY <2>2 DEF S
<1>9. \A k \in 0..last : Trace(game)[k] = f[k]
  <2> TAKE k \in 0..last
  <2>1. CASE k = 0
    BY <2>1 DEF Trace, Run
  <2>2. CASE k # 0
    <3>1. k \in 1..last
      BY <1>1, <2>2
    <3>2. CalculateBoard(game, k).ms = f[k]
      BY <1>8, <3>1
    <3> QED BY <2>2, <3>2 DEF Trace
  <2> QED BY <2>1, <2>2
<1>10. Run(Trace(game), game)
  <2>1. \A k \in 0..(last - 1) : k \in 0..last /\ k + 1 \in 0..last
    BY <1>1
  <2>2. 0 \in 0..last
    BY <1>1
  <2> DEFINE g == Trace(game)
  <2>3. \A k \in 0..(last - 1) : g[k] = f[k] /\ g[k + 1] = f[k + 1]
    BY <1>9, <2>1
  <2>4. g[0] = f[0]
    BY <1>9, <2>2
  <2> HIDE DEF g
  <2>5. Run(g, game)
    BY <2>3, <2>4 DEF Run
  <2> QED BY <2>5 DEF g
<1> QED BY <1>8, <1>9, <1>10

\* The states f of a game before its last record.
SoFar(f, info, moves, n) ==
    /\ \A j \in 0..n : f[j] \in States /\ SameMatch(f[j], info) /\ InPlay(f[j], info)
    /\ \A j \in 1..n : /\ Legal(f[j - 1], moves[j]) /\ Applied(f[j - 1], info, moves[j]).ms = f[j]
                      /\ After(f[j], info, moves[j])

\* They lead on to a last record r, after which the game is new.
LeadTo(f, info, moves, n, r, longer, g, new) ==
    /\ info \in Infos /\ GoodInfo(info) /\ moves \in Seq(Records) /\ n = Len(moves) /\ r \in Records
    /\ longer = Append(moves, r) /\ longer[1].mt \in {"MOVE_SETDICE", "MOVE_NORMAL"}
    /\ f[0] = Opened(info, longer[1].fPlayer) /\ SoFar(f, info, moves, n)
    /\ Legal(f[n], r) /\ g = Applied(f[n], info, r) /\ new = [info |-> g.info, moves |-> longer]

\* A run, longer by a legal record, is one of a good game.
LEMMA Extend ==
  ASSUME NEW f, NEW info, NEW moves, NEW n, NEW r, NEW longer, NEW g, NEW new,
         LeadTo(f, info, moves, n, r, longer, g, new)
  PROVE  Good(new) /\ Trace(new)[n + 1] = g.ms /\ Step(g, info, r)
<1> USE DEF LeadTo
<1> DEFINE F == [j \in 0..(n + 1) |-> IF j = n + 1 THEN g.ms ELSE f[j]]
           other == g.info
<1>0. /\ \A j \in 0..n : f[j] \in States /\ SameMatch(f[j], info) /\ InPlay(f[j], info)
      /\ \A j \in 1..n : /\ Legal(f[j - 1], moves[j]) /\ Applied(f[j - 1], info, moves[j]).ms = f[j]
                         /\ After(f[j], info, moves[j])
  BY DEF SoFar
<1>1. n \in Nat /\ longer \in Seq(Records) /\ Len(longer) = n + 1 /\ longer[n + 1] = r
      /\ \A j \in 1..n : longer[j] = moves[j]
  OBVIOUS
<1>2. Step(g, info, r)
  <2>1. n \in 0..n
    BY <1>1
  <2> QED BY <1>0, <2>1, StepAfter
<1>3. other \in Infos /\ SameGame(info, other)
  BY <1>2 DEF Step
<1> HIDE DEF other
<1>4. /\ \A p : Opened(other, p) = Opened(info, p)
      /\ \A t : (InPlay(t, other) <=> InPlay(t, info)) /\ (SameMatch(t, other) <=> SameMatch(t, info))
  BY <1>3, SamePlay
<1>5. new \in MatchGames /\ new.info = other /\ new.moves = longer
  BY <1>1, <1>3 DEF MatchGames, other
<1>6. GoodInfo(other) /\ longer # <<>>
  BY <1>1, <1>3 DEF GoodInfo, SameGame
<1>7. ASSUME NEW j \in 0..n
      PROVE  LET h == Applied(f[j], other, longer[j + 1])
             IN /\ InPlay(f[j], other) /\ Legal(f[j], longer[j + 1])
                /\ F[j + 1] = h.ms /\ h.info = other /\ After(h.ms, h.info, longer[j + 1])
  <2>1. f[j] \in States /\ SameMatch(f[j], info) /\ InPlay(f[j], info) /\ InPlay(f[j], other)
    BY <1>0, <1>4
  <2>2. CASE j = n
    <3>1. /\ Applied(f[n], other, r).ms = g.ms
          /\ InPlay(g.ms, info) => g.info = info /\ Applied(f[n], other, r).info = other
          /\ ~InPlay(g.ms, info) => Applied(f[n], other, r).info = g.info
      BY <1>3, <2>1, <2>2, SameStep
    <3>2. Applied(f[n], other, r).info = other
      BY <3>1 DEF other
    <3>3. F[n + 1] = g.ms /\ After(g.ms, other, r)
      BY <1>1, <1>2 DEF Step, other
    <3> QED BY <1>1, <2>1, <2>2, <3>1, <3>2, <3>3
  <2>3. CASE j # n
    <3> DEFINE k == j + 1
    <3>1. k \in 1..n /\ k - 1 = j /\ k # n + 1 /\ k \in 0..n /\ k \in 0..(n + 1)
      BY <1>1, <2>3
    <3> HIDE DEF k
    <3>2. /\ Legal(f[j], moves[k]) /\ Applied(f[j], info, moves[k]).ms = f[k] /\ After(f[k], info, moves[k])
          /\ longer[k] = moves[k] /\ InPlay(f[k], info) /\ F[k] = f[k]
      BY <1>0, <1>1, <3>1
    <3>3. Applied(f[j], other, moves[k]).ms = f[k] /\ Applied(f[j], other, moves[k]).info = other
      BY <1>3, <2>1, <3>2, SameStep
    <3>4. After(f[k], other, moves[k])
      BY <1>4, <3>2 DEF After
    <3> QED BY <2>1, <3>2, <3>3, <3>4 DEF k
  <2> QED BY <2>2, <2>3
<1>8. F[0] = Opened(other, longer[1].fPlayer) /\ \A j \in 0..n : F[j] = f[j]
  BY <1>1, <1>4
<1>9. F[n + 1] = g.ms
  BY <1>1
<1> HIDE DEF F
<1>10. Run(F, new)
  <2>1. Len(new.moves) - 1 = n
    BY <1>1, <1>5
  <2> QED BY <1>5, <1>7, <1>8, <2>1 DEF Run
<1>11. /\ \A k \in 0..Len(new.moves) : Trace(new)[k] = F[k]
       /\ Run(Trace(new), new)
  BY <1>5, <1>6, <1>10, ReplayIsRun, SMTT(30)
<1>12. n + 1 \in 0..Len(new.moves)
  BY <1>1, <1>5
<1> QED BY <1>2, <1>5, <1>6, <1>9, <1>11, <1>12 DEF Good

-----------------------------------------------------------------------------
(* A record that replaces the one before it gives what it would without.   *)

\* The later change counts.
LEMMA WithTwice ==
  ASSUME NEW t \in MatchStates,
         NEW b1, NEW m1, NEW t1, NEW o1, NEW d1, NEW v1, NEW x1, NEW c1,
         NEW b2, NEW m2, NEW t2, NEW o2, NEW d2, NEW v2, NEW x2, NEW c2
  PROVE  With(With(t, b1, m1, t1, o1, d1, v1, x1, c1), b2, m2, t2, o2, d2, v2, x2, c2)
            = With(t, b2, m2, t2, o2, d2, v2, x2, c2)
BY ZenonT(60) DEF With, MatchStates

\* A record that AddMoveRecord replaces might as well not have been there.
LEMMA Elision ==
  ASSUME NEW info \in Infos, NEW t \in States, SameMatch(t, info), InPlay(t, info),
         NEW old, Legal(t, old), NEW u, u = Applied(t, info, old).ms, InPlay(u, info),
         NEW r, Legal(u, r), Elides(r, old)
  PROVE  Legal(t, r) /\ Applied(u, info, r) = Applied(t, info, r)
<1>1. /\ t \in MatchStates /\ t.gs = "GAME_PLAYING" /\ t.fResigned = 0 /\ t.fResignationDeclined = 0
      /\ t.fMove \in Players /\ (~t.fDoubled => t.fTurn = t.fMove)
  BY MatchTypes DEF InPlay
<1>2. u.gs = "GAME_PLAYING" /\ u.fResigned = 0 /\ u.fResignationDeclined = 0 /\ u.fMove \in Players
  BY DEF InPlay
<1>3. u \in States /\ u \in MatchStates
  BY StepAfter, MatchTypes DEF Step, After
<1>4. PICK no \in Flags : no = FALSE
  BY DEF Flags
<1>5. CASE old.mt = "MOVE_SETDICE"
  <2>1. old.fPlayer = t.fMove /\ ~t.fDoubled /\ t.fTurn = t.fMove
    BY <1>1, <1>5 DEF Legal, Sets
  <2>2. u = With(t, t.anBoard, t.fMove, t.fMove, t.fCubeOwner, old.anDice, t.cBeavers, no, t.nCube)
    <3>1. u = ApplySetDice(t, old)
      BY <1>1, <1>5, Effects
    <3> QED BY <1>1, <1>4, <2>1, <3>1, SetWith
  <2>3. /\ u.anBoard = t.anBoard /\ u.fMove = t.fMove /\ u.fTurn = t.fMove /\ u.fCubeOwner = t.fCubeOwner
        /\ u.cBeavers = t.cBeavers /\ u.fDoubled = no /\ u.nCube = t.nCube /\ u.nMatchTo = t.nMatchTo
        /\ u.fCrawford = t.fCrawford
    BY <1>1, <2>2 DEF With, MatchStates
  <2>4. CASE r.mt = "MOVE_NORMAL"
    <3>1. r.fPlayer = t.fMove
      BY <2>3, <2>4 DEF Legal
    <3>2. Legal(t, r)
      BY <2>1, <2>4, <3>1 DEF Legal, Sets, CubeKinds
    <3>3. Played(u, r) = Played(t, r)
      <4>1. PICK board, other : board = Moved(t.anBoard, r) /\ other = Opponent(r.fPlayer)
        OBVIOUS
      <4>2. /\ Played(t, r) = With(t, board, other, other, t.fCubeOwner, None, t.cBeavers, no, t.nCube)
            /\ Played(u, r) = With(u, board, other, other, t.fCubeOwner, None, t.cBeavers, no, t.nCube)
        BY <1>4, <2>3, <4>1 DEF Played
      <4> QED BY <1>1, <2>2, <4>2, WithTwice
    <3>4. Counts(u, GameStatus(Moved(t.anBoard, r))) = Counts(t, GameStatus(Moved(t.anBoard, r)))
      BY <2>3 DEF Counts
    <3>5. ApplyNormal(u, info, r) = ApplyNormal(t, info, r)
      BY <1>1, <1>3, <2>3, <3>1, <3>3, <3>4, NormalWith
    <3>6. Applied(u, info, r) = ApplyNormal(u, info, r) /\ Applied(t, info, r) = ApplyNormal(t, info, r)
      BY <1>1, <1>2, <1>3, <2>4, Effects
    <3> QED BY <3>2, <3>5, <3>6
  <2>5. CASE r.mt = "MOVE_SETDICE"
    <3>1. r.fPlayer = t.fMove /\ r.fPlayer = u.fMove
      BY <2>3, <2>5 DEF Legal, Sets
    <3>2. Legal(t, r)
      BY <2>1, <2>5, <3>1 DEF Legal, Sets, CubeKinds
    <3>3. /\ ApplySetDice(t, r) =
               With(t, t.anBoard, t.fMove, t.fMove, t.fCubeOwner, r.anDice, t.cBeavers, no, t.nCube)
          /\ ApplySetDice(u, r) =
               With(u, u.anBoard, u.fMove, u.fMove, u.fCubeOwner, r.anDice, u.cBeavers, no, u.nCube)
      BY <1>1, <1>2, <1>3, <1>4, <3>1, SetWith
    <3>4. ApplySetDice(u, r) = ApplySetDice(t, r)
      BY <1>1, <2>2, <2>3, <3>3, WithTwice
    <3> QED BY <1>1, <1>2, <1>3, <2>5, <3>2, <3>4, Effects
  <2> QED BY <1>5, <2>4, <2>5 DEF Elides
<1>6. CASE old.mt = "MOVE_SETBOARD" /\ r.mt = "MOVE_SETBOARD"
  <2> DEFINE board == IF t.fMove = 1 THEN SwapSides(old.key) ELSE old.key
             again == IF t.fMove = 1 THEN SwapSides(r.key) ELSE r.key
  <2>1. ~t.fDoubled
    BY <1>6 DEF Legal
  <2>2. ApplySetBoard(t, old) = With(t, board, t.fMove, t.fTurn, t.fCubeOwner,
                                     t.anDice, t.cBeavers, t.fDoubled, t.nCube)
    BY <1>1, <1>4, SetWith
  <2>3. u = ApplySetBoard(t, old)
    BY <1>1, <1>6, Effects
  <2> HIDE DEF board
  <2>4. /\ u.fMove = t.fMove /\ u.fTurn = t.fTurn /\ u.fCubeOwner = t.fCubeOwner /\ u.anDice = t.anDice
        /\ u.cBeavers = t.cBeavers /\ u.fDoubled = t.fDoubled /\ u.nCube = t.nCube /\ u.fCrawford = t.fCrawford
    BY <1>1, <2>2, <2>3 DEF With, MatchStates
  <2>5. Legal(t, r)
    BY <1>6, <2>1, <2>4 DEF Legal, Sets, CubeKinds
  <2>6. ApplySetBoard(u, r) = With(u, again, u.fMove, u.fTurn, u.fCubeOwner, u.anDice, u.cBeavers, u.fDoubled, u.nCube)
    BY <1>2, <1>3, <1>4, <2>4, SetWith
  <2>7. ApplySetBoard(t, r) = With(t, again, t.fMove, t.fTurn, t.fCubeOwner, t.anDice, t.cBeavers, t.fDoubled, t.nCube)
    BY <1>1, <1>4, SetWith
  <2> HIDE DEF again
  <2>8. ApplySetBoard(u, r) = ApplySetBoard(t, r)
    BY <1>1, <2>2, <2>3, <2>4, <2>6, <2>7, WithTwice
  <2> QED BY <1>1, <1>2, <1>3, <1>6, <2>5, <2>8, Effects
<1>7. CASE old.mt = r.mt /\ r.mt \in {"MOVE_SETCUBEVAL", "MOVE_SETCUBEPOS"}
  <2>1. PICK value, owner : /\ u = With(t, t.anBoard, t.fMove, t.fMove, owner, t.anDice, t.cBeavers, no, value)
                            /\ r.mt = "MOVE_SETCUBEVAL" => owner = t.fCubeOwner
                            /\ r.mt = "MOVE_SETCUBEPOS" => value = t.nCube
    <3>1. CASE r.mt = "MOVE_SETCUBEVAL"
      <4>1. u = ApplySetCube(t, old.nCube, t.fCubeOwner)
        BY <1>1, <1>7, <3>1, Effects
      <4>2. u = With(t, t.anBoard, t.fMove, t.fMove, t.fCubeOwner, t.anDice, t.cBeavers, no, old.nCube)
        BY <1>1, <1>4, <4>1, SetCubeWith
      <4> QED BY <3>1, <4>2
    <3>2. CASE r.mt = "MOVE_SETCUBEPOS"
      <4>1. u = ApplySetCube(t, t.nCube, old.fCubeOwner)
        BY <1>1, <1>7, <3>2, Effects
      <4> QED BY <1>1, <1>4, <3>2, <4>1, SetCubeWith
    <3> QED BY <1>7, <3>1, <3>2
  <2>2. /\ u.anBoard = t.anBoard /\ u.fMove = t.fMove /\ u.fTurn = t.fMove /\ u.fCubeOwner = owner
        /\ u.anDice = t.anDice /\ u.cBeavers = t.cBeavers /\ u.nCube = value /\ u.fCrawford = t.fCrawford
    BY <1>1, <2>1 DEF With, MatchStates
  <2>3. Legal(t, r)
    BY <1>7, <2>2 DEF Legal, Sets, CubeKinds
  <2>4. ASSUME NEW v, NEW o
        PROVE  ApplySetCube(u, v, o) = ApplySetCube(t, v, o)
    <3>1. ApplySetCube(t, v, o) = With(t, t.anBoard, t.fMove, t.fMove, o, t.anDice, t.cBeavers, no, v)
      BY <1>1, <1>4, SetCubeWith
    <3>2. ApplySetCube(u, v, o) = With(u, u.anBoard, u.fMove, u.fMove, o, u.anDice, u.cBeavers, no, v)
      BY <1>2, <1>3, <1>4, SetCubeWith
    <3> QED BY <1>1, <2>1, <2>2, <3>1, <3>2, WithTwice
  <2>5. CASE r.mt = "MOVE_SETCUBEVAL"
    <3>1. u.fCubeOwner = t.fCubeOwner
      BY <2>1, <2>2, <2>5
    <3>2. ApplySetCube(u, r.nCube, u.fCubeOwner) = ApplySetCube(t, r.nCube, t.fCubeOwner)
      BY <2>4, <3>1
    <3> QED BY <1>1, <1>2, <1>3, <2>3, <2>5, <3>2, Effects
  <2>6. CASE r.mt = "MOVE_SETCUBEPOS"
    <3>1. u.nCube = t.nCube
      BY <2>1, <2>2, <2>6
    <3>2. ApplySetCube(u, u.nCube, r.fCubeOwner) = ApplySetCube(t, t.nCube, r.fCubeOwner)
      BY <2>4, <3>1
    <3> QED BY <1>1, <1>2, <1>3, <2>3, <2>6, <3>2, Effects
  <2> QED BY <1>7, <2>5, <2>6
<1> QED BY <1>5, <1>6, <1>7 DEF Elides, Sets

-----------------------------------------------------------------------------
(* A record added to a game at any of its places.                          *)

\* What is known of the states of a game.
LEMMA GameStates ==
  ASSUME NEW game, Good(game), NEW k \in 0..Len(game.moves)
  PROVE  /\ game.info \in Infos /\ GoodInfo(game.info) /\ game.moves \in Seq(Records) /\ Len(game.moves) \in Nat \ {0}
         /\ Trace(game)[k] \in States /\ SameMatch(Trace(game)[k], game.info)
         /\ Trace(game)[k].gs = "GAME_PLAYING" => InPlay(Trace(game)[k], game.info)
         /\ Trace(game)[k].gs # "GAME_PLAYING" => IsOver(Trace(game)[k], game.info)
         /\ k < Len(game.moves) => /\ InPlay(Trace(game)[k], game.info) /\ Trace(game)[k].gs = "GAME_PLAYING"
                                   /\ Legal(Trace(game)[k], game.moves[k + 1])
                                   /\ Applied(Trace(game)[k], game.info, game.moves[k + 1])
                                        = [ms |-> Trace(game)[k + 1], info |-> game.info]
         /\ k > 0 => After(Trace(game)[k], game.info, game.moves[k])
<1> DEFINE f == Trace(game)
<1>1. game \in MatchGames /\ GoodInfo(game.info) /\ game.moves # <<>> /\ Run(f, game)
  BY DEF Good
<1>2. game.info \in Infos /\ game.moves \in Seq(Records) /\ Len(game.moves) \in Nat \ {0}
  BY <1>1 DEF MatchGames
<1> HIDE DEF f
<1>3. /\ f[k] \in States /\ SameMatch(f[k], game.info) /\ (InPlay(f[k], game.info) \/ IsOver(f[k], game.info))
  BY <1>1, RunStates
<1>4. (f[k].gs = "GAME_PLAYING" => ~IsOver(f[k], game.info)) /\ (InPlay(f[k], game.info) => f[k].gs = "GAME_PLAYING")
  BY DEF IsOver, InPlay, OverKinds
<1>5. ASSUME k < Len(game.moves)
      PROVE  /\ InPlay(f[k], game.info) /\ Legal(f[k], game.moves[k + 1])
             /\ Applied(f[k], game.info, game.moves[k + 1]) = [ms |-> f[k + 1], info |-> game.info]
  <2>1. k \in 0..(Len(game.moves) - 1)
    BY <1>2, <1>5
  <2>2. Applied(f[k], game.info, game.moves[k + 1]) = [ms |-> f[k + 1], info |-> game.info]
    BY <1>1, <2>1, RunStates
  <2> QED BY <1>1, <2>1, <2>2 DEF Run
<1>6. ASSUME k > 0
      PROVE  After(f[k], game.info, game.moves[k])
  <2>1. k \in 1..Len(game.moves)
    BY <1>2, <1>6
  <2> QED BY <1>1, <2>1, RunStates
<1> QED BY <1>1, <1>2, <1>3, <1>4, <1>5, <1>6 DEF f

\* The records kept, of which the last goes when the new one replaces it.
Kept(game, k, r) ==
    LET kept == SubSeq(game.moves, 1, k)
    IN IF kept # <<>> /\ Elides(r, Last(kept)) THEN Front(kept) ELSE kept

\* What AddMoveRecord keeps are the first k records, or all but the last of them.
LEMMA KeptRecords ==
  ASSUME NEW game, game.moves \in Seq(Records), NEW k \in 1..Len(game.moves), NEW r
  PROVE  /\ Kept(game, k, r) \in Seq(Records)
         /\ \A j \in 1..Len(Kept(game, k, r)) : Kept(game, k, r)[j] = game.moves[j]
         /\ Elides(r, game.moves[k]) => Len(Kept(game, k, r)) = k - 1
         /\ ~Elides(r, game.moves[k]) => Len(Kept(game, k, r)) = k
<1> DEFINE kept == SubSeq(game.moves, 1, k)
<1>1. /\ kept \in Seq(Records) /\ Len(kept) = k /\ kept # <<>> /\ k \in Nat
      /\ \A j \in 1..k : kept[j] = game.moves[j]
  OBVIOUS
<1> HIDE DEF kept
<1>2. Last(kept) = game.moves[k]
  BY <1>1 DEF Last
<1>3. /\ Front(kept) \in Seq(Records) /\ Len(Front(kept)) = k - 1
      /\ \A j \in 1..(k - 1) : Front(kept)[j] = game.moves[j]
  BY <1>1 DEF Front
<1>4. Kept(game, k, r) = IF Elides(r, game.moves[k]) THEN Front(kept) ELSE kept
  BY <1>1, <1>2 DEF Kept, kept
<1> QED BY <1>1, <1>3, <1>4

\* With record r after place k of a game in play, the game is new.
IsLonger(game, k, t, r, g, before, new) ==
    /\ Good(game) /\ k \in 1..Len(game.moves) /\ t = Trace(game)[k] /\ t.gs = "GAME_PLAYING" /\ Legal(t, r)
    /\ g = Applied(t, game.info, r) /\ before = Kept(game, k, r)
    /\ new = [info |-> g.info, moves |-> Append(before, r)]

\* So a good game, cut at any place and extended by a legal record, is good.
LEMMA Extended ==
  ASSUME NEW game, NEW k, NEW t, NEW r, NEW g, NEW before, NEW new, IsLonger(game, k, t, r, g, before, new)
  PROVE  /\ Good(new) /\ Len(new.moves) = Len(before) + 1 /\ Len(before) \in Nat
         /\ Trace(new)[Len(before) + 1] = g.ms /\ Step(g, game.info, r)
<1> USE DEF IsLonger
<1> DEFINE f == Trace(game)
           info == game.info
           n == Len(before)
           longer == Append(before, r)
<1>1. /\ info \in Infos /\ GoodInfo(info) /\ game.moves \in Seq(Records) /\ Len(game.moves) \in Nat \ {0}
      /\ r \in Records /\ game.moves[1].mt \in {"MOVE_SETDICE", "MOVE_NORMAL"}
      /\ f[0] = Opened(info, game.moves[1].fPlayer)
  <2>1. k \in 0..Len(game.moves)
    BY DEF Good, MatchGames
  <2>2. info \in Infos /\ GoodInfo(info) /\ game.moves \in Seq(Records) /\ Len(game.moves) \in Nat \ {0}
    BY <2>1, GameStates
  <2> QED BY <2>2 DEF Legal, Good, Run
<1>2. /\ before \in Seq(Records) /\ \A j \in 1..n : before[j] = game.moves[j]
      /\ (Elides(r, game.moves[k]) => n = k - 1) /\ (~Elides(r, game.moves[k]) => n = k)
  BY <1>1, KeptRecords
<1>3. \A j \in 0..k : f[j] \in States /\ SameMatch(f[j], info) /\ InPlay(f[j], info)
  <2> TAKE j \in 0..k
  <2>1. j \in 0..Len(game.moves) /\ (j # k => j < Len(game.moves)) /\ k \in 0..Len(game.moves)
    BY <1>1
  <2>2. f[j] \in States /\ SameMatch(f[j], info)
    BY <2>1, GameStates
  <2>3. CASE j = k
    BY <2>1, <2>2, <2>3, GameStates
  <2>4. CASE j # k
    BY <2>1, <2>2, <2>4, GameStates
  <2> QED BY <2>3, <2>4
<1>4. \A j \in 1..k : /\ Legal(f[j - 1], game.moves[j]) /\ Applied(f[j - 1], info, game.moves[j]).ms = f[j]
                      /\ After(f[j], info, game.moves[j])
  <2> TAKE j \in 1..k
  <2> DEFINE i == j - 1
  <2>1. i \in 0..Len(game.moves) /\ i < Len(game.moves) /\ i + 1 = j /\ j \in 0..Len(game.moves) /\ j > 0
    BY <1>1
  <2> HIDE DEF i, f
  <2>2. Legal(f[i], game.moves[j]) /\ Applied(f[i], info, game.moves[j]) = [ms |-> f[j], info |-> info]
    BY <2>1, GameStates DEF f
  <2>3. After(f[j], info, game.moves[j])
    BY <2>1, GameStates DEF f
  <2> QED BY <2>2, <2>3 DEF i
<1> HIDE DEF f, info
<1>5. k \in Nat /\ k > 0 /\ n \in Nat /\ n <= k /\ k \in 1..k /\ k \in 0..k /\ 1 \in 1..k
  BY <1>1, <1>2
<1>6. Legal(f[n], r) /\ g = Applied(f[n], info, r)
  <2>1. Legal(f[k], r) /\ g = Applied(f[k], info, r)
    BY DEF f, info
  <2>2. CASE Elides(r, game.moves[k])
    <3>1. n = k - 1 /\ n \in 0..k
      BY <1>2, <1>5, <2>2
    <3>2. f[n] \in States /\ SameMatch(f[n], info) /\ InPlay(f[n], info)
      BY <1>3, <3>1
    <3>3. Legal(f[n], game.moves[k]) /\ f[k] = Applied(f[n], info, game.moves[k]).ms
      BY <1>4, <1>5, <3>1
    <3>4. InPlay(f[k], info)
      BY <1>3, <1>5
    <3> HIDE DEF n
    <3>5. Legal(f[n], r) /\ Applied(f[k], info, r) = Applied(f[n], info, r)
      BY <1>1, <2>1, <2>2, <3>2, <3>3, <3>4, Elision
    <3> QED BY <2>1, <3>5
  <2>3. CASE ~Elides(r, game.moves[k])
    BY <1>2, <2>1, <2>3
  <2> QED BY <2>2, <2>3
<1>7. longer \in Seq(Records) /\ Len(longer) = n + 1 /\ longer[n + 1] = r /\ \A j \in 1..n : longer[j] = game.moves[j]
  BY <1>1, <1>2
<1>8. longer[1].mt \in {"MOVE_SETDICE", "MOVE_NORMAL"} /\ longer[1].fPlayer = game.moves[1].fPlayer
  <2>1. CASE n = 0
    <3>1. k = 1 /\ Elides(r, game.moves[1]) /\ longer[1] = r
      BY <1>2, <1>5, <1>7, <2>1
    <3> QED BY <1>1, <3>1 DEF Elides, Sets
  <2>2. CASE n # 0
    <3>1. longer[1] = game.moves[1]
      BY <1>5, <1>7, <2>2
    <3> QED BY <1>1, <3>1
  <2> QED BY <2>1, <2>2
<1>9. SoFar(f, info, before, n)
  <2>1. (\A j \in 0..n : j \in 0..k) /\ (\A j \in 1..n : j \in 1..k)
    BY <1>5
  <2> HIDE DEF n
  <2> QED BY <1>2, <1>3, <1>4, <2>1 DEF SoFar
<1>10. f[0] = Opened(info, longer[1].fPlayer) /\ new = [info |-> g.info, moves |-> longer]
  BY <1>1, <1>8
<1>13. Len(new.moves) = n + 1
  BY <1>7, <1>10
<1> HIDE DEF longer, n
<1>11. n = Len(before) /\ longer = Append(before, r)
  BY DEF n, longer
<1>12. Good(new) /\ Trace(new)[n + 1] = g.ms /\ Step(g, info, r)
  <2>1. info \in Infos /\ GoodInfo(info) /\ before \in Seq(Records) /\ r \in Records
    BY <1>1, <1>2
  <2>2. LeadTo(f, info, before, n, r, longer, g, new)
    BY <2>1, <1>6, <1>8, <1>9, <1>10, <1>11 DEF LeadTo
  <2> QED BY <2>2, Extend
<1> QED BY <1>5, <1>11, <1>12, <1>13 DEF info

-----------------------------------------------------------------------------
(* A record applied to the live state.                                     *)

\* What applying a record begins with,
Restored(m) == [m EXCEPT !.gs = "GAME_PLAYING", !.fResigned = 0, !.fResignationDeclined = 0]

\* and all it sees of a state.
LEMMA SameRestored ==
  ASSUME NEW m, NEW t, Restored(m) = Restored(t), NEW info, NEW r
  PROVE  Applied(m, info, r) = Applied(t, info, r)
BY DEF Applied, ApplyMoveRecord, Restored

\* The live state of a game in play, and that of its records.
LEMMA LiveFields ==
  ASSUME NEW info, NEW t \in States, InPlay(t, info), NEW m, Agrees(m, t)
  PROVE  /\ m \in States /\ m.gs = "GAME_PLAYING" /\ m.anBoard = t.anBoard /\ m.fMove = t.fMove
         /\ m.fCubeOwner = t.fCubeOwner /\ m.anDice = t.anDice /\ m.cBeavers = t.cBeavers
         /\ m.fDoubled = t.fDoubled /\ m.nCube = t.nCube /\ m.nMatchTo = t.nMatchTo /\ m.anScore = t.anScore
         /\ m.cGames = t.cGames /\ m.fCrawford = t.fCrawford /\ m.fPostCrawford = t.fPostCrawford
         /\ m.fTurn \in Players /\ (m.fResigned = 0 => m.fTurn = t.fTurn)
         /\ m.fResigned # 0 => m.fTurn = Opponent(t.fTurn)
         /\ Restored(m) = [t EXCEPT !.fTurn = m.fTurn]
<1>1. t.gs = "GAME_PLAYING" /\ t.fResigned = 0 /\ t.fResignationDeclined = 0
  BY DEF InPlay
<1> DEFINE a == m.fResigned
           b == m.fResignationDeclined
           c == m.fTurn
<1>2. /\ m.gs = "GAME_PLAYING" /\ m.fCrawford = t.fCrawford /\ m.fPostCrawford = t.fPostCrawford
      /\ c = (IF a = 0 THEN t.fTurn ELSE Opponent(t.fTurn))
      /\ a \in Resignations \cup {0} /\ b \in Resignations \cup {0} /\ c \in Players
      /\ m = [t EXCEPT !.fResigned = a, !.fResignationDeclined = b, !.fTurn = c,
                       !.fCrawford = m.fCrawford, !.fPostCrawford = m.fPostCrawford]
  BY <1>1 DEF Agrees
<1>5. c \in Nobodies
  BY <1>2 DEF Nobodies
<1> HIDE DEF a, b, c
<1>3. m = [t EXCEPT !.fResigned = a, !.fResignationDeclined = b, !.fTurn = c]
  BY <1>2 DEF States
<1>4. m \in States
  BY <1>2, <1>3, <1>5, ZenonT(60) DEF States
<1>6. /\ m.anBoard = t.anBoard /\ m.fMove = t.fMove
      /\ m.fCubeOwner = t.fCubeOwner /\ m.anDice = t.anDice /\ m.cBeavers = t.cBeavers
      /\ m.fDoubled = t.fDoubled /\ m.nCube = t.nCube /\ m.nMatchTo = t.nMatchTo /\ m.anScore = t.anScore
      /\ m.cGames = t.cGames
  BY <1>3 DEF States
<1>7. Restored(m) = [t EXCEPT !.fTurn = c]
  BY <1>1, <1>3 DEF States, Restored
<1> QED BY <1>2, <1>4, <1>6, <1>7 DEF a, c

\* A legal record need not be preceded by another.
LEMMA LiveIsFixed ==
  ASSUME NEW t, NEW m, m.fTurn = t.fTurn, NEW r, Legal(t, r)
  PROVE  FixMatchState(m, r) = m
BY DEF Legal, FixMatchState

\* nor need any state for a record that is neither a move nor a double.
LEMMA OtherIsFixed ==
  ASSUME NEW m, NEW r, r.mt \notin {"MOVE_NORMAL", "MOVE_DOUBLE"}
  PROVE  FixMatchState(m, r) = m
BY DEF FixMatchState

\* What a record gives agrees with itself.
LEMMA AgreesItself ==
  ASSUME NEW t, NEW info, NEW r, After(t, info, r)
  PROVE  Agrees(t, t)
<1>1. t \in States
  BY DEF After
<1>2. t = [t EXCEPT !.fResigned = t.fResigned, !.fResignationDeclined = t.fResignationDeclined,
                    !.fTurn = t.fTurn, !.fCrawford = t.fCrawford, !.fPostCrawford = t.fPostCrawford]
  BY <1>1 DEF States
<1>3. /\ {t.fResigned, t.fResignationDeclined} \subseteq Resignations \cup {0}
      /\ {t.fCrawford, t.fPostCrawford} \subseteq BOOLEAN
  BY <1>1 DEF States
<1>4. CASE InPlay(t, info)
  BY <1>2, <1>3, <1>4 DEF Agrees, InPlay
<1>5. CASE IsOver(t, info)
  <2>1. t.fTurn \in Players /\ t.fResignationDeclined = 0 /\ t.gs # "GAME_PLAYING"
    BY <1>5 DEF IsOver, OverKinds
  <2> QED BY <1>2, <1>3, <2>1 DEF Agrees
<1> QED BY <1>4, <1>5 DEF After

\* The live state goes the way of the records.
Follows(h, g) == /\ h.info = g.info /\ Agrees(h.ms, g.ms)
                 /\ h.ms.fCrawford = g.ms.fCrawford /\ h.ms.fPostCrawford = g.ms.fPostCrawford

\* A player who offers to resign can be followed by a setting of the dice or
\* the cube, or the game ends so.
LEMMA LiveRecord ==
  ASSUME NEW info \in Infos, NEW t \in States, SameMatch(t, info), InPlay(t, info), NEW m, Agrees(m, t),
         NEW r, Legal(t, r),
         m.fResigned = 0 \/ r.mt \in {"MOVE_SETDICE", "MOVE_SETCUBEVAL", "MOVE_SETCUBEPOS", "MOVE_RESIGN"}
  PROVE  /\ Follows(Applied(FixMatchState(m, r), info, r), Applied(t, info, r))
         /\ r.mt # "MOVE_RESIGN" \/ m.fResigned = 0 => Applied(FixMatchState(m, r), info, r) = Applied(t, info, r)
<1> DEFINE g == Applied(t, info, r)
           x == [t EXCEPT !.fTurn = m.fTurn]
<1>1. Step(g, info, r)
  BY StepAfter
<1>2. Follows(g, g)
  BY <1>1, AgreesItself DEF Step, Follows
<1>3. /\ t \in MatchStates /\ t.gs = "GAME_PLAYING" /\ t.fResigned = 0 /\ t.fResignationDeclined = 0
      /\ t.fMove \in Players /\ Restored(t) = t
  BY MatchTypes, AlreadyPlaying DEF InPlay, Restored
<1>4. /\ Restored(m) = x /\ m.fTurn \in Players
      /\ m.fResigned = 0 => m.fTurn = t.fTurn
  BY LiveFields
<1>5. CASE m.fResigned = 0
  <2>1. x = t
    BY <1>3, <1>4, <1>5 DEF MatchStates
  <2>2. FixMatchState(m, r) = m
    BY <1>4, <1>5, LiveIsFixed
  <2>3. Applied(m, info, r) = g
    BY <1>3, <1>4, <2>1, SameRestored
  <2> QED BY <1>2, <2>2, <2>3
<1>6. ASSUME r.mt \in {"MOVE_SETDICE", "MOVE_SETCUBEVAL", "MOVE_SETCUBEPOS", "MOVE_RESIGN"}
      PROVE  /\ FixMatchState(m, r) = m /\ Applied(m, info, r) = Applied(x, info, r)
             /\ x \in MatchStates /\ x.gs = "GAME_PLAYING" /\ x.fResigned = 0 /\ x.fResignationDeclined = 0
             /\ x.fMove = t.fMove /\ x.anBoard = t.anBoard /\ x.fCubeOwner = t.fCubeOwner /\ x.anDice = t.anDice
             /\ x.cBeavers = t.cBeavers /\ x.nCube = t.nCube /\ x.nMatchTo = t.nMatchTo
             /\ x = With(t, t.anBoard, t.fMove, m.fTurn, t.fCubeOwner, t.anDice, t.cBeavers, t.fDoubled, t.nCube)
  <2>1. m.fTurn \in Nobodies
    BY <1>4 DEF Nobodies
  <2>2. /\ x \in MatchStates /\ x.gs = "GAME_PLAYING" /\ x.fResigned = 0 /\ x.fResignationDeclined = 0
        /\ x.fMove = t.fMove /\ x.anBoard = t.anBoard /\ x.fCubeOwner = t.fCubeOwner /\ x.anDice = t.anDice
        /\ x.cBeavers = t.cBeavers /\ x.nCube = t.nCube /\ x.nMatchTo = t.nMatchTo
    BY <1>3, <2>1 DEF MatchStates
  <2>3. x = With(t, t.anBoard, t.fMove, m.fTurn, t.fCubeOwner, t.anDice, t.cBeavers, t.fDoubled, t.nCube)
    BY <1>3 DEF With, MatchStates
  <2> HIDE DEF x
  <2>4. Restored(x) = x
    BY <2>2, AlreadyPlaying DEF Restored
  <2>5. Applied(m, info, r) = Applied(x, info, r)
    BY <1>4, <2>4, SameRestored
  <2>6. FixMatchState(m, r) = m
    BY <1>6, OtherIsFixed
  <2> QED BY <2>2, <2>3, <2>5, <2>6
<1> HIDE DEF x
<1>7. PICK no \in Flags : no = FALSE
  BY DEF Flags
<1>8. CASE r.mt = "MOVE_SETDICE"
  <2>1. r.fPlayer = t.fMove
    BY <1>8 DEF Legal, Sets
  <2>2. /\ ApplySetDice(t, r) =
             With(t, t.anBoard, t.fMove, t.fMove, t.fCubeOwner, r.anDice, t.cBeavers, no, t.nCube)
        /\ ApplySetDice(x, r) =
             With(x, x.anBoard, x.fMove, x.fMove, x.fCubeOwner, r.anDice, x.cBeavers, no, x.nCube)
    BY <1>3, <1>6, <1>7, <1>8, <2>1, SetWith
  <2>3. ApplySetDice(x, r) = ApplySetDice(t, r)
    BY <1>3, <1>6, <1>8, <2>2, WithTwice
  <2>4. Applied(x, info, r) = g
    BY <1>3, <1>6, <1>8, <2>3, Effects
  <2> QED BY <1>2, <1>6, <1>8, <2>4
<1>9. ASSUME NEW value, NEW owner, r.mt \in {"MOVE_SETCUBEVAL", "MOVE_SETCUBEPOS"}
      PROVE  ApplySetCube(x, value, owner) = ApplySetCube(t, value, owner)
  <2>1. ApplySetCube(t, value, owner) = With(t, t.anBoard, t.fMove, t.fMove, owner, t.anDice, t.cBeavers, no, value)
    BY <1>3, <1>7, SetCubeWith
  <2>2. ApplySetCube(x, value, owner) = With(x, x.anBoard, x.fMove, x.fMove, owner, x.anDice, x.cBeavers, no, value)
    BY <1>3, <1>6, <1>7, <1>9, SetCubeWith
  <2> QED BY <1>3, <1>6, <1>9, <2>1, <2>2, WithTwice
<1>10. CASE r.mt \in {"MOVE_SETCUBEVAL", "MOVE_SETCUBEPOS"}
  <2>1. /\ ApplySetCube(x, r.nCube, x.fCubeOwner) = ApplySetCube(t, r.nCube, t.fCubeOwner)
        /\ ApplySetCube(x, x.nCube, r.fCubeOwner) = ApplySetCube(t, t.nCube, r.fCubeOwner)
    BY <1>6, <1>9, <1>10
  <2>2. Applied(x, info, r) = g
    BY <1>3, <1>6, <1>10, <2>1, Effects
  <2> QED BY <1>2, <1>6, <1>10, <2>2
<1>11. CASE r.mt = "MOVE_RESIGN" /\ m.fResigned # 0
  <2> DEFINE w == Opponent(r.fPlayer)
             points == t.nCube * r.nResigned
             n == r.nResigned
             turn == m.fTurn
             h == Applied(x, info, r)
  <2>1. g = Ended([t EXCEPT !.fResigned = n], info, "GAME_RESIGNED", w, points)
    BY <1>3, <1>11, Effects DEF ApplyResign
  <2>2. h = Ended([x EXCEPT !.fResigned = n], info, "GAME_RESIGNED", w, points)
    BY <1>6, <1>11, Effects DEF ApplyResign
  <2>3. x = [t EXCEPT !.fTurn = turn]
    BY DEF x
  <2> HIDE DEF w, points, n, turn, h
  <2>4. h.info = g.info
    BY <2>1, <2>2 DEF Ended, g
  <2>5. h.ms = [g.ms EXCEPT !.fTurn = turn] /\ g.ms.gs = "GAME_RESIGNED"
    <3>1. h.ms = [[t EXCEPT !.fTurn = turn, !.fResigned = n]
                    EXCEPT !.gs = "GAME_RESIGNED", !.anScore[w] = @ + points, !.cGames = @ + 1]
      BY <1>3, <2>2, <2>3 DEF Ended, MatchStates
    <3>2. g.ms = [[t EXCEPT !.fResigned = n]
                    EXCEPT !.gs = "GAME_RESIGNED", !.anScore[w] = @ + points, !.cGames = @ + 1]
      BY <2>1 DEF Ended
    <3> DEFINE score == [t.anScore EXCEPT ![w] = @ + points]
    <3>3. h.ms = [t EXCEPT !.fTurn = turn, !.fResigned = n, !.gs = "GAME_RESIGNED", !.anScore = score,
                           !.cGames = t.cGames + 1]
      BY <1>3, <3>1 DEF MatchStates
    <3>4. g.ms = [t EXCEPT !.fResigned = n, !.gs = "GAME_RESIGNED", !.anScore = score, !.cGames = t.cGames + 1]
      BY <1>3, <3>2 DEF MatchStates
    <3> HIDE DEF score
    <3>5. h.ms = [g.ms EXCEPT !.fTurn = turn]
      BY <1>3, <3>3, <3>4 DEF MatchStates
    <3>6. g.ms.gs = "GAME_RESIGNED"
      BY <1>3, <3>4 DEF MatchStates
    <3> QED BY <3>5, <3>6
  <2>6. g.ms.gs = "GAME_RESIGNED" /\ g.ms \in States /\ g.ms.fResignationDeclined = 0 /\ turn \in Players
    <3>1. g.ms.gs = "GAME_RESIGNED"
      BY <2>5
    <3>2. g.ms \in States /\ ~InPlay(g.ms, g.info)
      BY <1>1, <3>1 DEF Step, After, InPlay
    <3>3. IsOver(g.ms, g.info)
      BY <1>1, <3>2 DEF Step, After
    <3> QED BY <1>4, <3>1, <3>2, <3>3 DEF IsOver, turn
  <2> HIDE DEF g
  <2>7. /\ h.ms.gs = g.ms.gs /\ h.ms.fResigned = g.ms.fResigned /\ h.ms.fTurn = turn
        /\ h.ms.fResignationDeclined = g.ms.fResignationDeclined
        /\ h.ms.fCrawford = g.ms.fCrawford /\ h.ms.fPostCrawford = g.ms.fPostCrawford
    BY <2>5, <2>6 DEF States
  <2>8. h.ms = [g.ms EXCEPT !.fResigned = h.ms.fResigned, !.fResignationDeclined = h.ms.fResignationDeclined,
                            !.fTurn = h.ms.fTurn, !.fCrawford = h.ms.fCrawford,
                            !.fPostCrawford = h.ms.fPostCrawford]
    BY <2>5, <2>6, <2>7 DEF States
  <2>9. /\ {g.ms.fResigned, g.ms.fResignationDeclined} \subseteq Resignations \cup {0}
        /\ {g.ms.fCrawford, g.ms.fPostCrawford} \subseteq BOOLEAN
    BY <2>6 DEF States
  <2>10. Agrees(h.ms, g.ms)
    BY <2>6, <2>7, <2>8, <2>9 DEF Agrees
  <2> QED BY <1>6, <1>11, <2>4, <2>7, <2>10 DEF Follows, g, h
<1> QED BY <1>5, <1>8, <1>10, <1>11

\* A redouble changes the owner of the cube first, and then again.
LEMMA LiveRedouble ==
  ASSUME NEW info \in Infos, NEW t \in States, SameMatch(t, info), InPlay(t, info), NEW m, Agrees(m, t),
         m.fResigned = 0, NEW r, Legal(t, r), r.mt = "MOVE_DOUBLE", t.fDoubled,
         NEW owner \in Players, NEW n, n = [m EXCEPT !.fCubeOwner = owner]
  PROVE  Follows(Applied(FixMatchState(n, r), info, r), Applied(t, info, r))
<1> DEFINE x == [t EXCEPT !.fCubeOwner = owner]
<1>1. Follows(Applied(FixMatchState(m, r), info, r), Applied(t, info, r)) /\ Applied(FixMatchState(m, r), info, r) = Applied(t, info, r)
  BY LiveRecord
<1>2. /\ t \in MatchStates /\ t.gs = "GAME_PLAYING" /\ t.fResigned = 0 /\ t.fResignationDeclined = 0
      /\ t.fMove \in Players /\ t.nCube < MAX_CUBE
  BY MatchTypes DEF InPlay
<1>3. /\ Restored(m) = [t EXCEPT !.fTurn = m.fTurn] /\ m.fTurn = t.fTurn /\ m \in States
  BY LiveFields
<1>4. n.fTurn = t.fTurn /\ Restored(n) = x
  <2>1. Restored(m) = t
    BY <1>2, <1>3 DEF MatchStates
  <2>2. Restored(n) = [Restored(m) EXCEPT !.fCubeOwner = owner]
    BY <1>3 DEF Restored, States
  <2>3. n.fTurn = m.fTurn
    BY <1>3 DEF States
  <2> QED BY <1>3, <2>1, <2>2, <2>3
<1>5. /\ x \in MatchStates /\ x.gs = "GAME_PLAYING" /\ x.fResigned = 0 /\ x.fResignationDeclined = 0
      /\ x.fMove = t.fMove /\ x.anBoard = t.anBoard /\ x.anDice = t.anDice /\ x.fDoubled = t.fDoubled
      /\ x.cBeavers = t.cBeavers /\ x.nCube = t.nCube
  <2>1. owner \in Nobodies
    BY DEF Nobodies
  <2> QED BY <1>2, <2>1 DEF MatchStates
<1>6. x = With(t, t.anBoard, t.fMove, t.fTurn, owner, t.anDice, t.cBeavers, t.fDoubled, t.nCube)
  BY <1>2 DEF With, MatchStates
<1> HIDE DEF x
<1>7. ~(t.nCube >= MAX_CUBE)
  BY <1>2, Cubes DEF States
<1>8. ApplyDouble(x, r) = ApplyDouble(t, r)
  <2>1. PICK turn, other, more, twice : /\ turn = Opponent(r.fPlayer) /\ other = Opponent(t.fMove)
                                        /\ more = OneBeaverMore(t) /\ twice = TwiceTheCube(t)
    OBVIOUS
  <2>2. OneBeaverMore(x) = more /\ TwiceTheCube(x) = twice
    BY <1>5, <2>1 DEF OneBeaverMore, TwiceTheCube
  <2>3. ApplyDouble(t, r) = With(t, t.anBoard, t.fMove, turn, other, t.anDice, more, t.fDoubled, twice)
    BY <1>2, <1>7, <2>1, RedoubleWith
  <2>4. ApplyDouble(x, r) = With(x, t.anBoard, t.fMove, turn, other, t.anDice, more, t.fDoubled, twice)
    BY <1>2, <1>5, <1>7, <2>1, <2>2, RedoubleWith
  <2>5. With(x, t.anBoard, t.fMove, turn, other, t.anDice, more, t.fDoubled, twice)
          = With(t, t.anBoard, t.fMove, turn, other, t.anDice, more, t.fDoubled, twice)
    <3>1. PICK yes, turn1 : yes = t.fDoubled /\ turn1 = t.fTurn
      OBVIOUS
    <3>2. t \in MatchStates
      BY <1>2
    <3>3. x = With(t, t.anBoard, t.fMove, turn1, owner, t.anDice, t.cBeavers, yes, t.nCube)
      BY <1>6, <3>1
    <3>4. With(x, t.anBoard, t.fMove, turn, other, t.anDice, more, yes, twice)
            = With(t, t.anBoard, t.fMove, turn, other, t.anDice, more, yes, twice)
      BY <3>2, <3>3, WithTwice
    <3> QED BY <3>1, <3>4
  <2> QED BY <2>3, <2>4, <2>5
<1>9. Applied(x, info, r) = Applied(t, info, r)
  BY <1>2, <1>5, <1>8, Effects
<1>10. Restored(x) = x
  BY <1>5, AlreadyPlaying DEF Restored
<1>11. Applied(n, info, r) = Applied(x, info, r)
  BY <1>4, <1>10, SameRestored
<1>12. FixMatchState(n, r) = n
  BY <1>4, LiveIsFixed
<1> QED BY <1>1, <1>9, <1>11, <1>12

-----------------------------------------------------------------------------
(* The games of a match, of which the later ones go and one is added.      *)

\* Which game is the Crawford game depends on the games before it only.
LEMMA SameCrawford ==
  ASSUME NEW games, NEW other, NEW g \in Nat, \A h \in 1..(g - 1) : other[h] = games[h],
         SameGame(games[g].info, other[g].info), Crawford(games, g)
  PROVE  Crawford(other, g)
<1>1. OneAwayBefore(other, g) <=> OneAwayBefore(games, g)
  BY DEF OneAwayBefore
<1>2. OneAway(other[g].info) <=> OneAway(games[g].info)
  BY DEF OneAway, SameGame
<1>3. StartState(other[g].info) = StartState(games[g].info)
  BY SameStart
<1>4. other[g].info.nMatch = games[g].info.nMatch /\ other[g].info.fCrawfordGame = games[g].info.fCrawfordGame
  BY DEF SameGame
<1> QED BY <1>1, <1>2, <1>3, <1>4 DEF Crawford

\* What a chronicle says of its games.
LEMMA ChronicleGames ==
  ASSUME NEW games, Chronicle(games), NEW g \in DOMAIN games
  PROVE  /\ games \in Seq(MatchGames) /\ g \in 1..Len(games) /\ Len(games) \in Nat
         /\ Good(games[g]) /\ InMatch(games[g].info) /\ Crawford(games, g)
         /\ g = 1 => FirstGame(games[g].info)
         /\ g # 1 => NextGame(games[g].info, games[g - 1].info)
         /\ g # Len(games) => Finished(games[g])
BY DEF Chronicle

\* The first games of a chronicle are one.
LEMMA CutChronicle ==
  ASSUME NEW games, Chronicle(games), NEW n \in 0..Len(games), NEW cut, cut = SubSeq(games, 1, n)
  PROVE  Chronicle(cut) /\ Len(cut) = n /\ \A g \in 1..n : cut[g] = games[g]
<1>1. games \in Seq(MatchGames)
  BY DEF Chronicle
<1>2. /\ cut \in Seq(MatchGames) /\ Len(cut) = n /\ DOMAIN cut = 1..n /\ n \in Nat /\ n <= Len(games)
      /\ \A g \in 1..n : cut[g] = games[g]
  BY <1>1
<1>3. ASSUME NEW g \in DOMAIN cut
      PROVE  /\ Good(cut[g]) /\ InMatch(cut[g].info)
             /\ IF g = 1 THEN FirstGame(cut[g].info) ELSE NextGame(cut[g].info, cut[g - 1].info)
             /\ g # Len(cut) => Finished(cut[g])
             /\ Crawford(cut, g)
  <2>1. g \in DOMAIN games /\ g \in Nat /\ cut[g] = games[g] /\ (g # Len(cut) => g # Len(games))
    BY <1>1, <1>2
  <2>2. \A h \in 1..(g - 1) : cut[h] = games[h]
    BY <1>2, <2>1
  <2>3. g # 1 => cut[g - 1] = games[g - 1]
    BY <1>2, <2>1
  <2>4. SameGame(games[g].info, cut[g].info)
    BY <2>1 DEF SameGame
  <2>5. /\ Good(games[g]) /\ InMatch(games[g].info) /\ Crawford(games, g)
        /\ g = 1 => FirstGame(games[g].info)
        /\ g # 1 => NextGame(games[g].info, games[g - 1].info)
        /\ g # Len(games) => Finished(games[g])
    BY <2>1, ChronicleGames
  <2>6. Crawford(cut, g)
    BY <2>1, <2>2, <2>4, <2>5, SameCrawford
  <2> QED BY <2>1, <2>3, <2>5, <2>6
<1> QED BY <1>2, <1>3 DEF Chronicle

\* One game more.
Continues(games, last, new, all) ==
    /\ Chronicle(games) /\ Good(new) /\ InMatch(new.info) /\ all = Append(games, new) /\ last = Len(games)
    /\ last = 0 => FirstGame(new.info)
    /\ last # 0 => Finished(games[last]) /\ NextGame(new.info, games[last].info)
    /\ Crawford(all, last + 1)

\* A game that fits may follow the last one.
LEMMA AppendChronicle ==
  ASSUME NEW games, NEW last, NEW new, NEW all, Continues(games, last, new, all)
  PROVE  Chronicle(all) /\ Len(all) = last + 1 /\ all[last + 1] = new
<1> USE DEF Continues
<1>1. games \in Seq(MatchGames) /\ last \in Nat /\ new \in MatchGames
  BY DEF Chronicle, Good
<1>2. /\ all \in Seq(MatchGames) /\ Len(all) = last + 1 /\ all[last + 1] = new /\ DOMAIN all = 1..(last + 1)
      /\ \A g \in 1..last : all[g] = games[g]
  BY <1>1
<1>3. ASSUME NEW g \in DOMAIN all
      PROVE  /\ Good(all[g]) /\ InMatch(all[g].info)
             /\ IF g = 1 THEN FirstGame(all[g].info) ELSE NextGame(all[g].info, all[g - 1].info)
             /\ g # Len(all) => Finished(all[g])
             /\ Crawford(all, g)
  <2>1. CASE g = last + 1
    <3>1. g # 1 => last # 0 /\ g - 1 = last /\ all[last] = games[last]
      BY <1>1, <1>2, <2>1
    <3>2. g = 1 => last = 0
      BY <1>1, <2>1
    <3> QED BY <1>2, <2>1, <3>1, <3>2
  <2>2. CASE g # last + 1
    <3>1. g \in 1..last /\ g \in DOMAIN games /\ g \in Nat /\ all[g] = games[g]
      BY <1>1, <1>2, <2>2
    <3>2. \A h \in 1..(g - 1) : all[h] = games[h]
      BY <1>2, <3>1
    <3>3. g # 1 => all[g - 1] = games[g - 1]
      BY <1>2, <3>1
    <3>4. SameGame(games[g].info, all[g].info)
      BY <3>1 DEF SameGame
    <3>5. /\ Good(games[g]) /\ InMatch(games[g].info) /\ Crawford(games, g)
          /\ g = 1 => FirstGame(games[g].info)
          /\ g # 1 => NextGame(games[g].info, games[g - 1].info)
          /\ g # Len(games) => Finished(games[g])
      BY <3>1, ChronicleGames
    <3>6. Crawford(all, g)
      BY <3>1, <3>2, <3>4, <3>5, SameCrawford
    <3>7. Finished(all[g])
      <4>1. CASE g = last
        BY <1>1, <3>1, <4>1
      <4>2. CASE g # last
        BY <3>1, <3>5, <4>2
      <4> QED BY <4>1, <4>2
    <3> QED BY <3>1, <3>3, <3>5, <3>6, <3>7
  <2> QED BY <2>1, <2>2
<1> QED BY <1>2, <1>3 DEF Chronicle

\* A game that takes the place of another and of those after it.
Replaces(games, g, new, all) ==
    /\ Chronicle(games) /\ g \in DOMAIN games /\ Good(new) /\ SameGame(games[g].info, new.info)
    /\ all = Append(SubSeq(games, 1, g - 1), new)

\* A game may be changed in its records, once the later ones are gone.
LEMMA ReplaceGame ==
  ASSUME NEW games, NEW g, NEW new, NEW all, Replaces(games, g, new, all)
  PROVE  Chronicle(all) /\ Len(all) = g /\ all[g] = new
<1> DEFINE last == g - 1
           cut == SubSeq(games, 1, last)
<1>0. /\ Chronicle(games) /\ g \in DOMAIN games /\ Good(new) /\ SameGame(games[g].info, new.info)
      /\ all = Append(cut, new)
  BY DEF Replaces
<1>1. /\ games \in Seq(MatchGames) /\ g \in 1..Len(games) /\ Len(games) \in Nat
      /\ Good(games[g]) /\ InMatch(games[g].info) /\ Crawford(games, g)
      /\ g = 1 => FirstGame(games[g].info)
      /\ g # 1 => NextGame(games[g].info, games[g - 1].info)
  BY <1>0, ChronicleGames
<1>2. /\ last \in 0..Len(games) /\ last \in Nat /\ last + 1 = g /\ g \in Nat
      /\ (last # 0 => last \in DOMAIN games /\ last # Len(games) /\ g # 1 /\ last \in 1..last)
      /\ (last = 0 => g = 1)
  BY <1>1
<1> HIDE DEF cut
<1>3. Chronicle(cut) /\ Len(cut) = last /\ \A h \in 1..last : cut[h] = games[h]
  <2> HIDE DEF last
  <2> QED BY <1>0, <1>2, CutChronicle, ZenonT(60) DEF cut
<1>4. last # 0 => Finished(cut[last]) /\ NextGame(games[g].info, cut[last].info)
  <2>1. SUFFICES ASSUME last # 0 PROVE Finished(cut[last]) /\ NextGame(games[g].info, cut[last].info)
    OBVIOUS
  <2>2. cut[last] = games[last]
    BY <1>2, <1>3, <2>1
  <2>3. Finished(games[last])
    BY <1>0, <1>2, <2>1, ChronicleGames
  <2> QED BY <1>1, <1>2, <2>1, <2>2, <2>3
<1>5. /\ InMatch(new.info) /\ (last = 0 => FirstGame(new.info))
      /\ last # 0 => NextGame(new.info, cut[last].info)
  <2>1. InMatch(new.info)
    BY <1>0, <1>1 DEF InMatch, SameGame
  <2>2. last = 0 => FirstGame(new.info)
    BY <1>0, <1>1, <1>2 DEF FirstGame, SameGame
  <2>3. last # 0 => NextGame(new.info, cut[last].info)
    BY <1>0, <1>4 DEF NextGame, SameGame
  <2> QED BY <2>1, <2>2, <2>3
<1>6. all = Append(cut, new) /\ all[g] = new /\ \A h \in 1..(g - 1) : all[h] = games[h]
  <2>1. all = Append(cut, new)
    BY <1>0
  <2>2. cut \in Seq(MatchGames)
    BY <1>3 DEF Chronicle
  <2>3. new \in MatchGames
    BY <1>0 DEF Good
  <2>4. Append(cut, new)[last + 1] = new /\ \A h \in 1..last : Append(cut, new)[h] = cut[h]
    BY <1>2, <1>3, <2>2, <2>3
  <2> QED BY <1>2, <1>3, <2>1, <2>4
<1>7. Crawford(all, last + 1)
  BY <1>0, <1>1, <1>2, <1>6, SameCrawford
<1> HIDE DEF last
<1>8. last = Len(cut)
  BY <1>3
<1>9. Chronicle(all) /\ Len(all) = last + 1 /\ all[last + 1] = new
  <2>1. Continues(cut, last, new, all)
    BY <1>0, <1>3, <1>4, <1>5, <1>7, <1>8 DEF Continues
  <2> QED BY <2>1, AppendChronicle
<1> QED BY <1>2, <1>9

-----------------------------------------------------------------------------
(* AddMoveRecord, in a game that is being played.                          *)

InfoOf(s) == s.lMatch[s.plGame].info

\* A place in a match, after at least one record of a game in play.
At(s, t) ==
    /\ Chronicle(s.lMatch) /\ s.plGame \in DOMAIN s.lMatch
    /\ s.plLastMove \in 1..Len(s.lMatch[s.plGame].moves)
    /\ t = Trace(s.lMatch[s.plGame])[s.plLastMove] /\ t.gs = "GAME_PLAYING"

\* The place after a record, of which the result is g, and in the live state h.
Added(s, g, h) ==
    /\ Sound(s) /\ s.plGame = Len(s.lMatch) /\ s.plLastMove = Len(s.lMatch[s.plGame].moves)
    /\ s.plLastMove > 0 /\ SameMatch(s.ms, InfoOf(s)) /\ InfoOf(s) = g.info
    /\ Trace(s.lMatch[s.plGame])[s.plLastMove] = g.ms /\ s.ms = h.ms /\ s.ms.gs = g.ms.gs

\* AddMoveRecord adds a legal record to any place.
LEMMA AddRecord ==
  ASSUME NEW s, NEW t, At(s, t), NEW r, Legal(t, r),
         NEW g, g = Applied(t, InfoOf(s), r), NEW h, h = Applied(FixMatchState(s.ms, r), InfoOf(s), r),
         Follows(h, g)
  PROVE  Step(g, InfoOf(s), r) /\ Added(AddMoveRecord(s, r), g, h)
<1> DEFINE game == s.lMatch[s.plGame]
           k == s.plLastMove
           before == Kept(game, k, r)
           new == [info |-> g.info, moves |-> Append(before, r)]
           all == Append(SubSeq(s.lMatch, 1, s.plGame - 1), new)
           out == [lMatch |-> all, plGame |-> s.plGame, plLastMove |-> Len(before) + 1, ms |-> h.ms]
<1>1. Good(game) /\ k \in 1..Len(game.moves) /\ t = Trace(game)[k] /\ game.info = InfoOf(s)
  BY ChronicleGames DEF At, InfoOf
<1>2. AddMoveRecord(s, r) = out
  <2>1. h.info = g.info
    BY DEF Follows
  <2>2. h = ApplyMoveRecord([ms |-> FixMatchState(s.ms, r), info |-> game.info], r)
    BY <1>1 DEF Applied
  <2> QED BY <2>1, <2>2 DEF AddMoveRecord, Kept
<1> HIDE DEF game, k, before
<1>3. /\ Good(new) /\ Len(new.moves) = Len(before) + 1 /\ Len(before) \in Nat
      /\ Trace(new)[Len(before) + 1] = g.ms /\ Step(g, InfoOf(s), r)
  <2>1. t.gs = "GAME_PLAYING" /\ g = Applied(t, game.info, r) /\ before = Kept(game, k, r)
    BY <1>1 DEF At, before
  <2> HIDE DEF new
  <2>2. new = [info |-> g.info, moves |-> Append(before, r)]
    BY DEF new
  <2>3. IsLonger(game, k, t, r, g, before, new)
    BY <1>1, <2>1, <2>2 DEF IsLonger
  <2> QED BY <1>1, <2>3, Extended
<1>4. SameGame(game.info, new.info)
  BY <1>1, <1>3 DEF Step
<1> HIDE DEF new
<1>5. Chronicle(all) /\ Len(all) = s.plGame /\ all[s.plGame] = new /\ s.plGame \in DOMAIN all
  <2>1. Chronicle(s.lMatch) /\ s.plGame \in DOMAIN s.lMatch /\ s.lMatch[s.plGame] = game
    BY DEF At, game
  <2> HIDE DEF all
  <2>2. Chronicle(all) /\ Len(all) = s.plGame /\ all[s.plGame] = new
    <3>1. Replaces(s.lMatch, s.plGame, new, all)
      BY <1>3, <1>4, <2>1 DEF Replaces, all
    <3> QED BY <3>1, ReplaceGame
  <2>3. s.plGame \in 1..Len(all) /\ DOMAIN all = 1..Len(all)
    BY <2>1, <2>2 DEF Chronicle
  <2> QED BY <2>2, <2>3
<1>6. Agrees(h.ms, g.ms) /\ h.ms.gs = g.ms.gs /\ SameMatch(h.ms, g.info) /\ new.info = g.info
  <2>1. SameMatch(g.ms, g.info)
    BY <1>3 DEF Step, After
  <2>2. h.ms.nMatchTo = g.ms.nMatchTo
    <3>1. g.ms \in States
      BY <1>3 DEF Step, After
    <3>2. h.ms = [g.ms EXCEPT !.fResigned = h.ms.fResigned, !.fResignationDeclined = h.ms.fResignationDeclined,
                              !.fTurn = h.ms.fTurn, !.fCrawford = h.ms.fCrawford,
                              !.fPostCrawford = h.ms.fPostCrawford]
      BY DEF Follows, Agrees
    <3> QED BY <3>1, <3>2 DEF States
  <2> QED BY <2>1, <2>2 DEF Follows, Agrees, SameMatch, new
<1>7. Sound(out)
  BY <1>3, <1>5, <1>6 DEF Sound, Live
<1>8. Added(out, g, h)
  <2>1. /\ out.lMatch = all /\ out.plGame = s.plGame /\ out.plLastMove = Len(before) + 1 /\ out.ms = h.ms
        /\ out.lMatch[out.plGame] = new /\ InfoOf(out) = new.info
    BY <1>5 DEF InfoOf
  <2>2. Len(before) + 1 > 0
    BY <1>3
  <2> HIDE DEF out, all
  <2> QED BY <1>3, <1>5, <1>6, <1>7, <2>1, <2>2 DEF Added
<1> QED BY <1>2, <1>3, <1>8

-----------------------------------------------------------------------------
(* What a command leaves.                                                  *)

\* It is enough to look at the place that a command goes to.
LEMMA BecomeConsistent ==
  ASSUME NEW s, Become(s), Consistent(s, fCrawfordState', fNextTurn')
  PROVE  Invariant'
<1> DEFINE h == Here'
<1>1. h.lMatch = s.lMatch /\ h.plGame = s.plGame /\ h.plLastMove = s.plLastMove /\ h.ms = s.ms
  BY DEF Here, Become
<1> HIDE DEF h
<1>2. ASSUME NEW c, NEW n, Consistent(s, c, n)
      PROVE  Consistent(h, c, n)
  <2>1. Before(s, c, n) => Before(h, c, n)
    BY <1>1 DEF Before
  <2>2. Sound(s) => Sound(h)
    BY <1>1 DEF Sound, Live
  <2>3. Told(s, c, n) => Told(h, c, n)
    BY <1>1 DEF Told, Due
  <2>4. Ending(s, n) => Ending(h, n)
    BY <1>1 DEF Ending, Due
  <2> QED BY <1>1, <1>2, <2>1, <2>2, <2>3, <2>4 DEF Consistent
<1>3. Consistent(h, fCrawfordState', fNextTurn')
  BY <1>2
<1> QED BY <1>3 DEF Invariant, h

\* After AddMoveRecord it is consistent, with NextTurn due where the game is over.
LEMMA AddedConsistent ==
  ASSUME NEW s, NEW g, NEW h, Added(s, g, h), NEW crawford \in -1..3, NEW next \in BOOLEAN,
         next \/ g.ms.gs = "GAME_PLAYING"
  PROVE  Consistent(s, crawford, next)
<1>1. /\ Sound(s) /\ s.plGame = Len(s.lMatch) /\ s.plLastMove = Len(s.lMatch[s.plGame].moves)
      /\ s.plLastMove > 0 /\ SameMatch(s.ms, s.lMatch[s.plGame].info)
      /\ Trace(s.lMatch[s.plGame])[s.plLastMove] = g.ms /\ s.ms.gs = g.ms.gs
  BY DEF Added, InfoOf
<1>2. Last(s.lMatch) = s.lMatch[s.plGame]
  BY <1>1 DEF Last
<1>3. Finished(Last(s.lMatch)) <=> g.ms.gs # "GAME_PLAYING"
  BY <1>1, <1>2 DEF Finished, Final
<1>4. Told(s, crawford, next)
  BY <1>1, <1>3 DEF Told, Due
<1>5. Ending(s, next)
  BY <1>1 DEF Ending
<1> QED BY <1>1, <1>4, <1>5 DEF Consistent

\* A place in a game in play.
LEMMA InPlace ==
  ASSUME NEW s, NEW t, At(s, t)
  PROVE  /\ InfoOf(s) \in Infos /\ t \in States /\ SameMatch(t, InfoOf(s)) /\ InPlay(t, InfoOf(s))
         /\ After(t, InfoOf(s), s.lMatch[s.plGame].moves[s.plLastMove])
<1> DEFINE game == s.lMatch[s.plGame]
           k == s.plLastMove
<1>1. Good(game) /\ k \in 1..Len(game.moves) /\ t = Trace(game)[k] /\ t.gs = "GAME_PLAYING" /\ game.info = InfoOf(s)
  BY ChronicleGames DEF At, InfoOf
<1> HIDE DEF game, k
<1>2. Len(game.moves) \in Nat
  BY <1>1 DEF Good, MatchGames
<1>3. k \in 0..Len(game.moves) /\ k > 0
  BY <1>1, <1>2
<1>4. game.info \in Infos /\ t \in States /\ SameMatch(t, game.info) /\ InPlay(t, game.info) /\ After(t, game.info, game.moves[k])
  BY <1>1, <1>3, GameStates
<1> QED BY <1>1, <1>4 DEF game, k

\* A setting does not end the game.
LEMMA SetsGoOn ==
  ASSUME NEW info, NEW t \in States, InPlay(t, info), NEW r, Legal(t, r), r.mt \in Sets
  PROVE  /\ Applied(t, info, r).ms.gs = "GAME_PLAYING"
         /\ r.mt = "MOVE_SETDICE" => /\ Applied(t, info, r).ms.fTurn = t.fMove
                                     /\ Applied(t, info, r).ms.fDoubled = FALSE
<1>1. /\ t \in MatchStates /\ t.gs = "GAME_PLAYING" /\ t.fResigned = 0 /\ t.fResignationDeclined = 0
      /\ t.fMove \in Players /\ r.fPlayer = t.fMove
  BY MatchTypes DEF InPlay, Legal
<1>2. /\ ApplySetBoard(t, r).gs = t.gs
      /\ ApplySetDice(t, r).gs = t.gs /\ ApplySetDice(t, r).fTurn = t.fMove /\ ApplySetDice(t, r).fDoubled = FALSE
      /\ \A v, o : ApplySetCube(t, v, o).gs = t.gs
  BY <1>1 DEF ApplySetBoard, ApplySetDice, ApplySetCube, MatchStates
<1>3. CASE r.mt = "MOVE_SETBOARD"
  BY <1>1, <1>2, <1>3, Effects
<1>4. CASE r.mt = "MOVE_SETDICE"
  BY <1>1, <1>2, <1>4, Effects
<1>5. CASE r.mt = "MOVE_SETCUBEVAL"
  BY <1>1, <1>2, <1>5, Effects
<1>6. CASE r.mt = "MOVE_SETCUBEPOS"
  BY <1>1, <1>2, <1>6, Effects
<1> QED BY <1>3, <1>4, <1>5, <1>6 DEF Sets

\* A command that adds one record.
LEMMA OneRecord ==
  ASSUME NEW s, NEW t, At(s, t), Agrees(s.ms, t), NEW r, Legal(t, r),
         s.ms.fResigned = 0 \/ r.mt \in {"MOVE_SETDICE", "MOVE_SETCUBEVAL", "MOVE_SETCUBEPOS", "MOVE_RESIGN"},
         NEW crawford \in -1..3, NEW next \in BOOLEAN, next \/ r.mt \in Sets
  PROVE  Consistent(AddMoveRecord(s, r), crawford, next)
<1> DEFINE g == Applied(t, InfoOf(s), r)
           h == Applied(FixMatchState(s.ms, r), InfoOf(s), r)
<1>1. InfoOf(s) \in Infos /\ t \in States /\ SameMatch(t, InfoOf(s)) /\ InPlay(t, InfoOf(s))
  BY InPlace
<1>2. Follows(h, g)
  BY <1>1, LiveRecord
<1>3. Added(AddMoveRecord(s, r), g, h)
  BY <1>2, AddRecord
<1>4. next \/ g.ms.gs = "GAME_PLAYING"
  BY <1>1, SetsGoOn
<1> HIDE DEF g, h
<1> QED BY <1>3, <1>4, AddedConsistent

\* The records there are.
LEMMA RecordsMade ==
  /\ \A p \in Players, n \in {0, 1} : /\ Normal(p, n) \in Records /\ Normal(p, n).mt = "MOVE_NORMAL"
                                      /\ Normal(p, n).fPlayer = p
  /\ \A p \in Players, mt \in {"MOVE_DOUBLE", "MOVE_TAKE", "MOVE_DROP"} :
        Cube(mt, p) \in Records /\ Cube(mt, p).mt = mt /\ Cube(mt, p).fPlayer = p
  /\ \A p \in Players, n \in Resignations :
        Resigns(p, n) \in Records /\ Resigns(p, n).mt = "MOVE_RESIGN" /\ Resigns(p, n).fPlayer = p
  /\ \A p \in Players, b \in Board : /\ BoardSet(p, b) \in Records /\ BoardSet(p, b).mt = "MOVE_SETBOARD"
                                     /\ BoardSet(p, b).fPlayer = p /\ BoardSet(p, b).key = b
  /\ \A p \in Players, d \in Dice : /\ DiceSet(p, d) \in Records /\ DiceSet(p, d).mt = "MOVE_SETDICE"
                                    /\ DiceSet(p, d).fPlayer = p
  /\ \A p \in Players, n \in CubeValues : /\ CubeValue(p, n) \in Records /\ CubeValue(p, n).mt = "MOVE_SETCUBEVAL"
                                          /\ CubeValue(p, n).fPlayer = p
  /\ \A p \in Players, o \in Nobodies : /\ CubePos(p, o) \in Records /\ CubePos(p, o).mt = "MOVE_SETCUBEPOS"
                                        /\ CubePos(p, o).fPlayer = p
<1>1. \A p \in Players, n \in {0, 1} : Normal(p, n) \in Records
  BY DEF Records
<1>2. \A p \in Players, mt \in {"MOVE_DOUBLE", "MOVE_TAKE", "MOVE_DROP"} : Cube(mt, p) \in Records
  BY DEF Records
<1>3. \A p \in Players, n \in Resignations : Resigns(p, n) \in Records
  BY DEF Records
<1>4. \A p \in Players, b \in Board : BoardSet(p, b) \in Records
  BY DEF Records
<1>5. \A p \in Players, d \in Dice : DiceSet(p, d) \in Records
  BY DEF Records
<1>6. \A p \in Players, n \in CubeValues : CubeValue(p, n) \in Records
  BY DEF Records
<1>7. \A p \in Players, o \in Nobodies : CubePos(p, o) \in Records
  BY DEF Records
<1>8. /\ \A p, n : Normal(p, n).mt = "MOVE_NORMAL" /\ Normal(p, n).fPlayer = p
      /\ \A p, mt : Cube(mt, p).mt = mt /\ Cube(mt, p).fPlayer = p
      /\ \A p, n : Resigns(p, n).mt = "MOVE_RESIGN" /\ Resigns(p, n).fPlayer = p
      /\ \A p, b : BoardSet(p, b).mt = "MOVE_SETBOARD" /\ BoardSet(p, b).fPlayer = p /\ BoardSet(p, b).key = b
      /\ \A p, d : DiceSet(p, d).mt = "MOVE_SETDICE" /\ DiceSet(p, d).fPlayer = p
      /\ \A p, n : CubeValue(p, n).mt = "MOVE_SETCUBEVAL" /\ CubeValue(p, n).fPlayer = p
      /\ \A p, o : CubePos(p, o).mt = "MOVE_SETCUBEPOS" /\ CubePos(p, o).fPlayer = p
  BY DEF Normal, Cube, Resigns, BoardSet, DiceSet, CubeValue, CubePos
<1> QED BY <1>1, <1>2, <1>3, <1>4, <1>5, <1>6, <1>7, <1>8

\* A roll and the move at once.
LEMMA RollAndMove ==
  ASSUME NEW s, NEW t, At(s, t), Agrees(s.ms, t), s.ms.fResigned = 0, ~t.fDoubled, NEW p, p = t.fTurn,
         NEW d \in Dice, NEW n \in {0, 1}, NEW crawford \in -1..3
  PROVE  /\ Consistent(AddMoveRecord(s, DiceSet(p, d)), crawford, FALSE)
         /\ Consistent(AddMoveRecord(AddMoveRecord(s, DiceSet(p, d)), Normal(p, n)), crawford, TRUE)
<1> DEFINE info == InfoOf(s)
           q == DiceSet(p, d)
           r == Normal(p, n)
           g == Applied(t, info, q)
           rolled == AddMoveRecord(s, q)
<1>1. info \in Infos /\ t \in States /\ SameMatch(t, info) /\ InPlay(t, info) /\ p \in Players /\ t.fMove = p
  BY InPlace DEF InPlay
<1>2. /\ q \in Records /\ q.mt = "MOVE_SETDICE" /\ q.fPlayer = p
      /\ r \in Records /\ r.mt = "MOVE_NORMAL" /\ r.fPlayer = p
  BY <1>1, RecordsMade
<1> HIDE DEF q, r, info
<1>3. Legal(t, q) /\ q.mt \in Sets
  BY <1>1, <1>2 DEF Legal, Sets, CubeKinds
<1>4. Consistent(rolled, crawford, FALSE)
  <2>1. FALSE \in BOOLEAN
    OBVIOUS
  <2> QED BY <1>2, <1>3, <2>1, OneRecord
<1>5. Added(rolled, g, g)
  <2>1. Applied(FixMatchState(s.ms, q), info, q) = g /\ Follows(g, g)
    BY <1>1, <1>2, <1>3, LiveRecord
  <2> HIDE DEF g
  <2>2. g = Applied(t, InfoOf(s), q) /\ g = Applied(FixMatchState(s.ms, q), InfoOf(s), q)
    BY <2>1 DEF g, info
  <2> QED BY <1>3, <2>1, <2>2, AddRecord
<1>6. g.ms.gs = "GAME_PLAYING" /\ g.ms.fTurn = p /\ g.ms.fDoubled = FALSE
  BY <1>1, <1>2, <1>3, SetsGoOn
<1> HIDE DEF g, rolled
<1>7. At(rolled, g.ms) /\ rolled.ms = g.ms
  <2>1. /\ Sound(rolled) /\ rolled.plGame \in DOMAIN rolled.lMatch
        /\ rolled.plLastMove = Len(rolled.lMatch[rolled.plGame].moves) /\ rolled.plLastMove > 0
        /\ g.ms = Trace(rolled.lMatch[rolled.plGame])[rolled.plLastMove] /\ rolled.ms = g.ms
    BY <1>5 DEF Added, Sound, Live
  <2>2. rolled.plLastMove \in 1..Len(rolled.lMatch[rolled.plGame].moves)
    <3>1. Good(rolled.lMatch[rolled.plGame])
      BY <2>1, ChronicleGames DEF Sound
    <3>2. Len(rolled.lMatch[rolled.plGame].moves) \in Nat
      BY <3>1 DEF Good, MatchGames
    <3> QED BY <2>1, <3>2
  <2> QED BY <1>6, <2>1, <2>2 DEF At, Sound
<1>8. Agrees(rolled.ms, g.ms) /\ rolled.ms.fResigned = 0
  <2>1. After(g.ms, InfoOf(rolled), rolled.lMatch[rolled.plGame].moves[rolled.plLastMove]) /\ InPlay(g.ms, InfoOf(rolled))
    BY <1>7, InPlace
  <2>2. Agrees(g.ms, g.ms)
    BY <2>1, AgreesItself
  <2> QED BY <1>7, <2>1, <2>2 DEF InPlay
<1>9. Legal(g.ms, r)
  BY <1>2, <1>6 DEF Legal, Sets, CubeKinds
<1>10. Consistent(AddMoveRecord(rolled, r), crawford, TRUE)
  <2>1. TRUE \in BOOLEAN
    OBVIOUS
  <2> QED BY <1>7, <1>8, <1>9, <2>1, OneRecord
<1> QED BY <1>4, <1>10 DEF rolled, q, r

-----------------------------------------------------------------------------
(* The commands that add records to a game.                                *)

\* What is known when a game is being played.
InGame(t) ==
    /\ At(Here, t) /\ Agrees(ms, t) /\ fNextTurn = FALSE /\ fCrawfordState \in -1..3
    /\ t \in States /\ InPlay(t, InfoOf(Here))
    /\ t.fMove \in Players /\ t.fTurn \in Players /\ (~t.fDoubled => t.fTurn = t.fMove)
    /\ (t.fDoubled => ~t.fCrawford)
    /\ ms.fMove = t.fMove /\ ms.fDoubled = t.fDoubled /\ ms.cBeavers = t.cBeavers /\ ms.nCube = t.nCube
    /\ ms.fCrawford = t.fCrawford /\ ms.fResigned \in Resignations \cup {0}
    /\ (ms.fResigned = 0 => ms.fTurn = t.fTurn) /\ (ms.fResigned # 0 => ms.fTurn = Opponent(t.fTurn))

\* At the prompt in a game there is such a state.
LEMMA PlayingGame ==
  ASSUME Invariant, Playing
  PROVE  \E t : InGame(t)
<1> DEFINE game == lMatch[plGame]
           t == Trace(game)[plLastMove]
<1>1. ms.gs = "GAME_PLAYING" /\ fNextTurn = FALSE /\ fCrawfordState \in -1..3
  BY DEF Playing, AtPrompt, Invariant, Consistent
<1>2. /\ Here.lMatch = lMatch /\ Here.plGame = plGame /\ Here.plLastMove = plLastMove /\ Here.ms = ms
  BY DEF Here
<1>3. Sound(Here)
  BY <1>1, <1>2 DEF Invariant, Consistent, Before
<1>4. /\ Chronicle(lMatch) /\ plGame \in DOMAIN lMatch /\ plLastMove \in 0..Len(game.moves)
      /\ plLastMove = 0 => AtStart(ms, game)
      /\ plLastMove # 0 => Agrees(ms, t)
  BY <1>2, <1>3 DEF Sound, Live
<1>5. plLastMove # 0
  <2>1. \A info : StartState(info).gs = "GAME_NONE"
    BY DEF StartState
  <2>2. \A info, p : [StartState(info) EXCEPT !.fMove = p, !.fTurn = p].gs = "GAME_NONE"
    BY DEF StartState
  <2>3. AtStart(ms, game) => ms.gs = "GAME_NONE"
    BY <2>1, <2>2 DEF AtStart
  <2> QED BY <1>1, <1>4, <2>3
<1>6. t.gs = "GAME_PLAYING"
  BY <1>1, <1>4, <1>5 DEF Agrees
<1>7. plLastMove \in 1..Len(game.moves)
  <2>1. Good(game)
    BY <1>4, ChronicleGames
  <2>2. Len(game.moves) \in Nat
    BY <2>1 DEF Good, MatchGames
  <2> QED BY <1>4, <1>5, <2>2
<1>8. At(Here, t)
  BY <1>2, <1>4, <1>6, <1>7 DEF At
<1> HIDE DEF t
<1>9. t \in States /\ InPlay(t, InfoOf(Here))
  BY <1>8, InPlace
<1>10. Agrees(ms, t)
  BY <1>4, <1>5
<1>11. /\ t.fMove \in Players /\ t.fTurn \in Players /\ (~t.fDoubled => t.fTurn = t.fMove)
       /\ (t.fDoubled => ~t.fCrawford)
  BY <1>9 DEF InPlay
<1>12. /\ ms.fMove = t.fMove /\ ms.fDoubled = t.fDoubled /\ ms.cBeavers = t.cBeavers /\ ms.nCube = t.nCube
       /\ ms.fCrawford = t.fCrawford /\ (ms.fResigned = 0 => ms.fTurn = t.fTurn)
       /\ (ms.fResigned # 0 => ms.fTurn = Opponent(t.fTurn)) /\ ms \in States
  BY <1>9, <1>10, LiveFields
<1>13. ms.fResigned \in Resignations \cup {0}
  BY <1>12 DEF States
<1>14. InGame(t)
  BY <1>1, <1>8, <1>9, <1>10, <1>11, <1>12, <1>13 DEF InGame
<1> QED BY <1>14

\* One record, after which the turn may be over.
LEMMA RecordKeeps ==
  ASSUME NEW t, InGame(t), NEW r, Legal(t, r), Record(r),
         ms.fResigned = 0 \/ r.mt \in {"MOVE_SETDICE", "MOVE_SETCUBEVAL", "MOVE_SETCUBEPOS", "MOVE_RESIGN"},
         TurnDone \/ (NotDone /\ r.mt \in Sets)
  PROVE  Invariant'
<1>1. At(Here, t) /\ Agrees(Here.ms, t) /\ Here.ms.fResigned = ms.fResigned
  BY DEF InGame, Here
<1>2. fCrawfordState' \in -1..3 /\ fNextTurn' \in BOOLEAN /\ (fNextTurn' \/ r.mt \in Sets)
  BY DEF InGame, Record, TurnDone, NotDone
<1>3. PICK c, n : c = fCrawfordState' /\ n = fNextTurn'
  OBVIOUS
<1>4. Consistent(AddMoveRecord(Here, r), c, n)
  BY <1>1, <1>2, <1>3, OneRecord
<1> QED BY <1>3, <1>4, BecomeConsistent DEF Record

\* CommandRoll, with the move that may follow at once.
LEMMA RollKeeps ==
  ASSUME Invariant, NEW d \in Dice, CommandRoll(d)
  PROVE  Invariant'
<1>1. PICK t : InGame(t)
  BY PlayingGame DEF CommandRoll
<1>2. ~t.fDoubled /\ Here.ms.fResigned = 0 /\ ms.fTurn = t.fTurn /\ At(Here, t) /\ Agrees(Here.ms, t)
  BY <1>1 DEF CommandRoll, InGame, Here
<1>3. fCrawfordState' \in -1..3
  BY <1>1 DEF CommandRoll, InGame
<1>4. \A n \in {0, 1} : /\ Consistent(AddMoveRecord(Here, DiceSet(ms.fTurn, d)), fCrawfordState', FALSE)
                        /\ Consistent(AddMoveRecord(AddMoveRecord(Here, DiceSet(ms.fTurn, d)), Normal(ms.fTurn, n)),
                                      fCrawfordState', TRUE)
  <2>1. PICK c : c = fCrawfordState'
    OBVIOUS
  <2> QED BY <1>2, <1>3, <2>1, RollAndMove
<1>5. CASE Become(AddMoveRecord(Here, DiceSet(ms.fTurn, d))) /\ NotDone
  <2>1. Consistent(AddMoveRecord(Here, DiceSet(ms.fTurn, d)), fCrawfordState', fNextTurn')
    BY <1>4, <1>5 DEF NotDone
  <2> QED BY <1>5, <2>1, BecomeConsistent
<1>6. ASSUME NEW n \in {0, 1}, TurnDone,
             Become(AddMoveRecord(AddMoveRecord(Here, DiceSet(ms.fTurn, d)), Normal(ms.fTurn, n)))
      PROVE  Invariant'
  <2>1. Consistent(AddMoveRecord(AddMoveRecord(Here, DiceSet(ms.fTurn, d)), Normal(ms.fTurn, n)),
                   fCrawfordState', fNextTurn')
    BY <1>4, <1>6 DEF TurnDone
  <2> QED BY <1>6, <2>1, BecomeConsistent
<1> QED BY <1>5, <1>6 DEF CommandRoll

\* CommandMove.
LEMMA MoveKeeps ==
  ASSUME Invariant, NEW n \in {0, 1}, CommandMove(n)
  PROVE  Invariant'
<1> DEFINE r == Normal(ms.fTurn, n)
<1>1. PICK t : InGame(t)
  BY PlayingGame DEF CommandMove
<1>2. ~t.fDoubled /\ ms.fResigned = 0 /\ ms.fTurn = t.fTurn /\ t.fTurn \in Players
  BY <1>1 DEF CommandMove, InGame
<1>3. r \in Records /\ r.mt = "MOVE_NORMAL" /\ r.fPlayer = t.fTurn
  BY <1>2, RecordsMade
<1>4. Record(r) /\ TurnDone
  BY DEF CommandMove
<1> HIDE DEF r
<1>5. Legal(t, r)
  BY <1>2, <1>3 DEF Legal, Sets, CubeKinds
<1> QED BY <1>1, <1>2, <1>4, <1>5, RecordKeeps

\* CommandDouble, of a player on roll,
LEMMA DoubleKeeps ==
  ASSUME Invariant, CommandDouble
  PROVE  Invariant'
<1> DEFINE r == Cube("MOVE_DOUBLE", ms.fTurn)
<1>1. PICK t : InGame(t)
  BY PlayingGame DEF CommandDouble
<1>2. ~t.fDoubled /\ ms.fTurn = t.fTurn /\ t.fTurn \in Players /\ ms.fResigned = 0 /\ ~t.fCrawford
  <2>1. ~t.fDoubled /\ ms.fTurn = t.fMove /\ t.fTurn = t.fMove /\ t.fTurn \in Players /\ ~t.fCrawford
    BY <1>1 DEF CommandDouble, InGame
  <2>2. Opponent(t.fTurn) # t.fTurn
    BY <2>1 DEF Opponent, Players
  <2> QED BY <1>1, <2>1, <2>2 DEF InGame
<1>3. r \in Records /\ r.mt = "MOVE_DOUBLE" /\ r.fPlayer = t.fTurn
  BY <1>2, RecordsMade
<1>4. Record(r) /\ TurnDone
  BY DEF CommandDouble
<1> HIDE DEF r
<1>6. MayDouble(t)
  <2>1. t \in States /\ InPlay(t, InfoOf(Here)) /\ Agrees(ms, t)
    BY <1>1 DEF InGame
  <2>2. ms.fCubeOwner = t.fCubeOwner /\ ms.nCube = t.nCube /\ ms.fTurn = t.fMove
    BY <1>1, <1>2, <2>1, LiveFields DEF InGame
  <2>3. t.nCube \in Nat /\ MAX_CUBE \in Nat /\ MAXSCORE \in Nat
    BY <2>1, Cubes, CubeAssumption DEF States
  <2>4. t.fCubeOwner \in {Nobody, t.fMove} /\ t.nCube < (IF ms.nMatchTo # 0 THEN MAXSCORE ELSE MAX_CUBE)
    BY <2>2 DEF CommandDouble
  <2> QED BY <2>3, <2>4 DEF MayDouble
<1>5. Legal(t, r)
  BY <1>2, <1>3, <1>6 DEF Legal, Sets, CubeKinds
<1> QED BY <1>1, <1>2, <1>4, <1>5, RecordKeeps

\* and CommandRedouble, a beaver.
LEMMA RedoubleKeeps ==
  ASSUME Habits \subseteq {"restart"}, Invariant, CommandRedouble
  PROVE  Invariant'
<1> DEFINE r == Cube("MOVE_DOUBLE", ms.fTurn)
           s == [Here EXCEPT !.ms.fCubeOwner = Opponent(ms.fMove)]
<1>1. PICK t : InGame(t)
  BY PlayingGame DEF CommandRedouble
<1>2. t.fDoubled /\ ~t.fCrawford /\ ms.fResigned = 0 /\ ms.fTurn = t.fTurn /\ t.fTurn \in Players /\ t.fMove \in Players
  <2>1. ms.fResigned = 0
    BY <1>1 DEF CommandRedouble, NoResignation, Playing
  <2> QED BY <1>1, <2>1 DEF CommandRedouble, InGame
<1>3. r \in Records /\ r.mt = "MOVE_DOUBLE" /\ r.fPlayer = t.fTurn
  BY <1>2, RecordsMade
<1>4. t.cBeavers < nBeavers /\ 2 * t.nCube < MAX_CUBE
  <2>1. t.nCube \in Nat /\ MAX_CUBE \in Nat
    BY <1>1, Cubes DEF InGame, States
  <2>2. t.cBeavers < nBeavers /\ t.nCube < MAX_CUBE \div 2
    BY <1>1 DEF CommandRedouble, InGame
  <2> QED BY <2>1, <2>2
<1>5. /\ s.lMatch = Here.lMatch /\ s.plGame = Here.plGame /\ s.plLastMove = Here.plLastMove
      /\ s.ms = [ms EXCEPT !.fCubeOwner = Opponent(ms.fMove)]
  BY DEF Here
<1>6. Become(AddMoveRecord(s, r)) /\ fCrawfordState' = fCrawfordState /\ fNextTurn' = TRUE
  BY DEF CommandRedouble, TurnDone
<1> HIDE DEF r, s
<1>7. Legal(t, r)
  BY <1>2, <1>3, <1>4 DEF Legal, Sets, CubeKinds
<1>8. At(s, t) /\ InfoOf(s) = InfoOf(Here)
  BY <1>1, <1>5 DEF InGame, At, InfoOf
<1> DEFINE info == InfoOf(s)
           g == Applied(t, info, r)
           h == Applied(FixMatchState(s.ms, r), info, r)
<1>9. info \in Infos /\ t \in States /\ SameMatch(t, info) /\ InPlay(t, info)
  BY <1>8, InPlace
<1>10. Follows(h, g)
  <2>1. PICK owner \in Players : owner = Opponent(ms.fMove)
    BY DEF Opponent, Players
  <2>2. Agrees(ms, t)
    BY <1>1 DEF InGame
  <2> HIDE DEF info
  <2> QED BY <1>2, <1>3, <1>5, <1>7, <1>9, <2>1, <2>2, LiveRedouble
<1>11. Added(AddMoveRecord(s, r), g, h)
  BY <1>7, <1>8, <1>10, AddRecord
<1> HIDE DEF g, h
<1>12. fCrawfordState' \in -1..3 /\ fNextTurn' \in BOOLEAN /\ fNextTurn'
  BY <1>1, <1>6 DEF InGame
<1>13. PICK c, n : c = fCrawfordState' /\ n = fNextTurn'
  OBVIOUS
<1>14. Consistent(AddMoveRecord(s, r), c, n)
  BY <1>11, <1>12, <1>13, AddedConsistent
<1> QED BY <1>6, <1>13, <1>14, BecomeConsistent

\* CommandTake and CommandDrop.
LEMMA AnswerKeeps ==
  ASSUME Habits \subseteq {"restart"}, Invariant, CommandTake \/ CommandDrop
  PROVE  Invariant'
<1>1. PICK t : InGame(t)
  BY PlayingGame DEF CommandTake, CommandDrop
<1>2. t.fDoubled /\ ~t.fCrawford /\ ms.fResigned = 0 /\ ms.fTurn = t.fTurn /\ t.fTurn \in Players
  <2>1. ms.fResigned = 0
    BY <1>1 DEF CommandTake, CommandDrop, NoResignation, Playing
  <2> QED BY <1>1, <2>1 DEF CommandTake, CommandDrop, InGame
<1>3. PICK mt \in {"MOVE_TAKE", "MOVE_DROP"} : Record(Cube(mt, ms.fTurn)) /\ TurnDone
  BY DEF CommandTake, CommandDrop
<1> DEFINE r == Cube(mt, ms.fTurn)
<1>4. r \in Records /\ r.mt = mt /\ r.fPlayer = t.fTurn
  BY <1>2, RecordsMade
<1> HIDE DEF r
<1>5. Legal(t, r)
  BY <1>2, <1>4 DEF Legal, Sets, CubeKinds
<1>6. Record(r)
  BY <1>3 DEF r
<1> QED BY <1>1, <1>2, <1>3, <1>5, <1>6, RecordKeeps

\* CommandAgree: the resignation becomes a record.
LEMMA AgreeKeeps ==
  ASSUME Invariant, CommandAgree
  PROVE  Invariant'
<1> DEFINE r == Resigns(Opponent(ms.fTurn), ms.fResigned)
<1>1. PICK t : InGame(t)
  BY PlayingGame DEF CommandAgree
<1>2. Opponent(ms.fTurn) \in Players /\ ms.fResigned \in Resignations
  BY <1>1 DEF CommandAgree, InGame, Opponent, Players
<1>3. r \in Records /\ r.mt = "MOVE_RESIGN"
  BY <1>2, RecordsMade
<1>4. Record(r) /\ TurnDone
  BY DEF CommandAgree
<1> HIDE DEF r
<1>5. Legal(t, r)
  BY <1>3 DEF Legal, Sets, CubeKinds
<1> QED BY <1>1, <1>3, <1>4, <1>5, RecordKeeps

\* The commands that set dice, board and cube.
LEMMA SettingKeeps ==
  ASSUME Habits \subseteq {"restart"}, Invariant, Settings
  PROVE  Invariant'
<1>0. Playing
  BY DEF Settings, CommandSetCubeValue, CommandSetCubeOwner, CommandSetDice, SetBoard, CubeAllowed
<1>1. PICK t : InGame(t)
  BY <1>0, PlayingGame
<1>2. ms.fMove = t.fMove /\ t.fMove \in Players /\ ms.fDoubled = t.fDoubled /\ ms.fCrawford = t.fCrawford
  BY <1>1 DEF InGame
<1>3. ASSUME NEW n \in SetValues, CommandSetCubeValue(n)
      PROVE  Invariant'
  <2> DEFINE r == CubeValue(ms.fMove, n)
  <2>1. Record(r) /\ NotDone /\ ~t.fCrawford
    BY <1>2, <1>3 DEF CommandSetCubeValue, CubeAllowed
  <2>2. n \in CubeValues
    BY SettingsAssumption
  <2>3. r \in Records /\ r.mt = "MOVE_SETCUBEVAL" /\ r.fPlayer = t.fMove
    BY <1>2, <2>2, RecordsMade
  <2> HIDE DEF r
  <2>4. Legal(t, r) /\ r.mt \in Sets
    BY <2>1, <2>3 DEF Legal, Sets
  <2> QED BY <1>1, <2>1, <2>3, <2>4, RecordKeeps
<1>4. ASSUME NEW o \in SetOwners, CommandSetCubeOwner(o)
      PROVE  Invariant'
  <2> DEFINE r == CubePos(ms.fMove, o)
  <2>1. Record(r) /\ NotDone /\ ~t.fCrawford
    BY <1>2, <1>4 DEF CommandSetCubeOwner, CubeAllowed
  <2>2. o \in Nobodies
    BY SettingsAssumption
  <2>3. r \in Records /\ r.mt = "MOVE_SETCUBEPOS" /\ r.fPlayer = t.fMove
    BY <1>2, <2>2, RecordsMade
  <2> HIDE DEF r
  <2>4. Legal(t, r) /\ r.mt \in Sets
    BY <2>1, <2>3 DEF Legal, Sets
  <2> QED BY <1>1, <2>1, <2>3, <2>4, RecordKeeps
<1>5. ASSUME NEW d \in Dice, CommandSetDice(d)
      PROVE  Invariant'
  <2> DEFINE r == DiceSet(ms.fMove, d)
  <2>1. Record(r) /\ NotDone /\ ~t.fDoubled
    BY <1>2, <1>5 DEF CommandSetDice
  <2>2. r \in Records /\ r.mt = "MOVE_SETDICE" /\ r.fPlayer = t.fMove
    BY <1>2, RecordsMade
  <2> HIDE DEF r
  <2>3. Legal(t, r) /\ r.mt \in Sets
    BY <2>1, <2>2 DEF Legal, Sets, CubeKinds
  <2> QED BY <1>1, <2>1, <2>2, <2>3, RecordKeeps
<1>6. ASSUME NEW b \in SetBoards, SetBoard(b)
      PROVE  Invariant'
  <2> DEFINE key == IF ms.fMove = 1 THEN SwapSides(b) ELSE b
             r == BoardSet(ms.fMove, key)
  <2>1. Record(r) /\ NotDone /\ ~t.fDoubled /\ ms.fResigned = 0
    BY <1>2, <1>6 DEF SetBoard
  <2>2. b \in Board /\ GameStatus(b) = 0
    BY SettingsAssumption
  <2>3. key \in Board /\ GameStatus(key) = 0
    BY <2>2, SwappedStatus
  <2> HIDE DEF key
  <2>4. r \in Records /\ r.mt = "MOVE_SETBOARD" /\ r.fPlayer = t.fMove /\ r.key = key
    BY <1>2, <2>3, RecordsMade
  <2> HIDE DEF r
  <2>5. Legal(t, r) /\ r.mt \in Sets
    BY <2>1, <2>3, <2>4 DEF Legal, Sets, CubeKinds
  <2> QED BY <1>1, <2>1, <2>5, RecordKeeps
<1> QED BY <1>3, <1>4, <1>5, <1>6 DEF Settings

-----------------------------------------------------------------------------
(* The commands that only change the place, or an offer to resign.         *)

\* With the same games NextTurn has nothing new to tell, unless it is due.
LEMMA SameGames ==
  ASSUME NEW s, NEW c, NEW n, Consistent(s, c, n), ~Due(s, n), NEW u, Sound(u), u.lMatch = s.lMatch,
         s.lMatch # <<>>, NEW next \in BOOLEAN, next => u.plLastMove > 0 /\ u.ms.gs = "GAME_PLAYING"
  PROVE  Consistent(u, c, next)
<1>1. c \in -1..3 /\ Told(s, c, n)
  BY DEF Consistent, Before
<1>2. Told(u, c, next)
  BY <1>1 DEF Told
<1>3. Ending(u, next)
  BY DEF Ending, Due
<1> QED BY <1>1, <1>2, <1>3 DEF Consistent

\* An offer to resign, whoever's turn it then is.
Offers(info, t, m, a, b, turn, u) ==
    /\ t \in States /\ InPlay(t, info) /\ Agrees(m, t)
    /\ a \in Resignations \cup {0} /\ b \in Resignations \cup {0}
    /\ turn = IF a = 0 THEN t.fTurn ELSE Opponent(t.fTurn)
    /\ u = [m EXCEPT !.fResigned = a, !.fResignationDeclined = b, !.fTurn = turn]

\* A resignation on offer, or none any more, leaves the state in agreement.
LEMMA OfferAgrees ==
  ASSUME NEW info, NEW t, NEW m, NEW a, NEW b, NEW turn, NEW u, Offers(info, t, m, a, b, turn, u)
  PROVE  Agrees(u, t) /\ u.gs = "GAME_PLAYING"
<1>0. /\ t \in States /\ InPlay(t, info) /\ Agrees(m, t)
      /\ a \in Resignations \cup {0} /\ b \in Resignations \cup {0}
      /\ turn = IF a = 0 THEN t.fTurn ELSE Opponent(t.fTurn)
      /\ u = [m EXCEPT !.fResigned = a, !.fResignationDeclined = b, !.fTurn = turn]
  BY DEF Offers
<1>1. /\ m \in States /\ m.gs = "GAME_PLAYING" /\ m.fCrawford = t.fCrawford /\ m.fPostCrawford = t.fPostCrawford
  BY <1>0, LiveFields
<1>2. t.gs = "GAME_PLAYING" /\ t.fTurn \in Players
  BY <1>0 DEF InPlay
<1>3. m = [t EXCEPT !.fResigned = m.fResigned, !.fResignationDeclined = m.fResignationDeclined,
                    !.fTurn = m.fTurn, !.fCrawford = m.fCrawford, !.fPostCrawford = m.fPostCrawford]
  BY <1>0 DEF Agrees
<1>4. /\ u.gs = m.gs /\ u.fResigned = a /\ u.fResignationDeclined = b /\ u.fTurn = turn
      /\ u.fCrawford = t.fCrawford /\ u.fPostCrawford = t.fPostCrawford
  BY <1>0, <1>1 DEF States
<1>5. u = [t EXCEPT !.fResigned = u.fResigned, !.fResignationDeclined = u.fResignationDeclined,
                    !.fTurn = u.fTurn, !.fCrawford = u.fCrawford, !.fPostCrawford = u.fPostCrawford]
  <2>1. u = [t EXCEPT !.fResigned = a, !.fResignationDeclined = b, !.fTurn = turn,
                      !.fCrawford = m.fCrawford, !.fPostCrawford = m.fPostCrawford]
    BY <1>0, <1>3 DEF States
  <2> QED BY <1>1, <1>4, <2>1
<1>6. turn \in Players /\ {u.fCrawford, u.fPostCrawford} \subseteq BOOLEAN
  <2>1. \A p : Opponent(p) \in Players
    BY DEF Opponent, Players
  <2>2. t.fCrawford \in BOOLEAN /\ t.fPostCrawford \in BOOLEAN
    BY <1>0 DEF States
  <2> QED BY <1>0, <1>2, <1>4, <2>1, <2>2
<1> QED BY <1>0, <1>1, <1>2, <1>4, <1>5, <1>6 DEF Agrees

\* CommandResign and CommandDecline.
LEMMA OfferKeeps ==
  ASSUME Habits \subseteq {"restart"}, Invariant, (\E n \in Resignations : CommandResign(n)) \/ CommandDecline
  PROVE  Invariant'
<1>0. Playing /\ fCrawfordState' = fCrawfordState /\ lMatch' = lMatch /\ plGame' = plGame /\ plLastMove' = plLastMove
      /\ fNextTurn' \in BOOLEAN
  BY DEF CommandResign, CommandDecline, TurnDone, NotDone
<1>1. PICK t : InGame(t)
  BY <1>0, PlayingGame
<1>2. t \in States /\ InPlay(t, InfoOf(Here)) /\ Agrees(ms, t) /\ t.fTurn \in Players /\ At(Here, t)
  BY <1>1 DEF InGame
<1>3. ms \in States
  BY <1>2, LiveFields
<1>4. Opponent(Opponent(t.fTurn)) = t.fTurn
  BY <1>2 DEF Opponent, Players
<1>5. PICK u : u = ms' /\ Agrees(u, t) /\ u.gs = "GAME_PLAYING"
  <2>1. CASE CommandDecline
    <3> DEFINE b == ms.fResigned
               turn == t.fTurn
    <3>1. ms.fTurn = Opponent(t.fTurn) /\ b \in Resignations \cup {0} /\ 0 \in Resignations \cup {0}
      BY <1>1, <2>1 DEF InGame, CommandDecline
    <3>2. ms' = [ms EXCEPT !.fResigned = 0, !.fResignationDeclined = b, !.fTurn = turn]
      <4>1. ms' = [ms EXCEPT !.fResignationDeclined = b, !.fResigned = 0, !.fTurn = Opponent(@)]
        BY <2>1 DEF CommandDecline
      <4>2. ms' = [ms EXCEPT !.fResignationDeclined = b, !.fResigned = 0, !.fTurn = turn]
        BY <1>3, <1>4, <3>1, <4>1 DEF States
      <4> QED BY <1>3, <4>2 DEF States
    <3> HIDE DEF b
    <3>3. \A a : a = 0 => turn = IF a = 0 THEN t.fTurn ELSE Opponent(t.fTurn)
      OBVIOUS
    <3> HIDE DEF turn
    <3>4. Offers(InfoOf(Here), t, ms, 0, b, turn, ms')
      BY <1>2, <3>1, <3>2, <3>3 DEF Offers
    <3> QED BY <3>4, OfferAgrees
  <2>2. ASSUME NEW n \in Resignations, CommandResign(n)
        PROVE  Agrees(ms', t) /\ (ms').gs = "GAME_PLAYING"
    <3>1. ms.fResigned = 0 /\ ms.fTurn = t.fTurn /\ ms.gs = "GAME_PLAYING"
      BY <1>1, <2>2 DEF InGame, CommandResign, NoResignation, Playing
    <3>2. CASE ms' = [ms EXCEPT !.fResigned = 0]
      <4>1. ms' = ms
        BY <1>3, <3>1, <3>2 DEF States
      <4> QED BY <1>2, <3>1, <4>1
    <3>3. CASE ms' = [ms EXCEPT !.fResigned = n, !.fTurn = Opponent(@)]
      <4> DEFINE b == ms.fResignationDeclined
                 turn == Opponent(t.fTurn)
      <4>1. b \in Resignations \cup {0} /\ n \in Resignations \cup {0} /\ n # 0
        BY <1>3, ResignationsAssumption DEF States
      <4>2. ms' = [ms EXCEPT !.fResigned = n, !.fResignationDeclined = b, !.fTurn = turn]
        BY <1>3, <3>1, <3>3 DEF States
      <4>3. turn = IF n = 0 THEN t.fTurn ELSE Opponent(t.fTurn)
        BY <4>1
      <4> HIDE DEF b, turn
      <4>4. Offers(InfoOf(Here), t, ms, n, b, turn, ms')
        BY <1>2, <4>1, <4>2, <4>3 DEF Offers
      <4> QED BY <4>4, OfferAgrees
    <3> QED BY <2>2, <3>2, <3>3 DEF CommandResign
  <2> QED BY <2>1, <2>2
<1> DEFINE s == [lMatch |-> lMatch, plGame |-> plGame, plLastMove |-> plLastMove, ms |-> u]
<1>6. /\ Here.lMatch = lMatch /\ Here.plGame = plGame /\ Here.plLastMove = plLastMove /\ Here.ms = ms
      /\ s.lMatch = lMatch /\ s.plGame = plGame /\ s.plLastMove = plLastMove /\ s.ms = u
  BY DEF Here
<1> HIDE DEF s
<1>7. Become(s)
  BY <1>0, <1>5, <1>6 DEF Become
<1>8. /\ Chronicle(lMatch) /\ plGame \in DOMAIN lMatch /\ plLastMove \in 1..Len(lMatch[plGame].moves)
      /\ t = Trace(lMatch[plGame])[plLastMove]
  BY <1>2, <1>6 DEF At
<1>9. Sound(s) /\ plLastMove > 0 /\ lMatch # <<>>
  <2>1. Len(lMatch[plGame].moves) \in Nat
    BY <1>8, ChronicleGames DEF Good, MatchGames
  <2>2. plLastMove \in 0..Len(lMatch[plGame].moves) /\ plLastMove # 0 /\ plLastMove > 0
    BY <1>8, <2>1
  <2>3. lMatch # <<>>
    BY <1>8
  <2> QED BY <1>5, <1>6, <1>8, <2>2, <2>3 DEF Sound, Live
<1>10. Consistent(Here, fCrawfordState, fNextTurn) /\ ~Due(Here, fNextTurn)
  BY <1>1 DEF Invariant, InGame, Due
<1>11. PICK next : next = fNextTurn'
  OBVIOUS
<1>12. Consistent(s, fCrawfordState, next)
  BY <1>0, <1>5, <1>6, <1>9, <1>10, <1>11, SameGames
<1> QED BY <1>0, <1>7, <1>11, <1>12, BecomeConsistent

\* Records applied from the start of a game.
LEMMA Replayed ==
  ASSUME NEW game, Good(game), NEW k \in 0..Len(game.moves)
  PROVE  /\ CalculateBoard(game, k).info = game.info
         /\ k = 0 => AtStart(CalculateBoard(game, k).ms, game)
         /\ k # 0 => CalculateBoard(game, k).ms = Trace(game)[k] /\ Agrees(Trace(game)[k], Trace(game)[k])
<1>1. /\ game \in MatchGames /\ GoodInfo(game.info) /\ game.moves # <<>> /\ Run(Trace(game), game)
      /\ game.moves[1].mt \in {"MOVE_SETDICE", "MOVE_NORMAL"}
  BY DEF Good
<1>2. CASE k # 0
  <2>1. k \in 1..Len(game.moves) /\ k > 0
    BY <1>1, <1>2 DEF MatchGames
  <2>2. CalculateBoard(game, k) = [ms |-> Trace(game)[k], info |-> game.info]
    BY <1>1, <2>1, ReplayIsRun
  <2>3. After(Trace(game)[k], game.info, game.moves[k])
    BY <2>1, GameStates
  <2> QED BY <1>2, <2>2, <2>3, AgreesItself
<1>3. CASE k = 0
  <2> DEFINE r == game.moves[1]
             s == StartState(game.info)
             p == r.fPlayer
  <2>1. 0 < Len(game.moves) /\ r \in Records /\ game.info \in GameInfos
    BY <1>1, MatchTypes DEF MatchGames
  <2>2. s.anBoard = InitBoard /\ s \in MatchStates
    BY <2>1, StartStateTypes DEF StartState
  <2>3. CalculateBoard(game, 0) = [ms |-> FixMatchState(s, r), info |-> game.info]
    <3>1. game.moves[0 + 1] = r
      OBVIOUS
    <3>2. CalculateBoard(game, 0) = FixForNext(game, 0, [ms |-> s, info |-> game.info])
      BY CalculateBoardFirst DEF FirstState
    <3> QED BY <2>1, <3>1, <3>2 DEF FixForNext
  <2> HIDE DEF s
  <2>4. FixMatchState(s, r) \in {s, [s EXCEPT !.fMove = p, !.fTurn = p]}
    <3>1. [s EXCEPT !.anBoard = SwapSides(@), !.fMove = p, !.fTurn = p] = [s EXCEPT !.fMove = p, !.fTurn = p]
      BY <2>2, InitBoardSwapped DEF MatchStates
    <3> QED BY <3>1 DEF FixMatchState
  <2> QED BY <1>3, <2>3, <2>4 DEF AtStart, s
<1> QED BY <1>2, <1>3

\* A place in the match is a record of these.
IsPlace(s) == s = [lMatch |-> s.lMatch, plGame |-> s.plGame, plLastMove |-> s.plLastMove, ms |-> s.ms]

\* Going to any record of the current game.
LEMMA GoToPlace ==
  ASSUME NEW s, IsPlace(s), Chronicle(s.lMatch), s.plGame \in DOMAIN s.lMatch,
         NEW k \in 0..Len(s.lMatch[s.plGame].moves), NEW u, u = GoTo(s, k)
  PROVE  Sound(u) /\ IsPlace(u) /\ u.lMatch = s.lMatch /\ u.plGame = s.plGame /\ u.plLastMove = k
<1> DEFINE game == s.lMatch[s.plGame]
           g == CalculateBoard(game, k)
<1>1. Good(game) /\ s.lMatch \in Seq(MatchGames) /\ game \in MatchGames
  BY ChronicleGames DEF Good
<1>2. /\ g.info = game.info
      /\ k = 0 => AtStart(g.ms, game)
      /\ k # 0 => g.ms = Trace(game)[k] /\ Agrees(Trace(game)[k], Trace(game)[k])
  BY <1>1, Replayed
<1>3. u = [s EXCEPT !.lMatch[s.plGame].info = g.info, !.plLastMove = k, !.ms = g.ms]
  BY DEF GoTo
<1> HIDE DEF g
<1>4. [s.lMatch EXCEPT ![s.plGame].info = g.info] = s.lMatch
  <2>1. [game EXCEPT !.info = g.info] = game
    BY <1>1, <1>2 DEF MatchGames
  <2>2. [s.lMatch EXCEPT ![s.plGame].info = g.info] = [s.lMatch EXCEPT ![s.plGame] = [game EXCEPT !.info = g.info]]
    OBVIOUS
  <2> QED BY <1>1, <2>1, <2>2
<1>5. u = [lMatch |-> s.lMatch, plGame |-> s.plGame, plLastMove |-> k, ms |-> g.ms]
  <2>1. u = [[s EXCEPT !.plLastMove = k, !.ms = g.ms] EXCEPT !.lMatch = [s.lMatch EXCEPT ![s.plGame].info = g.info]]
    BY <1>3 DEF IsPlace
  <2>2. u = [[s EXCEPT !.plLastMove = k, !.ms = g.ms] EXCEPT !.lMatch = s.lMatch]
    BY <1>4, <2>1
  <2> QED BY <2>2 DEF IsPlace
<1>6. Sound(u)
  BY <1>2, <1>5 DEF Sound, Live
<1> QED BY <1>5, <1>6 DEF IsPlace

\* The start of another game.
LEMMA ChangeGamePlace ==
  ASSUME NEW s, IsPlace(s), Chronicle(s.lMatch), NEW g \in DOMAIN s.lMatch, NEW u, u = ChangeGame(s, g)
  PROVE  Sound(u) /\ u.lMatch = s.lMatch /\ u.plLastMove = 0
<1> DEFINE v == [s EXCEPT !.plGame = g]
           start == GoTo(v, 0)
           next == s.lMatch[g].moves
           p == Head(next).fPlayer
<1>1. v = [lMatch |-> s.lMatch, plGame |-> g, plLastMove |-> s.plLastMove, ms |-> s.ms]
  BY DEF IsPlace
<1>2. Good(s.lMatch[g]) /\ Len(next) \in Nat /\ p = next[1].fPlayer
  BY ChronicleGames DEF Good, MatchGames
<1>3. Sound(start) /\ IsPlace(start) /\ start.lMatch = s.lMatch /\ start.plGame = g /\ start.plLastMove = 0
  <2>1. /\ IsPlace(v) /\ v.lMatch = s.lMatch /\ v.plGame = g
    BY <1>1 DEF IsPlace
  <2>2. 0 \in 0..Len(v.lMatch[v.plGame].moves)
    BY <1>2, <2>1
  <2> HIDE DEF v
  <2> QED BY <2>1, <2>2, GoToPlace
<1>4. u \in {start, [start EXCEPT !.ms = SetTurn(@, p)]}
  BY DEF ChangeGame
<1> HIDE DEF start
<1>5. CASE u = start
  BY <1>3, <1>5
<1>6. CASE u = [start EXCEPT !.ms = SetTurn(@, p)]
  <2> DEFINE s0 == StartState(s.lMatch[g].info)
             m == start.ms
             turned == [s0 EXCEPT !.fMove = p, !.fTurn = p]
  <2>1. m \in {s0, turned}
    BY <1>2, <1>3 DEF Sound, Live, AtStart
  <2>2. s0 \in MatchStates /\ s0.anBoard = InitBoard /\ s0.fDoubled = FALSE /\ s0.anDice = 0
    <3>1. s.lMatch[g].info \in GameInfos
      BY <1>2, MatchTypes DEF Good, MatchGames
    <3> QED BY <3>1, StartStateTypes DEF StartState
  <2>3. turned.anBoard = InitBoard
    BY <2>2 DEF MatchStates
  <2> HIDE DEF s0
  <2>4. SetTurn(m, p) = [m EXCEPT !.anBoard = InitBoard, !.fTurn = p, !.fMove = p, !.fDoubled = FALSE, !.anDice = 0]
    <3>1. m.anBoard = InitBoard
      BY <2>1, <2>2, <2>3
    <3> HIDE DEF m
    <3> QED BY <3>1, InitBoardSwapped DEF SetTurn
  <2>5. SetTurn(m, p) = turned
    <3> DEFINE full == [s0 EXCEPT !.anBoard = InitBoard, !.fTurn = p, !.fMove = p, !.fDoubled = FALSE, !.anDice = 0]
    <3> HIDE DEF m
    <3>1. m = s0 => SetTurn(m, p) = full
      BY <2>4
    <3>2. m = turned => SetTurn(m, p) = full
      BY <2>2, <2>4, ZenonT(60) DEF MatchStates
    <3>3. full = turned
      BY <2>2 DEF MatchStates
    <3> QED BY <2>1, <3>1, <3>2, <3>3
  <2>6. u = [lMatch |-> s.lMatch, plGame |-> g, plLastMove |-> 0, ms |-> turned]
    <3> HIDE DEF turned
    <3> QED BY <1>3, <1>6, <2>5 DEF IsPlace
  <2>7. AtStart(turned, s.lMatch[g])
    BY <1>2 DEF AtStart, s0
  <2> HIDE DEF turned
  <2>8. Live(u)
    BY <1>3, <2>6, <2>7 DEF Live, Sound
  <2> QED BY <2>6, <2>8 DEF Sound
<1> QED BY <1>4, <1>5, <1>6

\* When a match has begun there is a current game,
LEMMA CurrentGame ==
  ASSUME Invariant, plGame # 0
  PROVE  /\ Sound(Here) /\ Chronicle(lMatch) /\ plGame \in DOMAIN lMatch /\ lMatch # <<>> /\ IsPlace(Here)
         /\ Good(lMatch[plGame]) /\ Len(lMatch[plGame].moves) \in Nat \ {0}
         /\ plLastMove \in 0..Len(lMatch[plGame].moves)
         /\ Here.lMatch = lMatch /\ Here.plGame = plGame /\ Here.plLastMove = plLastMove /\ Here.ms = ms
<1>1. /\ Here.lMatch = lMatch /\ Here.plGame = plGame /\ Here.plLastMove = plLastMove /\ Here.ms = ms /\ IsPlace(Here)
  BY DEF Here, IsPlace
<1>2. Sound(Here)
  BY <1>1 DEF Invariant, Consistent, Before
<1>3. Chronicle(lMatch) /\ plGame \in DOMAIN lMatch /\ plLastMove \in 0..Len(lMatch[plGame].moves)
  BY <1>1, <1>2 DEF Sound, Live
<1>4. Good(lMatch[plGame])
  BY <1>3, ChronicleGames
<1>5. Len(lMatch[plGame].moves) \in Nat \ {0}
  BY <1>4 DEF Good, MatchGames
<1> QED BY <1>1, <1>2, <1>3, <1>4, <1>5

\* and another place in it or in another game keeps everything else.
LEMMA PlaceKeeps ==
  ASSUME Invariant, AtPrompt, NotDone, UNCHANGED fCrawfordState, lMatch # <<>>,
         NEW u, Become(u), Sound(u), u.lMatch = lMatch
  PROVE  Invariant'
<1>1. Consistent(Here, fCrawfordState, fNextTurn) /\ ~Due(Here, fNextTurn) /\ Here.lMatch = lMatch
  BY DEF Invariant, AtPrompt, Due, Here
<1>2. PICK next \in BOOLEAN : next = fNextTurn' /\ ~next
  BY DEF NotDone
<1>3. Consistent(u, fCrawfordState, next)
  BY <1>1, <1>2, SameGames
<1> QED BY <1>2, <1>3, BecomeConsistent

\* CommandPrevious,
LEMMA PreviousKeeps ==
  ASSUME Invariant, CommandPrevious
  PROVE  Invariant'
<1>1. AtPrompt /\ plGame # 0 /\ NotDone /\ UNCHANGED fCrawfordState
  BY DEF CommandPrevious
<1>2. /\ Chronicle(Here.lMatch) /\ Here.plGame \in DOMAIN Here.lMatch /\ IsPlace(Here) /\ lMatch # <<>>
      /\ Here.lMatch = lMatch /\ Len(lMatch[plGame].moves) \in Nat \ {0} /\ Here.plGame = plGame
      /\ plLastMove \in 0..Len(lMatch[plGame].moves)
  BY <1>1, CurrentGame
<1>3. PICK k \in 0..Len(lMatch[plGame].moves) : k = Max({0, plLastMove - 1})
  <2>1. plLastMove - 1 \in Int /\ 0 \in Int
    BY <1>2
  <2>2. Max({0, plLastMove - 1}) = IF 0 >= plLastMove - 1 THEN 0 ELSE plLastMove - 1
    BY <2>1, LargerOfTwo
  <2> QED BY <1>2, <2>2
<1>4. PICK u : u = GoTo(Here, k) /\ Become(u)
  BY <1>3 DEF CommandPrevious
<1>5. Sound(u) /\ u.lMatch = lMatch
  BY <1>2, <1>4, GoToPlace
<1> QED BY <1>1, <1>2, <1>4, <1>5, PlaceKeeps

\* and the first record of any game.
LEMMA ToGameKeeps ==
  ASSUME Invariant, NEW g \in DOMAIN lMatch, ToGame(g)
  PROVE  Invariant'
<1>1. AtPrompt /\ plGame # 0 /\ NotDone /\ UNCHANGED fCrawfordState
  BY DEF ToGame
<1>2. Chronicle(Here.lMatch) /\ IsPlace(Here) /\ lMatch # <<>> /\ Here.lMatch = lMatch
  BY <1>1, CurrentGame
<1>3. PICK u : u = ChangeGame(Here, g) /\ Become(u)
  BY DEF ToGame
<1>4. Sound(u) /\ u.lMatch = lMatch
  BY <1>2, <1>3, ChangeGamePlace
<1> QED BY <1>1, <1>2, <1>3, <1>4, PlaceKeeps

\* The next record leads to the state after it.
GoesNext(game, k, m, g) ==
    /\ Good(game) /\ k \in 0..(Len(game.moves) - 1)
    /\ IF k = 0 THEN AtStart(m, game)
       ELSE Agrees(m, Trace(game)[k]) /\ (m.gs = "GAME_PLAYING" => m.fResigned = 0)
    /\ g = FixForNext(game, k + 1,
               ApplyMoveRecord([ms |-> FixMatchState(m, game.moves[k + 1]), info |-> game.info], game.moves[k + 1]))

\* CommandNext applies one record more, with the same outcome as a replay.
LEMMA NextRecord ==
  ASSUME NEW game, NEW k, NEW m, NEW g, GoesNext(game, k, m, g)
  PROVE  g = [ms |-> Trace(game)[k + 1], info |-> game.info]
<1> DEFINE t == Trace(game)[k]
           r == game.moves[k + 1]
           next == Trace(game)[k + 1]
           info == game.info
<1>0. /\ Good(game) /\ k \in 0..(Len(game.moves) - 1)
      /\ k = 0 => AtStart(m, game)
      /\ k # 0 => Agrees(m, Trace(game)[k]) /\ (m.gs = "GAME_PLAYING" => m.fResigned = 0)
      /\ g = FixForNext(game, k + 1, ApplyMoveRecord([ms |-> FixMatchState(m, r), info |-> info], r))
  BY DEF GoesNext
<1>1. Len(game.moves) \in Nat \ {0}
  BY <1>0 DEF Good, MatchGames
<1>2. k \in 0..Len(game.moves) /\ k < Len(game.moves) /\ k + 1 \in 0..Len(game.moves)
  BY <1>0, <1>1
<1>3. /\ t \in States /\ SameMatch(t, info) /\ InPlay(t, info) /\ t.gs = "GAME_PLAYING" /\ Legal(t, r)
      /\ Applied(t, info, r) = [ms |-> next, info |-> info] /\ info \in Infos /\ GoodInfo(info)
  BY <1>0, <1>2, GameStates
<1>4. Applied(FixMatchState(m, r), info, r) = Applied(t, info, r)
  <2>1. CASE k = 0
    <3>1. t = Opened(info, r.fPlayer) /\ r.mt \in {"MOVE_SETDICE", "MOVE_NORMAL"}
      <4>1. game.moves[k + 1] = game.moves[1] /\ Trace(game)[k] = Trace(game)[0]
        BY <2>1
      <4> QED BY <1>0, <4>1 DEF Good, Run
    <3>2. m \in {StartState(info), [StartState(info) EXCEPT !.fMove = r.fPlayer, !.fTurn = r.fPlayer]}
      BY <1>0, <2>1 DEF AtStart
    <3>3. r \in Records
      BY <1>3 DEF Legal
    <3> HIDE DEF t, r, info
    <3>4. PICK p : p = r.fPlayer
      OBVIOUS
    <3> QED BY <1>3, <3>1, <3>2, <3>3, <3>4, FirstRecord
  <2>2. CASE k # 0
    <3>1. Agrees(m, t) /\ m.fResigned = 0
      BY <1>0, <1>3, <2>2 DEF Agrees
    <3> HIDE DEF t, r, info
    <3> QED BY <1>3, <3>1, LiveRecord
  <2> QED BY <2>1, <2>2
<1>5. ApplyMoveRecord([ms |-> FixMatchState(m, r), info |-> info], r) = [ms |-> next, info |-> info]
  BY <1>3, <1>4 DEF Applied
<1>6. k + 1 < Len(game.moves) => FixMatchState(next, game.moves[k + 1 + 1]) = next
  <2>1. k + 1 < Len(game.moves) => Legal(next, game.moves[k + 1 + 1])
    BY <1>0, <1>2, GameStates
  <2> QED BY <2>1, LegalIsFixed
<1> HIDE DEF next, info, r, t
<1>7. FixForNext(game, k + 1, [ms |-> next, info |-> info]) = [ms |-> next, info |-> info]
  BY <1>6 DEF FixForNext
<1> QED BY <1>0, <1>5, <1>7 DEF next, info, r

\* CommandNext, also at the end of a game.
LEMMA NextKeeps ==
  ASSUME Habits \subseteq {"restart"}, Invariant, CommandNext
  PROVE  Invariant'
<1> DEFINE game == lMatch[plGame]
           k == plLastMove
           r == game.moves[k + 1]
           next == Trace(game)[k + 1]
           u == [lMatch |-> lMatch, plGame |-> plGame, plLastMove |-> k + 1, ms |-> next]
<1>1. AtPrompt /\ plGame # 0 /\ NotDone /\ UNCHANGED fCrawfordState /\ NoResignation /\ k < Len(game.moves)
  BY DEF CommandNext
<1>2. /\ Sound(Here) /\ Chronicle(lMatch) /\ plGame \in DOMAIN lMatch /\ lMatch # <<>>
      /\ Good(game) /\ Len(game.moves) \in Nat \ {0} /\ k \in 0..Len(game.moves)
      /\ Here.lMatch = lMatch /\ Here.plGame = plGame /\ Here.plLastMove = k /\ Here.ms = ms
  BY <1>1, CurrentGame
<1>3. k \in 0..(Len(game.moves) - 1) /\ k + 1 \in 0..Len(game.moves) /\ k + 1 # 0 /\ k + 1 > 0
  BY <1>1, <1>2
<1>4. IF k = 0 THEN AtStart(ms, game)
      ELSE Agrees(ms, Trace(game)[k]) /\ (ms.gs = "GAME_PLAYING" => ms.fResigned = 0)
  <2>1. IF k = 0 THEN AtStart(ms, game) ELSE Agrees(ms, Trace(game)[k])
    BY <1>2 DEF Sound, Live
  <2> QED BY <1>1, <2>1 DEF NoResignation
<1>5. FixForNext(game, k + 1, ApplyMoveRecord([ms |-> FixMatchState(ms, r), info |-> game.info], r))
        = [ms |-> next, info |-> game.info]
  <2> HIDE DEF game, k
  <2>1. PICK g : GoesNext(game, k, ms, g)
    BY <1>2, <1>3, <1>4 DEF GoesNext
  <2>2. g = [ms |-> Trace(game)[k + 1], info |-> game.info]
    BY <2>1, NextRecord
  <2> QED BY <2>1, <2>2 DEF GoesNext
<1>6. [lMatch EXCEPT ![plGame].info = game.info] = lMatch
  <2>1. lMatch \in Seq(MatchGames) /\ game \in MatchGames
    BY <1>2 DEF Chronicle, Good
  <2>2. [game EXCEPT !.info = game.info] = game
    BY <2>1 DEF MatchGames
  <2> QED BY <1>2, <2>1, <2>2
<1>7. Become(u)
  <2> HIDE DEF next
  <2>1. Become([lMatch |-> [lMatch EXCEPT ![plGame].info = game.info], plGame |-> plGame,
                plLastMove |-> k + 1, ms |-> next])
    BY <1>5 DEF CommandNext
  <2> QED BY <1>6, <2>1
<1>8. Sound(u)
  <2>1. Agrees(next, next)
    <3>1. After(next, game.info, game.moves[k + 1])
      BY <1>2, <1>3, GameStates
    <3> QED BY <3>1, AgreesItself
  <2>2. u.lMatch = lMatch /\ u.plGame = plGame /\ u.plLastMove = k + 1 /\ u.ms = next
    OBVIOUS
  <2> HIDE DEF u
  <2> QED BY <1>2, <1>3, <2>1, <2>2 DEF Sound, Live
<1>9. u.lMatch = lMatch
  OBVIOUS
<1> HIDE DEF u
<1> QED BY <1>1, <1>2, <1>7, <1>8, <1>9, PlaceKeeps

-----------------------------------------------------------------------------
(* A new game.                                                             *)

\* With info as it is before its first record, a game can follow the others.
Fits(games, info) ==
    LET before == OneAwayBefore(games, Len(games) + 1)
    IN /\ Chronicle(games) /\ info \in Infos /\ GoodInfo(info) /\ InMatch(info)
       /\ games = <<>> => FirstGame(info)
       /\ games # <<>> => Finished(Last(games)) /\ NextGame(info, Last(games).info)
       /\ info.fCrawfordGame <=> OneAway(info) /\ ~before
       /\ info.nMatch # 1 => ((OneAway(info) \/ before) <=> (info.fCrawfordGame \/ StartState(info).fPostCrawford))

\* The game after its opening.
Begins(info, r, g, new) ==
    /\ info \in Infos /\ GoodInfo(info) /\ r \in Records /\ r.mt = "MOVE_SETDICE"
    /\ g = Applied(StartState(info), info, r) /\ new = [info |-> g.info, moves |-> <<r>>]

\* A game of one record, of the dice that begin it.
LEMMA Beginning ==
  ASSUME NEW info, NEW r, NEW g, NEW new, Begins(info, r, g, new)
  PROVE  /\ Good(new) /\ Len(new.moves) = 1 /\ Trace(new)[1] = g.ms /\ new.info = info /\ g.info = info
         /\ g.ms.gs = "GAME_PLAYING" /\ Agrees(g.ms, g.ms)
<1> DEFINE start == StartState(info)
           p == r.fPlayer
           t == Opened(info, p)
           f == [k \in {0} |-> t]
           none == <<>>
           longer == <<r>>
<1>1. /\ info \in Infos /\ GoodInfo(info) /\ r \in Records /\ r.mt = "MOVE_SETDICE" /\ p \in Players
      /\ r.mt \in {"MOVE_SETDICE", "MOVE_NORMAL"} /\ r.mt \in Sets
  BY MatchTypes DEF Begins, Sets
<1>2. g = Applied(t, info, r)
  <2> HIDE DEF start, t
  <2>1. start \in {StartState(info), [StartState(info) EXCEPT !.fMove = p, !.fTurn = p]}
    BY DEF start
  <2>2. PICK q : q = p
    OBVIOUS
  <2>3. Applied(FixMatchState(start, r), info, r) = Applied(Opened(info, q), info, r)
    BY <1>1, <2>1, <2>2, FirstRecord
  <2>4. FixMatchState(start, r) = start
    BY <1>1, OtherIsFixed
  <2> QED BY <2>2, <2>3, <2>4 DEF Begins, start, t
<1>3. t \in States /\ SameMatch(t, info) /\ InPlay(t, info) /\ ~t.fDoubled /\ t.fMove = p
  BY <1>1, OpenedPlays
<1>4. Legal(t, r)
  BY <1>1, <1>3 DEF Legal, CubeKinds
<1>5. Len(none) = 0 /\ none \in Seq(Records) /\ longer = Append(none, r) /\ longer[1] = r /\ f[0] = t
  OBVIOUS
<1>6. SoFar(f, info, none, 0)
  BY <1>3, <1>5 DEF SoFar
<1>7. g.ms.gs = "GAME_PLAYING"
  BY <1>1, <1>2, <1>3, <1>4, SetsGoOn
<1>8. new = [info |-> g.info, moves |-> longer] /\ Len(longer) = 1 /\ new.moves = longer /\ new.info = g.info
  BY DEF Begins
<1> HIDE DEF f, none, longer, t
<1>9. LeadTo(f, info, none, 0, r, longer, g, new)
  BY <1>1, <1>2, <1>4, <1>5, <1>6, <1>8 DEF LeadTo, t, p
<1>10. Good(new) /\ Trace(new)[0 + 1] = g.ms /\ Step(g, info, r)
  BY <1>9, Extend
<1>11. After(g.ms, g.info, r) /\ g.info = info
  <2>1. ~IsOver(g.ms, g.info)
    BY <1>7 DEF IsOver, OverKinds
  <2> QED BY <1>10, <2>1 DEF Step, After
<1> QED BY <1>7, <1>8, <1>10, <1>11, AgreesItself

\* Doubles before the start change the value of the cube only.
Started(n, score, games, no, cube, crawford, post) ==
    [anBoard |-> InitBoard, nMatchTo |-> n, anScore |-> score, cGames |-> games, gs |-> "GAME_NONE",
     fMove |-> Nobody, fTurn |-> Nobody, fCubeOwner |-> Nobody, anDice |-> 0, cBeavers |-> 0, fDoubled |-> no,
     nCube |-> cube, fCrawford |-> crawford, fPostCrawford |-> post, fResigned |-> 0, fResignationDeclined |-> 0]

\* The automatic doubles.
LEMMA StartedCube ==
  ASSUME NEW n, NEW score, NEW games, NEW no, NEW cube, NEW old, NEW crawford, NEW post
  PROVE  [Started(n, score, games, no, old, crawford, post) EXCEPT !.nCube = cube]
            = Started(n, score, games, no, cube, crawford, post)
BY DEF Started

\* The opening of a game that fits.
Opens(s, info, first, ties, p, d, u) ==
    /\ Fits(s.lMatch, first) /\ first = [info EXCEPT !.nAutoDoubles = ties]
    /\ p \in Players /\ d \in Dice /\ fDisplay = TRUE /\ u = Opening(s, info, ties, p, d)

\* A game that fits may be opened.
LEMMA OpeningFits ==
  ASSUME NEW s, NEW info \in Infos, NEW first, NEW ties, NEW p, NEW d, NEW u, Opens(s, info, first, ties, p, d, u),
         NEW crawford \in -1..3
  PROVE  Consistent(u, crawford, FALSE)
<1> DEFINE games == s.lMatch
           r == DiceSet(p, d)
           start == StartState(first)
           g == Applied(start, first, r)
           new == [info |-> g.info, moves |-> <<r>>]
           all == Append(games, new)
           last == Len(games)
           out == [lMatch |-> all, plGame |-> last + 1, plLastMove |-> 1, ms |-> g.ms]
<1>1. /\ Fits(games, first) /\ first = [info EXCEPT !.nAutoDoubles = ties]
      /\ p \in Players /\ d \in Dice /\ fDisplay = TRUE /\ u = Opening(s, info, ties, p, d)
  BY DEF Opens
<1>2. /\ Chronicle(games) /\ first \in Infos /\ GoodInfo(first) /\ games \in Seq(MatchGames) /\ last \in Nat
      /\ games = <<>> <=> last = 0
  BY <1>1 DEF Fits, Chronicle
<1>3. r \in Records /\ r.mt = "MOVE_SETDICE"
  BY <1>1, RecordsMade
<1>4. [StartState(info) EXCEPT !.nCube = IF fDisplay THEN 2 ^ ties ELSE 1] = start
  <2>1. /\ first.i = info.i /\ first.nMatch = info.nMatch /\ first.anScore = info.anScore
        /\ first.fCrawfordGame = info.fCrawfordGame /\ first.nAutoDoubles = ties
    BY <1>1 DEF Infos
  <2> DEFINE post == ~info.fCrawfordGame /\ \E q \in Players : info.anScore[q] = info.nMatch - 1
  <2>0. PICK no : no = FALSE
    OBVIOUS
  <2>2. start = Started(info.nMatch, info.anScore, info.i, no, 2 ^ ties, info.fCrawfordGame, post)
    <3>1. (~first.fCrawfordGame /\ \E q \in Players : first.anScore[q] = first.nMatch - 1) = post
      BY <2>1
    <3> HIDE DEF post
    <3> QED BY <2>0, <2>1, <3>1 DEF StartState, Started
  <2>3. StartState(info) = Started(info.nMatch, info.anScore, info.i, no, 2 ^ info.nAutoDoubles, info.fCrawfordGame, post)
    BY <2>0 DEF StartState, Started
  <2> HIDE DEF post, start
  <2>4. [StartState(info) EXCEPT !.nCube = 2 ^ ties] = start
    BY <2>2, <2>3, StartedCube
  <2> QED BY <1>1, <2>4
<1> HIDE DEF r, start
<1>5. FixMatchState(start, r) = start
  BY <1>3, OtherIsFixed
<1>6. u = out
  <2> DEFINE empty == [info |-> first, moves |-> <<>>]
             longer == Append(games, empty)
             place == [lMatch |-> longer, plGame |-> last + 1, plLastMove |-> 0, ms |-> start]
  <2>1. u = AddMoveRecord(place, r)
    BY <1>1, <1>4 DEF Opening, r
  <2>2. /\ longer[last + 1] = empty /\ SubSeq(longer, 1, last) = games
    <3>1. PICK X : games \in Seq(X) /\ empty \in X /\ longer \in Seq(X)
      <4>1. games \in Seq(MatchGames \cup {empty}) /\ empty \in MatchGames \cup {empty}
        BY <1>2
      <4> HIDE DEF empty
      <4>2. longer \in Seq(MatchGames \cup {empty})
        BY <4>1
      <4> QED BY <4>1, <4>2
    <3> HIDE DEF empty
    <3>2. longer[last + 1] = empty
      BY <1>2, <3>1
    <3>3. SubSeq(longer, 1, last) \in Seq(X) /\ Len(SubSeq(longer, 1, last)) = last
          /\ \A j \in 1..last : SubSeq(longer, 1, last)[j] = games[j]
      BY <1>2, <3>1
    <3> HIDE DEF longer
    <3>4. SubSeq(longer, 1, last) = games
      BY <1>2, <3>1, <3>3, SeqEqual
    <3> QED BY <3>2, <3>4
  <2>3. SubSeq(empty.moves, 1, 0) = <<>> /\ Append(<<>>, r) = <<r>> /\ Len(<<>>) = 0 /\ last + 1 - 1 = last
    BY <1>2
  <2> HIDE DEF longer
  <2>4. /\ place.lMatch[place.plGame] = empty /\ place.plLastMove = 0 /\ place.ms = start /\ place.plGame = last + 1
        /\ SubSeq(place.lMatch, 1, place.plGame - 1) = games
    BY <2>2, <2>3, SMTT(60)
  <2> HIDE DEF place
  <2>5. g = ApplyMoveRecord([ms |-> FixMatchState(start, r), info |-> empty.info], r)
    BY <1>5 DEF Applied
  <2> HIDE DEF g, empty
  <2>6. AddMoveRecord(place, r) = [lMatch |-> Append(games, [info |-> g.info, moves |-> <<r>>]), plGame |-> last + 1,
                                   plLastMove |-> 0 + 1, ms |-> g.ms]
    BY <2>3, <2>4, <2>5 DEF AddMoveRecord
  <2> QED BY <2>1, <2>6
<1> HIDE DEF g, new
<1>7. Begins(first, r, g, new)
  BY <1>2, <1>3 DEF Begins, g, new, start
<1>8. /\ Good(new) /\ Len(new.moves) = 1 /\ Trace(new)[1] = g.ms /\ new.info = first /\ g.info = first
      /\ g.ms.gs = "GAME_PLAYING" /\ Agrees(g.ms, g.ms)
  BY <1>7, Beginning
<1> HIDE DEF all
<1>9. /\ all = Append(games, new) /\ all[last + 1] = new /\ Len(all) = last + 1
      /\ \A h \in 1..last : all[h] = games[h]
  <2>1. new \in MatchGames
    BY <1>8 DEF Good
  <2> QED BY <1>2, <2>1 DEF all
<1>10. Crawford(all, last + 1)
  <2>1. OneAwayBefore(all, last + 1) <=> OneAwayBefore(games, last + 1)
    BY <1>2, <1>9 DEF OneAwayBefore
  <2> QED BY <1>1, <1>8, <1>9, <2>1 DEF Fits, Crawford
<1>11. Continues(games, last, new, all)
  <2>1. InMatch(first) /\ (last = 0 => FirstGame(first))
    BY <1>1, <1>2 DEF Fits
  <2>2. last # 0 => Finished(games[last]) /\ NextGame(first, games[last].info)
    BY <1>1, <1>2 DEF Fits, Last
  <2> QED BY <1>2, <1>8, <1>9, <1>10, <2>1, <2>2 DEF Continues
<1>12. Chronicle(all) /\ last + 1 \in DOMAIN all
  <2>1. Chronicle(all)
    BY <1>11, AppendChronicle
  <2>2. DOMAIN all = 1..Len(all)
    BY <2>1 DEF Chronicle
  <2> QED BY <1>2, <1>9, <2>1, <2>2
<1>13. out.lMatch = all /\ out.plGame = last + 1 /\ out.plLastMove = 1 /\ out.ms = g.ms
  OBVIOUS
<1> HIDE DEF out, last
<1>14. Sound(out)
  <2>1. out.plGame \in DOMAIN out.lMatch /\ out.lMatch[out.plGame] = new /\ Chronicle(out.lMatch)
    BY <1>9, <1>12, <1>13
  <2>2. 1 \in 0..Len(new.moves) /\ Agrees(out.ms, Trace(new)[out.plLastMove])
    BY <1>8, <1>13
  <2> QED BY <1>13, <2>1, <2>2 DEF Sound, Live
<1>15. Last(out.lMatch) = new /\ ~Finished(new)
  BY <1>8, <1>9, <1>13 DEF Last, Finished, Final
<1>16. Told(out, crawford, FALSE) /\ Ending(out, FALSE)
  BY <1>15 DEF Told, Ending, Due
<1> QED BY <1>6, <1>14, <1>16 DEF Consistent

\* The first game of a match,
LEMMA FirstFits ==
  ASSUME NEW info \in Infos, GoodInfo(info), FirstGame(info), ~info.fCrawfordGame
  PROVE  Fits(<<>>, info)
<1>1. Chronicle(<<>>) /\ Len(<<>>) = 0
  BY DEF Chronicle
<1>2. /\ info.nMatch \in Nat /\ info.i = 0 /\ 0 \in Players /\ 1 \in Players
      /\ \A p \in Players : info.anScore[p] = 0
  BY LengthsAssumption DEF Infos, FirstGame, Players
<1>3. InMatch(info)
  BY <1>2 DEF InMatch
<1>4. ~OneAway(info) /\ ~OneAwayBefore(<<>>, 0 + 1)
  BY <1>2 DEF OneAway, OneAwayBefore
<1>5. info.nMatch # 1 => ~StartState(info).fPostCrawford
  <2>1. StartState(info).fPostCrawford => \E p \in Players : info.anScore[p] = info.nMatch - 1
    BY DEF StartState
  <2> QED BY <1>2, <2>1
<1> QED BY <1>1, <1>3, <1>4, <1>5 DEF Fits

\* and one after another.  There is one Crawford game at most, as scores only
\* grow; before is whether there has been a player one point short.
Succeeds(info, last, before) ==
    /\ info \in Infos /\ last \in Infos /\ before \in BOOLEAN
    /\ NextGame(info, last) /\ last.nPoints > 0 /\ InMatch(last)
    /\ info.nMatch # 0 => \A p \in Players : info.anScore[p] < info.nMatch
    /\ last.fCrawfordGame <=> OneAway(last) /\ ~before
    /\ last.nMatch # 1 => ((OneAway(last) \/ before) <=> (last.fCrawfordGame \/ StartState(last).fPostCrawford))
    /\ info.fCrawfordGame <=> CrawfordNext(last)

\* From one score to the next: a player comes to be one point away once only.
LEMMA CrawfordFollows ==
  ASSUME NEW info, NEW last, NEW before, Succeeds(info, last, before)
  PROVE  /\ InMatch(info)
         /\ info.fCrawfordGame <=> OneAway(info) /\ ~(OneAway(last) \/ before)
         /\ info.nMatch # 1 => ((OneAway(info) \/ OneAway(last) \/ before)
                                  <=> (info.fCrawfordGame \/ StartState(info).fPostCrawford))
<1>1. PICK w, o, a, b, c, n : /\ w = last.fWinner /\ o = Opponent(w) /\ a = last.anScore[w] /\ b = last.anScore[o]
                              /\ c = a + last.nPoints /\ n = last.nMatch
  OBVIOUS
<1>2. /\ w \in Players /\ o \in Players /\ w # o /\ \A p \in Players : p = w \/ p = o
      /\ {0, 1} = {w, o} /\ a \in Nat /\ b \in Nat /\ c \in Nat /\ n \in Nat /\ c > a
      /\ info.nMatch = n /\ last.i \in Nat /\ info.i = last.i + 1
  <2>1. w \in Players /\ info.nMatch = n /\ info.i = last.i + 1
    BY <1>1 DEF Succeeds, NextGame
  <2>2. o \in Players /\ w # o /\ {0, 1} = {w, o} /\ \A p \in Players : p = w \/ p = o
    BY <1>1, <2>1 DEF Players, Opponent
  <2>3. last.anScore \in [Players -> Nat] /\ last.nPoints \in Nat /\ last.nPoints > 0 /\ last.nMatch \in Nat /\ last.i \in Nat
    <3>1. last \in Infos /\ last.nPoints > 0
      BY DEF Succeeds
    <3>2. last.nMatch \in Lengths \cup {0}
      BY <3>1 DEF Infos
    <3>3. last.anScore \in [Players -> Nat] /\ last.nPoints \in Nat /\ last.i \in Nat
      BY <3>1 DEF Infos
    <3>4. last.nMatch \in Nat
      <4>1. \A k \in Lengths \cup {0} : k \in Nat
        BY LengthsAssumption
      <4> QED BY <3>2, <4>1
    <3> QED BY <3>1, <3>3, <3>4
  <2> QED BY <1>1, <2>1, <2>2, <2>3
<1>3. /\ info.anScore[w] = c /\ info.anScore[o] = b
      /\ [last.anScore EXCEPT ![w] = @ + last.nPoints][w] = c /\ [last.anScore EXCEPT ![w] = @ + last.nPoints][o] = b
  <2>1. last.anScore \in [Players -> Nat] /\ info.anScore = [last.anScore EXCEPT ![w] = @ + last.nPoints]
    BY <1>1 DEF Succeeds, Infos, NextGame
  <2> QED BY <1>1, <1>2, <2>1
<1>4. n # 0 => c < n /\ b < n
  BY <1>2, <1>3 DEF Succeeds
<1>5. InMatch(info)
  <2>1. n # 0 => last.i <= last.anScore[0] + last.anScore[1]
    BY <1>1 DEF Succeeds, InMatch
  <2>2. last.anScore[0] + last.anScore[1] = a + b /\ info.anScore[0] + info.anScore[1] = c + b
    <3>1. (w = 0 /\ o = 1) \/ (w = 1 /\ o = 0)
      BY <1>1, <1>2 DEF Players, Opponent
    <3> QED BY <1>1, <1>2, <1>3, <3>1
  <2>3. n # 0 => info.i <= info.anScore[0] + info.anScore[1]
    BY <1>2, <2>1, <2>2
  <2> QED BY <1>2, <2>3 DEF Succeeds, InMatch
<1>6. PICK after, now : after = OneAway(last) /\ now = OneAway(info)
  OBVIOUS
<1>7. /\ after <=> (a = n - 1 \/ b = n - 1) /\ (a < n - 1 \/ b < n - 1)
      /\ now <=> (c = n - 1 \/ b = n - 1) /\ (c < n - 1 \/ b < n - 1)
  BY <1>1, <1>2, <1>3, <1>6 DEF OneAway
<1>8. /\ StartState(last).fPostCrawford <=> ~last.fCrawfordGame /\ (a = n - 1 \/ b = n - 1)
      /\ StartState(info).fPostCrawford <=> ~info.fCrawfordGame /\ (c = n - 1 \/ b = n - 1)
  BY <1>1, <1>2, <1>3 DEF StartState
<1>9. CrawfordNext(last) <=> ~last.fCrawfordGame /\ ~StartState(last).fPostCrawford /\ c = n - 1 /\ b < n - 1
  BY <1>1, <1>3 DEF CrawfordNext
<1>10. /\ last.fCrawfordGame <=> after /\ ~before
       /\ n # 1 => ((after \/ before) <=> (last.fCrawfordGame \/ StartState(last).fPostCrawford))
       /\ info.fCrawfordGame <=> CrawfordNext(last)
  BY <1>1, <1>6 DEF Succeeds
<1>11. /\ info.fCrawfordGame <=> now /\ ~(after \/ before)
       /\ n # 1 => ((now \/ after \/ before) <=> (info.fCrawfordGame \/ StartState(info).fPostCrawford))
  <2>1. PICK x, y, z, v : /\ x = last.fCrawfordGame /\ y = StartState(last).fPostCrawford
                          /\ z = info.fCrawfordGame /\ v = StartState(info).fPostCrawford
    OBVIOUS
  <2>2. /\ y <=> ~x /\ (a = n - 1 \/ b = n - 1)
        /\ v <=> ~z /\ (c = n - 1 \/ b = n - 1)
        /\ z <=> ~x /\ ~y /\ c = n - 1 /\ b < n - 1
        /\ x <=> after /\ ~before
        /\ n # 1 => ((after \/ before) <=> (x \/ y))
    BY <1>8, <1>9, <1>10, <2>1
  <2>3. n # 1
    BY <1>2, <1>4
  <2> QED BY <1>2, <1>4, <1>7, <2>1, <2>2, <2>3
<1> QED BY <1>2, <1>5, <1>6, <1>11

\* A game that has ended is followed by another one.
Follow(games, last, info) ==
    /\ Chronicle(games) /\ games # <<>> /\ Finished(Last(games)) /\ last = Last(games).info
    /\ info \in Infos /\ GoodInfo(info) /\ NextGame(info, last)
    /\ info.nMatch # 0 => \A p \in Players : info.anScore[p] < info.nMatch
    /\ info.fCrawfordGame <=> CrawfordNext(last)

\* The last game of a match.
LEMMA LastGame ==
  ASSUME NEW games, Chronicle(games), games # <<>>, NEW n, n = Len(games)
  PROVE  /\ n \in Nat \ {0} /\ n \in DOMAIN games /\ Last(games) = games[n] /\ Good(games[n]) /\ games[n].info \in Infos
         /\ Final(games[n]) \in States /\ SameMatch(Final(games[n]), games[n].info)
         /\ Finished(games[n]) => IsOver(Final(games[n]), games[n].info)
<1>1. games \in Seq(MatchGames) /\ n \in Nat \ {0} /\ n \in DOMAIN games /\ Last(games) = games[n]
  BY DEF Chronicle, Last
<1>2. Good(games[n])
  BY <1>1, ChronicleGames
<1>3. Len(games[n].moves) \in 0..Len(games[n].moves)
  BY <1>2 DEF Good, MatchGames
<1>4. /\ games[n].info \in Infos /\ Final(games[n]) \in States /\ SameMatch(Final(games[n]), games[n].info)
      /\ Final(games[n]).gs # "GAME_PLAYING" => IsOver(Final(games[n]), games[n].info)
  BY <1>2, <1>3, GameStates DEF Final
<1> QED BY <1>1, <1>2, <1>4 DEF Finished

\* So the game with the next number and score fits.
LEMMA NextFits ==
  ASSUME NEW games, NEW last, NEW info, Follow(games, last, info)
  PROVE  Fits(games, info)
<1> DEFINE n == Len(games)
           before == OneAwayBefore(games, n)
<1>1. /\ n \in Nat \ {0} /\ n \in DOMAIN games /\ Last(games) = games[n] /\ last = games[n].info
      /\ last \in Infos /\ Chronicle(games) /\ games # <<>>
      /\ IsOver(Final(games[n]), last)
  BY LastGame DEF Follow
<1>2. InMatch(last) /\ Crawford(games, n)
  BY <1>1, ChronicleGames
<1> HIDE DEF before
<1>3. PICK b \in BOOLEAN : b <=> before
  OBVIOUS
<1>4. Succeeds(info, last, b)
  <2>1. /\ last.fCrawfordGame <=> OneAway(last) /\ ~b
        /\ last.nMatch # 1 => ((OneAway(last) \/ b) <=> (last.fCrawfordGame \/ StartState(last).fPostCrawford))
    BY <1>1, <1>2, <1>3 DEF Crawford, before
  <2>2. last.nPoints > 0
    BY <1>1 DEF IsOver
  <2> QED BY <1>1, <1>2, <2>1, <2>2 DEF Succeeds, Follow
<1>5. OneAwayBefore(games, n + 1) <=> OneAway(last) \/ before
  BY <1>1 DEF OneAwayBefore, before
<1>6. /\ InMatch(info)
      /\ info.fCrawfordGame <=> OneAway(info) /\ ~(OneAway(last) \/ b)
      /\ info.nMatch # 1 => ((OneAway(info) \/ OneAway(last) \/ b)
                               <=> (info.fCrawfordGame \/ StartState(info).fPostCrawford))
  BY <1>4, CrawfordFollows
<1> QED BY <1>1, <1>3, <1>5, <1>6 DEF Fits, Follow

\* What a new game asks of the match it is part of, and of the live state.
Suits(s, crawford) ==
    LET last == Last(s.lMatch)
        t == Final(last)
    IN /\ Chronicle(s.lMatch) /\ crawford \in -1..3 /\ s.ms.nMatchTo \in Lengths \cup {0}
       /\ s.ms.anScore \in [Players -> Nat] /\ s.ms.cGames \in Nat
       /\ s.lMatch = <<>> => s.ms.cGames = 0 /\ (\A p \in Players : s.ms.anScore[p] = 0) /\ crawford = -1
       /\ s.lMatch # <<>> => /\ Finished(last)
                             /\ s.ms.nMatchTo = t.nMatchTo /\ s.ms.cGames = t.cGames /\ s.ms.anScore = t.anScore
                             /\ s.ms.nMatchTo # 0 => \A p \in Players : s.ms.anScore[p] < s.ms.nMatchTo
                             /\ crawford \in 0..3 /\ (crawford % 2 = 1 <=> CrawfordNext(last.info))

\* The first game is never the Crawford game.
LEMMA FirstIsNotCrawford ==
  ASSUME NEW m, m.nMatchTo \in Nat, \A p \in Players : m.anScore[p] = 0
  PROVE  ~IsCrawford(m, -1)
<1>1. m.anScore[0] = 0 /\ m.anScore[1] = 0 /\ {0, 0} = {0}
  BY DEF Players
<1>2. Max({0}) = 0 /\ Min({0}) = 0
  BY DEF Max, Min
<1>3. CrawfordByScore(m) <=> m.nMatchTo # 0 /\ CrawfordIsNext(m, 0, 0)
  BY <1>1, <1>2 DEF CrawfordByScore
<1>4. ~(0 = m.nMatchTo - 1 /\ 0 < m.nMatchTo - 1)
  OBVIOUS
<1> QED BY <1>3, <1>4 DEF CrawfordIsNext, IsCrawford

\* What NewGame makes of the state and fCrawfordState fits.
LEMMA SuitsFits ==
  ASSUME NEW s, NEW crawford, Suits(s, crawford), NEW info, info = GameInfo(s.ms, crawford),
         NEW ties \in Nat, 2 ^ ties \in CubeValues, NEW first, first = [info EXCEPT !.nAutoDoubles = ties]
  PROVE  info \in Infos /\ Fits(s.lMatch, first)
<1> DEFINE m == s.ms
           games == s.lMatch
           n == Len(games)
           last == games[n].info
           t == Final(games[n])
<1>1. /\ Chronicle(games) /\ crawford \in -1..3 /\ m.nMatchTo \in Lengths \cup {0}
      /\ m.anScore \in [Players -> Nat] /\ m.cGames \in Nat /\ m.nMatchTo \in Nat
  <2>1. \A k \in Lengths \cup {0} : k \in Nat
    BY LengthsAssumption
  <2> QED BY <2>1 DEF Suits
<1>2. PICK c \in BOOLEAN : c <=> IsCrawford(m, crawford)
  OBVIOUS
<1>3. IsCrawford(m, crawford) \in BOOLEAN
  BY DEF IsCrawford, CrawfordByScore
<1>4. info = [i |-> m.cGames, nMatch |-> m.nMatchTo, anScore |-> m.anScore, fCrawfordGame |-> c,
              fWinner |-> Nobody, nPoints |-> 0, nAutoDoubles |-> 0]
  BY <1>2, <1>3 DEF GameInfo
<1>5. info \in Infos
  BY <1>1, <1>4 DEF Infos, Nobodies
<1>6. /\ first \in Infos /\ first.i = m.cGames /\ first.nMatch = m.nMatchTo /\ first.anScore = m.anScore
      /\ first.fCrawfordGame = c /\ first.nAutoDoubles = ties
  BY <1>1, <1>4, <1>5 DEF Infos
<1>7. GoodInfo(first)
  BY <1>6 DEF GoodInfo
<1>8. CASE games = <<>>
  <2>1. m.cGames = 0 /\ (\A p \in Players : m.anScore[p] = 0) /\ crawford = -1
    BY <1>8 DEF Suits
  <2>2. ~IsCrawford(m, crawford)
    BY <1>1, <2>1, FirstIsNotCrawford
  <2>3. FirstGame(first) /\ ~first.fCrawfordGame
    BY <1>2, <1>6, <2>1, <2>2 DEF FirstGame
  <2> QED BY <1>5, <1>6, <1>7, <1>8, <2>3, FirstFits
<1>9. CASE games # <<>>
  <2>1. /\ Last(games) = games[n] /\ last \in Infos /\ SameMatch(t, last)
        /\ Finished(games[n]) => IsOver(t, last)
    BY <1>1, <1>9, LastGame
  <2>2. /\ Finished(Last(games)) /\ m.nMatchTo = t.nMatchTo /\ m.cGames = t.cGames /\ m.anScore = t.anScore
        /\ m.nMatchTo # 0 => \A p \in Players : m.anScore[p] < m.nMatchTo
        /\ crawford \in 0..3 /\ (crawford % 2 = 1 <=> CrawfordNext(Last(games).info))
    BY <1>9, <2>1 DEF Suits
  <2>3. first.fCrawfordGame <=> CrawfordNext(last)
    <3>1. crawford # -1
      BY <2>2
    <3> QED BY <1>2, <1>6, <2>1, <2>2, <3>1 DEF IsCrawford
  <2>4. NextGame(first, last)
    <3>1. t.nMatchTo = last.nMatch
      BY <2>1 DEF SameMatch, StartState
    <3>2. /\ t.cGames = last.i + 1 /\ last.fWinner \in Players
          /\ t.anScore = [last.anScore EXCEPT ![last.fWinner] = @ + last.nPoints]
      BY <2>1, <2>2 DEF IsOver
    <3> QED BY <1>6, <2>2, <3>1, <3>2 DEF NextGame
  <2>5. first.nMatch # 0 => \A p \in Players : first.anScore[p] < first.nMatch
    BY <1>6, <2>2
  <2>6. PICK final : final = last
    OBVIOUS
  <2>7. Follow(games, final, first)
    BY <1>1, <1>6, <1>7, <1>9, <2>1, <2>2, <2>3, <2>4, <2>5, <2>6 DEF Follow
  <2> QED BY <1>5, <2>7, NextFits
<1> QED BY <1>5, <1>8, <1>9

\* NewGame, or the first game again when the dice cannot be had.
LEMMA NewGameKeeps ==
  ASSUME fDisplay = TRUE, NEW s, NEW crawford, Suits(s, crawford), NewGame(s, crawford),
         fCrawfordState' = crawford, NotDone
  PROVE  Invariant'
<1>1. crawford \in -1..3 /\ Chronicle(s.lMatch)
  BY DEF Suits
<1>2. PICK c \in -1..3 : c = fCrawfordState' /\ c = crawford /\ fNextTurn' = FALSE
  BY <1>1 DEF NotDone
<1>3. ASSUME NEW ties \in 0..cAutoDoubles, NEW p \in Players, NEW d \in Dice,
             ties > 0 => s.ms.nMatchTo = 0 /\ 2 ^ ties <= MAX_CUBE,
             Become(Opening(s, GameInfo(s.ms, crawford), ties, p, d))
      PROVE  Invariant'
  <2>1. ties \in Nat
    BY CubeAssumption
  <2>2. 2 ^ ties \in CubeValues
    <3>1. CASE ties = 0
      <4>1. 2 ^ 0 = 1
        OBVIOUS
      <4> QED BY <3>1, <4>1, Cubes
    <3>2. CASE ties # 0
      BY <1>3, <2>1, <3>2, SmallPowers
    <3> QED BY <3>1, <3>2
  <2>3. PICK info, first, u : /\ info = GameInfo(s.ms, crawford) /\ first = [info EXCEPT !.nAutoDoubles = ties]
                              /\ u = Opening(s, info, ties, p, d)
    OBVIOUS
  <2>4. info \in Infos /\ Fits(s.lMatch, first)
    BY <2>1, <2>2, <2>3, SuitsFits
  <2>5. Opens(s, info, first, ties, p, d, u)
    BY <2>3, <2>4 DEF Opens
  <2>6. Consistent(u, c, FALSE)
    BY <2>4, <2>5, OpeningFits
  <2>7. Become(u) /\ Consistent(u, fCrawfordState', fNextTurn')
    BY <1>2, <1>3, <2>3, <2>6
  <2> QED BY <2>7, BecomeConsistent
<1>4. ASSUME s.lMatch # <<>>,
             Become(GoTo([lMatch |-> s.lMatch, plGame |-> 1, plLastMove |-> 0, ms |-> s.ms], 0))
      PROVE  Invariant'
  <2>1. PICK v : v = [lMatch |-> s.lMatch, plGame |-> 1, plLastMove |-> 0, ms |-> s.ms]
    OBVIOUS
  <2>2. IsPlace(v) /\ v.lMatch = s.lMatch /\ v.plGame = 1
    BY <2>1 DEF IsPlace
  <2>3. PICK u : u = GoTo(v, 0) /\ Become(u)
    BY <1>4, <2>1
  <2>4. 1 \in DOMAIN v.lMatch
    <3>1. Len(s.lMatch) \in Nat \ {0} /\ s.lMatch \in Seq(MatchGames)
      BY <1>1, <1>4, LastGame DEF Chronicle
    <3> QED BY <2>2, <3>1
  <2>5. Sound(u) /\ u.lMatch = s.lMatch /\ u.plLastMove = 0
    <3>1. Good(v.lMatch[1])
      BY <1>1, <2>2, <2>4, ChronicleGames
    <3>2. 0 \in 0..Len(v.lMatch[v.plGame].moves)
      BY <2>2, <3>1 DEF Good, MatchGames
    <3> QED BY <1>1, <2>2, <2>3, <2>4, <3>2, GoToPlace
  <2>6. Told(u, c, FALSE) /\ Ending(u, FALSE)
    BY <1>2, <1>4, <2>5 DEF Suits, Told, Ending, Due
  <2>7. Consistent(u, c, FALSE)
    BY <2>5, <2>6 DEF Consistent
  <2>8. Consistent(u, fCrawfordState', fNextTurn')
    BY <1>2, <2>7
  <2> QED BY <2>3, <2>8, BecomeConsistent
<1> QED BY <1>3, <1>4 DEF NewGame

-----------------------------------------------------------------------------
(* The commands that start a game, and NextTurn.                           *)

\* CommandNewMatch and CommandNewSession.
LEMMA NewMatchKeeps ==
  ASSUME fDisplay = TRUE, NEW n \in Lengths, CommandNewMatch(n)
  PROVE  Invariant'
<1> DEFINE m == NoMatch(n)
           s == [lMatch |-> <<>>, plGame |-> 0, plLastMove |-> 0, ms |-> m]
<1>1. NewGame(s, -1) /\ fCrawfordState' = -1 /\ NotDone
  BY DEF CommandNewMatch
<1>2. m.nMatchTo = n /\ m.cGames = 0 /\ m.anScore = [p \in Players |-> 0]
  BY DEF NoMatch, StartState
<1> HIDE DEF m
<1>3. s.lMatch = <<>> /\ s.ms = m
  OBVIOUS
<1>4. m.anScore \in [Players -> Nat] /\ \A p \in Players : m.anScore[p] = 0
  BY <1>2
<1>5. Chronicle(<<>>)
  BY DEF Chronicle
<1> HIDE DEF s
<1>6. Suits(s, -1)
  BY <1>2, <1>3, <1>4, <1>5 DEF Suits
<1> QED BY <1>1, <1>6, NewGameKeeps

\* What a live state has in common with that of the records.
LEMMA AgreesScore ==
  ASSUME NEW t \in States, NEW m, Agrees(m, t)
  PROVE  /\ m.gs = t.gs /\ m.nMatchTo = t.nMatchTo /\ m.cGames = t.cGames /\ m.anScore = t.anScore
         /\ m.anBoard = t.anBoard
         /\ t.nMatchTo \in Lengths \cup {0} /\ t.anScore \in [Players -> Nat] /\ t.cGames \in Nat
<1>1. m = [t EXCEPT !.fResigned = m.fResigned, !.fResignationDeclined = m.fResignationDeclined,
                    !.fTurn = m.fTurn, !.fCrawford = m.fCrawford, !.fPostCrawford = m.fPostCrawford]
  BY DEF Agrees
<1>2. /\ m.nMatchTo = t.nMatchTo /\ m.cGames = t.cGames /\ m.anScore = t.anScore /\ m.anBoard = t.anBoard
  BY <1>1 DEF States
<1>3. t.nMatchTo \in Lengths \cup {0} /\ t.anScore \in [Players -> Nat] /\ t.cGames \in Nat
  BY DEF States
<1> QED BY <1>2, <1>3 DEF Agrees

\* The end of the last game.
AtEnd(s, t) ==
    /\ Sound(s) /\ s.lMatch # <<>> /\ s.plGame = Len(s.lMatch) /\ s.plLastMove = Len(s.lMatch[s.plGame].moves)
    /\ t = Final(Last(s.lMatch)) /\ t = Trace(s.lMatch[s.plGame])[s.plLastMove]
    /\ s.plLastMove > 0 /\ Agrees(s.ms, t) /\ t \in States /\ InfoOf(s) = Last(s.lMatch).info
    /\ s.ms.gs # "GAME_PLAYING" => Finished(Last(s.lMatch)) /\ IsOver(t, InfoOf(s))
    /\ InMatch(InfoOf(s)) /\ Crawford(s.lMatch, s.plGame)

\* At the last record of a match there is such a state.
LEMMA EndOfMatch ==
  ASSUME NEW s, Sound(s), s.plGame = Len(s.lMatch), s.plLastMove = Len(s.lMatch[s.plGame].moves)
  PROVE  \E t : AtEnd(s, t)
<1> DEFINE games == s.lMatch
           n == s.plGame
           game == games[n]
           k == s.plLastMove
<1>1. Chronicle(games) /\ n \in DOMAIN games /\ games # <<>> /\ n = Len(games)
  BY DEF Sound, Live
<1>2. /\ Last(games) = game /\ Good(game) /\ Final(game) \in States
      /\ Finished(game) => IsOver(Final(game), game.info)
  BY <1>1, LastGame
<1>3. InMatch(game.info) /\ Crawford(games, n)
  BY <1>1, ChronicleGames
<1>4. k = Len(game.moves) /\ Len(game.moves) \in Nat \ {0} /\ k > 0 /\ k # 0
  BY <1>2 DEF Good, MatchGames
<1>5. PICK t : t = Final(game)
  OBVIOUS
<1>6. t = Trace(game)[k] /\ Agrees(s.ms, t)
  BY <1>4, <1>5 DEF Sound, Live, Final
<1>7. s.ms.gs = t.gs
  BY <1>6 DEF Agrees
<1>8. AtEnd(s, t)
  BY <1>1, <1>2, <1>3, <1>4, <1>5, <1>6, <1>7 DEF AtEnd, InfoOf, Finished
<1> QED BY <1>8

\* CommandNewGame, at the end of the last game.
LEMMA NewGameCommandKeeps ==
  ASSUME fDisplay = TRUE, Habits \subseteq {"restart"}, Invariant, CommandNewGame
  PROVE  Invariant'
<1> DEFINE m == Here.ms
           games == Here.lMatch
<1>1. /\ ms.gs # "GAME_PLAYING" /\ move_is_last_in_match(Here) /\ plGame = Len(lMatch)
      /\ AtPrompt /\ (ms.nMatchTo # 0 => \A p \in Players : ms.anScore[p] < ms.nMatchTo)
      /\ NewGame(Here, fCrawfordState) /\ UNCHANGED fCrawfordState /\ NotDone
  BY DEF CommandNewGame
<1>2. Here.lMatch = lMatch /\ Here.plGame = plGame /\ Here.plLastMove = plLastMove /\ Here.ms = ms
  BY DEF Here
<1>3. Consistent(Here, fCrawfordState, fNextTurn) /\ fNextTurn = FALSE
  BY <1>1 DEF Invariant, AtPrompt, Consistent
<1>4. Suits(Here, fCrawfordState)
  <2>1. CASE Before(Here, fCrawfordState, fNextTurn)
    <3>1. /\ games = <<>> /\ m \in States /\ m.nMatchTo = 0 /\ m.cGames = 0
          /\ (\A p \in Players : m.anScore[p] = 0) /\ fCrawfordState = -1
      BY <2>1 DEF Before
    <3>2. m.anScore \in [Players -> Nat]
      BY <3>1 DEF States
    <3>3. Chronicle(<<>>)
      BY DEF Chronicle
    <3> QED BY <3>1, <3>2, <3>3 DEF Suits
  <2>2. CASE Sound(Here) /\ Told(Here, fCrawfordState, fNextTurn)
    <3>1. plGame # 0
      BY <1>2, <2>2 DEF Sound, Live, Chronicle
    <3>2. Here.plGame = Len(games) /\ Here.plLastMove = Len(games[Here.plGame].moves)
      BY <1>1, <1>2, <3>1 DEF move_is_last_in_match
    <3>3. PICK t : AtEnd(Here, t)
      BY <2>2, <3>2, EndOfMatch
    <3>4. /\ Chronicle(games) /\ games # <<>> /\ t = Final(Last(games)) /\ Agrees(m, t) /\ t \in States
          /\ Finished(Last(games))
      BY <1>1, <1>2, <3>3 DEF AtEnd, Sound
    <3>5. /\ m.nMatchTo = t.nMatchTo /\ m.cGames = t.cGames /\ m.anScore = t.anScore
          /\ t.nMatchTo \in Lengths \cup {0} /\ t.anScore \in [Players -> Nat] /\ t.cGames \in Nat
      BY <3>4, AgreesScore
    <3>6. fCrawfordState \in 0..3 /\ (fCrawfordState % 2 = 1 <=> CrawfordNext(Last(games).info))
      BY <1>3, <2>2, <3>4 DEF Told, Due
    <3>7. fCrawfordState \in -1..3
      BY <1>3 DEF Consistent
    <3> QED BY <1>1, <1>2, <3>4, <3>5, <3>6, <3>7 DEF Suits
  <2> QED BY <1>3, <2>1, <2>2 DEF Consistent
<1> QED BY <1>1, <1>4, NewGameKeeps

\* What NextTurn makes of the live state at the end of a game.
CrawfordAfter(m, winner) ==
    IF m.nMatchTo = 0 THEN m
    ELSE [m EXCEPT !.fPostCrawford = PostCrawford(m, m.anScore[winner]),
                   !.fCrawford = CrawfordIsNext(m, m.anScore[winner], m.anScore[Opponent(winner)])]
StateOf(m) == (IF m.fCrawford THEN 1 ELSE 0) + (IF m.fPostCrawford THEN 2 ELSE 0)

\* What NextTurn makes of the state and of fCrawfordState.
LEMMA AfterGame ==
  ASSUME NEW s, NEW t, AtEnd(s, t), SameMatch(s.ms, InfoOf(s)), s.ms.gs # "GAME_PLAYING",
         NEW m, m = s.ms, NEW w, w = InfoOf(s).fWinner, NEW after, after = CrawfordAfter(m, w)
  PROVE  /\ Agrees(after, t) /\ after.gs = m.gs
         /\ StateOf(after) \in 0..3 /\ (StateOf(after) % 2 = 1 <=> CrawfordNext(InfoOf(s)))
<1> DEFINE info == InfoOf(s)
           o == Opponent(w)
           high == m.anScore[w]
           low == m.anScore[o]
<1>1. /\ Agrees(m, t) /\ t \in States /\ IsOver(t, info) /\ InMatch(info) /\ m.gs # "GAME_PLAYING"
      /\ info.fCrawfordGame <=> OneAway(info) /\ ~OneAwayBefore(s.lMatch, s.plGame)
  BY DEF AtEnd, Crawford, InfoOf
<1>2. /\ info \in Infos
  <2>1. s.plGame \in DOMAIN s.lMatch /\ Chronicle(s.lMatch)
    BY DEF AtEnd, Sound, Live
  <2>2. Good(s.lMatch[s.plGame])
    BY <2>1, ChronicleGames
  <2> QED BY <2>2 DEF Good, MatchGames, InfoOf
<1>3. /\ m.nMatchTo = info.nMatch /\ m.fCrawford = info.fCrawfordGame
      /\ m.fPostCrawford = StartState(info).fPostCrawford /\ info.fCrawfordGame \in BOOLEAN
      /\ m.fPostCrawford \in BOOLEAN /\ info.nMatch \in Nat
  <2>1. StartState(info).nMatchTo = info.nMatch /\ StartState(info).fCrawford = info.fCrawfordGame
    BY DEF StartState
  <2>2. \A k \in Lengths \cup {0} : k \in Nat
    BY LengthsAssumption
  <2>3. info.nMatch \in Lengths \cup {0} /\ info.fCrawfordGame \in BOOLEAN
    BY <1>2 DEF Infos
  <2>4. info.nMatch \in Nat
    BY <2>2, <2>3
  <2>5. m.fPostCrawford \in BOOLEAN
    BY <1>1 DEF Agrees
  <2> QED BY <2>1, <2>3, <2>4, <2>5 DEF SameMatch
<1>4. w \in Players /\ o \in Players /\ high \in Nat /\ low \in Nat
  <2>1. w \in Players /\ o \in Players
    BY <1>1 DEF IsOver, Opponent, Players
  <2>2. m.anScore \in [Players -> Nat]
    BY <1>1, AgreesScore
  <2> QED BY <2>1, <2>2
<1>5. CrawfordNext(info) <=> ~info.fCrawfordGame /\ ~m.fPostCrawford /\ high = info.nMatch - 1 /\ low < info.nMatch - 1
  <2>1. m.anScore = [info.anScore EXCEPT ![w] = @ + info.nPoints]
    <3>1. m.anScore = t.anScore
      BY <1>1, AgreesScore
    <3> QED BY <1>1, <3>1 DEF IsOver
  <2> HIDE DEF info
  <2> QED BY <1>3, <2>1 DEF CrawfordNext, info
<1> DEFINE post == PostCrawford(m, high)
           isNext == CrawfordIsNext(m, high, low)
<1>6. post \in BOOLEAN /\ isNext \in BOOLEAN
  BY <1>3 DEF PostCrawford, CrawfordIsNext
<1>7. m.nMatchTo # 0 => (isNext <=> CrawfordNext(info))
  BY <1>3, <1>4, <1>5 DEF PostCrawford, CrawfordIsNext
<1>8. m.nMatchTo = 0 => ~info.fCrawfordGame /\ ~CrawfordNext(info)
  <2>1. m.nMatchTo = 0 => ~OneAway(info)
    <3>1. \A p \in Players : info.anScore[p] \in Nat
      BY <1>2 DEF Infos
    <3> QED BY <1>3, <3>1 DEF OneAway
  <2>2. m.nMatchTo = 0 => ~CrawfordNext(info)
    BY <1>3, <1>4, <1>5
  <2> QED BY <1>1, <2>1, <2>2
<1>9. PICK c \in BOOLEAN, d \in BOOLEAN :
         /\ c = (IF m.nMatchTo = 0 THEN m.fCrawford ELSE isNext)
         /\ d = (IF m.nMatchTo = 0 THEN m.fPostCrawford ELSE post)
  BY <1>3, <1>6
<1>10. after = [m EXCEPT !.fPostCrawford = d, !.fCrawford = c]
  <2>1. CASE m.nMatchTo # 0
    <3> HIDE DEF post, isNext
    <3>1. after = [m EXCEPT !.fPostCrawford = post, !.fCrawford = isNext]
      BY <2>1 DEF CrawfordAfter, post, isNext
    <3> QED BY <1>9, <2>1, <3>1
  <2>2. CASE m.nMatchTo = 0
    <3>1. after = m /\ d = m.fPostCrawford /\ c = m.fCrawford
      BY <1>9, <2>2 DEF CrawfordAfter
    <3>2. m = [t EXCEPT !.fResigned = m.fResigned, !.fResignationDeclined = m.fResignationDeclined,
                        !.fTurn = m.fTurn, !.fCrawford = m.fCrawford, !.fPostCrawford = m.fPostCrawford]
      BY <1>1 DEF Agrees
    <3>3. m = [m EXCEPT !.fPostCrawford = m.fPostCrawford, !.fCrawford = m.fCrawford]
      BY <1>1, <3>2 DEF States
    <3> QED BY <3>1, <3>3
  <2> QED BY <2>1, <2>2
<1> HIDE DEF post, isNext
<1>11. after = [t EXCEPT !.fResigned = m.fResigned, !.fResignationDeclined = m.fResignationDeclined,
                         !.fTurn = m.fTurn, !.fCrawford = c, !.fPostCrawford = d]
  <2>1. m = [t EXCEPT !.fResigned = m.fResigned, !.fResignationDeclined = m.fResignationDeclined,
                      !.fTurn = m.fTurn, !.fCrawford = m.fCrawford, !.fPostCrawford = m.fPostCrawford]
    BY <1>1 DEF Agrees
  <2>2. PICK a, b, e, x, y : /\ a = m.fResigned /\ b = m.fResignationDeclined /\ e = m.fTurn
                             /\ x = m.fCrawford /\ y = m.fPostCrawford
    OBVIOUS
  <2>3. m = [t EXCEPT !.fResigned = a, !.fResignationDeclined = b, !.fTurn = e, !.fCrawford = x, !.fPostCrawford = y]
    BY <2>1, <2>2
  <2>4. after = [t EXCEPT !.fResigned = a, !.fResignationDeclined = b, !.fTurn = e,
                          !.fCrawford = c, !.fPostCrawford = d]
    BY <1>1, <1>10, <2>3, ZenonT(60) DEF States
  <2> QED BY <2>2, <2>4
<1>12. /\ after.fCrawford = c /\ after.fPostCrawford = d /\ after.fResigned = m.fResigned
       /\ after.fResignationDeclined = m.fResignationDeclined /\ after.fTurn = m.fTurn /\ after.gs = m.gs
       /\ m.gs = t.gs
  <2>1. m.gs = t.gs
    BY <1>1 DEF Agrees
  <2> QED BY <1>1, <1>11, <2>1 DEF States
<1>13. Agrees(after, t)
  <2>1. /\ {m.fResigned, m.fResignationDeclined} \subseteq Resignations \cup {0} /\ m.fTurn \in Players
        /\ m.fResigned = t.fResigned /\ m.fResignationDeclined = 0
        /\ m.gs # "GAME_RESIGNED" => m.fTurn = t.fTurn
    BY <1>1 DEF Agrees
  <2>2. after = [t EXCEPT !.fResigned = after.fResigned, !.fResignationDeclined = after.fResignationDeclined,
                          !.fTurn = after.fTurn, !.fCrawford = after.fCrawford, !.fPostCrawford = after.fPostCrawford]
    BY <1>11, <1>12
  <2> QED BY <1>1, <1>12, <2>1, <2>2 DEF Agrees
<1>14. c <=> CrawfordNext(info)
  BY <1>3, <1>7, <1>8, <1>9
<1>15. StateOf(after) = (IF c THEN 1 ELSE 0) + (IF d THEN 2 ELSE 0)
  BY <1>12 DEF StateOf
<1>16. StateOf(after) \in 0..3 /\ (StateOf(after) % 2 = 1 <=> c)
  <2>1. 1 % 2 = 1 /\ 0 % 2 = 0 /\ 2 % 2 = 0 /\ 3 % 2 = 1
    OBVIOUS
  <2>2. StateOf(after) \in {0, 1, 2, 3} /\ (StateOf(after) \in {1, 3} <=> c)
    BY <1>15
  <2> QED BY <2>1, <2>2
<1> QED BY <1>12, <1>13, <1>14, <1>16

\* NextTurn, with the next game where fAutoGame is set.
LEMMA NextTurnKeeps ==
  ASSUME fDisplay = TRUE, Invariant, NextTurn
  PROVE  Invariant'
<1> DEFINE over == GameStatus(ms.anBoard) # 0 \/ ms.gs \in {"GAME_DROP", "GAME_RESIGNED"}
           winner == lMatch[plGame].info.fWinner
           high == ms.anScore[winner]
           after == CrawfordAfter(ms, winner)
           crawford == StateOf(after)
           complete == IF ms.nMatchTo # 0 THEN high >= ms.nMatchTo ELSE ms.cGames >= nSessionLen
           ended == [Here EXCEPT !.ms = after]
<1>1. /\ fNextTurn = TRUE /\ NotDone
      /\ ~over => UNCHANGED <<lMatch, plGame, plLastMove, ms, fCrawfordState>>
      /\ over => /\ fCrawfordState' = crawford
                 /\ Become(ended) \/ (~complete /\ NewGame(ended, crawford))
  BY DEF NextTurn, Invariant, Consistent, CrawfordAfter, StateOf
<1> HIDE DEF over, after, crawford, complete, ended
<1>2. Here.lMatch = lMatch /\ Here.plGame = plGame /\ Here.plLastMove = plLastMove /\ Here.ms = ms
  BY DEF Here
<1>3. /\ Sound(Here) /\ Told(Here, fCrawfordState, TRUE) /\ Ending(Here, TRUE) /\ plLastMove > 0
      /\ Consistent(Here, fCrawfordState, TRUE)
  BY <1>1, <1>2 DEF Invariant, Consistent, Before
<1>4. fNextTurn' = FALSE
  BY <1>1 DEF NotDone
<1>5. PICK t : /\ t = Trace(lMatch[plGame])[plLastMove] /\ Agrees(ms, t) /\ t \in States
               /\ InPlay(t, InfoOf(Here)) \/ IsOver(t, InfoOf(Here))
  <2>1. Chronicle(lMatch) /\ plGame \in DOMAIN lMatch /\ plLastMove \in 0..Len(lMatch[plGame].moves)
        /\ plLastMove # 0 /\ Agrees(ms, Trace(lMatch[plGame])[plLastMove])
    BY <1>2, <1>3 DEF Sound, Live
  <2>2. Good(lMatch[plGame]) /\ InfoOf(Here) = lMatch[plGame].info
    BY <1>2, <2>1, ChronicleGames DEF InfoOf
  <2>3. /\ Trace(lMatch[plGame])[plLastMove] \in States
        /\ \/ InPlay(Trace(lMatch[plGame])[plLastMove], lMatch[plGame].info)
           \/ IsOver(Trace(lMatch[plGame])[plLastMove], lMatch[plGame].info)
    BY <2>1, <2>2, GameStates
  <2> QED BY <2>1, <2>2, <2>3
<1>6. ms.gs = t.gs /\ ms.anBoard = t.anBoard
  BY <1>5, AgreesScore
<1>7. over <=> ms.gs # "GAME_PLAYING"
  <2>1. InPlay(t, InfoOf(Here)) => t.gs = "GAME_PLAYING" /\ GameStatus(t.anBoard) = 0
    BY DEF InPlay
  <2>2. IsOver(t, InfoOf(Here)) =>
          /\ t.gs \in {"GAME_OVER", "GAME_RESIGNED", "GAME_DROP"} /\ (t.gs = "GAME_OVER" => GameStatus(t.anBoard) # 0)
    BY DEF IsOver, OverKinds
  <2> QED BY <1>5, <1>6, <2>1, <2>2 DEF over
<1>8. CASE ~over
  <2>1. Become(Here) /\ fCrawfordState' = fCrawfordState
    BY <1>1, <1>2, <1>8 DEF Become
  <2>2. ~Due(Here, TRUE) /\ Here.lMatch # <<>>
    BY <1>2, <1>3, <1>7, <1>8 DEF Due, Sound, Live, Chronicle
  <2>3. PICK next, now : next = FALSE /\ now = TRUE
    OBVIOUS
  <2>4. next \in BOOLEAN /\ ~next /\ Consistent(Here, fCrawfordState, now) /\ ~Due(Here, now)
    BY <1>3, <2>2, <2>3
  <2>5. Consistent(Here, fCrawfordState, next)
    BY <1>3, <2>2, <2>4, SameGames
  <2>6. Consistent(Here, fCrawfordState', fNextTurn')
    BY <1>4, <2>1, <2>3, <2>5
  <2> QED BY <2>1, <2>6, BecomeConsistent
<1>9. CASE over
  <2>1. Here.plGame = Len(Here.lMatch) /\ Here.plLastMove = Len(Here.lMatch[Here.plGame].moves)
        /\ SameMatch(Here.ms, InfoOf(Here)) /\ Here.ms.gs # "GAME_PLAYING"
    BY <1>2, <1>3, <1>7, <1>9 DEF Ending, Due, InfoOf
  <2>2. PICK u : AtEnd(Here, u)
    BY <1>3, <2>1, EndOfMatch
  <2>3. after = CrawfordAfter(Here.ms, InfoOf(Here).fWinner)
    BY <1>2 DEF after, InfoOf
  <2>4. PICK m, w, next : m = Here.ms /\ w = InfoOf(Here).fWinner /\ next = after /\ next = CrawfordAfter(m, w)
    BY <2>3
  <2>5. /\ Agrees(next, u) /\ next.gs = m.gs
        /\ StateOf(next) \in 0..3 /\ (StateOf(next) % 2 = 1 <=> CrawfordNext(InfoOf(Here)))
    BY <2>1, <2>2, <2>4, AfterGame
  <2>6. crawford = StateOf(next)
    BY <2>4 DEF crawford
  <2>7. /\ ended.lMatch = lMatch /\ ended.plGame = plGame /\ ended.plLastMove = plLastMove /\ ended.ms = next
    BY <2>4 DEF ended, Here
  <2>8. /\ Sound(Here) /\ lMatch # <<>> /\ plGame = Len(lMatch)
        /\ u = Final(Last(lMatch)) /\ u = Trace(lMatch[plGame])[plLastMove]
        /\ plLastMove > 0 /\ u \in States /\ InfoOf(Here) = Last(lMatch).info
        /\ Finished(Last(lMatch)) /\ IsOver(u, InfoOf(Here)) /\ InMatch(InfoOf(Here)) /\ Agrees(ms, u)
    BY <1>2, <2>1, <2>2 DEF AtEnd
  <2>9. crawford \in 0..3 /\ crawford \in -1..3 /\ (crawford % 2 = 1 <=> CrawfordNext(Last(lMatch).info))
    BY <2>5, <2>6, <2>8
  <2>10. CASE Become(ended)
    <3>1. Sound(ended)
      BY <1>2, <2>5, <2>7, <2>8 DEF Sound, Live
    <3>2. Told(ended, crawford, FALSE) /\ Ending(ended, FALSE)
      BY <2>7, <2>9 DEF Told, Ending, Due
    <3>3. Consistent(ended, fCrawfordState', fNextTurn')
      BY <1>1, <1>4, <1>9, <2>9, <3>1, <3>2 DEF Consistent
    <3> QED BY <2>10, <3>3, BecomeConsistent
  <2>11. CASE ~complete /\ NewGame(ended, crawford)
    <3>1. /\ next.nMatchTo = u.nMatchTo /\ next.cGames = u.cGames /\ next.anScore = u.anScore
          /\ u.nMatchTo \in Lengths \cup {0} /\ u.anScore \in [Players -> Nat] /\ u.cGames \in Nat
          /\ ms.nMatchTo = u.nMatchTo /\ ms.anScore = u.anScore
      BY <2>5, <2>8, AgreesScore
    <3>2. next.nMatchTo # 0 => \A p \in Players : next.anScore[p] < next.nMatchTo
      <4> DEFINE info == InfoOf(Here)
      <4>1. /\ info.fWinner \in Players /\ winner = info.fWinner
            /\ u.anScore = [info.anScore EXCEPT ![info.fWinner] = @ + info.nPoints]
        BY <1>2, <2>8 DEF IsOver, InfoOf
      <4>2. u.nMatchTo = info.nMatch
        <5>1. ms.nMatchTo = info.nMatch
          BY <1>2, <2>1 DEF SameMatch, StartState
        <5> QED BY <3>1, <5>1
      <4>3. u.nMatchTo # 0 => \A p \in Players : info.anScore[p] < u.nMatchTo
        BY <2>8, <4>2 DEF InMatch
      <4>4. u.nMatchTo # 0 => ~(u.anScore[winner] >= u.nMatchTo)
        BY <2>11, <3>1 DEF complete
      <4>5. \A p \in Players : p # winner => u.anScore[p] = info.anScore[p]
        BY <3>1, <4>1
      <4>6. u.nMatchTo \in Nat /\ \A p \in Players : u.anScore[p] \in Nat
        <5>1. \A k \in Lengths \cup {0} : k \in Nat
          BY LengthsAssumption
        <5> QED BY <3>1, <5>1
      <4>7. u.nMatchTo # 0 => \A p \in Players : u.anScore[p] < u.nMatchTo
        <5> HIDE DEF info, winner
        <5> QED BY <4>3, <4>4, <4>5, <4>6
      <4> QED BY <3>1, <4>7
    <3>3. Chronicle(lMatch)
      BY <1>2, <2>8 DEF Sound
    <3>4. PICK c : c = crawford
      OBVIOUS
    <3>5. Suits(ended, c)
      BY <2>7, <2>8, <2>9, <3>1, <3>2, <3>3, <3>4 DEF Suits
    <3> QED BY <1>1, <1>9, <2>11, <3>4, <3>5, NewGameKeeps
  <2> QED BY <1>1, <1>9, <2>10, <2>11
<1> QED BY <1>8, <1>9

-----------------------------------------------------------------------------
(* The invariant holds.                                                    *)

\* Before any match the invariant holds.
LEMMA InitialMatch == Init => Invariant
<1> SUFFICES ASSUME Init PROVE Invariant
  OBVIOUS
<1> DEFINE info == [i |-> 0, nMatch |-> 0, anScore |-> [p \in Players |-> 0], fCrawfordGame |-> FALSE,
                    nAutoDoubles |-> 0]
           start == StartState(info)
           board == [q \in Players |-> 0]
<1>1. start \in States
  <2>1. info.nAutoDoubles = 0 /\ 2 ^ 0 = 1
    OBVIOUS
  <2>2. GoodInfo(info)
    BY <2>1, Cubes DEF GoodInfo
  <2>3. /\ info.nMatch \in Lengths \cup {0} /\ info.anScore \in [Players -> Nat] /\ info.i \in Nat
        /\ info.fCrawfordGame \in BOOLEAN
    OBVIOUS
  <2> HIDE DEF info
  <2> QED BY <2>2, <2>3, StartIsState
<1>2. start.gs = "GAME_NONE" /\ start.nMatchTo = 0 /\ start.cGames = 0 /\ start.anScore = [p \in Players |-> 0]
  BY DEF StartState
<1>3. ms = [[start EXCEPT !.fPostCrawford = FALSE] EXCEPT !.anBoard = board]
  BY DEF Init, NoMatch
<1>4. board \in Board
  BY ChequersAssumption DEF Board
<1> HIDE DEF start, board
<1>5. PICK no \in BOOLEAN : no = FALSE
  OBVIOUS
<1>6. ms = [start EXCEPT !.fPostCrawford = no, !.anBoard = board]
  BY <1>1, <1>3, <1>5 DEF States
<1>7. ms \in States
  BY <1>1, <1>4, <1>6, ZenonT(60) DEF States
<1>8. ms.gs = "GAME_NONE" /\ ms.nMatchTo = 0 /\ ms.cGames = 0 /\ \A p \in Players : ms.anScore[p] = 0
  BY <1>1, <1>2, <1>6 DEF States
<1>9. /\ lMatch = <<>> /\ plGame = 0 /\ plLastMove = 0 /\ fCrawfordState = -1 /\ fNextTurn = FALSE
  BY DEF Init
<1>10. Before(Here, fCrawfordState, fNextTurn)
  BY <1>7, <1>8, <1>9 DEF Before, Here
<1>11. fNextTurn \in BOOLEAN /\ fCrawfordState \in -1..3
  <2>1. fNextTurn \in BOOLEAN
    BY <1>9
  <2>2. -1 \in -1..3
    OBVIOUS
  <2> QED BY <1>9, <2>1, <2>2
<1>12. Consistent(Here, fCrawfordState, fNextTurn)
  BY <1>10, <1>11 DEF Consistent
<1> QED BY <1>12 DEF Invariant

\* Each command keeps the invariant.
LEMMA StepKeeps ==
  ASSUME fDisplay = TRUE, Habits \subseteq {"restart"}, Invariant, [Next]_vars
  PROVE  Invariant'
<1>1. CASE \E n \in Lengths : CommandNewMatch(n)
  BY <1>1, NewMatchKeeps
<1>2. CASE CommandNewGame
  BY <1>2, NewGameCommandKeeps
<1>3. CASE Plays
  <2>1. CASE \E d \in Dice : CommandRoll(d)
    BY <2>1, RollKeeps
  <2>2. CASE \E n \in {0, 1} : CommandMove(n)
    BY <2>2, MoveKeeps
  <2>3. CASE CommandDouble
    BY <2>3, DoubleKeeps
  <2>4. CASE CommandRedouble
    BY <2>4, RedoubleKeeps
  <2>5. CASE CommandTake \/ CommandDrop
    BY <2>5, AnswerKeeps
  <2>6. CASE CommandAgree
    BY <2>6, AgreeKeeps
  <2>7. CASE (\E n \in Resignations : CommandResign(n)) \/ CommandDecline
    BY <2>7, OfferKeeps
  <2> QED BY <1>3, <2>1, <2>2, <2>3, <2>4, <2>5, <2>6, <2>7 DEF Plays
<1>4. CASE Settings
  BY <1>4, SettingKeeps
<1>5. CASE CommandPrevious
  BY <1>5, PreviousKeeps
<1>6. CASE CommandNext
  BY <1>6, NextKeeps
<1>7. CASE \E g \in DOMAIN lMatch : ToGame(g)
  BY <1>7, ToGameKeeps
<1>8. CASE NextTurn
  BY <1>8, NextTurnKeeps
<1>9. CASE UNCHANGED vars
  BY <1>9 DEF vars, Invariant, Here
<1> QED BY <1>1, <1>2, <1>3, <1>4, <1>5, <1>6, <1>7, <1>8, <1>9 DEF Next, Browsing

\* At each place in a match the games and the live state are those of records
\* that could be added one after the other.
THEOREM InvariantHolds ==
  ASSUME fDisplay = TRUE, Habits \subseteq {"restart"}
  PROVE  Spec => []Invariant
<1>1. Invariant /\ [Next]_vars => Invariant'
  BY StepKeeps
<1> QED BY <1>1, InitialMatch, PTL DEF Spec

-----------------------------------------------------------------------------
(* What it means for the properties.                                       *)

\* A live state that agrees with one of the records has its types.
LEMMA AgreesState ==
  ASSUME NEW t \in States, NEW m, Agrees(m, t)
  PROVE  m \in States
<1>1. PICK a, b, c, x, y : /\ a = m.fResigned /\ b = m.fResignationDeclined /\ c = m.fTurn
                           /\ x = m.fCrawford /\ y = m.fPostCrawford
  OBVIOUS
<1>2. /\ a \in Resignations \cup {0} /\ b \in Resignations \cup {0} /\ c \in Players /\ x \in BOOLEAN /\ y \in BOOLEAN
      /\ m = [t EXCEPT !.fResigned = a, !.fResignationDeclined = b, !.fTurn = c, !.fCrawford = x, !.fPostCrawford = y]
  BY <1>1 DEF Agrees
<1>3. c \in Nobodies
  BY <1>2 DEF Nobodies
<1> QED BY <1>2, <1>3, ZenonT(60) DEF States

\* The types of play.c's variables.
LEMMA Types == Invariant => TypeOK
<1> SUFFICES ASSUME Invariant PROVE TypeOK
  OBVIOUS
<1>1. fNextTurn \in BOOLEAN /\ fCrawfordState \in -1..3
  BY DEF Invariant, Consistent
<1>2. CASE plGame = 0
  <2>1. Before(Here, fCrawfordState, fNextTurn)
    BY <1>2 DEF Invariant, Consistent, Sound, Live, Here, Chronicle
  <2>2. lMatch = <<>> /\ plLastMove = 0 /\ ms \in States
    BY <2>1 DEF Before, Here
  <2> QED BY <1>1, <1>2, <2>2 DEF TypeOK
<1>3. CASE plGame # 0
  <2>1. /\ Sound(Here) /\ Chronicle(lMatch) /\ plGame \in DOMAIN lMatch
        /\ Good(lMatch[plGame]) /\ plLastMove \in 0..Len(lMatch[plGame].moves)
    BY <1>3, CurrentGame
  <2>2. \A g \in DOMAIN lMatch : /\ lMatch[g].info \in Infos
                                 /\ \A j \in DOMAIN lMatch[g].moves : lMatch[g].moves[j] \in Records
    <3>1. TAKE g \in DOMAIN lMatch
    <3>2. lMatch[g].info \in Infos /\ lMatch[g].moves \in Seq(Records)
      BY <2>1, ChronicleGames DEF Good, MatchGames
    <3> QED BY <3>2
  <2>3. plGame \in 0..Len(lMatch)
    BY <2>1 DEF Chronicle
  <2>4. ms \in States
    <3>1. CASE plLastMove = 0
      <4> DEFINE info == lMatch[plGame].info
                 start == StartState(info)
                 p == lMatch[plGame].moves[1].fPlayer
      <4>1. ms \in {start, [start EXCEPT !.fMove = p, !.fTurn = p]}
        BY <2>1, <3>1 DEF Sound, Live, AtStart, Here
      <4>2. info \in Infos /\ GoodInfo(info) /\ p \in Nobodies
        <5>1. lMatch[plGame].moves \in Seq(Records) /\ lMatch[plGame].moves # <<>>
          BY <2>1 DEF Good, MatchGames
        <5>2. lMatch[plGame].moves[1] \in Records
          BY <5>1
        <5> QED BY <2>1, <5>2, MatchTypes DEF Good, MatchGames, Nobodies
      <4>3. start \in States
        BY <4>2, StartIsState DEF Infos
      <4> HIDE DEF start, p
      <4>4. [start EXCEPT !.fMove = p, !.fTurn = p] \in States
        BY <4>2, <4>3, ZenonT(60) DEF States
      <4> QED BY <4>1, <4>3, <4>4
    <3>2. CASE plLastMove # 0
      <4>1. Agrees(ms, Trace(lMatch[plGame])[plLastMove])
        BY <2>1, <3>2 DEF Sound, Live, Here
      <4>2. Trace(lMatch[plGame])[plLastMove] \in States
        BY <2>1, GameStates
      <4> QED BY <4>1, <4>2, AgreesState
    <3> QED BY <3>1, <3>2
  <2> QED BY <1>1, <1>3, <2>1, <2>2, <2>3, <2>4 DEF TypeOK
<1> QED BY <1>2, <1>3

\* The cube of a double can be turned, or the game be given up.
LEMMA Answerable == Invariant => DoubleIsAnswerable
<1> SUFFICES ASSUME Invariant, plGame # 0, ms.gs = "GAME_PLAYING", ms.fDoubled
             PROVE  /\ LinkToDouble
                    /\ (ms.fTurn # lMatch[plGame].moves[plLastMove].fPlayer) <=> (ms.fResigned = 0)
  BY DEF DoubleIsAnswerable
<1> DEFINE game == lMatch[plGame]
           t == Trace(game)[plLastMove]
           r == game.moves[plLastMove]
<1>1. Sound(Here) /\ Good(game) /\ plLastMove \in 0..Len(game.moves) /\ Len(game.moves) \in Nat
  BY CurrentGame
<1>2. /\ plLastMove = 0 => AtStart(ms, game)
      /\ plLastMove # 0 => Agrees(ms, t)
  BY <1>1 DEF Sound, Live, Here
<1>3. plLastMove # 0
  <2>1. \A info : StartState(info).gs = "GAME_NONE"
    BY DEF StartState
  <2>2. \A info, p : [StartState(info) EXCEPT !.fMove = p, !.fTurn = p].gs = "GAME_NONE"
    BY DEF StartState
  <2>3. AtStart(ms, game) => ms.gs = "GAME_NONE"
    BY <2>1, <2>2 DEF AtStart
  <2> QED BY <1>2, <2>3
<1>4. plLastMove > 0 /\ r \in Records
  <2>1. game.moves \in Seq(Records) /\ plLastMove \in 1..Len(game.moves)
    BY <1>1, <1>3 DEF Good, MatchGames
  <2> QED BY <2>1
<1>5. After(t, game.info, r) /\ t \in States
  BY <1>1, <1>4, GameStates
<1>6. t.gs = "GAME_PLAYING"
  BY <1>2, <1>3 DEF Agrees
<1> HIDE DEF t, r
<1>7. InPlay(t, game.info)
  BY <1>5, <1>6 DEF After, IsOver, OverKinds
<1>8. /\ ms.fDoubled = t.fDoubled /\ (ms.fResigned = 0 => ms.fTurn = t.fTurn)
      /\ (ms.fResigned # 0 => ms.fTurn = Opponent(t.fTurn))
  BY <1>2, <1>3, <1>5, <1>7, LiveFields
<1>9. r.mt = "MOVE_DOUBLE" /\ t.fTurn = Opponent(r.fPlayer) /\ r.fPlayer \in Players
  BY <1>4, <1>5, <1>7, <1>8, MatchTypes DEF After
<1>10. (ms.fTurn # r.fPlayer) <=> (ms.fResigned = 0)
  BY <1>8, <1>9 DEF Opponent, Players
<1> QED BY <1>4, <1>9, <1>10 DEF LinkToDouble, r

\* Scores and numbers of the games.
LEMMA Following == Invariant => ScoresFollow
<1> SUFFICES ASSUME Invariant, NEW g \in DOMAIN lMatch
             PROVE  LET info == lMatch[g].info
                        last == lMatch[g - 1].info
                    IN /\ info.nMatch # 0 => \A p \in Players : info.anScore[p] < info.nMatch
                       /\ info.nMatch # 0 => info.i <= 2 * info.nMatch + 1
                       /\ IF g = 1 THEN info.i = 0 /\ \A p \in Players : info.anScore[p] = 0
                          ELSE /\ info.nMatch = last.nMatch /\ info.i = last.i + 1
                               /\ last.fWinner \in Players
                               /\ info.anScore = [last.anScore EXCEPT ![last.fWinner] = @ + last.nPoints]
  BY DEF ScoresFollow
<1> DEFINE info == lMatch[g].info
<1>1. Chronicle(lMatch)
  BY DEF Invariant, Consistent, Before, Sound, Here
<1>2. /\ Good(lMatch[g]) /\ InMatch(info) /\ (g = 1 => FirstGame(info)) /\ (g # 1 => NextGame(info, lMatch[g - 1].info))
  BY <1>1, ChronicleGames
<1>3. info.nMatch # 0 => info.i <= 2 * info.nMatch + 1
  <2>1. info.i \in Nat /\ info.anScore \in [Players -> Nat] /\ info.nMatch \in Lengths \cup {0}
    BY <1>2 DEF Good, MatchGames, Infos
  <2>2. \A k \in Lengths \cup {0} : k \in Nat
    BY LengthsAssumption
  <2>3. info.anScore[0] \in Nat /\ info.anScore[1] \in Nat /\ 0 \in Players /\ 1 \in Players /\ info.nMatch \in Nat
    BY <2>1, <2>2 DEF Players
  <2>4. info.nMatch # 0 => /\ info.anScore[0] < info.nMatch /\ info.anScore[1] < info.nMatch
                           /\ info.i <= info.anScore[0] + info.anScore[1]
    BY <1>2, <2>3 DEF InMatch
  <2> HIDE DEF info
  <2> QED BY <2>1, <2>3, <2>4
<1> QED BY <1>2, <1>3 DEF InMatch, FirstGame, NextGame

\* The Crawford game.
LEMMA Once == Invariant => CrawfordRule
<1> SUFFICES ASSUME Invariant PROVE CrawfordOnce /\ NoCubeInCrawford
  BY DEF CrawfordRule
<1>1. Chronicle(lMatch)
  <2>1. Chronicle(<<>>)
    BY DEF Chronicle
  <2> QED BY <2>1 DEF Invariant, Consistent, Before, Sound, Here
<1>2. CrawfordOnce
  <2>1. \A g \in DOMAIN lMatch : lMatch[g].info.fCrawfordGame
                                   <=> OneAway(lMatch[g].info) /\ ~OneAwayBefore(lMatch, g)
    BY <1>1, ChronicleGames DEF Crawford
  <2> QED BY <2>1 DEF CrawfordOnce, OneAway, OneAwayBefore
<1>3. NoCubeInCrawford
  <2>1. ASSUME NEW g \in DOMAIN lMatch, lMatch[g].info.fCrawfordGame, NEW j \in DOMAIN lMatch[g].moves
        PROVE  lMatch[g].moves[j].mt \notin CubeKinds
    <3> DEFINE game == lMatch[g]
               k == j - 1
    <3>1. Good(game)
      BY <1>1, ChronicleGames
    <3>2. Len(game.moves) \in Nat /\ j \in 1..Len(game.moves)
      BY <3>1 DEF Good, MatchGames
    <3>3. k \in 0..Len(game.moves) /\ k < Len(game.moves) /\ k + 1 = j
      BY <3>2
    <3> HIDE DEF k
    <3>4. SameMatch(Trace(game)[k], game.info) /\ Legal(Trace(game)[k], game.moves[k + 1])
      BY <3>1, <3>3, GameStates
    <3>5. Trace(game)[k].fCrawford = game.info.fCrawfordGame
      BY <3>4 DEF SameMatch, StartState
    <3> QED BY <2>1, <3>3, <3>4, <3>5 DEF Legal
  <2> QED BY <2>1 DEF NoCubeInCrawford, CubeKinds
<1> QED BY <1>2, <1>3

\* The live state at the end of a game.
LEMMA Replaying == Invariant => ReplayMatches
<1> DEFINE g == CalculateBoard(lMatch[plGame], plLastMove)
           Recorded(m) == [m EXCEPT !.fResignationDeclined = 0,
                                    !.fTurn = IF m.gs = "GAME_RESIGNED" THEN Nobody ELSE @,
                                    !.fCrawford = m.gs = "GAME_PLAYING" /\ m.fCrawford,
                                    !.fPostCrawford = m.gs = "GAME_PLAYING" /\ m.fPostCrawford]
           unoffered == IF ms.gs = "GAME_PLAYING" /\ ms.fResigned # 0
                        THEN [ms EXCEPT !.fResigned = 0, !.fTurn = Opponent(@)] ELSE ms
<1> SUFFICES ASSUME Invariant, plGame # 0, plLastMove = Len(lMatch[plGame].moves)
             PROVE  Recorded(unoffered) = Recorded(g.ms) /\ lMatch[plGame].info = g.info
  BY DEF ReplayMatches
<1> DEFINE game == lMatch[plGame]
           t == Trace(game)[plLastMove]
<1>1. Sound(Here) /\ Good(game) /\ plLastMove \in 0..Len(game.moves) /\ Len(game.moves) \in Nat \ {0}
  BY CurrentGame
<1>2. plLastMove # 0 /\ plLastMove > 0 /\ Agrees(ms, t)
  BY <1>1 DEF Sound, Live, Here
<1>3. g.info = game.info /\ g.ms = t
  BY <1>1, <1>2, Replayed
<1>4. t \in States /\ After(t, game.info, game.moves[plLastMove])
  BY <1>1, <1>2, GameStates
<1>5. ms \in States
  BY <1>2, <1>4, AgreesState
<1> HIDE DEF t, g
<1>6. PICK a, b, c, x, y : /\ a = ms.fResigned /\ b = ms.fResignationDeclined /\ c = ms.fTurn
                           /\ x = ms.fCrawford /\ y = ms.fPostCrawford
  OBVIOUS
<1>7. /\ ms.gs = t.gs
      /\ ms = [t EXCEPT !.fResigned = a, !.fResignationDeclined = b, !.fTurn = c, !.fCrawford = x, !.fPostCrawford = y]
      /\ c \in Players
  BY <1>2, <1>6 DEF Agrees
<1>8. CASE t.gs = "GAME_PLAYING"
  <2>1. InPlay(t, game.info)
    BY <1>4, <1>8 DEF After, IsOver, OverKinds
  <2>2. /\ t.fResigned = 0 /\ t.fResignationDeclined = 0 /\ x = t.fCrawford /\ y = t.fPostCrawford
        /\ c = (IF a = 0 THEN t.fTurn ELSE Opponent(t.fTurn)) /\ t.fTurn \in Players
    BY <1>2, <1>6, <1>7, <1>8, <2>1 DEF InPlay, Agrees
  <2>3. Opponent(Opponent(t.fTurn)) = t.fTurn
    BY <2>2 DEF Opponent, Players
  <2>4. unoffered = [t EXCEPT !.fResignationDeclined = b]
    <3>1. ms = [t EXCEPT !.fResigned = a, !.fResignationDeclined = b, !.fTurn = c]
      BY <1>4, <1>7, <2>2 DEF States
    <3>2. CASE a = 0
      <4>1. unoffered = ms
        BY <1>6, <3>2
      <4>2. ms = [t EXCEPT !.fResignationDeclined = b]
        BY <1>4, <2>2, <3>1, <3>2 DEF States
      <4> QED BY <4>1, <4>2
    <3>3. CASE a # 0
      <4>1. unoffered = [ms EXCEPT !.fResigned = 0, !.fTurn = t.fTurn]
        <5>1. ms.gs = "GAME_PLAYING" /\ ms.fResigned # 0 /\ Opponent(ms.fTurn) = t.fTurn
          BY <1>6, <1>7, <1>8, <2>2, <2>3, <3>3
        <5>2. unoffered = [ms EXCEPT !.fResigned = 0, !.fTurn = Opponent(@)]
          BY <5>1
        <5> HIDE DEF unoffered
        <5>3. [ms EXCEPT !.fResigned = 0, !.fTurn = Opponent(@)] = [ms EXCEPT !.fResigned = 0, !.fTurn = Opponent(ms.fTurn)]
          BY <1>5 DEF States
        <5> QED BY <5>1, <5>2, <5>3
      <4> HIDE DEF unoffered
      <4>2. unoffered = [t EXCEPT !.fResigned = 0, !.fResignationDeclined = b, !.fTurn = t.fTurn]
        BY <1>4, <3>1, <4>1 DEF States
      <4> QED BY <1>4, <2>2, <4>2 DEF States
    <3> QED BY <3>2, <3>3
  <2>5. t.fCrawford \in BOOLEAN /\ t.fPostCrawford \in BOOLEAN
    BY <1>4 DEF States
  <2> HIDE DEF unoffered
  <2>6. /\ unoffered.gs = "GAME_PLAYING" /\ unoffered.fTurn = t.fTurn /\ unoffered.fCrawford = t.fCrawford
        /\ unoffered.fPostCrawford = t.fPostCrawford
    BY <1>4, <1>8, <2>4 DEF States
  <2>7. PICK p, q : p = t.fCrawford /\ q = t.fPostCrawford
    OBVIOUS
  <2>8. Recorded(unoffered) = [unoffered EXCEPT !.fResignationDeclined = 0, !.fTurn = t.fTurn,
                                                !.fCrawford = p, !.fPostCrawford = q]
    BY <2>5, <2>6, <2>7
  <2>9. Recorded(t) = [t EXCEPT !.fResignationDeclined = 0, !.fTurn = t.fTurn, !.fCrawford = p, !.fPostCrawford = q]
    BY <1>8, <2>5, <2>7
  <2> HIDE DEF Recorded
  <2>10. Recorded(unoffered) = Recorded(t)
    BY <1>4, <2>4, <2>8, <2>9, ZenonT(60) DEF States
  <2> QED BY <1>3, <2>10
<1>9. CASE t.gs # "GAME_PLAYING"
  <2>1. /\ a = t.fResigned
        /\ b = 0
        /\ t.gs # "GAME_RESIGNED" => c = t.fTurn
    BY <1>2, <1>6, <1>7, <1>9 DEF Agrees
  <2>2. unoffered = ms
    BY <1>7, <1>9
  <2> HIDE DEF unoffered
  <2>3. PICK turn, no : /\ turn = (IF t.gs = "GAME_RESIGNED" THEN Nobody ELSE t.fTurn) /\ no = FALSE
    OBVIOUS
  <2>4. Recorded(t) = [t EXCEPT !.fResignationDeclined = 0, !.fTurn = turn, !.fCrawford = no, !.fPostCrawford = no]
    BY <1>4, <1>9, <2>3 DEF States
  <2>5. Recorded(ms) = [ms EXCEPT !.fResignationDeclined = 0, !.fTurn = turn, !.fCrawford = no, !.fPostCrawford = no]
    <3>1. /\ (IF ms.gs = "GAME_RESIGNED" THEN Nobody ELSE ms.fTurn) = turn
          /\ (ms.gs = "GAME_PLAYING" /\ ms.fCrawford) = no /\ (ms.gs = "GAME_PLAYING" /\ ms.fPostCrawford) = no
      BY <1>6, <1>7, <1>9, <2>1, <2>3
    <3>2. Recorded(ms) = [ms EXCEPT !.fResignationDeclined = 0,
                                    !.fTurn = IF ms.gs = "GAME_RESIGNED" THEN Nobody ELSE ms.fTurn,
                                    !.fCrawford = ms.gs = "GAME_PLAYING" /\ ms.fCrawford,
                                    !.fPostCrawford = ms.gs = "GAME_PLAYING" /\ ms.fPostCrawford]
      BY <1>5 DEF States
    <3> HIDE DEF Recorded
    <3> QED BY <3>1, <3>2
  <2> HIDE DEF Recorded
  <2>6. Recorded(ms) = Recorded(t)
    <3>1. Recorded(ms) = [t EXCEPT !.fResigned = a, !.fResignationDeclined = 0, !.fTurn = turn,
                                   !.fCrawford = no, !.fPostCrawford = no]
      BY <1>4, <1>7, <2>5 DEF States
    <3>2. a = t.fResigned
      BY <2>1
    <3>3. [t EXCEPT !.fResigned = a, !.fResignationDeclined = 0, !.fTurn = turn, !.fCrawford = no, !.fPostCrawford = no]
          = [t EXCEPT !.fResignationDeclined = 0, !.fTurn = turn, !.fCrawford = no, !.fPostCrawford = no]
      BY <1>4, <3>2 DEF States
    <3> QED BY <2>4, <3>1, <3>3
  <2> QED BY <1>3, <2>2, <2>6
<1> QED BY <1>3, <1>8, <1>9

\* The records about the cube: each is legal in the state that CalculateBoard
\* gives for the records before it, and only a double leaves a double open.
LEMMA Proper == ASSUME MAXSCORE <= MAX_CUBE, Invariant PROVE GamesAreProper
<1>1. Chronicle(lMatch)
  <2>1. Chronicle(<<>>)
    BY DEF Chronicle
  <2> QED BY <2>1 DEF Invariant, Consistent, Before, Sound, Here
<1>2. ASSUME NEW game, Good(game), NEW j \in DOMAIN game.moves,
             game.moves[j].mt \in {"MOVE_DOUBLE", "MOVE_TAKE", "MOVE_DROP"}
      PROVE  LET m == CalculateBoard(game, j - 1).ms
                 r == game.moves[j]
                 doubled == j > 1 /\ game.moves[j - 1].mt = "MOVE_DOUBLE"
             IN /\ r.mt = "MOVE_DOUBLE" =>
                     /\ m.nCube < MAX_CUBE
                     /\ doubled \/ (~m.fDoubled /\ m.fMove = r.fPlayer /\ m.fCubeOwner \in {Nobody, m.fMove})
                /\ r.mt \in {"MOVE_TAKE", "MOVE_DROP"} => doubled
  <2>1. j \in 1..Len(game.moves) /\ Len(game.moves) \in Nat /\ game.moves[1].mt \in {"MOVE_SETDICE", "MOVE_NORMAL"}
    BY <1>2 DEF Good, MatchGames
  <2>2. j # 1
    BY <1>2, <2>1
  <2>3. PICK k : k = j - 1
    OBVIOUS
  <2>4. k \in 0..Len(game.moves) /\ k # 0 /\ k > 0 /\ k < Len(game.moves) /\ k + 1 = j /\ j > 1 /\ j - 1 = k
    BY <2>1, <2>2, <2>3
  <2>5. PICK t : t = Trace(game)[k]
    OBVIOUS
  <2>6. PICK r : r = game.moves[j]
    OBVIOUS
  <2>7. CalculateBoard(game, j - 1).ms = t
    BY <1>2, <2>4, <2>5, Replayed
  <2>8. Legal(t, r) /\ InPlay(t, game.info) /\ After(t, game.info, game.moves[k])
    BY <1>2, <2>4, <2>5, <2>6, GameStates
  <2>9. t.fDoubled => game.moves[k].mt = "MOVE_DOUBLE" /\ t.nCube < MAX_CUBE
    BY <2>8 DEF After, InPlay
  <2>10. CASE t.fDoubled
    BY <1>2, <2>4, <2>6, <2>7, <2>9, <2>10
  <2>11. CASE ~t.fDoubled
    <3>1. r.mt = "MOVE_DOUBLE"
      BY <1>2, <2>6, <2>8, <2>11 DEF Legal
    <3>2. t.nCube < MAX_CUBE /\ t.fCubeOwner \in {Nobody, t.fMove} /\ r.fPlayer = t.fMove
      BY <2>8, <2>11, <3>1 DEF Legal, MayDouble, InPlay
    <3> QED BY <2>6, <2>7, <2>11, <3>1, <3>2
  <2> QED BY <2>10, <2>11
<1>3. \A g \in DOMAIN lMatch : Good(lMatch[g])
  BY <1>1, ChronicleGames
<1> QED BY <1>2, <1>3 DEF GamesAreProper, IsProper

-----------------------------------------------------------------------------
(* The theorems: where the display is on, so that automatic doubles are      *)
(* counted, and without the Habits that break one of them.                   *)

\* Each command leaves play.c's variables with values of their types: the
\* current record is one of the current game's, and the cube a power of 2.
THEOREM MatchIsTyped == ASSUME fDisplay = TRUE, Habits \subseteq {"restart"} PROVE Spec => []TypeOK
BY InvariantHolds, Types, PTL

\* The live state at the end of a game, which the commands have kept up record
\* by record, is the one that CalculateBoard makes from the game's records.
THEOREM LiveStateIsReplayed == ASSUME fDisplay = TRUE, Habits \subseteq {"restart"} PROVE Spec => []ReplayMatches
BY InvariantHolds, Replaying, PTL

\* Whatever game the user has browsed to in between, NewGame starts the next
\* one with the number and the score that NextTurn has made of the one before.
THEOREM ScoresAreCarriedOn == ASSUME fDisplay = TRUE, Habits \subseteq {"restart"} PROVE Spec => []ScoresFollow
BY InvariantHolds, Following, PTL

\* NextTurn and NewGame make one game of a match the Crawford game, the first
\* with a player one point away, and no command turns the cube in it.
THEOREM CrawfordGameIsPlayedOnce == ASSUME fDisplay = TRUE, Habits \subseteq {"restart"} PROVE Spec => []CrawfordRule
BY InvariantHolds, Once, PTL

\* LinkToDouble finds the double that a take, a drop or a beaver answers: the
\* current record is still that double, wherever the user has browsed to.
THEOREM DoublesAreAnswered == ASSUME fDisplay = TRUE, Habits \subseteq {"restart"} PROVE Spec => []DoubleIsAnswerable
BY InvariantHolds, Answerable, PTL

\* CommandDouble, CommandRedouble, CommandTake and CommandDrop record a double
\* only for the player on roll who may use the cube, or in answer to a double,
\* and an answer only after a double: what Analysis assumes of its matches.
THEOREM CubeRecordsAreProper ==
  ASSUME fDisplay = TRUE, Habits \subseteq {"restart"}, MAXSCORE <= MAX_CUBE
  PROVE  Spec => []GamesAreProper
BY InvariantHolds, Proper, PTL
=============================================================================
