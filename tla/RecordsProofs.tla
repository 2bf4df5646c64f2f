---------------------------- MODULE RecordsProofs ----------------------------
(***************************************************************************)
(* Theorems about Records: replaying a game, one record at a time, and     *)
(* that what it gives is a match state.                                    *)
(*                                                                         *)
(* CalculateBoard is a recursive function; that it unfolds, and everything *)
(* else about all records of a game, is proved by induction over their     *)
(* numbers (AllNumbers).                                                   *)
(***************************************************************************)
EXTENDS Records, FiniteSetTheorems, TLAPS

-----------------------------------------------------------------------------
(* Induction.                                                              *)

\* A nonempty set of numbers has a least one: the intervals up to its members
\* are ordered by inclusion, which is well founded on finite sets.
LEMMA LeastNumber ==
  ASSUME NEW T \in SUBSET Nat, T # {}
  PROVE  \E x \in T : \A y \in T : x <= y
<1> DEFINE U == {0..x : x \in T}
<1>1. IsWellFoundedOn(StrictSubsetOrdering(Nat), FiniteSubsetsOf(Nat))
  BY FS_StrictSubsetOrderingWellFounded
<1>2. \A x \in T : 0..x \in SUBSET Nat /\ IsFiniteSet(0..x)
  BY FS_Interval
<1>3. U \subseteq FiniteSubsetsOf(Nat) /\ U # {}
  BY <1>2 DEF FiniteSubsetsOf
<1>4. PICK u \in U : \A v \in U : ~(<<v, u>> \in StrictSubsetOrdering(Nat))
  <2> HIDE DEF U
  <2> QED BY <1>1, <1>3, WFMin
<1>5. PICK x \in T : u = 0..x
  BY <1>4
<1>6. ASSUME NEW y \in T PROVE x <= y
  <2>1. SUFFICES ASSUME y < x PROVE FALSE
    OBVIOUS
  <2>2. 0..y \subseteq 0..x /\ x \in 0..x /\ x \notin 0..y
    BY <2>1
  <2>3. <<0..y, 0..x>> \in (SUBSET Nat) \X (SUBSET Nat)
    BY <1>2
  <2>4. <<0..y, 0..x>> \in StrictSubsetOrdering(Nat)
    BY <2>2, <2>3, Zenon DEF StrictSubsetOrdering
  <2>5. 0..y \in U
    OBVIOUS
  <2> QED BY <1>4, <1>5, <2>4, <2>5
<1> QED BY <1>6

\* Induction: a set of numbers with 0 and with the successor of each has all.
LEMMA AllNumbers ==
  ASSUME NEW S, 0 \in S, \A n \in Nat : n \in S => n + 1 \in S
  PROVE  Nat \subseteq S
<1> DEFINE T == Nat \ S
<1>1. SUFFICES ASSUME T # {} PROVE FALSE
  OBVIOUS
<1>2. PICK x \in T : \A y \in T : x <= y
  <2> T \in SUBSET Nat OBVIOUS
  <2> HIDE DEF T
  <2> QED BY <1>1, LeastNumber
<1>3. x \in Nat /\ x # 0
  OBVIOUS
<1>4. x - 1 \in Nat /\ x - 1 \notin T /\ (x - 1) + 1 = x
  BY <1>2, <1>3
<1> QED BY <1>4

-----------------------------------------------------------------------------
(* Replaying a game.                                                       *)

FirstState(game) == FixForNext(game, 0, [ms |-> StartState(game.info), info |-> game.info])
NextState(game, j, g) == FixForNext(game, j, ApplyMoveRecord(g, game.moves[j]))
IsReplay(f, game, k) ==
    f = [j \in 0..k |-> IF j = 0 THEN FirstState(game) ELSE NextState(game, j, f[j - 1])]

\* There is a replay of every game up to every record.
LEMMA ReplayExists ==
  ASSUME NEW game, NEW k \in Nat
  PROVE  \E f : IsReplay(f, game, k)
<1> DEFINE S == {n \in Nat : \E f : IsReplay(f, game, n)}
<1>1. 0 \in S
  <2>1. IsReplay([j \in 0..0 |-> FirstState(game)], game, 0)
    BY DEF IsReplay
  <2> QED BY <2>1
<1>2. ASSUME NEW n \in Nat, n \in S PROVE n + 1 \in S
  <2>1. PICK f : IsReplay(f, game, n)
    BY <1>2
  <2> DEFINE g == [j \in 0..(n + 1) |-> IF j = n + 1 THEN NextState(game, j, f[n]) ELSE f[j]]
  <2>2. \A j \in 0..(n + 1) : g[j] = IF j = 0 THEN FirstState(game) ELSE NextState(game, j, g[j - 1])
    <3> TAKE j \in 0..(n + 1)
    <3>1. CASE j = n + 1
      BY <3>1
    <3>2. CASE j \in 0..n
      BY <2>1, <3>2 DEF IsReplay
    <3> QED BY <3>1, <3>2
  <2>3. IsReplay(g, game, n + 1)
    BY <2>2 DEF IsReplay
  <2> HIDE DEF g
  <2> QED BY <2>3
<1> HIDE DEF S
<1>3. Nat \subseteq S
  BY <1>1, <1>2, AllNumbers
<1> QED BY <1>3 DEF S

\* Two replays of a game agree as far as both go.
LEMMA ReplaysAgree ==
  ASSUME NEW game, NEW k \in Nat, NEW n \in 0..k, NEW f, NEW g,
         IsReplay(f, game, k), IsReplay(g, game, n)
  PROVE  \A j \in 0..n : f[j] = g[j]
<1> DEFINE T == {j \in 0..n : f[j] # g[j]}
<1>1. SUFFICES ASSUME T # {} PROVE FALSE
  OBVIOUS
<1>2. PICK x \in T : \A y \in T : x <= y
  <2> T \in SUBSET Nat OBVIOUS
  <2> HIDE DEF T
  <2> QED BY <1>1, LeastNumber
<1>3. x # 0
  BY DEF IsReplay
<1>4. x - 1 \in 0..n /\ x - 1 \notin T /\ x \in 0..k
  BY <1>2, <1>3
<1>5. f[x - 1] = g[x - 1]
  BY <1>4
<1>6. f[x] = NextState(game, x, f[x - 1]) /\ g[x] = NextState(game, x, g[x - 1])
  BY <1>3, <1>4 DEF IsReplay
<1> QED BY <1>5, <1>6

\* CalculateBoard is the last state of a replay.
LEMMA CalculateBoardIsReplay ==
  ASSUME NEW game, NEW k \in Nat
  PROVE  \E f : IsReplay(f, game, k) /\ CalculateBoard(game, k) = f[k]
<1> DEFINE F(f, j) == FixForNext(game, j,
                IF j = 0 THEN [ms |-> StartState(game.info), info |-> game.info]
                ELSE ApplyMoveRecord(f[j - 1], game.moves[j]))
           upTo == CHOOSE f : f = [j \in 0..k |-> F(f, j)]
<1>1. CalculateBoard(game, k) = upTo[k]
  BY DEF CalculateBoard
<1>2. \A f : IsReplay(f, game, k) <=> f = [j \in 0..k |-> F(f, j)]
  BY DEF IsReplay, FirstState, NextState
<1>3. upTo = [j \in 0..k |-> F(upTo, j)]
  <2> HIDE DEF F
  <2> QED BY <1>2, ReplayExists
<1> HIDE DEF upTo, F
<1> QED BY <1>1, <1>2, <1>3

\* CalculateBoard, unfolded once: the start of the game,
LEMMA CalculateBoardFirst ==
  ASSUME NEW game
  PROVE  CalculateBoard(game, 0) = FirstState(game)
BY CalculateBoardIsReplay DEF IsReplay

\* and one record more.
LEMMA CalculateBoardThen ==
  ASSUME NEW game, NEW k \in Nat
  PROVE  CalculateBoard(game, k + 1) = NextState(game, k + 1, CalculateBoard(game, k))
<1>1. PICK f : IsReplay(f, game, k + 1) /\ CalculateBoard(game, k + 1) = f[k + 1]
  BY CalculateBoardIsReplay
<1>2. PICK g : IsReplay(g, game, k) /\ CalculateBoard(game, k) = g[k]
  BY CalculateBoardIsReplay
<1>3. f[k] = g[k]
  BY <1>1, <1>2, ReplaysAgree
<1>4. f[k + 1] = NextState(game, k + 1, f[k])
  BY <1>1 DEF IsReplay
<1> QED BY <1>1, <1>2, <1>3, <1>4

-----------------------------------------------------------------------------
(* Types.                                                                  *)

\* A power of two counts the subsets of a finite set.
LEMMA PowersOfTwo ==
  ASSUME NEW n \in Nat
  PROVE  2 ^ n \in Nat
<1>1. IsFiniteSet(1..n) /\ Cardinality(1..n) = n
  BY FS_Interval
<1>2. IsFiniteSet(SUBSET (1..n)) /\ Cardinality(SUBSET (1..n)) = 2 ^ n
  BY <1>1, FS_SUBSET
<1> QED BY <1>2, FS_CardinalityType

\* Of two numbers Max is the larger.
LEMMA LargerOfTwo ==
  ASSUME NEW m \in Int, NEW n \in Int
  PROVE  Max({m, n}) = IF m < n THEN n ELSE m
BY DEF Max

\* A board seen from the other side is a board.
LEMMA SwappedBoards ==
  ASSUME NEW b \in Board
  PROVE  SwapSides(b) \in Board
BY DEF SwapSides, Board, Players

\* A record applied to a match state gives a match state.
LEMMA ApplyMoveRecordTypes ==
  ASSUME NEW m \in MatchStates, NEW info \in GameInfos, NEW r \in MoveRecords
  PROVE  ApplyMoveRecord([ms |-> m, info |-> info], r) \in [ms : MatchStates, info : GameInfos]
<1> DEFINE playing == [m EXCEPT !.gs = "GAME_PLAYING", !.fResigned = 0, !.fResignationDeclined = 0]
<1>1. playing \in MatchStates
  BY DEF MatchStates
<1>2. Players = {0, 1} /\ Nobody \notin Players /\ Nobodies = {0, 1, -1} /\ r.fPlayer \in Players
  BY DEF Players, Nobody, Nobodies, MoveRecords
<1>3. \A p : Opponent(p) \in Players
  BY DEF Opponent, Players
<1>4. ASSUME NEW x \in MatchStates, NEW gs \in {"GAME_OVER", "GAME_RESIGNED", "GAME_DROP"},
             NEW p \in Players, NEW n \in Nat
      PROVE  Ended(x, info, gs, p, n) \in [ms : MatchStates, info : GameInfos]
  <2>1. [x.anScore EXCEPT ![p] = @ + n] \in [Players -> Nat] /\ x.cGames + 1 \in Nat
    BY DEF MatchStates
  <2>2. [x EXCEPT !.gs = gs, !.anScore = [x.anScore EXCEPT ![p] = @ + n], !.cGames = @ + 1] \in MatchStates
    BY <2>1 DEF MatchStates
  <2>3. [info EXCEPT !.fWinner = p, !.nPoints = n] \in GameInfos
    BY <1>2 DEF GameInfos
  <2> QED BY <2>2, <2>3 DEF Ended
<1>5. ApplyDouble(playing, r) \in MatchStates
  <2> HIDE DEF playing
  <2>1. 2 * playing.nCube \in Nat /\ playing.cBeavers + 1 \in Nat
    BY <1>1 DEF MatchStates
  <2> DEFINE mover == IF playing.fMove = Nobody THEN r.fPlayer ELSE playing.fMove
             alone == [playing EXCEPT !.fMove = mover]
             once == [alone EXCEPT !.fDoubled = TRUE]
             twice == [alone EXCEPT !.cBeavers = playing.cBeavers + 1, !.nCube = 2 * playing.nCube,
                                    !.fCubeOwner = Opponent(mover)]
  <2>2. mover \in Nobodies /\ Opponent(mover) \in Nobodies /\ Opponent(r.fPlayer) \in Nobodies
    BY <1>1, <1>2, <1>3 DEF MatchStates
  <2> HIDE DEF mover
  <2>3. alone \in MatchStates
    BY <1>1, <2>2 DEF MatchStates
  <2>4. once \in MatchStates
    BY <2>3 DEF MatchStates
  <2>5. twice \in MatchStates
    BY <2>1, <2>2, <2>3 DEF MatchStates
  <2>6. \A x \in {once, twice} : [x EXCEPT !.fTurn = Opponent(r.fPlayer)] \in MatchStates
    <3> HIDE DEF once, twice
    <3> QED BY <2>2, <2>4, <2>5 DEF MatchStates
  <2>7. ApplyDouble(playing, r) = IF playing.nCube >= MAX_CUBE THEN alone
          ELSE [(IF playing.fDoubled THEN twice ELSE once) EXCEPT !.fTurn = Opponent(r.fPlayer)]
    <3>1. /\ twice = [playing EXCEPT !.fMove = mover, !.cBeavers = @ + 1, !.nCube = 2 * @,
                                     !.fCubeOwner = Opponent(mover)]
          /\ once = [playing EXCEPT !.fMove = mover, !.fDoubled = TRUE]
      BY <1>1 DEF MatchStates
    <3> HIDE DEF once, twice
    <3> QED BY <3>1 DEF ApplyDouble, mover
  <2> HIDE DEF alone, once, twice
  <2> QED BY <2>3, <2>6, <2>7
<1>6. ApplyTake(playing) \in MatchStates
  <2> HIDE DEF playing
  <2>1. 2 * playing.nCube \in Nat
    BY <1>1 DEF MatchStates
  <2> QED BY <1>1, <1>2, <1>3, <2>1, ZenonT(60) DEF ApplyTake, MatchStates
<1>7. ApplyDrop(playing, info, r) \in [ms : MatchStates, info : GameInfos]
  <2> HIDE DEF playing
  <2>1. [playing EXCEPT !.fDoubled = FALSE, !.cBeavers = 0] \in MatchStates /\ playing.nCube \in Nat
    BY <1>1 DEF MatchStates
  <2>2. Ended([playing EXCEPT !.fDoubled = FALSE, !.cBeavers = 0], info, "GAME_DROP",
              Opponent(r.fPlayer), playing.nCube) \in [ms : MatchStates, info : GameInfos]
    BY <1>3, <1>4, <2>1
  <2> QED BY <1>1, <2>2 DEF ApplyDrop
<1>8. CASE r.mt = "MOVE_NORMAL"
  <2> DEFINE alone == [playing EXCEPT !.fDoubled = FALSE]
             played == [PlayMove(alone, r) EXCEPT !.anDice = 0]
  <2>1. alone \in MatchStates
    BY <1>1 DEF MatchStates
  <2>2. r.n \in {0, 1}
    BY <1>8 DEF MoveRecords
  <2>3. played \in MatchStates
    <3> HIDE DEF alone
    <3> DEFINE b == IF alone.fMove # Nobody /\ r.fPlayer # alone.fMove
                    THEN SwapSides(alone.anBoard) ELSE alone.anBoard
               moved == [b EXCEPT ![1] = Max({0, @ - r.n})]
    <3>1. b \in Board
      BY <2>1, SwappedBoards DEF MatchStates
    <3> HIDE DEF b
    <3>2. b[1] \in 0..Chequers /\ 1 \in Players
      BY <3>1 DEF Board, Players
    <3>3. Max({0, b[1] - r.n}) \in 0..Chequers
      BY <2>2, <3>2, LargerOfTwo, ChequersAssumption
    <3>4. SwapSides(moved) \in Board
      <4>1. moved \in Board
        BY <3>1, <3>2, <3>3 DEF Board
      <4> QED BY <4>1, SwappedBoards
    <3> HIDE DEF moved
    <3>5. PlayMove(alone, r) = [alone EXCEPT !.anBoard = SwapSides(moved),
                                   !.fMove = Opponent(r.fPlayer), !.fTurn = Opponent(r.fPlayer)]
      BY DEF PlayMove, moved, b
    <3>6. PlayMove(alone, r) \in MatchStates
      BY <1>2, <1>3, <2>1, <3>4, <3>5, ZenonT(60) DEF MatchStates
    <3> QED BY <3>6 DEF MatchStates
  <2> DEFINE n == GameStatus(played.anBoard)
             counts == IF fJacoby /\ playing.fCubeOwner = Nobody /\ playing.nMatchTo = 0 THEN 1 ELSE n
  <2>4. n \in 0..2
    BY DEF GameStatus
  <2>5. playing.nCube \in Nat
    BY <1>1 DEF MatchStates
  <2> HIDE DEF n, playing
  <2>6. counts \in 0..2
    BY <2>4
  <2> HIDE DEF counts, played
  <2>7. playing.nCube * counts \in Nat
    BY <2>5, <2>6
  <2>8. Ended(played, info, "GAME_OVER", r.fPlayer, playing.nCube * counts) \in [ms : MatchStates, info : GameInfos]
    BY <1>2, <1>4, <2>3, <2>7
  <2>9. ApplyNormal(playing, info, r) \in [ms : MatchStates, info : GameInfos]
    BY <2>3, <2>8 DEF ApplyNormal, played, n, counts
  <2> QED BY <1>8, <2>9 DEF ApplyMoveRecord, playing
<1>9. CASE r.mt = "MOVE_RESIGN"
  <2>1. r.nResigned \in 1..3
    BY <1>9 DEF MoveRecords
  <2>2. playing.nCube \in Nat
    BY <1>1 DEF MatchStates
  <2> HIDE DEF playing
  <2>3. playing.nCube * r.nResigned \in Nat
    BY <2>1, <2>2
  <2>4. [playing EXCEPT !.fResigned = r.nResigned] \in MatchStates
    BY <1>1, <2>1 DEF MatchStates
  <2>5. ApplyResign(playing, info, r) \in [ms : MatchStates, info : GameInfos]
    BY <1>3, <1>4, <2>3, <2>4 DEF ApplyResign
  <2> QED BY <1>9, <2>5 DEF ApplyMoveRecord, playing
<1>10. CASE r.mt \in Sets
  <2>1. CASE r.mt = "MOVE_SETBOARD"
    <3>1. r.key \in Board
      BY <2>1 DEF MoveRecords
    <3>2. ApplySetBoard(playing, r) \in MatchStates
      <4> HIDE DEF playing
      <4> QED BY <1>1, <1>2, <3>1, SwappedBoards, ZenonT(60) DEF ApplySetBoard, MatchStates
    <3> QED BY <2>1, <3>2 DEF ApplyMoveRecord
  <2>2. CASE r.mt = "MOVE_SETDICE"
    <3>1. r.anDice \in Nat
      BY <2>2, ChequersAssumption DEF MoveRecords
    <3>2. ApplySetDice(playing, r) \in MatchStates
      <4> HIDE DEF playing
      <4> QED BY <1>1, <1>2, <3>1, SwappedBoards, ZenonT(60) DEF ApplySetDice, MatchStates
    <3> QED BY <2>2, <3>2 DEF ApplyMoveRecord
  <2>3. ASSUME NEW value \in Nat, NEW owner \in Nobodies
        PROVE  ApplySetCube(playing, value, owner) \in MatchStates
    <3> DEFINE mover == IF playing.fMove = Nobody THEN 0 ELSE playing.fMove
    <3>1. mover \in Nobodies
      <4> HIDE DEF playing
      <4> QED BY <1>1, <1>2 DEF MatchStates
    <3>2. ApplySetCube(playing, value, owner) =
            [playing EXCEPT !.fMove = mover, !.fTurn = mover, !.fDoubled = FALSE,
                            !.nCube = value, !.fCubeOwner = owner]
      BY DEF ApplySetCube
    <3> HIDE DEF playing, mover
    <3> QED BY <1>1, <2>3, <3>1, <3>2, ZenonT(60) DEF MatchStates
  <2>4. playing.nCube \in Nat /\ playing.fCubeOwner \in Nobodies
    BY <1>1 DEF MatchStates
  <2>5. CASE r.mt = "MOVE_SETCUBEVAL"
    <3>1. r.nCube \in Nat
      BY <2>5, MaxCubeAssumption DEF MoveRecords, CubeValues
    <3> QED BY <2>3, <2>4, <2>5, <3>1 DEF ApplyMoveRecord
  <2>6. CASE r.mt = "MOVE_SETCUBEPOS"
    <3>1. r.fCubeOwner \in Nobodies
      BY <2>6 DEF MoveRecords
    <3> QED BY <2>3, <2>4, <2>6, <3>1 DEF ApplyMoveRecord
  <2> QED BY <1>10, <2>1, <2>2, <2>5, <2>6 DEF Sets
<1>11. r.mt \in {"MOVE_NORMAL", "MOVE_DOUBLE", "MOVE_TAKE", "MOVE_DROP", "MOVE_RESIGN"} \cup Sets
  BY DEF MoveRecords, Sets
<1>12. CASE r.mt = "MOVE_DOUBLE"
  BY <1>5, <1>12 DEF ApplyMoveRecord
<1>13. CASE r.mt = "MOVE_TAKE"
  BY <1>6, <1>13 DEF ApplyMoveRecord
<1>14. CASE r.mt = "MOVE_DROP"
  BY <1>7, <1>14 DEF ApplyMoveRecord
<1> QED BY <1>8, <1>9, <1>10, <1>11, <1>12, <1>13, <1>14

\* A match state that is repaired is a match state,
LEMMA FixMatchStateTypes ==
  ASSUME NEW m \in MatchStates, NEW r \in MoveRecords
  PROVE  FixMatchState(m, r) \in MatchStates
<1>1. r.fPlayer \in Nobodies
  BY DEF MoveRecords, Nobodies
<1>2. SwapSides(m.anBoard) \in Board
  BY SwappedBoards DEF MatchStates
<1> QED BY <1>1, <1>2 DEF FixMatchState, MatchStates

\* and a game starts in one.
LEMMA StartStateTypes ==
  ASSUME NEW info \in GameInfos
  PROVE  StartState(info) \in MatchStates
<1>1. 2 ^ info.nAutoDoubles \in Nat
  BY PowersOfTwo DEF GameInfos
<1>2. InitBoard \in Board
  BY ChequersAssumption DEF InitBoard, Board
<1>3. Nobody \in Nobodies
  BY DEF Nobodies
<1> DEFINE atOneAway == \E p \in Players : info.anScore[p] = info.nMatch - 1
           post == ~info.fCrawfordGame /\ atOneAway
           cube == 2 ^ info.nAutoDoubles
<1>4. post \in BOOLEAN /\ info.fCrawfordGame \in BOOLEAN /\ cube \in Nat
  BY <1>1 DEF GameInfos
<1>5. StartState(info) =
        [anBoard |-> InitBoard, nMatchTo |-> info.nMatch, anScore |-> info.anScore,
         cGames |-> info.i, gs |-> "GAME_NONE", fMove |-> Nobody, fTurn |-> Nobody,
         fCubeOwner |-> Nobody, anDice |-> 0, cBeavers |-> 0, fDoubled |-> FALSE,
         nCube |-> cube, fCrawford |-> info.fCrawfordGame,
         fPostCrawford |-> post, fResigned |-> 0, fResignationDeclined |-> 0]
  BY DEF StartState
<1> HIDE DEF post, cube
<1> QED BY <1>2, <1>3, <1>4, <1>5 DEF MatchStates, GameInfos

\* Every game replays, to any of its records, into a match state.
THEOREM CalculateBoardTypes ==
  ASSUME NEW game \in Games, NEW k \in 0..Len(game.moves)
  PROVE  CalculateBoard(game, k) \in [ms : MatchStates, info : GameInfos]
<1> DEFINE Typed(g) == g \in [ms : MatchStates, info : GameInfos]
           S == {n \in Nat : n <= Len(game.moves) => Typed(CalculateBoard(game, n))}
<1>1. game.info \in GameInfos /\ game.moves \in Seq(MoveRecords) /\ Len(game.moves) \in Nat
  BY DEF Games
<1>2. ASSUME NEW n \in Nat, n <= Len(game.moves), NEW m \in MatchStates, NEW info \in GameInfos
      PROVE  Typed(FixForNext(game, n, [ms |-> m, info |-> info]))
  <2>1. CASE n < Len(game.moves)
    <3>1. game.moves[n + 1] \in MoveRecords
      BY <1>1, <1>2, <2>1
    <3> QED BY <2>1, <3>1, FixMatchStateTypes DEF FixForNext
  <2> QED BY <1>1, <2>1 DEF FixForNext
<1>3. 0 \in S
  <2>1. CalculateBoard(game, 0) = FixForNext(game, 0, [ms |-> StartState(game.info), info |-> game.info])
    BY CalculateBoardFirst DEF FirstState
  <2>2. Typed(CalculateBoard(game, 0))
    BY <1>1, <1>2, <2>1, StartStateTypes
  <2> QED BY <2>2
<1>4. ASSUME NEW n \in Nat, n \in S PROVE n + 1 \in S
  <2>1. SUFFICES ASSUME n + 1 <= Len(game.moves) PROVE Typed(CalculateBoard(game, n + 1))
    OBVIOUS
  <2>2. PICK m \in MatchStates, info \in GameInfos : CalculateBoard(game, n) = [ms |-> m, info |-> info]
    BY <1>1, <1>4, <2>1
  <2>3. game.moves[n + 1] \in MoveRecords
    BY <1>1, <2>1
  <2>4. PICK x \in MatchStates, y \in GameInfos :
          ApplyMoveRecord([ms |-> m, info |-> info], game.moves[n + 1]) = [ms |-> x, info |-> y]
    BY <2>3, ApplyMoveRecordTypes
  <2>5. CalculateBoard(game, n + 1) = FixForNext(game, n + 1, [ms |-> x, info |-> y])
    BY <2>2, <2>4, CalculateBoardThen DEF NextState
  <2> QED BY <1>2, <2>1, <2>5
<1> HIDE DEF S
<1>5. Nat \subseteq S
  BY <1>3, <1>4, AllNumbers
<1> QED BY <1>1, <1>5 DEF S

\* ApplyMoveRecord gives the same state whatever the MOVE_GAMEINFO says.
LEMMA InfoIsNotRead ==
  ASSUME NEW m \in MatchStates, NEW r \in MoveRecords, NEW info1, NEW info2
  PROVE  ApplyMoveRecord([ms |-> m, info |-> info1], r).ms
            = ApplyMoveRecord([ms |-> m, info |-> info2], r).ms
<1> DEFINE playing == [m EXCEPT !.gs = "GAME_PLAYING", !.fResigned = 0, !.fResignationDeclined = 0]
<1>1. \A x, gs, p, n : Ended(x, info1, gs, p, n).ms = Ended(x, info2, gs, p, n).ms
  BY DEF Ended
<1>2. ApplyDrop(playing, info1, r).ms = ApplyDrop(playing, info2, r).ms
  <2> HIDE DEF playing
  <2> QED BY <1>1 DEF ApplyDrop
<1>3. ApplyNormal(playing, info1, r).ms = ApplyNormal(playing, info2, r).ms
  <2> HIDE DEF playing
  <2> QED BY <1>1 DEF ApplyNormal
<1>4. ApplyResign(playing, info1, r).ms = ApplyResign(playing, info2, r).ms
  <2> HIDE DEF playing
  <2> QED BY <1>1 DEF ApplyResign
<1> DEFINE g1 == ApplyMoveRecord([ms |-> m, info |-> info1], r)
           g2 == ApplyMoveRecord([ms |-> m, info |-> info2], r)
<1>5. CASE r.mt = "MOVE_DROP"
  <2>1. g1 = ApplyDrop(playing, info1, r) /\ g2 = ApplyDrop(playing, info2, r)
    BY <1>5 DEF ApplyMoveRecord
  <2> HIDE DEF playing, g1, g2
  <2>2. g1.ms = g2.ms
    BY <1>2, <2>1
  <2> QED BY <2>2 DEF g1, g2
<1>6. CASE r.mt = "MOVE_NORMAL"
  <2>1. g1 = ApplyNormal(playing, info1, r) /\ g2 = ApplyNormal(playing, info2, r)
    BY <1>6 DEF ApplyMoveRecord
  <2> HIDE DEF playing, g1, g2
  <2>2. g1.ms = g2.ms
    BY <1>3, <2>1
  <2> QED BY <2>2 DEF g1, g2
<1>7. CASE r.mt = "MOVE_RESIGN"
  <2>1. g1 = ApplyResign(playing, info1, r) /\ g2 = ApplyResign(playing, info2, r)
    BY <1>7 DEF ApplyMoveRecord
  <2> HIDE DEF playing, g1, g2
  <2>2. g1.ms = g2.ms
    BY <1>4, <2>1
  <2> QED BY <2>2 DEF g1, g2
<1>8. CASE r.mt \in {"MOVE_DOUBLE", "MOVE_TAKE"} \cup Sets
  <2>1. \E x : g1 = [ms |-> x, info |-> info1] /\ g2 = [ms |-> x, info |-> info2]
    <3> HIDE DEF playing
    <3> QED BY <1>8 DEF ApplyMoveRecord, Sets, playing
  <2> HIDE DEF g1, g2
  <2>2. g1.ms = g2.ms
    BY <2>1
  <2> QED BY <2>2 DEF g1, g2
<1>9. r.mt \in {"MOVE_NORMAL", "MOVE_DOUBLE", "MOVE_TAKE", "MOVE_DROP", "MOVE_RESIGN"} \cup Sets
  BY DEF MoveRecords, Sets
<1> QED BY <1>5, <1>6, <1>7, <1>8, <1>9

-----------------------------------------------------------------------------
(* Who moves.                                                              *)

\* A state is repaired for a record once: it is then left alone.
LEMMA FixMatchStateOnce ==
  ASSUME NEW m \in MatchStates, NEW r
  PROVE  FixMatchState(FixMatchState(m, r), r) = FixMatchState(m, r)
<1>1. CASE FixMatchState(m, r) = m
  BY <1>1
<1>2. CASE FixMatchState(m, r) # m
  <2>1. FixMatchState(m, r).fTurn = r.fPlayer
    BY <1>2 DEF FixMatchState, MatchStates
  <2> HIDE <1>2
  <2> QED BY <2>1 DEF FixMatchState
<1> QED BY <1>1, <1>2

SomebodyMoves(m) == m.fMove = Nobody => m.fTurn = Nobody

\* Whoever has the turn, somebody moves: nobody on roll is a game not begun.
LEMMA ApplyMoveRecordMoves ==
  ASSUME NEW m \in MatchStates, NEW info \in GameInfos, NEW r \in MoveRecords, SomebodyMoves(m)
  PROVE  SomebodyMoves(ApplyMoveRecord([ms |-> m, info |-> info], r).ms)
<1> DEFINE playing == [m EXCEPT !.gs = "GAME_PLAYING", !.fResigned = 0, !.fResignationDeclined = 0]
<1>1. playing \in MatchStates /\ SomebodyMoves(playing)
  BY DEF MatchStates, SomebodyMoves
<1>2. Players = {0, 1} /\ Nobody = -1 /\ r.fPlayer \in Players
  BY DEF Players, Nobody, MoveRecords
<1>3. \A p : Opponent(p) \in Players
  BY DEF Opponent, Players
<1>4. ASSUME NEW x \in MatchStates, SomebodyMoves(x), NEW gs, NEW p, NEW n
      PROVE  SomebodyMoves(Ended(x, info, gs, p, n).ms)
  BY <1>4 DEF Ended, SomebodyMoves, MatchStates
<1> DEFINE g == ApplyMoveRecord([ms |-> m, info |-> info], r)
<1>5. CASE r.mt = "MOVE_DOUBLE"
  <2>1. g.ms = ApplyDouble(playing, r)
    BY <1>5 DEF ApplyMoveRecord
  <2> HIDE DEF playing, g
  <2>2. g.ms.fMove # Nobody
    BY <1>1, <1>2, <2>1 DEF ApplyDouble, MatchStates
  <2> QED BY <2>2 DEF SomebodyMoves, g
<1>6. CASE r.mt = "MOVE_TAKE"
  <2>1. g.ms = ApplyTake(playing)
    BY <1>6 DEF ApplyMoveRecord
  <2> HIDE DEF playing, g
  <2>2. SomebodyMoves(g.ms)
    BY <1>1, <1>2, <2>1 DEF ApplyTake, SomebodyMoves, MatchStates
  <2> QED BY <2>2 DEF g
<1>7. CASE r.mt = "MOVE_DROP"
  <2>1. g = ApplyDrop(playing, info, r)
    BY <1>7 DEF ApplyMoveRecord
  <2> HIDE DEF playing, g
  <2>2. [playing EXCEPT !.fDoubled = FALSE, !.cBeavers = 0] \in MatchStates
    BY <1>1 DEF MatchStates
  <2>3. SomebodyMoves([playing EXCEPT !.fDoubled = FALSE, !.cBeavers = 0])
    BY <1>1 DEF MatchStates, SomebodyMoves
  <2>4. SomebodyMoves(g.ms)
    BY <1>1, <1>4, <2>1, <2>2, <2>3 DEF ApplyDrop
  <2> QED BY <2>4 DEF g
<1>8. CASE r.mt = "MOVE_NORMAL"
  <2> DEFINE alone == [playing EXCEPT !.fDoubled = FALSE]
             played == [PlayMove(alone, r) EXCEPT !.anDice = 0]
  <2>1. played.fMove # Nobody /\ DOMAIN played = DOMAIN m
    <3>1. PICK b : PlayMove(alone, r) = [alone EXCEPT !.anBoard = b,
                      !.fMove = Opponent(r.fPlayer), !.fTurn = Opponent(r.fPlayer)]
      BY DEF PlayMove
    <3>2. alone \in MatchStates
      BY <1>1 DEF MatchStates
    <3> HIDE DEF alone
    <3>3. played = [alone EXCEPT !.anBoard = b, !.fMove = Opponent(r.fPlayer),
                                 !.fTurn = Opponent(r.fPlayer), !.anDice = 0]
      BY <3>1, <3>2 DEF MatchStates
    <3> HIDE DEF played
    <3>4. played.fMove = Opponent(r.fPlayer) /\ DOMAIN played = DOMAIN m
      BY <3>2, <3>3 DEF MatchStates
    <3>5. Opponent(r.fPlayer) # Nobody
      BY <1>2, <1>3
    <3> QED BY <3>4, <3>5
  <2>2. \A gs, p, n : Ended(played, info, gs, p, n).ms.fMove = played.fMove
    <3> HIDE DEF played
    <3> QED BY <2>1 DEF Ended, MatchStates
  <2>3. g = ApplyNormal(playing, info, r)
    BY <1>8 DEF ApplyMoveRecord
  <2> HIDE DEF g, playing
  <2>4. g.ms.fMove = played.fMove
    <3> HIDE DEF played
    <3>1. \/ g = [ms |-> played, info |-> info]
          \/ \E gs, p, n : g = Ended(played, info, gs, p, n)
      <4> USE DEF played, alone
      <4> QED BY <2>3 DEF ApplyNormal
    <3> QED BY <2>2, <3>1
  <2> HIDE DEF played
  <2> QED BY <2>1, <2>4 DEF SomebodyMoves, g
<1>9. CASE r.mt = "MOVE_RESIGN"
  <2>1. g = ApplyResign(playing, info, r)
    BY <1>9 DEF ApplyMoveRecord
  <2> HIDE DEF playing, g
  <2> DEFINE x == [playing EXCEPT !.fResigned = r.nResigned]
  <2>2. x.fMove = playing.fMove /\ x.fTurn = playing.fTurn /\ DOMAIN x = DOMAIN m
    BY <1>1 DEF MatchStates
  <2>3. \A gs, p, n : SomebodyMoves(Ended(x, info, gs, p, n).ms)
    <3> HIDE DEF x
    <3> QED BY <1>1, <2>2 DEF Ended, MatchStates, SomebodyMoves
  <2> QED BY <2>1, <2>3 DEF ApplyResign, g
<1>10. CASE r.mt \in Sets
  <2>1. \E value, owner : g.ms \in {ApplySetBoard(playing, r), ApplySetDice(playing, r),
                                      ApplySetCube(playing, value, owner)}
    <3> HIDE DEF playing
    <3> QED BY <1>10 DEF Sets, ApplyMoveRecord, playing
  <2> HIDE DEF playing, g
  <2>2. ApplySetBoard(playing, r).fMove # Nobody
    BY <1>1, <1>2 DEF ApplySetBoard, MatchStates
  <2>3. ApplySetDice(playing, r).fMove # Nobody
    BY <1>1, <1>2 DEF ApplySetDice, MatchStates
  <2>4. \A value, owner : ApplySetCube(playing, value, owner).fMove # Nobody
    BY <1>1, <1>2 DEF ApplySetCube, MatchStates
  <2> QED BY <2>1, <2>2, <2>3, <2>4 DEF SomebodyMoves, g
<1> QED BY <1>5, <1>6, <1>7, <1>8, <1>9, <1>10 DEF MoveRecords, Sets

\* Repairing keeps this,
LEMMA FixMatchStateMoves ==
  ASSUME NEW m \in MatchStates, NEW r \in MoveRecords, SomebodyMoves(m)
  PROVE  SomebodyMoves(FixMatchState(m, r))
<1>1. r.fPlayer # Nobody
  BY DEF MoveRecords, Players, Nobody
<1> QED BY <1>1 DEF FixMatchState, MatchStates, SomebodyMoves

\* and it is so in every replay.
LEMMA CalculateBoardMoves ==
  ASSUME NEW game \in Games, NEW k \in 0..Len(game.moves)
  PROVE  SomebodyMoves(CalculateBoard(game, k).ms)
<1> DEFINE S == {n \in Nat : n <= Len(game.moves) => SomebodyMoves(CalculateBoard(game, n).ms)}
<1>1. game.info \in GameInfos /\ game.moves \in Seq(MoveRecords) /\ Len(game.moves) \in Nat
  BY DEF Games
<1>2. ASSUME NEW n \in Nat, n <= Len(game.moves), NEW m \in MatchStates, NEW info, SomebodyMoves(m)
      PROVE  SomebodyMoves(FixForNext(game, n, [ms |-> m, info |-> info]).ms)
  <2>1. CASE n < Len(game.moves)
    <3>1. game.moves[n + 1] \in MoveRecords
      BY <1>1, <1>2, <2>1
    <3> QED BY <1>2, <2>1, <3>1, FixMatchStateMoves DEF FixForNext
  <2> QED BY <1>1, <1>2, <2>1 DEF FixForNext
<1>3. 0 \in S
  <2>1. CalculateBoard(game, 0) = FixForNext(game, 0, [ms |-> StartState(game.info), info |-> game.info])
    BY CalculateBoardFirst DEF FirstState
  <2>2. StartState(game.info) \in MatchStates /\ SomebodyMoves(StartState(game.info))
    BY <1>1, StartStateTypes DEF StartState, SomebodyMoves
  <2> QED BY <1>1, <1>2, <2>1, <2>2
<1>4. ASSUME NEW n \in Nat, n \in S PROVE n + 1 \in S
  <2>1. SUFFICES ASSUME n + 1 <= Len(game.moves) PROVE SomebodyMoves(CalculateBoard(game, n + 1).ms)
    OBVIOUS
  <2>2. PICK m \in MatchStates, info \in GameInfos : CalculateBoard(game, n) = [ms |-> m, info |-> info]
    BY <1>1, <2>1, CalculateBoardTypes
  <2>3. game.moves[n + 1] \in MoveRecords /\ SomebodyMoves(m)
    BY <1>1, <1>4, <2>1, <2>2
  <2> DEFINE h == ApplyMoveRecord([ms |-> m, info |-> info], game.moves[n + 1])
  <2>4. h \in [ms : MatchStates, info : GameInfos] /\ SomebodyMoves(h.ms)
    BY <2>3, ApplyMoveRecordTypes, ApplyMoveRecordMoves
  <2>5. CalculateBoard(game, n + 1) = FixForNext(game, n + 1, [ms |-> h.ms, info |-> h.info])
    BY <2>2, <2>4, CalculateBoardThen DEF NextState
  <2> HIDE DEF h
  <2> QED BY <1>2, <2>1, <2>4, <2>5
<1> HIDE DEF S
<1>5. Nat \subseteq S
  BY <1>3, <1>4, AllNumbers
<1> QED BY <1>1, <1>5 DEF S
=============================================================================
