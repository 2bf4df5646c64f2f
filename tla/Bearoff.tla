------------------------------ MODULE Bearoff ------------------------------
(***************************************************************************)
(* Plays in bearoff positions: what the generators of the databases do     *)
(* with GenerateMoves (makebearoff.c) and HeuristicBearoff (bearoff.c).    *)
(* A bearoff position is one player's side of a board with all chequers on *)
(* the points of the home board, 0 to nHome - 1.                           *)
(***************************************************************************)
EXTENDS MoveGen, PositionID

Home == 0..(nHome - 1)
Chequers(anBoard) == MapThenSumSet(LAMBDA i : anBoard[i], Home)

\* The positions BearOff and BearOff2 look up after a roll.
BearoffPlays(anBoard, n0, n1) ==
    LET ml == GenerateMoves(anBoard, n0, n1, FALSE)
    IN {ml[m].key[1] : m \in DOMAIN ml}

-----------------------------------------------------------------------------

\* The point to play the first of the dice from, with the others to follow.
\* Points are searched upwards, and the first of the best is taken.
HeuristicPoint(anBoard, dice) ==
    LET die == Head(dice)
        nMax == Max({i \in Home : anBoard[i] > 0})
        total(j) == FoldLeft(+, -1, SubSeq(dice, 1, j))    \* where j dice bear off from
        bearoff == {j \in 2..Len(dice) : total(j) < nHome /\ anBoard[total(j)] > 0}
        from == die..nMax
        spread == {i \in from : anBoard[i] >= 2 /\ anBoard[i - die] = 0}
        highest(S) == {i \in S : \A k \in S : anBoard[k] <= anBoard[i]}
        lowest(S) == {i \in S : \A k \in S : anBoard[i - die] <= anBoard[k - die]}
    IN IF anBoard[die - 1] > 0 THEN die - 1
       ELSE IF die - 1 > nMax THEN nMax
       ELSE IF bearoff # {} THEN total(Min(bearoff))
       ELSE IF spread # {} THEN Min(highest(spread))
       ELSE Min(lowest(highest(from)))

\* n0 >= n1, as HeuristicBearoff asserts.
HeuristicBearoff(anBoard, n0, n1) ==
    LET play(at, die) ==
            IF Chequers(at.board) = 0 THEN at
            ELSE LET n == HeuristicPoint(at.board, at.dice)
                     off == [at.board EXCEPT ![n] = @ - 1]
                 IN [board |-> IF n >= die THEN [off EXCEPT ![n - die] = @ + 1] ELSE off,
                     dice |-> Tail(at.dice)]
        dice == IF n0 = n1 THEN <<n0, n0, n0, n0>> ELSE <<n0, n1>>
    IN FoldLeft(play, [board |-> anBoard, dice |-> dice], dice).board
=============================================================================
