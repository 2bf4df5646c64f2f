------------------------------ MODULE MoveGen ------------------------------
(***************************************************************************)
(* The legal moves of a roll: eval.c, GenerateMoves and what it calls.     *)
(*                                                                         *)
(* The code tries the dice in either order, chequer by chequer from the    *)
(* back, and keeps what plays the most dice and pips.  The board has nBar  *)
(* points, the last nHome of a player being the home board (24 and 6 in    *)
(* the code); points are numbered as the player sees them, from 0, and a   *)
(* chequer on the bar is on point nBar.  A die has nHome faces.            *)
(***************************************************************************)
EXTENDS Integers, Sequences, FiniteSetsExt, SequencesExt

CONSTANTS nBar, nHome

ASSUME BoardAssumption == {nBar, nHome} \subseteq Nat \ {0} /\ nHome <= nBar

Points == 0..nBar
Opposite(i) == nBar - 1 - i    \* the same point, seen by the other player

\* One chequer by nRoll pips, a blot on the way of it sent to the bar.  A
\* destination below 0 is borne off.
ApplySubMove(anBoard, iSrc, nRoll) ==
    LET iDest == iSrc - nRoll
        left == [anBoard EXCEPT ![1][iSrc] = @ - 1]
        there == [left EXCEPT ![1][iDest] = @ + 1]
    IN IF iDest < 0 THEN left
       ELSE IF anBoard[0][Opposite(iDest)] = 0 THEN there
       ELSE [there EXCEPT ![0][Opposite(iDest)] = 0, ![0][nBar] = @ + 1]

IsSubMove(anBoard, iSrc, nRoll) ==
    /\ nRoll \in 1..nHome
    /\ anBoard[1][iSrc] > 0
    /\ iSrc - nRoll >= 0 => anBoard[0][Opposite(iSrc - nRoll)] < 2

\* ApplyMove with fCheckLegal; {} when a part of the move is refused.
ApplyMove(anBoard, anMove) ==
    FoldLeft(LAMBDA boards, part :
                 {ApplySubMove(b, part[1], part[1] - part[2]) :
                     b \in {c \in boards : IsSubMove(c, part[1], part[1] - part[2])}},
             {anBoard}, anMove)

\* Bearing off: everything is home, and the chequer is the last one, or
\* exactly that far.
MutBearsOffAny(anBoard, iSrc, nPips) ==
    IF iSrc >= nPips THEN anBoard[0][Opposite(iSrc - nPips)] < 2
    ELSE \A i \in nHome..nBar : anBoard[1][i] = 0
LegalMove(anBoard, iSrc, nPips) ==
    IF iSrc >= nPips THEN anBoard[0][Opposite(iSrc - nPips)] < 2
    ELSE LET nBack == Max({0} \cup {i \in Points : anBoard[1][i] > 0})
         IN nBack < nHome /\ (iSrc = nBack \/ iSrc - nPips = -1)

-----------------------------------------------------------------------------
(* The search.  What GenerateMovesSub does is save moves, in an order, and *)
(* tell its caller whether to save the shorter one it has come by.         *)

NoMoves == [amMoves |-> <<>>, cMaxMoves |-> 0, cMaxPips |-> 0]

\* A move is kept when nothing found so far plays more dice or pips, and once
\* for each position: as the first, or the longest, way to it.
SaveMoves(pml, m, fPartial) ==
    LET more == m.cMoves > pml.cMaxMoves \/ m.cPips > pml.cMaxPips
        kept == IF more /\ ~fPartial THEN <<>> ELSE pml.amMoves
        same == {i \in DOMAIN kept : kept[i].key = m.key}
    IN IF ~fPartial /\ (m.cMoves < pml.cMaxMoves \/ m.cPips < pml.cMaxPips) THEN pml
       ELSE [cMaxMoves |-> Max({m.cMoves, pml.cMaxMoves}), cMaxPips |-> Max({m.cPips, pml.cMaxPips}),
             amMoves |-> IF same = {} THEN Append(kept, m)
                         ELSE [i \in DOMAIN kept |->
                                 IF i \in same /\ (m.cMoves > kept[i].cMoves \/ m.cPips > kept[i].cPips)
                                 THEN m ELSE kept[i]]]

\* What is still to be played: the rest of the dice, and no chequer behind iPip
\* (with a double, in the order of the points).
RECURSIVE GenerateMovesSub(_, _, _, _, _, _)
GenerateMovesSub(anBoard, anRoll, iPip, cPip, anMoves, fPartial) ==
    LET die == Head(anRoll)
        double == Len(anRoll) + Len(anMoves) = 4
        onBar == anBoard[1][nBar] > 0
        from(i) ==
            LET anBoardNew == ApplySubMove(anBoard, i, die)
                moves == Append(anMoves, <<i, Max({-1, i - die})>>)
                sub == GenerateMovesSub(anBoardNew, Tail(anRoll),
                           IF double /\ ~onBar THEN i ELSE nBar - 1, cPip + die, moves, fPartial)
                this == [cMoves |-> Len(moves), cPips |-> cPip + die, anMove |-> moves, key |-> anBoardNew]
            IN IF sub.complete THEN Append(sub.saved, this) ELSE sub.saved
        used == IF onBar THEN SelectSeq(<<nBar>>, LAMBDA i : anBoard[0][die - 1] < 2)
                ELSE SelectSeq([n \in 1..(iPip + 1) |-> iPip + 1 - n],
                               LAMBDA i : anBoard[1][i] > 0 /\ LegalMove(anBoard, i, die))
    IN IF anRoll = <<>> THEN [saved |-> <<>>, complete |-> TRUE]
       ELSE [saved |-> FlattenSeq([n \in DOMAIN used |-> from(used[n])]),
             complete |-> used = <<>> \/ fPartial]

\* Either die first.
GenerateMoves(anBoard, n0, n1, fPartial) ==
    LET orders == IF n0 = n1 THEN <<<<n0, n0, n0, n0>>>> ELSE <<<<n0, n1>>, <<n1, n0>>>>
        saved == FlattenSeq([o \in DOMAIN orders |->
                     GenerateMovesSub(anBoard, orders[o], nBar - 1, 0, <<>>, fPartial).saved])
    IN FoldLeft(LAMBDA pml, m : SaveMoves(pml, m, fPartial), NoMoves, saved).amMoves

-----------------------------------------------------------------------------
(* The rules of the game, without an order or a search.                    *)

\* The positions after one chequer has been moved by a die.
Steps(b, die) ==
    LET men == {i \in Points : b[1][i] > 0}
        back == IF men = {} THEN 0 ELSE Max(men)
        may == {i \in men : /\ nBar \in men => i = nBar
                            /\ \/ i >= die /\ b[0][Opposite(i - die)] < 2
                               \/ i < die /\ back < nHome /\ (i = die - 1 \/ i = back)}
    IN {ApplySubMove(b, i, die) : i \in may}

Plays(b, dice) == FoldLeft(LAMBDA boards, die : UNION {Steps(c, die) : c \in boards}, {b}, dice)

\* As many dice as can be played; of two, if only one can, the higher.
LegalPlays(b, n0, n1) ==
    LET dice(k) == [i \in 1..k |-> n0]
        both == Plays(b, <<n0, n1>>) \cup Plays(b, <<n1, n0>>)
        high == Plays(b, <<Max({n0, n1})>>)
    IN IF n0 = n1 THEN Plays(b, dice(Max({k \in 0..4 : Plays(b, dice(k)) # {}}))) \ {b}
       ELSE IF both # {} THEN both
       ELSE IF high # {} THEN high ELSE Plays(b, <<Min({n0, n1})>>)

\* The positions on the way, in any order of the dice.
PartialPlays(b, n0, n1) ==
    IF n0 = n1 THEN UNION {Plays(b, [i \in 1..k |-> n0]) : k \in 1..4}
    ELSE UNION {Plays(b, dice) : dice \in {<<n0>>, <<n1>>, <<n0, n1>>, <<n1, n0>>}}
=============================================================================
