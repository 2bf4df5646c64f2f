------------------------------ MODULE EvalKey ------------------------------
(***************************************************************************)
(* Under which key an evaluation is kept in the cache: eval.c, EvalKey,    *)
(* and what an evaluation depends on besides the board.                    *)
(*                                                                         *)
(* A request x joins the evaluation context (fCubeful, fUsePrune), the     *)
(* plies, the cubeinfo and fCubefulEquity, by their names in the code.     *)
(* Keys are the sets of their bits.                                        *)
(***************************************************************************)
EXTENDS MatchID

Shifted(n, k) == {i + k : i \in {j \in 0..30 : (n \div (2^j)) % 2 = 1}}

Away(x, p) == x.nMatchTo - x.anScore[p + 1] - 1
OwnedBy(x) == IF x.fCubeOwner < 0 THEN 2 ELSE IF x.fCubeOwner = x.fMove THEN 1 ELSE 0

\* The fields of a match overlap if the cube is moved up a bit.
MutCubeOverlaps(x) ==
    << Shifted(Away(x, x.fMove), 7), Shifted(Away(x, 1 - x.fMove), 13),
       Shifted(LogCube(x.nCube), 20), Shifted(OwnedBy(x), 23), Shifted(x.fCrawford, 25) >>
InMatch(x) ==
    << Shifted(Away(x, x.fMove), 7), Shifted(Away(x, 1 - x.fMove), 13),
       Shifted(LogCube(x.nCube), 19), Shifted(OwnedBy(x), 23), Shifted(x.fCrawford, 25) >>
ForMoney(x) == << Shifted(OwnedBy(x), 23), Shifted(x.fJacoby, 26), Shifted(x.fBeavers, 27) >>

EvalKey(x) ==
    LET cubeless == << Shifted(x.nPlies, 0), Shifted(x.fCubeful, 4), Shifted(x.fMove, 5),
                       IF x.nPlies > 0 THEN Shifted(x.fUsePrune, 6) ELSE {} >>
        score == IF x.nPlies = 0 /\ x.fCubefulEquity = 0 THEN << >>
                 ELSE IF x.nMatchTo > 0 THEN InMatch(x)
                 ELSE IF x.fCubeful = 1 \/ x.fCubefulEquity = 1 THEN ForMoney(x) ELSE << >>
        constant == IF x.fCubefulEquity = 1 THEN << Shifted(1783084158, 0) >> ELSE << >>
    IN FoldLeft(SymDiff, {}, cubeless \o score \o constant)

-----------------------------------------------------------------------------
(* What the numbers depend on.                                             *)

\* SetCubeInfo: what gammons are worth.  With Jacoby's rule nothing, as long as
\* the cube is in the middle; in a match it is a matter of the score.
GammonPrices(x) ==
    IF x.nMatchTo = 0 THEN [money |-> TRUE, count |-> ~ (x.fJacoby = 1 /\ x.fCubeOwner = -1)]
    ELSE [money |-> FALSE, us |-> Away(x, x.fMove), them |-> Away(x, 1 - x.fMove), nCube |-> x.nCube,
          fCrawford |-> x.fCrawford]

\* What the cube can still do in a cubeful evaluation.
CubeRules(x) ==
    [owner |-> OwnedBy(x), fJacoby |-> x.fJacoby, beavers |-> x.fBeavers > 0]

\* At 0 plies without a cube, nothing but the board; deeper, moves are chosen by
\* the prices of gammons, and with the cube in mind if fCubeful.
DependsOn(x) ==
    [nPlies |-> x.nPlies,
     fUsePrune |-> IF x.nPlies > 0 THEN x.fUsePrune ELSE 0,
     prices |-> IF x.nPlies > 0 \/ x.fCubefulEquity = 1 THEN {GammonPrices(x)} ELSE {},
     cube |-> IF x.fCubefulEquity = 1 \/ (x.nPlies > 0 /\ x.fCubeful = 1) THEN {CubeRules(x)} ELSE {},
     fCubefulEquity |-> x.fCubefulEquity]
=============================================================================
