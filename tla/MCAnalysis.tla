----------------------------- MODULE MCAnalysis -----------------------------
\* Analysis on small matches: what Match can reach, and what a file can hold, with
\* a record missing or a position set at first.
EXTENDS Analysis

Info(i, n, s) == [i |-> i, nMatch |-> n, anScore |-> [p \in Players |-> IF p = 0 THEN s ELSE 0],
                  fCrawfordGame |-> n # 0 /\ s = n - 1, fWinner |-> Nobody, nPoints |-> 0,
                  nAutoDoubles |-> 0]
Game(info, moves) == [info |-> info, moves |-> moves]

OneAhead == [s \in Players |-> IF s = 0 THEN 1 ELSE Chequers]

\* A double that is taken; one that is beavered, and the beaver taken; one that
\* is dropped, in a position that was set, and the next game, whose dice were
\* rolled; one without an answer, after two moves of one player (the record
\* between them is missing), who cannot move the second time; one that is
\* beavered, and no more.
DoubleTaken == <<Game(Info(0, 0, 0), <<Normal(0, 1), Cube("MOVE_DOUBLE", 1), Cube("MOVE_TAKE", 0)>>)>>
DoubleBeavered == <<Game(Info(0, 0, 0), <<Normal(1, 1), Cube("MOVE_DOUBLE", 0),
                                          Cube("MOVE_DOUBLE", 1), Cube("MOVE_TAKE", 0)>>)>>
DoubleDropped == <<Game(Info(0, 3, 0), <<BoardSet(0, OneAhead), Cube("MOVE_DOUBLE", 0), Cube("MOVE_DROP", 1)>>),
                   Game(Info(1, 3, 1), <<DiceSet(1, 1)>>)>>
DoubleOpen == <<Game(Info(0, 0, 0), <<Normal(0, 1), Normal(0, 0), Cube("MOVE_DOUBLE", 1)>>)>>
DoubleBeaverOpen == <<Game(Info(0, 0, 0), <<Normal(1, 1), Cube("MOVE_DOUBLE", 0), Cube("MOVE_DOUBLE", 1)>>)>>

MCPlayersAsked == {Players, {0}}

SmallMatches == {DoubleTaken, DoubleBeavered, DoubleDropped, DoubleOpen, DoubleBeaverOpen}

\* The theorems of AnalysisProofs about what an analysis has found assume this.
ASSUME SmallMatchesAreProper == MatchesAreProper
=============================================================================
