----------------------------- MODULE Algorithms -----------------------------
(***************************************************************************)
(* Functions without a state of their own, tried on one input at a time:   *)
(* legal moves, identifiers, the numbers of bearoff positions, the keys of *)
(* evaluations and quasi-random dice.  Each property compares a function   *)
(* with a definition that does not follow its code.                        *)
(***************************************************************************)
EXTENDS MoveGen, Bearoff, EvalKey, QuasiDice

CONSTANTS Rolls,        \* boards of MoveGen
          Positions,    \* boards of 25 points
          Endings,      \* boards of MoveGen, one player at home and the other gone
          Matches,      \* match states
          Sessions,     \* sets of evaluations that meet in one cache
          Draws,        \* what the permutations of a rollout are drawn with
          Trials        \* numbers of games of a one sided rollout

Dice == 1..nHome
None == [kind |-> "none"]

VARIABLE case           \* what is being tried

Board == \E b \in Rolls : case' = [kind |-> "board", board |-> b]
Roll == \E n0, n1 \in Dice : case' = [kind |-> "roll", board |-> case.board, n0 |-> n0, n1 |-> n1]
Position == \E b \in Positions : case' = [kind |-> "position", board |-> b]
Ending == \E b \in Endings : case' = [kind |-> "ending", board |-> b]
MatchState == \E ms \in Matches : case' = [kind |-> "match", ms |-> ms]
Session == \E xs \in Sessions : case' = [kind |-> "session", requests |-> xs]

Rollout == \E draws \in Draws : case' = [kind |-> "rollout", draws |-> draws]
OneSided == \E n \in Trials : case' = [kind |-> "osr", cGames |-> n]

Init == case = None
Next ==
    \/ case = None /\ (Board \/ Position \/ Ending \/ MatchState \/ Session
                      \/ Rollout \/ OneSided)
    \/ case.kind = "board" /\ Roll
    \/ case # None /\ case' = None
Spec == Init /\ [][Next]_case

-----------------------------------------------------------------------------

\* GenerateMoves finds the positions the rules allow, each once and with a move
\* that leads there; and with fPartial every position on the way.
MovesAreLegal ==
    case.kind = "roll" =>
        LET ml == GenerateMoves(case.board, case.n0, case.n1, FALSE)
            partial == GenerateMoves(case.board, case.n0, case.n1, TRUE)
            keys(moves) == {moves[i].key : i \in DOMAIN moves}
        IN /\ keys(ml) = LegalPlays(case.board, case.n0, case.n1)
           /\ Len(ml) = Cardinality(keys(ml))
           /\ \A i \in DOMAIN ml : ApplyMove(case.board, ml[i].anMove) = {ml[i].key}
           /\ keys(partial) = PartialPlays(case.board, case.n0, case.n1)

\* Bearoff positions are numbered without gaps or doubles, the same for every
\* number of chequers a database is for, and every play, GenerateMoves' or the
\* heuristic one, leads to a lower number: databases are filled in that order.
PositionsAreNumbered ==
    case.kind = "ending" =>
        LET us == case.board[1]
            n == Chequers(us)
            id == PositionBearoff(us, nHome, n)
        IN /\ id < Combination(n + nHome, nHome)
           /\ n > 0 => id >= Combination(n - 1 + nHome, nHome)
           /\ PositionFromBearoff(id, nHome, n) = Restrict(us, Home)
           /\ PositionBearoff(us, nHome, n + 1) = id
           /\ n > 0 => \A n0 \in Dice : \A n1 \in 1..n0 :
                  /\ PositionBearoff(HeuristicBearoff(us, n0, n1), nHome, n) < id
                  /\ LET plays == BearoffPlays(case.board, n0, n1)
                     IN plays # {} /\ \A b \in plays : PositionBearoff(b, nHome, n) < id

\* A board that can be played comes back from its identifier and from its key,
\* also seen from the other side; ClosestLegalPosition makes one of any board and
\* leaves it alone if it is one.
PositionIsRead ==
    case.kind = "position" =>
        /\ CheckPosition(case.board) =>
               /\ PositionFromID(PositionID(case.board)) = [board |-> case.board, legal |-> TRUE]
               /\ PositionFromKey(PositionKey(case.board)) = case.board
               /\ PositionFromKeySwapped(PositionKey(case.board)) = SwapBoard(case.board)
               /\ ClosestLegalPosition(case.board) = case.board
        /\ CheckPosition(ClosestLegalPosition(case.board))

\* A match state comes back from its identifier, with the higher die first.  A
\* match that is over is refused if its winner has more points than needed.
MatchIsRead ==
    case.kind = "match" =>
        LET ms == case.ms
            read == MatchFromID(MatchID(ms))
        IN /\ read.ms = [ms EXCEPT !.anDice = SortSeq(@, >)]
           /\ read.ok <=> (ms.nMatchTo > 0 => \A i \in 1..2 : ms.anScore[i] <= ms.nMatchTo)

\* What is written into an identifier is what is read from it.
IdentifiersAreRead == PositionIsRead /\ MatchIsRead

\* Evaluations that share a key depend on the same.
KeysTellApart ==
    case.kind = "session" =>
        LET kept == {<<EvalKey(x), DependsOn(x)>> : x \in case.requests}
        IN Cardinality(kept) = Cardinality({k[1] : k \in kept})

\* Rolls are rotated and stratified (the manual, gnubg.texi 2446-2505): of any
\* nNumbers^m games that follow a multiple of it the first m rolls are all there
\* are, each once; of nNumbers such games each turn's are.  As an initial
\* position the game is that of the next sequence that begins without a double.
DiceAreBalanced ==
    /\ case.kind = "rollout" =>
        LET dicePerms == QuasiRandomSeed(case.draws)
            game(n) == RolloutDice(dicePerms, n, FALSE)
            games(k, m) == (k * nNumbers ^ m)..((k + 1) * nNumbers ^ m - 1)
        IN /\ \A m \in 1..nGenerations : \A k \in 0..1 :
                Cardinality({SubSeq(game(n), 1, m) : n \in games(k, m)}) = nNumbers ^ m
           /\ \A k \in Numbers : \A t \in 1..QRLEN :
                {game(n)[t] : n \in games(k, 1)} = {Faces(j) : j \in Numbers}
           /\ \A n \in Numbers :
                LET begins == {s \in n..(n + nNumbers) : ~IsDouble(game(s)[1])}
                IN RolloutDice(dicePerms, n, TRUE) = game(Min(begins))
    /\ case.kind = "osr" =>
        LET roll(t, n) == OSRQuasiRandomDice(t, n, case.cGames)
            games == 0..(case.cGames - 1)
            first(m, n) == [t \in 1..m |-> roll(t - 1, n)]
        IN \A m \in 1..2 : case.cGames % (nNumbers ^ m) = 0 =>
             /\ {first(m, n) : n \in games} = [1..m -> {Faces(j) : j \in Numbers}]
             /\ \A n \in games :
                  Cardinality({k \in games : first(m, k) = first(m, n)}) = case.cGames \div nNumbers ^ m
=============================================================================
