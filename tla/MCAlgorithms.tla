---------------------------- MODULE MCAlgorithms ----------------------------
EXTENDS Algorithms

\* Functions from a finite set of places, with up to n chequers in all.
Placed(S, n) ==
    LET sum(f) == MapThenSumSet(LAMBDA i : f[i], S)
        add(fs, i) == UNION {{[f EXCEPT ![i] = k] : k \in 0..(n - sum(f))} : f \in fs}
    IN FoldLeft(add, {[i \in S |-> 0]}, SetToSeq(S))

\* Three chequers against at most a blot and a made point.
MCRolls ==
    LET met(a, b) == \E i \in 0..(nBar - 1) : a[i] > 0 /\ b[Opposite(i)] > 0
        held(b, k) == Cardinality({i \in Points : b[i] = k})
        them == {b \in [Points -> 0..2] : b[nBar] = 0 /\ held(b, 1) <= 1 /\ held(b, 2) <= 1}
        us == {a \in Placed(Points, 3) : MapThenSumSet(LAMBDA i : a[i], Points) = 3}
    IN {0 :> p[1] @@ 1 :> p[2] : p \in {q \in them \X us : ~ met(q[2], q[1])}}

\* Stacks of chequers: both bars full, boards closed, points held by both.
MCPositions ==
    LET side(f) == [i \in 0..Bar |-> IF i \in DOMAIN f THEN f[i] ELSE 0]
        sides == {side(f) : f \in
                     { << >>, (24 :> 15), (0 :> 15), (0 :> 16), (23 :> 8 @@ 24 :> 7), (0 :> 1 @@ 12 :> 13 @@ 24 :> 1),
                       [i \in 0..5 |-> 2], [i \in 0..5 |-> 2] @@ (24 :> 3), [i \in 0..5 |-> 2] @@ (24 :> 1 @@ 18 :> 2),
                       [i \in 0..24 |-> IF i < 15 THEN 1 ELSE 0], [i \in 0..24 |-> IF i >= 10 THEN 1 ELSE 0],
                       (5 :> 5 @@ 7 :> 3 @@ 12 :> 5 @@ 23 :> 2), (3 :> 9 @@ 11 :> 6), (18 :> 30),
                       (6 :> 4 @@ 13 :> 11), (22 :> 1 @@ 23 :> 14) }}
    IN {(0 :> a @@ 1 :> b) : a, b \in sides}

MCEndings ==
    {0 :> [i \in Points |-> 0] @@ 1 :> [i \in Points |-> IF i < nHome THEN a[i] ELSE 0] : a \in Placed(0..(nHome - 1), 6)}

MCMatches ==
    LET scores == {[nMatchTo |-> m, anScore |-> s] :
                       <<m, s>> \in {<<0, <<0, 0>>>>, <<0, <<70, 9>>>>, <<2, <<1, 0>>>>, <<2, <<4, 1>>>>,
                                    <<64, <<5, 63>>>>, <<64, <<64, 3>>>>, <<64, <<63, 66>>>>}}
        others == [nCube : {1, 32, 4096}, fCubeOwner : {-1, 0, 1}, fMove : 0..1, fCrawford : 0..1,
                   gs : {1, 4}, fTurn : 0..1, fDoubled : {1}, fResigned : {0, 3},
                   anDice : {<<0, 0>>, <<6, 1>>, <<2, 5>>}, fJacoby : 0..1]
    IN {ms \in {o @@ s : o \in others, s \in scores} :
           ms.fCrawford = 1 => ms.nMatchTo > 0 /\ \E i \in 1..2 : ms.anScore[i] = ms.nMatchTo - 1}

\* Requests of a match and of money games, with and without the cube.
Contexts(cubeful) ==
    [fCubeful : cubeful, fUsePrune : 0..1, nPlies : {0, 2}, fCubefulEquity : 0..1, fMove : 0..1,
     fCubeOwner : {-1, 0, 1}]
MatchRequests(cubeful) ==
    {a @@ b : a \in Contexts(cubeful), b \in
        {m \in [nMatchTo : {1, 2, 64}, anScore : {<<0, 0>>, <<1, 0>>, <<0, 63>>}, nCube : {1, 16, 4096},
                fCrawford : 0..1, fJacoby : {0}, fBeavers : {0}] : \A i \in 1..2 : m.anScore[i] < m.nMatchTo}}
MoneyRequests(cubeful) ==
    {a @@ b : a \in Contexts(cubeful), b \in
        [nMatchTo : {0}, anScore : {<<0, 0>>}, nCube : {1, 2}, fCrawford : {0}, fJacoby : 0..1, fBeavers : {0, 3}]}

MCSessions == {MatchRequests(0..1), MoneyRequests({1})}
MCMixedSessions == {MatchRequests({1}) \cup MoneyRequests({1})}

\* Each permutation drawn in one of two ways, with two-sided dice.
MCDraws == [{<<i, t>> \in Generations \X Turns : i <= t} -> {<<1, 2, 0>>, <<3, 0, 1>>}]
Nothing == {}
=============================================================================
