------------------------------ MODULE MatchID ------------------------------
(***************************************************************************)
(* The state of a match as text: matchid.c.  A key has 72 bits, of which   *)
(* the fields below take 67.  The record ms has the names of matchstate.   *)
(***************************************************************************)
EXTENDS PositionID

MAXSCORE == 64
KeyBits == 0..71

LogCube(n) == CHOOSE i \in 0..30 : 2^i <= n /\ n < 2^(i + 1)

\* The low nBits of a content, negative or not, from bit bitPos on.
SetBits(auchKey, bitPos, nBits, iContent) ==
    [b \in KeyBits |-> IF b \in bitPos..(bitPos + nBits - 1)
                       THEN (iContent \div (2^(b - bitPos))) % 2 ELSE auchKey[b]]

GetBits(auchKey, bitPos, nBits) == MapThenSumSet(LAMBDA i : auchKey[bitPos + i] * (2^i), 0..(nBits - 1))

\* Where MatchID puts what: position, width, content.
MutShortScore == 6
ScoreBits == 15
Fields(ms) ==
    LET dice == SortSeq(ms.anDice, >)
    IN << <<0, 4, LogCube(ms.nCube)>>, <<4, 2, ms.fCubeOwner>>, <<6, 1, ms.fMove>>,
          <<7, 1, ms.fCrawford>>, <<8, 3, ms.gs>>, <<11, 1, ms.fTurn>>, <<12, 1, ms.fDoubled>>,
          <<13, 2, ms.fResigned>>, <<15, 3, dice[1]>>, <<18, 3, dice[2]>>,
          <<21, 15, ms.nMatchTo>>, <<36, ScoreBits, ms.anScore[1]>>, <<51, ScoreBits, ms.anScore[2]>>,
          <<66, 1, 1 - ms.fJacoby>> >>

MatchID(ms) ==
    LET key == FoldLeft(LAMBDA k, f : SetBits(k, f[1], f[2], f[3]), [b \in KeyBits |-> 0], Fields(ms))
    IN Digits([i \in 0..8 |-> GetBits(key, 8 * i, 8)], 12)

MatchFromKey(key) ==
    LET owner == GetBits(key, 4, 2)
    IN [nCube |-> 2^GetBits(key, 0, 4), fCubeOwner |-> IF owner > 1 THEN -1 ELSE owner,
        fMove |-> GetBits(key, 6, 1), fCrawford |-> GetBits(key, 7, 1), gs |-> GetBits(key, 8, 3),
        fTurn |-> GetBits(key, 11, 1), fDoubled |-> GetBits(key, 12, 1),
        fResigned |-> GetBits(key, 13, 2), anDice |-> <<GetBits(key, 15, 3), GetBits(key, 18, 3)>>,
        nMatchTo |-> GetBits(key, 21, 15),
        anScore |-> <<GetBits(key, 36, 15), GetBits(key, 51, 15)>>, fJacoby |-> 1 - GetBits(key, 66, 1)]

\* What MatchFromKey refuses.
Plausible(ms) ==
    /\ \A i \in 1..2 : ms.anDice[i] <= 6
    /\ ms.nMatchTo <= MAXSCORE
    /\ IF ms.nMatchTo > 0 THEN \A i \in 1..2 : ms.anScore[i] <= ms.nMatchTo ELSE ms.fCrawford = 0

MatchFromID(ach) ==
    LET auch == Bytes(ach, 9)
        ms == MatchFromKey([b \in KeyBits |-> (auch[b \div 8] \div (2^(b % 8))) % 2])
    IN [ms |-> ms, ok |-> Plausible(ms)]
=============================================================================
