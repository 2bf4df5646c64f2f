----------------------------- MODULE PositionID -----------------------------
(***************************************************************************)
(* Boards as numbers and as text: positionid.c.                            *)
(*                                                                         *)
(* A TanBoard has two players of 25 points; the last one is the bar.  The  *)
(* C code counts players and points from 0, and so do these functions.     *)
(* Words are their eight hexadecimal digits and bytes are numbers below    *)
(* 256; the text of an identifier is the sequence of its base 64 digits.   *)
(***************************************************************************)
EXTENDS Integers, Sequences, FiniteSetsExt, SequencesExt

nChequers == 15
Bar == 24
NoBoard == [p \in 0..1 |-> [i \in 0..Bar |-> 0]]
SwapBoard(anBoard) == [p \in 0..1 |-> anBoard[1 - p]]

-----------------------------------------------------------------------------
(* The key of the caches: seven words of four bits a point.                *)

PositionKey(anBoard) ==
    [w \in 0..6 |-> [k \in 0..7 |->
        IF w = 6 THEN IF k < 2 THEN anBoard[k][Bar] ELSE 0
        ELSE anBoard[IF w < 3 THEN 1 ELSE 0][8 * (w % 3) + k]]]

PositionFromKey(pkey) ==
    [p \in 0..1 |-> [i \in 0..Bar |->
        IF i = Bar THEN pkey[6][p] ELSE pkey[(i \div 8) + IF p = 1 THEN 0 ELSE 3][i % 8]]]

PositionFromKeySwapped(pkey) ==
    [p \in 0..1 |-> [i \in 0..Bar |->
        IF i = Bar THEN pkey[6][1 - p] ELSE pkey[(i \div 8) + IF p = 0 THEN 0 ELSE 3][i % 8]]]

-----------------------------------------------------------------------------
(* The key of the identifiers: ten bytes, and for each point a one for     *)
(* each chequer and a zero.                                                *)

\* nBits ones from bitPos on, in up to three bytes.  They are zero before.
MutTwoBytes(auchKey, bitPos, nBits) ==
    LET k == bitPos \div 8
        b == ((2^nBits) - 1) * (2^(bitPos % 8))
    IN [i \in DOMAIN auchKey |-> auchKey[i] + IF i \in k..(k + 1) THEN (b \div (256^(i - k))) % 256 ELSE 0]
addBits(auchKey, bitPos, nBits) ==
    LET k == bitPos \div 8
        b == ((2^nBits) - 1) * (2^(bitPos % 8))
    IN [i \in DOMAIN auchKey |-> auchKey[i] + IF i \in k..(k + 2) THEN (b \div (256^(i - k))) % 256 ELSE 0]

oldPositionKey(anBoard) ==
    LET point(n) == anBoard[n \div 25][n % 25]
        add(key, n) == [auch |-> IF point(n) = 0 THEN key.auch ELSE addBits(key.auch, key.iBit, point(n)),
                        iBit |-> key.iBit + point(n) + 1]
    IN FoldLeft(add, [auch |-> [i \in 0..9 |-> 0], iBit |-> 0], [n \in 1..50 |-> n - 1]).auch

\* Reading stops at a chequer beyond the last point.
oldPositionFromKey(auch) ==
    LET bit(n) == (auch[n \div 8] \div (2^(n % 8))) % 2
        read(at, n) ==
            IF bit(n) = 0 THEN [at EXCEPT !.point = @ + 1]
            ELSE IF at.over \/ at.point >= 50 THEN [at EXCEPT !.over = TRUE]
            ELSE [at EXCEPT !.board[at.point \div 25][at.point % 25] = @ + 1]
    IN FoldLeft(read, [board |-> NoBoard, point |-> 0, over |-> FALSE],
                [n \in 1..80 |-> n - 1]).board

\* Six bits a digit, the high ones of a byte first; a rest is filled with zeros.
Digits(auch, n) ==
    LET byte(i) == IF i \in DOMAIN auch THEN auch[i] ELSE 0
    IN [d \in 1..n |->
        LET g == 3 * ((d - 1) \div 4)
            three == 65536 * byte(g) + 256 * byte(g + 1) + byte(g + 2)
        IN (three \div (64^(3 - ((d - 1) % 4)))) % 64]

Bytes(ach, n) ==
    [i \in 0..(n - 1) |->
        LET g == 4 * (i \div 3)
            digit(d) == IF d \in DOMAIN ach THEN ach[d] ELSE 0
            four == 262144 * digit(g + 1) + 4096 * digit(g + 2) + 64 * digit(g + 3) + digit(g + 4)
        IN (four \div (256^(2 - (i % 3)))) % 256]

PositionID(anBoard) == Digits(oldPositionKey(anBoard), 14)

-----------------------------------------------------------------------------
(* Positions that can be played.                                           *)

Men(anBoard, p) == MapThenSumSet(LAMBDA i : anBoard[p][i], 0..Bar)
Closed(anBoard) == \A p \in 0..1 : \A i \in 0..5 : anBoard[p][i] >= 2

CheckPosition(anBoard) ==
    /\ \A p \in 0..1 : Men(anBoard, p) <= nChequers
    /\ \A i \in 0..(Bar - 1) : anBoard[0][i] = 0 \/ anBoard[1][Bar - 1 - i] = 0
    /\ ~ (Closed(anBoard) /\ anBoard[0][Bar] > 0 /\ anBoard[1][Bar] > 0)

PositionFromID(ach) ==
    LET anBoard == oldPositionFromKey(Bytes(ach, 10))
    IN [board |-> anBoard, legal |-> CheckPosition(anBoard)]

\* Too many chequers go from the high points, the second player's from points
\* both hold, and from the bar if both boards are closed.
ClosestLegalPosition(anBoard) ==
    LET behind(p, i) == MapThenSumSet(LAMBDA k : anBoard[p][k], 0..(i - 1))
        few == [p \in 0..1 |-> [i \in 0..Bar |->
                   Min({anBoard[p][i], Max({0, nChequers - behind(p, i)})})]]
        apart == [few EXCEPT ![1] =
                     [i \in 0..Bar |-> IF i < Bar /\ few[0][Bar - 1 - i] > 0 THEN 0 ELSE few[1][i]]]
    IN IF Closed(apart) /\ apart[0][Bar] > 0 THEN [apart EXCEPT ![1][Bar] = 0] ELSE apart

-----------------------------------------------------------------------------
(* The numbers of bearoff positions: of the n chequers and the points as   *)
(* n + r bits, r of them ones.                                             *)

\* anCombination, counted from 1.
Combination(n, r) ==
    LET c[i \in 0..n, j \in 0..r] ==
            IF j = 0 THEN 1 ELSE IF i = 0 THEN 0 ELSE c[i - 1, j - 1] + c[i - 1, j]
    IN c[n, r]

PositionF(fBits, n, r) ==
    LET f[k \in 0..n, q \in 0..r] ==
            IF k = q THEN 0
            ELSE IF k - 1 \in fBits THEN Combination(k - 1, q) + f[k - 1, q - 1]
            ELSE f[k - 1, q]
    IN f[n, r]

\* anBoard has the points from 0 to nPoints - 1.
MutPointsFromZero(anBoard, nPoints, n) ==
    LET left(i) == MapThenSumSet(LAMBDA k : anBoard[k], i..(nPoints - 1)) + nPoints - i
    IN PositionF({left(i) : i \in 0..(nPoints - 1)}, n + nPoints, nPoints)
PositionBearoff(anBoard, nPoints, n) ==
    LET left(i) == MapThenSumSet(LAMBDA k : anBoard[k], i..(nPoints - 1)) + nPoints - 1 - i
    IN PositionF({left(i) : i \in 0..(nPoints - 1)}, n + nPoints, nPoints)

PositionInv(nID, n, r) ==
    LET f[k \in 0..n, q \in 0..r, id \in 0..nID] ==
            IF q = 0 THEN {}
            ELSE IF k = q THEN 0..(k - 1)
            ELSE LET nC == Combination(k - 1, q)
                 IN IF id >= nC THEN {k - 1} \cup f[k - 1, q - 1, id - nC] ELSE f[k - 1, q, id]
    IN f[n, r, nID]

PositionFromBearoff(usID, nPoints, n) ==
    LET fBits == PositionInv(usID, n + nPoints, nPoints)
        point(i) == nPoints - 1 - Cardinality({b \in fBits : b < i})
    IN [j \in 0..(nPoints - 1) |->
            Cardinality({i \in 0..(n + nPoints - 1) : i \notin fBits /\ point(i) = j})]
=============================================================================
