----------------------------- MODULE QuasiDice -----------------------------
(***************************************************************************)
(* Quasi-random dice: of a rollout (rollout.c), where permutations drawn   *)
(* before the first game settle the rolls of every game, and of the one    *)
(* sided rollouts (osr.c), where the number of the game does.              *)
(*                                                                         *)
(* The permutations are arbitrary, given by the numbers they are drawn     *)
(* with; rolls that come from the generator are Random.                    *)
(***************************************************************************)
EXTENDS Integers, Sequences, SequencesExt

CONSTANTS nSides,         \* of a die, 6
          nGenerations,   \* 6
          QRLEN           \* rolls of a game that are quasi-random

ASSUME QuasiDiceAssumption == nSides > 1 /\ nGenerations \in 1..QRLEN

nNumbers == nSides * nSides
Numbers == 0..(nNumbers - 1)
Generations == 0..(nGenerations - 1)
Turns == 0..(QRLEN - 1)
Faces(j) == <<j \div nSides + 1, (j % nSides) + 1>>
Random == <<0, 0>>

\* One permutation: draws[k] \in 0..(nNumbers - k) for k from 1 on.
Shuffle(draws) ==
    LET swap(p, k) == [p EXCEPT ![k - 1] = p[k - 1 + draws[k]], ![k - 1 + draws[k]] = p[k - 1]]
    IN FoldLeft(swap, [k \in Numbers |-> k], [k \in 1..(nNumbers - 1) |-> k])

\* None are needed below the diagonal.
QuasiRandomSeed(draws) ==
    [i \in Generations |-> [t \in {u \in Turns : u >= i} |-> Shuffle(draws[<<i, t>>])]]

-----------------------------------------------------------------------------
(* The roll of turn iTurn < QRLEN in the game with the sequence n, which   *)
(* is iGame + nSkip.  Generation i permutes again what the one before it   *)
(* gives, in another way for each block of nNumbers^i games.               *)

MutSameInEachBlock(n, i) == n
Block(n, i) == n \div (nNumbers ^ i)

Generation(iTurn) == [i \in 1..(iTurn + 1) |-> i - 1]
RollOf(dicePerms, iTurn, n) ==
    LET permute(j, i) == dicePerms[i][iTurn][(Block(n, i) + j) % nNumbers]
        used == SelectSeq(Generation(iTurn), LAMBDA i : i \in Generations)
    IN Faces(FoldLeft(permute, 0, used))

IsDouble(anDice) == anDice[1] = anDice[2]

\* No doubles for the first roll of a rollout as initial position.  (A fresh
\* rollout of this kind does without quasi-random dice; one that is extended
\* has the settings it was saved with.)
Skipped(dicePerms, iTurn, iGame, fInitial, nSkip) ==
    LET found(s) == ~IsDouble(Faces(dicePerms[0][0][(iGame + s) % nNumbers]))
    IN IF fInitial /\ iTurn = 0
       THEN CHOOSE s \in nSkip..(nSkip + nNumbers) :
                found(s) /\ \A r \in nSkip..(s - 1) : ~found(r)
       ELSE nSkip

\* The dice of a game of a single thread: nSkip is reset before each game.
RolloutDice(dicePerms, iGame, fInitial) ==
    LET roll(g, iTurn) ==
            LET nSkip == Skipped(dicePerms, iTurn, iGame, fInitial, g.nSkip)
            IN [nSkip |-> nSkip,
                anDice |-> Append(g.anDice, RollOf(dicePerms, iTurn, iGame + nSkip))]
    IN FoldLeft(roll, [nSkip |-> 0, anDice |-> <<>>], Generation(QRLEN - 1)).anDice

-----------------------------------------------------------------------------

OSRQuasiRandomDice(iTurn, iGame, cGames) ==
    LET digit(k) == ((iGame \div (nSides ^ k)) % nSides) + 1
    IN CASE iTurn = 0 /\ cGames % nNumbers = 0 -> <<digit(0), digit(1)>>
         [] iTurn = 1 /\ cGames % (nNumbers * nNumbers) = 0 -> <<digit(2), digit(3)>>
         [] OTHER -> Random
=============================================================================
