------------------------------ MODULE ForkJoin ------------------------------
(***************************************************************************)
(* What the thread pool promises the commands that use it: every task that *)
(* was handed over is settled (run to its end, or thrown away by an abort) *)
(* exactly once, and nobody gets past a wait before all of them are.       *)
(***************************************************************************)
EXTENDS Naturals

VARIABLES submitted, \* how many tasks were handed over since the last wait ended
          settled    \* those that are over: a set of numbers in 1..submitted

joinVars == <<submitted, settled>>

Init == submitted = 0 /\ settled = {}

Submit == /\ submitted' \in Nat /\ submitted' > submitted
          /\ UNCHANGED settled

Settle(k) == /\ k \notin settled
             /\ settled' = settled \cup {k}
             /\ UNCHANGED submitted

Join == /\ settled = 1..submitted
        /\ submitted' = 0 /\ settled' = {}

Next == \/ Submit
        \/ \E k \in 1..submitted : Settle(k)
        \/ Join

Spec == Init /\ [][Next]_joinVars
=============================================================================
