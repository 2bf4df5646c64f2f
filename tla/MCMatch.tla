------------------------------ MODULE MCMatch ------------------------------
\* Match on small instances.
EXTENDS Match

\* A position in which the sides can be told apart.
OneAhead == {[s \in Players |-> IF s = 0 THEN 1 ELSE Chequers]}
=============================================================================
