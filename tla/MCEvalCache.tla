---------------------------- MODULE MCEvalCache ----------------------------
EXTENDS EvalCache

CONSTANTS k1, k2, k3

MCBuckets == {0, 1}

\* Three keys for the two slots of one bucket: an insertion may displace a
\* key that is still asked for.
OneBucket == [k \in Keys |-> 0]

\* k3 has a bucket of its own, so two threads may be inside at once.
TwoBuckets == [k \in Keys |-> IF k = k3 THEN 1 ELSE 0]
=============================================================================
