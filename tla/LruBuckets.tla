----------------------------- MODULE LruBuckets -----------------------------
(***************************************************************************)
(* The replacement policy lib/cache.c implements, with every operation     *)
(* atomic: each bucket holds two entries, the most recently used first.    *)
(***************************************************************************)
CONSTANTS Buckets, Entries, Empty

VARIABLE bucket     \* bucket[b] = <<primary, secondary>>

Init == bucket = [b \in Buckets |-> <<Empty, Empty>>]

\* A hit in the secondary slot makes that entry the primary one.
Promote(b) == bucket' = [bucket EXCEPT ![b] = <<@[2], @[1]>>]

\* A new entry displaces the least recently used one.
Insert(b, e) == bucket' = [bucket EXCEPT ![b] = <<e, @[1]>>]

Flush == bucket' = [b \in Buckets |-> <<Empty, Empty>>]

Next == \/ \E b \in Buckets : Promote(b)
        \/ \E b \in Buckets, e \in Entries : Insert(b, e)
        \/ Flush

Spec == Init /\ [][Next]_bucket
=============================================================================
