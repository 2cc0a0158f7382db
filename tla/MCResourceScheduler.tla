---- MODULE MCResourceScheduler ----
\* One batch of two items on one resource.
EXTENDS ResourceScheduler, TLC
CONSTANTS m1, r1, i1, i2
Alone == m1 :> r1
OneBatch == (i1 :> m1) @@ (i2 :> m1)
====
