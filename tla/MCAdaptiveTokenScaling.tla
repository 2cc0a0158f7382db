---- MODULE MCAdaptiveTokenScaling ----
\* In fifths.  Two pools; and the two with new ranks and reservations and a third below.
EXTENDS AdaptiveTokenScaling, TLC
CONSTANTS p1, p2, p3, r1, r2
Pools == (r1 :> p1) @@ (r2 :> p2)
Reserve(p, min, max) == [name |-> p, min |-> min, max |-> max]
Two == <<Reserve(p1, 1, 4), Reserve(p2, 2, 3)>>
Three == <<Reserve(p2, 1, 5), Reserve(p1, 2, 1), Reserve(p3, 0, 2)>>
BothDefinitions == {Two, Three}
====
