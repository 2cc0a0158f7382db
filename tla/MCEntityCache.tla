--------------------------- MODULE MCEntityCache ---------------------------
EXTENDS EntityCache, TLC

CONSTANTS r1, r2, k1, u1, u2, m1, m2, v1, v2, e1, j1

MCAliasOf == e1 :> u1

MCRowOf == j1 :> "workspace"

MCUserOf == j1 :> u2

MCFirstName == (r1 :> m1) @@ (r2 :> m2) @@ (u1 :> v1) @@ (u2 :> v2)

\* The objects that one operation writes or refers to, and few others: the keys of what is
\* not there are not filled, and what is missing can be created.
MCPopulated == {{r1, "environment"}, {r1, k1}, {"workspace", u2}, {u1}}

MCSymmetry == Permutations(Operator)
=============================================================================
