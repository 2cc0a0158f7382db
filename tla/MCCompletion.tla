---- MODULE MCCompletion ----
\* A primary model and a fallback model of one connection; routing leads to the
\* fallback model, too.
EXTENDS Completion
CONSTANTS c1, p, f, r1, r2
OneConnection == [m \in Model |-> c1]
LowLimits == [m \in Model |-> 10]
OneFallback == <<f>>
====
