---- MODULE MCTelemetry ----
EXTENDS Telemetry
FlushAtTwo == [s \in Store |-> 2]
\* Either buffer alone, and both with less, which a restart takes together.
AloneAndTogether == {<<4, 0>>, <<0, 3>>, <<2, 1>>}
====
