---- MODULE MCGate ----
\* One capacity for every kind of period; a second one per address, which hides the
\* first; an API key whose limit is stricter than its resource's.
EXTENDS Gate, TLC
CONSTANTS a1, r1, r2
OneAddress == [r \in Request |-> a1]
Cap(n, t, perAddress) == [requests |-> n, tokens |-> t, perAddress |-> perAddress]
Setup(p, caps, answers) == [period |-> p, capacities |-> caps, answers |-> answers]
Plain == <<Cap(2, 3, FALSE)>>
Same(capacities) == [r \in Request |-> capacities]
ByMinute == Setup("minute", Same(Plain), {0, 1})
AllSetups == {
  ByMinute,
  Setup("day", Same(<<Cap(1, 2, FALSE)>>), {1}),
  Setup("month", Same(<<Cap(1, 2, FALSE)>>), {0, 1}),
  Setup("lifetime", Same(Plain), {2}),
  Setup("minute", (r1 :> Plain) @@ (r2 :> Plain \o <<Cap(1, 0, FALSE)>>), {0}),
  Setup("minute", (r1 :> <<Cap(1, 0, FALSE), Cap(1, 2, TRUE)>>) @@ (r2 :> <<>>), {0})}
MinuteOnly == {ByMinute}
====
