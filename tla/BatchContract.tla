---------------------------- MODULE BatchContract ----------------------------
(***************************************************************************)
(* What a completion batch promises to the client that created it: an item *)
(* is processed by one task at a time, may be tried again, ends once and   *)
(* keeps its outcome; the batch is decided once, after its last item, and  *)
(* by the outcomes of all of them.                                         *)
(***************************************************************************)

CONSTANT Item

VARIABLES
  item,      \* "waiting", "running" or the outcome of each item
  verdict    \* "none" or the outcome of the batch

vars == <<item, verdict>>

Ended == {"COMPLETED", "FAILED"}

Init == item = [i \in Item |-> "waiting"] /\ verdict = "none"

Move(i, from, to) ==
  /\ item[i] = from
  /\ item' = [item EXCEPT ![i] = to]
  /\ UNCHANGED verdict

Decide ==
  /\ verdict = "none"
  /\ \A i \in Item : item[i] \in Ended
  /\ verdict' = IF \E i \in Item : item[i] = "FAILED" THEN "FAILED" ELSE "COMPLETED"
  /\ UNCHANGED item

\* A worker starts every item whose payload it has read; one task ends at a time.
Start ==
  /\ \E S \in SUBSET {i \in Item : item[i] = "waiting"} :
       item' = [i \in Item |-> IF i \in S THEN "running" ELSE item[i]]
  /\ UNCHANGED verdict

Next ==
  \/ Start
  \/ \E i \in Item : Move(i, "running", "waiting")
  \/ \E i \in Item, o \in Ended : Move(i, "running", o)
  \/ Decide

Spec == Init /\ [][Next]_vars
=============================================================================
