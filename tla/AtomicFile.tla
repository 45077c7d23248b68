------------------------------ MODULE AtomicFile ------------------------------
(***************************************************************************)
(* What the README promises of a transfer: the destination's value is      *)
(* replaced in one step by a writer's whole file, or the writer gives up   *)
(* and nothing happened.  A power loss may take the destination back to a  *)
(* value it had before, never to anything else.  UnlinkFirst weakens the   *)
(* promise for the remote side, where a writer may first withdraw the old  *)
(* value.                                                                  *)
(***************************************************************************)
CONSTANTS Writers, Initial, None, UnlinkFirst

VARIABLES
  current,    \* the writer whose file the destination holds, Initial or None
  outcome     \* writer -> "pending", "replaced" or "failed"

vars == <<current, outcome>>

Replaced == {w \in Writers : outcome[w] = "replaced"}
Past     == {Initial} \cup Replaced \cup (IF UnlinkFirst THEN {None} ELSE {})

Init ==
  /\ current = Initial
  /\ outcome = [w \in Writers |-> "pending"]

Replace(w) ==
  /\ outcome[w] = "pending"
  /\ current' = w
  /\ outcome' = [outcome EXCEPT ![w] = "replaced"]

Abandon(w) ==
  /\ outcome[w] = "pending"
  /\ outcome' = [outcome EXCEPT ![w] = "failed"]
  /\ UNCHANGED current

\* The writer may learn at once that it will not get further.
Withdraw(w) ==
  /\ UnlinkFirst
  /\ outcome[w] = "pending"
  /\ current' = None
  /\ outcome' \in {outcome, [outcome EXCEPT ![w] = "failed"]}

LosePower ==
  /\ current' \in Past
  /\ outcome' = [w \in Writers |-> IF outcome[w] = "pending" THEN "failed" ELSE outcome[w]]

Next ==
  \/ \E w \in Writers : Replace(w) \/ Abandon(w) \/ Withdraw(w)
  \/ LosePower

Spec == Init /\ [][Next]_vars
==============================================================================
