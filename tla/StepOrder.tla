----------------------------- MODULE StepOrder -----------------------------
(***************************************************************************)
(* What the routers of on-boarding promise, without rows, messages or      *)
(* processes: a step has an effect on a chain (or on a balance) only after *)
(* the steps it builds on have had theirs.                                 *)
(***************************************************************************)
CONSTANTS
  Flows,
  Steps,
  Needs      \* \in [Flows -> [Steps -> SUBSET Steps]]

VARIABLES
  flow,      \* which request is served
  effective  \* the steps that have had their effect at least once

Init == flow \in Flows /\ effective = {}

Effect(s) ==
  /\ Needs[flow][s] \subseteq effective
  /\ effective' = effective \cup {s}
  /\ UNCHANGED flow

Next == \E s \in Steps : Effect(s)

Spec == Init /\ [][Next]_<<flow, effective>>
=============================================================================
