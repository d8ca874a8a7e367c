-------------------------- MODULE MCCriticalSteps --------------------------
(* Small instances of CriticalSteps for TLC.                               *)
EXTENDS CriticalSteps

Calm(flow, asks, exceeds) ==
  [flow |-> flow, asks |-> asks, exceeds |-> exceeds,
   mortal |-> {}, crashes |-> 0, losses |-> 0, slow |-> {}]

(* All branches at once; statuses that come late; a death in the middle of *)
(* on-boarding; everything that may go wrong with a stake of its own.      *)
OneTrouble ==
  {Calm("onBoarding", {"bt", "stp", "airdrop"}, TRUE),
   [Calm("onBoarding", {"bt", "airdrop"}, TRUE) EXCEPT
      !.slow = {"worker", "setops"}],
   [Calm("onBoarding", {"bt", "airdrop"}, TRUE) EXCEPT
      !.mortal = {"propose", "deploy", "worker", "oracle", "btClaim"},
      !.crashes = 1],
   [Calm("onBoarding", {"stp", "airdrop"}, FALSE) EXCEPT !.losses = 1]}
  \cup
  {[Calm("mint", {"bt", "stp"}, e) EXCEPT
      !.mortal = Job, !.crashes = 1, !.losses = 1, !.slow = Step] : e \in BOOLEAN}
=============================================================================
