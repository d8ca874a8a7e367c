------------------------------ MODULE StPrime ------------------------------
(* The programs that spend a client's reserve, side by side: the monitor   *)
(* of the workers' gas with the funding of addresses, and the transfers of *)
(* ST' the client asks for.  A case has the rows, items and balances there *)
(* are at first, and bounds on what the environment does.                  *)
EXTENDS WorkerGas, StpTransfers

CONSTANT Cases   \* bound: states to begin in, with what may go wrong

ASSUME StPrimeAssumption ==
  /\ HolderGrant \in Nat
  /\ \A k \in Cases :
       /\ k.reserve \in [Clients -> Nat]
       /\ k.status \in [Rows -> {"none", "inactive", "active", "busy"}]
       /\ k.proc \in [Rows -> Processes \cup {0}]
       /\ k.item \in [Items -> ItemStatus] /\ k.second \in [Items -> Nat]

vars == <<reserve, faults, allowed, gasVars, stpVars>>

Init ==
  /\ \E k \in Cases :
       reserve = k.reserve /\ allowed = k.faults /\ InitGas(k) /\ InitStp(k)
  /\ faults = 0

Gas == UNCHANGED <<stpVars, allowed>>
Stp == UNCHANGED <<gasVars, allowed>>

Next ==
  \/ GasNext /\ Gas
  \/ StpNext /\ Stp

(* Processes go on while they live and time passes for their rows; a       *)
(* message is delivered and worked on, a block is scanned, in the end.     *)
Fairness ==
  /\ \A i \in Instances : WF_vars((CanStart(i) \/ MonitorStep(i)) /\ Gas)
  /\ \A w \in Rows : WF_vars((TimeDue(w) \/ Settle(w)) /\ Gas)
  /\ WF_vars((\E k \in Slots : RunStep(k)) /\ Stp)
  /\ WF_vars((\E p \in Payments : ScanStep(p)) /\ Stp)

Spec == Init /\ [][Next]_vars /\ Fairness
=============================================================================
