------------------------------ MODULE Reserve ------------------------------
(* The ST' of a client's reserve address, which three programs spend side  *)
(* by side: the cron that monitors the gas of workers, the service that    *)
(* funds the addresses of a client (both WorkerGas), and the ST' transfers *)
(* a client asks for (StpTransfers).                                       *)
EXTENDS Integers, FiniteSets, FiniteSetsExt, Sequences, SequencesExt,
        Functions

CONSTANTS
  Clients,     \* ids of clients
  MaxFaults    \* bound: calls that fail although they need not

ASSUME ReserveAssumption == Clients \subseteq Nat /\ MaxFaults \in Nat

VARIABLES
  reserve,     \* client -> ST' its reserve holds on the chain
  faults,      \* calls that have failed so far
  allowed      \* calls that may fail in this case

NoFault == UNCHANGED faults
Fault == faults < allowed /\ faults' = faults + 1

(* A transfer out of a reserve: the chain refuses one it cannot cover.     *)
Covers(c, n) == reserve[c] >= n
Spend(c, n) == reserve' = [reserve EXCEPT ![c] = @ - n]
=============================================================================
