------------------------ MODULE MCWorkerAssociation ------------------------
(* Small instances of WorkerAssociation for TLC: one client, one script at *)
(* a time.  Rows 1 and 2 work at p1 and p2; others are free.               *)
EXTENDS WorkerAssociation

CONSTANTS c1, p1, p2

OneClient == [r \in Row |-> c1]
TwoAtWork == [r \in Row |-> CASE r = 1 -> p1 [] r = 2 -> p2 [] OTHER -> None]

=============================================================================
