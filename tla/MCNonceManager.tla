--------------------------- MODULE MCNonceManager ---------------------------
(* Small instances of NonceManager for TLC. *)
EXTENDS NonceManager, TLC

(* Callers and nodes are interchangeable (safety runs only). *)
Symmetry == Permutations(Caller) \cup Permutations(Node)
=============================================================================
