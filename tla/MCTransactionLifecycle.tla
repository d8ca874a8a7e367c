----------------------- MODULE MCTransactionLifecycle -----------------------
(* Small instances of TransactionLifecycle for TLC. *)
EXTENDS TransactionLifecycle, TLC

Symmetry == Permutations(Worker) \cup Permutations(Observer)

(* The properties say nothing of later states: lost and early stay TRUE.   *)
NothingLost == ~lost /\ ~early
OnTime == ~early
=============================================================================
