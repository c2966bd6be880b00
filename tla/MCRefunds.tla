----------------------------- MODULE MCRefunds -----------------------------
(* Instances of Refunds for TLC. *)
EXTENDS Refunds, TLC

WorkerSymmetry == Permutations(Worker) \cup Permutations(Key)
=============================================================================
