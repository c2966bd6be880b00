---------------------------- MODULE MCOrderStock ----------------------------
(* Instances of OrderStock for TLC. *)
EXTENDS OrderStock, TLC

WorkerSymmetry == Permutations(Worker)
OrderSymmetry == WorkerSymmetry \cup Permutations(Order)

\* Every order asks for one unit of each.
One == [o \in Order |-> 1]
None == [o \in Order |-> 0]
=============================================================================
