--------------------------- MODULE MCSubscriptions ---------------------------
(* Instances of Subscriptions for TLC. *)
EXTENDS Subscriptions, TLC

WorkerSymmetry == Permutations(Worker)

\* Months of one day and of two in turn: periods that end on either day of a
\* longer one are followed by such as end on the only day of the next.
Calendar == [m \in 0 .. Months + 2 |-> m + m \div 2]
=============================================================================
