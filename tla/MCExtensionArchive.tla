-------------------------- MODULE MCExtensionArchive --------------------------
(* Instances of ExtensionArchive for TLC. *)
EXTENDS ExtensionArchive, TLC

\* Every row is in a table of its own; or all rows are in one table.
OneEach == CHOOSE f \in [Row -> Table] :
             \A r, s \in Row : f[r] = f[s] => r = s
SameTable == [r \in Row |-> CHOOSE t \in Table : TRUE]

WorkerSymmetry == Permutations(Worker)
=============================================================================
