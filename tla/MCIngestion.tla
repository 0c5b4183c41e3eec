---------------------------- MODULE MCIngestion ----------------------------
(* Instances of Ingestion for TLC. *)
EXTENDS Ingestion, TLC

\* Task ids, worker slots and dispatchers are interchangeable.
Symmetry == Permutations(Tasks) \cup Permutations(Workers)
                \cup Permutations(Dispatchers)
=============================================================================
