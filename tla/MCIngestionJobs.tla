--------------------------- MODULE MCIngestionJobs ---------------------------
(* Small instances of the ingestion jobs. *)
EXTENDS IngestionJobs, TLC

\* Concurrent calls, workers and texts are interchangeable.
Symmetry == Permutations(Calls) \cup Permutations(Workers) \cup Permutations(Texts)
=============================================================================
