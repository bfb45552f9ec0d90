----------------------------- MODULE MCKnowledge -----------------------------
(* Small instances of the knowledge lifecycle. *)
EXTENDS Knowledge, TLC

\* Callers are interchangeable, and so are documents not yet ingested.
Symmetry == Permutations(Actors) \cup Permutations(Docs \ Sources)
=============================================================================
