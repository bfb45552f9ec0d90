----------------------------- MODULE MCSynthesis -----------------------------
(* Small instances of the synthesis jobs. *)
EXTENDS Synthesis, TLC

\* Jobs and workers are interchangeable.
Symmetry == Permutations(Jobs) \cup Permutations(Workers)
=============================================================================
