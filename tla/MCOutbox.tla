------------------------------ MODULE MCOutbox ------------------------------
(* Small instances of the governance outbox. *)
EXTENDS Outbox, TLC

\* Clients and publishers are interchangeable.
Symmetry == Permutations(Clients) \cup Permutations(Publishers)
=============================================================================
