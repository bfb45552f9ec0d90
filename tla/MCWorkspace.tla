----------------------------- MODULE MCWorkspace -----------------------------
(* Small instances of the workspace page. *)
EXTENDS Workspace, TLC
CONSTANTS home, other, d1, d2

\* The user administers one channel and is a member of the other.
AdminAtHome == [c \in Channels |-> IF c = home THEN "admin" ELSE "member"]

OneDocumentEach == (d1 :> home) @@ (d2 :> other)

\* Proposals are interchangeable, and so are chains.
Symmetry == Permutations(Texts) \cup Permutations(Slots)
=============================================================================
