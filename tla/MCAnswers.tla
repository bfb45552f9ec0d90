------------------------------ MODULE MCAnswers ------------------------------
(* Small instances of the signed questions. *)
EXTENDS Answers, TLC

\* The command asks or searches; the tool call searches.
AskOrSearch == [c \in Calls |-> IF c \in Commands THEN {"ask", "search"} ELSE {"search"}]

\* Documents are interchangeable.
Symmetry == Permutations(Docs)
=============================================================================
