-------------------------- MODULE MCKnowledgeCards --------------------------
(* Small instances of the knowledge cards. *)
EXTENDS KnowledgeCards, TLC

\* "history", "related" and "lint" only post links to some pages, as "index" to
\* all of them, and "list" posts text.
SomeButtons == {"open", "inspect", "changes", "index", "revise", "save", "approve", "reject", "synthesize", "ask"}

\* People are interchangeable, and so are documents.
Symmetry == Permutations(Users) \cup Permutations(Docs)
=============================================================================
