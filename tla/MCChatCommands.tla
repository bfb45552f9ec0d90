--------------------------- MODULE MCChatCommands ---------------------------
(* Small instances of the chat command inbox. *)
EXTENDS ChatCommands, TLC

\* Workers are interchangeable.
Symmetry == Permutations(Workers)
=============================================================================
