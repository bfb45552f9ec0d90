------------------------ MODULE MCGraphitiProjection ------------------------
(* Small instances of the Graphiti projection.  Entries are not symmetric:  *)
(* some are queued from the start.                                          *)
EXTENDS GraphitiProjection
=============================================================================
