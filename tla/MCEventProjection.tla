-------------------------- MODULE MCEventProjection --------------------------
EXTENDS EventProjection

\* One message with one file.
OneMessage == <<<<"f1">>>>
=============================================================================
