--------------------------- MODULE MCGlobalStream ---------------------------
(* A few operations on an infrastructure and the cleanup of their streams. *)
EXTENDS GlobalStream
=============================================================================
