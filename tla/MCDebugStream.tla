--------------------------- MODULE MCDebugStream ---------------------------
(* Small instances of DebugStream for TLC.                                 *)
EXTENDS DebugStream
=============================================================================
