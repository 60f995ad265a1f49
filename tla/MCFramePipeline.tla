-------------------------- MODULE MCFramePipeline --------------------------
(* A small instance of FramePipeline for TLC.  A payload of 2 bytes is     *)
(* empty if they are its checksum, and with both headers is longer than    *)
(* the instance's kernel takes.                                            *)
EXTENDS FramePipeline
=============================================================================
