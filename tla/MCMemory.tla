------------------------------- MODULE MCMemory -------------------------------
(* A small instance of Memory for TLC. *)
EXTENDS Memory
=============================================================================
