------------------------------ MODULE MCTerminal ------------------------------
(* A small instance of Terminal and Screen for TLC. *)
EXTENDS Screen
=============================================================================
