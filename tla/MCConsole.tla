------------------------------ MODULE MCConsole ------------------------------
(* A small instance of Console for TLC: both shift keys, a letter, which is  *)
(* two different characters with and without them, and cursor up for the     *)
(* extended codes.                                                           *)
EXTENDS Console

Map == INSTANCE Keymap

TypingKeys == {Map!SC_LSHIFT, Map!SC_RSHIFT, Map!SC_A}
CursorKeys == {Map!SC_NUM8}
=============================================================================
