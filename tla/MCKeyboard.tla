----------------------------- MODULE MCKeyboard -----------------------------
(* Small instances of Keyboard for TLC: the sample of keys by name.          *)
EXTENDS Keyboard

OddKeys ==
  {SC_F1, SC_TAB, SC_LSHIFT, SC_CAPS, SC_A, SC_1, SC_BACKSPACE, SC_SYSRQ}
CursorKeys == {SC_NUM8}

(* Zero padding, and a word that looks like a character. *)
Behind == {KB_NUL, 97}
=============================================================================
