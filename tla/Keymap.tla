------------------------------- MODULE Keymap -------------------------------
(***************************************************************************)
(* The constants and tables of kernel/keyboard.c, for a sample of keys     *)
(* with one representative of every class that the handler tells apart.    *)
(* Codes and characters are the real numbers.                              *)
(***************************************************************************)
EXTENDS Integers

CONSTANT OverRead    \* the words that may lie behind the tables in .rodata

KB_SCAN2_BREAK == 240
TABLE_ENTRIES == 132
WORD == 4                              \* sizeof(*kb_ps2_scancode2)

KB_NUL == 0
KB_TAB == 9
KB_ENTER == 13
KB_BACKSPACE == 8
KB_F1 == 257
KB_LSHIFT == 274
KB_RSHIFT == 275
KB_CAPSLOCK == 278

Ascii == 32 .. 127
Lowercase == 97 .. 122
Newline == 10

(* What a keyboard sends, in scancode set 2. *)
SC_F1 == 5
SC_TAB == 13
SC_LSHIFT == 18
SC_1 == 22
SC_A == 28
SC_CAPS == 88
SC_RSHIFT == 89
SC_ENTER == 90
SC_BACKSPACE == 102
SC_NUM8 == 117                         \* behind SC_EXTENDED: cursor up
SC_SYSRQ == 132                        \* Alt and Print Screen
SC_EXTENDED == 224
SC_PASSED == 170                       \* self-test after power-on
SC_ACK == 250                          \* the keyboard's answer to a command

SampleCodes == {SC_F1, SC_TAB, SC_LSHIFT, SC_1, SC_A, SC_CAPS, SC_RSHIFT, SC_ENTER,
                SC_BACKSPACE, SC_NUM8, SC_SYSRQ}

kb_ps2_scancode2 ==
  [c \in SampleCodes \ {SC_SYSRQ} |->
    CASE c = SC_F1 -> KB_F1
      [] c = SC_TAB -> KB_TAB
      [] c = SC_LSHIFT -> KB_LSHIFT
      [] c = SC_1 -> 49
      [] c = SC_A -> 97
      [] c = SC_CAPS -> KB_CAPSLOCK
      [] c = SC_RSHIFT -> KB_RSHIFT
      [] c = SC_ENTER -> KB_ENTER
      [] c = SC_BACKSPACE -> KB_BACKSPACE
      [] c = SC_NUM8 -> 56]

kb_ps2_scancode2_shift ==
  [kb_ps2_scancode2 EXCEPT ![SC_1] = 33, ![SC_A] = 65]

(* The OOB check lets the first word behind the table through. *)
OutOfBounds(code) == code * WORD > TABLE_ENTRIES * WORD

(* The words an access to the table selected by `shift' may return. *)
Lookup(shift, code) ==
  IF code >= TABLE_ENTRIES THEN OverRead
  ELSE {(IF shift THEN kb_ps2_scancode2_shift ELSE kb_ps2_scancode2)[code]}

IsShift(key) == key \in {KB_LSHIFT, KB_RSHIFT}

(* Mutant of Types: no upper bound on the printable keys. *)
TypesAbove(key) == key >= 32 \/ key \in {KB_ENTER, KB_BACKSPACE}

(* The keys that push a byte when they go down, and the byte. *)
Types(key) == key \in Ascii \cup {KB_ENTER, KB_BACKSPACE}

Char(key, caps) ==
  CASE key = KB_ENTER -> Newline
    [] caps /\ key \in Lowercase -> (key - 32) % 256
    [] OTHER -> key % 256
=============================================================================
