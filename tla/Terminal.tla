------------------------------- MODULE Terminal -------------------------------
(***************************************************************************)
(* kernel/terminal.c: where the characters go that keyboard_main echoes,   *)
(* while isr_stub_handler and the fault handlers print to the same         *)
(* terminal from inside an interrupt.                                      *)
(*                                                                         *)
(* The main loop is interrupted between any two accesses to `row' and      *)
(* `col'.  It draws and moves by the copies it has loaded, as gcc -O2 has  *)
(* it; the tests and the line feed that follow may use them or read again. *)
(* A handler runs with interrupts off, so each of its characters is one    *)
(* step.  The timer's handler is RingBuffer's matter; here it leaves the   *)
(* registers alone.                                                        *)
(***************************************************************************)
EXTENDS Integers

CONSTANTS
  width, height    \* in characters

(* A screen has room for a row above the last two. *)
ASSUME TerminalAssumption == width \in Nat \ {0} /\ height \in Nat \ (0 .. 2)

VARIABLES
  row, col,        \* the cursor in memory
  pc,              \* where the main loop is in terminal_write_char
  c,               \* the character it writes
  r, x,            \* the row and the column in its registers
  printing         \* a handler prints

mainVars == <<pc, c, r, x>>
vars == <<row, col, mainVars, printing>>

Glyph == "glyph"
Newline == "newline"
Backspace == "backspace"
Char == {Glyph, Newline, Backspace}    \* what the keyboard handler pushes
None == "none"

(* Mutant of PastWidth: > for >=. *)
PastWidthLate(k) == k > width

PastWidth(k) == k >= width

(* Mutant of PastHeight: > for >=. *)
PastHeightLate(k) == k > height

PastHeight(k) == k >= height

(* The boot messages end with a newline, below the top of the screen. *)
Init ==
  /\ row \in 1 .. (height - 1) /\ col = 0
  /\ pc = "rest" /\ c = None /\ r = 0 /\ x = 0
  /\ printing = FALSE

-----------------------------------------------------------------------------
(* terminal_write_char of the main loop. *)
Goto(from, to) == ~printing /\ pc = from /\ pc' = to

LoadRow(char) ==
  /\ Goto("rest", IF char = Newline THEN "return" ELSE "load")
  /\ c' = char
  /\ r' = row
  /\ UNCHANGED <<row, col, x, printing>>

LoadCol ==
  /\ Goto("load", "draw")
  /\ x' = col
  /\ UNCHANGED <<row, col, c, r, printing>>

(* A backspace draws a space in front of the cursor. *)
Target == IF c = Backspace THEN x - 1 ELSE x

(* vga_text_set: the pixels of column Target of row r. *)
Draw ==
  /\ Goto("draw", "move")
  /\ UNCHANGED <<row, col, c, r, x, printing>>

Move ==
  /\ Goto("move", "wrap")
  /\ x' = IF c = Glyph THEN x + 1 ELSE IF x > 0 THEN x - 1 ELSE x
  /\ col' = IF x' # x THEN x' ELSE col
  /\ UNCHANGED <<row, c, r, printing>>

(* The two stores of a newline ... *)
Return ==
  /\ Goto("return", "down")
  /\ x' = 0 /\ col' = 0
  /\ UNCHANGED <<row, c, r, printing>>

Down(from, to) ==
  /\ Goto(from, to)
  /\ \E known \in {r, row} : r' = known + 1
  /\ row' = r'
  /\ UNCHANGED <<col, c, x, printing>>

(* ... and those of a line that is full. *)
Wrap ==
  /\ pc = "wrap" /\ ~printing
  /\ \E known \in {x, col} :
       IF PastWidth(known) THEN pc' = "wrapped" /\ x' = 0 /\ col' = 0
                           ELSE pc' = "check" /\ x' = known /\ UNCHANGED col
  /\ UNCHANGED <<row, c, r, printing>>

(* Back in keyboard_main: no register is of use any more. *)
Forget == c' = None /\ r' = 0 /\ x' = 0

Check ==
  /\ pc = "check" /\ ~printing
  /\ \E known \in {r, row} :
       IF PastHeight(known) THEN pc' = "scroll" /\ UNCHANGED <<c, r, x>>
                            ELSE pc' = "rest" /\ Forget
  /\ UNCHANGED <<row, col, printing>>

(* The pixels have moved up; row -= 1 is one instruction.                    *)
Scrolled ==
  /\ Goto("scroll", "rest")
  /\ Forget
  /\ row' = row - 1
  /\ UNCHANGED <<col, printing>>

-----------------------------------------------------------------------------
(* A handler's printf: some characters and a newline. *)
Interrupt ==
  /\ ~printing
  /\ printing' = TRUE
  /\ UNCHANGED <<row, col, mainVars>>

(* The cursor after a step to (k, l), wrapped and scrolled. *)
Settled(k, l) ==
  LET down == IF PastWidth(l) THEN k + 1 ELSE k
  IN  [row |-> IF PastHeight(down) THEN down - 1 ELSE down,
       col |-> IF PastWidth(l) THEN 0 ELSE l]

PrintGlyph ==
  /\ printing
  /\ row' = Settled(row, col + 1).row
  /\ col' = Settled(row, col + 1).col
  /\ UNCHANGED <<mainVars, printing>>

PrintNewline ==
  /\ printing
  /\ printing' = FALSE
  /\ row' = Settled(row + 1, 0).row
  /\ col' = 0
  /\ UNCHANGED mainVars

Next ==
  \/ \E char \in Char : LoadRow(char)
  \/ LoadCol \/ Draw \/ Move \/ Return
  \/ Down("down", "wrap") \/ Down("wrapped", "check")
  \/ Wrap \/ Check \/ Scrolled
  \/ Interrupt \/ PrintGlyph \/ PrintNewline

Spec == Init /\ [][Next]_vars

-----------------------------------------------------------------------------
CursorOK ==
  /\ row \in 1 .. height /\ col \in 0 .. width
  /\ r \in 0 .. height /\ x \in 0 .. width

PlaceOK ==
  pc \in {"rest", "load", "draw", "move", "return", "down", "wrap", "wrapped",
          "check", "scroll"}

(* The cursor is at most one row or column off the screen, never in the top  *)
(* row, and the rest of the state in its type.                               *)
TypeOK ==
  /\ CursorOK /\ PlaceOK
  /\ c \in Char \cup {None}
  /\ printing \in BOOLEAN

(* Between two characters of the main loop the cursor is on the screen, even *)
(* if handlers have printed between the stores of the ones before.           *)
CursorAtRest == pc = "rest" => row < height /\ col < width

(* What the main loop draws is in the frame buffer.  A backspace in column 0 *)
(* draws at column -1: each of its scanlines is the end of the one above,    *)
(* nearly the same row of text.  In the top row the first would be in front  *)
(* of the frame buffer, and the cursor never gets back there.                *)
MainInside ==
  [][Draw => r * width + Target \in 0 .. (height * width - 1)]_vars

(* What a handler draws is on the screen but where the main loop has stored  *)
(* the overrun of a line or of the screen and not corrected it yet; then it  *)
(* is one row or one column outside.                                         *)
HandlerNear ==
  [][PrintGlyph =>
       \/ row < height /\ col < width
       \/ row < height /\ col = width /\ pc = "wrap"
       \/ row = height /\ col < width /\ pc \in {"wrap", "check", "scroll"}]_vars
=============================================================================
