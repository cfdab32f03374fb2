-------------------------------- MODULE Screen --------------------------------
(***************************************************************************)
(* What the handlers print and how: the format strings of isr_handler and  *)
(* isr_stub_handler, walked by printf of klib/stdio/printf.c, over the     *)
(* terminal that Terminal models.  The terminal has one pair of colours,   *)
(* which the main loop's character uses while a handler changes them.      *)
(*                                                                         *)
(* A format is a sequence of tokens.  A text is one character or more.     *)
(***************************************************************************)
EXTENDS Terminal, Sequences

CONSTANT Numbers   \* error codes and vectors

(* They are unsigned. *)
ASSUME ScreenAssumption == Numbers \subseteq Nat

VARIABLES
  fmt,             \* what is left of the handler's format
  number,          \* its argument
  digits,          \* what is left of ulltoa's buffer
  shown,           \* history: the digits it has drawn
  fg, bg           \* term->fg_colour, term->bg_colour

colours == <<fg, bg>>
printfVars == <<fmt, number, digits, shown, colours>>

Text == <<"text">>
Hex == <<"hex">>
Nl == <<"newline">>
Reset == <<"reset">>
Sgr(ground, n) == <<"sgr", ground, n>>

Palette == <<"black", "red", "green", "yellow", "blue", "magenta", "cyan", "white">>

ScreenInit ==
  /\ Init
  /\ fmt = <<>> /\ number = 0 /\ digits = <<>> /\ shown = <<>>
  /\ fg = "white" /\ bg = "black"

-----------------------------------------------------------------------------
(* ulltoa: the digits, least significant first, and their reversal in place. *)
Backwards(num, base) ==
  LET from[n \in 0 .. num] ==
        IF n = 0 THEN <<>> ELSE <<n % base>> \o from[n \div base]
  IN  IF num = 0 THEN <<0>> ELSE from[num]

(* Mutant of Apart: neighbours are not swapped. *)
FarApart(begin, end) == begin + 1 < end

Apart(begin, end) == begin < end

Reversed(str) ==
  [i \in DOMAIN str |->
     LET j == Len(str) + 1 - i
     IN  IF Apart(i, j) \/ Apart(j, i) THEN str[j] ELSE str[i]]

ulltoa(num, base) == Reversed(Backwards(num, base))

-----------------------------------------------------------------------------
(* BG_BIANCO(FG_ROSSO(" FAULT ")): each macro ends with a reset. *)
FaultTag == <<Sgr(4, 7), Sgr(3, 1), Text, Reset, Reset>>

(* Mutant of Formats: the numbers have a line of their own. *)
TwoLineFormats == {FaultTag \o <<Text, Nl, Hex, Text, Nl>>}

(* #DE and #UD; #GP and #PF; #DF, which stays on the line; the stub. *)
Formats ==
  {FaultTag \o <<Text, Nl>>, FaultTag \o <<Text, Hex, Text, Nl>>,
   FaultTag \o <<Text, Hex, Text>>, <<Text, Hex, Text, Nl>>}

CallPrintf ==
  /\ Interrupt
  /\ fmt' \in Formats /\ number' \in Numbers
  /\ UNCHANGED <<digits, shown, colours>>

(* The loop of printf: what is at fmt. *)
At(token) == printing /\ digits = <<>> /\ fmt # <<>> /\ Head(fmt)[1] = token

PutChar(k, l) == row' = Settled(k, l).row /\ col' = Settled(k, l).col

PrintText ==
  /\ At("text")
  /\ PutChar(row, col + 1)
  /\ fmt' \in {fmt, Tail(fmt)}
  /\ UNCHANGED <<mainVars, printing, number, digits, shown, colours>>

(* printf's loop over the digits. *)
PrintDigit ==
  /\ printing /\ digits # <<>>
  /\ PutChar(row, col + 1)
  /\ shown' = Append(shown, Head(digits))
  /\ digits' = Tail(digits)
  /\ UNCHANGED <<mainVars, printing, fmt, number, colours>>

(* Of a line feed, and of the handler if nothing follows. *)
PrintEnd ==
  /\ At("newline")
  /\ PutChar(row + 1, 0)
  /\ fmt' = Tail(fmt)
  /\ printing' = (fmt' # <<>>)
  /\ IF printing' THEN UNCHANGED <<number, shown>> ELSE number' = 0 /\ shown' = <<>>
  /\ UNCHANGED <<mainVars, digits, colours>>

(* %x *)
PrintHex ==
  /\ At("hex")
  /\ digits' = ulltoa(number, 16)
  /\ fmt' = Tail(fmt)
  /\ UNCHANGED <<vars, number, shown, colours>>

(* Mutant of AfterReset: the background stays. *)
AfterForegroundReset == <<"white", bg>>

AfterReset == <<"white", "black">>

SetColours ==
  /\ At("reset") \/ At("sgr")
  /\ LET code == Head(fmt)
         now == IF code = Reset THEN AfterReset
                ELSE IF code[2] = 3 THEN <<Palette[code[3] + 1], bg>>
                ELSE <<fg, Palette[code[3] + 1]>>
     IN  fg' = now[1] /\ bg' = now[2]
  /\ fmt' = Tail(fmt)
  /\ UNCHANGED <<vars, number, digits, shown>>

(* The handler of a double fault does not return. *)
Spin == printing /\ digits = <<>> /\ fmt = <<>> /\ UNCHANGED <<vars, printfVars>>

MainStep ==
  /\ \/ \E char \in Char : LoadRow(char)
     \/ LoadCol \/ Draw \/ Move \/ Return
     \/ Down("down", "wrap") \/ Down("wrapped", "check")
     \/ Wrap \/ Check \/ Scrolled
  /\ UNCHANGED printfVars

ScreenNext ==
  \/ MainStep
  \/ CallPrintf \/ PrintText \/ PrintDigit \/ PrintEnd \/ PrintHex \/ SetColours
  \/ Spin

ScreenSpec == ScreenInit /\ [][ScreenNext]_<<vars, printfVars>>

-----------------------------------------------------------------------------
(* With the real format strings, what a handler prints is what Terminal has  *)
(* it print: characters, and a line feed at the very end.                    *)
TerminalSpec == Spec

(* The main loop shares the colours with the handlers and sets none: when a  *)
(* handler has returned they are what they were, in the middle of the main   *)
(* loop's character, too.                                                    *)
MainColours == ~printing => fg = "white" /\ bg = "black"

Value(word) ==
  LET upto[k \in 0 .. Len(word)] ==
        IF k = 0 THEN 0 ELSE 16 * upto[k - 1] + word[k]
  IN  upto[Len(word)]

(* The digits of a number that has been drawn are its own, most significant  *)
(* first, the first one not a zero but of zero itself.                       *)
NumberShown ==
  printing /\ shown # <<>> /\ digits = <<>> =>
    /\ Value(shown) = number
    /\ shown[1] = 0 => number = 0 /\ Len(shown) = 1
=============================================================================
