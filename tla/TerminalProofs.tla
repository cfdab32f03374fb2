---------------------------- MODULE TerminalProofs ----------------------------
(***************************************************************************)
(* The cursor of Terminal stays where it belongs on a screen of any size,  *)
(* and the handlers' real format strings, in Screen, change neither that   *)
(* nor the main loop's colours, whatever their numbers are.                *)
(***************************************************************************)
EXTENDS Screen, TLAPS, SequenceTheorems, WellFoundedInduction

USE TerminalAssumption DEF TerminalAssumption

(* What makes CursorAtRest inductive: a row of `height' is only ever there *)
(* while the main loop knows of it, and a column of `width' only until it    *)
(* looks at it next, never both.                                             *)
RowKnown ==
  /\ row = height => r = height
  /\ r = height => row >= height - 1 /\ pc \in {"wrap", "check", "scroll"}
  /\ pc = "scroll" => r = height

ColKnown ==
  /\ col = width => x = width
  /\ x = width => pc = "wrap" /\ r < height

OnTheWay == pc # "rest" => r >= 1

CharKnown == pc \in {"load", "draw", "move"} => c \in {Glyph, Backspace}

Placed == CursorOK /\ PlaceOK /\ RowKnown /\ ColKnown /\ OnTheWay /\ CharKnown

IInv == TypeOK /\ Placed

(* The boot leaves the cursor as the invariant wants it. *)
LEMMA InitIInv == Init => IInv
<1> SUFFICES ASSUME Init PROVE IInv
  OBVIOUS
<1>1. Placed
  BY DEF Init, Placed, CursorOK, PlaceOK, RowKnown, ColKnown, OnTheWay, CharKnown
<1>2. c \in Char \cup {None} /\ printing \in BOOLEAN
  BY DEF Init
<1> QED
  BY <1>1, <1>2 DEF IInv, TypeOK, Placed, PlaceOK

-----------------------------------------------------------------------------
(* Every step of the main loop and of a handler keeps the cursor in place. *)
LEMMA NextPlaced == Placed /\ [Next]_vars => Placed'
<1> SUFFICES ASSUME Placed, [Next]_vars PROVE Placed'
  OBVIOUS
<1> USE DEF Placed, CursorOK, PlaceOK, RowKnown, ColKnown, OnTheWay, CharKnown, mainVars,
            Char, Glyph, Newline, Backspace, None
<1>1. ASSUME NEW char \in Char, LoadRow(char) PROVE Placed'
  BY <1>1 DEF LoadRow, Goto
<1>2. CASE LoadCol
  BY <1>2 DEF LoadCol, Goto
<1>3. CASE Draw
  BY <1>3 DEF Draw, Goto
<1>4. CASE Move
  BY <1>4 DEF Move, Goto
<1>5. CASE Return
  BY <1>5 DEF Return, Goto
<1>6. CASE Down("down", "wrap")
  BY <1>6 DEF Down, Goto
<1>7. CASE Down("wrapped", "check")
  BY <1>7 DEF Down, Goto
<1>8. CASE Wrap
  <2>1. pc = "wrap" /\ UNCHANGED <<row, c, r>>
    BY <1>8 DEF Wrap
  <2>2. PICK known \in {x, col} :
          IF PastWidth(known) THEN pc' = "wrapped" /\ x' = 0 /\ col' = 0
                              ELSE pc' = "check" /\ x' = known /\ UNCHANGED col
    BY <1>8 DEF Wrap
  <2>3. CASE known >= width
    BY <2>1, <2>2, <2>3 DEF PastWidth
  <2>4. CASE known < width
    BY <2>1, <2>2, <2>4 DEF PastWidth
  <2> QED
    BY <2>3, <2>4
<1>9. CASE Check
  BY <1>9 DEF Check, PastHeight, Forget
<1>10. CASE Scrolled
  BY <1>10 DEF Scrolled, Goto, Forget
<1>11. CASE Interrupt
  BY <1>11 DEF Interrupt
<1>12. CASE PrintGlyph
  BY <1>12 DEF PrintGlyph, Settled, PastWidth, PastHeight
<1>13. CASE PrintNewline
  <2>1. row' = (IF row + 1 >= height THEN row ELSE row + 1) /\ col' = 0
    BY <1>13 DEF PrintNewline, Settled, PastWidth, PastHeight
  <2>2. UNCHANGED <<pc, c, r, x>> /\ printing' = FALSE
    BY <1>13 DEF PrintNewline
  <2> QED
    BY <2>1, <2>2
<1>14. CASE UNCHANGED vars
  BY <1>14 DEF vars
<1> QED
  BY <1>1, <1>2, <1>3, <1>4, <1>5, <1>6, <1>7, <1>8, <1>9, <1>10, <1>11,
     <1>12, <1>13, <1>14 DEF Next

(* And the rest of the state keeps its type. *)
LEMMA NextTypeOK == TypeOK /\ Placed' /\ [Next]_vars => TypeOK'
<1> SUFFICES ASSUME TypeOK, Placed', [Next]_vars PROVE TypeOK'
  OBVIOUS
<1>1. c' \in Char \cup {None}
  BY DEF TypeOK, Next, vars, mainVars, LoadRow, LoadCol, Draw, Move, Return, Down, Wrap,
         Check, Scrolled, Forget, Interrupt, PrintGlyph, PrintNewline
<1>2. printing' \in BOOLEAN
  BY DEF TypeOK, Next, vars, LoadRow, LoadCol, Draw, Move, Return, Down, Wrap,
         Check, Scrolled, Interrupt, PrintGlyph, PrintNewline
<1>3. CursorOK' /\ PlaceOK'
  BY DEF Placed
<1> QED
  BY <1>1, <1>2, <1>3 DEF TypeOK, PlaceOK

-----------------------------------------------------------------------------
(* The invariant of every execution. *)
LEMMA Invariance == Spec => []IInv
<1>1. Init => IInv
  BY InitIInv
<1>2. IInv /\ [Next]_vars => IInv'
  BY NextPlaced, NextTypeOK DEF IInv
<1> QED
  BY <1>1, <1>2, PTL DEF Spec

(* On a screen of any size, the state of the terminal is what it should be:  *)
(* the cursor is at most one row or column off it, and never at the top.     *)
THEOREM TypeCorrect == Spec => []TypeOK
<1>1. IInv => TypeOK
  BY DEF IInv
<1> QED
  BY <1>1, Invariance, PTL

(* The main loop finds the cursor on the screen, whatever handlers printed   *)
(* in the middle of its characters before.                                   *)
THEOREM CursorIsAtRest == Spec => []CursorAtRest
<1>1. IInv => CursorAtRest
  BY DEF IInv, Placed, CursorOK, RowKnown, ColKnown, CursorAtRest
<1> QED
  BY <1>1, Invariance, PTL

(* No pixel that the main loop draws is outside the frame buffer, backspaces *)
(* in column 0 included.                                                     *)
THEOREM MainDrawsInside == Spec => MainInside
<1>1. IInv /\ Draw => r * width + Target \in 0 .. (height * width - 1)
  <2> SUFFICES ASSUME IInv, Draw
               PROVE  r * width + Target \in 0 .. (height * width - 1)
    OBVIOUS
  <2> USE DEF IInv, Placed, CursorOK
  <2>1. pc = "draw" /\ r \in 1 .. (height - 1) /\ x \in 0 .. (width - 1)
    BY DEF Draw, Goto, RowKnown, ColKnown, OnTheWay
  <2>2. Target \in -1 .. (width - 1)
    BY <2>1 DEF Target
  <2>3. width <= r * width /\ r * width <= (height - 1) * width
    BY <2>1
  <2>4. (height - 1) * width = height * width - width
    OBVIOUS
  <2>5. r * width \in Int /\ height * width \in Int
    BY <2>1
  <2> QED
    BY <2>2, <2>3, <2>4, <2>5
<1>2. IInv /\ [Next]_vars =>
        [Draw => r * width + Target \in 0 .. (height * width - 1)]_vars
  BY <1>1
<1> QED
  BY <1>2, Invariance, PTL DEF Spec, MainInside

(* A handler's characters miss the screen by one row or one column, and only *)
(* where the main loop is between an overrun and its correction.             *)
THEOREM HandlerDrawsNear == Spec => HandlerNear
<1> DEFINE Near == \/ row < height /\ col < width
                   \/ row < height /\ col = width /\ pc = "wrap"
                   \/ row = height /\ col < width /\ pc \in {"wrap", "check", "scroll"}
<1>1. IInv => Near
  BY DEF IInv, Placed, CursorOK, RowKnown, ColKnown
<1>2. IInv /\ [Next]_vars => [PrintGlyph => Near]_vars
  BY <1>1
<1> QED
  BY <1>2, Invariance, PTL DEF Spec, HandlerNear

-----------------------------------------------------------------------------
(* Screen: the formats as sequences of tokens. *)
Colourings == {Sgr(4, 7), Sgr(3, 1)}
Token == {Text, Hex, Nl, Reset} \cup Colourings

(* A line feed is the last token. *)
FeedEnds(f) == \A i \in 1 .. Len(f) : f[i] = Nl => i = Len(f)

(* The last word on the colours is a reset. *)
ResetsAt(f, i) == f[i] = Reset /\ \A j \in 1 .. Len(f) : j > i => f[j] \notin Colourings
Resets(f) == \E i \in 1 .. Len(f) : ResetsAt(f, i)
Colourless(f) == \A i \in 1 .. Len(f) : f[i] \notin Colourings

Plain == fg = "white" /\ bg = "black"

(* What is left of a format still ends the line at its end only, and still   *)
(* brings the colours back if they are not back already.                     *)
Printf ==
  /\ fmt \in Seq(Token)
  /\ ~printing => Plain
  /\ printing => FeedEnds(fmt)
  /\ printing => Resets(fmt) \/ (Colourless(fmt) /\ Plain)

(* The kinds of tokens. *)
LEMMA Kinds ==
  \A t \in Token : /\ t[1] = "text" <=> t = Text
                   /\ t[1] = "hex" <=> t = Hex
                   /\ t[1] = "newline" <=> t = Nl
                   /\ t[1] = "reset" <=> t = Reset
                   /\ t[1] = "sgr" <=> t \in Colourings
  BY DEF Token, Colourings, Text, Hex, Nl, Reset, Sgr

(* A format that begins with the fault's tag, coloured and reset. *)
LEMMA TagResets ==
  ASSUME NEW f \in Seq(Token), FeedEnds(f), Colourless(f), Len(f) > 0
  PROVE  FaultTag \o f \in Seq(Token) /\ FeedEnds(FaultTag \o f) /\ Resets(FaultTag \o f)
<1> DEFINE tagged == FaultTag \o f
<1>1. FaultTag \in Seq(Token) /\ Len(FaultTag) = 5
  BY DEF FaultTag, Token, Colourings
<1>2. /\ \A i \in 1 .. 5 : FaultTag[i] # Nl
      /\ FaultTag[4] = Reset /\ FaultTag[5] = Reset
  BY DEF FaultTag, Nl, Sgr, Text, Reset
<1>3. /\ tagged \in Seq(Token) /\ Len(tagged) = 5 + Len(f)
      /\ \A i \in 1 .. (5 + Len(f)) : tagged[i] = IF i <= 5 THEN FaultTag[i] ELSE f[i - 5]
  <2>1. /\ tagged \in Seq(Token) /\ Len(tagged) = Len(FaultTag) + Len(f)
        /\ \A i \in 1 .. (Len(FaultTag) + Len(f)) :
             tagged[i] = IF i <= Len(FaultTag) THEN FaultTag[i] ELSE f[i - Len(FaultTag)]
    BY <1>1, ConcatProperties, ZenonT(30)
  <2> QED
    BY <1>1, <2>1
<1>4. Len(f) \in Nat
  OBVIOUS
<1> HIDE DEF tagged
<1>5. FeedEnds(tagged)
  <2> SUFFICES ASSUME NEW i \in 1 .. Len(tagged), tagged[i] = Nl PROVE i = Len(tagged)
    BY DEF FeedEnds
  <2>1. i > 5 /\ f[i - 5] = Nl
    BY <1>2, <1>3, <1>4
  <2>2. i - 5 \in 1 .. Len(f)
    BY <1>3, <1>4, <2>1
  <2> QED
    BY <1>3, <1>4, <2>1, <2>2 DEF FeedEnds
<1>6. ResetsAt(tagged, 5)
  <2>1. tagged[5] = Reset
    BY <1>2, <1>3, <1>4
  <2>2. ASSUME NEW j \in 1 .. Len(tagged), j > 5 PROVE tagged[j] \notin Colourings
    BY <1>3, <1>4, <2>2 DEF Colourless
  <2> QED
    BY <2>1, <2>2 DEF ResetsAt
<1>7. 5 \in 1 .. Len(tagged)
  BY <1>3, <1>4
<1> QED
  BY <1>3, <1>5, <1>6, <1>7 DEF Resets, tagged

(* Each of the handlers' formats is one. *)
LEMMA FormatsReset ==
  ASSUME NEW f \in Formats
  PROVE  f \in Seq(Token) /\ FeedEnds(f) /\ (Resets(f) \/ Colourless(f))
<1> DEFINE Plains == {<<Text, Nl>>, <<Text, Hex, Text, Nl>>, <<Text, Hex, Text>>}
<1>1. ASSUME NEW g \in Plains
      PROVE  g \in Seq(Token) /\ FeedEnds(g) /\ Colourless(g) /\ Len(g) > 0
  <2>1. Text # Nl /\ Hex # Nl /\ {Text, Hex, Nl} \subseteq Token \ Colourings
    BY DEF Token, Colourings, Text, Nl, Hex, Sgr
  <2>2. CASE g = <<Text, Nl>>
    BY <2>1, <2>2 DEF FeedEnds, Colourless
  <2>3. CASE g = <<Text, Hex, Text, Nl>>
    BY <2>1, <2>3 DEF FeedEnds, Colourless
  <2>4. CASE g = <<Text, Hex, Text>>
    BY <2>1, <2>4 DEF FeedEnds, Colourless
  <2> QED
    BY <2>2, <2>3, <2>4
<1>2. CASE f = <<Text, Hex, Text, Nl>>
  BY <1>1, <1>2
<1>3. CASE \E g \in Plains : f = FaultTag \o g
  BY <1>1, <1>3, TagResets
<1>4. (\E g \in Plains : f = FaultTag \o g) \/ f = <<Text, Hex, Text, Nl>>
  BY Zenon DEF Formats
<1> QED
  BY <1>2, <1>3, <1>4

(* Taking a token off. *)
LEMMA TailTokens ==
  ASSUME NEW f \in Seq(Token), f # <<>>
  PROVE  /\ Head(f) = f[1] /\ Head(f) \in Token /\ Tail(f) \in Seq(Token)
         /\ FeedEnds(f) => FeedEnds(Tail(f))
         /\ FeedEnds(f) /\ Head(f) = Nl => Tail(f) = <<>> /\ Len(f) = 1
         /\ Colourless(f) => Colourless(Tail(f))
         /\ \A i \in 1 .. Len(f) : ResetsAt(f, i) => i = 1 \/ Resets(Tail(f))
         /\ ResetsAt(f, 1) => Colourless(Tail(f))
<1>1. /\ Head(f) = f[1] /\ Head(f) \in Token /\ Tail(f) \in Seq(Token)
      /\ Len(f) \in Nat \ {0} /\ Len(Tail(f)) = Len(f) - 1
      /\ \A i \in 1 .. (Len(f) - 1) : Tail(f)[i] = f[i + 1]
  BY HeadTailProperties, EmptySeq
<1> DEFINE g == Tail(f)
<1> HIDE DEF g
<1>2. g \in Seq(Token) /\ Len(g) = Len(f) - 1 /\ \A i \in 1 .. Len(g) : g[i] = f[i + 1] /\ i + 1 \in 1 .. Len(f)
  BY <1>1 DEF g
<1>3. FeedEnds(f) => FeedEnds(g)
  <2> SUFFICES ASSUME FeedEnds(f), NEW i \in 1 .. Len(g), g[i] = Nl PROVE i = Len(g)
    BY DEF FeedEnds
  <2>1. f[i + 1] = Nl /\ i + 1 \in 1 .. Len(f)
    BY <1>2
  <2>2. i + 1 = Len(f)
    BY <2>1 DEF FeedEnds
  <2>3. Len(g) = Len(f) - 1 /\ Len(f) \in Int /\ i \in Int
    BY <1>1, <1>2
  <2> QED
    BY <2>2, <2>3
<1>4. ASSUME FeedEnds(f), Head(f) = Nl PROVE g = <<>> /\ Len(f) = 1
  <2>1. Len(f) = 1
    <3>1. 1 \in 1 .. Len(f) /\ f[1] = Nl
      BY <1>1, <1>4
    <3> QED
      BY <1>4, <3>1 DEF FeedEnds
  <2> QED
    BY <1>2, <2>1, EmptySeq
<1>5. Colourless(f) => Colourless(g)
  BY <1>1, <1>2 DEF Colourless
<1>6. ASSUME NEW i \in 1 .. Len(f), ResetsAt(f, i), i # 1 PROVE Resets(g)
  <2>1. i - 1 \in 1 .. Len(g) /\ g[i - 1] = Reset
    BY <1>1, <1>2, <1>6 DEF ResetsAt
  <2>2. ASSUME NEW j \in 1 .. Len(g), j > i - 1 PROVE g[j] \notin Colourings
    <3>1. j + 1 \in 1 .. Len(f) /\ j + 1 > i /\ g[j] = f[j + 1]
      BY <1>1, <1>2, <2>2
    <3> QED
      BY <1>6, <3>1 DEF ResetsAt
  <2> QED
    BY <2>1, <2>2 DEF Resets, ResetsAt
<1>7. ASSUME ResetsAt(f, 1) PROVE Colourless(g)
  BY <1>1, <1>2, <1>7 DEF ResetsAt, Colourless
<1> QED
  BY <1>1, <1>3, <1>4, <1>5, <1>6, <1>7 DEF g

-----------------------------------------------------------------------------
(* Taking off a token that is no colour's leaves the colours to what follows. *)
LEMMA SkipKeeps ==
  ASSUME Printf, printing, fmt # <<>>, Head(fmt) \in {Text, Hex},
         fmt' \in {fmt, Tail(fmt)}, UNCHANGED <<printing, fg, bg>>
  PROVE  Printf'
<1>1. /\ fmt \in Seq(Token) /\ Head(fmt) = fmt[1] /\ Tail(fmt) \in Seq(Token)
      /\ FeedEnds(fmt) /\ FeedEnds(Tail(fmt))
      /\ Colourless(fmt) => Colourless(Tail(fmt))
      /\ \A i \in 1 .. Len(fmt) : ResetsAt(fmt, i) => i = 1 \/ Resets(Tail(fmt))
  BY TailTokens DEF Printf
<1>2. ~ResetsAt(fmt, 1)
  BY <1>1 DEF ResetsAt, Text, Hex, Reset
<1>3. Resets(fmt) => Resets(Tail(fmt))
  BY <1>1, <1>2 DEF Resets
<1>4. CASE fmt' = fmt
  BY <1>1, <1>4 DEF Printf, Plain
<1>5. CASE fmt' = Tail(fmt)
  BY <1>1, <1>3, <1>5 DEF Printf, Plain
<1> QED
  BY <1>4, <1>5

(* Every step of printf, and of its caller, keeps to that. *)
LEMMA NextPrintf == Printf /\ [ScreenNext]_<<vars, printfVars>> => Printf'
<1> SUFFICES ASSUME Printf, [ScreenNext]_<<vars, printfVars>> PROVE Printf'
  OBVIOUS
<1>0. \A t \in Token : /\ t[1] = "text" <=> t = Text
                       /\ t[1] = "hex" <=> t = Hex
                       /\ t[1] = "newline" <=> t = Nl
                       /\ t[1] = "reset" <=> t = Reset
                       /\ t[1] = "sgr" <=> t \in Colourings
  BY Kinds
<1>1. ASSUME UNCHANGED <<fmt, printing, fg, bg>> PROVE Printf'
  BY <1>1 DEF Printf, Plain
<1>2. CASE MainStep
  <2>1. UNCHANGED printing
    BY <1>2 DEF MainStep, LoadRow, LoadCol, Draw, Move, Return, Down, Wrap, Check, Scrolled
  <2> QED
    BY <1>1, <1>2, <2>1 DEF MainStep, printfVars, colours
<1>3. CASE CallPrintf
  <2>1. ~printing /\ printing' /\ fmt' \in Formats /\ UNCHANGED <<fg, bg>>
    BY <1>3 DEF CallPrintf, Interrupt, colours
  <2>2. fmt' \in Seq(Token) /\ FeedEnds(fmt') /\ (Resets(fmt') \/ Colourless(fmt'))
    BY <2>1, FormatsReset
  <2> QED
    BY <2>1, <2>2 DEF Printf, Plain
<1>4. CASE PrintText
  BY <1>0, <1>4, SkipKeeps, TailTokens DEF PrintText, At, Printf, colours
<1>5. CASE PrintDigit
  BY <1>1, <1>5 DEF PrintDigit, colours
<1>6. CASE PrintHex
  BY <1>0, <1>6, SkipKeeps, TailTokens DEF PrintHex, At, Printf, colours, vars
<1>7. CASE PrintEnd
  <2>1. printing /\ fmt # <<>> /\ fmt \in Seq(Token) /\ Head(fmt) = Nl
    BY <1>0, <1>7, TailTokens DEF PrintEnd, At, Printf
  <2>2. fmt' = <<>> /\ ~printing' /\ UNCHANGED <<fg, bg>> /\ Len(fmt) = 1 /\ fmt[1] = Nl
    BY <1>7, <2>1, TailTokens DEF PrintEnd, colours, Printf
  <2>3. ~Resets(fmt)
    BY <2>2 DEF Resets, ResetsAt, Nl, Reset
  <2>4. fmt' \in Seq(Token)
    BY <2>2
  <2> QED
    BY <2>1, <2>2, <2>3, <2>4 DEF Printf, Plain
<1>8. CASE SetColours
  <2>1. /\ printing /\ fmt # <<>> /\ fmt \in Seq(Token) /\ fmt' = Tail(fmt) /\ printing'
        /\ Head(fmt) = Reset \/ Head(fmt) \in Colourings
    BY <1>0, <1>8, TailTokens DEF SetColours, At, Printf, vars
  <2>2. /\ Head(fmt) = fmt[1] /\ fmt' \in Seq(Token)
        /\ FeedEnds(fmt')
        /\ Colourless(fmt) => Colourless(fmt')
        /\ \A i \in 1 .. Len(fmt) : ResetsAt(fmt, i) => i = 1 \/ Resets(fmt')
        /\ ResetsAt(fmt, 1) => Colourless(fmt')
    BY <2>1, TailTokens DEF Printf
  <2>3. CASE Head(fmt) = Reset
    <3>1. Plain'
      BY <1>8, <2>3 DEF SetColours, AfterReset, Plain
    <3>2. Resets(fmt') \/ Colourless(fmt')
      BY <2>1, <2>2 DEF Printf, Resets
    <3> QED
      BY <2>1, <2>2, <3>1, <3>2 DEF Printf
  <2>4. CASE Head(fmt) \in Colourings
    <3>1. ~Colourless(fmt) /\ ~ResetsAt(fmt, 1)
      <4>1. 1 \in 1 .. Len(fmt)
        BY <2>1, EmptySeq
      <4>2. Reset \notin Colourings
        BY DEF Reset, Colourings, Sgr
      <4> QED
        BY <2>2, <2>4, <4>1, <4>2 DEF Colourless, ResetsAt
    <3>2. Resets(fmt')
      BY <2>1, <2>2, <3>1 DEF Printf, Resets
    <3> QED
      BY <2>1, <2>2, <3>2 DEF Printf
  <2> QED
    BY <2>1, <2>3, <2>4
<1>9. CASE Spin
  BY <1>1, <1>9 DEF Spin, vars, printfVars, colours
<1>10. CASE UNCHANGED <<vars, printfVars>>
  BY <1>1, <1>10 DEF vars, printfVars, colours
<1> QED
  BY <1>2, <1>3, <1>4, <1>5, <1>6, <1>7, <1>8, <1>9, <1>10 DEF ScreenNext

(* So it holds throughout, from the boot on. *)
LEMMA PrintfInvariant == ScreenSpec => []Printf
<1>1. ScreenInit => Printf
  BY DEF ScreenInit, Init, Printf, Plain
<1> QED
  BY <1>1, NextPrintf, PTL DEF ScreenSpec

-----------------------------------------------------------------------------
(* With the real format strings a handler prints characters and, at the very *)
(* end, a line feed: Screen implements Terminal.                             *)
THEOREM PrintfImplementsTerminal == ScreenSpec => TerminalSpec
<1>1. Printf /\ [ScreenNext]_<<vars, printfVars>> => [Next]_vars
  <2> SUFFICES ASSUME Printf, [ScreenNext]_<<vars, printfVars>> PROVE Next \/ UNCHANGED vars
    OBVIOUS
  <2>1. CASE MainStep
    BY <2>1 DEF MainStep, Next
  <2>2. CASE CallPrintf
    BY <2>2 DEF CallPrintf, Next
  <2>3. CASE PrintText \/ PrintDigit
    <3>1. PrintGlyph
      BY <2>3 DEF PrintText, PrintDigit, PrintGlyph, PutChar, At
    <3> QED
      BY <3>1 DEF Next
  <2>4. CASE PrintEnd
    <3>1. printing /\ fmt # <<>> /\ fmt \in Seq(Token) /\ Head(fmt) = Nl
      BY <2>4, Kinds, TailTokens DEF PrintEnd, At, Printf
    <3>2. Tail(fmt) = <<>>
      BY <3>1, TailTokens DEF Printf
    <3>3. printing' = FALSE
      BY <2>4, <3>2 DEF PrintEnd
    <3>4. col' = 0
      BY <2>4 DEF PrintEnd, PutChar, Settled
    <3>5. PrintNewline
      BY <2>4, <3>1, <3>3, <3>4 DEF PrintEnd, PutChar, PrintNewline
    <3> QED
      BY <3>5 DEF Next
  <2>5. CASE PrintHex \/ SetColours \/ Spin
    BY <2>5 DEF PrintHex, SetColours, Spin
  <2>6. CASE UNCHANGED <<vars, printfVars>>
    BY <2>6
  <2> QED
    BY <2>1, <2>2, <2>3, <2>4, <2>5, <2>6 DEF ScreenNext
<1>2. ScreenInit => Init
  BY DEF ScreenInit
<1> QED
  BY <1>1, <1>2, PrintfInvariant, PTL DEF ScreenSpec, TerminalSpec, Spec

(* The main loop never draws in a handler's colours, wherever in the middle  *)
(* of its character the handler came.                                        *)
THEOREM ColoursComeBack == ScreenSpec => []MainColours
<1>1. Printf => MainColours
  BY DEF Printf, Plain, MainColours
<1> QED
  BY <1>1, PrintfInvariant, PTL

(* So the characters stay on the screen with the real format strings, too.   *)
THEOREM ScreenDrawsInside ==
  ScreenSpec => []TypeOK /\ []CursorAtRest /\ MainInside /\ HandlerNear
<1>1. ScreenSpec => Spec
  BY PrintfImplementsTerminal, PTL DEF TerminalSpec
<1> QED
  BY <1>1, TypeCorrect, CursorIsAtRest, MainDrawsInside, HandlerDrawsNear, PTL
-----------------------------------------------------------------------------
(* Numbers.  ulltoa and the value of a word of digits are recursive: what    *)
(* they compute is shown by induction over a set of numbers, which is all of *)
(* them or has a least one outside it.                                       *)
LEMMA Induction ==
  ASSUME NEW S, 0 \in S, \A n \in Nat : n \in S => n + 1 \in S
  PROVE  \A n \in Nat : n \in S
<1> SUFFICES ASSUME Nat \ S # {} PROVE FALSE
  OBVIOUS
<1> DEFINE R == {p \in Nat \X Nat : p[1] < p[2]}
<1>1. IsWellFoundedOn(R, Nat)
  BY NatLessThanWellFounded, Zenon DEF OpToRel
<1>2. \A i, j \in Nat : i < j => <<i, j>> \in R
  OBVIOUS
<1> HIDE DEF R
<1>3. PICK n \in Nat \ S : \A m \in Nat \ S : <<m, n>> \notin R
  BY <1>1, WFMin
<1>4. n - 1 \in Nat /\ n - 1 < n
  BY <1>3
<1>5. n - 1 \in S
  BY <1>2, <1>3, <1>4
<1>6. (n - 1) + 1 \in S
  BY <1>4, <1>5
<1> QED
  BY <1>3, <1>6

(* The value of the first k digits, given that of the first k - 1.           *)
Shift(word, k, before) == 16 * before + word[k]

Values(word, N, f) == f = [k \in 0 .. N |-> IF k = 0 THEN 0 ELSE Shift(word, k, f[k - 1])]
ValueUpto(word) == CHOOSE f : Values(word, Len(word), f)

(* There is such a function, as far as one likes.                            *)
LEMMA ValueExists ==
  ASSUME NEW word, NEW N \in Nat
  PROVE  \E f : Values(word, N, f)
<1> DEFINE S == {M \in Nat : \E f : Values(word, M, f)}
<1>1. 0 \in S
  <2>1. Values(word, 0, [k \in 0 .. 0 |-> 0])
    BY DEF Values
  <2> QED
    BY <2>1
<1>2. ASSUME NEW M \in Nat, M \in S PROVE M + 1 \in S
  <2>1. PICK f : Values(word, M, f)
    BY <1>2
  <2> DEFINE g == [k \in 0 .. (M + 1) |-> IF k <= M THEN f[k] ELSE Shift(word, k, f[M])]
  <2>2. ASSUME NEW k \in 0 .. (M + 1)
        PROVE  g[k] = IF k = 0 THEN 0 ELSE Shift(word, k, g[k - 1])
    <3>1. CASE k = 0
      BY <2>1, <3>1 DEF Values
    <3>2. CASE k \in 1 .. M
      <4>1. k - 1 \in 0 .. M /\ k \in 0 .. M /\ k # 0
        BY <3>2
      <4>2. g[k] = f[k] /\ g[k - 1] = f[k - 1]
        BY <4>1
      <4>3. f[k] = Shift(word, k, f[k - 1])
        BY <2>1, <4>1 DEF Values
      <4> QED
        BY <4>1, <4>2, <4>3
    <3>3. CASE k = M + 1
      <4>1. k # 0 /\ ~(k <= M) /\ k - 1 = M /\ M \in 0 .. (M + 1) /\ M <= M
        BY <3>3
      <4>2. g[k] = Shift(word, k, f[M]) /\ g[k - 1] = f[M]
        BY <4>1
      <4> QED
        BY <4>1, <4>2
    <3> QED
      BY <3>1, <3>2, <3>3
  <2>3. g = [k \in 0 .. (M + 1) |-> g[k]]
    OBVIOUS
  <2> HIDE DEF g
  <2>4. Values(word, M + 1, g)
    BY <2>2, <2>3 DEF Values
  <2> QED
    BY <2>4
<1> HIDE DEF S
<1>3. N \in S
  BY <1>1, <1>2, Induction
<1> QED
  BY <1>3 DEF S

(* What Value computes, digit by digit.                                      *)
LEMMA ValueIs ==
  ASSUME NEW word \in Seq(Nat)
  PROVE  /\ Value(word) = ValueUpto(word)[Len(word)]
         /\ ValueUpto(word)[0] = 0
         /\ \A k \in 1 .. Len(word) : ValueUpto(word)[k] = Shift(word, k, ValueUpto(word)[k - 1])
<1>1. Len(word) \in Nat
  BY LenProperties
<1>2. Value(word) = ValueUpto(word)[Len(word)]
  BY DEF Value, ValueUpto, Values, Shift
<1>3. \E f : Values(word, Len(word), f)
  BY <1>1, ValueExists, Zenon
<1>4. Values(word, Len(word), ValueUpto(word))
  BY <1>3, Zenon DEF ValueUpto
<1>5. ValueUpto(word)[0] = 0
  BY <1>1, <1>4 DEF Values
<1>6. ASSUME NEW k \in 1 .. Len(word)
      PROVE  ValueUpto(word)[k] = Shift(word, k, ValueUpto(word)[k - 1])
  <2>1. k \in 0 .. Len(word) /\ k # 0
    BY <1>1
  <2> QED
    BY <1>4, <2>1 DEF Values
<1> QED
  BY <1>2, <1>5, <1>6

(* A digit more at the end.                                                  *)
LEMMA ValueAppend ==
  ASSUME NEW word \in Seq(Nat), NEW digit \in Nat
  PROVE  Value(Append(word, digit)) = 16 * Value(word) + digit
<1> DEFINE longer == Append(word, digit)
           S == {k \in Nat : k <= Len(word) => ValueUpto(longer)[k] = ValueUpto(word)[k]}
<1>1. /\ Len(word) \in Nat /\ longer \in Seq(Nat) /\ Len(longer) = Len(word) + 1
      /\ longer[Len(word) + 1] = digit /\ \A i \in 1 .. Len(word) : longer[i] = word[i]
  BY LenProperties, AppendProperties
<1> HIDE DEF longer
<1>2. 0 \in S
  BY <1>1, ValueIs
<1>3. ASSUME NEW k \in Nat, k \in S PROVE k + 1 \in S
  <2> SUFFICES ASSUME k + 1 <= Len(word) PROVE ValueUpto(longer)[k + 1] = ValueUpto(word)[k + 1]
    OBVIOUS
  <2>1. k + 1 \in 1 .. Len(word) /\ k + 1 \in 1 .. Len(longer) /\ (k + 1) - 1 = k /\ k <= Len(word)
    BY <1>1
  <2>2. ValueUpto(longer)[k] = ValueUpto(word)[k] /\ longer[k + 1] = word[k + 1]
    BY <1>1, <1>3, <2>1
  <2>3. /\ ValueUpto(word)[k + 1] = Shift(word, k + 1, ValueUpto(word)[k])
        /\ ValueUpto(longer)[k + 1] = Shift(longer, k + 1, ValueUpto(longer)[k])
    BY <1>1, <2>1, ValueIs
  <2> QED
    BY <2>2, <2>3 DEF Shift
<1> HIDE DEF S
<1>4. \A k \in Nat : k \in S
  BY <1>2, <1>3, Induction
<1>5. ValueUpto(longer)[Len(word)] = Value(word)
  <2>1. Len(word) <= Len(word)
    BY <1>1
  <2>2. ValueUpto(longer)[Len(word)] = ValueUpto(word)[Len(word)]
    BY <1>1, <1>4, <2>1, Zenon DEF S
  <2> QED
    BY <2>2, ValueIs
<1>6. Len(word) + 1 \in 1 .. Len(longer) /\ (Len(word) + 1) - 1 = Len(word)
  BY <1>1
<1>7. /\ Value(longer) = ValueUpto(longer)[Len(word) + 1]
      /\ ValueUpto(longer)[Len(word) + 1] = Shift(longer, Len(word) + 1, ValueUpto(longer)[Len(word)])
  BY <1>1, <1>6, ValueIs
<1> QED
  BY <1>1, <1>5, <1>7 DEF Shift, longer
(* The reversal in place puts every digit in its place, the middle one too.  *)
LEMMA ReversedIs ==
  ASSUME NEW str \in Seq(Nat)
  PROVE  /\ Reversed(str) \in Seq(Nat) /\ Len(Reversed(str)) = Len(str)
         /\ \A i \in 1 .. Len(str) : Reversed(str)[i] = str[(Len(str) + 1) - i]
<1>1. Len(str) \in Nat /\ DOMAIN str = 1 .. Len(str) /\ \A i \in 1 .. Len(str) : str[i] \in Nat
  BY LenProperties, ElementOfSeq
<1>2. ASSUME NEW i \in 1 .. Len(str) PROVE Reversed(str)[i] = str[(Len(str) + 1) - i]
  <2> DEFINE j == Len(str) + 1 - i
  <2>1. i \in DOMAIN str
    BY <1>1
  <2>2. Reversed(str)[i] = IF Apart(i, j) \/ Apart(j, i) THEN str[j] ELSE str[i]
    BY <2>1 DEF Reversed
  <2>3. j = (Len(str) + 1) - i /\ (~(i < j \/ j < i) => i = j)
    BY <1>1, SMTT(30)
  <2> QED
    BY <2>2, <2>3 DEF Apart
<1>3. ASSUME NEW i \in 1 .. Len(str) PROVE Reversed(str)[i] \in Nat
  BY <1>1, <1>2
<1>4. Reversed(str) \in [1 .. Len(str) -> Nat]
  BY <1>1, <1>3 DEF Reversed
<1>5. Reversed(str) \in Seq(Nat) /\ Len(Reversed(str)) = Len(str)
  BY <1>1, <1>4, SeqDef, LenProperties, SMTT(30)
<1> QED
  BY <1>2, <1>5

(* The first digit written is the last one shown.                            *)
LEMMA ReversedFront ==
  ASSUME NEW digit \in Nat, NEW str \in Seq(Nat)
  PROVE  Reversed(<<digit>> \o str) = Append(Reversed(str), digit)
<1> DEFINE longer == <<digit>> \o str
           a == Reversed(longer)
           b == Append(Reversed(str), digit)
           L == Len(str)
<1>1. /\ L \in Nat /\ longer \in Seq(Nat) /\ Len(longer) = L + 1
      /\ longer[1] = digit /\ \A i \in 1 .. L : longer[i + 1] = str[i]
  BY LenProperties, ConcatProperties
<1>2. /\ Reversed(str) \in Seq(Nat) /\ Len(Reversed(str)) = L
      /\ \A i \in 1 .. L : Reversed(str)[i] = str[(L + 1) - i]
  BY ReversedIs
<1>3. /\ b \in Seq(Nat) /\ Len(b) = L + 1 /\ b[L + 1] = digit
      /\ \A i \in 1 .. L : b[i] = Reversed(str)[i]
  BY <1>2, AppendProperties
<1> HIDE DEF longer
<1>4. /\ a \in Seq(Nat) /\ Len(a) = L + 1
      /\ \A i \in 1 .. (L + 1) : a[i] = longer[((L + 1) + 1) - i]
  BY <1>1, ReversedIs, ZenonT(30)
<1> HIDE DEF a, b, L
<1>5. ASSUME NEW i \in 1 .. (L + 1) PROVE a[i] = b[i]
  <2>1. CASE i = L + 1
    BY <1>1, <1>3, <1>4, <2>1
  <2>2. CASE i \in 1 .. L
    <3>1. /\ (L + 1) - i \in 1 .. L /\ ((L + 1) + 1) - i = ((L + 1) - i) + 1
          /\ i \in 1 .. (L + 1)
      BY <1>1, <2>2
    <3>2. a[i] = str[(L + 1) - i]
      BY <1>1, <1>4, <3>1
    <3> QED
      BY <1>2, <1>3, <2>2, <3>2
  <2> QED
    BY <1>1, <2>1, <2>2
<1>6. a = b
  BY <1>1, <1>3, <1>4, <1>5, SeqEqual
<1> QED
  BY <1>6 DEF a, b, longer

(* What the loop of ulltoa writes for each number, least significant first.  *)
Written(N, f) == f = [n \in 0 .. N |-> IF n = 0 THEN <<>> ELSE <<n % 16>> \o f[n \div 16]]
From(num) == CHOOSE f : Written(num, f)

(* There is such a function, as far as one likes.                            *)
LEMMA WrittenExists ==
  ASSUME NEW N \in Nat
  PROVE  \E f : Written(N, f)
<1> DEFINE S == {M \in Nat : \E f : Written(M, f)}
<1>1. 0 \in S
  <2>1. Written(0, [n \in 0 .. 0 |-> <<>>])
    BY DEF Written
  <2> QED
    BY <2>1
<1>2. ASSUME NEW M \in Nat, M \in S PROVE M + 1 \in S
  <2>1. PICK f : Written(M, f)
    BY <1>2
  <2> DEFINE top == <<(M + 1) % 16>> \o f[(M + 1) \div 16]
             g == [n \in 0 .. (M + 1) |-> IF n <= M THEN f[n] ELSE top]
  <2>2. ASSUME NEW n \in 0 .. (M + 1)
        PROVE  g[n] = IF n = 0 THEN <<>> ELSE <<n % 16>> \o g[n \div 16]
    <3>1. CASE n = 0
      BY <2>1, <3>1 DEF Written
    <3>2. CASE n \in 1 .. M
      <4>1. n \div 16 \in 0 .. M /\ n \in 0 .. M /\ n # 0
        BY <3>2
      <4>2. g[n] = f[n] /\ g[n \div 16] = f[n \div 16]
        BY <4>1
      <4>3. f[n] = <<n % 16>> \o f[n \div 16]
        BY <2>1, <4>1 DEF Written
      <4> QED
        BY <4>1, <4>2, <4>3
    <3>3. CASE n = M + 1
      <4>1. n # 0 /\ ~(n <= M) /\ n \div 16 \in 0 .. M
        BY <3>3
      <4>2. g[n] = top /\ g[n \div 16] = f[n \div 16]
        BY <4>1
      <4> QED
        BY <3>3, <4>1, <4>2
    <3> QED
      BY <3>1, <3>2, <3>3
  <2>3. g = [n \in 0 .. (M + 1) |-> g[n]]
    OBVIOUS
  <2> HIDE DEF g
  <2>4. Written(M + 1, g)
    BY <2>2, <2>3 DEF Written
  <2> QED
    BY <2>4
<1> HIDE DEF S
<1>3. N \in S
  BY <1>1, <1>2, Induction
<1> QED
  BY <1>3 DEF S

(* What Backwards computes, number by number.                                *)
LEMMA BackwardsIs ==
  ASSUME NEW num \in Nat
  PROVE  /\ Backwards(num, 16) = IF num = 0 THEN <<0>> ELSE From(num)[num]
         /\ From(num)[0] = <<>>
         /\ \A n \in 1 .. num : From(num)[n] = <<n % 16>> \o From(num)[n \div 16]
<1>1. Backwards(num, 16) = IF num = 0 THEN <<0>> ELSE From(num)[num]
  BY DEF Backwards, From, Written
<1>2. \E f : Written(num, f)
  BY WrittenExists, Zenon
<1>3. Written(num, From(num))
  BY <1>2, Zenon DEF From
<1>4. From(num)[0] = <<>>
  BY <1>3 DEF Written
<1>5. ASSUME NEW n \in 1 .. num PROVE From(num)[n] = <<n % 16>> \o From(num)[n \div 16]
  <2>1. n \in 0 .. num /\ n # 0
    OBVIOUS
  <2> QED
    BY <1>3, <2>1 DEF Written
<1> QED
  BY <1>1, <1>4, <1>5
(* The digits of n, least significant first: reversed they are worth n, and  *)
(* the last one is no zero.                                                  *)
DigitsOf(n, d) ==
  /\ d \in Seq(Nat) /\ Value(Reversed(d)) = n
  /\ n = 0 => d = <<>>
  /\ n > 0 => Len(d) > 0 /\ d[Len(d)] # 0

(* No digits are worth nothing.                                              *)
LEMMA NoDigits == DigitsOf(0, <<>>)
<1>0. <<>> \in Seq(Nat) /\ Len(<<>>) = 0
  OBVIOUS
<1>1. Reversed(<<>>) \in Seq(Nat) /\ Len(Reversed(<<>>)) = 0
  BY <1>0, ReversedIs
<1>2. Value(Reversed(<<>>)) = 0
  BY <1>1, ValueIs
<1> QED
  BY <1>2 DEF DigitsOf

(* One round of the loop.                                                    *)
LEMMA OneDigit ==
  ASSUME NEW n \in Nat \ {0}, NEW d, DigitsOf(n \div 16, d)
  PROVE  DigitsOf(n, <<n % 16>> \o d)
<1> DEFINE q == n \div 16
           e == n % 16
           longer == <<e>> \o d
<1>1. q \in Nat /\ e \in Nat /\ n = 16 * q + e
  OBVIOUS
<1>2. d \in Seq(Nat) /\ Value(Reversed(d)) = q /\ Reversed(d) \in Seq(Nat) /\ Len(d) \in Nat
  BY ReversedIs, LenProperties DEF DigitsOf
<1> HIDE DEF q, e
<1>3. Value(Reversed(longer)) = n
  <2>1. Reversed(longer) = Append(Reversed(d), e)
    BY <1>1, <1>2, ReversedFront
  <2>2. Value(Append(Reversed(d), e)) = 16 * Value(Reversed(d)) + e
    BY <1>1, <1>2, ValueAppend
  <2> QED
    BY <1>1, <1>2, <2>1, <2>2
<1>4. /\ longer \in Seq(Nat) /\ Len(longer) = Len(d) + 1
      /\ longer[1] = e /\ \A i \in 1 .. Len(d) : longer[i + 1] = d[i]
  BY <1>1, <1>2, ConcatProperties
<1> HIDE DEF longer
<1>5. Len(longer) > 0 /\ longer[Len(longer)] # 0
  <2>1. CASE q = 0
    <3>1. d = <<>>
      BY <2>1 DEF DigitsOf, q
    <3>2. Len(longer) = 1 /\ longer[1] = n
      BY <1>1, <1>4, <2>1, <3>1
    <3> QED
      BY <3>2
  <2>2. CASE q # 0
    <3>1. Len(d) > 0 /\ d[Len(d)] # 0
      BY <1>1, <2>2 DEF DigitsOf, q
    <3>2. Len(d) \in 1 .. Len(d) /\ Len(d) + 1 > 0
      BY <1>2, <3>1
    <3>3. longer[Len(d) + 1] = d[Len(d)]
      BY <1>4, <3>2
    <3> QED
      BY <1>4, <3>1, <3>2, <3>3
  <2> QED
    BY <2>1, <2>2
<1>6. DigitsOf(n, longer)
  BY <1>3, <1>4, <1>5 DEF DigitsOf
<1> QED
  BY <1>6 DEF longer, e

(* Round after round, ulltoa writes the digits of its number.                *)
LEMMA FromIsDigits ==
  ASSUME NEW num \in Nat
  PROVE  DigitsOf(num, From(num)[num])
<1> DEFINE S == {n \in Nat : \A m \in 0 .. n : m <= num => DigitsOf(m, From(num)[m])}
<1>1. 0 \in S
  BY BackwardsIs, NoDigits
<1>2. ASSUME NEW n \in Nat, n \in S PROVE n + 1 \in S
  <2>1. ASSUME NEW m \in 0 .. (n + 1), m <= num PROVE DigitsOf(m, From(num)[m])
    <3>1. CASE m \in 0 .. n
      BY <1>2, <2>1, <3>1
    <3>2. CASE m = n + 1
      <4>1. m \in Nat \ {0} /\ m \div 16 \in 0 .. n /\ m \div 16 <= num /\ m \in 1 .. num
        BY <2>1, <3>2
      <4>2. DigitsOf(m \div 16, From(num)[m \div 16])
        BY <1>2, <4>1
      <4>3. From(num)[m] = <<m % 16>> \o From(num)[m \div 16]
        BY <4>1, BackwardsIs
      <4>4. DigitsOf(m, <<m % 16>> \o From(num)[m \div 16])
        BY <4>1, <4>2, OneDigit
      <4> QED
        BY <4>3, <4>4
    <3> QED
      BY <2>1, <3>1, <3>2
  <2> QED
    BY <2>1
<1> HIDE DEF S
<1>3. num \in S
  BY <1>1, <1>2, Induction
<1> QED
  BY <1>3 DEF S

(* A number as it should be shown: its value, without leading zeros.         *)
IsNumber(n, word) ==
  /\ word \in Seq(Nat) /\ Len(word) > 0 /\ Value(word) = n
  /\ word[1] = 0 => n = 0 /\ Len(word) = 1

(* ulltoa is right for every number.                                         *)
LEMMA UlltoaIsNumber ==
  ASSUME NEW num \in Nat
  PROVE  IsNumber(num, ulltoa(num, 16))
<1>1. CASE num = 0
  <2> DEFINE zero == <<0>>
             word == Reversed(zero)
  <2>1. ulltoa(num, 16) = word
    BY <1>1, BackwardsIs DEF ulltoa
  <2>2. zero \in Seq(Nat) /\ Len(zero) = 1 /\ zero[1] = 0
    OBVIOUS
  <2>3. /\ word \in Seq(Nat) /\ Len(word) = Len(zero)
        /\ \A i \in 1 .. Len(zero) : word[i] = zero[(Len(zero) + 1) - i]
    BY <2>2, ReversedIs
  <2> HIDE DEF zero, word
  <2>4. Len(word) = 1 /\ word[1] = 0
    <3>1. 1 \in 1 .. Len(zero) /\ (Len(zero) + 1) - 1 = 1
      BY <2>2
    <3> QED
      BY <2>2, <2>3, <3>1
  <2>5. Value(word) = 0
    <3>1. 1 \in 1 .. Len(word) /\ 1 - 1 = 0
      BY <2>4
    <3>2. ValueUpto(word)[1] = Shift(word, 1, 0) /\ Value(word) = ValueUpto(word)[1]
      BY <2>3, <2>4, <3>1, ValueIs, ZenonT(30)
    <3> QED
      BY <2>4, <3>2 DEF Shift
  <2>6. IsNumber(0, word)
    BY <2>3, <2>4, <2>5 DEF IsNumber
  <2> QED
    BY <1>1, <2>1, <2>6
<1>2. CASE num # 0
  <2> DEFINE d == From(num)[num]
             word == Reversed(d)
  <2>1. ulltoa(num, 16) = word
    BY <1>2, BackwardsIs DEF ulltoa
  <2>2. /\ d \in Seq(Nat) /\ Value(word) = num
        /\ Len(d) > 0 /\ d[Len(d)] # 0
    BY <1>2, FromIsDigits DEF DigitsOf
  <2> HIDE DEF d
  <2>3. /\ word \in Seq(Nat) /\ Len(word) = Len(d) /\ Len(d) \in Nat
        /\ \A i \in 1 .. Len(d) : word[i] = d[(Len(d) + 1) - i]
    BY <2>2, ReversedIs, LenProperties
  <2> HIDE DEF word
  <2>4. 1 \in 1 .. Len(d) /\ (Len(d) + 1) - 1 = Len(d)
    BY <2>2, <2>3
  <2>5. word[1] # 0
    BY <2>2, <2>3, <2>4
  <2>6. IsNumber(num, word)
    BY <2>2, <2>3, <2>5 DEF IsNumber
  <2> QED
    BY <2>1, <2>6
<1> QED
  BY <1>1, <1>2

-----------------------------------------------------------------------------
(* A format has one number at most, and what has been drawn of it and what   *)
(* is left of ulltoa's buffer are together that number.                      *)
HexOnce(f) == \A i, j \in 1 .. Len(f) : f[i] = Hex /\ f[j] = Hex => i = j
HexFree(f) == \A i \in 1 .. Len(f) : f[i] # Hex

Numbered ==
  /\ number \in Nat /\ shown \in Seq(Nat) /\ digits \in Seq(Nat)
  /\ ~printing => shown = <<>> /\ digits = <<>>
  /\ printing => HexOnce(fmt)
  /\ shown # <<>> \/ digits # <<>> => HexFree(fmt) /\ IsNumber(number, shown \o digits)

(* Each of the handlers' formats has one number or none.                     *)
LEMMA FormatsNumber ==
  ASSUME NEW f \in Formats
  PROVE  HexOnce(f)
<1>1. Text # Hex /\ Nl # Hex /\ Reset # Hex /\ Sgr(4, 7) # Hex /\ Sgr(3, 1) # Hex
  BY DEF Text, Hex, Nl, Reset, Sgr
<1> DEFINE a == Sgr(4, 7)
           b == Sgr(3, 1)
<1>2. ASSUME NEW g \in {<<Text, Nl>>, <<Text, Hex, Text, Nl>>, <<Text, Hex, Text>>}
      PROVE  /\ g \in Seq(Token) /\ Len(g) \in Nat /\ \A i \in 1 .. Len(g) : g[i] = Hex => i = 2
  <2>1. {Text, Hex, Nl} \subseteq Token
    BY DEF Token
  <2>2. CASE g = <<Text, Nl>>
    BY <1>1, <2>1, <2>2
  <2>3. CASE g = <<Text, Hex, Text, Nl>>
    BY <1>1, <2>1, <2>3
  <2>4. CASE g = <<Text, Hex, Text>>
    BY <1>1, <2>1, <2>4
  <2> QED
    BY <2>2, <2>3, <2>4
<1>3. /\ FaultTag \in Seq(Token) /\ Len(FaultTag) = 5
      /\ \A i \in 1 .. 5 : FaultTag[i] # Hex
  <2>1. FaultTag \in Seq(Token) /\ Len(FaultTag) = 5
    BY DEF FaultTag, Token, Colourings
  <2> HIDE DEF a, b
  <2>2. FaultTag = <<a, b, Text, Reset, Reset>> /\ a # Hex /\ b # Hex
    BY <1>1 DEF FaultTag, a, b
  <2> QED
    BY <1>1, <2>1, <2>2
<1>4. CASE f = <<Text, Hex, Text, Nl>>
  BY <1>2, <1>4 DEF HexOnce
<1>5. ASSUME NEW g \in {<<Text, Nl>>, <<Text, Hex, Text, Nl>>, <<Text, Hex, Text>>}, f = FaultTag \o g
      PROVE  HexOnce(f)
  <2>1. g \in Seq(Token) /\ Len(g) \in Nat /\ \A i \in 1 .. Len(g) : g[i] = Hex => i = 2
    BY <1>2
  <2> DEFINE tagged == FaultTag \o g
  <2>0. FaultTag \in Seq(Token) /\ g \in Seq(Token)
    BY <1>3, <2>1
  <2>a. /\ Len(tagged) = Len(FaultTag) + Len(g)
        /\ \A i \in 1 .. (Len(FaultTag) + Len(g)) :
             tagged[i] = IF i <= Len(FaultTag) THEN FaultTag[i] ELSE g[i - Len(FaultTag)]
    BY <2>0, ConcatProperties, ZenonT(60)
  <2>b. f = tagged
    BY <1>5
  <2> HIDE DEF tagged
  <2>2. /\ Len(f) = 5 + Len(g)
        /\ \A i \in 1 .. (5 + Len(g)) : f[i] = IF i <= 5 THEN FaultTag[i] ELSE g[i - 5]
    BY <1>3, <2>a, <2>b
  <2>3. ASSUME NEW i \in 1 .. Len(f), f[i] = Hex PROVE i = 7
    <3>1. i > 5
      BY <1>3, <2>1, <2>2, <2>3
    <3>2. i - 5 \in 1 .. Len(g) /\ g[i - 5] = Hex
      BY <1>3, <2>1, <2>2, <2>3, <3>1
    <3>3. i - 5 = 2
      BY <2>1, <3>2
    <3> QED
      BY <2>1, <2>3, <3>3
  <2> QED
    BY <2>3 DEF HexOnce
<1>6. \/ f = <<Text, Hex, Text, Nl>>
      \/ \E g \in {<<Text, Nl>>, <<Text, Hex, Text, Nl>>, <<Text, Hex, Text>>} : f = FaultTag \o g
  BY Zenon DEF Formats
<1> QED
  BY <1>4, <1>5, <1>6

(* Taking a token off leaves one number at most, and none behind a number.   *)
LEMMA TailNumbers ==
  ASSUME NEW f \in Seq(Token), f # <<>>
  PROVE  /\ HexOnce(f) => HexOnce(Tail(f))
         /\ HexFree(f) => HexFree(Tail(f))
         /\ HexOnce(f) /\ Head(f) = Hex => HexFree(Tail(f))
<1> DEFINE g == Tail(f)
<1>1. /\ Len(f) \in Nat \ {0} /\ Head(f) = f[1] /\ g \in Seq(Token) /\ Len(g) = Len(f) - 1
      /\ \A i \in 1 .. (Len(f) - 1) : g[i] = f[i + 1]
  BY HeadTailProperties, EmptySeq
<1> HIDE DEF g
<1>2. \A i \in 1 .. Len(g) : i + 1 \in 1 .. Len(f) /\ g[i] = f[i + 1] /\ i + 1 # 1
  BY <1>1
<1>3. HexOnce(f) => HexOnce(g)
  <2> SUFFICES ASSUME HexOnce(f), NEW i \in 1 .. Len(g), NEW j \in 1 .. Len(g), g[i] = Hex, g[j] = Hex
               PROVE  i = j
    BY DEF HexOnce
  <2>1. i + 1 = j + 1
    BY <1>2 DEF HexOnce
  <2> QED
    BY <1>1, <2>1
<1>4. HexFree(f) => HexFree(g)
  BY <1>2 DEF HexFree
<1>5. HexOnce(f) /\ Head(f) = Hex => HexFree(g)
  <2>1. 1 \in 1 .. Len(f)
    BY <1>1
  <2> QED
    BY <1>1, <1>2, <2>1 DEF HexOnce, HexFree
<1> QED
  BY <1>3, <1>4, <1>5 DEF g
(* A digit that is drawn goes from the buffer to the screen.                 *)
LEMMA DigitMoves ==
  ASSUME NEW s \in Seq(Nat), NEW d \in Seq(Nat), d # <<>>
  PROVE  /\ Append(s, Head(d)) \in Seq(Nat) /\ Tail(d) \in Seq(Nat)
         /\ Append(s, Head(d)) \o Tail(d) = s \o d
<1> DEFINE h == Head(d)
           t == Tail(d)
<1>1. h \in Nat /\ t \in Seq(Nat) /\ d = <<h>> \o t
  BY HeadTailProperties
<1> HIDE DEF h, t
<1>2. <<h>> \in Seq(Nat) /\ Append(s, h) \in Seq(Nat) /\ Append(s, h) = s \o <<h>>
  BY <1>1, AppendIsConcat, AppendProperties
<1>3. (s \o <<h>>) \o t = s \o (<<h>> \o t)
  BY <1>1, <1>2, ConcatAssociative
<1>4. Append(s, h) \o t = s \o d
  BY <1>1, <1>2, <1>3
<1> QED
  BY <1>1, <1>2, <1>4 DEF h, t

(* A token that is not a number is taken off, or stays; nothing is drawn.    *)
LEMMA SkipNumbers ==
  ASSUME Numbered, Printf, printing, fmt # <<>>, fmt' \in {fmt, Tail(fmt)},
         UNCHANGED <<printing, number, digits, shown>>
  PROVE  Numbered'
<1>1. fmt \in Seq(Token)
  BY DEF Printf
<1>2. HexOnce(fmt') /\ (HexFree(fmt) => HexFree(fmt'))
  BY <1>1, TailNumbers DEF Numbered
<1> QED
  BY <1>2 DEF Numbered

(* Every step of printf leaves the digits those of its number.               *)
LEMMA NextNumbered == Numbered /\ Printf /\ Printf' /\ [ScreenNext]_<<vars, printfVars>> => Numbered'
<1> SUFFICES ASSUME Numbered, Printf, Printf', [ScreenNext]_<<vars, printfVars>> PROVE Numbered'
  OBVIOUS
<1>0. ASSUME fmt # <<>> PROVE Head(fmt) \in Token /\ (Head(fmt)[1] = "hex" <=> Head(fmt) = Hex)
  BY <1>0, TailTokens, Kinds DEF Printf
<1>1. ASSUME UNCHANGED <<fmt, number, digits, shown, printing>> PROVE Numbered'
  BY <1>1 DEF Numbered
<1>2. CASE MainStep
  <2>1. UNCHANGED printing
    BY <1>2 DEF MainStep, LoadRow, LoadCol, Draw, Move, Return, Down, Wrap, Check, Scrolled
  <2> QED
    BY <1>1, <1>2, <2>1 DEF MainStep, printfVars
<1>3. CASE CallPrintf
  <2>1. /\ ~printing /\ printing' /\ fmt' \in Formats /\ number' \in Nat
        /\ UNCHANGED <<digits, shown>>
    BY <1>3, ScreenAssumption DEF CallPrintf, Interrupt, ScreenAssumption
  <2>2. HexOnce(fmt')
    BY <2>1, FormatsNumber
  <2> QED
    BY <2>1, <2>2 DEF Numbered
<1>4. CASE PrintText
  BY <1>4, SkipNumbers DEF PrintText, At
<1>5. CASE PrintDigit
  <2>1. /\ printing /\ digits # <<>> /\ shown' = Append(shown, Head(digits)) /\ digits' = Tail(digits)
        /\ UNCHANGED <<printing, fmt, number>>
    BY <1>5 DEF PrintDigit
  <2>2. /\ shown' \in Seq(Nat) /\ digits' \in Seq(Nat) /\ shown' \o digits' = shown \o digits
    BY <2>1, DigitMoves DEF Numbered
  <2>3. HexFree(fmt) /\ IsNumber(number, shown \o digits) /\ HexOnce(fmt) /\ number \in Nat
    BY <2>1 DEF Numbered
  <2> QED
    BY <2>1, <2>2, <2>3 DEF Numbered
<1>6. CASE PrintHex
  <2>1. /\ printing /\ fmt # <<>> /\ fmt \in Seq(Token) /\ Head(fmt) = Hex /\ digits = <<>>
        /\ fmt' = Tail(fmt) /\ digits' = ulltoa(number, 16)
        /\ UNCHANGED <<printing, number, shown>>
    BY <1>0, <1>6 DEF PrintHex, At, vars, Printf
  <2>2. HexFree(fmt') /\ HexOnce(fmt')
    BY <2>1, TailNumbers DEF Numbered
  <2>3. ~HexFree(fmt)
    <3>1. 1 \in 1 .. Len(fmt) /\ Head(fmt) = fmt[1]
      BY <2>1, EmptySeq
    <3> QED
      BY <2>1, <3>1 DEF HexFree
  <2>4. shown = <<>>
    BY <2>3 DEF Numbered
  <2>5. IsNumber(number, digits') /\ digits' \in Seq(Nat)
    BY <2>1, UlltoaIsNumber DEF Numbered, IsNumber
  <2>6. <<>> \o digits' = digits'
    BY <2>5, ConcatEmptySeq
  <2> QED
    BY <2>1, <2>2, <2>4, <2>5, <2>6 DEF Numbered
<1>7. CASE PrintEnd
  <2>1. printing /\ fmt # <<>> /\ fmt \in Seq(Token) /\ Head(fmt) = Nl /\ digits = <<>>
    BY <1>7, Kinds, TailTokens DEF PrintEnd, At, Printf
  <2>2. fmt' = <<>>
    BY <1>7, <2>1, TailTokens DEF PrintEnd, Printf
  <2>3. ~printing' /\ number' = 0 /\ shown' = <<>> /\ digits' = <<>>
    BY <1>7, <2>1, <2>2 DEF PrintEnd
  <2> QED
    BY <2>3 DEF Numbered
<1>8. CASE SetColours
  BY <1>8, SkipNumbers DEF SetColours, At, vars
<1>9. CASE Spin
  BY <1>1, <1>9 DEF Spin, vars, printfVars
<1>10. CASE UNCHANGED <<vars, printfVars>>
  BY <1>1, <1>10 DEF vars, printfVars
<1> QED
  BY <1>2, <1>3, <1>4, <1>5, <1>6, <1>7, <1>8, <1>9, <1>10 DEF ScreenNext

(* Whatever number a handler prints, and however the loop is interrupted by  *)
(* it, its digits are on the screen as they should be once they all are:     *)
(* ulltoa's backwards loop and its reversal in place lose, double and        *)
(* reorder none, in numbers of any length.                                   *)
THEOREM NumbersAreShown == ScreenSpec => []NumberShown
<1>1. ScreenInit => Numbered
  BY DEF ScreenInit, Init, Numbered
<1>2. Numbered => NumberShown
  <2> SUFFICES ASSUME Numbered, printing, shown # <<>>, digits = <<>>
               PROVE  Value(shown) = number /\ (shown[1] = 0 => number = 0 /\ Len(shown) = 1)
    BY DEF NumberShown
  <2>1. IsNumber(number, shown \o <<>>) /\ shown \in Seq(Nat)
    BY DEF Numbered
  <2>2. shown \o <<>> = shown
    BY <2>1, ConcatEmptySeq
  <2> QED
    BY <2>1, <2>2 DEF IsNumber
<1> QED
  BY <1>1, <1>2, NextNumbered, PrintfInvariant, PTL DEF ScreenSpec
=============================================================================
