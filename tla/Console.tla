------------------------------- MODULE Console -------------------------------
(***************************************************************************)
(* From the key to the screen: the keyboard and its interrupt handler      *)
(* (Keyboard) joined to kernel_main's loop and the key buffer between them *)
(* (RingBuffer).  One interrupt is one step of both: the handler decodes a *)
(* byte, pushes what it types, and ends a hlt.  The loop runs one memory   *)
(* access at a time in between.                                            *)
(***************************************************************************)
EXTENDS Integers, Sequences

CONSTANTS
  OverRead, Keys, ExtendedKeys, MaxPresses, WireCapacity,
  RINGBUF_SIZE,
  MaxTicks         \* bound: how often the timer strikes keyboard_main at work

VARIABLES
  held, wire, break_next, shift_next, caps_lock, out, presses, replugs, misreads,
  buffer, p_write, p_read, pc, rdi, rax, rdx, more, byte, ticks,
  echoed                               \* history: what putchar was called with

KB == INSTANCE Keyboard WITH MaxReplugs <- 0

(* The buffer can hold a byte. *)
ASSUME ConsoleAssumption ==
  /\ KB!KeyboardAssumption
  /\ RINGBUF_SIZE \in Nat /\ RINGBUF_SIZE >= 2
  /\ MaxTicks \in Nat

Chars == KB!Ascii \cup {KB!Newline, KB!KB_BACKSPACE}

(* The typist stays within the buffer: RingDamage is about overruns.         *)
Stray == -1

RB == INSTANCE RingBuffer
        WITH Byte <- Chars, Nul <- KB!KB_NUL, MaxBacklog <- RINGBUF_SIZE - 1

kbVars == <<held, wire, break_next, shift_next, caps_lock, out, presses, replugs, misreads>>
rbVars == <<buffer, p_write, p_read, pc, rdi, rax, rdx, more, byte, ticks>>
vars == <<kbVars, rbVars, echoed>>

Init == KB!Init /\ RB!Init /\ echoed = <<>>

-----------------------------------------------------------------------------
User ==
  /\ \E k \in KB!AllKeys : KB!Press(k) \/ KB!Release(k)
  /\ UNCHANGED <<rbVars, echoed>>

(* What an interrupt of the keyboard does to the loop it interrupts. *)
Deliver ==
  \/ out' # out /\ RB!Push(out'[Len(out')])
  \/ out' = out /\ RB!QuietInterrupt
  \/ out' = out /\ pc # "hlt" /\ UNCHANGED rbVars

isr33 ==
  /\ KB!keyboard_irq_handler
  /\ Deliver
  /\ UNCHANGED echoed

(* The timer: in hlt it wakes the CPU, anywhere else it comes back with      *)
(* keyboard_main's rdi and rax overwritten.                                  *)
isr_systick ==
  /\ RB!QuietInterrupt \/ RB!Systick
  /\ UNCHANGED <<kbVars, echoed>>

keyboard_main ==
  /\ RB!Consumer
  /\ echoed' = IF pc = "putchar" THEN Append(echoed, byte) ELSE echoed
  /\ UNCHANGED kbVars

Next == User \/ isr33 \/ isr_systick \/ keyboard_main

Spec == Init /\ [][Next]_vars

(* Interrupts that are pending are taken, the loop runs when none is, keys   *)
(* do not stay down, and a hlt does not outlast the next tick.  That a tick  *)
(* finds the loop at work is possible, not certain.                          *)
FairSpec ==
  /\ Spec
  /\ WF_vars(isr33) /\ WF_vars(keyboard_main)
  /\ WF_vars(pc = "hlt" /\ isr_systick)

-----------------------------------------------------------------------------
(* The types of the two parts; on the screen are bytes, which only a tick at *)
(* work can make anything but characters.                                    *)
TypeOK ==
  /\ KB!TypeOK /\ RB!TypeOK
  /\ echoed \in Seq(Chars \cup {KB!KB_NUL, Stray})
  /\ ticks = 0 => echoed \in Seq(Chars)

(* As long as the timer has struck in hlt only, every character is in        *)
(* exactly one place, in the order it was typed: on the screen, in           *)
(* keyboard_main's hands, or in the buffer.  The proviso is the code's:      *)
(* isr_systick does not save rdi and rax, so that a tick inside the loop     *)
(* does lose, repeat or invent characters.                                   *)
NothingLost ==
  LET inHand == IF RB!Taken = KB!KB_NUL THEN <<>> ELSE <<RB!Taken>>
  IN  ticks = 0 => out = echoed \o inHand \o RB!Queue

(* Byte by byte, with shift, caps lock and extended keys, the handler        *)
(* implements whole key events: no interleaving of strokes and interrupts    *)
(* splits a code, takes a release for a press, or types a character twice or *)
(* with another key's shift.                                                 *)
EventSpec == KB!EventSpec

(* Once the wire is empty and no shift key is down, the decoder is neither   *)
(* shifted nor waits for the rest of a break code.                           *)
NoStuckShift == KB!NoStuckShift

(* The user strikes MaxPresses keys at most, and in the end the screen shows *)
(* just what they type, however the keyboard's interrupts and the ticks that *)
(* end a hlt fall between the test of the buffer and the hlt, unless a tick  *)
(* has struck keyboard_main at work (see NothingLost).                       *)
EveryKeyShown == <>[](ticks = 0 => echoed = out)
=============================================================================
