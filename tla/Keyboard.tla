------------------------------ MODULE Keyboard ------------------------------
(***************************************************************************)
(* kernel/keyboard.c after keyboard_init: a PS/2 keyboard that sends the   *)
(* make and break codes of scancode set 2 down the wire, and               *)
(* keyboard_irq_handler, which takes one byte per interrupt and keeps the  *)
(* rest of the protocol in break_next, shift_next and caps_lock.  The      *)
(* handler runs with IF = 0, so one interrupt is one step; the user may    *)
(* strike keys, and pull and replug the keyboard, between any two bytes.   *)
(***************************************************************************)
EXTENDS Keymap, Sequences, FiniteSets

CONSTANTS
  Keys,            \* the keys sent as one code
  ExtendedKeys,    \* the keys sent as SC_EXTENDED and a code
  MaxPresses,      \* bound: presses and typematic repeats
  MaxReplugs,      \* bound: unplugs
  WireCapacity     \* the keyboard's own buffer

(* A key is either extended or not. *)
ASSUME KeyboardAssumption ==
  /\ Keys \cap ExtendedKeys = {}
  /\ Keys \cup ExtendedKeys \subseteq SampleCodes
  /\ MaxPresses \in Nat /\ MaxReplugs \in Nat /\ WireCapacity \in Nat \ {0}

VARIABLES
  held,                                \* the keys that are down
  wire,                                \* bytes on their way: [code, break], where
                                       \* break tells whether a release sent it
  break_next, shift_next, caps_lock,   \* the handler's state
  out,                                 \* the bytes pushed to kbuf so far
  presses, replugs,                    \* history
  misreads                             \* history: strokes handled upside down

decoder == <<break_next, shift_next, caps_lock, out, misreads>>
user == <<held, presses, replugs>>
vars == <<user, wire, decoder>>

AllKeys == Keys \cup ExtendedKeys
WireByte == [code : 0 .. 255, break : BOOLEAN]

(* What is pushed is printable, a newline or a backspace, and the bytes wait *)
(* for the handler in a keyboard's buffer of WireCapacity.                   *)
TypeOK ==
  /\ held \subseteq AllKeys
  /\ wire \in Seq(WireByte) /\ Len(wire) <= WireCapacity
  /\ break_next \in BOOLEAN /\ shift_next \in BOOLEAN /\ caps_lock \in BOOLEAN
  /\ out \in Seq(Ascii \cup {Newline, KB_BACKSPACE})
  /\ presses \in 0 .. MaxPresses /\ replugs \in 0 .. MaxReplugs
  /\ misreads \in Nat

(* keyboard_init may leave answers unread, and the code of a break whose     *)
(* prefix it has read: that counts as an unplug.                             *)
Init ==
  /\ held = {}
  /\ \/ wire = <<>> /\ replugs = 0
     \/ wire = <<[code |-> SC_ACK, break |-> FALSE]>> /\ replugs = 0
     \/ /\ MaxReplugs > 0 /\ replugs = 1
        /\ \E k \in AllKeys : wire = <<[code |-> k, break |-> TRUE]>>
  /\ break_next = FALSE /\ shift_next = FALSE /\ caps_lock = FALSE
  /\ out = <<>>
  /\ presses = 0 /\ misreads = 0

-----------------------------------------------------------------------------
(* The keyboard. *)
Prefix(k) == IF k \in ExtendedKeys THEN <<SC_EXTENDED>> ELSE <<>>

MakeCodes(k) == Append(Prefix(k), k)
BreakCodes(k) == Prefix(k) \o <<KB_SCAN2_BREAK, k>>

Send(codes, break) ==
  /\ Len(wire) + Len(codes) <= WireCapacity
  /\ wire' = wire \o [i \in DOMAIN codes |-> [code |-> codes[i], break |-> break]]
  /\ UNCHANGED <<decoder, replugs>>

(* A key goes down, or repeats because it is held. *)
Press(k) ==
  /\ presses < MaxPresses
  /\ presses' = presses + 1
  /\ held' = held \cup {k}
  /\ Send(MakeCodes(k), FALSE)

Release(k) ==
  /\ k \in held
  /\ held' = held \ {k}
  /\ UNCHANGED presses
  /\ Send(BreakCodes(k), TRUE)

(* The keyboard is pulled, with whatever it has not sent yet, and plugged in *)
(* again, when it reports its self-test.                                     *)
Replug ==
  /\ replugs < MaxReplugs
  /\ replugs' = replugs + 1
  /\ held' = {}
  /\ \E sent \in 0 .. Len(wire) :
       /\ sent < WireCapacity
       /\ wire' = Append(SubSeq(wire, 1, sent), [code |-> SC_PASSED, break |-> FALSE])
  /\ UNCHANGED <<decoder, presses>>

-----------------------------------------------------------------------------
(* Mutant of AfterShift: the release of the right key is forgotten. *)
AfterLeftShift(key) ==
  IF key = KB_LSHIFT THEN ~break_next ELSE shift_next \/ key = KB_RSHIFT

(* Mutant of Pushed: a release types, too. *)
PushedTwice(key) == IF Types(key) THEN <<Char(key, caps_lock)>> ELSE <<>>

(* Mutant of AfterBreak: done instead of input_finished for the other keys. *)
AfterTypedBreak(key) == break_next /\ ~Types(key)

(* keyboard_irq_handler, for a byte that ends a make or a break code. *)
AfterShift(key) == IF IsShift(key) THEN ~break_next ELSE shift_next
AfterCaps(key) == IF key = KB_CAPSLOCK /\ break_next THEN ~caps_lock ELSE caps_lock
Pushed(key) == IF Types(key) /\ ~break_next THEN <<Char(key, caps_lock)>> ELSE <<>>
AfterBreak(key) == FALSE

Decode(byte) ==
  \E key \in Lookup(shift_next, byte.code) :
    /\ shift_next' = AfterShift(key)
    /\ caps_lock' = AfterCaps(key)
    /\ out' = out \o Pushed(key)
    /\ break_next' = AfterBreak(key)
    /\ misreads' = misreads + (IF break_next = byte.break THEN 0 ELSE 1)

keyboard_irq_handler ==
  /\ wire # <<>>
  /\ wire' = Tail(wire)
  /\ LET byte == Head(wire) IN
       \/ /\ byte.code = KB_SCAN2_BREAK
          /\ break_next' = TRUE
          /\ UNCHANGED <<shift_next, caps_lock, out, misreads>>
       \/ /\ byte.code # KB_SCAN2_BREAK
          /\ OutOfBounds(byte.code)
          /\ UNCHANGED decoder
       \/ /\ byte.code # KB_SCAN2_BREAK
          /\ ~OutOfBounds(byte.code)
          /\ Decode(byte)
  /\ UNCHANGED user

Next ==
  \/ \E k \in AllKeys : Press(k) \/ Release(k)
  \/ Replug
  \/ keyboard_irq_handler

Spec == Init /\ [][Next]_vars

-----------------------------------------------------------------------------
(* The decoder has no way to resynchronise, and needs none: an unplug in the *)
(* middle of a break code costs at most one stroke, which is taken for its   *)
(* opposite; the codes it ignores (self-test, extended) do not prolong the   *)
(* damage.                                                                   *)
DamageBounded == misreads <= replugs

(* Once the wire is empty and no shift key is down, the decoder is not       *)
(* shifted, in whatever order the two shift keys and the prefix bytes came.  *)
NoStuckShift ==
  replugs = 0 /\ wire = <<>> /\ held \cap {SC_LSHIFT, SC_RSHIFT} = {} =>
    ~shift_next /\ ~break_next

(* The strokes on the wire, each by the byte that ends its code. *)
IsStroke(byte) == byte.code # KB_SCAN2_BREAK /\ ~OutOfBounds(byte.code)
StrokeOf(byte) == [code |-> byte.code, down |-> ~byte.break]

Strokes(bytes) ==
  LET upto[n \in 0 .. Len(bytes)] ==
        IF n = 0 THEN <<>>
        ELSE IF IsStroke(bytes[n]) THEN Append(upto[n - 1], StrokeOf(bytes[n]))
        ELSE upto[n - 1]
  IN  upto[Len(bytes)]

Events == INSTANCE KeyEvents
            WITH pending <- Strokes(wire), shift <- shift_next, caps <- caps_lock

(* With the keyboard plugged in, the byte-wise handler implements whole key  *)
(* events: no interleaving of strokes and interrupts splits a code, takes a  *)
(* release for a press, or types a character twice or with another key's     *)
(* shift.                                                                    *)
EventSpec == Events!Spec
=============================================================================
