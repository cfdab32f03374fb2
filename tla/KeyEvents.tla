----------------------------- MODULE KeyEvents ------------------------------
(***************************************************************************)
(* What the keyboard decoder promises: every stroke of a key is one event, *)
(* events take effect one at a time and in order, a press types at most    *)
(* one character and a release none.                                       *)
(***************************************************************************)
EXTENDS Keymap, Sequences

VARIABLES
  pending,        \* strokes not handled yet: [code, down]
  shift, caps,
  out             \* the characters typed so far

eventVars == <<pending, shift, caps, out>>

Init == pending = <<>> /\ shift = FALSE /\ caps = FALSE /\ out = <<>>

Stroke(code, down) ==
  /\ pending' = Append(pending, [code |-> code, down |-> down])
  /\ UNCHANGED <<shift, caps, out>>

Apply(key, down) ==
  /\ shift' = IF IsShift(key) THEN down ELSE shift
  /\ caps' = (caps # (key = KB_CAPSLOCK /\ ~down))
  /\ out' = IF Types(key) /\ down THEN Append(out, Char(key, caps)) ELSE out

Handle ==
  /\ pending # <<>>
  /\ pending' = Tail(pending)
  /\ \E key \in Lookup(shift, Head(pending).code) : Apply(key, Head(pending).down)

Next ==
  \/ \E code \in SampleCodes, down \in BOOLEAN : Stroke(code, down)
  \/ Handle

Spec == Init /\ [][Next]_eventVars
=============================================================================
