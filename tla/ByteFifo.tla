------------------------------ MODULE ByteFifo ------------------------------
(***************************************************************************)
(* What the key buffer promises the rest of the kernel: a bounded FIFO     *)
(* between the keyboard interrupt (producer) and keyboard_main (consumer). *)
(* At most Capacity bytes wait; a byte that arrives when the FIFO is full  *)
(* pushes out the oldest one ("bye bye data", ringbuf.c:16).  The byte     *)
(* keyboard_main has taken but not yet handed to putchar is `taken'.       *)
(***************************************************************************)
EXTENDS Naturals, Sequences

CONSTANTS
  Byte,      \* the bytes the interrupt handler may push
  NoByte,    \* no byte in transit
  Capacity   \* how many bytes may wait

VARIABLES queue, taken

fifoVars == <<queue, taken>>

Init == queue = <<>> /\ taken = NoByte

Put(b) ==
  /\ queue' = Append(IF Len(queue) < Capacity THEN queue ELSE Tail(queue), b)
  /\ UNCHANGED taken

Take ==
  /\ taken = NoByte
  /\ queue # <<>>
  /\ taken' = Head(queue)
  /\ queue' = Tail(queue)

Emit ==
  /\ taken # NoByte
  /\ taken' = NoByte
  /\ UNCHANGED queue

Next == (\E b \in Byte : Put(b)) \/ Take \/ Emit

Spec == Init /\ [][Next]_fifoVars
=============================================================================
