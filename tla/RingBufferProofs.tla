-------------------------- MODULE RingBufferProofs --------------------------
(***************************************************************************)
(* Theorems about RingBuffer, for every size of the buffer.  For every     *)
(* backlog and every number of ticks: where its pointers can be.  For a    *)
(* producer that leaves a slot free and a consumer that the timer does not *)
(* strike: it is the FIFO of module ByteFifo, at every interleaving.       *)
(***************************************************************************)
EXTENDS RingBuffer, TLAPS, SequenceTheorems

(* Advancing a pointer gives an address again: this is about u8_rb_fifo_pop's *)
(* p_read++.                                                                 *)
LEMMA SuccInAddr == \A p \in Addr : Succ(p) \in Addr
  BY RingAssumption DEF RingAssumption, Succ, Addr, Elsewhere

(* From a slot it is the next address.                                       *)
LEMMA SuccInside == \A p \in 0 .. (RINGBUF_SIZE - 1) : Succ(p) = p + 1
<1> SUFFICES ASSUME NEW p \in 0 .. (RINGBUF_SIZE - 1) PROVE Succ(p) = p + 1
  OBVIOUS
<1>1. p \in 0 .. (RINGBUF_SIZE + MaxTicks)
  BY RingAssumption DEF RingAssumption
<1> QED
  BY <1>1 DEF Succ

(* Every state the specification reaches is well-formed; in particular the   *)
(* producer's pointer never leaves the buffer.                               *)
THEOREM TypeCorrect == Spec => []TypeOK
<1> USE RingAssumption DEF RingAssumption, TypeOK, Slots, Addr, Elsewhere, ConsumerPc, WorkPc, PopPc
<1>1. Init => TypeOK
  <2> SUFFICES ASSUME Init PROVE TypeOK
    OBVIOUS
  <2>1. p_write \in Slots /\ p_read \in Addr /\ rax \in Addr /\ rdx \in Addr
    BY DEF Init
  <2>2. ticks \in 0 .. MaxTicks
    BY DEF Init
  <2>3. more \in BOOLEAN
    BY DEF Init
  <2> QED
    BY <2>1, <2>2, <2>3 DEF Init
<1>2. TypeOK /\ [Next]_vars => TypeOK'
  <2> SUFFICES ASSUME TypeOK, [Next]_vars PROVE TypeOK'
    OBVIOUS
  <2>1. ASSUME NEW b \in Byte, Push(b) PROVE TypeOK'
    <3>1. p_write' \in Slots
      BY <2>1 DEF Push, Wrapped
    <3>2. p_read' \in Addr
      BY <2>1, <3>1 DEF Push, Overrun
    <3> QED
      BY <2>1, <3>1, <3>2 DEF Push, Resume
  <2>2. CASE QuietInterrupt
    BY <2>2 DEF QuietInterrupt, Resume, ring
  <2>3. CASE Systick
    BY <2>3 DEF Systick, ring
  <2>4. CASE DataLoad
    BY <2>4 DEF DataLoad, Goto, Through, ring
  <2>5. CASE DataCmp
    BY <2>5 DEF DataCmp, Goto, ring
  <2>6. CASE Test
    BY <2>6 DEF Test, Goto, ring
  <2>7. CASE PopLoad
    <3>1. rdx' \in Addr
      BY <2>7 DEF PopLoad, Through
    <3>2. rax' \in Addr
      BY <2>7, <3>1, SuccInAddr DEF PopLoad
    <3>3. UNCHANGED <<buffer, p_write, p_read, rdi, byte, ticks>> /\ pc' = "pop_store"
      BY <2>7 DEF PopLoad, Goto, ring
    <3>4. more' \in BOOLEAN
      BY <2>7 DEF PopLoad
    <3> QED
      BY <3>1, <3>2, <3>3, <3>4
  <2>8. CASE PopStore
    BY <2>8 DEF PopStore, Goto, registers
  <2>9. CASE PopFetch
    BY <2>9 DEF PopFetch, Goto, ring
  <2>10. CASE PopEnd
    BY <2>10 DEF PopEnd, Goto, ring, registers
  <2>11. CASE PopWrap
    BY <2>11 DEF PopWrap, Goto, registers
  <2>12. CASE Putchar
    BY <2>12 DEF Putchar, Goto, ring
  <2>13. CASE UNCHANGED vars
    BY <2>13 DEF vars, ring, registers
  <2>14. CASE Refault
    BY <2>14 DEF Refault, Goto, ring, registers
  <2> QED
    BY <2>1, <2>2, <2>3, <2>4, <2>5, <2>6, <2>7, <2>8, <2>9, <2>10, <2>11,
       <2>12, <2>13, <2>14 DEF Next, Consumer
<1> QED
  BY <1>1, <1>2, PTL DEF Spec

-----------------------------------------------------------------------------
(* The strengthening of ReadConfined.  Between the load and the wrap of a    *)
(* pop, p_read is either the advanced pointer in rax or a value that a push  *)
(* has put inside [buffer, p_end]; a register that misses the struct was     *)
(* clobbered by a tick that has already been counted.                        *)
Confined ==
  /\ ReadConfined
  /\ rdi = Elsewhere => ticks > 0 /\ p_read <= RINGBUF_SIZE + ticks
  /\ pc \in {"pop_store", "pop_fetch"} /\ rdi = 0 =>
       rdx \in 0 .. (RINGBUF_SIZE + ticks) /\ rax = rdx + 1
  /\ pc \in {"pop_fetch", "pop_end"} /\ rdi = 0 => p_read = rax \/ p_read <= RINGBUF_SIZE

(* However far the producer is ahead and however many ticks clobber the      *)
(* consumer, the read pointer stays as close to the buffer as ReadConfined   *)
(* says.                                                                     *)
THEOREM ReadsConfined == Spec => []ReadConfined
<1> USE RingAssumption
    DEF RingAssumption, TypeOK, ReadConfined, Confined, Slots, Addr, Elsewhere, ConsumerPc, WorkPc, PopPc
<1>1. Init => Confined
  BY DEF Init
<1>2. TypeOK /\ TypeOK' /\ Confined /\ [Next]_vars => Confined'
  <2> SUFFICES ASSUME TypeOK, TypeOK', Confined, [Next]_vars PROVE Confined'
    OBVIOUS
  <2>1. ASSUME NEW b \in Byte, Push(b) PROVE Confined'
    <3>1. p_read' = p_read \/ p_read' \in 1 .. RINGBUF_SIZE
      BY <2>1 DEF Push, Overrun
    <3> QED
      BY <2>1, <3>1 DEF Push, Resume
  <2>2. CASE QuietInterrupt
    BY <2>2 DEF QuietInterrupt, Resume, ring
  <2>3. CASE Systick
    BY <2>3 DEF Systick, ring
  <2>4. CASE DataLoad
    BY <2>4 DEF DataLoad, Goto, Through, ring
  <2>5. CASE DataCmp
    BY <2>5 DEF DataCmp, Goto, ring
  <2>6. CASE Test
    BY <2>6 DEF Test, Goto, ring
  <2>7. CASE PopLoad
    <3>1. CASE rdi = 0
      BY <2>7, <3>1 DEF PopLoad, Goto, Through, Succ, ring
    <3>2. CASE rdi = Elsewhere
      BY <2>7, <3>2 DEF PopLoad, Goto, ring
    <3> QED
      BY <3>1, <3>2
  <2>8. CASE PopStore
    BY <2>8 DEF PopStore, Goto, registers
  <2>9. CASE PopFetch
    BY <2>9 DEF PopFetch, Goto, ring
  <2>10. CASE PopEnd
    <3>1. CASE rdi = 0
      <4>1. pc = "pop_end" /\ pc' = IF rax >= RINGBUF_SIZE THEN "pop_wrap" ELSE "putchar"
        BY <2>10, <3>1 DEF PopEnd, Goto, AtEnd
      <4>2. UNCHANGED <<p_read, rdi, rax, rdx, ticks>>
        BY <2>10 DEF PopEnd, ring, registers
      <4> QED
        BY <3>1, <4>1, <4>2
    <3>2. CASE rdi = Elsewhere
      BY <2>10, <3>2 DEF PopEnd, Goto, ring, registers
    <3> QED
      BY <3>1, <3>2
  <2>11. CASE PopWrap
    BY <2>11 DEF PopWrap, Goto, registers
  <2>12. CASE Putchar
    BY <2>12 DEF Putchar, Goto, ring
  <2>13. CASE UNCHANGED vars
    BY <2>13 DEF vars, ring, registers
  <2>14. CASE Refault
    BY <2>14 DEF Refault, Goto, ring, registers
  <2> QED
    BY <2>1, <2>2, <2>3, <2>4, <2>5, <2>6, <2>7, <2>8, <2>9, <2>10, <2>11,
       <2>12, <2>13, <2>14 DEF Next, Consumer
<1> QED
  BY <1>1, <1>2, TypeCorrect, PTL DEF Spec

-----------------------------------------------------------------------------
(* The environment of the theorem: the producer never fills the buffer.  The *)
(* other half is that isr_systick, which clobbers rdi and rax, has struck in *)
(* hlt only: ticks = 0.                                                      *)
PacedEnvironment == MaxBacklog < RINGBUF_SIZE

(* What makes the unlocked pop safe.  The pointer that keyboard_main has     *)
(* loaded into a register is still the one in memory at every step of the    *)
(* pop, since a push that finds a free slot leaves p_read alone; the buffer  *)
(* that has_data saw not empty has not become empty; and the slots between   *)
(* the pointers, the one being popped included, hold pushed bytes.           *)
Pop ==
  /\ rdi = 0
  /\ pc = "data_cmp" => rax = p_read
  /\ pc = "test" /\ more => p_write # p_read
  /\ pc \in {"pop_load", "pop_store"} => p_write # p_read
  /\ pc = "pop_store" => rdx = p_read /\ rax = rdx + 1
  /\ pc \in {"pop_fetch", "pop_end", "pop_wrap"} =>
       rdx \in Slots /\ rax = rdx + 1 /\ p_read = rax
  /\ pc = "pop_wrap" => p_read = RINGBUF_SIZE
  /\ p_read \in 0 .. RINGBUF_SIZE
  /\ p_read = RINGBUF_SIZE => pc \in {"pop_fetch", "pop_end", "pop_wrap"}
  /\ pc # "fault"

Bytes ==
  /\ Backlog < RINGBUF_SIZE
  /\ \A i \in 1 .. Backlog : buffer[SlotAt(i)] \in Byte
  /\ pc = "pop_fetch" => buffer[rdx] \in Byte
  /\ pc \in {"pop_end", "pop_wrap", "putchar"} => byte \in Byte

Paced == TypeOK /\ Pop /\ Bytes

-----------------------------------------------------------------------------
(* The queue in the memory is a sequence of bytes, as long as the distance   *)
(* of the two pointers.                                                      *)
SequenceOfBacklog ==
  /\ Backlog \in 0 .. (RINGBUF_SIZE - 1)
  /\ Queue \in Seq(Byte)
  /\ Len(Queue) = Backlog
  /\ \A i \in 1 .. Backlog : Queue[i] = buffer[SlotAt(i)] /\ SlotAt(i) \in Slots

(* In a paced state the queue is such a sequence ... *)
LEMMA QueueIsSequence == Paced => SequenceOfBacklog
<1> SUFFICES ASSUME Paced PROVE SequenceOfBacklog
  OBVIOUS
<1> USE RingAssumption DEF RingAssumption, Paced
<1>1. Backlog \in 0 .. (RINGBUF_SIZE - 1)
  BY DEF Pop, Bytes, Backlog, ReadSlot, TypeOK, Slots
<1>2. \A i \in 1 .. Backlog : SlotAt(i) \in Slots
  BY <1>1 DEF SlotAt, ReadSlot, Pop, Slots
<1>3. Queue \in [1 .. Backlog -> Byte]
  BY DEF Queue, Bytes
<1>4. Queue \in Seq(Byte)
  BY <1>1, <1>3, SeqDef
<1>5. Len(Queue) = Backlog
  BY <1>1, <1>3, <1>4, LenProperties
<1> QED
  BY <1>1, <1>2, <1>4, <1>5 DEF Queue, SequenceOfBacklog

(* ... and so it is after the step. *)
LEMMA QueueStaysSequence == Paced' => SequenceOfBacklog'
  BY QueueIsSequence, PTL

(* A push that finds a free slot moves p_write by one slot, which is not a   *)
(* slot of the queue nor that of a pop in flight, and leaves p_read alone.   *)
LEMMA PushMoves ==
  ASSUME PacedEnvironment, Paced, NEW b \in Byte, Push(b)
  PROVE  /\ Backlog \in 0 .. (RINGBUF_SIZE - 2) /\ Backlog' = Backlog + 1
         /\ p_read' = p_read
         /\ buffer' = [buffer EXCEPT ![p_write] = b]
         /\ \A i \in 1 .. (Backlog + 1) : SlotAt(i)' = SlotAt(i)
         /\ \A i \in 1 .. Backlog : SlotAt(i) \in Slots \ {p_write}
         /\ SlotAt(Backlog + 1) = p_write /\ p_write \in Slots
         /\ pc = "pop_fetch" => rdx \in Slots \ {p_write}
<1> USE RingAssumption DEF RingAssumption, PacedEnvironment, Paced
<1>1. Backlog \in 0 .. (RINGBUF_SIZE - 2)
  BY QueueIsSequence DEF Push, SequenceOfBacklog, TypeOK
<1>2. p_read' = p_read /\ ReadSlot' = ReadSlot
  BY <1>1 DEF Push, Overrun, Wrapped, ReadSlot, Backlog, Pop, TypeOK, Slots
<1>3. Backlog' = Backlog + 1
  BY <1>1, <1>2 DEF Push, Wrapped, ReadSlot, Backlog, Pop, TypeOK, Slots
<1>4. SlotAt(Backlog + 1) = p_write /\ p_write \in Slots
  BY <1>1 DEF SlotAt, ReadSlot, Backlog, Pop, TypeOK, Slots
<1>5. \A i \in 1 .. Backlog : SlotAt(i) \in Slots \ {p_write}
  BY <1>1 DEF SlotAt, ReadSlot, Backlog, Pop, TypeOK, Slots
<1>6. \A i \in 1 .. (Backlog + 1) : SlotAt(i)' = SlotAt(i)
  BY <1>2 DEF SlotAt
<1>7. pc = "pop_fetch" => rdx \in Slots \ {p_write}
  BY <1>1 DEF Backlog, ReadSlot, Pop, Slots
<1> QED
  BY <1>1, <1>2, <1>3, <1>4, <1>5, <1>6, <1>7 DEF Push

(* Storing the advanced p_read removes the first slot from the queue.        *)
LEMMA StoreMoves ==
  ASSUME Paced, PopStore
  PROVE  /\ pc = "pop_store" /\ pc' = "pop_fetch"
         /\ p_read \in Slots /\ p_read' = p_read + 1 /\ rdx = p_read
         /\ UNCHANGED <<buffer, p_write, registers>>
         /\ Backlog \in 1 .. (RINGBUF_SIZE - 1) /\ Backlog' = Backlog - 1
         /\ \A i \in 1 .. (Backlog - 1) : SlotAt(i)' = SlotAt(i + 1)
         /\ SlotAt(1) = p_read
<1> USE RingAssumption DEF RingAssumption, Paced
<1>1. /\ pc = "pop_store" /\ pc' = "pop_fetch"
      /\ p_read \in Slots /\ p_read' = p_read + 1 /\ rdx = p_read
      /\ p_write # p_read /\ UNCHANGED <<buffer, p_write, registers>>
  BY DEF PopStore, Goto, Pop, Slots
<1>2. Backlog \in 1 .. (RINGBUF_SIZE - 1)
  BY <1>1 DEF Backlog, ReadSlot, TypeOK, Slots
<1>3. Backlog' = Backlog - 1
  BY <1>1 DEF Backlog, ReadSlot, TypeOK, Slots
<1>4. \A i \in 1 .. (Backlog - 1) : SlotAt(i)' = SlotAt(i + 1)
  BY <1>1, <1>2 DEF SlotAt, ReadSlot, Slots
<1>5. SlotAt(1) = p_read
  BY <1>1 DEF SlotAt, ReadSlot, Slots
<1> QED
  BY <1>1, <1>2, <1>3, <1>4, <1>5

(* A step that leaves the pointers' slots and the buffer alone leaves the    *)
(* queue alone.                                                              *)
LEMMA QueueUnchanged ==
  ASSUME UNCHANGED <<buffer, p_write, ReadSlot>>
  PROVE  UNCHANGED <<Backlog, Queue>> /\ \A i : SlotAt(i)' = SlotAt(i)
<1>1. Backlog' = Backlog
  BY DEF Backlog
<1>2. \A i : SlotAt(i)' = SlotAt(i)
  BY DEF SlotAt
<1> QED
  BY <1>1, <1>2 DEF Queue

-----------------------------------------------------------------------------
(* A push appends its byte to the queue and does not touch the byte that a   *)
(* pop is about to fetch.                                                    *)
LEMMA PushAppends ==
  ASSUME PacedEnvironment, Paced, NEW b \in Byte, Push(b), Paced'
  PROVE  /\ Queue' = Append(Queue, b)
         /\ Len(Queue) < RINGBUF_SIZE - 1
         /\ Taken' = Taken
<1> USE RingAssumption, PushMoves DEF RingAssumption, Paced, SequenceOfBacklog
<1>1. buffer \in [Slots -> Byte \cup {Nul}]
  BY DEF TypeOK
<1>2. Append(Queue, b) \in Seq(Byte) /\ Len(Append(Queue, b)) = Backlog + 1
  BY QueueIsSequence
<1>3. Queue' \in Seq(Byte) /\ Len(Queue') = Backlog + 1
  BY QueueStaysSequence
<1>4. ASSUME NEW i \in 1 .. (Backlog + 1)
      PROVE  Queue'[i] = Append(Queue, b)[i]
  <2>1. Queue'[i] = buffer'[SlotAt(i)']
    BY DEF Queue
  <2>2. CASE i = Backlog + 1
    <3>1. Queue'[i] = b
      BY <1>1, <2>1, <2>2
    <3>2. Append(Queue, b)[Backlog + 1] = b
      BY QueueIsSequence
    <3> QED
      BY <2>2, <3>1, <3>2
  <2>3. CASE i \in 1 .. Backlog
    <3>1. Queue'[i] = buffer[SlotAt(i)]
      BY <1>1, <2>1, <2>3
    <3> QED
      BY <2>3, <3>1, QueueIsSequence
  <2>4. i = Backlog + 1 \/ i \in 1 .. Backlog
    OBVIOUS
  <2> QED
    BY <2>2, <2>3, <2>4
<1>5. Queue' = Append(Queue, b)
  BY <1>2, <1>3, <1>4, SeqEqual
<1>6. Taken' = Taken
  BY <1>1 DEF Taken, Push, Resume
<1> QED
  BY <1>5, <1>6, QueueIsSequence

(* Storing the advanced p_read is what takes the head of the queue.          *)
LEMMA StoreTakes ==
  ASSUME Paced, PopStore, Paced'
  PROVE  /\ Queue # <<>>
         /\ Taken' = Head(Queue)
         /\ Queue' = Tail(Queue)
<1> USE RingAssumption, StoreMoves DEF RingAssumption, Paced, SequenceOfBacklog
<1>1. Queue # <<>>
  BY QueueIsSequence
<1>2. Taken' = Head(Queue)
  <2>1. Taken' = buffer[p_read]
    BY DEF Taken, registers
  <2>2. Head(Queue) = Queue[1]
    BY <1>1, QueueIsSequence
  <2>3. Queue[1] = buffer[p_read]
    BY QueueIsSequence
  <2> QED
    BY <2>1, <2>2, <2>3
<1>3. /\ Tail(Queue) \in Seq(Byte)
      /\ Len(Tail(Queue)) = Backlog - 1
      /\ \A i \in 1 .. (Backlog - 1) : Tail(Queue)[i] = Queue[i + 1]
  BY <1>1, QueueIsSequence, HeadTailProperties
<1>4. Queue' \in Seq(Byte) /\ Len(Queue') = Backlog - 1
  BY QueueStaysSequence
<1>5. ASSUME NEW i \in 1 .. (Backlog - 1)
      PROVE  Queue'[i] = Tail(Queue)[i]
  <2>1. Queue'[i] = buffer[SlotAt(i + 1)]
    BY DEF Queue
  <2>2. Tail(Queue)[i] = buffer[SlotAt(i + 1)]
    BY <1>3, QueueIsSequence
  <2> QED
    BY <2>1, <2>2
<1>6. Queue' = Tail(Queue)
  BY <1>3, <1>4, <1>5, SeqEqual
<1> QED
  BY <1>1, <1>2, <1>6

-----------------------------------------------------------------------------
(* Every step but a push and the store of a pop leaves the queue alone.      *)
LEMMA QuietSteps ==
  ASSUME Paced, PacedEnvironment, [QuietInterrupt \/ Consumer]_vars, ~PopStore
  PROVE  UNCHANGED <<buffer, p_write, ReadSlot>>
<1> USE RingAssumption DEF RingAssumption, Paced, PacedEnvironment
<1>1. CASE QuietInterrupt \/ DataLoad \/ DataCmp \/ Test \/ PopLoad \/ PopFetch \/ PopEnd
        \/ Putchar \/ Refault \/ UNCHANGED vars
  BY <1>1 DEF QuietInterrupt, DataLoad, DataCmp, Test, PopLoad, PopFetch, PopEnd, Putchar,
     Refault, vars, ring, ReadSlot
<1>2. CASE PopWrap
  BY <1>2 DEF PopWrap, Goto, Pop, ReadSlot
<1> QED
  BY <1>1, <1>2 DEF Consumer

(* The pop's view of the pointers is preserved by every step but the timer's. *)
LEMMA PopPreserved ==
  ASSUME Paced, PacedEnvironment, [Next]_vars, ~Systick, TypeOK'
  PROVE  Pop'
<1> USE RingAssumption DEF RingAssumption, Paced, PacedEnvironment, Pop
<1>1. ASSUME NEW b \in Byte, Push(b) PROVE Pop'
  <2>1. p_read' = p_read /\ p_write' # p_read
    <3>1. p_read' = p_read /\ Backlog' >= 1
      BY <1>1, PushMoves
    <3>2. p_write' \in Slots
      BY DEF TypeOK
    <3>3. CASE p_read = RINGBUF_SIZE
      BY <3>1, <3>2, <3>3 DEF Slots
    <3>4. CASE p_read < RINGBUF_SIZE
      <4>1. ReadSlot' = p_read
        BY <3>1, <3>4 DEF ReadSlot
      <4>2. p_write' = p_read => Backlog' = 0
        BY <3>2, <4>1 DEF Backlog, Slots
      <4> QED
        BY <3>1, <4>2
    <3> QED
      BY <3>1, <3>3, <3>4
  <2> QED
    BY <1>1, <2>1 DEF Push, Resume
<1>2. CASE QuietInterrupt
  BY <1>2 DEF QuietInterrupt, Resume, ring
<1>3. CASE Refault
  BY <1>3 DEF Refault, Goto
<1>4. CASE DataLoad
  BY <1>4 DEF DataLoad, Goto, Through, ring
<1>5. CASE DataCmp
  BY <1>5 DEF DataCmp, Goto, Through, ring
<1>6. CASE Test
  BY <1>6 DEF Test, Goto, ring
<1>7. CASE PopLoad
  <2>1. rdx' = p_read /\ p_read \in 0 .. (RINGBUF_SIZE - 1) /\ p_write # p_read
    BY <1>7 DEF PopLoad, Goto, Through
  <2>2. Succ(p_read) = p_read + 1
    BY <2>1, SuccInside
  <2> QED
    BY <1>7, <2>1, <2>2 DEF PopLoad, Goto, ring
<1>8. CASE PopStore
  BY <1>8 DEF PopStore, Goto, registers, Slots
<1>9. CASE PopFetch
  BY <1>9 DEF PopFetch, Goto, ring, Slots, Elsewhere
<1>10. CASE PopEnd
  <2>1. pc = "pop_end" /\ pc' = IF rax >= RINGBUF_SIZE THEN "pop_wrap" ELSE "putchar"
    BY <1>10 DEF PopEnd, Goto, AtEnd
  <2>2. UNCHANGED <<p_write, p_read, rdi, rax, rdx>>
    BY <1>10 DEF PopEnd, ring, registers
  <2> QED
    BY <2>1, <2>2
<1>11. CASE PopWrap
  BY <1>11 DEF PopWrap, Goto, registers
<1>12. CASE Putchar
  BY <1>12 DEF Putchar, Goto, ring
<1>13. CASE UNCHANGED vars
  BY <1>13 DEF vars, ring, registers
<1> QED
  BY <1>1, <1>2, <1>3, <1>4, <1>5, <1>6, <1>7, <1>8, <1>9, <1>10, <1>11, <1>12, <1>13
     DEF Next, Consumer

(* Only pushed bytes are ever between the pointers or in a pop.              *)
LEMMA BytesPreserved ==
  ASSUME Paced, PacedEnvironment, [Next]_vars, ~Systick
  PROVE  Bytes'
<1> USE RingAssumption DEF RingAssumption, Paced, PacedEnvironment
<1>1. ASSUME NEW b \in Byte, Push(b) PROVE Bytes'
  <2> USE <1>1, PushMoves
  <2>1. buffer \in [Slots -> Byte \cup {Nul}]
    BY DEF TypeOK
  <2>2. ASSUME NEW i \in 1 .. (Backlog + 1) PROVE buffer'[SlotAt(i)'] \in Byte
    <3>1. CASE i = Backlog + 1
      BY <2>1, <3>1
    <3>2. CASE i \in 1 .. Backlog
      BY <2>1, <3>2 DEF Bytes
    <3>3. i = Backlog + 1 \/ i \in 1 .. Backlog
      OBVIOUS
    <3> QED
      BY <3>1, <3>2, <3>3
  <2>3. Backlog' < RINGBUF_SIZE
    OBVIOUS
  <2>4. pc' = "pop_fetch" => buffer'[rdx'] \in Byte
    BY <2>1 DEF Push, Resume, Bytes
  <2>5. pc' \in {"pop_end", "pop_wrap", "putchar"} => byte' \in Byte
    BY DEF Push, Resume, Bytes
  <2> QED
    BY <2>2, <2>3, <2>4, <2>5 DEF Bytes
<1>2. CASE PopStore
  <2> USE <1>2, StoreMoves
  <2>1. ASSUME NEW i \in 1 .. (Backlog - 1) PROVE buffer'[SlotAt(i)'] \in Byte
    BY DEF Bytes
  <2>2. buffer'[rdx'] \in Byte
    BY DEF Bytes, registers
  <2> QED
    BY <2>1, <2>2 DEF Bytes
<1>3. CASE ~PopStore /\ [QuietInterrupt \/ Consumer]_vars
  <2>1. Backlog' = Backlog /\ (\A i : SlotAt(i)' = SlotAt(i)) /\ buffer' = buffer
    BY <1>3, QuietSteps, QueueUnchanged
  <2>2. pc' # "pop_fetch" \/ (pc = "pop_fetch" /\ rdx' = rdx)
    BY <1>3 DEF Consumer, QuietInterrupt, Resume, TypeOK, DataLoad, DataCmp, Test, PopLoad,
       PopFetch, PopEnd, PopWrap, Putchar, Refault, Goto, vars, ring, registers
  <2>3. pc' \in {"pop_end", "pop_wrap", "putchar"} =>
          \/ pc \in {"pop_end", "pop_wrap", "putchar"} /\ byte' = byte
          \/ pc = "pop_fetch" /\ byte' = buffer[rdx]
    BY <1>3 DEF Consumer, QuietInterrupt, Resume, TypeOK, DataLoad, DataCmp, Test, PopLoad,
       PopFetch, PopEnd, PopWrap, Putchar, Refault, Goto, vars, ring, registers, Pop
  <2> QED
    BY <2>1, <2>2, <2>3 DEF Bytes
<1> QED
  BY <1>1, <1>2, <1>3 DEF Next

(* A strike at work is counted, and no count is taken back.                  *)
LEMMA TicksGrow ==
  ASSUME TypeOK, [Next]_vars, ticks' = 0
  PROVE  ticks = 0 /\ ~Systick
<1>1. ticks \in Nat
  BY RingAssumption DEF RingAssumption, TypeOK
<1>2. ~Systick
  BY <1>1 DEF Systick
<1>3. ticks' = ticks
  BY <1>2 DEF Next, Push, QuietInterrupt, Consumer, DataLoad, DataCmp, Test, PopLoad, PopStore,
     PopFetch, PopEnd, PopWrap, Putchar, Refault, vars
<1> QED
  BY <1>2, <1>3

(* Every execution stays paced until the timer strikes at work.              *)
LEMMA AlwaysPaced == PacedEnvironment => (Spec => [](ticks = 0 => Paced))
<1> SUFFICES ASSUME PacedEnvironment PROVE Spec => [](ticks = 0 => Paced)
  OBVIOUS
<1>1. Init => Pop /\ Bytes
  BY RingAssumption DEF RingAssumption, Init, Pop, Bytes, Backlog, ReadSlot
<1>2. (ticks = 0 => Paced) /\ TypeOK /\ TypeOK' /\ [Next]_vars => (ticks = 0 => Paced)'
  BY TicksGrow, PopPreserved, BytesPreserved DEF Paced
<1> QED
  BY <1>1, <1>2, TypeCorrect, PTL DEF Spec, Paced

(* putchar hands on the byte that was taken ... *)
LEMMA PutcharEmits ==
  ASSUME PacedEnvironment, Paced, Putchar
  PROVE  Queue' = Queue /\ Taken = byte /\ byte \in Byte /\ Taken' = Nul
<1>1. Queue' = Queue
  BY QuietSteps, QueueUnchanged DEF Consumer, PopStore, Putchar, Goto
<1>2. Taken = byte /\ byte \in Byte /\ Taken' = Nul
  BY RingAssumption DEF RingAssumption, Putchar, Goto, Taken, Paced, Bytes
<1> QED
  BY <1>1, <1>2

(* ... and no other step but a push and the store of a pop moves a byte.     *)
LEMMA NothingMoves ==
  ASSUME PacedEnvironment, Paced, ~PopStore, ~Putchar, [QuietInterrupt \/ Consumer]_vars
  PROVE  Queue' = Queue /\ Taken' = Taken
<1>1. Queue' = Queue
  BY QuietSteps, QueueUnchanged
<1>2. Taken' = Taken
  <2> USE RingAssumption DEF RingAssumption, PacedEnvironment, Paced
  <2>1. CASE QuietInterrupt \/ DataLoad \/ DataCmp \/ Test \/ PopLoad
    BY <2>1 DEF Taken, QuietInterrupt, Resume, DataLoad, DataCmp, Test, PopLoad, Goto, ring
  <2>2. CASE PopFetch
    BY <2>2 DEF Taken, PopFetch, Goto, Pop, Slots, Elsewhere, ring
  <2>3. CASE PopEnd \/ PopWrap
    BY <2>3 DEF Taken, PopEnd, PopWrap, Goto, ring, registers
  <2>4. CASE UNCHANGED vars
    BY <2>4 DEF Taken, vars, ring, registers
  <2>5. CASE Refault
    BY <2>5 DEF Refault, Goto, Pop
  <2> QED
    BY <2>1, <2>2, <2>3, <2>4, <2>5 DEF Consumer
<1> QED
  BY <1>1, <1>2

(* While the producer leaves a slot free and the timer strikes only in hlt,  *)
(* u8_rb_fifo_push, u8_rb_fifo_has_data and u8_rb_fifo_pop, interleaved      *)
(* access by access, behave as the atomic operations of a bounded FIFO.      *)
THEOREM RingIsFifo ==
  ASSUME PacedEnvironment
  PROVE  Spec /\ [](ticks = 0) => FifoSpec
<1>1. Init => Fifo!Init
  BY RingAssumption DEF RingAssumption, Init, Fifo!Init, Queue, Taken, Backlog, ReadSlot
<1>2. /\ ticks = 0 /\ (ticks = 0)'
      /\ (ticks = 0 => Paced) /\ (ticks = 0 => Paced)'
      /\ [Next]_vars
      => [Fifo!Next]_<<Queue, Taken>>
  <2> SUFFICES ASSUME Paced, Paced', ticks' = 0, [Next]_vars
               PROVE  [Fifo!Next]_<<Queue, Taken>>
    OBVIOUS
  <2>5. ~Systick
    BY TicksGrow DEF Paced
  <2>1. ASSUME NEW b \in Byte, Push(b) PROVE Fifo!Put(b)
    BY <2>1, PushAppends DEF Fifo!Put
  <2>2. CASE PopStore
    <3>1. Taken = Nul
      BY <2>2, StoreMoves DEF Taken
    <3> QED
      BY <2>2, <3>1, StoreTakes DEF Fifo!Take, Fifo!Next
  <2>3. CASE Putchar
    BY <2>3, PutcharEmits, RingAssumption DEF RingAssumption, Fifo!Emit, Fifo!Next
  <2>4. CASE ~PopStore /\ ~Putchar /\ [QuietInterrupt \/ Consumer]_vars
    BY <2>4, NothingMoves
  <2> QED
    BY <2>1, <2>2, <2>3, <2>4, <2>5 DEF Next, Consumer, Fifo!Next
<1> QED
  BY <1>1, <1>2, AlwaysPaced, PTL DEF Spec, FifoSpec, Fifo!Spec, Fifo!fifoVars
=============================================================================
