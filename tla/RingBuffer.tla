----------------------------- MODULE RingBuffer -----------------------------
(***************************************************************************)
(* struct u8_ringbuf (klib/ringbuf) as the kernel uses it: the keyboard    *)
(* interrupt pushes, keyboard_main pops, and nothing is locked.  The       *)
(* consumer runs with interrupts enabled, so its reads and writes are      *)
(* modelled one memory access at a time, in the order of the -O2 build;    *)
(* the interrupt goes through an interrupt gate (IF = 0) on the only CPU,  *)
(* so a push is one step.                                                  *)
(*                                                                         *)
(* Addresses are offsets from rb->buffer, which is also the address of the *)
(* struct: p_end is RINGBUF_SIZE.                                          *)
(***************************************************************************)
EXTENDS Integers

CONSTANTS
  Byte,            \* what the interrupt handler pushes
  Nul,             \* what memset leaves in the buffer
  Stray,           \* a byte read from anywhere outside the buffer
  RINGBUF_SIZE,
  MaxBacklog,      \* environment: the typist is never further ahead than this;
                   \* RINGBUF_SIZE or more means no restriction
  MaxTicks         \* bound: how often the timer strikes a consumer at work

(* A ring of one slot would always be empty; Nul and Stray are no bytes. *)
ASSUME RingAssumption ==
  /\ RINGBUF_SIZE \in Nat /\ RINGBUF_SIZE >= 2
  /\ MaxBacklog \in Nat \ {0}
  /\ MaxTicks \in Nat
  /\ Nul \notin Byte /\ Stray \notin Byte /\ Nul # Stray

Elsewhere == -1                        \* any address far from the struct
Addr == Elsewhere .. (RINGBUF_SIZE + 1 + MaxTicks)
Slots == 0 .. (RINGBUF_SIZE - 1)

VARIABLES
  buffer, p_write, p_read,             \* the struct
  pc,                                  \* where the consumer is
  rdi, rax, rdx,                       \* its registers: rb, and two addresses
  more,                                \* the result of u8_rb_fifo_has_data
  byte,                                \* the byte popped, until putchar has it
  ticks                                \* history: timer interrupts that struck
                                       \* the consumer while it was at work

ring == <<buffer, p_write, p_read>>
registers == <<rdi, rax, rdx, more, byte>>
vars == <<ring, pc, registers, ticks>>

PopPc == {"pop_load", "pop_store", "pop_fetch", "pop_end", "pop_wrap"}
WorkPc == PopPc \cup {"data_load", "data_cmp", "test", "putchar"}
ConsumerPc == WorkPc \cup {"hlt", "fault"}

(* p_write is always a slot; p_read is at most a byte and a byte for each tick *)
(* behind them, as far as registers that the timer clobbers take it.           *)
TypeOK ==
  /\ buffer \in [Slots -> Byte \cup {Nul}]
  /\ p_write \in Slots
  /\ p_read \in Addr
  /\ pc \in ConsumerPc
  /\ rdi \in {0, Elsewhere} /\ rax \in Addr /\ rdx \in Addr
  /\ more \in BOOLEAN
  /\ byte \in Byte \cup {Nul, Stray}
  /\ ticks \in 0 .. MaxTicks

-----------------------------------------------------------------------------
(* u8_rb_fifo_init, then keyboard_main is entered. *)
Init ==
  /\ buffer = [i \in Slots |-> Nul]
  /\ p_write = 0 /\ p_read = 0
  /\ pc = "data_load"
  /\ rdi = 0 /\ rax = 0 /\ rdx = 0
  /\ more = FALSE /\ byte = Nul
  /\ ticks = 0

(* p++ on a pointer into, or not far behind, the buffer. *)
Succ(p) == IF p \in 0 .. (RINGBUF_SIZE + MaxTicks) THEN p + 1 ELSE Elsewhere

(* Mutant of Wrapped: > for >=. *)
WrappedLate(p) == IF p > RINGBUF_SIZE THEN 0 ELSE p

(* if (p >= p_end) p = buffer, for a p that was just advanced. *)
Wrapped(p) == IF p >= RINGBUF_SIZE THEN 0 ELSE p

(* u8_rb_fifo_push's makes room: p_read++, with no wrap. *)
Overrun(r, w) == IF r = w THEN r + 1 ELSE r

(* What the pointer field `field' reads as through rdi. *)
Through(field) == IF rdi = 0 THEN {field} ELSE Addr

Goto(from, to) == pc = from /\ pc' = to

(* Mutant of Resume: the hlt in a loop of its own. *)
StayInHlt == pc' = pc /\ rdi' = rdi

(* An interrupt returns behind the hlt; kernel_main's loop calls             *)
(* keyboard_main again, which first loads rdi.                               *)
Resume ==
  /\ pc' = IF pc = "hlt" THEN "data_load" ELSE pc
  /\ rdi' = IF pc = "hlt" THEN 0 ELSE rdi

-----------------------------------------------------------------------------
(* The queue as the two pointers describe it: a p_read at p_end stands for   *)
(* the start of the buffer.                                                  *)
ReadSlot == IF p_read >= RINGBUF_SIZE THEN 0 ELSE p_read

Backlog == IF p_write >= ReadSlot THEN p_write - ReadSlot
                                  ELSE p_write - ReadSlot + RINGBUF_SIZE

(* u8_rb_fifo_push, called by keyboard_irq_handler. *)
Push(b) ==
  /\ Backlog < MaxBacklog
  /\ buffer' = [buffer EXCEPT ![p_write] = b]
  /\ p_write' = Wrapped(p_write + 1)
  /\ p_read' = Overrun(p_read, p_write')
  /\ Resume
  /\ UNCHANGED <<rax, rdx, more, byte, ticks>>

(* An interrupt that ends a hlt and pushes nothing: the release of a key     *)
(* (isr33 saves every register), or the timer (hlt has no live register).    *)
QuietInterrupt ==
  /\ pc = "hlt"
  /\ Resume
  /\ UNCHANGED <<ring, rax, rdx, more, byte, ticks>>

(* isr_systick calls pic_eoi without saving a register: rdi and rax come     *)
(* back as 0x20, an address outside the struct and a true "has data".        *)
Systick ==
  /\ pc \in WorkPc
  /\ ticks < MaxTicks
  /\ ticks' = ticks + 1
  /\ rdi' = Elsewhere
  /\ rax' = Elsewhere
  /\ more' = TRUE
  /\ byte' = IF pc = "putchar" THEN Stray ELSE byte
  /\ UNCHANGED <<ring, pc, rdx>>

-----------------------------------------------------------------------------
(* while (u8_rb_fifo_has_data(kbuf)): two loads and a compare. *)
DataLoad ==
  /\ Goto("data_load", "data_cmp")
  /\ rax' \in Through(p_read)
  /\ UNCHANGED <<ring, rdi, rdx, more, byte, ticks>>

DataCmp ==
  /\ Goto("data_cmp", "test")
  /\ \E w \in Through(p_write) : more' = (w # rax)
  /\ UNCHANGED <<ring, rdi, rax, rdx, byte, ticks>>

Test ==
  /\ Goto("test", IF more THEN "pop_load" ELSE "hlt")
  /\ rdi' = 0
  /\ UNCHANGED <<ring, rax, rdx, more, byte, ticks>>

(* u8_rb_fifo_pop: ret = *(rb->p_read++) loads the pointer, stores it back   *)
(* advanced, and only then reads the byte.  A store through a clobbered rdi  *)
(* goes elsewhere.                                                           *)
PopLoad ==
  /\ Goto("pop_load", "pop_store")
  /\ rdx' \in Through(p_read)
  /\ rax' = Succ(rdx')
  /\ UNCHANGED <<ring, rdi, more, byte, ticks>>

PopStore ==
  /\ Goto("pop_store", "pop_fetch")
  /\ p_read' = IF rdi = 0 THEN rax ELSE p_read
  /\ UNCHANGED <<buffer, p_write, registers, ticks>>

(* An address from elsewhere may also not be mapped: isr14 prints and        *)
(* returns to the same instruction, for ever.                                *)
PopFetch ==
  /\ \/ /\ Goto("pop_fetch", "pop_end")
        /\ byte' = IF rdx \in Slots THEN buffer[rdx] ELSE Stray
     \/ /\ rdx = Elsewhere
        /\ Goto("pop_fetch", "fault")
        /\ UNCHANGED byte
  /\ UNCHANGED <<ring, rdi, rax, rdx, more, ticks>>

(* Mutants of AtEnd: > for >=, and == for >=. *)
AtEndLate(p) == p > RINGBUF_SIZE
AtEndExactly(p) == p = RINGBUF_SIZE

(* if (rb->p_read >= rb->p_end) rb->p_read = rb->buffer.  The comparison     *)
(* uses the pointer still in rax, and p_end read through rdi.                *)
AtEnd(p) == p >= RINGBUF_SIZE

PopEnd ==
  /\ \E wrap \in (IF rdi = 0 THEN {AtEnd(rax)} ELSE BOOLEAN) :
       Goto("pop_end", IF wrap THEN "pop_wrap" ELSE "putchar")
  /\ UNCHANGED <<ring, registers, ticks>>

PopWrap ==
  /\ Goto("pop_wrap", "putchar")
  /\ p_read' = IF rdi = 0 THEN 0 ELSE p_read
  /\ UNCHANGED <<buffer, p_write, registers, ticks>>

Putchar ==
  /\ Goto("putchar", "data_load")
  /\ byte' = Nul
  /\ rdi' = 0
  /\ UNCHANGED <<ring, rax, rdx, more, ticks>>

(* isr14 has printed, and the instruction that faulted faults again. *)
Refault ==
  /\ Goto("fault", "fault")
  /\ UNCHANGED <<ring, registers, ticks>>

Consumer ==
  \/ DataLoad \/ DataCmp \/ Test
  \/ PopLoad \/ PopStore \/ PopFetch \/ PopEnd \/ PopWrap
  \/ Putchar \/ Refault

Next ==
  \/ \E b \in Byte : Push(b)
  \/ QuietInterrupt
  \/ Systick
  \/ Consumer

Spec == Init /\ [][Next]_vars

(* The CPU executes keyboard_main, and a hlt does not last for ever: every   *)
(* key that is pressed is released, and the platform timer ticks.            *)
FairSpec == Spec /\ WF_vars(Consumer) /\ WF_vars(QuietInterrupt)

-----------------------------------------------------------------------------
(* However far the producer runs ahead, and wherever the timer clobbers the  *)
(* registers, p_read leaves [buffer, p_end] by one byte while a pop is in    *)
(* flight, and by one more for every tick: u8_rb_fifo_push leaves p_read at  *)
(* p_end (its p_read++ has no wrap), a pop in flight stores over the pointer *)
(* that a push moved, a tick makes a store miss the struct, but the faults   *)
(* do not add up.  A wild read needs a tick.                                 *)
ReadConfined ==
  /\ p_read \in 0 .. (RINGBUF_SIZE + 1 + ticks)
  /\ p_read > RINGBUF_SIZE + ticks => pc \in {"pop_fetch", "pop_end", "pop_wrap"}
  /\ rdx > RINGBUF_SIZE \/ rdx = Elsewhere \/ pc = "fault" => ticks > 0

(* The FIFO that the memory holds: the bytes from p_read up to p_write, and  *)
(* the byte of a pop that has already moved p_read.                          *)
SlotAt(i) == LET p == ReadSlot + i - 1
             IN  IF p >= RINGBUF_SIZE THEN p - RINGBUF_SIZE ELSE p

Queue == [i \in 1 .. Backlog |-> buffer[SlotAt(i)]]

Taken ==
  CASE pc = "pop_fetch" -> IF rdx \in Slots THEN buffer[rdx] ELSE Stray
    [] pc \in {"pop_end", "pop_wrap", "putchar"} -> byte
    [] OTHER -> Nul

Fifo == INSTANCE ByteFifo
          WITH NoByte <- Nul, Capacity <- RINGBUF_SIZE - 1,
               queue <- Queue, taken <- Taken

(* While the producer is never more than RINGBUF_SIZE - 1 bytes ahead and    *)
(* the timer strikes only in hlt, every interleaving of interrupts with the  *)
(* unlocked consumer is a FIFO that loses, invents and reorders nothing.     *)
FifoSpec == Fifo!Spec

(* A byte in the buffer does not wait for another key: whatever the moment   *)
(* of the push, even between the test and the hlt, after any overrun, and    *)
(* wherever the timer has clobbered the registers (up to MaxTicks times), a  *)
(* pop follows, unless a clobbered pointer has the CPU fault for ever.       *)
EveryByteTaken == p_write # p_read ~> pc \in {"putchar", "fault"}
=============================================================================
