----------------------------- MODULE Interrupts -----------------------------
(***************************************************************************)
(* From the wire to the handler: kernel_main's boot order, the pair of     *)
(* 8259s as pic.c programs it, the gates interrupts_init installs, and     *)
(* what each handler does about the end of its interrupt.                  *)
(*                                                                         *)
(* The 8259s are edge-triggered: a line that rises sets a bit of irr, and  *)
(* a line that stays high sets nothing.  The keyboard controller's line is *)
(* high while its output buffer is full and its configuration byte lets it *)
(* raise IRQ1; what happens to both during keyboard_init is KeyboardInit.  *)
(* Every gate is an interrupt gate, so handlers do not nest.  Exceptions   *)
(* come between any two instructions of kernel_main, with interrupts off,  *)
(* too; one inside a handler is not modelled.                              *)
(***************************************************************************)
EXTENDS KeyboardInit

CONSTANTS
  Devices,         \* IRQs of the devices the kernel has no driver for
  Faults           \* exceptions kernel_main may meet

Master == 0 .. 7
Slave == 8 .. 15
Irqs == Master \cup Slave
Timer == 0
Keyboard == 1
Cascade == 2

(* Devices are those no other action models. *)
ASSUME InterruptsAssumption ==
  /\ Devices \subseteq Irqs \ {Timer, Keyboard, Cascade}
  /\ Faults \subseteq (0 .. 31) \ {8}    \* isr_handler does not return from #DF

VARIABLES
  pc,              \* where kernel_main is
  if_flag,         \* RFLAGS.IF
  gates,           \* the vectors with a gate in the IDT that is loaded
  irr, isr, imr,   \* requested, in service, masked: IRQs of both 8259s
  vector,          \* the vector being handled, or None
  hpc,             \* where its handler is
  frame_if,        \* IF in the frame that its iretq pops
  break_next,      \* keyboard_irq_handler's memory of a break prefix
  misreads         \* history: strokes it handled upside down, twice, or that
                   \* were none

pic == <<irr, isr, imr>>
handler == <<vector, hpc, frame_if>>
decoder == <<break_next, misreads>>
vars == <<pc, if_flag, gates, pic, handler, decoder, kb8042>>

None == -1
BeforeIdt == {"remap", "gates", "unmask", "lidt"}
BootPc == BeforeIdt \cup {"keyboard_init", "sti"}

(* Enough to tell whether misreads stays within its bound. *)
MisreadsShown == 3

(* The kernel, the 8259s and the handler that runs, each in its type. *)
TypeOK ==
  /\ ControllerTypeOK
  /\ pc \in BootPc \cup {"loop"}
  /\ if_flag \in BOOLEAN
  /\ gates \subseteq 0 .. 255
  /\ irr \subseteq Irqs /\ isr \subseteq Irqs /\ imr \subseteq Irqs
  /\ vector \in {None} \cup 0 .. 255
  /\ hpc \in {"body", "eoi", "iret"} /\ frame_if \in BOOLEAN
  /\ break_next \in BOOLEAN /\ misreads \in 0 .. MisreadsShown

Init ==
  /\ pc = "remap"                      \* kernel_main, as far as pic_remap
  /\ if_flag = FALSE                   \* boot.S and kernel_main's cli
  /\ gates = {}                        \* boot.S's empty_idt
  /\ irr = {} /\ isr = {} /\ imr = {}
  /\ vector = None /\ hpc = "body" /\ frame_if = FALSE
  /\ break_next = FALSE /\ misreads = 0
  /\ ControllerInit

-----------------------------------------------------------------------------
(* The 8259s. *)
Least(S) == {q \in S : \A r \in S : q <= r}
OnMaster(q) == IF q \in Slave THEN Cascade ELSE q

(* Nothing of the same or a higher priority is in service, on its own 8259   *)
(* and, for a slave's, on the master.                                        *)
Unblocked(q) ==
  /\ imr \cap {q, OnMaster(q)} = {}
  /\ \A s \in isr \cap Master : OnMaster(q) < s
  /\ q \in Slave => \A s \in isr \cap Slave : q < s

Before(q, r) ==
  \/ OnMaster(q) < OnMaster(r)
  \/ OnMaster(q) = OnMaster(r) /\ q <= r

Deliverable(q) ==
  /\ q \in irr /\ Unblocked(q)
  /\ \A r \in irr : Unblocked(r) => Before(q, r)

(* Mutant of Vector: the master's ICW2 is off by one. *)
VectorShifted(q) == IF q \in Slave THEN 40 + q - 8 ELSE 33 + q

(* pic_remap's ICW2: IRQ 0-7 from 0x20, IRQ 8-15 from 0x28. *)
Vector(q) == IF q \in Slave THEN 40 + q - 8 ELSE 32 + q

(* pic_eoi, on an in-service register: a non-specific EOI ends the highest   *)
(* priority in service.                                                      *)
AfterEoi(int_no, s) ==
  s \ (Least(s \cap Master) \cup IF int_no >= 40 THEN Least(s \cap Slave) ELSE {})

(* The keyboard controller's line, and what its rise does. *)
Line == full /\ "irq1" \in config

KeyboardLine == irr' = IF ~Line /\ Line' THEN irr \cup {Keyboard} ELSE irr

-----------------------------------------------------------------------------
(* The boot sequence.  *)
Goto(from, to) == pc = from /\ pc' = to

(* pic_remap: ICW1 also resets the edge detectors. *)
pic_remap ==
  /\ Goto("remap", "gates")
  /\ irr' = {} /\ isr' = {} /\ imr' = Irqs
  /\ UNCHANGED <<if_flag, gates, handler, decoder, kb8042>>

(* interrupts_init's gates, which no IDTR points to yet. *)
InstallGates ==
  /\ Goto("gates", "unmask")
  /\ UNCHANGED <<if_flag, gates, pic, handler, decoder, kb8042>>

pic_enable_all_irqs ==
  /\ Goto("unmask", "lidt")
  /\ imr' = {}
  /\ UNCHANGED <<if_flag, gates, irr, isr, handler, decoder, kb8042>>

(* Mutants of GateVectors: without the loop over the stubs; one too many.    *)
NamedVectors == 0 .. 33
OneMoreVector == 0 .. 256

(* The gates that interrupts_init has filled in. *)
GateVectors == 0 .. 255

idt_init ==
  /\ Goto("lidt", "keyboard_init")
  /\ gates' = GateVectors
  /\ UNCHANGED <<if_flag, pic, handler, decoder, kb8042>>

keyboard_init ==
  /\ pc = "keyboard_init"
  /\ PortAccess
  /\ KeyboardLine
  /\ pc' = IF step' > Len(Program) THEN "sti" ELSE pc
  /\ UNCHANGED <<if_flag, gates, isr, imr, handler, decoder>>

interrupts_enable ==
  /\ Goto("sti", "loop")
  /\ if_flag' = TRUE
  /\ UNCHANGED <<gates, pic, handler, decoder, kb8042>>

Boot ==
  /\ vector = None
  /\ \/ pic_remap \/ InstallGates \/ pic_enable_all_irqs \/ idt_init
     \/ keyboard_init \/ interrupts_enable

-----------------------------------------------------------------------------
(* The devices. *)
Raises(device) ==
  /\ device
  /\ KeyboardLine
  /\ UNCHANGED <<pc, if_flag, gates, isr, imr, handler, decoder>>

(* What other devices request before the loop only waits there, with IF = 0. *)
DeviceRequest(q) ==
  /\ pc = "loop"
  /\ irr' = irr \cup {q}
  /\ UNCHANGED <<pc, if_flag, gates, isr, imr, handler, decoder, kb8042>>

(* A tick takes far longer to come than its handler to run. *)
Tick == vector # Vector(Timer) /\ DeviceRequest(Timer)

-----------------------------------------------------------------------------
(* The CPU takes an interrupt between two instructions. *)
Interruptible == if_flag /\ vector = None

Enter(v) ==
  /\ if_flag' = FALSE /\ frame_if' = if_flag
  /\ vector' = v /\ hpc' = "body"

Accept(q) ==
  /\ Interruptible /\ Deliverable(q)
  /\ irr' = irr \ {q}
  /\ isr' = isr \cup {q, OnMaster(q)}
  /\ Enter(Vector(q))
  /\ UNCHANGED <<pc, gates, imr, decoder, kb8042>>

(* A device drops its request too late: the 8259 answers for its IRQ 7, with *)
(* nothing in service.                                                       *)
AcceptSpurious(q) ==
  /\ Interruptible /\ Unblocked(q)
  /\ isr' = IF q \in Slave THEN isr \cup {Cascade} ELSE isr
  /\ Enter(IF q \in Slave THEN Vector(15) ELSE Vector(7))
  /\ UNCHANGED <<pc, gates, irr, imr, decoder, kb8042>>

(* The keyboard controller's line has fallen since it rose, the byte having  *)
(* been polled: an 8259 that looks at it again answers for its IRQ 7.        *)
AcceptDropped ==
  /\ Interruptible /\ Deliverable(Keyboard) /\ ~Line
  /\ irr' = irr \ {Keyboard}
  /\ Enter(Vector(7))
  /\ UNCHANGED <<pc, gates, isr, imr, decoder, kb8042>>

(* An exception asks for no IF. *)
Fault(v) ==
  /\ vector = None
  /\ Enter(v)
  /\ UNCHANGED <<pc, gates, pic, decoder, kb8042>>

(* Without a gate there is none for the double fault either: the CPU resets, *)
(* and the machine boots again.                                              *)
Reset ==
  /\ vector # None /\ vector \notin gates
  /\ pc' = "remap" /\ if_flag' = FALSE /\ gates' = {}
  /\ irr' = {} /\ isr' = {} /\ imr' = {}
  /\ vector' = None /\ hpc' = "body" /\ frame_if' = FALSE
  /\ break_next' = FALSE /\ misreads' = 0
  /\ ControllerReset

(* Mutant of Systick: no EOI. *)
SystickUnended ==
  /\ vector = 32 /\ hpc = "body"
  /\ hpc' = "iret"
  /\ UNCHANGED <<pc, if_flag, frame_if, gates, pic, vector, decoder, kb8042>>

(* isr_systick *)
Systick ==
  /\ vector = 32 /\ hpc = "body"
  /\ hpc' = "eoi"
  /\ UNCHANGED <<pc, if_flag, frame_if, gates, pic, vector, decoder, kb8042>>

(* Mutants of IsIrq: also for the exceptions; not for the keyboard. *)
IsAnyVector(int_no) == int_no < 48
IsLaterIrq(int_no) == int_no > 33 /\ int_no < 48

(* isr_handler sends an EOI for the vectors of the 8259s only. *)
IsIrq(int_no) == int_no >= 32 /\ int_no < 48

(* A byte that is no stroke, or a fresh code that is taken for what it is.   *)
Harmless ==
  \/ data \in {"prefix", "reply"}
  \/ data \in Codes /\ full /\ break_next = (data = "break")

(* keyboard_irq_handler up to the bounds check; it looks at no status.  The  *)
(* keyboard's replies are out of bounds, codes and the 8042's answers not.   *)
keyboard_irq_handler ==
  /\ full' = FALSE
  /\ break_next' = CASE data = "prefix" -> TRUE
                      [] data = "reply" -> break_next
                      [] OTHER -> FALSE
  /\ misreads' = IF Harmless \/ misreads = MisreadsShown THEN misreads ELSE misreads + 1
  /\ UNCHANGED <<host, ibf, data, expects, config, keyboard>>

isr_handler ==
  /\ vector \in 0 .. 31 \cup {33} /\ hpc = "body"
  /\ \/ vector = 33 /\ keyboard_irq_handler
     \/ vector # 33 /\ UNCHANGED <<decoder, kb8042>>
  /\ hpc' = IF IsIrq(vector) THEN "eoi" ELSE "iret"
  /\ UNCHANGED <<pc, if_flag, frame_if, gates, pic, vector>>

(* isr_stub_handler only prints. *)
isr_stub_handler ==
  /\ vector \in 34 .. 255 /\ hpc = "body"
  /\ hpc' = "iret"
  /\ UNCHANGED <<pc, if_flag, frame_if, gates, pic, vector, decoder, kb8042>>

pic_eoi ==
  /\ vector # None /\ hpc = "eoi"
  /\ isr' = AfterEoi(vector, isr)
  /\ hpc' = "iret"
  /\ UNCHANGED <<pc, if_flag, frame_if, gates, irr, imr, vector, decoder, kb8042>>

Iret ==
  /\ vector # None /\ hpc = "iret"
  /\ if_flag' = frame_if /\ frame_if' = FALSE
  /\ vector' = None
  /\ UNCHANGED <<pc, gates, pic, hpc, decoder, kb8042>>

Handler ==
  /\ vector \in gates
  /\ Systick \/ isr_handler \/ isr_stub_handler \/ pic_eoi \/ Iret

Next ==
  \/ Boot
  \/ Raises(ControllerStep) \/ Raises(Reply) \/ Raises(KeyArrives)
  \/ Tick \/ \E q \in Devices : DeviceRequest(q)
  \/ \E q \in Irqs : Accept(q)
  \/ \E q \in Devices : AcceptSpurious(q)
  \/ AcceptDropped
  \/ \E v \in Faults : Fault(v)
  \/ Handler \/ Reset

Spec == Init /\ [][Next]_vars

(* Boot and handlers run; the keyboard and its controller get round to their *)
(* commands; an interrupt that stays deliverable, or is so again and again   *)
(* between other handlers, is taken.                                         *)
FairSpec ==
  /\ Spec
  /\ WF_vars(Boot) /\ WF_vars(Handler) /\ WF_vars(Reset)
  /\ WF_vars(Raises(ControllerStep)) /\ WF_vars(Raises(Reply))
  /\ SF_vars(\E q \in Irqs : Accept(q))
  /\ SF_vars(Accept(Keyboard))

-----------------------------------------------------------------------------
(* interrupts.c:49: an EOI for every interrupt that an IRQ triggered, so     *)
(* that nothing stays in service once the handlers are through.              *)
EveryIrqEnded == vector = None => isr = {}

(* The EOIs that the stub owes cannot silence the two devices the kernel     *)
(* serves: between handlers nothing is in service that blocks the timer or   *)
(* the keyboard, whatever the other devices and spurious interrupts left.    *)
ServedNotBlocked ==
  vector = None /\ pc = "loop" => Unblocked(Timer) /\ Unblocked(Keyboard)

(* A non-specific EOI names no IRQ; the one it ends is the handler's own,    *)
(* although in-service bits of older interrupts are never cleared.           *)
EoiIsOwn ==
  [][pic_eoi => isr \ isr' = {vector - 32}]_vars

(* No interrupt is taken before its gate is there and the keyboard driver is *)
(* initialised, not even when an exception strikes the boot and its iretq    *)
(* restores the flags.  Exceptions wait for nothing: one before idt_init     *)
(* meets no gate, and none after it.                                         *)
GateThere ==
  vector # None =>
    /\ vector \in gates \/ (vector < 32 /\ pc \in BeforeIdt)
    /\ vector >= 32 => pc = "loop"

(* isr_handler returns to the instruction that faulted: in the boot nothing  *)
(* but that instruction runs while it goes on faulting.                      *)
BootFault == pc # "loop" /\ \E v \in Faults : Fault(v)

(* A byte in the keyboard controller is read in the end, whenever it came:   *)
(* edges are lost while pic_remap resets the detectors, but the buffer is    *)
(* drained after that, and a later byte raises the line again.  Exceptions   *)
(* in the boot may delay that, and reset the CPU, but not without end.       *)
EveryByteRead == <>[][~BootFault]_vars => (full ~> ~full)

(* Whatever byte keyboard_init took for the configuration: once interrupts   *)
(* are on, the keyboard may send, IRQ1 may come and codes are as sent.       *)
ConfigSafe == pc = "loop" => config = {"irq1"}

(* Nobody waits for ever in keyboard_init, neither for the input buffer nor  *)
(* for an answer, although reads and answers are not paired: the boot ends   *)
(* unless keys come or exceptions strike it for ever.                        *)
InitEnds == <>[][~KeyArrives /\ ~BootFault]_vars => <>(pc = "loop")

(* What keyboard_init leaves behind, half a code or an interrupt whose byte  *)
(* it has read itself, costs at most two strokes in all.  An answer of the   *)
(* controller would count as one: 0x55 is a key's code, too.                 *)
BootDamage == misreads <= 2
=============================================================================
