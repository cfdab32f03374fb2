--------------------------- MODULE InterruptsProofs ---------------------------
(***************************************************************************)
(* What the interrupt paths of Interrupts keep to, for all devices without *)
(* a driver and all faults: the invariant behind the EOIs, the gates and   *)
(* the configuration that keyboard_init leaves in the 8042.                *)
(***************************************************************************)
EXTENDS Interrupts, TLAPS

(* Until the loop interrupts are off, in the frame of an exception too, so   *)
(* that no interrupt is taken and nothing is in service; the gates are there *)
(* and nothing is masked before the first one.                               *)
BootOrder ==
  /\ pc # "loop" => vector \in {None} \cup 0 .. 31 /\ ~if_flag /\ ~frame_if /\ isr = {}
  /\ pc \in {"keyboard_init", "sti", "loop"} => gates = 0 .. 255
  /\ pc \notin {"remap", "gates", "unmask"} => imr = {}
  /\ step = 30 <=> pc \in {"sti", "loop"}

(* Of the two interrupts that are ended, the one in service is the one that  *)
(* is being handled and has not been ended yet.                              *)
Served == {Timer, Keyboard}
BeingServed ==
  IF vector \in {32, 33} /\ hpc # "iret" THEN {vector - 32} ELSE {}

InService ==
  /\ isr \cap Served = BeingServed
  /\ hpc = "eoi" => vector \in {32, 33}

(* What of keyboard_init's conversation decides about the configuration: a   *)
(* data byte for the 8042 itself is on its way exactly when it is expected,  *)
(* and the last one sets the bits the kernel chose.                          *)
ForConfig == (step \in {8, 17} /\ ibf = Empty) \/ (step \in {9, 18} /\ ibf = Data("config"))

Conversation ==
  /\ expects => ForConfig
  /\ step \in {8, 17} => expects \/ ibf = Command("write_config")
  /\ ibf = Data("config") => expects
  /\ ibf = Command("write_config") => step \in {8, 17}
  /\ step \in 1 .. 8 \cup 10 .. 17 => ibf = Empty \/ ibf[1] = "command"
  /\ step \in {9, 18} => ibf \in {Empty, Data("config")}
  /\ step > 18 => ibf = Empty \/ ibf[1] = "data"
  /\ step >= 16 => conf = {"irq1"}
  /\ step >= 18 /\ ~expects => config = {"irq1"}

(* The keyboard never owes more than six answers.                            *)
Owed ==
  /\ step <= 18 => replies = 0
  /\ step \in 19 .. 24 => replies <= step - 18
  /\ step \in 19 .. 24 /\ ibf # Empty => replies < step - 18
  /\ step = 25 /\ ibf # Empty => replies < 6
  /\ step <= 25 /\ ibf # Empty => ibf[2] # "reset"
  /\ step > 25 => ibf = Empty \/ ibf = Data("reset")

Talk == ControllerTypeOK /\ Conversation /\ Owed

IInv == TypeOK /\ BootOrder /\ InService /\ Talk

-----------------------------------------------------------------------------
(* keyboard_init's port accesses, by their numbers: of which kind they are,  *)
(* and which of them matter for the configuration and for the answers owed.  *)
Classified(s) ==
  LET op == Program[s][1]
      use == Program[s][2]
  IN  /\ op \in {"outb", "command", "data", "read", "inb"}
      /\ op = "outb" => s \in {1, 2} /\ use \in Commands \ {"write_config"}
      /\ op = "command" => /\ s \in {5, 7, 9, 11, 13, 14, 16}
                          /\ Program[s] = Command(use) /\ use \in Commands
                          /\ (use = "write_config" <=> s \in {7, 16})
      /\ op = "data" => /\ s \in {8, 17, 25} \cup 18 .. 23
                       /\ Program[s] = Data(use) /\ use \in DataBytes
                       /\ (use = "config" <=> s \in {8, 17})
                       /\ (use = "reset" <=> s = 25)
      /\ op = "read" => /\ s \in {6, 10, 12, 15, 24, 26, 27}
                       /\ (use = "irq_off" <=> s = 6) /\ (use = "irq_on" <=> s = 15)
      /\ op = "inb" => (use = "data" /\ s \in {3, 28}) \/ (use = "status" /\ s \in {4, 29})

(* Every one of the 29 port accesses of keyboard_init is one of those, by    *)
(* inspection of the list.                                                   *)
LEMMA Accesses == Len(Program) = 29 /\ \A s \in 1 .. 29 : Classified(s)
<1> USE DEF Program, DisablePorts, TestController, EnablePort, ResetKeyboard, Flush,
            Outb, Command, Data, Read
<1>1. Len(Program) = 29
  OBVIOUS
<1>2. ASSUME NEW s \in 1 .. 29 PROVE Classified(s)
  BY SMTT(30) DEF Classified, Commands, DataBytes
<1> QED
  BY <1>1, <1>2

-----------------------------------------------------------------------------
(* The kernel's reads set the bits that it has chosen. *)
LEMMA ReadChooses ==
  ASSUME conf \subseteq Bits, config \subseteq Bits, step \in 1 .. 29, Classified(step),
         ps2_wait_read
  PROVE  /\ step \in {6, 10, 12, 15, 24, 26, 27}
         /\ conf' \subseteq Bits
         /\ step = 15 => conf' = {"irq1"}
         /\ step > 15 => conf' = conf
<1>1. /\ step \in {6, 10, 12, 15, 24, 26, 27}
      /\ Operand = "irq_off" <=> step = 6
      /\ Operand = "irq_on" <=> step = 15
  BY DEF ps2_wait_read, Classified, Is, Operand
<1>2. AsConfig \subseteq SUBSET Bits
  BY DEF AsConfig
<1>3. \/ step = 6 /\ \E bits \in SUBSET Bits : conf' = IrqOff(bits)
      \/ step = 15 /\ \E bits \in SUBSET Bits : conf' = IrqOn(bits)
      \/ step \notin {6, 15} /\ conf' = conf
  BY <1>1, <1>2 DEF ps2_wait_read
<1>4. \A bits \in SUBSET Bits : IrqOff(bits) \subseteq Bits /\ IrqOn(bits) = {"irq1"}
  BY DEF IrqOff, IrqOn, Bits
<1>5. {"irq1"} \subseteq Bits
  BY DEF Bits
<1>6. \/ step = 6 /\ conf' \subseteq Bits
      \/ step = 15 /\ conf' = {"irq1"}
      \/ step \notin {6, 15} /\ conf' = conf
  BY <1>3, <1>4
<1> QED
  BY <1>1, <1>5, <1>6

(* The conversation: the kernel's side ... *)
LEMMA PortAccessTalks ==
  ASSUME Talk, PortAccess
  PROVE  Talk' /\ step' >= step - 1 /\ step' <= step + 1
<1>0. step \in 1 .. 30 /\ Len(Program) = 29 /\ replies \in 0 .. 6 /\ full \in BOOLEAN
  BY Accesses DEF Talk, ControllerTypeOK
<1>1. step \in 1 .. 29 /\ Classified(step) /\ Len(Program) = 29
  <2>1. step <= Len(Program)
    BY DEF PortAccess, outb, ps2_wait_write, ps2_wait_read, FlushRead, FlushTest, Is
  <2> QED
    BY <1>0, <2>1, Accesses
<1> USE DEF Talk
<1>3. CASE outb
  <2>1. step \in {1, 2} /\ \E c \in Commands \ {"write_config"} : ibf' = Command(c)
    BY <1>1, <1>3 DEF outb, Classified, Is, Operand, Command
  <2>2. step' = step + 1 /\ UNCHANGED <<conf, full, data, expects, config, replies, mid>>
    BY <1>3 DEF outb, controller, out_buffer, keyboard
  <2>3. ControllerTypeOK'
    BY <1>1, <2>1, <2>2 DEF ControllerTypeOK
  <2>4. Conversation' /\ Owed'
    BY <2>1, <2>2 DEF Conversation, ForConfig, Owed, Empty, Command, Data, Commands
  <2> QED
    BY <2>2, <2>3, <2>4, <1>1
<1>4. CASE ps2_wait_write /\ Is("command")
  <2>1. /\ step \in {5, 7, 9, 11, 13, 14, 16}
        /\ \E c \in Commands :
             ibf' = Command(c) /\ (c = "write_config" <=> step \in {7, 16})
    BY <1>1, <1>4 DEF ps2_wait_write, Classified, Is, Command
  <2>2. step' = step + 1 /\ ibf = Empty /\ UNCHANGED <<conf, full, data, expects, config, replies, mid>>
    BY <1>4 DEF ps2_wait_write, controller, out_buffer, keyboard
  <2>3. ControllerTypeOK'
    BY <1>1, <2>1, <2>2 DEF ControllerTypeOK
  <2>4. Conversation' /\ Owed'
    BY <2>1, <2>2 DEF Conversation, ForConfig, Owed, Empty, Command, Data, Commands
  <2> QED
    BY <2>2, <2>3, <2>4, <1>1
<1>5. CASE ps2_wait_write /\ Is("data")
  <2>1. /\ step \in {8, 17, 25} \cup 18 .. 23
        /\ \E b \in DataBytes :
             /\ ibf' = Data(b)
             /\ (b = "config" <=> step \in {8, 17})
             /\ (b = "reset" <=> step = 25)
    BY <1>1, <1>5 DEF ps2_wait_write, Classified, Is, Data
  <2>2. step' = step + 1 /\ ibf = Empty /\ UNCHANGED <<conf, full, data, expects, config, replies, mid>>
    BY <1>5 DEF ps2_wait_write, controller, out_buffer, keyboard
  <2>3. ControllerTypeOK'
    BY <1>1, <2>1, <2>2 DEF ControllerTypeOK
  <2>4. Conversation'
    BY <2>1, <2>2 DEF Conversation, ForConfig, Empty, Command, Data
  <2>5. Owed'
    BY <1>0, <2>1, <2>2 DEF Owed, Empty, Data
  <2> QED
    BY <2>2, <2>3, <2>4, <2>5, <1>1
<1>6. CASE ps2_wait_read
  <2>1. /\ step \in {6, 10, 12, 15, 24, 26, 27}
        /\ conf' \subseteq Bits
        /\ step = 15 => conf' = {"irq1"}
        /\ step > 15 => conf' = conf
    BY <1>1, <1>6, ReadChooses DEF ControllerTypeOK
  <2>2. step' = step + 1 /\ full' \in BOOLEAN /\ UNCHANGED <<ibf, data, expects, config, replies, mid>>
    BY <1>6 DEF ps2_wait_read, controller, out_buffer, keyboard
  <2>3. ControllerTypeOK'
    BY <1>1, <2>1, <2>2 DEF ControllerTypeOK
  <2>4. Conversation'
    BY <2>1, <2>2 DEF Conversation, ForConfig, Empty, Command, Data
  <2>5. Owed'
    BY <1>0, <2>1, <2>2 DEF Owed, Empty, Data
  <2> QED
    BY <2>2, <2>3, <2>4, <2>5, <1>1
<1>7. CASE FlushRead \/ FlushTest
  <2>1. \/ step \in {3, 28} /\ step' = step + 1
        \/ step \in {4, 29} /\ step' \in {step - 1, step + 1}
    BY <1>1, <1>7 DEF FlushRead, FlushTest, Classified, Is, Operand
  <2>2. full' \in BOOLEAN /\ UNCHANGED <<conf, ibf, data, expects, config, replies, mid>>
    BY <1>0, <1>7 DEF FlushRead, FlushTest, controller, out_buffer, keyboard
  <2>3. ControllerTypeOK'
    BY <1>1, <2>1, <2>2 DEF ControllerTypeOK
  <2>4. Conversation'
    <3>1. CASE step \in {3, 4} /\ step' \in 3 .. 5
      BY <2>2, <3>1 DEF Conversation, ForConfig, Empty, Command, Data
    <3>2. CASE step \in {28, 29} /\ step' \in 28 .. 30
      BY <2>2, <3>2 DEF Conversation, ForConfig, Empty, Command, Data
    <3> QED
      BY <2>1, <3>1, <3>2
  <2>5. Owed'
    BY <1>0, <2>1, <2>2 DEF Owed, Empty, Data
  <2> QED
    BY <2>1, <2>3, <2>4, <2>5, <1>1
<1> QED
  BY <1>3, <1>4, <1>5, <1>6, <1>7 DEF PortAccess, ps2_wait_write

(* ... the 8042's and the keyboard's ... *)
LEMMA DevicesTalk ==
  ASSUME Talk, ControllerStep \/ Reply \/ KeyArrives
  PROVE  Talk' /\ step' = step
<1>0. step \in 1 .. 30 /\ Len(Program) = 29 /\ replies \in 0 .. 6 /\ config \subseteq Bits
  BY Accesses DEF Talk, ControllerTypeOK
<1>1. step' = step /\ UNCHANGED conf
  BY DEF ControllerStep, Reply, KeyArrives, Send, host
<1> USE DEF Talk
<1>2. ASSUME NEW test \in {"read_config", "self_test", "test_1"},
             NEW kind \in {"config", "answer"},
             Answered(test, kind), ibf' = Empty
      PROVE  Talk'
  <2>1. ibf = Command(test) /\ UNCHANGED <<expects, replies, mid>>
    BY <1>2 DEF Answered, Put, keyboard
  <2>2. full' \in BOOLEAN /\ data' \in Kinds /\ config' \subseteq Bits
    BY <1>0, <1>2 DEF Answered, Put, Kinds, Bits
  <2>3. ControllerTypeOK'
    BY <1>0, <1>1, <1>2, <2>1, <2>2 DEF ControllerTypeOK
  <2>4. step < 18 /\ step # 9 /\ ~expects
    BY <1>0, <2>1 DEF Conversation, ForConfig, Empty, Command, Data
  <2>5. step \notin {8, 17}
    BY <2>1, <2>4 DEF Conversation, Command
  <2>6. Conversation'
    BY <1>0, <1>1, <1>2, <2>1, <2>4, <2>5 DEF Conversation, Empty, Data, Command
  <2>7. Owed'
    BY <1>0, <1>1, <1>2, <2>1, <2>4 DEF Owed
  <2> QED
    BY <2>3, <2>6, <2>7
<1>3. CASE Obeyed /\ ibf' = Empty
  <2>1. PICK c \in Commands : ibf = Command(c) /\ expects' = (c = "write_config")
    BY <1>3 DEF Obeyed, Command, Commands
  <2>2. expects' \in BOOLEAN /\ UNCHANGED <<full, data, replies, mid>>
    BY <1>3 DEF Obeyed, out_buffer, keyboard
  <2>3. config' \subseteq Bits
    BY <1>0, <1>3 DEF Obeyed, Bits
  <2>4. ControllerTypeOK'
    BY <1>0, <1>1, <1>3, <2>2, <2>3 DEF ControllerTypeOK
  <2>5. step < 18 /\ step # 9 /\ ~expects
    BY <1>0, <2>1 DEF Conversation, ForConfig, Empty, Command, Data
  <2>6. expects' <=> step \in {8, 17}
    BY <2>1, <2>5 DEF Conversation, Command
  <2>7. Conversation'
    BY <1>0, <1>1, <1>3, <2>5, <2>6 DEF Conversation, ForConfig, Empty, Data, Command
  <2>8. Owed'
    BY <1>0, <1>1, <1>3, <2>2, <2>5 DEF Owed
  <2> QED
    BY <1>1, <2>4, <2>7, <2>8
<1>4. CASE Configured /\ ibf' = Empty
  <2>1. /\ ibf = Data("config") /\ expects /\ expects' = FALSE /\ config' = conf
        /\ UNCHANGED <<full, data, replies, mid>>
    BY <1>4 DEF Configured, out_buffer, keyboard
  <2>2. ControllerTypeOK'
    BY <1>0, <1>1, <1>4, <2>1 DEF ControllerTypeOK
  <2>3. step \in {9, 18}
    BY <2>1 DEF Conversation, ForConfig, Empty, Data
  <2>4. Conversation'
    BY <1>0, <1>1, <1>4, <2>1, <2>3 DEF Conversation, ForConfig, Empty, Command, Data
  <2>5. Owed'
    BY <1>0, <1>1, <1>4, <2>1, <2>3 DEF Owed
  <2> QED
    BY <1>1, <2>2, <2>4, <2>5
<1>5. CASE Forwarded /\ ibf' = Empty
  <2>1. /\ ibf # Empty /\ ibf[1] = "data" /\ ~expects
        /\ UNCHANGED <<full, data, expects, config>>
    BY <1>5 DEF Forwarded, out_buffer
  <2>2. mid' \in BOOLEAN
    BY <1>5 DEF Forwarded, ControllerTypeOK
  <2>3. IF ibf[2] = "reset" THEN replies' = 2 ELSE replies' \in {1, replies + 1}
    BY <1>5 DEF Forwarded
  <2>4. step > 18
    BY <1>0, <2>1 DEF Conversation, Empty, Data
  <2>5. step > 25 => replies' = 2
    BY <2>1, <2>3 DEF Owed, Data
  <2>6. step <= 25 => replies' \in {1, replies + 1}
    BY <2>1, <2>3 DEF Owed
  <2>7. replies' \in 0 .. 6 /\ Owed'
    <3>1. CASE step > 25
      BY <1>0, <1>1, <1>5, <2>5, <3>1 DEF Owed
    <3>2. CASE step \in 19 .. 25
      <4>1. replies + 1 <= 6 /\ replies + 1 <= step - 18
        BY <1>0, <2>1, <3>2 DEF Owed
      <4> QED
        BY <1>0, <1>1, <1>5, <2>6, <3>2, <4>1 DEF Owed
    <3> QED
      BY <1>0, <2>4, <3>1, <3>2
  <2>8. ControllerTypeOK'
    BY <1>0, <1>1, <1>5, <2>1, <2>2, <2>7 DEF ControllerTypeOK
  <2>9. Conversation'
    BY <1>0, <1>1, <1>5, <2>1, <2>4 DEF Conversation, Empty, Data, Command
  <2> QED
    BY <1>1, <2>7, <2>8, <2>9
<1>6. CASE Reply \/ KeyArrives
  <2>1. UNCHANGED <<ibf, expects, config>> /\ data' \in Kinds /\ full' \in BOOLEAN
    BY <1>6 DEF Reply, KeyArrives, Send, Put, Kinds, Codes
  <2>2. mid' \in BOOLEAN
    BY <1>6 DEF Reply, KeyArrives, ControllerTypeOK
  <2>3. replies' <= replies /\ replies' \in 0 .. 6
    BY <1>0, <1>6 DEF Reply, KeyArrives
  <2>4. ControllerTypeOK'
    BY <1>0, <1>1, <2>1, <2>2, <2>3 DEF ControllerTypeOK
  <2>5. Conversation'
    BY <1>1, <2>1 DEF Conversation, ForConfig
  <2>6. Owed'
    BY <1>0, <1>1, <2>1, <2>3 DEF Owed, Data, Empty
  <2> QED
    BY <1>1, <2>4, <2>5, <2>6
<1> QED
  BY <1>1, <1>2, <1>3, <1>4, <1>5, <1>6 DEF ControllerStep

(* ... and the interrupt handler, which only reads a byte. *)
LEMMA HandlerTalks ==
  ASSUME Talk, keyboard_irq_handler
  PROVE  Talk' /\ step' = step
<1>1. UNCHANGED <<step, conf, ibf, data, expects, config, replies, mid>>
  BY DEF keyboard_irq_handler, host, keyboard
<1>2. full' \in BOOLEAN
  BY DEF keyboard_irq_handler
<1>3. ControllerTypeOK'
  BY <1>1, <1>2 DEF Talk, ControllerTypeOK
<1>4. Conversation' /\ Owed'
  BY <1>1 DEF Talk, Conversation, ForConfig, Owed
<1> QED
  BY <1>1, <1>3, <1>4 DEF Talk

-----------------------------------------------------------------------------
(* Steps that leave the 8042 alone leave the conversation alone. *)
LEMMA QuietTalks ==
  ASSUME Talk, UNCHANGED kb8042
  PROVE  Talk' /\ step' = step
<1>1. UNCHANGED <<step, conf, ibf, full, data, expects, config, replies, mid>>
  BY DEF kb8042, host, controller, keyboard, out_buffer
<1>2. ControllerTypeOK'
  BY <1>1 DEF Talk, ControllerTypeOK
<1>3. Conversation' /\ Owed'
  BY <1>1 DEF Talk, Conversation, ForConfig, Owed
<1> QED
  BY <1>1, <1>2, <1>3 DEF Talk

(* The line of the keyboard controller requests IRQ 1 and no other. *)
LEMMA LineRequests ==
  ASSUME irr \subseteq Irqs, KeyboardLine
  PROVE  irr' \subseteq Irqs
  BY DEF KeyboardLine, Irqs, Master, Keyboard

-----------------------------------------------------------------------------
(* The invariant holds when interrupts_init is called.                       *)
LEMMA InitIInv == Init => IInv
<1> SUFFICES ASSUME Init PROVE IInv
  OBVIOUS
<1>1. Talk
  <2>0. data \in Kinds
    BY DEF Init, ControllerInit, Kinds, Codes
  <2>1. ControllerTypeOK
    <3>1. full \in BOOLEAN /\ expects \in BOOLEAN /\ mid \in BOOLEAN
      BY DEF Init, ControllerInit
    <3>2. step = 1 /\ conf = {} /\ config \subseteq Bits /\ ibf = Empty /\ replies = 0
      BY DEF Init, ControllerInit
    <3> QED
      BY <2>0, <3>1, <3>2, Accesses DEF ControllerTypeOK
  <2>2. Conversation
    BY DEF Init, ControllerInit, Conversation, ForConfig, Empty, Command, Data
  <2>3. Owed
    BY DEF Init, ControllerInit, Owed, Empty
  <2> QED
    BY <2>1, <2>2, <2>3 DEF Talk
<1>2. TypeOK
  <2>1. if_flag \in BOOLEAN /\ frame_if \in BOOLEAN /\ break_next \in BOOLEAN
    BY DEF Init
  <2>2. pc \in BootPc /\ hpc \in {"body", "eoi", "iret"}
    BY DEF Init, BootPc, BeforeIdt
  <2>3. gates = {} /\ irr = {} /\ isr = {} /\ imr = {} /\ misreads = 0 /\ vector = None
    BY DEF Init
  <2> QED
    BY <1>1, <2>1, <2>2, <2>3 DEF Talk, TypeOK, MisreadsShown
<1>3. BootOrder
  BY DEF Init, ControllerInit, BootOrder
<1>4. InService
  BY DEF Init, InService, BeingServed, None
<1> QED
  BY <1>1, <1>2, <1>3, <1>4 DEF IInv

(* The boot, before any interrupt. *)
LEMMA BootKeeps ==
  ASSUME IInv, Boot
  PROVE  IInv'
<1> USE DEF IInv
<1>0. /\ vector = None /\ hpc # "eoi" /\ isr = {} /\ ~if_flag /\ ~frame_if
      /\ Len(Program) = 29 /\ step \in 1 .. 30
  BY Accesses DEF Boot, pic_remap, InstallGates, pic_enable_all_irqs, idt_init, keyboard_init,
     interrupts_enable, Goto, BootOrder, InService, TypeOK, ControllerTypeOK, None
<1>1. Talk'
  <2>1. CASE keyboard_init
    BY <2>1, PortAccessTalks DEF keyboard_init
  <2>2. CASE UNCHANGED kb8042
    BY <2>2, QuietTalks
  <2> QED
    BY <2>1, <2>2 DEF Boot, pic_remap, InstallGates, pic_enable_all_irqs, idt_init,
       interrupts_enable
<1>2. isr' = {} /\ UNCHANGED <<vector, hpc, frame_if, break_next, misreads>>
  BY <1>0 DEF Boot, pic_remap, InstallGates, pic_enable_all_irqs, idt_init, keyboard_init,
     interrupts_enable, handler, decoder, pic
<1>3. irr' \subseteq Irqs /\ imr' \subseteq Irqs
  <2>1. irr' = irr \/ irr' = {} \/ KeyboardLine
    BY DEF Boot, pic_remap, InstallGates, pic_enable_all_irqs, idt_init, keyboard_init,
       interrupts_enable, pic
  <2>2. imr' \in {imr, {}, Irqs}
    BY DEF Boot, pic_remap, InstallGates, pic_enable_all_irqs, idt_init, keyboard_init,
       interrupts_enable, pic
  <2> QED
    BY <2>1, <2>2, LineRequests DEF TypeOK
<1>4. gates' \subseteq 0 .. 255 /\ pc' \in BootPc \cup {"loop"} /\ if_flag' \in BOOLEAN
  <2>1. gates' \in {gates, 0 .. 255}
    BY DEF Boot, pic_remap, InstallGates, pic_enable_all_irqs, idt_init, keyboard_init,
       interrupts_enable, pic, GateVectors
  <2>2. pc' \in BootPc \cup {"loop"}
    BY DEF Boot, pic_remap, InstallGates, pic_enable_all_irqs, idt_init, keyboard_init,
       interrupts_enable, Goto, TypeOK, BootPc, BeforeIdt
  <2>3. if_flag' \in {if_flag, TRUE}
    BY DEF Boot, pic_remap, InstallGates, pic_enable_all_irqs, idt_init, keyboard_init,
       interrupts_enable
  <2> QED
    BY <2>1, <2>2, <2>3 DEF TypeOK
<1>5. TypeOK'
  BY <1>1, <1>2, <1>3, <1>4 DEF TypeOK, Talk
<1>6. InService'
  BY <1>0, <1>2 DEF InService, BeingServed, None
<1>7. BootOrder'
  <2>1. CASE pic_remap \/ InstallGates \/ pic_enable_all_irqs \/ idt_init
    BY <1>0, <1>2, <2>1 DEF pic_remap, InstallGates, pic_enable_all_irqs, idt_init, Goto,
       BootOrder, pic, kb8042, host, GateVectors
  <2>2. CASE keyboard_init
    <3>1. step' \in 1 .. 30 /\ step \in 1 .. 29
      BY <1>0, <1>1, <2>2 DEF keyboard_init, Talk, ControllerTypeOK, BootOrder
    <3> QED
      BY <1>0, <1>2, <2>2, <3>1 DEF keyboard_init, BootOrder
  <2>3. CASE interrupts_enable
    BY <1>0, <1>2, <2>3 DEF interrupts_enable, Goto, BootOrder, pic, kb8042, host
  <2> QED
    BY <2>1, <2>2, <2>3 DEF Boot
<1> QED
  BY <1>1, <1>5, <1>6, <1>7

(* What leaves the CPU alone. *)
LEMMA OutsideKeeps ==
  ASSUME IInv, Talk', step' = step, irr' \subseteq Irqs,
         UNCHANGED <<pc, if_flag, gates, isr, imr, handler, decoder>>
  PROVE  IInv'
<1> USE DEF IInv, handler, decoder
<1>1. TypeOK'
  BY DEF TypeOK, Talk
<1>2. BootOrder'
  BY DEF BootOrder
<1>3. InService'
  BY DEF InService, BeingServed
<1> QED
  BY <1>1, <1>2, <1>3

(* What the 8042, its keyboard, the timer and other devices do keeps it.     *)
LEMMA DevicesKeep ==
  ASSUME IInv, \/ Raises(ControllerStep) \/ Raises(Reply) \/ Raises(KeyArrives)
               \/ Tick \/ \E q \in Devices : DeviceRequest(q)
  PROVE  IInv'
<1>1. Talk' /\ step' = step
  BY QuietTalks, DevicesTalk DEF IInv, Raises, Tick, DeviceRequest
<1>2. irr' \subseteq Irqs
  <2>1. CASE KeyboardLine
    BY <2>1, LineRequests DEF IInv, TypeOK
  <2>2. CASE \E q \in Irqs : irr' = irr \cup {q}
    BY <2>2 DEF IInv, TypeOK
  <2> QED
    BY <2>1, <2>2, InterruptsAssumption
       DEF InterruptsAssumption, Raises, Tick, DeviceRequest, Timer, Irqs, Master
<1>3. UNCHANGED <<pc, if_flag, gates, isr, imr, handler, decoder>>
  BY DEF Raises, Tick, DeviceRequest
<1> QED
  BY <1>1, <1>2, <1>3, OutsideKeeps

-----------------------------------------------------------------------------
(* Entering a handler: nothing that is ended was in service, and what is     *)
(* now is what the handler is for.                                           *)
LEMMA EnterKeeps ==
  ASSUME IInv, vector = None,
         NEW v \in 0 .. 255, Enter(v), pc = "loop" \/ (v \in 0 .. 31 /\ isr' = isr),
         isr' \subseteq Irqs, isr' \cap Served = (IF v \in {32, 33} THEN {v - 32} ELSE {}),
         irr' \subseteq irr, UNCHANGED <<pc, gates, imr, decoder, kb8042>>
  PROVE  IInv'
<1> USE DEF IInv, Enter, decoder
<1>1. Talk' /\ step' = step
  BY QuietTalks
<1>2. TypeOK'
  BY <1>1 DEF TypeOK, Talk
<1>3. BootOrder'
  BY <1>1 DEF BootOrder
<1>4. InService'
  BY DEF InService, BeingServed
<1> QED
  BY <1>1, <1>2, <1>3, <1>4

(* An interrupt is only taken in the loop. *)
LEMMA InLoop ==
  ASSUME BootOrder, Interruptible
  PROVE  pc = "loop" /\ vector = None /\ imr = {}
  BY DEF BootOrder, Interruptible

(* Between handlers, and while a fault is handled, none of the two is.       *)
LEMMA NoneServed ==
  ASSUME InService, vector = None
  PROVE  isr \cap Served = {}
  BY DEF InService, BeingServed, None

(* So does the beginning of an interrupt, true or spurious, or of a fault.   *)
LEMMA InterruptKeeps ==
  ASSUME IInv, \/ \E q \in Irqs : Accept(q)
               \/ \E q \in Devices : AcceptSpurious(q)
               \/ AcceptDropped
               \/ \E v \in Faults : Fault(v)
  PROVE  IInv'
<1> USE DEF IInv
<1>1. ASSUME NEW q \in Irqs, Accept(q) PROVE IInv'
  <2>1. pc = "loop" /\ vector = None /\ isr \cap Served = {}
    BY <1>1, InLoop, NoneServed DEF Accept
  <2>2. Vector(q) \in 0 .. 255 /\ (Vector(q) \in {32, 33} <=> q \in Served)
        /\ (q \in Served => Vector(q) - 32 = q)
    BY DEF Vector, Irqs, Master, Slave, Served, Timer, Keyboard
  <2>3. OnMaster(q) \in Irqs /\ (OnMaster(q) \in Served => OnMaster(q) = q)
    BY DEF OnMaster, Irqs, Master, Slave, Served, Timer, Keyboard, Cascade
  <2>4. isr' \subseteq Irqs /\ isr' \cap Served = {q} \cap Served
    BY <1>1, <2>1, <2>3 DEF Accept, TypeOK
  <2>5. Enter(Vector(q)) /\ irr' \subseteq irr /\ UNCHANGED <<pc, gates, imr, decoder, kb8042>>
    BY <1>1 DEF Accept
  <2> QED
    BY <2>1, <2>2, <2>4, <2>5, EnterKeeps
<1>2. ASSUME NEW q \in Devices, AcceptSpurious(q) PROVE IInv'
  <2>1. pc = "loop" /\ vector = None /\ isr \cap Served = {}
    BY <1>2, InLoop, NoneServed DEF AcceptSpurious
  <2>2. isr' \subseteq Irqs /\ isr' \cap Served = {}
    BY <1>2, <2>1 DEF AcceptSpurious, TypeOK, Irqs, Master, Served, Timer, Keyboard, Cascade
  <2>3. PICK v \in {39, 47} : Enter(v)
    BY <1>2 DEF AcceptSpurious, Vector, Slave
  <2>4. irr' \subseteq irr /\ UNCHANGED <<pc, gates, imr, decoder, kb8042>>
    BY <1>2 DEF AcceptSpurious
  <2> QED
    BY <2>1, <2>2, <2>3, <2>4, EnterKeeps
<1>3. CASE AcceptDropped
  <2>1. pc = "loop" /\ vector = None /\ isr \cap Served = {}
    BY <1>3, InLoop, NoneServed DEF AcceptDropped
  <2>2. Enter(39) /\ irr' \subseteq irr /\ UNCHANGED <<pc, gates, isr, imr, decoder, kb8042>>
    BY <1>3 DEF AcceptDropped, Vector, Slave
  <2>3. isr' \subseteq Irqs
    BY <2>2 DEF TypeOK
  <2> QED
    BY <2>1, <2>2, <2>3, EnterKeeps
<1>4. ASSUME NEW v \in Faults, Fault(v) PROVE IInv'
  <2>1. vector = None /\ isr \cap Served = {}
    BY <1>4, NoneServed DEF Fault
  <2>2. v \in 0 .. 31
    BY InterruptsAssumption DEF InterruptsAssumption
  <2>3. Enter(v) /\ UNCHANGED <<irr, isr>> /\ UNCHANGED <<pc, gates, imr, decoder, kb8042>>
    BY <1>4 DEF Fault, pic
  <2>4. isr' \subseteq Irqs
    BY <2>3 DEF TypeOK
  <2> QED
    BY <2>1, <2>2, <2>3, <2>4, EnterKeeps
<1> QED
  BY <1>1, <1>2, <1>3, <1>4

-----------------------------------------------------------------------------
(* The bit of its own that a handler clears: the highest priority in service *)
(* is its own.                                                               *)
LEMMA OwnBitEnded ==
  ASSUME IInv, pic_eoi
  PROVE  isr \ isr' = {vector - 32} /\ vector \in {32, 33}
<1> USE DEF IInv
<1>1. vector \in {32, 33} /\ hpc = "eoi"
  BY DEF pic_eoi, InService, None
<1>2. vector - 32 \in isr /\ isr \cap Served = {vector - 32}
  BY <1>1 DEF InService, BeingServed
<1>3. Least(isr \cap Master) = {vector - 32}
  BY <1>1, <1>2 DEF Least, Master, Served, Timer, Keyboard, TypeOK, Irqs, Slave
<1>4. isr' = isr \ {vector - 32}
  BY <1>1, <1>3 DEF pic_eoi, AfterEoi
<1> QED
  BY <1>1, <1>2, <1>4

(* So does a handler, with its EOI and its return.                           *)
LEMMA HandlerKeeps ==
  ASSUME IInv, Handler
  PROVE  IInv'
<1> USE DEF IInv, decoder
<1>1. /\ pc' = pc /\ UNCHANGED <<gates, irr, imr>>
      /\ \/ UNCHANGED <<if_flag, frame_if>>
         \/ if_flag' = frame_if /\ frame_if' = FALSE
  BY DEF Handler, Systick, isr_handler, isr_stub_handler, pic_eoi, Iret, pic
<1>2. Talk' /\ step' = step
  BY QuietTalks, HandlerTalks
     DEF Handler, Systick, isr_handler, isr_stub_handler, pic_eoi, Iret
<1>4. if_flag' \in BOOLEAN /\ frame_if' \in BOOLEAN
  BY <1>1 DEF TypeOK
<1>5. break_next' \in BOOLEAN
  BY DEF Handler, Systick, isr_handler, isr_stub_handler, pic_eoi, Iret, TypeOK,
     keyboard_irq_handler
<1>6. misreads' \in 0 .. MisreadsShown
  <2>1. CASE keyboard_irq_handler
    BY <2>1 DEF keyboard_irq_handler, TypeOK, MisreadsShown
  <2>2. CASE UNCHANGED decoder
    BY <2>2 DEF TypeOK
  <2> QED
    BY <2>1, <2>2 DEF Handler, Systick, isr_handler, isr_stub_handler, pic_eoi, Iret
<1>7. isr' \subseteq isr /\ vector' \in {vector, None} /\ hpc' \in {"body", "eoi", "iret"}
  BY DEF Handler, Systick, isr_handler, isr_stub_handler, pic_eoi, Iret, TypeOK, pic, AfterEoi
<1>3. BootOrder'
  <2>1. isr = {} => isr' = {}
    BY <1>7
  <2>2. pc # "loop" => ~if_flag' /\ ~frame_if'
    BY <1>1 DEF BootOrder
  <2>3. pc # "loop" => vector' \in {None} \cup 0 .. 31
    BY <1>7 DEF BootOrder
  <2> QED
    BY <1>1, <1>2, <2>1, <2>2, <2>3 DEF BootOrder
<1>8. TypeOK'
  BY <1>1, <1>2, <1>4, <1>5, <1>6, <1>7 DEF TypeOK, Talk
<1>9. InService'
  <2>1. CASE Systick \/ isr_handler \/ isr_stub_handler
    BY <2>1 DEF Systick, isr_handler, isr_stub_handler, IsIrq, pic, InService, BeingServed
  <2>2. CASE pic_eoi
    <3>1. isr \cap Served = {vector - 32} /\ isr' \cap Served = {}
      BY <1>7, <2>2, OwnBitEnded DEF pic_eoi, InService, BeingServed
    <3> QED
      BY <2>2, <3>1 DEF pic_eoi, InService, BeingServed
  <2>3. CASE Iret
    BY <2>3 DEF Iret, pic, InService, BeingServed, None
  <2> QED
    BY <2>1, <2>2, <2>3 DEF Handler
<1> QED
  BY <1>2, <1>3, <1>8, <1>9

(* A reset starts again from where Init does.                                *)
LEMMA ResetStarts == Reset => Init'
  BY DEF Reset, ControllerReset, Init, ControllerInit

(* Every step keeps the invariant, and so does every execution. *)
LEMMA StepKeeps ==
  ASSUME IInv, [Next]_vars
  PROVE  IInv'
<1>1. CASE UNCHANGED vars
  <2>1. Talk' /\ step' = step
    BY <1>1, QuietTalks DEF IInv, vars
  <2> QED
    BY <1>1, <2>1, OutsideKeeps DEF IInv, TypeOK, vars, pic
<1>2. CASE Reset
  <2>1. Init' => IInv'
    BY InitIInv, PTL
  <2> QED
    BY <1>2, <2>1, ResetStarts
<1> QED
  BY <1>1, <1>2, BootKeeps, DevicesKeep, InterruptKeeps, HandlerKeeps DEF Next

(* The invariant holds in every reachable state.                             *)
LEMMA Invariance == Spec => []IInv
  BY InitIInv, StepKeeps, PTL DEF Spec

(* The kernel, the 8259s, the 8042 and the handler that runs are each in     *)
(* their types, and the keyboard never owes more than six answers.           *)
THEOREM TypeCorrect == Spec => []TypeOK
<1>1. IInv => TypeOK
  BY DEF IInv
<1> QED
  BY <1>1, Invariance, PTL

(* Whatever the other devices and spurious interrupts leave in service, for  *)
(* which isr_stub_handler sends no EOI: the timer's and the keyboard's next  *)
(* interrupts come through.                                                  *)
THEOREM TimerAndKeyboardServed == Spec => []ServedNotBlocked
<1>1. IInv => ServedNotBlocked
  <2> SUFFICES ASSUME IInv, vector = None, pc = "loop"
               PROVE  Unblocked(Timer) /\ Unblocked(Keyboard)
    BY DEF ServedNotBlocked
  <2>1. imr = {} /\ isr \cap Served = {} /\ isr \subseteq Irqs
    BY NoneServed DEF IInv, BootOrder, TypeOK
  <2> QED
    BY <2>1 DEF Unblocked, OnMaster, Served, Timer, Keyboard, Master, Slave, Irqs
<1> QED
  BY <1>1, Invariance, PTL

(* pic_eoi's non-specific EOI ends the interrupt of the handler that sends   *)
(* it, whatever else is still in service.                                    *)
THEOREM EoiEndsOwn == Spec => EoiIsOwn
<1>1. IInv /\ [Next]_vars => [pic_eoi => isr \ isr' = {vector - 32}]_vars
  BY OwnBitEnded
<1> QED
  BY <1>1, Invariance, PTL DEF Spec, EoiIsOwn

(* Wherever exceptions strike, in the boot too: no interrupt is taken before *)
(* its gate is in the IDT that is loaded and the drivers are initialised,    *)
(* and no exception is without a gate but those before idt_init.             *)
THEOREM GatesBeforeInterrupts == Spec => []GateThere
<1>1. IInv => GateThere
  BY DEF IInv, TypeOK, BootOrder, BootPc, GateThere, None
<1> QED
  BY <1>1, Invariance, PTL

(* Whatever byte keyboard_init takes for the configuration of the 8042, the  *)
(* one it leaves lets the keyboard send, raise IRQ1 and send its codes as    *)
(* they are.                                                                 *)
THEOREM ConfigurationSafe == Spec => []ConfigSafe
<1>1. IInv => ConfigSafe
  BY DEF IInv, BootOrder, Talk, Conversation, ForConfig, ConfigSafe
<1> QED
  BY <1>1, Invariance, PTL

-----------------------------------------------------------------------------
(* What keyboard_init leaves behind.  The last answer it waits for comes     *)
(* after the reset, so that no command is on its way any more, and the last  *)
(* byte in the 8042 is the keyboard's: it tells where the keyboard is.       *)
LastByte ==
  \/ data = "reply"
  \/ data = "prefix" /\ mid
  \/ data \in Codes /\ ~mid

Drained ==
  /\ step = 27 /\ full => ibf = Empty /\ LastByte
  /\ step >= 28 => ibf = Empty /\ LastByte

(* A waiting byte has its interrupt.  Two things may go wrong later on: an   *)
(* interrupt too many, for a byte that has been polled, and a break_next     *)
(* that does not know of the prefix that has been polled.  Each may cost one *)
(* stroke, once.                                                             *)
Pending == Keyboard \in irr
Running == vector = 33 /\ hpc = "body"
Extra == (Pending /\ Running) \/ (~full /\ (Pending \/ Running))
Late ==
  IF full /\ data # "reply" THEN data \in Codes /\ break_next # (data = "break")
                            ELSE break_next # mid

Damage ==
  /\ pc # "loop" => misreads = 0
  /\ misreads <= 2
  /\ pc \in {"sti", "loop"} =>
       /\ full => Pending \/ Running
       /\ Pending /\ Running => full
       /\ Extra \/ Late => misreads <= 1
       /\ Extra /\ Late => misreads = 0

DInv == IInv /\ Drained /\ Damage

(* In the loop the 8042 has nothing to do but to pass on what comes.         *)
LEMMA Quiescent ==
  ASSUME IInv, Drained, pc \in {"sti", "loop"}
  PROVE  ibf = Empty /\ LastByte /\ config = {"irq1"} /\ step = 30
<1>1. step = 30
  BY DEF IInv, BootOrder
<1>2. ibf = Empty /\ LastByte
  BY <1>1 DEF Drained
<1>3. config = {"irq1"}
  BY <1>1 DEF IInv, Talk, Conversation, ForConfig
<1> QED
  BY <1>1, <1>2, <1>3

(* The line being high for a full buffer, a byte that comes is requested.    *)
LEMMA SendRequests ==
  ASSUME IInv, Drained, pc \in {"sti", "loop"}, NEW kind \in Kinds, Send(kind), KeyboardLine
  PROVE  /\ ~full /\ full' /\ data' = kind
         /\ irr' = irr \cup {Keyboard}
         /\ UNCHANGED <<step, conf, ibf, expects, config>>
<1>1. config = {"irq1"}
  BY Quiescent
<1>2. ~full /\ full' /\ data' = kind /\ UNCHANGED <<step, conf, ibf, expects, config>>
  BY DEF Send, Put, host
<1>3. irr' = irr \cup {Keyboard}
  BY <1>1, <1>2 DEF KeyboardLine, Line
<1> QED
  BY <1>2, <1>3

(* A byte of the keyboard's tells where the keyboard is from then on.        *)
LEMMA SentLast ==
  ASSUME mid \in BOOLEAN, Reply \/ KeyArrives
  PROVE  LastByte' /\ ibf = Empty /\ ibf' = Empty /\ step' = step
<1>1. ibf = Empty /\ ibf' = Empty /\ step' = step
  BY DEF Reply, KeyArrives, Send, host
<1>2. CASE Reply
  <2>1. data' = "reply"
    BY <1>2 DEF Reply, Send, Put
  <2> QED
    BY <1>1, <2>1 DEF LastByte
<1>3. CASE KeyArrives
  <2>1. PICK kind \in {"make", "break", "prefix"} : data' = kind /\ mid' = (kind = "prefix")
    BY <1>3 DEF KeyArrives, Send, Put
  <2>2. CASE kind = "prefix"
    BY <1>1, <2>1, <2>2 DEF LastByte
  <2>3. CASE kind # "prefix"
    BY <1>1, <2>1, <2>3 DEF LastByte, Codes
  <2> QED
    BY <2>2, <2>3
<1> QED
  BY <1>1, <1>2, <1>3

(* No access of keyboard_init and no step of the controller leaves a byte in *)
(* the buffer behind the last flush.                                         *)
LEMMA DrainedKept ==
  ASSUME IInv, Talk', Drained,
         PortAccess \/ ControllerStep \/ Reply \/ KeyArrives \/ keyboard_irq_handler
           \/ UNCHANGED kb8042
  PROVE  Drained'
<1>0. step \in 1 .. 30 /\ step' \in 1 .. 30 /\ Len(Program) = 29 /\ full \in BOOLEAN /\ mid \in BOOLEAN
  BY Accesses DEF IInv, Talk, ControllerTypeOK
<1>1. CASE PortAccess
  <2>1. step \in 1 .. 29 /\ Classified(step)
    BY <1>0, <1>1, Accesses DEF PortAccess, outb, ps2_wait_write, ps2_wait_read, FlushRead, FlushTest, Is
  <2>2. ASSUME step' >= 27 PROVE ps2_wait_read \/ FlushRead \/ FlushTest
    <3>1. step >= 26
      BY <1>0, <1>1, <2>2, PortAccessTalks DEF IInv
    <3> QED
      BY <1>1, <2>1, <3>1, SMTT(20) DEF PortAccess, outb, ps2_wait_write, Classified, Is
  <2>3. CASE ps2_wait_read
    BY <1>0, <2>1, <2>3 DEF ps2_wait_read, Drained, LastByte, controller, keyboard
  <2>4. CASE FlushRead
    <3>1. step \in {3, 28} /\ step' = step + 1 /\ UNCHANGED <<ibf, data, mid>>
      BY <2>1, <2>4 DEF FlushRead, Classified, Is, Operand, keyboard
    <3> QED
      BY <3>1 DEF Drained, LastByte
  <2>5. CASE FlushTest
    <3>1. step \in {4, 29} /\ step' \in {step - 1, step + 1} /\ UNCHANGED <<ibf, full, data, mid>>
      BY <2>1, <2>5 DEF FlushTest, Classified, Is, Operand, controller, out_buffer, keyboard
    <3> QED
      BY <3>1 DEF Drained, LastByte
  <2>6. CASE step' < 27
    BY <1>0, <2>6 DEF Drained
  <2> QED
    BY <1>0, <2>2, <2>3, <2>4, <2>5, <2>6
<1>2. CASE ControllerStep
  <2>1. step' = step /\ ibf # Empty
    BY <1>2 DEF ControllerStep, host, Answered, Obeyed, Configured, Forwarded, Empty, Command, Data
  <2>2. step >= 27 => step = 27 /\ ~full /\ ibf = Data("reset")
    BY <1>0, <2>1 DEF Drained, IInv, Talk, Owed
  <2>3. step = 27 => ~full'
    BY <1>2, <2>2 DEF ControllerStep, Answered, Obeyed, Configured, Forwarded, out_buffer, Data, Command
  <2> QED
    BY <1>0, <2>1, <2>2, <2>3 DEF Drained
<1>3. CASE Reply \/ KeyArrives
  BY <1>0, <1>3, SentLast DEF Drained
<1>4. CASE keyboard_irq_handler \/ UNCHANGED kb8042
  <2>1. UNCHANGED <<step, ibf, data, mid>>
    BY <1>4 DEF keyboard_irq_handler, kb8042, host, controller, out_buffer, keyboard
  <2>2. full' => full
    BY <1>4 DEF keyboard_irq_handler, kb8042, controller, out_buffer
  <2> QED
    BY <2>1, <2>2 DEF Drained, LastByte
<1> QED
  BY <1>1, <1>2, <1>3, <1>4

-----------------------------------------------------------------------------
(* A step that moves no byte and no interrupt of the keyboard's costs        *)
(* nothing; an interrupt of it may begin to be handled.                      *)
LEMMA NoHarm ==
  ASSUME Damage,
         UNCHANGED <<misreads, break_next, full, data, mid>>,
         pc' = pc \/ (pc' = "loop" /\ pc = "sti") \/ pc' \notin {"sti", "loop"},
         pc = "loop" => pc' = "loop",
         \/ (Pending' <=> Pending) /\ (Running' <=> Running)
         \/ Pending /\ ~Running /\ Running' /\ ~Pending'
         \/ ~full /\ ~Pending' /\ ~Running'
  PROVE  Damage'
<1>1. Late' <=> Late
  BY DEF Late
<1>2. Extra' => Extra
  BY DEF Extra
<1>3. full' /\ pc \in {"sti", "loop"} => Pending' \/ Running'
  BY DEF Damage
<1>4. Pending' /\ Running' /\ pc \in {"sti", "loop"} => full'
  BY DEF Damage
<1> QED
  BY <1>1, <1>2, <1>3, <1>4 DEF Damage

(* Before the loop nothing is handled, and the loop starts with an empty     *)
(* buffer: with an interrupt too many at the most, and half a code.          *)
LEMMA BootDamages ==
  ASSUME DInv, IInv', Boot
  PROVE  Damage'
<1>0. misreads = 0 /\ misreads' = 0 /\ vector' = None /\ pc # "loop"
  BY DEF DInv, IInv, Damage, BootOrder, Boot, pic_remap, InstallGates, pic_enable_all_irqs, idt_init, keyboard_init,
     interrupts_enable, Goto, handler, decoder
<1>1. CASE interrupts_enable
  <2>1. UNCHANGED <<misreads, break_next, full, data, mid>> /\ pc = "sti" /\ pc' = "loop"
    BY <1>1 DEF interrupts_enable, Goto, decoder, kb8042, controller, out_buffer, keyboard
  <2>2. (Pending' <=> Pending) /\ (Running' <=> Running)
    BY <1>1 DEF interrupts_enable, pic, handler, Pending, Running
  <2> QED
    BY <2>1, <2>2, NoHarm DEF DInv
<1>2. CASE keyboard_init
  <2>1. ~Running'
    BY <1>0 DEF Running, None
  <2>2. ASSUME pc' = "sti" PROVE ~full'
    <3>1. step \in 1 .. 29 /\ step' > 29 /\ Len(Program) = 29 /\ Classified(step)
      <4>1. step \in 1 .. 30 /\ step # 30
        BY <1>2, Accesses DEF DInv, IInv, BootOrder, Talk, ControllerTypeOK, keyboard_init
      <4>2. step' > 29
        BY <1>2, <2>2, Accesses DEF keyboard_init
      <4> QED
        BY <4>1, <4>2, Accesses
    <3>2. step = 29 /\ FlushTest
      <4>0. step' \in 1 .. 30 /\ step' <= step + 1
        BY <1>2, PortAccessTalks, Accesses DEF keyboard_init, DInv, IInv, Talk, ControllerTypeOK
      <4>1. step = 29
        BY <3>1, <4>0
      <4>2. PortAccess
        BY <1>2 DEF keyboard_init
      <4> QED
        BY <3>1, <4>1, <4>2 DEF PortAccess, outb, ps2_wait_write, ps2_wait_read, FlushRead, Classified, Is, Operand
    <3> QED
      BY <3>1, <3>2 DEF FlushTest, controller, out_buffer
  <2>3. pc' # "loop"
    BY <1>2 DEF keyboard_init
  <2> QED
    BY <1>0, <2>1, <2>2, <2>3 DEF Damage, Extra
<1>3. CASE pic_remap \/ InstallGates \/ pic_enable_all_irqs \/ idt_init
  BY <1>0, <1>3 DEF pic_remap, InstallGates, pic_enable_all_irqs, idt_init, Goto, Damage
<1> QED
  BY <1>1, <1>2, <1>3 DEF Boot

(* A byte that comes brings its interrupt, and it costs nothing that was not *)
(* lost before: a code that follows half a code is late when half was.       *)
LEMMA ByteDamages ==
  ASSUME DInv, Raises(Reply) \/ Raises(KeyArrives)
  PROVE  Damage'
<1>1. UNCHANGED <<pc, vector, hpc, break_next, misreads>>
  BY DEF Raises, handler, decoder
<1>2. CASE pc \notin {"sti", "loop"}
  BY <1>1, <1>2 DEF DInv, Damage
<1>3. CASE pc \in {"sti", "loop"}
  <2>1. KeyboardLine /\ LastByte
    BY <1>3, Quiescent DEF Raises, DInv
  <2>2. PICK kind \in Kinds : Send(kind) /\ (kind # "reply" => KeyArrives)
                             /\ (kind = "reply" => UNCHANGED mid)
    BY DEF Raises, Reply, KeyArrives, Kinds, Codes
  <2>3. ~full /\ full' /\ data' = kind /\ irr' = irr \cup {Keyboard}
    BY <1>3, <2>1, <2>2, SendRequests DEF DInv
  <2>4. Pending' /\ (Running' <=> Running) /\ (Extra' <=> Running) /\ (Running => Extra)
    BY <1>1, <2>3 DEF Pending, Running, Extra
  <2>5. Late' => Late
    <3>1. CASE kind = "reply"
      BY <1>1, <2>2, <2>3, <3>1 DEF Late
    <3>2. CASE kind # "reply"
      <4>1. KeyArrives
        BY <2>2, <3>2
      <4>2. kind \in (IF mid THEN {"break"} ELSE {"make", "prefix"})
        BY <2>3, <4>1 DEF KeyArrives, Send, Put
      <4>3. Late <=> break_next # mid
        BY <2>3 DEF Late
      <4>4. Late' <=> kind \in Codes /\ break_next # (kind = "break")
        BY <1>1, <2>3, <3>2 DEF Late
      <4>5. mid \in BOOLEAN
        BY DEF DInv, IInv, Talk, ControllerTypeOK
      <4>6. CASE mid = TRUE
        BY <4>2, <4>3, <4>4, <4>6
      <4>7. CASE mid = FALSE
        BY <4>2, <4>3, <4>4, <4>7 DEF Codes
      <4> QED
        BY <4>5, <4>6, <4>7
    <3> QED
      BY <3>1, <3>2
  <2>6. /\ misreads <= 2
        /\ Running => misreads <= 1
        /\ Late => misreads <= 1
        /\ Running /\ Late => misreads = 0
        /\ pc # "loop" => misreads = 0
    BY <1>3, <2>4 DEF DInv, Damage
  <2> QED
    BY <1>1, <2>3, <2>4, <2>5, <2>6 DEF Damage
<1> QED
  BY <1>2, <1>3

(* A byte that is read: late when its prefix was polled, without a byte when *)
(* it was polled itself.  Either way that was the last time.                 *)
LEMMA HandlerDamages ==
  ASSUME DInv, vector = 33, isr_handler
  PROVE  Damage'
<1>0. pc = "loop" /\ mid \in BOOLEAN /\ full \in BOOLEAN /\ break_next \in BOOLEAN
      /\ misreads \in 0 .. 3 /\ data \in Kinds
  BY DEF DInv, IInv, TypeOK, ControllerTypeOK, BootOrder, None, MisreadsShown
<1>1. Running /\ ~Running' /\ (Pending' <=> Pending) /\ pc' = pc /\ ~full'
      /\ UNCHANGED <<data, mid>> /\ keyboard_irq_handler
  BY DEF isr_handler, keyboard_irq_handler, Running, Pending, IsIrq, pic, keyboard
<1>2. LastByte
  BY <1>0, Quiescent DEF DInv
<1>3. Extra' <=> Pending
  BY <1>1 DEF Extra
<1>4. Late' <=> break_next' # mid
  BY <1>1 DEF Late
<1>5. /\ Pending => full
      /\ misreads <= 2
      /\ Extra \/ Late => misreads <= 1
      /\ Extra /\ Late => misreads = 0
  BY <1>0, <1>1 DEF DInv, Damage
<1>6. Extra <=> (Pending \/ ~full)
  BY <1>0, <1>1, <1>5 DEF Extra
<1>7. Damage' <=> /\ misreads' <= 2
                  /\ Pending \/ Late' => misreads' <= 1
                  /\ Pending /\ Late' => misreads' = 0
  BY <1>0, <1>1, <1>3 DEF Damage
<1>8. CASE data = "reply"
  <2>1. misreads' = misreads /\ break_next' = break_next
    BY <1>1, <1>8 DEF keyboard_irq_handler, Harmless
  <2>2. Late' <=> Late
    BY <1>4, <1>8, <2>1 DEF Late
  <2>3. Pending => Extra
    BY <1>6
  <2> QED
    BY <1>5, <1>7, <2>1, <2>2, <2>3
<1>9. CASE data = "prefix"
  <2>1. misreads' = misreads /\ break_next' = TRUE
    BY <1>1, <1>9 DEF keyboard_irq_handler, Harmless
  <2>2. mid
    BY <1>2, <1>9 DEF LastByte, Codes
  <2>3. ~Late'
    BY <1>0, <1>4, <2>1, <2>2
  <2>4. Pending => Extra
    BY <1>6
  <2> QED
    BY <1>5, <1>7, <2>1, <2>3, <2>4
<1>10. CASE data \in Codes
  <2>1. break_next' = FALSE
    BY <1>1, <1>10 DEF keyboard_irq_handler, Codes
  <2>2. ~mid
    BY <1>2, <1>10 DEF LastByte, Codes
  <2>3. ~Late'
    BY <1>0, <1>4, <2>1, <2>2
  <2>4. misreads' \in {misreads, misreads + 1}
    BY <1>1 DEF keyboard_irq_handler
  <2>5. CASE ~full
    BY <1>0, <1>5, <1>6, <1>7, <2>3, <2>4, <2>5
  <2>6. CASE full /\ Late
    <3>1. Pending => Extra
      BY <1>6
    <3> QED
      BY <1>0, <1>5, <1>7, <2>3, <2>4, <2>6, <3>1
  <2>7. CASE full /\ ~Late
    <3>1. Harmless
      BY <1>10, <2>7 DEF Late, Harmless, Codes
    <3>2. misreads' = misreads
      BY <1>1, <3>1 DEF keyboard_irq_handler
    <3>3. Pending => Extra
      BY <1>6
    <3> QED
      BY <1>5, <1>7, <2>3, <3>2, <3>3
  <2> QED
    BY <2>5, <2>6, <2>7
<1> QED
  BY <1>2, <1>8, <1>9, <1>10 DEF LastByte

(* Everything else. *)
LEMMA OthersDamage ==
  ASSUME DInv,
         \/ Tick \/ \E q \in Devices : DeviceRequest(q)
         \/ \E q \in Irqs : Accept(q)
         \/ \E q \in Devices : AcceptSpurious(q)
         \/ AcceptDropped
         \/ \E v \in Faults : Fault(v)
         \/ Handler /\ ~(vector = 33 /\ isr_handler)
  PROVE  Damage'
<1> USE DEF DInv
<1>1. UNCHANGED <<pc, misreads, break_next, full, data, mid>>
  BY DEF Tick, DeviceRequest, Accept, AcceptSpurious, AcceptDropped, Fault, Handler, Systick,
     isr_handler, isr_stub_handler, pic_eoi, Iret, decoder, kb8042, controller, out_buffer, keyboard
<1>2. CASE Tick \/ \E q \in Devices : DeviceRequest(q)
  <2>1. (Pending' <=> Pending) /\ (Running' <=> Running)
    BY <1>2, InterruptsAssumption DEF InterruptsAssumption, Tick, DeviceRequest, handler, Pending, Running, Timer, Keyboard
  <2> QED
    BY <1>1, <2>1, NoHarm
<1>3. ASSUME NEW q \in Irqs, Accept(q) PROVE Damage'
  <2>1. ~Running
    BY <1>3 DEF Accept, Interruptible, Running, None
  <2>2. CASE q = Keyboard
    <3>1. Pending /\ ~Pending' /\ Running'
      BY <1>3, <2>2 DEF Accept, Deliverable, Pending, Running, Enter, Vector, Keyboard, Slave
    <3> QED
      BY <1>1, <2>1, <3>1, NoHarm
  <2>3. CASE q # Keyboard
    <3>1. (Pending' <=> Pending) /\ ~Running'
      BY <1>3, <2>3 DEF Accept, Pending, Running, Enter, Vector, Keyboard, Irqs, Master, Slave
    <3> QED
      BY <1>1, <2>1, <3>1, NoHarm
  <2> QED
    BY <2>2, <2>3
<1>4. CASE (\E q \in Devices : AcceptSpurious(q)) \/ (\E v \in Faults : Fault(v))
  <2>1. ~Running /\ ~Running' /\ (Pending' <=> Pending)
    BY <1>4, InterruptsAssumption DEF InterruptsAssumption, AcceptSpurious, Fault, Interruptible, Running, None, Enter, Vector,
       Slave, Pending, pic
  <2> QED
    BY <1>1, <2>1, NoHarm
<1>5. CASE AcceptDropped
  <2>1. pc = "loop" /\ vector = None
    BY <1>5, InLoop DEF AcceptDropped, IInv
  <2>2. ~full
    BY <1>5, <2>1, Quiescent DEF AcceptDropped, Line
  <2>3. ~Pending' /\ ~Running'
    BY <1>5 DEF AcceptDropped, Pending, Running, Enter, Vector, Slave
  <2> QED
    BY <1>1, <2>2, <2>3, NoHarm
<1>6. CASE Handler /\ ~(vector = 33 /\ isr_handler)
  <2>1. Pending' <=> Pending
    BY <1>6 DEF Handler, Systick, isr_handler, isr_stub_handler, pic_eoi, Iret, Pending, pic
  <2>2. ~Running /\ ~Running'
    BY <1>6 DEF Handler, Systick, isr_handler, isr_stub_handler, pic_eoi, Iret, Running, None
  <2> QED
    BY <1>1, <2>1, <2>2, NoHarm
<1> QED
  BY <1>2, <1>3, <1>4, <1>5, <1>6

(* Each boot starts without damage. *)
LEMMA FreshStart == (Init => Drained /\ Damage) /\ (Init' => Drained' /\ Damage')
<1>1. Init => Drained
  BY DEF Init, ControllerInit, Drained
<1>2. Init => Damage
  BY DEF Init, Damage
<1> QED
  BY <1>1, <1>2, PTL

(* Each step keeps the account of misread strokes.                           *)
LEMMA DamageKept ==
  ASSUME DInv, [Next]_vars
  PROVE  DInv'
<1>1. IInv'
  BY StepKeeps DEF DInv
<1>2. Drained'
  <2>1. CASE Boot \/ Raises(ControllerStep) \/ Raises(Reply) \/ Raises(KeyArrives) \/ isr_handler
    <3>1. PortAccess \/ ControllerStep \/ Reply \/ KeyArrives \/ keyboard_irq_handler \/ UNCHANGED kb8042
      BY <2>1 DEF Boot, pic_remap, InstallGates, pic_enable_all_irqs, idt_init, keyboard_init,
         interrupts_enable, Raises, isr_handler
    <3> QED
      BY <1>1, <3>1, DrainedKept DEF DInv, IInv
  <2>2. CASE UNCHANGED kb8042
    BY <1>1, <2>2, DrainedKept DEF DInv, IInv
  <2>3. CASE \/ Tick \/ \E q \in Devices : DeviceRequest(q)
             \/ \E q \in Irqs : Accept(q)
             \/ \E q \in Devices : AcceptSpurious(q)
             \/ AcceptDropped
             \/ \E v \in Faults : Fault(v)
             \/ Systick \/ isr_stub_handler \/ pic_eoi \/ Iret
             \/ UNCHANGED vars
    <3>1. UNCHANGED kb8042
      BY <2>3 DEF Tick, DeviceRequest, Accept, AcceptSpurious, AcceptDropped, Fault, Systick,
         isr_stub_handler, pic_eoi, Iret, vars
    <3> QED
      BY <2>2, <3>1
  <2>4. CASE Reset
    BY <2>4, FreshStart, ResetStarts
  <2> QED
    BY <2>1, <2>3, <2>4 DEF Next, Handler
<1>3. Damage'
  <2>1. CASE Boot
    BY <1>1, <2>1, BootDamages
  <2>2. CASE Raises(ControllerStep)
    <3>1. CASE pc \in {"sti", "loop"}
      <4>1. ibf = Empty
        BY <3>1, Quiescent DEF DInv
      <4> QED
        BY <2>2, <4>1 DEF Raises, ControllerStep, Answered, Obeyed, Configured, Forwarded, Empty, Command, Data
    <3>2. CASE pc \notin {"sti", "loop"}
      BY <2>2, <3>2 DEF Raises, decoder, DInv, Damage
    <3> QED
      BY <3>1, <3>2
  <2>3. CASE Raises(Reply) \/ Raises(KeyArrives)
    BY <2>3, ByteDamages
  <2>4. CASE vector = 33 /\ isr_handler
    BY <2>4, HandlerDamages
  <2>5. CASE UNCHANGED vars
    <3>1. UNCHANGED <<pc, misreads, break_next, full, data, mid>> /\ (Pending' <=> Pending) /\ (Running' <=> Running)
      BY <2>5 DEF vars, decoder, kb8042, controller, out_buffer, keyboard, pic, handler, Pending, Running
    <3> QED
      BY <3>1, NoHarm DEF DInv
  <2>6. CASE Reset
    BY <2>6, FreshStart, ResetStarts
  <2> QED
    BY <2>1, <2>2, <2>3, <2>4, <2>5, <2>6, OthersDamage DEF Next
<1> QED
  BY <1>1, <1>2, <1>3 DEF DInv

(* What keyboard_init leaves behind, half a code or an interrupt whose byte  *)
(* it has read itself, costs at most two strokes, however long the kernel    *)
(* runs from a boot to the next reset and whatever else happens.             *)
THEOREM BootDamageBounded == Spec => []BootDamage
<1>1. Init => DInv
  BY FreshStart, InitIInv DEF DInv
<1>2. DInv => BootDamage
  BY DEF DInv, Damage, BootDamage
<1> QED
  BY <1>1, <1>2, DamageKept, PTL DEF Spec
=============================================================================
