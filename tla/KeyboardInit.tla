---------------------------- MODULE KeyboardInit ----------------------------
(***************************************************************************)
(* keyboard_init of kernel/keyboard.c: its conversation with the 8042 and, *)
(* through it, with the keyboard.  The kernel side is the list of its port *)
(* accesses, in order; the two devices (external) are as slow and as       *)
(* talkative as they like.                                                 *)
(*                                                                         *)
(* The 8042 has room for one byte in either direction: ibf from the CPU,   *)
(* which it empties when it gets round to it, and the output buffer, which *)
(* takes its own answers, the keyboard's replies and the codes of keys as  *)
(* they come.  An answer that finds it full waits, and the command with    *)
(* it.  The data port repeats the last byte when there is no new one.      *)
(***************************************************************************)
EXTENDS Integers, Sequences

VARIABLES
  step,            \* the port access that is next, an index of Program
  conf,            \* the local variable config
  ibf,             \* the byte for the 8042: <<port, byte>>, or Empty
  full, data,      \* its output buffer: status, and what the last byte was
  expects,         \* the next data byte is the 8042's configuration
  config,          \* the configuration byte: the bits that are set
  replies,         \* what the keyboard still has to say to its commands
  mid              \* it is between a break prefix and the code

host == <<step, conf>>
out_buffer == <<full, data>>
controller == <<ibf, out_buffer, expects, config>>
keyboard == <<replies, mid>>
kb8042 == <<host, controller, keyboard>>

Empty == <<>>
Bits == {"irq1", "clock_off", "translate"}
Codes == {"make", "break"}
Kinds == Codes \cup {"prefix", "reply", "answer", "config"}

(* A port access: an outb that does not look, ps2_wait_write to one of the   *)
(* two ports, ps2_wait_read, and ps2_flush_output's inb and status.          *)
Outb(byte) == <<"outb", byte>>
Command(byte) == <<"command", byte>>
Data(byte) == <<"data", byte>>
Read(use) == <<"read", use>>
Flush == <<<<"inb", "data">>, <<"inb", "status">>>>

DisablePorts == <<Outb("disable_1"), Outb("disable_2")>> \o Flush

TestController ==
  <<Command("read_config"), Read("irq_off"), Command("write_config"), Data("config"),
    Command("self_test"), Read("result"), Command("test_1"), Read("result")>>

EnablePort ==
  <<Command("enable_1"), Command("read_config"), Read("irq_on"),
    Command("write_config"), Data("config")>>

(* Mutant of ResetKeyboard: one answer more is waited for. *)
ResetKeyboardHeard ==
  <<Data("typematic"), Data("delay"), Data("scancode"), Data("set_2"), Data("flags"),
    Data("scan"), Read("result"), Data("reset"), Read("result"), Read("result"),
    Read("result")>>

(* Of the answers to the first five bytes none is waited for. *)
ResetKeyboard ==
  <<Data("typematic"), Data("delay"), Data("scancode"), Data("set_2"), Data("flags"),
    Data("scan"), Read("result"), Data("reset"), Read("result"), Read("result")>>

Program == DisablePorts \o TestController \o EnablePort \o ResetKeyboard \o Flush

Commands ==
  {"disable_1", "disable_2", "enable_1", "read_config", "write_config", "self_test", "test_1"}
DataBytes ==
  {"config", "typematic", "delay", "scancode", "set_2", "flags", "scan", "reset"}

(* A byte is known by its kind, and the two sides by where they are. *)
ControllerTypeOK ==
  /\ step \in 1 .. Len(Program) + 1
  /\ conf \subseteq Bits /\ config \subseteq Bits
  /\ ibf = Empty \/ ibf \in {Command(c) : c \in Commands} \cup {Data(b) : b \in DataBytes}
  /\ full \in BOOLEAN /\ data \in Kinds
  /\ expects \in BOOLEAN /\ mid \in BOOLEAN
  /\ replies \in 0 .. 6

(* The firmware leaves the devices as it likes, in the middle of a code, too.*)
ControllerInit ==
  /\ step = 1 /\ conf = {}
  /\ ibf = Empty /\ expects = FALSE
  /\ config \in SUBSET Bits
  /\ full \in BOOLEAN /\ mid \in BOOLEAN
  /\ data = IF mid THEN "prefix" ELSE "make"
  /\ replies = 0

(* ... and again after a reset. *)
ControllerReset ==
  /\ step' = 1 /\ conf' = {}
  /\ ibf' = Empty /\ expects' = FALSE
  /\ config' \in SUBSET Bits
  /\ full' \in BOOLEAN /\ mid' \in BOOLEAN
  /\ data' = IF mid' THEN "prefix" ELSE "make"
  /\ replies' = 0

-----------------------------------------------------------------------------
(* keyboard_init. *)
Is(op) == step <= Len(Program) /\ Program[step][1] = op
Operand == Program[step][2]

(* The two commands that disable the ports: the second may replace the first.*)
outb ==
  /\ Is("outb")
  /\ ibf' = Command(Operand)
  /\ step' = step + 1
  /\ UNCHANGED <<conf, out_buffer, expects, config, keyboard>>

ps2_wait_write ==
  /\ Is("command") \/ Is("data")
  /\ ibf = Empty
  /\ ibf' = Program[step]
  /\ step' = step + 1
  /\ UNCHANGED <<conf, out_buffer, expects, config, keyboard>>

(* What a byte means as a configuration: a code or a reply, anything.        *)
AsConfig == IF data = "config" THEN {config} ELSE SUBSET Bits

IrqOff(bits) == bits \ {"irq1", "translate"}

(* Mutant of IrqOn: the translation is left as it was read. *)
IrqOnOnly(bits) == (bits \cup {"irq1"}) \ {"clock_off"}

IrqOn(bits) == (bits \cup {"irq1"}) \ {"clock_off", "translate"}

ps2_wait_read ==
  /\ Is("read") /\ full
  /\ full' = FALSE
  /\ step' = step + 1
  /\ conf' \in CASE Operand = "irq_off" -> {IrqOff(bits) : bits \in AsConfig}
                 [] Operand = "irq_on" -> {IrqOn(bits) : bits \in AsConfig}
                 [] OTHER -> {conf}
  /\ UNCHANGED <<ibf, data, expects, config, keyboard>>

FlushRead ==
  /\ Is("inb") /\ Operand = "data"
  /\ full' = FALSE
  /\ step' = step + 1
  /\ UNCHANGED <<conf, ibf, data, expects, config, keyboard>>

FlushTest ==
  /\ Is("inb") /\ Operand = "status"
  /\ step' = IF full THEN step - 1 ELSE step + 1
  /\ UNCHANGED <<conf, controller, keyboard>>

PortAccess == outb \/ ps2_wait_write \/ ps2_wait_read \/ FlushRead \/ FlushTest

-----------------------------------------------------------------------------
(* The 8042 takes the byte in ibf. *)
Put(kind) ==
  /\ ~full
  /\ full' = TRUE /\ data' = kind

Answered(command, kind) ==
  /\ ibf = Command(command)
  /\ Put(kind)
  /\ config' \in IF command = "self_test" THEN {config, {"clock_off", "translate"}}
                                          ELSE {config}
  /\ UNCHANGED <<expects, keyboard>>

Obeyed ==
  /\ ibf \in {Command(c) : c \in {"disable_1", "disable_2", "enable_1", "write_config"}}
  /\ config' = CASE ibf[2] = "disable_1" -> config \cup {"clock_off"}
                 [] ibf[2] = "enable_1" -> config \ {"clock_off"}
                 [] OTHER -> config
  /\ expects' = (ibf[2] = "write_config")
  /\ UNCHANGED <<out_buffer, keyboard>>

Configured ==
  /\ ibf = Data("config") /\ expects
  /\ config' = conf
  /\ expects' = FALSE
  /\ UNCHANGED <<out_buffer, keyboard>>

(* A keyboard may drop what it has not sent when a command comes. *)
Forwarded ==
  /\ ibf # Empty /\ ibf[1] = "data" /\ ~expects
  /\ \/ /\ ibf[2] = "reset"
        /\ replies' = 2 /\ mid' = FALSE
     \/ /\ ibf[2] # "reset"
        /\ \/ replies' = replies + 1 /\ mid' = mid
           \/ replies' = 1 /\ mid' = FALSE
  /\ UNCHANGED <<out_buffer, expects, config>>

ControllerStep ==
  /\ \/ Answered("read_config", "config")
     \/ \E test \in {"self_test", "test_1"} : Answered(test, "answer")
     \/ Obeyed \/ Configured \/ Forwarded
  /\ ibf' = Empty
  /\ UNCHANGED host

(* The keyboard's own bytes come when the controller has nothing to do for   *)
(* the CPU, there is room and the clock runs.                                *)
Send(kind) ==
  /\ ibf = Empty /\ "clock_off" \notin config
  /\ Put(kind)
  /\ UNCHANGED <<host, ibf, expects, config>>

Reply ==
  /\ replies > 0
  /\ replies' = replies - 1
  /\ Send("reply")
  /\ UNCHANGED mid

(* A key is struck or released: one byte, or a prefix and a byte. *)
KeyArrives ==
  /\ replies = 0
  /\ \E kind \in IF mid THEN {"break"} ELSE {"make", "prefix"} :
       /\ Send(kind)
       /\ mid' = (kind = "prefix")
  /\ UNCHANGED replies
=============================================================================
