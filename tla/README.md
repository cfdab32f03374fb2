# Argir in TLA+

Argir is a small x86-64 kernel: it boots from Multiboot 2, takes stock of
physical memory, builds page tables, drives a pair of 8259 interrupt
controllers, and echoes what is typed on a PS/2 keyboard. This directory holds
TLA+ modules that model its core, TLC configurations that check them on small
instances, and TLAPS proofs of the results that hold for every instance.

Paths below are relative to the repository's `src/` unless they name a module.

## The system

| component | state | operations | talks to |
|---|---|---|---|
| key buffer, `klib/ringbuf` | `buffer`, `p_write`, `p_read`, `p_end` | init, has_data, push, pop | pushed to by the keyboard interrupt, popped by the main loop; not locked |
| keyboard decoder, `kernel/keyboard.c` | `break_next`, `shift_next`, `caps_lock` | `keyboard_irq_handler`, one byte per IRQ1 | reads port 0x60, pushes to the key buffer |
| 8042 set-up, `keyboard_init` | `config` here, the configuration byte there | commands and polled reads, interrupts off | the controller, the keyboard behind it, and the line of IRQ1 |
| interrupt delivery, `interrupts.c`, `isr.s`, `pic.c`, `idt.c` | IDT, the 8259s' IRR, ISR and IMR | remap, unmask, gates, EOI, the handlers | every device; handlers run with IF = 0 |
| main loop, `kernel.c` | program counter, RFLAGS.IF | boot order, `keyboard_main`, `hlt` | everything |
| physical memory, `kernel/pmem.c` | `pmem_block_map`, `pmem_blocks_count`, `pmem_current_block` | `pmem_init`, `pmem_alloc_page` | the memory map; qsort; paging |
| `qsort`, `klib/algo` | the array, the recursion | `qsort` | pmem only |
| paging, `kernel/paging.c` | page tables, the window at `TEMP_MAP_ADDR`, `linear_limit` | `paging_init`: remap kernel and frame buffer, map RAM | takes page tables from pmem while mapping pmem's blocks |
| virtual memory, `kernel/vmem.c` | `linear_base` | `vmem_alloc` (no caller) | `linear_limit` |
| terminal, `kernel/terminal.c` | `row`, `col`, `fg_colour`, `bg_colour` | write_char, scroll, clear, set colours | the main loop and every handler that prints |
| `printf`, `ulltoa`, `klib/stdio` | none but the terminal's | format strings, colour escapes, numbers | called by boot, handlers and faults |
| boot.S, GDT, Multiboot tags, PCI | set once, or never used | | |

What is hard here is not size but order. The consumer of the key buffer is
interrupted between any two instructions by its producer; the timer's handler
saves no register; the decoder keeps a protocol's state across interrupts; the
8259s lose edges and end interrupts without naming them; the boot order decides
which byte of the keyboard can be lost; `keyboard_init` reads fewer answers than
it asks for, from a buffer that keys come through as well; and page tables are
carved out of the very memory that is being mapped. PROJECT.json lists each
hazard at its line with the properties that watch it.

What makes the components correct:

* key buffer: a FIFO that loses, invents and reorders nothing, as long as it
  does not overrun and the timer leaves the consumer alone; no access far
  outside the buffer in any case; no byte stays behind while the CPU sleeps;
* decoder: one event per stroke, the right character, never stuck in a state
  that no key explains;
* 8042 set-up: it ends, the controller is set up whatever was read on the way,
  and what is left over from it does no lasting damage to the decoder;
* delivery: no interrupt without a gate, and no exception once there is an IDT,
  every byte read, no served device silenced;
* physical memory: every usable page accounted for exactly once, from the
  entry that names it to the caller, and none left out but behind a full table;
* paging: each step changes the meaning of one address, no page that is left
  free is missing from the linear space, no table is in it, nor in the kernel's
  image;
* virtual memory: what is handed out is mapped, and no other caller has it;
* terminal: nothing is drawn outside the frame buffer, or in another's colours,
  however handlers and the main loop take turns.

## Modules

| module | models | properties |
|---|---|---|
| `ByteFifo` | what the key buffer promises: a bounded FIFO | |
| `RingBuffer` | `u8_ringbuf`, its interrupt-side producer and its unlocked consumer | TypeOK, FifoSpec, ReadConfined, EveryByteTaken |
| `RingBufferProofs` | the proofs about it | |
| `Keymap` | tables and classification of keys | |
| `KeyEvents` | what the decoder promises: whole key events | |
| `Keyboard` | the PS/2 keyboard (external) and `keyboard_irq_handler` | TypeOK, DamageBounded, NoStuckShift, EventSpec |
| `Console` | Keyboard and RingBuffer composed, from the key to `putchar` | NothingLost, NoStuckShift, EventSpec, EveryKeyShown |
| `KeyboardInit` | `keyboard_init`, the 8042 and the keyboard's answers (both external) | |
| `Interrupts` | boot order with KeyboardInit in it, 8259s (external), handlers, EOIs | TypeOK, ConfigSafe, InitEnds, BootDamage, GateThere, ServedNotBlocked, EoiIsOwn, EveryByteRead, EveryIrqEnded |
| `Blocks` | `struct pmem_block`, `pmem_cmp`, the reference for a sort | |
| `QSort` | `klib/algo/qsort.c` | TypeOK, PartsSeparate, DepthBounded |
| `Pmem` | `kernel/pmem.c`, the sort as one step | TypeOK, Accounted, BlocksDisjoint, NothingStranded, AllocFresh, OutOfMemoryStops |
| `Memory` | Pmem with the real QSort in place of that step | MemTypeOK, PmemSpec, and those of Pmem and QSort |
| `AddressSpace` | what `paging_init` promises: which address means what, and when that may change | |
| `Paging` | `paging_init` and `paging_map_page`, over Pmem's allocator | PagingTypeOK, ImageKept, SpaceSpec, LinearComplete, LfbMapped, AliasBounded, TablesNotMapped |
| `Vmem` | `vmem_alloc`, over the space Paging leaves | VmemFresh |
| `Terminal` | `terminal_write_char` of the main loop, interrupted by handlers that print | TypeOK, CursorAtRest, MainInside, HandlerNear |
| `Screen` | the handlers' format strings, `printf` and `ulltoa`, over Terminal | TerminalSpec, MainColours, NumberShown |
| `TerminalProofs`, `KeyboardProofs`, `ConsoleProofs`, `InterruptsProofs`, `PmemProofs`, `MemoryProofs`, `PagingProofs` | the proofs about the module of that name; Screen's are in TerminalProofs, Vmem's in PagingProofs | |
| `MC*` | values for TLC | |

### How state and actions correspond to the code

**RingBuffer.** `buffer`, `p_write` and `p_read` are the struct's fields, with
pointers counted from `buffer`, so that `p_end` is `RINGBUF_SIZE`. `pc`, `rdi`,
`rax`, `rdx`, `more` and `byte` are what `keyboard_main` holds in registers
between two memory accesses, as the compiled code does: `DataLoad`, `DataCmp`
and `Test` are `u8_rb_fifo_has_data` and the `while`, `PopLoad` to `PopWrap`
are `u8_rb_fifo_pop` (its `*(rb->p_read++)` is a load, a store and a fetch),
`Putchar` is the loop's body. An interrupt handler runs with interrupts off and
is one step: `Push` (a key that types), `QuietInterrupt` (anything that only
ends the `hlt`) and `Systick` at work, which comes back with `rdi` and `al`
clobbered, because `isr_systick` saves no register. Reading through a clobbered
`rdi` yields any value; a fetch from an address that is not mapped ends in the
fault handler, which returns to the same instruction for ever (`pc = "fault"`,
`Refault`). `ticks` counts the ticks at work: it is how the properties say what
rests on there being none.

**Keyboard, KeyEvents, Keymap.** `wire` is what the keyboard has sent and the
handler has not read. A make code is a press; a break code is `0xf0` and the
code; extended keys put a prefix in front, which the decoder's bounds check
ignores. Each element carries a history bit, whether it belongs to a break,
that the handler never looks at: `misreads` counts where the two disagree.
`keyboard_irq_handler` has the three outcomes of the function: the break
prefix, a code out of bounds, a code in the table. `Keymap` keeps one code for
each class of key that the handler tells apart, with the value of each in both
tables. The wire does not start empty in every behaviour: an answer that
`keyboard_init` did not wait for, or a release whose prefix it has read, may be
on it; the latter counts as an unplug. Code 132 passes the bounds check and
reads the word behind the table: its value is any of `OverRead`.

**Console** joins the two: a keyboard interrupt is one step of both. The loop and
the timer are RingBuffer's, at any instruction and with its clobbered registers.
`echoed` is what `putchar` was called with.

**KeyboardInit.** `Program` is the list of `keyboard_init`'s port accesses in
their order and `step` the next of them; `PortAccess` is one access, with the
polling that may precede it (`ps2_wait_write`, `ps2_wait_read`), and the two
halves of a round of `ps2_flush_output` on their own. The two `outb`s at the
beginning look at nothing, so the second may replace the first before the
controller has taken it. `conf` is the local variable; of the configuration
byte the three bits matter that the code sets or clears and that change
anything afterwards. The 8042 and the keyboard are external: `ibf` and
`full`/`data` are the two one-byte buffers, `replies` the keyboard's
acknowledgements and its self-test result that are still to come, `mid` whether
it is between a prefix and a code. A byte is known by its kind. A byte that is
taken for the configuration without being it may have any bits.

**Interrupts.** `pc` walks through `kernel_main` from `interrupts_init` on,
through `keyboard_init` (one step of KeyboardInit each) to `sti` and the loop.
`irr`, `isr` and `imr` are the registers of both 8259s as one set of IRQs each;
they are hardware and external, with the priorities, the cascade, edge
triggering, the non-specific EOI and the spurious IRQ 7 of each. `Line` is the
8042's request. An IRQ1 whose line has fallen before it is taken, because
`keyboard_init` polled the byte, is delivered as it was latched (then the
handler reads the old byte again) or as a spurious IRQ 7: hardware and
emulators do either. `vector` and `hpc` are the handler that runs, `frame_if`
the flag its `iretq` restores: all gates are interrupt gates, so there is one
handler at a time. `Fault` is an exception, which no `cli` holds back: it may
come between any two steps of `kernel_main` (all that runs before `pic_remap`
is the `pc` "remap"). Before `idt_init` the IDT is boot.S's empty one, the
double fault has no gate either, and the CPU resets (`Reset`): the machine
boots again from whatever state its devices are in. After it, `isr_handler`
prints and returns to the instruction that faulted. Exceptions inside a handler
are not modelled. Of `keyboard_irq_handler`'s decoding there is only
`break_next`, enough to tell when a stroke is taken for what it is not.

**Blocks, QSort, Pmem, Memory.** Pmem's `pmem_block_map` is the array's first
`pmem_blocks_count` elements. `Gather` is one round of the loop over the memory
map, `Merge` one round of the outer `while`, `Summary` the printing loop that
leaves `pmem_current_block` at the last block, `Alloc` a call of
`pmem_alloc_page` with its recursion to lower blocks. `Drop` passes an entry
behind a full table, which the code does not look at. `ram`, `dropped` and
`allocated` are history: the pages usable by the entries that were read, those
that only entries behind the table would have given, and those handed out.
QSort's `calls` is the recursion of `_qsort` as a stack of calls still to come,
one action per round of its loop. Each has its `depth`, the frames that will be
on the C stack when it runs: a frame that waits for its second call has nothing
more to do, and is in no list, but takes its space. Memory replaces Pmem's
`Sort` by QSort's steps.

**Paging, AddressSpace.** Paging extends Pmem and starts where `pmem_init` has
left some `pmem_block_map`. `mem` holds the words of every page that may be a
table. `level` is where `paging_map_page` is in its walk (4 is the PML4, 1 the
page's own entry); all tables but the PML4 are seen through the one entry that
maps `TEMP_MAP_ADDR`, as the code does: `Temp` is whatever that entry points
to now, so a pointer that survives a remap writes into the wrong table.
`CreateTable` allocates, links, clears and remaps; `Descend` and `StorePage` are
the rest. `RamPage` and `RamBlockDone` are the two loops at the end of
`paging_init`, which read `block->limit` anew each time. `boot_pml4` is what is
loaded when `paging_init` begins: boot.S drops its identity map before it calls
`kernel_main`, so there is the kernel's window of 2G at `KERNEL_VMA` and, since
that hangs off the PDPT that served both, the same 2G at `BOOT_VMA`, but nothing
at 0. `KernelImage` is the tables that the kernel links; its text, its stack and
`kernel_pd1` would only make it longer. AddressSpace knows
nothing of tables: a map from virtual pages to frames, one page more at a time.

**Vmem.** One action, `vmem_alloc`, once `paging_init` has returned; `handed` is
history. The end of an allocation is computed in the width of an address. What
`TablesNotMapped` finds in the linear space, and the kernel's own image, are in
what it hands out: `VmemFresh` is about its callers only.

**Terminal.** `row` and `col` are the struct's, `r` and `x` the copies in the
main loop's registers; it draws and moves by its copies, and the tests and line
feeds that follow may use them or read again. `LoadRow` to `Scrolled` are the
accesses of one `terminal_write_char`. `PrintGlyph` and `PrintNewline` are
whole calls of it by a handler, which cannot be interrupted. `Draw` stands for
the pixels of a character at the column and row in the registers.

**Screen** replaces Terminal's handler, which prints some characters and a line
feed, by the format strings of `isr_handler` and `isr_stub_handler`, token by
token as `printf` meets them: text, colour escape, `%x`, line feed. `fmt` is the
rest of the string; `PrintHex` puts into `digits` what `ulltoa` writes, with its
backwards digits and reversal in place. The main loop's steps are
Terminal's own. `Spin` is the end of the double fault's handler.

## Runs

| run | what it asks |
|---|---|
| `RingFifo` | is the unlocked ring a FIFO (ByteFifo) at every interleaving with its producer, without overruns and ticks at work? |
| `RingDamage` | with overruns and two register-clobbering ticks, how far does `p_read` stray, and is a byte still taken without another key's help, unless the CPU faults for ever? |
| `RingOverrunFifo` | without the limit on the typist: not a FIFO that drops its oldest byte (finding) |
| `Keyboard` | odd keys and two unplugs: at most one stroke misread per unplug |
| `Console` | from the key to the screen, strokes overlapping in any order, the timer at any instruction: whole key events, no shift left behind; nothing lost, twice or out of order, and all shown in the end, until a tick has struck the loop at work |
| `Irq` | with exceptions at any point, does `keyboard_init` end, with the controller set up, and what does it leave behind? no vector without a gate, no EOI for another's interrupt, served devices never silenced, every byte read |
| `IrqUnended` | the stub leaves interrupts in service (finding) |
| `Memory` | every small memory map, also longer than the table, through gather, qsort, merge and allocation to the last page |
| `MemoryExhausted` | exhaustion is not noticed (finding) |
| `Paging` | every small layout through `paging_init`, tables taken from what is being mapped, then `vmem_alloc` until nothing is left |
| `PagingAlias` | a page may be free memory and a page table at once (finding) |
| `Terminal` | where characters are drawn, and in which colours, when handlers print in the middle of one; are their numbers right? |

### Bounds, and why they are enough

* `RingFifo`: 4 slots, 3 different bytes, so that order and duplication show;
  the pointers wrap in both directions relative to each other, the queue is
  empty and full. The number of bytes pushed is not bounded. `RingDamage`: one
  byte value, as only addresses matter; two ticks show that the damage of one
  does not multiply. RingBufferProofs does without the bounds.
* `Keyboard`: 3 presses and 2 unplugs are enough for an unplug inside a break
  code, followed by a stroke, twice; 6 bytes of wire hold two codes in
  flight. The keys are those with a special path: one that types nothing, tab,
  shift, caps lock, a letter, a digit, backspace, code 132.
  `Console` has both shift keys, a letter, which is two characters with and without
  them, and an extended key, 3 presses and 3 bytes of wire, as many as the
  longest code has: two shift keys and a letter can overlap in any order. 3
  slots make the ring wrap within the presses. `MaxTicks` is 1: what holds until
  the timer strikes the loop at work is not helped by a second time.
* `Irq`: device IRQs on the slave above and below its spurious 15 (12, 14) and
  one on the master below the keyboard's priority (4), one exception, as often as
  it likes. Time is
  not bounded, nor are keys: the state space is finite. The controller may start
  with any configuration, a byte in its buffer, and a keyboard in the middle of a
  code. `MisreadsShown` caps the count of misread strokes one above what
  `BootDamage` allows; the bound of two is reached. Other devices request only
  once interrupts are on: before, a request would only wait.
* `Memory`: addresses 0 to 11 with pages of 2 bytes, so that entries can be
  unaligned at either end, contained in a page, touching, nested, equal; up to
  five entries, and a table of four that the fifth does not fit into when all
  four before it are usable. `MaxWild`
  only bounds how long the model goes on after exhaustion.
* `Paging`: tables of 3 entries, so that "2M" is 3 pages and "1G" is 9: up to 30
  pages cross every kind of boundary, and the calls take one, two and three
  tables. Two or three blocks, the last too small for the tables in some. A
  layout has to have room above the kernel's image for one table for each
  region mapped (RoomAssumption, see Proofs).
  Frame buffers of 1, 3 and 6 pages, and one of 10 that is refused. Deadlock is
  checked: no layout runs out of memory. `Sizes` of 1, 3 and 4 meet the limit
  exactly and pass it; no size wraps the address. `Remains`, what memory holds
  where tables will be, looks like tables full of entries: a table that is used
  before it is cleared shows. PagingProofs does without all of these bounds.
* `Terminal`: 4 by 4; TerminalProofs has any width and any height from 3 on.
  A text is any number of characters; the numbers are zero, one with a zero at
  the end (two digits) and one of three different digits.

`CHECK_DEADLOCK FALSE` stands in `Keyboard` (the user has no key left to press)
and in the two Memory runs (the allocator at the end of `MaxWild`).

### Fairness

* `RingBuffer`: the consumer executes; a `hlt` ends some time, because the
  platform timer ticks and keys are released (`WF(QuietInterrupt)`). This one
  matters: without it `EveryByteTaken` and, in Console, `EveryKeyShown` fail.
  `keyboard_main` finds the buffer empty, the key's interrupt comes, and
  `hlt` sleeps on it; only the next interrupt wakes the loop. The kernel relies
  on its timer without saying so.

  The same timer may strike the consumer at work instead of in `hlt`, and
  nothing in the code prevents it: `Systick` is possible whenever the consumer
  works, at most as often as `MaxTicks` says, and never certain. So each
  property says what it needs. `EveryByteTaken` is checked with overruns and
  ticks; a byte may then also end in a fault that repeats for ever.
  `NothingLost` and `EveryKeyShown` speak of behaviours up to the first tick at
  work: after one, characters may be lost, repeated or invented. `FifoSpec`
  needs `MaxTicks` to be 0, or, in the proof, that no tick at work has happened.
* `Console`: pending interrupts are taken, the loop runs, a `hlt` does not outlast
  the next tick; no fairness for the user, nor for ticks at work.
* `Interrupts`: boot, handlers and, once the CPU has no gate to go through, the
  reset run; the controller gets round to what is in its
  input buffer and the keyboard to its replies, though not in any order the
  kernel relies on; nothing makes keys come. `InitEnds` is about boots during
  which keys stop coming some time: the flush loops read as long as there is
  something to read. Exceptions in the boot have to stop, too, for it and for
  `EveryByteRead`: each returns to the instruction that raised it, or resets the
  machine, and one that is raised for ever leaves no room for anything else. An
  interrupt that is deliverable
  again and again is taken (strong fairness, since handlers of higher priority
  come in between). Devices owe nothing.

## Findings

1. **Overrun loses the whole buffer** (`ringbuf.c:16`, `RingOverrunFifo`). On a
   full buffer the push gives up the oldest byte by `p_read++`, without a wrap.
   At the end of the buffer the pointers then describe an empty queue, or
   `has_data` says yes when there is nothing and the pop reads behind the end.
2. **The stub owes EOIs** (`interrupts.c:60`, `IrqUnended`). A device without a
   driver interrupts once; then it and all of lower priority are silent.
   `ServedNotBlocked` shows that the timer and the keyboard are not among them.
3. **Running out of memory goes unnoticed** (`pmem.c:29`, `MemoryExhausted`):
   `pmem_current_block < 0` is never true of a `size_t`.
4. **Page tables in the linear space** (`paging.c:243`, `PagingAlias`). When
   mapping one of the last pages needs new tables, `pmem_alloc_page` may return
   the page being mapped. `AliasBounded` shows that it is the last three pages
   at most, as long as the last block can hold the tables: the loop's re-read
   of `block->limit` keeps it from getting worse.

Smaller disagreements, met on the way: `keyboard_init` sends seven bytes to the
keyboard, which acknowledges each, and reads three answers. "PS/2 enable
scanning failed!" (`keyboard.c:265`) is decided by the answer to an earlier
command, and "PS/2 reset failed!" and "PS/2 self-test failed!" (`:272`, `:276`) by
what is left of those; KeyboardInit has every such pairing, and `InitEnds` and
`BootDamage` show that it does no harm beyond the message. They rest on a
controller that serves the CPU before the keyboard: with one that lets a key in
while a command is waiting, `keyboard_init` can wait for the input buffer while
the controller waits for its output buffer, for ever. At most two strokes at
boot are misread or doubled, because the handler does not look at the status
before it reads. The comments at `paging.c:177` and `:188`
speak of 2G for the kernel, but `kernel_pd1` is never linked and 1G is mapped.
While the main loop scrolls, a handler that prints draws one row below the
screen (`HandlerNear` says when), which at 1280x720 is exactly past the last
mapped page of the frame buffer. A frame buffer between 1G - 2M and 1G passes
the check in `paging_remap_lfb` and would replace the kernel's own mapping; the
instance of Paging has none, and `SpaceSpec` fails if it is given one.

## Proofs

TLAPS checks these for every value of the constants.

* **RingBufferProofs** (assuming RingAssumption: at least 2 slots, and two
  values that are no bytes). `TypeCorrect`, and `ReadsConfined`, by the
  inductive invariant `Confined`: `ReadConfined` alone is not inductive, as a
  store in flight writes `rax`; `Confined` says what `rax` and `rdx` can be at
  each `pc` and how far each may be ahead for the ticks there were.
* There, too, assuming also PacedEnvironment (the backlog never exceeds
  `RINGBUF_SIZE - 1`): `RingIsFifo`, a behaviour in which `ticks` stays 0
  implements ByteFifo. The invariant `Paced`, which holds until the first tick at
  work (`AlwaysPaced`), adds to the types that the
  registers of a pop agree with the memory at each `pc` (`Pop`: no push moves
  `p_read`, so that what was loaded is still true) and that the slots of the
  queue hold bytes (`Bytes`). Lemmas say how `Queue` changes: a push appends
  (`PushAppends`), the store of a pop takes the head (`StoreTakes`), nothing
  else changes it (`QuietSteps`, `QueueUnchanged`).
* **TerminalProofs** (assuming a width of at least 1 and a height of at least
  3). `TypeCorrect`, `CursorIsAtRest`, `MainDrawsInside`, `HandlerDrawsNear`,
  from `IInv`: TypeOK and `Placed`, which ties memory to registers. A `row` of
  `height` is in memory only while the loop has it in `r` and is on its way to
  the scroll, a `col` of `width` only while the loop has it in `x` and is about
  to look, and never both. That is what a handler's wrap and scroll, in the
  middle of the loop's, could break. `PrintfImplementsTerminal`: Screen, with the
  real format strings, implements Terminal; `ColoursComeBack` is `MainColours`.
  Both rest on `Printf`: a line feed is the last token of what is left of a
  format, and the last word on the colours in it is a reset, unless they are
  back already. `ScreenDrawsInside` takes the results about Terminal over.

  `NumbersAreShown` is NumberShown, for any set of numbers that a handler
  may print. What `ulltoa` writes is a recursion, so it is
  characterised first: the loop writes the digits lowest first (`BackwardsIs`,
  `FromIsDigits`), the swaps turn them round (`ReversedIs`), and the two give
  the number (`UlltoaIsNumber`). `Numbered` then
  follows them to the screen: what is shown already, together with `digits`,
  is the digits of the number whose `%x` was met last.

* **KeyboardProofs** (assuming KeyboardAssumption: the keys are among those of
  the tables; any number of presses, unplugs and bytes in flight, any value
  behind the tables). `TypeCorrect`; `UnplugDamage`, that is `DamageBounded`;
  and `ShiftReleased`, which is `NoStuckShift` under NoShiftBehind: no unplug,
  and the word behind the tables is not one of the values of a shift key.
  `DamageBounded` counts what has gone wrong and says nothing of the bytes in
  flight, so it is not inductive. `Grammar` is what a prefix may be followed by
  however an unplug has cut the wire, and `Damage` charges each unplug with a
  stroke that was misread, or will be because the decoder is out of step
  (`Late`), or may be because the self-test of the new keyboard is still on the
  wire; never with two. `ShiftTold` relates the last shift code on the wire to
  the keys that are down. `EventsKept` is EventSpec, for a keyboard that stays
  plugged in: the handler implements KeyEvents. The events in flight are the
  bytes of `wire` that name a key, in order (`Strokes`). What is appended to the
  wire leaves the events in front of it as they are (`StrokesStay`), and with
  the byte that is read goes its event, if it is one, and no other
  (`StrokesShift`). That this is the event of the key that the decoder applies,
  with `break_next` for its direction, is `Grammar` again.
* **ConsoleProofs** (ConsoleAssumption). `NoCharacterLost`: what the loop has
  shown, has in hand and has in the buffer is what was typed, for every set of
  keys and every size of buffer, as long as the typist leaves room and until the
  timer strikes the loop at work; `TypeCorrect`, `EventsKept` and
  `ShiftReleased`. It joins KeyboardProofs and RingBufferProofs as instances:
  each step of the whole is a step of both, or of one while the other stands
  still.
* **InterruptsProofs** (InterruptsAssumption: which IRQs have devices, which
  vectors are faults). `TypeCorrect`, `TimerAndKeyboardServed`, `EoiEndsOwn`,
  `GatesBeforeInterrupts`, `ConfigurationSafe` and `BootDamageBounded`, for
  every set of devices without a driver, and of exceptions. `GatesBeforeInterrupts`
  says what is taken when: an interrupt only in the loop, because an exception in
  the boot restores the flags it found (`frame_if`), an exception at any time, and
  without a gate only before `idt_init`. `InService` is the crux for the EOIs,
  which name nobody: of the timer and the keyboard, the one in service is the
  one whose handler runs and has not ended it, and handlers do not nest.
  `Conversation` follows `keyboard_init` access by access: when the controller
  expects a configuration byte, and that the last one has the kernel's bits,
  whatever was read. `Owed` counts the answers of the keyboard. For
  `BootDamage` a second invariant, `DInv`, relates what the keyboard still has
  to say to what the decoder holds.
* **PmemProofs** (PmemAssumption: a page has at least one byte, the table at
  least one entry). `TypeCorrect`, `PagesAccounted`, `BlocksApart`,
  `EveryPageServed` and `PagesFresh`, for every page size and every memory map.
  Of these `Accounted` speaks of pages and the code of limits: it is kept only
  because blocks are whole pages, are sorted while they are merged (only then
  does the union of two overlapping blocks swallow nothing between them), and
  are apart when pages are cut off them. Its last conjunct, that pages are left out
  only behind a full table, is `DropKeeps`: no more blocks are in the table than
  entries were read. `PInv` says that of each phase, and
  that the blocks above the current one are used up, which is what
  `EveryPageServed` comes down to.
* **MemoryProofs** (the same assumption). `SortImplementsPmem`: Memory
  implements Pmem, that is, the steps of `_qsort` are stutters until the last,
  which leaves a sorted permutation. Pmem's five theorems are carried over along
  the refinement. `PartsAreSeparate` and `RecursionBounded` are about the
  recursion itself. `RecursionBounded` rests on `Shallow`: a part is shorter by
  one element, its pivot, for each frame below its call. `Stacked` is what makes
  the rest inductive: between the parts of any two calls on the stack there is a
  pivot that is in its place for good, as many as there are calls between them;
  the degenerate call that a pivot at index 0 leaves covers that pivot and is
  the one exception. `Settled` says that any two elements in the wrong order are
  in the part of one call still to come, and `Partitioned` is the loop's
  invariant.
* **PagingProofs** (PmemAssumption, PagingAssumption, VmemAssumption). Any size
  of table from 3 entries on, any memory below the kernel's part of the address
  space, any number of blocks, any frame buffer that fits below the kernel or is
  refused, and anything in memory beforehand. `SpaceKept`: paging_init
  implements AddressSpace, from boot.S's mapping without its identity map on.
  `FewAliases`, `MemoryMapped`, `FrameBufferMapped` and `PagingTypeCorrect` are
  the run's invariants; `FreshMemory` is VmemFresh, if no request is so large
  that an address wraps (NoWrap). `ImageStays` says that no table is put into
  the kernel's image, and `TablesFound` that `pmem_alloc_page` has a page
  whenever `paging_map_page` asks for one.

  All of them rest on RoomAssumption: the usable memory above the image has at
  least as many pages as there are regions to be mapped, that is a table for each
  512 pages of memory, a directory for each 1G, directory pointers for each
  512G, and the same for the frame buffer. On a real machine that is about 2 MB
  for each GB. The code does not look: a machine with less would put a table
  over the image, its own page tables included. What PagingAssumption says of
  Layouts is no assumption about machines: `LayoutsAreLeft` proves from Pmem
  that pmem_init leaves nothing else.

  The argument has five parts. *Addresses* (`Digits`, `HasDigits`): a page is its
  four indices, so different pages part at some level. *The tree* (`TreeIn`):
  no page is the table of two places, and all are in the image or were handed
  out by pmem. From that, writing one entry changes the walk of only those pages
  that come through it (`Elsewhere`), and the one entry of the window changes
  none but TEMP_MAP_ADDR's (`TempMapped`); a page pmem has just handed out is
  nobody's table, which is where `Accounted` is needed (`Created`). *The
  walk* (`Walk`): the table seen through the window is the one of the level for
  the address being mapped, and the address is not mapped yet. *The
  loops* (`LoopsInv`): what is mapped is the kernel, the frame buffer so far and
  the linear space, whose frames ascend and stay below the next one, and what of
  each block's pages is in it. `VInv` is all of these; for `AliasBounded`,
  `Taking` adds how far `phys` may be above the last block's limit at each level
  of the walk. *The count* (`RoomInv`): each table handed out is the table of some
  region that is to be mapped (`Placed`), and a region has one table, so that
  there are no more tables than regions (`TablesCounted`). Pages are
  handed out from the top (`TakenFromTop`): for one to be in the image, all
  usable pages above would be tables already, and the table about to be made
  would be one more than there are regions. That pmem does not run
  out is the same count.

A recursion over data, such as the digits of a number or the selection of the
events from the wire, is an induction that the library's theorems cannot be
cited for, as they take an operator. KeyboardProofs and TerminalProofs state
induction for a *set* of numbers instead (`Induction`, from the least element of
its complement), and each use of it comprehends the set of lengths, or of numbers,
that the fact holds for.

Only model-checked is liveness, which is out of the prover's reach:
EveryByteTaken, EveryKeyShown, InitEnds, EveryByteRead. All invariants, action
properties and refinements of the passing runs are proved.

## What is not modelled

* Pmem's sort starts with at least one block: with none, `qsort` would index
  by `SIZE_MAX`, but a machine without RAM does not boot. A missing memory map
  or frame buffer tag is not modelled either; Multiboot loaders give both.
* pmem's blocks include the kernel's image and the boot loader's data, which
  nobody reserves. Allocation goes from the top of memory down, and Paging's
  layouts have enough room above the image, as machines do (RoomAssumption):
  that is why `ImageKept` holds.
* What `keyboard_init` prints about the answers it gets, extended codes and other
  kinds of bytes at boot (they are ignored like replies), the second PS/2 port.
* `printf`'s `%s`, `%c` and `%%`, which no format uses, `%u`, which is `%x` with
  another base, and the wording of boot messages. Numbers are small; that 64
  bits fit `ulltoa`'s buffers is arithmetic on their sizes (20 and 16 digits).
* Tab and carriage return, which nothing prints; the pixels of a glyph; what the
  fault handler does when its own message faults, below the frame buffer.
* A size near 2^64 given to `vmem_alloc`, which would wrap `linear_base` and hand
  memory out twice: it has no caller. `VmemFresh` fails with `Sizes = {3, 80}`.
* The GDT, mode switching in boot.S, Multiboot's tag walk, the font, string
  helpers: set once, data, or single instructions. PCI has no caller.

## Plan

Done first, because everything a user sees goes through it: the key buffer, its
proof, the decoder, their composition, interrupt delivery; then memory, paging
and the terminal; then `keyboard_init`'s conversation inside Interrupts,
`vmem_alloc` over Paging, and `printf` over Terminal; then the proofs about all
of these. What is left is what no proof can reach here, liveness, and what is
not worth a module: the parts listed above as not modelled.
