---------------------------- MODULE ConsoleProofs ----------------------------
(***************************************************************************)
(* From the key to the screen nothing is lost until the timer strikes the  *)
(* loop at work, for every set of keys and every size of the key buffer:   *)
(* what KeyboardProofs shows of the handler and RingBufferProofs of the    *)
(* buffer, joined.                                                         *)
(***************************************************************************)
EXTENDS Console, TLAPS, SequenceTheorems

KBP == INSTANCE KeyboardProofs WITH MaxReplugs <- 0

RBP == INSTANCE RingBufferProofs
         WITH Byte <- Chars, Nul <- KB!KB_NUL, MaxBacklog <- RINGBUF_SIZE - 1

-----------------------------------------------------------------------------
(* The assumptions of the parts hold of the whole.                           *)
LEMMA PartsAssume ==
  /\ KBP!KeyboardAssumption
  /\ RBP!RingAssumption
  /\ RBP!PacedEnvironment
<1>1. KBP!KeyboardAssumption
  BY ConsoleAssumption DEF ConsoleAssumption, KBP!KeyboardAssumption, KB!KeyboardAssumption,
     KB!SampleCodes, KBP!SampleCodes, KB!SC_F1, KBP!SC_F1, KB!SC_TAB, KBP!SC_TAB, KB!SC_LSHIFT, KBP!SC_LSHIFT, KB!SC_1, KBP!SC_1, KB!SC_A, KBP!SC_A, KB!SC_CAPS, KBP!SC_CAPS, KB!SC_RSHIFT, KBP!SC_RSHIFT, KB!SC_ENTER, KBP!SC_ENTER, KB!SC_BACKSPACE, KBP!SC_BACKSPACE, KB!SC_NUM8, KBP!SC_NUM8, KB!SC_SYSRQ, KBP!SC_SYSRQ
<1>2. KB!KB_NUL \notin Chars /\ Stray \notin Chars /\ KB!KB_NUL # Stray
  BY DEF Chars, Stray, KB!KB_NUL, KB!Ascii, KB!Newline, KB!KB_BACKSPACE
<1>3. RBP!RingAssumption
  BY <1>2, ConsoleAssumption DEF ConsoleAssumption, RBP!RingAssumption
<1>4. RBP!PacedEnvironment
  BY ConsoleAssumption DEF ConsoleAssumption, RBP!PacedEnvironment
<1> QED
  BY <1>1, <1>3, <1>4

(* The handler and the typist are those of the keyboard alone.               *)
LEMMA SameKeyboard ==
  /\ KB!Init <=> KBP!Init
  /\ KB!AllKeys = KBP!AllKeys
  /\ \A k : (KB!Press(k) <=> KBP!Press(k)) /\ (KB!Release(k) <=> KBP!Release(k))
  /\ KB!keyboard_irq_handler <=> KBP!keyboard_irq_handler
  /\ KB!TypeOK <=> KBP!TypeOK
  /\ KB!NoStuckShift <=> KBP!NoStuckShift
  /\ Chars = KBP!Chars
<1>1. KB!AllKeys = KBP!AllKeys
  BY DEF KB!AllKeys, KBP!AllKeys
<1>2. KB!Init <=> KBP!Init
  BY <1>1 DEF KB!Init, KBP!Init, KB!SC_ACK, KBP!SC_ACK
<1>3. Chars = KBP!Chars
  BY DEF Chars, KBP!Chars, KB!Ascii, KB!Newline, KB!KB_BACKSPACE, KBP!Ascii, KBP!Newline, KBP!KB_BACKSPACE
<1>4. KB!TypeOK <=> KBP!TypeOK
  BY <1>1, <1>3 DEF KB!TypeOK, KBP!TypeOK, KB!WireByte, KBP!WireByte, Chars, KBP!Chars
<1>5. KB!NoStuckShift <=> KBP!NoStuckShift
  BY DEF KB!NoStuckShift, KBP!NoStuckShift, KB!SC_LSHIFT, KBP!SC_LSHIFT, KB!SC_RSHIFT, KBP!SC_RSHIFT
<1>6. \A k : (KB!Press(k) <=> KBP!Press(k)) /\ (KB!Release(k) <=> KBP!Release(k))
  BY DEF KB!Press, KBP!Press, KB!Release, KBP!Release, KB!Send, KBP!Send, KB!MakeCodes, KBP!MakeCodes,
     KB!BreakCodes, KBP!BreakCodes, KB!Prefix, KBP!Prefix, KB!SC_EXTENDED, KBP!SC_EXTENDED,
     KB!KB_SCAN2_BREAK, KBP!KB_SCAN2_BREAK, KB!decoder, KBP!decoder
<1>7. KB!keyboard_irq_handler <=> KBP!keyboard_irq_handler
  <2>1. KB!SampleCodes = KBP!SampleCodes
    BY DEF KB!SampleCodes, KBP!SampleCodes, KB!SC_F1, KBP!SC_F1, KB!SC_TAB, KBP!SC_TAB, KB!SC_LSHIFT, KBP!SC_LSHIFT, KB!SC_1, KBP!SC_1, KB!SC_A, KBP!SC_A, KB!SC_CAPS, KBP!SC_CAPS, KB!SC_RSHIFT, KBP!SC_RSHIFT, KB!SC_ENTER, KBP!SC_ENTER, KB!SC_BACKSPACE, KBP!SC_BACKSPACE, KB!SC_NUM8, KBP!SC_NUM8, KB!SC_SYSRQ, KBP!SC_SYSRQ
  <2>2. KB!kb_ps2_scancode2 = KBP!kb_ps2_scancode2
    BY <2>1 DEF KB!kb_ps2_scancode2, KBP!kb_ps2_scancode2, KB!SC_F1, KBP!SC_F1, KB!SC_TAB, KBP!SC_TAB, KB!SC_LSHIFT, KBP!SC_LSHIFT, KB!SC_1, KBP!SC_1, KB!SC_A, KBP!SC_A, KB!SC_CAPS, KBP!SC_CAPS, KB!SC_RSHIFT, KBP!SC_RSHIFT, KB!SC_ENTER, KBP!SC_ENTER, KB!SC_BACKSPACE, KBP!SC_BACKSPACE, KB!SC_NUM8, KBP!SC_NUM8, KB!SC_SYSRQ, KBP!SC_SYSRQ,
       KB!KB_F1, KBP!KB_F1, KB!KB_TAB, KBP!KB_TAB, KB!KB_LSHIFT, KBP!KB_LSHIFT, KB!KB_RSHIFT, KBP!KB_RSHIFT, KB!KB_CAPSLOCK, KBP!KB_CAPSLOCK, KB!KB_ENTER, KBP!KB_ENTER, KB!KB_BACKSPACE, KBP!KB_BACKSPACE
  <2>3. KB!kb_ps2_scancode2_shift = KBP!kb_ps2_scancode2_shift
    BY <2>2 DEF KB!kb_ps2_scancode2_shift, KBP!kb_ps2_scancode2_shift, KB!SC_1, KBP!SC_1, KB!SC_A, KBP!SC_A
  <2>4. \A code : KB!OutOfBounds(code) <=> KBP!OutOfBounds(code)
    BY DEF KB!OutOfBounds, KBP!OutOfBounds, KB!WORD, KBP!WORD, KB!TABLE_ENTRIES, KBP!TABLE_ENTRIES
  <2>5. \A shift, code : KB!Lookup(shift, code) = KBP!Lookup(shift, code)
    BY <2>2, <2>3 DEF KB!Lookup, KBP!Lookup, KB!TABLE_ENTRIES, KBP!TABLE_ENTRIES
  <2>6. \A key : /\ KB!AfterShift(key) <=> KBP!AfterShift(key)
                 /\ KB!AfterCaps(key) = KBP!AfterCaps(key)
                 /\ KB!AfterBreak(key) = KBP!AfterBreak(key)
                 /\ KB!Pushed(key) = KBP!Pushed(key)
    BY DEF KB!AfterShift, KBP!AfterShift, KB!AfterCaps, KBP!AfterCaps, KB!AfterBreak, KBP!AfterBreak,
       KB!Pushed, KBP!Pushed, KB!KB_LSHIFT, KBP!KB_LSHIFT, KB!KB_RSHIFT, KBP!KB_RSHIFT, KB!KB_CAPSLOCK, KBP!KB_CAPSLOCK, KB!KB_ENTER, KBP!KB_ENTER, KB!KB_BACKSPACE, KBP!KB_BACKSPACE,
       KB!IsShift, KBP!IsShift, KB!Types, KBP!Types, KB!Char, KBP!Char, KB!Ascii, KBP!Ascii,
       KB!Lowercase, KBP!Lowercase, KB!Newline, KBP!Newline
  <2>7. \A b : KB!Decode(b) <=> KBP!Decode(b)
    BY <2>5, <2>6 DEF KB!Decode, KBP!Decode
  <2> QED
    BY <2>4, <2>7 DEF KB!keyboard_irq_handler, KBP!keyboard_irq_handler, KB!KB_SCAN2_BREAK,
       KBP!KB_SCAN2_BREAK, KB!decoder, KBP!decoder, KB!user, KBP!user
<1> QED
  BY <1>1, <1>2, <1>3, <1>4, <1>5, <1>6, <1>7

(* The buffer and the loop are those of the ring buffer alone.               *)
LEMMA SameRing ==
  /\ RB!Init <=> RBP!Init
  /\ \A b : RB!Push(b) <=> RBP!Push(b)
  /\ RB!QuietInterrupt <=> RBP!QuietInterrupt
  /\ RB!Systick <=> RBP!Systick
  /\ RB!Consumer <=> RBP!Consumer
  /\ RB!TypeOK <=> RBP!TypeOK
  /\ RB!Queue = RBP!Queue
  /\ RB!Taken = RBP!Taken
<1> USE DEF RB!Slots, RBP!Slots, RB!Elsewhere, RBP!Elsewhere, RB!Addr, RBP!Addr, RB!ring, RBP!ring,
     RB!registers, RBP!registers, RB!Goto, RBP!Goto, RB!Through, RBP!Through
<1>1. RB!Init <=> RBP!Init
  BY DEF RB!Init, RBP!Init
<1>2. \A b : RB!Push(b) <=> RBP!Push(b)
  BY DEF RB!Push, RBP!Push, RB!Backlog, RBP!Backlog, RB!ReadSlot, RBP!ReadSlot, RB!Wrapped, RBP!Wrapped,
     RB!Overrun, RBP!Overrun, RB!Resume, RBP!Resume
<1>3. RB!QuietInterrupt <=> RBP!QuietInterrupt
  BY DEF RB!QuietInterrupt, RBP!QuietInterrupt, RB!Resume, RBP!Resume
<1>8. RB!Systick <=> RBP!Systick
  BY DEF RB!Systick, RBP!Systick, RB!WorkPc, RBP!WorkPc, RB!PopPc, RBP!PopPc
<1>4. RB!Consumer <=> RBP!Consumer
  <2>1. RB!DataLoad <=> RBP!DataLoad
    BY DEF RB!DataLoad, RBP!DataLoad
  <2>2. RB!DataCmp <=> RBP!DataCmp
    BY DEF RB!DataCmp, RBP!DataCmp
  <2>3. RB!Test <=> RBP!Test
    BY DEF RB!Test, RBP!Test
  <2>4. RB!PopLoad <=> RBP!PopLoad
    BY DEF RB!PopLoad, RBP!PopLoad, RB!Succ, RBP!Succ
  <2>5. RB!PopStore <=> RBP!PopStore
    BY DEF RB!PopStore, RBP!PopStore
  <2>6. RB!PopFetch <=> RBP!PopFetch
    BY DEF RB!PopFetch, RBP!PopFetch
  <2>7. RB!PopEnd <=> RBP!PopEnd
    BY DEF RB!PopEnd, RBP!PopEnd, RB!AtEnd, RBP!AtEnd
  <2>8. RB!PopWrap <=> RBP!PopWrap
    BY DEF RB!PopWrap, RBP!PopWrap
  <2>9. RB!Putchar <=> RBP!Putchar
    BY DEF RB!Putchar, RBP!Putchar
  <2>10. RB!Refault <=> RBP!Refault
    BY DEF RB!Refault, RBP!Refault
  <2> QED
    BY <2>1, <2>2, <2>3, <2>4, <2>5, <2>6, <2>7, <2>8, <2>9, <2>10 DEF RB!Consumer, RBP!Consumer
<1>5. RB!TypeOK <=> RBP!TypeOK
  BY DEF RB!TypeOK, RBP!TypeOK, RB!ConsumerPc, RBP!ConsumerPc, RB!WorkPc, RBP!WorkPc, RB!PopPc, RBP!PopPc
<1>6. RB!Queue = RBP!Queue
  BY DEF RB!Queue, RBP!Queue, RB!Backlog, RBP!Backlog, RB!ReadSlot, RBP!ReadSlot, RB!SlotAt, RBP!SlotAt
<1>7. RB!Taken = RBP!Taken
  BY DEF RB!Taken, RBP!Taken
<1> QED
  BY <1>1, <1>2, <1>3, <1>4, <1>5, <1>6, <1>7, <1>8

-----------------------------------------------------------------------------
(* Seen from the keyboard, a step of the console is one of the typist or the *)
(* handler, or none.                                                         *)
LEMMA KeyboardSteps == Spec => KBP!Spec
<1>1. Init => KBP!Init
  BY SameKeyboard DEF Init
<1>2. [Next]_vars => [KBP!Next]_(KBP!vars)
  <2> SUFFICES ASSUME [Next]_vars PROVE [KBP!Next]_(KBP!vars)
    OBVIOUS
  <2>1. CASE User \/ isr33
    BY <2>1, SameKeyboard DEF User, isr33, KBP!Next
  <2>2. CASE isr_systick \/ keyboard_main \/ UNCHANGED vars
    BY <2>2 DEF isr_systick, keyboard_main, vars, kbVars, KBP!vars, KBP!user, KBP!decoder
  <2> QED
    BY <2>1, <2>2 DEF Next
<1> QED
  BY <1>1, <1>2, PTL DEF Spec, KBP!Spec

(* The keyboard's types hold along the way.                                  *)
LEMMA KeyboardTypes == Spec => []KBP!TypeOK
  BY KeyboardSteps, PartsAssume, KBP!TypeCorrect, PTL

(* An interrupt that types pushes the character that it types.               *)
LEMMA IsrPushes ==
  ASSUME KBP!TypeOK, isr33, out' # out
  PROVE  \E c \in Chars : out' = Append(out, c) /\ RBP!Push(c)
<1>1. KBP!keyboard_irq_handler
  BY SameKeyboard DEF isr33
<1>2. PICK c \in Chars : out' = Append(out, c)
  BY <1>1, PartsAssume, SameKeyboard, KBP!HandlerPushes
<1>3. out \in Seq(Chars)
  BY SameKeyboard DEF KBP!TypeOK, KBP!Chars
<1>4. out'[Len(out')] = c
  BY <1>2, <1>3, AppendProperties
<1>5. RB!Push(out'[Len(out')])
  BY DEF isr33, Deliver
<1> QED
  BY <1>2, <1>4, <1>5, SameRing

(* An interrupt that types nothing does nothing to the loop but end a hlt.   *)
LEMMA IsrQuiet ==
  ASSUME isr33, out' = out
  PROVE  [RBP!QuietInterrupt]_(RBP!vars)
<1>1. RB!QuietInterrupt \/ UNCHANGED rbVars
  BY DEF isr33, Deliver
<1>2. UNCHANGED rbVars => UNCHANGED RBP!vars
  BY DEF rbVars, RBP!vars, RBP!ring, RBP!registers
<1> QED
  BY <1>1, <1>2, SameRing

(* Seen from the buffer, a step of the console is one of its own ...         *)
LEMMA RingStep == KBP!TypeOK /\ [Next]_vars => [RBP!Next]_(RBP!vars)
<1> SUFFICES ASSUME KBP!TypeOK, [Next]_vars PROVE [RBP!Next]_(RBP!vars)
  OBVIOUS
<1>1. CASE isr33 /\ out' # out
  BY <1>1, IsrPushes DEF RBP!Next
<1>2. CASE isr33 /\ out' = out
  BY <1>2, IsrQuiet DEF RBP!Next
<1>3. CASE isr_systick \/ keyboard_main
  BY <1>3, SameRing DEF isr_systick, keyboard_main, RBP!Next
<1>4. CASE User \/ UNCHANGED vars
  BY <1>4 DEF User, vars, rbVars, RBP!vars, RBP!ring, RBP!registers
<1> QED
  BY <1>1, <1>2, <1>3, <1>4 DEF Next

(* ... and so the buffer behaves as it does alone.                           *)
LEMMA RingSteps == Spec => RBP!Spec
<1>1. Init => RBP!Init
  BY SameRing DEF Init
<1> QED
  BY <1>1, RingStep, KeyboardTypes, PTL DEF Spec, RBP!Spec

(* The types of the buffer and the loop hold along the way, ...              *)
LEMMA RingTypes == Spec => []RBP!TypeOK
  BY RingSteps, PartsAssume, RBP!TypeCorrect, PTL

(* ... and since the typist stays within the buffer, the loop is paced until *)
(* the timer strikes it at work.                                             *)
LEMMA RingPaced == Spec => [](ticks = 0 => RBP!Paced)
  BY RingSteps, PartsAssume, RBP!AlwaysPaced, PTL

-----------------------------------------------------------------------------
(* Where the characters are.                                                 *)
Hand(taken) == IF taken = KB!KB_NUL THEN <<>> ELSE <<taken>>
Conserved == echoed \in Seq(Chars) /\ out = echoed \o Hand(RBP!Taken) \o RBP!Queue

(* What is behind the hand does not depend on how it is put together.        *)
LEMMA Regroup ==
  ASSUME NEW e \in Seq(Chars), NEW h \in Seq(Chars), NEW q \in Seq(Chars)
  PROVE  e \o h \o q = e \o (h \o q)
  BY ConcatAssociative

(* Nothing or a character is in keyboard_main's hand, characters are queued. *)
LEMMA QueueOfChars ==
  ASSUME RBP!Paced
  PROVE  /\ RBP!Queue \in Seq(Chars)
         /\ RBP!Taken \in Chars \cup {KB!KB_NUL}
<1>1. RBP!Queue \in Seq(Chars)
  BY PartsAssume, RBP!QueueIsSequence DEF RBP!SequenceOfBacklog
<1>2. RBP!Taken \in Chars \cup {KB!KB_NUL}
  BY DEF RBP!Taken, RBP!Paced, RBP!Pop, RBP!Bytes
<1> QED
  BY <1>1, <1>2

(* 0 is no character. *)
LEMMA NulNoChar == KB!KB_NUL \notin Chars
  BY DEF Chars, KB!KB_NUL, KB!Ascii, KB!Newline, KB!KB_BACKSPACE

(* The push of an interrupt puts what was typed at the end of the queue.     *)
LEMMA PushConserves ==
  ASSUME Conserved, RBP!Paced, RBP!Paced', NEW c \in Chars, RBP!Push(c), out' = Append(out, c),
         UNCHANGED echoed
  PROVE  Conserved'
<1> DEFINE h == Hand(RBP!Taken)
           q == RBP!Queue
<1>1. RBP!Queue' = Append(q, c) /\ RBP!Taken' = RBP!Taken
  BY PartsAssume, RBP!PushAppends
<1>2. q \in Seq(Chars) /\ h \in Seq(Chars) /\ echoed \in Seq(Chars) /\ <<c>> \in Seq(Chars)
  BY QueueOfChars DEF Hand, Conserved
<1>3. out = echoed \o h \o q
  BY DEF Conserved
<1>4. Hand(RBP!Taken)' = h
  BY <1>1 DEF Hand, KB!KB_NUL
<1> HIDE DEF h, q
<1>5. out' = echoed \o h \o q \o <<c>>
  BY <1>2, <1>3, AppendIsConcat, ConcatProperties
<1>6. echoed \o h \o q \o <<c>> = echoed \o h \o (q \o <<c>>)
  BY <1>2, ConcatAssociative, ConcatProperties, SMTT(30)
<1>7. Append(q, c) = q \o <<c>>
  BY <1>2, AppendIsConcat
<1> QED
  BY <1>1, <1>2, <1>4, <1>5, <1>6, <1>7 DEF Conserved

(* The store of a pop takes the head of the queue in hand.                   *)
LEMMA StoreConserves ==
  ASSUME Conserved, RBP!Paced, RBP!Paced', RBP!PopStore, UNCHANGED <<echoed, out>>
  PROVE  Conserved'
<1> DEFINE q == RBP!Queue
<1>1. q # <<>> /\ RBP!Taken' = Head(q) /\ RBP!Queue' = Tail(q)
  BY PartsAssume, RBP!StoreTakes
<1>2. RBP!Taken = KB!KB_NUL
  BY DEF RBP!Taken, RBP!PopStore, RBP!Goto
<1>3. q \in Seq(Chars)
  BY QueueOfChars
<1>4. out = echoed \o <<>> \o q /\ echoed \in Seq(Chars)
  BY <1>2 DEF Conserved, Hand
<1> HIDE DEF q
<1>5. Head(q) \in Chars /\ Tail(q) \in Seq(Chars) /\ q = <<Head(q)>> \o Tail(q)
  BY <1>1, <1>3, HeadTailProperties
<1>6. Hand(RBP!Taken)' = <<Head(q)>>
  BY <1>1, <1>5, NulNoChar DEF Hand, KB!KB_NUL
<1>7. out = echoed \o (<<Head(q)>> \o Tail(q))
  BY <1>4, <1>5, ConcatEmptySeq
<1>8. echoed \o (<<Head(q)>> \o Tail(q)) = echoed \o <<Head(q)>> \o Tail(q)
  BY <1>4, <1>5, Regroup
<1> QED
  BY <1>1, <1>4, <1>6, <1>7, <1>8 DEF Conserved

(* putchar shows the character in hand.                                      *)
LEMMA PutcharConserves ==
  ASSUME Conserved, RBP!Paced, RBP!Putchar, echoed' = Append(echoed, byte), UNCHANGED out
  PROVE  Conserved'
<1>1. /\ RBP!Queue' = RBP!Queue /\ RBP!Taken = byte
      /\ byte \in Chars /\ RBP!Taken' = KB!KB_NUL
  BY PartsAssume, RBP!PutcharEmits
<1>2. RBP!Queue \in Seq(Chars) /\ echoed \in Seq(Chars)
  BY QueueOfChars DEF Conserved
<1>3. out = echoed \o <<byte>> \o RBP!Queue
  BY <1>1, NulNoChar DEF Conserved, Hand
<1>4. echoed' = echoed \o <<byte>> /\ echoed' \in Seq(Chars)
  BY <1>1, <1>2, AppendIsConcat, AppendProperties
<1>5. echoed' \o <<>> = echoed'
  BY <1>4, ConcatEmptySeq
<1>6. Hand(RBP!Taken)' = <<>>
  BY <1>1 DEF Hand, KB!KB_NUL
<1> QED
  BY <1>1, <1>3, <1>4, <1>5, <1>6 DEF Conserved

(* Nothing else moves a character.                                           *)
LEMMA QuietConserves ==
  ASSUME Conserved, RBP!Paced, [RBP!QuietInterrupt \/ RBP!Consumer]_(RBP!vars),
         ~RBP!PopStore, ~RBP!Putchar, UNCHANGED <<echoed, out>>
  PROVE  Conserved'
<1>1. RBP!Queue' = RBP!Queue /\ RBP!Taken' = RBP!Taken
  BY PartsAssume, RBP!NothingMoves
<1>2. Hand(RBP!Taken)' = Hand(RBP!Taken)
  BY <1>1 DEF Hand, KB!KB_NUL
<1> QED
  BY <1>1, <1>2 DEF Conserved

(* Every step but the strike of the timer at work leaves every character in  *)
(* one place.                                                                *)
LEMMA StepConserves ==
  ASSUME Conserved, KBP!TypeOK, RBP!Paced, RBP!Paced', [Next]_vars, ~RBP!Systick
  PROVE  Conserved'
<1>1. CASE isr33 /\ out' # out
  BY <1>1, IsrPushes, PushConserves DEF isr33
<1>2. CASE isr33 /\ out' = out
  <2>1. [RBP!QuietInterrupt]_(RBP!vars) /\ UNCHANGED echoed
    BY <1>2, IsrQuiet DEF isr33
  <2>2. ~RBP!PopStore /\ ~RBP!Putchar
    BY <2>1 DEF RBP!QuietInterrupt, RBP!vars, RBP!Resume, RBP!PopStore, RBP!Putchar, RBP!Goto
  <2> QED
    BY <1>2, <2>1, <2>2, QuietConserves
<1>3. CASE isr_systick
  <2>1. RBP!QuietInterrupt /\ UNCHANGED <<echoed, out>>
    BY <1>3, SameRing DEF isr_systick, kbVars
  <2>2. ~RBP!PopStore /\ ~RBP!Putchar
    BY <2>1 DEF RBP!QuietInterrupt, RBP!PopStore, RBP!Putchar, RBP!Goto
  <2> QED
    BY <2>1, <2>2, QuietConserves
<1>4. CASE keyboard_main
  <2>1. RBP!Consumer /\ UNCHANGED out
    BY <1>4, SameRing DEF keyboard_main, kbVars
  <2>2. CASE RBP!Putchar
    <3>1. echoed' = Append(echoed, byte)
      BY <1>4, <2>2 DEF keyboard_main, RBP!Putchar, RBP!Goto
    <3> QED
      BY <2>1, <2>2, <3>1, PutcharConserves
  <2>3. CASE ~RBP!Putchar
    <3>1. echoed' = echoed
      BY <1>4, <2>1, <2>3 DEF keyboard_main, RBP!Consumer, RBP!DataLoad, RBP!DataCmp, RBP!Test,
         RBP!PopLoad, RBP!PopStore, RBP!PopFetch, RBP!PopEnd, RBP!PopWrap, RBP!Refault, RBP!Goto
    <3>2. CASE RBP!PopStore
      BY <2>1, <3>1, <3>2, StoreConserves
    <3>3. CASE ~RBP!PopStore
      BY <2>1, <2>3, <3>1, <3>3, QuietConserves
    <3> QED
      BY <3>2, <3>3
  <2> QED
    BY <2>2, <2>3
<1>5. CASE User \/ UNCHANGED vars
  <2>1. UNCHANGED RBP!vars /\ UNCHANGED <<echoed, out>>
    <3>1. UNCHANGED <<rbVars, echoed>>
      BY <1>5 DEF User, vars
    <3>2. UNCHANGED out
      BY <1>5 DEF User, KB!Press, KB!Release, KB!Send, KB!decoder, vars, kbVars
    <3> QED
      BY <3>1, <3>2 DEF rbVars, RBP!vars, RBP!ring, RBP!registers
  <2>2. ~RBP!PopStore /\ ~RBP!Putchar
    BY <2>1 DEF RBP!vars, RBP!PopStore, RBP!Putchar, RBP!Goto
  <2> QED
    BY <2>1, <2>2, QuietConserves
<1> QED
  BY <1>1, <1>2, <1>3, <1>4, <1>5 DEF Next

(* ... and at the start there is none.                                       *)
LEMMA AlwaysConserved == Spec => [](ticks = 0 => Conserved)
<1>1. Init => Conserved
  <2> SUFFICES ASSUME Init PROVE Conserved
    OBVIOUS
  <2>1. RBP!Init /\ echoed = <<>> /\ out = <<>>
    BY SameRing DEF Init, KB!Init
  <2>2. RBP!Taken = KB!KB_NUL /\ RBP!Queue = <<>>
    BY <2>1, PartsAssume DEF RBP!Init, RBP!Taken, RBP!Queue, RBP!Backlog, RBP!ReadSlot, RBP!RingAssumption
  <2>3. <<>> \in Seq(Chars) /\ <<>> \o <<>> = <<>>
    BY ConcatEmptySeq
  <2> QED
    BY <2>1, <2>2, <2>3 DEF Conserved, Hand
<1>2. /\ ticks = 0 => Conserved
      /\ KBP!TypeOK /\ RBP!TypeOK
      /\ ticks = 0 => RBP!Paced
      /\ (ticks = 0 => RBP!Paced)'
      /\ [Next]_vars
      => (ticks = 0 => Conserved)'
  <2> SUFFICES ASSUME ticks = 0 => Conserved /\ RBP!Paced, KBP!TypeOK, RBP!TypeOK, RBP!Paced',
                      ticks' = 0, [Next]_vars
               PROVE  Conserved'
    OBVIOUS
  <2>1. ticks = 0 /\ ~RBP!Systick
    BY PartsAssume, RingStep, RBP!TicksGrow
  <2> QED
    BY <2>1, StepConserves
<1> QED
  BY <1>1, <1>2, KeyboardTypes, RingTypes, RingPaced, PTL DEF Spec

-----------------------------------------------------------------------------
(* Until the timer strikes keyboard_main at work, no character is lost,      *)
(* doubled or reordered between the interrupt handler and the screen,        *)
(* whatever the size of the buffer, and wherever in the loop the keyboard's  *)
(* interrupts strike.                                                        *)
THEOREM NoCharacterLost == Spec => []NothingLost
<1>1. (ticks = 0 => Conserved) => NothingLost
  BY SameRing DEF Conserved, NothingLost, Hand
<1> QED
  BY <1>1, AlwaysConserved, PTL

(* The types of the console, wherever the timer strikes: those of its parts, *)
(* and on the screen bytes, which are characters until it strikes at work.   *)
THEOREM TypeCorrect == Spec => []TypeOK
<1> DEFINE Shown == echoed \in Seq(Chars \cup {KB!KB_NUL, Stray})
<1>1. Init => Shown
  BY DEF Init
<1>2. Shown /\ RBP!TypeOK /\ [Next]_vars => Shown'
  <2> SUFFICES ASSUME Shown, RBP!TypeOK, [Next]_vars PROVE Shown'
    OBVIOUS
  <2>1. byte \in Chars \cup {KB!KB_NUL, Stray}
    BY DEF RBP!TypeOK
  <2>2. echoed' = echoed \/ echoed' = Append(echoed, byte)
    BY DEF Next, User, isr33, isr_systick, keyboard_main, vars
  <2> QED
    BY <2>1, <2>2, AppendProperties
<1>3. KBP!TypeOK /\ RBP!TypeOK /\ Shown /\ (ticks = 0 => Conserved) => TypeOK
  BY SameKeyboard, SameRing DEF TypeOK, Conserved
<1> QED
  BY <1>1, <1>2, <1>3, KeyboardTypes, RingTypes, AlwaysConserved, PTL DEF Spec

(* On the console, too, no shift key sticks.                                 *)
THEOREM ShiftReleased ==
  ASSUME KBP!NoShiftBehind
  PROVE  Spec => []NoStuckShift
<1>1. KBP!NoStuckShift => NoStuckShift
  BY SameKeyboard DEF NoStuckShift
<1> QED
  BY <1>1, KeyboardSteps, PartsAssume, KBP!ShiftReleased, PTL
(* What the console promises of events is what the keyboard does: the same   *)
(* strokes are on the wire, and KeyEvents' Keymap is the same.               *)
LEMMA SameEvents ==
  /\ KB!Events!Init <=> KBP!Events!Init
  /\ KB!Events!Next <=> KBP!Events!Next
  /\ UNCHANGED KB!Events!eventVars <=> UNCHANGED KBP!Events!eventVars
<1> USE DEF KB!Events!SC_F1, KBP!Events!SC_F1, KB!Events!SC_TAB, KBP!Events!SC_TAB,
     KB!Events!SC_LSHIFT, KBP!Events!SC_LSHIFT, KB!Events!SC_1, KBP!Events!SC_1,
     KB!Events!SC_A, KBP!Events!SC_A, KB!Events!SC_CAPS, KBP!Events!SC_CAPS,
     KB!Events!SC_RSHIFT, KBP!Events!SC_RSHIFT, KB!Events!SC_ENTER, KBP!Events!SC_ENTER,
     KB!Events!SC_BACKSPACE, KBP!Events!SC_BACKSPACE, KB!Events!SC_NUM8,
     KBP!Events!SC_NUM8, KB!Events!SC_SYSRQ, KBP!Events!SC_SYSRQ, KB!Events!KB_F1,
     KBP!Events!KB_F1, KB!Events!KB_TAB, KBP!Events!KB_TAB, KB!Events!KB_LSHIFT,
     KBP!Events!KB_LSHIFT, KB!Events!KB_RSHIFT, KBP!Events!KB_RSHIFT,
     KB!Events!KB_CAPSLOCK, KBP!Events!KB_CAPSLOCK, KB!Events!KB_ENTER,
     KBP!Events!KB_ENTER, KB!Events!KB_BACKSPACE, KBP!Events!KB_BACKSPACE
<1>1. \A bytes : KB!Strokes(bytes) = KBP!Strokes(bytes)
  BY DEF KB!Strokes, KBP!Strokes, KB!StrokeOf, KBP!StrokeOf, KB!IsStroke, KBP!IsStroke,
     KB!OutOfBounds, KBP!OutOfBounds, KB!WORD, KBP!WORD, KB!TABLE_ENTRIES, KBP!TABLE_ENTRIES,
     KB!KB_SCAN2_BREAK, KBP!KB_SCAN2_BREAK
<1>2. KB!Events!Init <=> KBP!Events!Init
  BY <1>1 DEF KB!Events!Init, KBP!Events!Init
<1>3. KB!Events!SampleCodes = KBP!Events!SampleCodes
  BY DEF KB!Events!SampleCodes, KBP!Events!SampleCodes
<1>4. \A shift, code : KB!Events!Lookup(shift, code) = KBP!Events!Lookup(shift, code)
  <2>1. KB!Events!kb_ps2_scancode2 = KBP!Events!kb_ps2_scancode2
    BY <1>3 DEF KB!Events!kb_ps2_scancode2, KBP!Events!kb_ps2_scancode2
  <2>2. KB!Events!kb_ps2_scancode2_shift = KBP!Events!kb_ps2_scancode2_shift
    BY <2>1 DEF KB!Events!kb_ps2_scancode2_shift, KBP!Events!kb_ps2_scancode2_shift
  <2> QED
    BY <2>1, <2>2 DEF KB!Events!Lookup, KBP!Events!Lookup, KB!Events!TABLE_ENTRIES,
       KBP!Events!TABLE_ENTRIES
<1>5. \A key, down : KB!Events!Apply(key, down) <=> KBP!Events!Apply(key, down)
  BY DEF KB!Events!Apply, KBP!Events!Apply, KB!Events!IsShift, KBP!Events!IsShift,
     KB!Events!Types, KBP!Events!Types, KB!Events!Ascii, KBP!Events!Ascii,
     KB!Events!Char, KBP!Events!Char, KB!Events!Lowercase, KBP!Events!Lowercase,
     KB!Events!Newline, KBP!Events!Newline
<1>6. KB!Events!Handle <=> KBP!Events!Handle
  BY <1>1, <1>4, <1>5 DEF KB!Events!Handle, KBP!Events!Handle
<1>7. \A code, down : KB!Events!Stroke(code, down) <=> KBP!Events!Stroke(code, down)
  BY <1>1 DEF KB!Events!Stroke, KBP!Events!Stroke
<1>8. KB!Events!Next <=> KBP!Events!Next
  BY <1>3, <1>6, <1>7 DEF KB!Events!Next, KBP!Events!Next
<1>9. UNCHANGED KB!Events!eventVars <=> UNCHANGED KBP!Events!eventVars
  BY <1>1 DEF KB!Events!eventVars, KBP!Events!eventVars
<1> QED
  BY <1>2, <1>8, <1>9

(* From the key to the character, every stroke is one event: the console's   *)
(* keyboard stays plugged in, and each of its steps is one of Keyboard.      *)
THEOREM EventsKept == Spec => EventSpec
<1>1. KBP!EventSpec => KB!EventSpec
  BY SameEvents, PTL DEF KBP!EventSpec, KB!EventSpec, KBP!Events!Spec, KB!Events!Spec
<1>2. KBP!Spec => KBP!EventSpec
  BY PartsAssume, KBP!EventsKept
<1> QED
  BY <1>1, <1>2, KeyboardSteps DEF EventSpec
=============================================================================
