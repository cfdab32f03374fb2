---------------------------- MODULE KeyboardProofs ----------------------------
(***************************************************************************)
(* What Keyboard's decoder keeps to, for every set of keys, every length   *)
(* of a run and every content of the words behind the tables: the types,   *)
(* the bound on what unplugging the keyboard costs, and that no shift key  *)
(* sticks.                                                                 *)
(***************************************************************************)
EXTENDS Keyboard, TLAPS, SequenceTheorems, FiniteSetTheorems, WellFoundedInduction

Bytes == 1 .. Len(wire)

(* The grammar of the wire, however it is cut by an unplug: a break prefix   *)
(* is followed by the released key's code, or by the self-test of the        *)
(* keyboard that was plugged in instead; and, from the second byte on, a     *)
(* release is what follows a prefix.                                         *)
Grammar ==
  /\ \A i \in Bytes : wire[i].code \in AllKeys \cup {KB_SCAN2_BREAK, SC_EXTENDED, SC_PASSED, SC_ACK}
  /\ \A i \in Bytes : wire[i].code = KB_SCAN2_BREAK =>
       /\ i + 1 \in Bytes
       /\ IsStroke(wire[i + 1]) \/ wire[i + 1].code = SC_PASSED
  /\ \A i \in Bytes : i > 1 /\ IsStroke(wire[i]) =>
       (wire[i].break <=> wire[i - 1].code = KB_SCAN2_BREAK)

(* The decoder is out of step: the next stroke to come will be taken for its *)
(* opposite.  A self-test that is about to come has yet to put it there.     *)
Late ==
  IF wire # <<>> /\ IsStroke(Head(wire)) THEN break_next # Head(wire).break
  ELSE break_next /\ (wire = <<>> \/ Head(wire).code # SC_PASSED)

(* Each unplug has cost a stroke, is about to, or waits in the wire; each of *)
(* them once.                                                                *)
Unplugs == {i \in Bytes : wire[i].code = SC_PASSED}
Damage ==
  /\ misreads + Cardinality(Unplugs) <= replugs
  /\ Late => misreads + Cardinality(Unplugs) + 1 <= replugs

(* The last shift code on the wire, or else the decoder, tells whether a     *)
(* shift key went down last; then that key is still down.                    *)
ShiftCodes == {SC_LSHIFT, SC_RSHIFT}
ShiftBytes == {i \in Bytes : wire[i].code \in ShiftCodes}
ShiftTold ==
  /\ \A i \in ShiftBytes : (\A j \in ShiftBytes : j <= i) /\ ~wire[i].break => wire[i].code \in held
  /\ ShiftBytes = {} /\ shift_next => held \cap ShiftCodes # {}

IInv == TypeOK /\ Grammar /\ Damage

-----------------------------------------------------------------------------
(* The codes: which of them are strokes, and which keys they stand for.      *)
LEMMA Codes ==
  /\ \A k \in AllKeys : k \in 0 .. 132 /\ k # KB_SCAN2_BREAK /\ k \in SampleCodes
  /\ \A byte \in WireByte :
       /\ byte.code \in AllKeys => IsStroke(byte)
       /\ byte.code \in {KB_SCAN2_BREAK, SC_EXTENDED, SC_PASSED, SC_ACK} => ~IsStroke(byte)
       /\ ~IsStroke(byte) <=> byte.code = KB_SCAN2_BREAK \/ OutOfBounds(byte.code)
<1>1. ASSUME NEW k \in AllKeys PROVE k \in 0 .. 132 /\ k # KB_SCAN2_BREAK /\ k \in SampleCodes
  BY KeyboardAssumption DEF KeyboardAssumption, AllKeys, SampleCodes, KB_SCAN2_BREAK, SC_F1, SC_TAB,
     SC_LSHIFT, SC_1, SC_A, SC_CAPS, SC_RSHIFT, SC_ENTER, SC_BACKSPACE, SC_NUM8, SC_SYSRQ
<1>2. ASSUME NEW byte \in WireByte
      PROVE  /\ byte.code \in AllKeys => IsStroke(byte)
             /\ byte.code \in {KB_SCAN2_BREAK, SC_EXTENDED, SC_PASSED, SC_ACK} => ~IsStroke(byte)
             /\ ~IsStroke(byte) <=> byte.code = KB_SCAN2_BREAK \/ OutOfBounds(byte.code)
  BY <1>1 DEF WireByte, IsStroke, OutOfBounds, KB_SCAN2_BREAK, SC_EXTENDED, SC_PASSED, SC_ACK,
     WORD, TABLE_ENTRIES
<1> QED
  BY <1>1, <1>2

(* What a stroke puts on the wire goes behind what is there.                 *)
Appended(codes, break) ==
  /\ wire' \in Seq(WireByte)
  /\ Len(wire') = Len(wire) + Len(codes) /\ Len(wire') <= WireCapacity
  /\ \A i \in Bytes : wire'[i] = wire[i]
  /\ \A i \in 1 .. Len(codes) : wire'[Len(wire) + i] = [code |-> codes[i], break |-> break]

(* What the keyboard sends goes behind what is on the wire, in order.        *)
LEMMA SendAppends ==
  ASSUME wire \in Seq(WireByte), NEW codes \in Seq(0 .. 255), NEW break \in BOOLEAN,
         Send(codes, break)
  PROVE  Appended(codes, break)
<1> DEFINE sent == [i \in DOMAIN codes |-> [code |-> codes[i], break |-> break]]
<1>1. sent \in Seq(WireByte) /\ Len(sent) = Len(codes)
  <2>1. DOMAIN codes = 1 .. Len(codes) /\ Len(codes) \in Nat
    BY LenProperties
  <2>2. \A i \in 1 .. Len(codes) : codes[i] \in 0 .. 255
    BY ElementOfSeq
  <2>3. sent \in [1 .. Len(codes) -> WireByte]
    BY <2>1, <2>2 DEF WireByte
  <2>4. sent \in Seq(WireByte)
    BY <2>1, <2>3, SeqDef
  <2> QED
    BY <2>1, <2>3, <2>4, LenProperties
<1>2. wire' = wire \o sent /\ Len(wire) + Len(codes) <= WireCapacity
  BY DEF Send
<1>3. \A i \in 1 .. Len(codes) : sent[i] = [code |-> codes[i], break |-> break]
  BY LenProperties
<1>4. Len(wire) \in Nat /\ Len(codes) \in Nat
  BY LenProperties
<1> HIDE DEF sent
<1>5. /\ wire' \in Seq(WireByte) /\ Len(wire') = Len(wire) + Len(codes)
      /\ \A i \in 1 .. Len(wire) + Len(codes) :
           wire'[i] = IF i <= Len(wire) THEN wire[i] ELSE sent[i - Len(wire)]
  <2>1. /\ wire \o sent \in Seq(WireByte) /\ Len(wire \o sent) = Len(wire) + Len(sent)
        /\ \A i \in 1 .. Len(wire) + Len(sent) :
             (wire \o sent)[i] = IF i <= Len(wire) THEN wire[i] ELSE sent[i - Len(wire)]
    BY <1>1, ConcatProperties, ZenonT(30)
  <2> QED
    BY <1>1, <1>2, <2>1
<1>6. ASSUME NEW i \in Bytes PROVE wire'[i] = wire[i]
  <2>1. i \in 1 .. Len(wire) + Len(codes) /\ i <= Len(wire)
    BY <1>4 DEF Bytes
  <2> QED
    BY <1>5, <2>1
<1>7. ASSUME NEW i \in 1 .. Len(codes)
      PROVE  wire'[Len(wire) + i] = [code |-> codes[i], break |-> break]
  <2>1. wire'[Len(wire) + i] = sent[i]
    BY <1>4, <1>5
  <2> QED
    BY <1>3, <2>1
<1>8. Len(wire') <= WireCapacity
  BY <1>2, <1>5
<1> QED
  BY <1>5, <1>6, <1>7, <1>8 DEF Appended

(* Sequences of two and three bytes, as MakeCodes and BreakCodes build them. *)
LEMMA Tuples ==
  ASSUME NEW a \in 0 .. 255, NEW b \in 0 .. 255, NEW c \in 0 .. 255
  PROVE  Append(<<a>>, b) = <<a, b>> /\ <<a>> \o <<b, c>> = <<a, b, c>>
<1> DEFINE S == 0 .. 255
<1> HIDE DEF S
<1>0. a \in S /\ b \in S /\ c \in S
  BY DEF S
<1>1. <<a>> \in Seq(S) /\ <<b, c>> \in Seq(S) /\ <<a, b>> \in Seq(S) /\ <<a, b, c>> \in Seq(S)
  BY <1>0
<1>2. Append(<<a>>, b) = <<a, b>>
  <2>1. /\ Append(<<a>>, b) \in Seq(S) /\ Len(Append(<<a>>, b)) = 2
        /\ Append(<<a>>, b)[1] = a /\ Append(<<a>>, b)[2] = b
    BY <1>1, AppendProperties
  <2>2. \A i \in 1 .. 2 : Append(<<a>>, b)[i] = <<a, b>>[i]
    BY <2>1
  <2> QED
    BY <1>1, <2>1, <2>2, SeqEqual
<1>3. /\ <<a>> \o <<b, c>> \in Seq(S) /\ Len(<<a>> \o <<b, c>>) = 3
      /\ (<<a>> \o <<b, c>>)[1] = a /\ (<<a>> \o <<b, c>>)[2] = b /\ (<<a>> \o <<b, c>>)[3] = c
  BY <1>1, ConcatProperties
<1>4. \A i \in 1 .. 3 : (<<a>> \o <<b, c>>)[i] = <<a, b, c>>[i]
  BY <1>3
<1>5. <<a>> \o <<b, c>> = <<a, b, c>>
  BY <1>1, <1>3, <1>4, SeqEqual
<1> QED
  BY <1>2, <1>5

(* The codes of a key, written out: one to three bytes, the prefix of an     *)
(* extended key first.                                                       *)
LEMMA StrokeCodes ==
  ASSUME NEW k \in AllKeys
  PROVE  /\ MakeCodes(k) = (IF k \in ExtendedKeys THEN <<SC_EXTENDED, k>> ELSE <<k>>)
         /\ BreakCodes(k) = (IF k \in ExtendedKeys THEN <<SC_EXTENDED, KB_SCAN2_BREAK, k>>
                                                   ELSE <<KB_SCAN2_BREAK, k>>)
         /\ MakeCodes(k) \in Seq(0 .. 255) /\ BreakCodes(k) \in Seq(0 .. 255)
<1>1. k \in 0 .. 255 /\ SC_EXTENDED \in 0 .. 255 /\ KB_SCAN2_BREAK \in 0 .. 255
  BY Codes DEF SC_EXTENDED, KB_SCAN2_BREAK
<1>2. CASE k \in ExtendedKeys
  <2>1. /\ Append(<<SC_EXTENDED>>, k) = <<SC_EXTENDED, k>>
        /\ <<SC_EXTENDED>> \o <<KB_SCAN2_BREAK, k>> = <<SC_EXTENDED, KB_SCAN2_BREAK, k>>
    BY <1>1, Tuples, ZenonT(40)
  <2>2. MakeCodes(k) = <<SC_EXTENDED, k>> /\ BreakCodes(k) = <<SC_EXTENDED, KB_SCAN2_BREAK, k>>
    BY <1>2, <2>1, Zenon DEF MakeCodes, BreakCodes, Prefix
  <2> QED
    BY <1>1, <1>2, <2>2
<1>3. CASE k \notin ExtendedKeys
  <2>1. MakeCodes(k) = <<k>> /\ BreakCodes(k) = <<KB_SCAN2_BREAK, k>>
    BY <1>3 DEF MakeCodes, BreakCodes, Prefix
  <2> QED
    BY <1>1, <1>3, <2>1
<1> QED
  BY <1>2, <1>3

(* A press appends one or two bytes, the last of them the key's; a release   *)
(* puts a prefix before it.                                                  *)
Pressed(k) ==
  \/ k \notin ExtendedKeys /\ Appended(<<k>>, FALSE)
  \/ k \in ExtendedKeys /\ Appended(<<SC_EXTENDED, k>>, FALSE)
Released(k) ==
  \/ k \notin ExtendedKeys /\ Appended(<<KB_SCAN2_BREAK, k>>, TRUE)
  \/ k \in ExtendedKeys /\ Appended(<<SC_EXTENDED, KB_SCAN2_BREAK, k>>, TRUE)

(* A key pressed or released appends the bytes of its code, and nothing      *)
(* else.                                                                     *)
LEMMA StrokesAppend ==
  ASSUME wire \in Seq(WireByte), NEW k \in AllKeys
  PROVE  /\ Press(k) => Pressed(k)
         /\ Release(k) => Released(k)
<1>1. Press(k) => Appended(MakeCodes(k), FALSE)
  BY SendAppends, StrokeCodes DEF Press
<1>2. Release(k) => Appended(BreakCodes(k), TRUE)
  BY SendAppends, StrokeCodes DEF Release
<1> QED
  BY <1>1, <1>2, StrokeCodes, ZenonT(30) DEF Pressed, Released

(* A replug cuts the wire somewhere and appends the self-test.               *)
CutAt(sent) ==
  /\ wire' \in Seq(WireByte)
  /\ Len(wire') = sent + 1 /\ Len(wire') <= WireCapacity
  /\ \A i \in 1 .. sent : wire'[i] = wire[i]
  /\ wire'[sent + 1] = [code |-> SC_PASSED, break |-> FALSE]

(* An unplug leaves some first part of the wire and the self-test's answer   *)
(* behind it.                                                                *)
LEMMA ReplugCuts ==
  ASSUME wire \in Seq(WireByte), Replug
  PROVE  \E sent \in 0 .. Len(wire) : CutAt(sent)
<1>1. PICK sent \in 0 .. Len(wire) :
        /\ sent < WireCapacity
        /\ wire' = Append(SubSeq(wire, 1, sent), [code |-> SC_PASSED, break |-> FALSE])
  BY DEF Replug
<1>2. Len(wire) \in Nat /\ \A i \in 1 .. sent : wire[i] \in WireByte
  BY LenProperties, ElementOfSeq
<1>3. /\ SubSeq(wire, 1, sent) \in Seq(WireByte)
      /\ Len(SubSeq(wire, 1, sent)) = sent
      /\ \A i \in 1 .. sent : SubSeq(wire, 1, sent)[i] = wire[i]
  BY <1>2, SubSeqProperties
<1>4. [code |-> SC_PASSED, break |-> FALSE] \in WireByte
  BY DEF WireByte, SC_PASSED
<1> DEFINE kept == SubSeq(wire, 1, sent)
<1> HIDE DEF kept
<1>5. kept \in Seq(WireByte) /\ Len(kept) = sent /\ \A i \in 1 .. sent : kept[i] = wire[i]
  BY <1>3 DEF kept
<1>6. CutAt(sent)
  BY <1>1, <1>2, <1>4, <1>5, AppendProperties, KeyboardAssumption DEF CutAt, KeyboardAssumption, kept
<1> QED
  BY <1>6

(* The handler takes the first byte.                                         *)
Advanced ==
  /\ wire # <<>> /\ Len(wire) \in Nat \ {0} /\ Head(wire) = wire[1] /\ wire[1] \in WireByte
  /\ wire' \in Seq(WireByte)
  /\ Len(wire') = Len(wire) - 1
  /\ \A i \in 1 .. (Len(wire) - 1) : wire'[i] = wire[i + 1]

(* The handler takes exactly the first byte of the wire.                     *)
LEMMA HandlerAdvances ==
  ASSUME wire \in Seq(WireByte), keyboard_irq_handler
  PROVE  Advanced
<1>1. wire # <<>> /\ wire' = Tail(wire)
  BY DEF keyboard_irq_handler
<1>2. Len(wire) \in Nat \ {0} /\ Head(wire) = wire[1] /\ wire[1] \in WireByte
  BY <1>1, EmptySeq, ElementOfSeq
<1> QED
  BY <1>1, <1>2, HeadTailProperties DEF Advanced

-----------------------------------------------------------------------------
(* Of the one to three bytes of a stroke the last is the key's, and the ones *)
(* before it are prefixes: a break prefix directly before it, or none.       *)
Shape(n, k, break) ==
  /\ Len(wire') = Len(wire) + n
  /\ \A i \in Bytes : wire'[i] = wire[i]
  /\ wire'[Len(wire) + n].code = k /\ wire'[Len(wire) + n].break = break
  /\ break => n > 1
  /\ n > 1 => wire'[Len(wire) + n - 1].code = (IF break THEN KB_SCAN2_BREAK ELSE SC_EXTENDED)
  /\ n > 1 => wire'[Len(wire) + 1].code = SC_EXTENDED
                \/ (n = 2 /\ break /\ wire'[Len(wire) + 1].code = KB_SCAN2_BREAK)

(* A make or break code on the wire has the shape of one, whatever its       *)
(* length.                                                                   *)
LEMMA AppendShape ==
  ASSUME wire \in Seq(WireByte), NEW k \in AllKeys
  PROVE  /\ Pressed(k) => \E n \in 1 .. 3 : Shape(n, k, FALSE)
         /\ Released(k) => \E n \in 1 .. 3 : Shape(n, k, TRUE)
<1> DEFINE L == Len(wire)
<1>0. L \in Nat
  BY LenProperties
<1> HIDE DEF L
<1>1. Appended(<<k>>, FALSE) => Shape(1, k, FALSE)
  <2> SUFFICES ASSUME Appended(<<k>>, FALSE) PROVE Shape(1, k, FALSE)
    OBVIOUS
  <2>1. wire'[L + 1] = [code |-> k, break |-> FALSE] /\ Len(wire') = L + 1
    BY DEF Appended, L
  <2>2. \A i \in Bytes : wire'[i] = wire[i]
    BY DEF Appended
  <2> QED
    BY <1>0, <2>1, <2>2 DEF Shape, L
<1>2. Appended(<<SC_EXTENDED, k>>, FALSE) => Shape(2, k, FALSE)
  <2> SUFFICES ASSUME Appended(<<SC_EXTENDED, k>>, FALSE) PROVE Shape(2, k, FALSE)
    OBVIOUS
  <2> DEFINE codes == <<SC_EXTENDED, k>>
  <2>a. Len(codes) = 2 /\ codes[1] = SC_EXTENDED /\ codes[2] = k
    OBVIOUS
  <2>b. Appended(codes, FALSE)
    OBVIOUS
  <2> HIDE DEF codes
  <2>c. Len(wire') = L + Len(codes)
        /\ \A i \in 1 .. Len(codes) : wire'[L + i] = [code |-> codes[i], break |-> FALSE]
    BY <2>b DEF Appended, L
  <2>d. 1 \in 1 .. 2 /\ 2 \in 1 .. 2
    OBVIOUS
  <2>1. wire'[L + 1] = [code |-> SC_EXTENDED, break |-> FALSE]
        /\ wire'[L + 2] = [code |-> k, break |-> FALSE] /\ Len(wire') = L + 2
    BY <2>a, <2>c, <2>d
  <2>2. \A i \in Bytes : wire'[i] = wire[i]
    BY DEF Appended
  <2>3. L + 2 - 1 = L + 1
    BY <1>0
  <2> QED
    BY <2>1, <2>2, <2>3 DEF Shape, L
<1>3. Appended(<<KB_SCAN2_BREAK, k>>, TRUE) => Shape(2, k, TRUE)
  <2> SUFFICES ASSUME Appended(<<KB_SCAN2_BREAK, k>>, TRUE) PROVE Shape(2, k, TRUE)
    OBVIOUS
  <2> DEFINE codes == <<KB_SCAN2_BREAK, k>>
  <2>a. Len(codes) = 2 /\ codes[1] = KB_SCAN2_BREAK /\ codes[2] = k
    OBVIOUS
  <2>b. Appended(codes, TRUE)
    OBVIOUS
  <2> HIDE DEF codes
  <2>c. Len(wire') = L + Len(codes)
        /\ \A i \in 1 .. Len(codes) : wire'[L + i] = [code |-> codes[i], break |-> TRUE]
    BY <2>b DEF Appended, L
  <2>d. 1 \in 1 .. 2 /\ 2 \in 1 .. 2
    OBVIOUS
  <2>1. wire'[L + 1] = [code |-> KB_SCAN2_BREAK, break |-> TRUE]
        /\ wire'[L + 2] = [code |-> k, break |-> TRUE] /\ Len(wire') = L + 2
    BY <2>a, <2>c, <2>d
  <2>2. \A i \in Bytes : wire'[i] = wire[i]
    BY DEF Appended
  <2>3. L + 2 - 1 = L + 1
    BY <1>0
  <2> QED
    BY <2>1, <2>2, <2>3 DEF Shape, L
<1>4. Appended(<<SC_EXTENDED, KB_SCAN2_BREAK, k>>, TRUE) => Shape(3, k, TRUE)
  <2> SUFFICES ASSUME Appended(<<SC_EXTENDED, KB_SCAN2_BREAK, k>>, TRUE) PROVE Shape(3, k, TRUE)
    OBVIOUS
  <2> DEFINE codes == <<SC_EXTENDED, KB_SCAN2_BREAK, k>>
  <2>a. Len(codes) = 3 /\ codes[1] = SC_EXTENDED /\ codes[2] = KB_SCAN2_BREAK /\ codes[3] = k
    OBVIOUS
  <2>b. Appended(codes, TRUE)
    OBVIOUS
  <2> HIDE DEF codes
  <2>c. Len(wire') = L + Len(codes)
        /\ \A i \in 1 .. Len(codes) : wire'[L + i] = [code |-> codes[i], break |-> TRUE]
    BY <2>b DEF Appended, L
  <2>d. 1 \in 1 .. 3 /\ 2 \in 1 .. 3 /\ 3 \in 1 .. 3
    OBVIOUS
  <2>1. wire'[L + 1] = [code |-> SC_EXTENDED, break |-> TRUE]
        /\ wire'[L + 2] = [code |-> KB_SCAN2_BREAK, break |-> TRUE]
        /\ wire'[L + 3] = [code |-> k, break |-> TRUE] /\ Len(wire') = L + 3
    BY <2>a, <2>c, <2>d
  <2>2. \A i \in Bytes : wire'[i] = wire[i]
    BY DEF Appended
  <2>3. L + 3 - 1 = L + 2
    BY <1>0
  <2> QED
    BY <2>1, <2>2, <2>3 DEF Shape, L
<1>5. Pressed(k) => Shape(1, k, FALSE) \/ Shape(2, k, FALSE)
  BY <1>1, <1>2 DEF Pressed
<1>6. Released(k) => Shape(2, k, TRUE) \/ Shape(3, k, TRUE)
  BY <1>3, <1>4 DEF Released
<1>7. 1 \in 1 .. 3 /\ 2 \in 1 .. 3 /\ 3 \in 1 .. 3
  OBVIOUS
<1> QED
  BY <1>5, <1>6, <1>7, Zenon

(* Strokes are appended as a whole, so that they do not complete what is     *)
(* there and leave nothing to be completed.                                  *)
LEMMA AppendKeepsGrammar ==
  ASSUME wire \in Seq(WireByte), Grammar, NEW k \in AllKeys, Pressed(k) \/ Released(k)
  PROVE  Grammar' /\ Unplugs' = Unplugs
<1> DEFINE L == Len(wire)
<1>0. L \in Nat /\ Bytes = 1 .. L /\ wire' \in Seq(WireByte) /\ Bytes' = 1 .. Len(wire')
  BY LenProperties DEF Bytes, Pressed, Released, Appended
<1>1. PICK n \in 1 .. 3 :
        /\ Len(wire') = L + n
        /\ \A i \in 1 .. L : wire'[i] = wire[i]
        /\ wire'[L + n].code = k
        /\ wire'[L + n].break => n > 1 /\ wire'[L + n - 1].code = KB_SCAN2_BREAK
        /\ n > 1 /\ ~wire'[L + n].break => wire'[L + n - 1].code = SC_EXTENDED
        /\ n > 1 => wire'[L + 1].code = SC_EXTENDED \/ (n = 2 /\ wire'[L + 1].code = KB_SCAN2_BREAK)
  <2>1. PICK n \in 1 .. 3, break \in BOOLEAN : Shape(n, k, break)
    BY AppendShape
  <2> QED
    BY <1>0, <2>1 DEF Shape
<1>2. k # KB_SCAN2_BREAK /\ k # SC_PASSED /\ SC_EXTENDED # KB_SCAN2_BREAK /\ SC_EXTENDED # SC_PASSED
      /\ KB_SCAN2_BREAK # SC_PASSED
  <2>1. k \in 0 .. 132
    BY Codes
  <2> QED
    BY <2>1 DEF KB_SCAN2_BREAK, SC_EXTENDED, SC_PASSED
<1>3. Unplugs' = Unplugs
  BY <1>0, <1>1, <1>2 DEF Unplugs
<1>4. \A i \in 1 .. (L + n) : wire'[i] \in WireByte
  BY <1>0, <1>1, ElementOfSeq
<1>5. ASSUME NEW i \in 1 .. (L + n)
      PROVE  wire'[i].code \in AllKeys \cup {KB_SCAN2_BREAK, SC_EXTENDED, SC_PASSED, SC_ACK}
  <2>1. CASE i \in 1 .. L
    BY <1>0, <1>1, <2>1 DEF Grammar
  <2>2. CASE i \notin 1 .. L
    <3>1. CASE i = L + n
      BY <1>1, <3>1
    <3>2. CASE i = L + 1 /\ n > 1
      BY <1>1, <3>2
    <3>3. CASE i = L + n - 1 /\ n > 1
      BY <1>1, <3>3
    <3>4. i \in {L + 1, L + n - 1, L + n}
      BY <1>0, <1>5, <2>2
    <3>5. i = L + n \/ n > 1
      BY <1>0, <1>5, <2>2
    <3> QED
      BY <3>1, <3>2, <3>3, <3>4, <3>5
  <2> QED
    BY <2>1, <2>2
<1>6. ASSUME NEW i \in 1 .. (L + n), wire'[i].code = KB_SCAN2_BREAK
      PROVE  i + 1 \in 1 .. (L + n) /\ (IsStroke(wire'[i + 1]) \/ wire'[i + 1].code = SC_PASSED)
  <2>1. CASE i \in 1 .. L
    <3>1. i + 1 \in 1 .. L /\ wire[i].code = KB_SCAN2_BREAK
      BY <1>0, <1>1, <1>6, <2>1 DEF Grammar
    <3> QED
      BY <1>0, <1>1, <2>1, <3>1 DEF Grammar
  <2>2. CASE i \notin 1 .. L
    <3>1. i = L + n - 1 /\ n > 1
      BY <1>0, <1>1, <1>2, <1>6, <2>2
    <3>2. IsStroke(wire'[L + n])
      BY <1>0, <1>1, <1>4, Codes
    <3> QED
      BY <1>0, <3>1, <3>2
  <2> QED
    BY <2>1, <2>2
<1>7. ASSUME NEW i \in 1 .. (L + n), i > 1, IsStroke(wire'[i])
      PROVE  wire'[i].break <=> wire'[i - 1].code = KB_SCAN2_BREAK
  <2>1. CASE i \in 1 .. L
    BY <1>0, <1>1, <1>7, <2>1, SMTT(20) DEF Grammar
  <2>2. CASE i \notin 1 .. L
    <3>1. i = L + n
      BY <1>0, <1>1, <1>4, <1>7, <2>2, Codes
    <3>2. CASE n = 1
      <4>1. wire'[i - 1] = wire[L] /\ L \in 1 .. L
        BY <1>0, <1>1, <1>7, <3>1, <3>2
      <4>2. wire[L].code # KB_SCAN2_BREAK
        BY <1>0, <4>1 DEF Grammar
      <4> QED
        BY <1>1, <3>1, <3>2, <4>1, <4>2
    <3>3. CASE n > 1
      BY <1>1, <1>2, <1>4, <3>1, <3>3 DEF WireByte
    <3> QED
      BY <3>2, <3>3
  <2> QED
    BY <2>1, <2>2
<1> HIDE DEF L
<1> QED
  BY <1>0, <1>1, <1>3, <1>5, <1>6, <1>7 DEF Grammar

(* An unplug cuts the last code anywhere.                                    *)
LEMMA CutKeepsGrammar ==
  ASSUME wire \in Seq(WireByte), Grammar, NEW sent \in 0 .. Len(wire), CutAt(sent)
  PROVE  Grammar' /\ Unplugs' \subseteq Unplugs \cup {sent + 1}
<1>0. Len(wire) \in Nat /\ Bytes = 1 .. Len(wire) /\ Bytes' = 1 .. (sent + 1)
  BY LenProperties DEF Bytes, CutAt
<1>1. wire'[sent + 1].code = SC_PASSED /\ wire'[sent + 1] \in WireByte
  BY <1>0, ElementOfSeq DEF CutAt
<1>2. \A i \in 1 .. sent : wire'[i] = wire[i] /\ i \in Bytes
  BY <1>0 DEF CutAt
<1>3. SC_PASSED # KB_SCAN2_BREAK
  BY DEF SC_PASSED, KB_SCAN2_BREAK
<1>4. ASSUME NEW i \in 1 .. (sent + 1)
      PROVE  wire'[i].code \in AllKeys \cup {KB_SCAN2_BREAK, SC_EXTENDED, SC_PASSED, SC_ACK}
  BY <1>0, <1>1, <1>2 DEF Grammar
<1>5. ASSUME NEW i \in 1 .. (sent + 1), wire'[i].code = KB_SCAN2_BREAK
      PROVE  i + 1 \in 1 .. (sent + 1) /\ (IsStroke(wire'[i + 1]) \/ wire'[i + 1].code = SC_PASSED)
  <2>1. i \in 1 .. sent
    BY <1>0, <1>1, <1>3, <1>5
  <2>2. CASE i = sent
    BY <1>1, <2>1, <2>2
  <2>3. CASE i + 1 \in 1 .. sent
    BY <1>2, <1>5, <2>1, <2>3, SMTT(30) DEF Grammar
  <2> QED
    BY <2>1, <2>2, <2>3
<1>6. ASSUME NEW i \in 1 .. (sent + 1), i > 1, IsStroke(wire'[i])
      PROVE  wire'[i].break <=> wire'[i - 1].code = KB_SCAN2_BREAK
  <2>1. i \in 1 .. sent /\ i - 1 \in 1 .. sent
    BY <1>0, <1>1, <1>6, Codes
  <2> QED
    BY <1>2, <1>6, <2>1 DEF Grammar
<1>7. Unplugs' \subseteq Unplugs \cup {sent + 1}
  BY <1>0, <1>2 DEF Unplugs
<1> QED
  BY <1>0, <1>4, <1>5, <1>6, <1>7 DEF Grammar

(* Taking the first byte of the wire leaves what is behind it well formed.   *)
LEMMA AdvanceKeepsGrammar ==
  ASSUME wire \in Seq(WireByte), Grammar, Advanced
  PROVE  Grammar'
<1> DEFINE N == Len(wire) - 1
<1>0. N \in Nat /\ Bytes = 1 .. (N + 1) /\ Bytes' = 1 .. N /\ \A i \in 1 .. N : wire'[i] = wire[i + 1] /\ i + 1 \in Bytes
  BY DEF Bytes, Advanced
<1> HIDE DEF N
<1>1. ASSUME NEW i \in 1 .. N
      PROVE  wire'[i].code \in AllKeys \cup {KB_SCAN2_BREAK, SC_EXTENDED, SC_PASSED, SC_ACK}
  BY <1>0 DEF Grammar
<1>2. ASSUME NEW i \in 1 .. N, wire'[i].code = KB_SCAN2_BREAK
      PROVE  i + 1 \in 1 .. N /\ (IsStroke(wire'[i + 1]) \/ wire'[i + 1].code = SC_PASSED)
  <2>1. wire[i + 1].code = KB_SCAN2_BREAK /\ i + 1 \in Bytes
    BY <1>0, <1>2
  <2>2. (i + 1) + 1 \in Bytes /\ (IsStroke(wire[(i + 1) + 1]) \/ wire[(i + 1) + 1].code = SC_PASSED)
    BY <2>1 DEF Grammar
  <2>3. i + 1 \in 1 .. N
    BY <1>0, <2>2
  <2> QED
    BY <1>0, <2>2, <2>3
<1>3. ASSUME NEW i \in 1 .. N, i > 1, IsStroke(wire'[i])
      PROVE  wire'[i].break <=> wire'[i - 1].code = KB_SCAN2_BREAK
  <2>1. i + 1 \in Bytes /\ i + 1 > 1 /\ i - 1 \in 1 .. N /\ wire'[i] = wire[i + 1] /\ wire'[i - 1] = wire[i]
    BY <1>0, <1>3
  <2>2. wire[i + 1].break <=> wire[(i + 1) - 1].code = KB_SCAN2_BREAK
    BY <1>3, <2>1 DEF Grammar
  <2> QED
    BY <1>0, <2>1, <2>2
<1> QED
  BY <1>0, <1>1, <1>2, <1>3 DEF Grammar

-----------------------------------------------------------------------------
(* How many unplugs wait in the wire.                                        *)
LEMMA UnplugsFinite ==
  wire \in Seq(WireByte) => IsFiniteSet(Unplugs) /\ Cardinality(Unplugs) \in Nat
<1> SUFFICES ASSUME wire \in Seq(WireByte)
             PROVE  IsFiniteSet(Unplugs) /\ Cardinality(Unplugs) \in Nat
  OBVIOUS
<1>1. IsFiniteSet(Bytes)
  BY LenProperties, FS_Interval DEF Bytes
<1>2. Unplugs \subseteq Bytes
  BY DEF Unplugs
<1> QED
  BY <1>1, <1>2, FS_Subset, FS_CardinalityType

(* The same after a step, for the places of unplugs on the new wire.         *)
LEMMA UnplugsStayFinite ==
  (wire \in Seq(WireByte))' => (IsFiniteSet(Unplugs) /\ Cardinality(Unplugs) \in Nat)'
  BY UnplugsFinite, PTL

(* An unplug adds at most one to the unplugs that are on the wire.           *)
LEMMA CutCounts ==
  ASSUME wire \in Seq(WireByte), NEW sent \in Nat, Unplugs' \subseteq Unplugs \cup {sent + 1},
         wire' \in Seq(WireByte)
  PROVE  Cardinality(Unplugs') <= Cardinality(Unplugs) + 1
<1>1. /\ IsFiniteSet(Unplugs \cup {sent + 1})
      /\ Cardinality(Unplugs \cup {sent + 1}) <= Cardinality(Unplugs) + 1
  <2>1. IsFiniteSet(Unplugs) /\ Cardinality(Unplugs) \in Nat
    BY UnplugsFinite
  <2>2. /\ IsFiniteSet(Unplugs \cup {sent + 1})
        /\ Cardinality(Unplugs \cup {sent + 1})
             = IF sent + 1 \in Unplugs THEN Cardinality(Unplugs) ELSE Cardinality(Unplugs) + 1
    BY <2>1, FS_AddElement
  <2> QED
    BY <2>1, <2>2
<1>2. Cardinality(Unplugs') <= Cardinality(Unplugs \cup {sent + 1})
  BY <1>1, FS_Subset
<1>3. Cardinality(Unplugs \cup {sent + 1}) \in Nat
  BY <1>1, FS_CardinalityType
<1> QED
  BY <1>1, <1>2, <1>3, UnplugsFinite, UnplugsStayFinite

(* Taking a byte takes one of them if it is one, and none otherwise.         *)
LEMMA AdvanceCounts ==
  ASSUME wire \in Seq(WireByte), Advanced
  PROVE  /\ Cardinality(Unplugs') <= Cardinality(Unplugs)
         /\ wire[1].code = SC_PASSED => Cardinality(Unplugs') + 1 <= Cardinality(Unplugs)
<1> DEFINE f == [i \in Unplugs' |-> i + 1]
<1>1. f \in Injection(Unplugs', Unplugs \ {1})
  <2>1. \A i \in Unplugs' : i \in Nat /\ i + 1 \in Unplugs \ {1}
    BY DEF Unplugs, Bytes, Advanced
  <2>2. f \in [Unplugs' -> Unplugs \ {1}]
    BY <2>1
  <2>3. \A x, y \in Unplugs' : f[x] = f[y] => x = y
    BY <2>1
  <2> QED
    BY <2>2, <2>3 DEF Injection, IsInjective
<1>2. /\ IsFiniteSet(Unplugs \ {1})
      /\ Cardinality(Unplugs \ {1}) = IF 1 \in Unplugs THEN Cardinality(Unplugs) - 1 ELSE Cardinality(Unplugs)
  BY UnplugsFinite, FS_RemoveElement
<1>3. Cardinality(Unplugs') <= Cardinality(Unplugs \ {1})
  BY <1>1, <1>2, FS_Injection
<1>4. wire[1].code = SC_PASSED => 1 \in Unplugs
  BY DEF Unplugs, Bytes, Advanced
<1>5. Cardinality(Unplugs') \in Nat
  BY UnplugsStayFinite DEF Advanced
<1> QED
  BY <1>2, <1>3, <1>4, <1>5, UnplugsFinite

-----------------------------------------------------------------------------
(* Only characters, newlines and backspaces are pushed, whatever word the    *)
(* lookup has returned.                                                      *)
Chars == Ascii \cup {Newline, KB_BACKSPACE}

(* A key that types something pushes a character, with caps lock or without. *)
LEMMA CharsPushed ==
  ASSUME NEW key, NEW caps \in BOOLEAN, Types(key)
  PROVE  Char(key, caps) \in Chars
<1> USE DEF Types, Char, Chars, Ascii, KB_ENTER, KB_BACKSPACE, Newline, Lowercase
<1>1. CASE key = KB_ENTER
  BY <1>1
<1>2. CASE key = KB_BACKSPACE
  BY <1>2
<1>3. CASE key \in Ascii
  BY <1>3
<1> QED
  BY <1>1, <1>2, <1>3

(* keyboard_irq_handler keeps the types, for each of its three outcomes.     *)
LEMMA DecodeTypes ==
  ASSUME TypeOK, keyboard_irq_handler
  PROVE  TypeOK'
<1>1. Advanced /\ Len(wire') <= WireCapacity /\ wire' \in Seq(WireByte)
  <2>1. Advanced
    BY HandlerAdvances DEF TypeOK
  <2> QED
    BY <2>1, KeyboardAssumption DEF Advanced, TypeOK, KeyboardAssumption
<1>2. UNCHANGED <<held, presses, replugs>>
  BY DEF keyboard_irq_handler, user
<1>3. CASE UNCHANGED <<shift_next, caps_lock, out, misreads>> /\ break_next' \in BOOLEAN
  BY <1>1, <1>2, <1>3 DEF TypeOK
<1>4. CASE Decode(Head(wire))
  <2>1. PICK key \in Lookup(shift_next, Head(wire).code) :
          /\ shift_next' = AfterShift(key)
          /\ caps_lock' = AfterCaps(key)
          /\ out' = out \o Pushed(key)
          /\ break_next' = FALSE
          /\ misreads' = misreads + (IF break_next = Head(wire).break THEN 0 ELSE 1)
    BY <1>4 DEF Decode, AfterBreak
  <2>2. shift_next' \in BOOLEAN
    BY <2>1 DEF AfterShift, TypeOK
  <2>3. caps_lock' \in BOOLEAN
    BY <2>1 DEF AfterCaps, TypeOK
  <2>4. misreads' \in Nat
    BY <2>1 DEF TypeOK
  <2>5. out' \in Seq(Chars)
    <3>1. out \in Seq(Chars)
      BY DEF TypeOK, Chars
    <3>2. CASE Types(key) /\ ~break_next
      <4>1. Char(key, caps_lock) \in Chars
        BY <3>2, CharsPushed DEF TypeOK
      <4>2. Pushed(key) \in Seq(Chars)
        BY <3>2, <4>1 DEF Pushed
      <4> QED
        BY <2>1, <3>1, <4>2, ConcatProperties
    <3>3. CASE ~(Types(key) /\ ~break_next)
      BY <2>1, <3>1, <3>3, ConcatEmptySeq DEF Pushed
    <3> QED
      BY <3>2, <3>3
  <2> QED
    BY <1>1, <1>2, <2>1, <2>2, <2>3, <2>4, <2>5 DEF TypeOK, Chars
<1> QED
  BY <1>3, <1>4 DEF keyboard_irq_handler, decoder, TypeOK

(* An interrupt pushes one character or none.                                *)
LEMMA HandlerPushes ==
  ASSUME TypeOK, keyboard_irq_handler
  PROVE  out' = out \/ \E c \in Chars : out' = Append(out, c)
<1>1. out \in Seq(Chars) /\ caps_lock \in BOOLEAN
  BY DEF TypeOK, Chars
<1>2. CASE UNCHANGED out
  BY <1>2
<1>3. CASE Decode(Head(wire))
  <2>1. PICK key : out' = out \o Pushed(key)
    BY <1>3 DEF Decode
  <2>2. CASE Types(key) /\ ~break_next
    <3>1. Char(key, caps_lock) \in Chars
      BY <1>1, <2>2, CharsPushed
    <3>2. \A c \in Chars : out \o <<c>> = Append(out, c)
      BY <1>1, AppendIsConcat
    <3> QED
      BY <2>1, <2>2, <3>1, <3>2 DEF Pushed
  <2>3. CASE ~(Types(key) /\ ~break_next)
    BY <1>1, <2>1, <2>3, ConcatEmptySeq DEF Pushed
  <2> QED
    BY <2>2, <2>3
<1> QED
  BY <1>2, <1>3 DEF keyboard_irq_handler, decoder

(* So do the user's keys and the user's pulling of the plug.                 *)
LEMMA UserTypes ==
  ASSUME TypeOK, Replug \/ \E k \in AllKeys : Press(k) \/ Release(k)
  PROVE  TypeOK'
<1>1. CASE \E k \in AllKeys : Press(k) \/ Release(k)
  <2>1. PICK k \in AllKeys : Press(k) \/ Release(k)
    BY <1>1
  <2>2. wire' \in Seq(WireByte) /\ Len(wire') <= WireCapacity
    BY <2>1, StrokesAppend DEF TypeOK, Pressed, Released, Appended
  <2>3. held' \subseteq AllKeys
    BY <2>1 DEF Press, Release, TypeOK
  <2>4. presses' \in 0 .. MaxPresses /\ UNCHANGED <<decoder, replugs>>
    BY <2>1, KeyboardAssumption DEF Press, Release, Send, TypeOK, KeyboardAssumption
  <2> QED
    BY <2>2, <2>3, <2>4 DEF TypeOK, decoder
<1>2. CASE Replug
  <2>1. wire' \in Seq(WireByte) /\ Len(wire') <= WireCapacity
    BY <1>2, ReplugCuts DEF TypeOK, CutAt
  <2>2. held' = {} /\ replugs' \in 0 .. MaxReplugs /\ UNCHANGED <<decoder, presses>>
    BY <1>2, KeyboardAssumption DEF Replug, TypeOK, KeyboardAssumption
  <2> QED
    BY <2>1, <2>2 DEF TypeOK, decoder
<1> QED
  BY <1>1, <1>2

-----------------------------------------------------------------------------
(* Whether the decoder is out of step is told by the first byte of the wire. *)
LEMMA FirstByte ==
  ASSUME wire \in Seq(WireByte)
  PROVE  /\ Len(wire) \in Nat
         /\ wire = <<>> <=> Len(wire) = 0
         /\ wire # <<>> => Head(wire) = wire[1] /\ wire[1] \in WireByte
  BY LenProperties, EmptySeq, ElementOfSeq

Early(n, first) ==
  IF n > 0 /\ IsStroke(first) THEN break_next # first.break
  ELSE break_next /\ (n = 0 \/ first.code # SC_PASSED)

(* Whether the decoder is out of step is decided by the first byte alone.    *)
LEMMA LateIsEarly == wire \in Seq(WireByte) => (Late <=> Early(Len(wire), wire[1]))
  BY FirstByte DEF Late, Early

(* The same in the state after a step.                                       *)
LEMMA LateIsEarlyNext == (wire \in Seq(WireByte))' => (Late <=> Early(Len(wire), wire[1]))'
  BY LateIsEarly, PTL

(* A stroke that is sent puts nobody out of step; neither does an unplug     *)
(* before its self-test is read.                                             *)
LEMMA AppendKeepsLate ==
  ASSUME wire \in Seq(WireByte), break_next \in BOOLEAN, NEW k \in AllKeys,
         Pressed(k) \/ Released(k), UNCHANGED break_next
  PROVE  Late' => Late
<1>0. wire' \in Seq(WireByte) /\ Len(wire) \in Nat /\ Len(wire') > 0
      /\ (Len(wire) > 0 => wire'[1] = wire[1])
  BY FirstByte DEF Pressed, Released, Appended, Bytes
<1>1. CASE Len(wire) > 0
  BY <1>0, <1>1, LateIsEarly, LateIsEarlyNext DEF Early
<1>2. CASE Len(wire) = 0
  <2>1. wire'[1].code \in {SC_EXTENDED, KB_SCAN2_BREAK} \/ wire'[1] = [code |-> k, break |-> FALSE]
    <3>1. CASE Appended(<<k>>, FALSE)
      BY <1>2, <3>1 DEF Appended
    <3>2. CASE Appended(<<SC_EXTENDED, k>>, FALSE)
      <4>1. wire'[Len(wire) + 1] = [code |-> SC_EXTENDED, break |-> FALSE]
        BY <3>2 DEF Appended
      <4> QED
        BY <1>2, <4>1
    <3>3. CASE Appended(<<KB_SCAN2_BREAK, k>>, TRUE)
      <4>1. wire'[Len(wire) + 1] = [code |-> KB_SCAN2_BREAK, break |-> TRUE]
        BY <3>3 DEF Appended
      <4> QED
        BY <1>2, <4>1
    <3>4. CASE Appended(<<SC_EXTENDED, KB_SCAN2_BREAK, k>>, TRUE)
      <4>1. wire'[Len(wire) + 1] = [code |-> SC_EXTENDED, break |-> TRUE]
        BY <3>4 DEF Appended
      <4> QED
        BY <1>2, <4>1
    <3> QED
      BY <3>1, <3>2, <3>3, <3>4 DEF Pressed, Released
  <2>2. wire'[1] \in WireByte
    BY <1>0, ElementOfSeq
  <2>3. Late <=> break_next
    BY <1>2, LateIsEarly DEF Early
  <2>4. Late' => break_next
    <3>1. CASE IsStroke(wire'[1])
      <4>1. wire'[1] = [code |-> k, break |-> FALSE]
        BY <2>1, <2>2, <3>1, Codes
      <4>2. wire'[1].break = FALSE
        BY <4>1
      <4>3. Late' <=> Early(Len(wire), wire[1])'
        BY <1>0, LateIsEarlyNext
      <4> QED
        BY <1>0, <3>1, <4>2, <4>3 DEF Early
    <3>2. CASE ~IsStroke(wire'[1])
      BY <1>0, <3>2, LateIsEarlyNext DEF Early
    <3> QED
      BY <3>1, <3>2
  <2> QED
    BY <2>3, <2>4
<1> QED
  BY <1>0, <1>1, <1>2

(* An unplug puts no decoder out of step that was in step: what comes is an  *)
(* answer, or the first part of what was coming anyway.                      *)
LEMMA CutKeepsLate ==
  ASSUME wire \in Seq(WireByte), break_next \in BOOLEAN, NEW sent \in 0 .. Len(wire), CutAt(sent),
         UNCHANGED break_next
  PROVE  Late' => Late
<1>0. wire' \in Seq(WireByte) /\ Len(wire) \in Nat /\ Len(wire') = sent + 1
  BY FirstByte DEF CutAt
<1>1. CASE sent > 0
  <2>1. wire'[1] = wire[1] /\ Len(wire) > 0
    BY <1>0, <1>1 DEF CutAt
  <2> QED
    BY <1>0, <1>1, <2>1, LateIsEarly, LateIsEarlyNext DEF Early
<1>2. CASE sent = 0
  <2>0. wire'[sent + 1] = [code |-> SC_PASSED, break |-> FALSE]
    BY DEF CutAt
  <2>1. wire'[1].code = SC_PASSED /\ wire'[1] \in WireByte
    BY <1>2, <1>0, <2>0, ElementOfSeq
  <2>2. ~IsStroke(wire'[1])
    BY <2>1, Codes
  <2> QED
    BY <1>0, <1>2, <2>1, <2>2, LateIsEarlyNext DEF Early
<1> QED
  BY <1>0, <1>1, <1>2

(* The byte behind a prefix is a release or a self-test; behind anything     *)
(* else there is no release.                                                 *)
LEMMA NextInStep ==
  ASSUME wire \in Seq(WireByte), Grammar, Advanced,
         break_next' = (wire[1].code = KB_SCAN2_BREAK)
  PROVE  ~Late'
<1>0. wire' \in Seq(WireByte) /\ Len(wire') \in Nat /\ Len(wire') = Len(wire) - 1 /\ 1 \in Bytes
      /\ Len(wire) \in Nat
  BY LenProperties DEF Advanced, Bytes
<1>1. CASE Len(wire') = 0
  <2>0. Len(wire) = 1
    BY <1>0, <1>1
  <2>1. wire[1].code # KB_SCAN2_BREAK
    <3>1. 1 + 1 \notin Bytes
      BY <2>0 DEF Bytes
    <3> QED
      BY <1>0, <3>1 DEF Grammar
  <2>2. ~break_next'
    BY <2>1
  <2>3. ~(Len(wire') > 0)
    BY <1>1
  <2>4. Late' <=> Early(Len(wire), wire[1])'
    BY <1>0, LateIsEarlyNext
  <2>5. Late' => break_next'
    BY <2>3, <2>4, Zenon DEF Early
  <2> QED
    BY <2>2, <2>5
<1>2. CASE Len(wire') > 0
  <2>1. wire'[1] = wire[2] /\ 2 \in Bytes /\ wire[2] \in WireByte
    BY <1>0, <1>2, ElementOfSeq DEF Advanced, Bytes
  <2>2. IsStroke(wire[2]) => (wire[2].break <=> wire[1].code = KB_SCAN2_BREAK)
    BY <2>1 DEF Grammar
  <2>3. wire[1].code = KB_SCAN2_BREAK => IsStroke(wire[1 + 1]) \/ wire[1 + 1].code = SC_PASSED
    BY <1>0 DEF Grammar
  <2>4. wire[2].break \in BOOLEAN
    BY <2>1 DEF WireByte
  <2>5. wire[1].code = KB_SCAN2_BREAK <=> break_next'
    OBVIOUS
  <2>6. CASE IsStroke(wire[2])
    BY <1>0, <1>2, <2>1, <2>2, <2>4, <2>6, LateIsEarlyNext DEF Early
  <2>7. CASE ~IsStroke(wire[2])
    BY <1>0, <1>2, <2>1, <2>3, <2>5, <2>7, LateIsEarlyNext DEF Early
  <2> QED
    BY <2>6, <2>7
<1> QED
  BY <1>0, <1>1, <1>2

(* The codes that the handler ignores do not put it out of step, but for the *)
(* self-test behind half a code.                                             *)
LEMMA IgnoredKeepsLate ==
  ASSUME wire \in Seq(WireByte), Grammar, Advanced, break_next \in BOOLEAN, UNCHANGED break_next,
         ~IsStroke(wire[1]), wire[1].code # KB_SCAN2_BREAK, wire[1].code # SC_PASSED
  PROVE  Late' => Late
<1>1. Late <=> break_next
  BY LateIsEarly DEF Early, Advanced
<1>2. ~break_next => ~Late'
  BY NextInStep
<1> QED
  BY <1>1, <1>2

-----------------------------------------------------------------------------
(* The invariant survives what the user does.                                *)
LEMMA UserKeeps ==
  ASSUME IInv, Replug \/ \E k \in AllKeys : Press(k) \/ Release(k)
  PROVE  IInv'
<1>0. wire \in Seq(WireByte) /\ break_next \in BOOLEAN /\ misreads \in Nat /\ replugs \in Nat
      /\ Cardinality(Unplugs) \in Nat
  BY UnplugsFinite, KeyboardAssumption DEF IInv, TypeOK, KeyboardAssumption
<1>1. TypeOK'
  BY UserTypes DEF IInv
<1>2. CASE \E k \in AllKeys : Press(k) \/ Release(k)
  <2>1. PICK k \in AllKeys : Press(k) \/ Release(k)
    BY <1>2
  <2>2. Pressed(k) \/ Released(k)
    BY <1>0, <2>1, StrokesAppend
  <2>3. UNCHANGED <<break_next, misreads, replugs>>
    BY <2>1 DEF Press, Release, Send, decoder
  <2>4. Grammar' /\ Unplugs' = Unplugs
    BY <1>0, <2>2, AppendKeepsGrammar DEF IInv
  <2>5. Late' => Late
    BY <1>0, <2>2, <2>3, AppendKeepsLate
  <2>6. Damage'
    BY <2>3, <2>4, <2>5 DEF IInv, Damage
  <2> QED
    BY <1>1, <2>4, <2>6 DEF IInv
<1>3. CASE Replug
  <2>1. PICK sent \in 0 .. Len(wire) : CutAt(sent)
    BY <1>0, <1>3, ReplugCuts
  <2>2. UNCHANGED <<break_next, misreads>> /\ replugs' = replugs + 1
    BY <1>3 DEF Replug, decoder
  <2>3. Grammar' /\ Unplugs' \subseteq Unplugs \cup {sent + 1}
    BY <1>0, <2>1, CutKeepsGrammar DEF IInv
  <2>4. Late' => Late
    BY <1>0, <2>1, <2>2, CutKeepsLate
  <2>5. Cardinality(Unplugs') <= Cardinality(Unplugs) + 1
    <3>1. sent \in Nat /\ wire' \in Seq(WireByte)
      BY <1>0, <2>1, LenProperties DEF CutAt
    <3> QED
      BY <1>0, <2>3, <3>1, CutCounts
  <2>6. Cardinality(Unplugs') \in Nat
    BY <1>1, UnplugsStayFinite DEF TypeOK
  <2>7. Damage'
    BY <1>0, <2>2, <2>4, <2>5, <2>6 DEF IInv, Damage
  <2> QED
    BY <1>1, <2>3, <2>7 DEF IInv
<1> QED
  BY <1>2, <1>3

(* The handler takes a stroke for its opposite when it is out of step, which *)
(* it is not afterwards; it gets out of step by a self-test only.            *)
LEMMA HandlerKeeps ==
  ASSUME IInv, keyboard_irq_handler
  PROVE  IInv'
<1>0. wire \in Seq(WireByte) /\ break_next \in BOOLEAN /\ misreads \in Nat /\ replugs \in Nat
      /\ Cardinality(Unplugs) \in Nat
  BY UnplugsFinite, KeyboardAssumption DEF IInv, TypeOK, KeyboardAssumption
<1>1. TypeOK' /\ Advanced
  BY <1>0, DecodeTypes, HandlerAdvances DEF IInv
<1>2. Grammar' /\ replugs' = replugs
  BY <1>0, <1>1, AdvanceKeepsGrammar DEF IInv, keyboard_irq_handler, user
<1>3. /\ Cardinality(Unplugs') \in Nat
      /\ Cardinality(Unplugs') <= Cardinality(Unplugs)
      /\ wire[1].code = SC_PASSED => Cardinality(Unplugs') + 1 <= Cardinality(Unplugs)
  BY <1>0, <1>1, AdvanceCounts, UnplugsStayFinite DEF TypeOK
<1>4. wire[1] \in WireByte /\ Head(wire) = wire[1] /\ Len(wire) > 0
  BY <1>1 DEF Advanced
<1>5. Damage'
  <2>1. CASE wire[1].code = KB_SCAN2_BREAK
    <3>1. break_next' = TRUE /\ misreads' = misreads
      BY <1>4, <2>1 DEF keyboard_irq_handler
    <3>2. ~Late'
      BY <1>0, <1>1, <2>1, <3>1, NextInStep DEF IInv
    <3> QED
      BY <1>0, <1>2, <1>3, <3>1, <3>2 DEF IInv, Damage
  <2>2. CASE wire[1].code # KB_SCAN2_BREAK /\ ~IsStroke(wire[1])
    <3>1. OutOfBounds(wire[1].code)
      BY <1>4, <2>2, Codes
    <3>2. UNCHANGED <<break_next, misreads>>
      BY <1>4, <2>2, <3>1 DEF keyboard_irq_handler, decoder
    <3>3. CASE wire[1].code = SC_PASSED
      BY <1>0, <1>2, <1>3, <3>2, <3>3 DEF IInv, Damage
    <3>4. CASE wire[1].code # SC_PASSED
      <4>1. Late' => Late
        BY <1>0, <1>1, <2>2, <3>2, <3>4, IgnoredKeepsLate DEF IInv
      <4> QED
        BY <1>0, <1>2, <1>3, <3>2, <4>1 DEF IInv, Damage
    <3> QED
      BY <3>3, <3>4
  <2>3. CASE IsStroke(wire[1])
    <3>1. Decode(wire[1])
      BY <1>4, <2>3 DEF keyboard_irq_handler, IsStroke
    <3>2. break_next' = FALSE
          /\ misreads' = misreads + (IF break_next = wire[1].break THEN 0 ELSE 1)
      BY <3>1 DEF Decode, AfterBreak
    <3>3. ~Late'
      <4>1. wire[1].code # KB_SCAN2_BREAK
        BY <2>3 DEF IsStroke
      <4> QED
        BY <1>0, <1>1, <3>2, <4>1, NextInStep DEF IInv
    <3>4. CASE break_next = wire[1].break
      BY <1>0, <1>2, <1>3, <3>2, <3>3, <3>4 DEF IInv, Damage
    <3>5. CASE break_next # wire[1].break
      <4>1. Late
        BY <1>0, <1>4, <2>3, <3>5, LateIsEarly DEF Early
      <4> QED
        BY <1>0, <1>2, <1>3, <3>2, <3>3, <3>5, <4>1 DEF IInv, Damage
    <3> QED
      BY <3>4, <3>5
  <2> QED
    BY <2>1, <2>2, <2>3
<1> QED
  BY <1>1, <1>2, <1>5 DEF IInv

(* It survives a step of others, which touches none of the keyboard's state. *)
LEMMA StutterKeeps ==
  ASSUME IInv, UNCHANGED vars
  PROVE  IInv'
<1>1. TypeOK' /\ UNCHANGED <<wire, break_next, misreads, replugs>>
  BY DEF IInv, TypeOK, vars, user, decoder
<1>2. Grammar'
  BY <1>1 DEF IInv, Grammar, Bytes
<1>3. Damage'
  BY <1>1 DEF IInv, Damage, Late, Unplugs, Bytes
<1> QED
  BY <1>1, <1>2, <1>3 DEF IInv

(* It holds at the start, whatever keyboard_init left on the wire.           *)
LEMMA InitIInv == Init => IInv
<1> SUFFICES ASSUME Init PROVE IInv
  OBVIOUS
<1>0. /\ misreads = 0 /\ break_next = FALSE /\ shift_next = FALSE /\ caps_lock = FALSE
      /\ held = {} /\ out = <<>> /\ presses = 0 /\ replugs \in 0 .. MaxReplugs
  BY KeyboardAssumption DEF Init, KeyboardAssumption
<1>1. ASSUME wire \in Seq(WireByte), Len(wire) <= WireCapacity
      PROVE  TypeOK
  <2>1. break_next \in BOOLEAN /\ shift_next \in BOOLEAN /\ caps_lock \in BOOLEAN
    BY <1>0
  <2>2. held \subseteq AllKeys /\ out \in Seq(Ascii \cup {Newline, KB_BACKSPACE}) /\ misreads \in Nat
    BY <1>0
  <2>3. presses \in 0 .. MaxPresses /\ replugs \in 0 .. MaxReplugs
    BY <1>0, KeyboardAssumption DEF KeyboardAssumption
  <2> QED
    BY <1>1, <2>1, <2>2, <2>3 DEF TypeOK
<1>2. CASE wire = <<>>
  <2>1. wire \in Seq(WireByte) /\ Len(wire) <= WireCapacity /\ Bytes = {} /\ Unplugs = {}
    BY <1>2, KeyboardAssumption DEF KeyboardAssumption, Bytes, Unplugs
  <2>2. ~Late
    BY <1>0, <1>2 DEF Late
  <2>3. Damage
    BY <1>0, <2>1, <2>2, FS_EmptySet DEF Damage
  <2> QED
    BY <1>1, <2>1, <2>3 DEF IInv, Grammar
<1>3. ASSUME NEW byte \in WireByte, wire = <<byte>>,
             \/ byte.code = SC_ACK
             \/ byte.code \in AllKeys /\ byte.break = TRUE /\ replugs = 1
      PROVE  IInv
  <2>1. wire \in Seq(WireByte) /\ Len(wire) = 1 /\ wire[1] = byte /\ Bytes = 1 .. 1
    BY <1>3 DEF Bytes
  <2>2. byte.code # SC_PASSED /\ byte.code # KB_SCAN2_BREAK
    BY <1>3, Codes DEF SC_ACK, SC_PASSED, KB_SCAN2_BREAK
  <2>3. Unplugs = {}
    BY <2>1, <2>2 DEF Unplugs
  <2>4. Grammar
    BY <1>3, <2>1, <2>2 DEF Grammar
  <2>5. Late => replugs = 1
    <3>1. ~IsStroke(byte) => ~Late
      BY <1>0, <2>1, LateIsEarly DEF Early
    <3>2. byte.code = SC_ACK => ~IsStroke(byte)
      BY <1>3, Codes
    <3> QED
      BY <1>3, <3>1, <3>2
  <2>6. Damage
    BY <1>0, <2>3, <2>5, FS_EmptySet DEF Damage
  <2>7. Len(wire) <= WireCapacity
    BY <2>1, KeyboardAssumption DEF KeyboardAssumption
  <2> QED
    BY <1>1, <2>1, <2>4, <2>6, <2>7 DEF IInv
<1>4. CASE wire = <<[code |-> SC_ACK, break |-> FALSE]>>
  <2>1. [code |-> SC_ACK, break |-> FALSE] \in WireByte
    BY DEF WireByte, SC_ACK
  <2> QED
    BY <1>3, <1>4, <2>1
<1>5. CASE replugs = 1 /\ \E k \in AllKeys : wire = <<[code |-> k, break |-> TRUE]>>
  <2>1. PICK k \in AllKeys : wire = <<[code |-> k, break |-> TRUE]>>
    BY <1>5
  <2>2. k \in 0 .. 255
    BY Codes
  <2> QED
    BY <1>3, <1>5, <2>1, <2>2 DEF WireByte
<1> QED
  BY <1>2, <1>4, <1>5 DEF Init

(* Together with the handler's steps: the invariant is inductive.            *)
LEMMA StepKeeps ==
  ASSUME IInv, [Next]_vars
  PROVE  IInv'
  BY UserKeeps, HandlerKeeps, StutterKeeps DEF Next

(* The decoder's state and the wire are each in their types, and only what   *)
(* putchar can show is pushed, whatever lies behind the tables.              *)
THEOREM TypeCorrect == Spec => []TypeOK
<1>1. IInv => TypeOK
  BY DEF IInv
<1> QED
  BY <1>1, InitIInv, StepKeeps, PTL DEF Spec

(* However often the keyboard is unplugged, and wherever in a code: each     *)
(* time at most one stroke is taken for its opposite, ever after.            *)
THEOREM UnplugDamage == Spec => []DamageBounded
<1>1. IInv => DamageBounded
  <2> SUFFICES ASSUME IInv PROVE misreads <= replugs
    BY DEF DamageBounded
  <2>1. Cardinality(Unplugs) \in Nat /\ misreads \in Nat /\ replugs \in Nat
    BY UnplugsFinite, KeyboardAssumption DEF IInv, TypeOK, KeyboardAssumption
  <2>2. misreads + Cardinality(Unplugs) <= replugs
    BY DEF IInv, Damage
  <2> QED
    BY <2>1, <2>2
<1> QED
  BY <1>1, InitIInv, StepKeeps, PTL DEF Spec

-----------------------------------------------------------------------------
(* The words behind the tables, which only Alt and Print Screen reads, are   *)
(* not those of the shift keys.                                              *)
NoShiftBehind == SC_SYSRQ \in AllKeys => OverRead \cap {KB_LSHIFT, KB_RSHIFT} = {}

(* A stroke of a shift key is the last word; other strokes leave the shift   *)
(* keys as they were.                                                        *)
LEMMA AppendTells ==
  ASSUME IInv, ShiftTold, NEW k \in AllKeys, Press(k) \/ Release(k)
  PROVE  ShiftTold'
<1> DEFINE L == Len(wire)
<1>0. wire \in Seq(WireByte) /\ L \in Nat /\ Bytes = 1 .. L
  BY LenProperties DEF IInv, TypeOK, Bytes
<1>1. UNCHANGED shift_next
  BY DEF Press, Release, Send, decoder
<1>2. PICK n \in 1 .. 3, break \in BOOLEAN :
        /\ Shape(n, k, break)
        /\ held' = IF break THEN held \ {k} ELSE held \cup {k}
  <2>1. CASE Press(k)
    <3>1. held' = held \cup {k} /\ Pressed(k)
      BY <1>0, <2>1, StrokesAppend DEF Press
    <3>2. PICK n \in 1 .. 3 : Shape(n, k, FALSE)
      BY <1>0, <3>1, AppendShape
    <3> QED
      BY <3>1, <3>2
  <2>2. CASE Release(k)
    <3>1. held' = held \ {k} /\ Released(k)
      BY <1>0, <2>2, StrokesAppend DEF Release
    <3>2. PICK n \in 1 .. 3 : Shape(n, k, TRUE)
      BY <1>0, <3>1, AppendShape
    <3> QED
      BY <3>1, <3>2
  <2> QED
    BY <2>1, <2>2
<1>3. /\ Bytes' = 1 .. (L + n)
      /\ \A i \in 1 .. L : wire'[i] = wire[i]
      /\ wire'[L + n].code = k /\ wire'[L + n].break = break
      /\ \A i \in (L + 1) .. (L + n - 1) : wire'[i].code \in {SC_EXTENDED, KB_SCAN2_BREAK}
  <2>1. Bytes' = 1 .. (L + n) /\ \A i \in 1 .. L : wire'[i] = wire[i]
    BY <1>0, <1>2 DEF Shape, Bytes
  <2>2. ASSUME NEW i \in (L + 1) .. (L + n - 1) PROVE wire'[i].code \in {SC_EXTENDED, KB_SCAN2_BREAK}
    <3>1. i \in {L + 1, L + n - 1} /\ n > 1
      BY <1>0
    <3> QED
      BY <1>2, <3>1 DEF Shape
  <2> QED
    BY <1>2, <2>1, <2>2 DEF Shape
<1> HIDE DEF L
<1>4. SC_EXTENDED \notin ShiftCodes /\ KB_SCAN2_BREAK \notin ShiftCodes
  BY DEF ShiftCodes, SC_EXTENDED, KB_SCAN2_BREAK, SC_LSHIFT, SC_RSHIFT
<1>5. ShiftBytes' = ShiftBytes \cup (IF k \in ShiftCodes THEN {L + n} ELSE {})
  BY <1>0, <1>3, <1>4 DEF ShiftBytes
<1>6. CASE k \in ShiftCodes
  <2>1. L + n \in ShiftBytes' /\ \A i \in ShiftBytes' : i <= L + n
    BY <1>0, <1>3, <1>5, <1>6 DEF ShiftBytes
  <2>2. ~break => k \in held'
    BY <1>2
  <2>3. ASSUME NEW i \in ShiftBytes', \A j \in ShiftBytes' : j <= i PROVE i = L + n
    BY <1>0, <1>3, <2>1, <2>3 DEF ShiftBytes
  <2> QED
    BY <1>3, <2>1, <2>2, <2>3 DEF ShiftTold
<1>7. CASE k \notin ShiftCodes
  <2>1. ShiftBytes' = ShiftBytes /\ \A i \in ShiftBytes : wire'[i] = wire[i]
    BY <1>0, <1>3, <1>5, <1>7 DEF ShiftBytes
  <2>2. \A c \in ShiftCodes : c \in held' <=> c \in held
    BY <1>2, <1>7
  <2> QED
    BY <1>1, <2>1, <2>2 DEF ShiftTold, ShiftBytes
<1> QED
  BY <1>6, <1>7

(* The key that a stroke stands for is a shift key's only for a shift code.  *)
LEMMA ShiftKeys ==
  ASSUME NoShiftBehind, NEW code \in AllKeys, NEW shift \in BOOLEAN, NEW key \in Lookup(shift, code)
  PROVE  IsShift(key) <=> code \in ShiftCodes
<1>0. code \in SampleCodes
  BY Codes
<1>1. CASE code = SC_SYSRQ
  <2>1. key \in OverRead
    BY <1>1 DEF Lookup, SC_SYSRQ, TABLE_ENTRIES
  <2> QED
    BY <1>1, <2>1 DEF NoShiftBehind, IsShift, ShiftCodes, SC_SYSRQ, SC_LSHIFT, SC_RSHIFT
<1>2. CASE code # SC_SYSRQ
  <2>1. code < TABLE_ENTRIES /\ code \in DOMAIN kb_ps2_scancode2
    BY <1>0, <1>2 DEF SampleCodes, TABLE_ENTRIES, kb_ps2_scancode2, SC_F1, SC_TAB, SC_LSHIFT, SC_1,
       SC_A, SC_CAPS, SC_RSHIFT, SC_ENTER, SC_BACKSPACE, SC_NUM8, SC_SYSRQ
  <2>2. key = (IF shift THEN kb_ps2_scancode2_shift ELSE kb_ps2_scancode2)[code]
    <3>1. ~(code >= TABLE_ENTRIES)
      BY <2>1, Codes DEF TABLE_ENTRIES
    <3> QED
      BY <3>1 DEF Lookup
  <2>3. kb_ps2_scancode2[code] \in {KB_LSHIFT, KB_RSHIFT} <=> code \in ShiftCodes
    BY <1>0, <1>2 DEF SampleCodes, kb_ps2_scancode2, SC_F1, SC_TAB, SC_LSHIFT, SC_1,
       SC_A, SC_CAPS, SC_RSHIFT, SC_ENTER, SC_BACKSPACE, SC_NUM8, SC_SYSRQ, ShiftCodes,
       KB_F1, KB_TAB, KB_LSHIFT, KB_RSHIFT, KB_CAPSLOCK, KB_ENTER, KB_BACKSPACE
  <2>4. kb_ps2_scancode2_shift[code] \in {KB_LSHIFT, KB_RSHIFT} <=> kb_ps2_scancode2[code] \in {KB_LSHIFT, KB_RSHIFT}
    <3>1. CASE code \in {SC_1, SC_A}
      <4>1. code \notin ShiftCodes /\ kb_ps2_scancode2_shift[code] \in {33, 65}
        BY <2>1, <3>1 DEF kb_ps2_scancode2_shift, SC_1, SC_A, ShiftCodes, SC_LSHIFT, SC_RSHIFT
      <4> QED
        BY <2>3, <4>1 DEF KB_LSHIFT, KB_RSHIFT
    <3>2. CASE code \notin {SC_1, SC_A}
      BY <2>1, <3>2 DEF kb_ps2_scancode2_shift
    <3> QED
      BY <3>1, <3>2
  <2> QED
    BY <2>2, <2>3, <2>4 DEF IsShift
<1> QED
  BY <1>1, <1>2

(* The handler does with a shift key's code what the last word says.         *)
LEMMA HandlerTells ==
  ASSUME NoShiftBehind, IInv, ShiftTold, ~Late, keyboard_irq_handler
  PROVE  ShiftTold'
<1> DEFINE N == Len(wire) - 1
<1>0. /\ wire \in Seq(WireByte) /\ Advanced /\ held' = held /\ N \in Nat
      /\ break_next \in BOOLEAN /\ shift_next \in BOOLEAN
      /\ Head(wire) = wire[1] /\ wire[1] \in WireByte /\ Bytes = 1 .. (N + 1) /\ Bytes' = 1 .. N
      /\ \A i \in 1 .. N : wire'[i] = wire[i + 1]
  <2>1. wire \in Seq(WireByte) /\ Advanced /\ held' = held
    BY HandlerAdvances DEF IInv, TypeOK, keyboard_irq_handler, user
  <2> QED
    BY <2>1 DEF Advanced, Bytes, IInv, TypeOK
<1> HIDE DEF N
<1>1. \A i \in Bytes' : i \in ShiftBytes' <=> i + 1 \in ShiftBytes
  BY <1>0 DEF ShiftBytes
<1>2. 1 \in ShiftBytes <=> wire[1].code \in ShiftCodes
  BY <1>0 DEF ShiftBytes
<1>3. ASSUME NEW i \in ShiftBytes', \A j \in ShiftBytes' : j <= i, ~wire'[i].break
      PROVE  wire'[i].code \in held'
  <2>1. i \in 1 .. N /\ i + 1 \in ShiftBytes /\ wire'[i] = wire[i + 1]
    BY <1>0, <1>1 DEF ShiftBytes
  <2>2. ASSUME NEW j \in ShiftBytes PROVE j <= i + 1
    <3>1. CASE j = 1
      BY <2>1, <3>1
    <3>2. CASE j # 1
      <4>1. j - 1 \in Bytes' /\ (j - 1) + 1 = j
        BY <1>0, <3>2 DEF ShiftBytes
      <4>2. j - 1 \in ShiftBytes'
        BY <1>1, <4>1
      <4> QED
        BY <1>0, <1>3, <2>1, <4>1, <4>2
    <3> QED
      BY <3>1, <3>2
  <2> QED
    BY <1>0, <1>3, <2>1, <2>2 DEF ShiftTold
<1>4. ASSUME ShiftBytes' = {}, shift_next'
      PROVE  held' \cap ShiftCodes # {}
  <2>1. ASSUME NEW j \in ShiftBytes PROVE j = 1
    <3>1. CASE j # 1
      <4>1. j - 1 \in Bytes' /\ (j - 1) + 1 = j
        BY <1>0, <3>1 DEF ShiftBytes
      <4> QED
        BY <1>1, <1>4, <4>1
    <3> QED
      BY <3>1
  <2>2. CASE wire[1].code \in ShiftCodes
    <3>1. wire[1].code \in AllKeys /\ IsStroke(wire[1])
      <4>1. wire[1].code \in AllKeys \cup {KB_SCAN2_BREAK, SC_EXTENDED, SC_PASSED, SC_ACK}
        BY <1>0 DEF IInv, Grammar
      <4>2. wire[1].code \notin {KB_SCAN2_BREAK, SC_EXTENDED, SC_PASSED, SC_ACK}
        BY <2>2 DEF ShiftCodes, SC_LSHIFT, SC_RSHIFT, KB_SCAN2_BREAK, SC_EXTENDED, SC_PASSED, SC_ACK
      <4>3. wire[1].code \in AllKeys
        BY <4>1, <4>2
      <4> QED
        BY <1>0, <4>3, Codes
    <3>2. break_next = wire[1].break
      <4>1. Len(wire) > 0
        BY <1>0 DEF Advanced
      <4> QED
        BY <1>0, <3>1, <4>1, LateIsEarly DEF Early
    <3>3. PICK key \in Lookup(shift_next, wire[1].code) : shift_next' = AfterShift(key)
      BY <1>0, <3>1 DEF keyboard_irq_handler, Decode, IsStroke
    <3>4. IsShift(key)
      BY <1>0, <2>2, <3>1, <3>3, ShiftKeys
    <3>5. ~wire[1].break
      BY <1>4, <3>2, <3>3, <3>4 DEF AfterShift
    <3>6. 1 \in ShiftBytes /\ \A j \in ShiftBytes : j <= 1
      BY <1>2, <2>1, <2>2
    <3>7. wire[1].code \in held
      BY <3>5, <3>6 DEF ShiftTold
    <3> QED
      BY <1>0, <2>2, <3>7
  <2>3. CASE wire[1].code \notin ShiftCodes
    <3>1. ShiftBytes = {}
      BY <1>2, <2>1, <2>3
    <3>2. shift_next
      <4>1. CASE UNCHANGED shift_next
        BY <1>4, <4>1
      <4>2. CASE Decode(wire[1]) /\ wire[1].code # KB_SCAN2_BREAK /\ ~OutOfBounds(wire[1].code)
        <5>1. IsStroke(wire[1])
          BY <4>2 DEF IsStroke
        <5>2. wire[1].code \in AllKeys
          BY <1>0, <5>1, Codes DEF IInv, Grammar
        <5>3. PICK key \in Lookup(shift_next, wire[1].code) : shift_next' = AfterShift(key)
          BY <4>2 DEF Decode
        <5>4. ~IsShift(key)
          BY <1>0, <2>3, <5>2, <5>3, ShiftKeys
        <5> QED
          BY <1>4, <5>3, <5>4 DEF AfterShift
      <4> QED
        BY <1>0, <4>1, <4>2 DEF keyboard_irq_handler, decoder
    <3> QED
      BY <1>0, <3>1, <3>2 DEF ShiftTold
  <2> QED
    BY <2>2, <2>3
<1> QED
  BY <1>3, <1>4 DEF ShiftTold

(* With the keyboard plugged in, the decoder is always in step.              *)
LEMMA PluggedInStep == IInv /\ replugs = 0 => ~Late /\ misreads = 0
<1> SUFFICES ASSUME IInv, replugs = 0 PROVE ~Late /\ misreads = 0
  OBVIOUS
<1>1. Cardinality(Unplugs) \in Nat /\ misreads \in Nat
  BY UnplugsFinite DEF IInv, TypeOK
<1> QED
  BY <1>1 DEF IInv, Damage

(* Whatever is struck, in whatever order the two shift keys go down and up,  *)
(* the decoder is neither shifted nor in the middle of a break code when     *)
(* everything has been read and no shift key is down: for every keyboard     *)
(* whose keys do not read the codes of a shift key from behind the table.    *)
THEOREM ShiftReleased ==
  ASSUME NoShiftBehind
  PROVE  Spec => []NoStuckShift
<1> DEFINE Inv == IInv /\ (replugs = 0 => ShiftTold)
<1>1. Init => Inv
  <2> SUFFICES ASSUME Init PROVE Inv
    OBVIOUS
  <2>1. IInv
    BY InitIInv
  <2>2. ASSUME replugs = 0 PROVE ShiftTold
    <3>1. shift_next = FALSE /\ (wire = <<>> \/ wire = <<[code |-> SC_ACK, break |-> FALSE]>>)
      BY <2>2 DEF Init
    <3>2. ShiftBytes = {}
      <4>1. CASE wire = <<>>
        BY <4>1 DEF ShiftBytes, Bytes
      <4>2. CASE wire = <<[code |-> SC_ACK, break |-> FALSE]>>
        BY <4>2 DEF ShiftBytes, Bytes, ShiftCodes, SC_ACK, SC_LSHIFT, SC_RSHIFT
      <4> QED
        BY <3>1, <4>1, <4>2
    <3> QED
      BY <3>1, <3>2 DEF ShiftTold
  <2> QED
    BY <2>1, <2>2
<1>2. Inv /\ [Next]_vars => Inv'
  <2> SUFFICES ASSUME Inv, [Next]_vars PROVE Inv'
    OBVIOUS
  <2>1. IInv'
    BY StepKeeps
  <2>2. ASSUME replugs' = 0 PROVE ShiftTold'
    <3>1. ~Replug /\ replugs = 0
      <4>1. Replug => replugs' = replugs + 1
        BY DEF Replug
      <4>2. ~Replug => replugs' = replugs
        BY DEF Next, keyboard_irq_handler, Press, Release, Send, vars, user
      <4>3. replugs \in Nat
        BY KeyboardAssumption DEF IInv, TypeOK, KeyboardAssumption
      <4> QED
        BY <2>2, <4>1, <4>2, <4>3
    <3>2. ShiftTold /\ ~Late
      BY <3>1, PluggedInStep
    <3>3. ASSUME NEW k \in AllKeys, Press(k) \/ Release(k) PROVE ShiftTold'
      BY <3>2, <3>3, AppendTells
    <3>4. CASE keyboard_irq_handler
      BY <3>2, <3>4, HandlerTells
    <3>5. CASE UNCHANGED vars
      BY <3>2, <3>5 DEF vars, user, decoder, ShiftTold, ShiftBytes, Bytes
    <3> QED
      BY <3>1, <3>3, <3>4, <3>5 DEF Next
  <2> QED
    BY <2>1, <2>2
<1>3. Inv => NoStuckShift
  <2> SUFFICES ASSUME Inv, replugs = 0, wire = <<>>, held \cap {SC_LSHIFT, SC_RSHIFT} = {}
               PROVE  ~shift_next /\ ~break_next
    BY DEF NoStuckShift
  <2>1. ~break_next
    BY PluggedInStep DEF Late
  <2>2. ShiftBytes = {}
    BY DEF ShiftBytes, Bytes
  <2> QED
    BY <2>1, <2>2 DEF ShiftTold, ShiftCodes
<1> QED
  BY <1>1, <1>2, <1>3, PTL DEF Spec
-----------------------------------------------------------------------------
(* The strokes on the wire.  Strokes is recursive: what it does is shown by  *)
(* induction over a set of numbers, which is all of them or has a least one  *)
(* outside it.                                                               *)
LEMMA Induction ==
  ASSUME NEW S, 0 \in S, \A n \in Nat : n \in S => n + 1 \in S
  PROVE  \A n \in Nat : n \in S
<1> SUFFICES ASSUME Nat \ S # {} PROVE FALSE
  OBVIOUS
<1> DEFINE R == {p \in Nat \X Nat : p[1] < p[2]}
<1>1. IsWellFoundedOn(R, Nat)
  BY NatLessThanWellFounded, Zenon DEF OpToRel
<1>2. \A x, y \in Nat : x < y => <<x, y>> \in R
  OBVIOUS
<1> HIDE DEF R
<1>3. PICK n \in Nat \ S : \A m \in Nat \ S : <<m, n>> \notin R
  BY <1>1, WFMin
<1>4. n - 1 \in Nat /\ n - 1 < n
  BY <1>3
<1>5. n - 1 \in S
  BY <1>2, <1>3, <1>4
<1>6. (n - 1) + 1 \in S
  BY <1>4, <1>5
<1> QED
  BY <1>3, <1>6

Event == [code : 0 .. 255, down : BOOLEAN]

(* What is selected from the first n bytes, given what is from the first     *)
(* n - 1.                                                                    *)
Select(s, n, before) ==
  IF IsStroke(s[n]) THEN Append(before, StrokeOf(s[n])) ELSE before

(* The strokes among the first bytes of a sequence.                          *)
Upto(s) ==
  CHOOSE f : f = [n \in 0 .. Len(s) |-> IF n = 0 THEN <<>> ELSE Select(s, n, f[n - 1])]

(* There is such a function, as far as one likes.                            *)
LEMMA SelectionExists ==
  ASSUME NEW s, NEW N \in Nat
  PROVE  \E f : f = [n \in 0 .. N |-> IF n = 0 THEN <<>> ELSE Select(s, n, f[n - 1])]
<1> DEFINE Good(M, f) == f = [n \in 0 .. M |-> IF n = 0 THEN <<>> ELSE Select(s, n, f[n - 1])]
           S == {M \in Nat : \E f : Good(M, f)}
<1>1. 0 \in S
  <2>1. Good(0, [n \in 0 .. 0 |-> <<>>])
    OBVIOUS
  <2> QED
    BY <2>1
<1>2. ASSUME NEW M \in Nat, M \in S PROVE M + 1 \in S
  <2>1. PICK f : Good(M, f)
    BY <1>2
  <2> DEFINE g == [n \in 0 .. (M + 1) |-> IF n <= M THEN f[n] ELSE Select(s, n, f[M])]
  <2>2. ASSUME NEW n \in 0 .. (M + 1)
        PROVE  g[n] = IF n = 0 THEN <<>> ELSE Select(s, n, g[n - 1])
    <3>1. CASE n = 0
      BY <2>1, <3>1
    <3>2. CASE n \in 1 .. M
      <4>1. n - 1 \in 0 .. M /\ n \in 0 .. M /\ n # 0
        BY <3>2
      <4>2. g[n] = f[n] /\ g[n - 1] = f[n - 1]
        BY <4>1
      <4>3. f[n] = Select(s, n, f[n - 1])
        BY <2>1, <4>1
      <4> QED
        BY <4>1, <4>2, <4>3
    <3>3. CASE n = M + 1
      <4>1. n # 0 /\ ~(n <= M) /\ n - 1 = M /\ M \in 0 .. (M + 1) /\ M <= M
        BY <3>3
      <4>2. g[n] = Select(s, n, f[M]) /\ g[n - 1] = f[M]
        BY <4>1
      <4> QED
        BY <4>1, <4>2
    <3> QED
      BY <3>1, <3>2, <3>3
  <2>3. g = [n \in 0 .. (M + 1) |-> g[n]]
    OBVIOUS
  <2> HIDE DEF g
  <2>4. Good(M + 1, g)
    BY <2>2, <2>3
  <2> QED
    BY <2>4
<1> HIDE DEF S
<1>3. N \in S
  BY <1>1, <1>2, Induction
<1> QED
  BY <1>3 DEF S

(* What Strokes computes: byte by byte, the strokes so far.                  *)
LEMMA StrokesUpto ==
  ASSUME NEW s \in Seq(WireByte)
  PROVE  /\ Strokes(s) = Upto(s)[Len(s)]
         /\ Upto(s)[0] = <<>>
         /\ \A n \in 1 .. Len(s) : Upto(s)[n] = Select(s, n, Upto(s)[n - 1])
<1>1. Len(s) \in Nat
  BY LenProperties
<1>2. Strokes(s) = Upto(s)[Len(s)]
  BY Zenon DEF Strokes, Upto, Select
<1>3. \E f : f = [n \in 0 .. Len(s) |-> IF n = 0 THEN <<>> ELSE Select(s, n, f[n - 1])]
  BY <1>1, SelectionExists, Zenon
<1>4. Upto(s) = [n \in 0 .. Len(s) |-> IF n = 0 THEN <<>> ELSE Select(s, n, Upto(s)[n - 1])]
  BY <1>3, Zenon DEF Upto
<1>5. Upto(s)[0] = <<>>
  BY <1>1, <1>4
<1>6. ASSUME NEW n \in 1 .. Len(s) PROVE Upto(s)[n] = Select(s, n, Upto(s)[n - 1])
  <2>1. n \in 0 .. Len(s) /\ n # 0
    BY <1>1
  <2> QED
    BY <1>4, <2>1
<1> QED
  BY <1>2, <1>5, <1>6
(* Strokes are bytes that end a code, and nothing else.                      *)
LEMMA StrokesAreEvents ==
  ASSUME NEW s \in Seq(WireByte)
  PROVE  \A n \in 0 .. Len(s) : Upto(s)[n] \in Seq(Event)
<1> DEFINE S == {n \in Nat : n <= Len(s) => Upto(s)[n] \in Seq(Event)}
<1>1. Len(s) \in Nat /\ \A i \in 1 .. Len(s) : s[i] \in WireByte
  BY LenProperties, ElementOfSeq
<1>2. 0 \in S
  <2>1. Upto(s)[0] = <<>>
    BY StrokesUpto
  <2>2. <<>> \in Seq(Event)
    OBVIOUS
  <2> QED
    BY <2>1, <2>2
<1>3. ASSUME NEW n \in Nat, n \in S PROVE n + 1 \in S
  <2> SUFFICES ASSUME n + 1 <= Len(s) PROVE Upto(s)[n + 1] \in Seq(Event)
    OBVIOUS
  <2>1. n + 1 \in 1 .. Len(s) /\ (n + 1) - 1 = n /\ n <= Len(s)
    BY <1>1
  <2>2. Upto(s)[n] \in Seq(Event)
    BY <1>3, <2>1
  <2>3. Upto(s)[n + 1] = Select(s, n + 1, Upto(s)[n])
    BY <2>1, StrokesUpto
  <2>4. StrokeOf(s[n + 1]) \in Event
    BY <1>1, <2>1 DEF StrokeOf, WireByte, Event
  <2> QED
    BY <2>2, <2>3, <2>4, AppendProperties DEF Select
<1> HIDE DEF S
<1>4. \A n \in Nat : n \in S
  BY <1>2, <1>3, Induction
<1> QED
  BY <1>1, <1>4 DEF S

(* What comes behind does not change what was selected before it.            *)
LEMMA StrokesStay ==
  ASSUME NEW s \in Seq(WireByte), NEW t \in Seq(WireByte), Len(s) <= Len(t),
         \A i \in 1 .. Len(s) : t[i] = s[i]
  PROVE  Upto(t)[Len(s)] = Strokes(s)
<1> DEFINE S == {n \in Nat : n <= Len(s) => Upto(t)[n] = Upto(s)[n]}
<1>1. Len(s) \in Nat /\ Len(t) \in Nat
  BY LenProperties
<1>2. 0 \in S
  BY StrokesUpto
<1>3. ASSUME NEW n \in Nat, n \in S PROVE n + 1 \in S
  <2> SUFFICES ASSUME n + 1 <= Len(s) PROVE Upto(t)[n + 1] = Upto(s)[n + 1]
    OBVIOUS
  <2>1. n + 1 \in 1 .. Len(s) /\ n + 1 \in 1 .. Len(t) /\ (n + 1) - 1 = n /\ n <= Len(s)
    BY <1>1
  <2>2. Upto(t)[n] = Upto(s)[n] /\ t[n + 1] = s[n + 1]
    BY <1>3, <2>1
  <2>3. /\ Upto(s)[n + 1] = Select(s, n + 1, Upto(s)[n])
        /\ Upto(t)[n + 1] = Select(t, n + 1, Upto(t)[n])
    BY <2>1, StrokesUpto
  <2> QED
    BY <2>2, <2>3 DEF Select
<1> HIDE DEF S
<1>4. \A n \in Nat : n \in S
  BY <1>2, <1>3, Induction
<1> QED
  BY <1>1, <1>4, StrokesUpto DEF S

(* The stroke that a byte is, if it is one.                                  *)
Front(byte) == IF IsStroke(byte) THEN <<StrokeOf(byte)>> ELSE <<>>

(* Appending is done behind a sequence or behind its second part.            *)
LEMMA AppendBehind ==
  \A p, q \in Seq(Event), e \in Event : Append(p \o q, e) = p \o Append(q, e)
<1> SUFFICES ASSUME NEW p \in Seq(Event), NEW q \in Seq(Event), NEW e \in Event
             PROVE  Append(p \o q, e) = p \o Append(q, e)
  OBVIOUS
<1>1. <<e>> \in Seq(Event) /\ p \o q \in Seq(Event)
  BY ConcatProperties
<1>2. Append(p \o q, e) = (p \o q) \o <<e>> /\ Append(q, e) = q \o <<e>>
  BY <1>1, AppendIsConcat
<1>3. (p \o q) \o <<e>> = p \o (q \o <<e>>)
  BY <1>1, ConcatAssociative
<1> QED
  BY <1>2, <1>3

(* A byte in front puts its stroke in front.                                 *)
LEMMA StrokesShift ==
  ASSUME NEW s \in Seq(WireByte), NEW t \in Seq(WireByte), Len(s) = Len(t) + 1,
         \A i \in 1 .. Len(t) : t[i] = s[i + 1]
  PROVE  Strokes(s) = Front(s[1]) \o Strokes(t)
<1> DEFINE S == {n \in Nat : n <= Len(t) => Upto(s)[n + 1] = Front(s[1]) \o Upto(t)[n]}
<1>1. Len(s) \in Nat /\ Len(t) \in Nat /\ \A i \in 1 .. Len(s) : s[i] \in WireByte
  BY LenProperties, ElementOfSeq
<1>2. Front(s[1]) \in Seq(Event)
  <2>1. StrokeOf(s[1]) \in Event
    BY <1>1 DEF StrokeOf, WireByte, Event
  <2> QED
    BY <2>1 DEF Front
<1>3. 0 \in S
  <2>1. 1 \in 1 .. Len(s) /\ 1 - 1 = 0 /\ 0 + 1 = 1
    BY <1>1
  <2>2. Upto(s)[1] = Select(s, 1, <<>>) /\ Upto(t)[0] = <<>>
    BY <2>1, StrokesUpto
  <2>3. Select(s, 1, <<>>) = Front(s[1])
    BY DEF Select, Front
  <2>4. Front(s[1]) \o <<>> = Front(s[1])
    BY <1>2, ConcatEmptySeq
  <2> QED
    BY <2>1, <2>2, <2>3, <2>4
<1>4. ASSUME NEW n \in Nat, n \in S PROVE n + 1 \in S
  <2>0. n + 1 \in Nat
    OBVIOUS
  <2> SUFFICES ASSUME n + 1 <= Len(t)
               PROVE  Upto(s)[(n + 1) + 1] = Front(s[1]) \o Upto(t)[n + 1]
    BY <2>0, Zenon
  <2>1. /\ (n + 1) + 1 \in 1 .. Len(s) /\ n + 1 \in 1 .. Len(t) /\ n \in 0 .. Len(t)
        /\ ((n + 1) + 1) - 1 = n + 1 /\ (n + 1) - 1 = n /\ n <= Len(t)
    BY <1>1
  <2> DEFINE q == Upto(t)[n]
             b == t[n + 1]
  <2>2. Upto(s)[n + 1] = Front(s[1]) \o q /\ b = s[(n + 1) + 1]
    BY <1>4, <2>1
  <2>3. /\ Upto(s)[(n + 1) + 1] = Select(s, (n + 1) + 1, Front(s[1]) \o q)
        /\ Upto(t)[n + 1] = Select(t, n + 1, q)
    BY <2>1, <2>2, StrokesUpto
  <2>4. q \in Seq(Event)
    BY <2>1, StrokesAreEvents
  <2>5. b \in WireByte /\ StrokeOf(b) \in Event
    BY <1>1, <2>1, <2>2 DEF StrokeOf, WireByte, Event
  <2> HIDE DEF q, b
  <2>6. Append(Front(s[1]) \o q, StrokeOf(b)) = Front(s[1]) \o Append(q, StrokeOf(b))
    BY <1>2, <2>4, <2>5, AppendBehind, Zenon
  <2>7. /\ Select(s, (n + 1) + 1, Front(s[1]) \o q)
             = IF IsStroke(b) THEN Append(Front(s[1]) \o q, StrokeOf(b)) ELSE Front(s[1]) \o q
        /\ Select(t, n + 1, q) = IF IsStroke(b) THEN Append(q, StrokeOf(b)) ELSE q
    BY <2>2 DEF Select, b
  <2> QED
    BY <2>3, <2>6, <2>7
<1> HIDE DEF S
<1>5. \A n \in Nat : n \in S
  BY <1>3, <1>4, Induction
<1>6. Upto(s)[Len(t) + 1] = Front(s[1]) \o Upto(t)[Len(t)]
  <2>1. Len(t) <= Len(t)
    BY <1>1
  <2> QED
    BY <1>1, <1>5, <2>1, Zenon DEF S
<1> QED
  BY <1>6, StrokesUpto
(* The head and the tail of a sequence that an event was put in front of.    *)
LEMMA HeadTailOfConcat ==
  \A e \in Event, q \in Seq(Event) :
    <<e>> \o q # <<>> /\ Head(<<e>> \o q) = e /\ Tail(<<e>> \o q) = q
<1> SUFFICES ASSUME NEW e \in Event, NEW q \in Seq(Event)
             PROVE  <<e>> \o q # <<>> /\ Head(<<e>> \o q) = e /\ Tail(<<e>> \o q) = q
  OBVIOUS
<1> DEFINE s == <<e>> \o q
<1>1. /\ s \in Seq(Event) /\ Len(s) = 1 + Len(q) /\ Len(q) \in Nat /\ s[1] = e
      /\ \A i \in 1 .. Len(q) : s[i + 1] = q[i]
  BY ConcatProperties
<1> HIDE DEF s
<1>2. s # <<>>
  BY <1>1
<1>3. Head(s) = e
  BY <1>1, <1>2
<1>4. /\ Tail(s) \in Seq(Event) /\ Len(Tail(s)) = Len(q)
      /\ \A i \in 1 .. Len(q) : Tail(s)[i] = q[i]
  BY <1>1, <1>2, HeadTailProperties
<1>5. Tail(s) = q
  BY <1>1, <1>4, SeqEqual
<1> QED
  BY <1>2, <1>3, <1>5 DEF s

(* The bytes a key puts on the wire end in one stroke, the key's.            *)
LEMMA KeyIsStroke ==
  ASSUME wire \in Seq(WireByte), wire' \in Seq(WireByte), NEW k \in AllKeys, NEW break \in BOOLEAN,
         NEW n \in 1 .. 3, Shape(n, k, break)
  PROVE  Strokes(wire') = Append(Strokes(wire), [code |-> k, down |-> ~break])
<1> DEFINE L == Len(wire)
           w == wire'
           u == Upto(w)
<1>1. L \in Nat /\ Len(w) = L + n /\ \A i \in 1 .. L : w[i] = wire[i]
  BY LenProperties DEF Shape, Bytes
<1>2. \A i \in 1 .. (L + n) : w[i] \in WireByte
  BY <1>1, ElementOfSeq
<1>3. u[L] = Strokes(wire)
  BY <1>1, StrokesStay
<1>4. \A i \in 1 .. (L + n) : u[i] = Select(w, i, u[i - 1])
  BY <1>1, StrokesUpto
<1>5. Strokes(w) = u[L + n]
  BY <1>1, StrokesUpto
<1>6. L + n \in 1 .. (L + n) /\ IsStroke(w[L + n]) /\ StrokeOf(w[L + n]) = [code |-> k, down |-> ~break]
  <2>1. L + n \in 1 .. (L + n)
    BY <1>1
  <2>2. w[L + n].code = k /\ w[L + n].break = break
    BY DEF Shape
  <2>3. IsStroke(w[L + n])
    BY <1>2, <2>1, <2>2, Codes
  <2> QED
    BY <2>1, <2>2, <2>3 DEF StrokeOf
<1>7. \A i \in (L + 1) .. (L + n - 1) : ~IsStroke(w[i])
  <2>1. n > 1 => w[(L + n) - 1].code \in {KB_SCAN2_BREAK, SC_EXTENDED}
                 /\ w[L + 1].code \in {KB_SCAN2_BREAK, SC_EXTENDED}
    BY DEF Shape
  <2>2. ASSUME NEW i \in (L + 1) .. (L + n - 1) PROVE ~IsStroke(w[i])
    <3>1. n > 1 /\ i \in 1 .. (L + n) /\ (i = L + 1 \/ i = (L + n) - 1)
      BY <1>1
    <3>2. w[i].code \in {KB_SCAN2_BREAK, SC_EXTENDED}
      BY <2>1, <3>1
    <3>3. w[i] \in WireByte
      BY <1>2, <3>1
    <3> QED
      BY <3>2, <3>3, Codes
  <2> QED
    BY <2>2
<1> HIDE DEF L, w, u
<1>8. \A i \in (L + 1) .. (L + n - 1) : u[i] = u[i - 1]
  BY <1>1, <1>4, <1>7 DEF Select
<1>9. u[(L + n) - 1] = u[L]
  <2>1. CASE n = 1
    BY <1>1, <2>1
  <2>2. CASE n = 2
    <3>1. L + 1 \in (L + 1) .. (L + n - 1) /\ (L + 1) - 1 = L /\ (L + n) - 1 = L + 1
      BY <1>1, <2>2
    <3> QED
      BY <1>8, <3>1
  <2>3. CASE n = 3
    <3>1. /\ L + 1 \in (L + 1) .. (L + n - 1) /\ (L + 1) - 1 = L
          /\ L + 2 \in (L + 1) .. (L + n - 1) /\ (L + 2) - 1 = L + 1 /\ (L + n) - 1 = L + 2
      BY <1>1, <2>3
    <3> QED
      BY <1>8, <3>1
  <2> QED
    BY <2>1, <2>2, <2>3
<1>10. u[L + n] = Append(u[(L + n) - 1], [code |-> k, down |-> ~break])
  <2>1. u[L + n] = Select(w, L + n, u[(L + n) - 1])
    BY <1>4, <1>6
  <2> QED
    BY <1>6, <2>1, Zenon DEF Select
<1>11. Strokes(w) = Append(Strokes(wire), [code |-> k, down |-> ~break])
  BY <1>3, <1>5, <1>9, <1>10
<1> QED
  BY <1>11 DEF w

(* The handler takes the first stroke, if its byte ends one.                 *)
LEMMA HandlerTakesStroke ==
  ASSUME wire \in Seq(WireByte), Advanced
  PROVE  /\ ~IsStroke(Head(wire)) => Strokes(wire') = Strokes(wire)
         /\ IsStroke(Head(wire)) =>
              /\ Strokes(wire) # <<>>
              /\ Head(Strokes(wire)) = StrokeOf(Head(wire))
              /\ Strokes(wire') = Tail(Strokes(wire))
<1> DEFINE t == wire'
           q == Strokes(t)
           b == Head(wire)
<1>1. /\ Len(wire) \in Nat \ {0} /\ t \in Seq(WireByte) /\ Len(wire) = Len(t) + 1
      /\ \A i \in 1 .. Len(t) : t[i] = wire[i + 1]
      /\ b = wire[1] /\ b \in WireByte
  BY LenProperties DEF Advanced
<1>2. Strokes(wire) = Front(b) \o q
  BY <1>1, StrokesShift
<1>3. q \in Seq(Event)
  <2>1. Len(t) \in 0 .. Len(t)
    BY <1>1, LenProperties
  <2> QED
    BY <1>1, <2>1, StrokesAreEvents, StrokesUpto
<1>4. StrokeOf(b) \in Event
  BY <1>1 DEF StrokeOf, WireByte, Event
<1>5. CASE IsStroke(b)
  <2>1. Strokes(wire) = <<StrokeOf(b)>> \o q
    BY <1>2, <1>5 DEF Front
  <2> HIDE DEF q, b
  <2>2. /\ <<StrokeOf(b)>> \o q # <<>>
        /\ Head(<<StrokeOf(b)>> \o q) = StrokeOf(b)
        /\ Tail(<<StrokeOf(b)>> \o q) = q
    BY <1>3, <1>4, HeadTailOfConcat
  <2> QED
    BY <1>5, <2>1, <2>2 DEF q, b
<1>6. CASE ~IsStroke(b)
  BY <1>2, <1>3, <1>6, ConcatEmptySeq DEF Front
<1> QED
  BY <1>5, <1>6
-----------------------------------------------------------------------------
(* The refinement.  KeyEvents reads the tables of the same Keymap.           *)
LEMMA SameKeymap ==
  /\ SampleCodes = Events!SampleCodes
  /\ \A shift, code : Lookup(shift, code) = Events!Lookup(shift, code)
  /\ \A key : /\ IsShift(key) <=> Events!IsShift(key)
              /\ Types(key) <=> Events!Types(key)
  /\ \A key, caps : Char(key, caps) = Events!Char(key, caps)
  /\ KB_CAPSLOCK = Events!KB_CAPSLOCK
<1> USE DEF SC_F1, Events!SC_F1, SC_TAB, Events!SC_TAB, SC_LSHIFT, Events!SC_LSHIFT, SC_1, Events!SC_1,
     SC_A, Events!SC_A, SC_CAPS, Events!SC_CAPS, SC_RSHIFT, Events!SC_RSHIFT, SC_ENTER, Events!SC_ENTER,
     SC_BACKSPACE, Events!SC_BACKSPACE, SC_NUM8, Events!SC_NUM8, SC_SYSRQ, Events!SC_SYSRQ,
     KB_F1, Events!KB_F1, KB_TAB, Events!KB_TAB, KB_LSHIFT, Events!KB_LSHIFT, KB_RSHIFT, Events!KB_RSHIFT,
     KB_CAPSLOCK, Events!KB_CAPSLOCK, KB_ENTER, Events!KB_ENTER, KB_BACKSPACE, Events!KB_BACKSPACE
<1>1. SampleCodes = Events!SampleCodes
  BY DEF SampleCodes, Events!SampleCodes
<1>2. kb_ps2_scancode2 = Events!kb_ps2_scancode2
  BY <1>1 DEF kb_ps2_scancode2, Events!kb_ps2_scancode2
<1>3. kb_ps2_scancode2_shift = Events!kb_ps2_scancode2_shift
  BY <1>2 DEF kb_ps2_scancode2_shift, Events!kb_ps2_scancode2_shift
<1>4. \A shift, code : Lookup(shift, code) = Events!Lookup(shift, code)
  BY <1>2, <1>3 DEF Lookup, Events!Lookup, TABLE_ENTRIES, Events!TABLE_ENTRIES
<1>5. \A key : (IsShift(key) <=> Events!IsShift(key)) /\ (Types(key) <=> Events!Types(key))
  BY DEF IsShift, Events!IsShift, Types, Events!Types, Ascii, Events!Ascii
<1>6. \A key, caps : Char(key, caps) = Events!Char(key, caps)
  BY DEF Char, Events!Char, Lowercase, Events!Lowercase, Newline, Events!Newline
<1>7. KB_CAPSLOCK = Events!KB_CAPSLOCK
  OBVIOUS
<1> QED
  BY <1>1, <1>4, <1>5, <1>6, <1>7, Zenon

(* At the start there is no stroke on the wire, whatever keyboard_init has   *)
(* left there.                                                               *)
LEMMA InitEvents == MaxReplugs = 0 /\ Init => Events!Init
<1> SUFFICES ASSUME MaxReplugs = 0, Init PROVE Events!Init
  OBVIOUS
<1> DEFINE ack == [code |-> SC_ACK, break |-> FALSE]
<1>1. ack \in WireByte /\ ~IsStroke(ack)
  <2>1. ack \in WireByte /\ ack.code = SC_ACK
    BY DEF WireByte, SC_ACK
  <2> QED
    BY <2>1, Codes
<1>2. CASE wire = <<>>
  <2>1. wire \in Seq(WireByte) /\ Len(wire) = 0
    BY <1>2
  <2>2. Strokes(wire) = <<>>
    BY <2>1, StrokesUpto
  <2> QED
    BY <2>2 DEF Init, Events!Init
<1>3. CASE wire = <<ack>>
  <2>1. wire \in Seq(WireByte) /\ Len(wire) = 1 /\ wire[1] = ack
    BY <1>1, <1>3
  <2>2. 1 \in 1 .. Len(wire) /\ 1 - 1 = 0
    BY <2>1
  <2>3. Upto(wire)[1] = Select(wire, 1, <<>>) /\ Strokes(wire) = Upto(wire)[1]
    BY <2>1, <2>2, StrokesUpto
  <2>4. Strokes(wire) = <<>>
    BY <1>1, <2>1, <2>3 DEF Select
  <2> QED
    BY <2>4 DEF Init, Events!Init
<1>4. wire = <<>> \/ wire = <<ack>>
  BY DEF Init
<1> QED
  BY <1>2, <1>3, <1>4

(* A key that goes down or up is a stroke, of one of the keys.               *)
LEMMA UserStrikes ==
  ASSUME TypeOK, NEW k \in AllKeys, Press(k) \/ Release(k)
  PROVE  Events!Next
<1>1. PICK n \in 1 .. 3, break \in BOOLEAN : Shape(n, k, break)
  BY StrokesAppend, AppendShape DEF TypeOK
<1>2. wire \in Seq(WireByte) /\ wire' \in Seq(WireByte)
  BY StrokesAppend DEF TypeOK, Pressed, Released, Appended
<1>3. Strokes(wire') = Append(Strokes(wire), [code |-> k, down |-> ~break])
  BY <1>1, <1>2, KeyIsStroke
<1>4. UNCHANGED <<shift_next, caps_lock, out>>
  BY DEF Press, Release, Send, decoder
<1>5. Events!Stroke(k, ~break)
  BY <1>3, <1>4 DEF Events!Stroke
<1>6. k \in Events!SampleCodes
  BY Codes, SameKeymap
<1> QED
  BY <1>5, <1>6 DEF Events!Next

(* A byte that ends a code is the event it was sent for, because the decoder *)
(* is in step.                                                               *)
LEMMA DecodeApplies ==
  ASSUME TypeOK, ~Late, wire # <<>>, IsStroke(Head(wire)), Advanced, Decode(Head(wire))
  PROVE  Events!Handle
<1> DEFINE byte == Head(wire)
<1>1. /\ Strokes(wire) # <<>> /\ Head(Strokes(wire)) = StrokeOf(byte)
      /\ Strokes(wire') = Tail(Strokes(wire))
  BY HandlerTakesStroke DEF TypeOK
<1>2. break_next = byte.break /\ break_next \in BOOLEAN /\ caps_lock \in BOOLEAN /\ out \in Seq(Chars)
  BY DEF Late, TypeOK, Chars
<1>3. StrokeOf(byte).code = byte.code /\ StrokeOf(byte).down = ~break_next
  BY <1>2 DEF StrokeOf
<1>4. PICK key \in Lookup(shift_next, byte.code) :
        /\ shift_next' = AfterShift(key)
        /\ caps_lock' = AfterCaps(key)
        /\ out' = out \o Pushed(key)
  BY DEF Decode
<1>5. shift_next' = IF Events!IsShift(key) THEN ~break_next ELSE shift_next
  BY <1>4, SameKeymap DEF AfterShift
<1>6. caps_lock' = (caps_lock # (key = Events!KB_CAPSLOCK /\ ~(~break_next)))
  <2>1. CASE key = KB_CAPSLOCK /\ break_next
    BY <1>2, <1>4, <2>1, SameKeymap DEF AfterCaps
  <2>2. CASE ~(key = KB_CAPSLOCK /\ break_next)
    BY <1>2, <1>4, <2>2, SameKeymap DEF AfterCaps
  <2> QED
    BY <2>1, <2>2
<1>7. out' = IF Events!Types(key) /\ ~break_next THEN Append(out, Events!Char(key, caps_lock)) ELSE out
  <2>1. CASE Types(key) /\ ~break_next
    <3>1. Char(key, caps_lock) \in Chars
      BY <1>2, <2>1, CharsPushed
    <3>2. out' = Append(out, Char(key, caps_lock))
      BY <1>2, <1>4, <2>1, <3>1, AppendIsConcat DEF Pushed
    <3> QED
      BY <2>1, <3>2, SameKeymap, Zenon
  <2>2. CASE ~(Types(key) /\ ~break_next)
    <3>1. out' = out
      BY <1>2, <1>4, <2>2, ConcatEmptySeq DEF Pushed
    <3> QED
      BY <2>2, <3>1, SameKeymap, Zenon
  <2> QED
    BY <2>1, <2>2
<1>8. Events!Apply(key, StrokeOf(byte).down)
  BY <1>3, <1>5, <1>6, <1>7, Zenon DEF Events!Apply
<1>9. key \in Events!Lookup(shift_next, StrokeOf(byte).code)
  BY <1>3, <1>4, SameKeymap, Zenon
<1> QED
  BY <1>1, <1>8, <1>9, Zenon DEF Events!Handle

(* Every step is one of KeyEvents or none, as long as nothing is unplugged.  *)
LEMMA EventSteps ==
  ASSUME IInv, replugs = 0, [Next]_vars, ~Replug
  PROVE  [Events!Next]_(Events!eventVars)
<1>1. ASSUME NEW k \in AllKeys, Press(k) \/ Release(k) PROVE Events!Next
  BY <1>1, UserStrikes DEF IInv
<1>2. CASE keyboard_irq_handler
  <2>1. Advanced /\ wire # <<>> /\ wire \in Seq(WireByte) /\ TypeOK
    BY <1>2, HandlerAdvances DEF IInv, TypeOK, Advanced
  <2>2. ~Late
    BY PluggedInStep
  <2>3. Head(wire) \in WireByte
    BY <2>1 DEF Advanced
  <2>4. CASE IsStroke(Head(wire))
    <3>1. Decode(Head(wire))
      BY <1>2, <2>4 DEF keyboard_irq_handler, IsStroke
    <3>2. Events!Handle
      BY <2>1, <2>2, <2>4, <3>1, DecodeApplies
    <3> QED
      BY <3>2 DEF Events!Next
  <2>5. CASE ~IsStroke(Head(wire))
    <3>1. Strokes(wire') = Strokes(wire)
      BY <2>1, <2>5, HandlerTakesStroke
    <3>2. UNCHANGED <<shift_next, caps_lock, out>>
      BY <1>2, <2>5 DEF keyboard_irq_handler, IsStroke, decoder
    <3> QED
      BY <3>1, <3>2 DEF Events!eventVars
  <2> QED
    BY <2>4, <2>5
<1>3. CASE UNCHANGED vars
  BY <1>3 DEF vars, decoder, Events!eventVars
<1> QED
  BY <1>1, <1>2, <1>3 DEF Next

(* A keyboard that stays plugged in cannot be replugged.                     *)
LEMMA NoReplug == MaxReplugs = 0 /\ TypeOK => replugs = 0 /\ ~Replug
<1> SUFFICES ASSUME MaxReplugs = 0, TypeOK PROVE replugs = 0 /\ ~Replug
  OBVIOUS
<1>1. replugs = 0
  BY DEF TypeOK
<1> QED
  BY <1>1 DEF Replug

(* keyboard_irq_handler implements KeyEvents for every keyboard that stays   *)
(* plugged in, for any number of strokes and bytes on the wire, and any      *)
(* words behind the tables: each stroke is one event, and events take effect *)
(* one at a time, in their order, as what they were.                         *)
THEOREM EventsKept ==
  ASSUME MaxReplugs = 0
  PROVE  Spec => EventSpec
<1>1. Init => Events!Init
  BY InitEvents
<1>2. Init => IInv
  BY InitIInv
<1>3. IInv /\ [Next]_vars => IInv'
  BY StepKeeps
<1>4. IInv /\ [Next]_vars => [Events!Next]_(Events!eventVars)
  BY EventSteps, NoReplug DEF IInv
<1> QED
  BY <1>1, <1>2, <1>3, <1>4, PTL DEF Spec, EventSpec, Events!Spec
=============================================================================
