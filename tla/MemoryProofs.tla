----------------------------- MODULE MemoryProofs -----------------------------
(***************************************************************************)
(* pmem_init with the real qsort: for tables of every size, qsort ends     *)
(* with a sorted permutation of what it was given, on a recursion no       *)
(* deeper than the table is long, so that what PmemProofs shows for a sort *)
(* in one step holds for the code.                                         *)
(***************************************************************************)
EXTENDS Memory, TLAPS, SequenceTheorems, FunctionTheorems, FiniteSetTheorems

-----------------------------------------------------------------------------
(* What _qsort_swap does to an array.                                        *)
Exchanged(s, t, size, a, b) ==
  \A k \in 1 .. size : t[k] = IF k = a THEN s[b] ELSE IF k = b THEN s[a] ELSE s[k]

(* Exchanging twice is doing nothing.                                        *)
LEMMA ExchangeBack ==
  ASSUME NEW s, NEW t, NEW size \in Nat, NEW a \in 1 .. size, NEW b \in 1 .. size,
         Exchanged(s, t, size, a, b)
  PROVE  Exchanged(t, s, size, a, b)
  BY DEF Exchanged

(* An element that occurs in an array occurs as often after an exchange: its *)
(* places are mapped to its new ones.                                        *)
LEMMA ExchangeOccurs ==
  ASSUME NEW s, NEW t, NEW size \in Nat, NEW a \in 1 .. size, NEW b \in 1 .. size, NEW e,
         DOMAIN s = 1 .. size, DOMAIN t = 1 .. size, Exchanged(s, t, size, a, b)
  PROVE  /\ Occurrences(s, e) \in Nat /\ Occurrences(t, e) \in Nat
         /\ Occurrences(s, e) <= Occurrences(t, e)
<1> DEFINE S == {k \in 1 .. size : s[k] = e}
           T == {k \in 1 .. size : t[k] = e}
           f == [k \in S |-> IF k = a THEN b ELSE IF k = b THEN a ELSE k]
<1>1. IsFiniteSet(S) /\ IsFiniteSet(T)
  <2>1. IsFiniteSet(1 .. size)
    BY FS_Interval
  <2> QED
    BY <2>1, FS_Subset
<1>2. f \in [S -> T]
  BY DEF Exchanged
<1>3. \A k, m \in S : f[k] = f[m] => k = m
  OBVIOUS
<1>4. f \in Injection(S, T)
  BY <1>2, <1>3 DEF Injection, IsInjective
<1>5. Cardinality(S) <= Cardinality(T)
  BY <1>1, <1>4, FS_Injection
<1>6. Cardinality(S) \in Nat /\ Cardinality(T) \in Nat
  BY <1>1, FS_CardinalityType
<1>7. Occurrences(s, e) = Cardinality(S) /\ Occurrences(t, e) = Cardinality(T)
  BY DEF Occurrences
<1> QED
  BY <1>5, <1>6, <1>7

(* So an exchange makes no more and no less of anything.                     *)
LEMMA ExchangeCounts ==
  ASSUME NEW s, NEW t, NEW size \in Nat, NEW a \in 1 .. size, NEW b \in 1 .. size,
         DOMAIN s = 1 .. size, DOMAIN t = 1 .. size, Exchanged(s, t, size, a, b)
  PROVE  \A e : Occurrences(s, e) = Occurrences(t, e)
<1> SUFFICES ASSUME NEW e PROVE Occurrences(s, e) = Occurrences(t, e)
  OBVIOUS
<1>1. /\ Occurrences(s, e) \in Nat /\ Occurrences(t, e) \in Nat
      /\ Occurrences(s, e) <= Occurrences(t, e)
  BY ExchangeOccurs
<1>2. Exchanged(t, s, size, a, b)
  BY ExchangeBack
<1>3. Occurrences(t, e) <= Occurrences(s, e)
  BY <1>2, ExchangeOccurs
<1> QED
  BY <1>1, <1>3

(* An array that was a permutation of another still is one.                  *)
LEMMA ExchangePermutes ==
  ASSUME NEW s, NEW t, NEW u, NEW size \in Nat, NEW a \in 1 .. size, NEW b \in 1 .. size,
         DOMAIN s = 1 .. size, DOMAIN t = 1 .. size, Exchanged(s, t, size, a, b),
         IsPermutation(s, u)
  PROVE  IsPermutation(t, u)
<1>1. DOMAIN u = 1 .. size /\ \A k \in 1 .. size : \A e \in {s[k], u[k]} : Occurrences(s, e) = Occurrences(u, e)
  BY DEF IsPermutation
<1>2. ASSUME NEW k \in 1 .. size, NEW e \in {t[k], u[k]} PROVE Occurrences(t, e) = Occurrences(u, e)
  <2>1. \E m \in 1 .. size : e \in {s[m], u[m]}
    BY <1>2 DEF Exchanged
  <2>2. Occurrences(s, e) = Occurrences(u, e)
    BY <1>1, <2>1
  <2>3. Occurrences(s, e) = Occurrences(t, e)
    BY ExchangeCounts
  <2> QED
    BY <2>2, <2>3
<1> QED
  BY <1>1, <1>2 DEF IsPermutation

-----------------------------------------------------------------------------
(* The array that qsort works on, and its keys.                              *)
Size == Len(pmem_block_map)
Index == 0 .. (Size - 1)
Base(k) == pmem_block_map[k + 1].base

(* A call d that is k places behind c on the stack.  There is an element     *)
(* between their parts that is in its place for good, the pivot in front of  *)
(* d's part, and each call in between has one of its own.  The call that     *)
(* pivot 0 leaves below it covers that pivot, but returns at once.           *)
Apart(c, d, k) ==
  /\ c.left + k <= d.left
  /\ c.left < c.right => c.right + 1 + k <= d.left

Stacked ==
  /\ \A a, b \in 1 .. Len(calls) : a < b => Apart(calls[a], calls[b], b - a)
  /\ qpc = "partition" => \A b \in 1 .. Len(calls) : right + 1 + b <= calls[b].left

(* Two elements that some call has still to put in order.                    *)
Together(k, m) ==
  \/ qpc = "partition" /\ {k, m} \subseteq left .. right
  \/ \E a \in 1 .. Len(calls) : {k, m} \subseteq QS!Span(calls[a])

(* All others are.                                                           *)
Settled == \A k, m \in Index : k < m => Together(k, m) \/ Base(k) <= Base(m)

(* The loop of _qsort: the pivot, what is below it, what is not.             *)
Partitioned ==
  qpc = "partition" =>
    /\ left < right /\ p \in left .. right /\ i \in (p + 1) .. (right + 1)
    /\ \A k \in (left + 1) .. p : Base(k) < Base(left)
    /\ \A k \in (p + 1) .. (i - 1) : Base(k) >= Base(left)

(* A part is shorter by an element, the pivot at least, for each frame that  *)
(* the call on it has below its own.                                         *)
Shallow ==
  /\ \A a \in 1 .. Len(calls) :
       /\ calls[a].depth <= Size
       /\ calls[a].depth + calls[a].right <= Size + calls[a].left
  /\ depth <= Size
  /\ qpc = "partition" => depth + right <= Size + left

Sorting ==
  /\ QS!TypeOK
  /\ Stacked /\ Settled /\ Partitioned /\ Shallow
  /\ IsPermutation(pmem_block_map, input)

(* While qsort does not run, nothing of it is there.                         *)
MInv ==
  IF pc = "sort" THEN Sorting ELSE Idle /\ pc \in {"gather", "merge", "alloc", "wild"}

-----------------------------------------------------------------------------
(* The calls of _qsort on an array of some size.                             *)
Bounds(size) == [left : 0 .. size, right : 0 .. (size - 1), depth : Nat \ {0}]

(* The array as a function, and qsort's types written out.                   *)
LEMMA SortTypes ==
  ASSUME QS!TypeOK
  PROVE  /\ Size \in Nat \ {0} /\ Size <= MAX_PMEM_ENTRIES /\ DOMAIN pmem_block_map = 1 .. Size
         /\ pmem_block_map \in Seq(Block(0 .. Space))
         /\ \A k \in 1 .. Size : pmem_block_map[k] \in Block(0 .. Space)
         /\ \A k \in Index : Base(k) \in Nat
         /\ Len(calls) \in Nat /\ calls \in Seq(Bounds(Size))
         /\ \A a \in 1 .. Len(calls) : /\ calls[a] \in Bounds(Size)
                                       /\ calls[a].left \in 0 .. Size /\ calls[a].right \in 0 .. (Size - 1)
                                       /\ calls[a].depth \in Nat
         /\ left \in 0 .. (Size - 1) /\ right \in 0 .. (Size - 1)
         /\ p \in 0 .. (Size - 1) /\ i \in 0 .. Size /\ depth \in Nat
         /\ qpc \in {"call", "partition"}
<1>1. /\ pmem_block_map \in Seq(Block(0 .. Space)) /\ Size \in 1 .. MAX_PMEM_ENTRIES
      /\ calls \in Seq(Bounds(Size))
      /\ left \in 0 .. (Size - 1) /\ right \in 0 .. (Size - 1)
      /\ p \in 0 .. (Size - 1) /\ i \in 0 .. Size /\ depth \in Nat
      /\ qpc \in {"call", "partition"}
  BY DEF QS!TypeOK, QS!n, Size, Bounds
<1>2. Size \in Nat /\ DOMAIN pmem_block_map = 1 .. Size
  BY <1>1, LenProperties DEF Size
<1>3. \A k \in 1 .. Size : pmem_block_map[k] \in Block(0 .. Space)
  BY <1>1, <1>2, ElementOfSeq
<1>4. Len(calls) \in Nat /\ \A a \in 1 .. Len(calls) : calls[a] \in Bounds(Size)
  BY <1>1, ElementOfSeq, LenProperties
<1>5. \A k \in Index : Base(k) \in Nat
  <2> SUFFICES ASSUME NEW k \in Index PROVE Base(k) \in Nat
    OBVIOUS
  <2>1. k + 1 \in 1 .. Size
    BY <1>2 DEF Index
  <2>2. pmem_block_map[k + 1].base \in 0 .. Space
    BY <1>3, <2>1 DEF Block
  <2> QED
    BY <2>2 DEF Base
<1> QED
  BY <1>1, <1>2, <1>3, <1>4, <1>5 DEF Bounds

(* The comparison that qsort is given is by base.                            *)
LEMMA Compared ==
  ASSUME NEW a \in Block(0 .. Space), NEW b \in Block(0 .. Space)
  PROVE  /\ pmem_cmp(a, b) > 0 <=> a.base > b.base
         /\ pmem_cmp(a, b) <= 0 <=> a.base <= b.base
<1>1. a.base \in Nat /\ b.base \in Nat
  BY DEF Block
<1>2. CASE a.base > b.base
  <2>1. ~(a.base < b.base)
    BY <1>1, <1>2
  <2>2. pmem_cmp(a, b) = 1
    BY <1>2, <2>1 DEF pmem_cmp
  <2> QED
    BY <1>1, <1>2, <2>1, <2>2
<1>3. CASE a.base < b.base
  <2>1. ~(a.base > b.base)
    BY <1>1, <1>3
  <2>2. pmem_cmp(a, b) = -1
    BY <1>3, <2>1 DEF pmem_cmp
  <2> QED
    BY <1>1, <1>3, <2>1, <2>2
<1>4. CASE a.base = b.base
  <2>1. ~(a.base > b.base) /\ ~(a.base < b.base)
    BY <1>1, <1>4
  <2>2. pmem_cmp(a, b) = 0
    BY <2>1 DEF pmem_cmp
  <2> QED
    BY <1>1, <1>4, <2>1, <2>2
<1> QED
  BY <1>1, <1>2, <1>3, <1>4

(* _qsort_swap's array.                                                      *)
Swapped(a, b) ==
  /\ pmem_block_map' \in Seq(Block(0 .. Space)) /\ Size' = Size /\ Index' = Index
  /\ \A k \in Index : Base(k)' \in Nat
  /\ \A k \in Index : Base(k)' = IF k = a THEN Base(b) ELSE IF k = b THEN Base(a) ELSE Base(k)
  /\ IsPermutation(pmem_block_map', input)

(* It swaps the two blocks and leaves the others, so that the table stays a   *)
(* permutation of the one that came in.                                      *)
LEMMA SwapSwaps ==
  ASSUME Sorting, NEW a \in Index, NEW b \in Index, pmem_block_map' = QS!_qsort_swap(a, b)
  PROVE  Swapped(a, b)
<1> DEFINE m == pmem_block_map
           t == pmem_block_map'
<1>0. /\ Size \in Nat \ {0} /\ DOMAIN m = 1 .. Size /\ m \in Seq(Block(0 .. Space))
      /\ \A k \in 1 .. Size : m[k] \in Block(0 .. Space)
      /\ a + 1 \in 1 .. Size /\ b + 1 \in 1 .. Size
  BY SortTypes DEF Sorting, Index
<1>1. t = [m EXCEPT ![a + 1] = m[b + 1], ![b + 1] = m[a + 1]]
  BY DEF QS!_qsort_swap, QS!At
<1>2. /\ DOMAIN t = 1 .. Size
      /\ \A k \in 1 .. Size : t[k] = IF k = b + 1 THEN m[a + 1] ELSE IF k = a + 1 THEN m[b + 1] ELSE m[k]
  BY <1>0, <1>1
<1>3. Exchanged(m, t, Size, a + 1, b + 1)
  BY <1>0, <1>2 DEF Exchanged
<1>4. \A k \in 1 .. Size : t[k] \in Block(0 .. Space)
  BY <1>0, <1>2
<1>5. t \in Seq(Block(0 .. Space)) /\ Len(t) = Size
  <2>1. t = [k \in 1 .. Size |-> t[k]]
    BY <1>0, <1>1
  <2> QED
    BY <1>0, <1>4, <2>1, IsASeq, LenProperties
<1>6. IsPermutation(t, input)
  BY <1>0, <1>2, <1>3, ExchangePermutes DEF Sorting
<1>7. ASSUME NEW k \in Index
      PROVE  /\ Base(k)' \in Nat
             /\ Base(k)' = IF k = a THEN Base(b) ELSE IF k = b THEN Base(a) ELSE Base(k)
  <2>1. k + 1 \in 1 .. Size /\ k \in Nat /\ a \in Nat /\ b \in Nat
    BY <1>0 DEF Index
  <2>2. t[k + 1] = IF k + 1 = a + 1 THEN m[b + 1] ELSE IF k + 1 = b + 1 THEN m[a + 1] ELSE m[k + 1]
    BY <1>3, <2>1 DEF Exchanged
  <2>3. t[k + 1] = IF k = a THEN m[b + 1] ELSE IF k = b THEN m[a + 1] ELSE m[k + 1]
    BY <2>1, <2>2
  <2>4. t[k + 1].base \in Nat
    BY <1>4, <2>1 DEF Block
  <2>5. Base(k)' = t[k + 1].base
    BY DEF Base
  <2>6. CASE k = a
    BY <2>3, <2>4, <2>5, <2>6 DEF Base
  <2>7. CASE k # a /\ k = b
    BY <2>3, <2>4, <2>5, <2>7 DEF Base
  <2>8. CASE k # a /\ k # b
    BY <2>3, <2>4, <2>5, <2>8 DEF Base
  <2> QED
    BY <2>6, <2>7, <2>8
<1> QED
  BY <1>5, <1>6, <1>7 DEF Swapped, Size, Index

-----------------------------------------------------------------------------
(* The call at the top of the stack is taken off it; the calls below it      *)
(* stay, one place up.                                                       *)
LEMMA Popped ==
  ASSUME Sorting, calls # <<>>, calls' = Tail(calls)
  PROVE  /\ Len(calls) \in Nat \ {0} /\ Head(calls) = calls[1]
         /\ calls[1] \in Bounds(Size)
         /\ calls' \in Seq(Bounds(Size))
         /\ Len(calls') = Len(calls) - 1
         /\ \A a \in 1 .. Len(calls') : a + 1 \in 2 .. Len(calls) /\ calls'[a] = calls[a + 1]
<1>1. Len(calls) \in Nat /\ calls \in Seq(Bounds(Size))
  BY SortTypes DEF Sorting, Bounds
<1>2. Len(calls) # 0
  BY <1>1, EmptySeq
<1>3. calls[1] \in Bounds(Size)
  BY <1>1, <1>2, ElementOfSeq
<1>4. Head(calls) = calls[1]
  OBVIOUS
<1>5. /\ Tail(calls) \in Seq(Bounds(Size)) /\ Len(Tail(calls)) = Len(calls) - 1
      /\ \A a \in 1 .. Len(Tail(calls)) : Tail(calls)[a] = calls[a + 1]
  BY <1>1, HeadTailProperties
<1> QED
  BY <1>1, <1>2, <1>3, <1>4, <1>5

(* What is left on the stack stays apart.                                    *)
LEMMA PoppedApart ==
  ASSUME Sorting, calls # <<>>, calls' = Tail(calls)
  PROVE  \A a, b \in 1 .. Len(calls') : a < b => Apart(calls'[a], calls'[b], b - a)
<1> SUFFICES ASSUME NEW a \in 1 .. Len(calls'), NEW b \in 1 .. Len(calls'), a < b
             PROVE  Apart(calls'[a], calls'[b], b - a)
  OBVIOUS
<1>1. /\ a + 1 \in 1 .. Len(calls) /\ b + 1 \in 1 .. Len(calls) /\ a + 1 < b + 1
      /\ calls'[a] = calls[a + 1] /\ calls'[b] = calls[b + 1]
      /\ (b + 1) - (a + 1) = b - a
  BY Popped
<1>2. Apart(calls[a + 1], calls[b + 1], (b + 1) - (a + 1))
  BY <1>1 DEF Sorting, Stacked
<1> QED
  BY <1>1, <1>2, Zenon

(* And as deep as it was.                                                    *)
LEMMA PoppedShallow ==
  ASSUME Sorting, calls # <<>>, calls' = Tail(calls)
  PROVE  /\ calls[1].depth <= Size /\ calls[1].depth + calls[1].right <= Size + calls[1].left
         /\ \A a \in 1 .. Len(calls') :
              /\ calls'[a].depth <= Size
              /\ calls'[a].depth + calls'[a].right <= Size + calls'[a].left
<1>1. ASSUME NEW a \in 1 .. Len(calls)
      PROVE  calls[a].depth <= Size /\ calls[a].depth + calls[a].right <= Size + calls[a].left
  BY DEF Sorting, Shallow
<1>2. 1 \in 1 .. Len(calls)
  BY Popped
<1>3. \A a \in 1 .. Len(calls') : a + 1 \in 1 .. Len(calls) /\ calls'[a] = calls[a + 1]
  BY Popped
<1> QED
  BY <1>1, <1>2, <1>3

(* A part of at most one element is in order.                                *)
LEMMA ReturnKeeps ==
  ASSUME Sorting, QS!Return
  PROVE  Sorting'
<1>1. /\ qpc = "call" /\ calls # <<>> /\ calls' = Tail(calls)
      /\ Head(calls).left >= Head(calls).right
      /\ UNCHANGED <<input, pmem_block_map, left, right, p, i, depth, qpc>>
  BY DEF QS!Return, QS!Trivial
<1>2. Size' = Size /\ Index' = Index /\ \A k : Base(k)' = Base(k)
  BY <1>1 DEF Size, Index, Base
<1>3. QS!TypeOK'
  <2>1. calls' \in Seq(Bounds(Size))
    BY <1>1, Popped
  <2> QED
    BY <1>1, <1>2, <2>1 DEF Sorting, QS!TypeOK, QS!n, Size, Bounds
<1>4. Stacked'
  BY <1>1, PoppedApart DEF Stacked
<1>5. Settled'
  <2> SUFFICES ASSUME NEW k \in Index, NEW m \in Index, k < m, ~(Base(k) <= Base(m))
               PROVE  Together(k, m)'
    BY <1>2 DEF Settled
  <2>1. PICK a \in 1 .. Len(calls) : {k, m} \subseteq QS!Span(calls[a])
    BY <1>1 DEF Sorting, Settled, Together
  <2>2. k \in Int /\ m \in Int
    BY SortTypes DEF Sorting, Index
  <2>3. a # 1
    BY <1>1, <2>1, <2>2, Popped DEF QS!Span, Bounds
  <2>4. a - 1 \in 1 .. Len(calls') /\ calls'[a - 1] = calls[a]
    BY <1>1, <2>3, Popped
  <2>5. {k, m} \subseteq QS!Span(calls'[a - 1])
    BY <2>1, <2>4
  <2> QED
    BY <2>4, <2>5 DEF Together, QS!Span
<1>6. Partitioned' /\ IsPermutation(pmem_block_map, input)'
  BY <1>1 DEF Sorting, Partitioned
<1>7. Shallow'
  BY <1>1, <1>2, PoppedShallow DEF Sorting, Shallow
<1> QED
  BY <1>3, <1>4, <1>5, <1>6, <1>7 DEF Sorting

-----------------------------------------------------------------------------
(* What is outside a part is in order with what is inside.                   *)
Fenced(lo, hi) ==
  \A k, m \in Index :
    k < m /\ ({k, m} \cap lo .. hi # {}) /\ ~({k, m} \subseteq lo .. hi) => Base(k) <= Base(m)

(* An exchange inside of the part changes nothing about that.                *)
LEMMA SwapWithin ==
  ASSUME Sorting, NEW lo \in Index, NEW hi \in Index, NEW a \in lo .. hi, NEW b \in lo .. hi,
         Swapped(a, b), Fenced(lo, hi),
         NEW k \in Index, NEW m \in Index, k < m, ~({k, m} \subseteq lo .. hi), Base(k) <= Base(m)
  PROVE  Base(k)' <= Base(m)'
<1>a. Size \in Nat \ {0} /\ \A j \in Index : Base(j) \in Nat
  BY SortTypes DEF Sorting
<1>b. lo \in 0 .. (Size - 1) /\ hi \in 0 .. (Size - 1) /\ k \in 0 .. (Size - 1) /\ m \in 0 .. (Size - 1)
  BY DEF Index
<1>0. a \in Index /\ b \in Index /\ lo \in Int /\ hi \in Int /\ k \in Int /\ m \in Int
  BY <1>a, <1>b DEF Index
<1>1. \A j \in Index : Base(j)' = IF j = a THEN Base(b) ELSE IF j = b THEN Base(a) ELSE Base(j)
  BY DEF Swapped
<1>2. CASE k \notin lo .. hi /\ m \notin lo .. hi
  <2>1. Base(k)' = Base(k) /\ Base(m)' = Base(m)
    BY <1>1, <1>2
  <2> QED
    BY <2>1
<1>3. CASE k \in lo .. hi /\ m \notin lo .. hi
  <2>1. PICK j \in lo .. hi : Base(k)' = Base(j)
    BY <1>1, <1>3
  <2>2. j \in Index /\ j < m
    BY <1>a, <1>b, <1>3 DEF Index
  <2>3. Base(j) <= Base(m)
    BY <1>3, <2>2 DEF Fenced
  <2>4. Base(m)' = Base(m)
    BY <1>1, <1>3
  <2> QED
    BY <2>1, <2>3, <2>4
<1>4. CASE k \notin lo .. hi /\ m \in lo .. hi
  <2>1. PICK j \in lo .. hi : Base(m)' = Base(j)
    BY <1>1, <1>4
  <2>2. j \in Index /\ k < j
    BY <1>a, <1>b, <1>4 DEF Index
  <2>3. Base(k) <= Base(j)
    BY <1>4, <2>2 DEF Fenced
  <2>4. Base(k)' = Base(k)
    BY <1>1, <1>4
  <2> QED
    BY <2>1, <2>3, <2>4
<1> QED
  BY <1>2, <1>3, <1>4

-----------------------------------------------------------------------------
(* The call that begins is on a part that is fenced off: calls further down  *)
(* the stack are about elements behind it.                                   *)
LEMMA CallFenced ==
  ASSUME Sorting, qpc = "call", calls # <<>>, calls[1].left < calls[1].right
  PROVE  Fenced(calls[1].left, calls[1].right)
<1> DEFINE lo == calls[1].left
           hi == calls[1].right
<1> SUFFICES ASSUME NEW k \in Index, NEW m \in Index, k < m, {k, m} \cap lo .. hi # {},
                    ~({k, m} \subseteq lo .. hi)
             PROVE  Base(k) <= Base(m)
  BY DEF Fenced
<1>0. /\ Len(calls) \in Nat \ {0} /\ Size \in Nat
      /\ \A a \in 1 .. Len(calls) : calls[a].left \in Nat /\ calls[a].right \in Nat
      /\ k \in Int /\ m \in Int
  <2>1. Len(calls) \in Nat /\ calls \in Seq(Bounds(Size)) /\ Size \in Nat
        /\ \A a \in 1 .. Len(calls) : calls[a].left \in 0 .. Size /\ calls[a].right \in 0 .. (Size - 1)
    BY SortTypes DEF Sorting, Bounds
  <2>2. Len(calls) # 0
    BY <2>1, EmptySeq
  <2>3. k \in Int /\ m \in Int
    BY <2>1 DEF Index
  <2> QED
    BY <2>1, <2>2, <2>3
<1>1. ASSUME NEW a \in 1 .. Len(calls), {k, m} \subseteq QS!Span(calls[a]) PROVE FALSE
  <2>1. CASE a = 1
    BY <1>1, <2>1 DEF QS!Span
  <2>2. CASE a # 1
    <3>1. Apart(calls[1], calls[a], a - 1)
      BY <1>0, <2>2 DEF Sorting, Stacked
    <3>2. hi + 1 + (a - 1) <= calls[a].left
      BY <3>1 DEF Apart
    <3>3. k \in calls[a].left .. calls[a].right /\ m \in calls[a].left .. calls[a].right
      BY <1>1 DEF QS!Span
    <3>4. k > hi /\ m > hi
      BY <1>0, <2>2, <3>2, <3>3
    <3> QED
      BY <1>0, <3>4
  <2> QED
    BY <2>1, <2>2
<1> QED
  BY <1>1 DEF Sorting, Settled, Together

(* A call begins: the middle of its part becomes the pivot.                  *)
LEMMA CallKeeps ==
  ASSUME Sorting, QS!Call
  PROVE  Sorting'
<1> DEFINE lo == calls[1].left
           hi == calls[1].right
           mid == (lo + hi) \div 2
<1>1. /\ qpc = "call" /\ qpc' = "partition" /\ calls # <<>> /\ calls' = Tail(calls) /\ input' = input
      /\ Head(calls) = calls[1] /\ lo < hi
      /\ left' = lo /\ right' = hi /\ p' = lo /\ i' = lo + 1 /\ depth' = calls[1].depth
      /\ pmem_block_map' = QS!_qsort_swap(lo, mid)
  <2>1. /\ calls # <<>> /\ calls' = Tail(calls) /\ qpc = "call" /\ qpc' = "partition" /\ input' = input
        /\ ~QS!Trivial(Head(calls))
        /\ left' = Head(calls).left /\ right' = Head(calls).right /\ depth' = Head(calls).depth
        /\ pmem_block_map' = QS!_qsort_swap(Head(calls).left, (Head(calls).left + Head(calls).right) \div 2)
        /\ p' = Head(calls).left /\ i' = Head(calls).left + 1
    BY DEF QS!Call
  <2>2. Head(calls) = calls[1] /\ calls[1] \in Bounds(Size)
    BY <2>1, Popped
  <2>3. lo \in Int /\ hi \in Int
    BY <2>2 DEF Bounds
  <2>4. lo < hi
    BY <2>1, <2>2, <2>3 DEF QS!Trivial
  <2> QED
    BY <2>1, <2>2, <2>4
<1>2. /\ Size \in Nat \ {0} /\ lo \in 0 .. Size /\ hi \in 0 .. (Size - 1)
      /\ Len(calls) \in Nat \ {0} /\ Len(calls') = Len(calls) - 1
      /\ \A a \in 1 .. Len(calls) : calls[a].left \in Nat /\ calls[a].right \in Nat
  <2>1. QS!TypeOK
    BY DEF Sorting
  <2>2. /\ Size \in Nat \ {0}
        /\ \A a \in 1 .. Len(calls) :
             calls[a].left \in 0 .. Size /\ calls[a].right \in 0 .. (Size - 1)
    BY <2>1, SortTypes
  <2>3. Len(calls) \in Nat \ {0} /\ Len(calls') = Len(calls) - 1
    BY <1>1, Popped
  <2>4. 1 \in 1 .. Len(calls)
    BY <2>3
  <2>5. \A a \in 1 .. Len(calls) : calls[a].left \in Nat /\ calls[a].right \in Nat
    BY <2>2
  <2> QED
    BY <2>2, <2>3, <2>4, <2>5
<1> HIDE DEF lo, hi
<1>3. lo \in Index /\ hi \in Index /\ mid \in lo .. hi /\ mid \in Index /\ lo \in lo .. hi
  BY <1>1, <1>2 DEF Index
<1> USE DEF lo, hi
<1> HIDE DEF mid
<1>4. Swapped(lo, mid)
  BY <1>1, <1>3, SwapSwaps
<1>5. QS!TypeOK'
  <2>1. calls' \in Seq(Bounds(Size))
    BY <1>1, Popped
  <2>2. Len(pmem_block_map') = Size /\ pmem_block_map' \in Seq(Block(0 .. Space))
    BY <1>4 DEF Swapped, Size
  <2>3. left' \in 0 .. (Size - 1) /\ right' \in 0 .. (Size - 1) /\ p' \in 0 .. (Size - 1) /\ i' \in 0 .. Size
    BY <1>1, <1>2
  <2>4. depth' \in Nat
    BY <1>1, Popped DEF Bounds
  <2> QED
    BY <1>1, <2>1, <2>2, <2>3, <2>4 DEF Sorting, QS!TypeOK, QS!n, Size, Bounds
<1>6. Stacked'
  <2>1. ASSUME NEW b \in 1 .. Len(calls') PROVE right' + 1 + b <= calls'[b].left
    <3>1. b + 1 \in 2 .. Len(calls) /\ calls'[b] = calls[b + 1]
      BY <1>1, Popped
    <3>2. Apart(calls[1], calls[b + 1], (b + 1) - 1)
      BY <1>2, <3>1 DEF Sorting, Stacked
    <3>3. hi + 1 + ((b + 1) - 1) <= calls[b + 1].left
      BY <1>1, <3>2 DEF Apart
    <3> QED
      BY <1>1, <1>2, <3>1, <3>3
  <2> QED
    BY <1>1, <2>1, PoppedApart DEF Stacked
<1>7. Settled'
  <2> SUFFICES ASSUME NEW k \in Index, NEW m \in Index, k < m, ~Together(k, m)'
               PROVE  Base(k)' <= Base(m)'
    BY <1>4 DEF Settled, Swapped
  <2>1. ~({k, m} \subseteq lo .. hi)
    BY <1>1 DEF Together
  <2>2. ASSUME NEW a \in 1 .. Len(calls), {k, m} \subseteq QS!Span(calls[a]) PROVE FALSE
    <3>1. a # 1
      BY <2>1, <2>2 DEF QS!Span
    <3>2. a - 1 \in 1 .. Len(calls') /\ calls'[a - 1] = calls[a]
      BY <1>1, <1>2, <3>1, Popped
    <3>3. {k, m} \subseteq QS!Span(calls'[a - 1])
      BY <2>2, <3>2
    <3> QED
      BY <3>2, <3>3 DEF Together, QS!Span
  <2>3. Base(k) <= Base(m)
    BY <1>1, <2>2 DEF Sorting, Settled, Together
  <2>4. Fenced(lo, hi)
    BY <1>1, CallFenced
  <2> QED
    BY <1>3, <1>4, <2>1, <2>3, <2>4, SwapWithin
<1>8. Partitioned'
  BY <1>1, <1>2, SMTT(20) DEF Partitioned
<1>9. Shallow'
  BY <1>1, <1>4, PoppedShallow DEF Shallow, Swapped
<1> QED
  BY <1>1, <1>4, <1>5, <1>6, <1>7, <1>8, <1>9 DEF Sorting, Swapped

-----------------------------------------------------------------------------
(* While the loop of _qsort runs: its variables, and its part fenced off.    *)
LEMMA Running ==
  ASSUME Sorting, qpc = "partition"
  PROVE  /\ Size \in Nat \ {0} /\ Len(calls) \in Nat
         /\ \A a \in 1 .. Len(calls) : calls[a].left \in Nat /\ calls[a].right \in Nat
         /\ left \in Index /\ right \in Index /\ p \in Index /\ left \in Nat
         /\ left < right /\ p \in left .. right /\ i \in (p + 1) .. (right + 1)
         /\ right <= Size - 1 /\ left .. right \subseteq Index
         /\ Fenced(left, right)
<1>1. /\ Size \in Nat \ {0} /\ Len(calls) \in Nat
      /\ \A a \in 1 .. Len(calls) : calls[a].left \in 0 .. Size /\ calls[a].right \in 0 .. (Size - 1)
      /\ left \in 0 .. (Size - 1) /\ right \in 0 .. (Size - 1) /\ p \in 0 .. (Size - 1)
  BY SortTypes DEF Sorting
<1>2. left < right /\ p \in left .. right /\ i \in (p + 1) .. (right + 1)
  BY DEF Sorting, Partitioned
<1>3. ASSUME NEW k \in Index, NEW m \in Index, k < m, {k, m} \cap left .. right # {},
             ~({k, m} \subseteq left .. right)
      PROVE  Base(k) <= Base(m)
  <2>1. ASSUME NEW a \in 1 .. Len(calls), {k, m} \subseteq QS!Span(calls[a]) PROVE FALSE
    <3>1. right + 1 + a <= calls[a].left
      BY DEF Sorting, Stacked
    <3>2. k \in calls[a].left .. calls[a].right /\ m \in calls[a].left .. calls[a].right
      BY <2>1 DEF QS!Span
    <3>3. k > right /\ m > right
      BY <1>1, <3>1, <3>2
    <3> QED
      BY <1>1, <1>3, <3>3
  <2> QED
    BY <1>3, <2>1 DEF Sorting, Settled, Together
<1>4. Fenced(left, right)
  BY <1>3 DEF Fenced
<1> QED
  BY <1>1, <1>2, <1>4 DEF Index

(* A round of the loop: an element that belongs below the pivot changes      *)
(* places with the first that does not.                                      *)
LEMMA RoundKeeps ==
  ASSUME Sorting, QS!Step
  PROVE  Sorting'
<1>1. /\ qpc = "partition" /\ i <= right /\ i' = i + 1
      /\ UNCHANGED <<input, calls, left, right, depth, qpc>>
  BY DEF QS!Step
<1>2. /\ Size \in Nat \ {0} /\ left \in Index /\ right \in Index /\ p \in Index /\ left \in Nat
      /\ left < right /\ p \in left .. right /\ i \in (p + 1) .. (right + 1)
      /\ right <= Size - 1 /\ left .. right \subseteq Index
      /\ Fenced(left, right)
  BY <1>1, Running
<1>3. \A j \in Index : Base(j) \in Nat
  BY SortTypes DEF Sorting
<1>4. i \in left .. right /\ i \in Index /\ p + 1 \in left .. right /\ p + 1 \in Index
  BY <1>1, <1>2 DEF Index
<1>5. QS!Precedes(i) <=> Base(i) < Base(left)
  <2>1. /\ pmem_block_map[left + 1] \in Block(0 .. Space)
        /\ pmem_block_map[i + 1] \in Block(0 .. Space)
    BY <1>2, <1>4, SortTypes DEF Sorting, Index
  <2>2. pmem_cmp(pmem_block_map[left + 1], pmem_block_map[i + 1]) > 0 <=> Base(left) > Base(i)
    BY <2>1, Compared DEF Base
  <2>3. QS!Precedes(i) <=> pmem_cmp(pmem_block_map[left + 1], pmem_block_map[i + 1]) > 0
    BY DEF QS!Precedes, QS!At, QS!pmem_cmp, pmem_cmp
  <2> QED
    BY <1>2, <1>3, <1>4, <2>2, <2>3
<1>6. \A k \in (left + 1) .. p : Base(k) < Base(left)
  BY <1>1 DEF Sorting, Partitioned
<1>7. \A k \in (p + 1) .. (i - 1) : Base(k) >= Base(left)
  BY <1>1 DEF Sorting, Partitioned
<1>8. CASE Base(i) < Base(left)
  <2>1. p' = p + 1 /\ pmem_block_map' = QS!_qsort_swap(i, p + 1)
    BY <1>5, <1>8 DEF QS!Step
  <2>2. Swapped(i, p + 1)
    BY <1>4, <2>1, SwapSwaps
  <2>3. \A j \in Index : Base(j)' = IF j = i THEN Base(p + 1) ELSE IF j = p + 1 THEN Base(i) ELSE Base(j)
    BY <2>2 DEF Swapped
  <2>4. QS!TypeOK'
    <3>1. Len(pmem_block_map') = Size /\ pmem_block_map' \in Seq(Block(0 .. Space))
      BY <2>2 DEF Swapped, Size
    <3>2. p' \in 0 .. (Size - 1) /\ i' \in 0 .. Size
      BY <1>1, <1>2, <2>1
    <3> QED
      BY <1>1, <3>1, <3>2 DEF Sorting, QS!TypeOK, QS!n, Size
  <2>5. Stacked' /\ Shallow'
    BY <1>1, <2>2 DEF Sorting, Stacked, Shallow, Swapped
  <2>6. Settled'
    <3> SUFFICES ASSUME NEW k \in Index, NEW m \in Index, k < m, ~Together(k, m)'
                 PROVE  Base(k)' <= Base(m)'
      BY <2>2 DEF Settled, Swapped
    <3>1. ~({k, m} \subseteq left .. right) /\ ~Together(k, m)
      BY <1>1 DEF Together, QS!Span
    <3>2. Base(k) <= Base(m)
      BY <3>1 DEF Sorting, Settled
    <3> QED
      BY <1>2, <1>4, <2>2, <3>1, <3>2, SwapWithin
  <2>7. Partitioned'
    <3>1. Base(left)' = Base(left)
      <4>1. left \in Index /\ left # i /\ left # p + 1
        BY <1>2
      <4> QED
        BY <1>1, <2>3, <4>1 DEF Base
    <3>2. ASSUME NEW k \in (left + 1) .. (p + 1) PROVE Base(k)' < Base(left)
      <4>1. CASE k = p + 1
        BY <1>4, <1>8, <2>3, <4>1
      <4>2. CASE k # p + 1
        <5>1. k \in (left + 1) .. p /\ k \in Index /\ k # i
          BY <1>2, <4>2
        <5> QED
          BY <1>6, <2>3, <4>2, <5>1
      <4> QED
        BY <4>1, <4>2
    <3>3. ASSUME NEW k \in (p + 2) .. i PROVE Base(k)' >= Base(left)
      <4>1. k \in Index /\ k # p + 1
        BY <1>2, <1>4
      <4>2. CASE k = i
        <5>1. p + 1 \in (p + 1) .. (i - 1)
          BY <1>2, <4>2
        <5> QED
          BY <1>7, <2>3, <4>1, <4>2, <5>1
      <4>3. CASE k # i
        <5>1. k \in (p + 1) .. (i - 1)
          BY <1>2, <4>3
        <5> QED
          BY <1>7, <2>3, <4>1, <4>3, <5>1
      <4> QED
        BY <4>2, <4>3
    <3>4. p' \in left .. right /\ i' \in (p' + 1) .. (right + 1) /\ p' + 1 = p + 2 /\ i' - 1 = i
      BY <1>1, <1>2, <1>4, <2>1
    <3>5. ASSUME NEW k \in (left + 1) .. p' PROVE Base(k)' < Base(left)'
      BY <2>1, <3>1, <3>2
    <3>6. ASSUME NEW k \in (p' + 1) .. (i' - 1) PROVE Base(k)' >= Base(left)'
      BY <3>1, <3>3, <3>4
    <3> QED
      BY <1>1, <1>2, <3>4, <3>5, <3>6 DEF Partitioned, Base
  <2> QED
    BY <1>1, <2>2, <2>4, <2>5, <2>6, <2>7 DEF Sorting, Swapped
<1>9. CASE ~(Base(i) < Base(left))
  <2>1. UNCHANGED <<p, pmem_block_map>>
    BY <1>5, <1>9 DEF QS!Step
  <2>2. Size' = Size /\ Index' = Index /\ \A k : Base(k)' = Base(k)
    BY <2>1 DEF Size, Index, Base
  <2>3. QS!TypeOK'
    <3>1. i' \in 0 .. Size
      BY <1>1, <1>2
    <3> QED
      BY <1>1, <2>1, <2>2, <3>1 DEF Sorting, QS!TypeOK, QS!n, Size
  <2>4. Stacked' /\ Shallow' /\ IsPermutation(pmem_block_map, input)'
    BY <1>1, <2>1, <2>2 DEF Sorting, Stacked, Shallow
  <2>5. Settled'
    BY <1>1, <2>2 DEF Sorting, Settled, Together, QS!Span
  <2>6. Partitioned'
    <3>1. ASSUME NEW k \in (p + 1) .. i PROVE Base(k) >= Base(left)
      <4>1. CASE k = i
        BY <1>2, <1>3, <1>4, <1>9, <4>1
      <4>2. CASE k # i
        <5>1. k \in (p + 1) .. (i - 1)
          BY <1>2, <4>2
        <5> QED
          BY <1>7, <5>1
      <4> QED
        BY <4>1, <4>2
    <3>2. i' \in (p + 1) .. (right + 1) /\ i' - 1 = i
      BY <1>1, <1>2
    <3> QED
      BY <1>1, <1>2, <1>6, <2>1, <3>1, <3>2 DEF Partitioned, Base
  <2> QED
    BY <2>3, <2>4, <2>5, <2>6 DEF Sorting
<1> QED
  BY <1>8, <1>9

-----------------------------------------------------------------------------
(* The stack with the two calls of _qsort on it.                             *)
LEMMA Pushed ==
  ASSUME Sorting, QS!Recurse
  PROVE  /\ calls' \in Seq(Bounds(Size)) /\ Len(calls') = Len(calls) + 2
         /\ calls'[1] = QS!Below /\ calls'[2] = QS!Above
         /\ \A a \in 1 .. Len(calls) : calls'[a + 2] = calls[a]
<1> DEFINE two == <<QS!Below, QS!Above>>
<1>1. calls' = two \o calls /\ qpc = "partition"
  BY DEF QS!Recurse
<1>2. calls \in Seq(Bounds(Size)) /\ Len(calls) \in Nat
  BY SortTypes DEF Sorting, Bounds
<1>3. QS!Below \in Bounds(Size) /\ QS!Above \in Bounds(Size)
  <2>1. /\ left \in 0 .. (Size - 1) /\ right \in 0 .. (Size - 1) /\ p \in 0 .. (Size - 1)
        /\ Size \in Nat /\ depth \in Nat
    BY SortTypes DEF Sorting
  <2>2. p + 1 \in 0 .. Size /\ left \in 0 .. Size /\ depth + 1 \in Nat \ {0}
    BY <2>1
  <2>3. CASE p > 0
    <3>1. p - 1 \in 0 .. (Size - 1)
      BY <2>1, <2>3
    <3> QED
      BY <2>1, <2>2, <2>3, <3>1 DEF QS!Below, QS!Above, Bounds
  <2>4. CASE ~(p > 0)
    BY <2>1, <2>2, <2>4 DEF QS!Below, QS!Above, Bounds
  <2> QED
    BY <2>3, <2>4
<1>4. two \in Seq(Bounds(Size)) /\ Len(two) = 2 /\ two[1] = QS!Below /\ two[2] = QS!Above
  BY <1>3
<1> HIDE DEF two
<1>5. /\ two \o calls \in Seq(Bounds(Size)) /\ Len(two \o calls) = Len(two) + Len(calls)
      /\ \A a \in 1 .. Len(two) + Len(calls) :
           (two \o calls)[a] = IF a <= Len(two) THEN two[a] ELSE calls[a - Len(two)]
  BY <1>2, <1>4, ConcatProperties
<1>6. /\ Len(calls') = Len(calls) + 2
      /\ \A a \in 1 .. Len(calls) + 2 : calls'[a] = IF a <= 2 THEN two[a] ELSE calls[a - 2]
  BY <1>1, <1>2, <1>4, <1>5
<1>7. ASSUME NEW a \in 1 .. Len(calls) PROVE calls'[a + 2] = calls[a]
  <2>1. a + 2 \in 1 .. Len(calls) + 2 /\ ~(a + 2 <= 2) /\ (a + 2) - 2 = a
    BY <1>2
  <2> QED
    BY <1>6, <2>1
<1>8. calls'[1] = two[1] /\ calls'[2] = two[2]
  BY <1>2, <1>6
<1> QED
  BY <1>1, <1>4, <1>5, <1>6, <1>7, <1>8

(* The two calls are apart, and from those below them on the stack.          *)
LEMMA PushedApart ==
  ASSUME Sorting, QS!Recurse
  PROVE  \A a, b \in 1 .. Len(calls') : a < b => Apart(calls'[a], calls'[b], b - a)
<1> DEFINE low == QS!Below
           high == QS!Above
<1>0. /\ qpc = "partition" /\ Len(calls) \in Nat
      /\ left \in Nat /\ right \in Nat /\ p \in Nat /\ left <= p /\ p <= right
      /\ \A b \in 1 .. Len(calls) : calls[b].left \in Nat /\ right + 1 + b <= calls[b].left
  <2>1. qpc = "partition"
    BY DEF QS!Recurse
  <2>2. \A b \in 1 .. Len(calls) : right + 1 + b <= calls[b].left
    BY <2>1 DEF Sorting, Stacked
  <2> QED
    BY <2>1, <2>2, Running DEF Index
<1>1. /\ low.left = left /\ high.left = p + 1 /\ high.right = right /\ low.right \in Nat
      /\ left < low.right => low.right + 1 = p
  <2>1. CASE p > 0
    BY <1>0, <2>1 DEF QS!Below, QS!Above
  <2>2. CASE ~(p > 0)
    BY <1>0, <2>2 DEF QS!Below, QS!Above
  <2> QED
    BY <2>1, <2>2
<1> HIDE DEF low, high
<1>2. Apart(low, high, 1)
  BY <1>0, <1>1 DEF Apart
<1>3. ASSUME NEW b \in 1 .. Len(calls)
      PROVE  Apart(low, calls[b], b + 1) /\ Apart(high, calls[b], b)
  <2>1. calls[b].left \in Nat /\ right + 1 + b <= calls[b].left
    BY <1>0
  <2>2. left + (b + 1) <= calls[b].left /\ (p + 1) + b <= calls[b].left /\ p + 1 + b <= calls[b].left
    BY <1>0, <2>1
  <2>3. left < low.right => low.right + 1 + (b + 1) <= calls[b].left
    BY <1>0, <1>1, <2>1, SMTT(20)
  <2>4. Apart(low, calls[b], b + 1)
    BY <1>1, <2>2, <2>3 DEF Apart
  <2>5. Apart(high, calls[b], b)
    BY <1>1, <2>1, <2>2 DEF Apart
  <2> QED
    BY <2>4, <2>5
<1>4. ASSUME NEW a \in 1 .. Len(calls'), NEW b \in 1 .. Len(calls'), a < b
      PROVE  Apart(calls'[a], calls'[b], b - a)
  <2>0. /\ Len(calls') = Len(calls) + 2
        /\ calls'[1] = low /\ calls'[2] = high
        /\ \A j \in 1 .. Len(calls) : calls'[j + 2] = calls[j]
    BY Pushed DEF low, high
  <2>1. CASE b = 2
    <3>1. a = 1 /\ b - a = 1
      BY <1>4, <2>1
    <3> QED
      BY <1>2, <2>0, <2>1, <3>1
  <2>2. CASE b > 2
    <3> DEFINE c == b - 2
    <3>1. c \in 1 .. Len(calls) /\ c + 2 = b
      BY <1>0, <2>0, <2>2
    <3>2. calls'[b] = calls[c]
      BY <2>0, <3>1
    <3>3. CASE a = 1
      <4>1. b - a = c + 1
        BY <3>3
      <4> QED
        BY <1>3, <2>0, <3>1, <3>2, <3>3, <4>1
    <3>4. CASE a = 2
      <4>1. b - a = c
        BY <3>4
      <4> QED
        BY <1>3, <2>0, <3>1, <3>2, <3>4, <4>1
    <3>5. CASE a > 2
      <4> DEFINE d == a - 2
      <4>1. d \in 1 .. Len(calls) /\ d + 2 = a /\ d < c /\ c - d = b - a
        BY <1>0, <1>4, <2>0, <2>2, <3>5
      <4>2. calls'[a] = calls[d]
        BY <2>0, <4>1
      <4> HIDE DEF c, d
      <4>3. Apart(calls[d], calls[c], c - d)
        BY <3>1, <4>1 DEF Sorting, Stacked
      <4> QED
        BY <3>2, <4>1, <4>2, <4>3, Zenon
    <3> QED
      BY <3>3, <3>4, <3>5
  <2> QED
    BY <1>0, <1>4, <2>0, <2>1, <2>2
<1> QED
  BY <1>4

(* They are a frame deeper than the call they come from, on parts without    *)
(* its pivot.                                                                *)
LEMMA PushedShallow ==
  ASSUME Sorting, QS!Recurse
  PROVE  \A a \in 1 .. Len(calls') :
           /\ calls'[a].depth <= Size
           /\ calls'[a].depth + calls'[a].right <= Size + calls'[a].left
<1> DEFINE low == QS!Below
           high == QS!Above
<1>1. /\ qpc = "partition" /\ Size \in Nat /\ Len(calls) \in Nat
      /\ left \in Nat /\ right \in Nat /\ p \in Nat /\ depth \in Nat
      /\ left < right /\ left <= p /\ p <= right /\ depth + right <= Size + left
  <2>1. qpc = "partition"
    BY DEF QS!Recurse
  <2>2. depth + right <= Size + left
    BY <2>1 DEF Sorting, Shallow
  <2>3. depth \in Nat
    BY SortTypes DEF Sorting
  <2> QED
    BY <2>1, <2>2, <2>3, Running DEF Index
<1>2. high.depth <= Size /\ high.depth + high.right <= Size + high.left
  BY <1>1 DEF QS!Above
<1>3. low.depth <= Size /\ low.depth + low.right <= Size + low.left
  <2>1. CASE p > 0
    BY <1>1, <2>1 DEF QS!Below
  <2>2. CASE ~(p > 0)
    BY <1>1, <2>2 DEF QS!Below
  <2> QED
    BY <2>1, <2>2
<1> HIDE DEF low, high
<1>4. ASSUME NEW a \in 1 .. Len(calls')
      PROVE  calls'[a].depth <= Size /\ calls'[a].depth + calls'[a].right <= Size + calls'[a].left
  <2>1. /\ Len(calls') = Len(calls) + 2
        /\ calls'[1] = low /\ calls'[2] = high
        /\ \A j \in 1 .. Len(calls) : calls'[j + 2] = calls[j]
    BY Pushed DEF low, high
  <2>2. CASE a > 2
    <3>1. a - 2 \in 1 .. Len(calls) /\ (a - 2) + 2 = a
      BY <1>1, <1>4, <2>1, <2>2
    <3>2. calls'[a] = calls[a - 2]
      BY <2>1, <3>1
    <3> QED
      BY <3>1, <3>2 DEF Sorting, Shallow
  <2>3. CASE ~(a > 2)
    <3>1. a = 1 \/ a = 2
      BY <1>1, <1>4, <2>1, <2>3
    <3> QED
      BY <1>2, <1>3, <2>1, <3>1
  <2> QED
    BY <2>2, <2>3
<1> QED
  BY <1>4

(* The pivot goes to its place between the halves, and stays there.          *)
LEMMA RecurseKeeps ==
  ASSUME Sorting, QS!Recurse
  PROVE  Sorting'
<1>1. /\ qpc = "partition" /\ qpc' = "call" /\ i > right
      /\ pmem_block_map' = QS!_qsort_swap(left, p)
      /\ UNCHANGED <<input, left, right, p, i, depth>>
  BY DEF QS!Recurse
<1>2. /\ Size \in Nat \ {0} /\ left \in Index /\ right \in Index /\ p \in Index /\ left \in Nat
      /\ left < right /\ p \in left .. right /\ i \in (p + 1) .. (right + 1)
      /\ right <= Size - 1 /\ left .. right \subseteq Index
      /\ Fenced(left, right) /\ Len(calls) \in Nat
  BY <1>1, Running
<1>3. /\ i = right + 1 /\ i - 1 = right /\ left \in left .. right
      /\ \A k \in Index : k \in Nat
  BY <1>1, <1>2 DEF Index
<1>4. Swapped(left, p)
  BY <1>1, <1>2, SwapSwaps
<1>5. QS!TypeOK'
  <2>1. Len(pmem_block_map') = Size /\ pmem_block_map' \in Seq(Block(0 .. Space))
    BY <1>4 DEF Swapped, Size
  <2>2. calls' \in Seq(Bounds(Size))
    BY Pushed
  <2> QED
    BY <1>1, <2>1, <2>2 DEF Sorting, QS!TypeOK, QS!n, Size, Bounds
<1>6. Stacked'
  BY <1>1, PushedApart DEF Stacked
<1>7. \A j \in Index : Base(j) \in Nat /\ Base(j)' \in Nat
  BY <1>4, SortTypes DEF Sorting, Swapped
<1>8. ASSUME NEW k \in left .. p, NEW m \in p .. right, k < m
      PROVE  Base(k)' <= Base(m)'
  <2>0. \A j \in Index : Base(j)' = IF j = left THEN Base(p) ELSE IF j = p THEN Base(left) ELSE Base(j)
    BY <1>4 DEF Swapped
  <2>1. \A j \in (left + 1) .. p : Base(j) < Base(left)
    BY <1>1 DEF Sorting, Partitioned
  <2>2. \A j \in (p + 1) .. right : Base(j) >= Base(left)
    BY <1>1, <1>3 DEF Sorting, Partitioned
  <2>3. k \in Index /\ m \in Index
    BY <1>2
  <2>4. Base(k)' <= Base(left)
    <3>1. CASE k = left /\ p = left
      BY <1>2, <1>7, <2>0, <2>3, <3>1
    <3>2. CASE k = left /\ p # left
      <4>1. p \in (left + 1) .. p
        BY <1>2, <3>2
      <4>2. Base(p) < Base(left)
        BY <2>1, <4>1
      <4> QED
        BY <1>2, <1>7, <2>0, <2>3, <3>2, <4>2
    <3>3. CASE k # left /\ k = p
      BY <1>2, <1>7, <2>0, <2>3, <3>3
    <3>4. CASE k # left /\ k # p
      <4>1. k \in (left + 1) .. p
        BY <1>2, <3>4
      <4>2. Base(k) < Base(left)
        BY <2>1, <4>1
      <4> QED
        BY <1>2, <1>7, <2>0, <2>3, <3>4, <4>2
    <3> QED
      BY <3>1, <3>2, <3>3, <3>4
  <2>5. Base(m)' >= Base(left)
    <3>1. CASE m = p
      <4>1. m # left
        BY <1>2, <1>8, <3>1
      <4>2. Base(m)' = Base(left)
        BY <2>0, <2>3, <3>1, <4>1
      <4> QED
        BY <1>2, <1>7, <4>2
    <3>2. CASE m # p
      <4>1. m \in (p + 1) .. right /\ m # left
        BY <1>2, <3>2
      <4>2. Base(m) >= Base(left)
        BY <2>2, <4>1
      <4> QED
        BY <2>0, <2>3, <3>2, <4>1, <4>2
    <3> QED
      BY <3>1, <3>2
  <2> QED
    BY <1>2, <1>7, <2>3, <2>4, <2>5
<1>9. Settled'
  <2> SUFFICES ASSUME NEW k \in Index, NEW m \in Index, k < m, ~Together(k, m)'
               PROVE  Base(k)' <= Base(m)'
    BY <1>4 DEF Settled, Swapped
  <2>1. \A a \in 1 .. Len(calls') : ~({k, m} \subseteq QS!Span(calls'[a]))
    BY DEF Together, QS!Span
  <2>2. ~({k, m} \subseteq QS!Span(QS!Below)) /\ ~({k, m} \subseteq QS!Span(QS!Above))
    BY <1>2, <2>1, Pushed
  <2>3. CASE {k, m} \subseteq left .. right
    <3>1. k \in left .. right /\ m \in left .. right
      BY <2>3
    <3>2. ~(m < p)
      <4> SUFFICES ASSUME m < p PROVE FALSE
        OBVIOUS
      <4>1. p > 0 /\ k \in left .. (p - 1) /\ m \in left .. (p - 1)
        BY <1>2, <3>1
      <4> QED
        BY <2>2, <4>1 DEF QS!Below, QS!Span
    <3>3. ~(k > p)
      <4> SUFFICES ASSUME k > p PROVE FALSE
        OBVIOUS
      <4>1. k \in (p + 1) .. right /\ m \in (p + 1) .. right
        BY <1>2, <3>1
      <4> QED
        BY <2>2, <4>1 DEF QS!Above, QS!Span
    <3>4. k \in left .. p /\ m \in p .. right
      BY <1>2, <3>1, <3>2, <3>3
    <3> QED
      BY <1>8, <3>4
  <2>4. CASE ~({k, m} \subseteq left .. right)
    <3>1. ASSUME NEW a \in 1 .. Len(calls), {k, m} \subseteq QS!Span(calls[a]) PROVE FALSE
      <4>1. a + 2 \in 1 .. Len(calls') /\ calls'[a + 2] = calls[a]
        BY <1>2, Pushed
      <4> QED
        BY <2>1, <3>1, <4>1
    <3>2. Base(k) <= Base(m)
      BY <2>4, <3>1 DEF Sorting, Settled, Together
    <3> QED
      BY <1>2, <1>3, <1>4, <2>4, <3>2, SwapWithin
  <2> QED
    BY <2>3, <2>4
<1>10. Partitioned'
  BY <1>1 DEF Partitioned
<1>11. Shallow'
  BY <1>1, <1>4, PushedShallow DEF Sorting, Shallow, Swapped
<1> QED
  BY <1>1, <1>4, <1>5, <1>6, <1>9, <1>10, <1>11 DEF Sorting, Swapped

-----------------------------------------------------------------------------
(* What Pmem sees of the sort: nothing, until qsort returns.                 *)
APc == IF pc = "sort" THEN "gather" ELSE pc
AMap == IF pc = "sort" THEN input ELSE pmem_block_map

AP == INSTANCE PmemProofs WITH pc <- APc, pmem_block_map <- AMap

(* The assumption of PmemProofs holds.                                       *)
LEMMA AtomicAssumes == AP!PmemAssumption
  BY PmemAssumption DEF PmemAssumption, AP!PmemAssumption

(* It is Memory's Atomic that PmemProofs is about.                           *)
LEMMA SameSpec == AP!Spec <=> PmemSpec
<1> USE DEF APc, AMap
<1>1. AP!Init <=> Atomic!Init
  BY DEF AP!Init, Atomic!Init
<1>2. AP!Next <=> Atomic!Next
  <2>1. \A b, l, t : AP!Gather(b, l, t) <=> Atomic!Gather(b, l, t)
    BY DEF AP!Gather, Atomic!Gather, AP!Full, Atomic!Full, AP!pmem_blocks_count, Atomic!pmem_blocks_count,
           AP!AlignUp, Atomic!AlignUp, AP!AlignDown, Atomic!AlignDown,
           AP!PagesWithin, Atomic!PagesWithin, AP!Page, Atomic!Page
  <2>8. \A b, l, t : AP!Drop(b, l, t) <=> Atomic!Drop(b, l, t)
    BY DEF AP!Drop, Atomic!Drop, AP!Full, Atomic!Full, AP!pmem_blocks_count, Atomic!pmem_blocks_count,
           AP!PagesWithin, Atomic!PagesWithin, AP!Page, Atomic!Page
  <2>2. AP!Sort <=> Atomic!Sort
    <3>1. \A s, t : AP!IsPermutation(s, t) <=> Atomic!IsPermutation(s, t)
      BY DEF AP!IsPermutation, Atomic!IsPermutation, AP!Occurrences, Atomic!Occurrences,
             AP!Cardinality, Atomic!Cardinality
    <3>2. \A s : AP!IsSorted(s) <=> Atomic!IsSorted(s)
      BY DEF AP!IsSorted, Atomic!IsSorted, AP!pmem_cmp, Atomic!pmem_cmp
    <3> QED
      BY <3>1, <3>2 DEF AP!Sort, Atomic!Sort, AP!pmem_blocks_count, Atomic!pmem_blocks_count
  <2>3. AP!Merge <=> Atomic!Merge
    BY DEF AP!Merge, Atomic!Merge, AP!Indices, Atomic!Indices, AP!pmem_blocks_count, Atomic!pmem_blocks_count,
           AP!IsFirst, Atomic!IsFirst, AP!OverlappingPairs, Atomic!OverlappingPairs,
           AP!Overlap, Atomic!Overlap, AP!Union, Atomic!Union, AP!BlockAt, Atomic!BlockAt
  <2>4. AP!Summary <=> Atomic!Summary
    BY DEF AP!Summary, Atomic!Summary, AP!Indices, Atomic!Indices, AP!pmem_blocks_count, Atomic!pmem_blocks_count,
           AP!OverlappingPairs, Atomic!OverlappingPairs, AP!Overlap, Atomic!Overlap, AP!BlockAt, Atomic!BlockAt
  <2>5. AP!Alloc <=> Atomic!Alloc
    BY DEF AP!Alloc, Atomic!Alloc, AP!HasRoom, Atomic!HasRoom, AP!BlockAt, Atomic!BlockAt
  <2>6. AP!Underflow <=> Atomic!Underflow
    BY DEF AP!Underflow, Atomic!Underflow, AP!HasRoom, Atomic!HasRoom, AP!BlockAt, Atomic!BlockAt
  <2>7. AP!AllocWild <=> Atomic!AllocWild
    BY DEF AP!AllocWild, Atomic!AllocWild
  <2> QED
    BY <2>1, <2>2, <2>3, <2>4, <2>5, <2>6, <2>7, <2>8 DEF AP!Next, Atomic!Next
<1>3. [AP!Next]_(AP!vars) <=> [Atomic!Next]_(Atomic!vars)
  BY <1>2 DEF AP!vars, Atomic!vars
<1> QED
  BY <1>1, <1>3, PTL DEF AP!Spec, Atomic!Spec, PmemSpec

(* Outside the sort, a step of pmem is a step of the abstract one.           *)
LEMMA AloneSteps ==
  ASSUME Alone, pc # "sort"
  PROVE  AP!Next /\ pc' # "sort" /\ pc' \in {pc, "alloc", "wild"}
<1>1. pc' # "sort" /\ pc' \in {pc, "alloc", "wild"}
  BY DEF Alone, Gather, Drop, Merge, Summary, Alloc, Underflow, AllocWild
<1>2. APc = pc /\ APc' = pc' /\ AMap = pmem_block_map /\ AMap' = pmem_block_map'
  BY <1>1 DEF APc, AMap
<1>3. \A b, l, t : Gather(b, l, t) => AP!Gather(b, l, t)
  BY <1>2 DEF AP!Gather, Gather, AP!Full, Full, AP!pmem_blocks_count, pmem_blocks_count,
         AP!AlignUp, AlignUp, AP!AlignDown, AlignDown, AP!PagesWithin, PagesWithin, AP!Page, Page
<1>9. \A b, l, t : Drop(b, l, t) => AP!Drop(b, l, t)
  BY <1>2 DEF AP!Drop, Drop, AP!Full, Full, AP!pmem_blocks_count, pmem_blocks_count,
         AP!PagesWithin, PagesWithin, AP!Page, Page
<1>4. Merge => AP!Merge
  <2>1. AP!OverlappingPairs = OverlappingPairs /\ AP!Indices = Indices /\ AP!pmem_blocks_count = pmem_blocks_count
    BY <1>2 DEF AP!Indices, Indices, AP!pmem_blocks_count, pmem_blocks_count,
           AP!OverlappingPairs, OverlappingPairs, AP!Overlap, Overlap, AP!BlockAt, BlockAt
  <2>2. \A ij : AP!IsFirst(ij) <=> IsFirst(ij)
    BY <2>1 DEF AP!IsFirst, IsFirst
  <2>3. \A k, m : AP!Union(AP!BlockAt(k), AP!BlockAt(m)) = Union(BlockAt(k), BlockAt(m))
    BY <1>2 DEF AP!Union, Union, AP!BlockAt, BlockAt
  <2>4. SUFFICES ASSUME Merge PROVE AP!Merge
    OBVIOUS
  <2>5. PICK ij \in Indices \X Indices :
          /\ IsFirst(ij)
          /\ pmem_block_map' = [k \in 1 .. (pmem_blocks_count - 1) |->
                                  IF k = ij[1] + 1 THEN Union(BlockAt(ij[1]), BlockAt(ij[2]))
                                  ELSE IF k <= ij[2] THEN pmem_block_map[k]
                                  ELSE pmem_block_map[k + 1]]
    BY <2>4 DEF Merge
  <2>6. AMap' = [k \in 1 .. (AP!pmem_blocks_count - 1) |->
                   IF k = ij[1] + 1 THEN AP!Union(AP!BlockAt(ij[1]), AP!BlockAt(ij[2]))
                   ELSE IF k <= ij[2] THEN AMap[k]
                   ELSE AMap[k + 1]]
    BY <1>2, <2>1, <2>3, <2>5
  <2>7. ij \in AP!Indices \X AP!Indices /\ AP!IsFirst(ij)
    BY <2>1, <2>2, <2>5
  <2>8. APc = "merge" /\ UNCHANGED <<APc, entries, pmem_current_block, ram, dropped, allocated, wild>>
    BY <1>2, <2>4 DEF Merge
  <2> QED
    BY <2>6, <2>7, <2>8 DEF AP!Merge
<1>5. Summary => AP!Summary
  BY <1>2 DEF AP!Summary, Summary, AP!Indices, Indices, AP!pmem_blocks_count, pmem_blocks_count,
         AP!OverlappingPairs, OverlappingPairs, AP!Overlap, Overlap, AP!BlockAt, BlockAt
<1>6. Alloc => AP!Alloc
  BY <1>2 DEF AP!Alloc, Alloc, AP!HasRoom, HasRoom, AP!BlockAt, BlockAt
<1>7. Underflow => AP!Underflow
  BY <1>2 DEF AP!Underflow, Underflow, AP!HasRoom, HasRoom, AP!BlockAt, BlockAt
<1>8. AllocWild => AP!AllocWild
  BY <1>2 DEF AP!AllocWild, AllocWild
<1> QED
  BY <1>1, <1>3, <1>4, <1>5, <1>6, <1>7, <1>8, <1>9 DEF Alone, AP!Next

-----------------------------------------------------------------------------
(* Orders and permutations are the same for both.                            *)
LEMMA SameOrder ==
  /\ \A s, e : AP!Occurrences(s, e) = Occurrences(s, e)
  /\ \A s, t : AP!IsPermutation(s, t) <=> IsPermutation(s, t)
  /\ \A s : AP!IsSorted(s) <=> IsSorted(s)
<1>1. \A s, e : AP!Occurrences(s, e) = Occurrences(s, e)
  BY DEF AP!Occurrences, Occurrences, AP!Cardinality, Cardinality
<1>2. \A s, t : AP!IsPermutation(s, t) <=> IsPermutation(s, t)
  BY <1>1 DEF AP!IsPermutation, IsPermutation
<1>3. \A s : AP!IsSorted(s) <=> IsSorted(s)
  BY DEF AP!IsSorted, IsSorted, AP!pmem_cmp, pmem_cmp
<1> QED
  BY <1>1, <1>2, <1>3

(* The array holds the blocks it held when qsort was called.                 *)
LEMMA SameBlocks ==
  ASSUME Sorting, pc = "sort", AP!PInv
  PROVE  /\ DOMAIN input = 1 .. Size /\ Len(input) = Size
         /\ \A k \in 1 .. Size : \E m \in 1 .. Size : pmem_block_map[k] = input[m]
         /\ \A k \in 1 .. Size : \E m \in 1 .. Size : input[k] = pmem_block_map[m]
<1>1. AMap = input
  BY DEF AMap
<1>2. /\ Size \in Nat \ {0} /\ DOMAIN pmem_block_map = 1 .. Size
  BY SortTypes DEF Sorting
<1>3. DOMAIN input = 1 .. Size /\ Len(input) = Size
  <2>1. DOMAIN input = 1 .. Size
    BY <1>2 DEF Sorting, IsPermutation
  <2>2. input \in Seq(AP!Block(0 .. Space))
    BY <1>1 DEF AP!PInv, AP!TypeOK
  <2>3. Len(input) \in Nat /\ DOMAIN input = 1 .. Len(input)
    BY <2>2, LenProperties
  <2> QED
    BY <1>2, <2>1, <2>3
<1>4. ASSUME NEW k \in 1 .. Size, NEW e \in {pmem_block_map[k], input[k]}
      PROVE  (\A m \in 1 .. Size : pmem_block_map[m] # e) <=> (\A m \in 1 .. Size : input[m] # e)
  <2>1. Occurrences(pmem_block_map, e) = Occurrences(input, e)
    BY <1>2 DEF Sorting, IsPermutation
  <2>2. AP!Occurrences(pmem_block_map, e) = AP!Occurrences(input, e)
    BY <2>1, SameOrder
  <2>3. AP!Occurrences(pmem_block_map, e) = 0 <=> \A m \in 1 .. Size : pmem_block_map[m] # e
    BY <1>2, AP!Occurs, AtomicAssumes
  <2>4. AP!Occurrences(input, e) = 0 <=> \A m \in 1 .. Size : input[m] # e
    BY <1>2, <1>3, AP!Occurs, AtomicAssumes
  <2> QED
    BY <2>2, <2>3, <2>4
<1>5. ASSUME NEW k \in 1 .. Size PROVE \E m \in 1 .. Size : pmem_block_map[k] = input[m]
  BY <1>4
<1>6. ASSUME NEW k \in 1 .. Size PROVE \E m \in 1 .. Size : input[k] = pmem_block_map[m]
  BY <1>4
<1> QED
  BY <1>3, <1>5, <1>6

(* When qsort returns, nothing is left that a call has still to put in       *)
(* order: the array is a sorted permutation of what it was.                  *)
LEMMA ReturnSorts ==
  ASSUME Sorting, pc = "sort", AP!PInv, SortReturns
  PROVE  AP!Sort
<1>1. /\ qpc = "call" /\ calls = <<>> /\ pc' = "merge"
      /\ UNCHANGED <<pmem_block_map, entries, pmem_current_block, ram, dropped, allocated, wild>>
  BY DEF SortReturns, QS!Returned, pmemVars
<1>2. APc = "gather" /\ APc' = "merge" /\ AMap = input /\ AMap' = pmem_block_map
  BY <1>1 DEF APc, AMap
<1>3. /\ Size \in Nat \ {0} /\ DOMAIN pmem_block_map = 1 .. Size
      /\ \A k \in 1 .. Size : pmem_block_map[k] \in Block(0 .. Space)
      /\ pmem_block_map \in Seq(Block(0 .. Space))
  BY SortTypes DEF Sorting
<1>4. DOMAIN input = 1 .. Size /\ Len(input) = Size
  BY SameBlocks
<1>5. \A k \in 1 .. Size : \E m \in 1 .. Size : pmem_block_map[k] = input[m]
  BY SameBlocks
<1>6. IsSorted(pmem_block_map)
  <2> SUFFICES ASSUME NEW j \in 1 .. Size, NEW k \in 1 .. Size, j < k
               PROVE  pmem_cmp(pmem_block_map[j], pmem_block_map[k]) <= 0
    BY <1>3 DEF IsSorted
  <2>1. j - 1 \in Index /\ k - 1 \in Index /\ j - 1 < k - 1 /\ (j - 1) + 1 = j /\ (k - 1) + 1 = k
    BY <1>3 DEF Index
  <2>2. ~Together(j - 1, k - 1)
    BY <1>1 DEF Together
  <2>3. Base(j - 1) <= Base(k - 1)
    BY <2>1, <2>2 DEF Sorting, Settled
  <2>4. pmem_block_map[j].base <= pmem_block_map[k].base
    BY <2>1, <2>3 DEF Base
  <2> QED
    BY <1>3, <2>4, Compared
<1>7. pmem_block_map \in [1 .. Size -> {input[m] : m \in DOMAIN input}]
  <2>1. \A k \in 1 .. Size : pmem_block_map[k] \in {input[m] : m \in DOMAIN input}
    BY <1>4, <1>5
  <2>2. pmem_block_map = [k \in 1 .. Size |-> pmem_block_map[k]]
    BY <1>3
  <2> QED
    BY <2>1, <2>2
<1>8. AP!IsPermutation(pmem_block_map, input) /\ AP!IsSorted(pmem_block_map)
  BY <1>6, SameOrder DEF Sorting
<1> QED
  BY <1>1, <1>2, <1>3, <1>4, <1>7, <1>8 DEF AP!Sort, AP!pmem_blocks_count

(* qsort is called on the whole table.                                       *)
LEMMA SortBegins ==
  ASSUME MInv, AP!PInv, CallSort
  PROVE  Sorting'
<1>1. /\ pc = "gather" /\ Len(pmem_block_map) > 0 /\ input' = pmem_block_map
      /\ calls' = <<QS!FirstCall>>
      /\ UNCHANGED <<pmem_block_map, left, right, p, i, depth, qpc>>
      /\ qpc = "call" /\ left = 0 /\ right = 0 /\ p = 0 /\ i = 0 /\ depth = 0
  BY DEF CallSort, MInv, Idle, pmem_blocks_count
<1>2. AMap = pmem_block_map
  BY <1>1 DEF AMap
<1>3. pmem_block_map \in Seq(Block(0 .. Space)) /\ Size \in 1 .. MAX_PMEM_ENTRIES
  <2>1. AP!TypeOK
    BY DEF AP!PInv
  <2>2. pmem_block_map \in Seq(Block(0 .. Space)) /\ Len(pmem_block_map) <= MAX_PMEM_ENTRIES
    BY <1>2, <2>1 DEF AP!TypeOK, AP!pmem_blocks_count, AP!Block, Block
  <2>3. Len(pmem_block_map) \in Nat
    BY <2>2, LenProperties
  <2> QED
    BY <1>1, <2>2, <2>3, PmemAssumption DEF Size, PmemAssumption
<1>4. Size \in Nat /\ Size > 0 /\ Size' = Size /\ Index' = Index
  BY <1>1, <1>3 DEF Size, Index
<1>5. /\ Len(calls') = 1 /\ calls' \in Seq(Bounds(Size))
      /\ calls'[1] = [left |-> 0, right |-> Size - 1, depth |-> 1]
  <2>1. QS!FirstCall = [left |-> 0, right |-> Size - 1, depth |-> 1]
    BY DEF QS!FirstCall, QS!n, Size
  <2>2. QS!FirstCall \in Bounds(Size)
    BY <1>4, <2>1 DEF Bounds
  <2> QED
    BY <1>1, <2>1, <2>2
<1>6. QS!TypeOK'
  BY <1>1, <1>3, <1>4, <1>5 DEF QS!TypeOK, QS!n, Size, Bounds
<1>7. Stacked' /\ Partitioned' /\ Shallow'
  BY <1>1, <1>4, <1>5 DEF Stacked, Partitioned, Shallow
<1>8. Settled'
  <2>1. ASSUME NEW k \in Index, NEW m \in Index PROVE Together(k, m)'
    <3>1. {k, m} \subseteq QS!Span(calls'[1])
      BY <1>4, <1>5 DEF Index, QS!Span
    <3> QED
      BY <1>5, <3>1 DEF Together, QS!Span
  <2> QED
    BY <1>4, <2>1 DEF Settled
<1>9. IsPermutation(pmem_block_map, input)'
  BY <1>1 DEF IsPermutation
<1> QED
  BY <1>6, <1>7, <1>8, <1>9 DEF Sorting

-----------------------------------------------------------------------------
(* Both invariants together are inductive.  Each needs the other where qsort *)
(* is called and where it returns.                                           *)
Joint == MInv /\ AP!PInv

(* Both invariants hold at the start.                                        *)
LEMMA InitJoint == MemInit => Joint /\ AP!Init
<1> SUFFICES ASSUME MemInit PROVE Joint /\ AP!Init
  OBVIOUS
<1>1. MInv
  BY DEF MemInit, Init, MInv
<1>2. AP!Init
  BY DEF MemInit, Init, AP!Init, APc, AMap
<1>3. AP!PInv
  BY <1>2, AP!InitPInv, AtomicAssumes
<1> QED
  BY <1>1, <1>2, <1>3 DEF Joint

(* A step of the sort is none of Pmem, until the last.                       *)
LEMMA StepsImplement ==
  ASSUME Joint, [MemNext]_<<vars, sortVars>>
  PROVE  [AP!Next]_(AP!vars)
<1>1. CASE Alone
  <2>1. pc # "sort"
    BY <1>1 DEF Alone, Gather, Drop, Merge, Summary, Alloc, Underflow, AllocWild
  <2> QED
    BY <1>1, <2>1, AloneSteps
<1>2. CASE CallSort
  <2>1. APc' = APc /\ AMap' = AMap
    BY <1>2 DEF CallSort, APc, AMap
  <2> QED
    BY <1>2, <2>1 DEF CallSort, AP!vars, pmemVars
<1>3. CASE SortStep
  <2>1. APc' = APc /\ AMap' = AMap
    BY <1>3 DEF SortStep, APc, AMap, QS!Return, QS!Call, QS!Step, QS!Recurse
  <2> QED
    BY <1>3, <2>1 DEF SortStep, AP!vars, pmemVars
<1>4. CASE SortReturns
  <2>1. Sorting /\ pc = "sort"
    BY <1>4 DEF SortReturns, Joint, MInv
  <2>2. AP!Sort
    BY <1>4, <2>1, ReturnSorts DEF Joint
  <2> QED
    BY <2>2 DEF AP!Next
<1>5. CASE UNCHANGED <<vars, sortVars>>
  BY <1>5 DEF vars, sortVars, AP!vars, APc, AMap
<1> QED
  BY <1>1, <1>2, <1>3, <1>4, <1>5 DEF MemNext

(* Every step keeps both.                                                    *)
LEMMA StepJoint ==
  ASSUME Joint, [MemNext]_<<vars, sortVars>>
  PROVE  Joint'
<1>1. AP!PInv'
  BY StepsImplement, AP!StepPInv, AtomicAssumes DEF Joint
<1>2. MInv'
  <2>1. CASE Alone
    <3>1. pc # "sort"
      BY <2>1 DEF Alone, Gather, Drop, Merge, Summary, Alloc, Underflow, AllocWild
    <3>2. pc' # "sort" /\ pc' \in {pc, "alloc", "wild"}
      BY <2>1, <3>1, AloneSteps
    <3>3. UNCHANGED sortVars
      BY <2>1 DEF Alone
    <3> QED
      BY <3>1, <3>2, <3>3 DEF Joint, MInv, Idle, sortVars
  <2>2. CASE CallSort
    <3>1. Sorting'
      BY <2>2, SortBegins DEF Joint
    <3> QED
      BY <2>2, <3>1 DEF MInv, CallSort
  <2>3. CASE SortStep
    <3>1. pc = "sort" /\ pc' = "sort" /\ Sorting
      BY <2>3 DEF SortStep, Joint, MInv
    <3>2. QS!Return \/ QS!Call \/ QS!Step \/ QS!Recurse
      BY <2>3 DEF SortStep
    <3>3. Sorting'
      BY <3>1, <3>2, ReturnKeeps, CallKeeps, RoundKeeps, RecurseKeeps
    <3> QED
      BY <3>1, <3>3 DEF MInv
  <2>4. CASE SortReturns
    BY <2>4 DEF SortReturns, MInv, Idle, QS!Returned
  <2>5. CASE UNCHANGED <<vars, sortVars>>
    <3>1. /\ UNCHANGED <<pc, pmem_block_map, input, calls, left, right, p, i, depth, qpc>>
      BY <2>5 DEF vars, sortVars
    <3>2. Size' = Size /\ Index' = Index /\ \A k : Base(k)' = Base(k)
      BY <3>1 DEF Size, Index, Base
    <3>3. Sorting => Sorting'
      BY <3>1, <3>2 DEF Sorting, QS!TypeOK, QS!n, Stacked, Settled, Together, QS!Span, Partitioned, Shallow, Base
    <3> QED
      BY <3>1, <3>3 DEF Joint, MInv, Idle
  <2> QED
    BY <2>1, <2>2, <2>3, <2>4, <2>5 DEF MemNext
<1> QED
  BY <1>1, <1>2 DEF Joint

(* So they hold in every reachable state.                                    *)
LEMMA AlwaysJoint == MemSpec => []Joint
<1>1. MemInit => Joint
  BY InitJoint
<1>2. Joint /\ [MemNext]_<<vars, sortVars>> => Joint'
  BY StepJoint
<1> QED
  BY <1>1, <1>2, PTL DEF MemSpec

-----------------------------------------------------------------------------
(* pmem_init with the real qsort does what Pmem says of it: for every memory *)
(* map, with any number of blocks, of equal bases, in any order, the table   *)
(* is a sorted permutation of what was gathered when qsort returns.          *)
THEOREM SortImplementsPmem == MemSpec => PmemSpec
<1>1. MemInit => AP!Init
  BY InitJoint
<1>2. Joint /\ [MemNext]_<<vars, sortVars>> => [AP!Next]_(AP!vars)
  BY StepsImplement
<1>3. MemSpec => AP!Spec
  BY <1>1, <1>2, AlwaysJoint, PTL DEF MemSpec, AP!Spec
<1> QED
  BY <1>3, SameSpec

(* Parts of two calls, the later one on the stack behind the earlier one.    *)
LEMMA SpansApart ==
  ASSUME Sorting, NEW a \in 1 .. Len(calls), NEW b \in 1 .. Len(calls), a < b,
         NEW k \in QS!Span(calls[a]), NEW m \in QS!Span(calls[b])
  PROVE  k < m
<1>1. /\ a \in Int /\ b \in Int
      /\ calls[a].left \in Nat /\ calls[a].right \in Nat /\ calls[b].left \in Nat /\ calls[b].right \in Nat
  BY SortTypes, SMTT(20) DEF Sorting
<1>2. k \in calls[a].left .. calls[a].right /\ m \in calls[b].left .. calls[b].right
  BY DEF QS!Span
<1>3. Apart(calls[a], calls[b], b - a)
  BY DEF Sorting, Stacked
<1>4. CASE calls[a].left < calls[a].right
  <2>1. calls[a].right + 1 + (b - a) <= calls[b].left
    BY <1>3, <1>4 DEF Apart
  <2> QED
    BY <1>1, <1>2, <2>1
<1>5. CASE ~(calls[a].left < calls[a].right)
  <2>1. calls[a].left + (b - a) <= calls[b].left
    BY <1>3 DEF Apart
  <2>2. k = calls[a].left
    BY <1>1, <1>2, <1>5
  <2> QED
    BY <1>1, <1>2, <2>1, <2>2
<1> QED
  BY <1>4, <1>5

(* The calls of _qsort that are still to come work on separate parts of the  *)
(* array, and no block will have to move from one part to another.           *)
THEOREM PartsAreSeparate == MemSpec => []PartsSeparate
<1>1. ASSUME Sorting, NEW a \in 1 .. Len(calls), NEW b \in 1 .. Len(calls), a < b,
             NEW k \in QS!Span(calls[a]), NEW m \in QS!Span(calls[b])
      PROVE  k < m /\ pmem_cmp(pmem_block_map[k + 1], pmem_block_map[m + 1]) <= 0
  <2>1. k < m
    BY <1>1, SpansApart
  <2>2. /\ Size \in Nat \ {0}
        /\ calls[a].left \in 0 .. Size /\ calls[a].right \in 0 .. (Size - 1)
        /\ calls[b].left \in 0 .. Size /\ calls[b].right \in 0 .. (Size - 1)
        /\ \A j \in 1 .. Size : pmem_block_map[j] \in Block(0 .. Space)
    BY <1>1, SortTypes DEF Sorting
  <2>3. k \in calls[a].left .. calls[a].right /\ m \in calls[b].left .. calls[b].right
    BY DEF QS!Span
  <2>4. k \in Index /\ m \in Index /\ k + 1 \in 1 .. Size /\ m + 1 \in 1 .. Size
    BY <2>2, <2>3, SMTT(40) DEF Index
  <2>5. ASSUME NEW c \in 1 .. Len(calls), {k, m} \subseteq QS!Span(calls[c]) PROVE FALSE
    <3>0. k \in Int /\ m \in Int
      BY <2>2, <2>3
    <3>1. ~(c < a) /\ ~(a < c)
      <4>1. c < a => k < k
        BY <1>1, <2>5, SpansApart
      <4>2. a < c => k < k
        BY <1>1, <2>5, SpansApart
      <4> QED
        BY <3>0, <4>1, <4>2
    <3>2. ~(c < b)
      <4>1. c < b => m < m
        BY <1>1, <2>5, SpansApart
      <4> QED
        BY <3>0, <4>1
    <3> QED
      BY <1>1, <3>1, <3>2
  <2>6. ASSUME qpc = "partition", {k, m} \subseteq left .. right PROVE FALSE
    <3>1. right + 1 + b <= calls[b].left
      BY <1>1, <2>6 DEF Sorting, Stacked
    <3>2. right \in Nat
      BY <1>1, SortTypes DEF Sorting
    <3> QED
      BY <2>2, <2>3, <2>6, <3>1, <3>2
  <2>7. Base(k) <= Base(m)
    BY <1>1, <2>1, <2>4, <2>5, <2>6 DEF Sorting, Settled, Together
  <2>8. pmem_cmp(pmem_block_map[k + 1], pmem_block_map[m + 1]) <= 0
    BY <2>2, <2>4, <2>7, Compared DEF Base
  <2> QED
    BY <2>1, <2>8
<1>2. Sorting => PartsSeparate
  BY <1>1 DEF PartsSeparate, QS!PartsSeparate, QS!At, QS!pmem_cmp, pmem_cmp
<1>3. Idle => PartsSeparate
  BY DEF Idle, PartsSeparate, QS!PartsSeparate
<1>4. Joint => PartsSeparate
  BY <1>2, <1>3 DEF Joint, MInv
<1> QED
  BY <1>4, AlwaysJoint, PTL

(* There are never more frames of _qsort on the stack than the table has     *)
(* blocks, those included that wait for their second call.                   *)
THEOREM RecursionBounded == MemSpec => []DepthBounded
<1>1. Joint => DepthBounded
  BY DEF Joint, MInv, Sorting, Shallow, DepthBounded, QS!DepthBounded, QS!n, Size
<1> QED
  BY <1>1, AlwaysJoint, PTL

(* Pmem's types hold whenever qsort does not run, and qsort's when it does.  *)
THEOREM TypeCorrect == MemSpec => []MemTypeOK
<1>1. ASSUME Joint, pc # "sort" PROVE TypeOK
  <2>1. APc = pc /\ AMap = pmem_block_map
    BY <1>1 DEF APc, AMap
  <2> QED
    BY <1>1, <2>1 DEF Joint, AP!PInv, AP!TypeOK, TypeOK, AP!Block, Block, AP!Page, Page,
           AP!Indices, Indices, AP!pmem_blocks_count, pmem_blocks_count
<1>2. Joint => MemTypeOK
  BY <1>1 DEF Joint, MInv, Sorting, MemTypeOK
<1> QED
  BY <1>2, AlwaysJoint, PTL

-----------------------------------------------------------------------------
(* What PmemProofs shows holds of pmem_init with the real qsort.  While it   *)
(* sorts, the pages are those of the blocks, in whatever order they are.     *)
LEMMA SameFree == Joint => AP!Free = Free
<1> SUFFICES ASSUME Joint PROVE AP!Free = Free
  OBVIOUS
<1>0. \A b : AP!Pages(b) = Pages(b)
  BY DEF AP!Pages, Pages, AP!PagesWithin, PagesWithin, AP!Page, Page
<1>1. CASE pc # "sort"
  <2>1. AMap = pmem_block_map
    BY <1>1 DEF AMap
  <2> QED
    BY <1>0, <2>1 DEF AP!Free, Free
<1>2. CASE pc = "sort"
  <2>1. AMap = input /\ Sorting /\ AP!PInv
    BY <1>2 DEF AMap, Joint, MInv
  <2>2. /\ DOMAIN input = 1 .. Size /\ DOMAIN pmem_block_map = 1 .. Size
        /\ \A k \in 1 .. Size : \E m \in 1 .. Size : pmem_block_map[k] = input[m]
        /\ \A k \in 1 .. Size : \E m \in 1 .. Size : input[k] = pmem_block_map[m]
    BY <1>2, <2>1, SameBlocks, SortTypes DEF Sorting
  <2>3. {Pages(input[k]) : k \in 1 .. Size} = {Pages(pmem_block_map[k]) : k \in 1 .. Size}
    BY <2>2
  <2>4. AP!Free = UNION {Pages(input[k]) : k \in 1 .. Size}
    BY <1>0, <2>1, <2>2 DEF AP!Free
  <2>5. Free = UNION {Pages(pmem_block_map[k]) : k \in 1 .. Size}
    BY <2>2 DEF Free
  <2> QED
    BY <2>3, <2>4, <2>5
<1> QED
  BY <1>1, <1>2

(* The same in the state after a step.                                       *)
LEMMA SameFreeNext == Joint' => (AP!Free = Free)'
  BY SameFree, PTL

(* Also while qsort works on the table, every usable page of the entries     *)
(* read is in a block of it or handed out, never both, and pages of the map  *)
(* are lost only when it has more entries than the table has room for.       *)
THEOREM PagesAccounted == MemSpec => []Accounted
<1>1. Joint => Accounted
  BY SameFree DEF Joint, AP!PInv, AP!Accounted, Accounted
<1> QED
  BY <1>1, AlwaysJoint, PTL

(* With the real qsort, the blocks that pmem_init leaves are in ascending    *)
(* order and disjoint.                                                       *)
THEOREM BlocksApart == MemSpec => []BlocksDisjoint
<1>1. MemSpec => []AP!BlocksDisjoint
  BY SortImplementsPmem, SameSpec, AP!BlocksApart, AtomicAssumes, PTL
<1>2. AP!BlocksDisjoint => BlocksDisjoint
  <2>1. pc # "sort" => APc = pc /\ AMap = pmem_block_map
    BY DEF APc, AMap
  <2> QED
    BY <2>1 DEF AP!BlocksDisjoint, BlocksDisjoint, AP!Indices, Indices, AP!pmem_blocks_count,
         pmem_blocks_count, AP!BlockAt, BlockAt
<1> QED
  BY <1>1, <1>2, PTL

(* With the real qsort, the allocator gives up only when every page was      *)
(* handed out.                                                               *)
THEOREM EveryPageServed == MemSpec => []NothingStranded
<1>1. MemSpec => []AP!NothingStranded
  BY SortImplementsPmem, SameSpec, AP!EveryPageServed, AtomicAssumes, PTL
<1>2. AP!NothingStranded => NothingStranded
  BY DEF AP!NothingStranded, NothingStranded
<1> QED
  BY <1>1, <1>2, PTL

(* With the real qsort, every call of pmem_alloc_page hands out a usable     *)
(* page that was never handed out before.                                    *)
THEOREM PagesFresh == MemSpec => AllocFresh
<1>1. MemSpec => AP!AllocFresh
  BY SortImplementsPmem, SameSpec, AP!PagesFresh, AtomicAssumes, PTL
<1> DEFINE Fresh == \E q \in ram \ allocated :
                      allocated' = allocated \cup {q} /\ Free' = Free \ {q}
           FreshBelow == \E q \in ram \ allocated :
                      allocated' = allocated \cup {q} /\ AP!Free' = AP!Free \ {q}
<1>2. ASSUME Joint, Joint', [AP!Alloc => FreshBelow]_(AP!vars)
      PROVE  [Alloc => Fresh]_vars
  <2> SUFFICES ASSUME Alloc, vars' # vars PROVE Fresh
    BY Zenon DEF vars
  <2>1. pc = "alloc" /\ pc' = "alloc"
    BY DEF Alloc
  <2>2. APc = pc /\ APc' = pc' /\ AMap = pmem_block_map /\ AMap' = pmem_block_map'
    BY <2>1 DEF APc, AMap
  <2>3. AP!Alloc
    BY <2>2 DEF AP!Alloc, Alloc, AP!HasRoom, HasRoom, AP!BlockAt, BlockAt
  <2>4. ~UNCHANGED AP!vars
    BY <2>2 DEF AP!vars, vars
  <2>5. FreshBelow
    BY <1>2, <2>3, <2>4
  <2>6. AP!Free = Free /\ AP!Free' = Free'
    BY <1>2, SameFree, SameFreeNext
  <2> QED
    BY <2>5, <2>6
<1> QED
  BY <1>1, <1>2, AlwaysJoint, PTL DEF MemSpec, AP!AllocFresh, AllocFresh
=============================================================================
