------------------------------ MODULE PmemProofs ------------------------------
(***************************************************************************)
(* Physical memory: for every page size, every memory map and every order  *)
(* and nesting of its entries, the pages of the map are handed out one     *)
(* after the other, each once, until none is left.                         *)
(***************************************************************************)
EXTENDS Pmem, TLAPS, SequenceTheorems, FiniteSetTheorems

-----------------------------------------------------------------------------
(* Multiplying by the page size keeps the order.                             *)
LEMMA TimesPage ==
  ASSUME NEW a \in Int, NEW b \in Int
  PROVE  /\ a * PAGE_SIZE \in Int
         /\ a < b => a * PAGE_SIZE + PAGE_SIZE <= b * PAGE_SIZE
         /\ a <= b <=> a * PAGE_SIZE <= b * PAGE_SIZE
         /\ a = b <=> a * PAGE_SIZE = b * PAGE_SIZE
         /\ (a + 1) * PAGE_SIZE = a * PAGE_SIZE + PAGE_SIZE
         /\ (a - 1) * PAGE_SIZE = a * PAGE_SIZE - PAGE_SIZE
<1>0. PAGE_SIZE \in Nat /\ PAGE_SIZE >= 1
  BY PmemAssumption DEF PmemAssumption
<1>1. \A c, d \in Int : c < d => c * PAGE_SIZE + PAGE_SIZE <= d * PAGE_SIZE
  <2> SUFFICES ASSUME NEW c \in Int, NEW d \in Int, c < d
               PROVE  c * PAGE_SIZE + PAGE_SIZE <= d * PAGE_SIZE
    OBVIOUS
  <2>1. (d - c - 1) * PAGE_SIZE >= 0
    BY <1>0
  <2>2. (d - c - 1) * PAGE_SIZE = d * PAGE_SIZE - c * PAGE_SIZE - PAGE_SIZE
    BY <1>0
  <2>3. c * PAGE_SIZE \in Int /\ d * PAGE_SIZE \in Int
    BY <1>0
  <2> QED
    BY <1>0, <2>1, <2>2, <2>3
<1>2. a * PAGE_SIZE \in Int /\ b * PAGE_SIZE \in Int
  BY <1>0
<1>3. a < b => a * PAGE_SIZE + PAGE_SIZE <= b * PAGE_SIZE
  BY <1>1
<1>4. b < a => b * PAGE_SIZE + PAGE_SIZE <= a * PAGE_SIZE
  BY <1>1
<1>5. (a + 1) * PAGE_SIZE = a * PAGE_SIZE + PAGE_SIZE /\ (a - 1) * PAGE_SIZE = a * PAGE_SIZE - PAGE_SIZE
  BY <1>0
<1> QED
  BY <1>0, <1>2, <1>3, <1>4, <1>5

(* The same, for every pair of numbers of pages. *)
LEMMA PageOrder ==
  \A a, b \in Int : a <= b <=> a * PAGE_SIZE <= b * PAGE_SIZE
<1> SUFFICES ASSUME NEW a \in Int, NEW b \in Int
             PROVE  a <= b <=> a * PAGE_SIZE <= b * PAGE_SIZE
  OBVIOUS
<1> QED
  BY TimesPage, Zenon

(* An address is a number of pages and an offset into the next. *)
LEMMA PageOffset ==
  ASSUME NEW a \in Nat
  PROVE  \E d \in Nat, r \in 0 .. (PAGE_SIZE - 1) :
           a = d * PAGE_SIZE + r /\ a \div PAGE_SIZE = d /\ a % PAGE_SIZE = r
<1>0. PAGE_SIZE \in Nat /\ PAGE_SIZE >= 1
  BY PmemAssumption DEF PmemAssumption
<1>1. a % PAGE_SIZE \in 0 .. (PAGE_SIZE - 1)
  BY <1>0
<1>2. a \div PAGE_SIZE \in Nat
  BY <1>0
<1>3. a % PAGE_SIZE = a - PAGE_SIZE * (a \div PAGE_SIZE)
  BY <1>0
<1> DEFINE d == a \div PAGE_SIZE
           r == a % PAGE_SIZE
<1>4. d \in Nat /\ r \in 0 .. (PAGE_SIZE - 1) /\ r = a - PAGE_SIZE * d
  BY <1>1, <1>2, <1>3
<1>5. a \div PAGE_SIZE = d /\ a % PAGE_SIZE = r
  OBVIOUS
<1> HIDE DEF d, r
<1>6. PAGE_SIZE * d \in Int /\ PAGE_SIZE * d = d * PAGE_SIZE
  BY <1>0, <1>4
<1>7. a = d * PAGE_SIZE + r
  BY <1>0, <1>4, <1>6
<1> QED
  BY <1>4, <1>5, <1>7, Zenon

(* Only whole pages have no offset. *)
LEMMA WholeAddress ==
  ASSUME NEW n \in Nat
  PROVE  n * PAGE_SIZE \in Nat /\ (n * PAGE_SIZE) \div PAGE_SIZE = n
<1>0. PAGE_SIZE \in Nat /\ PAGE_SIZE >= 1
  BY PmemAssumption DEF PmemAssumption
<1>1. n * PAGE_SIZE \in Nat
  BY <1>0
<1>2. PICK d \in Nat, r \in 0 .. (PAGE_SIZE - 1) :
        n * PAGE_SIZE = d * PAGE_SIZE + r /\ (n * PAGE_SIZE) \div PAGE_SIZE = d
  <2> DEFINE a == n * PAGE_SIZE
  <2>1. a \in Nat
    BY <1>1
  <2> HIDE DEF a
  <2>2. \E d \in Nat, r \in 0 .. (PAGE_SIZE - 1) : a = d * PAGE_SIZE + r /\ a \div PAGE_SIZE = d
    BY <2>1, PageOffset, Zenon
  <2> QED
    BY <2>2, Zenon DEF a
<1>3. n * PAGE_SIZE = d * PAGE_SIZE + r
  BY <1>2, Zenon
<1>4. d < n => d * PAGE_SIZE + PAGE_SIZE <= n * PAGE_SIZE
  BY TimesPage
<1>5. n < d => n * PAGE_SIZE + PAGE_SIZE <= d * PAGE_SIZE
  BY TimesPage
<1>6. d * PAGE_SIZE \in Int
  BY TimesPage
<1>7. d = n
  BY <1>0, <1>1, <1>3, <1>4, <1>5, <1>6
<1> QED
  BY <1>1, <1>2, <1>7, Zenon

-----------------------------------------------------------------------------
(* The pages of a block are those from First to End - 1.                     *)
First(block) == block.base \div PAGE_SIZE
End(block) == block.limit \div PAGE_SIZE

(* A block of whole pages, somewhere in memory but not at its start. *)
Whole(block) ==
  /\ block \in Block(0 .. Space)
  /\ block.base = First(block) * PAGE_SIZE
  /\ block.limit = End(block) * PAGE_SIZE
  /\ First(block) \in 1 .. End(block)
  /\ End(block) \in 1 .. (Space \div PAGE_SIZE)

(* Two addresses make such a block.                                          *)
LEMMA WholeFrom ==
  ASSUME NEW b \in Nat, NEW l \in Nat, 1 <= b, b <= l, l * PAGE_SIZE <= Space
  PROVE  /\ Whole([base |-> b * PAGE_SIZE, limit |-> l * PAGE_SIZE])
         /\ First([base |-> b * PAGE_SIZE, limit |-> l * PAGE_SIZE]) = b
         /\ End([base |-> b * PAGE_SIZE, limit |-> l * PAGE_SIZE]) = l
<1> DEFINE block == [base |-> b * PAGE_SIZE, limit |-> l * PAGE_SIZE]
<1>0. PAGE_SIZE \in Nat /\ PAGE_SIZE >= 1 /\ Space \in Nat
  BY PmemAssumption DEF PmemAssumption
<1>1. b * PAGE_SIZE \in Nat /\ l * PAGE_SIZE \in Nat /\ b * PAGE_SIZE <= l * PAGE_SIZE
  BY WholeAddress, PageOrder
<1>2. block.base = b * PAGE_SIZE /\ block.limit = l * PAGE_SIZE
  OBVIOUS
<1>3. First(block) = b /\ End(block) = l
  BY <1>2, WholeAddress, Zenon DEF First, End
<1>4. block \in Block(0 .. Space)
  BY <1>0, <1>1 DEF Block
<1>5. l <= Space \div PAGE_SIZE
  <2>1. PICK d \in Nat, r \in 0 .. (PAGE_SIZE - 1) : Space = d * PAGE_SIZE + r /\ Space \div PAGE_SIZE = d
    BY <1>0, PageOffset, Zenon
  <2>2. d < l => d * PAGE_SIZE + PAGE_SIZE <= l * PAGE_SIZE
    BY TimesPage
  <2>3. d * PAGE_SIZE \in Int
    BY TimesPage
  <2>4. Space = d * PAGE_SIZE + r
    BY <2>1, Zenon
  <2>5. l <= d
    BY <1>0, <1>1, <2>2, <2>3, <2>4
  <2> QED
    BY <2>1, <2>5, Zenon
<1>6. Space \div PAGE_SIZE \in Nat
  BY <1>0
<1> HIDE DEF block
<1>7. Whole(block)
  BY <1>2, <1>3, <1>4, <1>5, <1>6 DEF Whole
<1> QED
  BY <1>3, <1>7 DEF block

(* The limits of whole blocks compare as the pages do.                       *)
LEMMA WholeOrder ==
  ASSUME NEW a, NEW b, Whole(a), Whole(b)
  PROVE  /\ a.limit <= b.base <=> End(a) <= First(b)
         /\ a.base <= b.base <=> First(a) <= First(b)
         /\ a.limit <= b.limit <=> End(a) <= End(b)
         /\ HasRoom(a) <=> First(a) < End(a)
         /\ a.base \in Nat /\ a.limit \in Nat /\ a.limit <= Space
         /\ First(a) \in Nat \ {0} /\ End(a) \in Nat /\ First(a) <= End(a)
         /\ a.base <= a.limit
<1>0. PAGE_SIZE \in Nat /\ PAGE_SIZE >= 1 /\ Space \in Nat /\ Space \div PAGE_SIZE \in Nat
  BY PmemAssumption DEF PmemAssumption
<1> DEFINE fa == First(a)
           ea == End(a)
           fb == First(b)
           eb == End(b)
<1>1. /\ a.base = fa * PAGE_SIZE /\ a.limit = ea * PAGE_SIZE
      /\ b.base = fb * PAGE_SIZE /\ b.limit = eb * PAGE_SIZE
      /\ a \in Block(0 .. Space) /\ b \in Block(0 .. Space)
  BY DEF Whole
<1>2. /\ fa \in Nat \ {0} /\ ea \in Nat /\ fb \in Nat /\ eb \in Nat
      /\ fa <= ea
  <2> DEFINE top == Space \div PAGE_SIZE
  <2>1. fa \in 1 .. ea /\ ea \in 1 .. top /\ fb \in 1 .. eb /\ eb \in 1 .. top /\ top \in Nat
    BY <1>0 DEF Whole
  <2> HIDE DEF top, fa, ea, fb, eb
  <2> QED
    BY <2>1
<1> HIDE DEF fa, ea, fb, eb
<1>3. a.limit <= b.base <=> ea <= fb
  BY <1>1, <1>2, PageOrder
<1>4. a.base <= b.base <=> fa <= fb
  BY <1>1, <1>2, PageOrder
<1>5. a.limit <= b.limit <=> ea <= eb
  BY <1>1, <1>2, PageOrder
<1>6. a.base <= a.limit
  BY <1>1, <1>2, PageOrder
<1>7. HasRoom(a) <=> fa < ea
  <2>1. fa < ea => fa * PAGE_SIZE + PAGE_SIZE <= ea * PAGE_SIZE
    BY <1>2, TimesPage
  <2>2. fa = ea => fa * PAGE_SIZE = ea * PAGE_SIZE
    OBVIOUS
  <2>3. fa * PAGE_SIZE \in Int /\ ea * PAGE_SIZE \in Int
    BY <1>2, TimesPage
  <2> QED
    BY <1>0, <1>1, <1>2, <2>1, <2>2, <2>3 DEF HasRoom
<1>8. a.base \in Nat /\ a.limit \in Nat /\ a.limit <= Space
  BY <1>0, <1>1 DEF Block
<1> QED
  BY <1>2, <1>3, <1>4, <1>5, <1>6, <1>7, <1>8 DEF fa, ea, fb, eb

(* The pages between two page boundaries.                                    *)
LEMMA PagesBetween ==
  ASSUME NEW b \in Nat \ {0}, NEW l \in Nat, l <= Space \div PAGE_SIZE
  PROVE  PagesWithin(b * PAGE_SIZE, l * PAGE_SIZE) = b .. (l - 1)
<1> DEFINE top == Space \div PAGE_SIZE
<1>0. top \in Nat /\ l <= top /\ Page = 0 .. (top - 1)
  BY PmemAssumption DEF PmemAssumption, Page
<1> HIDE DEF top
<1>1. ASSUME NEW q \in Int
      PROVE  /\ b * PAGE_SIZE <= q * PAGE_SIZE <=> b <= q
             /\ (q + 1) * PAGE_SIZE <= l * PAGE_SIZE <=> q + 1 <= l
  BY PageOrder
<1>2. ASSUME NEW q PROVE q \in PagesWithin(b * PAGE_SIZE, l * PAGE_SIZE) <=> q \in b .. (l - 1)
  <2>1. CASE q \in Int
    <3>1. q \in PagesWithin(b * PAGE_SIZE, l * PAGE_SIZE) <=> q \in Page \ {0} /\ b <= q /\ q + 1 <= l
      BY <1>1, <2>1 DEF PagesWithin
    <3> QED
      BY <1>0, <2>1, <3>1
  <2>2. CASE q \notin Int
    BY <1>0, <2>2 DEF PagesWithin
  <2> QED
    BY <2>1, <2>2
<1> QED
  BY <1>2

(* The pages of a whole block.                                               *)
LEMMA PagesOfWhole ==
  ASSUME NEW block, Whole(block)
  PROVE  Pages(block) = First(block) .. (End(block) - 1)
<1> DEFINE f == First(block)
           e == End(block)
           top == Space \div PAGE_SIZE
<1>1. f \in 1 .. e /\ e \in 1 .. top /\ top \in Nat
  BY PmemAssumption DEF PmemAssumption, Whole
<1>2. block.base = f * PAGE_SIZE /\ block.limit = e * PAGE_SIZE
  BY DEF Whole
<1>3. f \in Nat \ {0} /\ e \in Nat /\ e <= top
  <2> HIDE DEF f, e, top
  <2> QED
    BY <1>1
<1> HIDE DEF f, e
<1>4. PagesWithin(f * PAGE_SIZE, e * PAGE_SIZE) = f .. (e - 1)
  BY <1>3, PagesBetween
<1> QED
  BY <1>2, <1>4 DEF Pages, f, e

-----------------------------------------------------------------------------
(* Aligning up keeps the pages that begin at or behind the address, but 0.   *)
LEMMA AlignUpPages ==
  ASSUME NEW a \in Nat
  PROVE  \E u \in Nat \ {0} :
           /\ AlignUp(a) = u * PAGE_SIZE
           /\ \A q \in Nat \ {0} : a <= q * PAGE_SIZE <=> u <= q
<1>0. PAGE_SIZE \in Nat /\ PAGE_SIZE >= 1
  BY PmemAssumption DEF PmemAssumption
<1>1. PICK d \in Nat, r \in 0 .. (PAGE_SIZE - 1) :
        a = d * PAGE_SIZE + r /\ a % PAGE_SIZE = r
  BY PageOffset, Zenon
<1>2. a = d * PAGE_SIZE + r /\ d * PAGE_SIZE \in Int
  <2>1. a = d * PAGE_SIZE + r
    BY <1>1, Zenon
  <2>2. d * PAGE_SIZE \in Int
    BY TimesPage
  <2> QED
    BY <2>1, <2>2
<1>3. AlignUp(a) = LET aligned == IF r # 0 THEN a + PAGE_SIZE - r ELSE a
                   IN  IF aligned = 0 THEN PAGE_SIZE ELSE aligned
  BY <1>1, Zenon DEF AlignUp
<1>4. CASE r # 0
  <2>1. (d + 1) * PAGE_SIZE = d * PAGE_SIZE + PAGE_SIZE
    BY TimesPage
  <2>2. AlignUp(a) = (d + 1) * PAGE_SIZE
    BY <1>0, <1>2, <1>3, <1>4, <2>1, WholeAddress
  <2>3. ASSUME NEW q \in Nat \ {0} PROVE a <= q * PAGE_SIZE <=> d + 1 <= q
    <3>1. d + 1 <= q => (d + 1) * PAGE_SIZE <= q * PAGE_SIZE
      BY PageOrder
    <3>2. q <= d => q * PAGE_SIZE <= d * PAGE_SIZE
      BY PageOrder
    <3>3. q * PAGE_SIZE \in Int
      BY TimesPage
    <3>4. d + 1 <= q \/ q <= d
      OBVIOUS
    <3>5. d + 1 <= q => a <= q * PAGE_SIZE
      BY <1>0, <1>2, <2>1, <3>1, <3>3
    <3>6. q <= d => ~(a <= q * PAGE_SIZE) /\ ~(d + 1 <= q)
      BY <1>0, <1>2, <1>4, <3>2, <3>3
    <3> QED
      BY <3>4, <3>5, <3>6
  <2> QED
    BY <2>2, <2>3
<1>5. CASE r = 0 /\ d = 0
  <2>1. a = 0 /\ 1 * PAGE_SIZE = PAGE_SIZE
    BY <1>0, <1>2, <1>5
  <2>2. AlignUp(a) = 1 * PAGE_SIZE
    BY <1>3, <1>5, <2>1
  <2>3. ASSUME NEW q \in Nat \ {0} PROVE a <= q * PAGE_SIZE <=> 1 <= q
    BY <2>1, WholeAddress
  <2> QED
    BY <2>2, <2>3
<1>6. CASE r = 0 /\ d # 0
  <2>1. a = d * PAGE_SIZE
    BY <1>2, <1>6
  <2>2. 1 <= d => 1 * PAGE_SIZE <= d * PAGE_SIZE
    BY PageOrder
  <2>3. a # 0
    BY <1>0, <1>6, <2>1, <2>2
  <2>4. AlignUp(a) = d * PAGE_SIZE
    BY <1>3, <1>6, <2>1, <2>3
  <2>5. \A q \in Nat \ {0} : a <= q * PAGE_SIZE <=> d <= q
    BY <2>1, PageOrder
  <2> QED
    BY <1>6, <2>4, <2>5
<1> QED
  BY <1>4, <1>5, <1>6

(* Aligning down keeps the pages that end at or before the address.          *)
LEMMA AlignDownPages ==
  ASSUME NEW l \in Nat
  PROVE  \E v \in Nat :
           /\ AlignDown(l) = v * PAGE_SIZE /\ v * PAGE_SIZE <= l
           /\ \A q \in Nat : (q + 1) * PAGE_SIZE <= l <=> q + 1 <= v
<1>0. PAGE_SIZE \in Nat /\ PAGE_SIZE >= 1
  BY PmemAssumption DEF PmemAssumption
<1>1. PICK d \in Nat, r \in 0 .. (PAGE_SIZE - 1) :
        l = d * PAGE_SIZE + r /\ l % PAGE_SIZE = r
  BY PageOffset, Zenon
<1>2. l = d * PAGE_SIZE + r /\ d * PAGE_SIZE \in Int
  <2>1. l = d * PAGE_SIZE + r
    BY <1>1, Zenon
  <2>2. d * PAGE_SIZE \in Int
    BY TimesPage
  <2> QED
    BY <2>1, <2>2
<1>3. AlignDown(l) = l - r
  BY <1>1, Zenon DEF AlignDown
<1>4. AlignDown(l) = d * PAGE_SIZE /\ d * PAGE_SIZE <= l
  BY <1>0, <1>2, <1>3
<1>5. ASSUME NEW q \in Nat PROVE (q + 1) * PAGE_SIZE <= l <=> q + 1 <= d
  <2>1. q + 1 <= d => (q + 1) * PAGE_SIZE <= d * PAGE_SIZE
    BY PageOrder
  <2>2. d < q + 1 => d * PAGE_SIZE + PAGE_SIZE <= (q + 1) * PAGE_SIZE
    BY TimesPage
  <2>3. (q + 1) * PAGE_SIZE \in Int
    BY TimesPage
  <2>4. q + 1 <= d => (q + 1) * PAGE_SIZE <= l
    BY <1>0, <1>2, <2>1, <2>3
  <2>5. d < q + 1 => ~((q + 1) * PAGE_SIZE <= l)
    BY <1>0, <1>2, <2>2, <2>3
  <2> QED
    BY <2>4, <2>5
<1> QED
  BY <1>4, <1>5

(* The block that an entry becomes has the pages that the entry covers.      *)
LEMMA EntryBlock ==
  ASSUME NEW a \in Nat, NEW l \in Nat, l <= Space,
         NEW block, block = [base |-> AlignUp(a), limit |-> AlignDown(l)]
  PROVE  /\ block.base < block.limit => Whole(block) /\ Pages(block) = PagesWithin(a, l)
         /\ ~(block.base < block.limit) => PagesWithin(a, l) = {}
<1>0. PAGE_SIZE \in Nat /\ PAGE_SIZE >= 1 /\ Space \in Nat /\ Page \subseteq Nat
  BY PmemAssumption DEF PmemAssumption, Page
<1>1. PICK u \in Nat \ {0} :
        /\ AlignUp(a) = u * PAGE_SIZE
        /\ \A q \in Nat \ {0} : a <= q * PAGE_SIZE <=> u <= q
  BY AlignUpPages
<1>2. PICK v \in Nat :
        /\ AlignDown(l) = v * PAGE_SIZE /\ v * PAGE_SIZE <= l
        /\ \A q \in Nat : (q + 1) * PAGE_SIZE <= l <=> q + 1 <= v
  BY AlignDownPages
<1>3. block = [base |-> u * PAGE_SIZE, limit |-> v * PAGE_SIZE]
  BY <1>1, <1>2
<1>4. PagesWithin(a, l) = {q \in Page \ {0} : u <= q /\ q + 1 <= v}
  BY <1>0, <1>1, <1>2 DEF PagesWithin
<1>5. block.base < block.limit <=> u < v
  <2>1. u * PAGE_SIZE \in Nat /\ v * PAGE_SIZE \in Nat
    BY WholeAddress
  <2>2. v <= u <=> v * PAGE_SIZE <= u * PAGE_SIZE
    BY PageOrder
  <2> QED
    BY <1>3, <2>1, <2>2
<1>6. ASSUME u < v PROVE Whole(block) /\ Pages(block) = PagesWithin(a, l)
  <2>1. v * PAGE_SIZE <= Space
    BY <1>0, <1>2, WholeAddress
  <2>2. Whole(block) /\ First(block) = u /\ End(block) = v
    BY <1>3, <1>6, <2>1, WholeFrom
  <2>3. Pages(block) = u .. (v - 1)
    BY <2>2, PagesOfWhole
  <2>4. Pages(block) \subseteq Page \ {0}
    BY DEF Pages, PagesWithin
  <2>5. u .. (v - 1) \subseteq Page \ {0}
    BY <2>3, <2>4, Zenon
  <2>6. \A q : q \in PagesWithin(a, l) <=> q \in u .. (v - 1)
    <3>1. ASSUME NEW q \in PagesWithin(a, l) PROVE q \in u .. (v - 1)
      <4>1. q \in Nat /\ u <= q /\ q + 1 <= v
        BY <1>0, <1>4
      <4> QED
        BY <4>1
    <3>2. ASSUME NEW q \in u .. (v - 1) PROVE q \in PagesWithin(a, l)
      <4>1. q \in Page \ {0} /\ u <= q /\ q + 1 <= v
        BY <2>5
      <4> QED
        BY <1>4, <4>1
    <3> QED
      BY <3>1, <3>2
  <2> QED
    BY <2>2, <2>3, <2>6
<1>7. ASSUME ~(u < v) PROVE PagesWithin(a, l) = {}
  <2>1. ASSUME NEW q \in PagesWithin(a, l) PROVE FALSE
    <3>1. q \in Nat /\ u <= q /\ q + 1 <= v
      BY <1>0, <1>4
    <3> QED
      BY <1>7, <3>1
  <2> QED
    BY <2>1
<1> QED
  BY <1>5, <1>6, <1>7

-----------------------------------------------------------------------------
(* What is kept of a table of blocks: blocks of whole pages, their order,    *)
(* and that they do not overlap.                                             *)
PagesOf(m) == UNION {Pages(m[k]) : k \in DOMAIN m}
WholesIn(m) == \A k \in DOMAIN m : Whole(m[k])
AscendingIn(m) == \A j, k \in DOMAIN m : j < k => m[j].base <= m[k].base
ApartIn(m) == \A j, k \in DOMAIN m : j < k => m[j].limit <= m[k].base

(* The inductive invariant: with the above, qsort leaves the table sorted    *)
(* and merging leaves it disjoint, the blocks above the current one are used *)
(* up, and the pages of the map are accounted for.  Before the sort no block *)
(* is there without an entry of its own, so a full table has seen as many    *)
(* entries as it has room for.                                               *)
Used ==
  /\ pc = "gather" => pmem_blocks_count <= entries
  /\ pc \in {"gather", "merge"} => pmem_current_block = 0 /\ allocated = {}
  /\ pc = "alloc" =>
       /\ pmem_current_block \in Indices
       /\ \A k \in Indices : k > pmem_current_block => ~HasRoom(BlockAt(k))
  /\ pc = "wild" => \A k \in Indices : ~HasRoom(BlockAt(k))

PInv ==
  /\ TypeOK
  /\ WholesIn(pmem_block_map)
  /\ pc = "merge" => AscendingIn(pmem_block_map) /\ pmem_blocks_count > 0
  /\ pc \in {"alloc", "wild"} => ApartIn(pmem_block_map)
  /\ Used
  /\ Accounted

-----------------------------------------------------------------------------
(* The table as a function.                                                  *)
LEMMA BlockTable ==
  ASSUME TypeOK
  PROVE  /\ pmem_blocks_count \in Nat /\ DOMAIN pmem_block_map = 1 .. pmem_blocks_count
         /\ \A k \in 1 .. pmem_blocks_count : pmem_block_map[k] \in Block(0 .. Space)
         /\ Free = PagesOf(pmem_block_map)
<1>1. pmem_block_map \in Seq(Block(0 .. Space))
  BY DEF TypeOK
<1>2. pmem_blocks_count \in Nat /\ DOMAIN pmem_block_map = 1 .. pmem_blocks_count
  BY <1>1, LenProperties DEF pmem_blocks_count
<1>3. \A k \in 1 .. pmem_blocks_count : pmem_block_map[k] \in Block(0 .. Space)
  BY <1>1, ElementOfSeq DEF pmem_blocks_count
<1> QED
  BY <1>2, <1>3 DEF Free, PagesOf

(* An entry of the memory map adds the pages it covers, and no others.       *)
LEMMA GatherKeeps ==
  ASSUME PInv, NEW base_addr \in 0 .. Space, NEW length \in 0 .. (Space - base_addr), NEW type \in Types,
         Gather(base_addr, length, type)
  PROVE  PInv'
<1> DEFINE block == [base |-> AlignUp(base_addr), limit |-> AlignDown(base_addr + length)]
           covered == PagesWithin(base_addr, base_addr + length)
           m == pmem_block_map
           N == Len(pmem_block_map)
<1>0. /\ TypeOK /\ pc = "gather" /\ WholesIn(m) /\ Free = PagesOf(m)
      /\ N \in Nat /\ DOMAIN m = 1 .. N /\ allocated = {} /\ pmem_current_block = 0
      /\ Free = ram /\ N <= entries /\ entries \in Nat
      /\ dropped # {} => entries > MAX_PMEM_ENTRIES
  BY BlockTable, PmemAssumption DEF PmemAssumption, TypeOK, PInv, Gather, pmem_blocks_count, Used, Accounted
<1>1. base_addr \in Nat /\ base_addr + length \in Nat /\ base_addr + length <= Space
  BY PmemAssumption DEF PmemAssumption
<1>2. /\ block.base < block.limit => Whole(block) /\ Pages(block) = covered
      /\ ~(block.base < block.limit) => covered = {}
  BY <1>1, EntryBlock
<1>3. /\ pmem_block_map' = IF type = 1 /\ block.base < block.limit THEN Append(m, block) ELSE m
      /\ ram' = IF type = 1 THEN ram \cup covered ELSE ram
      /\ UNCHANGED <<pc, pmem_current_block, dropped, allocated, wild>>
      /\ N < MAX_PMEM_ENTRIES /\ entries' = entries + 1 /\ entries < MaxEntries
  BY <1>0, PmemAssumption DEF PmemAssumption, Gather, Full, pmem_blocks_count
<1>4. covered \subseteq Page \ {0}
  BY DEF PagesWithin
<1> HIDE DEF block, covered
<1>5. /\ pmem_block_map' \in Seq(Block(0 .. Space)) /\ Len(pmem_block_map') <= MAX_PMEM_ENTRIES
      /\ Len(pmem_block_map') <= N + 1
      /\ WholesIn(pmem_block_map') /\ PagesOf(pmem_block_map') = ram'
  <2>0. m \in Seq(Block(0 .. Space)) /\ N <= MAX_PMEM_ENTRIES
    BY <1>0 DEF TypeOK, pmem_blocks_count
  <2>1. CASE type = 1 /\ block.base < block.limit
    <3>1. Whole(block) /\ block \in Block(0 .. Space) /\ pmem_block_map' = Append(m, block)
      BY <1>2, <1>3, <2>1 DEF Whole
    <3>2. /\ Append(m, block) \in Seq(Block(0 .. Space)) /\ Len(Append(m, block)) = N + 1
          /\ \A k \in 1 .. N : Append(m, block)[k] = m[k]
          /\ Append(m, block)[N + 1] = block
      BY <2>0, <3>1, AppendProperties
    <3>3. DOMAIN Append(m, block) = 1 .. (N + 1)
      BY <3>2, LenProperties
    <3>4. \A k \in 1 .. (N + 1) : k \in 1 .. N \/ k = N + 1
      BY <1>0
    <3>5. WholesIn(Append(m, block))
      BY <1>0, <3>1, <3>2, <3>3, <3>4 DEF WholesIn
    <3>6. PagesOf(Append(m, block)) = PagesOf(m) \cup Pages(block)
      <4>1. 1 .. (N + 1) = (1 .. N) \cup {N + 1}
        BY <1>0
      <4>2. ASSUME NEW q PROVE q \in PagesOf(Append(m, block)) <=> q \in PagesOf(m) \cup Pages(block)
        BY <1>0, <3>2, <3>3, <4>1 DEF PagesOf
      <4> QED
        BY <4>2
    <3>7. ram' = ram \cup Pages(block)
      BY <1>2, <1>3, <2>1
    <3> QED
      <4>1. N + 1 <= MAX_PMEM_ENTRIES
        BY <1>0, <1>3, PmemAssumption DEF PmemAssumption
      <4>2. PagesOf(Append(m, block)) = ram'
        BY <1>0, <3>6, <3>7
      <4> QED
        BY <3>1, <3>2, <3>5, <4>1, <4>2
  <2>2. CASE ~(type = 1 /\ block.base < block.limit)
    <3>1. ram' = ram
      BY <1>2, <1>3, <2>2
    <3>2. pmem_block_map' = m
      BY <1>3, <2>2
    <3>3. N <= N + 1
      BY <1>0
    <3> QED
      BY <1>0, <2>0, <3>1, <3>2, <3>3
  <2> QED
    BY <2>1, <2>2
<1>6. ram' \subseteq Page \ {0}
  BY <1>0, <1>3, <1>4 DEF TypeOK
<1>7. TypeOK'
  BY <1>0, <1>3, <1>5, <1>6, PmemAssumption DEF PmemAssumption, TypeOK, pmem_blocks_count
<1>8. Free' = ram'
  BY <1>5 DEF Free, PagesOf
<1>9. Used'
  <2>1. pmem_block_map' \in Seq(Block(0 .. Space)) /\ Len(pmem_block_map') \in Nat
    BY <1>5, LenProperties
  <2>2. Len(pmem_block_map') <= entries + 1
    BY <1>0, <1>5, <2>1
  <2> QED
    BY <1>0, <1>3, <2>2 DEF Used, pmem_blocks_count
<1>10. Accounted'
  <2>1. entries > MAX_PMEM_ENTRIES => entries + 1 > MAX_PMEM_ENTRIES
    BY <1>0, PmemAssumption DEF PmemAssumption
  <2> QED
    BY <1>0, <1>3, <1>8, <2>1 DEF Accounted
<1> QED
  BY <1>0, <1>3, <1>5, <1>7, <1>9, <1>10 DEF PInv

(* An entry behind a full table adds nothing; the table had an entry of its  *)
(* own for each of its blocks.                                               *)
LEMMA DropKeeps ==
  ASSUME PInv, NEW base_addr \in 0 .. Space, NEW length \in 0 .. (Space - base_addr), NEW type \in Types,
         Drop(base_addr, length, type)
  PROVE  PInv'
<1> DEFINE covered == PagesWithin(base_addr, base_addr + length)
<1>1. /\ pc = "gather" /\ pmem_blocks_count >= MAX_PMEM_ENTRIES /\ entries < MaxEntries
      /\ entries' = entries + 1
      /\ dropped' = IF type = 1 THEN dropped \cup (covered \ ram) ELSE dropped
      /\ UNCHANGED <<pc, pmem_block_map, pmem_current_block, ram, allocated, wild>>
  BY DEF Drop, Full
<1>2. covered \subseteq Page \ {0}
  BY DEF PagesWithin
<1> HIDE DEF covered
<1>3. /\ entries \in Nat /\ pmem_blocks_count \in Nat /\ MAX_PMEM_ENTRIES \in Nat /\ MaxEntries \in Nat
      /\ pmem_blocks_count <= entries
  BY <1>1, BlockTable, PmemAssumption DEF PmemAssumption, PInv, TypeOK, Used
<1>4. entries' > MAX_PMEM_ENTRIES /\ entries' \in 0 .. MaxEntries /\ pmem_blocks_count <= entries'
  BY <1>1, <1>3
<1>5. TypeOK'
  BY <1>1, <1>2, <1>4 DEF PInv, TypeOK, Indices, pmem_blocks_count
<1>6. Used' /\ Accounted'
  BY <1>1, <1>4 DEF PInv, Used, Accounted, Free, pmem_blocks_count
<1> QED
  BY <1>1, <1>5, <1>6 DEF PInv, WholesIn, pmem_blocks_count

(* An element occurs in an array or does not. *)
LEMMA Occurs ==
  ASSUME NEW a, NEW N \in Nat, DOMAIN a = 1 .. N, NEW e
  PROVE  Occurrences(a, e) = 0 <=> \A i \in 1 .. N : a[i] # e
<1> DEFINE at == {i \in DOMAIN a : a[i] = e}
<1>1. IsFiniteSet(at)
  <2>1. IsFiniteSet(1 .. N)
    BY FS_Interval
  <2>2. at \subseteq 1 .. N
    OBVIOUS
  <2> QED
    BY <2>1, <2>2, FS_Subset
<1>2. Cardinality(at) = 0 <=> at = {}
  BY <1>1, FS_EmptySet
<1> QED
  BY <1>2 DEF Occurrences

(* qsort moves the blocks and leaves them in order.                          *)
LEMMA SortKeeps ==
  ASSUME PInv, Sort
  PROVE  PInv'
<1> DEFINE m == pmem_block_map
           N == Len(pmem_block_map)
           s == pmem_block_map'
<1>0. /\ TypeOK /\ pc = "gather" /\ WholesIn(m) /\ Free = PagesOf(m)
      /\ N \in Nat /\ N > 0 /\ DOMAIN m = 1 .. N /\ allocated = {} /\ pmem_current_block = 0
      /\ Free = ram /\ \A k \in 1 .. N : m[k] \in Block(0 .. Space)
      /\ dropped # {} => entries > MAX_PMEM_ENTRIES
  BY BlockTable DEF PInv, Sort, pmem_blocks_count, Used, Accounted
<1>1. /\ s \in [1 .. N -> {m[k] : k \in DOMAIN m}]
      /\ IsPermutation(s, m) /\ IsSorted(s)
      /\ pc' = "merge" /\ UNCHANGED <<entries, pmem_current_block, ram, dropped, allocated, wild>>
  BY DEF Sort, pmem_blocks_count
<1> HIDE DEF m, N, s
<1>2. DOMAIN s = 1 .. N /\ \A k \in 1 .. N : \E j \in 1 .. N : s[k] = m[j]
  BY <1>0, <1>1
<1>3. \A k \in 1 .. N : \E j \in 1 .. N : m[k] = s[j]
  <2> SUFFICES ASSUME NEW k \in 1 .. N PROVE \E j \in 1 .. N : s[j] = m[k]
    OBVIOUS
  <2>1. Occurrences(s, m[k]) = Occurrences(m, m[k])
    BY <1>1, <1>2 DEF IsPermutation
  <2>2. ~(Occurrences(m, m[k]) = 0)
    BY <1>0, Occurs
  <2> QED
    BY <1>0, <1>2, <2>1, <2>2, Occurs, SMTT(20)
<1>4. s \in Seq(Block(0 .. Space)) /\ Len(s) = N
  <2>1. s \in [1 .. N -> Block(0 .. Space)]
    BY <1>0, <1>1, <1>2
  <2> QED
    BY <1>0, <2>1, SeqDef, LenProperties
<1>5. WholesIn(s)
  BY <1>0, <1>2 DEF WholesIn
<1>6. PagesOf(s) = PagesOf(m)
  BY <1>0, <1>2, <1>3 DEF PagesOf
<1>7. AscendingIn(s)
  <2> SUFFICES ASSUME NEW j \in 1 .. N, NEW k \in 1 .. N, j < k PROVE s[j].base <= s[k].base
    BY <1>2 DEF AscendingIn
  <2>1. pmem_cmp(s[j], s[k]) <= 0
    BY <1>1, <1>2 DEF IsSorted
  <2>2. s[j] \in Block(0 .. Space) /\ s[k] \in Block(0 .. Space)
    BY <1>0, <1>2
  <2> QED
    BY <2>1, <2>2, PmemAssumption DEF PmemAssumption, pmem_cmp, Block
<1>8. TypeOK'
  <2>1. N <= MAX_PMEM_ENTRIES
    BY <1>0 DEF TypeOK, pmem_blocks_count, N
  <2>2. pmem_block_map' \in Seq(Block(0 .. Space)) /\ Len(pmem_block_map') <= MAX_PMEM_ENTRIES
    BY <1>4, <2>1 DEF s
  <2> QED
    BY <1>0, <1>1, <2>2 DEF TypeOK, pmem_blocks_count
<1>9. Free' = ram' /\ allocated' = {}
  <2>1. Free' = PagesOf(s)
    BY DEF Free, PagesOf, s
  <2> QED
    BY <1>0, <1>1, <1>6, <2>1
<1>10. Used'
  BY <1>0, <1>1 DEF Used
<1>11. Accounted'
  BY <1>0, <1>1, <1>9 DEF Accounted
<1>12. WholesIn(pmem_block_map)' /\ AscendingIn(pmem_block_map)' /\ Len(pmem_block_map') > 0
  BY <1>0, <1>4, <1>5, <1>7 DEF s, WholesIn, AscendingIn
<1> QED
  BY <1>1, <1>8, <1>10, <1>11, <1>12 DEF PInv, pmem_blocks_count

(* The union of two overlapping blocks has the pages of both.                *)
LEMMA UnionPages ==
  ASSUME NEW a, NEW b, Whole(a), Whole(b), a.base <= b.base, Overlap(a, b)
  PROVE  /\ Whole(Union(a, b)) /\ Union(a, b).base = a.base
         /\ Pages(Union(a, b)) = Pages(a) \cup Pages(b)
<1>1. /\ a.base \in Nat /\ a.limit \in Nat /\ a.base <= a.limit /\ a.limit <= Space
      /\ b.base \in Nat /\ b.limit \in Nat /\ b.base <= b.limit /\ b.limit <= Space
      /\ First(a) \in Nat \ {0} /\ End(a) \in Nat /\ First(a) <= End(a)
      /\ First(b) \in Nat \ {0} /\ End(b) \in Nat /\ First(b) <= End(b)
      /\ Space \in Nat
  BY WholeOrder, PmemAssumption DEF PmemAssumption
<1>2. /\ a.base = b.base <=> First(a) = First(b)
      /\ First(a) <= First(b)
      /\ a.limit <= b.base <=> End(a) <= First(b)
      /\ a.limit <= b.limit <=> End(a) <= End(b)
  <2>1. a.base <= b.base <=> First(a) <= First(b)
    BY WholeOrder
  <2>2. b.base <= a.base <=> First(b) <= First(a)
    BY WholeOrder
  <2>3. (a.limit <= b.base <=> End(a) <= First(b)) /\ (a.limit <= b.limit <=> End(a) <= End(b))
    BY WholeOrder
  <2> QED
    BY <1>1, <2>1, <2>2, <2>3
<1>3. First(a) = First(b) \/ First(b) < End(a)
  BY <1>1, <1>2 DEF Overlap
<1> DEFINE u == Union(a, b)
<1>4. u.base = a.base /\ u.limit = IF a.limit > b.limit THEN a.limit ELSE b.limit
  BY <1>1 DEF Union
<1>5. u \in Block(0 .. Space)
  BY <1>1 DEF Block, Union
<1> HIDE DEF u
<1>6. First(u) = First(a) /\ End(u) = IF a.limit > b.limit THEN End(a) ELSE End(b)
  <2>1. First(u) = First(a)
    BY <1>4, Zenon DEF First
  <2>2. CASE a.limit > b.limit
    <3>1. u.limit = a.limit
      BY <1>4, <2>2
    <3>2. End(u) = End(a)
      BY <3>1, Zenon DEF End
    <3> QED
      BY <2>1, <2>2, <3>2
  <2>3. CASE ~(a.limit > b.limit)
    <3>1. u.limit = b.limit
      BY <1>4, <2>3
    <3>2. End(u) = End(b)
      BY <3>1, Zenon DEF End
    <3> QED
      BY <2>1, <2>3, <3>2
  <2> QED
    BY <2>2, <2>3
<1>7. Whole(u)
  <2> DEFINE top == Space \div PAGE_SIZE
  <2>1. top \in Nat /\ End(a) \in 1 .. top /\ End(b) \in 1 .. top
    BY PmemAssumption DEF PmemAssumption, Whole
  <2>2. a.base = First(a) * PAGE_SIZE /\ a.limit = End(a) * PAGE_SIZE /\ b.limit = End(b) * PAGE_SIZE
    BY DEF Whole
  <2>3. First(u) \in 1 .. End(u) /\ End(u) \in 1 .. top
    <3> HIDE DEF top
    <3> QED
      BY <1>1, <1>2, <1>6, <2>1
  <2>4. u.base = First(u) * PAGE_SIZE
    BY <1>4, <1>6, <2>2
  <2>5. u.limit = End(u) * PAGE_SIZE
    <3>1. CASE a.limit > b.limit
      BY <1>4, <1>6, <2>2, <3>1
    <3>2. CASE ~(a.limit > b.limit)
      BY <1>4, <1>6, <2>2, <3>2
    <3> QED
      BY <3>1, <3>2
  <2> QED
    BY <1>5, <2>3, <2>4, <2>5 DEF Whole
<1>8. Pages(u) = Pages(a) \cup Pages(b)
  <2> DEFINE fa == First(a)
             ea == End(a)
             fb == First(b)
             eb == End(b)
  <2>1. /\ Pages(a) = fa .. (ea - 1) /\ Pages(b) = fb .. (eb - 1)
        /\ Pages(u) = fa .. ((IF a.limit > b.limit THEN ea ELSE eb) - 1)
    BY <1>6, <1>7, PagesOfWhole
  <2>2. /\ fa \in Nat /\ ea \in Nat /\ fb \in Nat /\ eb \in Nat
        /\ fa <= fb /\ fa <= ea /\ fb <= eb /\ (fa = fb \/ fb < ea)
        /\ a.limit > b.limit <=> eb < ea
    BY <1>1, <1>2, <1>3
  <2> HIDE DEF fa, ea, fb, eb
  <2> QED
    BY <2>1, <2>2
<1> QED
  BY <1>4, <1>7, <1>8 DEF u

(* The table after block J went into block I. *)
Merged(m, N, I, J) ==
  [k \in 1 .. (N - 1) |-> IF k = I THEN Union(m[I], m[J])
                         ELSE IF k < J THEN m[k] ELSE m[k + 1]]

(* It has the same pages, and its blocks are still whole and in order.       *)
LEMMA MergedTable ==
  ASSUME NEW m, NEW N \in Nat, DOMAIN m = 1 .. N, WholesIn(m), AscendingIn(m),
         NEW I \in 1 .. N, NEW J \in 1 .. N, I < J, Overlap(m[I], m[J])
  PROVE  LET t == Merged(m, N, I, J)
         IN  /\ DOMAIN t = 1 .. (N - 1) /\ WholesIn(t) /\ AscendingIn(t)
             /\ PagesOf(t) = PagesOf(m)
<1> DEFINE t == Merged(m, N, I, J)
           u == Union(m[I], m[J])
<1>1. /\ Whole(u) /\ u.base = m[I].base
      /\ Pages(u) = Pages(m[I]) \cup Pages(m[J])
  BY UnionPages DEF WholesIn, AscendingIn
<1>2. /\ DOMAIN t = 1 .. (N - 1)
      /\ t[I] = u /\ I \in 1 .. (N - 1)
      /\ \A k \in 1 .. (N - 1) : k # I /\ k < J => t[k] = m[k]
      /\ \A k \in 1 .. (N - 1) : k >= J => t[k] = m[k + 1]
  BY DEF Merged
<1> HIDE DEF t, u
<1>3. WholesIn(t)
  <2> SUFFICES ASSUME NEW k \in 1 .. (N - 1) PROVE Whole(t[k])
    BY <1>2 DEF WholesIn
  <2>1. CASE k = I
    BY <1>1, <1>2, <2>1
  <2>2. CASE k # I /\ k < J
    BY <1>2, <2>2 DEF WholesIn
  <2>3. CASE k >= J
    BY <1>2, <2>3 DEF WholesIn
  <2> QED
    BY <2>1, <2>2, <2>3
<1>4. \A k \in 1 .. (N - 1) : t[k].base = m[IF k < J THEN k ELSE k + 1].base
  BY <1>1, <1>2
<1>5. AscendingIn(t)
  <2> SUFFICES ASSUME NEW j \in 1 .. (N - 1), NEW k \in 1 .. (N - 1), j < k
               PROVE  t[j].base <= t[k].base
    BY <1>2 DEF AscendingIn
  <2> DEFINE sj == IF j < J THEN j ELSE j + 1
             sk == IF k < J THEN k ELSE k + 1
  <2>1. sj \in 1 .. N /\ sk \in 1 .. N /\ sj < sk
    OBVIOUS
  <2>2. t[j].base = m[sj].base /\ t[k].base = m[sk].base
    BY <1>4
  <2> HIDE DEF sj, sk
  <2> QED
    BY <2>1, <2>2 DEF AscendingIn
<1>6. ASSUME NEW q, NEW k \in 1 .. (N - 1), q \in Pages(t[k])
      PROVE  \E l \in 1 .. N : q \in Pages(m[l])
  <2>1. CASE k = I
    BY <1>1, <1>2, <1>6, <2>1
  <2>2. CASE k # I /\ k < J
    BY <1>2, <1>6, <2>2
  <2>3. CASE k >= J
    BY <1>2, <1>6, <2>3
  <2> QED
    BY <2>1, <2>2, <2>3
<1>7. ASSUME NEW q, NEW l \in 1 .. N, q \in Pages(m[l])
      PROVE  \E k \in 1 .. (N - 1) : q \in Pages(t[k])
  <2>1. CASE l = I \/ l = J
    BY <1>1, <1>2, <1>7, <2>1
  <2>2. CASE l # I /\ l < J
    BY <1>2, <1>7, <2>2
  <2>3. CASE l > J
    <3>1. l - 1 \in 1 .. (N - 1) /\ l - 1 >= J /\ (l - 1) + 1 = l
      BY <2>3
    <3>2. t[l - 1] = m[l]
      BY <1>2, <3>1
    <3> QED
      BY <1>7, <3>1, <3>2
  <2> QED
    BY <2>1, <2>2, <2>3
<1>8. PagesOf(t) = PagesOf(m)
  <2>1. ASSUME NEW q PROVE q \in PagesOf(t) <=> q \in PagesOf(m)
    <3>1. q \in PagesOf(t) <=> \E k \in 1 .. (N - 1) : q \in Pages(t[k])
      BY <1>2 DEF PagesOf
    <3>2. q \in PagesOf(m) <=> \E l \in 1 .. N : q \in Pages(m[l])
      BY DEF PagesOf
    <3> QED
      BY <1>6, <1>7, <3>1, <3>2
  <2> QED
    BY <2>1
<1> QED
  BY <1>2, <1>3, <1>5, <1>8 DEF t

(* A table is typed when its blocks are whole.                               *)
LEMMA TableTyped ==
  ASSUME NEW t, NEW n \in Nat, t = [k \in 1 .. n |-> t[k]], WholesIn(t)
  PROVE  t \in Seq(Block(0 .. Space)) /\ Len(t) = n
<1>1. \A k \in 1 .. n : t[k] \in Block(0 .. Space)
  BY DEF WholesIn, Whole
<1>2. t \in [1 .. n -> Block(0 .. Space)]
  BY <1>1
<1> QED
  BY <1>2, SeqDef, LenProperties

(* Merging two blocks loses no page and gains none.                          *)
LEMMA MergeKeeps ==
  ASSUME PInv, Merge
  PROVE  PInv'
<1> DEFINE m == pmem_block_map
           N == Len(pmem_block_map)
<1>0. /\ TypeOK /\ pc = "merge" /\ WholesIn(m) /\ AscendingIn(m) /\ Free = PagesOf(m)
      /\ N \in Nat /\ N > 0 /\ DOMAIN m = 1 .. N /\ allocated = {} /\ pmem_current_block = 0
      /\ Free = ram /\ (dropped # {} => entries > MAX_PMEM_ENTRIES)
  BY BlockTable DEF PInv, Merge, pmem_blocks_count, Used, Accounted
<1>1. PICK ij \in Indices \X Indices :
        /\ IsFirst(ij)
        /\ pmem_block_map' =
             [k \in 1 .. (pmem_blocks_count - 1) |->
                IF k = ij[1] + 1 THEN Union(BlockAt(ij[1]), BlockAt(ij[2]))
                ELSE IF k <= ij[2] THEN pmem_block_map[k]
                ELSE pmem_block_map[k + 1]]
  BY DEF Merge
<1> DEFINE I == ij[1] + 1
           J == ij[2] + 1
<1>2. I \in 1 .. N /\ J \in 1 .. N /\ I < J /\ Overlap(m[I], m[J])
  BY <1>0, <1>1 DEF IsFirst, OverlappingPairs, Indices, pmem_blocks_count, BlockAt
<1> DEFINE t == Merged(m, N, I, J)
<1>3. pmem_block_map' = t
  <2>1. \A k \in 1 .. (N - 1) : k <= ij[2] <=> k < J
    BY <1>1 DEF Indices
  <2> QED
    BY <1>1, <2>1 DEF Merged, pmem_blocks_count, BlockAt
<1>4. UNCHANGED <<pc, entries, pmem_current_block, ram, dropped, allocated, wild>>
  BY DEF Merge
<1>5. N - 1 \in Nat /\ N - 1 > 0 /\ t = [k \in 1 .. (N - 1) |-> t[k]]
  BY <1>0, <1>2 DEF Merged
<1> HIDE DEF I, J, t, m, N
<1>6. DOMAIN t = 1 .. (N - 1) /\ WholesIn(t) /\ AscendingIn(t) /\ PagesOf(t) = PagesOf(m)
  BY <1>0, <1>2, MergedTable DEF t
<1>7. t \in Seq(Block(0 .. Space)) /\ Len(t) = N - 1
  BY <1>5, <1>6, TableTyped
<1>8. TypeOK'
  <2>1. N <= MAX_PMEM_ENTRIES /\ MAX_PMEM_ENTRIES \in Nat
    BY <1>0, PmemAssumption DEF PmemAssumption, TypeOK, pmem_blocks_count, N
  <2>2. Len(t) <= MAX_PMEM_ENTRIES
    BY <1>0, <1>7, <2>1
  <2> QED
    BY <1>0, <1>3, <1>4, <1>7, <2>2 DEF TypeOK, pmem_blocks_count
<1>9. Free' = ram'
  <2>1. Free' = PagesOf(t)
    BY <1>3 DEF Free, PagesOf
  <2> QED
    BY <1>0, <1>4, <1>6, <2>1
<1>10. Used' /\ Accounted'
  BY <1>0, <1>4, <1>9 DEF Used, Accounted
<1>11. WholesIn(pmem_block_map)' /\ AscendingIn(pmem_block_map)' /\ Len(pmem_block_map') > 0
  BY <1>3, <1>5, <1>6, <1>7 DEF WholesIn, AscendingIn
<1> QED
  BY <1>0, <1>4, <1>8, <1>10, <1>11 DEF PInv, pmem_blocks_count

(* When nothing overlaps, blocks in order are apart.                         *)
LEMMA SummaryKeeps ==
  ASSUME PInv, Summary
  PROVE  PInv'
<1> DEFINE m == pmem_block_map
           N == Len(pmem_block_map)
<1>0. /\ TypeOK /\ pc = "merge" /\ WholesIn(m) /\ AscendingIn(m) /\ Free = PagesOf(m)
      /\ N \in Nat /\ N > 0 /\ DOMAIN m = 1 .. N /\ Accounted /\ OverlappingPairs = {}
  BY BlockTable DEF PInv, Summary, pmem_blocks_count
<1>1. /\ pc' = "alloc" /\ pmem_current_block' = N - 1
      /\ UNCHANGED <<entries, pmem_block_map, ram, dropped, allocated, wild>>
  BY DEF Summary, pmem_blocks_count
<1>2. ApartIn(m)
  <2> SUFFICES ASSUME NEW j \in 1 .. N, NEW k \in 1 .. N, j < k PROVE m[j].limit <= m[k].base
    BY <1>0 DEF ApartIn
  <2>1. ~Overlap(m[j], m[k])
    <3>1. <<j - 1, k - 1>> \in Indices \X Indices
      BY <1>0 DEF Indices, pmem_blocks_count
    <3>2. Overlap(BlockAt(j - 1), BlockAt(k - 1)) => <<j - 1, k - 1>> \in OverlappingPairs
      BY <3>1 DEF OverlappingPairs
    <3>3. BlockAt(j - 1) = m[j] /\ BlockAt(k - 1) = m[k]
      BY DEF BlockAt
    <3> QED
      BY <1>0, <3>2, <3>3
  <2>2. m[j].base <= m[k].base
    BY <1>0 DEF AscendingIn
  <2>3. Whole(m[j]) /\ Whole(m[k])
    BY <1>0 DEF WholesIn
  <2>4. m[j].limit \in Nat /\ m[k].base \in Nat
    BY <2>3, WholeOrder
  <2> QED
    BY <2>1, <2>2, <2>4 DEF Overlap
<1>3. N - 1 \in Indices /\ \A k \in Indices : ~(k > N - 1)
  BY <1>0 DEF Indices, pmem_blocks_count
<1>4. Indices' = Indices
  BY <1>1 DEF Indices, pmem_blocks_count
<1>5. TypeOK'
  BY <1>0, <1>1, <1>3, <1>4 DEF TypeOK, pmem_blocks_count
<1>6. Used'
  BY <1>1, <1>3, <1>4 DEF Used
<1>7. Accounted'
  BY <1>0, <1>1 DEF Accounted, Free
<1>8. WholesIn(pmem_block_map)' /\ ApartIn(pmem_block_map)'
  BY <1>0, <1>1, <1>2 DEF WholesIn, ApartIn
<1> QED
  BY <1>1, <1>5, <1>6, <1>7, <1>8 DEF PInv

(* The table after the last page of block K was taken. *)
Taken(m, K) == [m EXCEPT ![K].limit = @ - PAGE_SIZE]

(* The last page of a block that has room leaves it, and no other block.     *)
LEMMA Shrunk ==
  ASSUME NEW m, NEW N \in Nat, DOMAIN m = 1 .. N, WholesIn(m), ApartIn(m),
         NEW K \in 1 .. N, HasRoom(m[K]),
         NEW t, t = Taken(m, K)
  PROVE  /\ t = [k \in 1 .. N |-> t[k]] /\ WholesIn(t) /\ ApartIn(t)
         /\ \A k \in 1 .. N : k # K => t[k] = m[k]
         /\ \E q \in Page \ {0} :
              /\ q = t[K].limit \div PAGE_SIZE
              /\ q \in PagesOf(m) /\ PagesOf(t) = PagesOf(m) \ {q}
<1> DEFINE f == First(m[K])
           e == End(m[K])
<1>0. PAGE_SIZE \in Nat /\ PAGE_SIZE >= 1 /\ Space \in Nat
  BY PmemAssumption DEF PmemAssumption
<1>1. /\ Whole(m[K]) /\ m[K].base = f * PAGE_SIZE /\ m[K].limit = e * PAGE_SIZE
      /\ m[K] \in Block(0 .. Space)
  BY DEF WholesIn, Whole
<1>2. f \in Nat \ {0} /\ e \in Nat /\ f < e /\ m[K].limit <= Space /\ m[K].limit \in Nat
  BY <1>1, WholeOrder
<1>3. e - 1 \in Nat /\ (e - 1) * PAGE_SIZE = e * PAGE_SIZE - PAGE_SIZE
  <2> HIDE DEF f, e
  <2>1. (e - 1) * PAGE_SIZE = e * PAGE_SIZE - PAGE_SIZE
    BY <1>2, TimesPage
  <2> QED
    BY <1>2, <2>1
<1>4. /\ DOMAIN t = 1 .. N /\ t = [k \in 1 .. N |-> t[k]]
      /\ \A k \in 1 .. N : k # K => t[k] = m[k]
      /\ t[K] = [m[K] EXCEPT !.limit = @ - PAGE_SIZE]
  BY DEF Taken
<1>5. t[K] = [base |-> f * PAGE_SIZE, limit |-> (e - 1) * PAGE_SIZE]
  BY <1>1, <1>3, <1>4 DEF Block
<1> HIDE DEF f, e
<1>6. Whole(t[K]) /\ First(t[K]) = f /\ End(t[K]) = e - 1
  <2>1. (e - 1) * PAGE_SIZE <= Space
    BY <1>0, <1>1, <1>2, <1>3
  <2> QED
    BY <1>2, <1>3, <1>5, <2>1, WholeFrom
<1>7. WholesIn(t)
  BY <1>4, <1>6 DEF WholesIn
<1>8. ApartIn(t)
  <2> SUFFICES ASSUME NEW j \in 1 .. N, NEW k \in 1 .. N, j < k PROVE t[j].limit <= t[k].base
    BY <1>4 DEF ApartIn
  <2>1. m[j].limit <= m[k].base /\ m[j].limit \in Nat /\ m[k].base \in Nat
    BY WholeOrder DEF ApartIn, WholesIn
  <2>2. t[k].base = m[k].base
    BY <1>1, <1>4, <1>5
  <2>3. j # K => t[j].limit = m[j].limit
    BY <1>4
  <2>4. t[K].limit = m[K].limit - PAGE_SIZE
    BY <1>1, <1>3, <1>5
  <2> QED
    BY <1>0, <2>1, <2>2, <2>3, <2>4
<1>9. /\ Pages(t[K]) = f .. (e - 2) /\ Pages(m[K]) = f .. (e - 1)
  <2>1. Pages(t[K]) = f .. ((e - 1) - 1)
    BY <1>6, PagesOfWhole
  <2>2. Pages(m[K]) = f .. (e - 1)
    BY <1>1, PagesOfWhole DEF f, e
  <2>3. (e - 1) - 1 = e - 2
    BY <1>2
  <2> QED
    BY <2>1, <2>2, <2>3
<1>10. ASSUME NEW k \in 1 .. N, k # K PROVE e - 1 \notin Pages(m[k])
  <2>1. Whole(m[k]) /\ Pages(m[k]) = First(m[k]) .. (End(m[k]) - 1)
    BY PagesOfWhole DEF WholesIn
  <2>2. First(m[k]) \in Nat /\ End(m[k]) \in Nat
    BY <2>1, WholeOrder
  <2>3. CASE k < K
    <3>1. End(m[k]) <= f
      BY <1>1, <2>1, <2>3, WholeOrder DEF ApartIn, f
    <3> QED
      BY <1>2, <2>1, <2>2, <3>1
  <2>4. CASE K < k
    <3>1. e <= First(m[k])
      BY <1>1, <2>1, <2>4, WholeOrder DEF ApartIn, e
    <3> QED
      BY <1>2, <2>1, <2>2, <3>1
  <2> QED
    BY <1>10, <2>3, <2>4
<1>11. PagesOf(t) = PagesOf(m) \ {e - 1} /\ e - 1 \in PagesOf(m)
  <2>1. ASSUME NEW q PROVE q \in PagesOf(t) <=> \E k \in 1 .. N : q \in Pages(t[k])
    BY <1>4 DEF PagesOf
  <2>2. ASSUME NEW q PROVE q \in PagesOf(m) <=> \E k \in 1 .. N : q \in Pages(m[k])
    BY DEF PagesOf
  <2>3. ASSUME NEW k \in 1 .. N PROVE Pages(t[k]) = Pages(m[k]) \ {e - 1}
    <3>1. CASE k = K
      <4>1. f .. (e - 2) = (f .. (e - 1)) \ {e - 1}
        BY <1>2
      <4> QED
        BY <1>9, <3>1, <4>1
    <3>2. CASE k # K
      BY <1>4, <1>10, <3>2
    <3> QED
      BY <3>1, <3>2
  <2>4. e - 1 \in Pages(m[K])
    BY <1>2, <1>9
  <2>5. ASSUME NEW q PROVE q \in PagesOf(t) <=> q \in PagesOf(m) \ {e - 1}
    <3>1. \A k \in 1 .. N : q \in Pages(t[k]) <=> q \in Pages(m[k]) /\ q # e - 1
      BY <2>3
    <3>2. q \in PagesOf(t) <=> \E k \in 1 .. N : q \in Pages(m[k]) /\ q # e - 1
      BY <2>1, <3>1
    <3>3. q \in PagesOf(m) <=> \E k \in 1 .. N : q \in Pages(m[k])
      BY <2>2
    <3> QED
      BY <3>2, <3>3
  <2> QED
    BY <2>2, <2>4, <2>5
<1>12. e - 1 = t[K].limit \div PAGE_SIZE
  BY <1>6, Zenon DEF End
<1>13. e - 1 \in Page \ {0}
  <2>1. e - 1 \in Pages(m[K])
    BY <1>2, <1>9
  <2> QED
    BY <2>1 DEF Pages, PagesWithin
<1> QED
  BY <1>4, <1>7, <1>8, <1>11, <1>12, <1>13

(* pmem_alloc_page takes a page that is in a block, and the page leaves it.  *)
Handed ==
  \E q \in Page \ {0} :
    q \in Free /\ Free' = Free \ {q} /\ allocated' = allocated \cup {q}

(* pmem_alloc_page hands out one page that was free, and keeps the           *)
(* invariant.                                                                *)
LEMMA AllocKeeps ==
  ASSUME PInv, Alloc
  PROVE  PInv' /\ Handed
<1> DEFINE m == pmem_block_map
           N == Len(pmem_block_map)
           t == pmem_block_map'
<1>0. /\ TypeOK /\ pc = "alloc" /\ WholesIn(m) /\ ApartIn(m) /\ Free = PagesOf(m)
      /\ N \in Nat /\ DOMAIN m = 1 .. N /\ Accounted /\ Used /\ Indices = 0 .. (N - 1)
  BY BlockTable DEF PInv, Alloc, pmem_blocks_count, Indices
<1>1. PICK k \in 0 .. pmem_current_block :
        /\ HasRoom(BlockAt(k))
        /\ \A j \in (k + 1) .. pmem_current_block : ~HasRoom(BlockAt(j))
        /\ pmem_current_block' = k
        /\ pmem_block_map' = [pmem_block_map EXCEPT ![k + 1].limit = @ - PAGE_SIZE]
        /\ allocated' = allocated \cup {pmem_block_map'[k + 1].limit \div PAGE_SIZE}
  BY DEF Alloc
<1>2. UNCHANGED <<pc, entries, ram, dropped, wild>>
  BY DEF Alloc
<1>3. pmem_current_block \in Indices /\ \A j \in Indices : j > pmem_current_block => ~HasRoom(BlockAt(j))
  BY <1>0 DEF Used
<1>4. k \in Indices /\ k + 1 \in 1 .. N /\ HasRoom(m[k + 1])
  BY <1>0, <1>1, <1>3 DEF BlockAt
<1> DEFINE K == k + 1
<1>5. t = Taken(m, K) /\ K \in 1 .. N /\ HasRoom(m[K])
  BY <1>1, <1>4 DEF Taken
<1> HIDE DEF m, N, t, K
<1>6. /\ t = [j \in 1 .. N |-> t[j]] /\ WholesIn(t) /\ ApartIn(t)
      /\ \A j \in 1 .. N : j # K => t[j] = m[j]
      /\ \E q \in Page \ {0} :
           /\ q = t[K].limit \div PAGE_SIZE
           /\ q \in PagesOf(m) /\ PagesOf(t) = PagesOf(m) \ {q}
  <2>1. /\ N \in Nat /\ DOMAIN m = 1 .. N /\ WholesIn(m) /\ ApartIn(m)
        /\ K \in 1 .. N /\ HasRoom(m[K])
    BY <1>0, <1>5
  <2>2. t = Taken(m, K)
    BY <1>5
  <2> QED
    BY <2>1, <2>2, Shrunk
<1>7. t \in Seq(Block(0 .. Space)) /\ Len(t) = N
  BY <1>0, <1>6, TableTyped
<1>8. Free' = PagesOf(t)
  BY DEF Free, PagesOf, t
<1>9. PICK q \in Page \ {0} :
        /\ q = t[K].limit \div PAGE_SIZE
        /\ q \in PagesOf(m) /\ PagesOf(t) = PagesOf(m) \ {q}
  BY <1>6
<1>10. q \in Free /\ Free' = Free \ {q} /\ allocated' = allocated \cup {q}
  <2>1. allocated' = allocated \cup {t[K].limit \div PAGE_SIZE}
    BY <1>1, Zenon DEF t, K
  <2>2. t[K].limit \div PAGE_SIZE = q
    BY <1>9, Zenon
  <2>3. allocated' = allocated \cup {q}
    BY <2>1, <2>2, Zenon
  <2> QED
    BY <1>0, <1>8, <1>9, <2>3
<1>11. Handed
  BY <1>10 DEF Handed
<1>12. Indices' = Indices
  BY <1>0, <1>7 DEF Indices, pmem_blocks_count, t, N
<1>13. TypeOK'
  <2>1. pmem_block_map' \in Seq(Block(0 .. Space)) /\ Len(pmem_block_map') <= MAX_PMEM_ENTRIES
    BY <1>0, <1>7 DEF TypeOK, pmem_blocks_count, t, N
  <2>2. allocated' \subseteq Page
    BY <1>0, <1>10 DEF TypeOK
  <2>3. pmem_current_block' \in Indices'
    BY <1>1, <1>4, <1>12
  <2> QED
    BY <1>0, <1>2, <2>1, <2>2, <2>3 DEF TypeOK, pmem_blocks_count
<1>14. Used'
  <2>1. ASSUME NEW j \in Indices, j > k PROVE ~HasRoom(t[j + 1])
    <3>1. j + 1 \in 1 .. N /\ t[j + 1] = m[j + 1]
      <4>1. j \in 0 .. (N - 1) /\ k \in 0 .. (N - 1) /\ K = k + 1
        BY <1>0, <1>4 DEF K
      <4>2. j + 1 \in 1 .. N /\ j + 1 # K
        BY <1>0, <2>1, <4>1
      <4> QED
        BY <1>6, <4>2
    <3>2. ~HasRoom(BlockAt(j))
      BY <1>0, <1>1, <1>3, <2>1
    <3> QED
      BY <3>1, <3>2 DEF BlockAt, m
  <2>2. ASSUME NEW j \in Indices', j > pmem_current_block' PROVE ~HasRoom(pmem_block_map'[j + 1])
    BY <1>1, <1>12, <2>1, <2>2 DEF t
  <2> QED
    BY <1>0, <1>1, <1>2, <1>4, <1>12, <2>2 DEF Used, BlockAt
<1>15. Accounted'
  BY <1>0, <1>2, <1>10 DEF Accounted
<1>16. WholesIn(pmem_block_map)' /\ ApartIn(pmem_block_map)'
  BY <1>6 DEF WholesIn, ApartIn, t
<1> QED
  BY <1>0, <1>2, <1>11, <1>13, <1>14, <1>15, <1>16 DEF PInv

(* The index wraps when no block is left that has room.                      *)
LEMMA UnderflowKeeps ==
  ASSUME PInv, Underflow \/ AllocWild \/ UNCHANGED vars
  PROVE  PInv'
<1>1. /\ UNCHANGED <<entries, pmem_block_map, ram, dropped, allocated>>
      /\ Indices' = Indices
  BY DEF Underflow, AllocWild, vars, Indices, pmem_blocks_count
<1>2. TypeOK'
  <2>1. pc' \in {"gather", "merge", "alloc", "wild"} /\ wild' \in 0 .. MaxWild
        /\ pmem_current_block' \in {-1, 0} \cup Indices
    BY PmemAssumption DEF PmemAssumption, PInv, TypeOK, Underflow, AllocWild, vars
  <2> QED
    BY <1>1, <2>1 DEF PInv, TypeOK, pmem_blocks_count
<1>3. Used'
  <2>1. CASE Underflow
    <3>1. \A k \in Indices : ~HasRoom(BlockAt(k))
      <4> SUFFICES ASSUME NEW k \in Indices PROVE ~HasRoom(BlockAt(k))
        OBVIOUS
      <4>1. /\ \A j \in Indices : j > pmem_current_block => ~HasRoom(BlockAt(j))
            /\ \A j \in 0 .. pmem_current_block : ~HasRoom(BlockAt(j))
            /\ pmem_current_block \in Indices
        BY <2>1 DEF PInv, Used, Underflow
      <4>2. Indices = 0 .. (pmem_blocks_count - 1) /\ pmem_blocks_count \in Nat
        BY BlockTable DEF PInv, Indices
      <4> QED
        BY <4>1, <4>2
    <3> QED
      BY <1>1, <2>1, <3>1 DEF Used, Underflow, BlockAt
  <2>2. CASE AllocWild \/ UNCHANGED vars
    BY <1>1, <2>2 DEF PInv, Used, AllocWild, vars, BlockAt, pmem_blocks_count
  <2> QED
    BY <2>1, <2>2
<1>4. Accounted'
  BY <1>1 DEF PInv, Accounted, Free
<1>5. WholesIn(pmem_block_map)' /\ (pc' = "merge" => AscendingIn(pmem_block_map)' /\ pmem_blocks_count' > 0)
      /\ (pc' \in {"alloc", "wild"} => ApartIn(pmem_block_map)')
  BY <1>1 DEF PInv, Underflow, AllocWild, vars, WholesIn, AscendingIn, ApartIn, pmem_blocks_count
<1> QED
  BY <1>2, <1>3, <1>4, <1>5 DEF PInv

(* The invariant holds at the start, and every step preserves it.            *)
LEMMA InitPInv == Init => PInv
<1> SUFFICES ASSUME Init PROVE PInv
  OBVIOUS
<1>1. pmem_block_map = <<>> /\ <<>> \in Seq(Block(0 .. Space)) /\ Len(<<>>) = 0 /\ DOMAIN <<>> = {}
  BY DEF Init
<1>2. TypeOK
  BY <1>1, PmemAssumption DEF PmemAssumption, TypeOK, Init, pmem_blocks_count
<1>3. Free = {}
  BY <1>1 DEF Free
<1>4. Used /\ Accounted
  BY <1>1, <1>3 DEF Init, Used, Accounted, pmem_blocks_count
<1> QED
  BY <1>1, <1>2, <1>4 DEF PInv, Init, WholesIn

(* The invariant is inductive: each step of pmem_init and of the allocator   *)
(* keeps it.                                                                 *)
LEMMA StepPInv == PInv /\ [Next]_vars => PInv'
  BY GatherKeeps, DropKeeps, SortKeeps, MergeKeeps, SummaryKeeps, AllocKeeps, UnderflowKeeps DEF Next

(* It holds in every reachable state.                                        *)
LEMMA AlwaysPInv == Spec => []PInv
  BY InitPInv, StepPInv, PTL DEF Spec

-----------------------------------------------------------------------------
(* The table, its indices and the pages handed out are in their types; in    *)
(* particular the table is not overrun, and page 0 is never usable.          *)
THEOREM TypeCorrect == Spec => []TypeOK
<1>1. PInv => TypeOK
  BY DEF PInv
<1> QED
  BY <1>1, AlwaysPInv, PTL

(* For every memory map: each usable page of the entries read is in a block  *)
(* or handed out, never both, and no other page is either; pages of the map  *)
(* are lost only when it has more entries than the table has room for.       *)
THEOREM PagesAccounted == Spec => []Accounted
<1>1. PInv => Accounted
  BY DEF PInv
<1> QED
  BY <1>1, AlwaysPInv, PTL

(* After pmem_init the blocks ascend and are disjoint, however the entries   *)
(* of the map were nested and ordered.                                       *)
THEOREM BlocksApart == Spec => []BlocksDisjoint
<1>1. PInv => BlocksDisjoint
  <2> SUFFICES ASSUME PInv, pc \in {"alloc", "wild"}, NEW j \in Indices, NEW k \in Indices, j < k
               PROVE  BlockAt(j).limit <= BlockAt(k).base
    BY DEF BlocksDisjoint
  <2>1. ApartIn(pmem_block_map) /\ DOMAIN pmem_block_map = 1 .. pmem_blocks_count
        /\ pmem_blocks_count \in Nat
    BY BlockTable DEF PInv
  <2>2. j + 1 \in 1 .. pmem_blocks_count /\ k + 1 \in 1 .. pmem_blocks_count /\ j + 1 < k + 1
    BY <2>1 DEF Indices
  <2> QED
    BY <2>1, <2>2 DEF ApartIn, BlockAt
<1> QED
  BY <1>1, AlwaysPInv, PTL

(* The allocator gives up only when every page was handed out.               *)
THEOREM EveryPageServed == Spec => []NothingStranded
<1>1. PInv => NothingStranded
  <2> SUFFICES ASSUME PInv, pmem_current_block = -1 PROVE allocated = ram
    BY DEF NothingStranded
  <2>1. pc = "wild"
    BY DEF PInv, TypeOK, Used, Indices
  <2>2. Free = {}
    <3>1. DOMAIN pmem_block_map = 1 .. pmem_blocks_count /\ pmem_blocks_count \in Nat
      BY BlockTable DEF PInv
    <3>2. ASSUME NEW k \in 1 .. pmem_blocks_count PROVE Pages(pmem_block_map[k]) = {}
      <4>1. Whole(pmem_block_map[k])
        BY <3>1 DEF PInv, WholesIn
      <4>2. ~HasRoom(BlockAt(k - 1)) /\ BlockAt(k - 1) = pmem_block_map[k]
        BY <2>1, <3>1 DEF PInv, Used, Indices, BlockAt
      <4> DEFINE f == First(pmem_block_map[k])
                 e == End(pmem_block_map[k])
      <4>3. f \in Nat /\ e \in Nat /\ ~(f < e)
        BY <4>1, <4>2, WholeOrder
      <4>4. Pages(pmem_block_map[k]) = f .. (e - 1)
        BY <4>1, PagesOfWhole
      <4> HIDE DEF f, e
      <4> QED
        BY <4>3, <4>4
    <3> QED
      BY <3>1, <3>2 DEF Free
  <2> QED
    BY <2>2 DEF PInv, Accounted
<1> QED
  BY <1>1, AlwaysPInv, PTL

(* Every call hands out a usable page that was never handed out before, and  *)
(* takes it out of the blocks.                                               *)
THEOREM PagesFresh == Spec => AllocFresh
<1>1. PInv /\ [Next]_vars =>
        [Alloc => \E q \in ram \ allocated : allocated' = allocated \cup {q} /\ Free' = Free \ {q}]_vars
  <2> SUFFICES ASSUME PInv, Alloc
               PROVE  \E q \in ram \ allocated : allocated' = allocated \cup {q} /\ Free' = Free \ {q}
    OBVIOUS
  <2>1. Handed /\ Free = ram \ allocated
    BY AllocKeeps DEF PInv, Accounted
  <2> QED
    BY <2>1 DEF Handed
<1> QED
  BY <1>1, AlwaysPInv, PTL DEF Spec, AllocFresh
=============================================================================
