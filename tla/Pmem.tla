--------------------------------- MODULE Pmem ---------------------------------
(***************************************************************************)
(* kernel/pmem.c: pmem_init turns the boot loader's memory map into a      *)
(* sorted array of disjoint blocks, and pmem_alloc_page hands out pages    *)
(* from the top of the last block downwards.  Nothing is ever freed.       *)
(*                                                                         *)
(* Addresses are scaled down: PAGE_SIZE bytes to a page, Space bytes of    *)
(* physical memory.  qsort is QSort's; here it is any sorted permutation.  *)
(***************************************************************************)
EXTENDS Blocks, Sequences

CONSTANTS
  PAGE_SIZE,
  Space,           \* physical memory ends here
  Types,           \* of memory map entries; 1 is available RAM
  MaxEntries,      \* bound: the longest memory map
  MAX_PMEM_ENTRIES,
  MaxWild          \* bound: pages handed out behind the end of memory

(* Pages have a size, and some entries are available RAM. *)
ASSUME PmemAssumption ==
  /\ PAGE_SIZE \in Nat \ {0} /\ Space \in Nat
  /\ 1 \in Types
  /\ MaxEntries \in Nat /\ MAX_PMEM_ENTRIES \in Nat /\ MaxWild \in Nat

VARIABLES
  pc,
  entries,                 \* memory map entries passed so far
  pmem_block_map,          \* its first pmem_blocks_count blocks
  pmem_current_block,      \* -1 stands for 2^64 - 1
  ram,                     \* history: the pages that the entries made usable
  dropped,                 \* history: and those only the entries behind a full
                           \* table would have made usable
  allocated,               \* history: the pages handed out
  wild                     \* history: pages handed out that are no page of ours

vars ==
  <<pc, entries, pmem_block_map, pmem_current_block, ram, dropped, allocated, wild>>

Page == 0 .. (Space \div PAGE_SIZE - 1)
pmem_blocks_count == Len(pmem_block_map)
Indices == 0 .. (pmem_blocks_count - 1)
BlockAt(k) == pmem_block_map[k + 1]    \* C's pmem_block_map[k]

(* The table is not overrun, its index is in range or has wrapped, and the   *)
(* lowest page is never usable.                                              *)
TypeOK ==
  /\ pc \in {"gather", "merge", "alloc", "wild"}
  /\ entries \in 0 .. MaxEntries
  /\ pmem_block_map \in Seq(Block(0 .. Space))
  /\ pmem_blocks_count <= MAX_PMEM_ENTRIES
  /\ pmem_current_block \in {-1, 0} \cup Indices
  /\ ram \subseteq Page \ {0} /\ dropped \subseteq Page \ {0} /\ allocated \subseteq Page
  /\ wild \in 0 .. MaxWild

Init ==
  /\ pc = "gather" /\ entries = 0
  /\ pmem_block_map = <<>> /\ pmem_current_block = 0
  /\ ram = {} /\ dropped = {} /\ allocated = {} /\ wild = 0

-----------------------------------------------------------------------------
(* The reference: the pages an available range covers as a whole, but 0. *)
PagesWithin(base, limit) ==
  {q \in Page \ {0} : base <= q * PAGE_SIZE /\ (q + 1) * PAGE_SIZE <= limit}

(* The base of an entry, aligned up, and moved off the lowest page. *)
AlignUp(addr) ==
  LET aligned == IF addr % PAGE_SIZE # 0 THEN addr + PAGE_SIZE - (addr % PAGE_SIZE)
                                         ELSE addr
  IN  IF aligned = 0 THEN PAGE_SIZE ELSE aligned

AlignDown(addr) == addr - (addr % PAGE_SIZE)

(* Mutant of Full: > for >=. *)
FullLate == pmem_blocks_count > MAX_PMEM_ENTRIES

Full == pmem_blocks_count >= MAX_PMEM_ENTRIES

(* One entry of the memory map. *)
Gather(base_addr, length, type) ==
  /\ pc = "gather" /\ ~Full /\ entries < MaxEntries
  /\ entries' = entries + 1
  /\ LET block == [base |-> AlignUp(base_addr), limit |-> AlignDown(base_addr + length)]
         usable == type = 1 /\ block.base < block.limit
     IN  pmem_block_map' = IF usable THEN Append(pmem_block_map, block)
                                     ELSE pmem_block_map
  /\ ram' = IF type = 1 THEN ram \cup PagesWithin(base_addr, base_addr + length) ELSE ram
  /\ UNCHANGED <<pc, pmem_current_block, dropped, allocated, wild>>

(* The table is full: the loop breaks off, and an entry behind it is not     *)
(* looked at.                                                                *)
Drop(base_addr, length, type) ==
  /\ pc = "gather" /\ Full /\ entries < MaxEntries
  /\ entries' = entries + 1
  /\ dropped' =
       IF type = 1 THEN dropped \cup (PagesWithin(base_addr, base_addr + length) \ ram)
                   ELSE dropped
  /\ UNCHANGED <<pc, pmem_block_map, pmem_current_block, ram, allocated, wild>>

(* The map ends, or the table is full; the blocks are sorted.                *)
Sort ==
  /\ pc = "gather" /\ pmem_blocks_count > 0
  /\ pc' = "merge"
  /\ pmem_block_map' \in
       {s \in [1 .. pmem_blocks_count -> {pmem_block_map[k] : k \in DOMAIN pmem_block_map}] :
          IsPermutation(s, pmem_block_map) /\ IsSorted(s)}
  /\ UNCHANGED <<entries, pmem_current_block, ram, dropped, allocated, wild>>

(* Mutant of Overlap: only nested blocks. *)
Nested(a, b) == a.base <= b.base /\ a.limit >= b.limit

Overlap(a, b) ==
  \/ a.base <= b.base /\ a.limit > b.base
  \/ b.base <= a.base /\ b.limit > a.base

(* Mutant of Union: the later block's limit, without the max. *)
UnionLater(a, b) == [base |-> a.base, limit |-> b.limit]

Union(a, b) ==
  [base |-> IF a.base < b.base THEN a.base ELSE b.base,
   limit |-> IF a.limit > b.limit THEN a.limit ELSE b.limit]

OverlappingPairs ==
  {ij \in Indices \X Indices : ij[1] < ij[2] /\ Overlap(BlockAt(ij[1]), BlockAt(ij[2]))}

(* The first pair the two loops come upon. *)
IsFirst(ij) ==
  /\ ij \in OverlappingPairs
  /\ \A other \in OverlappingPairs :
       ij[1] < other[1] \/ (ij[1] = other[1] /\ ij[2] <= other[2])

(* Block j goes into block i, and those behind j move up. *)
Merge ==
  /\ pc = "merge"
  /\ \E ij \in Indices \X Indices :
       /\ IsFirst(ij)
       /\ pmem_block_map' =
            [k \in 1 .. (pmem_blocks_count - 1) |->
               IF k = ij[1] + 1 THEN Union(BlockAt(ij[1]), BlockAt(ij[2]))
               ELSE IF k <= ij[2] THEN pmem_block_map[k]
               ELSE pmem_block_map[k + 1]]
  /\ UNCHANGED <<pc, entries, pmem_current_block, ram, dropped, allocated, wild>>

(* Nothing overlaps: the summary leaves the last block current. *)
Summary ==
  /\ pc = "merge" /\ OverlappingPairs = {}
  /\ pc' = "alloc"
  /\ pmem_current_block' = pmem_blocks_count - 1
  /\ UNCHANGED <<entries, pmem_block_map, ram, dropped, allocated, wild>>

-----------------------------------------------------------------------------
(* Mutant of HasRoom: > for >=, the last page of a block is kept back. *)
HasMoreRoom(block) == block.limit - block.base > PAGE_SIZE

(* Mutant of HasRoom: an empty block will do. *)
HasAnyRoom(block) == block.limit - block.base >= 0

HasRoom(block) == block.limit - block.base >= PAGE_SIZE

(* pmem_alloc_page finds a page in the current block or, after the           *)
(* recursive call, in the nearest block below that has one.                  *)
Alloc ==
  /\ pc = "alloc"
  /\ \E k \in 0 .. pmem_current_block :
       /\ HasRoom(BlockAt(k))
       /\ \A m \in (k + 1) .. pmem_current_block : ~HasRoom(BlockAt(m))
       /\ pmem_current_block' = k
       /\ pmem_block_map' = [pmem_block_map EXCEPT ![k + 1].limit = @ - PAGE_SIZE]
       /\ allocated' = allocated \cup {pmem_block_map'[k + 1].limit \div PAGE_SIZE}
  /\ UNCHANGED <<pc, entries, ram, dropped, wild>>

(* None has: the index wraps below 0, which no size_t is, and the words in   *)
(* front of pmem_block_map are taken for a block.                            *)
Underflow ==
  /\ pc = "alloc"
  /\ \A k \in 0 .. pmem_current_block : ~HasRoom(BlockAt(k))
  /\ pmem_current_block' = -1
  /\ pc' = "wild"
  /\ UNCHANGED <<entries, pmem_block_map, ram, dropped, allocated, wild>>

AllocWild ==
  /\ pc = "wild" /\ wild < MaxWild
  /\ wild' = wild + 1
  /\ UNCHANGED <<pc, entries, pmem_block_map, pmem_current_block, ram, dropped, allocated>>

Next ==
  \/ \E base_addr \in 0 .. Space : \E length \in 0 .. (Space - base_addr), type \in Types :
       Gather(base_addr, length, type) \/ Drop(base_addr, length, type)
  \/ Sort \/ Merge \/ Summary
  \/ Alloc \/ Underflow \/ AllocWild

Spec == Init /\ [][Next]_vars

-----------------------------------------------------------------------------
Pages(block) == PagesWithin(block.base, block.limit)
Free == UNION {Pages(pmem_block_map[k]) : k \in DOMAIN pmem_block_map}

(* At every moment each usable page of the entries read is either in a block *)
(* or handed out, never both, and no other page is: aligning, sorting and    *)
(* merging overlapping entries lose and invent nothing.  Pages of the memory *)
(* map are lost only with entries behind a full table, and the table is not  *)
(* full before the map has more entries than it has room for.                *)
Accounted ==
  /\ Free = ram \ allocated /\ allocated \subseteq ram
  /\ dropped # {} => entries > MAX_PMEM_ENTRIES

(* After pmem_init the blocks ascend and are disjoint, so no page is in two  *)
(* of them, however the firmware's entries were nested.                      *)
BlocksDisjoint ==
  pc \in {"alloc", "wild"} =>
    \A j, k \in Indices : j < k => BlockAt(j).limit <= BlockAt(k).base

(* Every call hands out a page that was never handed out before, nor is in   *)
(* another block, and never the lowest page, which stands for "unmapped".    *)
AllocFresh ==
  [][Alloc => \E q \in ram \ allocated :
                allocated' = allocated \cup {q} /\ Free' = Free \ {q}]_vars

(* The allocator gives up only when it has handed out everything.            *)
NothingStranded == pmem_current_block = -1 => allocated = ram

(* pmem.c:31: out of physical memory, pmem_alloc_page says so and does not   *)
(* return.                                                                   *)
OutOfMemoryStops == wild = 0
=============================================================================
