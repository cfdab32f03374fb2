-------------------------------- MODULE Paging --------------------------------
(***************************************************************************)
(* kernel/paging.c: paging_init builds the kernel's own page tables, maps  *)
(* the frame buffer, and maps every block of pmem_block_map from address 0 *)
(* upwards, while the tables for all that are taken by pmem_alloc_page     *)
(* from the same blocks.  A table is reached only through the one page at  *)
(* TEMP_MAP_ADDR.  Interrupts are off; what interleaves is the allocator   *)
(* and the loop over what it allocates from.                               *)
(*                                                                         *)
(* Pages and frames are numbered.  A table has N entries where the         *)
(* hardware's has 512, so "2M" is N pages and "1G" is N * N.               *)
(***************************************************************************)
EXTENDS Pmem

CONSTANTS
  N,               \* entries of a table
  FB_FRAME,        \* the frame buffer's first frame
  FbPages,         \* how many pages it may have
  Layouts,         \* what pmem_init may leave in pmem_block_map
  Remains          \* what memory may hold where tables will be

VARIABLES
  mem,             \* the tables in memory: frame -> entry -> frame
  phase,           \* of paging_init
  level,           \* in paging_map_page: of the table looked at; 0 outside
  virt, phys,      \* its arguments
  block,           \* the index i of the loop over the blocks
  linear_limit,
  fb               \* the frame buffer's size

pagingVars == <<mem, phase, level, virt, phys, block, linear_limit, fb>>

Absent == -1
Entry == 0 .. (N - 1)
OneG == N * N

(* The pages behind one entry of a table of each level, from 1 to 4.         *)
Reach == <<1, N, OneG, OneG * N>>

KERNEL_LMA == N
KERNEL_VMA == (N - 1) * Reach[4] + (N - 2) * Reach[3]
LFB_VMA    == (N - 1) * Reach[4] + (N - 3) * Reach[3] + N
TEMP_MAP_ADDR == KERNEL_VMA

(* The kernel's own tables, which stand for its image.  Its text, its stack  *)
(* and kernel_pd1, whose tables no entry points to, are beside them in the   *)
(* code: they make the image longer, and the memory above it smaller.        *)
kernel_pml4 == KERNEL_LMA
kernel_pdpt0 == KERNEL_LMA + 1
kernel_pd0 == KERNEL_LMA + 2
kernel_pd0_pt(k) == KERNEL_LMA + 3 + k
KernelImage == KERNEL_LMA .. (KERNEL_LMA + 2 + N)

(* What an entry may point to. *)
Frame == Page \cup 0 .. (OneG - 1) \cup FB_FRAME .. (FB_FRAME + OneG)

(* A table as pmem_init leaves it: blocks of whole pages, without the        *)
(* lowest, one behind the other.                                             *)
IsLayout(m) ==
  /\ m \in Seq(Block(0 .. Space)) /\ Len(m) \in 1 .. MAX_PMEM_ENTRIES
  /\ \A k \in 1 .. Len(m) :
       /\ m[k].base % PAGE_SIZE = 0 /\ m[k].limit % PAGE_SIZE = 0
       /\ 0 < m[k].base /\ m[k].base <= m[k].limit
  /\ \A j, k \in 1 .. Len(m) : j < k => m[j].limit <= m[k].base

(* The kernel is in memory, and memory below the kernel's part of the        *)
(* address space; a frame buffer that is mapped at all ends below the kernel.*)
ASSUME PagingAssumption ==
  /\ N \in Nat \ (0 .. 2)
  /\ KernelImage \subseteq Page
  /\ Space \div PAGE_SIZE <= (N - 1) * Reach[4]
  /\ FB_FRAME \in Nat
  /\ \A n \in FbPages : n \in Nat /\ (n <= OneG - N \/ n > OneG)
  /\ Remains \subseteq [Page -> [Entry -> Frame]]
  /\ \A m \in Layouts : IsLayout(m)

(* The tables for n pages: of page entries, of directories, of directory     *)
(* pointers.  The frame buffer's directory pointers are the kernel's.        *)
UpTo(n, d) == (n + d - 1) \div d

LinearTables(n) == UpTo(n, N) + UpTo(n, OneG) + UpTo(n, Reach[4])
FbTables(n) == IF n \in 1 .. OneG THEN 1 + UpTo(n, N) ELSE 0

RamOf(m) == UNION {PagesWithin(m[k].base, m[k].limit) : k \in 1 .. Len(m)}
AboveImage == {q \in Page : q > KERNEL_LMA + 2 + N}

(* There is memory enough above the kernel's image for all of them, which is *)
(* little more than one page in N.  The code does not look.                  *)
ASSUME RoomAssumption ==
  \A m \in Layouts, n \in FbPages :
    LinearTables(Cardinality(RamOf(m))) + FbTables(n) <= Cardinality(RamOf(m) \cap AboveImage)

-----------------------------------------------------------------------------
(* PML4_INDEX, PDPT_INDEX, PD_INDEX and PT_INDEX are levels 4 to 1. *)
Index(l, v) == (v \div Reach[l]) % N

(* The MMU's walk: the table of each level, and the frame. *)
Lookup(m, table, l, v) ==
  IF table = Absent THEN Absent ELSE m[table][Index(l, v)]

Pdpt(m, v) == m[kernel_pml4][Index(4, v)]
Pd(m, v) == Lookup(m, Pdpt(m, v), 3, v)
Pt(m, v) == Lookup(m, Pd(m, v), 2, v)
FrameOf(m, v) == Lookup(m, Pt(m, v), 1, v)

(* paging_temp_map: the first entry of kernel_pd0_pt, and invlpg. *)
paging_temp_map(m, frame) == [m EXCEPT ![kernel_pd0_pt(0)][0] = frame]

Temp == mem[kernel_pd0_pt(0)][0]
Table == IF level = 4 THEN kernel_pml4 ELSE Temp
Current == mem[Table][Index(level, virt)]

PagingInit ==
  /\ pc = "alloc" /\ entries = 0 /\ wild = 0 /\ allocated = {}
  /\ pmem_block_map \in Layouts
  /\ pmem_current_block = pmem_blocks_count - 1
  /\ ram = UNION {PagesWithin(BlockAt(k).base, BlockAt(k).limit) : k \in Indices}
  /\ dropped = {}
  /\ mem \in Remains
  /\ phase = "kernel" /\ level = 0
  /\ virt = 0 /\ phys = 0 /\ block = 0 /\ linear_limit = 0
  /\ fb \in FbPages

-----------------------------------------------------------------------------
(* What paging_remap_kernel writes.  It also fills kernel_pd1 and its tables *)
(* but no entry of kernel_pdpt0 ever points to them.                         *)
KernelTable(f) ==
  [e \in Entry |->
     CASE f = kernel_pml4  -> IF e = N - 1 THEN kernel_pdpt0 ELSE Absent
       [] f = kernel_pdpt0 -> IF e = N - 2 THEN kernel_pd0 ELSE Absent
       [] f = kernel_pd0   -> kernel_pd0_pt(e)
       [] OTHER            -> (f - kernel_pd0_pt(0)) * N + e]

RemapKernel ==
  /\ phase = "kernel"
  /\ phase' = "lfb"
  /\ mem' = [f \in Page |-> IF f \in KernelImage THEN KernelTable(f) ELSE mem[f]]
  /\ virt' = LFB_VMA /\ phys' = FB_FRAME
  /\ UNCHANGED <<vars, level, block, linear_limit, fb>>

(* Mutant of InFrameBuffer: the last page is not mapped. *)
InFrameBufferShort == fb <= OneG /\ phys + 1 < FB_FRAME + fb

InFrameBuffer == fb <= OneG /\ phys < FB_FRAME + fb

LfbPage ==
  /\ phase = "lfb" /\ level = 0
  /\ InFrameBuffer
  /\ level' = 4
  /\ UNCHANGED <<vars, mem, phase, virt, phys, block, linear_limit, fb>>

LfbDone ==
  /\ phase = "lfb" /\ level = 0
  /\ ~InFrameBuffer
  /\ phase' = "ram"
  /\ phys' = BlockAt(0).base \div PAGE_SIZE
  /\ UNCHANGED <<vars, mem, level, virt, block, linear_limit, fb>>

(* Mutant of InBlock: the last page is left out. *)
InBlockShort == (phys + 1) * PAGE_SIZE < BlockAt(block).limit

(* Mutant of InBlock: the limit the block had before paging_init. *)
InBlockCached ==
  /\ phys \in ram
  /\ block + 1 < pmem_blocks_count => phys * PAGE_SIZE < BlockAt(block + 1).base

(* physaddr < block->limit, and block->limit is what it is now. *)
InBlock == phys * PAGE_SIZE < BlockAt(block).limit

RamPage ==
  /\ phase = "ram" /\ level = 0
  /\ InBlock
  /\ level' = 4
  /\ virt' = linear_limit
  /\ UNCHANGED <<vars, mem, phase, phys, block, linear_limit, fb>>

RamBlockDone ==
  /\ phase = "ram" /\ level = 0
  /\ ~InBlock
  /\ block' = block + 1
  /\ IF block' < pmem_blocks_count
       THEN phys' = BlockAt(block').base \div PAGE_SIZE /\ UNCHANGED phase
       ELSE phase' = "done" /\ UNCHANGED phys
  /\ UNCHANGED <<vars, mem, level, virt, linear_limit, fb>>

(* paging_init has returned. *)
Finished == phase = "done" /\ UNCHANGED <<vars, pagingVars>>

-----------------------------------------------------------------------------
(* paging_map_page, one level at a time. *)

(* Mutant of Remap: the pointer into TEMP_MAP_ADDR is used as it is. *)
NoRemap(m) == m

(* The new table is at TEMP_MAP_ADDR: map the one above it again. *)
Remap(m) ==
  CASE level = 4 -> m
    [] level = 3 -> paging_temp_map(m, Pdpt(m, virt))
    [] level = 2 -> paging_temp_map(m, Pd(m, virt))

Cleared(m, page) ==
  [paging_temp_map(m, page) EXCEPT ![page] = [e \in Entry |-> Absent]]

(* The entry is not present: allocate, link and clear a table. *)
CreateTable ==
  /\ level > 1 /\ Current = Absent
  /\ Alloc
  /\ LET page == BlockAt(pmem_current_block)'.limit \div PAGE_SIZE
     IN  mem' = Remap(Cleared([mem EXCEPT ![Table][Index(level, virt)] = page], page))
  /\ UNCHANGED <<phase, level, virt, phys, block, linear_limit, fb>>

Descend ==
  /\ level > 1 /\ Current # Absent
  /\ mem' = paging_temp_map(mem, Current)
  /\ level' = level - 1
  /\ UNCHANGED <<vars, phase, virt, phys, block, linear_limit, fb>>

(* The entry of the page itself; back in the loop, the next page. *)
StorePage ==
  /\ level = 1
  /\ mem' = [mem EXCEPT ![Temp][Index(1, virt)] = phys]
  /\ level' = 0
  /\ phys' = phys + 1
  /\ IF phase = "lfb" THEN virt' = virt + 1 /\ UNCHANGED linear_limit
                      ELSE linear_limit' = linear_limit + 1 /\ UNCHANGED virt
  /\ UNCHANGED <<vars, phase, block, fb>>

PagingNext ==
  \/ RemapKernel \/ LfbPage \/ LfbDone \/ RamPage \/ RamBlockDone
  \/ CreateTable \/ Descend \/ StorePage
  \/ Finished

PagingSpec == PagingInit /\ [][PagingNext]_<<vars, pagingVars>>

-----------------------------------------------------------------------------
(* The types of the tables and of the loops' variables; linear_limit never   *)
(* passes the number of usable pages, and every block's base stays at or     *)
(* below its limit while tables are cut off it.                              *)
PagingTypeOK ==
  /\ TypeOK
  /\ \A k \in Indices : BlockAt(k).base <= BlockAt(k).limit
  /\ mem \in [Page -> [Entry -> Frame \cup {Absent}]]
  /\ phase \in {"kernel", "lfb", "ram", "done"} /\ level \in 0 .. 4
  /\ block \in 0 .. pmem_blocks_count /\ linear_limit <= Cardinality(ram)

(* No table is put into the kernel's image.  pmem knows nothing of the       *)
(* kernel: it is far away only because pages are taken from the top, and     *)
(* paging_init takes no more than RoomAssumption allows for.                 *)
ImageKept == allocated \cap KernelImage = {}

(* All virtual pages but the one of TEMP_MAP_ADDR. *)
VPage == (0 .. (N * Reach[4] - 1)) \ {TEMP_MAP_ADDR}

(* The first page behind boot_pml4[N - 1], which points to boot_pdpt0.       *)
BOOT_VMA == (N - 1) * Reach[4]

(* The tables of boot.S, once it has dropped the identity map: [0, 2G) at    *)
(* KERNEL_VMA, behind the last two entries of boot_pdpt0, and by the same    *)
(* way behind the first two.  With tables of three entries, which the        *)
(* hardware's are not, one entry would have to be both.                      *)
boot_pml4(v) ==
  IF v - KERNEL_VMA \in 0 .. (2 * OneG - 1) THEN v - KERNEL_VMA
  ELSE IF v - BOOT_VMA \in 0 .. (2 * OneG - 1) THEN v - BOOT_VMA
  ELSE Absent

(* What a virtual page means. *)
Translate(v) == IF phase = "kernel" THEN boot_pml4(v) ELSE FrameOf(mem, v)

Promise == INSTANCE AddressSpace
            WITH map <- [v \in VPage |-> Translate(v)], usable <- ram,
                 KernelPages <- OneG, Unmapped <- Absent

(* paging_init keeps AddressSpace's promise: whichever tables have to be     *)
(* created on the way, each paging_map_page gives one virtual page its frame *)
(* and changes no other, the kernel's own included.                          *)
SpaceSpec == Promise!Spec

(* In the end every page that pmem still holds is in the linear space.       *)
LinearComplete ==
  phase = "done" => Free \subseteq {Translate(v) : v \in 0 .. (linear_limit - 1)}

(* The frame buffer is mapped as a whole, up to the 1G - 2M that lie between *)
(* LFB_VMA and the kernel.                                                   *)
LfbMapped ==
  phase \in {"ram", "done"} /\ fb <= OneG - N =>
    \A k \in 0 .. (fb - 1) : Translate(LFB_VMA + k) = FB_FRAME + k

(* Pages that are a page table, and memory free for use at the same time.    *)
Aliased == allocated \cap {Translate(v) : v \in 0 .. (linear_limit - 1)}

(* As long as the last block can give all the tables, only the last pages    *)
(* mapped may be among them: those the last call took, which are three       *)
(* at most, a table for each level.                                          *)
AliasBounded ==
  pmem_current_block = pmem_blocks_count - 1 =>
    Aliased \subseteq {Translate(v) : v \in {w \in 0 .. (linear_limit - 1) : w >= linear_limit - 3}}

(* paging.c:221, "Map bottom-half linear address space to available physical *)
(* space": a page that was taken for a table is not available.               *)
TablesNotMapped == Aliased = {}
=============================================================================
