--------------------------------- MODULE Vmem ---------------------------------
(***************************************************************************)
(* kernel/vmem.c over the linear space that paging_init leaves: vmem_alloc *)
(* moves linear_base up and never looks at a page.  It trusts that what    *)
(* lies below linear_limit is mapped, each page to memory of its own.      *)
(***************************************************************************)
EXTENDS Paging

CONSTANTS
  Sizes,           \* the sizes asked for, in bytes
  Word             \* the addresses there are: 2^64

(* Nobody asks for nothing. *)
ASSUME VmemAssumption == Sizes \subseteq Nat \ {0} /\ Word \in Nat \ {0}

VARIABLES
  linear_base,
  spins,           \* vmem_alloc has found no room, and does not return
  handed           \* history: the addresses given away

vmemVars == <<linear_base, spins, handed>>

VmemInit == PagingInit /\ linear_base = 0 /\ spins = FALSE /\ handed = {}

Given(n) == linear_base .. (linear_base + n - 1)
NewBase(n) == (linear_base + n) % Word

(* Mutant of NoRoom: the address is looked at, the size is not. *)
NoRoomAtBase(n) == linear_base >= linear_limit * PAGE_SIZE

NoRoom(n) == NewBase(n) >= linear_limit * PAGE_SIZE

vmem_alloc(n) ==
  /\ phase = "done" /\ ~spins
  /\ IF NoRoom(n) THEN spins' = TRUE /\ UNCHANGED <<linear_base, handed>>
     ELSE /\ linear_base' = NewBase(n)
          /\ handed' = handed \cup Given(n)
          /\ UNCHANGED spins
  /\ UNCHANGED <<vars, pagingVars>>

VmemNext ==
  \/ PagingNext /\ UNCHANGED vmemVars
  \/ \E n \in Sizes : vmem_alloc(n)

VmemSpec == VmemInit /\ [][VmemNext]_<<vars, pagingVars, vmemVars>>

-----------------------------------------------------------------------------
FramesOf(addresses) == {Translate(a \div PAGE_SIZE) : a \in addresses}

(* What vmem_alloc gives away was not given away before, is mapped, to pages *)
(* the firmware calls usable, and no two of its pages, nor one of an earlier *)
(* caller's, are the same memory.                                            *)
VmemFresh ==
  [][LET new == handed' \ handed IN
       linear_base' # linear_base =>
         /\ Cardinality(new) = linear_base' - linear_base
         /\ FramesOf(new) \subseteq ram
         /\ \A a \in new, b \in handed' :
              a \div PAGE_SIZE # b \div PAGE_SIZE =>
                Translate(a \div PAGE_SIZE) # Translate(b \div PAGE_SIZE)]_<<linear_base, handed>>
=============================================================================
