----------------------------- MODULE AddressSpace -----------------------------
(***************************************************************************)
(* What paging_init promises: boot.S's mapping makes way for the kernel's  *)
(* own, which leaves the kernel where it is, the frame buffer appears      *)
(* page by page at LFB_VMA, and from address 0 upwards a gapless space     *)
(* grows over the usable pages of memory, in their order.  After the       *)
(* first, no step changes what any other address means.                    *)
(***************************************************************************)
EXTENDS Integers

CONSTANTS
  VPage,           \* the virtual pages looked at
  KERNEL_VMA, KernelPages,   \* the kernel's first page, and their number
  BOOT_VMA,        \* where boot.S's tables show the same memory again
  LFB_VMA, FB_FRAME,         \* the window of the frame buffer, and its frames
  Unmapped

VARIABLES
  map,             \* virtual page -> frame
  linear_limit,    \* the first page above the linear space
  usable           \* the pages of memory that may be in it

spaceVars == <<map, linear_limit, usable>>

(* The first `pages' frames, from virtual page `first' upwards. *)
Window(v, first, pages) == v - first \in 0 .. (pages - 1)

(* What boot.S leaves: twice the kernel's pages, there and a second time at  *)
(* BOOT_VMA, and nothing at 0 any more.                                      *)
BootMap ==
  [v \in VPage |-> IF Window(v, KERNEL_VMA, 2 * KernelPages) THEN v - KERNEL_VMA
                   ELSE IF Window(v, BOOT_VMA, 2 * KernelPages) THEN v - BOOT_VMA
                   ELSE Unmapped]

KernelMap ==
  [v \in VPage |-> IF Window(v, KERNEL_VMA, KernelPages) THEN v - KERNEL_VMA
                   ELSE Unmapped]

Init == map = BootMap /\ linear_limit = 0

(* The kernel's own tables are loaded. *)
LeaveBootMap ==
  /\ map = BootMap /\ map' = KernelMap
  /\ UNCHANGED <<linear_limit, usable>>

MapPage(v, f) ==
  /\ map # BootMap /\ map[v] = Unmapped
  /\ map' = [map EXCEPT ![v] = f]

MapFrameBuffer ==
  /\ \E v \in VPage :
       /\ v >= LFB_VMA /\ v < KERNEL_VMA
       /\ v = LFB_VMA \/ map[v - 1] # Unmapped
       /\ MapPage(v, FB_FRAME + (v - LFB_VMA))
  /\ UNCHANGED <<linear_limit, usable>>

MapRam ==
  /\ linear_limit' = linear_limit + 1
  /\ \E f \in usable \cap {map'[linear_limit]} :
       /\ linear_limit > 0 => map[linear_limit - 1] < f
       /\ MapPage(linear_limit, f)
  /\ UNCHANGED usable

Next == LeaveBootMap \/ MapFrameBuffer \/ MapRam

Spec == Init /\ [][Next]_spaceVars
=============================================================================
