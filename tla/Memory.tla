-------------------------------- MODULE Memory --------------------------------
(***************************************************************************)
(* pmem_init with the real qsort: Pmem, whose Sort is any sorted           *)
(* permutation in one step, joined to QSort, which works on                *)
(* pmem_block_map itself.                                                  *)
(***************************************************************************)
EXTENDS Pmem

VARIABLES
  input,                               \* the array when qsort was called
  calls, left, right, p, i, depth, qpc \* qsort's state

sortVars == <<input, calls, left, right, p, i, depth, qpc>>
pmemVars == <<entries, pmem_current_block, ram, dropped, allocated, wild>>

QS == INSTANCE QSort
        WITH Elem <- Block(0 .. Space), MaxN <- MAX_PMEM_ENTRIES,
             arr <- pmem_block_map, pc <- qpc

Idle ==
  /\ input = <<>> /\ calls = <<>>
  /\ left = 0 /\ right = 0 /\ p = 0 /\ i = 0 /\ depth = 0
  /\ qpc = "call"

MemInit == Init /\ Idle

-----------------------------------------------------------------------------
(* Everything but the sort. *)
Alone ==
  /\ \/ \E base_addr \in 0 .. Space : \E length \in 0 .. (Space - base_addr), type \in Types :
          Gather(base_addr, length, type) \/ Drop(base_addr, length, type)
     \/ Merge \/ Summary
     \/ Alloc \/ Underflow \/ AllocWild
  /\ UNCHANGED sortVars

CallSort ==
  /\ pc = "gather" /\ pmem_blocks_count > 0
  /\ pc' = "sort"
  /\ input' = pmem_block_map
  /\ calls' = <<QS!FirstCall>>
  /\ UNCHANGED <<pmem_block_map, pmemVars, left, right, p, i, depth, qpc>>

SortStep ==
  /\ pc = "sort"
  /\ QS!Return \/ QS!Call \/ QS!Step \/ QS!Recurse
  /\ UNCHANGED <<pc, pmemVars>>

SortReturns ==
  /\ pc = "sort" /\ QS!Returned
  /\ pc' = "merge"
  /\ input' = <<>>
  /\ left' = 0 /\ right' = 0 /\ p' = 0 /\ i' = 0 /\ depth' = 0
  /\ UNCHANGED <<pmem_block_map, pmemVars, calls, qpc>>

MemNext == Alone \/ CallSort \/ SortStep \/ SortReturns

MemSpec == MemInit /\ [][MemNext]_<<vars, sortVars>>

-----------------------------------------------------------------------------
(* Seen from outside, the array is sorted at once when qsort returns. *)
Atomic == INSTANCE Pmem
            WITH pc <- IF pc = "sort" THEN "gather" ELSE pc,
                 pmem_block_map <- IF pc = "sort" THEN input ELSE pmem_block_map

(* pmem_init with the real qsort does what Pmem says, whose only promise     *)
(* about the sort is a sorted permutation: for every memory map, with blocks *)
(* of equal bases and in any order, the partitions end there.                *)
PmemSpec == Atomic!Spec

(* The types of whichever of the two is at work. *)
MemTypeOK == IF pc = "sort" THEN QS!TypeOK ELSE TypeOK

(* The calls still to come work on separate parts of the array, and no block *)
(* will have to move from one part to another.                               *)
PartsSeparate == QS!PartsSeparate

(* qsort's recursion on the 16 KiB boot stack never has more frames there    *)
(* than the table has blocks, and does not run away where an unsigned bound  *)
(* meets 0.                                                                  *)
DepthBounded == pc = "sort" => QS!DepthBounded
=============================================================================
