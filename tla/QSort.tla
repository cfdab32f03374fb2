-------------------------------- MODULE QSort --------------------------------
(***************************************************************************)
(* klib/algo/qsort.c, as pmem_init calls it.  A frame that waits for its    *)
(* first recursive call has only the bounds of its second to keep, and one *)
(* that waits for its second has nothing more to do: `calls' holds the     *)
(* calls still to come.  Both kinds stay on the C stack, so each call has  *)
(* its depth: the frames of _qsort there, its own included, once it runs.  *)
(* Indices are size_t.                                                     *)
(***************************************************************************)
EXTENDS Blocks, Sequences

CONSTANTS
  Elem,            \* the blocks that may be in the array
  MaxN             \* bound: the longest array

VARIABLES
  input, arr,                          \* the array at the call, and now
  calls,                               \* the _qsort calls still to come
  left, right, p, i,                   \* the locals of the call that runs
  depth,                               \* and how deep in the recursion it is
  pc

vars == <<input, arr, calls, left, right, p, i, depth, pc>>

n == Len(arr)

(* The locals and the bounds of the calls to come are indices of the array. *)
TypeOK ==
  /\ arr \in Seq(Elem) /\ n \in 1 .. MaxN
  /\ calls \in Seq([left : 0 .. n, right : 0 .. (n - 1), depth : Nat \ {0}])
  /\ left \in 0 .. (n - 1) /\ right \in 0 .. (n - 1)
  /\ p \in 0 .. (n - 1) /\ i \in 0 .. n /\ depth \in Nat
  /\ pc \in {"call", "partition"}

FirstCall == [left |-> 0, right |-> n - 1, depth |-> 1]

(* pmem_init has gathered at least one block. *)
Init ==
  /\ \E len \in 1 .. MaxN : input \in [1 .. len -> Elem]
  /\ arr = input
  /\ calls = <<FirstCall>>
  /\ left = 0 /\ right = 0 /\ p = 0 /\ i = 0 /\ depth = 0
  /\ pc = "call"

-----------------------------------------------------------------------------
(* C's arr[k] is arr[k + 1] here. *)
At(k) == arr[k + 1]

_qsort_swap(a, b) == [arr EXCEPT ![a + 1] = At(b), ![b + 1] = At(a)]

(* Mutant of Trivial: > for >=. *)
TrivialEmpty(c) == c.left > c.right

(* if (left >= right) return; *)
Trivial(c) == c.left >= c.right

Return ==
  /\ pc = "call" /\ calls # <<>>
  /\ Trivial(Head(calls))
  /\ calls' = Tail(calls)
  /\ UNCHANGED <<input, arr, left, right, p, i, depth, pc>>

(* The middle element becomes the pivot, at `left'. *)
Call ==
  /\ pc = "call" /\ calls # <<>>
  /\ LET c == Head(calls) IN
       /\ ~Trivial(c)
       /\ left' = c.left /\ right' = c.right /\ depth' = c.depth
       /\ arr' = _qsort_swap(c.left, (c.left + c.right) \div 2)
       /\ p' = c.left
       /\ i' = c.left + 1
  /\ calls' = Tail(calls)
  /\ pc' = "partition"
  /\ UNCHANGED input

(* Mutant of Precedes: the comparison the other way round. *)
Follows(k) == pmem_cmp(At(left), At(k)) < 0

(* cmp_func(low, curr) > 0 *)
Precedes(k) == pmem_cmp(At(left), At(k)) > 0

(* One round of the loop over (left, right]. *)
Step ==
  /\ pc = "partition" /\ i <= right
  /\ i' = i + 1
  /\ IF Precedes(i) THEN p' = p + 1 /\ arr' = _qsort_swap(i, p + 1)
                    ELSE UNCHANGED <<p, arr>>
  /\ UNCHANGED <<input, calls, left, right, depth, pc>>

(* Mutant of Below: the pivot is sorted again, and the call reaches into the *)
(* part above it.                                                            *)
BelowAndPivot == [left |-> left, right |-> p + 1, depth |-> depth + 1]

Below ==
  [left |-> left, right |-> IF p > 0 THEN p - 1 ELSE left, depth |-> depth + 1]
Above == [left |-> p + 1, right |-> right, depth |-> depth + 1]

(* The pivot is put between the halves, which are sorted in turn. *)
Recurse ==
  /\ pc = "partition" /\ i > right
  /\ arr' = _qsort_swap(left, p)
  /\ calls' = <<Below, Above>> \o calls
  /\ pc' = "call"
  /\ UNCHANGED <<input, left, right, p, i, depth>>

(* qsort has returned. *)
Returned == pc = "call" /\ calls = <<>>

Done == Returned /\ UNCHANGED vars

Next == Return \/ Call \/ Step \/ Recurse \/ Done

Spec == Init /\ [][Next]_vars

-----------------------------------------------------------------------------
Span(c) == c.left .. c.right

(* The calls still to come work on separate parts of the array, and no       *)
(* element will have to move from one part to another: the partition around  *)
(* the pivot is final, also for bases equal to the pivot's.                  *)
PartsSeparate ==
  \A a, b \in 1 .. Len(calls) :
    a < b => \A k \in Span(calls[a]), m \in Span(calls[b]) :
               k < m /\ pmem_cmp(At(k), At(m)) <= 0

(* No call, not even one that returns at once, has more frames of _qsort on  *)
(* the C stack than the array has elements, those included that only wait    *)
(* for their second call: the pivot is in neither half, so the recursion     *)
(* does not run away, also where an unsigned bound meets 0.                  *)
DepthBounded ==
  /\ \A k \in 1 .. Len(calls) : calls[k].depth <= n
  /\ depth <= n
=============================================================================
