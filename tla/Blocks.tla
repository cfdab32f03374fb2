------------------------------- MODULE Blocks -------------------------------
(***************************************************************************)
(* struct pmem_block, its order and the sequences of them that pmem_init   *)
(* builds.                                                                 *)
(***************************************************************************)
EXTENDS Integers, FiniteSets

Block(Address) == [base : Address, limit : Address]

(* if (a->base > b->base) return 1; ... *)
pmem_cmp(a, b) ==
  CASE a.base > b.base -> 1
    [] a.base < b.base -> -1
    [] OTHER -> 0

(* The reference: what a sort by pmem_cmp may make of an array. *)
Occurrences(a, e) == Cardinality({i \in DOMAIN a : a[i] = e})

IsPermutation(a, b) ==
  /\ DOMAIN a = DOMAIN b
  /\ \A i \in DOMAIN a : \A e \in {a[i], b[i]} : Occurrences(a, e) = Occurrences(b, e)

IsSorted(a) ==
  \A i, j \in DOMAIN a : i < j => pmem_cmp(a[i], a[j]) <= 0
=============================================================================
