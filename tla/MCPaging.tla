------------------------------- MODULE MCPaging -------------------------------
(* A small instance of Paging and Vmem for TLC: low memory, the block with   *)
(* the kernel and, on some machines, a block above, that may be too small to *)
(* hold the tables.                                                          *)
EXTENDS Vmem

AnyBlock(base, limit) == [base |-> base, limit |-> limit]

SmallLayouts ==
  LET Low == {AnyBlock(1, a) : a \in {2, 3}}
      Main == {AnyBlock(3, b) : b \in 24 .. 27}
      High == {AnyBlock(c, d) : c \in {27, 28}, d \in 28 .. 31}
  IN  {<<l, m>> : l \in Low, m \in Main} \cup
      {<<l, m, h>> : l \in Low, m \in Main, h \in {b \in High : b.base < b.limit}}

(* Every entry looks as if it were there. *)
AllPresent == {[f \in Page |-> [e \in Entry |-> 1]]}
=============================================================================
