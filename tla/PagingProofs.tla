----------------------------- MODULE PagingProofs -----------------------------
(***************************************************************************)
(* paging_init on machines of any size: for every memory map that leaves   *)
(* room for the tables above the kernel (RoomAssumption), every size of    *)
(* table and of frame buffer, and whatever is in memory before, each       *)
(* paging_map_page gives one virtual page its frame and changes no other,  *)
(* although all tables are reached through one page, and are taken from    *)
(* the blocks that are being mapped.                                       *)
(***************************************************************************)
EXTENDS Vmem, PmemProofs

-----------------------------------------------------------------------------
(* Virtual addresses in digits.  Dividing leaves a quotient and a remainder, *)
LEMMA Divided ==
  ASSUME NEW a \in Nat, NEW b \in Nat \ {0}
  PROVE  a % b \in 0 .. (b - 1) /\ a \div b \in Nat /\ a = b * (a \div b) + (a % b)
<1> b \in Nat /\ b >= 1
  OBVIOUS
<1> QED
  OBVIOUS

(* and they are what they look like. *)
LEMMA Quotient ==
  ASSUME NEW b \in Nat \ {0}, NEW q \in Nat, NEW m \in 0 .. (b - 1)
  PROVE  (b * q + m) \div b = q /\ (b * q + m) % b = m
<1> DEFINE a == b * q + m
           d == a \div b
           s == a % b
<1>1. a \in Nat /\ a = b * q + m
  OBVIOUS
<1> HIDE DEF a
<1>2. s \in 0 .. (b - 1) /\ d \in Nat /\ a = b * d + s
  BY <1>1, Divided
<1> HIDE DEF d, s
<1>3. b * q + m = b * d + s
  BY <1>1, <1>2
<1>5. ASSUME NEW u \in Nat, NEW v \in Nat, u < v PROVE b * u + b <= b * v
  <2>1. b * (v - u - 1) >= 0
    BY <1>5
  <2>2. b * (v - u - 1) = b * v - b * u - b
    BY <1>5
  <2> QED
    BY <2>1, <2>2
<1>6. b * q \in Int /\ b * d \in Int
  BY <1>2
<1>7. d = q
  <2>1. q < d => b * q + b <= b * d
    BY <1>2, <1>5
  <2>2. d < q => b * d + b <= b * q
    BY <1>2, <1>5
  <2> QED
    BY <1>2, <1>3, <1>6, <2>1, <2>2
<1>8. s = m
  BY <1>2, <1>3, <1>6, <1>7
<1> QED
  BY <1>7, <1>8 DEF a, d, s

(* The sizes, as numbers.                                                    *)
LEMMA Sizes3 ==
  /\ N \in Nat /\ N >= 3
  /\ OneG \in Nat /\ OneG >= 3 * N /\ OneG = N * N
  /\ OneG * N \in Nat /\ OneG * N >= 3 * OneG
  /\ Reach[1] = 1 /\ Reach[2] = N /\ Reach[3] = OneG /\ Reach[4] = OneG * N
<1>1. N \in Nat /\ N >= 3
  BY PagingAssumption DEF PagingAssumption
<1>2. \A a \in Nat : a * N \in Nat /\ a * N >= 3 * a
  <2> SUFFICES ASSUME NEW a \in Nat PROVE a * N \in Nat /\ a * N >= 3 * a
    OBVIOUS
  <2>1. a * (N - 3) >= 0
    BY <1>1
  <2>2. a * (N - 3) = a * N - 3 * a
    BY <1>1
  <2> QED
    BY <1>1, <2>1, <2>2
<1>3. OneG \in Nat /\ OneG >= 3 * N
  BY <1>1, <1>2 DEF OneG
<1> QED
  BY <1>1, <1>2, <1>3 DEF Reach, OneG

(* The virtual page with the given entries, from the PML4's to the page      *)
(* table's, and all virtual pages.                                           *)
Vaddr(d4, d3, d2, d1) == d4 * Reach[4] + d3 * Reach[3] + d2 * N + d1
VAll == 0 .. (N * Reach[4] - 1)

(* An entry and an offset behind it stay below the end. *)
LEMMA Below ==
  ASSUME NEW r \in Nat, NEW d \in Entry, NEW e \in 0 .. (r - 1)
  PROVE  d * r + e \in 0 .. (N * r - 1)
<1>1. N \in Nat /\ N >= 3 /\ d \in 0 .. (N - 1)
  BY Sizes3 DEF Entry
<1>2. (N - 1 - d) * r >= 0
  BY <1>1
<1>3. (N - 1 - d) * r = N * r - r - d * r
  BY <1>1
<1>4. d * r \in Nat /\ N * r \in Nat
  BY <1>1
<1> QED
  BY <1>2, <1>3, <1>4

(* The indices are the digits. *)
LEMMA Digits ==
  ASSUME NEW d4 \in Entry, NEW d3 \in Entry, NEW d2 \in Entry, NEW d1 \in Entry
  PROVE  /\ Vaddr(d4, d3, d2, d1) \in VAll
         /\ Index(4, Vaddr(d4, d3, d2, d1)) = d4 /\ Index(3, Vaddr(d4, d3, d2, d1)) = d3
         /\ Index(2, Vaddr(d4, d3, d2, d1)) = d2 /\ Index(1, Vaddr(d4, d3, d2, d1)) = d1
<1> DEFINE v == Vaddr(d4, d3, d2, d1)
           G == OneG
           H == OneG * N
<1>0. /\ N \in Nat /\ N >= 3 /\ {d4, d3, d2, d1} \subseteq 0 .. (N - 1)
      /\ G \in Nat /\ G >= 9 /\ G = N * N /\ H \in Nat /\ H >= 27 /\ H = G * N
      /\ Reach[1] = 1 /\ Reach[2] = N /\ Reach[3] = G /\ Reach[4] = H
  BY Sizes3 DEF Entry
<1>1. v = d4 * H + d3 * G + d2 * N + d1
  BY <1>0 DEF Vaddr
<1> HIDE DEF v, G, H
<1> DEFINE e1 == d2 * N + d1
           e2 == d3 * G + e1
           q2 == N * d3 + d2
           q1 == N * d4 + d3
           q3 == N * q1 + d2
<1>2. e1 \in 0 .. (G - 1)
  BY <1>0, Below DEF Entry
<1>3. e2 \in 0 .. (H - 1) /\ H = N * G
  <2>1. e2 \in 0 .. (N * G - 1)
    BY <1>0, <1>2, Below
  <2> QED
    BY <1>0, <2>1
<1>4. d4 * H + e2 \in 0 .. (N * H - 1)
  BY <1>0, <1>3, Below
<1>5. v = H * d4 + e2 /\ v = d4 * H + e2
  BY <1>0, <1>1
<1>6. q1 \in Nat /\ q3 \in Nat
  BY <1>0
<1>7. v = G * q1 + e1
  <2>1. G * q1 = d4 * H + d3 * G
    BY <1>0
  <2> QED
    BY <1>0, <1>1, <2>1
<1>8. v = N * q3 + d1
  <2>1. N * q3 = N * (N * q1) + N * d2
    BY <1>0, <1>6
  <2>2. N * (N * q1) = G * q1
    BY <1>0, <1>6
  <2> QED
    BY <1>0, <1>6, <1>7, <2>1, <2>2
<1> HIDE DEF e1, e2
<1>9. v \div H = d4 /\ v \div G = q1 /\ v \div N = q3 /\ v % N = d1
  <2>0. H \in Nat \ {0} /\ G \in Nat \ {0} /\ N \in Nat \ {0} /\ d4 \in Nat /\ d1 \in 0 .. (N - 1)
    BY <1>0
  <2>1. (H * d4 + e2) \div H = d4
    BY <1>3, <2>0, Quotient, Zenon
  <2>2. (G * q1 + e1) \div G = q1
    BY <1>2, <1>6, <2>0, Quotient, Zenon
  <2>3. (N * q3 + d1) \div N = q3 /\ (N * q3 + d1) % N = d1
    BY <1>6, <2>0, Quotient, Zenon
  <2> QED
    BY <1>5, <1>7, <1>8, <2>1, <2>2, <2>3
<1>10. q1 % N = d3 /\ q3 % N = d2 /\ d4 % N = d4
  <2>0. /\ N \in Nat \ {0} /\ d4 \in Nat /\ 0 \in Nat
        /\ d4 \in 0 .. (N - 1) /\ d3 \in 0 .. (N - 1) /\ d2 \in 0 .. (N - 1)
    BY <1>0
  <2>1. (N * d4 + d3) % N = d3 /\ (N * 0 + d4) % N = d4
    BY <2>0, Quotient, Zenon
  <2>2. (N * q1 + d2) % N = d2
    BY <1>6, <2>0, Quotient, Zenon
  <2>3. N * 0 + d4 = d4
    BY <1>0
  <2> QED
    BY <2>1, <2>2, <2>3
<1>11. v \in VAll
  BY <1>0, <1>4, <1>5 DEF VAll
<1>12. v \div 1 = v
  BY <1>11, <1>0 DEF VAll
<1> QED
  BY <1>0, <1>9, <1>10, <1>11, <1>12 DEF Index, v

(* Every virtual page has its digits. *)
LEMMA HasDigits ==
  ASSUME NEW v \in VAll
  PROVE  \E d4, d3, d2, d1 \in Entry : v = Vaddr(d4, d3, d2, d1)
<1> DEFINE q3 == v \div N
           q1 == q3 \div N
           d4 == q1 \div N
           d3 == q1 % N
           d2 == q3 % N
           d1 == v % N
<1>0. N \in Nat \ {0} /\ v \in Nat /\ OneG = N * N /\ Reach[3] = OneG /\ Reach[4] = OneG * N
      /\ v <= N * (OneG * N) - 1 /\ OneG \in Nat
  BY Sizes3 DEF VAll
<1>1. d1 \in 0 .. (N - 1) /\ q3 \in Nat /\ v = N * q3 + d1
  BY <1>0, Divided
<1> HIDE DEF q3, d1
<1>2. d2 \in 0 .. (N - 1) /\ q1 \in Nat /\ q3 = N * q1 + d2
  BY <1>0, <1>1, Divided
<1> HIDE DEF q1, d2
<1>3. d3 \in 0 .. (N - 1) /\ d4 \in Nat /\ q1 = N * d4 + d3
  BY <1>0, <1>2, Divided
<1> HIDE DEF d4, d3
<1>4. v = d4 * (OneG * N) + d3 * OneG + d2 * N + d1
  <2>1. N * q3 = N * (N * q1) + N * d2
    BY <1>0, <1>1, <1>2
  <2>2. N * (N * q1) = OneG * q1
    BY <1>0, <1>2
  <2>3. OneG * q1 = OneG * (N * d4) + OneG * d3
    BY <1>0, <1>2, <1>3
  <2>4. OneG * (N * d4) = d4 * (OneG * N)
    BY <1>0, <1>3
  <2> QED
    BY <1>0, <1>1, <1>2, <1>3, <2>1, <2>2, <2>3, <2>4
<1>5. d4 < N
  <2> SUFFICES ASSUME d4 >= N PROVE FALSE
    BY <1>0, <1>3
  <2> DEFINE H == OneG * N
  <2>1. H \in Nat
    BY <1>0
  <2>2. v >= d4 * H
    <3>1. d3 * OneG >= 0 /\ d2 * N >= 0
      BY <1>0, <1>2, <1>3
    <3> QED
      BY <1>0, <1>1, <1>2, <1>3, <1>4, <2>1, <3>1
  <2>3. v <= N * H - 1
    BY <1>0
  <2> HIDE DEF H
  <2>4. (d4 - N) * H >= 0
    BY <1>0, <1>3, <2>1
  <2>5. (d4 - N) * H = d4 * H - N * H
    BY <1>0, <1>3, <2>1
  <2> QED
    BY <1>0, <1>3, <2>1, <2>2, <2>3, <2>4, <2>5
<1>6. {d4, d3, d2, d1} \subseteq Entry
  BY <1>0, <1>1, <1>2, <1>3, <1>5 DEF Entry
<1>7. v = Vaddr(d4, d3, d2, d1)
  BY <1>0, <1>4 DEF Vaddr
<1> QED
  BY <1>6, <1>7

(* So addresses with the same entries on all levels are the same. *)
LEMMA SameAddress ==
  /\ \A v \in VAll, l \in 1 .. 4 : Index(l, v) \in Entry
  /\ \A v, w \in VAll : (\A l \in 1 .. 4 : Index(l, v) = Index(l, w)) => v = w
<1>1. ASSUME NEW v \in VAll
      PROVE  /\ \A l \in 1 .. 4 : Index(l, v) \in Entry
             /\ v = Vaddr(Index(4, v), Index(3, v), Index(2, v), Index(1, v))
  <2>1. PICK d4 \in Entry, d3 \in Entry, d2 \in Entry, d1 \in Entry : v = Vaddr(d4, d3, d2, d1)
    BY HasDigits
  <2>2. Index(4, v) = d4 /\ Index(3, v) = d3 /\ Index(2, v) = d2 /\ Index(1, v) = d1
    BY <2>1, Digits
  <2>3. ASSUME NEW l \in 1 .. 4 PROVE Index(l, v) \in Entry
    <3>1. l = 1 \/ l = 2 \/ l = 3 \/ l = 4
      OBVIOUS
    <3> QED
      BY <2>2, <3>1
  <2> QED
    BY <2>1, <2>2, <2>3
<1>2. ASSUME NEW v \in VAll, NEW w \in VAll, \A l \in 1 .. 4 : Index(l, v) = Index(l, w)
      PROVE  v = w
  <2>1. /\ Index(4, v) = Index(4, w) /\ Index(3, v) = Index(3, w)
        /\ Index(2, v) = Index(2, w) /\ Index(1, v) = Index(1, w)
    BY <1>2
  <2>2. /\ v = Vaddr(Index(4, v), Index(3, v), Index(2, v), Index(1, v))
        /\ w = Vaddr(Index(4, w), Index(3, w), Index(2, w), Index(1, w))
    BY <1>1
  <2> QED
    BY <2>1, <2>2
<1> QED
  BY <1>1, <1>2

(* The kernel's part of the address space, as its indices and as addresses.  *)
InKernel(v) == Index(4, v) = N - 1 /\ Index(3, v) = N - 2

(* The two say the same.                                                     *)
LEMMA KernelPart ==
  ASSUME NEW v \in VAll
  PROVE  /\ InKernel(v) <=> v - KERNEL_VMA \in 0 .. (OneG - 1)
         /\ InKernel(v) => v - KERNEL_VMA = Index(2, v) * N + Index(1, v)
<1>0. /\ N \in Nat /\ N >= 3 /\ OneG \in Nat /\ OneG = N * N /\ OneG >= 3 * N
      /\ Reach[3] = OneG /\ Reach[4] \in Nat /\ KERNEL_VMA \in Int /\ v \in Nat
      /\ N - 1 \in Entry /\ N - 2 \in Entry
  BY Sizes3 DEF KERNEL_VMA, VAll, Entry
<1>1. ASSUME NEW d2 \in Entry, NEW d1 \in Entry
      PROVE  /\ Vaddr(N - 1, N - 2, d2, d1) = KERNEL_VMA + (d2 * N + d1)
             /\ d2 * N + d1 \in 0 .. (OneG - 1)
  <2>1. d2 * N + d1 \in 0 .. (N * N - 1)
    <3>1. d1 \in 0 .. (N - 1)
      BY DEF Entry
    <3> QED
      BY <1>0, <3>1, Below
  <2>2. d2 * N \in Int /\ d1 \in Int /\ (N - 1) * Reach[4] \in Int /\ (N - 2) * Reach[3] \in Int
    BY <1>0 DEF Entry
  <2> QED
    BY <1>0, <2>1, <2>2 DEF Vaddr, KERNEL_VMA
<1>2. ASSUME InKernel(v)
      PROVE  /\ v - KERNEL_VMA \in 0 .. (OneG - 1)
             /\ v - KERNEL_VMA = Index(2, v) * N + Index(1, v)
  <2>1. PICK d4 \in Entry, d3 \in Entry, d2 \in Entry, d1 \in Entry : v = Vaddr(d4, d3, d2, d1)
    BY HasDigits
  <2>2. Index(4, v) = d4 /\ Index(3, v) = d3 /\ Index(2, v) = d2 /\ Index(1, v) = d1
    BY <2>1, Digits
  <2>3. v = Vaddr(N - 1, N - 2, d2, d1)
    BY <1>2, <2>1, <2>2 DEF InKernel
  <2>4. v = KERNEL_VMA + (d2 * N + d1) /\ d2 * N + d1 \in 0 .. (OneG - 1)
    BY <1>1, <2>3
  <2> QED
    BY <1>0, <2>2, <2>4
<1>3. ASSUME v - KERNEL_VMA \in 0 .. (OneG - 1) PROVE InKernel(v)
  <2> DEFINE j == v - KERNEL_VMA
             d2 == j \div N
             d1 == j % N
  <2>1. j \in Nat /\ j <= OneG - 1
    BY <1>0, <1>3
  <2>2. v = KERNEL_VMA + j
    BY <1>0
  <2> HIDE DEF j
  <2>3. d1 \in 0 .. (N - 1) /\ d2 \in Nat /\ j = N * d2 + d1
    <3>1. N \in Nat \ {0} /\ j \in Nat
      BY <1>0, <2>1
    <3> QED
      BY <3>1, Divided
  <2> HIDE DEF d1, d2
  <2>4. d2 < N
    <3> SUFFICES ASSUME d2 >= N PROVE FALSE
      BY <1>0, <2>3
    <3>1. N * (d2 - N) >= 0
      BY <1>0, <2>3
    <3>2. N * (d2 - N) = N * d2 - N * N
      BY <1>0, <2>3
    <3> QED
      BY <1>0, <2>1, <2>3, <3>1, <3>2
  <2>5. d2 \in Entry /\ d1 \in Entry
    BY <1>0, <2>3, <2>4 DEF Entry
  <2>6. v = Vaddr(N - 1, N - 2, d2, d1)
    <3>1. d2 * N = N * d2
      BY <1>0, <2>3
    <3> QED
      BY <1>1, <2>2, <2>3, <2>5, <3>1
  <2> QED
    BY <1>0, <2>5, <2>6, Digits DEF InKernel
<1> QED
  BY <1>2, <1>3

(* Where paging_init maps: at the bottom, and below the kernel. *)
LEMMA Parts ==
  /\ KERNEL_VMA \in VAll /\ InKernel(KERNEL_VMA)
  /\ Index(2, KERNEL_VMA) = 0 /\ Index(1, KERNEL_VMA) = 0
  /\ LFB_VMA \in Nat /\ LFB_VMA + (OneG - N) = KERNEL_VMA /\ (N - 1) * Reach[4] <= LFB_VMA
  /\ (N - 1) * Reach[4] \in Nat /\ KERNEL_VMA + 2 * OneG = N * Reach[4]
  /\ \A v \in VAll : v < KERNEL_VMA => ~InKernel(v)
  /\ \A v \in Nat : v < KERNEL_VMA => v \in VAll
  /\ OneG - N \in Nat
<1>0. /\ N \in Nat /\ N >= 3 /\ OneG \in Nat /\ OneG = N * N /\ OneG >= 3 * N
      /\ Reach[3] = OneG /\ Reach[4] \in Nat /\ Reach[4] = OneG * N /\ Reach[4] >= 3 * OneG
      /\ N - 1 \in Entry /\ N - 2 \in Entry /\ 0 \in Entry
  BY Sizes3 DEF Entry
<1> DEFINE H == Reach[4]
<1>1. /\ (N - 1) * H \in Nat /\ (N - 1) * H = N * H - H
      /\ (N - 2) * OneG = H - 2 * OneG /\ (N - 3) * OneG = H - 3 * OneG
  BY <1>0
<1>2. KERNEL_VMA = N * H - 2 * OneG /\ LFB_VMA = N * H - 3 * OneG + N
  BY <1>0, <1>1 DEF KERNEL_VMA, LFB_VMA
<1>3. KERNEL_VMA = Vaddr(N - 1, N - 2, 0, 0)
  BY <1>0, <1>1 DEF Vaddr, KERNEL_VMA
<1>4. N * H \in Nat /\ N * H >= 3 * H
  BY <1>0
<1>5. KERNEL_VMA \in VAll
  BY <1>0, <1>3, Digits
<1>6. /\ LFB_VMA \in Nat /\ LFB_VMA + (OneG - N) = KERNEL_VMA /\ (N - 1) * H <= LFB_VMA
      /\ KERNEL_VMA + 2 * OneG = N * H /\ OneG - N \in Nat
  BY <1>0, <1>1, <1>2, <1>4
<1>7. ASSUME NEW v \in VAll, v < KERNEL_VMA PROVE ~InKernel(v)
  BY <1>0, <1>2, <1>4, <1>7, KernelPart DEF VAll
<1>8. ASSUME NEW v \in Nat, v < KERNEL_VMA PROVE v \in VAll
  BY <1>0, <1>2, <1>4, <1>8 DEF VAll
<1>9. InKernel(KERNEL_VMA) /\ Index(2, KERNEL_VMA) = 0 /\ Index(1, KERNEL_VMA) = 0
  BY <1>0, <1>3, Digits DEF InKernel
<1> QED
  BY <1>1, <1>5, <1>6, <1>7, <1>8, <1>9

-----------------------------------------------------------------------------
(* The walk: the tables on the way to an address, and its frame on level 0.  *)
Node(m, l, v) ==
  CASE l = 4 -> kernel_pml4
    [] l = 3 -> Pdpt(m, v)
    [] l = 2 -> Pd(m, v)
    [] l = 1 -> Pt(m, v)
    [] OTHER -> FrameOf(m, v)

(* Two addresses share the tables down to level l. *)
Same(l, v, w) == \A h \in (l + 1) .. 4 : Index(h, v) = Index(h, w)

(* Each level is looked up in the one above. *)
LEMMA NodeStep ==
  \A m, v : \A l \in 1 .. 4 : Node(m, l - 1, v) = Lookup(m, Node(m, l, v), l, v)
<1> SUFFICES ASSUME NEW m, NEW v
             PROVE  \A l \in 1 .. 4 : Node(m, l - 1, v) = Lookup(m, Node(m, l, v), l, v)
  OBVIOUS
<1>1. /\ Node(m, 4, v) = kernel_pml4 /\ Node(m, 3, v) = Pdpt(m, v) /\ Node(m, 2, v) = Pd(m, v)
      /\ Node(m, 1, v) = Pt(m, v) /\ Node(m, 0, v) = FrameOf(m, v)
  BY DEF Node
<1>2. kernel_pml4 # Absent
  BY Sizes3 DEF kernel_pml4, KERNEL_LMA, Absent
<1>3. /\ Pdpt(m, v) = Lookup(m, kernel_pml4, 4, v) /\ Pd(m, v) = Lookup(m, Pdpt(m, v), 3, v)
      /\ Pt(m, v) = Lookup(m, Pd(m, v), 2, v) /\ FrameOf(m, v) = Lookup(m, Pt(m, v), 1, v)
  BY <1>2 DEF Pdpt, Pd, Pt, FrameOf, Lookup
<1>4. ASSUME NEW l \in 1 .. 4 PROVE Node(m, l - 1, v) = Lookup(m, Node(m, l, v), l, v)
  <2>1. CASE l = 4
    BY <1>1, <1>3, <2>1
  <2>2. CASE l = 3
    BY <1>1, <1>3, <2>2
  <2>3. CASE l = 2
    BY <1>1, <1>3, <2>3
  <2>4. CASE l = 1
    BY <1>1, <1>3, <2>4
  <2> QED
    BY <2>1, <2>2, <2>3, <2>4
<1> QED
  BY <1>4

(* Two memories that agree on what is read on the way agree on the walk.     *)
LEMMA SameWalk ==
  ASSUME NEW m, NEW m2, NEW v, NEW l \in 0 .. 4,
         \A h \in (l + 1) .. 4 : Node(m, h, v) # Absent =>
           m2[Node(m, h, v)][Index(h, v)] = m[Node(m, h, v)][Index(h, v)]
  PROVE  Node(m2, l, v) = Node(m, l, v)
<1>1. Node(m2, 4, v) = Node(m, 4, v)
  BY DEF Node
<1>2. ASSUME NEW h \in 1 .. 4, h > l, Node(m2, h, v) = Node(m, h, v)
      PROVE  Node(m2, h - 1, v) = Node(m, h - 1, v)
  <2>1. h \in (l + 1) .. 4
    BY <1>2
  <2>2. /\ Node(m2, h - 1, v) = Lookup(m2, Node(m, h, v), h, v)
        /\ Node(m, h - 1, v) = Lookup(m, Node(m, h, v), h, v)
    BY <1>2, NodeStep
  <2> QED
    BY <2>1, <2>2 DEF Lookup
<1>3. l < 4 => Node(m2, 3, v) = Node(m, 3, v)
  <2>1. 4 \in 1 .. 4 /\ 4 - 1 = 3
    OBVIOUS
  <2> QED
    BY <1>1, <1>2, <2>1
<1>4. l < 3 => Node(m2, 2, v) = Node(m, 2, v)
  <2>1. 3 \in 1 .. 4 /\ 3 - 1 = 2
    OBVIOUS
  <2> QED
    BY <1>2, <1>3, <2>1
<1>5. l < 2 => Node(m2, 1, v) = Node(m, 1, v)
  <2>1. 2 \in 1 .. 4 /\ 2 - 1 = 1
    OBVIOUS
  <2> QED
    BY <1>2, <1>4, <2>1
<1>6. l < 1 => Node(m2, 0, v) = Node(m, 0, v)
  <2>1. 1 \in 1 .. 4 /\ 1 - 1 = 0
    OBVIOUS
  <2> QED
    BY <1>2, <1>5, <2>1
<1>7. l = 4 \/ l = 3 \/ l = 2 \/ l = 1 \/ l = 0
  OBVIOUS
<1> QED
  BY <1>1, <1>3, <1>4, <1>5, <1>6, <1>7

(* One memory, two addresses: they share what their indices share. *)
LEMMA SameNode ==
  ASSUME NEW m, NEW v, NEW w, NEW l \in 0 .. 4, Same(l, v, w)
  PROVE  Node(m, l, v) = Node(m, l, w)
<1>1. Node(m, 4, v) = Node(m, 4, w)
  BY DEF Node
<1>2. ASSUME NEW h \in 1 .. 4, h > l, Node(m, h, v) = Node(m, h, w)
      PROVE  Node(m, h - 1, v) = Node(m, h - 1, w)
  <2>1. Index(h, v) = Index(h, w)
    BY <1>2 DEF Same
  <2>2. /\ Node(m, h - 1, v) = Lookup(m, Node(m, h, v), h, v)
        /\ Node(m, h - 1, w) = Lookup(m, Node(m, h, w), h, w)
    BY <1>2, NodeStep
  <2> QED
    BY <1>2, <2>1, <2>2 DEF Lookup
<1>3. l < 4 => Node(m, 3, v) = Node(m, 3, w)
  <2>1. 4 \in 1 .. 4 /\ 4 - 1 = 3
    OBVIOUS
  <2> QED
    BY <1>1, <1>2, <2>1
<1>4. l < 3 => Node(m, 2, v) = Node(m, 2, w)
  <2>1. 3 \in 1 .. 4 /\ 3 - 1 = 2
    OBVIOUS
  <2> QED
    BY <1>2, <1>3, <2>1
<1>5. l < 2 => Node(m, 1, v) = Node(m, 1, w)
  <2>1. 2 \in 1 .. 4 /\ 2 - 1 = 1
    OBVIOUS
  <2> QED
    BY <1>2, <1>4, <2>1
<1>6. l < 1 => Node(m, 0, v) = Node(m, 0, w)
  <2>1. 1 \in 1 .. 4 /\ 1 - 1 = 0
    OBVIOUS
  <2> QED
    BY <1>2, <1>5, <2>1
<1>7. l = 4 \/ l = 3 \/ l = 2 \/ l = 1 \/ l = 0
  OBVIOUS
<1> QED
  BY <1>1, <1>3, <1>4, <1>5, <1>6, <1>7

(* Nothing is below what is absent. *)
LEMMA AbsentBelow ==
  ASSUME NEW m, NEW v, NEW k \in 0 .. 4, NEW l \in 0 .. k, Node(m, k, v) = Absent
  PROVE  Node(m, l, v) = Absent
<1>1. ASSUME NEW h \in 1 .. 4, Node(m, h, v) = Absent PROVE Node(m, h - 1, v) = Absent
  BY <1>1, NodeStep DEF Lookup
<1>2. Node(m, 4, v) # Absent
  BY Sizes3 DEF Node, kernel_pml4, KERNEL_LMA, Absent
<1>3. /\ Node(m, 3, v) = Absent => Node(m, 2, v) = Absent
      /\ Node(m, 2, v) = Absent => Node(m, 1, v) = Absent
      /\ Node(m, 1, v) = Absent => Node(m, 0, v) = Absent
  <2>1. 3 \in 1 .. 4 /\ 3 - 1 = 2 /\ 2 \in 1 .. 4 /\ 2 - 1 = 1 /\ 1 \in 1 .. 4 /\ 1 - 1 = 0
    OBVIOUS
  <2> QED
    BY <1>1, <2>1
<1>4. k = 3 \/ k = 2 \/ k = 1 \/ k = 0
  BY <1>2
<1>5. l = 3 \/ l = 2 \/ l = 1 \/ l = 0
  BY <1>4
<1> QED
  BY <1>3, <1>4, <1>5

(* One more index, and two addresses share one more table; with all of them  *)
(* they are one address.                                                     *)
LEMMA SameStep ==
  /\ \A v, w, k : k \in 1 .. 4 /\ Same(k, v, w) /\ Index(k, v) = Index(k, w) => Same(k - 1, v, w)
  /\ \A v, w \in VAll : Same(0, v, w) => v = w
  /\ \A v, w, u, k : Same(k, v, u) /\ Same(k, w, u) => Same(k, v, w)
<1>1. ASSUME NEW v, NEW w, NEW k \in 1 .. 4, Same(k, v, w), Index(k, v) = Index(k, w)
      PROVE  Same(k - 1, v, w)
  <2> SUFFICES ASSUME NEW h \in ((k - 1) + 1) .. 4 PROVE Index(h, v) = Index(h, w)
    BY DEF Same
  <2>1. h = k \/ h \in (k + 1) .. 4
    OBVIOUS
  <2> QED
    BY <1>1, <2>1 DEF Same
<1>2. ASSUME NEW v \in VAll, NEW w \in VAll, Same(0, v, w) PROVE v = w
  <2>1. \A h \in 1 .. 4 : Index(h, v) = Index(h, w)
    <3>1. 0 + 1 = 1
      OBVIOUS
    <3> QED
      BY <1>2, <3>1 DEF Same
  <2> QED
    BY <2>1, SameAddress
<1>3. ASSUME NEW v, NEW w, NEW u, NEW k, Same(k, v, u), Same(k, w, u) PROVE Same(k, v, w)
  BY <1>3, Zenon DEF Same
<1> QED
  BY <1>1, <1>2, <1>3, Zenon

-----------------------------------------------------------------------------
(* The shape of the tables: no table is at two places of the tree, all are   *)
(* among the given pages, and the entry of the temporary mapping is the      *)
(* first one of kernel_pd0_pt.                                               *)
Tables == [Page -> [Entry -> Frame \cup {Absent}]]

Tree(m) ==
  \A l, h \in 1 .. 4, v, w \in VAll :
    Node(m, l, v) # Absent /\ Node(m, l, v) = Node(m, h, w) => l = h /\ Same(l, v, w)

OwnedBy(m, own) == \A l \in 1 .. 4, v \in VAll : Node(m, l, v) \in own \cup {Absent}

TreeIn(m, own) ==
  /\ m \in Tables /\ own \subseteq Page
  /\ Tree(m) /\ OwnedBy(m, own)
  /\ Node(m, 1, KERNEL_VMA) = kernel_pd0_pt(0)

(* In the given pages, memory differs at most in one entry and in that of    *)
(* the temporary mapping.                                                    *)
Differ(m, m2, own, table, i) ==
  \A f \in own, e \in Entry :
    m2[f][e] = m[f][e] \/ (f = table /\ e = i) \/ (f = kernel_pd0_pt(0) /\ e = 0)

DifferAt(m, m2, own, k, u) ==
  /\ TreeIn(m, own) /\ k \in 1 .. 4 /\ u \in VAll /\ Node(m, k, u) # Absent
  /\ Differ(m, m2, own, Node(m, k, u), Index(k, u))

(* Then only the walks through that entry change.                            *)
LEMMA Elsewhere ==
  ASSUME NEW m, NEW m2, NEW own, NEW k, NEW u, DifferAt(m, m2, own, k, u)
  PROVE  \A l \in 0 .. 4, v \in VAll :
           \/ l < k /\ Same(k - 1, v, u)
           \/ l = 0 /\ v = KERNEL_VMA
           \/ Node(m2, l, v) = Node(m, l, v)
<1> SUFFICES ASSUME NEW l \in 0 .. 4, NEW v \in VAll,
                    ~(l < k /\ Same(k - 1, v, u)), ~(l = 0 /\ v = KERNEL_VMA)
             PROVE  Node(m2, l, v) = Node(m, l, v)
  OBVIOUS
<1>0. /\ TreeIn(m, own) /\ k \in 1 .. 4 /\ u \in VAll /\ Node(m, k, u) # Absent
      /\ Differ(m, m2, own, Node(m, k, u), Index(k, u))
  BY DEF DifferAt
<1> SUFFICES ASSUME NEW h \in (l + 1) .. 4, Node(m, h, v) # Absent
             PROVE  m2[Node(m, h, v)][Index(h, v)] = m[Node(m, h, v)][Index(h, v)]
  BY SameWalk
<1>1. h \in 1 .. 4 /\ l < h
  OBVIOUS
<1>2. Node(m, h, v) \in own /\ Index(h, v) \in Entry
  BY <1>0, <1>1, SameAddress DEF TreeIn, OwnedBy
<1>3. ASSUME Node(m, h, v) = Node(m, k, u), Index(h, v) = Index(k, u) PROVE FALSE
  <2>1. h = k /\ Same(h, v, u)
    BY <1>0, <1>1, <1>3 DEF TreeIn, Tree
  <2>2. Same(h - 1, v, u)
    BY <1>1, <1>3, <2>1, SameStep
  <2> QED
    BY <1>1, <2>1, <2>2
<1>4. ASSUME Node(m, h, v) = kernel_pd0_pt(0), Index(h, v) = 0 PROVE FALSE
  <2>1. 1 \in 1 .. 4 /\ KERNEL_VMA \in VAll /\ Index(1, KERNEL_VMA) = 0
    BY Parts
  <2>2. Node(m, h, v) = Node(m, 1, KERNEL_VMA)
    BY <1>0, <1>4 DEF TreeIn
  <2>3. h = 1 /\ Same(1, v, KERNEL_VMA)
    BY <1>0, <1>1, <2>1, <2>2 DEF TreeIn, Tree
  <2>4. Same(1 - 1, v, KERNEL_VMA)
    BY <1>4, <2>1, <2>3, SameStep
  <2>5. v = KERNEL_VMA
    <3>1. 1 - 1 = 0
      OBVIOUS
    <3> QED
      BY <2>1, <2>4, <3>1, SameStep
  <2> QED
    BY <1>1, <2>3, <2>5
<1> QED
  BY <1>0, <1>2, <1>3, <1>4 DEF Differ

(* A memory with the same tables has their shape. *)
LEMMA SameTables ==
  ASSUME NEW m, NEW m2 \in Tables, NEW own, TreeIn(m, own),
         \A l \in 1 .. 4, v \in VAll : Node(m2, l, v) = Node(m, l, v)
  PROVE  TreeIn(m2, own)
<1>1. KERNEL_VMA \in VAll /\ 1 \in 1 .. 4
  BY Parts
<1>2. Tree(m2)
  BY DEF TreeIn, Tree
<1>3. OwnedBy(m2, own)
  BY DEF TreeIn, OwnedBy
<1> QED
  BY <1>1, <1>2, <1>3 DEF TreeIn

(* The entry of the temporary mapping. *)
LEMMA Window ==
  /\ kernel_pd0_pt(0) \in Page /\ kernel_pd0_pt(0) # Absent /\ kernel_pml4 # Absent
  /\ 0 \in Entry /\ Absent \notin Page /\ Absent \notin Frame
  /\ Page \subseteq Frame /\ Page \subseteq Int
<1>1. N \in Nat /\ N >= 3 /\ KernelImage \subseteq Page /\ FB_FRAME \in Nat /\ OneG \in Nat
  BY Sizes3, PagingAssumption DEF PagingAssumption
<1>2. kernel_pd0_pt(0) = N + 3 /\ KernelImage = N .. (N + 2 + N) /\ kernel_pml4 = N
  BY <1>1 DEF kernel_pd0_pt, KernelImage, KERNEL_LMA, kernel_pml4
<1>3. N + 3 \in KernelImage
  BY <1>1, <1>2
<1>4. kernel_pd0_pt(0) \in Page
  BY <1>1, <1>2, <1>3
<1>5. Page \subseteq Nat
  BY PmemAssumption DEF PmemAssumption, Page
<1> QED
  BY <1>1, <1>2, <1>4, <1>5 DEF Absent, Entry, Frame

(* An entry of a page table changes what one address means. *)
LEMMA OneEntry ==
  ASSUME NEW m, NEW own, TreeIn(m, own), NEW u \in VAll, Node(m, 1, u) # Absent,
         NEW m2 \in Tables, Differ(m, m2, own, Node(m, 1, u), Index(1, u))
  PROVE  /\ TreeIn(m2, own)
         /\ \A l \in 1 .. 4, v \in VAll : Node(m2, l, v) = Node(m, l, v)
         /\ \A v \in VPage : v # u => FrameOf(m2, v) = FrameOf(m, v)
<1>1. ASSUME NEW l \in 0 .. 4, NEW v \in VAll, ~(l = 0 /\ v = u), ~(l = 0 /\ v = KERNEL_VMA)
      PROVE  Node(m2, l, v) = Node(m, l, v)
  <2>1. ~(l < 1 /\ Same(1 - 1, v, u))
    <3>1. 1 - 1 = 0
      OBVIOUS
    <3>2. Same(0, v, u) => v = u
      BY SameStep
    <3> QED
      BY <1>1, <3>1, <3>2
  <2>2. 1 \in 1 .. 4
    OBVIOUS
  <2>3. \A h \in 0 .. 4, a \in VAll :
          \/ h < 1 /\ Same(1 - 1, a, u)
          \/ h = 0 /\ a = KERNEL_VMA
          \/ Node(m2, h, a) = Node(m, h, a)
    <3>1. DifferAt(m, m2, own, 1, u)
      BY <2>2 DEF DifferAt
    <3> QED
      BY <3>1, Elsewhere, ZenonT(40)
  <2> QED
    BY <1>1, <2>1, <2>3, ZenonT(40)
<1>2. \A l \in 1 .. 4, v \in VAll : Node(m2, l, v) = Node(m, l, v)
  <2> SUFFICES ASSUME NEW l \in 1 .. 4, NEW v \in VAll PROVE Node(m2, l, v) = Node(m, l, v)
    OBVIOUS
  <2>1. l \in 0 .. 4 /\ l # 0
    OBVIOUS
  <2> QED
    BY <1>1, <2>1, Zenon
<1>3. ASSUME NEW v \in VPage, v # u PROVE FrameOf(m2, v) = FrameOf(m, v)
  <2>1. v \in VAll /\ v # KERNEL_VMA /\ 0 \in 0 .. 4
    BY DEF VPage, VAll, TEMP_MAP_ADDR
  <2>2. Node(m2, 0, v) = Node(m, 0, v)
    BY <1>1, <1>3, <2>1, Zenon
  <2> QED
    BY <2>2 DEF Node
<1>4. TreeIn(m2, own)
  BY <1>2, SameTables, Zenon
<1> QED
  BY <1>2, <1>3, <1>4

(* paging_temp_map changes what one address means. *)
LEMMA TempMapped ==
  ASSUME NEW m, NEW own, TreeIn(m, own), NEW frame \in Frame \cup {Absent}
  PROVE  /\ TreeIn(paging_temp_map(m, frame), own)
         /\ paging_temp_map(m, frame)[kernel_pd0_pt(0)][0] = frame
         /\ \A l \in 1 .. 4, v \in VAll :
              Node(paging_temp_map(m, frame), l, v) = Node(m, l, v)
         /\ \A v \in VPage : FrameOf(paging_temp_map(m, frame), v) = FrameOf(m, v)
<1> DEFINE w == kernel_pd0_pt(0)
           m2 == paging_temp_map(m, frame)
<1>1. w \in Page /\ 0 \in Entry /\ w # Absent /\ m \in Tables /\ own \subseteq Page
  BY Window DEF TreeIn
<1>2. m2 = [m EXCEPT ![w][0] = frame]
  BY DEF paging_temp_map
<1>3. /\ KERNEL_VMA \in VAll /\ Node(m, 1, KERNEL_VMA) = w /\ Index(1, KERNEL_VMA) = 0
  BY Parts DEF TreeIn
<1> HIDE DEF w, m2
<1>4. /\ m2 \in Tables /\ m2[w][0] = frame
      /\ \A f \in Page, e \in Entry : m2[f][e] = m[f][e] \/ (f = w /\ e = 0)
  <2>1. m \in [Page -> [Entry -> Frame \cup {Absent}]]
    BY <1>1 DEF Tables
  <2>2. m2 \in [Page -> [Entry -> Frame \cup {Absent}]]
    BY <1>1, <1>2, <2>1
  <2> QED
    BY <1>1, <1>2, <2>1, <2>2 DEF Tables
<1>5. Differ(m, m2, own, Node(m, 1, KERNEL_VMA), Index(1, KERNEL_VMA))
  BY <1>1, <1>3, <1>4 DEF Differ
<1>6. Node(m, 1, KERNEL_VMA) # Absent
  BY <1>1, <1>3
<1>7. /\ TreeIn(m2, own)
      /\ \A l \in 1 .. 4, v \in VAll : Node(m2, l, v) = Node(m, l, v)
      /\ \A v \in VPage : v # KERNEL_VMA => FrameOf(m2, v) = FrameOf(m, v)
  BY <1>3, <1>4, <1>5, <1>6, OneEntry, Zenon
<1>8. \A v \in VPage : v # KERNEL_VMA
  BY DEF VPage, TEMP_MAP_ADDR
<1> QED
  BY <1>4, <1>7, <1>8 DEF w, m2

(* The entry of a page changes what its address means. *)
LEMMA Stored ==
  ASSUME NEW m, NEW own, TreeIn(m, own), NEW u \in VPage, Node(m, 1, u) # Absent,
         NEW x \in Frame
  PROVE  /\ TreeIn([m EXCEPT ![Node(m, 1, u)][Index(1, u)] = x], own)
         /\ FrameOf([m EXCEPT ![Node(m, 1, u)][Index(1, u)] = x], u) = x
         /\ \A v \in VPage \ {u} :
              FrameOf([m EXCEPT ![Node(m, 1, u)][Index(1, u)] = x], v) = FrameOf(m, v)
         /\ \A l \in 1 .. 4, v \in VAll :
              Node([m EXCEPT ![Node(m, 1, u)][Index(1, u)] = x], l, v) = Node(m, l, v)
<1> DEFINE t == Node(m, 1, u)
           i == Index(1, u)
           m2 == [m EXCEPT ![Node(m, 1, u)][Index(1, u)] = x]
<1>1. u \in VAll /\ 1 \in 1 .. 4
  BY DEF VPage, VAll
<1>2. t \in Page /\ t \in own /\ own \subseteq Page /\ i \in Entry /\ m \in Tables
  <2>1. t \in own /\ own \subseteq Page
    BY <1>1 DEF TreeIn, OwnedBy
  <2> QED
    BY <1>1, <2>1, SameAddress DEF TreeIn
<1>3. m2 = [m EXCEPT ![t][i] = x]
  OBVIOUS
<1> HIDE DEF t, i, m2
<1>4. /\ m2 \in Tables /\ m2[t][i] = x
      /\ \A f \in Page, e \in Entry : m2[f][e] = m[f][e] \/ (f = t /\ e = i)
  <2>1. x \in Frame \cup {Absent}
    OBVIOUS
  <2>2. m \in [Page -> [Entry -> Frame \cup {Absent}]]
    BY <1>2 DEF Tables
  <2>3. m2 \in [Page -> [Entry -> Frame \cup {Absent}]]
    BY <1>2, <1>3, <2>1, <2>2
  <2> QED
    BY <1>2, <1>3, <2>1, <2>2, <2>3 DEF Tables
<1>5. Differ(m, m2, own, Node(m, 1, u), Index(1, u))
  BY <1>2, <1>4 DEF Differ, t, i
<1>6. /\ TreeIn(m2, own)
      /\ \A l \in 1 .. 4, v \in VAll : Node(m2, l, v) = Node(m, l, v)
      /\ \A v \in VPage : v # u => FrameOf(m2, v) = FrameOf(m, v)
  BY <1>1, <1>4, <1>5, OneEntry, Zenon
<1>7. FrameOf(m2, u) = x
  <2>1. Node(m2, 0, u) = Lookup(m2, Node(m2, 1, u), 1, u)
    <3>1. 1 - 1 = 0
      OBVIOUS
    <3> QED
      BY <1>1, <3>1, NodeStep
  <2>2. Node(m2, 1, u) = t /\ t # Absent
    BY <1>1, <1>6 DEF t
  <2> QED
    BY <1>4, <2>1, <2>2 DEF Node, Lookup, i
<1> QED
  BY <1>6, <1>7 DEF m2

(* What creating a table needs: a table above that has none there, and a     *)
(* page that holds no table.                                                 *)
NewTable(m, own, k, u, q) ==
  /\ TreeIn(m, own) /\ k \in 2 .. 4 /\ u \in VAll
  /\ Node(m, k, u) # Absent /\ Node(m, k - 1, u) = Absent
  /\ q \in Page \ own

(* The new table is empty, linked, and nothing else was written. *)
Links(m, m2, own, k, u, q) ==
  /\ m2 \in Tables
  /\ \A e \in Entry : m2[q][e] = Absent
  /\ m2[Node(m, k, u)][Index(k, u)] = q
  /\ Differ(m, m2, own, Node(m, k, u), Index(k, u))

(* What was in the tree is where it was.                                     *)
StillThere(m, m2) ==
  \A l \in 1 .. 4, v \in VAll : Node(m, l, v) # Absent => Node(m2, l, v) = Node(m, l, v)

(* Then the tree has grown by that table, and no address changes its         *)
(* meaning.                                                                  *)
Grown(m, m2, own, k, u, q) ==
  /\ TreeIn(m2, own \cup {q}) /\ StillThere(m, m2)
  /\ \A v \in VPage : FrameOf(m2, v) = FrameOf(m, v)
  /\ Node(m2, k - 1, u) = q
  /\ Node(m2, k, u) = Node(m, k, u)

(* Linking a cleared page into the tree makes it one of the tree's tables.   *)
LEMMA Created ==
  ASSUME NEW m, NEW m2, NEW own, NEW k, NEW u, NEW q,
         NewTable(m, own, k, u, q), Links(m, m2, own, k, u, q)
  PROVE  Grown(m, m2, own, k, u, q)
<1> /\ TreeIn(m, own) /\ k \in 2 .. 4 /\ u \in VAll
    /\ Node(m, k, u) # Absent /\ Node(m, k - 1, u) = Absent
    /\ q \in Page \ own
  BY DEF NewTable
<1> /\ m2 \in Tables
    /\ \A e \in Entry : m2[q][e] = Absent
    /\ m2[Node(m, k, u)][Index(k, u)] = q
    /\ Differ(m, m2, own, Node(m, k, u), Index(k, u))
  BY DEF Links
<1>0. k \in 1 .. 4 /\ k - 1 \in 1 .. 4 /\ k - 2 \in 0 .. 4 /\ k # 0 /\ k \in Int
  OBVIOUS
<1>1. \A l \in 0 .. 4, v \in VAll :
        \/ l < k /\ Same(k - 1, v, u)
        \/ l = 0 /\ v = KERNEL_VMA
        \/ Node(m2, l, v) = Node(m, l, v)
  <2>1. DifferAt(m, m2, own, k, u)
    BY <1>0 DEF DifferAt
  <2> QED
    BY <2>1, Elsewhere, Zenon
<1>2. ASSUME NEW v \in VAll, Same(k - 1, v, u)
      PROVE  /\ Node(m2, k - 1, v) = q
             /\ \A l \in 0 .. (k - 2) : Node(m2, l, v) = Absent
             /\ \A l \in 0 .. (k - 1) : Node(m, l, v) = Absent
  <2>1. Same(k, v, u) /\ Index(k, v) = Index(k, u)
    <3>1. k \in ((k - 1) + 1) .. 4 /\ \A h \in (k + 1) .. 4 : h \in ((k - 1) + 1) .. 4
      OBVIOUS
    <3> QED
      BY <1>2, <3>1, Zenon DEF Same
  <2>2. Node(m, k, v) = Node(m, k, u) /\ Node(m, k - 1, v) = Node(m, k - 1, u)
    <3>1. k \in 0 .. 4 /\ k - 1 \in 0 .. 4
      OBVIOUS
    <3> QED
      BY <1>2, <2>1, <3>1, SameNode, ZenonT(40)
  <2>3. Node(m2, k, v) = Node(m, k, u)
    <3>1. k \in 0 .. 4 /\ ~(k < k) /\ k # 0
      OBVIOUS
    <3> QED
      BY <1>1, <2>2, <3>1, Zenon
  <2>4. Node(m2, k - 1, v) = q
    <3>1. Node(m2, k - 1, v) = Lookup(m2, Node(m2, k, v), k, v)
      BY <1>0, NodeStep, Zenon
    <3> QED
      BY <2>1, <2>3, <3>1 DEF Lookup
  <2>5. Node(m2, k - 2, v) = Absent
    <3>1. Node(m2, (k - 1) - 1, v) = Lookup(m2, Node(m2, k - 1, v), k - 1, v)
      BY <1>0, NodeStep, Zenon
    <3>2. (k - 1) - 1 = k - 2
      OBVIOUS
    <3>3. Index(k - 1, v) \in Entry /\ q # Absent
      BY <1>0, SameAddress, Window
    <3> QED
      BY <2>4, <3>1, <3>2, <3>3 DEF Lookup
  <2>6. \A l \in 0 .. (k - 2) : Node(m2, l, v) = Absent
    BY <1>0, <2>5, AbsentBelow
  <2>7. \A l \in 0 .. (k - 1) : Node(m, l, v) = Absent
    <3>1. k - 1 \in 0 .. 4
      OBVIOUS
    <3> QED
      BY <2>2, <3>1, AbsentBelow
  <2> QED
    BY <2>4, <2>6, <2>7
<1>3. ASSUME NEW l \in 1 .. 4, NEW v \in VAll
      PROVE  \/ l = k - 1 /\ Same(k - 1, v, u) /\ Node(m2, l, v) = q /\ Node(m, l, v) = Absent
             \/ Node(m2, l, v) = Node(m, l, v)
  <2>1. l \in 0 .. 4 /\ l # 0
    OBVIOUS
  <2>2. CASE l < k /\ Same(k - 1, v, u)
    <3>1. l = k - 1 \/ l \in 0 .. (k - 2)
      BY <2>2
    <3>2. l \in 0 .. (k - 1)
      BY <2>2
    <3> QED
      BY <1>2, <2>2, <3>1, <3>2
  <2> QED
    BY <1>1, <2>1, <2>2
<1>4. ASSUME NEW l \in 1 .. 4, NEW v \in VAll PROVE Node(m, l, v) # q
  <2>1. Node(m, l, v) \in own \cup {Absent}
    BY DEF TreeIn, OwnedBy
  <2> QED
    BY <2>1, Window
<1>5. Tree(m2)
  <2> SUFFICES ASSUME NEW l \in 1 .. 4, NEW h \in 1 .. 4, NEW v \in VAll, NEW w \in VAll,
                      Node(m2, l, v) # Absent, Node(m2, l, v) = Node(m2, h, w)
               PROVE  l = h /\ Same(l, v, w)
    BY DEF Tree
  <2>1. CASE Node(m2, l, v) = Node(m, l, v)
    <3>1. Node(m2, h, w) = Node(m, h, w)
      BY <1>3, <1>4, <2>1
    <3>2. Tree(m) /\ Node(m, l, v) # Absent /\ Node(m, l, v) = Node(m, h, w)
      BY <2>1, <3>1 DEF TreeIn
    <3> QED
      BY <3>2, Zenon DEF Tree
  <2>2. CASE l = k - 1 /\ Same(k - 1, v, u) /\ Node(m2, l, v) = q
    <3>1. h = k - 1 /\ Same(k - 1, w, u)
      BY <1>3, <1>4, <2>2
    <3> QED
      BY <2>2, <3>1, SameStep
  <2> QED
    BY <1>3, <2>1, <2>2
<1>6. OwnedBy(m2, own \cup {q})
  <2> SUFFICES ASSUME NEW l \in 1 .. 4, NEW v \in VAll
               PROVE  Node(m2, l, v) \in own \cup {q} \cup {Absent}
    BY DEF OwnedBy
  <2>1. Node(m, l, v) \in own \cup {Absent}
    BY DEF TreeIn, OwnedBy
  <2> QED
    BY <1>3, <2>1
<1>7. Node(m2, 1, KERNEL_VMA) = kernel_pd0_pt(0)
  <2>1. 1 \in 1 .. 4 /\ KERNEL_VMA \in VAll
    BY Parts
  <2>2. Node(m, 1, KERNEL_VMA) = kernel_pd0_pt(0) /\ kernel_pd0_pt(0) # Absent
    BY Window DEF TreeIn
  <2> QED
    BY <1>3, <2>1, <2>2
<1>8. ASSUME NEW v \in VPage PROVE FrameOf(m2, v) = FrameOf(m, v)
  <2>1. v \in VAll /\ v # KERNEL_VMA
    BY DEF VPage, VAll, TEMP_MAP_ADDR
  <2>2. 0 \in 0 .. 4 /\ 0 \in 0 .. (k - 2) /\ 0 \in 0 .. (k - 1)
    OBVIOUS
  <2>3. CASE Same(k - 1, v, u)
    BY <1>2, <2>1, <2>2, <2>3 DEF Node
  <2>4. CASE Node(m2, 0, v) = Node(m, 0, v)
    BY <2>4 DEF Node
  <2> QED
    BY <1>1, <2>1, <2>2, <2>3, <2>4
<1>9. Node(m2, k - 1, u) = q
  <2>1. Same(k - 1, u, u)
    BY DEF Same
  <2> QED
    BY <1>2, <2>1
<1>10. Node(m2, k, u) = Node(m, k, u)
  BY <1>0, <1>3, <1>4
<1>11. own \cup {q} \subseteq Page
  BY DEF TreeIn
<1>12. StillThere(m, m2)
  BY <1>3 DEF StillThere
<1> QED
  BY <1>5, <1>6, <1>7, <1>8, <1>9, <1>10, <1>11, <1>12 DEF TreeIn, Grown

(* What CreateTable writes, before the table above is mapped again.          *)
Linked(m, k, u, q) == Cleared([m EXCEPT ![Node(m, k, u)][Index(k, u)] = q], q)

(* What CreateTable stores is that link.                                     *)
LEMMA LinkedLinks ==
  ASSUME NEW m, NEW own, NEW k, NEW u, NEW q, NewTable(m, own, k, u, q)
  PROVE  Links(m, Linked(m, k, u, q), own, k, u, q)
<1> DEFINE t == Node(m, k, u)
           i == Index(k, u)
           w == kernel_pd0_pt(0)
           a == [m EXCEPT ![t][i] = q]
           b == [a EXCEPT ![w][0] = q]
           empty == [e \in Entry |-> Absent]
           m2 == Linked(m, k, u, q)
<1>0. /\ TreeIn(m, own) /\ k \in 1 .. 4 /\ k # 1 /\ u \in VAll
      /\ t # Absent /\ q \in Page \ own
  BY DEF NewTable
<1>1. t \in own /\ own \subseteq Page /\ i \in Entry
  BY <1>0, SameAddress DEF TreeIn, OwnedBy
<1>2. w \in Page /\ 0 \in Entry /\ q \in Frame \cup {Absent}
  BY <1>0, Window
<1>3. t # w
  <2>1. Node(m, 1, KERNEL_VMA) = w /\ 1 \in 1 .. 4 /\ KERNEL_VMA \in VAll
    BY <1>0, Parts DEF TreeIn
  <2>2. Tree(m)
    BY <1>0 DEF TreeIn
  <2>3. Node(m, k, u) = Node(m, 1, KERNEL_VMA) => k = 1
    BY <1>0, <2>1, <2>2, Zenon DEF Tree
  <2> QED
    BY <1>0, <2>1, <2>3
<1>5. m \in [Page -> [Entry -> Frame \cup {Absent}]]
  BY <1>0 DEF TreeIn, Tables
<1>7. m2 = [b EXCEPT ![q] = empty]
  BY DEF Linked, Cleared, paging_temp_map
<1>8. empty \in [Entry -> Frame \cup {Absent}] /\ \A e \in Entry : empty[e] = Absent
  OBVIOUS
<1> HIDE DEF t, i, w, empty, m2
<1>9. /\ a \in [Page -> [Entry -> Frame \cup {Absent}]] /\ a[t][i] = q
      /\ \A f \in Page, e \in Entry : a[f][e] = m[f][e] \/ (f = t /\ e = i)
  <2>1. t \in Page /\ i \in Entry /\ q \in Frame \cup {Absent}
    BY <1>1, <1>2
  <2>2. a \in [Page -> [Entry -> Frame \cup {Absent}]]
    BY <1>5, <2>1
  <2> QED
    BY <1>5, <2>1, <2>2
<1> HIDE DEF a
<1>10. /\ b \in [Page -> [Entry -> Frame \cup {Absent}]] /\ b[t] = a[t]
       /\ \A f \in Page, e \in Entry : b[f][e] = a[f][e] \/ (f = w /\ e = 0)
  <2>1. b \in [Page -> [Entry -> Frame \cup {Absent}]]
    BY <1>2, <1>9
  <2> QED
    BY <1>1, <1>2, <1>3, <1>9, <2>1
<1> HIDE DEF b
<1>11. /\ m2 \in [Page -> [Entry -> Frame \cup {Absent}]] /\ m2[q] = empty
       /\ \A f \in own : m2[f] = b[f]
  BY <1>0, <1>1, <1>7, <1>8, <1>10
<1>12. m2[t][i] = q
  BY <1>1, <1>9, <1>10, <1>11
<1>13. Differ(m, m2, own, t, i)
  <2> SUFFICES ASSUME NEW f \in own, NEW e \in Entry
               PROVE  m2[f][e] = m[f][e] \/ (f = t /\ e = i) \/ (f = w /\ e = 0)
    BY DEF Differ, w
  <2>1. f \in Page /\ m2[f] = b[f]
    BY <1>1, <1>11
  <2>2. b[f][e] = a[f][e] \/ (f = w /\ e = 0)
    BY <1>10, <2>1
  <2>3. a[f][e] = m[f][e] \/ (f = t /\ e = i)
    BY <1>9, <2>1
  <2> QED
    BY <2>1, <2>2, <2>3
<1>14. m2 \in Tables /\ \A e \in Entry : m2[q][e] = Absent
  BY <1>8, <1>11 DEF Tables
<1> QED
  BY <1>12, <1>13, <1>14 DEF Links, t, i, m2

(* The step as a whole. *)
LEMMA TableCreated ==
  ASSUME NEW own, NEW q, NewTable(mem, own, level, virt, q), Table = Node(mem, level, virt),
         mem' = Remap(Cleared([mem EXCEPT ![Table][Index(level, virt)] = q], q)),
         level' = level, virt' = virt
  PROVE  /\ Grown(mem, mem', own, level, virt, q)
         /\ Table' = Node(mem', level, virt)
<1> DEFINE m2 == Linked(mem, level, virt, q)
           all == own \cup {q}
<1>0. /\ level \in 2 .. 4 /\ virt \in VAll /\ own \subseteq Page /\ q \in Page
      /\ Node(mem, level, virt) # Absent
  BY DEF NewTable, TreeIn
<1>1. mem' = Remap(m2)
  BY DEF Linked
<1>2. Grown(mem, m2, own, level, virt, q)
  BY LinkedLinks, Created, Zenon
<1> HIDE DEF m2
<1>3. CASE level = 4
  <2>1. mem' = m2
    BY <1>1, <1>3 DEF Remap
  <2>2. Table' = kernel_pml4 /\ Node(m2, 4, virt) = kernel_pml4
    BY <1>3 DEF Table, Node
  <2> QED
    BY <1>2, <1>3, <2>1, <2>2
<1>4. ASSUME level # 4, mem' = paging_temp_map(m2, Node(m2, level, virt))
      PROVE  /\ Grown(mem, mem', own, level, virt, q)
             /\ Table' = Node(mem', level, virt)
  <2> DEFINE n == Node(m2, level, virt)
  <2>1. TreeIn(m2, all)
    BY <1>2 DEF Grown
  <2>2. n \in Frame \cup {Absent}
    <3>1. level \in 1 .. 4
      BY <1>0
    <3>2. n \in all \cup {Absent} /\ all \subseteq Page
      BY <1>0, <2>1, <3>1 DEF TreeIn, OwnedBy
    <3> QED
      BY <3>2, Window
  <2>3. mem' = paging_temp_map(m2, n)
    BY <1>4
  <2> HIDE DEF n, all
  <2>4. /\ TreeIn(mem', all)
        /\ mem'[kernel_pd0_pt(0)][0] = n
        /\ \A l \in 1 .. 4, v \in VAll : Node(mem', l, v) = Node(m2, l, v)
        /\ \A v \in VPage : FrameOf(mem', v) = FrameOf(m2, v)
    <3>1. /\ TreeIn(paging_temp_map(m2, n), all)
          /\ paging_temp_map(m2, n)[kernel_pd0_pt(0)][0] = n
          /\ \A l \in 1 .. 4, v \in VAll : Node(paging_temp_map(m2, n), l, v) = Node(m2, l, v)
          /\ \A v \in VPage : FrameOf(paging_temp_map(m2, n), v) = FrameOf(m2, v)
      BY <2>1, <2>2, TempMapped, Zenon
    <3> QED
      BY <2>3, <3>1, Zenon
  <2>5. level \in 1 .. 4 /\ level - 1 \in 1 .. 4
    BY <1>0
  <2>6. Table' = n
    BY <1>4, <2>4 DEF Table, Temp
  <2>7. StillThere(mem, mem')
    BY <1>2, <2>4 DEF Grown, StillThere
  <2> QED
    BY <1>0, <1>2, <2>4, <2>5, <2>6, <2>7 DEF n, all, Grown
<1>5. CASE level = 3
  <2>1. mem' = paging_temp_map(m2, Node(m2, level, virt)) /\ level # 4
    BY <1>1, <1>5 DEF Remap, Node
  <2> QED
    BY <1>4, <2>1, Zenon
<1>6. CASE level = 2
  <2>1. mem' = paging_temp_map(m2, Node(m2, level, virt)) /\ level # 4
    BY <1>1, <1>6 DEF Remap, Node
  <2> QED
    BY <1>4, <2>1, Zenon
<1> QED
  BY <1>0, <1>3, <1>5, <1>6

-----------------------------------------------------------------------------
(* The kernel's own tables have that shape: they map the kernel where it is  *)
(* and nothing else.                                                         *)
KernelMem(m) == [f \in Page |-> IF f \in KernelImage THEN KernelTable(f) ELSE m[f]]

(* The entries of the tables in the kernel's image. *)
LEMMA KernelEntries ==
  /\ N \in Nat /\ N >= 3 /\ kernel_pml4 = N /\ kernel_pdpt0 = N + 1 /\ kernel_pd0 = N + 2
  /\ KernelImage = N .. (N + 2 + N)
  /\ \A j \in Entry : kernel_pd0_pt(j) = N + 3 + j /\ kernel_pd0_pt(j) \in KernelImage
  /\ {kernel_pml4, kernel_pdpt0, kernel_pd0} \subseteq KernelImage
  /\ \A e \in Entry :
       /\ KernelTable(kernel_pml4)[e] = IF e = N - 1 THEN kernel_pdpt0 ELSE Absent
       /\ KernelTable(kernel_pdpt0)[e] = IF e = N - 2 THEN kernel_pd0 ELSE Absent
       /\ KernelTable(kernel_pd0)[e] = kernel_pd0_pt(e)
       /\ \A j \in Entry : KernelTable(kernel_pd0_pt(j))[e] = j * N + e
  /\ \A f \in KernelImage : KernelTable(f) \in [Entry -> Frame \cup {Absent}]
<1>1. N \in Nat /\ N >= 3 /\ OneG = N * N /\ KernelImage \subseteq Page /\ FB_FRAME \in Nat
  BY Sizes3, PagingAssumption DEF PagingAssumption
<1>2. /\ kernel_pml4 = N /\ kernel_pdpt0 = N + 1 /\ kernel_pd0 = N + 2
      /\ KernelImage = N .. (N + 2 + N)
      /\ \A j : kernel_pd0_pt(j) = N + 3 + j
  BY <1>1 DEF kernel_pml4, kernel_pdpt0, kernel_pd0, kernel_pd0_pt, KERNEL_LMA, KernelImage
<1>3. \A j \in Entry : kernel_pd0_pt(j) \in KernelImage
  <2> SUFFICES ASSUME NEW j \in Entry PROVE kernel_pd0_pt(j) \in KernelImage
    OBVIOUS
  <2>1. j \in 0 .. (N - 1) /\ kernel_pd0_pt(j) = N + 3 + j
    BY <1>2 DEF Entry
  <2> QED
    BY <1>1, <1>2, <2>1
<1>4. {kernel_pml4, kernel_pdpt0, kernel_pd0} \subseteq KernelImage
  BY <1>1, <1>2
<1>5. ASSUME NEW e \in Entry
      PROVE  /\ KernelTable(kernel_pml4)[e] = IF e = N - 1 THEN kernel_pdpt0 ELSE Absent
             /\ KernelTable(kernel_pdpt0)[e] = IF e = N - 2 THEN kernel_pd0 ELSE Absent
             /\ KernelTable(kernel_pd0)[e] = kernel_pd0_pt(e)
             /\ \A j \in Entry : KernelTable(kernel_pd0_pt(j))[e] = j * N + e
  <2>1. kernel_pdpt0 # kernel_pml4 /\ kernel_pd0 # kernel_pml4 /\ kernel_pd0 # kernel_pdpt0
    BY <1>1, <1>2
  <2>2. KernelTable(kernel_pml4)[e] = IF e = N - 1 THEN kernel_pdpt0 ELSE Absent
    BY <2>1 DEF KernelTable
  <2>3. KernelTable(kernel_pdpt0)[e] = IF e = N - 2 THEN kernel_pd0 ELSE Absent
    BY <2>1 DEF KernelTable
  <2>4. KernelTable(kernel_pd0)[e] = kernel_pd0_pt(e)
    BY <2>1 DEF KernelTable
  <2>5. ASSUME NEW j \in Entry PROVE KernelTable(kernel_pd0_pt(j))[e] = j * N + e
    <3> DEFINE f == kernel_pd0_pt(j)
    <3>1. f # kernel_pml4 /\ f # kernel_pdpt0 /\ f # kernel_pd0 /\ f - kernel_pd0_pt(0) = j
      <4>1. j \in 0 .. (N - 1) /\ f = N + 3 + j /\ kernel_pd0_pt(0) = N + 3 + 0
        BY <1>2 DEF Entry
      <4> HIDE DEF f
      <4> QED
        BY <1>1, <1>2, <4>1
    <3> HIDE DEF f
    <3>2. KernelTable(f)[e] = (f - kernel_pd0_pt(0)) * N + e
      BY <3>1 DEF KernelTable
    <3> QED
      BY <3>1, <3>2 DEF f
  <2> QED
    BY <2>2, <2>3, <2>4, <2>5
<1>6. ASSUME NEW f \in KernelImage PROVE KernelTable(f) \in [Entry -> Frame \cup {Absent}]
  <2> SUFFICES ASSUME NEW e \in Entry PROVE KernelTable(f)[e] \in Frame \cup {Absent}
    BY DEF KernelTable
  <2>1. KernelImage \subseteq Frame
    BY <1>1, Window
  <2>2. CASE f \in {kernel_pml4, kernel_pdpt0, kernel_pd0}
    <3>1. kernel_pd0_pt(e) \in KernelImage
      BY <1>3
    <3> QED
      BY <1>4, <1>5, <2>1, <2>2, <3>1
  <2>3. CASE f \notin {kernel_pml4, kernel_pdpt0, kernel_pd0}
    <3>1. f \in N .. (N + 2 + N) /\ f # N /\ f # N + 1 /\ f # N + 2
      BY <1>2, <2>3
    <3> DEFINE j == f - (N + 3)
    <3>2. j \in 0 .. (N - 1) /\ f = N + 3 + j
      BY <1>1, <3>1
    <3> HIDE DEF j
    <3>3. j \in Entry /\ f = kernel_pd0_pt(j)
      BY <1>2, <3>2 DEF Entry
    <3>4. KernelTable(f)[e] = j * N + e
      BY <1>5, <3>3
    <3>5. j * N + e \in 0 .. (N * N - 1)
      <4>1. e \in 0 .. (N - 1)
        BY DEF Entry
      <4> QED
        BY <1>1, <3>3, <4>1, Below
    <3> QED
      BY <1>1, <3>4, <3>5 DEF Frame
  <2> QED
    BY <2>2, <2>3
<1> QED
  BY <1>1, <1>2, <1>3, <1>4, <1>5, <1>6

(* The walk through them. *)
LEMMA KernelWalk ==
  ASSUME NEW m, NEW v \in VAll
  PROVE  /\ Node(KernelMem(m), 3, v) = IF Index(4, v) = N - 1 THEN kernel_pdpt0 ELSE Absent
         /\ Node(KernelMem(m), 2, v) = IF InKernel(v) THEN kernel_pd0 ELSE Absent
         /\ Node(KernelMem(m), 1, v) = IF InKernel(v) THEN kernel_pd0_pt(Index(2, v)) ELSE Absent
         /\ FrameOf(KernelMem(m), v) = IF InKernel(v) THEN v - KERNEL_VMA ELSE Absent
<1> DEFINE k == KernelMem(m)
<1>1. /\ Index(4, v) \in Entry /\ Index(3, v) \in Entry /\ Index(2, v) \in Entry
      /\ Index(1, v) \in Entry
  BY SameAddress
<1>2. \A f \in KernelImage : k[f] = KernelTable(f)
  BY PagingAssumption DEF PagingAssumption, KernelMem
<1>3. /\ kernel_pml4 # Absent /\ kernel_pdpt0 # Absent /\ kernel_pd0 # Absent
      /\ kernel_pd0_pt(Index(2, v)) # Absent
  <2>1. Absent \notin KernelImage
    BY Window, PagingAssumption DEF PagingAssumption
  <2> QED
    BY <1>1, <2>1, KernelEntries
<1> HIDE DEF k
<1>4. Pdpt(k, v) = IF Index(4, v) = N - 1 THEN kernel_pdpt0 ELSE Absent
  BY <1>1, <1>2, KernelEntries DEF Pdpt
<1>5. Pd(k, v) = IF InKernel(v) THEN kernel_pd0 ELSE Absent
  <2>1. CASE Index(4, v) # N - 1
    BY <1>4, <2>1 DEF Pd, Lookup, InKernel
  <2>2. CASE Index(4, v) = N - 1
    <3>1. Pd(k, v) = k[kernel_pdpt0][Index(3, v)]
      BY <1>3, <1>4, <2>2 DEF Pd, Lookup
    <3>2. k[kernel_pdpt0] = KernelTable(kernel_pdpt0)
      BY <1>2, KernelEntries
    <3> QED
      BY <1>1, <2>2, <3>1, <3>2, KernelEntries DEF InKernel
  <2> QED
    BY <2>1, <2>2
<1>6. Pt(k, v) = IF InKernel(v) THEN kernel_pd0_pt(Index(2, v)) ELSE Absent
  BY <1>1, <1>2, <1>3, <1>5, KernelEntries DEF Pt, Lookup
<1>7. FrameOf(k, v) = IF InKernel(v) THEN v - KERNEL_VMA ELSE Absent
  <2>1. CASE ~InKernel(v)
    BY <1>6, <2>1 DEF FrameOf, Lookup
  <2>2. CASE InKernel(v)
    <3>1. FrameOf(k, v) = k[kernel_pd0_pt(Index(2, v))][Index(1, v)]
      BY <1>3, <1>6, <2>2 DEF FrameOf, Lookup
    <3>2. k[kernel_pd0_pt(Index(2, v))] = KernelTable(kernel_pd0_pt(Index(2, v)))
      BY <1>1, <1>2, KernelEntries
    <3>3. FrameOf(k, v) = Index(2, v) * N + Index(1, v)
      BY <1>1, <3>1, <3>2, KernelEntries
    <3> QED
      BY <2>2, <3>3, KernelPart
  <2> QED
    BY <2>1, <2>2
<1> QED
  BY <1>4, <1>5, <1>6, <1>7 DEF Node, k

(* Their shape. *)
LEMMA KernelShape ==
  ASSUME NEW m \in Tables
  PROVE  TreeIn(KernelMem(m), KernelImage)
<1> DEFINE k == KernelMem(m)
<1>0. N \in Nat /\ N >= 3 /\ KernelImage \subseteq Page
  BY Sizes3, PagingAssumption DEF PagingAssumption
<1>1. \A v \in VAll :
        /\ Node(k, 4, v) = N
        /\ Node(k, 3, v) = IF Index(4, v) = N - 1 THEN N + 1 ELSE -1
        /\ Node(k, 2, v) = IF InKernel(v) THEN N + 2 ELSE -1
        /\ Node(k, 1, v) = IF InKernel(v) THEN N + 3 + Index(2, v) ELSE -1
        /\ Index(2, v) \in 0 .. (N - 1)
  <2> SUFFICES ASSUME NEW v \in VAll
               PROVE  /\ Node(k, 4, v) = N
                      /\ Node(k, 3, v) = IF Index(4, v) = N - 1 THEN N + 1 ELSE -1
                      /\ Node(k, 2, v) = IF InKernel(v) THEN N + 2 ELSE -1
                      /\ Node(k, 1, v) = IF InKernel(v) THEN N + 3 + Index(2, v) ELSE -1
                      /\ Index(2, v) \in 0 .. (N - 1)
    OBVIOUS
  <2>1. Index(2, v) \in Entry
    BY SameAddress
  <2>2. Node(k, 4, v) = kernel_pml4
    BY DEF Node
  <2> QED
    BY <2>1, <2>2, KernelWalk, KernelEntries DEF Absent, Entry
<1> HIDE DEF k
<1>2. Tree(k)
  <2> SUFFICES ASSUME NEW l \in 1 .. 4, NEW h \in 1 .. 4, NEW v \in VAll, NEW w \in VAll,
                      Node(k, l, v) # Absent, Node(k, l, v) = Node(k, h, w)
               PROVE  l = h /\ Same(l, v, w)
    BY DEF Tree
  <2> DEFINE Place(a, n) ==
               \/ a = 4 /\ n = N
               \/ a = 3 /\ n = N + 1
               \/ a = 2 /\ n = N + 2
               \/ a = 1 /\ n \in (N + 3) .. (N + 2 + N)
  <2>1. ASSUME NEW a \in 1 .. 4, NEW x \in VAll, Node(k, a, x) # Absent
        PROVE  Place(a, Node(k, a, x))
    <3>1. a = 1 \/ a = 2 \/ a = 3 \/ a = 4
      OBVIOUS
    <3> QED
      BY <1>0, <1>1, <2>1, <3>1 DEF Absent
  <2>2. l = h
    <3>1. Place(l, Node(k, l, v)) /\ Place(h, Node(k, l, v))
      BY <2>1
    <3> QED
      BY <1>0, <3>1
  <2>3. Same(l, v, w)
    <3> SUFFICES ASSUME NEW j \in (l + 1) .. 4 PROVE Index(j, v) = Index(j, w)
      BY DEF Same
    <3>1. j \in 2 .. 4 /\ l < j /\ l \in 1 .. 4
      OBVIOUS
    <3>2. CASE l = 3
      <4>1. j = 4 /\ Index(4, v) = N - 1 /\ Index(4, w) = N - 1
        BY <1>1, <2>2, <3>1, <3>2 DEF Absent
      <4> QED
        BY <4>1
    <3>3. CASE l = 2
      <4>1. (j = 3 \/ j = 4) /\ InKernel(v) /\ InKernel(w)
        BY <1>1, <2>2, <3>1, <3>3 DEF Absent
      <4> QED
        BY <4>1 DEF InKernel
    <3>4. CASE l = 1
      <4>1. (j = 2 \/ j = 3 \/ j = 4) /\ InKernel(v) /\ InKernel(w)
        BY <1>1, <2>2, <3>1, <3>4 DEF Absent
      <4>2. N + 3 + Index(2, v) = N + 3 + Index(2, w)
        BY <1>1, <2>2, <3>4, <4>1
      <4>3. Index(2, v) = Index(2, w)
        BY <1>0, <1>1, <4>2
      <4> QED
        BY <4>1, <4>3 DEF InKernel
    <3> QED
      BY <3>1, <3>2, <3>3, <3>4
  <2> QED
    BY <2>2, <2>3
<1>3. OwnedBy(k, KernelImage)
  <2> SUFFICES ASSUME NEW l \in 1 .. 4, NEW v \in VAll
               PROVE  Node(k, l, v) \in KernelImage \cup {Absent}
    BY DEF OwnedBy
  <2>1. l = 1 \/ l = 2 \/ l = 3 \/ l = 4
    OBVIOUS
  <2>2. Node(k, l, v) \in N .. (N + 2 + N) \/ Node(k, l, v) = -1
    BY <1>0, <1>1, <2>1
  <2> QED
    BY <2>2, KernelEntries DEF Absent
<1>4. Node(k, 1, KERNEL_VMA) = kernel_pd0_pt(0)
  <2>1. KERNEL_VMA \in VAll /\ InKernel(KERNEL_VMA) /\ Index(2, KERNEL_VMA) = 0
    BY Parts
  <2> QED
    BY <2>1, KernelWalk DEF k
<1>5. k \in Tables
  <2> SUFFICES ASSUME NEW f \in Page
               PROVE  (IF f \in KernelImage THEN KernelTable(f) ELSE m[f]) \in [Entry -> Frame \cup {Absent}]
    BY DEF Tables, k, KernelMem
  <2>1. m[f] \in [Entry -> Frame \cup {Absent}]
    BY DEF Tables
  <2> QED
    BY <2>1, KernelEntries
<1> QED
  BY <1>0, <1>2, <1>3, <1>4, <1>5 DEF TreeIn, k

-----------------------------------------------------------------------------
(* The blocks in pages. *)
LEMMA BlocksOf ==
  ASSUME PInv, pc = "alloc"
  PROVE  /\ pmem_blocks_count \in Nat /\ Indices = 0 .. (pmem_blocks_count - 1)
         /\ \A k \in Indices :
              /\ Whole(BlockAt(k)) /\ Pages(BlockAt(k)) = First(BlockAt(k)) .. (End(BlockAt(k)) - 1)
              /\ First(BlockAt(k)) \in Nat \ {0} /\ End(BlockAt(k)) \in Nat
              /\ First(BlockAt(k)) <= End(BlockAt(k))
              /\ \A q \in Nat : q * PAGE_SIZE < BlockAt(k).limit <=> q < End(BlockAt(k))
         /\ \A j, k \in Indices : j < k => End(BlockAt(j)) <= First(BlockAt(k))
         /\ Free = UNION {Pages(BlockAt(k)) : k \in Indices}
<1>1. /\ pmem_blocks_count \in Nat /\ DOMAIN pmem_block_map = 1 .. pmem_blocks_count
      /\ Indices = 0 .. (pmem_blocks_count - 1)
      /\ WholesIn(pmem_block_map) /\ ApartIn(pmem_block_map)
  BY BlockTable DEF PInv, Indices
<1>2. ASSUME NEW k \in Indices
      PROVE  /\ k + 1 \in 1 .. pmem_blocks_count /\ BlockAt(k) = pmem_block_map[k + 1]
             /\ Whole(BlockAt(k))
  <2>1. k + 1 \in 1 .. pmem_blocks_count
    BY <1>1
  <2> QED
    BY <1>1, <2>1 DEF BlockAt, WholesIn
<1>3. ASSUME NEW k \in Indices
      PROVE  /\ Whole(BlockAt(k)) /\ Pages(BlockAt(k)) = First(BlockAt(k)) .. (End(BlockAt(k)) - 1)
             /\ First(BlockAt(k)) \in Nat \ {0} /\ End(BlockAt(k)) \in Nat
             /\ First(BlockAt(k)) <= End(BlockAt(k))
             /\ \A q \in Nat : q * PAGE_SIZE < BlockAt(k).limit <=> q < End(BlockAt(k))
  <2> DEFINE b == BlockAt(k)
             e == End(b)
  <2>1. Whole(b)
    BY <1>2
  <2>2. Pages(b) = First(b) .. (e - 1)
    BY <2>1, PagesOfWhole
  <2>3. First(b) \in Nat \ {0} /\ e \in Nat /\ First(b) <= e
    BY <2>1, WholeOrder
  <2>4. b.limit = e * PAGE_SIZE
    BY <2>1 DEF Whole
  <2> HIDE DEF b, e
  <2>5. ASSUME NEW q \in Nat PROVE q * PAGE_SIZE < b.limit <=> q < e
    <3>1. q \in Int /\ e \in Int
      BY <2>3
    <3>2. e <= q <=> e * PAGE_SIZE <= q * PAGE_SIZE
      BY <3>1, PageOrder
    <3>3. q * PAGE_SIZE \in Int /\ e * PAGE_SIZE \in Int
      BY <3>1, TimesPage
    <3> QED
      BY <2>4, <3>1, <3>2, <3>3
  <2> QED
    BY <2>1, <2>2, <2>3, <2>5 DEF b, e
<1>4. ASSUME NEW j \in Indices, NEW k \in Indices, j < k PROVE End(BlockAt(j)) <= First(BlockAt(k))
  <2>1. BlockAt(j).limit <= BlockAt(k).base
    <3>1. j + 1 < k + 1
      BY <1>1, <1>4
    <3> QED
      BY <1>1, <1>2, <3>1 DEF ApartIn
  <2>2. Whole(BlockAt(j)) /\ Whole(BlockAt(k))
    BY <1>2
  <2> QED
    BY <2>1, <2>2, WholeOrder
<1>5. Free = UNION {Pages(BlockAt(k)) : k \in Indices}
  <2>1. ASSUME NEW k \in DOMAIN pmem_block_map PROVE k - 1 \in Indices /\ BlockAt(k - 1) = pmem_block_map[k]
    BY <1>1 DEF BlockAt
  <2> QED
    BY <1>1, <1>2, <2>1 DEF Free
<1> QED
  BY <1>1, <1>3, <1>4, <1>5

(* What pmem_alloc_page does to them. *)
LEMMA AllocShrinks ==
  ASSUME PInv, Alloc
  PROVE  /\ PInv' /\ pc = "alloc" /\ pc' = "alloc" /\ UNCHANGED ram
         /\ pmem_blocks_count' = pmem_blocks_count /\ Indices' = Indices
         /\ \A k \in Indices :
              /\ First(BlockAt(k))' = First(BlockAt(k))
              /\ End(BlockAt(k))' <= End(BlockAt(k))
              /\ Pages(BlockAt(k))' \subseteq Pages(BlockAt(k))
         /\ \E q \in ram \ allocated :
              /\ q \in Page \ {0} /\ allocated' = allocated \cup {q}
              /\ q = BlockAt(pmem_current_block)'.limit \div PAGE_SIZE
              /\ pmem_current_block' = pmem_blocks_count - 1 =>
                   /\ pmem_current_block = pmem_blocks_count - 1
                   /\ q = End(BlockAt(pmem_blocks_count - 1))'
                   /\ q = End(BlockAt(pmem_blocks_count - 1)) - 1
<1>0. /\ pc = "alloc" /\ pc' = "alloc" /\ UNCHANGED ram /\ PInv'
      /\ pmem_blocks_count \in Nat /\ Indices = 0 .. (pmem_blocks_count - 1)
      /\ DOMAIN pmem_block_map = 1 .. pmem_blocks_count
      /\ pmem_current_block \in Indices
  <2>1. pc = "alloc" /\ pc' = "alloc" /\ UNCHANGED ram
    BY DEF Alloc
  <2> QED
    BY <2>1, AllocKeeps, BlockTable, BlocksOf DEF PInv, Used
<1>1. PICK k \in 0 .. pmem_current_block :
        /\ HasRoom(BlockAt(k))
        /\ pmem_current_block' = k
        /\ pmem_block_map' = [pmem_block_map EXCEPT ![k + 1].limit = @ - PAGE_SIZE]
        /\ allocated' = allocated \cup {pmem_block_map'[k + 1].limit \div PAGE_SIZE}
  BY DEF Alloc
<1>2. k \in Indices /\ k \in Nat /\ k <= pmem_current_block /\ k + 1 \in 1 .. pmem_blocks_count
  BY <1>0, <1>1
<1>3. pmem_blocks_count' = pmem_blocks_count /\ Indices' = Indices
  <2>1. DOMAIN pmem_block_map' = DOMAIN pmem_block_map
    BY <1>1
  <2>2. pmem_blocks_count' \in Nat /\ DOMAIN pmem_block_map' = 1 .. pmem_blocks_count'
    <3>1. pmem_block_map' \in Seq(Block(0 .. Space))
      BY <1>0 DEF PInv, TypeOK
    <3> QED
      BY <3>1, LenProperties DEF pmem_blocks_count
  <2>3. 1 .. pmem_blocks_count' = 1 .. pmem_blocks_count
    BY <1>0, <2>1, <2>2
  <2>4. pmem_blocks_count' = pmem_blocks_count
    <3>1. pmem_blocks_count >= 1
      BY <1>0, <1>2
    <3>2. pmem_blocks_count \in 1 .. pmem_blocks_count
      BY <1>0, <3>1
    <3>3. pmem_blocks_count' \in 1 .. pmem_blocks_count'
      BY <2>2, <2>3, <3>2
    <3> QED
      BY <1>0, <2>2, <2>3, <3>2, <3>3
  <2> QED
    BY <2>4 DEF Indices
<1>4. /\ pmem_block_map'[k + 1] = [pmem_block_map[k + 1] EXCEPT !.limit = @ - PAGE_SIZE]
      /\ \A j \in Indices : j # k => pmem_block_map'[j + 1] = pmem_block_map[j + 1]
  BY <1>0, <1>1, <1>2
<1>5. /\ BlockAt(k)'= pmem_block_map'[k + 1]
      /\ \A j \in Indices : BlockAt(j)' = pmem_block_map'[j + 1]
      /\ BlockAt(pmem_current_block)' = pmem_block_map'[k + 1]
  BY <1>1 DEF BlockAt
<1> DEFINE b == BlockAt(k)
           e == End(b)
<1>6. /\ Whole(b) /\ e \in Nat /\ First(b) \in Nat \ {0} /\ First(b) < e
      /\ b.limit = e * PAGE_SIZE
  <2>1. Whole(b)
    BY <1>0, <1>2, BlocksOf
  <2> QED
    BY <1>1, <2>1, WholeOrder DEF Whole
<1>7. BlockAt(k)'.base = b.base /\ BlockAt(k)'.limit = b.limit - PAGE_SIZE
  <2>1. b \in Block(0 .. Space)
    BY <1>6 DEF Whole
  <2> QED
    BY <1>4, <1>5, <2>1 DEF Block, BlockAt
<1>8. First(BlockAt(k))' = First(b) /\ End(BlockAt(k))' = e - 1
  <2>1. (e - 1) * PAGE_SIZE = e * PAGE_SIZE - PAGE_SIZE /\ e - 1 \in Nat
    <3>1. e \in Int /\ e - 1 \in Nat
      BY <1>6
    <3> HIDE DEF e
    <3> QED
      BY <3>1, TimesPage
  <2>2. ((e - 1) * PAGE_SIZE) \div PAGE_SIZE = e - 1
    BY <2>1, WholeAddress, Zenon
  <2>3. BlockAt(k)'.limit = (e - 1) * PAGE_SIZE
    BY <1>6, <1>7, <2>1
  <2>4. End(BlockAt(k))' = (BlockAt(k)'.limit) \div PAGE_SIZE /\ First(BlockAt(k))' = (BlockAt(k)'.base) \div PAGE_SIZE
    BY DEF End, First
  <2> QED
    BY <1>7, <2>2, <2>3, <2>4, Zenon DEF First
<1>9. \A j \in Indices : j # k => First(BlockAt(j))' = First(BlockAt(j)) /\ End(BlockAt(j))' = End(BlockAt(j))
  BY <1>4, <1>5 DEF First, End, BlockAt
<1>10. \A j \in Indices : End(BlockAt(j)) \in Nat
  BY <1>0, BlocksOf
<1>11. allocated' = allocated \cup {e - 1} /\ e - 1 = BlockAt(pmem_current_block)'.limit \div PAGE_SIZE
  <2>1. End(BlockAt(k))' = pmem_block_map'[k + 1].limit \div PAGE_SIZE
    BY <1>5 DEF End
  <2> QED
    BY <1>1, <1>5, <1>8, <2>1
<1>12. e - 1 \in ram \ allocated /\ e - 1 \in Page \ {0}
  <2>1. Pages(b) = First(b) .. (e - 1)
    BY <1>0, <1>2, BlocksOf
  <2>2. e - 1 \in Pages(b)
    <3> HIDE DEF b, e
    <3> QED
      BY <1>6, <2>1
  <2>3. Pages(b) \subseteq Free /\ Free = ram \ allocated
    BY <1>0, <1>2, BlocksOf DEF PInv, Accounted
  <2>4. ram \subseteq Page \ {0}
    BY DEF PInv, TypeOK
  <2> QED
    BY <2>2, <2>3, <2>4
<1>13. ASSUME pmem_current_block' = pmem_blocks_count - 1
       PROVE  /\ pmem_current_block = pmem_blocks_count - 1
              /\ e - 1 = End(BlockAt(pmem_blocks_count - 1))'
              /\ e - 1 = End(BlockAt(pmem_blocks_count - 1)) - 1
  <2>1. k = pmem_blocks_count - 1 /\ pmem_current_block = pmem_blocks_count - 1
    BY <1>0, <1>1, <1>2, <1>13
  <2>2. BlockAt(pmem_blocks_count - 1)' = BlockAt(k)'
    BY <1>3, <2>1 DEF BlockAt
  <2> QED
    BY <1>8, <2>1, <2>2 DEF End
<1>14. \A j \in Indices : First(BlockAt(j))' = First(BlockAt(j)) /\ End(BlockAt(j))' <= End(BlockAt(j))
  <2> SUFFICES ASSUME NEW j \in Indices
               PROVE  First(BlockAt(j))' = First(BlockAt(j)) /\ End(BlockAt(j))' <= End(BlockAt(j))
    OBVIOUS
  <2>1. CASE j = k
    BY <1>6, <1>8, <2>1
  <2>2. CASE j # k
    BY <1>9, <1>10, <2>2
  <2> QED
    BY <2>1, <2>2
<1>15. \A j \in Indices : Pages(BlockAt(j))' \subseteq Pages(BlockAt(j))
  <2> SUFFICES ASSUME NEW j \in Indices PROVE Pages(BlockAt(j))' \subseteq Pages(BlockAt(j))
    OBVIOUS
  <2>1. CASE j # k
    BY <1>4, <1>5, <2>1 DEF Pages, BlockAt
  <2>2. CASE j = k
    <3>1. /\ BlockAt(j)'.base = BlockAt(j).base /\ BlockAt(j)'.limit <= BlockAt(j).limit
          /\ BlockAt(j).limit \in Int /\ BlockAt(j)'.limit \in Int
      <4>1. b.limit \in Nat /\ PAGE_SIZE \in Nat
        BY <1>6, WholeOrder, PmemAssumption DEF PmemAssumption
      <4> QED
        BY <1>7, <2>2, <4>1
    <3>2. \A q \in Page : (q + 1) * PAGE_SIZE \in Int
      <4> SUFFICES ASSUME NEW q \in Page PROVE (q + 1) * PAGE_SIZE \in Int
        OBVIOUS
      <4>1. q + 1 \in Int
        BY Window
      <4> QED
        BY <4>1, TimesPage
    <3> QED
      BY <3>1, <3>2 DEF Pages, PagesWithin
  <2> QED
    BY <2>1, <2>2
<1> HIDE DEF b, e
<1> QED
  BY <1>0, <1>3, <1>11, <1>12, <1>13, <1>14, <1>15

-----------------------------------------------------------------------------
(* The tables, in every state: they have that shape, in pages of the         *)
(* kernel's image or taken from pmem, the kernel is mapped, and in           *)
(* paging_map_page the table at TEMP_MAP_ADDR is the one of the level, of an *)
(* address that is not mapped yet.                                           *)
TablePages == KernelImage \cup allocated

KernelThere == \A v \in VPage : InKernel(v) => FrameOf(mem, v) = v - KERNEL_VMA

MayMap(v) == v \in VPage /\ ~InKernel(v) /\ FrameOf(mem, v) = Absent

Walk == level > 0 => MayMap(virt) /\ Table = Node(mem, level, virt) /\ Table # Absent

TablesInv ==
  /\ PInv /\ pc = "alloc"
  /\ mem \in Tables
  /\ phase \in {"kernel", "lfb", "ram", "done"} /\ level \in 0 .. 4
  /\ phase = "kernel" => allocated = {}
  /\ phase \in {"kernel", "done"} => level = 0
  /\ phase # "kernel" => TreeIn(mem, TablePages) /\ KernelThere /\ Walk

(* No address changes its meaning. *)
SameMeaning == \A v \in VPage : FrameOf(mem', v) = FrameOf(mem, v)

(* The entry that a level looks at. *)
LEMMA CurrentNode ==
  ASSUME level \in 1 .. 4, Table = Node(mem, level, virt), Table # Absent
  PROVE  Current = Node(mem, level - 1, virt)
  BY NodeStep DEF Current, Lookup

(* Creating a table keeps it all. *)
LEMMA CreateEffect ==
  ASSUME TablesInv, ImageKept', CreateTable
  PROVE  /\ TablesInv' /\ phase # "kernel" /\ SameMeaning /\ Current' # Absent
         /\ StillThere(mem, mem')
         /\ \E q : allocated' = allocated \cup {q} /\ Node(mem', level - 1, virt) = q
<1>0. /\ PInv /\ level \in 2 .. 4 /\ Current = Absent /\ Alloc
      /\ UNCHANGED <<phase, level, virt, phys, block, linear_limit, fb>>
      /\ phase \in {"lfb", "ram"} /\ TreeIn(mem, TablePages) /\ KernelThere /\ Walk
  BY DEF TablesInv, CreateTable
<1>1. PICK q \in ram \ allocated :
        /\ q \in Page \ {0} /\ allocated' = allocated \cup {q}
        /\ q = BlockAt(pmem_current_block)'.limit \div PAGE_SIZE
  BY <1>0, AllocShrinks
<1>2. PInv' /\ pc' = "alloc"
  BY <1>0, AllocShrinks
<1>3. mem' = Remap(Cleared([mem EXCEPT ![Table][Index(level, virt)] = q], q))
  BY <1>1, Zenon DEF CreateTable
<1>4. /\ MayMap(virt) /\ Table = Node(mem, level, virt) /\ Table # Absent
      /\ virt \in VAll
  BY <1>0 DEF Walk, MayMap, VPage, VAll
<1>5. Node(mem, level - 1, virt) = Absent
  <2>1. level \in 1 .. 4
    BY <1>0
  <2> QED
    BY <1>0, <1>4, <2>1, CurrentNode
<1>6. q \notin TablePages /\ TablePages' = TablePages \cup {q}
  BY <1>1 DEF TablePages, ImageKept
<1>7. NewTable(mem, TablePages, level, virt, q)
  BY <1>0, <1>1, <1>4, <1>5, <1>6 DEF NewTable
<1>8. /\ Grown(mem, mem', TablePages, level, virt, q)
      /\ Table' = Node(mem', level, virt)
  BY <1>0, <1>3, <1>4, <1>7, TableCreated
<1>9. TreeIn(mem', TablePages') /\ SameMeaning /\ mem' \in Tables
  BY <1>6, <1>8 DEF Grown, SameMeaning, TreeIn
<1>10. KernelThere'
  BY <1>0, <1>9 DEF KernelThere, SameMeaning
<1>11. Table' # Absent /\ Table' = Node(mem', level', virt')
  BY <1>0, <1>4, <1>8 DEF Grown
<1>12. Walk'
  BY <1>0, <1>4, <1>9, <1>11 DEF Walk, MayMap, SameMeaning
<1>13. Current' # Absent
  <2>1. Current' = mem'[Table'][Index(level, virt)]
    BY <1>0 DEF Current
  <2>2. Node(mem', level - 1, virt) = Lookup(mem', Table', level, virt)
    <3>1. level \in 1 .. 4
      BY <1>0
    <3> QED
      BY <1>8, <3>1, NodeStep
  <2>3. Node(mem', level - 1, virt) = q
    BY <1>8 DEF Grown
  <2> QED
    BY <1>1, <1>11, <2>1, <2>2, <2>3, Window DEF Lookup
<1>14. TablesInv'
  BY <1>0, <1>2, <1>9, <1>10, <1>12 DEF TablesInv
<1>15. StillThere(mem, mem') /\ Node(mem', level - 1, virt) = q
  BY <1>8 DEF Grown
<1> QED
  BY <1>0, <1>1, <1>9, <1>13, <1>14, <1>15

(* So does going down to the next level. *)
LEMMA DescendEffect ==
  ASSUME TablesInv, Descend
  PROVE  TablesInv' /\ phase # "kernel" /\ SameMeaning /\ StillThere(mem, mem')
<1>0. /\ PInv /\ pc = "alloc" /\ level \in 2 .. 4 /\ Current # Absent
      /\ mem' = paging_temp_map(mem, Current) /\ level' = level - 1
      /\ UNCHANGED <<vars, phase, virt, phys, block, linear_limit, fb>>
      /\ phase \in {"lfb", "ram"} /\ TreeIn(mem, TablePages) /\ KernelThere /\ Walk
  BY DEF TablesInv, Descend
<1>1. PInv' /\ pc' = "alloc" /\ UNCHANGED allocated /\ TablePages' = TablePages
  <2>1. UNCHANGED vars
    BY <1>0
  <2> QED
    BY <1>0, <2>1, UnderflowKeeps DEF vars, TablePages
<1>2. MayMap(virt) /\ Table = Node(mem, level, virt) /\ Table # Absent /\ virt \in VAll
  BY <1>0 DEF Walk, MayMap, VPage, VAll
<1>3. level \in 1 .. 4 /\ level - 1 \in 1 .. 4 /\ level - 1 # 4
  BY <1>0
<1>4. Current = Node(mem, level - 1, virt)
  BY <1>2, <1>3, CurrentNode
<1>5. Current \in Frame \cup {Absent}
  <2>1. Current \in TablePages \cup {Absent} /\ TablePages \subseteq Page
    BY <1>0, <1>2, <1>3, <1>4 DEF TreeIn, OwnedBy
  <2> QED
    BY <2>1, Window
<1>6. /\ TreeIn(mem', TablePages) /\ mem'[kernel_pd0_pt(0)][0] = Current
      /\ \A l \in 1 .. 4, v \in VAll : Node(mem', l, v) = Node(mem, l, v)
      /\ SameMeaning
  <2> DEFINE c == Current
             m2 == paging_temp_map(mem, c)
  <2>1. mem' = m2 /\ c \in Frame \cup {Absent} /\ TreeIn(mem, TablePages)
    BY <1>0, <1>5
  <2> HIDE DEF c
  <2>2. /\ TreeIn(m2, TablePages) /\ m2[kernel_pd0_pt(0)][0] = c
        /\ \A l \in 1 .. 4, v \in VAll : Node(m2, l, v) = Node(mem, l, v)
        /\ \A v \in VPage : FrameOf(m2, v) = FrameOf(mem, v)
    BY <2>1, TempMapped, Zenon
  <2> HIDE DEF m2
  <2> QED
    BY <2>1, <2>2, Zenon DEF SameMeaning, c
<1>7. Table' = Current
  BY <1>0, <1>3, <1>6 DEF Table, Temp
<1>8. Node(mem', level', virt') = Current
  BY <1>0, <1>2, <1>3, <1>4, <1>6
<1>9. Walk'
  <2>1. MayMap(virt)'
    BY <1>0, <1>2, <1>6 DEF MayMap, SameMeaning
  <2> QED
    BY <1>0, <1>7, <1>8, <2>1 DEF Walk
<1>10. KernelThere'
  BY <1>0, <1>6 DEF KernelThere, SameMeaning
<1>11. StillThere(mem, mem')
  BY <1>6 DEF StillThere
<1> QED
  BY <1>0, <1>1, <1>3, <1>6, <1>9, <1>10, <1>11 DEF TablesInv, TreeIn

(* Storing the page's own entry gives its address its frame, and changes no  *)
(* other.                                                                    *)
LEMMA StoreEffect ==
  ASSUME TablesInv, StorePage, phys \in Frame
  PROVE  /\ TablesInv' /\ MayMap(virt) /\ StillThere(mem, mem')
         /\ FrameOf(mem', virt) = phys
         /\ \A v \in VPage \ {virt} : FrameOf(mem', v) = FrameOf(mem, v)
<1>0. /\ PInv /\ pc = "alloc" /\ level = 1 /\ level' = 0
      /\ mem' = [mem EXCEPT ![Temp][Index(1, virt)] = phys]
      /\ UNCHANGED <<vars, phase, block, fb>>
      /\ phase \in {"lfb", "ram"} /\ TreeIn(mem, TablePages) /\ KernelThere /\ Walk
  BY DEF TablesInv, StorePage
<1>1. PInv' /\ pc' = "alloc" /\ UNCHANGED allocated /\ TablePages' = TablePages
  <2>1. UNCHANGED vars
    BY <1>0
  <2> QED
    BY <1>0, <2>1, UnderflowKeeps DEF vars, TablePages
<1>2. /\ MayMap(virt) /\ Temp = Node(mem, 1, virt) /\ Node(mem, 1, virt) # Absent
      /\ virt \in VPage
  BY <1>0 DEF Walk, MayMap, Table
<1>3. mem' = [mem EXCEPT ![Node(mem, 1, virt)][Index(1, virt)] = phys]
  BY <1>0, <1>2
<1>4. /\ TreeIn(mem', TablePages)
      /\ FrameOf(mem', virt) = phys
      /\ \A v \in VPage \ {virt} : FrameOf(mem', v) = FrameOf(mem, v)
      /\ \A l \in 1 .. 4, v \in VAll : Node(mem', l, v) = Node(mem, l, v)
  <2>1. TreeIn(mem, TablePages) /\ virt \in VPage /\ Node(mem, 1, virt) # Absent /\ phys \in Frame
    BY <1>0, <1>2
  <2>2. /\ TreeIn([mem EXCEPT ![Node(mem, 1, virt)][Index(1, virt)] = phys], TablePages)
        /\ FrameOf([mem EXCEPT ![Node(mem, 1, virt)][Index(1, virt)] = phys], virt) = phys
        /\ \A v \in VPage \ {virt} :
             FrameOf([mem EXCEPT ![Node(mem, 1, virt)][Index(1, virt)] = phys], v) = FrameOf(mem, v)
        /\ \A l \in 1 .. 4, v \in VAll :
             Node([mem EXCEPT ![Node(mem, 1, virt)][Index(1, virt)] = phys], l, v) = Node(mem, l, v)
    BY <2>1, Stored, ZenonT(40)
  <2> QED
    BY <1>3, <2>2, ZenonT(40)
<1>5. KernelThere'
  <2> SUFFICES ASSUME NEW v \in VPage, InKernel(v) PROVE FrameOf(mem', v) = v - KERNEL_VMA
    BY DEF KernelThere
  <2>1. v # virt
    BY <1>2 DEF MayMap
  <2> QED
    BY <1>0, <1>4, <2>1 DEF KernelThere
<1>6. Walk'
  BY <1>0 DEF Walk
<1>7. mem' \in Tables
  BY <1>4 DEF TreeIn
<1>8. TablesInv'
  <2>1. TreeIn(mem', TablePages') /\ phase' \in {"lfb", "ram"} /\ level' \in 0 .. 4
    BY <1>0, <1>1, <1>4
  <2> QED
    BY <1>1, <1>5, <1>6, <1>7, <2>1 DEF TablesInv
<1>9. StillThere(mem, mem')
  BY <1>4 DEF StillThere
<1> QED
  BY <1>2, <1>4, <1>8, <1>9

(* The kernel's own tables come into force. *)
LEMMA RemapEffect ==
  ASSUME TablesInv, RemapKernel
  PROVE  /\ TablesInv'
         /\ \A v \in VPage : FrameOf(mem', v) = IF InKernel(v) THEN v - KERNEL_VMA ELSE Absent
<1>0. /\ PInv /\ pc = "alloc" /\ mem \in Tables /\ level = 0 /\ level' = 0 /\ allocated = {}
      /\ mem' = KernelMem(mem) /\ phase' = "lfb" /\ UNCHANGED vars
  BY DEF TablesInv, RemapKernel, KernelMem
<1>1. PInv' /\ pc' = "alloc" /\ allocated' = {} /\ TablePages' = KernelImage
  BY <1>0, UnderflowKeeps DEF vars, TablePages
<1>2. TreeIn(mem', TablePages')
  BY <1>0, <1>1, KernelShape
<1>3. ASSUME NEW v \in VPage PROVE FrameOf(mem', v) = IF InKernel(v) THEN v - KERNEL_VMA ELSE Absent
  <2>1. v \in VAll
    BY DEF VPage, VAll
  <2> QED
    BY <1>0, <2>1, KernelWalk
<1>4. KernelThere'
  BY <1>3 DEF KernelThere
<1> QED
  BY <1>0, <1>1, <1>2, <1>3, <1>4 DEF TablesInv, TreeIn, Walk

(* The loops change no table; they may start on an address that is not       *)
(* mapped.                                                                   *)
LEMMA LoopEffect ==
  ASSUME TablesInv, UNCHANGED <<vars, mem>>, phase # "kernel",
         phase' \in {"lfb", "ram", "done"}, level' = 0 \/ (level' = 4 /\ MayMap(virt')),
         phase' = "done" => level' = 0
  PROVE  TablesInv' /\ SameMeaning
<1>1. PInv' /\ pc' = "alloc" /\ TablePages' = TablePages
  BY UnderflowKeeps DEF vars, TablePages, TablesInv
<1>2. Walk'
  <2>1. CASE level' = 0
    BY <2>1 DEF Walk
  <2>2. CASE level' = 4 /\ MayMap(virt')
    <3>1. Table' = kernel_pml4 /\ Node(mem', level', virt') = kernel_pml4 /\ kernel_pml4 # Absent
      BY <2>2, Window DEF Table, Node
    <3>2. MayMap(virt)'
      BY <2>2 DEF MayMap
    <3> QED
      BY <3>1, <3>2 DEF Walk
  <2> QED
    BY <2>1, <2>2
<1>3. KernelThere'
  BY DEF KernelThere, TablesInv
<1> QED
  BY <1>1, <1>2, <1>3 DEF TablesInv, SameMeaning

-----------------------------------------------------------------------------
(* The loops, in every state.  The pages of the frame buffer that are        *)
(* mapped,                                                                   *)
FbMapped(k) ==
  /\ k \in Nat /\ fb <= OneG /\ k < fb
  /\ phase = "lfb" => LFB_VMA + k < virt

FbRight == \A k \in Nat : FbMapped(k) => FrameOf(mem, LFB_VMA + k) = FB_FRAME + k

(* which with the kernel and the linear space are all that is mapped,        *)
OnlyThese ==
  \A v \in VPage :
    FrameOf(mem, v) # Absent =>
      InKernel(v) \/ v < linear_limit \/ (LFB_VMA <= v /\ FbMapped(v - LFB_VMA))

(* the linear space, whose frames ascend and stay below the next one,        *)
Linear == 0 .. (linear_limit - 1)
LinearEnd == (N - 1) * Reach[4]

LinearOK ==
  /\ linear_limit \in Nat /\ linear_limit <= phys /\ linear_limit <= LinearEnd
  /\ \A v \in Linear :
       FrameOf(mem, v) \in ram /\ FrameOf(mem, v) + (linear_limit - v) <= phys
  /\ \A v, w \in Linear : v < w => FrameOf(mem, v) + (w - v) <= FrameOf(mem, w)

(* the loop over the frame buffer,                                           *)
InLfb ==
  /\ linear_limit = 0 /\ block = 0
  /\ LFB_VMA <= virt /\ phys = FB_FRAME + (virt - LFB_VMA)
  /\ fb <= OneG => virt <= LFB_VMA + fb
  /\ level > 0 => fb <= OneG /\ virt < LFB_VMA + fb

(* the loop over a block's pages, up to the next block,                      *)
InRam ==
  /\ block \in Indices /\ First(BlockAt(block)) <= phys
  /\ block + 1 \in Indices =>
       /\ phys <= First(BlockAt(block + 1))
       /\ level > 0 => phys < First(BlockAt(block + 1))
  /\ level > 0 => virt = linear_limit /\ phys \in ram

(* and what of the blocks' pages has been mapped.                            *)
Complete ==
  \A k \in Indices : \A q \in Pages(BlockAt(k)) :
    k < block \/ (k = block /\ q < phys) => \E v \in Linear : FrameOf(mem, v) = q

LoopsInv ==
  /\ virt \in Nat /\ phys \in Nat /\ block \in Nat /\ fb \in FbPages
  /\ LinearOK
  /\ phase = "kernel" => linear_limit = 0 /\ block = 0
  /\ phase # "kernel" => OnlyThese /\ FbRight
  /\ phase = "lfb" => InLfb
  /\ phase = "ram" => InRam
  /\ phase \in {"ram", "done"} => Complete
  /\ phase = "done" => block = pmem_blocks_count

(* The addresses of the loops. *)
LEMMA LowPages ==
  /\ LFB_VMA \in Nat /\ KERNEL_VMA \in Nat /\ LinearEnd \in Nat /\ OneG \in Nat /\ FB_FRAME \in Nat
  /\ LinearEnd <= LFB_VMA /\ LFB_VMA <= KERNEL_VMA /\ 0 < LinearEnd
  /\ \A v \in Nat : v < KERNEL_VMA => v \in VPage /\ ~InKernel(v)
  /\ VPage \subseteq Nat
  /\ \A q \in Page : q \in Nat /\ q + 1 <= LinearEnd
  /\ \A n \in FbPages : n \in Nat /\ (n <= OneG => LFB_VMA + n <= KERNEL_VMA)
  /\ \A n \in Nat : n <= OneG => FB_FRAME + n \in Frame
<1>1. /\ LFB_VMA \in Nat /\ LFB_VMA + (OneG - N) = KERNEL_VMA /\ LinearEnd <= LFB_VMA
      /\ LinearEnd \in Nat /\ OneG - N \in Nat /\ KERNEL_VMA \in VAll
      /\ \A v \in VAll : v < KERNEL_VMA => ~InKernel(v)
      /\ \A v \in Nat : v < KERNEL_VMA => v \in VAll
  BY Parts DEF LinearEnd
<1>2. OneG \in Nat /\ N \in Nat /\ N >= 3 /\ Reach[4] \in Nat /\ Reach[4] >= 1 /\ FB_FRAME \in Nat
  BY Sizes3, PagingAssumption DEF PagingAssumption
<1>3. KERNEL_VMA \in Nat /\ VAll \subseteq Nat
  BY <1>1 DEF VAll
<1>4. 0 < LinearEnd
  <2>1. (N - 1) * Reach[4] = (N - 2) * Reach[4] + Reach[4] /\ (N - 2) * Reach[4] >= 0
    BY <1>2
  <2> QED
    BY <1>2, <2>1 DEF LinearEnd
<1>5. VPage = VAll \ {KERNEL_VMA}
  BY DEF VPage, VAll, TEMP_MAP_ADDR
<1>6. \A v \in Nat : v < KERNEL_VMA => v \in VPage /\ ~InKernel(v)
  BY <1>1, <1>3, <1>5
<1>7. \A q \in Page : q \in Nat /\ q + 1 <= LinearEnd
  <2> DEFINE top == Space \div PAGE_SIZE
  <2>1. top <= LinearEnd /\ top \in Nat /\ Page = 0 .. (top - 1)
    BY PagingAssumption, PmemAssumption DEF PagingAssumption, PmemAssumption, Page, LinearEnd
  <2> HIDE DEF top
  <2> QED
    BY <1>1, <2>1
<1>8. \A n \in FbPages : n \in Nat /\ (n <= OneG => LFB_VMA + n <= KERNEL_VMA)
  <2> SUFFICES ASSUME NEW n \in FbPages PROVE n \in Nat /\ (n <= OneG => LFB_VMA + n <= KERNEL_VMA)
    OBVIOUS
  <2>1. n \in Nat /\ (n <= OneG - N \/ n > OneG)
    BY PagingAssumption DEF PagingAssumption
  <2> QED
    BY <1>1, <1>2, <1>3, <2>1
<1>9. \A n \in Nat : n <= OneG => FB_FRAME + n \in Frame
  BY <1>2 DEF Frame
<1>10. LFB_VMA <= KERNEL_VMA
  BY <1>1, <1>2, <1>3
<1> QED
  BY <1>1, <1>2, <1>3, <1>4, <1>5, <1>6, <1>7, <1>8, <1>9, <1>10

(* The linear space and the frame buffer are away from the kernel. *)
LEMMA PartsMapped ==
  ASSUME LoopsInv
  PROVE  /\ \A v \in Linear : v \in VPage /\ ~InKernel(v) /\ v \in Nat
         /\ \A k \in Nat : FbMapped(k) => LFB_VMA + k \in VPage /\ ~InKernel(LFB_VMA + k)
<1>0. linear_limit \in Nat /\ linear_limit <= LinearEnd /\ fb \in FbPages
  BY DEF LoopsInv, LinearOK
<1>1. \A v \in Linear : v \in Nat /\ v < KERNEL_VMA
  BY <1>0, LowPages DEF Linear
<1>2. \A k \in Nat : FbMapped(k) => LFB_VMA + k \in Nat /\ LFB_VMA + k < KERNEL_VMA
  BY <1>0, LowPages DEF FbMapped
<1> QED
  BY <1>1, <1>2, LowPages

(* In paging_map_page, nothing of this changes until the entry is stored. *)
LEMMA StillLoops ==
  ASSUME TablesInv, LoopsInv, SameMeaning, phase \in {"lfb", "ram"}, level > 0, level' > 0,
         UNCHANGED <<phase, virt, phys, block, linear_limit, fb, ram>>,
         Indices' = Indices,
         \A k \in Indices : First(BlockAt(k))' = First(BlockAt(k))
                            /\ Pages(BlockAt(k))' \subseteq Pages(BlockAt(k))
  PROVE  LoopsInv'
<1>0. \A k : FbMapped(k)' <=> FbMapped(k)
  BY DEF FbMapped
<1>1. LinearOK'
  <2>1. \A v \in Linear : FrameOf(mem', v) = FrameOf(mem, v)
    BY PartsMapped DEF SameMeaning
  <2>2. Linear' = Linear
    BY DEF Linear
  <2> QED
    BY <2>1, <2>2 DEF LoopsInv, LinearOK
<1>2. OnlyThese'
  BY <1>0 DEF LoopsInv, OnlyThese, SameMeaning
<1>3. FbRight'
  BY <1>0, PartsMapped DEF LoopsInv, FbRight, SameMeaning
<1>4. phase = "lfb" => InLfb'
  BY DEF LoopsInv, InLfb
<1>5. phase = "ram" => InRam'
  <2> SUFFICES ASSUME phase = "ram" PROVE InRam'
    OBVIOUS
  <2>1. InRam
    BY DEF LoopsInv
  <2>2. First(BlockAt(block))' = First(BlockAt(block))
    BY <2>1 DEF InRam
  <2>3. block + 1 \in Indices => First(BlockAt(block + 1))' = First(BlockAt(block + 1))
    BY <2>1 DEF InRam
  <2> QED
    BY <2>1, <2>2, <2>3 DEF InRam
<1>6. phase = "ram" => Complete'
  <2> SUFFICES ASSUME phase = "ram", NEW k \in Indices, NEW q \in Pages(BlockAt(k))',
                      k < block \/ (k = block /\ q < phys)
               PROVE  \E v \in Linear : FrameOf(mem', v) = q
    BY DEF Complete, Linear
  <2>1. q \in Pages(BlockAt(k))
    OBVIOUS
  <2>2. PICK v \in Linear : FrameOf(mem, v) = q
    BY <2>1 DEF LoopsInv, Complete
  <2>3. FrameOf(mem', v) = q
    BY <2>2, PartsMapped DEF SameMeaning
  <2> QED
    BY <2>3
<1>7. phase' \in {"lfb", "ram"} /\ phase' # "kernel" /\ phase' # "done" /\ phase' = phase
  OBVIOUS
<1>8. virt' \in Nat /\ phys' \in Nat /\ block' \in Nat /\ fb' \in FbPages
  BY DEF LoopsInv
<1> QED
  BY <1>1, <1>2, <1>3, <1>4, <1>5, <1>6, <1>7, <1>8 DEF LoopsInv

(* Both together are what every step keeps. *)
VInv == TablesInv /\ LoopsInv

(* Inside paging_map_page: a new table, or the next level. *)
LEMMA CreateKeeps ==
  ASSUME VInv, ImageKept', CreateTable
  PROVE  VInv' /\ SameMeaning
<1>1. TablesInv' /\ phase # "kernel" /\ SameMeaning
  BY CreateEffect DEF VInv
<1>2. /\ level > 1 /\ Alloc /\ UNCHANGED <<phase, level, virt, phys, block, linear_limit, fb>>
      /\ phase \in {"lfb", "ram"} /\ level \in Int
  BY <1>1 DEF VInv, TablesInv, CreateTable
<1>3. /\ UNCHANGED ram /\ Indices' = Indices
      /\ \A k \in Indices : First(BlockAt(k))' = First(BlockAt(k))
                            /\ Pages(BlockAt(k))' \subseteq Pages(BlockAt(k))
  BY <1>2, AllocShrinks DEF VInv, TablesInv
<1>4. level > 0 /\ level' > 0
  BY <1>2
<1>5. LoopsInv'
  BY <1>1, <1>2, <1>3, <1>4, StillLoops DEF VInv
<1> QED
  BY <1>1, <1>5 DEF VInv

(* Inside paging_map_page: the next level.                                   *)
LEMMA DescendKeeps ==
  ASSUME VInv, Descend
  PROVE  VInv' /\ SameMeaning
<1>1. TablesInv' /\ phase # "kernel" /\ SameMeaning
  BY DescendEffect DEF VInv
<1>2. /\ level > 1 /\ level' = level - 1 /\ UNCHANGED <<vars, phase, virt, phys, block, linear_limit, fb>>
      /\ phase \in {"lfb", "ram"} /\ level \in Int
  BY <1>1 DEF VInv, TablesInv, Descend
<1>3. /\ UNCHANGED ram /\ Indices' = Indices
      /\ \A k \in Indices : First(BlockAt(k))' = First(BlockAt(k))
                            /\ Pages(BlockAt(k))' \subseteq Pages(BlockAt(k))
  BY <1>2 DEF vars, Indices, pmem_blocks_count, BlockAt, First, Pages, PagesWithin
<1>4. level > 0 /\ level' > 0
  BY <1>2
<1>5. LoopsInv'
  BY <1>1, <1>2, <1>3, <1>4, StillLoops DEF VInv
<1> QED
  BY <1>1, <1>5 DEF VInv

(* The boot mapping makes way for the kernel's own. *)
LEMMA RemapKeeps ==
  ASSUME VInv, RemapKernel
  PROVE  /\ VInv'
         /\ \A v \in VPage : FrameOf(mem', v) = IF InKernel(v) THEN v - KERNEL_VMA ELSE Absent
<1>1. /\ TablesInv'
      /\ \A v \in VPage : FrameOf(mem', v) = IF InKernel(v) THEN v - KERNEL_VMA ELSE Absent
  BY RemapEffect DEF VInv
<1>2. /\ phase' = "lfb" /\ virt' = LFB_VMA /\ phys' = FB_FRAME /\ level = 0 /\ level' = 0
      /\ UNCHANGED <<block, linear_limit, fb, ram>> /\ linear_limit = 0 /\ block = 0 /\ fb \in FbPages
  BY DEF VInv, LoopsInv, TablesInv, RemapKernel, vars
<1>3. LinearOK'
  BY <1>2, LowPages DEF LinearOK, Linear
<1>4. OnlyThese'
  BY <1>1 DEF OnlyThese
<1>5. FbRight'
  <2>1. ASSUME NEW k \in Nat PROVE ~FbMapped(k)'
    BY <1>2, LowPages DEF FbMapped
  <2> QED
    BY <2>1 DEF FbRight
<1>6. InLfb'
  BY <1>2, LowPages DEF InLfb
<1>7. LoopsInv'
  BY <1>2, <1>3, <1>4, <1>5, <1>6, LowPages DEF LoopsInv
<1> QED
  BY <1>1, <1>7 DEF VInv

(* What the loops leave alone. *)
LEMMA LoopsAlone ==
  ASSUME VInv, UNCHANGED <<vars, mem, linear_limit, fb>>, phase # "kernel", phase' # "kernel",
         phys' \in Nat, phys <= phys' \/ linear_limit = 0,
         \A k : FbMapped(k)' <=> FbMapped(k)
  PROVE  LinearOK' /\ OnlyThese' /\ FbRight'
<1>1. LinearOK'
  <2>1. phys \in Nat /\ LinearOK
    BY DEF VInv, LoopsInv
  <2>2. linear_limit' <= phys'
    BY <2>1 DEF LinearOK
  <2>3. ASSUME NEW v \in Linear PROVE FrameOf(mem, v) + (linear_limit - v) <= phys'
    <3>1. FrameOf(mem, v) + (linear_limit - v) <= phys /\ FrameOf(mem, v) \in ram /\ v \in Int
          /\ linear_limit \in Nat /\ linear_limit # 0
      BY <2>1 DEF LinearOK, Linear
    <3>2. FrameOf(mem, v) \in Int
      BY <3>1, Window DEF VInv, TablesInv, PInv, TypeOK
    <3> QED
      BY <2>1, <3>1, <3>2
  <2> QED
    BY <2>1, <2>2, <2>3 DEF LinearOK, Linear, vars
<1>2. OnlyThese' /\ FbRight'
  BY DEF VInv, LoopsInv, OnlyThese, FbRight
<1> QED
  BY <1>1, <1>2

(* The loop over the frame buffer. *)
LEMMA LfbPageKeeps ==
  ASSUME VInv, LfbPage
  PROVE  VInv' /\ SameMeaning
<1>1. /\ phase = "lfb" /\ fb <= OneG /\ phys < FB_FRAME + fb /\ level = 0 /\ level' = 4
      /\ UNCHANGED <<vars, mem, phase, virt, phys, block, linear_limit, fb>>
  BY DEF LfbPage, InFrameBuffer
<1>2. /\ InLfb /\ OnlyThese /\ fb \in FbPages /\ virt \in Nat /\ phys \in Nat
  BY <1>1 DEF VInv, LoopsInv
<1>3. virt < LFB_VMA + fb /\ fb \in Nat /\ LFB_VMA \in Nat
  BY <1>1, <1>2, LowPages DEF InLfb
<1>4. MayMap(virt)
  <2>1. virt < KERNEL_VMA
    BY <1>1, <1>2, <1>3, LowPages
  <2>2. virt \in VPage /\ ~InKernel(virt)
    BY <1>2, <2>1, LowPages
  <2>3. ~(virt < linear_limit) /\ ~FbMapped(virt - LFB_VMA)
    BY <1>1, <1>2, <1>3 DEF InLfb, FbMapped
  <2> QED
    BY <1>2, <2>2, <2>3 DEF MayMap, OnlyThese
<1>5. TablesInv' /\ SameMeaning
  <2>1. /\ TablesInv /\ UNCHANGED <<vars, mem>> /\ phase # "kernel"
        /\ phase' \in {"lfb", "ram", "done"} /\ (phase' = "done" => level' = 0)
        /\ level' = 0 \/ (level' = 4 /\ MayMap(virt'))
    BY <1>1, <1>4 DEF VInv
  <2> QED
    BY <2>1, LoopEffect, Zenon
<1>6. InLfb'
  BY <1>1, <1>2, <1>3 DEF InLfb
<1>7. \A k : FbMapped(k)' <=> FbMapped(k)
  BY <1>1 DEF FbMapped
<1>8. LinearOK' /\ OnlyThese' /\ FbRight'
  BY <1>1, <1>2, <1>7, LoopsAlone
<1>9. LoopsInv'
  <2>1. /\ phase' = "lfb" /\ virt' \in Nat /\ phys' \in Nat /\ block' \in Nat /\ fb' \in FbPages
    BY <1>1, <1>2 DEF VInv, LoopsInv
  <2> QED
    BY <1>6, <1>8, <2>1 DEF LoopsInv
<1> QED
  BY <1>5, <1>9 DEF VInv

(* The frame buffer is mapped; the loop over the blocks begins.              *)
LEMMA LfbDoneKeeps ==
  ASSUME VInv, LfbDone
  PROVE  VInv' /\ SameMeaning /\ phys' = First(BlockAt(0)) /\ 0 \in Indices
<1>1. /\ phase = "lfb" /\ ~(fb <= OneG /\ phys < FB_FRAME + fb) /\ level = 0 /\ level' = 0
      /\ phase' = "ram" /\ phys' = First(BlockAt(0))
      /\ UNCHANGED <<vars, mem, virt, block, linear_limit, fb>>
  BY DEF LfbDone, InFrameBuffer, First, VInv, TablesInv
<1>2. InLfb /\ fb \in FbPages /\ virt \in Nat /\ phys \in Nat /\ linear_limit = 0 /\ block = 0
  BY <1>1 DEF VInv, LoopsInv, InLfb
<1>3. PInv /\ pc = "alloc" /\ pmem_current_block \in Indices
  BY DEF VInv, TablesInv, PInv, Used
<1>4. /\ pmem_blocks_count \in Nat /\ Indices = 0 .. (pmem_blocks_count - 1)
      /\ \A k \in Indices : First(BlockAt(k)) \in Nat \ {0} /\ End(BlockAt(k)) \in Nat
                            /\ First(BlockAt(k)) <= End(BlockAt(k))
      /\ \A j, k \in Indices : j < k => End(BlockAt(j)) <= First(BlockAt(k))
  BY <1>3, BlocksOf
<1>5. 0 \in Indices /\ phys' \in Nat
  BY <1>1, <1>3, <1>4
<1>6. TablesInv' /\ SameMeaning
  <2>1. /\ TablesInv /\ UNCHANGED <<vars, mem>> /\ phase # "kernel"
        /\ phase' \in {"lfb", "ram", "done"} /\ (phase' = "done" => level' = 0)
        /\ level' = 0 \/ (level' = 4 /\ MayMap(virt'))
    BY <1>1 DEF VInv
  <2> QED
    BY <2>1, LoopEffect, Zenon
<1>7. \A k : FbMapped(k)' <=> FbMapped(k)
  <2> SUFFICES ASSUME NEW k, k \in Nat, fb <= OneG, k < fb PROVE LFB_VMA + k < virt
    BY <1>1 DEF FbMapped
  <2> QED
    BY <1>1, <1>2, LowPages DEF InLfb
<1>8. LinearOK' /\ OnlyThese' /\ FbRight'
  BY <1>1, <1>2, <1>5, <1>7, LoopsAlone
<1>9. Indices' = Indices /\ \A k \in Indices : BlockAt(k)' = BlockAt(k) /\ First(BlockAt(k))' = First(BlockAt(k))
                                              /\ Pages(BlockAt(k))' = Pages(BlockAt(k))
  BY <1>1 DEF vars, Indices, pmem_blocks_count, BlockAt, First, Pages, PagesWithin
<1>10. InRam'
  <2>1. 1 \in Indices => First(BlockAt(0)) <= First(BlockAt(1))
    <3> SUFFICES ASSUME 1 \in Indices PROVE First(BlockAt(0)) <= First(BlockAt(1))
      OBVIOUS
    <3>1. End(BlockAt(0)) <= First(BlockAt(1)) /\ First(BlockAt(0)) <= End(BlockAt(0))
      BY <1>4, <1>5
    <3> QED
      BY <1>4, <1>5, <3>1
  <2>2. block' = 0 /\ block' \in Indices' /\ First(BlockAt(0))' = phys' /\ level' = 0 /\ block' + 1 = 1
    BY <1>1, <1>2, <1>5, <1>9
  <2>3. 1 \in Indices => First(BlockAt(1))' = First(BlockAt(1))
    BY <1>9
  <2>4. BlockAt(block)' = BlockAt(0)' /\ BlockAt(block + 1)' = BlockAt(1)'
    BY <2>2 DEF BlockAt
  <2> QED
    BY <1>1, <1>5, <1>9, <2>1, <2>2, <2>3, <2>4 DEF InRam, First
<1>11. Complete'
  <2> SUFFICES ASSUME NEW k \in Indices, NEW q \in Pages(BlockAt(k))',
                      k < block' \/ (k = block' /\ q < phys')
               PROVE  FALSE
    BY <1>9 DEF Complete
  <2>1. k = 0 /\ q < First(BlockAt(0)) /\ q \in Pages(BlockAt(0))
    BY <1>1, <1>2, <1>4, <1>9
  <2>2. Pages(BlockAt(0)) = First(BlockAt(0)) .. (End(BlockAt(0)) - 1)
    BY <1>3, <1>5, BlocksOf
  <2> QED
    BY <1>4, <1>5, <2>1, <2>2
<1>12. LoopsInv'
  BY <1>1, <1>2, <1>5, <1>8, <1>10, <1>11 DEF LoopsInv
<1> QED
  BY <1>1, <1>5, <1>6, <1>12 DEF VInv

(* The loop over the blocks. *)
LEMMA RamPageKeeps ==
  ASSUME VInv, RamPage
  PROVE  VInv' /\ SameMeaning /\ phys < End(BlockAt(block)) /\ block \in Indices
<1>1. /\ phase = "ram" /\ phys * PAGE_SIZE < BlockAt(block).limit /\ level = 0 /\ level' = 4
      /\ virt' = linear_limit
      /\ UNCHANGED <<vars, mem, phase, phys, block, linear_limit, fb>>
  BY DEF RamPage, InBlock
<1>2. /\ InRam /\ OnlyThese /\ LinearOK /\ Complete /\ fb \in FbPages /\ phys \in Nat /\ block \in Nat
      /\ linear_limit \in Nat /\ linear_limit <= phys
  BY <1>1 DEF VInv, LoopsInv, LinearOK
<1>3. PInv /\ pc = "alloc" /\ block \in Indices /\ First(BlockAt(block)) <= phys
  BY <1>2 DEF VInv, TablesInv, InRam
<1>4. /\ phys < End(BlockAt(block))
      /\ Pages(BlockAt(block)) = First(BlockAt(block)) .. (End(BlockAt(block)) - 1)
      /\ First(BlockAt(block)) \in Nat /\ End(BlockAt(block)) \in Nat
      /\ block + 1 \in Indices => End(BlockAt(block)) <= First(BlockAt(block + 1))
                                  /\ First(BlockAt(block + 1)) \in Nat
      /\ Pages(BlockAt(block)) \subseteq Free
  <2>1. block < block + 1
    BY <1>2
  <2> QED
    BY <1>1, <1>2, <1>3, <2>1, BlocksOf
<1>5. phys \in ram /\ phys \in Page
  <2>1. phys \in Pages(BlockAt(block))
    BY <1>2, <1>3, <1>4
  <2> QED
    BY <1>3, <1>4, <2>1 DEF PInv, Accounted, TypeOK
<1>6. linear_limit < LinearEnd
  BY <1>2, <1>5, LowPages
<1>7. MayMap(linear_limit)
  <2>1. linear_limit < LFB_VMA /\ linear_limit < KERNEL_VMA
    BY <1>2, <1>6, LowPages
  <2>2. linear_limit \in VPage /\ ~InKernel(linear_limit)
    BY <1>2, <2>1, LowPages
  <2>3. ~(linear_limit < linear_limit) /\ ~(LFB_VMA <= linear_limit)
    BY <1>2, <2>1, LowPages
  <2> QED
    BY <1>2, <2>2, <2>3 DEF MayMap, OnlyThese
<1>8. TablesInv' /\ SameMeaning
  <2>1. /\ TablesInv /\ UNCHANGED <<vars, mem>> /\ phase # "kernel"
        /\ phase' \in {"lfb", "ram", "done"} /\ (phase' = "done" => level' = 0)
        /\ level' = 0 \/ (level' = 4 /\ MayMap(virt'))
    BY <1>1, <1>7 DEF VInv
  <2> QED
    BY <2>1, LoopEffect, Zenon
<1>9. /\ Indices' = Indices
      /\ \A k : BlockAt(k)' = BlockAt(k) /\ First(BlockAt(k))' = First(BlockAt(k))
                /\ Pages(BlockAt(k))' = Pages(BlockAt(k))
  BY <1>1 DEF vars, Indices, pmem_blocks_count, BlockAt, First, Pages, PagesWithin
<1>10. InRam'
  <2>1. block + 1 \in Indices => phys < First(BlockAt(block + 1))
    BY <1>2, <1>4
  <2>2. ram' = ram /\ block' = block /\ phys' = phys /\ virt' = linear_limit'
    BY <1>1 DEF vars
  <2>3. First(BlockAt(block))' = First(BlockAt(block)) /\ First(BlockAt(block + 1))' = First(BlockAt(block + 1))
    BY <1>1 DEF vars, First, BlockAt
  <2> QED
    BY <1>2, <1>5, <1>9, <2>1, <2>2, <2>3 DEF InRam
<1>11. Complete'
  BY <1>1, <1>2, <1>9 DEF Complete, Linear
<1>12. \A k : FbMapped(k)' <=> FbMapped(k)
  BY <1>1 DEF FbMapped
<1>13. LinearOK' /\ OnlyThese' /\ FbRight'
  BY <1>1, <1>2, <1>12, LoopsAlone
<1>14. LoopsInv'
  <2>1. /\ phase' = "ram" /\ virt' \in Nat /\ phys' \in Nat /\ block' \in Nat /\ fb' \in FbPages
    BY <1>1, <1>2
  <2> QED
    BY <1>10, <1>11, <1>13, <2>1 DEF LoopsInv
<1> QED
  BY <1>3, <1>4, <1>8, <1>14 DEF VInv

(* A block is mapped, up to the limit that it has by now.                    *)
LEMMA RamBlockDoneKeeps ==
  ASSUME VInv, RamBlockDone
  PROVE  /\ VInv' /\ SameMeaning
         /\ phys' = phys \/ (block + 1 \in Indices /\ phys' = First(BlockAt(block + 1)))
<1>1. /\ phase = "ram" /\ ~(phys * PAGE_SIZE < BlockAt(block).limit) /\ level = 0 /\ level' = 0
      /\ block' = block + 1
      /\ IF block + 1 < pmem_blocks_count
           THEN phys' = First(BlockAt(block + 1)) /\ phase' = phase
           ELSE phase' = "done" /\ phys' = phys
      /\ UNCHANGED <<vars, mem, virt, linear_limit, fb>>
  <2>1. BlockAt(block') = BlockAt(block + 1) /\ block' = block + 1
    BY DEF RamBlockDone
  <2> QED
    BY <2>1 DEF RamBlockDone, InBlock, First, VInv, TablesInv
<1>2. /\ InRam /\ OnlyThese /\ LinearOK /\ Complete /\ fb \in FbPages /\ phys \in Nat /\ block \in Nat
      /\ virt \in Nat
  BY <1>1 DEF VInv, LoopsInv, LinearOK
<1>3. PInv /\ pc = "alloc" /\ block \in Indices /\ First(BlockAt(block)) <= phys
  BY <1>2 DEF VInv, TablesInv, InRam
<1>4. /\ pmem_blocks_count \in Nat /\ Indices = 0 .. (pmem_blocks_count - 1)
      /\ \A k \in Indices : First(BlockAt(k)) \in Nat \ {0} /\ End(BlockAt(k)) \in Nat
                            /\ First(BlockAt(k)) <= End(BlockAt(k))
                            /\ Pages(BlockAt(k)) = First(BlockAt(k)) .. (End(BlockAt(k)) - 1)
      /\ \A j, k \in Indices : j < k => End(BlockAt(j)) <= First(BlockAt(k))
      /\ End(BlockAt(block)) <= phys
  <2>1. ~(phys < End(BlockAt(block))) /\ End(BlockAt(block)) \in Nat
    BY <1>1, <1>2, <1>3, BlocksOf
  <2> QED
    BY <1>2, <1>3, <2>1, BlocksOf
<1>5. TablesInv' /\ SameMeaning
  <2>1. /\ TablesInv /\ UNCHANGED <<vars, mem>> /\ phase # "kernel"
        /\ phase' \in {"lfb", "ram", "done"} /\ (phase' = "done" => level' = 0)
        /\ level' = 0 \/ (level' = 4 /\ MayMap(virt'))
    BY <1>1 DEF VInv
  <2> QED
    BY <2>1, LoopEffect, Zenon
<1>6. /\ Indices' = Indices /\ pmem_blocks_count' = pmem_blocks_count
      /\ \A k : BlockAt(k)' = BlockAt(k) /\ First(BlockAt(k))' = First(BlockAt(k))
                /\ Pages(BlockAt(k))' = Pages(BlockAt(k))
  BY <1>1 DEF vars, Indices, pmem_blocks_count, BlockAt, First, Pages, PagesWithin
<1>7. phys' \in Nat /\ phys <= phys'
  BY <1>1, <1>2, <1>4 DEF InRam
<1>8. \A k : FbMapped(k)' <=> FbMapped(k)
  BY <1>1 DEF FbMapped
<1>9. LinearOK' /\ OnlyThese' /\ FbRight'
  <2>1. phase # "kernel" /\ phase' # "kernel"
    BY <1>1
  <2> QED
    BY <1>1, <1>7, <1>8, <2>1, LoopsAlone
<1>10. Complete'
  <2> SUFFICES ASSUME NEW k \in Indices, NEW q \in Pages(BlockAt(k)),
                      k < block + 1 \/ (k = block + 1 /\ q < phys')
               PROVE  \E v \in Linear : FrameOf(mem, v) = q
    BY <1>1, <1>6 DEF Complete, Linear
  <2>1. /\ k \in Int /\ q \in First(BlockAt(k)) .. (End(BlockAt(k)) - 1)
        /\ First(BlockAt(k)) \in Nat /\ End(BlockAt(k)) \in Nat /\ q \in Nat
    BY <1>4
  <2>2. k < block \/ (k = block /\ q < phys)
    <3>1. CASE k < block + 1
      BY <1>2, <1>4, <2>1, <3>1
    <3>2. CASE k = block + 1 /\ q < phys'
      <4>1. phys' = First(BlockAt(k))
        BY <1>1, <1>4, <3>2
      <4> QED
        BY <2>1, <3>2, <4>1
    <3> QED
      BY <3>1, <3>2
  <2> QED
    BY <1>2, <2>2 DEF Complete
<1>11. CASE block + 1 < pmem_blocks_count
  <2>1. block + 1 \in Indices
    BY <1>2, <1>4, <1>11
  <2>2. (block + 1) + 1 \in Indices => First(BlockAt(block + 1)) <= First(BlockAt((block + 1) + 1))
    <3> SUFFICES ASSUME (block + 1) + 1 \in Indices
                 PROVE  First(BlockAt(block + 1)) <= First(BlockAt((block + 1) + 1))
      OBVIOUS
    <3>1. block + 1 < (block + 1) + 1
      BY <1>2
    <3>2. /\ End(BlockAt(block + 1)) <= First(BlockAt((block + 1) + 1))
          /\ First(BlockAt(block + 1)) <= End(BlockAt(block + 1))
          /\ {First(BlockAt(block + 1)), End(BlockAt(block + 1)), First(BlockAt((block + 1) + 1))} \subseteq Nat
      BY <1>4, <2>1, <3>1
    <3> QED
      BY <3>2
  <2>3. /\ First(BlockAt(block))' = First(BlockAt(block + 1))
        /\ First(BlockAt(block + 1))' = First(BlockAt((block + 1) + 1))
    BY <1>1 DEF vars, First, BlockAt
  <2>4. /\ phase' = "ram" /\ phys' = First(BlockAt(block + 1)) /\ block' = block + 1 /\ level' = 0
        /\ phys' \in Nat
    BY <1>1, <1>7, <1>11
  <2>5. InRam'
    BY <1>6, <2>1, <2>2, <2>3, <2>4 DEF InRam
  <2>6. LoopsInv'
    <3>1. virt' \in Nat /\ phys' \in Nat /\ block' \in Nat /\ fb' \in FbPages
      BY <1>1, <1>2, <2>4
    <3> QED
      BY <1>9, <1>10, <2>4, <2>5, <3>1 DEF LoopsInv
  <2> QED
    BY <1>5, <2>1, <2>4, <2>6 DEF VInv
<1>12. CASE ~(block + 1 < pmem_blocks_count)
  <2>1. phase' = "done" /\ phys' = phys /\ block' = pmem_blocks_count'
    BY <1>1, <1>2, <1>3, <1>4, <1>6, <1>12
  <2>2. LoopsInv'
    <3>1. virt' \in Nat /\ phys' \in Nat /\ block' \in Nat /\ fb' \in FbPages
      BY <1>1, <1>2, <1>7
    <3> QED
      BY <1>9, <1>10, <2>1, <3>1 DEF LoopsInv
  <2> QED
    BY <1>5, <2>1, <2>2 DEF VInv
<1> QED
  BY <1>11, <1>12

(* One address gets its frame, and no other changes its meaning. *)
Maps(v, f) ==
  /\ MayMap(v) /\ FrameOf(mem', v) = f
  /\ \A w \in VPage \ {v} : FrameOf(mem', w) = FrameOf(mem, w)

(* The next page of the frame buffer is mapped. *)
LEMMA StoreLfbKeeps ==
  ASSUME VInv, StorePage, phase = "lfb"
  PROVE  /\ VInv' /\ Maps(virt, FB_FRAME + (virt - LFB_VMA)) /\ UNCHANGED linear_limit
         /\ StillThere(mem, mem')
         /\ LFB_VMA <= virt /\ virt < KERNEL_VMA /\ virt \in Nat
         /\ virt = LFB_VMA \/ FrameOf(mem, virt - 1) # Absent
<1>1. /\ level = 1 /\ level' = 0 /\ phys' = phys + 1 /\ virt' = virt + 1 /\ phase' = "lfb"
      /\ UNCHANGED <<vars, phase, block, fb, linear_limit>>
  BY DEF StorePage
<1>2. /\ InLfb /\ OnlyThese /\ FbRight /\ fb \in FbPages /\ virt \in Nat /\ phys \in Nat
      /\ block \in Nat /\ linear_limit = 0
  BY DEF VInv, LoopsInv, InLfb
<1>3. /\ LFB_VMA <= virt /\ phys = FB_FRAME + (virt - LFB_VMA) /\ fb <= OneG /\ virt < LFB_VMA + fb
      /\ fb \in Nat /\ LFB_VMA \in Nat /\ KERNEL_VMA \in Nat /\ OneG \in Nat /\ FB_FRAME \in Nat
      /\ virt < KERNEL_VMA
  <2>1. /\ fb \in Nat /\ LFB_VMA \in Nat /\ KERNEL_VMA \in Nat /\ OneG \in Nat /\ FB_FRAME \in Nat
        /\ fb <= OneG => LFB_VMA + fb <= KERNEL_VMA
    BY <1>2, LowPages
  <2>2. LFB_VMA <= virt /\ phys = FB_FRAME + (virt - LFB_VMA) /\ fb <= OneG /\ virt < LFB_VMA + fb
    BY <1>1, <1>2 DEF InLfb
  <2> QED
    BY <1>2, <2>1, <2>2
<1>4. phys \in Frame
  <2>1. virt - LFB_VMA \in Nat /\ virt - LFB_VMA <= OneG
    BY <1>2, <1>3
  <2> QED
    BY <1>3, <2>1, LowPages
<1>5. /\ TablesInv' /\ MayMap(virt) /\ FrameOf(mem', virt) = phys /\ StillThere(mem, mem')
      /\ \A v \in VPage \ {virt} : FrameOf(mem', v) = FrameOf(mem, v)
  BY <1>4, StoreEffect DEF VInv
<1>6. Maps(virt, FB_FRAME + (virt - LFB_VMA))
  BY <1>3, <1>5 DEF Maps
<1>7. virt = LFB_VMA \/ FrameOf(mem, virt - 1) # Absent
  <2> SUFFICES ASSUME virt # LFB_VMA PROVE FrameOf(mem, virt - 1) # Absent
    OBVIOUS
  <2> DEFINE k == virt - 1 - LFB_VMA
  <2>1. k \in Nat /\ FbMapped(k)
    BY <1>2, <1>3 DEF FbMapped
  <2>2. FrameOf(mem, LFB_VMA + k) = FB_FRAME + k /\ LFB_VMA + k = virt - 1
    BY <1>2, <1>3, <2>1 DEF FbRight
  <2> HIDE DEF k
  <2> QED
    BY <1>3, <2>1, <2>2 DEF Absent
<1>8. \A k \in Nat : FbMapped(k)' <=> (FbMapped(k) \/ LFB_VMA + k = virt)
  <2> SUFFICES ASSUME NEW k \in Nat PROVE FbMapped(k)' <=> (FbMapped(k) \/ LFB_VMA + k = virt)
    OBVIOUS
  <2>1. FbMapped(k)' <=> (fb <= OneG /\ k < fb /\ LFB_VMA + k < virt + 1)
    BY <1>1 DEF FbMapped
  <2>2. FbMapped(k) <=> (fb <= OneG /\ k < fb /\ LFB_VMA + k < virt)
    BY DEF FbMapped
  <2> QED
    BY <1>2, <1>3, <2>1, <2>2
<1>9. OnlyThese'
  <2> SUFFICES ASSUME NEW v \in VPage, FrameOf(mem', v) # Absent
               PROVE  InKernel(v) \/ v < linear_limit' \/ (LFB_VMA <= v /\ FbMapped(v - LFB_VMA)')
    BY DEF OnlyThese
  <2>0. v \in Nat
    BY LowPages
  <2>1. CASE v = virt
    <3>1. v - LFB_VMA \in Nat /\ LFB_VMA + (v - LFB_VMA) = virt
      BY <1>3, <2>0, <2>1
    <3> QED
      BY <1>3, <1>8, <2>1, <3>1
  <2>2. CASE v # virt
    <3>1. InKernel(v) \/ v < linear_limit \/ (LFB_VMA <= v /\ FbMapped(v - LFB_VMA))
      BY <1>2, <1>5, <2>2 DEF OnlyThese
    <3>2. LFB_VMA <= v => v - LFB_VMA \in Nat
      BY <1>3, <2>0
    <3> QED
      BY <1>1, <1>8, <3>1, <3>2
  <2> QED
    BY <2>1, <2>2
<1>10. FbRight'
  <2> SUFFICES ASSUME NEW k \in Nat, FbMapped(k)' PROVE FrameOf(mem', LFB_VMA + k) = FB_FRAME + k
    BY DEF FbRight
  <2>1. CASE LFB_VMA + k = virt
    <3>1. virt - LFB_VMA = k
      BY <1>3, <2>1
    <3> QED
      BY <1>3, <1>5, <2>1, <3>1
  <2>2. CASE FbMapped(k) /\ LFB_VMA + k # virt
    <3>1. LFB_VMA + k \in VPage
      BY <2>2, PartsMapped DEF VInv
    <3> QED
      BY <1>2, <1>5, <2>2, <3>1 DEF FbRight
  <2> QED
    BY <1>8, <2>1, <2>2
<1>11. InLfb'
  BY <1>1, <1>2, <1>3 DEF InLfb
<1>12. LinearOK'
  BY <1>1, <1>2, LowPages DEF LinearOK, Linear
<1>13. LoopsInv'
  <2>1. virt' \in Nat /\ phys' \in Nat /\ block' \in Nat /\ fb' \in FbPages
    BY <1>1, <1>2
  <2> QED
    BY <1>1, <1>9, <1>10, <1>11, <1>12, <2>1 DEF LoopsInv
<1> QED
  BY <1>1, <1>2, <1>3, <1>5, <1>6, <1>7, <1>13 DEF VInv

(* The next page of a block is mapped, at the end of the linear space. *)
LEMMA StoreRamKeeps ==
  ASSUME VInv, StorePage, phase = "ram"
  PROVE  /\ VInv' /\ Maps(linear_limit, phys) /\ phys \in ram /\ StillThere(mem, mem')
         /\ linear_limit' = linear_limit + 1 /\ linear_limit \in Nat /\ phys' = phys + 1
         /\ linear_limit > 0 => FrameOf(mem, linear_limit - 1) < phys
<1>1. /\ level = 1 /\ level' = 0 /\ phys' = phys + 1 /\ linear_limit' = linear_limit + 1 /\ phase' = "ram"
      /\ UNCHANGED <<vars, phase, block, fb, virt>>
  BY DEF StorePage
<1>2. /\ InRam /\ OnlyThese /\ FbRight /\ LinearOK /\ Complete /\ fb \in FbPages
      /\ virt \in Nat /\ phys \in Nat /\ block \in Nat /\ linear_limit \in Nat
      /\ phys \in ram /\ virt = linear_limit /\ linear_limit <= phys
  BY <1>1 DEF VInv, LoopsInv, LinearOK, InRam
<1>3. phys \in Page /\ phys \in Frame /\ ram \subseteq Page
  BY <1>2, Window DEF VInv, TablesInv, PInv, TypeOK
<1>4. /\ TablesInv' /\ MayMap(linear_limit) /\ FrameOf(mem', linear_limit) = phys /\ StillThere(mem, mem')
      /\ \A v \in VPage \ {linear_limit} : FrameOf(mem', v) = FrameOf(mem, v)
  BY <1>2, <1>3, StoreEffect DEF VInv
<1>5. Maps(linear_limit, phys)
  BY <1>4 DEF Maps
<1>6. linear_limit + 1 <= LinearEnd /\ LinearEnd <= LFB_VMA /\ LFB_VMA \in Nat /\ LinearEnd \in Nat
  BY <1>2, <1>3, LowPages
<1>7. \A v \in Linear : /\ FrameOf(mem', v) = FrameOf(mem, v) /\ v \in Nat /\ v < linear_limit
                        /\ FrameOf(mem, v) \in Int
  <2> SUFFICES ASSUME NEW v \in Linear
               PROVE  /\ FrameOf(mem', v) = FrameOf(mem, v) /\ v \in Nat /\ v < linear_limit
                      /\ FrameOf(mem, v) \in Int
    OBVIOUS
  <2>1. v \in VPage /\ v \in Nat /\ v < linear_limit /\ v # linear_limit
    BY <1>2, PartsMapped DEF VInv, Linear
  <2>2. FrameOf(mem, v) \in ram
    BY <1>2 DEF LinearOK
  <2> QED
    BY <1>3, <1>4, <2>1, <2>2, Window
<1>8. \A v : v \in Linear' <=> v \in Linear \/ v = linear_limit
  BY <1>1, <1>2 DEF Linear
<1>9. LinearOK'
  <2>1. linear_limit' \in Nat /\ linear_limit' <= phys' /\ linear_limit' <= LinearEnd
    BY <1>1, <1>2, <1>6
  <2>2. ASSUME NEW v \in Linear'
        PROVE  FrameOf(mem', v) \in ram /\ FrameOf(mem', v) + (linear_limit' - v) <= phys'
    <3>1. CASE v \in Linear
      <4>1. FrameOf(mem, v) \in ram /\ FrameOf(mem, v) + (linear_limit - v) <= phys
        BY <1>2, <3>1 DEF LinearOK
      <4> QED
        BY <1>1, <1>2, <1>7, <3>1, <4>1
    <3>2. CASE v = linear_limit
      BY <1>1, <1>2, <1>4, <3>2
    <3> QED
      BY <1>8, <3>1, <3>2
  <2>3. ASSUME NEW v \in Linear', NEW w \in Linear', v < w
        PROVE  FrameOf(mem', v) + (w - v) <= FrameOf(mem', w)
    <3>1. v \in Linear
      BY <1>2, <1>7, <1>8, <2>3
    <3>2. CASE w \in Linear
      BY <1>2, <1>7, <2>3, <3>1, <3>2 DEF LinearOK
    <3>3. CASE w = linear_limit
      <4>1. FrameOf(mem, v) + (linear_limit - v) <= phys
        BY <1>2, <3>1 DEF LinearOK
      <4> QED
        BY <1>4, <1>7, <3>1, <3>3, <4>1
    <3> QED
      BY <1>8, <3>2, <3>3
  <2>4. ram' = ram
    BY <1>1 DEF vars
  <2> QED
    BY <2>1, <2>2, <2>3, <2>4 DEF LinearOK
<1>10. \A k : FbMapped(k)' <=> FbMapped(k)
  BY <1>1 DEF FbMapped
<1>11. OnlyThese'
  <2> SUFFICES ASSUME NEW v \in VPage, FrameOf(mem', v) # Absent
               PROVE  InKernel(v) \/ v < linear_limit' \/ (LFB_VMA <= v /\ FbMapped(v - LFB_VMA)')
    BY DEF OnlyThese
  <2>0. v \in Nat
    BY LowPages
  <2>1. CASE v = linear_limit
    BY <1>1, <1>2, <2>1
  <2>2. CASE v # linear_limit
    <3>1. InKernel(v) \/ v < linear_limit \/ (LFB_VMA <= v /\ FbMapped(v - LFB_VMA))
      BY <1>2, <1>4, <2>2 DEF OnlyThese
    <3> QED
      BY <1>1, <1>2, <1>10, <2>0, <3>1
  <2> QED
    BY <2>1, <2>2
<1>12. FbRight'
  <2> SUFFICES ASSUME NEW k \in Nat, FbMapped(k)' PROVE FrameOf(mem', LFB_VMA + k) = FB_FRAME + k
    BY DEF FbRight
  <2>1. FbMapped(k) /\ LFB_VMA + k \in VPage
    BY <1>10, PartsMapped DEF VInv
  <2>2. LFB_VMA + k # linear_limit
    BY <1>2, <1>6
  <2> QED
    BY <1>2, <1>4, <2>1, <2>2 DEF FbRight
<1>13. /\ Indices' = Indices
       /\ \A k : BlockAt(k)' = BlockAt(k) /\ First(BlockAt(k))' = First(BlockAt(k))
                 /\ Pages(BlockAt(k))' = Pages(BlockAt(k))
  BY <1>1 DEF vars, Indices, pmem_blocks_count, BlockAt, First, Pages, PagesWithin
<1>14. InRam'
  <2>1. block' = block /\ level' = 0 /\ phys' = phys + 1
    BY <1>1
  <2>2. First(BlockAt(block))' = First(BlockAt(block)) /\ First(BlockAt(block + 1))' = First(BlockAt(block + 1))
    BY <1>1 DEF vars, First, BlockAt
  <2>3. /\ block \in Indices /\ First(BlockAt(block)) <= phys
        /\ block + 1 \in Indices => phys < First(BlockAt(block + 1))
    BY <1>1, <1>2 DEF InRam
  <2>4. /\ First(BlockAt(block)) \in Nat
        /\ block + 1 \in Indices => First(BlockAt(block + 1)) \in Nat
    BY <2>3, BlocksOf DEF VInv, TablesInv
  <2>5. First(BlockAt(block)) <= phys + 1
    BY <1>2, <2>3, <2>4
  <2>6. block + 1 \in Indices => phys + 1 <= First(BlockAt(block + 1))
    BY <1>2, <2>3, <2>4
  <2> QED
    BY <1>13, <2>1, <2>2, <2>3, <2>5, <2>6 DEF InRam
<1>15. Complete'
  <2> SUFFICES ASSUME NEW k \in Indices, NEW q \in Pages(BlockAt(k)),
                      k < block \/ (k = block /\ q < phys + 1)
               PROVE  \E v \in Linear' : FrameOf(mem', v) = q
    BY <1>1, <1>13 DEF Complete
  <2>1. q \in Int
    BY DEF Pages, PagesWithin, Page
  <2>2. CASE k < block \/ (k = block /\ q < phys)
    <3>1. PICK v \in Linear : FrameOf(mem, v) = q
      BY <1>2, <2>2 DEF Complete
    <3> QED
      BY <1>7, <1>8, <3>1
  <2>3. CASE q = phys
    BY <1>4, <1>8, <2>3
  <2> QED
    BY <1>2, <2>1, <2>2, <2>3
<1>16. LoopsInv'
  <2>1. virt' \in Nat /\ phys' \in Nat /\ block' \in Nat /\ fb' \in FbPages
    BY <1>1, <1>2
  <2> QED
    BY <1>1, <1>9, <1>11, <1>12, <1>14, <1>15, <2>1 DEF LoopsInv
<1>17. linear_limit > 0 => FrameOf(mem, linear_limit - 1) < phys
  <2> SUFFICES ASSUME linear_limit > 0 PROVE FrameOf(mem, linear_limit - 1) < phys
    OBVIOUS
  <2>1. linear_limit - 1 \in Linear
    BY <1>2 DEF Linear
  <2>2. FrameOf(mem, linear_limit - 1) + (linear_limit - (linear_limit - 1)) <= phys
    BY <1>2, <2>1 DEF LinearOK
  <2> QED
    BY <1>2, <1>7, <2>1, <2>2
<1> QED
  BY <1>1, <1>2, <1>4, <1>5, <1>16, <1>17 DEF VInv

-----------------------------------------------------------------------------
(* What paging_init is given is what pmem_init leaves: before the first call *)
(* of pmem_alloc_page, the table is such a layout, its last block is the     *)
(* current one, and the usable pages are those of its blocks.                *)
LayoutLeft ==
  pc = "alloc" /\ allocated = {} =>
    /\ IsLayout(pmem_block_map)
    /\ pmem_current_block = pmem_blocks_count - 1
    /\ ram = UNION {PagesWithin(BlockAt(k).base, BlockAt(k).limit) : k \in Indices}

(* A multiple of the page size has no remainder. *)
LEMMA NoOffset ==
  ASSUME NEW n \in Nat
  PROVE  (n * PAGE_SIZE) % PAGE_SIZE = 0
<1>0. PAGE_SIZE \in Nat /\ PAGE_SIZE >= 1
  BY PmemAssumption DEF PmemAssumption
<1> DEFINE a == n * PAGE_SIZE
<1>1. a \in Nat /\ a \div PAGE_SIZE = n
  BY WholeAddress
<1> HIDE DEF a
<1>2. PICK d \in Nat, r \in 0 .. (PAGE_SIZE - 1) :
        a = d * PAGE_SIZE + r /\ a \div PAGE_SIZE = d /\ a % PAGE_SIZE = r
  BY <1>1, PageOffset, Zenon
<1>3. d = n /\ a = d * PAGE_SIZE + r /\ a % PAGE_SIZE = r
  BY <1>1, <1>2, Zenon
<1>4. n * PAGE_SIZE = n * PAGE_SIZE + r
  BY <1>3, Zenon DEF a
<1>5. n * PAGE_SIZE \in Nat /\ r \in Nat
  BY <1>0, WholeAddress
<1>6. r = 0
  BY <1>4, <1>5
<1> QED
  BY <1>3, <1>6, Zenon DEF a

(* For every memory map, what PagingAssumption says of Layouts holds of what *)
(* pmem_init leaves, and PagingInit of the state it leaves.  How much memory *)
(* there is above the image (RoomAssumption) is up to the machine.           *)
THEOREM LayoutsAreLeft == Spec => []LayoutLeft
<1> DEFINE LastIsCurrent ==
      pc = "alloc" /\ allocated = {} => pmem_current_block = pmem_blocks_count - 1
<1>1. Init => LastIsCurrent
  BY DEF Init
<1>2. LastIsCurrent /\ [Next]_vars => LastIsCurrent'
  <2> SUFFICES ASSUME LastIsCurrent, [Next]_vars, pc' = "alloc", allocated' = {}
               PROVE  pmem_current_block' = pmem_blocks_count' - 1
    OBVIOUS
  <2>1. CASE Summary
    BY <2>1 DEF Summary, pmem_blocks_count
  <2>2. CASE UNCHANGED vars
    BY <2>2 DEF vars, pmem_blocks_count
  <2>3. ~Alloc
    BY DEF Alloc
  <2>4. ~Sort /\ ~Merge /\ ~Underflow /\ ~AllocWild
    BY DEF Sort, Merge, Underflow, AllocWild
  <2>5. ~\E base_addr \in 0 .. Space : \E length \in 0 .. (Space - base_addr), type \in Types :
           Gather(base_addr, length, type) \/ Drop(base_addr, length, type)
    BY DEF Gather, Drop
  <2> QED
    BY <2>1, <2>2, <2>3, <2>4, <2>5 DEF Next
<1>3. PInv /\ LastIsCurrent => LayoutLeft
  <2> SUFFICES ASSUME PInv, pc = "alloc", allocated = {}
               PROVE  /\ IsLayout(pmem_block_map)
                      /\ ram = UNION {PagesWithin(BlockAt(k).base, BlockAt(k).limit) : k \in Indices}
    BY DEF LayoutLeft
  <2>1. /\ pmem_block_map \in Seq(Block(0 .. Space)) /\ pmem_blocks_count <= MAX_PMEM_ENTRIES
        /\ DOMAIN pmem_block_map = 1 .. pmem_blocks_count /\ pmem_blocks_count \in Nat
        /\ WholesIn(pmem_block_map) /\ ApartIn(pmem_block_map)
        /\ pmem_current_block \in Indices /\ Free = ram
    BY BlockTable DEF PInv, TypeOK, Used, Accounted
  <2>2. pmem_blocks_count \in 1 .. MAX_PMEM_ENTRIES
    BY <2>1, PmemAssumption DEF PmemAssumption, Indices
  <2>3. ASSUME NEW k \in 1 .. pmem_blocks_count
        PROVE  /\ pmem_block_map[k].base % PAGE_SIZE = 0 /\ pmem_block_map[k].limit % PAGE_SIZE = 0
               /\ 0 < pmem_block_map[k].base /\ pmem_block_map[k].base <= pmem_block_map[k].limit
    <3> DEFINE b == pmem_block_map[k]
               f == First(b)
               e == End(b)
    <3>1. Whole(b)
      BY <2>1 DEF WholesIn
    <3>2. b.base = f * PAGE_SIZE /\ b.limit = e * PAGE_SIZE
      BY <3>1 DEF Whole
    <3>3. f \in Nat \ {0} /\ e \in Nat /\ b.base <= b.limit /\ b.base \in Nat
      BY <3>1, WholeOrder
    <3> HIDE DEF b, f, e
    <3>4. 0 < b.base
      <4>1. 0 * PAGE_SIZE < f * PAGE_SIZE
        <5>1. 0 * PAGE_SIZE + PAGE_SIZE <= f * PAGE_SIZE
          BY <3>3, TimesPage
        <5> QED
          BY <3>2, <3>3, <5>1, PmemAssumption DEF PmemAssumption
      <4> QED
        BY <3>2, <3>3, <4>1, PmemAssumption DEF PmemAssumption
    <3>5. b.base % PAGE_SIZE = 0 /\ b.limit % PAGE_SIZE = 0
      BY <3>2, <3>3, NoOffset
    <3> QED
      BY <3>3, <3>4, <3>5 DEF b
  <2>4. IsLayout(pmem_block_map)
    BY <2>1, <2>2, <2>3 DEF IsLayout, ApartIn, pmem_blocks_count
  <2>5. Free = UNION {Pages(BlockAt(k)) : k \in Indices}
    BY BlocksOf
  <2> QED
    BY <2>1, <2>4, <2>5 DEF Pages
<1> QED
  BY <1>1, <1>2, <1>3, AlwaysPInv, PTL DEF Spec

-----------------------------------------------------------------------------
(* Every machine starts that way: the blocks that pmem_init may leave are    *)
(* whole, ascend, and hold the usable pages.                                 *)
LEMMA LayoutBlocks ==
  ASSUME NEW m \in Layouts
  PROVE  /\ m \in Seq(Block(0 .. Space)) /\ Len(m) \in 1 .. MAX_PMEM_ENTRIES /\ Len(m) \in Nat
         /\ DOMAIN m = 1 .. Len(m)
         /\ WholesIn(m) /\ ApartIn(m)
<1>1. /\ m \in Seq(Block(0 .. Space)) /\ Len(m) \in 1 .. MAX_PMEM_ENTRIES
      /\ \A k \in 1 .. Len(m) : /\ m[k].base % PAGE_SIZE = 0 /\ m[k].limit % PAGE_SIZE = 0
                               /\ 0 < m[k].base /\ m[k].base <= m[k].limit
      /\ \A j, k \in 1 .. Len(m) : j < k => m[j].limit <= m[k].base
  BY PagingAssumption DEF PagingAssumption, IsLayout
<1>2. Len(m) \in Nat /\ DOMAIN m = 1 .. Len(m) /\ \A k \in 1 .. Len(m) : m[k] \in Block(0 .. Space)
  BY <1>1, LenProperties, ElementOfSeq
<1>3. ASSUME NEW b \in Block(0 .. Space), b.base % PAGE_SIZE = 0, b.limit % PAGE_SIZE = 0,
             0 < b.base, b.base <= b.limit
      PROVE  Whole(b)
  <2>0. PAGE_SIZE \in Nat /\ PAGE_SIZE >= 1 /\ Space \in Nat
    BY PmemAssumption DEF PmemAssumption
  <2>1. /\ b \in Block(0 .. Space) /\ b.base \in Nat /\ b.limit \in Nat /\ b.limit <= Space
        /\ b.base % PAGE_SIZE = 0 /\ b.limit % PAGE_SIZE = 0
        /\ 0 < b.base /\ b.base <= b.limit
    BY <1>3, <2>0 DEF Block
  <2> DEFINE f == First(b)
             e == End(b)
  <2>2. f \in Nat /\ b.base = f * PAGE_SIZE
    <3>1. \E d \in Nat, r \in 0 .. (PAGE_SIZE - 1) :
            b.base = d * PAGE_SIZE + r /\ b.base \div PAGE_SIZE = d /\ b.base % PAGE_SIZE = r
      BY <2>1, PageOffset, Zenon
    <3>2. PICK d \in Nat : b.base = d * PAGE_SIZE + 0 /\ b.base \div PAGE_SIZE = d
      BY <2>1, <3>1, Zenon
    <3>3. d * PAGE_SIZE \in Int
      BY TimesPage
    <3>4. b.base = d * PAGE_SIZE
      BY <3>2, <3>3
    <3> QED
      BY <3>2, <3>4, Zenon DEF First
  <2>3. e \in Nat /\ b.limit = e * PAGE_SIZE
    <3>1. \E d \in Nat, r \in 0 .. (PAGE_SIZE - 1) :
            b.limit = d * PAGE_SIZE + r /\ b.limit \div PAGE_SIZE = d /\ b.limit % PAGE_SIZE = r
      BY <2>1, PageOffset, Zenon
    <3>2. PICK d \in Nat : b.limit = d * PAGE_SIZE + 0 /\ b.limit \div PAGE_SIZE = d
      BY <2>1, <3>1, Zenon
    <3>3. d * PAGE_SIZE \in Int
      BY TimesPage
    <3>4. b.limit = d * PAGE_SIZE
      BY <3>2, <3>3
    <3> QED
      BY <3>2, <3>4, Zenon DEF End
  <2> HIDE DEF f, e
  <2>4. f * PAGE_SIZE <= e * PAGE_SIZE /\ 0 < f * PAGE_SIZE /\ e * PAGE_SIZE <= Space
    BY <2>1, <2>2, <2>3
  <2>5. f # 0
    <3>1. f = 0 => f * PAGE_SIZE = 0
      BY <2>0
    <3> QED
      BY <2>4, <3>1
  <2>6. f <= e
    BY <2>2, <2>3, <2>4, PageOrder
  <2>7. Whole([base |-> f * PAGE_SIZE, limit |-> e * PAGE_SIZE])
    BY <2>2, <2>3, <2>4, <2>5, <2>6, WholeFrom
  <2>8. b = [base |-> b.base, limit |-> b.limit]
    BY <2>1 DEF Block
  <2> QED
    BY <2>2, <2>3, <2>7, <2>8
<1> QED
  BY <1>1, <1>2, <1>3 DEF WholesIn, ApartIn

(* The invariant holds at the start.                                         *)
LEMMA InitVInv ==
  ASSUME PagingInit
  PROVE  VInv
<1>0. /\ pc = "alloc" /\ entries = 0 /\ wild = 0 /\ allocated = {} /\ dropped = {}
      /\ pmem_block_map \in Layouts
      /\ pmem_current_block = pmem_blocks_count - 1
      /\ ram = UNION {PagesWithin(BlockAt(k).base, BlockAt(k).limit) : k \in Indices}
      /\ mem \in Remains /\ phase = "kernel" /\ level = 0
      /\ virt = 0 /\ phys = 0 /\ block = 0 /\ linear_limit = 0 /\ fb \in FbPages
  BY DEF PagingInit
<1>1. /\ pmem_block_map \in Seq(Block(0 .. Space)) /\ pmem_blocks_count \in 1 .. MAX_PMEM_ENTRIES
      /\ pmem_blocks_count \in Nat /\ MAX_PMEM_ENTRIES \in Nat
      /\ DOMAIN pmem_block_map = 1 .. pmem_blocks_count
      /\ WholesIn(pmem_block_map) /\ ApartIn(pmem_block_map)
  BY <1>0, LayoutBlocks, PmemAssumption DEF PmemAssumption, pmem_blocks_count
<1>2. pmem_current_block \in Indices /\ \A k \in Indices : ~(k > pmem_current_block)
  BY <1>0, <1>1 DEF Indices
<1>3. Free = ram
  <2>1. ASSUME NEW k \in DOMAIN pmem_block_map PROVE k - 1 \in Indices /\ BlockAt(k - 1) = pmem_block_map[k]
    BY <1>1 DEF BlockAt, Indices
  <2>2. ASSUME NEW k \in Indices PROVE k + 1 \in DOMAIN pmem_block_map /\ BlockAt(k) = pmem_block_map[k + 1]
    BY <1>1 DEF BlockAt, Indices
  <2>3. ASSUME NEW q PROVE q \in Free <=> q \in ram
    <3>1. q \in Free <=> \E k \in DOMAIN pmem_block_map : q \in Pages(pmem_block_map[k])
      BY DEF Free
    <3>2. q \in ram <=> \E k \in Indices : q \in Pages(BlockAt(k))
      BY <1>0 DEF Pages
    <3> QED
      BY <2>1, <2>2, <3>1, <3>2
  <2> QED
    BY <2>3
<1>4. ram \subseteq Page \ {0}
  BY <1>0 DEF PagesWithin
<1>5. TypeOK
  BY <1>0, <1>1, <1>2, <1>4, PmemAssumption DEF PmemAssumption, TypeOK
<1>6. PInv
  BY <1>0, <1>1, <1>2, <1>3, <1>5 DEF PInv, Used, Accounted
<1>7. mem \in Tables
  <2>1. mem \in [Page -> [Entry -> Frame]]
    BY <1>0, PagingAssumption DEF PagingAssumption
  <2> QED
    BY <2>1 DEF Tables
<1>8. TablesInv
  BY <1>0, <1>6, <1>7 DEF TablesInv
<1>9. LinearOK
  BY <1>0, LowPages DEF LinearOK, Linear
<1> QED
  BY <1>0, <1>8, <1>9 DEF VInv, LoopsInv

(* A step that changes nothing. *)
LEMMA StutterKeeps ==
  ASSUME VInv, UNCHANGED <<vars, pagingVars>>
  PROVE  VInv' /\ SameMeaning
<1>1. UNCHANGED <<vars, mem, phase, level, virt, phys, block, linear_limit, fb>>
  BY DEF pagingVars
<1>2. TablesInv' /\ SameMeaning
  <2>1. PInv' /\ pc' = "alloc"
    BY <1>1, UnderflowKeeps DEF VInv, TablesInv, vars
  <2> QED
    BY <1>1, <2>1 DEF VInv, TablesInv, TablePages, KernelThere, Walk, MayMap, Table, Temp, vars, SameMeaning
<1>3. \A k : FbMapped(k)' <=> FbMapped(k)
  BY <1>1 DEF FbMapped
<1>4. /\ Indices' = Indices /\ pmem_blocks_count' = pmem_blocks_count
      /\ \A k : BlockAt(k)' = BlockAt(k) /\ First(BlockAt(k))' = First(BlockAt(k))
                /\ Pages(BlockAt(k))' = Pages(BlockAt(k))
  BY <1>1 DEF vars, Indices, pmem_blocks_count, BlockAt, First, Pages, PagesWithin
<1>5. LinearOK' /\ (phase # "kernel" => OnlyThese' /\ FbRight')
  BY <1>1, <1>3 DEF VInv, LoopsInv, LinearOK, Linear, OnlyThese, FbRight, vars
<1>6. phase = "lfb" => InLfb'
  BY <1>1 DEF VInv, LoopsInv, InLfb
<1>7. phase = "ram" => InRam'
  <2>1. First(BlockAt(block))' = First(BlockAt(block)) /\ First(BlockAt(block + 1))' = First(BlockAt(block + 1))
    BY <1>1 DEF vars, First, BlockAt
  <2> QED
    BY <1>1, <1>4, <2>1 DEF VInv, LoopsInv, InRam, vars
<1>8. phase \in {"ram", "done"} => Complete'
  BY <1>1, <1>4 DEF VInv, LoopsInv, Complete, Linear
<1>9. LoopsInv'
  BY <1>1, <1>4, <1>5, <1>6, <1>7, <1>8 DEF VInv, LoopsInv
<1> QED
  BY <1>2, <1>9 DEF VInv

(* So the invariant is inductive, as long as no table is put into the        *)
(* kernel's image.                                                           *)
LEMMA StepVInv == VInv /\ ImageKept' /\ [PagingNext]_<<vars, pagingVars>> => VInv'
<1> SUFFICES ASSUME VInv, ImageKept', [PagingNext]_<<vars, pagingVars>> PROVE VInv'
  OBVIOUS
<1>1. CASE RemapKernel
  BY <1>1, RemapKeeps
<1>2. CASE LfbPage
  BY <1>2, LfbPageKeeps
<1>3. CASE LfbDone
  BY <1>3, LfbDoneKeeps
<1>4. CASE RamPage
  BY <1>4, RamPageKeeps
<1>5. CASE RamBlockDone
  BY <1>5, RamBlockDoneKeeps
<1>6. CASE CreateTable
  BY <1>6, CreateKeeps
<1>7. CASE Descend
  BY <1>7, DescendKeeps
<1>8. CASE StorePage
  <2>1. phase \in {"lfb", "ram"}
    BY <1>8 DEF VInv, TablesInv, StorePage
  <2> QED
    BY <1>8, <2>1, StoreLfbKeeps, StoreRamKeeps
<1>9. CASE UNCHANGED <<vars, pagingVars>>
  BY <1>9, StutterKeeps
<1> QED
  BY <1>1, <1>2, <1>3, <1>4, <1>5, <1>6, <1>7, <1>8, <1>9 DEF PagingNext, Finished

-----------------------------------------------------------------------------
(* How many tables there are.  A table of level l stands for a region of     *)
(* addresses, those with the same quotient by Reach[l + 1]; dividing in two  *)
(* steps is dividing once,                                                   *)
LEMMA TwoDivisions ==
  ASSUME NEW v \in Nat, NEW a \in Nat \ {0}
  PROVE  v \div (a * N) = (v \div a) \div N
<1> DEFINE q == v \div a
           r == v % a
           d == q \div N
           e == q % N
           m == e * a + r
<1>0. N \in Nat /\ N >= 3 /\ N \in Nat \ {0} /\ a * N \in Nat \ {0} /\ a \in Nat
  <2>1. N \in Nat /\ N >= 3
    BY Sizes3
  <2>2. (a - 1) * (N - 3) >= 0 /\ (a - 1) * (N - 3) = a * N - 3 * a - N + 3 /\ a * N \in Int
    BY <2>1
  <2> QED
    BY <2>1, <2>2
<1>1. r \in 0 .. (a - 1) /\ q \in Nat /\ v = a * q + r
  BY Divided
<1> HIDE DEF q, r
<1>2. e \in 0 .. (N - 1) /\ d \in Nat /\ q = N * d + e
  BY <1>0, <1>1, Divided
<1> HIDE DEF d, e
<1>3. m \in 0 .. (a * N - 1)
  <2>1. m \in 0 .. (N * a - 1)
    BY <1>0, <1>1, <1>2, Below DEF Entry
  <2> QED
    BY <1>0, <2>1
<1>4. v = (a * N) * d + m
  <2>1. a * q = a * (N * d) + a * e /\ a * (N * d) = (a * N) * d /\ a * e = e * a
    BY <1>0, <1>1, <1>2
  <2>2. a * q \in Int /\ a * e \in Int /\ (a * N) * d \in Int
    BY <1>0, <1>1, <1>2
  <2> QED
    BY <1>0, <1>1, <1>2, <2>1, <2>2
<1> HIDE DEF m
<1>5. ((a * N) * d + m) \div (a * N) = d
  BY <1>0, <1>2, <1>3, Quotient, Zenon
<1> QED
  BY <1>4, <1>5 DEF d, q

(* so addresses of one region share all tables down to its own.              *)
LEMMA SameRegion ==
  ASSUME NEW l \in 1 .. 3, NEW v \in VAll, NEW w \in VAll, v \div Reach[l + 1] = w \div Reach[l + 1]
  PROVE  Same(l, v, w)
<1>0. /\ v \in Nat /\ w \in Nat /\ N \in Nat \ {0} /\ OneG \in Nat \ {0}
      /\ Reach[2] = N /\ Reach[3] = OneG /\ Reach[4] = OneG * N /\ OneG = N * N
  BY Sizes3 DEF VAll
<1>1. \A u \in Nat : u \div Reach[3] = (u \div Reach[2]) \div N
  <2> SUFFICES ASSUME NEW u \in Nat PROVE u \div Reach[3] = (u \div Reach[2]) \div N
    OBVIOUS
  <2>1. u \div (N * N) = (u \div N) \div N
    BY <1>0, TwoDivisions, Zenon
  <2> QED
    BY <1>0, <2>1, Zenon
<1>2. \A u \in Nat : u \div Reach[4] = (u \div Reach[3]) \div N
  <2> SUFFICES ASSUME NEW u \in Nat PROVE u \div Reach[4] = (u \div Reach[3]) \div N
    OBVIOUS
  <2>1. u \div (OneG * N) = (u \div OneG) \div N
    BY <1>0, TwoDivisions, Zenon
  <2> QED
    BY <1>0, <2>1, Zenon
<1>3. v \div Reach[4] = w \div Reach[4] /\ (l <= 2 => v \div Reach[3] = w \div Reach[3])
      /\ (l <= 1 => v \div Reach[2] = w \div Reach[2])
  <2>1. CASE l = 1
    <3>1. v \div Reach[2] = w \div Reach[2]
      BY <2>1
    <3>2. v \div Reach[3] = w \div Reach[3]
      BY <1>0, <1>1, <3>1, Zenon
    <3>3. v \div Reach[4] = w \div Reach[4]
      BY <1>0, <1>2, <3>2, Zenon
    <3> QED
      BY <3>1, <3>2, <3>3
  <2>2. CASE l = 2
    <3>2. v \div Reach[3] = w \div Reach[3]
      BY <2>2
    <3>3. v \div Reach[4] = w \div Reach[4]
      BY <1>0, <1>2, <3>2, Zenon
    <3> QED
      BY <2>2, <3>2, <3>3
  <2>3. CASE l = 3
    <3>1. v \div Reach[4] = w \div Reach[4]
      BY <2>3
    <3> QED
      BY <2>3, <3>1
  <2> QED
    BY <2>1, <2>2, <2>3
<1> SUFFICES ASSUME NEW h \in (l + 1) .. 4 PROVE Index(h, v) = Index(h, w)
  BY DEF Same
<1>4. \/ h = 4
      \/ h = 3 /\ l <= 2
      \/ h = 2 /\ l <= 1
  OBVIOUS
<1>5. v \div Reach[h] = w \div Reach[h]
  BY <1>3, <1>4
<1> QED
  BY <1>5 DEF Index

(* Counting up to an address counts its region. *)
LEMMA RegionsUpTo ==
  ASSUME NEW n \in Nat, NEW d \in Nat \ {0}
  PROVE  /\ UpTo(n, d) \in Nat
         /\ \A v \in 0 .. (n - 1) : v \div d \in 0 .. (UpTo(n, d) - 1)
<1> DEFINE u == (n + d - 1) \div d
           s == (n + d - 1) % d
<1>1. n + d - 1 \in Nat /\ d \in Nat /\ d >= 1
  OBVIOUS
<1>2. s \in 0 .. (d - 1) /\ u \in Nat /\ n + d - 1 = d * u + s
  BY <1>1, Divided
<1>3. UpTo(n, d) = u
  BY DEF UpTo
<1> HIDE DEF u, s
<1>4. ASSUME NEW v \in 0 .. (n - 1) PROVE v \div d \in 0 .. (u - 1)
  <2> DEFINE a == v \div d
             r == v % d
  <2>1. r \in 0 .. (d - 1) /\ a \in Nat /\ v = d * a + r
    <3>1. v \in Nat
      OBVIOUS
    <3> QED
      BY <3>1, Divided
  <2> HIDE DEF a, r
  <2>2. d * a \in Int /\ d * u \in Int /\ d * a < d * u
    <3>1. d * a \in Int /\ d * u \in Int
      BY <1>1, <1>2, <2>1
    <3> QED
      BY <1>1, <1>2, <2>1, <3>1
  <2>3. a < u
    <3> SUFFICES ASSUME a >= u PROVE FALSE
      BY <1>2, <2>1
    <3>1. d * (a - u) >= 0 /\ d * (a - u) = d * a - d * u
      BY <1>1, <1>2, <2>1
    <3> QED
      BY <2>2, <3>1
  <2> QED
    BY <1>2, <2>1, <2>3 DEF a
<1> QED
  BY <1>2, <1>3, <1>4

(* The addresses that paging_init maps, of memory and of the frame buffer;   *)
(* the latter's directory pointers are in the kernel's table.                *)
MemoryPart == 0 .. (Cardinality(ram) - 1)
FbPart == IF fb <= OneG THEN {LFB_VMA + k : k \in 0 .. (fb - 1)} ELSE {}

Wants(l, v) == v \in MemoryPart \/ (l < 3 /\ v \in FbPart)

(* Where the frame buffer's regions begin.                                   *)
FbRegion(l) == LFB_VMA \div Reach[l + 1]

(* A frame buffer's pages are in one region of a directory, away from the    *)
(* kernel's, and its page tables are counted from the first one.             *)
LEMMA FbRegions ==
  ASSUME fb \in FbPages, NEW v \in FbPart
  PROVE  /\ v \in VAll /\ fb \in 1 .. OneG
         /\ v \div Reach[2] \in FbRegion(1) .. (FbRegion(1) + UpTo(fb, N) - 1)
         /\ v \div Reach[3] = FbRegion(2)
         /\ Same(3, v, KERNEL_VMA)
         /\ FbRegion(1) \in Nat /\ FbRegion(2) \in Nat
<1> DEFINE G == OneG
           H == OneG * N
           a == N - 1
           b == N - 3
           c0 == a * G + b * N + 1
           c1 == a * N + b
<1>0. /\ N \in Nat /\ N >= 3 /\ G \in Nat /\ G >= 9 /\ G = N * N /\ H \in Nat /\ H >= 27 /\ H = G * N
      /\ Reach[2] = N /\ Reach[3] = G /\ Reach[4] = H /\ a \in Nat /\ b \in Nat /\ a = N - 1 /\ b = N - 3
  BY Sizes3
<1>1. LFB_VMA = a * H + b * G + N /\ KERNEL_VMA = a * H + (N - 2) * G
  BY <1>0 DEF LFB_VMA, KERNEL_VMA
<1>2. PICK k \in 0 .. (fb - 1) : v = LFB_VMA + k /\ fb <= G
  BY DEF FbPart
<1>3. /\ fb \in Nat /\ fb <= G - N /\ k \in Nat /\ k <= fb - 1 /\ fb \in 1 .. OneG
  <2>1. fb \in Nat /\ (fb <= G - N \/ fb > G)
    BY PagingAssumption DEF PagingAssumption
  <2> QED
    BY <1>0, <1>2, <2>1
<1>4. v \in VAll /\ KERNEL_VMA \in VAll
  <2>1. LFB_VMA + (OneG - N) = KERNEL_VMA /\ LFB_VMA \in Nat /\ KERNEL_VMA \in VAll
        /\ \A w \in Nat : w < KERNEL_VMA => w \in VAll
    BY Parts
  <2>2. v \in Nat /\ v < KERNEL_VMA
    <3>1. G - N \in Int /\ k < G - N /\ LFB_VMA + (G - N) = KERNEL_VMA
      BY <1>0, <1>3, <2>1
    <3> HIDE DEF G
    <3> QED
      BY <1>2, <1>3, <2>1, <3>1
  <2> QED
    BY <2>1, <2>2
<1> HIDE DEF G, H, a, b
<1>5. a * H \in Nat /\ b * G \in Nat /\ a * G \in Nat /\ a * N \in Nat /\ b * N \in Nat
  BY <1>0
<1>6. c0 \in Nat /\ c1 \in Nat /\ N * c0 = a * H + b * G + N /\ G * c1 = a * H + b * G
  <2>1. N * (a * G) = a * H /\ N * (b * N) = b * G /\ G * (a * N) = a * H
    BY <1>0
  <2>2. N * c0 = N * (a * G) + N * (b * N) + N /\ G * c1 = G * (a * N) + G * b /\ G * b = b * G
    BY <1>0, <1>5
  <2> QED
    BY <1>0, <1>5, <2>1, <2>2
<1>7. LFB_VMA = N * c0 + 0 /\ v = N * c0 + k /\ LFB_VMA = G * c1 + N /\ v = G * c1 + (N + k)
  BY <1>0, <1>1, <1>2, <1>3, <1>5, <1>6
<1> HIDE DEF c0, c1
<1>8. FbRegion(1) = c0
  <2>1. N \in Nat \ {0} /\ 0 \in 0 .. (N - 1)
    BY <1>0
  <2>2. (N * c0 + 0) \div N = c0
    BY <1>6, <2>1, Quotient, Zenon
  <2>3. 1 + 1 = 2
    OBVIOUS
  <2> QED
    BY <1>0, <1>7, <2>2, <2>3, Zenon DEF FbRegion
<1>9. FbRegion(2) = c1 /\ v \div G = c1
  <2>1. G \in Nat \ {0} /\ N \in 0 .. (G - 1) /\ N + k \in 0 .. (G - 1)
    BY <1>0, <1>3, Sizes3 DEF G
  <2>2. (G * c1 + N) \div G = c1 /\ (G * c1 + (N + k)) \div G = c1
    BY <1>6, <2>1, Quotient, Zenon
  <2>3. 2 + 1 = 3
    OBVIOUS
  <2> QED
    BY <1>0, <1>7, <2>2, <2>3, Zenon DEF FbRegion
<1>10. v \div N \in c0 .. (c0 + UpTo(fb, N) - 1)
  <2> DEFINE d == k \div N
             e == k % N
             u == UpTo(fb, N)
  <2>1. N \in Nat \ {0}
    BY <1>0
  <2>2. e \in 0 .. (N - 1) /\ d \in Nat /\ k = N * d + e
    BY <1>3, <2>1, Divided
  <2>3. u \in Nat /\ d \in 0 .. (u - 1)
    BY <1>3, <2>1, RegionsUpTo
  <2> HIDE DEF d, e, u
  <2>4. v = N * (c0 + d) + e /\ c0 + d \in Nat
    <3>1. N * (c0 + d) = N * c0 + N * d
      BY <1>0, <1>6, <2>2
    <3>2. N * c0 \in Int /\ N * d \in Int
      BY <1>0, <1>6, <2>2
    <3> QED
      BY <1>3, <1>6, <1>7, <2>2, <3>1, <3>2
  <2>5. (N * (c0 + d) + e) \div N = c0 + d
    BY <2>1, <2>2, <2>4, Quotient, Zenon
  <2>6. v \div N = c0 + d
    BY <2>4, <2>5
  <2> QED
    BY <1>6, <2>3, <2>6 DEF u
<1>11. v \div H = a /\ KERNEL_VMA \div H = a
  <2> DEFINE m == b * G + N + k
             n == (N - 2) * G
  <2>1. m \in 0 .. (H - 1) /\ n \in 0 .. (H - 1)
    <3>1. b * G = H - 3 * G /\ n = H - 2 * G
      BY <1>0
    <3> QED
      BY <1>0, <1>3, <1>5, <3>1
  <2>2. v = H * a + m /\ KERNEL_VMA = H * a + n
    <3>1. H * a = a * H
      BY <1>0
    <3> HIDE DEF n
    <3>2. n \in Int
      BY <2>1
    <3> QED
      BY <1>0, <1>1, <1>2, <1>3, <1>5, <3>1, <3>2 DEF n
  <2> HIDE DEF m, n
  <2>3. H \in Nat \ {0} /\ a \in Nat
    BY <1>0
  <2>4. (H * a + m) \div H = a /\ (H * a + n) \div H = a
    BY <2>1, <2>3, Quotient, Zenon
  <2> QED
    BY <2>2, <2>4
<1>12. Same(3, v, KERNEL_VMA)
  <2>1. 3 \in 1 .. 3 /\ 3 + 1 = 4
    OBVIOUS
  <2>2. v \div Reach[3 + 1] = KERNEL_VMA \div Reach[3 + 1]
    BY <1>0, <1>11, <2>1, Zenon
  <2> QED
    BY <1>4, <2>1, <2>2, SameRegion, Zenon
<1> QED
  BY <1>0, <1>3, <1>4, <1>6, <1>8, <1>9, <1>10, <1>12

(* The regions of memory and of the frame buffer that need a table.          *)
LevelRegions(l, first, n) == {l} \X (first .. (first + n - 1))

MemoryRegions(l) == LevelRegions(l, 0, UpTo(Cardinality(ram), Reach[l + 1]))
ScreenRegions ==
  IF fb \in 1 .. OneG
    THEN LevelRegions(1, FbRegion(1), UpTo(fb, N)) \cup LevelRegions(2, FbRegion(2), 1)
    ELSE {}

Regions == MemoryRegions(1) \cup MemoryRegions(2) \cup MemoryRegions(3) \cup ScreenRegions

(* A level's regions one behind the other are as many as their numbers,      *)
LEMMA RegionsOfLevel ==
  ASSUME NEW l, NEW a \in Int, NEW n \in Nat
  PROVE  IsFiniteSet(LevelRegions(l, a, n)) /\ Cardinality(LevelRegions(l, a, n)) = n
<1> DEFINE S == {l}
           T == a .. (a + n - 1)
<1>1. IsFiniteSet(S) /\ Cardinality(S) = 1
  BY FS_Singleton, Zenon
<1>2. IsFiniteSet(T) /\ Cardinality(T) = n
  <2>1. a + n - 1 \in Int
    OBVIOUS
  <2>2. IsFiniteSet(T) /\ Cardinality(T) = IF a > a + n - 1 THEN 0 ELSE (a + n - 1) - a + 1
    BY <2>1, FS_Interval
  <2> QED
    BY <2>2
<1> HIDE DEF S, T
<1>3. IsFiniteSet(S \X T) /\ Cardinality(S \X T) = Cardinality(S) * Cardinality(T)
  BY <1>1, <1>2, FS_Product, Zenon
<1>4. Cardinality(S \X T) = n
  BY <1>1, <1>2, <1>3
<1> QED
  BY <1>3, <1>4, Zenon DEF S, T, LevelRegions

(* and two sets together have no more than both.                             *)
LEMMA Together ==
  ASSUME NEW S, NEW T, NEW m \in Nat, NEW n \in Nat,
         IsFiniteSet(S), IsFiniteSet(T), Cardinality(S) <= m, Cardinality(T) <= n
  PROVE  IsFiniteSet(S \cup T) /\ Cardinality(S \cup T) <= m + n
<1>1. /\ IsFiniteSet(S \cup T)
      /\ Cardinality(S \cup T) = Cardinality(S) + Cardinality(T) - Cardinality(S \cap T)
  BY FS_Union, Zenon
<1>2. IsFiniteSet(S \cap T)
  BY FS_Intersection, Zenon
<1>3. Cardinality(S) \in Nat /\ Cardinality(T) \in Nat /\ Cardinality(S \cap T) \in Nat
  BY <1>2, FS_CardinalityType, Zenon
<1> QED
  BY <1>1, <1>3

(* So there are as many regions as RoomAssumption has tables for.            *)
LEMMA RegionsCounted ==
  ASSUME fb \in FbPages, Cardinality(ram) \in Nat
  PROVE  /\ IsFiniteSet(Regions) /\ Cardinality(Regions) <= LinearTables(Cardinality(ram)) + FbTables(fb)
         /\ LinearTables(Cardinality(ram)) \in Nat /\ FbTables(fb) \in Nat
<1> DEFINE n == Cardinality(ram)
           u1 == UpTo(n, N)
           u2 == UpTo(n, OneG)
           u3 == UpTo(n, Reach[4])
           uf == UpTo(fb, N)
<1>0. /\ N \in Nat \ {0} /\ OneG \in Nat \ {0} /\ Reach[4] \in Nat \ {0} /\ n \in Nat /\ fb \in Nat
      /\ Reach[1 + 1] = N /\ Reach[2 + 1] = OneG /\ Reach[3 + 1] = Reach[4] /\ LFB_VMA \in Nat
  <2>1. fb \in Nat
    BY LowPages
  <2> QED
    BY <2>1, Sizes3, Parts
<1>1. u1 \in Nat /\ u2 \in Nat /\ u3 \in Nat /\ uf \in Nat
  BY <1>0, RegionsUpTo, Zenon
<1>2. LinearTables(n) = u1 + u2 + u3
  BY DEF LinearTables
<1>3. /\ MemoryRegions(1) = LevelRegions(1, 0, u1) /\ MemoryRegions(2) = LevelRegions(2, 0, u2)
      /\ MemoryRegions(3) = LevelRegions(3, 0, u3)
  BY <1>0, Zenon DEF MemoryRegions
<1> HIDE DEF n, u1, u2, u3, uf
<1>4. /\ 0 \in Int
      /\ Cardinality(MemoryRegions(1)) = u1 => Cardinality(MemoryRegions(1)) <= u1
      /\ Cardinality(MemoryRegions(2)) = u2 => Cardinality(MemoryRegions(2)) <= u2
      /\ Cardinality(MemoryRegions(3)) = u3 => Cardinality(MemoryRegions(3)) <= u3
  BY <1>1
<1>5. /\ IsFiniteSet(MemoryRegions(1)) /\ Cardinality(MemoryRegions(1)) <= u1
      /\ IsFiniteSet(MemoryRegions(2)) /\ Cardinality(MemoryRegions(2)) <= u2
      /\ IsFiniteSet(MemoryRegions(3)) /\ Cardinality(MemoryRegions(3)) <= u3
  BY <1>1, <1>3, <1>4, RegionsOfLevel, ZenonT(40)
<1>6. /\ IsFiniteSet(ScreenRegions) /\ Cardinality(ScreenRegions) <= FbTables(fb)
      /\ FbTables(fb) \in Nat
  <2>1. CASE fb \in 1 .. OneG
    <3> DEFINE a == FbRegion(1)
               b == FbRegion(2)
               S == LevelRegions(1, a, uf)
               T == LevelRegions(2, b, 1)
    <3>1. a \in Int /\ b \in Int /\ 1 \in Nat
      <4>1. a = LFB_VMA \div N /\ b = LFB_VMA \div OneG
        BY <1>0 DEF FbRegion
      <4>2. LFB_VMA \div N \in Nat /\ LFB_VMA \div OneG \in Nat
        BY <1>0, Divided, Zenon
      <4> QED
        BY <4>1, <4>2
    <3>2. ScreenRegions = S \cup T /\ FbTables(fb) = 1 + uf
      BY <2>1 DEF ScreenRegions, FbTables, uf
    <3> HIDE DEF a, b
    <3>3. IsFiniteSet(S) /\ Cardinality(S) = uf
      BY <1>1, <3>1, RegionsOfLevel, Zenon
    <3>4. IsFiniteSet(T) /\ Cardinality(T) = 1
      BY <3>1, RegionsOfLevel, Zenon
    <3> HIDE DEF S, T
    <3>5. 1 \in Nat /\ Cardinality(S) <= uf /\ Cardinality(T) <= 1
      BY <1>1, <3>3, <3>4
    <3>6. IsFiniteSet(S \cup T) /\ Cardinality(S \cup T) <= uf + 1
      BY <1>1, <3>3, <3>4, <3>5, Together, Zenon
    <3> QED
      BY <1>1, <3>2, <3>6
  <2>2. CASE ~(fb \in 1 .. OneG)
    <3>1. ScreenRegions = {} /\ FbTables(fb) = 0
      BY <2>2 DEF ScreenRegions, FbTables
    <3> QED
      BY <3>1, FS_EmptySet
  <2> QED
    BY <2>1, <2>2
<1> DEFINE f == FbTables(fb)
           M12 == MemoryRegions(1) \cup MemoryRegions(2)
           M == M12 \cup MemoryRegions(3)
<1>7. f \in Nat /\ Cardinality(ScreenRegions) <= f
  BY <1>6
<1> HIDE DEF f
<1>8. IsFiniteSet(M12) /\ Cardinality(M12) <= u1 + u2
  BY <1>1, <1>5, Together, Zenon
<1>9. u1 + u2 \in Nat /\ u1 + u2 + u3 \in Nat
  BY <1>1
<1>10. IsFiniteSet(M) /\ Cardinality(M) <= u1 + u2 + u3
  <2> HIDE DEF M12
  <2> QED
    BY <1>1, <1>5, <1>8, <1>9, Together, Zenon
<1>11. IsFiniteSet(Regions) /\ Cardinality(Regions) <= u1 + u2 + u3 + f
  <2>1. Regions = M \cup ScreenRegions
    BY DEF Regions
  <2> HIDE DEF M
  <2> QED
    BY <1>6, <1>7, <1>9, <1>10, <2>1, Together, Zenon
<1> QED
  BY <1>2, <1>7, <1>9, <1>11 DEF n, f

(* Each address that is mapped has its regions among them.                   *)
LEMMA RegionWanted ==
  ASSUME fb \in FbPages, Cardinality(ram) \in Nat, Cardinality(ram) <= LinearEnd,
         NEW l \in 1 .. 3, NEW v, Wants(l, v)
  PROVE  v \in VAll /\ <<l, v \div Reach[l + 1]>> \in Regions
<1> DEFINE n == Cardinality(ram)
<1>0. /\ N \in Nat \ {0} /\ OneG \in Nat \ {0} /\ Reach[4] \in Nat \ {0}
      /\ Reach[2] = N /\ Reach[3] = OneG
      /\ LinearEnd \in Nat /\ KERNEL_VMA \in Nat /\ LinearEnd <= KERNEL_VMA
  BY Sizes3, LowPages
<1>1. CASE v \in MemoryPart
  <2>1. v \in 0 .. (n - 1)
    BY <1>1 DEF MemoryPart
  <2>2. v \in VAll
    <3>1. v \in Nat /\ v < KERNEL_VMA
      BY <1>0, <2>1
    <3> QED
      BY <3>1, Parts
  <2>3. Reach[l + 1] \in Nat \ {0}
    <3>1. l + 1 = 2 \/ l + 1 = 3 \/ l + 1 = 4
      OBVIOUS
    <3> QED
      BY <1>0, <3>1
  <2>4. v \div Reach[l + 1] \in 0 .. (UpTo(n, Reach[l + 1]) - 1)
    <3> HIDE DEF n
    <3>1. n \in Nat
      BY DEF n
    <3> QED
      BY <2>1, <2>3, <3>1, RegionsUpTo, Zenon
  <2>5. <<l, v \div Reach[l + 1]>> \in MemoryRegions(l)
    <3> DEFINE u == UpTo(n, Reach[l + 1])
    <3>1. v \div Reach[l + 1] \in 0 .. (0 + u - 1)
      <4>1. v \div Reach[l + 1] \in 0 .. (u - 1)
        BY <2>4
      <4>2. u \in Nat
        BY <1>0, <2>3, RegionsUpTo
      <4> HIDE DEF u
      <4> QED
        BY <4>1, <4>2
    <3> QED
      BY <3>1 DEF MemoryRegions, LevelRegions
  <2>6. l = 1 \/ l = 2 \/ l = 3
    OBVIOUS
  <2> QED
    BY <2>2, <2>5, <2>6 DEF Regions
<1>2. CASE l < 3 /\ v \in FbPart
  <2>1. /\ v \in VAll /\ fb \in 1 .. OneG
        /\ v \div Reach[2] \in FbRegion(1) .. (FbRegion(1) + UpTo(fb, N) - 1)
        /\ v \div Reach[3] = FbRegion(2) /\ FbRegion(2) \in Nat
    BY <1>2, FbRegions
  <2>2. CASE l = 1
    <3>1. <<1, v \div Reach[2]>> \in ScreenRegions
      BY <2>1 DEF ScreenRegions, LevelRegions
    <3> QED
      BY <2>1, <2>2, <3>1 DEF Regions
  <2>3. CASE l = 2
    <3>1. v \div Reach[3] \in FbRegion(2) .. (FbRegion(2) + 1 - 1)
      BY <2>1
    <3>2. <<2, v \div Reach[3]>> \in ScreenRegions
      BY <2>1, <3>1 DEF ScreenRegions, LevelRegions
    <3> QED
      BY <2>1, <2>3, <3>2 DEF Regions
  <2> QED
    BY <1>2, <2>2, <2>3
<1> QED
  BY <1>1, <1>2 DEF Wants

-----------------------------------------------------------------------------
(* Numbers with members of their own in a set are no more than the set has.  *)
LEMMA Injected ==
  ASSUME NEW n \in Nat, NEW S, IsFiniteSet(S), NEW f \in [0 .. (n - 1) -> S],
         \A v, w \in 0 .. (n - 1) : v < w => f[v] # f[w]
  PROVE  n <= Cardinality(S)
<1> DEFINE T == 0 .. (n - 1)
<1>1. f \in Injection(T, S)
  <2>1. ASSUME NEW v \in T, NEW w \in T, f[v] = f[w] PROVE v = w
    <3>1. v < w \/ w < v \/ v = w
      OBVIOUS
    <3> QED
      BY <2>1, <3>1
  <2> QED
    BY <2>1 DEF Injection, IsInjective
<1>2. Cardinality(T) = n
  <2>1. 0 \in Int /\ n - 1 \in Int
    OBVIOUS
  <2>2. Cardinality(T) = IF 0 > n - 1 THEN 0 ELSE (n - 1) - 0 + 1
    BY <2>1, FS_Interval
  <2> QED
    BY <2>2
<1>3. Cardinality(T) <= Cardinality(S)
  <2> HIDE DEF T
  <2> QED
    BY <1>1, FS_Injection
<1> QED
  BY <1>2, <1>3

(* The usable pages and the tables among them can be counted, and there are  *)
(* addresses enough for a linear space.                                      *)
LEMMA RamCounted ==
  ASSUME VInv
  PROVE  /\ IsFiniteSet(ram) /\ Cardinality(ram) \in Nat /\ Cardinality(ram) <= LinearEnd
         /\ allocated \subseteq ram
<1> DEFINE top == Space \div PAGE_SIZE
<1>1. ram \subseteq Page /\ allocated \subseteq ram
  BY DEF VInv, TablesInv, PInv, TypeOK, Accounted
<1>2. top \in Nat /\ Page = 0 .. (top - 1) /\ top <= LinearEnd /\ LinearEnd \in Nat
  BY PagingAssumption, PmemAssumption, LowPages DEF PagingAssumption, PmemAssumption, Page, LinearEnd
<1> HIDE DEF top
<1>3. IsFiniteSet(Page) /\ Cardinality(Page) <= top
  <2>1. 0 \in Int /\ top - 1 \in Int
    BY <1>2
  <2>2. IsFiniteSet(Page) /\ Cardinality(Page) = IF 0 > top - 1 THEN 0 ELSE (top - 1) - 0 + 1
    BY <1>2, <2>1, FS_Interval, Zenon
  <2> QED
    BY <1>2, <2>2
<1>4. IsFiniteSet(ram) /\ Cardinality(ram) <= Cardinality(Page)
  BY <1>1, <1>3, FS_Subset
<1>5. Cardinality(ram) \in Nat /\ Cardinality(Page) \in Nat
  BY <1>3, <1>4, FS_CardinalityType
<1> QED
  BY <1>1, <1>2, <1>3, <1>4, <1>5

(* paging_map_page works on an address of one of the two parts.              *)
LEMMA AddressWanted ==
  ASSUME VInv, level > 0
  PROVE  /\ phase \in {"lfb", "ram"} /\ virt \in VAll
         /\ phase = "lfb" => virt \in FbPart
         /\ phase = "ram" => virt \in MemoryPart
<1>1. /\ phase \in {"lfb", "ram"} /\ virt \in VAll /\ virt \in Nat
      /\ phase = "lfb" => InLfb
      /\ phase = "ram" => InRam
      /\ LinearOK /\ fb \in Nat /\ LFB_VMA \in Nat /\ phys \in Nat
  BY LowPages DEF VInv, TablesInv, LoopsInv, Walk, MayMap, VPage, VAll
<1>2. CASE phase = "lfb"
  <2>1. fb <= OneG /\ virt < LFB_VMA + fb /\ LFB_VMA <= virt
    BY <1>1, <1>2 DEF InLfb
  <2>2. virt - LFB_VMA \in 0 .. (fb - 1) /\ virt = LFB_VMA + (virt - LFB_VMA)
    BY <1>1, <2>1
  <2> QED
    BY <1>1, <1>2, <2>1, <2>2 DEF FbPart
<1>3. CASE phase = "ram"
  <2> DEFINE n == linear_limit
             f == [v \in 0 .. ((n + 1) - 1) |-> IF v = n THEN phys ELSE FrameOf(mem, v)]
  <2>1. /\ virt = n /\ phys \in ram /\ n \in Nat /\ n + 1 \in Nat
        /\ \A v \in 0 .. (n - 1) : FrameOf(mem, v) \in ram /\ FrameOf(mem, v) + (n - v) <= phys
        /\ \A v, w \in 0 .. (n - 1) : v < w => FrameOf(mem, v) + (w - v) <= FrameOf(mem, w)
    BY <1>1, <1>3 DEF InRam, LinearOK, Linear
  <2>2. IsFiniteSet(ram) /\ Cardinality(ram) \in Nat /\ ram \subseteq Int
    <3>1. ram \subseteq Page
      BY DEF VInv, TablesInv, PInv, TypeOK
    <3> QED
      BY <3>1, RamCounted, Window
  <2>3. \A v \in 0 .. ((n + 1) - 1) : v = n \/ v \in 0 .. (n - 1)
    BY <2>1
  <2>4. f \in [0 .. ((n + 1) - 1) -> ram]
    BY <2>1, <2>3
  <2>5. ASSUME NEW v \in 0 .. ((n + 1) - 1), NEW w \in 0 .. ((n + 1) - 1), v < w PROVE f[v] # f[w]
    <3>1. v \in 0 .. (n - 1) /\ FrameOf(mem, v) \in Int /\ FrameOf(mem, v) \in ram /\ v \in Int /\ w \in Int
      <4>1. v \in 0 .. (n - 1) /\ v \in Int /\ w \in Int
        <5> HIDE DEF f
        <5> QED
          BY <2>1, <2>5
      <4> QED
        BY <2>1, <2>2, <4>1
    <3>2. f[v] = FrameOf(mem, v)
      BY <2>1, <3>1
    <3>3. CASE w = n
      <4>1. f[w] = phys /\ FrameOf(mem, v) + (n - v) <= phys
        BY <2>1, <3>1, <3>3
      <4> HIDE DEF f
      <4> QED
        BY <1>1, <2>1, <2>5, <3>1, <3>2, <3>3, <4>1
    <3>4. CASE w # n
      <4>1. w \in 0 .. (n - 1)
        BY <2>1, <3>4
      <4>2. f[w] = FrameOf(mem, w) /\ FrameOf(mem, v) + (w - v) <= FrameOf(mem, w) /\ FrameOf(mem, w) \in Int
        BY <2>1, <2>2, <2>5, <3>1, <3>4, <4>1
      <4> HIDE DEF f
      <4> QED
        BY <2>5, <3>1, <3>2, <4>2
    <3> QED
      BY <3>3, <3>4
  <2>6. n + 1 <= Cardinality(ram)
    <3> HIDE DEF f, n
    <3>1. \A v, w \in 0 .. ((n + 1) - 1) : v < w => f[v] # f[w]
      BY <2>5, Zenon
    <3> QED
      BY <2>1, <2>2, <2>4, <3>1, Injected, Zenon
  <2> QED
    BY <1>1, <1>3, <2>1, <2>2, <2>6 DEF MemoryPart
<1> QED
  BY <1>1, <1>2, <1>3

(* pmem_alloc_page takes the highest page there is. *)
LEMMA TopTaken ==
  ASSUME PInv, Alloc
  PROVE  \E q \in ram \ allocated :
           /\ allocated' = allocated \cup {q} /\ Free' = Free \ {q}
           /\ \A p \in Free' : p < q
<1>1. PICK q \in Page \ {0} : q \in Free /\ Free' = Free \ {q} /\ allocated' = allocated \cup {q}
  BY AllocKeeps DEF Handed
<1>2. /\ pc = "alloc" /\ Free = ram \ allocated /\ pmem_current_block \in Indices
      /\ \A k \in Indices : k > pmem_current_block => ~HasRoom(BlockAt(k))
  BY DEF PInv, Accounted, Used, Alloc
<1>3. PICK k \in 0 .. pmem_current_block :
        /\ HasRoom(BlockAt(k))
        /\ \A m \in (k + 1) .. pmem_current_block : ~HasRoom(BlockAt(m))
        /\ pmem_block_map' = [pmem_block_map EXCEPT ![k + 1].limit = @ - PAGE_SIZE]
        /\ allocated' = allocated \cup {pmem_block_map'[k + 1].limit \div PAGE_SIZE}
  BY DEF Alloc
<1>4. /\ pmem_blocks_count \in Nat /\ Indices = 0 .. (pmem_blocks_count - 1)
      /\ \A j \in Indices :
           /\ Whole(BlockAt(j)) /\ Pages(BlockAt(j)) = First(BlockAt(j)) .. (End(BlockAt(j)) - 1)
           /\ First(BlockAt(j)) \in Nat /\ End(BlockAt(j)) \in Nat
           /\ First(BlockAt(j)) <= End(BlockAt(j))
      /\ \A j, m \in Indices : j < m => End(BlockAt(j)) <= First(BlockAt(m))
      /\ Free = UNION {Pages(BlockAt(j)) : j \in Indices}
  BY <1>2, BlocksOf
<1>5. k \in Indices /\ \A j \in Indices : j > k => ~HasRoom(BlockAt(j))
  BY <1>2, <1>3, <1>4
<1> DEFINE b == BlockAt(k)
           t == End(b) - 1
<1>6. First(b) <= t /\ t \in Nat /\ Whole(b)
  <2>1. Whole(b)
    BY <1>4, <1>5
  <2>2. First(b) < End(b) /\ First(b) \in Nat /\ End(b) \in Nat
    BY <1>3, <2>1, WholeOrder
  <2> HIDE DEF b
  <2> QED
    BY <2>1, <2>2
<1>7. allocated' = allocated \cup {t}
  <2> DEFINE f == End(b) - 1
  <2>1. pmem_block_map'[k + 1].limit = b.limit - PAGE_SIZE
    <3>1. k + 1 \in DOMAIN pmem_block_map
      <4>1. DOMAIN pmem_block_map = 1 .. pmem_blocks_count
        BY BlockTable DEF PInv
      <4> QED
        BY <1>4, <1>5, <4>1
    <3>2. b = pmem_block_map[k + 1]
      BY DEF BlockAt
    <3>3. b \in Block(0 .. Space)
      BY <1>6 DEF Whole
    <3> HIDE DEF b
    <3> QED
      BY <1>3, <3>1, <3>2, <3>3 DEF Block
  <2>2. b.limit = End(b) * PAGE_SIZE
    BY <1>6 DEF Whole
  <2>3. t * PAGE_SIZE = End(b) * PAGE_SIZE - PAGE_SIZE
    <3>1. End(b) \in Int
      BY <1>4, <1>5
    <3> HIDE DEF b
    <3> QED
      BY <3>1, TimesPage
  <2>4. (t * PAGE_SIZE) \div PAGE_SIZE = t
    <3> HIDE DEF t, b
    <3> QED
      BY <1>6, WholeAddress, Zenon
  <2> HIDE DEF t, b
  <2> QED
    BY <1>3, <2>1, <2>2, <2>3, <2>4
<1>8. \A p \in Free : p <= t
  <2> SUFFICES ASSUME NEW j \in Indices, NEW p \in Pages(BlockAt(j)) PROVE p <= t
    BY <1>4
  <2>1. p \in First(BlockAt(j)) .. (End(BlockAt(j)) - 1) /\ First(BlockAt(j)) \in Nat /\ End(BlockAt(j)) \in Nat
    BY <1>4
  <2>2. ~(j > k)
    <3> SUFFICES ASSUME j > k PROVE FALSE
      OBVIOUS
    <3>1. ~HasRoom(BlockAt(j)) /\ Whole(BlockAt(j))
      BY <1>4, <1>5
    <3>2. ~(First(BlockAt(j)) < End(BlockAt(j)))
      BY <3>1, WholeOrder
    <3> QED
      BY <2>1, <3>2
  <2>3. CASE j = k
    BY <2>1, <2>3
  <2>4. CASE j < k
    <3>1. End(BlockAt(j)) <= First(b)
      BY <1>4, <1>5, <2>4
    <3>2. First(b) \in Nat
      BY <1>4, <1>5
    <3> HIDE DEF t, b
    <3> QED
      BY <1>6, <2>1, <3>1, <3>2
  <2> QED
    BY <1>4, <1>5, <2>2, <2>3, <2>4
<1> HIDE DEF b, t
<1>9. q = t
  BY <1>1, <1>2, <1>7
<1>10. \A p \in Free : p \in Int
  <2>1. Free \subseteq Page
    BY <1>2 DEF PInv, TypeOK
  <2> QED
    BY <2>1, Window
<1>11. \A p \in Free' : p < q
  BY <1>1, <1>6, <1>8, <1>9, <1>10
<1> QED
  BY <1>1, <1>2, <1>11

-----------------------------------------------------------------------------
(* Where the tables are.  They are taken from the top; each of them is the   *)
(* table of a region that is mapped, and no two are of one region; the frame *)
(* buffer's directory pointers are the kernel's; and no table is in the      *)
(* kernel's image, as there are more pages above it than regions.            *)
Roomy == \E m \in Layouts : ram = RamOf(m)

TakenFromTop == \A q \in allocated, p \in Free : p < q

Placed ==
  \A q \in allocated : \E l \in 1 .. 3, v \in VAll : Wants(l, v) /\ Node(mem, l, v) = q

Rooted == phase # "kernel" => Node(mem, 3, KERNEL_VMA) = kernel_pdpt0

RoomInv == Roomy /\ TakenFromTop /\ Placed /\ Rooted /\ ImageKept

(* A table that is missing is that of a region that has none.                *)
LEMMA RegionNew ==
  ASSUME VInv, RoomInv, level > 1, Current = Absent
  PROVE  /\ level - 1 \in 1 .. 3 /\ virt \in VAll /\ Wants(level - 1, virt)
         /\ Node(mem, level - 1, virt) = Absent
<1>1. /\ level \in 2 .. 4 /\ level > 0 /\ Current = Absent /\ Table = Node(mem, level, virt) /\ Table # Absent
  BY DEF VInv, TablesInv, Walk
<1>2. /\ phase \in {"lfb", "ram"} /\ virt \in VAll
      /\ phase = "lfb" => virt \in FbPart
      /\ phase = "ram" => virt \in MemoryPart
  BY <1>1, AddressWanted
<1>3. Node(mem, level - 1, virt) = Absent
  BY <1>1, CurrentNode
<1>4. phase = "lfb" => level # 4
  <2> SUFFICES ASSUME virt \in FbPart, level = 4 PROVE FALSE
    BY <1>2
  <2>1. Same(3, virt, KERNEL_VMA)
    BY FbRegions DEF VInv, LoopsInv
  <2>2. 3 \in 0 .. 4 /\ level - 1 = 3
    OBVIOUS
  <2>3. Node(mem, 3, virt) = Node(mem, 3, KERNEL_VMA)
    BY <2>1, <2>2, SameNode
  <2>4. Node(mem, 3, KERNEL_VMA) = kernel_pdpt0 /\ kernel_pdpt0 # Absent
    <3>1. Absent \notin KernelImage
      BY Window, PagingAssumption DEF PagingAssumption
    <3> QED
      BY <1>2, <3>1, KernelEntries DEF RoomInv, Rooted
  <2> QED
    BY <1>3, <2>2, <2>3, <2>4
<1>5. Wants(level - 1, virt)
  BY <1>1, <1>2, <1>4 DEF Wants
<1> QED
  BY <1>1, <1>2, <1>3, <1>5

(* So the tables are never more than the regions, nor with one more.         *)
LEMMA TablesCounted ==
  ASSUME VInv, RoomInv, level > 1, Current = Absent, NEW q, q \notin allocated
  PROVE  /\ IsFiniteSet(allocated \cup {q})
         /\ Cardinality(allocated \cup {q}) <= LinearTables(Cardinality(ram)) + FbTables(fb)
<1> DEFINE Holds(p, r) == \E l \in 1 .. 3, v \in VAll :
                            Wants(l, v) /\ Node(mem, l, v) = p /\ r = <<l, v \div Reach[l + 1]>>
           new == <<level - 1, virt \div Reach[(level - 1) + 1]>>
           T == allocated \cup {q}
           f == [p \in T |-> IF p = q THEN new ELSE CHOOSE r : r \in Regions /\ Holds(p, r)]
<1>1. /\ level - 1 \in 1 .. 3 /\ virt \in VAll /\ Wants(level - 1, virt)
      /\ Node(mem, level - 1, virt) = Absent
  BY RegionNew
<1>2. fb \in FbPages /\ Cardinality(ram) \in Nat /\ Cardinality(ram) <= LinearEnd
  BY RamCounted DEF VInv, LoopsInv
<1>3. \A l \in 1 .. 3 : \A v : Wants(l, v) => <<l, v \div Reach[l + 1]>> \in Regions
  BY <1>2, RegionWanted, Zenon
<1>4. new \in Regions
  BY <1>1, <1>3, Zenon
<1>5. Absent \notin allocated
  BY Window DEF VInv, TablesInv, PInv, TypeOK
<1>6. ASSUME NEW p \in allocated PROVE \E r \in Regions : Holds(p, r)
  <2>1. PICK l \in 1 .. 3, v \in VAll : Wants(l, v) /\ Node(mem, l, v) = p
    BY DEF RoomInv, Placed
  <2>2. <<l, v \div Reach[l + 1]>> \in Regions
    BY <1>3, <2>1, Zenon
  <2> QED
    BY <2>1, <2>2, Zenon
<1>7. ASSUME NEW l \in 1 .. 3, NEW v \in VAll, NEW k \in 1 .. 3, NEW w \in VAll,
             <<l, v \div Reach[l + 1]>> = <<k, w \div Reach[k + 1]>>
      PROVE  Node(mem, l, v) = Node(mem, k, w)
  <2>1. l = k /\ v \div Reach[l + 1] = w \div Reach[l + 1]
    BY <1>7
  <2>2. Same(l, v, w) /\ l \in 0 .. 4
    BY <2>1, SameRegion
  <2>3. Node(mem, l, v) = Node(mem, l, w)
    BY <2>2, SameNode
  <2> QED
    BY <2>1, <2>3
<1>8. ASSUME NEW p, NEW o, NEW r, Holds(p, r), Holds(o, r) PROVE p = o
  <2>1. PICK l \in 1 .. 3, v \in VAll : Node(mem, l, v) = p /\ r = <<l, v \div Reach[l + 1]>>
    BY <1>8, Zenon
  <2>2. PICK k \in 1 .. 3, w \in VAll : Node(mem, k, w) = o /\ r = <<k, w \div Reach[k + 1]>>
    BY <1>8, Zenon
  <2>3. <<l, v \div Reach[l + 1]>> = <<k, w \div Reach[k + 1]>>
    BY <2>1, <2>2, Zenon
  <2>4. Node(mem, l, v) = Node(mem, k, w)
    BY <1>7, <2>3, Zenon
  <2> QED
    BY <2>1, <2>2, <2>4, Zenon
<1>9. ASSUME NEW p \in allocated, Holds(p, new) PROVE FALSE
  <2>1. PICK l \in 1 .. 3, v \in VAll : Node(mem, l, v) = p /\ new = <<l, v \div Reach[l + 1]>>
    BY <1>9, Zenon
  <2>2. Node(mem, level - 1, virt) = Node(mem, l, v)
    BY <1>1, <1>7, <2>1, Zenon
  <2> QED
    BY <1>1, <1>5, <2>1, <2>2
<1> HIDE DEF Holds, new
<1>10. ASSUME NEW p \in allocated PROVE f[p] \in Regions /\ Holds(p, f[p])
  <2>1. f[p] = CHOOSE r : r \in Regions /\ Holds(p, r)
    OBVIOUS
  <2>2. \E r : r \in Regions /\ Holds(p, r)
    BY <1>6
  <2> HIDE DEF f
  <2> QED
    BY <2>1, <2>2, Zenon
<1>11. f[q] = new /\ f = [p \in T |-> f[p]]
  OBVIOUS
<1> HIDE DEF f
<1>12. f \in Injection(T, Regions)
  <2>1. f \in [T -> Regions]
    <3>1. \A p \in T : f[p] \in Regions
      BY <1>4, <1>10, <1>11
    <3> HIDE DEF T
    <3> QED
      BY <1>11, <3>1
  <2>2. ASSUME NEW p \in T, NEW o \in T, f[p] = f[o] PROVE p = o
    <3>1. CASE p \in allocated /\ o \in allocated
      BY <1>8, <1>10, <2>2, <3>1, Zenon
    <3>2. CASE p \in allocated /\ o = q
      BY <1>9, <1>10, <1>11, <2>2, <3>2
    <3>3. CASE p = q /\ o \in allocated
      BY <1>9, <1>10, <1>11, <2>2, <3>3
    <3> QED
      BY <3>1, <3>2, <3>3
  <2> QED
    BY <2>1, <2>2 DEF Injection, IsInjective
<1>13. /\ IsFiniteSet(Regions) /\ Cardinality(Regions) <= LinearTables(Cardinality(ram)) + FbTables(fb)
       /\ LinearTables(Cardinality(ram)) \in Nat /\ FbTables(fb) \in Nat
  BY <1>2, RegionsCounted
<1> HIDE DEF T
<1>14. IsFiniteSet(T) /\ Cardinality(T) <= Cardinality(Regions)
  BY <1>12, <1>13, FS_Injection
<1>15. Cardinality(T) \in Nat /\ Cardinality(Regions) \in Nat
  BY <1>13, <1>14, FS_CardinalityType
<1> DEFINE n == LinearTables(Cardinality(ram))
           m == FbTables(fb)
<1>16. n \in Nat /\ m \in Nat /\ Cardinality(Regions) <= n + m
  BY <1>13
<1> HIDE DEF n, m
<1>17. Cardinality(T) <= n + m
  BY <1>14, <1>15, <1>16
<1> QED
  BY <1>14, <1>17 DEF T, n, m

(* The new table is not in the kernel's image: all pages above it would be   *)
(* tables, and they are more than tables and this one.                       *)
LEMMA ImageSpared ==
  ASSUME VInv, RoomInv, CreateTable
  PROVE  ImageKept'
<1>1. PICK q \in ram \ allocated :
        allocated' = allocated \cup {q} /\ Free' = Free \ {q} /\ \A p \in Free' : p < q
  BY TopTaken DEF VInv, TablesInv, CreateTable
<1> SUFFICES ASSUME q \in KernelImage PROVE FALSE
  BY <1>1 DEF RoomInv, ImageKept
<1> DEFINE A == ram \cap AboveImage
           T == allocated \cup {q}
<1>2. /\ IsFiniteSet(ram) /\ Cardinality(ram) \in Nat /\ allocated \subseteq ram
      /\ Free = ram \ allocated /\ fb \in FbPages /\ ram \subseteq Int /\ q \in Int
  BY RamCounted, Window DEF VInv, TablesInv, LoopsInv, PInv, Accounted, TypeOK
<1>3. \A p \in A : p \in Int /\ p > q
  <2>1. N \in Nat /\ KernelImage = N .. (N + 2 + N) /\ KERNEL_LMA + 2 + N = N + 2 + N
    BY KernelEntries DEF KERNEL_LMA
  <2>2. q <= N + 2 + N /\ \A p \in A : p \in Int /\ p > N + 2 + N
    BY <1>2, <2>1 DEF AboveImage
  <2> QED
    BY <1>2, <2>1, <2>2
<1>4. A \subseteq allocated
  <2> SUFFICES ASSUME NEW p \in A, p \notin allocated PROVE FALSE
    OBVIOUS
  <2>1. p > q /\ p \in Int /\ p \in ram
    BY <1>3
  <2>2. p \in Free'
    BY <1>1, <1>2, <2>1
  <2> QED
    BY <1>1, <1>2, <2>1, <2>2
<1>5. q \notin A
  BY <1>2, <1>3
<1>6. IsFiniteSet(A) /\ IsFiniteSet(A \cup {q}) /\ Cardinality(A \cup {q}) = Cardinality(A) + 1
  <2>1. IsFiniteSet(A)
    BY <1>2, FS_Intersection
  <2> HIDE DEF A
  <2> QED
    BY <1>5, <2>1, FS_AddElement
<1>7. /\ IsFiniteSet(T)
      /\ Cardinality(T) <= LinearTables(Cardinality(ram)) + FbTables(fb)
  BY <1>1, TablesCounted DEF CreateTable
<1>8. Cardinality(A \cup {q}) <= Cardinality(T)
  <2>1. A \cup {q} \in SUBSET T
    BY <1>4
  <2> HIDE DEF A, T
  <2> QED
    BY <1>7, <2>1, FS_Subset
<1>9. LinearTables(Cardinality(ram)) + FbTables(fb) <= Cardinality(A)
  BY <1>2, RoomAssumption DEF RoomInv, Roomy
<1>10. /\ Cardinality(T) \in Nat /\ Cardinality(A) \in Nat
       /\ LinearTables(Cardinality(ram)) \in Nat /\ FbTables(fb) \in Nat
  BY <1>2, <1>6, <1>7, FS_CardinalityType, RegionsCounted
<1> QED
  BY <1>6, <1>7, <1>8, <1>9, <1>10

(* Creating a table keeps it all. *)
LEMMA CreateRoom ==
  ASSUME VInv, RoomInv, CreateTable
  PROVE  RoomInv'
<1>1. ImageKept'
  BY ImageSpared
<1>2. /\ phase # "kernel" /\ StillThere(mem, mem') /\ UNCHANGED <<phase, level, virt, fb, ram>>
  BY <1>1, CreateEffect DEF VInv, CreateTable, Alloc
<1>3. PICK q : allocated' = allocated \cup {q} /\ Node(mem', level - 1, virt) = q
  BY <1>1, CreateEffect DEF VInv
<1>4. Roomy' /\ \A l, v : Wants(l, v)' <=> Wants(l, v)
  BY <1>2 DEF RoomInv, Roomy, Wants, MemoryPart, FbPart
<1>5. Rooted'
  <2>1. 3 \in 1 .. 4 /\ KERNEL_VMA \in VAll /\ kernel_pdpt0 # Absent
    <3>1. Absent \notin KernelImage
      BY Window, PagingAssumption DEF PagingAssumption
    <3> QED
      BY <3>1, KernelEntries, Parts
  <2> QED
    BY <1>2, <2>1 DEF RoomInv, Rooted, StillThere
<1>6. Placed'
  <2> SUFFICES ASSUME NEW p \in allocated'
               PROVE  \E l \in 1 .. 3, v \in VAll : Wants(l, v) /\ Node(mem', l, v) = p
    BY <1>4 DEF Placed
  <2>1. CASE p \in allocated
    <3>1. PICK l \in 1 .. 3, v \in VAll : Wants(l, v) /\ Node(mem, l, v) = p
      BY <2>1 DEF RoomInv, Placed
    <3>2. p # Absent /\ l \in 1 .. 4
      BY <2>1, Window DEF VInv, TablesInv, PInv, TypeOK
    <3> QED
      BY <1>2, <3>1, <3>2 DEF StillThere
  <2>2. CASE p = q
    BY <1>3, <2>2, RegionNew DEF CreateTable
  <2> QED
    BY <1>3, <2>1, <2>2
<1>7. TakenFromTop'
  <2>1. PICK r \in ram \ allocated :
          allocated' = allocated \cup {r} /\ Free' = Free \ {r} /\ \A p \in Free' : p < r
    BY TopTaken DEF VInv, TablesInv, CreateTable
  <2> QED
    BY <2>1 DEF RoomInv, TakenFromTop
<1> QED
  BY <1>1, <1>4, <1>5, <1>6, <1>7 DEF RoomInv

(* The other steps take no page, and leave the tables where they are.        *)
LEMMA RoomAlone ==
  ASSUME VInv, RoomInv, UNCHANGED <<vars, fb>>, phase # "kernel", StillThere(mem, mem')
  PROVE  RoomInv'
<1>1. UNCHANGED <<ram, allocated, fb>> /\ Free' = Free
  BY DEF vars, Free, Pages, PagesWithin
<1>2. Roomy' /\ TakenFromTop' /\ ImageKept' /\ \A l, v : Wants(l, v)' <=> Wants(l, v)
  BY <1>1 DEF RoomInv, Roomy, TakenFromTop, ImageKept, Wants, MemoryPart, FbPart
<1>3. Rooted'
  <2>1. 3 \in 1 .. 4 /\ KERNEL_VMA \in VAll /\ kernel_pdpt0 # Absent
    <3>1. Absent \notin KernelImage
      BY Window, PagingAssumption DEF PagingAssumption
    <3> QED
      BY <3>1, KernelEntries, Parts
  <2> QED
    BY <2>1 DEF RoomInv, Rooted, StillThere
<1>4. Placed'
  <2> SUFFICES ASSUME NEW p \in allocated
               PROVE  \E l \in 1 .. 3, v \in VAll : Wants(l, v) /\ Node(mem', l, v) = p
    BY <1>1, <1>2 DEF Placed
  <2>1. PICK l \in 1 .. 3, v \in VAll : Wants(l, v) /\ Node(mem, l, v) = p
    BY DEF RoomInv, Placed
  <2>2. p # Absent /\ l \in 1 .. 4
    BY Window DEF VInv, TablesInv, PInv, TypeOK
  <2> QED
    BY <2>1, <2>2 DEF StillThere
<1> QED
  BY <1>2, <1>3, <1>4 DEF RoomInv

(* paging_remap_kernel puts the directory pointers in the kernel's image.    *)
LEMMA RemapRoom ==
  ASSUME VInv, RoomInv, RemapKernel
  PROVE  RoomInv'
<1>1. /\ phase = "kernel" /\ allocated = {} /\ allocated' = {} /\ ram' = ram /\ mem' = KernelMem(mem)
  BY DEF VInv, TablesInv, RemapKernel, KernelMem, vars
<1>2. Roomy' /\ TakenFromTop' /\ ImageKept' /\ Placed'
  BY <1>1 DEF RoomInv, Roomy, TakenFromTop, ImageKept, Placed
<1>3. Node(mem', 3, KERNEL_VMA) = kernel_pdpt0
  <2>1. KERNEL_VMA \in VAll /\ Index(4, KERNEL_VMA) = N - 1
    BY Parts DEF InKernel
  <2> QED
    BY <1>1, <2>1, KernelWalk
<1> QED
  BY <1>2, <1>3 DEF RoomInv, Rooted

(* paging_init starts that way,                                              *)
LEMMA InitRoom == PagingInit => RoomInv
<1> SUFFICES ASSUME PagingInit PROVE RoomInv
  OBVIOUS
<1>1. /\ allocated = {} /\ phase = "kernel" /\ pmem_block_map \in Layouts
      /\ ram = UNION {PagesWithin(BlockAt(k).base, BlockAt(k).limit) : k \in Indices}
  BY DEF PagingInit
<1>2. TakenFromTop /\ Placed /\ Rooted /\ ImageKept
  BY <1>1 DEF TakenFromTop, Placed, Rooted, ImageKept
<1>3. ram = RamOf(pmem_block_map)
  <2>0. Len(pmem_block_map) \in Nat
    BY <1>1, LayoutBlocks
  <2>1. ASSUME NEW k \in Indices PROVE k + 1 \in 1 .. Len(pmem_block_map) /\ BlockAt(k) = pmem_block_map[k + 1]
    BY <2>0 DEF Indices, BlockAt, pmem_blocks_count
  <2>2. ASSUME NEW k \in 1 .. Len(pmem_block_map) PROVE k - 1 \in Indices /\ BlockAt(k - 1) = pmem_block_map[k]
    BY <2>0 DEF Indices, BlockAt, pmem_blocks_count
  <2>3. ASSUME NEW x PROVE x \in ram <=> x \in RamOf(pmem_block_map)
    <3>1. x \in ram <=> \E k \in Indices : x \in PagesWithin(BlockAt(k).base, BlockAt(k).limit)
      BY <1>1
    <3>2. x \in RamOf(pmem_block_map) <=>
            \E k \in 1 .. Len(pmem_block_map) : x \in PagesWithin(pmem_block_map[k].base, pmem_block_map[k].limit)
      BY DEF RamOf
    <3> QED
      BY <2>1, <2>2, <3>1, <3>2
  <2> QED
    BY <2>3
<1> QED
  BY <1>1, <1>2, <1>3 DEF RoomInv, Roomy

(* and every step keeps it, and with it the other invariant.                 *)
LEMMA StepRoom == VInv /\ RoomInv /\ [PagingNext]_<<vars, pagingVars>> => VInv' /\ RoomInv'
<1> SUFFICES ASSUME VInv, RoomInv, [PagingNext]_<<vars, pagingVars>> PROVE VInv' /\ RoomInv'
  OBVIOUS
<1>1. ASSUME UNCHANGED mem PROVE StillThere(mem, mem')
  BY <1>1 DEF StillThere
<1>2. RoomInv'
  <2>1. CASE RemapKernel
    BY <2>1, RemapRoom
  <2>2. CASE LfbPage
    BY <1>1, <2>2, RoomAlone DEF LfbPage
  <2>3. CASE LfbDone
    BY <1>1, <2>3, RoomAlone DEF LfbDone
  <2>4. CASE RamPage
    BY <1>1, <2>4, RoomAlone DEF RamPage
  <2>5. CASE RamBlockDone
    BY <1>1, <2>5, RoomAlone DEF RamBlockDone
  <2>6. CASE CreateTable
    BY <2>6, CreateRoom
  <2>7. CASE Descend
    <3>1. phase # "kernel" /\ StillThere(mem, mem') /\ UNCHANGED <<vars, fb>>
      BY <2>7, DescendEffect DEF VInv, Descend
    <3> QED
      BY <3>1, RoomAlone
  <2>8. CASE StorePage
    <3>1. phase # "kernel" /\ UNCHANGED <<vars, fb>>
      BY <2>8 DEF VInv, TablesInv, StorePage
    <3>2. StillThere(mem, mem')
      <4>1. phase \in {"lfb", "ram"}
        BY <2>8 DEF VInv, TablesInv, StorePage
      <4> QED
        BY <2>8, <4>1, StoreLfbKeeps, StoreRamKeeps
    <3> QED
      BY <3>1, <3>2, RoomAlone
  <2>9. CASE UNCHANGED <<vars, pagingVars>>
    <3>1. UNCHANGED <<vars, mem, phase, fb>>
      BY <2>9 DEF pagingVars
    <3>2. CASE phase = "kernel"
      <4>1. /\ allocated' = {} /\ ram' = ram /\ phase' = "kernel"
        BY <3>1, <3>2 DEF VInv, TablesInv, vars
      <4> QED
        BY <4>1 DEF RoomInv, Roomy, TakenFromTop, ImageKept, Placed, Rooted
    <3>3. CASE phase # "kernel"
      BY <1>1, <3>1, <3>3, RoomAlone
    <3> QED
      BY <3>2, <3>3
  <2> QED
    BY <2>1, <2>2, <2>3, <2>4, <2>5, <2>6, <2>7, <2>8, <2>9 DEF PagingNext, Finished
<1>3. ImageKept'
  BY <1>2 DEF RoomInv
<1> QED
  BY <1>2, <1>3, StepVInv

(* So both hold in every state of paging_init. *)
LEMMA AlwaysRoom == PagingSpec => [](VInv /\ RoomInv)
<1>1. PagingInit => VInv
  BY InitVInv
<1> QED
  BY <1>1, InitRoom, StepRoom, PTL DEF PagingSpec

(* On every machine with memory enough above the kernel's image for the      *)
(* tables of what it maps, no table is ever put into that image.             *)
THEOREM ImageStays == PagingSpec => []ImageKept
<1>1. RoomInv => ImageKept
  BY DEF RoomInv
<1> QED
  BY <1>1, AlwaysRoom, PTL

(* A table that paging_map_page asks for is there to be had: pmem_alloc_page *)
(* does not run out of blocks in paging_init.                                *)
TableAtHand == level > 1 /\ Current = Absent => \E k \in 0 .. pmem_current_block : HasRoom(BlockAt(k))

(* On these machines that is so in every state.                              *)
THEOREM TablesFound == PagingSpec => []TableAtHand
<1>1. VInv /\ RoomInv => TableAtHand
  <2> SUFFICES ASSUME VInv, RoomInv, level > 1, Current = Absent
               PROVE  \E k \in 0 .. pmem_current_block : HasRoom(BlockAt(k))
    BY DEF TableAtHand
  <2> DEFINE T == allocated \cup {Absent}
             A == ram \cap AboveImage
  <2>1. /\ IsFiniteSet(ram) /\ Cardinality(ram) \in Nat /\ allocated \subseteq ram
        /\ Free = ram \ allocated /\ fb \in FbPages /\ Absent \notin ram
    BY RamCounted, Window DEF VInv, TablesInv, LoopsInv, PInv, Accounted, TypeOK
  <2>2. /\ IsFiniteSet(T)
        /\ Cardinality(T) <= LinearTables(Cardinality(ram)) + FbTables(fb)
    BY <2>1, TablesCounted
  <2>3. IsFiniteSet(allocated) /\ Cardinality(T) = Cardinality(allocated) + 1
    <3>1. IsFiniteSet(allocated)
      BY <2>1, FS_Subset
    <3> QED
      BY <2>1, <3>1, FS_AddElement
  <2>4. LinearTables(Cardinality(ram)) + FbTables(fb) <= Cardinality(A)
    BY <2>1, RoomAssumption DEF RoomInv, Roomy
  <2>5. IsFiniteSet(A) /\ Cardinality(A) <= Cardinality(ram)
    BY <2>1, FS_Intersection
  <2>6. /\ Cardinality(T) \in Nat /\ Cardinality(A) \in Nat /\ Cardinality(allocated) \in Nat
        /\ LinearTables(Cardinality(ram)) \in Nat /\ FbTables(fb) \in Nat
    BY <2>1, <2>2, <2>3, <2>5, FS_CardinalityType, RegionsCounted
  <2>7. allocated # ram
    BY <2>1, <2>2, <2>3, <2>4, <2>5, <2>6
  <2>8. PICK p : p \in Free
    BY <2>1, <2>7
  <2>9. /\ PInv /\ pc = "alloc" /\ pmem_current_block \in Indices
        /\ \A k \in Indices : k > pmem_current_block => ~HasRoom(BlockAt(k))
    BY DEF VInv, TablesInv, PInv, Used
  <2>10. PICK k \in Indices : p \in Pages(BlockAt(k))
    BY <2>8, <2>9, BlocksOf
  <2>11. HasRoom(BlockAt(k))
    <3>1. /\ Whole(BlockAt(k)) /\ Pages(BlockAt(k)) = First(BlockAt(k)) .. (End(BlockAt(k)) - 1)
          /\ First(BlockAt(k)) \in Nat /\ End(BlockAt(k)) \in Nat
      BY <2>9, BlocksOf
    <3>2. First(BlockAt(k)) < End(BlockAt(k))
      BY <2>10, <3>1
    <3> QED
      BY <3>1, <3>2, WholeOrder
  <2>12. k \in 0 .. pmem_current_block
    <3>1. Indices = 0 .. (pmem_blocks_count - 1) /\ pmem_blocks_count \in Nat
      BY <2>9, BlocksOf
    <3> QED
      BY <2>9, <2>11, <3>1
  <2> QED
    BY <2>11, <2>12
<1> QED
  BY <1>1, AlwaysRoom, PTL

(* What the other proofs use. *)
LEMMA AlwaysVInv == PagingSpec => []VInv /\ []ImageKept
<1>1. RoomInv => ImageKept
  BY DEF RoomInv
<1> QED
  BY <1>1, AlwaysRoom, PTL

-----------------------------------------------------------------------------
(* The abstract address space.  Its map leaves boot.S's mapping for good:    *)
(* the second gigabyte behind KERNEL_VMA is not mapped any more.             *)
LEMMA BootMapLeft ==
  ASSUME VInv, phase # "kernel"
  PROVE  [v \in VPage |-> Translate(v)] # Promise!BootMap
<1> DEFINE w == KERNEL_VMA + OneG
<1>1. /\ KERNEL_VMA \in Nat /\ LFB_VMA \in Nat /\ OneG \in Nat /\ OneG >= 1 /\ LinearEnd \in Nat
      /\ LinearEnd <= KERNEL_VMA /\ LFB_VMA <= KERNEL_VMA
  BY LowPages, Sizes3
<1>2. w \in VAll /\ w \in VPage
  <2>1. KERNEL_VMA + OneG + OneG = N * Reach[4]
    <3>1. Reach[3] = OneG /\ Reach[4] = OneG * N /\ OneG \in Nat /\ N \in Nat /\ Reach[4] \in Nat
      BY Sizes3
    <3>2. (N - 1) * Reach[4] = N * Reach[4] - Reach[4]
      BY <3>1
    <3>3. (N - 2) * OneG = OneG * N - OneG - OneG
      BY <3>1
    <3> QED
      BY <3>1, <3>2, <3>3 DEF KERNEL_VMA
  <2>2. N * Reach[4] \in Nat
    BY Sizes3
  <2>3. w \in 0 .. (N * Reach[4] - 1) /\ w # KERNEL_VMA
    BY <1>1, <2>1, <2>2
  <2> QED
    BY <2>3 DEF VAll, VPage, TEMP_MAP_ADDR
<1>3. w - KERNEL_VMA = OneG /\ ~InKernel(w)
  BY <1>1, <1>2, KernelPart
<1>4. ~(w < linear_limit)
  BY <1>1 DEF VInv, LoopsInv, LinearOK
<1>5. ~FbMapped(w - LFB_VMA)
  <2>1. fb \in Nat /\ (fb <= OneG => LFB_VMA + fb <= KERNEL_VMA)
    BY LowPages DEF VInv, LoopsInv
  <2> QED
    BY <1>1, <2>1 DEF FbMapped
<1>6. FrameOf(mem, w) = Absent
  BY <1>2, <1>3, <1>4, <1>5 DEF VInv, LoopsInv, OnlyThese
<1>7. [v \in VPage |-> Translate(v)][w] = Absent
  BY <1>2, <1>6 DEF Translate
<1>8. Promise!BootMap[w] = OneG
  <2>1. OneG \in 0 .. (2 * OneG - 1)
    BY <1>1
  <2> QED
    BY <1>2, <1>3, <2>1 DEF Promise!BootMap, Promise!Window
<1> QED
  BY <1>1, <1>7, <1>8 DEF Absent

(* Mapping one address is a step of the abstract map.                        *)
LEMMA MapsPage ==
  ASSUME VInv, phase # "kernel", phase' # "kernel", NEW v, NEW f, Maps(v, f)
  PROVE  Promise!MapPage(v, f)
<1>1. /\ v \in VPage /\ FrameOf(mem, v) = Absent /\ FrameOf(mem', v) = f
      /\ \A w \in VPage \ {v} : FrameOf(mem', w) = FrameOf(mem, w)
  BY DEF Maps, MayMap
<1>2. [w \in VPage |-> Translate(w)]' = [[w \in VPage |-> Translate(w)] EXCEPT ![v] = f]
  BY <1>1 DEF Translate
<1>3. [w \in VPage |-> Translate(w)][v] = Absent
  BY <1>1 DEF Translate
<1> QED
  BY <1>2, <1>3, BootMapLeft DEF Promise!MapPage

(* A step that changes no meaning is no step of the abstract map.            *)
LEMMA Unmoved ==
  ASSUME phase # "kernel", phase' # "kernel", SameMeaning, UNCHANGED <<linear_limit, ram>>
  PROVE  UNCHANGED Promise!spaceVars
<1>1. [w \in VPage |-> Translate(w)]' = [w \in VPage |-> Translate(w)]
  BY DEF Translate, SameMeaning
<1> QED
  BY <1>1 DEF Promise!spaceVars

(* It begins with boot.S's mapping. *)
LEMMA SpaceBegins ==
  ASSUME PagingInit
  PROVE  Promise!Init
<1>1. \A v \in VPage : Translate(v) = boot_pml4(v)
  BY DEF PagingInit, Translate
<1>2. [v \in VPage |-> Translate(v)] = Promise!BootMap
  BY <1>1 DEF Promise!BootMap, Promise!Window, boot_pml4
<1> QED
  BY <1>2 DEF Promise!Init, PagingInit

(* The kernel's own tables replace it. *)
LEMMA SpaceRemapped ==
  ASSUME VInv, RemapKernel
  PROVE  Promise!LeaveBootMap
<1>1. \A v \in VPage : FrameOf(mem', v) = IF InKernel(v) THEN v - KERNEL_VMA ELSE Absent
  BY RemapKeeps
<1>2. phase = "kernel" /\ phase' = "lfb" /\ UNCHANGED <<linear_limit, ram>>
  BY DEF RemapKernel, vars
<1>3. \A v \in VPage : InKernel(v) <=> v - KERNEL_VMA \in 0 .. (OneG - 1)
  BY KernelPart DEF VPage, VAll
<1>4. \A v \in VPage : Translate(v) = boot_pml4(v)
  BY <1>2 DEF Translate
<1>5. [v \in VPage |-> Translate(v)] = Promise!BootMap
  BY <1>4 DEF Promise!BootMap, Promise!Window, boot_pml4
<1>6. [v \in VPage |-> Translate(v)]' = Promise!KernelMap
  BY <1>1, <1>2, <1>3 DEF Promise!KernelMap, Promise!Window, Translate
<1> QED
  BY <1>2, <1>5, <1>6 DEF Promise!LeaveBootMap

(* One page of the frame buffer, or of memory. *)
LEMMA SpaceGrows ==
  ASSUME VInv, StorePage
  PROVE  Promise!MapFrameBuffer \/ Promise!MapRam
<1>0. phase \in {"lfb", "ram"} /\ phase' = phase /\ UNCHANGED ram
  BY DEF VInv, TablesInv, StorePage, vars
<1>1. CASE phase = "lfb"
  <2>1. /\ Maps(virt, FB_FRAME + (virt - LFB_VMA)) /\ UNCHANGED linear_limit
        /\ LFB_VMA <= virt /\ virt < KERNEL_VMA /\ virt \in Nat
        /\ virt = LFB_VMA \/ FrameOf(mem, virt - 1) # Absent
    BY <1>1, StoreLfbKeeps
  <2>2. Promise!MapPage(virt, FB_FRAME + (virt - LFB_VMA))
    BY <1>0, <1>1, <2>1, MapsPage
  <2>3. virt \in VPage /\ virt >= LFB_VMA
    BY <2>1, LowPages
  <2>4. virt = LFB_VMA \/ [v \in VPage |-> Translate(v)][virt - 1] # Absent
    <3> SUFFICES ASSUME virt # LFB_VMA PROVE [v \in VPage |-> Translate(v)][virt - 1] # Absent
      OBVIOUS
    <3>1. virt - 1 \in VPage
      BY <2>1, LowPages
    <3> QED
      BY <1>1, <2>1, <3>1 DEF Translate
  <2> QED
    BY <1>0, <2>1, <2>2, <2>3, <2>4 DEF Promise!MapFrameBuffer
<1>2. CASE phase = "ram"
  <2>1. /\ Maps(linear_limit, phys) /\ phys \in ram
        /\ linear_limit' = linear_limit + 1 /\ linear_limit \in Nat
        /\ linear_limit > 0 => FrameOf(mem, linear_limit - 1) < phys
    BY <1>2, StoreRamKeeps
  <2>2. Promise!MapPage(linear_limit, phys)
    BY <1>0, <1>2, <2>1, MapsPage
  <2>3. linear_limit \in VPage /\ FrameOf(mem', linear_limit) = phys
    BY <2>1 DEF Maps, MayMap
  <2>4. [v \in VPage |-> Translate(v)]'[linear_limit] = phys
    BY <1>0, <1>2, <2>3 DEF Translate
  <2>5. linear_limit > 0 => [v \in VPage |-> Translate(v)][linear_limit - 1] < phys
    <3> SUFFICES ASSUME linear_limit > 0 PROVE [v \in VPage |-> Translate(v)][linear_limit - 1] < phys
      OBVIOUS
    <3>1. linear_limit - 1 \in VPage
      BY <2>1, PartsMapped DEF VInv, Linear
    <3> QED
      BY <1>2, <2>1, <3>1 DEF Translate
  <2> QED
    BY <1>0, <2>1, <2>2, <2>4, <2>5 DEF Promise!MapRam
<1> QED
  BY <1>0, <1>1, <1>2

(* Every other step leaves every address its meaning. *)
LEMMA SpaceSteps == VInv /\ ImageKept' /\ [PagingNext]_<<vars, pagingVars>> => [Promise!Next]_(Promise!spaceVars)
<1> SUFFICES ASSUME VInv, ImageKept', [PagingNext]_<<vars, pagingVars>>
             PROVE  [Promise!Next]_(Promise!spaceVars)
  OBVIOUS
<1>1. CASE RemapKernel
  BY <1>1, SpaceRemapped DEF Promise!Next
<1>2. CASE StorePage
  BY <1>2, SpaceGrows DEF Promise!Next
<1>3. CASE LfbPage
  BY <1>3, LfbPageKeeps, Unmoved DEF LfbPage, vars
<1>4. CASE LfbDone
  BY <1>4, LfbDoneKeeps, Unmoved DEF LfbDone, vars
<1>5. CASE RamPage
  BY <1>5, RamPageKeeps, Unmoved DEF RamPage, vars
<1>6. CASE RamBlockDone
  <2>1. phase # "kernel" /\ phase' # "kernel" /\ UNCHANGED <<linear_limit, ram>>
    BY <1>6 DEF RamBlockDone, vars
  <2> QED
    BY <1>6, <2>1, RamBlockDoneKeeps, Unmoved
<1>7. CASE CreateTable
  <2>1. phase # "kernel" /\ phase' # "kernel" /\ UNCHANGED <<linear_limit, ram>>
    BY <1>7 DEF CreateTable, Alloc, VInv, TablesInv
  <2> QED
    BY <1>7, <2>1, CreateKeeps, Unmoved
<1>8. CASE Descend
  <2>1. phase # "kernel" /\ phase' # "kernel" /\ UNCHANGED <<linear_limit, ram>>
    BY <1>8 DEF Descend, VInv, TablesInv, vars
  <2> QED
    BY <1>8, <2>1, DescendKeeps, Unmoved
<1>9. CASE UNCHANGED <<vars, pagingVars>>
  <2>1. UNCHANGED <<mem, phase, linear_limit, ram>>
    BY <1>9 DEF vars, pagingVars
  <2>2. [w \in VPage |-> Translate(w)]' = [w \in VPage |-> Translate(w)]
    BY <2>1 DEF Translate
  <2> QED
    BY <2>1, <2>2 DEF Promise!spaceVars
<1> QED
  BY <1>1, <1>2, <1>3, <1>4, <1>5, <1>6, <1>7, <1>8, <1>9 DEF PagingNext, Finished

(* paging_init keeps the promise of AddressSpace: whichever tables it takes  *)
(* on the way, each paging_map_page gives one virtual page its frame and     *)
(* changes no other.                                                         *)
THEOREM SpaceKept == PagingSpec => SpaceSpec
<1>1. PagingInit => Promise!Init
  BY SpaceBegins
<1> QED
  BY <1>1, AlwaysVInv, SpaceSteps, PTL DEF PagingSpec, SpaceSpec, Promise!Spec

-----------------------------------------------------------------------------
(* The linear space has a frame of its own for each of its pages, so it is   *)
(* no larger than the usable memory.                                         *)
LEMMA LinearFits ==
  ASSUME VInv
  PROVE  /\ linear_limit <= Cardinality(ram)
         /\ linear_limit <= Space \div PAGE_SIZE
<1> DEFINE f == [v \in Linear |-> FrameOf(mem, v)]
           top == Space \div PAGE_SIZE
<1>1. /\ linear_limit \in Nat
      /\ \A v \in Linear : FrameOf(mem, v) \in ram
      /\ \A v, w \in Linear : v < w => FrameOf(mem, v) + (w - v) <= FrameOf(mem, w)
      /\ ram \subseteq Page \ {0}
  BY DEF VInv, LoopsInv, LinearOK, TablesInv, PInv, TypeOK
<1>2. top \in Nat /\ Page = 0 .. (top - 1)
  BY PmemAssumption DEF PmemAssumption, Page
<1>3. \A v \in Linear : v \in Int /\ FrameOf(mem, v) \in Int /\ FrameOf(mem, v) >= 0 /\ FrameOf(mem, v) <= top - 1
  <2> HIDE DEF top
  <2>1. \A q \in ram : q \in Int /\ q >= 0 /\ q <= top - 1
    BY <1>1, <1>2
  <2>2. \A v \in Linear : v \in Int
    BY <1>1 DEF Linear
  <2> QED
    BY <1>1, <2>1, <2>2
<1>4. IsFiniteSet(ram)
  <2>1. IsFiniteSet(Page)
    <3> HIDE DEF top
    <3> QED
      BY <1>2, FS_Interval
  <2> QED
    BY <1>1, <2>1, FS_Subset
<1>5. f \in Injection(Linear, ram)
  <2>1. \A v, w \in Linear : FrameOf(mem, v) = FrameOf(mem, w) => v = w
    BY <1>1, <1>3
  <2> QED
    BY <1>1, <2>1 DEF Injection, IsInjective
<1>6. Cardinality(Linear) <= Cardinality(ram)
  <2> HIDE DEF f
  <2> QED
    BY <1>4, <1>5, FS_Injection
<1>7. Cardinality(Linear) = linear_limit
  <2>1. 0 \in Int /\ linear_limit - 1 \in Int
    BY <1>1
  <2>2. Cardinality(0 .. (linear_limit - 1)) =
          IF 0 > linear_limit - 1 THEN 0 ELSE (linear_limit - 1) - 0 + 1
    BY <2>1, FS_Interval
  <2> QED
    BY <1>1, <2>2 DEF Linear
<1>8. linear_limit <= top
  <2> HIDE DEF top
  <2>1. CASE linear_limit = 0
    BY <1>2, <2>1
  <2>2. CASE linear_limit = 1
    <3>1. 0 \in Linear
      BY <2>2 DEF Linear
    <3> QED
      BY <1>2, <1>3, <2>2, <3>1
  <2>3. CASE linear_limit > 1
    <3>1. 0 \in Linear /\ linear_limit - 1 \in Linear /\ 0 < linear_limit - 1
      BY <1>1, <2>3 DEF Linear
    <3>2. FrameOf(mem, 0) + ((linear_limit - 1) - 0) <= FrameOf(mem, linear_limit - 1)
      BY <1>1, <3>1
    <3> QED
      BY <1>1, <1>2, <1>3, <3>1, <3>2
  <2> QED
    BY <1>1, <2>1, <2>2, <2>3
<1> QED
  BY <1>6, <1>7, <1>8

(* Tables, blocks and loop variables are in their types; linear_limit does   *)
(* not pass the number of usable pages, nor a block's base its limit.        *)
THEOREM PagingTypeCorrect == PagingSpec => []PagingTypeOK
<1>1. VInv => PagingTypeOK
  <2> SUFFICES ASSUME VInv PROVE PagingTypeOK
    OBVIOUS
  <2>1. /\ TypeOK /\ PInv /\ pc = "alloc" /\ mem \in Tables
        /\ phase \in {"kernel", "lfb", "ram", "done"} /\ level \in 0 .. 4
    BY DEF VInv, TablesInv, PInv
  <2>2. \A k \in Indices : BlockAt(k).base <= BlockAt(k).limit
    BY <2>1, BlocksOf, WholeOrder
  <2>3. block \in 0 .. pmem_blocks_count
    <3>1. /\ pmem_blocks_count \in Nat /\ Indices = 0 .. (pmem_blocks_count - 1)
      BY <2>1, BlocksOf
    <3>2. block = 0 \/ block \in Indices \/ block = pmem_blocks_count
      BY <2>1 DEF VInv, LoopsInv, InLfb, InRam
    <3> QED
      BY <3>1, <3>2
  <2> QED
    BY <2>1, <2>2, <2>3, LinearFits DEF PagingTypeOK, Tables
<1> QED
  BY <1>1, AlwaysVInv, PTL

(* Whatever blocks there are, and however tables are cut off them: in the    *)
(* end each page that pmem still holds is in the linear space.               *)
THEOREM MemoryMapped == PagingSpec => []LinearComplete
<1>1. VInv => LinearComplete
  <2> SUFFICES ASSUME VInv, phase = "done", NEW q \in Free
               PROVE  q \in {Translate(v) : v \in 0 .. (linear_limit - 1)}
    BY DEF LinearComplete
  <2>1. /\ PInv /\ pc = "alloc" /\ Complete /\ block = pmem_blocks_count
    BY DEF VInv, TablesInv, LoopsInv
  <2>2. /\ pmem_blocks_count \in Nat /\ Indices = 0 .. (pmem_blocks_count - 1)
        /\ Free = UNION {Pages(BlockAt(k)) : k \in Indices}
    BY <2>1, BlocksOf
  <2>3. PICK k \in Indices : q \in Pages(BlockAt(k))
    BY <2>2
  <2>4. k < block
    BY <2>1, <2>2
  <2>5. PICK v \in Linear : FrameOf(mem, v) = q
    BY <2>1, <2>3, <2>4 DEF Complete
  <2> QED
    BY <2>5 DEF Linear, Translate
<1> QED
  BY <1>1, AlwaysVInv, PTL

(* The frame buffer is mapped as a whole, at LFB_VMA, and stays mapped.      *)
THEOREM FrameBufferMapped == PagingSpec => []LfbMapped
<1>1. VInv => LfbMapped
  <2> SUFFICES ASSUME VInv, phase \in {"ram", "done"}, fb <= OneG - N, NEW k \in 0 .. (fb - 1)
               PROVE  Translate(LFB_VMA + k) = FB_FRAME + k
    BY DEF LfbMapped
  <2>1. fb \in Nat /\ OneG \in Nat /\ N \in Nat /\ FbRight
    BY LowPages, Sizes3 DEF VInv, LoopsInv
  <2>2. FbMapped(k)
    BY <2>1 DEF FbMapped
  <2> QED
    BY <2>1, <2>2 DEF FbRight, Translate
<1> QED
  BY <1>1, AlwaysVInv, PTL

-----------------------------------------------------------------------------
(* How far the tables get into what the loop has mapped.  While the last     *)
(* block gives all of them, they are its pages from its limit upwards, and   *)
(* the loop is above that limit by no more than the tables that the running  *)
(* call of paging_map_page has taken.                                        *)
TopBlock == BlockAt(pmem_blocks_count - 1)

Taking ==
  pmem_current_block = pmem_blocks_count - 1 =>
    /\ \A q \in allocated : End(TopBlock) <= q
    /\ phase \in {"ram", "done"} =>
         \/ phys + level <= End(TopBlock) + 3
         \/ level > 1 /\ Current # Absent /\ phys + level <= End(TopBlock) + 4

(* No block begins or ends above the last one's limit.                       *)
LEMMA TopOf ==
  ASSUME VInv
  PROVE  /\ End(TopBlock) \in Nat
         /\ \A k \in Indices : First(BlockAt(k)) <= End(TopBlock) /\ End(BlockAt(k)) <= End(TopBlock)
<1>1. /\ PInv /\ pc = "alloc" /\ pmem_current_block \in Indices
  BY DEF VInv, TablesInv, PInv, Used
<1>2. /\ pmem_blocks_count \in Nat /\ Indices = 0 .. (pmem_blocks_count - 1)
      /\ \A k \in Indices : /\ First(BlockAt(k)) \in Nat /\ End(BlockAt(k)) \in Nat
                            /\ First(BlockAt(k)) <= End(BlockAt(k))
      /\ \A j, k \in Indices : j < k => End(BlockAt(j)) <= First(BlockAt(k))
  BY <1>1, BlocksOf
<1> DEFINE t == pmem_blocks_count - 1
<1>3. t \in Indices /\ \A k \in Indices : k < t \/ k = t
  BY <1>1, <1>2
<1>4. End(BlockAt(t)) \in Nat /\ First(BlockAt(t)) \in Nat /\ First(BlockAt(t)) <= End(BlockAt(t))
  BY <1>2, <1>3
<1>5. ASSUME NEW k \in Indices
      PROVE  First(BlockAt(k)) <= End(BlockAt(t)) /\ End(BlockAt(k)) <= End(BlockAt(t))
  <2>1. First(BlockAt(k)) \in Nat /\ End(BlockAt(k)) \in Nat /\ First(BlockAt(k)) <= End(BlockAt(k))
    BY <1>2
  <2>2. CASE k = t
    BY <1>4, <2>2
  <2>3. CASE k < t
    <3>1. End(BlockAt(k)) <= First(BlockAt(t))
      BY <1>2, <1>3, <2>3
    <3> QED
      BY <1>4, <2>1, <3>1
  <2> QED
    BY <1>3, <2>2, <2>3
<1> QED
  BY <1>4, <1>5 DEF TopBlock

(* The blocks do not change, and the loop goes on below the last limit, or   *)
(* stays where it was.                                                       *)
LEMMA TakingAlone ==
  ASSUME Taking, UNCHANGED vars,
         phase' \in {"ram", "done"} =>
           \/ phys' + level' <= End(TopBlock) + 3
           \/ phase \in {"ram", "done"} /\ UNCHANGED <<mem, level, virt, phys>>
  PROVE  Taking'
<1>1. /\ pmem_current_block' = pmem_current_block /\ pmem_blocks_count' = pmem_blocks_count
      /\ allocated' = allocated /\ End(TopBlock)' = End(TopBlock)
  BY DEF vars, pmem_blocks_count, TopBlock, BlockAt, End
<1>2. UNCHANGED <<mem, level, virt>> => Current' = Current
  BY DEF Current, Table, Temp
<1> QED
  BY <1>1, <1>2 DEF Taking

(* Creating a table takes one page off the last block, or leaves it for      *)
(* good.                                                                     *)
LEMMA CreateTaking ==
  ASSUME VInv, ImageKept', Taking, CreateTable
  PROVE  Taking'
<1>1. /\ PInv /\ Alloc /\ level > 1 /\ Current = Absent /\ level \in Int /\ phys \in Int
      /\ UNCHANGED <<phase, level, phys>>
  BY DEF VInv, TablesInv, LoopsInv, CreateTable
<1>2. Current' # Absent
  BY CreateEffect DEF VInv
<1> SUFFICES ASSUME pmem_current_block' = pmem_blocks_count' - 1
             PROVE  /\ \A q \in allocated' : End(TopBlock)' <= q
                    /\ phase \in {"ram", "done"} => phys + level <= End(TopBlock)' + 4
  BY <1>1, <1>2 DEF Taking
<1>3. PICK p \in Page \ {0} :
        /\ pmem_blocks_count' = pmem_blocks_count
        /\ allocated' = allocated \cup {p}
        /\ pmem_current_block' = pmem_blocks_count - 1 =>
             /\ pmem_current_block = pmem_blocks_count - 1
             /\ p = End(BlockAt(pmem_blocks_count - 1))'
             /\ p = End(BlockAt(pmem_blocks_count - 1)) - 1
  BY <1>1, AllocShrinks
<1>4. /\ pmem_current_block = pmem_blocks_count - 1
      /\ End(TopBlock)' = End(TopBlock) - 1 /\ p = End(TopBlock) - 1
  <2>1. TopBlock' = BlockAt(pmem_blocks_count - 1)'
    BY DEF TopBlock
  <2> QED
    BY <1>3, <2>1 DEF TopBlock
<1>5. End(TopBlock) \in Int /\ allocated \subseteq Int
  BY TopOf, Window DEF VInv, TablesInv, PInv, TypeOK
<1>6. /\ \A q \in allocated : End(TopBlock) <= q
      /\ phase \in {"ram", "done"} => phys + level <= End(TopBlock) + 3
  BY <1>1, <1>4 DEF Taking
<1>7. \A q \in allocated' : End(TopBlock)' <= q
  BY <1>3, <1>4, <1>5, <1>6
<1>8. phase \in {"ram", "done"} => phys + level <= End(TopBlock)' + 4
  BY <1>1, <1>4, <1>5, <1>6
<1> QED
  BY <1>7, <1>8

(* Every step keeps that distance.                                           *)
LEMMA StepTaking == VInv /\ Taking /\ ImageKept' /\ [PagingNext]_<<vars, pagingVars>> => Taking'
<1> SUFFICES ASSUME VInv, Taking, ImageKept', [PagingNext]_<<vars, pagingVars>> PROVE Taking'
  OBVIOUS
<1>0. /\ End(TopBlock) \in Nat /\ phys \in Nat /\ level \in 0 .. 4 /\ phys' \in Int
      /\ \A k \in Indices : First(BlockAt(k)) <= End(TopBlock) /\ End(BlockAt(k)) <= End(TopBlock)
      /\ PInv /\ pc = "alloc"
  BY TopOf, StepVInv DEF VInv, TablesInv, LoopsInv
<1>1. CASE RemapKernel
  BY <1>1, TakingAlone DEF RemapKernel
<1>2. CASE LfbPage
  BY <1>2, TakingAlone DEF LfbPage
<1>3. CASE LfbDone
  <2>1. phys' = First(BlockAt(0)) /\ 0 \in Indices /\ level' = 0 /\ UNCHANGED vars
    BY <1>3, LfbDoneKeeps DEF LfbDone
  <2>2. phys' + level' <= End(TopBlock) + 3
    BY <1>0, <2>1
  <2> QED
    BY <2>1, <2>2, TakingAlone
<1>4. CASE RamPage
  <2>1. level' = 4 /\ phys' = phys /\ InBlock /\ phase = "ram" /\ UNCHANGED vars /\ block \in Indices
    BY <1>4 DEF RamPage, VInv, LoopsInv, InRam
  <2>2. phys < End(BlockAt(block)) /\ End(BlockAt(block)) \in Nat
    BY <1>0, <2>1, BlocksOf DEF InBlock
  <2>3. phys' + level' <= End(TopBlock) + 3
    BY <1>0, <2>1, <2>2
  <2> QED
    BY <2>1, <2>3, TakingAlone
<1>5. CASE RamBlockDone
  <2>1. phase = "ram" /\ level = 0 /\ UNCHANGED <<vars, mem, level, virt>>
    BY <1>5 DEF RamBlockDone
  <2>2. CASE block' < pmem_blocks_count
    <3>1. phys' = First(BlockAt(block')) /\ block' = block + 1 /\ block \in Indices
      BY <1>5, <2>2 DEF RamBlockDone, First, VInv, LoopsInv, InRam
    <3>2. block' \in Indices
      BY <1>0, <2>2, <3>1, BlocksOf
    <3>3. phys' <= End(TopBlock)
      BY <1>0, <3>1, <3>2
    <3>4. phys' + level' <= End(TopBlock) + 3
      BY <1>0, <2>1, <3>3
    <3> QED
      BY <2>1, <3>4, TakingAlone
  <2>3. CASE ~(block' < pmem_blocks_count)
    <3>1. UNCHANGED phys
      BY <1>5, <2>3 DEF RamBlockDone
    <3> QED
      BY <2>1, <3>1, TakingAlone
  <2> QED
    BY <2>2, <2>3
<1>6. CASE CreateTable
  BY <1>6, CreateTaking
<1>7. CASE Descend
  <2>1. level > 1 /\ level' = level - 1 /\ UNCHANGED <<vars, phase, phys>>
    BY <1>7 DEF Descend
  <2>2. /\ pmem_current_block' = pmem_current_block /\ pmem_blocks_count' = pmem_blocks_count
        /\ allocated' = allocated /\ End(TopBlock)' = End(TopBlock)
    BY <2>1 DEF vars, pmem_blocks_count, TopBlock, BlockAt, End
  <2> QED
    BY <1>0, <2>1, <2>2 DEF Taking
<1>8. CASE StorePage
  <2>1. level = 1 /\ level' = 0 /\ phys' = phys + 1 /\ UNCHANGED <<vars, phase>>
    BY <1>8 DEF StorePage
  <2>2. /\ pmem_current_block' = pmem_current_block /\ pmem_blocks_count' = pmem_blocks_count
        /\ allocated' = allocated /\ End(TopBlock)' = End(TopBlock)
    BY <2>1 DEF vars, pmem_blocks_count, TopBlock, BlockAt, End
  <2> QED
    BY <1>0, <2>1, <2>2 DEF Taking
<1>9. CASE UNCHANGED <<vars, pagingVars>>
  <2>1. UNCHANGED <<vars, mem, phase, level, virt, phys>>
    BY <1>9 DEF pagingVars
  <2> QED
    BY <2>1, TakingAlone
<1> QED
  BY <1>1, <1>2, <1>3, <1>4, <1>5, <1>6, <1>7, <1>8, <1>9 DEF PagingNext, Finished

(* A page table is free memory for the linear space in few places only: of   *)
(* the pages mapped, only the last three can be tables, whatever the size of *)
(* memory and of a table, as long as the last block has room.                *)
THEOREM FewAliases == PagingSpec => []AliasBounded
<1>1. PagingInit => Taking
  BY DEF PagingInit, Taking
<1>2. VInv /\ Taking => AliasBounded
  <2> SUFFICES ASSUME VInv, Taking, pmem_current_block = pmem_blocks_count - 1, NEW v \in Linear,
                      Translate(v) \in allocated
               PROVE  v >= linear_limit - 3
    BY DEF AliasBounded, Aliased, Linear
  <2>1. /\ linear_limit \in Nat /\ v \in Int /\ linear_limit > 0 /\ phys \in Nat /\ level \in 0 .. 4
    BY DEF VInv, TablesInv, LoopsInv, LinearOK, Linear
  <2>2. phase \in {"ram", "done"}
    BY <2>1 DEF VInv, TablesInv, LoopsInv, InLfb
  <2> DEFINE q == FrameOf(mem, v)
  <2>3. q \in allocated /\ q \in Int /\ End(TopBlock) \in Int
    <3>1. phase # "kernel" /\ Translate(v) \in allocated
      BY <2>2
    <3>2. q \in allocated
      BY <3>1, Zenon DEF Translate
    <3>3. allocated \subseteq Page
      BY DEF VInv, TablesInv, PInv, TypeOK
    <3>4. End(TopBlock) \in Nat
      BY TopOf, Zenon
    <3> HIDE DEF q
    <3> QED
      BY <3>2, <3>3, <3>4, Window
  <2>4. q + (linear_limit - v) <= phys
    BY DEF VInv, LoopsInv, LinearOK
  <2>5. End(TopBlock) <= q
    BY <2>3 DEF Taking
  <2>6. phys + level <= End(TopBlock) + 3 \/ (level > 1 /\ phys + level <= End(TopBlock) + 4)
    BY <2>2 DEF Taking
  <2> HIDE DEF q
  <2>7. phys <= End(TopBlock) + 3
    BY <2>1, <2>3, <2>6
  <2> QED
    BY <2>1, <2>3, <2>4, <2>5, <2>7
<1> QED
  BY <1>1, <1>2, AlwaysVInv, StepTaking, PTL DEF PagingSpec

-----------------------------------------------------------------------------
(* vmem_alloc on top of it: what the linear space keeps.                     *)
LEMMA VmemPaging == VmemSpec => PagingSpec
<1>1. VmemInit => PagingInit
  BY DEF VmemInit
<1>2. [VmemNext]_<<vars, pagingVars, vmemVars>> => [PagingNext]_<<vars, pagingVars>>
  BY DEF VmemNext, vmem_alloc
<1> QED
  BY <1>1, <1>2, PTL DEF VmemSpec, PagingSpec

(* The space below linear_base is what was given away, and it is mapped.     *)
GivenAway ==
  /\ linear_base \in Nat /\ linear_base <= linear_limit * PAGE_SIZE
  /\ handed = 0 .. (linear_base - 1)

(* Nobody asks for so much that the end of the address space is reached.     *)
NoWrap == \A n \in Sizes : Space + n < Word

(* The linear space is no larger than memory. *)
LEMMA LinearBytes ==
  ASSUME VInv
  PROVE  /\ linear_limit \in Nat /\ linear_limit * PAGE_SIZE \in Nat /\ linear_limit * PAGE_SIZE <= Space
         /\ \A a \in Nat : a < linear_limit * PAGE_SIZE => a \div PAGE_SIZE \in Linear
<1>0. PAGE_SIZE \in Nat /\ PAGE_SIZE >= 1 /\ Space \in Nat /\ linear_limit \in Nat
  BY PmemAssumption DEF PmemAssumption, VInv, LoopsInv, LinearOK
<1> DEFINE top == Space \div PAGE_SIZE
<1>1. linear_limit <= top /\ top \in Nat
  BY <1>0, LinearFits
<1>2. linear_limit * PAGE_SIZE \in Nat
  BY <1>0, WholeAddress
<1>3. top * PAGE_SIZE <= Space /\ top * PAGE_SIZE \in Nat
  <2>1. PICK d \in Nat, r \in 0 .. (PAGE_SIZE - 1) : Space = d * PAGE_SIZE + r /\ top = d
    BY <1>0, PageOffset, Zenon
  <2>2. d * PAGE_SIZE \in Nat /\ r \in Nat
    BY <1>0, WholeAddress
  <2>3. Space = d * PAGE_SIZE + r /\ top = d
    BY <2>1, Zenon
  <2>4. d * PAGE_SIZE <= Space
    BY <1>0, <2>2, <2>3
  <2> HIDE DEF top
  <2> QED
    BY <2>2, <2>3, <2>4
<1>4. linear_limit * PAGE_SIZE <= top * PAGE_SIZE
  <2> HIDE DEF top
  <2> QED
    BY <1>0, <1>1, PageOrder
<1>5. linear_limit * PAGE_SIZE <= Space
  <2> HIDE DEF top
  <2> QED
    BY <1>0, <1>2, <1>3, <1>4
<1>6. ASSUME NEW a \in Nat, a < linear_limit * PAGE_SIZE PROVE a \div PAGE_SIZE \in Linear
  <2>1. PICK d \in Nat, r \in 0 .. (PAGE_SIZE - 1) : a = d * PAGE_SIZE + r /\ a \div PAGE_SIZE = d
    BY PageOffset, Zenon
  <2>2. a = d * PAGE_SIZE + r /\ d * PAGE_SIZE \in Nat /\ r \in Nat
    BY <1>0, <2>1, WholeAddress
  <2>3. d < linear_limit
    <3>1. linear_limit <= d => linear_limit * PAGE_SIZE <= d * PAGE_SIZE
      BY <1>0, PageOrder
    <3> QED
      BY <1>0, <1>2, <1>6, <2>2, <3>1
  <2>4. d \in Linear
    BY <1>0, <2>3 DEF Linear
  <2> QED
    BY <2>1, <2>4, Zenon
<1> QED
  BY <1>0, <1>2, <1>5, <1>6

(* A call that returns. *)
LEMMA AllocGives ==
  ASSUME NoWrap, VInv, GivenAway, NEW n \in Sizes, vmem_alloc(n), ~NoRoom(n)
  PROVE  /\ linear_base' = linear_base + n /\ n \in Nat \ {0}
         /\ linear_base + n < linear_limit * PAGE_SIZE
         /\ handed' \ handed = linear_base .. (linear_base + n - 1)
         /\ handed' = 0 .. (linear_base + n - 1)
         /\ UNCHANGED <<vars, pagingVars>> /\ phase = "done"
<1>1. /\ n \in Nat \ {0} /\ Word \in Nat \ {0} /\ linear_base \in Nat /\ Space \in Nat
      /\ Space + n < Word /\ linear_base <= linear_limit * PAGE_SIZE
      /\ handed = 0 .. (linear_base - 1)
  BY VmemAssumption, PmemAssumption DEF VmemAssumption, PmemAssumption, NoWrap, GivenAway
<1>2. linear_limit * PAGE_SIZE \in Nat /\ linear_limit * PAGE_SIZE <= Space
  BY LinearBytes
<1> DEFINE top == linear_limit * PAGE_SIZE
           sum == linear_base + n
<1>3. sum \in Nat /\ sum \in 0 .. (Word - 1)
  <2>1. top \in Nat /\ top <= Space /\ linear_base <= top
    BY <1>1, <1>2
  <2> HIDE DEF top
  <2> QED
    BY <1>1, <2>1
<1>4. NewBase(n) = sum
  <2>1. sum % Word = sum
    <3>1. Word \in Nat \ {0} /\ 0 \in Nat /\ sum \in 0 .. (Word - 1)
      BY <1>1, <1>3
    <3> HIDE DEF sum
    <3>2. (Word * 0 + sum) % Word = sum
      BY <3>1, Quotient
    <3>3. Word * 0 + sum = sum
      BY <3>1
    <3> QED
      BY <3>2, <3>3
  <2> QED
    BY <2>1 DEF NewBase
<1>5. /\ linear_base' = NewBase(n) /\ handed' = handed \cup Given(n)
      /\ phase = "done" /\ UNCHANGED <<vars, pagingVars>>
  BY DEF vmem_alloc
<1>6. ~(sum >= top)
  BY <1>4, Zenon DEF NoRoom
<1>7. sum < top
  <2> HIDE DEF sum, top
  <2> QED
    BY <1>2, <1>3, <1>6 DEF top
<1>8. /\ handed' \ handed = linear_base .. (linear_base + n - 1)
      /\ handed' = 0 .. (linear_base + n - 1)
  BY <1>1, <1>5 DEF Given
<1> QED
  BY <1>1, <1>4, <1>5, <1>7, <1>8

(* linear_limit only grows. *)
LEMMA LimitGrows ==
  ASSUME VInv, [PagingNext]_<<vars, pagingVars>>
  PROVE  linear_limit' \in Nat /\ linear_limit * PAGE_SIZE <= linear_limit' * PAGE_SIZE
<1>1. linear_limit \in Nat
  BY DEF VInv, LoopsInv, LinearOK
<1>2. linear_limit' = linear_limit \/ linear_limit' = linear_limit + 1
  BY DEF PagingNext, RemapKernel, LfbPage, LfbDone, RamPage, RamBlockDone, CreateTable, Descend, StorePage,
         Finished, pagingVars
<1>3. linear_limit' \in Nat /\ linear_limit <= linear_limit'
  BY <1>1, <1>2
<1> QED
  BY <1>1, <1>3, PageOrder

(* Every step keeps what was given away below linear_limit.                  *)
LEMMA StepGivenAway ==
  ASSUME NoWrap
  PROVE  VInv /\ GivenAway /\ [VmemNext]_<<vars, pagingVars, vmemVars>> => GivenAway'
<1> SUFFICES ASSUME VInv, GivenAway, [VmemNext]_<<vars, pagingVars, vmemVars>> PROVE GivenAway'
  OBVIOUS
<1>0. PAGE_SIZE \in Nat
  BY PmemAssumption DEF PmemAssumption
<1>1. CASE [PagingNext]_<<vars, pagingVars>> /\ UNCHANGED <<linear_base, handed>>
  <2>1. linear_limit \in Nat /\ linear_limit' \in Nat /\ linear_limit * PAGE_SIZE <= linear_limit' * PAGE_SIZE
    BY <1>1, LimitGrows, LinearBytes
  <2>2. linear_limit * PAGE_SIZE \in Nat /\ linear_limit' * PAGE_SIZE \in Nat
    BY <2>1, WholeAddress
  <2> QED
    BY <1>1, <2>1, <2>2 DEF GivenAway
<1>2. ASSUME NEW n \in Sizes, vmem_alloc(n) PROVE GivenAway'
  <2>1. CASE NoRoom(n)
    <3>1. UNCHANGED <<linear_base, handed, linear_limit>>
      BY <1>2, <2>1 DEF vmem_alloc, pagingVars
    <3> QED
      BY <3>1 DEF GivenAway
  <2>2. CASE ~NoRoom(n)
    <3>1. /\ linear_base' = linear_base + n /\ n \in Nat
          /\ linear_base + n < linear_limit * PAGE_SIZE
          /\ handed' = 0 .. (linear_base + n - 1) /\ linear_limit' = linear_limit
      BY <1>2, <2>2, AllocGives DEF pagingVars
    <3>2. linear_base \in Nat /\ linear_limit * PAGE_SIZE \in Nat
      BY LinearBytes DEF GivenAway
    <3> QED
      BY <3>1, <3>2 DEF GivenAway
  <2> QED
    BY <2>1, <2>2
<1> QED
  BY <1>1, <1>2 DEF VmemNext, vmemVars

(* What vmem_alloc gives away was not given away before, and is mapped, each *)
(* page to usable memory of its own: for whatever linear space paging_init   *)
(* leaves, and every sequence of requests.                                   *)
THEOREM FreshMemory == NoWrap /\ VmemSpec => VmemFresh
<1> DEFINE Fresh ==
      LET new == handed' \ handed IN
        linear_base' # linear_base =>
          /\ Cardinality(new) = linear_base' - linear_base
          /\ FramesOf(new) \subseteq ram
          /\ \A a \in new, b \in handed' :
               a \div PAGE_SIZE # b \div PAGE_SIZE =>
                 Translate(a \div PAGE_SIZE) # Translate(b \div PAGE_SIZE)
<1> SUFFICES ASSUME NoWrap PROVE VmemSpec => VmemFresh
  OBVIOUS
<1>1. VmemInit => GivenAway
  <2> SUFFICES ASSUME VmemInit PROVE GivenAway
    OBVIOUS
  <2>1. linear_base = 0 /\ handed = {} /\ linear_limit = 0
    BY DEF VmemInit, PagingInit
  <2>2. linear_limit * PAGE_SIZE \in Nat
    BY <2>1, WholeAddress
  <2> QED
    BY <2>1, <2>2 DEF GivenAway
<1>2. VInv /\ GivenAway /\ [VmemNext]_<<vars, pagingVars, vmemVars>> => [Fresh]_<<linear_base, handed>>
  <2> SUFFICES ASSUME VInv, GivenAway, [VmemNext]_<<vars, pagingVars, vmemVars>>, linear_base' # linear_base
               PROVE  Fresh
    OBVIOUS
  <2>1. PICK n \in Sizes : vmem_alloc(n)
    BY DEF VmemNext, vmemVars
  <2>2. ~NoRoom(n)
    BY <2>1 DEF vmem_alloc
  <2>3. /\ linear_base' = linear_base + n /\ n \in Nat \ {0} /\ linear_base \in Nat
        /\ linear_base + n < linear_limit * PAGE_SIZE /\ linear_limit * PAGE_SIZE \in Nat
        /\ handed' \ handed = linear_base .. (linear_base + n - 1)
        /\ handed' = 0 .. (linear_base + n - 1)
        /\ phase = "done"
    BY <2>1, <2>2, AllocGives, LinearBytes DEF GivenAway
  <2>4. Cardinality(handed' \ handed) = n
    <3>1. linear_base \in Int /\ linear_base + n - 1 \in Int
      BY <2>3
    <3>2. Cardinality(linear_base .. (linear_base + n - 1)) =
            IF linear_base > linear_base + n - 1 THEN 0
            ELSE (linear_base + n - 1) - linear_base + 1
      BY <3>1, FS_Interval
    <3>3. linear_base \in Nat /\ n \in Nat \ {0} /\ handed' \ handed = linear_base .. (linear_base + n - 1)
      BY <2>3
    <3>4. Cardinality(linear_base .. (linear_base + n - 1)) = n
      BY <3>2, <3>3
    <3> QED
      BY <3>3, <3>4, Zenon
  <2>5. \A a \in handed' : a \in Nat /\ a \div PAGE_SIZE \in Linear
    <3> SUFFICES ASSUME NEW a \in handed' PROVE a \in Nat /\ a \div PAGE_SIZE \in Linear
      OBVIOUS
    <3>1. a \in Nat /\ a < linear_limit * PAGE_SIZE
      BY <2>3
    <3> QED
      BY <3>1, LinearBytes
  <2>6. \A v \in Linear : Translate(v) = FrameOf(mem, v) /\ FrameOf(mem, v) \in ram
    BY <2>3 DEF Translate, VInv, LoopsInv, LinearOK
  <2>7. FramesOf(handed' \ handed) \subseteq ram
    BY <2>5, <2>6 DEF FramesOf
  <2>8. \A v, w \in Linear : v # w => FrameOf(mem, v) # FrameOf(mem, w)
    <3>1. \A v \in Linear : v \in Int /\ FrameOf(mem, v) \in Int
      <4>1. ram \subseteq Page
        BY DEF VInv, TablesInv, PInv, TypeOK
      <4>2. \A v \in Linear : v \in Int
        BY DEF Linear
      <4>3. \A q \in ram : q \in Int
        BY <4>1, Window
      <4> QED
        BY <2>6, <4>2, <4>3
    <3>2. \A v, w \in Linear : v < w => FrameOf(mem, v) + (w - v) <= FrameOf(mem, w)
      BY DEF VInv, LoopsInv, LinearOK
    <3> QED
      BY <3>1, <3>2
  <2>9. ASSUME NEW a \in handed' \ handed, NEW b \in handed', a \div PAGE_SIZE # b \div PAGE_SIZE
        PROVE  Translate(a \div PAGE_SIZE) # Translate(b \div PAGE_SIZE)
    <3>1. a \div PAGE_SIZE \in Linear /\ b \div PAGE_SIZE \in Linear
      BY <2>5
    <3> QED
      BY <2>6, <2>8, <2>9, <3>1
  <2>10. linear_base' - linear_base = n
    BY <2>3
  <2> QED
    BY <2>4, <2>7, <2>9, <2>10
<1> QED
  BY <1>1, <1>2, StepGivenAway, VmemPaging, AlwaysVInv, PTL DEF VmemSpec, VmemFresh
=============================================================================
