------------------- MODULE VirtualMemoryTestsProofs -------------------
(***************************************************************************)
(* paging.c and mapping.c with tables of any size.  The argument:          *)
(*                                                                         *)
(*  - the addresses of the two programs are at (n, n, n), (0, 0, n),       *)
(*    (1, 0, n) and (1, 1, n) of the three tables (VpnOf), so what the     *)
(*    handler writes for one of them does not replace what another one     *)
(*    needs, except for the gigapage of mapping.c (PagingTables,           *)
(*    MappingTables);                                                      *)
(*  - hence the walk for the n-th store fails or gives one frame, its      *)
(*    Target, whatever was mapped in between, and the walk for the n-th    *)
(*    load the same one (WalkOfStore, WalkOfLoad);                         *)
(*  - no two stores have the same Target and none is in the kernel image   *)
(*    (Targets), so memory holds what was stored (Stores);                 *)
(*  - virtual page 0, with the user's stack, fails or is the first frame   *)
(*    (WalkOfStack);                                                       *)
(*  - the TLB agrees with the tables, because the handler's sfence.vma     *)
(*    follows the only change of them (tlb in AccessInv).                  *)
(*                                                                         *)
(* stream_hammer.c with caches of any number of sets:                      *)
(*                                                                         *)
(*  - a set of the first level holds the last blocks that were used in it, *)
(*    which are known by how many have been (Row): the program goes        *)
(*    through sixteen of them in order, then through every second one, so  *)
(*    the next is never there (AccessMisses);                              *)
(*  - no more than eight blocks fall in a set of the second level, which   *)
(*    has eight ways: what is written stays there (L2WaysFit, IntoL2Keeps).*)
(*                                                                         *)
(* All four cache hammers, for any sizes:                                  *)
(*                                                                         *)
(*  - of the blocks written so far none is lost: one that is not dirty in  *)
(*    the first level has its data below it (NoneLost), if no fault of the *)
(*    caches is in the way of the program (AccessLosesNothing).            *)
(*                                                                         *)
(* The trap paths of vm_start.S, whatever the C handlers do:               *)
(*                                                                         *)
(*  - what holds before the k-th instruction of each of them (EntryAt,     *)
(*    PopAt, VectorAt, ReturnAt): where sp is while it is not in sp, how   *)
(*    many registers are in their slots or back from them;                 *)
(*  - each instruction takes what holds before it to what holds before the *)
(*    next (EntrySteps and the lemmas that follow).                        *)
(*                                                                         *)
(* The fetch suite:                                                        *)
(*                                                                         *)
(*  - which pages the ITLB has before each fetch (Fresh, Translated), so   *)
(*    how the fetch looks to it (FetchesSucceed);                          *)
(*  - each fault is found by one gadget of one pass, and the suite is      *)
(*    never past it (NotMissed).                                           *)
(*                                                                         *)
(* The cache tests:                                                        *)
(*                                                                         *)
(*  - what a load through the cache would find (Seen) changes with a store *)
(*    to the word and when a write-back loses it, and with nothing else    *)
(*    (CachedLoads, CachedStores, UncachedAccesses);                       *)
(*  - so it is known before each instruction of the four programs          *)
(*    (UncachedInv, BypassInv, AliasInv, DynamicInv).                      *)
(***************************************************************************)
EXTENDS VirtualMemoryTests, FiniteSetTheorems, SequenceTheorems, TLAPS

P == PTES_PER_PT
Half == PTES_PER_PT \div 2
D == Paging!DRAM_BASE

\* The page with these indices in the three tables
Va(a, b, c) == a * (P * P) + b * P + c

-----------------------------------------------------------------------------
(* The inductive invariant *)

\* The frame of the n-th store
Target(n) ==
  IF test = "paging" THEN IF n % 3 = 2 THEN D + P + n ELSE D + n * P + n
  ELSE IF n < Half THEN D + P + n ELSE D + n

\* What paging.c has in its tables, whatever has been touched so far
PagingTables ==
  /\ DOMAIN pt.l1 \subseteq 0 .. PagingLast
  /\ \A x \in DOMAIN pt.l1 :
       pt.l1[x] = IF x % 3 = 0 THEN Paging!Leaf(D) ELSE Paging!Pointer
  /\ DOMAIN pt.l2 \subseteq {x \in 0 .. PagingLast : x % 3 # 0}
  /\ \A x \in DOMAIN pt.l2 :
       pt.l2[x] = IF x % 3 = 1 THEN Paging!Leaf(D + P * x) ELSE Paging!Pointer
  /\ DOMAIN pt.l3 \subseteq {x \in 0 .. PagingLast : x % 3 = 2}
  /\ \A x \in DOMAIN pt.l3 : pt.l3[x] = Paging!Leaf(D + P + x)

\* mapping.c: the second gigabyte is a pointer until the store in the middle of
\* the table, and a gigapage in all the loads.
MappingTables ==
  /\ DOMAIN pt.l1 \subseteq {0, 1}
  /\ 0 \in DOMAIN pt.l1 => pt.l1[0] = Paging!Pointer
  /\ 1 \in DOMAIN pt.l1 => pt.l1[1] \in {Paging!Pointer, Paging!Leaf(D)}
  /\ DOMAIN pt.l2 \subseteq {0}
  /\ 0 \in DOMAIN pt.l2 => pt.l2[0] = Paging!Pointer
  /\ DOMAIN pt.l3 \subseteq 0 .. Half - 1
  /\ \A x \in DOMAIN pt.l3 :
       pt.l3[x] = IF x = 0 THEN Paging!Leaf(D) ELSE Paging!Leaf(D + P + x)
  /\ phase = "store" /\ i < Half /\ 1 \in DOMAIN pt.l1 => pt.l1[1] = Paging!Pointer
  /\ phase # "store" => 1 \in DOMAIN pt.l1 /\ pt.l1[1] = Paging!Leaf(D)

Tables ==
  /\ pt = [l1 |-> pt.l1, l2 |-> pt.l2, l3 |-> pt.l3]
  /\ IF test = "paging" THEN PagingTables ELSE MappingTables

\* Where the two loops are, and what has faulted: never a load of mapping.c
AccessInv ==
  /\ phase \in {"store", "load", "done"}
  /\ i \in 1 .. Paging!Last(test)
  /\ finish \in {"none", "pass"}
  /\ badvaddr \in {Paging!None, 0, IF phase = "store" THEN Paging!StoreVa(i)
                                                      ELSE Paging!LoadVa(i)}
  /\ test = "mapping" /\ phase # "store" => badvaddr \in {Paging!None, 0}
  /\ \A va \in DOMAIN tlb : tlb[va] = Paging!Walk(va)

\* The stores that have been made
Made == IF phase = "store" THEN 1 .. i - 1 ELSE 1 .. Paging!Last(test)

\* Memory holds them and nothing else.
Stores ==
  /\ \A f \in DOMAIN mem : \E n \in Made : f = Target(n)
  /\ \A n \in Made : Target(n) \in DOMAIN mem /\ mem[Target(n)] = n

\* The user's stack has been in the first frame of the image, or nowhere yet.
StackInv == stack \subseteq {D}

PagingInv == Tables /\ AccessInv /\ Stores /\ StackInv

-----------------------------------------------------------------------------
(* Addresses *)

\* What is assumed of the sizes.
LEMMA Sizes ==
  /\ P \in Nat /\ P >= 2
  /\ Half \in Nat /\ 2 * Half <= P /\ P <= 2 * Half + 1
  /\ PagingLast \in Nat /\ 1 <= PagingLast /\ PagingLast < P
  /\ KernelPages \in Nat /\ 1 <= KernelPages /\ KernelPages <= Half
  /\ P * P \in Nat /\ P * P >= P
  /\ D = 2 * (P * P) /\ D \in Nat
BY VirtualMemoryTestsAssumption
DEF Paging!DemandPagingAssumption, P, Half, D, Paging!DRAM_BASE, Paging!GPGSIZE

\* Division undoes multiplication.
LEMMA DivMod ==
  ASSUME NEW d \in Nat \ {0}, NEW q \in Nat, NEW r \in 0 .. d - 1
  PROVE  (q * d + r) \div d = q /\ (q * d + r) % d = r
OBVIOUS

\* vpn2, vpn1 and vpn0 find the three indices of a page.
LEMMA VpnOf ==
  ASSUME NEW a \in 0 .. P - 1, NEW b \in 0 .. P - 1, NEW c \in 0 .. P - 1
  PROVE  /\ Va(a, b, c) \in Nat
         /\ Paging!vpn2(Va(a, b, c)) = a
         /\ Paging!vpn1(Va(a, b, c)) = b
         /\ Paging!vpn0(Va(a, b, c)) = c
         /\ Va(a, b, c) % Paging!GPGSIZE = b * P + c
         /\ Va(a, b, c) % Paging!MPGSIZE = c
<1> DEFINE va == Va(a, b, c)
<1>1. P \in Nat \ {0} /\ P * P \in Nat \ {0} /\ 0 \in 0 .. P - 1
  BY Sizes
<1>2. /\ a * P + b \in Nat
      /\ va = (a * P + b) * P + c
      /\ va = a * (P * P) + (b * P + c)
      /\ va \in Nat
  BY <1>1 DEF Va
<1>3. b * P + c \in 0 .. (P * P) - 1
  BY <1>1
<1>4. va % P = c /\ va \div P = a * P + b
  <2> DEFINE q == a * P + b
  <2>1. q \in Nat /\ va = q * P + c
    BY <1>2
  <2> HIDE DEF q
  <2>2. (q * P + c) % P = c /\ (q * P + c) \div P = q
    BY <2>1, <1>1, DivMod
  <2> QED
    BY <2>1, <2>2 DEF q
<1>5. (a * P + b) % P = b
  BY <1>1, DivMod
<1>6. va \div (P * P) = a /\ va % (P * P) = b * P + c
  <2> DEFINE r == b * P + c
             d == P * P
  <2>1. r \in 0 .. d - 1 /\ va = a * d + r /\ d \in Nat \ {0} /\ a \in Nat
    BY <1>1, <1>2, <1>3
  <2> HIDE DEF r, d
  <2>2. (a * d + r) \div d = a /\ (a * d + r) % d = r
    BY ONLY <2>1, DivMod
  <2> QED
    BY <2>1, <2>2 DEF r, d
<1>7. (0 * P + a) % P = a
  BY <1>1, DivMod
<1>8. a % P = a
  BY <1>1, <1>7
<1> QED
  BY <1>2, <1>4, <1>5, <1>6, <1>8
  DEF P, Paging!vpn2, Paging!vpn1, Paging!vpn0, Paging!GPGSIZE, Paging!MPGSIZE

\* The addresses the two programs touch
LEMMA Addresses ==
  /\ 0 = Va(0, 0, 0)
  /\ test = "paging" => \A n \in 0 .. PagingLast :
       Paging!StoreVa(n) = Va(n, n, n) /\ Paging!LoadVa(n) = Va(n, n, n)
  /\ test = "mapping" => \A n \in 1 .. P - 1 :
       /\ Paging!StoreVa(n) = Va(1, 0, n)
       /\ Paging!LoadVa(n) = IF n < Half THEN Va(1, 1, n) ELSE Va(1, 0, n)
<1>1. P \in Nat /\ P * P \in Nat
  BY Sizes
<1>2. 0 = Va(0, 0, 0)
  BY <1>1 DEF Va
<1>3. ASSUME test = "paging", NEW n \in 0 .. PagingLast
      PROVE  Paging!StoreVa(n) = Va(n, n, n) /\ Paging!LoadVa(n) = Va(n, n, n)
  <2>1. Paging!StoreVa(n) = n * (P * P + P + 1) /\ Paging!LoadVa(n) = Paging!StoreVa(n)
    BY <1>3 DEF Paging!StoreVa, Paging!LoadVa, Paging!GPGSIZE, Paging!MPGSIZE, P
  <2>2. n * (P * P + P + 1) = n * (P * P) + n * P + n
    BY <1>1
  <2> QED
    BY <2>1, <2>2 DEF Va
<1>4. ASSUME test = "mapping", NEW n \in 1 .. P - 1
      PROVE  /\ Paging!StoreVa(n) = Va(1, 0, n)
             /\ Paging!LoadVa(n) = IF n < Half THEN Va(1, 1, n) ELSE Va(1, 0, n)
  <2>1. /\ Paging!StoreVa(n) = P * P + n
        /\ Paging!LoadVa(n) = IF n < Half THEN P * P + P + n ELSE P * P + n
    BY <1>4
    DEF Paging!StoreVa, Paging!StoreVaOfMapping, Paging!LoadVa, Paging!GPGSIZE,
        Paging!MPGSIZE, P, Half
  <2>2. Va(1, 0, n) = P * P + n /\ Va(1, 1, n) = P * P + P + n
    BY <1>1 DEF Va
  <2> QED
    BY <2>1, <2>2
<1> QED
  BY <1>2, <1>3, <1>4

\* The hart's walk, by the three indices
LEMMA WalkAt ==
  ASSUME NEW a \in 0 .. P - 1, NEW b \in 0 .. P - 1, NEW c \in 0 .. P - 1
  PROVE  Paging!Walk(Va(a, b, c)) =
           IF a \notin DOMAIN pt.l1 THEN Paging!Fault
           ELSE IF pt.l1[a].leaf THEN pt.l1[a].frame + (b * P + c)
           ELSE IF b \notin DOMAIN pt.l2 THEN Paging!Fault
           ELSE IF pt.l2[b].leaf THEN pt.l2[b].frame + c
           ELSE IF c \notin DOMAIN pt.l3 THEN Paging!Fault
           ELSE pt.l3[c].frame
BY VpnOf DEF Paging!Walk

-----------------------------------------------------------------------------
(* Walks *)

\* The walk for a page of paging.c fails or ends at its frame.
LEMMA WalkOfPaging ==
  ASSUME test = "paging", Tables, NEW n \in 0 .. PagingLast
  PROVE  Paging!Walk(Va(n, n, n)) \in {Paging!Fault, Target(n)}
<1>1. n \in 0 .. P - 1 /\ n \in Nat /\ D \in Nat /\ P \in Nat
  BY Sizes
<1>2. PagingTables
  BY DEF Tables
<1>3. n % 3 = 0 \/ n % 3 = 1 \/ n % 3 = 2
  BY <1>1
<1>4. Target(n) = IF n % 3 = 2 THEN D + P + n ELSE D + n * P + n
  BY DEF Target
<1>5. n * P \in Nat /\ n * P = P * n
  BY <1>1
<1> DEFINE w == Paging!Walk(Va(n, n, n))
<1>6. w = IF n \notin DOMAIN pt.l1 THEN Paging!Fault
           ELSE IF pt.l1[n].leaf THEN pt.l1[n].frame + (n * P + n)
           ELSE IF n \notin DOMAIN pt.l2 THEN Paging!Fault
           ELSE IF pt.l2[n].leaf THEN pt.l2[n].frame + n
           ELSE IF n \notin DOMAIN pt.l3 THEN Paging!Fault
           ELSE pt.l3[n].frame
  BY <1>1, WalkAt
<1> HIDE DEF w
<1>7. CASE n % 3 = 0
  <2>1. n \in DOMAIN pt.l1 => pt.l1[n].leaf /\ pt.l1[n].frame = D
    BY <1>2, <1>7 DEF PagingTables, Paging!Leaf
  <2>2. n \in DOMAIN pt.l1 => w = D + (n * P + n)
    BY <1>6, <2>1
  <2>3. Target(n) = D + (n * P + n)
    BY <1>1, <1>4, <1>5, <1>7
  <2> QED
    BY <1>6, <2>2, <2>3 DEF w
<1>8. CASE n % 3 = 1
  <2>1. n \in DOMAIN pt.l1 => ~pt.l1[n].leaf
    BY <1>2, <1>8 DEF PagingTables, Paging!Pointer
  <2>2. n \in DOMAIN pt.l2 => pt.l2[n].leaf /\ pt.l2[n].frame = D + P * n
    <3>1. n \in DOMAIN pt.l2 => pt.l2[n] = Paging!Leaf(D + P * n)
      BY <1>2, <1>8 DEF PagingTables
    <3> QED
      BY <3>1 DEF Paging!Leaf
  <2>3. Target(n) = D + P * n + n
    BY <1>1, <1>4, <1>5, <1>8
  <2> QED
    BY <1>6, <2>1, <2>2, <2>3 DEF w
<1>9. CASE n % 3 = 2
  <2>1. n \in DOMAIN pt.l1 => ~pt.l1[n].leaf
    BY <1>2, <1>9 DEF PagingTables, Paging!Pointer
  <2>2. n \in DOMAIN pt.l2 => ~pt.l2[n].leaf
    BY <1>2, <1>9 DEF PagingTables, Paging!Pointer
  <2>3. n \in DOMAIN pt.l3 => pt.l3[n].frame = D + P + n
    <3>1. n \in DOMAIN pt.l3 => pt.l3[n] = Paging!Leaf(D + P + n)
      BY <1>2 DEF PagingTables
    <3> QED
      BY <3>1 DEF Paging!Leaf
  <2>4. Target(n) = D + P + n
    BY <1>4, <1>9
  <2> QED
    BY <1>6, <2>1, <2>2, <2>3, <2>4 DEF w
<1> QED
  BY <1>3, <1>7, <1>8, <1>9

\* The indices of mapping.c are indices of the tables.
LEMMA MappingIndices ==
  /\ 0 \in 0 .. P - 1 /\ 1 \in 0 .. P - 1
  /\ \A n \in 1 .. P - 1 : n \in 0 .. P - 1 /\ n \in Nat
BY Sizes

\* In mapping.c the walk for the store that comes next fails or ends at its
\* frame.
LEMMA WalkOfStore ==
  ASSUME test = "mapping", Tables, phase = "store", i \in 1 .. P - 1
  PROVE  Paging!Walk(Va(1, 0, i)) \in {Paging!Fault, Target(i)}
<1>1. MappingTables
  BY DEF Tables
<1>2. Paging!Walk(Va(1, 0, i)) =
           IF 1 \notin DOMAIN pt.l1 THEN Paging!Fault
           ELSE IF pt.l1[1].leaf THEN pt.l1[1].frame + (0 * P + i)
           ELSE IF 0 \notin DOMAIN pt.l2 THEN Paging!Fault
           ELSE IF pt.l2[0].leaf THEN pt.l2[0].frame + i
           ELSE IF i \notin DOMAIN pt.l3 THEN Paging!Fault
           ELSE pt.l3[i].frame
  BY MappingIndices, WalkAt
<1>3. i \in Nat /\ i # 0 /\ 0 * P + i = i
  BY Sizes
<1>4. 0 \in DOMAIN pt.l2 => ~pt.l2[0].leaf
  BY <1>1 DEF MappingTables, Paging!Pointer
<1>5. CASE i < Half
  <2>1. 1 \in DOMAIN pt.l1 => ~pt.l1[1].leaf
    BY <1>1, <1>5 DEF MappingTables, Paging!Pointer
  <2>2. i \in DOMAIN pt.l3 => pt.l3[i].frame = D + P + i
    <3>1. i \in DOMAIN pt.l3 => pt.l3[i] = Paging!Leaf(D + P + i)
      BY <1>1, <1>3 DEF MappingTables
    <3> QED
      BY <3>1 DEF Paging!Leaf
  <2>3. Target(i) = D + P + i
    BY <1>5 DEF Target
  <2> QED
    BY <1>2, <1>4, <2>1, <2>2, <2>3
<1>6. CASE ~(i < Half)
  <2>1. i \notin DOMAIN pt.l3
    BY <1>1, <1>6, <1>3, Sizes DEF MappingTables
  <2>2. 1 \in DOMAIN pt.l1 /\ pt.l1[1].leaf => pt.l1[1].frame = D
    BY <1>1 DEF MappingTables, Paging!Pointer, Paging!Leaf
  <2>3. Target(i) = D + i
    BY <1>6 DEF Target
  <2> QED
    BY <1>2, <1>3, <1>4, <2>1, <2>2, <2>3
<1> QED
  BY <1>5, <1>6

\* ... and after the stores the walk for each load ends at the frame of its
\* store: it goes through the gigapage.
LEMMA WalkOfLoad ==
  ASSUME test = "mapping", Tables, phase # "store", NEW n \in 1 .. P - 1
  PROVE  Paging!Walk(Paging!LoadVa(n)) = Target(n)
<1>1. 1 \in DOMAIN pt.l1 /\ pt.l1[1].leaf /\ pt.l1[1].frame = D
  BY DEF Tables, MappingTables, Paging!Leaf
<1>2. D \in Nat /\ P \in Nat /\ n \in Nat
  BY Sizes
<1>3. /\ Paging!Walk(Va(1, 1, n)) = D + (1 * P + n)
      /\ Paging!Walk(Va(1, 0, n)) = D + (0 * P + n)
  BY <1>1, MappingIndices, WalkAt
<1>4. D + (1 * P + n) = D + P + n /\ D + (0 * P + n) = D + n
  BY <1>2
<1> QED
  BY <1>3, <1>4, Addresses DEF Target

\* The walk for the user's code and stack fails or ends at the first frame.
LEMMA WalkOfStack ==
  ASSUME test \in Paging!Tests, Tables
  PROVE  Paging!Walk(0) \in {Paging!Fault, D}
<1>1. P \in Nat /\ D \in Nat /\ 0 \in 0 .. PagingLast /\ 0 = Va(0, 0, 0)
  BY Sizes, Addresses
<1>2. CASE test = "paging"
  <2>1. Target(0) = D
    BY <1>1, <1>2 DEF Target
  <2> QED
    BY <1>1, <1>2, <2>1, WalkOfPaging
<1>3. CASE test = "mapping"
  <2>1. MappingTables
    BY <1>3 DEF Tables
  <2>2. /\ 0 \in DOMAIN pt.l1 => ~pt.l1[0].leaf
        /\ 0 \in DOMAIN pt.l2 => ~pt.l2[0].leaf
    BY <2>1 DEF MappingTables, Paging!Pointer
  <2>3. 0 \in DOMAIN pt.l3 => pt.l3[0].frame = D
    <3>1. 0 \in DOMAIN pt.l3 => pt.l3[0] = Paging!Leaf(D)
      BY <2>1 DEF MappingTables
    <3> QED
      BY <3>1 DEF Paging!Leaf
  <2>4. Paging!Walk(Va(0, 0, 0)) =
             IF 0 \notin DOMAIN pt.l1 THEN Paging!Fault
             ELSE IF pt.l1[0].leaf THEN pt.l1[0].frame + (0 * P + 0)
             ELSE IF 0 \notin DOMAIN pt.l2 THEN Paging!Fault
             ELSE IF pt.l2[0].leaf THEN pt.l2[0].frame + 0
             ELSE IF 0 \notin DOMAIN pt.l3 THEN Paging!Fault
             ELSE pt.l3[0].frame
    BY MappingIndices, WalkAt
  <2> QED
    BY <1>1, <2>2, <2>3, <2>4
<1> QED
  BY <1>2, <1>3 DEF Paging!Tests

\* Every store of a program has a frame of its own, outside the kernel image.
LEMMA Targets ==
  ASSUME test \in Paging!Tests
  PROVE  \A n \in 1 .. Paging!Last(test) :
           /\ Target(n) \in Nat
           /\ Target(n) \notin D .. D + KernelPages - 1
           /\ \A m \in 1 .. Paging!Last(test) : Target(m) = Target(n) => m = n
<1>1. /\ P \in Nat /\ P >= 2 /\ Half \in Nat /\ 2 * Half <= P
      /\ KernelPages \in Nat /\ KernelPages <= Half /\ D \in Nat
      /\ PagingLast \in Nat /\ PagingLast < P
  BY Sizes
<1>2. CASE test = "mapping"
  BY <1>1, <1>2 DEF Target, Paging!Last, P
<1>3. CASE test = "paging"
  <2>1. Paging!Last(test) = PagingLast
    BY <1>3 DEF Paging!Last
  <2>2. ASSUME NEW n \in 1 .. PagingLast
        PROVE  /\ n * P \in Nat /\ n * P >= P
               /\ n > 1 => n * P >= 2 * P
    BY <1>1
  <2>3. ASSUME NEW n \in 1 .. PagingLast
        PROVE  Target(n) \in Nat /\ Target(n) \notin D .. D + KernelPages - 1
    BY <1>1, <1>3, <2>2 DEF Target
  <2>4. ASSUME NEW n \in 1 .. PagingLast, NEW m \in 1 .. PagingLast, m < n
        PROVE  Target(m) # Target(n)
    <3>1. n * P = m * P + (n - m) * P /\ (n - m) * P \in Nat
      BY <1>1, <2>4
    <3>2. n > 1 /\ n * P >= 2 * P /\ m * P \in Nat /\ n < P /\ m < P
      BY <1>1, <2>2, <2>4
    <3>3. CASE n % 3 = 2 /\ m % 3 = 2
      BY <1>1, <1>3, <2>4, <3>3 DEF Target
    <3>4. CASE n % 3 # 2 /\ m % 3 # 2
      <4>1. Target(m) = D + m * P + m /\ Target(n) = D + n * P + n
        BY <1>3, <3>4 DEF Target
      <4> QED
        BY <1>1, <2>4, <3>1, <3>2, <4>1
    <3>5. CASE n % 3 # 2 /\ m % 3 = 2
      <4>1. Target(m) = D + P + m /\ Target(n) = D + n * P + n
        BY <1>3, <3>5 DEF Target
      <4> QED
        BY <1>1, <2>4, <3>2, <4>1
    <3>6. CASE n % 3 = 2 /\ m % 3 # 2
      <4>1. Target(m) = D + m * P + m /\ Target(n) = D + P + n
        BY <1>3, <3>6 DEF Target
      <4>2. CASE m = 1
        <5>1. m * P = P
          BY <1>1, <4>2
        <5> QED
          BY <1>1, <2>4, <4>1, <5>1
      <4>3. CASE m # 1
        <5>1. m * P >= 2 * P
          BY <2>2, <4>3
        <5> QED
          BY <1>1, <2>4, <3>2, <4>1, <5>1
      <4> QED
        BY <4>2, <4>3
    <3> QED
      BY <3>3, <3>4, <3>5, <3>6
  <2>5. ASSUME NEW n \in 1 .. PagingLast, NEW m \in 1 .. PagingLast,
               Target(m) = Target(n)
        PROVE  m = n
    BY <1>1, <2>4, <2>5
  <2> QED
    BY <2>1, <2>3, <2>5
<1> QED
  BY <1>2, <1>3 DEF Paging!Tests

-----------------------------------------------------------------------------
(* The handler *)

\* What the three kinds of mapping do to the tables, by the three indices
LEMMA Mappings ==
  ASSUME pt = [l1 |-> pt.l1, l2 |-> pt.l2, l3 |-> pt.l3],
         NEW a \in 0 .. P - 1, NEW b \in 0 .. P - 1, NEW c \in 0 .. P - 1
  PROVE  /\ Paging!GigapageInit(Va(a, b, c)) =
              [l1 |-> Paging!Put(pt.l1, a, Paging!Leaf(D)), l2 |-> pt.l2, l3 |-> pt.l3]
         /\ Paging!MegapageInit(Va(a, b, c)) =
              [l1 |-> Paging!Put(pt.l1, a, Paging!Pointer),
               l2 |-> Paging!Put(pt.l2, b, Paging!Leaf(D + P * b)), l3 |-> pt.l3]
         /\ Paging!PageInit(Va(a, b, c)) =
              [l1 |-> Paging!Put(pt.l1, a, Paging!Pointer),
               l2 |-> Paging!Put(pt.l2, b, Paging!Pointer),
               l3 |-> Paging!Put(pt.l3, c, Paging!Leaf(D + P + c))]
         /\ Paging!ThreeLevels(Va(a, b, c), D) =
              [l1 |-> Paging!Put(pt.l1, a, Paging!Pointer),
               l2 |-> Paging!Put(pt.l2, b, Paging!Pointer),
               l3 |-> Paging!Put(pt.l3, c, Paging!Leaf(D))]
<1> DEFINE va == Va(a, b, c)
<1>1. /\ Paging!vpn2(va) = a /\ Paging!vpn1(va) = b /\ Paging!vpn0(va) = c
  BY VpnOf
<1> HIDE DEF va
<1>2. Paging!GigapageInit(va) =
        [l1 |-> Paging!Put(pt.l1, a, Paging!Leaf(D)), l2 |-> pt.l2, l3 |-> pt.l3]
  BY <1>1 DEF Paging!GigapageInit, D
<1>3. Paging!MegapageInit(va) =
        [l1 |-> Paging!Put(pt.l1, a, Paging!Pointer),
         l2 |-> Paging!Put(pt.l2, b, Paging!Leaf(D + P * b)), l3 |-> pt.l3]
  <2>1. Paging!MPGSIZE = P /\ Paging!DRAM_BASE = D
    BY DEF Paging!MPGSIZE, D, P
  <2>2. Paging!MegapageInit(va) =
          [pt EXCEPT !.l1 = Paging!Put(pt.l1, a, Paging!Pointer),
                     !.l2 = Paging!Put(pt.l2, b, Paging!Leaf(D + P * b))]
    BY <1>1, <2>1 DEF Paging!MegapageInit
  <2> QED
    BY <2>2
<1>4. Paging!PageInit(va) =
        [l1 |-> Paging!Put(pt.l1, a, Paging!Pointer),
         l2 |-> Paging!Put(pt.l2, b, Paging!Pointer),
         l3 |-> Paging!Put(pt.l3, c, Paging!Leaf(D + P + c))]
  BY <1>1 DEF Paging!PageInit, Paging!ThreeLevels, Paging!MPGSIZE, D, P
<1>5. Paging!ThreeLevels(va, D) =
        [l1 |-> Paging!Put(pt.l1, a, Paging!Pointer),
         l2 |-> Paging!Put(pt.l2, b, Paging!Pointer),
         l3 |-> Paging!Put(pt.l3, c, Paging!Leaf(D))]
  BY <1>1 DEF Paging!ThreeLevels
<1> QED
  BY <1>2, <1>3, <1>4, <1>5 DEF va

\* paging.c: the entry written for page n is the one Tables has for it.
LEMMA HandlePaging ==
  ASSUME test = "paging", Tables, NEW n \in 0 .. PagingLast, test' = test,
         pt' = Paging!Mapped(Va(n, n, n))
  PROVE  Tables'
<1>1. n \in 0 .. P - 1 /\ n \in Nat /\ D \in Nat /\ P \in Nat
  BY Sizes
<1>2. PagingTables /\ pt = [l1 |-> pt.l1, l2 |-> pt.l2, l3 |-> pt.l3]
  BY DEF Tables
<1>3. Paging!vpn2(Va(n, n, n)) = n /\ Paging!vpn1(Va(n, n, n)) = n
  BY <1>1, VpnOf
<1>4. pt' = IF n % 3 = 0 THEN Paging!GigapageInit(Va(n, n, n))
            ELSE IF n % 3 = 1 THEN Paging!MegapageInit(Va(n, n, n))
            ELSE Paging!PageInit(Va(n, n, n))
  BY <1>3 DEF Paging!Mapped, Paging!MapForPaging
<1>5. n % 3 = 0 \/ n % 3 = 1 \/ n % 3 = 2
  BY <1>1
<1>6. PagingTables' /\ pt' = [l1 |-> pt'.l1, l2 |-> pt'.l2, l3 |-> pt'.l3]
  <2>1. CASE n % 3 = 0
    <3>1. pt' = [l1 |-> Paging!Put(pt.l1, n, Paging!Leaf(D)), l2 |-> pt.l2, l3 |-> pt.l3]
      BY <1>1, <1>2, <1>4, <2>1, Mappings
    <3>2. /\ pt'.l1 = Paging!Put(pt.l1, n, Paging!Leaf(D))
          /\ pt'.l2 = pt.l2 /\ pt'.l3 = pt.l3
      BY <3>1
    <3>3. /\ DOMAIN pt'.l1 = DOMAIN pt.l1 \union {n}
          /\ \A x \in DOMAIN pt'.l1 :
               pt'.l1[x] = IF x = n THEN Paging!Leaf(D) ELSE pt.l1[x]
      BY <3>2 DEF Paging!Put
    <3>4. PagingTables'
      BY <1>2, <2>1, <3>2, <3>3 DEF PagingTables
    <3> QED
      BY <3>1, <3>2, <3>4
  <2>2. CASE n % 3 = 1
    <3>1. pt' = [l1 |-> Paging!Put(pt.l1, n, Paging!Pointer),
                 l2 |-> Paging!Put(pt.l2, n, Paging!Leaf(D + P * n)), l3 |-> pt.l3]
      BY <1>1, <1>2, <1>4, <2>2, Mappings
    <3>2. /\ pt'.l1 = Paging!Put(pt.l1, n, Paging!Pointer)
          /\ pt'.l2 = Paging!Put(pt.l2, n, Paging!Leaf(D + P * n)) /\ pt'.l3 = pt.l3
      BY <3>1
    <3>3. /\ DOMAIN pt'.l1 = DOMAIN pt.l1 \union {n}
          /\ \A x \in DOMAIN pt'.l1 :
               pt'.l1[x] = IF x = n THEN Paging!Pointer ELSE pt.l1[x]
      BY <3>2 DEF Paging!Put
    <3>4. /\ DOMAIN pt'.l2 = DOMAIN pt.l2 \union {n}
          /\ \A x \in DOMAIN pt'.l2 :
               pt'.l2[x] = IF x = n THEN Paging!Leaf(D + P * n) ELSE pt.l2[x]
      BY <3>2 DEF Paging!Put
    <3>5. PagingTables'
      BY <1>2, <2>2, <3>2, <3>3, <3>4 DEF PagingTables
    <3> QED
      BY <3>1, <3>2, <3>5
  <2>3. CASE n % 3 = 2
    <3>1. pt' = [l1 |-> Paging!Put(pt.l1, n, Paging!Pointer),
                 l2 |-> Paging!Put(pt.l2, n, Paging!Pointer),
                 l3 |-> Paging!Put(pt.l3, n, Paging!Leaf(D + P + n))]
      BY <1>1, <1>2, <1>4, <2>3, Mappings
    <3>2. /\ pt'.l1 = Paging!Put(pt.l1, n, Paging!Pointer)
          /\ pt'.l2 = Paging!Put(pt.l2, n, Paging!Pointer)
          /\ pt'.l3 = Paging!Put(pt.l3, n, Paging!Leaf(D + P + n))
      BY <3>1
    <3>3. /\ DOMAIN pt'.l1 = DOMAIN pt.l1 \union {n}
          /\ \A x \in DOMAIN pt'.l1 :
               pt'.l1[x] = IF x = n THEN Paging!Pointer ELSE pt.l1[x]
      BY <3>2 DEF Paging!Put
    <3>4. /\ DOMAIN pt'.l2 = DOMAIN pt.l2 \union {n}
          /\ \A x \in DOMAIN pt'.l2 :
               pt'.l2[x] = IF x = n THEN Paging!Pointer ELSE pt.l2[x]
      BY <3>2 DEF Paging!Put
    <3>5. /\ DOMAIN pt'.l3 = DOMAIN pt.l3 \union {n}
          /\ \A x \in DOMAIN pt'.l3 :
               pt'.l3[x] = IF x = n THEN Paging!Leaf(D + P + n) ELSE pt.l3[x]
      BY <3>2 DEF Paging!Put
    <3>6. PagingTables'
      BY <1>2, <2>3, <3>3, <3>4, <3>5 DEF PagingTables
    <3> QED
      BY <3>1, <3>2, <3>6
  <2> QED
    BY <1>5, <2>1, <2>2, <2>3
<1> QED
  BY <1>6 DEF Tables

\* mapping.c: the user's own page, wherever the loops are.
LEMMA HandleCode ==
  ASSUME test = "mapping", Tables, UNCHANGED <<test, phase, i>>,
         pt' = Paging!Mapped(Va(0, 0, 0))
  PROVE  Tables'
<1>1. MappingTables /\ pt = [l1 |-> pt.l1, l2 |-> pt.l2, l3 |-> pt.l3]
  BY DEF Tables
<1>2. Paging!vpn0(Va(0, 0, 0)) = 0 /\ Va(0, 0, 0) = 0 /\ ~(0 >= Half) /\ 0 \in 0 .. Half - 1
  BY MappingIndices, VpnOf, Addresses, Sizes
<1>3. pt' = Paging!ThreeLevels(Va(0, 0, 0), D)
  BY <1>2
  DEF Paging!Mapped, Paging!MapForMapping, Paging!PageInitOfMapping, Half, D
<1>4. pt' = [l1 |-> Paging!Put(pt.l1, 0, Paging!Pointer),
             l2 |-> Paging!Put(pt.l2, 0, Paging!Pointer),
             l3 |-> Paging!Put(pt.l3, 0, Paging!Leaf(D))]
  BY <1>1, <1>3, MappingIndices, Mappings
<1>5. /\ pt'.l1 = Paging!Put(pt.l1, 0, Paging!Pointer)
      /\ pt'.l2 = Paging!Put(pt.l2, 0, Paging!Pointer)
      /\ pt'.l3 = Paging!Put(pt.l3, 0, Paging!Leaf(D))
  BY <1>4
<1>6. MappingTables'
  <2>1. /\ DOMAIN pt'.l1 = DOMAIN pt.l1 \union {0}
        /\ \A x \in DOMAIN pt'.l1 :
             pt'.l1[x] = IF x = 0 THEN Paging!Pointer ELSE pt.l1[x]
    BY <1>5 DEF Paging!Put
  <2>2. DOMAIN pt'.l2 = DOMAIN pt.l2 \union {0} /\ pt'.l2[0] = Paging!Pointer
    BY <1>5 DEF Paging!Put
  <2>3. /\ DOMAIN pt'.l3 = DOMAIN pt.l3 \union {0}
        /\ \A x \in DOMAIN pt'.l3 :
             pt'.l3[x] = IF x = 0 THEN Paging!Leaf(D) ELSE pt.l3[x]
    BY <1>5 DEF Paging!Put
  <2> QED
    BY <1>1, <1>2, <2>1, <2>2, <2>3 DEF MappingTables
<1> QED
  BY <1>4, <1>5, <1>6 DEF Tables

\* mapping.c: the page of a store, and then the gigapage.
LEMMA HandleMapping ==
  ASSUME test = "mapping", Tables, phase = "store", i \in 1 .. P - 1,
         UNCHANGED <<test, phase, i>>, pt' = Paging!Mapped(Va(1, 0, i))
  PROVE  Tables'
<1>1. MappingTables /\ pt = [l1 |-> pt.l1, l2 |-> pt.l2, l3 |-> pt.l3]
  BY DEF Tables
<1>2. /\ Paging!vpn0(Va(1, 0, i)) = i
      /\ Va(1, 0, i) # 0
      /\ i \in Nat /\ i # 0
  <2>1. Va(1, 0, i) # 0
    BY Sizes DEF Va
  <2> QED
    BY <2>1, MappingIndices, VpnOf, Sizes
<1>3. pt' = IF i >= Half THEN Paging!GigapageInit(Va(1, 0, i))
                         ELSE Paging!PageInit(Va(1, 0, i))
  BY <1>2 DEF Paging!Mapped, Paging!MapForMapping, Paging!PageInitOfMapping, Half
<1>4. CASE i >= Half
  <2>1. pt' = [l1 |-> Paging!Put(pt.l1, 1, Paging!Leaf(D)), l2 |-> pt.l2, l3 |-> pt.l3]
    BY <1>1, <1>3, <1>4, MappingIndices, Mappings
  <2>2. /\ pt'.l1 = Paging!Put(pt.l1, 1, Paging!Leaf(D))
        /\ pt'.l2 = pt.l2 /\ pt'.l3 = pt.l3
    BY <2>1
  <2>3. ~(i < Half)
    BY <1>2, <1>4, Sizes
  <2>4. MappingTables'
    <3>1. /\ DOMAIN pt'.l1 = DOMAIN pt.l1 \union {1}
          /\ \A x \in DOMAIN pt'.l1 :
               pt'.l1[x] = IF x = 1 THEN Paging!Leaf(D) ELSE pt.l1[x]
      BY <2>2 DEF Paging!Put
    <3> QED
      BY <1>1, <2>2, <2>3, <3>1 DEF MappingTables
  <2> QED
    BY <2>1, <2>2, <2>4 DEF Tables
<1>5. CASE ~(i >= Half)
  <2>1. pt' = [l1 |-> Paging!Put(pt.l1, 1, Paging!Pointer),
               l2 |-> Paging!Put(pt.l2, 0, Paging!Pointer),
               l3 |-> Paging!Put(pt.l3, i, Paging!Leaf(D + P + i))]
    BY <1>1, <1>3, <1>5, MappingIndices, Mappings
  <2>2. /\ pt'.l1 = Paging!Put(pt.l1, 1, Paging!Pointer)
        /\ pt'.l2 = Paging!Put(pt.l2, 0, Paging!Pointer)
        /\ pt'.l3 = Paging!Put(pt.l3, i, Paging!Leaf(D + P + i))
    BY <2>1
  <2>3. i \in 0 .. Half - 1
    BY <1>2, <1>5, Sizes
  <2>4. MappingTables'
    <3>1. /\ DOMAIN pt'.l1 = DOMAIN pt.l1 \union {1}
          /\ \A x \in DOMAIN pt'.l1 :
               pt'.l1[x] = IF x = 1 THEN Paging!Pointer ELSE pt.l1[x]
      BY <2>2 DEF Paging!Put
    <3>2. DOMAIN pt'.l2 = DOMAIN pt.l2 \union {0} /\ pt'.l2[0] = Paging!Pointer
      BY <2>2 DEF Paging!Put
    <3>3. /\ DOMAIN pt'.l3 = DOMAIN pt.l3 \union {i}
          /\ \A x \in DOMAIN pt'.l3 :
               pt'.l3[x] = IF x = i THEN Paging!Leaf(D + P + i) ELSE pt.l3[x]
      BY <2>2 DEF Paging!Put
    <3> QED
      BY <1>1, <1>2, <2>3, <3>1, <3>2, <3>3 DEF MappingTables
  <2> QED
    BY <2>1, <2>2, <2>4 DEF Tables
<1> QED
  BY <1>4, <1>5

-----------------------------------------------------------------------------
(* The steps *)

\* The hart translates as the tables say, whatever it remembers.
LEMMA TranslateIsWalk ==
  ASSUME AccessInv, NEW va
  PROVE  Paging!Translate(va) = Paging!Walk(va)
BY DEF AccessInv, Paging!Translate

\* The current access goes to its frame, if it does not fault.
LEMMA CurrentWalk ==
  ASSUME test \in Paging!Tests, PagingInv
  PROVE  /\ phase = "store" =>
              Paging!Walk(Paging!StoreVa(i)) \in {Paging!Fault, Target(i)}
         /\ phase # "store" => \A n \in 1 .. Paging!Last(test) :
              Paging!Walk(Paging!LoadVa(n)) \in {Paging!Fault, Target(n)}
         /\ phase # "store" /\ test = "mapping" =>
              Paging!Walk(Paging!LoadVa(i)) # Paging!Fault
<1>1. Tables /\ i \in 1 .. Paging!Last(test)
  BY DEF PagingInv, AccessInv
<1>2. CASE test = "paging"
  <2>1. Paging!Last(test) = PagingLast
    BY <1>2 DEF Paging!Last
  <2>2. \A n \in 1 .. PagingLast : n \in 0 .. PagingLast
    BY Sizes
  <2> QED
    BY <1>1, <1>2, <2>1, <2>2, Addresses, WalkOfPaging
<1>3. CASE test = "mapping"
  <2>1. Paging!Last(test) = P - 1
    BY <1>3 DEF Paging!Last, P
  <2>2. phase = "store" => Paging!Walk(Paging!StoreVa(i)) \in {Paging!Fault, Target(i)}
    BY <1>1, <1>3, <2>1, Addresses, WalkOfStore
  <2>3. phase # "store" => \A n \in 1 .. P - 1 : Paging!Walk(Paging!LoadVa(n)) = Target(n)
    BY <1>1, <1>3, WalkOfLoad
  <2>4. \A n \in 1 .. P - 1 : Target(n) # Paging!Fault
    BY <2>1, Targets DEF Paging!Fault
  <2> QED
    BY <1>1, <2>1, <2>2, <2>3, <2>4
<1> QED
  BY <1>2, <1>3 DEF Paging!Tests

\* What depends on the tables alone does not change with the rest.
LEMMA SameTables ==
  ASSUME Tables, UNCHANGED <<test, pt, phase, i>>
  PROVE  Tables' /\ \A va : Paging!Walk(va)' = Paging!Walk(va)
BY DEF Tables, PagingTables, MappingTables, Paging!Walk, Paging!vpn2, Paging!vpn1, Paging!vpn0

\* So the user's stack is in the first frame whenever the user runs.
LEMMA StackKeeps ==
  ASSUME test \in Paging!Tests, PagingInv,
         Paging!Translate(0) # Paging!Fault, Paging!StoreStack
  PROVE  StackInv'
<1>1. Paging!Translate(0) = D
  BY TranslateIsWalk, WalkOfStack DEF PagingInv
<1>2. stack' = stack \union {D} /\ stack \subseteq {D}
  BY <1>1 DEF Paging!StoreStack, Paging!CodeAndStack, PagingInv, StackInv
<1>3. D' = D
  BY DEF D, Paging!DRAM_BASE, Paging!GPGSIZE
<1> QED
  BY <1>2, <1>3 DEF StackInv

\* A page fault is on the page of the code or of the current access.
LEMMA PageFaultKeeps ==
  ASSUME test \in Paging!Tests, PagingInv, Paging!PageFault
  PROVE  PagingInv'
<1>1. PICK va \in {0, IF phase = "store" THEN Paging!StoreVa(i) ELSE Paging!LoadVa(i)} :
        /\ Paging!Translate(va) = Paging!Fault
        /\ badvaddr' = va
        /\ tlb' = Paging!Put(tlb, va, Paging!Fault)
  BY DEF Paging!PageFault, Paging!CodeAndStack
<1>2. UNCHANGED <<test, pt, mem, phase, i, finish>>
  BY DEF Paging!PageFault
<1>3. Tables /\ AccessInv /\ Stores
  BY DEF PagingInv
<1>4. Tables' /\ \A x : Paging!Walk(x)' = Paging!Walk(x)
  BY <1>2, <1>3, SameTables
<1>5. Paging!Walk(va) = Paging!Fault
  BY <1>1, <1>3, TranslateIsWalk
<1>6. test = "mapping" /\ phase # "store" => va = 0
  BY <1>1, <1>5, CurrentWalk
<1>7. \A x \in DOMAIN tlb' : tlb'[x] = Paging!Walk(x)'
  <2>1. /\ DOMAIN tlb' = DOMAIN tlb \union {va}
        /\ \A x \in DOMAIN tlb' : tlb'[x] = IF x = va THEN Paging!Fault ELSE tlb[x]
    BY <1>1 DEF Paging!Put
  <2>2. \A x \in DOMAIN tlb : tlb[x] = Paging!Walk(x)
    BY <1>3 DEF AccessInv
  <2> QED
    BY <1>4, <1>5, <2>1, <2>2
<1>8. /\ Paging!StoreVa(i)' = Paging!StoreVa(i)
      /\ Paging!LoadVa(i)' = Paging!LoadVa(i)
  BY <1>2 DEF Paging!StoreVa, Paging!StoreVaOfMapping, Paging!LoadVa
<1>9. AccessInv'
  BY <1>1, <1>2, <1>3, <1>6, <1>7, <1>8 DEF AccessInv
<1>10. Stores'
  BY <1>2, <1>3 DEF Stores, Made, Target
<1>11. StackInv'
  <2>1. \/ stack' = stack
        \/ Paging!Translate(0) # Paging!Fault /\ Paging!StoreStack
    BY DEF Paging!PageFault, Paging!CodeAndStack
  <2>2. stack' = stack => StackInv'
    BY DEF PagingInv, StackInv, D, Paging!DRAM_BASE, Paging!GPGSIZE
  <2> QED
    BY <2>1, <2>2, StackKeeps
<1> QED
  BY <1>4, <1>9, <1>10, <1>11 DEF PagingInv

\* The handler repairs the tables and flushes; it never gives up.
LEMMA HandleFaultKeeps ==
  ASSUME test \in Paging!Tests, PagingInv, Paging!HandleFault
  PROVE  PagingInv'
<1>1. /\ finish = "none" /\ badvaddr # Paging!None
      /\ badvaddr' = Paging!None /\ tlb' = <<>>
      /\ UNCHANGED <<test, mem, stack, phase, i>>
  BY DEF Paging!HandleFault
<1>2. Tables /\ AccessInv /\ Stores /\ StackInv
  BY DEF PagingInv
<1>3. Tables' /\ finish' = finish
  <2>1. CASE test = "paging"
    <3>1. PICK n \in 0 .. PagingLast : badvaddr = Va(n, n, n)
      <4>1. Paging!Last(test) = PagingLast
        BY <2>1 DEF Paging!Last
      <4>2. 0 \in 0 .. PagingLast /\ i \in 0 .. PagingLast
        BY <1>2, <4>1, Sizes DEF AccessInv
      <4>3. badvaddr \in {Va(0, 0, 0), Va(i, i, i)}
        BY <1>1, <1>2, <2>1, <4>2, Addresses DEF AccessInv
      <4> QED
        BY <4>2, <4>3
    <3>2. n \in 0 .. P - 1
      BY Sizes
    <3>3. ~Paging!Unexpected(badvaddr)
      BY <3>1, <3>2, VpnOf DEF Paging!Unexpected
    <3>4. pt' = Paging!Mapped(Va(n, n, n)) /\ finish' = finish
      BY <3>1, <3>3 DEF Paging!HandleFault
    <3> QED
      BY <1>1, <1>2, <2>1, <3>4, HandlePaging
  <2>2. CASE test = "mapping"
    <3>1. ~Paging!Unexpected(badvaddr)
      BY <2>2 DEF Paging!Unexpected
    <3>2. pt' = Paging!Mapped(badvaddr) /\ finish' = finish
      BY <3>1 DEF Paging!HandleFault
    <3>3. CASE badvaddr = 0
      BY <1>1, <1>2, <2>2, <3>2, <3>3, Addresses, HandleCode
    <3>4. CASE badvaddr # 0
      <4>1. Paging!Last(test) = P - 1
        BY <2>2 DEF Paging!Last, P
      <4>2. phase = "store" /\ i \in 1 .. P - 1 /\ badvaddr = Paging!StoreVa(i)
        BY <1>1, <1>2, <2>2, <3>4, <4>1 DEF AccessInv
      <4> QED
        BY <1>1, <1>2, <2>2, <3>2, <4>2, Addresses, HandleMapping
    <3> QED
      BY <3>3, <3>4
  <2> QED
    BY <2>1, <2>2 DEF Paging!Tests
<1>4. AccessInv'
  <2>1. DOMAIN tlb' = {}
    BY <1>1
  <2> QED
    BY <1>1, <1>2, <1>3, <2>1 DEF AccessInv, Paging!Last, Paging!None
<1>5. Stores'
  BY <1>1, <1>2 DEF Stores, Made, Target, Paging!Last
<1>6. StackInv'
  BY <1>1, <1>2 DEF StackInv, D, Paging!DRAM_BASE, Paging!GPGSIZE
<1> QED
  BY <1>3, <1>4, <1>5, <1>6 DEF PagingInv

\* An access remembers a walk and leaves the tables alone.
LEMMA AccessKeeps ==
  ASSUME AccessInv, NEW va, Paging!Access(va), pt' = pt
  PROVE  /\ finish = "none" /\ badvaddr = Paging!None
         /\ Paging!Translate(va) = Paging!Walk(va)
         /\ Paging!Walk(va) # Paging!Fault
         /\ \A x \in DOMAIN tlb' : tlb'[x] = Paging!Walk(x)'
<1>1. \A x : Paging!Walk(x)' = Paging!Walk(x)
  BY DEF Paging!Walk, Paging!vpn2, Paging!vpn1, Paging!vpn0
<1>2. /\ finish = "none" /\ badvaddr = Paging!None
      /\ Paging!Translate(va) = Paging!Walk(va)
      /\ Paging!Walk(va) # Paging!Fault
      /\ tlb' = Paging!Put(tlb, va, Paging!Walk(va))
  BY TranslateIsWalk DEF Paging!Access
<1>3. /\ DOMAIN tlb' = DOMAIN tlb \union {va}
      /\ \A x \in DOMAIN tlb' : tlb'[x] = IF x = va THEN Paging!Walk(va) ELSE tlb[x]
  BY <1>2 DEF Paging!Put
<1>4. \A x \in DOMAIN tlb : tlb[x] = Paging!Walk(x)
  BY DEF AccessInv
<1> QED
  BY <1>1, <1>2, <1>3, <1>4

\* How the loops go on
LEMMA NextIndexMoves ==
  ASSUME test \in Paging!Tests, i \in 1 .. Paging!Last(test), Paging!NextIndex
  PROVE  /\ Paging!Last(test) \in Nat /\ Paging!Last(test) >= 1
         /\ i' \in 1 .. Paging!Last(test)
         /\ \/ i < Paging!Last(test) /\ i' = i + 1 /\ phase' = phase
            \/ i = Paging!Last(test) /\ phase = "store" /\ phase' = "load"
            \/ i = Paging!Last(test) /\ phase # "store" /\ phase' = "done"
<1>1. Paging!Last(test) \in Nat /\ Paging!Last(test) >= 1
  BY Sizes DEF Paging!Last, P
<1> QED
  BY <1>1 DEF Paging!NextIndex

\* A store goes to its frame; after the last one of mapping.c the gigapage is
\* there.
LEMMA StoreOneKeeps ==
  ASSUME test \in Paging!Tests, PagingInv, Paging!StoreOne
  PROVE  PagingInv'
<1>1. /\ phase = "store" /\ Paging!Access(Paging!StoreVa(i)) /\ Paging!NextIndex
      /\ mem' = Paging!Put(mem, Paging!Translate(Paging!StoreVa(i)), i)
      /\ UNCHANGED <<test, pt, badvaddr, finish>>
  BY DEF Paging!StoreOne
<1>2. Tables /\ AccessInv /\ Stores /\ i \in 1 .. Paging!Last(test)
  BY DEF PagingInv, AccessInv
<1>3. /\ finish = "none" /\ badvaddr = Paging!None
      /\ Paging!Translate(Paging!StoreVa(i)) = Paging!Walk(Paging!StoreVa(i))
      /\ Paging!Walk(Paging!StoreVa(i)) # Paging!Fault
      /\ \A x \in DOMAIN tlb' : tlb'[x] = Paging!Walk(x)'
  BY <1>1, <1>2, AccessKeeps
<1>4. Paging!Walk(Paging!StoreVa(i)) = Target(i)
  BY <1>1, <1>3, CurrentWalk
<1>5. /\ Paging!Last(test) \in Nat /\ Paging!Last(test) >= 1
      /\ i' \in 1 .. Paging!Last(test)
      /\ \/ i < Paging!Last(test) /\ i' = i + 1 /\ phase' = "store"
         \/ i = Paging!Last(test) /\ phase' = "load"
  BY <1>1, <1>2, NextIndexMoves
<1>6. AccessInv'
  BY <1>1, <1>2, <1>3, <1>5 DEF AccessInv, Paging!Last
<1>7. Made' = Made \union {i} /\ i \notin Made /\ Made \subseteq 1 .. Paging!Last(test)
  BY <1>1, <1>2, <1>5 DEF Made, Paging!Last
<1>8. Stores'
  <2>1. \A n : Target(n)' = Target(n)
    BY <1>1 DEF Target
  <2>2. /\ DOMAIN mem' = DOMAIN mem \union {Target(i)}
        /\ \A f \in DOMAIN mem' : mem'[f] = IF f = Target(i) THEN i ELSE mem[f]
    <3>1. mem' = Paging!Put(mem, Target(i), i)
      BY <1>1, <1>3, <1>4
    <3> QED
      BY <3>1 DEF Paging!Put
  <2>3. \A n \in Made : Target(n) # Target(i)
    BY <1>2, <1>7, Targets
  <2>4. \A f \in DOMAIN mem' : \E n \in Made' : f = Target(n)
    BY <1>2, <1>7, <2>2 DEF Stores
  <2>5. \A n \in Made' : Target(n) \in DOMAIN mem' /\ mem'[Target(n)] = n
    BY <1>2, <1>7, <2>2, <2>3 DEF Stores
  <2> QED
    BY <2>1, <2>4, <2>5 DEF Stores
<1>9. Tables'
  <2>1. CASE test = "paging"
    BY <1>1, <1>2, <2>1 DEF Tables, PagingTables
  <2>2. CASE test = "mapping"
    <3>1. Paging!Last(test) = P - 1 /\ i \in Nat /\ i # 0
      BY <1>2, <2>2, Sizes DEF Paging!Last, P
    <3>2. MappingTables
      BY <1>2, <2>2 DEF Tables
    <3>3. phase' = "store" /\ i' < Half => i < Half
      BY <1>5, <3>1, Sizes
    <3>4. phase' # "store" => 1 \in DOMAIN pt.l1 /\ pt.l1[1] = Paging!Leaf(D)
      <4>1. SUFFICES ASSUME i = P - 1
                     PROVE  1 \in DOMAIN pt.l1 /\ pt.l1[1] = Paging!Leaf(D)
        BY <1>5, <3>1
      <4>2. i \notin DOMAIN pt.l3
        BY <3>2, <4>1, Sizes DEF MappingTables
      <4>3. Paging!Walk(Va(1, 0, i)) # Paging!Fault
        BY <1>3, <2>2, <3>1, <1>2, Addresses
      <4>4. 0 \in DOMAIN pt.l2 => ~pt.l2[0].leaf
        BY <3>2 DEF MappingTables, Paging!Pointer
      <4>5. 1 \in DOMAIN pt.l1 /\ pt.l1[1].leaf
        <5>1. i \in 0 .. P - 1
          BY <1>2, <3>1, MappingIndices
        <5> QED
          BY <4>2, <4>3, <4>4, <5>1, MappingIndices, WalkAt
      <4> QED
        BY <3>2, <4>5 DEF MappingTables, Paging!Pointer
    <3>5. MappingTables'
      BY <1>1, <3>2, <3>3, <3>4 DEF MappingTables
    <3> QED
      BY <1>1, <1>2, <2>2, <3>5 DEF Tables
  <2> QED
    BY <2>1, <2>2 DEF Paging!Tests
<1>10. StackInv'
  BY <1>1, StackKeeps DEF Paging!Access, Paging!CodeAndStack
<1> QED
  BY <1>6, <1>8, <1>9, <1>10 DEF PagingInv

\* A load finds what was stored, so that the program goes on.
LEMMA LoadOneKeeps ==
  ASSUME test \in Paging!Tests, PagingInv, Paging!LoadOne
  PROVE  PagingInv'
<1>1. /\ phase = "load" /\ Paging!Access(Paging!LoadVa(i))
      /\ UNCHANGED <<test, pt, mem, badvaddr>>
  BY DEF Paging!LoadOne
<1>2. Tables /\ AccessInv /\ Stores /\ i \in 1 .. Paging!Last(test)
  BY DEF PagingInv, AccessInv
<1>3. /\ finish = "none" /\ badvaddr = Paging!None
      /\ Paging!Translate(Paging!LoadVa(i)) = Paging!Walk(Paging!LoadVa(i))
      /\ Paging!Walk(Paging!LoadVa(i)) # Paging!Fault
      /\ \A x \in DOMAIN tlb' : tlb'[x] = Paging!Walk(x)'
  BY <1>1, <1>2, AccessKeeps
<1>4. Paging!Translate(Paging!LoadVa(i)) = Target(i)
  BY <1>1, <1>2, <1>3, CurrentWalk
<1>5. Target(i) \in DOMAIN mem /\ mem[Target(i)] = i
  BY <1>1, <1>2 DEF Stores, Made
<1>6. Paging!NextIndex /\ finish' = finish
  BY <1>4, <1>5 DEF Paging!LoadOne
<1>7. /\ i' \in 1 .. Paging!Last(test)
      /\ phase' \in {"load", "done"}
  BY <1>1, <1>2, <1>6, NextIndexMoves
<1>8. Made' = Made
  BY <1>1, <1>7 DEF Made, Paging!Last
<1>9. Tables'
  BY <1>1, <1>2, <1>7 DEF Tables, PagingTables, MappingTables
<1>10. AccessInv'
  BY <1>1, <1>2, <1>3, <1>6, <1>7 DEF AccessInv, Paging!Last
<1>11. Stores'
  BY <1>1, <1>2, <1>8 DEF Stores, Target
<1>12. StackInv'
  BY <1>1, StackKeeps DEF Paging!Access, Paging!CodeAndStack
<1> QED
  BY <1>9, <1>10, <1>11, <1>12 DEF PagingInv

-----------------------------------------------------------------------------
(* stream_hammer.c: sets of the two levels, and the blocks that fall in them *)

Line == [block : Nat, dirty : BOOLEAN, good : BOOLEAN]

S1 == Hammer!L1Sets
S2 == L2Sets

\* The q-th block of a set of the first level
Nth(s, q) == q * S1 + s

\* The blocks of the program
Streamed == 0 .. 8 * S2 - 1

\* No block is in two ways of a set.
Distinct(ways) ==
  \A k, j \in 1 .. Len(ways) : ways[k].block = ways[j].block => k = j

\* The ways of set s of the second level
L2Ways(ways, s) ==
  /\ ways \in Seq(Line)
  /\ \A k \in 1 .. Len(ways) : ways[k].block \in Streamed /\ ways[k].block % S2 = s
  /\ Distinct(ways)

\* The second level is twice the first.
LEMMA SetSizes ==
  /\ S1 \in Nat \ {0} /\ S2 \in Nat \ {0} /\ S2 = 2 * S1
BY VirtualMemoryTestsAssumption DEF Hammer!CacheHammerAssumption, S1, S2, Hammer!L1Sets

\* Products grow with their factors.
LEMMA Monotone ==
  ASSUME NEW a \in Nat, NEW b \in Nat, a <= b, NEW d \in Nat
  PROVE  a * d <= b * d
<1>1. PICK c \in Nat : b = a + c
  <2>1. b - a \in Nat /\ b = a + (b - a)
    OBVIOUS
  <2> QED
    BY <2>1
<1>2. (a + c) * d = a * d + c * d /\ a * d \in Nat /\ c * d \in Nat
  OBVIOUS
<1> QED
  BY <1>1, <1>2

\* Quotient and remainder
LEMMA Divide ==
  ASSUME NEW d \in Nat \ {0}, NEW b \in Nat
  PROVE  b % d \in 0 .. d - 1 /\ b \div d \in Nat /\ b = (b \div d) * d + (b % d)
<1>1. b % d \in 0 .. d - 1
  OBVIOUS
<1>2. b \div d \in Nat
  OBVIOUS
<1>3. b = d * (b \div d) + (b % d)
  OBVIOUS
<1> QED
  BY <1>1, <1>2, <1>3

\* A block of the program is in one place of one set of each level.
LEMMA BlockPlaces ==
  ASSUME NEW b \in Streamed
  PROVE  /\ b % S1 \in 0 .. S1 - 1 /\ b \div S1 \in 0 .. 15 /\ b = Nth(b % S1, b \div S1)
         /\ b % S2 \in 0 .. S2 - 1 /\ b \div S2 \in 0 .. 7
         /\ b = (b \div S2) * S2 + (b % S2)
<1>1. ASSUME NEW d \in Nat \ {0}, NEW m \in Nat, b < m * d + d
      PROVE  /\ b % d \in 0 .. d - 1 /\ b \div d \in 0 .. m
             /\ b = (b \div d) * d + (b % d)
  <2>1. b \in Nat
    BY SetSizes DEF Streamed
  <2>2. b % d \in 0 .. d - 1 /\ b \div d \in Nat /\ b = (b \div d) * d + (b % d)
    BY <2>1, Divide
  <2> DEFINE e == b \div d
  <2> HIDE DEF e
  <2>3. e \in Nat /\ e * d <= b
    BY <2>2, <2>1 DEF e
  <2>4. e <= m
    <3> SUFFICES ASSUME e > m PROVE FALSE
      BY <2>3
    <3>1. (m + 1) * d <= e * d
      BY <2>3, Monotone
    <3>2. (m + 1) * d = m * d + d /\ e * d \in Nat /\ m * d \in Nat
      BY <2>3
    <3> QED
      BY <3>1, <3>2, <2>3, <2>1, <1>1
  <2> QED
    BY <2>2, <2>4, <2>3 DEF e
<1>2. S1 \in Nat \ {0} /\ S2 \in Nat \ {0} /\ b < 15 * S1 + S1 /\ b < 7 * S2 + S2
  BY SetSizes DEF Streamed
<1>3. 15 \in Nat /\ 7 \in Nat
  OBVIOUS
<1>4. /\ b % S1 \in 0 .. S1 - 1 /\ b \div S1 \in 0 .. 15
      /\ b = (b \div S1) * S1 + (b % S1)
  BY <1>1, <1>2, <1>3
<1>5. /\ b % S2 \in 0 .. S2 - 1 /\ b \div S2 \in 0 .. 7
      /\ b = (b \div S2) * S2 + (b % S2)
  BY <1>1, <1>2, <1>3
<1> QED
  BY <1>4, <1>5 DEF Nth

\* The blocks of a set of the first level, one by one
LEMMA NthPlaces ==
  ASSUME NEW s \in 0 .. S1 - 1, NEW q \in 0 .. 15
  PROVE  Nth(s, q) \in Streamed /\ Nth(s, q) % S1 = s /\ Nth(s, q) \div S1 = q
<1>1. S1 \in Nat \ {0} /\ q \in Nat
  BY SetSizes
<1>2. Nth(s, q) % S1 = s /\ Nth(s, q) \div S1 = q
  BY <1>1, DivMod DEF Nth
<1>3. q * S1 <= 15 * S1 /\ q * S1 \in Nat
  BY <1>1
<1> QED
  BY <1>1, <1>2, <1>3, SetSizes DEF Nth, Streamed

-----------------------------------------------------------------------------
(* Ways *)

\* What is left of the ways of a set when a block is taken out
LEMMA OthersOf ==
  ASSUME NEW ways \in Seq(Line), Distinct(ways), NEW b
  PROVE  LET o == Hammer!Others(ways, b)
         IN  /\ o \in Seq(Line) /\ Distinct(o)
             /\ \A k \in 1 .. Len(o) : o[k].block # b /\ \E j \in 1 .. Len(ways) : o[k] = ways[j]
             /\ \A k \in 1 .. Len(ways) :
                  ways[k].block # b => \E j \in 1 .. Len(o) : o[j] = ways[k]
             /\ IF Hammer!Holds(ways, b) THEN Len(o) = Len(ways) - 1 ELSE o = ways
<1> DEFINE o == Hammer!Others(ways, b)
<1>1. CASE ~Hammer!Holds(ways, b)
  BY <1>1 DEF Hammer!Others, Hammer!Holds
<1>2. CASE Hammer!Holds(ways, b)
  <2> DEFINE w == Hammer!WayOf(ways, b)
             n == Len(ways)
  <2>1. w \in 1 .. n /\ ways[w].block = b
    BY <1>2 DEF Hammer!Holds, Hammer!WayOf
  <2>2. o = SubSeq(ways, 1, w - 1) \o SubSeq(ways, w + 1, n)
    BY <1>2 DEF Hammer!Others, Hammer!RemoveAt
  <2> HIDE DEF w, o
  <2>3. n \in Nat /\ w \in Nat
    BY <2>1
  <2>4. /\ SubSeq(ways, 1, w - 1) \in Seq(Line) /\ Len(SubSeq(ways, 1, w - 1)) = w - 1
        /\ \A k \in 1 .. w - 1 : SubSeq(ways, 1, w - 1)[k] = ways[k]
    BY <2>1, <2>3
  <2>5. /\ SubSeq(ways, w + 1, n) \in Seq(Line) /\ Len(SubSeq(ways, w + 1, n)) = n - w
        /\ \A k \in 1 .. n - w : SubSeq(ways, w + 1, n)[k] = ways[w + k]
    BY <2>1, <2>3
  <2>6. /\ o \in Seq(Line) /\ Len(o) = n - 1
        /\ \A k \in 1 .. n - 1 : o[k] = ways[IF k < w THEN k ELSE k + 1]
    <3> DEFINE p == SubSeq(ways, 1, w - 1)
               t == SubSeq(ways, w + 1, n)
    <3>0. /\ o \in Seq(Line) /\ Len(o) = Len(p) + Len(t)
          /\ \A k \in 1 .. Len(p) + Len(t) :
               o[k] = IF k <= Len(p) THEN p[k] ELSE t[k - Len(p)]
      BY <2>2, <2>4, <2>5, ConcatProperties
    <3> HIDE DEF p, t
    <3>1. o \in Seq(Line) /\ Len(o) = n - 1 /\ Len(p) = w - 1 /\ Len(p) + Len(t) = n - 1
      <4>1. Len(p) = w - 1 /\ Len(t) = n - w
        BY <2>4, <2>5 DEF p, t
      <4> QED
        BY <4>1, <3>0, <2>3
    <3>2. ASSUME NEW k \in 1 .. n - 1, k < w PROVE o[k] = ways[k]
      <4>1. k \in 1 .. w - 1 /\ k <= Len(p)
        BY <2>3, <3>1, <3>2
      <4>2. o[k] = p[k]
        BY <3>0, <3>1, <4>1
      <4> QED
        BY <4>1, <4>2, <2>4 DEF p
    <3>3. ASSUME NEW k \in 1 .. n - 1, ~(k < w) PROVE o[k] = ways[k + 1]
      <4>1. k - (w - 1) \in 1 .. n - w
        BY <3>3, <2>1, <2>3
      <4>2. o[k] = t[k - (w - 1)]
        BY <2>3, <3>0, <3>1, <3>3
      <4>3. w + (k - (w - 1)) = k + 1
        BY <2>3
      <4> QED
        BY <4>1, <4>2, <4>3, <2>5 DEF t
    <3> QED
      BY <3>1, <3>2, <3>3
  <2>7. \A k \in 1 .. n - 1 : (IF k < w THEN k ELSE k + 1) \in (1 .. n) \ {w}
    BY <2>1, <2>3
  <2>8. Distinct(o)
    <3> SUFFICES ASSUME NEW k \in 1 .. n - 1, NEW j \in 1 .. n - 1, o[k].block = o[j].block
                 PROVE  k = j
      BY <2>6 DEF Distinct
    <3> DEFINE x == IF k < w THEN k ELSE k + 1
               y == IF j < w THEN j ELSE j + 1
    <3>1. x \in 1 .. n /\ y \in 1 .. n /\ ways[x].block = ways[y].block
      BY <2>6, <2>7
    <3>2. x = y
      BY <3>1 DEF Distinct
    <3> QED
      BY <3>2, <2>3
  <2>9. \A k \in 1 .. n - 1 : o[k].block # b
    BY <2>1, <2>6, <2>7 DEF Distinct
  <2>10. ASSUME NEW k \in 1 .. n, ways[k].block # b PROVE \E j \in 1 .. n - 1 : o[j] = ways[k]
    <3>1. k # w
      BY <2>1, <2>10
    <3>2. CASE k < w
      BY <3>2, <2>1, <2>3, <2>6
    <3>3. CASE k > w
      <4>1. k - 1 \in 1 .. n - 1 /\ ~(k - 1 < w) /\ (k - 1) + 1 = k
        BY <3>3, <2>1, <2>3
      <4> QED
        BY <4>1, <2>6
    <3> QED
      BY <3>1, <3>2, <3>3, <2>3
  <2> QED
    BY <1>2, <2>6, <2>7, <2>8, <2>9, <2>10 DEF o
<1> QED
  BY <1>1, <1>2

\* The ways with a line as the most recent
LEMMA RecentOf ==
  ASSUME NEW ways \in Seq(Line), Distinct(ways), NEW l \in Line
  PROVE  LET r == Hammer!Recent(ways, l)
         IN  /\ r \in Seq(Line) /\ Distinct(r) /\ Len(r) > 0 /\ r[1] = l
             /\ \A k \in 1 .. Len(r) : r[k] = l \/ \E j \in 1 .. Len(ways) : r[k] = ways[j]
             /\ \A k \in 1 .. Len(ways) :
                  \E j \in 1 .. Len(r) : r[j].block = ways[k].block
             /\ Hammer!Holds(ways, l.block) => Len(r) = Len(ways)
<1> DEFINE o == Hammer!Others(ways, l.block)
           r == Hammer!Recent(ways, l)
<1>1. r = <<l>> \o o
  BY DEF Hammer!Recent
<1>2. /\ o \in Seq(Line) /\ Distinct(o)
      /\ \A k \in 1 .. Len(o) : o[k].block # l.block /\ \E j \in 1 .. Len(ways) : o[k] = ways[j]
      /\ \A k \in 1 .. Len(ways) :
           ways[k].block # l.block => \E j \in 1 .. Len(o) : o[j] = ways[k]
      /\ Hammer!Holds(ways, l.block) => Len(o) = Len(ways) - 1
  BY OthersOf
<1> HIDE DEF o, r
<1>3. Len(o) \in Nat
  BY <1>2
<1>4. /\ r \in Seq(Line) /\ Len(r) = Len(o) + 1 /\ r[1] = l
      /\ \A k \in 1 .. Len(o) : r[k + 1] = o[k]
  BY <1>1, <1>2, <1>3
<1>5. ASSUME NEW k \in 1 .. Len(r), k # 1
      PROVE  k - 1 \in 1 .. Len(o) /\ r[k] = o[k - 1]
  <2>1. k - 1 \in 1 .. Len(o) /\ (k - 1) + 1 = k
    BY <1>3, <1>4, <1>5
  <2> QED
    BY <2>1, <1>4
<1>6. Distinct(r)
  <2> SUFFICES ASSUME NEW k \in 1 .. Len(r), NEW j \in 1 .. Len(r), r[k].block = r[j].block
               PROVE  k = j
    BY DEF Distinct
  <2>1. ASSUME NEW q \in 1 .. Len(r), q # 1 PROVE r[q].block # r[1].block
    <3>1. q - 1 \in 1 .. Len(o) /\ r[q] = o[q - 1]
      BY <2>1, <1>5
    <3>2. o[q - 1].block # l.block
      BY <3>1, <1>2
    <3> QED
      BY <3>1, <3>2, <1>4
  <2>2. CASE k = 1 /\ j = 1
    BY <2>2
  <2>3. CASE k = 1 /\ j # 1
    BY <2>1, <2>3
  <2>4. CASE k # 1 /\ j = 1
    BY <2>1, <2>4
  <2>5. CASE k # 1 /\ j # 1
    <3>1. PICK x \in 1 .. Len(o), y \in 1 .. Len(o) :
            x = k - 1 /\ y = j - 1 /\ r[k] = o[x] /\ r[j] = o[y]
      BY <2>5, <1>5
    <3>2. x = y
      BY <3>1, <1>2 DEF Distinct
    <3> QED
      BY <3>1, <3>2, <1>3, <1>4
  <2> QED
    BY <2>2, <2>3, <2>4, <2>5
<1>7. ASSUME NEW k \in 1 .. Len(r)
      PROVE  r[k] = l \/ \E j \in 1 .. Len(ways) : r[k] = ways[j]
  <2>1. CASE k = 1
    BY <2>1, <1>4
  <2>2. CASE k # 1
    <3>1. PICK x \in 1 .. Len(o) : r[k] = o[x]
      BY <2>2, <1>5
    <3>2. \E j \in 1 .. Len(ways) : o[x] = ways[j]
      BY <1>2
    <3> QED
      BY <3>1, <3>2
  <2> QED
    BY <2>1, <2>2
<1>8. ASSUME NEW k \in 1 .. Len(ways)
      PROVE  \E j \in 1 .. Len(r) : r[j].block = ways[k].block
  <2>1. CASE ways[k].block = l.block
    BY <2>1, <1>3, <1>4
  <2>2. CASE ways[k].block # l.block
    <3>1. PICK j \in 1 .. Len(o) : o[j] = ways[k]
      BY <2>2, <1>2
    <3>2. j + 1 \in 1 .. Len(r) /\ r[j + 1] = ways[k]
      BY <3>1, <1>3, <1>4
    <3> QED
      BY <3>2
  <2> QED
    BY <2>1, <2>2
<1>9. Hammer!Holds(ways, l.block) => Len(r) = Len(ways)
  BY <1>2, <1>3, <1>4
<1> QED
  BY <1>3, <1>4, <1>6, <1>7, <1>8, <1>9 DEF r

\* Eight blocks of the program fall in a set of the second level: they fit.
LEMMA L2WaysFit ==
  ASSUME NEW ways, NEW s, L2Ways(ways, s)
  PROVE  Len(ways) <= 8
<1> DEFINE n == Len(ways)
           f == [k \in 1 .. n |-> ways[k].block \div S2]
<1>1. n \in Nat
  BY DEF L2Ways
<1>2. f \in [1 .. n -> 0 .. 7]
  BY BlockPlaces DEF L2Ways
<1>3. ASSUME NEW x \in 1 .. n, NEW y \in 1 .. n, f[x] = f[y] PROVE x = y
  <2> DEFINE bx == ways[x].block
             by == ways[y].block
  <2>1. /\ bx = (bx \div S2) * S2 + (bx % S2)
        /\ by = (by \div S2) * S2 + (by % S2)
    BY BlockPlaces DEF L2Ways
  <2>2. bx \div S2 = by \div S2 /\ bx % S2 = by % S2
    BY <1>3 DEF L2Ways
  <2>3. bx = by
    <3> HIDE DEF bx, by
    <3> QED
      BY <2>1, <2>2
  <2> QED
    BY <2>3 DEF L2Ways, Distinct
<1>4. IsFiniteSet(1 .. n) /\ Cardinality(1 .. n) = n
  <2>1. IsFiniteSet(1 .. n) /\ Cardinality(1 .. n) = IF 1 > n THEN 0 ELSE n - 1 + 1
    BY <1>1, FS_Interval
  <2> QED
    BY <2>1, <1>1
<1>5. IsFiniteSet(0 .. 7) /\ Cardinality(0 .. 7) = 8
  <2>1. PICK a \in Int, b \in Int : a = 0 /\ b = 7
    OBVIOUS
  <2>2. IsFiniteSet(a .. b) /\ Cardinality(a .. b) = IF a > b THEN 0 ELSE b - a + 1
    BY FS_Interval
  <2> QED
    BY <2>1, <2>2
<1> HIDE DEF f
<1>6. ~(8 < n)
  <2> SUFFICES ASSUME 8 < n PROVE FALSE
    OBVIOUS
  <2>1. Cardinality(0 .. 7) < Cardinality(1 .. n)
    BY <1>4, <1>5
  <2>2. \A x, y \in 1 .. n : ~(x # y /\ f[x] = f[y])
    BY <1>3
  <2> DEFINE N == 1 .. n
             E == 0 .. 7
  <2>3. /\ IsFiniteSet(N) /\ IsFiniteSet(E) /\ f \in [N -> E]
        /\ Cardinality(E) < Cardinality(N)
        /\ \A x, y \in N : ~(x # y /\ f[x] = f[y])
    BY <2>1, <2>2, <1>2, <1>4, <1>5
  <2> HIDE DEF N, E, n
  <2> QED
    BY <2>3, FS_PigeonHole
<1> QED
  BY <1>1, <1>6

\* A line of the program that is used in the second level pushes nothing out.
LEMMA UsedInL2 ==
  ASSUME NEW ways, NEW s, L2Ways(ways, s),
         NEW l \in Line, l.block \in Streamed, l.block % S2 = s
  PROVE  LET u == Hammer!Used(ways, l)
         IN  /\ L2Ways(u, s) /\ Hammer!Victims(ways, l) = <<>>
             /\ Hammer!Holds(u, l.block)
             /\ \A b : Hammer!Holds(ways, b) => Hammer!Holds(u, b)
<1> DEFINE r == Hammer!Recent(ways, l)
<1>1. ways \in Seq(Line) /\ Distinct(ways)
  BY DEF L2Ways
<1>2. /\ r \in Seq(Line) /\ Distinct(r) /\ Len(r) > 0 /\ r[1] = l
      /\ \A k \in 1 .. Len(r) : r[k] = l \/ \E j \in 1 .. Len(ways) : r[k] = ways[j]
      /\ \A k \in 1 .. Len(ways) :
           \E j \in 1 .. Len(r) : r[j].block = ways[k].block
  BY <1>1, RecentOf
<1> HIDE DEF r
<1>3. L2Ways(r, s)
  BY <1>2 DEF L2Ways
<1>4. Len(r) <= 8
  BY <1>3, L2WaysFit
<1>5. Hammer!Used(ways, l) = r /\ Hammer!Victims(ways, l) = <<>>
  BY <1>4 DEF r, Hammer!Used, Hammer!Victims, Hammer!Assoc
<1>6. DOMAIN r = 1 .. Len(r) /\ DOMAIN ways = 1 .. Len(ways)
  BY <1>1, <1>2
<1>7. 1 \in 1 .. Len(r)
  BY <1>2
<1>8. Hammer!Holds(r, l.block)
  BY <1>2, <1>6, <1>7 DEF Hammer!Holds
<1>9. ASSUME NEW b, Hammer!Holds(ways, b) PROVE Hammer!Holds(r, b)
  BY <1>2, <1>6, <1>9 DEF Hammer!Holds
<1> QED
  BY <1>3, <1>5, <1>8, <1>9

-----------------------------------------------------------------------------
(* The first level: how often its sets have been used *)

\* How many of the first n blocks fall in set s
Times(s, n) == (n + (S1 - 1 - s)) \div S1

\* Way p of a set after j blocks were written and k of every second one read
Slot(p, j, k) == IF p <= k THEN 2 * (k - p) ELSE j + k - p

Row(ways, s, j, k) ==
  /\ ways \in Seq(Line)
  /\ Len(ways) = IF j < 8 THEN j ELSE 8
  /\ \A p \in 1 .. Len(ways) : ways[p].block = Nth(s, Slot(p, j, k))

\* One more block adds one to the count of its own set.
LEMMA TimesMove ==
  ASSUME NEW s \in 0 .. S1 - 1, NEW s0 \in 0 .. S1 - 1, NEW q \in Nat
  PROVE  /\ Times(s0, Nth(s0, q)) = q
         /\ Times(s, Nth(s0, q) + 1) = IF s = s0 THEN q + 1 ELSE Times(s, Nth(s0, q))
<1>0. S1 \in Nat \ {0}
  BY SetSizes
<1>1. ASSUME NEW x \in Nat, NEW r \in 0 .. S1 - 1, NEW n, NEW y \in 0 .. S1 - 1,
             n + (S1 - 1 - y) = x * S1 + r
      PROVE  Times(y, n) = x
  BY <1>0, <1>1, DivMod DEF Times
<1>2. /\ q * S1 \in Nat /\ (q + 1) * S1 = q * S1 + S1
      /\ Nth(s0, q) = q * S1 + s0
  BY <1>0 DEF Nth
<1>3. Times(s0, Nth(s0, q)) = q
  <2>1. Nth(s0, q) + (S1 - 1 - s0) = q * S1 + (S1 - 1)
    BY <1>0, <1>2
  <2>2. S1 - 1 \in 0 .. S1 - 1
    BY <1>0
  <2> QED
    BY <2>1, <2>2, <1>1
<1>4. Times(s0, Nth(s0, q) + 1) = q + 1
  <2>1. (Nth(s0, q) + 1) + (S1 - 1 - s0) = (q + 1) * S1 + 0
    BY <1>0, <1>2
  <2>2. 0 \in 0 .. S1 - 1 /\ q + 1 \in Nat
    BY <1>0
  <2> QED
    BY <2>1, <2>2, <1>1
<1>5. CASE s > s0
  <2>1. /\ Nth(s0, q) + (S1 - 1 - s) = q * S1 + (S1 - 1 - s + s0)
        /\ (Nth(s0, q) + 1) + (S1 - 1 - s) = q * S1 + (S1 - s + s0)
    BY <1>0, <1>2
  <2>2. S1 - 1 - s + s0 \in 0 .. S1 - 1 /\ S1 - s + s0 \in 0 .. S1 - 1
    BY <1>0, <1>5
  <2>3. Times(s, Nth(s0, q)) = q /\ Times(s, Nth(s0, q) + 1) = q
    BY <2>1, <2>2, <1>1
  <2> QED
    BY <2>3, <1>3, <1>5
<1>6. CASE s < s0
  <2>1. /\ Nth(s0, q) + (S1 - 1 - s) = (q + 1) * S1 + (s0 - s - 1)
        /\ (Nth(s0, q) + 1) + (S1 - 1 - s) = (q + 1) * S1 + (s0 - s)
    BY <1>0, <1>2
  <2>2. s0 - s - 1 \in 0 .. S1 - 1 /\ s0 - s \in 0 .. S1 - 1 /\ q + 1 \in Nat
    BY <1>0, <1>6
  <2>3. Times(s, Nth(s0, q)) = q + 1 /\ Times(s, Nth(s0, q) + 1) = q + 1
    BY <2>1, <2>2, <1>1
  <2> QED
    BY <2>3, <1>3, <1>6
<1> QED
  BY <1>0, <1>3, <1>4, <1>5, <1>6

\* No block has been used at first, and sixteen per set when all are written.
LEMMA TimesAt ==
  ASSUME NEW s \in 0 .. S1 - 1
  PROVE  Times(s, 0) = 0 /\ Times(s, 8 * S2) = 16
<1>1. S1 \in Nat \ {0} /\ S1 - 1 - s \in 0 .. S1 - 1
  BY SetSizes
<1>2. 0 + (S1 - 1 - s) = 0 * S1 + (S1 - 1 - s) /\ 0 \in Nat
  BY <1>1
<1>3. 8 * S2 + (S1 - 1 - s) = 16 * S1 + (S1 - 1 - s) /\ 16 \in Nat
  BY <1>1, SetSizes
<1> QED
  BY <1>1, <1>2, <1>3, DivMod DEF Times

\* A block that misses in the first level
LEMMA UsedInL1 ==
  ASSUME NEW ways \in Seq(Line), Len(ways) <= 8, NEW l \in Line,
         ~Hammer!Holds(ways, l.block)
  PROVE  LET u == Hammer!Used(ways, l)
         IN  /\ u \in Seq(Line) /\ Len(u) = IF Len(ways) < 8 THEN Len(ways) + 1 ELSE 8
             /\ u[1] = l
             /\ \A p \in 2 .. Len(u) : u[p] = ways[p - 1]
             /\ Hammer!Victims(ways, l) = IF Len(ways) < 8 THEN <<>> ELSE <<ways[8]>>
<1> DEFINE r == Hammer!Recent(ways, l)
           n == Len(ways)
<1>0. n \in Nat /\ n <= 8
  OBVIOUS
<1>1. r = <<l>> \o ways
  BY DEF Hammer!Recent, Hammer!Others
<1>2. <<l>> \in Seq(Line) /\ Len(<<l>>) = 1 /\ <<l>>[1] = l
  OBVIOUS
<1>3. /\ r \in Seq(Line) /\ Len(r) = 1 + n
      /\ \A p \in 1 .. 1 + n : r[p] = IF p <= 1 THEN <<l>>[p] ELSE ways[p - 1]
  <2>1. /\ <<l>> \o ways \in Seq(Line) /\ Len(<<l>> \o ways) = Len(<<l>>) + Len(ways)
        /\ \A p \in 1 .. Len(<<l>>) + Len(ways) :
             (<<l>> \o ways)[p] = IF p <= Len(<<l>>) THEN <<l>>[p] ELSE ways[p - Len(<<l>>)]
    BY <1>2, ConcatProperties
  <2> QED
    BY <2>1, <1>1, <1>2
<1>4. r[1] = l /\ \A p \in 2 .. 1 + n : r[p] = ways[p - 1]
  BY <1>0, <1>2, <1>3
<1> HIDE DEF r
<1>5. CASE n < 8
  <2>1. ~(Len(r) > 8)
    BY <1>0, <1>3, <1>5
  <2>2. Hammer!Used(ways, l) = r /\ Hammer!Victims(ways, l) = <<>>
    BY <2>1 DEF r, Hammer!Used, Hammer!Victims, Hammer!Assoc
  <2> QED
    BY <2>2, <1>0, <1>3, <1>4, <1>5
<1>6. CASE n = 8
  <2>1. Len(r) = 9 /\ Len(r) > 8
    BY <1>3, <1>6
  <2>2. Hammer!Used(ways, l) = Hammer!Front(r) /\ Hammer!Victims(ways, l) = <<ways[8]>>
    BY <2>1, <1>6 DEF r, Hammer!Used, Hammer!Victims, Hammer!Assoc, Hammer!Last
  <2>3. Hammer!Front(r) = SubSeq(r, 1, 8)
    <3>1. 9 - 1 = 8
      OBVIOUS
    <3> QED
      BY <2>1, <3>1 DEF Hammer!Front
  <2>4. /\ SubSeq(r, 1, 8) \in Seq(Line) /\ Len(SubSeq(r, 1, 8)) = 8
        /\ \A p \in 1 .. 8 : SubSeq(r, 1, 8)[p] = r[p]
    <3>1. PICK x \in Int, y \in Int : x = 1 /\ y = 8
      OBVIOUS
    <3>2. \A p \in x .. y : r[p] \in Line
      <4>1. \A p \in 1 .. Len(r) : r[p] \in Line
        BY <1>3
      <4>2. \A p \in 1 .. 8 : p \in 1 .. 9
        OBVIOUS
      <4> QED
        BY <4>1, <4>2, <3>1, <2>1
    <3>3. /\ SubSeq(r, x, y) \in Seq(Line)
          /\ Len(SubSeq(r, x, y)) = IF x <= y THEN y - x + 1 ELSE 0
          /\ \A p \in 1 .. y - x + 1 : SubSeq(r, x, y)[p] = r[x + p - 1]
      BY <3>2, SubSeqProperties
    <3>4. 1 <= 8 /\ 8 - 1 + 1 = 8 /\ \A p \in 1 .. 8 : 1 + p - 1 = p
      OBVIOUS
    <3> QED
      BY <3>1, <3>3, <3>4
  <2>5. ~(n < 8) /\ 1 + n > 8 /\ \A p \in 2 .. 8 : p \in 2 .. 1 + n /\ p \in 1 .. 8
    BY <1>6
  <2> DEFINE u == Hammer!Used(ways, l)
  <2>6. u \in Seq(Line) /\ Len(u) = 8 /\ \A p \in 1 .. 8 : u[p] = r[p]
    BY <2>2, <2>3, <2>4
  <2> HIDE DEF u
  <2>7. u[1] = l
    BY <2>6, <1>4
  <2>8. \A p \in 2 .. Len(u) : u[p] = ways[p - 1]
    BY <2>5, <2>6, <1>4
  <2>9. Hammer!Victims(ways, l) = IF Len(ways) < 8 THEN <<>> ELSE <<ways[8]>>
    BY <2>2, <2>5
  <2> QED
    BY <2>5, <2>6, <2>7, <2>8, <2>9 DEF u
<1>7. n < 8 \/ n = 8
  <2> HIDE DEF n
  <2> QED
    BY <1>0
<1> QED
  BY <1>5, <1>6, <1>7

-----------------------------------------------------------------------------
(* An access to a block that is not in the first level *)

InL2(m, b) == Hammer!Holds(m.l2[b % S2], b)

L2Inv(m) ==
  /\ m = [l1 |-> m.l1, l2 |-> m.l2, dram |-> m.dram]
  /\ m.l2 = [s \in 0 .. S2 - 1 |-> m.l2[s]]
  /\ \A s \in 0 .. S2 - 1 : L2Ways(m.l2[s], s)

\* A line used in the second level is there, and all the others are still.
LEMMA IntoL2Keeps ==
  ASSUME NEW m, L2Inv(m), NEW l \in Line, l.block \in Streamed
  PROVE  LET n == Hammer!IntoL2(m, l)
         IN  /\ L2Inv(n) /\ n.l1 = m.l1 /\ InL2(n, l.block)
             /\ \A b \in Streamed : InL2(m, b) => InL2(n, b)
<1> DEFINE s == l.block % S2
           n == Hammer!IntoL2(m, l)
           u == Hammer!Used(m.l2[s], l)
<1>1. s \in 0 .. S2 - 1
  BY BlockPlaces
<1>2. /\ L2Ways(u, s) /\ Hammer!Holds(u, l.block)
      /\ \A b : Hammer!Holds(m.l2[s], b) => Hammer!Holds(u, b)
  BY <1>1, UsedInL2 DEF L2Inv
<1>3. /\ n = [l1 |-> n.l1, l2 |-> n.l2, dram |-> n.dram]
      /\ n.l1 = m.l1 /\ n.l2 = [m.l2 EXCEPT ![s] = u]
  <2>1. PICK d : n = [m EXCEPT !.l2[s] = u, !.dram = d]
    BY DEF Hammer!IntoL2, S2
  <2> HIDE DEF n, u, s
  <2> QED
    BY <2>1 DEF L2Inv
<1> HIDE DEF n, u, s
<1>4. n.l2 = [x \in 0 .. S2 - 1 |-> IF x = s THEN u ELSE m.l2[x]]
  BY <1>1, <1>3 DEF L2Inv
<1>5. n.l2 = [x \in 0 .. S2 - 1 |-> n.l2[x]]
  BY <1>4
<1>6. \A x \in 0 .. S2 - 1 : n.l2[x] = IF x = s THEN u ELSE m.l2[x]
  BY <1>4
<1>7. L2Inv(n)
  BY <1>2, <1>3, <1>5, <1>6 DEF L2Inv
<1>8. InL2(n, l.block)
  BY <1>1, <1>2, <1>6 DEF InL2, s
<1>9. ASSUME NEW b \in Streamed, InL2(m, b) PROVE InL2(n, b)
  <2>1. b % S2 \in 0 .. S2 - 1
    BY BlockPlaces
  <2> QED
    BY <2>1, <1>2, <1>6, <1>9 DEF InL2
<1> QED
  BY <1>3, <1>7, <1>8, <1>9 DEF n

\* The second level, or DRAM, answers with a line of the block.
LEMMA FromL2Is ==
  ASSUME NEW m, L2Inv(m), NEW b \in Streamed
  PROVE  Hammer!FromL2(m, b) \in Line /\ Hammer!FromL2(m, b).block = b
<1> DEFINE ways == m.l2[b % S2]
<1>1. ways \in Seq(Line)
  BY BlockPlaces DEF L2Inv, L2Ways
<1> HIDE DEF ways
<1>2. CASE Hammer!Holds(ways, b)
  <2> DEFINE w == Hammer!WayOf(ways, b)
  <2>1. w \in DOMAIN ways /\ ways[w].block = b
    BY <1>2 DEF Hammer!Holds, Hammer!WayOf
  <2>2. Hammer!FromL2(m, b) = ways[w]
    BY <1>2 DEF Hammer!FromL2, ways, S2
  <2> HIDE DEF w
  <2> QED
    BY <2>1, <2>2, <1>1
<1>3. CASE ~Hammer!Holds(ways, b)
  <2>1. Hammer!FromL2(m, b) = [block |-> b, dirty |-> FALSE, good |-> b \in m.dram]
    BY <1>3 DEF Hammer!FromL2, ways, S2
  <2>2. b \in Nat
    BY SetSizes DEF Streamed
  <2> QED
    BY <2>1, <2>2 DEF Line
<1> QED
  BY <1>2, <1>3

\* The block comes in through the second level; a victim, written back or not,
\* was there before.
LEMMA AccessOf ==
  ASSUME NEW m, L2Inv(m), NEW b \in Streamed, NEW writing \in BOOLEAN,
         m.l1[b % S1] \in Seq(Line), Len(m.l1[b % S1]) <= 8,
         \A p \in 1 .. Len(m.l1[b % S1]) : m.l1[b % S1][p].block \in Streamed,
         ~Hammer!Holds(m.l1[b % S1], b)
  PROVE  LET n == Hammer!Accessed(m, b, writing)
         IN  /\ L2Inv(n) /\ InL2(n, b)
             /\ \A x \in Streamed : InL2(m, x) => InL2(n, x)
             /\ \E l \in Line : /\ l.block = b
                                /\ n.l1 = [m.l1 EXCEPT ![b % S1] = Hammer!Used(@, l)]
<1> DEFINE s == b % S1
           ways == m.l1[s]
           l == [Hammer!FromL2(m, b) EXCEPT !.dirty = FALSE]
           new == IF writing THEN [block |-> b, dirty |-> TRUE, good |-> TRUE] ELSE l
           m1 == Hammer!IntoL2(m, Hammer!FromL2(m, b))
           victims == Hammer!Victims(ways, new)
           m2 == IF victims # <<>> /\ victims[1].dirty /\ hart.fault # "l1_drops"
                 THEN Hammer!IntoL2(m1, victims[1]) ELSE m1
           n == Hammer!Accessed(m, b, writing)
<1>0. /\ ways \in Seq(Line) /\ Len(ways) <= 8 /\ ~Hammer!Holds(ways, b)
      /\ \A p \in 1 .. Len(ways) : ways[p].block \in Streamed
  OBVIOUS
<1>1. n = [m2 EXCEPT !.l1[s] = Hammer!Used(@, new)]
  BY <1>0 DEF Hammer!Accessed, S1
<1> HIDE DEF ways
<1>2. Hammer!FromL2(m, b) \in Line /\ Hammer!FromL2(m, b).block = b
  BY FromL2Is
<1>3. new \in Line /\ new.block = b
  <2>1. b \in Nat
    BY SetSizes DEF Streamed
  <2>2. l \in Line /\ l.block = b
    BY <1>2 DEF Line
  <2> HIDE DEF l
  <2> QED
    BY <2>1, <2>2 DEF Line
<1>4. /\ L2Inv(m1) /\ m1.l1 = m.l1 /\ InL2(m1, b)
      /\ \A x \in Streamed : InL2(m, x) => InL2(m1, x)
  BY <1>2, IntoL2Keeps
<1> HIDE DEF new, m1, l
<1>5. victims = IF Len(ways) < 8 THEN <<>> ELSE <<ways[8]>>
  BY <1>0, <1>3, UsedInL1
<1> HIDE DEF victims
<1>6. victims # <<>> => victims[1] \in Line /\ victims[1].block \in Streamed
  <2> SUFFICES ASSUME victims # <<>> PROVE victims[1] \in Line /\ victims[1].block \in Streamed
    OBVIOUS
  <2>1. ~(Len(ways) < 8) /\ victims = <<ways[8]>>
    BY <1>5
  <2>2. 8 \in 1 .. Len(ways)
    BY <2>1, <1>0
  <2>3. victims[1] = ways[8]
    BY <2>1
  <2>4. ways[8] \in Line /\ ways[8].block \in Streamed
    BY <2>2, <1>0
  <2> QED
    BY <2>3, <2>4
<1>7. /\ L2Inv(m2) /\ m2.l1 = m.l1 /\ InL2(m2, b)
      /\ \A x \in Streamed : InL2(m, x) => InL2(m2, x)
  <2>1. CASE victims # <<>> /\ victims[1].dirty /\ hart.fault # "l1_drops"
    <3>1. m2 = Hammer!IntoL2(m1, victims[1])
      BY <2>1
    <3> HIDE DEF m2
    <3>2. /\ L2Inv(m2) /\ m2.l1 = m1.l1
          /\ \A x \in Streamed : InL2(m1, x) => InL2(m2, x)
      BY <3>1, <2>1, <1>4, <1>6, IntoL2Keeps
    <3> QED
      BY <3>2, <1>4
  <2>2. CASE ~(victims # <<>> /\ victims[1].dirty /\ hart.fault # "l1_drops")
    <3>1. m2 = m1
      BY <2>2
    <3> QED
      BY <3>1, <1>4
  <2> QED
    BY <2>1, <2>2
<1> HIDE DEF m2, n
<1>8. /\ n = [l1 |-> n.l1, l2 |-> n.l2, dram |-> n.dram] /\ n.l2 = m2.l2
      /\ n.l1 = [m2.l1 EXCEPT ![s] = Hammer!Used(@, new)]
  BY <1>1, <1>7 DEF L2Inv
<1>9. L2Inv(n) /\ InL2(n, b) /\ \A x \in Streamed : InL2(m, x) => InL2(n, x)
  BY <1>7, <1>8 DEF L2Inv, InL2
<1>10. n.l1 = [m.l1 EXCEPT ![s] = Hammer!Used(@, new)]
  BY <1>7, <1>8
<1> QED
  BY <1>3, <1>9, <1>10 DEF n

-----------------------------------------------------------------------------
(* The rows of the first level *)

\* A block that follows the j written to a set, and one of those read back, are
\* not in it, and what follows is a row again.
LEMMA RowMoves ==
  ASSUME NEW s \in 0 .. S1 - 1, NEW ways, NEW l \in Line, NEW j \in Nat, NEW k \in Nat,
         Row(ways, s, j, k),
         \/ j < 16 /\ k = 0 /\ l.block = Nth(s, j)
         \/ j = 16 /\ k < 8 /\ l.block = Nth(s, 2 * k)
  PROVE  /\ ways \in Seq(Line) /\ Len(ways) <= 8
         /\ \A p \in 1 .. Len(ways) : ways[p].block \in Streamed
         /\ ~Hammer!Holds(ways, l.block)
         /\ Row(Hammer!Used(ways, l), s,
                IF j < 16 THEN j + 1 ELSE j, IF j < 16 THEN k ELSE k + 1)
<1> DEFINE n == Len(ways)
           x == IF j < 16 THEN j ELSE 2 * k
           u == Hammer!Used(ways, l)
           j1 == IF j < 16 THEN j + 1 ELSE j
           k1 == IF j < 16 THEN k ELSE k + 1
<1>1. /\ ways \in Seq(Line) /\ n = IF j < 8 THEN j ELSE 8
      /\ \A p \in 1 .. n : ways[p].block = Nth(s, Slot(p, j, k))
  BY DEF Row
<1>2. DOMAIN ways = 1 .. n
  BY LenProperties DEF Row
<1>3. l.block = Nth(s, x) /\ x \in 0 .. 15
  OBVIOUS
<1> HIDE DEF n
<1>4. n \in Nat /\ n <= 8 /\ n <= j
  BY <1>1
<1>5. \A p \in 1 .. n : Slot(p, j, k) \in 0 .. 15 /\ Slot(p, j, k) # x
  BY <1>1, <1>4 DEF Slot
<1>6. \A p \in 1 .. n : ways[p].block \in Streamed /\ ways[p].block # l.block
  <2> SUFFICES ASSUME NEW p \in 1 .. n
               PROVE  ways[p].block \in Streamed /\ ways[p].block # l.block
    OBVIOUS
  <2> DEFINE q == Slot(p, j, k)
  <2>1. q \in 0 .. 15 /\ q # x /\ ways[p].block = Nth(s, q)
    BY <1>1, <1>5
  <2> HIDE DEF q, x
  <2>2. Nth(s, q) \in Streamed /\ Nth(s, q) \div S1 = q /\ Nth(s, x) \div S1 = x
    BY <2>1, <1>3, NthPlaces
  <2> QED
    BY <2>1, <2>2, <1>3
<1>7. ~Hammer!Holds(ways, l.block)
  BY <1>2, <1>6 DEF Hammer!Holds
<1>8. /\ u \in Seq(Line) /\ Len(u) = IF n < 8 THEN n + 1 ELSE 8
      /\ u[1] = l
      /\ \A p \in 2 .. Len(u) : u[p] = ways[p - 1]
  BY <1>1, <1>4, <1>7, UsedInL1 DEF n
<1> HIDE DEF u
<1>9. j1 \in Nat /\ k1 \in Nat /\ Len(u) = IF j1 < 8 THEN j1 ELSE 8
  BY <1>1, <1>8
<1>10. Slot(1, j1, k1) = x
  BY DEF Slot
<1>11. ASSUME NEW p \in 1 .. Len(u) PROVE u[p].block = Nth(s, Slot(p, j1, k1))
  <2>1. CASE p = 1
    BY <2>1, <1>3, <1>8, <1>10
  <2>2. CASE p # 1
    <3>1. p - 1 \in 1 .. n /\ p \in 2 .. Len(u)
      BY <2>2, <1>4, <1>8
    <3>2. Slot(p, j1, k1) = Slot(p - 1, j, k)
      BY <3>1, <1>1, <1>4 DEF Slot
    <3> HIDE DEF j1, k1
    <3> QED
      BY <3>1, <3>2, <1>1, <1>8
  <2> QED
    BY <2>1, <2>2
<1>12. Row(u, s, j1, k1)
  BY <1>8, <1>9, <1>11 DEF Row
<1> QED
  BY <1>1, <1>4, <1>6, <1>7, <1>12 DEF n, u

\* Of n accesses those that write, and those that read
Written(n) == IF n <= 8 * S2 THEN n ELSE 8 * S2
ReadBack(n) == IF n <= 8 * S2 THEN 0 ELSE n - 8 * S2

L1Inv(m, n) ==
  /\ m.l1 = [s \in 0 .. S1 - 1 |-> m.l1[s]]
  /\ \A s \in 0 .. S1 - 1 : Row(m.l1[s], s, Times(s, Written(n)), Times(s, ReadBack(n)))

\* Both levels when n accesses have been made
CachesInv(m, n) ==
  /\ L2Inv(m) /\ L1Inv(m, n)
  /\ \A b \in Streamed : b < Written(n) => InL2(m, b)

\* The block of the n-th access
StreamBlock(n) ==
  IF n < 8 * S2 THEN n ELSE ((n - 8 * S2) \div S1) * S2 + ((n - 8 * S2) % S1)

\* What stream_hammer.c accesses, in order
LEMMA StreamBlocks ==
  /\ Hammer!stream_hammer.writes.times = 8 * S2 /\ Hammer!stream_hammer.flushes = 0
  /\ Hammer!stream_hammer.reads.times = 8 * S1
  /\ \A n \in Nat : n < 8 * S2 =>
       Hammer!Block(Hammer!stream_hammer.writes, n) = StreamBlock(n)
  /\ \A n \in Nat : n >= 8 * S2 =>
       Hammer!Block(Hammer!stream_hammer.reads, n - 8 * S2) = StreamBlock(n)
<1>1. /\ Hammer!stream_hammer.writes =
           [times |-> 8 * S2, inner |-> S2, outerStride |-> S2, innerStride |-> 1]
      /\ Hammer!stream_hammer.flushes = 0
      /\ Hammer!stream_hammer.reads =
           [times |-> 8 * S1, inner |-> S1, outerStride |-> S2, innerStride |-> 1]
  BY DEF Hammer!stream_hammer, Hammer!StreamWrites, Hammer!Nest, Hammer!Assoc, S1, S2
<1>2. ASSUME NEW n \in Nat, n < 8 * S2
      PROVE  Hammer!Block(Hammer!stream_hammer.writes, n) = StreamBlock(n)
  <2>0. S2 \in Nat \ {0}
    BY SetSizes
  <2>1. n = (n \div S2) * S2 + (n % S2) /\ n % S2 \in Nat
    BY <2>0, Divide
  <2>2. Hammer!Block(Hammer!stream_hammer.writes, n) = (n \div S2) * S2 + (n % S2) * 1
    BY <1>1 DEF Hammer!Block
  <2>3. (n % S2) * 1 = n % S2
    BY <2>1
  <2> QED
    BY <2>1, <2>2, <2>3, <1>2 DEF StreamBlock
<1>3. ASSUME NEW n \in Nat, n >= 8 * S2
      PROVE  Hammer!Block(Hammer!stream_hammer.reads, n - 8 * S2) = StreamBlock(n)
  <2> DEFINE x == n - 8 * S2
  <2>1. x \in Nat
    BY SetSizes, <1>3
  <2> HIDE DEF x
  <2>2. x % S1 \in Nat
    BY <2>1, SetSizes, Divide
  <2>3. Hammer!Block(Hammer!stream_hammer.reads, x) = (x \div S1) * S2 + (x % S1) * 1
    BY <1>1 DEF Hammer!Block
  <2>4. (x % S1) * 1 = x % S1
    BY <2>2
  <2>5. StreamBlock(n) = (x \div S1) * S2 + (x % S1)
    BY <1>3, SetSizes DEF StreamBlock, x
  <2> QED
    BY <2>3, <2>4, <2>5 DEF x
<1> QED
  BY <1>1, <1>2, <1>3

\* Each access is to a block that the first level does not have, and that the
\* second level has when it is read; the caches are as they should be after it.
LEMMA AccessMisses ==
  ASSUME NEW m, NEW n \in Nat, n < 8 * S2 + 8 * S1, CachesInv(m, n),
         NEW writing \in BOOLEAN
  PROVE  LET b == StreamBlock(n)
         IN  /\ b \in Streamed /\ ~Hammer!Holds(m.l1[b % S1], b)
             /\ n >= 8 * S2 => InL2(m, b)
             /\ CachesInv(Hammer!Accessed(m, b, writing), n + 1)
<1> DEFINE b == StreamBlock(n)
           s == b % S1
           j == Times(s, Written(n))
           k == Times(s, ReadBack(n))
           ways == m.l1[s]
<1>0. S1 \in Nat \ {0} /\ S2 \in Nat \ {0} /\ S2 = 2 * S1 /\ 8 * S2 = 16 * S1
  BY SetSizes
<1>1. /\ b \in Streamed /\ s \in 0 .. S1 - 1 /\ j \in Nat /\ k \in Nat
      /\ \/ j < 16 /\ k = 0 /\ b = Nth(s, j)
         \/ j = 16 /\ k < 8 /\ b = Nth(s, 2 * k)
      /\ \A x \in 0 .. S1 - 1 :
           /\ Times(x, Written(n + 1)) =
                IF x = s /\ j < 16 THEN j + 1 ELSE Times(x, Written(n))
           /\ Times(x, ReadBack(n + 1)) =
                IF x = s /\ ~(j < 16) THEN k + 1 ELSE Times(x, ReadBack(n))
  <2> DEFINE Claim(x) ==
        /\ Times(x, Written(n + 1)) = IF x = s /\ j < 16 THEN j + 1 ELSE Times(x, Written(n))
        /\ Times(x, ReadBack(n + 1)) = IF x = s /\ ~(j < 16) THEN k + 1 ELSE Times(x, ReadBack(n))
  <2>1. CASE n < 8 * S2
    <3>1. b = n /\ b \in Streamed
      BY <2>1, <1>0 DEF StreamBlock, Streamed
    <3>2. PICK q \in 0 .. 15 : b = Nth(s, q) /\ s \in 0 .. S1 - 1
      BY <3>1, BlockPlaces
    <3>3. Written(n) = b /\ Written(n + 1) = b + 1 /\ ReadBack(n) = 0 /\ ReadBack(n + 1) = 0
      BY <2>1, <3>1, <1>0 DEF Written, ReadBack
    <3>4. j = q /\ k = 0
      BY <3>2, <3>3, TimesMove, TimesAt
    <3>5. ASSUME NEW x \in 0 .. S1 - 1
          PROVE  Times(x, b + 1) = IF x = s THEN q + 1 ELSE Times(x, b)
      <4> HIDE DEF b, s
      <4>1. q \in Nat
        OBVIOUS
      <4> QED
        BY <4>1, <3>2, TimesMove
    <3> HIDE DEF b, s, j, k
    <3>6. ASSUME NEW x \in 0 .. S1 - 1 PROVE Claim(x)
      BY <3>3, <3>4, <3>5
    <3> QED
      BY <3>1, <3>2, <3>4, <3>6
  <2>2. CASE n >= 8 * S2
    <3> DEFINE y == n - 8 * S2
    <3>1. y \in Nat /\ y < 8 * S1 /\ y \in Streamed
      BY <2>2, <1>0 DEF Streamed
    <3>2. b = (y \div S1) * S2 + (y % S1)
      BY <2>2, <1>0 DEF StreamBlock
    <3> HIDE DEF y
    <3>3. PICK q \in 0 .. 15, s0 \in 0 .. S1 - 1 :
            q = y \div S1 /\ s0 = y % S1 /\ y = Nth(s0, q)
      BY <3>1, BlockPlaces
    <3>4. q <= 7
      <4> SUFFICES ASSUME q > 7 PROVE FALSE
        BY <3>3
      <4>1. 8 \in Nat /\ q \in Nat /\ 8 <= q /\ S1 \in Nat
        BY <1>0
      <4>2. 8 * S1 <= q * S1 /\ q * S1 \in Nat
        BY <4>1, Monotone
      <4> QED
        BY <4>2, <3>1, <3>3, <1>0 DEF Nth
    <3>5. b = Nth(s0, 2 * q) /\ 2 * q \in 0 .. 15
      <4>1. q * S2 = (2 * q) * S1
        BY <1>0
      <4> QED
        BY <4>1, <3>2, <3>3, <3>4 DEF Nth
    <3>6. b \in Streamed /\ s = s0
      BY <3>5, NthPlaces
    <3>7. /\ Written(n) = 8 * S2 /\ Written(n + 1) = 8 * S2
          /\ ReadBack(n) = y /\ ReadBack(n + 1) = y + 1
      BY <2>2, <1>0 DEF Written, ReadBack, y
    <3>8. j = 16 /\ k = q
      BY <3>3, <3>6, <3>7, TimesMove, TimesAt
    <3>9. ASSUME NEW x \in 0 .. S1 - 1
          PROVE  Times(x, y + 1) = IF x = s THEN q + 1 ELSE Times(x, y)
      <4>1. q \in Nat
        OBVIOUS
      <4>2. Times(x, Nth(s0, q) + 1) = IF x = s0 THEN q + 1 ELSE Times(x, Nth(s0, q))
        BY <4>1, TimesMove
      <4> HIDE DEF s
      <4> QED
        BY <4>2, <3>3, <3>6
    <3> HIDE DEF b, s, j, k
    <3>10. ASSUME NEW x \in 0 .. S1 - 1 PROVE Claim(x)
      BY <3>7, <3>8, <3>9
    <3> QED
      BY <3>4, <3>5, <3>6, <3>8, <3>10
  <2> QED
    BY <2>1, <2>2, <1>0
<1> HIDE DEF b, j, k
<1>2. Row(ways, s, j, k)
  BY <1>1 DEF CachesInv, L1Inv, j, k
<1> DEFINE j1 == IF j < 16 THEN j + 1 ELSE j
           k1 == IF j < 16 THEN k ELSE k + 1
<1>3. ASSUME NEW l \in Line, l.block = b
      PROVE  /\ ways \in Seq(Line) /\ Len(ways) <= 8
             /\ \A p \in 1 .. Len(ways) : ways[p].block \in Streamed
             /\ ~Hammer!Holds(ways, b)
             /\ Row(Hammer!Used(ways, l), s, j1, k1)
  <2> HIDE DEF s, ways
  <2>1. \/ j < 16 /\ k = 0 /\ l.block = Nth(s, j)
        \/ j = 16 /\ k < 8 /\ l.block = Nth(s, 2 * k)
    BY <1>1, <1>3
  <2>2. /\ ways \in Seq(Line) /\ Len(ways) <= 8
        /\ \A p \in 1 .. Len(ways) : ways[p].block \in Streamed
        /\ ~Hammer!Holds(ways, l.block)
        /\ Row(Hammer!Used(ways, l), s, j1, k1)
    BY <1>1, <1>2, <2>1, RowMoves
  <2> QED
    BY <2>2, <1>3
<1>4. /\ ways \in Seq(Line) /\ Len(ways) <= 8
      /\ \A p \in 1 .. Len(ways) : ways[p].block \in Streamed
      /\ ~Hammer!Holds(ways, b)
  <2> DEFINE l == [block |-> b, dirty |-> FALSE, good |-> FALSE]
  <2>1. l \in Line /\ l.block = b
    BY <1>1, <1>0 DEF Line, Streamed
  <2> HIDE DEF l, ways
  <2> QED
    BY <2>1, <1>3
<1> DEFINE o == Hammer!Accessed(m, b, writing)
<1>5. /\ L2Inv(o) /\ InL2(o, b)
      /\ \A x \in Streamed : InL2(m, x) => InL2(o, x)
      /\ \E l \in Line : l.block = b /\ o.l1 = [m.l1 EXCEPT ![s] = Hammer!Used(@, l)]
  BY <1>1, <1>4, AccessOf DEF CachesInv
<1>6. PICK l \in Line : l.block = b /\ o.l1 = [m.l1 EXCEPT ![s] = Hammer!Used(ways, l)]
  BY <1>5
<1>7. m.l1 = [x \in 0 .. S1 - 1 |-> m.l1[x]]
  BY DEF CachesInv, L1Inv
<1> HIDE DEF o
<1>8. /\ o.l1 = [x \in 0 .. S1 - 1 |-> o.l1[x]]
      /\ \A x \in 0 .. S1 - 1 : o.l1[x] = IF x = s THEN Hammer!Used(ways, l) ELSE m.l1[x]
  <2>1. o.l1 = [x \in 0 .. S1 - 1 |-> IF x = s THEN Hammer!Used(ways, l) ELSE m.l1[x]]
    BY <1>6, <1>7
  <2> QED
    BY <2>1
<1>9. ASSUME NEW x \in 0 .. S1 - 1
      PROVE  Row(o.l1[x], x, Times(x, Written(n + 1)), Times(x, ReadBack(n + 1)))
  <2>1. CASE x = s
    <3>1. Times(x, Written(n + 1)) = j1 /\ Times(x, ReadBack(n + 1)) = k1
      BY <2>1, <1>1 DEF j, k
    <3>2. Row(Hammer!Used(ways, l), s, j1, k1)
      BY <1>3, <1>6
    <3> HIDE DEF j1, k1
    <3> QED
      BY <2>1, <3>1, <3>2, <1>8
  <2>2. CASE x # s
    <3>1. /\ Times(x, Written(n + 1)) = Times(x, Written(n))
          /\ Times(x, ReadBack(n + 1)) = Times(x, ReadBack(n))
      BY <2>2, <1>1
    <3>2. Row(m.l1[x], x, Times(x, Written(n)), Times(x, ReadBack(n)))
      BY DEF CachesInv, L1Inv
    <3> QED
      BY <2>2, <3>1, <3>2, <1>8
  <2> QED
    BY <2>1, <2>2
<1>10. ASSUME NEW x \in Streamed, x < Written(n + 1) PROVE InL2(o, x)
  <2>1. x < Written(n) \/ x = b
    BY <1>0, <1>10 DEF Written, b, StreamBlock, Streamed
  <2> QED
    BY <2>1, <1>5 DEF CachesInv
<1>11. n >= 8 * S2 => InL2(m, b)
  <2>1. n >= 8 * S2 => b < Written(n)
    BY <1>0, <1>1 DEF Written, Streamed
  <2> QED
    BY <2>1, <1>1 DEF CachesInv
<1>12. CachesInv(o, n + 1)
  BY <1>5, <1>8, <1>9, <1>10 DEF CachesInv, L1Inv
<1>13. b \in Streamed
  BY <1>1
<1> QED
  BY <1>4, <1>11, <1>12, <1>13 DEF o, b

-----------------------------------------------------------------------------
(* The steps of stream_hammer.c *)

\* Until it has come to a verdict the caches hold what its accesses make of them.
StreamInv ==
  /\ found \in {"none", "l2"}
  /\ finish = "none" => /\ at \in 0 .. 8 * S2 + 8 * S1
                        /\ CachesInv(caches, at)

\* The points of the program in numbers
LEMMA StreamBounds ==
  ASSUME test = "stream_hammer"
  PROVE  /\ Hammer!Flushing = 8 * S2 /\ Hammer!Checking = 8 * S2
         /\ Hammer!Ended = 8 * S2 + 8 * S1
         /\ \A n \in Nat : n < 8 * S2 =>
              Hammer!Block(Hammer!Program[test].writes, n) = StreamBlock(n)
         /\ \A n \in Nat : n >= 8 * S2 =>
              Hammer!Block(Hammer!Program[test].reads, n - 8 * S2) = StreamBlock(n)
<1>1. Hammer!Program[test] = Hammer!stream_hammer
  BY DEF Hammer!Program
<1>2. /\ Hammer!Flushing = 8 * S2 /\ Hammer!Checking = 8 * S2 + 0
      /\ Hammer!Ended = Hammer!Checking + 8 * S1
  BY <1>1, StreamBlocks DEF Hammer!Flushing, Hammer!Checking, Hammer!Ended
<1> QED
  BY <1>1, <1>2, StreamBlocks, SetSizes

\* The caches are empty at first.
LEMMA StreamStarts ==
  ASSUME test = "stream_hammer", Hammer!Init
  PROVE  StreamInv
<1>1. /\ found = "none" /\ at = 0
      /\ caches = [l1 |-> [s \in 0 .. S1 - 1 |-> <<>>],
                   l2 |-> [s \in 0 .. S2 - 1 |-> <<>>], dram |-> {}]
  BY DEF Hammer!Init, S1, S2
<1>2. L2Inv(caches)
  BY <1>1 DEF L2Inv, L2Ways, Distinct
<1>3. Written(0) = 0 /\ ReadBack(0) = 0
  BY SetSizes DEF Written, ReadBack
<1>4. ASSUME NEW s \in 0 .. S1 - 1 PROVE Row(<<>>, s, 0, 0)
  BY DEF Row
<1>5. L1Inv(caches, 0)
  BY <1>1, <1>3, <1>4, TimesAt DEF L1Inv
<1>6. \A b \in Streamed : ~(b < 0)
  BY SetSizes DEF Streamed
<1> QED
  BY <1>1, <1>2, <1>3, <1>5, <1>6, SetSizes DEF StreamInv, CachesInv

\* Every step of the program keeps the invariant.
LEMMA StreamKeeps ==
  ASSUME test = "stream_hammer", StreamInv, Hammer!Next
  PROVE  StreamInv'
<1>0. S1 \in Nat \ {0} /\ S2 \in Nat \ {0}
  BY SetSizes
<1>1. CASE Hammer!Write
  <2>1. /\ finish = "none" /\ at \in Nat /\ at < 8 * S2 /\ at < 8 * S2 + 8 * S1
        /\ CachesInv(caches, at)
    BY <1>0, <1>1, StreamBounds DEF Hammer!Write, Hammer!Running, StreamInv
  <2>2. /\ caches' = Hammer!Accessed(caches, StreamBlock(at), TRUE)
        /\ at' = at + 1 /\ found' = found
    BY <1>1, <2>1, StreamBounds DEF Hammer!Write
  <2>3. CachesInv(caches', at')
    BY <2>1, <2>2, AccessMisses
  <2>4. at' \in 0 .. 8 * S2 + 8 * S1
    BY <1>0, <2>1, <2>2
  <2> QED
    BY <2>2, <2>3, <2>4 DEF StreamInv
<1>2. CASE Hammer!Flush
  <2>1. at \in 8 * S2 .. 8 * S2 - 1
    BY <1>2, StreamBounds DEF Hammer!Flush
  <2> QED
    BY <2>1, <1>0
<1>3. CASE Hammer!Check
  <2> DEFINE b == StreamBlock(at)
             m == Hammer!Accessed(caches, b, FALSE)
  <2>1. /\ finish = "none" /\ at \in Nat /\ at >= 8 * S2 /\ at < 8 * S2 + 8 * S1
        /\ CachesInv(caches, at)
    <3>1. Hammer!Checking = 8 * S2 /\ Hammer!Ended = 8 * S2 + 8 * S1
      BY StreamBounds
    <3>2. finish = "none" /\ at \in Hammer!Checking .. Hammer!Ended - 1
      BY <1>3 DEF Hammer!Check, Hammer!Running
    <3>3. 8 * S2 \in Nat /\ 8 * S1 \in Nat
      BY <1>0
    <3> DEFINE x == 8 * S2
               y == 8 * S2 + 8 * S1
    <3>4. x \in Nat /\ y \in Nat
      BY <3>3
    <3>5. at \in x .. y - 1
      BY <3>1, <3>2
    <3> HIDE DEF x, y
    <3>6. at \in Nat /\ at >= x /\ at < y
      BY <3>4, <3>5
    <3>7. CachesInv(caches, at)
      BY <3>2 DEF StreamInv
    <3> QED
      BY <3>2, <3>6, <3>7 DEF x, y
  <2>2. Hammer!Block(Hammer!Program[test].reads, at - Hammer!Checking) = b
    BY <2>1, StreamBounds
  <2>3. /\ caches' = m /\ found' = Hammer!Where(caches, b)
        /\ (at' = at + 1 /\ UNCHANGED finish) \/ finish' = "fail"
    BY <1>3, <2>2 DEF Hammer!Check
  <2>4. /\ ~Hammer!Holds(caches.l1[b % S1], b) /\ InL2(caches, b)
        /\ CachesInv(m, at + 1)
    BY <2>1, AccessMisses
  <2>5. found' = "l2"
    BY <2>3, <2>4 DEF Hammer!Where, InL2, S1, S2
  <2> HIDE DEF b, m
  <2>6. CASE at' = at + 1
    <3>1. at' \in 0 .. 8 * S2 + 8 * S1
      BY <1>0, <2>1, <2>6
    <3> QED
      BY <2>3, <2>4, <2>5, <2>6, <3>1 DEF StreamInv
  <2>7. CASE finish' = "fail"
    BY <2>5, <2>7 DEF StreamInv
  <2> QED
    BY <2>3, <2>6, <2>7
<1>4. CASE Hammer!Pass
  BY <1>4 DEF Hammer!Pass, StreamInv
<1>5. CASE UNCHANGED Hammer!vars
  BY <1>5 DEF Hammer!vars, Hammer!hammerVars, StreamInv
<1> QED
  BY <1>1, <1>2, <1>3, <1>4, <1>5 DEF Hammer!Next

-----------------------------------------------------------------------------
(* Memory systems that lose nothing: every program finds what it wrote *)

\* Set s of a level of so many sets
Ways(ways, sets, s) ==
  /\ ways \in Seq(Line) /\ Len(ways) <= 8 /\ Distinct(ways)
  /\ \A k \in 1 .. Len(ways) : ways[k].block % sets = s

Caches(m) ==
  /\ m = [l1 |-> m.l1, l2 |-> m.l2, dram |-> m.dram]
  /\ m.l1 = [s \in 0 .. S1 - 1 |-> m.l1[s]]
  /\ m.l2 = [s \in 0 .. S2 - 1 |-> m.l2[s]]
  /\ \A s \in 0 .. S1 - 1 : Ways(m.l1[s], S1, s)
  /\ \A s \in 0 .. S2 - 1 : Ways(m.l2[s], S2, s)

\* A line of the second level has the data, and if it is clean so has DRAM.
Sound(l, home) == l.good /\ (l.dirty \/ l.block \in home)

\* Who misses in the first level finds the data of b.
Below(m, b) ==
  LET ways == m.l2[b % S2] IN
  /\ \A k \in 1 .. Len(ways) : ways[k].block = b => Sound(ways[k], m.dram)
  /\ (\A k \in 1 .. Len(ways) : ways[k].block # b) => b \in m.dram

DirtyInL1(m, b) ==
  LET ways == m.l1[b % S1] IN
  \E k \in 1 .. Len(ways) : ways[k].block = b /\ ways[k].dirty

\* Of the blocks in W, which are those written so far, none is lost.
NoneLost(m, W) ==
  /\ Caches(m)
  /\ \A s \in 0 .. S1 - 1 : \A k \in 1 .. Len(m.l1[s]) :
       m.l1[s][k].good /\ m.l1[s][k].block \in W
  /\ \A b \in W : DirtyInL1(m, b) \/ Below(m, b)

\* What a line that is used pushes out is the victim, and nothing else is lost.
LEMMA UsedKeeps ==
  ASSUME NEW ways \in Seq(Line), Len(ways) <= 8, Distinct(ways), NEW l \in Line
  PROVE  LET u == Hammer!Used(ways, l)
             v == Hammer!Victims(ways, l)
         IN  /\ u \in Seq(Line) /\ Len(u) <= 8 /\ Distinct(u)
             /\ \E k \in 1 .. Len(u) : u[k] = l
             /\ \A k \in 1 .. Len(u) : u[k] = l \/ \E j \in 1 .. Len(ways) : u[k] = ways[j]
             /\ v = <<>> \/ \E k \in 1 .. Len(ways) : v = <<ways[k]>> /\ ways[k].block # l.block
             /\ \A k \in 1 .. Len(ways) :
                  \/ ways[k].block = l.block \/ v = <<ways[k]>>
                  \/ \E j \in 1 .. Len(u) : u[j] = ways[k]
<1> DEFINE u == Hammer!Used(ways, l)
           v == Hammer!Victims(ways, l)
<1>1. CASE Hammer!Holds(ways, l.block)
  <2> DEFINE r == Hammer!Recent(ways, l)
  <2>1. /\ r \in Seq(Line) /\ Distinct(r) /\ Len(r) > 0 /\ r[1] = l /\ Len(r) = Len(ways)
        /\ \A k \in 1 .. Len(r) : r[k] = l \/ \E j \in 1 .. Len(ways) : r[k] = ways[j]
        /\ \A k \in 1 .. Len(ways) : \E j \in 1 .. Len(r) : r[j].block = ways[k].block
    BY <1>1, RecentOf
  <2> HIDE DEF r
  <2>2. u = r /\ v = <<>>
    BY <2>1 DEF r, Hammer!Used, Hammer!Victims, Hammer!Assoc
  <2>3. ASSUME NEW k \in 1 .. Len(ways), ways[k].block # l.block
        PROVE  \E j \in 1 .. Len(r) : r[j] = ways[k]
    <3>1. PICK j \in 1 .. Len(r) : r[j].block = ways[k].block
      BY <2>1
    <3>2. r[j] # l
      BY <3>1, <2>3
    <3>3. PICK x \in 1 .. Len(ways) : r[j] = ways[x]
      BY <3>2, <2>1
    <3>4. x = k
      BY <3>1, <3>3 DEF Distinct
    <3> QED
      BY <3>3, <3>4
  <2>4. 1 \in 1 .. Len(r)
    BY <2>1
  <2> HIDE DEF u, v
  <2>5. \E k \in 1 .. Len(u) : u[k] = l
    BY <2>1, <2>2, <2>4
  <2>6. \A k \in 1 .. Len(ways) :
          ways[k].block = l.block \/ \E j \in 1 .. Len(u) : u[j] = ways[k]
    BY <2>2, <2>3
  <2>7. u \in Seq(Line) /\ Len(u) <= 8 /\ Distinct(u)
    BY <2>1, <2>2
  <2>8. \A k \in 1 .. Len(u) : u[k] = l \/ \E j \in 1 .. Len(ways) : u[k] = ways[j]
    BY <2>1, <2>2
  <2> QED
    BY <2>2, <2>5, <2>6, <2>7, <2>8 DEF u, v
<1>2. CASE ~Hammer!Holds(ways, l.block)
  <2> DEFINE n == Len(ways)
  <2>1. /\ u \in Seq(Line) /\ Len(u) = (IF n < 8 THEN n + 1 ELSE 8)
        /\ u[1] = l /\ \A p \in 2 .. Len(u) : u[p] = ways[p - 1]
        /\ v = IF n < 8 THEN <<>> ELSE <<ways[8]>>
    BY <1>2, UsedInL1
  <2>2. n \in Nat /\ n <= 8 /\ DOMAIN ways = 1 .. n
    OBVIOUS
  <2>3. \A k \in 1 .. n : ways[k].block # l.block
    BY <1>2, <2>2 DEF Hammer!Holds
  <2> HIDE DEF u, v, n
  <2>4. Len(u) \in 1 .. 8 /\ \A p \in 2 .. Len(u) : p - 1 \in 1 .. n
    BY <2>1, <2>2
  <2>5. Distinct(u)
    <3> SUFFICES ASSUME NEW k \in 1 .. Len(u), NEW j \in 1 .. Len(u), u[k].block = u[j].block
                 PROVE  k = j
      BY DEF Distinct
    <3>1. ASSUME NEW p \in 1 .. Len(u), p # 1
          PROVE  p - 1 \in 1 .. n /\ u[p] = ways[p - 1] /\ u[p].block # u[1].block
      <4>1. p \in 2 .. Len(u)
        BY <3>1, <2>4
      <4> QED
        BY <4>1, <2>1, <2>3, <2>4
    <3>2. CASE k = 1 \/ j = 1
      BY <3>1, <3>2
    <3>3. CASE k # 1 /\ j # 1
      <4>1. /\ k - 1 \in 1 .. n /\ j - 1 \in 1 .. n
            /\ ways[k - 1].block = ways[j - 1].block
        BY <3>1, <3>3
      <4>2. k - 1 = j - 1
        BY <4>1 DEF Distinct, n
      <4> QED
        BY <4>2, <2>4
    <3> QED
      BY <3>2, <3>3
  <2>6. ASSUME NEW k \in 1 .. Len(u)
        PROVE  u[k] = l \/ \E j \in 1 .. n : u[k] = ways[j]
    <3>1. k = 1 \/ k \in 2 .. Len(u)
      BY <2>4
    <3> QED
      BY <3>1, <2>1, <2>4
  <2>7. v = <<>> \/ \E k \in 1 .. n : v = <<ways[k]>> /\ ways[k].block # l.block
    <3>1. n < 8 \/ 8 \in 1 .. n
      BY <2>2
    <3> QED
      BY <3>1, <2>1, <2>2, <2>3
  <2>8. ASSUME NEW k \in 1 .. n
        PROVE  v = <<ways[k]>> \/ \E j \in 1 .. Len(u) : u[j] = ways[k]
    <3>1. CASE k + 1 <= Len(u)
      <4>1. k + 1 \in 2 .. Len(u) /\ k + 1 \in 1 .. Len(u) /\ (k + 1) - 1 = k
        BY <3>1, <2>4
      <4> QED
        BY <4>1, <2>1
    <3>2. CASE ~(k + 1 <= Len(u))
      <4>1. k = 8 /\ ~(n < 8)
        BY <3>2, <2>1, <2>2
      <4> QED
        BY <4>1, <2>1
    <3> QED
      BY <3>1, <3>2
  <2> QED
    <3>0. 1 \in 1 .. Len(u) /\ u[1] = l
      BY <2>1, <2>4
    <3>1. \E k \in 1 .. Len(u) : u[k] = l
      BY <3>0
    <3>2. Len(u) <= 8
      <4>1. \A x \in 1 .. 8 : x <= 8
        OBVIOUS
      <4> QED
        BY <4>1, <2>4
    <3> QED
      BY <3>1, <3>2, <2>1, <2>5, <2>6, <2>7, <2>8 DEF n, u, v
<1> QED
  BY <1>1, <1>2

\* A line used in the second level is there, and no other is lost but to DRAM.
LEMMA IntoL2Sound ==
  ASSUME NEW m, Caches(m), NEW l \in Line,
         hart.fault = "l2_drops" => Hammer!Victims(m.l2[l.block % S2], l) = <<>>
  PROVE  LET n == Hammer!IntoL2(m, l)
         IN  /\ Caches(n) /\ n.l1 = m.l1
             /\ Sound(l, m.dram) => Below(n, l.block)
             /\ \A b \in Nat : b # l.block /\ Below(m, b) => Below(n, b)
<1> DEFINE s == l.block % S2
           ways == m.l2[s]
           n == Hammer!IntoL2(m, l)
           u == Hammer!Used(ways, l)
           v == Hammer!Victims(ways, l)
           d == Hammer!Evicted(m.dram, v, "l2_drops")
<1>0. S1 \in Nat \ {0} /\ S2 \in Nat \ {0}
  BY SetSizes
<1>1. l.block \in Nat /\ s \in 0 .. S2 - 1
  <2>1. l.block \in Nat
    BY DEF Line
  <2> QED
    BY <2>1, <1>0
<1>2. Ways(ways, S2, s)
  BY <1>1 DEF Caches
<1>3. /\ n = [l1 |-> n.l1, l2 |-> n.l2, dram |-> n.dram]
      /\ n.l1 = m.l1 /\ n.l2 = [m.l2 EXCEPT ![s] = u] /\ n.dram = d
  <2>1. n = [m EXCEPT !.l2[s] = u, !.dram = d]
    BY DEF Hammer!IntoL2, S2
  <2>2. m = [l1 |-> m.l1, l2 |-> m.l2, dram |-> m.dram]
    BY DEF Caches
  <2> HIDE DEF n, u, d, s
  <2> QED
    BY <2>1, <2>2
<1> HIDE DEF n
<1>4. /\ u \in Seq(Line) /\ Len(u) <= 8 /\ Distinct(u)
      /\ \E k \in 1 .. Len(u) : u[k] = l
      /\ \A k \in 1 .. Len(u) : u[k] = l \/ \E j \in 1 .. Len(ways) : u[k] = ways[j]
      /\ v = <<>> \/ \E k \in 1 .. Len(ways) : v = <<ways[k]>> /\ ways[k].block # l.block
      /\ \A k \in 1 .. Len(ways) :
           \/ ways[k].block = l.block \/ v = <<ways[k]>>
           \/ \E j \in 1 .. Len(u) : u[j] = ways[k]
  <2>1. ways \in Seq(Line) /\ Len(ways) <= 8 /\ Distinct(ways) /\ l \in Line
    BY <1>2 DEF Ways
  <2> HIDE DEF ways
  <2> QED
    BY <2>1, UsedKeeps, Zenon
<1>5. m.dram \subseteq d
  BY DEF Hammer!Evicted
<1>6. ASSUME NEW k \in 1 .. Len(ways), v = <<ways[k]>>, ways[k].dirty
      PROVE  ways[k].block \in d
  <2>1. hart.fault # "l2_drops"
    BY <1>6
  <2>2. 1 \in DOMAIN v /\ v[1] = ways[k]
    BY <1>6
  <2> HIDE DEF v
  <2> QED
    BY <2>1, <2>2, <1>6 DEF Hammer!Evicted
<1> HIDE DEF u, v, d
<1>7. /\ n.l2 = [x \in 0 .. S2 - 1 |-> n.l2[x]]
      /\ \A x \in 0 .. S2 - 1 : n.l2[x] = IF x = s THEN u ELSE m.l2[x]
  <2>1. n.l2 = [x \in 0 .. S2 - 1 |-> IF x = s THEN u ELSE m.l2[x]]
    BY <1>1, <1>3 DEF Caches
  <2> QED
    BY <2>1
<1>8. Ways(u, S2, s)
  <2>1. ASSUME NEW k \in 1 .. Len(u) PROVE u[k].block % S2 = s
    <3>1. u[k] = l \/ \E j \in 1 .. Len(ways) : u[k] = ways[j]
      BY <1>4
    <3>2. \A j \in 1 .. Len(ways) : ways[j].block % S2 = s
      BY <1>2 DEF Ways
    <3> QED
      BY <3>1, <3>2
  <2> QED
    BY <2>1, <1>4 DEF Ways
<1>9. Caches(n)
  BY <1>3, <1>7, <1>8 DEF Caches
<1>10. ASSUME Sound(l, m.dram) PROVE Below(n, l.block)
  <2>1. n.l2[l.block % S2] = u
    BY <1>1, <1>7
  <2>2. \A k \in 1 .. Len(u) : u[k].block = l.block => u[k] = l
    BY <1>4 DEF Distinct
  <2>3. Sound(l, n.dram)
    BY <1>3, <1>5, <1>10 DEF Sound
  <2> QED
    BY <2>1, <2>2, <2>3, <1>4 DEF Below
<1>11. ASSUME NEW b \in Nat, b # l.block, Below(m, b) PROVE Below(n, b)
  <2>1. b % S2 \in 0 .. S2 - 1
    BY <1>0
  <2>2. CASE b % S2 # s
    <3>1. n.l2[b % S2] = m.l2[b % S2]
      BY <2>1, <2>2, <1>7
    <3> QED
      BY <3>1, <1>3, <1>5, <1>11 DEF Below, Sound
  <2>3. CASE b % S2 = s
    <3>1. n.l2[b % S2] = u
      BY <2>1, <2>3, <1>7
    <3>2. /\ \A k \in 1 .. Len(ways) : ways[k].block = b => Sound(ways[k], m.dram)
          /\ (\A k \in 1 .. Len(ways) : ways[k].block # b) => b \in m.dram
      BY <2>3, <1>11 DEF Below
    <3>3. ASSUME NEW k \in 1 .. Len(u), u[k].block = b PROVE Sound(u[k], n.dram)
      <4>1. PICK j \in 1 .. Len(ways) : u[k] = ways[j]
        BY <3>3, <1>4, <1>11
      <4> QED
        BY <4>1, <3>2, <3>3, <1>3, <1>5 DEF Sound
    <3>4. ASSUME \A k \in 1 .. Len(u) : u[k].block # b PROVE b \in n.dram
      <4>1. CASE \A k \in 1 .. Len(ways) : ways[k].block # b
        BY <4>1, <3>2, <1>3, <1>5
      <4>2. CASE \E k \in 1 .. Len(ways) : ways[k].block = b
        <5>1. PICK k \in 1 .. Len(ways) : ways[k].block = b
          BY <4>2
        <5>2. v = <<ways[k]>>
          BY <5>1, <3>4, <1>4, <1>11
        <5>3. ways[k].dirty \/ b \in m.dram
          BY <5>1, <3>2 DEF Sound
        <5> QED
          BY <5>1, <5>2, <5>3, <1>3, <1>5, <1>6
      <4> QED
        BY <4>1, <4>2
    <3> QED
      BY <3>1, <3>3, <3>4 DEF Below
  <2> QED
    BY <2>2, <2>3
<1> QED
  BY <1>3, <1>9, <1>10, <1>11 DEF n

\* What a miss in the first level brings in
LEMMA FetchedLine ==
  ASSUME NEW m, Caches(m), NEW b \in Nat
  PROVE  LET f == Hammer!FromL2(m, b)
         IN  /\ f \in Line /\ f.block = b
             /\ Below(m, b) => Sound(f, m.dram)
<1> DEFINE ways == m.l2[b % S2]
           f == Hammer!FromL2(m, b)
<1>1. b % S2 \in 0 .. S2 - 1
  BY SetSizes
<1>2. ways \in Seq(Line)
  BY <1>1 DEF Caches, Ways
<1>3. DOMAIN ways = 1 .. Len(ways)
  BY <1>2
<1>4. Below(m, b) =>
        /\ \A k \in 1 .. Len(ways) : ways[k].block = b => Sound(ways[k], m.dram)
        /\ (\A k \in 1 .. Len(ways) : ways[k].block # b) => b \in m.dram
  BY DEF Below
<1> HIDE DEF ways
<1>5. CASE Hammer!Holds(ways, b)
  <2>1. PICK k \in 1 .. Len(ways) : ways[k].block = b /\ f = ways[k]
    <3> DEFINE w == Hammer!WayOf(ways, b)
    <3>1. w \in 1 .. Len(ways) /\ ways[w].block = b
      BY <1>3, <1>5 DEF Hammer!Holds, Hammer!WayOf
    <3>2. f = ways[w]
      BY <1>5 DEF Hammer!FromL2, ways, S2
    <3> QED
      BY <3>1, <3>2
  <2>2. ways[k] \in Line
    BY <1>2
  <2> QED
    BY <2>1, <2>2, <1>4
<1>6. CASE ~Hammer!Holds(ways, b)
  <2>1. f = [block |-> b, dirty |-> FALSE, good |-> b \in m.dram]
    BY <1>6 DEF Hammer!FromL2, ways, S2
  <2>2. \A k \in 1 .. Len(ways) : ways[k].block # b
    BY <1>3, <1>6 DEF Hammer!Holds
  <2>3. f \in Line /\ f.block = b
    BY <2>1 DEF Line
  <2>4. b \in m.dram => Sound(f, m.dram)
    <3>1. f.good = (b \in m.dram) /\ f.block = b
      BY <2>1
    <3> HIDE DEF f
    <3> QED
      BY <3>1 DEF Sound
  <2> QED
    BY <2>2, <2>3, <2>4, <1>4
<1> QED
  BY <1>5, <1>6

\* An access loses nothing, and finds the data of what has been written.  In a
\* second level that drops what it writes back this takes that it never does.
LEMMA AccessLosesNothing ==
  ASSUME NEW m, NEW W \in SUBSET Nat, NoneLost(m, W),
         NEW b \in Nat, NEW writing \in BOOLEAN, writing \/ b \in W,
         hart.fault # "l1_drops",
         hart.fault = "l2_drops" => L2Inv(m) /\ b \in Streamed /\ W \subseteq Streamed
  PROVE  LET n == Hammer!Accessed(m, b, writing)
         IN  /\ NoneLost(n, W \union {b})
             /\ n.l1[b % S1][Hammer!WayOf(n.l1[b % S1], b)].good
<1> DEFINE s == b % S1
           ways == m.l1[s]
           hit == Hammer!Holds(ways, b)
           f == Hammer!FromL2(m, b)
           has == IF hit THEN ways[Hammer!WayOf(ways, b)] ELSE [f EXCEPT !.dirty = FALSE]
           new == IF writing THEN [block |-> b, dirty |-> TRUE, good |-> TRUE] ELSE has
           m1 == IF hit THEN m ELSE Hammer!IntoL2(m, f)
           u == Hammer!Used(ways, new)
           v == Hammer!Victims(ways, new)
           m2 == IF v # <<>> /\ v[1].dirty /\ hart.fault # "l1_drops"
                 THEN Hammer!IntoL2(m1, v[1]) ELSE m1
           n == Hammer!Accessed(m, b, writing)
<1>1. n = [m2 EXCEPT !.l1[s] = Hammer!Used(@, new)]
  BY DEF Hammer!Accessed, S1
<1>2. s \in 0 .. S1 - 1
  BY SetSizes
<1>3. /\ Caches(m) /\ Ways(ways, S1, s)
      /\ \A k \in 1 .. Len(ways) : ways[k].good /\ ways[k].block \in W
      /\ \A x \in W : DirtyInL1(m, x) \/ Below(m, x)
  BY <1>2 DEF NoneLost, Caches
<1>4. /\ ways \in Seq(Line) /\ Len(ways) <= 8 /\ Distinct(ways) /\ DOMAIN ways = 1 .. Len(ways)
      /\ \A k \in 1 .. Len(ways) : ways[k] \in Line /\ ways[k].block % S1 = s
  BY <1>3 DEF Ways
<1>5. f \in Line /\ f.block = b /\ (Below(m, b) => Sound(f, m.dram))
  BY <1>3, FetchedLine
<1> HIDE DEF ways, f
<1>6. /\ hit => \E k \in 1 .. Len(ways) : ways[k].block = b /\ has = ways[k]
      /\ ~hit => \A k \in 1 .. Len(ways) : ways[k].block # b
  <2>1. CASE hit
    <3> DEFINE w == Hammer!WayOf(ways, b)
    <3>1. w \in 1 .. Len(ways) /\ ways[w].block = b
      BY <1>4, <2>1 DEF Hammer!Holds, Hammer!WayOf
    <3>2. has = ways[w]
      BY <2>1
    <3> QED
      BY <2>1, <3>1, <3>2
  <2>2. CASE ~hit
    BY <1>4, <2>2 DEF Hammer!Holds
  <2> QED
    BY <2>1, <2>2
<1>7. ~hit /\ b \in W => Below(m, b) /\ Sound(f, m.dram)
  BY <1>3, <1>5, <1>6 DEF DirtyInL1, ways
<1>8. /\ new \in Line /\ new.block = b /\ new.good
      /\ b \in W => (DirtyInL1(m, b) => new.dirty)
  <2>1. CASE writing
    BY <2>1 DEF Line
  <2>2. CASE ~writing /\ hit
    <3>1. PICK k \in 1 .. Len(ways) : ways[k].block = b /\ new = ways[k]
      BY <2>2, <1>6
    <3>2. DirtyInL1(m, b) => ways[k].dirty
      BY <3>1, <1>4 DEF DirtyInL1, Distinct, ways
    <3> QED
      BY <3>1, <3>2, <1>3, <1>4
  <2>3. CASE ~writing /\ ~hit
    <3>1. new = [f EXCEPT !.dirty = FALSE] /\ f.good
      BY <2>3, <1>7 DEF Sound
    <3>2. new \in Line /\ new.block = b /\ new.good
      BY <3>1, <1>5 DEF Line
    <3>3. ~DirtyInL1(m, b)
      BY <2>3, <1>6 DEF DirtyInL1, ways
    <3> QED
      BY <3>2, <3>3
  <2> QED
    BY <2>1, <2>2, <2>3
<1> HIDE DEF has, new
<1>9. hart.fault = "l2_drops" /\ ~hit => Hammer!Victims(m.l2[f.block % S2], f) = <<>>
  <2> SUFFICES ASSUME hart.fault = "l2_drops"
               PROVE  Hammer!Victims(m.l2[f.block % S2], f) = <<>>
    OBVIOUS
  <2>1. b % S2 \in 0 .. S2 - 1
    BY SetSizes
  <2>2. L2Ways(m.l2[f.block % S2], b % S2)
    BY <2>1, <1>5 DEF L2Inv
  <2> QED
    BY <2>2, <1>5, UsedInL2
<1>10. /\ Caches(m1) /\ m1.l1 = m.l1
       /\ b \in W => DirtyInL1(m, b) \/ Below(m1, b)
       /\ \A x \in Nat : x # b /\ Below(m, x) => Below(m1, x)
       /\ hart.fault = "l2_drops" => L2Inv(m1)
  <2>1. CASE hit
    BY <2>1, <1>3
  <2>2. CASE ~hit
    <3>1. /\ Caches(m1) /\ m1.l1 = m.l1
          /\ Sound(f, m.dram) => Below(m1, b)
          /\ \A x \in Nat : x # b /\ Below(m, x) => Below(m1, x)
      BY <2>2, <1>3, <1>5, <1>9, IntoL2Sound
    <3>2. hart.fault = "l2_drops" => L2Inv(m1)
      BY <2>2, <1>5, IntoL2Keeps
    <3> QED
      BY <3>1, <3>2, <2>2, <1>7
  <2> QED
    BY <2>1, <2>2
<1> HIDE DEF hit, m1
<1>11. /\ u \in Seq(Line) /\ Len(u) <= 8 /\ Distinct(u)
       /\ \E k \in 1 .. Len(u) : u[k] = new
       /\ \A k \in 1 .. Len(u) : u[k] = new \/ \E j \in 1 .. Len(ways) : u[k] = ways[j]
       /\ v = <<>> \/ \E k \in 1 .. Len(ways) : v = <<ways[k]>> /\ ways[k].block # new.block
       /\ \A k \in 1 .. Len(ways) :
            \/ ways[k].block = new.block \/ v = <<ways[k]>>
            \/ \E j \in 1 .. Len(u) : u[j] = ways[k]
  <2>1. ways \in Seq(Line) /\ Len(ways) <= 8 /\ Distinct(ways) /\ new \in Line
    BY <1>4, <1>8
  <2> QED
    BY <2>1, UsedKeeps, Zenon
<1> HIDE DEF u, v
<1>12. /\ Caches(m2) /\ m2.l1 = m.l1
       /\ b \in W => DirtyInL1(m, b) \/ Below(m2, b)
       /\ \A x \in Nat : x # b /\ Below(m, x) => Below(m2, x)
       /\ \A k \in 1 .. Len(ways) : v = <<ways[k]>> => Below(m2, ways[k].block)
  <2>1. CASE v = <<>>
    <3>1. m2 = m1
      BY <2>1
    <3>2. \A k \in 1 .. Len(ways) : v # <<ways[k]>>
      BY <2>1
    <3> QED
      BY <3>1, <3>2, <1>10
  <2>2. CASE v # <<>>
    <3>1. PICK k \in 1 .. Len(ways) : v = <<ways[k]>> /\ ways[k].block # b
      BY <2>2, <1>8, <1>11
    <3> DEFINE y == ways[k]
    <3>2. y \in Line /\ y.good /\ y.block \in W /\ y.block \in Nat /\ y.block % S1 = s /\ v[1] = y
      BY <3>1, <1>3, <1>4
    <3>3. \A j \in 1 .. Len(ways) : v = <<ways[j]>> => ways[j] = y
      BY <3>1
    <3>4. y.dirty \/ Below(m, y.block)
      <4>1. DirtyInL1(m, y.block) => y.dirty
        BY <3>2, <1>4 DEF DirtyInL1, Distinct, ways
      <4> QED
        BY <4>1, <3>2, <1>3
    <3> HIDE DEF y
    <3>5. CASE y.dirty
      <4>1. m2 = Hammer!IntoL2(m1, y)
        BY <3>2, <3>5, <2>2
      <4>2. hart.fault = "l2_drops" => Hammer!Victims(m1.l2[y.block % S2], y) = <<>>
        <5> SUFFICES ASSUME hart.fault = "l2_drops"
                     PROVE  Hammer!Victims(m1.l2[y.block % S2], y) = <<>>
          OBVIOUS
        <5>1. y.block % S2 \in 0 .. S2 - 1
          BY <3>2, SetSizes
        <5>2. L2Ways(m1.l2[y.block % S2], y.block % S2)
          BY <5>1, <1>10 DEF L2Inv
        <5>3. y.block \in Streamed
          BY <3>2
        <5> QED
          BY <5>2, <5>3, <3>2, UsedInL2
      <4> HIDE DEF m2
      <4>3. /\ Caches(m2) /\ m2.l1 = m1.l1 /\ (Sound(y, m1.dram) => Below(m2, y.block))
            /\ \A x \in Nat : x # y.block /\ Below(m1, x) => Below(m2, x)
        BY <4>1, <4>2, <3>2, <1>10, IntoL2Sound
      <4>4. Below(m2, y.block)
        BY <4>3, <3>2, <3>5 DEF Sound
      <4> QED
        BY <4>3, <4>4, <3>1, <3>3, <1>10 DEF y
    <3>6. CASE ~y.dirty
      <4>1. m2 = m1
        BY <3>2, <3>6
      <4>2. Below(m1, y.block)
        BY <3>1, <3>2, <3>4, <3>6, <1>10 DEF y
      <4> QED
        BY <4>1, <4>2, <3>3, <1>10
    <3> QED
      BY <3>5, <3>6
  <2> QED
    BY <2>1, <2>2
<1> HIDE DEF m2, n
<1>13. /\ n = [l1 |-> n.l1, l2 |-> n.l2, dram |-> n.dram]
       /\ n.l2 = m2.l2 /\ n.dram = m2.dram /\ n.l1 = [m.l1 EXCEPT ![s] = u]
  <2>1. m2 = [l1 |-> m2.l1, l2 |-> m2.l2, dram |-> m2.dram]
    BY <1>12 DEF Caches
  <2>2. u = Hammer!Used(m.l1[s], new)
    BY DEF u, ways
  <2> HIDE DEF s
  <2>3. /\ n = [l1 |-> n.l1, l2 |-> n.l2, dram |-> n.dram]
        /\ n.l2 = m2.l2 /\ n.dram = m2.dram
        /\ n.l1 = [m2.l1 EXCEPT ![s] = Hammer!Used(@, new)]
    BY <2>1, <1>1
  <2> QED
    BY <2>2, <2>3, <1>12
<1>14. /\ n.l1 = [x \in 0 .. S1 - 1 |-> n.l1[x]]
       /\ \A x \in 0 .. S1 - 1 : n.l1[x] = IF x = s THEN u ELSE m.l1[x]
  <2>1. n.l1 = [x \in 0 .. S1 - 1 |-> IF x = s THEN u ELSE m.l1[x]]
    BY <1>2, <1>3, <1>13 DEF Caches
  <2> QED
    BY <2>1
<1>15. Caches(n)
  <2>1. Ways(u, S1, s)
    <3>1. \A k \in 1 .. Len(u) : u[k].block % S1 = s
      BY <1>4, <1>8, <1>11
    <3> QED
      BY <3>1, <1>11 DEF Ways
  <2> HIDE DEF s
  <2> QED
    BY <2>1, <1>3, <1>12, <1>13, <1>14 DEF Caches
<1>16. ASSUME NEW x \in 0 .. S1 - 1, NEW k \in 1 .. Len(n.l1[x])
       PROVE  n.l1[x][k].good /\ n.l1[x][k].block \in W \union {b}
  <2>1. CASE x = s
    <3>1. n.l1[x] = u
      BY <2>1, <1>14
    <3>2. u[k] = new \/ \E j \in 1 .. Len(ways) : u[k] = ways[j]
      BY <3>1, <1>11
    <3> QED
      BY <3>1, <3>2, <1>3, <1>8
  <2>2. CASE x # s
    <3>1. n.l1[x] = m.l1[x]
      BY <2>2, <1>14
    <3> QED
      BY <3>1 DEF NoneLost
  <2> QED
    BY <2>1, <2>2
<1>17. \A x : Below(m2, x) => Below(n, x)
  BY <1>13 DEF Below
<1>18. n.l1[s] = u
  BY <1>2, <1>14
<1>19. ASSUME NEW x \in W \union {b}, ~Below(n, x) PROVE DirtyInL1(n, x)
  <2>1. CASE x = b
    <3>1. new.dirty
      <4>1. CASE b \in W
        BY <4>1, <2>1, <1>8, <1>12, <1>17, <1>19
      <4>2. CASE b \notin W
        BY <4>2 DEF new
      <4> QED
        BY <4>1, <4>2
    <3> QED
      BY <3>1, <2>1, <1>8, <1>11, <1>18 DEF DirtyInL1
  <2>2. CASE x # b
    <3>1. x \in W /\ x \in Nat
      BY <2>2
    <3>2. ~Below(m, x) /\ DirtyInL1(m, x)
      BY <3>1, <2>2, <1>3, <1>12, <1>17, <1>19
    <3>3. CASE x % S1 = s
      <4>1. PICK k \in 1 .. Len(ways) : ways[k].block = x /\ ways[k].dirty
        BY <3>2, <3>3 DEF DirtyInL1, ways
      <4>2. v # <<ways[k]>>
        BY <4>1, <1>12, <1>17, <1>19
      <4>3. \E j \in 1 .. Len(u) : u[j] = ways[k]
        BY <4>1, <4>2, <2>2, <1>8, <1>11
      <4> QED
        BY <4>1, <4>3, <3>3, <1>18 DEF DirtyInL1
    <3>4. CASE x % S1 # s
      <4>1. x % S1 \in 0 .. S1 - 1
        BY <3>1, SetSizes
      <4>2. n.l1[x % S1] = m.l1[x % S1]
        BY <4>1, <3>4, <1>14
      <4> QED
        BY <4>2, <3>2 DEF DirtyInL1
    <3> QED
      BY <3>3, <3>4
  <2> QED
    BY <2>1, <2>2
<1>20. NoneLost(n, W \union {b})
  BY <1>15, <1>16, <1>19 DEF NoneLost
<1>21. u[Hammer!WayOf(u, b)].good
  <2>1. DOMAIN u = 1 .. Len(u)
    BY <1>11
  <2>2. \E k \in 1 .. Len(u) : u[k].block = b
    BY <1>8, <1>11
  <2>3. Hammer!WayOf(u, b) \in 1 .. Len(u)
    BY <2>1, <2>2 DEF Hammer!WayOf
  <2> QED
    BY <2>3, <1>2, <1>16, <1>18
<1>22. n.l1[b % S1][Hammer!WayOf(n.l1[b % S1], b)].good
  BY <1>18, <1>21
<1> QED
  BY <1>20, <1>22 DEF n

\* A flush of a set of the second level that works
LEMMA FlushLosesNothing ==
  ASSUME NEW m, NEW W \in SUBSET Nat, NoneLost(m, W), NEW s \in 0 .. S2 - 1,
         hart.fault # "flush_drops"
  PROVE  NoneLost([m EXCEPT !.l2[s] = <<>>,
                        !.dram = Hammer!Evicted(@, m.l2[s], "flush_drops")], W)
<1> DEFINE d == Hammer!Evicted(m.dram, m.l2[s], "flush_drops")
           n == [m EXCEPT !.l2[s] = <<>>,
                          !.dram = Hammer!Evicted(@, m.l2[s], "flush_drops")]
           ways == m.l2[s]
<1>1. /\ Caches(m) /\ Ways(ways, S2, s) /\ DOMAIN ways = 1 .. Len(ways)
      /\ \A b \in W : DirtyInL1(m, b) \/ Below(m, b)
  BY DEF NoneLost, Caches, Ways
<1>2. /\ m.dram \subseteq d
      /\ \A k \in 1 .. Len(ways) : ways[k].dirty => ways[k].block \in d
  <2>1. d = m.dram \union {ways[k].block : k \in {j \in DOMAIN ways : ways[j].dirty}}
    BY DEF Hammer!Evicted
  <2> HIDE DEF d, ways
  <2> QED
    BY <2>1, <1>1
<1>3. /\ n = [l1 |-> n.l1, l2 |-> n.l2, dram |-> n.dram]
      /\ n.l1 = m.l1 /\ n.l2 = [m.l2 EXCEPT ![s] = <<>>] /\ n.dram = d
  <2>1. m = [l1 |-> m.l1, l2 |-> m.l2, dram |-> m.dram]
    BY <1>1 DEF Caches
  <2>2. n = [m EXCEPT !.l2[s] = <<>>, !.dram = d]
    <3>1. Hammer!Evicted(m.dram, m.l2[s], "flush_drops") = d
      OBVIOUS
    <3> HIDE DEF d
    <3> QED
      BY <2>1, <3>1
  <2> HIDE DEF n, d
  <2> QED
    BY <2>1, <2>2
<1> HIDE DEF n, d
<1>4. /\ n.l2 = [x \in 0 .. S2 - 1 |-> n.l2[x]]
      /\ \A x \in 0 .. S2 - 1 : n.l2[x] = IF x = s THEN <<>> ELSE m.l2[x]
  <2>1. n.l2 = [x \in 0 .. S2 - 1 |-> IF x = s THEN <<>> ELSE m.l2[x]]
    BY <1>1, <1>3 DEF Caches
  <2> QED
    BY <2>1
<1>5. Ways(<<>>, S2, s)
  BY DEF Ways, Distinct
<1>6. Caches(n)
  BY <1>1, <1>3, <1>4, <1>5 DEF Caches
<1>7. ASSUME NEW b \in W, Below(m, b) PROVE Below(n, b)
  <2>1. b % S2 \in 0 .. S2 - 1
    BY SetSizes
  <2>2. CASE b % S2 # s
    <3>1. n.l2[b % S2] = m.l2[b % S2]
      BY <2>1, <2>2, <1>4
    <3> QED
      BY <3>1, <1>2, <1>3, <1>7 DEF Below, Sound
  <2>3. CASE b % S2 = s
    <3>1. n.l2[b % S2] = <<>>
      BY <2>1, <2>3, <1>4
    <3>2. /\ \A k \in 1 .. Len(ways) : ways[k].block = b => Sound(ways[k], m.dram)
          /\ (\A k \in 1 .. Len(ways) : ways[k].block # b) => b \in m.dram
      BY <2>3, <1>7 DEF Below
    <3> HIDE DEF ways
    <3>3. b \in d
      BY <3>2, <1>2 DEF Sound
    <3> QED
      BY <3>1, <3>3, <1>3 DEF Below
  <2> QED
    BY <2>2, <2>3
<1>8. NoneLost(n, W)
  <2>1. \A b : DirtyInL1(m, b) => DirtyInL1(n, b)
    BY <1>3 DEF DirtyInL1
  <2>2. \A b \in W : DirtyInL1(n, b) \/ Below(n, b)
    BY <2>1, <1>1, <1>7
  <2>3. \A x \in 0 .. S1 - 1 : \A k \in 1 .. Len(n.l1[x]) :
          n.l1[x][k].good /\ n.l1[x][k].block \in W
    BY <1>3 DEF NoneLost
  <2> QED
    BY <2>2, <2>3, <1>6 DEF NoneLost
<1> QED
  BY <1>8 DEF n

\* The caches are empty at first.
LEMMA NothingWritten ==
  NoneLost([l1 |-> [s \in 0 .. S1 - 1 |-> <<>>], l2 |-> [s \in 0 .. S2 - 1 |-> <<>>], dram |-> {}], {})
<1>1. \A sets, s : Ways(<<>>, sets, s)
  BY DEF Ways, Distinct
<1> QED
  BY <1>1 DEF NoneLost, Caches

-----------------------------------------------------------------------------
(* The programs *)

LosesNothing ==
  /\ hart.fault # "l1_drops"
  /\ hart.fault = "l2_drops" => test = "stream_hammer"
  /\ hart.fault = "flush_drops" => test # "cache_flush"

\* The blocks of the first n accesses of a program
WrittenBlocks(n) ==
  {Hammer!Block(Hammer!Program[test].writes, k) :
     k \in {j \in Nat : j < n /\ j < Hammer!Flushing}}

LosslessInv ==
  LosesNothing =>
    /\ finish # "fail"
    /\ finish = "none" => at \in Nat /\ NoneLost(caches, WrittenBlocks(at))

\* The blocks of a nest
LEMMA NestBlocks ==
  ASSUME NEW o \in Nat, NEW x \in Nat, NEW n \in Nat, NEW y \in Nat,
         NEW k \in Nat, k < o * n
  PROVE  Hammer!Block(Hammer!Nest(o, x, n, y), k) \in Nat
<1>1. n # 0
  BY o * 0 = 0
<1>2. k \div n \in Nat /\ k % n \in Nat
  BY <1>1, Divide
<1>3. Hammer!Block(Hammer!Nest(o, x, n, y), k) = (k \div n) * x + (k % n) * y
  BY DEF Hammer!Block, Hammer!Nest
<1>4. (k \div n) * x \in Nat /\ (k % n) * y \in Nat
  BY <1>2
<1> QED
  BY <1>3, <1>4

\* A program writes as many blocks as it says, and reads only those.
LEMMA ProgramBlocks ==
  ASSUME test \in Hammer!Tests
  PROVE  /\ Hammer!Flushing \in Nat /\ Hammer!Checking = Hammer!Flushing + Hammer!Program[test].flushes
         /\ Hammer!Program[test].flushes = IF test = "cache_flush" THEN S2 ELSE 0
         /\ Hammer!Program[test].reads.times \in Nat
         /\ Hammer!Ended = Hammer!Checking + Hammer!Program[test].reads.times
         /\ \A k \in Nat : k < Hammer!Flushing => Hammer!Block(Hammer!Program[test].writes, k) \in Nat
         /\ \A k \in Nat : k < Hammer!Program[test].reads.times =>
              \E j \in Nat : /\ j < Hammer!Flushing
                             /\ Hammer!Block(Hammer!Program[test].reads, k) =
                                  Hammer!Block(Hammer!Program[test].writes, j)
<1>0. S1 \in Nat \ {0} /\ S2 \in Nat \ {0} /\ HammerN \in Nat /\ StressN \in Nat
  BY SetSizes, VirtualMemoryTestsAssumption DEF Hammer!CacheHammerAssumption
<1> DEFINE p == Hammer!Program[test]
<1>1. /\ Hammer!Flushing = p.writes.times /\ Hammer!Checking = Hammer!Flushing + p.flushes
      /\ Hammer!Ended = Hammer!Checking + p.reads.times
  BY DEF Hammer!Flushing, Hammer!Checking, Hammer!Ended
<1>2. ASSUME NEW o \in Nat, NEW x \in Nat, NEW n \in Nat, NEW y \in Nat,
             p.writes = Hammer!Nest(o, x, n, y), p.reads = p.writes
      PROVE  /\ p.writes.times \in Nat /\ p.reads.times \in Nat
             /\ \A k \in Nat : k < p.writes.times => Hammer!Block(p.writes, k) \in Nat
             /\ \A k \in Nat : k < p.reads.times =>
                  \E j \in Nat : j < p.writes.times /\ Hammer!Block(p.reads, k) = Hammer!Block(p.writes, j)
  <2> HIDE DEF p
  <2>1. p.writes.times = o * n /\ o * n \in Nat
    BY <1>2 DEF Hammer!Nest
  <2>2. \A k \in Nat : k < p.writes.times => Hammer!Block(p.writes, k) \in Nat
    BY <2>1, <1>2, NestBlocks
  <2> QED
    BY <2>1, <2>2, <1>2
<1>3. CASE test = "stream_hammer"
  <2>1. p = Hammer!stream_hammer
    BY <1>3 DEF Hammer!Program
  <2>2. /\ p.writes.times = 8 * S2 /\ p.flushes = 0 /\ p.reads.times = 8 * S1
        /\ \A k \in Nat : k < 8 * S2 => Hammer!Block(p.writes, k) = StreamBlock(k)
        /\ \A k \in Nat : k >= 8 * S2 => Hammer!Block(p.reads, k - 8 * S2) = StreamBlock(k)
    BY <2>1, StreamBlocks
  <2> HIDE DEF p
  <2>3. ASSUME NEW k \in Nat, k < 8 * S2 PROVE Hammer!Block(p.writes, k) = k
    BY <2>2, <2>3 DEF StreamBlock
  <2>4. ASSUME NEW k \in Nat, k < 8 * S1
        PROVE  Hammer!Block(p.reads, k) \in Nat /\ Hammer!Block(p.reads, k) < 8 * S2
    <3> DEFINE c == 8 * S2 + k
    <3>1. c \in Nat /\ c >= 8 * S2 /\ c - 8 * S2 = k
      BY <1>0
    <3>2. Hammer!Block(p.reads, k) = StreamBlock(c)
      BY <3>1, <2>2
    <3>3. StreamBlock(c) = (k \div S1) * S2 + (k % S1)
      BY <3>1, <1>0 DEF StreamBlock
    <3> HIDE DEF c
    <3> DEFINE q == k \div S1
    <3>4. q \in Nat /\ k % S1 \in 0 .. S1 - 1 /\ k = q * S1 + (k % S1)
      BY <1>0, Divide
    <3> HIDE DEF q
    <3>5. q <= 7
      <4> SUFFICES ASSUME 8 <= q PROVE FALSE
        BY <3>4
      <4>1. 8 \in Nat
        OBVIOUS
      <4>2. 8 * S1 <= q * S1 /\ q * S1 \in Nat
        BY <4>1, <1>0, <3>4, Monotone
      <4> QED
        BY <4>2, <3>4, <2>4, <1>0
    <3>6. q * S2 \in Nat /\ q * S2 <= 7 * S2
      BY <3>4, <3>5, <1>0, Monotone, 7 \in Nat
    <3>7. S1 <= S2
      BY SetSizes
    <3> QED
      BY <3>2, <3>3, <3>4, <3>6, <3>7, <1>0 DEF q
  <2>5. ASSUME NEW k \in Nat, k < 8 * S1
        PROVE  \E j \in Nat : j < 8 * S2 /\ Hammer!Block(p.reads, k) = Hammer!Block(p.writes, j)
    <3> DEFINE j == Hammer!Block(p.reads, k)
    <3>1. j \in Nat /\ j < 8 * S2
      BY <2>4, <2>5
    <3> HIDE DEF j
    <3>2. Hammer!Block(p.writes, j) = j
      BY <3>1, <2>3
    <3> QED
      BY <3>1, <3>2 DEF j
  <2>6. 8 * S2 \in Nat /\ 8 * S1 \in Nat
    BY <1>0
  <2> QED
    BY <2>2, <2>3, <2>5, <2>6, <1>1, <1>3 DEF p
<1>4. CASE test = "cache_hammer"
  <2>1. p = Hammer!cache_hammer
    BY <1>4 DEF Hammer!Program
  <2>2. /\ p.writes = Hammer!Nest(1, 0, HammerN, 8 * S2) /\ p.reads = p.writes /\ p.flushes = 0
        /\ 8 * S2 \in Nat
    BY <2>1, <1>0 DEF Hammer!cache_hammer, Hammer!HammerLoop, S2
  <2> HIDE DEF p
  <2> QED
    BY <2>2, <1>0, <1>1, <1>2, <1>4 DEF p
<1>5. CASE test = "cache_flush"
  <2>1. p = Hammer!cache_flush
    BY <1>5 DEF Hammer!Program
  <2>2. /\ p.writes = Hammer!Nest(S2, S2 \div 8, 8, 8 * S2) /\ p.reads = p.writes /\ p.flushes = S2
        /\ 8 * S2 \in Nat /\ S2 \div 8 \in Nat
    BY <2>1, <1>0 DEF Hammer!cache_flush, Hammer!FlushLoop, Hammer!Assoc, S2
  <2> HIDE DEF p
  <2> QED
    BY <2>2, <1>0, <1>1, <1>2, <1>5 DEF p
<1>6. CASE test = "dram_stress"
  <2>1. p = Hammer!dram_stress
    BY <1>6 DEF Hammer!Program
  <2>2. p.writes = Hammer!Nest(1, 0, StressN, 1) /\ p.reads = p.writes /\ p.flushes = 0
    BY <2>1 DEF Hammer!dram_stress, Hammer!StressLoop
  <2> HIDE DEF p
  <2> QED
    BY <2>2, <1>0, <1>1, <1>2, <1>6 DEF p
<1>7. test \in {"stream_hammer", "cache_hammer", "cache_flush", "dram_stress"}
  BY DEF Hammer!Tests, Hammer!Program
<1> QED
  BY <1>3, <1>4, <1>5, <1>6, <1>7

-----------------------------------------------------------------------------
(* The steps of the four programs *)

\* Each access adds its block to those written.
LEMMA WrittenGrow ==
  ASSUME test \in Hammer!Tests, NEW n \in Nat
  PROVE  /\ WrittenBlocks(0) = {} /\ WrittenBlocks(n) \in SUBSET Nat
         /\ n < Hammer!Flushing =>
              WrittenBlocks(n + 1) =
                WrittenBlocks(n) \union {Hammer!Block(Hammer!Program[test].writes, n)}
         /\ n >= Hammer!Flushing =>
              /\ WrittenBlocks(n + 1) = WrittenBlocks(n)
              /\ \A k \in Nat : k < Hammer!Program[test].reads.times =>
                   Hammer!Block(Hammer!Program[test].reads, k) \in WrittenBlocks(n)
<1> DEFINE B(k) == Hammer!Block(Hammer!Program[test].writes, k)
           f == Hammer!Flushing
           upTo(x) == {j \in Nat : j < x /\ j < f}
<1>1. /\ f \in Nat /\ \A k \in Nat : k < f => B(k) \in Nat
      /\ \A k \in Nat : k < Hammer!Program[test].reads.times =>
           \E j \in Nat : j < f /\ Hammer!Block(Hammer!Program[test].reads, k) = B(j)
  BY ProgramBlocks
<1>2. \A x : WrittenBlocks(x) = {B(k) : k \in upTo(x)}
  BY DEF WrittenBlocks
<1> HIDE DEF B, f
<1>3. upTo(0) = {}
  OBVIOUS
<1>4. n < f => upTo(n + 1) = upTo(n) \union {n}
  BY <1>1
<1>5. n >= f => upTo(n + 1) = upTo(n) /\ \A j \in Nat : j < f => j \in upTo(n)
  BY <1>1
<1>6. \A k \in upTo(n) : k \in Nat /\ k < f
  OBVIOUS
<1> HIDE DEF upTo
<1>7. WrittenBlocks(0) = {} /\ WrittenBlocks(n) \in SUBSET Nat
  BY <1>1, <1>2, <1>3, <1>6
<1>8. n < f => WrittenBlocks(n + 1) = WrittenBlocks(n) \union {B(n)}
  BY <1>2, <1>4
<1>9. n >= f =>
        /\ WrittenBlocks(n + 1) = WrittenBlocks(n)
        /\ \A k \in Nat : k < Hammer!Program[test].reads.times =>
             Hammer!Block(Hammer!Program[test].reads, k) \in WrittenBlocks(n)
  BY <1>1, <1>2, <1>5
<1> QED
  BY <1>7, <1>8, <1>9 DEF B, f

\* What stream_hammer.c has written is among its blocks.
LEMMA WrittenStreamed ==
  ASSUME test = "stream_hammer", NEW n \in Nat
  PROVE  WrittenBlocks(n) \subseteq Streamed
<1>1. Hammer!Flushing = 8 * S2
  BY StreamBounds
<1>2. \A k \in Nat : k < 8 * S2 => Hammer!Block(Hammer!Program[test].writes, k) = k
  BY StreamBounds DEF StreamBlock
<1>3. \A k \in Nat : k < 8 * S2 => k \in Streamed
  BY SetSizes DEF Streamed
<1> QED
  BY <1>1, <1>2, <1>3 DEF WrittenBlocks

\* Nothing is written at first.
LEMMA LosslessStarts ==
  ASSUME Hammer!Init
  PROVE  LosslessInv
<1>1. /\ test \in Hammer!Tests /\ finish = "none" /\ at = 0
      /\ caches = [l1 |-> [s \in 0 .. S1 - 1 |-> <<>>],
                   l2 |-> [s \in 0 .. S2 - 1 |-> <<>>], dram |-> {}]
  BY DEF Hammer!Init, S1, S2
<1>2. WrittenBlocks(0) = {}
  BY <1>1, WrittenGrow
<1> QED
  BY <1>1, <1>2, NothingWritten DEF LosslessInv

\* No step loses a block, so no load finds anything but what was written.
LEMMA LosslessKeeps ==
  ASSUME test \in Hammer!Tests, LosslessInv, test = "stream_hammer" => StreamInv,
         Hammer!Next
  PROVE  LosslessInv'
<1> DEFINE W == WrittenBlocks(at)
<1>1. CASE UNCHANGED Hammer!vars
  BY <1>1 DEF Hammer!vars, Hammer!hammerVars, LosslessInv, LosesNothing, WrittenBlocks,
              Hammer!Flushing, Hammer!Program
<1>2. CASE (Hammer!Write \/ Hammer!Flush \/ Hammer!Check \/ Hammer!Pass) /\ UNCHANGED <<test, hart>>
  <2>1. LosesNothing' = LosesNothing /\ \A n : WrittenBlocks(n)' = WrittenBlocks(n)
    BY <1>2 DEF LosesNothing, WrittenBlocks, Hammer!Flushing, Hammer!Program
  <2> SUFFICES ASSUME LosesNothing
               PROVE  /\ finish' # "fail"
                      /\ finish' = "none" => at' \in Nat /\ NoneLost(caches', WrittenBlocks(at'))
    BY <2>1 DEF LosslessInv
  <2>2. finish = "none" /\ at \in Nat /\ NoneLost(caches, W)
    BY <1>2 DEF LosslessInv, Hammer!Write, Hammer!Flush, Hammer!Check, Hammer!Pass, Hammer!Running
  <2>3. W \in SUBSET Nat
    BY <2>2, WrittenGrow
  <2>4. /\ Hammer!Flushing \in Nat
        /\ Hammer!Checking = Hammer!Flushing + Hammer!Program[test].flushes
        /\ Hammer!Program[test].flushes = IF test = "cache_flush" THEN S2 ELSE 0
        /\ Hammer!Program[test].reads.times \in Nat
        /\ Hammer!Ended = Hammer!Checking + Hammer!Program[test].reads.times
        /\ S2 \in Nat
    BY ProgramBlocks, SetSizes
  <2>5. hart.fault = "l2_drops" =>
          /\ L2Inv(caches) /\ W \subseteq Streamed
          /\ at < Hammer!Ended => StreamBlock(at) \in Streamed
    <3> SUFFICES ASSUME hart.fault = "l2_drops"
                 PROVE  /\ L2Inv(caches) /\ W \subseteq Streamed
                        /\ at < Hammer!Ended => StreamBlock(at) \in Streamed
      OBVIOUS
    <3>1. test = "stream_hammer"
      BY DEF LosesNothing
    <3>2. CachesInv(caches, at) /\ Hammer!Ended = 8 * S2 + 8 * S1
      BY <2>2, <3>1, StreamBounds DEF StreamInv
    <3>3. at < 8 * S2 + 8 * S1 => StreamBlock(at) \in Streamed
      BY <2>2, <3>2, AccessMisses
    <3> QED
      BY <2>2, <3>1, <3>2, <3>3, WrittenStreamed DEF CachesInv
  <2> HIDE DEF W
  <2>6. CASE Hammer!Write
    <3> DEFINE b == Hammer!Block(Hammer!Program[test].writes, at)
    <3>1. /\ at < Hammer!Flushing /\ caches' = Hammer!Accessed(caches, b, TRUE)
          /\ at' = at + 1 /\ finish' = finish
      BY <2>6 DEF Hammer!Write
    <3>2. b \in Nat
      BY <2>2, <3>1, ProgramBlocks
    <3>3. hart.fault = "l2_drops" => L2Inv(caches) /\ b \in Streamed /\ W \subseteq Streamed
      <4>1. hart.fault = "l2_drops" => test = "stream_hammer" /\ at < Hammer!Ended
        BY <3>1, <2>2, <2>4 DEF LosesNothing
      <4>2. test = "stream_hammer" => b = StreamBlock(at)
        BY <2>2, <3>1, StreamBounds
      <4> QED
        BY <4>1, <4>2, <2>5
    <3> HIDE DEF b
    <3>4. NoneLost(caches', W \union {b})
      BY <3>1, <3>2, <3>3, <2>2, <2>3, AccessLosesNothing DEF LosesNothing
    <3>5. WrittenBlocks(at + 1) = W \union {b}
      BY <2>2, <3>1, WrittenGrow DEF W, b
    <3>6. WrittenBlocks(at') = W \union {b} /\ at' \in Nat
      BY <2>2, <3>1, <3>5
    <3> QED
      BY <2>2, <3>1, <3>4, <3>6
  <2>7. CASE Hammer!Flush
    <3> DEFINE s == at - Hammer!Flushing
    <3>1. /\ at \in Hammer!Flushing .. Hammer!Checking - 1 /\ at' = at + 1 /\ finish' = finish
          /\ caches' = IF hart.fault = "flush_ignored" THEN caches
                       ELSE [caches EXCEPT !.l2[s] = <<>>,
                               !.dram = Hammer!Evicted(@, caches.l2[s], "flush_drops")]
      BY <2>7 DEF Hammer!Flush
    <3>2. test = "cache_flush" /\ s \in 0 .. S2 - 1 /\ at >= Hammer!Flushing
      <4> DEFINE f == Hammer!Flushing
                 n == Hammer!Program[test].flushes
      <4>1. f \in Nat /\ Hammer!Checking = f + n /\ n = IF test = "cache_flush" THEN S2 ELSE 0
        BY <2>4
      <4>2. S2 \in Nat /\ at \in Nat /\ at \in f .. Hammer!Checking - 1
        BY <3>1, <2>2, <2>4
      <4> HIDE DEF f, n
      <4>3. n \in Nat /\ at >= f /\ at - f \in 0 .. n - 1
        BY <4>1, <4>2
      <4>4. test = "cache_flush"
        BY <4>1, <4>3
      <4> QED
        BY <4>1, <4>3, <4>4 DEF f
    <3>3. NoneLost(caches', W)
      <4> HIDE DEF s
      <4> QED
        BY <3>1, <3>2, <2>2, <2>3, FlushLosesNothing DEF LosesNothing
    <3>4. WrittenBlocks(at + 1) = W
      BY <2>2, <3>2, WrittenGrow DEF W
    <3> QED
      BY <2>2, <3>1, <3>3, <3>4
  <2>8. CASE Hammer!Check
    <3> DEFINE k == at - Hammer!Checking
               b == Hammer!Block(Hammer!Program[test].reads, k)
               m == Hammer!Accessed(caches, b, FALSE)
               ways == m.l1[b % S1]
    <3>1. /\ at \in Hammer!Checking .. Hammer!Ended - 1 /\ caches' = m
          /\ IF ways[Hammer!WayOf(ways, b)].good THEN at' = at + 1 /\ UNCHANGED finish
             ELSE finish' = "fail" /\ UNCHANGED at
      BY <2>8 DEF Hammer!Check, S1
    <3>2. /\ k \in Nat /\ k < Hammer!Program[test].reads.times /\ at >= Hammer!Flushing
          /\ at < Hammer!Ended
      BY <3>1, <2>2, <2>4
    <3>3. b \in W /\ b \in Nat
      <4> HIDE DEF k
      <4> QED
        BY <2>2, <2>3, <3>2, WrittenGrow DEF W
    <3>4. hart.fault = "l2_drops" => L2Inv(caches) /\ b \in Streamed /\ W \subseteq Streamed
      BY <2>5, <3>3
    <3> HIDE DEF b
    <3>5. NoneLost(m, W \union {b}) /\ ways[Hammer!WayOf(ways, b)].good
      BY <3>3, <3>4, <2>2, <2>3, AccessLosesNothing DEF LosesNothing
    <3>6. WrittenBlocks(at + 1) = W /\ W \union {b} = W
      BY <2>2, <3>2, <3>3, WrittenGrow DEF W
    <3> HIDE DEF m, ways
    <3>7. at' = at + 1 /\ finish' = finish
      BY <3>1, <3>5
    <3>8. WrittenBlocks(at') = W \union {b} /\ at' \in Nat
      BY <2>2, <3>6, <3>7
    <3> QED
      BY <2>2, <3>1, <3>5, <3>7, <3>8
  <2>9. CASE Hammer!Pass
    BY <2>9 DEF Hammer!Pass
  <2> QED
    BY <1>2, <2>6, <2>7, <2>8, <2>9
<1> QED
  BY <1>1, <1>2 DEF Hammer!Next

-----------------------------------------------------------------------------
(* The paths of vm_start.S, instruction by instruction *)

Path(s) == Len(s) \in Nat /\ s = [k \in 1 .. Len(s) |-> s[k]]
IsPath(s, n) == Path(s) /\ Len(s) = n

\* What is left of a path when its k-th instruction is next
Rest(s, k, n) == SubSeq(s, k, n)

\* Where the instructions of two stretches are when one follows the other
Joined(u, s, m, t, n) ==
  /\ IsPath(u, m + n)
  /\ \A k \in 1 .. m : u[k] = s[k]
  /\ \A k \in 1 .. n : u[m + k] = t[k]

\* A path made of two has the instructions of the first, then those of the second.
LEMMA PathsJoined ==
  ASSUME NEW s, NEW m, NEW t, NEW n, NEW u, IsPath(s, m), IsPath(t, n), u = s \o t
  PROVE  Joined(u, s, m, t, n)
<1> DEFINE T == {s[k] : k \in 1 .. m} \union {t[k] : k \in 1 .. n}
<1>1. m \in Nat /\ n \in Nat /\ Len(s) = m /\ Len(t) = n
  BY DEF IsPath, Path
<1>2. s = [k \in 1 .. m |-> s[k]] /\ t = [k \in 1 .. n |-> t[k]]
  BY DEF IsPath, Path
<1>3. (\A k \in 1 .. m : s[k] \in T) /\ (\A k \in 1 .. n : t[k] \in T)
  OBVIOUS
<1> HIDE DEF T
<1>4. [k \in 1 .. m |-> s[k]] \in Seq(T) /\ [k \in 1 .. n |-> t[k]] \in Seq(T)
  BY <1>1, <1>3, SeqDef
<1>5. s \in Seq(T) /\ t \in Seq(T)
  BY <1>2, <1>4
<1>6. /\ u \in Seq(T) /\ Len(u) = Len(s) + Len(t)
      /\ \A k \in 1 .. Len(s) : u[k] = s[k]
      /\ \A k \in 1 .. Len(t) : u[Len(s) + k] = t[k]
  BY <1>5, ConcatProperties
<1>7. Path(u)
  BY <1>6, LenProperties DEF Path
<1> QED
  BY <1>1, <1>6, <1>7, Zenon DEF Joined, IsPath

\* The instruction at the head of what is left, and what is left behind it
LEMMA PathStep ==
  ASSUME NEW s, NEW n, IsPath(s, n), NEW k \in 1 .. n
  PROVE  /\ Rest(s, k, n) # <<>> /\ Head(Rest(s, k, n)) = s[k]
         /\ Tail(Rest(s, k, n)) = Rest(s, k + 1, n)
<1> DEFINE T == {s[x] : x \in 1 .. n}
<1>1. n \in Nat /\ Len(s) = n /\ s = [x \in 1 .. n |-> s[x]]
  BY DEF IsPath, Path
<1>2. \A x \in 1 .. n : s[x] \in T
  OBVIOUS
<1> HIDE DEF T
<1>3. [x \in 1 .. n |-> s[x]] \in Seq(T)
  BY <1>1, <1>2, SeqDef
<1>4. s \in Seq(T) /\ k \in 1 .. Len(s) /\ n \in k .. Len(s)
  BY <1>1, <1>3
<1>5. Head(Rest(s, k, n)) = s[k] /\ Tail(Rest(s, k, n)) = Rest(s, k + 1, n)
  BY <1>4, HeadTailOfSubSeq DEF Rest
<1>6. Len(Rest(s, k, n)) = n - k + 1
  <2>1. /\ k \in Int /\ n \in Int /\ k <= n
        /\ \A x \in k .. n : s[x] \in T
    BY <1>1, <1>2
  <2> QED
    BY <2>1, SubSeqProperties DEF Rest
<1>7. Rest(s, k, n) # <<>>
  <2> SUFFICES ASSUME Rest(s, k, n) = <<>> PROVE FALSE
    OBVIOUS
  <2>1. Len(Rest(s, k, n)) = 0
    OBVIOUS
  <2> QED
    BY <2>1, <1>6, <1>1
<1> QED
  BY <1>5, <1>7

\* A whole path is what is left before its first instruction.
LEMMA PathStarts ==
  ASSUME NEW s, NEW n, IsPath(s, n)
  PROVE  s = Rest(s, 1, n)
<1> DEFINE T == {s[x] : x \in 1 .. n}
<1>1. n \in Nat /\ Len(s) = n /\ s = [x \in 1 .. n |-> s[x]]
  BY DEF IsPath, Path
<1>2. \A x \in 1 .. n : s[x] \in T
  OBVIOUS
<1> HIDE DEF T
<1>3. [x \in 1 .. n |-> s[x]] \in Seq(T)
  BY <1>1, <1>2, SeqDef
<1>4. s \in Seq(T)
  BY <1>1, <1>3
<1> QED
  BY <1>1, <1>4, SubSeqFull DEF Rest

\* trap_entry: 43 instructions
LEMMA EntryPath ==
  LET s == Trapping!trap_entry
  IN  /\ IsPath(s, 43)
      /\ s[1] = Trapping!Swap("sscratch")
      /\ \A r \in Trapping!Registers \ {2} :
           s[IF r = 1 THEN 2 ELSE r] = Trapping!Store(r, r)
      /\ s[32] = Trapping!SwapT0 /\ s[33] = Trapping!Store(5, 2)
      /\ s[34] = Trapping!Set(5, 132) /\ s[35] = Trapping!Store(5, 32)
      /\ s[36] = Trapping!Set(5, 133) /\ s[37] = Trapping!Store(5, 33)
      /\ s[38] = Trapping!Set(5, 134) /\ s[39] = Trapping!Store(5, 34)
      /\ s[40] = Trapping!Set(5, 135) /\ s[41] = Trapping!Store(5, 35)
      /\ s[42] = Trapping!MoveA0Sp /\ s[43] = Trapping!Jump("handle_trap")
<1> DEFINE p1 == <<Trapping!Swap("sscratch")>>
           p2 == Trapping!SaveGprs
           p3 == <<Trapping!SwapT0, Trapping!Store(5, 2)>>
           p4 == Trapping!SaveCsrs
           p5 == <<Trapping!MoveA0Sp, Trapping!Jump("handle_trap")>>
           s == Trapping!trap_entry
<1>1. s = (((p1 \o p2) \o p3) \o p4) \o p5
  BY DEF Trapping!trap_entry, Trapping!t0
<1>2. IsPath(p1, 1) /\ p1[1] = Trapping!Swap("sscratch")
  BY DEF IsPath, Path
<1>3. /\ IsPath(p2, 30) /\ p2[1] = Trapping!Store(1, 1)
      /\ \A k \in 2 .. 30 : p2[k] = Trapping!Store(k + 1, k + 1)
  <2>1. p2 = [k \in 1 .. 30 |-> IF k = 1 THEN Trapping!Store(1, 1) ELSE Trapping!Store(k + 1, k + 1)]
    BY DEF Trapping!SaveGprs
  <2>2. Len(p2) = 30
    BY <2>1
  <2> QED
    BY <2>1, <2>2 DEF IsPath, Path
<1>4. IsPath(p3, 2) /\ p3[1] = Trapping!SwapT0 /\ p3[2] = Trapping!Store(5, 2)
  BY DEF IsPath, Path
<1>5. /\ IsPath(p4, 8)
      /\ p4[1] = Trapping!Set(5, 132) /\ p4[2] = Trapping!Store(5, 32)
      /\ p4[3] = Trapping!Set(5, 133) /\ p4[4] = Trapping!Store(5, 33)
      /\ p4[5] = Trapping!Set(5, 134) /\ p4[6] = Trapping!Store(5, 34)
      /\ p4[7] = Trapping!Set(5, 135) /\ p4[8] = Trapping!Store(5, 35)
  BY DEF IsPath, Path, Trapping!SaveCsrs, Trapping!t0, Trapping!SSTATUS, Trapping!EPC,
         Trapping!STVAL, Trapping!SCAUSE
<1>6. IsPath(p5, 2) /\ p5[1] = Trapping!MoveA0Sp /\ p5[2] = Trapping!Jump("handle_trap")
  BY DEF IsPath, Path
<1> DEFINE q2 == p1 \o p2
           q3 == q2 \o p3
           q4 == q3 \o p4
<1> HIDE DEF p1, p2, p3, p4, p5, s
<1>7. /\ IsPath(q2, 31) /\ q2[1] = p1[1] /\ \A k \in 1 .. 30 : q2[1 + k] = p2[k]
  <2>1. Joined(q2, p1, 1, p2, 30)
    BY <1>2, <1>3, PathsJoined, Zenon DEF q2
  <2> HIDE DEF q2
  <2> QED
    BY <2>1 DEF Joined
<1> HIDE DEF q2
<1>8. /\ IsPath(q3, 33) /\ \A k \in 1 .. 31 : q3[k] = q2[k]
      /\ \A k \in 1 .. 2 : q3[31 + k] = p3[k]
  <2>1. Joined(q3, q2, 31, p3, 2)
    BY <1>4, <1>7, PathsJoined, Zenon DEF q3
  <2> HIDE DEF q3
  <2> QED
    BY <2>1 DEF Joined
<1> HIDE DEF q3
<1>9. /\ IsPath(q4, 41) /\ \A k \in 1 .. 33 : q4[k] = q3[k]
      /\ \A k \in 1 .. 8 : q4[33 + k] = p4[k]
  <2>1. Joined(q4, q3, 33, p4, 8)
    <3>1. IsPath(q3, 33) /\ IsPath(p4, 8)
      BY <1>5, <1>8
    <3> QED
      BY <3>1, PathsJoined, Zenon DEF q4
  <2> HIDE DEF q4
  <2> QED
    BY <2>1 DEF Joined
<1> HIDE DEF q4
<1>10. /\ IsPath(s, 43) /\ \A k \in 1 .. 41 : s[k] = q4[k]
       /\ \A k \in 1 .. 2 : s[41 + k] = p5[k]
  <2>1. s = q4 \o p5
    BY <1>1 DEF q2, q3, q4
  <2>2. Joined(s, q4, 41, p5, 2)
    BY <2>1, <1>6, <1>9, PathsJoined, Zenon
  <2> QED
    BY <2>2 DEF Joined
<1>11. \A r \in Trapping!Registers \ {2} :
         s[IF r = 1 THEN 2 ELSE r] = Trapping!Store(r, r)
  <2> SUFFICES ASSUME NEW r \in Trapping!Registers \ {2}
               PROVE  s[IF r = 1 THEN 2 ELSE r] = Trapping!Store(r, r)
    OBVIOUS
  <2>1. r \in 1 .. 31 /\ r # 2
    BY DEF Trapping!Registers
  <2>2. CASE r = 1
    <3>1. s[2] = q2[2] /\ q2[1 + 1] = p2[1]
      BY <1>7, <1>8, <1>9, <1>10
    <3> QED
      BY <2>2, <3>1, <1>3
  <2>3. CASE r # 1
    <3>1. r - 1 \in 2 .. 30 /\ 1 + (r - 1) = r /\ (r - 1) + 1 = r
      BY <2>1, <2>3
    <3>2. s[r] = q2[r] /\ q2[1 + (r - 1)] = p2[r - 1]
      BY <2>1, <3>1, <1>7, <1>8, <1>9, <1>10
    <3> QED
      BY <2>3, <3>1, <3>2, <1>3
  <2> QED
    BY <2>2, <2>3
<1>12. s[1] = Trapping!Swap("sscratch")
  BY <1>2, <1>7, <1>8, <1>9, <1>10
<1>13. /\ s[31 + 1] = p3[1] /\ s[31 + 2] = p3[2]
       /\ \A k \in 1 .. 8 : s[33 + k] = p4[k]
       /\ s[41 + 1] = p5[1] /\ s[41 + 2] = p5[2]
  BY <1>8, <1>9, <1>10
<1>14. /\ s[33 + 1] = p4[1] /\ s[33 + 2] = p4[2] /\ s[33 + 3] = p4[3] /\ s[33 + 4] = p4[4]
       /\ s[33 + 5] = p4[5] /\ s[33 + 6] = p4[6] /\ s[33 + 7] = p4[7] /\ s[33 + 8] = p4[8]
  BY <1>13
<1> QED
  BY <1>4, <1>5, <1>6, <1>10, <1>11, <1>12, <1>13, <1>14 DEF s

\* pop_tf: 34 instructions
LEMMA PopPath ==
  LET s == Trapping!pop_tf
  IN  /\ IsPath(s, 34)
      /\ s[1] = Trapping!Load(5, 33, 10) /\ s[2] = Trapping!WriteSepc
      /\ \A r \in Trapping!Registers \ {10} :
           s[IF r < 10 THEN r + 2 ELSE r + 1] = Trapping!Load(r, r, 10)
      /\ s[33] = Trapping!Load(10, 10, 10) /\ s[34] = Trapping!Jump("sret")
<1> DEFINE p1 == <<Trapping!Load(5, 33, 10), Trapping!WriteSepc>>
           p2 == Trapping!LoadGprs
           p3 == <<Trapping!Load(10, 10, 10), Trapping!Jump("sret")>>
           s == Trapping!pop_tf
<1>1. s = (p1 \o p2) \o p3
  BY DEF Trapping!pop_tf, Trapping!t0, Trapping!a0
<1>2. IsPath(p1, 2) /\ p1[1] = Trapping!Load(5, 33, 10) /\ p1[2] = Trapping!WriteSepc
  BY DEF IsPath, Path
<1>3. /\ IsPath(p2, 30)
      /\ \A k \in 1 .. 30 : p2[k] = IF k < 10 THEN Trapping!Load(k, k, 10)
                                             ELSE Trapping!Load(k + 1, k + 1, 10)
  <2>1. p2 = [k \in 1 .. 30 |-> IF k < 10 THEN Trapping!Load(k, k, 10)
                                           ELSE Trapping!Load(k + 1, k + 1, 10)]
    BY DEF Trapping!LoadGprs, Trapping!a0
  <2>2. Len(p2) = 30
    BY <2>1
  <2> QED
    BY <2>1, <2>2 DEF IsPath, Path
<1>4. IsPath(p3, 2) /\ p3[1] = Trapping!Load(10, 10, 10) /\ p3[2] = Trapping!Jump("sret")
  BY DEF IsPath, Path
<1> DEFINE q2 == p1 \o p2
<1> HIDE DEF p1, p2, p3, s
<1>5. /\ IsPath(q2, 32) /\ \A k \in 1 .. 2 : q2[k] = p1[k]
      /\ \A k \in 1 .. 30 : q2[2 + k] = p2[k]
  <2>1. Joined(q2, p1, 2, p2, 30)
    BY <1>2, <1>3, PathsJoined, Zenon DEF q2
  <2> HIDE DEF q2
  <2> QED
    BY <2>1 DEF Joined
<1> HIDE DEF q2
<1>6. /\ IsPath(s, 34) /\ \A k \in 1 .. 32 : s[k] = q2[k]
      /\ \A k \in 1 .. 2 : s[32 + k] = p3[k]
  <2>1. s = q2 \o p3
    BY <1>1 DEF q2
  <2>2. Joined(s, q2, 32, p3, 2)
    BY <2>1, <1>4, <1>5, PathsJoined, Zenon
  <2> QED
    BY <2>2 DEF Joined
<1>7. \A r \in Trapping!Registers \ {10} :
         s[IF r < 10 THEN r + 2 ELSE r + 1] = Trapping!Load(r, r, 10)
  <2> SUFFICES ASSUME NEW r \in Trapping!Registers \ {10}
               PROVE  s[IF r < 10 THEN r + 2 ELSE r + 1] = Trapping!Load(r, r, 10)
    OBVIOUS
  <2>1. r \in 1 .. 31 /\ r # 10
    BY DEF Trapping!Registers
  <2>2. CASE r < 10
    <3>1. r \in 1 .. 30 /\ r + 2 \in 1 .. 32 /\ 2 + r = r + 2
      BY <2>1, <2>2
    <3>2. s[r + 2] = q2[r + 2] /\ q2[2 + r] = p2[r]
      BY <3>1, <1>5, <1>6
    <3> QED
      BY <2>2, <3>1, <3>2, <1>3
  <2>3. CASE ~(r < 10)
    <3>1. /\ r - 1 \in 1 .. 30 /\ ~(r - 1 < 10) /\ r + 1 \in 1 .. 32
          /\ 2 + (r - 1) = r + 1 /\ (r - 1) + 1 = r
      BY <2>1, <2>3
    <3>2. s[r + 1] = q2[r + 1] /\ q2[2 + (r - 1)] = p2[r - 1]
      BY <3>1, <1>5, <1>6
    <3> QED
      BY <2>3, <3>1, <3>2, <1>3
  <2> QED
    BY <2>2, <2>3
<1>8. s[1] = p1[1] /\ s[2] = p1[2] /\ s[32 + 1] = p3[1] /\ s[32 + 2] = p3[2]
  BY <1>5, <1>6
<1> QED
  BY <1>2, <1>4, <1>6, <1>7, <1>8 DEF s

\* m_trap_vector, and how it goes back to user mode or to the default handler
MReturn == Trapping!MRestore \o <<Trapping!Jump("mret")>>
MDefer == Trapping!MRestore \o <<Trapping!Jump("mtvec_handler")>>

\* The machine trap vector saves t0 and t1 before it dispatches, and both ways out
\* of it give them back before they leave vm_start.S's frame.
LEMMA VectorPaths ==
  LET s == Trapping!m_trap_vector
  IN  /\ IsPath(s, 4)
      /\ s[1] = Trapping!Swap("mscratch")
      /\ s[2] = Trapping!Store(5, 5) /\ s[3] = Trapping!Store(6, 6)
      /\ s[4] = Trapping!Jump("dispatch")
      /\ \A p \in {MReturn, MDefer} :
           /\ IsPath(p, 4)
           /\ p[1] = Trapping!Load(5, 5, 2) /\ p[2] = Trapping!Load(6, 6, 2)
           /\ p[3] = Trapping!Swap("mscratch")
      /\ MReturn[4] = Trapping!Jump("mret") /\ MDefer[4] = Trapping!Jump("mtvec_handler")
<1> DEFINE s == Trapping!m_trap_vector
<1>1. /\ IsPath(s, 4)
      /\ s[1] = Trapping!Swap("mscratch")
      /\ s[2] = Trapping!Store(5, 5) /\ s[3] = Trapping!Store(6, 6)
      /\ s[4] = Trapping!Jump("dispatch")
  BY DEF IsPath, Path, Trapping!m_trap_vector, Trapping!t0, Trapping!t1
<1> DEFINE q == Trapping!MRestore
<1>2. /\ IsPath(q, 3)
      /\ q[1] = Trapping!Load(5, 5, 2) /\ q[2] = Trapping!Load(6, 6, 2)
      /\ q[3] = Trapping!Swap("mscratch")
  BY DEF IsPath, Path, Trapping!MRestore, Trapping!t0, Trapping!t1, Trapping!sp
<1> HIDE DEF q
<1>3. ASSUME NEW j
      PROVE  LET p == q \o <<j>>
             IN  /\ IsPath(p, 4)
                 /\ p[1] = q[1] /\ p[2] = q[2] /\ p[3] = q[3] /\ p[4] = j
  <2>1. IsPath(<<j>>, 1) /\ <<j>>[1] = j
    BY DEF IsPath, Path
  <2> DEFINE t == <<j>>
  <2> HIDE DEF t
  <2>3. IsPath(t, 1)
    BY <2>1 DEF t
  <2> DEFINE u == q \o t
  <2>4. Joined(u, q, 3, t, 1)
    BY <2>3, <1>2, PathsJoined, Zenon
  <2> HIDE DEF u
  <2>5. IsPath(u, 4) /\ u[1] = q[1] /\ u[2] = q[2] /\ u[3] = q[3] /\ u[3 + 1] = t[1]
    BY <2>4 DEF Joined
  <2> QED
    <3>1. q \o <<j>> = u
      BY DEF t, u
    <3>2. u[4] = j
      <4>1. t[1] = j
        BY <2>1 DEF t
      <4> QED
        BY <2>5, <4>1
    <3> QED
      BY <2>5, <3>1, <3>2
<1>4. MReturn = q \o <<Trapping!Jump("mret")>> /\ MDefer = q \o <<Trapping!Jump("mtvec_handler")>>
  BY DEF MReturn, MDefer, q
<1>5. /\ IsPath(MReturn, 4) /\ MReturn[1] = q[1] /\ MReturn[2] = q[2] /\ MReturn[3] = q[3]
      /\ MReturn[4] = Trapping!Jump("mret")
  BY <1>3, <1>4
<1>6. /\ IsPath(MDefer, 4) /\ MDefer[1] = q[1] /\ MDefer[2] = q[2] /\ MDefer[3] = q[3]
      /\ MDefer[4] = Trapping!Jump("mtvec_handler")
  BY <1>3, <1>4
<1>7. ASSUME NEW p \in {MReturn, MDefer}
      PROVE  /\ IsPath(p, 4) /\ p[1] = q[1] /\ p[2] = q[2] /\ p[3] = q[3]
  BY <1>5, <1>6
<1> QED
  BY <1>1, <1>2, <1>5, <1>6, <1>7 DEF s

-----------------------------------------------------------------------------
(* What holds before the k-th instruction of each path *)

\* A register the user had when it trapped is in its slot of the frame.
Saved(r) == r \in DOMAIN frame /\ frame[r] = before[r]

\* sp is the last but one to be stored, by way of t0.
EntryAt(k) ==
  /\ code = Rest(Trapping!trap_entry, k, 43)
  /\ mscratch = Trapping!FRAME
  /\ k = 1 => sscratch = Trapping!FRAME /\ regs = before
  /\ k > 1 => regs[2] = Trapping!FRAME
  /\ k \in 2 .. 32 => /\ sscratch = before[2]
                      /\ \A r \in Trapping!Registers \ {2} : regs[r] = before[r]
  /\ k > 32 => sscratch = Trapping!FRAME
  /\ k = 33 => regs[5] = before[2]
  /\ \A r \in Trapping!Registers \ {2} : k > (IF r = 1 THEN 2 ELSE r) => Saved(r)
  /\ k > 33 => Saved(2)
  /\ k = 37 => regs[5] = Trapping!EPC
  /\ k > 37 => 33 \in DOMAIN frame /\ frame[33] = Trapping!EPC
  /\ k = 43 => regs[10] = Trapping!FRAME

\* Where pop_tf loads a register
LoadedBy(r) == IF r < 10 THEN r + 2 ELSE IF r = 10 THEN 33 ELSE r + 1

PopAt(k) ==
  /\ code = Rest(Trapping!pop_tf, k, 34)
  /\ sscratch = Trapping!FRAME /\ mscratch = Trapping!FRAME
  /\ \A r \in Trapping!Registers : Saved(r)
  /\ 33 \in DOMAIN frame /\ frame[33] = Trapping!EPC
  /\ k < 34 => regs[10] = Trapping!FRAME
  /\ k = 2 => regs[5] = Trapping!EPC
  /\ k > 2 => sepc = Trapping!EPC
  /\ \A r \in Trapping!Registers : k > LoadedBy(r) => regs[r] = before[r]

VectorAt(k) ==
  /\ code = Rest(Trapping!m_trap_vector, k, 4)
  /\ sscratch = Trapping!FRAME
  /\ \A r \in Trapping!Registers \ {2} : regs[r] = before[r]
  /\ IF k = 1 THEN mscratch = Trapping!FRAME /\ regs[2] = before[2]
     ELSE mscratch = before[2] /\ regs[2] = Trapping!FRAME
  /\ k > 2 => Saved(5)
  /\ k > 3 => Saved(6)

ReturnAt(k) ==
  /\ code = Rest(MReturn, k, 4)
  /\ sscratch = Trapping!FRAME
  /\ \A r \in Trapping!Registers \ (Trapping!CallerSaved \union {2}) : regs[r] = before[r]
  /\ IF k = 4 THEN mscratch = Trapping!FRAME /\ regs[2] = before[2]
     ELSE mscratch = before[2] /\ regs[2] = Trapping!FRAME
  /\ Saved(5) /\ Saved(6)
  /\ k > 1 => regs[5] = before[5]
  /\ k > 2 => regs[6] = before[6]

\* User mode, with the properties themselves
UserAt ==
  /\ code = <<>>
  /\ sscratch = Trapping!FRAME /\ mscratch = Trapping!FRAME
  /\ resumed = "sret" /\ sepc # Trapping!Garbage => regs = before /\ sepc = Trapping!EPC
  /\ resumed = "mret" =>
       \A r \in (Trapping!Registers \ Trapping!CallerSaved) \union {5, 6} :
         regs[r] = before[r]

RegsInv ==
  /\ regs = [r \in Trapping!Registers |-> regs[r]]
  /\ before = [r \in Trapping!Registers |-> before[r]]

\* Nothing comes back from terminate(-1) called by handle_trap.
DeferAt(k) == code \in {Rest(Trapping!m_trap_vector, k, 4), Rest(MDefer, k, 4)}

TrapInv ==
  /\ RegsInv
  /\ IF outcome # "none" THEN mode # "U"
     ELSE \/ mode = "U" /\ UserAt
          \/ mode = "S" /\ \E k \in 1 .. 43 : EntryAt(k)
          \/ mode = "S" /\ \E k \in 1 .. 34 : PopAt(k)
          \/ mode = "M" /\ from = "U" /\ \E k \in 1 .. 4 : VectorAt(k)
          \/ mode = "M" /\ from = "U" /\ \E k \in 1 .. 4 : ReturnAt(k)
          \/ mode = "M" /\ from = "S" /\ \E k \in 1 .. 4 : DeferAt(k)

-----------------------------------------------------------------------------
(* What each instruction does *)

Moves == code' = Tail(code) /\ UNCHANGED <<before, mode, from, outcome>>

\* An instruction is executed by the one action for it.
LEMMA Executes ==
  ASSUME Trapping!Next, mode # "U", outcome = "none", NEW c, c = Head(code)
  PROVE  /\ c.op = "swap" => Trapping!SwapSp
         /\ c.op = "swap_t0" => Trapping!SwapSpIntoT0
         /\ c.op = "store" => Trapping!StoreWord
         /\ c.op \in {"load", "set", "move"} => Trapping!WriteRegister
         /\ c.op = "sepc" => Trapping!SetSepc
         /\ c.op = "handle_trap" => Trapping!HandleTrap
         /\ c.op = "sret" => Trapping!Resume("sret")
         /\ c.op = "mret" => Trapping!Resume("mret")
         /\ c.op = "dispatch" => Trapping!Dispatch
         /\ c.op = "mtvec_handler" => Trapping!Defer
<1>1. \/ c.op = "swap" /\ Trapping!SwapSp
      \/ c.op = "swap_t0" /\ Trapping!SwapSpIntoT0
      \/ c.op = "store" /\ Trapping!StoreWord
      \/ c.op \in {"load", "set", "move"} /\ Trapping!WriteRegister
      \/ c.op = "sepc" /\ Trapping!SetSepc
      \/ c.op = "handle_trap" /\ Trapping!HandleTrap
      \/ c.op = "sret" /\ Trapping!Resume("sret")
      \/ c.op = "mret" /\ Trapping!Resume("mret")
      \/ c.op = "dispatch" /\ Trapping!Dispatch
      \/ c.op = "mtvec_handler" /\ Trapping!Defer
  <2>1. ASSUME NEW op, Trapping!At(op) PROVE c.op = op
    BY <2>1 DEF Trapping!At
  <2>2. ~Trapping!UserRuns /\ ~Trapping!PageFault /\ ~Trapping!UEcall(0) /\ ~Trapping!UEcall(1)
        /\ ~Trapping!Terminated
    BY DEF Trapping!UserRuns, Trapping!PageFault, Trapping!UEcall, Trapping!Terminated
  <2>3. Trapping!SwapSp => c.op = "swap"
    BY <2>1 DEF Trapping!SwapSp
  <2>4. Trapping!SwapSpIntoT0 => c.op = "swap_t0"
    BY <2>1 DEF Trapping!SwapSpIntoT0
  <2>5. Trapping!StoreWord => c.op = "store"
    BY <2>1 DEF Trapping!StoreWord
  <2>6. Trapping!WriteRegister => c.op \in {"load", "set", "move"}
    BY <2>1 DEF Trapping!WriteRegister
  <2>7. Trapping!SetSepc => c.op = "sepc"
    BY <2>1 DEF Trapping!SetSepc
  <2>8. Trapping!HandleTrap => c.op = "handle_trap"
    BY <2>1 DEF Trapping!HandleTrap
  <2>9. \A op : Trapping!Resume(op) => c.op = op
    BY <2>1 DEF Trapping!Resume
  <2>10. Trapping!Dispatch => c.op = "dispatch"
    BY <2>1 DEF Trapping!Dispatch
  <2>11. Trapping!Defer => c.op = "mtvec_handler"
    BY <2>1 DEF Trapping!Defer
  <2> QED
    BY <2>2, <2>3, <2>4, <2>5, <2>6, <2>7, <2>8, <2>9, <2>10, <2>11 DEF Trapping!Next
<1> QED
  BY <1>1

\* csrrw sp, sscratch, sp and csrrw sp, mscratch, sp
LEMMA Swaps ==
  ASSUME Trapping!Next, mode # "U", outcome = "none", NEW csrname,
         Head(code) = Trapping!Swap(csrname),
         regs = [r \in Trapping!Registers |-> regs[r]]
  PROVE  /\ Moves /\ UNCHANGED <<frame, sepc>>
         /\ regs' = [r \in Trapping!Registers |-> regs'[r]]
         /\ \A r \in Trapping!Registers \ {2} : regs'[r] = regs[r]
         /\ IF csrname = "sscratch"
            THEN regs'[2] = sscratch /\ sscratch' = regs[2] /\ mscratch' = mscratch
            ELSE regs'[2] = mscratch /\ mscratch' = regs[2] /\ sscratch' = sscratch
<1>1. Head(code).op = "swap" /\ Head(code).csr = csrname
  BY DEF Trapping!Swap
<1>2. Trapping!SwapSp
  BY <1>1, Executes
<1>3. 2 \in Trapping!Registers
  BY DEF Trapping!Registers
<1> QED
  BY <1>1, <1>2, <1>3 DEF Trapping!SwapSp, Moves, Trapping!sp

\* csrrw t0, sscratch, sp
LEMMA SwapsIntoT0 ==
  ASSUME Trapping!Next, mode # "U", outcome = "none", Head(code) = Trapping!SwapT0,
         regs = [r \in Trapping!Registers |-> regs[r]]
  PROVE  /\ Moves /\ UNCHANGED <<frame, sepc, mscratch>>
         /\ regs' = [r \in Trapping!Registers |-> regs'[r]]
         /\ \A r \in Trapping!Registers \ {5} : regs'[r] = regs[r]
         /\ regs'[5] = sscratch /\ sscratch' = regs[2]
<1>1. Head(code).op = "swap_t0"
  BY DEF Trapping!SwapT0
<1>2. Trapping!SwapSpIntoT0
  BY <1>1, Executes
<1>3. 5 \in Trapping!Registers
  BY DEF Trapping!Registers
<1> QED
  BY <1>2, <1>3 DEF Trapping!SwapSpIntoT0, Moves, Trapping!sp, Trapping!t0

\* sd, while sp is at the frame
LEMMA StoresWord ==
  ASSUME Trapping!Next, mode # "U", outcome = "none", Head(code).op = "store",
         regs[2] = Trapping!FRAME
  PROVE  /\ Moves /\ UNCHANGED <<regs, sepc, sscratch, mscratch>>
         /\ DOMAIN frame' = DOMAIN frame \union {Head(code).slot}
         /\ \A x \in DOMAIN frame' :
              frame'[x] = IF x = Head(code).slot THEN regs[Head(code).reg] ELSE frame[x]
<1>1. Trapping!StoreWord
  BY Executes
<1>2. frame' = Trapping!Put(frame, Head(code).slot, regs[Head(code).reg])
  BY <1>1 DEF Trapping!StoreWord, Trapping!sp
<1>3. DOMAIN frame' = DOMAIN frame \union {Head(code).slot}
  BY <1>2 DEF Trapping!Put
<1>4. \A x \in DOMAIN frame' :
        frame'[x] = IF x = Head(code).slot THEN regs[Head(code).reg] ELSE frame[x]
  BY <1>2 DEF Trapping!Put
<1> QED
  BY <1>1, <1>3, <1>4 DEF Trapping!StoreWord, Moves

\* ld, of a word that is in the frame
LEMMA LoadsWord ==
  ASSUME Trapping!Next, mode # "U", outcome = "none", Head(code).op = "load",
         NEW r, r \in Trapping!Registers, r = Head(code).reg,
         regs = [x \in Trapping!Registers |-> regs[x]],
         regs[Head(code).base] = Trapping!FRAME, Head(code).slot \in DOMAIN frame
  PROVE  /\ Moves /\ UNCHANGED <<frame, sepc, sscratch, mscratch>>
         /\ regs' = [x \in Trapping!Registers |-> regs'[x]]
         /\ \A x \in Trapping!Registers :
              regs'[x] = IF x = r THEN frame[Head(code).slot] ELSE regs[x]
<1>1. Trapping!WriteRegister
  BY Executes
<1>2. regs' = [regs EXCEPT ![r] = Trapping!Word(Head(code).base, Head(code).slot)]
  BY <1>1 DEF Trapping!WriteRegister, Trapping!At
<1>3. Trapping!Word(Head(code).base, Head(code).slot) = frame[Head(code).slot]
  BY DEF Trapping!Word
<1> QED
  BY <1>1, <1>2, <1>3 DEF Trapping!WriteRegister, Moves

\* csrr t0, for a trap CSR
LEMMA SetsRegister ==
  ASSUME Trapping!Next, mode # "U", outcome = "none",
         NEW r \in Trapping!Registers, NEW value, Head(code) = Trapping!Set(r, value),
         regs = [x \in Trapping!Registers |-> regs[x]]
  PROVE  /\ Moves /\ UNCHANGED <<frame, sepc, sscratch, mscratch>>
         /\ regs' = [x \in Trapping!Registers |-> regs'[x]]
         /\ \A x \in Trapping!Registers : regs'[x] = IF x = r THEN value ELSE regs[x]
<1>1. /\ Head(code).op = "set" /\ Head(code).reg = r /\ Head(code).value = value
  BY DEF Trapping!Set
<1>2. Trapping!WriteRegister
  BY <1>1, Executes
<1>3. regs' = [regs EXCEPT ![r] = value]
  BY <1>1, <1>2 DEF Trapping!WriteRegister, Trapping!At
<1> QED
  BY <1>2, <1>3 DEF Trapping!WriteRegister, Moves

\* mv a0, sp
LEMMA MovesSp ==
  ASSUME Trapping!Next, mode # "U", outcome = "none", Head(code) = Trapping!MoveA0Sp,
         regs = [x \in Trapping!Registers |-> regs[x]]
  PROVE  /\ Moves /\ UNCHANGED <<frame, sepc, sscratch, mscratch>>
         /\ regs' = [x \in Trapping!Registers |-> regs'[x]]
         /\ \A x \in Trapping!Registers : regs'[x] = IF x = 10 THEN regs[2] ELSE regs[x]
<1>1. Head(code).op = "move"
  BY DEF Trapping!MoveA0Sp
<1>2. Trapping!WriteRegister
  BY <1>1, Executes
<1>3. regs' = [regs EXCEPT ![10] = regs[2]]
  BY <1>1, <1>2 DEF Trapping!WriteRegister, Trapping!At, Trapping!a0, Trapping!sp
<1> QED
  BY <1>2, <1>3 DEF Trapping!WriteRegister, Moves

\* csrw sepc, t0
LEMMA WritesSepc ==
  ASSUME Trapping!Next, mode # "U", outcome = "none", Head(code) = Trapping!WriteSepc
  PROVE  Moves /\ UNCHANGED <<regs, frame, sscratch, mscratch>> /\ sepc' = regs[5]
<1>1. Head(code).op = "sepc"
  BY DEF Trapping!WriteSepc
<1>2. Trapping!SetSepc
  BY <1>1, Executes
<1> QED
  BY <1>2 DEF Trapping!SetSepc, Moves, Trapping!t0

-----------------------------------------------------------------------------
(* Each path, step by step *)

\* trap_entry up to the call of handle_trap
LEMMA EntrySteps ==
  ASSUME RegsInv, mode = "S", outcome = "none", NEW k \in 1 .. 42, EntryAt(k), Trapping!Next
  PROVE  EntryAt(k + 1)' /\ Moves /\ RegsInv'
<1> DEFINE p == Trapping!trap_entry
           F == Trapping!FRAME
<1>1. /\ IsPath(p, 43)
      /\ p[1] = Trapping!Swap("sscratch")
      /\ \A r \in Trapping!Registers \ {2} :
           p[IF r = 1 THEN 2 ELSE r] = Trapping!Store(r, r)
      /\ p[32] = Trapping!SwapT0 /\ p[33] = Trapping!Store(5, 2)
      /\ p[34] = Trapping!Set(5, 132) /\ p[35] = Trapping!Store(5, 32)
      /\ p[36] = Trapping!Set(5, 133) /\ p[37] = Trapping!Store(5, 33)
      /\ p[38] = Trapping!Set(5, 134) /\ p[39] = Trapping!Store(5, 34)
      /\ p[40] = Trapping!Set(5, 135) /\ p[41] = Trapping!Store(5, 35)
      /\ p[42] = Trapping!MoveA0Sp
  BY EntryPath
<1> HIDE DEF p
<1>2. Head(code) = p[k] /\ Tail(code) = Rest(p, k + 1, 43)
  <2>1. code = Rest(p, k, 43) /\ k \in 1 .. 43
    BY DEF EntryAt, p
  <2>2. Head(Rest(p, k, 43)) = p[k] /\ Tail(Rest(p, k, 43)) = Rest(p, k + 1, 43)
    <3>1. IsPath(p, 43)
      BY <1>1
    <3> QED
      BY <2>1, <3>1, PathStep
  <2> QED
    BY <2>1, <2>2
<1>3. /\ mscratch = F
      /\ k = 1 => sscratch = F /\ regs = before
      /\ k > 1 => regs[2] = F
      /\ k \in 2 .. 32 => /\ sscratch = before[2]
                          /\ \A r \in Trapping!Registers \ {2} : regs[r] = before[r]
      /\ k > 32 => sscratch = F
      /\ k = 33 => regs[5] = before[2]
      /\ \A r \in Trapping!Registers \ {2} : k > (IF r = 1 THEN 2 ELSE r) => Saved(r)
      /\ k > 33 => Saved(2)
      /\ k = 37 => regs[5] = Trapping!EPC
      /\ k > 37 => 33 \in DOMAIN frame /\ frame[33] = Trapping!EPC
  BY DEF EntryAt
<1>4. mode # "U"
  OBVIOUS
<1>5. SUFFICES /\ Moves /\ RegsInv' /\ mscratch' = F
               /\ regs'[2] = F
               /\ k + 1 \in 2 .. 32 => /\ sscratch' = before[2]
                                       /\ \A r \in Trapping!Registers \ {2} : regs'[r] = before[r]
               /\ k + 1 > 32 => sscratch' = F
               /\ k + 1 = 33 => regs'[5] = before[2]
               /\ \A r \in Trapping!Registers \ {2} :
                    k + 1 > (IF r = 1 THEN 2 ELSE r) => Saved(r)'
               /\ k + 1 > 33 => Saved(2)'
               /\ k + 1 = 37 => regs'[5] = Trapping!EPC
               /\ k + 1 > 37 => 33 \in DOMAIN frame' /\ frame'[33] = Trapping!EPC
               /\ k + 1 = 43 => regs'[10] = F
  <2>1. k + 1 # 1 /\ k + 1 > 1
    OBVIOUS
  <2> QED
    BY <1>2, <1>5, <2>1 DEF EntryAt, Moves, p
<1>6. CASE k = 1
  <2>1. /\ Moves /\ UNCHANGED <<frame, sepc>>
        /\ regs' = [r \in Trapping!Registers |-> regs'[r]]
        /\ \A r \in Trapping!Registers \ {2} : regs'[r] = regs[r]
        /\ regs'[2] = sscratch /\ sscratch' = regs[2] /\ mscratch' = mscratch
    BY <1>1, <1>2, <1>4, <1>6, Swaps DEF RegsInv
  <2>2. ~(k + 1 > 32) /\ \A r \in Trapping!Registers \ {2} : ~(k + 1 > (IF r = 1 THEN 2 ELSE r))
    BY <1>6 DEF Trapping!Registers
  <2> QED
    BY <1>3, <1>6, <2>1, <2>2 DEF RegsInv, Moves
<1>7. CASE k \in 2 .. 31
  <2> DEFINE q == IF k = 2 THEN 1 ELSE k
  <2>1. q \in Trapping!Registers \ {2} /\ (IF q = 1 THEN 2 ELSE q) = k
    BY <1>7 DEF Trapping!Registers
  <2> HIDE DEF q
  <2>2. p[k] = Trapping!Store(q, q)
    BY <1>1, <2>1
  <2>3. /\ Moves /\ UNCHANGED <<regs, sepc, sscratch, mscratch>>
        /\ DOMAIN frame' = DOMAIN frame \union {q}
        /\ \A x \in DOMAIN frame' : frame'[x] = IF x = q THEN regs[q] ELSE frame[x]
    <3>1. /\ Head(code).op = "store" /\ Head(code).reg = q /\ Head(code).slot = q
          /\ regs[2] = Trapping!FRAME
      BY <1>2, <1>3, <1>7, <2>2 DEF Trapping!Store
    <3> QED
      BY <1>4, <3>1, StoresWord
  <2>4. regs[q] = before[q]
    BY <1>3, <1>7, <2>1
  <2>5. ASSUME NEW r \in Trapping!Registers \ {2}, k + 1 > (IF r = 1 THEN 2 ELSE r)
        PROVE  Saved(r)'
    <3>1. r = q \/ k > (IF r = 1 THEN 2 ELSE r)
      BY <2>1, <2>5, <1>7 DEF Trapping!Registers
    <3> QED
      BY <3>1, <1>3, <2>3, <2>4 DEF Saved, Moves
  <2>6. /\ ~(k + 1 > 32) /\ k + 1 # 33 /\ ~(k + 1 > 33) /\ k + 1 # 37 /\ ~(k + 1 > 37)
        /\ k + 1 # 43 /\ k > 1 /\ k \in 2 .. 32
    BY <1>7
  <2>7. /\ RegsInv' /\ mscratch' = F /\ regs'[2] = F /\ sscratch' = before[2]
        /\ \A r \in Trapping!Registers \ {2} : regs'[r] = before[r]
    BY <1>3, <2>3, <2>6 DEF RegsInv, Moves
  <2> QED
    BY <2>3, <2>5, <2>6, <2>7
<1>8. ASSUME k > 31 PROVE \A r \in Trapping!Registers \ {2} : Saved(r)
  <2>1. \A r \in Trapping!Registers \ {2} : k > (IF r = 1 THEN 2 ELSE r)
    BY <1>8 DEF Trapping!Registers
  <2> QED
    BY <1>3, <2>1
<1>9. CASE k = 32
  <2>1. /\ Moves /\ UNCHANGED <<frame, sepc, mscratch>>
        /\ regs' = [r \in Trapping!Registers |-> regs'[r]]
        /\ \A r \in Trapping!Registers \ {5} : regs'[r] = regs[r]
        /\ regs'[5] = sscratch /\ sscratch' = regs[2]
    BY <1>1, <1>2, <1>4, <1>9, SwapsIntoT0 DEF RegsInv
  <2>2. \A r \in Trapping!Registers \ {2} : Saved(r)'
    BY <1>8, <1>9, <2>1 DEF Saved, Moves
  <2>3. 2 \in Trapping!Registers \ {5}
    BY DEF Trapping!Registers
  <2> QED
    BY <1>3, <1>9, <2>1, <2>2, <2>3 DEF RegsInv, Moves
<1>10. CASE k = 33
  <2>1. /\ Moves /\ UNCHANGED <<regs, sepc, sscratch, mscratch>>
        /\ DOMAIN frame' = DOMAIN frame \union {2}
        /\ \A x \in DOMAIN frame' : frame'[x] = IF x = 2 THEN regs[5] ELSE frame[x]
    <3>1. /\ Head(code).op = "store" /\ Head(code).reg = 5 /\ Head(code).slot = 2
          /\ regs[2] = Trapping!FRAME
      BY <1>1, <1>2, <1>3, <1>10 DEF Trapping!Store
    <3> QED
      BY <1>4, <3>1, StoresWord
  <2>2. \A r \in Trapping!Registers \ {2} : Saved(r)'
    BY <1>8, <1>10, <2>1 DEF Saved, Moves
  <2>3. Saved(2)'
    BY <1>3, <1>10, <2>1 DEF Saved, Moves
  <2> QED
    BY <1>3, <1>10, <2>1, <2>2, <2>3 DEF RegsInv, Moves
<1>11. CASE k \in {34, 36, 38, 40}
  <2>1. PICK v : p[k] = Trapping!Set(5, v) /\ (k = 36 => v = Trapping!EPC)
    BY <1>1, <1>11 DEF Trapping!EPC
  <2>2. 5 \in Trapping!Registers /\ 2 \in Trapping!Registers
    BY DEF Trapping!Registers
  <2>3. /\ Moves /\ UNCHANGED <<frame, sepc, sscratch, mscratch>>
        /\ regs' = [x \in Trapping!Registers |-> regs'[x]]
        /\ \A x \in Trapping!Registers : regs'[x] = IF x = 5 THEN v ELSE regs[x]
    <3>1. Head(code) = Trapping!Set(5, v)
      BY <1>2, <2>1
    <3> QED
      BY <1>4, <2>2, <3>1, SetsRegister DEF RegsInv
  <2>4. \A r \in Trapping!Registers : Saved(r)'
    <3>1. \A r \in Trapping!Registers : Saved(r)
      <4>1. k > 31 /\ k > 33
        BY <1>11
      <4> QED
        BY <4>1, <1>3, <1>8
    <3> QED
      BY <2>3, <3>1 DEF Saved, Moves
  <2>5. /\ ~(k + 1 \in 2 .. 32) /\ k > 1 /\ k > 32 /\ (k + 1 = 37 => k = 36) /\ k + 1 # 43
        /\ (k + 1 > 37 => k > 37) /\ k + 1 # 33
    BY <1>11
  <2>6. /\ RegsInv' /\ mscratch' = F /\ regs'[2] = F /\ sscratch' = F
        /\ regs'[5] = v /\ frame' = frame
    <3>1. sscratch = F /\ mscratch = F /\ regs[2] = F
      BY <1>3, <2>5
    <3>2. before' = before
      BY <2>3 DEF Moves
    <3> QED
      BY <2>2, <2>3, <3>1, <3>2 DEF RegsInv
  <2> QED
    BY <1>3, <2>1, <2>2, <2>3, <2>4, <2>5, <2>6
<1>12. CASE k \in {35, 37, 39, 41}
  <2>1. PICK slot : /\ p[k] = Trapping!Store(5, slot)
                    /\ slot \notin Trapping!Registers /\ (slot = 33 <=> k = 37)
    <3>1. 32 \notin Trapping!Registers /\ 33 \notin Trapping!Registers
          /\ 34 \notin Trapping!Registers /\ 35 \notin Trapping!Registers
      BY DEF Trapping!Registers
    <3> QED
      BY <1>1, <1>12, <3>1
  <2>2. /\ Moves /\ UNCHANGED <<regs, sepc, sscratch, mscratch>>
        /\ DOMAIN frame' = DOMAIN frame \union {slot}
        /\ \A x \in DOMAIN frame' : frame'[x] = IF x = slot THEN regs[5] ELSE frame[x]
    <3>1. /\ Head(code).op = "store" /\ Head(code).reg = 5 /\ Head(code).slot = slot
          /\ regs[2] = Trapping!FRAME
      BY <1>2, <1>3, <1>12, <2>1 DEF Trapping!Store
    <3> QED
      BY <1>4, <3>1, StoresWord
  <2>3. \A r \in Trapping!Registers : Saved(r)'
    <3>1. \A r \in Trapping!Registers : Saved(r)
      BY <1>3, <1>8, <1>12
    <3> QED
      BY <2>1, <2>2, <3>1 DEF Saved, Moves
  <2>4. ~(k + 1 \in 2 .. 32) /\ k > 1 /\ k > 32 /\ k + 1 # 37 /\ k + 1 # 43 /\ k + 1 # 33
        /\ (k + 1 > 37 => k = 37 \/ k > 37)
    BY <1>12
  <2>5. 2 \in Trapping!Registers
    BY DEF Trapping!Registers
  <2>6. k + 1 > 37 => 33 \in DOMAIN frame' /\ frame'[33] = Trapping!EPC
    BY <1>3, <2>1, <2>2, <2>4
  <2>7. RegsInv' /\ mscratch' = F /\ regs'[2] = F /\ sscratch' = F
    BY <1>3, <2>2, <2>4 DEF RegsInv, Moves
  <2> QED
    BY <2>2, <2>3, <2>4, <2>5, <2>6, <2>7
<1>13. CASE k = 42
  <2>1. /\ Moves /\ UNCHANGED <<frame, sepc, sscratch, mscratch>>
        /\ regs' = [x \in Trapping!Registers |-> regs'[x]]
        /\ \A x \in Trapping!Registers : regs'[x] = IF x = 10 THEN regs[2] ELSE regs[x]
    BY <1>1, <1>2, <1>4, <1>13, MovesSp DEF RegsInv
  <2>2. 2 \in Trapping!Registers /\ 10 \in Trapping!Registers
    BY DEF Trapping!Registers
  <2>3. \A r \in Trapping!Registers : Saved(r)'
    BY <1>3, <1>8, <1>13, <2>1 DEF Saved, Moves
  <2> QED
    BY <1>3, <1>13, <2>1, <2>2, <2>3 DEF RegsInv, Moves
<1> QED
  <2>1. \/ k = 1 \/ k \in 2 .. 31 \/ k = 32 \/ k = 33 \/ k \in {34, 36, 38, 40}
        \/ k \in {35, 37, 39, 41} \/ k = 42
    OBVIOUS
  <2> QED
    BY <1>6, <1>7, <1>9, <1>10, <1>11, <1>12, <1>13, <2>1

\* The C handler leaves its frame alone: it ends in pop_tf, or in terminate(-1).
LEMMA HandlerSteps ==
  ASSUME RegsInv, mode = "S", outcome = "none", EntryAt(43), Trapping!Next
  PROVE  /\ RegsInv' /\ outcome' = "none"
         /\ \/ mode' = "S" /\ PopAt(1)'
            \/ mode' = "M" /\ from' = "S" /\ code' = Rest(Trapping!m_trap_vector, 1, 4)
<1>1. Head(code).op = "handle_trap"
  <2>1. code = Rest(Trapping!trap_entry, 43, 43) /\ 43 \in 1 .. 43
    BY DEF EntryAt
  <2>2. Head(code) = Trapping!trap_entry[43]
    BY <2>1, EntryPath, PathStep
  <2> QED
    BY <2>2, EntryPath DEF Trapping!Jump
<1>2. Trapping!HandleTrap
  BY <1>1, Executes
<1>3. /\ regs' = [r \in Trapping!Registers |->
                    IF r = 2 THEN regs[2] ELSE IF r = 10 THEN regs[10] ELSE Trapping!Garbage]
      /\ UNCHANGED <<before, sscratch, mscratch, frame, sepc, outcome>>
      /\ \/ code' = Trapping!pop_tf /\ mode' = mode
         \/ code' = Trapping!m_trap_vector /\ mode' = "M" /\ from' = "S"
  BY <1>2 DEF Trapping!HandleTrap, Trapping!sp, Trapping!a0
<1>4. RegsInv'
  BY <1>3 DEF RegsInv
<1>5. CASE code' = Trapping!pop_tf /\ mode' = mode
  <2>1. code' = Rest(Trapping!pop_tf, 1, 34)
    BY <1>5, PopPath, PathStarts
  <2>2. /\ sscratch = Trapping!FRAME /\ mscratch = Trapping!FRAME
        /\ Saved(2) /\ 33 \in DOMAIN frame /\ frame[33] = Trapping!EPC
        /\ regs[10] = Trapping!FRAME
        /\ \A r \in Trapping!Registers \ {2} : Saved(r)
    <3>1. \A r \in Trapping!Registers \ {2} : 43 > (IF r = 1 THEN 2 ELSE r)
      BY DEF Trapping!Registers
    <3> QED
      BY <3>1 DEF EntryAt
  <2>3. \A r \in Trapping!Registers : Saved(r)'
    BY <2>2, <1>3 DEF Saved
  <2>4. regs'[10] = Trapping!FRAME
    <3>1. 10 \in Trapping!Registers
      BY DEF Trapping!Registers
    <3> QED
      BY <3>1, <2>2, <1>3
  <2>5. \A r \in Trapping!Registers : ~(1 > LoadedBy(r))
    BY DEF Trapping!Registers, LoadedBy
  <2>6. PopAt(1)'
    BY <2>1, <2>2, <2>3, <2>4, <2>5, <1>3 DEF PopAt
  <2> QED
    BY <1>3, <1>4, <1>5, <2>6
<1>6. CASE code' = Trapping!m_trap_vector /\ mode' = "M" /\ from' = "S"
  BY <1>3, <1>4, <1>6, VectorPaths, PathStarts
<1> QED
  BY <1>3, <1>5, <1>6

\* pop_tf up to sret
LEMMA PopSteps ==
  ASSUME RegsInv, mode = "S", outcome = "none", NEW k \in 1 .. 33, PopAt(k), Trapping!Next
  PROVE  PopAt(k + 1)' /\ Moves /\ RegsInv'
<1> DEFINE p == Trapping!pop_tf
           F == Trapping!FRAME
<1>1. /\ IsPath(p, 34)
      /\ p[1] = Trapping!Load(5, 33, 10) /\ p[2] = Trapping!WriteSepc
      /\ \A r \in Trapping!Registers \ {10} :
           p[IF r < 10 THEN r + 2 ELSE r + 1] = Trapping!Load(r, r, 10)
      /\ p[33] = Trapping!Load(10, 10, 10)
  BY PopPath
<1> HIDE DEF p
<1>2. Head(code) = p[k] /\ Tail(code) = Rest(p, k + 1, 34)
  <2>1. code = Rest(p, k, 34) /\ k \in 1 .. 34
    BY DEF PopAt, p
  <2>2. Head(Rest(p, k, 34)) = p[k] /\ Tail(Rest(p, k, 34)) = Rest(p, k + 1, 34)
    <3>1. IsPath(p, 34)
      BY <1>1
    <3> QED
      BY <2>1, <3>1, PathStep
  <2> QED
    BY <2>1, <2>2
<1>3. /\ sscratch = F /\ mscratch = F
      /\ \A r \in Trapping!Registers : Saved(r)
      /\ 33 \in DOMAIN frame /\ frame[33] = Trapping!EPC
      /\ regs[10] = F
      /\ k = 2 => regs[5] = Trapping!EPC
      /\ k > 2 => sepc = Trapping!EPC
      /\ \A r \in Trapping!Registers : k > LoadedBy(r) => regs[r] = before[r]
  BY DEF PopAt
<1>4. mode # "U"
  OBVIOUS
<1>5. SUFFICES /\ Moves /\ RegsInv' /\ frame' = frame
               /\ sscratch' = sscratch /\ mscratch' = mscratch
               /\ k < 33 => regs'[10] = F
               /\ k = 1 => regs'[5] = Trapping!EPC
               /\ k > 1 => sepc' = Trapping!EPC
               /\ \A r \in Trapping!Registers : k + 1 > LoadedBy(r) => regs'[r] = before[r]
  <2>1. (k + 1 < 34 => k < 33) /\ (k + 1 = 2 => k = 1) /\ (k + 1 > 2 => k > 1)
    OBVIOUS
  <2>2. \A r \in Trapping!Registers : Saved(r)'
    BY <1>3, <1>5 DEF Saved, Moves
  <2>3. code' = Rest(p, k + 1, 34) /\ before' = before
    BY <1>2, <1>5 DEF Moves
  <2> QED
    BY <1>3, <1>5, <2>1, <2>2, <2>3 DEF PopAt, p
<1>6. CASE k = 1
  <2>1. /\ Head(code).op = "load" /\ Head(code).reg = 5 /\ Head(code).slot = 33
        /\ Head(code).base = 10
    BY <1>1, <1>2, <1>6 DEF Trapping!Load
  <2>2. 5 \in Trapping!Registers /\ 10 \in Trapping!Registers
    BY DEF Trapping!Registers
  <2>3. /\ Moves /\ UNCHANGED <<frame, sepc, sscratch, mscratch>>
        /\ regs' = [x \in Trapping!Registers |-> regs'[x]]
        /\ \A x \in Trapping!Registers :
             regs'[x] = IF x = Head(code).reg THEN frame[Head(code).slot] ELSE regs[x]
    BY <1>3, <1>4, <2>1, <2>2, LoadsWord DEF RegsInv
  <2>4. \A r \in Trapping!Registers : ~(k + 1 > LoadedBy(r))
    BY <1>6 DEF LoadedBy, Trapping!Registers
  <2> QED
    BY <1>3, <1>6, <2>1, <2>2, <2>3, <2>4 DEF RegsInv, Moves
<1>7. CASE k = 2
  <2>1. Head(code) = Trapping!WriteSepc
    BY <1>1, <1>2, <1>7
  <2>2. Moves /\ UNCHANGED <<regs, frame, sscratch, mscratch>> /\ sepc' = regs[5]
    BY <1>4, <2>1, WritesSepc
  <2>3. \A r \in Trapping!Registers : ~(k + 1 > LoadedBy(r))
    BY <1>7 DEF LoadedBy, Trapping!Registers
  <2> QED
    BY <1>3, <1>7, <2>2, <2>3 DEF RegsInv, Moves
<1>8. CASE k \in 3 .. 33
  <2> DEFINE q == IF k = 33 THEN 10 ELSE IF k < 12 THEN k - 2 ELSE k - 1
  <2>1. /\ q \in Trapping!Registers /\ (q = 10 <=> k = 33)
        /\ q # 10 => (IF q < 10 THEN q + 2 ELSE q + 1) = k
        /\ \A r \in Trapping!Registers : k + 1 > LoadedBy(r) => r = q \/ k > LoadedBy(r)
    BY <1>8 DEF Trapping!Registers, LoadedBy
  <2> HIDE DEF q
  <2>2. p[k] = Trapping!Load(q, q, 10)
    <3>1. CASE q = 10
      BY <1>1, <2>1, <3>1
    <3>2. CASE q # 10
      BY <1>1, <2>1, <3>2
    <3> QED
      BY <3>1, <3>2
  <2>3. /\ Head(code).op = "load" /\ Head(code).reg = q /\ Head(code).slot = q
        /\ Head(code).base = 10
    BY <1>2, <2>2 DEF Trapping!Load
  <2>4. q \in DOMAIN frame /\ frame[q] = before[q]
    BY <1>3, <2>1 DEF Saved
  <2>5. /\ Moves /\ UNCHANGED <<frame, sepc, sscratch, mscratch>>
        /\ regs' = [x \in Trapping!Registers |-> regs'[x]]
        /\ \A x \in Trapping!Registers : regs'[x] = IF x = q THEN frame[q] ELSE regs[x]
    BY <1>3, <1>4, <2>1, <2>3, <2>4, LoadsWord DEF RegsInv
  <2>6. k > 1 /\ k > 2 /\ k # 1
    BY <1>8
  <2>7. k < 33 => regs'[10] = F
    <3>1. 10 \in Trapping!Registers
      BY DEF Trapping!Registers
    <3> QED
      BY <1>3, <2>1, <2>5, <3>1
  <2>8. \A r \in Trapping!Registers : k + 1 > LoadedBy(r) => regs'[r] = before[r]
    BY <1>3, <2>1, <2>4, <2>5
  <2>9. RegsInv'
    BY <2>5 DEF RegsInv, Moves
  <2> QED
    BY <1>3, <2>5, <2>6, <2>7, <2>8, <2>9
<1> QED
  BY <1>6, <1>7, <1>8

\* sret: the user has all its registers back.
LEMMA SretSteps ==
  ASSUME RegsInv, mode = "S", outcome = "none", PopAt(34), Trapping!Next
  PROVE  RegsInv' /\ outcome' = "none" /\ mode' = "U" /\ UserAt'
<1>1. Head(code).op = "sret"
  <2>1. code = Rest(Trapping!pop_tf, 34, 34) /\ 34 \in 1 .. 34
    BY DEF PopAt
  <2>2. Head(code) = Trapping!pop_tf[34]
    BY <2>1, PopPath, PathStep
  <2> QED
    BY <2>2, PopPath DEF Trapping!Jump
<1>2. Trapping!Resume("sret")
  BY <1>1, Executes
<1>3. /\ mode' = "U" /\ code' = <<>> /\ resumed' = "sret"
      /\ UNCHANGED <<regs, before, sscratch, mscratch, frame, sepc, outcome>>
  BY <1>2 DEF Trapping!Resume
<1>4. \A r \in Trapping!Registers : 34 > LoadedBy(r)
  BY DEF Trapping!Registers, LoadedBy
<1>5. /\ sscratch = Trapping!FRAME /\ mscratch = Trapping!FRAME /\ sepc = Trapping!EPC
      /\ \A r \in Trapping!Registers : regs[r] = before[r]
  BY <1>4 DEF PopAt
<1>6. regs = before
  BY <1>5 DEF RegsInv
<1> QED
  BY <1>3, <1>5, <1>6 DEF UserAt, RegsInv

\* m_trap_vector up to its branches, for a call of user mode
LEMMA VectorSteps ==
  ASSUME RegsInv, mode = "M", outcome = "none", NEW k \in 1 .. 3, VectorAt(k), Trapping!Next
  PROVE  VectorAt(k + 1)' /\ Moves /\ RegsInv'
<1> DEFINE p == Trapping!m_trap_vector
           F == Trapping!FRAME
<1>1. /\ IsPath(p, 4)
      /\ p[1] = Trapping!Swap("mscratch")
      /\ p[2] = Trapping!Store(5, 5) /\ p[3] = Trapping!Store(6, 6)
  BY VectorPaths
<1> HIDE DEF p
<1>2. Head(code) = p[k] /\ Tail(code) = Rest(p, k + 1, 4)
  <2>1. code = Rest(p, k, 4) /\ k \in 1 .. 4
    BY DEF VectorAt, p
  <2>2. Head(Rest(p, k, 4)) = p[k] /\ Tail(Rest(p, k, 4)) = Rest(p, k + 1, 4)
    <3>1. IsPath(p, 4)
      BY <1>1
    <3> QED
      BY <2>1, <3>1, PathStep
  <2> QED
    BY <2>1, <2>2
<1>3. /\ sscratch = F
      /\ \A r \in Trapping!Registers \ {2} : regs[r] = before[r]
      /\ IF k = 1 THEN mscratch = F /\ regs[2] = before[2]
         ELSE mscratch = before[2] /\ regs[2] = F
      /\ k > 2 => Saved(5)
  BY DEF VectorAt
<1>4. mode # "U"
  OBVIOUS
<1>5. 2 \in Trapping!Registers /\ 5 \in Trapping!Registers \ {2} /\ 6 \in Trapping!Registers \ {2}
  BY DEF Trapping!Registers
<1>6. SUFFICES /\ Moves /\ RegsInv' /\ sscratch' = F
               /\ \A r \in Trapping!Registers \ {2} : regs'[r] = before[r]
               /\ mscratch' = before[2] /\ regs'[2] = F
               /\ k > 1 => Saved(5)'
               /\ k > 2 => Saved(6)'
  <2>1. k + 1 # 1 /\ (k + 1 > 2 => k > 1) /\ (k + 1 > 3 => k > 2)
    OBVIOUS
  <2>2. code' = Rest(p, k + 1, 4) /\ before' = before
    BY <1>2, <1>6 DEF Moves
  <2> QED
    BY <1>6, <2>1, <2>2 DEF VectorAt, p
<1>7. CASE k = 1
  <2>1. /\ Moves /\ UNCHANGED <<frame, sepc>>
        /\ regs' = [r \in Trapping!Registers |-> regs'[r]]
        /\ \A r \in Trapping!Registers \ {2} : regs'[r] = regs[r]
        /\ regs'[2] = mscratch /\ mscratch' = regs[2] /\ sscratch' = sscratch
    BY <1>1, <1>2, <1>4, <1>7, Swaps DEF RegsInv
  <2> QED
    BY <1>3, <1>5, <1>7, <2>1 DEF RegsInv, Moves
<1>8. CASE k \in {2, 3}
  <2> DEFINE q == IF k = 2 THEN 5 ELSE 6
  <2>1. /\ Head(code).op = "store" /\ Head(code).reg = q /\ Head(code).slot = q
        /\ regs[2] = Trapping!FRAME
    BY <1>1, <1>2, <1>3, <1>8 DEF Trapping!Store
  <2>2. q \in {5, 6} /\ (k = 2 => q = 5) /\ (k = 3 => q = 6)
    BY <1>8
  <2> HIDE DEF q
  <2>3. /\ Moves /\ UNCHANGED <<regs, sepc, sscratch, mscratch>>
        /\ DOMAIN frame' = DOMAIN frame \union {q}
        /\ \A x \in DOMAIN frame' : frame'[x] = IF x = q THEN regs[q] ELSE frame[x]
    BY <1>4, <2>1, StoresWord
  <2>4. regs[q] = before[q]
    BY <1>3, <1>5, <2>2
  <2>5. Saved(q)'
    BY <2>3, <2>4 DEF Saved, Moves
  <2>6. k = 3 => Saved(5)'
    <3> SUFFICES ASSUME k = 3 PROVE Saved(5)'
      OBVIOUS
    <3>1. Saved(5) /\ q # 5
      BY <1>3, <2>2
    <3> QED
      BY <2>3, <3>1 DEF Saved, Moves
  <2>7. (k > 1 => Saved(5)') /\ (k > 2 => Saved(6)')
    BY <1>8, <2>2, <2>5, <2>6
  <2> QED
    BY <1>3, <1>8, <2>3, <2>7 DEF RegsInv, Moves
<1> QED
  BY <1>7, <1>8

\* A call of user mode that is not terminate() comes back from its C handler.
LEMMA DispatchSteps ==
  ASSUME RegsInv, mode = "M", outcome = "none", from = "U", VectorAt(4), Trapping!Next
  PROVE  /\ RegsInv' /\ mode' = "M"
         /\ \/ outcome' # "none"
            \/ outcome' = "none" /\ from' = "U" /\ ReturnAt(1)'
<1>1. Head(code).op = "dispatch"
  <2>1. code = Rest(Trapping!m_trap_vector, 4, 4) /\ 4 \in 1 .. 4
    BY DEF VectorAt
  <2>2. Head(code) = Trapping!m_trap_vector[4]
    BY <2>1, VectorPaths, PathStep
  <2> QED
    BY <2>2, VectorPaths DEF Trapping!Jump
<1>2. Trapping!Dispatch
  BY <1>1, Executes
<1>3. /\ UNCHANGED <<before, sscratch, mscratch, frame, mode, from>>
      /\ \/ outcome' = "bp_finish" /\ regs' = regs
         \/ /\ outcome' = outcome
            /\ regs' = [r \in Trapping!Registers |->
                          IF r \in Trapping!CallerSaved THEN Trapping!Garbage ELSE regs[r]]
            /\ code' = MReturn
  BY <1>2 DEF Trapping!Dispatch, MReturn
<1>4. CASE outcome' = "bp_finish" /\ regs' = regs
  BY <1>3, <1>4 DEF RegsInv
<1>5. CASE /\ outcome' = outcome
           /\ regs' = [r \in Trapping!Registers |->
                         IF r \in Trapping!CallerSaved THEN Trapping!Garbage ELSE regs[r]]
           /\ code' = MReturn
  <2>1. code' = Rest(MReturn, 1, 4)
    BY <1>5, VectorPaths, PathStarts
  <2>2. 2 \in Trapping!Registers /\ 2 \notin Trapping!CallerSaved
    BY DEF Trapping!Registers, Trapping!CallerSaved
  <2>3. regs'[2] = regs[2]
    BY <1>5, <2>2
  <2>4. /\ sscratch = Trapping!FRAME /\ mscratch = before[2] /\ regs[2] = Trapping!FRAME
        /\ Saved(5) /\ Saved(6)
        /\ \A r \in Trapping!Registers \ {2} : regs[r] = before[r]
    BY DEF VectorAt
  <2>5. Saved(5)' /\ Saved(6)'
    BY <1>3, <2>4 DEF Saved
  <2>6. \A r \in Trapping!Registers \ (Trapping!CallerSaved \union {2}) : regs'[r] = before[r]
    BY <1>5, <2>4
  <2>7. ReturnAt(1)'
    BY <1>3, <2>1, <2>3, <2>4, <2>5, <2>6 DEF ReturnAt
  <2> QED
    BY <1>3, <1>5, <2>7 DEF RegsInv
<1> QED
  BY <1>3, <1>4, <1>5

\* The way back, up to mret
LEMMA ReturnSteps ==
  ASSUME RegsInv, mode = "M", outcome = "none", NEW k \in 1 .. 3, ReturnAt(k), Trapping!Next
  PROVE  ReturnAt(k + 1)' /\ Moves /\ RegsInv'
<1> DEFINE p == MReturn
           F == Trapping!FRAME
           Kept == Trapping!Registers \ (Trapping!CallerSaved \union {2})
<1>1. /\ IsPath(p, 4)
      /\ p[1] = Trapping!Load(5, 5, 2) /\ p[2] = Trapping!Load(6, 6, 2)
      /\ p[3] = Trapping!Swap("mscratch")
  BY VectorPaths
<1> HIDE DEF p
<1>2. Head(code) = p[k] /\ Tail(code) = Rest(p, k + 1, 4)
  <2>1. code = Rest(p, k, 4) /\ k \in 1 .. 4
    BY DEF ReturnAt, p
  <2>2. Head(Rest(p, k, 4)) = p[k] /\ Tail(Rest(p, k, 4)) = Rest(p, k + 1, 4)
    <3>1. IsPath(p, 4)
      BY <1>1
    <3> QED
      BY <2>1, <3>1, PathStep
  <2> QED
    BY <2>1, <2>2
<1>3. /\ sscratch = F /\ mscratch = before[2] /\ regs[2] = F
      /\ \A r \in Kept : regs[r] = before[r]
      /\ Saved(5) /\ Saved(6)
      /\ k > 1 => regs[5] = before[5]
      /\ k > 2 => regs[6] = before[6]
  <2>1. k # 4
    OBVIOUS
  <2> QED
    BY <2>1 DEF ReturnAt
<1>4. mode # "U"
  OBVIOUS
<1>5. /\ 2 \in Trapping!Registers /\ 5 \in Trapping!Registers /\ 6 \in Trapping!Registers
      /\ 2 \notin Kept /\ 5 \notin Kept /\ 6 \notin Kept /\ Kept \subseteq Trapping!Registers
  BY DEF Trapping!Registers, Trapping!CallerSaved
<1> HIDE DEF Kept
<1>6. SUFFICES /\ Moves /\ RegsInv' /\ sscratch' = F /\ frame' = frame
               /\ IF k = 3 THEN mscratch' = F /\ regs'[2] = before[2]
                  ELSE mscratch' = before[2] /\ regs'[2] = F
               /\ \A r \in Kept : regs'[r] = before[r]
               /\ regs'[5] = before[5]
               /\ k > 1 => regs'[6] = before[6]
  <2>1. (k + 1 = 4 <=> k = 3) /\ (k + 1 > 2 => k > 1)
    OBVIOUS
  <2>2. code' = Rest(p, k + 1, 4) /\ before' = before
    BY <1>2, <1>6 DEF Moves
  <2>3. Saved(5)' /\ Saved(6)'
    BY <1>3, <1>6, <2>2 DEF Saved
  <2> QED
    BY <1>6, <2>1, <2>2, <2>3 DEF ReturnAt, p, Kept
<1>7. CASE k \in {1, 2}
  <2> DEFINE q == IF k = 1 THEN 5 ELSE 6
  <2>1. /\ Head(code).op = "load" /\ Head(code).reg = q /\ Head(code).slot = q
        /\ Head(code).base = 2
    BY <1>1, <1>2, <1>7 DEF Trapping!Load
  <2>2. q \in {5, 6} /\ (k = 1 <=> q = 5)
    BY <1>7
  <2> HIDE DEF q
  <2>3. /\ q \in Trapping!Registers /\ q # 2 /\ q \notin Kept
        /\ q \in DOMAIN frame /\ frame[q] = before[q]
    BY <1>3, <1>5, <2>2 DEF Saved
  <2>4. /\ Moves /\ UNCHANGED <<frame, sepc, sscratch, mscratch>>
        /\ regs' = [x \in Trapping!Registers |-> regs'[x]]
        /\ \A x \in Trapping!Registers : regs'[x] = IF x = q THEN frame[q] ELSE regs[x]
    BY <1>3, <1>4, <2>1, <2>3, LoadsWord DEF RegsInv
  <2>5. regs'[5] = before[5] /\ (k > 1 => regs'[6] = before[6])
    <3>1. k > 1 => q = 6
      BY <1>7, <2>2
    <3>2. q = 5 \/ regs[5] = before[5]
      BY <1>3, <1>7, <2>2
    <3> QED
      BY <1>5, <2>3, <2>4, <3>1, <3>2
  <2>6. k # 3
    BY <1>7
  <2>7. \A r \in Kept : regs'[r] = before[r]
    BY <1>3, <1>5, <2>3, <2>4
  <2>8. regs'[2] = F
    BY <1>3, <1>5, <2>3, <2>4
  <2> QED
    BY <1>3, <2>4, <2>5, <2>6, <2>7, <2>8 DEF RegsInv, Moves
<1>8. CASE k = 3
  <2>1. Head(code) = Trapping!Swap("mscratch")
    BY <1>1, <1>2, <1>8
  <2>2. /\ Moves /\ UNCHANGED <<frame, sepc>>
        /\ regs' = [r \in Trapping!Registers |-> regs'[r]]
        /\ \A r \in Trapping!Registers \ {2} : regs'[r] = regs[r]
        /\ regs'[2] = mscratch /\ mscratch' = regs[2] /\ sscratch' = sscratch
    BY <1>4, <2>1, Swaps DEF RegsInv
  <2>3. regs[5] = before[5] /\ regs[6] = before[6]
    BY <1>3, <1>8
  <2>4. regs'[5] = regs[5] /\ regs'[6] = regs[6] /\ \A r \in Kept : regs'[r] = regs[r]
    <3>1. 5 \in Trapping!Registers \ {2} /\ 6 \in Trapping!Registers \ {2}
          /\ \A r \in Kept : r \in Trapping!Registers \ {2}
      BY <1>5
    <3> QED
      BY <2>2, <3>1
  <2> QED
    BY <1>3, <1>8, <2>2, <2>3, <2>4 DEF RegsInv, Moves
<1> QED
  BY <1>7, <1>8

\* mret: the user has back what a call must preserve, and t0 and t1.
LEMMA MretSteps ==
  ASSUME RegsInv, mode = "M", outcome = "none", ReturnAt(4), Trapping!Next
  PROVE  RegsInv' /\ outcome' = "none" /\ mode' = "U" /\ UserAt'
<1>1. Head(code).op = "mret"
  <2>1. code = Rest(MReturn, 4, 4) /\ 4 \in 1 .. 4
    BY DEF ReturnAt
  <2>2. Head(code) = MReturn[4]
    BY <2>1, VectorPaths, PathStep
  <2> QED
    BY <2>2, VectorPaths DEF Trapping!Jump
<1>2. Trapping!Resume("mret")
  BY <1>1, Executes
<1>3. /\ mode' = "U" /\ code' = <<>> /\ resumed' = "mret"
      /\ UNCHANGED <<regs, before, sscratch, mscratch, frame, sepc, outcome>>
  BY <1>2 DEF Trapping!Resume
<1>4. /\ sscratch = Trapping!FRAME /\ mscratch = Trapping!FRAME
      /\ regs[2] = before[2] /\ regs[5] = before[5] /\ regs[6] = before[6]
      /\ \A r \in Trapping!Registers \ (Trapping!CallerSaved \union {2}) : regs[r] = before[r]
  <2>1. 4 > 1 /\ 4 > 2
    OBVIOUS
  <2> QED
    BY <2>1 DEF ReturnAt
<1>5. \A r \in (Trapping!Registers \ Trapping!CallerSaved) \union {5, 6} : regs[r] = before[r]
  BY <1>4
<1> QED
  BY <1>3, <1>4, <1>5 DEF UserAt, RegsInv

\* terminate(-1) of the handler ends at the default handler.
LEMMA DeferSteps ==
  ASSUME RegsInv, mode = "M", from = "S", outcome = "none", NEW k \in 1 .. 4, DeferAt(k),
         Trapping!Next
  PROVE  /\ RegsInv' /\ mode' = "M"
         /\ \/ outcome' # "none"
            \/ outcome' = "none" /\ from' = "S" /\ \E x \in 1 .. 4 : DeferAt(x)'
<1> DEFINE v == Trapping!m_trap_vector
           d == MDefer
<1>1. /\ IsPath(v, 4) /\ IsPath(d, 4)
      /\ v[1].op = "swap" /\ v[2].op = "store" /\ v[3].op = "store" /\ v[4].op = "dispatch"
      /\ d[1].op = "load" /\ d[2].op = "load" /\ d[3].op = "swap"
      /\ d[4].op = "mtvec_handler"
  BY VectorPaths
  DEF Trapping!Swap, Trapping!Store, Trapping!Load, Trapping!Jump
<1> HIDE DEF v, d
<1>2. PICK p \in {v, d} : code = Rest(p, k, 4)
  BY DEF DeferAt, v, d
<1>3. IsPath(p, 4)
  BY <1>1
<1>4. Head(code) = p[k] /\ Tail(code) = Rest(p, k + 1, 4)
  BY <1>2, <1>3, PathStep
<1>5. CASE k < 4
  <2>1. Head(code).op \in {"swap", "store", "load"}
    <3>1. k = 1 \/ k = 2 \/ k = 3
      BY <1>5
    <3> QED
      BY <1>1, <1>4, <3>1
  <2>2. \/ Trapping!SwapSp \/ Trapping!StoreWord \/ Trapping!WriteRegister
    BY <2>1, Executes
  <2>3. code' = Tail(code) /\ UNCHANGED <<before, mode, from, outcome>>
    BY <2>2 DEF Trapping!SwapSp, Trapping!StoreWord, Trapping!WriteRegister
  <2>4. regs' = [r \in Trapping!Registers |-> regs'[r]]
    <3>1. regs' = regs \/ \E x, y : regs' = [regs EXCEPT ![x] = y]
      BY <2>2 DEF Trapping!SwapSp, Trapping!StoreWord, Trapping!WriteRegister
    <3> QED
      BY <3>1 DEF RegsInv
  <2>5. k + 1 \in 1 .. 4 /\ code' = Rest(p, k + 1, 4)
    BY <1>4, <1>5, <2>3
  <2>6. DeferAt(k + 1)'
    BY <2>5 DEF DeferAt, v, d
  <2> QED
    BY <2>3, <2>4, <2>5, <2>6 DEF RegsInv
<1>6. CASE k = 4 /\ p = v
  <2>1. Trapping!Dispatch
    BY <1>1, <1>4, <1>6, Executes
  <2>2. /\ UNCHANGED <<before, mode, from, outcome>>
        /\ regs' = [regs EXCEPT ![5] = Trapping!Garbage, ![6] = Trapping!Garbage]
        /\ code' = d
    BY <2>1 DEF Trapping!Dispatch, MDefer, d, Trapping!t0, Trapping!t1
  <2>3. DeferAt(1)'
    BY <1>1, <2>2, PathStarts DEF DeferAt, d
  <2>4. RegsInv'
    BY <2>2 DEF RegsInv
  <2>5. 1 \in 1 .. 4
    OBVIOUS
  <2> QED
    BY <2>2, <2>3, <2>4, <2>5
<1>7. CASE k = 4 /\ p = d
  <2>1. Trapping!Defer
    BY <1>1, <1>4, <1>7, Executes
  <2> QED
    BY <2>1 DEF Trapping!Defer, RegsInv
<1> QED
  BY <1>5, <1>6, <1>7

\* User mode runs, faults or calls.
LEMMA UserSteps ==
  ASSUME RegsInv, mode = "U", outcome = "none", UserAt, Trapping!Next
  PROVE  /\ RegsInv' /\ outcome' = "none"
         /\ \/ mode' = "U" /\ UserAt'
            \/ mode' = "S" /\ EntryAt(1)'
            \/ mode' = "M" /\ from' = "U" /\ VectorAt(1)'
<1>1. /\ code = <<>> /\ sscratch = Trapping!FRAME /\ mscratch = Trapping!FRAME
  BY DEF UserAt
<1>2. \A op : ~Trapping!At(op)
  BY <1>1 DEF Trapping!At
<1>3. Trapping!UserRuns \/ Trapping!PageFault \/ Trapping!UEcall(0) \/ Trapping!UEcall(1)
  BY <1>2
  DEF Trapping!Next, Trapping!SwapSp, Trapping!SwapSpIntoT0, Trapping!StoreWord,
      Trapping!WriteRegister, Trapping!SetSepc, Trapping!HandleTrap, Trapping!Resume,
      Trapping!Dispatch, Trapping!Defer, Trapping!Terminated
<1>4. CASE Trapping!UserRuns
  BY <1>1, <1>4 DEF Trapping!UserRuns, UserAt, RegsInv
<1>5. CASE Trapping!PageFault
  <2>1. /\ before' = regs /\ mode' = "S" /\ code' = Trapping!trap_entry
        /\ UNCHANGED <<regs, sscratch, mscratch, frame, sepc, outcome>>
    BY <1>5 DEF Trapping!PageFault
  <2>2. code' = Rest(Trapping!trap_entry, 1, 43)
    BY <2>1, EntryPath, PathStarts
  <2>3. \A r \in Trapping!Registers \ {2} : ~(1 > (IF r = 1 THEN 2 ELSE r))
    BY DEF Trapping!Registers
  <2>4. EntryAt(1)'
    BY <1>1, <2>1, <2>2, <2>3 DEF EntryAt
  <2> QED
    BY <2>1, <2>4 DEF RegsInv
<1>6. ASSUME NEW number, Trapping!UEcall(number)
      PROVE  RegsInv' /\ outcome' = "none" /\ mode' = "M" /\ from' = "U" /\ VectorAt(1)'
  <2>1. /\ before' = regs /\ mode' = "M" /\ from' = "U" /\ code' = Trapping!m_trap_vector
        /\ UNCHANGED <<regs, sscratch, mscratch, frame, sepc, outcome>>
    BY <1>6 DEF Trapping!UEcall
  <2>2. code' = Rest(Trapping!m_trap_vector, 1, 4)
    BY <2>1, VectorPaths, PathStarts
  <2>3. VectorAt(1)'
    BY <1>1, <2>1, <2>2 DEF VectorAt
  <2> QED
    BY <2>1, <2>3 DEF RegsInv
<1> QED
  BY <1>3, <1>4, <1>5, <1>6

\* The test begins in user mode.
LEMMA TrapStarts ==
  ASSUME Trapping!Init
  PROVE  TrapInv
<1>1. /\ regs = [r \in Trapping!Registers |-> r] /\ before = regs
      /\ sscratch = Trapping!FRAME /\ mscratch = Trapping!FRAME /\ sepc = Trapping!Garbage
      /\ code = <<>> /\ mode = "U" /\ resumed = "sret" /\ outcome = "none"
  BY DEF Trapping!Init
<1>2. RegsInv
  <2>1. \A r \in Trapping!Registers : regs[r] = r
    BY <1>1
  <2> QED
    BY <1>1, <2>1 DEF RegsInv
<1> QED
  BY <1>1, <1>2 DEF TrapInv, UserAt

\* Every instruction keeps the invariant.
LEMMA TrapKeeps ==
  ASSUME TrapInv, Trapping!Next
  PROVE  TrapInv'
<1>1. RegsInv
  BY DEF TrapInv
<1>2. CASE outcome # "none"
  <2>1. Trapping!Terminated
    BY <1>2
    DEF Trapping!Next, Trapping!UserRuns, Trapping!PageFault, Trapping!UEcall,
        Trapping!SwapSp, Trapping!SwapSpIntoT0, Trapping!StoreWord,
        Trapping!WriteRegister, Trapping!SetSepc, Trapping!HandleTrap, Trapping!Resume,
        Trapping!Dispatch, Trapping!Defer, Trapping!At
  <2> QED
    BY <1>2, <2>1 DEF Trapping!Terminated, Trapping!vars, TrapInv, RegsInv
<1>3. CASE outcome = "none"
  <2>1. CASE mode = "U" /\ UserAt
    <3>1. 1 \in 1 .. 43 /\ 1 \in 1 .. 4
      OBVIOUS
    <3> QED
      BY <1>1, <1>3, <2>1, <3>1, UserSteps DEF TrapInv
  <2>2. ASSUME mode = "S", NEW k \in 1 .. 43, EntryAt(k) PROVE TrapInv'
    <3>1. CASE k < 43
      <4>1. EntryAt(k + 1)' /\ Moves /\ RegsInv'
        BY <1>1, <1>3, <2>2, <3>1, EntrySteps
      <4>2. k + 1 \in 1 .. 43
        BY <3>1
      <4> QED
        BY <1>3, <2>2, <4>1, <4>2 DEF TrapInv, Moves
    <3>2. CASE k = 43
      <4>1. 1 \in 1 .. 34 /\ 1 \in 1 .. 4
        OBVIOUS
      <4> QED
        BY <1>1, <1>3, <2>2, <3>2, <4>1, HandlerSteps DEF TrapInv, DeferAt
    <3> QED
      BY <3>1, <3>2
  <2>3. ASSUME mode = "S", NEW k \in 1 .. 34, PopAt(k) PROVE TrapInv'
    <3>1. CASE k < 34
      <4>1. PopAt(k + 1)' /\ Moves /\ RegsInv'
        BY <1>1, <1>3, <2>3, <3>1, PopSteps
      <4>2. k + 1 \in 1 .. 34
        BY <3>1
      <4> QED
        BY <1>3, <2>3, <4>1, <4>2 DEF TrapInv, Moves
    <3>2. CASE k = 34
      BY <1>1, <1>3, <2>3, <3>2, SretSteps DEF TrapInv
    <3> QED
      BY <3>1, <3>2
  <2>4. ASSUME mode = "M", from = "U", NEW k \in 1 .. 4, VectorAt(k) PROVE TrapInv'
    <3>1. CASE k < 4
      <4>1. VectorAt(k + 1)' /\ Moves /\ RegsInv'
        BY <1>1, <1>3, <2>4, <3>1, VectorSteps
      <4>2. k + 1 \in 1 .. 4
        BY <3>1
      <4> QED
        BY <1>3, <2>4, <4>1, <4>2 DEF TrapInv, Moves
    <3>2. CASE k = 4
      <4>1. 1 \in 1 .. 4
        OBVIOUS
      <4> QED
        BY <1>1, <1>3, <2>4, <3>2, <4>1, DispatchSteps DEF TrapInv
    <3> QED
      BY <3>1, <3>2
  <2>5. ASSUME mode = "M", from = "U", NEW k \in 1 .. 4, ReturnAt(k) PROVE TrapInv'
    <3>1. CASE k < 4
      <4>1. ReturnAt(k + 1)' /\ Moves /\ RegsInv'
        BY <1>1, <1>3, <2>5, <3>1, ReturnSteps
      <4>2. k + 1 \in 1 .. 4
        BY <3>1
      <4> QED
        BY <1>3, <2>5, <4>1, <4>2 DEF TrapInv, Moves
    <3>2. CASE k = 4
      BY <1>1, <1>3, <2>5, <3>2, MretSteps DEF TrapInv
    <3> QED
      BY <3>1, <3>2
  <2>6. ASSUME mode = "M", from = "S", NEW k \in 1 .. 4, DeferAt(k) PROVE TrapInv'
    BY <1>1, <1>3, <2>6, DeferSteps DEF TrapInv
  <2> QED
    BY <1>3, <2>1, <2>2, <2>3, <2>4, <2>5, <2>6 DEF TrapInv
<1> QED
  BY <1>2, <1>3

-----------------------------------------------------------------------------
(* The fetch suite: where u_test_main is, and what the gadgets have shown *)

\* The r-th gadget of u_run_test_pass: its test, where it starts, where its last
\* `li' is and what is expected of it
TestOf(r) == IF r <= 5 THEN r - 1 ELSE r - 2
StartOf(r) == <<-4, -14, -6, -2, 16, -6, -14, -6, -2>>[r]
LastOf(r) == IF r \in {5, 9} THEN StartOf(r) ELSE StartOf(r) + 4
ExpectOf(r) ==
  IF r <= 6 THEN Fetching!NoFault
  ELSE IF r = 7 THEN Fetching!Fault(12, -14, -14)
  ELSE IF r = 8 THEN Fetching!Fault(12, -2, 0)
  ELSE Fetching!Fault(12, -2, -2)

Gadget(r) == [op |-> "gadget", test |-> TestOf(r), at |-> StartOf(r), expect |-> ExpectOf(r)]

\* The mode of the instruction cache in pass q, and the pass in which a fault shows
ModeAt(q) == IF q = 1 THEN 2 ELSE IF q = 2 THEN 0 ELSE 1
ShowsIn == IF in_mode = 1 THEN 0 ELSE IF in_mode = 2 THEN 1 ELSE 2

\* The gadget that finds a fault of a kind; no gadget fetches as "first_miss".
Harmless == {"none", "first_miss"}
FoundBy(k) ==
  IF k = "aligned" THEN 1
  ELSE IF k = "within" THEN 2
  ELSE IF k = "second_miss" THEN 3
  ELSE IF k = "both_miss" THEN 4
  ELSE IF k = "both_hit" THEN 6
  ELSE IF k \in {"first_unchecked", "wrong_cause"} THEN 7
  ELSE 8

\* Gadget r of pass q is the one to find the fault; and it is not past already.
Due(q, r) == kind \notin Harmless /\ q = ShowsIn /\ r = FoundBy(kind)
NotMissed(q, r) ==
  kind \notin Harmless => q < ShowsIn \/ (q = ShowsIn /\ r <= FoundBy(kind))

AtItem(q, r) == todo = Rest(Fetching!UTestMain, 10 * q + r + 1, 32)

\* u_test_main, item by item
LEMMA PassPath ==
  LET s == Fetching!URunTestPass
  IN  IsPath(s, 9) /\ \A r \in 1 .. 9 : s[r] = Gadget(r)
<1> DEFINE s == Fetching!URunTestPass
<1>1. IsPath(s, 9)
  BY DEF IsPath, Path, Fetching!URunTestPass
<1>2. /\ s[1] = Gadget(1) /\ s[2] = Gadget(2) /\ s[3] = Gadget(3)
      /\ s[4] = Gadget(4) /\ s[5] = Gadget(5) /\ s[6] = Gadget(6)
  BY DEF Fetching!URunTestPass, Gadget, TestOf, StartOf, ExpectOf, Fetching!Success
<1>3. s[7] = Gadget(7) /\ s[8] = Gadget(8) /\ s[9] = Gadget(9)
  BY DEF Fetching!URunTestPass, Gadget, TestOf, StartOf, ExpectOf, Fetching!Faults,
         Fetching!FETCH_PAGE_FAULT
<1> HIDE DEF s
<1> QED
  BY <1>1, <1>2, <1>3 DEF s

\* u_test_main is three passes of the nine gadgets, each after its icache mode is
\* set, then the last mode and terminate.
LEMMA MainPath ==
  LET s == Fetching!UTestMain
  IN  /\ IsPath(s, 32)
      /\ \A q \in 0 .. 3 : s[10 * q + 1] = Fetching!SetIcache(ModeAt(q))
      /\ \A q \in 0 .. 2 : \A r \in 1 .. 9 : s[10 * q + r + 1] = Gadget(r)
      /\ s[32].op = "terminate"
<1> DEFINE u == Fetching!URunTestPass
           p1 == <<Fetching!SetIcache(1)>>
           p3 == <<Fetching!SetIcache(2)>>
           p5 == <<Fetching!SetIcache(0)>>
           p7 == <<Fetching!SetIcache(1), [op |-> "terminate"]>>
           q2 == p1 \o u
           q3 == q2 \o p3
           q4 == q3 \o u
           q5 == q4 \o p5
           q6 == q5 \o u
           s == Fetching!UTestMain
<1>1. s = q6 \o p7
  BY DEF Fetching!UTestMain
<1>2. /\ IsPath(p1, 1) /\ IsPath(p3, 1) /\ IsPath(p5, 1) /\ IsPath(p7, 2)
      /\ p1[1] = Fetching!SetIcache(1) /\ p3[1] = Fetching!SetIcache(2)
      /\ p5[1] = Fetching!SetIcache(0) /\ p7[1] = Fetching!SetIcache(1)
      /\ p7[2].op = "terminate"
  BY DEF IsPath, Path
<1>3. IsPath(u, 9) /\ \A r \in 1 .. 9 : u[r] = Gadget(r)
  BY PassPath
<1> HIDE DEF u, p1, p3, p5, p7, s
<1>4. IsPath(q2, 10) /\ Joined(q2, p1, 1, u, 9)
  <2>1. Joined(q2, p1, 1, u, 9)
    BY <1>2, <1>3, PathsJoined, Zenon DEF q2
  <2> HIDE DEF q2
  <2> QED
    BY <2>1 DEF Joined
<1> HIDE DEF q2
<1>5. IsPath(q3, 11) /\ Joined(q3, q2, 10, p3, 1)
  <2>1. Joined(q3, q2, 10, p3, 1)
    BY <1>2, <1>4, PathsJoined, Zenon DEF q3
  <2> HIDE DEF q3
  <2> QED
    BY <2>1 DEF Joined
<1> HIDE DEF q3
<1>6. IsPath(q4, 20) /\ Joined(q4, q3, 11, u, 9)
  <2>1. Joined(q4, q3, 11, u, 9)
    BY <1>3, <1>5, PathsJoined, Zenon DEF q4
  <2> HIDE DEF q4
  <2> QED
    BY <2>1 DEF Joined
<1> HIDE DEF q4
<1>7. IsPath(q5, 21) /\ Joined(q5, q4, 20, p5, 1)
  <2>1. Joined(q5, q4, 20, p5, 1)
    BY <1>2, <1>6, PathsJoined, Zenon DEF q5
  <2> HIDE DEF q5
  <2> QED
    BY <2>1 DEF Joined
<1> HIDE DEF q5
<1>8. IsPath(q6, 30) /\ Joined(q6, q5, 21, u, 9)
  <2>1. Joined(q6, q5, 21, u, 9)
    BY <1>3, <1>7, PathsJoined, Zenon DEF q6
  <2> HIDE DEF q6
  <2> QED
    BY <2>1 DEF Joined
<1> HIDE DEF q6
<1>9. IsPath(s, 32) /\ Joined(s, q6, 30, p7, 2)
  <2>1. Joined(s, q6, 30, p7, 2)
    BY <1>1, <1>2, <1>8, PathsJoined, Zenon
  <2> QED
    BY <2>1 DEF Joined
<1>10. /\ \A k \in 1 .. 1 : s[k] = p1[k]
       /\ \A k \in 1 .. 9 : s[1 + k] = u[k]
       /\ \A k \in 1 .. 1 : s[10 + k] = p3[k]
       /\ \A k \in 1 .. 9 : s[11 + k] = u[k]
       /\ \A k \in 1 .. 1 : s[20 + k] = p5[k]
       /\ \A k \in 1 .. 9 : s[21 + k] = u[k]
       /\ \A k \in 1 .. 2 : s[30 + k] = p7[k]
  BY <1>4, <1>5, <1>6, <1>7, <1>8, <1>9 DEF Joined
<1>11. /\ s[1] = Fetching!SetIcache(1) /\ s[10 + 1] = Fetching!SetIcache(2)
       /\ s[20 + 1] = Fetching!SetIcache(0) /\ s[30 + 1] = Fetching!SetIcache(1)
       /\ s[30 + 2].op = "terminate"
  BY <1>2, <1>10
<1>12. \A q \in 0 .. 3 : s[10 * q + 1] = Fetching!SetIcache(ModeAt(q))
  <2> SUFFICES ASSUME NEW q \in 0 .. 3
               PROVE  s[10 * q + 1] = Fetching!SetIcache(ModeAt(q))
    OBVIOUS
  <2>1. q = 0 \/ q = 1 \/ q = 2 \/ q = 3
    OBVIOUS
  <2> QED
    BY <2>1, <1>11 DEF ModeAt
<1>13. \A q \in 0 .. 2 : \A r \in 1 .. 9 : s[10 * q + r + 1] = Gadget(r)
  <2> SUFFICES ASSUME NEW q \in 0 .. 2, NEW r \in 1 .. 9
               PROVE  s[10 * q + r + 1] = Gadget(r)
    OBVIOUS
  <2>1. q = 0 \/ q = 1 \/ q = 2
    OBVIOUS
  <2>2. s[1 + r] = Gadget(r) /\ s[11 + r] = Gadget(r) /\ s[21 + r] = Gadget(r)
    BY <1>3, <1>10
  <2> QED
    BY <2>1, <2>2
<1> QED
  BY <1>9, <1>11, <1>12, <1>13 DEF s

\* What u_test_main does next, and what is left after it
LEMMA NextItem ==
  ASSUME NEW q \in 0 .. 3, NEW r \in 0 .. 9, q = 3 => r <= 1, AtItem(q, r)
  PROVE  /\ r = 0 => Head(todo) = Fetching!SetIcache(ModeAt(q))
         /\ r # 0 /\ q # 3 => Head(todo) = Gadget(r)
         /\ r # 0 /\ q = 3 => Head(todo).op = "terminate"
         /\ r < 9 => (todo' = Tail(todo) => AtItem(q, r + 1)')
         /\ r = 9 => (todo' = Tail(todo) => AtItem(q + 1, 0)')
<1> DEFINE s == Fetching!UTestMain
           k == 10 * q + r + 1
<1>1. k \in 1 .. 32
  OBVIOUS
<1>2. /\ IsPath(s, 32)
      /\ \A x \in 0 .. 3 : s[10 * x + 1] = Fetching!SetIcache(ModeAt(x))
      /\ \A x \in 0 .. 2 : \A y \in 1 .. 9 : s[10 * x + y + 1] = Gadget(y)
      /\ s[32].op = "terminate"
  BY MainPath
<1> HIDE DEF s
<1>3. Head(todo) = s[k] /\ Tail(todo) = Rest(s, k + 1, 32)
  <2>1. todo = Rest(s, k, 32)
    BY DEF AtItem, s
  <2> HIDE DEF k
  <2>2. IsPath(s, 32)
    BY <1>2
  <2>3. Head(Rest(s, k, 32)) = s[k] /\ Tail(Rest(s, k, 32)) = Rest(s, k + 1, 32)
    BY <2>2, <1>1, PathStep
  <2> QED
    BY <2>1, <2>3, Zenon
<1>4. /\ r = 0 => k = 10 * q + 1
      /\ r # 0 /\ q # 3 => q \in 0 .. 2 /\ r \in 1 .. 9
      /\ r # 0 /\ q = 3 => k = 32
      /\ r < 9 => k + 1 = 10 * q + (r + 1) + 1
      /\ r = 9 => k + 1 = 10 * (q + 1) + 0 + 1
  OBVIOUS
<1>5. r # 0 /\ q # 3 => s[k] = Gadget(r)
  BY <1>2, <1>4
<1> QED
  BY <1>2, <1>3, <1>4, <1>5 DEF AtItem, s

-----------------------------------------------------------------------------
(* The fetch suite inside a gadget *)

\* The pages of a test that are not in the ITLB
Absent(t) == <<t, 1>> \notin itlb /\ <<t, 2>> \notin itlb

\* The ITLB before the first fetch of a gadget, and when it has returned: only
\* gadget 6 is of the test of the one before, whose second page it finds there.
Fresh(r) ==
  /\ \A t \in 1 .. 7 : t > TestOf(r) - (IF r = 6 THEN 0 ELSE 1) => Absent(t)
  /\ r = 6 => <<4, 2>> \in itlb
After(r) ==
  /\ \A t \in 1 .. 7 : t > TestOf(r) => Absent(t)
  /\ r = 5 => <<4, 2>> \in itlb

\* Before the fetch at off.  A gadget that is to fault gets further only on the
\* hart whose fault it then finds.
Points(r) == {o \in {StartOf(r), StartOf(r) + 4, StartOf(r) + 8} : o <= LastOf(r) + 4}
SpotOf(r) == IF r = 1 THEN -4 ELSE IF r = 2 THEN -14 ELSE -2

Reached(q, r) ==
  /\ Due(q, r) /\ r <= 6 => off <= SpotOf(r)
  /\ r = 7 /\ off # -14 => Due(q, r) /\ kind = "first_unchecked"
  /\ r = 8 /\ off = 2 => Due(q, r) /\ kind = "second_unchecked"
  /\ r = 9 => off = -2

Translated(r) ==
  /\ \A t \in 1 .. 7 : t > TestOf(r) => Absent(t)
  /\ off = StartOf(r) => Fresh(r)
  /\ r = 5 /\ off # StartOf(r) => <<4, 2>> \in itlb
  /\ r = 6 => <<4, 2>> \in itlb
  /\ r = 3 /\ off = -2 => <<2, 1>> \in itlb /\ <<2, 2>> \notin itlb
  /\ r = 6 /\ off = -2 => <<4, 1>> \in itlb

Inside(q, r) ==
  /\ mode = "U" /\ pc = "gadget"
  /\ latest_fault_info = Fetching!NoFault /\ test_active = TRUE
  /\ off \in Points(r)
  /\ a0 = IF off > LastOf(r) THEN "42" ELSE "zero"
  /\ Reached(q, r) /\ Translated(r)

\* In the handler, on the way back from it, and before the verdict: what was
\* logged is what was expected, except on the hart whose fault is due.
Trapped(q, r) ==
  /\ mode = "S" /\ r >= 7 /\ After(r)
  /\ latest_fault_info = Fetching!NoFault /\ test_active = TRUE
  /\ tf.present = TRUE /\ tf.cause \in {1, 12}
  /\ tf = ExpectOf(r) <=> ~Due(q, r)
Resumed(q, r) ==
  /\ mode = "U" /\ pc = "trampoline" /\ r >= 7 /\ After(r)
  /\ latest_fault_info = ExpectOf(r) <=> ~Due(q, r)
Returned(q, r) ==
  /\ mode = "U" /\ pc = "returned" /\ After(r)
  /\ (/\ a0 = (IF r <= 6 THEN "42" ELSE Fetching!FAULT_MAGIC)
      /\ latest_fault_info = ExpectOf(r))
       <=> ~Due(q, r)

\* The instructions of the gadgets
LEMMA Instructions ==
  ASSUME NEW r \in 1 .. 9, NEW o \in Points(r)
  PROVE  Fetching!InstrAt(TestOf(r), o) =
           IF o < LastOf(r) THEN "nop" ELSE IF o = LastOf(r) THEN "li" ELSE "ret"
<1> DEFINE is == IF o < LastOf(r) THEN "nop" ELSE IF o = LastOf(r) THEN "li" ELSE "ret"
           code_ == Fetching!CodeOf(TestOf(r))
<1>1. <<o, is>> \in code_ /\ \A j \in {"nop", "li", "ret"} : <<o, j>> \in code_ => j = is
  <2>1. r = 1 \/ r = 2 \/ r = 3 \/ r = 4 \/ r = 5 \/ r = 6 \/ r = 7 \/ r = 8 \/ r = 9
    OBVIOUS
  <2>2. CASE r = 1
    <3>1. code_ = Fetching!Dummy(-4) \union Fetching!End(0)
      BY <2>2 DEF TestOf, Fetching!CodeOf
    <3>2. o \in {-4, 0, 4} /\ LastOf(r) = 0
      BY <2>2 DEF Points, StartOf, LastOf
    <3> QED
      BY <3>1, <3>2 DEF Fetching!Dummy, Fetching!End
  <2>3. CASE r = 2 \/ r = 7
    <3>1. code_ = Fetching!Dummy(-14) \union Fetching!End(-10)
      BY <2>3 DEF TestOf, Fetching!CodeOf, Fetching!Code
    <3>2. o \in {-14, -10, -6} /\ LastOf(r) = -10
      BY <2>3 DEF Points, StartOf, LastOf
    <3> QED
      BY <3>1, <3>2 DEF Fetching!Dummy, Fetching!End
  <2>4. CASE r = 3 \/ r = 8
    <3>1. code_ = Fetching!Dummy(-6) \union Fetching!End(-2)
      BY <2>4 DEF TestOf, Fetching!CodeOf, Fetching!Code
    <3>2. o \in {-6, -2, 2} /\ LastOf(r) = -2
      BY <2>4 DEF Points, StartOf, LastOf
    <3> QED
      BY <3>1, <3>2 DEF Fetching!Dummy, Fetching!End
  <2>5. CASE r = 4
    <3>1. code_ = Fetching!Dummy(-2) \union Fetching!End(2)
      BY <2>5 DEF TestOf, Fetching!CodeOf, Fetching!Code
    <3>2. o \in {-2, 2, 6} /\ LastOf(r) = 2
      BY <2>5 DEF Points, StartOf, LastOf
    <3> QED
      BY <3>1, <3>2 DEF Fetching!Dummy, Fetching!End
  <2>6. CASE r = 5 \/ r = 6
    <3>1. code_ = Fetching!Dummy(-6) \union Fetching!End(-2) \union Fetching!End(16)
      BY <2>6 DEF TestOf, Fetching!CodeOf, Fetching!Code
    <3>2. \/ o \in {16, 20} /\ LastOf(r) = 16
          \/ o \in {-6, -2, 2} /\ LastOf(r) = -2
      BY <2>6 DEF Points, StartOf, LastOf
    <3> QED
      BY <3>1, <3>2 DEF Fetching!Dummy, Fetching!End
  <2>7. CASE r = 9
    <3>1. code_ = Fetching!End(-2)
      BY <2>7 DEF TestOf, Fetching!CodeOf, Fetching!Code
    <3>2. o \in {-2, 2} /\ LastOf(r) = -2
      BY <2>7 DEF Points, StartOf, LastOf
    <3> QED
      BY <3>1, <3>2 DEF Fetching!End
  <2> QED
    BY <2>1, <2>2, <2>3, <2>4, <2>5, <2>6, <2>7
<1>2. is \in {"nop", "li", "ret"}
  OBVIOUS
<1> HIDE DEF is, code_
<1>3. Fetching!InstrAt(TestOf(r), o) = is
  BY <1>1, <1>2 DEF Fetching!InstrAt, code_
<1> QED
  BY <1>3 DEF is

\* Which faults show in pass q, and which of them is due in gadget r
LEMMA Showing ==
  ASSUME NEW q \in 0 .. 2, NEW r \in 1 .. 9, in_mode \in {0, 1, 2}, kind \in FaultKinds,
         icache_mode = ModeAt(q), NotMissed(q, r)
  PROVE  \A k : k \notin Harmless =>
           /\ Fetching!Shows(k) <=> kind = k /\ q = ShowsIn
           /\ Fetching!Shows(k) => r <= FoundBy(k)
           /\ Fetching!Shows(k) /\ r = FoundBy(k) => kind = k /\ Due(q, r)
<1>1. icache_mode = in_mode <=> q = ShowsIn
  BY DEF ModeAt, ShowsIn
<1> QED
  BY <1>1 DEF Fetching!Shows, Due, NotMissed

\* The kinds there are
LEMMA KindsFound ==
  ASSUME kind \in FaultKinds, kind \notin Harmless
  PROVE  /\ FoundBy(kind) \in 1 .. 8
         /\ FoundBy(kind) = 1 <=> kind = "aligned"
         /\ FoundBy(kind) = 2 <=> kind = "within"
         /\ FoundBy(kind) = 3 <=> kind = "second_miss"
         /\ FoundBy(kind) = 4 <=> kind = "both_miss"
         /\ FoundBy(kind) # 5
         /\ FoundBy(kind) = 6 <=> kind = "both_hit"
         /\ FoundBy(kind) = 7 <=> kind \in {"first_unchecked", "wrong_cause"}
         /\ FoundBy(kind) = 8 <=>
              kind \in {"second_unchecked", "tval_is_epc", "epc_is_tval"}
BY VirtualMemoryTestsAssumption DEF Fetching!FaultKindsAssumption, Harmless, FoundBy

\* The pages of a gadget are those of its test.
LEMMA PagesFetched ==
  ASSUME NEW r \in 1 .. 9, off \in Points(r), Translated(r),
         itlb' = itlb \union {Fetching!Page(TestOf(r), off), Fetching!Page(TestOf(r), off + 2)}
  PROVE  After(r)' /\ (off' = off + 4 => Translated(r)')
<1> DEFINE t0 == TestOf(r)
<1>1. t0 \in 0 .. 7 /\ StartOf(r) \in Int /\ LastOf(r) \in Int
  <2>1. r = 1 \/ r = 2 \/ r = 3 \/ r = 4 \/ r = 5 \/ r = 6 \/ r = 7 \/ r = 8 \/ r = 9
    OBVIOUS
  <2>2. StartOf(r) \in Int
    BY <2>1 DEF StartOf
  <2>3. LastOf(r) \in Int
    BY <2>2 DEF LastOf
  <2> QED
    BY <2>2, <2>3 DEF TestOf
<1>2. off \in Int /\ off >= StartOf(r)
  BY <1>1 DEF Points
<1>3. \A o : Fetching!Page(t0, o) = <<t0, IF o < 0 THEN 1 ELSE 2>>
  BY DEF Fetching!Page
<1> HIDE DEF t0
<1>4. /\ <<t0, IF off < 0 THEN 1 ELSE 2>> \in itlb'
      /\ \A t \in 1 .. 7 : t > t0 /\ Absent(t) => Absent(t)'
      /\ \A g \in itlb : g \in itlb'
  BY <1>1, <1>3 DEF Absent, t0
<1>5. \A t \in 1 .. 7 : t > t0 => Absent(t)'
  BY <1>4 DEF Translated, t0
<1>6. r = 5 => <<4, 2>> \in itlb'
  <2> SUFFICES ASSUME r = 5 PROVE <<4, 2>> \in itlb'
    OBVIOUS
  <2>1. t0 = 4 /\ StartOf(r) = 16
    BY DEF TestOf, StartOf, t0
  <2>2. ~(off < 0)
    BY <1>2, <2>1
  <2> QED
    BY <1>4, <2>1, <2>2
<1>7. After(r)'
  BY <1>5, <1>6 DEF After, t0
<1>8. ASSUME off' = off + 4 PROVE Translated(r)'
  <2>1. off' # StartOf(r)
    BY <1>1, <1>2, <1>8
  <2>2. r = 6 => <<4, 2>> \in itlb'
    BY <1>4 DEF Translated
  <2>3. ASSUME off' = -2, r \in {3, 6} PROVE off = -6 /\ off = StartOf(r)
    BY <1>2, <1>8, <2>3 DEF StartOf
  <2>4. ASSUME r = 3, off' = -2 PROVE <<2, 1>> \in itlb' /\ <<2, 2>> \notin itlb'
    <3>1. t0 = 2 /\ off = -6 /\ off = StartOf(r)
      BY <2>3, <2>4 DEF TestOf, t0
    <3>2. Absent(2)
      <4>1. Fresh(3)
        BY <3>1, <2>4 DEF Translated
      <4> QED
        BY <4>1 DEF Fresh, TestOf
    <3>3. <<2, 1>> \in itlb'
      BY <1>4, <3>1
    <3>4. itlb' = itlb \union {<<2, 1>>}
      BY <1>3, <3>1 DEF t0
    <3> QED
      BY <3>2, <3>3, <3>4 DEF Absent
  <2>5. ASSUME r = 6, off' = -2 PROVE <<4, 1>> \in itlb'
    <3>1. t0 = 4 /\ off = -6
      BY <2>3, <2>5 DEF TestOf, t0
    <3> QED
      BY <1>4, <3>1
  <2> QED
    BY <1>5, <1>6, <2>1, <2>2, <2>4, <2>5 DEF Translated, t0
<1> QED
  BY <1>7, <1>8

\* How the fetches of the gadgets look that are not to fault
KindAt(r, o) ==
  IF o # -2 THEN IF r \in {1, 5} THEN "aligned" ELSE "within"
  ELSE IF r = 3 THEN "second_miss" ELSE IF r = 4 THEN "both_miss" ELSE "both_hit"

\* With its pages translated, no half of a gadget's fetch faults, and the fetch is
\* of the kind KindAt says.
LEMMA FetchesSucceed ==
  ASSUME NEW r \in 1 .. 6, off \in Points(r), Translated(r)
  PROVE  /\ Fetching!Offending(TestOf(r), off) = {}
         /\ Fetching!FetchKind(TestOf(r), off) = KindAt(r, off)
<1>1. TestOf(r) \in 0 .. 4
  BY DEF TestOf
<1>2. Fetching!Offending(TestOf(r), off) = {}
  BY <1>1 DEF Fetching!Offending, Fetching!Page, Fetching!NoExec
<1>3. /\ r = 1 \/ r = 2 \/ r = 3 \/ r = 4 \/ r = 5 \/ r = 6
      /\ r = 1 => off \in {-4, 0, 4}
      /\ r = 2 => off \in {-14, -10, -6}
      /\ r = 3 => off \in {-6, -2, 2}
      /\ r = 4 => off \in {-2, 2, 6}
      /\ r = 5 => off \in {16, 20}
      /\ r = 6 => off \in {-6, -2, 2}
      /\ off \in Int
  <2>1. r = 1 \/ r = 2 \/ r = 3 \/ r = 4 \/ r = 5 \/ r = 6
    OBVIOUS
  <2>2. r = 1 => off \in {-4, 0, 4}
    BY DEF Points, StartOf, LastOf
  <2>3. r = 2 => off \in {-14, -10, -6}
    BY DEF Points, StartOf, LastOf
  <2>4. r = 3 => off \in {-6, -2, 2}
    BY DEF Points, StartOf, LastOf
  <2>5. r = 4 => off \in {-2, 2, 6}
    BY DEF Points, StartOf, LastOf
  <2>6. r = 5 => off \in {16, 20}
    BY DEF Points, StartOf, LastOf
  <2>7. r = 6 => off \in {-6, -2, 2}
    BY DEF Points, StartOf, LastOf
  <2>8. off \in {-14, -10, -6, -4, -2, 0, 2, 4, 6, 16, 20}
    BY <2>1, <2>2, <2>3, <2>4, <2>5, <2>6, <2>7
  <2>9. off \in Int
    BY <2>8
  <2> QED
    BY <2>1, <2>2, <2>3, <2>4, <2>5, <2>6, <2>7, <2>9, Zenon
<1>4. CASE off # -2
  <2>1. off % 4 = 0 <=> r \in {1, 5}
    BY <1>3, <1>4
  <2> QED
    BY <1>2, <1>4, <2>1 DEF Fetching!FetchKind, KindAt
<1>5. CASE off = -2
  <2>1. r = 3 \/ r = 4 \/ r = 6
    BY <1>3, <1>5
  <2>2. /\ Fetching!Page(TestOf(r), off) = <<TestOf(r), 1>>
        /\ Fetching!Page(TestOf(r), off + 2) = <<TestOf(r), 2>>
    BY <1>5 DEF Fetching!Page
  <2>3. CASE r = 3
    <3>1. <<2, 1>> \in itlb /\ <<2, 2>> \notin itlb /\ TestOf(r) = 2
      BY <1>5, <2>3 DEF Translated, TestOf
    <3> QED
      BY <1>2, <1>5, <2>2, <2>3, <3>1 DEF Fetching!FetchKind, KindAt
  <2>4. CASE r = 4
    <3>1. TestOf(r) = 3 /\ Absent(3)
      <4>1. off = StartOf(r)
        BY <1>5, <2>4 DEF StartOf
      <4>2. Fresh(4)
        BY <2>4, <4>1 DEF Translated
      <4> QED
        BY <2>4, <4>2 DEF Fresh, TestOf
    <3> QED
      BY <1>2, <1>5, <2>2, <2>4, <3>1 DEF Fetching!FetchKind, KindAt, Absent
  <2>5. CASE r = 6
    <3>1. <<4, 1>> \in itlb /\ <<4, 2>> \in itlb /\ TestOf(r) = 4
      BY <1>5, <2>5 DEF Translated, TestOf
    <3> QED
      BY <1>2, <1>5, <2>2, <2>5, <3>1 DEF Fetching!FetchKind, KindAt
  <2> QED
    BY <2>1, <2>3, <2>4, <2>5
<1> QED
  BY <1>4, <1>5

\* What a gadget does next: it goes on, returns or traps, or ends the suite by
\* an instruction that the fault got wrong.
Onwards(q, r) ==
  \/ finish' = "fail" /\ kind \notin Harmless
  \/ finish' = "none" /\ (Inside(q, r)' \/ Trapped(q, r)' \/ Returned(q, r)')

\* The hart executes the instruction at off.
LEMMA Executed ==
  ASSUME NEW q \in 0 .. 2, NEW r \in 1 .. 9, Inside(q, r),
         Due(q, r)' = Due(q, r), kind' = kind, finish' = "none", mode' = mode,
         UNCHANGED <<latest_fault_info, test_active>>,
         itlb' = itlb \union {Fetching!Page(TestOf(r), off), Fetching!Page(TestOf(r), off + 2)},
         IF Fetching!InstrAt(TestOf(r), off) = "ret" THEN pc' = "returned" /\ off' = off
         ELSE off' = off + 4 /\ pc' = pc,
         a0' = IF Fetching!InstrAt(TestOf(r), off) = "li" THEN "42" ELSE a0,
         off > LastOf(r) => (r <= 6 <=> ~Due(q, r)),
         off + 4 \in Points(r) => (off' = off + 4 => Reached(q, r)')
  PROVE  Inside(q, r)' \/ Returned(q, r)'
<1>1. off \in Points(r) /\ Translated(r)
  BY DEF Inside
<1>2. Fetching!InstrAt(TestOf(r), off) =
        IF off < LastOf(r) THEN "nop" ELSE IF off = LastOf(r) THEN "li" ELSE "ret"
  BY <1>1, Instructions
<1>3. /\ StartOf(r) \in Int /\ LastOf(r) \in {StartOf(r), StartOf(r) + 4}
      /\ off \in Int /\ off \in {StartOf(r), StartOf(r) + 4, StartOf(r) + 8}
      /\ off <= LastOf(r) + 4
  <2>1. r = 1 \/ r = 2 \/ r = 3 \/ r = 4 \/ r = 5 \/ r = 6 \/ r = 7 \/ r = 8 \/ r = 9
    OBVIOUS
  <2>2. StartOf(r) \in Int
    BY <2>1 DEF StartOf
  <2> QED
    BY <2>2, <1>1 DEF LastOf, Points
<1>4. After(r)' /\ (off' = off + 4 => Translated(r)')
  BY <1>1, PagesFetched
<1>5. CASE off > LastOf(r)
  <2>1. pc' = "returned" /\ a0' = a0 /\ a0 = "42"
    BY <1>2, <1>3, <1>5 DEF Inside
  <2>2. latest_fault_info' = Fetching!NoFault
    BY DEF Inside
  <2>3. (/\ a0' = (IF r <= 6 THEN "42" ELSE Fetching!FAULT_MAGIC)
         /\ latest_fault_info' = ExpectOf(r)) <=> r <= 6
    BY <2>1, <2>2 DEF ExpectOf, Fetching!FAULT_MAGIC
  <2> QED
    BY <2>1, <2>3, <1>4, <1>5 DEF Returned, Inside
<1>6. CASE ~(off > LastOf(r))
  <2>1. off' = off + 4 /\ pc' = "gadget" /\ a0 = "zero"
    BY <1>2, <1>3, <1>6 DEF Inside
  <2>2. off' \in Points(r)
    BY <1>3, <1>6, <2>1 DEF Points
  <2>3. a0' = IF off' > LastOf(r) THEN "42" ELSE "zero"
    BY <1>2, <1>3, <1>6, <2>1
  <2> QED
    BY <2>1, <2>2, <2>3, <1>4 DEF Inside
<1> QED
  BY <1>5, <1>6

\* What holds while gadget r of pass q runs
Runs(q, r) ==
  /\ kind \in FaultKinds /\ in_mode \in {0, 1, 2} /\ finish = "none"
  /\ icache_mode = ModeAt(q) /\ NotMissed(q, r) /\ Head(todo) = Gadget(r)

\* A fetch of one of the first six gadgets
LEMMA FetchOfSuccess ==
  ASSUME NEW q \in 0 .. 2, NEW r \in 1 .. 6, Runs(q, r), Inside(q, r), Fetching!Fetch
  PROVE  Onwards(q, r)
<1> DEFINE k == KindAt(r, off)
<1>1. /\ Fetching!Now.test = TestOf(r) /\ off \in Points(r) /\ Translated(r)
      /\ r \in 1 .. 9
  BY DEF Runs, Fetching!Now, Gadget, Inside
<1>2. /\ Fetching!Offending(TestOf(r), off) = {}
      /\ Fetching!FetchKind(TestOf(r), off) = k
  BY <1>1, FetchesSucceed
<1>3. k \notin Harmless
  BY DEF KindAt, Harmless
<1>4. /\ Fetching!Shows(k) => kind = k
      /\ Fetching!Shows(k) <=> kind = k /\ q = ShowsIn
  BY <1>1, <1>3, Showing DEF Runs
<1>5. /\ UNCHANGED <<kind, in_mode, latest_fault_info, test_active>>
      /\ itlb' = itlb \union {Fetching!Page(TestOf(r), off), Fetching!Page(TestOf(r), off + 2)}
  BY <1>1 DEF Fetching!Fetch
<1>6. CASE Fetching!Shows(k)
  <2>1. finish' = "fail"
    BY <1>1, <1>2, <1>6 DEF Fetching!Fetch
  <2> QED
    BY <2>1, <1>3, <1>4, <1>6 DEF Onwards
<1>7. CASE ~Fetching!Shows(k)
  <2>1. /\ finish' = "none" /\ mode' = mode
        /\ IF Fetching!InstrAt(TestOf(r), off) = "ret" THEN pc' = "returned" /\ off' = off
           ELSE off' = off + 4 /\ pc' = pc
        /\ a0' = IF Fetching!InstrAt(TestOf(r), off) = "li" THEN "42" ELSE a0
    BY <1>1, <1>2, <1>7 DEF Fetching!Fetch, Runs
  <2>2. ASSUME Due(q, r) PROVE off < SpotOf(r) /\ r \in {3, 6}
    <3>1. kind # k
      BY <1>4, <1>7, <2>2 DEF Due
    <3>2. /\ r = 1 => kind = "aligned"
          /\ r = 2 => kind = "within"
          /\ r = 3 => kind = "second_miss"
          /\ r = 4 => kind = "both_miss"
          /\ r = 6 => kind = "both_hit"
          /\ r # 5
      BY <2>2, KindsFound DEF Due, Runs
    <3>3. off <= SpotOf(r)
      BY <2>2 DEF Inside, Reached
    <3>4. off \in Points(r)
      BY <1>1
    <3>5. r \notin {1, 2, 4, 5}
      <4>1. r # 1
        BY <3>1, <3>2, <3>3, <3>4 DEF SpotOf, KindAt, Points, StartOf
      <4>2. r # 2
        BY <3>1, <3>2, <3>3, <3>4 DEF SpotOf, KindAt, Points, StartOf
      <4>3. r # 4
        BY <3>1, <3>2, <3>3, <3>4 DEF SpotOf, KindAt, Points, StartOf
      <4> QED
        BY <3>2, <4>1, <4>2, <4>3
    <3>6. r \in {3, 6}
      BY <3>5
    <3>7. off \in {-6, -2, 2}
      BY <3>4, <3>6 DEF Points, StartOf
    <3>8. off # -2
      BY <3>1, <3>2, <3>6 DEF KindAt
    <3> QED
      BY <3>3, <3>6, <3>7, <3>8 DEF SpotOf
  <2>3. Due(q, r)' = Due(q, r)
    BY <1>5 DEF Due, ShowsIn
  <2>4. off > LastOf(r) => ~Due(q, r)
    <3> SUFFICES ASSUME Due(q, r) PROVE ~(off > LastOf(r))
      OBVIOUS
    <3>1. r \in {3, 6} /\ off < -2
      BY <2>2 DEF SpotOf
    <3> QED
      BY <3>1, <1>1 DEF LastOf, StartOf, Points
  <2>5. off' = off + 4 => Reached(q, r)'
    <3> SUFFICES ASSUME off' = off + 4, Due(q, r) PROVE off' <= SpotOf(r)
      BY <2>3 DEF Reached
    <3>1. r \in {3, 6} /\ off < -2 /\ SpotOf(r) = -2
      BY <2>2 DEF SpotOf
    <3>2. off \in {-6, -2, 2}
      BY <3>1, <1>1 DEF StartOf, Points
    <3> QED
      BY <3>1, <3>2
  <2>6. Inside(q, r)' \/ Returned(q, r)'
    BY <1>1, <1>5, <2>1, <2>3, <2>4, <2>5, Executed
  <2> QED
    BY <2>1, <2>6 DEF Onwards
<1> QED
  BY <1>6, <1>7

\* The lowest offset that must not be executed is the one reported.
LEMMA Lowest ==
  ASSUME NEW bad, NEW a \in Int, NEW b \in Int, a <= b, bad = {a, b} \/ bad = {a}
  PROVE  (CHOOSE h \in bad : \A g \in bad : h <= g) = a
OBVIOUS

\* The hart traps.
LEMMA TrapTaken ==
  ASSUME NEW q \in 0 .. 2, NEW r \in 7 .. 9, Runs(q, r), Inside(q, r), Fetching!Fetch,
         NEW a \in Int, NEW b \in Int, a <= b,
         LET bad == Fetching!Offending(TestOf(r), off) IN bad = {a, b} \/ bad = {a},
         Fetching!Fault(IF Fetching!Shows("wrong_cause") THEN 1 ELSE 12,
                        IF Fetching!Shows("epc_is_tval") THEN a ELSE off,
                        IF Fetching!Shows("tval_is_epc") THEN off ELSE a) = ExpectOf(r)
           <=> ~Due(q, r)
  PROVE  Onwards(q, r)
<1> DEFINE bad == Fetching!Offending(TestOf(r), off)
<1>1. /\ Fetching!Now.test = TestOf(r) /\ off \in Points(r) /\ Translated(r)
      /\ r \in 1 .. 9
  BY DEF Runs, Fetching!Now, Gadget, Inside
<1>2. bad # {} /\ (CHOOSE h \in bad : \A g \in bad : h <= g) = a
  <2>1. bad = {a, b} \/ bad = {a}
    OBVIOUS
  <2> HIDE DEF bad
  <2> QED
    BY <2>1, Lowest
<1>3. /\ UNCHANGED <<kind, in_mode, latest_fault_info, test_active>>
      /\ itlb' = itlb \union {Fetching!Page(TestOf(r), off), Fetching!Page(TestOf(r), off + 2)}
  BY <1>1 DEF Fetching!Fetch
<1>4. /\ mode' = "S" /\ finish' = finish
      /\ tf' = Fetching!Fault(IF Fetching!Shows("wrong_cause") THEN 1 ELSE 12,
                              IF Fetching!Shows("epc_is_tval") THEN a ELSE off,
                              IF Fetching!Shows("tval_is_epc") THEN off ELSE a)
  BY <1>1, <1>2 DEF Fetching!Fetch, Fetching!FETCH_PAGE_FAULT
<1>5. tf'.present = TRUE /\ tf'.cause \in {1, 12}
  BY <1>4 DEF Fetching!Fault
<1>6. After(r)'
  BY <1>1, <1>3, PagesFetched
<1>7. Due(q, r)' = Due(q, r) /\ ExpectOf(r)' = ExpectOf(r)
  BY <1>3 DEF Due, ShowsIn, ExpectOf, Fetching!NoFault, Fetching!Fault
<1>8. tf' = ExpectOf(r) <=> ~Due(q, r)
  BY <1>4
<1> QED
  BY <1>3, <1>4, <1>5, <1>6, <1>7, <1>8 DEF Onwards, Trapped, Inside, Runs

\* Two logged faults are the same if their fields are.
LEMMA SameFault ==
  ASSUME NEW a, NEW b, NEW c, NEW d, NEW e, NEW f
  PROVE  Fetching!Fault(a, b, c) = Fetching!Fault(d, e, f) <=> a = d /\ b = e /\ c = f
<1> DEFINE x == Fetching!Fault(a, b, c)
           y == Fetching!Fault(d, e, f)
<1>1. /\ x.cause = a /\ x.pc = b /\ x.tval = c
      /\ y.cause = d /\ y.pc = e /\ y.tval = f
  BY DEF Fetching!Fault
<1> HIDE DEF x, y
<1>2. x = y => a = d /\ b = e /\ c = f
  BY <1>1
<1> QED
  BY <1>2 DEF x, y

\* What test is fetched from, and which page a fetch of it is in
LEMMA Halves ==
  ASSUME NEW t, NEW o \in Int
  PROVE  Fetching!Offending(t, o) =
           {h \in {o, o + 2} :
              /\ <<t, IF h < 0 THEN 1 ELSE 2>> \in {<<5, 1>>, <<6, 2>>, <<7, 1>>}
              /\ ~(Fetching!Shows("first_unchecked") /\ h < 0)
              /\ ~(Fetching!Shows("second_unchecked") /\ o = -2 /\ h = 0)}
BY DEF Fetching!Offending, Fetching!Page, Fetching!NoExec

\* A gadget that is to fault executes an instruction: fetches of no kind that is
\* past show a fault.
LEMMA ExecutedNotFaulting ==
  ASSUME NEW q \in 0 .. 2, NEW r \in 7 .. 9, Runs(q, r), Inside(q, r), Fetching!Fetch,
         Fetching!Offending(TestOf(r), off) = {},
         off > LastOf(r) => Due(q, r),
         off' = off + 4 => Reached(q, r)',
         off = -2 => kind # "first_miss"
  PROVE  Onwards(q, r)
<1> DEFINE k == Fetching!FetchKind(TestOf(r), off)
<1>1. /\ Fetching!Now.test = TestOf(r) /\ off \in Points(r) /\ Translated(r)
      /\ r \in 1 .. 9 /\ ~(r <= 6)
  BY DEF Runs, Fetching!Now, Gadget, Inside
<1>2. k \in {"aligned", "within", "second_miss", "both_miss", "both_hit", "first_miss"}
  BY DEF Fetching!FetchKind
<1>3. /\ UNCHANGED <<kind, in_mode, latest_fault_info, test_active>>
      /\ itlb' = itlb \union {Fetching!Page(TestOf(r), off), Fetching!Page(TestOf(r), off + 2)}
  BY <1>1 DEF Fetching!Fetch
<1> HIDE DEF k
<1>4. CASE ~Fetching!Shows(k)
  <2>1. /\ finish' = "none" /\ mode' = mode
        /\ IF Fetching!InstrAt(TestOf(r), off) = "ret" THEN pc' = "returned" /\ off' = off
           ELSE off' = off + 4 /\ pc' = pc
        /\ a0' = IF Fetching!InstrAt(TestOf(r), off) = "li" THEN "42" ELSE a0
    BY <1>1, <1>4 DEF Fetching!Fetch, Runs, k
  <2>2. Due(q, r)' = Due(q, r)
    BY <1>3 DEF Due, ShowsIn
  <2>3. Inside(q, r)' \/ Returned(q, r)'
    BY <1>1, <1>3, <2>1, <2>2, Executed
  <2> QED
    BY <2>1, <2>3 DEF Onwards
<1>5. CASE Fetching!Shows(k) /\ k # "first_miss"
  <2>1. k \notin Harmless /\ FoundBy(k) <= 6
    BY <1>2, <1>5 DEF Harmless, FoundBy
  <2>2. r <= FoundBy(k)
    BY <1>1, <1>5, <2>1, Showing DEF Runs
  <2> QED
    BY <2>1, <2>2, <1>1, <1>2 DEF FoundBy
<1>6. CASE Fetching!Shows(k) /\ k = "first_miss"
  <2>1. kind = "first_miss"
    BY <1>6 DEF Fetching!Shows
  <2>2. off = -2
    BY <1>6 DEF Fetching!FetchKind, k
  <2> QED
    BY <2>1, <2>2
<1> QED
  BY <1>4, <1>5, <1>6

\* A fetch of test 5, whose first page must not be executed
LEMMA FetchOfTest5 ==
  ASSUME NEW q \in 0 .. 2, Runs(q, 7), Inside(q, 7), Fetching!Fetch
  PROVE  Onwards(q, 7)
<1>1. off \in {-14, -10, -6} /\ off \in Int /\ LastOf(7) = -10 /\ TestOf(7) = 5
  BY DEF Inside, Points, LastOf, StartOf, TestOf
<1>2. \A k \in {"first_unchecked", "wrong_cause"} :
        Fetching!Shows(k) => kind = k /\ Due(q, 7)
  <2>1. \A k : k \notin Harmless => (Fetching!Shows(k) /\ 7 = FoundBy(k) => kind = k /\ Due(q, 7))
    BY Showing DEF Runs
  <2>2. \A k \in {"first_unchecked", "wrong_cause"} : k \notin Harmless /\ FoundBy(k) = 7
    BY DEF Harmless, FoundBy
  <2> QED
    BY <2>1, <2>2
<1>3. UNCHANGED <<kind, in_mode>>
  BY DEF Fetching!Fetch
<1>4. CASE Fetching!Shows("first_unchecked")
  <2>1. kind = "first_unchecked" /\ Due(q, 7)
    BY <1>2, <1>4
  <2>2. Fetching!Offending(5, off) = {}
    BY <1>1, <1>4, Halves
  <2>3. Due(q, 7)'
    BY <1>3, <2>1 DEF Due, ShowsIn
  <2>4. off' = off + 4 => Reached(q, 7)'
    BY <1>3, <2>1, <2>3 DEF Reached
  <2> QED
    BY <1>1, <2>1, <2>2, <2>4, ExecutedNotFaulting
<1>5. CASE ~Fetching!Shows("first_unchecked")
  <2>1. off = -14
    <3>1. Due(q, 7) /\ kind = "first_unchecked" => Fetching!Shows("first_unchecked")
      <4>1. "first_unchecked" \notin Harmless
        BY DEF Harmless
      <4> QED
        BY <4>1, Showing DEF Runs, Due
    <3> QED
      BY <1>5, <3>1 DEF Inside, Reached
  <2>2. Fetching!Offending(5, -14) = {-14, -12}
    BY <1>5, <2>1, Halves
  <2>3. Fetching!Shows("wrong_cause") <=> Due(q, 7)
    <3>1. ASSUME Due(q, 7) PROVE Fetching!Shows("wrong_cause")
      <4>1. kind \in {"first_unchecked", "wrong_cause"} /\ kind \notin Harmless
        BY <3>1, KindsFound DEF Due, Runs
      <4>2. Fetching!Shows(kind)
        BY <3>1, <4>1, Showing DEF Runs, Due
      <4> QED
        BY <1>5, <4>1, <4>2
    <3> QED
      BY <3>1, <1>2
  <2>4. ExpectOf(7) = Fetching!Fault(12, -14, -14)
    BY DEF ExpectOf
  <2>5. Fetching!Fault(IF Fetching!Shows("wrong_cause") THEN 1 ELSE 12,
                       IF Fetching!Shows("epc_is_tval") THEN -14 ELSE off,
                       IF Fetching!Shows("tval_is_epc") THEN off ELSE -14) = ExpectOf(7)
          <=> ~Due(q, 7)
    BY <2>1, <2>3, <2>4, SameFault
  <2> QED
    BY <1>1, <2>1, <2>2, <2>5, TrapTaken
<1> QED
  BY <1>4, <1>5

\* A fetch of test 6, whose second page must not be executed
LEMMA FetchOfTest6 ==
  ASSUME NEW q \in 0 .. 2, Runs(q, 8), Inside(q, 8), Fetching!Fetch
  PROVE  Onwards(q, 8)
<1>1. off \in {-6, -2, 2} /\ off \in Int /\ LastOf(8) = -2 /\ TestOf(8) = 6
  BY DEF Inside, Points, LastOf, StartOf, TestOf
<1>2. \A k \in {"second_unchecked", "epc_is_tval", "tval_is_epc"} :
        Fetching!Shows(k) => kind = k /\ Due(q, 8)
  <2>1. \A k : k \notin Harmless => (Fetching!Shows(k) /\ 8 = FoundBy(k) => kind = k /\ Due(q, 8))
    BY Showing DEF Runs
  <2>2. \A k \in {"second_unchecked", "epc_is_tval", "tval_is_epc"} :
          k \notin Harmless /\ FoundBy(k) = 8
    BY DEF Harmless, FoundBy
  <2> QED
    BY <2>1, <2>2
<1>3. \A k \in {"first_unchecked", "wrong_cause"} : ~Fetching!Shows(k)
  <2>1. \A k : k \notin Harmless => (Fetching!Shows(k) => 8 <= FoundBy(k))
    BY Showing DEF Runs
  <2>2. \A k \in {"first_unchecked", "wrong_cause"} : k \notin Harmless /\ FoundBy(k) = 7
    BY DEF Harmless, FoundBy
  <2> QED
    BY <2>1, <2>2
<1>4. UNCHANGED <<kind, in_mode>>
  BY DEF Fetching!Fetch
<1>5. Due(q, 8) => \E k \in {"second_unchecked", "epc_is_tval", "tval_is_epc"} : Fetching!Shows(k)
  <2> SUFFICES ASSUME Due(q, 8)
               PROVE  \E k \in {"second_unchecked", "epc_is_tval", "tval_is_epc"} : Fetching!Shows(k)
    OBVIOUS
  <2>1. /\ kind \in {"second_unchecked", "epc_is_tval", "tval_is_epc"}
        /\ kind \notin Harmless
    BY KindsFound DEF Due, Runs
  <2>2. Fetching!Shows(kind)
    BY <2>1, Showing DEF Runs, Due
  <2> QED
    BY <2>1, <2>2
<1>6. Due(q, 8)' = Due(q, 8) /\ ExpectOf(8) = Fetching!Fault(12, -2, 0)
  BY <1>4 DEF Due, ShowsIn, ExpectOf
<1>7. CASE off = -6
  <2>1. Fetching!Offending(6, off) = {}
    BY <1>7, Halves
  <2>2. off' = off + 4 => Reached(q, 8)'
    BY <1>7 DEF Reached
  <2> QED
    BY <1>1, <1>7, <2>1, <2>2, ExecutedNotFaulting
<1>8. CASE off = -2 /\ Fetching!Shows("second_unchecked")
  <2>1. Fetching!Offending(6, off) = {}
    BY <1>8, Halves
  <2>2. kind = "second_unchecked" /\ Due(q, 8)
    BY <1>2, <1>8
  <2>3. off' = off + 4 => Reached(q, 8)'
    BY <1>4, <1>6, <2>2 DEF Reached
  <2> QED
    BY <1>1, <1>8, <2>1, <2>2, <2>3, ExecutedNotFaulting
<1>9. CASE off = -2 /\ ~Fetching!Shows("second_unchecked")
  <2>1. Fetching!Offending(6, -2) = {0}
    BY <1>9, Halves
  <2>2. Fetching!Fault(IF Fetching!Shows("wrong_cause") THEN 1 ELSE 12,
                       IF Fetching!Shows("epc_is_tval") THEN 0 ELSE off,
                       IF Fetching!Shows("tval_is_epc") THEN off ELSE 0) = ExpectOf(8)
          <=> ~Due(q, 8)
    <3>1. Due(q, 8) <=> Fetching!Shows("epc_is_tval") \/ Fetching!Shows("tval_is_epc")
      BY <1>2, <1>5, <1>9
    <3> QED
      BY <1>3, <1>6, <1>9, <3>1, SameFault
  <2> QED
    BY <1>1, <1>9, <2>1, <2>2, TrapTaken
<1>10. CASE off = 2
  <2>1. kind = "second_unchecked" /\ Due(q, 8)
    BY <1>10 DEF Inside, Reached
  <2>2. Fetching!Offending(6, 2) = {2, 4}
    BY <1>3, Halves
  <2>3. ~Fetching!Shows("epc_is_tval") /\ ~Fetching!Shows("tval_is_epc")
    BY <1>2, <2>1
  <2>4. Fetching!Fault(IF Fetching!Shows("wrong_cause") THEN 1 ELSE 12,
                       IF Fetching!Shows("epc_is_tval") THEN 2 ELSE off,
                       IF Fetching!Shows("tval_is_epc") THEN off ELSE 2) = ExpectOf(8)
          <=> ~Due(q, 8)
    BY <1>6, <1>10, <2>1, <2>3, SameFault
  <2> QED
    BY <1>1, <1>10, <2>2, <2>4, TrapTaken
<1> QED
  BY <1>1, <1>7, <1>8, <1>9, <1>10

\* A fetch of test 7, whose only instruction lies across a page that must not be
\* executed and one that may
LEMMA FetchOfTest7 ==
  ASSUME NEW q \in 0 .. 2, Runs(q, 9), Inside(q, 9), Fetching!Fetch
  PROVE  Onwards(q, 9)
<1>1. off = -2 /\ off \in Int /\ TestOf(9) = 7
  BY DEF Inside, Reached, TestOf
<1>2. \A k \in {"first_unchecked", "wrong_cause"} : ~Fetching!Shows(k)
  <2>1. \A k : k \notin Harmless => (Fetching!Shows(k) => 9 <= FoundBy(k))
    BY Showing DEF Runs
  <2>2. \A k \in {"first_unchecked", "wrong_cause"} : k \notin Harmless /\ FoundBy(k) = 7
    BY DEF Harmless, FoundBy
  <2> QED
    BY <2>1, <2>2
<1>3. ~Due(q, 9)
  BY KindsFound DEF Due, Runs
<1>4. Fetching!Offending(7, -2) = {-2}
  BY <1>2, Halves
<1>5. Fetching!Fault(IF Fetching!Shows("wrong_cause") THEN 1 ELSE 12,
                     IF Fetching!Shows("epc_is_tval") THEN -2 ELSE off,
                     IF Fetching!Shows("tval_is_epc") THEN off ELSE -2) = ExpectOf(9)
        <=> ~Due(q, 9)
  <2>1. ExpectOf(9) = Fetching!Fault(12, -2, -2)
    BY DEF ExpectOf
  <2> QED
    BY <1>1, <1>2, <1>3, <2>1, SameFault
<1> QED
  BY <1>1, <1>4, <1>5, TrapTaken

-----------------------------------------------------------------------------
(* The steps of the fetch suite *)

\* At item r of pass q: the call that sets the mode of the instruction cache, a
\* gadget at one of its stages, or the end.
FetchState(q, r) ==
  /\ AtItem(q, r) /\ NotMissed(q, r)
  /\ r # 0 => icache_mode = ModeAt(q)
  /\ \/ mode = "M" /\ pc = "u_test_main" /\ r = 0
     \/ mode = "U" /\ pc = "u_test_main" /\ (r # 0 /\ q # 3 => Fresh(r))
     \/ r # 0 /\ q # 3 /\ (Inside(q, r) \/ Trapped(q, r) \/ Resumed(q, r) \/ Returned(q, r))

FetchInv ==
  /\ kind \in FaultKinds /\ in_mode \in {0, 1, 2}
  /\ finish \in {"none", "pass", "fail"}
  /\ finish = "fail" => kind \notin Harmless
  /\ finish = "pass" => kind \in Harmless
  /\ finish = "none" => \E q \in 0 .. 3 : \E r \in 0 .. 9 :
       (q = 3 => r <= 1) /\ FetchState(q, r)

\* At first u_test_main has everything to do.
LEMMA FetchStarts ==
  ASSUME Fetching!Init
  PROVE  FetchInv
<1>1. todo = Rest(Fetching!UTestMain, 10 * 0 + 0 + 1, 32)
  <2>1. IsPath(Fetching!UTestMain, 32)
    BY MainPath
  <2>2. Fetching!UTestMain = Rest(Fetching!UTestMain, 1, 32)
    BY <2>1, PathStarts
  <2> QED
    BY <2>2 DEF Fetching!Init
<1>2. NotMissed(0, 0)
  <2>1. ShowsIn \in 0 .. 2
    BY DEF ShowsIn
  <2>2. kind \notin Harmless => 0 <= FoundBy(kind)
    BY KindsFound DEF Fetching!Init
  <2> QED
    BY <2>1, <2>2 DEF NotMissed
<1>3. FetchState(0, 0)
  BY <1>1, <1>2 DEF FetchState, AtItem, Fetching!Init
<1> QED
  BY <1>3 DEF FetchInv, Fetching!Init, Fetching!IcacheModes

\* Which item u_test_main is at, by what it does next
LEMMA ItemOps ==
  ASSUME NEW q \in 0 .. 3, NEW r \in 0 .. 9, q = 3 => r <= 1, AtItem(q, r)
  PROVE  /\ Fetching!Now.op = "ecall" => r = 0
         /\ Fetching!Now.op = "gadget" => r # 0 /\ q # 3
         /\ Fetching!Now.op = "terminate" => r = 1 /\ q = 3
         /\ r = 0 => Fetching!Now.arg = ModeAt(q)
         /\ r # 0 /\ q # 3 => Head(todo) = Gadget(r) /\ Fetching!Now = Gadget(r)
<1>1. /\ r = 0 => Fetching!Now = Fetching!SetIcache(ModeAt(q))
      /\ r # 0 /\ q # 3 => Fetching!Now = Gadget(r) /\ Head(todo) = Gadget(r)
      /\ r # 0 /\ q = 3 => Fetching!Now.op = "terminate"
  BY NextItem DEF Fetching!Now
<1>2. Fetching!SetIcache(ModeAt(q)).op = "ecall" /\ Fetching!SetIcache(ModeAt(q)).arg = ModeAt(q)
  BY DEF Fetching!SetIcache
<1>3. Gadget(r).op = "gadget"
  BY DEF Gadget
<1> QED
  BY <1>1, <1>2, <1>3

\* A gadget begins at its first point.
LEMMA GadgetBegins ==
  ASSUME NEW q \in 0 .. 2, NEW r \in 1 .. 9, kind \in FaultKinds, Fresh(r),
         off' = StartOf(r), a0' = "zero", pc' = "gadget", mode' = "U",
         latest_fault_info' = Fetching!NoFault, test_active' = TRUE,
         UNCHANGED <<kind, in_mode, itlb>>
  PROVE  Inside(q, r)'
<1>1. r = 1 \/ r = 2 \/ r = 3 \/ r = 4 \/ r = 5 \/ r = 6 \/ r = 7 \/ r = 8 \/ r = 9
  OBVIOUS
<1>2. StartOf(r) \in Int
  BY <1>1 DEF StartOf
<1>3. StartOf(r) \in Points(r) /\ ~(StartOf(r) > LastOf(r))
  BY <1>2 DEF Points, LastOf
<1>4. Reached(q, r)'
  <2>1. r <= 4 => StartOf(r) <= SpotOf(r)
    BY <1>1 DEF StartOf, SpotOf
  <2>2. r = 6 => StartOf(r) <= SpotOf(r)
    BY DEF StartOf, SpotOf
  <2>3. ~Due(q, 5)'
    BY KindsFound DEF Due, ShowsIn
  <2>4. (r = 7 => StartOf(r) = -14) /\ (r = 8 => StartOf(r) # 2) /\ (r = 9 => StartOf(r) = -2)
    BY DEF StartOf
  <2> QED
    BY <1>1, <2>1, <2>2, <2>3, <2>4 DEF Reached
<1>5. Translated(r)'
  <2>1. Fresh(r)'
    BY DEF Fresh, Absent
  <2>2. \A t \in 1 .. 7 : t > TestOf(r) => Absent(t)'
    BY DEF Fresh, Absent, TestOf
  <2>3. r \in {3, 6} => StartOf(r) # -2
    BY DEF StartOf
  <2> QED
    BY <2>1, <2>2, <2>3 DEF Translated, Fresh
<1> QED
  BY <1>3, <1>4, <1>5 DEF Inside

\* After a gadget the pages of the next one are as it expects them.
LEMMA NextFresh ==
  ASSUME NEW r \in 1 .. 8, After(r), itlb' = itlb
  PROVE  Fresh(r + 1)'
BY DEF After, Fresh, Absent, TestOf

\* Every step of the suite keeps its invariant.
LEMMA FetchKeeps ==
  ASSUME FetchInv, Fetching!Next
  PROVE  FetchInv'
<1>1. UNCHANGED <<kind, in_mode>>
  BY DEF Fetching!Next, Fetching!Ecall, Fetching!MHandleUEcall, Fetching!UExecuteTestGadget,
         Fetching!Fetch, Fetching!HandleTrap, Fetching!Trampoline, Fetching!Judge,
         Fetching!Terminate, Fetching!Terminated, Fetching!vars
<1>2. CASE finish # "none"
  <2>1. finish' = finish
    BY <1>2
    DEF Fetching!Next, Fetching!Ecall, Fetching!MHandleUEcall, Fetching!UExecuteTestGadget,
        Fetching!Fetch, Fetching!HandleTrap, Fetching!Trampoline, Fetching!Judge,
        Fetching!Terminate, Fetching!Terminated, Fetching!vars, Fetching!InUser
  <2> QED
    BY <1>1, <1>2, <2>1 DEF FetchInv
<1>3. CASE finish = "none"
  <2>1. PICK q \in 0 .. 3 : \E r \in 0 .. 9 : (q = 3 => r <= 1) /\ FetchState(q, r)
    BY <1>3 DEF FetchInv
  <2>2. PICK r \in 0 .. 9 : (q = 3 => r <= 1) /\ FetchState(q, r)
    BY <2>1
  <2>3. /\ AtItem(q, r) /\ NotMissed(q, r) /\ ShowsIn \in 0 .. 2
        /\ kind \in FaultKinds /\ in_mode \in {0, 1, 2}
    BY <2>2 DEF FetchState, FetchInv, ShowsIn
  <2>4. /\ Fetching!Now.op = "ecall" => r = 0
        /\ Fetching!Now.op = "gadget" => r # 0 /\ q # 3
        /\ Fetching!Now.op = "terminate" => r = 1 /\ q = 3
        /\ r = 0 => Fetching!Now.arg = ModeAt(q)
        /\ r # 0 /\ q # 3 => Head(todo) = Gadget(r) /\ Fetching!Now = Gadget(r)
    BY <2>2, <2>3, ItemOps
  <2>5. /\ NotMissed(q, r)' = NotMissed(q, r)
        /\ \A x, y : Due(x, y)' = Due(x, y)
    BY <1>1 DEF NotMissed, Due, ShowsIn
  <2>6. ASSUME NEW x \in 0 .. 3, NEW y \in 0 .. 9, x = 3 => y <= 1, FetchState(x, y)',
               finish' = "none"
        PROVE  FetchInv'
    BY <1>1, <2>3, <2>6 DEF FetchInv
  <2>7. CASE Fetching!Ecall
    <3>1. FetchState(q, r)'
      BY <2>3, <2>4, <2>5, <2>7 DEF Fetching!Ecall, Fetching!InUser, FetchState, AtItem
    <3> QED
      BY <1>3, <2>2, <2>6, <2>7, <3>1 DEF Fetching!Ecall
  <2>8. CASE Fetching!MHandleUEcall
    <3>1. r = 0 /\ pc = "u_test_main"
      BY <2>2, <2>8 DEF Fetching!MHandleUEcall, FetchState, Inside, Trapped, Resumed, Returned
    <3>2. AtItem(q, 1)'
      <4>1. r < 9 => (todo' = Tail(todo) => AtItem(q, r + 1)')
        BY <2>2, <2>3, NextItem
      <4> QED
        BY <2>8, <3>1, <4>1 DEF Fetching!MHandleUEcall
    <3>3. NotMissed(q, 1)'
      <4>1. kind \notin Harmless => 1 <= FoundBy(kind)
        BY <2>3, KindsFound
      <4> QED
        BY <1>1, <2>3, <3>1, <4>1 DEF NotMissed, ShowsIn
    <3>4. Fresh(1)'
      BY <2>8 DEF Fetching!MHandleUEcall, Fresh, Absent
    <3>5. FetchState(q, 1)'
      BY <2>4, <2>8, <3>1, <3>2, <3>3, <3>4 DEF Fetching!MHandleUEcall, FetchState
    <3> QED
      BY <1>3, <2>6, <2>8, <3>5 DEF Fetching!MHandleUEcall
  <2>9. CASE Fetching!UExecuteTestGadget
    <3>1. /\ r \in 1 .. 9 /\ q \in 0 .. 2 /\ Fetching!Now.at = StartOf(r) /\ Fresh(r)
          /\ icache_mode = ModeAt(q)
      <4>1. r # 0 /\ q # 3
        BY <2>4, <2>9 DEF Fetching!UExecuteTestGadget
      <4>2. Fresh(r) /\ icache_mode = ModeAt(q)
        BY <2>2, <2>9, <4>1
        DEF Fetching!UExecuteTestGadget, Fetching!InUser, FetchState, Inside, Trapped,
            Resumed, Returned
      <4>3. Fetching!Now.at = StartOf(r)
        BY <2>4, <4>1 DEF Gadget
      <4> QED
        BY <4>1, <4>2, <4>3
    <3>2. Inside(q, r)'
      BY <2>3, <2>9, <3>1, GadgetBegins DEF Fetching!UExecuteTestGadget, Fetching!InUser
    <3>3. FetchState(q, r)'
      BY <2>3, <2>5, <2>9, <3>1, <3>2 DEF Fetching!UExecuteTestGadget, FetchState, AtItem
    <3> QED
      BY <1>3, <2>2, <2>6, <2>9, <3>3 DEF Fetching!UExecuteTestGadget
  <2>10. CASE Fetching!Fetch
    <3>1. r # 0 /\ q # 3 /\ Inside(q, r) /\ icache_mode = ModeAt(q)
      BY <2>2, <2>10 DEF Fetching!Fetch, Fetching!InUser, FetchState, Trapped, Resumed, Returned
    <3>2. r \in 1 .. 9 /\ q \in 0 .. 2 /\ Runs(q, r)
      BY <1>3, <2>3, <2>4, <3>1 DEF Runs
    <3>3. Onwards(q, r)
      <4>1. r \in 1 .. 6 \/ r = 7 \/ r = 8 \/ r = 9
        BY <3>2
      <4> QED
        BY <2>10, <3>1, <3>2, <4>1, FetchOfSuccess, FetchOfTest5, FetchOfTest6, FetchOfTest7
    <3>4. CASE finish' = "fail" /\ kind \notin Harmless
      BY <1>1, <2>3, <3>4 DEF FetchInv
    <3>5. CASE finish' = "none" /\ (Inside(q, r)' \/ Trapped(q, r)' \/ Returned(q, r)')
      <4>1. UNCHANGED <<todo, icache_mode>>
        BY <2>10 DEF Fetching!Fetch
      <4>2. FetchState(q, r)'
        BY <2>3, <2>5, <3>1, <3>5, <4>1 DEF FetchState, AtItem
      <4> QED
        BY <2>2, <2>6, <3>5, <4>2
    <3> QED
      BY <3>3, <3>4, <3>5 DEF Onwards
  <2>11. CASE Fetching!HandleTrap
    <3>1. r # 0 /\ q # 3 /\ Trapped(q, r) /\ icache_mode = ModeAt(q)
      BY <2>2, <2>11 DEF Fetching!HandleTrap, FetchState, Inside, Resumed, Returned
    <3>2. ~latest_fault_info.present
      BY <3>1 DEF Trapped, Fetching!NoFault
    <3>3. /\ latest_fault_info' = tf /\ pc' = "trampoline" /\ mode' = "U" /\ finish' = finish
          /\ UNCHANGED <<itlb, todo, icache_mode>>
      BY <2>11, <3>1, <3>2 DEF Fetching!HandleTrap, Trapped, Fetching!FETCH_PAGE_FAULT
    <3>4. After(r)' /\ ExpectOf(r)' = ExpectOf(r)
      BY <3>1, <3>3 DEF Trapped, After, Absent, ExpectOf, Fetching!NoFault, Fetching!Fault
    <3>5. Resumed(q, r)'
      BY <2>5, <3>1, <3>3, <3>4 DEF Trapped, Resumed
    <3>6. FetchState(q, r)'
      BY <2>3, <2>5, <3>1, <3>3, <3>5 DEF FetchState, AtItem
    <3> QED
      BY <1>3, <2>2, <2>6, <3>3, <3>6
  <2>12. CASE Fetching!Trampoline
    <3>1. r # 0 /\ q # 3 /\ Resumed(q, r) /\ icache_mode = ModeAt(q)
      BY <2>2, <2>12
      DEF Fetching!Trampoline, Fetching!InUser, FetchState, Inside, Trapped, Returned
    <3>2. /\ a0' = Fetching!FAULT_MAGIC /\ pc' = "returned" /\ mode' = "U"
          /\ latest_fault_info' = latest_fault_info /\ finish' = finish
          /\ UNCHANGED <<itlb, todo, icache_mode>>
      BY <2>12, <3>1 DEF Fetching!Trampoline, Resumed
    <3>3. After(r)' /\ ExpectOf(r)' = ExpectOf(r) /\ ~(r <= 6)
      BY <3>1, <3>2 DEF Resumed, After, Absent, ExpectOf, Fetching!NoFault, Fetching!Fault
    <3>4. Returned(q, r)'
      BY <2>5, <3>1, <3>2, <3>3 DEF Resumed, Returned, Fetching!FAULT_MAGIC
    <3>5. FetchState(q, r)'
      BY <2>3, <2>5, <3>1, <3>2, <3>4 DEF FetchState, AtItem
    <3> QED
      BY <1>3, <2>2, <2>6, <3>2, <3>5
  <2>13. CASE Fetching!Judge
    <3>1. r # 0 /\ q # 3 /\ Returned(q, r) /\ icache_mode = ModeAt(q)
      BY <2>2, <2>13 DEF Fetching!Judge, Fetching!InUser, FetchState, Inside, Trapped, Resumed
    <3>2. r \in 1 .. 9 /\ q \in 0 .. 2
      BY <3>1
    <3>3. Fetching!AsExpected <=> ~Due(q, r)
      <4>1. Fetching!Now.expect = ExpectOf(r)
        BY <2>4, <3>1 DEF Gadget
      <4>2. ExpectOf(r).present <=> ~(r <= 6)
        BY <3>2 DEF ExpectOf, Fetching!NoFault, Fetching!Fault
      <4> QED
        BY <3>1, <4>1, <4>2 DEF Fetching!AsExpected, Returned
    <3>4. CASE Due(q, r)
      <4>1. finish' = "fail"
        BY <2>13, <3>3, <3>4 DEF Fetching!Judge
      <4> QED
        BY <1>1, <2>3, <3>4, <4>1 DEF FetchInv, Due
    <3>5. CASE ~Due(q, r)
      <4>1. /\ todo' = Tail(todo) /\ pc' = "u_test_main" /\ finish' = finish
            /\ UNCHANGED <<mode, itlb, icache_mode>> /\ mode = "U"
        BY <2>13, <3>3, <3>5 DEF Fetching!Judge, Fetching!InUser
      <4>2. kind \notin Harmless => q < ShowsIn \/ (q = ShowsIn /\ r < FoundBy(kind))
        <5>1. kind \notin Harmless => FoundBy(kind) \in 1 .. 8
          BY <2>3, KindsFound
        <5> SUFFICES ASSUME kind \notin Harmless
                     PROVE  q < ShowsIn \/ (q = ShowsIn /\ r < FoundBy(kind))
          OBVIOUS
        <5>2. q < ShowsIn \/ (q = ShowsIn /\ r <= FoundBy(kind))
          BY <2>3 DEF NotMissed
        <5>3. ~(q = ShowsIn /\ r = FoundBy(kind))
          BY <3>5 DEF Due
        <5> QED
          BY <3>2, <5>1, <5>2, <5>3
      <4>3. CASE r < 9
        <5>1. AtItem(q, r + 1)'
          BY <2>2, <2>3, <4>1, <4>3, NextItem
        <5>2. Fresh(r + 1)'
          BY <3>1, <3>2, <4>1, <4>3, NextFresh DEF Returned
        <5>3. NotMissed(q, r + 1)'
          <6>1. kind \notin Harmless => FoundBy(kind) \in 1 .. 8
            BY <2>3, KindsFound
          <6> QED
            BY <1>1, <3>2, <4>2, <6>1 DEF NotMissed, ShowsIn
        <5>4. FetchState(q, r + 1)' /\ r + 1 \in 0 .. 9
          BY <3>1, <3>2, <4>1, <4>3, <5>1, <5>2, <5>3 DEF FetchState
        <5> QED
          BY <1>3, <2>6, <3>2, <4>1, <5>4
      <4>4. CASE r = 9
        <5>1. AtItem(q + 1, 0)'
          BY <2>2, <2>3, <4>1, <4>4, NextItem
        <5>2. NotMissed(q + 1, 0)'
          <6>1. kind \notin Harmless => FoundBy(kind) \in 1 .. 8
            BY <2>3, KindsFound
          <6> QED
            BY <1>1, <2>3, <3>2, <4>2, <4>4, <6>1 DEF NotMissed, ShowsIn
        <5>3. FetchState(q + 1, 0)' /\ q + 1 \in 0 .. 3
          BY <3>2, <4>1, <5>1, <5>2 DEF FetchState
        <5> QED
          BY <1>3, <2>6, <4>1, <5>3
      <4> QED
        BY <3>2, <4>3, <4>4
    <3> QED
      BY <3>4, <3>5
  <2>14. CASE Fetching!Terminate
    <3>1. r = 1 /\ q = 3 /\ finish' = "pass"
      BY <2>4, <2>14 DEF Fetching!Terminate
    <3>2. kind \in Harmless
      BY <2>3, <3>1 DEF NotMissed
    <3> QED
      BY <1>1, <2>3, <3>1, <3>2 DEF FetchInv
  <2>15. CASE Fetching!Terminated
    BY <1>3, <2>15 DEF Fetching!Terminated
  <2> QED
    BY <2>7, <2>8, <2>9, <2>10, <2>11, <2>12, <2>13, <2>14, <2>15 DEF Fetching!Next
<1> QED
  BY <1>2, <1>3

-----------------------------------------------------------------------------
(* The cache tests: what a cached load would find, and where each program is *)

\* A hart that the test of the data cache is for, and those it is against
StackKept ==
  /\ hart.fault \notin {"load_bypasses", "store_bypasses", "no_writeback"}
  /\ hart.loses \notin {"access", "c2"}

\* The value of a word to a load through the cache
Seen(w) == IF blocks[Caching!Block(w)] = "invalid" THEN dram[w] ELSE line[w]
Check(k) == Caching!CheckAddrs[k]

CacheTyped ==
  /\ hart \in Caching!Harts
  /\ dcache_mode \in BOOLEAN
  /\ line = [w \in Caching!Words |-> line[w]]
  /\ dram = [w \in Caching!Words |-> dram[w]]
  /\ blocks = [b \in Caching!Blocks |-> blocks[b]]
  /\ icache = [w \in Caching!Dynamic |-> icache[w]]

\* uncached_mode.c before its n-th instruction: whether the cache is on, and what
\* it has made of the words of the frame
ModeBefore(n) == n = 1 \/ n \in 4 .. 7 \/ n \in 10 .. 20 \/ n >= 24

UncachedInv ==
  /\ finish \in {"none", "pass", "fail"}
  /\ finish = "fail" => ~StackKept
  /\ finish = "pass" => StackKept
  /\ finish = "none" =>
       /\ at \in 1 .. 34
       /\ dcache_mode <=> ModeBefore(at)
       /\ hart.loses = "c2" => dram["c2"] = 0
       /\ at \in 1 .. 4 => blocks["frame1"] = "invalid"
       /\ at \in {3, 4} => Seen("access") = 128
       /\ at \in 6 .. 8 => Seen("access") = 112 /\ blocks["frame1"] = "dirty"
       /\ at \in {9, 10} =>
            Seen("access") = IF hart.fault = "store_bypasses" THEN 112 ELSE 144
       /\ at \in 9 .. 21 => dram["access"] = 144
       /\ at >= 11 => hart.fault # "store_bypasses"
       /\ at \in 12 .. 21 =>
            /\ Seen("access") = 96 /\ blocks["frame1"] = "dirty"
            /\ \A k \in 1 .. 8 : k < at - 11 =>
                 Seen(Check(k)) = 64 /\ blocks[Caching!Block(Check(k))] = "dirty"
       /\ at >= 22 =>
            /\ hart.fault \notin {"load_bypasses", "no_writeback"}
            /\ hart.loses # "access"
            /\ \A k \in 1 .. 8 : hart.loses # Check(k) => Seen(Check(k)) = 64
       /\ at = 22 =>
            /\ blocks["frame1"] = "invalid"
            /\ blocks[Caching!Block("c1")] \in {"invalid", "dirty"}
       /\ at >= 23 /\ hart.loses = "c2" => Seen("c2") = 0
       /\ at >= 25 => Seen("access") = 80
       /\ at >= 26 => Seen("c9") = 64
       /\ at >= 28 => hart.loses # "c2"

\* l2_uncached.c and high_dram_alias.c
BypassInv ==
  /\ finish \in {"none", "pass", "fail"}
  /\ finish = "fail" => ~(hart.alias /\ hart.fault # "bypass_evicts")
  /\ finish = "pass" => hart.alias /\ hart.fault # "bypass_evicts"
  /\ finish = "none" =>
       /\ at \in 1 .. 8 /\ dcache_mode
       /\ at <= 3 => blocks["dram"] = "invalid"
       /\ ~hart.alias =>
            at <= 3 /\ dram["low"] = 0
       /\ hart.alias =>
            /\ at \in 2 .. 5 => Seen("low") = 57005
            /\ at = 5 => blocks["dram"] = "dirty"
            /\ at >= 6 => dram["low"] = 48879
            /\ at = 6 => Seen("low") = IF hart.fault = "bypass_evicts" THEN 48879 ELSE 57005
            /\ at >= 7 => hart.fault # "bypass_evicts"

AliasInv ==
  /\ finish \in {"none", "pass", "fail"}
  /\ finish = "fail" => hart.alias
  /\ finish = "pass" => ~hart.alias
  /\ finish = "none" =>
       /\ at \in 1 .. 8
       /\ at >= 2 => ~dcache_mode
       /\ \A b \in Caching!Blocks : blocks[b] = "invalid"
       /\ at \in 3 .. 4 => dram["low"] = 1
       /\ at >= 5 => dram[Caching!Cell("high")] = 2
       /\ at >= 5 /\ ~hart.alias => dram["low"] = 1
       /\ at >= 7 => ~hart.alias

\* execute_dynamic_instruction.c on a hart whose fence.i does what it says
Fetched(w) == IF w = "i0" THEN 1 ELSE 2
FenceKept ==
  hart.fault \notin {"fence_i_keeps_icache", "fence_i_keeps_dcache", "no_writeback"}

DynamicInv ==
  /\ finish = "none" => at \in 1 .. 6 /\ dcache_mode
  /\ FenceKept =>
       /\ finish # "fail"
       /\ finish = "none" =>
            /\ blocks["code"] \in {"invalid", "dirty"}
            /\ at >= 2 => Seen("i0") = 1
            /\ at >= 3 => Seen("i1") = 2
            /\ at >= 4 =>
                 /\ blocks["code"] = "invalid"
                 /\ \A w \in Caching!Dynamic :
                      dram[w] = Fetched(w) /\ icache[w] \in {-1, Fetched(w)}

CachingInv ==
  /\ CacheTyped
  /\ test = "uncached_mode" => UncachedInv
  /\ test = "l2_uncached" => BypassInv
  /\ test = "high_dram_alias" => AliasInv
  /\ test = "execute_dynamic_instruction" => DynamicInv

-----------------------------------------------------------------------------
(* The words and the blocks of the cache tests *)

\* check_addr1 to check_addr9
LEMMA CheckWords ==
  /\ Check(1) = "c1" /\ Check(2) = "c2" /\ Check(3) = "c3" /\ Check(4) = "c4"
  /\ Check(5) = "c5" /\ Check(6) = "c6" /\ Check(7) = "c7" /\ Check(8) = "c8"
  /\ Check(9) = "c9"
  /\ \A k \in 1 .. 9 : Check(k) \in Caching!Words
  /\ \A k \in 1 .. 9 : Check(k) \notin {"access", "low", "high", "i0", "i1"}
  /\ \A j, k \in 1 .. 9 : Check(j) = Check(k) => j = k
<1>1. /\ Check(1) = "c1" /\ Check(2) = "c2" /\ Check(3) = "c3" /\ Check(4) = "c4"
      /\ Check(5) = "c5" /\ Check(6) = "c6" /\ Check(7) = "c7" /\ Check(8) = "c8"
      /\ Check(9) = "c9"
  BY DEF Check, Caching!CheckAddrs
<1>2. \A k \in 1 .. 9 : Check(k) \in Caching!Words
  BY DEF Check, Caching!Words
<1>3. \A k \in 1 .. 9 : k = 1 \/ k = 2 \/ k = 3 \/ k = 4 \/ k = 5 \/ k = 6 \/ k = 7
                        \/ k = 8 \/ k = 9
  OBVIOUS
<1>4. \A k \in 1 .. 9 : Check(k) \notin {"access", "low", "high", "i0", "i1"}
  BY <1>1, <1>3
<1>5. \A j, k \in 1 .. 9 : Check(j) = Check(k) => j = k
  BY <1>1, <1>3
<1> QED
  BY <1>1, <1>2, <1>4, <1>5

\* The frame of main lies across two blocks.
LEMMA BlocksOfWords ==
  ASSUME hart \in Caching!Harts
  PROVE  /\ {"access", "low", "high", "i0", "i1"} \subseteq Caching!Words
         /\ hart.split \in 0 .. 9
         /\ Caching!Block("access") = "frame1" /\ Caching!Block("high") = "frame1"
         /\ Caching!Block("low") = "dram"
         /\ Caching!Block("i0") = "code" /\ Caching!Block("i1") = "code"
         /\ \A k \in 1 .. 9 :
              Caching!Block(Check(k)) = IF k <= hart.split THEN "frame2" ELSE "frame1"
         /\ \A w \in Caching!Words : Caching!Block(w) \in Caching!Blocks
<1>1. hart.split \in 0 .. 9
  BY DEF Caching!Harts
<1>2. ASSUME NEW w, w \notin {"low", "i0", "i1"}
      PROVE  Caching!Block(w) = IF \E k \in 1 .. hart.split : w = Check(k)
                                THEN "frame2" ELSE "frame1"
  BY <1>2 DEF Caching!Block, Caching!Dynamic, Check
<1>3. ASSUME NEW k \in 1 .. 9
      PROVE  Caching!Block(Check(k)) = IF k <= hart.split THEN "frame2" ELSE "frame1"
  <2>1. (\E j \in 1 .. hart.split : Check(k) = Check(j)) <=> k <= hart.split
    BY <1>1, CheckWords
  <2> QED
    BY <1>2, <2>1, CheckWords
<1>4. \A w : (\E k \in 1 .. hart.split : w = Check(k)) => w \notin {"access", "high"}
  BY <1>1, CheckWords
<1>5. Caching!Block("access") = "frame1" /\ Caching!Block("high") = "frame1"
  BY <1>2, <1>4
<1>6. /\ Caching!Block("low") = "dram"
      /\ Caching!Block("i0") = "code" /\ Caching!Block("i1") = "code"
  BY DEF Caching!Block, Caching!Dynamic
<1>7. {"access", "low", "high", "i0", "i1"} \subseteq Caching!Words
  BY DEF Caching!Words, Caching!Dynamic
<1>8. \A w \in Caching!Words : Caching!Block(w) \in Caching!Blocks
  BY DEF Caching!Block, Caching!Blocks
<1> QED
  BY <1>1, <1>3, <1>5, <1>6, <1>7, <1>8

-----------------------------------------------------------------------------
(* The four programs, instruction by instruction *)

\* The check word that the k-th of the last loads of uncached_mode.c looks at
CheckLoaded(k) == Check(IF k <= 3 THEN k + 1 ELSE k + 2)

\* uncached_mode.c has 33 instructions.
LEMMA UncachedPath ==
  LET s == Caching!uncached_mode
  IN  /\ Len(s) = 33
      /\ s[1] = Caching!SetMode(FALSE) /\ s[2] = Caching!Store("access", 128)
      /\ s[3] = Caching!SetMode(TRUE) /\ s[4] = Caching!Load("access", 128)
      /\ s[5] = Caching!Store("access", 112) /\ s[6] = Caching!Load("access", 112)
      /\ s[7] = Caching!SetMode(FALSE) /\ s[8] = Caching!Store("access", 144)
      /\ s[9] = Caching!SetMode(TRUE) /\ s[10] = Caching!Load("access", 144)
      /\ s[11] = Caching!Store("access", 96)
      /\ \A k \in 1 .. 8 : s[11 + k] = Caching!Store(Check(k), 64)
      /\ s[20] = Caching!SetMode(FALSE) /\ s[21] = Caching!Load("access", 96)
      /\ s[22] = Caching!Load("c1", 64)
      /\ s[23] = Caching!SetMode(TRUE) /\ s[24] = Caching!Store("access", 80)
      /\ s[25] = Caching!Store("c9", 64) /\ s[26] = Caching!Load("access", 80)
      /\ \A k \in 1 .. 7 : s[26 + k] = Caching!Load(CheckLoaded(k), 64)
<1> DEFINE p1 == <<Caching!SetMode(FALSE), Caching!Store("access", 128),
                   Caching!SetMode(TRUE), Caching!Load("access", 128),
                   Caching!Store("access", 112), Caching!Load("access", 112),
                   Caching!SetMode(FALSE), Caching!Store("access", 144),
                   Caching!SetMode(TRUE), Caching!Load("access", 144),
                   Caching!Store("access", 96)>>
           p2 == Caching!StoreChecks
           p3 == <<Caching!SetMode(FALSE), Caching!Load("access", 96), Caching!Load("c1", 64),
                   Caching!SetMode(TRUE), Caching!Store("access", 80),
                   Caching!Store("c9", 64), Caching!Load("access", 80)>>
           p4 == Caching!LoadChecks
           q2 == p1 \o p2
           q3 == q2 \o p3
           s == Caching!uncached_mode
<1>1. s = q3 \o p4
  BY DEF Caching!uncached_mode
<1>2. /\ IsPath(p1, 11)
      /\ p1[1] = Caching!SetMode(FALSE) /\ p1[2] = Caching!Store("access", 128)
      /\ p1[3] = Caching!SetMode(TRUE) /\ p1[4] = Caching!Load("access", 128)
      /\ p1[5] = Caching!Store("access", 112) /\ p1[6] = Caching!Load("access", 112)
      /\ p1[7] = Caching!SetMode(FALSE) /\ p1[8] = Caching!Store("access", 144)
      /\ p1[9] = Caching!SetMode(TRUE) /\ p1[10] = Caching!Load("access", 144)
      /\ p1[11] = Caching!Store("access", 96)
  BY DEF IsPath, Path
<1>3. IsPath(p2, 8) /\ \A k \in 1 .. 8 : p2[k] = Caching!Store(Check(k), 64)
  BY DEF IsPath, Path, Caching!StoreChecks, Check
<1>4. /\ IsPath(p3, 7)
      /\ p3[1] = Caching!SetMode(FALSE) /\ p3[2] = Caching!Load("access", 96)
      /\ p3[3] = Caching!Load("c1", 64)
      /\ p3[4] = Caching!SetMode(TRUE) /\ p3[5] = Caching!Store("access", 80)
      /\ p3[6] = Caching!Store("c9", 64) /\ p3[7] = Caching!Load("access", 80)
  BY DEF IsPath, Path
<1>5. IsPath(p4, 7) /\ \A k \in 1 .. 7 : p4[k] = Caching!Load(CheckLoaded(k), 64)
  BY DEF IsPath, Path, Caching!LoadChecks, CheckLoaded, Check
<1> HIDE DEF p1, p2, p3, p4, q2, q3, s
<1>6. Joined(q2, p1, 11, p2, 8)
  <2>1. IsPath(p1, 11) /\ IsPath(p2, 8)
    BY <1>2, <1>3
  <2> QED
    BY <2>1, PathsJoined, Zenon DEF q2
<1>7. Joined(q3, q2, 19, p3, 7)
  <2>1. IsPath(q2, 11 + 8) /\ 11 + 8 = 19
    BY <1>6 DEF Joined
  <2>2. IsPath(q2, 19)
    BY <2>1
  <2>3. IsPath(p3, 7)
    BY <1>4
  <2> QED
    BY <2>2, <2>3, PathsJoined, Zenon DEF q3
<1>8. Joined(s, q3, 26, p4, 7)
  <2>1. IsPath(q3, 19 + 7) /\ 19 + 7 = 26
    BY <1>7 DEF Joined
  <2>2. IsPath(q3, 26)
    BY <2>1
  <2> QED
    BY <1>1, <2>2, <1>5, PathsJoined, Zenon
<1>9. \A k \in 1 .. 11 : s[k] = p1[k]
  BY <1>6, <1>7, <1>8 DEF Joined
<1>10. \A k \in 1 .. 8 : s[11 + k] = p2[k]
  BY <1>6, <1>7, <1>8 DEF Joined
<1>11. \A k \in 1 .. 7 : s[19 + k] = p3[k]
  BY <1>7, <1>8 DEF Joined
<1>12. \A k \in 1 .. 7 : s[26 + k] = p4[k]
  BY <1>8 DEF Joined
<1>13. Len(s) = 33
  BY <1>8 DEF Joined, IsPath
<1>14. /\ s[1] = p1[1] /\ s[2] = p1[2] /\ s[3] = p1[3] /\ s[4] = p1[4] /\ s[5] = p1[5]
       /\ s[6] = p1[6] /\ s[7] = p1[7] /\ s[8] = p1[8] /\ s[9] = p1[9]
       /\ s[10] = p1[10] /\ s[11] = p1[11]
  BY <1>9
<1>15. /\ s[20] = p3[1] /\ s[21] = p3[2] /\ s[22] = p3[3] /\ s[23] = p3[4]
       /\ s[24] = p3[5] /\ s[25] = p3[6] /\ s[26] = p3[7]
  <2>1. s[19 + 1] = p3[1] /\ s[19 + 2] = p3[2] /\ s[19 + 3] = p3[3] /\ s[19 + 4] = p3[4]
        /\ s[19 + 5] = p3[5] /\ s[19 + 6] = p3[6] /\ s[19 + 7] = p3[7]
    BY <1>11
  <2> QED
    BY <2>1
<1> QED
  BY <1>2, <1>3, <1>4, <1>5, <1>10, <1>12, <1>13, <1>14, <1>15 DEF s

\* The other three have no more than seven.
LEMMA ShortPaths ==
  LET a == Caching!l2_uncached
      b == Caching!high_dram_alias
      c == Caching!execute_dynamic_instruction
  IN  /\ Len(a) = 7
      /\ a[1] = Caching!Store("high", 57005) /\ a[2] = Caching!Load("high", 57005)
      /\ a[3] = Caching!Load("low", 57005) /\ a[4] = Caching!Store("low", 57005)
      /\ a[5] = Caching!Store("high", 48879) /\ a[6] = Caching!Load("low", 57005)
      /\ a[7] = Caching!Load("high", 48879)
      /\ Len(b) = 7
      /\ b[1] = Caching!SetMode(FALSE) /\ b[2] = Caching!Store("low", 1)
      /\ b[3] = Caching!Load("low", 1) /\ b[4] = Caching!Store("high", 2)
      /\ b[5] = Caching!Load("high", 2) /\ b[6] = Caching!Load("low", 1)
      /\ b[7] = Caching!Load("high", 2)
      /\ Len(c) = 5
      /\ c[1] = Caching!Store("i0", 1) /\ c[2] = Caching!Store("i1", 2)
      /\ c[3] = Caching!FenceI
      /\ c[4] = Caching!Call("i0", 1) /\ c[5] = Caching!Call("i1", 2)
BY DEF Caching!l2_uncached, Caching!high_dram_alias, Caching!execute_dynamic_instruction

-----------------------------------------------------------------------------
(* What one instruction does *)

\* The cache is switched on or off, and nothing else changes.
Switched(m) ==
  /\ CacheTyped' /\ dcache_mode' = m /\ at' = at + 1
  /\ UNCHANGED <<finish, blocks, line, dram, icache>>
  /\ \A x : Seen(x)' = Seen(x)

\* A cached load finds what is seen of its word, and leaves that as it is.
Loaded(w, v) ==
  /\ CacheTyped' /\ UNCHANGED <<dcache_mode, dram, icache>>
  /\ IF Seen(w) = v THEN at' = at + 1 /\ finish' = finish
     ELSE finish' = "fail" /\ at' = at
  /\ \A x \in Caching!Words : Seen(x)' = Seen(x)
  /\ \A b \in Caching!Blocks :
       blocks'[b] = IF b = Caching!Block(w) /\ blocks[b] = "invalid"
                    THEN "clean" ELSE blocks[b]

\* A cached store is seen at its word, and nowhere else.
Stored(w, v) ==
  /\ CacheTyped' /\ UNCHANGED <<finish, dcache_mode, dram, icache>>
  /\ at' = at + 1
  /\ \A x \in Caching!Words : Seen(x)' = IF x = w THEN v ELSE Seen(x)
  /\ \A b \in Caching!Blocks :
       blocks'[b] = IF b = Caching!Block(w) THEN "dirty" ELSE blocks[b]

\* An access round the cache drops the copy of its block first, unless the address
\* or a fault keeps it from that.
Drops(w, do) ==
  /\ w = "high" => hart.fault = "bypass_evicts"
  /\ do = "load" => hart.fault # "load_bypasses"
  /\ do = "store" => hart.fault # "store_bypasses"

\* What memory holds then, before the access itself
Brought(w, do, x) ==
  IF /\ Drops(w, do)
     /\ Caching!Block(x) = Caching!Block(Caching!Cell(w))
     /\ blocks[Caching!Block(x)] = "dirty"
     /\ hart.fault # "no_writeback" /\ hart.loses # x
  THEN line[x] ELSE dram[x]

Bypassed(w, do, v) ==
  /\ CacheTyped' /\ UNCHANGED <<dcache_mode, icache, line>>
  /\ \A x \in Caching!Words :
       dram'[x] = IF do = "store" /\ x = Caching!Cell(w) THEN v ELSE Brought(w, do, x)
  /\ IF do = "load" /\ Brought(w, do, Caching!Cell(w)) # v
     THEN finish' = "fail" /\ at' = at
     ELSE at' = at + 1 /\ finish' = finish
  /\ \A b \in Caching!Blocks :
       blocks'[b] = IF Drops(w, do) /\ b = Caching!Block(Caching!Cell(w))
                    THEN "invalid" ELSE blocks[b]

\* CachedAccess as a load
LEMMA CachedLoads ==
  ASSUME CacheTyped, hart' = hart, NEW w \in Caching!Words, NEW v,
         Caching!Op = Caching!Load(w, v), Caching!CachedAccess
  PROVE  Loaded(w, v)
<1> DEFINE b == Caching!Block(w)
           filled == [x \in Caching!Words |->
                        IF Caching!Block(x) = b /\ blocks[b] = "invalid"
                        THEN dram[x] ELSE line[x]]
<1>1. Caching!Op.w = w /\ Caching!Op.v = v /\ Caching!Op.do = "load"
  BY DEF Caching!Load
<1>2. /\ line' = filled
      /\ blocks' = [blocks EXCEPT ![b] = IF @ = "invalid" THEN "clean" ELSE @]
      /\ Caching!Judge(filled[w] = v)
      /\ UNCHANGED <<dcache_mode, dram, icache>>
  BY <1>1 DEF Caching!CachedAccess
<1>3. \A x \in Caching!Words :
        Caching!Block(x)' = Caching!Block(x) /\ Caching!Block(x) \in Caching!Blocks
  BY BlocksOfWords DEF CacheTyped, Caching!Block
<1>4. filled[w] = Seen(w)
  BY DEF Seen
<1>5. \A c \in Caching!Blocks :
        blocks'[c] = IF c = b /\ blocks[c] = "invalid" THEN "clean" ELSE blocks[c]
  BY <1>2 DEF CacheTyped
<1>6. CacheTyped'
  BY <1>2, <1>3 DEF CacheTyped
<1> HIDE DEF b
<1>7. \A x \in Caching!Words : Seen(x)' = Seen(x)
  <2> TAKE x \in Caching!Words
  <2>1. /\ line'[x] = IF Caching!Block(x) = b /\ blocks[b] = "invalid"
                      THEN dram[x] ELSE line[x]
        /\ dram'[x] = dram[x]
        /\ blocks'[Caching!Block(x)] =
             IF Caching!Block(x) = b /\ blocks[Caching!Block(x)] = "invalid"
             THEN "clean" ELSE blocks[Caching!Block(x)]
    BY <1>2, <1>3, <1>5
  <2>2. Seen(x)' = IF blocks'[Caching!Block(x)] = "invalid" THEN dram'[x] ELSE line'[x]
    BY <1>3 DEF Seen
  <2> QED
    BY <2>1, <2>2 DEF Seen
<1> QED
  BY <1>2, <1>4, <1>5, <1>6, <1>7 DEF b, Caching!Judge, Loaded

\* CachedAccess as a store
LEMMA CachedStores ==
  ASSUME CacheTyped, hart' = hart, NEW w \in Caching!Words, NEW v,
         Caching!Op = Caching!Store(w, v), Caching!CachedAccess
  PROVE  Stored(w, v)
<1> DEFINE b == Caching!Block(w)
           filled == [x \in Caching!Words |->
                        IF Caching!Block(x) = b /\ blocks[b] = "invalid"
                        THEN dram[x] ELSE line[x]]
<1>1. Caching!Op.w = w /\ Caching!Op.v = v /\ Caching!Op.do = "store"
  BY DEF Caching!Store
<1>2. /\ line' = [filled EXCEPT ![w] = v]
      /\ blocks' = [blocks EXCEPT ![b] = "dirty"]
      /\ at' = at + 1
      /\ UNCHANGED <<finish, dcache_mode, dram, icache>>
  BY <1>1 DEF Caching!CachedAccess, Caching!Judge
<1>3. \A x \in Caching!Words :
        Caching!Block(x)' = Caching!Block(x) /\ Caching!Block(x) \in Caching!Blocks
  BY BlocksOfWords DEF CacheTyped, Caching!Block
<1>5. \A c \in Caching!Blocks : blocks'[c] = IF c = b THEN "dirty" ELSE blocks[c]
  BY <1>2 DEF CacheTyped
<1>6. CacheTyped'
  BY <1>2, <1>3 DEF CacheTyped
<1> HIDE DEF b
<1>7. \A x \in Caching!Words : Seen(x)' = IF x = w THEN v ELSE Seen(x)
  <2> TAKE x \in Caching!Words
  <2>1. /\ line'[x] = IF x = w THEN v
                      ELSE IF Caching!Block(x) = b /\ blocks[b] = "invalid"
                      THEN dram[x] ELSE line[x]
        /\ dram'[x] = dram[x]
        /\ blocks'[Caching!Block(x)] =
             IF Caching!Block(x) = b THEN "dirty" ELSE blocks[Caching!Block(x)]
    BY <1>2, <1>3, <1>5
  <2>2. Seen(x)' = IF blocks'[Caching!Block(x)] = "invalid" THEN dram'[x] ELSE line'[x]
    BY <1>3 DEF Seen
  <2>3. Caching!Block(w) = b
    BY DEF b
  <2> QED
    BY <2>1, <2>2, <2>3 DEF Seen
<1> QED
  BY <1>2, <1>5, <1>6, <1>7 DEF b, Stored

\* UncachedAccess
LEMMA UncachedAccesses ==
  ASSUME CacheTyped, hart' = hart, NEW w \in Caching!Words, NEW v, NEW do \in {"load", "store"},
         Caching!Op.w = w, Caching!Op.v = v, Caching!Op.do = do, Caching!UncachedAccess
  PROVE  Bypassed(w, do, v)
<1> DEFINE c == Caching!Cell(w)
           ignores == \/ w = "high" /\ hart.fault # "bypass_evicts"
                      \/ do = "load" /\ hart.fault = "load_bypasses"
                      \/ do = "store" /\ hart.fault = "store_bypasses"
           before1 == IF ignores THEN dram ELSE Caching!WrittenBack({Caching!Block(c)})
<1>1. /\ blocks' = IF ignores THEN blocks ELSE [blocks EXCEPT ![Caching!Block(c)] = "invalid"]
      /\ IF do = "load" THEN dram' = before1 /\ Caching!Judge(before1[c] = v)
         ELSE dram' = [before1 EXCEPT ![c] = v] /\ Caching!Judge(TRUE)
      /\ UNCHANGED <<dcache_mode, line, icache>>
  BY Zenon DEF Caching!UncachedAccess
<1>2. ignores <=> ~Drops(w, do)
  BY DEF Drops
<1>3. c \in Caching!Words
  BY BlocksOfWords DEF CacheTyped, Caching!Cell
<1>4. before1 = [x \in Caching!Words |-> Brought(w, do, x)]
  <2>1. CASE ignores
    BY <1>2, <2>1 DEF Brought, CacheTyped
  <2>2. CASE ~ignores
    BY <1>2, <2>2 DEF Brought, Caching!WrittenBack
  <2> QED
    BY <2>1, <2>2
<1> HIDE DEF c, ignores, before1
<1>5. \A x \in Caching!Words :
        Caching!Block(x)' = Caching!Block(x) /\ Caching!Block(x) \in Caching!Blocks
  BY BlocksOfWords DEF CacheTyped, Caching!Block
<1>6. \A x \in Caching!Words :
        dram'[x] = IF do = "store" /\ x = c THEN v ELSE Brought(w, do, x)
  BY <1>1, <1>3, <1>4
<1>7. \A b \in Caching!Blocks :
        blocks'[b] = IF Drops(w, do) /\ b = Caching!Block(c) THEN "invalid" ELSE blocks[b]
  BY <1>1, <1>2 DEF CacheTyped
<1>8. CacheTyped'
  BY <1>1, <1>3, <1>4, <1>5 DEF CacheTyped
<1>9. IF do = "load" /\ Brought(w, do, c) # v THEN finish' = "fail" /\ at' = at
      ELSE at' = at + 1 /\ finish' = finish
  BY <1>1, <1>3, <1>4 DEF Caching!Judge
<1> QED
  BY <1>1, <1>5, <1>6, <1>7, <1>8, <1>9 DEF c, Bypassed

\* What an instruction of each kind does
LEMMA CacheInstructions ==
  ASSUME finish = "none", at \in 1 .. Len(Caching!Program[test]), Caching!HartStep
  PROVE  /\ Caching!Op.do = "mode" =>
              /\ dcache_mode' = Caching!Op.cached /\ at' = at + 1
              /\ UNCHANGED <<finish, blocks, line, dram, icache>>
         /\ Caching!Op.do \in {"load", "store"} =>
              IF dcache_mode /\ Caching!Op.w # "high"
              THEN Caching!CachedAccess ELSE Caching!UncachedAccess
         /\ Caching!Op.do = "fence_i" => Caching!SynchroniseFetch
         /\ Caching!Op.do = "call" => Caching!Execute
<1>1. ~Caching!Pass
  <2>1. Len(Caching!Program[test]) \in Int \/ at # Len(Caching!Program[test]) + 1
    OBVIOUS
  <2>2. at # Len(Caching!Program[test]) + 1
    OBVIOUS
  <2> QED
    BY <2>2 DEF Caching!Pass
<1> QED
  BY <1>1
  DEF Caching!HartStep, Caching!SwitchMode, Caching!CachedAccess, Caching!UncachedAccess,
      Caching!SynchroniseFetch, Caching!Execute, Caching!Doing, Caching!Cached

\* After the last instruction there is only the verdict.
LEMMA Verdict ==
  ASSUME finish = "none", at = Len(Caching!Program[test]) + 1,
         Len(Caching!Program[test]) \in Nat, Caching!HartStep
  PROVE  finish' = "pass" /\ UNCHANGED <<at, dcache_mode, blocks, line, dram, icache>>
<1>1. ~Caching!Running
  BY DEF Caching!Running
<1> QED
  BY <1>1
  DEF Caching!HartStep, Caching!SwitchMode, Caching!CachedAccess, Caching!UncachedAccess,
      Caching!SynchroniseFetch, Caching!Execute, Caching!Doing, Caching!Pass

\* Switching the cache on or off changes nothing else.
LEMMA ModeSwitches ==
  ASSUME CacheTyped, hart' = hart, NEW m \in BOOLEAN, Caching!Op = Caching!SetMode(m),
         finish = "none", at \in 1 .. Len(Caching!Program[test]), Caching!HartStep
  PROVE  Switched(m)
<1>1. Caching!Op.do = "mode" /\ Caching!Op.cached = m
  BY DEF Caching!SetMode
<1>2. /\ dcache_mode' = m /\ at' = at + 1
      /\ UNCHANGED <<finish, blocks, line, dram, icache>>
  BY <1>1, CacheInstructions
<1>3. CacheTyped'
  BY <1>2 DEF CacheTyped
<1>4. \A x : Seen(x)' = Seen(x)
  BY <1>2 DEF Seen, Caching!Block
<1> QED
  BY <1>2, <1>3, <1>4 DEF Switched

\* A load or a store goes through the cache or round it.
LEMMA Accesses ==
  ASSUME CacheTyped, hart' = hart, finish = "none",
         at \in 1 .. Len(Caching!Program[test]), Caching!HartStep,
         NEW w \in Caching!Words, NEW v, NEW do \in {"load", "store"},
         Caching!Op = [do |-> do, w |-> w, v |-> v]
  PROVE  IF dcache_mode /\ w # "high"
         THEN IF do = "load" THEN Loaded(w, v) ELSE Stored(w, v)
         ELSE Bypassed(w, do, v)
<1>1. Caching!Op.do = do /\ Caching!Op.w = w /\ Caching!Op.v = v
  OBVIOUS
<1>2. CASE dcache_mode /\ w # "high"
  <2>1. Caching!CachedAccess
    BY <1>1, <1>2, CacheInstructions
  <2>2. CASE do = "load"
    BY <2>1, <2>2, <1>2, CachedLoads DEF Caching!Load
  <2>3. CASE do = "store"
    BY <2>1, <2>3, <1>2, CachedStores DEF Caching!Store
  <2> QED
    BY <1>2, <2>2, <2>3
<1>3. CASE ~(dcache_mode /\ w # "high")
  <2>1. Caching!UncachedAccess
    BY <1>1, <1>3, CacheInstructions
  <2>2. Bypassed(w, do, v)
    BY <1>1, <2>1, UncachedAccesses
  <2> QED
    BY <1>3, <2>2
<1> QED
  BY <1>2, <1>3

\* Only a program that has not ended goes on.
LEMMA StillRunning ==
  ASSUME Caching!HartStep PROVE finish = "none"
BY DEF Caching!HartStep, Caching!SwitchMode, Caching!CachedAccess, Caching!UncachedAccess,
       Caching!SynchroniseFetch, Caching!Execute, Caching!Doing, Caching!Running,
       Caching!Pass

-----------------------------------------------------------------------------
(* uncached_mode.c *)

\* What holds before each instruction of uncached_mode.c holds before the next.
LEMMA UncachedKeeps ==
  ASSUME test = "uncached_mode", CacheTyped, UncachedInv, hart' = hart, Caching!HartStep
  PROVE  CacheTyped' /\ UncachedInv'
<1> DEFINE s == Caching!uncached_mode
<1>1. Caching!Program[test] = s /\ Caching!Op = s[at] /\ Len(s) = 33
  BY UncachedPath DEF Caching!Program, Caching!Op
<1>2. finish = "none"
  BY StillRunning
<1>3. at \in 1 .. 34 /\ (dcache_mode <=> ModeBefore(at))
  BY <1>2 DEF UncachedInv
<1>4. /\ \A x : Caching!Block(x)' = Caching!Block(x)
      /\ \A k : Check(k)' = Check(k)
      /\ StackKept' <=> StackKept
  BY DEF Caching!Block, Check, StackKept
<1>5. /\ "access" \in Caching!Words /\ Caching!Block("access") = "frame1"
      /\ \A k \in 1 .. 9 : Check(k) \in Caching!Words /\ Check(k) # "access"
      /\ \A k \in 1 .. 9 :
           Caching!Block(Check(k)) = IF k <= hart.split THEN "frame2" ELSE "frame1"
      /\ hart.split \in 0 .. 9
      /\ "frame1" \in Caching!Blocks /\ "frame2" \in Caching!Blocks
      /\ \A x \in Caching!Words : Caching!Block(x) \in Caching!Blocks
  BY BlocksOfWords, CheckWords DEF CacheTyped, Caching!Blocks
<1>6. hart.loses # "nothing" => hart.fault = "none"
  BY DEF CacheTyped, Caching!Harts
<1>7. hart.loses \in {"nothing", "access", "c2", "c5", "c9"}
  BY DEF CacheTyped, Caching!Harts
<1> HIDE DEF s
\* an instruction that switches the cache
<1>10. ASSUME NEW m \in BOOLEAN, at \in 1 .. 33, s[at] = Caching!SetMode(m)
       PROVE  Switched(m)
  BY <1>1, <1>2, <1>10, ModeSwitches
\* a store through the cache
<1>11. ASSUME NEW w \in Caching!Words, NEW v, w # "high",
              at \in 1 .. 33, s[at] = Caching!Store(w, v), dcache_mode
       PROVE  Stored(w, v)
  <2>1. Caching!Op = [do |-> "store", w |-> w, v |-> v] /\ "store" \in {"load", "store"}
    BY <1>1, <1>11 DEF Caching!Store
  <2> QED
    BY <1>1, <1>2, <1>11, <2>1, Accesses
\* a load through the cache
<1>12. ASSUME NEW w \in Caching!Words, NEW v, w # "high",
              at \in 1 .. 33, s[at] = Caching!Load(w, v), dcache_mode
       PROVE  Loaded(w, v)
  <2>1. Caching!Op = [do |-> "load", w |-> w, v |-> v] /\ "load" \in {"load", "store"}
    BY <1>1, <1>12 DEF Caching!Load
  <2> QED
    BY <1>1, <1>2, <1>12, <2>1, Accesses
\* an access round the cache
<1>13. ASSUME NEW w \in Caching!Words, NEW v, NEW do \in {"load", "store"}, w # "high",
              at \in 1 .. 33, s[at] = [do |-> do, w |-> w, v |-> v], ~dcache_mode
       PROVE  Bypassed(w, do, v) /\ Caching!Cell(w) = w
  <2>1. Caching!Cell(w) = w
    BY <1>13 DEF Caching!Cell
  <2>2. Bypassed(w, do, v)
    BY <1>1, <1>2, <1>13, Accesses
  <2> QED
    BY <2>1, <2>2
<1>20. CASE at \in {1, 3, 7, 9, 20, 23}
  <2>1. ASSUME NEW m \in BOOLEAN, m <=> at \in {3, 9, 23}, Switched(m)
        PROVE  CacheTyped' /\ UncachedInv'
    <3>1. /\ CacheTyped' /\ dcache_mode' = m /\ at' = at + 1 /\ finish' = "none"
          /\ UNCHANGED <<blocks, line, dram>>
          /\ \A x : Seen(x)' = Seen(x)
      BY <1>2, <2>1 DEF Switched
    <3>2. dcache_mode' <=> ModeBefore(at')
      BY <1>20, <2>1, <3>1 DEF ModeBefore
    <3> QED
      BY <1>2, <1>4, <1>20, <3>1, <3>2 DEF UncachedInv
  <2>2. CASE at \in {3, 9, 23}
    <3>1. s[at] = Caching!SetMode(TRUE)
      BY <2>2, UncachedPath DEF s
    <3>2. Switched(TRUE)
      <4>1. at \in 1 .. 33 /\ TRUE \in BOOLEAN
        BY <2>2
      <4> QED
        BY <3>1, <4>1, <1>10, Zenon
    <3>3. TRUE <=> at \in {3, 9, 23}
      BY <2>2
    <3>4. TRUE \in BOOLEAN
      OBVIOUS
    <3> QED
      BY <2>1, <3>2, <3>3, <3>4, Zenon
  <2>3. CASE at \in {1, 7, 20}
    <3>1. s[at] = Caching!SetMode(FALSE)
      BY <2>3, UncachedPath DEF s
    <3>2. Switched(FALSE)
      <4>1. at \in 1 .. 33 /\ FALSE \in BOOLEAN
        BY <2>3
      <4> QED
        BY <3>1, <4>1, <1>10, Zenon
    <3>3. FALSE <=> at \in {3, 9, 23}
      BY <2>3
    <3>4. FALSE \in BOOLEAN
      OBVIOUS
    <3> QED
      BY <2>1, <3>2, <3>3, <3>4, Zenon
  <2> QED
    BY <1>20, <2>2, <2>3
<1>21. CASE at \in {5, 11, 24}
  <2> DEFINE v == IF at = 5 THEN 112 ELSE IF at = 11 THEN 96 ELSE 80
  <2>1. s[at] = Caching!Store("access", v)
    BY <1>21, UncachedPath DEF s
  <2> HIDE DEF v
  <2>2. dcache_mode
    BY <1>3, <1>21 DEF ModeBefore
  <2>3. Stored("access", v)
    BY <2>1, <2>2, <1>5, <1>11, <1>21
  <2>4. /\ CacheTyped' /\ at' = at + 1 /\ finish' = "none" /\ UNCHANGED <<dcache_mode, dram>>
        /\ Seen("access")' = v
        /\ \A k \in 1 .. 9 : Seen(Check(k))' = Seen(Check(k))
        /\ \A b \in Caching!Blocks : blocks'[b] = IF b = "frame1" THEN "dirty" ELSE blocks[b]
    BY <1>2, <1>5, <2>3 DEF Stored
  <2>5. dcache_mode' <=> ModeBefore(at')
    BY <1>21, <2>2, <2>4 DEF ModeBefore
  <2> QED
    BY <1>2, <1>4, <1>5, <1>21, <2>4, <2>5, CheckWords DEF UncachedInv, v
<1>22. CASE at \in 12 .. 19
  <2> DEFINE j == at - 11
  <2>1. j \in 1 .. 8 /\ at = 11 + j
    BY <1>22
  <2>2. s[at] = Caching!Store(Check(j), 64)
    BY <2>1, UncachedPath DEF s
  <2>3. dcache_mode /\ Check(j) # "high"
    BY <1>3, <1>22, <2>1, CheckWords DEF ModeBefore
  <2> HIDE DEF j
  <2>7. Stored(Check(j), 64)
    BY <2>1, <2>2, <2>3, <1>5, <1>11, <1>22
  <2>4. /\ CacheTyped' /\ at' = at + 1 /\ finish' = "none" /\ UNCHANGED <<dcache_mode, dram>>
        /\ Seen("access")' = Seen("access")
        /\ \A k \in 1 .. 9 :
             Seen(Check(k))' = IF k = j THEN 64 ELSE Seen(Check(k))
        /\ \A b \in Caching!Blocks :
             blocks'[b] = IF b = Caching!Block(Check(j)) THEN "dirty" ELSE blocks[b]
    BY <1>2, <1>5, <2>1, <2>7, CheckWords DEF Stored
  <2>5. dcache_mode' <=> ModeBefore(at')
    BY <1>22, <2>3, <2>4 DEF ModeBefore
  <2>6. \A k \in 1 .. 8 : k < at' - 11 => k = j \/ k < at - 11
    BY <2>1, <2>4, <1>22
  <2> QED
    BY <1>2, <1>4, <1>5, <1>22, <2>1, <2>4, <2>5, <2>6, CheckWords DEF UncachedInv
<1>23. CASE at \in {4, 6, 10, 26}
  <2> DEFINE v == IF at = 4 THEN 128 ELSE IF at = 6 THEN 112 ELSE IF at = 10 THEN 144 ELSE 80
  <2>1. s[at] = Caching!Load("access", v)
    BY <1>23, UncachedPath DEF s
  <2> HIDE DEF v
  <2>2. dcache_mode
    BY <1>3, <1>23 DEF ModeBefore
  <2>5. Loaded("access", v)
    BY <2>1, <2>2, <1>5, <1>12, <1>23
  <2>3. /\ CacheTyped' /\ UNCHANGED <<dcache_mode, dram>>
        /\ IF Seen("access") = v THEN at' = at + 1 /\ finish' = "none"
           ELSE finish' = "fail" /\ at' = at
        /\ \A x \in Caching!Words : Seen(x)' = Seen(x)
        /\ \A b \in Caching!Blocks :
             blocks'[b] = IF b = "frame1" /\ blocks[b] = "invalid" THEN "clean" ELSE blocks[b]
    BY <1>2, <1>5, <2>5 DEF Loaded
  <2>4. dcache_mode' <=> ModeBefore(at')
    BY <1>23, <2>2, <2>3 DEF ModeBefore
  <2> QED
    BY <1>2, <1>4, <1>5, <1>23, <2>3, <2>4, CheckWords DEF UncachedInv, StackKept, v
<1>24. CASE at \in {2, 8}
  <2> DEFINE v == IF at = 2 THEN 128 ELSE 144
  <2>1. s[at] = [do |-> "store", w |-> "access", v |-> v]
    BY <1>24, UncachedPath DEF s, Caching!Store
  <2> HIDE DEF v
  <2>2. ~dcache_mode
    BY <1>3, <1>24 DEF ModeBefore
  <2>11. Bypassed("access", "store", v) /\ Caching!Cell("access") = "access"
    <3>1. /\ "access" \in Caching!Words /\ "access" # "high" /\ "store" \in {"load", "store"}
          /\ at \in 1 .. 33
      BY <1>5, <1>24
    <3> QED
      BY <2>1, <2>2, <3>1, <1>13, Zenon
  <2>3. /\ CacheTyped' /\ UNCHANGED <<dcache_mode, line>> /\ at' = at + 1 /\ finish' = "none"
        /\ \A x \in Caching!Words :
             dram'[x] = IF x = "access" THEN v ELSE Brought("access", "store", x)
        /\ \A b \in Caching!Blocks :
             blocks'[b] = IF Drops("access", "store") /\ b = "frame1"
                          THEN "invalid" ELSE blocks[b]
    BY <1>2, <1>5, <2>11 DEF Bypassed
  <2>4. dcache_mode' <=> ModeBefore(at')
    BY <1>24, <2>2, <2>3 DEF ModeBefore
  <2>5. hart.loses = "c2" => dram'["c2"] = 0
    <3>1. "c2" = Check(2) /\ "c2" \in Caching!Words /\ "c2" # "access"
      BY CheckWords
    <3>2. hart.loses = "c2" => dram["c2"] = 0
      BY <1>2 DEF UncachedInv
    <3> QED
      BY <2>3, <3>1, <3>2 DEF Brought
  <2>6. Drops("access", "store") <=> hart.fault # "store_bypasses"
    BY DEF Drops
  <2>7. dram'["access"] = v
    BY <2>3, <1>5
  <2>8. Seen("access")' = IF blocks'["frame1"] = "invalid" THEN v ELSE line["access"]
    BY <2>3, <2>7, <1>4, <1>5 DEF Seen
  <2>9. CASE at = 2
    BY <1>2, <1>4, <1>5, <2>3, <2>4, <2>5, <2>6, <2>8, <2>9 DEF UncachedInv, v
  <2>10. CASE at = 8
    <3>1. blocks["frame1"] = "dirty" /\ line["access"] = 112
      BY <1>2, <1>5, <2>10 DEF UncachedInv, Seen
    <3> QED
      BY <1>2, <1>4, <1>5, <2>3, <2>4, <2>5, <2>6, <2>7, <2>8, <2>10, <3>1 DEF UncachedInv, v
  <2> QED
    BY <1>24, <2>9, <2>10
<1>25. CASE at = 21
  <2>1. s[at] = [do |-> "load", w |-> "access", v |-> 96]
    BY <1>25, UncachedPath DEF s, Caching!Load
  <2>2. ~dcache_mode
    BY <1>3, <1>25 DEF ModeBefore
  <2>9. Bypassed("access", "load", 96) /\ Caching!Cell("access") = "access"
    <3>1. /\ "access" \in Caching!Words /\ "access" # "high" /\ "load" \in {"load", "store"}
          /\ at \in 1 .. 33
      BY <1>5, <1>25
    <3> QED
      BY <2>1, <2>2, <3>1, <1>13, Zenon
  <2>3. /\ CacheTyped' /\ UNCHANGED <<dcache_mode, line>>
        /\ \A x \in Caching!Words : dram'[x] = Brought("access", "load", x)
        /\ IF Brought("access", "load", "access") # 96 THEN finish' = "fail" /\ at' = at
           ELSE at' = at + 1 /\ finish' = "none"
        /\ \A b \in Caching!Blocks :
             blocks'[b] = IF Drops("access", "load") /\ b = "frame1"
                          THEN "invalid" ELSE blocks[b]
    BY <1>2, <1>5, <2>9 DEF Bypassed
  <2>4. /\ Drops("access", "load") <=> hart.fault # "load_bypasses"
        /\ Caching!Cell("access") = "access"
    BY DEF Drops, Caching!Cell
  <2>5. /\ blocks["frame1"] = "dirty" /\ line["access"] = 96 /\ dram["access"] = 144
        /\ hart.fault # "store_bypasses"
        /\ hart.loses = "c2" => dram["c2"] = 0
        /\ \A k \in 1 .. 8 : /\ blocks[Caching!Block(Check(k))] = "dirty"
                             /\ line[Check(k)] = 64
    <3>1. \A k \in 1 .. 8 : k < at - 11
      BY <1>25
    <3> QED
      BY <1>2, <1>5, <1>25, <3>1 DEF UncachedInv, Seen
  <2>6. Brought("access", "load", "access") =
          IF hart.fault \notin {"load_bypasses", "no_writeback"} /\ hart.loses # "access"
          THEN 96 ELSE 144
    BY <2>4, <2>5, <1>5 DEF Brought
  <2>7. CASE hart.fault \in {"load_bypasses", "no_writeback"} \/ hart.loses = "access"
    BY <2>3, <2>6, <2>7, <1>4 DEF UncachedInv, StackKept
  <2>8. CASE hart.fault \notin {"load_bypasses", "no_writeback"} /\ hart.loses # "access"
    <3>1. at' = 22 /\ finish' = "none" /\ ~dcache_mode'
      BY <2>2, <2>3, <2>6, <2>8, <1>25
    <3>2. hart.loses = "c2" => dram'["c2"] = 0
      <4>1. "c2" = Check(2) /\ "c2" \in Caching!Words
        BY CheckWords
      <4> QED
        BY <2>3, <2>5, <4>1 DEF Brought
    <3>3. ASSUME NEW k \in 1 .. 8, hart.loses # Check(k) PROVE Seen(Check(k))' = 64
      <4> DEFINE b == Caching!Block(Check(k))
      <4>1. b \in Caching!Blocks /\ Check(k) \in Caching!Words
        BY <1>5
      <4>2. Seen(Check(k))' = IF blocks'[b] = "invalid" THEN dram'[Check(k)] ELSE line'[Check(k)]
        BY <1>4 DEF Seen
      <4>3. blocks[b] = "dirty" /\ line[Check(k)] = 64 /\ line' = line
        BY <2>3, <2>5
      <4>4. CASE b = "frame1"
        BY <4>1, <4>2, <4>3, <4>4, <3>3, <2>3, <2>4, <2>8, <1>5 DEF Brought
      <4>5. CASE b # "frame1"
        BY <4>1, <4>2, <4>3, <4>5, <2>3
      <4> QED
        BY <4>4, <4>5
    <3>4. blocks'["frame1"] = "invalid" /\ blocks'[Caching!Block("c1")] \in {"invalid", "dirty"}
      BY <2>3, <2>4, <2>5, <2>8, <1>5, CheckWords
    <3>5. ~ModeBefore(22)
      BY DEF ModeBefore
    <3> QED
      BY <1>4, <2>3, <2>5, <2>8, <3>1, <3>2, <3>3, <3>4, <3>5 DEF UncachedInv
  <2> QED
    BY <2>7, <2>8
<1>26. CASE at = 22
  <2>1. s[at] = [do |-> "load", w |-> Check(1), v |-> 64] /\ Check(1) # "high"
    BY <1>26, UncachedPath, CheckWords DEF s, Caching!Load
  <2>2. ~dcache_mode
    BY <1>3, <1>26 DEF ModeBefore
  <2> DEFINE b == Caching!Block(Check(1))
  <2>9. Bypassed(Check(1), "load", 64) /\ Caching!Cell(Check(1)) = Check(1)
    <3>1. /\ Check(1) \in Caching!Words /\ Check(1) # "high" /\ "load" \in {"load", "store"}
          /\ at \in 1 .. 33
      BY <1>5, <1>26, <2>1
    <3> QED
      BY <2>1, <2>2, <3>1, <1>13, Zenon
  <2>3. /\ CacheTyped' /\ UNCHANGED <<dcache_mode, line>>
        /\ \A x \in Caching!Words : dram'[x] = Brought(Check(1), "load", x)
        /\ IF Brought(Check(1), "load", Check(1)) # 64 THEN finish' = "fail" /\ at' = at
           ELSE at' = at + 1 /\ finish' = "none"
        /\ \A c \in Caching!Blocks :
             blocks'[c] = IF Drops(Check(1), "load") /\ c = b THEN "invalid" ELSE blocks[c]
    BY <1>2, <1>5, <2>9 DEF Bypassed
  <2>4. /\ hart.fault \notin {"load_bypasses", "no_writeback", "store_bypasses"}
        /\ hart.loses # "access"
        /\ \A k \in 1 .. 8 : hart.loses # Check(k) => Seen(Check(k)) = 64
        /\ blocks["frame1"] = "invalid" /\ blocks[b] \in {"invalid", "dirty"}
        /\ hart.loses = "c2" => dram["c2"] = 0
    BY <1>2, <1>26, CheckWords DEF UncachedInv
  <2>5. /\ Drops(Check(1), "load") /\ Caching!Cell(Check(1)) = Check(1)
        /\ b \in Caching!Blocks
    BY <2>1, <2>4, <1>5 DEF Drops, Caching!Cell
  <2>6. hart.loses # Check(1)
    BY <1>7, CheckWords
  <2>8. ASSUME NEW k \in 1 .. 8, hart.loses # Check(k) PROVE Seen(Check(k))' = 64
    <3> DEFINE c == Caching!Block(Check(k))
    <3>1. c \in Caching!Blocks /\ Check(k) \in Caching!Words
      BY <1>5
    <3>2. Seen(Check(k))' = IF blocks'[c] = "invalid" THEN dram'[Check(k)] ELSE line'[Check(k)]
      BY <1>4 DEF Seen
    <3>3. Seen(Check(k)) = IF blocks[c] = "invalid" THEN dram[Check(k)] ELSE line[Check(k)]
      BY DEF Seen
    <3>4. Seen(Check(k)) = 64
      BY <2>4, <2>8
    <3> QED
      BY <3>1, <3>2, <3>3, <3>4, <2>3, <2>4, <2>5, <2>8 DEF Brought
  <2>10. finish' = "none" /\ at' = 23
    <3>1. Seen(Check(1)) = 64
      BY <2>4, <2>6
    <3>2. Brought(Check(1), "load", Check(1)) = 64
      BY <3>1, <2>4, <2>5, <2>6 DEF Brought, Seen
    <3> QED
      BY <3>2, <2>3, <1>26
  <2>11. ASSUME hart.loses = "c2" PROVE dram'["c2"] = 0 /\ Seen("c2")' = 0
    <3>1. "c2" = Check(2) /\ "c2" \in Caching!Words
      BY CheckWords
    <3>2. dram'["c2"] = 0
      BY <3>1, <2>3, <2>4, <2>11 DEF Brought
    <3>3. Caching!Block("c2") = "frame1" \/ Caching!Block("c2") = b
      BY <1>5, <3>1
    <3>4. blocks'[Caching!Block("c2")] = "invalid"
      BY <3>3, <2>3, <2>4, <2>5, <1>5
    <3> QED
      BY <3>2, <3>4, <1>4 DEF Seen
  <2>12. ~ModeBefore(23) /\ ~dcache_mode'
    BY <2>2, <2>3 DEF ModeBefore
  <2> QED
    BY <1>4, <2>3, <2>4, <2>8, <2>10, <2>11, <2>12 DEF UncachedInv
<1>27. CASE at = 25
  <2>1. s[at] = Caching!Store(Check(9), 64) /\ Check(9) # "high" /\ Check(9) = "c9"
    BY <1>27, UncachedPath, CheckWords DEF s
  <2>2. dcache_mode
    BY <1>3, <1>27 DEF ModeBefore
  <2>3. Stored(Check(9), 64)
    BY <2>1, <2>2, <1>5, <1>11, <1>27
  <2>4. /\ CacheTyped' /\ at' = at + 1 /\ finish' = "none" /\ UNCHANGED <<dcache_mode, dram>>
        /\ Seen("access")' = Seen("access")
        /\ \A k \in 1 .. 9 : Seen(Check(k))' = IF k = 9 THEN 64 ELSE Seen(Check(k))
    BY <1>2, <1>5, <2>3, CheckWords DEF Stored
  <2>5. dcache_mode' <=> ModeBefore(at')
    BY <1>27, <2>2, <2>4 DEF ModeBefore
  <2>6. Seen("c9")' = 64 /\ Seen("c2")' = Seen("c2")
    BY <2>4, CheckWords
  <2> QED
    BY <1>2, <1>4, <1>27, <2>4, <2>5, <2>6 DEF UncachedInv
<1>28. CASE at \in 27 .. 33
  <2> DEFINE j == at - 26
             m == IF j <= 3 THEN j + 1 ELSE j + 2
             w == Check(m)
  <2>1. j \in 1 .. 7 /\ at = 26 + j /\ m \in {2, 3, 4, 6, 7, 8, 9} /\ (m = 2 <=> at = 27)
    BY <1>28
  <2>2. s[at] = Caching!Load(w, 64)
    BY <2>1, UncachedPath DEF s, CheckLoaded
  <2> HIDE DEF j, m
  <2>3. dcache_mode /\ w # "high" /\ w \in Caching!Words
    BY <1>3, <1>5, <1>28, <2>1, CheckWords DEF ModeBefore
  <2>4. Loaded(w, 64)
    BY <2>2, <2>3, <1>12, <1>28
  <2>5. /\ CacheTyped' /\ UNCHANGED <<dcache_mode, dram>>
        /\ IF Seen(w) = 64 THEN at' = at + 1 /\ finish' = "none"
           ELSE finish' = "fail" /\ at' = at
        /\ \A x \in Caching!Words : Seen(x)' = Seen(x)
    BY <1>2, <2>4 DEF Loaded
  <2>6. dcache_mode' <=> ModeBefore(at')
    BY <1>28, <2>3, <2>5 DEF ModeBefore
  <2>7. /\ hart.fault \notin {"load_bypasses", "no_writeback", "store_bypasses"}
        /\ hart.loses # "access"
        /\ \A k \in 1 .. 8 : hart.loses # Check(k) => Seen(Check(k)) = 64
        /\ hart.loses = "c2" => Seen("c2") = 0 /\ dram["c2"] = 0 /\ at = 27
        /\ Seen("c9") = 64 /\ Seen("access") = 80
    BY <1>2, <1>28 DEF UncachedInv
  <2>8. Seen(w) = IF hart.loses = "c2" THEN 0 ELSE 64
    <3>1. CASE m = 2
      BY <3>1, <2>1, <2>7, CheckWords
    <3>2. CASE m = 9
      <4>1. hart.loses # "c2"
        BY <3>2, <2>1, <2>7
      <4> QED
        BY <4>1, <3>2, <2>7, CheckWords
    <3>3. CASE m \in {3, 4, 6, 7, 8}
      <4>1. hart.loses # "c2" /\ m \in 1 .. 8
        BY <3>3, <2>1, <2>7
      <4>2. hart.loses # Check(m)
        BY <3>3, <1>7, CheckWords
      <4> QED
        BY <4>1, <4>2, <2>7
    <3> QED
      BY <2>1, <3>1, <3>2, <3>3
  <2>9. CASE hart.loses = "c2"
    BY <2>5, <2>8, <2>9, <1>4 DEF UncachedInv, StackKept
  <2>10. CASE hart.loses # "c2"
    <3>1. /\ at' = at + 1 /\ finish' = "none"
          /\ Seen("access")' = 80 /\ Seen("c9")' = 64
          /\ \A k \in 1 .. 8 : hart.loses # Check(k) => Seen(Check(k))' = 64
      BY <2>5, <2>7, <2>8, <2>10, <1>5, CheckWords
    <3> QED
      BY <1>4, <1>28, <2>5, <2>6, <2>7, <2>10, <3>1 DEF UncachedInv
  <2> QED
    BY <2>9, <2>10
<1>29. CASE at = 34
  <2>1. finish' = "pass" /\ UNCHANGED <<at, dcache_mode, blocks, line, dram, icache>>
    BY <1>1, <1>2, <1>29, Verdict
  <2>2. StackKept
    BY <1>2, <1>29 DEF UncachedInv, StackKept
  <2>3. CacheTyped'
    BY <2>1 DEF CacheTyped
  <2> QED
    BY <2>1, <2>2, <2>3, <1>4 DEF UncachedInv
<1> QED
  BY <1>3, <1>20, <1>21, <1>22, <1>23, <1>24, <1>25, <1>26, <1>27, <1>28, <1>29

-----------------------------------------------------------------------------
(* l2_uncached.c and high_dram_alias.c *)

\* Where the two addresses are
LEMMA HighAndLow ==
  ASSUME CacheTyped, hart' = hart
  PROVE  /\ "low" \in Caching!Words /\ "high" \in Caching!Words
         /\ "dram" \in Caching!Blocks /\ "frame1" \in Caching!Blocks
         /\ Caching!Block("low") = "dram" /\ Caching!Block("high") = "frame1"
         /\ Caching!Block("low")' = "dram" /\ Caching!Block("high")' = "frame1"
         /\ Caching!Cell("low") = "low"
         /\ Caching!Cell("high") = IF hart.alias THEN "low" ELSE "high"
         /\ Caching!Cell("high")' = Caching!Cell("high")
<1>1. \A x : Caching!Block(x)' = Caching!Block(x)
  BY DEF Caching!Block
<1> QED
  BY <1>1, BlocksOfWords DEF CacheTyped, Caching!Cell, Caching!Blocks

\* So it does for l2_uncached.c
LEMMA BypassKeeps ==
  ASSUME test = "l2_uncached", CacheTyped, BypassInv, hart' = hart, Caching!HartStep
  PROVE  CacheTyped' /\ BypassInv'
<1> DEFINE s == Caching!l2_uncached
<1>1. Caching!Program[test] = s /\ Caching!Op = s[at] /\ Len(s) = 7
  BY ShortPaths DEF Caching!Program, Caching!Op
<1>2. finish = "none"
  BY StillRunning
<1>3. at \in 1 .. 8 /\ dcache_mode /\ dcache_mode \in BOOLEAN
  BY <1>2 DEF BypassInv, CacheTyped
<1> DEFINE w == IF at \in {3, 4, 6} THEN "low" ELSE "high"
           do == IF at \in {1, 4, 5} THEN "store" ELSE "load"
           v == IF at \in {5, 7} THEN 48879 ELSE 57005
           c == Caching!Cell("high")
<1>4. ASSUME at # 8
      PROVE  IF w = "low" THEN IF do = "load" THEN Loaded(w, v) ELSE Stored(w, v)
             ELSE Bypassed(w, do, v)
  <2>1. at \in 1 .. 7
    BY <1>3, <1>4
  <2>2. s[at] = [do |-> do, w |-> w, v |-> v]
    <3>1. at = 1 \/ at = 2 \/ at = 3 \/ at = 4 \/ at = 5 \/ at = 6 \/ at = 7
      BY <2>1
    <3> QED
      BY <3>1, ShortPaths DEF Caching!Load, Caching!Store
  <2>3. w \in Caching!Words /\ do \in {"load", "store"} /\ (w # "high" <=> w = "low")
    BY HighAndLow
  <2> HIDE DEF s, w, do, v
  <2> QED
    BY <1>1, <1>2, <1>3, <2>1, <2>2, <2>3, Accesses
<1> HIDE DEF s, c
<1>5. /\ \A do1 : Drops("high", do1) => hart.fault = "bypass_evicts"
      /\ Drops("high", "store") <=> hart.fault = "bypass_evicts"
      /\ Drops("high", "load") <=> hart.fault = "bypass_evicts"
  BY DEF Drops
<1>6. /\ "low" \in Caching!Words /\ "dram" \in Caching!Blocks
      /\ c = (IF hart.alias THEN "low" ELSE "high")
      /\ Caching!Block("low") = "dram" /\ Caching!Block("high") = "frame1"
      /\ Seen("low") = IF blocks["dram"] = "invalid" THEN dram["low"] ELSE line["low"]
      /\ Seen("low")' = IF blocks'["dram"] = "invalid" THEN dram'["low"] ELSE line'["low"]
  BY HighAndLow DEF Seen, c
\* an access round the cache
<1>7. ASSUME at \in {1, 2, 5, 7}
      PROVE  /\ CacheTyped' /\ UNCHANGED <<dcache_mode, line>>
             /\ dram'["low"] = IF do = "store" /\ hart.alias THEN v
                               ELSE Brought("high", do, "low")
             /\ IF do = "load" /\ Brought("high", do, c) # v
                THEN finish' = "fail" /\ at' = at
                ELSE at' = at + 1 /\ finish' = "none"
             /\ blocks'["dram"] = IF hart.fault = "bypass_evicts" /\ hart.alias
                                  THEN "invalid" ELSE blocks["dram"]
  <2>1. Bypassed("high", do, v)
    BY <1>4, <1>7
  <2> HIDE DEF do, v
  <2>2. do \in {"load", "store"}
    BY DEF do
  <2>3. Drops("high", do) <=> hart.fault = "bypass_evicts"
    BY <1>5, <2>2
  <2> QED
    BY <1>2, <1>6, <2>1, <2>3 DEF Bypassed, c
<1>8. Brought("high", do, "low") =
        IF /\ hart.fault = "bypass_evicts" /\ hart.alias /\ blocks["dram"] = "dirty"
           /\ hart.loses # "low"
        THEN line["low"] ELSE dram["low"]
  <2>1. Drops("high", do) <=> hart.fault = "bypass_evicts"
    BY <1>5
  <2> HIDE DEF do
  <2> QED
    BY <1>6, <2>1 DEF Brought, c
<1>10. CASE at = 1
  BY <1>2, <1>3, <1>6, <1>7, <1>8, <1>10 DEF BypassInv
<1>11. CASE at = 2
  <2>1. CASE hart.alias
    BY <1>2, <1>3, <1>6, <1>7, <1>8, <1>11, <2>1 DEF BypassInv
  <2>2. CASE ~hart.alias
    BY <1>2, <1>3, <1>6, <1>7, <1>8, <1>11, <2>2 DEF BypassInv
  <2> QED
    BY <2>1, <2>2
<1>12. CASE at \in {3, 6}
  <2>1. Loaded("low", 57005)
    BY <1>4, <1>12
  <2>2. /\ CacheTyped' /\ UNCHANGED <<dcache_mode, dram>>
        /\ IF Seen("low") = 57005 THEN at' = at + 1 /\ finish' = "none"
           ELSE finish' = "fail" /\ at' = at
        /\ Seen("low")' = Seen("low")
    BY <1>2, <1>6, <2>1 DEF Loaded
  <2> QED
    BY <1>2, <1>3, <1>6, <1>12, <2>2 DEF BypassInv
<1>13. CASE at = 4
  <2>1. Stored("low", 57005)
    BY <1>4, <1>13
  <2>2. /\ CacheTyped' /\ UNCHANGED <<dcache_mode, dram>> /\ at' = at + 1 /\ finish' = "none"
        /\ Seen("low")' = 57005 /\ blocks'["dram"] = "dirty"
    BY <1>2, <1>6, <2>1 DEF Stored
  <2> QED
    BY <1>2, <1>3, <1>13, <2>2 DEF BypassInv
<1>14. CASE at = 5
  BY <1>2, <1>3, <1>6, <1>7, <1>14 DEF BypassInv
<1>15. CASE at = 7
  <2>1. hart.alias /\ hart.fault # "bypass_evicts" /\ dram["low"] = 48879
    BY <1>2, <1>15 DEF BypassInv
  <2>2. Brought("high", do, c) = 48879
    BY <1>6, <1>8, <2>1
  <2> QED
    BY <1>3, <1>7, <1>8, <1>15, <2>1, <2>2 DEF BypassInv
<1>16. CASE at = 8
  <2>1. finish' = "pass" /\ UNCHANGED <<at, dcache_mode, blocks, line, dram, icache>>
    BY <1>1, <1>2, <1>16, Verdict
  <2>2. CacheTyped'
    BY <2>1 DEF CacheTyped
  <2> QED
    BY <1>2, <1>16, <2>1, <2>2 DEF BypassInv
<1> QED
  BY <1>3, <1>10, <1>11, <1>12, <1>13, <1>14, <1>15, <1>16

\* and for high_dram_alias.c.
LEMMA AliasKeeps ==
  ASSUME test = "high_dram_alias", CacheTyped, AliasInv, hart' = hart, Caching!HartStep
  PROVE  CacheTyped' /\ AliasInv'
<1> DEFINE s == Caching!high_dram_alias
<1>1. Caching!Program[test] = s /\ Caching!Op = s[at] /\ Len(s) = 7
  BY ShortPaths DEF Caching!Program, Caching!Op
<1>2. finish = "none"
  BY StillRunning
<1>3. at \in 1 .. 8 /\ \A b \in Caching!Blocks : blocks[b] = "invalid"
  BY <1>2 DEF AliasInv
<1> DEFINE w == IF at \in {2, 3, 6} THEN "low" ELSE "high"
           do == IF at \in {2, 4} THEN "store" ELSE "load"
           v == IF at \in {2, 3, 6} THEN 1 ELSE 2
           c == Caching!Cell("high")
<1>4. ASSUME at \in 2 .. 7 PROVE Bypassed(w, do, v)
  <2>1. s[at] = [do |-> do, w |-> w, v |-> v]
    <3>1. at = 2 \/ at = 3 \/ at = 4 \/ at = 5 \/ at = 6 \/ at = 7
      BY <1>4
    <3> QED
      BY <3>1, ShortPaths DEF Caching!Load, Caching!Store
  <2>2. w \in Caching!Words /\ do \in {"load", "store"} /\ at \in 1 .. 7
    BY <1>4, HighAndLow
  <2>3. ~dcache_mode
    BY <1>2, <1>4 DEF AliasInv
  <2> HIDE DEF s, w, do, v
  <2> QED
    BY <1>1, <1>2, <2>1, <2>2, <2>3, Accesses
<1> HIDE DEF s, c
<1>5. /\ "low" \in Caching!Words /\ "high" \in Caching!Words
      /\ c = (IF hart.alias THEN "low" ELSE "high") /\ c \in Caching!Words
      /\ Caching!Cell("low") = "low" /\ Caching!Cell("high") = c /\ Caching!Cell("high")' = c
      /\ \A x \in Caching!Words : Caching!Block(x) \in Caching!Blocks
  BY HighAndLow, BlocksOfWords DEF c, CacheTyped
<1>6. \A w1, do1 : \A x \in Caching!Words : Brought(w1, do1, x) = dram[x]
  BY <1>3, <1>5 DEF Brought
<1>7. ASSUME at \in 2 .. 7
      PROVE  /\ CacheTyped' /\ UNCHANGED dcache_mode
             /\ \A x \in Caching!Words :
                  dram'[x] = IF do = "store" /\ x = Caching!Cell(w) THEN v ELSE dram[x]
             /\ IF do = "load" /\ dram[Caching!Cell(w)] # v
                THEN finish' = "fail" /\ at' = at
                ELSE at' = at + 1 /\ finish' = "none"
             /\ \A b \in Caching!Blocks : blocks'[b] = "invalid"
  <2>1. Bypassed(w, do, v)
    BY <1>4, <1>7
  <2>2. Caching!Cell(w) \in Caching!Words
    BY <1>5
  <2> HIDE DEF w, do, v
  <2> QED
    BY <1>2, <1>3, <1>6, <2>1, <2>2 DEF Bypassed
<1>10. CASE at = 1
  <2>1. s[at] = Caching!SetMode(FALSE)
    BY <1>10, ShortPaths DEF s
  <2>2. Switched(FALSE)
    <3>1. FALSE \in BOOLEAN /\ at \in 1 .. 7
      BY <1>10
    <3> QED
      BY <1>1, <1>2, <2>1, <3>1, ModeSwitches, Zenon
  <2>3. CacheTyped' /\ ~dcache_mode' /\ at' = 2 /\ UNCHANGED <<finish, blocks, dram>>
    BY <2>2, <1>10 DEF Switched
  <2> QED
    BY <1>2, <1>3, <2>3 DEF AliasInv
<1>11. CASE at \in 2 .. 5
  <2>1. at = 2 \/ at = 3 \/ at = 4 \/ at = 5
    BY <1>11
  <2> QED
    BY <1>2, <1>5, <1>7, <2>1 DEF AliasInv
<1>12. CASE at \in {6, 7}
  BY <1>2, <1>5, <1>7, <1>12 DEF AliasInv
<1>13. CASE at = 8
  <2>1. finish' = "pass" /\ UNCHANGED <<at, dcache_mode, blocks, line, dram, icache>>
    BY <1>1, <1>2, <1>13, Verdict
  <2>2. CacheTyped'
    BY <2>1 DEF CacheTyped
  <2> QED
    BY <1>2, <1>13, <2>1, <2>2 DEF AliasInv
<1> QED
  BY <1>3, <1>10, <1>11, <1>12, <1>13

-----------------------------------------------------------------------------
(* execute_dynamic_instruction.c *)

\* A block that is dropped is written back first.
LEMMA EvictKeeps ==
  ASSUME test = "execute_dynamic_instruction", CacheTyped, DynamicInv, hart' = hart,
         Caching!Evict
  PROVE  CacheTyped' /\ DynamicInv'
<1>1. /\ finish = "none" /\ blocks["code"] # "invalid"
      /\ dram' = Caching!WrittenBack({"code"})
      /\ blocks' = [blocks EXCEPT !["code"] = "invalid"]
      /\ UNCHANGED <<finish, at, dcache_mode, line, icache>>
  BY DEF Caching!Evict, Caching!Running
<1>2. /\ "i0" \in Caching!Words /\ "i1" \in Caching!Words
      /\ Caching!Block("i0") = "code" /\ Caching!Block("i1") = "code"
      /\ Caching!Block("i0")' = "code" /\ Caching!Block("i1")' = "code"
      /\ "code" \in Caching!Blocks
  <2>1. \A x : Caching!Block(x)' = Caching!Block(x)
    BY DEF Caching!Block
  <2> QED
    BY <2>1, BlocksOfWords DEF CacheTyped, Caching!Blocks
<1>3. CacheTyped'
  BY <1>1, <1>2 DEF CacheTyped, Caching!WrittenBack
<1>4. ASSUME FenceKept PROVE Seen("i0")' = Seen("i0") /\ Seen("i1")' = Seen("i1")
  <2>1. blocks["code"] = "dirty" /\ hart.fault # "no_writeback"
    BY <1>1, <1>4 DEF DynamicInv, FenceKept
  <2>2. hart.loses # "i0" /\ hart.loses # "i1"
    BY DEF CacheTyped, Caching!Harts
  <2>3. dram'["i0"] = line["i0"] /\ dram'["i1"] = line["i1"]
    BY <1>1, <1>2, <2>1, <2>2 DEF Caching!WrittenBack
  <2>4. blocks'["code"] = "invalid"
    BY <1>1, <1>2 DEF CacheTyped
  <2> QED
    BY <1>2, <2>1, <2>3, <2>4 DEF Seen
<1>5. blocks'["code"] = "invalid"
  BY <1>1, <1>2 DEF CacheTyped
<1>6. FenceKept' <=> FenceKept
  BY DEF FenceKept
<1> QED
  BY <1>1, <1>3, <1>4, <1>5, <1>6 DEF DynamicInv

\* What is fetched ahead of the fence is forgotten there, and after it fetching
\* ahead finds the copied function.
LEMMA PrefetchKeeps ==
  ASSUME test = "execute_dynamic_instruction", CacheTyped, DynamicInv, hart' = hart,
         NEW w \in Caching!Dynamic, Caching!Prefetch(w)
  PROVE  CacheTyped' /\ DynamicInv'
<1>1. /\ finish = "none"
      /\ icache' = [icache EXCEPT ![w] = dram[w]]
      /\ UNCHANGED <<finish, at, dcache_mode, blocks, line, dram>>
  BY DEF Caching!Prefetch, Caching!Running, Caching!Fetch
<1>2. CacheTyped'
  BY <1>1 DEF CacheTyped
<1>3. \A x : Seen(x)' = Seen(x)
  BY <1>1 DEF Seen, Caching!Block
<1>4. \A x \in Caching!Dynamic : icache'[x] = IF x = w THEN dram[x] ELSE icache[x]
  BY <1>1 DEF CacheTyped
<1>5. FenceKept' <=> FenceKept
  BY DEF FenceKept
<1> QED
  BY <1>1, <1>2, <1>3, <1>4, <1>5 DEF DynamicInv

\* What holds before each instruction of execute_dynamic_instruction.c holds before
\* the next, whatever was fetched or dropped in between.
LEMMA DynamicKeeps ==
  ASSUME test = "execute_dynamic_instruction", CacheTyped, DynamicInv, hart' = hart,
         Caching!HartStep
  PROVE  CacheTyped' /\ DynamicInv'
<1> DEFINE s == Caching!execute_dynamic_instruction
<1>1. Caching!Program[test] = s /\ Caching!Op = s[at] /\ Len(s) = 5
  BY ShortPaths DEF Caching!Program, Caching!Op
<1>2. finish = "none"
  BY StillRunning
<1>3. at \in 1 .. 6 /\ dcache_mode
  BY <1>2 DEF DynamicInv
<1>4. FenceKept' <=> FenceKept
  BY DEF FenceKept
<1>5. /\ "i0" \in Caching!Words /\ "i1" \in Caching!Words
      /\ Caching!Block("i0") = "code" /\ Caching!Block("i1") = "code"
      /\ "code" \in Caching!Blocks
      /\ hart.loses # "i0" /\ hart.loses # "i1"
      /\ \A x : Caching!Block(x)' = Caching!Block(x)
  BY BlocksOfWords DEF CacheTyped, Caching!Blocks, Caching!Harts, Caching!Block
<1> HIDE DEF s
<1>6. CASE at \in {1, 2}
  <2> DEFINE w == IF at = 1 THEN "i0" ELSE "i1"
             v == IF at = 1 THEN 1 ELSE 2
  <2>1. s[at] = [do |-> "store", w |-> w, v |-> v]
    BY <1>6, ShortPaths DEF s, Caching!Store
  <2>2. w \in Caching!Words /\ w # "high" /\ "store" \in {"load", "store"} /\ at \in 1 .. 5
    BY <1>5, <1>6
  <2> HIDE DEF w, v
  <2>3. Stored(w, v)
    BY <1>1, <1>2, <1>3, <2>1, <2>2, Accesses
  <2>4. /\ CacheTyped' /\ at' = at + 1 /\ finish' = "none" /\ UNCHANGED dcache_mode
        /\ Seen("i0")' = IF w = "i0" THEN v ELSE Seen("i0")
        /\ Seen("i1")' = IF w = "i1" THEN v ELSE Seen("i1")
        /\ Caching!Block(w) = "code" => blocks'["code"] = "dirty"
    BY <1>2, <1>5, <2>3 DEF Stored
  <2> QED
    BY <1>2, <1>3, <1>4, <1>5, <1>6, <2>4 DEF DynamicInv, w, v
<1>7. CASE at = 3
  <2>1. Caching!Op.do = "fence_i"
    BY <1>1, <1>7, ShortPaths DEF s, Caching!FenceI
  <2>2. Caching!SynchroniseFetch
    BY <1>1, <1>2, <1>7, <2>1, CacheInstructions
  <2>3. /\ CacheTyped' /\ at' = 4 /\ finish' = "none" /\ UNCHANGED <<dcache_mode, line>>
    BY <1>2, <1>7, <2>2
    DEF Caching!SynchroniseFetch, CacheTyped, Caching!WrittenBack
  <2>4. ASSUME FenceKept
        PROVE  /\ blocks'["code"] = "invalid"
               /\ dram'["i0"] = 1 /\ dram'["i1"] = 2
               /\ \A x \in Caching!Dynamic : icache'[x] = -1
    <3>1. /\ dram' = Caching!WrittenBack(Caching!Blocks)
          /\ blocks' = [b \in Caching!Blocks |-> "invalid"]
          /\ icache' = [x \in Caching!Dynamic |-> -1]
      BY <2>2, <2>4 DEF Caching!SynchroniseFetch, FenceKept
    <3>2. Seen("i0") = 1 /\ Seen("i1") = 2 /\ blocks["code"] \in {"invalid", "dirty"}
      BY <1>2, <1>7, <2>4 DEF DynamicInv
    <3>3. hart.fault # "no_writeback"
      BY <2>4 DEF FenceKept
    <3>4. dram'["i0"] = 1 /\ dram'["i1"] = 2
      BY <1>5, <3>1, <3>2, <3>3 DEF Caching!WrittenBack, Seen
    <3> QED
      BY <1>5, <3>1, <3>4
  <2>5. FenceKept => Seen("i0")' = 1 /\ Seen("i1")' = 2
    BY <1>5, <2>4 DEF Seen
  <2> QED
    BY <1>3, <1>4, <2>3, <2>4, <2>5 DEF DynamicInv, Fetched, Caching!Dynamic
<1>8. CASE at \in {4, 5}
  <2> DEFINE w == IF at = 4 THEN "i0" ELSE "i1"
             v == IF at = 4 THEN 1 ELSE 2
  <2>1. s[at] = Caching!Call(w, v)
    BY <1>8, ShortPaths DEF s
  <2>2. w \in Caching!Dynamic /\ v = Fetched(w)
    BY <1>8 DEF Fetched, Caching!Dynamic
  <2> HIDE DEF w, v
  <2>3. Caching!Op.do = "call" /\ Caching!Op.w = w /\ Caching!Op.v = v
    BY <1>1, <2>1 DEF Caching!Call
  <2>4. Caching!Execute
    BY <1>1, <1>2, <1>8, <2>3, CacheInstructions
  <2>5. /\ icache' = IF icache[w] = -1 THEN [icache EXCEPT ![w] = dram[w]] ELSE icache
        /\ IF icache'[w] = v THEN at' = at + 1 /\ finish' = "none"
           ELSE finish' = "fail" /\ at' = at
        /\ UNCHANGED <<dcache_mode, blocks, line, dram>>
    BY <1>2, <2>3, <2>4 DEF Caching!Execute, Caching!Fetch, Caching!Judge
  <2>6. CacheTyped'
    BY <2>2, <2>5 DEF CacheTyped
  <2>7. \A x : Seen(x)' = Seen(x)
    BY <1>5, <2>5 DEF Seen
  <2>8. \A x \in Caching!Dynamic :
          icache'[x] = IF x = w /\ icache[w] = -1 THEN dram[w] ELSE icache[x]
    BY <2>2, <2>5 DEF CacheTyped
  <2>9. FenceKept =>
          /\ finish' = "none" /\ at' = at + 1
          /\ \A x \in Caching!Dynamic : icache'[x] \in {-1, Fetched(x)}
    BY <1>2, <1>8, <2>2, <2>5, <2>8 DEF DynamicInv, Fetched
  <2> QED
    BY <1>2, <1>3, <1>4, <1>8, <2>5, <2>6, <2>7, <2>9 DEF DynamicInv
<1>9. CASE at = 6
  <2>1. finish' = "pass" /\ UNCHANGED <<at, dcache_mode, blocks, line, dram, icache>>
    BY <1>1, <1>2, <1>9, Verdict
  <2>2. CacheTyped'
    BY <2>1 DEF CacheTyped
  <2> QED
    BY <2>1, <2>2 DEF DynamicInv
<1> QED
  BY <1>3, <1>6, <1>7, <1>8, <1>9

-----------------------------------------------------------------------------
(* The four programs together *)

\* The hart is one of those the tests are run on, and nothing is cached at first.
LEMMA CachingStarts ==
  ASSUME Caching!Init
  PROVE  CachingInv
<1>1. /\ hart \in Caching!Harts /\ finish = "none" /\ at = 1 /\ dcache_mode = TRUE
      /\ blocks = [b \in Caching!Blocks |-> "invalid"]
      /\ line = [w \in Caching!Words |-> 0] /\ dram = [w \in Caching!Words |-> 0]
      /\ icache = [w \in Caching!Dynamic |-> -1]
  BY DEF Caching!Init
<1>2. CacheTyped
  BY <1>1 DEF CacheTyped
<1>3. /\ \A b \in Caching!Blocks : blocks[b] = "invalid"
      /\ \A w \in Caching!Words : dram[w] = 0
      /\ "frame1" \in Caching!Blocks /\ "dram" \in Caching!Blocks /\ "code" \in Caching!Blocks
      /\ "low" \in Caching!Words /\ "c2" \in Caching!Words
  <2>1. "c2" = Check(2) /\ Check(2) \in Caching!Words
    BY CheckWords
  <2> QED
    BY <1>1, <2>1, BlocksOfWords DEF Caching!Blocks
<1>4. UncachedInv
  BY <1>1, <1>3 DEF UncachedInv, ModeBefore
<1>5. BypassInv
  BY <1>1, <1>3 DEF BypassInv
<1>6. AliasInv
  BY <1>1, <1>3 DEF AliasInv
<1>7. DynamicInv
  BY <1>1, <1>3 DEF DynamicInv
<1> QED
  BY <1>2, <1>4, <1>5, <1>6, <1>7 DEF CachingInv

\* When nothing of the cache tests changes their invariant is kept.
LEMMA CachingStutters ==
  ASSUME CachingInv,
         UNCHANGED <<test, finish, hart, at, dcache_mode, blocks, line, dram, icache>>
  PROVE  CachingInv'
<1>1. /\ \A w : /\ Seen(w)' = Seen(w) /\ Caching!Block(w)' = Caching!Block(w)
               /\ Caching!Cell(w)' = Caching!Cell(w)
      /\ (StackKept' <=> StackKept) /\ (FenceKept' <=> FenceKept)
  BY DEF Seen, Caching!Block, Caching!Cell, StackKept, FenceKept
<1>2. CacheTyped'
  BY DEF CachingInv, CacheTyped
<1>3. test = "uncached_mode" => UncachedInv'
  BY <1>1 DEF CachingInv, UncachedInv
<1>4. test = "l2_uncached" => BypassInv'
  BY <1>1 DEF CachingInv, BypassInv
<1>5. test = "high_dram_alias" => AliasInv'
  BY <1>1 DEF CachingInv, AliasInv
<1>6. test = "execute_dynamic_instruction" => DynamicInv'
  BY <1>1 DEF CachingInv, DynamicInv
<1> QED
  BY <1>2, <1>3, <1>4, <1>5, <1>6 DEF CachingInv

\* Every step of the cache tests keeps their invariant.
LEMMA CachingKeeps ==
  ASSUME test \in Caching!Tests, CachingInv, Caching!Next
  PROVE  CachingInv' /\ test' = test
<1>1. test \in {"uncached_mode", "l2_uncached", "high_dram_alias",
               "execute_dynamic_instruction"}
  BY DEF Caching!Tests, Caching!Program
<1>2. CASE UNCHANGED Caching!vars
  BY <1>2, CachingStutters DEF Caching!vars, Caching!cacheVars
<1>3. CASE Caching!HartStep /\ UNCHANGED <<test, hart>>
  BY <1>1, <1>3, UncachedKeeps, BypassKeeps, AliasKeeps, DynamicKeeps DEF CachingInv
<1>4. CASE Caching!Evict /\ UNCHANGED <<test, hart>>
  <2>1. test = "execute_dynamic_instruction"
    BY <1>4 DEF Caching!Evict
  <2> QED
    BY <1>4, <2>1, EvictKeeps DEF CachingInv
<1>5. CASE (\E w \in Caching!Dynamic : Caching!Prefetch(w)) /\ UNCHANGED <<test, hart>>
  <2>1. test = "execute_dynamic_instruction"
    BY <1>5 DEF Caching!Prefetch
  <2> QED
    BY <1>5, <2>1, PrefetchKeeps DEF CachingInv
<1> QED
  BY <1>2, <1>3, <1>4, <1>5 DEF Caching!Next

\* What the invariant says of the verdicts
LEMMA CachingJudges ==
  ASSUME CachingInv
  PROVE  Caching!CacheVerdictIsExact
<1>1. finish # "none" /\ test = "uncached_mode" => (finish = "pass" <=> StackKept)
  BY DEF CachingInv, UncachedInv
<1>2. finish # "none" /\ test = "l2_uncached" =>
        (finish = "pass" <=> hart.alias /\ hart.fault # "bypass_evicts")
  BY DEF CachingInv, BypassInv
<1>3. finish # "none" /\ test = "high_dram_alias" => (finish = "pass" <=> ~hart.alias)
  BY DEF CachingInv, AliasInv
<1>4. finish = "fail" /\ test = "execute_dynamic_instruction" => ~FenceKept
  BY DEF CachingInv, DynamicInv
<1> QED
  BY <1>1, <1>2, <1>3, <1>4 DEF Caching!CacheVerdictIsExact, StackKept, FenceKept

-----------------------------------------------------------------------------
(* The theorems *)

\* The inductive invariant: one part for each of the suites argued about here
Inv ==
  /\ test \in Paging!Tests => PagingInv
  /\ test = "stream_hammer" => StreamInv
  /\ test \in Hammer!Tests => LosslessInv
  /\ test = "vm_start" => TrapInv
  /\ test = "misaligned_fetch" => FetchInv
  /\ test \in Caching!Tests => CachingInv

\* The names of the programs keep them apart.
LEMMA OtherTests ==
  /\ "misaligned_fetch" \notin Paging!Tests
  /\ "vm_start" \notin Paging!Tests
  /\ Judging!Tests \intersect Paging!Tests = {}
  /\ Caching!Tests \intersect Paging!Tests = {}
  /\ Hammer!Tests \intersect Paging!Tests = {}
  /\ "stream_hammer" \in Hammer!Tests
  /\ Hammer!Tests \intersect (Judging!Tests \union Caching!Tests) = {}
  /\ Judging!Tests \intersect Caching!Tests = {}
  /\ "misaligned_fetch" \notin Judging!Tests \union Caching!Tests \union Hammer!Tests
  /\ "vm_start" \notin Judging!Tests \union Caching!Tests \union Hammer!Tests
BY DEF Paging!Tests, Judging!Tests, Judging!Program, Caching!Tests, Caching!Program,
       Hammer!Tests, Hammer!Program

\* Inv holds before the first access.
LEMMA InitInv == Init => Inv
<1> SUFFICES ASSUME Init PROVE Inv
  OBVIOUS
<1>1. ASSUME test \in Paging!Tests PROVE PagingInv
  <2>1. Paging!Init
    BY <1>1, OtherTests DEF Init, Judging!Init, Caching!Init, Hammer!Init
  <2>2. /\ pt = [l1 |-> <<>>, l2 |-> <<>>, l3 |-> <<>>]
        /\ tlb = <<>> /\ mem = <<>> /\ stack = {} /\ phase = "store" /\ i = 1
        /\ badvaddr = Paging!None /\ finish = "none"
    BY <2>1 DEF Paging!Init
  <2>3. DOMAIN pt.l1 = {} /\ DOMAIN pt.l2 = {} /\ DOMAIN pt.l3 = {}
    BY <2>2
  <2>4. Tables
    BY <2>2, <2>3 DEF Tables, PagingTables, MappingTables
  <2>5. 1 \in 1 .. Paging!Last(test)
    BY Sizes DEF Paging!Last, P
  <2>6. AccessInv
    BY <2>2, <2>5 DEF AccessInv
  <2>7. Stores /\ StackInv
    BY <2>2 DEF Stores, Made, StackInv
  <2> QED
    BY <2>4, <2>6, <2>7 DEF PagingInv
<1>2. ASSUME test = "stream_hammer" PROVE StreamInv
  <2>1. Hammer!Init
    BY <1>2, OtherTests DEF Init, Paging!Init, Judging!Init, Caching!Init
  <2> QED
    BY <1>2, <2>1, StreamStarts
<1>3. ASSUME test = "vm_start" PROVE TrapInv
  <2>1. Trapping!Init
    BY <1>3, OtherTests DEF Init, Paging!Init, Judging!Init, Caching!Init, Hammer!Init
  <2> QED
    BY <2>1, TrapStarts
<1>4. ASSUME test \in Hammer!Tests PROVE LosslessInv
  <2>1. Hammer!Init
    BY <1>4, OtherTests DEF Init, Paging!Init, Judging!Init, Caching!Init
  <2> QED
    BY <2>1, LosslessStarts
<1>5. ASSUME test = "misaligned_fetch" PROVE FetchInv
  <2>1. Fetching!Init
    BY <1>5, OtherTests DEF Init, Paging!Init, Judging!Init, Caching!Init, Hammer!Init
  <2> QED
    BY <2>1, FetchStarts
<1>6. ASSUME test \in Caching!Tests PROVE CachingInv
  <2>1. Caching!Init
    BY <1>6, OtherTests DEF Init, Paging!Init, Judging!Init, Hammer!Init
  <2> QED
    BY <2>1, CachingStarts
<1> QED
  BY <1>1, <1>2, <1>3, <1>4, <1>5, <1>6 DEF Inv

\* Every step of paging.c and mapping.c keeps their part.
LEMMA PagingKeeps ==
  ASSUME test \in Paging!Tests, PagingInv, Paging!Next
  PROVE  PagingInv' /\ test' = test
<1>1. ASSUME Paging!Pass PROVE PagingInv'
  BY <1>1
  DEF Paging!Pass, PagingInv, Tables, PagingTables, MappingTables, AccessInv, Stores,
      StackInv, Made, Target, Paging!Last, Paging!Walk, Paging!StoreVa, Paging!StoreVaOfMapping,
      Paging!LoadVa
<1>2. ASSUME Paging!Terminated PROVE PagingInv'
  BY <1>2
  DEF Paging!Terminated, Paging!vars, PagingInv, Tables, PagingTables, MappingTables,
      AccessInv, Stores, StackInv, Made, Target, Paging!Last, Paging!Walk, Paging!StoreVa,
      Paging!StoreVaOfMapping, Paging!LoadVa
<1>3. test' = test
  BY DEF Paging!Next, Paging!StoreOne, Paging!LoadOne, Paging!PageFault, Paging!HandleFault,
         Paging!Pass, Paging!Terminated, Paging!vars
<1> QED
  BY <1>1, <1>2, <1>3, PageFaultKeeps, HandleFaultKeeps, StoreOneKeeps, LoadOneKeeps
  DEF Paging!Next

\* When nothing of the fetch suite changes its invariant is kept.
LEMMA FetchStutters ==
  ASSUME test = "misaligned_fetch" => FetchInv,
         UNCHANGED <<kind, in_mode, mode, icache_mode, itlb, todo, pc, off, a0, tf,
                     latest_fault_info, test_active, finish>>
  PROVE  test = "misaligned_fetch" => FetchInv'
<1>1. /\ \A q, r : Due(q, r)' = Due(q, r) /\ NotMissed(q, r)' = NotMissed(q, r)
      /\ \A r : /\ ExpectOf(r)' = ExpectOf(r) /\ Points(r)' = Points(r)
                /\ LastOf(r)' = LastOf(r) /\ SpotOf(r)' = SpotOf(r)
  BY DEF Due, NotMissed, ShowsIn, ExpectOf, Points, LastOf, SpotOf
<1>2. \A r : /\ Fresh(r)' = Fresh(r) /\ After(r)' = After(r)
             /\ Translated(r)' = Translated(r)
  BY DEF Fresh, After, Translated, Absent
<1>3. \A q, r : Inside(q, r)' = Inside(q, r)
  BY <1>1, <1>2 DEF Inside, Reached
<1>4. \A q, r : /\ Trapped(q, r)' = Trapped(q, r) /\ Resumed(q, r)' = Resumed(q, r)
                /\ Returned(q, r)' = Returned(q, r)
  BY <1>1, <1>2 DEF Trapped, Resumed, Returned
<1>5. \A q, r : FetchState(q, r)' = FetchState(q, r)
  BY <1>1, <1>2, <1>3, <1>4 DEF FetchState, AtItem
<1> QED
  BY <1>5 DEF FetchInv

\* Every step of every program keeps Inv.
LEMMA NextInv ==
  ASSUME Inv, [Next]_vars
  PROVE  Inv'
<1>1. ASSUME test' = test, test \notin Paging!Tests, test \notin Hammer!Tests,
             test # "vm_start", test # "misaligned_fetch", test \notin Caching!Tests
      PROVE  Inv'
  BY <1>1, OtherTests
  DEF Inv, Paging!Tests, Hammer!Tests, Hammer!Program, Caching!Tests, Caching!Program
<1>2. CASE FetchingNext
  <2>1. FetchInv' /\ test' = test /\ test = "misaligned_fetch"
    BY <1>2, FetchKeeps DEF FetchingNext, Inv
  <2> QED
    BY <2>1, OtherTests
    DEF Inv, Paging!Tests, Hammer!Tests, Hammer!Program, Caching!Tests, Caching!Program
<1>3. CASE PagingNext
  <2>1. PagingInv' /\ test' = test /\ test \notin Hammer!Tests /\ test # "vm_start"
        /\ test # "misaligned_fetch" /\ test \notin Caching!Tests
    BY <1>3, PagingKeeps, OtherTests DEF PagingNext, Inv
  <2> QED
    BY <2>1, OtherTests DEF Inv, Hammer!Tests, Hammer!Program, Caching!Tests, Caching!Program
<1>4. CASE TrappingNext
  <2>1. TrapInv' /\ test' = test /\ test = "vm_start"
    BY <1>4, TrapKeeps DEF TrappingNext, Inv
  <2> QED
    BY <2>1, OtherTests
    DEF Inv, Paging!Tests, Hammer!Tests, Hammer!Program, Caching!Tests, Caching!Program
<1>5. CASE JudgingNext
  BY <1>1, <1>5, OtherTests DEF JudgingNext, Judging!Next, Judging!vars
<1>6. CASE CachingNext
  <2>1. CachingInv' /\ test' = test /\ test \in Caching!Tests
    BY <1>6, CachingKeeps DEF CachingNext, Inv
  <2>2. /\ test \notin Paging!Tests /\ test \notin Hammer!Tests /\ test # "vm_start"
        /\ test # "misaligned_fetch" /\ test # "stream_hammer"
    BY <2>1, OtherTests
  <2> QED
    BY <2>1, <2>2 DEF Inv, Paging!Tests, Hammer!Tests, Hammer!Program
<1>7. CASE HammerNext
  <2>1. /\ test' = test /\ test \notin Paging!Tests /\ test # "vm_start"
        /\ test # "misaligned_fetch" /\ test \notin Caching!Tests
    BY <1>7, OtherTests DEF HammerNext, Hammer!Next, Hammer!vars
  <2>2. test = "stream_hammer" => StreamInv'
    BY <1>7, StreamKeeps DEF HammerNext, Inv
  <2>3. LosslessInv'
    BY <1>7, LosslessKeeps DEF HammerNext, Inv
  <2> QED
    BY <2>1, <2>2, <2>3 DEF Inv, Paging!Tests, Caching!Tests, Caching!Program
<1>8. CASE UNCHANGED vars
  <2>1. UNCHANGED <<test, finish, mode, fetchOnly, pagingOnly, trapOnly, hartOnly,
                   hammerOnly, cacheOnly>>
    BY <1>8 DEF vars
  <2>2. test \in Paging!Tests => PagingInv'
    BY <2>1
    DEF pagingOnly, Inv, PagingInv, Tables, PagingTables, MappingTables, AccessInv,
        Stores, StackInv, Made, Target, Paging!Last, Paging!Walk, Paging!StoreVa,
        Paging!StoreVaOfMapping, Paging!LoadVa
  <2>3. test = "stream_hammer" => StreamInv'
    BY <2>1 DEF hartOnly, hammerOnly, Inv, StreamInv
  <2>4. test = "vm_start" => TrapInv'
    BY <2>1
    DEF trapOnly, Inv, TrapInv, RegsInv, UserAt, EntryAt, PopAt, VectorAt, ReturnAt,
        DeferAt, Saved
  <2>5. test \in Hammer!Tests => LosslessInv'
    BY <2>1
    DEF hartOnly, hammerOnly, Inv, LosslessInv, LosesNothing, WrittenBlocks,
        Hammer!Flushing, Hammer!Program
  <2>6. test = "misaligned_fetch" => FetchInv'
    <3>1. UNCHANGED <<kind, in_mode, mode, icache_mode, itlb, todo, pc, off, a0, tf,
                      latest_fault_info, test_active, finish>>
      BY <2>1 DEF fetchOnly
    <3> QED
      BY <3>1, FetchStutters DEF Inv
  <2>7. test \in Caching!Tests => CachingInv'
    <3>1. UNCHANGED <<test, finish, hart, at, dcache_mode, blocks, line, dram, icache>>
      BY <2>1 DEF hartOnly, cacheOnly
    <3> QED
      BY <3>1, CachingStutters DEF Inv
  <2> QED
    BY <2>1, <2>2, <2>3, <2>4, <2>5, <2>6, <2>7
    DEF Inv, Paging!Tests, Hammer!Tests, Hammer!Program, Caching!Tests, Caching!Program
<1> QED
  BY <1>2, <1>3, <1>4, <1>5, <1>6, <1>7, <1>8 DEF Next, Tested

\* The inductive invariant, for tables of any size.
THEOREM Invariance == FairSpec => []Inv
BY InitInv, NextInv, PTL DEF FairSpec

\* The user's loops store nowhere in the kernel image, and its stack lies in the
\* first frame of it and in no other, whatever the sizes.
THEOREM OnlyStackInKernelHolds == FairSpec => []OnlyStackInKernel
<1>1. Inv => OnlyStackInKernel
  <2> SUFFICES ASSUME Inv, test \in Paging!Tests
               PROVE  Paging!OnlyStackInKernel
    BY DEF OnlyStackInKernel
  <2>1. ASSUME NEW f \in DOMAIN mem
        PROVE  f \notin D .. D + KernelPages - 1
    <3>1. PICK n \in Made : f = Target(n)
      BY DEF Inv, PagingInv, Stores
    <3>2. n \in 1 .. Paging!Last(test)
      BY Sizes DEF Made, Inv, PagingInv, AccessInv, Paging!Last, P
    <3> QED
      BY <3>1, <3>2, Targets
  <2>2. stack \subseteq {D}
    BY DEF Inv, PagingInv, StackInv
  <2> QED
    BY <2>1, <2>2 DEF Paging!OnlyStackInKernel, D
<1> QED
  BY <1>1, Invariance, PTL

\* The tables, rewritten or not, lead every load to the value stored for it.
THEOREM LoadsFindStoresHolds == FairSpec => []LoadsFindStores
<1>1. Inv => LoadsFindStores
  <2> SUFFICES ASSUME Inv, test \in Paging!Tests, phase = "load",
                      NEW n \in 1 .. Paging!Last(test),
                      Paging!Walk(Paging!LoadVa(n)) # Paging!Fault
               PROVE  LET w == Paging!Walk(Paging!LoadVa(n))
                      IN  w \in DOMAIN mem /\ mem[w] = n
    BY DEF LoadsFindStores, Paging!LoadsFindStores
  <2>1. Paging!Walk(Paging!LoadVa(n)) = Target(n)
    BY CurrentWalk DEF Inv
  <2> QED
    BY <2>1 DEF Inv, PagingInv, Stores, Made
<1> QED
  BY <1>1, Invariance, PTL

\* paging.c and mapping.c never give up: no load finds another value and no
\* fault is at an address the handler does not expect.
THEOREM PagingNeverFails ==
  FairSpec => [](test \in Paging!Tests => finish \in {"none", "pass"})
<1>1. Inv => (test \in Paging!Tests => finish \in {"none", "pass"})
  BY DEF Inv, PagingInv, AccessInv
<1> QED
  BY <1>1, Invariance, PTL

\* stream_hammer.c reads every block out of the second level, as it means to:
\* no load of the check finds its block in the first level, not even one of the
\* blocks that were still there when the check began, and all find it in the
\* second.  For caches of any number of sets.
THEOREM MissesL1HitsL2Holds == FairSpec => []MissesL1HitsL2
<1>1. Inv => MissesL1HitsL2
  BY DEF Inv, StreamInv, MissesL1HitsL2, Hammer!MissesL1HitsL2
<1> QED
  BY <1>1, Invariance, PTL

\* No cache hammer blames a hart that loses nothing the program depends on: it
\* fails only on a lost write-back of the first level, on one of the second
\* level if it is not stream_hammer.c, and on a lost flush if it is
\* cache_flush.c.  For caches of any number of sets and tests of any length.
THEOREM HammerNeverBlamesWrongly ==
  FairSpec =>
    [](test \in Hammer!Tests /\ finish = "fail" =>
         \/ hart.fault = "l1_drops"
         \/ hart.fault = "l2_drops" /\ test # "stream_hammer"
         \/ hart.fault = "flush_drops" /\ test = "cache_flush")
<1>1. Inv => (test \in Hammer!Tests /\ finish = "fail" =>
                \/ hart.fault = "l1_drops"
                \/ hart.fault = "l2_drops" /\ test # "stream_hammer"
                \/ hart.fault = "flush_drops" /\ test = "cache_flush")
  BY DEF Inv, LosslessInv, LosesNothing
<1> QED
  BY <1>1, Invariance, PTL

\* uncached_mode.c passes exactly on a hart that writes back before it goes round
\* the cache, except that it looks neither at check_addr5 nor at a copy of
\* check_addr9 that has been written back; l2_uncached.c and high_dram_alias.c want
\* opposite harts; and the copied function runs whatever the hart fetched ahead or
\* evicted before, unless its fence.i or its write-backs do not work.
THEOREM CacheTestsJudgeExactly ==
  FairSpec => [](test \in Caching!Tests => Caching!CacheVerdictIsExact)
<1>1. Inv => (test \in Caching!Tests => Caching!CacheVerdictIsExact)
  BY CachingJudges DEF Inv
<1> QED
  BY <1>1, Invariance, PTL

\* A page fault gives the user its 31 registers back and resumes it where it
\* faulted, and a system call those registers that a call must preserve, and t0
\* and t1, whatever the C handlers between leave in theirs.
THEOREM RegistersKeptHolds == FairSpec => []RegistersKept
<1>1. Inv => RegistersKept
  BY DEF Inv, TrapInv, UserAt, RegistersKept, Trapping!RegistersKept, Trapping!t0, Trapping!t1
<1> QED
  BY <1>1, Invariance, PTL

\* Whenever user mode runs, both scratch registers hold the frame again, ready
\* for the next trap of either kind.
THEOREM ScratchReadyHolds == FairSpec => []ScratchReady
<1>1. Inv => ScratchReady
  BY DEF Inv, TrapInv, UserAt, ScratchReady, Trapping!ScratchReady
<1> QED
  BY <1>1, Invariance, PTL

\* Of the faults of a hart that the fetch suite can be run on it finds all but
\* one, whichever mode of the instruction cache the fault shows in, and it never
\* blames a hart without one: no gadget fetches an instruction whose first half
\* alone misses in the ITLB.
THEOREM FetchVerdictHolds ==
  FairSpec =>
    [](test = "misaligned_fetch" /\ finish # "none" =>
         (finish = "fail" <=> kind \notin {"none", "first_miss"}))
<1>1. Inv => (test = "misaligned_fetch" /\ finish # "none" =>
                (finish = "fail" <=> kind \notin {"none", "first_miss"}))
  BY DEF Inv, FetchInv, Harmless
<1> QED
  BY <1>1, Invariance, PTL

\* The verdict of the fetch suite is exact about the faults it does look for.
THEOREM FetchVerdictIsExactHolds ==
  ASSUME "first_miss" \notin FaultKinds
  PROVE  FairSpec => []FetchVerdictIsExact
<1>1. Inv => FetchVerdictIsExact
  BY DEF Inv, FetchInv, Harmless, FetchVerdictIsExact, Fetching!VerdictIsExact
<1> QED
  BY <1>1, Invariance, PTL

\* When the first instruction of test 3 is fetched both its pages miss in the
\* ITLB, in each of the three passes: the call that sets the mode of the cache
\* empties it, and the gadgets before have pages of their own.
THEOREM BothHalvesMissHolds == FairSpec => []BothHalvesMiss
<1>1. Inv => BothHalvesMiss
  <2> SUFFICES ASSUME Inv, test = "misaligned_fetch", Fetching!InUser("gadget"),
                      Fetching!Now.test = 3, off = -2
               PROVE  Fetching!FetchKind(3, off) = "both_miss"
    BY DEF BothHalvesMiss, Fetching!BothHalvesMiss
  <2>1. PICK q \in 0 .. 3 : \E r \in 0 .. 9 : (q = 3 => r <= 1) /\ FetchState(q, r)
    BY DEF Inv, FetchInv, Fetching!InUser
  <2>2. PICK r \in 0 .. 9 : (q = 3 => r <= 1) /\ FetchState(q, r)
    BY <2>1
  <2>3. r # 0 /\ q # 3 /\ Inside(q, r) /\ AtItem(q, r)
    BY <2>2 DEF FetchState, Trapped, Resumed, Returned, Fetching!InUser
  <2>4. Fetching!Now = Gadget(r)
    BY <2>2, <2>3, ItemOps
  <2>5. r = 4 /\ r \in 1 .. 6 /\ TestOf(r) = 3
    BY <2>3, <2>4 DEF Gadget, TestOf
  <2>6. Fetching!FetchKind(TestOf(r), off) = KindAt(r, off)
    BY <2>3, <2>5, FetchesSucceed DEF Inside
  <2> QED
    BY <2>5, <2>6 DEF KindAt
<1> QED
  BY <1>1, Invariance, PTL
=============================================================================
