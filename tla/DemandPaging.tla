---------------------------- MODULE DemandPaging ----------------------------
(***************************************************************************)
(* paging.c and mapping.c: a user program touches addresses nobody has     *)
(* mapped, and the supervisor's page-fault handler maps each of them with  *)
(* a 4k page, a megapage or a gigapage, all in one second-level and one    *)
(* third-level table.  mapping.c replaces a second-level pointer by a      *)
(* gigapage half way through its stores.                                   *)
(*                                                                         *)
(* Addresses are page numbers.  The hart is external: it may remember any  *)
(* walk of the tables, failed ones too, until the next sfence.vma.         *)
(***************************************************************************)
EXTENDS Integers, FiniteSets

CONSTANTS
  PTES_PER_PT,          \* 512 in vm.h
  PagingLast,           \* 39 in paging.c: the index of the last store
  KernelPages           \* pages from DRAM_BASE up to STACK_TOP

\* 0x800F0000, the top of the stack, is in the first half of a megapage.
DemandPagingAssumption ==
  /\ PTES_PER_PT \in Nat \ {0, 1}
  /\ PagingLast \in 1 .. PTES_PER_PT - 1
  /\ KernelPages \in 1 .. PTES_PER_PT \div 2

\* The programs, by the names of their files.
Tests == {"paging", "mapping"}

VARIABLES
  test,
  pt,                   \* the user's part of l1pt, l2pt and l3pt
  tlb,                  \* walks the hart remembers: page |-> frame or Fault
  mem,                  \* frame |-> the value stored at its start
  stack,                \* history: the frames the user's stack has lain in
  phase, i,             \* the loops of userTest
  badvaddr,             \* the page that faulted, or None
  finish

vars == <<test, pt, tlb, mem, stack, phase, i, badvaddr, finish>>

-----------------------------------------------------------------------------
(* Sv39, counted in pages. *)

MPGSIZE == PTES_PER_PT
GPGSIZE == PTES_PER_PT * PTES_PER_PT
DRAM_BASE == 2 * GPGSIZE        \* 0x80000000 is two gigabytes

vpn0(va) == va % PTES_PER_PT
vpn1(va) == (va \div MPGSIZE) % PTES_PER_PT
vpn2(va) == (va \div GPGSIZE) % PTES_PER_PT

None  == -1
Fault == -2

Pointer     == [leaf |-> FALSE, frame |-> 0]
Leaf(frame) == [leaf |-> TRUE, frame |-> frame]

\* The frame va is mapped to, as the hart walks the tables.
Walk(va) ==
  IF vpn2(va) \notin DOMAIN pt.l1 THEN Fault
  ELSE IF pt.l1[vpn2(va)].leaf THEN pt.l1[vpn2(va)].frame + (va % GPGSIZE)
  ELSE IF vpn1(va) \notin DOMAIN pt.l2 THEN Fault
  ELSE IF pt.l2[vpn1(va)].leaf THEN pt.l2[vpn1(va)].frame + (va % MPGSIZE)
  ELSE IF vpn0(va) \notin DOMAIN pt.l3 THEN Fault
  ELSE pt.l3[vpn0(va)].frame

Translate(va) == IF va \in DOMAIN tlb THEN tlb[va] ELSE Walk(va)

Put(f, x, y) == [z \in DOMAIN f \union {x} |-> IF z = x THEN y ELSE f[z]]

-----------------------------------------------------------------------------
(* The handler. *)

\* Pointers in the first two levels, and the page in the third
ThreeLevels(va, frame) ==
  [l1 |-> Put(pt.l1, vpn2(va), Pointer),
   l2 |-> Put(pt.l2, vpn1(va), Pointer),
   l3 |-> Put(pt.l3, vpn0(va), Leaf(frame))]

PageInitInKernel(va) == ThreeLevels(va, DRAM_BASE + vpn0(va))

PageInit(va) == ThreeLevels(va, DRAM_BASE + MPGSIZE + vpn0(va))

\* mapping.c maps virtual page 0 to the first frame of the image.
PageInitOfMapping(va) ==
  IF va = 0 THEN ThreeLevels(va, DRAM_BASE) ELSE PageInit(va)

MegapageInit(va) ==
  [pt EXCEPT !.l1 = Put(pt.l1, vpn2(va), Pointer),
             !.l2 = Put(pt.l2, vpn1(va), Leaf(DRAM_BASE + MPGSIZE * vpn1(va)))]

GigapageInitShifted(va) ==
  [pt EXCEPT !.l1 = Put(pt.l1, vpn2(va), Leaf(DRAM_BASE + GPGSIZE))]

GigapageInit(va) ==
  [pt EXCEPT !.l1 = Put(pt.l1, vpn2(va), Leaf(DRAM_BASE))]

\* handle_fault of the two programs, without paging.c's check of the address
MapForPaging(va) ==
  IF vpn2(va) % 3 = 0 THEN GigapageInit(va)
  ELSE IF vpn1(va) % 3 = 1 THEN MegapageInit(va) ELSE PageInit(va)

MapForMapping(va) ==
  IF vpn0(va) >= PTES_PER_PT \div 2 THEN GigapageInit(va) ELSE PageInitOfMapping(va)

Mapped(va) == IF test = "paging" THEN MapForPaging(va) ELSE MapForMapping(va)

Unexpected(va) == test = "paging" /\ ~(vpn2(va) = vpn1(va) /\ vpn1(va) = vpn0(va))

HandleFaultNoFlush ==
  /\ finish = "none" /\ badvaddr # None
  /\ IF Unexpected(badvaddr) THEN finish' = "abort" /\ UNCHANGED pt
                             ELSE pt' = Mapped(badvaddr) /\ UNCHANGED finish
  /\ badvaddr' = None
  /\ UNCHANGED <<test, tlb, mem, stack, phase, i>>

\* trap_entry, handle_trap, handle_fault, flush_tlb and pop_tf; terminate(-1)
\* in supervisor mode does not return.
HandleFault ==
  /\ finish = "none" /\ badvaddr # None
  /\ IF Unexpected(badvaddr) THEN finish' = "abort" /\ UNCHANGED pt
                             ELSE pt' = Mapped(badvaddr) /\ UNCHANGED finish
  /\ badvaddr' = None
  /\ tlb' = <<>>
  /\ UNCHANGED <<test, mem, stack, phase, i>>

-----------------------------------------------------------------------------
(* userTest *)

Last(t) == IF t = "paging" THEN PagingLast ELSE PTES_PER_PT - 1

StoreVaOfMapping(n) == GPGSIZE + n

StoreVa(n) ==
  IF test = "paging" THEN n * (GPGSIZE + MPGSIZE + 1) ELSE StoreVaOfMapping(n)

\* mapping.c reads the first half through the gigapage, one megapage further.
LoadVa(n) ==
  IF test = "mapping" /\ n < PTES_PER_PT \div 2 THEN GPGSIZE + MPGSIZE + n
                                               ELSE StoreVa(n)

Init ==
  /\ test \in Tests
  /\ pt = [l1 |-> <<>>, l2 |-> <<>>, l3 |-> <<>>]
  /\ tlb = <<>>
  /\ mem = <<>>
  /\ stack = {}
  /\ phase = "store"
  /\ i = 1
  /\ badvaddr = None
  /\ finish = "none"

\* The user's code and its stack are on virtual page 0 (sp = PGSIZE - 0x100).
\* Wherever the user runs it stores to its stack, the prologue of userTest first.
CodeAndStack == 0
StoreStack == stack' = stack \union {Translate(CodeAndStack)}

\* The next access needs a page that is not mapped: the hart traps on it.
PageFault ==
  /\ finish = "none" /\ badvaddr = None
  /\ \E va \in {CodeAndStack, IF phase = "store" THEN StoreVa(i) ELSE LoadVa(i)} :
       /\ Translate(va) = Fault
       /\ IF va = CodeAndStack THEN UNCHANGED stack
                              ELSE Translate(CodeAndStack) # Fault /\ StoreStack
       /\ badvaddr' = va
       /\ tlb' = Put(tlb, va, Fault)
  /\ UNCHANGED <<test, pt, mem, phase, i, finish>>

Access(va) ==
  /\ finish = "none" /\ badvaddr = None
  /\ Translate(CodeAndStack) # Fault /\ Translate(va) # Fault
  /\ StoreStack
  /\ tlb' = Put(tlb, va, Translate(va))

NextIndex ==
  IF i < Last(test) THEN i' = i + 1 /\ UNCHANGED phase
  ELSE i' = 1 /\ phase' = IF phase = "store" THEN "load" ELSE "done"

StoreOne ==
  /\ phase = "store"
  /\ Access(StoreVa(i))
  /\ mem' = Put(mem, Translate(StoreVa(i)), i)
  /\ NextIndex
  /\ UNCHANGED <<test, pt, badvaddr, finish>>

LoadOne ==
  /\ phase = "load"
  /\ Access(LoadVa(i))
  /\ LET frame == Translate(LoadVa(i)) IN
     IF frame \in DOMAIN mem /\ mem[frame] = i THEN NextIndex /\ UNCHANGED finish
     ELSE finish' = "fail" /\ UNCHANGED <<phase, i>>
  /\ UNCHANGED <<test, pt, mem, badvaddr>>

Pass ==
  /\ phase = "done" /\ finish = "none"
  /\ finish' = "pass"
  /\ UNCHANGED <<test, pt, tlb, mem, stack, phase, i, badvaddr>>

Terminated == finish # "none" /\ UNCHANGED vars

Next == PageFault \/ HandleFault \/ StoreOne \/ LoadOne \/ Pass \/ Terminated

Spec == Init /\ [][Next]_vars

-----------------------------------------------------------------------------
\* Of the kernel image, the frames from DRAM_BASE to the top of the supervisor's
\* stack, the user writes nothing but the first, which virtual page 0 is mapped
\* to, and that one only through its own stack: no store of the loops lands in
\* the image, and the user's stack never in the tables or the trap frame.
OnlyStackInKernel ==
  /\ \A frame \in DOMAIN mem : frame \notin DRAM_BASE .. DRAM_BASE + KernelPages - 1
  /\ stack \subseteq {DRAM_BASE}

\* The tables as they stand when the loads begin lead every load to the value
\* stored for it, or fault (and are then repaired).
LoadsFindStores ==
  phase = "load" => \A n \in 1 .. Last(test) :
    LET frame == Walk(LoadVa(n)) IN frame # Fault => frame \in DOMAIN mem /\ mem[frame] = n
=============================================================================
