------------------------- MODULE VirtualMemoryTests -------------------------
(***************************************************************************)
(* The programs about one hart's memory: demand paging, misaligned         *)
(* fetches, the trap paths of vm_start.S, the trap-and-judge programs, the *)
(* cache tests and the cache hammers, one at a time.  `test' says which,   *)
(* and what only the others use is Unused.                                 *)
(***************************************************************************)
EXTENDS Integers

CONSTANTS
  FaultKinds,                           \* of the hart under the fetch suite
  TrapFaults,                           \* of the hart under the trap tests
  PTES_PER_PT, PagingLast, KernelPages, \* of demand paging
  L2Sets, HammerN, StressN              \* of the cache hammers

VARIABLES
  test, finish, mode,
  kind, in_mode, icache_mode, itlb, todo, pc, off, a0, tf, latest_fault_info,
  test_active,
  pt, tlb, mem, stack, phase, i, badvaddr,
  regs, before, sscratch, mscratch, frame, sepc, code, from, syscall, resumed, outcome,
  hart, at,
  csr, cells, traps, trap,
  dcache_mode, blocks, line, dram, icache,
  caches, found

fetchOnly  == <<kind, in_mode, icache_mode, itlb, todo, pc, off, a0, tf,
                latest_fault_info, test_active>>
pagingOnly == <<pt, tlb, mem, stack, phase, i, badvaddr>>
trapOnly   == <<regs, before, sscratch, mscratch, frame, sepc, code, from, syscall,
                resumed, outcome>>
hartOnly   == <<hart, at>>
csrOnly    == <<csr, cells, traps, trap>>
cacheOnly  == <<dcache_mode, blocks, line, dram, icache>>
hammerOnly == <<caches, found>>

vars == <<test, finish, mode, fetchOnly, pagingOnly, trapOnly, hartOnly, csrOnly,
          cacheOnly, hammerOnly>>

Fetching == INSTANCE MisalignedFetch
Paging   == INSTANCE DemandPaging
Trapping == INSTANCE TrapEntry
Judging  == INSTANCE TrapTests
Caching  == INSTANCE CacheTests
Hammer   == INSTANCE CacheHammer

ASSUME VirtualMemoryTestsAssumption ==
  /\ Fetching!FaultKindsAssumption /\ Paging!DemandPagingAssumption
  /\ Hammer!CacheHammerAssumption

Unused == "unused"

NoFetching ==
  /\ kind = Unused /\ in_mode = Unused /\ icache_mode = Unused /\ itlb = Unused
  /\ todo = Unused /\ pc = Unused /\ off = Unused /\ a0 = Unused /\ tf = Unused
  /\ latest_fault_info = Unused /\ test_active = Unused
NoPaging ==
  /\ pt = Unused /\ tlb = Unused /\ mem = Unused /\ stack = Unused
  /\ phase = Unused /\ i = Unused /\ badvaddr = Unused
NoTrapping ==
  /\ regs = Unused /\ before = Unused /\ sscratch = Unused /\ mscratch = Unused
  /\ frame = Unused /\ sepc = Unused /\ code = Unused /\ from = Unused
  /\ syscall = Unused /\ resumed = Unused /\ outcome = Unused

NoHart == hart = Unused /\ at = Unused
NoCsr == csr = Unused /\ cells = Unused /\ traps = Unused /\ trap = Unused
NoCache ==
  /\ dcache_mode = Unused /\ blocks = Unused /\ line = Unused
  /\ dram = Unused /\ icache = Unused
NoHammer == caches = Unused /\ found = Unused

Init ==
  \/ /\ test = "misaligned_fetch" /\ Fetching!Init
     /\ NoPaging /\ NoTrapping /\ NoHart /\ NoCsr /\ NoCache /\ NoHammer
  \/ /\ Paging!Init /\ mode = Unused
     /\ NoFetching /\ NoTrapping /\ NoHart /\ NoCsr /\ NoCache /\ NoHammer
  \/ /\ test = "vm_start" /\ Trapping!Init /\ finish = Unused
     /\ NoFetching /\ NoPaging /\ NoHart /\ NoCsr /\ NoCache /\ NoHammer
  \/ /\ Judging!Init
     /\ NoFetching /\ NoPaging /\ NoTrapping /\ NoCache /\ NoHammer
  \/ /\ Caching!Init /\ mode = Unused
     /\ NoFetching /\ NoPaging /\ NoTrapping /\ NoCsr /\ NoHammer
  \/ /\ Hammer!Init /\ mode = Unused
     /\ NoFetching /\ NoPaging /\ NoTrapping /\ NoCsr /\ NoCache

FetchingNext ==
  /\ test = "misaligned_fetch" /\ Fetching!Next
  /\ UNCHANGED <<test, pagingOnly, trapOnly, hartOnly, csrOnly, cacheOnly, hammerOnly>>
PagingNext ==
  /\ test \in Paging!Tests /\ Paging!Next
  /\ UNCHANGED <<mode, fetchOnly, trapOnly, hartOnly, csrOnly, cacheOnly, hammerOnly>>
TrappingNext ==
  /\ test = "vm_start" /\ Trapping!Next
  /\ UNCHANGED <<test, finish, fetchOnly, pagingOnly, hartOnly, csrOnly, cacheOnly,
                 hammerOnly>>
JudgingNext ==
  /\ test \in Judging!Tests /\ Judging!Next
  /\ UNCHANGED <<fetchOnly, pagingOnly, trapOnly, cacheOnly, hammerOnly>>
CachingNext ==
  /\ test \in Caching!Tests /\ Caching!Next
  /\ UNCHANGED <<mode, fetchOnly, pagingOnly, trapOnly, csrOnly, hammerOnly>>
HammerNext ==
  /\ test \in Hammer!Tests /\ Hammer!Next
  /\ UNCHANGED <<mode, fetchOnly, pagingOnly, trapOnly, csrOnly, cacheOnly>>

Tested == FetchingNext \/ PagingNext \/ TrappingNext \/ JudgingNext \/ CachingNext
Next == Tested \/ HammerNext

\* The hart keeps executing (nothing is claimed of the two nested loops of the
\* cache hammers, which end by their bounds).
FairSpec == Init /\ [][Next]_vars /\ WF_vars(Tested)

-----------------------------------------------------------------------------
(* Properties *)

\* The fetch suite fails exactly on a hart with one of the faults it is run
\* against, whichever mode of the instruction cache the fault shows in.
FetchVerdictIsExact == test = "misaligned_fetch" => Fetching!VerdictIsExact

\* The third fetch test is what its name says, in each of the three passes.
BothHalvesMiss == test = "misaligned_fetch" => Fetching!BothHalvesMiss

\* The user's loops store nowhere in the kernel image, and its stack lies in the
\* first frame of it, where both programs map virtual page 0, and in no other.
OnlyStackInKernel == test \in Paging!Tests => Paging!OnlyStackInKernel

\* The tables, rewritten or not, lead every load to the value stored for it.
LoadsFindStores == test \in Paging!Tests => Paging!LoadsFindStores

\* paging.c and mapping.c end, and pass, on a hart that remembers failed walks;
\* every other program comes to an end on every hart, except eaddr_fault on one
\* that does not save MPP: there the report of its handler page-faults for ever.
EveryoneDecides ==
  /\ <>(test \in Paging!Tests => finish = "pass")
  /\ <>(test \in Judging!Tests \union Caching!Tests \union {"misaligned_fetch"} =>
          \/ finish # "none"
          \/ test = "eaddr_fault" /\ hart.fault = "mpp_not_saved")

\* Each trap-and-judge program passes exactly on the harts it is for that lack
\* the faults it looks for.
TrapVerdictIsExact == test \in Judging!Tests => Judging!TrapVerdictIsExact

\* Each cache test passes exactly on the memory systems it describes or can
\* tell from one that loses data.
CacheVerdictIsExact ==
  /\ test \in Caching!Tests => Caching!CacheVerdictIsExact
  /\ test \in Hammer!Tests => Hammer!HammerVerdictIsExact

\* stream_hammer.c reads every block out of the second level, as it means to.
MissesL1HitsL2 == test \in Hammer!Tests => Hammer!MissesL1HitsL2

\* A page fault gives the user its 31 registers back, and a system call those
\* that a call must preserve, and t0 and t1.
RegistersKept == test = "vm_start" => Trapping!RegistersKept

\* Whenever user mode runs, both scratch registers hold the frame again.
ScratchReady == test = "vm_start" => Trapping!ScratchReady
=============================================================================
