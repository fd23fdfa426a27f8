# BlackParrot test programs: a TLA+ development

The repository holds bare-metal programs that test a BlackParrot processor:
multicore programs that share memory, tests of interrupts and their delegation,
of virtual memory and its trap paths, of privilege, protection and the caches, and
drivers for the accelerators. This directory models the programs that keep state
or hand control back and forth, checks the models with TLC, and proves with TLAPS
what is claimed of the multicore programs and their helpers for any number of cores,
of the interrupt tests for any latencies and lengths, of the demand paging tests for page
tables of any size, of the accelerator programs for any vectors and any request, of
the cache hammers for caches of any number of sets, and of the trap paths of `vm_start.S`,
the misaligned fetch suite and the cache tests.

Sources are cited by file name and line under `src/`, the directory of that name
in the repository.

## 1. The system

### Parts, state and operations

| part | files | state | operations |
|---|---|---|---|
| multicore protocol | `mc_util.h`, `mc_template.c` | `global_lock`, `start_barrier_mem`, `end_barrier_mem` | `lock`, `unlock`, publish, await, add to the end barrier, join |
| epoch walk | `mc_rand_walk.c` | `epoch_count_mem`, `epoch_barrier_mem`, a local epoch per core | `player_walk`, `player_sync` |
| one-way barrier | `sync_barrier` in `mc_util.h` | a counter that only grows | add, spin until it is `num_cores * entry` |
| random numbers | `mc_rand`, `mc_rand_bit` in `mc_util.h` | `lfsr`; `regA`, `regB`, `regC` | one shift per call |
| shared pool sort | `mc_work_share_sort.c`, `mc_data.h` | `DATA`, `read_index`, `read_count` | `getNextArray`, `sortArray` |
| atomic adds | `mc_lrsc_add.c`, `mc_amo_add.c`, `mc_asm_loop.h` | `amo_target`, reservations | LR/SC retry loop; unrolled AMO loop; compare |
| memory sanity | `mc_sanity.c` | `MATRIX`, a local sum per core | write, read back, early exit, judge |
| interrupt priority | `interrupt_priority*.c`, `.h` | `step`, CLINT and PLIC words, `mie`, `mstatus` | arm, enable, trap handler |
| external interrupts | `m_`/`s_external_interrupt.c`, `s_mideleg.S` | `state`, `mip.SEIP`, `mideleg`, a PLIC word | raise, read `mip`/`sip`, handler, clear |
| timer tests | `timer_interrupt.c`, `amo_interrupt.c`, `wfi.c` | `int_count`, `mtimecmp`, `minstret` | handler that counts and re-arms, adds, `wfi` |
| virtual-memory runtime | `vm_start.S`, `vm.h` | trap frame, `sscratch`, `mscratch` | `trap_entry`, `pop_tf`, `m_trap_vector` |
| demand paging | `paging.c`, `mapping.c` | three page-table pages, TLB | `handle_fault`, `userTest` |
| misaligned fetch | `misaligned_instructions_virtual_memory.c` | fault log, ITLB, cache mode | gadgets, `s_handle_vm_fault`, mode switch |
| trap-and-judge tests | `satp_*`, `pte_*`, `pmp_*`, `mprv_*`, `mstatus_*`, `instret_*`, `misaligned_ldst.c` and others, 27 programs | CSRs, the privilege mode, a few words, a trap count | write a CSR, access, drop privilege, trap handler, report |
| cache tests | `uncached_mode.c`, `l2_uncached.c`, `high_dram_alias.c`, `execute_dynamic_instruction.c` | cache mode, words in a cache and in DRAM | switch mode, store, load and compare, `fence.i`, call |
| cache hammers | `stream_hammer.c`, `cache_hammer.c`, `cache_flush.c`, `dram_stress.c` | blocks in two levels of cache | two nested loops that write, a flush, two that read back |
| accelerators | `vdp.c`, `vdp.h`, `streaming_*`, `coherent_*` | device registers and memory | configure, copy, start, poll, read back; five TLVs through a DMA device |
| single-instruction tests | the other `.c`, `.S`, `.cpp` | none to speak of | straight-line checks |

Underneath are parts that are not in the repository: the harts and their caches, the
CLINT and PLIC, the accelerators, and perch (`bp_utils`, start-up code, the default
`__mtvec_handler`, `__main`). They are modelled from the way the programs use
them; those definitions are marked external in `PROJECT.json`.

### How they interact

* The cores of a multicore program run the same `main` and share memory. Core 0
  initialises and publishes `start_barrier_mem = 1`; the others poll it. Every core
  adds itself to `end_barrier_mem` under the lock; core 0 polls for `num_cores` and
  returns, which ends the simulation. A `+= 1` on a volatile global is a load and
  a store with room for another core between them.
* An interrupt handler is a callback at any instruction of `main`. It talks to
  `main` through globals, and to the CLINT or PLIC through stores that are posted:
  the hart goes on before they land.
* User, supervisor and machine mode hand each other one trap frame through
  `sscratch` and `mscratch`.
* A trap-and-judge program sets up a hart state, often drops to a lower mode, makes
  one access, and judges in a handler by `xcause` and little else. Its report is a
  store like any other: it goes through whatever translation is left on.
* A cache test and the memory system are two processes where the hart may fetch
  ahead or make room; elsewhere the caches follow the program.
* A driver and its accelerator are two processes: the driver posts stores to
  several devices and polls; the device computes and writes a result and a status.
  The zipline driver tells one device the type of what another is about to move.

### What is hard, and what makes each part correct

| part | hard | correct when |
|---|---|---|
| multicore protocol | cores interleaved at every load and store; core 0 clears the lock with a plain store; leaving early or late | mutual exclusion; nothing runs before initialisation; core 0 returns last, and does return |
| epoch walk | the count is tested outside the lock and reset inside; a waiting core tests for one value with `!=` | a reusable barrier: nobody leaves an epoch early, nobody is left behind |
| `sync_barrier` | the awaited value can be stepped over | safe always; live for one call only |
| pool sort | pointer, index and count advance in three steps | each array sorted once by one core |
| atomic adds | SCs fail for any reason at any time | no add lost or doubled; the retries end |
| sanity | early exit on a wrong value; interleaved elements | no shared element; exact verdict; everyone joins all the same |
| interrupts | stores in flight at `mret`; level-triggered sources; a source taken twice | the verdict tells right harts from wrong ones; each deadline counted once; a verdict is reached |
| virtual memory | a TLB that remembers failed walks; overlapping page sizes; two swaps of one register | user mode notices nothing; no store on another, and none in the kernel image but those to the user's stack in its first page; exact verdict |
| trap-and-judge tests | one handler for every trap; MPRV or `satp` left on in the report; `mepc += 8` over a report | passes exactly on the harts it is for that lack the faults it looks for |
| cache tests and hammers | data in two places at once; the order of mode switches; loops that only just fill a cache | the verdict tells lossy memory systems from others; the path under test is the one taken |
| accelerators | start overtaking operands; result read too early; a type told too soon | the accelerator sees the operands and each word with its type; `main` reads the result |

`PROJECT.json` lists these as hazards, each at its line, with the properties that
would catch it.

## 2. The modules

Component modules have one action per step of the code and are named after it.
Those that share a suite in TLC are instantiated by a *suite* module which picks
one program by a rigid variable (`program`, `test`, `running`); what another
program alone uses is then the string `"unused"`. So one run covers a family, and
a component can still be read, instantiated and proved about on its own.

| module | models | notes |
|---|---|---|
| `McUtil` | lock, start barrier, end barrier | extended by every multicore program |
| `ForkJoin`, `EpochBarrier` | abstract specifications | what the programs promise, with fairness |
| `RandWalk`, `McUtilProofs`, `RandWalkProofs` | `mc_rand_walk.c` and its proofs | `player_sync` line by line |
| `SyncBarrier`, `McRand`, `McHelpersProofs` | `sync_barrier`; `mc_rand`, `mc_rand_bit`; proofs about both | suite `McHelpers`; `calls` and `callers` are rigid: who calls, and how often |
| `WorkShareSort`, `WorkShareSortProofs` | `mc_work_share_sort.c` and its proofs | the sort compare by compare, every initial `DATA` |
| `LrscAdd`, `AmoAdd`, `McSanity`, `McTemplate`, `McProgramsProofs` | the other `mc_*.c` and their proofs | suite `McPrograms` |
| `InterruptPriority`, `ExternalInterrupt`, `Mideleg`, `TimerInterrupt`, `InterruptTestsProofs` | nine interrupt tests and the proofs about them | suite `InterruptTests` |
| `MisalignedFetch`, `TrapEntry` | the fetch suite; the trap paths | suite `VirtualMemoryTests` |
| `DemandPaging` | `paging.c`, `mapping.c` | suite `VirtualMemoryTests` |
| `TrapPrograms`, `TrapTests` | the 27 trap-and-judge programs, as data; the hart that runs them | suite `VirtualMemoryTests` |
| `CacheTests`, `CacheHammer` | the cache tests and hammers | suite `VirtualMemoryTests` |
| `VirtualMemoryTestsProofs` | | proofs about demand paging, the cache hammers, the trap paths and the fetch suite |
| `AcceleratorDriver`, `VdpAccelerator`, `ZiplineDma`, `AcceleratorsProofs` | `vdp.c`, its four mains and the proofs about them | driver scripts against devices; suite `Accelerators`, with the program's own request in `MCAccelerators` |

### Correspondence to the code

`PROJECT.json` maps every definition to its lines. The conventions:

* **Multicore.** `pc[c]` is the control point of core `c`, `reg[c]` the register a
  `+= 1` goes through. `Lock` is the successful `amoswap`; a failed one writes 1
  over 1 and is a stutter, like every poll that fails. `CountLoad`, `CountStore`
  and so on are the two halves of a `+= 1`. `LrscAdd!LoseReservation` is the
  hardware dropping a reservation for its own reasons. `McSanity`'s memory may
  answer `StaleValues` as well as the value just written: the program exists to
  find such a memory.
* **Interrupts.** A program is the sequence of its CSR and MMIO operations; a step
  executes one. The hart traps before its next instruction when an enabled
  interrupt is pending. `posted` holds stores on their way and `Land` delivers the
  oldest. A fence, or a load from the same device, waits for them. Harts are
  parameterised by what may be wrong with them (`fault`, `faults`, `order`), so that
  a verdict can be compared with the truth. Ticks of `mtime` are steps of the hart,
  and comparators are kept as the distance to `mtime`, so the state is finite.
* **Virtual memory.** `TrapEntry` executes the assembly instruction by instruction
  on a register file whose values are numbers that name their owner.
  `DemandPaging` keeps the page tables as functions from index to entry, uses the
  programs' own arithmetic for every address, and a TLB that remembers failed walks
  until `sfence.vma`. `MisalignedFetch` keeps which page each half of each
  instruction is on, the ITLB, the log and the cache mode.
* **Trap-and-judge.** `TrapPrograms` writes each program as named sections of
  operations (`Write`, `Read`, `Load`, `Store`, `Mret`, `Report`, ...) with the handler as a section
  of its own; `TrapTests` executes an operation per step on a hart with a mode, the
  CSRs the programs touch, and at most one of the faults of `FoundBy`. An address is
  named for where it leads (`"1G"`, `"out_of_bounds"`, ...), and a page table is the
  sequence of the permission bits on the path to it (`Path`). Fetches are translated
  too, as are reports. `hart` also says what the build and the implementation may
  choose: compressed instructions, PMP entries, the size of a compiled report.
* **Caches.** `CacheTests` follows single words of `main`'s frame, of DRAM and of the
  copied function, between a data cache with a mode, DRAM and an instruction cache;
  where the frame falls on blocks is a choice. `CacheHammer` follows blocks through
  two levels of eight-way LRU caches; a block's data is a function of its address, so
  a bit says whether it is good, and cores whose ranges overlap write the same.
* **Accelerators.** `Script(c)` is what `main` and the drivers do on core `c`, as the
  list of their uncached loads and stores; `Deliver`, `Compute`, `MoveWord` and
  `EndTransfer` are the devices. `VdpAccelerator!Script` includes the choice which of
  the two streaming mains core 0 runs.

Names that end in a plausible mistake (`LockWithoutTest`, `UnlockForgotten`,
`SendTlvTypeLast`, ...) are variants of the definition they precede. No specification
uses them: each is put in the place of the definition to see that the property
that should notice does.

## 3. The runs

Seven runs check what holds.

| run | instance | states | shows |
|---|---|---|---|
| `RandWalk` | 4 cores, 3 epochs | 32 k | `player_sync` implements `EpochBarrier`, the program implements `ForkJoin`, both with liveness; the inductive invariant `Inv` and what it is for: `TypeOK`, `MutualExclusion`, `ResetLosesNobody`, `Lockstep` |
| `McPrograms` | 3 cores | 45 k | the four small programs: no lost add (`NoLostAdd`), exact AMO count (`AmoPasses`), exact verdict in `mc_sanity.c`, oversized data included (`SanityVerdictIsExact`), initialisation before sums (`SumsOverInitialised`), fork and join |
| `WorkShareSort` | 2 cores, `DATA` of 5 or 7, all 0/1 contents | 90 k | `OneOwner`: one core sorts each array, once; `SortedOrRefused`: sorted when core 0 returns 0, untouched when `DATA` is too short; fork and join |
| `McHelpers` | 4 cores, 1 to 3 calls; the code's seeds | 78 k | `ImplementsBarrier`, the safety of repeated calls of `sync_barrier`, and `EveryoneLeavesOnce`, the liveness of a single one; `SeedRecurs`: `mc_rand` is on a cycle; `RegistersNeverZero`: no register of `mc_rand_bit` is ever driven to zero, where it would stay, whether one core calls or two race |
| `InterruptTests` | all tests, all faults | 7.8 k | what each verdict means (`PriorityVerdict`, `ExternalVerdictIsExact`, `DelegationVerdict`, `TimerVerdictIsExact`), `CountsDeadlines`, `ArmedTogether`, and that the programs end (`Decides`) |
| `VirtualMemoryTests` | the code's own constants; 11 fetch faults, 34 trap faults, 12 cache faults, counting none as one | 94 k | `FetchVerdictIsExact`, `BothHalvesMiss` (the third fetch test finds the ITLB empty), `OnlyStackInKernel`, `LoadsFindStores`, `RegistersKept` (by page faults and by system calls), `ScratchReady`; `TrapVerdictIsExact` and `CacheVerdictIsExact`: who passes each program; `MissesL1HitsL2`: every load of `stream_hammer.c` takes the path its comment names; `EveryoneDecides` |
| `Accelerators` | 4 cores, all four mains | 28 k | `OperandsStand` until the device is done, `ResponseIsRight`, `TypeGoesWithItsData`: the engine takes the TLVs in order and whole, each word under its own type; `EveryoneFinishes`: no poll hangs |

`ImplementsForkJoin` carries liveness: every core joins and core 0 returns, or core 0
refuses the data. In the suites it is checked for each program.

Five runs find a disagreement between the code and what its text says; see section 6.

### Bounds, and why they are enough

* *Cores.* Four for the walk (core 0, one just released, one not yet, one in the
  lock), three for the small programs (an SC can fail because of either of the
  others), two for the sort (ownership is between two). The proofs of section 5
  remove this bound, and those on epochs, iterations and data, for what is safety.
* *Epochs.* Three: the barrier is reused twice, so an arrival for the next epoch can
  meet a straggler of the last.
* *Iterations.* Two per core in `LrscAdd`; two passes through a body of two in
  `AmoAdd`, so that both loop edges are crossed; two elements in `McSanity`.
* *Data.* Elements 0 and 1 suffice for the bubble sort because it compares and
  exchanges positions that do not depend on the data (0-1 principle). That some cores refuse
  the data and others do not would show as a deadlock, which the run checks for, and in
  no property. For each
  program there is a `MATRIX` or `DATA` one element too short and one long enough.
* *Interrupts.* Delays shrink, keeping the order between them: a delay loop outlasts
  a store, the next deadline is further off than handler and return. Up to three
  stores are in flight in the priority tests, two at the PLIC. The store of `s_mideleg.S`
  lands at any time: nothing in the program waits for it. In the timer tests `Latency` is 2,
  so that the handler's store to `mtimecmp` always lands within the handler, as
  `CountsDeadlinesHolds` has to assume. The proofs replace the numbers by inequalities
  between them, or by nothing.
* *Virtual memory.* `paging.c` and `mapping.c` run with their real constants; the fetch
  suite with its seven tests and three passes. The proofs about demand paging hold
  for any number of entries in a page table and any number of accesses.
* *Trap-and-judge.* No bound: the programs are finite and run whole. One fault per
  hart: a program can only be blamed for what a single fault shows.
* *Caches.* The real 64 and 128 sets of eight ways, and the real 100 blocks of
  `cache_hammer.c`. `dram_stress.c` writes 1200 blocks instead of 10000: the second
  level holds 1024, so 176 of them, like the 8976 of the program, have to come back from
  DRAM. LRU is an assumption on the hardware; with another policy `MissesL1HitsL2`
  need not hold of the blocks that are still in the first level. The hammers' caches see the
  accesses of the loops alone: the few blocks of `main`'s stack and of instructions are left
  out, and in the second level that `stream_hammer.c` fills to the last way they would take
  ways from the data.
* *Accelerators.* Vectors of the program's own length in the dot product and the
  loopback; the five TLVs of `streaming_accelerator_zipline.c`, of two, three, one, six and
  two words, a length of one among them. The device memory holds the ten words of the
  loopback, which is more than the five of the dot product. The proofs hold for any
  lengths and any number of TLVs. A core's stores go through one FIFO, whatever the device:
  that a store to one device overtakes one to another is outside the model.
* *Random numbers.* `mc_rand` for its whole cycle of 65 535; `mc_rand_bit` for 400
  calls by one core, well past the point where the wide seeds have been shifted out,
  and two calls by each of two cores, so that a load and a store can straddle two.

### Fairness

Every fairness assumption is that a hart keeps executing instructions, that a store
that was issued arrives, or that a started accelerator answers.

* Weak fairness per core is enough in spite of the lock: whenever the lock is free
  some waiting core takes it, each core takes it a bounded number of times, so in
  the end only the starving core is left, and `Lock` stays enabled.
* `LrscAdd` needs strong fairness of the successful SC. The architecture promises
  eventual success for constrained LR/SC loops, which the loop is; a reservation
  that is dropped for ever would otherwise starve a core. `LoseReservation` is not
  fair.
* The interrupt and virtual-memory suites have one hart: weak fairness of its steps.
  Nothing is claimed, and nothing assumed, of the end of the cache hammers: they are
  counted loops. `EveryoneDecides` excepts the one program that does not end,
  `eaddr_fault.c` on a hart that does not save MPP.
* `ImplementsBarrier` is safety; `EveryoneLeavesOnce` needs each core to go on, and
  `SeedRecurs` that `mc_rand` is called again.
* A posted store arrives and a started device answers: weak fairness of `Deliver`,
  `Compute`, `MoveWord` and `EndTransfer`.

## 4. Memory model

The multicore models take shared memory to be sequentially consistent. The cores
under test issue in order and their caches are coherent, and the shared globals are
volatile. `lock()` and `unlock()` have no `aq`/`rl` bits and no memory clobber; on a
hart with weaker ordering, or where a compiler moves a non-volatile access, the
critical sections would not be closed, and none of the results below would carry
over. Likewise the models take `lock()` in unoptimised form, and the poll in
`bp_wait_for_completion`, through a pointer that is not volatile, to load each time.

## 5. Proofs

Every theorem is a theorem about the specification TLC runs, for every value of its
constants that satisfies the named assumptions of the component modules. Each proof
module states an inductive invariant `Inv` that is the conjunction of named parts, has
one lemma per action with one step per part it can disturb, and `Invariance`, that `Inv`
always holds; the other theorems follow from `Inv` or, for the refinements and
`ArmedTogether`, from `Inv` before the step. TLC checks the `Inv` of `RandWalk` in its run; the
others held under TLC, on the constants of their runs, before they were proved.

### The multicore programs: `RandWalkProofs`, `McProgramsProofs`, `WorkShareSortProofs`

For every `NumCores` in `Nat \ {0}`; the number of epochs, of iterations, of arrays per core and
of elements is any natural number (in `mc_template.c` at least one element), the unrolled body of `mc_amo_add.c` divides its `N` as its
comment asks, an array has at least one element, and its elements are integers.

| module | theorem | states |
|---|---|---|
| `RandWalkProofs` | `TypeCorrect` | the counters never pass the number of cores |
| | `MutualExclusionHolds` | mutual exclusion, core 0's plain store to the lock included |
| | `ResetIsSafe`, `LockstepHolds`, `ExitIsLast` | core 0's reset loses nobody; epochs in lockstep; core 0 returns last |
| | `BarrierRefinement`, `ForkJoinRefinement` | `Spec => Barrier!Spec`, `Spec => Program!Spec` |
| `McProgramsProofs` | `NoLostAddHolds` | `amo_target` is the number of iterations completed, whatever SCs fail |
| | `AmoPassesHolds` | all adds are done when core 0 compares |
| | `SanityVerdictIsExactHolds` | core 0 returns 0 exactly when the elements fit and it read none wrong |
| | `SumsOverInitialisedHolds` | sums only over initialised elements; all are stored when core 0 returns 0 |
| | `ForkJoinRefinement` | each of the four implements `ForkJoin` or refuses its data |
| `WorkShareSortProofs` | `OneOwnerHolds` | an array is taken once, by one core, as it was linked |
| | `SortedOrRefusedHolds` | every array sorted and a permutation of what it was, or `DATA` untouched |
| | `ForkJoinRefinement` | the program implements `ForkJoin` or refuses its data |

None of these is inductive. That core 0's reset of the walk loses nobody depends on what
the count counts, which depends on the lock, which depends on core 0 having cleared it
before anyone could take it. The invariants say:

* `RandWalk`: `Roles` and `StartGate` (only core 0 sets up, closes and joins; nobody moves
  first); `LoadedIsCurrent` (what a core loaded is still in memory when it stores, which is
  where mutual exclusion is used); `CounterValues` (each counter is the number of cores past
  the corresponding store, but for the steps in which core 0 closes an epoch); `AllCounted`
  and `Skew` (while it does, everyone is counted and waits, so nobody is ever more than an
  epoch away from core 0).
* `McPrograms`: a reservation still held vouches for the value loaded with it, so an SC that
  succeeds adds one to the count of adds done; the position of a core in the unrolled
  loop says how many adds it has done; `sum = i` as long as no read was wrong and less ever
  after; `stored` is the set of cores past the store.
* `WorkShareSort`: `PoolInv` (the pool hands out the arrays in order; index and count agree
  except while the holder of the lock is between them), `OwnerInv` (an array below
  `read_count` has an owner or is done, and only one owner), `DataInv` (what is not taken is as
  it was, what is done is in order, and where the owner's sort has got to says which
  part of its array is). That the elements stay the same is said value by value, by the number of
  positions that hold it, which an exchange leaves alone.

`McUtilProofs` has the facts on cardinalities of sets of cores that the counters rest
on: a set of cores has between 0 and `NumCores` elements, and as many only if it is all
of them; adding a core adds one.

### The helpers: `McHelpersProofs`

For any number of cores and of calls. `BarrierRefinement`: repeated calls of `sync_barrier` are
a safe barrier. The counter is the number of calls made (`CounterIsCalls`), and as long as
nobody has left a call that somebody has not made (`NobodyAhead`), it is `num_cores * k` only
when all have made the k-th. `RegistersNeverZeroHolds`: no register of
`mc_rand_bit` is ever all zeros. The lowest bit set of a register is either shifted down or,
when it reaches the lowest tap, fed back at the top (`UpdatedAlive`), which needs the second
and third registers to have a bit at or above their lowest tap (`Alive`): they drop the bits
below it without feeding them back. A race stores only values computed from such a register.

### Demand paging: `VirtualMemoryTestsProofs`

For tables of any size and any number of accesses, `paging.c` with fewer than there are
entries in a table, and a kernel image within half of one, which is what the address of the
page tables at `0x800F0000` leaves it (`DemandPagingAssumption`).

| theorem | states |
|---|---|
| `OnlyStackInKernelHolds` | the loops of the two user programs store nowhere in the kernel image; their stack is in its first frame and in no other |
| `LoadsFindStoresHolds` | during the loads every walk that does not fault leads to the value stored for it |
| `PagingNeverFails` | neither program gives up |

The handler maps a page over what a table held before, and pages of three sizes overlap.
The invariant says what the tables can hold, whatever has been touched so far
(`PagingTables`, `MappingTables`); so the n-th store has one `Target`, no two have the same, and
memory holds what has been stored (`Stores`). Virtual page 0, with the user's code and stack, is
not mapped or is the first frame (`WalkOfStack`). `AccessInv` has the TLB agree with the tables.

### `stream_hammer.c`: `VirtualMemoryTestsProofs`

For a second level of any number of sets that is a multiple of eight (`CacheHammerAssumption`), and
a cache with any of the faults. `MissesL1HitsL2Holds`: every load of the check
misses in the first level and hits in the second, which is what the program is for (`stream_hammer.c:10`).

Which blocks a set of the first level holds follows from how often it has been used:
`Times(s, n)` of the first `n` accesses fall in set `s`, and `Row` lists its ways, most recent
first, after `j` writes and `k` reads. The writes go through sixteen blocks of
each set in order and the reads through every second one of them, so the next block is
never among the last eight (`AccessMisses`). Half of them are still there when the check
begins: it meets them in the order in which its own loads push them out.
In the second level no more than eight blocks of the program fall in a set (`L2WaysFit`), so what
is written is never pushed out (`IntoL2Keeps`), and a victim of the first level, written back or
lost, was there before (`AccessOf`).

### The cache hammers: `VirtualMemoryTestsProofs`

`HammerNeverBlamesWrongly`: `stream_hammer.c`, `cache_hammer.c`, `cache_flush.c` and
`dram_stress.c` fail only on a hart that loses what they depend on, for any number of sets and
any `HammerN` and `StressN`. It is one direction of `CacheVerdictIsExact`, and the one that
matters to who runs the tests: no false alarm.

The invariant is `NoneLost`, with `WrittenBlocks` the blocks stored to so far: what the first level holds is
good and was written by the program; and a written block that is not dirty in the first level is
sound below it: its line in the second level has the data, and if that line is clean, or there is
none, so has DRAM. That a line in the first level is good is not inductive without the last
part, since a victim that is clean is thrown away: what is below it is all that is left.
`AccessLosesNothing` takes an access through it: the line fetched, the victim of
the second level, the new line of the first, the victim of the first into the second and a
second victim there. That `stream_hammer.c` stands losses of the second level uses
`L2WaysFit`: there are no victims there.

### The cache tests: `VirtualMemoryTestsProofs`

`CacheTestsJudgeExactly`: the four programs of `CacheTests` say of each memory system what
`CacheVerdictIsExact` says they do, wherever the frame of `main` starts in its block. What the argument
follows is not the cache but what a cached load of a word would find, `Seen`: a store through
the cache changes it at its word (`CachedStores`), a load nowhere (`CachedLoads`), and an access round the cache
only where memory was written or a write-back lost something (`UncachedAccesses`). The invariants say what is seen of
each word, and what memory has of it, before each instruction. For
`execute_dynamic_instruction.c` they have to hold between the instructions as well: evicting the
block leaves `Seen` as it is (`EvictKeeps`), and what is fetched ahead is right only after the `fence.i`
(`PrefetchKeeps`), which is why it must empty the instruction cache.

### The trap paths: `VirtualMemoryTestsProofs`

| theorem | states |
|---|---|
| `RegistersKeptHolds` | a page fault gives the user its 31 registers back and resumes it where it faulted; a system call those a call must preserve, and `t0` and `t1` |
| `ScratchReadyHolds` | whenever user mode runs, `sscratch` and `mscratch` hold the frame |

For every sequence of faults and system calls, and whatever the C handlers leave in the
registers a call may change. What both need is what holds before the k-th instruction of each path (`EntryAt`,
`PopAt`, `VectorAt`, `ReturnAt`): where the user's `sp` is while `sp` is the frame (in `sscratch`, then
in `t0`, then in its slot), how many registers are in their slots or back from them, and
that the path the CPU left by is the one its `mode` and its `mscratch` fit.
`EntryPath`, `PopPath` and `VectorPaths` say what the k-th instruction of each is; `EntrySteps` and
the lemmas behind it take what holds before it to what holds before the next.

### The fetch suite: `VirtualMemoryTestsProofs`

| theorem | states |
|---|---|
| `FetchVerdictHolds` | the suite fails exactly on the harts with a fault, except the one whose instruction is wrong when the first half alone misses in the ITLB |
| `FetchVerdictIsExactHolds` | so `FetchVerdictIsExact`, if `FaultKinds` is without that fault |
| `BothHalvesMissHolds` | test 3 is what its name says, in each of the three passes and on every hart |

`u_test_main` has 32 items (`MainPath`); `FetchState(q, r)` says what holds at item `r` of
pass `q`, at each stage of a gadget. Two things make it inductive. `Fresh` and `Translated` follow
the ITLB: the gadgets before have other pages, except the one of test 4 that brings in the second
page on purpose, and the machine-mode call has emptied it at the start of the pass. And
`NotMissed` follows the fault: each kind is `FoundBy` one gadget, in the pass whose cache mode it
shows in, and the suite is never past it. Until then no gadget can tell
the hart from a right one; in it, what is logged, or returned, is not what was expected
(`FetchOfSuccess`, `FetchOfTest5`, `FetchOfTest6`, `FetchOfTest7`). That a hart that does not look at the
second half of a page is found by test 6 takes a way round: it runs the instruction
across the boundary, faults on the next one, and is found by the address.

### The interrupt tests: `InterruptTestsProofs`

| theorem | states | if |
|---|---|---|
| `PriorityVerdictHolds` | a hart that passes `_simultaneous.c` or `_race.c` has the order right; with no stores in flight all three verdicts are exact | |
| `ArmedTogetherHolds` | what these two arm together is pending together when the hart chooses | |
| `ExternalVerdictIsExactHolds` | the external interrupt tests fail exactly on the harts with a fault they look for | `DelaysSuffice` |
| `DelegationVerdictHolds` | what a verdict of `s_mideleg.S` means, however late the store that raises the line | |
| `TimerVerdictIsExactHolds` | the verdicts of the timer tests | `LoopIsLong` |
| `CountsDeadlinesHolds` | `timer_interrupt.c` counts each deadline once | `StoresAreEarly` |

The hypotheses are what the sources leave to the hardware, as weak as the proof found them:

* `DelaysSuffice` (`Latency <= CountTo + 1`): a store to the PLIC lands before the delay loop of
  1000 iterations behind it ends.
* `LoopIsLong` (`2 * (First - 3) > InstretLimit`): a hart for which `wfi` is a nop executes
  more than the limit while it waits. In `wfi.c`, 100000 ticks against 5000 instructions.
* `StoresAreEarly` (`Latency <= 2`): the store to `mtimecmp` has landed when the handler has
  printed its line.

Each program has its part of the invariant. For `s_mideleg.S` it is what has been looked at and
ruled out, phase by phase and by a look that found the line up or not, and where the line stands (`RuledOut`, `LineFollows`); for the
external tests which faults would have been found by now (`FaultsFound`), and what the line is
and what is in flight for it at each position of the program (`SLineInv`, `MLineInv`); for the timer tests
what is counted, left and executed. The priority tests, where any number of
stores may be in flight, need the outcome of the flight: `Raises` says of each interrupt, at each
position of `main` and of the handler, whether it will be up or down once all stores in
flight have landed (`Up`, `Down`, `Steady`); `Learnt` says what each trap taken has told of the hart's
order (`Leads`). No bound on the stores is needed for the two siblings, whose handlers
wait for what they have armed; `interrupt_priority.c` does not, and nothing is claimed of it
with stores in flight.

### The accelerators: `AcceleratorsProofs`

For any number of cores; vectors and loopback data of any length that fits the device
memory (`VdpAssumption`); any sequence of TLVs that lie behind one another in memory, empty
ones and an empty request included (`ZiplineAssumption`).

| theorem | states |
|---|---|
| `OperandsStandHolds` | from `START_CMD` until the device is done, pointers, length and operands are what the driver wrote |
| `ResponseIsRightHolds` | `main` reads the dot product of its vectors, the loopback returns the words it was given |
| `TypeGoesWithItsDataHolds` | the engine takes the words of the request in order, each under the type of its own TLV |

A store the core has executed is not yet a store the device has seen, so neither the
position of the core nor the registers alone say how far the two have come. What does
is `Done(c)`, the first operation of the script that has not taken effect. `Behind` says that
the stores on their way are the stretch of the script from there to the core's
position. A load or a poll waits for that stretch to be empty, so the state of the device is a
function of `Done(c)` and of how far the device is with what it was told: `Configured` and
`Started` for a call of the dot product, `LoopbackState` for the loopback, `Sending(i, r, ...)`
for the r-th operation of the pass for the i-th TLV, and `Fetching(r, ...)` for the response.
`Sending` counts the words taken against the words of the TLVs before; that they are in order and
typed is `TypeGoesWithItsData` itself, which is why the invariant contains it. That the
answer is the dot product needs only that both sides apply the same function to the same
vectors: `DotProduct` is recursive and stays opaque.

### Only model-checked

* Liveness: the liveness halves of the refinements, `EveryoneLeavesOnce`, `SeedRecurs`, `Decides`,
  `EveryoneDecides`, `EveryoneFinishes`. Fairness and `ENABLED` are outside what the provers do.
* The verdicts `TrapVerdictIsExact`, and `CacheVerdictIsExact` beyond `CacheTestsJudgeExactly` and
  `HammerNeverBlamesWrongly`. The 27 trap-and-judge programs have no parameters and run whole on
  every hart the model knows, so TLC's result is not a sample. That the cache hammers do find what they look for would
  not be a theorem as it stands: `cache_hammer.c` and `dram_stress.c` find a lost
  write-back only when `HammerN` and `StressN` are large enough to fill the caches, as they are
  in the source.
* What the recursive functions compute (the dot product, the sum of adds): they are
  evaluated, never reasoned about for every input.


## 6. What the code does not promise

Five disagreements have a run whose counterexample shows them.

| run | where | what |
|---|---|---|
| `SyncBarrierReused` | `mc_util.h:68` | Called twice, `sync_barrier` can leave a core spinning on a value the counter has passed. Line 66 means it to be called repeatedly. No program of the repository calls it. |
| `McTemplateBounds` | `mc_template.c:39` | `MATRIX` has `N` elements and is initialised over `MATRIX_SIZE`, sixteen times as many in the defaults. |
| `MidelegCleanUp` | `s_mideleg.S:103` | The clean-up stores to `0x30c004`, the line was raised through `0x30c008` and stays up. |
| `MstatusLegalization` | `mstatus_legalization.S:27` | MPP is masked in place and compared with an unshifted 2: a hart that keeps the hypervisor encoding passes too. |
| `TrapEntryFrame` | `vm_start.S:179` | The frame is reserved for 35 words and `trap_entry` stores a 36th, the word at `STACK_TOP`; the C type has 37. |

Other things met while modelling, told here and not run:

* `mc_sanity.c:81` says no core should reach the last return; every core but core 0
  does. A wrong value found by such a core is discarded with its return value.
* `mc_util.h:38` calls the feedbacks of `mc_rand_bit` of maximum length; the shift is
  to the right and neither taps the bit shifted out, so states merge.
  `!regA` (line 39) is the logical not of a word that is never zero
  (`RegistersNeverZero`), hence 0, so that register C never reaches the output, although
  lines 26 and 37 have it take part; the bitwise `~` was meant. No caller judges the bits.
* The handler of `interrupt_priority.c` arms two sources without the fence its two
  siblings have, so a store in flight at `mret` can make a hart of the wrong order
  pass. With stores in flight `PriorityVerdict` and `ArmedTogether` speak of the siblings. All three
  handlers clear a level-triggered source without a fence; a late store makes a right
  hart fail.
* `s_mideleg.S` raises the line and goes on to supervisor mode without a fence or a delay:
  if the third phase reads `sip` before the store has landed it cannot see a hart that
  shows the undelegated line, and that hart passes. If the fourth phase is too soon as well,
  a right hart fails. `DelegationVerdict` says which verdicts can be wrong, and that
  they are exact when both reads find the line up.
* `m_external_interrupt.c` does not reset `cnt` before its first delay, so a store has one
  instruction less to land there than before the others; `DelaysSuffice` is stated for it.
* `timer_interrupt.c:31` is outside the unbraced `if` of line 27. `amo_interrupt.c` passes
  when no interrupt is ever taken. On a hart that ignores `sfence.vma`, `mapping.c` passes.
* The comment at `misaligned_instructions_virtual_memory.c:130` describes a fetch whose
  first half misses; the nop before it has brought that page in, so both halves
  hit. Lines 45-46 say control flow never returns to machine mode; the calls that
  change the cache mode do.
* The stack of `paging.c` and `mapping.c` in user mode starts at `PGSIZE - 0x100`
  (`paging.c:95`, `mapping.c:105`), in virtual page 0, which both map to the first page of
  the image: it grows down towards code, and nothing in the programs keeps the two
  apart. The model says in which frame it lies, not how far
  it reaches.
* `vm.h:40-41` documents system call 0 as `bp_finish`. `m_trap_vector` takes it only
  from user mode; the supervisor handlers that call `terminate` reach the default
  handler instead.
* `bp_vdp_config_accelerator` ignores its parameter `operation`, and
  `ACCEL_VPD_OPERATION` is never written. `bp_call_loopback_accelerator` reads its write
  counter at `SACCEL_MEM_BASE`, the address of the first word it has just copied in:
  what is printed as the count is `input_array[0]`.
* At `uncached_mode.c:87-91` an `if` guards the next one, and the load of `check_addr5`: it is
  never loaded once `check_addr4` was right. Line 70 says all the values are loaded.
* `l2_uncached.c` passes only where the high addresses alias the low ones and
  `high_dram_alias.c` only where they do not: no one configuration passes both.
* `eaddr_fault.c` never clears MPRV. On a hart that traps without saving MPP, the
  handler's report page-faults into the handler for ever.
* `epc.c` wants the low two bits of `mepc` to read as zero, which is right only without
  compressed instructions. `instr_fault_stval.c` needs the opposite, an `mepc` that keeps
  bit 1 without them, to reach its misaligned target: on a hart that passes `epc.c` its `mret` goes to
  `_start` and the test comes to a verdict it did not earn. `instr_fault_mtval.c` needs
  `mepc` to be the target, where the privileged specification has the jump.
* `readonly.c:13` and `misaligned_ldst.c:16,28` skip eight bytes, which is the instruction and
  its report only if the compiler makes the report one four-byte jump. Their handlers,
  and those of other `.c` tests, leave by an `mret` in the middle of a C function,
  whose frame stays on the stack.
* `cache_hammer.c` and `cache_flush.c` shift by byte offsets and add the result to a
  `uint64_t` pointer: strides are eight times too long, and `cache_flush.c` visits 8 of
  the 128 sets. A flush that does nothing is found by no program (`cache_flush.c:5` says it
  "requires manual verification"), and a second level that loses write-backs is not found by
  `stream_hammer.c`, which just fits in it.
* `instr_coherence.c:25` advances a `uint64_t` pointer by 8 and copies one word in eight of the
  function it then calls. `misaligned_instructions_advanced_jumps.S` returns from `some_fn_2`
  through `ra`, whatever register it was called with.
* `mstatus_fs.c` has the header comment of another test, and its handler passes for any
  cause. `domain_fault.c` says domain 7 in a comment and uses 6.

## 7. What is not modelled

* The misaligned jump tests, floating point, divides, the C++ tests: results of
  single instructions, without state or protocol. Bit-level arithmetic is better
  tested than model-checked.
* `amo_nonblocking.c` (back-to-back atomics of one core, a hazard inside the pipeline),
  `l2_cache_ops.c` (operations of a cache no source here describes, without a check),
  `instr_coherence.c` (runs whatever lies between the words it copied).
* What the compiled C trap handlers do to the stack and the caller-saved registers
  of the code they interrupt: the sources do not fix it.
* In `vm_start.S` the zeroing of the registers and the default `m_handle_u_ecall`, a jump to
  `bp_finish`.
* The position of a player in `mc_rand_walk.c`, which nothing else depends on.
* Several harts running a one-hart program at once: each has its own CSRs, and the
  addresses of the cache hammers overlap with equal data.
* Output (`bp_cprint`) and the text it prints, the start-up code, `memset`, the loop and ROM
  programs, build files.

## 8. Plan

Done, in this order: the multicore protocol and `mc_rand_walk.c` with its proofs; the
other multicore programs; the interrupt tests; the virtual-memory tests; the dot-product
and loopback accelerators; the zipline transfers; the trap-and-judge programs; the cache
tests and hammers; the raced `mc_rand_bit`. Then the proofs: the small multicore programs
and the sort with their refinements of `ForkJoin`; the helpers; demand paging; all the
interrupt tests; the accelerators; the cache hammers; the trap paths; the
fetch suite; the cache tests.

Left, in the order in which it would say most about the programs:

1. `TrapVerdictIsExact` as a theorem: the 27 programs are data, so its invariant would be a
   table of what each of them has seen at each of its operations. TLC goes through the same table.
2. The other half of `CacheVerdictIsExact` for caches of any size, from bounds on `HammerN` and
   `StressN`: that what is lost is met by the check.
3. The programs of section 7.
