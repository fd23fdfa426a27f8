----------------------------- MODULE CacheHammer ----------------------------
(***************************************************************************)
(* stream_hammer.c, cache_hammer.c, cache_flush.c and dram_stress.c: a     *)
(* core writes to a pattern of blocks, whose data is a function of their   *)
(* address, and reads them back through two levels of write-back caches.   *)
(*                                                                         *)
(* Addresses are counted in blocks of 64 bytes from the core's base.  The  *)
(* caches are external: eight ways, least recently used first out, and at  *)
(* most one fault.                                                         *)
(***************************************************************************)
EXTENDS Integers, SequencesExt

CONSTANTS
  L2Sets,               \* l2_sets: 128
  HammerN,              \* N of cache_hammer.c: 100
  StressN               \* the blocks of dram_stress.c: 10000

CacheHammerAssumption ==
  /\ L2Sets \in Nat \ {0} /\ L2Sets % 8 = 0
  /\ HammerN \in Nat /\ StressN \in Nat

VARIABLES
  test, finish,
  hart,                 \* the fault (rigid)
  at,                   \* the accesses done
  caches,               \* l1 and l2: ways of each set, most recent first; and the
                        \* blocks whose data is in DRAM
  found                 \* history: where the last access of the check found its block

hammerVars == <<hart, at, caches, found>>
vars == <<test, finish, hammerVars>>

Assoc == 8
L1Sets == L2Sets \div 2

-----------------------------------------------------------------------------
(* The programs: a nest of two loops writes, the sets of the second level may *)
(* be flushed, and a second nest reads and compares.                          *)

\* for outer, for inner: an access to outer * outerStride + inner * innerStride
Nest(outer, outerStride, inner, innerStride) ==
  [times |-> outer * inner, inner |-> inner,
   outerStride |-> outerStride, innerStride |-> innerStride]
Block(nest, n) ==
  (n \div nest.inner) * nest.outerStride + (n % nest.inner) * nest.innerStride

StreamWritesHalf == Nest(Assoc, L2Sets, L1Sets, 1)

StreamWrites == Nest(Assoc, L2Sets, L2Sets, 1)
stream_hammer ==
  [writes |-> StreamWrites, flushes |-> 0, reads |-> Nest(Assoc, L2Sets, L1Sets, 1)]

\* The shifts are applied to uint64_t pointers: eight times the strides of a set
\* and of a way.
HammerLoop == Nest(1, 0, HammerN, 8 * L2Sets)
cache_hammer == [writes |-> HammerLoop, flushes |-> 0, reads |-> HammerLoop]

FlushLoop == Nest(L2Sets, L2Sets \div 8, Assoc, 8 * L2Sets)
cache_flush == [writes |-> FlushLoop, flushes |-> L2Sets, reads |-> FlushLoop]

StressLoop == Nest(1, 0, StressN, 1)
dram_stress == [writes |-> StressLoop, flushes |-> 0, reads |-> StressLoop]

Program ==
  [stream_hammer |-> stream_hammer, cache_hammer |-> cache_hammer,
   cache_flush |-> cache_flush, dram_stress |-> dram_stress]
Tests == DOMAIN Program

-----------------------------------------------------------------------------
(* The caches *)

HammerFaults == {"none", "l1_drops", "l2_drops", "flush_drops", "flush_ignored"}

Holds(ways, b) == \E k \in DOMAIN ways : ways[k].block = b
WayOf(ways, b) == CHOOSE k \in DOMAIN ways : ways[k].block = b
Others(ways, b) == IF Holds(ways, b) THEN RemoveAt(ways, WayOf(ways, b)) ELSE ways

\* The ways with a line as the most recent, and what falls out of them
Recent(ways, l) == <<l>> \o Others(ways, l.block)
Used(ways, l) ==
  IF Len(Recent(ways, l)) > Assoc THEN Front(Recent(ways, l)) ELSE Recent(ways, l)
Victims(ways, l) ==
  IF Len(Recent(ways, l)) > Assoc THEN <<Last(ways)>> ELSE <<>>

\* A dirty block goes to DRAM when it leaves the second level.
Evicted(dram, victims, fault) ==
  dram \union {victims[k].block :
                 k \in {j \in DOMAIN victims : victims[j].dirty /\ hart.fault # fault}}

IntoL2(m, l) ==
  LET s == l.block % L2Sets IN
  [m EXCEPT !.l2[s] = Used(@, l), !.dram = Evicted(@, Victims(m.l2[s], l), "l2_drops")]

\* The line of a block as the second level, or DRAM, has it
FromL2(m, b) ==
  LET ways == m.l2[b % L2Sets] IN
  IF Holds(ways, b) THEN ways[WayOf(ways, b)]
  ELSE [block |-> b, dirty |-> FALSE, good |-> b \in m.dram]

\* An access: a miss brings the block in through the second level, and a victim
\* that is dirty goes back to it.
Accessed(m, b, writing) ==
  LET s == b % L1Sets
      ways == m.l1[s]
      line == IF Holds(ways, b) THEN ways[WayOf(ways, b)]
              ELSE [FromL2(m, b) EXCEPT !.dirty = FALSE]
      new == IF writing THEN [block |-> b, dirty |-> TRUE, good |-> TRUE] ELSE line
      m1 == IF Holds(ways, b) THEN m ELSE IntoL2(m, FromL2(m, b))
      victims == Victims(ways, new)
      m2 == IF victims # <<>> /\ victims[1].dirty /\ hart.fault # "l1_drops"
            THEN IntoL2(m1, victims[1]) ELSE m1
  IN [m2 EXCEPT !.l1[s] = Used(@, new)]

Where(m, b) ==
  IF Holds(m.l1[b % L1Sets], b) THEN "l1"
  ELSE IF Holds(m.l2[b % L2Sets], b) THEN "l2" ELSE "dram"

-----------------------------------------------------------------------------
Init ==
  /\ test \in Tests
  /\ finish = "none"
  /\ hart \in [fault : HammerFaults]
  /\ at = 0
  /\ caches = [l1 |-> [s \in 0 .. L1Sets - 1 |-> <<>>],
               l2 |-> [s \in 0 .. L2Sets - 1 |-> <<>>], dram |-> {}]
  /\ found = "none"

Running == finish = "none"
Flushing == Program[test].writes.times
Checking == Flushing + Program[test].flushes
Ended == Checking + Program[test].reads.times

Write ==
  /\ Running /\ at < Flushing
  /\ caches' = Accessed(caches, Block(Program[test].writes, at), TRUE)
  /\ at' = at + 1
  /\ UNCHANGED <<finish, found>>

\* The stores to 0x00400000 for the eight ways of a set of the second level
Flush ==
  /\ Running /\ at \in Flushing .. Checking - 1
  /\ LET s == at - Flushing IN
     caches' = IF hart.fault = "flush_ignored" THEN caches
               ELSE [caches EXCEPT !.l2[s] = <<>>,
                                   !.dram = Evicted(@, caches.l2[s], "flush_drops")]
  /\ at' = at + 1
  /\ UNCHANGED <<finish, found>>

\* if (expected != actual) bp_finish(-1)
Check ==
  /\ Running /\ at \in Checking .. Ended - 1
  /\ LET b == Block(Program[test].reads, at - Checking)
         m == Accessed(caches, b, FALSE)
         ways == m.l1[b % L1Sets]
     IN /\ caches' = m
        /\ found' = Where(caches, b)
        /\ IF ways[WayOf(ways, b)].good THEN at' = at + 1 /\ UNCHANGED finish
           ELSE finish' = "fail" /\ UNCHANGED at

Pass ==
  /\ Running /\ at = Ended
  /\ finish' = "pass"
  /\ UNCHANGED <<at, caches, found>>

Next ==
  \/ (Write \/ Flush \/ Check \/ Pass) /\ UNCHANGED <<test, hart>>
  \/ finish # "none" /\ UNCHANGED vars

Spec == Init /\ [][Next]_vars

-----------------------------------------------------------------------------
(* Properties *)

\* "we can have L1 miss and L2 hit" (stream_hammer.c:10): every load of the
\* check, also of the blocks the first level still held when the check began.
MissesL1HitsL2 ==
  test = "stream_hammer" => found \in {"none", "l2"}

\* A lost write-back of the first level is found by all four programs; one of
\* the second level not by stream_hammer.c, which just fits in it; and a flush
\* that does nothing by none of them.
HammerVerdictIsExact ==
  finish # "none" =>
    (finish = "fail" <=>
       \/ hart.fault = "l1_drops"
       \/ hart.fault = "l2_drops" /\ test # "stream_hammer"
       \/ hart.fault = "flush_drops" /\ test = "cache_flush")
=============================================================================
