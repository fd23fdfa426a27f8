----------------------------- MODULE CacheTests -----------------------------
(***************************************************************************)
(* uncached_mode.c, l2_uncached.c, high_dram_alias.c and                   *)
(* execute_dynamic_instruction.c: one hart with a write-back data cache    *)
(* that can be switched off, addresses that bypass it, and an instruction  *)
(* cache that may fetch ahead of the program.                              *)
(***************************************************************************)
EXTENDS Integers, Sequences

VARIABLES
  test, finish,
  hart,                 \* the hart and the layout of the stack (rigid)
  at,                   \* the next instruction of the program
  dcache_mode,          \* the configuration register at 0x200408: cached?
  blocks,               \* "invalid", "clean" or "dirty", for each block
  line, dram, icache    \* the value of each word in the three places

cacheVars == <<hart, at, dcache_mode, blocks, line, dram, icache>>
vars == <<test, finish, cacheVars>>

SetMode(cached) == [do |-> "mode", cached |-> cached]
Store(w, v) == [do |-> "store", w |-> w, v |-> v]
Load(w, v) == [do |-> "load", w |-> w, v |-> v]         \* and compare
FenceI == [do |-> "fence_i"]
Call(w, v) == [do |-> "call", w |-> w, v |-> v]

-----------------------------------------------------------------------------
(* The programs *)

\* access_addr and the nine check_addr, words of main's frame
CheckAddrs == <<"c1", "c2", "c3", "c4", "c5", "c6", "c7", "c8", "c9">>
StoreChecks == [k \in 1 .. 8 |-> Store(CheckAddrs[k], 64)]

\* check_addr5 is loaded only if check_addr4 did not hold 0x40, which has
\* failed by then: the loads are those of 2, 3, 4, 6, 7, 8 and 9.
LoadChecks ==
  [k \in 1 .. 7 |-> Load(CheckAddrs[IF k <= 3 THEN k + 1 ELSE k + 2], 64)]

uncached_mode ==
  <<SetMode(FALSE), Store("access", 128), SetMode(TRUE), Load("access", 128),
    Store("access", 112), Load("access", 112),
    SetMode(FALSE), Store("access", 144), SetMode(TRUE), Load("access", 144),
    Store("access", 96)>>
  \o StoreChecks
  \o <<SetMode(FALSE), Load("access", 96), Load("c1", 64),
       SetMode(TRUE), Store("access", 80), Store("c9", 64), Load("access", 80)>>
  \o LoadChecks

\* low is 0x083000000, high is 0x183000000
l2_uncached ==
  <<Store("high", 57005), Load("high", 57005), Load("low", 57005),
    Store("low", 57005), Store("high", 48879), Load("low", 57005), Load("high", 48879)>>

high_dram_alias ==
  <<SetMode(FALSE), Store("low", 1), Load("low", 1), Store("high", 2), Load("high", 2),
    Load("low", 1), Load("high", 2)>>

DynamicUnfenced ==
  <<Store("i0", 1), Store("i1", 2), Call("i0", 1), Call("i1", 2)>>

\* the two words of the function are copied, then called
execute_dynamic_instruction ==
  <<Store("i0", 1), Store("i1", 2), FenceI, Call("i0", 1), Call("i1", 2)>>

Program ==
  [uncached_mode |-> uncached_mode, l2_uncached |-> l2_uncached,
   high_dram_alias |-> high_dram_alias,
   execute_dynamic_instruction |-> execute_dynamic_instruction]
Tests == DOMAIN Program

-----------------------------------------------------------------------------
(* The memory system *)

Dynamic == {"i0", "i1"}
Words == {"access", "low", "high"} \union {CheckAddrs[k] : k \in 1 .. 9} \union Dynamic

\* The block of a word: the frame of main lies across two.
Block(w) ==
  IF w = "low" THEN "dram" ELSE IF w \in Dynamic THEN "code"
  ELSE IF \E k \in 1 .. hart.split : w = CheckAddrs[k] THEN "frame2" ELSE "frame1"
Blocks == {"dram", "code", "frame1", "frame2"}

CacheFaults ==
  {"none", "load_bypasses", "store_bypasses", "no_writeback", "bypass_evicts",
   "fence_i_keeps_icache", "fence_i_keeps_dcache"}

\* alias: low and high are the same DRAM; split: how the frame falls on the
\* blocks; loses: a word a write-back drops.
Harts ==
  { h \in [fault : CacheFaults, alias : BOOLEAN, split : {0, 1, 5, 9},
           loses : {"nothing", "access", "c2", "c5", "c9"}] :
      h.fault # "none" => h.loses = "nothing" }

Init ==
  /\ test \in Tests
  /\ hart \in Harts
  /\ finish = "none" /\ at = 1
  /\ dcache_mode = TRUE
  /\ blocks = [b \in Blocks |-> "invalid"]
  /\ line = [w \in Words |-> 0] /\ dram = [w \in Words |-> 0]
  /\ icache = [w \in Dynamic |-> -1]            \* nothing fetched

Running == finish = "none" /\ at <= Len(Program[test])
Op == Program[test][at]
Doing(do) == Running /\ Op.do = do

Cell(w) == IF w = "high" /\ hart.alias THEN "low" ELSE w

WrittenBack(bs) ==
  [w \in Words |->
     IF Block(w) \in bs /\ blocks[Block(w)] = "dirty" /\ hart.fault # "no_writeback"
        /\ hart.loses # w
     THEN line[w] ELSE dram[w]]

\* A load or branch to failure
Judge(ok) ==
  IF ok THEN at' = at + 1 /\ UNCHANGED finish ELSE finish' = "fail" /\ UNCHANGED at

SwitchMode ==
  /\ Doing("mode")
  /\ dcache_mode' = Op.cached
  /\ at' = at + 1
  /\ UNCHANGED <<finish, blocks, line, dram, icache>>

Cached(w) == dcache_mode /\ w # "high"

\* A miss fills the block.
CachedAccess ==
  /\ Doing("load") \/ Doing("store")
  /\ Cached(Op.w)
  /\ LET b == Block(Op.w)
         filled == [w \in Words |-> IF Block(w) = b /\ blocks[b] = "invalid"
                                    THEN dram[w] ELSE line[w]]
     IN IF Op.do = "load"
        THEN /\ line' = filled
             /\ blocks' = [blocks EXCEPT ![b] = IF @ = "invalid" THEN "clean" ELSE @]
             /\ Judge(filled[Op.w] = Op.v)
        ELSE /\ line' = [filled EXCEPT ![Op.w] = Op.v]
             /\ blocks' = [blocks EXCEPT ![b] = "dirty"]
             /\ Judge(TRUE)
  /\ UNCHANGED <<dcache_mode, dram, icache>>

\* With the cache off an access first writes back and drops a copy; an address
\* that bypasses the cache leaves the copy alone.
UncachedAccess ==
  /\ Doing("load") \/ Doing("store")
  /\ ~Cached(Op.w)
  /\ LET w == Cell(Op.w)
         ignores == \/ Op.w = "high" /\ hart.fault # "bypass_evicts"
                    \/ Op.do = "load" /\ hart.fault = "load_bypasses"
                    \/ Op.do = "store" /\ hart.fault = "store_bypasses"
         before == IF ignores THEN dram ELSE WrittenBack({Block(w)})
     IN /\ blocks' = IF ignores THEN blocks ELSE [blocks EXCEPT ![Block(w)] = "invalid"]
        /\ IF Op.do = "load" THEN dram' = before /\ Judge(before[w] = Op.v)
           ELSE dram' = [before EXCEPT ![w] = Op.v] /\ Judge(TRUE)
  /\ UNCHANGED <<dcache_mode, line, icache>>

\* fence.i makes stores visible to fetches, and forgets what was fetched.
SynchroniseFetch ==
  /\ Doing("fence_i")
  /\ IF hart.fault = "fence_i_keeps_dcache" THEN UNCHANGED <<blocks, dram>>
     ELSE /\ dram' = WrittenBack(Blocks)
          /\ blocks' = [b \in Blocks |-> "invalid"]
  /\ IF hart.fault = "fence_i_keeps_icache" THEN UNCHANGED icache
     ELSE icache' = [w \in Dynamic |-> -1]
  /\ at' = at + 1
  /\ UNCHANGED <<finish, dcache_mode, line>>

Fetch(w) == icache' = [icache EXCEPT ![w] = dram[w]]

\* A hit in the instruction cache does not look at memory.
Execute ==
  /\ Doing("call")
  /\ IF icache[Op.w] = -1 THEN Fetch(Op.w) ELSE UNCHANGED icache
  /\ Judge(icache'[Op.w] = Op.v)
  /\ UNCHANGED <<dcache_mode, blocks, line, dram>>

\* At any time the hart may fetch ahead, or make room in the data cache.
Prefetch(w) ==
  /\ Running /\ test = "execute_dynamic_instruction"
  /\ icache[w] = -1
  /\ Fetch(w)
  /\ UNCHANGED <<finish, at, dcache_mode, blocks, line, dram>>

Evict ==
  /\ Running /\ test = "execute_dynamic_instruction"
  /\ blocks["code"] # "invalid"
  /\ dram' = WrittenBack({"code"})
  /\ blocks' = [blocks EXCEPT !["code"] = "invalid"]
  /\ UNCHANGED <<finish, at, dcache_mode, line, icache>>

\* bp_finish(0)
Pass ==
  /\ finish = "none" /\ at = Len(Program[test]) + 1
  /\ finish' = "pass"
  /\ UNCHANGED <<at, dcache_mode, blocks, line, dram, icache>>

HartStep ==
  SwitchMode \/ CachedAccess \/ UncachedAccess \/ SynchroniseFetch \/ Execute \/ Pass

Next ==
  \/ /\ HartStep \/ Evict \/ \E w \in Dynamic : Prefetch(w)
     /\ UNCHANGED <<test, hart>>
  \/ finish # "none" /\ UNCHANGED vars

-----------------------------------------------------------------------------
(* Properties *)

\* uncached_mode.c passes exactly on a hart that writes back before it goes
\* round the cache, except that it looks at neither check_addr5 nor a copy of
\* check_addr9 that has been written back; the two programs about the high
\* addresses want opposite harts; and the copied function runs whatever was
\* fetched or evicted before the fence.i.
CacheVerdictIsExact ==
  /\ test = "uncached_mode" /\ finish # "none" =>
       (finish = "pass" <=>
          /\ hart.fault \notin {"load_bypasses", "store_bypasses", "no_writeback"}
          /\ hart.loses \notin {"access", "c2"})
  /\ test = "l2_uncached" /\ finish # "none" =>
       (finish = "pass" <=> hart.alias /\ hart.fault # "bypass_evicts")
  /\ test = "high_dram_alias" /\ finish # "none" => (finish = "pass" <=> ~hart.alias)
  /\ test = "execute_dynamic_instruction" /\ finish = "fail" =>
       \/ hart.fault \in {"fence_i_keeps_icache", "fence_i_keeps_dcache", "no_writeback"}
=============================================================================
