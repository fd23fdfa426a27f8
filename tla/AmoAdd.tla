------------------------------- MODULE AmoAdd -------------------------------
(***************************************************************************)
(* mc_amo_add.c with the LOOP macro of mc_asm_loop.h: every core executes  *)
(* N atomic adds to amo_target, unrolled BODY at a time, and core 0        *)
(* compares the total at the end.  There is no start barrier and nobody    *)
(* writes global_lock outside lock and unlock.                             *)
(***************************************************************************)
EXTENDS McUtil

CONSTANTS
  N,                    \* adds per core
  BODY                  \* adds in LOOP_BODY: 100 in mc_asm_loop.h

\* "N must be multiple of 100" (mc_amo_add.c)
UnrollAssumption == BODY \in Nat \ {0} /\ N \in Nat /\ N % BODY = 0

VARIABLES
  amo_target,
  a6,                   \* the loop's iteration counter
  k                     \* amoadds of LOOP_BODY already executed

addVars == <<amo_target, a6, k>>
vars == <<mcVars, addVars>>

iters == N \div BODY

Init ==
  /\ MemInit
  /\ pc = [c \in Cores |-> "loop_check"]
  /\ amo_target = 0
  /\ a6 = [c \in Cores |-> 0]
  /\ k = [c \in Cores |-> 0]

\* addi a6, a6, 1; bge a7, a6, loop_body
LoopCheck(c) ==
  /\ a6' = [a6 EXCEPT ![c] = @ + 1]
  /\ k' = [k EXCEPT ![c] = 0]
  /\ Goto(c, "loop_check", IF iters >= a6'[c] THEN "loop_body" ELSE "end_lock")
  /\ UNCHANGED <<reg, ret, global_lock, start_barrier_mem, end_barrier_mem>>
  /\ UNCHANGED amo_target

BodyOneShort(c) ==
  /\ k' = [k EXCEPT ![c] = @ + 1]
  /\ Goto(c, "loop_body", IF k[c] + 2 < BODY THEN "loop_body" ELSE "loop_check")
  /\ amo_target' = amo_target + 1
  /\ UNCHANGED <<reg, ret, global_lock, start_barrier_mem, end_barrier_mem>>
  /\ UNCHANGED a6

\* One amoadd.d of LOOP_BODY
LoopBody(c) ==
  /\ k' = [k EXCEPT ![c] = @ + 1]
  /\ Goto(c, "loop_body", IF k[c] + 1 < BODY THEN "loop_body" ELSE "loop_check")
  /\ amo_target' = amo_target + 1
  /\ UNCHANGED <<reg, ret, global_lock, start_barrier_mem, end_barrier_mem>>
  /\ UNCHANGED a6

\* Core 0: wait for the others, then return (amo_target != total)
Compare ==
  /\ end_barrier_mem = NumCores
  /\ Return(0, "join", IF amo_target # NumCores * N THEN 1 ELSE 0)
  /\ UNCHANGED <<reg, global_lock, start_barrier_mem, end_barrier_mem, addVars>>

Core(c) ==
  \/ LoopCheck(c)
  \/ LoopBody(c)
  \/ EndBarrier(c) /\ UNCHANGED addVars
  \/ c = 0 /\ Compare

Terminated == Finished /\ UNCHANGED vars

Next == (\E c \in Cores : Core(c)) \/ Terminated

Spec == Init /\ [][Next]_vars

-----------------------------------------------------------------------------
(* Properties *)

Labels == {"loop_check", "loop_body", "end_lock"}
            \union EndCritical \union Joined

\* Every variable keeps its type.
TypeOK ==
  /\ McTypeOK(Labels)
  /\ amo_target \in 0 .. NumCores * N
  /\ a6 \in [Cores -> 0 .. iters + 1]
  /\ k \in [Cores -> 0 .. BODY]

\* The test passes: core 0 sees all the adds of all the cores, so the
\* unrolled loop runs exactly N of them and the join waits for the last one.
Passes == ret[0] # NotReturned => ret[0] = 0
=============================================================================
