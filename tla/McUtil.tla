------------------------------- MODULE McUtil -------------------------------
(***************************************************************************)
(* What the multicore tests share: the lock of mc_util.h and the start and *)
(* join protocol every mc_*.c file repeats after mc_template.c.            *)
(*                                                                         *)
(* One core is one process.  pc[c] is the control point of core c, reg[c]  *)
(* the register a `mem += 1' on a volatile global goes through: it is one  *)
(* load and one store, and another core can run between the two.  Shared   *)
(* memory is sequentially consistent (an in-order core with a coherent     *)
(* cache); see the README for what that leaves out.                        *)
(***************************************************************************)
EXTENDS Integers

CONSTANT NumCores       \* PARAM_CC_X_DIM * PARAM_CC_Y_DIM

ASSUME NumCoresAssumption == NumCores \in Nat \ {0}

Cores == 0 .. NumCores - 1

VARIABLES
  pc,                   \* control point of each core
  reg,                  \* value loaded by the `+=' a core is executing
  ret,                  \* what main() returned on each core, or NotReturned
  global_lock,
  start_barrier_mem,
  end_barrier_mem

mcVars == <<pc, reg, ret, global_lock, start_barrier_mem, end_barrier_mem>>

NotReturned == -1

-----------------------------------------------------------------------------
(* Control *)

Goto(c, from, to) ==
  /\ pc[c] = from
  /\ pc' = [pc EXCEPT ![c] = to]

\* `return code' from main; what the other variables of core c held is dead.
Return(c, from, code) ==
  /\ Goto(c, from, "returned")
  /\ ret' = [ret EXCEPT ![c] = code]

-----------------------------------------------------------------------------
(* lock() and unlock() of mc_util.h.  A failed amoswap writes 1 over 1 and  *)
(* the core spins: a stuttering step, so Lock is the swap that returns 0.   *)

LockWithoutTest(c, from, to) ==
  /\ Goto(c, from, to)
  /\ global_lock' = 1

Lock(c, from, to) ==
  /\ Goto(c, from, to)
  /\ global_lock = 0
  /\ global_lock' = 1

UnlockForgotten(c, from, to) ==
  /\ Goto(c, from, to)
  /\ UNCHANGED global_lock

Unlock(c, from, to) ==
  /\ Goto(c, from, to)
  /\ global_lock' = 0

(* The two halves of `mem += 1'. *)
LoadReg(c, from, to, mem) ==
  /\ Goto(c, from, to)
  /\ reg' = [reg EXCEPT ![c] = mem]

-----------------------------------------------------------------------------
(* Start: core 0 initialises, then publishes 0xdeadbeef; the others wait.   *)

EntryPoint(c) == IF c = 0 THEN "setup" ELSE "await"

ClearLock(next) ==
  /\ Goto(0, "setup", next)
  /\ global_lock' = 0
  /\ UNCHANGED <<reg, ret, start_barrier_mem, end_barrier_mem>>

Publish(first) ==
  /\ Goto(0, "publish", first)
  /\ start_barrier_mem' = "deadbeef"
  /\ UNCHANGED <<reg, ret, global_lock, end_barrier_mem>>

AwaitNothing(c, first) ==
  /\ Goto(c, "await", first)
  /\ UNCHANGED <<reg, ret, global_lock, start_barrier_mem, end_barrier_mem>>

AwaitStart(c, first) ==
  /\ start_barrier_mem = "deadbeef"
  /\ Goto(c, "await", first)
  /\ UNCHANGED <<reg, ret, global_lock, start_barrier_mem, end_barrier_mem>>

-----------------------------------------------------------------------------
(* Join: each core adds one to the end barrier under the lock, core 0 waits *)
(* for all of them.                                                         *)

EndLock(c) ==
  /\ Lock(c, "end_lock", "end_load")
  /\ UNCHANGED <<reg, ret, start_barrier_mem, end_barrier_mem>>

EndLoad(c) ==
  /\ LoadReg(c, "end_load", "end_store", end_barrier_mem)
  /\ UNCHANGED <<ret, global_lock, start_barrier_mem, end_barrier_mem>>

EndStore(c) ==
  /\ Goto(c, "end_store", "end_unlock")
  /\ end_barrier_mem' = reg[c] + 1
  /\ UNCHANGED <<reg, ret, global_lock, start_barrier_mem>>

EndUnlock(c) ==
  /\ Unlock(c, "end_unlock", IF c = 0 THEN "join" ELSE "idle")
  /\ UNCHANGED <<reg, ret, start_barrier_mem, end_barrier_mem>>

EndBarrier(c) == EndLock(c) \/ EndLoad(c) \/ EndStore(c) \/ EndUnlock(c)

\* Core 0: `while (end_barrier_mem != num_cores)', then return 0.
Join ==
  /\ end_barrier_mem = NumCores
  /\ Return(0, "join", 0)
  /\ UNCHANGED <<reg, global_lock, start_barrier_mem, end_barrier_mem>>

-----------------------------------------------------------------------------
(* The .bss image: every global starts at zero. *)
MemInit ==
  /\ reg = [c \in Cores |-> 0]
  /\ ret = [c \in Cores |-> NotReturned]
  /\ global_lock = 0
  /\ start_barrier_mem = "zero"
  /\ end_barrier_mem = 0

\* The run is over: core 0 has returned and the others spin in while (1).
Finished == pc[0] = "returned" /\ \A c \in Cores \ {0} : pc[c] = "idle"

McTypeOK(Labels) ==
  /\ pc \in [Cores -> Labels]
  /\ reg \in [Cores -> Nat]
  /\ ret \in [Cores -> {NotReturned, 0, 1}]
  /\ global_lock \in {0, 1}
  /\ start_barrier_mem \in {"zero", "deadbeef"}
  /\ end_barrier_mem \in Nat

-----------------------------------------------------------------------------
(* Parts of the properties of the programs built on this protocol. *)

SetupLabels == {"setup", "init_data", "publish", "await"}
EndCritical == {"end_load", "end_store", "end_unlock"}
Joined      == {"end_unlock", "join", "idle", "returned"}

\* At most one core is at a label of CS, and only while the lock is taken.
LockHeld(CS) ==
  /\ (\E c \in Cores : pc[c] \in CS) => global_lock = 1
  /\ \A c, d \in Cores : pc[c] \in CS /\ pc[d] \in CS => c = d

(* Refinement mapping onto ForkJoin. *)
Started == start_barrier_mem = "deadbeef"

Phase == [c \in Cores |->
            IF pc[c] \in SetupLabels THEN "waiting"
            ELSE IF pc[c] \in Joined THEN "joined" ELSE "running"]

ExitCode == ret[0]
=============================================================================
