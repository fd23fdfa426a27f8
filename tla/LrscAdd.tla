------------------------------ MODULE LrscAdd -------------------------------
(***************************************************************************)
(* mc_lrsc_add.c: every core adds one to amo_target N times with an        *)
(* LR/SC retry loop.  The reservation of a core is lost when another core  *)
(* stores to amo_target, and may be lost at any moment (an eviction, a     *)
(* probe): then its SC fails and the loop retries.                         *)
(***************************************************************************)
EXTENDS McUtil, FiniteSets

CONSTANT N              \* iterations of the main loop of each core

IterationsAssumption == N \in Nat

VARIABLES
  amo_target,
  reserved,             \* core c holds a reservation on amo_target
  sc_load,              \* what the last lr.d of core c returned
  i                     \* loop counter

addVars == <<amo_target, reserved, sc_load, i>>
vars == <<mcVars, addVars>>

Init ==
  /\ MemInit
  /\ pc = [c \in Cores |-> EntryPoint(c)]
  /\ amo_target = 0
  /\ reserved = [c \in Cores |-> FALSE]
  /\ sc_load = [c \in Cores |-> 0]
  /\ i = [c \in Cores |-> 0]

-----------------------------------------------------------------------------
(* The loop of thread_main, entered at .Lcheck *)

\* addi i, i, 1; bge iters, i, .Llrsc
Check(c) ==
  /\ i' = [i EXCEPT ![c] = @ + 1]
  /\ Goto(c, "check", IF N >= i'[c] THEN "lr" ELSE "end_lock")
  /\ UNCHANGED <<reg, ret, global_lock, start_barrier_mem, end_barrier_mem>>
  /\ UNCHANGED <<amo_target, reserved, sc_load>>

LoadReserved(c) ==
  /\ Goto(c, "lr", "sc")
  /\ reserved' = [reserved EXCEPT ![c] = TRUE]
  /\ sc_load' = [sc_load EXCEPT ![c] = amo_target]
  /\ UNCHANGED <<reg, ret, global_lock, start_barrier_mem, end_barrier_mem>>
  /\ UNCHANGED <<amo_target, i>>

(* A store conditional without a look at the reservation. *)
StoreAnyway(c) ==
  /\ Goto(c, "sc", "check")
  /\ amo_target' = sc_load[c] + 1
  /\ reserved' = [d \in Cores |-> FALSE]
  /\ UNCHANGED <<reg, ret, global_lock, start_barrier_mem, end_barrier_mem>>
  /\ UNCHANGED <<sc_load, i>>

\* sc.d writes 0: the store is done and every reservation is gone.
StoreConditional(c) ==
  /\ reserved[c]
  /\ Goto(c, "sc", "check")
  /\ amo_target' = sc_load[c] + 1
  /\ reserved' = [d \in Cores |-> FALSE]
  /\ UNCHANGED <<reg, ret, global_lock, start_barrier_mem, end_barrier_mem>>
  /\ UNCHANGED <<sc_load, i>>

\* sc.d writes non-zero: bnez sc_result, .Llrsc
StoreFails(c) ==
  /\ ~reserved[c]
  /\ Goto(c, "sc", "lr")
  /\ UNCHANGED <<reg, ret, global_lock, start_barrier_mem, end_barrier_mem>>
  /\ UNCHANGED addVars

\* The hardware drops a reservation.
LoseReservation(c) ==
  /\ reserved[c]
  /\ reserved' = [reserved EXCEPT ![c] = FALSE]
  /\ UNCHANGED <<mcVars, amo_target, sc_load, i>>

-----------------------------------------------------------------------------
(* main *)

InitTarget ==
  /\ Goto(0, "init_data", "publish")
  /\ amo_target' = 0
  /\ UNCHANGED <<reg, ret, global_lock, start_barrier_mem, end_barrier_mem>>
  /\ UNCHANGED <<reserved, sc_load, i>>

Start(c) ==
  \/ /\ IF c = 0 THEN ClearLock("init_data") \/ Publish("check")
                 ELSE AwaitStart(c, "check")
     /\ UNCHANGED addVars
  \/ c = 0 /\ InitTarget

Finish(c) ==
  /\ EndBarrier(c) \/ (c = 0 /\ Join)
  /\ UNCHANGED addVars

Core(c) ==
  \/ Start(c)
  \/ Check(c) \/ LoadReserved(c) \/ StoreConditional(c) \/ StoreFails(c)
  \/ Finish(c)

Terminated == Finished /\ UNCHANGED vars

Next == (\E c \in Cores : Core(c) \/ LoseReservation(c)) \/ Terminated

Spec == Init /\ [][Next]_vars

-----------------------------------------------------------------------------
(* Properties *)

Labels == SetupLabels \union Joined \union EndCritical
            \union {"check", "lr", "sc", "end_lock"}

\* Every variable keeps its type; the loop counter stops at N + 1.
TypeOK ==
  /\ McTypeOK(Labels)
  /\ amo_target \in Nat
  /\ reserved \in [Cores -> BOOLEAN]
  /\ sc_load \in [Cores -> Nat]
  /\ i \in [Cores -> 0 .. N + 1]

\* The adds core c has done: at .Llrsc with counter i it has done i - 1.
AddsOf(c) == IF pc[c] \in {"lr", "sc"} \/ i[c] = N + 1 THEN i[c] - 1 ELSE i[c]

\* <<c, n>> for the n-th add of core c, once it is done.
AddsDone == {p \in Cores \X (1 .. N) : p[2] <= AddsOf(p[1])}

\* No add is lost and none is done twice, whatever SCs fail and reservations
\* vanish: amo_target is the number of iterations completed by all cores.
NoLostAdd == amo_target = Cardinality(AddsDone)

\* A reservation vouches for the value it was taken with.
ReservationIsFresh ==
  \A c \in Cores : pc[c] = "sc" /\ reserved[c] => sc_load[c] = amo_target
=============================================================================
