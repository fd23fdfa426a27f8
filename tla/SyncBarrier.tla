---------------------------- MODULE SyncBarrier -----------------------------
(***************************************************************************)
(* sync_barrier of mc_util.h, called by every core for entry = 1, 2, ...   *)
(* calls.  The counter is never reset: the value a core waits for is       *)
(* num_cores * entry, and it waits with `!='.                              *)
(***************************************************************************)
EXTENDS Integers, FiniteSets

CONSTANTS
  NumCores,
  Rounds                \* how many times a core may call sync_barrier

NumCoresAssumption == NumCores \in Nat \ {0}
RoundsAssumption == Rounds \in Nat

Cores == 0 .. NumCores - 1

VARIABLES
  calls,                \* how many times each core does, in this program
  pc,
  entry,                \* calls of sync_barrier core c has returned from
  barrier               \* *barrier_addr

vars == <<calls, pc, entry, barrier>>

Init ==
  /\ calls \in 1 .. Rounds
  /\ pc = [c \in Cores |-> "work"]
  /\ entry = [c \in Cores |-> 0]
  /\ barrier = 0

AddTwice(c) ==
  /\ pc[c] = "work"
  /\ entry[c] < calls
  /\ pc' = [pc EXCEPT ![c] = "spin"]
  /\ barrier' = barrier + 2
  /\ UNCHANGED <<entry, calls>>

\* amoadd.d x0, 1, (barrier_addr)
Add(c) ==
  /\ pc[c] = "work"
  /\ entry[c] < calls
  /\ pc' = [pc EXCEPT ![c] = "spin"]
  /\ barrier' = barrier + 1
  /\ UNCHANGED <<entry, calls>>

\* num_cores * entry, for the call core c is in
Expected(c) == NumCores * (entry[c] + 1)

\* while (*barrier_addr != expected) { }
Spin(c) ==
  /\ pc[c] = "spin"
  /\ barrier = Expected(c)
  /\ pc' = [pc EXCEPT ![c] = "work"]
  /\ entry' = [entry EXCEPT ![c] = @ + 1]
  /\ UNCHANGED <<barrier, calls>>

Core(c) == Add(c) \/ Spin(c)

Next == \E c \in Cores : Core(c)

Spec == Init /\ [][Next]_vars

FairSpec == Spec /\ \A c \in Cores : WF_vars(Core(c))

-----------------------------------------------------------------------------
(* Properties *)

\* The calls each core has come to
Arrivals == [c \in Cores |-> IF pc[c] = "spin" THEN entry[c] + 1 ELSE entry[c]]

\* "wait for all cores to increment barrier" (mc_util.h:64): a core whose
\* peers have all incremented the barrier returns from the call.
EveryoneLeaves ==
  \A c \in Cores :
    (pc[c] = "spin" /\ \A d \in Cores : Arrivals[d] >= Arrivals[c]) ~>
      pc[c] = "work"
=============================================================================
