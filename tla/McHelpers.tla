----------------------------- MODULE McHelpers ------------------------------
(***************************************************************************)
(* The helpers of mc_util.h that the multicore programs of this directory  *)
(* do not call in a loop of their own: sync_barrier and the two            *)
(* generators, one at a time.  What only the others use is Unused.         *)
(***************************************************************************)
EXTENDS Integers

CONSTANTS NumCores, Rounds, CallsAlone, CallsRacing

VARIABLES
  running,
  calls, pc, entry, barrier,            \* sync_barrier
  lfsr,                                 \* mc_rand
  callers, reg, held, step, bits        \* mc_rand_bit

barrierOnly == <<calls, pc, entry, barrier>>
bitOnly == <<callers, reg, held, step, bits>>
vars == <<running, barrierOnly, lfsr, bitOnly>>

Barrier == INSTANCE SyncBarrier
Rand    == INSTANCE McRand

ASSUME HelpersAssumption ==
  /\ Barrier!NumCoresAssumption /\ Barrier!RoundsAssumption
  /\ Rand!CallsAssumption

Unused == "unused"

NoLfsr == lfsr = -1
NoBarrier == calls = Unused /\ pc = Unused /\ entry = Unused /\ barrier = Unused
NoBit ==
  callers = Unused /\ reg = Unused /\ held = Unused /\ step = Unused /\ bits = Unused

Init ==
  \/ running = "sync_barrier" /\ Barrier!Init /\ NoLfsr /\ NoBit
  \/ running = "mc_rand" /\ Rand!RandInit /\ NoBarrier /\ NoBit
  \/ running = "mc_rand_bit" /\ Rand!BitInit /\ NoBarrier /\ NoLfsr

BarrierStep(c) ==
  running = "sync_barrier" /\ Barrier!Core(c) /\ UNCHANGED <<running, lfsr, bitOnly>>
RandStep ==
  running = "mc_rand" /\ Rand!mc_rand /\ UNCHANGED <<running, barrierOnly, bitOnly>>
BitStep ==
  running = "mc_rand_bit" /\ Rand!mc_rand_bit /\ UNCHANGED <<running, barrierOnly, lfsr>>

Next == (\E c \in Barrier!Cores : BarrierStep(c)) \/ RandStep \/ BitStep

Spec == Init /\ [][Next]_vars

\* The harts keep executing; a generator that runs is called again and again.
FairSpec ==
  /\ Spec
  /\ \A c \in Barrier!Cores : WF_vars(BarrierStep(c))
  /\ WF_vars(RandStep)

-----------------------------------------------------------------------------
(* Properties *)

Idle == [c \in Barrier!Cores |-> 0]

Abstract ==
  INSTANCE EpochBarrier
    WITH arrived <- IF running = "sync_barrier" THEN Barrier!Arrivals ELSE Idle,
         left <- IF running = "sync_barrier" THEN entry ELSE Idle

\* Safety: no core returns from its k-th call of sync_barrier before every core
\* has made it.
ImplementsBarrier == Abstract!Spec

\* Used once, the barrier lets everyone go.
EveryoneLeavesOnce ==
  \A c \in Barrier!Cores :
    (/\ running = "sync_barrier" /\ calls = 1 /\ pc[c] = "spin"
     /\ \A d \in Barrier!Cores : Barrier!Arrivals[d] >= Barrier!Arrivals[c])
      ~> (running = "sync_barrier" /\ pc[c] = "work")

\* mc_rand comes back to its seed for ever: it is on a cycle, whatever tail a
\* feedback without the bit shifted out would give it.
SeedRecurs == running = "mc_rand" => []<>(lfsr = Rand!SEED)

\* No register of mc_rand_bit is driven to zero, raced or not.
RegistersNeverZero == running = "mc_rand_bit" => Rand!RegistersNeverZero
=============================================================================
