------------------------------ MODULE RandWalk ------------------------------
(***************************************************************************)
(* mc_rand_walk.c: every core walks for MAX_EPOCHS epochs and meets the    *)
(* others in player_sync after each of them.                               *)
(*                                                                         *)
(* A player's position is private to its core and never read by another    *)
(* one, so player_walk is one step here that leaves the shared state alone *)
(* and the position is not kept.                                           *)
(***************************************************************************)
EXTENDS McUtil, FiniteSets

CONSTANT MAX_EPOCHS

ASSUME MaxEpochsAssumption == MAX_EPOCHS \in Nat

VARIABLES
  epoch,                \* thread_main's local counter, one per core
  epoch_count_mem,      \* cores done with the current epoch
  epoch_barrier_mem     \* epochs core 0 has closed

walkVars == <<epoch, epoch_count_mem, epoch_barrier_mem>>
vars == <<mcVars, walkVars>>

\* while (epoch < MAX_EPOCHS), with the value epoch has on this test
WhileLabel(e) == IF e < MAX_EPOCHS THEN "walk" ELSE "end_lock"

Init ==
  /\ MemInit
  /\ pc = [c \in Cores |-> EntryPoint(c)]
  /\ epoch = [c \in Cores |-> 0]
  /\ epoch_count_mem = 0
  /\ epoch_barrier_mem = 0

-----------------------------------------------------------------------------
(* player_sync, first half: one more core is done with the epoch *)

player_walk(c) ==
  /\ Goto(c, "walk", "sync_lock")
  /\ UNCHANGED <<reg, ret, global_lock, start_barrier_mem, end_barrier_mem>>
  /\ UNCHANGED walkVars

SyncLock(c) ==
  /\ Lock(c, "sync_lock", "count_load")
  /\ UNCHANGED <<reg, ret, start_barrier_mem, end_barrier_mem, walkVars>>

CountLoad(c) ==
  /\ LoadReg(c, "count_load", "count_store", epoch_count_mem)
  /\ UNCHANGED <<ret, global_lock, start_barrier_mem, end_barrier_mem, walkVars>>

CountStore(c) ==
  /\ Goto(c, "count_store", "count_unlock")
  /\ epoch_count_mem' = reg[c] + 1
  /\ UNCHANGED <<reg, ret, global_lock, start_barrier_mem, end_barrier_mem>>
  /\ UNCHANGED <<epoch, epoch_barrier_mem>>

CountUnlock(c) ==
  /\ Unlock(c, "count_unlock", IF c = 0 THEN "gather" ELSE "wait_epoch")
  /\ UNCHANGED <<reg, ret, start_barrier_mem, end_barrier_mem, walkVars>>

-----------------------------------------------------------------------------
(* player_sync, second half on core 0: close the epoch *)

GatherAllButOne ==
  /\ epoch_count_mem >= NumCores - 1
  /\ Goto(0, "gather", "close_lock")
  /\ UNCHANGED <<reg, ret, global_lock, start_barrier_mem, end_barrier_mem>>
  /\ UNCHANGED walkVars

Gather ==
  /\ epoch_count_mem = NumCores
  /\ Goto(0, "gather", "close_lock")
  /\ UNCHANGED <<reg, ret, global_lock, start_barrier_mem, end_barrier_mem>>
  /\ UNCHANGED walkVars

CloseLock ==
  /\ Lock(0, "close_lock", "reset")
  /\ UNCHANGED <<reg, ret, start_barrier_mem, end_barrier_mem, walkVars>>

ResetSkipped ==
  /\ Goto(0, "reset", "barrier_load")
  /\ UNCHANGED <<reg, ret, global_lock, start_barrier_mem, end_barrier_mem>>
  /\ UNCHANGED walkVars

ResetCount ==
  /\ Goto(0, "reset", "barrier_load")
  /\ epoch_count_mem' = 0
  /\ UNCHANGED <<reg, ret, global_lock, start_barrier_mem, end_barrier_mem>>
  /\ UNCHANGED <<epoch, epoch_barrier_mem>>

BarrierLoad ==
  /\ LoadReg(0, "barrier_load", "barrier_store", epoch_barrier_mem)
  /\ UNCHANGED <<ret, global_lock, start_barrier_mem, end_barrier_mem, walkVars>>

BarrierStore ==
  /\ Goto(0, "barrier_store", "close_unlock")
  /\ epoch_barrier_mem' = reg[0] + 1
  /\ UNCHANGED <<reg, ret, global_lock, start_barrier_mem, end_barrier_mem>>
  /\ UNCHANGED <<epoch, epoch_count_mem>>

\* unlock, and epoch = epoch + 1 back in thread_main
CloseUnlock ==
  /\ Unlock(0, "close_unlock", WhileLabel(epoch[0] + 1))
  /\ epoch' = [epoch EXCEPT ![0] = @ + 1]
  /\ UNCHANGED <<reg, ret, start_barrier_mem, end_barrier_mem>>
  /\ UNCHANGED <<epoch_count_mem, epoch_barrier_mem>>

(* player_sync, second half on the other cores, and epoch = epoch + 1 *)

WaitForOldEpoch(c) ==
  /\ epoch_barrier_mem >= epoch[c]
  /\ Goto(c, "wait_epoch", WhileLabel(epoch[c] + 1))
  /\ epoch' = [epoch EXCEPT ![c] = @ + 1]
  /\ UNCHANGED <<reg, ret, global_lock, start_barrier_mem, end_barrier_mem>>
  /\ UNCHANGED <<epoch_count_mem, epoch_barrier_mem>>

WaitEpoch(c) ==
  /\ epoch_barrier_mem = epoch[c] + 1
  /\ Goto(c, "wait_epoch", WhileLabel(epoch[c] + 1))
  /\ epoch' = [epoch EXCEPT ![c] = @ + 1]
  /\ UNCHANGED <<reg, ret, global_lock, start_barrier_mem, end_barrier_mem>>
  /\ UNCHANGED <<epoch_count_mem, epoch_barrier_mem>>

-----------------------------------------------------------------------------
(* main *)

Start(c) ==
  /\ IF c = 0 THEN ClearLock("publish") \/ Publish(WhileLabel(0))
              ELSE AwaitStart(c, WhileLabel(0))
  /\ UNCHANGED walkVars

player_sync(c) ==
  \/ SyncLock(c) \/ CountLoad(c) \/ CountStore(c) \/ CountUnlock(c)
  \/ /\ c = 0
     /\ \/ Gather \/ CloseLock \/ ResetCount
        \/ BarrierLoad \/ BarrierStore \/ CloseUnlock
  \/ WaitEpoch(c)

Finish(c) ==
  /\ EndBarrier(c) \/ (c = 0 /\ Join)
  /\ UNCHANGED walkVars

Core(c) == Start(c) \/ player_walk(c) \/ player_sync(c) \/ Finish(c)

Terminated == Finished /\ UNCHANGED vars

Next == (\E c \in Cores : Core(c)) \/ Terminated

Spec == Init /\ [][Next]_vars

\* Each hart keeps executing instructions.  Locks are taken a bounded number
\* of times, so weak fairness is enough for every core to get the lock.
FairSpec == Spec /\ \A c \in Cores : WF_vars(Core(c))
-----------------------------------------------------------------------------
(* Properties *)

CountCritical == {"count_load", "count_store", "count_unlock"}
CloseCritical == {"reset", "barrier_load", "barrier_store", "close_unlock"}
Critical == CountCritical \union CloseCritical \union EndCritical

\* Labels at which a core has been counted in epoch_count_mem.
Arrived == {"count_unlock", "gather", "close_lock", "wait_epoch"}
             \union CloseCritical

Labels == SetupLabels \union Joined \union Critical \union Arrived
            \union {"walk", "sync_lock", "end_lock"}

\* Every variable keeps its type; the counters never pass the core count.
TypeOK ==
  /\ McTypeOK(Labels)
  /\ epoch \in [Cores -> 0 .. MAX_EPOCHS]
  /\ epoch_count_mem \in 0 .. NumCores
  /\ epoch_barrier_mem \in 0 .. MAX_EPOCHS

\* global_lock protects the three shared counters: one core at a time is
\* between lock and unlock, core 0's store to the lock in main included.
MutualExclusion == LockHeld(Critical)

\* Core 0 zeroes epoch_count_mem only when no arrival can be lost by it:
\* every other core has been counted for this same epoch and is waiting.
ResetLosesNobody ==
  pc[0] = "reset" => \A c \in Cores \ {0} :
                       pc[c] = "wait_epoch" /\ epoch[c] = epoch[0]

\* Cores walk in step: no core is ever two epochs ahead of another one, and
\* one that waits has not been overtaken by the value it waits for
\* (`while (epoch_barrier_mem != cur_epoch+1)' tests for that value alone).
Lockstep ==
  \A c, d \in Cores :
    /\ epoch[c] <= epoch[d] + 1
    /\ pc[c] = "wait_epoch" => epoch_barrier_mem <= epoch[c] + 1

\* When core 0 returns from main, every core has walked all its epochs and
\* will not touch shared memory again.
ExitAfterAll ==
  ret[0] # NotReturned =>
    \A c \in Cores : pc[c] \in Joined /\ epoch[c] = MAX_EPOCHS

(* player_sync is an epoch barrier: a core arrives with the store of        *)
(* epoch_count_mem and leaves with its own epoch = epoch + 1.               *)
ArrivedCount ==
  [c \in Cores |-> IF pc[c] \in Arrived THEN epoch[c] + 1 ELSE epoch[c]]

Barrier == INSTANCE EpochBarrier
             WITH Rounds <- MAX_EPOCHS, arrived <- ArrivedCount, left <- epoch

Program == INSTANCE ForkJoin
             WITH started <- Started, phase <- Phase, exit_code <- ExitCode

\* No core leaves epoch e before every core has finished epoch e, and every
\* core that arrives at the barrier leaves it.
ImplementsBarrier == Barrier!FairSpec

\* The program starts after core 0's initialisation, and core 0 returns
\* after, and always after, all cores have joined.
ImplementsForkJoin == Program!FairSpec
-----------------------------------------------------------------------------
(* The inductive invariant: why the properties above hold *)

\* Cores counted for the epoch core 0 is in, and cores past the end barrier.
Counted == {c \in Cores : pc[c] \in Arrived /\ epoch[c] = epoch[0]}
Ended == {c \in Cores : pc[c] \in Joined}

\* The labels between core 0's reset of the count and its unlock.
Closing == {"barrier_load", "barrier_store", "close_unlock"}

\* Only core 0 sets up, closes epochs, joins and returns; the others wait.
Roles ==
  /\ \A c \in Cores \ {0} :
       pc[c] \notin {"setup", "publish", "gather", "close_lock", "join",
                     "returned"} \union CloseCritical
  /\ pc[0] \notin {"await", "wait_epoch", "idle"}
  /\ ret[0] # NotReturned => pc[0] = "returned"

\* Nothing moves before core 0 publishes.
StartGate ==
  /\ pc[0] \in {"setup", "publish"} <=> ~Started
  /\ ~Started => \A c \in Cores \ {0} : pc[c] = "await"

\* What a core loaded is still what the counter holds when it stores.
LoadedIsCurrent ==
  \A c \in Cores :
    /\ pc[c] = "count_store" => reg[c] = epoch_count_mem
    /\ pc[c] = "barrier_store" => reg[c] = epoch_barrier_mem
    /\ pc[c] = "end_store" => reg[c] = end_barrier_mem

\* A core still has epochs to walk exactly while it is in the main loop.
EpochBounds ==
  \A c \in Cores :
    /\ pc[c] \in SetupLabels => epoch[c] = 0
    /\ pc[c] \in {"walk", "sync_lock", "count_load", "count_store"}
                   \union Arrived => epoch[c] < MAX_EPOCHS
    /\ pc[c] \in {"end_lock"} \union EndCritical \union Joined
         => epoch[c] = MAX_EPOCHS

\* Where every other core is, relative to core 0's epoch.
Skew ==
  \A c \in Cores :
    \/ epoch[c] = epoch[0]
    \/ epoch[c] + 1 = epoch[0] /\ pc[c] = "wait_epoch"
    \/ /\ epoch[c] = epoch[0] + 1
       /\ pc[0] = "close_unlock"
       /\ pc[c] \in {"walk", "sync_lock", "end_lock"}

\* From the end of core 0's gathering on, every core has been counted.
AllCounted ==
  /\ pc[0] \in {"close_lock", "reset", "barrier_load", "barrier_store"}
       => \A c \in Cores : pc[c] \in Arrived /\ epoch[c] = epoch[0]
  /\ pc[0] = "close_unlock"
       => \A c \in Cores \ {0} :
            \/ pc[c] = "wait_epoch" /\ epoch[c] = epoch[0]
            \/ epoch[c] = epoch[0] + 1

\* The three counters are what they count.
CounterValues ==
  /\ epoch_count_mem = IF pc[0] \in Closing THEN 0 ELSE Cardinality(Counted)
  /\ epoch_barrier_mem = IF pc[0] = "close_unlock" THEN epoch[0] + 1
                                                   ELSE epoch[0]
  /\ end_barrier_mem = Cardinality(Ended)

ExitedLast == pc[0] = "returned" => Ended = Cores

\* The conjunction is preserved by every step: it is what makes mutual
\* exclusion, lockstep and the exit of core 0 safe for any number of cores.
Inv ==
  /\ TypeOK
  /\ MutualExclusion
  /\ Roles
  /\ StartGate
  /\ LoadedIsCurrent
  /\ EpochBounds
  /\ Skew
  /\ AllCounted
  /\ CounterValues
  /\ ExitedLast
=============================================================================
