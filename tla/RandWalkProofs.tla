--------------------------- MODULE RandWalkProofs ---------------------------
(***************************************************************************)
(* mc_rand_walk.c for any number of cores and epochs.  The argument:       *)
(*                                                                         *)
(*  - the lock makes `mem += 1' atomic, so a counter's value is the number *)
(*    of cores past its store (LoadedIsCurrent, CounterValues);            *)
(*  - core 0 passes `epoch_count_mem != num_cores' only when every core is *)
(*    counted, and until it advances epoch_barrier_mem nobody can move, so *)
(*    its reset loses no arrival (AllCounted);                             *)
(*  - hence nobody is more than one epoch away from core 0 (Skew), and the *)
(*    value a waiting core tests for has never been stepped over.          *)
(*                                                                         *)
(* One lemma per action shows that it preserves Inv.                       *)
(***************************************************************************)
EXTENDS RandWalk, McUtilProofs

USE CoreSet, NumCoresAssumption, MaxEpochsAssumption
USE DEF SetupLabels, CountCritical, CloseCritical, EndCritical, Critical,
        Arrived, Joined, Closing, NotReturned

\* Inv holds when the harts leave reset.
LEMMA InitInv == Init => Inv
<1> SUFFICES ASSUME Init PROVE Inv
  OBVIOUS
<1>1. TypeOK
  BY DEF Init, MemInit, TypeOK, McTypeOK, Labels, EntryPoint
<1>2. Counted = {} /\ Ended = {}
  BY DEF Init, EntryPoint, Counted, Ended
<1>3. MutualExclusion /\ Roles /\ StartGate /\ LoadedIsCurrent
  BY DEF Init, MemInit, EntryPoint, MutualExclusion, LockHeld, Roles,
         StartGate, Started, LoadedIsCurrent
<1>4. EpochBounds /\ Skew /\ AllCounted /\ ExitedLast
  BY DEF Init, MemInit, EntryPoint, EpochBounds, Skew, AllCounted, ExitedLast
<1>5. CounterValues
  BY <1>2, CountNone DEF Init, MemInit, EntryPoint, CounterValues
<1> QED
  BY <1>1, <1>3, <1>4, <1>5 DEF Inv

\* Core 0 clears the lock before anyone may take it.
LEMMA ClearLockInv ==
  ASSUME Inv, ClearLock("publish"), UNCHANGED walkVars
  PROVE  Inv'
<1> USE DEF ClearLock, Goto, walkVars
<1>1. TypeOK'
  BY DEF Inv, TypeOK, McTypeOK, Labels
<1>2. Counted' = Counted /\ Ended' = Ended
  BY DEF Inv, TypeOK, McTypeOK, Counted, Ended
<1>3. (MutualExclusion /\ Roles /\ StartGate /\ LoadedIsCurrent)'
  BY DEF TypeOK, McTypeOK, MutualExclusion, LockHeld, Roles, StartGate,
         Started, LoadedIsCurrent, Inv
<1>4. (EpochBounds /\ Skew /\ AllCounted)'
  BY DEF Inv, TypeOK, McTypeOK, EpochBounds, Skew, AllCounted, Roles
<1>5. ExitedLast'
  BY <1>2 DEF Inv, TypeOK, McTypeOK, ExitedLast, Roles
<1>6. CounterValues'
  BY <1>2 DEF Inv, TypeOK, McTypeOK, CounterValues, Roles
<1> QED
  BY <1>1, <1>3, <1>4, <1>5, <1>6 DEF Inv

\* Core 0 publishes the start.
LEMMA PublishInv ==
  ASSUME Inv, Publish(WhileLabel(0)), UNCHANGED walkVars
  PROVE  Inv'
<1> USE DEF Publish, WhileLabel, Goto, walkVars
<1>1. TypeOK'
  BY DEF Inv, TypeOK, McTypeOK, Labels
<1>2. Counted' = Counted /\ Ended' = Ended
  BY DEF Inv, TypeOK, McTypeOK, Counted, Ended
<1>3. (MutualExclusion /\ Roles /\ StartGate /\ LoadedIsCurrent)'
  BY DEF TypeOK, McTypeOK, MutualExclusion, LockHeld, Roles, StartGate,
         Started, LoadedIsCurrent, Inv
<1>4. (EpochBounds /\ Skew /\ AllCounted)'
  BY DEF Inv, TypeOK, McTypeOK, EpochBounds, Skew, AllCounted, Roles
<1>5. ExitedLast'
  BY <1>2 DEF Inv, TypeOK, McTypeOK, ExitedLast, Roles
<1>6. CounterValues'
  BY <1>2 DEF Inv, TypeOK, McTypeOK, CounterValues, Roles
<1> QED
  BY <1>1, <1>3, <1>4, <1>5, <1>6 DEF Inv

\* Another core sees the start.
LEMMA AwaitStartInv ==
  ASSUME Inv, NEW c \in Cores, AwaitStart(c, WhileLabel(0)), UNCHANGED walkVars
  PROVE  Inv'
<1> USE DEF AwaitStart, WhileLabel, Goto, walkVars
<1>1. TypeOK'
  BY DEF Inv, TypeOK, McTypeOK, Labels
<1>2. Counted' = Counted /\ Ended' = Ended
  BY DEF Inv, TypeOK, McTypeOK, Counted, Ended
<1>3. (MutualExclusion /\ Roles /\ StartGate /\ LoadedIsCurrent)'
  BY DEF TypeOK, McTypeOK, MutualExclusion, LockHeld, Roles, StartGate,
         Started, LoadedIsCurrent, Inv
<1>4. (EpochBounds /\ Skew /\ AllCounted)'
  BY DEF Inv, TypeOK, McTypeOK, EpochBounds, Skew, AllCounted, Roles
<1>5. ExitedLast'
  BY <1>2 DEF Inv, TypeOK, McTypeOK, ExitedLast, Roles
<1>6. CounterValues'
  BY <1>2 DEF Inv, TypeOK, McTypeOK, CounterValues, Roles
<1> QED
  BY <1>1, <1>3, <1>4, <1>5, <1>6 DEF Inv

\* A player walks.
LEMMA player_walkInv ==
  ASSUME Inv, NEW c \in Cores, player_walk(c)
  PROVE  Inv'
<1> USE DEF player_walk, Goto, walkVars
<1>1. TypeOK'
  BY DEF Inv, TypeOK, McTypeOK, Labels
<1>2. Counted' = Counted /\ Ended' = Ended
  BY DEF Inv, TypeOK, McTypeOK, Counted, Ended
<1>3. (MutualExclusion /\ Roles /\ StartGate /\ LoadedIsCurrent)'
  BY DEF TypeOK, McTypeOK, MutualExclusion, LockHeld, Roles, StartGate,
         Started, LoadedIsCurrent, Inv
<1>4. (EpochBounds /\ Skew /\ AllCounted)'
  BY DEF Inv, TypeOK, McTypeOK, EpochBounds, Skew, AllCounted, Roles
<1>5. ExitedLast'
  BY <1>2 DEF Inv, TypeOK, McTypeOK, ExitedLast, Roles
<1>6. CounterValues'
  BY <1>2 DEF Inv, TypeOK, McTypeOK, CounterValues, Roles
<1> QED
  BY <1>1, <1>3, <1>4, <1>5, <1>6 DEF Inv

\* A core that is done with its epoch takes the lock: core 0 is not between its
\* advance of the barrier and its unlock, so their epochs agree.
LEMMA SyncLockInv ==
  ASSUME Inv, NEW c \in Cores, SyncLock(c)
  PROVE  Inv'
<1> USE DEF SyncLock, Lock, Goto, walkVars
<1>1. TypeOK'
  BY DEF Inv, TypeOK, McTypeOK, Labels
<1>2. Counted' = Counted /\ Ended' = Ended
  BY DEF Inv, TypeOK, McTypeOK, Counted, Ended
<1>3. (MutualExclusion /\ Roles /\ StartGate /\ LoadedIsCurrent)'
  BY DEF TypeOK, McTypeOK, MutualExclusion, LockHeld, Roles, StartGate,
         Started, LoadedIsCurrent, Inv
<1>4. (EpochBounds /\ Skew /\ AllCounted)'
  BY DEF Inv, TypeOK, McTypeOK, EpochBounds, Skew, AllCounted, Roles,
         MutualExclusion, LockHeld
<1>5. ExitedLast'
  BY <1>2 DEF Inv, TypeOK, McTypeOK, ExitedLast, Roles
<1>6. CounterValues'
  BY <1>2 DEF Inv, TypeOK, McTypeOK, CounterValues, Roles
<1> QED
  BY <1>1, <1>3, <1>4, <1>5, <1>6 DEF Inv

\* The load of epoch_count_mem += 1.
LEMMA CountLoadInv ==
  ASSUME Inv, NEW c \in Cores, CountLoad(c)
  PROVE  Inv'
<1> USE DEF CountLoad, LoadReg, Goto, walkVars
<1>1. TypeOK'
  BY DEF Inv, TypeOK, McTypeOK, Labels
<1>2. Counted' = Counted /\ Ended' = Ended
  BY DEF Inv, TypeOK, McTypeOK, Counted, Ended
<1>3. (MutualExclusion /\ Roles /\ StartGate /\ LoadedIsCurrent)'
  BY DEF TypeOK, McTypeOK, MutualExclusion, LockHeld, Roles, StartGate,
         Started, LoadedIsCurrent, Inv
<1>4. (EpochBounds /\ Skew /\ AllCounted)'
  BY DEF Inv, TypeOK, McTypeOK, EpochBounds, Skew, AllCounted, Roles
<1>5. ExitedLast'
  BY <1>2 DEF Inv, TypeOK, McTypeOK, ExitedLast, Roles
<1>6. CounterValues'
  BY <1>2 DEF Inv, TypeOK, McTypeOK, CounterValues, Roles
<1> QED
  BY <1>1, <1>3, <1>4, <1>5, <1>6 DEF Inv

\* The store of epoch_count_mem += 1 counts one more core of core 0's epoch.
LEMMA CountStoreInv ==
  ASSUME Inv, NEW c \in Cores, CountStore(c)
  PROVE  Inv'
<1> USE DEF CountStore, Goto, walkVars
<1>a. epoch[c] = epoch[0] /\ pc[0] \notin Closing
  BY DEF Inv, TypeOK, McTypeOK, Skew, Roles, MutualExclusion, LockHeld
<1>b. Counted \in SUBSET Cores /\ c \notin Counted
  BY DEF Counted
<1>c. reg[c] = Cardinality(Counted)
  BY <1>a DEF Inv, LoadedIsCurrent, CounterValues
<1>d. /\ Cardinality(Counted \union {c}) = reg[c] + 1
      /\ reg[c] + 1 \in 0 .. NumCores
  BY <1>b, <1>c, CountOneMore
<1>1. TypeOK'
  BY <1>d DEF Inv, TypeOK, McTypeOK, Labels
<1>2. Counted' = Counted \union {c} /\ Ended' = Ended
  BY <1>a DEF Inv, TypeOK, McTypeOK, Counted, Ended
<1>3. (MutualExclusion /\ Roles /\ StartGate /\ LoadedIsCurrent)'
  BY DEF TypeOK, McTypeOK, MutualExclusion, LockHeld, Roles, StartGate,
         Started, LoadedIsCurrent, Inv
<1>4. (EpochBounds /\ Skew /\ AllCounted)'
  BY DEF Inv, TypeOK, McTypeOK, EpochBounds, Skew, AllCounted, Roles
<1>5. ExitedLast'
  BY <1>2 DEF Inv, TypeOK, McTypeOK, ExitedLast, Roles
<1>6. CounterValues'
  BY <1>2, <1>a, <1>d DEF Inv, TypeOK, McTypeOK, CounterValues, Roles
<1> QED
  BY <1>1, <1>3, <1>4, <1>5, <1>6 DEF Inv

\* The unlock after it.
LEMMA CountUnlockInv ==
  ASSUME Inv, NEW c \in Cores, CountUnlock(c)
  PROVE  Inv'
<1> USE DEF CountUnlock, Unlock, Goto, walkVars
<1>1. TypeOK'
  BY DEF Inv, TypeOK, McTypeOK, Labels
<1>2. Counted' = Counted /\ Ended' = Ended
  BY DEF Inv, TypeOK, McTypeOK, Counted, Ended
<1>3. (MutualExclusion /\ Roles /\ StartGate /\ LoadedIsCurrent)'
  BY DEF TypeOK, McTypeOK, MutualExclusion, LockHeld, Roles, StartGate,
         Started, LoadedIsCurrent, Inv
<1>4. (EpochBounds /\ Skew /\ AllCounted)'
  BY DEF Inv, TypeOK, McTypeOK, EpochBounds, Skew, AllCounted, Roles
<1>5. ExitedLast'
  BY <1>2 DEF Inv, TypeOK, McTypeOK, ExitedLast, Roles
<1>6. CounterValues'
  BY <1>2 DEF Inv, TypeOK, McTypeOK, CounterValues, Roles
<1> QED
  BY <1>1, <1>3, <1>4, <1>5, <1>6 DEF Inv

\* Core 0 sees the count of all cores: nobody is missing.
LEMMA GatherInv ==
  ASSUME Inv, Gather
  PROVE  Inv'
<1> USE DEF Gather, Goto, walkVars
<1>1. TypeOK'
  BY DEF Inv, TypeOK, McTypeOK, Labels
<1>2. Counted' = Counted /\ Ended' = Ended
  BY DEF Inv, TypeOK, McTypeOK, Counted, Ended
<1>3. (MutualExclusion /\ Roles /\ StartGate /\ LoadedIsCurrent)'
  BY DEF TypeOK, McTypeOK, MutualExclusion, LockHeld, Roles, StartGate,
         Started, LoadedIsCurrent, Inv
<1>a. Counted = Cores
  BY CountBounds DEF Inv, CounterValues, Counted
<1>4. (EpochBounds /\ Skew /\ AllCounted)'
  BY <1>a DEF Inv, TypeOK, McTypeOK, EpochBounds, Skew, AllCounted, Counted
<1>5. ExitedLast'
  BY <1>2 DEF Inv, TypeOK, McTypeOK, ExitedLast, Roles
<1>6. CounterValues'
  BY <1>2 DEF Inv, TypeOK, McTypeOK, CounterValues, Roles
<1> QED
  BY <1>1, <1>3, <1>4, <1>5, <1>6 DEF Inv

\* Core 0 takes the lock to close the epoch.
LEMMA CloseLockInv ==
  ASSUME Inv, CloseLock
  PROVE  Inv'
<1> USE DEF CloseLock, Lock, Goto, walkVars
<1>1. TypeOK'
  BY DEF Inv, TypeOK, McTypeOK, Labels
<1>2. Counted' = Counted /\ Ended' = Ended
  BY DEF Inv, TypeOK, McTypeOK, Counted, Ended
<1>3. (MutualExclusion /\ Roles /\ StartGate /\ LoadedIsCurrent)'
  BY DEF TypeOK, McTypeOK, MutualExclusion, LockHeld, Roles, StartGate,
         Started, LoadedIsCurrent, Inv
<1>4. (EpochBounds /\ Skew /\ AllCounted)'
  BY DEF Inv, TypeOK, McTypeOK, EpochBounds, Skew, AllCounted, Roles
<1>5. ExitedLast'
  BY <1>2 DEF Inv, TypeOK, McTypeOK, ExitedLast, Roles
<1>6. CounterValues'
  BY <1>2 DEF Inv, TypeOK, McTypeOK, CounterValues, Roles
<1> QED
  BY <1>1, <1>3, <1>4, <1>5, <1>6 DEF Inv

\* Core 0 zeroes the count.
LEMMA ResetCountInv ==
  ASSUME Inv, ResetCount
  PROVE  Inv'
<1> USE DEF ResetCount, Goto, walkVars
<1>1. TypeOK'
  BY DEF Inv, TypeOK, McTypeOK, Labels
<1>2. Counted' = Counted /\ Ended' = Ended
  BY DEF Inv, TypeOK, McTypeOK, Counted, Ended
<1>3. (MutualExclusion /\ Roles /\ StartGate /\ LoadedIsCurrent)'
  BY DEF TypeOK, McTypeOK, MutualExclusion, LockHeld, Roles, StartGate,
         Started, LoadedIsCurrent, Inv
<1>4. (EpochBounds /\ Skew /\ AllCounted)'
  BY DEF Inv, TypeOK, McTypeOK, EpochBounds, Skew, AllCounted, Roles
<1>5. ExitedLast'
  BY <1>2 DEF Inv, TypeOK, McTypeOK, ExitedLast, Roles
<1>6. CounterValues'
  BY <1>2 DEF Inv, TypeOK, McTypeOK, CounterValues, Roles
<1> QED
  BY <1>1, <1>3, <1>4, <1>5, <1>6 DEF Inv

\* The load of epoch_barrier_mem += 1.
LEMMA BarrierLoadInv ==
  ASSUME Inv, BarrierLoad
  PROVE  Inv'
<1> USE DEF BarrierLoad, LoadReg, Goto, walkVars
<1>1. TypeOK'
  BY DEF Inv, TypeOK, McTypeOK, Labels
<1>2. Counted' = Counted /\ Ended' = Ended
  BY DEF Inv, TypeOK, McTypeOK, Counted, Ended
<1>3. (MutualExclusion /\ Roles /\ StartGate /\ LoadedIsCurrent)'
  BY DEF TypeOK, McTypeOK, MutualExclusion, LockHeld, Roles, StartGate,
         Started, LoadedIsCurrent, Inv
<1>4. (EpochBounds /\ Skew /\ AllCounted)'
  BY DEF Inv, TypeOK, McTypeOK, EpochBounds, Skew, AllCounted, Roles
<1>5. ExitedLast'
  BY <1>2 DEF Inv, TypeOK, McTypeOK, ExitedLast, Roles
<1>6. CounterValues'
  BY <1>2 DEF Inv, TypeOK, McTypeOK, CounterValues, Roles
<1> QED
  BY <1>1, <1>3, <1>4, <1>5, <1>6 DEF Inv

\* The store of epoch_barrier_mem += 1 opens the next epoch: everyone else is
\* waiting for it.
LEMMA BarrierStoreInv ==
  ASSUME Inv, BarrierStore
  PROVE  Inv'
<1> USE DEF BarrierStore, Goto, walkVars
<1>a. reg[0] + 1 = epoch[0] + 1 /\ epoch[0] + 1 \in 0 .. MAX_EPOCHS
  BY DEF Inv, TypeOK, McTypeOK, LoadedIsCurrent, CounterValues, EpochBounds
<1>1. TypeOK'
  BY <1>a DEF Inv, TypeOK, McTypeOK, Labels
<1>2. Counted' = Counted /\ Ended' = Ended
  BY DEF Inv, TypeOK, McTypeOK, Counted, Ended
<1>3. (MutualExclusion /\ Roles /\ StartGate /\ LoadedIsCurrent)'
  BY DEF TypeOK, McTypeOK, MutualExclusion, LockHeld, Roles, StartGate,
         Started, LoadedIsCurrent, Inv
<1>b. \A c \in Cores \ {0} : pc[c] = "wait_epoch"
  BY DEF Inv, TypeOK, McTypeOK, AllCounted, Roles, MutualExclusion, LockHeld
<1>4. (EpochBounds /\ Skew /\ AllCounted)'
  BY <1>b DEF Inv, TypeOK, McTypeOK, EpochBounds, Skew, AllCounted, Roles
<1>5. ExitedLast'
  BY <1>2 DEF Inv, TypeOK, McTypeOK, ExitedLast, Roles
<1>6. CounterValues'
  BY <1>a, <1>2 DEF Inv, TypeOK, McTypeOK, CounterValues, Roles
<1> QED
  BY <1>1, <1>3, <1>4, <1>5, <1>6 DEF Inv

\* Core 0 enters the next epoch, in which nobody has been counted yet.
LEMMA CloseUnlockInv ==
  ASSUME Inv, CloseUnlock
  PROVE  Inv'
<1> USE DEF CloseUnlock, Unlock, WhileLabel, Goto, walkVars
<1>a. epoch[0] + 1 \in 0 .. MAX_EPOCHS
  BY DEF Inv, TypeOK, McTypeOK, EpochBounds
<1>1. TypeOK'
  BY <1>a DEF Inv, TypeOK, McTypeOK, Labels
<1>2. Counted' = {} /\ Ended' = Ended
  BY <1>a DEF Inv, TypeOK, McTypeOK, Counted, Ended, Skew, AllCounted
<1>3. (MutualExclusion /\ Roles /\ StartGate /\ LoadedIsCurrent)'
  BY DEF TypeOK, McTypeOK, MutualExclusion, LockHeld, Roles, StartGate,
         Started, LoadedIsCurrent, Inv
<1>4. (EpochBounds /\ Skew /\ AllCounted)'
  BY <1>a DEF Inv, TypeOK, McTypeOK, EpochBounds, Skew, AllCounted, Roles
<1>5. ExitedLast'
  BY <1>2 DEF Inv, TypeOK, McTypeOK, ExitedLast, Roles
<1>6. CounterValues'
  BY <1>2, <1>a, CountNone DEF Inv, TypeOK, McTypeOK, CounterValues
<1> QED
  BY <1>1, <1>3, <1>4, <1>5, <1>6 DEF Inv

\* Another core sees the next epoch.
LEMMA WaitEpochInv ==
  ASSUME Inv, NEW c \in Cores, WaitEpoch(c)
  PROVE  Inv'
<1> USE DEF WaitEpoch, WhileLabel, Goto, walkVars
<1>a. epoch[c] + 1 \in 0 .. MAX_EPOCHS
  BY DEF Inv, TypeOK, McTypeOK, EpochBounds
<1>1. TypeOK'
  BY <1>a DEF Inv, TypeOK, McTypeOK, Labels
<1>b. \/ epoch[c] = epoch[0] /\ pc[0] = "close_unlock"
      \/ epoch[c] + 1 = epoch[0] /\ pc[0] # "close_unlock"
  BY DEF Inv, TypeOK, McTypeOK, CounterValues, Skew
<1>2. /\ pc[0] # "close_unlock" => Counted' = Counted
      /\ Ended' = Ended
  BY <1>a, <1>b DEF Inv, TypeOK, McTypeOK, Counted, Ended, Roles
<1>3. (MutualExclusion /\ Roles /\ StartGate /\ LoadedIsCurrent)'
  BY DEF TypeOK, McTypeOK, MutualExclusion, LockHeld, Roles, StartGate,
         Started, LoadedIsCurrent, Inv
<1>4. (EpochBounds /\ Skew /\ AllCounted)'
  BY <1>a, <1>b DEF Inv, TypeOK, McTypeOK, EpochBounds, Skew, AllCounted, Roles
<1>5. ExitedLast'
  BY <1>2 DEF Inv, TypeOK, McTypeOK, ExitedLast, Roles
<1>6. CounterValues'
  BY <1>2 DEF Inv, TypeOK, McTypeOK, CounterValues, Roles
<1> QED
  BY <1>1, <1>3, <1>4, <1>5, <1>6 DEF Inv

\* A core that has walked its epochs takes the lock.
LEMMA EndLockInv ==
  ASSUME Inv, NEW c \in Cores, EndLock(c), UNCHANGED walkVars
  PROVE  Inv'
<1> USE DEF EndLock, Lock, Goto, walkVars
<1>1. TypeOK'
  BY DEF Inv, TypeOK, McTypeOK, Labels
<1>2. Counted' = Counted /\ Ended' = Ended
  BY DEF Inv, TypeOK, McTypeOK, Counted, Ended
<1>3. (MutualExclusion /\ Roles /\ StartGate /\ LoadedIsCurrent)'
  BY DEF TypeOK, McTypeOK, MutualExclusion, LockHeld, Roles, StartGate,
         Started, LoadedIsCurrent, Inv
<1>4. (EpochBounds /\ Skew /\ AllCounted)'
  BY DEF Inv, TypeOK, McTypeOK, EpochBounds, Skew, AllCounted, Roles,
         MutualExclusion, LockHeld
<1>5. ExitedLast'
  BY <1>2 DEF Inv, TypeOK, McTypeOK, ExitedLast, Roles
<1>6. CounterValues'
  BY <1>2 DEF Inv, TypeOK, McTypeOK, CounterValues, Roles
<1> QED
  BY <1>1, <1>3, <1>4, <1>5, <1>6 DEF Inv

\* The load of end_barrier_mem += 1.
LEMMA EndLoadInv ==
  ASSUME Inv, NEW c \in Cores, EndLoad(c), UNCHANGED walkVars
  PROVE  Inv'
<1> USE DEF EndLoad, LoadReg, Goto, walkVars
<1>1. TypeOK'
  BY DEF Inv, TypeOK, McTypeOK, Labels
<1>2. Counted' = Counted /\ Ended' = Ended
  BY DEF Inv, TypeOK, McTypeOK, Counted, Ended
<1>3. (MutualExclusion /\ Roles /\ StartGate /\ LoadedIsCurrent)'
  BY DEF TypeOK, McTypeOK, MutualExclusion, LockHeld, Roles, StartGate,
         Started, LoadedIsCurrent, Inv
<1>4. (EpochBounds /\ Skew /\ AllCounted)'
  BY DEF Inv, TypeOK, McTypeOK, EpochBounds, Skew, AllCounted, Roles
<1>5. ExitedLast'
  BY <1>2 DEF Inv, TypeOK, McTypeOK, ExitedLast, Roles
<1>6. CounterValues'
  BY <1>2 DEF Inv, TypeOK, McTypeOK, CounterValues, Roles
<1> QED
  BY <1>1, <1>3, <1>4, <1>5, <1>6 DEF Inv

\* The store of end_barrier_mem += 1 counts one more core at the end.
LEMMA EndStoreInv ==
  ASSUME Inv, NEW c \in Cores, EndStore(c), UNCHANGED walkVars
  PROVE  Inv'
<1> USE DEF EndStore, Goto, walkVars
<1>1. TypeOK'
  BY DEF Inv, TypeOK, McTypeOK, Labels
<1>a. Ended \in SUBSET Cores /\ c \notin Ended
  BY DEF Ended
<1>b. Cardinality(Ended \union {c}) = reg[c] + 1
  BY <1>a, CountOneMore DEF Inv, LoadedIsCurrent, CounterValues
<1>2. Counted' = Counted /\ Ended' = Ended \union {c}
  BY DEF Inv, TypeOK, McTypeOK, Counted, Ended
<1>3. (MutualExclusion /\ Roles /\ StartGate /\ LoadedIsCurrent)'
  BY DEF TypeOK, McTypeOK, MutualExclusion, LockHeld, Roles, StartGate,
         Started, LoadedIsCurrent, Inv
<1>4. (EpochBounds /\ Skew /\ AllCounted)'
  BY DEF Inv, TypeOK, McTypeOK, EpochBounds, Skew, AllCounted, Roles
<1>5. ExitedLast'
  BY <1>2 DEF Inv, TypeOK, McTypeOK, ExitedLast, Roles
<1>6. CounterValues'
  BY <1>2, <1>b DEF Inv, TypeOK, McTypeOK, CounterValues, Roles
<1> QED
  BY <1>1, <1>3, <1>4, <1>5, <1>6 DEF Inv

\* The unlock after it.
LEMMA EndUnlockInv ==
  ASSUME Inv, NEW c \in Cores, EndUnlock(c), UNCHANGED walkVars
  PROVE  Inv'
<1> USE DEF EndUnlock, Unlock, Goto, walkVars
<1>1. TypeOK'
  BY DEF Inv, TypeOK, McTypeOK, Labels
<1>2. Counted' = Counted /\ Ended' = Ended
  BY DEF Inv, TypeOK, McTypeOK, Counted, Ended
<1>3. (MutualExclusion /\ Roles /\ StartGate /\ LoadedIsCurrent)'
  BY DEF TypeOK, McTypeOK, MutualExclusion, LockHeld, Roles, StartGate,
         Started, LoadedIsCurrent, Inv
<1>4. (EpochBounds /\ Skew /\ AllCounted)'
  BY DEF Inv, TypeOK, McTypeOK, EpochBounds, Skew, AllCounted, Roles
<1>5. ExitedLast'
  BY <1>2 DEF Inv, TypeOK, McTypeOK, ExitedLast, Roles
<1>6. CounterValues'
  BY <1>2 DEF Inv, TypeOK, McTypeOK, CounterValues, Roles
<1> QED
  BY <1>1, <1>3, <1>4, <1>5, <1>6 DEF Inv

\* Core 0 sees the count of all cores at the end barrier and returns.
LEMMA JoinInv ==
  ASSUME Inv, Join, UNCHANGED walkVars
  PROVE  Inv'
<1> USE DEF Join, Return, Goto, walkVars
<1>1. TypeOK'
  BY DEF Inv, TypeOK, McTypeOK, Labels
<1>2. Counted' = Counted /\ Ended' = Ended
  BY DEF Inv, TypeOK, McTypeOK, Counted, Ended
<1>3. (MutualExclusion /\ Roles /\ StartGate /\ LoadedIsCurrent)'
  BY DEF TypeOK, McTypeOK, MutualExclusion, LockHeld, Roles, StartGate,
         Started, LoadedIsCurrent, Inv
<1>4. (EpochBounds /\ Skew /\ AllCounted)'
  BY DEF Inv, TypeOK, McTypeOK, EpochBounds, Skew, AllCounted, Roles
<1>a. Ended = Cores
  BY CountBounds DEF Inv, CounterValues, Ended
<1>5. ExitedLast'
  BY <1>2, <1>a DEF ExitedLast
<1>6. CounterValues'
  BY <1>2 DEF Inv, TypeOK, McTypeOK, CounterValues, Roles
<1> QED
  BY <1>1, <1>3, <1>4, <1>5, <1>6 DEF Inv

-----------------------------------------------------------------------------

\* Every step of every core preserves Inv.
LEMMA NextInv == Inv /\ [Next]_vars => Inv'
<1> SUFFICES ASSUME Inv, [Next]_vars PROVE Inv'
  OBVIOUS
<1>1. CASE UNCHANGED vars
  BY <1>1 DEF vars, mcVars, walkVars, Inv, TypeOK, McTypeOK, MutualExclusion,
              LockHeld, Roles, StartGate, Started, LoadedIsCurrent, EpochBounds,
              Skew, AllCounted, CounterValues, Counted, Ended, ExitedLast
<1>2. ASSUME NEW c \in Cores, Start(c) PROVE Inv'
  BY <1>2, ClearLockInv, PublishInv, AwaitStartInv DEF Start
<1>3. ASSUME NEW c \in Cores, player_walk(c) PROVE Inv'
  BY <1>3, player_walkInv
<1>4. ASSUME NEW c \in Cores, player_sync(c) PROVE Inv'
  <2>1. CASE SyncLock(c) \/ CountLoad(c) \/ CountStore(c) \/ CountUnlock(c)
    BY <2>1, SyncLockInv, CountLoadInv, CountStoreInv, CountUnlockInv
  <2>2. CASE Gather \/ CloseLock \/ ResetCount
    BY <2>2, GatherInv, CloseLockInv, ResetCountInv
  <2>3. CASE BarrierLoad \/ BarrierStore \/ CloseUnlock
    BY <2>3, BarrierLoadInv, BarrierStoreInv, CloseUnlockInv
  <2>4. CASE WaitEpoch(c)
    BY <2>4, WaitEpochInv
  <2> QED
    BY <1>4, <2>1, <2>2, <2>3, <2>4 DEF player_sync
<1>5. ASSUME NEW c \in Cores, Finish(c) PROVE Inv'
  BY <1>5, EndLockInv, EndLoadInv, EndStoreInv, EndUnlockInv, JoinInv
     DEF Finish, EndBarrier
<1> QED
  BY <1>1, <1>2, <1>3, <1>4, <1>5 DEF Next, Core, Terminated

\* The invariant of mc_rand_walk.c, for every number of cores and epochs.
THEOREM Invariance == Spec => []Inv
BY InitInv, NextInv, PTL DEF Spec

\* Every variable keeps its type, and epoch_count_mem never passes num_cores
\* (the value core 0 tests for with !=).
THEOREM TypeCorrect == Spec => []TypeOK
<1>1. Inv => TypeOK
  BY DEF Inv
<1> QED
  BY <1>1, Invariance, PTL

\* lock and unlock of mc_util.h protect the shared counters, core 0's
\* `global_lock = 0' in main notwithstanding.
THEOREM MutualExclusionHolds == Spec => []MutualExclusion
<1>1. Inv => MutualExclusion
  BY DEF Inv
<1> QED
  BY <1>1, Invariance, PTL

\* Core 0's `epoch_count_mem = 0' loses no arrival.
THEOREM ResetIsSafe == Spec => []ResetLosesNobody
<1>1. Inv => ResetLosesNobody
  BY DEF Inv, TypeOK, McTypeOK, ResetLosesNobody, AllCounted, Roles,
         MutualExclusion, LockHeld
<1> QED
  BY <1>1, Invariance, PTL

\* Cores walk in step, and the epoch a waiting core tests for with != has
\* not been stepped over.
THEOREM LockstepHolds == Spec => []Lockstep
<1>1. Inv => Lockstep
  BY DEF Inv, TypeOK, McTypeOK, Lockstep, Skew, AllCounted, CounterValues
<1> QED
  BY <1>1, Invariance, PTL

\* Core 0 returns from main only when every core has walked all its epochs
\* and added itself to the end barrier.
THEOREM ExitIsLast == Spec => []ExitAfterAll
<1>1. Inv => ExitAfterAll
  BY DEF Inv, TypeOK, McTypeOK, ExitAfterAll, ExitedLast, Roles, Ended,
         EpochBounds
<1> QED
  BY <1>1, Invariance, PTL
-----------------------------------------------------------------------------
(* player_sync implements the abstract barrier, main the fork and join *)

\* Steps that neither arrive at nor leave the epoch barrier.
LEMMA BarrierStutter ==
  ASSUME TypeOK, UNCHANGED epoch,
         \A c \in Cores : pc'[c] \in Arrived <=> pc[c] \in Arrived
  PROVE  UNCHANGED Barrier!vars
BY DEF Barrier!vars, ArrivedCount

\* The store of epoch_count_mem is the arrival at the barrier.
LEMMA StoreArrives ==
  ASSUME Inv, NEW c \in Cores, CountStore(c)
  PROVE  Barrier!Arrive(c)
<1> USE DEF CountStore, Goto, Inv, TypeOK, McTypeOK
<1>1. epoch[c] = ArrivedCount[c] /\ epoch[c] < MAX_EPOCHS
  BY DEF ArrivedCount, EpochBounds
<1>2. ArrivedCount' = [ArrivedCount EXCEPT ![c] = @ + 1]
  BY DEF ArrivedCount
<1> QED
  BY <1>1, <1>2 DEF Barrier!Arrive

\* Core 0 leaves it with the unlock after its advance of the barrier.
LEMMA UnlockLeaves ==
  ASSUME Inv, CloseUnlock
  PROVE  Barrier!Leave(0)
<1> USE DEF CloseUnlock, Unlock, Goto, WhileLabel, Inv, TypeOK, McTypeOK
<1>1. epoch[0] + 1 \in 0 .. MAX_EPOCHS
  BY DEF EpochBounds
<1>2. epoch[0] < ArrivedCount[0] /\ UNCHANGED ArrivedCount
  BY <1>1 DEF ArrivedCount
<1>3. \A d \in Cores : ArrivedCount[0] <= ArrivedCount[d]
  BY DEF ArrivedCount, AllCounted
<1> QED
  BY <1>2, <1>3 DEF Barrier!Leave, Barrier!Cores, Cores

\* Another core leaves it when it sees the value it waits for.
LEMMA WaitLeaves ==
  ASSUME Inv, NEW c \in Cores, WaitEpoch(c)
  PROVE  Barrier!Leave(c)
<1> USE DEF WaitEpoch, Goto, WhileLabel, Inv, TypeOK, McTypeOK
<1>1. epoch[c] + 1 \in 0 .. MAX_EPOCHS
  BY DEF EpochBounds
<1>2. epoch[c] < ArrivedCount[c] /\ UNCHANGED ArrivedCount
  BY <1>1 DEF ArrivedCount
<1>3. \A d \in Cores : ArrivedCount[c] <= ArrivedCount[d]
  BY DEF ArrivedCount, AllCounted, Skew, CounterValues
<1> QED
  BY <1>2, <1>3 DEF Barrier!Leave, Barrier!Cores, Cores

\* Every step of the program is a step of the abstract barrier or none.
LEMMA BarrierStep == Inv /\ [Next]_vars => [Barrier!Next]_(Barrier!vars)
<1> SUFFICES ASSUME Inv, [Next]_vars PROVE [Barrier!Next]_(Barrier!vars)
  OBVIOUS
<1> USE DEF Goto, Lock, Unlock, LoadReg, Return, walkVars, WhileLabel
<1>a. TypeOK
  BY DEF Inv
<1>1. CASE UNCHANGED vars
  BY <1>1 DEF vars, mcVars, Barrier!vars, ArrivedCount
<1>2. ASSUME NEW c \in Cores, Start(c) PROVE UNCHANGED Barrier!vars
  BY <1>2, <1>a, BarrierStutter
     DEF Start, ClearLock, Publish, AwaitStart, TypeOK, McTypeOK
<1>3. ASSUME NEW c \in Cores, player_walk(c) PROVE UNCHANGED Barrier!vars
  BY <1>3, <1>a, BarrierStutter DEF player_walk, TypeOK, McTypeOK
<1>4. ASSUME NEW c \in Cores, player_sync(c)
      PROVE  Barrier!Arrive(c) \/ Barrier!Leave(c) \/ UNCHANGED Barrier!vars
  <2>1. CASE SyncLock(c) \/ CountLoad(c) \/ CountUnlock(c)
    BY <2>1, <1>a, BarrierStutter
       DEF SyncLock, CountLoad, CountUnlock, TypeOK, McTypeOK
  <2>2. CASE Gather \/ CloseLock \/ ResetCount \/ BarrierLoad \/ BarrierStore
    BY <2>2, <1>a, BarrierStutter
       DEF Gather, CloseLock, ResetCount, BarrierLoad, BarrierStore, TypeOK, McTypeOK
  <2>3. CASE c = 0 /\ CloseUnlock
    BY <2>3, UnlockLeaves
  <2> QED
    BY <1>4, <2>1, <2>2, <2>3, StoreArrives, WaitLeaves DEF player_sync
<1>5. ASSUME NEW c \in Cores, Finish(c) PROVE UNCHANGED Barrier!vars
  BY <1>5, <1>a, BarrierStutter
     DEF Finish, EndBarrier, EndLock, EndLoad, EndStore, EndUnlock, Join,
         TypeOK, McTypeOK
<1> QED
  BY <1>1, <1>2, <1>3, <1>4, <1>5
     DEF Next, Core, Terminated, Barrier!Next, Barrier!Cores, Cores

\* No core leaves epoch e of mc_rand_walk.c before every core has finished
\* epoch e: the safety half of the barrier, for any number of cores.
THEOREM BarrierRefinement == Spec => Barrier!Spec
<1>1. Init => Barrier!Init
  BY DEF Init, EntryPoint, Barrier!Init, Barrier!Cores, Cores, ArrivedCount
<1> QED
  BY <1>1, Invariance, BarrierStep, PTL DEF Spec, Barrier!Spec

\* Every step of the program is a step of the abstract fork and join or none.
LEMMA ForkJoinStep == Inv /\ [Next]_vars => [Program!Next]_(Program!vars)
<1> SUFFICES ASSUME Inv, [Next]_vars PROVE [Program!Next]_(Program!vars)
  OBVIOUS
<1> USE DEF Goto, Lock, Unlock, LoadReg, Return, walkVars, WhileLabel, Inv,
            TypeOK, McTypeOK, Started, Phase, ExitCode, Program!vars,
            Program!Cores, Cores
<1>1. CASE UNCHANGED vars
  BY <1>1 DEF vars, mcVars
<1>2. ASSUME NEW c \in Cores, Start(c) PROVE [Program!Next]_(Program!vars)
  <2>1. CASE ClearLock("publish")
    BY <2>1 DEF ClearLock
  <2>2. CASE Publish(WhileLabel(0))
    BY <2>2 DEF Publish, StartGate, Roles, Program!Next, Program!Publish
  <2>3. CASE AwaitStart(c, WhileLabel(0))
    BY <2>3 DEF AwaitStart, Program!Next, Program!Begin
  <2> QED
    BY <1>2, <2>1, <2>2, <2>3 DEF Start
<1>3. ASSUME NEW c \in Cores, player_walk(c) PROVE UNCHANGED Program!vars
  BY <1>3 DEF player_walk
<1>4. ASSUME NEW c \in Cores, player_sync(c) PROVE UNCHANGED Program!vars
  <2>1. CASE SyncLock(c) \/ CountLoad(c) \/ CountStore(c) \/ CountUnlock(c)
    BY <2>1 DEF SyncLock, CountLoad, CountStore, CountUnlock
  <2>2. CASE Gather \/ CloseLock \/ ResetCount \/ BarrierLoad \/ BarrierStore
    BY <2>2 DEF Gather, CloseLock, ResetCount, BarrierLoad, BarrierStore
  <2>3. CASE CloseUnlock
    BY <2>3 DEF CloseUnlock
  <2>4. CASE WaitEpoch(c)
    <3>1. \A d \in Cores : d # c => pc'[d] = pc[d]
      BY <2>4 DEF WaitEpoch
    <3>2. pc[c] = "wait_epoch" /\ pc'[c] \in {"walk", "end_lock"}
      BY <2>4 DEF WaitEpoch
    <3>3. Phase' = Phase
      BY <3>1, <3>2
    <3>4. UNCHANGED <<Started, ExitCode>>
      BY <2>4 DEF WaitEpoch
    <3> HIDE DEF Phase, Started, ExitCode
    <3> QED
      BY <3>3, <3>4
  <2> QED
    BY <1>4, <2>1, <2>2, <2>3, <2>4 DEF player_sync
<1>5. ASSUME NEW c \in Cores, Finish(c) PROVE [Program!Next]_(Program!vars)
  <2>1. CASE EndLock(c) \/ EndLoad(c) \/ EndUnlock(c)
    BY <1>5, <2>1 DEF Finish, EndLock, EndLoad, EndUnlock
  <2>2. CASE EndStore(c)
    BY <1>5, <2>2 DEF Finish, EndStore, Program!Next, Program!JoinCore
  <2>3. CASE Join
    <3>1. \A d \in Cores : pc[d] \in Joined
      <4> HIDE DEF Cores
      <4>1. Ended = Cores
        BY <2>3, CountBounds DEF Join, CounterValues, Ended
      <4> QED
        BY <4>1 DEF Ended
    <3>2. ret[0] = NotReturned
      BY <2>3 DEF Join, Roles
    <3> QED
      BY <1>5, <2>3, <3>1, <3>2 DEF Finish, Join, Program!Next, Program!Exit
  <2> QED
    BY <1>5, <2>1, <2>2, <2>3 DEF Finish, EndBarrier
<1> QED
  BY <1>1, <1>2, <1>3, <1>4, <1>5 DEF Next, Core, Terminated

\* No core works before core 0 has initialised the shared data, and core 0
\* returns after all cores have joined: the safety half of ForkJoin.
THEOREM ForkJoinRefinement == Spec => Program!Spec
<1>1. Init => Program!Init
  BY DEF Init, MemInit, EntryPoint, Program!Init, Program!Cores, Cores,
         Started, Phase, ExitCode
<1> QED
  BY <1>1, Invariance, ForkJoinStep, PTL DEF Spec, Program!Spec
=============================================================================
