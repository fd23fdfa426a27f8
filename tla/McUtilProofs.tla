---------------------------- MODULE McUtilProofs ----------------------------
(***************************************************************************)
(* Facts about counting cores, used by the proofs of the multicore         *)
(* programs: their barriers compare a counter with the number of cores.    *)
(***************************************************************************)
EXTENDS McUtil, FiniteSets, FiniteSetTheorems, TLAPS

\* There are NumCores cores, core 0 is one of them.
LEMMA CoreSet ==
  /\ 0 \in Cores
  /\ \A c \in Cores : c \in Nat
  /\ IsFiniteSet(Cores)
  /\ Cardinality(Cores) = NumCores
BY NumCoresAssumption, FS_Interval DEF Cores

\* A counter that holds the number of cores in S stays within the bounds of
\* the barrier and reaches NumCores exactly when nobody is missing from S.
LEMMA CountBounds ==
  ASSUME NEW S \in SUBSET Cores
  PROVE  /\ IsFiniteSet(S)
         /\ Cardinality(S) \in 0 .. NumCores
         /\ Cardinality(S) = NumCores <=> S = Cores
<1>1. IsFiniteSet(S) /\ Cardinality(S) <= NumCores
  BY CoreSet, FS_Subset
<1>2. Cardinality(S) \in Nat
  BY <1>1, FS_CardinalityType
<1>3. Cardinality(S) = NumCores => S = Cores
  BY CoreSet, FS_Subset
<1>4. S = Cores => Cardinality(S) = NumCores
  BY CoreSet
<1> QED
  BY <1>1, <1>2, <1>3, <1>4, NumCoresAssumption

\* One arrival adds one to the count.
LEMMA CountOneMore ==
  ASSUME NEW S \in SUBSET Cores, NEW c \in Cores, c \notin S
  PROVE  /\ Cardinality(S \union {c}) = Cardinality(S) + 1
         /\ Cardinality(S) + 1 \in 0 .. NumCores
<1>1. IsFiniteSet(S)
  BY CountBounds
<1>2. Cardinality(S \union {c}) = Cardinality(S) + 1
  BY <1>1, FS_AddElement
<1>3. S \union {c} \in SUBSET Cores
  OBVIOUS
<1> QED
  BY <1>2, <1>3, CountBounds

\* Nobody counted, counter zero.
LEMMA CountNone == Cardinality({}) = 0
BY FS_EmptySet

-----------------------------------------------------------------------------
(* Work done in numbered portions: <<c, n>> stands for the n-th of core c. *)

Portions(n) == Cores \X (1 .. n)

\* NumCores cores with n portions each make NumCores * n of them.
LEMMA PortionSet ==
  ASSUME NEW n \in Nat
  PROVE  /\ IsFiniteSet(Portions(n))
         /\ Cardinality(Portions(n)) = NumCores * n
<1>1. IsFiniteSet(1 .. n) /\ Cardinality(1 .. n) = n
  BY FS_Interval
<1>2. IsFiniteSet(Cores) /\ Cardinality(Cores) = NumCores
  BY CoreSet
<1>3. /\ IsFiniteSet(Cores \X (1 .. n))
      /\ Cardinality(Cores \X (1 .. n)) = Cardinality(Cores) * Cardinality(1 .. n)
  BY <1>1, <1>2, FS_Product
<1> QED
  BY <1>1, <1>2, <1>3 DEF Portions

\* One portion done adds one to the count of the portions done.
LEMMA PortionDone ==
  ASSUME NEW n \in Nat, NEW S \in SUBSET Portions(n), NEW p \in Portions(n),
         p \notin S
  PROVE  Cardinality(S \union {p}) = Cardinality(S) + 1
<1>1. IsFiniteSet(S)
  BY PortionSet, FS_Subset
<1> QED
  BY <1>1, FS_AddElement

\* A count of portions done reaches its bound only when nothing is left to do.
LEMMA PortionBounds ==
  ASSUME NEW n \in Nat, NEW S \in SUBSET Portions(n)
  PROVE  /\ Cardinality(S) \in 0 .. NumCores * n
         /\ Cardinality(S) = NumCores * n <=> S = Portions(n)
<1>1. /\ IsFiniteSet(Portions(n))
      /\ Cardinality(Portions(n)) = NumCores * n
  BY PortionSet
<1>2. /\ IsFiniteSet(S)
      /\ Cardinality(S) <= NumCores * n
      /\ Cardinality(S) = NumCores * n => S = Portions(n)
  BY <1>1, FS_Subset
<1>3. Cardinality(S) \in Nat
  BY <1>2, FS_CardinalityType
<1>4. NumCores * n \in Nat
  BY NumCoresAssumption
<1> QED
  BY <1>1, <1>2, <1>3, <1>4

-----------------------------------------------------------------------------
(* The end barrier of the programs that take the lock for nothing else: the *)
(* lock makes its `+= 1' atomic, so its value is the number of cores past   *)
(* their store.                                                             *)

EndedCores == {c \in Cores : pc[c] \in Joined}

EndInv ==
  /\ LockHeld(EndCritical)
  /\ \A c \in Cores : pc[c] = "end_store" => reg[c] = end_barrier_mem
  /\ end_barrier_mem = Cardinality(EndedCores)

\* When core 0 sees `end_barrier_mem == num_cores', every core is past its
\* store.
LEMMA EndBarrierMeansAll ==
  ASSUME EndInv, end_barrier_mem = NumCores
  PROVE  \A c \in Cores : pc[c] \in Joined
<1>1. EndedCores = Cores
  BY CountBounds DEF EndInv, EndedCores
<1> QED
  BY <1>1 DEF EndedCores

\* How a core takes, holds and gives back the lock around a critical section.
LEMMA LockStep ==
  ASSUME NEW L, McTypeOK(L), NEW CS, LockHeld(CS), NEW c \in Cores, NEW l,
         pc' = [pc EXCEPT ![c] = l],
         \/ (pc[c] \in CS <=> l \in CS) /\ global_lock' = global_lock
         \/ global_lock = 0 /\ global_lock' = 1
         \/ pc[c] \in CS /\ l \notin CS
         \/ l \notin CS /\ \A d \in Cores : pc[d] \notin CS
  PROVE  LockHeld(CS)'
<1> USE DEF McTypeOK, LockHeld
<1>1. pc'[c] = l /\ \A d \in Cores : d # c => pc'[d] = pc[d]
  OBVIOUS
<1> QED
  BY <1>1, Cores' = Cores DEF Cores

\* Steps outside the critical section that neither arrive nor, while someone
\* holds it, touch the lock.
LEMMA QuietStep ==
  ASSUME NEW L, McTypeOK(L), EndInv, NEW c \in Cores, NEW l,
         pc' = [pc EXCEPT ![c] = l],
         pc[c] \notin EndCritical, l \notin EndCritical,
         pc[c] \in Joined <=> l \in Joined,
         \/ global_lock' = global_lock
         \/ \A d \in Cores : pc[d] \notin EndCritical,
         \A d \in Cores : d # c => reg'[d] = reg[d],
         UNCHANGED end_barrier_mem
  PROVE  EndInv'
<1> USE DEF McTypeOK, EndInv
<1>1. LockHeld(EndCritical)'
  BY DEF LockHeld, Cores
<1>2. \A d \in Cores : pc'[d] = "end_store" => reg'[d] = end_barrier_mem'
  BY DEF EndCritical
<1>3. EndedCores' = EndedCores
  BY DEF EndedCores, Cores
<1> QED
  BY <1>1, <1>2, <1>3

\* The four steps of the join itself.
LEMMA EndBarrierStep ==
  ASSUME NEW L, McTypeOK(L), EndInv, NEW c \in Cores, EndBarrier(c)
  PROVE  EndInv'
<1> USE DEF McTypeOK, EndInv, EndCritical, Joined, Goto
<1>1. CASE EndLock(c)
  <2>1. EndedCores' = EndedCores
    BY <1>1 DEF EndLock, Lock, EndedCores, Cores
  <2> QED
    BY <1>1, <2>1 DEF EndLock, Lock, LockHeld, Cores
<1>2. CASE EndLoad(c)
  <2>1. EndedCores' = EndedCores
    BY <1>2 DEF EndLoad, LoadReg, EndedCores, Cores
  <2> QED
    BY <1>2, <2>1 DEF EndLoad, LoadReg, LockHeld, Cores
<1>3. CASE EndStore(c)
  <2>1. EndedCores' = EndedCores \union {c} /\ c \notin EndedCores
    BY <1>3 DEF EndStore, EndedCores, Cores
  <2>2. EndedCores \in SUBSET Cores
    BY DEF EndedCores
  <2>3. end_barrier_mem' = Cardinality(EndedCores')
    BY <1>3, <2>1, <2>2, CountOneMore DEF EndStore
  <2> QED
    BY <1>3, <2>3 DEF EndStore, LockHeld, Cores
<1>4. CASE EndUnlock(c)
  <2>1. EndedCores' = EndedCores
    BY <1>4 DEF EndUnlock, Unlock, EndedCores, Cores
  <2> QED
    BY <1>4, <2>1 DEF EndUnlock, Unlock, LockHeld, Cores
<1> QED
  BY <1>1, <1>2, <1>3, <1>4 DEF EndBarrier

\* What a step of the join changes besides, and where it leads.
LEMMA EndBarrierShape ==
  ASSUME NEW L, McTypeOK(L), {"end_lock", "join", "idle"} \union EndCritical \subseteq L,
         NEW c \in Cores, EndBarrier(c)
  PROVE  /\ McTypeOK(L)'
         /\ \E from \in {"end_lock"} \union EndCritical,
               to \in EndCritical \union {"join", "idle"} :
              /\ Goto(c, from, to)
              /\ to = "join" => c = 0
              /\ to = "idle" => c # 0
              /\ from = "end_store" <=> ~(from \in Joined) /\ to \in Joined
              /\ from \in Joined => to \in Joined
         /\ UNCHANGED <<ret, start_barrier_mem>>
<1> USE DEF McTypeOK, EndCritical, Joined, Goto
<1>1. CASE EndLock(c)
  BY <1>1 DEF EndLock, Lock
<1>2. CASE EndLoad(c)
  BY <1>2 DEF EndLoad, LoadReg
<1>3. CASE EndStore(c)
  BY <1>3 DEF EndStore
<1>4. CASE EndUnlock(c)
  BY <1>4 DEF EndUnlock, Unlock
<1> QED
  BY <1>1, <1>2, <1>3, <1>4 DEF EndBarrier

-----------------------------------------------------------------------------
(* The phase of a core in ForkJoin *)

\* A core that moves to label l changes its own phase at most, to the one of l.
LEMMA PhaseStep ==
  ASSUME NEW L, McTypeOK(L), NEW c \in Cores, NEW l,
         pc' = [pc EXCEPT ![c] = l]
  PROVE  /\ /\ pc[c] \in SetupLabels <=> l \in SetupLabels
            /\ pc[c] \in Joined <=> l \in Joined
            => Phase' = Phase
         /\ /\ pc[c] \in SetupLabels
            /\ l \notin SetupLabels \union Joined
            => Phase[c] = "waiting" /\ Phase' = [Phase EXCEPT ![c] = "running"]
         /\ /\ pc[c] \notin SetupLabels \union Joined
            /\ l \in Joined
            => Phase[c] = "running" /\ Phase' = [Phase EXCEPT ![c] = "joined"]
<1> USE DEF McTypeOK
<1>1. \A d \in Cores : d # c => pc'[d] = pc[d]
  OBVIOUS
<1>2. pc'[c] = l
  OBVIOUS
<1>3. \A j \in Joined : j \notin SetupLabels
  BY DEF Joined, SetupLabels
<1> QED
  BY ONLY <1>1, <1>2, <1>3, c \in Cores DEF Phase
=============================================================================
