-------------------------- MODULE McProgramsProofs --------------------------
(***************************************************************************)
(* The small multicore programs for any number of cores and any amount of  *)
(* work per core.  Each program has its part of the invariant, which says  *)
(* nothing while another program runs:                                     *)
(*                                                                         *)
(*  - mc_lrsc_add.c: a reservation still held vouches for the value loaded *)
(*    with it, so a store conditional that succeeds adds one to the count  *)
(*    of the adds done;                                                    *)
(*  - mc_amo_add.c: the position of a core in the unrolled loop says how   *)
(*    many adds it has done, and the end barrier that all of them are done *)
(*    when core 0 compares;                                                *)
(*  - mc_sanity.c: sum = i as long as no read was stale, and sum < i ever  *)
(*    after;                                                               *)
(*  - mc_template.c: stored is the set of the cores past the store.        *)
(***************************************************************************)
EXTENDS McPrograms, McUtilProofs

USE CoreSet, NumCoresAssumption
USE DEF SetupLabels, EndCritical, Joined, NotReturned

-----------------------------------------------------------------------------
(* mc_lrsc_add.c *)

\* The loop counter and the control point of a core go together.
LrscCounters ==
  \A c \in Cores :
    /\ pc[c] \in SetupLabels => i[c] = 0
    /\ pc[c] \in {"lr", "sc"} => i[c] \in 1 .. LrscN
    /\ pc[c] = "check" => i[c] <= LrscN
    /\ pc[c] \in {"end_lock"} \union EndCritical \union Joined => i[c] = LrscN + 1

\* Core 0 sets up, the others wait for it; only core 0 returns.
LrscRoles ==
  /\ \A c \in Cores \ {0} :
       pc[c] \notin {"setup", "init_data", "publish", "join", "returned"}
  /\ pc[0] \notin {"await", "idle"}
  /\ pc[0] \in SetupLabels <=> ~Started
  /\ ~Started => \A c \in Cores \ {0} : pc[c] = "await"
  /\ pc[0] # "returned" => ret[0] = NotReturned

LrscInv ==
  /\ Lrsc!TypeOK
  /\ LrscRoles
  /\ EndInv
  /\ LrscCounters
  /\ Lrsc!ReservationIsFresh
  /\ Lrsc!NoLostAdd

\* The names of the protocol mean the same inside the instance.
LEMMA LrscProtocol ==
  /\ Lrsc!Cores = Cores
  /\ Lrsc!Labels = SetupLabels \union Joined \union EndCritical
                     \union {"check", "lr", "sc", "end_lock"}
  /\ \A c \in Cores : Lrsc!EndBarrier(c) <=> EndBarrier(c)
  /\ Lrsc!Join <=> Join
  /\ \A l : Lrsc!ClearLock(l) <=> ClearLock(l)
  /\ \A l : Lrsc!Publish(l) <=> Publish(l)
  /\ \A c, l : Lrsc!AwaitStart(c, l) <=> AwaitStart(c, l)
  /\ \A S : Lrsc!Cardinality(S) = Cardinality(S)
<1>1. Lrsc!Cores = Cores
  BY DEF Lrsc!Cores, Cores
<1>2. Lrsc!Labels = SetupLabels \union Joined \union EndCritical
                     \union {"check", "lr", "sc", "end_lock"}
  BY DEF Lrsc!Labels, Lrsc!SetupLabels, Lrsc!Joined, Lrsc!EndCritical
<1>4. \A c \in Cores : Lrsc!EndBarrier(c) <=> EndBarrier(c)
  BY DEF Lrsc!EndBarrier, EndBarrier, Lrsc!EndLock, EndLock, Lrsc!EndLoad,
         EndLoad, Lrsc!EndStore, EndStore, Lrsc!EndUnlock, EndUnlock, Lrsc!Lock,
         Lock, Lrsc!Unlock, Unlock, Lrsc!LoadReg, LoadReg, Lrsc!Goto, Goto
<1>5. Lrsc!Join <=> Join
  BY DEF Lrsc!Join, Join, Lrsc!Return, Return, Lrsc!Goto, Goto
<1>6. /\ \A l : Lrsc!ClearLock(l) <=> ClearLock(l)
      /\ \A l : Lrsc!Publish(l) <=> Publish(l)
      /\ \A c, l : Lrsc!AwaitStart(c, l) <=> AwaitStart(c, l)
  BY DEF Lrsc!ClearLock, ClearLock, Lrsc!Publish, Publish, Lrsc!AwaitStart,
         AwaitStart, Lrsc!Goto, Goto
<1>7. \A S : Lrsc!Cardinality(S) = Cardinality(S)
  BY DEF Lrsc!Cardinality, Cardinality
<1> QED
  BY <1>1, <1>2, <1>4, <1>5, <1>6, <1>7

\* Nothing is done yet when the harts leave reset.
LEMMA LrscInit == ProgramsAssumption /\ Lrsc!Init => LrscInv
<1> SUFFICES ASSUME ProgramsAssumption, Lrsc!Init PROVE LrscInv
  OBVIOUS
<1> USE LrscProtocol DEF Lrsc!TypeOK, Lrsc!McTypeOK, McTypeOK, Lrsc!NotReturned
<1> USE DEF Lrsc!Init, Lrsc!MemInit, Lrsc!EntryPoint,
            ProgramsAssumption, Lrsc!IterationsAssumption
<1>1. Lrsc!TypeOK
  OBVIOUS
<1>2. LrscRoles /\ LrscCounters /\ Lrsc!ReservationIsFresh
  BY DEF LrscRoles, LrscCounters, Lrsc!ReservationIsFresh, Started
<1>3. EndInv
  <2>1. EndedCores = {}
    BY DEF EndedCores
  <2> QED
    BY <2>1, CountNone DEF EndInv, LockHeld
<1>4. Lrsc!NoLostAdd
  <2>1. Lrsc!AddsDone = {}
    <3>1. \A c \in Cores : Lrsc!AddsOf(c) = 0
      BY DEF Lrsc!AddsOf
    <3> QED
      BY <3>1 DEF Lrsc!AddsDone
  <2> QED
    BY <2>1, CountNone DEF Lrsc!NoLostAdd
<1> QED
  BY <1>1, <1>2, <1>3, <1>4 DEF LrscInv

\* Steps that complete no iteration and leave amo_target alone.
LEMMA LrscNoAdd ==
  ASSUME Lrsc!NoLostAdd, UNCHANGED amo_target,
         \A c \in Cores : Lrsc!AddsOf(c)' = Lrsc!AddsOf(c)
  PROVE  Lrsc!NoLostAdd'
<1>1. Lrsc!AddsDone' = Lrsc!AddsDone
  BY LrscProtocol DEF Lrsc!AddsDone
<1> QED
  BY <1>1, LrscProtocol DEF Lrsc!NoLostAdd

\* The store conditional of core c completes its iteration i[c].
LEMMA StoreConditionalInv ==
  ASSUME ProgramsAssumption, LrscInv, NEW c \in Cores, Lrsc!StoreConditional(c)
  PROVE  LrscInv'
<1> USE LrscProtocol DEF Lrsc!TypeOK, Lrsc!McTypeOK, McTypeOK, Lrsc!NotReturned
<1> USE DEF LrscInv, Lrsc!StoreConditional, Lrsc!Goto
<1>a. LrscN \in Nat
  BY DEF ProgramsAssumption, Lrsc!IterationsAssumption
<1>1. Lrsc!TypeOK'
  OBVIOUS
<1>2. (LrscRoles /\ LrscCounters)'
  BY <1>a DEF LrscRoles, LrscCounters, Started
<1>3. Lrsc!ReservationIsFresh'
  BY DEF Lrsc!ReservationIsFresh
<1>4. EndInv'
  BY QuietStep
<1>5. Lrsc!NoLostAdd'
  <2>1. i[c] \in 1 .. LrscN
    BY DEF LrscCounters
  <2>2. Lrsc!AddsOf(c) = i[c] - 1 /\ Lrsc!AddsOf(c)' = i[c]
    BY <1>a, <2>1 DEF Lrsc!AddsOf
  <2>3. \A d \in Cores : d # c => Lrsc!AddsOf(d)' = Lrsc!AddsOf(d)
    BY DEF Lrsc!AddsOf
  <2>4. /\ Lrsc!AddsDone \in SUBSET Portions(LrscN)
        /\ <<c, i[c]>> \in Portions(LrscN) \ Lrsc!AddsDone
        /\ Lrsc!AddsDone' = Lrsc!AddsDone \union {<<c, i[c]>>}
    BY <1>a, <2>1, <2>2, <2>3 DEF Portions, Lrsc!AddsDone
  <2>5. amo_target' = amo_target + 1
    BY DEF Lrsc!ReservationIsFresh
  <2> QED
    BY <1>a, <2>4, <2>5, PortionDone DEF Lrsc!NoLostAdd
<1> QED
  BY <1>1, <1>2, <1>3, <1>4, <1>5

\* The other steps of the loop.
LEMMA LrscLoopInv ==
  ASSUME ProgramsAssumption, LrscInv, NEW c \in Cores,
         \/ Lrsc!Check(c) \/ Lrsc!LoadReserved(c) \/ Lrsc!StoreFails(c)
         \/ Lrsc!LoseReservation(c)
  PROVE  LrscInv'
<1> USE LrscProtocol DEF Lrsc!TypeOK, Lrsc!McTypeOK, McTypeOK, Lrsc!NotReturned
<1> USE DEF LrscInv, Lrsc!Goto, Lrsc!addVars, Lrsc!mcVars
<1>a. LrscN \in Nat
  BY DEF ProgramsAssumption, Lrsc!IterationsAssumption
<1>1. CASE Lrsc!Check(c)
  <2> USE <1>a, <1>1 DEF Lrsc!Check
  <2>0. i[c] \in 0 .. LrscN /\ i'[c] = i[c] + 1
    BY DEF LrscCounters
  <2>1. Lrsc!TypeOK'
    BY <2>0
  <2>2. (LrscRoles /\ LrscCounters /\ Lrsc!ReservationIsFresh)'
    BY <2>0 DEF LrscRoles, LrscCounters, Lrsc!ReservationIsFresh, Started
  <2>3. EndInv'
    BY QuietStep
  <2>4. \A d \in Cores : Lrsc!AddsOf(d)' = Lrsc!AddsOf(d)
    BY <2>0 DEF Lrsc!AddsOf
  <2> QED
    BY <2>1, <2>2, <2>3, <2>4, LrscNoAdd
<1>2. CASE Lrsc!LoadReserved(c) \/ Lrsc!StoreFails(c)
  <2> USE <1>a, <1>2 DEF Lrsc!LoadReserved, Lrsc!StoreFails
  <2>1. Lrsc!TypeOK'
    <3>1. CASE Lrsc!LoadReserved(c)
      BY <3>1
    <3>2. CASE Lrsc!StoreFails(c)
      BY <3>2
    <3> QED
      BY <3>1, <3>2
  <2>2. (LrscRoles /\ LrscCounters /\ Lrsc!ReservationIsFresh)'
    BY DEF LrscRoles, LrscCounters, Lrsc!ReservationIsFresh, Started
  <2>3. EndInv'
    BY QuietStep
  <2>4. \A d \in Cores : Lrsc!AddsOf(d)' = Lrsc!AddsOf(d)
    BY DEF Lrsc!AddsOf
  <2> QED
    BY <2>1, <2>2, <2>3, <2>4, LrscNoAdd
<1>3. CASE Lrsc!LoseReservation(c)
  <2> USE <1>3 DEF Lrsc!LoseReservation
  <2>1. Lrsc!TypeOK'
    OBVIOUS
  <2>2. (LrscRoles /\ LrscCounters /\ Lrsc!ReservationIsFresh)'
    BY DEF LrscRoles, LrscCounters, Lrsc!ReservationIsFresh, Started
  <2>3. EndInv'
    BY DEF EndInv, EndedCores, LockHeld
  <2>4. \A d \in Cores : Lrsc!AddsOf(d)' = Lrsc!AddsOf(d)
    BY DEF Lrsc!AddsOf
  <2> QED
    BY <2>1, <2>2, <2>3, <2>4, LrscNoAdd
<1> QED
  BY <1>1, <1>2, <1>3

\* Core 0 clears the lock and the target and publishes the start; a core
\* that sees it goes to the loop.
LEMMA LrscStartInv ==
  ASSUME ProgramsAssumption, LrscInv, NEW c \in Cores, Lrsc!Start(c)
  PROVE  LrscInv'
<1> USE LrscProtocol DEF Lrsc!TypeOK, Lrsc!McTypeOK, McTypeOK, Lrsc!NotReturned
<1> USE DEF LrscInv, Lrsc!Goto, Lrsc!addVars, Goto
<1>a. LrscN \in Nat
  BY DEF ProgramsAssumption, Lrsc!IterationsAssumption
<1>1. CASE c = 0 /\ ClearLock("init_data") /\ UNCHANGED Lrsc!addVars
  <2> USE <1>1 DEF ClearLock
  <2>1. Lrsc!TypeOK'
    OBVIOUS
  <2>2. (LrscRoles /\ LrscCounters /\ Lrsc!ReservationIsFresh)'
    BY DEF LrscRoles, LrscCounters, Lrsc!ReservationIsFresh, Started
  <2>3. EndInv'
    BY QuietStep DEF LrscRoles
  <2>4. \A d \in Cores : Lrsc!AddsOf(d)' = Lrsc!AddsOf(d)
    BY DEF Lrsc!AddsOf
  <2> QED
    BY <2>1, <2>2, <2>3, <2>4, LrscNoAdd
<1>2. CASE c = 0 /\ Publish("check") /\ UNCHANGED Lrsc!addVars
  <2> USE <1>a, <1>2 DEF Publish
  <2>1. Lrsc!TypeOK'
    OBVIOUS
  <2>2. (LrscRoles /\ LrscCounters /\ Lrsc!ReservationIsFresh)'
    BY DEF LrscRoles, LrscCounters, Lrsc!ReservationIsFresh, Started
  <2>3. EndInv'
    BY QuietStep
  <2>4. \A d \in Cores : Lrsc!AddsOf(d)' = Lrsc!AddsOf(d)
    BY DEF Lrsc!AddsOf
  <2> QED
    BY <2>1, <2>2, <2>3, <2>4, LrscNoAdd
<1>3. CASE c # 0 /\ AwaitStart(c, "check") /\ UNCHANGED Lrsc!addVars
  <2> USE <1>a, <1>3 DEF AwaitStart
  <2>1. Lrsc!TypeOK'
    OBVIOUS
  <2>2. (LrscRoles /\ LrscCounters /\ Lrsc!ReservationIsFresh)'
    BY DEF LrscRoles, LrscCounters, Lrsc!ReservationIsFresh, Started
  <2>3. EndInv'
    BY QuietStep
  <2>4. \A d \in Cores : Lrsc!AddsOf(d)' = Lrsc!AddsOf(d)
    BY DEF Lrsc!AddsOf
  <2> QED
    BY <2>1, <2>2, <2>3, <2>4, LrscNoAdd
<1>4. CASE c = 0 /\ Lrsc!InitTarget
  <2> USE <1>4 DEF Lrsc!InitTarget
  <2>1. Lrsc!TypeOK'
    OBVIOUS
  <2>2. (LrscRoles /\ LrscCounters /\ Lrsc!ReservationIsFresh)'
    BY ZenonT(60) DEF LrscRoles, LrscCounters, Lrsc!ReservationIsFresh, Started
  <2>3. EndInv'
    BY QuietStep
  <2>4. \A d \in Cores : Lrsc!AddsOf(d)' = 0
    BY <1>a DEF Lrsc!AddsOf, LrscRoles, LrscCounters
  <2>5. Lrsc!AddsDone' = {}
    BY ONLY <1>a, <2>4, LrscProtocol DEF Lrsc!AddsDone
  <2>a. amo_target' = 0
    OBVIOUS
  <2>6. Lrsc!NoLostAdd'
    BY ONLY <2>a, <2>5, CountNone, LrscProtocol DEF Lrsc!NoLostAdd
  <2> QED
    BY <2>1, <2>2, <2>3, <2>6
<1> QED
  BY <1>1, <1>2, <1>3, <1>4 DEF Lrsc!Start

\* The join: amo_target is not touched any more.
LEMMA LrscFinishInv ==
  ASSUME ProgramsAssumption, LrscInv, NEW c \in Cores, Lrsc!Finish(c)
  PROVE  LrscInv'
<1> USE LrscProtocol DEF Lrsc!TypeOK, Lrsc!McTypeOK, McTypeOK, Lrsc!NotReturned
<1> USE DEF LrscInv, Lrsc!addVars, Goto
<1>a. LrscN \in Nat
  BY DEF ProgramsAssumption, Lrsc!IterationsAssumption
<1>1. CASE EndBarrier(c) /\ UNCHANGED Lrsc!addVars
  <2>0. /\ McTypeOK(Lrsc!Labels)'
        /\ \E from \in {"end_lock"} \union EndCritical,
              to \in EndCritical \union {"join", "idle"} :
             /\ Goto(c, from, to)
             /\ to = "join" => c = 0
             /\ to = "idle" => c # 0
        /\ UNCHANGED <<ret, start_barrier_mem>>
    BY <1>1, EndBarrierShape
  <2>1. Lrsc!TypeOK'
    BY <1>1, <2>0
  <2>2. (LrscRoles /\ LrscCounters /\ Lrsc!ReservationIsFresh)'
    BY <1>1, <2>0 DEF LrscRoles, LrscCounters, Lrsc!ReservationIsFresh, Started
  <2>3. EndInv'
    BY <1>1, EndBarrierStep
  <2>4. \A d \in Cores : Lrsc!AddsOf(d)' = Lrsc!AddsOf(d)
    BY <1>a, <1>1, <2>0 DEF Lrsc!AddsOf, LrscCounters
  <2> QED
    BY <1>1, <2>1, <2>2, <2>3, <2>4, LrscNoAdd
<1>2. CASE c = 0 /\ Join /\ UNCHANGED Lrsc!addVars
  <2> USE <1>2 DEF Join, Return
  <2>1. Lrsc!TypeOK'
    OBVIOUS
  <2>2. (LrscRoles /\ LrscCounters /\ Lrsc!ReservationIsFresh)'
    BY DEF LrscRoles, LrscCounters, Lrsc!ReservationIsFresh, Started
  <2>3. EndInv'
    BY QuietStep
  <2>4. \A d \in Cores : Lrsc!AddsOf(d)' = Lrsc!AddsOf(d)
    BY <1>a DEF Lrsc!AddsOf, LrscCounters
  <2> QED
    BY <2>1, <2>2, <2>3, <2>4, LrscNoAdd
<1> QED
  BY <1>1, <1>2 DEF Lrsc!Finish

\* A step that changes nothing of mc_lrsc_add.c keeps its invariant.
LEMMA LrscStutter == LrscInv /\ UNCHANGED Lrsc!vars => LrscInv'
BY LrscProtocol
DEF Lrsc!vars, Lrsc!mcVars, Lrsc!addVars, LrscInv, Lrsc!TypeOK, Lrsc!McTypeOK,
    LrscRoles, Started, EndInv, LockHeld, EndedCores, LrscCounters,
    Lrsc!ReservationIsFresh, Lrsc!NoLostAdd, Lrsc!AddsDone, Lrsc!AddsOf

\* Every step of mc_lrsc_add.c preserves its invariant.
LEMMA LrscNextInv == ProgramsAssumption /\ LrscInv /\ Lrsc!Next => LrscInv'
<1> SUFFICES ASSUME ProgramsAssumption, LrscInv, Lrsc!Next PROVE LrscInv'
  OBVIOUS
<1>1. ASSUME NEW c \in Cores, Lrsc!Core(c) \/ Lrsc!LoseReservation(c)
      PROVE  LrscInv'
  BY <1>1, LrscStartInv, LrscLoopInv, StoreConditionalInv, LrscFinishInv
     DEF Lrsc!Core
<1>2. CASE UNCHANGED Lrsc!vars
  BY <1>2, LrscStutter
<1> QED
  BY <1>1, <1>2, LrscProtocol DEF Lrsc!Next, Lrsc!Terminated

-----------------------------------------------------------------------------
(* mc_amo_add.c *)

\* The adds core c has done, from its position in the unrolled loop.
AmoAddsOf(c) ==
  IF pc[c] = "loop_check" THEN a6[c] * BODY
  ELSE IF pc[c] = "loop_body" THEN (a6[c] - 1) * BODY + k[c]
  ELSE AmoN

AmoAddsDone == {p \in Portions(AmoN) : p[2] <= AmoAddsOf(p[1])}

AmoTypes ==
  /\ McTypeOK(Amo!Labels)
  /\ a6 \in [Cores -> 0 .. Amo!iters + 1]
  /\ k \in [Cores -> 0 .. BODY]

AmoCounters ==
  \A c \in Cores :
    /\ pc[c] = "loop_check" => a6[c] <= Amo!iters
    /\ pc[c] = "loop_body" => a6[c] \in 1 .. Amo!iters /\ k[c] < BODY

\* Only core 0 compares and returns.
AmoRoles ==
  /\ \A c \in Cores \ {0} : pc[c] \notin {"join", "returned"}
  /\ pc[0] # "idle"
  /\ pc[0] # "returned" => ret[0] = NotReturned

AmoInv ==
  /\ AmoTypes
  /\ AmoRoles
  /\ EndInv
  /\ AmoCounters
  /\ amo_target = Cardinality(AmoAddsDone)
  /\ Amo!Passes

\* The names of the protocol mean the same inside the instance.
LEMMA AmoProtocol ==
  /\ Amo!Cores = Cores
  /\ Amo!Labels = {"loop_check", "loop_body", "end_lock"} \union EndCritical
                    \union Joined
  /\ \A c \in Cores : Amo!EndBarrier(c) <=> EndBarrier(c)
<1>1. Amo!Cores = Cores
  BY DEF Amo!Cores, Cores
<1>2. Amo!Labels = {"loop_check", "loop_body", "end_lock"} \union EndCritical
                     \union Joined
  BY DEF Amo!Labels, Amo!Joined, Amo!EndCritical
<1>3. \A c \in Cores : Amo!EndBarrier(c) <=> EndBarrier(c)
  BY DEF Amo!EndBarrier, EndBarrier, Amo!EndLock, EndLock, Amo!EndLoad,
         EndLoad, Amo!EndStore, EndStore, Amo!EndUnlock, EndUnlock, Amo!Lock,
         Lock, Amo!Unlock, Unlock, Amo!LoadReg, LoadReg, Amo!Goto, Goto
<1> QED
  BY <1>1, <1>2, <1>3

\* The unrolled loop runs whole bodies: iters of them make N adds.
LEMMA Unrolled ==
  ASSUME ProgramsAssumption
  PROVE  /\ AmoN \in Nat /\ BODY \in Nat \ {0} /\ Amo!iters \in Nat
         /\ Amo!iters * BODY = AmoN
<1> USE DEF ProgramsAssumption, Amo!UnrollAssumption, Amo!iters
<1>1. AmoN \in Nat /\ BODY \in Nat \ {0} /\ AmoN % BODY = 0
  OBVIOUS
<1>2. AmoN \div BODY \in Nat /\ AmoN = BODY * (AmoN \div BODY) + (AmoN % BODY)
  BY <1>1
<1> QED
  BY <1>1, <1>2

\* Where a core stands in the loop bounds the adds it has done.
LEMMA LoopPosition ==
  ASSUME ProgramsAssumption, NEW a \in Nat, a <= Amo!iters
  PROVE  /\ a * BODY \in 0 .. AmoN
         /\ a = Amo!iters => a * BODY = AmoN
         /\ \A j \in 0 .. BODY - 1 :
              a > 0 => (a - 1) * BODY + j + 1 \in 1 .. AmoN
         /\ (a - 1) * BODY + BODY = a * BODY
<1>1. (a - 1) * BODY + BODY = a * BODY
  BY Unrolled
<1>2. \A x, y \in Nat : x <= y => x * BODY <= y * BODY
  BY Unrolled
<1>3. a * BODY <= AmoN
  BY <1>2, Unrolled
<1>4. a > 0 => (a - 1) * BODY \in Nat
  BY Unrolled
<1> QED
  BY <1>1, <1>3, <1>4, Unrolled

\* Nothing is done yet when the harts leave reset.
LEMMA AmoInit == ProgramsAssumption /\ Amo!Init => AmoInv
<1> SUFFICES ASSUME ProgramsAssumption, Amo!Init PROVE AmoInv
  OBVIOUS
<1> USE AmoProtocol, Unrolled DEF Amo!Init, Amo!MemInit, Amo!NotReturned
<1>1. AmoTypes
  BY DEF AmoTypes, McTypeOK
<1>2. AmoRoles /\ AmoCounters /\ Amo!Passes
  BY DEF AmoRoles, AmoCounters, Amo!Passes
<1>3. EndInv
  <2>1. EndedCores = {}
    BY DEF EndedCores
  <2> QED
    BY <2>1, CountNone DEF EndInv, LockHeld
<1>4. AmoAddsDone = {}
  <2>1. \A c \in Cores : AmoAddsOf(c) = 0
    BY DEF AmoAddsOf
  <2> QED
    BY ONLY <2>1, Unrolled, ProgramsAssumption DEF AmoAddsDone, Portions
<1> QED
  BY <1>1, <1>2, <1>3, <1>4, CountNone DEF AmoInv

\* The branch of the loop executes no add.
LEMMA LoopCheckInv ==
  ASSUME ProgramsAssumption, AmoInv, NEW c \in Cores, Amo!LoopCheck(c)
  PROVE  AmoInv'
<1> USE AmoProtocol, Unrolled
    DEF AmoInv, AmoTypes, McTypeOK, Amo!LoopCheck, Amo!Goto
<1>0. a6[c] \in 0 .. Amo!iters /\ a6'[c] = a6[c] + 1 /\ k'[c] = 0
  BY DEF AmoCounters
<1>1. AmoTypes'
  BY <1>0
<1>2. (AmoRoles /\ AmoCounters /\ Amo!Passes)'
  BY <1>0 DEF AmoRoles, AmoCounters, Amo!Passes
<1>3. EndInv'
  BY QuietStep
<1>4. \A d \in Cores : AmoAddsOf(d)' = AmoAddsOf(d)
  <2>1. a6[c] * BODY \in Nat /\ (a6[c] = Amo!iters => a6[c] * BODY = AmoN)
    BY <1>0, LoopPosition
  <2>2. AmoAddsOf(c)' = AmoAddsOf(c)
    BY <1>0, <2>1 DEF AmoAddsOf
  <2>3. \A d \in Cores : d # c => AmoAddsOf(d)' = AmoAddsOf(d)
    BY DEF AmoAddsOf
  <2> QED
    BY <2>2, <2>3
<1>5. AmoAddsDone' = AmoAddsDone
  BY ONLY <1>4 DEF AmoAddsDone, Portions
<1> QED
  BY <1>1, <1>2, <1>3, <1>5

\* Each amoadd of LOOP_BODY is one more add done.
LEMMA LoopBodyInv ==
  ASSUME ProgramsAssumption, AmoInv, NEW c \in Cores, Amo!LoopBody(c)
  PROVE  AmoInv'
<1> USE AmoProtocol, Unrolled
    DEF AmoInv, AmoTypes, McTypeOK, Amo!LoopBody, Amo!Goto
<1>0. a6[c] \in 1 .. Amo!iters /\ k[c] \in 0 .. BODY - 1 /\ k'[c] = k[c] + 1
  BY DEF AmoCounters
<1>1. AmoTypes'
  BY <1>0
<1>2. (AmoRoles /\ AmoCounters /\ Amo!Passes)'
  BY <1>0 DEF AmoRoles, AmoCounters, Amo!Passes
<1>3. EndInv'
  BY QuietStep
<1> DEFINE n == (a6[c] - 1) * BODY + k[c] + 1
<1>4. n \in 1 .. AmoN /\ AmoAddsOf(c) = n - 1 /\ AmoAddsOf(c)' = n
  <2>1. /\ n \in 1 .. AmoN
        /\ (a6[c] - 1) * BODY + BODY = a6[c] * BODY
    BY <1>0, LoopPosition
  <2>2. (a6[c] - 1) * BODY \in Int
    BY <1>0
  <2>3. AmoAddsOf(c) = (a6[c] - 1) * BODY + k[c]
    BY DEF AmoAddsOf
  <2>4. AmoAddsOf(c)' = n
    <3>1. CASE k[c] + 1 < BODY
      BY <1>0, <2>2, <3>1 DEF AmoAddsOf
    <3>2. CASE k[c] + 1 = BODY
      <4>1. AmoAddsOf(c)' = a6[c] * BODY
        BY <3>2 DEF AmoAddsOf
      <4> QED
        BY <1>0, <2>1, <2>2, <3>2, <4>1
    <3> QED
      BY <1>0, <3>1, <3>2
  <2> QED
    BY <1>0, <2>1, <2>2, <2>3, <2>4
<1> HIDE DEF n
<1>5. \A d \in Cores : d # c => AmoAddsOf(d)' = AmoAddsOf(d)
  BY DEF AmoAddsOf
<1>6. /\ AmoAddsDone \in SUBSET Portions(AmoN)
      /\ <<c, n>> \in Portions(AmoN) \ AmoAddsDone
      /\ AmoAddsDone' = AmoAddsDone \union {<<c, n>>}
  BY ONLY <1>4, <1>5, AmoN \in Nat, c \in Cores DEF AmoAddsDone, Portions
<1>7. Cardinality(AmoAddsDone') = Cardinality(AmoAddsDone) + 1
  BY <1>6, PortionDone
<1> QED
  BY <1>1, <1>2, <1>3, <1>7

\* The join: amo_target is not touched any more.
LEMMA AmoEndInv ==
  ASSUME ProgramsAssumption, AmoInv, NEW c \in Cores,
         EndBarrier(c), UNCHANGED Amo!addVars
  PROVE  AmoInv'
<1> USE AmoProtocol, Unrolled DEF AmoInv, Amo!addVars, AmoTypes
<1>0. /\ McTypeOK(Amo!Labels)'
      /\ \E from \in {"end_lock"} \union EndCritical,
            to \in EndCritical \union {"join", "idle"} :
           /\ Goto(c, from, to)
           /\ to = "join" => c = 0
           /\ to = "idle" => c # 0
      /\ UNCHANGED <<ret, start_barrier_mem>>
  BY EndBarrierShape
<1> USE DEF Goto, McTypeOK
<1>1. AmoTypes'
  BY <1>0
<1>2. (AmoRoles /\ AmoCounters /\ Amo!Passes)'
  BY <1>0 DEF AmoRoles, AmoCounters, Amo!Passes
<1>3. EndInv'
  BY EndBarrierStep
<1>4. \A d \in Cores : AmoAddsOf(d)' = AmoAddsOf(d)
  BY <1>0 DEF AmoAddsOf
<1>5. AmoAddsDone' = AmoAddsDone
  BY ONLY <1>4 DEF AmoAddsDone, Portions
<1> QED
  BY <1>1, <1>2, <1>3, <1>5

\* Core 0 compares when every core has joined, hence when all adds are done.
LEMMA CompareInv ==
  ASSUME ProgramsAssumption, AmoInv, Amo!Compare
  PROVE  AmoInv'
<1> USE AmoProtocol, Unrolled
    DEF AmoInv, AmoTypes, McTypeOK, Amo!Compare, Amo!Return, Amo!Goto, Amo!addVars
<1>1. amo_target = NumCores * AmoN
  <2>1. \A d \in Cores : AmoAddsOf(d) = AmoN
    BY EndBarrierMeansAll DEF AmoAddsOf
  <2>2. AmoAddsDone = Portions(AmoN)
    BY ONLY <2>1, AmoN \in Nat DEF AmoAddsDone, Portions
  <2> QED
    BY <2>2, PortionSet
<1>2. AmoTypes'
  OBVIOUS
<1>3. (AmoRoles /\ AmoCounters /\ Amo!Passes)'
  BY <1>1 DEF AmoRoles, AmoCounters, Amo!Passes, Amo!NotReturned
<1>4. EndInv'
  BY QuietStep
<1>5. \A d \in Cores : AmoAddsOf(d)' = AmoAddsOf(d)
  BY DEF AmoAddsOf
<1>6. AmoAddsDone' = AmoAddsDone
  BY ONLY <1>5 DEF AmoAddsDone, Portions
<1> QED
  BY <1>2, <1>3, <1>4, <1>6

\* A step that changes nothing of mc_amo_add.c keeps its invariant.
LEMMA AmoStutter == AmoInv /\ UNCHANGED Amo!vars => AmoInv'
BY AmoProtocol
DEF Amo!vars, Amo!mcVars, Amo!addVars, AmoInv, AmoTypes, McTypeOK, AmoRoles,
    EndInv, LockHeld, EndedCores, AmoCounters, Amo!Passes, AmoAddsDone,
    AmoAddsOf

\* Every step of mc_amo_add.c preserves its invariant.
LEMMA AmoNextInv == ProgramsAssumption /\ AmoInv /\ Amo!Next => AmoInv'
<1> SUFFICES ASSUME ProgramsAssumption, AmoInv, Amo!Next PROVE AmoInv'
  OBVIOUS
<1>1. ASSUME NEW c \in Cores, Amo!Core(c) PROVE AmoInv'
  BY <1>1, AmoProtocol, LoopCheckInv, LoopBodyInv, AmoEndInv, CompareInv
     DEF Amo!Core
<1>2. CASE UNCHANGED Amo!vars
  BY <1>2, AmoStutter
<1> QED
  BY <1>1, <1>2, AmoProtocol DEF Amo!Next, Amo!Terminated

-----------------------------------------------------------------------------
(* mc_sanity.c *)

\* N * num_cores elements and the element of core c in iteration i.
SanityFits == SanityN * NumCores <= Cardinality(DOMAIN MATRIX)

MatrixType == \E size \in MatrixSizes : MATRIX \in [0 .. size - 1 -> {0, 1}]

SanityTypes ==
  /\ McTypeOK(Sanity!Labels)
  /\ MatrixType
  /\ i \in [Cores -> 0 .. SanityN]
  /\ wrong \in [Cores -> BOOLEAN]
  /\ sum \in [Cores -> Nat]

\* As long as no read was stale sum = i; the first stale read leaves sum one
\* short of i, and ends the loop.
SumIsExact ==
  \A c \in Cores :
    /\ ~wrong[c] => sum[c] = i[c]
    /\ wrong[c] => sum[c] < i[c]
    /\ pc[c] \in {"size_check", "loop", "read_back"} => ~wrong[c]
    /\ pc[c] = "read_back" => i[c] < SanityN /\ MATRIX[Sanity!Element(c)] = 1
    /\ pc[c] \in {"end_lock"} \union EndCritical \union Joined =>
         wrong[c] \/ i[c] = SanityN

\* With room for all cores only core 0 returns by way of the join.
SanityRoles ==
  /\ \A c \in Cores \ {0} : pc[c] # "join"
  /\ pc[0] # "idle"
  /\ pc[0] # "returned" => ret[0] = NotReturned
  /\ pc[0] = "returned" => (ret[0] = 0 <=> ~wrong[0])

SanityInv ==
  /\ SanityTypes
  /\ SanityFits => EndInv /\ SumIsExact /\ SanityRoles
  /\ ~SanityFits =>
       /\ \A c \in Cores : pc[c] \in {"size_check", "returned"}
       /\ ret[0] = IF pc[0] = "returned" THEN 1 ELSE NotReturned

\* The names of the protocol mean the same inside the instance.
LEMMA SanityProtocol ==
  /\ Sanity!Cores = Cores
  /\ Sanity!Labels = {"size_check", "loop", "read_back", "end_lock"}
                       \union EndCritical \union Joined
  /\ Sanity!Fits <=> SanityFits
  /\ \A S : Sanity!Cardinality(S) = Cardinality(S)
  /\ \A c \in Cores : Sanity!EndBarrier(c) <=> EndBarrier(c)
<1>1. Sanity!Cores = Cores
  BY DEF Sanity!Cores, Cores
<1>2. Sanity!Labels = {"size_check", "loop", "read_back", "end_lock"}
                        \union EndCritical \union Joined
  BY DEF Sanity!Labels, Sanity!Joined, Sanity!EndCritical
<1>3. \A S : Sanity!Cardinality(S) = Cardinality(S)
  BY DEF Sanity!Cardinality, Cardinality
<1>4. Sanity!Fits <=> SanityFits
  BY <1>3 DEF Sanity!Fits, Sanity!MATRIX_SIZE, SanityFits
<1>5. \A c \in Cores : Sanity!EndBarrier(c) <=> EndBarrier(c)
  BY DEF Sanity!EndBarrier, EndBarrier, Sanity!EndLock, EndLock, Sanity!EndLoad,
         EndLoad, Sanity!EndStore, EndStore, Sanity!EndUnlock, EndUnlock,
         Sanity!Lock, Lock, Sanity!Unlock, Unlock, Sanity!LoadReg, LoadReg,
         Sanity!Goto, Goto
<1> QED
  BY <1>1, <1>2, <1>3, <1>4, <1>5

\* The element a core writes lies in MATRIX when N * num_cores elements fit.
LEMMA ElementInMatrix ==
  ASSUME ProgramsAssumption, SanityTypes, SanityFits, NEW c \in Cores,
         i[c] < SanityN
  PROVE  Sanity!Element(c) \in DOMAIN MATRIX
<1>1. SanityN \in Nat
  BY DEF ProgramsAssumption, Sanity!MatrixAssumption
<1>2. PICK size \in MatrixSizes : MATRIX \in [0 .. size - 1 -> {0, 1}]
  BY DEF SanityTypes, MatrixType
<1>a. size \in Nat
  BY DEF ProgramsAssumption, Sanity!MatrixAssumption
<1>3. Cardinality(DOMAIN MATRIX) = size
  BY <1>2, <1>a, FS_Interval
<1>4. i[c] \in Nat /\ c \in 0 .. NumCores - 1
  BY <1>1 DEF SanityTypes, Cores
<1>5. (i[c] + 1) * NumCores <= SanityN * NumCores
  BY <1>1, <1>4
<1>6. i[c] * NumCores \in Nat /\ (i[c] + 1) * NumCores = i[c] * NumCores + NumCores
  BY <1>4
<1>7. SanityN * NumCores <= size /\ SanityN * NumCores \in Nat
  BY <1>1, <1>3 DEF SanityFits
<1>8. Sanity!Element(c) \in 0 .. size - 1
  BY ONLY <1>4, <1>5, <1>6, <1>7, <1>a, NumCoresAssumption DEF Sanity!Element
<1> QED
  BY <1>2, <1>8

\* The invariant of mc_sanity.c holds before its first step.
LEMMA SanityInit == ProgramsAssumption /\ Sanity!Init => SanityInv
<1> SUFFICES ASSUME ProgramsAssumption, Sanity!Init PROVE SanityInv
  OBVIOUS
<1> USE SanityProtocol
    DEF Sanity!Init, Sanity!MemInit, Sanity!NotReturned, ProgramsAssumption,
        Sanity!MatrixAssumption
<1>1. SanityTypes
  <2>1. PICK size \in MatrixSizes : MATRIX = [x \in 0 .. size - 1 |-> 0]
    OBVIOUS
  <2>2. MATRIX \in [0 .. size - 1 -> {0, 1}]
    BY <2>1
  <2>3. MatrixType
    BY ONLY <2>2 DEF MatrixType
  <2>4. McTypeOK(Sanity!Labels)
    BY DEF McTypeOK
  <2> QED
    BY <2>3, <2>4 DEF SanityTypes
<1>2. SumIsExact /\ SanityRoles
  BY DEF SumIsExact, SanityRoles
<1>3. EndInv
  <2>1. EndedCores = {}
    BY DEF EndedCores
  <2> QED
    BY <2>1, CountNone DEF EndInv, LockHeld
<1> QED
  BY <1>1, <1>2, <1>3 DEF SanityInv

\* Either every core passes the size check or every core returns from it.
LEMMA SizeCheckInv ==
  ASSUME ProgramsAssumption, SanityInv, NEW c \in Cores, Sanity!SizeCheck(c)
  PROVE  SanityInv'
<1> USE SanityProtocol
    DEF SanityInv, McTypeOK, Sanity!SizeCheck, Sanity!Goto, Sanity!Return,
        Sanity!matrixVars
<1>1. SanityTypes'
  BY DEF SanityTypes, MatrixType
<1>2. SanityFits' = SanityFits
  BY DEF SanityFits
<1>3. CASE SanityFits
  <2>1. (SumIsExact /\ SanityRoles)'
    BY <1>3 DEF SumIsExact, SanityRoles, SanityTypes, Sanity!Element
  <2>2. EndInv'
    BY <1>3, QuietStep DEF SanityTypes
  <2> QED
    BY <1>1, <1>2, <1>3, <2>1, <2>2
<1>4. CASE ~SanityFits
  BY <1>1, <1>2, <1>4 DEF SanityTypes
<1> QED
  BY <1>3, <1>4

\* A write makes the element of core c one, and unmakes nobody else's.
LEMMA WriteInv ==
  ASSUME ProgramsAssumption, SanityInv, NEW c \in Cores, Sanity!Write(c)
  PROVE  SanityInv'
<1> USE SanityProtocol DEF SanityInv, McTypeOK, Sanity!Write, Sanity!Goto
<1>1. SanityFits
  OBVIOUS
<1>2. Sanity!Element(c) \in DOMAIN MATRIX
  BY <1>1, ElementInMatrix
<1>3. DOMAIN MATRIX' = DOMAIN MATRIX /\ SanityFits'
  BY <1>1 DEF SanityFits
<1>4. SanityTypes'
  <2>1. MatrixType'
    BY <1>2 DEF SanityTypes, MatrixType
  <2> QED
    BY <2>1 DEF SanityTypes
<1>5. SumIsExact'
  <2>1. \A d \in Cores : Sanity!Element(d)' = Sanity!Element(d)
    BY DEF Sanity!Element
  <2>2. \A x \in DOMAIN MATRIX : MATRIX[x] = 1 => MATRIX'[x] = 1
    BY <1>2
  <2>3. \A d \in Cores : i[d] < SanityN => Sanity!Element(d) \in DOMAIN MATRIX
    BY <1>1, ElementInMatrix
  <2> QED
    BY <1>1, <1>2, <2>1, <2>2, <2>3 DEF SumIsExact, SanityTypes
<1>6. SanityRoles'
  BY <1>1 DEF SanityRoles, SanityTypes
<1>7. EndInv'
  BY <1>1, QuietStep DEF SanityTypes
<1> QED
  BY <1>1, <1>3, <1>4, <1>5, <1>6, <1>7

\* A read adds one to sum, or nothing when it is stale.
LEMMA ReadBackInv ==
  ASSUME ProgramsAssumption, SanityInv, NEW c \in Cores, Sanity!ReadBack(c)
  PROVE  SanityInv'
<1> USE SanityProtocol DEF SanityInv, McTypeOK, Sanity!ReadBack, Sanity!Goto
<1>0. SanityN \in Nat /\ StaleValues \subseteq {0}
  BY DEF ProgramsAssumption, Sanity!MatrixAssumption
<1>1. SanityFits /\ SanityFits'
  BY DEF SanityFits
<1>2. /\ i[c] \in 0 .. SanityN - 1 /\ sum[c] = i[c] /\ ~wrong[c]
      /\ MATRIX[Sanity!Element(c)] = 1
  BY <1>0, <1>1 DEF SumIsExact, SanityTypes
<1>3. PICK v \in {1} \union StaleValues :
        /\ sum' = [sum EXCEPT ![c] = @ + v]
        /\ wrong' = [wrong EXCEPT ![c] = @ \/ v # MATRIX[Sanity!Element(c)]]
  BY <1>2
<1>4. /\ i' = [i EXCEPT ![c] = i[c] + 1]
      /\ sum' = [sum EXCEPT ![c] = IF v = 1 THEN i[c] + 1 ELSE i[c]]
      /\ wrong' = [wrong EXCEPT ![c] = v # 1]
      /\ pc' = [pc EXCEPT ![c] = IF v = 1 THEN "loop" ELSE "end_lock"]
  <2>1. wrong'[c] = (v # 1) /\ wrong' = [wrong EXCEPT ![c] = v # 1]
    BY <1>2, <1>3 DEF SanityTypes
  <2>2. sum'[c] = IF v = 1 THEN i[c] + 1 ELSE i[c]
    BY <1>0, <1>2, <1>3 DEF SanityTypes
  <2>3. sum' = [sum EXCEPT ![c] = IF v = 1 THEN i[c] + 1 ELSE i[c]]
    BY <1>3, <2>2 DEF SanityTypes
  <2>4. sum'[c] # i[c] + 1 <=> v # 1
    BY <1>2, <2>2
  <2> QED
    BY <2>1, <2>3, <2>4 DEF SanityTypes
<1>a. UNCHANGED <<reg, ret, global_lock, start_barrier_mem, end_barrier_mem, MATRIX>>
  OBVIOUS
<1> HIDE DEF Sanity!ReadBack, Sanity!Goto
<1>b. /\ pc \in [Cores -> Sanity!Labels] /\ i \in [Cores -> 0 .. SanityN]
      /\ sum \in [Cores -> Nat] /\ wrong \in [Cores -> BOOLEAN]
  BY DEF SanityTypes
<1>5. SanityTypes'
  <2>1. MatrixType'
    BY <1>a DEF SanityTypes, MatrixType
  <2>2. pc' \in [Cores -> Sanity!Labels]
    BY <1>4, <1>b
  <2>3. i' \in [Cores -> 0 .. SanityN]
    BY <1>0, <1>2, <1>4, <1>b
  <2>4. sum' \in [Cores -> Nat]
    BY <1>0, <1>2, <1>4, <1>b
  <2>5. wrong' \in [Cores -> BOOLEAN]
    BY <1>4, <1>b
  <2> QED
    BY <1>a, <2>1, <2>2, <2>3, <2>4, <2>5 DEF SanityTypes
<1>6. SumIsExact'
  <2>1. \A d \in Cores : d # c => Sanity!Element(d)' = Sanity!Element(d)
    BY <1>4 DEF Sanity!Element, SanityTypes
  <2>2. /\ ~wrong'[c] => sum'[c] = i'[c]
        /\ wrong'[c] => sum'[c] < i'[c] /\ pc'[c] = "end_lock"
        /\ pc'[c] = "loop" => ~wrong'[c]
        /\ pc'[c] = "end_lock" => wrong'[c]
        /\ pc'[c] \in {"loop", "end_lock"}
    <3>1. CASE v = 1
      BY ONLY <1>2, <1>4, <1>b, <3>1, c \in Cores
    <3>2. CASE v # 1
      <4>1. wrong'[c] = TRUE /\ sum'[c] = i[c] /\ pc'[c] = "end_lock"
        BY ONLY <1>4, <1>b, <3>2, c \in Cores
      <4>2. i'[c] = i[c] + 1 /\ i[c] \in Int
        BY ONLY <1>0, <1>2, <1>4, <1>b, c \in Cores
      <4> QED
        BY ONLY <4>1, <4>2
    <3> QED
      BY <3>1, <3>2
  <2>3. \A d \in Cores :
           d # c => /\ pc'[d] = pc[d] /\ i'[d] = i[d] /\ sum'[d] = sum[d]
                    /\ wrong'[d] = wrong[d]
    BY <1>4 DEF SanityTypes
  <2> QED
    BY <1>1, <1>a, <2>1, <2>2, <2>3 DEF SumIsExact
<1>7. SanityRoles'
  <2>1. pc[c] = "read_back"
    BY DEF Sanity!ReadBack
  <2> QED
    BY ONLY SanityInv, <1>1, <1>4, <1>a, <1>b, <2>1, CoreSet, c \in Cores
       DEF SanityInv, SanityRoles
<1>8. EndInv'
  <2>1. pc[c] = "read_back"
    BY DEF Sanity!ReadBack
  <2> QED
    BY <1>1, <1>4, <1>a, <2>1, QuietStep DEF SanityTypes
<1> QED
  BY <1>1, <1>5, <1>6, <1>7, <1>8

\* The loop ends after N elements.
LEMMA LoopEndsInv ==
  ASSUME ProgramsAssumption, SanityInv, NEW c \in Cores, Sanity!LoopEnds(c)
  PROVE  SanityInv'
<1> USE SanityProtocol
    DEF SanityInv, McTypeOK, Sanity!LoopEnds, Sanity!Goto, Sanity!matrixVars
<1>1. SanityFits /\ SanityFits'
  BY DEF SanityFits
<1>2. SanityTypes'
  BY DEF SanityTypes, MatrixType
<1>3. (SumIsExact /\ SanityRoles)'
  BY <1>1 DEF SumIsExact, SanityRoles, SanityTypes, Sanity!Element
<1>4. EndInv'
  BY <1>1, QuietStep DEF SanityTypes
<1> QED
  BY <1>1, <1>2, <1>3, <1>4

\* The join leaves matrix and sums alone.
LEMMA SanityEndInv ==
  ASSUME ProgramsAssumption, SanityInv, NEW c \in Cores,
         EndBarrier(c), UNCHANGED Sanity!matrixVars
  PROVE  SanityInv'
<1> USE SanityProtocol DEF SanityInv, Sanity!matrixVars, SanityTypes
<1>0. /\ McTypeOK(Sanity!Labels)'
      /\ \E from \in {"end_lock"} \union EndCritical,
            to \in EndCritical \union {"join", "idle"} :
           /\ Goto(c, from, to)
           /\ to = "join" => c = 0
           /\ to = "idle" => c # 0
      /\ UNCHANGED <<ret, start_barrier_mem>>
  BY EndBarrierShape
<1> USE DEF Goto, McTypeOK
<1>1. SanityFits /\ SanityFits'
  BY <1>0 DEF SanityFits
<1>2. SanityTypes'
  BY <1>0 DEF MatrixType
<1>3. (SumIsExact /\ SanityRoles)'
  BY <1>0, <1>1 DEF SumIsExact, SanityRoles, Sanity!Element
<1>4. EndInv'
  BY <1>1, EndBarrierStep
<1> QED
  BY <1>1, <1>2, <1>3, <1>4

\* Core 0 judges its sum, the others return.
LEMMA JudgeInv ==
  ASSUME ProgramsAssumption, SanityInv, NEW c \in Cores,
         (c = 0 /\ Sanity!Judge) \/ Sanity!ReturnOne(c)
  PROVE  SanityInv'
<1> USE SanityProtocol
    DEF SanityInv, McTypeOK, Sanity!Judge, Sanity!ReturnOne, Sanity!Return,
        Sanity!Goto, Sanity!matrixVars
<1>0. SanityN \in Nat
  BY DEF ProgramsAssumption, Sanity!MatrixAssumption
<1>1. SanityFits /\ SanityFits'
  BY DEF SanityFits
<1>2. SanityTypes'
  BY ZenonT(60) DEF SanityTypes, MatrixType
<1>3. SumIsExact'
  <2>1. \A d \in Cores : Sanity!Element(d)' = Sanity!Element(d)
    BY DEF Sanity!Element
  <2>2. \A d \in Cores : pc'[d] # pc[d] => pc[d] \in Joined /\ pc'[d] \in Joined
    BY DEF SanityTypes
  <2> QED
    BY <1>1, <2>1, <2>2 DEF SumIsExact
<1>4. SanityRoles'
  BY <1>0, <1>1 DEF SumIsExact, SanityRoles, SanityTypes
<1>5. EndInv'
  BY <1>1, QuietStep DEF SanityTypes
<1> QED
  BY <1>1, <1>2, <1>3, <1>4, <1>5

\* A step that changes nothing of mc_sanity.c keeps its invariant.
LEMMA SanityStutter == SanityInv /\ UNCHANGED Sanity!vars => SanityInv'
BY SanityProtocol
DEF Sanity!vars, Sanity!mcVars, Sanity!matrixVars, SanityInv, SanityTypes,
    MatrixType, SanityFits, McTypeOK, SanityRoles, EndInv, LockHeld, EndedCores,
    SumIsExact, Sanity!Element

\* Every step of mc_sanity.c preserves its invariant.
LEMMA SanityNextInv == ProgramsAssumption /\ SanityInv /\ Sanity!Next => SanityInv'
<1> SUFFICES ASSUME ProgramsAssumption, SanityInv, Sanity!Next PROVE SanityInv'
  OBVIOUS
<1>1. ASSUME NEW c \in Cores, Sanity!Core(c) PROVE SanityInv'
  BY <1>1, SanityProtocol, SizeCheckInv, WriteInv, ReadBackInv, LoopEndsInv,
     SanityEndInv, JudgeInv
     DEF Sanity!Core
<1>2. CASE UNCHANGED Sanity!vars
  BY <1>2, SanityStutter
<1> QED
  BY <1>1, <1>2, SanityProtocol DEF Sanity!Next, Sanity!Terminated

-----------------------------------------------------------------------------
(* mc_template.c *)

TemplateFits == TemplateN * NumCores <= MATRIX_SIZE

TemplateTypes ==
  /\ McTypeOK(Template!Labels)
  /\ MATRIX_SIZE \in Nat \ {0}
  /\ next_index \in Nat
  /\ last \in Int
  /\ stored \in SUBSET Cores

\* Core 0 sets up, the others wait for it; only core 0 returns.
TemplateRoles ==
  /\ \A c \in Cores \ {0} :
       pc[c] \notin {"setup", "init_data", "publish", "join", "returned"}
  /\ pc[0] \notin {"await", "idle"}
  /\ pc[0] \in SetupLabels <=> ~Started
  /\ ~Started => \A c \in Cores \ {0} : pc[c] = "await"
  /\ pc[0] # "returned" => ret[0] = NotReturned

\* The initialisation counts up to MATRIX_SIZE and is over before the start.
InitCount ==
  /\ pc[0] = "setup" => next_index = 0
  /\ pc[0] = "init_data" => next_index < MATRIX_SIZE
  /\ pc[0] = "publish" \/ Started => next_index = MATRIX_SIZE

StoredAreDone ==
  stored = {c \in Cores : pc[c] \notin SetupLabels \union {"work"}}

TemplateInv ==
  /\ TemplateTypes
  /\ TemplateFits => /\ TemplateRoles /\ EndInv /\ InitCount /\ StoredAreDone
                     /\ ret[0] = 0 => stored = Cores
  /\ ~TemplateFits =>
       /\ \A c \in Cores : pc[c] \in {Template!EntryPoint(c), "returned"}
       /\ stored = {}
       /\ ~Started
       /\ ret[0] = IF pc[0] = "returned" THEN 1 ELSE NotReturned

\* The names of the protocol mean the same inside the instance.
LEMMA TemplateProtocol ==
  /\ Template!Cores = Cores
  /\ Template!Labels = SetupLabels \union Joined \union EndCritical
                         \union {"work", "end_lock"}
  /\ Template!Fits <=> TemplateFits
  /\ \A c \in Cores : Template!EndBarrier(c) <=> EndBarrier(c)
  /\ Template!Join <=> Join
  /\ \A l : Template!ClearLock(l) <=> ClearLock(l)
  /\ \A l : Template!Publish(l) <=> Publish(l)
  /\ \A c, l : Template!AwaitStart(c, l) <=> AwaitStart(c, l)
<1>1. Template!Cores = Cores
  BY DEF Template!Cores, Cores
<1>2. Template!Labels = SetupLabels \union Joined \union EndCritical
                          \union {"work", "end_lock"}
  BY DEF Template!Labels, Template!SetupLabels, Template!Joined,
         Template!EndCritical
<1>3. Template!Fits <=> TemplateFits
  BY DEF Template!Fits, TemplateFits
<1>4. \A c \in Cores : Template!EndBarrier(c) <=> EndBarrier(c)
  BY DEF Template!EndBarrier, EndBarrier, Template!EndLock, EndLock,
         Template!EndLoad, EndLoad, Template!EndStore, EndStore,
         Template!EndUnlock, EndUnlock, Template!Lock, Lock, Template!Unlock,
         Unlock, Template!LoadReg, LoadReg, Template!Goto, Goto
<1>5. Template!Join <=> Join
  BY DEF Template!Join, Join, Template!Return, Return, Template!Goto, Goto
<1>6. /\ \A l : Template!ClearLock(l) <=> ClearLock(l)
      /\ \A l : Template!Publish(l) <=> Publish(l)
      /\ \A c, l : Template!AwaitStart(c, l) <=> AwaitStart(c, l)
  BY DEF Template!ClearLock, ClearLock, Template!Publish, Publish,
         Template!AwaitStart, AwaitStart, Template!Goto, Goto
<1> QED
  BY <1>1, <1>2, <1>3, <1>4, <1>5, <1>6

\* The invariant of mc_template.c holds before its first step.
LEMMA TemplateInit == ProgramsAssumption /\ Template!Init => TemplateInv
<1> SUFFICES ASSUME ProgramsAssumption, Template!Init PROVE TemplateInv
  OBVIOUS
<1> USE TemplateProtocol
    DEF Template!Init, Template!MemInit, Template!NotReturned,
        Template!EntryPoint, ProgramsAssumption, Template!TemplateAssumption
<1>1. TemplateTypes
  BY DEF TemplateTypes, McTypeOK
<1>2. TemplateRoles /\ InitCount /\ StoredAreDone
  BY DEF TemplateRoles, InitCount, StoredAreDone, Started
<1>3. EndInv
  <2>1. EndedCores = {}
    BY DEF EndedCores
  <2> QED
    BY <2>1, CountNone DEF EndInv, LockHeld
<1> QED
  BY <1>1, <1>2, <1>3 DEF TemplateInv, Started

\* A matrix that is too big: each core returns 1 at once.
LEMMA TooBigInv ==
  ASSUME ProgramsAssumption, TemplateInv, NEW c \in Cores, Template!TooBig(c)
  PROVE  TemplateInv'
<1> USE TemplateProtocol
    DEF TemplateInv, TemplateTypes, McTypeOK, Template!TooBig, Template!Return,
        Template!Goto, Template!matrixVars, Template!EntryPoint
<1>1. ~TemplateFits /\ ~TemplateFits'
  BY DEF TemplateFits
<1>2. TemplateTypes'
  OBVIOUS
<1> QED
  BY <1>1, <1>2 DEF Started

\* Core 0 clears the lock, initialises and publishes; a core that sees the
\* start goes to work.
LEMMA TemplateStartInv ==
  ASSUME ProgramsAssumption, TemplateInv, NEW c \in Cores, Template!Start(c)
  PROVE  TemplateInv'
<1> USE TemplateProtocol
    DEF TemplateInv, TemplateTypes, McTypeOK, Template!Goto, Goto,
        Template!matrixVars
<1>0. TemplateFits
  BY DEF Template!Start
<1>1. CASE c = 0 /\ ClearLock("init_data") /\ UNCHANGED Template!matrixVars
  <2> USE <1>0, <1>1 DEF ClearLock
  <2>1. TemplateTypes' /\ TemplateFits'
    BY DEF TemplateFits
  <2>2. (TemplateRoles /\ InitCount /\ StoredAreDone)'
    BY DEF TemplateRoles, InitCount, StoredAreDone, Started
  <2>3. EndInv'
    BY QuietStep DEF TemplateRoles
  <2> QED
    BY <2>1, <2>2, <2>3
<1>2. CASE c = 0 /\ Publish("work") /\ UNCHANGED Template!matrixVars
  <2> USE <1>0, <1>2 DEF Publish
  <2>1. TemplateTypes' /\ TemplateFits'
    BY DEF TemplateFits
  <2>2. (TemplateRoles /\ InitCount /\ StoredAreDone)'
    BY DEF TemplateRoles, InitCount, StoredAreDone, Started
  <2>3. EndInv'
    BY QuietStep
  <2> QED
    BY <2>1, <2>2, <2>3
<1>3. CASE c # 0 /\ AwaitStart(c, "work") /\ UNCHANGED Template!matrixVars
  <2> USE <1>0, <1>3 DEF AwaitStart
  <2>1. TemplateTypes' /\ TemplateFits'
    BY DEF TemplateFits
  <2>2. (TemplateRoles /\ InitCount /\ StoredAreDone)'
    BY DEF TemplateRoles, InitCount, StoredAreDone, Started
  <2>3. EndInv'
    BY QuietStep
  <2> QED
    BY <2>1, <2>2, <2>3
<1>4. CASE c = 0 /\ Template!InitMatrix
  <2> USE <1>0, <1>4 DEF Template!InitMatrix, Template!Highest
  <2>1. TemplateTypes' /\ TemplateFits'
    BY DEF TemplateFits
  <2>2. (TemplateRoles /\ InitCount /\ StoredAreDone)'
    BY DEF TemplateRoles, InitCount, StoredAreDone, Started
  <2>3. EndInv'
    BY QuietStep
  <2> QED
    BY <2>1, <2>2, <2>3
<1> QED
  BY <1>1, <1>2, <1>3, <1>4 DEF Template!Start

\* A core stores its sum.
LEMMA StoreSumInv ==
  ASSUME ProgramsAssumption, TemplateInv, NEW c \in Cores, Template!StoreSum(c)
  PROVE  TemplateInv'
<1> USE TemplateProtocol
    DEF TemplateInv, TemplateTypes, McTypeOK, Template!StoreSum, Template!Goto,
        Template!Highest
<1>1. TemplateFits /\ TemplateFits'
  BY DEF TemplateFits, Template!EntryPoint
<1>2. TemplateTypes'
  OBVIOUS
<1>3. (TemplateRoles /\ InitCount /\ StoredAreDone)'
  BY <1>1 DEF TemplateRoles, InitCount, StoredAreDone, Started
<1>4. EndInv'
  BY <1>1, QuietStep
<1> QED
  BY <1>1, <1>2, <1>3, <1>4

\* The join: when core 0 passes it every core has stored.
LEMMA TemplateFinishInv ==
  ASSUME ProgramsAssumption, TemplateInv, NEW c \in Cores,
         EndBarrier(c) \/ (c = 0 /\ Join), UNCHANGED Template!matrixVars
  PROVE  TemplateInv'
<1> USE TemplateProtocol DEF TemplateInv, TemplateTypes, Template!matrixVars
<1>1. CASE EndBarrier(c)
  <2>0. /\ McTypeOK(Template!Labels)'
        /\ \E from \in {"end_lock"} \union EndCritical,
              to \in EndCritical \union {"join", "idle"} :
             /\ Goto(c, from, to)
             /\ to = "join" => c = 0
             /\ to = "idle" => c # 0
        /\ UNCHANGED <<ret, start_barrier_mem>>
    BY <1>1, EndBarrierShape
  <2> USE DEF Goto, McTypeOK
  <2>1. TemplateFits /\ TemplateFits'
    BY <2>0 DEF TemplateFits, Template!EntryPoint
  <2>2. (TemplateRoles /\ InitCount /\ StoredAreDone)'
    BY <2>0, <2>1 DEF TemplateRoles, InitCount, StoredAreDone, Started
  <2>3. EndInv'
    BY <1>1, <2>1, EndBarrierStep
  <2> QED
    BY <2>0, <2>1, <2>2, <2>3
<1>2. CASE c = 0 /\ Join
  <2> USE <1>2 DEF Join, Return, Goto, McTypeOK
  <2>1. TemplateFits /\ TemplateFits'
    BY DEF TemplateFits, Template!EntryPoint
  <2>2. (TemplateRoles /\ InitCount /\ StoredAreDone)'
    BY <2>1 DEF TemplateRoles, InitCount, StoredAreDone, Started
  <2>3. EndInv'
    BY <2>1, QuietStep
  <2>4. stored = Cores
    BY <2>1, EndBarrierMeansAll DEF StoredAreDone
  <2> QED
    BY <2>1, <2>2, <2>3, <2>4
<1> QED
  BY <1>1, <1>2

\* A step that changes nothing of mc_template.c keeps its invariant.
LEMMA TemplateStutter == TemplateInv /\ UNCHANGED Template!vars => TemplateInv'
BY TemplateProtocol
DEF Template!vars, Template!mcVars, Template!matrixVars, TemplateInv,
    TemplateTypes, TemplateFits, McTypeOK, TemplateRoles, Started, EndInv,
    LockHeld, EndedCores, InitCount, StoredAreDone, Template!EntryPoint

\* Every step of mc_template.c preserves its invariant.
LEMMA TemplateNextInv ==
  ProgramsAssumption /\ TemplateInv /\ Template!Next => TemplateInv'
<1> SUFFICES ASSUME ProgramsAssumption, TemplateInv, Template!Next
             PROVE  TemplateInv'
  OBVIOUS
<1>1. ASSUME NEW c \in Cores, Template!Core(c) PROVE TemplateInv'
  BY <1>1, TemplateProtocol, TooBigInv, TemplateStartInv, StoreSumInv,
     TemplateFinishInv
     DEF Template!Core
<1>2. CASE UNCHANGED Template!vars
  BY <1>2, TemplateStutter
<1> QED
  BY <1>1, <1>2, TemplateProtocol DEF Template!Next, Template!Terminated

-----------------------------------------------------------------------------
(* The suite: one program runs, its part of the invariant holds. *)

Inv ==
  /\ program \in {"mc_lrsc_add", "mc_amo_add", "mc_sanity", "mc_template"}
  /\ program = "mc_lrsc_add" => LrscInv
  /\ program = "mc_amo_add" => AmoInv
  /\ program = "mc_sanity" => SanityInv
  /\ program = "mc_template" => TemplateInv

\* Whichever program was loaded, Inv holds before its first step.
LEMMA InitInv == Init => Inv
BY ProgramsAssumption, LrscInit, AmoInit, SanityInit, TemplateInit DEF Init, Inv

\* Every step of every program keeps Inv.
LEMMA NextInv == Inv /\ [Next]_vars => Inv'
<1> SUFFICES ASSUME Inv, [Next]_vars PROVE Inv'
  OBVIOUS
<1> USE ProgramsAssumption DEF Inv
<1>1. CASE LrscNext
  BY <1>1, LrscNextInv DEF LrscNext
<1>2. CASE AmoNext
  BY <1>2, AmoNextInv DEF AmoNext
<1>3. CASE SanityNext
  BY <1>3, SanityNextInv DEF SanityNext
<1>4. CASE TemplateNext
  BY <1>4, TemplateNextInv DEF TemplateNext
<1>5. CASE UNCHANGED vars
  <2>1. CASE program = "mc_lrsc_add"
    <3>1. UNCHANGED Lrsc!vars
      BY <1>5 DEF vars, mcVars, Lrsc!vars, Lrsc!mcVars, Lrsc!addVars
    <3> QED
      BY <1>5, <2>1, <3>1, LrscStutter DEF vars
  <2>2. CASE program = "mc_amo_add"
    <3>1. UNCHANGED Amo!vars
      BY <1>5 DEF vars, mcVars, Amo!vars, Amo!mcVars, Amo!addVars
    <3> QED
      BY <1>5, <2>2, <3>1, AmoStutter DEF vars
  <2>3. CASE program = "mc_sanity"
    <3>1. UNCHANGED Sanity!vars
      BY <1>5 DEF vars, mcVars, Sanity!vars, Sanity!mcVars, Sanity!matrixVars
    <3> QED
      BY <1>5, <2>3, <3>1, SanityStutter DEF vars
  <2>4. CASE program = "mc_template"
    <3>1. UNCHANGED Template!vars
      BY <1>5 DEF vars, mcVars, Template!vars, Template!mcVars,
                  Template!matrixVars
    <3> QED
      BY <1>5, <2>4, <3>1, TemplateStutter DEF vars
  <2> QED
    BY <2>1, <2>2, <2>3, <2>4
<1> QED
  BY <1>1, <1>2, <1>3, <1>4, <1>5 DEF Next

\* The invariant of the suite, for every number of cores, of iterations and
\* of elements.
THEOREM Invariance == Spec => []Inv
BY InitInv, NextInv, PTL DEF Spec

\* mc_lrsc_add.c loses no add and does none twice: amo_target is the number of
\* iterations completed, whatever reservations are lost and SCs fail.
THEOREM NoLostAddHolds == Spec => []NoLostAdd
<1>1. Inv => NoLostAdd
  BY DEF Inv, LrscInv, NoLostAdd
<1> QED
  BY <1>1, Invariance, PTL

\* mc_amo_add.c passes for every N that is a multiple of the unrolling: when
\* core 0 compares, all N * num_cores adds are done.
THEOREM AmoPassesHolds == Spec => []AmoPasses
<1>1. Inv => AmoPasses
  BY DEF Inv, AmoInv, AmoPasses
<1> QED
  BY <1>1, Invariance, PTL

\* mc_sanity.c returns 0 exactly when N * num_cores elements fit and no read
\* of core 0 was stale, for every number of cores and matrix size.
THEOREM SanityVerdictIsExactHolds == Spec => []SanityVerdictIsExact
<1>1. Inv => SanityVerdictIsExact
  <2> SUFFICES ASSUME Inv, program = "mc_sanity", pc[0] = "returned"
               PROVE  ret[0] = 0 <=> SanityFits /\ ~wrong[0]
    BY SanityProtocol
       DEF SanityVerdictIsExact, Sanity!VerdictIsExact, Sanity!MATRIX_SIZE,
           SanityFits
  <2> QED
    BY DEF Inv, SanityInv, SanityRoles
<1> QED
  BY <1>1, Invariance, PTL

\* mc_template.c stores sums only over the initialised matrix, and core 0
\* returns 0 only when every core has stored its sum.
THEOREM SumsOverInitialisedHolds == Spec => []SumsOverInitialised
<1>1. Inv => SumsOverInitialised
  <2> SUFFICES ASSUME TemplateInv
               PROVE  Template!InitialisedFirst /\ Template!AllStored
    BY DEF Inv, SumsOverInitialised
  <2>1. CASE TemplateFits
    <3>1. stored # {} => Started
      BY <2>1 DEF TemplateInv, TemplateTypes, TemplateRoles, StoredAreDone
    <3> QED
      BY <2>1, <3>1, TemplateProtocol
         DEF TemplateInv, InitCount, Template!InitialisedFirst, Template!AllStored
  <2>2. CASE ~TemplateFits
    BY <2>2 DEF TemplateInv, Template!InitialisedFirst, Template!AllStored
  <2> QED
    BY <2>1, <2>2
<1> QED
  BY <1>1, Invariance, PTL

-----------------------------------------------------------------------------
(* Every program implements the fork and join. *)

\* A core that stays in its phase.
LEMMA ForkJoinQuiet ==
  ASSUME NEW L, McTypeOK(L), DataFits, DataFits',
         HasStartBarrier' = HasStartBarrier, NEW c \in Cores, NEW l,
         pc' = [pc EXCEPT ![c] = l],
         pc[c] \in SetupLabels <=> l \in SetupLabels,
         pc[c] \in Joined <=> l \in Joined,
         start_barrier_mem' = start_barrier_mem,
         ret'[0] = ret[0]
  PROVE  UNCHANGED Program!vars
<1>1. Phase' = Phase
  BY PhaseStep
<1> QED
  BY <1>1 DEF Program!vars, ExitCode, Started

\* Core 0 publishes; in a program with a start barrier it works at once.
LEMMA ForkJoinPublish ==
  ASSUME NEW L, McTypeOK(L), DataFits, DataFits',
         HasStartBarrier, HasStartBarrier', NEW l,
         pc' = [pc EXCEPT ![0] = l],
         pc[0] \in SetupLabels, l \notin SetupLabels \union Joined,
         ~Started, Started', ret[0] = NotReturned, ret'[0] = ret[0]
  PROVE  Program!Publish
<1>1. Phase' = [Phase EXCEPT ![0] = "running"]
  BY PhaseStep
<1> QED
  BY <1>1 DEF Program!Publish, ExitCode

\* Another core sees the start.
LEMMA ForkJoinBegin ==
  ASSUME NEW L, McTypeOK(L), DataFits, DataFits',
         HasStartBarrier, HasStartBarrier', NEW c \in Cores, NEW l,
         pc' = [pc EXCEPT ![c] = l],
         pc[c] \in SetupLabels, l \notin SetupLabels \union Joined,
         Started, start_barrier_mem' = start_barrier_mem, ret'[0] = ret[0]
  PROVE  Program!Begin(c)
<1>1. Phase[c] = "waiting" /\ Phase' = [Phase EXCEPT ![c] = "running"]
  BY PhaseStep
<1> QED
  BY <1>1 DEF Program!Begin, ExitCode, Started

\* The store of the end barrier joins a core.
LEMMA ForkJoinJoin ==
  ASSUME NEW L, McTypeOK(L), {"end_lock", "join", "idle"} \union EndCritical \subseteq L,
         DataFits, DataFits', HasStartBarrier' = HasStartBarrier,
         NEW c \in Cores, EndBarrier(c)
  PROVE  Program!JoinCore(c) \/ UNCHANGED Program!vars
<1>1. PICK from \in {"end_lock"} \union EndCritical,
            to \in EndCritical \union {"join", "idle"} :
        /\ pc[c] = from /\ pc' = [pc EXCEPT ![c] = to]
        /\ from = "end_store" <=> ~(from \in Joined) /\ to \in Joined
        /\ from \in Joined => to \in Joined
  BY EndBarrierShape DEF Goto
<1>2. UNCHANGED <<ret, start_barrier_mem>>
  BY EndBarrierShape
<1>3. CASE from \in Joined <=> to \in Joined
  BY <1>1, <1>2, <1>3, ForkJoinQuiet
<1>4. CASE from \notin Joined /\ to \in Joined
  <2>1. Phase[c] = "running" /\ Phase' = [Phase EXCEPT ![c] = "joined"]
    BY <1>1, <1>4, PhaseStep
  <2> QED
    BY <1>2, <2>1 DEF Program!JoinCore, ExitCode, Started
<1> QED
  BY <1>1, <1>3, <1>4

\* Core 0 returns when the end barrier counts all cores.
LEMMA ForkJoinExit ==
  ASSUME NEW L, McTypeOK(L), EndInv, DataFits, DataFits',
         HasStartBarrier' = HasStartBarrier,
         end_barrier_mem = NumCores, ret[0] = NotReturned, pc[0] = "join",
         pc' = [pc EXCEPT ![0] = "returned"], ret'[0] \in {0, 1},
         start_barrier_mem' = start_barrier_mem
  PROVE  Program!Exit
<1>1. Phase' = Phase
  BY PhaseStep
<1>2. \A c \in Cores : Phase[c] = "joined"
  BY EndBarrierMeansAll DEF Phase
<1> QED
  BY <1>1, <1>2 DEF Program!Exit, Program!Cores, Cores, ExitCode, Started

\* The steps of each program.
LEMMA LrscForkJoin ==
  ASSUME LrscInv, program = "mc_lrsc_add", LrscNext
  PROVE  Program!Next \/ UNCHANGED Program!vars
<1> USE LrscProtocol
    DEF LrscInv, Lrsc!TypeOK, Lrsc!McTypeOK, McTypeOK, Lrsc!NotReturned
<1>a. HasStartBarrier /\ DataFits /\ HasStartBarrier' /\ DataFits'
  BY DEF HasStartBarrier, DataFits, LrscNext
<1>b. McTypeOK(Lrsc!Labels)
  OBVIOUS
<1>1. ASSUME NEW c \in Cores, Lrsc!Start(c)
      PROVE  Program!Next \/ UNCHANGED Program!vars
  <2> USE DEF Goto, Lrsc!Goto
  <2>1. CASE c = 0 /\ ClearLock("init_data")
    <3>1. UNCHANGED Program!vars
      BY <1>a, <1>b, <2>1, ForkJoinQuiet DEF ClearLock
    <3> QED
      BY <3>1
  <2>2. CASE c = 0 /\ Lrsc!InitTarget
    <3>1. UNCHANGED Program!vars
      BY <1>a, <1>b, <2>2, ForkJoinQuiet DEF Lrsc!InitTarget
    <3> QED
      BY <3>1
  <2>3. CASE c = 0 /\ Publish("check")
    <3>1. Program!Publish
      BY <1>a, <1>b, <2>3, ForkJoinPublish DEF Publish, LrscRoles, Started
    <3> QED
      BY <3>1 DEF Program!Next
  <2>4. CASE c # 0 /\ AwaitStart(c, "check")
    <3>1. Program!Begin(c)
      BY <1>a, <1>b, <2>4, ForkJoinBegin DEF AwaitStart, Started
    <3> QED
      BY <3>1 DEF Program!Next, Program!Cores, Cores
  <2> QED
    BY <1>1, <2>1, <2>2, <2>3, <2>4 DEF Lrsc!Start
<1>2. ASSUME NEW c \in Cores,
             \/ Lrsc!Check(c) \/ Lrsc!LoadReserved(c) \/ Lrsc!StoreConditional(c)
             \/ Lrsc!StoreFails(c)
      PROVE  UNCHANGED Program!vars
  <2>1. \E l \in {"check", "lr", "sc", "end_lock"} :
          pc[c] \in {"check", "lr", "sc"} /\ pc' = [pc EXCEPT ![c] = l]
    BY <1>2 DEF Lrsc!Check, Lrsc!LoadReserved, Lrsc!StoreConditional,
                Lrsc!StoreFails, Lrsc!Goto
  <2>2. UNCHANGED <<ret, start_barrier_mem>>
    BY <1>2 DEF Lrsc!Check, Lrsc!LoadReserved, Lrsc!StoreConditional,
                Lrsc!StoreFails
  <2> QED
    BY <1>a, <1>b, <2>1, <2>2, ForkJoinQuiet
<1>3. ASSUME NEW c \in Cores, Lrsc!LoseReservation(c) PROVE UNCHANGED Program!vars
  BY <1>3, <1>a DEF Lrsc!LoseReservation, Lrsc!mcVars, Program!vars, Phase,
                    ExitCode, Started
<1>4. ASSUME NEW c \in Cores, Lrsc!Finish(c)
      PROVE  Program!Next \/ UNCHANGED Program!vars
  <2>1. CASE EndBarrier(c)
    <3>1. Program!JoinCore(c) \/ UNCHANGED Program!vars
      BY <1>a, <1>b, <2>1, ForkJoinJoin
    <3> QED
      BY <3>1 DEF Program!Next, Program!Cores, Cores
  <2>2. CASE c = 0 /\ Join
    <3>1. Program!Exit
      BY <1>a, <1>b, <2>2, ForkJoinExit DEF Join, Return, Goto, LrscRoles
    <3> QED
      BY <3>1 DEF Program!Next
  <2> QED
    BY <1>4, <2>1, <2>2 DEF Lrsc!Finish
<1>5. CASE UNCHANGED Lrsc!vars
  BY <1>5, <1>a DEF Lrsc!vars, Lrsc!mcVars, Program!vars, Phase, ExitCode, Started
<1> QED
  BY <1>1, <1>2, <1>3, <1>4, <1>5
     DEF LrscNext, Lrsc!Next, Lrsc!Core, Lrsc!Terminated

\* Each step of mc_amo_add.c is one of ForkJoin or a stutter.
LEMMA AmoForkJoin ==
  ASSUME AmoInv, program = "mc_amo_add", AmoNext
  PROVE  Program!Next \/ UNCHANGED Program!vars
<1> USE AmoProtocol DEF AmoInv, AmoTypes
<1>a. HasStartBarrier' = HasStartBarrier /\ DataFits /\ DataFits'
  BY DEF HasStartBarrier, DataFits, AmoNext
<1>b. McTypeOK(Amo!Labels)
  OBVIOUS
<1>1. ASSUME NEW c \in Cores, Amo!LoopCheck(c) \/ Amo!LoopBody(c)
      PROVE  UNCHANGED Program!vars
  <2>1. \E l \in {"loop_check", "loop_body", "end_lock"} :
          pc[c] \in {"loop_check", "loop_body"} /\ pc' = [pc EXCEPT ![c] = l]
    BY <1>1 DEF Amo!LoopCheck, Amo!LoopBody, Amo!Goto
  <2>2. UNCHANGED <<ret, start_barrier_mem>>
    BY <1>1 DEF Amo!LoopCheck, Amo!LoopBody
  <2> QED
    BY <1>a, <1>b, <2>1, <2>2, ForkJoinQuiet
<1>2. ASSUME NEW c \in Cores, EndBarrier(c)
      PROVE  Program!Next \/ UNCHANGED Program!vars
  <2>1. Program!JoinCore(c) \/ UNCHANGED Program!vars
    BY <1>a, <1>b, <1>2, ForkJoinJoin
  <2> QED
    BY <2>1 DEF Program!Next, Program!Cores, Cores
<1>3. ASSUME Amo!Compare PROVE Program!Next
  <2>1. Program!Exit
    BY <1>a, <1>b, <1>3, ForkJoinExit
       DEF Amo!Compare, Amo!Return, Amo!Goto, AmoRoles, McTypeOK
  <2> QED
    BY <2>1 DEF Program!Next
<1>4. CASE UNCHANGED Amo!vars
  BY <1>4, <1>a DEF Amo!vars, Amo!mcVars, Program!vars, Phase, ExitCode, Started
<1> QED
  BY <1>1, <1>2, <1>3, <1>4 DEF AmoNext, Amo!Next, Amo!Core, Amo!Terminated

\* Each step of mc_sanity.c is one of ForkJoin or a stutter: a core that reads
\* a wrong value joins all the same.
LEMMA SanityForkJoin ==
  ASSUME SanityInv, program = "mc_sanity", SanityNext
  PROVE  Program!Next \/ UNCHANGED Program!vars
<1> USE SanityProtocol DEF SanityInv, SanityTypes
<1>a. ~HasStartBarrier /\ HasStartBarrier' = HasStartBarrier
  BY DEF HasStartBarrier, SanityNext
<1>b. McTypeOK(Sanity!Labels)
  OBVIOUS
<1>c. (DataFits <=> SanityFits) /\ (DataFits' <=> SanityFits')
  BY DEF DataFits, SanityNext, SanityFits, Sanity!Fits, Sanity!MATRIX_SIZE
<1>d. \A c \in Cores : SanityFits /\ Sanity!Write(c) =>
        Cardinality(DOMAIN MATRIX') = Cardinality(DOMAIN MATRIX)
  BY DEF Sanity!Write
<1>1. CASE SanityFits
  <2>0. SanityFits' /\ DataFits /\ DataFits'
    BY <1>c, <1>1
       DEF SanityFits, SanityNext, Sanity!Next, Sanity!Core, Sanity!SizeCheck,
           Sanity!Write, Sanity!ReadBack, Sanity!LoopEnds, Sanity!Judge,
           Sanity!ReturnOne, Sanity!Terminated, Sanity!vars, Sanity!matrixVars
  <2>1. ASSUME NEW c \in Cores,
               \/ Sanity!SizeCheck(c) \/ Sanity!Write(c) \/ Sanity!ReadBack(c)
               \/ Sanity!LoopEnds(c)
        PROVE  UNCHANGED Program!vars
    <3>1. \E l \in {"loop", "read_back", "end_lock"} :
            pc[c] \in {"size_check", "loop", "read_back"} /\ pc' = [pc EXCEPT ![c] = l]
      BY <1>1, <2>1
         DEF Sanity!SizeCheck, Sanity!Write, Sanity!ReadBack, Sanity!LoopEnds,
             Sanity!Goto
    <3>2. UNCHANGED <<ret, start_barrier_mem>>
      BY <1>1, <2>1
         DEF Sanity!SizeCheck, Sanity!Write, Sanity!ReadBack, Sanity!LoopEnds
    <3> QED
      BY <1>a, <1>b, <2>0, <3>1, <3>2, ForkJoinQuiet
  <2>2. ASSUME NEW c \in Cores, EndBarrier(c)
        PROVE  Program!Next \/ UNCHANGED Program!vars
    <3>1. Program!JoinCore(c) \/ UNCHANGED Program!vars
      BY <1>a, <1>b, <2>0, <2>2, ForkJoinJoin
    <3> QED
      BY <3>1 DEF Program!Next, Program!Cores, Cores
  <2>3. ASSUME Sanity!Judge PROVE Program!Next
    <3>1. Program!Exit
      BY <1>1, <1>a, <1>b, <2>0, <2>3, ForkJoinExit
         DEF Sanity!Judge, Sanity!Return, Sanity!Goto, SanityRoles, McTypeOK
    <3> QED
      BY <3>1 DEF Program!Next
  <2>4. ASSUME NEW c \in Cores, Sanity!ReturnOne(c)
        PROVE  UNCHANGED Program!vars
    <3>1. /\ pc[c] = "idle" /\ pc' = [pc EXCEPT ![c] = "returned"]
          /\ c # 0 /\ ret'[0] = ret[0] /\ UNCHANGED start_barrier_mem
      BY <1>1, <2>4
         DEF Sanity!ReturnOne, Sanity!Return, Sanity!Goto, SanityRoles, McTypeOK
    <3> QED
      BY <1>a, <1>b, <2>0, <3>1, ForkJoinQuiet
  <2>5. CASE UNCHANGED Sanity!vars
    BY <2>5, <1>a, <2>0
       DEF Sanity!vars, Sanity!mcVars, Program!vars, Phase, ExitCode, Started
  <2> QED
    BY <2>1, <2>2, <2>3, <2>4, <2>5
       DEF SanityNext, Sanity!Next, Sanity!Core, Sanity!Terminated
<1>2. CASE ~SanityFits
  <2>0. /\ UNCHANGED MATRIX
        /\ ret' = ret \/ \E c \in Cores : pc[c] = "size_check" /\ ret' = [ret EXCEPT ![c] = 1]
    BY <1>2
       DEF SanityNext, Sanity!Next, Sanity!Core, Sanity!SizeCheck, Sanity!Return,
           Sanity!Goto, Sanity!Write, Sanity!ReadBack, Sanity!LoopEnds, EndBarrier,
           EndLock, EndLoad, EndStore, EndUnlock, Lock, Unlock, LoadReg, Goto,
           Sanity!Judge, Sanity!ReturnOne, Sanity!Terminated, Sanity!vars,
           Sanity!mcVars, Sanity!matrixVars
  <2>1. ~DataFits /\ DataFits' = DataFits
    BY <1>2, <1>c, <2>0
       DEF SanityNext, DataFits, Sanity!Fits, Sanity!MATRIX_SIZE
  <2>2. ret'[0] = ret[0] \/ (ret[0] = NotReturned /\ ret'[0] = 1)
    BY <1>2, <2>0 DEF McTypeOK
  <2> QED
    BY <1>a, <2>1, <2>2 DEF Program!Next, Program!Refuse, Program!vars, ExitCode
<1> QED
  BY <1>1, <1>2

\* Each step of mc_template.c is one of ForkJoin or a stutter.
LEMMA TemplateForkJoin ==
  ASSUME ProgramsAssumption, TemplateInv, program = "mc_template", TemplateNext
  PROVE  Program!Next \/ UNCHANGED Program!vars
<1> USE TemplateProtocol DEF TemplateInv, TemplateTypes
<1>a. HasStartBarrier /\ HasStartBarrier'
  BY DEF HasStartBarrier, TemplateNext
<1>b. McTypeOK(Template!Labels)
  OBVIOUS
<1>c. (DataFits <=> TemplateFits) /\ (DataFits' <=> TemplateFits')
  BY DEF DataFits, TemplateNext, TemplateFits, Template!Fits
<1>d. UNCHANGED MATRIX_SIZE
  BY DEF TemplateNext, Template!Next, Template!Core, Template!TooBig,
         Template!Start, Template!InitMatrix, Template!StoreSum,
         Template!Terminated, Template!vars, Template!matrixVars
<1>1. CASE TemplateFits
  <2>0. TemplateFits' /\ DataFits /\ DataFits'
    BY <1>c, <1>d, <1>1 DEF TemplateFits
  <2>1. ASSUME NEW c \in Cores, Template!Start(c)
        PROVE  Program!Next \/ UNCHANGED Program!vars
    <3> USE DEF Goto, Template!Goto, McTypeOK
    <3>1. CASE c = 0 /\ ClearLock("init_data")
      <4>1. UNCHANGED Program!vars
        BY <1>a, <1>b, <2>0, <3>1, ForkJoinQuiet DEF ClearLock
      <4> QED
        BY <4>1
    <3>2. CASE c = 0 /\ Template!InitMatrix
      <4>1. UNCHANGED Program!vars
        BY <1>a, <1>b, <2>0, <3>2, ForkJoinQuiet DEF Template!InitMatrix
      <4> QED
        BY <4>1
    <3>3. CASE c = 0 /\ Publish("work")
      <4>1. Program!Publish
        BY <1>1, <1>a, <1>b, <2>0, <3>3, ForkJoinPublish
           DEF Publish, TemplateRoles, Started
      <4> QED
        BY <4>1 DEF Program!Next
    <3>4. CASE c # 0 /\ AwaitStart(c, "work")
      <4>1. Program!Begin(c)
        BY <1>a, <1>b, <2>0, <3>4, ForkJoinBegin DEF AwaitStart, Started
      <4> QED
        BY <4>1 DEF Program!Next, Program!Cores, Cores
    <3> QED
      BY <2>1, <3>1, <3>2, <3>3, <3>4 DEF Template!Start
  <2>2. ASSUME NEW c \in Cores, Template!StoreSum(c) PROVE UNCHANGED Program!vars
    BY <1>a, <1>b, <2>0, <2>2, ForkJoinQuiet DEF Template!StoreSum, Template!Goto
  <2>3. ASSUME NEW c \in Cores, EndBarrier(c)
        PROVE  Program!Next \/ UNCHANGED Program!vars
    <3>1. Program!JoinCore(c) \/ UNCHANGED Program!vars
      BY <1>a, <1>b, <2>0, <2>3, ForkJoinJoin
    <3> QED
      BY <3>1 DEF Program!Next, Program!Cores, Cores
  <2>4. ASSUME Join PROVE Program!Next
    <3>1. Program!Exit
      BY <1>1, <1>a, <1>b, <2>0, <2>4, ForkJoinExit
         DEF Join, Return, Goto, TemplateRoles, McTypeOK
    <3> QED
      BY <3>1 DEF Program!Next
  <2>5. CASE UNCHANGED Template!vars
    BY <2>5, <1>a, <2>0
       DEF Template!vars, Template!mcVars, Program!vars, Phase, ExitCode, Started
  <2>6. \A c \in Cores : ~Template!TooBig(c)
    BY <1>1 DEF Template!TooBig
  <2> QED
    BY <2>1, <2>2, <2>3, <2>4, <2>5, <2>6
       DEF TemplateNext, Template!Next, Template!Core, Template!Terminated
<1>2. CASE ~TemplateFits
  <2>0. /\ UNCHANGED start_barrier_mem
        /\ \/ ret' = ret
           \/ \E c \in Cores : /\ pc[c] = Template!EntryPoint(c)
                               /\ ret' = [ret EXCEPT ![c] = 1]
    BY <1>2
       DEF TemplateNext, Template!Next, Template!Core, Template!TooBig,
           Template!Return, Template!Goto, Template!Start, Template!StoreSum,
           EndBarrier, EndLock, EndLoad, EndStore, EndUnlock, Lock, Unlock,
           LoadReg, Goto, Join, Return, Template!Terminated, Template!vars,
           Template!mcVars, Template!EntryPoint
  <2>1. ~DataFits /\ ~DataFits'
    BY <1>2, <1>c, <1>d DEF TemplateFits
  <2>2. ret'[0] = ret[0] \/ (ret[0] = NotReturned /\ ret'[0] = 1)
    BY <1>2, <2>0 DEF McTypeOK, Template!EntryPoint
  <2> QED
    BY <1>2, <1>a, <2>0, <2>1, <2>2
       DEF Program!Next, Program!Refuse, Program!vars, ExitCode, Started
<1> QED
  BY <1>1, <1>2

\* No core works before the shared data is initialised and core 0 returns
\* after all cores have joined, or it refuses data that does not fit: the
\* safety half of ImplementsForkJoin, for each of the four programs.
THEOREM ForkJoinRefinement == Spec => Program!Spec
<1>1. Init => Program!Init
  <2> SUFFICES ASSUME Init PROVE Program!Init
    OBVIOUS
  <2> USE DEF Program!Init, Program!Cores, Cores, ExitCode, Phase, Started,
              HasStartBarrier, DataFits
  <2>1. CASE program = "mc_lrsc_add"
    BY <2>1 DEF Init, Lrsc!Init, Lrsc!MemInit, Lrsc!EntryPoint, Lrsc!NotReturned,
                Lrsc!Cores
  <2>2. CASE program = "mc_amo_add"
    BY <2>2 DEF Init, Amo!Init, Amo!MemInit, Amo!NotReturned, Amo!Cores
  <2>3. CASE program = "mc_sanity"
    <3>1. Sanity!Fits \in BOOLEAN
      <4>1. Cardinality(DOMAIN MATRIX) \in Nat /\ SanityN \in Nat
        <5>1. PICK size \in MatrixSizes : MATRIX = [x \in 0 .. size - 1 |-> 0]
          BY <2>3 DEF Init, Sanity!Init
        <5>2. size \in Nat /\ SanityN \in Nat
          BY ProgramsAssumption DEF Sanity!MatrixAssumption
        <5> QED
          BY ONLY <5>1, <5>2, FS_Interval
      <4> QED
        BY <4>1, SanityProtocol DEF Sanity!Fits, Sanity!MATRIX_SIZE
    <3>2. /\ pc = [c \in Cores |-> "size_check"]
          /\ ret = [c \in Cores |-> NotReturned]
      BY <2>3 DEF Init, Sanity!Init, Sanity!MemInit, Sanity!NotReturned, Sanity!Cores
    <3> QED
      BY <2>3, <3>1, <3>2
  <2>4. CASE program = "mc_template"
    BY <2>4 DEF Init, Template!Init, Template!MemInit, Template!EntryPoint,
                Template!NotReturned, Template!Cores, Template!Fits
  <2> QED
    BY <2>1, <2>2, <2>3, <2>4 DEF Init
<1>2. Inv /\ [Next]_vars => [Program!Next]_(Program!vars)
  <2> SUFFICES ASSUME Inv, [Next]_vars PROVE [Program!Next]_(Program!vars)
    OBVIOUS
  <2>1. CASE LrscNext
    BY <2>1, LrscForkJoin DEF Inv, LrscNext
  <2>2. CASE AmoNext
    BY <2>2, AmoForkJoin DEF Inv, AmoNext
  <2>3. CASE SanityNext
    BY <2>3, SanityForkJoin DEF Inv, SanityNext
  <2>4. CASE TemplateNext
    BY <2>4, ProgramsAssumption, TemplateForkJoin DEF Inv, TemplateNext
  <2>5. CASE UNCHANGED vars
    BY <2>5 DEF vars, mcVars, Program!vars, HasStartBarrier, DataFits, Phase,
                Started, ExitCode, Sanity!Fits, Sanity!MATRIX_SIZE, Template!Fits
  <2> QED
    BY <2>1, <2>2, <2>3, <2>4, <2>5 DEF Next
<1> QED
  BY <1>1, <1>2, Invariance, PTL DEF Spec, Program!Spec
=============================================================================
