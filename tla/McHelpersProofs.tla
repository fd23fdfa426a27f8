-------------------------- MODULE McHelpersProofs ---------------------------
(***************************************************************************)
(* The helpers of mc_util.h for any number of cores and of calls.          *)
(*                                                                         *)
(*  - sync_barrier never resets its counter.  The counter is the number of *)
(*    calls made so far (CounterIsCalls); as long as nobody has left a     *)
(*    call that somebody has not yet made (NobodyAhead), it can equal      *)
(*    num_cores * k only when every core has made its k-th call.           *)
(*  - mc_rand_bit: a register with a bit set at its lowest tap or above    *)
(*    stays so, because a lone bit at the lowest tap is fed back to the    *)
(*    top; a store of an old value stores a value computed from such a     *)
(*    register (AllAlive).  Not being zero alone is not inductive: regB    *)
(*    and regC drop the bits below their lowest tap without a trace.       *)
(***************************************************************************)
EXTENDS McHelpers, FiniteSets, FiniteSetTheorems, TLAPS

Cores == 0 .. NumCores - 1

\* NumCores cores making n calls each make NumCores * n of them.
LEMMA CallSet ==
  ASSUME NEW n \in Nat
  PROVE  /\ IsFiniteSet(Cores \X (1 .. n))
         /\ Cardinality(Cores \X (1 .. n)) = NumCores * n
<1>1. NumCores \in Nat \ {0}
  BY HelpersAssumption DEF Barrier!NumCoresAssumption
<1>2. IsFiniteSet(1 .. n) /\ Cardinality(1 .. n) = n
  BY FS_Interval
<1>3. IsFiniteSet(Cores) /\ Cardinality(Cores) = NumCores
  BY <1>1, FS_Interval DEF Cores
<1> QED
  BY <1>2, <1>3, FS_Product

-----------------------------------------------------------------------------
(* sync_barrier *)

BarrierTypes ==
  /\ calls \in 1 .. Rounds
  /\ pc \in [Cores -> {"work", "spin"}]
  /\ entry \in [Cores -> Nat]
  /\ \A c \in Cores : Barrier!Arrivals[c] <= calls

\* The calls of sync_barrier made so far: <<c, k>> is the k-th of core c.
CallsMade == {p \in Cores \X (1 .. Rounds) : p[2] <= Barrier!Arrivals[p[1]]}

CounterIsCalls == barrier = Cardinality(CallsMade)

NobodyAhead == \A c, d \in Cores : entry[c] <= Barrier!Arrivals[d]

BarrierInv ==
  running = "sync_barrier" => BarrierTypes /\ CounterIsCalls /\ NobodyAhead

-----------------------------------------------------------------------------
(* mc_rand_bit *)

Registers == [Rand!Width -> {0, 1}]

BitTypes ==
  /\ reg \in [1 .. 3 -> Registers]
  /\ held \in [callers -> [1 .. 3 -> Registers]]
  /\ step \in [callers -> 0 .. 6]
  /\ DOMAIN bits = callers

\* The lowest bits that regA, regB and regC feed back
LowestTap == <<0, 2, 1>>

Alive(n, r) == \E k \in LowestTap[n] .. 31 : r[k] = 1

\* The registers, and the copies a core has loaded in its call so far
AllAlive ==
  /\ \A n \in 1 .. 3 : Alive(n, reg[n])
  /\ \A c \in callers : \A n \in 1 .. 3 : step[c] > 2 * (n - 1) => Alive(n, held[c][n])

BitInv == running = "mc_rand_bit" => BitTypes /\ AllAlive

Inv == BarrierInv /\ BitInv

-----------------------------------------------------------------------------
(* The barrier's steps *)

\* How the number of calls a core has come to follows its label.
LEMMA Arrival ==
  ASSUME BarrierTypes, NEW c \in Cores
  PROVE  /\ Barrier!Arrivals[c] =
              IF pc[c] = "spin" THEN entry[c] + 1 ELSE entry[c]
         /\ Barrier!Arrivals[c] \in Nat
         /\ entry[c] \in Nat
BY DEF BarrierTypes, Barrier!Arrivals, Barrier!Cores, Cores

\* A counter of num_cores * k means, if nobody is ahead, that every core has
\* made its k-th call.
LEMMA FullCounter ==
  ASSUME BarrierTypes, CounterIsCalls, NobodyAhead,
         NEW e \in Nat, e + 1 <= Rounds, barrier = NumCores * (e + 1)
  PROVE  \A d \in Cores : e + 1 <= Barrier!Arrivals[d]
<1>1. CASE \E d \in Cores : entry[d] >= e + 1
  BY <1>1, Arrival DEF NobodyAhead
<1>2. CASE \A d \in Cores : entry[d] <= e
  <2>1. \A d \in Cores : Barrier!Arrivals[d] <= e + 1
    BY <1>2, Arrival
  <2>2. CallsMade \subseteq Cores \X (1 .. (e + 1))
    BY <2>1, Arrival DEF CallsMade
  <2>3. /\ IsFiniteSet(Cores \X (1 .. (e + 1)))
        /\ Cardinality(Cores \X (1 .. (e + 1))) = NumCores * (e + 1)
    BY CallSet
  <2>4. CallsMade = Cores \X (1 .. (e + 1))
    BY <2>2, <2>3, FS_Subset DEF CounterIsCalls
  <2>5. \A d \in Cores : <<d, e + 1>> \in CallsMade
    BY <2>4
  <2> QED
    BY <2>5 DEF CallsMade
<1>3. \/ \E d \in Cores : entry[d] >= e + 1
      \/ \A d \in Cores : entry[d] <= e
  BY Arrival
<1> QED
  BY <1>1, <1>2, <1>3

\* A core increments the barrier: one more call is made, by that core alone.
LEMMA AddKeeps ==
  ASSUME BarrierTypes, CounterIsCalls, NobodyAhead, NEW c \in Cores,
         Barrier!Add(c)
  PROVE  /\ (BarrierTypes /\ CounterIsCalls /\ NobodyAhead)'
         /\ Barrier!Arrivals' = [Barrier!Arrivals EXCEPT ![c] = @ + 1]
<1> USE DEF Barrier!Add, BarrierTypes
<1>1. /\ pc[c] = "work" /\ pc' = [pc EXCEPT ![c] = "spin"]
      /\ entry[c] < calls /\ UNCHANGED <<entry, calls>>
      /\ barrier' = barrier + 1
  OBVIOUS
<1>2. /\ Barrier!Arrivals[c] = entry[c]
      /\ Barrier!Arrivals'[c] = entry[c] + 1
      /\ \A d \in Cores : d # c => Barrier!Arrivals'[d] = Barrier!Arrivals[d]
  BY <1>1 DEF Barrier!Arrivals, Barrier!Cores, Cores
<1>3. Barrier!Arrivals' = [Barrier!Arrivals EXCEPT ![c] = @ + 1]
  BY <1>1, <1>2 DEF Barrier!Arrivals, Barrier!Cores, Cores
<1>4. BarrierTypes'
  BY <1>1, <1>2
<1>5. NobodyAhead'
  BY <1>1, <1>2, Arrival DEF NobodyAhead
<1>6. <<c, entry[c] + 1>> \in Cores \X (1 .. Rounds)
  BY <1>1, <1>2, Arrival, HelpersAssumption DEF Barrier!RoundsAssumption
<1>7. CallsMade' = CallsMade \union {<<c, entry[c] + 1>>}
  <2>1. ASSUME NEW p \in Cores \X (1 .. Rounds)
        PROVE  p \in CallsMade' <=> p \in CallsMade \union {<<c, entry[c] + 1>>}
    <3>1. CASE p[1] = c
      BY <3>1, <1>1, <1>2 DEF CallsMade
    <3>2. CASE p[1] # c
      BY <3>2, <1>2 DEF CallsMade
    <3> QED
      BY <3>1, <3>2
  <2> QED
    BY <2>1, <1>6 DEF CallsMade
<1>8. <<c, entry[c] + 1>> \notin CallsMade
  BY <1>2 DEF CallsMade
<1>9. IsFiniteSet(CallsMade)
  <2>1. CallsMade \subseteq Cores \X (1 .. Rounds)
    BY DEF CallsMade
  <2> QED
    BY <2>1, CallSet, FS_Subset, HelpersAssumption DEF Barrier!RoundsAssumption
<1>10. CounterIsCalls'
  BY <1>1, <1>7, <1>8, <1>9, FS_AddElement DEF CounterIsCalls
<1> QED
  BY <1>3, <1>4, <1>5, <1>10

\* A core finds the value it waits for and leaves: nobody's arrivals change,
\* and everybody has made the call.
LEMMA SpinKeeps ==
  ASSUME BarrierTypes, CounterIsCalls, NobodyAhead, NEW c \in Cores,
         Barrier!Spin(c)
  PROVE  /\ (BarrierTypes /\ CounterIsCalls /\ NobodyAhead)'
         /\ Barrier!Arrivals' = Barrier!Arrivals
         /\ \A d \in Cores : Barrier!Arrivals[c] <= Barrier!Arrivals[d]
<1> USE DEF Barrier!Spin, BarrierTypes
<1>1. /\ pc[c] = "spin" /\ pc' = [pc EXCEPT ![c] = "work"]
      /\ entry' = [entry EXCEPT ![c] = @ + 1] /\ UNCHANGED <<barrier, calls>>
      /\ barrier = NumCores * (entry[c] + 1)
  BY DEF Barrier!Expected
<1>2. Barrier!Arrivals' = Barrier!Arrivals
  BY <1>1 DEF Barrier!Arrivals, Barrier!Cores, Cores
<1>3. Barrier!Arrivals[c] = entry[c] + 1 /\ entry[c] \in Nat
  BY <1>1, Arrival
<1>4. \A d \in Cores : Barrier!Arrivals[c] <= Barrier!Arrivals[d]
  <2>1. entry[c] + 1 <= Rounds
    BY <1>3, HelpersAssumption DEF Barrier!RoundsAssumption
  <2> QED
    BY <1>1, <1>3, <2>1, FullCounter
<1>5. NobodyAhead'
  BY <1>1, <1>2, <1>3, <1>4 DEF NobodyAhead
<1>6. BarrierTypes'
  BY <1>1, <1>2
<1>7. CounterIsCalls'
  BY <1>1, <1>2 DEF CounterIsCalls, CallsMade
<1> QED
  BY <1>2, <1>4, <1>5, <1>6, <1>7

-----------------------------------------------------------------------------
(* The generator's steps *)

\* A bit of a number is a bit.
LEMMA BitType ==
  ASSUME NEW x \in Nat, NEW k \in 0 .. 7
  PROVE  Rand!Bit(x, k) \in {0, 1}
<1>1. Rand!PowersOf2[k + 1] \in Nat \ {0}
  BY DEF Rand!PowersOf2
<1> QED
  BY <1>1 DEF Rand!Bit

\* The registers start as bit functions, with bit 3, 5 and 3 set.
LEMMA SeedRegisters ==
  Rand!Seeds \in [1 .. 3 -> Registers] /\ \A n \in 1 .. 3 : Alive(n, Rand!Seeds[n])
<1>1. ASSUME NEW b3 \in Nat, NEW b2 \in Nat, NEW b1 \in Nat, NEW b0 \in Nat
      PROVE  Rand!Register(b3, b2, b1, b0) \in Registers
  <2>1. ASSUME NEW k \in Rand!Width
        PROVE  /\ k % 8 \in 0 .. 7
               /\ Rand!Bit(b3, k % 8) \in {0, 1} /\ Rand!Bit(b2, k % 8) \in {0, 1}
               /\ Rand!Bit(b1, k % 8) \in {0, 1} /\ Rand!Bit(b0, k % 8) \in {0, 1}
    BY BitType DEF Rand!Width
  <2> QED
    BY <2>1 DEF Rand!Register, Registers
<1>2. Rand!Bit(120, 3) = 1 /\ Rand!Bit(168, 5) = 1 /\ Rand!Bit(221, 3) = 1
  BY DEF Rand!Bit, Rand!PowersOf2
<1>3. /\ Rand!Seeds[1][3] = Rand!Bit(120, 3 % 8)
      /\ Rand!Seeds[2][5] = Rand!Bit(168, 5 % 8)
      /\ Rand!Seeds[3][3] = Rand!Bit(221, 3 % 8)
  BY DEF Rand!Seeds, Rand!Register, Rand!Width
<1>4. /\ Rand!Seeds[1][3] = 1 /\ Rand!Seeds[2][5] = 1 /\ Rand!Seeds[3][3] = 1
  <2>1. 3 % 8 = 3 /\ 5 % 8 = 5
    OBVIOUS
  <2> QED
    BY <1>2, <1>3, <2>1
<1>5. Alive(1, Rand!Seeds[1]) /\ Alive(2, Rand!Seeds[2]) /\ Alive(3, Rand!Seeds[3])
  BY <1>4 DEF Alive, LowestTap
<1> QED
  BY <1>1, <1>5 DEF Rand!Seeds

\* The update of a register is a register.
LEMMA UpdatedType ==
  ASSUME NEW n \in 1 .. 3, NEW r \in Registers
  PROVE  Rand!Updated(n, r) \in Registers
<1>1. ASSUME NEW bit \in {0, 1}, NEW p \in Rand!Width
      PROVE  Rand!ShiftIn(r, bit, p) \in Registers
  BY DEF Rand!ShiftIn, Rand!Or, Rand!Width, Registers
<1>2. \A k \in Rand!Width : r[k] \in {0, 1}
  BY DEF Registers
<1>3. /\ (r[31] + r[6] + r[4] + r[2] + r[0]) % 2 \in {0, 1}
      /\ Rand!Xor(r[30], r[2]) \in {0, 1}
      /\ Rand!Xor(r[28], r[1]) \in {0, 1}
  BY <1>2 DEF Rand!Width, Rand!Xor
<1> QED
  BY <1>1, <1>3 DEF Rand!Updated, Rand!Width

\* What the shift moves down is still there, below the new bit as well
LEMMA ShiftKeeps ==
  ASSUME NEW r \in Registers, NEW bit \in {0, 1}, NEW p \in Rand!Width,
         NEW k \in 1 .. 31, r[k] = 1
  PROVE  Rand!ShiftIn(r, bit, p)[k - 1] = 1
BY DEF Rand!ShiftIn, Rand!Or, Rand!Width, Registers

\* A register that is alive stays so.
LEMMA UpdatedAlive ==
  ASSUME NEW n \in 1 .. 3, NEW r \in Registers, Alive(n, r)
  PROVE  Alive(n, Rand!Updated(n, r))
<1> DEFINE u == Rand!Updated(n, r)
           feedback == CASE n = 1 -> (r[31] + r[6] + r[4] + r[2] + r[0]) % 2
                         [] n = 2 -> Rand!Xor(r[30], r[2])
                         [] n = 3 -> Rand!Xor(r[28], r[1])
           top == CASE n = 1 -> 31 [] n = 2 -> 30 [] n = 3 -> 28
           low == LowestTap[n]
<1>1. \A k \in Rand!Width : r[k] \in {0, 1}
  BY DEF Registers
<1>2. feedback \in {0, 1} /\ top \in Rand!Width /\ u = Rand!ShiftIn(r, feedback, top)
  BY <1>1 DEF Rand!Updated, Rand!Xor, Rand!Width
<1>3. low \in 0 .. 2 /\ low < top /\ top <= 31
  BY DEF LowestTap
<1>4. CASE \E k \in low + 1 .. 31 : r[k] = 1
  <2>1. PICK k \in low + 1 .. 31 : r[k] = 1
    BY <1>4
  <2>2. k \in 1 .. 31 /\ k - 1 \in low .. 31
    BY <2>1, <1>3
  <2>3. u[k - 1] = 1
    BY <2>1, <2>2, <1>2, ShiftKeeps
  <2> QED
    BY <2>2, <2>3 DEF Alive
<1>5. CASE \A k \in low + 1 .. 31 : r[k] # 1
  <2>1. \A k \in low + 1 .. 31 : r[k] = 0
    BY <1>1, <1>3, <1>5 DEF Rand!Width
  <2>2. r[low] = 1
    BY <1>3, <1>5 DEF Alive
  <2>3. feedback = 1
    <3>1. CASE n = 1
      BY <3>1, <2>1, <2>2 DEF LowestTap
    <3>2. CASE n = 2
      BY <3>2, <2>1, <2>2 DEF LowestTap, Rand!Xor
    <3>3. CASE n = 3
      BY <3>3, <2>1, <2>2 DEF LowestTap, Rand!Xor
    <3> QED
      BY <3>1, <3>2, <3>3
  <2>4. u[top] = 1
    BY <1>1, <1>2, <2>3 DEF Rand!ShiftIn, Rand!Or, Rand!Width
  <2> QED
    BY <1>3, <2>4 DEF Alive
<1> QED
  BY <1>4, <1>5

\* A load, a store or a return of mc_rand_bit keeps the registers, and every
\* copy that is still to be stored, alive.
LEMMA BitKeeps ==
  ASSUME BitTypes, AllAlive, Rand!mc_rand_bit
  PROVE  (BitTypes /\ AllAlive)'
<1> PICK c \in callers :
      Rand!LoadReg(c) \/ Rand!StoreReg(c) \/ Rand!ReturnBit(c)
  BY DEF Rand!mc_rand_bit
<1> USE DEF BitTypes
<1>1. CASE Rand!LoadReg(c)
  <2> DEFINE n == step[c] \div 2 + 1
  <2>1. /\ step[c] \in {0, 2, 4}
        /\ held' = [held EXCEPT ![c][n] = Rand!Updated(n, reg[n])]
        /\ step' = [step EXCEPT ![c] = @ + 1]
        /\ UNCHANGED <<callers, reg, bits>>
    BY <1>1 DEF Rand!LoadReg
  <2>2. n \in 1 .. 3 /\ step[c] + 1 \in 0 .. 6 /\ step[c] = 2 * (n - 1)
    BY <2>1
  <2> HIDE DEF n
  <2>3. Rand!Updated(n, reg[n]) \in Registers /\ Alive(n, Rand!Updated(n, reg[n]))
    BY <2>2, UpdatedType, UpdatedAlive DEF AllAlive
  <2>4. /\ \A d \in callers : d # c => held'[d] = held[d] /\ step'[d] = step[d]
        /\ held'[c] = [held[c] EXCEPT ![n] = Rand!Updated(n, reg[n])]
        /\ step'[c] = step[c] + 1
        /\ DOMAIN held' = callers
    BY <2>1
  <2>5. held'[c] \in [1 .. 3 -> Registers]
    BY <2>4, <2>3, <2>2
  <2>6. BitTypes'
    BY <2>1, <2>2, <2>4, <2>5
  <2>7. ASSUME NEW m \in 1 .. 3, step'[c] > 2 * (m - 1)
        PROVE  Alive(m, held'[c][m])
    <3>1. CASE m = n
      BY <3>1, <2>3, <2>4
    <3>2. CASE m # n
      <4>1. step[c] > 2 * (m - 1) /\ held'[c][m] = held[c][m]
        BY <3>2, <2>2, <2>4, <2>7
      <4> QED
        BY <4>1 DEF AllAlive
    <3> QED
      BY <3>1, <3>2
  <2>8. \A d \in callers : \A m \in 1 .. 3 : step'[d] > 2 * (m - 1) => Alive(m, held'[d][m])
    BY <2>4, <2>7 DEF AllAlive
  <2> QED
    BY <2>1, <2>6, <2>8 DEF AllAlive
<1>2. CASE Rand!StoreReg(c)
  <2> DEFINE n == step[c] \div 2 + 1
  <2>1. /\ step[c] \in {1, 3, 5}
        /\ reg' = [reg EXCEPT ![n] = held[c][n]]
        /\ step' = [step EXCEPT ![c] = @ + 1]
        /\ UNCHANGED <<callers, held, bits>>
    BY <1>2 DEF Rand!StoreReg
  <2>2. n \in 1 .. 3 /\ step[c] + 1 \in 0 .. 6 /\ step[c] = 2 * n - 1
    BY <2>1
  <2> HIDE DEF n
  <2>3. Alive(n, held[c][n])
    BY <2>2 DEF AllAlive
  <2>4. BitTypes'
    BY <2>1, <2>2
  <2>5. \A m \in 1 .. 3 : Alive(m, reg'[m])
    BY <2>1, <2>2, <2>3 DEF AllAlive
  <2>6. ASSUME NEW d \in callers, NEW m \in 1 .. 3, step'[d] > 2 * (m - 1)
        PROVE  Alive(m, held[d][m])
    <3>1. step[d] > 2 * (m - 1)
      BY <2>1, <2>2, <2>6
    <3> QED
      BY <3>1 DEF AllAlive
  <2> QED
    BY <2>1, <2>4, <2>5, <2>6 DEF AllAlive
<1>3. CASE Rand!ReturnBit(c)
  BY <1>3 DEF Rand!ReturnBit, AllAlive
<1> QED
  BY <1>1, <1>2, <1>3

-----------------------------------------------------------------------------
(* The theorems *)

\* Inv holds before the first step.
LEMMA InitInv == Init => Inv
<1> SUFFICES ASSUME Init PROVE Inv
  OBVIOUS
<1>1. ASSUME running = "sync_barrier"
      PROVE  BarrierTypes /\ CounterIsCalls /\ NobodyAhead
  <2>1. Barrier!Init
    BY <1>1 DEF Init
  <2>2. \A c \in Cores : pc[c] = "work" /\ entry[c] = 0 /\ Barrier!Arrivals[c] = 0
    BY <2>1 DEF Barrier!Init, Barrier!Arrivals, Barrier!Cores, Cores
  <2>3. BarrierTypes /\ NobodyAhead
    BY <2>1, <2>2, HelpersAssumption
    DEF Barrier!Init, BarrierTypes, NobodyAhead, Barrier!Cores, Cores,
        Barrier!RoundsAssumption
  <2>4. CallsMade = {}
    BY <2>2 DEF CallsMade
  <2> QED
    BY <2>1, <2>3, <2>4, FS_EmptySet DEF CounterIsCalls, Barrier!Init
<1>2. ASSUME running = "mc_rand_bit"
      PROVE  BitTypes /\ AllAlive
  <2>1. Rand!BitInit
    BY <1>2 DEF Init
  <2>2. Rand!Zero \in Registers
    BY DEF Rand!Zero, Registers
  <2> QED
    BY <2>1, <2>2, SeedRegisters DEF Rand!BitInit, BitTypes, AllAlive
<1> QED
  BY <1>1, <1>2 DEF Inv, BarrierInv, BitInv

\* Every step keeps Inv.
LEMMA NextInv ==
  ASSUME Inv, [Next]_vars
  PROVE  Inv'
<1> USE DEF Inv, BarrierInv, BitInv
<1>1. ASSUME NEW c \in Barrier!Cores, BarrierStep(c)
      PROVE  Inv'
  BY <1>1, AddKeeps, SpinKeeps DEF BarrierStep, Barrier!Core, Barrier!Cores, Cores
<1>2. CASE RandStep
  BY <1>2 DEF RandStep
<1>3. CASE BitStep
  BY <1>3, BitKeeps DEF BitStep
<1>4. CASE UNCHANGED vars
  BY <1>4
  DEF vars, barrierOnly, bitOnly, BarrierTypes, CounterIsCalls, CallsMade,
      NobodyAhead, BitTypes, AllAlive, Barrier!Arrivals, Barrier!Cores
<1> QED
  BY <1>1, <1>2, <1>3, <1>4 DEF Next

\* The inductive invariant, for every number of cores, calls and generators.
THEOREM Invariance == Spec => []Inv
BY InitInv, NextInv, PTL DEF Spec

\* No register of mc_rand_bit is driven to zero by any number of calls of one
\* core, or of two that race without a lock.
THEOREM RegistersNeverZeroHolds == Spec => []RegistersNeverZero
<1>1. Inv => RegistersNeverZero
  <2> SUFFICES ASSUME Inv, running = "mc_rand_bit", NEW n \in 1 .. 3
               PROVE  reg[n] # Rand!Zero
    BY DEF RegistersNeverZero, Rand!RegistersNeverZero
  <2>1. PICK k \in LowestTap[n] .. 31 : reg[n][k] = 1
    BY DEF Inv, BitInv, AllAlive, Alive
  <2>2. Rand!Zero[k] = 0
    BY DEF Rand!Zero, Rand!Width, LowestTap
  <2> QED
    BY <2>1, <2>2
<1> QED
  BY <1>1, Invariance, PTL

\* sync_barrier implements the barrier it promises, for any number of cores and
\* calls: no core returns from its k-th call before every core has made it.
THEOREM BarrierRefinement == Spec => ImplementsBarrier
<1> USE DEF Abstract!Cores, Barrier!Cores, Cores
<1>1. Init => Abstract!Init
  BY DEF Init, Barrier!Init, Abstract!Init, Barrier!Arrivals, Idle
<1>2. ASSUME Inv, [Next]_vars
      PROVE  [Abstract!Next]_(Abstract!vars)
  <2>1. ASSUME NEW c \in Cores, running = "sync_barrier", Barrier!Add(c),
               UNCHANGED running
        PROVE  Abstract!Arrive(c)
    <3>1. BarrierTypes /\ CounterIsCalls /\ NobodyAhead
      BY <2>1, <1>2 DEF Inv, BarrierInv
    <3>2. /\ Barrier!Arrivals' = [Barrier!Arrivals EXCEPT ![c] = @ + 1]
      BY <2>1, <3>1, AddKeeps
    <3>3. /\ entry' = entry /\ entry[c] < calls /\ calls <= Rounds
          /\ entry[c] = Barrier!Arrivals[c] /\ entry[c] \in Nat
          /\ running' = "sync_barrier"
      <4>1. pc[c] = "work" /\ entry' = entry /\ entry[c] < calls
        BY <2>1 DEF Barrier!Add
      <4> QED
        BY <4>1, <2>1, <3>1, Arrival DEF BarrierTypes
    <3> QED
      BY <2>1, <3>1, <3>2, <3>3, HelpersAssumption
      DEF Abstract!Arrive, BarrierTypes, Barrier!RoundsAssumption
  <2>2. ASSUME NEW c \in Cores, running = "sync_barrier", Barrier!Spin(c),
               UNCHANGED running
        PROVE  Abstract!Leave(c)
    <3>1. BarrierTypes /\ CounterIsCalls /\ NobodyAhead
      BY <2>2, <1>2 DEF Inv, BarrierInv
    <3>2. /\ Barrier!Arrivals' = Barrier!Arrivals
          /\ \A d \in Cores : Barrier!Arrivals[c] <= Barrier!Arrivals[d]
      BY <2>2, <3>1, SpinKeeps
    <3>3. /\ entry' = [entry EXCEPT ![c] = @ + 1]
          /\ entry[c] < Barrier!Arrivals[c]
          /\ running' = "sync_barrier"
      <4>1. pc[c] = "spin" /\ entry' = [entry EXCEPT ![c] = @ + 1]
        BY <2>2 DEF Barrier!Spin
      <4> QED
        BY <4>1, <2>2, <3>1, Arrival
    <3> QED
      BY <2>2, <3>2, <3>3 DEF Abstract!Leave
  <2>3. ASSUME NEW c \in Cores, BarrierStep(c)
        PROVE  Abstract!Next
    BY <2>1, <2>2, <2>3 DEF BarrierStep, Barrier!Core, Abstract!Next
  <2>4. CASE RandStep \/ BitStep
    BY <2>4 DEF RandStep, BitStep, Abstract!vars, Idle
  <2>5. CASE UNCHANGED vars
    BY <2>5 DEF vars, barrierOnly, Abstract!vars, Idle, Barrier!Arrivals
  <2> QED
    BY <1>2, <2>3, <2>4, <2>5 DEF Next
<1> QED
  BY <1>1, <1>2, Invariance, PTL DEF Spec, ImplementsBarrier, Abstract!Spec
=============================================================================
