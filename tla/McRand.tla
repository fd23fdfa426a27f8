------------------------------- MODULE McRand -------------------------------
(***************************************************************************)
(* The two pseudo-random generators of mc_util.h.  A register is the       *)
(* function from bit positions to 0..1.  The three registers of            *)
(* mc_rand_bit are statics that every core updates without a lock: each is *)
(* loaded, computed and stored.  The bit a call returns changes no state   *)
(* and is left out.                                                        *)
(***************************************************************************)
EXTENDS Integers, Sequences

CONSTANTS
  CallsAlone,           \* bound: calls of mc_rand_bit by a single core
  CallsRacing           \* bound: calls by each of two cores

CallsAssumption == CallsAlone \in Nat /\ CallsRacing \in Nat

VARIABLES
  lfsr,
  callers,              \* the cores that call mc_rand_bit (rigid)
  reg,                  \* regA, regB, regC
  held,                 \* each core's copies of them
  step,                 \* loads and stores a core has done in its call
  bits                  \* calls each core has returned from

Width == 0 .. 31

\* Bit k < 8 of a number
PowersOf2 == <<1, 2, 4, 8, 16, 32, 64, 128>>
Bit(x, k) == (x \div PowersOf2[k + 1]) % 2
Xor(a, b) == (a + b) % 2
Or(a, b) == IF a + b > 0 THEN 1 ELSE 0

\* 0xACE1
SEED == 44257

Zero == [k \in Width |-> 0]

\* A register from the bytes of a 32-bit constant, most significant first
Register(b3, b2, b1, b0) ==
  [k \in Width |->
     Bit(CASE k < 8 -> b0 [] k \in 8 .. 15 -> b1 [] k \in 16 .. 23 -> b2
           [] OTHER -> b3, k % 8)]

\* 0x12345678, 0xfe8c20a8 and 0x357cc1dd
Seeds ==
  << Register(18, 52, 86, 120), Register(254, 140, 32, 168), Register(53, 124, 193, 221) >>

RandInit == lfsr = SEED
BitInit ==
  /\ callers \in {{0}, {0, 1}}
  /\ reg = Seeds
  /\ held = [c \in callers |-> <<Zero, Zero, Zero>>]
  /\ step = [c \in callers |-> 0]
  /\ bits = [c \in callers |-> 0]

-----------------------------------------------------------------------------
(* mc_rand: a 16-bit LFSR with taps 0, 2, 3 and 5 *)

FeedbackNoTap0(x) == (Bit(x, 2) + Bit(x, 3) + Bit(x, 5)) % 2

Feedback(x) == (Bit(x, 0) + Bit(x, 2) + Bit(x, 3) + Bit(x, 5)) % 2

mc_rand == lfsr' = (lfsr \div 2) + Feedback(lfsr) * 2 ^ 15

-----------------------------------------------------------------------------
(* mc_rand_bit.  `(bit << p) | (reg >> 1)' puts the new bit at position p   *)
(* and ORs it with what the shift moves there.                              *)

ShiftIn(r, bit, p) ==
  LET shifted == [k \in Width |-> IF k < 31 THEN r[k + 1] ELSE 0]
  IN  [shifted EXCEPT ![p] = Or(bit, @)]

\* Without the parentheses `&' binds less than `<<': the feedback is masked
\* with bit p of the terms instead of bit 0, where only regA still has any.
UpdatedUnparenthesised(n, r) ==
  CASE n = 1 -> ShiftIn(r, Xor(r[31], r[30]), 31)
    [] n = 2 -> ShiftIn(r, 0, 30)
    [] n = 3 -> ShiftIn(r, r[29], 28)

\* The updates of regA, regB and regC; (regA << 1) has a zero in bit 0 and adds
\* nothing.
Updated(n, r) ==
  CASE n = 1 -> ShiftIn(r, (r[31] + r[6] + r[4] + r[2] + r[0]) % 2, 31)
    [] n = 2 -> ShiftIn(r, Xor(r[30], r[2]), 30)
    [] n = 3 -> ShiftIn(r, Xor(r[28], r[1]), 28)

Calling(c) ==
  bits[c] < IF callers = {0} THEN CallsAlone ELSE CallsRacing

\* The (s + 1)-th access of a call is the load or the store of a register.
LoadReg(c) ==
  /\ Calling(c) /\ step[c] \in {0, 2, 4}
  /\ LET n == step[c] \div 2 + 1
     IN held' = [held EXCEPT ![c][n] = Updated(n, reg[n])]
  /\ step' = [step EXCEPT ![c] = @ + 1]
  /\ UNCHANGED <<callers, reg, bits>>

StoreReg(c) ==
  /\ step[c] \in {1, 3, 5}
  /\ LET n == step[c] \div 2 + 1 IN reg' = [reg EXCEPT ![n] = held[c][n]]
  /\ step' = [step EXCEPT ![c] = @ + 1]
  /\ UNCHANGED <<callers, held, bits>>

ReturnBit(c) ==
  /\ step[c] = 6
  /\ step' = [step EXCEPT ![c] = 0]
  /\ bits' = [bits EXCEPT ![c] = @ + 1]
  /\ UNCHANGED <<callers, reg, held>>

mc_rand_bit == \E c \in callers : LoadReg(c) \/ StoreReg(c) \/ ReturnBit(c)

-----------------------------------------------------------------------------
(* Properties *)

\* None of the three registers is ever all zeros, where it would stay for ever:
\* not when the bits of the seeds above the width of regB and regC have been
\* shifted out, not although neither of the two feeds back the bit it drops,
\* and not when a core stores a value computed before another core's call.
RegistersNeverZero == \A n \in 1 .. 3 : reg[n] # Zero
=============================================================================
