----------------------------- MODULE TrapEntry -----------------------------
(***************************************************************************)
(* The trap paths of vm_start.S, instruction by instruction: trap_entry    *)
(* saves the user's registers in a trap frame, a C handler runs, pop_tf    *)
(* brings them back; m_trap_vector serves the environment calls.  Both     *)
(* privilege levels find the same frame in their scratch register.         *)
(*                                                                         *)
(* A register holds a number: its own for the value the user keeps in it,  *)
(* Garbage for what C code leaves in it.                                   *)
(***************************************************************************)
EXTENDS Integers, Sequences

Registers == 1 .. 31
sp == 2
t0 == 5
t1 == 6
a0 == 10
CallerSaved == {1} \union (5 .. 7) \union (10 .. 17) \union (28 .. 31)

Garbage == 0
FRAME   == 100          \* STACK_TOP - SIZEOF_TRAPFRAME_T, by either address
EPC     == 133          \* where the user trapped, and the other CSRs
SSTATUS == 132
STVAL   == 134
SCAUSE  == 135

VARIABLES
  regs,
  before,               \* regs when user mode last trapped
  sscratch, mscratch,
  frame,                \* the words stored at FRAME, by slot
  sepc,
  code,                 \* instructions left of the path being executed
  mode,                 \* "U", "S" or "M"
  from,                 \* the mode the last M-mode trap came from
  syscall,              \* a1 of the last environment call
  resumed,              \* the instruction user mode was last resumed by
  outcome               \* "bp_finish" or "mtvec_handler" once the test is over

vars == <<regs, before, sscratch, mscratch, frame, sepc, code, mode, from, syscall,
          resumed, outcome>>

-----------------------------------------------------------------------------
(* The instructions, and the paths made of them. *)

Swap(csr)             == [op |-> "swap", csr |-> csr]
Store(r, slot)        == [op |-> "store", reg |-> r, slot |-> slot]
Load(r, slot, base)   == [op |-> "load", reg |-> r, slot |-> slot, base |-> base]
Set(r, value)         == [op |-> "set", reg |-> r, value |-> value]
SwapT0                == [op |-> "swap_t0"]     \* csrrw t0, sscratch, sp
MoveA0Sp              == [op |-> "move"]
WriteSepc             == [op |-> "sepc"]        \* csrw sepc, t0
Jump(label)           == [op |-> label]

SaveGprs == [n \in 1 .. 30 |-> IF n = 1 THEN Store(1, 1) ELSE Store(n + 1, n + 1)]

SaveCsrs ==
  <<Set(t0, SSTATUS), Store(t0, 32), Set(t0, EPC), Store(t0, 33),
    Set(t0, STVAL), Store(t0, 34), Set(t0, SCAUSE), Store(t0, 35)>>

TrapEntryKeepsUserSp ==
  <<Swap("sscratch")>> \o SaveGprs \o SaveCsrs \o <<MoveA0Sp, Jump("handle_trap")>>

trap_entry ==
  <<Swap("sscratch")>> \o SaveGprs \o <<SwapT0, Store(t0, 2)>> \o SaveCsrs
    \o <<MoveA0Sp, Jump("handle_trap")>>

LoadGprs ==
  [n \in 1 .. 30 |-> IF n < 10 THEN Load(n, n, a0) ELSE Load(n + 1, n + 1, a0)]

PopTfInOrder ==
  <<Load(t0, 33, a0), WriteSepc>> \o [n \in 1 .. 31 |-> Load(n, n, a0)] \o <<Jump("sret")>>

\* a0 is the base of the loads, and is loaded last.
pop_tf ==
  <<Load(t0, 33, a0), WriteSepc>> \o LoadGprs \o <<Load(a0, 10, a0), Jump("sret")>>

m_trap_vector == <<Swap("mscratch"), Store(t0, 5), Store(t1, 6), Jump("dispatch")>>

MRestore == <<Load(t0, 5, sp), Load(t1, 6, sp), Swap("mscratch")>>

-----------------------------------------------------------------------------
Init ==
  /\ regs = [r \in Registers |-> r]
  /\ before = regs
  /\ sscratch = FRAME
  /\ mscratch = FRAME
  /\ frame = <<>>
  /\ sepc = Garbage
  /\ code = <<>>
  /\ mode = "U"
  /\ from = "U"
  /\ syscall = 0
  /\ resumed = "sret"
  /\ outcome = "none"

Put(f, x, y) == [z \in DOMAIN f \union {x} |-> IF z = x THEN y ELSE f[z]]

\* What is at a slot of the frame; elsewhere there is something else.
Word(base, slot) == IF regs[base] = FRAME /\ slot \in DOMAIN frame THEN frame[slot] ELSE Garbage

At(op) == outcome = "none" /\ code # <<>> /\ Head(code).op = op

UserRuns ==
  /\ mode = "U" /\ outcome = "none"
  /\ regs' = [r \in Registers |-> r]
  /\ resumed' = "user"
  /\ UNCHANGED <<before, sscratch, mscratch, frame, sepc, code, mode, from, syscall, outcome>>

PageFault ==
  /\ mode = "U" /\ outcome = "none"
  /\ before' = regs
  /\ mode' = "S"
  /\ code' = trap_entry
  /\ UNCHANGED <<regs, sscratch, mscratch, frame, sepc, from, syscall, resumed, outcome>>

\* s_set_icache_* (a1 = 1) and terminate (a1 = 0), called in user mode.
UEcall(number) ==
  /\ mode = "U" /\ outcome = "none"
  /\ before' = regs
  /\ mode' = "M"
  /\ from' = "U"
  /\ syscall' = number
  /\ code' = m_trap_vector
  /\ UNCHANGED <<regs, sscratch, mscratch, frame, sepc, resumed, outcome>>

\* One instruction of a path.
SwapSp ==
  /\ At("swap")
  /\ IF Head(code).csr = "sscratch"
     THEN regs' = [regs EXCEPT ![sp] = sscratch] /\ sscratch' = regs[sp] /\ UNCHANGED mscratch
     ELSE regs' = [regs EXCEPT ![sp] = mscratch] /\ mscratch' = regs[sp] /\ UNCHANGED sscratch
  /\ code' = Tail(code)
  /\ UNCHANGED <<before, frame, sepc, mode, from, syscall, resumed, outcome>>

SwapSpIntoT0 ==
  /\ At("swap_t0")
  /\ regs' = [regs EXCEPT ![t0] = sscratch]
  /\ sscratch' = regs[sp]
  /\ code' = Tail(code)
  /\ UNCHANGED <<before, mscratch, frame, sepc, mode, from, syscall, resumed, outcome>>

StoreWord ==
  /\ At("store")
  /\ frame' = IF regs[sp] = FRAME THEN Put(frame, Head(code).slot, regs[Head(code).reg]) ELSE frame
  /\ code' = Tail(code)
  /\ UNCHANGED <<regs, before, sscratch, mscratch, sepc, mode, from, syscall, resumed, outcome>>

WriteRegister ==
  /\ \/ At("load") /\ regs' = [regs EXCEPT ![Head(code).reg] = Word(Head(code).base, Head(code).slot)]
     \/ At("set")  /\ regs' = [regs EXCEPT ![Head(code).reg] = Head(code).value]
     \/ At("move") /\ regs' = [regs EXCEPT ![a0] = regs[sp]]
  /\ code' = Tail(code)
  /\ UNCHANGED <<before, sscratch, mscratch, frame, sepc, mode, from, syscall, resumed, outcome>>

SetSepc ==
  /\ At("sepc")
  /\ sepc' = regs[t0]
  /\ code' = Tail(code)
  /\ UNCHANGED <<regs, before, sscratch, mscratch, frame, mode, from, syscall, resumed, outcome>>

\* handle_trap(tf): C code on the stack below the frame.  It ends in pop_tf(tf),
\* or in terminate(-1), an ecall in supervisor mode.
HandleTrap ==
  /\ At("handle_trap")
  /\ regs' = [r \in Registers |-> IF r = sp THEN regs[sp] ELSE IF r = a0 THEN regs[a0] ELSE Garbage]
  /\ \/ code' = pop_tf /\ UNCHANGED <<mode, from, syscall>>
     \/ code' = m_trap_vector /\ mode' = "M" /\ from' = "S" /\ syscall' = 0
  /\ UNCHANGED <<before, sscratch, mscratch, frame, sepc, resumed, outcome>>

Resume(op) ==
  /\ At(op)
  /\ mode' = "U"
  /\ resumed' = op
  /\ code' = <<>>
  /\ UNCHANGED <<regs, before, sscratch, mscratch, frame, sepc, from, syscall, outcome>>

\* The branches of m_trap_vector: only mcause 8, an ecall of user mode, is a
\* system call; number 0 is bp_finish and the others are m_handle_u_ecall.
Dispatch ==
  /\ At("dispatch")
  /\ IF from = "U" /\ syscall = 0 THEN outcome' = "bp_finish" /\ UNCHANGED <<regs, code>>
     ELSE /\ UNCHANGED outcome
          /\ IF from = "U"
             THEN /\ regs' = [r \in Registers |-> IF r \in CallerSaved THEN Garbage ELSE regs[r]]
                  /\ code' = MRestore \o <<Jump("mret")>>
             ELSE /\ regs' = [regs EXCEPT ![t0] = Garbage, ![t1] = Garbage]
                  /\ code' = MRestore \o <<Jump("mtvec_handler")>>
  /\ UNCHANGED <<before, sscratch, mscratch, frame, sepc, mode, from, syscall, resumed>>

Defer ==
  /\ At("mtvec_handler")
  /\ outcome' = "mtvec_handler"
  /\ UNCHANGED <<regs, before, sscratch, mscratch, frame, sepc, code, mode, from, syscall, resumed>>

Terminated == outcome # "none" /\ UNCHANGED vars

Next ==
  \/ UserRuns \/ PageFault \/ UEcall(0) \/ UEcall(1)
  \/ SwapSp \/ SwapSpIntoT0 \/ StoreWord \/ WriteRegister \/ SetSepc
  \/ HandleTrap \/ Resume("sret") \/ Resume("mret") \/ Dispatch \/ Defer \/ Terminated

Spec == Init /\ [][Next]_vars

-----------------------------------------------------------------------------
\* A page fault is invisible to the user: when sret resumes it, all 31 registers
\* hold what they held at the faulting instruction, and it resumes there.  A
\* system call gives back every register a call must preserve, and t0 and t1,
\* which the vector itself uses.
RegistersKept ==
  /\ mode = "U" /\ resumed = "sret" /\ sepc # Garbage => regs = before /\ sepc = EPC
  /\ mode = "U" /\ resumed = "mret" =>
       \A r \in (Registers \ CallerSaved) \union {t0, t1} : regs[r] = before[r]

\* Whenever user mode runs, both scratch registers hold the frame again, ready
\* for the next trap of either kind.
ScratchReady == mode = "U" => sscratch = FRAME /\ mscratch = FRAME

\* vm_start.S:6 reserves SIZEOF_TRAPFRAME_T = 35 words under STACK_TOP: no trap
\* stores beyond them.
FrameFits == \A slot \in DOMAIN frame : slot < 35
=============================================================================
