------------------------- MODULE InterruptPriority -------------------------
(***************************************************************************)
(* The three tests of the machine-mode interrupt priority, run on a hart   *)
(* that may have it wrong: interrupt_priority.c, _simultaneous.c, _race.c. *)
(*                                                                         *)
(* A program is the sequence of its CSR and CLINT operations; what is left *)
(* of main and of the trap handler are the variables main and handler.     *)
(* The hart and the CLINT are external: the hart traps as soon as an       *)
(* enabled interrupt is pending and takes the first in its own order;      *)
(* a CLINT store is posted and lands later, in order, while a fence or a   *)
(* load of mtime waits for the stores before it.                           *)
(***************************************************************************)
EXTENDS Integers, Sequences, FiniteSets

CONSTANTS
  Depths,               \* CLINT stores in flight; 0: a store takes effect at once
  SpinLimit             \* iterations of main's last loop

InterruptPriorityAssumption ==
  /\ Depths \subseteq Nat
  /\ SpinLimit \in Nat

\* The programs, by the names of their files.
Tests == {"interrupt_priority", "simultaneous", "race"}

\* msip, mtimecmp and the PLIC bit raise these causes of mcause.
MSI == 3
MTI == 7
MEI == 11
Interrupts == {MSI, MTI, MEI}

\* A hart takes the interrupts of its order, and may miss some altogether.
Orders == {o \in UNION {[1 .. n -> Interrupts] : n \in 0 .. 3} :
             \A i, j \in DOMAIN o : o[i] = o[j] => i = j}

VARIABLES
  test,                 \* which program runs
  depth,                \* the stores this interconnect holds
  order,                \* the priority this hart implements
  main, handler,        \* operations left; handler = <<>> outside the trap
  step,                 \* the program's counter of traps taken
  spin,
  mie, mstatus_mie,
  line,                 \* interrupts the CLINT raises
  posted,               \* CLINT stores on their way
  finish                \* the argument of bp_finish, or "none"

vars == <<test, depth, order, main, handler, step, spin, mie, mstatus_mie, line,
          posted, finish>>

-----------------------------------------------------------------------------
(* The operations of the programs. *)

Store(i, on)   == [op |-> "store", int |-> i, on |-> on]
Drain          == [op |-> "drain"]
EnableAlso(S)  == [op |-> "mie", ints |-> S]
GlobalMIE(b)   == [op |-> "mstatus", on |-> b]
Finish(code)   == [op |-> "finish", code |-> code]
Mret           == [op |-> "mret"]

\* clint_set_mtimecmp(clint_read_mtime()): a load, then a store.
ArmTimer == <<Drain, Store(MTI, TRUE)>>
ArmAll   == <<Store(MSI, TRUE), Store(MEI, TRUE)>> \o ArmTimer
ClearAll == <<Store(MSI, FALSE), Store(MEI, FALSE), Store(MTI, FALSE)>>

ProgramUnfenced(t) ==
  <<GlobalMIE(FALSE)>>
    \o (IF t = "interrupt_priority"
        THEN <<EnableAlso({MEI})>> \o ClearAll \o <<Store(MEI, TRUE)>>
        ELSE <<EnableAlso(Interrupts)>> \o ClearAll \o ArmAll)
    \o <<GlobalMIE(TRUE)>>

\* main(), up to its last loop.
Program(t) ==
  <<GlobalMIE(FALSE)>>
    \o (IF t = "interrupt_priority"
        THEN <<EnableAlso({MEI})>> \o ClearAll \o <<Store(MEI, TRUE)>>
        ELSE <<EnableAlso(Interrupts)>> \o ClearAll \o ArmAll)
    \o <<Drain, GlobalMIE(TRUE)>>

\* The causes the handler of each program expects, trap by trap.
Expected(t) ==
  IF t = "race" THEN <<MEI, MSI, MTI, MEI, MSI, MTI>> ELSE <<MEI, MSI, MTI>>

\* What a handler does after it has cleared the source of its n-th trap.
AfterTrap(t, n) ==
  IF n = Len(Expected(t)) THEN <<Finish("pass")>>
  ELSE IF t = "interrupt_priority" /\ n = 1
       THEN <<EnableAlso({MSI, MTI}), Store(MSI, TRUE)>> \o ArmTimer
  ELSE IF t = "race" /\ n = 3 THEN ArmAll \o <<Drain>>
  ELSE <<>>

HandlerTrusting(t, n, ecode) == <<Store(ecode, FALSE)>> \o AfterTrap(t, n) \o <<Mret>>

\* trap_handler() on its n-th trap.
Handler(t, n, ecode) ==
  IF n > Len(Expected(t)) \/ ecode # Expected(t)[n] THEN <<Finish("fail")>>
  ELSE <<Store(ecode, FALSE)>> \o AfterTrap(t, n) \o <<Mret>>

-----------------------------------------------------------------------------
(* The machine. *)

Apply(store, raised) ==
  IF store.on THEN raised \union {store.int} ELSE raised \ {store.int}

Takeable ==
  {i \in line \intersect mie :
     mstatus_mie /\ handler = <<>> /\ \E n \in DOMAIN order : order[n] = i}

\* The first of a non-empty S in the hart's order.
Highest(S) ==
  order[CHOOSE n \in DOMAIN order :
          order[n] \in S /\ \A m \in 1 .. n - 1 : order[m] \notin S]

Init ==
  /\ test \in Tests
  /\ depth \in Depths
  /\ order \in Orders
  /\ main = Program(test)
  /\ handler = <<>>
  /\ step = 0
  /\ spin = 0
  /\ mie = {}
  /\ mstatus_mie = FALSE
  /\ line \in SUBSET Interrupts
  /\ posted = <<>>
  /\ finish = "none"

Trap ==
  /\ finish = "none"
  /\ Takeable # {}
  /\ handler' = Handler(test, step + 1, Highest(Takeable))
  /\ step' = step + 1
  /\ UNCHANGED <<test, depth, order, main, spin, mie, mstatus_mie, line, posted, finish>>

\* The next operation is of kind k, and the program moves past it.
Execute(k) ==
  /\ finish = "none"
  /\ \/ /\ handler # <<>> /\ Head(handler).op = k
        /\ handler' = Tail(handler) /\ UNCHANGED main
     \/ /\ handler = <<>> /\ Takeable = {} /\ main # <<>> /\ Head(main).op = k
        /\ main' = Tail(main) /\ UNCHANGED handler

Current == IF handler # <<>> THEN Head(handler) ELSE Head(main)

DoStore ==
  /\ Execute("store")
  /\ \/ depth = 0 /\ line' = Apply(Current, line) /\ UNCHANGED posted
     \/ Len(posted) < depth /\ posted' = Append(posted, Current) /\ UNCHANGED line
  /\ UNCHANGED <<test, depth, order, step, spin, mie, mstatus_mie, finish>>

DoDrain ==
  /\ Execute("drain")
  /\ posted = <<>>
  /\ UNCHANGED <<test, depth, order, step, spin, mie, mstatus_mie, line, posted, finish>>

DoMie ==
  /\ Execute("mie")
  /\ mie' = mie \union Current.ints
  /\ UNCHANGED <<test, depth, order, step, spin, mstatus_mie, line, posted, finish>>

DoMstatus ==
  /\ Execute("mstatus")
  /\ mstatus_mie' = Current.on
  /\ UNCHANGED <<test, depth, order, step, spin, mie, line, posted, finish>>

\* The trap turned MIE off and mret restores it: see Takeable.
DoMret ==
  /\ Execute("mret")
  /\ UNCHANGED <<test, depth, order, step, spin, mie, mstatus_mie, line, posted, finish>>

DoFinish ==
  /\ Execute("finish")
  /\ finish' = Current.code
  /\ UNCHANGED <<test, depth, order, step, spin, mie, mstatus_mie, line, posted>>

\* The last loop of main, and bp_finish(1) after it.
Spin ==
  /\ finish = "none" /\ main = <<>> /\ handler = <<>> /\ Takeable = {}
  /\ IF spin < SpinLimit THEN spin' = spin + 1 /\ UNCHANGED finish
                         ELSE finish' = "fail" /\ UNCHANGED spin
  /\ UNCHANGED <<test, depth, order, main, handler, step, mie, mstatus_mie, line, posted>>

Land ==
  /\ posted # <<>>
  /\ line' = Apply(Head(posted), line)
  /\ posted' = Tail(posted)
  /\ UNCHANGED <<test, depth, order, main, handler, step, spin, mie, mstatus_mie, finish>>

Terminated == finish # "none" /\ posted = <<>> /\ UNCHANGED vars

Next ==
  \/ Trap \/ DoStore \/ DoDrain \/ DoMie \/ DoMstatus \/ DoMret \/ DoFinish
  \/ Spin \/ Land \/ Terminated

Spec == Init /\ [][Next]_vars

\* What the order of a hart that passes test t must be: MEI, MSI, MTI, as the
\* privileged architecture says; interrupt_priority.c never has MEI pending
\* together with another enabled interrupt, and compares the last two only.
RightOrder(t) ==
  IF t = "interrupt_priority"
  THEN Len(order) = 3 /\ \E i, j \in 1 .. 3 : i < j /\ order[i] = MSI /\ order[j] = MTI
  ELSE order = <<MEI, MSI, MTI>>

\* A hart whose priority is wrong never passes the two tests that fence what
\* they arm, however late the stores: when bp_finish(0) runs, the order the
\* test is there to establish is the order of this hart.
PassMeansOrder ==
  test \in {"simultaneous", "race"} /\ finish = "pass" => RightOrder(test)

\* A test never rejects a hart for anything but its priority: with stores that
\* take effect at once, the verdict is pass exactly for the right orders.
VerdictIsExact ==
  depth = 0 /\ finish # "none" => (finish = "pass" <=> RightOrder(test))
=============================================================================
