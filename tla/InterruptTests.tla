--------------------------- MODULE InterruptTests ---------------------------
(***************************************************************************)
(* The interrupt tests on one hart, one at a time: `test' is the program   *)
(* that was loaded, and what only the others use is Unused.                *)
(***************************************************************************)
EXTENDS Integers

CONSTANTS
  Depths, SpinLimit,            \* of the priority tests
  CountTo, MaxPosted,           \* of the external interrupt tests
  First, Interval, N, InstretLimit,     \* of the timer tests
  Latency                       \* of the stores of these two

VARIABLES
  test, finish, posted, line, age, fault, mie, seip, pc,
  depth, order, main, handler, step, spin, mstatus_mie,
  prog, state, cnt, trapping,
  faults, a0, mideleg, early,
  resume, left, count, i, amo_target, instret, fresh, spurious, damaged

priorityOnly == <<depth, order, main, handler, step, spin, mstatus_mie>>
externalOnly == <<prog, state, cnt, trapping>>
midelegOnly  == <<faults, a0, mideleg, early>>
timerOnly    == <<resume, left, count, i, amo_target, instret, fresh, spurious, damaged>>

vars == <<test, finish, posted, line, age, fault, mie, seip, pc, priorityOnly,
          externalOnly, midelegOnly, timerOnly>>

Priority   == INSTANCE InterruptPriority
External   == INSTANCE ExternalInterrupt
Delegation == INSTANCE Mideleg
Timer      == INSTANCE TimerInterrupt

ASSUME InterruptTestsAssumption ==
  /\ Priority!InterruptPriorityAssumption
  /\ External!ExternalInterruptAssumption
  /\ Timer!TimerAssumption

Unused == "unused"

NoPriority ==
  /\ depth = Unused /\ order = Unused /\ main = Unused /\ handler = Unused
  /\ step = Unused /\ spin = Unused /\ mstatus_mie = Unused
NoExternal == prog = Unused /\ state = Unused /\ cnt = Unused /\ trapping = Unused
NoMideleg == faults = Unused /\ a0 = Unused /\ mideleg = Unused /\ early = Unused
NoTimer ==
  /\ resume = Unused /\ left = Unused /\ count = Unused /\ i = Unused
  /\ amo_target = Unused /\ instret = Unused /\ fresh = Unused /\ spurious = Unused
  /\ damaged = Unused

Init ==
  \/ /\ Priority!Init /\ NoExternal /\ NoMideleg /\ NoTimer
     /\ age = Unused /\ fault = Unused /\ seip = Unused /\ pc = Unused
  \/ /\ External!Init /\ NoPriority /\ NoMideleg /\ NoTimer
     /\ pc = Unused
  \/ /\ test = "s_mideleg" /\ Delegation!Init /\ NoPriority /\ NoExternal /\ NoTimer
     /\ age = Unused /\ fault = Unused /\ mie = Unused
  \/ /\ Timer!Init /\ NoPriority /\ NoExternal /\ NoMideleg
     /\ line = Unused /\ mie = Unused /\ seip = Unused

PriorityNext ==
  /\ test \in Priority!Tests /\ Priority!Next
  /\ UNCHANGED <<age, fault, seip, pc, externalOnly, midelegOnly, timerOnly>>
ExternalNext ==
  /\ test \in External!Tests /\ External!Next
  /\ UNCHANGED <<pc, priorityOnly, midelegOnly, timerOnly>>
DelegationNext ==
  /\ test = "s_mideleg" /\ Delegation!Next
  /\ UNCHANGED <<test, age, fault, mie, priorityOnly, externalOnly, timerOnly>>
TimerNext ==
  /\ test \in Timer!Tests /\ Timer!Next
  /\ UNCHANGED <<line, mie, seip, priorityOnly, externalOnly, midelegOnly>>

Next == PriorityNext \/ ExternalNext \/ DelegationNext \/ TimerNext

\* The hart keeps executing, stores are delivered, mtime keeps counting.
FairSpec == Init /\ [][Next]_vars /\ WF_vars(Next)

-----------------------------------------------------------------------------
(* Properties *)

\* The three priority tests, with stores that take effect at once, pass exactly
\* on the harts that have the order right; _simultaneous.c and _race.c pass on
\* no other however long the stores take.
PriorityVerdict ==
  test \in Priority!Tests => Priority!VerdictIsExact /\ Priority!PassMeansOrder

\* What interrupt_priority_simultaneous.c and _race.c arm together is pending
\* when the hart chooses.
ArmedTogether ==
  [][(/\ test \in {"simultaneous", "race"}
      /\ handler = <<>> /\ handler' # <<>> /\ step \in {0, 3})
     => line = Priority!Interrupts]_vars

\* The external interrupt tests fail exactly on the harts with a fault they
\* look for, however late the PLIC stores within the delay loops.
ExternalVerdictIsExact == test \in External!Tests => External!VerdictIsExact

\* s_mideleg.S fails exactly on the harts with a fault that it looks for when
\* the line it has raised is up, and on any hart if it looks too soon twice.
DelegationVerdict == test = "s_mideleg" => Delegation!VerdictIsExact

\* The verdicts of timer_interrupt.c, amo_interrupt.c and wfi.c mean what they
\* are taken to mean.
TimerVerdictIsExact == test \in Timer!Tests => Timer!VerdictIsExact

\* timer_interrupt.c counts each deadline once.
CountsDeadlines == test \in Timer!Tests => Timer!CountsDeadlines

\* The programs end: all but the timer tests on every hart, those on the harts
\* they can give an answer about.
Decides ==
  /\ <>(test \notin Timer!Tests => finish # "none")
  /\ (test \in Timer!Tests /\ fault \in Timer!Answerable) ~> finish # "none"
=============================================================================
