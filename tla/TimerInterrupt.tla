--------------------------- MODULE TimerInterrupt ---------------------------
(***************************************************************************)
(* The tests that live on the machine timer: timer_interrupt.c counts its  *)
(* interrupts, amo_interrupt.c runs atomic adds under them, and wfi.c      *)
(* waits for one.                                                          *)
(*                                                                         *)
(* The hart and the CLINT are external.  Each step of the hart is a tick   *)
(* of mtime, and the comparator is kept as the ticks left until it fires.  *)
(* A store to mtimecmp lands within Latency steps; a load of mtime and a   *)
(* fence wait for the stores before them.  The hart may have one fault.    *)
(***************************************************************************)
EXTENDS Integers

CONSTANTS
  First,                \* ticks to the first interrupt
  Interval,             \* 1024 and 128 in the code: ticks to the next one
  N,                    \* NUM_INTERRUPTS, and the iterations of the adds
  InstretLimit,         \* 5000 in wfi.c
  Latency               \* bound: steps of the hart before a store lands

TimerAssumption ==
  /\ {First, Interval, InstretLimit, Latency} \subseteq Nat \ {0}
  /\ N \in Nat \ {0}

Tests == {"timer_interrupt", "amo_interrupt", "wfi"}

FaultsOf(t) ==
  CASE t = "timer_interrupt" ->
         { "none", "never",     \* no timer interrupt is taken
           "wrong_cause",       \* it is reported as another interrupt
           "as_exception",      \* it is reported as an exception
           "sticky" }           \* a store to mtimecmp does not clear it
    [] t = "amo_interrupt" ->
         { "none", "never",
           "replays",           \* an interrupted amo is done twice
           "loses" }            \* an interrupted amo is not done
    [] t = "wfi" ->
         { "none", "never",
           "nop",               \* wfi does not wait
           "deaf" }             \* wfi does not wake while mstatus.MIE is 0

VARIABLES
  test, fault,
  pc, resume,           \* where the hart is; where mret goes
  left,                 \* ticks until mtime reaches mtimecmp; 0: MTIP is up
  posted, age,          \* the store to mtimecmp in flight, and its age
  count,                \* int_count - 48
  i, amo_target,
  instret,
  fresh,                \* history: MTIP comes from a deadline not yet served
  spurious,             \* history: a trap was taken on a served deadline
  damaged,              \* history: an amo was replayed or lost
  finish

vars == <<test, fault, pc, resume, left, posted, age, count, i, amo_target, instret,
          fresh, spurious, damaged, finish>>

None == -1

Init ==
  /\ test \in Tests
  /\ fault \in FaultsOf(test)
  /\ pc = "program"
  /\ resume = "none"
  /\ left \in {0, First}        \* what was there before main
  /\ posted = None
  /\ age = 0
  /\ count = 0
  /\ i = 0
  /\ amo_target = 0
  /\ instret = 0
  /\ fresh = FALSE
  /\ spurious = FALSE
  /\ damaged = FALSE
  /\ finish = "none"

-----------------------------------------------------------------------------
(* The hart and the CLINT. *)

Down(n) == IF n > 0 THEN n - 1 ELSE n

\* One step of the hart at label pc, on the way to another one.
Step(from, to) ==
  /\ finish = "none"
  /\ posted # None => age < Latency
  /\ pc = from /\ pc' = to
  /\ left' = Down(left)
  /\ UNCHANGED <<test, fault>>

KeepStore == posted' = Down(posted) /\ age' = IF posted = None THEN 0 ELSE age + 1
StoreTimecmp(ticks) == posted = None /\ posted' = ticks /\ age' = 0
Passing == fresh' = (fresh \/ left = 1) /\ UNCHANGED <<spurious, damaged>>
Quiet == KeepStore /\ Passing

Land ==
  /\ posted # None
  /\ left' = IF fault = "sticky" /\ left = 0 THEN 0 ELSE posted
  /\ fresh' = (posted = 0)
  /\ posted' = None
  /\ age' = 0
  /\ UNCHANGED <<test, fault, pc, resume, count, i, amo_target, instret, spurious,
                 damaged, finish>>

Interruptible == {"spin", "amo", "sum", "wfi"}
Handler == [timer_interrupt |-> "count", amo_interrupt |-> "load", wfi |-> "minstret"]

\* MTIP is up and the hart has to take the interrupt before it executes.
MustTrap == pc \in Interruptible /\ left = 0 /\ fault # "never"

Trap ==
  /\ MustTrap
  /\ Step(pc, Handler[test])
  /\ resume' = pc
  /\ KeepStore
  /\ fresh' = FALSE
  /\ spurious' = (spurious \/ ~fresh)
  /\ \/ UNCHANGED <<i, amo_target, damaged>>
     \/ /\ pc = "amo" /\ fault = "replays" /\ i < N
        /\ amo_target' = amo_target + 1 /\ damaged' = TRUE /\ UNCHANGED i
     \/ /\ pc = "amo" /\ fault = "loses" /\ i < N
        /\ i' = i + 1 /\ damaged' = TRUE /\ UNCHANGED amo_target
  /\ UNCHANGED <<count, instret, finish>>

-----------------------------------------------------------------------------
(* main of each program.  `*mtime = 0' goes the way of the store before it,  *)
(* and the two land as one here.                                            *)

ProgramTimer ==
  /\ Step("program", IF test = "timer_interrupt" THEN "banner"
                     ELSE IF test = "amo_interrupt" THEN "set_mie" ELSE "fence")
  /\ StoreTimecmp(First)
  /\ Passing
  /\ UNCHANGED <<resume, count, i, amo_target, instret, finish>>

\* bp_print_string of timer_interrupt.c, the fence of wfi.c, csrw mie
BeforeEnable ==
  /\ \/ Step("banner", "set_mie")
     \/ Step("fence", "set_mie") /\ posted = None
     \/ Step("set_mie", "set_mstatus")
  /\ Quiet
  /\ UNCHANGED <<resume, count, i, amo_target, instret, finish>>

Enable ==
  /\ Step("set_mstatus", IF test = "timer_interrupt" THEN "spin"
                         ELSE IF test = "amo_interrupt" THEN "amo" ELSE "wfi")
  /\ Quiet
  /\ UNCHANGED <<resume, count, i, amo_target, instret, finish>>

\* while (1);
Spin ==
  /\ ~MustTrap /\ Step("spin", "spin") /\ Quiet
  /\ UNCHANGED <<resume, count, i, amo_target, instret, finish>>

\* for (int i = 0; i < 10000; i++) amoadd.d
Amo ==
  /\ ~MustTrap
  /\ IF i < N THEN Step("amo", "amo") /\ i' = i + 1 /\ amo_target' = amo_target + 1
              ELSE Step("amo", "sum") /\ UNCHANGED <<i, amo_target>>
  /\ Quiet
  /\ UNCHANGED <<resume, count, instret, finish>>

Sum ==
  /\ ~MustTrap /\ Step("sum", "sum") /\ Quiet
  /\ finish' = IF amo_target = N THEN "pass" ELSE "fail"
  /\ UNCHANGED <<resume, count, i, amo_target, instret>>

\* while (1) wfi: the hart waits, or retires the two instructions of the loop.
Wfi ==
  /\ ~MustTrap /\ Step("wfi", "wfi") /\ Quiet
  /\ instret' = IF fault = "nop" /\ instret <= InstretLimit THEN instret + 2 ELSE instret
  /\ UNCHANGED <<resume, count, i, amo_target, finish>>

-----------------------------------------------------------------------------
(* trap_success of timer_interrupt.c.  The `if' on mcause & 7 governs the    *)
(* count alone: the store is done for every interrupt.  What is no interrupt *)
(* fails the test.                                                          *)

Count ==
  /\ Step("count", "arm") /\ Quiet
  /\ count' = IF fault \in {"wrong_cause", "as_exception"} THEN count ELSE count + 1
  /\ finish' = IF fault = "as_exception" THEN "fail" ELSE finish
  /\ UNCHANGED <<resume, i, amo_target, instret>>

ArmForgotten ==
  /\ posted = None
  /\ \/ test = "timer_interrupt" /\ Step("arm", "print")
     \/ test = "amo_interrupt" /\ Step("arm", "mret")
  /\ Quiet
  /\ UNCHANGED <<resume, count, i, amo_target, instret, finish>>

\* *mtimecmp = *mtime + 1024 (128 in amo_interrupt.c)
Arm ==
  /\ \/ test = "timer_interrupt" /\ Step("arm", "print")
     \/ test = "amo_interrupt" /\ Step("arm", "mret")
  /\ StoreTimecmp(Interval)
  /\ Passing
  /\ UNCHANGED <<resume, count, i, amo_target, instret, finish>>

PrintCount ==
  /\ Step("print", "check") /\ Quiet
  /\ UNCHANGED <<resume, count, i, amo_target, instret, finish>>

Check ==
  /\ Step("check", "spin") /\ Quiet
  /\ finish' = IF count = N THEN "pass" ELSE finish
  /\ UNCHANGED <<resume, count, i, amo_target, instret>>

(* trap_success of amo_interrupt.c: current_time = *mtime, Arm, mret *)

Load ==
  /\ Step("load", "arm") /\ posted = None /\ Quiet
  /\ UNCHANGED <<resume, count, i, amo_target, instret, finish>>

Mret ==
  /\ Step("mret", resume) /\ Quiet
  /\ UNCHANGED <<resume, count, i, amo_target, instret, finish>>

(* trap_success of wfi.c, which never returns *)

MinstretUnchecked ==
  /\ Step("minstret", "mask") /\ Quiet
  /\ UNCHANGED <<resume, count, i, amo_target, instret, finish>>

Minstret ==
  /\ Step("minstret", "mask") /\ Quiet
  /\ finish' = IF instret > InstretLimit THEN "fail" ELSE finish
  /\ UNCHANGED <<resume, count, i, amo_target, instret>>

\* csrw mstatus, 0; *mtimecmp = 200000, as far again as the first; fence
SecondWait ==
  /\ \/ Step("mask", "far") /\ Quiet
     \/ Step("far", "far_fence") /\ StoreTimecmp(First) /\ Passing
     \/ Step("far_fence", "far_wfi") /\ posted = None /\ Quiet
  /\ UNCHANGED <<resume, count, i, amo_target, instret, finish>>

FarWfi ==
  /\ Step("far_wfi", "far_wfi") /\ Quiet
  /\ finish' = IF fault = "nop" \/ (left = 0 /\ fault # "deaf") THEN "pass" ELSE finish
  /\ UNCHANGED <<resume, count, i, amo_target, instret>>

Terminated == finish # "none" /\ UNCHANGED vars

Next ==
  \/ ProgramTimer \/ BeforeEnable \/ Enable \/ Trap \/ Land
  \/ Spin \/ Count \/ Arm \/ PrintCount \/ Check
  \/ Amo \/ Sum \/ Load \/ Mret
  \/ Wfi \/ Minstret \/ SecondWait \/ FarWfi
  \/ Terminated

Spec == Init /\ [][Next]_vars

-----------------------------------------------------------------------------
(* Properties *)

\* The verdicts tell the harts apart: no timer interrupt, or one under another
\* name, never passes timer_interrupt.c, which fails exactly what it is told is
\* an exception; amo_interrupt.c passes exactly the runs in which no interrupted
\* add was replayed or lost; wfi.c fails exactly the harts that do not wait in
\* the loop.
VerdictIsExact ==
  finish # "none" =>
    CASE test = "timer_interrupt" -> /\ fault \notin {"never", "wrong_cause"}
                                     /\ finish = "fail" <=> fault = "as_exception"
      [] test = "amo_interrupt" -> (finish = "pass" <=> ~damaged)
      [] test = "wfi" -> (finish = "fail" <=> fault = "nop")

\* int_count counts deadlines: no interrupt is counted twice because the store
\* of its handler to mtimecmp is still on the way when the handler returns, and
\* none because of what the comparator held before main.
CountsDeadlines == test = "timer_interrupt" /\ fault # "sticky" => ~spurious

\* The harts on which each program comes to an end.
Answerable ==
  CASE test = "timer_interrupt" -> {"none", "sticky", "as_exception"}
    [] test = "amo_interrupt" -> {"none", "never", "replays", "loses"}
    [] test = "wfi" -> {"none", "nop"}
=============================================================================
