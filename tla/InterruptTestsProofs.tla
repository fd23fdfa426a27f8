------------------------ MODULE InterruptTestsProofs ------------------------
(***************************************************************************)
(* What the verdicts of s_mideleg.S, of the timer tests, of the external   *)
(* interrupt tests and of the priority tests mean, for any deadlines,      *)
(* delays, numbers of interrupts and of stores in flight, and latencies of *)
(* the stores.                                                             *)
(***************************************************************************)
EXTENDS InterruptTests, Sequences, TLAPS

-----------------------------------------------------------------------------
(* s_mideleg.S: a phase that has been passed rules out the faults it looks  *)
(* for.  The store that raises the line is not waited for: the last two     *)
(* phases have looked at the line, or too early.                            *)

\* Where the test is, an ecall counting for the phase it leads to
At == IF pc = "ecall" THEN a0 ELSE pc

From4 == {"m_phase4", "mret4", "s_phase4"}
From3 == {"m_phase3", "mret3", "s_phase3"} \union From4
From2 == {"m_phase2", "mret2", "s_phase2"} \union From3

\* The store to 0x30c008 has been issued.
Raised == At \in {"mret3", "s_phase3"} \union From4

RaiseLine == [word |-> "30c008", value |-> TRUE]

DelegationTypes ==
  /\ faults \in SUBSET Delegation!HartFaults
  /\ pc \in {"m_phase1", "mret1", "s_phase1", "ecall"} \union From2
  /\ pc = "ecall" => a0 \in {"m_phase2", "m_phase3", "m_phase4"}
  /\ mideleg \in BOOLEAN /\ seip \in BOOLEAN
  /\ early \subseteq {"s_phase3", "s_phase4"}
  /\ finish \in {"none", "pass", "fail"}

\* What the instructions of each phase have set up
SetUp ==
  /\ pc \in {"mret1", "s_phase1", "mret3", "s_phase3"} => ~mideleg
  /\ pc \in {"mret2", "s_phase2", "mret4", "s_phase4"} => mideleg
  /\ At \in {"mret1", "s_phase1", "m_phase2", "mret2", "s_phase2", "m_phase3"} => seip
  /\ Raised => ~seip

\* The line is down before the store, and up as soon as it has landed; only a
\* phase behind the store can look too early.
LineFollows ==
  /\ line \in BOOLEAN
  /\ ~Raised => ~line /\ posted = Delegation!None
  /\ Raised => \/ line /\ posted = Delegation!None
               \/ ~line /\ posted = RaiseLine
  /\ "s_phase3" \in early => At \in From4
  /\ "s_phase4" \notin early

\* What has been looked at and found right
RuledOut ==
  /\ At \in From2 => "sw_leaks" \notin faults
  /\ At \in From3 => {"sw_hidden", "wrong_cause"} \intersect faults = {}
  /\ pc \in From2 => "wrong_cause" \notin faults
  /\ At \in From4 /\ "hw_leaks" \in faults => "s_phase3" \in early

DelegationInv ==
  /\ DelegationTypes
  /\ finish = "none" => SetUp /\ LineFollows /\ RuledOut
  /\ Delegation!VerdictIsExact

-----------------------------------------------------------------------------
(* The timer tests *)

TimerTypes ==
  /\ fault \in Timer!FaultsOf(test)
  /\ left \in Nat /\ age \in Nat /\ count \in Nat
  /\ i \in Nat /\ amo_target \in Nat /\ instret \in Nat
  /\ posted \in Nat \union {Timer!None}
  /\ fresh \in BOOLEAN /\ spurious \in BOOLEAN /\ damaged \in BOOLEAN
  /\ finish \in {"none", "pass", "fail"}

\* timer_interrupt.c counts only interrupts that come and are told right.
CountInv ==
  /\ pc \in {"program", "banner", "set_mie", "set_mstatus", "spin", "count", "arm",
             "print", "check"}
  /\ fault = "never" => pc \notin {"count", "arm", "print", "check"}
  /\ fault \in {"never", "wrong_cause", "as_exception"} => count = 0
  /\ finish = "pass" => count = N
  /\ finish = "fail" => fault = "as_exception"

\* ... and each deadline once, if a store lands before the handler is through
\* with its report: in the loop the comparator has been set, and MTIP is up only
\* if it has been reached since.
DeadlineInv ==
  /\ ~spurious
  /\ pc \in {"set_mie", "check"} /\ posted # Timer!None => age >= 1
  /\ pc \in {"set_mstatus", "spin"} /\ posted # Timer!None => age >= 2
  /\ /\ pc \in {"banner", "set_mie", "set_mstatus", "spin", "print", "check"}
     /\ posted = Timer!None /\ left = 0
     => fresh

\* amo_interrupt.c: the adds done are the iterations, unless one was damaged,
\* and damage of one kind only adds up.
AddInv ==
  /\ pc \in {"program", "set_mie", "set_mstatus", "amo", "sum", "load", "arm", "mret"}
  /\ pc \in {"load", "arm", "mret"} => resume \in {"amo", "sum"}
  /\ i <= N
  /\ pc = "sum" \/ (pc \in {"load", "arm", "mret"} /\ resume = "sum") => i = N
  /\ fault = "replays" => amo_target >= i /\ (damaged <=> amo_target > i)
  /\ fault = "loses" => amo_target <= i /\ (damaged <=> amo_target < i)
  /\ fault \notin {"replays", "loses"} => ~damaged /\ amo_target = i
  /\ finish # "none" => (finish = "pass" <=> amo_target = N) /\ i = N

\* wfi.c: a hart that does not wait retires two instructions a tick until the
\* interrupt, three instructions after the fence at the earliest.
WaitInv ==
  /\ pc \in {"program", "fence", "set_mie", "set_mstatus", "wfi", "minstret", "mask",
             "far", "far_fence", "far_wfi"}
  /\ fault # "nop" => instret = 0 /\ finish # "fail"

NoWaitInv ==
  /\ finish # "pass"
  /\ pc = "fence" => \/ posted = First
                     \/ posted = Timer!None /\ left = First
  /\ pc \in {"set_mie", "set_mstatus", "wfi"} => posted = Timer!None
  /\ pc = "set_mie" => left >= First - 1
  /\ pc = "set_mstatus" => left >= First - 2
  /\ pc = "wfi" => instret > InstretLimit \/ instret + 2 * left >= 2 * (First - 3)
  /\ pc = "minstret" => instret > InstretLimit
  /\ pc \in {"mask", "far", "far_fence", "far_wfi"} => finish # "none"

\* What is assumed of the constants where a verdict depends on them
StoresAreEarly == Latency <= 2
LoopIsLong == 2 * (First - 3) > InstretLimit

TimerInv ==
  /\ TimerTypes
  /\ test = "timer_interrupt" => CountInv
  /\ test = "timer_interrupt" /\ StoresAreEarly /\ fault # "sticky" => DeadlineInv
  /\ test = "amo_interrupt" => AddInv
  /\ test = "wfi" => WaitInv
  /\ test = "wfi" /\ fault = "nop" /\ LoopIsLong => NoWaitInv

-----------------------------------------------------------------------------
(* The external interrupt tests: a program is where it is in its list of    *)
(* operations, and what is left of the list says what has been looked at.   *)

\* The operations of the two programs, the last one first
SFromTheEnd ==
  << External!Pass, External!ExpectState(1), External!Count, External!ResetCnt,
     External!EnableExternal, External!ExpectState(0), External!Count, External!ResetCnt,
     External!Line(TRUE), External!EnableTraps, External!Seip(FALSE),
     External!ReadMip(TRUE), External!Seip(TRUE), External!Count, External!ResetCnt,
     External!Line(FALSE),
     External!ReadMip(FALSE), External!Count, External!ResetCnt, External!Line(FALSE),
     External!ModifyMip(TRUE), External!Count, External!ResetCnt, External!Line(TRUE),
     External!Seip(FALSE) >>

MFromTheEnd ==
  << External!Pass, External!ExpectState(1), External!Count, External!EnableExternal,
     External!ResetCnt, External!ExpectState(0), External!Count, External!Line(TRUE),
     External!EnableTraps >>

Operations ==
  { External!ResetCnt, External!Count, External!EnableTraps, External!EnableExternal,
    External!Pass, External!Line(TRUE), External!Line(FALSE), External!Seip(TRUE),
    External!Seip(FALSE), External!ReadMip(TRUE), External!ReadMip(FALSE),
    External!ModifyMip(TRUE), External!ExpectState(0), External!ExpectState(1) }

FromTheEnd == IF test = "s_external" THEN SFromTheEnd ELSE MFromTheEnd
ProgramLength == IF test = "s_external" THEN 25 ELSE 9

\* The operations main has still to execute
Todo == Len(prog)

ExternalTypes ==
  /\ test \in External!Tests
  /\ fault \in External!HartFaults
  /\ prog \in Seq(Operations) /\ Todo <= ProgramLength
  /\ \A k \in 1 .. Todo : prog[k] = FromTheEnd[Todo + 1 - k]
  /\ state \in {0, 1}
  /\ cnt \in 0 .. CountTo
  /\ trapping \in BOOLEAN /\ mie \in BOOLEAN /\ seip \in BOOLEAN /\ line \in BOOLEAN
  /\ posted \in Seq(BOOLEAN)
  /\ age \in Nat
  /\ posted # <<>> => age <= Latency
  /\ finish \in {"none", "pass", "fail"}
  /\ finish = "none" => Todo > 0

\* What s_external_interrupt.c has read in mip and found right
FaultsFound ==
  IF test = "s_external"
  THEN /\ Todo < 21 => fault # "line_hidden"
       /\ Todo < 17 => fault # "rmw_latches"
       /\ Todo < 12 => fault # "seip_readonly"
  ELSE TRUE

\* The interrupt is taken before it is enabled only by a hart that ignores mie,
\* and after that by every hart that takes any.
TrapInv ==
  /\ Todo < 6 => fault # "ignores_mie"
  /\ state = 1 => /\ trapping /\ (mie \/ fault = "ignores_mie")
                  /\ fault \notin {"never_traps", "wrong_cause"}
  /\ Todo <= 2 /\ state = 0 => fault = "never_traps"
  /\ Todo = 1 => state = 1
  /\ trapping <=> Todo < (IF test = "s_external" THEN 10 ELSE 9)
  /\ mie <=> Todo < (IF test = "s_external" THEN 5 ELSE 4)

SeipInv ==
  IF test = "s_external"
  THEN /\ Todo \in 21 .. 24 => ~seip
       /\ Todo \in 17 .. 20 => (seip <=> fault = "rmw_latches")
       /\ Todo \in 13 .. 16 => ~seip
       /\ Todo = 12 => (seip <=> fault # "seip_readonly")
       /\ Todo = 11 => seip
       /\ Todo <= 10 => ~seip
  ELSE ~seip

\* The line is b, or a store that sets it to b has been on its way for k steps.
Quiet(b) == Len(posted) = 0 /\ line = b
Flight(b, k) == Quiet(b) \/ (Len(posted) = 1 /\ posted[1] = b /\ age >= k)

\* Until the handler has run, the line is what the last operation on it said,
\* or will be before the delay is over.
SLineInv ==
  /\ Todo \in {24, 25} => Quiet(FALSE)
  /\ Todo = 23 => Flight(TRUE, 0)
  /\ Todo = 22 => Flight(TRUE, 1 + cnt)
  /\ Todo = 21 => Flight(TRUE, CountTo + 2)
  /\ Todo = 20 => Quiet(TRUE)
  /\ Todo = 19 => Flight(FALSE, 0)
  /\ Todo = 18 => Flight(FALSE, 1 + cnt)
  /\ Todo = 17 => Flight(FALSE, CountTo + 2)
  /\ Todo = 16 => Quiet(FALSE)
  /\ Todo = 15 => Flight(FALSE, 0)
  /\ Todo = 14 => Flight(FALSE, 1 + cnt)
  /\ Todo = 13 => Flight(FALSE, CountTo + 2)
  /\ Todo \in 9 .. 12 => Quiet(FALSE)
  /\ Todo = 8 => Flight(TRUE, 0)
  /\ Todo = 7 => Flight(TRUE, 1 + cnt)
  /\ Todo = 6 => Flight(TRUE, CountTo + 2)
  /\ Todo <= 5 => Quiet(TRUE)

\* m_external_interrupt.c does not set cnt to zero before its first delay.
MLineInv ==
  /\ Todo \in {8, 9} => Quiet(FALSE) /\ cnt = 0
  /\ Todo = 7 => Flight(TRUE, cnt)
  /\ Todo = 6 => Flight(TRUE, CountTo + 1)
  /\ Todo <= 5 => Quiet(TRUE)

ExternalVerdict == finish # "none" => (finish = "fail" <=> fault \in External!Visible)

ExternalInv ==
  /\ ExternalTypes
  /\ ExternalVerdict
  /\ finish = "none" =>
       /\ FaultsFound /\ TrapInv /\ SeipInv
       /\ state = 0 => IF test = "s_external" THEN SLineInv ELSE MLineInv

\* A delay outlasts a store to the PLIC.
DelaysSuffice == Latency <= CountTo + 1

-----------------------------------------------------------------------------
(* The priority tests: what the stores in flight will make of the line, and  *)
(* what each trap has said of the hart's order.                              *)

\* The operations of main and of the handler of trap n, the last one first
MainFromTheEnd ==
  IF test = "interrupt_priority"
  THEN <<Priority!GlobalMIE(TRUE), Priority!Drain, Priority!Store(11, TRUE),
         Priority!Store(7, FALSE), Priority!Store(11, FALSE), Priority!Store(3, FALSE),
         Priority!EnableAlso({11}), Priority!GlobalMIE(FALSE)>>
  ELSE <<Priority!GlobalMIE(TRUE), Priority!Drain, Priority!Store(7, TRUE),
         Priority!Drain, Priority!Store(11, TRUE), Priority!Store(3, TRUE),
         Priority!Store(7, FALSE), Priority!Store(11, FALSE), Priority!Store(3, FALSE),
         Priority!EnableAlso({3, 7, 11}), Priority!GlobalMIE(FALSE)>>

Causes == <<11, 3, 7, 11, 3, 7>>
LastTrap == IF test = "race" THEN 6 ELSE 3

HandlerFromTheEnd ==
  CASE step = 0 -> <<>>
    [] step = LastTrap ->
         <<Priority!Mret, Priority!Finish("pass"), Priority!Store(7, FALSE)>>
    [] step = 1 /\ test = "interrupt_priority" ->
         <<Priority!Mret, Priority!Store(7, TRUE), Priority!Drain, Priority!Store(3, TRUE),
           Priority!EnableAlso({3, 7}), Priority!Store(11, FALSE)>>
    [] step = 3 /\ test = "race" ->
         <<Priority!Mret, Priority!Drain, Priority!Store(7, TRUE), Priority!Drain,
           Priority!Store(11, TRUE), Priority!Store(3, TRUE), Priority!Store(7, FALSE)>>
    [] OTHER -> <<Priority!Mret, Priority!Store(Causes[step], FALSE)>>

\* The operations left of main and of the handler
MainOps == Len(main)
TrapOps == Len(handler)

\* The handler has found a cause it does not expect.
Failing == handler = <<Priority!Finish("fail")>>

Stores == {Priority!Store(x, b) : x \in {3, 7, 11}, b \in BOOLEAN}
PriorityOps ==
  {Priority!GlobalMIE(TRUE), Priority!GlobalMIE(FALSE), Priority!Drain, Priority!Mret,
   Priority!EnableAlso({11}), Priority!EnableAlso({3, 7}), Priority!EnableAlso({3, 7, 11}),
   Priority!Finish("pass"), Priority!Finish("fail")} \union Stores

PriorityTypes ==
  /\ test \in Priority!Tests
  /\ depth \in Nat /\ order \in Priority!Orders
  /\ main \in Seq(PriorityOps) /\ MainOps <= Len(MainFromTheEnd)
  /\ \A k \in 1 .. MainOps : main[k] = MainFromTheEnd[MainOps + 1 - k]
  /\ step \in 0 .. LastTrap
  /\ handler \in Seq(PriorityOps)
  /\ ~Failing => /\ TrapOps <= Len(HandlerFromTheEnd)
                 /\ \A k \in 1 .. TrapOps : handler[k] = HandlerFromTheEnd[TrapOps + 1 - k]
  /\ mie \subseteq Priority!Interrupts /\ line \subseteq Priority!Interrupts
  /\ mstatus_mie \in BOOLEAN
  /\ posted \in Seq(Stores) /\ Len(posted) <= depth
  /\ finish \in {"none", "pass", "fail"}

\* No store in flight is about interrupt x; the n-th is the last one that is.
Untouched(x) == \A k \in 1 .. Len(posted) : posted[k].int # x
LastStore(n, x) ==
  posted[n].int = x /\ \A k \in n + 1 .. Len(posted) : posted[k].int # x

\* Interrupt x is raised and stays so; will be raised, or will not be, once all
\* the stores have landed.
Steady(x) == x \in line /\ Untouched(x)
Up(x) ==
  Steady(x) \/ \E n \in 1 .. Len(posted) : LastStore(n, x) /\ posted[n].on = TRUE
Down(x) ==
  \/ x \notin line /\ Untouched(x)
  \/ \E n \in 1 .. Len(posted) : LastStore(n, x) /\ posted[n].on = FALSE

\* Interrupts come when main has reached its last loop, and are handled one by one.
Control ==
  /\ mstatus_mie <=> main = <<>>
  /\ step > 0 => main = <<>>
  /\ handler # <<>> => step > 0
  /\ step = LastTrap => TrapOps > 1
  /\ test = "interrupt_priority" =>
       /\ MainOps > 6 => mie = {}
       /\ MainOps <= 6 /\ step = 0 => mie = {11}
       /\ step = 1 /\ TrapOps > 4 => mie = {11}
       /\ step > 1 \/ (step = 1 /\ TrapOps <= 4) => mie = {3, 7, 11}
  /\ test # "interrupt_priority" /\ MainOps <= 9 => mie = {3, 7, 11}

Raises ==
  /\ test = "interrupt_priority" =>
       /\ step = 0 => /\ MainOps <= 2 => Up(11)
                      /\ MainOps <= 1 => posted = <<>>
       /\ step = 1 => /\ TrapOps <= 5 => Down(11)
                      /\ TrapOps <= 3 => Up(3)
                      /\ TrapOps <= 1 => Up(7)
       /\ step = 2 => /\ Down(11) /\ Up(7)
                      /\ TrapOps <= 1 => Down(3)
  /\ test # "interrupt_priority" =>
       /\ step = 0 => /\ MainOps <= 5 => Up(3)
                      /\ MainOps <= 4 => Up(11)
                      /\ MainOps <= 2 => Up(7)
                      /\ MainOps <= 1 => posted = <<>>
       /\ step \in {1, 4} => /\ Steady(3) /\ Steady(7)
                             /\ TrapOps <= 1 => Down(11)
       /\ step \in {2, 5} => /\ Steady(7) /\ Down(11)
                             /\ TrapOps <= 1 => Down(3)
       /\ step = 3 /\ test = "race" =>
            /\ TrapOps <= 5 => Up(3)
            /\ TrapOps <= 4 => Up(11)
            /\ TrapOps <= 2 => Up(7)
            /\ TrapOps <= 1 => posted = <<>>

\* The hart has x in its order, with no y before it.
Leads(x, y) ==
  \E n \in DOMAIN order : order[n] = x /\ \A k \in 1 .. n - 1 : order[k] # y

Learnt ==
  /\ test = "interrupt_priority" /\ depth = 0 =>
       /\ step > 0 => Leads(11, 11)
       /\ step > 1 => Leads(3, 7)
       /\ step > 2 => Leads(7, 7)
  /\ test # "interrupt_priority" =>
       /\ step > 0 => Leads(11, 3) /\ Leads(11, 7)
       /\ step > 1 => Leads(3, 7)
       /\ step > 2 => Leads(7, 7)

PriorityInv ==
  /\ PriorityTypes
  /\ finish = "none" /\ Failing => step > 0 /\ (depth = 0 => ~Priority!RightOrder(test))
  /\ finish = "none" /\ ~Failing => Control /\ Raises /\ Learnt
  /\ finish = "pass" /\ (test # "interrupt_priority" \/ depth = 0) => Priority!RightOrder(test)
  /\ finish = "fail" /\ depth = 0 => ~Priority!RightOrder(test)

Inv ==
  /\ test = "s_mideleg" => DelegationInv
  /\ test \in Timer!Tests => TimerInv
  /\ test \in External!Tests /\ DelaysSuffice => ExternalInv
  /\ test \in Priority!Tests => PriorityInv

-----------------------------------------------------------------------------
(* The steps of s_mideleg.S *)

\* Every step of s_mideleg.S keeps its part of the invariant.
LEMMA DelegationStep ==
  ASSUME DelegationInv, Delegation!Next
  PROVE  DelegationInv'
<1>1. CASE Delegation!MPhase1
  BY <1>1
  DEF Delegation!MPhase1, Delegation!Running, DelegationInv, DelegationTypes, SetUp, LineFollows,
      RuledOut, Delegation!VerdictIsExact, Delegation!Unseen, At, Raised, From2, From3, From4
<1>2. CASE Delegation!MPhase2
  BY <1>2
  DEF Delegation!MPhase2, Delegation!Running, DelegationInv, DelegationTypes, SetUp, LineFollows,
      RuledOut, Delegation!VerdictIsExact, Delegation!Unseen, At, Raised, From2, From3, From4
<1>3. CASE Delegation!MPhase3
  <2>1. /\ pc = "m_phase3" /\ pc' = "mret3" /\ mideleg' = FALSE /\ seip' = FALSE
        /\ posted' = RaiseLine
        /\ UNCHANGED <<faults, a0, line, early, finish>>
    BY <1>3 DEF Delegation!MPhase3, Delegation!StoreWord, RaiseLine
  <2>2. At = "m_phase3" /\ At' = "mret3" /\ ~Raised /\ Raised'
    BY <2>1 DEF At, Raised, From4
  <2>3. finish = "none" /\ line = FALSE
    BY <1>3, <2>2 DEF Delegation!MPhase3, Delegation!Running, DelegationInv, LineFollows
  <2>4. SetUp' /\ LineFollows'
    BY <2>1, <2>2, <2>3 DEF SetUp, LineFollows, DelegationInv, DelegationTypes, From4
  <2>5. RuledOut'
    BY <2>1, <2>2, <2>3 DEF RuledOut, DelegationInv, From2, From3, From4
  <2> QED
    BY <2>1, <2>3, <2>4, <2>5 DEF DelegationInv, DelegationTypes, Delegation!VerdictIsExact,
       From2, From3, From4
<1>4. CASE Delegation!MPhase4
  BY <1>4
  DEF Delegation!MPhase4, Delegation!Running, DelegationInv, DelegationTypes, SetUp, LineFollows,
      RuledOut, Delegation!VerdictIsExact, Delegation!Unseen, At, Raised, From2, From3, From4,
      RaiseLine, Delegation!None
<1>5. CASE Delegation!Mret
  BY <1>5
  DEF Delegation!Mret, Delegation!Running, DelegationInv, DelegationTypes, SetUp, LineFollows,
      RuledOut, Delegation!VerdictIsExact, Delegation!Unseen, At, Raised, From2, From3, From4,
      RaiseLine, Delegation!None
<1>6. CASE Delegation!SPhase("s_phase1", FALSE, "m_phase2")
  BY <1>6
  DEF Delegation!SPhase, Delegation!Sip, Delegation!Look, Delegation!Running,
      DelegationInv, DelegationTypes, SetUp, LineFollows,
      RuledOut, Delegation!VerdictIsExact, Delegation!Unseen, At, Raised, From2, From3, From4
<1>7. CASE Delegation!SPhase("s_phase2", TRUE, "m_phase3")
  BY <1>7
  DEF Delegation!SPhase, Delegation!Sip, Delegation!Look, Delegation!Running,
      DelegationInv, DelegationTypes, SetUp, LineFollows,
      RuledOut, Delegation!VerdictIsExact, Delegation!Unseen, At, Raised, From2, From3, From4
<1>8. CASE Delegation!SPhase("s_phase3", FALSE, "m_phase4")
  <2>1. /\ finish = "none" /\ pc = "s_phase3" /\ ~mideleg /\ ~seip /\ early = {}
        /\ {"sw_leaks", "sw_hidden", "wrong_cause"} \intersect faults = {}
        /\ line = (posted = Delegation!None)
        /\ UNCHANGED <<faults, mideleg, seip, line, posted>>
    BY <1>8
    DEF Delegation!SPhase, Delegation!Running, DelegationInv, DelegationTypes, SetUp,
        LineFollows, RuledOut, At, Raised, From2, From3, From4, RaiseLine, Delegation!None
  <2>2. early' = IF line THEN {} ELSE {"s_phase3"}
    BY <1>8, <2>1 DEF Delegation!SPhase, Delegation!Look
  <2>3. Delegation!Sip <=> line /\ "hw_leaks" \in faults
    BY <2>1 DEF Delegation!Sip
  <2>4. CASE Delegation!Sip
    <3>1. finish' = "fail" /\ UNCHANGED <<pc, a0>> /\ early' = {} /\ "hw_leaks" \in faults
      BY <1>8, <2>2, <2>3, <2>4 DEF Delegation!SPhase
    <3> QED
      BY <2>1, <3>1
      DEF DelegationInv, DelegationTypes, Delegation!VerdictIsExact, Delegation!Unseen
  <2>5. CASE ~Delegation!Sip
    <3>1. /\ finish' = "none" /\ pc' = "ecall" /\ a0' = "m_phase4"
          /\ "hw_leaks" \in faults => "s_phase3" \in early'
      BY <1>8, <2>1, <2>2, <2>3, <2>5 DEF Delegation!SPhase
    <3>2. At' = "m_phase4" /\ Raised /\ Raised'
      BY <2>1, <3>1 DEF At, Raised, From4
    <3>3. SetUp' /\ RuledOut'
      BY <2>1, <3>1, <3>2 DEF DelegationInv, SetUp, RuledOut, From2, From3, From4
    <3>4. LineFollows'
      BY <2>1, <2>2, <3>1, <3>2 DEF DelegationInv, LineFollows, From4
    <3> QED
      BY <2>1, <2>2, <3>1, <3>3, <3>4
      DEF DelegationInv, DelegationTypes, Delegation!VerdictIsExact
  <2> QED
    BY <2>4, <2>5
<1>9. CASE Delegation!SPhase4
  <2>1. /\ finish = "none" /\ pc = "s_phase4" /\ mideleg /\ ~seip
        /\ {"sw_leaks", "sw_hidden", "wrong_cause"} \intersect faults = {}
        /\ "hw_leaks" \in faults => "s_phase3" \in early
        /\ early \subseteq {"s_phase3"}
        /\ line = (posted = Delegation!None)
        /\ UNCHANGED <<faults, pc, a0, mideleg, seip, line>>
    BY <1>9
    DEF Delegation!SPhase4, Delegation!Running, DelegationInv, DelegationTypes, SetUp,
        LineFollows, RuledOut, At, Raised, From2, From3, From4, RaiseLine, Delegation!None
  <2>2. early' = IF line THEN early ELSE early \union {"s_phase4"}
    BY <1>9, <2>1 DEF Delegation!SPhase4, Delegation!Look
  <2>3. Delegation!Sip <=> line /\ ("hw_leaks" \in faults \/ "hw_hidden" \notin faults)
    BY <2>1 DEF Delegation!Sip
  <2>4. /\ faults \subseteq {"hw_leaks", "hw_hidden"}
        /\ "s_phase3" \in early' <=> "s_phase3" \in early
        /\ "s_phase4" \in early' <=> ~line
        /\ finish' = IF Delegation!Sip THEN "pass" ELSE "fail"
    BY <1>9, <2>1, <2>2
    DEF Delegation!SPhase4, DelegationInv, DelegationTypes, Delegation!HartFaults
  <2>5. Delegation!VerdictIsExact'
    BY <2>1, <2>3, <2>4 DEF Delegation!VerdictIsExact, Delegation!Unseen
  <2> QED
    BY <2>1, <2>2, <2>4, <2>5 DEF DelegationInv, DelegationTypes
<1>10. CASE Delegation!MTrapVector
  <2>1. /\ finish = "none" /\ pc = "ecall" /\ a0 \in {"m_phase2", "m_phase3", "m_phase4"}
        /\ UNCHANGED <<faults, a0, mideleg, seip, line, posted, early>>
    BY <1>10 DEF Delegation!MTrapVector, Delegation!Running, DelegationInv, DelegationTypes
  <2>2. CASE "wrong_cause" \in faults
    <3>1. finish' = "fail" /\ pc' = pc
      BY <1>10, <2>2 DEF Delegation!MTrapVector
    <3> QED
      BY <2>1, <2>2, <3>1
      DEF DelegationInv, DelegationTypes, Delegation!VerdictIsExact, Delegation!Unseen
  <2>3. CASE "wrong_cause" \notin faults
    <3>1. finish' = "none" /\ pc' = a0
      BY <1>10, <2>1, <2>3 DEF Delegation!MTrapVector
    <3>2. At = a0 /\ At' = a0 /\ Raised' = Raised
      BY <2>1, <3>1 DEF At, Raised, From4
    <3>3. SetUp' /\ RuledOut' /\ LineFollows'
      BY <2>1, <2>3, <3>1, <3>2
      DEF DelegationInv, SetUp, RuledOut, LineFollows, From2, From3, From4
    <3> QED
      BY <2>1, <3>1, <3>3
      DEF DelegationInv, DelegationTypes, Delegation!VerdictIsExact, From2, From3, From4
  <2> QED
    BY <2>2, <2>3
<1>11. CASE Delegation!Land
  <2>1. /\ posted # Delegation!None /\ posted' = Delegation!None
        /\ line' = IF posted.word = "30c008" THEN posted.value ELSE line
        /\ UNCHANGED <<faults, pc, a0, mideleg, seip, early, finish>>
    BY <1>11 DEF Delegation!Land
  <2>2. At' = At /\ Raised' = Raised
    BY <2>1 DEF At, Raised
  <2>3. finish = "none" => posted = RaiseLine /\ Raised
    BY <2>1 DEF DelegationInv, LineFollows
  <2>4. finish = "none" => line' = TRUE
    BY <2>1, <2>3 DEF RaiseLine
  <2>5. finish = "none" => SetUp' /\ LineFollows' /\ RuledOut'
    BY <2>1, <2>2, <2>3, <2>4
    DEF DelegationInv, DelegationTypes, SetUp, LineFollows, RuledOut, At, From2, From3, From4
  <2> QED
    BY <2>1, <2>2, <2>5
    DEF DelegationInv, DelegationTypes, Delegation!VerdictIsExact, Delegation!Unseen
<1>12. CASE Delegation!Terminated
  BY <1>12
  DEF Delegation!Terminated, Delegation!vars, DelegationInv, DelegationTypes, SetUp, LineFollows,
      RuledOut, Delegation!VerdictIsExact, Delegation!Unseen, At, Raised, From2, From3, From4
<1> QED
  BY <1>1, <1>2, <1>3, <1>4, <1>5, <1>6, <1>7, <1>8, <1>9, <1>10, <1>11, <1>12
  DEF Delegation!Next

-----------------------------------------------------------------------------
(* The steps of the timer tests *)

\* What is assumed of the constants.
LEMMA TimerConstants ==
  /\ First \in Nat /\ First > 0 /\ Interval \in Nat /\ Interval > 0
  /\ InstretLimit \in Nat /\ InstretLimit > 0 /\ Latency \in Nat /\ Latency > 0
  /\ N \in Nat /\ N > 0
BY InterruptTestsAssumption DEF Timer!TimerAssumption

\* Every step of a timer test keeps the types.
LEMMA TypesStep ==
  ASSUME TimerTypes, Timer!Next
  PROVE  TimerTypes'
<1> USE TimerConstants DEF Timer!Step, Timer!Quiet, Timer!KeepStore, Timer!Passing,
           Timer!StoreTimecmp, Timer!Down, Timer!None, Timer!MustTrap, Timer!Interruptible,
           Timer!Handler, TimerTypes
<1>1. CASE Timer!ProgramTimer
  BY <1>1 DEF Timer!ProgramTimer
<1>2. CASE Timer!BeforeEnable
  BY <1>2 DEF Timer!BeforeEnable
<1>3. CASE Timer!Enable
  BY <1>3 DEF Timer!Enable
<1>4. CASE Timer!Trap
  <2>1. /\ left' \in Nat /\ age' \in Nat /\ posted' \in Nat \union {Timer!None}
        /\ UNCHANGED <<test, fault, count, instret, finish>>
        /\ i' \in Nat /\ amo_target' \in Nat
    BY <1>4 DEF Timer!Trap
  <2>2. fresh' \in BOOLEAN /\ spurious' \in BOOLEAN /\ damaged' \in BOOLEAN
    BY <1>4 DEF Timer!Trap
  <2> QED
    BY <2>1, <2>2
<1>5. CASE Timer!Land
  BY <1>5 DEF Timer!Land
<1>6. CASE Timer!Spin
  BY <1>6 DEF Timer!Spin
<1>7. CASE Timer!Count
  BY <1>7 DEF Timer!Count
<1>8. CASE Timer!Arm
  BY <1>8 DEF Timer!Arm
<1>9. CASE Timer!PrintCount
  BY <1>9 DEF Timer!PrintCount
<1>10. CASE Timer!Check
  BY <1>10 DEF Timer!Check
<1>11. CASE Timer!Amo
  BY <1>11 DEF Timer!Amo
<1>12. CASE Timer!Sum
  BY <1>12 DEF Timer!Sum
<1>13. CASE Timer!Load
  BY <1>13 DEF Timer!Load
<1>14. CASE Timer!Mret
  BY <1>14 DEF Timer!Mret
<1>15. CASE Timer!Wfi
  BY <1>15 DEF Timer!Wfi
<1>16. CASE Timer!Minstret
  BY <1>16 DEF Timer!Minstret
<1>17. CASE Timer!SecondWait
  <2>1. CASE Timer!Step("mask", "far") /\ Timer!Quiet
    BY <1>17, <2>1 DEF Timer!SecondWait
  <2>2. CASE Timer!Step("far", "far_fence") /\ Timer!StoreTimecmp(First) /\ Timer!Passing
    BY <1>17, <2>2 DEF Timer!SecondWait
  <2>3. CASE Timer!Step("far_fence", "far_wfi") /\ posted = Timer!None /\ Timer!Quiet
    BY <1>17, <2>3 DEF Timer!SecondWait
  <2> QED
    BY <1>17, <2>1, <2>2, <2>3 DEF Timer!SecondWait
<1>18. CASE Timer!FarWfi
  BY <1>18 DEF Timer!FarWfi
<1>19. CASE Timer!Terminated
  BY <1>19 DEF Timer!Terminated, Timer!vars
<1> QED
  BY <1>1, <1>2, <1>3, <1>4, <1>5, <1>6, <1>7, <1>8, <1>9, <1>10,
     <1>11, <1>12, <1>13, <1>14, <1>15, <1>16, <1>17, <1>18, <1>19
  DEF Timer!Next

\* No step of timer_interrupt.c counts what did not come or was told wrong.
LEMMA CountStep ==
  ASSUME test = "timer_interrupt", TimerTypes, CountInv, Timer!Next
  PROVE  CountInv'
<1> USE TimerConstants DEF Timer!Step, Timer!Quiet, Timer!KeepStore, Timer!Passing,
           Timer!StoreTimecmp, Timer!Down, Timer!None, Timer!MustTrap, Timer!Interruptible,
           Timer!Handler, TimerTypes, CountInv
<1>1. CASE Timer!ProgramTimer
  BY <1>1 DEF Timer!ProgramTimer
<1>2. CASE Timer!BeforeEnable
  BY <1>2 DEF Timer!BeforeEnable
<1>3. CASE Timer!Enable
  BY <1>3 DEF Timer!Enable
<1>4. CASE Timer!Trap
  BY <1>4 DEF Timer!Trap
<1>5. CASE Timer!Land
  BY <1>5 DEF Timer!Land
<1>6. CASE Timer!Spin
  BY <1>6 DEF Timer!Spin
<1>7. CASE Timer!Count
  BY <1>7 DEF Timer!Count
<1>8. CASE Timer!Arm
  BY <1>8 DEF Timer!Arm
<1>9. CASE Timer!PrintCount
  BY <1>9 DEF Timer!PrintCount
<1>10. CASE Timer!Check
  BY <1>10 DEF Timer!Check
<1>11. CASE Timer!Amo
  BY <1>11 DEF Timer!Amo
<1>12. CASE Timer!Sum
  BY <1>12 DEF Timer!Sum
<1>13. CASE Timer!Load
  BY <1>13 DEF Timer!Load
<1>14. CASE Timer!Mret
  BY <1>14 DEF Timer!Mret
<1>15. CASE Timer!Wfi
  BY <1>15 DEF Timer!Wfi
<1>16. CASE Timer!Minstret
  BY <1>16 DEF Timer!Minstret
<1>17. CASE Timer!SecondWait
  BY <1>17 DEF Timer!SecondWait
<1>18. CASE Timer!FarWfi
  BY <1>18 DEF Timer!FarWfi
<1>19. CASE Timer!Terminated
  BY <1>19 DEF Timer!Terminated, Timer!vars
<1> QED
  BY <1>1, <1>2, <1>3, <1>4, <1>5, <1>6, <1>7, <1>8, <1>9, <1>10,
     <1>11, <1>12, <1>13, <1>14, <1>15, <1>16, <1>17, <1>18, <1>19
  DEF Timer!Next

\* While time passes a store in flight gets older, and MTIP rises for a fresh
\* deadline alone.
LEMMA QuietTime ==
  ASSUME TimerTypes, Timer!Quiet, left' = Timer!Down(left)
  PROVE  /\ posted' = Timer!None <=> posted = Timer!None
         /\ posted # Timer!None => age' = age + 1
         /\ left' = 0 => left = 0 \/ fresh'
         /\ fresh => fresh'
         /\ spurious' = spurious
<1>1. fresh' = (fresh \/ left = 1) /\ spurious' = spurious
  BY DEF Timer!Quiet, Timer!Passing
<1>2. fresh' <=> fresh \/ left = 1
  BY <1>1
<1>3. left' = 0 => left = 0 \/ left = 1
  BY DEF TimerTypes, Timer!Down
<1>4. /\ posted' = Timer!None <=> posted = Timer!None
      /\ posted # Timer!None => age' = age + 1
  BY DEF TimerTypes, Timer!Quiet, Timer!KeepStore, Timer!Down, Timer!None
<1> QED
  BY <1>1, <1>2, <1>3, <1>4

\* No step of timer_interrupt.c traps on a deadline that was served.
LEMMA DeadlineStep ==
  ASSUME test = "timer_interrupt", TimerTypes, CountInv, DeadlineInv,
         StoresAreEarly, fault # "sticky", Timer!Next
  PROVE  DeadlineInv'
<1> USE TimerConstants DEF Timer!Step, Timer!Quiet, Timer!KeepStore, Timer!Passing,
           Timer!StoreTimecmp, Timer!Down, Timer!None, Timer!MustTrap, Timer!Interruptible,
           Timer!Handler, TimerTypes,
           CountInv, DeadlineInv, StoresAreEarly
<1>1. CASE Timer!ProgramTimer
  BY <1>1 DEF Timer!ProgramTimer
<1>2. CASE Timer!BeforeEnable
  <2>1. Timer!Quiet /\ left' = Timer!Down(left) /\ finish = "none"
    BY <1>2 DEF Timer!BeforeEnable
  <2> QED
    BY <1>2, <2>1, QuietTime DEF Timer!BeforeEnable
<1>3. CASE Timer!Enable
  <2>1. Timer!Quiet /\ left' = Timer!Down(left) /\ finish = "none"
    BY <1>3 DEF Timer!Enable
  <2> QED
    BY <1>3, <2>1, QuietTime DEF Timer!Enable
<1>4. CASE Timer!Trap
  BY <1>4 DEF Timer!Trap
<1>5. CASE Timer!Land
  BY <1>5 DEF Timer!Land
<1>6. CASE Timer!Spin
  <2>1. Timer!Quiet /\ left' = Timer!Down(left) /\ finish = "none"
    BY <1>6 DEF Timer!Spin
  <2> QED
    BY <1>6, <2>1, QuietTime DEF Timer!Spin
<1>7. CASE Timer!Count
  BY <1>7 DEF Timer!Count
<1>8. CASE Timer!Arm
  BY <1>8 DEF Timer!Arm
<1>9. CASE Timer!PrintCount
  <2>1. Timer!Quiet /\ left' = Timer!Down(left) /\ finish = "none"
    BY <1>9 DEF Timer!PrintCount
  <2> QED
    BY <1>9, <2>1, QuietTime DEF Timer!PrintCount
<1>10. CASE Timer!Check
  <2>1. Timer!Quiet /\ left' = Timer!Down(left) /\ finish = "none"
    BY <1>10 DEF Timer!Check
  <2> QED
    BY <1>10, <2>1, QuietTime DEF Timer!Check
<1>11. CASE Timer!Amo
  BY <1>11 DEF Timer!Amo
<1>12. CASE Timer!Sum
  BY <1>12 DEF Timer!Sum
<1>13. CASE Timer!Load
  BY <1>13 DEF Timer!Load
<1>14. CASE Timer!Mret
  BY <1>14 DEF Timer!Mret
<1>15. CASE Timer!Wfi
  BY <1>15 DEF Timer!Wfi
<1>16. CASE Timer!Minstret
  BY <1>16 DEF Timer!Minstret
<1>17. CASE Timer!SecondWait
  BY <1>17 DEF Timer!SecondWait
<1>18. CASE Timer!FarWfi
  BY <1>18 DEF Timer!FarWfi
<1>19. CASE Timer!Terminated
  BY <1>19 DEF Timer!Terminated, Timer!vars
<1> QED
  BY <1>1, <1>2, <1>3, <1>4, <1>5, <1>6, <1>7, <1>8, <1>9, <1>10,
     <1>11, <1>12, <1>13, <1>14, <1>15, <1>16, <1>17, <1>18, <1>19
  DEF Timer!Next

\* Every step of amo_interrupt.c keeps the count of the adds.
LEMMA AddStep ==
  ASSUME test = "amo_interrupt", TimerTypes, AddInv, Timer!Next
  PROVE  AddInv'
<1> USE TimerConstants DEF Timer!Step, Timer!Quiet, Timer!KeepStore, Timer!Passing,
           Timer!StoreTimecmp, Timer!Down, Timer!None, Timer!MustTrap, Timer!Interruptible,
           Timer!Handler, TimerTypes, AddInv
<1>1. CASE Timer!ProgramTimer
  BY <1>1 DEF Timer!ProgramTimer
<1>2. CASE Timer!BeforeEnable
  BY <1>2 DEF Timer!BeforeEnable
<1>3. CASE Timer!Enable
  BY <1>3 DEF Timer!Enable
<1>4. CASE Timer!Trap
  BY <1>4 DEF Timer!Trap
<1>5. CASE Timer!Land
  BY <1>5 DEF Timer!Land
<1>6. CASE Timer!Spin
  BY <1>6 DEF Timer!Spin
<1>7. CASE Timer!Count
  BY <1>7 DEF Timer!Count
<1>8. CASE Timer!Arm
  BY <1>8 DEF Timer!Arm
<1>9. CASE Timer!PrintCount
  BY <1>9 DEF Timer!PrintCount
<1>10. CASE Timer!Check
  BY <1>10 DEF Timer!Check
<1>11. CASE Timer!Amo
  BY <1>11 DEF Timer!Amo
<1>12. CASE Timer!Sum
  BY <1>12 DEF Timer!Sum
<1>13. CASE Timer!Load
  BY <1>13 DEF Timer!Load
<1>14. CASE Timer!Mret
  BY <1>14 DEF Timer!Mret
<1>15. CASE Timer!Wfi
  BY <1>15 DEF Timer!Wfi
<1>16. CASE Timer!Minstret
  BY <1>16 DEF Timer!Minstret
<1>17. CASE Timer!SecondWait
  BY <1>17 DEF Timer!SecondWait
<1>18. CASE Timer!FarWfi
  BY <1>18 DEF Timer!FarWfi
<1>19. CASE Timer!Terminated
  BY <1>19 DEF Timer!Terminated, Timer!vars
<1> QED
  BY <1>1, <1>2, <1>3, <1>4, <1>5, <1>6, <1>7, <1>8, <1>9, <1>10,
     <1>11, <1>12, <1>13, <1>14, <1>15, <1>16, <1>17, <1>18, <1>19
  DEF Timer!Next

\* A hart that waits retires nothing in the loop of wfi.c.
LEMMA WaitStep ==
  ASSUME test = "wfi", TimerTypes, WaitInv, Timer!Next
  PROVE  WaitInv'
<1> USE TimerConstants DEF Timer!Step, Timer!Quiet, Timer!KeepStore, Timer!Passing,
           Timer!StoreTimecmp, Timer!Down, Timer!None, Timer!MustTrap, Timer!Interruptible,
           Timer!Handler, TimerTypes, WaitInv
<1>1. CASE Timer!ProgramTimer
  BY <1>1 DEF Timer!ProgramTimer
<1>2. CASE Timer!BeforeEnable
  BY <1>2 DEF Timer!BeforeEnable
<1>3. CASE Timer!Enable
  BY <1>3 DEF Timer!Enable
<1>4. CASE Timer!Trap
  BY <1>4 DEF Timer!Trap
<1>5. CASE Timer!Land
  BY <1>5 DEF Timer!Land
<1>6. CASE Timer!Spin
  BY <1>6 DEF Timer!Spin
<1>7. CASE Timer!Count
  BY <1>7 DEF Timer!Count
<1>8. CASE Timer!Arm
  BY <1>8 DEF Timer!Arm
<1>9. CASE Timer!PrintCount
  BY <1>9 DEF Timer!PrintCount
<1>10. CASE Timer!Check
  BY <1>10 DEF Timer!Check
<1>11. CASE Timer!Amo
  BY <1>11 DEF Timer!Amo
<1>12. CASE Timer!Sum
  BY <1>12 DEF Timer!Sum
<1>13. CASE Timer!Load
  BY <1>13 DEF Timer!Load
<1>14. CASE Timer!Mret
  BY <1>14 DEF Timer!Mret
<1>15. CASE Timer!Wfi
  BY <1>15 DEF Timer!Wfi
<1>16. CASE Timer!Minstret
  BY <1>16 DEF Timer!Minstret
<1>17. CASE Timer!SecondWait
  BY <1>17 DEF Timer!SecondWait
<1>18. CASE Timer!FarWfi
  BY <1>18 DEF Timer!FarWfi
<1>19. CASE Timer!Terminated
  BY <1>19 DEF Timer!Terminated, Timer!vars
<1> QED
  BY <1>1, <1>2, <1>3, <1>4, <1>5, <1>6, <1>7, <1>8, <1>9, <1>10,
     <1>11, <1>12, <1>13, <1>14, <1>15, <1>16, <1>17, <1>18, <1>19
  DEF Timer!Next

\* A hart that does not wait is found out.
LEMMA NoWaitStep ==
  ASSUME test = "wfi", fault = "nop", LoopIsLong, TimerTypes, WaitInv, NoWaitInv, Timer!Next
  PROVE  NoWaitInv'
<1> USE TimerConstants DEF Timer!Step, Timer!Quiet, Timer!KeepStore, Timer!Passing,
           Timer!StoreTimecmp, Timer!Down, Timer!None, Timer!MustTrap, Timer!Interruptible,
           Timer!Handler, TimerTypes,
           WaitInv, NoWaitInv, LoopIsLong
<1>1. CASE Timer!ProgramTimer
  BY <1>1 DEF Timer!ProgramTimer
<1>2. CASE Timer!BeforeEnable
  BY <1>2 DEF Timer!BeforeEnable
<1>3. CASE Timer!Enable
  BY <1>3 DEF Timer!Enable
<1>4. CASE Timer!Trap
  BY <1>4 DEF Timer!Trap
<1>5. CASE Timer!Land
  BY <1>5 DEF Timer!Land
<1>6. CASE Timer!Spin
  BY <1>6 DEF Timer!Spin
<1>7. CASE Timer!Count
  BY <1>7 DEF Timer!Count
<1>8. CASE Timer!Arm
  BY <1>8 DEF Timer!Arm
<1>9. CASE Timer!PrintCount
  BY <1>9 DEF Timer!PrintCount
<1>10. CASE Timer!Check
  BY <1>10 DEF Timer!Check
<1>11. CASE Timer!Amo
  BY <1>11 DEF Timer!Amo
<1>12. CASE Timer!Sum
  BY <1>12 DEF Timer!Sum
<1>13. CASE Timer!Load
  BY <1>13 DEF Timer!Load
<1>14. CASE Timer!Mret
  BY <1>14 DEF Timer!Mret
<1>15. CASE Timer!Wfi
  BY <1>15 DEF Timer!Wfi
<1>16. CASE Timer!Minstret
  BY <1>16 DEF Timer!Minstret
<1>17. CASE Timer!SecondWait
  BY <1>17 DEF Timer!SecondWait
<1>18. CASE Timer!FarWfi
  BY <1>18 DEF Timer!FarWfi
<1>19. CASE Timer!Terminated
  BY <1>19 DEF Timer!Terminated, Timer!vars
<1> QED
  BY <1>1, <1>2, <1>3, <1>4, <1>5, <1>6, <1>7, <1>8, <1>9, <1>10,
     <1>11, <1>12, <1>13, <1>14, <1>15, <1>16, <1>17, <1>18, <1>19
  DEF Timer!Next

-----------------------------------------------------------------------------
(* The theorems *)

\* The names of the programs keep them apart.
LEMMA OtherTests ==
  /\ "s_mideleg" \notin Timer!Tests
  /\ "s_mideleg" \notin Priority!Tests /\ Priority!Tests \intersect Timer!Tests = {}
  /\ "s_mideleg" \notin External!Tests /\ External!Tests \intersect Timer!Tests = {}
  /\ External!Tests \intersect Priority!Tests = {}
BY DEF Timer!Tests, Priority!Tests, External!Tests

\* A step of a timer test keeps what is known of all three.
LEMMA TimerStep ==
  ASSUME test \in Timer!Tests, TimerInv, Timer!Next
  PROVE  test' = test /\ TimerInv'
<1>1. test' = test /\ fault' = fault
  BY DEF Timer!Next, Timer!ProgramTimer, Timer!BeforeEnable, Timer!Enable, Timer!Trap,
         Timer!Land, Timer!Spin, Timer!Count, Timer!Arm, Timer!PrintCount, Timer!Check,
         Timer!Amo, Timer!Sum, Timer!Load, Timer!Mret, Timer!Wfi, Timer!Minstret,
         Timer!SecondWait, Timer!FarWfi, Timer!Terminated, Timer!vars, Timer!Step
<1>2. TimerTypes'
  BY TypesStep DEF TimerInv
<1>3. test = "timer_interrupt" => CountInv'
  BY CountStep DEF TimerInv
<1>4. test = "timer_interrupt" /\ StoresAreEarly /\ fault # "sticky" => DeadlineInv'
  BY DeadlineStep DEF TimerInv
<1>5. test = "amo_interrupt" => AddInv'
  BY AddStep DEF TimerInv
<1>6. test = "wfi" => WaitInv'
  BY WaitStep DEF TimerInv
<1>7. test = "wfi" /\ fault = "nop" /\ LoopIsLong => NoWaitInv'
  BY NoWaitStep DEF TimerInv
<1> QED
  BY <1>1, <1>2, <1>3, <1>4, <1>5, <1>6, <1>7 DEF TimerInv, StoresAreEarly, LoopIsLong

-----------------------------------------------------------------------------
(* The steps of m_external_interrupt.c and s_external_interrupt.c *)

\* s is what the program does from the n-th operation from the end on, until m
\* are left.
Spells(s, m, n) ==
  /\ s \in Seq(Operations) /\ Len(s) = n - m
  /\ \A k \in 1 .. n - m : s[k] = SFromTheEnd[n + 1 - k]

\* Parts of a program that follow each other
LEMMA SpellConcat ==
  ASSUME NEW n \in Nat, NEW m \in 0 .. n, NEW l \in 0 .. m, NEW s, NEW t,
         Spells(s, m, n), Spells(t, l, m)
  PROVE  Spells(s \o t, l, n)
<1>1. s \in Seq(Operations) /\ t \in Seq(Operations) /\ Len(s) = n - m /\ Len(t) = m - l
  BY DEF Spells
<1>2. s \o t \in Seq(Operations) /\ Len(s \o t) = n - l
  BY ONLY <1>1, n \in Nat, m \in 0 .. n, l \in 0 .. m
<1>3. ASSUME NEW k \in 1 .. n - l PROVE (s \o t)[k] = SFromTheEnd[n + 1 - k]
  <2>0. k \in Int /\ n - m \in Int
    OBVIOUS
  <2>1. CASE k <= n - m
    <3>1. (s \o t)[k] = s[k]
       BY <1>1, <2>1
    <3> QED BY <2>1, <3>1 DEF Spells
  <2>2. CASE k > n - m
    <3>1. (s \o t)[k] = t[k - (n - m)]
       BY <1>1, <2>2
    <3> QED BY <2>2, <3>1 DEF Spells
  <2>3. k <= n - m \/ k > n - m
    BY ONLY <2>0
  <2> QED BY <2>1, <2>2, <2>3
<1> QED BY <1>2, <1>3 DEF Spells

\* The parts s_external_interrupt.c is put together from
LEMMA SmallWords ==
  /\ Spells(<<External!Pass>>, 0, 1)
  /\ Spells(<<External!ExpectState(1)>>, 1, 2)
  /\ Spells(External!SmallDelay, 2, 4)
  /\ Spells(<<External!ExpectState(0), External!EnableExternal>>, 4, 6)
  /\ Spells(External!SmallDelay, 6, 8)
  /\ Spells(<<External!Seip(FALSE), External!EnableTraps, External!Line(TRUE)>>, 8, 11)
  /\ Spells(<<External!Seip(TRUE), External!ReadMip(TRUE)>>, 11, 13)
  /\ Spells(External!SmallDelay, 13, 15)
  /\ Spells(<<External!Line(FALSE)>>, 15, 16)
  /\ Spells(<<External!ReadMip(FALSE)>>, 16, 17)
  /\ Spells(External!SmallDelay, 17, 19)
  /\ Spells(<<External!ModifyMip(TRUE), External!Line(FALSE)>>, 19, 21)
  /\ Spells(External!SmallDelay, 21, 23)
  /\ Spells(<<External!Seip(FALSE), External!Line(TRUE)>>, 23, 25)
BY DEF Spells, SFromTheEnd, Operations, External!SmallDelay

\* s_external_interrupt.c, the last operation last
LEMMA SExternalSpelled == Spells(External!SExternal, 0, 25)
<1>1. Spells(External!Check1, 16, 25)
  BY SmallWords, SpellConcat DEF External!Check1
<1>2. Spells(External!Check2, 11, 16)
  BY SmallWords, SpellConcat DEF External!Check2
<1>3. Spells(External!Check3, 1, 11)
  BY SmallWords, SpellConcat DEF External!Check3
<1> QED
  BY <1>1, <1>2, <1>3, SmallWords, SpellConcat DEF External!SExternal

\* m_external_interrupt.c, the last operation last
LEMMA MExternalSpelled ==
  /\ External!MExternal \in Seq(Operations) /\ Len(External!MExternal) = 9
  /\ \A k \in 1 .. 9 : External!MExternal[k] = MFromTheEnd[10 - k]
BY DEF MFromTheEnd, External!MExternal, Operations

\* What is assumed of the constants of the two programs
LEMMA ExternalConstants == CountTo \in Nat /\ Latency \in Nat /\ MaxPosted \in Nat \ {0}
BY InterruptTestsAssumption DEF External!ExternalInterruptAssumption

\* The kind and the argument of each operation
LEMMA OpFields ==
  /\ External!Line(TRUE).op = "line" /\ External!Line(TRUE).on = TRUE
  /\ External!Line(FALSE).op = "line" /\ External!Line(FALSE).on = FALSE
  /\ External!ResetCnt.op = "reset_cnt"
  /\ External!Count.op = "count"
  /\ External!Seip(TRUE).op = "seip" /\ External!Seip(TRUE).on = TRUE
  /\ External!Seip(FALSE).op = "seip" /\ External!Seip(FALSE).on = FALSE
  /\ External!ReadMip(TRUE).op = "read_mip" /\ External!ReadMip(TRUE).expect = TRUE
  /\ External!ReadMip(TRUE).rmw = FALSE
  /\ External!ReadMip(FALSE).op = "read_mip" /\ External!ReadMip(FALSE).expect = FALSE
  /\ External!ReadMip(FALSE).rmw = FALSE
  /\ External!ModifyMip(TRUE).op = "read_mip" /\ External!ModifyMip(TRUE).expect = TRUE
  /\ External!ModifyMip(TRUE).rmw = TRUE
  /\ External!EnableTraps.op = "mstatus"
  /\ External!EnableExternal.op = "mie"
  /\ External!ExpectState(0).op = "expect" /\ External!ExpectState(0).state = 0
  /\ External!ExpectState(1).op = "expect" /\ External!ExpectState(1).state = 1
  /\ External!Pass.op = "pass"
BY DEF External!Pass, External!ExpectState, External!Count, External!ResetCnt,
   External!EnableExternal,
  External!Line, External!EnableTraps, External!Seip, External!ReadMip, External!ModifyMip

\* Where s_external_interrupt.c has which operation
LEMMA SOpAt ==
  /\ \A k \in {24, 9} : SFromTheEnd[k] = External!Line(TRUE)
  /\ \A k \in {20, 16} : SFromTheEnd[k] = External!Line(FALSE)
  /\ \A k \in {23, 19, 15, 8, 4} : SFromTheEnd[k] = External!ResetCnt
  /\ \A k \in {22, 18, 14, 7, 3} : SFromTheEnd[k] = External!Count
  /\ \A k \in {25, 11} : SFromTheEnd[k] = External!Seip(FALSE)
  /\ SFromTheEnd[13] = External!Seip(TRUE)
  /\ SFromTheEnd[21] = External!ModifyMip(TRUE)
  /\ SFromTheEnd[17] = External!ReadMip(FALSE)
  /\ SFromTheEnd[12] = External!ReadMip(TRUE)
  /\ SFromTheEnd[10] = External!EnableTraps
  /\ SFromTheEnd[5] = External!EnableExternal
  /\ SFromTheEnd[6] = External!ExpectState(0)
  /\ SFromTheEnd[2] = External!ExpectState(1)
  /\ SFromTheEnd[1] = External!Pass
BY DEF SFromTheEnd

\* ... and where it has an operation of which kind
LEMMA SOpIsAt ==
  \A n \in 1 .. 25 :
   /\ SFromTheEnd[n].op = "line" => n \in {24, 20, 16, 9}
   /\ SFromTheEnd[n].op = "reset_cnt" => n \in {23, 19, 15, 8, 4}
   /\ SFromTheEnd[n].op = "count" => n \in {22, 18, 14, 7, 3}
   /\ SFromTheEnd[n].op = "seip" => n \in {25, 13, 11}
   /\ SFromTheEnd[n].op = "read_mip" => n \in {21, 17, 12}
   /\ SFromTheEnd[n].op = "mstatus" => n = 10
   /\ SFromTheEnd[n].op = "mie" => n = 5
   /\ SFromTheEnd[n].op = "expect" => n \in {6, 2}
   /\ SFromTheEnd[n].op = "pass" => n = 1
<1> TAKE n \in 1 .. 25
<1>1. CASE n \in {24, 20, 16, 9}
  <2>1. SFromTheEnd[n].op = "line"
    <3>1. CASE n \in {24, 9}
      BY ONLY <3>1, SOpAt, OpFields
    <3>2. CASE n \in {20, 16}
      BY ONLY <3>2, SOpAt, OpFields
    <3> QED
      BY ONLY <1>1, <3>1, <3>2
  <2> QED
    BY ONLY <1>1, <2>1
<1>2. CASE n \in {23, 19, 15, 8, 4}
  <2>1. SFromTheEnd[n].op = "reset_cnt"
    BY ONLY <1>2, SOpAt, OpFields
  <2> QED
    BY ONLY <1>2, <2>1
<1>3. CASE n \in {22, 18, 14, 7, 3}
  <2>1. SFromTheEnd[n].op = "count"
    BY ONLY <1>3, SOpAt, OpFields
  <2> QED
    BY ONLY <1>3, <2>1
<1>4. CASE n \in {25, 13, 11}
  <2>1. SFromTheEnd[n].op = "seip"
    BY ONLY ZenonT(60), <1>4, SOpAt, OpFields
  <2> QED
    BY ONLY <1>4, <2>1
<1>5. CASE n \in {21, 17, 12}
  <2>1. SFromTheEnd[n].op = "read_mip"
    BY ONLY ZenonT(60), <1>5, SOpAt, OpFields
  <2> QED
    BY ONLY <1>5, <2>1
<1>6. CASE n = 10
  <2>1. SFromTheEnd[n].op = "mstatus"
    BY ONLY <1>6, SOpAt, OpFields
  <2> QED
    BY ONLY <1>6, <2>1
<1>7. CASE n = 5
  <2>1. SFromTheEnd[n].op = "mie"
    BY ONLY <1>7, SOpAt, OpFields
  <2> QED
    BY ONLY <1>7, <2>1
<1>8. CASE n \in {6, 2}
  <2>1. SFromTheEnd[n].op = "expect"
    BY ONLY <1>8, SOpAt, OpFields
  <2> QED
    BY ONLY <1>8, <2>1
<1>9. CASE n = 1
  <2>1. SFromTheEnd[n].op = "pass"
    BY ONLY <1>9, SOpAt, OpFields
  <2> QED
    BY ONLY <1>9, <2>1
<1>10. \/ n \in {24, 20, 16, 9}
       \/ n \in {23, 19, 15, 8, 4}
       \/ n \in {22, 18, 14, 7, 3}
       \/ n \in {25, 13, 11}
       \/ n \in {21, 17, 12}
       \/ n = 10
       \/ n = 5
       \/ n \in {6, 2}
       \/ n = 1
  OBVIOUS
<1> QED
  BY ONLY <1>10, <1>1, <1>2, <1>3, <1>4, <1>5, <1>6, <1>7, <1>8, <1>9

\* ... and where it has an operation of which kind
LEMMA MOpIsAt ==
  \A n \in 1 .. 9 :
   /\ MFromTheEnd[n].op = "line" => n = 8
   /\ MFromTheEnd[n].op = "reset_cnt" => n = 5
   /\ MFromTheEnd[n].op = "count" => n \in {7, 3}
   /\ MFromTheEnd[n].op \notin {"seip", "read_mip"}
   /\ MFromTheEnd[n].op = "mstatus" => n = 9
   /\ MFromTheEnd[n].op = "mie" => n = 4
   /\ MFromTheEnd[n].op = "expect" => n \in {6, 2}
   /\ MFromTheEnd[n].op = "pass" => n = 1
BY DEF MFromTheEnd, External!Pass, External!ExpectState, External!Count,
   External!ResetCnt, External!EnableExternal,
  External!Line, External!EnableTraps

\* Where m_external_interrupt.c has the operations with an argument
LEMMA MOpAt ==
  /\ MFromTheEnd[8] = External!Line(TRUE)
  /\ MFromTheEnd[6] = External!ExpectState(0)
  /\ MFromTheEnd[2] = External!ExpectState(1)
BY DEF MFromTheEnd

\* The next operation is the Todo-th from the end.
LEMMA HeadOp ==
  ASSUME ExternalTypes, prog # <<>>
  PROVE  Todo \in 1 .. ProgramLength /\ Head(prog) = FromTheEnd[Todo]
<1>1. prog \in Seq(Operations) /\ Todo \in Nat /\ Todo > 0 /\ Todo <= ProgramLength
  BY DEF ExternalTypes, Todo
<1>2. Todo \in 1 .. ProgramLength /\ Head(prog) = prog[1] /\ prog[1] = FromTheEnd[Todo]
  BY <1>1 DEF ExternalTypes, Todo, ProgramLength
<1> QED
  BY <1>2

\* What executing an operation leaves of the program
LEMMA PopOp ==
  ASSUME ExternalTypes, prog # <<>>, prog' = Tail(prog), test' = test
  PROVE  /\ Todo \in 1 .. ProgramLength /\ Head(prog) = FromTheEnd[Todo]
         /\ prog' \in Seq(Operations) /\ Todo' = Todo - 1 /\ Todo' <= ProgramLength'
         /\ \A k \in 1 .. Todo' : prog'[k] = FromTheEnd'[Todo' + 1 - k]
<1>1. prog \in Seq(Operations) /\ Todo \in Nat /\ Todo > 0 /\ Todo <= ProgramLength
  BY DEF ExternalTypes, Todo
<1>2. Todo \in 1 .. ProgramLength /\ Head(prog) = prog[1] /\ prog[1] = FromTheEnd[Todo]
  BY <1>1 DEF ExternalTypes, Todo, ProgramLength
<1>3. prog' \in Seq(Operations) /\ Todo' = Todo - 1
  BY <1>1 DEF Todo
<1>4. ASSUME NEW k \in 1 .. Todo' PROVE prog'[k] = FromTheEnd'[Todo' + 1 - k]
  <2>1. prog'[k] = prog[k + 1] /\ k + 1 \in 1 .. Todo
    BY <1>1, <1>3 DEF Todo
  <2>2. prog[k + 1] = FromTheEnd[Todo + 1 - (k + 1)]
    BY <2>1 DEF ExternalTypes
  <2>3. Todo + 1 - (k + 1) = Todo' + 1 - k
    BY <1>1, <1>3
  <2> QED
    BY <2>1, <2>2, <2>3 DEF FromTheEnd
<1>5. ProgramLength' = ProgramLength /\ Todo - 1 <= ProgramLength
  BY <1>1 DEF ProgramLength
<1> QED
  BY <1>2, <1>3, <1>4, <1>5

\* What is known when main executes an operation
LEMMA OpStep ==
  ASSUME ExternalInv, NEW op, External!Next1(op), finish = "none", test' = test
  PROVE  /\ Todo \in 1 .. 25 /\ Todo' = Todo - 1
         /\ prog' \in Seq(Operations) /\ Todo' <= ProgramLength'
         /\ \A k \in 1 .. Todo' : prog'[k] = FromTheEnd'[Todo' + 1 - k]
         /\ Head(prog).op = op
         /\ ~External!TrapTaken
         /\ test = "s_external" => Head(prog) = SFromTheEnd[Todo]
         /\ test # "s_external" => Head(prog) = MFromTheEnd[Todo] /\ Todo \in 1 .. 9
<1>1. prog # <<>> /\ prog' = Tail(prog) /\ Head(prog).op = op /\ ~External!TrapTaken
  BY DEF External!Next1
<1>2. /\ Todo \in 1 .. ProgramLength /\ Head(prog) = FromTheEnd[Todo]
      /\ prog' \in Seq(Operations) /\ Todo' = Todo - 1 /\ Todo' <= ProgramLength'
      /\ \A k \in 1 .. Todo' : prog'[k] = FromTheEnd'[Todo' + 1 - k]
  BY <1>1, PopOp DEF ExternalInv
<1>3. ProgramLength \in {9, 25} /\ (test # "s_external" => ProgramLength = 9)
  BY DEF ProgramLength
<1>4. Todo \in 1 .. 25
  BY ONLY <1>2, <1>3
<1> QED
  BY <1>1, <1>2, <1>3, <1>4 DEF FromTheEnd

\* The stores in flight
LEMMA PostedQueue ==
  ASSUME NEW q \in Seq(BOOLEAN), NEW b \in BOOLEAN
  PROVE  /\ Append(q, b) \in Seq(BOOLEAN) /\ Len(Append(q, b)) = Len(q) + 1
         /\ Len(q) = 0 => Append(q, b)[1] = b
         /\ Len(q) \in Nat
         /\ q = <<>> <=> Len(q) = 0
         /\ q # <<>> => /\ Tail(q) \in Seq(BOOLEAN) /\ Len(Tail(q)) = Len(q) - 1
                        /\ Head(q) \in BOOLEAN /\ Head(q) = q[1]
<1> DEFINE S == BOOLEAN
<1>1. b \in S /\ q \in Seq(S)
  OBVIOUS
<1> HIDE DEF S
<1>2. Append(q, b) \in Seq(S) /\ Len(Append(q, b)) = Len(q) + 1
      /\ Len(q) \in Nat /\ (q = <<>> <=> Len(q) = 0)
  BY <1>1
<1>5. Len(q) = 0 => Append(q, b)[1] = b
  BY <1>1
<1>3. q # <<>> => Tail(q) \in Seq(S) /\ Head(q) \in S /\ Len(Tail(q)) = Len(q) - 1
                  /\ Head(q) = q[1]
  BY <1>1
<1> QED
  BY <1>2, <1>3, <1>5 DEF S

\* What time does to them
LEMMA TickStep ==
  ASSUME ExternalInv, NEW q, External!Tick(q)
  PROVE  /\ finish = "none" /\ posted' = q
         /\ age' \in Nat /\ age' <= Latency
         /\ Len(posted) \in Nat
         /\ Len(posted) = 0 => age' = 0
         /\ Len(posted) # 0 => age < Latency /\ age' = age + 1
<1>1. Len(posted) \in Nat /\ (posted = <<>> <=> Len(posted) = 0)
  BY PostedQueue DEF ExternalInv, ExternalTypes
<1> QED
  BY <1>1, ExternalConstants DEF External!Tick, ExternalInv, ExternalTypes

\* A store to the PLIC leaves nothing else in flight before the first trap.
LEMMA SetLineStep ==
  ASSUME ExternalInv, External!SetLine, test' = test
  PROVE  ExternalInv'
<1> DEFINE b == Head(prog).on
<1>1. /\ External!Next1("line") /\ External!Tick(Append(posted, b))
      /\ UNCHANGED <<test, fault, state, cnt, trapping, mie, seip, line, finish>>
  BY DEF External!SetLine
<1>2. /\ finish = "none" /\ posted' = Append(posted, b)
      /\ age' \in Nat /\ age' <= Latency
  BY <1>1, TickStep
<1>3. /\ Todo \in 1 .. 25 /\ Todo' = Todo - 1 /\ Head(prog).op = "line"
      /\ prog' \in Seq(Operations) /\ Todo' <= ProgramLength'
      /\ \A k \in 1 .. Todo' : prog'[k] = FromTheEnd'[Todo' + 1 - k]
      /\ test = "s_external" => Head(prog) = SFromTheEnd[Todo]
      /\ test # "s_external" => Head(prog) = MFromTheEnd[Todo] /\ Todo \in 1 .. 9
  BY <1>1, <1>2, OpStep
<1>a. CASE test = "s_external"
  <2>1. SFromTheEnd[Todo].op = "line"
    BY <1>3, <1>a
  <2>2. Todo \in {24, 20, 16, 9}
    BY <2>1, <1>3, SOpIsAt
  <2>3. (Todo \in {24, 9} => b = TRUE) /\ (Todo \in {20, 16} => b = FALSE)
    <3>1. /\ (Todo \in {24, 9} => Head(prog) = External!Line(TRUE))
          /\ (Todo \in {20, 16} => Head(prog) = External!Line(FALSE))
      BY <1>3, <1>a, SOpAt
    <3> QED
      BY <3>1, OpFields
  <2>b. b \in BOOLEAN
    BY <2>2, <2>3
  <2> HIDE DEF b
  <2>5. /\ posted' \in Seq(BOOLEAN) /\ Len(posted) \in Nat
        /\ Len(posted') = Len(posted) + 1 /\ (Len(posted) = 0 => posted'[1] = b)
    BY <1>2, <2>b, PostedQueue DEF ExternalInv, ExternalTypes
  <2>6. ExternalTypes'
    BY <1>1, <1>2, <1>3, <2>2, <2>5 DEF ExternalInv, ExternalTypes
  <2>7. ExternalVerdict'
    BY <1>1, <1>2 DEF ExternalVerdict
  <2>8. FaultsFound' /\ TrapInv' /\ SeipInv'
    BY <1>1, <1>2, <1>3, <1>a, <2>2 DEF ExternalInv, FaultsFound, TrapInv, SeipInv
  <2>9. state = 0 => SLineInv'
    BY <1>1, <1>2, <1>3, <1>a, <2>2, <2>3, <2>5 DEF ExternalInv, SLineInv, Quiet, Flight
  <2> QED
    BY <1>1, <1>a, <2>6, <2>7, <2>8, <2>9 DEF ExternalInv
<1>b. CASE test # "s_external"
  <2>1. MFromTheEnd[Todo].op = "line"
    BY <1>3, <1>b
  <2>2. Todo = 8
    BY <2>1, <1>3, <1>b, MOpIsAt
  <2>3. b = TRUE
    BY <2>2, <1>3, <1>b, MOpAt, OpFields
  <2> HIDE DEF b
  <2>5. /\ posted' \in Seq(BOOLEAN) /\ Len(posted) \in Nat
        /\ Len(posted') = Len(posted) + 1 /\ (Len(posted) = 0 => posted'[1] = b)
    BY <1>2, <2>3, PostedQueue DEF ExternalInv, ExternalTypes
  <2>6. ExternalTypes'
    BY <1>1, <1>2, <1>3, <2>2, <2>5 DEF ExternalInv, ExternalTypes
  <2>7. ExternalVerdict'
    BY <1>1, <1>2 DEF ExternalVerdict
  <2>8. FaultsFound' /\ TrapInv' /\ SeipInv'
    BY <1>1, <1>2, <1>3, <1>b, <2>2 DEF ExternalInv, FaultsFound, TrapInv, SeipInv
  <2>9. state = 0 => MLineInv'
    BY <1>1, <1>2, <1>3, <1>b, <2>2, <2>3, <2>5 DEF ExternalInv, MLineInv, Quiet, Flight
  <2> QED
    BY <1>1, <1>b, <2>6, <2>7, <2>8, <2>9 DEF ExternalInv
<1> QED
  BY <1>a, <1>b

\* cnt = 0, before a delay
LEMMA ClearCntStep ==
  ASSUME ExternalInv, External!ClearCnt, test' = test, DelaysSuffice
  PROVE  ExternalInv'
<1>1. /\ External!Next1("reset_cnt") /\ External!Tick(posted)
      /\ UNCHANGED <<test, fault, state, trapping, mie, seip, line, finish>>
      /\ cnt' = 0
  BY DEF External!ClearCnt
<1>2. /\ finish = "none" /\ posted' = posted
      /\ age' \in Nat /\ age' <= Latency
      /\ Len(posted) \in Nat
      /\ Len(posted) = 0 => age' = 0
      /\ Len(posted) # 0 => age < Latency /\ age' = age + 1
  BY <1>1, TickStep
<1>3. /\ Todo \in 1 .. 25 /\ Todo' = Todo - 1 /\ Head(prog).op = "reset_cnt"
      /\ prog' \in Seq(Operations) /\ Todo' <= ProgramLength'
      /\ \A k \in 1 .. Todo' : prog'[k] = FromTheEnd'[Todo' + 1 - k]
      /\ ~External!TrapTaken
      /\ test = "s_external" => Head(prog) = SFromTheEnd[Todo]
      /\ test # "s_external" => Head(prog) = MFromTheEnd[Todo] /\ Todo \in 1 .. 9
  BY <1>1, <1>2, OpStep
<1>4. Latency \in Nat /\ CountTo \in Nat /\ Latency <= CountTo + 1
  BY ExternalConstants DEF DelaysSuffice
<1>5. /\ ExternalTypes /\ FaultsFound /\ TrapInv /\ SeipInv
      /\ state = 0 => IF test = "s_external" THEN SLineInv ELSE MLineInv
  BY <1>2 DEF ExternalInv
<1>6. /\ state \in {0, 1} /\ cnt \in Nat /\ cnt <= CountTo /\ age \in Nat
      /\ fault \in External!HartFaults
  BY <1>4, <1>5 DEF ExternalTypes
<1>7. Todo \in 1 .. 25 /\ Todo' = Todo - 1 /\ ~External!TrapTaken
  BY <1>3
<1>a. CASE test = "s_external"
  <2>1. SFromTheEnd[Todo].op = "reset_cnt"
    BY <1>3, <1>a
  <2>2. Todo \in {23, 19, 15, 8, 4}
    BY <2>1, <1>3, <1>a, SOpIsAt
  <2>3. state \in {0, 1} /\ (state' = 0 => state = 0)
    BY <1>1, <1>2, <1>3, <1>4, <1>5, <1>6, <1>a, <2>2 DEF TrapInv
  <2>6. ExternalTypes'
    BY <1>1, <1>2, <1>3, <1>4, <1>5, <1>6, <1>a, <2>2 DEF ExternalTypes
  <2>7. ExternalVerdict'
    BY <1>1, <1>2, <1>7, <1>4, <1>5, <1>6, <1>a, <2>2, <2>3 DEF ExternalVerdict
  <2>8. finish' = "none" => FaultsFound' /\ TrapInv' /\ SeipInv'
    BY <1>1, <1>2, <1>7, <1>4, <1>5, <1>6, <1>a, <2>2, <2>3
    DEF FaultsFound, TrapInv, SeipInv, External!TrapTaken, SLineInv, MLineInv, Quiet,
        Flight
  <2>9. finish' = "none" /\ state' = 0 => SLineInv'
    <3>23. CASE Todo = 23
      BY <1>1, <1>2, <1>7, <1>4, <1>5, <1>6, <1>a, <2>2, <2>3, <3>23
      DEF SLineInv, MLineInv, Quiet, Flight
    <3>19. CASE Todo = 19
      BY <1>1, <1>2, <1>7, <1>4, <1>5, <1>6, <1>a, <2>2, <2>3, <3>19
      DEF SLineInv, MLineInv, Quiet, Flight
    <3>15. CASE Todo = 15
      BY <1>1, <1>2, <1>7, <1>4, <1>5, <1>6, <1>a, <2>2, <2>3, <3>15
      DEF SLineInv, MLineInv, Quiet, Flight
    <3>8. CASE Todo = 8
      BY <1>1, <1>2, <1>7, <1>4, <1>5, <1>6, <1>a, <2>2, <2>3, <3>8
      DEF SLineInv, MLineInv, Quiet, Flight
    <3>4. CASE Todo = 4
      BY <1>1, <1>2, <1>7, <1>4, <1>5, <1>6, <1>a, <2>2, <2>3, <3>4
      DEF SLineInv, MLineInv, Quiet, Flight
    <3> QED
      BY <2>2, <3>23, <3>19, <3>15, <3>8, <3>4
  <2> QED
    BY <1>1, <1>a, <2>3, <2>6, <2>7, <2>8, <2>9 DEF ExternalInv
<1>b. CASE test # "s_external"
  <2>1. MFromTheEnd[Todo].op = "reset_cnt"
    BY <1>3, <1>b
  <2>2. Todo = 5
    BY <2>1, <1>3, <1>b, MOpIsAt
  <2>3. state \in {0, 1} /\ (state' = 0 => state = 0)
    BY <1>1, <1>2, <1>3, <1>4, <1>5, <1>6, <1>b, <2>2 DEF TrapInv
  <2>6. ExternalTypes'
    BY <1>1, <1>2, <1>3, <1>4, <1>5, <1>6, <1>b, <2>2 DEF ExternalTypes
  <2>7. ExternalVerdict'
    BY <1>1, <1>2, <1>7, <1>4, <1>5, <1>6, <1>b, <2>2, <2>3 DEF ExternalVerdict
  <2>8. finish' = "none" => FaultsFound' /\ TrapInv' /\ SeipInv'
    BY <1>1, <1>2, <1>7, <1>4, <1>5, <1>6, <1>b, <2>2, <2>3
    DEF FaultsFound, TrapInv, SeipInv, External!TrapTaken, SLineInv, MLineInv, Quiet, Flight
  <2>9. finish' = "none" /\ state' = 0 => MLineInv'
    BY <1>1, <1>2, <1>7, <1>4, <1>5, <1>6, <1>b, <2>2, <2>3
    DEF SLineInv, MLineInv, Quiet, Flight
  <2> QED
    BY <1>1, <1>b, <2>3, <2>6, <2>7, <2>8, <2>9 DEF ExternalInv
<1> QED
  BY <1>a, <1>b

\* mtvec, mstatus and state = 0, while the line is down
LEMMA SetUpTrapStep ==
  ASSUME ExternalInv, External!SetUpTrap, test' = test, DelaysSuffice
  PROVE  ExternalInv'
<1>1. /\ External!Next1("mstatus") /\ External!Tick(posted)
      /\ UNCHANGED <<test, fault, cnt, mie, seip, line, finish>>
      /\ trapping' = TRUE /\ state' = 0
  BY DEF External!SetUpTrap
<1>2. /\ finish = "none" /\ posted' = posted
      /\ age' \in Nat /\ age' <= Latency
      /\ Len(posted) \in Nat
      /\ Len(posted) = 0 => age' = 0
      /\ Len(posted) # 0 => age < Latency /\ age' = age + 1
  BY <1>1, TickStep
<1>3. /\ Todo \in 1 .. 25 /\ Todo' = Todo - 1 /\ Head(prog).op = "mstatus"
      /\ prog' \in Seq(Operations) /\ Todo' <= ProgramLength'
      /\ \A k \in 1 .. Todo' : prog'[k] = FromTheEnd'[Todo' + 1 - k]
      /\ ~External!TrapTaken
      /\ test = "s_external" => Head(prog) = SFromTheEnd[Todo]
      /\ test # "s_external" => Head(prog) = MFromTheEnd[Todo] /\ Todo \in 1 .. 9
  BY <1>1, <1>2, OpStep
<1>4. Latency \in Nat /\ CountTo \in Nat /\ Latency <= CountTo + 1
  BY ExternalConstants DEF DelaysSuffice
<1>5. /\ ExternalTypes /\ FaultsFound /\ TrapInv /\ SeipInv
      /\ state = 0 => IF test = "s_external" THEN SLineInv ELSE MLineInv
  BY <1>2 DEF ExternalInv
<1>6. /\ state \in {0, 1} /\ cnt \in Nat /\ cnt <= CountTo /\ age \in Nat
      /\ fault \in External!HartFaults
  BY <1>4, <1>5 DEF ExternalTypes
<1>7. Todo \in 1 .. 25 /\ Todo' = Todo - 1 /\ ~External!TrapTaken
  BY <1>3
<1>a. CASE test = "s_external"
  <2>1. SFromTheEnd[Todo].op = "mstatus"
    BY <1>3, <1>a
  <2>2. Todo = 10
    BY <2>1, <1>3, <1>a, SOpIsAt
  <2>3. state \in {0, 1} /\ (state' = 0 => state = 0)
    BY <1>1, <1>2, <1>3, <1>4, <1>5, <1>6, <1>a, <2>2 DEF TrapInv
  <2>6. ExternalTypes'
    BY <1>1, <1>2, <1>3, <1>4, <1>5, <1>6, <1>a, <2>2 DEF ExternalTypes
  <2>7. ExternalVerdict'
    BY <1>1, <1>2, <1>7, <1>4, <1>5, <1>6, <1>a, <2>2, <2>3 DEF ExternalVerdict
  <2>8. finish' = "none" => FaultsFound' /\ TrapInv' /\ SeipInv'
    BY <1>1, <1>2, <1>7, <1>4, <1>5, <1>6, <1>a, <2>2, <2>3
    DEF FaultsFound, TrapInv, SeipInv, External!TrapTaken, External!MipRead, SLineInv,
        MLineInv, Quiet, Flight
  <2>9. finish' = "none" /\ state' = 0 => SLineInv'
    BY <1>1, <1>2, <1>7, <1>4, <1>5, <1>6, <1>a, <2>2, <2>3
    DEF SLineInv, MLineInv, Quiet, Flight
  <2> QED
    BY <1>1, <1>a, <2>3, <2>6, <2>7, <2>8, <2>9 DEF ExternalInv
<1>b. CASE test # "s_external"
  <2>1. MFromTheEnd[Todo].op = "mstatus"
    BY <1>3, <1>b
  <2>2. Todo = 9
    BY <2>1, <1>3, <1>b, MOpIsAt
  <2>3. state \in {0, 1} /\ (state' = 0 => state = 0)
    BY <1>1, <1>2, <1>3, <1>4, <1>5, <1>6, <1>b, <2>2 DEF TrapInv
  <2>6. ExternalTypes'
    BY <1>1, <1>2, <1>3, <1>4, <1>5, <1>6, <1>b, <2>2 DEF ExternalTypes
  <2>7. ExternalVerdict'
    BY <1>1, <1>2, <1>7, <1>4, <1>5, <1>6, <1>b, <2>2, <2>3 DEF ExternalVerdict
  <2>8. finish' = "none" => FaultsFound' /\ TrapInv' /\ SeipInv'
    BY <1>1, <1>2, <1>7, <1>4, <1>5, <1>6, <1>b, <2>2, <2>3
    DEF FaultsFound, TrapInv, SeipInv, External!TrapTaken, External!MipRead, SLineInv,
        MLineInv, Quiet, Flight
  <2>9. finish' = "none" /\ state' = 0 => MLineInv'
    BY <1>1, <1>2, <1>7, <1>4, <1>5, <1>6, <1>b, <2>2, <2>3
    DEF SLineInv, MLineInv, Quiet, Flight
  <2> QED
    BY <1>1, <1>b, <2>3, <2>6, <2>7, <2>8, <2>9 DEF ExternalInv
<1> QED
  BY <1>a, <1>b

\* The interrupt is enabled while the line is up.
LEMMA SetMieStep ==
  ASSUME ExternalInv, External!SetMie, test' = test, DelaysSuffice
  PROVE  ExternalInv'
<1>1. /\ External!Next1("mie") /\ External!Tick(posted)
      /\ UNCHANGED <<test, fault, state, cnt, trapping, seip, line, finish>>
      /\ mie' = TRUE
  BY DEF External!SetMie
<1>2. /\ finish = "none" /\ posted' = posted
      /\ age' \in Nat /\ age' <= Latency
      /\ Len(posted) \in Nat
      /\ Len(posted) = 0 => age' = 0
      /\ Len(posted) # 0 => age < Latency /\ age' = age + 1
  BY <1>1, TickStep
<1>3. /\ Todo \in 1 .. 25 /\ Todo' = Todo - 1 /\ Head(prog).op = "mie"
      /\ prog' \in Seq(Operations) /\ Todo' <= ProgramLength'
      /\ \A k \in 1 .. Todo' : prog'[k] = FromTheEnd'[Todo' + 1 - k]
      /\ ~External!TrapTaken
      /\ test = "s_external" => Head(prog) = SFromTheEnd[Todo]
      /\ test # "s_external" => Head(prog) = MFromTheEnd[Todo] /\ Todo \in 1 .. 9
  BY <1>1, <1>2, OpStep
<1>4. Latency \in Nat /\ CountTo \in Nat /\ Latency <= CountTo + 1
  BY ExternalConstants DEF DelaysSuffice
<1>5. /\ ExternalTypes /\ FaultsFound /\ TrapInv /\ SeipInv
      /\ state = 0 => IF test = "s_external" THEN SLineInv ELSE MLineInv
  BY <1>2 DEF ExternalInv
<1>6. /\ state \in {0, 1} /\ cnt \in Nat /\ cnt <= CountTo /\ age \in Nat
      /\ fault \in External!HartFaults
  BY <1>4, <1>5 DEF ExternalTypes
<1>7. Todo \in 1 .. 25 /\ Todo' = Todo - 1 /\ ~External!TrapTaken
  BY <1>3
<1>a. CASE test = "s_external"
  <2>1. SFromTheEnd[Todo].op = "mie"
    BY <1>3, <1>a
  <2>2. Todo = 5
    BY <2>1, <1>3, <1>a, SOpIsAt
  <2>3. state \in {0, 1} /\ (state' = 0 => state = 0)
    BY <1>1, <1>2, <1>3, <1>4, <1>5, <1>6, <1>a, <2>2 DEF TrapInv
  <2>6. ExternalTypes'
    BY <1>1, <1>2, <1>3, <1>4, <1>5, <1>6, <1>a, <2>2 DEF ExternalTypes
  <2>7. ExternalVerdict'
    BY <1>1, <1>2, <1>7, <1>4, <1>5, <1>6, <1>a, <2>2, <2>3 DEF ExternalVerdict
  <2>8. finish' = "none" => FaultsFound' /\ TrapInv' /\ SeipInv'
    BY <1>1, <1>2, <1>7, <1>4, <1>5, <1>6, <1>a, <2>2, <2>3
    DEF FaultsFound, TrapInv, SeipInv, External!TrapTaken, External!MipRead, SLineInv,
        MLineInv, Quiet, Flight
  <2>9. finish' = "none" /\ state' = 0 => SLineInv'
    BY <1>1, <1>2, <1>7, <1>4, <1>5, <1>6, <1>a, <2>2, <2>3
    DEF SLineInv, MLineInv, Quiet, Flight
  <2> QED
    BY <1>1, <1>a, <2>3, <2>6, <2>7, <2>8, <2>9 DEF ExternalInv
<1>b. CASE test # "s_external"
  <2>1. MFromTheEnd[Todo].op = "mie"
    BY <1>3, <1>b
  <2>2. Todo = 4
    BY <2>1, <1>3, <1>b, MOpIsAt
  <2>3. state \in {0, 1} /\ (state' = 0 => state = 0)
    BY <1>1, <1>2, <1>3, <1>4, <1>5, <1>6, <1>b, <2>2 DEF TrapInv
  <2>6. ExternalTypes'
    BY <1>1, <1>2, <1>3, <1>4, <1>5, <1>6, <1>b, <2>2 DEF ExternalTypes
  <2>7. ExternalVerdict'
    BY <1>1, <1>2, <1>7, <1>4, <1>5, <1>6, <1>b, <2>2, <2>3 DEF ExternalVerdict
  <2>8. finish' = "none" => FaultsFound' /\ TrapInv' /\ SeipInv'
    BY <1>1, <1>2, <1>7, <1>4, <1>5, <1>6, <1>b, <2>2, <2>3
    DEF FaultsFound, TrapInv, SeipInv, External!TrapTaken, External!MipRead, SLineInv,
        MLineInv, Quiet, Flight
  <2>9. finish' = "none" /\ state' = 0 => MLineInv'
    BY <1>1, <1>2, <1>7, <1>4, <1>5, <1>6, <1>b, <2>2, <2>3
    DEF SLineInv, MLineInv, Quiet, Flight
  <2> QED
    BY <1>1, <1>b, <2>3, <2>6, <2>7, <2>8, <2>9 DEF ExternalInv
<1> QED
  BY <1>a, <1>b

\* Software sets or clears its bit of mip.
LEMMA WriteSeipStep ==
  ASSUME ExternalInv, External!WriteSeip, test' = test, DelaysSuffice
  PROVE  ExternalInv'
<1>1. /\ External!Next1("seip") /\ External!Tick(posted)
      /\ UNCHANGED <<test, fault, state, cnt, trapping, mie, line, finish>>
      /\ seip' = (Head(prog).on /\ fault # "seip_readonly")
  BY DEF External!WriteSeip
<1>2. /\ finish = "none" /\ posted' = posted
      /\ age' \in Nat /\ age' <= Latency
      /\ Len(posted) \in Nat
      /\ Len(posted) = 0 => age' = 0
      /\ Len(posted) # 0 => age < Latency /\ age' = age + 1
  BY <1>1, TickStep
<1>3. /\ Todo \in 1 .. 25 /\ Todo' = Todo - 1 /\ Head(prog).op = "seip"
      /\ prog' \in Seq(Operations) /\ Todo' <= ProgramLength'
      /\ \A k \in 1 .. Todo' : prog'[k] = FromTheEnd'[Todo' + 1 - k]
      /\ ~External!TrapTaken
      /\ test = "s_external" => Head(prog) = SFromTheEnd[Todo]
      /\ test # "s_external" => Head(prog) = MFromTheEnd[Todo] /\ Todo \in 1 .. 9
  BY <1>1, <1>2, OpStep
<1>4. Latency \in Nat /\ CountTo \in Nat /\ Latency <= CountTo + 1
  BY ExternalConstants DEF DelaysSuffice
<1>5. /\ ExternalTypes /\ FaultsFound /\ TrapInv /\ SeipInv
      /\ state = 0 => IF test = "s_external" THEN SLineInv ELSE MLineInv
  BY <1>2 DEF ExternalInv
<1>6. /\ state \in {0, 1} /\ cnt \in Nat /\ cnt <= CountTo /\ age \in Nat
      /\ fault \in External!HartFaults
  BY <1>4, <1>5 DEF ExternalTypes
<1>7. Todo \in 1 .. 25 /\ Todo' = Todo - 1 /\ ~External!TrapTaken
  BY <1>3
<1>a. CASE test = "s_external"
  <2>1. SFromTheEnd[Todo].op = "seip"
    BY <1>3, <1>a
  <2>2. Todo \in {25, 13, 11}
    BY <2>1, <1>3, <1>a, SOpIsAt
  <2>4. (Todo = 13 => Head(prog).on = TRUE) /\ (Todo \in {25, 11} => Head(prog).on = FALSE)
    <3>1. /\ (Todo = 13 => Head(prog) = External!Seip(TRUE))
          /\ (Todo \in {25, 11} => Head(prog) = External!Seip(FALSE))
      BY <1>3, <1>a, SOpAt
    <3> QED
      BY <3>1, OpFields
  <2>12. UNCHANGED <<test, fault, state, cnt, trapping, mie, line, finish>>
    BY <1>1
  <2>5. /\ Todo = 13 => (seip' <=> fault # "seip_readonly")
        /\ Todo \in {25, 11} => ~seip'
        /\ seip' \in BOOLEAN
    BY <1>1, <2>4, <2>2
  <2>3. state \in {0, 1} /\ (state' = 0 => state = 0)
    BY <2>12, <1>2, <1>3, <1>4, <1>5, <1>6, <1>a, <2>2, <2>5 DEF TrapInv
  <2>6. ExternalTypes'
    BY <2>12, <1>2, <1>3, <1>4, <1>5, <1>6, <1>a, <2>2, <2>5 DEF ExternalTypes
  <2>7. ExternalVerdict'
    <3>25. CASE Todo = 25
      BY <2>12, <1>2, <1>7, <1>4, <1>5, <1>6, <1>a, <2>2, <2>5, <2>3, <3>25
      DEF ExternalVerdict
    <3>13. CASE Todo = 13
      BY <2>12, <1>2, <1>7, <1>4, <1>5, <1>6, <1>a, <2>2, <2>5, <2>3, <3>13
      DEF ExternalVerdict
    <3>11. CASE Todo = 11
      BY <2>12, <1>2, <1>7, <1>4, <1>5, <1>6, <1>a, <2>2, <2>5, <2>3, <3>11
      DEF ExternalVerdict
    <3> QED
      BY <2>2, <3>25, <3>13, <3>11
  <2>8. finish' = "none" => FaultsFound' /\ TrapInv' /\ SeipInv'
    <3>25. CASE Todo = 25
      BY <2>12, <1>2, <1>7, <1>4, <1>5, <1>6, <1>a, <2>2, <2>5, <2>3, <3>25
      DEF FaultsFound, TrapInv, SeipInv
    <3>13. CASE Todo = 13
      BY <2>12, <1>2, <1>7, <1>4, <1>5, <1>6, <1>a, <2>2, <2>5, <2>3, <3>13
      DEF FaultsFound, TrapInv, SeipInv
    <3>11. CASE Todo = 11
      BY <2>12, <1>2, <1>7, <1>4, <1>5, <1>6, <1>a, <2>2, <2>5, <2>3, <3>11
      DEF FaultsFound, TrapInv, SeipInv
    <3> QED
      BY <2>2, <3>25, <3>13, <3>11
  <2>9. finish' = "none" /\ state' = 0 => SLineInv'
    <3>25. CASE Todo = 25
      BY <2>12, <1>2, <1>7, <1>4, <1>5, <1>6, <1>a, <2>2, <2>5, <2>3, <3>25
      DEF SLineInv, MLineInv, Quiet, Flight
    <3>13. CASE Todo = 13
      BY <2>12, <1>2, <1>7, <1>4, <1>5, <1>6, <1>a, <2>2, <2>5, <2>3, <3>13
      DEF SLineInv, MLineInv, Quiet, Flight
    <3>11. CASE Todo = 11
      BY <2>12, <1>2, <1>7, <1>4, <1>5, <1>6, <1>a, <2>2, <2>5, <2>3, <3>11
      DEF SLineInv, MLineInv, Quiet, Flight
    <3> QED
      BY <2>2, <3>25, <3>13, <3>11
  <2> QED
    BY <1>1, <1>a, <2>3, <2>6, <2>7, <2>8, <2>9 DEF ExternalInv
<1>b. CASE test # "s_external"
  <2>1. MFromTheEnd[Todo].op = "seip"
    BY <1>3, <1>b
  <2> QED
    BY <2>1, <1>3, <1>b, MOpIsAt
<1> QED
  BY <1>a, <1>b

\* Each read of mip finds one fault, and only a hart that has it.
LEMMA ReadPendingStep ==
  ASSUME ExternalInv, External!ReadPending, test' = test, DelaysSuffice
  PROVE  ExternalInv'
<1>1. /\ External!Next1("read_mip") /\ External!Tick(posted)
      /\ UNCHANGED <<test, fault, state, cnt, trapping, mie, line>>
      /\ finish' = IF External!MipRead = Head(prog).expect THEN finish ELSE "fail"
      /\ seip' = IF Head(prog).rmw /\ fault = "rmw_latches" THEN External!MipRead ELSE seip
  BY DEF External!ReadPending
<1>2. /\ finish = "none" /\ posted' = posted
      /\ age' \in Nat /\ age' <= Latency
      /\ Len(posted) \in Nat
      /\ Len(posted) = 0 => age' = 0
      /\ Len(posted) # 0 => age < Latency /\ age' = age + 1
  BY <1>1, TickStep
<1>3. /\ Todo \in 1 .. 25 /\ Todo' = Todo - 1 /\ Head(prog).op = "read_mip"
      /\ prog' \in Seq(Operations) /\ Todo' <= ProgramLength'
      /\ \A k \in 1 .. Todo' : prog'[k] = FromTheEnd'[Todo' + 1 - k]
      /\ ~External!TrapTaken
      /\ test = "s_external" => Head(prog) = SFromTheEnd[Todo]
      /\ test # "s_external" => Head(prog) = MFromTheEnd[Todo] /\ Todo \in 1 .. 9
  BY <1>1, <1>2, OpStep
<1>4. Latency \in Nat /\ CountTo \in Nat /\ Latency <= CountTo + 1
  BY ExternalConstants DEF DelaysSuffice
<1>5. /\ ExternalTypes /\ FaultsFound /\ TrapInv /\ SeipInv
      /\ state = 0 => IF test = "s_external" THEN SLineInv ELSE MLineInv
  BY <1>2 DEF ExternalInv
<1>6. /\ state \in {0, 1} /\ cnt \in Nat /\ cnt <= CountTo /\ age \in Nat
      /\ fault \in External!HartFaults
  BY <1>4, <1>5 DEF ExternalTypes
<1>7. Todo \in 1 .. 25 /\ Todo' = Todo - 1 /\ ~External!TrapTaken
  BY <1>3
<1>a. CASE test = "s_external"
  <2>1. SFromTheEnd[Todo].op = "read_mip"
    BY <1>3, <1>a
  <2>2. Todo \in {21, 17, 12}
    BY <2>1, <1>3, <1>a, SOpIsAt
  <2>4. /\ Todo \in {21, 12} => Head(prog).expect = TRUE
        /\ Todo = 17 => Head(prog).expect = FALSE
        /\ Todo = 21 => Head(prog).rmw = TRUE
        /\ Todo \in {17, 12} => Head(prog).rmw = FALSE
    <3>1. /\ Todo = 21 => Head(prog) = External!ModifyMip(TRUE)
          /\ Todo = 12 => Head(prog) = External!ReadMip(TRUE)
          /\ Todo = 17 => Head(prog) = External!ReadMip(FALSE)
      BY <1>3, <1>a, SOpAt
    <3> QED
      BY <3>1, OpFields
  <2>12. UNCHANGED <<test, fault, state, cnt, trapping, mie, line>>
    BY <1>1
  <2>10. External!MipRead <=> (seip \/ (line /\ fault # "line_hidden"))
    BY DEF External!MipRead
  <2>11. External!MipRead \in BOOLEAN
    BY DEF External!MipRead, ExternalTypes
  <2>5. /\ Todo \in {21, 12} => finish' = IF External!MipRead THEN "none" ELSE "fail"
        /\ Todo = 17 => finish' = IF External!MipRead THEN "fail" ELSE "none"
        /\ Todo = 21 /\ fault = "rmw_latches" => (seip' <=> External!MipRead)
        /\ Todo # 21 \/ fault # "rmw_latches" => seip' = seip
        /\ seip' \in BOOLEAN
    BY <1>1, <1>2, <1>5, <2>2, <2>4, <2>11 DEF ExternalTypes
  <2>3. state \in {0, 1} /\ (state' = 0 => state = 0)
    BY <2>12, <1>2, <1>3, <1>4, <1>5, <1>6, <1>a, <2>2, <2>5 DEF TrapInv
  <2>6. ExternalTypes'
    BY <2>12, <1>2, <1>3, <1>4, <1>5, <1>6, <1>a, <2>2, <2>5 DEF ExternalTypes
  <2>7. ExternalVerdict'
    <3>21. CASE Todo = 21
      BY <2>12, <1>2, <1>7, <1>4, <1>5, <1>6, <1>a, <2>2, <2>5, <2>10, <2>3, <3>21
      DEF ExternalVerdict, External!Visible, External!HartFaults, FaultsFound, TrapInv,
          SeipInv, External!MipRead, SLineInv, MLineInv, Quiet, Flight
    <3>17. CASE Todo = 17
      BY <2>12, <1>2, <1>7, <1>4, <1>5, <1>6, <1>a, <2>2, <2>5, <2>10, <2>3, <3>17
      DEF ExternalVerdict, External!Visible, External!HartFaults, FaultsFound, TrapInv,
          SeipInv, External!MipRead, SLineInv, MLineInv, Quiet, Flight
    <3>12. CASE Todo = 12
      BY <2>12, <1>2, <1>7, <1>4, <1>5, <1>6, <1>a, <2>2, <2>5, <2>10, <2>3, <3>12
      DEF ExternalVerdict, External!Visible, External!HartFaults, FaultsFound, TrapInv,
          SeipInv, External!MipRead, SLineInv, MLineInv, Quiet, Flight
    <3> QED
      BY <2>2, <3>21, <3>17, <3>12
  <2>8. finish' = "none" => FaultsFound' /\ TrapInv' /\ SeipInv'
    <3>21. CASE Todo = 21
      BY <2>12, <1>2, <1>7, <1>4, <1>5, <1>6, <1>a, <2>2, <2>5, <2>10, <2>3, <3>21
      DEF FaultsFound, TrapInv, SeipInv, External!TrapTaken, External!MipRead, SLineInv,
          MLineInv, Quiet, Flight
    <3>17. CASE Todo = 17
      BY <2>12, <1>2, <1>7, <1>4, <1>5, <1>6, <1>a, <2>2, <2>5, <2>10, <2>3, <3>17
      DEF FaultsFound, TrapInv, SeipInv, External!TrapTaken, External!MipRead, SLineInv,
          MLineInv, Quiet, Flight
    <3>12. CASE Todo = 12
      BY <2>12, <1>2, <1>7, <1>4, <1>5, <1>6, <1>a, <2>2, <2>5, <2>10, <2>3, <3>12
      DEF FaultsFound, TrapInv, SeipInv, External!TrapTaken, External!MipRead, SLineInv,
          MLineInv, Quiet, Flight
    <3> QED
      BY <2>2, <3>21, <3>17, <3>12
  <2>9. finish' = "none" /\ state' = 0 => SLineInv'
    <3>21. CASE Todo = 21
      BY <2>12, <1>2, <1>7, <1>4, <1>5, <1>6, <1>a, <2>2, <2>5, <2>10, <2>3, <3>21
      DEF SLineInv, MLineInv, Quiet, Flight
    <3>17. CASE Todo = 17
      BY <2>12, <1>2, <1>7, <1>4, <1>5, <1>6, <1>a, <2>2, <2>5, <2>10, <2>3, <3>17
      DEF SLineInv, MLineInv, Quiet, Flight
    <3>12. CASE Todo = 12
      BY <2>12, <1>2, <1>7, <1>4, <1>5, <1>6, <1>a, <2>2, <2>5, <2>10, <2>3, <3>12
      DEF SLineInv, MLineInv, Quiet, Flight
    <3> QED
      BY <2>2, <3>21, <3>17, <3>12
  <2> QED
    BY <1>1, <1>a, <2>3, <2>6, <2>7, <2>8, <2>9 DEF ExternalInv
<1>b. CASE test # "s_external"
  <2>1. MFromTheEnd[Todo].op = "read_mip"
    BY <1>3, <1>b
  <2> QED
    BY <2>1, <1>3, <1>b, MOpIsAt
<1> QED
  BY <1>a, <1>b

\* state is 1 exactly when the handler has run.
LEMMA CheckStateStep ==
  ASSUME ExternalInv, External!CheckState, test' = test, DelaysSuffice
  PROVE  ExternalInv'
<1>1. /\ External!Next1("expect") /\ External!Tick(posted)
      /\ UNCHANGED <<test, fault, state, cnt, trapping, mie, seip, line>>
      /\ finish' = IF state = Head(prog).state THEN finish ELSE "fail"
  BY DEF External!CheckState
<1>2. /\ finish = "none" /\ posted' = posted
      /\ age' \in Nat /\ age' <= Latency
      /\ Len(posted) \in Nat
      /\ Len(posted) = 0 => age' = 0
      /\ Len(posted) # 0 => age < Latency /\ age' = age + 1
  BY <1>1, TickStep
<1>3. /\ Todo \in 1 .. 25 /\ Todo' = Todo - 1 /\ Head(prog).op = "expect"
      /\ prog' \in Seq(Operations) /\ Todo' <= ProgramLength'
      /\ \A k \in 1 .. Todo' : prog'[k] = FromTheEnd'[Todo' + 1 - k]
      /\ ~External!TrapTaken
      /\ test = "s_external" => Head(prog) = SFromTheEnd[Todo]
      /\ test # "s_external" => Head(prog) = MFromTheEnd[Todo] /\ Todo \in 1 .. 9
  BY <1>1, <1>2, OpStep
<1>4. Latency \in Nat /\ CountTo \in Nat /\ Latency <= CountTo + 1
  BY ExternalConstants DEF DelaysSuffice
<1>5. /\ ExternalTypes /\ FaultsFound /\ TrapInv /\ SeipInv
      /\ state = 0 => IF test = "s_external" THEN SLineInv ELSE MLineInv
  BY <1>2 DEF ExternalInv
<1>6. /\ state \in {0, 1} /\ cnt \in Nat /\ cnt <= CountTo /\ age \in Nat
      /\ fault \in External!HartFaults
  BY <1>4, <1>5 DEF ExternalTypes
<1>7. Todo \in 1 .. 25 /\ Todo' = Todo - 1 /\ ~External!TrapTaken
  BY <1>3
<1>a. CASE test = "s_external"
  <2>1. SFromTheEnd[Todo].op = "expect"
    BY <1>3, <1>a
  <2>2. Todo \in {6, 2}
    BY <2>1, <1>3, <1>a, SOpIsAt
  <2>4. (Todo = 6 => Head(prog).state = 0) /\ (Todo = 2 => Head(prog).state = 1)
    <3>1. /\ (Todo = 6 => Head(prog) = External!ExpectState(0))
          /\ (Todo = 2 => Head(prog) = External!ExpectState(1))
      BY <1>3, <1>a, SOpAt
    <3> QED
      BY <3>1, OpFields
  <2>3. state \in {0, 1} /\ (state' = 0 => state = 0)
    BY <1>1, <1>2, <1>3, <1>4, <1>5, <1>6, <1>a, <2>2, <2>4 DEF TrapInv
  <2>6. ExternalTypes'
    BY <1>1, <1>2, <1>3, <1>4, <1>5, <1>6, <1>a, <2>2, <2>4 DEF ExternalTypes
  <2>7. ExternalVerdict'
    <3>6. CASE Todo = 6
      BY <1>1, <1>2, <1>7, <1>4, <1>5, <1>6, <1>a, <2>2, <2>4, <2>3, <3>6
      DEF ExternalVerdict, External!Visible, External!HartFaults, FaultsFound, TrapInv
    <3>2. CASE Todo = 2
      BY <1>1, <1>2, <1>7, <1>4, <1>5, <1>6, <1>a, <2>2, <2>4, <2>3, <3>2
      DEF ExternalVerdict, External!Visible, External!HartFaults, FaultsFound, TrapInv
    <3> QED
      BY <2>2, <3>6, <3>2
  <2>8. finish' = "none" => FaultsFound' /\ TrapInv' /\ SeipInv'
    <3>6. CASE Todo = 6
      BY <1>1, <1>2, <1>7, <1>4, <1>5, <1>6, <1>a, <2>2, <2>4, <2>3, <3>6
      DEF FaultsFound, TrapInv, SeipInv, External!TrapTaken, External!MipRead, SLineInv,
          MLineInv, Quiet, Flight
    <3>2. CASE Todo = 2
      BY <1>1, <1>2, <1>7, <1>4, <1>5, <1>6, <1>a, <2>2, <2>4, <2>3, <3>2
      DEF FaultsFound, TrapInv, SeipInv, External!TrapTaken, External!MipRead, SLineInv,
          MLineInv, Quiet, Flight
    <3> QED
      BY <2>2, <3>6, <3>2
  <2>9. finish' = "none" /\ state' = 0 => SLineInv'
    <3>6. CASE Todo = 6
      BY <1>1, <1>2, <1>7, <1>4, <1>5, <1>6, <1>a, <2>2, <2>4, <2>3, <3>6
      DEF SLineInv, MLineInv, Quiet, Flight
    <3>2. CASE Todo = 2
      BY <1>1, <1>2, <1>7, <1>4, <1>5, <1>6, <1>a, <2>2, <2>4, <2>3, <3>2
      DEF SLineInv, MLineInv, Quiet, Flight
    <3> QED
      BY <2>2, <3>6, <3>2
  <2> QED
    BY <1>1, <1>a, <2>3, <2>6, <2>7, <2>8, <2>9 DEF ExternalInv
<1>b. CASE test # "s_external"
  <2>1. MFromTheEnd[Todo].op = "expect"
    BY <1>3, <1>b
  <2>2. Todo \in {6, 2}
    BY <2>1, <1>3, <1>b, MOpIsAt
  <2>4. (Todo = 6 => Head(prog).state = 0) /\ (Todo = 2 => Head(prog).state = 1)
    <3>1. /\ (Todo = 6 => Head(prog) = External!ExpectState(0))
          /\ (Todo = 2 => Head(prog) = External!ExpectState(1))
      BY <1>3, <1>b, MOpAt
    <3> QED
      BY <3>1, OpFields
  <2>3. state \in {0, 1} /\ (state' = 0 => state = 0)
    BY <1>1, <1>2, <1>3, <1>4, <1>5, <1>6, <1>b, <2>2, <2>4 DEF TrapInv
  <2>6. ExternalTypes'
    BY <1>1, <1>2, <1>3, <1>4, <1>5, <1>6, <1>b, <2>2, <2>4 DEF ExternalTypes
  <2>7. ExternalVerdict'
    <3>6. CASE Todo = 6
      BY <1>1, <1>2, <1>7, <1>4, <1>5, <1>6, <1>b, <2>2, <2>4, <2>3, <3>6
      DEF ExternalVerdict, External!Visible, External!HartFaults, FaultsFound, TrapInv
    <3>2. CASE Todo = 2
      BY <1>1, <1>2, <1>7, <1>4, <1>5, <1>6, <1>b, <2>2, <2>4, <2>3, <3>2
      DEF ExternalVerdict, External!Visible, External!HartFaults, FaultsFound, TrapInv
    <3> QED
      BY <2>2, <3>6, <3>2
  <2>8. finish' = "none" => FaultsFound' /\ TrapInv' /\ SeipInv'
    <3>6. CASE Todo = 6
      BY <1>1, <1>2, <1>7, <1>4, <1>5, <1>6, <1>b, <2>2, <2>4, <2>3, <3>6
      DEF FaultsFound, TrapInv, SeipInv, External!TrapTaken, External!MipRead, SLineInv,
          MLineInv, Quiet, Flight
    <3>2. CASE Todo = 2
      BY <1>1, <1>2, <1>7, <1>4, <1>5, <1>6, <1>b, <2>2, <2>4, <2>3, <3>2
      DEF FaultsFound, TrapInv, SeipInv, External!TrapTaken, External!MipRead, SLineInv,
          MLineInv, Quiet, Flight
    <3> QED
      BY <2>2, <3>6, <3>2
  <2>9. finish' = "none" /\ state' = 0 => MLineInv'
    <3>6. CASE Todo = 6
      BY <1>1, <1>2, <1>7, <1>4, <1>5, <1>6, <1>b, <2>2, <2>4, <2>3, <3>6
      DEF SLineInv, MLineInv, Quiet, Flight
    <3>2. CASE Todo = 2
      BY <1>1, <1>2, <1>7, <1>4, <1>5, <1>6, <1>b, <2>2, <2>4, <2>3, <3>2
      DEF SLineInv, MLineInv, Quiet, Flight
    <3> QED
      BY <2>2, <3>6, <3>2
  <2> QED
    BY <1>1, <1>b, <2>3, <2>6, <2>7, <2>8, <2>9 DEF ExternalInv
<1> QED
  BY <1>a, <1>b

\* Nothing that could be seen is left unseen at the end.
LEMMA FinishStep ==
  ASSUME ExternalInv, External!Finish, test' = test, DelaysSuffice
  PROVE  ExternalInv'
<1>1. /\ External!Next1("pass") /\ External!Tick(posted)
      /\ UNCHANGED <<test, fault, state, cnt, trapping, mie, seip, line>>
      /\ finish' = "pass"
  BY DEF External!Finish
<1>2. /\ finish = "none" /\ posted' = posted
      /\ age' \in Nat /\ age' <= Latency
      /\ Len(posted) \in Nat
      /\ Len(posted) = 0 => age' = 0
      /\ Len(posted) # 0 => age < Latency /\ age' = age + 1
  BY <1>1, TickStep
<1>3. /\ Todo \in 1 .. 25 /\ Todo' = Todo - 1 /\ Head(prog).op = "pass"
      /\ prog' \in Seq(Operations) /\ Todo' <= ProgramLength'
      /\ \A k \in 1 .. Todo' : prog'[k] = FromTheEnd'[Todo' + 1 - k]
      /\ ~External!TrapTaken
      /\ test = "s_external" => Head(prog) = SFromTheEnd[Todo]
      /\ test # "s_external" => Head(prog) = MFromTheEnd[Todo] /\ Todo \in 1 .. 9
  BY <1>1, <1>2, OpStep
<1>4. Latency \in Nat /\ CountTo \in Nat /\ Latency <= CountTo + 1
  BY ExternalConstants DEF DelaysSuffice
<1>5. /\ ExternalTypes /\ FaultsFound /\ TrapInv /\ SeipInv
      /\ state = 0 => IF test = "s_external" THEN SLineInv ELSE MLineInv
  BY <1>2 DEF ExternalInv
<1>6. /\ state \in {0, 1} /\ cnt \in Nat /\ cnt <= CountTo /\ age \in Nat
      /\ fault \in External!HartFaults
  BY <1>4, <1>5 DEF ExternalTypes
<1>7. Todo \in 1 .. 25 /\ Todo' = Todo - 1 /\ ~External!TrapTaken
  BY <1>3
<1>a. CASE test = "s_external"
  <2>1. SFromTheEnd[Todo].op = "pass"
    BY <1>3, <1>a
  <2>2. Todo = 1
    BY <2>1, <1>3, <1>a, SOpIsAt
  <2>3. state \in {0, 1} /\ (state' = 0 => state = 0)
    BY <1>1, <1>2, <1>3, <1>4, <1>5, <1>6, <1>a, <2>2 DEF TrapInv
  <2>6. ExternalTypes'
    BY <1>1, <1>2, <1>3, <1>4, <1>5, <1>6, <1>a, <2>2 DEF ExternalTypes
  <2>7. ExternalVerdict'
    BY <1>1, <1>2, <1>7, <1>4, <1>5, <1>6, <1>a, <2>2, <2>3
    DEF ExternalVerdict, External!Visible, External!HartFaults, FaultsFound, TrapInv
  <2>8. finish' = "none" => FaultsFound' /\ TrapInv' /\ SeipInv'
    BY <1>1, <1>2, <1>7, <1>4, <1>5, <1>6, <1>a, <2>2, <2>3
    DEF FaultsFound, TrapInv, SeipInv, External!TrapTaken, External!MipRead, SLineInv,
        MLineInv, Quiet, Flight
  <2>9. finish' = "none" /\ state' = 0 => SLineInv'
    BY <1>1, <1>2, <1>7, <1>4, <1>5, <1>6, <1>a, <2>2, <2>3
    DEF SLineInv, MLineInv, Quiet, Flight
  <2> QED
    BY <1>1, <1>a, <2>3, <2>6, <2>7, <2>8, <2>9 DEF ExternalInv
<1>b. CASE test # "s_external"
  <2>1. MFromTheEnd[Todo].op = "pass"
    BY <1>3, <1>b
  <2>2. Todo = 1
    BY <2>1, <1>3, <1>b, MOpIsAt
  <2>3. state \in {0, 1} /\ (state' = 0 => state = 0)
    BY <1>1, <1>2, <1>3, <1>4, <1>5, <1>6, <1>b, <2>2 DEF TrapInv
  <2>6. ExternalTypes'
    BY <1>1, <1>2, <1>3, <1>4, <1>5, <1>6, <1>b, <2>2 DEF ExternalTypes
  <2>7. ExternalVerdict'
    <3>1. fault \notin {"ignores_mie", "never_traps", "wrong_cause"}
      BY <1>5, <1>6, <1>7, <2>2 DEF TrapInv
    <3>2. test = "m_external"
      BY <1>5, <1>b DEF ExternalTypes, External!Tests
    <3> QED
      BY <1>1, <3>1, <3>2 DEF ExternalVerdict, External!Visible
  <2>8. finish' = "none" => FaultsFound' /\ TrapInv' /\ SeipInv'
    BY <1>1, <1>2, <1>7, <1>4, <1>5, <1>6, <1>b, <2>2, <2>3
    DEF FaultsFound, TrapInv, SeipInv, External!TrapTaken, External!MipRead, SLineInv,
        MLineInv, Quiet, Flight
  <2>9. finish' = "none" /\ state' = 0 => MLineInv'
    BY <1>1, <1>2, <1>7, <1>4, <1>5, <1>6, <1>b, <2>2, <2>3
    DEF SLineInv, MLineInv, Quiet, Flight
  <2> QED
    BY <1>1, <1>b, <2>3, <2>6, <2>7, <2>8, <2>9 DEF ExternalInv
<1> QED
  BY <1>a, <1>b

\* The delay loop: an iteration brings the store closer, and the loop ends after
\* it has landed.
LEMMA CountUpStep ==
  ASSUME ExternalInv, External!CountUp, test' = test, DelaysSuffice
  PROVE  ExternalInv'
<1>1. /\ prog # <<>> /\ ~External!TrapTaken /\ Head(prog).op = "count"
      /\ External!Tick(posted)
      /\ IF cnt < CountTo THEN cnt' = cnt + 1 /\ UNCHANGED prog
                          ELSE prog' = Tail(prog) /\ UNCHANGED cnt
      /\ UNCHANGED <<test, fault, state, trapping, mie, seip, line, finish>>
  BY DEF External!CountUp
<1>2. /\ finish = "none" /\ posted' = posted
      /\ age' \in Nat /\ age' <= Latency
      /\ Len(posted) \in Nat
      /\ Len(posted) = 0 => age' = 0
      /\ Len(posted) # 0 => age < Latency /\ age' = age + 1
  BY <1>1, TickStep
<1>4. Latency \in Nat /\ CountTo \in Nat /\ Latency <= CountTo + 1
  BY ExternalConstants DEF DelaysSuffice
<1>5. /\ ExternalTypes /\ FaultsFound /\ TrapInv /\ SeipInv
      /\ state = 0 => IF test = "s_external" THEN SLineInv ELSE MLineInv
  BY <1>2 DEF ExternalInv
<1>6. /\ state \in {0, 1} /\ cnt \in Nat /\ cnt <= CountTo /\ age \in Nat
      /\ fault \in External!HartFaults
  BY <1>4, <1>5 DEF ExternalTypes
<1>7. /\ Todo \in 1 .. ProgramLength /\ Head(prog) = FromTheEnd[Todo]
      /\ prog' = Tail(prog) =>
           /\ prog' \in Seq(Operations) /\ Todo' = Todo - 1 /\ Todo' <= ProgramLength'
           /\ \A k \in 1 .. Todo' : prog'[k] = FromTheEnd'[Todo' + 1 - k]
  <2>1. Todo \in 1 .. ProgramLength /\ Head(prog) = FromTheEnd[Todo]
    BY <1>1, <1>5, HeadOp
  <2>2. CASE prog' = Tail(prog)
    BY <1>1, <1>5, <2>1, <2>2, PopOp
  <2> QED
    BY <2>1, <2>2
<1>8. Todo \in 1 .. 25
  BY ONLY <1>7 DEF ProgramLength
<1>9. IF test = "s_external" THEN Todo \in {22, 18, 14, 7, 3} ELSE Todo \in {7, 3}
  <2>1. CASE test = "s_external"
    <3>1. SFromTheEnd[Todo].op = "count"
      BY <1>1, <1>7, <2>1 DEF FromTheEnd
    <3> QED
      BY <1>8, <2>1, <3>1, SOpIsAt
  <2>2. CASE test # "s_external"
    <3>1. MFromTheEnd[Todo].op = "count" /\ Todo \in 1 .. 9
      BY <1>1, <1>7, <2>2 DEF FromTheEnd, ProgramLength
    <3> QED
      BY <2>2, <3>1, MOpIsAt
  <2> QED
    BY <2>1, <2>2
<1>10. ExternalVerdict'
  BY <1>1, <1>2 DEF ExternalVerdict
<1>11. CASE cnt < CountTo
  <2>1. cnt' = cnt + 1 /\ Todo' = Todo /\ prog' = prog
    BY <1>1, <1>11 DEF Todo
  <2>2. ExternalTypes'
    BY <1>1, <1>2, <1>4, <1>5, <1>6, <1>11, <2>1
    DEF ExternalTypes, FromTheEnd, ProgramLength
  <2>3. FaultsFound' /\ TrapInv' /\ SeipInv'
    BY <1>1, <1>5, <2>1 DEF FaultsFound, TrapInv, SeipInv
  <2>4. state' = 0 /\ test = "s_external" => SLineInv'
    BY <1>1, <1>2, <1>4, <1>5, <1>6, <1>8, <1>9, <1>11, <2>1 DEF SLineInv, Quiet, Flight
  <2>5. state' = 0 /\ test # "s_external" => MLineInv'
    BY <1>1, <1>2, <1>4, <1>5, <1>6, <1>8, <1>9, <1>11, <2>1 DEF MLineInv, Quiet, Flight
  <2> QED
    BY <1>10, <2>2, <2>3, <2>4, <2>5 DEF ExternalInv
<1>12. CASE cnt >= CountTo
  <2>1. /\ cnt = CountTo /\ cnt' = cnt
        /\ prog' \in Seq(Operations) /\ Todo' = Todo - 1 /\ Todo' <= ProgramLength'
        /\ \A k \in 1 .. Todo' : prog'[k] = FromTheEnd'[Todo' + 1 - k]
    BY <1>1, <1>4, <1>6, <1>7, <1>12
  <2>6. Todo' = Todo - 1 /\ cnt = CountTo /\ cnt' = cnt
    BY <2>1
  <2>2. ExternalTypes'
    BY <1>1, <1>2, <1>4, <1>5, <1>6, <1>8, <1>9, <2>1 DEF ExternalTypes
  <2>3. CASE test = "s_external"
    <3>1. FaultsFound' /\ TrapInv' /\ SeipInv'
      <4>22. CASE Todo = 22
        BY <1>1, <1>2, <1>5, <1>6, <2>3, <2>6, <4>22
        DEF FaultsFound, TrapInv, SeipInv
      <4>18. CASE Todo = 18
        BY <1>1, <1>2, <1>5, <1>6, <2>3, <2>6, <4>18
        DEF FaultsFound, TrapInv, SeipInv
      <4>14. CASE Todo = 14
        BY <1>1, <1>2, <1>5, <1>6, <2>3, <2>6, <4>14
        DEF FaultsFound, TrapInv, SeipInv
      <4>7. CASE Todo = 7
        BY <1>1, <1>2, <1>5, <1>6, <2>3, <2>6, <4>7
        DEF FaultsFound, TrapInv, SeipInv
      <4>3. CASE Todo = 3
        BY <1>1, <1>2, <1>5, <1>6, <2>3, <2>6, <4>3
        DEF FaultsFound, TrapInv, SeipInv, External!TrapTaken, SLineInv, Quiet
      <4> QED
        BY <1>9, <2>3, <4>22, <4>18, <4>14, <4>7, <4>3
    <3>2. state' = 0 => SLineInv'
      <4>22. CASE Todo = 22
        BY <1>1, <1>2, <1>4, <1>5, <1>6, <2>3, <2>6, <4>22 DEF SLineInv, Quiet, Flight
      <4>18. CASE Todo = 18
        BY <1>1, <1>2, <1>4, <1>5, <1>6, <2>3, <2>6, <4>18 DEF SLineInv, Quiet, Flight
      <4>14. CASE Todo = 14
        BY <1>1, <1>2, <1>4, <1>5, <1>6, <2>3, <2>6, <4>14 DEF SLineInv, Quiet, Flight
      <4>7. CASE Todo = 7
        BY <1>1, <1>2, <1>4, <1>5, <1>6, <2>3, <2>6, <4>7 DEF SLineInv, Quiet, Flight
      <4>3. CASE Todo = 3
        BY <1>1, <1>2, <1>4, <1>5, <1>6, <2>3, <2>6, <4>3 DEF SLineInv, Quiet, Flight
      <4> QED
        BY <1>9, <2>3, <4>22, <4>18, <4>14, <4>7, <4>3
    <3> QED
      BY <1>10, <2>2, <2>3, <3>1, <3>2, <1>1 DEF ExternalInv
  <2>4. CASE test # "s_external"
    <3>1. FaultsFound' /\ TrapInv' /\ SeipInv'
      <4>7. CASE Todo = 7
        BY <1>1, <1>2, <1>5, <1>6, <2>4, <2>6, <4>7
        DEF FaultsFound, TrapInv, SeipInv
      <4>3. CASE Todo = 3
        BY <1>1, <1>2, <1>5, <1>6, <2>4, <2>6, <4>3
        DEF FaultsFound, TrapInv, SeipInv, External!TrapTaken, MLineInv, Quiet
      <4> QED
        BY <1>9, <2>4, <4>7, <4>3
    <3>2. state' = 0 => MLineInv'
      BY <1>1, <1>2, <1>4, <1>5, <1>6, <1>8, <1>9, <2>4, <2>6 DEF MLineInv, Quiet, Flight
    <3> QED
      BY <1>10, <2>2, <2>4, <3>1, <3>2, <1>1 DEF ExternalInv
  <2> QED
    BY <2>3, <2>4
<1> QED
  BY <1>4, <1>6, <1>11, <1>12

\* The handler, taken once or several times
LEMMA TrapStep ==
  ASSUME ExternalInv, External!TrapHandler, test' = test
  PROVE  ExternalInv'
<1>1. /\ External!TrapTaken
      /\ UNCHANGED <<test, fault, prog, cnt, trapping, mie, seip, line>>
      /\ IF fault = "wrong_cause"
         THEN /\ finish' = "fail" /\ UNCHANGED state /\ External!Tick(posted)
         ELSE /\ state' = 1 /\ UNCHANGED finish /\ External!Tick(Append(posted, FALSE))
  BY DEF External!TrapHandler
<1>2. finish = "none" /\ age' \in Nat /\ age' <= Latency
  BY <1>1, TickStep
<1>3. posted' \in Seq(BOOLEAN)
  <2>1. posted \in Seq(BOOLEAN)
    BY DEF ExternalInv, ExternalTypes
  <2>2. posted' = posted \/ posted' = Append(posted, FALSE)
    BY <1>1, TickStep
  <2> QED
    BY <2>1, <2>2, PostedQueue
<1>4. Todo' = Todo
  BY <1>1 DEF Todo
<1>5. ExternalTypes'
  BY <1>1, <1>2, <1>3, <1>4 DEF ExternalInv, ExternalTypes, ProgramLength, FromTheEnd
<1>6. CASE fault = "wrong_cause"
  <2>1. finish' = "fail" /\ fault' \in External!Visible'
    BY <1>1, <1>6 DEF External!Visible, External!HartFaults
  <2> QED
    BY <1>5, <2>1 DEF ExternalInv, ExternalVerdict
<1>7. CASE fault # "wrong_cause"
  <2>1. state' = 1 /\ finish' = "none"
    BY <1>1, <1>2, <1>7
  <2>2. fault # "never_traps" /\ trapping /\ (mie \/ fault = "ignores_mie")
    BY <1>1 DEF External!TrapTaken
  <2>3. FaultsFound' /\ TrapInv' /\ SeipInv'
    BY <1>1, <1>2, <1>4, <1>7, <2>1, <2>2 DEF ExternalInv, FaultsFound, TrapInv, SeipInv
  <2> QED
    BY <1>5, <2>1, <2>3 DEF ExternalInv, ExternalVerdict
<1> QED
  BY <1>6, <1>7

\* A store lands.
LEMMA LandStep ==
  ASSUME ExternalInv, External!Land, test' = test
  PROVE  ExternalInv'
<1>1. /\ posted # <<>> /\ line' = Head(posted) /\ posted' = Tail(posted) /\ age' = 0
      /\ UNCHANGED <<test, fault, prog, state, cnt, trapping, mie, seip, finish>>
  BY DEF External!Land
<1>2. /\ posted' \in Seq(BOOLEAN) /\ Len(posted) \in Nat /\ Len(posted) # 0
      /\ Len(posted') = Len(posted) - 1 /\ line' \in BOOLEAN /\ line' = posted[1]
  BY <1>1, PostedQueue DEF ExternalInv, ExternalTypes
<1>3. Todo' = Todo /\ Todo \in Nat /\ Latency \in Nat
  BY <1>1, ExternalConstants DEF ExternalInv, ExternalTypes, Todo
<1>4. ExternalTypes'
  BY <1>1, <1>2, <1>3 DEF ExternalInv, ExternalTypes, ProgramLength, FromTheEnd
<1>5. ExternalVerdict'
  BY <1>1 DEF ExternalInv, ExternalVerdict, External!Visible
<1>6. finish' = "none" => FaultsFound' /\ TrapInv' /\ SeipInv'
  BY <1>1, <1>3 DEF ExternalInv, FaultsFound, TrapInv, SeipInv
<1>7. finish' = "none" /\ state' = 0 /\ test = "s_external" => SLineInv'
  BY <1>1, <1>2, <1>3 DEF ExternalInv, SLineInv, Quiet, Flight
<1>8. finish' = "none" /\ state' = 0 /\ test # "s_external" => MLineInv'
  BY <1>1, <1>2, <1>3 DEF ExternalInv, MLineInv, Quiet, Flight
<1> QED
  BY <1>1, <1>4, <1>5, <1>6, <1>7, <1>8 DEF ExternalInv

\* A step of m_external_interrupt.c or s_external_interrupt.c keeps ExternalInv.
LEMMA ExternalStep ==
  ASSUME ExternalInv, External!Next, DelaysSuffice
  PROVE  test' = test /\ ExternalInv'
<1>1. test' = test
  BY DEF External!Next, External!TrapHandler, External!SetLine, External!Land,
         External!ClearCnt, External!CountUp, External!WriteSeip, External!ReadPending,
         External!SetUpTrap, External!SetMie, External!CheckState, External!Finish,
         External!Terminated, External!vars
<1>2. CASE External!Terminated
  BY <1>1, <1>2
  DEF External!Terminated, External!vars, ExternalInv, ExternalTypes, ExternalVerdict,
      External!Visible, FromTheEnd, ProgramLength, Todo
<1> QED
  BY <1>1, <1>2, TrapStep, SetLineStep, LandStep, ClearCntStep, CountUpStep, WriteSeipStep,
     ReadPendingStep, SetUpTrapStep, SetMieStep, CheckStateStep, FinishStep
  DEF External!Next

\* No store to the PLIC is in flight at the start.
LEMMA EmptyQueue == <<>> \in Seq(BOOLEAN)
<1> DEFINE S == BOOLEAN
<1>1. <<>> \in Seq(S)
  <2> HIDE DEF S
  <2> QED
    OBVIOUS
<1> QED
  BY <1>1

\* ExternalInv holds when one of the two programs has been loaded.
LEMMA ExternalStart == External!Init => ExternalInv
<1> SUFFICES ASSUME External!Init PROVE ExternalInv
  OBVIOUS
<1>1. /\ test \in External!Tests /\ fault \in External!HartFaults
      /\ prog = IF test = "m_external" THEN External!MExternal ELSE External!SExternal
      /\ state = 0 /\ cnt = 0 /\ trapping = FALSE /\ mie = FALSE /\ line = FALSE
      /\ seip \in IF test = "s_external" /\ fault # "seip_readonly" THEN BOOLEAN ELSE {FALSE}
      /\ posted = <<>> /\ age = 0 /\ finish = "none"
  BY DEF External!Init
<1>2. /\ prog \in Seq(Operations) /\ Todo = ProgramLength /\ ProgramLength \in {9, 25}
      /\ \A k \in 1 .. Todo : prog[k] = FromTheEnd[Todo + 1 - k]
  <2>1. CASE test = "s_external"
    <3>1. prog = External!SExternal
      BY <1>1, <2>1
    <3>2. /\ prog \in Seq(Operations) /\ Len(prog) = 25
          /\ \A k \in 1 .. 25 : prog[k] = SFromTheEnd[26 - k]
      BY <3>1, SExternalSpelled DEF Spells
    <3>3. ProgramLength = 25 /\ FromTheEnd = SFromTheEnd
      BY <2>1 DEF ProgramLength, FromTheEnd
    <3> QED
      BY <3>2, <3>3 DEF Todo
  <2>2. CASE test = "m_external"
    <3>1. prog = External!MExternal
      BY <1>1, <2>2
    <3>2. /\ prog \in Seq(Operations) /\ Len(prog) = 9
          /\ \A k \in 1 .. 9 : prog[k] = MFromTheEnd[10 - k]
      BY <3>1, MExternalSpelled
    <3>3. ProgramLength = 9 /\ FromTheEnd = MFromTheEnd
      BY <2>2 DEF ProgramLength, FromTheEnd
    <3> QED
      BY <3>2, <3>3 DEF Todo
  <2>3. test = "s_external" \/ test = "m_external"
    BY <1>1 DEF External!Tests
  <2> QED
    BY <2>1, <2>2, <2>3
<1>3. posted \in Seq(BOOLEAN) /\ Len(posted) = 0 /\ seip \in BOOLEAN
  <2>1. posted = <<>>
    BY <1>1
  <2>2. posted \in Seq(BOOLEAN)
    BY <2>1, EmptyQueue
  <2>3. Len(posted) = 0
    BY <2>1
  <2>4. seip \in BOOLEAN
    <3>1. CASE test = "s_external" /\ fault # "seip_readonly"
      BY <1>1, <3>1
    <3>2. CASE ~(test = "s_external" /\ fault # "seip_readonly")
      BY <1>1, <3>2
    <3> QED
      BY <3>1, <3>2
  <2> QED
    BY <2>2, <2>3, <2>4
<1>4. ExternalTypes
  <2>1. /\ test \in External!Tests /\ fault \in External!HartFaults
        /\ prog \in Seq(Operations) /\ Todo <= ProgramLength
        /\ \A k \in 1 .. Todo : prog[k] = FromTheEnd[Todo + 1 - k]
    BY <1>1, <1>2
  <2>2. state \in {0, 1} /\ cnt \in 0 .. CountTo /\ age \in Nat
    BY <1>1, ExternalConstants
  <2>3. trapping \in BOOLEAN /\ mie \in BOOLEAN /\ line \in BOOLEAN
    BY <1>1
  <2>4. posted # <<>> => age <= Latency
    BY <1>1
  <2>5. finish \in {"none", "pass", "fail"} /\ (finish = "none" => Todo > 0)
    BY <1>1, <1>2
  <2> QED
    BY <1>3, <2>1, <2>2, <2>3, <2>4, <2>5, Zenon DEF ExternalTypes
<1>5. (test = "s_external" => Todo = 25) /\ (test # "s_external" => Todo = 9 /\ ~seip)
  BY <1>1, <1>2 DEF ProgramLength
<1>6. FaultsFound /\ TrapInv /\ SeipInv
  <2>1. Todo \in {9, 25} /\ state = 0 /\ trapping = FALSE /\ mie = FALSE
    BY <1>1, <1>2
  <2>2. CASE test = "s_external"
    <3>1. Todo = 25
      BY <1>5, <2>2
    <3>2. FaultsFound
      BY <3>1, <2>2 DEF FaultsFound
    <3>3. TrapInv
      BY <3>1, <2>1, <2>2 DEF TrapInv
    <3>4. SeipInv
      BY <3>1, <2>2 DEF SeipInv
    <3> QED
      BY <3>2, <3>3, <3>4
  <2>3. CASE test # "s_external"
    <3>1. Todo = 9 /\ ~seip
      BY <1>5, <2>3
    <3>2. FaultsFound
      BY <3>1, <2>3 DEF FaultsFound
    <3>3. TrapInv
      BY <3>1, <2>1, <2>3 DEF TrapInv
    <3>4. SeipInv
      BY <3>1, <2>3 DEF SeipInv
    <3> QED
      BY <3>2, <3>3, <3>4
  <2> QED
    BY <2>2, <2>3
<1>7. (test = "s_external" => SLineInv) /\ (test # "s_external" => MLineInv)
  <2>1. Quiet(FALSE) /\ cnt = 0
    BY <1>1, <1>3 DEF Quiet
  <2>2. CASE test = "s_external"
    <3>1. Todo = 25
      BY <1>5, <2>2
    <3>2. /\ ~(Todo \in 9 .. 12) /\ ~(Todo <= 5)
      BY <3>1
    <3>3. Todo # 23 /\ Todo # 22 /\ Todo # 21 /\ Todo # 20 /\ Todo # 19 /\ Todo # 18
          /\ Todo # 17 /\ Todo # 16 /\ Todo # 15 /\ Todo # 14 /\ Todo # 13
          /\ Todo # 8 /\ Todo # 7 /\ Todo # 6
      BY <3>1
    <3> QED
      BY <2>1, <2>2, <3>2, <3>3, Zenon DEF SLineInv
  <2>3. CASE test # "s_external"
    <3>1. Todo = 9
      BY <1>5, <2>3
    <3>2. Todo # 7 /\ Todo # 6 /\ ~(Todo <= 5)
      BY <3>1
    <3> QED
      BY <2>1, <2>3, <3>2, Zenon DEF MLineInv
  <2> QED
    BY <2>2, <2>3
<1> QED
  BY <1>1, <1>4, <1>6, <1>7 DEF ExternalInv, ExternalVerdict

-----------------------------------------------------------------------------
(* The steps of the priority tests *)

\* The causes, as mcause has them
LEMMA CauseNumbers ==
  /\ Priority!MSI = 3 /\ Priority!MTI = 7 /\ Priority!MEI = 11
  /\ Priority!Interrupts = {3, 7, 11}
BY DEF Priority!MSI, Priority!MTI, Priority!MEI, Priority!Interrupts

\* An order is a sequence of at most three different causes.
LEMMA OrderIsSequence ==
  ASSUME order \in Priority!Orders
  PROVE  \E n \in 0 .. 3 : /\ order \in [1 .. n -> {3, 7, 11}] /\ Len(order) = n
                           /\ \A k, l \in 1 .. n : order[k] = order[l] => k = l
<1>1. PICK n \in 0 .. 3 : order \in [1 .. n -> {3, 7, 11}]
  BY CauseNumbers DEF Priority!Orders
<1>2. Len(order) = n
  BY <1>1
<1>3. ASSUME NEW k \in 1 .. n, NEW l \in 1 .. n, order[k] = order[l] PROVE k = l
  BY <1>1, <1>3 DEF Priority!Orders
<1> QED
  BY <1>1, <1>2, <1>3

\* Of two causes at most one leads the other.
LEMMA LeadsIsStrict ==
  ASSUME order \in Priority!Orders, NEW x, NEW y, x # y, Leads(x, y)
  PROVE  ~Leads(y, x)
<1>1. PICK n \in 0 .. 3 : order \in [1 .. n -> {3, 7, 11}]
  BY OrderIsSequence
<1>2. SUFFICES ASSUME Leads(y, x) PROVE FALSE
  OBVIOUS
<1>3. PICK k \in 1 .. n : order[k] = x /\ \A l \in 1 .. k - 1 : order[l] # y
  BY <1>1 DEF Leads
<1>4. PICK l \in 1 .. n : order[l] = y /\ \A j \in 1 .. l - 1 : order[j] # x
  BY <1>1, <1>2 DEF Leads
<1>5. k \in Int /\ l \in Int /\ k # l
  BY <1>3, <1>4
<1>6. l \notin 1 .. k - 1 /\ k \notin 1 .. l - 1
  BY <1>3, <1>4
<1> QED
  BY <1>5, <1>6

\* The hart takes the cause that leads the others that are pending.
LEMMA HighestLeads ==
  ASSUME order \in Priority!Orders, Priority!Takeable # {}
  PROVE  LET e == Priority!Highest(Priority!Takeable)
         IN  /\ e \in line \intersect mie /\ Leads(e, e)
             /\ \A y \in line \intersect mie : y # e => Leads(e, y)
<1> DEFINE S == Priority!Takeable
<1>1. PICK n \in 0 .. 3 : order \in [1 .. n -> {3, 7, 11}]
  BY OrderIsSequence
<1>2. S = {x \in line \intersect mie :
             mstatus_mie /\ handler = <<>> /\ \E k \in 1 .. n : order[k] = x}
  BY <1>1 DEF Priority!Takeable
<1>3. PICK j \in 1 .. n : order[j] \in S
  BY <1>2
<1> DEFINE First1(k) == order[k] \in S /\ \A l \in 1 .. k - 1 : order[l] \notin S
<1>4. \E k \in 1 .. n : First1(k)
  <2> HIDE DEF S
  <2>1. CASE order[1] \in S
    BY <1>3, <2>1
  <2>2. CASE order[1] \notin S /\ n >= 2 /\ order[2] \in S
    BY <2>2
  <2>3. CASE order[1] \notin S /\ ~(n >= 2 /\ order[2] \in S)
    <3>1. j = 3 /\ n = 3
      BY <1>3, <2>3
    <3> QED
      BY <1>3, <2>3, <3>1
  <2> QED
    BY <2>1, <2>2, <2>3
<1> DEFINE k == CHOOSE k \in DOMAIN order : First1(k)
<1>5. k \in 1 .. n /\ First1(k)
  <2>1. DOMAIN order = 1 .. n
    BY <1>1
  <2>2. \E l \in DOMAIN order : First1(l)
    BY <1>4, <2>1
  <2> HIDE DEF First1
  <2> QED
    BY <2>1, <2>2
<1>6. Priority!Highest(S) = order[k]
  BY DEF Priority!Highest
<1> DEFINE e == order[k]
<1>7. e \in line \intersect mie
  BY <1>2, <1>5
<1> HIDE DEF k
<1>8. Leads(e, e)
  BY <1>1, <1>5 DEF Leads
<1>9. ASSUME NEW y \in line \intersect mie, y # e PROVE Leads(e, y)
  <2>1. ASSUME NEW l \in 1 .. k - 1, order[l] = y PROVE FALSE
    <3>1. l \in 1 .. n
      BY <1>5
    <3>2. order[l] \notin S
      BY <1>5
    <3>3. mstatus_mie /\ handler = <<>>
      BY <1>2, <1>3
    <3> HIDE DEF S
    <3> QED
      BY <1>2, <2>1, <3>1, <3>2, <3>3 DEF S
  <2> QED
    BY <1>1, <1>5, <2>1 DEF Leads
<1> QED
  BY <1>6, <1>7, <1>8, <1>9

\* When nothing can be taken the hart misses what is pending.
LEMMA NothingTaken ==
  ASSUME Priority!Takeable = {}, mstatus_mie, handler = <<>>,
         NEW x \in line \intersect mie, NEW y
  PROVE  ~Leads(x, y)
BY DEF Priority!Takeable, Leads

\* The order each test is there to establish
LEMMA OrderIsRight ==
  ASSUME order \in Priority!Orders, test \in Priority!Tests
  PROVE  Priority!RightOrder(test) <=>
           IF test = "interrupt_priority"
           THEN Leads(11, 11) /\ Leads(3, 7) /\ Leads(7, 7)
           ELSE Leads(11, 3) /\ Leads(11, 7) /\ Leads(3, 7) /\ Leads(7, 7)
<1>1. PICK n \in 0 .. 3 : /\ order \in [1 .. n -> {3, 7, 11}] /\ Len(order) = n
                          /\ \A k, l \in 1 .. n : order[k] = order[l] => k = l
  BY OrderIsSequence
<1>2. CASE test = "interrupt_priority"
  <2>1. Leads(11, 11) /\ Leads(3, 7) /\ Leads(7, 7)
        => n = 3 /\ \E k, l \in 1 .. 3 : k < l /\ order[k] = 3 /\ order[l] = 7
    BY <1>1 DEF Leads
  <2>2. n = 3 /\ (\E k, l \in 1 .. 3 : k < l /\ order[k] = 3 /\ order[l] = 7)
        => Leads(11, 11) /\ Leads(3, 7) /\ Leads(7, 7)
    BY <1>1 DEF Leads
  <2> QED
    BY <1>1, <1>2, <2>1, <2>2, CauseNumbers DEF Priority!RightOrder
<1>3. CASE test # "interrupt_priority"
  <2>1. order = <<11, 3, 7>> <=> n = 3 /\ order[1] = 11 /\ order[2] = 3 /\ order[3] = 7
    <3> DEFINE s == <<11, 3, 7>>
    <3>1. s \in [1 .. 3 -> {3, 7, 11}] /\ s[1] = 11 /\ s[2] = 3 /\ s[3] = 7 /\ Len(s) = 3
      OBVIOUS
    <3> HIDE DEF s
    <3>2. order = s => n = 3 /\ order[1] = 11 /\ order[2] = 3 /\ order[3] = 7
      BY <1>1, <3>1
    <3>3. ASSUME n = 3, order[1] = 11, order[2] = 3, order[3] = 7 PROVE order = s
      <4>1. \A k \in 1 .. 3 : order[k] = s[k]
        BY <3>1, <3>3
      <4> QED
        BY <1>1, <3>1, <3>3, <4>1
    <3> QED
      BY <3>2, <3>3 DEF s
  <2>2. Leads(11, 3) /\ Leads(11, 7) /\ Leads(3, 7) /\ Leads(7, 7)
        => n = 3 /\ order[1] = 11 /\ order[2] = 3 /\ order[3] = 7
    BY <1>1 DEF Leads
  <2>3. n = 3 /\ order[1] = 11 /\ order[2] = 3 /\ order[3] = 7
        => Leads(11, 3) /\ Leads(11, 7) /\ Leads(3, 7) /\ Leads(7, 7)
    BY <1>1 DEF Leads
  <2> QED
    BY <1>3, <2>1, <2>2, <2>3, CauseNumbers DEF Priority!RightOrder
<1> QED
  BY <1>2, <1>3

\* What is in flight
LEMMA StoreFields ==
  ASSUME NEW s \in Stores
  PROVE  /\ s.op = "store" /\ s.int \in {3, 7, 11} /\ s.on \in BOOLEAN
         /\ s = Priority!Store(s.int, s.on)
BY DEF Stores, Priority!Store

\* What a store does to the line, at once or when it lands
LEMMA ApplyStore ==
  ASSUME NEW s \in Stores, line \subseteq {3, 7, 11}
  PROVE  /\ Priority!Apply(s, line) \subseteq {3, 7, 11}
         /\ s.on = TRUE => s.int \in Priority!Apply(s, line)
         /\ s.on = FALSE => s.int \notin Priority!Apply(s, line)
         /\ \A y : y # s.int => (y \in Priority!Apply(s, line) <=> y \in line)
<1>1. s.int \in {3, 7, 11} /\ s.on \in BOOLEAN
  BY StoreFields
<1>2. CASE s.on = TRUE
  <2>1. Priority!Apply(s, line) = line \union {s.int}
    BY <1>2 DEF Priority!Apply
  <2> QED
    BY <1>1, <1>2, <2>1
<1>3. CASE s.on = FALSE
  <2>1. Priority!Apply(s, line) = line \ {s.int}
    BY <1>3 DEF Priority!Apply
  <2> QED
    BY <1>1, <1>3, <2>1
<1> QED
  BY <1>1, <1>2, <1>3

\* A store that has been issued decides what becomes of its interrupt, and of no other.
LEMMA StoreEffect ==
  ASSUME posted \in Seq(Stores), Len(posted) <= depth, depth \in Nat, depth' = depth,
         line \subseteq {3, 7, 11}, NEW s \in Stores,
         \/ depth = 0 /\ line' = Priority!Apply(s, line) /\ UNCHANGED posted
         \/ Len(posted) < depth /\ posted' = Append(posted, s) /\ UNCHANGED line
  PROVE  /\ posted' \in Seq(Stores) /\ Len(posted') <= depth'
         /\ line' \subseteq {3, 7, 11}
         /\ s.on = TRUE => Up(s.int)'
         /\ s.on = FALSE => Down(s.int)'
         /\ \A y : y # s.int => /\ Up(y) => Up(y)'
                                /\ Down(y) => Down(y)'
                                /\ Steady(y) => Steady(y)'
<1> DEFINE n == Len(posted)
<1>1. n \in Nat /\ s.on \in BOOLEAN
  BY StoreFields
<1>2. CASE depth = 0 /\ line' = Priority!Apply(s, line) /\ UNCHANGED posted
  <2>1. n = 0
    BY <1>1, <1>2
  <2>2. /\ line' \subseteq {3, 7, 11}
        /\ s.on = TRUE => s.int \in line'
        /\ s.on = FALSE => s.int \notin line'
        /\ \A y : y # s.int => (y \in line' <=> y \in line)
    BY <1>2, ApplyStore
  <2>3. Untouched(s.int)' /\ \A y : Untouched(y)'
    BY <1>2, <2>1 DEF Untouched
  <2> QED
    BY <1>2, <2>1, <2>2, <2>3 DEF Up, Down, Steady
<1>3. CASE Len(posted) < depth /\ posted' = Append(posted, s) /\ UNCHANGED line
  <2>1. /\ posted' \in Seq(Stores) /\ Len(posted') = n + 1
        /\ posted'[n + 1] = s /\ \A k \in 1 .. n : posted'[k] = posted[k]
    BY <1>3
  <2>2. s.on = TRUE => Up(s.int)'
    BY <1>1, <2>1 DEF Up, LastStore
  <2>3. s.on = FALSE => Down(s.int)'
    BY <1>1, <2>1 DEF Down, LastStore
  <2>4. ASSUME NEW y, y # s.int
        PROVE  /\ Untouched(y) => Untouched(y)'
               /\ \A k \in 1 .. n :
                    LastStore(k, y) => LastStore(k, y)' /\ posted'[k].on = posted[k].on
    BY <1>1, <2>1, <2>4 DEF Untouched, LastStore
  <2>5. ASSUME NEW y, y # s.int
        PROVE  /\ Up(y) => Up(y)'
               /\ Down(y) => Down(y)'
               /\ Steady(y) => Steady(y)'
    <3>1. Steady(y) => Steady(y)'
      BY <1>3, <2>4, <2>5 DEF Steady
    <3>2. 1 .. n \subseteq 1 .. Len(posted')
      BY <1>1, <2>1
    <3>3. Up(y) => Up(y)'
      BY <2>4, <2>5, <3>1, <3>2 DEF Up
    <3>4. Down(y) => Down(y)'
      BY <1>3, <2>4, <2>5, <3>2 DEF Down
    <3> QED
      BY <3>1, <3>3, <3>4
  <2> QED
    BY <1>1, <1>3, <2>1, <2>2, <2>3, <2>5
<1> QED
  BY <1>2, <1>3

\* A store that lands changes nothing of what will become of an interrupt.
LEMMA LandEffect ==
  ASSUME posted \in Seq(Stores), Len(posted) <= depth, depth \in Nat, depth' = depth,
         line \subseteq {3, 7, 11}, posted # <<>>,
         line' = Priority!Apply(Head(posted), line), posted' = Tail(posted)
  PROVE  /\ posted' \in Seq(Stores) /\ Len(posted') <= depth'
         /\ line' \subseteq {3, 7, 11}
         /\ \A y : /\ Up(y) => Up(y)'
                   /\ Down(y) => Down(y)'
                   /\ Steady(y) => Steady(y)'
<1> DEFINE n == Len(posted)
           s == Head(posted)
<1>1. /\ n \in Nat /\ n > 0 /\ s \in Stores /\ s = posted[1]
      /\ posted' \in Seq(Stores) /\ Len(posted') = n - 1
      /\ \A k \in 1 .. n - 1 : posted'[k] = posted[k + 1]
  OBVIOUS
<1> HIDE DEF s
<1>2. /\ line' \subseteq {3, 7, 11} /\ s.on \in BOOLEAN
      /\ s.on = TRUE => s.int \in line'
      /\ s.on = FALSE => s.int \notin line'
      /\ \A y : y # s.int => (y \in line' <=> y \in line)
  BY <1>1, ApplyStore, StoreFields DEF s
<1>3. ASSUME NEW y, Untouched(y)
      PROVE  y # s.int /\ Untouched(y)'
  BY <1>1, <1>3 DEF Untouched
<1>4. ASSUME NEW y, NEW k \in 1 .. n, k > 1, LastStore(k, y)
      PROVE  k - 1 \in 1 .. n - 1 /\ LastStore(k - 1, y)' /\ posted'[k - 1].on = posted[k].on
  <2>1. k - 1 \in 1 .. n - 1 /\ posted'[k - 1] = posted[k]
    BY <1>1, <1>4
  <2>2. ASSUME NEW l \in k .. n - 1 PROVE posted'[l].int # y
    <3>1. l \in 1 .. n - 1 /\ l + 1 \in k + 1 .. n
      BY <1>1, <1>4
    <3> QED
      BY <1>1, <1>4, <3>1 DEF LastStore
  <2>3. (k - 1) + 1 = k
    BY <1>4
  <2> QED
    BY <1>1, <1>4, <2>1, <2>2, <2>3 DEF LastStore
<1>5. ASSUME NEW y, LastStore(1, y)
      PROVE  y = s.int /\ Untouched(y)'
  <2>1. ASSUME NEW l \in 1 .. n - 1 PROVE posted'[l].int # y
    <3>1. l + 1 \in 1 + 1 .. n
      BY <1>1
    <3> QED
      BY <1>1, <1>5, <3>1 DEF LastStore
  <2> QED
    BY <1>1, <1>5, <2>1 DEF LastStore, Untouched
<1>6. ASSUME NEW y
      PROVE  /\ Up(y) => Up(y)'
             /\ Down(y) => Down(y)'
             /\ Steady(y) => Steady(y)'
  <2>1. Steady(y) => Steady(y)'
    BY <1>2, <1>3 DEF Steady
  <2>2. ASSUME NEW k \in 1 .. n, LastStore(k, y), posted[k].on = TRUE PROVE Up(y)'
    <3>1. CASE k = 1
      BY <1>1, <1>2, <1>5, <2>2, <3>1 DEF Up, Steady
    <3>2. CASE k > 1
      BY <1>1, <1>4, <2>2, <3>2 DEF Up
    <3> QED
      BY <3>1, <3>2
  <2>3. ASSUME NEW k \in 1 .. n, LastStore(k, y), posted[k].on = FALSE PROVE Down(y)'
    <3>1. CASE k = 1
      BY <1>1, <1>2, <1>5, <2>3, <3>1 DEF Down
    <3>2. CASE k > 1
      BY <1>1, <1>4, <2>3, <3>2 DEF Down
    <3> QED
      BY <3>1, <3>2
  <2>4. Up(y) => Up(y)'
    BY <2>1, <2>2 DEF Up
  <2>5. Down(y) => Down(y)'
    BY <1>2, <1>3, <2>3 DEF Down
  <2> QED
    BY <2>1, <2>4, <2>5
<1> QED
  BY <1>1, <1>2, <1>6

\* When nothing is in flight the line is what it will be.
LEMMA NothingPosted ==
  ASSUME posted = <<>>, NEW x
  PROVE  (Up(x) <=> x \in line) /\ (Down(x) <=> x \notin line)
BY DEF Up, Down, Steady, Untouched

\* The kind and the arguments of each operation
LEMMA PriorityFields ==
  /\ \A x \in {3, 7, 11} : \A b \in BOOLEAN :
       /\ Priority!Store(x, b) \in Stores
       /\ Priority!Store(x, b).op = "store" /\ Priority!Store(x, b).int = x
       /\ Priority!Store(x, b).on = b
  /\ Priority!Drain.op = "drain" /\ Priority!Mret.op = "mret"
  /\ \A b \in BOOLEAN : Priority!GlobalMIE(b).op = "mstatus" /\ Priority!GlobalMIE(b).on = b
  /\ \A S : Priority!EnableAlso(S).op = "mie" /\ Priority!EnableAlso(S).ints = S
  /\ \A c : Priority!Finish(c).op = "finish" /\ Priority!Finish(c).code = c
<1>1. ASSUME NEW x \in {3, 7, 11}, NEW b \in BOOLEAN
      PROVE  /\ Priority!Store(x, b) \in Stores
             /\ Priority!Store(x, b).op = "store" /\ Priority!Store(x, b).int = x
             /\ Priority!Store(x, b).on = b
  <2>1. Priority!Store(x, b) \in Stores
    BY DEF Stores
  <2>2. Priority!Store(x, b).op = "store" /\ Priority!Store(x, b).int = x
    BY DEF Priority!Store
  <2>3. Priority!Store(x, b).on = b
    BY DEF Priority!Store
  <2> QED
    BY <2>1, <2>2, <2>3
<1>2. Priority!Drain.op = "drain" /\ Priority!Mret.op = "mret"
  BY DEF Priority!Drain, Priority!Mret
<1>3. ASSUME NEW b \in BOOLEAN
      PROVE  Priority!GlobalMIE(b).op = "mstatus" /\ Priority!GlobalMIE(b).on = b
  BY DEF Priority!GlobalMIE
<1>4. ASSUME NEW S PROVE Priority!EnableAlso(S).op = "mie" /\ Priority!EnableAlso(S).ints = S
  BY DEF Priority!EnableAlso
<1>5. ASSUME NEW c PROVE Priority!Finish(c).op = "finish" /\ Priority!Finish(c).code = c
  BY DEF Priority!Finish
<1> QED
  BY <1>1, <1>2, <1>3, <1>4, <1>5

\* The same of the operations the programs have
LEMMA KnownFields ==
  /\ Priority!Store(3, TRUE).op = "store" /\ Priority!Store(3, FALSE).op = "store"
  /\ Priority!Store(7, TRUE).op = "store" /\ Priority!Store(7, FALSE).op = "store"
  /\ Priority!Store(11, TRUE).op = "store" /\ Priority!Store(11, FALSE).op = "store"
  /\ Priority!GlobalMIE(TRUE).op = "mstatus" /\ Priority!GlobalMIE(TRUE).on = TRUE
  /\ Priority!GlobalMIE(FALSE).op = "mstatus" /\ Priority!GlobalMIE(FALSE).on = FALSE
  /\ Priority!EnableAlso({11}).op = "mie" /\ Priority!EnableAlso({11}).ints = {11}
  /\ Priority!EnableAlso({3, 7}).op = "mie" /\ Priority!EnableAlso({3, 7}).ints = {3, 7}
  /\ Priority!EnableAlso({3, 7, 11}).op = "mie"
  /\ Priority!EnableAlso({3, 7, 11}).ints = {3, 7, 11}
  /\ Priority!Finish("pass").op = "finish" /\ Priority!Finish("pass").code = "pass"
  /\ Priority!Finish("fail").op = "finish" /\ Priority!Finish("fail").code = "fail"
  /\ Priority!Drain.op = "drain" /\ Priority!Mret.op = "mret"
BY DEF Priority!Store, Priority!GlobalMIE, Priority!EnableAlso, Priority!Finish,
       Priority!Drain, Priority!Mret

\* Where interrupt_priority.c has which operation before its last loop
LEMMA FirstMainOps ==
  ASSUME test = "interrupt_priority"
  PROVE  /\ Len(MainFromTheEnd) = 8
         /\ MainFromTheEnd[1] = Priority!GlobalMIE(TRUE)
         /\ MainFromTheEnd[2] = Priority!Drain
         /\ MainFromTheEnd[3] = Priority!Store(11, TRUE)
         /\ MainFromTheEnd[4] = Priority!Store(7, FALSE)
         /\ MainFromTheEnd[5] = Priority!Store(11, FALSE)
         /\ MainFromTheEnd[6] = Priority!Store(3, FALSE)
         /\ MainFromTheEnd[7] = Priority!EnableAlso({11})
         /\ MainFromTheEnd[8] = Priority!GlobalMIE(FALSE)
BY DEF MainFromTheEnd

\* ... and where its two siblings have which
LEMMA OtherMainOps ==
  ASSUME test # "interrupt_priority"
  PROVE  /\ Len(MainFromTheEnd) = 11
         /\ MainFromTheEnd[1] = Priority!GlobalMIE(TRUE)
         /\ MainFromTheEnd[2] = Priority!Drain
         /\ MainFromTheEnd[3] = Priority!Store(7, TRUE)
         /\ MainFromTheEnd[4] = Priority!Drain
         /\ MainFromTheEnd[5] = Priority!Store(11, TRUE)
         /\ MainFromTheEnd[6] = Priority!Store(3, TRUE)
         /\ MainFromTheEnd[7] = Priority!Store(7, FALSE)
         /\ MainFromTheEnd[8] = Priority!Store(11, FALSE)
         /\ MainFromTheEnd[9] = Priority!Store(3, FALSE)
         /\ MainFromTheEnd[10] = Priority!EnableAlso({3, 7, 11})
         /\ MainFromTheEnd[11] = Priority!GlobalMIE(FALSE)
BY DEF MainFromTheEnd

\* The handler of the last trap
LEMMA LastHandlerOps ==
  ASSUME step = LastTrap
  PROVE  /\ Len(HandlerFromTheEnd) = 3
         /\ HandlerFromTheEnd[1] = Priority!Mret
         /\ HandlerFromTheEnd[2] = Priority!Finish("pass")
         /\ HandlerFromTheEnd[3] = Priority!Store(7, FALSE)
<1>1. step # 0
  BY DEF LastTrap
<1>2. ~(step = 1 /\ test = "interrupt_priority") /\ ~(step = 3 /\ test = "race")
  BY DEF LastTrap
<1>3. HandlerFromTheEnd = <<Priority!Mret, Priority!Finish("pass"), Priority!Store(7, FALSE)>>
  BY <1>1, <1>2 DEF HandlerFromTheEnd
<1> QED
  BY <1>3

\* The handler of interrupt_priority.c that arms the other two
LEMMA ArmingHandlerOps ==
  ASSUME test = "interrupt_priority", step = 1
  PROVE  /\ Len(HandlerFromTheEnd) = 6
         /\ HandlerFromTheEnd[1] = Priority!Mret
         /\ HandlerFromTheEnd[2] = Priority!Store(7, TRUE)
         /\ HandlerFromTheEnd[3] = Priority!Drain
         /\ HandlerFromTheEnd[4] = Priority!Store(3, TRUE)
         /\ HandlerFromTheEnd[5] = Priority!EnableAlso({3, 7})
         /\ HandlerFromTheEnd[6] = Priority!Store(11, FALSE)
BY DEF HandlerFromTheEnd, LastTrap

\* The handler of interrupt_priority_race.c that arms everything again
LEMMA RacingHandlerOps ==
  ASSUME test = "race", step = 3
  PROVE  /\ Len(HandlerFromTheEnd) = 7
         /\ HandlerFromTheEnd[1] = Priority!Mret
         /\ HandlerFromTheEnd[2] = Priority!Drain
         /\ HandlerFromTheEnd[3] = Priority!Store(7, TRUE)
         /\ HandlerFromTheEnd[4] = Priority!Drain
         /\ HandlerFromTheEnd[5] = Priority!Store(11, TRUE)
         /\ HandlerFromTheEnd[6] = Priority!Store(3, TRUE)
         /\ HandlerFromTheEnd[7] = Priority!Store(7, FALSE)
BY DEF HandlerFromTheEnd, LastTrap

\* The traps whose handler arms others
Arming == (test = "interrupt_priority" /\ step = 1) \/ (test = "race" /\ step = 3)

\* The other handlers clear the cause they were called for.
LEMMA PlainHandlerOps ==
  ASSUME test \in Priority!Tests, step \in 1 .. LastTrap - 1, ~Arming
  PROVE  /\ Len(HandlerFromTheEnd) = 2
         /\ HandlerFromTheEnd[1] = Priority!Mret
         /\ \/ step \in {1, 4} /\ HandlerFromTheEnd[2] = Priority!Store(11, FALSE)
               /\ test # "interrupt_priority"
            \/ step \in {2, 5} /\ HandlerFromTheEnd[2] = Priority!Store(3, FALSE)
               /\ (test = "interrupt_priority" => step = 2)
<1>1. step \in 1 .. 5 /\ step # LastTrap /\ step # 0 /\ (test # "race" => step \in {1, 2})
  BY DEF LastTrap
<1>2. step # 3
  BY <1>1 DEF Arming, Priority!Tests
<1>3. step \in {1, 2, 4, 5}
  BY <1>1, <1>2
<1>4. HandlerFromTheEnd = <<Priority!Mret, Priority!Store(Causes[step], FALSE)>>
  BY <1>1, <1>2 DEF HandlerFromTheEnd, Arming
<1>5. (step \in {1, 4} => Causes[step] = 11) /\ (step \in {2, 5} => Causes[step] = 3)
  BY DEF Causes
<1> QED
  BY <1>1, <1>3, <1>4, <1>5 DEF Arming

\* A sequence without elements is empty.
LEMMA EmptyWhenNothingLeft ==
  ASSUME NEW S, NEW q \in Seq(S)
  PROVE  (q = <<>>) <=> Len(q) = 0
OBVIOUS

\* A sequence of one element
LEMMA OneElement ==
  ASSUME NEW x, NEW q, q = <<x>>
  PROVE  Len(q) = 1 /\ q[1] = x
OBVIOUS

\* What executing an operation of main leaves of it
LEMMA PopMain ==
  ASSUME PriorityTypes, main # <<>>, main' = Tail(main), test' = test
  PROVE  /\ MainOps \in 1 .. Len(MainFromTheEnd) /\ Head(main) = MainFromTheEnd[MainOps]
         /\ MainFromTheEnd' = MainFromTheEnd
         /\ main' \in Seq(PriorityOps) /\ MainOps' = MainOps - 1
         /\ MainOps' <= Len(MainFromTheEnd')
         /\ \A k \in 1 .. MainOps' : main'[k] = MainFromTheEnd'[MainOps' + 1 - k]
         /\ (main' = <<>>) <=> MainOps' = 0
<1> DEFINE table == MainFromTheEnd
           n == Len(table)
<1>1. /\ main \in Seq(PriorityOps) /\ MainOps \in Nat /\ MainOps > 0 /\ MainOps <= n
      /\ \A k \in 1 .. MainOps : main[k] = table[MainOps + 1 - k]
  BY DEF PriorityTypes, MainOps
<1>2. n \in Nat /\ table' = table
  <2>1. n = 8 \/ n = 11
    BY FirstMainOps, OtherMainOps
  <2> QED
    BY <2>1 DEF MainFromTheEnd
<1> HIDE DEF table
<1> HIDE DEF PriorityOps
<1>3. /\ main' \in Seq(PriorityOps) /\ MainOps' = MainOps - 1 /\ Head(main) = main[1]
      /\ \A k \in 1 .. MainOps - 1 : main'[k] = main[k + 1]
      /\ (main' = <<>>) <=> MainOps' = 0
  <2>1. main' \in Seq(PriorityOps) /\ MainOps' = MainOps - 1 /\ Head(main) = main[1]
    BY <1>1 DEF MainOps
  <2>2. ASSUME NEW k \in 1 .. MainOps - 1 PROVE main'[k] = main[k + 1]
    BY <1>1 DEF MainOps
  <2>3. (main' = <<>>) <=> MainOps' = 0
    BY <2>1, EmptyWhenNothingLeft DEF MainOps
  <2> QED
    BY <2>1, <2>2, <2>3
<1>4. ASSUME NEW k \in 1 .. MainOps' PROVE main'[k] = table[MainOps' + 1 - k]
  <2>1. k \in 1 .. MainOps - 1 /\ k + 1 \in 1 .. MainOps
    BY <1>1, <1>3
  <2>3. main'[k] = main[k + 1]
    BY <1>3, <2>1
  <2>2. MainOps + 1 - (k + 1) = MainOps' + 1 - k
    BY <1>1, <1>3
  <2> QED
    BY <1>1, <2>1, <2>2, <2>3
<1>5. MainOps \in 1 .. n /\ MainOps - 1 <= n /\ MainOps + 1 - 1 = MainOps
  BY <1>1, <1>2
<1>6. Head(main) = table[MainOps]
  BY <1>1, <1>3, <1>5
<1> QED
  BY <1>2, <1>3, <1>4, <1>5, <1>6 DEF table

\* How many operations the handlers have
LEMMA HandlerLength ==
  ASSUME PriorityTypes, step > 0
  PROVE  Len(HandlerFromTheEnd) \in Nat /\ HandlerFromTheEnd[1] = Priority!Mret
<1>1. CASE step = LastTrap
  BY <1>1, LastHandlerOps
<1>2. CASE step # LastTrap /\ Arming
  <2>1. CASE test = "interrupt_priority" /\ step = 1
    BY <2>1, ArmingHandlerOps
  <2>2. CASE test = "race" /\ step = 3
    BY <2>2, RacingHandlerOps
  <2> QED
    BY <1>2, <2>1, <2>2 DEF Arming
<1>3. CASE step # LastTrap /\ ~Arming
  <2>1. step \in 1 .. LastTrap - 1 /\ test \in Priority!Tests
    BY <1>3 DEF PriorityTypes, LastTrap
  <2> QED
    BY <1>3, <2>1, PlainHandlerOps
<1> QED
  BY <1>1, <1>2, <1>3

\* What executing an operation of a handler leaves of it
LEMMA PopHandler ==
  ASSUME PriorityTypes, ~Failing, handler # <<>>, handler' = Tail(handler), step > 0,
         test' = test, step' = step
  PROVE  /\ TrapOps \in 1 .. Len(HandlerFromTheEnd)
         /\ Head(handler) = HandlerFromTheEnd[TrapOps]
         /\ HandlerFromTheEnd' = HandlerFromTheEnd /\ ~Failing'
         /\ handler' \in Seq(PriorityOps) /\ TrapOps' = TrapOps - 1
         /\ TrapOps' <= Len(HandlerFromTheEnd')
         /\ \A k \in 1 .. TrapOps' : handler'[k] = HandlerFromTheEnd'[TrapOps' + 1 - k]
         /\ (handler' = <<>>) <=> TrapOps' = 0
<1> DEFINE table == HandlerFromTheEnd
           n == Len(table)
<1>1. /\ handler \in Seq(PriorityOps) /\ TrapOps \in Nat /\ TrapOps > 0 /\ TrapOps <= n
      /\ \A k \in 1 .. TrapOps : handler[k] = table[TrapOps + 1 - k]
  BY DEF PriorityTypes, TrapOps
<1>2. n \in Nat /\ table[1] = Priority!Mret /\ table' = table
  BY HandlerLength DEF HandlerFromTheEnd, LastTrap
<1> HIDE DEF table
<1> HIDE DEF PriorityOps
<1>3. /\ handler' \in Seq(PriorityOps) /\ TrapOps' = TrapOps - 1 /\ Head(handler) = handler[1]
      /\ \A k \in 1 .. TrapOps - 1 : handler'[k] = handler[k + 1]
      /\ (handler' = <<>>) <=> TrapOps' = 0
  <2>1. handler' \in Seq(PriorityOps) /\ TrapOps' = TrapOps - 1 /\ Head(handler) = handler[1]
    BY <1>1 DEF TrapOps
  <2>2. ASSUME NEW k \in 1 .. TrapOps - 1 PROVE handler'[k] = handler[k + 1]
    BY <1>1 DEF TrapOps
  <2>3. (handler' = <<>>) <=> TrapOps' = 0
    BY <2>1, EmptyWhenNothingLeft DEF TrapOps
  <2> QED
    BY <2>1, <2>2, <2>3
<1>4. ASSUME NEW k \in 1 .. TrapOps' PROVE handler'[k] = table[TrapOps' + 1 - k]
  <2>1. k \in 1 .. TrapOps - 1 /\ k + 1 \in 1 .. TrapOps
    BY <1>1, <1>3
  <2>3. handler'[k] = handler[k + 1]
    BY <1>3, <2>1
  <2>2. TrapOps + 1 - (k + 1) = TrapOps' + 1 - k
    BY <1>1, <1>3
  <2> QED
    BY <1>1, <2>1, <2>2, <2>3
<1>5. TrapOps \in 1 .. n /\ TrapOps - 1 <= n /\ TrapOps + 1 - 1 = TrapOps
  BY <1>1, <1>2
<1>6. Head(handler) = table[TrapOps]
  BY <1>1, <1>3, <1>5
<1>7. ~Failing'
  <2>1. SUFFICES ASSUME handler' = <<Priority!Finish("fail")>> PROVE FALSE
    BY DEF Failing
  <2>2. Len(handler') = 1 /\ handler'[1] = Priority!Finish("fail")
    BY ONLY <2>1, OneElement
  <2>3. TrapOps' = 1
    BY <2>2 DEF TrapOps
  <2>4. 1 \in 1 .. TrapOps' /\ TrapOps' + 1 - 1 = 1
    BY <2>3
  <2>5. handler'[1] = table[1]
    BY <1>4, <2>4
  <2> QED
    BY SMTT(60), <1>2, <2>2, <2>5, PriorityFields
<1> QED
  BY <1>2, <1>3, <1>4, <1>5, <1>6, <1>7 DEF table

\* What is known when a handler executes an operation
LEMMA HandlerStep ==
  ASSUME PriorityInv, NEW k, Priority!Execute(k), ~Failing, handler # <<>>,
         test' = test, step' = step
  PROVE  /\ finish = "none" /\ PriorityTypes /\ Control /\ Raises /\ Learnt
         /\ step \in 1 .. LastTrap /\ main = <<>> /\ main' = main
         /\ Priority!Current = Head(handler) /\ Head(handler).op = k
         /\ TrapOps \in 1 .. Len(HandlerFromTheEnd)
         /\ Head(handler) = HandlerFromTheEnd[TrapOps]
         /\ HandlerFromTheEnd' = HandlerFromTheEnd /\ ~Failing'
         /\ handler' \in Seq(PriorityOps) /\ TrapOps' = TrapOps - 1
         /\ TrapOps' <= Len(HandlerFromTheEnd')
         /\ \A l \in 1 .. TrapOps' : handler'[l] = HandlerFromTheEnd'[TrapOps' + 1 - l]
         /\ (handler' = <<>>) <=> TrapOps' = 0
<1>1. /\ finish = "none" /\ main' = main /\ handler' = Tail(handler)
      /\ Head(handler).op = k
  BY DEF Priority!Execute
<1>2. PriorityTypes /\ Control /\ Raises /\ Learnt
  BY <1>1 DEF PriorityInv
<1>3. step > 0 /\ main = <<>>
  BY <1>2 DEF Control
<1>4. step \in 1 .. LastTrap
  BY <1>2, <1>3 DEF PriorityTypes, LastTrap
<1>5. Priority!Current = Head(handler)
  BY DEF Priority!Current
<1> QED
  BY <1>1, <1>2, <1>3, <1>4, <1>5, PopHandler

\* What is known when main executes an operation
LEMMA MainStep ==
  ASSUME PriorityInv, NEW k, Priority!Execute(k), handler = <<>>,
         test' = test, step' = step
  PROVE  /\ finish = "none" /\ PriorityTypes /\ Control /\ Raises /\ Learnt
         /\ step = 0 /\ main # <<>> /\ handler' = <<>> /\ ~Failing /\ ~Failing'
         /\ Priority!Current = Head(main) /\ Head(main).op = k
         /\ MainOps \in 1 .. Len(MainFromTheEnd) /\ Head(main) = MainFromTheEnd[MainOps]
         /\ MainFromTheEnd' = MainFromTheEnd
         /\ main' \in Seq(PriorityOps) /\ MainOps' = MainOps - 1
         /\ MainOps' <= Len(MainFromTheEnd')
         /\ \A l \in 1 .. MainOps' : main'[l] = MainFromTheEnd'[MainOps' + 1 - l]
         /\ (main' = <<>>) <=> MainOps' = 0
<1>1. /\ finish = "none" /\ main' = Tail(main) /\ handler' = <<>> /\ main # <<>>
      /\ Head(main).op = k
  BY DEF Priority!Execute
<1>2. ~Failing /\ ~Failing'
  <2>1. <<>> # <<Priority!Finish("fail")>>
    OBVIOUS
  <2> QED
    BY <1>1, <2>1 DEF Failing
<1>3. PriorityTypes /\ Control /\ Raises /\ Learnt
  BY <1>1, <1>2 DEF PriorityInv
<1>4. step = 0
  BY <1>1, <1>3 DEF PriorityTypes, Control, LastTrap
<1>5. Priority!Current = Head(main)
  BY DEF Priority!Current
<1> QED
  BY <1>1, <1>2, <1>3, <1>4, <1>5, PopMain

\* A handler that has found the wrong cause only finishes.
LEMMA FailingStep ==
  ASSUME NEW k, Priority!Execute(k), Failing
  PROVE  /\ finish = "none" /\ k = "finish" /\ handler' = <<>> /\ main' = main
         /\ Priority!Current = Priority!Finish("fail")
<1> DEFINE f == Priority!Finish("fail")
<1>1. handler = <<f>>
  BY DEF Failing
<1>2. f.op = "finish"
  BY PriorityFields
<1> HIDE DEF f
<1>3. handler # <<>> /\ Head(handler) = f /\ Tail(handler) = <<>>
  BY ONLY <1>1
<1>4. finish = "none" /\ handler' = Tail(handler) /\ main' = main /\ Head(handler).op = k
  BY <1>3 DEF Priority!Execute
<1> QED
  BY <1>2, <1>3, <1>4 DEF Priority!Current, f

\* Nothing but the program and the line has changed.
LEMMA StillLearnt ==
  ASSUME Learnt, test' = test, depth' = depth, order' = order, step' = step
  PROVE  Learnt'
BY DEF Learnt, Leads

\* Which stores the handlers make
LEMMA HandlerStores ==
  ASSUME PriorityTypes, step \in 1 .. LastTrap, TrapOps \in 1 .. Len(HandlerFromTheEnd),
         HandlerFromTheEnd[TrapOps].op = "store"
  PROVE  \/ step = LastTrap /\ TrapOps = 3
            /\ HandlerFromTheEnd[TrapOps] = Priority!Store(7, FALSE)
         \/ /\ test = "interrupt_priority" /\ step = 1
            /\ \/ TrapOps = 6 /\ HandlerFromTheEnd[TrapOps] = Priority!Store(11, FALSE)
               \/ TrapOps = 4 /\ HandlerFromTheEnd[TrapOps] = Priority!Store(3, TRUE)
               \/ TrapOps = 2 /\ HandlerFromTheEnd[TrapOps] = Priority!Store(7, TRUE)
         \/ /\ test = "race" /\ step = 3
            /\ \/ TrapOps = 7 /\ HandlerFromTheEnd[TrapOps] = Priority!Store(7, FALSE)
               \/ TrapOps = 6 /\ HandlerFromTheEnd[TrapOps] = Priority!Store(3, TRUE)
               \/ TrapOps = 5 /\ HandlerFromTheEnd[TrapOps] = Priority!Store(11, TRUE)
               \/ TrapOps = 3 /\ HandlerFromTheEnd[TrapOps] = Priority!Store(7, TRUE)
         \/ /\ step # LastTrap /\ ~Arming /\ TrapOps = 2
            /\ \/ step \in {1, 4} /\ test # "interrupt_priority"
                  /\ HandlerFromTheEnd[TrapOps] = Priority!Store(11, FALSE)
               \/ step \in {2, 5} /\ HandlerFromTheEnd[TrapOps] = Priority!Store(3, FALSE)
                  /\ (test = "interrupt_priority" => step = 2)
<1>1. CASE step = LastTrap
  <2>1. TrapOps \in 1 .. 3
    BY <1>1, LastHandlerOps
  <2>2. HandlerFromTheEnd[1].op # "store" /\ HandlerFromTheEnd[2].op # "store"
    BY <1>1, LastHandlerOps, PriorityFields
  <2>3. TrapOps = 3
    BY <2>1, <2>2
  <2> QED
    BY <1>1, <2>3, LastHandlerOps
<1>2. CASE test = "interrupt_priority" /\ step = 1
  <2>1. TrapOps \in 1 .. 6
    BY <1>2, ArmingHandlerOps
  <2>2. HandlerFromTheEnd[1].op # "store" /\ HandlerFromTheEnd[3].op # "store"
        /\ HandlerFromTheEnd[5].op # "store"
    BY <1>2, ArmingHandlerOps, PriorityFields
  <2>3. TrapOps \in {2, 4, 6}
    BY <2>1, <2>2
  <2> QED
    BY <1>2, <2>3, ArmingHandlerOps
<1>3. CASE test = "race" /\ step = 3
  <2>1. TrapOps \in 1 .. 7
    BY <1>3, RacingHandlerOps
  <2>2. HandlerFromTheEnd[1].op # "store" /\ HandlerFromTheEnd[2].op # "store"
        /\ HandlerFromTheEnd[4].op # "store"
    BY <1>3, RacingHandlerOps, PriorityFields
  <2>3. TrapOps \in {3, 5, 6, 7}
    BY <2>1, <2>2
  <2> QED
    BY <1>3, <2>3, RacingHandlerOps
<1>4. CASE step # LastTrap /\ ~Arming
  <2>1. step \in 1 .. LastTrap - 1 /\ test \in Priority!Tests
    BY <1>4 DEF PriorityTypes, LastTrap
  <2>2. TrapOps \in 1 .. 2
    BY <1>4, <2>1, PlainHandlerOps
  <2>3. HandlerFromTheEnd[1].op # "store"
    BY <1>4, <2>1, PlainHandlerOps, PriorityFields
  <2>4. TrapOps = 2
    BY <2>2, <2>3
  <2> QED
    BY <1>4, <2>1, <2>4, PlainHandlerOps
<1> QED
  BY <1>1, <1>2, <1>3, <1>4 DEF Arming

\* Which stores main makes
LEMMA MainStores ==
  ASSUME MainOps \in 1 .. Len(MainFromTheEnd), MainFromTheEnd[MainOps].op = "store"
  PROVE  \/ /\ test = "interrupt_priority"
            /\ \/ MainOps = 3 /\ MainFromTheEnd[MainOps] = Priority!Store(11, TRUE)
               \/ MainOps = 4 /\ MainFromTheEnd[MainOps] = Priority!Store(7, FALSE)
               \/ MainOps = 5 /\ MainFromTheEnd[MainOps] = Priority!Store(11, FALSE)
               \/ MainOps = 6 /\ MainFromTheEnd[MainOps] = Priority!Store(3, FALSE)
         \/ /\ test # "interrupt_priority"
            /\ \/ MainOps = 3 /\ MainFromTheEnd[MainOps] = Priority!Store(7, TRUE)
               \/ MainOps = 5 /\ MainFromTheEnd[MainOps] = Priority!Store(11, TRUE)
               \/ MainOps = 6 /\ MainFromTheEnd[MainOps] = Priority!Store(3, TRUE)
               \/ MainOps = 7 /\ MainFromTheEnd[MainOps] = Priority!Store(7, FALSE)
               \/ MainOps = 8 /\ MainFromTheEnd[MainOps] = Priority!Store(11, FALSE)
               \/ MainOps = 9 /\ MainFromTheEnd[MainOps] = Priority!Store(3, FALSE)
<1>1. CASE test = "interrupt_priority"
  <2>1. MainOps \in 1 .. 8
    BY <1>1, FirstMainOps
  <2>2. MainFromTheEnd[1].op # "store" /\ MainFromTheEnd[2].op # "store"
        /\ MainFromTheEnd[7].op # "store" /\ MainFromTheEnd[8].op # "store"
    BY <1>1, FirstMainOps, PriorityFields
  <2>3. MainOps \in {3, 4, 5, 6}
    BY <2>1, <2>2
  <2> QED
    BY <1>1, <2>3, FirstMainOps
<1>2. CASE test # "interrupt_priority"
  <2>1. MainOps \in 1 .. 11
    BY <1>2, OtherMainOps
  <2>2. MainFromTheEnd[1].op # "store" /\ MainFromTheEnd[2].op # "store"
        /\ MainFromTheEnd[4].op # "store" /\ MainFromTheEnd[10].op # "store"
        /\ MainFromTheEnd[11].op # "store"
    BY <1>2, OtherMainOps, PriorityFields
  <2>3. MainOps \in {3, 5, 6, 7, 8, 9}
    BY <2>1, <2>2
  <2> QED
    BY <1>2, <2>3, OtherMainOps
<1> QED
  BY <1>1, <1>2

\* The effect of a store on each interrupt
LEMMA StoreOn ==
  ASSUME posted \in Seq(Stores), Len(posted) <= depth, depth \in Nat, depth' = depth,
         line \subseteq {3, 7, 11}, NEW s \in Stores, NEW x \in {3, 7, 11}, NEW b \in BOOLEAN,
         s = Priority!Store(x, b),
         \/ depth = 0 /\ line' = Priority!Apply(s, line) /\ UNCHANGED posted
         \/ Len(posted) < depth /\ posted' = Append(posted, s) /\ UNCHANGED line
  PROVE  /\ posted' \in Seq(Stores) /\ Len(posted') <= depth'
         /\ line' \subseteq {3, 7, 11}
         /\ x = 3 => /\ b = TRUE => Up(3)'
                     /\ b = FALSE => Down(3)'
         /\ x = 7 => /\ b = TRUE => Up(7)'
                     /\ b = FALSE => Down(7)'
         /\ x = 11 => /\ b = TRUE => Up(11)'
                      /\ b = FALSE => Down(11)'
         /\ x # 3 => (Up(3) => Up(3)') /\ (Down(3) => Down(3)') /\ (Steady(3) => Steady(3)')
         /\ x # 7 => (Up(7) => Up(7)') /\ (Down(7) => Down(7)') /\ (Steady(7) => Steady(7)')
         /\ x # 11 => (Up(11) => Up(11)') /\ (Down(11) => Down(11)')
<1>1. s.int = x /\ s.on = b
  BY PriorityFields
<1> QED
  BY <1>1, StoreEffect

\* A step of a handler keeps the types.
LEMMA HandlerTypes ==
  ASSUME PriorityTypes, test' = test, depth' = depth, order' = order, step' = step,
         main' = main,
         mie' \subseteq Priority!Interrupts, line' \subseteq Priority!Interrupts,
         mstatus_mie' \in BOOLEAN, posted' \in Seq(Stores), Len(posted') <= depth',
         finish' \in {"none", "pass", "fail"},
         handler' \in Seq(PriorityOps), TrapOps' <= Len(HandlerFromTheEnd'),
         \A l \in 1 .. TrapOps' : handler'[l] = HandlerFromTheEnd'[TrapOps' + 1 - l]
  PROVE  PriorityTypes'
<1>1. MainFromTheEnd' = MainFromTheEnd /\ MainOps' = MainOps /\ LastTrap' = LastTrap
  BY DEF MainFromTheEnd, MainOps, LastTrap
<1>2. /\ main' \in Seq(PriorityOps) /\ MainOps' <= Len(MainFromTheEnd')
      /\ \A k \in 1 .. MainOps' : main'[k] = MainFromTheEnd'[MainOps' + 1 - k]
  BY <1>1 DEF PriorityTypes
<1>3. /\ test' \in Priority!Tests /\ depth' \in Nat /\ order' \in Priority!Orders
      /\ step' \in 0 .. LastTrap'
  BY <1>1 DEF PriorityTypes
<1> QED
  BY <1>2, <1>3 DEF PriorityTypes

\* A step of main keeps the types.
LEMMA MainTypes ==
  ASSUME PriorityTypes, test' = test, depth' = depth, order' = order, step' = step,
         handler' = handler,
         mie' \subseteq Priority!Interrupts, line' \subseteq Priority!Interrupts,
         mstatus_mie' \in BOOLEAN, posted' \in Seq(Stores), Len(posted') <= depth',
         finish' \in {"none", "pass", "fail"},
         main' \in Seq(PriorityOps), MainOps' <= Len(MainFromTheEnd'),
         \A l \in 1 .. MainOps' : main'[l] = MainFromTheEnd'[MainOps' + 1 - l]
  PROVE  PriorityTypes'
<1>1. /\ HandlerFromTheEnd' = HandlerFromTheEnd /\ TrapOps' = TrapOps
      /\ LastTrap' = LastTrap /\ (Failing' <=> Failing)
  BY DEF HandlerFromTheEnd, TrapOps, LastTrap, Failing
<1>2. /\ handler' \in Seq(PriorityOps)
      /\ ~Failing' => TrapOps' <= Len(HandlerFromTheEnd')
      /\ ~Failing' =>
           \A k \in 1 .. TrapOps' : handler'[k] = HandlerFromTheEnd'[TrapOps' + 1 - k]
  BY <1>1 DEF PriorityTypes
<1>3. /\ test' \in Priority!Tests /\ depth' \in Nat /\ order' \in Priority!Orders
      /\ step' \in 0 .. LastTrap'
  BY <1>1 DEF PriorityTypes
<1> QED
  BY <1>2, <1>3 DEF PriorityTypes

\* main or a handler stores.
LEMMA PriorityStoreStep == ASSUME PriorityInv, Priority!DoStore PROVE PriorityInv'
<1>1. /\ Priority!Execute("store") /\ finish' = finish /\ test' = test /\ depth' = depth
      /\ order' = order /\ step' = step /\ mie' = mie /\ mstatus_mie' = mstatus_mie
      /\ \/ depth = 0 /\ line' = Priority!Apply(Priority!Current, line) /\ UNCHANGED posted
         \/ Len(posted) < depth /\ posted' = Append(posted, Priority!Current)
            /\ UNCHANGED line
  BY DEF Priority!DoStore
<1>2. ~Failing
  BY <1>1, FailingStep
<1>3. finish = "none" /\ PriorityTypes
  BY <1>1 DEF PriorityInv, Priority!Execute
<1>4. /\ posted \in Seq(Stores) /\ Len(posted) <= depth /\ depth \in Nat
      /\ line \subseteq {3, 7, 11} /\ mie \subseteq Priority!Interrupts
      /\ mstatus_mie \in BOOLEAN
  BY <1>3, CauseNumbers DEF PriorityTypes
<1>5. CASE handler # <<>>
  <2>1. /\ Control /\ Raises /\ Learnt
        /\ step \in 1 .. LastTrap /\ main = <<>> /\ main' = main
        /\ Priority!Current = Head(handler) /\ Head(handler).op = "store"
        /\ TrapOps \in 1 .. Len(HandlerFromTheEnd)
        /\ Head(handler) = HandlerFromTheEnd[TrapOps]
        /\ ~Failing'
        /\ handler' \in Seq(PriorityOps) /\ TrapOps' = TrapOps - 1
        /\ TrapOps' <= Len(HandlerFromTheEnd')
        /\ \A l \in 1 .. TrapOps' : handler'[l] = HandlerFromTheEnd'[TrapOps' + 1 - l]
        /\ (handler' = <<>>) <=> TrapOps' = 0
    BY <1>1, <1>2, <1>5, HandlerStep
  <2>2. PICK x \in {3, 7, 11}, b \in BOOLEAN :
          /\ Priority!Current = Priority!Store(x, b)
          /\ \/ step = LastTrap /\ TrapOps = 3
             \/ /\ test = "interrupt_priority" /\ step = 1
                /\ \/ TrapOps = 6 /\ x = 11 /\ b = FALSE
                   \/ TrapOps = 4 /\ x = 3 /\ b = TRUE
                   \/ TrapOps = 2 /\ x = 7 /\ b = TRUE
             \/ /\ test = "race" /\ step = 3
                /\ \/ TrapOps = 7 /\ x = 7 /\ b = FALSE
                   \/ TrapOps = 6 /\ x = 3 /\ b = TRUE
                   \/ TrapOps = 5 /\ x = 11 /\ b = TRUE
                   \/ TrapOps = 3 /\ x = 7 /\ b = TRUE
             \/ /\ step # LastTrap /\ ~Arming /\ TrapOps = 2
                /\ \/ step \in {1, 4} /\ test # "interrupt_priority" /\ x = 11 /\ b = FALSE
                   \/ step \in {2, 5} /\ x = 3 /\ b = FALSE
                      /\ (test = "interrupt_priority" => step = 2)
    BY <1>3, <2>1, HandlerStores
  <2>3. Priority!Store(x, b) \in Stores
    BY PriorityFields
  <2>4. /\ posted' \in Seq(Stores) /\ Len(posted') <= depth'
        /\ line' \subseteq {3, 7, 11}
        /\ x = 3 => /\ b = TRUE => Up(3)'
                    /\ b = FALSE => Down(3)'
        /\ x = 7 => /\ b = TRUE => Up(7)'
                    /\ b = FALSE => Down(7)'
        /\ x = 11 => /\ b = TRUE => Up(11)'
                     /\ b = FALSE => Down(11)'
        /\ x # 3 => (Up(3) => Up(3)') /\ (Down(3) => Down(3)') /\ (Steady(3) => Steady(3)')
        /\ x # 7 => (Up(7) => Up(7)') /\ (Down(7) => Down(7)') /\ (Steady(7) => Steady(7)')
        /\ x # 11 => (Up(11) => Up(11)') /\ (Down(11) => Down(11)')
    BY <1>1, <1>4, <2>2, <2>3, StoreOn
  <2>5. PriorityTypes'
    BY <1>1, <1>3, <1>4, <2>1, <2>4, HandlerTypes, CauseNumbers
  <2>6. LastTrap' = LastTrap /\ MainOps' = MainOps
    BY <1>1, <2>1 DEF LastTrap, MainOps
  <2>7. Control'
    BY <1>1, <2>1, <2>2, <2>6 DEF Control, LastTrap
  <2>8. Raises'
    BY <1>1, <2>1, <2>2, <2>4, <2>6 DEF Raises, Arming, LastTrap
  <2>9. Learnt'
    BY <1>1, <2>1, StillLearnt
  <2> QED
    BY <1>1, <1>3, <2>1, <2>5, <2>7, <2>8, <2>9 DEF PriorityInv
<1>6. CASE handler = <<>>
  <2>1. /\ Control /\ Raises /\ Learnt
        /\ step = 0 /\ main # <<>> /\ handler' = <<>> /\ ~Failing'
        /\ Priority!Current = Head(main) /\ Head(main).op = "store"
        /\ MainOps \in 1 .. Len(MainFromTheEnd) /\ Head(main) = MainFromTheEnd[MainOps]
        /\ main' \in Seq(PriorityOps) /\ MainOps' = MainOps - 1
        /\ MainOps' <= Len(MainFromTheEnd')
        /\ \A l \in 1 .. MainOps' : main'[l] = MainFromTheEnd'[MainOps' + 1 - l]
        /\ (main' = <<>>) <=> MainOps' = 0
    BY <1>1, <1>6, MainStep
  <2>2. PICK x \in {3, 7, 11}, b \in BOOLEAN :
          /\ Priority!Current = Priority!Store(x, b)
          /\ \/ /\ test = "interrupt_priority"
                /\ \/ MainOps = 3 /\ x = 11 /\ b = TRUE
                   \/ MainOps = 4 /\ x = 7 /\ b = FALSE
                   \/ MainOps = 5 /\ x = 11 /\ b = FALSE
                   \/ MainOps = 6 /\ x = 3 /\ b = FALSE
             \/ /\ test # "interrupt_priority"
                /\ \/ MainOps = 3 /\ x = 7 /\ b = TRUE
                   \/ MainOps = 5 /\ x = 11 /\ b = TRUE
                   \/ MainOps = 6 /\ x = 3 /\ b = TRUE
                   \/ MainOps = 7 /\ x = 7 /\ b = FALSE
                   \/ MainOps = 8 /\ x = 11 /\ b = FALSE
                   \/ MainOps = 9 /\ x = 3 /\ b = FALSE
    BY <2>1, MainStores
  <2>3. Priority!Store(x, b) \in Stores
    BY PriorityFields
  <2>4. /\ posted' \in Seq(Stores) /\ Len(posted') <= depth'
        /\ line' \subseteq {3, 7, 11}
        /\ x = 3 => /\ b = TRUE => Up(3)'
                    /\ b = FALSE => Down(3)'
        /\ x = 7 => /\ b = TRUE => Up(7)'
                    /\ b = FALSE => Down(7)'
        /\ x = 11 => /\ b = TRUE => Up(11)'
                     /\ b = FALSE => Down(11)'
        /\ x # 3 => (Up(3) => Up(3)') /\ (Down(3) => Down(3)') /\ (Steady(3) => Steady(3)')
        /\ x # 7 => (Up(7) => Up(7)') /\ (Down(7) => Down(7)') /\ (Steady(7) => Steady(7)')
        /\ x # 11 => (Up(11) => Up(11)') /\ (Down(11) => Down(11)')
    BY <1>1, <1>4, <2>2, <2>3, StoreOn
  <2>5. PriorityTypes'
    BY <1>1, <1>3, <1>4, <1>6, <2>1, <2>4, MainTypes, CauseNumbers
  <2>6. LastTrap' = LastTrap /\ TrapOps' = TrapOps
    BY <1>1, <1>6, <2>1 DEF LastTrap, TrapOps
  <2>7. Control'
    BY <1>1, <1>6, <2>1, <2>2, <2>6 DEF Control
  <2>8. Raises'
    BY <1>1, <2>1, <2>2, <2>4, <2>6 DEF Raises
  <2>9. Learnt'
    BY <1>1, <2>1, StillLearnt
  <2> QED
    BY <1>1, <1>3, <2>1, <2>5, <2>7, <2>8, <2>9 DEF PriorityInv
<1> QED
  BY <1>5, <1>6

\* What else the handlers do
LEMMA HandlerOthers ==
  ASSUME PriorityTypes, step \in 1 .. LastTrap, TrapOps \in 1 .. Len(HandlerFromTheEnd),
         NEW k, HandlerFromTheEnd[TrapOps].op = k
  PROVE  /\ k = "drain" => \/ test = "interrupt_priority" /\ step = 1 /\ TrapOps = 3
                           \/ test = "race" /\ step = 3 /\ TrapOps \in {2, 4}
         /\ k = "mie" => /\ test = "interrupt_priority" /\ step = 1 /\ TrapOps = 5
                         /\ HandlerFromTheEnd[TrapOps] = Priority!EnableAlso({3, 7})
         /\ k = "mret" => TrapOps = 1
         /\ k = "finish" => /\ step = LastTrap /\ TrapOps = 2
                            /\ HandlerFromTheEnd[TrapOps] = Priority!Finish("pass")
         /\ k # "mstatus"
<1>1. CASE step = LastTrap
  <2>1. TrapOps \in 1 .. 3
    BY <1>1, LastHandlerOps
  <2>2. /\ HandlerFromTheEnd[1].op = "mret" /\ HandlerFromTheEnd[2].op = "finish"
        /\ HandlerFromTheEnd[3].op = "store"
    BY <1>1, LastHandlerOps, KnownFields
  <2> QED
    BY <1>1, <2>1, <2>2, LastHandlerOps
<1>2. CASE test = "interrupt_priority" /\ step = 1
  <2>1. TrapOps \in 1 .. 6
    BY <1>2, ArmingHandlerOps
  <2>2. /\ HandlerFromTheEnd[1].op = "mret" /\ HandlerFromTheEnd[2].op = "store"
        /\ HandlerFromTheEnd[3].op = "drain" /\ HandlerFromTheEnd[4].op = "store"
        /\ HandlerFromTheEnd[5].op = "mie" /\ HandlerFromTheEnd[6].op = "store"
    BY ZenonT(60), <1>2, ArmingHandlerOps, KnownFields
  <2> QED
    BY <1>2, <2>1, <2>2, ArmingHandlerOps
<1>3. CASE test = "race" /\ step = 3
  <2>1. TrapOps \in 1 .. 7
    BY <1>3, RacingHandlerOps
  <2>2. /\ HandlerFromTheEnd[1].op = "mret" /\ HandlerFromTheEnd[2].op = "drain"
        /\ HandlerFromTheEnd[3].op = "store" /\ HandlerFromTheEnd[4].op = "drain"
        /\ HandlerFromTheEnd[5].op = "store" /\ HandlerFromTheEnd[6].op = "store"
        /\ HandlerFromTheEnd[7].op = "store"
    BY ZenonT(60), <1>3, RacingHandlerOps, KnownFields
  <2> QED
    BY <1>3, <2>1, <2>2
<1>4. CASE step # LastTrap /\ ~Arming
  <2>1. step \in 1 .. LastTrap - 1 /\ test \in Priority!Tests
    BY <1>4 DEF PriorityTypes, LastTrap
  <2>2. TrapOps \in 1 .. 2
    BY <1>4, <2>1, PlainHandlerOps
  <2>3. HandlerFromTheEnd[1].op = "mret" /\ HandlerFromTheEnd[2].op = "store"
    BY <1>4, <2>1, PlainHandlerOps, KnownFields
  <2> QED
    BY <2>2, <2>3
<1> QED
  BY <1>1, <1>2, <1>3, <1>4 DEF Arming

\* What else main does
LEMMA MainOthers ==
  ASSUME MainOps \in 1 .. Len(MainFromTheEnd), NEW k, MainFromTheEnd[MainOps].op = k
  PROVE  /\ k = "drain" => MainOps = 2 \/ (MainOps = 4 /\ test # "interrupt_priority")
         /\ k = "mie" =>
              \/ /\ test = "interrupt_priority" /\ MainOps = 7
                 /\ MainFromTheEnd[MainOps] = Priority!EnableAlso({11})
              \/ /\ test # "interrupt_priority" /\ MainOps = 10
                 /\ MainFromTheEnd[MainOps] = Priority!EnableAlso({3, 7, 11})
         /\ k = "mstatus" =>
              \/ MainOps = 1 /\ MainFromTheEnd[MainOps] = Priority!GlobalMIE(TRUE)
              \/ MainOps \in {8, 11} /\ MainFromTheEnd[MainOps] = Priority!GlobalMIE(FALSE)
                 /\ (test = "interrupt_priority" => MainOps = 8)
         /\ k # "mret" /\ k # "finish"
<1>1. CASE test = "interrupt_priority"
  <2>1. MainOps \in 1 .. 8
    BY <1>1, FirstMainOps
  <2>2. /\ MainFromTheEnd[1].op = "mstatus" /\ MainFromTheEnd[2].op = "drain"
        /\ MainFromTheEnd[3].op = "store" /\ MainFromTheEnd[4].op = "store"
        /\ MainFromTheEnd[5].op = "store" /\ MainFromTheEnd[6].op = "store"
        /\ MainFromTheEnd[7].op = "mie" /\ MainFromTheEnd[8].op = "mstatus"
    BY ZenonT(60), <1>1, FirstMainOps, KnownFields
  <2>3. /\ k = "drain" => MainOps = 2
        /\ k = "mie" => MainOps = 7
        /\ k = "mstatus" => MainOps \in {1, 8}
        /\ k # "mret" /\ k # "finish"
    BY <2>1, <2>2
  <2>4. /\ MainOps = 7 => MainFromTheEnd[MainOps] = Priority!EnableAlso({11})
        /\ MainOps = 1 => MainFromTheEnd[MainOps] = Priority!GlobalMIE(TRUE)
        /\ MainOps = 8 => MainFromTheEnd[MainOps] = Priority!GlobalMIE(FALSE)
    BY <1>1, FirstMainOps
  <2> QED
    BY <1>1, <2>3, <2>4
<1>2. CASE test # "interrupt_priority"
  <2>1. MainOps \in 1 .. 11
    BY <1>2, OtherMainOps
  <2>2. /\ MainFromTheEnd[1].op = "mstatus" /\ MainFromTheEnd[2].op = "drain"
        /\ MainFromTheEnd[3].op = "store" /\ MainFromTheEnd[4].op = "drain"
        /\ MainFromTheEnd[5].op = "store" /\ MainFromTheEnd[6].op = "store"
        /\ MainFromTheEnd[7].op = "store" /\ MainFromTheEnd[8].op = "store"
        /\ MainFromTheEnd[9].op = "store" /\ MainFromTheEnd[10].op = "mie"
        /\ MainFromTheEnd[11].op = "mstatus"
    BY ZenonT(60), <1>2, OtherMainOps, KnownFields
  <2>3. /\ k = "drain" => MainOps \in {2, 4}
        /\ k = "mie" => MainOps = 10
        /\ k = "mstatus" => MainOps \in {1, 11}
        /\ k # "mret" /\ k # "finish"
    BY <2>1, <2>2
  <2>4. /\ MainOps = 10 => MainFromTheEnd[MainOps] = Priority!EnableAlso({3, 7, 11})
        /\ MainOps = 1 => MainFromTheEnd[MainOps] = Priority!GlobalMIE(TRUE)
        /\ MainOps = 11 => MainFromTheEnd[MainOps] = Priority!GlobalMIE(FALSE)
    BY <1>2, OtherMainOps
  <2> QED
    BY <1>2, <2>3, <2>4
<1> QED
  BY <1>1, <1>2

\* The line and the stores in flight have not changed.
LEMMA StillRaised ==
  ASSUME line' = line, posted' = posted
  PROVE  /\ (Up(3)' <=> Up(3)) /\ (Up(7)' <=> Up(7)) /\ (Up(11)' <=> Up(11))
         /\ (Down(3)' <=> Down(3)) /\ (Down(11)' <=> Down(11))
         /\ (Steady(3)' <=> Steady(3)) /\ (Steady(7)' <=> Steady(7))
BY DEF Up, Down, Steady, Untouched, LastStore

\* main or a handler executes a fence, enables an interrupt, writes mstatus or
\* returns: the line and the stores in flight stay as they are.
LEMMA PriorityQuietStep ==
  ASSUME PriorityInv,
         Priority!DoDrain \/ Priority!DoMie \/ Priority!DoMstatus \/ Priority!DoMret
  PROVE  PriorityInv'
<1>1. PICK k \in {"drain", "mie", "mstatus", "mret"} :
        /\ Priority!Execute(k) /\ finish' = finish /\ test' = test /\ depth' = depth
        /\ order' = order /\ step' = step /\ line' = line /\ posted' = posted
        /\ k = "drain" => posted = <<>>
        /\ k = "mie" => mie' = mie \union Priority!Current.ints
        /\ k # "mie" => mie' = mie
        /\ k = "mstatus" => mstatus_mie' = Priority!Current.on
        /\ k # "mstatus" => mstatus_mie' = mstatus_mie
  <2>1. CASE Priority!DoDrain
    BY <2>1 DEF Priority!DoDrain
  <2>2. CASE Priority!DoMie
    BY <2>2 DEF Priority!DoMie
  <2>3. CASE Priority!DoMstatus
    BY <2>3 DEF Priority!DoMstatus
  <2>4. CASE Priority!DoMret
    BY <2>4 DEF Priority!DoMret
  <2> QED
    BY <2>1, <2>2, <2>3, <2>4
<1>2. ~Failing
  BY <1>1, FailingStep
<1>3. finish = "none" /\ PriorityTypes
  BY <1>1 DEF PriorityInv, Priority!Execute
<1>4. /\ posted \in Seq(Stores) /\ Len(posted) <= depth
      /\ line \subseteq Priority!Interrupts /\ mie \subseteq {3, 7, 11}
      /\ mstatus_mie \in BOOLEAN
  BY <1>3, CauseNumbers DEF PriorityTypes
<1>5. CASE handler # <<>>
  <2>1. /\ Control /\ Raises /\ Learnt
        /\ step \in 1 .. LastTrap /\ main = <<>> /\ main' = main
        /\ Priority!Current = Head(handler) /\ Head(handler).op = k
        /\ TrapOps \in 1 .. Len(HandlerFromTheEnd)
        /\ Head(handler) = HandlerFromTheEnd[TrapOps]
        /\ ~Failing'
        /\ handler' \in Seq(PriorityOps) /\ TrapOps' = TrapOps - 1
        /\ TrapOps' <= Len(HandlerFromTheEnd')
        /\ \A l \in 1 .. TrapOps' : handler'[l] = HandlerFromTheEnd'[TrapOps' + 1 - l]
        /\ (handler' = <<>>) <=> TrapOps' = 0
    BY <1>1, <1>2, <1>5, HandlerStep
  <2>2. /\ k = "drain" => \/ test = "interrupt_priority" /\ step = 1 /\ TrapOps = 3
                          \/ test = "race" /\ step = 3 /\ TrapOps \in {2, 4}
        /\ k = "mie" => /\ test = "interrupt_priority" /\ step = 1 /\ TrapOps = 5
                        /\ Priority!Current = Priority!EnableAlso({3, 7})
        /\ k = "mret" => TrapOps = 1
        /\ k # "mstatus"
    BY <1>3, <2>1, HandlerOthers
  <2>3. mie' \subseteq {3, 7, 11} /\ mstatus_mie' = mstatus_mie
        /\ (k = "mie" => mie' = mie \union {3, 7})
    BY <1>1, <1>4, <2>2, KnownFields
  <2>4. PriorityTypes'
    BY <1>1, <1>3, <1>4, <2>1, <2>3, HandlerTypes, CauseNumbers
  <2>5. LastTrap' = LastTrap /\ MainOps' = MainOps /\ MainOps = 0
    BY <1>1, <2>1 DEF LastTrap, MainOps
  <2>6. Control'
    <3>1. step = LastTrap => TrapOps > 2
      BY <1>1, <2>1, <2>2, LastHandlerOps DEF Control, LastTrap
    <3> QED
      BY <1>1, <2>1, <2>2, <2>3, <2>5, <3>1 DEF Control
  <2>7. Raises'
    BY <1>1, <2>1, <2>2, <2>5, StillRaised DEF Raises
  <2>8. Learnt'
    BY <1>1, <2>1, StillLearnt
  <2> QED
    BY <1>1, <1>3, <2>1, <2>4, <2>6, <2>7, <2>8 DEF PriorityInv
<1>6. CASE handler = <<>>
  <2>1. /\ Control /\ Raises /\ Learnt
        /\ step = 0 /\ main # <<>> /\ handler' = <<>> /\ ~Failing'
        /\ Priority!Current = Head(main) /\ Head(main).op = k
        /\ MainOps \in 1 .. Len(MainFromTheEnd) /\ Head(main) = MainFromTheEnd[MainOps]
        /\ main' \in Seq(PriorityOps) /\ MainOps' = MainOps - 1
        /\ MainOps' <= Len(MainFromTheEnd')
        /\ \A l \in 1 .. MainOps' : main'[l] = MainFromTheEnd'[MainOps' + 1 - l]
        /\ (main' = <<>>) <=> MainOps' = 0
    BY <1>1, <1>6, MainStep
  <2>2. /\ k = "drain" => MainOps = 2 \/ (MainOps = 4 /\ test # "interrupt_priority")
        /\ k = "mie" =>
             \/ /\ test = "interrupt_priority" /\ MainOps = 7
                /\ Priority!Current = Priority!EnableAlso({11})
             \/ /\ test # "interrupt_priority" /\ MainOps = 10
                /\ Priority!Current = Priority!EnableAlso({3, 7, 11})
        /\ k = "mstatus" =>
             \/ MainOps = 1 /\ Priority!Current = Priority!GlobalMIE(TRUE)
             \/ MainOps \in {8, 11} /\ Priority!Current = Priority!GlobalMIE(FALSE)
                /\ (test = "interrupt_priority" => MainOps = 8)
        /\ k # "mret"
    BY <2>1, MainOthers
  <2>a. /\ k = "drain" => MainOps \in {2, 4}
        /\ k = "drain" /\ test = "interrupt_priority" => MainOps = 2
        /\ k = "mie" => MainOps = IF test = "interrupt_priority" THEN 7 ELSE 10
        /\ k = "mstatus" => MainOps \in {1, 8, 11}
        /\ k # "mret"
    BY <2>2
  <2>c. MainOps \in 1 .. 11
    <3>1. CASE test = "interrupt_priority"
      <4>1. MainOps \in 1 .. 8
        BY <2>1, <3>1, FirstMainOps
      <4> QED
        BY ONLY <4>1
    <3>2. CASE test # "interrupt_priority"
      BY <2>1, <3>2, OtherMainOps
    <3> QED
      BY <3>1, <3>2
  <2>b. mie' \subseteq {3, 7, 11}
        /\ (k = "mie" /\ test = "interrupt_priority" => mie' = {11})
        /\ (k = "mie" /\ test # "interrupt_priority" => mie' = {3, 7, 11})
    <3>1. CASE k = "mie" /\ test = "interrupt_priority"
      <4>1. mie = {} /\ Priority!Current.ints = {11}
        BY <2>1, <2>2, <3>1, KnownFields DEF Control
      <4> QED
        BY <1>1, <3>1, <4>1
    <3>2. CASE k = "mie" /\ test # "interrupt_priority"
      <4>1. Priority!Current.ints = {3, 7, 11}
        BY <2>2, <3>2, KnownFields
      <4> QED
        BY <1>1, <1>4, <3>2, <4>1
    <3>3. CASE k # "mie"
      BY <1>1, <1>4, <3>3
    <3> QED
      BY <3>1, <3>2, <3>3
  <2>3. /\ mstatus_mie' \in BOOLEAN
        /\ k = "mstatus" /\ MainOps = 1 => mstatus_mie' = TRUE
        /\ k = "mstatus" /\ MainOps # 1 => mstatus_mie' = FALSE
    <3>1. CASE k = "mstatus" /\ MainOps = 1
      <4>0. Priority!Current = Priority!GlobalMIE(TRUE)
        BY <2>2, <3>1
      <4>1. Priority!Current.on = TRUE
        BY <4>0, KnownFields
      <4>2. mstatus_mie' = TRUE
        BY <1>1, <3>1, <4>1
      <4> QED
        BY <3>1, <4>2
    <3>2. CASE k = "mstatus" /\ MainOps # 1
      <4>0. Priority!Current = Priority!GlobalMIE(FALSE)
        BY <2>2, <3>2
      <4>1. Priority!Current.on = FALSE
        BY <4>0, KnownFields
      <4>2. mstatus_mie' = FALSE
        BY <1>1, <3>2, <4>1
      <4> QED
        BY <3>2, <4>2
    <3>3. CASE k # "mstatus"
      BY <1>1, <1>4, <3>3
    <3> QED
      BY <3>1, <3>2, <3>3
  <2>4. PriorityTypes'
    BY <1>1, <1>3, <1>4, <1>6, <2>1, <2>b, <2>3, MainTypes, CauseNumbers
  <2>5. LastTrap' = LastTrap /\ TrapOps' = TrapOps /\ TrapOps = 0 /\ MainOps > 0
    BY <1>1, <1>6, <2>1 DEF LastTrap, TrapOps
  <2>6. Control'
    <3>1. mstatus_mie' <=> main' = <<>>
      <4>1. CASE k = "mstatus"
        BY <2>1, <2>3, <2>a, <4>1
      <4>2. CASE k # "mstatus"
        <5>1. mstatus_mie' = mstatus_mie /\ ~mstatus_mie
          BY <1>1, <2>1, <4>2 DEF Control
        <5>2. MainOps' # 0
          BY <1>1, <2>1, <2>2, <2>a, <4>2
        <5> QED
          BY <2>1, <5>1, <5>2
      <4> QED
        BY <4>1, <4>2
    <3>2. /\ test' = "interrupt_priority" =>
               /\ MainOps' > 6 => mie' = {}
               /\ MainOps' <= 6 /\ step' = 0 => mie' = {11}
          /\ test' # "interrupt_priority" /\ MainOps' <= 9 => mie' = {3, 7, 11}
      BY <1>1, <2>1, <2>2, <2>a, <2>b, <2>c DEF Control
    <3>3. /\ step' = 0 /\ handler' = <<>> /\ LastTrap' # 0
      BY <1>1, <2>1 DEF LastTrap
    <3> QED
      BY <3>1, <3>2, <3>3 DEF Control
  <2>7. Raises'
    <3>1. step' = 0 /\ test' = test /\ MainOps' = MainOps - 1 /\ posted' = posted
          /\ MainOps \in 1 .. 11
      BY <1>1, <2>1, <2>c
    <3>2. MainOps = 1 \/ (MainOps = 2 /\ posted = <<>>) \/ MainOps = 4 \/ MainOps > 6
      BY <1>1, <2>1, <2>a, <2>c
    <3>3. MainOps = 4 => test # "interrupt_priority"
      BY <1>1, <2>1, <2>a, <2>c
    <3> QED
      BY <1>1, <2>1, <3>1, <3>2, <3>3, StillRaised DEF Raises
  <2>8. Learnt'
    BY <1>1, <2>1, StillLearnt
  <2> QED
    BY <1>1, <1>3, <2>1, <2>4, <2>6, <2>7, <2>8 DEF PriorityInv
<1> QED
  BY <1>5, <1>6

\* r is s and then x
Follows(r, s, x) == r = s \o <<x>>

\* An operation added at the end leaves the others where they are.
LEMMA FollowsKeeps ==
  ASSUME NEW S, NEW s \in Seq(S), NEW x \in S, NEW r, Follows(r, s, x)
  PROVE  /\ r \in Seq(S) /\ Len(r) = Len(s) + 1
         /\ \A k \in 1 .. Len(s) : r[k] = s[k]
         /\ r[Len(s) + 1] = x
<1>1. <<x>> \in Seq(S) /\ Len(<<x>>) = 1 /\ <<x>>[1] = x /\ r = s \o <<x>>
  BY DEF Follows
<1>2. r \in Seq(S)
  BY <1>1
<1>3. Len(r) = Len(s) + 1
  BY <1>1
<1>4. \A k \in 1 .. Len(s) : r[k] = s[k]
  BY <1>1
<1>5. r[Len(s) + 1] = x
  BY <1>1
<1> QED
  BY <1>2, <1>3, <1>4, <1>5

\* The handlers that only clear their cause, from both ends
PlainSpelling(S, s, t, a, b) ==
  /\ {a, b} \subseteq S
  /\ s = <<a>> \o <<>> \o <<b>>
  /\ t = <<b, a>>

\* Both are as long, and mirror each other.
LEMMA SpellsPlain ==
  ASSUME NEW S, NEW s, NEW t, NEW a, NEW b,
         PlainSpelling(S, s, t, a, b)
  PROVE  /\ s \in Seq(S) /\ Len(s) = 2 /\ Len(t) = 2
         /\ \A l \in 1 .. 2 : s[l] = t[3 - l]
<1>0. s = <<a>> \o <<>> \o <<b>> /\ t = <<b, a>>
      /\ {a, b} \subseteq S
  BY DEF PlainSpelling
<1>1. s \in Seq(S)
  BY <1>0
<1>2. Len(s) = 2
  BY <1>0
<1>3. s[1] = a
  BY <1>0
<1>4. s[2] = b
  BY <1>0
<1>5. Len(t) = 2 /\ t[1] = b /\ t[2] = a
  BY <1>0
<1>6. \A l \in 1 .. 2 : s[l] = t[3 - l]
  BY ONLY <1>3, <1>4, <1>5
<1> QED
  BY <1>1, <1>2, <1>5, <1>6

\* The handler of the last trap, from both ends
LastSpelling(S, s, t, a, b, c) ==
  /\ {a, b, c} \subseteq S
  /\ s = <<a>> \o <<b>> \o <<c>>
  /\ t = <<c, b, a>>

\* Both are as long, and mirror each other.
LEMMA SpellsLast ==
  ASSUME NEW S, NEW s, NEW t, NEW a, NEW b, NEW c,
         LastSpelling(S, s, t, a, b, c)
  PROVE  /\ s \in Seq(S) /\ Len(s) = 3 /\ Len(t) = 3
         /\ \A l \in 1 .. 3 : s[l] = t[4 - l]
<1>0. s = <<a>> \o <<b>> \o <<c>> /\ t = <<c, b, a>>
      /\ {a, b, c} \subseteq S
  BY DEF LastSpelling
<1>1. s \in Seq(S)
  BY <1>0
<1>2. Len(s) = 3
  BY <1>0
<1>3. s[1] = a
  BY <1>0
<1>4. s[2] = b
  <2>1. PICK p : p = <<a>> \o <<b>>
    OBVIOUS
  <2>2. p \in Seq(S) /\ Len(p) = 2 /\ c \in S
    BY <1>0, <2>1
  <2>3. p[2] = b
    BY ONLY <2>1
  <2>4. Follows(s, p, c)
    BY <1>0, <2>1 DEF Follows
  <2>5. 2 \in 1 .. Len(p)
    BY <2>2
  <2> QED
    BY ONLY <2>2, <2>3, <2>4, <2>5, FollowsKeeps
<1>5. s[3] = c
  BY <1>0
<1>6. Len(t) = 3 /\ t[1] = c /\ t[2] = b /\ t[3] = a
  BY <1>0
<1>7. \A l \in 1 .. 3 : s[l] = t[4 - l]
  BY ONLY <1>3, <1>4, <1>5, <1>6
<1> QED
  BY <1>1, <1>2, <1>6, <1>7

\* The handler of interrupt_priority.c that arms the other two, from both ends
ArmingSpelling(S, s, t, a, b, c, d, e, f) ==
  /\ {a, b, c, d, e, f} \subseteq S
  /\ s = <<a>> \o (<<b, c>> \o <<d, e>>) \o <<f>>
  /\ t = <<f, e, d, c, b, a>>

\* Both are as long, and mirror each other.
LEMMA SpellsArming ==
  ASSUME NEW S, NEW s, NEW t, NEW a, NEW b, NEW c, NEW d, NEW e, NEW f,
         ArmingSpelling(S, s, t, a, b, c, d, e, f)
  PROVE  /\ s \in Seq(S) /\ Len(s) = 6 /\ Len(t) = 6
         /\ \A l \in 1 .. 6 : s[l] = t[7 - l]
<1>0. s = <<a>> \o (<<b, c>> \o <<d, e>>) \o <<f>> /\ t = <<f, e, d, c, b, a>>
      /\ {a, b, c, d, e, f} \subseteq S
  BY DEF ArmingSpelling
<1>1. s \in Seq(S)
  BY <1>0
<1>2. Len(s) = 6
  BY <1>0
<1>3. s[1] = a
  BY <1>0
<1>4. s[2] = b
  BY <1>0
<1>5. s[3] = c
  BY <1>0
<1>6. s[4] = d
  BY <1>0
<1>7. s[5] = e
  BY <1>0
<1>8. s[6] = f
  BY <1>0
<1>9. Len(t) = 6 /\ t[1] = f /\ t[2] = e /\ t[3] = d /\ t[4] = c /\ t[5] = b
      /\ t[6] = a
  BY <1>0
<1>10. \A l \in 1 .. 6 : s[l] = t[7 - l]
  BY ONLY <1>3, <1>4, <1>5, <1>6, <1>7, <1>8, <1>9
<1> QED
  BY <1>1, <1>2, <1>9, <1>10

\* The handler of _race.c that arms everything again, from both ends
RacingSpelling(S, s, t, a, b, c, d, e, f, g) ==
  /\ {a, b, c, d, e, f, g} \subseteq S
  /\ s = <<a>> \o (<<b, c>> \o <<d, e>> \o <<f>>) \o <<g>>
  /\ t = <<g, f, e, d, c, b, a>>

\* Both are as long, and mirror each other.
LEMMA SpellsRacing ==
  ASSUME NEW S, NEW s, NEW t, NEW a, NEW b, NEW c, NEW d, NEW e, NEW f, NEW g,
         RacingSpelling(S, s, t, a, b, c, d, e, f, g)
  PROVE  /\ s \in Seq(S) /\ Len(s) = 7 /\ Len(t) = 7
         /\ \A l \in 1 .. 7 : s[l] = t[8 - l]
<1>0. s = <<a>> \o (<<b, c>> \o <<d, e>> \o <<f>>) \o <<g>> /\ t = <<g, f, e, d, c, b, a>>
      /\ {a, b, c, d, e, f, g} \subseteq S
  BY DEF RacingSpelling
<1>1. s \in Seq(S)
  BY <1>0
<1>2. Len(s) = 7
  BY <1>0
<1>3. s[1] = a
  BY <1>0
<1>4. s[2] = b
  BY <1>0
<1>5. s[3] = c
  BY <1>0
<1>6. s[4] = d
  BY <1>0
<1>7. s[5] = e
  BY <1>0
<1>8. s[6] = f
  <2>1. PICK p : p = <<a>> \o (<<b, c>> \o <<d, e>> \o <<f>>)
    OBVIOUS
  <2>2. p \in Seq(S) /\ Len(p) = 6 /\ g \in S
    BY <1>0, <2>1
  <2>3. p[6] = f
    BY ONLY <2>1
  <2>4. Follows(s, p, g)
    BY <1>0, <2>1 DEF Follows
  <2>5. 6 \in 1 .. Len(p)
    BY <2>2
  <2> QED
    BY ONLY <2>2, <2>3, <2>4, <2>5, FollowsKeeps
<1>9. s[7] = g
  BY <1>0
<1>10. Len(t) = 7 /\ t[1] = g /\ t[2] = f /\ t[3] = e /\ t[4] = d /\ t[5] = c
      /\ t[6] = b /\ t[7] = a
  BY <1>0
<1>11. \A l \in 1 .. 7 : s[l] = t[8 - l]
  BY ONLY <1>3, <1>4, <1>5, <1>6, <1>7, <1>8, <1>9, <1>10
<1> QED
  BY <1>1, <1>2, <1>10, <1>11

\* main of interrupt_priority.c, from both ends
FirstMainSpelling(S, s, t, a, b, c, d, e, f, g, h) ==
  /\ {a, b, c, d, e, f, g, h} \subseteq S
  /\ s = <<a>> \o (<<b>> \o <<c, d, e>> \o <<f>>) \o <<g, h>>
  /\ t = <<h, g, f, e, d, c, b, a>>

\* Both are as long, and mirror each other.
LEMMA SpellsFirstMain ==
  ASSUME NEW S, NEW s, NEW t, NEW a, NEW b, NEW c, NEW d, NEW e, NEW f, NEW g, NEW h,
         FirstMainSpelling(S, s, t, a, b, c, d, e, f, g, h)
  PROVE  /\ s \in Seq(S) /\ Len(s) = 8 /\ Len(t) = 8
         /\ \A l \in 1 .. 8 : s[l] = t[9 - l]
<1>0. s = <<a>> \o (<<b>> \o <<c, d, e>> \o <<f>>) \o <<g, h>>
      /\ t = <<h, g, f, e, d, c, b, a>>
      /\ {a, b, c, d, e, f, g, h} \subseteq S
  BY DEF FirstMainSpelling
<1>1. s \in Seq(S)
  BY <1>0
<1>2. Len(s) = 8
  BY <1>0
<1>3. s[1] = a
  BY <1>0
<1>4. s[2] = b
  BY <1>0
<1>5. s[3] = c
  BY <1>0
<1>6. s[4] = d
  BY <1>0
<1>7. s[5] = e
  BY <1>0
<1>8. s[6] = f
  BY <1>0
<1>9. s[7] = g
  BY <1>0
<1>10. s[8] = h
  BY <1>0
<1>11. Len(t) = 8 /\ t[1] = h /\ t[2] = g /\ t[3] = f /\ t[4] = e /\ t[5] = d
      /\ t[6] = c /\ t[7] = b /\ t[8] = a
  BY <1>0
<1>12. \A l \in 1 .. 8 : s[l] = t[9 - l]
  BY ONLY <1>3, <1>4, <1>5, <1>6, <1>7, <1>8, <1>9, <1>10, <1>11
<1> QED
  BY <1>1, <1>2, <1>11, <1>12

\* main of its two siblings, from both ends
OtherMainSpelling(S, s, t, a, b, c, d, e, f, g, h, k, m, n) ==
  /\ {a, b, c, d, e, f, g, h, k, m, n} \subseteq S
  /\ s = <<a>> \o (<<b>> \o <<c, d, e>> \o (<<f, g>> \o <<h, k>>)) \o <<m, n>>
  /\ t = <<n, m, k, h, g, f, e, d, c, b, a>>

\* Both are as long, and mirror each other.
LEMMA SpellsOtherMain ==
  ASSUME NEW S, NEW s, NEW t, NEW a, NEW b, NEW c, NEW d, NEW e, NEW f, NEW g, NEW h,
         NEW k, NEW m, NEW n,
         OtherMainSpelling(S, s, t, a, b, c, d, e, f, g, h, k, m, n)
  PROVE  /\ s \in Seq(S) /\ Len(s) = 11 /\ Len(t) = 11
         /\ \A l \in 1 .. 11 : s[l] = t[12 - l]
<1>0. s = <<a>> \o (<<b>> \o <<c, d, e>> \o (<<f, g>> \o <<h, k>>)) \o <<m, n>>
      /\ t = <<n, m, k, h, g, f, e, d, c, b, a>>
      /\ {a, b, c, d, e, f, g, h, k, m, n} \subseteq S
  BY DEF OtherMainSpelling
<1>1. s \in Seq(S)
  BY <1>0
<1>2. Len(s) = 11
  BY <1>0
<1>3. s[1] = a
  BY <1>0
<1>4. s[2] = b
  BY <1>0
<1>5. s[3] = c
  BY <1>0
<1>6. s[4] = d
  BY <1>0
<1>7. s[5] = e
  BY <1>0
<1>8. s[6] = f
  BY <1>0
<1>9. s[7] = g
  BY <1>0
<1>10. s[8] = h
  BY <1>0
<1>11. s[9] = k
  BY <1>0
<1>12. s[10] = m
  BY <1>0
<1>13. s[11] = n
  BY <1>0
<1>14. Len(t) = 11 /\ t[1] = n /\ t[2] = m /\ t[3] = k /\ t[4] = h /\ t[5] = g
      /\ t[6] = f /\ t[7] = e /\ t[8] = d /\ t[9] = c /\ t[10] = b /\ t[11] = a
  BY <1>0
<1>15. \A l \in 1 .. 11 : s[l] = t[12 - l]
  BY ONLY <1>3, <1>4, <1>5, <1>6, <1>7, <1>8, <1>9, <1>10, <1>11, <1>12, <1>13, <1>14
<1> QED
  BY <1>1, <1>2, <1>14, <1>15

\* The operations the programs have
LEMMA KnownOps ==
  /\ \A x \in {3, 7, 11} : \A b \in BOOLEAN :
       Priority!Store(x, b) \in PriorityOps /\ Priority!Store(x, b) \in Stores
  /\ Priority!GlobalMIE(TRUE) \in PriorityOps /\ Priority!GlobalMIE(FALSE) \in PriorityOps
  /\ Priority!EnableAlso({11}) \in PriorityOps /\ Priority!EnableAlso({3, 7}) \in PriorityOps
  /\ Priority!EnableAlso({3, 7, 11}) \in PriorityOps
  /\ Priority!Finish("pass") \in PriorityOps /\ Priority!Finish("fail") \in PriorityOps
  /\ Priority!Drain \in PriorityOps /\ Priority!Mret \in PriorityOps
<1>1. \A x \in {3, 7, 11} : \A b \in BOOLEAN : Priority!Store(x, b) \in Stores
  BY DEF Stores
<1>2. Stores \subseteq PriorityOps
  BY DEF PriorityOps
<1>3. /\ Priority!GlobalMIE(TRUE) \in PriorityOps /\ Priority!GlobalMIE(FALSE) \in PriorityOps
      /\ Priority!Drain \in PriorityOps /\ Priority!Mret \in PriorityOps
  BY DEF PriorityOps
<1>4. /\ Priority!EnableAlso({11}) \in PriorityOps
      /\ Priority!EnableAlso({3, 7}) \in PriorityOps
      /\ Priority!EnableAlso({3, 7, 11}) \in PriorityOps
  BY DEF PriorityOps
<1>5. /\ Priority!Finish("pass") \in PriorityOps /\ Priority!Finish("fail") \in PriorityOps
  BY DEF PriorityOps
<1> QED
  BY <1>1, <1>2, <1>3, <1>4, <1>5

\* The programs are what the tables above say.
LEMMA ProgramSpelled ==
  ASSUME test \in Priority!Tests, main = Priority!Program(test)
  PROVE  /\ main \in Seq(PriorityOps) /\ MainOps = Len(MainFromTheEnd) /\ MainOps > 2
         /\ \A k \in 1 .. MainOps : main[k] = MainFromTheEnd[MainOps + 1 - k]
<1>1. CASE test = "interrupt_priority"
  <2>1. main = <<Priority!GlobalMIE(FALSE)>>
                 \o (<<Priority!EnableAlso({11})>>
                       \o <<Priority!Store(3, FALSE), Priority!Store(11, FALSE),
                            Priority!Store(7, FALSE)>>
                       \o <<Priority!Store(11, TRUE)>>)
                 \o <<Priority!Drain, Priority!GlobalMIE(TRUE)>>
    BY <1>1 DEF Priority!Program, Priority!ClearAll, Priority!MSI, Priority!MTI, Priority!MEI
  <2>2. MainFromTheEnd =
          <<Priority!GlobalMIE(TRUE), Priority!Drain, Priority!Store(11, TRUE),
            Priority!Store(7, FALSE), Priority!Store(11, FALSE), Priority!Store(3, FALSE),
            Priority!EnableAlso({11}), Priority!GlobalMIE(FALSE)>>
    BY <1>1 DEF MainFromTheEnd
  <2>3. /\ Priority!Store(3, FALSE) \in PriorityOps /\ Priority!Store(7, FALSE) \in PriorityOps
        /\ Priority!Store(11, FALSE) \in PriorityOps
        /\ Priority!Store(11, TRUE) \in PriorityOps
        /\ Priority!GlobalMIE(FALSE) \in PriorityOps
        /\ Priority!EnableAlso({11}) \in PriorityOps
        /\ Priority!Drain \in PriorityOps /\ Priority!GlobalMIE(TRUE) \in PriorityOps
    BY KnownOps
  <2>4. /\ main \in Seq(PriorityOps) /\ Len(main) = 8 /\ Len(MainFromTheEnd) = 8
        /\ \A l \in 1 .. 8 : main[l] = MainFromTheEnd[9 - l]
    <3>1. PICK a \in PriorityOps, b \in PriorityOps, c \in PriorityOps,
               d \in PriorityOps, e \in PriorityOps, f \in PriorityOps,
               g \in PriorityOps, h \in PriorityOps :
            /\ a = Priority!GlobalMIE(FALSE) /\ b = Priority!EnableAlso({11})
            /\ c = Priority!Store(3, FALSE) /\ d = Priority!Store(11, FALSE)
            /\ e = Priority!Store(7, FALSE) /\ f = Priority!Store(11, TRUE)
            /\ g = Priority!Drain /\ h = Priority!GlobalMIE(TRUE)
      BY <2>3
    <3>2. FirstMainSpelling(PriorityOps, main, MainFromTheEnd, a, b, c, d, e, f, g, h)
      BY ONLY <2>1, <2>2, <3>1 DEF FirstMainSpelling
    <3> QED
      BY <3>2, SpellsFirstMain
  <2> QED
    BY <2>4 DEF MainOps
<1>2. CASE test # "interrupt_priority"
  <2>1. main = <<Priority!GlobalMIE(FALSE)>>
                 \o (<<Priority!EnableAlso({3, 7, 11})>>
                       \o <<Priority!Store(3, FALSE), Priority!Store(11, FALSE),
                            Priority!Store(7, FALSE)>>
                       \o (<<Priority!Store(3, TRUE), Priority!Store(11, TRUE)>>
                             \o <<Priority!Drain, Priority!Store(7, TRUE)>>))
                 \o <<Priority!Drain, Priority!GlobalMIE(TRUE)>>
    BY <1>2, CauseNumbers
       DEF Priority!Program, Priority!ClearAll, Priority!ArmAll, Priority!ArmTimer
  <2>2. MainFromTheEnd =
          <<Priority!GlobalMIE(TRUE), Priority!Drain, Priority!Store(7, TRUE),
            Priority!Drain, Priority!Store(11, TRUE), Priority!Store(3, TRUE),
            Priority!Store(7, FALSE), Priority!Store(11, FALSE), Priority!Store(3, FALSE),
            Priority!EnableAlso({3, 7, 11}), Priority!GlobalMIE(FALSE)>>
    BY <1>2 DEF MainFromTheEnd
  <2>3. /\ Priority!Store(3, FALSE) \in PriorityOps /\ Priority!Store(7, FALSE) \in PriorityOps
        /\ Priority!Store(11, FALSE) \in PriorityOps
        /\ Priority!Store(11, TRUE) \in PriorityOps
        /\ Priority!Store(3, TRUE) \in PriorityOps /\ Priority!Store(7, TRUE) \in PriorityOps
        /\ Priority!GlobalMIE(FALSE) \in PriorityOps
        /\ Priority!EnableAlso({3, 7, 11}) \in PriorityOps
        /\ Priority!Drain \in PriorityOps /\ Priority!GlobalMIE(TRUE) \in PriorityOps
    BY KnownOps
  <2>4. /\ main \in Seq(PriorityOps) /\ Len(main) = 11 /\ Len(MainFromTheEnd) = 11
        /\ \A l \in 1 .. 11 : main[l] = MainFromTheEnd[12 - l]
    <3>1. PICK a \in PriorityOps, b \in PriorityOps, c \in PriorityOps,
               d \in PriorityOps, e \in PriorityOps, f \in PriorityOps,
               g \in PriorityOps, h \in PriorityOps, k \in PriorityOps,
               m \in PriorityOps, n \in PriorityOps :
            /\ a = Priority!GlobalMIE(FALSE) /\ b = Priority!EnableAlso({3, 7, 11})
            /\ c = Priority!Store(3, FALSE) /\ d = Priority!Store(11, FALSE)
            /\ e = Priority!Store(7, FALSE) /\ f = Priority!Store(3, TRUE)
            /\ g = Priority!Store(11, TRUE) /\ h = Priority!Drain
            /\ k = Priority!Store(7, TRUE) /\ m = Priority!Drain
            /\ n = Priority!GlobalMIE(TRUE)
      BY <2>3
    <3>2. OtherMainSpelling(PriorityOps, main, MainFromTheEnd, a, b, c, d, e, f, g, h, k, m, n)
      BY ONLY ZenonT(40), <2>1, <2>2, <3>1 DEF OtherMainSpelling
    <3> QED
      BY <3>2, SpellsOtherMain
  <2> QED
    BY <2>4 DEF MainOps
<1> QED
  BY <1>1, <1>2

\* The causes each test expects
LEMMA ExpectedCauses ==
  ASSUME test \in Priority!Tests
  PROVE  /\ Len(Priority!Expected(test)) = LastTrap
         /\ \A n \in 1 .. LastTrap : Priority!Expected(test)[n] = Causes[n]
         /\ \A n \in 1 .. LastTrap : Causes[n] \in {3, 7, 11}
         /\ Causes[LastTrap] = 7
<1>1. CASE test = "race"
  <2>1. Priority!Expected(test) = Causes /\ LastTrap = 6
    BY <1>1, CauseNumbers DEF Priority!Expected, Causes, LastTrap
  <2> QED
    BY <2>1 DEF Causes
<1>2. CASE test # "race"
  <2>1. Priority!Expected(test) = <<11, 3, 7>> /\ LastTrap = 3
    BY <1>2, CauseNumbers DEF Priority!Expected, LastTrap
  <2>2. Causes[1] = 11 /\ Causes[2] = 3 /\ Causes[3] = 7
    BY DEF Causes
  <2> QED
    BY <2>1, <2>2
<1> QED
  BY <1>1, <1>2

\* The handler of an expected cause is what the table above says.
LEMMA HandlerSpelled ==
  ASSUME test \in Priority!Tests, test' = test, step' \in 1 .. LastTrap,
         handler' = Priority!Handler(test, step', Causes[step'])
  PROVE  /\ handler' \in Seq(PriorityOps) /\ TrapOps' = Len(HandlerFromTheEnd')
         /\ step' = LastTrap => TrapOps' = 3
         /\ test = "interrupt_priority" /\ step' = 1 => TrapOps' = 6
         /\ test = "race" /\ step' = 3 => TrapOps' = 7
         /\ TrapOps' > 1
         /\ \A k \in 1 .. TrapOps' : handler'[k] = HandlerFromTheEnd'[TrapOps' + 1 - k]
<1>0. test' = test /\ step' # 0
  OBVIOUS
<1>1. LastTrap' = LastTrap /\ LastTrap \in {3, 6} /\ (LastTrap = 6 <=> test = "race")
  BY DEF LastTrap
<1>2. handler' = <<Priority!Store(Causes[step'], FALSE)>>
                   \o Priority!AfterTrap(test, step') \o <<Priority!Mret>>
  <2>1. ~(step' > Len(Priority!Expected(test))
            \/ Causes[step'] # Priority!Expected(test)[step'])
    BY <1>1, ExpectedCauses
  <2> QED
    BY <2>1 DEF Priority!Handler
<1>3. /\ Len(Priority!Expected(test)) = LastTrap /\ Causes[LastTrap] = 7
      /\ Causes[1] = 11 /\ Causes[3] = 7 /\ Causes[step'] \in {3, 7, 11}
  BY ExpectedCauses DEF Causes
<1>4. CASE step' = LastTrap
  <2>0. Priority!AfterTrap(test, step') = <<Priority!Finish("pass")>>
    BY <1>1, <1>3, <1>4 DEF Priority!AfterTrap
  <2>1. handler' = <<Priority!Store(7, FALSE)>> \o <<Priority!Finish("pass")>>
                     \o <<Priority!Mret>>
    BY <1>2, <1>3, <1>4, <2>0
  <2>a. /\ step' # 0 /\ (step' = LastTrap')
        /\ ~(step' = 1 /\ test' = "interrupt_priority")
        /\ ~(step' = 3 /\ test' = "race")
    BY <1>0, <1>1, <1>4
  <2>2. HandlerFromTheEnd' = <<Priority!Mret, Priority!Finish("pass"),
                               Priority!Store(7, FALSE)>>
    BY ONLY <2>a DEF HandlerFromTheEnd
  <2>3. /\ Priority!Finish("pass") \in PriorityOps
        /\ Priority!Mret \in PriorityOps
        /\ Priority!Store(7, FALSE) \in PriorityOps
    BY <1>1, <1>4, KnownOps
  <2>4. /\ handler' \in Seq(PriorityOps) /\ Len(handler') = 3 /\ Len(HandlerFromTheEnd') = 3
        /\ \A l \in 1 .. 3 : handler'[l] = HandlerFromTheEnd'[4 - l]
    <3>1. PICK a \in PriorityOps, b \in PriorityOps, c \in PriorityOps :
            /\ a = Priority!Store(7, FALSE) /\ b = Priority!Finish("pass")
            /\ c = Priority!Mret
      BY <2>3
    <3>2. LastSpelling(PriorityOps, handler', HandlerFromTheEnd', a, b, c)
      BY ONLY <2>1, <2>2, <3>1 DEF LastSpelling
    <3> QED
      BY <3>2, SpellsLast
  <2>5. TrapOps' = 3
    BY <2>4 DEF TrapOps
  <2> QED
    BY <1>1, <1>4, <2>4, <2>5
<1>5. CASE test = "interrupt_priority" /\ step' = 1
  <2>0. Priority!AfterTrap(test, step') =
          <<Priority!EnableAlso({3, 7}), Priority!Store(3, TRUE)>>
            \o <<Priority!Drain, Priority!Store(7, TRUE)>>
    BY <1>1, <1>3, <1>5 DEF Priority!AfterTrap, Priority!ArmTimer, Priority!MSI, Priority!MTI
  <2>1. handler' = <<Priority!Store(11, FALSE)>>
                     \o (<<Priority!EnableAlso({3, 7}), Priority!Store(3, TRUE)>>
                           \o <<Priority!Drain, Priority!Store(7, TRUE)>>)
                     \o <<Priority!Mret>>
    BY <1>2, <1>3, <1>5, <2>0
  <2>a. /\ step' # 0 /\ ~(step' = LastTrap')
        /\ (step' = 1 /\ test' = "interrupt_priority")
        /\ ~(step' = 3 /\ test' = "race")
    BY <1>0, <1>1, <1>5
  <2>2. HandlerFromTheEnd' = <<Priority!Mret, Priority!Store(7, TRUE),
                               Priority!Drain, Priority!Store(3, TRUE),
                               Priority!EnableAlso({3, 7}), Priority!Store(11, FALSE)>>
    BY ONLY <2>a DEF HandlerFromTheEnd
  <2>3. /\ Priority!Drain \in PriorityOps
        /\ Priority!EnableAlso({3, 7}) \in PriorityOps
        /\ Priority!Mret \in PriorityOps
        /\ Priority!Store(11, FALSE) \in PriorityOps
        /\ Priority!Store(3, TRUE) \in PriorityOps
        /\ Priority!Store(7, TRUE) \in PriorityOps
    BY <1>1, <1>5, KnownOps
  <2>4. /\ handler' \in Seq(PriorityOps) /\ Len(handler') = 6 /\ Len(HandlerFromTheEnd') = 6
        /\ \A l \in 1 .. 6 : handler'[l] = HandlerFromTheEnd'[7 - l]
    <3>1. PICK a \in PriorityOps, b \in PriorityOps, c \in PriorityOps,
               d \in PriorityOps, e \in PriorityOps, f \in PriorityOps :
            /\ a = Priority!Store(11, FALSE) /\ b = Priority!EnableAlso({3, 7})
            /\ c = Priority!Store(3, TRUE) /\ d = Priority!Drain
            /\ e = Priority!Store(7, TRUE) /\ f = Priority!Mret
      BY <2>3
    <3>2. ArmingSpelling(PriorityOps, handler', HandlerFromTheEnd', a, b, c, d, e, f)
      BY ONLY <2>1, <2>2, <3>1 DEF ArmingSpelling
    <3> QED
      BY <3>2, SpellsArming
  <2>5. TrapOps' = 6
    BY <2>4 DEF TrapOps
  <2> QED
    BY <1>1, <1>5, <2>4, <2>5
<1>6. CASE test = "race" /\ step' = 3
  <2>0. Priority!AfterTrap(test, step') =
          <<Priority!Store(3, TRUE), Priority!Store(11, TRUE)>>
            \o <<Priority!Drain, Priority!Store(7, TRUE)>> \o <<Priority!Drain>>
    BY <1>1, <1>3, <1>6
    DEF Priority!AfterTrap, Priority!ArmAll, Priority!ArmTimer, Priority!MSI, Priority!MTI,
        Priority!MEI
  <2>1. handler' = <<Priority!Store(7, FALSE)>>
                     \o (<<Priority!Store(3, TRUE), Priority!Store(11, TRUE)>>
                           \o <<Priority!Drain, Priority!Store(7, TRUE)>>
                           \o <<Priority!Drain>>)
                     \o <<Priority!Mret>>
    BY <1>2, <1>3, <1>6, <2>0
  <2>a. /\ step' # 0 /\ ~(step' = LastTrap')
        /\ ~(step' = 1 /\ test' = "interrupt_priority")
        /\ (step' = 3 /\ test' = "race")
    BY <1>0, <1>1, <1>6
  <2>2. HandlerFromTheEnd' = <<Priority!Mret, Priority!Drain,
                               Priority!Store(7, TRUE), Priority!Drain,
                               Priority!Store(11, TRUE), Priority!Store(3, TRUE),
                               Priority!Store(7, FALSE)>>
    BY ONLY <2>a DEF HandlerFromTheEnd
  <2>3. /\ Priority!Drain \in PriorityOps
        /\ Priority!Mret \in PriorityOps
        /\ Priority!Store(11, TRUE) \in PriorityOps
        /\ Priority!Store(3, TRUE) \in PriorityOps
        /\ Priority!Store(7, FALSE) \in PriorityOps
        /\ Priority!Store(7, TRUE) \in PriorityOps
    BY <1>1, <1>6, KnownOps
  <2>4. /\ handler' \in Seq(PriorityOps) /\ Len(handler') = 7 /\ Len(HandlerFromTheEnd') = 7
        /\ \A l \in 1 .. 7 : handler'[l] = HandlerFromTheEnd'[8 - l]
    <3>1. PICK a \in PriorityOps, b \in PriorityOps, c \in PriorityOps,
               d \in PriorityOps, e \in PriorityOps, f \in PriorityOps,
               g \in PriorityOps :
            /\ a = Priority!Store(7, FALSE) /\ b = Priority!Store(3, TRUE)
            /\ c = Priority!Store(11, TRUE) /\ d = Priority!Drain
            /\ e = Priority!Store(7, TRUE) /\ f = Priority!Drain
            /\ g = Priority!Mret
      BY <2>3
    <3>2. RacingSpelling(PriorityOps, handler', HandlerFromTheEnd', a, b, c, d, e, f, g)
      BY ONLY <2>1, <2>2, <3>1 DEF RacingSpelling
    <3> QED
      BY <3>2, SpellsRacing
  <2>5. TrapOps' = 7
    BY <2>4 DEF TrapOps
  <2> QED
    BY <1>1, <1>6, <2>4, <2>5
<1>7. CASE /\ step' # LastTrap /\ ~(test = "interrupt_priority" /\ step' = 1)
           /\ ~(test = "race" /\ step' = 3)
  <2>0. Priority!AfterTrap(test, step') = <<>>
    BY <1>1, <1>3, <1>7 DEF Priority!AfterTrap
  <2>1. handler' = <<Priority!Store(Causes[step'], FALSE)>> \o <<>> \o <<Priority!Mret>>
    BY <1>2, <1>3, <1>7, <2>0
  <2>a. /\ step' # 0 /\ ~(step' = LastTrap')
        /\ ~(step' = 1 /\ test' = "interrupt_priority")
        /\ ~(step' = 3 /\ test' = "race")
    BY <1>0, <1>1, <1>7
  <2>2. HandlerFromTheEnd' = <<Priority!Mret, Priority!Store(Causes[step'], FALSE)>>
    BY ONLY <2>a DEF HandlerFromTheEnd
  <2>3. /\ Priority!Mret \in PriorityOps
        /\ Priority!Store(Causes[step'], FALSE) \in PriorityOps
    BY <1>1, <1>3, <1>7, KnownOps
  <2>4. /\ handler' \in Seq(PriorityOps) /\ Len(handler') = 2 /\ Len(HandlerFromTheEnd') = 2
        /\ \A l \in 1 .. 2 : handler'[l] = HandlerFromTheEnd'[3 - l]
    <3>1. PICK a \in PriorityOps, b \in PriorityOps :
            /\ a = Priority!Store(Causes[step'], FALSE) /\ b = Priority!Mret
      BY <2>3
    <3>2. PlainSpelling(PriorityOps, handler', HandlerFromTheEnd', a, b)
      BY ONLY <2>1, <2>2, <3>1 DEF PlainSpelling
    <3> QED
      BY <3>2, SpellsPlain
  <2>5. TrapOps' = 2
    BY <2>4 DEF TrapOps
  <2> QED
    BY <1>1, <1>7, <2>4, <2>5
<1> QED
  BY <1>4, <1>5, <1>6, <1>7

\* Each priority test starts as the invariant says.
LEMMA PriorityStart ==
  ASSUME Priority!InterruptPriorityAssumption, Priority!Init
  PROVE  PriorityInv
<1>1. /\ test \in Priority!Tests /\ depth \in Nat /\ order \in Priority!Orders
      /\ main = Priority!Program(test) /\ handler = <<>> /\ step = 0 /\ mie = {}
      /\ mstatus_mie = FALSE /\ line \subseteq Priority!Interrupts /\ posted = <<>>
      /\ finish = "none"
  BY DEF Priority!InterruptPriorityAssumption, Priority!Init
<1>2. /\ main \in Seq(PriorityOps) /\ MainOps = Len(MainFromTheEnd) /\ MainOps > 2
      /\ \A k \in 1 .. MainOps : main[k] = MainFromTheEnd[MainOps + 1 - k]
  BY <1>1, ProgramSpelled
<1>3. TrapOps = 0 /\ handler \in Seq(PriorityOps) /\ ~Failing
  <2>1. <<>> # <<Priority!Finish("fail")>>
    OBVIOUS
  <2> QED
    BY <1>1, <2>1 DEF TrapOps, Failing
<1>4. LastTrap \in {3, 6} /\ main # <<>>
  <2>1. LastTrap \in {3, 6}
    BY DEF LastTrap
  <2> HIDE DEF PriorityOps
  <2> QED
    BY <1>2, <2>1 DEF MainOps
<1>5. MainOps = IF test = "interrupt_priority" THEN 8 ELSE 11
  BY <1>2, FirstMainOps, OtherMainOps
<1>6. PriorityTypes
  <2>1. posted \in Seq(Stores) /\ Len(posted) = 0
    BY <1>1
  <2>2. MainOps <= Len(MainFromTheEnd)
    BY <1>2, <1>5
  <2>3. step \in 0 .. LastTrap
    BY <1>1, <1>4
  <2>4. ~Failing => /\ TrapOps <= Len(HandlerFromTheEnd)
                    /\ \A k \in 1 .. TrapOps :
                         handler[k] = HandlerFromTheEnd[TrapOps + 1 - k]
    <3>1. step = 0
      BY <1>1
    <3>2. step # LastTrap /\ step # 1 /\ step # 3
      BY <1>4, <3>1
    <3>3. HandlerFromTheEnd = <<>>
      BY ONLY <3>1, <3>2 DEF HandlerFromTheEnd
    <3>4. Len(HandlerFromTheEnd) = 0
      BY ONLY <3>3
    <3> QED
      BY <1>3, <3>4
  <2>5. /\ Len(posted) <= depth /\ line \subseteq Priority!Interrupts
        /\ mie \subseteq Priority!Interrupts /\ finish \in {"none", "pass", "fail"}
    BY <1>1, <2>1
  <2>6. mstatus_mie \in BOOLEAN
    BY <1>1
  <2>7. test \in Priority!Tests /\ depth \in Nat /\ order \in Priority!Orders
    BY <1>1
  <2> HIDE DEF PriorityOps, Stores
  <2> QED
    BY <1>2, <1>3, <2>1, <2>2, <2>3, <2>4, <2>5, <2>6, <2>7 DEF PriorityTypes
<1>7. Control /\ Raises /\ Learnt
  BY <1>1, <1>3, <1>4, <1>5 DEF Control, Raises, Learnt
<1> QED
  BY <1>1, <1>3, <1>6, <1>7 DEF PriorityInv

\* The order of the hart does not change.
LEMMA OrderStands ==
  ASSUME test' = test, order' = order
  PROVE  Priority!RightOrder(test)' <=> Priority!RightOrder(test)
BY DEF Priority!RightOrder

\* main or a handler calls bp_finish().
LEMMA PriorityFinishStep == ASSUME PriorityInv, Priority!DoFinish PROVE PriorityInv'
<1>1. /\ Priority!Execute("finish") /\ finish' = Priority!Current.code /\ test' = test
      /\ depth' = depth /\ order' = order /\ step' = step /\ line' = line
      /\ posted' = posted /\ mie' = mie /\ mstatus_mie' = mstatus_mie
  BY DEF Priority!DoFinish
<1>2. finish = "none" /\ PriorityTypes
  BY <1>1 DEF PriorityInv, Priority!Execute
<1>3. /\ posted \in Seq(Stores) /\ Len(posted) <= depth
      /\ line \subseteq Priority!Interrupts /\ mie \subseteq Priority!Interrupts
      /\ mstatus_mie \in BOOLEAN /\ order \in Priority!Orders /\ test \in Priority!Tests
  BY <1>2 DEF PriorityTypes
<1>4. CASE Failing
  <2>1. handler' = <<>> /\ main' = main /\ finish' = "fail"
    BY <1>1, <1>4, FailingStep, KnownFields
  <2>2. handler' \in Seq(PriorityOps) /\ TrapOps' = 0
    BY <2>1 DEF TrapOps
  <2>3. Len(HandlerFromTheEnd) \in Nat /\ HandlerFromTheEnd' = HandlerFromTheEnd
    <3>1. step > 0
      BY <1>2, <1>4 DEF PriorityInv
    <3> QED
      BY <1>1, <1>2, <3>1, HandlerLength DEF HandlerFromTheEnd, LastTrap
  <2>4. PriorityTypes'
    <3>1. TrapOps' <= Len(HandlerFromTheEnd')
          /\ \A l \in 1 .. TrapOps' : handler'[l] = HandlerFromTheEnd'[TrapOps' + 1 - l]
      BY <2>2, <2>3
    <3> QED
      BY <1>1, <1>2, <1>3, <2>1, <2>2, <3>1, HandlerTypes
  <2>5. depth = 0 => ~Priority!RightOrder(test)
    BY <1>2, <1>4 DEF PriorityInv
  <2> QED
    BY <1>1, <2>1, <2>4, <2>5, OrderStands DEF PriorityInv
<1>5. CASE ~Failing /\ handler # <<>>
  <2>1. /\ Control /\ Raises /\ Learnt
        /\ step \in 1 .. LastTrap /\ main = <<>> /\ main' = main
        /\ Priority!Current = Head(handler) /\ Head(handler).op = "finish"
        /\ TrapOps \in 1 .. Len(HandlerFromTheEnd)
        /\ Head(handler) = HandlerFromTheEnd[TrapOps]
        /\ ~Failing'
        /\ handler' \in Seq(PriorityOps) /\ TrapOps' = TrapOps - 1
        /\ TrapOps' <= Len(HandlerFromTheEnd')
        /\ \A l \in 1 .. TrapOps' : handler'[l] = HandlerFromTheEnd'[TrapOps' + 1 - l]
    BY <1>1, <1>5, HandlerStep
  <2>2. step = LastTrap /\ Priority!Current = Priority!Finish("pass")
    BY <1>2, <2>1, HandlerOthers
  <2>3. finish' = "pass"
    BY <1>1, <2>2, KnownFields
  <2>4. PriorityTypes'
    BY <1>1, <1>2, <1>3, <2>1, <2>3, HandlerTypes
  <2>5. test # "interrupt_priority" \/ depth = 0 => Priority!RightOrder(test)
    <3>1. step > 0 /\ step > 1 /\ step > 2
      BY <2>2 DEF LastTrap
    <3>2. CASE test = "interrupt_priority" /\ depth = 0
      <4>1. Leads(11, 11) /\ Leads(3, 7) /\ Leads(7, 7)
        BY <2>1, <3>1, <3>2 DEF Learnt
      <4> QED
        BY <1>3, <3>2, <4>1, OrderIsRight
    <3>3. CASE test # "interrupt_priority"
      <4>1. Leads(11, 3) /\ Leads(11, 7) /\ Leads(3, 7) /\ Leads(7, 7)
        BY <2>1, <3>1, <3>3 DEF Learnt
      <4> QED
        BY <1>3, <3>3, <4>1, OrderIsRight
    <3> QED
      BY <3>2, <3>3
  <2> QED
    BY <1>1, <2>3, <2>4, <2>5, OrderStands DEF PriorityInv
<1>6. CASE ~Failing /\ handler = <<>>
  <2>1. /\ Head(main).op = "finish"
        /\ MainOps \in 1 .. Len(MainFromTheEnd) /\ Head(main) = MainFromTheEnd[MainOps]
    BY <1>1, <1>6, MainStep
  <2> QED
    BY <2>1, MainOthers
<1> QED
  BY <1>4, <1>5, <1>6

\* main, the handler and the hart's state stay as they are.
LEMMA PriorityRests ==
  ASSUME PriorityTypes, test' = test, depth' = depth, order' = order, main' = main,
         handler' = handler, step' = step, mie' = mie, mstatus_mie' = mstatus_mie
  PROVE  /\ MainOps' = MainOps /\ TrapOps' = TrapOps /\ LastTrap' = LastTrap
         /\ Failing' <=> Failing
         /\ Learnt => Learnt'
         /\ Control => Control'
         /\ /\ line' \subseteq Priority!Interrupts
            /\ posted' \in Seq(Stores) /\ Len(posted') <= depth'
            /\ finish' \in {"none", "pass", "fail"}
            => PriorityTypes'
<1>1. MainOps' = MainOps /\ TrapOps' = TrapOps /\ LastTrap' = LastTrap
      /\ MainFromTheEnd' = MainFromTheEnd
  BY DEF MainOps, TrapOps, LastTrap, MainFromTheEnd
<1>2. Failing' <=> Failing
  BY DEF Failing
<1>3. Learnt => Learnt'
  BY StillLearnt
<1>4. Control => Control'
  BY <1>1 DEF Control
<1>5. /\ main' \in Seq(PriorityOps) /\ MainOps' <= Len(MainFromTheEnd')
      /\ \A k \in 1 .. MainOps' : main'[k] = MainFromTheEnd'[MainOps' + 1 - k]
      /\ mie' \subseteq Priority!Interrupts /\ mstatus_mie' \in BOOLEAN
  BY <1>1 DEF PriorityTypes
<1>6. ASSUME line' \subseteq Priority!Interrupts,
             posted' \in Seq(Stores), Len(posted') <= depth',
             finish' \in {"none", "pass", "fail"}
      PROVE  PriorityTypes'
  BY <1>5, <1>6, MainTypes
<1> QED
  BY <1>1, <1>2, <1>3, <1>4, <1>6

\* A store lands, perhaps after the test has finished.
LEMMA PriorityLandStep == ASSUME PriorityInv, Priority!Land PROVE PriorityInv'
<1>1. /\ posted # <<>> /\ line' = Priority!Apply(Head(posted), line)
      /\ posted' = Tail(posted)
      /\ test' = test /\ depth' = depth /\ order' = order /\ main' = main
      /\ handler' = handler /\ step' = step /\ mie' = mie /\ mstatus_mie' = mstatus_mie
      /\ finish' = finish
  BY DEF Priority!Land
<1>2. PriorityTypes
  BY DEF PriorityInv
<1>3. /\ posted \in Seq(Stores) /\ Len(posted) <= depth /\ depth \in Nat
      /\ line \subseteq {3, 7, 11} /\ finish \in {"none", "pass", "fail"}
  BY <1>2, CauseNumbers DEF PriorityTypes
<1>4. /\ posted' \in Seq(Stores) /\ Len(posted') <= depth'
      /\ line' \subseteq {3, 7, 11}
      /\ \A y : /\ Up(y) => Up(y)'
                /\ Down(y) => Down(y)'
                /\ Steady(y) => Steady(y)'
  BY <1>1, <1>3, LandEffect
<1>5. PriorityTypes' /\ MainOps' = MainOps /\ TrapOps' = TrapOps /\ LastTrap' = LastTrap
      /\ (Failing' <=> Failing) /\ (Learnt => Learnt') /\ (Control => Control')
  BY <1>1, <1>2, <1>3, <1>4, PriorityRests, CauseNumbers
<1>6. Raises => Raises'
  <2>1. /\ (Up(3) => Up(3)') /\ (Up(7) => Up(7)') /\ (Up(11) => Up(11)')
        /\ (Down(3) => Down(3)') /\ (Down(11) => Down(11)')
        /\ (Steady(3) => Steady(3)') /\ (Steady(7) => Steady(7)')
    BY <1>4
  <2> QED
    BY <1>1, <1>5, <2>1 DEF Raises
<1> QED
  BY <1>1, <1>5, <1>6, OrderStands DEF PriorityInv

\* main idles in its last loop, or gives up.
LEMMA PrioritySpinStep == ASSUME PriorityInv, Priority!Spin PROVE PriorityInv'
<1>1. /\ finish = "none" /\ main = <<>> /\ handler = <<>> /\ Priority!Takeable = {}
      /\ finish' = finish \/ finish' = "fail"
      /\ test' = test /\ depth' = depth /\ order' = order /\ main' = main
      /\ handler' = handler /\ step' = step /\ mie' = mie /\ mstatus_mie' = mstatus_mie
      /\ line' = line /\ posted' = posted
  BY DEF Priority!Spin
<1>2. ~Failing /\ MainOps = 0 /\ TrapOps = 0
  <2>1. <<>> # <<Priority!Finish("fail")>>
    OBVIOUS
  <2> QED
    BY <1>1, <2>1 DEF Failing, MainOps, TrapOps
<1>3. PriorityTypes /\ Control /\ Raises /\ Learnt
  BY <1>1, <1>2 DEF PriorityInv
<1>4. /\ posted \in Seq(Stores) /\ Len(posted) <= depth /\ depth \in Nat
      /\ line \subseteq Priority!Interrupts /\ order \in Priority!Orders
      /\ test \in Priority!Tests /\ step \in 0 .. LastTrap
  BY <1>3 DEF PriorityTypes
<1>5. PriorityTypes' /\ MainOps' = MainOps /\ TrapOps' = TrapOps /\ LastTrap' = LastTrap
      /\ ~Failing' /\ Learnt' /\ Control'
  BY <1>1, <1>2, <1>3, <1>4, PriorityRests
<1>6. Raises'
  BY <1>1, <1>3, <1>5, StillRaised DEF Raises
<1>7. ASSUME depth = 0 PROVE ~Priority!RightOrder(test)
  <2>1. posted = <<>>
    <3> HIDE DEF Stores
    <3> QED
      BY <1>4, <1>7, EmptyWhenNothingLeft
  <2>2. \A x : (Up(x) <=> x \in line) /\ (Steady(x) => x \in line)
    BY <2>1, NothingPosted DEF Steady
  <2>3. mstatus_mie /\ step # LastTrap
    BY <1>1, <1>2, <1>3 DEF Control
  <2>4. \A x \in line \intersect mie : ~Leads(x, 3) /\ ~Leads(x, 7) /\ ~Leads(x, 11)
    BY <1>1, <2>3, NothingTaken
  <2>5. CASE test = "interrupt_priority"
    <3>1. LastTrap = 3 /\ step \in {0, 1, 2}
      BY <1>4, <2>3, <2>5 DEF LastTrap
    <3>2. CASE step = 0
      <4>1. mie = {11} /\ 11 \in line
        BY <1>2, <1>3, <2>2, <2>5, <3>2 DEF Control, Raises
      <4> QED
        BY <1>4, <2>4, <2>5, <4>1, OrderIsRight
    <3>3. CASE step = 1
      <4>1. mie = {3, 7, 11} /\ 3 \in line
        BY <1>2, <1>3, <2>2, <2>5, <3>3 DEF Control, Raises
      <4> QED
        BY <1>4, <2>4, <2>5, <4>1, OrderIsRight
    <3>4. CASE step = 2
      <4>1. mie = {3, 7, 11} /\ 7 \in line
        BY <1>2, <1>3, <2>2, <2>5, <3>4 DEF Control, Raises
      <4> QED
        BY <1>4, <2>4, <2>5, <4>1, OrderIsRight
    <3> QED
      BY <3>1, <3>2, <3>3, <3>4
  <2>6. CASE test # "interrupt_priority"
    <3>1. mie = {3, 7, 11}
      BY <1>2, <1>3, <2>6 DEF Control
    <3>2. step \in {0, 1, 2, 4, 5} \/ (step = 3 /\ test = "race")
      BY <1>4, <2>3, <2>6 DEF LastTrap
    <3>3. 3 \in line \/ 7 \in line
      BY <1>2, <1>3, <2>2, <2>6, <3>2 DEF Raises
    <3> QED
      BY <1>4, <2>4, <2>6, <3>1, <3>3, OrderIsRight
  <2> QED
    BY <2>5, <2>6
<1> QED
  BY <1>1, <1>5, <1>6, <1>7, OrderStands DEF PriorityInv

\* What is known when the hart traps
LEMMA TrapFacts ==
  ASSUME PriorityInv, Priority!Trap
  PROVE  LET e == Priority!Highest(Priority!Takeable)
         IN  /\ finish = "none" /\ finish' = "none" /\ handler = <<>> /\ main = <<>>
             /\ mstatus_mie /\ PriorityTypes /\ Control /\ Raises /\ Learnt
             /\ MainOps = 0 /\ TrapOps = 0
             /\ step' = step + 1 /\ step' \in 1 .. LastTrap /\ step \in 0 .. LastTrap - 1
             /\ handler' = Priority!Handler(test, step', e)
             /\ e \in line \intersect mie /\ e \in {3, 7, 11} /\ Leads(e, e)
             /\ \A y \in line \intersect mie : y # e => Leads(e, y)
             /\ test' = test /\ depth' = depth /\ order' = order /\ main' = main
             /\ mie' = mie /\ mstatus_mie' = mstatus_mie /\ line' = line /\ posted' = posted
<1> DEFINE e == Priority!Highest(Priority!Takeable)
<1>1. /\ finish = "none" /\ finish' = "none" /\ step' = step + 1
      /\ Priority!Takeable # {} /\ handler' = Priority!Handler(test, step + 1, e)
      /\ test' = test /\ depth' = depth /\ order' = order /\ main' = main
      /\ mie' = mie /\ mstatus_mie' = mstatus_mie /\ line' = line /\ posted' = posted
  BY DEF Priority!Trap
<1>2. mstatus_mie /\ handler = <<>>
  BY <1>1 DEF Priority!Takeable
<1>3. ~Failing /\ TrapOps = 0
  <2>1. <<>> # <<Priority!Finish("fail")>>
    OBVIOUS
  <2> QED
    BY <1>2, <2>1 DEF Failing, TrapOps
<1>4. PriorityTypes /\ Control /\ Raises /\ Learnt
  BY <1>1, <1>3 DEF PriorityInv
<1>5. main = <<>> /\ MainOps = 0 /\ step # LastTrap
  BY <1>2, <1>3, <1>4 DEF Control, MainOps
<1>6. /\ line \subseteq {3, 7, 11} /\ order \in Priority!Orders /\ step \in 0 .. LastTrap
  BY <1>4, CauseNumbers DEF PriorityTypes
<1>7. step' \in 1 .. LastTrap /\ step \in 0 .. LastTrap - 1
  BY <1>1, <1>5, <1>6 DEF LastTrap
<1>8. /\ e \in line \intersect mie /\ Leads(e, e)
      /\ \A y \in line \intersect mie : y # e => Leads(e, y)
  BY <1>1, <1>6, HighestLeads
<1> HIDE DEF e
<1>9. e \in {3, 7, 11} /\ handler' = Priority!Handler(test, step', e)
  BY <1>1, <1>6, <1>8
<1> QED
  BY <1>1, <1>2, <1>3, <1>4, <1>5, <1>7, <1>8, <1>9 DEF e

\* Which interrupts can be pending and enabled when trap n is taken: step is n - 1
LEMMA PendingAtTrap ==
  ASSUME PriorityTypes, Control, Raises, MainOps = 0, TrapOps = 0, step \in 0 .. LastTrap - 1
  PROVE  /\ test = "interrupt_priority" =>
              /\ step = 0 => line \intersect mie \subseteq {11}
              /\ step > 0 => mie = {3, 7, 11}
              /\ depth = 0 => /\ step = 0 => 11 \in line \intersect mie
                              /\ step = 1 => line \intersect mie = {3, 7}
                              /\ step = 2 => line \intersect mie = {7}
         /\ test # "interrupt_priority" =>
              /\ mie = {3, 7, 11}
              /\ step \in {0, 3} => posted = <<>> /\ line = {3, 7, 11}
              /\ step \in {1, 4} => 3 \in line /\ 7 \in line
              /\ step \in {2, 5} => 7 \in line
              /\ depth = 0 => /\ step \in {1, 4} => 11 \notin line
                              /\ step \in {2, 5} => 11 \notin line /\ 3 \notin line
<1>1. /\ posted \in Seq(Stores) /\ Len(posted) <= depth /\ depth \in Nat
      /\ line \subseteq {3, 7, 11} /\ test \in Priority!Tests
  BY CauseNumbers DEF PriorityTypes
<1>2. depth = 0 => posted = <<>>
  <2> HIDE DEF Stores
  <2> QED
    BY <1>1, EmptyWhenNothingLeft
<1>3. posted = <<>> => /\ (Up(3) <=> 3 \in line) /\ (Up(7) <=> 7 \in line)
                       /\ (Up(11) <=> 11 \in line)
                       /\ (Down(3) <=> 3 \notin line) /\ (Down(11) <=> 11 \notin line)
  BY NothingPosted
<1>4. (Steady(3) => 3 \in line) /\ (Steady(7) => 7 \in line)
  BY DEF Steady
<1>5. ASSUME test = "interrupt_priority"
      PROVE  /\ step = 0 => line \intersect mie \subseteq {11}
             /\ step > 0 => mie = {3, 7, 11}
             /\ depth = 0 => /\ step = 0 => 11 \in line \intersect mie
                             /\ step = 1 => line \intersect mie = {3, 7}
                             /\ step = 2 => line \intersect mie = {7}
  <2>1. step = 0 => mie = {11}
    BY <1>5 DEF Control
  <2>2. step > 0 => mie = {3, 7, 11}
    BY <1>5 DEF Control, LastTrap
  <2>3. ASSUME depth = 0
        PROVE  /\ step = 0 => 11 \in line
               /\ step = 1 => 11 \notin line /\ 3 \in line /\ 7 \in line
               /\ step = 2 => 11 \notin line /\ 3 \notin line /\ 7 \in line
    BY <1>2, <1>3, <1>5, <2>3 DEF Raises
  <2>4. (step = 1 => step > 0) /\ (step = 2 => step > 0)
    OBVIOUS
  <2>5. step = 0 => line \intersect mie \subseteq {11}
    BY <2>1
  <2>6. ASSUME depth = 0
        PROVE  /\ step = 0 => 11 \in line \intersect mie
               /\ step = 1 => line \intersect mie = {3, 7}
               /\ step = 2 => line \intersect mie = {7}
    BY <1>1, <2>1, <2>2, <2>3, <2>4, <2>6
  <2> QED
    BY <2>2, <2>5, <2>6
<1>6. ASSUME test # "interrupt_priority"
      PROVE  /\ mie = {3, 7, 11}
             /\ step \in {0, 3} => posted = <<>> /\ line = {3, 7, 11}
             /\ step \in {1, 4} => 3 \in line /\ 7 \in line
             /\ step \in {2, 5} => 7 \in line
             /\ depth = 0 => /\ step \in {1, 4} => 11 \notin line
                             /\ step \in {2, 5} => 11 \notin line /\ 3 \notin line
  <2>1. mie = {3, 7, 11}
    BY <1>6 DEF Control
  <2>2. step = 3 => test = "race"
    BY <1>1, <1>6 DEF LastTrap, Priority!Tests
  <2>3. step \in {0, 3} => posted = <<>> /\ Up(3) /\ Up(7) /\ Up(11)
    BY <1>6, <2>2 DEF Raises
  <2>4. step \in {0, 3} => posted = <<>> /\ line = {3, 7, 11}
    BY <1>1, <1>3, <2>3
  <2>5. /\ step \in {1, 4} => 3 \in line /\ 7 \in line
        /\ step \in {2, 5} => 7 \in line
    BY <1>4, <1>6 DEF Raises
  <2>6. ASSUME depth = 0
        PROVE  /\ step \in {1, 4} => 11 \notin line
               /\ step \in {2, 5} => 11 \notin line /\ 3 \notin line
    BY <1>2, <1>3, <1>6, <2>6 DEF Raises
  <2> QED
    BY <2>1, <2>4, <2>5, <2>6
<1> QED
  BY <1>5, <1>6

\* The cause of the trap is the one the test expects, or the order is wrong.
LEMMA WrongCause ==
  ASSUME PriorityTypes, Control, Raises, MainOps = 0, TrapOps = 0,
         step \in 0 .. LastTrap - 1, depth = 0,
         NEW e \in line \intersect mie, e \in {3, 7, 11}, e # Causes[step + 1],
         \A y \in line \intersect mie : y # e => Leads(e, y)
  PROVE  ~Priority!RightOrder(test)
<1>1. order \in Priority!Orders /\ test \in Priority!Tests
  BY DEF PriorityTypes
<1>2. /\ Causes[1] = 11 /\ Causes[2] = 3 /\ Causes[3] = 7
      /\ Causes[4] = 11 /\ Causes[5] = 3 /\ Causes[6] = 7
  BY DEF Causes
<1>3. CASE test = "interrupt_priority"
  <2>1. step \in {0, 1, 2}
    BY <1>3 DEF LastTrap
  <2>2. step = 1
    BY <1>2, <1>3, <2>1, PendingAtTrap
  <2>3. e = 7 /\ 3 \in line \intersect mie
    BY <1>2, <1>3, <2>2, PendingAtTrap
  <2>4. Leads(7, 3)
    BY <2>3
  <2>5. ~Leads(3, 7)
    BY <1>1, <2>4, LeadsIsStrict
  <2> QED
    BY <1>1, <1>3, <2>5, OrderIsRight
<1>4. CASE test # "interrupt_priority"
  <2>1. step \in {0, 1, 2, 3, 4, 5}
    BY DEF LastTrap
  <2>2. mie = {3, 7, 11}
    BY <1>4, PendingAtTrap
  <2>3. CASE step \in {0, 3}
    <3>1. line = {3, 7, 11} /\ e # 11
      BY <1>2, <1>4, <2>3, PendingAtTrap
    <3>2. Leads(e, 11)
      BY <2>2, <3>1
    <3>3. ~Leads(11, e)
      BY <1>1, <3>1, <3>2, LeadsIsStrict
    <3>4. ~Leads(11, 3) \/ ~Leads(11, 7)
      BY <3>1, <3>3
    <3> QED
      BY <1>1, <1>4, <3>4, OrderIsRight
  <2>4. CASE step \in {1, 4}
    <3>1. e # 3 /\ 3 \in line /\ 11 \notin line
      BY <1>2, <1>4, <2>4, PendingAtTrap
    <3>2. e = 7 /\ Leads(7, 3)
      BY <2>2, <3>1
    <3>3. ~Leads(3, 7)
      BY <1>1, <3>2, LeadsIsStrict
    <3> QED
      BY <1>1, <1>4, <3>3, OrderIsRight
  <2>5. CASE step \in {2, 5}
    <3>1. e # 7 /\ 3 \notin line /\ 11 \notin line
      BY <1>2, <1>4, <2>5, PendingAtTrap
    <3> QED
      BY <3>1
  <2> QED
    BY <2>1, <2>3, <2>4, <2>5
<1> QED
  BY <1>3, <1>4

\* The expected cause says what the test is to learn of the order.
LEMMA RightCause ==
  ASSUME PriorityTypes, Control, Raises, Learnt, MainOps = 0, TrapOps = 0,
         step \in 0 .. LastTrap - 1, step' = step + 1,
         test' = test, depth' = depth, order' = order,
         Leads(Causes[step + 1], Causes[step + 1]),
         \A y \in line \intersect mie : y # Causes[step + 1] => Leads(Causes[step + 1], y)
  PROVE  Learnt'
<1>1. /\ Causes[1] = 11 /\ Causes[2] = 3 /\ Causes[3] = 7
      /\ Causes[4] = 11 /\ Causes[5] = 3 /\ Causes[6] = 7
  BY DEF Causes
<1>2. step \in {0, 1, 2, 3, 4, 5}
  BY DEF LastTrap
<1>3. \A x, y : Leads(x, y)' <=> Leads(x, y)
  BY DEF Leads
<1>4. ASSUME test = "interrupt_priority", depth = 0
      PROVE  /\ step + 1 > 0 => Leads(11, 11)
             /\ step + 1 > 1 => Leads(3, 7)
             /\ step + 1 > 2 => Leads(7, 7)
  <2>1. step = 0 => Leads(11, 11)
    BY <1>1
  <2>2. step = 1 => Leads(3, 7)
    BY <1>1, <1>4, PendingAtTrap
  <2>3. step = 2 => Leads(7, 7)
    BY <1>1
  <2> QED
    BY <1>2, <1>4, <2>1, <2>2, <2>3 DEF Learnt
<1>5. ASSUME test # "interrupt_priority"
      PROVE  /\ step + 1 > 0 => Leads(11, 3) /\ Leads(11, 7)
             /\ step + 1 > 1 => Leads(3, 7)
             /\ step + 1 > 2 => Leads(7, 7)
  <2>1. step = 0 => Leads(11, 3) /\ Leads(11, 7)
    BY <1>1, <1>5, PendingAtTrap
  <2>2. step = 1 => Leads(3, 7)
    BY <1>1, <1>5, PendingAtTrap
  <2>3. step = 2 => Leads(7, 7)
    BY <1>1
  <2> QED
    BY <1>2, <1>5, <2>1, <2>2, <2>3 DEF Learnt
<1> QED
  BY <1>3, <1>4, <1>5 DEF Learnt

\* When nothing changes, the invariant stays.
LEMMA PriorityUnchanged == ASSUME PriorityInv, UNCHANGED Priority!vars PROVE PriorityInv'
<1>1. /\ test' = test /\ depth' = depth /\ order' = order /\ main' = main
      /\ handler' = handler /\ step' = step /\ mie' = mie /\ mstatus_mie' = mstatus_mie
      /\ line' = line /\ posted' = posted /\ finish' = finish
  BY DEF Priority!vars
<1>2. PriorityTypes
  BY DEF PriorityInv
<1>3. PriorityTypes' /\ MainOps' = MainOps /\ TrapOps' = TrapOps /\ LastTrap' = LastTrap
      /\ (Failing' <=> Failing) /\ (Learnt => Learnt') /\ (Control => Control')
  <2>1. /\ line' \subseteq Priority!Interrupts /\ posted' \in Seq(Stores)
        /\ Len(posted') <= depth' /\ finish' \in {"none", "pass", "fail"}
    BY <1>1, <1>2 DEF PriorityTypes
  <2> QED
    BY <1>1, <1>2, <2>1, PriorityRests
<1>4. Raises => Raises'
  BY <1>1, <1>3, StillRaised DEF Raises
<1> QED
  BY <1>1, <1>3, <1>4, OrderStands DEF PriorityInv

\* The hart traps.
LEMMA PriorityTrapStep == ASSUME PriorityInv, Priority!Trap PROVE PriorityInv'
<1>1. PICK e \in {3, 7, 11} :
        /\ finish = "none" /\ finish' = "none" /\ handler = <<>> /\ main = <<>>
        /\ mstatus_mie /\ PriorityTypes /\ Control /\ Raises /\ Learnt
        /\ MainOps = 0 /\ TrapOps = 0
        /\ step' = step + 1 /\ step' \in 1 .. LastTrap /\ step \in 0 .. LastTrap - 1
        /\ handler' = Priority!Handler(test, step', e)
        /\ e \in line \intersect mie /\ Leads(e, e)
        /\ \A y \in line \intersect mie : y # e => Leads(e, y)
        /\ test' = test /\ depth' = depth /\ order' = order /\ main' = main
        /\ mie' = mie /\ mstatus_mie' = mstatus_mie /\ line' = line /\ posted' = posted
  BY TrapFacts
<1>2. test \in Priority!Tests /\ order \in Priority!Orders /\ LastTrap' = LastTrap
      /\ MainOps' = MainOps
  BY <1>1 DEF PriorityTypes, LastTrap, MainOps
<1>3. ASSUME /\ handler' \in Seq(PriorityOps)
             /\ ~Failing' => /\ TrapOps' <= Len(HandlerFromTheEnd')
                             /\ \A k \in 1 .. TrapOps' :
                                  handler'[k] = HandlerFromTheEnd'[TrapOps' + 1 - k]
      PROVE  PriorityTypes'
  <2>1. MainFromTheEnd' = MainFromTheEnd
    BY <1>1 DEF MainFromTheEnd
  <2>2. /\ main' \in Seq(PriorityOps) /\ MainOps' <= Len(MainFromTheEnd')
        /\ \A k \in 1 .. MainOps' : main'[k] = MainFromTheEnd'[MainOps' + 1 - k]
    BY <1>1, <1>2, <2>1 DEF PriorityTypes
  <2>3. /\ test' \in Priority!Tests /\ depth' \in Nat /\ order' \in Priority!Orders
        /\ mie' \subseteq Priority!Interrupts /\ line' \subseteq Priority!Interrupts
        /\ mstatus_mie' \in BOOLEAN
        /\ posted' \in Seq(Stores) /\ Len(posted') <= depth'
    BY <1>1 DEF PriorityTypes
  <2>4. step' \in 0 .. LastTrap'
    BY <1>1, <1>2 DEF LastTrap
  <2> QED
    BY <1>1, <1>3, <2>2, <2>3, <2>4 DEF PriorityTypes
<1>4. CASE e # Causes[step + 1]
  <2>1. handler' = <<Priority!Finish("fail")>>
    <3>1. e # Priority!Expected(test)[step']
      BY <1>1, <1>2, <1>4, ExpectedCauses
    <3> QED
      BY <1>1, <3>1 DEF Priority!Handler
  <2>2. Failing'
    BY <2>1 DEF Failing
  <2>3. handler' \in Seq(PriorityOps)
    <3>1. Priority!Finish("fail") \in PriorityOps
      BY KnownOps
    <3> QED
      BY <2>1, <3>1
  <2>4. depth = 0 => ~Priority!RightOrder(test)
    BY <1>1, <1>4, WrongCause
  <2> QED
    BY <1>1, <1>3, <2>2, <2>3, <2>4, OrderStands DEF PriorityInv
<1>5. CASE e = Causes[step + 1]
  <2>1. handler' = Priority!Handler(test, step', Causes[step'])
    BY <1>1, <1>5
  <2>2. /\ handler' \in Seq(PriorityOps) /\ TrapOps' = Len(HandlerFromTheEnd')
        /\ step' = LastTrap => TrapOps' = 3
        /\ test = "interrupt_priority" /\ step' = 1 => TrapOps' = 6
        /\ test = "race" /\ step' = 3 => TrapOps' = 7
        /\ TrapOps' > 1
        /\ \A k \in 1 .. TrapOps' : handler'[k] = HandlerFromTheEnd'[TrapOps' + 1 - k]
    BY <1>1, <1>2, <2>1, HandlerSpelled
  <2>3. TrapOps' \in Nat
    BY <2>2 DEF TrapOps
  <2>4. PriorityTypes'
    BY <1>3, <2>2, <2>3
  <2>5. ~Failing'
    <3>1. SUFFICES ASSUME handler' = <<Priority!Finish("fail")>> PROVE FALSE
      BY DEF Failing
    <3>2. Len(handler') = 1
      BY ONLY <3>1, OneElement
    <3> QED
      BY <2>2, <3>2 DEF TrapOps
  <2>6. Control'
    <3>1. main' = <<>> /\ MainOps' = 0 /\ step' > 0 /\ mstatus_mie'
      BY <1>1, <1>2
    <3>2. step' = LastTrap' => TrapOps' > 1
      BY <2>2
    <3>3. test = "interrupt_priority" /\ step = 0 => mie = {11}
      BY <1>1 DEF Control
    <3>4. test = "interrupt_priority" /\ step > 0 => mie = {3, 7, 11}
      BY <1>1, PendingAtTrap
    <3>5. test # "interrupt_priority" => mie = {3, 7, 11}
      BY <1>1, PendingAtTrap
    <3>6. test = "interrupt_priority" =>
            /\ MainOps' > 6 => mie' = {}
            /\ MainOps' <= 6 /\ step' = 0 => mie' = {11}
            /\ step' = 1 /\ TrapOps' > 4 => mie' = {11}
            /\ step' > 1 \/ (step' = 1 /\ TrapOps' <= 4) => mie' = {3, 7, 11}
      BY <1>1, <2>2, <3>1, <3>3, <3>4
    <3> QED
      BY <1>1, <3>1, <3>2, <3>5, <3>6 DEF Control
  <2>7. Raises'
    <3>1. \A x : posted = <<>> => (Up(x) <=> x \in line) /\ Untouched(x)
      BY NothingPosted DEF Untouched
    <3>2. test = "interrupt_priority" /\ step = 1 => Down(11) /\ Up(7)
      BY <1>1 DEF Raises
    <3>3. test # "interrupt_priority" /\ step \in {0, 3} => Steady(3) /\ Steady(7)
      BY <1>1, <3>1, PendingAtTrap DEF Steady
    <3>4. test # "interrupt_priority" /\ step \in {1, 4} => Steady(7) /\ Down(11)
      BY <1>1 DEF Raises
    <3>5. step \in {0, 1, 2, 3, 4, 5}
      BY <1>1 DEF LastTrap
    <3>6. /\ (Up(7)' <=> Up(7)) /\ (Down(11)' <=> Down(11))
          /\ (Steady(3)' <=> Steady(3)) /\ (Steady(7)' <=> Steady(7))
      BY <1>1, StillRaised
    <3>7. CASE test = "interrupt_priority"
      <4>1. step' = 2 => step = 1
        BY <1>1, <3>5
      <4>2. step' = 2 => Down(11)' /\ Up(7)'
        BY ONLY <3>2, <3>7, <3>6, <4>1
      <4>3. test' = "interrupt_priority" /\ step' \in Nat /\ step' > 0
        BY <1>1, <3>5, <3>7
      <4>4. step' = 1 => TrapOps' = 6
        BY <2>2, <3>7
      <4>5. TrapOps' \in Nat /\ TrapOps' > 1
        BY ONLY <2>2, <2>3
      <4> QED
        BY ONLY <4>2, <4>3, <4>4, <4>5 DEF Raises
    <3>8. CASE test # "interrupt_priority"
      <4>1. /\ step' \in {1, 4} => step \in {0, 3}
            /\ step' \in {2, 5} => step \in {1, 4}
        BY <1>1, <3>5
      <4>2. step' \in {1, 4} => Steady(3)' /\ Steady(7)'
        BY ONLY <3>3, <3>8, <3>6, <4>1
      <4>3. step' \in {2, 5} => Steady(7)' /\ Down(11)'
        BY ONLY <3>4, <3>8, <3>6, <4>1
      <4>4. test' # "interrupt_priority" /\ step' \in Nat /\ step' > 0
        BY <1>1, <3>5, <3>8
      <4>5. test' = "race" /\ step' = 3 => TrapOps' = 7
        BY <1>1, <2>2
      <4>6. TrapOps' \in Nat /\ TrapOps' > 1
        BY ONLY <2>2, <2>3
      <4> QED
        BY ONLY <4>2, <4>3, <4>4, <4>5, <4>6 DEF Raises
    <3> QED
      BY <3>7, <3>8
  <2>8. Learnt'
    BY <1>1, <1>5, RightCause
  <2> QED
    BY <1>1, <2>4, <2>5, <2>6, <2>7, <2>8 DEF PriorityInv
<1> QED
  BY <1>4, <1>5

\* A step of a priority test keeps the invariant.
LEMMA PriorityStep == ASSUME PriorityInv, Priority!Next PROVE PriorityInv'
<1>1. CASE Priority!Terminated
  <2>1. UNCHANGED Priority!vars
    BY <1>1 DEF Priority!Terminated
  <2> QED
    BY <2>1, PriorityUnchanged
<1> QED
  BY <1>1, PriorityTrapStep, PriorityStoreStep, PriorityQuietStep, PriorityFinishStep,
     PrioritySpinStep, PriorityLandStep DEF Priority!Next

-----------------------------------------------------------------------------
(* All the programs *)

\* Inv holds when a program has been loaded.
LEMMA InitInv == Init => Inv
<1> SUFFICES ASSUME Init PROVE Inv
  OBVIOUS
<1>1. CASE test = "s_mideleg"
  <2>1. Delegation!Init
    BY <1>1, OtherTests DEF Init, Priority!Init, External!Init, Timer!Init
  <2>2. DelegationInv
    BY <2>1
    DEF Delegation!Init, DelegationInv, DelegationTypes, SetUp, LineFollows, RuledOut,
        Delegation!VerdictIsExact, At, Raised, From2, From3, From4
  <2> QED
    BY <1>1, <2>2, OtherTests DEF Inv
<1>2. CASE test \in Timer!Tests
  <2>1. Timer!Init
    BY <1>2, OtherTests DEF Init, Priority!Init, External!Init
  <2>2. TimerTypes
    <3>1. fault \in Timer!FaultsOf(test)
      BY <2>1 DEF Timer!Init
    <3>2. left \in Nat /\ posted = Timer!None
      BY <2>1, TimerConstants DEF Timer!Init
    <3> QED
      BY <2>1, <3>1, <3>2 DEF Timer!Init, TimerTypes
  <2>3. CountInv /\ DeadlineInv /\ AddInv /\ WaitInv /\ NoWaitInv
    BY <2>1, TimerConstants
    DEF Timer!Init, CountInv, DeadlineInv, AddInv, WaitInv, NoWaitInv, Timer!None
  <2> QED
    BY <1>2, <2>2, <2>3, OtherTests DEF Inv, TimerInv
<1>3. CASE test \in External!Tests
  <2>1. External!Init
    BY <1>3, OtherTests DEF Init, Priority!Init, Timer!Init
  <2> QED
    BY <1>3, <2>1, ExternalStart, OtherTests DEF Inv
<1>4. CASE test \in Priority!Tests
  <2>1. Priority!Init
    BY <1>4, OtherTests DEF Init, External!Init, Timer!Init
  <2>2. Priority!InterruptPriorityAssumption
    BY InterruptTestsAssumption
  <2> QED
    BY <1>4, <2>1, <2>2, PriorityStart, OtherTests DEF Inv
<1> QED
  BY <1>1, <1>2, <1>3, <1>4 DEF Inv

\* Every step of every program keeps Inv.
LEMMA NextInv == Inv /\ [Next]_vars => Inv'
<1> SUFFICES ASSUME Inv, [Next]_vars PROVE Inv'
  OBVIOUS
<1>2. CASE PriorityNext
  <2>1. test' = test
    BY <1>2
    DEF PriorityNext, Priority!Next, Priority!Trap, Priority!DoStore, Priority!DoDrain,
        Priority!DoMie, Priority!DoMstatus, Priority!DoMret, Priority!DoFinish,
        Priority!Spin, Priority!Land, Priority!Terminated, Priority!vars
  <2>2. PriorityInv'
    BY <1>2, PriorityStep DEF PriorityNext, Inv
  <2> QED
    BY <1>2, <2>1, <2>2, OtherTests DEF PriorityNext, Inv
<1>3. CASE ExternalNext
  <2>1. test' = test
    BY <1>3
    DEF ExternalNext, External!Next, External!TrapHandler, External!SetLine, External!Land,
        External!ClearCnt, External!CountUp, External!WriteSeip, External!ReadPending,
        External!SetUpTrap, External!SetMie, External!CheckState, External!Finish,
        External!Terminated, External!vars
  <2>2. DelaysSuffice => ExternalInv'
    BY <1>3, ExternalStep DEF ExternalNext, Inv
  <2> QED
    BY <1>3, <2>1, <2>2, OtherTests DEF ExternalNext, Inv, DelaysSuffice
<1>4. CASE DelegationNext
  BY <1>4, DelegationStep, OtherTests DEF DelegationNext, Inv
<1>5. CASE TimerNext
  BY <1>5, TimerStep, OtherTests DEF TimerNext, Inv
<1>6. CASE UNCHANGED vars
  <2>1. /\ test = "s_mideleg" => DelegationInv
        /\ test \in Timer!Tests => TimerInv
        /\ test \in External!Tests /\ DelaysSuffice => ExternalInv
        /\ test \in Priority!Tests => PriorityInv
    BY DEF Inv
  <2>2. /\ test' = "s_mideleg" => DelegationInv'
        /\ test' \in Timer!Tests => TimerInv'
        /\ test' \in External!Tests /\ DelaysSuffice => ExternalInv'
    BY <1>6, <2>1
    DEF vars, priorityOnly, externalOnly, midelegOnly, timerOnly, DelegationInv,
        DelegationTypes, SetUp, LineFollows, RuledOut, Delegation!VerdictIsExact,
        Delegation!Unseen, At, Raised, TimerInv, TimerTypes, CountInv, DeadlineInv, AddInv, WaitInv, NoWaitInv,
        StoresAreEarly, LoopIsLong, ExternalInv, ExternalTypes, ExternalVerdict, FaultsFound,
        TrapInv, SeipInv, SLineInv, MLineInv, Quiet, Flight, Todo, FromTheEnd, ProgramLength,
        External!Visible
  <2>3. UNCHANGED Priority!vars
    BY <1>6 DEF vars, priorityOnly, Priority!vars
  <2>4. test' \in Priority!Tests => PriorityInv'
    BY <1>6, <2>1, <2>3, PriorityUnchanged DEF vars
  <2> QED
    BY <2>2, <2>4 DEF Inv, DelaysSuffice
<1> QED
  BY <1>2, <1>3, <1>4, <1>5, <1>6 DEF Next

\* The inductive invariant, for all deadlines, counts and latencies.
THEOREM Invariance == FairSpec => []Inv
BY InitInv, NextInv, PTL DEF FairSpec

\* What a verdict of s_mideleg.S says of a hart, whenever the store that raises
\* the line lands: with the line up in time it is exact; a third phase that looks
\* too early passes a hart whose undelegated line leaks, and a fourth that does
\* fails a right one.
THEOREM DelegationVerdictHolds == FairSpec => []DelegationVerdict
<1>1. Inv => DelegationVerdict
  BY DEF Inv, DelegationInv, DelegationVerdict
<1> QED
  BY <1>1, Invariance, PTL

\* The verdicts of timer_interrupt.c and amo_interrupt.c mean what they are taken
\* to mean for any deadlines and latencies; that of wfi.c does when the first
\* interrupt is far enough off for a hart that does not wait to give itself away
\* (100000 ticks against 5000 instructions).
THEOREM TimerVerdictIsExactHolds ==
  ASSUME LoopIsLong
  PROVE  FairSpec => []TimerVerdictIsExact
<1>1. Inv => TimerVerdictIsExact
  <2> SUFFICES ASSUME Inv, test \in Timer!Tests, finish # "none"
               PROVE  Timer!VerdictIsExact
    BY DEF TimerVerdictIsExact, Timer!VerdictIsExact
  <2>1. TimerInv
    BY DEF Inv
  <2>2. CASE test = "timer_interrupt"
    BY <2>1, <2>2, TimerConstants DEF TimerInv, TimerTypes, CountInv, Timer!VerdictIsExact
  <2>3. CASE test = "amo_interrupt"
    <3>1. finish = "pass" <=> ~damaged
      BY <2>1, <2>3, TimerConstants DEF TimerInv, TimerTypes, AddInv
    <3> QED
      BY <2>3, <3>1 DEF Timer!VerdictIsExact
  <2>4. CASE test = "wfi"
    <3>1. finish = "fail" <=> fault = "nop"
      BY <2>1, <2>4 DEF TimerInv, TimerTypes, WaitInv, NoWaitInv
    <3> QED
      BY <2>4, <3>1 DEF Timer!VerdictIsExact
  <2> QED
    BY <2>2, <2>3, <2>4 DEF Timer!Tests
<1> QED
  BY <1>1, Invariance, PTL

\* timer_interrupt.c counts each deadline once, if the store of its handler has
\* landed before the report is printed and the count compared.
THEOREM CountsDeadlinesHolds ==
  ASSUME StoresAreEarly
  PROVE  FairSpec => []CountsDeadlines
<1>1. Inv => CountsDeadlines
  BY DEF Inv, TimerInv, DeadlineInv, CountsDeadlines, Timer!CountsDeadlines, Timer!Tests
<1> QED
  BY <1>1, Invariance, PTL

\* The external interrupt tests fail exactly on the harts with a fault they look
\* for, whatever the number of stores in flight, if their delays outlast a store
\* to the PLIC.
THEOREM ExternalVerdictIsExactHolds ==
  ASSUME DelaysSuffice
  PROVE  FairSpec => []ExternalVerdictIsExact
<1>1. Inv => ExternalVerdictIsExact
  BY DEF Inv, ExternalInv, ExternalVerdict, ExternalVerdictIsExact, External!VerdictIsExact
<1> QED
  BY <1>1, Invariance, PTL

\* Whatever the stores in flight, a hart that passes interrupt_priority_simultaneous.c
\* or _race.c has the order right; with stores that take effect at once the three
\* priority tests pass exactly the harts with the right order.
THEOREM PriorityVerdictHolds == FairSpec => []PriorityVerdict
<1>1. Inv => PriorityVerdict
  <2> SUFFICES ASSUME Inv, test \in Priority!Tests
               PROVE  Priority!VerdictIsExact /\ Priority!PassMeansOrder
    BY DEF PriorityVerdict
  <2>1. PriorityInv /\ finish \in {"none", "pass", "fail"}
    BY DEF Inv, PriorityInv, PriorityTypes
  <2>2. Priority!VerdictIsExact
    BY <2>1 DEF PriorityInv, Priority!VerdictIsExact
  <2>3. Priority!PassMeansOrder
    BY <2>1 DEF PriorityInv, Priority!PassMeansOrder
  <2> QED
    BY <2>2, <2>3
<1> QED
  BY <1>1, Invariance, PTL

\* What _simultaneous.c and _race.c arm together is pending when the hart chooses,
\* whatever the stores in flight.
THEOREM ArmedTogetherHolds == FairSpec => ArmedTogether
<1> DEFINE Choice == /\ test \in {"simultaneous", "race"}
                     /\ handler = <<>> /\ handler' # <<>> /\ step \in {0, 3}
<1>1. Inv /\ [Next]_vars => [Choice => line = Priority!Interrupts]_vars
  <2> SUFFICES ASSUME Inv, Next, Choice PROVE line = Priority!Interrupts
    BY DEF vars
  <2>1. test \in Priority!Tests /\ test # "interrupt_priority"
    BY DEF Priority!Tests
  <2>2. Priority!Next /\ PriorityInv
    BY <2>1, OtherTests DEF Inv, Next, PriorityNext, ExternalNext, DelegationNext, TimerNext
  <2>3. Priority!Trap
    BY <2>2
    DEF Priority!Next, Priority!DoStore, Priority!DoDrain, Priority!DoMie,
        Priority!DoMstatus, Priority!DoMret, Priority!DoFinish, Priority!Execute,
        Priority!Spin, Priority!Land, Priority!Terminated, Priority!vars
  <2>4. /\ PriorityTypes /\ Control /\ Raises /\ MainOps = 0 /\ TrapOps = 0
        /\ step \in 0 .. LastTrap - 1
    BY <2>2, <2>3, TrapFacts
  <2>5. line = {3, 7, 11}
    BY <2>1, <2>4, PendingAtTrap
  <2> QED
    BY <2>5, CauseNumbers
<1> QED
  BY <1>1, Invariance, PTL DEF FairSpec, ArmedTogether
=============================================================================
