------------------------- MODULE ExternalInterrupt -------------------------
(***************************************************************************)
(* m_external_interrupt.c and s_external_interrupt.c: an external line is  *)
(* raised by a store to the PLIC and must trap exactly when it is enabled; *)
(* the second test also reads it in mip, next to the SEIP bit software can *)
(* set.                                                                    *)
(*                                                                         *)
(* The hart and the PLIC are external.  The hart may have one fault; it    *)
(* traps before its next instruction.  A store to the PLIC lands within    *)
(* Latency steps of the hart.                                              *)
(***************************************************************************)
EXTENDS Integers, Sequences

CONSTANTS
  CountTo,              \* 1000 and 256 in the code: iterations of a delay
  Latency,              \* steps of the hart before a store to the PLIC lands
  MaxPosted             \* stores to the PLIC in flight

ExternalInterruptAssumption ==
  CountTo \in Nat /\ Latency \in Nat /\ MaxPosted \in Nat \ {0}

Tests == {"m_external", "s_external"}

HartFaults ==
  { "none",
    "ignores_mie",      \* traps although mie has the interrupt disabled
    "never_traps",
    "wrong_cause",
    "rmw_latches",      \* a csrrs of mip copies the line into the SEIP bit
    "line_hidden",      \* mip shows the SEIP bit without the line
    "seip_readonly" }   \* software cannot set the SEIP bit

VARIABLES
  test,                 \* "m_external" or "s_external"
  fault,
  prog,                 \* the operations main has left
  state,                \* 1 once the handler has run
  cnt,
  trapping,             \* mtvec, mstatus.MIE: the interrupt can be taken
  mie,
  seip,                 \* the software-writable bit of mip
  line,                 \* the level of the external line
  posted, age,          \* PLIC stores in flight; steps since one landed
  finish

vars == <<test, fault, prog, state, cnt, trapping, mie, seip, line, posted, age, finish>>

-----------------------------------------------------------------------------
(* The programs. *)

Line(b)        == [op |-> "line", on |-> b]
ResetCnt       == [op |-> "reset_cnt"]
Count          == [op |-> "count"]
Seip(b)        == [op |-> "seip", on |-> b]
ReadMip(b)     == [op |-> "read_mip", expect |-> b, rmw |-> FALSE]
ModifyMip(b)   == [op |-> "read_mip", expect |-> b, rmw |-> TRUE]
EnableTraps    == [op |-> "mstatus"]
EnableExternal == [op |-> "mie"]
ExpectState(n) == [op |-> "expect", state |-> n]
Pass           == [op |-> "pass"]

SmallDelay == <<ResetCnt, Count>>

MExternal ==
  <<EnableTraps, Line(TRUE), Count, ExpectState(0), ResetCnt, EnableExternal,
    Count, ExpectState(1), Pass>>

Check1ReadOnly ==
  <<Seip(FALSE), Line(TRUE)>> \o SmallDelay
    \o <<ReadMip(TRUE), Line(FALSE)>> \o SmallDelay \o <<ReadMip(FALSE)>>

Check1 ==
  <<Seip(FALSE), Line(TRUE)>> \o SmallDelay
    \o <<ModifyMip(TRUE), Line(FALSE)>> \o SmallDelay \o <<ReadMip(FALSE)>>

Check2 == <<Line(FALSE)>> \o SmallDelay \o <<Seip(TRUE), ReadMip(TRUE)>>

Check3 ==
  <<Seip(FALSE), EnableTraps, Line(TRUE)>> \o SmallDelay
    \o <<ExpectState(0), EnableExternal>> \o SmallDelay \o <<ExpectState(1)>>

SExternal == Check1 \o Check2 \o Check3 \o <<Pass>>

-----------------------------------------------------------------------------
(* The machine. *)

Init ==
  /\ test \in Tests
  /\ fault \in HartFaults
  /\ prog = IF test = "m_external" THEN MExternal ELSE SExternal
  /\ state = 0
  /\ cnt = 0
  /\ trapping = FALSE
  /\ mie = FALSE
  /\ seip \in IF test = "s_external" /\ fault # "seip_readonly" THEN BOOLEAN ELSE {FALSE}
  /\ line = FALSE
  /\ posted = <<>>
  /\ age = 0
  /\ finish = "none"

TrapTaken ==
  /\ trapping
  /\ line \/ seip
  /\ mie \/ fault = "ignores_mie"
  /\ fault # "never_traps"

\* One step of the hart: it takes time, and the oldest store cannot be later
\* than Latency.
Tick(queue) ==
  /\ finish = "none"
  /\ posted # <<>> => age < Latency
  /\ posted' = queue
  /\ age' = IF posted = <<>> THEN 0 ELSE age + 1

Next1(op) == prog # <<>> /\ ~TrapTaken /\ Head(prog).op = op /\ prog' = Tail(prog)

TrapHandlerNoClear ==
  /\ TrapTaken
  /\ IF fault = "wrong_cause"
     THEN /\ finish' = "fail" /\ UNCHANGED state
          /\ Tick(posted)
     ELSE /\ state' = 1 /\ UNCHANGED finish
          /\ Tick(posted)
  /\ UNCHANGED <<test, fault, prog, cnt, trapping, mie, seip, line>>

\* trap_handler(): the cause is checked, then the store that clears the line.
TrapHandler ==
  /\ TrapTaken
  /\ IF fault = "wrong_cause"
     THEN /\ finish' = "fail" /\ UNCHANGED state
          /\ Tick(posted)
     ELSE /\ state' = 1 /\ UNCHANGED finish
          /\ Len(posted) < MaxPosted
          /\ Tick(Append(posted, FALSE))
  /\ UNCHANGED <<test, fault, prog, cnt, trapping, mie, seip, line>>

SetLine ==
  /\ Next1("line")
  /\ Len(posted) < MaxPosted
  /\ Tick(Append(posted, Head(prog).on))
  /\ UNCHANGED <<test, fault, state, cnt, trapping, mie, seip, line, finish>>

Land ==
  /\ posted # <<>>
  /\ line' = Head(posted)
  /\ posted' = Tail(posted)
  /\ age' = 0
  /\ UNCHANGED <<test, fault, prog, state, cnt, trapping, mie, seip, finish>>

ClearCnt ==
  /\ Next1("reset_cnt") /\ cnt' = 0 /\ Tick(posted)
  /\ UNCHANGED <<test, fault, state, trapping, mie, seip, line, finish>>

\* while (cnt < 1000) cnt++;
CountUp ==
  /\ prog # <<>> /\ ~TrapTaken /\ Head(prog).op = "count"
  /\ Tick(posted)
  /\ IF cnt < CountTo THEN cnt' = cnt + 1 /\ UNCHANGED prog
                      ELSE prog' = Tail(prog) /\ UNCHANGED cnt
  /\ UNCHANGED <<test, fault, state, trapping, mie, seip, line, finish>>

WriteSeip ==
  /\ Next1("seip")
  /\ seip' = (Head(prog).on /\ fault # "seip_readonly")
  /\ Tick(posted)
  /\ UNCHANGED <<test, fault, state, cnt, trapping, mie, line, finish>>

MipRead == seip \/ (line /\ fault # "line_hidden")

\* csrr, or the csrrs of another bit, and the test of bit 9 of what it read.
ReadPending ==
  /\ Next1("read_mip")
  /\ finish' = IF MipRead = Head(prog).expect THEN finish ELSE "fail"
  /\ seip' = IF Head(prog).rmw /\ fault = "rmw_latches" THEN MipRead ELSE seip
  /\ Tick(posted)
  /\ UNCHANGED <<test, fault, state, cnt, trapping, mie, line>>

\* csrw mtvec and mstatus; `state = 0' is next to them in both programs.
SetUpTrap ==
  /\ Next1("mstatus") /\ trapping' = TRUE /\ state' = 0 /\ Tick(posted)
  /\ UNCHANGED <<test, fault, cnt, mie, seip, line, finish>>

SetMie ==
  /\ Next1("mie") /\ mie' = TRUE /\ Tick(posted)
  /\ UNCHANGED <<test, fault, state, cnt, trapping, seip, line, finish>>

CheckState ==
  /\ Next1("expect")
  /\ finish' = IF state = Head(prog).state THEN finish ELSE "fail"
  /\ Tick(posted)
  /\ UNCHANGED <<test, fault, state, cnt, trapping, mie, seip, line>>

Finish ==
  /\ Next1("pass") /\ finish' = "pass" /\ Tick(posted)
  /\ UNCHANGED <<test, fault, state, cnt, trapping, mie, seip, line>>

Terminated == finish # "none" /\ posted = <<>> /\ UNCHANGED vars

Next ==
  \/ TrapHandler \/ SetLine \/ Land \/ ClearCnt \/ CountUp \/ WriteSeip
  \/ ReadPending \/ SetUpTrap \/ SetMie \/ CheckState \/ Finish \/ Terminated

Spec == Init /\ [][Next]_vars

\* The faults a test is there to find.
Visible ==
  IF test = "m_external" THEN {"ignores_mie", "never_traps", "wrong_cause"}
                         ELSE HartFaults \ {"none"}

\* A test fails exactly on the harts that have one of the faults it looks for:
\* it neither misses one nor blames a correct hart for a store still in flight
\* or for taking a level-triggered interrupt twice.
VerdictIsExact == finish # "none" => (finish = "fail" <=> fault \in Visible)
=============================================================================
