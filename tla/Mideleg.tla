------------------------------ MODULE Mideleg ------------------------------
(***************************************************************************)
(* s_mideleg.S: the supervisor external interrupt is raised by software    *)
(* and then by the hardware line, and must show in sip exactly while       *)
(* mideleg delegates it.  Machine mode sets up a phase, mret, supervisor   *)
(* mode looks at sip, and ecall comes back with the next phase in a0.      *)
(*                                                                         *)
(* The hart and the PLIC are external; the hart may have any faults.  The  *)
(* program never waits for its stores to the PLIC: they land at any time.  *)
(***************************************************************************)
EXTENDS Integers

HartFaults ==
  { "sw_leaks", "sw_hidden",    \* software-injected: sip ignores mideleg
    "hw_leaks", "hw_hidden",    \* hardware line: likewise
    "wrong_cause" }             \* ecall reports another cause

VARIABLES
  faults,
  pc,                   \* label of s_mideleg.S
  a0,                   \* the phase the trap vector jumps to
  mideleg, seip,        \* bit 9 of mideleg and the software bit of mip
  line,                 \* the PLIC words: 30c008 drives the line
  posted,               \* the store in flight
  early,                \* history: the phases that looked before it had landed
  finish

vars == <<faults, pc, a0, mideleg, seip, line, posted, early, finish>>

None == [word |-> "none", value |-> FALSE]

-----------------------------------------------------------------------------
Init ==
  /\ faults \in SUBSET HartFaults
  /\ pc = "m_phase1"
  /\ a0 = "m_phase1"
  /\ mideleg \in BOOLEAN
  /\ seip \in BOOLEAN
  /\ line = FALSE
  /\ posted = None
  /\ early = {}
  /\ finish = "none"

Running == finish = "none"

StoreWord(word, value) ==
  /\ posted = None
  /\ posted' = [word |-> word, value |-> value]

Land ==
  /\ posted # None
  /\ line' = IF posted.word = "30c008" THEN posted.value ELSE line
  /\ posted' = None
  /\ UNCHANGED <<faults, pc, a0, mideleg, seip, early, finish>>

\* Phases 1 and 2: un-delegate and inject by software, then delegate.
MPhase1 ==
  /\ pc = "m_phase1" /\ pc' = "mret1" /\ Running
  /\ mideleg' = FALSE
  /\ seip' = TRUE
  /\ UNCHANGED <<faults, a0, line, posted, early, finish>>

MPhase2 ==
  /\ pc = "m_phase2" /\ pc' = "mret2" /\ Running
  /\ mideleg' = TRUE
  /\ UNCHANGED <<faults, a0, seip, line, posted, early, finish>>

\* Phases 3 and 4: the hardware line instead of the software bit.
MPhase3 ==
  /\ pc = "m_phase3" /\ pc' = "mret3" /\ Running
  /\ mideleg' = FALSE
  /\ seip' = FALSE
  /\ StoreWord("30c008", TRUE)
  /\ UNCHANGED <<faults, a0, line, early, finish>>

MPhase4 ==
  /\ pc = "m_phase4" /\ pc' = "mret4" /\ Running
  /\ mideleg' = TRUE
  /\ UNCHANGED <<faults, a0, seip, line, posted, early, finish>>

\* la t0, s_phase; csrw mepc, t0; mret
Mret ==
  /\ pc \in {"mret1", "mret2", "mret3", "mret4"}
  /\ pc' = CASE pc = "mret1" -> "s_phase1" [] pc = "mret2" -> "s_phase2"
             [] pc = "mret3" -> "s_phase3" [] pc = "mret4" -> "s_phase4"
  /\ Running
  /\ UNCHANGED <<faults, a0, mideleg, seip, line, posted, early, finish>>

\* Bit 9 of sip as this hart shows it.
Sip ==
  \/ seip /\ ("sw_leaks" \in faults \/ (mideleg /\ "sw_hidden" \notin faults))
  \/ line /\ ("hw_leaks" \in faults \/ (mideleg /\ "hw_hidden" \notin faults))

\* The hart reads sip at this label.
Look(label) == early' = IF posted = None THEN early ELSE early \union {label}

SPhaseLenient(label, delegated, next) ==
  /\ pc = label
  /\ IF ~delegated /\ Sip THEN finish' = "fail" /\ UNCHANGED <<pc, a0>>
                          ELSE a0' = next /\ pc' = "ecall" /\ UNCHANGED finish
  /\ Look(label) /\ Running
  /\ UNCHANGED <<faults, mideleg, seip, line, posted>>

\* s_phase1 to s_phase3: sip must show the bit iff it is delegated.
SPhase(label, delegated, next) ==
  /\ pc = label
  /\ IF Sip # delegated THEN finish' = "fail" /\ UNCHANGED <<pc, a0>>
                        ELSE a0' = next /\ pc' = "ecall" /\ UNCHANGED finish
  /\ Look(label) /\ Running
  /\ UNCHANGED <<faults, mideleg, seip, line, posted>>

\* s_phase4 writes zero to 0x30c004, and does not wait for it.
SPhase4 ==
  /\ pc = "s_phase4"
  /\ IF Sip THEN StoreWord("30c004", FALSE) /\ finish' = "pass"
            ELSE finish' = "fail" /\ UNCHANGED posted
  /\ Look(pc) /\ Running
  /\ UNCHANGED <<faults, pc, a0, mideleg, seip, line>>

MTrapVector ==
  /\ pc = "ecall"
  /\ IF "wrong_cause" \in faults THEN finish' = "fail" /\ UNCHANGED pc
                              ELSE pc' = a0 /\ UNCHANGED finish
  /\ Running
  /\ UNCHANGED <<faults, a0, mideleg, seip, line, posted, early>>

Terminated == finish # "none" /\ posted = None /\ UNCHANGED vars

Next ==
  \/ MPhase1 \/ MPhase2 \/ MPhase3 \/ MPhase4 \/ Mret
  \/ SPhase("s_phase1", FALSE, "m_phase2")
  \/ SPhase("s_phase2", TRUE, "m_phase3")
  \/ SPhase("s_phase3", FALSE, "m_phase4")
  \/ SPhase4 \/ MTrapVector \/ Land \/ Terminated

Spec == Init /\ [][Next]_vars

-----------------------------------------------------------------------------
\* A third phase that looks before the line is up cannot see it leak, and what
\* leaks is not seen to hide in the fourth.
Unseen ==
  IF "s_phase3" \in early /\ "hw_leaks" \in faults THEN {"hw_leaks", "hw_hidden"} ELSE {}

\* However late the store that raises the line: the test fails exactly on a hart
\* with a fault, but for what the third phase looked at too soon, and for the
\* right hart it blames when the fourth looks too soon as well.  If both find the
\* line up the verdict is exact: every way the bit can leak or hide is looked at
\* with the other source of the bit quiet.
VerdictIsExact ==
  finish # "none" =>
    (finish = "fail" <=> faults \ Unseen # {} \/ "s_phase4" \in early)

\* s_mideleg.S:102: "Clean up: De-assert the hardware interrupt".  Once the
\* passing test has stopped and its stores have landed, the line is down.
LineReleased == finish = "pass" /\ posted = None => ~line
=============================================================================
