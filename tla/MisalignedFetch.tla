-------------------------- MODULE MisalignedFetch --------------------------
(***************************************************************************)
(* misaligned_instructions_virtual_memory.c, with the trap path of         *)
(* vm_start.S: instructions laid across page boundaries are run in user    *)
(* mode, faults are logged in supervisor mode, and a machine-mode call     *)
(* changes the mode of the instruction cache between the three passes.     *)
(*                                                                         *)
(* A test owns two pages.  An address is the byte offset from the boundary *)
(* between them: negative in the first page, and a 32-bit instruction at   *)
(* -2 spans both.  The hart is external.  It keeps an ITLB of pages, and   *)
(* it may have one fault, in one mode of the instruction cache.            *)
(***************************************************************************)
EXTENDS Integers, Sequences

CONSTANT FaultKinds     \* the faults the hart may have, "none" among them

FaultKindsAssumption ==
  FaultKinds \subseteq
    { "none",
      "aligned", "within", "both_miss", "first_miss", "second_miss", "both_hit",
                        \* fetches of this kind deliver a wrong instruction
      "first_unchecked", "second_unchecked",
                        \* the halves whose PTE_X is not looked at
      "tval_is_epc", "epc_is_tval", "wrong_cause" }

IcacheModes == {0, 1, 2}        \* uncached, default, non-speculative
FAULT_MAGIC == "8BADF00D"

VARIABLES
  kind, in_mode,        \* the fault of this hart, and when it shows
  mode,                 \* privilege: "U", "S" or "M"
  icache_mode,
  itlb,
  todo,                 \* what u_test_main has left to do
  pc, off,              \* where user mode is; the offset inside a gadget
  a0,
  tf,                   \* cause, epc and tval in the trap frame
  latest_fault_info, test_active,
  finish

vars == <<kind, in_mode, mode, icache_mode, itlb, todo, pc, off, a0, tf,
          latest_fault_info, test_active, finish>>

-----------------------------------------------------------------------------
(* What main() lays out: the pages of a test and its instructions. *)

Dummy(o) == {<<o, "nop">>}
End(o)   == {<<o, "li">>, <<o + 4, "ret">>}

Page(test, o) == <<test, IF o < 0 THEN 1 ELSE 2>>

NoExec == {<<5, 1>>, <<6, 2>>, <<7, 1>>}

Code ==
  <<Dummy(-14) \union End(-10),                         \* test 1
    Dummy(-6) \union End(-2),
    Dummy(-2) \union End(2),
    Dummy(-6) \union End(-2) \union End(16),
    Dummy(-14) \union End(-10),
    Dummy(-6) \union End(-2),
    End(-2)>>                                           \* test 7

CodeOf(test) == IF test = 0 THEN Dummy(-4) \union End(0) ELSE Code[test]

InstrAt(test, o) == CHOOSE i \in {"nop", "li", "ret"} : <<o, i>> \in CodeOf(test)

-----------------------------------------------------------------------------
(* What u_test_main does: calls of s_set_icache_*, gadgets, terminate(0). *)

NoFault == [present |-> FALSE, pc |-> 0, tval |-> 0, cause |-> 0]
Fault(cause, epc, tval) == [present |-> TRUE, pc |-> epc, tval |-> tval, cause |-> cause]
FETCH_PAGE_FAULT == 12

SetIcache(m)            == [op |-> "ecall", arg |-> m]
Success(test, o)        == [op |-> "gadget", test |-> test, at |-> o, expect |-> NoFault]
Faults(test, o, epc, v) == [op |-> "gadget", test |-> test, at |-> o,
                            expect |-> Fault(FETCH_PAGE_FAULT, epc, v)]

URunTestPass ==
  <<Success(0, -4), Success(1, -14), Success(2, -6), Success(3, -2),
    Success(4, 16), Success(4, -6),
    Faults(5, -14, -14, -14), Faults(6, -6, -2, 0), Faults(7, -2, -2, -2)>>

UTestMainTwoModes ==
  <<SetIcache(1)>> \o URunTestPass
    \o <<SetIcache(0)>> \o URunTestPass \o <<SetIcache(1), [op |-> "terminate"]>>

UTestMain ==
  <<SetIcache(1)>> \o URunTestPass \o <<SetIcache(2)>> \o URunTestPass
    \o <<SetIcache(0)>> \o URunTestPass \o <<SetIcache(1), [op |-> "terminate"]>>

Now == Head(todo)

-----------------------------------------------------------------------------
Init ==
  /\ kind \in FaultKinds
  /\ in_mode \in IcacheModes
  /\ mode = "U"
  /\ icache_mode \in IcacheModes
  /\ itlb = {}
  /\ todo = UTestMain
  /\ pc = "u_test_main"
  /\ off = 0
  /\ a0 = "garbage"
  /\ tf = NoFault
  /\ latest_fault_info = NoFault
  /\ test_active = FALSE
  /\ finish = "none"

InUser(label) == finish = "none" /\ mode = "U" /\ pc = label

\* s_set_icache_*: a0 is the argument, a1 = 1, ecall.
Ecall ==
  /\ InUser("u_test_main")
  /\ Now.op = "ecall"
  /\ mode' = "M"
  /\ UNCHANGED <<kind, in_mode, icache_mode, itlb, todo, pc, off, a0, tf,
                 latest_fault_info, test_active, finish>>

MHandleUEcallNoFlush ==
  /\ mode = "M"
  /\ icache_mode' = Now.arg
  /\ todo' = Tail(todo)
  /\ mode' = "U"
  /\ UNCHANGED <<kind, in_mode, itlb, pc, off, a0, tf, latest_fault_info, test_active,
                 finish>>

\* m_trap_vector with mcause 8, m_handle_u_ecall and the mret after it.
MHandleUEcall ==
  /\ mode = "M"
  /\ icache_mode' = Now.arg
  /\ itlb' = {}
  /\ todo' = Tail(todo)
  /\ mode' = "U"
  /\ UNCHANGED <<kind, in_mode, pc, off, a0, tf, latest_fault_info, test_active, finish>>

\* u_execute_test_gadget, up to the call of the gadget.
UExecuteTestGadget ==
  /\ InUser("u_test_main")
  /\ Now.op = "gadget"
  /\ latest_fault_info' = NoFault
  /\ test_active' = TRUE
  /\ a0' = "zero"
  /\ pc' = "gadget"
  /\ off' = Now.at
  /\ UNCHANGED <<kind, in_mode, mode, icache_mode, itlb, todo, tf, finish>>

\* How the fetch at offset o of test looks to the ITLB.
FetchKind(test, o) ==
  LET hit1 == Page(test, o) \in itlb
      hit2 == Page(test, o + 2) \in itlb
  IN CASE o = -2 /\ hit1 /\ hit2   -> "both_hit"
       [] o = -2 /\ hit1 /\ ~hit2  -> "second_miss"
       [] o = -2 /\ ~hit1 /\ hit2  -> "first_miss"
       [] o = -2 /\ ~hit1 /\ ~hit2 -> "both_miss"
       [] o % 4 = 0                -> "aligned"
       [] OTHER                    -> "within"

Shows(k) == kind = k /\ icache_mode = in_mode

\* The first half of the instruction at o that must not be executed; 0 if none.
Offending(test, o) ==
  {h \in {o, o + 2} :
     /\ Page(test, h) \in NoExec
     /\ ~(Shows("first_unchecked") /\ h < 0)
     /\ ~(Shows("second_unchecked") /\ o = -2 /\ h = 0)}

\* The hart fetches one instruction of the gadget, and executes it or traps.
Fetch ==
  /\ InUser("gadget")
  /\ itlb' = itlb \union {Page(Now.test, off), Page(Now.test, off + 2)}
  /\ LET bad == Offending(Now.test, off) IN
     \/ /\ bad # {}
        /\ LET tval == CHOOSE h \in bad : \A g \in bad : h <= g IN
           tf' = Fault(IF Shows("wrong_cause") THEN 1 ELSE FETCH_PAGE_FAULT,
                       IF Shows("epc_is_tval") THEN tval ELSE off,
                       IF Shows("tval_is_epc") THEN off ELSE tval)
        /\ mode' = "S"
        /\ UNCHANGED <<pc, off, a0, finish>>
     \/ /\ bad = {} /\ Shows(FetchKind(Now.test, off))
        /\ finish' = "fail"     \* an illegal instruction: __mtvec_handler aborts
        /\ UNCHANGED <<mode, pc, off, a0, tf>>
     \/ /\ bad = {} /\ ~Shows(FetchKind(Now.test, off))
        /\ IF InstrAt(Now.test, off) = "ret" THEN pc' = "returned" /\ UNCHANGED off
                                              ELSE off' = off + 4 /\ UNCHANGED pc
        /\ a0' = IF InstrAt(Now.test, off) = "li" THEN "42" ELSE a0
        /\ UNCHANGED <<mode, tf, finish>>
  /\ UNCHANGED <<kind, in_mode, icache_mode, todo, latest_fault_info, test_active>>

\* trap_entry, handle_trap, s_handle_vm_fault, pop_tf.  terminate() in S-mode
\* does not come back.
HandleTrap ==
  /\ mode = "S" /\ finish = "none"
  /\ IF tf.cause \in {1, FETCH_PAGE_FAULT} /\ test_active /\ ~latest_fault_info.present
     THEN /\ latest_fault_info' = tf
          /\ pc' = "trampoline"
          /\ mode' = "U"
          /\ UNCHANGED finish
     ELSE finish' = "fail" /\ UNCHANGED <<latest_fault_info, pc, mode>>
  /\ UNCHANGED <<kind, in_mode, icache_mode, itlb, todo, off, a0, tf, test_active>>

\* userspace_trap_return_trampoline returns to the caller of the gadget.
Trampoline ==
  /\ InUser("trampoline")
  /\ a0' = FAULT_MAGIC
  /\ pc' = "returned"
  /\ UNCHANGED <<kind, in_mode, mode, icache_mode, itlb, todo, off, tf,
                 latest_fault_info, test_active, finish>>

\* u_execute_and_expect_fault and u_execute_and_expect_success.
AsExpected ==
  /\ a0 = IF Now.expect.present THEN FAULT_MAGIC ELSE "42"
  /\ latest_fault_info = Now.expect

Judge ==
  /\ InUser("returned")
  /\ test_active' = FALSE
  /\ IF AsExpected THEN todo' = Tail(todo) /\ pc' = "u_test_main" /\ UNCHANGED finish
                   ELSE finish' = "fail" /\ UNCHANGED <<todo, pc>>
  /\ UNCHANGED <<kind, in_mode, mode, icache_mode, itlb, off, a0, tf, latest_fault_info>>

\* terminate(0) from user mode: syscall 0 of m_trap_vector.
Terminate ==
  /\ InUser("u_test_main")
  /\ Now.op = "terminate"
  /\ finish' = "pass"
  /\ UNCHANGED <<kind, in_mode, mode, icache_mode, itlb, todo, pc, off, a0, tf,
                 latest_fault_info, test_active>>

Terminated == finish # "none" /\ UNCHANGED vars

Next ==
  \/ Ecall \/ MHandleUEcall \/ UExecuteTestGadget \/ Fetch \/ HandleTrap
  \/ Trampoline \/ Judge \/ Terminate \/ Terminated

Spec == Init /\ [][Next]_vars

-----------------------------------------------------------------------------
\* The suite fails exactly on a hart with one of the faults it is run against,
\* whichever mode of the instruction cache the fault shows in.
VerdictIsExact == finish # "none" => (finish = "fail" <=> kind # "none")

\* Test 3 is what its name says, in each of the three passes: when its first
\* instruction is fetched, both pages miss in the ITLB.
BothHalvesMiss ==
  InUser("gadget") /\ Now.test = 3 /\ off = -2 => FetchKind(3, off) = "both_miss"
=============================================================================
