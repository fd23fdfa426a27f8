----------------------------- MODULE TrapTests ------------------------------
(***************************************************************************)
(* The hart that runs the programs of TrapPrograms: privilege, traps, CSR  *)
(* permissions, translation of fetches and data, and at most one of the    *)
(* faults the programs are meant to find.  A report is a store to the      *)
(* finish device and is translated like any other store.                   *)
(***************************************************************************)
EXTENDS TrapPrograms

CONSTANT TrapFaults     \* faults a hart may have, "none" among them

VARIABLES
  test, finish, mode,
  hart,                 \* the hart and the build (rigid)
  at,                   \* the next instruction: section and position
  csr,                  \* CSRs and the domain register
  cells,                \* memory words that are written and read again
  traps,                \* num_traps, illegal_count
  trap                  \* the last trap: where, xcause, and whether xtval = xepc

hartVars == <<hart, at, csr, cells, traps, trap>>
vars == <<test, finish, mode, hartVars>>

Tests == DOMAIN Program

\* pmp: the hart has PMP entries; rvc: it has compressed instructions; report:
\* the bytes of the compiled bp_finish(1); jump_epc: the xepc of a jump to a
\* misaligned target.  The last two vary on harts without a fault.
Harts ==
  { h \in [fault : TrapFaults, pmp : BOOLEAN, rvc : BOOLEAN, report : {4, 6},
           jump_epc : {"target", "jump"}] :
      h.fault # "none" => h.report = 4 /\ h.jump_epc = "target" }

Init ==
  /\ test \in Tests
  /\ hart \in Harts
  /\ finish = "none" /\ mode = M /\ at = <<"main", 1>>
  /\ csr = [mtvec |-> "perch", mepc |-> "none", sepc |-> "none", medeleg |-> {},
            mpp |-> U, mprv |-> FALSE, sum |-> FALSE, fs |-> "on",
            satp |-> "bare", fenced |-> TRUE, mprven |-> TRUE,
            mcounteren |-> {}, scounteren |-> {}, pmpcfg |-> {}, pmpaddr |-> 0,
            domain |-> {}]
  /\ cells = [x \in {"1G", "1G+4K", "supervisor_data", "user_data", "debug_entered",
                     "test_phase", "data", "code"} |-> 0]
  /\ traps = 0
  /\ trap = [at |-> at, cause |-> -1, value_is_pc |-> FALSE]

Is(fault) == hart.fault = fault

Section == Program[test][at[1]]
Op == Section[at[2]]
Doing(do) == at[2] <= Len(Section) /\ Op.do = do
Goto(section) == at' = <<section, 1>>
Advance == at' = [at EXCEPT ![2] = @ + 1]

-----------------------------------------------------------------------------
(* Permissions *)

Counters == {"cycle", "instret"}
ReadOnly == Counters \union {"mvendorid", "marchid", "mimpid", "mhartid"}

CounterOpen(x) ==
  \/ mode = M
  \/ /\ ~Is("counters_closed")
     /\ \/ x \in csr.mcounteren
        \/ Is("counters_open")
        \/ Is("only_scounteren") /\ mode = U
     /\ mode = U => x \in csr.scounteren

Denied(x, writing) ==
  \/ writing /\ x \in ReadOnly /\ ~Is("read_only_writable")
  \/ x \in Counters /\ ~CounterOpen(x)
  \/ x \in {"pmpcfg", "pmpaddr"} /\ (~hart.pmp \/ (mode # M /\ ~Is("pmp_in_s")))
  \/ x = "satp" /\ mode = U /\ ~Is("satp_in_u")

\* What a CSR holds after a write.
Legal(x, v) ==
  CASE x = "mpp" /\ v = 2 -> IF Is("mpp_keeps_2") THEN 2 ELSE U
    [] x \in {"mepc", "sepc"} /\ v = "-1" ->
         IF Is("epc_low_bits") THEN "-1" ELSE IF hart.rvc THEN "-2" ELSE "-4"
    [] x = "mepc" /\ v = "misaligned" ->
         IF Is("epc_low_bits") THEN "misaligned" ELSE "_start"
    [] x = "satp" /\ Is("satp_frozen") -> csr.satp
    [] x = "domain" /\ Is("domain_frozen") -> csr.domain
    [] x = "pmpcfg" -> IF "R" \notin v /\ ~Is("pmp_w_kept") THEN v \ {"W"} ELSE v
    [] x = "pmpaddr" /\ "L" \in csr.pmpcfg /\ ~Is("pmp_lock_ignored") -> csr.pmpaddr
    [] OTHER -> v

\* The entries a walk passes, leaf last, in the tables of the programs; `code'
\* is everything from 0x80000000 on.
Path(root, va) ==
  CASE root = "misaligned_gigapage" /\ va = "1G" -> <<{"V", "R", "A", "misaligned"}>>
    [] root = "reserved_bit" /\ va = "1G" -> <<{"V", "R", "A", "reserved"}>>
    [] root \in {"misaligned_gigapage", "reserved_bit"} /\ va = "code" -> <<{"V", "R", "X", "A"}>>
    [] root = "three_levels" /\ va = "1G" -> <<{"V"}, {"V"}, {"V", "R", "W", "A", "D"}>>
    [] root = "three_levels" /\ va = "1G+4K" ->
         <<{"V"}, {"V"}, {"V", "R", "W", "U", "A", "D"}>>
    [] root = "supervisor_page" /\ va = "1G" -> <<{"V", "R", "A"}>>
    [] root = "debug_page" /\ va \in {"code", "test_phase"} -> <<{"V", "R", "A"}>>
    [] OTHER -> <<{}>>

Needs(access) ==
  CASE access = "fetch" -> {"X", "A"}
    [] access = "load" -> {"R", "A"}
    [] access = "store" -> {"W", "A", "D"}

Permits(path, access, m) ==
  LET leaf == path[Len(path)] IN
  /\ \A k \in DOMAIN path : "V" \in path[k]
  /\ "reserved" \in leaf => Is("reserved_bit_ok")
  /\ "misaligned" \in leaf => Is("misaligned_gigapage_ok")
  /\ Len(path) > 1 => ~Is("nonleaf_needs_ad")
  /\ Needs(access) \subseteq leaf
  /\ m = U => "U" \in leaf \/ Is("u_ignored")
  /\ m = S /\ "U" \in leaf => access # "fetch" /\ csr.sum /\ ~Is("sum_ignored")

\* The privilege data accesses, and fetches, are checked with.
DataMode ==
  IF mode = M /\ csr.mprv /\ ~Is("mprv_ignored") THEN csr.mpp
  ELSE IF mode = Debug
       THEN IF /\ csr.mprv /\ ~Is("mprv_ignored") /\ ~Is("mprven_stuck_off")
               /\ csr.mprven \/ Is("mprven_stuck_on")
            THEN csr.mpp ELSE M
       ELSE mode
FetchMode == IF mode = M /\ csr.mprv /\ Is("mprv_fetches") THEN csr.mpp ELSE mode

Translated(m) == m \in {U, S} /\ csr.satp # "bare" /\ ~Is("no_translation")

PageFault(va, access, m) == Translated(m) /\ ~Permits(Path(csr.satp, va), access, m)

FetchFault ==
  /\ PageFault("code", "fetch", FetchMode)
  /\ ~(Is("stale_fetch") /\ ~csr.fenced)

Frame(va) ==
  IF Translated(DataMode) /\ csr.satp = "three_levels"
  THEN IF va = "1G" THEN "supervisor_data" ELSE "user_data"
  ELSE va

Forbidden(pa) ==
  \/ pa \in {"out_of_bounds", "noncanonical"} /\ ~Is("out_of_bounds_ok")
  \/ pa = "domain_4" /\ 4 \notin csr.domain /\ ~Is("domain_unchecked")
  \/ pa = "domain_6" /\ 6 \notin csr.domain /\ ~Is("domain_unchecked")

\* The cause a load or store of va traps with, or none.
AccessCause(va, access) ==
  CASE PageFault(va, access, DataMode) -> IF access = "load" THEN {13} ELSE {15}
    [] Forbidden(Frame(va)) -> IF access = "load" THEN {5} ELSE {7}
    [] OTHER -> {}

-----------------------------------------------------------------------------
(* Instructions *)

\* The causes the programs ask for come out wrong on a hart with wrong_cause.
Trap(cause, value_is_pc) ==
  /\ UNCHANGED <<hart, cells, traps, finish>>
  /\ IF mode = Debug THEN Goto("handler") /\ UNCHANGED <<csr, mode, trap>>
     ELSE LET m == IF mode # M /\ cause \in csr.medeleg THEN S ELSE M IN
          /\ mode' = m
          /\ Goto(IF m = S THEN "handler" ELSE csr.mtvec)
          /\ csr' = IF m = M /\ ~Is("mpp_not_saved")
                    THEN [csr EXCEPT !.mpp = mode, !.mepc = "trapped"]
                    ELSE [csr EXCEPT !.mepc = "trapped"]
          /\ trap' = [at |-> at, cause |-> IF Is("wrong_cause") THEN 24 ELSE cause,
                      value_is_pc |-> value_is_pc /\ ~Is("xtval_zero")]

Stop(verdict) == finish' = verdict /\ UNCHANGED <<mode, hartVars>>

Executed == UNCHANGED <<finish, mode, hart, csr, cells, traps, trap>>

\* Go on, or branch to `fail'.
Branch(ok) == (IF ok THEN Advance ELSE Goto("fail")) /\ Executed

WriteCsr ==
  /\ Doing("write")
  /\ LET w == Op.values IN
     IF \E x \in DOMAIN w : Denied(x, TRUE) THEN Trap(2, FALSE)
     ELSE /\ csr' = [x \in DOMAIN csr |->
                      IF x \in DOMAIN w THEN Legal(x, w[x])
                      ELSE IF x = "fenced" THEN csr.fenced /\ "satp" \notin DOMAIN w
                      ELSE csr[x]]
          /\ Advance
          /\ UNCHANGED <<finish, mode, hart, cells, traps, trap>>

ReadCsr ==
  /\ Doing("read")
  /\ IF Denied(Op.csr, FALSE) THEN Trap(2, FALSE) ELSE Advance /\ Executed

CheckCsr ==
  /\ Doing("check")
  /\ IF Denied(Op.csr, FALSE) THEN Trap(2, FALSE) ELSE Branch(csr[Op.csr] \in Op.allowed)

SfenceVma ==
  /\ Doing("fence")
  /\ csr' = [csr EXCEPT !.fenced = TRUE]
  /\ Advance
  /\ UNCHANGED <<finish, mode, hart, cells, traps, trap>>

\* The mode and MPRV an mret leaves.
Return ==
  /\ mode' = csr.mpp
  /\ csr' = [csr EXCEPT !.mpp = U, !.mprv = @ /\ csr.mpp = M]
  /\ UNCHANGED <<finish, hart, cells, trap>>

\* A misaligned xepc gives its trap in the new mode; _start is no place for S.
ReturnTo ==
  /\ Doing("mret")
  /\ \/ /\ csr.mepc \in DOMAIN Program[test]
        /\ Goto(csr.mepc) /\ Return /\ UNCHANGED traps
     \/ csr.mepc = "_start" /\ Stop("lost")
     \/ /\ csr.mepc = "misaligned"
        /\ mode' = csr.mpp /\ csr' = [csr EXCEPT !.mpp = U]
        /\ Goto("handler")
        /\ trap' = [at |-> at, cause |-> 0, value_is_pc |-> TRUE]
        /\ UNCHANGED <<finish, hart, cells, traps>>

\* The handler counts, steps mepc and returns.  Eight bytes are the forbidden
\* instruction and a report of four; otherwise the hart goes on in mid-report.
ResumeAfterTrap ==
  /\ Doing("resume")
  /\ LET code == Program[test][trap.at[1]]
         next == trap.at[2] + 1
     IN \/ /\ Op.bytes = 4 \/ (hart.report = 4 /\ code[next].do = "report")
           /\ at' = <<trap.at[1], IF Op.bytes = 4 THEN next ELSE next + 1>>
           /\ Return
           /\ traps' = traps + 1
        \/ /\ Op.bytes = 8 /\ ~(hart.report = 4 /\ code[next].do = "report")
           /\ Stop("lost")

Trapping ==
  \/ Doing("ecall") /\ Trap(8 + mode, FALSE)
  \/ Doing("illegal") /\ IF Is("jalr_unchecked") THEN Stop("lost") ELSE Trap(2, FALSE)
  \/ /\ Doing("fp")
     /\ IF csr.fs = "off" /\ ~Is("fs_ignored") THEN Trap(2, FALSE) ELSE Advance /\ Executed
  \/ Doing("jump_misaligned") /\ Trap(0, hart.jump_epc = "target")

AccessMemory ==
  /\ \/ Doing("load") \/ Doing("expect") \/ Doing("store")
  /\ LET access == IF Op.do = "store" THEN "store" ELSE "load"
         causes == AccessCause(Op.va, access)
         pa == Frame(Op.va)
     IN IF causes # {} THEN \E c \in causes : Trap(c, FALSE)
        ELSE \/ Op.do = "load" /\ Advance /\ Executed
             \/ Op.do = "expect" /\ Branch(cells[pa] = Op.val)
             \/ /\ Op.do = "store"
                /\ cells' = [x \in DOMAIN cells |-> IF x = pa THEN Op.val ELSE cells[x]]
                /\ Advance
                /\ UNCHANGED <<finish, mode, hart, csr, traps, trap>>

AccessAligned ==
  /\ Doing("aligned")
  /\ LET size == IF Op.size = 4 /\ Is("words_need_8") THEN 8 ELSE Op.size IN
     IF Op.offset % size = 0 \/ Is("misaligned_done") THEN Advance /\ Executed
     ELSE Trap(IF Op.access = "load" \/ (Op.access = "amo" /\ Is("amo_as_load")) THEN 4 ELSE 6,
               FALSE)

Questions ==
  \/ Doing("cause_is") /\ Branch(trap.cause = Op.cause)
  \/ Doing("value_is_pc") /\ Branch(trap.value_is_pc)
  \/ Doing("traps_are") /\ Branch(traps = Op.n)
  \/ /\ Doing("skip_if_compressed")
     /\ IF hart.rvc THEN Stop("pass") ELSE Advance /\ Executed

\* The store to 0x30d000 raises a debug interrupt; its entry is _start again.
TakeDebugInterrupt ==
  /\ Doing("enter_debug")
  /\ mode' = Debug /\ Goto("user")
  /\ UNCHANGED <<finish, hart, csr, cells, traps, trap>>

\* bp_finish, or the store to 0x102000
ReportVerdict ==
  /\ Doing("report")
  /\ IF PageFault("finish", "store", DataMode) THEN Trap(15, FALSE) ELSE Stop(Op.verdict)

\* main returns to the boot code, which passes.
Leave == at = <<"main", Len(Section) + 1>> /\ Stop("pass")

Instruction ==
  \/ WriteCsr \/ ReadCsr \/ CheckCsr \/ SfenceVma \/ ReturnTo \/ ResumeAfterTrap
  \/ Trapping \/ AccessMemory \/ AccessAligned \/ Questions \/ TakeDebugInterrupt
  \/ ReportVerdict \/ Leave

\* The handler that runs when none is installed is perch's, and fails.
Next ==
  \/ /\ finish = "none"
     /\ IF at[1] = "perch" THEN Stop("fail")
        ELSE IF FetchFault THEN Trap(12, FALSE) ELSE Instruction
     /\ UNCHANGED test
  \/ finish # "none" /\ UNCHANGED vars

Spec == Init /\ [][Next]_vars

-----------------------------------------------------------------------------
(* Properties *)

\* What each program can tell from a hart without the fault, by its comments
\* and its name.
Causes ==
  {"cycle_write", "readonly", "satp_u_mode", "counteren_u_mode", "instret_smode",
   "instret_smode_deny", "pmp_s_mode", "pmp_csr_disabled_illegal", "jalr_illegal",
   "instr_fault_mtval", "misaligned_ldst", "domain_fault", "out_of_bounds_test",
   "satp_nofence", "gigapage_alignment", "pte_reserved", "mprv_u_page", "eaddr_fault"}
Translating ==
  {"satp_nofence", "gigapage_alignment", "pte_reserved", "pte_valid_nonleaf",
   "mprv_u_page", "mprv_debug_page", "eaddr_fault"}
FoundBy ==
  [read_only_writable |-> {"cycle_write", "readonly"},
   satp_in_u |-> {"satp_u_mode"},
   pmp_in_s |-> {"pmp_s_mode"},
   mpp_not_saved |-> {"pmp_s_mode"},
   counters_open |-> {"counteren_u_mode", "instret_smode_deny"},
   only_scounteren |-> {"counteren_u_mode"},
   counters_closed |-> {"instret_smode"},
   pmp_w_kept |-> {"pmp_csr_enabled"},
   pmp_lock_ignored |-> {"pmp_csr_enabled"},
   fs_ignored |-> {"mstatus_fs"},
   mpp_keeps_2 |-> {},
   jalr_unchecked |-> {"jalr_illegal"},
   epc_low_bits |-> {"epc"},
   xtval_zero |-> {"instr_fault_mtval"},
   misaligned_done |-> {"misaligned_ldst"},
   words_need_8 |-> {"misaligned_ldst"},
   amo_as_load |-> {"misaligned_ldst"},
   domain_unchecked |-> {"domain_fault"},
   domain_frozen |-> {"domain_fault"},
   out_of_bounds_ok |-> {"out_of_bounds_test"},
   satp_frozen |-> Translating \union {"satp_supported_modes"},
   no_translation |-> Translating,
   stale_fetch |-> {"satp_nofence"},
   misaligned_gigapage_ok |-> {"gigapage_alignment"},
   reserved_bit_ok |-> {"pte_reserved"},
   nonleaf_needs_ad |-> {"pte_valid_nonleaf"},
   sum_ignored |-> {"pte_valid_nonleaf"},
   u_ignored |-> {"mprv_u_page", "mprv_debug_page"},
   mprv_ignored |-> Translating \ {"satp_nofence", "gigapage_alignment", "pte_reserved"},
   mprv_fetches |-> {"pte_valid_nonleaf", "mprv_u_page", "eaddr_fault"},
   mprven_stuck_on |-> {"mprv_debug_page"},
   mprven_stuck_off |-> {"mprv_debug_page"},
   wrong_cause |-> Causes,
   none |-> {}]

\* The harts and builds a program is for; unhandled_trap is meant to fail.
Suits ==
  CASE test \in {"pmp_s_mode", "pmp_csr_enabled"} -> hart.pmp
    [] test = "pmp_csr_disabled_illegal" -> ~hart.pmp
    [] test \in {"readonly", "misaligned_ldst"} -> hart.report = 4
    [] test = "epc" -> ~hart.rvc
    [] test = "instr_fault_mtval" -> ~hart.rvc /\ hart.jump_epc = "target"
    [] test = "instr_fault_stval" -> ~hart.rvc /\ Is("epc_low_bits")
    [] test = "unhandled_trap" -> FALSE
    [] OTHER -> TRUE

\* The two programs that skip their check on a hart with compressed instructions
Skips == test \in {"instr_fault_mtval", "instr_fault_stval"} /\ hart.rvc

\* A program passes exactly on the harts it is for that lack the faults it looks
\* for: no wrong trap, no trap of a report or of set-up code, and no hart
\* without the feature is taken for the expected one.
TrapVerdictIsExact ==
  finish # "none" =>
    (finish = "pass" <=> Skips \/ (Suits /\ test \notin FoundBy[hart.fault]))

\* "anything but hypervisor is fine" (mstatus_legalization.S:23): a hart that
\* keeps MPP = 2 does not pass.
HypervisorRefused ==
  test = "mstatus_legalization" /\ finish = "pass" => csr.mpp # 2
=============================================================================
