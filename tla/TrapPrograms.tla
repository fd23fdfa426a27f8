----------------------------- MODULE TrapPrograms ----------------------------
(***************************************************************************)
(* The programs that set up a privilege mode, a translation or a           *)
(* protection, execute a forbidden instruction and judge its trap, each    *)
(* written as sections of instructions for the hart of module TrapTests.   *)
(***************************************************************************)
EXTENDS Integers, Sequences

U == 0   S == 1   M == 3
Debug == 4

\* Instructions.  Check is a csrr (or csrrw) and the branch to `fail' after it.
Write(values) == [do |-> "write", values |-> values]
Read(x) == [do |-> "read", csr |-> x]
Check(x, allowed) == [do |-> "check", csr |-> x, allowed |-> allowed]
Fence == [do |-> "fence"]
Mret == [do |-> "mret"]
Ecall == [do |-> "ecall"]
Illegal == [do |-> "illegal"]
Fp == [do |-> "fp"]
Load(va) == [do |-> "load", va |-> va]
Expect(va, val) == [do |-> "expect", va |-> va, val |-> val]
Store(va, val) == [do |-> "store", va |-> va, val |-> val]
Aligned(access, size, offset) ==
  [do |-> "aligned", access |-> access, size |-> size, offset |-> offset]
SkipIfCompressed == [do |-> "skip_if_compressed"]
JumpMisaligned == [do |-> "jump_misaligned"]
EnterDebug == [do |-> "enter_debug"]
CauseIs(c) == [do |-> "cause_is", cause |-> c]
ValueIsPc == [do |-> "value_is_pc"]
TrapsAre(n) == [do |-> "traps_are", n |-> n]
Resume(bytes) == [do |-> "resume", bytes |-> bytes]     \* mepc += bytes; mret
Report(verdict) == [do |-> "report", verdict |-> verdict]

Handler(section) == Write([mtvec |-> section])
Enter(m) == <<Write([mpp |-> m, mepc |-> "user"]), Mret>>
Judge(cause) == <<CauseIs(cause), Report("pass")>>
ClearMprv == Write([mprv |-> FALSE])

\* main, the code it enters by mret, the trap handler and `fail'
Sections(main, user, handler, failing) ==
  [main |-> main, user |-> user, handler |-> handler, fail |-> failing]
Code(main, user, handler) == Sections(main, user, handler, <<Report("fail")>>)

-----------------------------------------------------------------------------
(* CSRs and instructions *)

cycle_write == Code(<<Handler("handler"), Write([cycle |-> 0]), Report("fail")>>, <<>>, Judge(2))

readonly ==
  LET Try(x) == <<Write(x), Report("fail")>> IN
  Code(<<Handler("handler")>>
         \o Try([mvendorid |-> -1]) \o Try([marchid |-> -1])
         \o Try([mimpid |-> -1]) \o Try([mhartid |-> -1]),
       <<>>, <<CauseIs(2), Resume(8)>>)

satp_u_mode ==
  Code(<<Handler("handler")>> \o Enter(U), <<Read("satp"), Ecall>>, Judge(2))

counteren_u_mode ==
  Code(<<Handler("handler"), Write([mcounteren |-> {}, scounteren |-> {"cycle"}])>>
         \o Enter(U),
       <<Read("cycle"), Ecall>>, Judge(2))

InstretFromS(granted, cause) ==
  Code(<<Write([mcounteren |-> granted]), Handler("handler")>>
         \o <<Write([satp |-> "bare"])>> \o Enter(S),
       <<Read("instret"), Ecall>>, Judge(cause))
instret_smode == InstretFromS({"instret"}, 9)
instret_smode_deny == InstretFromS({}, 2)

PmpHandlerAnyMode == Judge(2)

PmpHandler == <<CauseIs(2), Check("mpp", {S}), Report("pass")>>

pmp_s_mode ==
  Code(<<Handler("handler"), Write([pmpaddr |-> -1]), Write([pmpcfg |-> {"A", "X", "W", "R"}])>>
         \o Enter(S),
       <<Read("pmpcfg"), Ecall>>, PmpHandler)

pmp_csr_enabled ==
  Code(<<Write([pmpcfg |-> {}]), Write([pmpaddr |-> 0]), Check("pmpcfg", {{}}),
         Write([pmpcfg |-> {"W"}]), Check("pmpcfg", {{}}),
         Write([pmpaddr |-> 74565]), Check("pmpaddr", {74565}),
         Write([pmpcfg |-> {"L", "R"}]), Check("pmpcfg", {{"L"}, {"L", "R"}}),
         Write([pmpaddr |-> 344865]), Check("pmpaddr", {74565}), Report("pass")>>,
       <<>>, <<>>)

\* its handler decodes the length of the instruction: 4 bytes for both
pmp_csr_disabled_illegal ==
  Code(<<Handler("handler"), Read("pmpcfg"), Write([pmpaddr |-> 0]), TrapsAre(2),
         Report("pass")>>,
       <<>>, <<CauseIs(2), Resume(4)>>)

mstatus_fs ==
  Code(<<Handler("handler"), Write([fs |-> "off"]), Fp, Fp, Fp, Fp, Fp, Fp, TrapsAre(6),
         Report("pass")>>,
       <<>>, <<Resume(4)>>)

\* MPP is compared in place, at bits 11 and 12, with an unshifted 2
mstatus_legalization ==
  Code(<<Write([mpp |-> 2]), Check("mpp", {m \in 0 .. 3 : m * 2 ^ 11 # 2}), Report("pass")>>,
       <<>>, <<>>)

jalr_illegal == Code(<<Handler("handler"), Illegal, Report("fail")>>, <<>>, Judge(2))

epc ==
  Code(<<Write([mepc |-> "-1"]), Check("mepc", {"-4"}),
         Write([sepc |-> "-1"]), Check("sepc", {"-4"})>>,
       <<>>, <<>>)

instr_fault_mtval ==
  Code(<<Handler("handler"), SkipIfCompressed, JumpMisaligned, Report("fail")>>,
       <<>>, <<CauseIs(0), ValueIsPc, Report("pass")>>)

instr_fault_stval ==
  Code(<<Write([medeleg |-> {0, 1}, mpp |-> S]), Write([satp |-> "bare"]), SkipIfCompressed,
         Write([mepc |-> "misaligned"]), Mret>>,
       <<>>, <<CauseIs(0), ValueIsPc, Report("pass")>>)

(* Accesses *)

\* Every access of a kind, at the five addresses; only after those that must
\* trap comes a report, for the handler to skip.
Offsets == <<1, 2, 3, 4, 7>>
Accesses(access, size) ==
  LET f[n \in 0 .. Len(Offsets)] ==
        IF n = 0 THEN <<>>
        ELSE f[n - 1] \o <<Aligned(access, size, Offsets[n])>>
               \o IF Offsets[n] % size = 0 THEN <<>> ELSE <<Report("fail")>>
  IN f[Len(Offsets)]

\* sb sh sw sd, amoadd.w amoadd.d, fsw fsd
Stores ==
  Accesses("store", 1) \o Accesses("store", 2) \o Accesses("store", 4)
    \o Accesses("store", 8) \o Accesses("amo", 4) \o Accesses("amo", 8)
    \o Accesses("store", 4) \o Accesses("store", 8)

\* lb lh lw ld, flw fld
Loads ==
  Accesses("load", 1) \o Accesses("load", 2) \o Accesses("load", 4)
    \o Accesses("load", 8) \o Accesses("load", 4) \o Accesses("load", 8)

\* trap_store is the handler section, and trap_load, for the loads, the other.
misaligned_ldst ==
  Code(<<Handler("handler")>> \o Stores \o <<Handler("user")>> \o Loads,
       <<CauseIs(4), Resume(8)>>, <<CauseIs(6), Resume(8)>>)

\* enabling domain 4 goes through a device register
domain_fault ==
  Code(<<Check("domain", {{}}), Write([domain |-> {4}]), Handler("fail"), Store("domain_4", 1),
         Handler("handler"), Store("domain_6", 1), Report("fail")>>,
       <<>>, Judge(7))

out_of_bounds_test ==
  Code(<<Handler("handler"), Load("data"), Load("out_of_bounds"), Report("fail")>>,
       <<>>, Judge(5))

unhandled_trap == Code(<<Load("out_of_bounds"), Report("fail")>>, <<>>, <<>>)

(* Translation *)

satp_nofence ==
  Code(<<Handler("handler")>> \o Enter(S), <<Write([satp |-> "null"]), Report("fail")>>,
       Judge(12))

satp_supported_modes ==
  Code(<<Handler("fail"), Write([satp |-> "bare"]), Fence, Check("satp", {"bare"}),
         Write([satp |-> "root_a"]), Check("satp", {"root_a"}),
         Write([satp |-> "root_b"]), Check("satp", {"root_b"}),
         Write([satp |-> "bare"]), Fence, Check("satp", {"bare"}), Report("pass")>>,
       <<>>, <<>>)

LoadUnder(root) ==
  Code(<<Handler("handler"), Write([satp |-> root]), Fence>> \o Enter(S),
       <<Load("1G"), Ecall>>, Judge(13))
gigapage_alignment == LoadUnder("misaligned_gigapage")
pte_reserved == LoadUnder("reserved_bit")

PhysicalPages == <<Expect("supervisor_data", 291), Expect("user_data", 1110)>>

pte_valid_nonleaf ==
  Sections(<<Handler("fail"), Write([satp |-> "three_levels"]), Fence,
             Write([mpp |-> S, mprv |-> TRUE, sum |-> TRUE]),
             Store("1G", 291), Expect("1G", 291), Store("1G+4K", 1110), Expect("1G+4K", 1110),
             Write([mpp |-> U, mprv |-> FALSE, sum |-> FALSE])>>
             \o PhysicalPages \o <<Write([satp |-> "bare"]), Fence, Report("pass")>>,
           <<>>, <<>>, <<ClearMprv, Report("fail")>>)

mprv_u_page ==
  Code(<<Handler("handler"), Write([satp |-> "supervisor_page"]), Fence,
         Write([mpp |-> U, mprv |-> TRUE]), Load("1G"), ClearMprv, Report("fail")>>,
       <<>>, <<ClearMprv>> \o Judge(13))

\* the vectors of _start: handler is debug_exception, user is debug_main
mprv_debug_page ==
  Sections(<<Store("debug_entered", 1), EnterDebug>>,
           <<Write([satp |-> "debug_page"]), Fence, Write([mpp |-> U, mprv |-> TRUE]),
             Write([mprven |-> FALSE]), Store("test_phase", 1), Load("code"),
             Store("test_phase", 2), Write([mprven |-> TRUE]), Load("code"),
             ClearMprv, Report("fail")>>,
           <<ClearMprv, Expect("test_phase", 2), Report("pass")>>,
           <<ClearMprv, Report("fail")>>)

eaddr_fault ==
  Code(<<Handler("handler"), Write([mpp |-> S, mprv |-> TRUE]), Write([satp |-> "null"]),
         Store("noncanonical", 0), Report("fail")>>,
       <<>>, Judge(15))

Program ==
  [cycle_write |-> cycle_write, readonly |-> readonly, satp_u_mode |-> satp_u_mode,
   counteren_u_mode |-> counteren_u_mode, instret_smode |-> instret_smode,
   instret_smode_deny |-> instret_smode_deny, pmp_s_mode |-> pmp_s_mode,
   pmp_csr_enabled |-> pmp_csr_enabled,
   pmp_csr_disabled_illegal |-> pmp_csr_disabled_illegal, mstatus_fs |-> mstatus_fs,
   mstatus_legalization |-> mstatus_legalization, jalr_illegal |-> jalr_illegal,
   epc |-> epc, instr_fault_mtval |-> instr_fault_mtval,
   instr_fault_stval |-> instr_fault_stval, misaligned_ldst |-> misaligned_ldst,
   domain_fault |-> domain_fault, out_of_bounds_test |-> out_of_bounds_test,
   unhandled_trap |-> unhandled_trap, satp_nofence |-> satp_nofence,
   satp_supported_modes |-> satp_supported_modes, gigapage_alignment |-> gigapage_alignment,
   pte_reserved |-> pte_reserved, pte_valid_nonleaf |-> pte_valid_nonleaf,
   mprv_u_page |-> mprv_u_page, mprv_debug_page |-> mprv_debug_page,
   eaddr_fault |-> eaddr_fault]
=============================================================================
