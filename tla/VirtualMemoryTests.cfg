\* Every fault the programs look for, in each mode; paging.c and mapping.c with
\* their own constants, and the 240 pages below STACK_TOP of vm_start.S.
CONSTANTS
  FaultKinds = {"none", "aligned", "within", "both_miss", "second_miss", "both_hit", "first_unchecked", "second_unchecked", "tval_is_epc", "epc_is_tval", "wrong_cause"}
  TrapFaults = {"none", "read_only_writable", "satp_in_u", "pmp_in_s", "mpp_not_saved", "counters_open", "only_scounteren", "counters_closed", "pmp_w_kept", "pmp_lock_ignored", "fs_ignored", "mpp_keeps_2", "jalr_unchecked", "epc_low_bits", "xtval_zero", "misaligned_done", "words_need_8", "amo_as_load", "domain_unchecked", "domain_frozen", "out_of_bounds_ok", "satp_frozen", "no_translation", "stale_fetch", "misaligned_gigapage_ok", "reserved_bit_ok", "nonleaf_needs_ad", "sum_ignored", "u_ignored", "mprv_ignored", "mprv_fetches", "mprven_stuck_on", "mprven_stuck_off", "wrong_cause"}
  PTES_PER_PT = 512
  PagingLast = 39
  KernelPages = 240
  L2Sets = 128
  HammerN = 100
  StressN = 1200

SPECIFICATION FairSpec

INVARIANTS
  FetchVerdictIsExact
  BothHalvesMiss
  OnlyStackInKernel
  LoadsFindStores
  RegistersKept
  ScratchReady
  TrapVerdictIsExact
  CacheVerdictIsExact
  MissesL1HitsL2

PROPERTY EveryoneDecides
