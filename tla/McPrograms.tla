----------------------------- MODULE McPrograms -----------------------------
(***************************************************************************)
(* The small multicore programs, one at a time, on the memory and the      *)
(* protocol of McUtil they share: `program' is the one that was loaded.    *)
(* What only the others use is Unused.                                     *)
(***************************************************************************)
EXTENDS McUtil

CONSTANTS
  LrscN,                \* iterations per core of mc_lrsc_add.c
  AmoN, BODY,           \* adds per core of mc_amo_add.c, and per loop body
  SanityN, TemplateN,   \* elements per core
  MatrixSizes,          \* MATRIX_SIZE of mc_sanity.c and mc_template.c
  StaleValues           \* what an incoherent memory may answer: {} or {0}

VARIABLES
  program,
  amo_target, reserved, sc_load, i,             \* mc_lrsc_add.c
  a6, k,                                        \* mc_amo_add.c
  MATRIX, wrong, sum,                   \* mc_sanity.c
  MATRIX_SIZE, next_index, last, stored         \* mc_template.c

vars == <<mcVars, program, amo_target, reserved, sc_load, i, a6, k, MATRIX, wrong, sum, MATRIX_SIZE, next_index, last, stored>>

Lrsc     == INSTANCE LrscAdd WITH N <- LrscN
Amo      == INSTANCE AmoAdd WITH N <- AmoN
Sanity   == INSTANCE McSanity WITH N <- SanityN
Template == INSTANCE McTemplate WITH N <- TemplateN

ASSUME ProgramsAssumption ==
  /\ Lrsc!IterationsAssumption
  /\ Amo!UnrollAssumption
  /\ Sanity!MatrixAssumption
  /\ Template!TemplateAssumption

Unused == "unused"

NoTarget == amo_target = Unused
NoLrsc == reserved = Unused /\ sc_load = Unused
NoAmo == a6 = Unused /\ k = Unused
NoSanity == MATRIX = Unused /\ wrong = Unused /\ sum = Unused
NoCounter == i = Unused
NoTemplate ==
  MATRIX_SIZE = Unused /\ next_index = Unused /\ last = Unused /\ stored = Unused

Init ==
  \/ /\ program = "mc_lrsc_add" /\ Lrsc!Init
     /\ NoAmo /\ NoSanity /\ NoTemplate
  \/ /\ program = "mc_amo_add" /\ Amo!Init
     /\ NoLrsc /\ NoCounter /\ NoSanity /\ NoTemplate
  \/ /\ program = "mc_sanity" /\ Sanity!Init
     /\ NoTarget /\ NoLrsc /\ NoAmo /\ NoTemplate
  \/ /\ program = "mc_template" /\ Template!Init
     /\ NoTarget /\ NoLrsc /\ NoCounter /\ NoAmo /\ NoSanity

LrscNext ==
  /\ program = "mc_lrsc_add" /\ Lrsc!Next
  /\ UNCHANGED <<program, a6, k, MATRIX, wrong, sum, MATRIX_SIZE, next_index,
                 last, stored>>
AmoNext ==
  /\ program = "mc_amo_add" /\ Amo!Next
  /\ UNCHANGED <<program, reserved, sc_load, i, MATRIX, wrong, sum, MATRIX_SIZE,
                 next_index, last, stored>>
SanityNext ==
  /\ program = "mc_sanity" /\ Sanity!Next
  /\ UNCHANGED <<program, amo_target, reserved, sc_load, a6, k, MATRIX_SIZE, next_index,
                 last, stored>>
TemplateNext ==
  /\ program = "mc_template" /\ Template!Next
  /\ UNCHANGED <<program, amo_target, reserved, sc_load, i, a6, k, MATRIX, wrong,
                 sum>>

Next == LrscNext \/ AmoNext \/ SanityNext \/ TemplateNext

Spec == Init /\ [][Next]_vars

\* The steps of core c in whatever program runs.
CoreStep(c) ==
  \/ program = "mc_lrsc_add" /\ Lrsc!Core(c)
  \/ program = "mc_amo_add" /\ Amo!Core(c)
  \/ program = "mc_sanity" /\ Sanity!Core(c)
  \/ program = "mc_template" /\ Template!Core(c)

\* Each hart keeps executing instructions, and the ISA promises that a
\* constrained LR/SC loop succeeds in the end.
FairSpec ==
  /\ Spec
  /\ \A c \in Cores : /\ WF_vars(CoreStep(c) /\ Next)
                      /\ SF_vars(program = "mc_lrsc_add" /\ Lrsc!StoreConditional(c) /\ Next)

-----------------------------------------------------------------------------
(* Properties *)

\* mc_lrsc_add.c: no add is lost and none is done twice, whatever SCs fail and
\* reservations vanish.
NoLostAdd == program = "mc_lrsc_add" => Lrsc!NoLostAdd

\* mc_amo_add.c passes: core 0 sees all the adds of all the cores.
AmoPasses == program = "mc_amo_add" => Amo!Passes

\* mc_sanity.c: the verdict is exact for the reads of core 0.
SanityVerdictIsExact == program = "mc_sanity" => Sanity!VerdictIsExact

\* mc_template.c: the initialisation comes before every sum, and core 0 returns
\* 0 only after all of them.
SumsOverInitialised ==
  program = "mc_template" => Template!InitialisedFirst /\ Template!AllStored

HasStartBarrier == program \in {"mc_lrsc_add", "mc_template"}

DataFits ==
  CASE program = "mc_sanity"   -> Sanity!Fits
    [] program = "mc_template" -> Template!Fits
    [] OTHER                   -> TRUE

Program ==
  INSTANCE ForkJoin
    WITH started <- IF HasStartBarrier THEN Started ELSE DataFits,
         phase <- IF DataFits THEN Phase ELSE [c \in Cores |-> "waiting"],
         exit_code <- ExitCode

\* Each program is a fork and join: every core gets through its work, its
\* retries and its early exits, and core 0 returns after them all; or the data
\* does not fit and core 0 refuses.
ImplementsForkJoin == Program!FairSpec
=============================================================================
