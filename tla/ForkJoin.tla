------------------------------ MODULE ForkJoin ------------------------------
(***************************************************************************)
(* What every multicore program of the repository promises, whatever its   *)
(* cores compute: no core works before core 0 has initialised the shared   *)
(* data, and core 0 returns from main only when every core has joined; or  *)
(* core 0 refuses to start, and then nobody works at all.                  *)
(* Programs without a start barrier begin with all cores running.          *)
(***************************************************************************)
EXTENDS Integers

CONSTANT NumCores

Cores == 0 .. NumCores - 1

VARIABLES
  started,              \* core 0 has published the initialised data
  phase,                \* "waiting", "running" or "joined", for each core
  exit_code             \* what core 0 returned, -1 before

vars == <<started, phase, exit_code>>

TypeOK ==
  /\ started \in BOOLEAN
  /\ phase \in [Cores -> {"waiting", "running", "joined"}]
  /\ exit_code \in {-1, 0, 1}

Init ==
  /\ started \in BOOLEAN
  /\ phase = [c \in Cores |-> IF started THEN "running" ELSE "waiting"]
  /\ exit_code = -1

Publish ==
  /\ ~started
  /\ exit_code = -1
  /\ started' = TRUE
  /\ phase' = [phase EXCEPT ![0] = "running"]
  /\ UNCHANGED exit_code

\* The data does not fit: core 0 returns 1 instead of publishing.
Refuse ==
  /\ ~started
  /\ exit_code = -1
  /\ exit_code' = 1
  /\ UNCHANGED <<started, phase>>

Begin(c) ==
  /\ started
  /\ phase[c] = "waiting"
  /\ phase' = [phase EXCEPT ![c] = "running"]
  /\ UNCHANGED <<started, exit_code>>

JoinCore(c) ==
  /\ phase[c] = "running"
  /\ phase' = [phase EXCEPT ![c] = "joined"]
  /\ UNCHANGED <<started, exit_code>>

Exit ==
  /\ exit_code = -1
  /\ \A c \in Cores : phase[c] = "joined"
  /\ exit_code' \in {0, 1}
  /\ UNCHANGED <<started, phase>>

Next ==
  \/ Publish \/ Refuse
  \/ \E c \in Cores : Begin(c) \/ JoinCore(c)
  \/ Exit

Spec == Init /\ [][Next]_vars

\* Nobody is left behind: every enabled step is taken, so core 0 exits.
FairSpec ==
  /\ Spec
  /\ WF_vars(Publish \/ Refuse)
  /\ \A c \in Cores : WF_vars(Begin(c)) /\ WF_vars(JoinCore(c))
  /\ WF_vars(Exit)
=============================================================================
