------------------------------ MODULE McSanity ------------------------------
(***************************************************************************)
(* mc_sanity.c: every core writes its own, interleaved elements of MATRIX, *)
(* reads each back at once and sums what it read.  The memory under test   *)
(* is a parameter: with StaleValues = {} a read returns what the core has  *)
(* just written, with {0} it may return what the element held before.      *)
(***************************************************************************)
EXTENDS McUtil, FiniteSets

CONSTANTS
  N,                    \* elements per core
  MatrixSizes,          \* values of MATRIX_SIZE to consider
  StaleValues           \* what an incoherent memory may answer: {} or {0}

MatrixAssumption ==
  N \in Nat /\ MatrixSizes \subseteq Nat /\ StaleValues \subseteq {0}

VARIABLES
  MATRIX,
  wrong,                \* history: core c was answered a stale value
  i, sum                \* locals of thread_main, one of each per core

MATRIX_SIZE == Cardinality(DOMAIN MATRIX)
matrixVars == <<MATRIX, wrong, i, sum>>
vars == <<mcVars, matrixVars>>

Fits == N * NumCores <= MATRIX_SIZE

Init ==
  /\ MemInit
  /\ pc = [c \in Cores |-> "size_check"]
  /\ \E size \in MatrixSizes : MATRIX = [x \in 0 .. size - 1 |-> 0]
  /\ wrong = [c \in Cores |-> FALSE]
  /\ i = [c \in Cores |-> 0]
  /\ sum = [c \in Cores |-> 0]

\* if (N*num_cores > MATRIX_SIZE) return 1;
SizeCheck(c) ==
  /\ \/ Fits /\ Goto(c, "size_check", "loop") /\ UNCHANGED ret
     \/ ~Fits /\ Return(c, "size_check", 1)
  /\ UNCHANGED <<reg, global_lock, start_barrier_mem, end_barrier_mem>>
  /\ UNCHANGED matrixVars

\* MATRIX[i*num_cores + core_id]
Element(c) == i[c] * NumCores + c

Write(c) ==
  /\ i[c] < N
  /\ Goto(c, "loop", "read_back")
  /\ MATRIX' = [MATRIX EXCEPT ![Element(c)] = 1]
  /\ UNCHANGED <<reg, ret, global_lock, start_barrier_mem, end_barrier_mem>>
  /\ UNCHANGED <<wrong, i, sum>>

\* sum += ...; if (sum != i+1) leave the loop for the end barrier
ReadBack(c) ==
  /\ pc[c] = "read_back"
  /\ \E v \in {MATRIX[Element(c)]} \union StaleValues :
       /\ sum' = [sum EXCEPT ![c] = @ + v]
       /\ wrong' = [wrong EXCEPT ![c] = @ \/ v # MATRIX[Element(c)]]
  /\ i' = [i EXCEPT ![c] = @ + 1]
  /\ Goto(c, "read_back", IF sum'[c] # i[c] + 1 THEN "end_lock" ELSE "loop")
  /\ UNCHANGED <<reg, ret, global_lock, start_barrier_mem, end_barrier_mem>>
  /\ UNCHANGED MATRIX

LoopEnds(c) ==
  /\ i[c] = N
  /\ Goto(c, "loop", "end_lock")
  /\ UNCHANGED <<reg, ret, global_lock, start_barrier_mem, end_barrier_mem>>
  /\ UNCHANGED matrixVars

JudgeOverflowOnly ==
  /\ end_barrier_mem = NumCores
  /\ Return(0, "join", IF sum[0] > N THEN 1 ELSE 0)
  /\ UNCHANGED <<reg, global_lock, start_barrier_mem, end_barrier_mem>>
  /\ UNCHANGED matrixVars

\* Core 0: wait for the others, then judge its own sum
Judge ==
  /\ end_barrier_mem = NumCores
  /\ Return(0, "join", IF sum[0] # N THEN 1 ELSE 0)
  /\ UNCHANGED <<reg, global_lock, start_barrier_mem, end_barrier_mem>>
  /\ UNCHANGED matrixVars

\* Any other core returns 1 from main; __main spins.
ReturnOne(c) ==
  /\ Return(c, "idle", 1)
  /\ UNCHANGED <<reg, global_lock, start_barrier_mem, end_barrier_mem>>
  /\ UNCHANGED matrixVars

Core(c) ==
  \/ SizeCheck(c) \/ Write(c) \/ ReadBack(c) \/ LoopEnds(c)
  \/ EndBarrier(c) /\ UNCHANGED matrixVars
  \/ c = 0 /\ Judge
  \/ ReturnOne(c)

Terminated == (\A c \in Cores : pc[c] = "returned") /\ UNCHANGED vars

Next == (\E c \in Cores : Core(c)) \/ Terminated

Spec == Init /\ [][Next]_vars

-----------------------------------------------------------------------------
(* Properties *)

Labels == {"size_check", "loop", "read_back", "end_lock"}
            \union EndCritical \union Joined

\* Every variable keeps its type; elements never leave MATRIX.
TypeOK ==
  /\ McTypeOK(Labels)
  /\ \E size \in MatrixSizes : MATRIX \in [0 .. size - 1 -> {0, 1}]
  /\ i \in [Cores -> 0 .. N]
  /\ wrong \in [Cores -> BOOLEAN]
  /\ sum \in [Cores -> Nat]

\* The verdict is exact for core 0: it is 0 when and only when MATRIX has room
\* for all cores and none of core 0's reads returned a stale value.
VerdictIsExact ==
  pc[0] = "returned" => (ret[0] = 0 <=> N * NumCores <= MATRIX_SIZE /\ ~wrong[0])
=============================================================================
