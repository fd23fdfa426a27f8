----------------------------- MODULE McTemplate -----------------------------
(***************************************************************************)
(* mc_template.c: the skeleton the other multicore programs are built on,  *)
(* with the initialisation of MATRIX by core 0.  `typedef uint64_t         *)
(* matrix[N]' gives MATRIX N elements; `last' is the highest index written *)
(* so far.  What lies after MATRIX in memory is taken to be unused.        *)
(***************************************************************************)
EXTENDS McUtil

CONSTANTS
  N,                    \* elements of MATRIX
  MatrixSizes           \* values of MATRIX_SIZE to consider

TemplateAssumption == N \in Nat \ {0} /\ MatrixSizes \subseteq Nat \ {0}

VARIABLES
  MATRIX_SIZE,          \* set by the build: elements written by core 0
  next_index,           \* core 0's loop counter
  last,                 \* highest index of MATRIX written, -1 at first
  stored                \* cores that have stored their sum

matrixVars == <<MATRIX_SIZE, next_index, last, stored>>
vars == <<mcVars, matrixVars>>

Highest(a, b) == IF a < b THEN b ELSE a

Fits == N * NumCores <= MATRIX_SIZE

Init ==
  /\ MemInit
  /\ pc = [c \in Cores |-> EntryPoint(c)]
  /\ MATRIX_SIZE \in MatrixSizes
  /\ next_index = 0
  /\ last = -1
  /\ stored = {}

\* if (N*num_cores > MATRIX_SIZE) return 1;
TooBig(c) ==
  /\ ~Fits
  /\ Return(c, EntryPoint(c), 1)
  /\ UNCHANGED <<reg, global_lock, start_barrier_mem, end_barrier_mem>>
  /\ UNCHANGED matrixVars

\* for (int i = 0; i < MATRIX_SIZE; i++) MATRIX[i] = i;
InitMatrix ==
  /\ Goto(0, "init_data", IF next_index + 1 < MATRIX_SIZE THEN "init_data"
                                                           ELSE "publish")
  /\ last' = Highest(last, next_index)
  /\ next_index' = next_index + 1
  /\ UNCHANGED <<reg, ret, global_lock, start_barrier_mem, end_barrier_mem>>
  /\ UNCHANGED <<stored, MATRIX_SIZE>>

Start(c) ==
  /\ Fits
  /\ \/ /\ IF c = 0 THEN ClearLock("init_data") \/ Publish("work")
                    ELSE AwaitStart(c, "work")
        /\ UNCHANGED matrixVars
     \/ c = 0 /\ InitMatrix

\* MATRIX[core_id] = sum;
StoreSum(c) ==
  /\ Goto(c, "work", "end_lock")
  /\ last' = Highest(last, c)
  /\ stored' = stored \union {c}
  /\ UNCHANGED <<reg, ret, global_lock, start_barrier_mem, end_barrier_mem>>
  /\ UNCHANGED <<next_index, MATRIX_SIZE>>

Core(c) ==
  \/ TooBig(c) \/ Start(c) \/ StoreSum(c)
  \/ EndBarrier(c) /\ UNCHANGED matrixVars
  \/ c = 0 /\ Join /\ UNCHANGED matrixVars

Terminated ==
  /\ pc[0] = "returned"
  /\ \A c \in Cores \ {0} : pc[c] \in {"idle", "returned"}
  /\ UNCHANGED vars

Next == (\E c \in Cores : Core(c)) \/ Terminated

Spec == Init /\ [][Next]_vars

-----------------------------------------------------------------------------
(* Properties *)

Labels == SetupLabels \union Joined \union EndCritical \union {"work", "end_lock"}

\* When core 0 returns 0 every core has stored its sum.
AllStored == ret[0] = 0 => stored = Cores

\* Sums are stored over the initialised matrix, never under it.
InitialisedFirst == stored # {} => next_index = MATRIX_SIZE

\* Nothing is written outside MATRIX: "MATRIX_SIZE defines the maximum size
\* of the data matrix used in the test" (mc_template.c).
InBounds == last < N
=============================================================================
