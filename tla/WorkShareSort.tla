--------------------------- MODULE WorkShareSort ----------------------------
(***************************************************************************)
(* mc_work_share_sort.c: the cores take arrays of DATA from a shared pool, *)
(* sort each in place, and join when the pool is empty.                    *)
(*                                                                         *)
(* An array is private to the core that took it, so one iteration of the   *)
(* inner loop of sortArray (a comparison and perhaps a swap) is one step.  *)
(* That privacy is OneOwner below.                                         *)
(***************************************************************************)
EXTENDS McUtil, FiniteSets

CONSTANTS
  ARRAY_LEN,
  ARRAYS_PER_CORE,
  DataLens,             \* sizes of DATA to consider (mc_data.h has one)
  Values                \* what an element of DATA may be

ASSUME SizesAssumption ==
  /\ ARRAY_LEN \in Nat \ {0}
  /\ ARRAYS_PER_CORE \in Nat
  /\ DataLens \subseteq Nat
ASSUME ValuesAssumption == Values \subseteq Int

VARIABLES
  DATA,
  original,             \* history: DATA as linked into the program
  read_index,
  read_count,
  array,                \* the pointer each core holds, as an index of DATA
  i, j                  \* the loop counters of sortArray, one per core

dataVars == <<DATA, original>>
poolVars == <<read_index, read_count>>
coreVars == <<array, i, j>>
vars == <<mcVars, dataVars, poolVars, coreVars>>

NULL == -1

DATA_LEN == Cardinality(DOMAIN original)

total_arrays == ARRAYS_PER_CORE * NumCores
total_array_len == total_arrays * ARRAY_LEN

Init ==
  /\ MemInit
  /\ pc = [c \in Cores |-> EntryPoint(c)]
  /\ \E len \in DataLens : DATA \in [0 .. len - 1 -> Values]
  /\ original = DATA
  /\ read_index = 0
  /\ read_count = 0
  /\ array = [c \in Cores |-> NULL]
  /\ i = [c \in Cores |-> 0]
  /\ j = [c \in Cores |-> 0]

-----------------------------------------------------------------------------
(* sortArray *)

Swapped(d, x, y) == [d EXCEPT ![x] = d[y], ![y] = d[x]]

\* for (int i = 0; i < ARRAY_LEN-1; i++) for (int j = 0; j < ARRAY_LEN-i-1; j++)
SortOneShort(c) ==
  LET x == array[c] + j[c] IN
  /\ pc[c] = "sort"
  /\ i[c] < ARRAY_LEN - 1
  /\ IF j[c] < ARRAY_LEN - i[c] - 2
       THEN /\ DATA' = IF DATA[x] > DATA[x + 1] THEN Swapped(DATA, x, x + 1)
                                                ELSE DATA
            /\ j' = [j EXCEPT ![c] = @ + 1]
            /\ UNCHANGED i
       ELSE /\ i' = [i EXCEPT ![c] = @ + 1]
            /\ j' = [j EXCEPT ![c] = 0]
            /\ UNCHANGED DATA
  /\ UNCHANGED <<mcVars, original, poolVars, array>>

SortStep(c) ==
  LET x == array[c] + j[c] IN
  /\ pc[c] = "sort"
  /\ i[c] < ARRAY_LEN - 1
  /\ IF j[c] < ARRAY_LEN - i[c] - 1
       THEN /\ DATA' = IF DATA[x] > DATA[x + 1] THEN Swapped(DATA, x, x + 1)
                                                ELSE DATA
            /\ j' = [j EXCEPT ![c] = @ + 1]
            /\ UNCHANGED i
       ELSE /\ i' = [i EXCEPT ![c] = @ + 1]
            /\ j' = [j EXCEPT ![c] = 0]
            /\ UNCHANGED DATA
  /\ UNCHANGED <<mcVars, original, poolVars, array>>

\* sortArray returns, thread_main loops
SortDone(c) ==
  /\ Goto(c, "sort", "get_lock")
  /\ i[c] >= ARRAY_LEN - 1
  /\ array' = [array EXCEPT ![c] = NULL]
  /\ UNCHANGED <<reg, ret, global_lock, start_barrier_mem, end_barrier_mem>>
  /\ UNCHANGED <<dataVars, poolVars, i, j>>

-----------------------------------------------------------------------------
(* getNextArray *)

GetLock(c) ==
  /\ Lock(c, "get_lock", "get_test")
  /\ UNCHANGED <<reg, ret, start_barrier_mem, end_barrier_mem>>
  /\ UNCHANGED <<dataVars, poolVars, coreVars>>

\* if (read_count < total_arrays)
GetTest(c) ==
  /\ Goto(c, "get_test", IF read_count < total_arrays THEN "get_ptr"
                                                      ELSE "none_unlock")
  /\ UNCHANGED <<reg, ret, global_lock, start_barrier_mem, end_barrier_mem>>
  /\ UNCHANGED <<dataVars, poolVars, coreVars>>

GetPtr(c) ==
  /\ Goto(c, "get_ptr", "index_load")
  /\ array' = [array EXCEPT ![c] = read_index]
  /\ UNCHANGED <<reg, ret, global_lock, start_barrier_mem, end_barrier_mem>>
  /\ UNCHANGED <<dataVars, poolVars, i, j>>

IndexLoad(c) ==
  /\ LoadReg(c, "index_load", "index_store", read_index)
  /\ UNCHANGED <<ret, global_lock, start_barrier_mem, end_barrier_mem>>
  /\ UNCHANGED <<dataVars, poolVars, coreVars>>

IndexStoreElement(c) ==
  /\ Goto(c, "index_store", "count_load")
  /\ read_index' = reg[c] + 1
  /\ UNCHANGED <<reg, ret, global_lock, start_barrier_mem, end_barrier_mem>>
  /\ UNCHANGED <<dataVars, read_count, coreVars>>

IndexStore(c) ==
  /\ Goto(c, "index_store", "count_load")
  /\ read_index' = reg[c] + ARRAY_LEN
  /\ UNCHANGED <<reg, ret, global_lock, start_barrier_mem, end_barrier_mem>>
  /\ UNCHANGED <<dataVars, read_count, coreVars>>

CountLoad(c) ==
  /\ LoadReg(c, "count_load", "count_store", read_count)
  /\ UNCHANGED <<ret, global_lock, start_barrier_mem, end_barrier_mem>>
  /\ UNCHANGED <<dataVars, poolVars, coreVars>>

CountStore(c) ==
  /\ Goto(c, "count_store", "get_unlock")
  /\ read_count' = reg[c] + 1
  /\ UNCHANGED <<reg, ret, global_lock, start_barrier_mem, end_barrier_mem>>
  /\ UNCHANGED <<dataVars, read_index, coreVars>>

\* unlock, return, and sortArray is entered
GetUnlock(c) ==
  /\ Unlock(c, "get_unlock", "sort")
  /\ i' = [i EXCEPT ![c] = 0]
  /\ j' = [j EXCEPT ![c] = 0]
  /\ UNCHANGED <<reg, ret, start_barrier_mem, end_barrier_mem>>
  /\ UNCHANGED <<dataVars, poolVars, array>>

\* unlock, *array = NULL, and thread_main leaves its loop
NoneUnlock(c) ==
  /\ Unlock(c, "none_unlock", "end_lock")
  /\ array' = [array EXCEPT ![c] = NULL]
  /\ UNCHANGED <<reg, ret, start_barrier_mem, end_barrier_mem>>
  /\ UNCHANGED <<dataVars, poolVars, i, j>>

getNextArray(c) ==
  \/ GetLock(c) \/ GetTest(c) \/ GetPtr(c)
  \/ IndexLoad(c) \/ IndexStore(c)
  \/ CountLoad(c) \/ CountStore(c)
  \/ GetUnlock(c) \/ NoneUnlock(c)

-----------------------------------------------------------------------------
(* main *)

\* main's check that there is data for all the arrays
Fits == total_array_len <= DATA_LEN

\* The arrays do not fit in DATA: every core returns 1 at once.
TooBig(c) ==
  /\ ~Fits
  /\ Return(c, EntryPoint(c), 1)
  /\ UNCHANGED <<reg, global_lock, start_barrier_mem, end_barrier_mem>>
  /\ UNCHANGED <<dataVars, poolVars, coreVars>>

\* read_index = 0; read_count = 0; end_barrier_mem = 0;
ClearCounters ==
  /\ Goto(0, "init_data", "publish")
  /\ read_index' = 0
  /\ read_count' = 0
  /\ end_barrier_mem' = 0
  /\ UNCHANGED <<reg, ret, global_lock, start_barrier_mem, dataVars, coreVars>>

Start(c) ==
  /\ Fits
  /\ \/ /\ IF c = 0 THEN ClearLock("init_data") \/ Publish("get_lock")
                    ELSE AwaitStart(c, "get_lock")
        /\ UNCHANGED <<dataVars, poolVars, coreVars>>
     \/ c = 0 /\ ClearCounters

Finish(c) ==
  /\ EndBarrier(c) \/ (c = 0 /\ Join)
  /\ UNCHANGED <<dataVars, poolVars, coreVars>>

Core(c) ==
  \/ TooBig(c) \/ Start(c)
  \/ getNextArray(c) \/ SortStep(c) \/ SortDone(c)
  \/ Finish(c)

\* main has returned on core 0, and on the others too if DATA is too small
Terminated ==
  /\ pc[0] = "returned"
  /\ \A c \in Cores \ {0} : pc[c] \in {"idle", "returned"}
  /\ UNCHANGED vars

Next == (\E c \in Cores : Core(c)) \/ Terminated

Spec == Init /\ [][Next]_vars

\* Each hart keeps executing instructions; the lock is taken a bounded number
\* of times (total_arrays + 2 * NumCores), so weak fairness is enough.
FairSpec == Spec /\ \A c \in Cores : WF_vars(Core(c))

-----------------------------------------------------------------------------
(* Properties *)

PoolCritical == {"get_test", "get_ptr", "index_load", "index_store",
                 "count_load", "count_store", "get_unlock", "none_unlock"}
Critical == PoolCritical \union EndCritical
Owning == {"index_load", "index_store", "count_load", "count_store",
           "get_unlock", "sort"}

Labels == SetupLabels \union Joined \union Critical
            \union {"get_lock", "sort", "end_lock"}

\* Every variable keeps its type; the pool never hands out more than it has.
TypeOK ==
  /\ McTypeOK(Labels)
  /\ DATA \in [0 .. DATA_LEN - 1 -> Values]
  /\ \E len \in DataLens : original \in [0 .. len - 1 -> Values]
  /\ read_index \in Nat
  /\ read_count \in 0 .. total_arrays
  /\ array \in [Cores -> Nat \union {NULL}]
  /\ i \in [Cores -> 0 .. ARRAY_LEN]
  /\ j \in [Cores -> 0 .. ARRAY_LEN]

\* The elements a core that holds an array may touch.
Slice(a) == a .. a + ARRAY_LEN - 1

\* No element of DATA is in the hands of two cores at a time, none is outside
\* the arrays the size check of main has admitted, and none has been sorted
\* before: an array is not handed out again once it has been given back.
OneOwner ==
  \A c \in Cores : pc[c] \in Owning =>
    /\ array[c] # NULL
    /\ Slice(array[c]) \subseteq 0 .. total_array_len - 1
    /\ pc[c] # "sort" => \A x \in Slice(array[c]) : DATA[x] = original[x]
    /\ \A d \in Cores \ {c} :
         pc[d] \in Owning => Slice(array[c]) \cap Slice(array[d]) = {}

\* The k-th array has been put in order and holds the elements it began with.
SortedArray(k) ==
  LET S == Slice(k * ARRAY_LEN) IN
  /\ \A x, y \in S : x <= y => DATA[x] <= DATA[y]
  /\ \A v \in Values : Cardinality({x \in S : DATA[x] = v})
                         = Cardinality({x \in S : original[x] = v})

\* When core 0 returns 0, every array is sorted, each exactly as a permutation
\* of itself, and the elements beyond them have not been touched.  If DATA is
\* too short, no core starts, none touches it, and core 0 returns 1.
SortedOrRefused ==
  /\ ret[0] = 0 =>
       /\ \A k \in 0 .. total_arrays - 1 : SortedArray(k)
       /\ \A x \in total_array_len .. DATA_LEN - 1 : DATA[x] = original[x]
  /\ total_array_len > DATA_LEN =>
       /\ \A c \in Cores : ret[c] \in {NotReturned, 1}
       /\ ~Started
       /\ DATA = original

Program == INSTANCE ForkJoin
             WITH started <- Started,
                  phase <- IF Fits THEN Phase ELSE [c \in Cores |-> "waiting"],
                  exit_code <- ExitCode

\* The sort is a fork and join, or refuses to start; core 0 does return.
ImplementsForkJoin == Program!FairSpec
===========================================================================
