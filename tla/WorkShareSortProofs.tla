------------------------ MODULE WorkShareSortProofs -------------------------
(***************************************************************************)
(* mc_work_share_sort.c for any number of cores, any number and length of  *)
(* arrays and any data.  The pool hands out the arrays in order: number k  *)
(* starts at StartOf(k), and those below read_count have been taken.  An   *)
(* array is as the program was linked until it is taken, its core's bubble *)
(* sort works on it alone, and it is in order once it has been given back. *)
(***************************************************************************)
EXTENDS WorkShareSort, McUtilProofs

USE CoreSet, NumCoresAssumption
USE DEF SetupLabels, EndCritical, Joined, NotReturned, NULL, Goto

\* Where the k-th array starts.
StartOf(k) == k * ARRAY_LEN

Arrays == 0 .. total_arrays - 1

\* Between taking the pointer and counting it.
Taking == {"index_load", "index_store", "count_load", "count_store"}

\* read_index has been moved on, read_count has not.
HalfTaken == \E c \in Cores : pc[c] \in {"count_load", "count_store"}

Owned(k) == \E c \in Cores : pc[c] \in Owning /\ array[c] = StartOf(k)

-----------------------------------------------------------------------------
(* The invariant *)

DataType ==
  /\ \E len \in DataLens : original \in [0 .. len - 1 -> Values]
  /\ DATA \in [0 .. DATA_LEN - 1 -> Values]

Types ==
  /\ McTypeOK(Labels)
  /\ DataType
  /\ read_index \in Nat
  /\ read_count \in 0 .. total_arrays
  /\ array \in [Cores -> Nat \union {NULL}]
  /\ i \in [Cores -> 0 .. ARRAY_LEN]
  /\ j \in [Cores -> 0 .. ARRAY_LEN]

\* Core 0 sets up, the others wait for it; only core 0 returns, and only when
\* all have joined.
Roles ==
  /\ \A c \in Cores \ {0} :
       pc[c] \notin {"setup", "init_data", "publish", "join", "returned"}
  /\ pc[0] \notin {"await", "idle"}
  /\ pc[0] \in SetupLabels <=> ~Started
  /\ ~Started => \A c \in Cores \ {0} : pc[c] = "await"
  /\ pc[0] # "returned" => ret[0] = NotReturned
  /\ pc[0] = "returned" => \A c \in Cores : pc[c] \in Joined

\* The pool's two counters agree, but for the core that is moving them on.
\* Cores leave the loop only when the pool is empty.
PoolInv ==
  /\ read_index = StartOf(IF HalfTaken THEN read_count + 1 ELSE read_count)
  /\ ~Started => read_count = 0
  /\ \A c \in Cores :
       /\ pc[c] \in {"get_ptr"} \union Taking => read_count < total_arrays
       /\ pc[c] = "index_store" => reg[c] = read_index
       /\ pc[c] = "count_store" => reg[c] = read_count
       /\ pc[c] \in {"none_unlock", "end_lock"} \union EndCritical \union Joined
            => read_count = total_arrays

\* Each owner has one of the arrays taken, and no two the same.
OwnerInv ==
  \A c \in Cores : pc[c] \in Owning =>
    /\ \E k \in Arrays :
         /\ array[c] = StartOf(k)
         /\ IF pc[c] \in Taking THEN k = read_count ELSE k < read_count
    /\ \A d \in Cores : pc[d] \in Owning /\ array[d] = array[c] => d = c

Untouched(d, a) == \A x \in Slice(a) : d[x] = original[x]
InOrder(d, a) == \A x, y \in Slice(a) : x <= y => d[x] <= d[y]
SameElements(d, a) ==
  \A v \in Values : Cardinality({x \in Slice(a) : d[x] = v})
                      = Cardinality({x \in Slice(a) : original[x] = v})

\* Bubble sort in round m, at position n: the last m elements are in order and
\* nothing before them is larger; the element at n is the largest so far.
Bubble(d, a, m, n) ==
  /\ m \in 0 .. ARRAY_LEN - 1
  /\ n \in 0 .. ARRAY_LEN - m - 1
  /\ \A x \in Slice(a), y \in a + ARRAY_LEN - m .. a + ARRAY_LEN - 1 :
       x <= y => d[x] <= d[y]
  /\ \A x \in a .. a + n : d[x] <= d[a + n]

DataInv ==
  /\ \A k \in Arrays :
       /\ SameElements(DATA, StartOf(k))
       /\ k >= read_count => Untouched(DATA, StartOf(k))
       /\ k < read_count /\ ~Owned(k) => InOrder(DATA, StartOf(k))
  /\ \A c \in Cores :
       /\ pc[c] = "get_unlock" => Untouched(DATA, array[c])
       /\ pc[c] = "sort" => Bubble(DATA, array[c], i[c], j[c])
  /\ \A x \in total_array_len .. DATA_LEN - 1 : DATA[x] = original[x]

\* When the arrays do not fit in DATA nobody does anything.
Refused ==
  /\ \A c \in Cores : pc[c] \in {EntryPoint(c), "returned"}
  /\ \A c \in Cores : ret[c] \in {NotReturned, 1}
  /\ ret[0] = IF pc[0] = "returned" THEN 1 ELSE NotReturned
  /\ ~Started
  /\ DATA = original

Sorting == Roles /\ LockHeld(Critical) /\ EndInv /\ PoolInv /\ OwnerInv /\ DataInv

Inv == Types /\ (Fits => Sorting) /\ (~Fits => Refused)

-----------------------------------------------------------------------------
(* Where the arrays lie *)

\* The sizes are natural numbers, and the arrays fill 0 .. total_array_len - 1
\* one after the other.
LEMMA ArrayBounds ==
  /\ total_arrays \in Nat /\ total_array_len \in Nat
  /\ ARRAY_LEN \in Nat \ {0}
  /\ StartOf(0) = 0
  /\ StartOf(total_arrays) = total_array_len
  /\ \A k \in Nat : StartOf(k) \in Nat /\ StartOf(k + 1) = StartOf(k) + ARRAY_LEN
  /\ \A k, m \in Nat : k < m => StartOf(k) + ARRAY_LEN <= StartOf(m)
<1>1. total_arrays \in Nat /\ ARRAY_LEN \in Nat \ {0}
  BY SizesAssumption DEF total_arrays
<1>2. \A k \in Nat : k * ARRAY_LEN \in Nat /\ (k + 1) * ARRAY_LEN = k * ARRAY_LEN + ARRAY_LEN
  BY <1>1
<1>3. \A k, m \in Nat : k <= m => k * ARRAY_LEN <= m * ARRAY_LEN
  BY <1>1
<1>4. \A k, m \in Nat : k < m => k * ARRAY_LEN + ARRAY_LEN <= m * ARRAY_LEN
  <2> TAKE k, m \in Nat
  <2> HAVE k < m
  <2>1. (k + 1) * ARRAY_LEN <= m * ARRAY_LEN
    BY <1>3
  <2> QED
    BY <1>2, <2>1
<1>5. 0 * ARRAY_LEN = 0
  BY <1>1
<1> QED
  BY <1>1, <1>2, <1>4, <1>5 DEF StartOf, total_array_len

\* An array lies within the bound checked by main and apart from the others.
LEMMA ArraysApart ==
  ASSUME NEW k \in Arrays
  PROVE  /\ StartOf(k) \in Nat
         /\ Slice(StartOf(k)) \subseteq 0 .. total_array_len - 1
         /\ \A m \in Arrays : m # k =>
              /\ StartOf(m) # StartOf(k)
              /\ Slice(StartOf(m)) \cap Slice(StartOf(k)) = {}
<1>1. k \in Nat /\ k < total_arrays
  BY ArrayBounds DEF Arrays
<1>2. /\ StartOf(k) \in Nat
      /\ StartOf(k) + ARRAY_LEN <= total_array_len
  BY <1>1, ArrayBounds
<1>3. Slice(StartOf(k)) \subseteq 0 .. total_array_len - 1
  <2>1. total_array_len \in Nat /\ ARRAY_LEN \in Nat
    BY ArrayBounds
  <2> QED
    BY ONLY <1>2, <2>1 DEF Slice
<1>4. ASSUME NEW m \in Arrays, m # k
      PROVE  /\ StartOf(m) # StartOf(k)
             /\ Slice(StartOf(m)) \cap Slice(StartOf(k)) = {}
  <2>1. m \in Nat /\ (m < k \/ k < m)
    BY <1>1, <1>4, ArrayBounds DEF Arrays
  <2>2. StartOf(m) \in Nat /\ (\/ StartOf(m) + ARRAY_LEN <= StartOf(k)
                               \/ StartOf(k) + ARRAY_LEN <= StartOf(m))
    BY <1>1, <2>1, ArrayBounds
  <2>3. ARRAY_LEN \in Nat \ {0}
    BY ArrayBounds
  <2> QED
    BY ONLY <1>2, <2>2, <2>3 DEF Slice
<1> QED
  BY <1>2, <1>3, <1>4

\* What the owner of an array may index.
LEMMA OwnedSlice ==
  ASSUME Types, Fits, NEW k \in Arrays
  PROVE  /\ Slice(StartOf(k)) \subseteq DOMAIN DATA
         /\ \A x \in Slice(StartOf(k)) : DATA[x] \in Values /\ DATA[x] \in Int
         /\ IsFiniteSet(Slice(StartOf(k)))
<1>1. DATA_LEN \in Nat
  <2>1. PICK len \in DataLens : original \in [0 .. len - 1 -> Values]
    BY DEF Types, DataType
  <2>2. len \in Nat
    BY SizesAssumption
  <2>3. IsFiniteSet(0 .. len - 1)
    BY <2>2, FS_Interval
  <2> QED
    BY <2>1, <2>3, FS_CardinalityType DEF DATA_LEN
<1>2. Slice(StartOf(k)) \subseteq 0 .. DATA_LEN - 1
  <2>1. total_array_len \in Nat /\ total_array_len <= DATA_LEN
    BY ArrayBounds DEF Fits
  <2>2. Slice(StartOf(k)) \subseteq 0 .. total_array_len - 1
    BY ArraysApart
  <2>3. 0 .. total_array_len - 1 \subseteq 0 .. DATA_LEN - 1
    BY ONLY <1>1, <2>1
  <2> QED
    BY ONLY <2>2, <2>3
<1>3. IsFiniteSet(Slice(StartOf(k)))
  <2>1. StartOf(k) \in Int /\ StartOf(k) + ARRAY_LEN - 1 \in Int
    BY ArraysApart, ArrayBounds
  <2> QED
    BY ONLY <2>1, FS_Interval DEF Slice
<1> QED
  BY <1>2, <1>3, ValuesAssumption DEF Types, DataType

-----------------------------------------------------------------------------
(* The two operations on an array *)

\* Exchanging two elements of an array changes none of its counts.
LEMMA SwapKeeps ==
  ASSUME NEW d, NEW a, IsFiniteSet(Slice(a)), Slice(a) \subseteq DOMAIN d,
         NEW x \in Slice(a), NEW y \in Slice(a), SameElements(d, a)
  PROVE  SameElements(Swapped(d, x, y), a)
<1> DEFINE e == Swapped(d, x, y)
<1>1. /\ e[x] = d[y] /\ e[y] = d[x]
      /\ \A z \in Slice(a) : z # x /\ z # y => e[z] = d[z]
  BY DEF Swapped
<1>2. SUFFICES SameElements(e, a)
  OBVIOUS
<1> HIDE DEF e
<1>3. SUFFICES ASSUME NEW v
               PROVE  Cardinality({z \in Slice(a) : e[z] = v})
                        = Cardinality({z \in Slice(a) : d[z] = v})
  BY DEF SameElements
<1> DEFINE A == {z \in Slice(a) : d[z] = v}
           B == {z \in Slice(a) : e[z] = v}
<1>4. IsFiniteSet(A)
  BY FS_Subset
<1>5. CASE d[x] = v /\ d[y] # v
  <2>1. B = (A \ {x}) \union {y} /\ x \in A /\ y \notin A \ {x}
    BY <1>1, <1>5
  <2>2. IsFiniteSet(A \ {x}) /\ Cardinality(A \ {x}) = Cardinality(A) - 1
    BY <1>4, <2>1, FS_RemoveElement
  <2>3. Cardinality(B) = Cardinality(A \ {x}) + 1
    BY <2>1, <2>2, FS_AddElement
  <2> QED
    BY <1>4, <2>2, <2>3, FS_CardinalityType
<1>6. CASE d[x] # v /\ d[y] = v
  <2>1. B = (A \ {y}) \union {x} /\ y \in A /\ x \notin A \ {y}
    BY <1>1, <1>6
  <2>2. IsFiniteSet(A \ {y}) /\ Cardinality(A \ {y}) = Cardinality(A) - 1
    BY <1>4, <2>1, FS_RemoveElement
  <2>3. Cardinality(B) = Cardinality(A \ {y}) + 1
    BY <2>1, <2>2, FS_AddElement
  <2> QED
    BY <1>4, <2>2, <2>3, FS_CardinalityType
<1>7. CASE d[x] = v <=> d[y] = v
  <2>1. B = A
    BY <1>1, <1>7
  <2> QED
    BY <2>1
<1> QED
  BY <1>5, <1>6, <1>7

\* Where a bubble sort that has just begun stands.
LEMMA BubbleBegins ==
  ASSUME NEW d, NEW a \in Nat, \A x \in Slice(a) : d[x] \in Int
  PROVE  Bubble(d, a, 0, 0)
<1>1. ARRAY_LEN \in Nat \ {0}
  BY ArrayBounds
<1>2. a \in Slice(a)
  BY <1>1 DEF Slice
<1>3. d[a] <= d[a]
  BY <1>2
<1>4. \A x \in a .. a + 0 : x = a /\ a + 0 = a
  OBVIOUS
<1> QED
  BY ONLY <1>1, <1>3, <1>4, a \in Nat DEF Bubble

\* The state of a bubble sort depends on its own array only.
LEMMA BubbleKept ==
  ASSUME NEW d, NEW e, NEW a \in Nat, NEW m, NEW n,
         \A x \in Slice(a) : e[x] = d[x], Bubble(d, a, m, n)
  PROVE  Bubble(e, a, m, n)
<1>1. ARRAY_LEN \in Nat /\ m \in 0 .. ARRAY_LEN - 1 /\ n \in 0 .. ARRAY_LEN - m - 1
  BY ArrayBounds DEF Bubble
<1>2. /\ a + ARRAY_LEN - m .. a + ARRAY_LEN - 1 \subseteq Slice(a)
      /\ a .. a + n \subseteq Slice(a) /\ a + n \in Slice(a)
  BY ONLY <1>1, a \in Nat DEF Slice
<1> QED
  BY ONLY <1>1, <1>2, \A x \in Slice(a) : e[x] = d[x], Bubble(d, a, m, n) DEF Bubble

\* One comparison moves the largest element so far on by one.
LEMMA BubbleCompares ==
  ASSUME NEW d, NEW a \in Nat, NEW m, NEW n, Bubble(d, a, m, n),
         n < ARRAY_LEN - m - 1,
         Slice(a) \subseteq DOMAIN d, \A x \in Slice(a) : d[x] \in Int,
         NEW e, e = IF d[a + n] > d[a + n + 1] THEN Swapped(d, a + n, a + n + 1)
                                               ELSE d
  PROVE  /\ Bubble(e, a, m, n + 1)
         /\ DOMAIN e = DOMAIN d
         /\ a + n \in Slice(a) /\ a + n + 1 \in Slice(a)
         /\ \A x \in DOMAIN d : x \notin Slice(a) => e[x] = d[x]
<1>1. /\ ARRAY_LEN \in Nat /\ m \in Nat /\ n \in Nat
      /\ a + n \in Slice(a) /\ a + n + 1 \in Slice(a)
  BY ArrayBounds DEF Bubble, Slice
<1>2. /\ DOMAIN e = DOMAIN d
      /\ \A x \in DOMAIN d : x # a + n /\ x # a + n + 1 => e[x] = d[x]
      /\ e[a + n] <= e[a + n + 1] /\ d[a + n] <= e[a + n + 1]
      /\ \/ e[a + n] = d[a + n] /\ e[a + n + 1] = d[a + n + 1]
         \/ e[a + n] = d[a + n + 1] /\ e[a + n + 1] = d[a + n]
      /\ \A x \in Slice(a) : e[x] \in Int
  <2>1. a + n \in DOMAIN d /\ a + n + 1 \in DOMAIN d /\ a + n # a + n + 1
    BY <1>1
  <2>2. d[a + n] \in Int /\ d[a + n + 1] \in Int
    BY <1>1
  <2>3. CASE d[a + n] > d[a + n + 1]
    <3>1. e = Swapped(d, a + n, a + n + 1)
      BY <2>3
    <3>2. /\ DOMAIN e = DOMAIN d
          /\ e[a + n] = d[a + n + 1] /\ e[a + n + 1] = d[a + n]
          /\ \A x \in DOMAIN d : x # a + n /\ x # a + n + 1 => e[x] = d[x]
      BY ONLY <2>1, <3>1 DEF Swapped
    <3> QED
      BY <2>2, <2>3, <3>2
  <2>4. CASE ~(d[a + n] > d[a + n + 1])
    BY <2>2, <2>4
  <2> QED
    BY <2>3, <2>4
<1>3. m \in 0 .. ARRAY_LEN - 1 /\ n + 1 \in 0 .. ARRAY_LEN - m - 1
  BY <1>1 DEF Bubble
<1>4. ASSUME NEW x \in Slice(a),
             NEW y \in a + ARRAY_LEN - m .. a + ARRAY_LEN - 1, x <= y
      PROVE  e[x] <= e[y]
  <2>0. y \in Slice(a)
    BY <1>1, <1>3 DEF Slice
  <2>1. e[y] = d[y] /\ \A z \in Slice(a) : z <= y => d[z] <= d[y]
    <3>1. y # a + n /\ y # a + n + 1
      BY <1>1
    <3> QED
      BY <1>2, <2>0, <3>1 DEF Bubble
  <2>2. a + n <= y /\ a + n + 1 <= y
    BY <1>1
  <2>3. e[x] = d[x] \/ e[x] = d[a + n] \/ e[x] = d[a + n + 1]
    BY <1>2
  <2> QED
    BY ONLY <1>1, <1>4, <2>1, <2>2, <2>3
<1>5. ASSUME NEW x \in a .. a + (n + 1) PROVE e[x] <= e[a + (n + 1)]
  <2>1. CASE x = a + n + 1
    BY <1>1, <1>2, <2>1
  <2>2. CASE x = a + n
    BY <1>1, <1>2, <2>2
  <2>3. CASE x < a + n
    <3>1. e[x] = d[x] /\ d[x] <= d[a + n] /\ x \in Slice(a)
      BY <1>1, <1>2, <2>3 DEF Bubble, Slice
    <3> QED
      BY <1>1, <1>2, <3>1
  <2> QED
    BY <1>1, <2>1, <2>2, <2>3
<1> QED
  BY <1>1, <1>2, <1>3, <1>4, <1>5 DEF Bubble

\* At the end of a round the largest element has reached its place.
LEMMA BubbleRises ==
  ASSUME NEW d, NEW a \in Nat, NEW m, NEW n, Bubble(d, a, m, n),
         m < ARRAY_LEN - 1, ~(n < ARRAY_LEN - m - 1),
         \A x \in Slice(a) : d[x] \in Int
  PROVE  Bubble(d, a, m + 1, 0)
<1>1. ARRAY_LEN \in Nat /\ m \in Nat /\ n = ARRAY_LEN - m - 1
  BY ArrayBounds DEF Bubble
<1>2. ASSUME NEW x \in Slice(a),
             NEW y \in a + ARRAY_LEN - (m + 1) .. a + ARRAY_LEN - 1, x <= y
      PROVE  d[x] <= d[y]
  <2>1. CASE y = a + n
    BY <1>1, <1>2, <2>1 DEF Bubble, Slice
  <2>2. CASE y # a + n
    BY <1>1, <1>2, <2>2 DEF Bubble
  <2> QED
    BY <2>1, <2>2
<1>3. \A x \in a .. a + 0 : d[x] <= d[a + 0]
  BY <1>1 DEF Slice
<1> QED
  BY <1>1, <1>2, <1>3 DEF Bubble

\* After ARRAY_LEN - 1 rounds everything is in order.
LEMMA BubbleEnds ==
  ASSUME NEW d, NEW a \in Nat, NEW m, NEW n, Bubble(d, a, m, n),
         m >= ARRAY_LEN - 1, \A x \in Slice(a) : d[x] \in Int
  PROVE  InOrder(d, a)
<1>1. ARRAY_LEN \in Nat \ {0} /\ m = ARRAY_LEN - 1
  BY ArrayBounds DEF Bubble
<1> SUFFICES ASSUME NEW x \in Slice(a), NEW y \in Slice(a), x <= y
             PROVE  d[x] <= d[y]
  BY DEF InOrder
<1>2. CASE y = a
  BY <1>2 DEF Slice
<1>3. CASE y # a
  BY <1>1, <1>3 DEF Bubble, Slice
<1> QED
  BY <1>2, <1>3

-----------------------------------------------------------------------------
(* The steps that take place elsewhere *)

\* A step of a core that has no array, before or after, and that leaves DATA and
\* the pool's counters alone, keeps what is known of ownership and of the data.
LEMMA ElsewhereInv ==
  ASSUME Types, OwnerInv, DataInv, NEW c \in Cores, NEW l,
         pc' = [pc EXCEPT ![c] = l], pc[c] \notin Owning, l \notin Owning,
         \A d \in Cores : d # c => array'[d] = array[d],
         UNCHANGED <<DATA, original, read_count, i, j>>
  PROVE  OwnerInv' /\ DataInv'
<1> USE DEF Types, McTypeOK
<1>1. \A d \in Cores : /\ pc'[d] \in Owning <=> pc[d] \in Owning
                       /\ pc[d] \in Owning => pc'[d] = pc[d] /\ array'[d] = array[d]
  OBVIOUS
<1>2. OwnerInv'
  BY <1>1 DEF OwnerInv
<1>3. \A k \in Arrays : Owned(k)' <=> Owned(k)
  BY <1>1 DEF Owned
<1>4. \A d \in Cores : pc'[d] \in {"get_unlock", "sort"} =>
        pc'[d] = pc[d] /\ array'[d] = array[d]
  BY <1>1 DEF Owning
<1>5. DATA_LEN' = DATA_LEN
  BY DEF DATA_LEN
<1>6. DataInv'
  BY <1>3, <1>4, <1>5 DEF DataInv, Untouched, SameElements
<1> QED
  BY <1>2, <1>6

\* DATA keeps its type when it is not written.
LEMMA DataTypeKept == DataType /\ UNCHANGED dataVars => DataType'
BY DEF DataType, dataVars, DATA_LEN

\* Nothing is taken yet when the harts leave reset.
LEMMA InitInv == Init => Inv
<1> SUFFICES ASSUME Init PROVE Inv
  OBVIOUS
<1> USE DEF Init, MemInit, EntryPoint
<1>1. Types
  <2>1. DataType
    <3>1. PICK len \in DataLens : DATA \in [0 .. len - 1 -> Values]
      OBVIOUS
    <3>2. len \in Nat
      BY SizesAssumption
    <3>3. DATA_LEN = len
      BY <3>1, <3>2, FS_Interval DEF DATA_LEN
    <3> QED
      BY <3>1, <3>3 DEF DataType
  <2>2. McTypeOK(Labels)
    BY DEF McTypeOK, Labels
  <2> QED
    BY <2>1, <2>2, ArrayBounds DEF Types
<1>2. Roles /\ LockHeld(Critical) /\ OwnerInv
  BY DEF Roles, Started, LockHeld, Critical, PoolCritical, OwnerInv, Owning
<1>3. EndInv
  <2>1. EndedCores = {}
    BY DEF EndedCores
  <2> QED
    BY <2>1, CountNone DEF EndInv, LockHeld
<1>4. PoolInv
  <2>1. \A c \in Cores : pc[c] \in {"setup", "await"}
    OBVIOUS
  <2>2. ~HalfTaken
    BY <2>1 DEF HalfTaken
  <2>3. StartOf(0) = 0
    BY ArrayBounds
  <2> QED
    BY <2>1, <2>2, <2>3 DEF PoolInv, Taking
<1>5. DataInv
  <2>1. \A c \in Cores : pc[c] \in {"setup", "await"}
    OBVIOUS
  <2>2. \A k \in Arrays : ~(k < read_count)
    BY DEF Arrays
  <2> QED
    BY <2>1, <2>2 DEF DataInv, Untouched, SameElements
<1>6. Refused
  BY DEF Refused, Started
<1> QED
  BY <1>1, <1>2, <1>3, <1>4, <1>5, <1>6 DEF Inv, Sorting

-----------------------------------------------------------------------------
(* getNextArray *)

\* Steps of getNextArray keep to the loop: nobody starts, ends or returns.
LEMMA LoopStep ==
  ASSUME Types, Roles, NEW c \in Cores, NEW l,
         pc' = [pc EXCEPT ![c] = l],
         pc[c] \notin SetupLabels \union Joined,
         l \notin SetupLabels \union Joined,
         UNCHANGED <<ret, start_barrier_mem>>
  PROVE  Roles'
BY DEF Types, McTypeOK, Roles, Started

\* Taking the lock, looking at the count and finding the pool empty.
LEMMA LookInv ==
  ASSUME Types, Fits, Sorting, NEW c \in Cores,
         GetLock(c) \/ GetTest(c) \/ NoneUnlock(c)
  PROVE  Types' /\ Sorting'
<1> USE DEF GetLock, GetTest, NoneUnlock, Lock, Unlock, Sorting, dataVars, coreVars,
            poolVars
<1> DEFINE From == {"get_lock", "get_test", "none_unlock"}
           To == {"get_test", "get_ptr", "none_unlock", "end_lock"}
<1>1. PICK l \in To :
        /\ pc[c] \in From
        /\ pc' = [pc EXCEPT ![c] = l]
        /\ l = "get_test" => pc[c] = "get_lock" /\ global_lock = 0 /\ global_lock' = 1
        /\ l = "get_ptr" => pc[c] = "get_test" /\ read_count < total_arrays
                           /\ UNCHANGED global_lock
        /\ l = "none_unlock" => pc[c] = "get_test" /\ ~(read_count < total_arrays)
                               /\ UNCHANGED global_lock
        /\ l = "end_lock" => pc[c] = "none_unlock" /\ global_lock' = 0
  OBVIOUS
<1>2. /\ UNCHANGED <<reg, ret, start_barrier_mem, end_barrier_mem>>
      /\ UNCHANGED <<DATA, original, read_index, read_count, i, j>>
      /\ array' = array \/ array' = [array EXCEPT ![c] = NULL]
  OBVIOUS
<1> HIDE DEF GetLock, GetTest, NoneUnlock, Lock, Unlock
<1>3. Types'
  <2>1. McTypeOK(Labels)'
    BY <1>1, <1>2 DEF Types, McTypeOK, Labels, Critical, PoolCritical
  <2> QED
    BY <1>2, <2>1, DataTypeKept DEF Types
<1>4. Roles'
  BY <1>1, <1>2, LoopStep
<1>5. LockHeld(Critical)'
  <2>1. pc[c] \in {"get_test", "none_unlock"} => pc[c] \in Critical
    BY DEF Critical, PoolCritical
  <2>2. l \in {"get_test", "get_ptr", "none_unlock"} => l \in Critical
    BY DEF Critical, PoolCritical
  <2>3. l = "end_lock" => l \notin Critical
    BY DEF Critical, PoolCritical
  <2> QED
    BY <1>1, <2>1, <2>2, <2>3, LockStep DEF Types
<1>6. EndInv'
  <2>1. \/ global_lock' = global_lock
        \/ \A d \in Cores : pc[d] \notin EndCritical
    BY <1>1 DEF LockHeld, Critical, PoolCritical, Types, McTypeOK
  <2> QED
    BY <1>1, <1>2, <2>1, QuietStep DEF Types
<1>7. PoolInv'
  <2>1. HalfTaken' <=> HalfTaken
    BY <1>1 DEF HalfTaken, Types, McTypeOK
  <2>2. read_count \in 0 .. total_arrays
    BY DEF Types
  <2>3. \A d \in Cores : d # c => pc'[d] = pc[d]
    BY <1>1 DEF Types, McTypeOK
  <2>4. pc'[c] = l
    BY <1>1 DEF Types, McTypeOK
  <2>5. read_index' = StartOf(IF HalfTaken' THEN read_count' + 1 ELSE read_count')
    BY <1>2, <2>1 DEF PoolInv
  <2>6. ~Started' => read_count' = 0
    BY <1>2 DEF PoolInv, Started
  <2>7. total_arrays \in Nat
    BY ArrayBounds
  <2>8. \A d \in Cores :
       /\ pc'[d] \in {"get_ptr"} \union Taking => read_count < total_arrays
       /\ pc'[d] = "index_store" => reg[d] = read_index
       /\ pc'[d] = "count_store" => reg[d] = read_count
       /\ pc'[d] \in {"none_unlock", "end_lock"} \union EndCritical \union Joined
            => read_count = total_arrays
    BY ONLY <1>1, <2>2, <2>3, <2>4, <2>7, PoolInv DEF PoolInv, Taking
  <2> QED
    BY <1>2, <2>5, <2>6, <2>8 DEF PoolInv
<1>8. OwnerInv' /\ DataInv'
  <2>1. pc[c] \notin Owning /\ l \notin Owning
    BY <1>1 DEF Owning
  <2>2. \A d \in Cores : d # c => array'[d] = array[d]
    BY <1>2 DEF Types
  <2> QED
    BY <1>1, <1>2, <2>1, <2>2, ElsewhereInv
<1> QED
  BY <1>3, <1>4, <1>5, <1>6, <1>7, <1>8

\* What the steps of core c under the lock of the pool have in common.  No
\* other core is in a critical section.
LEMMA UnderLock ==
  ASSUME Types, Sorting, NEW c \in Cores, NEW l,
         pc[c] \in PoolCritical, pc' = [pc EXCEPT ![c] = l],
         \/ l \in PoolCritical /\ global_lock' = global_lock
         \/ l = "sort" /\ global_lock' = 0,
         \A d \in Cores : d # c => reg'[d] = reg[d],
         UNCHANGED <<ret, start_barrier_mem, end_barrier_mem>>
  PROVE  /\ Roles' /\ LockHeld(Critical)' /\ EndInv'
         /\ Started /\ Started'
         /\ pc'[c] = l
         /\ \A d \in Cores : d # c => pc[d] \notin Critical /\ pc'[d] = pc[d]
<1> USE DEF Sorting, PoolCritical, Critical
<1>1. Roles'
  BY LoopStep
<1>2. \A d \in Cores : d # c => pc[d] \notin Critical
  BY DEF LockHeld
<1>3. LockHeld(Critical)'
  BY LockStep DEF Types
<1>4. EndInv'
  <2>1. \A d \in Cores : pc[d] \notin EndCritical
    BY <1>2
  <2> QED
    BY <2>1, QuietStep DEF Types
<1>5. Started /\ Started'
  BY DEF Roles, Started
<1>6. pc'[c] = l /\ \A d \in Cores : d # c => pc'[d] = pc[d]
  BY DEF Types, McTypeOK
<1> QED
  BY <1>1, <1>2, <1>3, <1>4, <1>5, <1>6

\* Owners and data stay as they are while c counts its array.
LEMMA CountingInv ==
  ASSUME Types, OwnerInv, DataInv, NEW c \in Cores, NEW l,
         pc' = [pc EXCEPT ![c] = l], pc[c] \in Taking, l \in Taking,
         UNCHANGED <<array, read_count, DATA, original, i, j>>
  PROVE  OwnerInv' /\ DataInv'
<1>1. /\ pc'[c] = l /\ \A d \in Cores : d # c => pc'[d] = pc[d]
  BY DEF Types, McTypeOK
<1>2. \A d \in Cores : /\ pc'[d] \in Owning <=> pc[d] \in Owning
                       /\ pc'[d] \in Taking <=> pc[d] \in Taking
                       /\ pc'[d] \in {"get_unlock", "sort"} => pc'[d] = pc[d]
  BY <1>1 DEF Owning, Taking
<1>3. OwnerInv'
  BY <1>2 DEF OwnerInv
<1>4. \A k \in Arrays : Owned(k)' <=> Owned(k)
  BY <1>2 DEF Owned
<1>5. DataInv'
  BY <1>2, <1>4 DEF DataInv, Untouched, SameElements, DATA_LEN
<1> QED
  BY <1>3, <1>5

\* The core gets the pointer of the first array nobody has taken.
LEMMA GetPtrInv ==
  ASSUME Types, Fits, Sorting, NEW c \in Cores, GetPtr(c)
  PROVE  Types' /\ Sorting'
<1> USE DEF GetPtr, dataVars, poolVars
<1>0. /\ pc[c] = "get_ptr" /\ pc' = [pc EXCEPT ![c] = "index_load"]
      /\ array' = [array EXCEPT ![c] = read_index]
      /\ UNCHANGED <<reg, ret, global_lock, start_barrier_mem, end_barrier_mem>>
      /\ UNCHANGED <<DATA, original, read_index, read_count, i, j>>
  OBVIOUS
<1> HIDE DEF GetPtr
<1>1. /\ Roles' /\ LockHeld(Critical)' /\ EndInv'
      /\ Started /\ Started'
      /\ pc'[c] = "index_load"
      /\ \A d \in Cores : d # c => pc[d] \notin Critical /\ pc'[d] = pc[d]
  BY <1>0, UnderLock DEF PoolCritical
<1>2. Types'
  <2>1. McTypeOK(Labels)'
    BY <1>0 DEF Types, McTypeOK, Labels, Critical, PoolCritical
  <2> QED
    BY <1>0, <2>1, DataTypeKept DEF Types
<1>3. read_count \in Arrays /\ read_count < total_arrays /\ read_index = StartOf(read_count)
  <2>1. ~HalfTaken
    BY <1>0, <1>1 DEF HalfTaken, Critical, PoolCritical
  <2>2. read_count < total_arrays
    BY <1>0 DEF Sorting, PoolInv
  <2> QED
    BY <2>1, <2>2, ArrayBounds DEF Sorting, PoolInv, Arrays, Types
<1>4. PoolInv'
  <2>1. ~HalfTaken'
    BY <1>0, <1>1 DEF HalfTaken, Critical, PoolCritical
  <2>2. read_index' = StartOf(IF HalfTaken' THEN read_count' + 1 ELSE read_count')
    BY <1>0, <1>3, <2>1
  <2> QED
    BY <1>0, <1>1, <1>3, <2>2 DEF Sorting, PoolInv, Taking
<1>5. array'[c] = StartOf(read_count) /\ \A d \in Cores : d # c => array'[d] = array[d]
  BY <1>0, <1>3 DEF Types
<1>6. \A d \in Cores : d # c /\ pc'[d] \in Owning =>
        /\ pc[d] \in Owning /\ pc[d] \notin Taking
        /\ array'[d] = array[d] /\ array[d] # StartOf(read_count)
  <2> SUFFICES ASSUME NEW d \in Cores, d # c, pc'[d] \in Owning
               PROVE  /\ pc[d] \in Owning /\ pc[d] \notin Taking
                      /\ array'[d] = array[d] /\ array[d] # StartOf(read_count)
    OBVIOUS
  <2>1. pc[d] \in Owning /\ pc[d] \notin Taking
    BY <1>1 DEF Taking, Critical, PoolCritical
  <2>2. PICK m \in Arrays : array[d] = StartOf(m) /\ m < read_count
    BY <2>1 DEF Sorting, OwnerInv
  <2>3. StartOf(m) # StartOf(read_count)
    <3>1. m # read_count
      BY <1>3, <2>2, ArrayBounds DEF Arrays
    <3> QED
      BY <1>3, <3>1, ArraysApart
  <2> QED
    BY <1>5, <2>1, <2>2, <2>3
<1>7. OwnerInv'
  <2>1. ASSUME NEW d \in Cores, pc'[d] \in Owning
        PROVE  \E k \in Arrays :
                 /\ array'[d] = StartOf(k)
                 /\ IF pc'[d] \in Taking THEN k = read_count' ELSE k < read_count'
    <3>1. CASE d = c
      BY <1>0, <1>1, <1>3, <1>5, <3>1 DEF Taking
    <3>2. CASE d # c
      BY <1>0, <1>1, <1>6, <2>1, <3>2 DEF Sorting, OwnerInv
    <3> QED
      BY <3>1, <3>2
  <2>2. ASSUME NEW d \in Cores, NEW e \in Cores, pc'[d] \in Owning,
               pc'[e] \in Owning, array'[e] = array'[d]
        PROVE  e = d
    BY <1>5, <1>6, <2>2 DEF Sorting, OwnerInv
  <2>3. Arrays' = Arrays
    BY DEF Arrays, total_arrays
  <2> QED
    BY <2>1, <2>2, <2>3 DEF OwnerInv
<1>8. DataInv'
  <2>1. \A k : Owned(k) => Owned(k)'
    BY <1>0, <1>1, <1>5 DEF Owned, Owning
  <2>2. \A d \in Cores : pc'[d] \in {"get_unlock", "sort"} =>
          pc'[d] = pc[d] /\ array'[d] = array[d]
    BY <1>1, <1>5
  <2> QED
    BY <1>0, <2>1, <2>2 DEF Sorting, DataInv, Untouched, SameElements, DATA_LEN
<1> QED
  BY <1>1, <1>2, <1>4, <1>7, <1>8 DEF Sorting

\* read_index += ARRAY_LEN, and the load of read_count += 1.
LEMMA IndexInv ==
  ASSUME Types, Fits, Sorting, NEW c \in Cores,
         IndexLoad(c) \/ IndexStore(c) \/ CountLoad(c)
  PROVE  Types' /\ Sorting'
<1> USE DEF IndexLoad, IndexStore, CountLoad, LoadReg, dataVars, poolVars, coreVars
<1>0. PICK l \in Taking :
        /\ pc[c] \in Taking /\ pc' = [pc EXCEPT ![c] = l]
        /\ l = "index_store" => /\ pc[c] = "index_load" /\ UNCHANGED read_index
                               /\ reg' = [reg EXCEPT ![c] = read_index]
        /\ l = "count_load" => /\ pc[c] = "index_store" /\ UNCHANGED reg
                              /\ read_index' = reg[c] + ARRAY_LEN
        /\ l = "count_store" => /\ pc[c] = "count_load" /\ UNCHANGED read_index
                               /\ reg' = [reg EXCEPT ![c] = read_count]
        /\ l # "index_load"
  BY DEF Taking
<1>a. /\ UNCHANGED <<ret, global_lock, start_barrier_mem, end_barrier_mem>>
      /\ UNCHANGED <<DATA, original, read_count, array, i, j>>
  OBVIOUS
<1> HIDE DEF IndexLoad, IndexStore, CountLoad, LoadReg
<1>b. l \in {"index_store", "count_load", "count_store"}
  BY <1>0 DEF Taking
<1>1. /\ Roles' /\ LockHeld(Critical)' /\ EndInv'
      /\ Started /\ Started'
      /\ pc'[c] = l
      /\ \A d \in Cores : d # c => pc[d] \notin Critical /\ pc'[d] = pc[d]
  <2>1. pc[c] \in PoolCritical /\ l \in PoolCritical
    BY <1>0 DEF Taking, PoolCritical
  <2>2. \A d \in Cores : d # c => reg'[d] = reg[d]
    BY <1>0, <1>b DEF Types, McTypeOK
  <2> QED
    BY <1>0, <1>a, <2>1, <2>2, UnderLock
<1>2. read_index \in Nat /\ read_count \in Nat /\ reg[c] \in Nat /\ ARRAY_LEN \in Nat
  BY ArrayBounds DEF Types, McTypeOK
<1>3. Types'
  <2>1. reg' \in [Cores -> Nat] /\ read_index' \in Nat
    BY <1>0, <1>b, <1>2 DEF Types, McTypeOK
  <2>2. pc' \in [Cores -> Labels]
    BY <1>0 DEF Types, McTypeOK, Labels, Critical, PoolCritical, Taking
  <2>3. McTypeOK(Labels)'
    BY <1>a, <2>1, <2>2 DEF Types, McTypeOK, Labels
  <2>4. total_arrays' = total_arrays
    BY DEF total_arrays
  <2> QED
    BY <1>a, <2>1, <2>3, <2>4, DataTypeKept DEF Types
<1>4. PoolInv'
  <2>1. HalfTaken <=> pc[c] = "count_load"
    BY <1>0, <1>1, <1>b DEF HalfTaken, Critical, PoolCritical, Taking
  <2>2. HalfTaken' <=> l # "index_store"
    BY <1>b, <1>1 DEF HalfTaken, Critical, PoolCritical
  <2>3. StartOf(read_count + 1) = StartOf(read_count) + ARRAY_LEN
    BY <1>2, ArrayBounds
  <2>4. pc[c] = "index_store" => reg[c] = read_index
    BY DEF Sorting, PoolInv
  <2>5. read_index = StartOf(IF HalfTaken THEN read_count + 1 ELSE read_count)
    BY DEF Sorting, PoolInv
  <2>6. read_index' = StartOf(IF HalfTaken' THEN read_count' + 1 ELSE read_count')
    BY <1>0, <1>a, <1>b, <2>1, <2>2, <2>3, <2>4, <2>5
  <2>7. read_count < total_arrays
    BY <1>0 DEF Sorting, PoolInv
  <2>8. reg'[c] = (IF l = "index_store" THEN read_index' ELSE
                   IF l = "count_store" THEN read_count' ELSE reg[c])
    BY <1>0, <1>a, <1>b DEF Types, McTypeOK
  <2>9. total_arrays' = total_arrays
    BY DEF total_arrays
  <2>10. ASSUME NEW d \in Cores
         PROVE  /\ pc'[d] \in {"get_ptr"} \union Taking => read_count' < total_arrays
                /\ pc'[d] = "index_store" => reg'[d] = read_index'
                /\ pc'[d] = "count_store" => reg'[d] = read_count'
                /\ pc'[d] \in {"none_unlock", "end_lock"} \union EndCritical \union Joined
                     => read_count' = total_arrays
    <3>1. CASE d = c
      BY <1>0, <1>a, <1>b, <1>1, <2>7, <2>8, <3>1
    <3>2. CASE d # c
      BY <1>a, <1>1, <3>2 DEF Sorting, PoolInv, Critical, PoolCritical, Taking
    <3> QED
      BY <3>1, <3>2
  <2> QED
    BY <1>1, <2>6, <2>9, <2>10 DEF PoolInv
<1>5. OwnerInv' /\ DataInv'
  BY <1>0, <1>a, CountingInv DEF Sorting
<1> QED
  BY <1>1, <1>3, <1>4, <1>5 DEF Sorting

\* The store of read_count += 1: array number read_count has an owner now.
LEMMA CountStoreInv ==
  ASSUME Types, Fits, Sorting, NEW c \in Cores, CountStore(c)
  PROVE  Types' /\ Sorting'
<1> USE DEF CountStore, dataVars, coreVars
<1>0. /\ pc[c] = "count_store" /\ pc' = [pc EXCEPT ![c] = "get_unlock"]
      /\ read_count' = reg[c] + 1
      /\ UNCHANGED <<reg, ret, global_lock, start_barrier_mem, end_barrier_mem>>
      /\ UNCHANGED <<DATA, original, read_index, array, i, j>>
  OBVIOUS
<1> HIDE DEF CountStore
<1>1. /\ Roles' /\ LockHeld(Critical)' /\ EndInv'
      /\ Started /\ Started'
      /\ pc'[c] = "get_unlock"
      /\ \A d \in Cores : d # c => pc[d] \notin Critical /\ pc'[d] = pc[d]
  BY <1>0, UnderLock DEF PoolCritical
<1>2. /\ read_count' = read_count + 1 /\ read_count \in Arrays
      /\ read_count \in Nat /\ read_count < total_arrays /\ total_arrays \in Nat
  <2>1. reg[c] = read_count /\ read_count < total_arrays
    BY <1>0 DEF Sorting, PoolInv, Taking
  <2>2. read_count \in 0 .. total_arrays /\ total_arrays \in Nat
    BY ArrayBounds DEF Types
  <2> QED
    BY ONLY <1>0, <2>1, <2>2 DEF Arrays
<1>3. total_arrays' = total_arrays /\ Arrays' = Arrays
  BY DEF total_arrays, Arrays
<1>4. Types'
  <2>1. McTypeOK(Labels)'
    BY <1>0 DEF Types, McTypeOK, Labels, Critical, PoolCritical
  <2> QED
    BY <1>0, <1>2, <1>3, <2>1, DataTypeKept DEF Types
<1>5. PoolInv'
  <2>1. HalfTaken /\ ~HalfTaken'
    BY <1>0, <1>1 DEF HalfTaken, Critical, PoolCritical
  <2>2. read_index' = StartOf(IF HalfTaken' THEN read_count' + 1 ELSE read_count')
    BY <1>0, <1>2, <2>1 DEF Sorting, PoolInv
  <2>3. ASSUME NEW d \in Cores
        PROVE  /\ pc'[d] \notin {"get_ptr", "none_unlock", "end_lock"}
                                  \union Taking \union EndCritical \union Joined
    <3>1. CASE d = c
      BY <1>1, <3>1 DEF Taking
    <3>2. CASE d # c
      BY <1>1, <1>2, <3>2 DEF Sorting, PoolInv, Critical, PoolCritical, Taking
    <3> QED
      BY <3>1, <3>2
  <2> QED
    BY <1>1, <2>2, <2>3 DEF PoolInv, Taking
<1>6. array[c] = StartOf(read_count)
  BY <1>0 DEF Sorting, OwnerInv, Owning, Taking
<1>7. \A d \in Cores : /\ pc'[d] \in Owning <=> pc[d] \in Owning
                       /\ d # c /\ pc[d] \in Owning => pc[d] \notin Taking
                       /\ pc'[d] \notin Taking
  BY <1>0, <1>1 DEF Owning, Taking, Critical, PoolCritical
<1>8. OwnerInv'
  <2>1. ASSUME NEW d \in Cores, pc'[d] \in Owning
        PROVE  \E k \in Arrays : array[d] = StartOf(k) /\ k < read_count + 1
    <3>1. CASE d = c
      BY <1>2, <1>6, <3>1
    <3>2. CASE d # c
      <4>1. PICK k \in Arrays : array[d] = StartOf(k) /\ k < read_count
        BY <1>7, <2>1, <3>2 DEF Sorting, OwnerInv
      <4> QED
        BY <1>2, <4>1 DEF Arrays
    <3> QED
      BY <3>1, <3>2
  <2>2. \A d, e \in Cores : pc'[d] \in Owning /\ pc'[e] \in Owning
                              /\ array[e] = array[d] => e = d
    BY <1>7 DEF Sorting, OwnerInv
  <2> QED
    BY <1>0, <1>2, <1>3, <1>7, <2>1, <2>2 DEF OwnerInv
<1>9. DataInv'
  <2>1. \A k : Owned(k)' <=> Owned(k)
    BY <1>0, <1>7 DEF Owned
  <2>2. Owned(read_count)
    BY <1>0, <1>6 DEF Owned, Owning
  <2>3. ASSUME NEW k \in Arrays
        PROVE  /\ k >= read_count' => Untouched(DATA, StartOf(k))
               /\ k < read_count' /\ ~Owned(k)' => InOrder(DATA, StartOf(k))
    <3>1. k >= read_count' => k >= read_count
      BY <1>2 DEF Arrays
    <3>2. k < read_count' /\ k # read_count => k < read_count
      BY <1>2 DEF Arrays
    <3> QED
      BY <2>1, <2>2, <3>1, <3>2 DEF Sorting, DataInv
  <2>4. Untouched(DATA, array[c])
    BY <1>2, <1>6 DEF Sorting, DataInv
  <2>5. \A d \in Cores : pc'[d] \in {"get_unlock", "sort"} => pc'[d] = pc[d] \/ d = c
    BY <1>1
  <2> QED
    BY <1>0, <1>1, <1>3, <2>3, <2>4, <2>5
       DEF Sorting, DataInv, Untouched, SameElements, DATA_LEN
<1> QED
  BY <1>1, <1>4, <1>5, <1>8, <1>9 DEF Sorting

\* The core leaves the lock with its array and begins to sort it.
LEMMA GetUnlockInv ==
  ASSUME Types, Fits, Sorting, NEW c \in Cores, GetUnlock(c)
  PROVE  Types' /\ Sorting'
<1> USE DEF GetUnlock, Unlock, dataVars, poolVars
<1>0. /\ pc[c] = "get_unlock" /\ pc' = [pc EXCEPT ![c] = "sort"]
      /\ global_lock' = 0
      /\ i' = [i EXCEPT ![c] = 0] /\ j' = [j EXCEPT ![c] = 0]
      /\ UNCHANGED <<reg, ret, start_barrier_mem, end_barrier_mem>>
      /\ UNCHANGED <<DATA, original, read_index, read_count, array>>
  OBVIOUS
<1> HIDE DEF GetUnlock, Unlock
<1>1. /\ Roles' /\ LockHeld(Critical)' /\ EndInv'
      /\ Started /\ Started'
      /\ pc'[c] = "sort"
      /\ \A d \in Cores : d # c => pc[d] \notin Critical /\ pc'[d] = pc[d]
  <2>1. pc[c] \in PoolCritical
    BY <1>0 DEF PoolCritical
  <2>2. \A d \in Cores : d # c => reg'[d] = reg[d]
    BY <1>0
  <2> QED
    BY ONLY <1>0, <2>1, <2>2, UnderLock, Types, Sorting, c \in Cores
<1>2. i'[c] = 0 /\ j'[c] = 0 /\ \A d \in Cores : d # c => i'[d] = i[d] /\ j'[d] = j[d]
  BY <1>0 DEF Types
<1>3. Types'
  <2>1. McTypeOK(Labels)'
    BY <1>0 DEF Types, McTypeOK, Labels
  <2>2. i' \in [Cores -> 0 .. ARRAY_LEN] /\ j' \in [Cores -> 0 .. ARRAY_LEN]
    <3>1. 0 \in 0 .. ARRAY_LEN
      BY ArrayBounds
    <3> QED
      BY <1>0, <3>1 DEF Types
  <2> QED
    BY <1>0, <2>1, <2>2, DataTypeKept DEF Types
<1>4. PoolInv'
  <2>1. HalfTaken' <=> HalfTaken
    BY <1>0, <1>1 DEF HalfTaken
  <2>2. read_index' = StartOf(IF HalfTaken' THEN read_count' + 1 ELSE read_count')
    BY <1>0, <2>1 DEF Sorting, PoolInv
  <2> QED
    BY <1>0, <1>1, <2>2 DEF Sorting, PoolInv, Taking
<1>5. \A d \in Cores : /\ pc'[d] \in Owning <=> pc[d] \in Owning
                       /\ pc'[d] \in Taking <=> pc[d] \in Taking
  BY <1>0, <1>1 DEF Owning, Taking
<1>6. OwnerInv'
  BY <1>0, <1>5 DEF Sorting, OwnerInv
<1>7. DataInv'
  <2>1. \A k : Owned(k)' <=> Owned(k)
    BY <1>0, <1>5 DEF Owned
  <2>2. Bubble(DATA, array[c], 0, 0)
    <3>1. PICK k \in Arrays : array[c] = StartOf(k)
      BY <1>0 DEF Sorting, OwnerInv, Owning
    <3>2. array[c] \in Nat /\ \A x \in Slice(array[c]) : DATA[x] \in Int
      BY <3>1, ArraysApart, OwnedSlice
    <3> QED
      BY <3>2, BubbleBegins
  <2>3. ASSUME NEW d \in Cores
        PROVE  /\ pc'[d] = "get_unlock" => Untouched(DATA, array[d])
               /\ pc'[d] = "sort" => Bubble(DATA, array[d], i'[d], j'[d])
    <3>1. CASE d = c
      BY <1>1, <1>2, <2>2, <3>1
    <3>2. CASE d # c
      BY <1>1, <1>2, <3>2 DEF Sorting, DataInv
    <3> QED
      BY <3>1, <3>2
  <2> QED
    BY <1>0, <2>1, <2>3 DEF Sorting, DataInv, Untouched, SameElements, DATA_LEN
<1> QED
  BY <1>1, <1>3, <1>4, <1>6, <1>7 DEF Sorting

-----------------------------------------------------------------------------
(* sortArray *)

\* What the invariant says outside DATA and the counters of the pool is not
\* disturbed by core c, which stays outside the lock.
LEMMA OutsideLock ==
  ASSUME Types, Sorting, NEW c \in Cores, NEW l,
         pc[c] \in {"sort", "get_lock"}, l \in {"sort", "get_lock"},
         pc' = [pc EXCEPT ![c] = l],
         UNCHANGED <<reg, ret, global_lock, start_barrier_mem, end_barrier_mem,
                     read_index, read_count>>
  PROVE  /\ McTypeOK(Labels)' /\ Roles' /\ LockHeld(Critical)' /\ EndInv' /\ PoolInv'
         /\ pc'[c] = l
         /\ \A d \in Cores : d # c => pc'[d] = pc[d]
<1>1. McTypeOK(Labels)'
  BY DEF Types, McTypeOK, Labels
<1>2. pc'[c] = l /\ \A d \in Cores : d # c => pc'[d] = pc[d]
  BY DEF Types, McTypeOK
<1>3. Roles'
  BY LoopStep DEF Sorting
<1>4. LockHeld(Critical)'
  <2>1. pc[c] \notin Critical /\ l \notin Critical
    BY DEF Critical, PoolCritical
  <2> QED
    BY <2>1, LockStep DEF Sorting, Types
<1>5. EndInv'
  BY QuietStep DEF Sorting, Types
<1>6. PoolInv'
  <2>1. HalfTaken' <=> HalfTaken
    BY <1>2 DEF HalfTaken
  <2>2. read_index' = StartOf(IF HalfTaken' THEN read_count' + 1 ELSE read_count')
    BY <2>1 DEF Sorting, PoolInv
  <2> QED
    BY <1>2, <2>2 DEF Sorting, PoolInv, Taking, Started
<1> QED
  BY <1>1, <1>2, <1>3, <1>4, <1>5, <1>6

\* A comparison of the sort, and the exchange that may follow it.
LEMMA SortStepInv ==
  ASSUME Types, Fits, Sorting, NEW c \in Cores, SortStep(c)
  PROVE  Types' /\ Sorting'
<1> USE DEF SortStep, mcVars, poolVars
<1> DEFINE a == array[c]
           x == a + j[c]
<1>0. /\ pc[c] = "sort" /\ i[c] < ARRAY_LEN - 1
      /\ \/ /\ j[c] < ARRAY_LEN - i[c] - 1
            /\ DATA' = IF DATA[x] > DATA[x + 1] THEN Swapped(DATA, x, x + 1) ELSE DATA
            /\ i' = i /\ j' = [j EXCEPT ![c] = j[c] + 1]
         \/ /\ ~(j[c] < ARRAY_LEN - i[c] - 1)
            /\ DATA' = DATA
            /\ i' = [i EXCEPT ![c] = i[c] + 1] /\ j' = [j EXCEPT ![c] = 0]
      /\ UNCHANGED <<pc, reg, ret, global_lock, start_barrier_mem, end_barrier_mem>>
      /\ UNCHANGED <<original, read_index, read_count, array>>
  OBVIOUS
<1> HIDE DEF SortStep
<1>1. PICK k \in Arrays : a = StartOf(k)
  BY <1>0 DEF Sorting, OwnerInv, Owning
<1>2. /\ a \in Nat /\ Slice(a) \subseteq DOMAIN DATA
      /\ \A y \in Slice(a) : DATA[y] \in Values /\ DATA[y] \in Int
      /\ IsFiniteSet(Slice(a))
      /\ Slice(a) \subseteq 0 .. total_array_len - 1
  BY <1>1, ArraysApart, OwnedSlice
<1>3. Bubble(DATA, a, i[c], j[c])
  BY <1>0 DEF Sorting, DataInv
<1> HIDE DEF a
<1>4. /\ McTypeOK(Labels)' /\ Roles' /\ LockHeld(Critical)' /\ EndInv' /\ PoolInv'
  <2>1. pc' = [pc EXCEPT ![c] = "sort"]
    BY <1>0 DEF Types, McTypeOK
  <2> QED
    BY <1>0, <2>1, OutsideLock
<1>5. i[c] \in Nat /\ j[c] \in Nat /\ i[c] <= ARRAY_LEN - 1 /\ ARRAY_LEN \in Nat
  BY <1>3, ArrayBounds DEF Bubble
<1>6. i'[c] \in 0 .. ARRAY_LEN /\ j'[c] \in 0 .. ARRAY_LEN
      /\ \A d \in Cores : d # c => i'[d] = i[d] /\ j'[d] = j[d]
  BY <1>0, <1>5 DEF Types
<1>7. /\ Bubble(DATA', a, i'[c], j'[c])
      /\ DOMAIN DATA' = DOMAIN DATA
      /\ \A y \in DOMAIN DATA : DATA'[y] \in Values
      /\ \A y \in DOMAIN DATA : y \notin Slice(a) => DATA'[y] = DATA[y]
      /\ SameElements(DATA, a) => SameElements(DATA', a)
  <2>0. \A y \in DOMAIN DATA : DATA[y] \in Values
    BY DEF Types, DataType
  <2>1. CASE j[c] < ARRAY_LEN - i[c] - 1
    <3>1. /\ DATA' = IF DATA[x] > DATA[x + 1] THEN Swapped(DATA, x, x + 1) ELSE DATA
          /\ i'[c] = i[c] /\ j'[c] = j[c] + 1
      BY <1>0, <1>5, <2>1 DEF Types
    <3>2. /\ Bubble(DATA', a, i[c], j[c] + 1)
          /\ DOMAIN DATA' = DOMAIN DATA
          /\ x \in Slice(a) /\ x + 1 \in Slice(a)
          /\ \A y \in DOMAIN DATA : y \notin Slice(a) => DATA'[y] = DATA[y]
      BY ONLY <1>2, <1>3, <2>1, <3>1, BubbleCompares
    <3>3. CASE DATA[x] > DATA[x + 1]
      <4>1. DATA' = Swapped(DATA, x, x + 1)
        BY <3>1, <3>3
      <4>2. \A y \in DOMAIN DATA : DATA'[y] \in Values
        BY ONLY <1>2, <2>0, <3>2, <4>1 DEF Swapped
      <4>4. SameElements(DATA, a) => SameElements(DATA', a)
        BY ONLY <1>2, <3>2, <4>1, SwapKeeps
      <4> QED
        BY <3>1, <3>2, <4>2, <4>4
    <3>4. CASE ~(DATA[x] > DATA[x + 1])
      BY <2>0, <3>1, <3>2, <3>4
    <3> QED
      BY <3>3, <3>4
  <2>2. CASE ~(j[c] < ARRAY_LEN - i[c] - 1)
    <3>1. DATA' = DATA /\ i'[c] = i[c] + 1 /\ j'[c] = 0
      BY <1>0, <2>2 DEF Types
    <3>2. Bubble(DATA, a, i[c] + 1, 0)
      BY <1>0, <1>2, <1>3, <2>2, BubbleRises
    <3> QED
      BY <2>0, <3>1, <3>2
  <2> QED
    BY <2>1, <2>2
<1>8. Types'
  <2>1. i' \in [Cores -> 0 .. ARRAY_LEN] /\ j' \in [Cores -> 0 .. ARRAY_LEN]
    BY <1>0, <1>6 DEF Types
  <2>2. DataType'
    <3>1. DATA_LEN' = DATA_LEN
      BY <1>0 DEF DATA_LEN
    <3>2. DATA' \in [0 .. DATA_LEN - 1 -> Values]
      <4>1. DATA \in [0 .. DATA_LEN - 1 -> Values]
        BY DEF Types, DataType
      <4>2. DATA' = [y \in DOMAIN DATA' |-> DATA'[y]]
        BY <1>0, <4>1 DEF Swapped
      <4> QED
        BY ONLY <1>7, <4>1, <4>2
    <3> QED
      BY <1>0, <3>1, <3>2 DEF Types, DataType
  <2> QED
    BY <1>0, <1>4, <2>1, <2>2 DEF Types, total_arrays
<1>9. OwnerInv'
  BY <1>0 DEF Sorting, OwnerInv
<1>10. DataInv'
  <2>1. \A m : Owned(m)' <=> Owned(m)
    BY <1>0 DEF Owned
  <2>2. Owned(k)
    BY <1>0, <1>1 DEF Owned, Owning, a
  <2>3. k < read_count
    BY <1>0, <1>1, ArraysApart DEF Sorting, OwnerInv, Owning, Taking, a
  <2>4. ASSUME NEW m \in Arrays, m # k
        PROVE  /\ Slice(StartOf(m)) \subseteq DOMAIN DATA
               /\ \A y \in Slice(StartOf(m)) : DATA'[y] = DATA[y]
    <3>1. Slice(StartOf(m)) \subseteq DOMAIN DATA
      BY OwnedSlice
    <3>2. Slice(StartOf(m)) \cap Slice(a) = {}
      BY <1>1, <2>4, ArraysApart
    <3> QED
      BY <1>7, <3>1, <3>2
  <2>5. ASSUME NEW m \in Arrays
        PROVE  /\ SameElements(DATA', StartOf(m))
               /\ m >= read_count => Untouched(DATA', StartOf(m))
               /\ m < read_count /\ ~Owned(m) => InOrder(DATA', StartOf(m))
    <3>1. CASE m = k
      <4>1. ~(m >= read_count)
        BY <2>3, <3>1, ArrayBounds DEF Arrays, Types
      <4>2. SameElements(DATA, StartOf(m))
        BY DEF Sorting, DataInv
      <4> QED
        BY <1>1, <1>7, <2>2, <3>1, <4>1, <4>2
    <3>2. CASE m # k
      <4>1. \A y \in Slice(StartOf(m)) : DATA'[y] = DATA[y]
        BY <2>4, <3>2
      <4>2. SameElements(DATA, StartOf(m)) => SameElements(DATA', StartOf(m))
        BY ONLY <4>1 DEF SameElements
      <4>3. Untouched(DATA, StartOf(m)) => Untouched(DATA', StartOf(m))
        BY ONLY <4>1 DEF Untouched
      <4>4. InOrder(DATA, StartOf(m)) => InOrder(DATA', StartOf(m))
        BY ONLY <4>1 DEF InOrder
      <4> QED
        BY <4>2, <4>3, <4>4 DEF Sorting, DataInv
    <3> QED
      BY <3>1, <3>2
  <2>6. ASSUME NEW d \in Cores, pc[d] \in {"get_unlock", "sort"}
        PROVE  /\ pc[d] = "get_unlock" => Untouched(DATA', array[d])
               /\ pc[d] = "sort" => Bubble(DATA', array[d], i'[d], j'[d])
    <3>1. CASE d = c
      BY <1>0, <1>7, <3>1 DEF a
    <3>2. CASE d # c
      <4>1. PICK m \in Arrays : array[d] = StartOf(m)
        BY <2>6 DEF Sorting, OwnerInv, Owning
      <4>2. m # k
        BY <1>0, <1>1, <2>6, <3>2, <4>1 DEF Sorting, OwnerInv, Owning, a
      <4>3. \A y \in Slice(array[d]) : DATA'[y] = DATA[y]
        BY <2>4, <4>1, <4>2
      <4>4. Untouched(DATA, array[d]) => Untouched(DATA', array[d])
        BY ONLY <4>3 DEF Untouched
      <4>5. Bubble(DATA, array[d], i[d], j[d]) => Bubble(DATA', array[d], i[d], j[d])
        <5>1. array[d] \in Nat
          BY <4>1, ArraysApart
        <5> QED
          BY ONLY <4>3, <5>1, BubbleKept
      <4> QED
        BY <1>6, <3>2, <4>4, <4>5 DEF Sorting, DataInv
    <3> QED
      BY <3>1, <3>2
  <2>7. ASSUME NEW y \in total_array_len .. DATA_LEN - 1
        PROVE  DATA'[y] = original[y]
    <3>1. y \in DOMAIN DATA
      BY ArrayBounds DEF Types, DataType
    <3>2. y \notin Slice(a)
      BY <1>2, ArrayBounds
    <3> QED
      BY <1>7, <3>1, <3>2 DEF Sorting, DataInv
  <2>8. DATA_LEN' = DATA_LEN /\ total_array_len' = total_array_len /\ Arrays' = Arrays
    BY <1>0 DEF DATA_LEN, total_array_len, total_arrays, Arrays
  <2> QED
    BY <1>0, <2>1, <2>5, <2>6, <2>7, <2>8 DEF DataInv, Untouched, SameElements
<1> QED
  BY <1>4, <1>8, <1>9, <1>10 DEF Sorting

\* The core gives its array back, in order.
LEMMA SortDoneInv ==
  ASSUME Types, Fits, Sorting, NEW c \in Cores, SortDone(c)
  PROVE  Types' /\ Sorting'
<1> USE DEF SortDone, dataVars, poolVars
<1>0. /\ pc[c] = "sort" /\ pc' = [pc EXCEPT ![c] = "get_lock"]
      /\ i[c] >= ARRAY_LEN - 1
      /\ array' = [array EXCEPT ![c] = NULL]
      /\ UNCHANGED <<reg, ret, global_lock, start_barrier_mem, end_barrier_mem>>
      /\ UNCHANGED <<DATA, original, read_index, read_count, i, j>>
  OBVIOUS
<1> HIDE DEF SortDone
<1>1. /\ McTypeOK(Labels)' /\ Roles' /\ LockHeld(Critical)' /\ EndInv' /\ PoolInv'
      /\ pc'[c] = "get_lock"
      /\ \A d \in Cores : d # c => pc'[d] = pc[d]
  BY <1>0, OutsideLock
<1>2. Types'
  BY <1>0, <1>1, DataTypeKept DEF Types, total_arrays
<1>3. \A d \in Cores : pc'[d] \in Owning =>
        d # c /\ pc'[d] = pc[d] /\ array'[d] = array[d]
  BY <1>0, <1>1 DEF Owning, Types
<1>4. OwnerInv'
  BY <1>0, <1>3 DEF Sorting, OwnerInv
<1>5. InOrder(DATA, array[c])
  <2>1. PICK k \in Arrays : array[c] = StartOf(k)
    BY <1>0 DEF Sorting, OwnerInv, Owning
  <2>2. array[c] \in Nat /\ \A x \in Slice(array[c]) : DATA[x] \in Int
    BY <2>1, ArraysApart, OwnedSlice
  <2>3. Bubble(DATA, array[c], i[c], j[c])
    BY <1>0 DEF Sorting, DataInv
  <2> QED
    BY <1>0, <2>2, <2>3, BubbleEnds
<1>6. DataInv'
  <2>1. \A k : Owned(k) => Owned(k)' \/ array[c] = StartOf(k)
    <3>1. \A d \in Cores : d # c => pc'[d] = pc[d] /\ array'[d] = array[d]
      BY <1>0, <1>1 DEF Types
    <3> QED
      BY <3>1 DEF Owned
  <2>2. ASSUME NEW k \in Arrays
        PROVE  k < read_count /\ ~Owned(k)' => InOrder(DATA, StartOf(k))
    BY <1>5, <2>1 DEF Sorting, DataInv
  <2>3. \A d \in Cores : pc'[d] \in {"get_unlock", "sort"} =>
          pc'[d] = pc[d] /\ array'[d] = array[d]
    BY <1>3 DEF Owning
  <2> QED
    BY <1>0, <2>2, <2>3 DEF Sorting, DataInv, Untouched, SameElements, DATA_LEN
<1> QED
  BY <1>1, <1>2, <1>4, <1>6 DEF Sorting

-----------------------------------------------------------------------------
(* main *)

\* Core 0 clears the lock and the counters, which is no change, and publishes
\* the start; a core that sees it goes to the loop.
LEMMA StartInv ==
  ASSUME Types, Fits, Sorting, NEW c \in Cores, Start(c)
  PROVE  Types' /\ Sorting'
<1> USE DEF Start, ClearLock, Publish, AwaitStart, ClearCounters, dataVars, poolVars,
            coreVars
<1>0. PICK l \in {"init_data", "publish", "get_lock"} :
        /\ pc' = [pc EXCEPT ![c] = l]
        /\ \/ /\ c = 0 /\ l = "init_data" /\ pc[c] = "setup"
              /\ global_lock' = 0
              /\ UNCHANGED <<start_barrier_mem, end_barrier_mem, read_index, read_count>>
           \/ /\ c = 0 /\ l = "publish" /\ pc[c] = "init_data"
              /\ read_index' = 0 /\ read_count' = 0 /\ end_barrier_mem' = 0
              /\ UNCHANGED <<global_lock, start_barrier_mem>>
           \/ /\ c = 0 /\ l = "get_lock" /\ pc[c] = "publish"
              /\ start_barrier_mem' = "deadbeef"
              /\ UNCHANGED <<global_lock, end_barrier_mem, read_index, read_count>>
           \/ /\ c # 0 /\ l = "get_lock" /\ pc[c] = "await" /\ Started
              /\ UNCHANGED <<global_lock, start_barrier_mem, end_barrier_mem,
                            read_index, read_count>>
  BY DEF Started
<1>1. /\ pc[c] \in SetupLabels
      /\ UNCHANGED <<reg, ret, DATA, original, array, i, j>>
  OBVIOUS
<1> HIDE DEF Start, ClearLock, Publish, AwaitStart, ClearCounters
<1>2. pc'[c] = l /\ \A d \in Cores : d # c => pc'[d] = pc[d]
  BY <1>0 DEF Types, McTypeOK
<1>3. c = 0 => ~Started /\ \A d \in Cores : pc[d] \in SetupLabels
  BY <1>1 DEF Sorting, Roles
<1>4. UNCHANGED <<read_index, read_count, end_barrier_mem>>
  <2>1. CASE l = "publish"
    <3>1. \A d \in Cores : pc[d] \in SetupLabels
      BY <1>0, <1>3, <2>1
    <3>2. read_count = 0
      BY <1>0, <1>3, <2>1 DEF Sorting, PoolInv
    <3>3. read_index = StartOf(0)
      BY <3>1, <3>2 DEF Sorting, PoolInv, HalfTaken
    <3>4. EndedCores = {}
      BY <3>1 DEF EndedCores
    <3>5. end_barrier_mem = 0
      BY <3>4, CountNone DEF Sorting, EndInv
    <3> QED
      BY <1>0, <2>1, <3>2, <3>3, <3>5, ArrayBounds
  <2>2. CASE l # "publish"
    BY <1>0, <2>2
  <2> QED
    BY <2>1, <2>2
<1>5. Types'
  <2>1. McTypeOK(Labels)'
    BY <1>0, <1>1, <1>4 DEF Types, McTypeOK, Labels
  <2> QED
    BY <1>1, <1>4, <2>1, DataTypeKept DEF Types, total_arrays, dataVars
<1>6. Roles'
  BY <1>0, <1>1, <1>2 DEF Sorting, Roles, Started
<1>7. LockHeld(Critical)' /\ EndInv'
  <2>1. /\ pc[c] \notin Critical /\ l \notin Critical
        /\ c = 0 => \A d \in Cores : pc[d] \notin Critical
    BY <1>1, <1>3 DEF Critical, PoolCritical
  <2>2. LockHeld(Critical)'
    BY <1>0, <2>1, LockStep DEF Sorting, Types
  <2>3. /\ pc[c] \notin EndCritical /\ l \notin EndCritical
        /\ pc[c] \notin Joined /\ l \notin Joined
        /\ c = 0 => \A d \in Cores : pc[d] \notin EndCritical
    BY <1>1, <1>3
  <2>4. EndInv'
    BY <1>0, <1>1, <1>4, <2>3, QuietStep DEF Sorting, Types
  <2> QED
    BY <2>2, <2>4
<1>8. PoolInv'
  <2>1. HalfTaken' <=> HalfTaken
    BY <1>1, <1>2 DEF HalfTaken
  <2>2. read_index' = StartOf(IF HalfTaken' THEN read_count' + 1 ELSE read_count')
    BY <1>4, <2>1 DEF Sorting, PoolInv
  <2>3. ~Started' => ~Started
    BY <1>0 DEF Started
  <2> QED
    BY <1>0, <1>1, <1>2, <1>4, <2>2, <2>3 DEF Sorting, PoolInv, Taking
<1>9. OwnerInv' /\ DataInv'
  <2>1. pc[c] \notin Owning /\ l \notin Owning
    BY <1>0, <1>1 DEF Owning
  <2> QED
    BY <1>0, <1>1, <1>4, <2>1, ElsewhereInv DEF Sorting
<1> QED
  BY <1>5, <1>6, <1>7, <1>8, <1>9 DEF Sorting

\* The join.
LEMMA FinishInv ==
  ASSUME Types, Fits, Sorting, NEW c \in Cores, Finish(c)
  PROVE  Types' /\ Sorting'
<1> USE DEF dataVars, poolVars, coreVars
<1>0. UNCHANGED <<DATA, original, read_index, read_count, array, i, j>>
  BY DEF Finish
<1>1. CASE EndBarrier(c)
  <2>0. {"end_lock", "join", "idle"} \union EndCritical \subseteq Labels
    BY DEF Labels, Critical
  <2>1. /\ McTypeOK(Labels)'
        /\ \E from \in {"end_lock"} \union EndCritical,
              to \in EndCritical \union {"join", "idle"} :
             /\ Goto(c, from, to)
             /\ to = "join" => c = 0
             /\ to = "idle" => c # 0
             /\ from \in Joined => to \in Joined
        /\ UNCHANGED <<ret, start_barrier_mem>>
    BY <1>1, <2>0, EndBarrierShape DEF Types
  <2>2. PICK l \in EndCritical \union {"join", "idle"} :
          /\ pc[c] \in {"end_lock"} \union EndCritical
          /\ pc' = [pc EXCEPT ![c] = l]
          /\ l = "join" => c = 0
          /\ l = "idle" => c # 0
          /\ pc[c] \in Joined => l \in Joined
    BY <2>1
  <2>3. pc'[c] = l /\ \A d \in Cores : d # c => pc'[d] = pc[d]
    BY <2>2 DEF Types, McTypeOK
  <2>4. \A d \in Cores : d # c => reg'[d] = reg[d]
    BY <1>1 DEF EndBarrier, EndLock, EndLoad, EndStore, EndUnlock, LoadReg, Types,
            McTypeOK
  <2>5. Types'
    BY <1>0, <2>1, DataTypeKept DEF Types, total_arrays
  <2>6. Roles'
    BY <2>1, <2>2, <2>3 DEF Sorting, Roles, Started
  <2>7. LockHeld(Critical)'
    <3>1. \/ pc[c] \in Critical /\ l \in Critical /\ global_lock' = global_lock
          \/ global_lock = 0 /\ global_lock' = 1
          \/ pc[c] \in Critical /\ l \notin Critical
      <4>1. CASE EndLock(c)
        BY <4>1 DEF EndLock, Lock
      <4>2. CASE EndLoad(c) \/ EndStore(c)
        BY <2>3, <4>2 DEF EndLoad, EndStore, LoadReg, Critical
      <4>3. CASE EndUnlock(c)
        BY <2>3, <4>3 DEF EndUnlock, Unlock, Critical, PoolCritical, Types, McTypeOK
      <4> QED
        BY <1>1, <4>1, <4>2, <4>3 DEF EndBarrier
    <3> QED
      BY <2>2, <3>1, LockStep DEF Sorting, Types
  <2>8. EndInv'
    BY <1>1, EndBarrierStep DEF Sorting, Types
  <2>9. PoolInv'
    <3>1. HalfTaken' <=> HalfTaken
      BY <2>2, <2>3 DEF HalfTaken
    <3>2. read_index' = StartOf(IF HalfTaken' THEN read_count' + 1 ELSE read_count')
      BY <1>0, <3>1 DEF Sorting, PoolInv
    <3> QED
      BY <1>0, <2>1, <2>2, <2>3, <2>4, <3>2 DEF Sorting, PoolInv, Taking, Started
  <2>10. OwnerInv' /\ DataInv'
    <3>1. pc[c] \notin Owning /\ l \notin Owning
      BY <2>2 DEF Owning
    <3> QED
      BY <1>0, <2>2, <3>1, ElsewhereInv DEF Sorting
  <2> QED
    BY <2>5, <2>6, <2>7, <2>8, <2>9, <2>10 DEF Sorting
<1>2. CASE c = 0 /\ Join
  <2>1. /\ c = 0 /\ pc[0] = "join" /\ pc' = [pc EXCEPT ![0] = "returned"]
        /\ ret' = [ret EXCEPT ![0] = 0]
        /\ end_barrier_mem = NumCores
        /\ UNCHANGED <<reg, global_lock, start_barrier_mem, end_barrier_mem>>
    BY <1>2 DEF Join, Return
  <2>2. pc'[0] = "returned" /\ \A d \in Cores : d # 0 => pc'[d] = pc[d]
    BY <2>1 DEF Types, McTypeOK
  <2>3. \A d \in Cores : pc[d] \in Joined
    BY <2>1, EndBarrierMeansAll DEF Sorting
  <2>4. Types'
    <3>1. McTypeOK(Labels)'
      BY <2>1 DEF Types, McTypeOK, Labels
    <3> QED
      BY <1>0, <3>1, DataTypeKept DEF Types, total_arrays
  <2>5. Roles'
    BY <2>1, <2>2, <2>3 DEF Sorting, Roles, Started
  <2>6. LockHeld(Critical)' /\ EndInv'
    <3>1. pc[0] \notin Critical /\ "returned" \notin Critical
      BY <2>1 DEF Critical, PoolCritical
    <3>2. LockHeld(Critical)'
      BY <2>1, <3>1, LockStep DEF Sorting, Types
    <3>3. EndInv'
      BY <2>1, QuietStep DEF Sorting, Types
    <3> QED
      BY <3>2, <3>3
  <2>7. PoolInv'
    <3>1. HalfTaken' <=> HalfTaken
      BY <2>1, <2>2 DEF HalfTaken
    <3>2. read_index' = StartOf(IF HalfTaken' THEN read_count' + 1 ELSE read_count')
      BY <1>0, <3>1 DEF Sorting, PoolInv
    <3> QED
      BY <1>0, <2>1, <2>2, <3>2 DEF Sorting, PoolInv, Taking, Started
  <2>8. OwnerInv' /\ DataInv'
    <3>1. pc[0] \notin Owning /\ "returned" \notin Owning
      BY <2>1 DEF Owning
    <3> QED
      BY <1>0, <2>1, <3>1, ElsewhereInv DEF Sorting
  <2> QED
    BY <2>4, <2>5, <2>6, <2>7, <2>8 DEF Sorting
<1> QED
  BY <1>1, <1>2 DEF Finish

\* Without room in DATA a core can only return 1.
LEMMA TooBigInv ==
  ASSUME Types, ~Fits, Refused, NEW c \in Cores, TooBig(c)
  PROVE  Types' /\ Refused'
<1> USE DEF TooBig, Return, dataVars, poolVars, coreVars
<1>1. /\ pc' = [pc EXCEPT ![c] = "returned"] /\ pc[c] = EntryPoint(c)
      /\ ret' = [ret EXCEPT ![c] = 1]
      /\ UNCHANGED <<reg, global_lock, start_barrier_mem, end_barrier_mem>>
      /\ UNCHANGED <<DATA, original, read_index, read_count, array, i, j>>
  OBVIOUS
<1>2. Types'
  <2>1. McTypeOK(Labels)'
    BY <1>1 DEF Types, McTypeOK, Labels
  <2> QED
    BY <1>1, <2>1, DataTypeKept DEF Types, total_arrays
<1>3. Refused'
  BY <1>1 DEF Refused, Types, McTypeOK, Started, EntryPoint
<1> QED
  BY <1>2, <1>3

\* Every step preserves the invariant.
LEMMA NextInv == Inv /\ [Next]_vars => Inv'
<1> SUFFICES ASSUME Inv, [Next]_vars PROVE Inv'
  OBVIOUS
<1>1. CASE UNCHANGED vars
  <2> USE <1>1 DEF vars, mcVars, dataVars, poolVars, coreVars
  <2>1. Types' /\ Fits' = Fits
    BY DataTypeKept DEF Inv, Types, McTypeOK, total_arrays, Fits, DATA_LEN
  <2>2. Refused => Refused'
    BY DEF Refused, Started
  <2>3. Sorting => Sorting'
    <3>1. Roles /\ LockHeld(Critical) /\ EndInv => (Roles /\ LockHeld(Critical) /\ EndInv)'
      BY DEF Roles, Started, LockHeld, EndInv, EndedCores
    <3>2. PoolInv /\ OwnerInv => (PoolInv /\ OwnerInv)'
      BY DEF PoolInv, HalfTaken, OwnerInv, Started
    <3>3. \A k : Owned(k)' <=> Owned(k)
      BY DEF Owned
    <3>4. DataInv => DataInv'
      BY <3>3 DEF DataInv, Untouched, SameElements, DATA_LEN
    <3> QED
      BY <3>1, <3>2, <3>4 DEF Sorting
  <2> QED
    BY <2>1, <2>2, <2>3 DEF Inv
<1>2. ASSUME NEW c \in Cores, Core(c) PROVE Inv'
  <2>1. UNCHANGED original
    BY <1>2 DEF Core, TooBig, Start, getNextArray, SortStep, SortDone, Finish, GetLock,
         GetTest, GetPtr, IndexLoad, IndexStore, CountLoad, CountStore, GetUnlock,
         NoneUnlock, ClearCounters, dataVars
  <2>2. Fits' <=> Fits
    BY <2>1 DEF Fits, DATA_LEN, total_array_len, total_arrays
  <2>3. CASE Fits
    BY <1>2, <2>2, <2>3, LookInv, GetPtrInv, IndexInv, CountStoreInv, GetUnlockInv,
       SortStepInv, SortDoneInv, StartInv, FinishInv
       DEF Inv, Core, getNextArray, TooBig
  <2>4. CASE ~Fits
    <3>1. pc[c] \in {"setup", "await", "returned"}
      BY <2>4 DEF Inv, Refused, EntryPoint
    <3>2. TooBig(c)
      BY <1>2, <2>4, <3>1
         DEF Core, Start, getNextArray, SortStep, SortDone, Finish, GetLock, GetTest,
             GetPtr, IndexLoad, IndexStore, CountLoad, CountStore, GetUnlock,
             NoneUnlock, LoadReg, Lock, Unlock, EndBarrier, EndLock, EndLoad, EndStore,
             EndUnlock, Join, Return
    <3> QED
      BY <2>2, <2>4, <3>2, TooBigInv DEF Inv
  <2> QED
    BY <2>3, <2>4
<1> QED
  BY <1>1, <1>2 DEF Next, Terminated

-----------------------------------------------------------------------------
(* Theorems *)

\* The invariant, in every reachable state.
THEOREM Invariance == Spec => []Inv
BY InitInv, NextInv, PTL DEF Spec

\* No two cores work on the same element of DATA, and an array is taken as the
\* program was linked, once (getNextArray hands out disjoint arrays).
THEOREM OneOwnerHolds == Spec => []OneOwner
<1>1. Inv => OneOwner
  <2> SUFFICES ASSUME Inv, NEW c \in Cores, pc[c] \in Owning
               PROVE  /\ array[c] # NULL
                      /\ Slice(array[c]) \subseteq 0 .. total_array_len - 1
                      /\ pc[c] # "sort" => \A x \in Slice(array[c]) : DATA[x] = original[x]
                      /\ \A d \in Cores \ {c} :
                           pc[d] \in Owning => Slice(array[c]) \cap Slice(array[d]) = {}
    BY DEF OneOwner
  <2>1. Types /\ PoolInv /\ OwnerInv /\ DataInv
    BY DEF Inv, Sorting, Refused, EntryPoint, Owning
  <2>2. PICK k \in Arrays :
          /\ array[c] = StartOf(k)
          /\ IF pc[c] \in Taking THEN k = read_count ELSE k < read_count
    BY <2>1 DEF OwnerInv
  <2>3. array[c] # NULL /\ Slice(array[c]) \subseteq 0 .. total_array_len - 1
    BY <2>2, ArraysApart
  <2>4. ASSUME pc[c] \in Taking PROVE Untouched(DATA, array[c])
    <3>1. Untouched(DATA, StartOf(k))
      <4>1. k >= read_count
        BY <2>1, <2>2, <2>4 DEF Types
      <4> QED
        BY <2>1, <4>1 DEF DataInv
    <3> QED
      BY <2>2, <3>1
  <2>5. ASSUME pc[c] \notin Taking, pc[c] # "sort" PROVE Untouched(DATA, array[c])
    <3>1. pc[c] = "get_unlock"
      BY <2>5 DEF Owning, Taking
    <3> QED
      BY <2>1, <3>1 DEF DataInv
  <2>6. ASSUME NEW d \in Cores \ {c}, pc[d] \in Owning
        PROVE  Slice(array[c]) \cap Slice(array[d]) = {}
    <3>1. PICK m \in Arrays : array[d] = StartOf(m)
      BY <2>1, <2>6 DEF OwnerInv
    <3>2. m # k
      BY <2>1, <2>2, <2>6, <3>1 DEF OwnerInv
    <3> QED
      BY <2>2, <3>1, <3>2, ArraysApart
  <2> QED
    BY <2>3, <2>4, <2>5, <2>6 DEF Untouched
<1> QED
  BY <1>1, Invariance, PTL

\* When core 0 returns 0 every array of DATA is in order and holds the elements
\* it began with, and the rest is untouched; a DATA that is too short is left
\* alone and refused on every core (main of mc_work_share_sort.c).
THEOREM SortedOrRefusedHolds == Spec => []SortedOrRefused
<1>1. Inv => SortedOrRefused
  <2> SUFFICES ASSUME Inv PROVE SortedOrRefused
    OBVIOUS
  <2>1. ASSUME ret[0] = 0
        PROVE  /\ \A k \in Arrays : SortedArray(k)
               /\ \A x \in total_array_len .. DATA_LEN - 1 : DATA[x] = original[x]
    <3>1. Types /\ Roles /\ PoolInv /\ DataInv
      BY <2>1 DEF Inv, Sorting, Refused
    <3>2. \A c \in Cores : pc[c] \in Joined
      BY <2>1, <3>1 DEF Roles
    <3>3. read_count = total_arrays
      BY <3>1, <3>2 DEF PoolInv
    <3>4. ASSUME NEW k \in Arrays PROVE SortedArray(k)
      <4>1. ~Owned(k)
        BY <3>2 DEF Owned, Owning
      <4>2. k < read_count
        BY <3>3, ArrayBounds DEF Arrays
      <4>3. InOrder(DATA, StartOf(k)) /\ SameElements(DATA, StartOf(k))
        BY <3>1, <4>1, <4>2 DEF DataInv
      <4> QED
        BY <4>3 DEF SortedArray, InOrder, SameElements, StartOf
    <3> QED
      BY <3>1, <3>4 DEF DataInv
  <2>2. ASSUME total_array_len > DATA_LEN
        PROVE  /\ \A c \in Cores : ret[c] \in {NotReturned, 1}
               /\ ~Started
               /\ DATA = original
    <3>1. ~Fits
      <4>1. DATA_LEN \in Nat
        <5>1. PICK len \in DataLens : original \in [0 .. len - 1 -> Values]
          BY DEF Inv, Types, DataType
        <5>2. len \in Nat
          BY SizesAssumption
        <5> QED
          BY <5>1, <5>2, FS_Interval, FS_CardinalityType DEF DATA_LEN
      <4> QED
        BY <2>2, <4>1, ArrayBounds DEF Fits
    <3> QED
      BY <3>1 DEF Inv, Refused
  <2> QED
    BY <2>1, <2>2 DEF SortedOrRefused, Arrays
<1> QED
  BY <1>1, Invariance, PTL

\* A step of a core that has left the set-up is a step of its phase.
LEMMA PhaseOfLoop ==
  ASSUME Inv, Fits, Fits', NEW c \in Cores, NEW l, pc' = [pc EXCEPT ![c] = l],
         pc[c] \notin SetupLabels, l \notin SetupLabels, pc[c] \in Joined => l \in Joined,
         UNCHANGED <<ret, start_barrier_mem>>
  PROVE  Program!JoinCore(c) \/ UNCHANGED Program!vars
<1>1. McTypeOK(Labels)
  BY DEF Inv, Types
<1>2. CASE pc[c] \in Joined <=> l \in Joined
  <2>1. Phase' = Phase
    BY <1>1, <1>2, PhaseStep
  <2> QED
    BY <2>1 DEF Program!vars, Started, ExitCode
<1>3. CASE pc[c] \notin Joined /\ l \in Joined
  <2>1. Phase[c] = "running" /\ Phase' = [Phase EXCEPT ![c] = "joined"]
    BY <1>1, <1>3, PhaseStep
  <2> QED
    BY <2>1 DEF Program!JoinCore, Started, ExitCode
<1> QED
  BY <1>2, <1>3

\* Every step of the program is a step of ForkJoin, or none of its business.
LEMMA StepForkJoin == Inv /\ [Next]_vars => [Program!Next]_(Program!vars)
<1> SUFFICES ASSUME Inv, [Next]_vars PROVE Program!Next \/ UNCHANGED Program!vars
  OBVIOUS
<1>0. Program!Cores = Cores
  BY DEF Program!Cores, Cores
<1>1. CASE UNCHANGED vars
  BY <1>1 DEF vars, mcVars, dataVars, Program!vars, Started, Phase, ExitCode, Fits,
              DATA_LEN
<1>2. ASSUME NEW c \in Cores, Core(c)
      PROVE  Program!Next \/ UNCHANGED Program!vars
  <2>1. UNCHANGED original
    BY <1>2 DEF Core, TooBig, Start, getNextArray, SortStep, SortDone, Finish, GetLock,
         GetTest, GetPtr, IndexLoad, IndexStore, CountLoad, CountStore, GetUnlock,
         NoneUnlock, ClearCounters, dataVars
  <2>2. Fits' = Fits
    BY <2>1 DEF Fits, DATA_LEN, total_array_len, total_arrays
  <2>3. McTypeOK(Labels)
    BY DEF Inv, Types
  <2>4. CASE TooBig(c)
    <3>1. ~Fits /\ ~Fits' /\ ~Started /\ UNCHANGED start_barrier_mem
          /\ pc[c] = EntryPoint(c) /\ ret' = [ret EXCEPT ![c] = 1]
      BY <2>2, <2>4 DEF TooBig, Return, Inv, Refused
    <3>2. CASE c = 0
      <4>1. Program!Refuse
        BY <2>3, <3>1, <3>2 DEF Program!Refuse, Inv, Refused, EntryPoint, ExitCode,
           Started, McTypeOK
      <4> QED
        BY <4>1 DEF Program!Next
    <3>3. CASE c # 0
      BY <3>1, <3>3 DEF Program!vars, ExitCode, Started
    <3> QED
      BY <3>2, <3>3
  <2>5. CASE Start(c)
    <3>0. Fits /\ Fits' /\ Sorting
      BY <2>2, <2>5 DEF Start, Inv
    <3>1. CASE c = 0 /\ (ClearLock("init_data") \/ ClearCounters)
      <4>1. PICK l \in {"init_data", "publish"} :
              /\ pc[0] \in SetupLabels /\ pc' = [pc EXCEPT ![0] = l]
              /\ UNCHANGED <<ret, start_barrier_mem>>
        BY <3>1 DEF ClearLock, ClearCounters
      <4>2. Phase' = Phase
        BY <2>3, <4>1, PhaseStep
      <4> QED
        BY <3>0, <4>1, <4>2 DEF Program!vars, Started, ExitCode
    <3>2. CASE c = 0 /\ Publish("get_lock")
      <4>1. /\ pc[0] = "publish" /\ pc' = [pc EXCEPT ![0] = "get_lock"]
            /\ start_barrier_mem' = "deadbeef" /\ UNCHANGED ret
        BY <3>2 DEF Publish
      <4>2. Phase[0] = "waiting" /\ Phase' = [Phase EXCEPT ![0] = "running"]
        <5>1. pc[0] \in SetupLabels /\ "get_lock" \notin SetupLabels \union Joined
          BY <4>1
        <5> QED
          BY ONLY <2>3, <4>1, <5>1, CoreSet, PhaseStep
      <4>3. ~Started /\ ret[0] = NotReturned /\ Started'
        BY <3>0, <4>1 DEF Sorting, Roles, Started
      <4>4. Program!Publish
        BY <3>0, <4>1, <4>2, <4>3 DEF Program!Publish, ExitCode
      <4> QED
        BY <4>4 DEF Program!Next
    <3>3. CASE c # 0 /\ AwaitStart(c, "get_lock")
      <4>1. /\ pc[c] = "await" /\ pc' = [pc EXCEPT ![c] = "get_lock"]
            /\ Started /\ UNCHANGED <<ret, start_barrier_mem>>
        BY <3>3 DEF AwaitStart, Started
      <4>2. Phase[c] = "waiting" /\ Phase' = [Phase EXCEPT ![c] = "running"]
        <5>1. pc[c] \in SetupLabels /\ "get_lock" \notin SetupLabels \union Joined
          BY <4>1
        <5> QED
          BY ONLY <2>3, <4>1, <5>1, c \in Cores, PhaseStep
      <4>3. Program!Begin(c)
        BY <3>0, <4>1, <4>2 DEF Program!Begin, ExitCode, Started
      <4> QED
        BY <1>0, <4>3 DEF Program!Next
    <3> QED
      BY <2>5, <3>1, <3>2, <3>3 DEF Start
  <2>6. CASE getNextArray(c) \/ SortStep(c) \/ SortDone(c)
    <3>1. PICK l \in Labels :
            /\ pc[c] \notin SetupLabels \union Joined
            /\ l \notin SetupLabels \union Joined
            /\ pc' = [pc EXCEPT ![c] = l]
            /\ UNCHANGED <<ret, start_barrier_mem>>
      <4>1. CASE getNextArray(c) \/ SortDone(c)
        BY <4>1 DEF getNextArray, SortDone, GetLock, GetTest, GetPtr, IndexLoad,
           IndexStore, CountLoad, CountStore, GetUnlock, NoneUnlock, Lock, Unlock,
           LoadReg, Labels, Critical, PoolCritical
      <4>2. CASE SortStep(c)
        BY <2>3, <4>2 DEF SortStep, mcVars, McTypeOK
      <4> QED
        BY <2>6, <4>1, <4>2
    <3>2. Fits
      BY <3>1 DEF Inv, Refused, EntryPoint
    <3>3. Program!JoinCore(c) \/ UNCHANGED Program!vars
      BY <2>2, <3>1, <3>2, PhaseOfLoop
    <3> QED
      BY <1>0, <3>3 DEF Program!Next
  <2>7. CASE EndBarrier(c)
    <3>1. PICK l \in EndCritical \union {"join", "idle"} :
            /\ pc[c] \in {"end_lock"} \union EndCritical
            /\ pc' = [pc EXCEPT ![c] = l]
            /\ pc[c] \in Joined => l \in Joined
            /\ UNCHANGED <<ret, start_barrier_mem>>
      <4>1. {"end_lock", "join", "idle"} \union EndCritical \subseteq Labels
        BY DEF Labels, Critical
      <4> QED
        BY <2>3, <2>7, <4>1, EndBarrierShape
    <3>2. Fits
      BY <3>1 DEF Inv, Refused, EntryPoint
    <3>3. Program!JoinCore(c) \/ UNCHANGED Program!vars
      BY <2>2, <3>1, <3>2, PhaseOfLoop
    <3> QED
      BY <1>0, <3>3 DEF Program!Next
  <2>8. CASE c = 0 /\ Join
    <3>1. /\ pc[0] = "join" /\ pc' = [pc EXCEPT ![0] = "returned"]
          /\ ret' = [ret EXCEPT ![0] = 0] /\ end_barrier_mem = NumCores
          /\ UNCHANGED start_barrier_mem
      BY <2>8 DEF Join, Return
    <3>2. Fits /\ Fits' /\ Sorting
      BY <2>2, <3>1 DEF Inv, Refused, EntryPoint
    <3>3. \A d \in Cores : pc[d] \in Joined
      BY <3>1, <3>2, EndBarrierMeansAll DEF Sorting
    <3>4. Phase' = Phase
      BY <2>3, <3>1, PhaseStep
    <3>5. \A d \in Cores : Phase[d] = "joined"
      BY <3>3 DEF Phase
    <3>6. ret[0] = NotReturned /\ ret'[0] = 0
      BY <2>3, <3>1, <3>2 DEF Sorting, Roles, McTypeOK
    <3>7. Program!Exit
      BY <1>0, <3>1, <3>2, <3>4, <3>5, <3>6 DEF Program!Exit, ExitCode, Started
    <3> QED
      BY <3>7 DEF Program!Next
  <2> QED
    BY <1>2, <2>4, <2>5, <2>6, <2>7, <2>8 DEF Core, Finish
<1> QED
  BY <1>1, <1>2 DEF Next, Terminated

\* The program is a fork and join, or refuses to start: the safety half of
\* ImplementsForkJoin.
THEOREM ForkJoinRefinement == Spec => Program!Spec
<1>1. Init => Program!Init
  <2> SUFFICES ASSUME Init PROVE Program!Init
    OBVIOUS
  <2>1. /\ \A c \in Cores : pc[c] \in SetupLabels
        /\ pc = [c \in Cores |-> EntryPoint(c)]
        /\ ret[0] = NotReturned /\ start_barrier_mem = "zero"
    BY DEF Init, MemInit, EntryPoint
  <2>2. Phase = [c \in Cores |-> "waiting"]
    BY <2>1 DEF Phase
  <2> QED
    BY <2>1, <2>2 DEF Program!Init, Program!Cores, Cores, Started, ExitCode
<1> QED
  BY <1>1, Invariance, StepForkJoin, PTL DEF Spec, Program!Spec
=============================================================================
