------------------------- MODULE AcceleratorsProofs -------------------------
(***************************************************************************)
(* The safety properties of module Accelerators for any number of cores,   *)
(* any length of the vectors and of the loopback, and any request of TLVs  *)
(* that lie behind one another.                                            *)
(*                                                                         *)
(* A core and its device are tied by one number, Done(c): the place in the *)
(* script of the first operation that has not taken effect.  What has been *)
(* posted and not delivered is the stretch of the script from there up to  *)
(* next[c], so the state of the device is a function of Done(c) and of how *)
(* far the device is with what it was told to do.                          *)
(***************************************************************************)
EXTENDS Accelerators, SequenceTheorems, TLAPS

-----------------------------------------------------------------------------
(* Scripts and the stores on their way *)

Done(c) == next[c] - Len(posted[c])

Store(op) == [to |-> op.to, val |-> op.val]

Stores(S) == {Store(S[k]) : k \in {j \in 1 .. Len(S) : S[j].do = "store"}}

\* q holds the stores of S that end before place n.
Behind(S, n, q) ==
  /\ n \in 1 .. Len(S) + 2
  /\ q \in Seq(Stores(S))
  /\ Len(q) < n
  /\ q # <<>> => n <= Len(S) + 1
  /\ \A k \in 1 .. Len(q) : /\ S[n - Len(q) + k - 1].do = "store"
                            /\ q[k] = Store(S[n - Len(q) + k - 1])

\* A core does not end on a store: bp_finish follows a load or a poll.
EndsInAnswer(S) == Len(S) \in Nat /\ (Len(S) > 0 => S[Len(S)].do # "store")

Shape == /\ next = [c \in Cores |-> next[c]]
         /\ posted = [c \in Cores |-> posted[c]]

\* A step of core c leaves the script and the stores of the others alone.
OnlyCore(c) ==
  \A e \in Cores \ {c} : next'[e] = next[e] /\ posted'[e] = posted[e]

\* bp_set_mmio_csr64 puts the store behind the others; nothing takes effect.
LEMMA PostAdds ==
  ASSUME NEW S, Len(S) \in Nat, NEW c \in Cores, Shape,
         Behind(S, next[c], posted[c]), Post(c, S)
  PROVE  /\ Behind(S, next'[c], posted'[c]) /\ Done(c)' = Done(c)
         /\ Shape' /\ OnlyCore(c)
<1> DEFINE n == next[c]
           q == posted[c]
           op == Store(S[n])
<1>1. /\ n \in 1 .. Len(S) /\ S[n].do = "store"
      /\ next' = [next EXCEPT ![c] = n + 1]
      /\ posted' = [posted EXCEPT ![c] = Append(q, op)]
  BY DEF Post, At, Advance, Store, Behind
<1>2. /\ next'[c] = n + 1 /\ posted'[c] = Append(q, op)
      /\ Shape' /\ OnlyCore(c)
  BY <1>1 DEF Shape, OnlyCore
<1>3. op \in Stores(S)
  BY <1>1 DEF Stores
<1>4. q \in Seq(Stores(S)) /\ Len(q) \in Nat
  BY DEF Behind
<1>5. /\ Append(q, op) \in Seq(Stores(S))
      /\ Len(Append(q, op)) = Len(q) + 1
      /\ \A k \in 1 .. Len(q) : Append(q, op)[k] = q[k]
      /\ Append(q, op)[Len(q) + 1] = op
  BY <1>3, <1>4, AppendProperties
<1> HIDE DEF op
<1>6. ASSUME NEW k \in 1 .. Len(q) + 1
      PROVE  /\ S[n - Len(q) + k - 1].do = "store"
             /\ Append(q, op)[k] = Store(S[n - Len(q) + k - 1])
  <2>1. CASE k \in 1 .. Len(q)
    BY <2>1, <1>5 DEF Behind
  <2>2. CASE k = Len(q) + 1
    <3>1. n - Len(q) + k - 1 = n
      BY <2>2, <1>1, <1>4
    <3> QED BY <3>1, <2>2, <1>1, <1>5 DEF op
  <2> QED BY <2>1, <2>2, <1>4
<1>7. n \in Int /\ Len(q) \in Int
  BY <1>1, <1>4
<1>8. Behind(S, n + 1, Append(q, op))
  <2> DEFINE p == Append(q, op)
             l == Len(q)
  <2>1. p \in Seq(Stores(S)) /\ Len(p) = l + 1 /\ l \in Nat /\ l < n
    BY <1>4, <1>5 DEF Behind
  <2>2. \A k \in 1 .. l + 1 : /\ S[n - l + k - 1].do = "store"
                              /\ p[k] = Store(S[n - l + k - 1])
    BY <1>6
  <2>3. n \in 1 .. Len(S)
    BY <1>1
  <2> HIDE DEF p, l, n
  <2>4. \A k \in 1 .. l + 1 : (n + 1) - (l + 1) + k - 1 = n - l + k - 1
    BY <2>1, <2>3
  <2>5. n + 1 \in 1 .. Len(S) + 2 /\ l + 1 < n + 1 /\ n + 1 <= Len(S) + 1
    BY <2>1, <2>3
  <2>6. Behind(S, n + 1, p)
    BY <2>1, <2>2, <2>4, <2>5 DEF Behind
  <2> QED BY <2>6 DEF p, n
<1>9. (n + 1) - (Len(q) + 1) = n - Len(q)
  BY <1>7
<1> QED BY <1>2, <1>5, <1>8, <1>9 DEF Done

\* A load or a poll that is answered, and bp_finish, find every store of their
\* core delivered and are then done themselves.
LEMMA AnswerComes ==
  ASSUME NEW S, Len(S) \in Nat, NEW c \in Cores, Shape,
         Behind(S, next[c], posted[c]), next[c] <= Len(S) + 1,
         posted[c] = <<>>, posted' = posted, Advance(c)
  PROVE  /\ Behind(S, next'[c], posted'[c]) /\ Done(c)' = Done(c) + 1
         /\ Done(c) = next[c] /\ Shape' /\ OnlyCore(c)
<1>1. Len(<<>>) = 0 /\ <<>> \in Seq(Stores(S))
  OBVIOUS
<1>2. next'[c] = next[c] + 1 /\ posted'[c] = <<>> /\ Shape' /\ OnlyCore(c)
  BY DEF Shape, OnlyCore, Advance
<1>3. next[c] \in Int
  BY DEF Behind
<1>4. next[c] \in 1 .. Len(S) + 2 /\ next[c] + 1 \in 1 .. Len(S) + 2
  BY DEF Behind
<1>5. Behind(S, next[c] + 1, <<>>)
  BY <1>1, <1>4 DEF Behind
<1> QED BY <1>1, <1>2, <1>3, <1>5 DEF Done

\* At the end of a script nothing is on its way.
LEMMA NothingLeftAtEnd ==
  ASSUME NEW S, EndsInAnswer(S), NEW n, NEW q, Behind(S, n, q),
         n = Len(S) + 1
  PROVE  q = <<>>
<1>1. ASSUME q # <<>> PROVE FALSE
  <2>1. Len(q) \in Nat /\ Len(q) > 0
    BY <1>1, EmptySeq DEF Behind
  <2>2. n - Len(q) + Len(q) - 1 = Len(S) /\ Len(S) \in Nat /\ Len(S) > 0
    BY <2>1 DEF EndsInAnswer, Behind
  <2>3. S[Len(S)].do = "store"
    BY <2>1, <2>2 DEF Behind
  <2> QED BY <2>2, <2>3 DEF EndsInAnswer
<1> QED BY <1>1

\* The oldest store on its way is the operation at Done(c), which is then done.
LEMMA OldestIsNext ==
  ASSUME NEW S, Len(S) \in Nat, NEW c \in Cores, Shape,
         Behind(S, next[c], posted[c]), posted[c] # <<>>, next' = next,
         posted' = [posted EXCEPT ![c] = Tail(@)]
  PROVE  /\ Head(posted[c]) = Store(S[Done(c)]) /\ S[Done(c)].do = "store"
         /\ Done(c) \in 1 .. Len(S)
         /\ Behind(S, next'[c], posted'[c]) /\ Done(c)' = Done(c) + 1
         /\ Shape' /\ OnlyCore(c)
<1> DEFINE n == next[c]
           q == posted[c]
<1>1. next'[c] = n /\ posted'[c] = Tail(q) /\ Shape' /\ OnlyCore(c)
  BY DEF Shape, OnlyCore
<1>2. q \in Seq(Stores(S)) /\ Len(q) \in Nat /\ Len(q) > 0 /\ n \in 1 .. Len(S) + 1
  BY EmptySeq DEF Behind
<1>3. /\ Tail(q) \in Seq(Stores(S)) /\ Len(Tail(q)) = Len(q) - 1
      /\ Head(q) = q[1]
      /\ \A k \in 1 .. Len(q) - 1 : Tail(q)[k] = q[k + 1]
  BY <1>2, HeadTailProperties, EmptySeq
<1>4. n - Len(q) + 1 - 1 = Done(c) /\ Done(c) \in 1 .. Len(S)
  BY <1>2 DEF Done, Behind
<1>5. Head(q) = Store(S[Done(c)]) /\ S[Done(c)].do = "store"
  BY <1>2, <1>3, <1>4 DEF Behind
<1>6. ASSUME NEW k \in 1 .. Len(q) - 1
      PROVE  /\ S[n - (Len(q) - 1) + k - 1].do = "store"
             /\ Tail(q)[k] = Store(S[n - (Len(q) - 1) + k - 1])
  <2>1. k + 1 \in 1 .. Len(q) /\ n - (Len(q) - 1) + k - 1 = n - Len(q) + (k + 1) - 1
    BY <1>2
  <2> QED BY <2>1, <1>3 DEF Behind
<1>7. Behind(S, n, Tail(q))
  <2> DEFINE p == Tail(q)
             l == Len(q) - 1
  <2>1. /\ p \in Seq(Stores(S)) /\ Len(p) = l /\ l < n
        /\ n \in 1 .. Len(S) + 2 /\ n <= Len(S) + 1
    BY <1>2, <1>3 DEF Behind
  <2>2. \A k \in 1 .. l : /\ S[n - l + k - 1].do = "store"
                          /\ p[k] = Store(S[n - l + k - 1])
    BY <1>6
  <2> HIDE DEF p, l, n
  <2>3. Behind(S, n, p)
    BY <2>1, <2>2 DEF Behind
  <2> QED BY <2>3 DEF p, n
<1>8. n - (Len(q) - 1) = n - Len(q) + 1
  BY <1>2
<1> QED BY <1>1, <1>3, <1>4, <1>5, <1>7, <1>8 DEF Done

-----------------------------------------------------------------------------
(* Scripts put together *)

IsScript(s) == Len(s) \in Nat /\ s = [k \in 1 .. Len(s) |-> s[k]]

\* Where the operations of two scripts are when one follows the other.
LEMMA Concatenated ==
  ASSUME NEW s, NEW t, IsScript(s), IsScript(t)
  PROVE  /\ IsScript(s \o t) /\ Len(s \o t) = Len(s) + Len(t)
         /\ \A k \in 1 .. Len(s) : (s \o t)[k] = s[k]
         /\ \A k \in 1 .. Len(t) : (s \o t)[Len(s) + k] = t[k]
<1> DEFINE m == Len(s)
           n == Len(t)
           T == {s[k] : k \in 1 .. m} \union {t[k] : k \in 1 .. n}
<1>1. m \in Nat /\ n \in Nat
  BY DEF IsScript
<1>2. s = [k \in 1 .. m |-> s[k]] /\ t = [k \in 1 .. n |-> t[k]]
  BY DEF IsScript
<1> HIDE DEF m, n
<1>3. (\A k \in 1 .. m : s[k] \in T) /\ (\A k \in 1 .. n : t[k] \in T)
  OBVIOUS
<1> HIDE DEF T
<1>4. [k \in 1 .. m |-> s[k]] \in Seq(T) /\ [k \in 1 .. n |-> t[k]] \in Seq(T)
  BY <1>1, <1>3, SeqDef
<1>5. s \in Seq(T) /\ t \in Seq(T)
  BY <1>2, <1>4
<1>6. /\ s \o t \in Seq(T) /\ Len(s \o t) = Len(s) + Len(t)
      /\ \A k \in 1 .. Len(s) : (s \o t)[k] = s[k]
      /\ \A k \in 1 .. Len(t) : (s \o t)[Len(s) + k] = t[k]
  BY <1>5, ConcatProperties
<1>7. IsScript(s \o t)
  BY <1>6, LenProperties DEF IsScript
<1> QED BY <1>6, <1>7

\* u is script s of m operations followed by script t of n operations.
ScriptOf(s, n) == IsScript(s) /\ Len(s) = n
Follows(u, s, m, t, n) ==
  /\ ScriptOf(u, m + n)
  /\ \A k \in 1 .. m : u[k] = s[k]
  /\ \A k \in 1 .. n : u[m + k] = t[k]

\* Putting scripts together, with the lengths known
LEMMA Joined ==
  ASSUME NEW s, NEW t, NEW m, NEW n, ScriptOf(s, m), ScriptOf(t, n)
  PROVE  Follows(s \o t, s, m, t, n) /\ ScriptOf(s \o t, m + n)
BY Concatenated DEF ScriptOf, Follows

\* A tuple of operations is a script.
LEMMA Tuples ==
  /\ Len(<<>>) = 0 /\ IsScript(<<>>)
  /\ \A a : Len(<<a>>) = 1 /\ IsScript(<<a>>)
  /\ \A a, b : Len(<<a, b>>) = 2 /\ IsScript(<<a, b>>)
  /\ \A a, b, c, d, e : Len(<<a, b, c, d, e>>) = 5 /\ IsScript(<<a, b, c, d, e>>)
<1>1. Len(<<>>) = 0 /\ IsScript(<<>>)
  BY DEF IsScript
<1>2. ASSUME NEW a PROVE Len(<<a>>) = 1 /\ IsScript(<<a>>)
  BY DEF IsScript
<1>3. ASSUME NEW a, NEW b PROVE Len(<<a, b>>) = 2 /\ IsScript(<<a, b>>)
  BY DEF IsScript
<1>4. ASSUME NEW a, NEW b, NEW c, NEW d, NEW e
      PROVE  Len(<<a, b, c, d, e>>) = 5 /\ IsScript(<<a, b, c, d, e>>)
  BY DEF IsScript
<1> QED BY <1>1, <1>2, <1>3, <1>4

\* A function of 1 .. n is a script of n operations.
LEMMA OnInterval ==
  ASSUME NEW n \in Nat, NEW f, f = [k \in 1 .. n |-> f[k]]
  PROVE  Len(f) = n /\ IsScript(f)
BY DEF IsScript

-----------------------------------------------------------------------------
(* The scripts of the vector accelerators *)

\* Word k of the two operands, one behind the other
Word(k) ==
  IF k < vlen THEN Vdp!input_array_a[k + 1] ELSE Vdp!input_array_b[k - vlen + 1]

\* How many words core c copies before it configures its accelerator, where it
\* says that the operands and the response are, and its calls.
Copied(c) == IF c = 0 THEN 2 * vlen ELSE 0
PtrA(c) == IF c = 0 THEN Vdp!InDevice(0) ELSE Vdp!InMain("a")
PtrB(c) == IF c = 0 THEN Vdp!InDevice(vlen) ELSE Vdp!InMain("b")
PtrResp(c) == IF c = 0 THEN Vdp!InDevice(2 * vlen) ELSE Vdp!InMain("resp")
Call(c) == IF c = 0 THEN Vdp!StreamingVdp ELSE Vdp!CoherentVdp

\* The operands and the response of the call fit in the device, and so do the
\* words of the loopback.
LEMMA Lengths ==
  /\ vlen \in Nat /\ word_count \in Nat /\ MemWords \in Nat
  /\ 2 * vlen < MemWords /\ word_count <= MemWords
BY AcceleratorsAssumption DEF Vdp!VdpAssumption

\* dma_cpy to the device and from it, word by word
LEMMA Copies ==
  /\ \A at : /\ IsScript(Vdp!CopyIn(Vdp!input_array_a, at))
             /\ Len(Vdp!CopyIn(Vdp!input_array_a, at)) = vlen
             /\ \A k \in 1 .. vlen : Vdp!CopyIn(Vdp!input_array_a, at)[k] =
                     Vdp!Set(Vdp!Mem(at + k - 1), Vdp!input_array_a[k])
  /\ \A at : /\ IsScript(Vdp!CopyIn(Vdp!input_array_b, at))
             /\ Len(Vdp!CopyIn(Vdp!input_array_b, at)) = vlen
             /\ \A k \in 1 .. vlen : Vdp!CopyIn(Vdp!input_array_b, at)[k] =
                     Vdp!Set(Vdp!Mem(at + k - 1), Vdp!input_array_b[k])
  /\ \A at : /\ IsScript(Vdp!CopyIn(Vdp!input_array, at))
             /\ Len(Vdp!CopyIn(Vdp!input_array, at)) = word_count
             /\ \A k \in 1 .. word_count : Vdp!CopyIn(Vdp!input_array, at)[k] =
                     Vdp!Set(Vdp!Mem(at + k - 1), Vdp!input_array[k])
  /\ \A at : \A n \in Nat :
        /\ IsScript(Vdp!CopyOut(at, n)) /\ Len(Vdp!CopyOut(at, n)) = n
        /\ \A k \in 1 .. n : Vdp!CopyOut(at, n)[k] = Vdp!Get(Vdp!Mem(at + k - 1), k)
<1>1. /\ Len(Vdp!input_array_a) = vlen /\ Len(Vdp!input_array_b) = vlen
      /\ Len(Vdp!input_array) = word_count
  BY Lengths DEF Vdp!input_array_a, Vdp!input_array_b, Vdp!input_array
<1>2. ASSUME NEW words, NEW at, Len(words) \in Nat
      PROVE  /\ IsScript(Vdp!CopyIn(words, at))
             /\ Len(Vdp!CopyIn(words, at)) = Len(words)
             /\ \A k \in 1 .. Len(words) : Vdp!CopyIn(words, at)[k] =
                  Vdp!Set(Vdp!Mem(at + k - 1), words[k])
  <2>1. /\ Vdp!CopyIn(words, at) =
            [k \in 1 .. Len(words) |-> Vdp!CopyIn(words, at)[k]]
        /\ \A k \in 1 .. Len(words) : Vdp!CopyIn(words, at)[k] =
             Vdp!Set(Vdp!Mem(at + k - 1), words[k])
    BY DEF Vdp!CopyIn
  <2> QED BY <2>1, <1>2, OnInterval
<1>3. ASSUME NEW at, NEW n \in Nat
      PROVE  /\ IsScript(Vdp!CopyOut(at, n)) /\ Len(Vdp!CopyOut(at, n)) = n
             /\ \A k \in 1 .. n :
                  Vdp!CopyOut(at, n)[k] = Vdp!Get(Vdp!Mem(at + k - 1), k)
  <2>1. /\ Vdp!CopyOut(at, n) = [k \in 1 .. n |-> Vdp!CopyOut(at, n)[k]]
        /\ \A k \in 1 .. n :
             Vdp!CopyOut(at, n)[k] = Vdp!Get(Vdp!Mem(at + k - 1), k)
    BY DEF Vdp!CopyOut
  <2> QED BY <2>1, <1>3, OnInterval
<1> QED BY <1>1, <1>2, <1>3, Lengths

\* The call on the streaming accelerator, operation by operation
LEMMA StreamingOps ==
  LET S == Vdp!StreamingVdp IN
  /\ Len(S) = 2 * vlen + 9
  /\ S[1] = Vdp!Set(Vdp!SacEnable, 1)
  /\ \A k \in 0 .. 2 * vlen - 1 : S[k + 2] = Vdp!Set(Vdp!Mem(k), Word(k))
  /\ S[2 * vlen + 2] = Vdp!Set(Vdp!INPUT_A_PTR, PtrA(0))
  /\ S[2 * vlen + 3] = Vdp!Set(Vdp!INPUT_B_PTR, PtrB(0))
  /\ S[2 * vlen + 4] = Vdp!Set(Vdp!INPUT_LEN, vlen)
  /\ S[2 * vlen + 5] = Vdp!Set(Vdp!RESP_PTR, PtrResp(0))
  /\ S[2 * vlen + 6] = Vdp!Set(Vdp!RESP_LEN, 1)
  /\ S[2 * vlen + 7] = Vdp!Set(Vdp!START_CMD, 1)
  /\ S[2 * vlen + 8] = Vdp!WaitFor(Vdp!RESP_STATUS)
  /\ S[2 * vlen + 9] = Vdp!Get(Vdp!Mem(2 * vlen), 1)
<1> DEFINE S == Vdp!StreamingVdp
           s1 == <<Vdp!Set(Vdp!SacEnable, 1)>>
           s2 == Vdp!CopyIn(Vdp!input_array_a, 0)
           s3 == Vdp!CopyIn(Vdp!input_array_b, vlen)
           s4 == Vdp!Config(Vdp!InDevice(0), Vdp!InDevice(vlen), vlen,
                            Vdp!InDevice(2 * vlen))
           s5 == <<Vdp!Set(Vdp!START_CMD, 1), Vdp!WaitFor(Vdp!RESP_STATUS)>>
           s6 == Vdp!CopyOut(2 * vlen, 1)
<1>1. S = ((((s1 \o s2) \o s3) \o s4) \o s5) \o s6
  BY DEF Vdp!StreamingVdp
<1>2. /\ IsScript(s1) /\ Len(s1) = 1 /\ s1[1] = Vdp!Set(Vdp!SacEnable, 1)
      /\ IsScript(s5) /\ Len(s5) = 2
      /\ s5[1] = Vdp!Set(Vdp!START_CMD, 1) /\ s5[2] = Vdp!WaitFor(Vdp!RESP_STATUS)
  BY Tuples
<1>3. /\ IsScript(s4) /\ Len(s4) = 5
      /\ s4[1] = Vdp!Set(Vdp!INPUT_A_PTR, PtrA(0))
      /\ s4[2] = Vdp!Set(Vdp!INPUT_B_PTR, PtrB(0))
      /\ s4[3] = Vdp!Set(Vdp!INPUT_LEN, vlen)
      /\ s4[4] = Vdp!Set(Vdp!RESP_PTR, PtrResp(0))
      /\ s4[5] = Vdp!Set(Vdp!RESP_LEN, 1)
  BY Tuples DEF Vdp!Config, PtrA, PtrB, PtrResp
<1>4. /\ IsScript(s2) /\ Len(s2) = vlen /\ IsScript(s3) /\ Len(s3) = vlen
      /\ \A k \in 1 .. vlen : s2[k] = Vdp!Set(Vdp!Mem(0 + k - 1), Vdp!input_array_a[k])
      /\ \A k \in 1 .. vlen : s3[k] = Vdp!Set(Vdp!Mem(vlen + k - 1), Vdp!input_array_b[k])
      /\ IsScript(s6) /\ Len(s6) = 1 /\ s6[1] = Vdp!Get(Vdp!Mem(2 * vlen), 1)
  <2>1. 1 \in Nat /\ 1 \in 1 .. 1 /\ 2 * vlen + 1 - 1 = 2 * vlen
    BY Lengths
  <2>2. IsScript(s6) /\ Len(s6) = 1 /\ s6[1] = Vdp!Get(Vdp!Mem(2 * vlen + 1 - 1), 1)
    BY <2>1, Copies
  <2>3. s6[1] = Vdp!Get(Vdp!Mem(2 * vlen), 1)
    BY <2>1, <2>2
  <2> QED BY <2>2, <2>3, Copies
<1> HIDE DEF S, s1, s2, s3, s4, s5, s6
<1> DEFINE t2 == s1 \o s2
           t3 == t2 \o s3
           t4 == t3 \o s4
           t5 == t4 \o s5
           n2 == 1 + vlen
           n3 == n2 + vlen
<1>n. /\ 1 \in Nat /\ 2 \in Nat /\ 5 \in Nat
      /\ vlen \in Nat /\ n2 \in Nat /\ n3 \in Nat /\ n3 = 2 * vlen + 1
      /\ n3 + 5 \in Nat /\ n3 + 5 + 2 \in Nat
  BY Lengths
<1>s. /\ ScriptOf(s1, 1) /\ ScriptOf(s2, vlen) /\ ScriptOf(s3, vlen)
      /\ ScriptOf(s4, 5) /\ ScriptOf(s5, 2) /\ ScriptOf(s6, 1)
  BY <1>2, <1>3, <1>4 DEF ScriptOf
<1> HIDE DEF n2, n3
<1>5. Follows(t2, s1, 1, s2, vlen) /\ ScriptOf(t2, n2)
  BY <1>s, Joined DEF n2
<1>6. Follows(t3, t2, n2, s3, vlen) /\ ScriptOf(t3, n3)
  BY <1>s, <1>5, Joined DEF n3
<1>7. Follows(t4, t3, n3, s4, 5) /\ ScriptOf(t4, n3 + 5)
  BY <1>s, <1>6, Joined
<1>8. Follows(t5, t4, n3 + 5, s5, 2) /\ ScriptOf(t5, n3 + 5 + 2)
  BY <1>s, <1>7, Joined
<1>9. Follows(S, t5, n3 + 5 + 2, s6, 1) /\ ScriptOf(S, n3 + 5 + 2 + 1)
  BY <1>1, <1>s, <1>8, Joined
<1> HIDE DEF t2, t3, t4, t5
<1>p. S[1] = s1[1] /\ \A k \in 1 .. n3 : S[k] = t3[k]
  BY <1>n, <1>5, <1>6, <1>7, <1>8, <1>9 DEF n2, n3, Follows
<1>q. /\ \A k \in 1 .. n2 : S[k] = t2[k]
      /\ \A k \in 1 .. vlen : S[n2 + k] = s3[k]
      /\ \A k \in 1 .. vlen : S[1 + k] = s2[k]
  BY <1>n, <1>p, <1>5, <1>6 DEF n2, n3, Follows
<1>10. S[1] = Vdp!Set(Vdp!SacEnable, 1)
  BY <1>2, <1>p
<1>11. ASSUME NEW k \in 0 .. 2 * vlen - 1
       PROVE  S[k + 2] = Vdp!Set(Vdp!Mem(k), Word(k))
  <2>2. CASE k < vlen
    <3>1. k + 2 = 1 + (k + 1) /\ k + 1 \in 1 .. vlen /\ 0 + (k + 1) - 1 = k
      BY <2>2, <1>n
    <3>2. S[k + 2] = Vdp!Set(Vdp!Mem(0 + (k + 1) - 1), Vdp!input_array_a[k + 1])
      BY <3>1, <1>q, <1>4
    <3> QED BY <2>2, <3>1, <3>2 DEF Word
  <2>3. CASE ~(k < vlen)
    <3>1. /\ k - vlen + 1 \in 1 .. vlen /\ k + 2 = n2 + (k - vlen + 1)
          /\ vlen + (k - vlen + 1) - 1 = k
      BY <2>3, <1>n DEF n2
    <3>2. S[k + 2] = Vdp!Set(Vdp!Mem(vlen + (k - vlen + 1) - 1),
                              Vdp!input_array_b[k - vlen + 1])
      BY <3>1, <1>q, <1>4
    <3> QED BY <2>3, <3>1, <3>2 DEF Word
  <2> QED BY <2>2, <2>3
<1>12. /\ \A k \in 1 .. 5 : S[n3 + k] = s4[k]
       /\ \A k \in 1 .. 2 : S[n3 + 5 + k] = s5[k]
       /\ S[n3 + 5 + 2 + 1] = s6[1]
  <2>1. \A k \in 1 .. 5 : n3 + k \in 1 .. n3 + 5 /\ n3 + k \in 1 .. n3 + 5 + 2
    BY <1>n
  <2>2. \A k \in 1 .. 2 : n3 + 5 + k \in 1 .. n3 + 5 + 2
    BY <1>n
  <2> QED BY <2>1, <2>2, <1>7, <1>8, <1>9 DEF Follows
<1>13. /\ 2 * vlen + 2 = n3 + 1 /\ 2 * vlen + 3 = n3 + 2
       /\ 2 * vlen + 4 = n3 + 3 /\ 2 * vlen + 5 = n3 + 4
       /\ 2 * vlen + 6 = n3 + 5 /\ 2 * vlen + 7 = n3 + 5 + 1
       /\ 2 * vlen + 8 = n3 + 5 + 2 /\ 2 * vlen + 9 = n3 + 5 + 2 + 1
       /\ 2 * vlen + 1 - 1 = 2 * vlen
  BY <1>n
<1>14. /\ S[2 * vlen + 2] = s4[1] /\ S[2 * vlen + 3] = s4[2]
       /\ S[2 * vlen + 4] = s4[3] /\ S[2 * vlen + 5] = s4[4]
       /\ S[2 * vlen + 6] = s4[5] /\ S[2 * vlen + 7] = s5[1]
       /\ S[2 * vlen + 8] = s5[2] /\ S[2 * vlen + 9] = s6[1]
  BY <1>12, <1>13
<1>15. Len(S) = 2 * vlen + 9
  BY <1>9, <1>13 DEF Follows, ScriptOf
<1> QED BY <1>2, <1>3, <1>4, <1>10, <1>11, <1>13, <1>14, <1>15 DEF S

\* The call on the coherent accelerator
LEMMA CoherentOps ==
  LET S == Vdp!CoherentVdp IN
  /\ Len(S) = 8
  /\ S[1] = Vdp!Set(Vdp!SacEnable, 1)
  /\ S[2] = Vdp!Set(Vdp!INPUT_A_PTR, PtrA(3))
  /\ S[3] = Vdp!Set(Vdp!INPUT_B_PTR, PtrB(3))
  /\ S[4] = Vdp!Set(Vdp!INPUT_LEN, vlen)
  /\ S[5] = Vdp!Set(Vdp!RESP_PTR, PtrResp(3))
  /\ S[6] = Vdp!Set(Vdp!RESP_LEN, 1)
  /\ S[7] = Vdp!Set(Vdp!START_CMD, 1)
  /\ S[8] = Vdp!WaitFor(Vdp!RESP_STATUS)
<1> DEFINE S == Vdp!CoherentVdp
           s1 == <<Vdp!Set(Vdp!SacEnable, 1)>>
           s2 == Vdp!Config(Vdp!InMain("a"), Vdp!InMain("b"), vlen, Vdp!InMain("resp"))
           s3 == <<Vdp!Set(Vdp!START_CMD, 1), Vdp!WaitFor(Vdp!RESP_STATUS)>>
           t2 == s1 \o s2
<1>1. S = t2 \o s3
  BY DEF Vdp!CoherentVdp
<1>2. /\ ScriptOf(s1, 1) /\ ScriptOf(s3, 2)
      /\ s1[1] = Vdp!Set(Vdp!SacEnable, 1)
      /\ s3[1] = Vdp!Set(Vdp!START_CMD, 1) /\ s3[2] = Vdp!WaitFor(Vdp!RESP_STATUS)
  BY Tuples DEF ScriptOf
<1>3. /\ ScriptOf(s2, 5)
      /\ s2[1] = Vdp!Set(Vdp!INPUT_A_PTR, PtrA(3))
      /\ s2[2] = Vdp!Set(Vdp!INPUT_B_PTR, PtrB(3))
      /\ s2[3] = Vdp!Set(Vdp!INPUT_LEN, vlen)
      /\ s2[4] = Vdp!Set(Vdp!RESP_PTR, PtrResp(3))
      /\ s2[5] = Vdp!Set(Vdp!RESP_LEN, 1)
  BY Tuples DEF Vdp!Config, PtrA, PtrB, PtrResp, ScriptOf
<1> HIDE DEF S, s1, s2, s3
<1>4. Follows(t2, s1, 1, s2, 5) /\ ScriptOf(t2, 1 + 5)
  BY <1>2, <1>3, Joined
<1>5. Follows(S, t2, 1 + 5, s3, 2) /\ ScriptOf(S, 1 + 5 + 2)
  BY <1>1, <1>2, <1>4, Joined
<1> HIDE DEF t2
<1>6. /\ t2[1] = s1[1] /\ t2[2] = s2[1] /\ t2[3] = s2[2] /\ t2[4] = s2[3]
      /\ t2[5] = s2[4] /\ t2[6] = s2[5]
  BY <1>4 DEF Follows
<1>7. /\ S[1] = t2[1] /\ S[2] = t2[2] /\ S[3] = t2[3] /\ S[4] = t2[4]
      /\ S[5] = t2[5] /\ S[6] = t2[6] /\ S[7] = s3[1] /\ S[8] = s3[2]
  BY <1>5 DEF Follows
<1>8. Len(S) = 8
  BY <1>5 DEF ScriptOf
<1> QED BY <1>2, <1>3, <1>6, <1>7, <1>8 DEF S

\* The calls of both cores: what core c copies first, and its accelerator's
\* registers behind that
IsCall(c, S, o) ==
  /\ o \in Nat /\ o <= 2 * vlen
  /\ Len(S) = IF c = 0 THEN o + 9 ELSE o + 8
  /\ S[1] = Vdp!Set(Vdp!SacEnable, 1)
  /\ \A k \in 0 .. o - 1 : S[k + 2] = Vdp!Set(Vdp!Mem(k), Word(k))
  /\ S[o + 2] = Vdp!Set(Vdp!INPUT_A_PTR, PtrA(c))
  /\ S[o + 3] = Vdp!Set(Vdp!INPUT_B_PTR, PtrB(c))
  /\ S[o + 4] = Vdp!Set(Vdp!INPUT_LEN, vlen)
  /\ S[o + 5] = Vdp!Set(Vdp!RESP_PTR, PtrResp(c))
  /\ S[o + 6] = Vdp!Set(Vdp!RESP_LEN, 1)
  /\ S[o + 7] = Vdp!Set(Vdp!START_CMD, 1)
  /\ S[o + 8] = Vdp!WaitFor(Vdp!RESP_STATUS)
  /\ c = 0 => S[o + 9] = Vdp!Get(Vdp!Mem(2 * vlen), 1)

\* The calls are of that form.
LEMMA CallOps ==
  ASSUME NEW c \in {0, 3}
  PROVE  IsCall(c, Call(c), Copied(c))
<1> DEFINE S == Call(c)
           o == Copied(c)
<1>1. CASE c = 0
  <2>1. o = 2 * vlen /\ S = Vdp!StreamingVdp /\ o \in Nat
    BY <1>1, Lengths DEF Copied, Call
  <2> HIDE DEF o, S
  <2>2. \A k \in 0 .. o - 1 : S[k + 2] = Vdp!Set(Vdp!Mem(k), Word(k))
    BY <2>1, StreamingOps
  <2>3. Len(S) = o + 9 /\ S[1] = Vdp!Set(Vdp!SacEnable, 1)
    BY <2>1, StreamingOps
  <2>4. /\ S[o + 2] = Vdp!Set(Vdp!INPUT_A_PTR, PtrA(0))
        /\ S[o + 3] = Vdp!Set(Vdp!INPUT_B_PTR, PtrB(0))
        /\ S[o + 4] = Vdp!Set(Vdp!INPUT_LEN, vlen)
        /\ S[o + 5] = Vdp!Set(Vdp!RESP_PTR, PtrResp(0))
    BY <2>1, StreamingOps
  <2>5. /\ S[o + 6] = Vdp!Set(Vdp!RESP_LEN, 1)
        /\ S[o + 7] = Vdp!Set(Vdp!START_CMD, 1)
        /\ S[o + 8] = Vdp!WaitFor(Vdp!RESP_STATUS)
        /\ S[o + 9] = Vdp!Get(Vdp!Mem(2 * vlen), 1)
    BY <2>1, StreamingOps
  <2> QED BY <1>1, <2>1, <2>2, <2>3, <2>4, <2>5 DEF o, S, IsCall
<1>2. CASE c = 3
  <2>1. o = 0 /\ S = Vdp!CoherentVdp /\ 0 <= 2 * vlen
    BY <1>2, Lengths DEF Copied, Call
  <2>2. /\ S[o + 2] = Vdp!Set(Vdp!INPUT_A_PTR, PtrA(c))
        /\ S[o + 3] = Vdp!Set(Vdp!INPUT_B_PTR, PtrB(c))
        /\ S[o + 4] = Vdp!Set(Vdp!INPUT_LEN, vlen)
        /\ S[o + 5] = Vdp!Set(Vdp!RESP_PTR, PtrResp(c))
        /\ S[o + 6] = Vdp!Set(Vdp!RESP_LEN, 1)
        /\ S[o + 7] = Vdp!Set(Vdp!START_CMD, 1)
        /\ S[o + 8] = Vdp!WaitFor(Vdp!RESP_STATUS)
    BY <1>2, <2>1, CoherentOps
  <2>3. Len(S) = o + 8 /\ S[1] = Vdp!Set(Vdp!SacEnable, 1)
    BY <2>1, CoherentOps
  <2>4. \A k \in 0 .. o - 1 : S[k + 2] = Vdp!Set(Vdp!Mem(k), Word(k))
    BY <2>1
  <2> QED BY <1>2, <2>1, <2>2, <2>3, <2>4 DEF IsCall
<1> QED BY <1>1, <1>2

\* The loopback: every word in, every word out, and the first once more
LEMMA LoopbackOps ==
  LET S == Vdp!LoopbackCopy IN
  /\ Len(S) = 2 * word_count + 2
  /\ S[1] = Vdp!Set(Vdp!SacEnable, 1)
  /\ \A k \in 1 .. word_count :
       /\ S[k + 1] = Vdp!Set(Vdp!Mem(k - 1), Vdp!input_array[k])
       /\ S[word_count + k + 1] = Vdp!Get(Vdp!Mem(k - 1), k)
  /\ S[2 * word_count + 2] = Vdp!Get(Vdp!Mem(0), word_count + 1)
<1> DEFINE S == Vdp!LoopbackCopy
           s1 == <<Vdp!Set(Vdp!SacEnable, 1)>>
           s2 == Vdp!CopyIn(Vdp!input_array, 0)
           s3 == Vdp!CopyOut(0, word_count)
           s4 == <<Vdp!Get(Vdp!Mem(0), word_count + 1)>>
           t2 == s1 \o s2
           t3 == t2 \o s3
           n == word_count
<1>1. S = t3 \o s4
  BY DEF Vdp!LoopbackCopy
<1>2. /\ ScriptOf(s1, 1) /\ s1[1] = Vdp!Set(Vdp!SacEnable, 1)
      /\ ScriptOf(s4, 1) /\ s4[1] = Vdp!Get(Vdp!Mem(0), n + 1)
  BY Tuples DEF ScriptOf
<1>3. n \in Nat /\ \A k \in 1 .. n : 0 + k - 1 = k - 1
  BY Lengths
<1>4. ScriptOf(s2, n) /\ ScriptOf(s3, n)
  BY <1>3, Copies DEF ScriptOf
<1>5. \A k \in 1 .. n : s2[k] = Vdp!Set(Vdp!Mem(k - 1), Vdp!input_array[k])
  BY <1>3, Copies
<1>6. \A k \in 1 .. n : s3[k] = Vdp!Get(Vdp!Mem(k - 1), k)
  BY <1>3, Copies
<1> HIDE DEF S, s1, s2, s3, s4, n
<1>7. Follows(t2, s1, 1, s2, n) /\ ScriptOf(t2, 1 + n)
  BY <1>2, <1>4, Joined
<1>8. Follows(t3, t2, 1 + n, s3, n) /\ ScriptOf(t3, 1 + n + n)
  BY <1>4, <1>7, Joined
<1>9. Follows(S, t3, 1 + n + n, s4, 1) /\ ScriptOf(S, 1 + n + n + 1)
  BY <1>1, <1>2, <1>8, Joined
<1> HIDE DEF t2, t3
<1>10. S[1] = s1[1] /\ S[1 + n + n + 1] = s4[1]
  BY <1>3, <1>7, <1>8, <1>9 DEF Follows
<1>11. \A k \in 1 .. n : S[1 + k] = s2[k] /\ S[1 + n + k] = s3[k]
  BY <1>3, <1>7, <1>8, <1>9 DEF Follows
<1>12. /\ Len(S) = 2 * n + 2 /\ 1 + n + n + 1 = 2 * n + 2
       /\ \A k \in 1 .. n : 1 + k = k + 1 /\ 1 + n + k = n + k + 1
  BY <1>3, <1>9 DEF ScriptOf
<1> QED BY <1>2, <1>5, <1>6, <1>10, <1>11, <1>12 DEF S, n

-----------------------------------------------------------------------------
(* What core and device have come to when d operations of a script are next *)

DevPlaces == Vdp!Csrs \union {Vdp!Mem(k) : k \in 0 .. MemWords - 1}

Dot == Vdp!DotProduct(Vdp!input_array_a, Vdp!input_array_b)

\* Where the device of core c leaves its answer
Answer(c, D, H) == IF c = 0 THEN D[Vdp!Mem(2 * vlen)] ELSE H[1]

\* A core that calls its accelerator: D are registers and memory of the device,
\* H what main sees, e and b whether the tile is enabled and the device busy.
Configured(c, d, D, e) ==
  LET o == Copied(c) IN
  /\ d > 1 => e
  /\ \A k \in 0 .. o - 1 : d > k + 2 => D[Vdp!Mem(k)] = Word(k)
  /\ d > o + 2 => D[Vdp!INPUT_A_PTR] = PtrA(c)
  /\ d > o + 3 => D[Vdp!INPUT_B_PTR] = PtrB(c)
  /\ d > o + 4 => D[Vdp!INPUT_LEN] = vlen
  /\ d > o + 5 => D[Vdp!RESP_PTR] = PtrResp(c)

Started(c, d, D, H, b) ==
  LET o == Copied(c) IN
  /\ d <= o + 7 => ~b /\ D[Vdp!RESP_STATUS] = 0
  /\ d > o + 7 => \/ b /\ D[Vdp!RESP_STATUS] = 0
                  \/ ~b /\ D[Vdp!RESP_STATUS] = 1 /\ Answer(c, D, H) = Dot
  /\ d > o + 8 => D[Vdp!RESP_STATUS] # 0
  /\ c = 0 /\ d > o + 9 => H[1] = Dot

CallState(c, d, D, H, e, b) == Configured(c, d, D, e) /\ Started(c, d, D, H, b)

\* A core that sends words through the loopback
LoopbackState(d, D, H, e, b) ==
  /\ d > 1 => e
  /\ ~b /\ D[Vdp!RESP_STATUS] = 0
  /\ \A k \in 1 .. word_count :
       /\ d > k + 1 => D[Vdp!Mem(k - 1)] = Vdp!input_array[k]
       /\ d > word_count + k + 1 => H[k] = Vdp!input_array[k]

\* The device of a core whose program does not use it
IdleState(D, b) == ~b /\ D[Vdp!RESP_STATUS] = 0

DeviceState(l, c, d, D, H, e, b) ==
  IF c = 0 /\ l THEN LoopbackState(d, D, H, e, b)
  ELSE IF c \in {0, 3} THEN CallState(c, d, D, H, e, b)
  ELSE IdleState(D, b)

VdpShape ==
  /\ Shape /\ loopback \in BOOLEAN
  /\ enabled \in [Cores -> BOOLEAN] /\ busy \in [Cores -> BOOLEAN]
  /\ dev = [c \in Cores |-> dev[c]]
  /\ host = [c \in Cores |-> host[c]]
  /\ \A c \in Cores : /\ dev[c] = [x \in DevPlaces |-> dev[c][x]]
                      /\ host[c] = [k \in 1 .. word_count + 1 |-> host[c][k]]

VdpInv ==
  /\ VdpShape
  /\ \A c \in Cores :
       /\ Behind(Vdp!Script(c), next[c], posted[c])
       /\ DeviceState(loopback, c, Done(c), dev[c], host[c], enabled[c], busy[c])

-----------------------------------------------------------------------------
(* Stores that arrive at a vector accelerator *)

Named == {Vdp!INPUT_A_PTR, Vdp!INPUT_B_PTR, Vdp!INPUT_LEN, Vdp!START_CMD,
          Vdp!RESP_STATUS, Vdp!RESP_PTR, Vdp!RESP_LEN}

\* No two places of a device are the same.
LEMMA Places ==
  /\ Vdp!INPUT_A_PTR # Vdp!INPUT_B_PTR /\ Vdp!INPUT_A_PTR # Vdp!INPUT_LEN
  /\ Vdp!INPUT_A_PTR # Vdp!START_CMD /\ Vdp!INPUT_A_PTR # Vdp!RESP_STATUS
  /\ Vdp!INPUT_A_PTR # Vdp!RESP_PTR /\ Vdp!INPUT_A_PTR # Vdp!RESP_LEN
  /\ Vdp!INPUT_B_PTR # Vdp!INPUT_LEN /\ Vdp!INPUT_B_PTR # Vdp!START_CMD
  /\ Vdp!INPUT_B_PTR # Vdp!RESP_STATUS /\ Vdp!INPUT_B_PTR # Vdp!RESP_PTR
  /\ Vdp!INPUT_B_PTR # Vdp!RESP_LEN
  /\ Vdp!INPUT_LEN # Vdp!START_CMD /\ Vdp!INPUT_LEN # Vdp!RESP_STATUS
  /\ Vdp!INPUT_LEN # Vdp!RESP_PTR /\ Vdp!INPUT_LEN # Vdp!RESP_LEN
  /\ Vdp!START_CMD # Vdp!RESP_STATUS /\ Vdp!START_CMD # Vdp!RESP_PTR
  /\ Vdp!START_CMD # Vdp!RESP_LEN /\ Vdp!RESP_STATUS # Vdp!RESP_PTR
  /\ Vdp!RESP_STATUS # Vdp!RESP_LEN /\ Vdp!RESP_PTR # Vdp!RESP_LEN
BY DEF Vdp!INPUT_A_PTR, Vdp!INPUT_B_PTR, Vdp!INPUT_LEN, Vdp!START_CMD,
       Vdp!RESP_STATUS, Vdp!RESP_PTR, Vdp!RESP_LEN, Vdp!Csr

\* A place is a register, a word of memory or the register that maps it.
LEMMA Kinds ==
  /\ \A x \in Named : x[1] = "csr" /\ x \in DevPlaces
  /\ Vdp!SacEnable[1] = "cfg"
  /\ \A k : Vdp!Mem(k)[1] = "mem"
  /\ \A k \in 0 .. MemWords - 1 : Vdp!Mem(k) \in DevPlaces
  /\ \A j, k : Vdp!Mem(j) = Vdp!Mem(k) => j = k
<1>1. Named \subseteq Vdp!Csrs
  BY DEF Named, Vdp!INPUT_A_PTR, Vdp!INPUT_B_PTR, Vdp!INPUT_LEN, Vdp!START_CMD,
         Vdp!RESP_STATUS, Vdp!RESP_PTR, Vdp!RESP_LEN, Vdp!Csr, Vdp!Csrs
<1>2. \A x \in Vdp!Csrs : x[1] = "csr"
  BY DEF Vdp!Csr, Vdp!Csrs
<1>3. \A k : Vdp!Mem(k)[1] = "mem"
  BY DEF Vdp!Mem
<1>4. Vdp!SacEnable[1] = "cfg"
  BY DEF Vdp!SacEnable
<1>5. \A j, k : Vdp!Mem(j) = Vdp!Mem(k) => j = k
  BY DEF Vdp!Mem
<1>6. \A k \in 0 .. MemWords - 1 : Vdp!Mem(k) \in DevPlaces
  BY DEF DevPlaces
<1> QED BY <1>1, <1>2, <1>3, <1>4, <1>5, <1>6 DEF DevPlaces

\* A device after store s, from registers and memory D
Arrives(s, D, e, b, D1, e1, b1) ==
  \/ s.to = Vdp!SacEnable /\ e1 = TRUE /\ D1 = D /\ b1 = b
  \/ /\ s.to[1] = "mem" /\ e1 = e /\ b1 = b
     /\ D1 = IF e THEN [D EXCEPT ![s.to] = s.val] ELSE D
  \/ /\ s.to[1] = "csr" /\ s.to # Vdp!START_CMD
     /\ D1 = [D EXCEPT ![s.to] = s.val] /\ e1 = e /\ b1 = b
  \/ /\ s.to = Vdp!START_CMD /\ e1 = e /\ b1 = TRUE
     /\ D1 = [D EXCEPT ![Vdp!RESP_STATUS] = 0]

IsDev(D) == D = [x \in DevPlaces |-> D[x]]
IsHost(H) == H = [k \in 1 .. word_count + 1 |-> H[k]]

\* What a store does, by what it is for
Effect(s, D, e, b, D1, e1, b1) ==
  /\ s.to = Vdp!SacEnable => e1 = TRUE /\ D1 = D /\ b1 = b
  /\ \A k : s.to = Vdp!Mem(k) /\ e =>
       e1 = e /\ b1 = b /\ D1 = [D EXCEPT ![Vdp!Mem(k)] = s.val]
  /\ s.to \in Named \ {Vdp!START_CMD} =>
       e1 = e /\ b1 = b /\ D1 = [D EXCEPT ![s.to] = s.val]
  /\ s.to = Vdp!START_CMD =>
       e1 = e /\ b1 = TRUE /\ D1 = [D EXCEPT ![Vdp!RESP_STATUS] = 0]
  /\ IsDev(D1)

\* The kinds of stores exclude one another.
LEMMA Arrivals ==
  ASSUME NEW s, NEW D, NEW e, NEW b, NEW D1, NEW e1, NEW b1, IsDev(D),
         Arrives(s, D, e, b, D1, e1, b1)
  PROVE  Effect(s, D, e, b, D1, e1, b1)
<1>1. IsDev(D1)
  BY DEF IsDev, Arrives
<1>2. ASSUME s.to = Vdp!SacEnable PROVE e1 = TRUE /\ D1 = D /\ b1 = b
  <2>1. s.to[1] = "cfg" /\ s.to # Vdp!START_CMD
    BY <1>2, Kinds DEF Named
  <2> QED BY <2>1, <1>2 DEF Arrives
<1>3. ASSUME NEW k, s.to = Vdp!Mem(k), e
      PROVE  e1 = e /\ b1 = b /\ D1 = [D EXCEPT ![Vdp!Mem(k)] = s.val]
  <2>1. s.to[1] = "mem" /\ s.to # Vdp!START_CMD /\ s.to # Vdp!SacEnable
    BY <1>3, Kinds DEF Named
  <2> QED BY <2>1, <1>3 DEF Arrives
<1>4. ASSUME s.to \in Named \ {Vdp!START_CMD}
      PROVE  e1 = e /\ b1 = b /\ D1 = [D EXCEPT ![s.to] = s.val]
  <2>1. s.to[1] = "csr" /\ s.to # Vdp!START_CMD /\ s.to # Vdp!SacEnable
    BY <1>4, Kinds
  <2> QED BY <2>1 DEF Arrives
<1>5. ASSUME s.to = Vdp!START_CMD
      PROVE  e1 = e /\ b1 = TRUE /\ D1 = [D EXCEPT ![Vdp!RESP_STATUS] = 0]
  <2>1. s.to[1] = "csr" /\ s.to # Vdp!SacEnable
    BY <1>5, Kinds DEF Named
  <2> QED BY <2>1, <1>5 DEF Arrives
<1> QED BY <1>1, <1>2, <1>3, <1>4, <1>5 DEF Effect

\* Which operations of a call are stores
LEMMA StoresOfCall ==
  ASSUME NEW c \in {0, 3}, NEW d \in 1 .. Len(Call(c)), Call(c)[d].do = "store"
  PROVE  LET s == Store(Call(c)[d])
             o == Copied(c)
         IN  \/ d = 1 /\ s.to = Vdp!SacEnable
             \/ \E k \in 0 .. o - 1 : d = k + 2 /\ s.to = Vdp!Mem(k) /\ s.val = Word(k)
             \/ d = o + 2 /\ s.to = Vdp!INPUT_A_PTR /\ s.val = PtrA(c)
             \/ d = o + 3 /\ s.to = Vdp!INPUT_B_PTR /\ s.val = PtrB(c)
             \/ d = o + 4 /\ s.to = Vdp!INPUT_LEN /\ s.val = vlen
             \/ d = o + 5 /\ s.to = Vdp!RESP_PTR /\ s.val = PtrResp(c)
             \/ d = o + 6 /\ s.to = Vdp!RESP_LEN
             \/ d = o + 7 /\ s.to = Vdp!START_CMD
<1> DEFINE S == Call(c)
           o == Copied(c)
<1>1. /\ \A to, val : Vdp!Set(to, val).do = "store"
      /\ \A to, val : Store(Vdp!Set(to, val)).to = to
      /\ \A to, val : Store(Vdp!Set(to, val)).val = val
      /\ \A from : Vdp!WaitFor(from).do # "store"
      /\ \A from, to : Vdp!Get(from, to).do # "store"
  BY DEF Vdp!Set, Vdp!Get, Vdp!WaitFor, Store
<1>2. /\ o \in Nat /\ Len(S) = (IF c = 0 THEN o + 9 ELSE o + 8)
      /\ S[1] = Vdp!Set(Vdp!SacEnable, 1)
      /\ \A k \in 0 .. o - 1 : S[k + 2] = Vdp!Set(Vdp!Mem(k), Word(k))
      /\ S[o + 2] = Vdp!Set(Vdp!INPUT_A_PTR, PtrA(c))
      /\ S[o + 3] = Vdp!Set(Vdp!INPUT_B_PTR, PtrB(c))
      /\ S[o + 4] = Vdp!Set(Vdp!INPUT_LEN, vlen)
      /\ S[o + 5] = Vdp!Set(Vdp!RESP_PTR, PtrResp(c))
      /\ S[o + 6] = Vdp!Set(Vdp!RESP_LEN, 1)
      /\ S[o + 7] = Vdp!Set(Vdp!START_CMD, 1)
      /\ S[o + 8] = Vdp!WaitFor(Vdp!RESP_STATUS)
      /\ c = 0 => S[o + 9] = Vdp!Get(Vdp!Mem(2 * vlen), 1)
  BY CallOps DEF IsCall
<1>s. d \in 1 .. Len(S) /\ S[d].do = "store"
  OBVIOUS
<1> HIDE DEF S, o
<1>n. o \in Nat
  BY <1>2
<1>3. d \in Nat /\ d >= 1 /\ d # o + 8 /\ d # o + 9 /\ d <= o + 9
  <2>1. S[o + 8].do # "store" /\ (c = 0 => S[o + 9].do # "store")
    <3>1. S[o + 8].do # "store"
      BY <1>1, <1>2
    <3>2. c = 0 => S[o + 9].do # "store"
      BY <1>1, <1>2
    <3> QED BY <3>1, <3>2
  <2>2. d # o + 8 /\ (c = 0 => d # o + 9)
    BY <2>1, <1>s
  <2>3. CASE c = 0
    BY <2>3, <2>2, <1>2, <1>s
  <2>4. CASE c # 0
    BY <2>4, <2>2, <1>2, <1>s
  <2> QED BY <2>3, <2>4
<1>4. \/ d = 1 \/ \E k \in 0 .. o - 1 : d = k + 2
      \/ d = o + 2 \/ d = o + 3 \/ d = o + 4 \/ d = o + 5 \/ d = o + 6 \/ d = o + 7
  <2>1. CASE d >= 2 /\ d < o + 2
    <3>1. d - 2 \in 0 .. o - 1 /\ d = (d - 2) + 2
      BY <2>1, <1>n, <1>3
    <3> QED BY <3>1
  <2>2. CASE d < 2 \/ d >= o + 2
    <3>1. CASE d < 2
      BY <3>1, <1>3
    <3>2. CASE d >= o + 2
      BY <3>2, <1>n, <1>3
    <3> QED BY <2>2, <3>1, <3>2
  <2>3. (d >= 2 /\ d < o + 2) \/ d < 2 \/ d >= o + 2
    BY <1>n, <1>3
  <2> QED BY <2>1, <2>2, <2>3
<1>5. CASE d = 1
  BY <1>5, <1>1, <1>2 DEF S, o
<1>6. CASE \E k \in 0 .. o - 1 : d = k + 2
  <2>1. PICK k \in 0 .. o - 1 : d = k + 2
    BY <1>6
  <2>2. S[d] = Vdp!Set(Vdp!Mem(k), Word(k))
    BY <2>1, <1>2
  <2> QED BY <2>1, <2>2, <1>1 DEF S, o
<1>7. CASE d = o + 2
  BY <1>7, <1>1, <1>2 DEF S, o
<1>8. CASE d = o + 3
  BY <1>8, <1>1, <1>2 DEF S, o
<1>9. CASE d = o + 4
  BY <1>9, <1>1, <1>2 DEF S, o
<1>10. CASE d = o + 5
  BY <1>10, <1>1, <1>2 DEF S, o
<1>11. CASE d = o + 6
  BY <1>11, <1>1, <1>2 DEF S, o
<1>12. CASE d = o + 7
  BY <1>12, <1>1, <1>2 DEF S, o
<1> QED BY <1>4, <1>5, <1>6, <1>7, <1>8, <1>9, <1>10, <1>11, <1>12 DEF o, S

\* A store of a call that arrives moves the state of its device on.
LEMMA CallDelivers ==
  ASSUME NEW c \in {0, 3}, NEW d \in 1 .. Len(Call(c)), Call(c)[d].do = "store",
         NEW D, NEW H, NEW e \in BOOLEAN, NEW b \in BOOLEAN,
         NEW D1, NEW e1, NEW b1, IsDev(D),
         CallState(c, d, D, H, e, b),
         Arrives(Store(Call(c)[d]), D, e, b, D1, e1, b1)
  PROVE  CallState(c, d + 1, D1, H, e1, b1)
<1> DEFINE s == Store(Call(c)[d])
           o == Copied(c)
<1>1. /\ o \in Nat /\ o <= 2 * vlen /\ 2 * vlen < MemWords /\ vlen \in Nat
      /\ MemWords \in Nat /\ d \in Nat /\ d >= 1
  <2>1. Len(Call(c)) = IF c = 0 THEN o + 9 ELSE o + 8
    BY CallOps DEF IsCall
  <2>2. o \in Nat /\ o <= 2 * vlen
    BY CallOps DEF IsCall
  <2>3. Len(Call(c)) \in Int
    BY <2>1, <2>2
  <2> QED BY <2>2, <2>3, Lengths
<1>n. o \in Int /\ d \in Int /\ d >= 1 /\ o >= 0
  BY <1>1
<1>2. /\ \A k \in 0 .. o - 1 : k \in 0 .. MemWords - 1
      /\ 2 * vlen \in 0 .. MemWords - 1
  BY <1>1
<1>3. /\ \A k \in 0 .. o - 1 : /\ Vdp!Mem(k) \in DevPlaces /\ Vdp!Mem(k) \notin Named
                               /\ Vdp!Mem(k) # Vdp!Mem(2 * vlen)
      /\ Vdp!Mem(2 * vlen) \in DevPlaces /\ Vdp!Mem(2 * vlen) \notin Named
      /\ Named \subseteq DevPlaces
  <2>1. \A k \in 0 .. o - 1 : k # 2 * vlen
    BY <1>1
  <2> QED BY <2>1, <1>2, Kinds
<1>4. ASSUME NEW x, NEW v, D1 = [D EXCEPT ![x] = v]
      PROVE  /\ \A y \in DevPlaces \ {x} : D1[y] = D[y]
             /\ x \in DevPlaces => D1[x] = v
  BY <1>4 DEF IsDev
<1>s. \/ d = 1 /\ s.to = Vdp!SacEnable
      \/ \E k \in 0 .. o - 1 : d = k + 2 /\ s.to = Vdp!Mem(k) /\ s.val = Word(k)
      \/ d = o + 2 /\ s.to = Vdp!INPUT_A_PTR /\ s.val = PtrA(c)
      \/ d = o + 3 /\ s.to = Vdp!INPUT_B_PTR /\ s.val = PtrB(c)
      \/ d = o + 4 /\ s.to = Vdp!INPUT_LEN /\ s.val = vlen
      \/ d = o + 5 /\ s.to = Vdp!RESP_PTR /\ s.val = PtrResp(c)
      \/ d = o + 6 /\ s.to = Vdp!RESP_LEN
      \/ d = o + 7 /\ s.to = Vdp!START_CMD
  BY StoresOfCall
<1>o. o = Copied(c)
  OBVIOUS
<1>r. Arrives(s, D, e, b, D1, e1, b1)
  OBVIOUS
<1> HIDE DEF s, o
<1>a. /\ s.to = Vdp!SacEnable => e1 = TRUE /\ D1 = D /\ b1 = b
      /\ \A k : s.to = Vdp!Mem(k) /\ e =>
           e1 = e /\ b1 = b /\ D1 = [D EXCEPT ![Vdp!Mem(k)] = s.val]
      /\ s.to \in Named \ {Vdp!START_CMD} =>
           e1 = e /\ b1 = b /\ D1 = [D EXCEPT ![s.to] = s.val]
      /\ s.to = Vdp!START_CMD =>
           e1 = e /\ b1 = TRUE /\ D1 = [D EXCEPT ![Vdp!RESP_STATUS] = 0]
  <2>1. Effect(s, D, e, b, D1, e1, b1)
    BY <1>r, Arrivals
  <2> QED BY <2>1 DEF Effect
<1>5. CASE d = 1 /\ s.to = Vdp!SacEnable
  <2>1. e1 = TRUE /\ D1 = D /\ b1 = b
    BY <1>5, <1>a
  <2>2. /\ \A k \in 0 .. o - 1 : ~(d + 1 > k + 2)
        /\ ~(d + 1 > o + 2) /\ ~(d + 1 > o + 3) /\ ~(d + 1 > o + 4) /\ ~(d + 1 > o + 5)
        /\ ~(d + 1 > o + 7) /\ ~(d + 1 > o + 8) /\ ~(d + 1 > o + 9) /\ d <= o + 7
    BY <1>n, <1>5
  <2>3. Configured(c, d + 1, D1, e1)
    BY <2>1, <2>2 DEF Configured, o
  <2>4. ~b /\ D[Vdp!RESP_STATUS] = 0
    BY <2>2 DEF CallState, Started, o
  <2>5. Started(c, d + 1, D1, H, b1)
    BY <2>1, <2>2, <2>4 DEF Started, o
  <2> QED BY <2>3, <2>5 DEF CallState
<1>6. ASSUME NEW k \in 0 .. o - 1, d = k + 2, s.to = Vdp!Mem(k), s.val = Word(k)
      PROVE  CallState(c, d + 1, D1, H, e1, b1)
  <2>1. e = TRUE
    BY <1>1, <1>6 DEF CallState, Configured, o
  <2>2. e1 = e /\ b1 = b /\ D1 = [D EXCEPT ![Vdp!Mem(k)] = Word(k)]
    BY <2>1, <1>6, <1>a
  <2>3. /\ D1[Vdp!Mem(k)] = Word(k)
        /\ \A x \in Named : D1[x] = D[x]
        /\ D1[Vdp!Mem(2 * vlen)] = D[Vdp!Mem(2 * vlen)]
        /\ \A j \in 0 .. o - 1 : j # k => D1[Vdp!Mem(j)] = D[Vdp!Mem(j)]
    <3>1. \A y \in DevPlaces \ {Vdp!Mem(k)} : D1[y] = D[y]
      BY <2>2, <1>4
    <3>2. D1[Vdp!Mem(k)] = Word(k)
      BY <2>2, <1>3, <1>4
    <3>3. \A j \in 0 .. o - 1 : j # k => Vdp!Mem(j) \in DevPlaces \ {Vdp!Mem(k)}
      BY <1>3, Kinds
    <3> QED BY <3>1, <3>2, <3>3, <1>3
  <2>4. Configured(c, d + 1, D1, e1)
    <3>1. \A j \in 0 .. o - 1 : d + 1 > j + 2 => D1[Vdp!Mem(j)] = Word(j)
      <4> TAKE j \in 0 .. o - 1
      <4>1. j # k /\ d + 1 > j + 2 => d > j + 2
        BY <1>n, <1>6
      <4> QED BY <4>1, <2>3 DEF CallState, Configured, o
    <3>2. ~(d + 1 > o + 2) /\ ~(d + 1 > o + 3) /\ ~(d + 1 > o + 4) /\ ~(d + 1 > o + 5)
      BY <1>n, <1>6
    <3> QED BY <3>1, <3>2, <2>1, <2>2 DEF Configured, o
  <2>5. Started(c, d + 1, D1, H, b1)
    <3>1. d + 1 <= o + 7 /\ d <= o + 7 /\ ~(d + 1 > o + 7) /\ ~(d + 1 > o + 8) /\ ~(d + 1 > o + 9)
      BY <1>n, <1>6
    <3>2. ~b1 /\ D1[Vdp!RESP_STATUS] = 0
      BY <3>1, <2>2, <2>3 DEF CallState, Started, Named, o
    <3> QED BY <3>1, <3>2 DEF Started, o
  <2> QED BY <2>4, <2>5 DEF CallState
<1>7. ASSUME NEW x \in Named \ {Vdp!START_CMD, Vdp!RESP_STATUS}, NEW v,
             s.to = x, s.val = v, d > o + 1, d <= o + 6,
             d = o + 2 => x = Vdp!INPUT_A_PTR /\ v = PtrA(c),
             d = o + 3 => x = Vdp!INPUT_B_PTR /\ v = PtrB(c),
             d = o + 4 => x = Vdp!INPUT_LEN /\ v = vlen,
             d = o + 5 => x = Vdp!RESP_PTR /\ v = PtrResp(c),
             d = o + 6 => x = Vdp!RESP_LEN
      PROVE  CallState(c, d + 1, D1, H, e1, b1)
  <2>1. e1 = e /\ b1 = b /\ D1 = [D EXCEPT ![x] = v]
    BY <1>7, <1>a
  <2>2. /\ D1[x] = v /\ \A y \in Named \ {x} : D1[y] = D[y]
        /\ \A j \in 0 .. o - 1 : D1[Vdp!Mem(j)] = D[Vdp!Mem(j)]
    <3>1. x \in DevPlaces
      BY <1>3
    <3>2. D1[x] = v /\ \A y \in DevPlaces \ {x} : D1[y] = D[y]
      BY <2>1, <3>1, <1>4
    <3> QED BY <3>2, <1>3
  <2>3. /\ \A j \in 0 .. o - 1 : D1[Vdp!Mem(j)] = Word(j)
        /\ e = TRUE
    <3>1. d > 1 /\ \A j \in 0 .. o - 1 : d > j + 2
      BY <1>n, <1>7
    <3> QED BY <3>1, <2>2 DEF CallState, Configured, o
  <2>4. /\ d + 1 > o + 2 => D1[Vdp!INPUT_A_PTR] = PtrA(c)
        /\ d + 1 > o + 3 => D1[Vdp!INPUT_B_PTR] = PtrB(c)
        /\ d + 1 > o + 4 => D1[Vdp!INPUT_LEN] = vlen
        /\ d + 1 > o + 5 => D1[Vdp!RESP_PTR] = PtrResp(c)
    <3>1. /\ d + 1 > o + 2 <=> d > o + 2 \/ d = o + 2
          /\ d + 1 > o + 3 <=> d > o + 3 \/ d = o + 3
          /\ d + 1 > o + 4 <=> d > o + 4 \/ d = o + 4
          /\ d + 1 > o + 5 <=> d > o + 5 \/ d = o + 5
      BY <1>n
    <3>2. /\ d > o + 2 => d # o + 2
          /\ d > o + 3 => d # o + 2 /\ d # o + 3
          /\ d > o + 4 => d # o + 2 /\ d # o + 3 /\ d # o + 4
          /\ d > o + 5 => d # o + 2 /\ d # o + 3 /\ d # o + 4 /\ d # o + 5
          /\ d = o + 2 \/ d = o + 3 \/ d = o + 4 \/ d = o + 5 \/ d = o + 6
      BY <1>n, <1>7
    <3>3. /\ d > o + 2 => D[Vdp!INPUT_A_PTR] = PtrA(c)
          /\ d > o + 3 => D[Vdp!INPUT_B_PTR] = PtrB(c)
          /\ d > o + 4 => D[Vdp!INPUT_LEN] = vlen
          /\ d > o + 5 => D[Vdp!RESP_PTR] = PtrResp(c)
      BY DEF CallState, Configured, o
    <3>4. /\ d > o + 2 => x # Vdp!INPUT_A_PTR
          /\ d > o + 3 => x # Vdp!INPUT_B_PTR
          /\ d > o + 4 => x # Vdp!INPUT_LEN
          /\ d > o + 5 => x # Vdp!RESP_PTR
      BY <3>2, <1>7, Places
    <3> QED BY <3>1, <3>3, <3>4, <2>2, <1>7 DEF Named
  <2>5. Configured(c, d + 1, D1, e1)
    BY <2>1, <2>3, <2>4 DEF Configured, o
  <2>6. Started(c, d + 1, D1, H, b1)
    <3>0. d <= o + 6
      BY <1>7
    <3>1. d + 1 <= o + 7 /\ d <= o + 7 /\ ~(d + 1 > o + 7) /\ ~(d + 1 > o + 8) /\ ~(d + 1 > o + 9)
      BY <1>n, <3>0
    <3>2. ~b1 /\ D1[Vdp!RESP_STATUS] = 0
      BY <3>1, <2>1, <2>2 DEF CallState, Started, Named, o
    <3> QED BY <3>1, <3>2 DEF Started, o
  <2> QED BY <2>5, <2>6 DEF CallState
<1>8. ASSUME d = o + 7, s.to = Vdp!START_CMD
      PROVE  CallState(c, d + 1, D1, H, e1, b1)
  <2>1. e1 = e /\ b1 = TRUE /\ D1 = [D EXCEPT ![Vdp!RESP_STATUS] = 0]
    BY <1>8, <1>a
  <2>2. /\ D1[Vdp!RESP_STATUS] = 0
        /\ \A y \in Named \ {Vdp!RESP_STATUS} : D1[y] = D[y]
        /\ \A j \in 0 .. o - 1 : D1[Vdp!Mem(j)] = D[Vdp!Mem(j)]
    BY <2>1, <1>3, <1>4 DEF Named
  <2>3. /\ d > 1 /\ \A j \in 0 .. o - 1 : d > j + 2
        /\ d > o + 2 /\ d > o + 3 /\ d > o + 4 /\ d > o + 5
        /\ ~(d + 1 <= o + 7) /\ ~(d + 1 > o + 8) /\ ~(d + 1 > o + 9)
    BY <1>1, <1>8
  <2>4. Configured(c, d + 1, D1, e1)
    BY <2>1, <2>2, <2>3, Places DEF CallState, Configured, Named, o
  <2>5. Started(c, d + 1, D1, H, b1)
    BY <2>1, <2>2, <2>3 DEF Started, o
  <2> QED BY <2>4, <2>5 DEF CallState
<1>10. CASE d > o + 1 /\ d <= o + 6
  <2>1. \A k \in 0 .. o - 1 : d # k + 2
    BY <1>n, <1>10
  <2>2. /\ s.to \in Named \ {Vdp!START_CMD, Vdp!RESP_STATUS}
        /\ d = o + 2 => s.to = Vdp!INPUT_A_PTR /\ s.val = PtrA(c)
        /\ d = o + 3 => s.to = Vdp!INPUT_B_PTR /\ s.val = PtrB(c)
        /\ d = o + 4 => s.to = Vdp!INPUT_LEN /\ s.val = vlen
        /\ d = o + 5 => s.to = Vdp!RESP_PTR /\ s.val = PtrResp(c)
        /\ d = o + 6 => s.to = Vdp!RESP_LEN
    <3>1. d # 1 /\ d # o + 7
      BY <1>n, <1>10
    <3>2. /\ d = o + 2 => d # o + 3 /\ d # o + 4 /\ d # o + 5 /\ d # o + 6
          /\ d = o + 3 => d # o + 4 /\ d # o + 5 /\ d # o + 6
          /\ d = o + 4 => d # o + 5 /\ d # o + 6
          /\ d = o + 5 => d # o + 6
      BY <1>n
    <3> QED BY <2>1, <3>1, <3>2, <1>s, Places DEF Named
  <2> QED BY <2>2, <1>7, <1>10
<1>11. CASE ~(d > o + 1 /\ d <= o + 6)
  <2>1. d # o + 2 /\ d # o + 3 /\ d # o + 4 /\ d # o + 5 /\ d # o + 6
    BY <1>n, <1>11
  <2> QED BY <2>1, <1>5, <1>6, <1>8, <1>s
<1> QED BY <1>10, <1>11

-----------------------------------------------------------------------------
(* The device computes, and the core reads what it has computed *)

\* An operand is in one place only.
LEMMA Spaces ==
  /\ \A k, array : Vdp!InDevice(k) # Vdp!InMain(array)
  /\ \A j, k : Vdp!InDevice(j) = Vdp!InDevice(k) => j = k
  /\ \A k : Vdp!InDevice(k).word = k
  /\ Vdp!InMain("a") # Vdp!InMain("b")
<1>1. /\ \A k : Vdp!InDevice(k).space = "device" /\ Vdp!InDevice(k).word = k
      /\ \A array : Vdp!InMain(array).space = "main" /\ Vdp!InMain(array).array = array
  BY DEF Vdp!InDevice, Vdp!InMain
<1> QED BY <1>1

\* From the start command on, the operands are those main set up.
LEMMA OperandsFound ==
  ASSUME NEW c \in {0, 3}, NEW d, NEW e,
         Configured(c, d, dev[c], e), d \in Nat, d > Copied(c) + 7
  PROVE  /\ Vdp!Operand(c, Vdp!INPUT_A_PTR) = Vdp!input_array_a
         /\ Vdp!Operand(c, Vdp!INPUT_B_PTR) = Vdp!input_array_b
<1> DEFINE o == Copied(c)
           D == dev[c]
<1>1. o \in Nat /\ vlen \in Nat
  BY CallOps, Lengths DEF IsCall
<1>2. /\ d > o + 2 /\ d > o + 3 /\ d > o + 4
      /\ \A k \in 0 .. o - 1 : d > k + 2
  <2>1. d > o + 7
    OBVIOUS
  <2> HIDE DEF o
  <2> QED BY <1>1, <2>1
<1>3. /\ D[Vdp!INPUT_A_PTR] = PtrA(c) /\ D[Vdp!INPUT_B_PTR] = PtrB(c)
      /\ D[Vdp!INPUT_LEN] = vlen
      /\ \A k \in 0 .. o - 1 : D[Vdp!Mem(k)] = Word(k)
  BY <1>2 DEF Configured
<1>4. /\ Vdp!Operand(c, Vdp!INPUT_A_PTR) =
           [k \in 1 .. vlen |->
              CASE PtrA(c) = Vdp!InDevice(0) -> D[Vdp!Mem(k - 1)]
                [] PtrA(c) = Vdp!InDevice(vlen) -> D[Vdp!Mem(vlen + k - 1)]
                [] PtrA(c) = Vdp!InMain("a") -> Vdp!input_array_a[k]
                [] PtrA(c) = Vdp!InMain("b") -> Vdp!input_array_b[k]]
      /\ Vdp!Operand(c, Vdp!INPUT_B_PTR) =
           [k \in 1 .. vlen |->
              CASE PtrB(c) = Vdp!InDevice(0) -> D[Vdp!Mem(k - 1)]
                [] PtrB(c) = Vdp!InDevice(vlen) -> D[Vdp!Mem(vlen + k - 1)]
                [] PtrB(c) = Vdp!InMain("a") -> Vdp!input_array_a[k]
                [] PtrB(c) = Vdp!InMain("b") -> Vdp!input_array_b[k]]
  BY <1>3 DEF Vdp!Operand
<1>5. /\ Vdp!input_array_a = [k \in 1 .. vlen |-> Vdp!input_array_a[k]]
      /\ Vdp!input_array_b = [k \in 1 .. vlen |-> Vdp!input_array_b[k]]
  BY DEF Vdp!input_array_a, Vdp!input_array_b
<1> HIDE DEF o, D
<1>6. CASE c = 0
  <2>1. o = 2 * vlen /\ PtrA(c) = Vdp!InDevice(0) /\ PtrB(c) = Vdp!InDevice(vlen)
    BY <1>6 DEF o, Copied, PtrA, PtrB
  <2>2. ASSUME NEW k \in 1 .. vlen
        PROVE  /\ D[Vdp!Mem(k - 1)] = Vdp!input_array_a[k]
               /\ D[Vdp!Mem(vlen + k - 1)] = Vdp!input_array_b[k]
               /\ vlen # 0
    <3>1. /\ k - 1 \in 0 .. o - 1 /\ k - 1 < vlen /\ k - 1 + 1 = k
          /\ vlen + k - 1 \in 0 .. o - 1 /\ ~(vlen + k - 1 < vlen)
          /\ vlen + k - 1 - vlen + 1 = k
      BY <1>1, <2>1
    <3>2. /\ \A i : i < vlen => Word(i) = Vdp!input_array_a[i + 1]
          /\ \A i : ~(i < vlen) => Word(i) = Vdp!input_array_b[i - vlen + 1]
      BY DEF Word
    <3>3. Word(k - 1) = Vdp!input_array_a[k - 1 + 1]
      BY <3>1, <3>2
    <3>4. Word(vlen + k - 1) = Vdp!input_array_b[k]
      <4> DEFINE i == vlen + k - 1
      <4>1. ~(i < vlen) /\ i - vlen + 1 = k
        BY <1>1
      <4> HIDE DEF i
      <4>2. Word(i) = Vdp!input_array_b[k]
        BY <4>1, <3>2
      <4> QED BY <4>2 DEF i
    <3> QED BY <3>1, <3>3, <3>4, <1>1, <1>3
  <2>3. \A k \in 1 .. vlen : Vdp!InDevice(vlen) # Vdp!InDevice(0)
    BY <2>2, Spaces
  <2>4. /\ PtrA(c) # Vdp!InMain("a") /\ PtrA(c) # Vdp!InMain("b")
        /\ PtrB(c) # Vdp!InMain("a") /\ PtrB(c) # Vdp!InMain("b")
    BY <2>1, Spaces
  <2>5. Vdp!Operand(c, Vdp!INPUT_A_PTR) = [k \in 1 .. vlen |-> Vdp!input_array_a[k]]
    BY <1>4, <2>1, <2>2, <2>3, <2>4
  <2>6. Vdp!Operand(c, Vdp!INPUT_B_PTR) = [k \in 1 .. vlen |-> Vdp!input_array_b[k]]
    BY <1>4, <2>1, <2>2, <2>3, <2>4
  <2> QED BY <2>5, <2>6, <1>5
<1>7. CASE c = 3
  <2>1. PtrA(c) = Vdp!InMain("a") /\ PtrB(c) = Vdp!InMain("b")
    BY <1>7 DEF PtrA, PtrB
  <2>2. /\ PtrA(c) # Vdp!InDevice(0) /\ PtrA(c) # Vdp!InDevice(vlen)
        /\ PtrB(c) # Vdp!InDevice(0) /\ PtrB(c) # Vdp!InDevice(vlen)
        /\ PtrA(c) # Vdp!InMain("b") /\ PtrB(c) # Vdp!InMain("a")
    BY <2>1, Spaces
  <2>3. Vdp!Operand(c, Vdp!INPUT_A_PTR) = [k \in 1 .. vlen |-> Vdp!input_array_a[k]]
    BY <1>4, <2>1, <2>2
  <2>4. Vdp!Operand(c, Vdp!INPUT_B_PTR) = [k \in 1 .. vlen |-> Vdp!input_array_b[k]]
    BY <1>4, <2>1, <2>2
  <2> QED BY <2>3, <2>4, <1>5
<1> QED BY <1>6, <1>7

\* Where the answer goes
Writes(D, H, D1, H1) ==
  IF D[Vdp!RESP_PTR] = Vdp!InMain("resp")
  THEN H1 = [H EXCEPT ![1] = Dot] /\ D1 = [D EXCEPT ![Vdp!RESP_STATUS] = 1]
  ELSE /\ D1 = [D EXCEPT ![Vdp!Mem(D[Vdp!RESP_PTR].word)] = Dot,
                        ![Vdp!RESP_STATUS] = 1]
       /\ H1 = H

\* The device writes its answer over no operand and before its status.
LEMMA CallComputes ==
  ASSUME NEW c \in {0, 3}, NEW d \in Nat, NEW D, NEW H, NEW e \in BOOLEAN, NEW b, NEW b1,
         IsDev(D), IsHost(H),
         b = TRUE, b1 = FALSE,
         CallState(c, d, D, H, e, b), NEW D1, NEW H1,
         Writes(D, H, D1, H1)
  PROVE  /\ CallState(c, d, D1, H1, e, b1)
         /\ IsDev(D1) /\ IsHost(H1)
<1> DEFINE o == Copied(c)
<1>1. o \in Nat /\ o <= 2 * vlen /\ vlen \in Nat /\ 2 * vlen < MemWords /\ MemWords \in Nat
  BY CallOps, Lengths DEF IsCall
<1>2. ~(d <= o + 7) /\ ~(d > o + 8)
  BY <1>1 DEF CallState, Started
<1>3. d > o + 5 /\ d > o + 7 /\ ~(d > o + 9) /\ \A k \in 0 .. o - 1 : d > k + 2
  <2> HIDE DEF o
  <2> QED BY <1>1, <1>2
<1>4. D[Vdp!RESP_PTR] = PtrResp(c)
  BY <1>3 DEF CallState, Configured
<1>5. IsDev(D1) /\ IsHost(H1)
  BY DEF IsDev, IsHost, Writes
<1> DEFINE m == 2 * vlen
<1>6. /\ m \in 0 .. MemWords - 1
      /\ \A k \in 0 .. o - 1 : k \in 0 .. MemWords - 1 /\ k # m
  <2> HIDE DEF o
  <2> QED BY <1>1
<1>7. /\ Vdp!Mem(m) \in DevPlaces /\ Vdp!Mem(m) \notin Named
      /\ \A k \in 0 .. o - 1 : /\ Vdp!Mem(k) \in DevPlaces \ {Vdp!Mem(m)}
                               /\ Vdp!Mem(k) \notin Named
      /\ Named \subseteq DevPlaces /\ Vdp!RESP_STATUS \in Named
  <2> HIDE DEF o, m
  <2> QED BY <1>6, Kinds DEF Named
<1>8. /\ \A y \in DevPlaces \ {Vdp!Mem(m), Vdp!RESP_STATUS} : D1[y] = D[y]
      /\ D1[Vdp!RESP_STATUS] = 1 /\ Answer(c, D1, H1) = Dot
  <2> HIDE DEF m
  <2>1. CASE c = 0
    <3>1. D[Vdp!RESP_PTR] # Vdp!InMain("resp") /\ D[Vdp!RESP_PTR].word = m
      BY <2>1, <1>4, Spaces DEF PtrResp, m
    <3>2. D1 = [D EXCEPT ![Vdp!Mem(m)] = Dot, ![Vdp!RESP_STATUS] = 1]
      BY <3>1 DEF Writes
    <3>3. /\ \A y \in DevPlaces \ {Vdp!Mem(m), Vdp!RESP_STATUS} : D1[y] = D[y]
          /\ D1[Vdp!RESP_STATUS] = 1 /\ D1[Vdp!Mem(m)] = Dot
      BY <3>2, <1>7 DEF IsDev
    <3> QED BY <3>3, <2>1 DEF Answer, m
  <2>2. CASE c = 3
    <3>1. D[Vdp!RESP_PTR] = Vdp!InMain("resp")
      BY <2>2, <1>4 DEF PtrResp
    <3>2. H1 = [H EXCEPT ![1] = Dot] /\ D1 = [D EXCEPT ![Vdp!RESP_STATUS] = 1]
      BY <3>1 DEF Writes
    <3>3. 1 \in 1 .. word_count + 1
      BY Lengths
    <3>4. H1[1] = Dot
      BY <3>2, <3>3 DEF IsHost
    <3>5. /\ \A y \in DevPlaces \ {Vdp!Mem(m), Vdp!RESP_STATUS} : D1[y] = D[y]
          /\ D1[Vdp!RESP_STATUS] = 1
      BY <3>2, <1>7 DEF IsDev
    <3> QED BY <3>4, <3>5, <2>2 DEF Answer
  <2> QED BY <2>1, <2>2
<1>9. /\ D1[Vdp!INPUT_A_PTR] = D[Vdp!INPUT_A_PTR] /\ D1[Vdp!INPUT_B_PTR] = D[Vdp!INPUT_B_PTR]
      /\ D1[Vdp!INPUT_LEN] = D[Vdp!INPUT_LEN] /\ D1[Vdp!RESP_PTR] = D[Vdp!RESP_PTR]
      /\ \A k \in 0 .. o - 1 : D1[Vdp!Mem(k)] = D[Vdp!Mem(k)]
  <2> HIDE DEF o, m
  <2> QED BY <1>7, <1>8, Places DEF Named
<1>10. Configured(c, d, D1, e)
  BY <1>9 DEF CallState, Configured
<1>11. Started(c, d, D1, H1, b1)
  BY <1>2, <1>3, <1>8 DEF Started
<1> QED BY <1>5, <1>10, <1>11 DEF CallState

\* Behind the start command a call polls the status and, when the accelerator
\* has its own memory, reads the response there.
LEMMA AnswersOfCall ==
  ASSUME NEW c \in {0, 3}, NEW d \in 1 .. Len(Call(c)), Call(c)[d].do # "store"
  PROVE  LET op == Call(c)[d]
             o == Copied(c)
         IN  \/ d = o + 8 /\ op.do = "wait" /\ op.from = Vdp!RESP_STATUS
             \/ /\ c = 0 /\ d = o + 9 /\ op.do = "load"
                /\ op.from = Vdp!Mem(2 * vlen) /\ op.to = 1
<1> DEFINE S == Call(c)
           o == Copied(c)
<1>0. IsCall(c, S, o)
  BY CallOps
<1>3. d \in 1 .. Len(S) /\ S[d].do # "store"
  OBVIOUS
<1> HIDE DEF S, o
<1>n. o \in Nat
  BY <1>0 DEF IsCall
<1>1. /\ o \in Nat /\ Len(S) = (IF c = 0 THEN o + 9 ELSE o + 8)
      /\ S[1].do = "store" /\ \A k \in 0 .. o - 1 : S[k + 2].do = "store"
      /\ S[o + 2].do = "store" /\ S[o + 3].do = "store" /\ S[o + 4].do = "store"
      /\ S[o + 5].do = "store" /\ S[o + 6].do = "store" /\ S[o + 7].do = "store"
  <2>1. \A to, val : Vdp!Set(to, val).do = "store"
    BY DEF Vdp!Set
  <2>2. \A k \in 0 .. o - 1 : S[k + 2].do = "store"
    <3> TAKE k \in 0 .. o - 1
    <3>1. S[k + 2] = Vdp!Set(Vdp!Mem(k), Word(k))
      BY <1>0 DEF IsCall
    <3> QED BY <3>1, <2>1
  <2>3. /\ S[1].do = "store" /\ S[o + 2].do = "store" /\ S[o + 3].do = "store"
        /\ S[o + 4].do = "store"
    BY <2>1, <1>0 DEF IsCall
  <2>4. S[o + 5].do = "store" /\ S[o + 6].do = "store" /\ S[o + 7].do = "store"
    BY <2>1, <1>0 DEF IsCall
  <2>5. Len(S) = (IF c = 0 THEN o + 9 ELSE o + 8)
    BY <1>0 DEF IsCall
  <2> QED BY <2>2, <2>3, <2>4, <2>5, <1>n
<1>2. /\ S[o + 8].do = "wait" /\ S[o + 8].from = Vdp!RESP_STATUS
      /\ c = 0 => /\ S[o + 9].do = "load" /\ S[o + 9].to = 1
                  /\ S[o + 9].from = Vdp!Mem(2 * vlen)
  BY <1>0, <1>n DEF IsCall, Vdp!WaitFor, Vdp!Get
<1>4. /\ d # 1 /\ d # o + 2 /\ d # o + 3 /\ d # o + 4 /\ d # o + 5 /\ d # o + 6
      /\ d # o + 7 /\ \A k \in 0 .. o - 1 : d # k + 2
  BY <1>1, <1>3
<1>5. d \in Nat /\ d >= 1 /\ (c = 0 => d <= o + 9) /\ (c # 0 => d <= o + 8)
  BY <1>1, <1>3
<1>6. ~(d >= 2 /\ d < o + 2)
  <2>1. ASSUME d >= 2, d < o + 2 PROVE FALSE
    <3>1. d - 2 \in 0 .. o - 1 /\ d = (d - 2) + 2
      BY <2>1, <1>n, <1>5
    <3> QED BY <3>1, <1>4
  <2> QED BY <2>1
<1>7. d = o + 8 \/ (c = 0 /\ d = o + 9)
  BY <1>n, <1>4, <1>5, <1>6
<1> QED BY <1>2, <1>7 DEF S, o

\* The core moves on when the poll finds the status set, when the load is
\* answered, and to bp_finish.
LEMMA CallAnswered ==
  ASSUME NEW c \in {0, 3}, NEW d \in 1 .. Len(Call(c)) + 1,
         NEW D, NEW H, NEW e, NEW b, NEW H1,
         H = [k \in 1 .. word_count + 1 |-> H[k]],
         CallState(c, d, D, H, e, b),
         \/ /\ d <= Len(Call(c)) /\ Call(c)[d].do = "wait"
            /\ D[Call(c)[d].from] # 0 /\ H1 = H
         \/ /\ d <= Len(Call(c)) /\ Call(c)[d].do = "load"
            /\ H1 = [H EXCEPT ![Call(c)[d].to] = D[Call(c)[d].from]]
         \/ d = Len(Call(c)) + 1 /\ H1 = H
  PROVE  /\ CallState(c, d + 1, D, H1, e, b)
         /\ H1 = [k \in 1 .. word_count + 1 |-> H1[k]]
<1> DEFINE S == Call(c)
           o == Copied(c)
<1>1. o \in Nat /\ Len(S) = (IF c = 0 THEN o + 9 ELSE o + 8)
  BY CallOps DEF IsCall
<1>2. d \in Nat /\ Len(S) \in Nat
  <2>1. d \in 1 .. Len(S) + 1
    OBVIOUS
  <2> HIDE DEF S, o
  <2> QED BY <1>1, <2>1
<1>3. \/ d = o + 8 /\ D[Vdp!RESP_STATUS] # 0 /\ H1 = H
      \/ c = 0 /\ d = o + 9 /\ H1 = [H EXCEPT ![1] = D[Vdp!Mem(2 * vlen)]]
      \/ d > o + 8 /\ (c = 0 => d > o + 9) /\ H1 = H
  <2>1. CASE d \in 1 .. Len(S)
    <3>1. S[d].do # "store" /\ d # Len(S) + 1
      BY <2>1, <1>2
    <3>2. \/ d = o + 8 /\ S[d].do = "wait" /\ S[d].from = Vdp!RESP_STATUS
          \/ /\ c = 0 /\ d = o + 9 /\ S[d].do = "load"
             /\ S[d].from = Vdp!Mem(2 * vlen) /\ S[d].to = 1
      BY <2>1, <3>1, AnswersOfCall
    <3> QED BY <3>1, <3>2
  <2>2. CASE d = Len(S) + 1
    <3>1. H1 = H
      BY <2>2, <1>2
    <3> HIDE DEF S, o
    <3> QED BY <2>2, <3>1, <1>1
  <2> QED BY <2>1, <2>2, <1>2
<1>4. H1 = [k \in 1 .. word_count + 1 |-> H1[k]]
  BY <1>3
<1>5. Configured(c, d + 1, D, e)
  <2>1. /\ d > 1 /\ d > o + 2 /\ d > o + 3 /\ d > o + 4 /\ d > o + 5
        /\ \A k \in 0 .. o - 1 : d > k + 2
    <3> HIDE DEF o
    <3> QED BY <1>1, <1>2, <1>3
  <2> QED BY <2>1 DEF CallState, Configured
<1>6. Started(c, d + 1, D, H1, b)
  <2>1. /\ ~(d <= o + 7) /\ d > o + 7 /\ ~(d + 1 <= o + 7) /\ d + 1 > o + 7
        /\ (d > o + 8 \/ d = o + 8) /\ (d = o + 8 => ~(d + 1 > o + 9))
        /\ (c = 0 /\ d + 1 > o + 9 => d = o + 9 \/ d > o + 9)
    <3> HIDE DEF o
    <3> QED BY <1>1, <1>2, <1>3
  <2>2. D[Vdp!RESP_STATUS] # 0
    BY <2>1, <1>3 DEF CallState, Started
  <2>3. ~b /\ D[Vdp!RESP_STATUS] = 1 /\ Answer(c, D, H) = Dot
    BY <2>1, <2>2 DEF CallState, Started
  <2>4. c = 0 => D[Vdp!Mem(2 * vlen)] = Dot
    BY <2>3 DEF Answer
  <2>5. Answer(c, D, H1) = Dot
    <3>1. c # 0 => H1 = H
      BY <1>3
    <3> QED BY <2>3, <3>1 DEF Answer
  <2>6. c = 0 /\ d + 1 > o + 9 => H1[1] = Dot
    <3>1. 1 \in 1 .. word_count + 1
      BY Lengths
    <3>2. c = 0 /\ d = o + 9 => H1[1] = Dot
      <4>1. d = o + 9 => d # o + 8 /\ ~(d > o + 9)
        <5> HIDE DEF o
        <5> QED BY <1>1, <1>2
      <4> QED BY <4>1, <1>3, <2>4, <3>1
    <3>3. c = 0 /\ d > o + 9 => H1[1] = Dot
      <4>1. d > o + 9 => d # o + 8 /\ d # o + 9
        <5> HIDE DEF o
        <5> QED BY <1>1, <1>2
      <4> QED BY <4>1, <1>3 DEF CallState, Started
    <3> QED BY <2>1, <3>2, <3>3
  <2> QED BY <2>1, <2>2, <2>3, <2>5, <2>6 DEF Started
<1> QED BY <1>4, <1>5, <1>6 DEF CallState

-----------------------------------------------------------------------------
(* The loopback *)

\* First the stores, then the loads
LEMMA LoopbackParts ==
  ASSUME NEW d \in 1 .. Len(Vdp!LoopbackCopy)
  PROVE  LET op == Vdp!LoopbackCopy[d] IN
         \/ d = 1 /\ op.do = "store" /\ Store(op).to = Vdp!SacEnable
         \/ \E k \in 1 .. word_count :
              /\ d = k + 1 /\ op.do = "store" /\ Store(op).to = Vdp!Mem(k - 1)
              /\ Store(op).val = Vdp!input_array[k]
         \/ \E k \in 1 .. word_count :
              /\ d = word_count + k + 1 /\ op.do = "load"
              /\ op.from = Vdp!Mem(k - 1) /\ op.to = k
         \/ d = 2 * word_count + 2 /\ op.do = "load" /\ op.to = word_count + 1
<1> DEFINE S == Vdp!LoopbackCopy
           n == word_count
<1>1. /\ n \in Nat /\ Len(S) = 2 * n + 2
      /\ S[1] = Vdp!Set(Vdp!SacEnable, 1)
      /\ \A k \in 1 .. n : /\ S[k + 1] = Vdp!Set(Vdp!Mem(k - 1), Vdp!input_array[k])
                           /\ S[n + k + 1] = Vdp!Get(Vdp!Mem(k - 1), k)
      /\ S[2 * n + 2] = Vdp!Get(Vdp!Mem(0), n + 1)
  BY LoopbackOps, Lengths
<1>2. d \in 1 .. Len(S)
  OBVIOUS
<1>3. /\ \A to, val : /\ Vdp!Set(to, val).do = "store"
                      /\ Store(Vdp!Set(to, val)).to = to
                      /\ Store(Vdp!Set(to, val)).val = val
      /\ \A from, to : /\ Vdp!Get(from, to).do = "load"
                       /\ Vdp!Get(from, to).from = from
                       /\ Vdp!Get(from, to).to = to
  BY DEF Vdp!Set, Vdp!Get, Store
<1> HIDE DEF S, n
<1>4. n \in Nat /\ d \in 1 .. 2 * n + 2
  BY <1>1, <1>2
<1>5. CASE d = 1
  BY <1>5, <1>1, <1>3 DEF S, n
<1>6. CASE d >= 2 /\ d <= n + 1
  <2>1. d - 1 \in 1 .. n /\ d = (d - 1) + 1
    BY <1>6, <1>4
  <2>2. PICK k \in 1 .. n : d = k + 1
    BY <2>1
  <2>3. S[d] = Vdp!Set(Vdp!Mem(k - 1), Vdp!input_array[k])
    BY <2>2, <1>1
  <2> QED BY <2>2, <2>3, <1>3 DEF S, n
<1>7. CASE d > n + 1 /\ d <= 2 * n + 1
  <2>1. d - n - 1 \in 1 .. n /\ d = n + (d - n - 1) + 1
    BY <1>7, <1>4
  <2>2. PICK k \in 1 .. n : d = n + k + 1
    BY <2>1
  <2>3. S[d] = Vdp!Get(Vdp!Mem(k - 1), k)
    BY <2>2, <1>1
  <2> QED BY <2>2, <2>3, <1>3 DEF S, n
<1>8. CASE d = 2 * n + 2
  BY <1>8, <1>1, <1>3 DEF S, n
<1> QED BY <1>4, <1>5, <1>6, <1>7, <1>8

\* A word that arrives stays where it was sent.
LEMMA LoopbackDelivers ==
  ASSUME NEW d \in 1 .. Len(Vdp!LoopbackCopy), Vdp!LoopbackCopy[d].do = "store",
         NEW D, NEW H, NEW e \in BOOLEAN, NEW b \in BOOLEAN,
         NEW D1, NEW e1, NEW b1, IsDev(D),
         LoopbackState(d, D, H, e, b),
         Arrives(Store(Vdp!LoopbackCopy[d]), D, e, b, D1, e1, b1)
  PROVE  LoopbackState(d + 1, D1, H, e1, b1)
<1> DEFINE s == Store(Vdp!LoopbackCopy[d])
           n == word_count
<1>1. \/ d = 1 /\ s.to = Vdp!SacEnable
      \/ \E k \in 1 .. n :
           d = k + 1 /\ s.to = Vdp!Mem(k - 1) /\ s.val = Vdp!input_array[k]
  BY LoopbackParts
<1>2. n \in Nat /\ n <= MemWords /\ MemWords \in Nat
  BY Lengths
<1>3. Effect(s, D, e, b, D1, e1, b1)
  BY Arrivals
<1> HIDE DEF s
<1>4. CASE d = 1 /\ s.to = Vdp!SacEnable
  <2>1. e1 = TRUE /\ D1 = D /\ b1 = b
    BY <1>3, <1>4 DEF Effect
  <2>2. \A k \in 1 .. n : ~(d + 1 > k + 1) /\ ~(d + 1 > n + k + 1)
    BY <1>2, <1>4
  <2> QED BY <2>1, <2>2 DEF LoopbackState
<1>5. ASSUME NEW k \in 1 .. n, d = k + 1, s.to = Vdp!Mem(k - 1), s.val = Vdp!input_array[k]
      PROVE  LoopbackState(d + 1, D1, H, e1, b1)
  <2>1. d > 1
    BY <1>2, <1>5
  <2>2. e = TRUE
    BY <2>1 DEF LoopbackState
  <2>3. e1 = e /\ b1 = b /\ D1 = [D EXCEPT ![Vdp!Mem(k - 1)] = Vdp!input_array[k]]
    BY <2>2, <1>3, <1>5 DEF Effect
  <2>4. \A j \in 1 .. n : j - 1 \in 0 .. MemWords - 1
    BY <1>2
  <2>5. \A j \in 1 .. n : j # k => j - 1 # k - 1
    BY <1>2
  <2>6. /\ \A j \in 1 .. n : Vdp!Mem(j - 1) \in DevPlaces
        /\ \A j \in 1 .. n : j # k => Vdp!Mem(j - 1) # Vdp!Mem(k - 1)
        /\ Vdp!RESP_STATUS \in DevPlaces /\ Vdp!RESP_STATUS # Vdp!Mem(k - 1)
    BY <2>4, <2>5, Kinds DEF Named
  <2>7. /\ D1[Vdp!Mem(k - 1)] = Vdp!input_array[k]
        /\ \A y \in DevPlaces \ {Vdp!Mem(k - 1)} : D1[y] = D[y]
    BY <2>3, <2>6 DEF IsDev
  <2>8. /\ D1[Vdp!RESP_STATUS] = 0 /\ ~b1
    BY <2>3, <2>6, <2>7 DEF LoopbackState
  <2>9. \A j \in 1 .. n : /\ d + 1 > j + 1 => j = k \/ d > j + 1
                          /\ ~(d + 1 > n + j + 1)
    BY <1>2, <1>5
  <2>10. \A j \in 1 .. n : d + 1 > j + 1 => D1[Vdp!Mem(j - 1)] = Vdp!input_array[j]
    <3> TAKE j \in 1 .. n
    <3>1. CASE j = k
      BY <3>1, <2>7
    <3>2. CASE j # k
      BY <3>2, <2>6, <2>7, <2>9 DEF LoopbackState
    <3> QED BY <3>1, <3>2
  <2> QED BY <2>2, <2>3, <2>8, <2>9, <2>10 DEF LoopbackState
<1> QED BY <1>1, <1>4, <1>5

\* A word that is read is the one that was sent: all of them had arrived.
LEMMA LoopbackAnswered ==
  ASSUME NEW d \in 1 .. Len(Vdp!LoopbackCopy) + 1,
         NEW D, NEW H, NEW e, NEW b, NEW H1,
         H = [k \in 1 .. word_count + 1 |-> H[k]],
         LoopbackState(d, D, H, e, b),
         \/ /\ d <= Len(Vdp!LoopbackCopy) /\ Vdp!LoopbackCopy[d].do = "wait"
            /\ D[Vdp!LoopbackCopy[d].from] # 0 /\ H1 = H
         \/ /\ d <= Len(Vdp!LoopbackCopy) /\ Vdp!LoopbackCopy[d].do = "load"
            /\ H1 = [H EXCEPT ![Vdp!LoopbackCopy[d].to] = D[Vdp!LoopbackCopy[d].from]]
         \/ d = Len(Vdp!LoopbackCopy) + 1 /\ H1 = H
  PROVE  /\ LoopbackState(d + 1, D, H1, e, b)
         /\ H1 = [k \in 1 .. word_count + 1 |-> H1[k]]
<1> DEFINE S == Vdp!LoopbackCopy
           n == word_count
<1>1. n \in Nat /\ Len(S) = 2 * n + 2
  BY LoopbackOps, Lengths
<1>2. d \in Nat /\ d >= 1
  BY <1>1
<1>3. \/ \E k \in 1 .. n : d = n + k + 1 /\ H1 = [H EXCEPT ![k] = D[Vdp!Mem(k - 1)]]
      \/ d = 2 * n + 2 /\ \E v : H1 = [H EXCEPT ![n + 1] = v]
      \/ d = 2 * n + 3 /\ H1 = H
  <2>1. CASE d \in 1 .. Len(S)
    <3>1. d # Len(S) + 1
      BY <2>1, <1>1
    <3>2. S[d].do # "store" /\ (S[d].do # "wait" => H1 = [H EXCEPT ![S[d].to] = D[S[d].from]])
      BY <2>1, <3>1
    <3>3. \/ \E k \in 1 .. n : /\ d = n + k + 1 /\ S[d].do = "load"
                               /\ S[d].from = Vdp!Mem(k - 1) /\ S[d].to = k
          \/ d = 2 * n + 2 /\ S[d].do = "load" /\ S[d].to = n + 1
      BY <2>1, <3>2, LoopbackParts
    <3> QED BY <3>2, <3>3
  <2>2. CASE d = Len(S) + 1
    <3>1. H1 = H
      BY <2>2, <1>1, <1>2
    <3> QED BY <2>2, <3>1, <1>1
  <2>3. d \in 1 .. Len(S) + 1
    OBVIOUS
  <2>4. d \in 1 .. Len(S) \/ d = Len(S) + 1
    <3> HIDE DEF S, n
    <3> QED BY <2>3, <1>1
  <2> QED BY <2>1, <2>2, <2>4
<1>4. /\ H1 = [k \in 1 .. n + 1 |-> H1[k]]
      /\ \A k \in 1 .. n : H1[k] # H[k] =>
           d = n + k + 1 /\ H1[k] = D[Vdp!Mem(k - 1)]
  <2>1. \A k \in 1 .. n : k \in 1 .. n + 1 /\ k # n + 1
    BY <1>1
  <2>2. ASSUME NEW j \in 1 .. n, d = n + j + 1, H1 = [H EXCEPT ![j] = D[Vdp!Mem(j - 1)]]
        PROVE  /\ H1 = [k \in 1 .. n + 1 |-> H1[k]]
               /\ \A k \in 1 .. n : H1[k] # H[k] =>
                    d = n + k + 1 /\ H1[k] = D[Vdp!Mem(k - 1)]
    BY <2>1, <2>2
  <2>3. ASSUME NEW v, H1 = [H EXCEPT ![n + 1] = v]
        PROVE  /\ H1 = [k \in 1 .. n + 1 |-> H1[k]]
               /\ \A k \in 1 .. n : H1[k] = H[k]
    BY <2>1, <2>3
  <2> QED BY <2>2, <2>3, <1>3
<1>0. n \in Nat /\ d \in Nat /\ d > n + 1
  BY <1>1, <1>2, <1>3
<1>5. \A k \in 1 .. n : d > k + 1 /\ (d = n + k + 1 \/ d > n + k + 1 \/ ~(d + 1 > n + k + 1))
  <2> HIDE DEF n
  <2> SUFFICES ASSUME NEW k \in 1 .. n
               PROVE  d > k + 1 /\ (d = n + k + 1 \/ d > n + k + 1 \/ ~(d + 1 > n + k + 1))
    OBVIOUS
  <2>1. n \in Int /\ d \in Int /\ k \in Int /\ k <= n
    BY <1>0
  <2>2. d > k + 1
    BY <1>0, <2>1
  <2>3. d = n + k + 1 \/ d > n + k + 1 \/ ~(d + 1 > n + k + 1)
    BY <2>1
  <2> QED BY <2>2, <2>3
<1>6. d > 1
  BY <1>0
<1>7. \A k \in 1 .. n : D[Vdp!Mem(k - 1)] = Vdp!input_array[k]
  BY <1>5 DEF LoopbackState
<1>8. \A k \in 1 .. n : d + 1 > n + k + 1 => H1[k] = Vdp!input_array[k]
  <2> TAKE k \in 1 .. n
  <2>1. CASE d = n + k + 1
    <3>1. H1[k] = D[Vdp!Mem(k - 1)]
      <4>1. \A j \in 1 .. n : d = n + j + 1 => j = k
        BY <1>1, <2>1
      <4>2. d # 2 * n + 2 /\ d # 2 * n + 3
        BY <1>1, <2>1
      <4>3. H1 = [H EXCEPT ![k] = D[Vdp!Mem(k - 1)]]
        BY <1>3, <4>1, <4>2
      <4>4. k \in 1 .. n + 1
        BY <1>1
      <4> QED BY <4>3, <4>4
    <3> QED BY <3>1, <1>7
  <2>2. CASE d > n + k + 1
    <3>1. d # n + k + 1
      BY <2>2, <1>1, <1>2
    <3>2. H1[k] = H[k]
      BY <3>1, <1>4
    <3>3. H[k] = Vdp!input_array[k]
      BY <2>2 DEF LoopbackState
    <3> QED BY <3>2, <3>3
  <2> QED BY <2>1, <2>2, <1>5
<1> QED BY <1>4, <1>6, <1>7, <1>8 DEF LoopbackState

-----------------------------------------------------------------------------
(* The vector programs as a whole *)

\* Which script a core runs; none of them ends on a store.
LEMMA VdpScripts ==
  ASSUME NEW c, loopback \in BOOLEAN
  PROVE  /\ c = 0 /\ loopback => Vdp!Script(c) = Vdp!LoopbackCopy
         /\ ~(c = 0 /\ loopback) /\ c \in {0, 3} => Vdp!Script(c) = Call(c)
         /\ c \notin {0, 3} => Vdp!Script(c) = <<>>
         /\ EndsInAnswer(Vdp!Script(c))
<1> DEFINE S == Vdp!Script(c)
<1>1. /\ c = 0 /\ loopback => S = Vdp!LoopbackCopy
      /\ ~(c = 0 /\ loopback) /\ c \in {0, 3} => S = Call(c)
      /\ c \notin {0, 3} => S = <<>>
  BY DEF Vdp!Script, Call
<1> HIDE DEF S
<1>2. CASE c = 0 /\ loopback
  <2> DEFINE L == Vdp!LoopbackCopy
  <2>1. Len(L) = 2 * word_count + 2 /\ word_count \in Nat
        /\ L[2 * word_count + 2] = Vdp!Get(Vdp!Mem(0), word_count + 1)
    BY LoopbackOps, Lengths
  <2> HIDE DEF L
  <2>2. Len(L) \in Nat /\ L[Len(L)].do # "store"
    BY <2>1 DEF Vdp!Get
  <2> QED BY <1>1, <1>2, <2>2 DEF EndsInAnswer, S, L
<1>3. CASE ~(c = 0 /\ loopback) /\ c \in {0, 3}
  <2> DEFINE L == Call(c)
             o == Copied(c)
  <2>1. IsCall(c, L, o)
    BY <1>3, CallOps
  <2> HIDE DEF L, o
  <2>2. CASE c = 0
    <3>1. o \in Nat /\ Len(L) = o + 9
      BY <2>1, <2>2 DEF IsCall
    <3>2. L[o + 9] = Vdp!Get(Vdp!Mem(2 * vlen), 1)
      BY <2>1, <2>2 DEF IsCall
    <3>3. Len(L) \in Nat /\ L[Len(L)].do # "store"
      BY <3>1, <3>2 DEF Vdp!Get
    <3> QED BY <1>1, <1>3, <3>3 DEF EndsInAnswer, S, L
  <2>3. CASE c # 0
    <3>1. o \in Nat /\ Len(L) = o + 8
      BY <2>1, <2>3 DEF IsCall
    <3>2. L[o + 8] = Vdp!WaitFor(Vdp!RESP_STATUS)
      BY <2>1 DEF IsCall
    <3>3. Len(L) \in Nat /\ L[Len(L)].do # "store"
      BY <3>1, <3>2 DEF Vdp!WaitFor
    <3> QED BY <1>1, <1>3, <3>3 DEF EndsInAnswer, S, L
  <2> QED BY <2>2, <2>3
<1>4. CASE c \notin {0, 3}
  BY <1>1, <1>4, Tuples DEF EndsInAnswer, S
<1> QED BY <1>1, <1>2, <1>3, <1>4 DEF S

\* A store arrives at the device of core c.
LEMMA DeviceTakes ==
  ASSUME NEW c, NEW d \in 1 .. Len(Vdp!Script(c)), Vdp!Script(c)[d].do = "store",
         loopback \in BOOLEAN,
         NEW D, NEW H, NEW e \in BOOLEAN, NEW b \in BOOLEAN,
         NEW D1, NEW e1, NEW b1, IsDev(D), DeviceState(loopback, c, d, D, H, e, b),
         Arrives(Store(Vdp!Script(c)[d]), D, e, b, D1, e1, b1)
  PROVE  DeviceState(loopback, c, d + 1, D1, H, e1, b1)
<1>1. CASE c = 0 /\ loopback
  <2>1. Vdp!Script(c) = Vdp!LoopbackCopy
    BY <1>1, VdpScripts
  <2>2. LoopbackState(d, D, H, e, b)
    BY <1>1 DEF DeviceState
  <2>3. LoopbackState(d + 1, D1, H, e1, b1)
    BY <2>1, <2>2, LoopbackDelivers
  <2> QED BY <1>1, <2>3 DEF DeviceState
<1>2. CASE ~(c = 0 /\ loopback) /\ c \in {0, 3}
  <2>1. Vdp!Script(c) = Call(c)
    BY <1>2, VdpScripts
  <2>2. CallState(c, d, D, H, e, b)
    BY <1>2 DEF DeviceState
  <2>3. CallState(c, d + 1, D1, H, e1, b1)
    BY <1>2, <2>1, <2>2, CallDelivers
  <2> QED BY <1>2, <2>3 DEF DeviceState
<1>3. CASE c \notin {0, 3}
  <2>1. Vdp!Script(c) = <<>>
    BY <1>3, VdpScripts
  <2>2. 1 .. Len(<<>>) = {}
    OBVIOUS
  <2> QED BY <2>1, <2>2
<1> QED BY <1>1, <1>2, <1>3

\* The three ways of core c to move on without a store; H1 is what main sees
\* then.
Moves(S, d, D, H, H1) ==
  \/ d <= Len(S) /\ S[d].do = "wait" /\ D[S[d].from] # 0 /\ H1 = H
  \/ d <= Len(S) /\ S[d].do = "load" /\ H1 = [H EXCEPT ![S[d].to] = D[S[d].from]]
  \/ d = Len(S) + 1 /\ H1 = H

\* They keep the state of the device, one operation on.
LEMMA DeviceAnswers ==
  ASSUME NEW c, NEW d \in 1 .. Len(Vdp!Script(c)) + 1, loopback \in BOOLEAN,
         NEW D, NEW H, NEW e, NEW b, NEW H1,
         H = [k \in 1 .. word_count + 1 |-> H[k]],
         DeviceState(loopback, c, d, D, H, e, b), Moves(Vdp!Script(c), d, D, H, H1)
  PROVE  /\ DeviceState(loopback, c, d + 1, D, H1, e, b)
         /\ H1 = [k \in 1 .. word_count + 1 |-> H1[k]]
<1>1. CASE c = 0 /\ loopback
  <2>1. Vdp!Script(c) = Vdp!LoopbackCopy
    BY <1>1, VdpScripts
  <2>2. LoopbackState(d, D, H, e, b)
    BY <1>1 DEF DeviceState
  <2>3. /\ LoopbackState(d + 1, D, H1, e, b)
        /\ H1 = [k \in 1 .. word_count + 1 |-> H1[k]]
    BY <2>1, <2>2, LoopbackAnswered DEF Moves
  <2> QED BY <1>1, <2>3 DEF DeviceState
<1>2. CASE ~(c = 0 /\ loopback) /\ c \in {0, 3}
  <2>1. Vdp!Script(c) = Call(c)
    BY <1>2, VdpScripts
  <2>2. CallState(c, d, D, H, e, b)
    BY <1>2 DEF DeviceState
  <2>3. /\ CallState(c, d + 1, D, H1, e, b)
        /\ H1 = [k \in 1 .. word_count + 1 |-> H1[k]]
    BY <1>2, <2>1, <2>2, CallAnswered DEF Moves
  <2> QED BY <1>2, <2>3 DEF DeviceState
<1>3. CASE c \notin {0, 3}
  <2>1. Vdp!Script(c) = <<>> /\ Len(<<>>) = 0
    BY <1>3, VdpScripts
  <2>2. H1 = H
    BY <2>1 DEF Moves
  <2> QED BY <1>3, <2>2 DEF DeviceState, IdleState
<1> QED BY <1>1, <1>2, <1>3

\* A step of core c or of its device leaves everything of the others alone.
LEMMA OthersKeep ==
  ASSUME VdpInv, NEW c \in Cores, loopback' = loopback, VdpShape', OnlyCore(c),
         \A x \in Cores \ {c} : /\ dev'[x] = dev[x] /\ host'[x] = host[x]
                                /\ enabled'[x] = enabled[x] /\ busy'[x] = busy[x],
         Behind(Vdp!Script(c), next'[c], posted'[c]),
         DeviceState(loopback, c, Done(c)', dev'[c], host'[c], enabled'[c], busy'[c])
  PROVE  VdpInv'
<1>1. ASSUME NEW x \in Cores
      PROVE  /\ Behind(Vdp!Script(x), next'[x], posted'[x])
             /\ DeviceState(loopback, x, Done(x)', dev'[x], host'[x], enabled'[x], busy'[x])
  <2>1. CASE x = c
    BY <2>1
  <2>2. CASE x # c
    <3>1. next'[x] = next[x] /\ posted'[x] = posted[x] /\ Done(x)' = Done(x)
      BY <2>2 DEF OnlyCore, Done
    <3>2. /\ Behind(Vdp!Script(x), next[x], posted[x])
          /\ DeviceState(loopback, x, Done(x), dev[x], host[x], enabled[x], busy[x])
      BY DEF VdpInv
    <3> QED BY <2>2, <3>1, <3>2
  <2> QED BY <2>1, <2>2
<1>2. \A x \in Cores : Vdp!Script(x)' = Vdp!Script(x)
  BY DEF Vdp!Script, Vdp!LoopbackCopy, Vdp!StreamingVdp, Vdp!CoherentVdp
<1> QED BY <1>1, <1>2 DEF VdpInv

\* The core goes on: a store is posted, or an answer has come.
LEMMA VdpDrives ==
  ASSUME VdpInv, NEW c \in Cores, Vdp!Driver(c), loopback' = loopback
  PROVE  VdpInv'
<1> DEFINE S == Vdp!Script(c)
<1>1. /\ VdpShape /\ Behind(S, next[c], posted[c])
      /\ DeviceState(loopback, c, Done(c), dev[c], host[c], enabled[c], busy[c])
  BY DEF VdpInv
<1>2. EndsInAnswer(S) /\ Len(S) \in Nat /\ Shape /\ loopback \in BOOLEAN
  BY <1>1, VdpScripts DEF VdpShape, EndsInAnswer
<1>3. CASE Vdp!Post(c, S) /\ UNCHANGED Vdp!deviceVars
  <2>1. Post(c, S)
    BY <1>3 DEF Post, Vdp!Post, At, Vdp!At, Advance, Vdp!Advance
  <2>2. dev' = dev /\ host' = host /\ enabled' = enabled /\ busy' = busy
    BY <1>3 DEF Vdp!deviceVars
  <2> HIDE DEF S
  <2>3. /\ Behind(S, next'[c], posted'[c]) /\ Done(c)' = Done(c)
        /\ Shape' /\ OnlyCore(c)
    BY <1>1, <1>2, <2>1, PostAdds
  <2>4. VdpShape'
    BY <1>1, <2>2, <2>3 DEF VdpShape
  <2> QED BY <1>1, <2>2, <2>3, <2>4, OthersKeep DEF S
<1>4. CASE ~(Vdp!Post(c, S) /\ UNCHANGED Vdp!deviceVars)
  <2>1. \/ Vdp!Wait(c, S, dev[c]) /\ UNCHANGED Vdp!deviceVars
        \/ /\ Vdp!Load(c, S) /\ UNCHANGED <<dev, enabled, busy>>
           /\ host' = [host EXCEPT ![c][S[next[c]].to] = dev[c][S[next[c]].from]]
        \/ Vdp!Finish(c, S) /\ UNCHANGED Vdp!deviceVars
    BY <1>4 DEF Vdp!Driver
  <2> HIDE DEF S
  <2>2. /\ Advance(c) /\ posted' = posted
        /\ dev' = dev /\ enabled' = enabled /\ busy' = busy
    BY <2>1 DEF Vdp!Wait, Vdp!Load, Vdp!Finish, Vdp!deviceVars, Vdp!Advance, Advance
  <2>3. posted[c] = <<>> /\ next[c] <= Len(S) + 1
    <3>1. CASE Vdp!Finish(c, S)
      <4>1. next[c] = Len(S) + 1
        BY <3>1 DEF Vdp!Finish
      <4>2. posted[c] = <<>>
        BY <4>1, <1>1, <1>2, NothingLeftAtEnd
      <4> QED BY <4>1, <4>2, <1>2
    <3>2. CASE Vdp!Wait(c, S, dev[c]) \/ Vdp!Load(c, S)
      <4>1. posted[c] = <<>> /\ next[c] <= Len(S)
        BY <3>2 DEF Vdp!Wait, Vdp!Load, Vdp!At
      <4>2. next[c] \in Nat
        BY <1>1, <1>2 DEF Behind
      <4> QED BY <4>1, <4>2, <1>2
    <3> QED BY <2>1, <3>1, <3>2
  <2>4. /\ Behind(S, next'[c], posted'[c]) /\ Done(c)' = Done(c) + 1
        /\ Done(c) = next[c] /\ Shape' /\ OnlyCore(c)
    BY <1>1, <1>2, <2>2, <2>3, AnswerComes
  <2>5. Done(c) \in 1 .. Len(S) + 1
    BY <2>3, <2>4, <1>1, <1>2 DEF Behind
  <2>6. /\ host' = [x \in Cores |-> host'[x]]
        /\ \A x \in Cores \ {c} : host'[x] = host[x]
        /\ Moves(S, Done(c), dev[c], host[c], host'[c])
    <3>1. host = [x \in Cores |-> host[x]]
      BY <1>1 DEF VdpShape
    <3>2. CASE Vdp!Load(c, S) /\ host' = [host EXCEPT ![c][S[next[c]].to] = dev[c][S[next[c]].from]]
      <4>1. /\ host'[c] = [host[c] EXCEPT ![S[next[c]].to] = dev[c][S[next[c]].from]]
            /\ host' = [x \in Cores |-> host'[x]]
            /\ \A x \in Cores \ {c} : host'[x] = host[x]
        BY <3>1, <3>2
      <4>2. next[c] <= Len(S) /\ S[next[c]].do = "load"
        BY <3>2 DEF Vdp!Load, Vdp!At
      <4> QED BY <4>1, <4>2, <2>4 DEF Moves
    <3>3. CASE Vdp!Wait(c, S, dev[c]) /\ host' = host
      <4>1. next[c] <= Len(S) /\ S[next[c]].do = "wait" /\ dev[c][S[next[c]].from] # 0
        BY <3>3 DEF Vdp!Wait, Vdp!At
      <4> QED BY <4>1, <3>1, <3>3, <2>4 DEF Moves
    <3>4. CASE Vdp!Finish(c, S) /\ host' = host
      <4>1. next[c] = Len(S) + 1
        BY <3>4 DEF Vdp!Finish
      <4> QED BY <4>1, <3>1, <3>4, <2>4 DEF Moves
    <3> QED BY <2>1, <3>2, <3>3, <3>4 DEF Vdp!deviceVars
  <2>7. host[c] = [k \in 1 .. word_count + 1 |-> host[c][k]]
    BY <1>1 DEF VdpShape
  <2>8. /\ DeviceState(loopback, c, Done(c) + 1, dev[c], host'[c], enabled[c], busy[c])
        /\ host'[c] = [k \in 1 .. word_count + 1 |-> host'[c][k]]
    <3>1. /\ Done(c) \in 1 .. Len(Vdp!Script(c)) + 1
          /\ Moves(Vdp!Script(c), Done(c), dev[c], host[c], host'[c])
      BY <2>5, <2>6 DEF S
    <3>2. DeviceState(loopback, c, Done(c), dev[c], host[c], enabled[c], busy[c])
      BY <1>1
    <3>3. loopback \in BOOLEAN
      BY <1>2
    <3> DEFINE d == Done(c)
               D == dev[c]
               H == host[c]
               H1 == host'[c]
               e == enabled[c]
               b == busy[c]
    <3>4. /\ d \in 1 .. Len(Vdp!Script(c)) + 1
          /\ Moves(Vdp!Script(c), d, D, H, H1)
          /\ DeviceState(loopback, c, d, D, H, e, b)
          /\ H = [k \in 1 .. word_count + 1 |-> H[k]]
      BY <3>1, <3>2, <2>7
    <3> HIDE DEF d, D, H, H1, e, b
    <3>5. /\ DeviceState(loopback, c, d + 1, D, H1, e, b)
          /\ H1 = [k \in 1 .. word_count + 1 |-> H1[k]]
      BY <3>3, <3>4, DeviceAnswers, ZenonT(60)
    <3> QED BY <3>5 DEF d, D, H, H1, e, b
  <2>9. VdpShape'
    <3>1. \A x \in Cores : host'[x] = [k \in 1 .. word_count + 1 |-> host'[x][k]]
      <4> TAKE x \in Cores
      <4>1. CASE x = c
        BY <4>1, <2>8
      <4>2. CASE x # c
        BY <4>2, <2>6, <1>1 DEF VdpShape
      <4> QED BY <4>1, <4>2
    <3> QED BY <1>1, <2>2, <2>4, <2>6, <3>1 DEF VdpShape
  <2> QED BY <2>2, <2>4, <2>6, <2>8, <2>9, OthersKeep DEF S
<1> QED BY <1>3, <1>4

\* A store arrives at the device of core c.
LEMMA VdpArrives ==
  ASSUME VdpInv, NEW c \in Cores, Vdp!Deliver(c), loopback' = loopback
  PROVE  VdpInv'
<1> DEFINE S == Vdp!Script(c)
           s == Head(posted[c])
<1>1. /\ VdpShape /\ Behind(S, next[c], posted[c])
      /\ DeviceState(loopback, c, Done(c), dev[c], host[c], enabled[c], busy[c])
  BY DEF VdpInv
<1>2. Len(S) \in Nat /\ Shape /\ loopback \in BOOLEAN
  BY <1>1, VdpScripts DEF VdpShape, EndsInAnswer
<1>3. /\ posted[c] # <<>> /\ posted' = [posted EXCEPT ![c] = Tail(@)]
      /\ next' = next /\ host' = host
  BY DEF Vdp!Deliver
<1>4. /\ dev = [x \in Cores |-> dev[x]] /\ IsDev(dev[c])
      /\ enabled \in [Cores -> BOOLEAN] /\ busy \in [Cores -> BOOLEAN]
  BY <1>1 DEF VdpShape, IsDev
<1>5. /\ Arrives(s, dev[c], enabled[c], busy[c], dev'[c], enabled'[c], busy'[c])
      /\ dev' = [x \in Cores |-> dev'[x]]
      /\ enabled' \in [Cores -> BOOLEAN] /\ busy' \in [Cores -> BOOLEAN]
      /\ \A x \in Cores \ {c} : /\ dev'[x] = dev[x] /\ enabled'[x] = enabled[x]
                                /\ busy'[x] = busy[x]
  <2>1. \/ /\ s.to = Vdp!SacEnable
           /\ enabled' = [enabled EXCEPT ![c] = TRUE]
           /\ dev' = dev /\ busy' = busy
        \/ /\ s.to[1] = "mem"
           /\ dev' = IF enabled[c] THEN [dev EXCEPT ![c][s.to] = s.val] ELSE dev
           /\ enabled' = enabled /\ busy' = busy
        \/ /\ s.to[1] = "csr" /\ s.to # Vdp!START_CMD
           /\ dev' = [dev EXCEPT ![c][s.to] = s.val]
           /\ enabled' = enabled /\ busy' = busy
        \/ /\ s.to = Vdp!START_CMD
           /\ dev' = [dev EXCEPT ![c][Vdp!RESP_STATUS] = 0]
           /\ busy' = [busy EXCEPT ![c] = TRUE]
           /\ enabled' = enabled
    BY DEF Vdp!Deliver
  <2> HIDE DEF s
  <2>2. CASE s.to = Vdp!SacEnable /\ enabled' = [enabled EXCEPT ![c] = TRUE] /\ dev' = dev /\ busy' = busy
    BY <2>2, <1>4 DEF Arrives
  <2>3. CASE /\ s.to[1] = "mem"
             /\ dev' = IF enabled[c] THEN [dev EXCEPT ![c][s.to] = s.val] ELSE dev
             /\ enabled' = enabled /\ busy' = busy
    BY <2>3, <1>4 DEF Arrives
  <2>4. CASE /\ s.to[1] = "csr" /\ s.to # Vdp!START_CMD
             /\ dev' = [dev EXCEPT ![c][s.to] = s.val]
             /\ enabled' = enabled /\ busy' = busy
    BY <2>4, <1>4 DEF Arrives
  <2>5. CASE /\ s.to = Vdp!START_CMD
             /\ dev' = [dev EXCEPT ![c][Vdp!RESP_STATUS] = 0]
             /\ busy' = [busy EXCEPT ![c] = TRUE]
             /\ enabled' = enabled
    BY <2>5, <1>4 DEF Arrives
  <2> QED BY <2>1, <2>2, <2>3, <2>4, <2>5
<1> HIDE DEF S, s
<1>6. /\ s = Store(S[Done(c)]) /\ S[Done(c)].do = "store"
      /\ Done(c) \in 1 .. Len(S)
      /\ Behind(S, next'[c], posted'[c]) /\ Done(c)' = Done(c) + 1
      /\ Shape' /\ OnlyCore(c)
  BY <1>1, <1>2, <1>3, OldestIsNext DEF s
<1>7. DeviceState(loopback, c, Done(c) + 1, dev'[c], host[c], enabled'[c], busy'[c])
  <2>1. enabled[c] \in BOOLEAN /\ busy[c] \in BOOLEAN
    BY <1>4
  <2> QED BY <1>1, <1>2, <1>4, <1>5, <1>6, <2>1, DeviceTakes DEF S
<1>8. IsDev(dev'[c])
  <2>1. Effect(s, dev[c], enabled[c], busy[c], dev'[c], enabled'[c], busy'[c])
    BY <1>4, <1>5, Arrivals
  <2> QED BY <2>1 DEF Effect
<1>9. VdpShape'
  <2>1. \A x \in Cores : dev'[x] = [y \in DevPlaces |-> dev'[x][y]]
    <3> TAKE x \in Cores
    <3>1. CASE x = c
      BY <3>1, <1>8 DEF IsDev
    <3>2. CASE x # c
      BY <3>2, <1>5, <1>1 DEF VdpShape
    <3> QED BY <3>1, <3>2
  <2> QED BY <1>1, <1>3, <1>5, <1>6, <2>1 DEF VdpShape
<1> QED BY <1>3, <1>5, <1>6, <1>7, <1>9, OthersKeep DEF S

\* The device of core c answers with the dot product of what main set up.
LEMMA VdpComputes ==
  ASSUME VdpInv, NEW c \in Cores, Vdp!Compute(c), loopback' = loopback
  PROVE  VdpInv'
<1> DEFINE v == Vdp!DotProduct(Vdp!Operand(c, Vdp!INPUT_A_PTR),
                               Vdp!Operand(c, Vdp!INPUT_B_PTR))
           p == dev[c][Vdp!RESP_PTR]
<1>1. /\ VdpShape /\ Behind(Vdp!Script(c), next[c], posted[c])
      /\ DeviceState(loopback, c, Done(c), dev[c], host[c], enabled[c], busy[c])
  BY DEF VdpInv
<1>2. /\ busy[c] /\ busy' = [busy EXCEPT ![c] = FALSE]
      /\ next' = next /\ posted' = posted /\ enabled' = enabled
  BY DEF Vdp!Compute, Vdp!driverVars
<1>3. IF p = Vdp!InMain("resp")
        THEN /\ host' = [host EXCEPT ![c][1] = v]
             /\ dev' = [dev EXCEPT ![c][Vdp!RESP_STATUS] = 1]
        ELSE /\ dev' = [dev EXCEPT ![c][Vdp!Mem(p.word)] = v,
                                   ![c][Vdp!RESP_STATUS] = 1]
             /\ host' = host
  BY DEF Vdp!Compute
<1> HIDE DEF v
<1>4. /\ dev = [x \in Cores |-> dev[x]] /\ IsDev(dev[c])
      /\ host = [x \in Cores |-> host[x]]
      /\ host[c] = [k \in 1 .. word_count + 1 |-> host[c][k]]
      /\ enabled \in [Cores -> BOOLEAN] /\ busy \in [Cores -> BOOLEAN]
      /\ busy[c] = TRUE
  BY <1>1, <1>2 DEF VdpShape, IsDev
<1>5. ~(c = 0 /\ loopback) /\ c \in {0, 3}
  <2>1. DeviceState(loopback, c, Done(c), dev[c], host[c], enabled[c], busy[c])
    BY <1>1, <1>4
  <2> QED BY <1>2, <2>1 DEF DeviceState, LoopbackState, IdleState
<1>6. CallState(c, Done(c), dev[c], host[c], enabled[c], busy[c])
  BY <1>1, <1>4, <1>5 DEF DeviceState
<1>7. Done(c) \in Nat
  <2>1. Len(Vdp!Script(c)) \in Nat
    BY <1>1, VdpScripts DEF VdpShape, EndsInAnswer
  <2>2. next[c] \in Nat /\ Len(posted[c]) \in Nat /\ Len(posted[c]) < next[c]
    BY <1>1, <2>1 DEF Behind
  <2> QED BY <2>2 DEF Done
<1>8. v = Dot
  <2>1. Copied(c) \in Nat
    BY <1>5, CallOps DEF IsCall
  <2>2. ~(Done(c) <= Copied(c) + 7)
    BY <1>2, <1>6 DEF CallState, Started
  <2>3. Done(c) > Copied(c) + 7
    BY <1>7, <2>1, <2>2
  <2>4. Configured(c, Done(c), dev[c], enabled[c])
    BY <1>6 DEF CallState
  <2> QED BY <1>5, <1>7, <2>3, <2>4, OperandsFound DEF v, Dot
<1>9. /\ dev' = [x \in Cores |-> dev'[x]] /\ host' = [x \in Cores |-> host'[x]]
      /\ \A x \in Cores \ {c} : dev'[x] = dev[x] /\ host'[x] = host[x]
      /\ IF p = Vdp!InMain("resp")
           THEN /\ host'[c] = [host[c] EXCEPT ![1] = Dot]
                /\ dev'[c] = [dev[c] EXCEPT ![Vdp!RESP_STATUS] = 1]
           ELSE /\ dev'[c] = [dev[c] EXCEPT ![Vdp!Mem(p.word)] = Dot,
                                            ![Vdp!RESP_STATUS] = 1]
                /\ host'[c] = host[c]
  <2> HIDE DEF p
  <2>1. CASE p = Vdp!InMain("resp")
    BY <2>1, <1>3, <1>4, <1>8
  <2>2. CASE p # Vdp!InMain("resp")
    BY <2>2, <1>3, <1>4, <1>8
  <2> QED BY <2>1, <2>2
<1>10. /\ CallState(c, Done(c), dev'[c], host'[c], enabled[c], busy'[c])
       /\ IsDev(dev'[c]) /\ host'[c] = [k \in 1 .. word_count + 1 |-> host'[c][k]]
  <2>1. enabled[c] \in BOOLEAN
    BY <1>4
  <2> DEFINE D == dev[c]
             H == host[c]
             D1 == dev'[c]
             H1 == host'[c]
             d == Done(c)
             e == enabled[c]
             b == busy[c]
             b1 == busy'[c]
  <2>2. /\ b = TRUE /\ b1 = FALSE
        /\ d \in Nat /\ e \in BOOLEAN /\ IsDev(D)
        /\ IsHost(H)
        /\ CallState(c, d, D, H, e, b)
        /\ Writes(D, H, D1, H1)
    BY <1>2, <1>4, <1>6, <1>7, <1>9, <2>1 DEF Writes, IsHost
  <2> HIDE DEF D, H, D1, H1, d, e, b, b1
  <2>3. /\ CallState(c, d, D1, H1, e, b1)
        /\ IsDev(D1) /\ IsHost(H1)
    BY <1>5, <2>2, CallComputes, ZenonT(60)
  <2> QED BY <2>3 DEF IsHost, D, H, D1, H1, d, e, b, b1
<1>11. DeviceState(loopback, c, Done(c), dev'[c], host'[c], enabled[c], busy'[c])
  BY <1>5, <1>10 DEF DeviceState
<1>12. VdpShape'
  <2>1. \A x \in Cores : /\ dev'[x] = [y \in DevPlaces |-> dev'[x][y]]
                         /\ host'[x] = [k \in 1 .. word_count + 1 |-> host'[x][k]]
    <3> TAKE x \in Cores
    <3>1. CASE x = c
      BY <3>1, <1>10 DEF IsDev
    <3>2. CASE x # c
      BY <3>2, <1>9, <1>1 DEF VdpShape
    <3> QED BY <3>1, <3>2
  <2>2. busy' \in [Cores -> BOOLEAN]
    BY <1>2, <1>4
  <2> QED BY <1>1, <1>2, <1>9, <2>1, <2>2 DEF VdpShape, Shape
<1>13. /\ Done(c)' = Done(c) /\ OnlyCore(c) /\ busy'[c] = FALSE
       /\ \A x \in Cores \ {c} : enabled'[x] = enabled[x] /\ busy'[x] = busy[x]
  BY <1>2, <1>4 DEF Done, OnlyCore
<1> QED BY <1>1, <1>2, <1>9, <1>11, <1>12, <1>13, OthersKeep

\* At the start nothing has been posted and every device is idle.
LEMMA VdpStarts == ASSUME Vdp!Init PROVE VdpInv
<1>1. /\ next = [c \in Cores |-> 1] /\ posted = [c \in Cores |-> <<>>]
      /\ loopback \in BOOLEAN
      /\ dev = [c \in Cores |-> [x \in DevPlaces |->
                  IF x \in {Vdp!INPUT_A_PTR, Vdp!INPUT_B_PTR, Vdp!RESP_PTR}
                    THEN Vdp!Nowhere ELSE 0]]
      /\ host = [c \in Cores |-> [k \in 1 .. word_count + 1 |-> 0]]
      /\ enabled = [c \in Cores |-> FALSE] /\ busy = [c \in Cores |-> FALSE]
  BY DEF Vdp!Init, Vdp!DriverInit, DevPlaces, Cores, Vdp!Cores
<1>2. VdpShape
  BY <1>1 DEF VdpShape, Shape
<1>3. ASSUME NEW c \in Cores
      PROVE  /\ Behind(Vdp!Script(c), next[c], posted[c])
             /\ DeviceState(loopback, c, Done(c), dev[c], host[c], enabled[c], busy[c])
  <2>1. /\ next[c] = 1 /\ posted[c] = <<>> /\ enabled[c] = FALSE /\ busy[c] = FALSE
        /\ Len(<<>>) = 0
    BY <1>1
  <2>2. Done(c) = 1
    BY <2>1 DEF Done
  <2>3. dev[c][Vdp!RESP_STATUS] = 0
    <3>1. Vdp!RESP_STATUS \in DevPlaces
      BY Kinds DEF Named
    <3> QED BY <1>1, <3>1, Places
  <2>4. Len(Vdp!Script(c)) \in Nat
    BY <1>1, VdpScripts DEF EndsInAnswer
  <2>5. Behind(Vdp!Script(c), next[c], posted[c])
    <3> DEFINE S == Vdp!Script(c)
    <3>1. <<>> \in Seq(Stores(S)) /\ 1 .. Len(<<>>) = {}
      OBVIOUS
    <3> HIDE DEF S
    <3>2. Len(S) \in Nat
      BY <2>4 DEF S
    <3>3. Behind(S, 1, <<>>)
      BY <3>1, <3>2 DEF Behind
    <3> QED BY <3>3, <2>1 DEF S
  <2>6. CASE c = 0 /\ loopback
    <3>1. \A k \in 1 .. word_count : ~(1 > k + 1) /\ ~(1 > word_count + k + 1)
      BY Lengths
    <3>2. LoopbackState(1, dev[c], host[c], enabled[c], busy[c])
      BY <2>1, <2>3, <3>1 DEF LoopbackState
    <3> QED BY <2>2, <2>5, <2>6, <3>2 DEF DeviceState
  <2>7. CASE ~(c = 0 /\ loopback) /\ c \in {0, 3}
    <3> DEFINE o == Copied(c)
    <3>1. o \in Nat
      BY <2>7, CallOps DEF IsCall
    <3> HIDE DEF o
    <3>2. /\ \A k \in 0 .. o - 1 : ~(1 > k + 2)
          /\ ~(1 > o + 2) /\ ~(1 > o + 3) /\ ~(1 > o + 4) /\ ~(1 > o + 5)
          /\ ~(1 > o + 7) /\ ~(1 > o + 8) /\ ~(1 > o + 9)
      BY <3>1
    <3>3. Configured(c, 1, dev[c], enabled[c])
      BY <3>2 DEF Configured, o
    <3>4. Started(c, 1, dev[c], host[c], busy[c])
      BY <2>1, <2>3, <3>2 DEF Started, o
    <3> QED BY <2>2, <2>5, <2>7, <3>3, <3>4 DEF DeviceState, CallState
  <2>8. CASE c \notin {0, 3}
    BY <2>1, <2>2, <2>3, <2>5, <2>8 DEF DeviceState, IdleState
  <2> QED BY <2>6, <2>7, <2>8
<1> QED BY <1>2, <1>3 DEF VdpInv

-----------------------------------------------------------------------------
(* The zipline program: DMA device and engine when operation d is next *)

Count == Len(dma_tlv_header)

\* How many words of the request come before TLV i
Before(i) ==
  IF i = 1 THEN 0 ELSE dma_tlv_header[i - 1].data_ptr + dma_tlv_header[i - 1].length

\* In the pass for TLV i the r-th operation is next: R are the registers, l what
\* the DMA has left to do and t what the engine has taken.
Sending(i, r, R, l, t) ==
  LET tlv == dma_tlv_header[i] IN
  /\ r > 1 => R[Zip!TLV_TYPE] = tlv.type
  /\ r > 2 => R[Zip!DATA_PTR] = tlv.data_ptr
  /\ r > 3 => R[Zip!DATA_LEN] = tlv.length
  /\ r > 4 => R[Zip!DMA_TYPE] = 0
  /\ r <= 5 => l = -1 /\ Len(t) = Before(i)
  /\ r = 6 => \/ l = -1 /\ Len(t) = Before(i + 1)
              \/ /\ R[Zip!DONE_DMA] = 0 /\ l \in 0 .. tlv.length
                 /\ Len(t) = Before(i + 1) - l

\* The request has been sent and the r-th operation of fetching the response is
\* next; s is what the response is about.
Fetching(r, R, l, t, s) ==
  /\ Len(t) = Before(Count + 1)
  /\ r > 2 => R[Zip!DATA_LEN] = 0
  /\ r > 3 => R[Zip!DMA_TYPE] = 1
  /\ r <= 4 => l = -1
  /\ r > 4 => (l = -1 /\ s = Len(t)) \/ (l = 0 /\ R[Zip!DONE_DMA] = 0)
  /\ r > 5 => R[Zip!DONE_DMA] # 0

ZipState(d, R, l, t, s) ==
  \/ d = 1 /\ l = -1 /\ Len(t) = 0
  \/ \E i \in 1 .. Count, r \in 1 .. 6 :
       d = 6 * (i - 1) + 1 + r /\ Sending(i, r, R, l, t)
  \/ \E r \in 1 .. 8 : d = 6 * Count + 1 + r /\ Fetching(r, R, l, t, s)

ZipInv ==
  /\ Shape
  /\ dma = [x \in Zip!Registers |-> dma[x]]
  /\ taken \in Seq([type : Nat, word : Nat])
  /\ \A c \in Cores : Behind(Zip!Script(c), next[c], posted[c])
  /\ Zip!TypeGoesWithItsData
  /\ ZipState(Done(0), dma, left, taken, resp)

\* The inductive invariant of the programs that drive accelerators
Inv ==
  \/ test = "vdp" /\ VdpInv
  \/ test = "zipline" /\ ZipInv

\* The TLVs lie behind one another, from the first word of the request to the
\* last.
LEMMA Contiguous ==
  /\ Count \in Nat /\ Zip!Tlvs = 1 .. Count
  /\ \A i \in 1 .. Count : /\ dma_tlv_header[i].data_ptr = Before(i)
                           /\ dma_tlv_header[i].length \in Nat
                           /\ dma_tlv_header[i].type \in Nat
                           /\ Before(i + 1) = Before(i) + dma_tlv_header[i].length
                           /\ Before(i) \in Nat /\ Before(i + 1) \in Nat
  /\ Before(Count + 1) \in Nat /\ Before(1) = 0
  /\ Zip!RequestLength = Before(Count + 1)
<1> DEFINE h == dma_tlv_header
           T == [data_ptr : Nat, length : Nat, type : Nat]
<1>1. /\ h \in Seq(T)
      /\ \A i \in DOMAIN h : h[i].data_ptr =
           IF i = 1 THEN 0 ELSE h[i - 1].data_ptr + h[i - 1].length
  BY AcceleratorsAssumption DEF Zip!ZiplineAssumption, Zip!Tlvs
<1>2. Count \in Nat /\ DOMAIN h = 1 .. Count /\ \A i \in 1 .. Count : h[i] \in T
  BY <1>1, LenProperties DEF Count
<1>3. Zip!Tlvs = 1 .. Count
  BY <1>2 DEF Zip!Tlvs
<1>4. \A i \in 1 .. Count : /\ h[i].data_ptr \in Nat /\ h[i].length \in Nat
                            /\ h[i].type \in Nat
  BY <1>2
<1>5. \A i \in 1 .. Count : h[i].data_ptr = Before(i)
  BY <1>1, <1>2 DEF Before
<1>6. ASSUME NEW i \in 1 .. Count
      PROVE  Before(i + 1) = h[i].data_ptr + h[i].length
  <2>1. i + 1 # 1 /\ (i + 1) - 1 = i
    BY <1>2
  <2>2. Before(i + 1) = h[(i + 1) - 1].data_ptr + h[(i + 1) - 1].length
    BY <2>1 DEF Before
  <2> QED BY <2>1, <2>2
<1>7. Before(1) = 0
  BY DEF Before
<1>8. Before(Count + 1) \in Nat /\ Zip!RequestLength = Before(Count + 1)
  <2>1. CASE Count = 0
    <3>1. h = <<>>
      BY <2>1, <1>1, EmptySeq DEF Count
    <3>2. Count + 1 = 1
      BY <2>1
    <3> QED BY <3>1, <3>2, <1>7 DEF Zip!RequestLength
  <2>2. CASE Count # 0
    <3>1. Count \in 1 .. Count
      BY <2>2, <1>2
    <3>2. h # <<>>
      BY <2>2, <1>1, EmptySeq DEF Count
    <3>3. Zip!RequestLength = h[Count].data_ptr + h[Count].length
      BY <3>2 DEF Zip!RequestLength, Count
    <3> QED BY <3>1, <3>3, <1>4, <1>6
  <2> QED BY <2>1, <2>2
<1> DEFINE F(i) == /\ h[i].data_ptr = Before(i) /\ h[i].length \in Nat
                   /\ h[i].type \in Nat
                   /\ Before(i + 1) = Before(i) + h[i].length
                   /\ Before(i) \in Nat /\ Before(i + 1) \in Nat
<1>9. ASSUME NEW i \in 1 .. Count PROVE F(i)
  <2>1. h[i].data_ptr \in Nat /\ h[i].length \in Nat /\ h[i].type \in Nat
    BY <1>4
  <2>2. h[i].data_ptr = Before(i) /\ Before(i + 1) = h[i].data_ptr + h[i].length
    BY <1>5, <1>6
  <2> HIDE DEF h
  <2> QED BY <2>1, <2>2
<1>10. \A i \in 1 .. Count : F(i)
  BY <1>9
<1> QED BY <1>2, <1>3, <1>7, <1>8, <1>10

\* Six operations for each TLV
LEMMA PassOps ==
  /\ ScriptOf(Zip!SendTlvs, 6 * Count)
  /\ \A i \in 1 .. Count : \A r \in 1 .. 6 :
       Zip!SendTlvs[6 * (i - 1) + r] = Zip!SendTlv(dma_tlv_header[i])[r]
<1> DEFINE N == 6 * Count
           P == Zip!SendTlvs
<1>1. Count \in Nat /\ N \in Nat
  BY Contiguous
<1>2. /\ P = [n \in 1 .. N |-> P[n]]
      /\ \A n \in 1 .. N :
           P[n] = Zip!SendTlv(dma_tlv_header[((n - 1) \div 6) + 1])[((n - 1) % 6) + 1]
  BY DEF Zip!SendTlvs, Count
<1> HIDE DEF P
<1>3. ScriptOf(P, N)
  <2> HIDE DEF N
  <2> QED BY <1>1, <1>2, OnInterval DEF ScriptOf
<1>4. ASSUME NEW i \in 1 .. Count, NEW r \in 1 .. 6
      PROVE  P[6 * (i - 1) + r] = Zip!SendTlv(dma_tlv_header[i])[r]
  <2> DEFINE n == 6 * (i - 1) + r
  <2>1. n \in 1 .. N
    BY <1>1
  <2>2. i \in Nat /\ i >= 1
    BY <1>1
  <2>3. ((n - 1) \div 6) + 1 = i
    BY <2>2
  <2>4. ((n - 1) % 6) + 1 = r
    BY <2>2
  <2>5. P[n] = Zip!SendTlv(dma_tlv_header[((n - 1) \div 6) + 1])[((n - 1) % 6) + 1]
    BY <1>2, <2>1
  <2> HIDE DEF n
  <2>6. P[n] = Zip!SendTlv(dma_tlv_header[i])[r]
    BY <2>3, <2>4, <2>5
  <2> QED BY <2>6 DEF n
<1> QED BY <1>3, <1>4 DEF P

\* bp_hw_dma and the pass for one TLV
LEMMA DmaOps ==
  ASSUME NEW src, NEW length, NEW type
  PROVE  LET S == Zip!HwDma(src, length, type) IN
         /\ ScriptOf(S, 5)
         /\ S[1] = Zip!Set(Zip!DATA_PTR, src) /\ S[2] = Zip!Set(Zip!DATA_LEN, length)
         /\ S[3] = Zip!Set(Zip!DMA_TYPE, type) /\ S[4] = Zip!Set(Zip!START_DMA, 1)
         /\ S[5] = Zip!WaitFor(Zip!DONE_DMA)
BY Tuples DEF Zip!HwDma, ScriptOf

\* The type first, then the transfer
LEMMA TlvOps ==
  ASSUME NEW tlv
  PROVE  LET S == Zip!SendTlv(tlv) IN
         /\ S[1] = Zip!Set(Zip!TLV_TYPE, tlv.type)
         /\ S[2] = Zip!Set(Zip!DATA_PTR, tlv.data_ptr)
         /\ S[3] = Zip!Set(Zip!DATA_LEN, tlv.length)
         /\ S[4] = Zip!Set(Zip!DMA_TYPE, 0) /\ S[5] = Zip!Set(Zip!START_DMA, 1)
         /\ S[6] = Zip!WaitFor(Zip!DONE_DMA)
<1> DEFINE S == Zip!SendTlv(tlv)
           s == <<Zip!Set(Zip!TLV_TYPE, tlv.type)>>
           t == Zip!HwDma(tlv.data_ptr, tlv.length, 0)
<1>1. S = s \o t
  BY DEF Zip!SendTlv
<1>2. ScriptOf(s, 1) /\ s[1] = Zip!Set(Zip!TLV_TYPE, tlv.type)
  BY Tuples DEF ScriptOf
<1>3. /\ ScriptOf(t, 5)
      /\ t[1] = Zip!Set(Zip!DATA_PTR, tlv.data_ptr)
      /\ t[2] = Zip!Set(Zip!DATA_LEN, tlv.length)
      /\ t[3] = Zip!Set(Zip!DMA_TYPE, 0) /\ t[4] = Zip!Set(Zip!START_DMA, 1)
      /\ t[5] = Zip!WaitFor(Zip!DONE_DMA)
  BY DmaOps
<1> HIDE DEF S, s, t
<1>4. Follows(S, s, 1, t, 5)
  BY <1>1, <1>2, <1>3, Joined
<1>5. /\ S[1] = s[1] /\ S[2] = t[1] /\ S[3] = t[2] /\ S[4] = t[3] /\ S[5] = t[4]
      /\ S[6] = t[5]
  BY <1>4 DEF Follows
<1> QED BY <1>2, <1>3, <1>5 DEF S

\* The whole program: pass by pass, then the response
LEMMA ZiplineOps ==
  LET S == Zip!Zipline
      n == 6 * Count
  IN  /\ Len(S) = n + 7
      /\ S[1] = Zip!Set(Zip!SacEnable, 1)
      /\ \A i \in 1 .. Count : \A r \in 1 .. 6 :
           S[6 * (i - 1) + 1 + r] = Zip!SendTlv(dma_tlv_header[i])[r]
      /\ \A r \in 1 .. 5 : S[n + 1 + r] = Zip!HwDma(0, 0, 1)[r]
      /\ S[n + 7] = Zip!Get(Zip!DATA_TLV_LEN, 1)
<1> DEFINE S == Zip!Zipline
           n == 6 * Count
           s1 == <<Zip!Set(Zip!SacEnable, 1)>>
           s2 == Zip!SendTlvs
           s3 == Zip!HwDma(0, 0, 1)
           s4 == <<Zip!Get(Zip!DATA_TLV_LEN, 1)>>
           t2 == s1 \o s2
           t3 == t2 \o s3
<1>1. S = t3 \o s4
  BY DEF Zip!Zipline
<1>2. /\ ScriptOf(s1, 1) /\ s1[1] = Zip!Set(Zip!SacEnable, 1)
      /\ ScriptOf(s4, 1) /\ s4[1] = Zip!Get(Zip!DATA_TLV_LEN, 1)
  BY Tuples DEF ScriptOf
<1>3. ScriptOf(s2, n) /\ n \in Nat
  BY PassOps, Contiguous
<1>4. \A i \in 1 .. Count : \A r \in 1 .. 6 :
        /\ s2[6 * (i - 1) + r] = Zip!SendTlv(dma_tlv_header[i])[r]
        /\ 6 * (i - 1) + r \in 1 .. n
        /\ 1 + (6 * (i - 1) + r) = 6 * (i - 1) + 1 + r
  <2>1. \A i \in 1 .. Count : \A r \in 1 .. 6 :
          s2[6 * (i - 1) + r] = Zip!SendTlv(dma_tlv_header[i])[r]
    BY PassOps
  <2>2. Count \in Nat
    BY Contiguous
  <2>3. \A i \in 1 .. Count : \A r \in 1 .. 6 :
          /\ 6 * (i - 1) + r \in 1 .. n
          /\ 1 + (6 * (i - 1) + r) = 6 * (i - 1) + 1 + r
    BY <2>2
  <2> QED BY <2>1, <2>3
<1>5. ScriptOf(s3, 5)
  BY DmaOps
<1> HIDE DEF S, s1, s2, s3, s4, n
<1>6. Follows(t2, s1, 1, s2, n) /\ ScriptOf(t2, 1 + n)
  BY <1>2, <1>3, Joined
<1>7. Follows(t3, t2, 1 + n, s3, 5) /\ ScriptOf(t3, 1 + n + 5)
  BY <1>5, <1>6, Joined
<1>8. Follows(S, t3, 1 + n + 5, s4, 1) /\ ScriptOf(S, 1 + n + 5 + 1)
  BY <1>1, <1>2, <1>7, Joined
<1> HIDE DEF t2, t3
<1>9. S[1] = s1[1] /\ S[1 + n + 5 + 1] = s4[1]
  BY <1>3, <1>6, <1>7, <1>8 DEF Follows
<1>10. \A k \in 1 .. n : S[1 + k] = s2[k]
  BY <1>3, <1>6, <1>7, <1>8 DEF Follows
<1>11. \A k \in 1 .. 5 : S[n + 1 + k] = s3[k]
  <2>1. \A k \in 1 .. 5 : /\ n + 1 + k = 1 + n + k /\ 1 + n + k \in 1 .. 1 + n + 5
    BY <1>3
  <2>2. \A k \in 1 .. 5 : t3[1 + n + k] = s3[k]
    BY <1>7 DEF Follows
  <2>3. \A k \in 1 .. 1 + n + 5 : S[k] = t3[k]
    BY <1>8 DEF Follows
  <2> QED BY <2>1, <2>2, <2>3
<1>12. Len(S) = n + 7 /\ 1 + n + 5 + 1 = n + 7
  BY <1>3, <1>8 DEF ScriptOf
<1>13. \A i \in 1 .. Count : \A r \in 1 .. 6 :
         S[6 * (i - 1) + 1 + r] = Zip!SendTlv(dma_tlv_header[i])[r]
  BY <1>4, <1>10
<1> QED BY <1>2, <1>9, <1>11, <1>12, <1>13 DEF S, n, s3

\* Core 0 has the program, the others have none; it does not end on a store.
LEMMA ZipScripts ==
  ASSUME NEW c
  PROVE  /\ c = 0 => Zip!Script(c) = Zip!Zipline
         /\ c # 0 => Zip!Script(c) = <<>>
         /\ EndsInAnswer(Zip!Script(c))
<1> DEFINE S == Zip!Zipline
<1>1. /\ c = 0 => Zip!Script(c) = S
      /\ c # 0 => Zip!Script(c) = <<>>
  BY DEF Zip!Script
<1>2. EndsInAnswer(S)
  <2>1. /\ Count \in Nat /\ Len(S) = 6 * Count + 7
        /\ S[6 * Count + 7] = Zip!Get(Zip!DATA_TLV_LEN, 1)
    BY ZiplineOps, Contiguous
  <2> HIDE DEF S
  <2>2. Len(S) \in Nat /\ S[Len(S)].do # "store"
    BY <2>1 DEF Zip!Get
  <2> QED BY <2>2 DEF EndsInAnswer
<1>3. EndsInAnswer(<<>>)
  BY Tuples DEF EndsInAnswer
<1> QED BY <1>1, <1>2, <1>3

\* The operations, by the place they have in a pass
StoresIn(op, to, val) == op.do = "store" /\ Store(op).to = to /\ Store(op).val = val

\* The pass for TLV i stores five times and polls.
LEMMA SendingOps ==
  ASSUME NEW i \in 1 .. Count
  PROVE  LET S == Zip!Zipline
             a == 6 * (i - 1) + 1
             tlv == dma_tlv_header[i]
         IN  /\ StoresIn(S[a + 1], Zip!TLV_TYPE, tlv.type)
             /\ StoresIn(S[a + 2], Zip!DATA_PTR, tlv.data_ptr)
             /\ StoresIn(S[a + 3], Zip!DATA_LEN, tlv.length)
             /\ StoresIn(S[a + 4], Zip!DMA_TYPE, 0)
             /\ StoresIn(S[a + 5], Zip!START_DMA, 1)
             /\ S[a + 6].do = "wait" /\ S[a + 6].from = Zip!DONE_DMA
<1> DEFINE S == Zip!Zipline
           a == 6 * (i - 1) + 1
           tlv == dma_tlv_header[i]
<1>1. \A r \in 1 .. 6 : S[a + r] = Zip!SendTlv(tlv)[r]
  BY ZiplineOps
<1> HIDE DEF S, a, tlv
<1>2. /\ S[a + 1] = Zip!Set(Zip!TLV_TYPE, tlv.type)
      /\ S[a + 2] = Zip!Set(Zip!DATA_PTR, tlv.data_ptr)
      /\ S[a + 3] = Zip!Set(Zip!DATA_LEN, tlv.length)
      /\ S[a + 4] = Zip!Set(Zip!DMA_TYPE, 0) /\ S[a + 5] = Zip!Set(Zip!START_DMA, 1)
      /\ S[a + 6] = Zip!WaitFor(Zip!DONE_DMA)
  BY <1>1, TlvOps
<1>3. \A to, val : StoresIn(Zip!Set(to, val), to, val)
  BY DEF StoresIn, Zip!Set, Store
<1> QED BY <1>2, <1>3 DEF Zip!WaitFor, S, a, tlv

\* Fetching the response is four stores, a poll and a load.
LEMMA FetchingOps ==
  LET S == Zip!Zipline
      a == 6 * Count + 1
  IN  /\ StoresIn(S[a + 1], Zip!DATA_PTR, 0) /\ StoresIn(S[a + 2], Zip!DATA_LEN, 0)
      /\ StoresIn(S[a + 3], Zip!DMA_TYPE, 1) /\ StoresIn(S[a + 4], Zip!START_DMA, 1)
      /\ S[a + 5].do = "wait" /\ S[a + 5].from = Zip!DONE_DMA
      /\ S[a + 6].do = "load"
      /\ Len(S) = a + 6
<1> DEFINE S == Zip!Zipline
           a == 6 * Count + 1
<1>1. \A r \in 1 .. 5 : S[a + r] = Zip!HwDma(0, 0, 1)[r]
  BY ZiplineOps
<1>2. S[a + 6] = Zip!Get(Zip!DATA_TLV_LEN, 1) /\ Len(S) = a + 6
  <2>1. Count \in Nat
    BY Contiguous
  <2>2. a + 6 = 6 * Count + 7
    BY <2>1
  <2> QED BY <2>2, ZiplineOps
<1> HIDE DEF S, a
<1>3. /\ S[a + 1] = Zip!Set(Zip!DATA_PTR, 0) /\ S[a + 2] = Zip!Set(Zip!DATA_LEN, 0)
      /\ S[a + 3] = Zip!Set(Zip!DMA_TYPE, 1) /\ S[a + 4] = Zip!Set(Zip!START_DMA, 1)
      /\ S[a + 5] = Zip!WaitFor(Zip!DONE_DMA)
  BY <1>1, DmaOps
<1>4. \A to, val : StoresIn(Zip!Set(to, val), to, val)
  BY DEF StoresIn, Zip!Set, Store
<1> QED BY <1>2, <1>3, <1>4 DEF Zip!WaitFor, Zip!Get, S, a

\* No two registers are the same, and none is the one that maps memory.
LEMMA ZipPlaces ==
  /\ Zip!DATA_PTR # Zip!DATA_LEN /\ Zip!DATA_PTR # Zip!START_DMA
  /\ Zip!DATA_PTR # Zip!DONE_DMA /\ Zip!DATA_PTR # Zip!DMA_TYPE
  /\ Zip!DATA_PTR # Zip!TLV_TYPE /\ Zip!DATA_LEN # Zip!START_DMA
  /\ Zip!DATA_LEN # Zip!DONE_DMA /\ Zip!DATA_LEN # Zip!DMA_TYPE
  /\ Zip!DATA_LEN # Zip!TLV_TYPE /\ Zip!START_DMA # Zip!DONE_DMA
  /\ Zip!START_DMA # Zip!DMA_TYPE /\ Zip!START_DMA # Zip!TLV_TYPE
  /\ Zip!DONE_DMA # Zip!DMA_TYPE /\ Zip!DONE_DMA # Zip!TLV_TYPE
  /\ Zip!DMA_TYPE # Zip!TLV_TYPE
  /\ Zip!SacEnable \notin Zip!Registers
BY DEF Zip!DATA_PTR, Zip!DATA_LEN, Zip!START_DMA, Zip!DONE_DMA, Zip!DMA_TYPE,
       Zip!TLV_TYPE, Zip!DATA_TLV_LEN, Zip!SacEnable, Zip!Csr, Zip!Registers

\* The registers and the DMA after store s
ZipTakes(s, R, l, R1, l1) ==
  \/ s.to = Zip!SacEnable /\ R1 = R /\ l1 = l
  \/ /\ s.to = Zip!START_DMA /\ R1 = [R EXCEPT ![Zip!DONE_DMA] = 0]
     /\ l1 = R[Zip!DATA_LEN]
  \/ /\ s.to \in Zip!Registers \ {Zip!START_DMA}
     /\ R1 = [R EXCEPT ![s.to] = s.val] /\ l1 = l

IsDma(R) == R = [x \in Zip!Registers |-> R[x]]

Plain == {Zip!DATA_PTR, Zip!DATA_LEN, Zip!DMA_TYPE, Zip!TLV_TYPE}
Used == Plain \union {Zip!DONE_DMA}

\* A store to a plain register changes that register, one to START_DMA the
\* status and what the DMA has to do.
LEMMA ZipEffect ==
  ASSUME NEW s, NEW R, NEW l, NEW R1, NEW l1, IsDma(R), ZipTakes(s, R, l, R1, l1)
  PROVE  /\ IsDma(R1)
         /\ s.to = Zip!SacEnable => R1 = R /\ l1 = l
         /\ s.to \in Plain => /\ R1[s.to] = s.val /\ l1 = l
                              /\ \A y \in Used \ {s.to} : R1[y] = R[y]
         /\ s.to = Zip!START_DMA => /\ R1[Zip!DONE_DMA] = 0 /\ l1 = R[Zip!DATA_LEN]
                                    /\ \A y \in Plain : R1[y] = R[y]
<1>1. /\ Used \subseteq Zip!Registers /\ Plain \subseteq Used
      /\ Zip!START_DMA \in Zip!Registers /\ Zip!START_DMA \notin Plain
      /\ Zip!DONE_DMA \in Used /\ Zip!DONE_DMA \notin Plain
      /\ Zip!SacEnable \notin Zip!Registers
  BY ZipPlaces DEF Used, Plain, Zip!Registers
<1>2. IsDma(R1)
  BY DEF IsDma, ZipTakes
<1>3. s.to = Zip!SacEnable => R1 = R /\ l1 = l
  BY <1>1 DEF ZipTakes
<1>4. ASSUME s.to \in Plain
      PROVE  /\ R1[s.to] = s.val /\ l1 = l
             /\ \A y \in Used \ {s.to} : R1[y] = R[y]
  <2>1. R1 = [R EXCEPT ![s.to] = s.val] /\ l1 = l
    BY <1>1, <1>4 DEF ZipTakes
  <2> QED BY <2>1, <1>1, <1>4 DEF IsDma
<1>5. ASSUME s.to = Zip!START_DMA
      PROVE  /\ R1[Zip!DONE_DMA] = 0 /\ l1 = R[Zip!DATA_LEN]
             /\ \A y \in Plain : R1[y] = R[y]
  <2>1. R1 = [R EXCEPT ![Zip!DONE_DMA] = 0] /\ l1 = R[Zip!DATA_LEN]
    BY <1>1, <1>5 DEF ZipTakes
  <2> QED BY <2>1, <1>1 DEF IsDma
<1> QED BY <1>2, <1>3, <1>4, <1>5

\* When the first j TLVs are through, the next pass or the response follows.
LEMMA PassEnds ==
  ASSUME NEW j \in 0 .. Count, NEW R, NEW l, NEW t, NEW s, l = -1, Len(t) = Before(j + 1)
  PROVE  ZipState(6 * j + 2, R, l, t, s)
<1>1. Count \in Nat
  BY Contiguous
<1>2. CASE j = Count
  <2>1. Fetching(1, R, l, t, s)
    BY <1>2 DEF Fetching
  <2>2. 6 * j + 2 = 6 * Count + 1 + 1
    BY <1>1, <1>2
  <2> QED BY <2>1, <2>2 DEF ZipState
<1>3. CASE j # Count
  <2>1. j + 1 \in 1 .. Count /\ 6 * j + 2 = 6 * ((j + 1) - 1) + 1 + 1
    BY <1>1, <1>3
  <2>2. Sending(j + 1, 1, R, l, t)
    BY DEF Sending
  <2> QED BY <2>1, <2>2 DEF ZipState
<1> QED BY <1>2, <1>3

\* A store that arrives during the pass for TLV i
LEMMA SendingTakes ==
  ASSUME NEW i \in 1 .. Count, NEW r \in 1 .. 6, NEW R, NEW l, NEW t, NEW s,
         NEW R1, NEW l1, NEW op, op = Zip!Zipline[6 * (i - 1) + 1 + r], op.do = "store",
         Sending(i, r, R, l, t), IsDma(R), ZipTakes(Store(op), R, l, R1, l1)
  PROVE  r \in 1 .. 5 /\ Sending(i, r + 1, R1, l1, t)
<1> DEFINE tlv == dma_tlv_header[i]
           a == 6 * (i - 1) + 1
           S == Zip!Zipline
           q == Store(op)
<1>1. /\ StoresIn(S[a + 1], Zip!TLV_TYPE, tlv.type)
      /\ StoresIn(S[a + 2], Zip!DATA_PTR, tlv.data_ptr)
      /\ StoresIn(S[a + 3], Zip!DATA_LEN, tlv.length)
      /\ StoresIn(S[a + 4], Zip!DMA_TYPE, 0)
      /\ StoresIn(S[a + 5], Zip!START_DMA, 1)
      /\ S[a + 6].do = "wait"
  BY SendingOps
<1>2. op = S[a + r] /\ op.do = "store"
  OBVIOUS
<1>3. /\ q.to \in Plain => /\ R1[q.to] = q.val /\ l1 = l
                           /\ \A y \in Used \ {q.to} : R1[y] = R[y]
      /\ q.to = Zip!START_DMA => /\ R1[Zip!DONE_DMA] = 0 /\ l1 = R[Zip!DATA_LEN]
                                 /\ \A y \in Plain : R1[y] = R[y]
  BY ZipEffect
<1>4. /\ tlv.length \in Nat /\ Before(i) \in Nat
      /\ Before(i + 1) = Before(i) + tlv.length
  BY Contiguous
<1> HIDE DEF S, a, q
<1>5. r # 6
  BY <1>1, <1>2
<1>6. r \in 1 .. 5
  BY <1>5
<1>7. CASE r = 1
  <2>1. q.to = Zip!TLV_TYPE /\ q.val = tlv.type
    BY <1>1, <1>2, <1>7 DEF StoresIn, q
  <2>2. R1[Zip!TLV_TYPE] = tlv.type /\ l1 = l
    BY <2>1, <1>3 DEF Plain
  <2> QED BY <2>2, <1>6, <1>7 DEF Sending
<1>8. CASE r = 2
  <2>1. q.to = Zip!DATA_PTR /\ q.val = tlv.data_ptr
    BY <1>1, <1>2, <1>8 DEF StoresIn, q
  <2>2. R1[Zip!DATA_PTR] = tlv.data_ptr /\ l1 = l /\ R1[Zip!TLV_TYPE] = R[Zip!TLV_TYPE]
    BY <2>1, <1>3, ZipPlaces DEF Plain, Used
  <2> QED BY <2>2, <1>6, <1>8 DEF Sending
<1>9. CASE r = 3
  <2>1. q.to = Zip!DATA_LEN /\ q.val = tlv.length
    BY <1>1, <1>2, <1>9 DEF StoresIn, q
  <2>2. /\ R1[Zip!DATA_LEN] = tlv.length /\ l1 = l
        /\ R1[Zip!TLV_TYPE] = R[Zip!TLV_TYPE] /\ R1[Zip!DATA_PTR] = R[Zip!DATA_PTR]
    BY <2>1, <1>3, ZipPlaces DEF Plain, Used
  <2> QED BY <2>2, <1>6, <1>9 DEF Sending
<1>10. CASE r = 4
  <2>1. q.to = Zip!DMA_TYPE /\ q.val = 0
    BY <1>1, <1>2, <1>10 DEF StoresIn, q
  <2>2. /\ R1[Zip!DMA_TYPE] = 0 /\ l1 = l /\ R1[Zip!DATA_LEN] = R[Zip!DATA_LEN]
        /\ R1[Zip!TLV_TYPE] = R[Zip!TLV_TYPE] /\ R1[Zip!DATA_PTR] = R[Zip!DATA_PTR]
    BY <2>1, <1>3, ZipPlaces DEF Plain, Used
  <2> QED BY <2>2, <1>6, <1>10 DEF Sending
<1>11. CASE r = 5
  <2>1. q.to = Zip!START_DMA
    BY <1>1, <1>2, <1>11 DEF StoresIn, q
  <2>2. /\ R1[Zip!DONE_DMA] = 0 /\ l1 = R[Zip!DATA_LEN]
        /\ R1[Zip!DMA_TYPE] = R[Zip!DMA_TYPE] /\ R1[Zip!DATA_LEN] = R[Zip!DATA_LEN]
        /\ R1[Zip!TLV_TYPE] = R[Zip!TLV_TYPE] /\ R1[Zip!DATA_PTR] = R[Zip!DATA_PTR]
    BY <2>1, <1>3 DEF Plain
  <2>3. /\ R[Zip!DATA_LEN] = tlv.length /\ Len(t) = Before(i)
        /\ R[Zip!TLV_TYPE] = tlv.type /\ R[Zip!DATA_PTR] = tlv.data_ptr
        /\ R[Zip!DMA_TYPE] = 0
    BY <1>11 DEF Sending
  <2>4. l1 \in 0 .. tlv.length /\ Len(t) = Before(i + 1) - l1
    BY <2>2, <2>3, <1>4
  <2> QED BY <2>2, <2>3, <2>4, <1>6, <1>11 DEF Sending
<1> QED BY <1>6, <1>7, <1>8, <1>9, <1>10, <1>11

\* A store that arrives while the response is being fetched
LEMMA FetchingTakes ==
  ASSUME NEW r \in 1 .. 8, NEW R, NEW l, NEW t, NEW s,
         NEW R1, NEW l1, NEW op, op = Zip!Zipline[6 * Count + 1 + r], op.do = "store", r <= 6,
         Fetching(r, R, l, t, s), IsDma(R), ZipTakes(Store(op), R, l, R1, l1)
  PROVE  r \in 1 .. 4 /\ Fetching(r + 1, R1, l1, t, s)
<1> DEFINE a == 6 * Count + 1
           S == Zip!Zipline
           q == Store(op)
<1>1. /\ StoresIn(S[a + 1], Zip!DATA_PTR, 0) /\ StoresIn(S[a + 2], Zip!DATA_LEN, 0)
      /\ StoresIn(S[a + 3], Zip!DMA_TYPE, 1) /\ StoresIn(S[a + 4], Zip!START_DMA, 1)
      /\ S[a + 5].do = "wait" /\ S[a + 6].do = "load"
  BY FetchingOps
<1>2. op = S[a + r] /\ op.do = "store"
  OBVIOUS
<1>3. /\ q.to \in Plain => /\ R1[q.to] = q.val /\ l1 = l
                           /\ \A y \in Used \ {q.to} : R1[y] = R[y]
      /\ q.to = Zip!START_DMA => /\ R1[Zip!DONE_DMA] = 0 /\ l1 = R[Zip!DATA_LEN]
                                 /\ \A y \in Plain : R1[y] = R[y]
  BY ZipEffect
<1> HIDE DEF S, a, q
<1>5. r # 5 /\ r # 6
  BY <1>1, <1>2
<1>6. r \in 1 .. 4
  BY <1>5
<1>7. CASE r = 1
  <2>1. q.to = Zip!DATA_PTR
    BY <1>1, <1>2, <1>7 DEF StoresIn, q
  <2>2. l1 = l
    BY <2>1, <1>3 DEF Plain
  <2> QED BY <2>2, <1>6, <1>7 DEF Fetching
<1>8. CASE r = 2
  <2>1. q.to = Zip!DATA_LEN /\ q.val = 0
    BY <1>1, <1>2, <1>8 DEF StoresIn, q
  <2>2. R1[Zip!DATA_LEN] = 0 /\ l1 = l
    BY <2>1, <1>3 DEF Plain
  <2> QED BY <2>2, <1>6, <1>8 DEF Fetching
<1>9. CASE r = 3
  <2>1. q.to = Zip!DMA_TYPE /\ q.val = 1
    BY <1>1, <1>2, <1>9 DEF StoresIn, q
  <2>2. R1[Zip!DMA_TYPE] = 1 /\ l1 = l /\ R1[Zip!DATA_LEN] = R[Zip!DATA_LEN]
    BY <2>1, <1>3, ZipPlaces DEF Plain, Used
  <2> QED BY <2>2, <1>6, <1>9 DEF Fetching
<1>10. CASE r = 4
  <2>1. q.to = Zip!START_DMA
    BY <1>1, <1>2, <1>10 DEF StoresIn, q
  <2>2. /\ R1[Zip!DONE_DMA] = 0 /\ l1 = R[Zip!DATA_LEN]
        /\ R1[Zip!DMA_TYPE] = R[Zip!DMA_TYPE] /\ R1[Zip!DATA_LEN] = R[Zip!DATA_LEN]
    BY <2>1, <1>3 DEF Plain
  <2> QED BY <2>2, <1>6, <1>10 DEF Fetching
<1> QED BY <1>6, <1>7, <1>8, <1>9, <1>10

\* A store that arrives moves the state of DMA and engine on.
LEMMA DmaTakes ==
  ASSUME NEW d \in 1 .. Len(Zip!Zipline), Zip!Zipline[d].do = "store",
         NEW R, NEW l, NEW t, NEW s, NEW R1, NEW l1, IsDma(R),
         ZipState(d, R, l, t, s), ZipTakes(Store(Zip!Zipline[d]), R, l, R1, l1)
  PROVE  ZipState(d + 1, R1, l1, t, s)
<1> DEFINE S == Zip!Zipline
<1>n. Count \in Nat /\ Len(S) = 6 * Count + 7 /\ d \in 1 .. Len(S) /\ S[d].do = "store"
  BY ZiplineOps, Contiguous
<1>d. d \in Nat
  <2> HIDE DEF S
  <2> QED BY <1>n
<1>1. CASE d = 1 /\ l = -1 /\ Len(t) = 0
  <2>1. Store(S[1]).to = Zip!SacEnable
    BY ZiplineOps DEF Zip!Set, Store
  <2>2. l1 = l
    BY <2>1, <1>1, ZipEffect
  <2>3. 0 \in 0 .. Count /\ 6 * 0 + 2 = 2 /\ 0 + 1 = 1 /\ d + 1 = 2
    BY <1>n, <1>1
  <2>4. Len(t) = Before(0 + 1)
    BY <2>3, <1>1, Contiguous
  <2>5. ZipState(6 * 0 + 2, R1, l1, t, s)
    BY <2>2, <2>3, <2>4, <1>1, PassEnds
  <2> QED BY <2>3, <2>5
<1>2. ASSUME NEW i \in 1 .. Count, NEW r \in 1 .. 6, d = 6 * (i - 1) + 1 + r,
             Sending(i, r, R, l, t)
      PROVE  ZipState(d + 1, R1, l1, t, s)
  <2>1. S[d] = S[6 * (i - 1) + 1 + r]
    BY <1>2
  <2>2. r \in 1 .. 5 /\ Sending(i, r + 1, R1, l1, t)
    <3> DEFINE op == S[d]
    <3>1. /\ op = Zip!Zipline[6 * (i - 1) + 1 + r] /\ op.do = "store"
          /\ ZipTakes(Store(op), R, l, R1, l1) /\ IsDma(R)
      BY <2>1, <1>n
    <3> HIDE DEF op
    <3> QED BY <3>1, <1>2, SendingTakes, ZenonT(60)
  <2>3. r + 1 \in 1 .. 6 /\ d + 1 = 6 * (i - 1) + 1 + (r + 1)
    BY <2>2, <1>n, <1>2
  <2> QED BY <2>2, <2>3 DEF ZipState
<1>3. ASSUME NEW r \in 1 .. 8, d = 6 * Count + 1 + r, Fetching(r, R, l, t, s)
      PROVE  ZipState(d + 1, R1, l1, t, s)
  <2>1. S[d] = S[6 * Count + 1 + r]
    BY <1>3
  <2>2. r <= 6
    <3> HIDE DEF S
    <3> QED BY <1>n, <1>3
  <2>3. r \in 1 .. 4 /\ Fetching(r + 1, R1, l1, t, s)
    <3> DEFINE op == S[d]
    <3>1. /\ op = Zip!Zipline[6 * Count + 1 + r] /\ op.do = "store"
          /\ ZipTakes(Store(op), R, l, R1, l1) /\ IsDma(R)
      BY <2>1, <1>n
    <3> HIDE DEF op
    <3> QED BY <3>1, <2>2, <1>3, FetchingTakes, ZenonT(60)
  <2>4. r + 1 \in 1 .. 8 /\ d + 1 = 6 * Count + 1 + (r + 1)
    BY <2>3, <1>n, <1>3
  <2> QED BY <2>3, <2>4 DEF ZipState
<1> QED BY <1>1, <1>2, <1>3 DEF ZipState

\* The core goes on when a poll finds the status set, when the load is answered,
\* and to bp_finish.
ZipGoesOn(S, d, R) ==
  \/ d <= Len(S) /\ S[d].do = "wait" /\ R[S[d].from] # 0
  \/ d <= Len(S) /\ S[d].do = "load"
  \/ d = Len(S) + 1

\* A poll that ends has seen its transfer to the end.
LEMMA DmaAnswers ==
  ASSUME NEW d \in 1 .. Len(Zip!Zipline) + 1, NEW R, NEW l, NEW t, NEW s,
         ZipState(d, R, l, t, s), ZipGoesOn(Zip!Zipline, d, R)
  PROVE  ZipState(d + 1, R, l, t, s)
<1> DEFINE S == Zip!Zipline
<1>n. Count \in Nat /\ Len(S) = 6 * Count + 7 /\ d \in 1 .. Len(S) + 1 /\ ZipGoesOn(S, d, R)
  BY ZiplineOps, Contiguous
<1>1. CASE d = 1 /\ l = -1 /\ Len(t) = 0
  <2>1. S[1].do = "store"
    BY ZiplineOps DEF Zip!Set
  <2> HIDE DEF S
  <2>2. d # Len(S) + 1
    BY <1>n, <1>1
  <2> QED BY <2>1, <2>2, <1>1, <1>n DEF ZipGoesOn
<1>2. ASSUME NEW i \in 1 .. Count, NEW r \in 1 .. 6, d = 6 * (i - 1) + 1 + r,
             Sending(i, r, R, l, t)
      PROVE  ZipState(d + 1, R, l, t, s)
  <2> DEFINE a == 6 * (i - 1) + 1
  <2>1. /\ S[a + 1].do = "store" /\ S[a + 2].do = "store" /\ S[a + 3].do = "store"
        /\ S[a + 4].do = "store" /\ S[a + 5].do = "store"
        /\ S[a + 6].do = "wait" /\ S[a + 6].from = Zip!DONE_DMA
    BY SendingOps DEF StoresIn
  <2>2. d = a + r
    BY <1>2
  <2>3. d # Len(S) + 1 /\ i \in 0 .. Count /\ d + 1 <= Len(S)
    <3> HIDE DEF S
    <3> QED BY <1>n, <1>2
  <2> HIDE DEF S, a
  <2>4. r = 6 /\ R[Zip!DONE_DMA] # 0
    <3>1. r # 1 /\ r # 2 /\ r # 3 /\ r # 4 /\ r # 5
      BY <2>1, <2>2, <2>3, <1>n DEF ZipGoesOn
    <3> QED BY <3>1, <2>1, <2>2, <2>3, <1>n DEF ZipGoesOn
  <2>5. l = -1 /\ Len(t) = Before(i + 1)
    BY <2>4, <1>2 DEF Sending
  <2>6. ZipState(6 * i + 2, R, l, t, s)
    BY <2>3, <2>5, PassEnds
  <2>7. d + 1 = 6 * i + 2
    BY <2>4, <1>n, <1>2
  <2> QED BY <2>6, <2>7
<1>3. ASSUME NEW r \in 1 .. 8, d = 6 * Count + 1 + r, Fetching(r, R, l, t, s)
      PROVE  ZipState(d + 1, R, l, t, s)
  <2> DEFINE a == 6 * Count + 1
  <2>1. /\ S[a + 1].do = "store" /\ S[a + 2].do = "store" /\ S[a + 3].do = "store"
        /\ S[a + 4].do = "store"
        /\ S[a + 5].do = "wait" /\ S[a + 5].from = Zip!DONE_DMA
    BY FetchingOps DEF StoresIn
  <2>2. d = a + r
    BY <1>3
  <2>3. r <= 7 /\ (d = Len(S) + 1 <=> r = 7)
    <3> HIDE DEF S
    <3> QED BY <1>n, <1>3
  <2> HIDE DEF S, a
  <2>4. r # 1 /\ r # 2 /\ r # 3 /\ r # 4 /\ (r = 5 => R[Zip!DONE_DMA] # 0)
    BY <2>1, <2>2, <2>3, <1>n DEF ZipGoesOn
  <2>5. r \in {5, 6, 7}
    BY <2>3, <2>4
  <2>6. Fetching(r + 1, R, l, t, s)
    BY <2>4, <2>5, <1>3 DEF Fetching
  <2>7. r + 1 \in 1 .. 8 /\ d + 1 = 6 * Count + 1 + (r + 1)
    BY <2>5, <1>n, <1>3
  <2> QED BY <2>6, <2>7 DEF ZipState
<1> QED BY <1>1, <1>2, <1>3 DEF ZipState

\* A step of core c that takes nothing from the engine leaves the rest alone.
LEMMA ZipOthersKeep ==
  ASSUME ZipInv, NEW c \in Cores, Shape', OnlyCore(c), taken' = taken, IsDma(dma'),
         Behind(Zip!Script(c), next'[c], posted'[c]),
         ZipState(Done(0)', dma', left', taken, resp')
  PROVE  ZipInv'
<1>1. \A x \in Cores : Behind(Zip!Script(x), next'[x], posted'[x])
  BY DEF OnlyCore, ZipInv
<1>2. \A x : Zip!Script(x)' = Zip!Script(x)
  BY DEF Zip!Script, Zip!Zipline, Zip!SendTlvs, Zip!SendTlv, Zip!HwDma
<1>3. Zip!TypeGoesWithItsData' /\ taken' \in Seq([type : Nat, word : Nat])
  BY DEF ZipInv, Zip!TypeGoesWithItsData
<1>4. dma' = [x \in Zip!Registers |-> dma'[x]]
  BY DEF IsDma
<1>5. \A x \in Cores : Behind(Zip!Script(x), next[x], posted[x])'
  BY <1>1, <1>2
<1> QED BY <1>3, <1>4, <1>5 DEF ZipInv

\* There is a core 0.
LEMMA CoreZero == 0 \in Cores
BY CoresAssumption DEF Cores

\* The core goes on: a store is posted, or an answer has come.
LEMMA ZipDrives ==
  ASSUME ZipInv, NEW c \in Cores, Zip!Driver(c)
  PROVE  ZipInv'
<1> DEFINE S == Zip!Script(c)
<1>1. /\ Shape /\ Behind(S, next[c], posted[c]) /\ IsDma(dma)
      /\ ZipState(Done(0), dma, left, taken, resp)
  BY DEF ZipInv, IsDma
<1>2. EndsInAnswer(S) /\ Len(S) \in Nat
  BY ZipScripts DEF EndsInAnswer
<1>3. dma' = dma /\ left' = left /\ taken' = taken /\ resp' = resp
  BY DEF Zip!Driver, Zip!ziplineVars
<1>4. CASE Zip!Post(c, S)
  <2>1. Post(c, S)
    BY <1>4 DEF Post, Zip!Post, At, Zip!At, Advance, Zip!Advance
  <2> HIDE DEF S
  <2>2. /\ Behind(S, next'[c], posted'[c]) /\ Done(c)' = Done(c)
        /\ Shape' /\ OnlyCore(c)
    BY <1>1, <1>2, <2>1, PostAdds
  <2>3. Done(0)' = Done(0)
    BY <2>2, CoreZero DEF OnlyCore, Done
  <2> QED BY <1>1, <1>3, <2>2, <2>3, ZipOthersKeep DEF S
<1>5. CASE ~Zip!Post(c, S)
  <2>1. Zip!Wait(c, S, dma) \/ Zip!Load(c, S) \/ Zip!Finish(c, S)
    BY <1>5 DEF Zip!Driver
  <2> HIDE DEF S
  <2>2. Advance(c) /\ posted' = posted
    BY <2>1 DEF Zip!Wait, Zip!Load, Zip!Finish, Zip!Advance, Advance
  <2>n. next[c] \in Nat
    BY <1>1, <1>2 DEF Behind
  <2>3. posted[c] = <<>> /\ next[c] <= Len(S) + 1 /\ ZipGoesOn(S, next[c], dma)
    <3>1. CASE Zip!Finish(c, S)
      <4>1. next[c] = Len(S) + 1
        BY <3>1 DEF Zip!Finish
      <4>2. posted[c] = <<>>
        BY <4>1, <1>1, <1>2, NothingLeftAtEnd
      <4> QED BY <4>1, <4>2, <1>2 DEF ZipGoesOn
    <3>2. CASE Zip!Wait(c, S, dma)
      <4>1. /\ posted[c] = <<>> /\ next[c] <= Len(S)
            /\ S[next[c]].do = "wait" /\ dma[S[next[c]].from] # 0
        BY <3>2 DEF Zip!Wait, Zip!At
      <4> QED BY <4>1, <2>n, <1>2 DEF ZipGoesOn
    <3>3. CASE Zip!Load(c, S)
      <4>1. posted[c] = <<>> /\ next[c] <= Len(S) /\ S[next[c]].do = "load"
        BY <3>3 DEF Zip!Load, Zip!At
      <4> QED BY <4>1, <2>n, <1>2 DEF ZipGoesOn
    <3> QED BY <2>1, <3>1, <3>2, <3>3
  <2>4. /\ Behind(S, next'[c], posted'[c]) /\ Done(c)' = Done(c) + 1
        /\ Done(c) = next[c] /\ Shape' /\ OnlyCore(c)
    BY <1>1, <1>2, <2>2, <2>3, AnswerComes
  <2>5. ZipState(Done(0)', dma, left, taken, resp)
    <3>1. CASE c = 0
      <4>1. S = Zip!Zipline
        BY <3>1, ZipScripts DEF S
      <4>2. next[c] \in 1 .. Len(S) + 1
        BY <2>3, <1>1, <1>2 DEF Behind
      <4>3. ZipState(next[c], dma, left, taken, resp)
        BY <1>1, <2>4, <3>1
      <4>4. ZipState(next[c] + 1, dma, left, taken, resp)
        BY <4>1, <4>2, <4>3, <2>3, DmaAnswers
      <4> QED BY <4>4, <2>4, <3>1
    <3>2. CASE c # 0
      <4>1. Done(0)' = Done(0)
        BY <2>4, <3>2, CoreZero DEF OnlyCore, Done
      <4> QED BY <4>1, <1>1
    <3> QED BY <3>1, <3>2
  <2> QED BY <1>1, <1>3, <2>4, <2>5, ZipOthersKeep DEF S
<1> QED BY <1>4, <1>5

\* A store arrives; it can only be one of core 0.
LEMMA ZipArrives ==
  ASSUME ZipInv, NEW c \in Cores, Zip!Deliver(c)
  PROVE  ZipInv'
<1> DEFINE S == Zip!Script(c)
           s == Head(posted[c])
<1>1. /\ Shape /\ Behind(S, next[c], posted[c]) /\ IsDma(dma)
      /\ ZipState(Done(0), dma, left, taken, resp)
  BY DEF ZipInv, IsDma
<1>2. Len(S) \in Nat
  BY ZipScripts DEF EndsInAnswer
<1>3. /\ posted[c] # <<>> /\ posted' = [posted EXCEPT ![c] = Tail(@)]
      /\ next' = next /\ taken' = taken /\ resp' = resp
      /\ ZipTakes(s, dma, left, dma', left')
  BY DEF Zip!Deliver, ZipTakes
<1> HIDE DEF S, s
<1>4. /\ s = Store(S[Done(c)]) /\ S[Done(c)].do = "store"
      /\ Done(c) \in 1 .. Len(S)
      /\ Behind(S, next'[c], posted'[c]) /\ Done(c)' = Done(c) + 1
      /\ Shape' /\ OnlyCore(c)
  BY <1>1, <1>2, <1>3, OldestIsNext DEF s
<1>5. c = 0 /\ S = Zip!Zipline
  <2>1. Len(<<>>) = 0 /\ 1 .. 0 = {}
    OBVIOUS
  <2>2. c # 0 => S = <<>>
    BY ZipScripts DEF S
  <2>3. c = 0
    BY <2>1, <2>2, <1>4
  <2> QED BY <2>3, ZipScripts DEF S
<1>6. ZipState(Done(c) + 1, dma', left', taken, resp)
  <2>1. ZipState(Done(c), dma, left, taken, resp)
    BY <1>1, <1>5
  <2> QED BY <2>1, <1>1, <1>3, <1>4, <1>5, DmaTakes
<1>7. IsDma(dma')
  BY <1>1, <1>3, ZipEffect
<1> QED BY <1>3, <1>4, <1>5, <1>6, <1>7, ZipOthersKeep DEF S

\* While words are left, the pass for a TLV is at its poll.
LEMMA WhileMoving ==
  ASSUME NEW d, NEW R, NEW l, NEW t, NEW s, ZipState(d, R, l, t, s), l > 0
  PROVE  \E i \in 1 .. Count : d = 6 * (i - 1) + 1 + 6 /\ Sending(i, 6, R, l, t)
<1>1. l # -1 /\ l # 0
  <2>1. ~(-1 > 0) /\ ~(0 > 0)
    OBVIOUS
  <2> QED BY <2>1
<1>2. \A r \in 1 .. 8 : ~Fetching(r, R, l, t, s)
  <2>1. \A r \in 1 .. 8 : r <= 4 \/ r > 4
    OBVIOUS
  <2> QED BY <2>1, <1>1 DEF Fetching
<1>3. \A i \in 1 .. Count, r \in 1 .. 6 : Sending(i, r, R, l, t) => r = 6
  <2>1. \A r \in 1 .. 6 : r <= 5 \/ r = 6
    OBVIOUS
  <2> QED BY <2>1, <1>1 DEF Sending
<1> QED BY <1>1, <1>2, <1>3 DEF ZipState

\* The DMA moves the next word of the request, and its type stands.
LEMMA ZipMoves ==
  ASSUME ZipInv, Zip!MoveWord
  PROVE  ZipInv'
<1>1. /\ Shape /\ IsDma(dma) /\ taken \in Seq([type : Nat, word : Nat])
      /\ ZipState(Done(0), dma, left, taken, resp) /\ Zip!TypeGoesWithItsData
  BY DEF ZipInv, IsDma
<1> DEFINE w == [type |-> dma[Zip!TLV_TYPE],
                 word |-> dma[Zip!DATA_PTR] + dma[Zip!DATA_LEN] - left]
<1>2. /\ left > 0 /\ left' = left - 1 /\ taken' = Append(taken, w)
      /\ next' = next /\ posted' = posted /\ dma' = dma /\ resp' = resp
  BY DEF Zip!MoveWord, Zip!driverVars
<1>3. PICK i \in 1 .. Count : Done(0) = 6 * (i - 1) + 1 + 6 /\ Sending(i, 6, dma, left, taken)
  BY <1>1, <1>2, WhileMoving
<1> DEFINE tlv == dma_tlv_header[i]
<1>4. /\ dma[Zip!TLV_TYPE] = tlv.type /\ dma[Zip!DATA_PTR] = tlv.data_ptr
      /\ dma[Zip!DATA_LEN] = tlv.length /\ dma[Zip!DMA_TYPE] = 0
      /\ dma[Zip!DONE_DMA] = 0 /\ left \in 0 .. tlv.length
      /\ Len(taken) = Before(i + 1) - left
  <2>1. 6 > 1 /\ 6 > 2 /\ 6 > 3 /\ 6 > 4 /\ ~(-1 > 0)
    OBVIOUS
  <2>2. left # -1
    BY <2>1, <1>2
  <2> QED BY <2>1, <2>2, <1>3 DEF Sending
<1>5. /\ tlv.data_ptr = Before(i) /\ tlv.length \in Nat /\ tlv.type \in Nat
      /\ Before(i + 1) = Before(i) + tlv.length /\ Before(i) \in Nat
      /\ Zip!Tlvs = 1 .. Count /\ i \in Zip!Tlvs
  BY Contiguous
<1> HIDE DEF tlv
<1>6. /\ dma[Zip!DATA_PTR] + dma[Zip!DATA_LEN] - left = Len(taken)
      /\ Len(taken) \in Nat /\ left \in Nat /\ left \in 1 .. tlv.length
      /\ Len(taken) \in tlv.data_ptr .. tlv.data_ptr + tlv.length - 1
  BY <1>2, <1>4, <1>5
<1>7. w = [type |-> tlv.type, word |-> Len(taken)]
  BY <1>4, <1>6
<1> HIDE DEF w
<1>8. w \in [type : Nat, word : Nat] /\ w.type = tlv.type /\ w.word = Len(taken)
  BY <1>5, <1>6, <1>7
<1>9. /\ taken' \in Seq([type : Nat, word : Nat]) /\ Len(taken') = Len(taken) + 1
      /\ \A n \in 1 .. Len(taken) : taken'[n] = taken[n]
      /\ taken'[Len(taken) + 1] = w
  BY <1>1, <1>2, <1>8, AppendProperties
<1>10. Zip!TypeGoesWithItsData'
  <2>1. ASSUME NEW n \in 1 .. Len(taken) + 1
        PROVE  /\ taken'[n].word = n - 1
               /\ \E j \in Zip!Tlvs : /\ n - 1 \in Zip!WordsOf(dma_tlv_header[j])
                                      /\ taken'[n].type = dma_tlv_header[j].type
    <3>1. CASE n \in 1 .. Len(taken)
      BY <3>1, <1>1, <1>9 DEF Zip!TypeGoesWithItsData
    <3>2. CASE n = Len(taken) + 1
      <4>1. n - 1 = Len(taken)
        BY <3>2, <1>6
      <4>2. Len(taken) \in Zip!WordsOf(tlv)
        BY <1>6 DEF Zip!WordsOf
      <4> QED BY <4>1, <4>2, <3>2, <1>5, <1>8, <1>9 DEF tlv
    <3> QED BY <3>1, <3>2, <1>6
  <2> QED BY <2>1, <1>9 DEF Zip!TypeGoesWithItsData, Zip!Tlvs, Zip!WordsOf
<1>11. Sending(i, 6, dma, left', taken')
  <2>1. left' = left - 1 /\ Len(taken') = Len(taken) + 1
    BY <1>2, <1>9
  <2>3. left' \in 0 .. tlv.length
    BY <2>1, <1>5, <1>6
  <2>4. Len(taken') = Before(i + 1) - left'
    BY <2>1, <1>4, <1>5, <1>6
  <2>2. ~(6 <= 5)
    OBVIOUS
  <2> QED BY <2>2, <2>3, <2>4, <1>4 DEF Sending, tlv
<1>12. ZipState(Done(0), dma, left', taken', resp)
  <2>1. 6 \in 1 .. 6
    OBVIOUS
  <2> QED BY <2>1, <1>3, <1>11 DEF ZipState
<1>13. Shape' /\ Done(0)' = Done(0)
  BY <1>1, <1>2 DEF Shape, Done
<1>14. \A x \in Cores : Behind(Zip!Script(x), next[x], posted[x])'
  <2>1. \A x : Zip!Script(x)' = Zip!Script(x)
    BY DEF Zip!Script, Zip!Zipline, Zip!SendTlvs, Zip!SendTlv, Zip!HwDma
  <2>2. \A x \in Cores : Behind(Zip!Script(x), next'[x], posted'[x])
    BY <1>2 DEF ZipInv
  <2> QED BY <2>1, <2>2
<1> QED BY <1>1, <1>2, <1>9, <1>10, <1>12, <1>13, <1>14 DEF ZipInv, IsDma

\* At the end of a transfer the status is set; after the last the response is
\* about all that has been taken.
LEMMA ZipEnds ==
  ASSUME ZipInv, Zip!EndTransfer
  PROVE  ZipInv'
<1>1. /\ Shape /\ IsDma(dma) /\ ZipState(Done(0), dma, left, taken, resp)
      /\ Behind(Zip!Script(0), next[0], posted[0])
  BY CoreZero DEF ZipInv, IsDma
<1>2. /\ left = 0 /\ left' = -1 /\ dma' = [dma EXCEPT ![Zip!DONE_DMA] = 1]
      /\ resp' = (IF dma[Zip!DMA_TYPE] = 1 THEN Len(taken) ELSE resp)
      /\ next' = next /\ posted' = posted /\ taken' = taken
  BY DEF Zip!EndTransfer, Zip!driverVars
<1>3. /\ dma'[Zip!DONE_DMA] = 1 /\ \A y \in Plain : dma'[y] = dma[y]
      /\ IsDma(dma')
  BY <1>1, <1>2, ZipPlaces DEF IsDma, Plain, Zip!Registers
<1>4. Shape' /\ OnlyCore(0) /\ Done(0)' = Done(0)
  BY <1>1, <1>2 DEF Shape, OnlyCore, Done
<1>5. left # -1
  BY <1>2
<1>6. ZipState(Done(0), dma', left', taken, resp')
  <2>1. ASSUME NEW i \in 1 .. Count, NEW r \in 1 .. 6, Sending(i, r, dma, left, taken)
        PROVE  Sending(i, r, dma', left', taken)
    <3>1. r = 6
      <4>1. r <= 5 \/ r = 6
        OBVIOUS
      <4> QED BY <4>1, <2>1, <1>5 DEF Sending
    <3>2. Len(taken) = Before(i + 1)
      <4>1. Len(taken) = Before(i + 1) - 0
        BY <3>1, <2>1, <1>2, <1>5 DEF Sending
      <4> QED BY <4>1, Contiguous
    <3> QED BY <3>1, <3>2, <2>1, <1>2, <1>3 DEF Sending, Plain
  <2>2. ASSUME NEW r \in 1 .. 8, Fetching(r, dma, left, taken, resp)
        PROVE  Fetching(r, dma', left', taken, resp')
    <3>1. r > 4 /\ r > 3 /\ ~(r <= 4)
      <4>1. r <= 4 \/ r > 4
        OBVIOUS
      <4>2. r > 4
        BY <4>1, <2>2, <1>5 DEF Fetching
      <4> QED BY <4>2
    <3>2. dma[Zip!DMA_TYPE] = 1
      BY <3>1, <2>2 DEF Fetching
    <3> QED BY <3>1, <3>2, <2>2, <1>2, <1>3 DEF Fetching, Plain
  <2> QED BY <2>1, <2>2, <1>1, <1>5 DEF ZipState
<1> QED BY <1>1, <1>2, <1>3, <1>4, <1>6, CoreZero, ZipOthersKeep

\* At the start nothing has been posted, moved or taken.
LEMMA ZipStarts == ASSUME Zip!Init PROVE ZipInv
<1>1. /\ next = [c \in Cores |-> 1] /\ posted = [c \in Cores |-> <<>>]
      /\ dma = [x \in Zip!Registers |-> 0]
      /\ left = -1 /\ taken = <<>> /\ resp = -1 /\ Len(<<>>) = 0
  BY DEF Zip!Init, Zip!DriverInit, Cores, Zip!Cores
<1>2. Shape /\ IsDma(dma) /\ taken \in Seq([type : Nat, word : Nat])
  BY <1>1 DEF Shape, IsDma
<1>3. ASSUME NEW c \in Cores PROVE Behind(Zip!Script(c), next[c], posted[c])
  <2> DEFINE S == Zip!Script(c)
  <2>1. Len(S) \in Nat
    BY ZipScripts DEF EndsInAnswer
  <2>2. <<>> \in Seq(Stores(S)) /\ 1 .. Len(<<>>) = {}
    OBVIOUS
  <2> HIDE DEF S
  <2>3. Behind(S, 1, <<>>)
    BY <1>1, <2>1, <2>2 DEF Behind
  <2> QED BY <2>3, <1>1 DEF S
<1>4. Done(0) = 1
  BY <1>1, CoreZero DEF Done
<1>5. ZipState(1, dma, left, taken, resp)
  BY <1>1 DEF ZipState
<1>6. Zip!TypeGoesWithItsData
  <2>1. 1 .. 0 = {}
    OBVIOUS
  <2> QED BY <1>1, <2>1 DEF Zip!TypeGoesWithItsData
<1> QED BY <1>2, <1>3, <1>4, <1>5, <1>6 DEF ZipInv, IsDma

-----------------------------------------------------------------------------
(* The theorems *)

\* A step that changes nothing keeps the invariant.
LEMMA NothingChanges ==
  ASSUME Inv, UNCHANGED vars
  PROVE  Inv'
<1>1. /\ test' = test /\ next' = next /\ posted' = posted
      /\ loopback' = loopback /\ dev' = dev /\ host' = host /\ enabled' = enabled
      /\ busy' = busy /\ dma' = dma /\ left' = left /\ taken' = taken /\ resp' = resp
  BY DEF vars, driverVars, vdpOnly, ziplineOnly
<1>2. OnlyCore(0) /\ Done(0)' = Done(0) /\ (Shape => Shape')
  BY <1>1 DEF OnlyCore, Done, Shape
<1>3. ASSUME VdpInv PROVE VdpInv'
  <2>1. VdpShape'
    BY <1>1, <1>3 DEF VdpInv, VdpShape, Shape
  <2>2. /\ Behind(Vdp!Script(0), next[0], posted[0])
        /\ DeviceState(loopback, 0, Done(0), dev[0], host[0], enabled[0], busy[0])
    BY <1>3, CoreZero DEF VdpInv
  <2> QED BY <1>1, <1>2, <1>3, <2>1, <2>2, CoreZero, OthersKeep
<1>4. ASSUME ZipInv PROVE ZipInv'
  <2>1. /\ Behind(Zip!Script(0), next[0], posted[0]) /\ Shape /\ IsDma(dma)
        /\ ZipState(Done(0), dma, left, taken, resp)
    BY <1>4, CoreZero DEF ZipInv, IsDma
  <2> QED BY <1>1, <1>2, <1>4, <2>1, CoreZero, ZipOthersKeep
<1> QED BY <1>1, <1>3, <1>4 DEF Inv

\* Every step keeps the invariant.
LEMMA StepKeeps ==
  ASSUME Inv, Next
  PROVE  Inv'
<1>1. ASSUME NEW c \in Cores, Drive(c) PROVE Inv'
  <2>1. CASE test = "vdp" /\ Vdp!Driver(c) /\ test' = test /\ loopback' = loopback
    <3>1. VdpInv
      BY <2>1 DEF Inv
    <3>2. VdpInv'
      BY <2>1, <3>1, VdpDrives
    <3> QED BY <2>1, <3>2 DEF Inv
  <2>2. CASE test = "zipline" /\ Zip!Driver(c) /\ test' = test
    <3>1. ZipInv
      BY <2>2 DEF Inv
    <3>2. ZipInv'
      BY <2>2, <3>1, ZipDrives
    <3> QED BY <2>2, <3>2 DEF Inv
  <2> QED BY <1>1, <2>1, <2>2 DEF Drive, VdpStep, ZipStep
<1>2. ASSUME NEW c \in Cores, Arrive(c) PROVE Inv'
  <2>1. CASE test = "vdp" /\ Vdp!Deliver(c) /\ test' = test /\ loopback' = loopback
    <3>1. VdpInv
      BY <2>1 DEF Inv
    <3>2. VdpInv'
      BY <2>1, <3>1, VdpArrives
    <3> QED BY <2>1, <3>2 DEF Inv
  <2>2. CASE test = "zipline" /\ Zip!Deliver(c) /\ test' = test
    <3>1. ZipInv
      BY <2>2 DEF Inv
    <3>2. ZipInv'
      BY <2>2, <3>1, ZipArrives
    <3> QED BY <2>2, <3>2 DEF Inv
  <2> QED BY <1>2, <2>1, <2>2 DEF Arrive, VdpStep, ZipStep
<1>3. ASSUME NEW c \in Cores, Compute(c) PROVE Inv'
  <2>1. test = "vdp" /\ Vdp!Compute(c) /\ test' = test /\ loopback' = loopback
    BY <1>3 DEF Compute, VdpStep
  <2>2. VdpInv
    BY <2>1 DEF Inv
  <2>3. VdpInv'
    BY <2>1, <2>2, VdpComputes
  <2> QED BY <2>1, <2>3 DEF Inv
<1>4. ASSUME ZipDma PROVE Inv'
  <2>1. test = "zipline" /\ (Zip!MoveWord \/ Zip!EndTransfer) /\ test' = test
    BY <1>4 DEF ZipDma
  <2>2. ZipInv
    BY <2>1 DEF Inv
  <2>3. ZipInv'
    BY <2>1, <2>2, ZipMoves, ZipEnds
  <2> QED BY <2>1, <2>3 DEF Inv
<1>5. ASSUME UNCHANGED vars PROVE Inv'
  BY <1>5, NothingChanges
<1> QED BY <1>1, <1>2, <1>3, <1>4, <1>5 DEF Next

\* Both programs start in it.
LEMMA InitHolds == Init => Inv
BY VdpStarts, ZipStarts DEF Init, Inv

\* The state of each device is the one the script of its core has come to, at all
\* times.
THEOREM Invariance == FairSpec => []Inv
<1>1. Inv /\ [Next]_vars => Inv'
  BY StepKeeps, NothingChanges
<1> QED BY <1>1, InitHolds, PTL DEF FairSpec

\* From the start command to the end of the program the accelerator finds the
\* operands main set up: every word and every register had arrived, and the
\* response is behind them.
THEOREM OperandsStandHolds == FairSpec => []OperandsStand
<1>1. Inv => OperandsStand
  <2> SUFFICES ASSUME Inv, test = "vdp", NEW c \in Cores,
                      busy[c] \/ dev[c][Vdp!RESP_STATUS] # 0
               PROVE  /\ Vdp!Operand(c, Vdp!INPUT_A_PTR) = Vdp!input_array_a
                      /\ Vdp!Operand(c, Vdp!INPUT_B_PTR) = Vdp!input_array_b
    BY DEF OperandsStand, Vdp!OperandsStand, Vdp!Cores, Cores
  <2>1. /\ Behind(Vdp!Script(c), next[c], posted[c]) /\ loopback \in BOOLEAN
        /\ DeviceState(loopback, c, Done(c), dev[c], host[c], enabled[c], busy[c])
    BY DEF Inv, VdpInv, VdpShape
  <2>2. ~(c = 0 /\ loopback) /\ c \in {0, 3}
    BY <2>1 DEF DeviceState, LoopbackState, IdleState
  <2>3. CallState(c, Done(c), dev[c], host[c], enabled[c], busy[c])
    BY <2>1, <2>2 DEF DeviceState
  <2>4. Done(c) \in Nat
    <3>1. Len(Vdp!Script(c)) \in Nat
      BY <2>1, VdpScripts DEF EndsInAnswer
    <3>2. next[c] \in Nat /\ Len(posted[c]) \in Nat /\ Len(posted[c]) < next[c]
      BY <2>1, <3>1 DEF Behind
    <3> QED BY <3>2 DEF Done
  <2>5. Done(c) > Copied(c) + 7
    <3>1. Copied(c) \in Nat
      BY <2>2, CallOps DEF IsCall
    <3>2. ~(Done(c) <= Copied(c) + 7)
      BY <2>3 DEF CallState, Started
    <3> QED BY <2>4, <3>1, <3>2
  <2>6. Configured(c, Done(c), dev[c], enabled[c])
    BY <2>3 DEF CallState
  <2> QED BY <2>2, <2>4, <2>5, <2>6, OperandsFound
<1> QED BY <1>1, Invariance, PTL

\* Behind the end of a script everything is done.
LEMMA EndIsDone ==
  ASSUME NEW c, NEW S, EndsInAnswer(S), Behind(S, next[c], posted[c]), next[c] > Len(S)
  PROVE  Done(c) = next[c] /\ Done(c) \in Nat /\ Len(S) \in Nat
<1>1. Len(S) \in Nat /\ next[c] \in 1 .. Len(S) + 2
  BY DEF EndsInAnswer, Behind
<1>2. next[c] = Len(S) + 1 \/ next[c] = Len(S) + 2
  BY <1>1
<1>3. posted[c] = <<>>
  <2>1. CASE next[c] = Len(S) + 1
    BY <2>1, NothingLeftAtEnd
  <2>2. CASE next[c] = Len(S) + 2
    <3>1. ~(next[c] <= Len(S) + 1)
      BY <2>2, <1>1
    <3> QED BY <3>1 DEF Behind
  <2> QED BY <1>2, <2>1, <2>2
<1> QED BY <1>1, <1>3 DEF Done

\* What main prints after a call is the dot product, after the loopback its own
\* words, and after the request the response to the whole of it, however the
\* stores, the device and the other cores were interleaved.
THEOREM ResponseIsRightHolds == FairSpec => []ResponseIsRight
<1>1. ASSUME Inv, test = "vdp", NEW c \in Cores \intersect {0, 3},
             next[c] > Len(Vdp!Script(c))
      PROVE  IF c = 0 /\ loopback
               THEN SubSeq(host[c], 1, word_count) = Vdp!input_array
               ELSE host[c][1] = Dot
  <2> DEFINE S == Vdp!Script(c)
  <2>1. /\ Behind(S, next[c], posted[c]) /\ loopback \in BOOLEAN
        /\ DeviceState(loopback, c, Done(c), dev[c], host[c], enabled[c], busy[c])
        /\ host[c] = [k \in 1 .. word_count + 1 |-> host[c][k]]
    BY <1>1 DEF Inv, VdpInv, VdpShape
  <2>2. EndsInAnswer(S) /\ next[c] > Len(S)
    BY <1>1, <2>1, VdpScripts
  <2> HIDE DEF S
  <2>3. Done(c) = next[c] /\ Done(c) \in Nat /\ Len(S) \in Nat
    BY <2>1, <2>2, EndIsDone
  <2>4. CASE c = 0 /\ loopback
    <3>1. Len(S) = 2 * word_count + 2 /\ word_count \in Nat
      BY <2>1, <2>4, VdpScripts, LoopbackOps, Lengths DEF S
    <3>2. \A k \in 1 .. word_count : Done(c) > word_count + k + 1
      BY <2>2, <2>3, <3>1
    <3>3. LoopbackState(Done(c), dev[c], host[c], enabled[c], busy[c])
      BY <2>1, <2>4 DEF DeviceState
    <3>4. \A k \in 1 .. word_count : host[c][k] = Vdp!input_array[k]
      BY <3>2, <3>3 DEF LoopbackState
    <3>5. SubSeq(host[c], 1, word_count) = [k \in 1 .. word_count |-> host[c][k]]
      <4> DEFINE H == host[c]
                 T == {H[k] : k \in 1 .. word_count + 1}
      <4>1. H \in Seq(T) /\ Len(H) = word_count + 1
        <5>1. H = [k \in 1 .. word_count + 1 |-> H[k]]
          BY <2>1
        <5>2. \A k \in 1 .. word_count + 1 : H[k] \in T
          OBVIOUS
        <5>3. word_count + 1 \in Nat
          BY <3>1
        <5> HIDE DEF H, T
        <5>4. H \in [1 .. word_count + 1 -> T]
          BY <5>1, <5>2
        <5>5. H \in Seq(T)
          BY <5>3, <5>4, SeqDef
        <5> QED BY <5>1, <5>3, <5>5, LenProperties
      <4> HIDE DEF H, T
      <4>2. SubSeq(H, 1, word_count) = [k \in 1 .. word_count |-> H[k]]
        BY <3>1, <4>1
      <4> QED BY <4>2 DEF H
    <3>6. Vdp!input_array = [k \in 1 .. word_count |-> Vdp!input_array[k]]
      BY DEF Vdp!input_array
    <3>7. [k \in 1 .. word_count |-> host[c][k]] = [k \in 1 .. word_count |-> Vdp!input_array[k]]
      BY <3>4
    <3> QED BY <2>4, <3>5, <3>6, <3>7
  <2>5. CASE ~(c = 0 /\ loopback)
    <3>1. S = Call(c) /\ CallState(c, Done(c), dev[c], host[c], enabled[c], busy[c])
      BY <2>1, <2>5, VdpScripts DEF DeviceState, S
    <3>2. /\ Copied(c) \in Nat
          /\ Len(S) = IF c = 0 THEN Copied(c) + 9 ELSE Copied(c) + 8
      BY <3>1, CallOps DEF IsCall
    <3>3. CASE c = 0
      <4>1. Done(c) > Copied(c) + 9
        BY <2>2, <2>3, <3>2, <3>3
      <4> QED BY <4>1, <2>5, <3>1, <3>3 DEF CallState, Started
    <3>4. CASE c = 3
      <4>1. Done(c) > Copied(c) + 8 /\ Done(c) > Copied(c) + 7
        BY <2>2, <2>3, <3>2, <3>4
      <4>2. Answer(c, dev[c], host[c]) = Dot
        BY <4>1, <3>1 DEF CallState, Started
      <4> QED BY <4>2, <2>5, <3>4 DEF Answer
    <3> QED BY <3>3, <3>4
  <2> QED BY <2>4, <2>5
<1>2. ASSUME Inv, test = "zipline", next[0] > Len(Zip!Zipline)
      PROVE  resp = Zip!RequestLength
  <2> DEFINE S == Zip!Zipline
  <2>1. /\ Behind(Zip!Script(0), next[0], posted[0])
        /\ ZipState(Done(0), dma, left, taken, resp)
    BY <1>2, CoreZero DEF Inv, ZipInv
  <2>2. Behind(S, next[0], posted[0]) /\ EndsInAnswer(S) /\ next[0] > Len(S)
    BY <1>2, <2>1, ZipScripts
  <2>3. Len(S) = 6 * Count + 7 /\ Count \in Nat
    BY ZiplineOps, Contiguous
  <2> HIDE DEF S
  <2>4. Done(0) \in Nat /\ Done(0) > 6 * Count + 7
    <3>1. Done(0) = next[0] /\ Done(0) \in Nat
      BY <2>2, EndIsDone
    <3> QED BY <2>2, <2>3, <3>1
  <2>5. PICK r \in 1 .. 8 : Done(0) = 6 * Count + 1 + r /\ Fetching(r, dma, left, taken, resp)
    <3>1. Done(0) # 1 /\ \A i \in 1 .. Count, r \in 1 .. 6 : Done(0) # 6 * (i - 1) + 1 + r
      BY <2>3, <2>4
    <3> QED BY <2>1, <3>1 DEF ZipState
  <2>6. r > 4 /\ r > 5
    BY <2>3, <2>4, <2>5
  <2>7. resp = Len(taken) /\ Len(taken) = Before(Count + 1)
    BY <2>5, <2>6 DEF Fetching
  <2> QED BY <2>7, Contiguous
<1>3. Inv => ResponseIsRight
  BY <1>1, <1>2 DEF Inv, ResponseIsRight, Vdp!ResponseIsRight, Zip!PrintsTheResponse,
                    Dot, Cores, Vdp!Cores
<1> QED BY <1>3, Invariance, PTL

\* Every word the compression engine takes is the next of the request and comes
\* with the type of the TLV it is in, whatever the request.
THEOREM TypeGoesWithItsDataHolds == FairSpec => []TypeGoesWithItsData
<1>1. Inv => TypeGoesWithItsData
  BY DEF Inv, ZipInv, TypeGoesWithItsData
<1> QED BY <1>1, Invariance, PTL
=============================================================================
