--------------------------- MODULE VdpAccelerator ---------------------------
(***************************************************************************)
(* streaming_accelerator_vdp.c, coherent_accelerator_vdp.c (the same main) *)
(* and streaming_accelerator_loopback.c with the drivers of vdp.c.  Core 0 *)
(* uses a streaming accelerator, which has operands and result in its own  *)
(* memory; core 3, if there is one, a coherent one, which reads and writes *)
(* the arrays of main.  The other cores finish at once.                    *)
(***************************************************************************)
EXTENDS AcceleratorDriver

CONSTANTS
  vlen,                 \* length of the vectors of the dot product
  word_count,           \* words sent through the loopback
  MemWords              \* words of device memory (external)

VdpAssumption ==
  /\ vlen \in Nat /\ word_count \in Nat /\ MemWords \in Nat
  /\ 2 * vlen < MemWords /\ word_count <= MemWords

VARIABLES
  loopback,             \* core 0 runs the main of the loopback program (rigid)
  dev,                  \* registers and memory of the device of each core
  host,                 \* what main sees: resp_data, or output_array
  enabled,              \* the tile of the core maps the device memory
  busy                  \* the device is computing

deviceVars == <<dev, host, enabled, busy>>

input_array_a == [k \in 1 .. vlen |-> k * 16]
input_array_b == [k \in 1 .. vlen |-> k * 32]
input_array == [k \in 1 .. word_count |-> (k - 1) * 16]

\* The CSRs of vdp.h
INPUT_A_PTR == Csr(0)
INPUT_B_PTR == Csr(1)
INPUT_LEN == Csr(2)
START_CMD == Csr(3)
RESP_STATUS == Csr(4)
RESP_PTR == Csr(5)
RESP_LEN == Csr(6)
Csrs == {Csr(x) : x \in 0 .. 7}

\* Where an operand or a result is: the device memory from word k on, or one
\* of main's arrays.
InDevice(k) == [space |-> "device", word |-> k]
InMain(array) == [space |-> "main", array |-> array]
Nowhere == [space |-> "none"]

-----------------------------------------------------------------------------
(* The drivers *)

\* bp_vdp_config_accelerator: the parameter operation is not used.
Config(a, b, length, resp) ==
  << Set(INPUT_A_PTR, a), Set(INPUT_B_PTR, b), Set(INPUT_LEN, length),
     Set(RESP_PTR, resp), Set(RESP_LEN, 1) >>

StreamingVdpOverlapped ==
  <<Set(SacEnable, 1)>> \o CopyIn(input_array_a, 0)
    \o CopyIn(input_array_b, vlen)
    \o Config(InDevice(0), InDevice(vlen), vlen, InDevice(vlen))
    \o <<Set(START_CMD, 1), WaitFor(RESP_STATUS)>> \o CopyOut(vlen, 1)

\* bp_call_vector_dot_product_accelerator(1, ...)
StreamingVdp ==
  <<Set(SacEnable, 1)>> \o CopyIn(input_array_a, 0)
    \o CopyIn(input_array_b, vlen)
    \o Config(InDevice(0), InDevice(vlen), vlen, InDevice(2 * vlen))
    \o <<Set(START_CMD, 1), WaitFor(RESP_STATUS)>> \o CopyOut(2 * vlen, 1)

CoherentVdpWaitsFirst ==
  <<Set(SacEnable, 1)>>
    \o Config(InMain("a"), InMain("b"), vlen, InMain("resp"))
    \o <<WaitFor(RESP_STATUS), Set(START_CMD, 1)>>

\* bp_call_vector_dot_product_accelerator(0, ...)
CoherentVdp ==
  <<Set(SacEnable, 1)>>
    \o Config(InMain("a"), InMain("b"), vlen, InMain("resp"))
    \o <<Set(START_CMD, 1), WaitFor(RESP_STATUS)>>

\* bp_call_loopback_accelerator; the write count it reads last is at the address
\* of the first word (ACCEL_LOOPBACK_WR_CNT = 0), which it finds again.
LoopbackCopy ==
  <<Set(SacEnable, 1)>> \o CopyIn(input_array, 0) \o CopyOut(0, word_count)
    \o <<Get(Mem(0), word_count + 1)>>

\* main: what each core does before bp_finish(0)
Script(c) ==
  IF c = 0 THEN IF loopback THEN LoopbackCopy ELSE StreamingVdp
  ELSE IF c = 3 THEN CoherentVdp ELSE <<>>

-----------------------------------------------------------------------------
Init ==
  /\ DriverInit
  /\ loopback \in BOOLEAN
  /\ dev = [c \in Cores |->
              [x \in Csrs \union {Mem(k) : k \in 0 .. MemWords - 1} |->
                 IF x \in {INPUT_A_PTR, INPUT_B_PTR, RESP_PTR} THEN Nowhere ELSE 0]]
  /\ host = [c \in Cores |-> [k \in 1 .. word_count + 1 |-> 0]]
  /\ enabled = [c \in Cores |-> FALSE]
  /\ busy = [c \in Cores |-> FALSE]

Driver(c) ==
  \/ Post(c, Script(c)) /\ UNCHANGED deviceVars
  \/ Wait(c, Script(c), dev[c]) /\ UNCHANGED deviceVars
  \/ /\ Load(c, Script(c))
     /\ LET op == Script(c)[next[c]]
        IN host' = [host EXCEPT ![c][op.to] = dev[c][op.from]]
     /\ UNCHANGED <<dev, enabled, busy>>
  \/ Finish(c, Script(c)) /\ UNCHANGED deviceVars

(* The accelerators *)

\* The oldest store of core c arrives.  A store to memory that is not mapped
\* goes nowhere; a start clears the status.
Deliver(c) ==
  /\ posted[c] # <<>>
  /\ posted' = [posted EXCEPT ![c] = Tail(@)]
  /\ LET s == Head(posted[c]) IN
       \/ /\ s.to = SacEnable
          /\ enabled' = [enabled EXCEPT ![c] = TRUE]
          /\ UNCHANGED <<dev, busy>>
       \/ /\ s.to[1] = "mem"
          /\ IF enabled[c] THEN dev' = [dev EXCEPT ![c][s.to] = s.val]
                           ELSE UNCHANGED dev
          /\ UNCHANGED <<enabled, busy>>
       \/ /\ s.to[1] = "csr" /\ s.to # START_CMD
          /\ dev' = [dev EXCEPT ![c][s.to] = s.val]
          /\ UNCHANGED <<enabled, busy>>
       \/ /\ s.to = START_CMD
          /\ dev' = [dev EXCEPT ![c][RESP_STATUS] = 0]
          /\ busy' = [busy EXCEPT ![c] = TRUE]
          /\ UNCHANGED enabled
  /\ UNCHANGED <<next, host>>

\* The words an operand register of the device of core c points to.
Operand(c, ptr) ==
  LET p == dev[c][ptr] IN
  [k \in 1 .. dev[c][INPUT_LEN] |->
     CASE p = InDevice(0) -> dev[c][Mem(k - 1)]
       [] p = InDevice(vlen) -> dev[c][Mem(vlen + k - 1)]
       [] p = InMain("a") -> input_array_a[k]
       [] p = InMain("b") -> input_array_b[k]]

DotProduct(a, b) ==
  LET Sum[n \in 0 .. Len(a)] == IF n = 0 THEN 0 ELSE Sum[n - 1] + a[n] * b[n]
  IN Sum[Len(a)]

\* The device writes its response and then sets the status.
Compute(c) ==
  /\ busy[c]
  /\ busy' = [busy EXCEPT ![c] = FALSE]
  /\ LET v == DotProduct(Operand(c, INPUT_A_PTR), Operand(c, INPUT_B_PTR))
         p == dev[c][RESP_PTR]
     IN IF p = InMain("resp")
        THEN /\ host' = [host EXCEPT ![c][1] = v]
             /\ dev' = [dev EXCEPT ![c][RESP_STATUS] = 1]
        ELSE /\ dev' = [dev EXCEPT ![c][Mem(p.word)] = v, ![c][RESP_STATUS] = 1]
             /\ UNCHANGED host
  /\ UNCHANGED <<driverVars, enabled>>

Everyone == [c \in Cores |-> Script(c)]

-----------------------------------------------------------------------------
(* Properties *)

\* From start to the end of the program the device finds the operands main
\* set up: all of them had arrived, and the result does not overlap them.
OperandsStand ==
  \A c \in Cores :
    busy[c] \/ dev[c][RESP_STATUS] # 0 =>
      /\ Operand(c, INPUT_A_PTR) = input_array_a
      /\ Operand(c, INPUT_B_PTR) = input_array_b

\* A core that has called the accelerator prints the dot product, one that has
\* been through the loopback gets every word back (ERRCNT is 0), whatever the
\* other core does meanwhile.
ResponseIsRight ==
  \A c \in Cores \intersect {0, 3} :
    next[c] > Len(Script(c)) =>
      IF c = 0 /\ loopback THEN SubSeq(host[c], 1, word_count) = input_array
      ELSE host[c][1] = DotProduct(input_array_a, input_array_b)
=============================================================================
