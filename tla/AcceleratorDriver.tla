------------------------- MODULE AcceleratorDriver --------------------------
(***************************************************************************)
(* The driver side of vdp.c, shared by the accelerators: a core runs a     *)
(* script of uncached stores and loads.  Stores are posted and reach the   *)
(* device in order; a load, and so every poll of a status register, is     *)
(* answered behind the stores of its core.                                 *)
(***************************************************************************)
EXTENDS Integers, Sequences, FiniteSets

CONSTANT NumCores       \* BP_CONFIG of vdp.h

ASSUME CoresAssumption == NumCores \in Nat \ {0}

Cores == 0 .. NumCores - 1

VARIABLES
  next,                 \* position of each core in its script
  posted                \* the stores of each core on their way

driverVars == <<next, posted>>

\* Places of a device: control and status registers, words of its memory, and
\* the register of the core's own tile that maps that memory.
Csr(x) == <<"csr", x>>
Mem(k) == <<"mem", k>>
SacEnable == <<"cfg", 0>>

\* Operations of a script
Set(to, val) == [do |-> "store", to |-> to, val |-> val]
Get(from, to) == [do |-> "load", from |-> from, to |-> to]
WaitFor(from) == [do |-> "wait", from |-> from]

\* dma_cpy to the memory of the device, and from it
CopyIn(words, at) ==
  [k \in 1 .. Len(words) |-> Set(Mem(at + k - 1), words[k])]
CopyOut(at, n) == [k \in 1 .. n |-> Get(Mem(at + k - 1), k)]

DriverInit ==
  /\ next = [c \in Cores |-> 1]
  /\ posted = [c \in Cores |-> <<>>]

At(c, script, do) == next[c] <= Len(script) /\ script[next[c]].do = do

Advance(c) == next' = [next EXCEPT ![c] = @ + 1]

Post(c, script) ==
  /\ At(c, script, "store")
  /\ LET op == script[next[c]]
     IN posted' = [posted EXCEPT ![c] = Append(@, [to |-> op.to, val |-> op.val])]
  /\ Advance(c)

\* The device answers a load when the stores before it have arrived; what it
\* answers is the business of the module that knows the device.
Load(c, script) ==
  /\ At(c, script, "load")
  /\ posted[c] = <<>>
  /\ Advance(c)
  /\ UNCHANGED posted

WaitNotAtAll(c, script, registers) ==
  /\ At(c, script, "wait")
  /\ Advance(c)
  /\ UNCHANGED posted

\* while (1) { status = bp_get_mmio_csr64(...); if (status) break; }
Wait(c, script, registers) ==
  /\ At(c, script, "wait")
  /\ posted[c] = <<>>
  /\ registers[script[next[c]].from] # 0
  /\ Advance(c)
  /\ UNCHANGED posted

\* bp_finish(0), by every core, with a script or without
Finish(c, script) ==
  /\ next[c] = Len(script) + 1
  /\ Advance(c)
  /\ UNCHANGED posted

AllFinished(scripts) ==
  \A c \in Cores : next[c] = Len(scripts[c]) + 2
===========================================================================
