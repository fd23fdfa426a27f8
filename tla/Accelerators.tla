---------------------------- MODULE Accelerators ----------------------------
(***************************************************************************)
(* The programs that drive accelerators through vdp.c, one at a time:      *)
(* `test' says which, and what only the others use is Unused.              *)
(***************************************************************************)
EXTENDS AcceleratorDriver

CONSTANTS
  vlen, word_count, MemWords,   \* of the dot product and the loopback
  dma_tlv_header                \* of the zipline request

VARIABLES
  test,
  loopback, dev, host, enabled, busy,
  dma, left, taken, resp

vdpOnly == <<loopback, dev, host, enabled, busy>>
ziplineOnly == <<dma, left, taken, resp>>
vars == <<test, driverVars, vdpOnly, ziplineOnly>>

Vdp == INSTANCE VdpAccelerator
Zip == INSTANCE ZiplineDma

ASSUME AcceleratorsAssumption == Vdp!VdpAssumption /\ Zip!ZiplineAssumption

Unused == "unused"

Init ==
  \/ /\ test = "vdp" /\ Vdp!Init
     /\ dma = Unused /\ left = Unused /\ taken = Unused /\ resp = Unused
  \/ /\ test = "zipline" /\ Zip!Init
     /\ loopback = Unused /\ dev = Unused /\ host = Unused
     /\ enabled = Unused /\ busy = Unused

\* What one core, and its device, do next
VdpStep(Step(_), c) ==
  test = "vdp" /\ Step(c) /\ UNCHANGED <<test, loopback, ziplineOnly>>
ZipStep(Step(_), c) ==
  test = "zipline" /\ Step(c) /\ UNCHANGED <<test, vdpOnly>>
ZipDma ==
  test = "zipline" /\ (Zip!MoveWord \/ Zip!EndTransfer) /\ UNCHANGED <<test, vdpOnly>>

Drive(c) == VdpStep(Vdp!Driver, c) \/ ZipStep(Zip!Driver, c)
Arrive(c) == VdpStep(Vdp!Deliver, c) \/ ZipStep(Zip!Deliver, c)
Compute(c) == VdpStep(Vdp!Compute, c)

Finished ==
  AllFinished(IF test = "vdp" THEN Vdp!Everyone ELSE Zip!Everyone)

Next ==
  \/ \E c \in Cores : Drive(c) \/ Arrive(c) \/ Compute(c)
  \/ ZipDma
  \/ Finished /\ UNCHANGED vars

\* Harts keep executing, stores arrive, and a started device answers.
FairSpec ==
  /\ Init /\ [][Next]_vars
  /\ \A c \in Cores : WF_vars(Drive(c)) /\ WF_vars(Arrive(c)) /\ WF_vars(Compute(c))
  /\ WF_vars(ZipDma)

-----------------------------------------------------------------------------
(* Properties *)

\* The vector accelerator computes on the operands main set up, and nothing
\* else, from start to end.
OperandsStand == test = "vdp" => Vdp!OperandsStand

\* What main sees after the call is the dot product, its own words back, or the
\* compression engine's answer to the whole request.
ResponseIsRight ==
  IF test = "vdp" THEN Vdp!ResponseIsRight ELSE Zip!PrintsTheResponse

\* Each word the compression engine takes has the type of its own TLV, and the
\* TLVs come whole and in order.
TypeGoesWithItsData == test = "zipline" => Zip!TypeGoesWithItsData

\* Every core comes to bp_finish: the polls end.
EveryoneFinishes == <>Finished
=============================================================================
