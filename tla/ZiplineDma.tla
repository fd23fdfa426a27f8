----------------------------- MODULE ZiplineDma -----------------------------
(***************************************************************************)
(* streaming_accelerator_zipline.c with bp_call_zipline_accelerator and    *)
(* bp_hw_dma: core 0 sends TLVs to the compression engine, telling the     *)
(* engine the type of each and a DMA device where it is, and fetches the   *)
(* response through the same DMA device.  Both devices are on one tile and *)
(* take the stores of a core in one order.                                 *)
(***************************************************************************)
EXTENDS AcceleratorDriver

\* The request: the type and the length of each TLV, and where it starts in
\* tlv_headers.
CONSTANT dma_tlv_header

Tlvs == DOMAIN dma_tlv_header

\* The TLVs lie behind one another.
ZiplineAssumption ==
  /\ dma_tlv_header \in Seq([data_ptr : Nat, length : Nat, type : Nat])
  /\ \A i \in Tlvs :
       dma_tlv_header[i].data_ptr =
         IF i = 1 THEN 0 ELSE dma_tlv_header[i - 1].data_ptr + dma_tlv_header[i - 1].length

VARIABLES
  dma,                  \* registers of the DMA device and of the engine
  left,                 \* words the DMA has still to move, or -1 when idle
  taken,                \* what the engine has taken: words, each with a type
  resp                  \* how much of `taken' the response is about, once written

ziplineVars == <<dma, left, taken, resp>>

\* Registers of vdp.h; TLV_TYPE and DATA_TLV_LEN are the engine's
DATA_PTR == Csr(0)
DATA_LEN == Csr(1)
START_DMA == Csr(2)
DONE_DMA == Csr(3)
DMA_TYPE == Csr(4)
TLV_TYPE == <<"engine", 0>>
DATA_TLV_LEN == <<"engine", 1>>
Registers ==
  {DATA_PTR, DATA_LEN, START_DMA, DONE_DMA, DMA_TYPE, TLV_TYPE, DATA_TLV_LEN}

-----------------------------------------------------------------------------
(* The drivers *)

\* bp_hw_dma
HwDma(src, length, type) ==
  <<Set(DATA_PTR, src), Set(DATA_LEN, length), Set(DMA_TYPE, type),
    Set(START_DMA, 1), WaitFor(DONE_DMA)>>

SendTlvTypeLast(tlv) ==
  HwDma(tlv.data_ptr, tlv.length, 0) \o <<Set(TLV_TYPE, tlv.type)>>

SendTlv(tlv) == <<Set(TLV_TYPE, tlv.type)>> \o HwDma(tlv.data_ptr, tlv.length, 0)

\* One pass of six operations for each TLV
SendTlvs ==
  [n \in 1 .. 6 * Len(dma_tlv_header) |->
     SendTlv(dma_tlv_header[((n - 1) \div 6) + 1])[((n - 1) % 6) + 1]]

\* bp_call_zipline_accelerator
Zipline ==
  <<Set(SacEnable, 1)>> \o SendTlvs \o HwDma(0, 0, 1) \o <<Get(DATA_TLV_LEN, 1)>>

Script(c) == IF c = 0 THEN Zipline ELSE <<>>

-----------------------------------------------------------------------------
Init ==
  /\ DriverInit
  /\ dma = [x \in Registers |-> 0]
  /\ left = -1
  /\ taken = <<>>
  /\ resp = -1

Driver(c) ==
  /\ \/ Post(c, Script(c))
     \/ Wait(c, Script(c), dma)
     \/ Load(c, Script(c))
     \/ Finish(c, Script(c))
  /\ UNCHANGED ziplineVars

\* A start clears the status and takes the length; nothing else stops a
\* transfer, and a store finds the registers as they are.
Deliver(c) ==
  /\ posted[c] # <<>>
  /\ posted' = [posted EXCEPT ![c] = Tail(@)]
  /\ LET s == Head(posted[c]) IN
       \/ s.to = SacEnable /\ UNCHANGED <<dma, left>>
       \/ /\ s.to = START_DMA
          /\ dma' = [dma EXCEPT ![DONE_DMA] = 0]
          /\ left' = dma[DATA_LEN]
       \/ /\ s.to \in Registers \ {START_DMA}
          /\ dma' = [dma EXCEPT ![s.to] = s.val]
          /\ UNCHANGED left
  /\ UNCHANGED <<next, taken, resp>>

\* A read transfer gives the engine the next word of tlv_headers, of the type it
\* was last told.
MoveWord ==
  /\ left > 0
  /\ left' = left - 1
  /\ taken' = Append(taken, [type |-> dma[TLV_TYPE], word |-> dma[DATA_PTR] + dma[DATA_LEN] - left])
  /\ UNCHANGED <<driverVars, dma, resp>>

\* At the end of a transfer the status is set; a write transfer has stored the
\* response, whose length the engine knows.
EndTransfer ==
  /\ left = 0
  /\ left' = -1
  /\ dma' = [dma EXCEPT ![DONE_DMA] = 1]
  /\ resp' = IF dma[DMA_TYPE] = 1 THEN Len(taken) ELSE resp
  /\ UNCHANGED <<driverVars, taken>>

Everyone == [c \in Cores |-> Script(c)]

-----------------------------------------------------------------------------
(* Properties *)

WordsOf(tlv) == tlv.data_ptr .. tlv.data_ptr + tlv.length - 1

\* The words of the request: those of the last TLV end it.
RequestLength ==
  IF dma_tlv_header = <<>> THEN 0
  ELSE LET last == dma_tlv_header[Len(dma_tlv_header)] IN last.data_ptr + last.length

\* The engine takes the request in order and whole, each word with the type of the
\* TLV it is in: no store of the next TLV reaches a device while the DMA is moving.
TypeGoesWithItsData ==
  \A n \in 1 .. Len(taken) :
    /\ taken[n].word = n - 1
    /\ \E i \in Tlvs : /\ n - 1 \in WordsOf(dma_tlv_header[i])
                       /\ taken[n].type = dma_tlv_header[i].type

\* When core 0 prints resp_data it holds the answer to the whole request.
PrintsTheResponse ==
  next[0] > Len(Zipline) => resp = RequestLength
=============================================================================
