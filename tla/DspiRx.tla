-------------------------------- MODULE DspiRx --------------------------------
(***************************************************************************)
(* DSPISlaveToTCP: samples from the SPI bus, which a DMA channel writes    *)
(* round and round RxBuffer; an interrupt after each half of it, whose     *)
(* handler copies that half to a pool buffer and posts it to a FIFO; and   *)
(* UserMain, which sends what it receives from the FIFO over TCP and gives *)
(* the buffer back.                                                        *)
(*                                                                         *)
(* The DMA stops for nobody.  A step is one sample of the DMA, one sample  *)
(* of the handler's memcpy or one call; the handler runs with interrupts   *)
(* masked, so UserMain does nothing between its steps, but the DMA does.   *)
(* The FIFO is the one UcosFifo shows to be a MessageQueue; the list of    *)
(* buffers (buffer_list, in the NetBurner library) is a queue as well.     *)
(***************************************************************************)
EXTENDS Integers, Sequences, FiniteSets, SequencesExt

CONSTANTS
  Buffer, NULL, \* the 10 pool buffers of ConfigRX, and no buffer
  Half,         \* RX_FRAME_COUNT*FRAME_SIZE/2, in samples
  MaxSamples    \* bound: the samples the bus delivers

ASSUME DspiAssumption ==
  /\ IsFiniteSet(Buffer)
  /\ NULL \notin Buffer
  /\ Half \in Nat \ {0}
  /\ MaxSamples \in Nat

VARIABLES
  RxBuffer,    \* the sample in each place of the two halves
  received,    \* how many samples the DMA has written: the next is written
               \* at received % (2 * Half), as daddr and citer say
  intReq,      \* the channel's interrupt request, which cint clears
  BackHalf,
  DestBuffers, \* the pool
  pData,       \* the samples in each pool buffer
  dspiRXFifo,
  isr,         \* "idle", or the handler's next statement
  isrBuf,      \* the handler's pp
  main,        \* UserMain's next statement
  mainBuf      \* UserMain's pp

(* History: the sample the last chunk handed to writeall began with, how   *)
(* many halves were handed to it, how many thrown away, and how many the   *)
(* DMA completed before the handler was done with the one before.          *)
VARIABLES lastSent, sent, dropped, unnoticed

dmaVars  == <<RxBuffer, received, intReq, unnoticed>>
isrVars  == <<BackHalf, isr, isrBuf, dropped>>
mainVars == <<main, mainBuf, lastSent, sent>>
poolVars == <<DestBuffers, pData, dspiRXFifo>>
dspiVars == <<dmaVars, isrVars, mainVars, poolVars>>

Place == 0..(2 * Half - 1)

(* ConfigRX, called with the TCP connection open. *)
DspiInit ==
  /\ RxBuffer = [i \in Place |-> -1]
  /\ received = 0
  /\ intReq = FALSE
  /\ BackHalf = FALSE
  /\ DestBuffers \in SetToSeqs(Buffer)
  /\ pData = [b \in Buffer |-> <<>>]
  /\ dspiRXFifo = <<>>
  /\ isr = "idle"
  /\ isrBuf = NULL
  /\ main = "pend"
  /\ mainBuf = NULL
  /\ lastSent = -1
  /\ dropped = 0
  /\ sent = 0
  /\ unnoticed = 0

(* One transfer of the channel that ReadyDMA prepares: it wraps at the end *)
(* of RxBuffer and raises the interrupt in the middle and at the end.      *)
DMATransfer ==
  /\ received < MaxSamples
  /\ RxBuffer' = [RxBuffer EXCEPT ![received % (2 * Half)] = received]
  /\ received' = received + 1
  /\ IF received' % Half = 0
     THEN /\ intReq' = TRUE
          /\ unnoticed' = IF intReq THEN unnoticed + 1 ELSE unnoticed
     ELSE UNCHANGED <<intReq, unnoticed>>
  /\ UNCHANGED <<isrVars, mainVars, poolVars>>

(* Mutant of DmarxEnter: a half without a buffer does not flip. *)
DmarxEnterNoFlip ==
  /\ isr = "idle"
  /\ intReq
  /\ IF DestBuffers = <<>>
     THEN /\ isr' = "cint"
          /\ dropped' = dropped + 1
          /\ UNCHANGED <<isrBuf, DestBuffers, pData>>
     ELSE /\ isr' = "copy"
          /\ isrBuf' = Head(DestBuffers)
          /\ DestBuffers' = Tail(DestBuffers)
          /\ pData' = [pData EXCEPT ![isrBuf'] = <<>>]
          /\ UNCHANGED dropped
  /\ UNCHANGED <<BackHalf, dspiRXFifo, dmaVars, mainVars>>

(* dmarx begins: the first buffer of the pool, if there is one. *)
DmarxEnter ==
  /\ isr = "idle"
  /\ intReq
  /\ IF DestBuffers = <<>>
     THEN /\ isr' = "flip"
          /\ dropped' = dropped + 1
          /\ UNCHANGED <<isrBuf, DestBuffers, pData>>
     ELSE /\ isr' = "copy"
          /\ isrBuf' = Head(DestBuffers)
          /\ DestBuffers' = Tail(DestBuffers)
          /\ pData' = [pData EXCEPT ![isrBuf'] = <<>>]
          /\ UNCHANGED dropped
  /\ UNCHANGED <<BackHalf, dspiRXFifo, dmaVars, mainVars>>

From == IF BackHalf THEN Half ELSE 0

DmarxCopy ==
  /\ isr = "copy"
  /\ LET i == Len(pData[isrBuf])
     IN  pData' = [pData EXCEPT ![isrBuf] = Append(@, RxBuffer[From + i])]
  /\ isr' = IF Len(pData'[isrBuf]) = Half THEN "post" ELSE "copy"
  /\ UNCHANGED <<BackHalf, isrBuf, dropped, DestBuffers, dspiRXFifo,
                 dmaVars, mainVars>>

DmarxPost ==
  /\ isr = "post"
  /\ dspiRXFifo' = Append(dspiRXFifo, isrBuf)
  /\ isrBuf' = NULL
  /\ isr' = "flip"
  /\ UNCHANGED <<BackHalf, dropped, DestBuffers, pData, dmaVars, mainVars>>

DmarxFlip ==
  /\ isr = "flip"
  /\ BackHalf' = ~BackHalf
  /\ isr' = "cint"
  /\ UNCHANGED <<isrBuf, dropped, poolVars, dmaVars, mainVars>>

(* Mutant of DmarxReturn: the request is not cleared. *)
DmarxReturnNoCint ==
  /\ isr = "cint"
  /\ isr' = "idle"
  /\ UNCHANGED <<BackHalf, isrBuf, dropped, dmaVars, poolVars, mainVars>>

(* The request is cleared last: one that came meanwhile goes with it. *)
DmarxReturn ==
  /\ isr = "cint"
  /\ intReq' = FALSE
  /\ isr' = "idle"
  /\ UNCHANGED <<RxBuffer, received, unnoticed, BackHalf, isrBuf, dropped,
                 poolVars, mainVars>>

MainPend ==
  /\ isr = "idle"
  /\ main = "pend"
  /\ dspiRXFifo # <<>>
  /\ mainBuf' = Head(dspiRXFifo)
  /\ dspiRXFifo' = Tail(dspiRXFifo)
  /\ main' = "write"
  /\ UNCHANGED <<DestBuffers, pData, lastSent, sent, dmaVars, isrVars>>

(* Mutant of MainWrite: the buffer goes back before it is sent. *)
MainWriteGivesBack ==
  /\ isr = "idle"
  /\ main = "write"
  /\ DestBuffers' = Append(DestBuffers, mainBuf)
  /\ lastSent' = Head(pData[mainBuf])
  /\ sent' = sent + 1
  /\ main' = "insert"
  /\ UNCHANGED <<mainBuf, pData, dspiRXFifo, dmaVars, isrVars>>

(* writeall takes as long as the network does; UserMain ignores its result *)
(* and does the same after an error.                                       *)
MainWrite ==
  /\ isr = "idle"
  /\ main = "write"
  /\ lastSent' = Head(pData[mainBuf])
  /\ sent' = sent + 1
  /\ main' = "insert"
  /\ UNCHANGED <<mainBuf, poolVars, dmaVars, isrVars>>

(* Mutant of MainInsert: the buffer is forgotten. *)
MainInsertForgets ==
  /\ isr = "idle"
  /\ main = "insert"
  /\ mainBuf' = NULL
  /\ main' = "pend"
  /\ UNCHANGED <<lastSent, sent, poolVars, dmaVars, isrVars>>

MainInsert ==
  /\ isr = "idle"
  /\ main = "insert"
  /\ DestBuffers' = Append(DestBuffers, mainBuf)
  /\ mainBuf' = NULL
  /\ main' = "pend"
  /\ UNCHANGED <<pData, dspiRXFifo, lastSent, sent, dmaVars, isrVars>>

Dmarx    == DmarxEnter \/ DmarxCopy \/ DmarxPost \/ DmarxFlip \/ DmarxReturn
UserMain == MainPend \/ MainWrite \/ MainInsert

DspiNext == DMATransfer \/ Dmarx \/ UserMain

DspiSpec == DspiInit /\ [][DspiNext]_dspiVars

(* An interrupt that is requested is taken and the handler goes on until   *)
(* it returns; it takes less than half a period, so that UserMain runs     *)
(* again and again; and writeall returns as long as the peer reads.        *)
DspiFairSpec == DspiSpec /\ WF_dspiVars(Dmarx) /\ SF_dspiVars(UserMain)

-------------------------------------------------------------------------------
DspiTypeOK ==
  /\ RxBuffer \in [Place -> -1..MaxSamples]
  /\ received \in 0..MaxSamples
  /\ intReq \in BOOLEAN /\ BackHalf \in BOOLEAN /\ unnoticed \in Nat
  /\ DestBuffers \in Seq(Buffer) /\ dspiRXFifo \in Seq(Buffer)
  /\ pData \in [Buffer -> Seq(-1..MaxSamples)]
  /\ isr \in {"idle", "copy", "post", "flip", "cint"}
  /\ main \in {"pend", "write", "insert"}
  /\ isrBuf \in Buffer \cup {NULL} /\ mainBuf \in Buffer \cup {NULL}
  /\ lastSent \in -1..MaxSamples /\ dropped \in Nat /\ sent \in Nat

(* The places a buffer can be in: the pool, the handler, the FIFO, UserMain. *)
InHand(pp) == IF pp = NULL THEN <<>> ELSE <<pp>>
Held == DestBuffers \o InHand(isrBuf) \o dspiRXFifo \o InHand(mainBuf)

(***************************************************************************)
(* Every buffer is in exactly one place: none leaks, and none is in the    *)
(* pool (where the handler may overwrite it) while it still has samples to *)
(* send.                                                                   *)
(***************************************************************************)
BuffersConserved == IsInjective(Held) /\ ToSet(Held) = Buffer

(* A chunk is a half of RxBuffer: Half samples in a row. *)
IsChunk(data) ==
  /\ Len(data) = Half
  /\ data[1] % Half = 0
  /\ \A i \in 1..Half : data[i] = data[1] + i - 1

(* The chunks not sent yet, the oldest first. *)
Unsent == (IF main = "write" THEN <<mainBuf>> ELSE <<>>) \o dspiRXFifo

(***************************************************************************)
(* What the handler passes on are whole halves, in the order of the bus    *)
(* and none twice, however slow the network is and whatever was thrown     *)
(* away for want of a buffer.  Only while the DMA has never overtaken the  *)
(* handler: afterwards BackHalf names the half that is being written.      *)
(***************************************************************************)
ChunksInOrder ==
  unnoticed = 0 =>
    /\ \A i \in 1..Len(Unsent) : IsChunk(pData[Unsent[i]])
    /\ \A i \in 1..Len(Unsent) :
         LET before == IF i = 1 THEN lastSent ELSE pData[Unsent[i - 1]][1]
         IN  before < pData[Unsent[i]][1]

(* A half is complete that the handler has neither posted nor thrown away. *)
Pending == (isr = "idle" /\ intReq) \/ isr \in {"copy", "post"}

(***************************************************************************)
(* The halves the DMA has completed are all accounted for: handed to       *)
(* writeall, on their way there, thrown away for want of a buffer, or      *)
(* requested; and for each half the DMA completed before the handler was   *)
(* done with the one before, one is lost, never two and never none: the    *)
(* request that cint clears stands for both.                               *)
(***************************************************************************)
HalvesAccounted ==
  received \div Half =
    sent + dropped + Len(Unsent) + (IF Pending THEN 1 ELSE 0) + unnoticed

(***************************************************************************)
(* A half that was posted is sent, and its buffer comes back.              *)
(***************************************************************************)
BuffersComeBack ==
  \A b \in Buffer : b \in ToSet(dspiRXFifo) ~> b \in ToSet(DestBuffers)
=============================================================================
