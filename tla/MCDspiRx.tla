------------------------------- MODULE MCDspiRx -------------------------------
(* Two pool buffers and halves of two samples: the pool runs empty, the     *)
(* buffer wraps, and the DMA can overtake the handler.                     *)
EXTENDS DspiRx
=============================================================================
