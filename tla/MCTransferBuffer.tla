------------------------ MODULE MCTransferBuffer ------------------------
(* An instance of TransferBuffer for TLC. *)
EXTENDS TransferBuffer
=============================================================================
