----------------------------- MODULE MCSvgaFifo -----------------------------
(***************************************************************************)
(* The instances of SvgaFifo that TLC checks.                              *)
(***************************************************************************)
EXTENDS SvgaFifo
=============================================================================
