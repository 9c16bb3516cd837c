---------------------------- MODULE MCCustomMode ----------------------------
(* An instance of CustomMode for TLC. *)
EXTENDS CustomMode
=============================================================================
