--------------------------- MODULE MCRefreshTimer ---------------------------
(* An instance of RefreshTimer for TLC. *)
EXTENDS RefreshTimer
=============================================================================
