------------------------------ MODULE MCIdMaps ------------------------------
(* An instance of IdMaps for TLC. *)
EXTENDS IdMaps

MCWords == [k \in Kinds |-> IF k \in {"surface", "gmr"} THEN 3 ELSE 1]

\* The device has six regions.
MCMasked == {<< 1, b >> : b \in 2..(Width - 1)} \cup ({2} \X Bit)
=============================================================================
