----------------------------- MODULE MCTextures -----------------------------
(* An instance of Textures for TLC. *)
EXTENDS Textures, TLC

Symmetry == Permutations(Contexts)
=============================================================================
