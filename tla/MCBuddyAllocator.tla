-------------------------- MODULE MCBuddyAllocator --------------------------
(* An instance of BuddyAllocator for TLC. *)
EXTENDS BuddyAllocator
=============================================================================
