----------------------------- MODULE WindowGrab -----------------------------
(***************************************************************************)
(* The write lock of a surface and the options of set_shape_backing_length *)
(* _ext (AC/UC/CEsvga2Surface.cpp).  For Window Grab the WindowServer sets *)
(* the shape with the options 0x5 and locks the surface a second time; a   *)
(* flag is to let that one lock through.  Shape and backing themselves are *)
(* in module Surface.                                                      *)
(***************************************************************************)
CONSTANTS Windows,      \* surface identifiers
          WindowServer  \* the identifier 1 of the WindowServer's own surface

Bits == {"NonBlocking", "IdentityScale", "FrameSync"}

\* 0x5
GrabOptions == {"NonBlocking", "IdentityScale"}

expectedOptions == {"IdentityScale", "FrameSync"}

VARIABLES m_wID,
          bSkipWriteLockOnce,
          locked,       \* the write bit of bIsLocked
          grabbed       \* the shape was last set for Window Grab, with success

vars == << m_wID, bSkipWriteLockOnce, locked, grabbed >>

Init ==
  /\ m_wID \in Windows
  /\ bSkipWriteLockOnce = FALSE /\ locked = FALSE /\ grabbed = FALSE

\* Options that are not expected are ignored, and the call succeeds.
Ignored(options) == ~(expectedOptions \subseteq options)

Refused(options) == "NonBlocking" \notin options

set_shape(options) ==
  /\ bSkipWriteLockOnce' =
       (bSkipWriteLockOnce \/ (/\ ~Refused(options) /\ ~Ignored(options)
                               /\ m_wID = WindowServer /\ options = GrabOptions))
  /\ grabbed' = (m_wID = WindowServer /\ options = GrabOptions)
  /\ UNCHANGED << m_wID, locked >>

surface_write_lock ==
  /\ \/ bSkipWriteLockOnce /\ UNCHANGED locked
     \/ ~bSkipWriteLockOnce /\ ~locked /\ locked' = TRUE
  /\ bSkipWriteLockOnce' = FALSE /\ grabbed' = FALSE
  /\ UNCHANGED m_wID

surface_write_unlock ==
  /\ locked' = FALSE
  /\ UNCHANGED << m_wID, bSkipWriteLockOnce, grabbed >>

Next ==
  \/ \E options \in SUBSET Bits : set_shape(options)
  \/ surface_write_lock \/ surface_write_unlock

Spec == Init /\ [][Next]_vars

\* The comment on the flag: it is there "to prevent a deadlock in the WindowServer
\* during Window Grab", so the lock that follows a shape set for Window Grab is not
\* refused.
GrabGetsTheLock == grabbed => bSkipWriteLockOnce \/ ~locked
=============================================================================
