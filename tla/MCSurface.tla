----------------------------- MODULE MCSurface -----------------------------
EXTENDS Surface, TLC

\* Chunks, client memories and contexts are interchangeable.
Symmetry ==
  Permutations(Chunks) \cup Permutations(Clients) \cup Permutations(Contexts)
=============================================================================
