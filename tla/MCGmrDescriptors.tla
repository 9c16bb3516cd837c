------------------------- MODULE MCGmrDescriptors -------------------------
EXTENDS GmrDescriptors

CONSTANT MaxSegments   \* bound: segments of a memory descriptor

\* n segments of one or two pages, segment i at page 10 * i: the first starts
\* before units into its page, the last ends after units before the end of its
\* last page and may be at a page that no entry can name.
Segments(n, pages, before, after, last) ==
  [i \in 1..n |->
     [page |-> IF i = n THEN last ELSE 10 * i,
      off  |-> IF i = 1 THEN before ELSE 0,
      len  |-> pages[i] * PageSize - (IF i = 1 THEN before ELSE 0)
                                   - (IF i = n THEN after ELSE 0)]]

MCMemory ==
  {m \in {<< >>} \cup
         {Segments(n, pages, before, after, last) :
            n \in 1..MaxSegments, pages \in [1..MaxSegments -> 1..2],
            before \in 0..(PageSize - 1), after \in 0..(PageSize - 1),
            last \in {10 * MaxSegments, PpnLimit}} :
     \A i \in DOMAIN m : m[i].len > 0}
=============================================================================
