------------------------------- MODULE IdMaps -------------------------------
(***************************************************************************)
(* The identifiers of IdPool on the words that hold their maps: in every   *)
(* state of the pool, the operations of BitArray on the array of words are *)
(* compared with what IdPool takes them to do to the set of identifiers.   *)
(* The allocator's bit map has the same form and the same range            *)
(* operations; every content it can have is one that the maps have.        *)
(***************************************************************************)
EXTENDS IdPool, BitArray

ASSUME WidthAssumption == Width = W

\* The words of the map: m_surface_id_mask, m_context_id_mask or m_gmr_id_mask,
\* or the one word of m_stream_id_mask.
array == ArrayOf({id[1] * W + id[2] : id \in mask}, Words[kind])

\* The search on the words, from the word the cursor is at or from any other,
\* finds the identifier that IdPool hands out, sets its bit and no other, and
\* fails only if every bit from that word on is set.
SearchExact ==
  \A first \in 0..Words[kind] :
    LET f == find_bit(array, first)
        w == first + f.bit \div W
    IN  IF NoneClear(first) THEN f.bit = -1 /\ f.array = array
        ELSE /\ w < Words[kind] /\ FirstClear(first, w, f.bit % W)
             /\ SetBits(f.array) = SetBits(array) \cup {first * W + f.bit}

\* The operations on ranges of bits do to the bits of the range, and to no
\* other, what the allocator and start() ask of them.
RangesExact == ClearAllExact(array) /\ MaskExact(array) /\ NoFalseAlarm(array)

\* "Checks if all bits in a range are 1", the comment on testAll.
TestAllExact ==
  \A r \in Ranges(array) :
    testAll(array, r[1], r[2]) <=> InRange(r[1], r[2]) \subseteq SetBits(array)
=============================================================================
