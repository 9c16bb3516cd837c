------------------------------ MODULE BitArray ------------------------------
(***************************************************************************)
(* The operations on arrays of bits: the range tests and updates of the    *)
(* allocator's bit map (AC/CEsvga2Allocator.cpp, bytes of 8 bits) and the  *)
(* search and masking of the identifier maps (AC/CEsvga2Accel.cpp, words   *)
(* of 32 or 64 bits).  All of them treat the ragged ends of a range bit by *)
(* bit and the whole words between them at once.                           *)
(*                                                                         *)
(* A word is the number its bits spell.  The order of the bits in a byte   *)
(* of the map (the first bit is the highest) does not matter to a range    *)
(* operation: bit i of the array is bit i % W, counted from the lowest.    *)
(***************************************************************************)
EXTENDS Integers, FiniteSets, FiniteSetsExt, Bitwise

CONSTANT W              \* bits of a word, a power of two

ASSUME ArrayAssumption == W \in {2, 4, 8}

Full    == 2^W - 1      \* a word with every bit set
Size(a) == Cardinality(DOMAIN a)        \* words of the array
Bits(a) == 0..(Size(a) * W - 1)
Ranges(a) == {r \in (0..(Size(a) * W)) \X (0..(Size(a) * W)) : r[1] <= r[2]}

IsSet(a, i) == (a[i \div W] \div 2^(i % W)) % 2 = 1
SetBits(a) == {i \in Bits(a) : IsSet(a, i)}

\* The array of n words whose set bits are s.
ArrayOf(s, n) ==
  [j \in 0..(n - 1) |->
     MapThenSumSet(LAMBDA i : 2^(i % W), {i \in s : i \div W = j})]

(***************************************************************************)
(* How a range of bits is split: bits up to the first word boundary, whole *)
(* words, and the bits of the word that the range ends in.                 *)
(***************************************************************************)
FirstFull(first) == ((first + W - 1) \div W) * W
PastFull(past)   == (past \div W) * W

LeadingBits(first, past) == first..(Min({past, FirstFull(first)}) - 1)

FullWords(first, past) == (FirstFull(first) \div W)..(PastFull(past) \div W - 1)

\* Mutant: the trailing bits start at the word boundary even if that is before
\* the first bit of the range.
TrailingBitsFromWord(first, past) == PastFull(past)..(past - 1)

TrailingBits(first, past) ==
  Max({PastFull(past), Min({past, FirstFull(first)})})..(past - 1)

\* "repe scasb" over n words from word j: it counts n down to 0 and stops after
\* the first word that is not v; what remains of n is all that the code looks at.
Remaining(a, words, v) ==
  LET bad == {j \in words : a[j] # v}
  IN  IF bad = {} THEN 0 ELSE Max(words) - Min(bad)

memAll(a, words) == words = {} \/ Remaining(a, words, Full) = 0
memAny(a, words) == words # {} /\ Remaining(a, words, 0) # 0

testAll(a, first, past) ==
  /\ \A i \in LeadingBits(first, past) : IsSet(a, i)
  /\ memAll(a, FullWords(first, past))
  /\ \A i \in TrailingBits(first, past) : IsSet(a, i)

testAny(a, first, past) ==
  \/ \E i \in LeadingBits(first, past) : IsSet(a, i)
  \/ memAny(a, FullWords(first, past))
  \/ \E i \in TrailingBits(first, past) : IsSet(a, i)

Touched(a, first, past) ==
  LeadingBits(first, past) \cup TrailingBits(first, past)
    \cup {i \in Bits(a) : i \div W \in FullWords(first, past)}

clearAll(a, first, past) ==
  ArrayOf(SetBits(a) \ Touched(a, first, past), Size(a))

\* The array that is left; it is the same one if a bit was found clear.
clearCheck(a, first, past) ==
  IF testAll(a, first, past) THEN clearAll(a, first, past) ELSE a

mask_array64(a, start, end) ==
  ArrayOf(SetBits(a) \cup Touched(a, start, end), Size(a))

(***************************************************************************)
(* The search for a clear bit.                                             *)
(***************************************************************************)
\* log_2_32 and log_2_64: the halves of the word are tested from the largest.
RECURSIVE Log2(_, _)
Log2(x, half) ==
  IF half = 0 THEN 0
  ELSE IF x >= 2^half THEN half + Log2(x \div 2^half, half \div 2)
                      ELSE Log2(x, half \div 2)

\* Mutant: the lowest set bit instead of the lowest clear one.
LowestSet(x) == x & ((Full - x + 1) % (Full + 1))

\* ~x & (x + 1), in a word of W bits.
LowestClear(x) == (Full - x) & ((x + 1) % (Full + 1))

\* find_bit_in_array32 and find_bit_in_array64, which get the array from word
\* first on and count bits from there; -1 when no bit is clear.
find_bit(a, first) ==
  LET found == {j \in first..(Size(a) - 1) : LowestClear(a[j]) # 0}
      j     == Min(found)
      x     == LowestClear(a[j])
  IN  IF found = {} THEN [bit |-> -1, array |-> a]
      ELSE [bit   |-> (j - first) * W + Log2(x, W \div 2),
            array |-> [a EXCEPT ![j] = @ | x]]

(***************************************************************************)
(* Each operation against the bits of the range it is about.               *)
(***************************************************************************)
InRange(first, past) == first..(past - 1)

\* clearAll clears the bits of the range and no other, wherever in a word the
\* range starts and ends; clearCheck does so whenever all of them are set.
ClearAllExact(a) ==
  \A r \in Ranges(a) :
    LET left == SetBits(a) \ InRange(r[1], r[2])
    IN  /\ SetBits(clearAll(a, r[1], r[2])) = left
        /\ InRange(r[1], r[2]) \subseteq SetBits(a)
             => SetBits(clearCheck(a, r[1], r[2])) = left

\* mask_array64 sets every bit from start on and no other; nothing when the
\* device has at least as many identifiers as the array has bits.
MaskExact(a) ==
  \A start \in 0..(Size(a) * W + W) :
    SetBits(mask_array64(a, start, Size(a) * W)) =
      SetBits(a) \cup InRange(start, Size(a) * W)

\* testAll and testAny never raise a false alarm: Release is refused ("bit
\* already clear") only if a bit of the range is clear, and Check complains
\* only if a bit is set.
NoFalseAlarm(a) ==
  \A r \in Ranges(a) :
    /\ InRange(r[1], r[2]) \subseteq SetBits(a) => testAll(a, r[1], r[2])
    /\ InRange(r[1], r[2]) \cap SetBits(a) = {} => ~testAny(a, r[1], r[2])
=============================================================================
