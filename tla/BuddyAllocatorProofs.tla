------------------------ MODULE BuddyAllocatorProofs ------------------------
(***************************************************************************)
(* Proofs about BuddyAllocator, for a pool of any size, any number of      *)
(* sizes, any requests and any of the owners' data.                        *)
(*                                                                         *)
(* A pool is sound when chunks in use, free chunks and the memory that was *)
(* never released make it up, all of them on boundaries of their size, no  *)
(* two free ones buddies; when the bit map has the last blocks of chunks   *)
(* in use and nothing else of the released memory; and when each free list *)
(* is a doubly linked list of exactly the free chunks of its size, headers *)
(* and trailers in place.  Inside an operation the pool has a hole, a      *)
(* chunk that is neither in use nor free: Malloc makes it of the head of a *)
(* list and Free of a chunk in use, the merging loop lets it grow by free  *)
(* buddies, and toFree or makeFree fill it.                                *)
(*                                                                         *)
(* That owners' data is kept needs a frame beside this: the allocator writes *)
(* only into free chunks and the hole.                                     *)
(*                                                                         *)
(* The powers of two are numbers of subsets here: that gives their sums    *)
(* without an induction over exponents.                                    *)
(***************************************************************************)
EXTENDS BuddyAllocator, FiniteSetTheorems, TLAPS

-----------------------------------------------------------------------------
(* Numbers. *)

\* A set of natural numbers has a least element.
LEMMA NatLeast ==
  ASSUME NEW T, T \subseteq Nat, T # {}
  PROVE  \E x \in T : \A y \in T : x <= y
<1> DEFINE R == OpToRel(<, Nat)
<1>1. IsWellFoundedOn(R, Nat)
  BY NatLessThanWellFounded
<1>2. R = {ss \in Nat \X Nat : ss[1] < ss[2]}
  BY Zenon DEF OpToRel
<1> HIDE DEF R
<1>3. \E x \in T : \A y \in T : ~(<< y, x >> \in R)
  BY <1>1, WFMin
<1>4. \A x \in T, y \in T : ~(<< y, x >> \in R) => x <= y
  BY <1>2
<1> QED  BY <1>3, <1>4

\* Induction over a set of natural numbers.
LEMMA SetInduction ==
  ASSUME NEW T, T \subseteq Nat, 0 \in T, \A n \in T : n + 1 \in T
  PROVE  T = Nat
<1> SUFFICES ASSUME Nat \ T # {} PROVE FALSE
  OBVIOUS
<1>1. PICK x \in Nat \ T : \A y \in Nat \ T : x <= y
  BY NatLeast
<1> QED  BY <1>1

\* Min finds the least number of a set.
LEMMA MinFacts ==
  ASSUME NEW T, T \subseteq Nat, T # {}
  PROVE  Min(T) \in T /\ \A y \in T : Min(T) <= y
<1>1. \E x \in T : \A y \in T : x <= y
  BY NatLeast
<1> QED  BY <1>1 DEF Min

\* Max finds the greatest number of a set that has an upper bound.
LEMMA MaxFacts ==
  ASSUME NEW T, T \subseteq Nat, T # {}, NEW n \in Nat, \A y \in T : y <= n
  PROVE  Max(T) \in T /\ \A y \in T : Max(T) >= y
<1> DEFINE B == {b \in Nat : \A y \in T : y <= b}
<1>1. B \subseteq Nat /\ n \in B
  OBVIOUS
<1>2. PICK b \in B : \A a \in B : b <= a
  BY <1>1, NatLeast
<1>3. b \in T
  <2> SUFFICES ASSUME b \notin T PROVE FALSE
    OBVIOUS
  <2>1. \A y \in T : y <= b - 1 /\ y \in Nat
    BY <1>2
  <2>2. PICK y \in T : TRUE
    OBVIOUS
  <2>3. b - 1 \in Nat
    BY <2>1, <2>2
  <2>4. b - 1 \in B
    BY <2>1, <2>3
  <2> QED  BY <1>2, <2>4
<1>4. \E x \in T : \A y \in T : x >= y
  BY <1>2, <1>3
<1> QED  BY <1>4 DEF Max

-----------------------------------------------------------------------------
\* A set of k elements has 2^k subsets.
LEMMA PowCard ==
  ASSUME NEW k \in Nat
  PROVE  IsFiniteSet(SUBSET (1..k)) /\ Cardinality(SUBSET (1..k)) = 2^k
<1>1. IsFiniteSet(1..k) /\ Cardinality(1..k) = k
  BY FS_Interval
<1> QED  BY <1>1, FS_SUBSET

\* The powers of two, from the subsets: those of 1..(k+1) are those of 1..k, and as
\* many with k+1.
LEMMA PowNext ==
  ASSUME NEW k \in Nat
  PROVE  2^k \in Nat /\ 2^(k + 1) = 2^k + 2^k
<1> DEFINE A == SUBSET (1..k)
           B == {s \cup {k + 1} : s \in A}
<1>1. IsFiniteSet(A) /\ Cardinality(A) = 2^k
  BY PowCard
<1>2. 2^k \in Nat
  BY <1>1, FS_CardinalityType
<1>3. SUBSET (1..(k + 1)) = A \cup B
  <2>1. \A s \in SUBSET (1..(k + 1)) : s \in A \cup B
    <3> SUFFICES ASSUME NEW s \in SUBSET (1..(k + 1)) PROVE s \in A \cup B
      OBVIOUS
    <3>1. s \ {k + 1} \in A
      OBVIOUS
    <3>2. CASE k + 1 \in s
      <4>1. s = (s \ {k + 1}) \cup {k + 1}
        BY <3>2
      <4> QED  BY <3>1, <4>1
    <3>3. CASE k + 1 \notin s
      BY <3>1, <3>3
    <3> QED  BY <3>2, <3>3
  <2>2. (1..k) \cup {k + 1} \subseteq 1..(k + 1)
    OBVIOUS
  <2>3. A \cup B \subseteq SUBSET (1..(k + 1))
    BY <2>2, Zenon
  <2> QED  BY <2>1, <2>3
<1>4. A \cap B = {}
  <2>1. \A s \in A : k + 1 \notin s
    OBVIOUS
  <2>2. \A s \in B : k + 1 \in s
    OBVIOUS
  <2> QED  BY <2>1, <2>2
<1>5. ExistsBijection(A, B)
  <2> DEFINE f == [s \in A |-> s \cup {k + 1}]
  <2>1. \A s \in A : k + 1 \notin s
    OBVIOUS
  <2>2. \A s, t \in A : f[s] = f[t] => s = t
    BY <2>1
  <2>3. f \in [A -> B] /\ DOMAIN f = A /\ \A t \in B : \E s \in A : f[s] = t
    OBVIOUS
  <2> HIDE DEF A, B, f
  <2>4. f \in Injection(A, B)
    BY <2>2, <2>3, Zenon DEF Injection, IsInjective
  <2>5. f \in Surjection(A, B)
    BY <2>3, Zenon DEF Surjection
  <2> QED  BY <2>4, <2>5 DEF ExistsBijection, Bijection
<1>6. IsFiniteSet(B) /\ Cardinality(B) = 2^k
  BY <1>1, <1>5, FS_Bijection
<1>7. Cardinality(A \cup B) = 2^k + 2^k
  <2>1. Cardinality(A \cap B) = 0
    BY <1>4, FS_EmptySet
  <2> HIDE DEF A, B
  <2>2. Cardinality(A \cup B) = Cardinality(A) + Cardinality(B) - Cardinality(A \cap B)
    BY <1>1, <1>6, FS_Union
  <2> QED  BY <1>1, <1>2, <1>6, <2>1, <2>2
<1>8. Cardinality(SUBSET (1..(k + 1))) = 2^(k + 1)
  <2>1. k + 1 \in Nat
    OBVIOUS
  <2> QED  BY <2>1, PowCard, Zenon
<1>9. Cardinality(SUBSET (1..(k + 1))) = 2^k + 2^k
  BY <1>3, <1>7, Zenon
<1> QED  BY <1>2, <1>8, <1>9

\* A power of two is a number above 0, and above its exponent.
LEMMA PowType ==
  ASSUME NEW k \in Nat
  PROVE  2^k \in Nat /\ 2^k > k /\ 2^k >= 1
<1> DEFINE T == {n \in Nat : 2^n > n}
<1>1. 0 \in T
  OBVIOUS
<1>2. \A n \in T : n + 1 \in T
  <2> SUFFICES ASSUME NEW n \in T PROVE n + 1 \in T
    OBVIOUS
  <2>1. 2^n \in Nat /\ 2^(n + 1) = 2^n + 2^n
    BY PowNext
  <2>2. 2^(n + 1) > n + 1
    BY <2>1
  <2> QED  BY <2>2
<1>3. T = Nat
  <2> HIDE DEF T
  <2>1. T \subseteq Nat
    BY DEF T
  <2> QED  BY <1>1, <1>2, <2>1, SetInduction
<1>4. 2^k \in Nat
  BY PowNext
<1> QED  BY <1>3, <1>4

\* A larger power is a multiple of a smaller one.
LEMMA PowMultiple ==
  ASSUME NEW k \in Nat, NEW m \in Nat, k <= m
  PROVE  \E t \in Nat \ {0} : 2^m = t * 2^k
<1> DEFINE T == {n \in Nat : \E t \in Nat \ {0} : 2^(k + n) = t * 2^k}
<1>1. 0 \in T
  <2>1. 2^k = 1 * 2^k
    BY PowType
  <2> QED  BY <2>1
<1>2. \A n \in T : n + 1 \in T
  <2> SUFFICES ASSUME NEW n \in T PROVE n + 1 \in T
    OBVIOUS
  <2>1. PICK t \in Nat \ {0} : 2^(k + n) = t * 2^k
    OBVIOUS
  <2>2. 2^((k + n) + 1) = 2^(k + n) + 2^(k + n)
    BY PowNext
  <2>3. (k + n) + 1 = k + (n + 1)
    OBVIOUS
  <2>4. t * 2^k + t * 2^k = (t + t) * 2^k
    BY PowType
  <2>5. 2^(k + (n + 1)) = (t + t) * 2^k
    BY <2>1, <2>2, <2>3, <2>4
  <2>6. t + t \in Nat \ {0}
    OBVIOUS
  <2>7. n + 1 \in Nat
    OBVIOUS
  <2> QED  BY <2>5, <2>6, <2>7, Zenon
<1>3. T = Nat
  <2> HIDE DEF T
  <2>1. T \subseteq Nat
    BY DEF T
  <2> QED  BY <1>1, <1>2, <2>1, SetInduction
<1>4. m - k \in T /\ k + (m - k) = m
  <2>1. m - k \in Nat /\ k + (m - k) = m
    OBVIOUS
  <2> HIDE DEF T
  <2> QED  BY <1>3, <2>1, Zenon
<1>5. PICK t \in Nat \ {0} : 2^(k + (m - k)) = t * 2^k
  BY <1>4
<1> QED  BY <1>4, <1>5

\* Sizes grow with their bits.
LEMMA PowGrows ==
  ASSUME NEW k \in Nat, NEW m \in Nat, k < m
  PROVE  2^k + 2^k <= 2^m
<1>1. PICK t \in Nat \ {0} : 2^m = t * 2^(k + 1)
  <2>1. k + 1 \in Nat /\ k + 1 <= m
    OBVIOUS
  <2> QED  BY <2>1, PowMultiple
<1>2. 2^(k + 1) = 2^k + 2^k /\ 2^(k + 1) \in Nat
  BY PowNext
<1>3. \A n \in Nat : t * n >= n
  OBVIOUS
<1> QED  BY <1>1, <1>2, <1>3

\* A number is on a boundary of d if it is a multiple of d.
LEMMA ModZero ==
  ASSUME NEW a \in Nat, NEW d \in Nat \ {0}
  PROVE  /\ a % d = 0 => a \div d \in Nat /\ a = (a \div d) * d
         /\ \A q \in Nat : a = q * d => a % d = 0
<1>1. ASSUME a % d = 0 PROVE a \div d \in Nat /\ a = (a \div d) * d
  <2>1. a = (a \div d) * d
    BY <1>1
  <2>2. a \div d \in Nat
    OBVIOUS
  <2> QED  BY <2>1, <2>2
<1>2. ASSUME NEW q \in Nat, a = q * d PROVE a % d = 0
  BY <1>2
<1> QED  BY <1>1, <1>2

\* Multiples of d that differ by less than d are the same.
LEMMA MultipleLess ==
  ASSUME NEW q \in Nat, NEW r \in Nat, NEW d \in Nat \ {0}, q * d < r * d + d
  PROVE  q * d <= r * d
<1>1. q <= r
  <2> SUFFICES ASSUME q >= r + 1 PROVE FALSE
    OBVIOUS
  <2>1. q * d >= (r + 1) * d
    OBVIOUS
  <2>2. (r + 1) * d = r * d + d
    OBVIOUS
  <2> QED  BY <2>1, <2>2
<1> QED  BY <1>1

\* The same one multiple further.
LEMMA MultipleLess2 ==
  ASSUME NEW q \in Nat, NEW r \in Nat, NEW d \in Nat \ {0}, q * d < r * d
  PROVE  q * d + d <= r * d
<1>1. q + 1 <= r
  <2> SUFFICES ASSUME q >= r PROVE FALSE
    OBVIOUS
  <2>1. q * d >= r * d
    OBVIOUS
  <2>2. q * d \in Nat /\ r * d \in Nat
    OBVIOUS
  <2> QED  BY <2>1, <2>2
<1>2. (q + 1) * d <= r * d
  BY <1>1
<1>3. (q + 1) * d = q * d + d
  OBVIOUS
<1> QED  BY <1>2, <1>3

\* A boundary of a larger size is one of a smaller size.
LEMMA Boundary ==
  ASSUME NEW x \in Nat, NEW k \in Nat, NEW m \in Nat, k <= m, x % 2^m = 0
  PROVE  x % 2^k = 0
<1>1. 2^k \in Nat \ {0} /\ 2^m \in Nat \ {0}
  BY PowType
<1>2. PICK t \in Nat \ {0} : 2^m = t * 2^k
  BY PowMultiple
<1>3. PICK q \in Nat : x = q * 2^m
  <2>1. x \div 2^m \in Nat /\ x = (x \div 2^m) * 2^m
    BY <1>1, ModZero
  <2> QED  BY <2>1
<1>4. q * (t * 2^k) = (q * t) * 2^k /\ q * t \in Nat
  BY <1>1
<1>5. x = (q * t) * 2^k
  BY <1>2, <1>3, <1>4
<1> QED  BY <1>1, <1>4, <1>5, ModZero

\* Two spans on boundaries of their sizes that meet are nested.
LEMMA Nested ==
  ASSUME NEW x \in Nat, NEW k \in Nat, NEW y \in Nat, NEW m \in Nat, k <= m,
         x % 2^k = 0, y % 2^m = 0,
         NEW z \in Nat, x <= z, z < x + 2^k, y <= z, z < y + 2^m
  PROVE  y <= x /\ x + 2^k <= y + 2^m
<1>1. 2^k \in Nat \ {0} /\ 2^m \in Nat \ {0}
  BY PowType
<1>2. PICK t \in Nat \ {0} : 2^m = t * 2^k
  BY PowMultiple
<1>3. PICK q \in Nat : x = q * 2^k
  <2>1. x \div 2^k \in Nat /\ x = (x \div 2^k) * 2^k
    BY <1>1, ModZero
  <2> QED  BY <2>1
<1>4. PICK r \in Nat : y = r * 2^k
  <2>1. y % 2^k = 0
    BY Boundary
  <2>2. y \div 2^k \in Nat /\ y = (y \div 2^k) * 2^k
    BY <1>1, <2>1, ModZero
  <2> QED  BY <2>2
<1>5. y + 2^m = (r + t) * 2^k /\ r + t \in Nat
  <2>1. r * 2^k + t * 2^k = (r + t) * 2^k
    BY <1>1
  <2> QED  BY <1>2, <1>4, <2>1
<1>6. y <= x
  <2>1. r * 2^k < q * 2^k + 2^k
    BY <1>1, <1>3, <1>4
  <2> QED  BY <1>1, <1>3, <1>4, <2>1, MultipleLess
<1>7. x + 2^k <= y + 2^m
  <2>1. q * 2^k < (r + t) * 2^k
    BY <1>1, <1>3, <1>5
  <2> QED  BY <1>1, <1>3, <1>5, <2>1, MultipleLess2
<1> QED  BY <1>6, <1>7

\* A chunk and its buddy are the halves of a chunk of the next size.
LEMMA BuddyFacts ==
  ASSUME NEW x \in Nat, NEW k \in Nat, x % 2^k = 0
  PROVE  /\ Buddy(x, k) \in Nat /\ Buddy(x, k) % 2^k = 0
         /\ Buddy(Buddy(x, k), k) = x
         /\ \/ Buddy(x, k) = x + 2^k /\ x % 2^(k + 1) = 0
            \/ x = Buddy(x, k) + 2^k /\ Buddy(x, k) % 2^(k + 1) = 0
<1> DEFINE d == 2^k
           q == x \div d
<1>1. d \in Nat \ {0}
  BY PowType
<1>2. 2^(k + 1) = d + d
  BY PowNext
<1>3. q \in Nat /\ x = q * d
  BY <1>1, ModZero
<1>4. Buddy(x, k) = IF q % 2 = 0 THEN x + d ELSE x - d
  BY DEF Buddy
<1>5. \A r \in Nat : (r * d) \div d = r
  BY <1>1
<1>6. \A r \in Nat : Buddy(r * d, k) = IF r % 2 = 0 THEN r * d + d ELSE r * d - d
  BY <1>5 DEF Buddy
<1>7. \A r \in Nat : (r * d) % d = 0
  BY <1>1
<1>8. \A r \in Nat : (r + 1) * d = r * d + d
  BY <1>1
<1> HIDE DEF d, q
<1>9. CASE q % 2 = 0
  <2>1. PICK h \in Nat : q = 2 * h
    BY <1>3, <1>9
  <2>2. x = h * (d + d)
    BY <1>1, <1>3, <2>1
  <2>3. x % (d + d) = 0
    BY <1>1, <2>2, ModZero
  <2>4. Buddy(x, k) = (q + 1) * d /\ q + 1 \in Nat /\ (q + 1) % 2 = 1
    BY <1>3, <1>4, <1>8, <1>9, <2>1
  <2>5. Buddy((q + 1) * d, k) = (q + 1) * d - d
    BY <1>6, <2>4
  <2>6. Buddy(Buddy(x, k), k) = x
    BY <1>1, <1>3, <1>8, <2>4, <2>5
  <2>7. Buddy(x, k) = x + d
    BY <1>4, <1>9
  <2>8. Buddy(x, k) % d = 0
    BY <1>7, <2>4
  <2> QED  BY <1>1, <1>2, <2>3, <2>6, <2>7, <2>8 DEF d
<1>10. CASE q % 2 # 0
  <2>1. PICK h \in Nat : q = 2 * h + 1
    BY <1>3, <1>10
  <2>2. (2 * h) * d = h * (d + d)
    BY <1>1
  <2>3. x = (2 * h) * d + d
    BY <1>3, <1>8, <2>1
  <2>4. Buddy(x, k) = (2 * h) * d /\ 2 * h \in Nat /\ (2 * h) % 2 = 0
    <3>1. (2 * h) * d \in Nat
      BY <1>1
    <3>2. Buddy(x, k) = x - d
      BY <1>4, <1>10
    <3>3. Buddy(x, k) = (2 * h) * d
      BY <1>1, <2>3, <3>1, <3>2
    <3>4. 2 * h \in Nat /\ (2 * h) % 2 = 0
      OBVIOUS
    <3> QED  BY <3>3, <3>4
  <2>5. Buddy(x, k) % (d + d) = 0 /\ Buddy(x, k) \in Nat
    <3>1. Buddy(x, k) = h * (d + d)
      BY <2>2, <2>4
    <3>2. h * (d + d) \in Nat /\ d + d \in Nat \ {0}
      BY <1>1
    <3> QED  BY <3>1, <3>2, ModZero
  <2>6. Buddy((2 * h) * d, k) = (2 * h) * d + d
    BY <1>6, <2>4
  <2>7. Buddy(Buddy(x, k), k) = x
    BY <2>3, <2>4, <2>6
  <2>8. Buddy(x, k) % d = 0
    BY <1>7, <2>4
  <2> QED  BY <1>1, <1>2, <2>3, <2>4, <2>5, <2>7, <2>8 DEF d
<1> QED  BY <1>9, <1>10

-----------------------------------------------------------------------------
(* Chunks: spans on a boundary of their size, and buddies. *)

\* Chunks on a boundary of their size.
Aligned == {c \in Chunk : c[1] % 2^c[2] = 0}

\* The chunks of C do not overlap.
Apart(C) == \A c, d \in C : c # d => Span(c[1], c[2]) \cap Span(d[1], d[2]) = {}

\* The constants, the blocks and the sizes.
LEMMA Constants ==
  /\ PoolBlocks \in Nat /\ NumSizes \in Nat /\ NumSizes >= 1
  /\ Block \subseteq Nat /\ Sizes \subseteq Nat /\ OURNULL \notin Block /\ Garbage \notin Block
  /\ OURNULL \in Int /\ Garbage \in Int /\ OURNULL # Garbage
  /\ \A b : b \in Block <=> b \in Nat /\ b < PoolBlocks
  /\ \A k : k \in Sizes <=> k \in Nat /\ k < NumSizes
BY PoolAssumption DEF Block, Sizes, OURNULL, Garbage

\* The blocks of a span.
LEMMA SpanFacts ==
  ASSUME NEW x \in Nat, NEW k \in Nat
  PROVE  /\ \A z : z \in Span(x, k) <=> z \in Nat /\ x <= z /\ z < x + 2^k
         /\ x \in Span(x, k) /\ x + 2^k - 1 \in Span(x, k)
<1>1. 2^k \in Nat /\ 2^k >= 1
  BY PowType
<1> QED  BY <1>1 DEF Span

\* What is known of a chunk.
LEMMA ChunkFacts ==
  ASSUME NEW x, NEW k
  PROVE  << x, k >> \in Aligned <=>
           /\ x \in Nat /\ k \in Nat /\ k < NumSizes
           /\ x + 2^k <= PoolBlocks /\ x % 2^k = 0
<1>1. ASSUME << x, k >> \in Aligned
      PROVE  /\ x \in Nat /\ k \in Nat /\ k < NumSizes
             /\ x + 2^k <= PoolBlocks /\ x % 2^k = 0
  <2>1. x \in Block /\ k \in Sizes /\ Span(x, k) \subseteq Block /\ x % 2^k = 0
    BY <1>1 DEF Aligned, Chunk
  <2>2. x \in Nat /\ k \in Nat /\ k < NumSizes
    BY <2>1, Constants
  <2>3. x + 2^k - 1 \in Block /\ 2^k \in Nat
    BY <2>1, <2>2, SpanFacts, PowType
  <2>4. x + 2^k <= PoolBlocks
    BY <2>2, <2>3, Constants
  <2> QED  BY <2>1, <2>2, <2>4
<1>2. ASSUME x \in Nat, k \in Nat, k < NumSizes, x + 2^k <= PoolBlocks, x % 2^k = 0
      PROVE  << x, k >> \in Aligned
  <2>1. 2^k \in Nat /\ 2^k >= 1
    BY <1>2, PowType
  <2>2. Span(x, k) \subseteq Block
    BY <1>2, <2>1, SpanFacts, Constants
  <2>3. x \in Block /\ k \in Sizes
    BY <1>2, <2>1, Constants
  <2> QED  BY <1>2, <2>2, <2>3 DEF Aligned, Chunk
<1> QED  BY <1>1, <1>2

\* The same of a chunk that is not taken apart.
LEMMA ChunkPair ==
  ASSUME NEW c \in Aligned
  PROVE  /\ c = << c[1], c[2] >> /\ c[1] \in Block /\ c[2] \in Sizes
         /\ c[1] \in Nat /\ c[2] \in Nat /\ c[2] < NumSizes
         /\ c[1] + 2^c[2] <= PoolBlocks /\ c[1] % 2^c[2] = 0
         /\ Span(c[1], c[2]) \subseteq Block
<1>1. /\ c = << c[1], c[2] >> /\ c[1] \in Block /\ c[2] \in Sizes
      /\ Span(c[1], c[2]) \subseteq Block
  BY DEF Aligned, Chunk
<1> QED  BY <1>1, ChunkFacts

\* Aligned chunks that meet: the smaller one lies in the larger one.
LEMMA ChunksNested ==
  ASSUME NEW x \in Nat, NEW k \in Nat, NEW y \in Nat, NEW m \in Nat, k <= m,
         x % 2^k = 0, y % 2^m = 0, Span(x, k) \cap Span(y, m) # {}
  PROVE  Span(x, k) \subseteq Span(y, m)
<1>1. PICK z \in Span(x, k) : z \in Span(y, m)
  OBVIOUS
<1>2. 2^k \in Nat /\ 2^m \in Nat
  BY PowType
<1>3. y <= x /\ x + 2^k <= y + 2^m
  BY <1>1, SpanFacts, Nested
<1>4. \A w : w \in Span(x, k) <=> w \in Nat /\ x <= w /\ w < x + 2^k
  BY SpanFacts
<1>5. \A w : w \in Span(y, m) <=> w \in Nat /\ y <= w /\ w < y + 2^m
  BY SpanFacts
<1>6. \A w \in Nat : x <= w /\ w < x + 2^k => y <= w /\ w < y + 2^m
  BY <1>2, <1>3
<1> QED  BY <1>4, <1>5, <1>6

\* A chunk's buddy and the chunk of the next size that the two make up.
LEMMA BuddySpans ==
  ASSUME NEW x \in Nat, NEW k \in Nat, x % 2^k = 0
  PROVE  LET b == Buddy(x, k)
             m == Min({x, b})
         IN  /\ b \in Nat /\ b # x /\ b % 2^k = 0 /\ Buddy(b, k) = x
             /\ m \in Nat /\ m % 2^(k + 1) = 0 /\ m = Min({b, x})
             /\ Span(x, k) \cap Span(b, k) = {}
             /\ Span(m, k + 1) = Span(x, k) \cup Span(b, k)
<1> DEFINE b == Buddy(x, k)
           m == Min({x, b})
<1>1. /\ b \in Nat /\ b % 2^k = 0 /\ Buddy(b, k) = x
      /\ \/ b = x + 2^k /\ x % 2^(k + 1) = 0
         \/ x = b + 2^k /\ b % 2^(k + 1) = 0
  BY BuddyFacts
<1>2. 2^k \in Nat /\ 2^k >= 1 /\ 2^(k + 1) = 2^k + 2^k
  BY PowType, PowNext
<1> HIDE DEF b
<1>3. m \in {x, b} /\ m <= x /\ m <= b
  BY <1>1, MinFacts
<1>4. {x, b} = {b, x}
  OBVIOUS
<1> HIDE DEF m
<1>5. m \in Nat /\ m % 2^(k + 1) = 0
  BY <1>1, <1>2, <1>3
<1>6. \A z : z \in Span(x, k) <=> z \in Nat /\ x <= z /\ z < x + 2^k
  BY SpanFacts
<1>7. \A z : z \in Span(b, k) <=> z \in Nat /\ b <= z /\ z < b + 2^k
  BY <1>1, SpanFacts
<1>8. \A z : z \in Span(m, k + 1) <=> z \in Nat /\ m <= z /\ z < m + (2^k + 2^k)
  <2>1. k + 1 \in Nat
    OBVIOUS
  <2>2. \A z : z \in Span(m, k + 1) <=> z \in Nat /\ m <= z /\ z < m + 2^(k + 1)
    BY <1>5, <2>1, SpanFacts
  <2> QED  BY <1>2, <2>2
<1>9. Span(x, k) \cap Span(b, k) = {}
  BY <1>1, <1>2, <1>6, <1>7
<1>10. Span(m, k + 1) = Span(x, k) \cup Span(b, k)
  <2>1. CASE b = x + 2^k
    <3>1. m = x
      BY <1>1, <1>2, <1>3, <2>1
    <3>2. \A z \in Nat : (m <= z /\ z < m + (2^k + 2^k)) <=>
                           \/ (x <= z /\ z < x + 2^k)
                           \/ (b <= z /\ z < b + 2^k)
      BY <1>2, <2>1, <3>1
    <3> QED  BY <1>6, <1>7, <1>8, <3>2
  <2>2. CASE x = b + 2^k
    <3>1. m = b
      BY <1>1, <1>2, <1>3, <2>2
    <3>2. \A z \in Nat : (m <= z /\ z < m + (2^k + 2^k)) <=>
                           \/ (x <= z /\ z < x + 2^k)
                           \/ (b <= z /\ z < b + 2^k)
      BY <1>1, <1>2, <2>2, <3>1
    <3> QED  BY <1>6, <1>7, <1>8, <3>2
  <2> QED  BY <1>1, <2>1, <2>2
<1>11. b # x
  BY <1>1, <1>2
<1> QED  BY <1>1, <1>4, <1>5, <1>9, <1>10, <1>11, Zenon DEF b, m

-----------------------------------------------------------------------------
(* Doubly linked lists. *)

\* S has the head of list k and, with each block, the next one.
Walks(p, k, S) ==
  /\ p.list[k] # OURNULL => p.list[k] \in S
  /\ \A b \in S : p.next[b] # OURNULL => p.next[b] \in S

\* The blocks of B are on list k, linked in both directions, and no others.
Linked(p, k, B) ==
  /\ p.list[k] # OURNULL => p.list[k] \in B /\ p.prev[p.list[k]] = OURNULL
  /\ \A b \in B : /\ p.magic[b] /\ p.trailer[b + 2^k - 1] = k
                  /\ p.next[b] # OURNULL => p.next[b] \in B /\ p.prev[p.next[b]] = b
                  /\ p.prev[b] = OURNULL => p.list[k] = b
                  /\ p.prev[b] # OURNULL => p.prev[b] \in B /\ p.next[p.prev[b]] = b

\* B is exactly what is met on list k.
ListOf(p, k, B) ==
  /\ Linked(p, k, B)
  /\ \A S \in SUBSET B : Walks(p, k, S) => B \subseteq S

\* The words of list k and of the blocks B are the same in p and q.
SameWords(p, q, k, B) ==
  /\ q.list[k] = p.list[k]
  /\ \A b \in B : /\ q.magic[b] = p.magic[b]
                  /\ q.prev[b] = p.prev[b] /\ q.next[b] = p.next[b]
                  /\ q.trailer[b + 2^k - 1] = p.trailer[b + 2^k - 1]

\* A list is as it was if its head and the words of its chunks are.
LEMMA ListFrame ==
  ASSUME NEW p, NEW q, NEW k, NEW B, ListOf(p, k, B), SameWords(p, q, k, B)
  PROVE  ListOf(q, k, B)
<1>1. \A S \in SUBSET B : Walks(q, k, S) => Walks(p, k, S)
  BY DEF SameWords, Walks
<1>2. \A S \in SUBSET B : Walks(p, k, S) => B \subseteq S
  BY DEF ListOf, Linked
<1>3. \A S \in SUBSET B : Walks(q, k, S) => B \subseteq S
  BY <1>1, <1>2
<1>4. q.list[k] # OURNULL => q.list[k] \in B /\ q.prev[q.list[k]] = OURNULL
  BY DEF ListOf, Linked, SameWords
<1>5. \A b \in B :
                  /\ q.magic[b] /\ q.trailer[b + 2^k - 1] = k
                  /\ q.next[b] # OURNULL => q.next[b] \in B /\ q.prev[q.next[b]] = b
                  /\ q.prev[b] = OURNULL => q.list[k] = b
                  /\ q.prev[b] # OURNULL => q.prev[b] \in B /\ q.next[q.prev[b]] = b
  BY DEF ListOf, Linked, SameWords
<1>6. Linked(q, k, B)
  BY <1>4, <1>5, Zenon DEF Linked
<1> QED  BY <1>3, <1>6, Zenon DEF ListOf

\* Block i goes to the head of list k.
Pushed(p, q, k, B, i) ==
  /\ q.list[k] = i
  /\ q.magic[i] /\ q.trailer[i + 2^k - 1] = k
  /\ q.prev[i] = OURNULL /\ q.next[i] = p.list[k]
  /\ \A b \in B : /\ q.magic[b] = p.magic[b] /\ q.next[b] = p.next[b]
                  /\ q.prev[b] = IF b = p.list[k] THEN i ELSE p.prev[b]
                  /\ q.trailer[b + 2^k - 1] = p.trailer[b + 2^k - 1]

\* The list is then one block longer.
LEMMA ListPush ==
  ASSUME NEW p, NEW q, NEW k, NEW B, B \subseteq Block, ListOf(p, k, B),
         NEW i \in Block, i \notin B, Pushed(p, q, k, B, i)
  PROVE  ListOf(q, k, B \cup {i})
<1>1. i # OURNULL /\ OURNULL \notin B
  BY Constants
<1>2. \A S \in SUBSET (B \cup {i}) : Walks(q, k, S) => B \cup {i} \subseteq S
  <2> SUFFICES ASSUME NEW S \in SUBSET (B \cup {i}), Walks(q, k, S)
               PROVE  B \cup {i} \subseteq S
    OBVIOUS
  <2>1. i \in S
    BY <1>1 DEF Walks, Pushed
  <2>2. Walks(p, k, S \cap B)
    <3>1. p.list[k] # OURNULL => p.list[k] \in S \cap B
      BY <2>1 DEF Walks, Pushed, ListOf, Linked
    <3>2. \A b \in S \cap B : p.next[b] # OURNULL => p.next[b] \in S \cap B
      BY DEF Walks, Pushed, ListOf, Linked
    <3> QED  BY <3>1, <3>2 DEF Walks
  <2>3. S \cap B \in SUBSET B
    OBVIOUS
  <2>4. B \subseteq S \cap B
    BY <2>2, <2>3 DEF ListOf, Linked
  <2> QED  BY <2>1, <2>4
<1>3. q.list[k] # OURNULL => q.list[k] \in B \cup {i} /\ q.prev[q.list[k]] = OURNULL
  BY DEF Pushed
<1>4. \A b \in B : /\ q.magic[b] /\ q.trailer[b + 2^k - 1] = k
                   /\ q.next[b] # OURNULL => q.next[b] \in B /\ q.prev[q.next[b]] = b
                   /\ q.prev[b] = OURNULL => q.list[k] = b
                   /\ q.prev[b] # OURNULL => q.prev[b] \in B \cup {i} /\ q.next[q.prev[b]] = b
  <2> SUFFICES ASSUME NEW b \in B
               PROVE  /\ q.magic[b] /\ q.trailer[b + 2^k - 1] = k
                      /\ q.next[b] # OURNULL => q.next[b] \in B /\ q.prev[q.next[b]] = b
                      /\ q.prev[b] = OURNULL => q.list[k] = b
                      /\ q.prev[b] # OURNULL => q.prev[b] \in B \cup {i} /\ q.next[q.prev[b]] = b
    OBVIOUS
  <2>1. q.magic[b] /\ q.trailer[b + 2^k - 1] = k
    BY DEF ListOf, Linked, Pushed
  <2>2. q.next[b] # OURNULL => q.next[b] \in B /\ q.prev[q.next[b]] = b
    <3> SUFFICES ASSUME p.next[b] # OURNULL
                 PROVE  p.next[b] \in B /\ q.prev[p.next[b]] = b
      BY DEF Pushed
    <3>1. p.next[b] \in B /\ p.prev[p.next[b]] = b
      BY DEF ListOf, Linked
    <3>2. p.next[b] # p.list[k]
      BY <1>1, <3>1 DEF ListOf, Linked
    <3> QED  BY <3>1, <3>2 DEF Pushed
  <2>3. CASE b = p.list[k]
    BY <1>1, <2>1, <2>2, <2>3 DEF Pushed
  <2>4. CASE b # p.list[k]
    <3>1. q.prev[b] = p.prev[b] /\ p.prev[b] # OURNULL
      BY <2>4 DEF Pushed, ListOf, Linked
    <3>2. p.prev[b] \in B /\ p.next[p.prev[b]] = b
      BY <3>1 DEF ListOf, Linked
    <3> QED  BY <2>1, <2>2, <3>1, <3>2 DEF Pushed
  <2> QED  BY <2>3, <2>4
<1>5. /\ q.magic[i] /\ q.trailer[i + 2^k - 1] = k
      /\ q.next[i] # OURNULL => q.next[i] \in B \cup {i} /\ q.prev[q.next[i]] = i
      /\ q.prev[i] = OURNULL => q.list[k] = i
      /\ q.prev[i] # OURNULL => q.prev[i] \in B \cup {i} /\ q.next[q.prev[i]] = i
  BY DEF Pushed, ListOf, Linked
<1>6. \A b \in B \cup {i} :
        /\ q.magic[b] /\ q.trailer[b + 2^k - 1] = k
        /\ q.next[b] # OURNULL => q.next[b] \in B \cup {i} /\ q.prev[q.next[b]] = b
        /\ q.prev[b] = OURNULL => q.list[k] = b
        /\ q.prev[b] # OURNULL => q.prev[b] \in B \cup {i} /\ q.next[q.prev[b]] = b
  BY <1>4, <1>5
<1> QED  BY <1>2, <1>3, <1>6, Zenon DEF ListOf, Linked

\* Block i is taken off list k: its neighbours are linked to each other.
Dropped(p, q, k, B, i) ==
  /\ q.list[k] = IF p.prev[i] = OURNULL THEN p.next[i] ELSE p.list[k]
  /\ \A b \in B \ {i} :
       /\ q.magic[b] = p.magic[b]
       /\ q.next[b] = IF b = p.prev[i] THEN p.next[i] ELSE p.next[b]
       /\ q.prev[b] = IF b = p.next[i] THEN p.prev[i] ELSE p.prev[b]
       /\ q.trailer[b + 2^k - 1] = p.trailer[b + 2^k - 1]

\* The list is then one block shorter.
LEMMA ListDrop ==
  ASSUME NEW p, NEW q, NEW k, NEW B, B \subseteq Block, ListOf(p, k, B),
         NEW i \in B, Dropped(p, q, k, B, i)
  PROVE  ListOf(q, k, B \ {i})
<1> DEFINE pr == p.prev[i]
           nx == p.next[i]
<1>1. OURNULL \notin B
  BY Constants
<1>2. /\ nx # OURNULL => nx \in B /\ p.prev[nx] = i
      /\ pr = OURNULL => p.list[k] = i
      /\ pr # OURNULL => pr \in B /\ p.next[pr] = i
  BY DEF ListOf, Linked
<1>3. nx # i /\ pr # i
  <2>1. ASSUME nx = i PROVE FALSE
    <3>1. pr = i /\ p.list[k] # i
      BY <1>1, <1>2, <2>1 DEF ListOf, Linked
    <3>2. B \ {i} \in SUBSET B /\ Walks(p, k, B \ {i})
      <4>1. p.list[k] # OURNULL => p.list[k] \in B \ {i}
        BY <3>1 DEF ListOf, Linked
      <4>2. \A b \in B \ {i} : p.next[b] # OURNULL => p.next[b] \in B \ {i}
        BY <3>1 DEF ListOf, Linked
      <4> QED  BY <4>1, <4>2 DEF Walks
    <3> QED  BY <3>2 DEF ListOf, Linked
  <2>2. ASSUME pr = i PROVE FALSE
    BY <1>1, <1>2, <2>1, <2>2
  <2> QED  BY <2>1, <2>2
<1>4. \A S \in SUBSET (B \ {i}) : Walks(q, k, S) => B \ {i} \subseteq S
  <2> SUFFICES ASSUME NEW S \in SUBSET (B \ {i}), Walks(q, k, S)
               PROVE  B \ {i} \subseteq S
    OBVIOUS
  <2>1. CASE pr \in S \/ pr = OURNULL
    <3>1. p.list[k] # OURNULL => p.list[k] \in S \cup {i}
      BY <1>2, <2>1 DEF Walks, Dropped
    <3>2. \A b \in S : p.next[b] # OURNULL => p.next[b] \in S \cup {i}
      BY <1>1, <1>2, <2>1 DEF Walks, Dropped
    <3>3. nx # OURNULL => nx \in S
      BY <1>1, <1>2, <2>1 DEF Walks, Dropped
    <3>4. S \cup {i} \in SUBSET B /\ Walks(p, k, S \cup {i})
      BY <3>1, <3>2, <3>3 DEF Walks
    <3> QED  BY <3>4 DEF ListOf, Linked
  <2>2. CASE pr \notin S /\ pr # OURNULL
    <3>1. p.list[k] # OURNULL => p.list[k] \in S
      BY <2>2 DEF Walks, Dropped
    <3>2. \A b \in S : p.next[b] # OURNULL => p.next[b] \in S
      BY <2>2 DEF Walks, Dropped
    <3>3. S \in SUBSET B /\ Walks(p, k, S)
      BY <3>1, <3>2 DEF Walks
    <3>4. B \subseteq S
      BY <3>3 DEF ListOf, Linked
    <3> QED  BY <3>4
  <2> QED  BY <2>1, <2>2
<1>5. q.list[k] # OURNULL => q.list[k] \in B \ {i} /\ q.prev[q.list[k]] = OURNULL
  <2>1. CASE pr = OURNULL
    BY <1>2, <1>3, <2>1 DEF Dropped
  <2>2. CASE pr # OURNULL
    <3>1. q.list[k] = p.list[k] /\ p.list[k] # i
      BY <1>1, <2>2 DEF Dropped, ListOf, Linked
    <3>2. ASSUME p.list[k] # OURNULL PROVE p.list[k] # nx
      <4>1. p.prev[p.list[k]] = OURNULL /\ i # OURNULL
        BY <1>1, <3>2 DEF ListOf, Linked
      <4> QED  BY <1>2, <3>2, <4>1
    <3> QED  BY <3>1, <3>2 DEF Dropped, ListOf, Linked
  <2> QED  BY <2>1, <2>2
<1>6. ASSUME NEW b \in B \ {i}
      PROVE  /\ q.magic[b] /\ q.trailer[b + 2^k - 1] = k
             /\ q.next[b] # OURNULL => q.next[b] \in B \ {i} /\ q.prev[q.next[b]] = b
             /\ q.prev[b] = OURNULL => q.list[k] = b
             /\ q.prev[b] # OURNULL => q.prev[b] \in B \ {i} /\ q.next[q.prev[b]] = b
  <2>0. b \in B /\ b # i /\ b # OURNULL
    BY <1>1
  <2>1. q.magic[b] /\ q.trailer[b + 2^k - 1] = k
    BY <2>0 DEF ListOf, Linked, Dropped
  <2>2. q.next[b] # OURNULL => q.next[b] \in B \ {i} /\ q.prev[q.next[b]] = b
    <3>1. CASE b = pr
      BY <1>2, <1>3, <2>0, <3>1 DEF Dropped
    <3>2. CASE b # pr
      <4>1. q.next[b] = p.next[b]
        BY <2>0, <3>2 DEF Dropped
      <4> SUFFICES ASSUME p.next[b] # OURNULL
                   PROVE  p.next[b] \in B \ {i} /\ q.prev[p.next[b]] = b
        BY <4>1
      <4>2. p.next[b] \in B /\ p.prev[p.next[b]] = b
        BY <2>0 DEF ListOf, Linked
      <4>3. p.next[b] # i /\ p.next[b] # nx
        BY <1>2, <2>0, <3>2, <4>2
      <4> QED  BY <4>2, <4>3 DEF Dropped
    <3> QED  BY <3>1, <3>2
  <2>3. CASE b = nx
    <3>1. q.prev[b] = pr
      BY <2>0, <2>3 DEF Dropped
    <3>2. ASSUME pr # OURNULL PROVE q.next[pr] = b
      BY <1>2, <1>3, <2>3, <3>2 DEF Dropped
    <3>3. ASSUME pr = OURNULL PROVE q.list[k] = b
      BY <2>3, <3>3 DEF Dropped
    <3> QED  BY <1>2, <1>3, <2>1, <2>2, <3>1, <3>2, <3>3
  <2>4. CASE b # nx
    <3>1. q.prev[b] = p.prev[b]
      BY <2>0, <2>4 DEF Dropped
    <3>2. ASSUME p.prev[b] = OURNULL PROVE q.list[k] = b
      <4>1. p.list[k] = b
        BY <2>0, <3>2 DEF ListOf, Linked
      <4>2. pr # OURNULL
        BY <1>2, <2>0, <4>1
      <4> QED  BY <4>1, <4>2 DEF Dropped
    <3>3. ASSUME p.prev[b] # OURNULL
          PROVE  p.prev[b] \in B \ {i} /\ q.next[p.prev[b]] = b
      <4>1. p.prev[b] \in B /\ p.next[p.prev[b]] = b
        BY <2>0, <3>3 DEF ListOf, Linked
      <4>2. p.prev[b] # i /\ p.prev[b] # pr
        BY <1>2, <1>1, <2>0, <2>4, <4>1
      <4> QED  BY <4>1, <4>2 DEF Dropped
    <3> QED  BY <2>1, <2>2, <3>1, <3>2, <3>3
  <2> QED  BY <2>3, <2>4
<1> QED  BY <1>4, <1>5, <1>6, Zenon DEF ListOf, Linked

\* The blocks of a list are what is met on it.
LEMMA OnListIs ==
  ASSUME NEW p, NEW k, NEW B, B \subseteq Block, ListOf(p, k, B)
  PROVE  OnList(p, k) = B
<1> DEFINE Word == Block \cup {Garbage}
           Closed == {S \in SUBSET Word :
                        /\ p.list[k] \in S \cup {OURNULL}
                        /\ \A b \in S \cap Block : p.next[b] \in S \cup {OURNULL}}
<1>1. OnList(p, k) = {b \in Word : \A S \in Closed : b \in S}
  BY DEF OnList
<1>2. B \in Closed
  <2>1. B \in SUBSET Word
    OBVIOUS
  <2>2. p.list[k] \in B \cup {OURNULL}
    BY DEF ListOf, Linked
  <2>3. \A b \in B \cap Block : p.next[b] \in B \cup {OURNULL}
    BY DEF ListOf, Linked
  <2> QED  BY <2>1, <2>2, <2>3
<1>3. ASSUME NEW S \in Closed PROVE B \subseteq S
  <2>1. S \cap B \in SUBSET B
    OBVIOUS
  <2>2. p.list[k] # OURNULL => p.list[k] \in S \cap B
    BY DEF ListOf, Linked
  <2>3. \A b \in S \cap B : p.next[b] # OURNULL => p.next[b] \in S \cap B
    BY DEF ListOf, Linked
  <2>4. Walks(p, k, S \cap B)
    BY <2>2, <2>3 DEF Walks
  <2>5. B \subseteq S \cap B
    BY <2>1, <2>4 DEF ListOf, Linked
  <2> QED  BY <2>5
<1> HIDE DEF Closed
<1> QED  BY <1>1, <1>2, <1>3

-----------------------------------------------------------------------------
(* The free lists. *)

\* The pool as a record of typed members.
PoolType == [map : SUBSET Block, list : [Sizes -> Block \cup {OURNULL}],
             magic : [Block -> BOOLEAN], prev : [Block -> Int], next : [Block -> Int],
             trailer : [Block -> Int], free : Int]

\* The offsets of the chunks of a size.
OfSize(F, k) == {b \in Block : << b, k >> \in F}

\* The free lists hold the chunks of F.
Listed(p, F) == \A k \in Sizes : ListOf(p, k, OfSize(F, k))

\* The chunks that are met on the free lists of a pool.
FreeOf(p) == UNION {{<< b, k >> : b \in OnList(p, k)} : k \in Sizes}

\* What is met on the free lists is what they hold.
LEMMA FreeOfIs ==
  ASSUME NEW p, NEW F, F \subseteq Aligned, Listed(p, F)
  PROVE  FreeOf(p) = F
<1>1. \A k \in Sizes : OnList(p, k) = OfSize(F, k)
  <2> SUFFICES ASSUME NEW k \in Sizes PROVE OnList(p, k) = OfSize(F, k)
    OBVIOUS
  <2>1. OfSize(F, k) \subseteq Block /\ ListOf(p, k, OfSize(F, k))
    BY DEF OfSize, Listed
  <2> QED  BY <2>1, OnListIs
<1>2. ASSUME NEW c \in FreeOf(p) PROVE c \in F
  <2>1. PICK k \in Sizes : c \in {<< b, k >> : b \in OnList(p, k)}
    BY DEF FreeOf
  <2>2. PICK b \in OfSize(F, k) : c = << b, k >>
    BY <1>1, <2>1
  <2> QED  BY <2>2 DEF OfSize
<1>3. ASSUME NEW c \in F PROVE c \in FreeOf(p)
  <2>1. c = << c[1], c[2] >> /\ c[1] \in Block /\ c[2] \in Sizes
    BY ChunkPair
  <2>2. c[1] \in OnList(p, c[2])
    BY <1>1, <2>1 DEF OfSize
  <2>3. c \in {<< b, c[2] >> : b \in OnList(p, c[2])}
    BY <2>1, <2>2
  <2> QED  BY <2>1, <2>3 DEF FreeOf
<1> QED  BY <1>2, <1>3

\* Chunks that do not overlap have neither their first nor their last block in common.
LEMMA ApartEnds ==
  ASSUME NEW F, F \subseteq Aligned, Apart(F), NEW c \in F, NEW d \in F, c # d
  PROVE  c[1] # d[1] /\ c[1] + 2^c[2] - 1 # d[1] + 2^d[2] - 1
<1>1. c[1] \in Nat /\ c[2] \in Nat /\ d[1] \in Nat /\ d[2] \in Nat
  BY ChunkPair
<1>2. c[1] \in Span(c[1], c[2]) /\ c[1] + 2^c[2] - 1 \in Span(c[1], c[2])
  BY <1>1, SpanFacts
<1>3. d[1] \in Span(d[1], d[2]) /\ d[1] + 2^d[2] - 1 \in Span(d[1], d[2])
  BY <1>1, SpanFacts
<1>4. Span(c[1], c[2]) \cap Span(d[1], d[2]) = {}
  BY Zenon DEF Apart
<1> QED  BY <1>2, <1>3, <1>4

\* The members of the pool after makeFree.
LEMMA MakeFreeFields ==
  ASSUME NEW p \in PoolType, NEW i \in Block, NEW k \in Sizes, i + 2^k - 1 \in Block
  PROVE  LET q == MakeFree(p, i, k)
             h == p.list[k]
         IN  /\ q \in PoolType /\ q.map = p.map /\ q.free = p.free + 2^k
             /\ q.list[k] = i /\ \A j \in Sizes : j # k => q.list[j] = p.list[j]
             /\ q.magic[i] /\ \A b \in Block : b # i => q.magic[b] = p.magic[b]
             /\ q.next[i] = h /\ \A b \in Block : b # i => q.next[b] = p.next[b]
             /\ h # i => q.prev[i] = OURNULL
             /\ \A b \in Block : b # i => q.prev[b] = IF b = h THEN i ELSE p.prev[b]
             /\ q.trailer[i + 2^k - 1] = k
             /\ \A b \in Block : b # i + 2^k - 1 => q.trailer[b] = p.trailer[b]
<1> DEFINE e == i + 2^k - 1
           h == p.list[k]
           t == 2^k
           ls == [p.list EXCEPT ![k] = i]
           mg == [p.magic EXCEPT ![i] = TRUE]
           pv == Link([p.prev EXCEPT ![i] = OURNULL], h, i)
           nx == [p.next EXCEPT ![i] = h]
           tr == [p.trailer EXCEPT ![e] = k]
           q == [map |-> p.map, list |-> ls, magic |-> mg, prev |-> pv, next |-> nx,
                 trailer |-> tr, free |-> p.free + t]
<1>1. /\ p.map \in SUBSET Block /\ p.list \in [Sizes -> Block \cup {OURNULL}]
      /\ p.magic \in [Block -> BOOLEAN] /\ p.prev \in [Block -> Int]
      /\ p.next \in [Block -> Int] /\ p.trailer \in [Block -> Int] /\ p.free \in Int
  BY DEF PoolType
<1>2. t \in Int /\ i \in Int /\ k \in Int /\ h \in Int /\ h \in Block \cup {OURNULL}
  BY <1>1, PowType, Constants
<1>3. MakeFree(p, i, k) = q
  <2>1. p = [map |-> p.map, list |-> p.list, magic |-> p.magic, prev |-> p.prev,
             next |-> p.next, trailer |-> p.trailer, free |-> p.free]
    BY DEF PoolType
  <2> HIDE DEF ls, mg, pv, nx, tr
  <2>2. MakeFree(p, i, k) =
          [p EXCEPT !.magic = mg, !.prev = pv, !.next = nx, !.trailer = tr,
                    !.list = ls, !.free = p.free + t]
    BY DEF MakeFree, ls, mg, pv, nx, tr
  <2> QED  BY <2>1, <2>2
<1>4. e \in Block
  OBVIOUS
<1> HIDE DEF e, h, t
<1>5. /\ pv \in [Block -> Int]
      /\ h # i => pv[i] = OURNULL
      /\ \A b \in Block : b # i => pv[b] = IF b = h THEN i ELSE p.prev[b]
  BY <1>1, <1>2, Constants DEF Link
<1>6. /\ ls[k] = i /\ \A j \in Sizes : j # k => ls[j] = p.list[j]
      /\ mg[i] /\ \A b \in Block : b # i => mg[b] = p.magic[b]
      /\ nx[i] = h /\ \A b \in Block : b # i => nx[b] = p.next[b]
      /\ tr[e] = k /\ \A b \in Block : b # e => tr[b] = p.trailer[b]
  BY <1>1, <1>4
<1>7. ls \in [Sizes -> Block \cup {OURNULL}] /\ mg \in [Block -> BOOLEAN]
  BY <1>1
<1>8. nx \in [Block -> Int] /\ tr \in [Block -> Int] /\ p.free + t \in Int
  <2>1. nx \in [Block -> Int]
    BY <1>1, <1>2
  <2>2. tr \in [Block -> Int]
    BY <1>1, <1>2
  <2>3. p.free + t \in Int
    BY <1>1, <1>2
  <2> QED  BY <2>1, <2>2, <2>3
<1> HIDE DEF pv, ls, mg, nx, tr
<1>9. q \in PoolType
  BY <1>1, <1>5, <1>7, <1>8 DEF PoolType
<1>10. /\ q.map = p.map /\ q.free = p.free + t /\ q.list = ls /\ q.magic = mg
       /\ q.prev = pv /\ q.next = nx /\ q.trailer = tr
  OBVIOUS
<1> HIDE DEF q
<1> QED  BY <1>3, <1>5, <1>6, <1>9, <1>10 DEF e, h, t

\* makeFree puts its chunk onto the free lists.
LEMMA MakeFreeListed ==
  ASSUME NEW p \in PoolType, NEW F, F \subseteq Aligned, Listed(p, F),
         NEW i, NEW k, << i, k >> \in Aligned, << i, k >> \notin F,
         Apart(F \cup {<< i, k >>})
  PROVE  Listed(MakeFree(p, i, k), F \cup {<< i, k >>})
<1> DEFINE q == MakeFree(p, i, k)
           G == F \cup {<< i, k >>}
           h == p.list[k]
<1>1. i \in Block /\ k \in Sizes /\ i \in Nat /\ k \in Nat
  BY ChunkPair
<1>2. i + 2^k - 1 \in Block
  <2>1. Span(i, k) \subseteq Block
    BY ChunkPair
  <2> QED  BY <1>1, <2>1, SpanFacts
<1>3. /\ q \in PoolType
      /\ q.list[k] = i /\ \A j \in Sizes : j # k => q.list[j] = p.list[j]
      /\ q.magic[i] /\ \A b \in Block : b # i => q.magic[b] = p.magic[b]
      /\ q.next[i] = h /\ \A b \in Block : b # i => q.next[b] = p.next[b]
      /\ h # i => q.prev[i] = OURNULL
      /\ \A b \in Block : b # i => q.prev[b] = IF b = h THEN i ELSE p.prev[b]
      /\ q.trailer[i + 2^k - 1] = k
      /\ \A b \in Block : b # i + 2^k - 1 => q.trailer[b] = p.trailer[b]
  BY <1>1, <1>2, MakeFreeFields
<1> HIDE DEF q
<1>4. G \subseteq Aligned /\ << i, k >> \in G /\ F \subseteq G /\ Apart(G)
  OBVIOUS
<1> HIDE DEF G
<1>5. ASSUME NEW j \in Sizes, NEW b \in OfSize(F, j)
      PROVE  /\ << b, j >> \in F /\ b \in Block /\ b # i
             /\ b + 2^j - 1 \in Block /\ b + 2^j - 1 # i + 2^k - 1
  <2>1. << b, j >> \in F /\ << b, j >> # << i, k >> /\ << b, j >> \in G
    BY <1>4 DEF OfSize
  <2>3. b # i /\ b + 2^j - 1 # i + 2^k - 1
    <3>1. PICK c : c = << b, j >>
      OBVIOUS
    <3>2. PICK d : d = << i, k >>
      OBVIOUS
    <3>3. c \in G /\ d \in G /\ c # d
      BY <1>4, <2>1, <3>1, <3>2
    <3>4. c[1] # d[1] /\ c[1] + 2^c[2] - 1 # d[1] + 2^d[2] - 1
      BY <1>4, <3>3, ApartEnds
    <3> QED  BY <3>1, <3>2, <3>4
  <2>4. << b, j >> \in Aligned
    BY <2>1
  <2>5. b \in Nat /\ j \in Nat /\ Span(b, j) \subseteq Block /\ b \in Block
    BY <2>4, ChunkPair
  <2>6. b + 2^j - 1 \in Block
    BY <2>5, SpanFacts
  <2> QED  BY <2>1, <2>3, <2>5, <2>6
<1>6. h # OURNULL => h \in OfSize(F, k)
  BY <1>1 DEF Listed, ListOf, Linked
<1>7. ASSUME NEW j \in Sizes PROVE ListOf(q, j, OfSize(G, j))
  <2>0. ListOf(p, j, OfSize(F, j)) /\ OfSize(F, j) \subseteq Block
    BY DEF Listed, OfSize
  <2>1. CASE j = k
    <3>1. OfSize(G, k) = OfSize(F, k) \cup {i}
      BY <1>1 DEF OfSize, G
    <3>2. i \notin OfSize(F, k)
      BY DEF OfSize
    <3>3. h # i
      BY <1>1, <1>6, <3>2, Constants
    <3>4. Pushed(p, q, k, OfSize(F, k), i)
      <4>1. \A b \in OfSize(F, k) : /\ b \in Block /\ b # i /\ b + 2^k - 1 \in Block
                                     /\ b + 2^k - 1 # i + 2^k - 1
        BY <1>1, <1>5
      <4> QED  BY <1>3, <3>3, <4>1 DEF Pushed
    <3> QED  BY <1>1, <2>0, <2>1, <3>1, <3>2, <3>4, ListPush
  <2>2. CASE j # k
    <3>1. OfSize(G, j) = OfSize(F, j)
      BY <2>2 DEF OfSize, G
    <3>2. \A b \in OfSize(F, j) : b # h
      <4> SUFFICES ASSUME NEW b \in OfSize(F, j), b = h PROVE FALSE
        OBVIOUS
      <4>1. << b, j >> \in F /\ b # OURNULL
        BY Constants DEF OfSize
      <4>2. << b, k >> \in F
        BY <1>6, <4>1 DEF OfSize
      <4>3. Apart(F)
        BY DEF Apart
      <4>4. << b, j >> # << b, k >>
        BY <2>2
      <4>5. PICK c : c = << b, j >>
        OBVIOUS
      <4>6. PICK d : d = << b, k >>
        OBVIOUS
      <4>7. c[1] # d[1]
        BY <4>1, <4>2, <4>3, <4>4, <4>5, <4>6, ApartEnds
      <4> QED  BY <4>5, <4>6, <4>7
    <3>3. SameWords(p, q, j, OfSize(F, j))
      <4>1. ASSUME NEW b \in OfSize(F, j)
            PROVE  /\ q.magic[b] = p.magic[b]
                   /\ q.prev[b] = p.prev[b] /\ q.next[b] = p.next[b]
                   /\ q.trailer[b + 2^j - 1] = p.trailer[b + 2^j - 1]
        <5>1. /\ b \in Block /\ b # i /\ b # h
              /\ b + 2^j - 1 \in Block /\ b + 2^j - 1 # i + 2^k - 1
          BY <1>5, <3>2
        <5> QED  BY <1>3, <5>1
      <4>2. q.list[j] = p.list[j]
        BY <1>3, <2>2
      <4> QED  BY <4>1, <4>2 DEF SameWords
    <3> QED  BY <2>0, <3>1, <3>3, ListFrame
  <2> QED  BY <2>1, <2>2
<1> QED  BY <1>7 DEF Listed, q, G

\* Chunk << i, k >> is taken off its list between p and q.
Removed(p, q, i, k) ==
  /\ q.list[k] = IF p.prev[i] = OURNULL THEN p.next[i] ELSE p.list[k]
  /\ \A j \in Sizes : j # k => q.list[j] = p.list[j]
  /\ \A b \in Block : b # i =>
       /\ q.magic[b] = p.magic[b]
       /\ q.next[b] = IF b = p.prev[i] THEN p.next[i] ELSE p.next[b]
       /\ q.prev[b] = IF b = p.next[i] THEN p.prev[i] ELSE p.prev[b]
  /\ \A b \in Block : b # i + 2^k - 1 => q.trailer[b] = p.trailer[b]

\* Another chunk of F has its first and last block elsewhere.
LEMMA OtherChunk ==
  ASSUME NEW F, F \subseteq Aligned, Apart(F), NEW i, NEW k, << i, k >> \in F,
         NEW j \in Sizes, NEW b \in OfSize(F, j), b # i \/ j # k
  PROVE  /\ b \in Block /\ b # i
         /\ b + 2^j - 1 \in Block /\ b + 2^j - 1 # i + 2^k - 1
<1>1. PICK c : c = << b, j >>
  OBVIOUS
<1>2. PICK d : d = << i, k >>
  OBVIOUS
<1>3. c \in F /\ d \in F /\ c # d
  BY <1>1, <1>2 DEF OfSize
<1>4. c[1] # d[1] /\ c[1] + 2^c[2] - 1 # d[1] + 2^d[2] - 1
  BY <1>3, ApartEnds
<1>5. c[1] \in Nat /\ c[2] \in Nat /\ Span(c[1], c[2]) \subseteq Block /\ c[1] \in Block
  BY <1>3, ChunkPair
<1>6. c[1] + 2^c[2] - 1 \in Block
  BY <1>5, SpanFacts
<1> QED  BY <1>1, <1>2, <1>4, <1>5, <1>6

\* The lists without the chunk.
LEMMA RemovedListed ==
  ASSUME NEW p, NEW q, NEW F, F \subseteq Aligned, Apart(F), Listed(p, F),
         NEW i, NEW k, << i, k >> \in F, Removed(p, q, i, k)
  PROVE  Listed(q, F \ {<< i, k >>})
<1> DEFINE G == F \ {<< i, k >>}
<1>1. i \in Block /\ k \in Sizes
  BY ChunkPair
<1>2. i \in OfSize(F, k)
  BY <1>1 DEF OfSize
<1>3. ListOf(p, k, OfSize(F, k))
  BY <1>1 DEF Listed
<1>4. ASSUME NEW j \in Sizes PROVE ListOf(q, j, OfSize(G, j))
  <2>0. ListOf(p, j, OfSize(F, j)) /\ OfSize(F, j) \subseteq Block
    BY DEF Listed, OfSize
  <2>1. CASE j = k
    <3>1. OfSize(G, k) = OfSize(F, k) \ {i}
      BY DEF OfSize
    <3>2. \A b \in OfSize(F, k) \ {i} : /\ b \in Block /\ b # i /\ b + 2^k - 1 \in Block
                                        /\ b + 2^k - 1 # i + 2^k - 1
      BY <1>1, OtherChunk
    <3>3. Dropped(p, q, k, OfSize(F, k), i)
      BY <3>2 DEF Dropped, Removed
    <3> QED  BY <1>2, <2>0, <2>1, <3>1, <3>3, ListDrop
  <2>2. CASE j # k
    <3>1. OfSize(G, j) = OfSize(F, j)
      BY <2>2 DEF OfSize
    <3>2. \A b \in OfSize(F, j) : /\ b \in Block /\ b # i /\ b + 2^j - 1 \in Block
                                  /\ b + 2^j - 1 # i + 2^k - 1
      BY <1>1, <2>2, OtherChunk
    <3>3. \A b \in OfSize(F, j) : b # OURNULL /\ b \notin OfSize(F, k)
      <4> SUFFICES ASSUME NEW b \in OfSize(F, j)
                   PROVE  b # OURNULL /\ b \notin OfSize(F, k)
        OBVIOUS
      <4>1. ASSUME b \in OfSize(F, k) PROVE FALSE
        <5>1. << b, k >> \in F
          BY <4>1 DEF OfSize
        <5> QED  BY <2>2, <5>1, OtherChunk
      <4> QED  BY <2>0, <4>1, Constants
    <3>4. /\ p.prev[i] = OURNULL \/ p.prev[i] \in OfSize(F, k)
          /\ p.next[i] = OURNULL \/ p.next[i] \in OfSize(F, k)
      BY <1>2, <1>3 DEF ListOf, Linked
    <3>5. \A b \in OfSize(F, j) : b # p.prev[i] /\ b # p.next[i]
      BY <3>3, <3>4
    <3>6. SameWords(p, q, j, OfSize(F, j))
      BY <2>2, <3>2, <3>5 DEF SameWords, Removed
    <3> QED  BY <2>0, <3>1, <3>6, ListFrame
  <2> QED  BY <2>1, <2>2
<1> QED  BY <1>4 DEF Listed

\* What a chunk on a list has in its words.
LEMMA ListedWords ==
  ASSUME NEW p, NEW F, F \subseteq Aligned, Listed(p, F), NEW i, NEW k, << i, k >> \in F
  PROVE  /\ p.list[k] # OURNULL /\ p.magic[i] /\ p.trailer[i + 2^k - 1] = k
         /\ p.prev[i] # OURNULL => p.prev[i] \in OfSize(F, k) /\ p.next[p.prev[i]] = i
         /\ p.next[i] # OURNULL => p.next[i] \in OfSize(F, k) /\ p.prev[p.next[i]] = i
         /\ p.prev[i] = OURNULL => p.list[k] = i
<1>1. i \in Block /\ k \in Sizes
  BY ChunkPair
<1>2. i \in OfSize(F, k) /\ i # OURNULL
  BY <1>1, Constants DEF OfSize
<1>3. ListOf(p, k, OfSize(F, k))
  BY <1>1 DEF Listed
<1>4. p.list[k] # OURNULL
  <2> SUFFICES ASSUME p.list[k] = OURNULL PROVE FALSE
    OBVIOUS
  <2>1. Walks(p, k, {}) /\ {} \in SUBSET OfSize(F, k)
    BY DEF Walks
  <2> QED  BY <1>2, <1>3, <2>1 DEF ListOf
<1> QED  BY <1>2, <1>3, <1>4 DEF ListOf, Linked

\* The head of a list is a chunk of its size without a chunk before it.
LEMMA HeadListed ==
  ASSUME NEW p, NEW F, F \subseteq Aligned, Listed(p, F), NEW k \in Sizes,
         p.list[k] # OURNULL
  PROVE  << p.list[k], k >> \in F /\ p.prev[p.list[k]] = OURNULL
BY DEF Listed, ListOf, Linked, OfSize

\* An empty list: there is no free chunk of its size.
LEMMA NoListed ==
  ASSUME NEW p, NEW F, F \subseteq Aligned, Listed(p, F), NEW k \in Sizes,
         p.list[k] = OURNULL
  PROVE  \A c \in F : c[2] # k
<1> SUFFICES ASSUME NEW c \in F, c[2] = k PROVE FALSE
  OBVIOUS
<1>1. << c[1], k >> \in F
  BY ChunkPair
<1> QED  BY <1>1, ListedWords

\* Links in a list are blocks that pass the tests.
LEMMA GoodLinks ==
  ASSUME NEW p, NEW F, F \subseteq Aligned, Listed(p, F), NEW i, NEW k, << i, k >> \in F
  PROVE  ~BadLinks(p, i) /\ ~BadNode(p, i)
<1>1. i \in Block /\ k \in Sizes
  BY ChunkPair
<1>2. \A b \in OfSize(F, k) : b \in Block /\ p.magic[b]
  <2> SUFFICES ASSUME NEW b \in OfSize(F, k) PROVE b \in Block /\ p.magic[b]
    OBVIOUS
  <2>1. << b, k >> \in F /\ b \in Block
    BY DEF OfSize
  <2> QED  BY <2>1, ListedWords
<1>3. p.magic[i]
  BY ListedWords
<1>4. /\ p.prev[i] # OURNULL => p.prev[i] \in OfSize(F, k) /\ p.next[p.prev[i]] = i
      /\ p.next[i] # OURNULL => p.next[i] \in OfSize(F, k) /\ p.prev[p.next[i]] = i
  BY ListedWords
<1> QED  BY <1>1, <1>2, <1>3, <1>4 DEF BadLinks, BadNode

\* Writes outside of the free chunks leave the lists alone.
SameFree(p, q, C) ==
  /\ q.list = p.list
  /\ \A b \in C : /\ q.magic[b] = p.magic[b] /\ q.prev[b] = p.prev[b]
                  /\ q.next[b] = p.next[b] /\ q.trailer[b] = p.trailer[b]

\* A block of some chunk.
LEMMA CoveredBy ==
  ASSUME NEW F, NEW z
  PROVE  z \in Covered(F) <=> \E c \in F : z \in Span(c[1], c[2])
BY DEF Covered

\* The lists are then as they were.
LEMMA FrameListed ==
  ASSUME NEW p, NEW q, NEW F, F \subseteq Aligned, Listed(p, F),
         SameFree(p, q, Covered(F))
  PROVE  Listed(q, F)
<1> SUFFICES ASSUME NEW k \in Sizes PROVE ListOf(q, k, OfSize(F, k))
  BY DEF Listed
<1>1. \A b \in OfSize(F, k) : b \in Covered(F) /\ b + 2^k - 1 \in Covered(F)
  <2> SUFFICES ASSUME NEW b \in OfSize(F, k)
               PROVE  b \in Covered(F) /\ b + 2^k - 1 \in Covered(F)
    OBVIOUS
  <2>1. PICK c : c = << b, k >>
    OBVIOUS
  <2>2. c \in F /\ c[1] = b /\ c[2] = k
    BY <2>1 DEF OfSize
  <2>3. c[1] \in Nat /\ c[2] \in Nat
    BY <2>2, ChunkPair
  <2>4. b \in Span(b, k) /\ b + 2^k - 1 \in Span(b, k)
    BY <2>2, <2>3, SpanFacts
  <2> QED  BY <2>2, <2>4, CoveredBy
<1>2. SameWords(p, q, k, OfSize(F, k))
  BY <1>1 DEF SameWords, SameFree
<1>3. ListOf(p, k, OfSize(F, k))
  BY DEF Listed
<1> QED  BY <1>2, <1>3, ListFrame

\* The pool as a record.
LEMMA PoolFields ==
  ASSUME NEW p \in PoolType
  PROVE  /\ p.map \in SUBSET Block /\ p.list \in [Sizes -> Block \cup {OURNULL}]
         /\ p.magic \in [Block -> BOOLEAN] /\ p.prev \in [Block -> Int]
         /\ p.next \in [Block -> Int] /\ p.trailer \in [Block -> Int] /\ p.free \in Int
         /\ p = [map |-> p.map, list |-> p.list, magic |-> p.magic, prev |-> p.prev,
                 next |-> p.next, trailer |-> p.trailer, free |-> p.free]
BY DEF PoolType

\* The words of b and its neighbours after Unlink.
LEMMA UnlinkRemoved ==
  ASSUME NEW p \in PoolType, NEW b \in Block, NEW k \in Sizes, b + 2^k - 1 \in Block,
         p.prev[b] \in Block \cup {OURNULL}, p.next[b] \in Block \cup {OURNULL}
  PROVE  LET q == Unlink(p, b, k)
         IN  q \in PoolType /\ q.map = p.map /\ q.free = p.free /\ Removed(p, q, b, k)
<1> DEFINE pr == p.prev[b]
           nx == p.next[b]
           e == b + 2^k - 1
           ls == [p.list EXCEPT ![k] = IF pr = OURNULL THEN nx ELSE @]
           mg == [p.magic EXCEPT ![b] = FALSE]
           nf == [Link(p.next, pr, nx) EXCEPT ![b] = 0]
           pf == [Link(p.prev, nx, pr) EXCEPT ![b] = 0]
           tr == [p.trailer EXCEPT ![e] = Garbage]
           q == [map |-> p.map, list |-> ls, magic |-> mg, prev |-> pf, next |-> nf,
                 trailer |-> tr, free |-> p.free]
<1>1. /\ p.map \in SUBSET Block /\ p.list \in [Sizes -> Block \cup {OURNULL}]
      /\ p.magic \in [Block -> BOOLEAN] /\ p.prev \in [Block -> Int]
      /\ p.next \in [Block -> Int] /\ p.trailer \in [Block -> Int] /\ p.free \in Int
      /\ p = [map |-> p.map, list |-> p.list, magic |-> p.magic, prev |-> p.prev,
              next |-> p.next, trailer |-> p.trailer, free |-> p.free]
  BY PoolFields
<1>2. /\ pr \in Int /\ nx \in Int /\ Garbage \in Int /\ e \in Block
      /\ pr \in Block \cup {OURNULL} /\ nx \in Block \cup {OURNULL}
  BY <1>1, Constants
<1>3. Unlink(p, b, k) = q
  <2>1. Unlink(p, b, k) =
          [p EXCEPT !.list = ls, !.next = nf, !.prev = pf, !.magic = mg, !.trailer = tr]
    BY DEF Unlink
  <2> HIDE DEF ls, mg, nf, pf, tr
  <2> QED  BY <1>1, <2>1
<1> HIDE DEF pr, nx, e
<1>4. /\ Link(p.next, pr, nx) \in [Block -> Int]
      /\ \A a \in Block : Link(p.next, pr, nx)[a] = IF a = pr THEN nx ELSE p.next[a]
  BY <1>1, <1>2, Constants DEF Link
<1>5. /\ Link(p.prev, nx, pr) \in [Block -> Int]
      /\ \A a \in Block : Link(p.prev, nx, pr)[a] = IF a = nx THEN pr ELSE p.prev[a]
  BY <1>1, <1>2, Constants DEF Link
<1>6. /\ nf \in [Block -> Int]
      /\ \A a \in Block : a # b => nf[a] = IF a = pr THEN nx ELSE p.next[a]
  BY <1>4
<1>7. /\ pf \in [Block -> Int]
      /\ \A a \in Block : a # b => pf[a] = IF a = nx THEN pr ELSE p.prev[a]
  BY <1>5
<1>8. /\ ls \in [Sizes -> Block \cup {OURNULL}]
      /\ ls[k] = IF pr = OURNULL THEN nx ELSE p.list[k]
      /\ \A j \in Sizes : j # k => ls[j] = p.list[j]
  BY <1>1, <1>2
<1>9. /\ mg \in [Block -> BOOLEAN]
      /\ \A a \in Block : a # b => mg[a] = p.magic[a]
  BY <1>1
<1>10. /\ tr \in [Block -> Int]
       /\ \A a \in Block : a # e => tr[a] = p.trailer[a]
  BY <1>1, <1>2
<1> HIDE DEF ls, mg, nf, pf, tr
<1>11. q \in PoolType
  BY <1>1, <1>6, <1>7, <1>8, <1>9, <1>10 DEF PoolType
<1>12. /\ q.map = p.map /\ q.free = p.free /\ q.list = ls /\ q.magic = mg
       /\ q.prev = pf /\ q.next = nf /\ q.trailer = tr
  OBVIOUS
<1> HIDE DEF q
<1>13. Removed(p, q, b, k)
  BY <1>6, <1>7, <1>8, <1>9, <1>10, <1>12 DEF Removed, pr, nx, e
<1> QED  BY <1>3, <1>11, <1>12, <1>13

\* The head of list k is taken.
LEMMA TakenRemoved ==
  ASSUME NEW p \in PoolType, NEW k \in Sizes, NEW past, past - 1 \in Block,
         p.list[k] \in Block, p.prev[p.list[k]] = OURNULL,
         p.next[p.list[k]] \in Block \cup {OURNULL}
  PROVE  LET q == Taken(p, k, past)
         IN  /\ q \in PoolType /\ q.map = p.map \cup {past - 1}
             /\ q.free = p.free - 2^k /\ Removed(p, q, p.list[k], k)
<1> DEFINE i == p.list[k]
           nx == p.next[i]
           pf == Link(p.prev, nx, OURNULL)
           ls == [p.list EXCEPT ![k] = nx]
           mp == p.map \cup {past - 1}
           t == 2^k
           q == [map |-> mp, list |-> ls, magic |-> p.magic, prev |-> pf, next |-> p.next,
                 trailer |-> p.trailer, free |-> p.free - t]
<1>1. /\ p.map \in SUBSET Block /\ p.list \in [Sizes -> Block \cup {OURNULL}]
      /\ p.magic \in [Block -> BOOLEAN] /\ p.prev \in [Block -> Int]
      /\ p.next \in [Block -> Int] /\ p.trailer \in [Block -> Int] /\ p.free \in Int
      /\ p = [map |-> p.map, list |-> p.list, magic |-> p.magic, prev |-> p.prev,
              next |-> p.next, trailer |-> p.trailer, free |-> p.free]
  BY PoolFields
<1>2. t \in Int /\ OURNULL \in Int /\ OURNULL \notin Block
  BY PowType, Constants
<1>3. Taken(p, k, past) = q
  <2>1. Taken(p, k, past) =
          [p EXCEPT !.prev = pf, !.list = ls, !.map = mp, !.free = p.free - t]
    BY DEF Taken
  <2> HIDE DEF ls, pf, mp
  <2> QED  BY <1>1, <2>1
<1>4. mp \in SUBSET Block
  BY <1>1
<1> HIDE DEF t, mp, nx
<1>5. /\ pf \in [Block -> Int]
      /\ \A a \in Block : pf[a] = IF a = nx THEN OURNULL ELSE p.prev[a]
  BY <1>1, <1>2, Constants DEF Link, nx
<1>6. /\ ls \in [Sizes -> Block \cup {OURNULL}] /\ ls[k] = nx
      /\ \A j \in Sizes : j # k => ls[j] = p.list[j]
  BY <1>1 DEF nx
<1>7. p.free - t \in Int
  BY <1>1, <1>2
<1> HIDE DEF ls, pf
<1>8. q \in PoolType
  BY <1>1, <1>4, <1>5, <1>6, <1>7 DEF PoolType
<1>9. /\ q.map = mp /\ q.free = p.free - t /\ q.list = ls /\ q.magic = p.magic
      /\ q.prev = pf /\ q.next = p.next /\ q.trailer = p.trailer
  OBVIOUS
<1> HIDE DEF q
<1>10. Removed(p, q, i, k)
  BY <1>2, <1>5, <1>6, <1>9 DEF Removed, nx
<1> QED  BY <1>3, <1>8, <1>9, <1>10 DEF mp, t

\* Words that are the same twice.
LEMMA SameTwice ==
  ASSUME NEW p, NEW q, NEW r, NEW S, NEW T, Same(p, q, S), Same(q, r, T), NEW V,
         V \subseteq S, V \subseteq T
  PROVE  Same(p, r, V)
BY DEF Same

\* makeFree writes into its chunk and the head of a free list.
LEMMA MakeFreeSame ==
  ASSUME NEW p \in PoolType, NEW F, F \subseteq Aligned, Listed(p, F),
         NEW i, NEW k, << i, k >> \in Aligned, NEW S, S \subseteq Block,
         S \cap Covered(F) = {}, S \cap Span(i, k) = {}
  PROVE  Same(p, MakeFree(p, i, k), S)
<1> DEFINE q == MakeFree(p, i, k)
           h == p.list[k]
<1>1. i \in Block /\ k \in Sizes /\ i \in Nat /\ k \in Nat
  BY ChunkPair
<1>2. i \in Span(i, k) /\ i + 2^k - 1 \in Span(i, k)
  BY <1>1, SpanFacts
<1>3. i + 2^k - 1 \in Block
  <2>1. Span(i, k) \subseteq Block
    BY ChunkPair
  <2> QED  BY <1>2, <2>1
<1>4. /\ q \in PoolType
      /\ q.list[k] = i /\ \A j \in Sizes : j # k => q.list[j] = p.list[j]
      /\ q.magic[i] /\ \A b \in Block : b # i => q.magic[b] = p.magic[b]
      /\ q.next[i] = h /\ \A b \in Block : b # i => q.next[b] = p.next[b]
      /\ h # i => q.prev[i] = OURNULL
      /\ \A b \in Block : b # i => q.prev[b] = IF b = h THEN i ELSE p.prev[b]
      /\ q.trailer[i + 2^k - 1] = k
      /\ \A b \in Block : b # i + 2^k - 1 => q.trailer[b] = p.trailer[b]
  BY <1>1, <1>3, MakeFreeFields
<1> HIDE DEF q
<1>5. ASSUME NEW b \in S PROVE b # h
  <2> SUFFICES ASSUME b = h PROVE FALSE
    OBVIOUS
  <2>1. h # OURNULL
    BY Constants
  <2>2. << h, k >> \in F
    BY <1>1, <2>1, HeadListed
  <2>3. << h, k >> \in Aligned
    BY <2>2
  <2> HIDE DEF h
  <2>4. h \in Span(h, k)
    <3>1. h \in Nat
      BY <2>3, ChunkPair
    <3> QED  BY <1>1, <3>1, SpanFacts
  <2>5. h \in Covered(F)
    BY <2>2, <2>4, CoveredBy
  <2> QED  BY <2>5
<1>6. ASSUME NEW b \in S PROVE b \in Block /\ b # i /\ b # i + 2^k - 1
  BY <1>2
<1> HIDE DEF h
<1>7. Same(p, q, S)
  BY <1>4, <1>5, <1>6 DEF Same
<1> QED  BY <1>7 DEF q

\* Taking a chunk off its list writes into free chunks only.
LEMMA RemovedSame ==
  ASSUME NEW p, NEW q, NEW F, F \subseteq Aligned, Listed(p, F),
         NEW i, NEW k, << i, k >> \in F, Removed(p, q, i, k),
         NEW S, S \subseteq Block, S \cap Covered(F) = {}
  PROVE  Same(p, q, S)
<1>1. k \in Sizes /\ k \in Nat /\ i \in Nat
  BY ChunkPair
<1>2. ASSUME NEW b, << b, k >> \in F
      PROVE  b \in Covered(F) /\ b + 2^k - 1 \in Covered(F)
  <2>1. b \in Nat
    <3>1. << b, k >> \in Aligned
      BY <1>2
    <3> QED  BY <3>1, ChunkPair
  <2>2. b \in Span(b, k) /\ b + 2^k - 1 \in Span(b, k)
    BY <1>1, <2>1, SpanFacts
  <2> QED  BY <1>2, <2>2, CoveredBy
<1>3. ASSUME NEW b \in S
      PROVE  b \in Block /\ b # i /\ b # i + 2^k - 1
  BY <1>2
<1>4. ASSUME NEW b \in S, b = p.prev[i] \/ b = p.next[i] PROVE FALSE
  <2>1. b # OURNULL
    BY Constants
  <2>2. b \in OfSize(F, k)
    BY <1>4, <2>1, ListedWords
  <2>3. << b, k >> \in F
    BY <2>2 DEF OfSize
  <2> QED  BY <1>2, <2>3
<1> QED  BY <1>3, <1>4 DEF Removed, Same

-----------------------------------------------------------------------------
(* Loops. *)

\* The first n results of a loop whose turns are g, from x on.
Begins(S, x, g, n) ==
  {h \in [0..n -> S] : h[0] = x /\ \A m \in 1..n : h[m] = g[h[m - 1]]}

\* A loop has one sequence of results.
LEMMA Loop ==
  ASSUME NEW S, NEW x \in S, NEW g \in [S -> S]
  PROVE  \E f \in [Nat -> S] : f[0] = x /\ \A n \in Nat : f[n + 1] = g[f[n]]
<1> DEFINE H(n) == Begins(S, x, g, n)
<1>1. \A n \in Nat : \A h \in H(n) : /\ h \in [0..n -> S] /\ h[0] = x
                                     /\ \A m \in Nat : m < n => h[m + 1] = g[h[m]]
  <2> SUFFICES ASSUME NEW n \in Nat, NEW h \in H(n)
               PROVE  /\ h \in [0..n -> S] /\ h[0] = x
                      /\ \A m \in Nat : m < n => h[m + 1] = g[h[m]]
    OBVIOUS
  <2>1. h \in [0..n -> S] /\ h[0] = x /\ \A m \in 1..n : h[m] = g[h[m - 1]]
    BY DEF Begins
  <2>2. ASSUME NEW m \in Nat, m < n PROVE h[m + 1] = g[h[m]]
    <3>1. m + 1 \in 1..n /\ (m + 1) - 1 = m
      BY <2>2
    <3> QED  BY <2>1, <3>1
  <2> QED  BY <2>1, <2>2
<1>2. \A n \in Nat : H(n) # {}
  <2> DEFINE T == {n \in Nat : H(n) # {}}
  <2>1. 0 \in T
    <3>1. [m \in 0..0 |-> x] \in H(0)
      BY DEF Begins
    <3> QED  BY <3>1
  <2>2. \A n \in T : n + 1 \in T
    <3> SUFFICES ASSUME NEW n \in T PROVE n + 1 \in T
      OBVIOUS
    <3>0. n \in Nat
      OBVIOUS
    <3>1. PICK h \in H(n) : TRUE
      OBVIOUS
    <3>2. /\ h \in [0..n -> S] /\ h[0] = x
          /\ \A m \in Nat : m < n => h[m + 1] = g[h[m]]
      BY <1>1, <3>0
    <3> DEFINE k == [m \in 0..(n + 1) |-> IF m = n + 1 THEN g[h[n]] ELSE h[m]]
    <3>3. k \in [0..(n + 1) -> S]
      <4>1. h[n] \in S /\ g[h[n]] \in S
        BY <3>0, <3>2
      <4>2. \A m \in 0..(n + 1) : m # n + 1 => h[m] \in S
        BY <3>0, <3>2
      <4> QED  BY <4>1, <4>2
    <3>4. k[0] = x
      BY <3>0, <3>2
    <3>5. \A m \in 1..(n + 1) : k[m] = g[k[m - 1]]
      <4> SUFFICES ASSUME NEW m \in 1..(n + 1) PROVE k[m] = g[k[m - 1]]
        OBVIOUS
      <4>1. CASE m = n + 1
        <5>1. m - 1 = n /\ k[n] = h[n] /\ k[m] = g[h[n]]
          BY <3>0, <4>1
        <5> QED  BY <5>1
      <4>2. CASE m # n + 1
        <5>1. m - 1 \in Nat /\ m - 1 < n /\ (m - 1) + 1 = m
          BY <3>0, <4>2
        <5>2. h[(m - 1) + 1] = g[h[m - 1]]
          BY <3>2, <5>1
        <5>3. k[m] = h[m] /\ k[m - 1] = h[m - 1]
          BY <3>0, <4>2
        <5> QED  BY <5>1, <5>2, <5>3
      <4> QED  BY <4>1, <4>2
    <3> HIDE DEF k
    <3>6. k \in H(n + 1)
      BY <3>3, <3>4, <3>5, Zenon DEF Begins
    <3>7. n + 1 \in Nat
      BY <3>0
    <3> QED  BY <3>6, <3>7
  <2> HIDE DEF T
  <2>3. T = Nat
    <3>1. T \subseteq Nat
      BY DEF T
    <3> QED  BY <2>1, <2>2, <3>1, SetInduction
  <2> QED  BY <2>3 DEF T
<1> HIDE DEF H
<1>3. \A m \in Nat : \A a, b \in Nat : \A h \in H(a), i \in H(b) :
        m <= a /\ m <= b => h[m] = i[m]
  <2> DEFINE T == {m \in Nat : \A a, b \in Nat : \A h \in H(a), i \in H(b) :
                                 m <= a /\ m <= b => h[m] = i[m]}
  <2>1. 0 \in T
    <3>1. \A a \in Nat : \A h \in H(a) : h[0] = x
      BY <1>1
    <3> QED  BY <3>1
  <2>2. \A m \in T : m + 1 \in T
    <3> SUFFICES ASSUME NEW m \in T, NEW a \in Nat, NEW b \in Nat,
                        NEW h \in H(a), NEW i \in H(b), m + 1 <= a, m + 1 <= b
                 PROVE  h[m + 1] = i[m + 1]
      OBVIOUS
    <3>1. m \in Nat /\ m <= a /\ m <= b /\ m < a /\ m < b
      OBVIOUS
    <3>2. h[m] = i[m]
      BY <3>1
    <3>3. h[m + 1] = g[h[m]]
      BY <1>1, <3>1
    <3>4. i[m + 1] = g[i[m]]
      BY <1>1, <3>1
    <3> QED  BY <3>2, <3>3, <3>4
  <2> HIDE DEF T
  <2>3. T = Nat
    <3>1. T \subseteq Nat
      BY DEF T
    <3> QED  BY <2>1, <2>2, <3>1, SetInduction
  <2> QED  BY <2>3 DEF T
<1> DEFINE c(n) == CHOOSE h \in H(n) : TRUE
           f == [n \in Nat |-> c(n)[n]]
<1>4. \A n \in Nat : c(n) \in H(n)
  BY <1>2
<1> HIDE DEF c
<1>5. \A n \in Nat : c(n)[n] \in S
  <2> SUFFICES ASSUME NEW n \in Nat PROVE c(n)[n] \in S
    OBVIOUS
  <2>1. c(n) \in [0..n -> S]
    BY <1>1, <1>4
  <2>2. n \in 0..n
    OBVIOUS
  <2> QED  BY <2>1, <2>2
<1>6. f \in [Nat -> S]
  BY <1>5
<1>7. f[0] = x
  <2>1. c(0)[0] = x
    BY <1>1, <1>4
  <2> QED  BY <2>1
<1>8. \A n \in Nat : f[n + 1] = g[f[n]]
  <2> SUFFICES ASSUME NEW n \in Nat PROVE f[n + 1] = g[f[n]]
    OBVIOUS
  <2>1. n + 1 \in Nat /\ n < n + 1 /\ n <= n + 1 /\ n <= n
    OBVIOUS
  <2>2. c(n + 1)[n + 1] = g[c(n + 1)[n]]
    BY <1>1, <1>4, <2>1
  <2>3. c(n + 1)[n] = c(n)[n]
    BY <1>3, <1>4, <2>1
  <2> QED  BY <2>1, <2>2, <2>3
<1> HIDE DEF f
<1> QED  BY <1>6, <1>7, <1>8

-----------------------------------------------------------------------------
(* toFree. *)

\* The two inner loops of toFree find the largest size that fits.
LEMMA NextBitsFacts ==
  ASSUME NEW i \in Nat, NEW past \in Nat, i < past, NEW bits \in Sizes
  PROVE  LET j == NextBits(i, past, bits)
         IN  /\ j \in Sizes /\ Fits(i, j, past)
             /\ j < NumSizes - 1 => ~Fits(i, j + 1, past)
<1> DEFINE U == {j \in bits..(NumSizes - 1) :
                   \A m \in (bits + 1)..j : Fits(i, m, past)}
           top == Max(U)
           D == {j \in 0..top : Fits(i, j, past)}
           j == Max(D)
<1>1. bits \in Nat /\ NumSizes \in Nat /\ bits <= NumSizes - 1
  BY Constants
<1>2. U \subseteq Nat /\ bits \in U /\ NumSizes - 1 \in Nat /\ \A y \in U : y <= NumSizes - 1
  BY <1>1
<1>3. top \in U /\ \A y \in U : top >= y
  <2> HIDE DEF U
  <2> QED  BY <1>2, MaxFacts
<1>4. top \in Nat /\ top <= NumSizes - 1 /\ bits <= top
  BY <1>1, <1>3
<1>5. \A m \in (bits + 1)..top : Fits(i, m, past)
  BY <1>3
<1>6. top < NumSizes - 1 => ~Fits(i, top + 1, past)
  <2> SUFFICES ASSUME top < NumSizes - 1, Fits(i, top + 1, past) PROVE FALSE
    OBVIOUS
  <2>1. \A m \in (bits + 1)..(top + 1) : m = top + 1 \/ m \in (bits + 1)..top
    BY <1>1, <1>4
  <2>2. \A m \in (bits + 1)..(top + 1) : Fits(i, m, past)
    BY <1>5, <2>1
  <2>3. top + 1 \in bits..(NumSizes - 1)
    BY <1>1, <1>4
  <2>4. top + 1 \in U
    BY <2>2, <2>3
  <2>5. top >= top + 1
    BY <1>3, <2>4
  <2> QED  BY <1>4, <2>5
<1> HIDE DEF top, U
<1>7. Fits(i, 0, past)
  <2>1. 2^0 = 1 /\ i % 1 = 0
    OBVIOUS
  <2> QED  BY <2>1 DEF Fits
<1>8. D \subseteq Nat /\ 0 \in D /\ \A y \in D : y <= top
  BY <1>4, <1>7
<1>9. j \in D /\ \A y \in D : j >= y
  <2> HIDE DEF D
  <2> QED  BY <1>4, <1>8, MaxFacts
<1> HIDE DEF j
<1>10. j \in 0..top /\ Fits(i, j, past)
  BY <1>9
<1>11. j < NumSizes - 1 => ~Fits(i, j + 1, past)
  <2> SUFFICES ASSUME j < NumSizes - 1, Fits(i, j + 1, past) PROVE FALSE
    OBVIOUS
  <2>1. CASE j = top
    BY <1>6, <2>1
  <2>2. CASE j # top
    <3>1. j + 1 \in 0..top
      BY <1>4, <1>10, <2>2
    <3>2. j + 1 \in D
      BY <3>1
    <3>3. j >= j + 1
      BY <1>9, <3>2
    <3> QED  BY <1>10, <3>3
  <2> QED  BY <2>1, <2>2
<1>12. j \in Sizes
  BY <1>1, <1>4, <1>10, Constants
<1>13. NextBits(i, past, bits) = j
  BY DEF NextBits, j, D, top, U
<1> QED  BY <1>10, <1>11, <1>12, <1>13

\* The chunks of N make up the blocks from first to i - 1 and are the largest that fit.
Cut(N, first, i, past) ==
  /\ N \subseteq Aligned /\ Apart(N) /\ Covered(N) = first..(i - 1)
  /\ \A c \in N : c[2] < NumSizes - 1 => ~Fits(c[1], c[2] + 1, past)

\* The blocks outside of the free chunks and of the run that is freed.
Outside(F, first, past) == Block \ (Covered(F) \cup (first..(past - 1)))

\* Where toFree is after some turns: it has put chunks N onto the lists.
FreedTo(p, F, first, past, s, N) ==
  /\ first <= s.i /\ s.i <= past
  /\ s.pool.map = p.map /\ s.pool.free = p.free + (s.i - first)
  /\ Cut(N, first, s.i, past) /\ Listed(s.pool, F \cup N)
  /\ Same(p, s.pool, Outside(F, first, past))

\* The states of the loop.
FreedStates(p, F, first, past) ==
  {s \in [pool : PoolType, i : Nat, bits : Sizes] :
     \E N \in SUBSET Aligned : FreedTo(p, F, first, past, s, N)}

\* What toFree counts on: the run lies in the pool, and no free chunk overlaps it.
Freeable(p, F, first, past) ==
  /\ p \in PoolType /\ F \subseteq Aligned /\ Apart(F) /\ Listed(p, F)
  /\ first \in Nat /\ past \in Nat /\ first <= past /\ past <= PoolBlocks
  /\ Covered(F) \cap (first..(past - 1)) = {}

\* Sets of chunks that do not overlap one another.
LEMMA ApartUnion ==
  ASSUME NEW A, NEW B, Apart(A), Apart(B), Covered(A) \cap Covered(B) = {}
  PROVE  Apart(A \cup B)
<1> SUFFICES ASSUME NEW c \in A \cup B, NEW d \in A \cup B, c # d
             PROVE  Span(c[1], c[2]) \cap Span(d[1], d[2]) = {}
  BY DEF Apart
<1>1. CASE (c \in A /\ d \in A) \/ (c \in B /\ d \in B)
  BY <1>1 DEF Apart
<1>2. CASE (c \in A /\ d \in B) \/ (c \in B /\ d \in A)
  BY <1>2 DEF Covered
<1> QED  BY <1>1, <1>2

\* The blocks of two sets of chunks.
LEMMA CoveredUnion ==
  ASSUME NEW A, NEW B
  PROVE  Covered(A \cup B) = Covered(A) \cup Covered(B)
BY DEF Covered

\* The blocks of one chunk.
LEMMA CoveredOne ==
  ASSUME NEW i, NEW k
  PROVE  Covered({<< i, k >>}) = Span(i, k)
BY DEF Covered

\* The blocks of one chunk more.
LEMMA CoveredMore ==
  ASSUME NEW C, NEW i, NEW k
  PROVE  Covered(C \cup {<< i, k >>}) = Covered(C) \cup Span(i, k)
<1>1. PICK D : D = {<< i, k >>}
  OBVIOUS
<1>2. Covered(C \cup D) = Covered(C) \cup Covered(D)
  BY CoveredUnion
<1> QED  BY <1>1, <1>2, CoveredOne

\* One chunk does not overlap another.
LEMMA ApartOne == ASSUME NEW c PROVE Apart({c})
BY DEF Apart

\* One turn of toFree frees the next chunk.
LEMMA ToFreeTurnFrees ==
  ASSUME NEW p, NEW F, NEW first, NEW past, Freeable(p, F, first, past),
         NEW s \in FreedStates(p, F, first, past)
  PROVE  /\ ToFreeTurn(s, past) \in FreedStates(p, F, first, past)
         /\ s.i < past => ToFreeTurn(s, past).i > s.i
         /\ s.i >= past => ToFreeTurn(s, past) = s
<1>1. /\ s.pool \in PoolType /\ s.i \in Nat /\ s.bits \in Sizes
      /\ s \in [pool : PoolType, i : Nat, bits : Sizes]
  BY DEF FreedStates
<1>2. PICK N \in SUBSET Aligned : FreedTo(p, F, first, past, s, N)
  BY DEF FreedStates
<1>3. /\ p \in PoolType /\ F \subseteq Aligned /\ Apart(F) /\ Listed(p, F)
      /\ first \in Nat /\ past \in Nat /\ first <= past /\ past <= PoolBlocks
      /\ Covered(F) \cap (first..(past - 1)) = {}
  BY DEF Freeable
<1>4. CASE s.i >= past
  BY <1>1, <1>3, <1>4 DEF ToFreeTurn
<1>5. CASE s.i < past
  <2> DEFINE i == s.i
             j == NextBits(i, past, s.bits)
             q == MakeFree(s.pool, i, j)
             t == [pool |-> q, i |-> i + 2^j, bits |-> j]
             M == N \cup {<< i, j >>}
  <2>1. ToFreeTurn(s, past) = t
    BY <1>1, <1>3, <1>5 DEF ToFreeTurn
  <2>2. /\ j \in Sizes /\ Fits(i, j, past)
        /\ j < NumSizes - 1 => ~Fits(i, j + 1, past)
    BY <1>1, <1>3, <1>5, NextBitsFacts
  <2> HIDE DEF j
  <2>3. j \in Nat /\ j < NumSizes /\ 2^j \in Nat /\ 2^j >= 1
    BY <2>2, Constants, PowType
  <2>4. i + 2^j <= past /\ i % 2^j = 0
    BY <2>2 DEF Fits
  <2>5. << i, j >> \in Aligned
    <3>1. i + 2^j <= PoolBlocks
      BY <1>1, <1>3, <2>3, <2>4, Constants
    <3> QED  BY <1>1, <2>3, <2>4, <3>1, ChunkFacts
  <2>6. /\ first <= i /\ s.pool.map = p.map /\ s.pool.free = p.free + (i - first)
        /\ Cut(N, first, i, past) /\ Listed(s.pool, F \cup N)
        /\ Same(p, s.pool, Outside(F, first, past))
    BY <1>2 DEF FreedTo
  <2>7. /\ N \subseteq Aligned /\ Apart(N) /\ Covered(N) = first..(i - 1)
        /\ \A c \in N : c[2] < NumSizes - 1 => ~Fits(c[1], c[2] + 1, past)
    BY <2>6 DEF Cut
  <2>8. Span(i, j) = i..(i + 2^j - 1)
    BY DEF Span
  <2> HIDE DEF i
  <2>9. i \in Nat /\ first <= i /\ i < past
    BY <1>1, <1>5, <2>6 DEF i
  <2>10. Covered(M) = first..(i + 2^j - 1)
    <3>1. Covered(M) = (first..(i - 1)) \cup (i..(i + 2^j - 1))
      <4>1. Covered(M) = Covered(N) \cup Covered({<< i, j >>})
        BY CoveredUnion, Zenon
      <4>2. Covered({<< i, j >>}) = Span(i, j)
        BY CoveredOne, Zenon
      <4> QED  BY <2>7, <2>8, <4>1, <4>2, Zenon
    <3>2. (first..(i - 1)) \cup (i..(i + 2^j - 1)) = first..(i + 2^j - 1)
      BY <1>3, <2>3, <2>9
    <3> QED  BY <3>1, <3>2
  <2>11. Apart(M)
    <3>1. Covered(N) \cap Covered({<< i, j >>}) = {}
      <4>1. (first..(i - 1)) \cap (i..(i + 2^j - 1)) = {}
        BY <1>3, <2>3, <2>9
      <4> QED  BY <2>7, <2>8, <4>1, CoveredOne
    <3> QED  BY <2>7, <3>1, ApartOne, ApartUnion
  <2>12. Apart(F \cup M)
    <3>1. first..(i + 2^j - 1) \subseteq first..(past - 1)
      BY <1>3, <2>3, <2>4, <2>9
    <3>2. Covered(F) \cap Covered(M) = {}
      BY <1>3, <2>10, <3>1
    <3> HIDE DEF M
    <3> QED  BY <1>3, <2>11, <3>2, ApartUnion
  <2>13. << i, j >> \notin F \cup N
    <3> SUFFICES ASSUME << i, j >> \in F \cup N PROVE FALSE
      OBVIOUS
    <3>1. i \in Span(i, j)
      BY <2>3, <2>9, SpanFacts
    <3>2. i \in Covered(F \cup N)
      BY <3>1 DEF Covered
    <3>3. i \in first..(past - 1) /\ i \notin first..(i - 1)
      BY <1>3, <2>9
    <3>4. i \in Covered(F) \/ i \in Covered(N)
      BY <3>2, CoveredUnion
    <3> QED  BY <1>3, <2>7, <3>3, <3>4
  <2>14. /\ q \in PoolType /\ q.map = s.pool.map /\ q.free = s.pool.free + 2^j
    <3>1. i \in Block /\ i + 2^j - 1 \in Block
      BY <1>3, <2>3, <2>4, <2>9, Constants
    <3> QED  BY <1>1, <2>2, <3>1, MakeFreeFields
  <2>15. Listed(q, F \cup M)
    <3>1. (F \cup N) \cup {<< i, j >>} = F \cup M /\ F \cup N \subseteq Aligned
      BY <1>3, <2>7
    <3> HIDE DEF M
    <3>2. Apart((F \cup N) \cup {<< i, j >>})
      BY <2>12, <3>1
    <3>3. Listed(q, (F \cup N) \cup {<< i, j >>})
      BY <1>1, <2>5, <2>6, <2>13, <3>1, <3>2, MakeFreeListed
    <3> QED  BY <3>1, <3>3
  <2>16. Cut(M, first, i + 2^j, past)
    <3>1. M \subseteq Aligned
      BY <2>5, <2>7
    <3>2. \A c \in M : c[2] < NumSizes - 1 => ~Fits(c[1], c[2] + 1, past)
      BY <2>2, <2>7
    <3> HIDE DEF M
    <3>3. Covered(M) = first..((i + 2^j) - 1)
      <4>1. (i + 2^j) - 1 = i + 2^j - 1
        BY <2>3, <2>9
      <4> QED  BY <2>10, <4>1
    <3> QED  BY <2>11, <3>1, <3>2, <3>3 DEF Cut
  <2> HIDE DEF q, M
  <2>17. FreedTo(p, F, first, past, t, M)
    <3>1. t.i = i + 2^j /\ t.pool = q /\ t.bits = j
      OBVIOUS
    <3>2. q.free = p.free + ((i + 2^j) - first) /\ q.map = p.map
      <4>1. p.free \in Int
        BY <1>3, PoolFields
      <4> QED  BY <1>3, <2>3, <2>6, <2>9, <2>14, <4>1
    <3>3. first <= i + 2^j /\ i + 2^j <= past
      BY <1>3, <2>3, <2>4, <2>9
    <3>4. Same(p, q, Outside(F, first, past))
      <4>1. PICK S : S = Outside(F, first, past)
        OBVIOUS
      <4>2. /\ i..(i + 2^j - 1) \subseteq first..(past - 1)
            /\ first..(i - 1) \subseteq first..(past - 1)
        BY <1>3, <2>3, <2>4, <2>9
      <4>3. Covered(F \cup N) = Covered(F) \cup Covered(N)
        BY CoveredUnion
      <4>4. /\ S \subseteq Block /\ S \cap Covered(F \cup N) = {} /\ S \cap Span(i, j) = {}
        BY <2>7, <2>8, <4>1, <4>2, <4>3 DEF Outside
      <4>5. F \cup N \subseteq Aligned
        BY <1>3, <2>7
      <4>6. Same(s.pool, q, S)
        BY <1>1, <2>5, <2>6, <4>4, <4>5, MakeFreeSame DEF q
      <4> QED  BY <2>6, <4>1, <4>6, SameTwice
    <3> HIDE DEF t
    <3> QED  BY <2>15, <2>16, <3>1, <3>2, <3>3, <3>4 DEF FreedTo
  <2>18. M \in SUBSET Aligned
    BY <2>16 DEF Cut
  <2>19. t \in [pool : PoolType, i : Nat, bits : Sizes]
    BY <2>2, <2>3, <2>9, <2>14
  <2>20. t.i > s.i
    BY <2>3, <2>9 DEF i
  <2> HIDE DEF t
  <2>21. t \in FreedStates(p, F, first, past)
    BY <2>17, <2>18, <2>19 DEF FreedStates
  <2> QED  BY <1>3, <1>5, <2>1, <2>9, <2>20, <2>21 DEF i
<1> QED  BY <1>1, <1>3, <1>4, <1>5

\* toFree puts the whole run onto the lists.
LEMMA ToFreeFrees ==
  ASSUME NEW p, NEW F, NEW first, NEW past, Freeable(p, F, first, past)
  PROVE  LET q == ToFree(p, first, past)
         IN  /\ q \in PoolType /\ q.map = p.map /\ q.free = p.free + (past - first)
             /\ Same(p, q, Outside(F, first, past))
             /\ \E N \in SUBSET Aligned : Cut(N, first, past, past) /\ Listed(q, F \cup N)
<1> DEFINE S == FreedStates(p, F, first, past)
           x == [pool |-> p, i |-> first, bits |-> 0]
           g == [s \in S |-> ToFreeTurn(s, past)]
           Is(f) == f = [n \in Nat |-> IF n = 0 THEN x ELSE ToFreeTurn(f[n - 1], past)]
           f == CHOOSE f : Is(f)
<1>1. /\ p \in PoolType /\ F \subseteq Aligned /\ Apart(F) /\ Listed(p, F)
      /\ first \in Nat /\ past \in Nat /\ first <= past /\ past <= PoolBlocks
      /\ Covered(F) \cap (first..(past - 1)) = {}
  BY DEF Freeable
<1>2. x \in S
  <2>1. Cut({}, first, first, past)
    <3>1. Covered({}) = {} /\ Apart({}) /\ {} \subseteq Aligned
      BY DEF Covered, Apart
    <3>2. first..(first - 1) = {}
      BY <1>1
    <3> QED  BY <3>1, <3>2 DEF Cut
  <2>2. Listed(p, F \cup {})
    <3>1. F \cup {} = F
      OBVIOUS
    <3> QED  BY <1>1, <3>1
  <2>3. p.free + (first - first) = p.free
    BY <1>1, PoolFields
  <2>4. x.i = first /\ x.pool = p
    OBVIOUS
  <2>5. x \in [pool : PoolType, i : Nat, bits : Sizes]
    BY <1>1, Constants
  <2> HIDE DEF x
  <2>6. FreedTo(p, F, first, past, x, {})
    BY <1>1, <2>1, <2>2, <2>3, <2>4 DEF FreedTo, Same
  <2>7. {} \in SUBSET Aligned
    OBVIOUS
  <2> QED  BY <2>5, <2>6, <2>7 DEF FreedStates
<1>3. ASSUME NEW s \in S
      PROVE  /\ ToFreeTurn(s, past) \in S
             /\ s.i < past => ToFreeTurn(s, past).i > s.i
             /\ s.i >= past => ToFreeTurn(s, past) = s
  BY ToFreeTurnFrees
<1>4. ASSUME NEW s \in S PROVE s.i \in Nat /\ s.i <= past
  BY DEF FreedStates, FreedTo
<1>5. ToFree(p, first, past) = f[past - first].pool
  BY DEF ToFree
<1> HIDE DEF S, x
<1>6. Is(f)
  <2>1. g \in [S -> S]
    BY <1>3
  <2> HIDE DEF g
  <2>2. PICK h \in [Nat -> S] : h[0] = x /\ \A n \in Nat : h[n + 1] = g[h[n]]
    BY <1>2, <2>1, Loop
  <2>3. \A n \in Nat : h[n] = IF n = 0 THEN x ELSE ToFreeTurn(h[n - 1], past)
    <3> SUFFICES ASSUME NEW n \in Nat, n # 0 PROVE h[n] = ToFreeTurn(h[n - 1], past)
      BY <2>2
    <3>1. n - 1 \in Nat /\ (n - 1) + 1 = n
      OBVIOUS
    <3>2. h[n] = g[h[n - 1]] /\ h[n - 1] \in S
      BY <2>2, <3>1
    <3> QED  BY <3>2 DEF g
  <2>4. h = [n \in Nat |-> IF n = 0 THEN x ELSE ToFreeTurn(h[n - 1], past)]
    BY <2>3
  <2> QED  BY <2>4
<1> HIDE DEF f
<1>7. f[0] = x /\ \A n \in Nat : f[n + 1] = ToFreeTurn(f[n], past)
  <2>1. \A n \in Nat : f[n] = IF n = 0 THEN x ELSE ToFreeTurn(f[n - 1], past)
    BY <1>6
  <2>2. f[0] = x
    BY <2>1
  <2>3. ASSUME NEW n \in Nat PROVE f[n + 1] = ToFreeTurn(f[n], past)
    <3>1. n + 1 \in Nat /\ n + 1 # 0 /\ (n + 1) - 1 = n
      OBVIOUS
    <3> QED  BY <2>1, <3>1
  <2> QED  BY <2>2, <2>3
<1> DEFINE T == {n \in Nat : f[n] \in S /\ (f[n].i >= past \/ f[n].i >= first + n)}
<1>8. 0 \in T
  <2>1. f[0].i = first
    BY <1>7 DEF x
  <2> QED  BY <1>1, <1>2, <1>7, <2>1
<1>9. \A n \in T : n + 1 \in T
  <2> SUFFICES ASSUME NEW n \in T PROVE n + 1 \in T
    OBVIOUS
  <2>1. n \in Nat /\ f[n] \in S /\ (f[n].i >= past \/ f[n].i >= first + n)
    OBVIOUS
  <2>2. PICK s \in S : s = f[n]
    BY <2>1
  <2>3. PICK t : t = ToFreeTurn(s, past)
    OBVIOUS
  <2>4. f[n + 1] = t
    BY <1>7, <2>1, <2>2, <2>3
  <2>5. t \in S /\ (s.i < past => t.i > s.i) /\ (s.i >= past => t = s)
    BY <1>3, <2>3
  <2>6. t.i >= past \/ t.i >= first + (n + 1)
    BY <1>1, <1>4, <2>1, <2>2, <2>5
  <2> QED  BY <2>1, <2>4, <2>5, <2>6
<1>10. past - first \in T
  <2>1. T \subseteq Nat
    OBVIOUS
  <2>2. past - first \in Nat
    BY <1>1
  <2> HIDE DEF T
  <2>3. T = Nat
    BY <1>8, <1>9, <2>1, SetInduction
  <2> QED  BY <2>2, <2>3
<1>11. PICK s \in S : s = f[past - first]
  BY <1>10
<1>12. s.i = past
  BY <1>1, <1>4, <1>10, <1>11
<1>13. s.pool \in PoolType /\ \E N \in SUBSET Aligned : FreedTo(p, F, first, past, s, N)
  BY DEF FreedStates, S
<1> QED  BY <1>5, <1>11, <1>12, <1>13 DEF FreedTo

\* The chunks toFree makes have no buddies among them: the two would have fitted as one.
LEMMA CutNoBuddies ==
  ASSUME NEW N, NEW first \in Nat, NEW past \in Nat, Cut(N, first, past, past),
         NEW c \in N, c[2] < NumSizes - 1
  PROVE  << Buddy(c[1], c[2]), c[2] >> \notin N
<1> SUFFICES ASSUME << Buddy(c[1], c[2]), c[2] >> \in N PROVE FALSE
  OBVIOUS
<1> DEFINE x == c[1]
           k == c[2]
           b == Buddy(x, k)
<1>1. PICK d \in N : d = << b, k >>
  OBVIOUS
<1>2. /\ N \subseteq Aligned /\ Covered(N) = first..(past - 1)
      /\ \A e \in N : e[2] < NumSizes - 1 => ~Fits(e[1], e[2] + 1, past)
  BY DEF Cut
<1>3. x \in Nat /\ k \in Nat /\ x % 2^k = 0
  BY <1>2, ChunkPair
<1>4. /\ b \in Nat
      /\ \/ b = x + 2^k /\ x % 2^(k + 1) = 0
         \/ x = b + 2^k /\ b % 2^(k + 1) = 0
  BY <1>3, BuddyFacts
<1>5. 2^k \in Nat /\ 2^k >= 1 /\ 2^(k + 1) = 2^k + 2^k
  BY <1>3, PowType, PowNext
<1>6. ~Fits(x, k + 1, past) /\ ~Fits(b, k + 1, past)
  <2>1. d[1] = b /\ d[2] = k
    BY <1>1
  <2> QED  BY <1>1, <1>2, <2>1
<1>7. x + 2^k <= past /\ b + 2^k <= past
  <2>1. x + 2^k - 1 \in Span(x, k) /\ b + 2^k - 1 \in Span(b, k)
    BY <1>3, <1>4, SpanFacts
  <2>2. x + 2^k - 1 \in Covered(N)
    BY <2>1, CoveredBy
  <2>3. b + 2^k - 1 \in Covered(N)
    <3>1. d[1] = b /\ d[2] = k
      BY <1>1
    <3> QED  BY <1>1, <2>1, <3>1, CoveredBy
  <2> HIDE DEF x, b, k
  <2> QED  BY <1>2, <1>3, <1>4, <1>5, <2>2, <2>3
<1> HIDE DEF x, b, k
<1> QED  BY <1>3, <1>4, <1>5, <1>6, <1>7 DEF Fits

-----------------------------------------------------------------------------
(* A sound pool, and a pool with a hole. *)

\* No two chunks of F are buddies.
NoBuddies(F) ==
  \A c \in F : c[2] < NumSizes - 1 => << Buddy(c[1], c[2]), c[2] >> \notin F

\* The last blocks of chunks.
Ends(L) == {c[1] + 2^c[2] - 1 : c \in L}

\* Chunks L are in use, chunks F free, and U was never released.
Split(L, F, U) ==
  /\ L \subseteq Aligned /\ F \subseteq Aligned /\ L \cap F = {} /\ Apart(L \cup F)
  /\ U \subseteq Block /\ U \cap Covered(L \cup F) = {}

\* The bit map, the count of free blocks and the free lists say so, and the pool has no rest.
Sound(p, L, F, U) ==
  /\ p \in PoolType /\ Split(L, F, U) /\ U \cup Covered(L \cup F) = Block
  /\ p.map = U \cup Ends(L) /\ p.free = Cardinality(Covered(F))
  /\ Listed(p, F) /\ NoBuddies(F)

\* The chunk of size k at x is neither in use nor free.
Hole(p, L, F, U, x, k) ==
  /\ p \in PoolType /\ Split(L, F, U)
  /\ << x, k >> \in Aligned /\ Span(x, k) \cap Covered(L \cup F) = {}
  /\ U \cap Span(x, k) = {} /\ U \cup Covered(L \cup F) \cup Span(x, k) = Block
  /\ Listed(p, F) /\ NoBuddies(F)

\* Blocks are finitely many.
LEMMA BlocksFinite ==
  ASSUME NEW S, S \subseteq Block
  PROVE  IsFiniteSet(S) /\ Cardinality(S) \in Nat /\ Cardinality(S) <= PoolBlocks
<1>1. PoolBlocks \in Nat
  BY Constants
<1>2. IsFiniteSet(Block) /\ Cardinality(Block) = PoolBlocks
  <2>1. IsFiniteSet(0..(PoolBlocks - 1)) /\ Cardinality(0..(PoolBlocks - 1)) = PoolBlocks
    BY <1>1, FS_Interval
  <2> QED  BY <2>1 DEF Block
<1> QED  BY <1>2, FS_Subset, FS_CardinalityType

\* A span of size k has 2^k blocks.
LEMMA SpanSize ==
  ASSUME NEW x \in Nat, NEW k \in Nat
  PROVE  IsFiniteSet(Span(x, k)) /\ Cardinality(Span(x, k)) = 2^k
<1>1. 2^k \in Nat /\ 2^k >= 1
  BY PowType
<1>2. x + 2^k - 1 \in Int
  BY <1>1
<1>3. /\ IsFiniteSet(x..(x + 2^k - 1))
      /\ Cardinality(x..(x + 2^k - 1)) = IF x > x + 2^k - 1 THEN 0 ELSE (x + 2^k - 1) - x + 1
  BY <1>2, FS_Interval
<1>4. Cardinality(x..(x + 2^k - 1)) = 2^k
  BY <1>1, <1>3
<1> QED  BY <1>3, <1>4 DEF Span

\* Chunks lie in the pool.
LEMMA CoveredInPool ==
  ASSUME NEW C, C \subseteq Aligned
  PROVE  Covered(C) \subseteq Block
<1>1. \A c \in C : Span(c[1], c[2]) \subseteq Block
  BY ChunkPair
<1> QED  BY <1>1 DEF Covered

\* No block is in a chunk in use and in a free one.
LEMMA SplitBlocks ==
  ASSUME NEW L, NEW F, NEW U, Split(L, F, U)
  PROVE  Covered(L) \subseteq Block /\ Covered(L) \cap Covered(F) = {}
<1>1. L \subseteq Aligned /\ L \cap F = {} /\ Apart(L \cup F)
  BY DEF Split
<1>2. ASSUME NEW z \in Covered(L), z \in Covered(F) PROVE FALSE
  <2>1. PICK d \in L : z \in Span(d[1], d[2])
    BY CoveredBy
  <2>2. PICK f \in F : z \in Span(f[1], f[2])
    BY <1>2, CoveredBy
  <2> QED  BY <1>1, <2>1, <2>2 DEF Apart
<1> QED  BY <1>1, <1>2, CoveredInPool

\* Disjoint sets of blocks.
LEMMA AddSizes ==
  ASSUME NEW A, NEW B, A \subseteq Block, B \subseteq Block, A \cap B = {}
  PROVE  Cardinality(A \cup B) = Cardinality(A) + Cardinality(B)
<1>1. IsFiniteSet(A) /\ IsFiniteSet(B) /\ Cardinality(A) \in Nat /\ Cardinality(B) \in Nat
  BY BlocksFinite
<1>2. Cardinality(A \cap B) = 0
  BY FS_EmptySet
<1>3. Cardinality(A \cup B) = Cardinality(A) + Cardinality(B) - Cardinality(A \cap B)
  BY <1>1, FS_Union
<1> QED  BY <1>1, <1>2, <1>3

\* One chunk less.
LEMMA CoveredLess ==
  ASSUME NEW C, C \subseteq Aligned, Apart(C), NEW c \in C
  PROVE  /\ Covered(C) = Covered(C \ {c}) \cup Span(c[1], c[2])
         /\ Covered(C \ {c}) \cap Span(c[1], c[2]) = {}
<1>1. Covered(C) = Covered(C \ {c}) \cup Span(c[1], c[2])
  BY DEF Covered
<1>2. \A d \in C \ {c} : Span(d[1], d[2]) \cap Span(c[1], c[2]) = {}
  BY Zenon DEF Apart
<1>3. Covered(C \ {c}) \cap Span(c[1], c[2]) = {}
  BY <1>2 DEF Covered
<1> QED  BY <1>1, <1>3

\* Some of the chunks of a set without overlaps.
LEMMA ApartSubset ==
  ASSUME NEW C, Apart(C), NEW D, D \subseteq C
  PROVE  Apart(D)
BY DEF Apart

\* The buddy of a chunk that is a proper part of another one lies in that one too.
LEMMA BuddyInside ==
  ASSUME NEW y \in Nat, NEW j \in Nat, NEW x \in Nat, NEW k \in Nat, j < k,
         y % 2^j = 0, x % 2^k = 0, Span(y, j) \cap Span(x, k) # {}
  PROVE  Span(Buddy(y, j), j) \subseteq Span(x, k)
<1> DEFINE b == Buddy(y, j)
           m == Min({y, b})
<1>1. /\ m \in Nat /\ m % 2^(j + 1) = 0
      /\ Span(m, j + 1) = Span(y, j) \cup Span(b, j)
  BY BuddySpans
<1>2. j + 1 \in Nat /\ j + 1 <= k
  OBVIOUS
<1> HIDE DEF m, b
<1>3. Span(m, j + 1) \cap Span(x, k) # {}
  BY <1>1
<1>4. Span(m, j + 1) \subseteq Span(x, k)
  BY <1>1, <1>2, <1>3, ChunksNested
<1> QED  BY <1>1, <1>4 DEF b

\* A chunk taken off its list leaves a hole.
LEMMA TakeHole ==
  ASSUME NEW p, NEW L, NEW F, NEW U, Sound(p, L, F, U), NEW x, NEW k, << x, k >> \in F,
         NEW q \in PoolType, Removed(p, q, x, k)
  PROVE  \E G : Hole(q, L, G, U, x, k) /\ Cardinality(Covered(G)) = p.free - 2^k
<1>1. PICK c \in F : c = << x, k >>
  OBVIOUS
<1>2. c[1] = x /\ c[2] = k
  BY <1>1
<1> DEFINE G == F \ {c}
<1>3. /\ L \subseteq Aligned /\ F \subseteq Aligned /\ L \cap F = {} /\ Apart(L \cup F)
      /\ U \subseteq Block /\ U \cap Covered(L \cup F) = {}
      /\ U \cup Covered(L \cup F) = Block
      /\ p.free = Cardinality(Covered(F)) /\ Listed(p, F) /\ NoBuddies(F)
  BY DEF Sound, Split
<1>4. Apart(F)
  BY <1>3, ApartSubset
<1>5. Listed(q, G)
  BY <1>1, <1>3, <1>4, RemovedListed
<1>6. NoBuddies(G)
  BY <1>3 DEF NoBuddies
<1>7. L \cup G = (L \cup F) \ {c}
  BY <1>3
<1>8. /\ Covered(L \cup F) = Covered(L \cup G) \cup Span(x, k)
      /\ Covered(L \cup G) \cap Span(x, k) = {}
  <2>1. L \cup F \subseteq Aligned /\ c \in L \cup F
    BY <1>3
  <2> QED  BY <1>2, <1>3, <1>7, <2>1, CoveredLess
<1>9. Apart(L \cup G)
  BY <1>3, <1>7, ApartSubset
<1>10. Hole(q, L, G, U, x, k)
  <2>1. L \subseteq Aligned /\ G \subseteq Aligned /\ L \cap G = {} /\ << x, k >> \in Aligned
    BY <1>1, <1>3
  <2> HIDE DEF G
  <2>2. /\ U \cap Covered(L \cup G) = {} /\ U \cap Span(x, k) = {}
        /\ U \cup Covered(L \cup G) \cup Span(x, k) = Block
        /\ Span(x, k) \cap Covered(L \cup G) = {}
    BY <1>3, <1>8
  <2> QED  BY <1>3, <1>5, <1>6, <1>9, <2>1, <2>2 DEF Hole, Split
<1>11. Cardinality(Covered(G)) = p.free - 2^k
  <2>1. /\ Covered(F) = Covered(G) \cup Span(x, k)
        /\ Covered(G) \cap Span(x, k) = {}
    BY <1>2, <1>3, <1>4, CoveredLess
  <2>2. Covered(G) \subseteq Block /\ Span(x, k) \subseteq Block /\ x \in Nat /\ k \in Nat
    BY <1>2, <1>3, ChunkPair, CoveredInPool
  <2> HIDE DEF G
  <2>3. Cardinality(Covered(F)) = Cardinality(Covered(G)) + Cardinality(Span(x, k))
    BY <2>1, <2>2, AddSizes
  <2>4. Cardinality(Span(x, k)) = 2^k /\ 2^k \in Nat /\ Cardinality(Covered(G)) \in Nat
    BY <2>2, SpanSize, PowType, BlocksFinite
  <2> QED  BY <1>3, <2>3, <2>4
<1> QED  BY <1>10, <1>11

\* The bit map has the ends of the chunks L and what was never released.
Marks(q, L, U) == q.map = U \cup Ends(L)

\* Free has cleared the bit at the end of chunk c.
Cleared(p, q, F, c) ==
  q \in PoolType /\ Listed(q, F) /\ q.map = p.map \ {c[1] + 2^c[2] - 1}

\* A chunk no longer in use leaves a hole.
LEMMA FreeHole ==
  ASSUME NEW p, NEW L, NEW F, NEW U, Sound(p, L, F, U), NEW c \in L,
         NEW q, Cleared(p, q, F, c)
  PROVE  /\ Hole(q, L \ {c}, F, U, c[1], c[2])
         /\ Marks(q, L \ {c}, U)
<1>0. PICK M : M = L \ {c}
  OBVIOUS
<1>1. PICK e : e = c[1] + 2^c[2] - 1
  OBVIOUS
<1>2. q \in PoolType /\ Listed(q, F) /\ q.map = p.map \ {e}
  BY <1>1 DEF Cleared
<1>3. /\ L \subseteq Aligned /\ F \subseteq Aligned /\ L \cap F = {} /\ Apart(L \cup F)
      /\ U \subseteq Block /\ U \cap Covered(L \cup F) = {}
      /\ U \cup Covered(L \cup F) = Block
      /\ NoBuddies(F) /\ p.map = U \cup Ends(L)
  BY DEF Sound, Split
<1>4. M \cup F = (L \cup F) \ {c}
  BY <1>0, <1>3
<1>5. /\ Covered(L \cup F) = Covered(M \cup F) \cup Span(c[1], c[2])
      /\ Covered(M \cup F) \cap Span(c[1], c[2]) = {}
  <2>1. L \cup F \subseteq Aligned /\ c \in L \cup F
    BY <1>3
  <2> QED  BY <1>3, <1>4, <2>1, CoveredLess
<1>6. Apart(M \cup F)
  BY <1>3, <1>4, ApartSubset
<1>7. M \subseteq Aligned /\ M \cap F = {} /\ c \in Aligned /\ << c[1], c[2] >> \in Aligned
  BY <1>0, <1>3, ChunkPair
<1>8. Hole(q, M, F, U, c[1], c[2])
  <2>1. /\ U \cap Covered(M \cup F) = {} /\ U \cap Span(c[1], c[2]) = {}
        /\ U \cup Covered(M \cup F) \cup Span(c[1], c[2]) = Block
        /\ Span(c[1], c[2]) \cap Covered(M \cup F) = {}
    BY <1>3, <1>5
  <2> QED  BY <1>2, <1>3, <1>6, <1>7, <2>1 DEF Hole, Split
<1>9. U \cup Ends(M) = p.map \ {e}
  <2>1. Ends(L) = Ends(M) \cup {e}
    BY <1>0, <1>1 DEF Ends
  <2>2. e \notin Ends(M)
    <3> SUFFICES ASSUME NEW d \in M, d[1] + 2^d[2] - 1 = e PROVE FALSE
      BY DEF Ends
    <3>1. d # c /\ d \in L /\ Apart(L)
      BY <1>0, <1>3, ApartSubset
    <3> QED  BY <1>1, <1>3, <3>1, ApartEnds
  <2>3. e \notin U
    <3>1. e \in Span(c[1], c[2])
      BY <1>1, <1>7, ChunkPair, SpanFacts
    <3> QED  BY <1>3, <1>5, <3>1
  <2> QED  BY <1>3, <2>1, <2>2, <2>3
<1> QED  BY <1>0, <1>2, <1>8, <1>9 DEF Marks

\* Chunks that cover different blocks are different.
LEMMA ApartDiffer ==
  ASSUME NEW A, NEW B, A \subseteq Aligned, Covered(A) \cap Covered(B) = {}
  PROVE  A \cap B = {}
<1> SUFFICES ASSUME NEW c \in A, c \in B PROVE FALSE
  OBVIOUS
<1>1. c[1] \in Span(c[1], c[2])
  BY ChunkPair, SpanFacts
<1> QED  BY <1>1, CoveredBy

\* Chunks M and N make up the chunk of size k at x.
Fills(M, N, x, k) ==
  /\ M \subseteq Aligned /\ N \subseteq Aligned /\ M \cap N = {}
  /\ Apart(M \cup N) /\ Covered(M \cup N) = Span(x, k)

\* Chunks L and F, and the blocks of U, are all of the pool.
Whole(L, F, U) == Split(L, F, U) /\ U \cup Covered(L \cup F) = Block

\* A hole filled with chunks in use and free chunks.
LEMMA FillHole ==
  ASSUME NEW p, NEW L, NEW F, NEW U, NEW x, NEW k, Hole(p, L, F, U, x, k),
         NEW M, NEW N, Fills(M, N, x, k)
  PROVE  Whole(L \cup M, F \cup N, U)
<1>0. /\ M \subseteq Aligned /\ N \subseteq Aligned /\ M \cap N = {}
      /\ Apart(M \cup N) /\ Covered(M \cup N) = Span(x, k)
  BY DEF Fills
<1>1. /\ L \subseteq Aligned /\ F \subseteq Aligned /\ L \cap F = {} /\ Apart(L \cup F)
      /\ U \subseteq Block /\ U \cap Covered(L \cup F) = {}
      /\ Span(x, k) \cap Covered(L \cup F) = {}
      /\ U \cap Span(x, k) = {} /\ U \cup Covered(L \cup F) \cup Span(x, k) = Block
  BY DEF Hole, Split
<1>2. (L \cup M) \cup (F \cup N) = (L \cup F) \cup (M \cup N)
  OBVIOUS
<1>3. Covered((L \cup F) \cup (M \cup N)) = Covered(L \cup F) \cup Span(x, k)
  <2>1. Covered((L \cup F) \cup (M \cup N)) = Covered(L \cup F) \cup Covered(M \cup N)
    BY CoveredUnion
  <2> QED  BY <1>0, <2>1
<1>4. Apart((L \cup M) \cup (F \cup N))
  <2>1. Covered(L \cup F) \cap Covered(M \cup N) = {}
    BY <1>0, <1>1
  <2>2. Apart((L \cup F) \cup (M \cup N))
    BY <1>0, <1>1, <2>1, ApartUnion
  <2> QED  BY <1>2, <2>2
<1>5. (L \cup F) \cap (M \cup N) = {}
  <2>1. Covered(L \cup F) \cap Covered(M \cup N) = {}
    BY <1>0, <1>1
  <2>2. L \cup F \subseteq Aligned
    BY <1>1
  <2> QED  BY <2>1, <2>2, ApartDiffer
<1>6. (L \cup M) \cap (F \cup N) = {}
  BY <1>0, <1>1, <1>5
<1>7. /\ U \cap Covered((L \cup M) \cup (F \cup N)) = {}
      /\ U \cup Covered((L \cup M) \cup (F \cup N)) = Block
  BY <1>1, <1>2, <1>3
<1>8. L \cup M \subseteq Aligned /\ F \cup N \subseteq Aligned
  BY <1>0, <1>1
<1> QED  BY <1>1, <1>4, <1>6, <1>7, <1>8 DEF Split, Whole

\* Two sets of chunks without buddies in either or across.
LEMMA BuddiesApart ==
  ASSUME NEW F, F \subseteq Aligned, NoBuddies(F), NEW N, NoBuddies(N),
         \A c \in N, d \in F :
           ~(c[2] < NumSizes - 1 /\ d[2] = c[2] /\ d[1] = Buddy(c[1], c[2]))
  PROVE  NoBuddies(F \cup N)
<1>1. ASSUME NEW c \in F \cup N, c[2] < NumSizes - 1,
             << Buddy(c[1], c[2]), c[2] >> \in F \cup N
      PROVE  FALSE
  <2>1. PICK d \in F \cup N : d = << Buddy(c[1], c[2]), c[2] >>
    BY <1>1
  <2>2. d[1] = Buddy(c[1], c[2]) /\ d[2] = c[2]
    BY <2>1
  <2>3. CASE c \in N /\ d \in N
    BY <1>1, <2>1, <2>3 DEF NoBuddies
  <2>4. CASE c \in F /\ d \in F
    BY <1>1, <2>1, <2>4 DEF NoBuddies
  <2>5. CASE c \in N /\ d \in F
    BY <1>1, <2>2, <2>5
  <2>6. CASE c \in F /\ d \in N
    <3>1. c[1] \in Nat /\ c[2] \in Nat /\ c[1] % 2^c[2] = 0
      BY <2>6, ChunkPair
    <3>2. Buddy(d[1], d[2]) = c[1]
      BY <2>2, <3>1, BuddyFacts
    <3> QED  BY <1>1, <2>2, <2>6, <3>2
  <2> QED  BY <2>1, <2>3, <2>4, <2>5, <2>6
<1> QED  BY <1>1 DEF NoBuddies

\* Chunks cut from a hole have no buddies outside of it.
LEMMA CutBuddies ==
  ASSUME NEW F, F \subseteq Aligned, NoBuddies(F), NEW x \in Nat, NEW k \in Nat,
         x % 2^k = 0, Span(x, k) \cap Covered(F) = {},
         NEW first \in Nat, NEW past \in Nat, x < first, past <= x + 2^k,
         NEW N, Cut(N, first, past, past)
  PROVE  NoBuddies(F \cup N)
<1>1. N \subseteq Aligned /\ Covered(N) = first..(past - 1)
  BY DEF Cut
<1>2. 2^k \in Nat /\ 2^k >= 1
  BY PowType
<1>3. Covered(N) \subseteq Span(x, k)
  <2>1. \A z : z \in Span(x, k) <=> z \in Nat /\ x <= z /\ z < x + 2^k
    BY SpanFacts
  <2> QED  BY <1>1, <1>2, <2>1
<1>4. ASSUME NEW c \in N, NEW d \in F, d[2] = c[2], d[1] = Buddy(c[1], c[2]) PROVE FALSE
  <2> DEFINE y == c[1]
             j == c[2]
  <2>1. y \in Nat /\ j \in Nat /\ y % 2^j = 0
    BY <1>1, ChunkPair
  <2>2. Span(y, j) \subseteq Covered(N)
    BY CoveredBy
  <2>3. j < k
    <3> SUFFICES ASSUME j >= k PROVE FALSE
      BY <2>1
    <3>1. 2^j >= 2^k /\ 2^j \in Nat
      BY <2>1, PowGrows, PowType
    <3>2. y \in Span(y, j) /\ y + 2^j - 1 \in Span(y, j)
      BY <2>1, SpanFacts
    <3>3. y \in first..(past - 1) /\ y + 2^j - 1 \in first..(past - 1)
      BY <1>1, <2>2, <3>2
    <3> HIDE DEF y, j
    <3> QED  BY <1>2, <2>1, <3>1, <3>3
  <2>4. Span(y, j) \cap Span(x, k) # {}
    <3>1. y \in Span(y, j)
      BY <2>1, SpanFacts
    <3> QED  BY <1>3, <2>2, <3>1
  <2>5. Span(Buddy(y, j), j) \subseteq Span(x, k)
    BY <2>1, <2>3, <2>4, BuddyInside
  <2>6. Span(d[1], d[2]) \subseteq Span(x, k)
    BY <1>4, <2>5
  <2>7. d[1] \in Span(d[1], d[2])
    BY ChunkPair, SpanFacts
  <2>8. d[1] \in Covered(F)
    BY <2>7, CoveredBy
  <2> QED  BY <2>6, <2>7, <2>8
<1>5. NoBuddies(N)
  BY CutNoBuddies DEF NoBuddies
<1> QED  BY <1>4, <1>5, BuddiesApart

\* The blocks of a run that is cut into free chunks.
LEMMA CutSize ==
  ASSUME NEW F, F \subseteq Aligned, NEW N, N \subseteq Aligned,
         Covered(F) \cap Covered(N) = {},
         NEW first \in Nat, NEW past \in Nat, first <= past, Covered(N) = first..(past - 1)
  PROVE  Cardinality(Covered(F \cup N)) = Cardinality(Covered(F)) + (past - first)
<1>1. Covered(F \cup N) = Covered(F) \cup Covered(N)
  BY CoveredUnion
<1>2. Covered(F) \subseteq Block /\ Covered(N) \subseteq Block
  BY CoveredInPool
<1>3. Cardinality(Covered(F) \cup Covered(N)) =
        Cardinality(Covered(F)) + Cardinality(Covered(N))
  BY <1>2, AddSizes
<1>4. Cardinality(first..(past - 1)) = past - first
  <2>1. past - 1 \in Int
    OBVIOUS
  <2>2. Cardinality(first..(past - 1)) =
          IF first > past - 1 THEN 0 ELSE (past - 1) - first + 1
    BY <2>1, FS_Interval
  <2> QED  BY <2>2
<1> QED  BY <1>1, <1>3, <1>4

\* The first part of a hole goes into use, and the rest is freed.
LEMMA Carve ==
  ASSUME NEW p, NEW L, NEW F, NEW U, NEW x, NEW k, Hole(p, L, F, U, x, k),
         NEW bits \in Nat, bits <= k,
         p.map = U \cup Ends(L \cup {<< x, bits >>}), p.free = Cardinality(Covered(F))
  PROVE  LET q == ToFree(p, x + 2^bits, x + 2^k)
         IN  /\ Same(p, q, Covered(L \cup {<< x, bits >>}))
             /\ \E G : Sound(q, L \cup {<< x, bits >>}, G, U)
<1> DEFINE first == x + 2^bits
           past == x + 2^k
           c == << x, bits >>
           q == ToFree(p, first, past)
<1>1. /\ p \in PoolType /\ L \subseteq Aligned /\ F \subseteq Aligned /\ Apart(L \cup F)
      /\ << x, k >> \in Aligned /\ Span(x, k) \cap Covered(L \cup F) = {}
      /\ Listed(p, F) /\ NoBuddies(F)
  BY DEF Hole, Split
<1>2. /\ x \in Nat /\ k \in Nat /\ k < NumSizes /\ past <= PoolBlocks /\ x % 2^k = 0
  BY <1>1, ChunkFacts
<1>3. /\ 2^k \in Nat /\ 2^bits \in Nat /\ 2^bits >= 1 /\ 2^bits <= 2^k
  BY <1>2, PowType, PowGrows
<1>4. c \in Aligned
  <2>1. x % 2^bits = 0
    BY <1>2, Boundary
  <2>2. bits < NumSizes /\ x + 2^bits <= PoolBlocks
    BY <1>2, <1>3, Constants
  <2> QED  BY <1>2, <2>1, <2>2, ChunkFacts
<1>5. /\ first \in Nat /\ past \in Nat /\ first <= past /\ x < first
  BY <1>2, <1>3
<1>6. Span(x, k) = x..(past - 1) /\ Span(x, bits) = x..(first - 1)
  <2>1. x + 2^k - 1 = past - 1 /\ x + 2^bits - 1 = first - 1
    BY <1>2, <1>3
  <2> QED  BY <2>1 DEF Span
<1> HIDE DEF first, past
<1>7. /\ Span(x, k) = Span(x, bits) \cup (first..(past - 1))
      /\ Span(x, bits) \cap (first..(past - 1)) = {}
      /\ first..(past - 1) \subseteq Span(x, k)
  BY <1>2, <1>5, <1>6
<1>8. Covered(F) \subseteq Covered(L \cup F) /\ Apart(F)
  BY <1>1, CoveredUnion, ApartSubset
<1>9. Freeable(p, F, first, past)
  <2>1. Covered(F) \cap (first..(past - 1)) = {}
    BY <1>1, <1>7, <1>8
  <2> QED  BY <1>1, <1>2, <1>5, <1>8, <2>1 DEF Freeable
<1>10. PICK N \in SUBSET Aligned :
         /\ q \in PoolType /\ q.map = p.map /\ q.free = p.free + (past - first)
         /\ Same(p, q, Outside(F, first, past))
         /\ Cut(N, first, past, past) /\ Listed(q, F \cup N)
  BY <1>9, ToFreeFrees
<1> HIDE DEF q
<1>11. N \subseteq Aligned /\ Apart(N) /\ Covered(N) = first..(past - 1)
  BY <1>10 DEF Cut
<1>12. Covered({c}) = Span(x, bits) /\ Apart({c})
  BY CoveredOne, ApartOne
<1> HIDE DEF c
<1>13. Apart({c} \cup N) /\ Covered({c} \cup N) = Span(x, k) /\ {c} \cap N = {}
  <2>1. Covered({c}) \cap Covered(N) = {}
    BY <1>7, <1>11, <1>12
  <2>2. Apart({c} \cup N)
    BY <1>11, <1>12, <2>1, ApartUnion
  <2>3. Covered({c} \cup N) = Covered({c}) \cup Covered(N)
    BY CoveredUnion
  <2>4. {c} \subseteq Aligned
    BY <1>4
  <2>5. {c} \cap N = {}
    BY <2>1, <2>4, ApartDiffer
  <2> QED  BY <1>7, <1>11, <1>12, <2>2, <2>3, <2>5
<1>14. Whole(L \cup {c}, F \cup N, U)
  <2>1. Fills({c}, N, x, k)
    BY <1>4, <1>11, <1>13 DEF Fills
  <2> QED  BY <2>1, FillHole
<1>15. NoBuddies(F \cup N)
  <2>1. Span(x, k) \cap Covered(F) = {}
    BY <1>1, <1>8
  <2>2. past <= x + 2^k
    BY <1>2, <1>3 DEF past
  <2> QED  BY <2>2, <1>1, <1>2, <1>5, <1>10, <2>1, CutBuddies
<1>16. q.free = Cardinality(Covered(F \cup N))
  <2>1. Covered(F) \cap Covered(N) = {}
    BY <1>1, <1>7, <1>8, <1>11
  <2>2. /\ q \in PoolType /\ q.map = p.map /\ q.free = p.free + (past - first)
        /\ Cut(N, first, past, past) /\ Listed(q, F \cup N)
    BY <1>10
  <2> QED  BY <1>1, <1>5, <1>11, <2>1, <2>2, CutSize
<1>17. q.map = U \cup Ends(L \cup {c})
  BY <1>10 DEF c
<1>18. Sound(q, L \cup {c}, F \cup N, U)
  BY <1>10, <1>14, <1>15, <1>16, <1>17 DEF Sound, Whole
<1>19. Same(p, q, Covered(L \cup {c}))
  <2>1. Covered(L \cup {c}) \subseteq Block
    BY <1>1, <1>4, CoveredInPool
  <2>2. Covered(L \cup {c}) = Covered(L) \cup Span(x, bits)
    BY <1>12, CoveredUnion
  <2>3. Covered(L) \cap Covered(F) = {}
    BY SplitBlocks DEF Hole
  <2>4. Covered(L) \subseteq Covered(L \cup F)
    BY CoveredUnion
  <2>5. Covered(L \cup {c}) \cap (Covered(F) \cup (first..(past - 1))) = {}
    BY <1>1, <1>7, <1>8, <2>2, <2>3, <2>4
  <2>6. Covered(L \cup {c}) \subseteq Outside(F, first, past)
    BY <2>1, <2>5 DEF Outside
  <2> QED  BY <1>10, <2>6 DEF Same
<1> QED  BY <1>18, <1>19 DEF q, c, first, past

-----------------------------------------------------------------------------
(* Merging. *)

\* What the bit map and the trailer tell of the buddy of a hole.
LEMMA BuddyTests ==
  ASSUME NEW p, NEW L, NEW F, NEW U, NEW x, NEW k, Hole(p, L, F, U, x, k),
         p.map = U \cup Ends(L), NEW b, b = Buddy(x, k), NEW e, e = b + 2^k - 1
  PROVE  /\ e \in Block /\ e \notin p.map => p.trailer[e] \in Sizes
         /\ << b, k >> \in F => e \in Block /\ e \notin p.map /\ p.trailer[e] = k
         /\ e \in Block /\ e \notin p.map /\ p.trailer[e] = k => << b, k >> \in F
<1>1. /\ L \subseteq Aligned /\ F \subseteq Aligned /\ L \cap F = {} /\ Apart(L \cup F)
      /\ U \cap Covered(L \cup F) = {} /\ << x, k >> \in Aligned
      /\ Span(x, k) \cap Covered(L \cup F) = {}
      /\ U \cup Covered(L \cup F) \cup Span(x, k) = Block /\ Listed(p, F)
  BY DEF Hole, Split
<1>2. x \in Nat /\ k \in Nat /\ k < NumSizes /\ x % 2^k = 0 /\ k \in Sizes
  BY <1>1, ChunkFacts, Constants
<1>3. /\ b \in Nat /\ b % 2^k = 0 /\ Buddy(b, k) = x /\ Span(x, k) \cap Span(b, k) = {}
  BY <1>2, BuddySpans
<1>4. 2^k \in Nat /\ 2^k >= 1
  BY <1>2, PowType
<1>5. e \in Nat /\ e \in Span(b, k) /\ e = b + 2^k - 1 /\ b + 2^k = e + 1
  <2>1. b + 2^k - 1 \in Span(b, k)
    BY <1>2, <1>3, SpanFacts
  <2>2. e \in Nat /\ b + 2^k = e + 1
    BY <1>3, <1>4
  <2> QED  BY <2>1, <2>2
<1>6. ASSUME e \in Block, e \notin p.map
      PROVE  p.trailer[e] \in Sizes /\ (p.trailer[e] = k => << b, k >> \in F)
  <2>1. e \in Covered(L \cup F)
    BY <1>1, <1>3, <1>5, <1>6
  <2>2. PICK d \in L \cup F : e \in Span(d[1], d[2])
    BY <2>1, CoveredBy
  <2>3. d \in Aligned
    BY <1>1, <2>2
  <2>4. /\ d = << d[1], d[2] >> /\ d[1] \in Nat /\ d[2] \in Nat /\ d[2] \in Sizes
        /\ d[1] % 2^d[2] = 0
    BY <2>3, ChunkPair
  <2>5. Span(d[1], d[2]) \subseteq Covered(L \cup F)
    BY <2>2, CoveredBy
  <2>6. d[2] <= k
    <3> SUFFICES ASSUME k < d[2] PROVE FALSE
      BY <1>2, <2>4
    <3>1. Span(b, k) \cap Span(d[1], d[2]) # {}
      BY <1>5, <2>2
    <3>2. Span(Buddy(b, k), k) \subseteq Span(d[1], d[2])
      BY <1>2, <1>3, <2>4, <3>1, BuddyInside
    <3>3. x \in Span(x, k)
      BY <1>2, SpanFacts
    <3> QED  BY <1>1, <1>3, <2>5, <3>2, <3>3
  <2>7. Span(d[1], d[2]) \subseteq Span(b, k)
    <3>1. Span(d[1], d[2]) \cap Span(b, k) # {}
      BY <1>5, <2>2
    <3> QED  BY <1>2, <1>3, <2>4, <2>6, <3>1, ChunksNested
  <2>8. 2^d[2] \in Nat /\ 2^d[2] >= 1
    BY <2>4, PowType
  <2>9. e = d[1] + 2^d[2] - 1
    <3>1. d[1] + 2^d[2] - 1 \in Span(d[1], d[2])
      BY <2>4, SpanFacts
    <3>2. d[1] + 2^d[2] - 1 \in Span(b, k)
      BY <2>7, <3>1
    <3>3. d[1] + 2^d[2] - 1 < b + 2^k
      BY <1>2, <1>3, <3>2, SpanFacts
    <3>4. e < d[1] + 2^d[2]
      BY <2>2, <2>4, SpanFacts
    <3> QED  BY <1>3, <1>4, <1>5, <2>4, <2>8, <3>3, <3>4
  <2>10. d \notin L
    BY <1>6, <2>9 DEF Ends
  <2>11. << d[1], d[2] >> \in F
    BY <2>2, <2>4, <2>10
  <2>12. p.trailer[e] = d[2]
    BY <1>1, <2>9, <2>11, ListedWords
  <2>13. ASSUME d[2] = k PROVE << b, k >> \in F
    <3>1. d[1] = b
      <4>1. d[1] + 2^k = b + 2^k
        BY <1>3, <1>4, <1>5, <2>4, <2>9, <2>13
      <4> QED  BY <1>3, <1>4, <2>4, <4>1
    <3> QED  BY <2>11, <2>13, <3>1
  <2> QED  BY <2>4, <2>12, <2>13
<1>7. ASSUME << b, k >> \in F PROVE e \in Block /\ e \notin p.map /\ p.trailer[e] = k
  <2>1. PICK c \in F : c = << b, k >>
    BY <1>7
  <2>2. c[1] = b /\ c[2] = k /\ c \in Aligned
    BY <1>1, <2>1
  <2>3. Span(b, k) \subseteq Block /\ Span(b, k) \subseteq Covered(L \cup F)
    BY <2>2, <2>1, ChunkPair, CoveredBy
  <2>4. e \notin Ends(L)
    <3> SUFFICES ASSUME NEW d \in L, d[1] + 2^d[2] - 1 = e PROVE FALSE
      BY DEF Ends
    <3>1. d # c /\ d \in L \cup F /\ c \in L \cup F /\ L \cup F \subseteq Aligned
      BY <1>1
    <3>2. c[1] + 2^c[2] - 1 # d[1] + 2^d[2] - 1
      BY <1>1, <3>1, ApartEnds
    <3> QED  BY <2>2, <3>2
  <2>5. e \notin U
    BY <1>1, <1>5, <2>3
  <2>6. p.trailer[e] = k
    BY <1>1, <1>7, ListedWords
  <2> QED  BY <1>5, <2>3, <2>4, <2>5, <2>6
<1> QED  BY <1>6, <1>7

\* A hole grows by its free buddy.
LEMMA MergeBuddy ==
  ASSUME NEW p, NEW L, NEW F, NEW U, NEW x, NEW k, Hole(p, L, F, U, x, k), k < NumSizes - 1,
         NEW b, b = Buddy(x, k), << b, k >> \in F
  PROVE  /\ ~BadLinks(p, b) /\ p.list[k] # OURNULL
         /\ Hole(Unlink(p, b, k), L, F \ {<< b, k >>}, U, Min({x, b}), k + 1)
         /\ Unlink(p, b, k).map = p.map /\ Same(p, Unlink(p, b, k), Covered(L))
<1> DEFINE q == Unlink(p, b, k)
           m == Min({x, b})
<1>0. PICK c : c = << b, k >>
  OBVIOUS
<1> DEFINE G == F \ {c}
<1>1. /\ L \subseteq Aligned /\ F \subseteq Aligned /\ L \cap F = {} /\ Apart(L \cup F)
      /\ U \cap Covered(L \cup F) = {} /\ << x, k >> \in Aligned
      /\ Span(x, k) \cap Covered(L \cup F) = {} /\ U \cap Span(x, k) = {}
      /\ U \cup Covered(L \cup F) \cup Span(x, k) = Block /\ Listed(p, F)
      /\ p \in PoolType /\ NoBuddies(F) /\ U \subseteq Block
  BY DEF Hole, Split
<1>2. x \in Nat /\ k \in Nat /\ x % 2^k = 0 /\ k \in Sizes
  BY <1>1, ChunkFacts, Constants
<1>3. /\ m \in Nat /\ m % 2^(k + 1) = 0
      /\ Span(m, k + 1) = Span(x, k) \cup Span(b, k)
  BY <1>2, BuddySpans
<1>4. c \in F /\ c \in Aligned /\ c[1] = b /\ c[2] = k
  BY <1>0, <1>1
<1>5. b \in Block /\ b + 2^k - 1 \in Block /\ Span(b, k) \subseteq Block
  <2>1. b \in Block /\ b \in Nat /\ Span(b, k) \subseteq Block
    BY <1>4, ChunkPair
  <2> QED  BY <1>2, <2>1, SpanFacts
<1>6. ~BadLinks(p, b)
  BY <1>1, GoodLinks
<1>7. /\ p.list[k] # OURNULL
      /\ p.prev[b] \in Block \cup {OURNULL} /\ p.next[b] \in Block \cup {OURNULL}
  <2>1. /\ p.list[k] # OURNULL
        /\ p.prev[b] # OURNULL => p.prev[b] \in OfSize(F, k)
        /\ p.next[b] # OURNULL => p.next[b] \in OfSize(F, k)
    BY <1>1, ListedWords
  <2>2. OfSize(F, k) \subseteq Block
    BY DEF OfSize
  <2> QED  BY <2>1, <2>2
<1>8. q \in PoolType /\ q.map = p.map /\ Removed(p, q, b, k)
  BY <1>1, <1>2, <1>5, <1>7, UnlinkRemoved
<1> HIDE DEF q, m
<1>9. Listed(q, G)
  <2>1. Apart(F)
    BY <1>1, ApartSubset
  <2> QED  BY <1>0, <1>1, <1>8, <2>1, RemovedListed
<1>10. L \cup G = (L \cup F) \ {c}
  BY <1>1, <1>4
<1>11. /\ Covered(L \cup F) = Covered(L \cup G) \cup Span(b, k)
       /\ Covered(L \cup G) \cap Span(b, k) = {}
  <2>1. L \cup F \subseteq Aligned /\ c \in L \cup F
    BY <1>1, <1>4
  <2>2. /\ Covered(L \cup F) = Covered((L \cup F) \ {c}) \cup Span(c[1], c[2])
        /\ Covered((L \cup F) \ {c}) \cap Span(c[1], c[2]) = {}
    BY <1>1, <2>1, CoveredLess
  <2> QED  BY <1>4, <1>10, <2>2
<1>12. Apart(L \cup G)
  BY <1>1, <1>10, ApartSubset
<1>13. << m, k + 1 >> \in Aligned
  <2>1. Span(m, k + 1) \subseteq Block
    BY <1>1, <1>3, <1>5
  <2>2. k + 1 \in Nat /\ k + 1 < NumSizes
    BY <1>2, Constants
  <2>3. m + 2^(k + 1) - 1 \in Block /\ 2^(k + 1) \in Nat
    BY <1>3, <2>1, <2>2, SpanFacts, PowType
  <2>4. m + 2^(k + 1) <= PoolBlocks
    BY <1>3, <2>3, Constants
  <2> QED  BY <1>3, <2>2, <2>4, ChunkFacts
<1>14. NoBuddies(G)
  BY <1>1 DEF NoBuddies
<1>15. G \subseteq Aligned /\ L \cap G = {}
  BY <1>1
<1> HIDE DEF G
<1>16. /\ U \cap Covered(L \cup G) = {} /\ Span(m, k + 1) \cap Covered(L \cup G) = {}
       /\ U \cap Span(m, k + 1) = {}
       /\ U \cup Covered(L \cup G) \cup Span(m, k + 1) = Block
  BY <1>1, <1>3, <1>11
<1>17. Hole(q, L, G, U, m, k + 1)
  BY <1>1, <1>8, <1>9, <1>12, <1>13, <1>14, <1>15, <1>16 DEF Hole, Split
<1>18. Same(p, q, Covered(L))
  <2>1. PICK S : S = Covered(L)
    OBVIOUS
  <2>2. S \subseteq Block /\ S \cap Covered(F) = {}
    BY <2>1, SplitBlocks DEF Hole
  <2>3. Same(p, q, S)
    BY <1>1, <1>8, <2>2, RemovedSame
  <2> QED  BY <2>1, <2>3
<1> QED  BY <1>0, <1>6, <1>7, <1>8, <1>17, <1>18 DEF q, m, G

\* Where the merging loop of Free is after some turns.
Merging(L, U, s, F) ==
  /\ Hole(s.pool, L, F, U, s.off, s.bits) /\ s.pool.map = U \cup Ends(L) /\ s.at # "bad"
  /\ s.at = "done" /\ s.bits < NumSizes - 1 => << Buddy(s.off, s.bits), s.bits >> \notin F

\* The states of the loop.
MergeStates(w, L, U) ==
  {s \in [pool : PoolType, off : Nat, bits : Sizes, at : {"merge", "done", "bad"}] :
     /\ \E F \in SUBSET Aligned : Merging(L, U, s, F)
     /\ Same(w, s.pool, Covered(L))}

\* One turn of the loop merges the hole with its buddy, or ends the loop.
LEMMA MergeTurnMerges ==
  ASSUME NEW w, NEW L, NEW U, NEW s \in MergeStates(w, L, U)
  PROVE  LET t == MergeTurn(s)
         IN  /\ t \in MergeStates(w, L, U)
             /\ s.at # "merge" => t = s
             /\ t.at = "merge" => t.bits = s.bits + 1
<1> DEFINE b == Buddy(s.off, s.bits)
           e == b + 2^s.bits - 1
           T == [pool : PoolType, off : Nat, bits : Sizes, at : {"merge", "done", "bad"}]
           done == [s EXCEPT !.at = "done"]
           merged == [s EXCEPT !.pool = Unlink(@, b, s.bits),
                               !.off = Min({@, b}), !.bits = @ + 1]
<1>1. s \in T
  BY DEF MergeStates
<1>2. PICK F \in SUBSET Aligned : Merging(L, U, s, F)
  BY DEF MergeStates
<1>3. /\ Hole(s.pool, L, F, U, s.off, s.bits) /\ s.pool.map = U \cup Ends(L) /\ s.at # "bad"
      /\ s.at = "done" /\ s.bits < NumSizes - 1 => << b, s.bits >> \notin F
  BY <1>2 DEF Merging
<1>4. /\ e \in Block /\ e \notin s.pool.map => s.pool.trailer[e] \in Sizes
      /\ << b, s.bits >> \in F =>
           e \in Block /\ e \notin s.pool.map /\ s.pool.trailer[e] = s.bits
      /\ e \in Block /\ e \notin s.pool.map /\ s.pool.trailer[e] = s.bits =>
           << b, s.bits >> \in F
  BY <1>3, BuddyTests
<1>5. s.bits \in Nat /\ s.bits < NumSizes /\ NumSizes \in Nat
  BY <1>1, Constants
<1>6. s = [pool |-> s.pool, off |-> s.off, bits |-> s.bits, at |-> s.at]
  BY <1>1
<1>7. /\ done = [pool |-> s.pool, off |-> s.off, bits |-> s.bits, at |-> "done"]
      /\ merged = [pool |-> Unlink(s.pool, b, s.bits), off |-> Min({s.off, b}),
                   bits |-> s.bits + 1, at |-> s.at]
  <2>1. done = [pool |-> s.pool, off |-> s.off, bits |-> s.bits, at |-> "done"]
    BY <1>1
  <2>2. PICK q, x, k : q = Unlink(s.pool, b, s.bits) /\ x = Min({s.off, b}) /\ k = s.bits + 1
    OBVIOUS
  <2>3. merged = [s EXCEPT !.pool = q, !.off = x, !.bits = k]
    BY <2>2
  <2> HIDE DEF merged, done
  <2>4. merged = [pool |-> q, off |-> x, bits |-> k, at |-> s.at]
    BY <1>6, <2>3
  <2> QED  BY <2>1, <2>2, <2>4
<1>8. CASE s.at # "merge"
  <2>1. MergeTurn(s) = s
    BY <1>8 DEF MergeTurn
  <2> QED  BY <1>8, <2>1
<1>9. CASE s.at = "merge" /\ (s.bits < NumSizes - 1 => << b, s.bits >> \notin F)
  <2>1. MergeTurn(s) = done
    <3>1. s.bits >= NumSizes - 1 \/ e \notin Block \/ e \in s.pool.map
          \/ (s.pool.trailer[e] \in Sizes /\ s.pool.trailer[e] # s.bits)
      BY <1>4, <1>5, <1>9
    <3>2. s.at = "merge"
      BY <1>9
    <3> HIDE DEF done
    <3> QED  BY <3>1, <3>2 DEF MergeTurn, done
  <2>2. done \in T
    BY <1>1, <1>7
  <2>3. /\ done.pool = s.pool /\ done.off = s.off /\ done.bits = s.bits
        /\ done.at = "done"
    BY <1>7
  <2> HIDE DEF done
  <2>4. Merging(L, U, done, F)
    BY <1>3, <1>9, <2>3 DEF Merging
  <2>5. done \in MergeStates(w, L, U)
    <3>1. Same(w, done.pool, Covered(L))
      BY <2>3 DEF MergeStates
    <3> QED  BY <2>2, <2>4, <3>1 DEF MergeStates
  <2> QED  BY <1>9, <2>1, <2>3, <2>5
<1>10. CASE s.at = "merge" /\ s.bits < NumSizes - 1 /\ << b, s.bits >> \in F
  <2>1. /\ ~BadLinks(s.pool, b) /\ s.pool.list[s.bits] # OURNULL
        /\ Hole(Unlink(s.pool, b, s.bits), L, F \ {<< b, s.bits >>}, U,
                Min({s.off, b}), s.bits + 1)
        /\ Unlink(s.pool, b, s.bits).map = s.pool.map
    BY <1>3, <1>10, MergeBuddy
  <2>2. /\ ~(s.bits >= NumSizes - 1) /\ e \in Block /\ e \notin s.pool.map
        /\ s.pool.trailer[e] \in Sizes /\ s.pool.trailer[e] = s.bits /\ s.at = "merge"
    BY <1>4, <1>5, <1>10
  <2>3. MergeTurn(s) = merged
    <3> HIDE DEF merged
    <3> QED  BY <2>1, <2>2 DEF MergeTurn, merged
  <2>4. /\ merged.pool = Unlink(s.pool, b, s.bits) /\ merged.off = Min({s.off, b})
        /\ merged.bits = s.bits + 1 /\ merged.at = s.at
    BY <1>7
  <2>5. Unlink(s.pool, b, s.bits) \in PoolType
    BY <2>1 DEF Hole
  <2>6. Min({s.off, b}) \in Nat /\ s.bits + 1 \in Sizes
    <3>1. << Min({s.off, b}), s.bits + 1 >> \in Aligned
      BY <2>1 DEF Hole
    <3> QED  BY <3>1, ChunkFacts, Constants
  <2>7. merged \in T
    BY <1>1, <1>7, <2>5, <2>6
  <2> HIDE DEF merged
  <2>8. Merging(L, U, merged, F \ {<< b, s.bits >>})
    BY <1>3, <1>10, <2>1, <2>4 DEF Merging
  <2>9. F \ {<< b, s.bits >>} \in SUBSET Aligned
    BY <1>2
  <2>10. Same(w, merged.pool, Covered(L))
    <3>1. Same(w, s.pool, Covered(L))
      BY DEF MergeStates
    <3>2. Same(s.pool, Unlink(s.pool, b, s.bits), Covered(L))
      BY <1>3, <1>10, MergeBuddy
    <3> QED  BY <2>4, <3>1, <3>2, SameTwice
  <2>11. merged \in MergeStates(w, L, U)
    BY <2>7, <2>8, <2>9, <2>10 DEF MergeStates
  <2> QED  BY <1>10, <2>3, <2>4, <2>11
<1> QED  BY <1>8, <1>9, <1>10

\* The loop ends with a hole that has no free buddy.
LEMMA MergeMerges ==
  ASSUME NEW p, NEW L, NEW F, NEW U, NEW x, NEW k, Hole(p, L, F, U, x, k),
         p.map = U \cup Ends(L)
  PROVE  /\ Merge(p, x, k).at = "done"
         /\ \E G \in SUBSET Aligned : Merging(L, U, Merge(p, x, k), G)
         /\ Same(p, Merge(p, x, k).pool, Covered(L))
<1> DEFINE S == MergeStates(p, L, U)
           z == [pool |-> p, off |-> x, bits |-> k, at |-> "merge"]
           g == [s \in S |-> MergeTurn(s)]
           Is(f) == f = [n \in Nat |-> IF n = 0 THEN z ELSE MergeTurn(f[n - 1])]
           f == CHOOSE f : Is(f)
<1>1. p \in PoolType /\ x \in Nat /\ k \in Nat /\ k \in Sizes /\ F \in SUBSET Aligned
  BY ChunkFacts, Constants DEF Hole, Split
<1>2. z \in S
  <2>1. z.pool = p /\ z.off = x /\ z.bits = k /\ z.at = "merge"
    OBVIOUS
  <2>2. z \in [pool : PoolType, off : Nat, bits : Sizes, at : {"merge", "done", "bad"}]
    BY <1>1
  <2> HIDE DEF z
  <2>3. Merging(L, U, z, F)
    BY <2>1 DEF Merging
  <2>4. Same(p, z.pool, Covered(L))
    BY <2>1 DEF Same
  <2> QED  BY <1>1, <2>2, <2>3, <2>4 DEF MergeStates
<1>3. ASSUME NEW s \in S
      PROVE  /\ MergeTurn(s) \in S
             /\ s.at # "merge" => MergeTurn(s) = s
             /\ MergeTurn(s).at = "merge" => MergeTurn(s).bits = s.bits + 1
  BY MergeTurnMerges
<1>4. ASSUME NEW s \in S
      PROVE  s.bits \in Nat /\ s.bits < NumSizes /\ s.at \in {"merge", "done"}
  BY Constants DEF MergeStates, Merging
<1>5. Merge(p, x, k) = f[NumSizes]
  BY DEF Merge
<1>6. z.bits = k
  OBVIOUS
<1> HIDE DEF S, z
<1>7. Is(f)
  <2>1. g \in [S -> S]
    BY <1>3
  <2> HIDE DEF g
  <2>2. PICK h \in [Nat -> S] : h[0] = z /\ \A n \in Nat : h[n + 1] = g[h[n]]
    BY <1>2, <2>1, Loop
  <2>3. \A n \in Nat : h[n] = IF n = 0 THEN z ELSE MergeTurn(h[n - 1])
    <3> SUFFICES ASSUME NEW n \in Nat, n # 0 PROVE h[n] = MergeTurn(h[n - 1])
      BY <2>2
    <3>1. n - 1 \in Nat /\ (n - 1) + 1 = n
      OBVIOUS
    <3>2. h[n] = g[h[n - 1]] /\ h[n - 1] \in S
      BY <2>2, <3>1
    <3> QED  BY <3>2 DEF g
  <2>4. h = [n \in Nat |-> IF n = 0 THEN z ELSE MergeTurn(h[n - 1])]
    BY <2>3
  <2> QED  BY <2>4
<1> HIDE DEF f
<1>8. f[0] = z /\ \A n \in Nat : f[n + 1] = MergeTurn(f[n])
  <2>1. \A n \in Nat : f[n] = IF n = 0 THEN z ELSE MergeTurn(f[n - 1])
    BY <1>7
  <2>2. f[0] = z
    BY <2>1
  <2>3. ASSUME NEW n \in Nat PROVE f[n + 1] = MergeTurn(f[n])
    <3>1. n + 1 \in Nat /\ n + 1 # 0 /\ (n + 1) - 1 = n
      OBVIOUS
    <3> QED  BY <2>1, <3>1
  <2> QED  BY <2>2, <2>3
<1> DEFINE T == {n \in Nat : f[n] \in S /\ (f[n].at = "merge" => f[n].bits >= n)}
<1>9. 0 \in T
  BY <1>1, <1>2, <1>6, <1>8
<1>10. \A n \in T : n + 1 \in T
  <2> SUFFICES ASSUME NEW n \in T PROVE n + 1 \in T
    OBVIOUS
  <2>1. n \in Nat /\ f[n] \in S /\ (f[n].at = "merge" => f[n].bits >= n)
    OBVIOUS
  <2>2. PICK s \in S : s = f[n]
    BY <2>1
  <2>3. PICK t : t = MergeTurn(s)
    OBVIOUS
  <2>4. f[n + 1] = t
    BY <1>8, <2>1, <2>2, <2>3
  <2>5. /\ t \in S /\ (s.at # "merge" => t = s)
        /\ t.at = "merge" => t.bits = s.bits + 1
    BY <1>3, <2>3
  <2>6. t.at = "merge" => t.bits >= n + 1
    BY <1>4, <2>1, <2>2, <2>5
  <2> QED  BY <2>1, <2>4, <2>5, <2>6
<1>11. NumSizes \in T
  <2>1. T \subseteq Nat /\ NumSizes \in Nat
    BY Constants
  <2> HIDE DEF T
  <2>2. T = Nat
    BY <1>9, <1>10, <2>1, SetInduction
  <2> QED  BY <2>1, <2>2
<1>12. PICK s \in S : s = f[NumSizes]
  BY <1>11
<1>13. s.at = "done"
  BY <1>4, <1>11, <1>12, Constants
<1>14. (\E G \in SUBSET Aligned : Merging(L, U, s, G)) /\ Same(p, s.pool, Covered(L))
  BY DEF MergeStates, S
<1> QED  BY <1>5, <1>12, <1>13, <1>14

\* The bit map tells the size of a chunk in use: the first marked end above its start.
LEMMA AllocSizesOne ==
  ASSUME NEW p, NEW L, NEW F, NEW U, Sound(p, L, F, U), NEW c \in L
  PROVE  AllocSizes(p, c[1]) = {c[2]} /\ Min({c[2]}) = c[2]
<1> DEFINE x == c[1]
           k == c[2]
<1>1. /\ L \subseteq Aligned /\ Apart(L \cup F) /\ U \cap Covered(L \cup F) = {}
      /\ p.map = U \cup Ends(L)
  BY DEF Sound, Split
<1>2. /\ x \in Nat /\ k \in Nat /\ k \in Sizes /\ x + 2^k <= PoolBlocks /\ x % 2^k = 0
      /\ c \in L \cup F
  BY <1>1, ChunkPair
<1>3. x + 2^k - 1 \in p.map
  BY <1>1 DEF Ends
<1>4. ASSUME NEW j \in Nat, j < k PROVE x + 2^j - 1 \notin p.map
  <2> DEFINE e == x + 2^j - 1
  <2>1. 2^j \in Nat /\ 2^k \in Nat /\ 2^j >= 1 /\ 2^j + 2^j <= 2^k
    BY <1>2, <1>4, PowType, PowGrows
  <2>2. e \in Nat /\ x <= e /\ e < x + 2^k - 1 /\ e < x + 2^k
    BY <1>2, <2>1
  <2> HIDE DEF e
  <2>3. e \in Span(x, k)
    BY <1>2, <2>2, SpanFacts
  <2>4. e \notin U
    BY <1>1, <1>2, <2>3, CoveredBy
  <2>5. ASSUME NEW d \in L, e = d[1] + 2^d[2] - 1 PROVE FALSE
    <3>1. d[1] + 2^d[2] - 1 \in Span(d[1], d[2])
      BY <1>1, ChunkPair, SpanFacts
    <3>2. d # c
      BY <2>2, <2>5
    <3>3. Span(d[1], d[2]) \cap Span(c[1], c[2]) = {}
      BY <1>1, <3>2 DEF Apart
    <3> QED  BY <2>3, <2>5, <3>1, <3>3
  <2> QED  BY <1>1, <2>4, <2>5 DEF Ends, e
<1>5. k \in AllocSizes(p, x)
  BY <1>2, <1>3, <1>4 DEF AllocSizes
<1>6. ASSUME NEW j \in AllocSizes(p, x) PROVE j = k
  <2>1. /\ j \in Nat /\ x + 2^j - 1 \in p.map
        /\ \A i \in 0..(j - 1) : x + 2^i - 1 \notin p.map
    BY Constants DEF AllocSizes
  <2>2. ~(j < k)
    BY <1>4, <2>1
  <2>3. ~(k < j)
    BY <1>2, <1>3, <2>1
  <2> QED  BY <1>2, <2>1, <2>2, <2>3
<1>7. Min({k}) = k
  <2>1. {k} \subseteq Nat /\ {k} # {}
    BY <1>2
  <2> QED  BY <2>1, MinFacts
<1> QED  BY <1>5, <1>6, <1>7

\* The blocks that are free or in the hole, and those that are not in use.
Available(F, x, k) == Covered(F) \cup Span(x, k)
Unused(L, U) == Block \ (U \cup Covered(L))

\* What is not in use is free or in the hole.
LEMMA HoleBlocks ==
  ASSUME NEW p, NEW L, NEW F, NEW U, NEW x, NEW k, Hole(p, L, F, U, x, k)
  PROVE  /\ Available(F, x, k) = Unused(L, U)
         /\ Cardinality(Available(F, x, k)) = Cardinality(Covered(F)) + 2^k
<1>1. /\ L \subseteq Aligned /\ F \subseteq Aligned /\ L \cap F = {} /\ Apart(L \cup F)
      /\ U \cap Covered(L \cup F) = {} /\ << x, k >> \in Aligned
      /\ Span(x, k) \cap Covered(L \cup F) = {} /\ U \cap Span(x, k) = {}
      /\ U \cup Covered(L \cup F) \cup Span(x, k) = Block
  BY DEF Hole, Split
<1>2. Covered(L \cup F) = Covered(L) \cup Covered(F)
  BY CoveredUnion
<1>3. Covered(L) \cap Covered(F) = {}
  <2> SUFFICES ASSUME NEW z, z \in Covered(L), z \in Covered(F) PROVE FALSE
    OBVIOUS
  <2>1. PICK c \in L : z \in Span(c[1], c[2])
    BY CoveredBy
  <2>2. PICK d \in F : z \in Span(d[1], d[2])
    BY CoveredBy
  <2>3. c # d /\ c \in L \cup F /\ d \in L \cup F
    BY <1>1
  <2> QED  BY <1>1, <2>1, <2>2, <2>3 DEF Apart
<1>4. Covered(F) \cup Span(x, k) = Block \ (U \cup Covered(L))
  BY <1>1, <1>2, <1>3
<1>5. x \in Nat /\ k \in Nat
  BY <1>1, ChunkFacts
<1>6. /\ Covered(F) \subseteq Block /\ Span(x, k) \subseteq Block
      /\ Covered(F) \cap Span(x, k) = {}
  BY <1>1, <1>2
<1>7. Cardinality(Covered(F) \cup Span(x, k)) =
        Cardinality(Covered(F)) + Cardinality(Span(x, k))
  BY <1>6, AddSizes
<1> QED  BY <1>4, <1>5, <1>7, SpanSize DEF Available, Unused

\* The hole goes onto the free lists.
LEMMA HoleFreed ==
  ASSUME NEW p, NEW L, NEW F, NEW U, NEW x, NEW k, Hole(p, L, F, U, x, k),
         p.map = U \cup Ends(L), k < NumSizes - 1 => << Buddy(x, k), k >> \notin F,
         NEW n, n = Cardinality(Available(F, x, k))
  PROVE  Sound([MakeFree(p, x, k) EXCEPT !.free = n], L, F \cup {<< x, k >>}, U)
<1> DEFINE q == MakeFree(p, x, k)
           r == [q EXCEPT !.free = n]
<1>0. PICK c : c = << x, k >>
  OBVIOUS
<1>1. /\ L \subseteq Aligned /\ F \subseteq Aligned /\ Apart(L \cup F)
      /\ c \in Aligned /\ << x, k >> \in Aligned
      /\ Span(x, k) \cap Covered(L \cup F) = {} /\ Listed(p, F)
      /\ p \in PoolType /\ NoBuddies(F)
  BY <1>0 DEF Hole, Split
<1>2. /\ x \in Nat /\ k \in Nat /\ k \in Sizes /\ x \in Block /\ x % 2^k = 0
      /\ Span(x, k) \subseteq Block
  BY <1>0, <1>1, ChunkPair
<1>3. x + 2^k - 1 \in Block
  BY <1>2, SpanFacts
<1>4. c \notin F /\ Apart(F \cup {c}) /\ Covered({c}) = Span(x, k)
  <2>1. Covered({c}) = Span(x, k) /\ Apart({c}) /\ Apart(F)
    BY <1>0, <1>1, CoveredOne, ApartOne, ApartSubset
  <2>2. Covered(F) \cap Covered({c}) = {}
    BY <1>1, <2>1, CoveredUnion
  <2>3. Apart(F \cup {c})
    BY <2>1, <2>2, ApartUnion
  <2>4. F \cap {c} = {}
    BY <1>1, <2>2, ApartDiffer
  <2> QED  BY <2>1, <2>3, <2>4
<1>5. Whole(L, F \cup {c}, U)
  <2>1. {} \cup {c} = {c} /\ L \cup {} = L /\ {} \cap {c} = {} /\ {} \subseteq Aligned
    OBVIOUS
  <2>2. {c} \subseteq Aligned /\ Apart({c})
    BY <1>1, ApartOne
  <2>3. Fills({}, {c}, x, k)
    BY <1>4, <2>1, <2>2 DEF Fills
  <2>4. Whole(L \cup {}, F \cup {c}, U)
    BY <2>3, FillHole
  <2> QED  BY <2>1, <2>4
<1>6. q \in PoolType /\ q.map = p.map
  BY <1>1, <1>2, <1>3, MakeFreeFields
<1>7. Listed(q, F \cup {c})
  BY <1>0, <1>1, <1>4, MakeFreeListed
<1>8. n \in Nat /\ n = Cardinality(Covered(F \cup {c}))
  <2>1. Covered(F \cup {c}) = Covered(F) \cup Span(x, k)
    BY <1>4, CoveredUnion
  <2>2. F \cup {c} \subseteq Aligned
    BY <1>1
  <2>3. Covered(F \cup {c}) \subseteq Block
    BY <2>2, CoveredInPool
  <2> QED  BY <2>1, <2>3, BlocksFinite DEF Available
<1> HIDE DEF q
<1>9. /\ r \in PoolType /\ r.map = p.map /\ r.free = n /\ r.list = q.list
      /\ r.magic = q.magic /\ r.prev = q.prev /\ r.next = q.next /\ r.trailer = q.trailer
  <2>1. /\ q.map \in SUBSET Block /\ q.list \in [Sizes -> Block \cup {OURNULL}]
        /\ q.magic \in [Block -> BOOLEAN] /\ q.prev \in [Block -> Int]
        /\ q.next \in [Block -> Int] /\ q.trailer \in [Block -> Int] /\ q.free \in Int
        /\ q = [map |-> q.map, list |-> q.list, magic |-> q.magic, prev |-> q.prev,
                next |-> q.next, trailer |-> q.trailer, free |-> q.free]
    BY <1>6, PoolFields
  <2>2. r = [map |-> q.map, list |-> q.list, magic |-> q.magic, prev |-> q.prev,
             next |-> q.next, trailer |-> q.trailer, free |-> n]
    BY <2>1
  <2>3. n \in Int
    BY <1>8
  <2> HIDE DEF r
  <2> QED  BY <1>6, <2>1, <2>2, <2>3 DEF PoolType
<1> HIDE DEF r
<1>10. Listed(r, F \cup {c})
  <2>1. SameFree(q, r, Covered(F \cup {c}))
    BY <1>9 DEF SameFree
  <2>2. F \cup {c} \subseteq Aligned
    BY <1>1
  <2> QED  BY <1>7, <2>1, <2>2, FrameListed
<1>11. NoBuddies(F \cup {c})
  <2> SUFFICES ASSUME NEW d \in F \cup {c}, d[2] < NumSizes - 1,
                      << Buddy(d[1], d[2]), d[2] >> \in F \cup {c}
               PROVE  FALSE
    BY DEF NoBuddies
  <2>1. Buddy(x, k) # x /\ Buddy(Buddy(x, k), k) = x
    BY <1>2, BuddySpans
  <2>2. c[1] = x /\ c[2] = k
    BY <1>0
  <2>3. CASE d = c
    BY <1>0, <2>1, <2>2, <2>3
  <2>4. CASE d \in F
    <3>1. << Buddy(d[1], d[2]), d[2] >> = c
      BY <1>1, <2>4 DEF NoBuddies
    <3>2. d[2] = k /\ Buddy(d[1], d[2]) = x
      BY <1>0, <3>1
    <3>3. d = << d[1], d[2] >> /\ d[1] \in Nat /\ d[1] % 2^d[2] = 0 /\ d[2] \in Nat
      BY <1>1, <2>4, ChunkPair
    <3>4. Buddy(x, k) = d[1]
      BY <3>2, <3>3, BuddySpans
    <3>5. d = << Buddy(x, k), k >>
      BY <3>2, <3>3, <3>4
    <3> QED  BY <2>4, <3>2, <3>5
  <2> QED  BY <2>3, <2>4
<1>12. Sound(r, L, F \cup {c}, U)
  BY <1>5, <1>8, <1>9, <1>10, <1>11 DEF Sound, Whole
<1> QED  BY <1>0, <1>12 DEF r, q

\* Freeing the hole writes into no chunk in use.
LEMMA HoleFreedSame ==
  ASSUME NEW p, NEW L, NEW F, NEW U, NEW x, NEW k, Hole(p, L, F, U, x, k), NEW n
  PROVE  Same(p, [MakeFree(p, x, k) EXCEPT !.free = n], Covered(L))
<1>1. /\ p \in PoolType /\ F \subseteq Aligned /\ Listed(p, F) /\ << x, k >> \in Aligned
      /\ Span(x, k) \cap Covered(L \cup F) = {}
  BY DEF Hole, Split
<1>2. PICK S : S = Covered(L)
  OBVIOUS
<1>3. S \subseteq Block /\ S \cap Covered(F) = {}
  BY <1>2, SplitBlocks DEF Hole
<1>4. S \cap Span(x, k) = {}
  BY <1>1, <1>2, CoveredUnion
<1>5. PICK q : q = MakeFree(p, x, k)
  OBVIOUS
<1>6. Same(p, q, S)
  BY <1>1, <1>3, <1>4, <1>5, MakeFreeSame
<1>7. q \in PoolType
  <2>1. x \in Block /\ k \in Sizes /\ x \in Nat /\ k \in Nat /\ Span(x, k) \subseteq Block
    BY <1>1, ChunkPair
  <2>2. x + 2^k - 1 \in Block
    BY <2>1, SpanFacts
  <2> QED  BY <1>1, <1>5, <2>1, <2>2, MakeFreeFields
<1>8. PICK r : r = [q EXCEPT !.free = n]
  OBVIOUS
<1>9. q = [map |-> q.map, list |-> q.list, magic |-> q.magic, prev |-> q.prev,
           next |-> q.next, trailer |-> q.trailer, free |-> q.free]
  BY <1>7, PoolFields
<1>10. r = [map |-> q.map, list |-> q.list, magic |-> q.magic, prev |-> q.prev,
            next |-> q.next, trailer |-> q.trailer, free |-> n]
  BY <1>8, <1>9
<1>11. Same(p, r, S)
  BY <1>6, <1>10 DEF Same
<1> QED  BY <1>2, <1>5, <1>8, <1>11

-----------------------------------------------------------------------------
(* The operations on a sound pool. *)

\* The pool with another bit map.
LEMMA Remapped ==
  ASSUME NEW p \in PoolType, NEW m, m \subseteq Block, NEW F, F \subseteq Aligned, Listed(p, F)
  PROVE  LET q == [p EXCEPT !.map = m]
         IN  /\ q \in PoolType /\ q.map = m /\ q.free = p.free /\ Listed(q, F)
             /\ \A S : Same(p, q, S)
<1> DEFINE q == [p EXCEPT !.map = m]
<1>1. /\ p.list \in [Sizes -> Block \cup {OURNULL}]
      /\ p.magic \in [Block -> BOOLEAN] /\ p.prev \in [Block -> Int]
      /\ p.next \in [Block -> Int] /\ p.trailer \in [Block -> Int] /\ p.free \in Int
      /\ p = [map |-> p.map, list |-> p.list, magic |-> p.magic, prev |-> p.prev,
              next |-> p.next, trailer |-> p.trailer, free |-> p.free]
  BY PoolFields
<1>2. q = [map |-> m, list |-> p.list, magic |-> p.magic, prev |-> p.prev,
           next |-> p.next, trailer |-> p.trailer, free |-> p.free]
  BY <1>1
<1> HIDE DEF q
<1>3. q \in PoolType
  BY <1>1, <1>2 DEF PoolType
<1>4. SameFree(p, q, Covered(F))
  BY <1>2 DEF SameFree
<1>5. Listed(q, F)
  BY <1>4, FrameListed
<1>6. \A S : Same(p, q, S)
  BY <1>2 DEF Same
<1> QED  BY <1>2, <1>3, <1>5, <1>6 DEF q

\* Free gives a chunk in use back, and none of its tests of the free memory fails.
LEMMA FreeSucceeds ==
  ASSUME NEW p, NEW L, NEW F, NEW U, Sound(p, L, F, U), NEW c \in L
  PROVE  LET a == Free(p, c[1])
         IN  /\ a.ret = "kIOReturnSuccess" /\ Same(p, a.pool, Covered(L \ {c}))
             /\ \E G : Sound(a.pool, L \ {c}, G, U)
<1> DEFINE x == c[1]
           k == c[2]
           e == x + 2^k - 1
           q == [p EXCEPT !.map = p.map \ {e}]
           m == Merge(q, x, k)
           head == m.pool.list[m.bits]
           r == [MakeFree(m.pool, m.off, m.bits) EXCEPT !.free = p.free + 2^k]
<1>0. PICK M : M = L \ {c}
  OBVIOUS
<1>1. /\ p \in PoolType /\ F \subseteq Aligned /\ Listed(p, F) /\ p.map \subseteq Block
      /\ p.free = Cardinality(Covered(F))
  BY PoolFields DEF Sound, Split
<1>2. AllocSizes(p, x) = {k} /\ Min({k}) = k
  BY AllocSizesOne
<1>3. Free(p, x) = IF \/ m.at = "bad"
                      \/ head # OURNULL /\ (BadNode(m.pool, head) \/ m.pool.prev[head] # OURNULL)
                   THEN Answer(m.pool, "kIOReturnInternalError", x)
                   ELSE Answer(r, "kIOReturnSuccess", x)
  BY <1>2 DEF Free
<1>4. q \in PoolType /\ q.map = p.map \ {e} /\ Listed(q, F) /\ \A S : Same(p, q, S)
  BY <1>1, Remapped
<1> HIDE DEF q
<1>5. Hole(q, M, F, U, x, k) /\ q.map = U \cup Ends(M)
  <2>1. Cleared(p, q, F, c)
    BY <1>4 DEF Cleared
  <2>2. Hole(q, L \ {c}, F, U, c[1], c[2]) /\ Marks(q, L \ {c}, U)
    BY <2>1, FreeHole, Zenon
  <2> QED  BY <1>0, <2>2 DEF Marks
<1>6. /\ m.at = "done" /\ Same(q, m.pool, Covered(M))
      /\ \E G \in SUBSET Aligned : Merging(M, U, m, G)
  BY <1>5, MergeMerges
<1> HIDE DEF m
<1>7. PICK G \in SUBSET Aligned : Merging(M, U, m, G)
  BY <1>6
<1>8. /\ Hole(m.pool, M, G, U, m.off, m.bits) /\ m.pool.map = U \cup Ends(M)
      /\ m.bits < NumSizes - 1 => << Buddy(m.off, m.bits), m.bits >> \notin G
  BY <1>6, <1>7 DEF Merging
<1>9. /\ G \subseteq Aligned /\ Listed(m.pool, G) /\ m.bits \in Sizes
  BY <1>7, <1>8, ChunkFacts, Constants DEF Hole
<1>10. ASSUME head # OURNULL
       PROVE  ~BadNode(m.pool, head) /\ m.pool.prev[head] = OURNULL
  <2>1. << head, m.bits >> \in G /\ m.pool.prev[head] = OURNULL
    BY <1>9, <1>10, HeadListed
  <2> QED  BY <1>9, <2>1, GoodLinks
<1>11. Free(p, x) = Answer(r, "kIOReturnSuccess", x)
  BY <1>3, <1>6, <1>10
<1>12. p.free + 2^k = Cardinality(Available(G, m.off, m.bits))
  <2>1. Available(F, x, k) = Unused(M, U) /\ Cardinality(Available(F, x, k)) = p.free + 2^k
    <3> HIDE DEF x, k
    <3> QED  BY <1>1, <1>5, HoleBlocks
  <2>2. Available(G, m.off, m.bits) = Unused(M, U)
    BY <1>8, HoleBlocks
  <2> QED  BY <2>1, <2>2
<1>13. Sound(r, M, G \cup {<< m.off, m.bits >>}, U)
  BY <1>8, <1>12, HoleFreed
<1>14. Same(p, r, Covered(M))
  <2>1. Same(m.pool, r, Covered(M))
    BY <1>8, HoleFreedSame
  <2> HIDE DEF r
  <2>2. Same(p, m.pool, Covered(M))
    BY <1>4, <1>6, SameTwice
  <2> QED  BY <2>1, <2>2, SameTwice
<1> HIDE DEF r
<1> QED  BY <1>0, <1>11, <1>13, <1>14 DEF Answer

\* The size class of a request is the least that holds it.
LEMMA BitsForFacts ==
  ASSUME NEW n \in Nat \ {0}
  PROVE  /\ BitsFor(n) \in Nat /\ 2^BitsFor(n) >= n
         /\ \A k \in Nat : 2^k >= n => BitsFor(n) <= k
<1> DEFINE T == {k \in 0..n : 2^k >= n}
<1>1. n \in T /\ T \subseteq Nat
  BY PowType
<1>2. Min(T) \in T /\ \A y \in T : Min(T) <= y
  BY <1>1, MinFacts
<1>3. BitsFor(n) = Min(T)
  BY DEF BitsFor
<1>4. ASSUME NEW k \in Nat, 2^k >= n PROVE Min(T) <= k
  <2>1. CASE k <= n
    BY <1>2, <1>4, <2>1
  <2>2. CASE k > n
    BY <1>2, <2>2
  <2> QED  BY <2>1, <2>2
<1> QED  BY <1>2, <1>3, <1>4

\* The answers to a request that cannot be met.
Refusals == {"kIOReturnNoMemory", "kIOReturnNoResources"}

\* A chunk that was not in use is taken for the caller.
Got(p, a, bits, L, U) ==
  /\ a.ret = "kIOReturnSuccess" /\ bits \in Sizes /\ << a.off, bits >> \notin L
  /\ Same(p, a.pool, Covered(L))
  /\ \E G : Sound(a.pool, L \cup {<< a.off, bits >>}, G, U)

\* BuddyMalloc takes a chunk or answers that there is no memory, and none of its
\* tests of the free memory fails.
LEMMA BuddyMallocTakes ==
  ASSUME NEW p, NEW L, NEW F, NEW U, Sound(p, L, F, U), NEW bits \in Nat
  PROVE  LET a == BuddyMalloc(p, bits)
         IN  \/ a = Answer(p, "kIOReturnNoMemory", OURNULL)
             \/ Got(p, a, bits, L, U)
<1> DEFINE found == {j \in bits..(NumSizes - 1) : p.list[j] # OURNULL}
<1>1. CASE p.free < 2^bits \/ found = {}
  <2>1. BuddyMalloc(p, bits) = Answer(p, "kIOReturnNoMemory", OURNULL)
    BY <1>1 DEF BuddyMalloc
  <2> QED  BY <2>1
<1>2. CASE ~(p.free < 2^bits \/ found = {})
  <2> DEFINE k == Min(found)
             off == p.list[k]
             nxt == p.next[off]
             past == off + 2^bits
             q == Taken(p, k, past)
             a == Answer(ToFree(q, past, off + 2^k), "kIOReturnSuccess", off)
  <2>1. k \in found
    <3>1. found \subseteq Nat /\ found # {}
      BY <1>2, Constants
    <3> HIDE DEF found
    <3> QED  BY <3>1, MinFacts
  <2>2. /\ k \in Nat /\ k \in Sizes /\ bits <= k /\ off # OURNULL /\ bits \in Sizes
    BY <2>1, Constants
  <2>3. /\ p \in PoolType /\ L \subseteq Aligned /\ F \subseteq Aligned /\ Listed(p, F)
        /\ p.map = U \cup Ends(L) /\ Apart(L \cup F)
    BY DEF Sound, Split
  <2>4. BuddyMalloc(p, bits) =
          IF \/ BadNode(p, off)
             \/ p.prev[off] # OURNULL \/ p.trailer[off + 2^k - 1] # k
             \/ nxt # OURNULL /\ (BadNode(p, nxt) \/ p.prev[nxt] # off)
          THEN Answer(p, "kIOReturnInternalError", OURNULL)
          ELSE a
    BY <1>2 DEF BuddyMalloc
  <2> HIDE DEF found, k
  <2>5. << off, k >> \in F /\ p.prev[off] = OURNULL
    BY <2>2, <2>3, HeadListed
  <2> HIDE DEF off
  <2>6. << off, k >> \in Aligned
    BY <2>3, <2>5
  <2>7. /\ off \in Nat /\ off + 2^k <= PoolBlocks /\ off % 2^k = 0
    BY <2>6, ChunkFacts
  <2>8. 2^bits \in Nat /\ 2^bits >= 1 /\ 2^k \in Nat /\ 2^bits <= 2^k
    BY <2>2, PowType, PowGrows
  <2>9. off \in Block /\ past - 1 \in Block /\ past - 1 = off + 2^bits - 1
    BY <2>7, <2>8, Constants
  <2>10. ~BadNode(p, off) /\ p.trailer[off + 2^k - 1] = k
    BY <2>3, <2>5, GoodLinks, ListedWords
  <2>11. ASSUME nxt # OURNULL
         PROVE  nxt \in Block /\ ~BadNode(p, nxt) /\ p.prev[nxt] = off
    <3>1. nxt \in OfSize(F, k) /\ p.prev[nxt] = off
      BY <2>3, <2>5, <2>11, ListedWords
    <3>2. << nxt, k >> \in F /\ nxt \in Block
      BY <3>1 DEF OfSize
    <3> QED  BY <2>3, <3>1, <3>2, GoodLinks
  <2>12. BuddyMalloc(p, bits) = a
    <3> HIDE DEF a, nxt
    <3> QED  BY <2>4, <2>5, <2>10, <2>11
  <2>13. /\ q \in PoolType /\ q.map = p.map \cup {past - 1} /\ q.free = p.free - 2^k
         /\ Removed(p, q, off, k)
    <3>1. p.next[off] \in Block \cup {OURNULL}
      BY <2>11
    <3>2. p.list[k] = off
      BY DEF off
    <3> HIDE DEF past, nxt
    <3> QED  BY <2>2, <2>3, <2>5, <2>9, <3>1, <3>2, TakenRemoved
  <2> HIDE DEF q, past
  <2>14. PICK G : Hole(q, L, G, U, off, k) /\ Cardinality(Covered(G)) = p.free - 2^k
    BY <2>5, <2>13, TakeHole
  <2>15. q.map = U \cup Ends(L \cup {<< off, bits >>})
    <3>1. Ends(L \cup {<< off, bits >>}) = Ends(L) \cup {off + 2^bits - 1}
      <4>1. PICK c : c = << off, bits >>
        OBVIOUS
      <4>2. c[1] = off /\ c[2] = bits
        BY <4>1
      <4>3. Ends(L \cup {c}) = Ends(L) \cup {c[1] + 2^c[2] - 1}
        BY DEF Ends
      <4> QED  BY <4>1, <4>2, <4>3
    <3> QED  BY <2>3, <2>9, <2>13, <3>1
  <2>16. LET r == ToFree(q, off + 2^bits, off + 2^k)
         IN  /\ Same(q, r, Covered(L \cup {<< off, bits >>}))
             /\ \E H : Sound(r, L \cup {<< off, bits >>}, H, U)
    BY <2>2, <2>13, <2>14, <2>15, Carve
  <2>17. << off, bits >> \notin L
    <3> SUFFICES ASSUME NEW c \in L, c = << off, bits >> PROVE FALSE
      OBVIOUS
    <3>1. c \in L \cup G /\ c[1] = off /\ c[2] = bits
      OBVIOUS
    <3>2. off \in Span(off, bits) /\ off \in Span(off, k)
      BY <2>2, <2>7, SpanFacts
    <3>3. off \in Covered(L \cup G)
      BY <3>1, <3>2, CoveredBy
    <3> QED  BY <2>14, <3>2, <3>3 DEF Hole
  <2>18. Got(p, a, bits, L, U)
    <3>1. /\ a.ret = "kIOReturnSuccess" /\ a.off = off
          /\ a.pool = ToFree(q, off + 2^bits, off + 2^k)
      BY DEF Answer, past
    <3>2. PICK S, T : S = Covered(L) /\ T = Covered(L \cup {<< off, bits >>})
      OBVIOUS
    <3>3. S \subseteq T
      BY <3>2, CoveredUnion
    <3>4. S \subseteq Block /\ S \cap Covered(F) = {}
      BY <3>2, SplitBlocks DEF Sound
    <3>5. Same(p, q, S)
      BY <2>3, <2>5, <2>13, <3>4, RemovedSame
    <3> HIDE DEF a
    <3>6. Same(q, a.pool, T)
      BY <2>16, <3>1, <3>2
    <3>7. Same(p, a.pool, S)
      BY <3>3, <3>5, <3>6, SameTwice
    <3> QED  BY <2>2, <2>16, <2>17, <3>1, <3>2, <3>7 DEF Got
  <2> QED  BY <2>12, <2>18
<1> QED  BY <1>1, <1>2

\* Malloc takes a chunk of the size class of the request, or leaves the pool as it is.
LEMMA MallocTakes ==
  ASSUME NEW p, NEW L, NEW F, NEW U, Sound(p, L, F, U), NEW n \in Nat \ {0}
  PROVE  LET a == Malloc(p, n)
         IN  \/ a.pool = p /\ a.ret \in Refusals
             \/ Got(p, a, BitsFor(n), L, U)
<1>1. BitsFor(n) \in Nat
  BY BitsForFacts
<1>2. CASE BitsFor(n) > NumSizes
  BY <1>2 DEF Malloc, Answer, Refusals
<1>3. CASE ~(BitsFor(n) > NumSizes)
  <2>1. Malloc(p, n) = BuddyMalloc(p, BitsFor(n))
    BY <1>3 DEF Malloc
  <2>2. \/ BuddyMalloc(p, BitsFor(n)) = Answer(p, "kIOReturnNoMemory", OURNULL)
        \/ Got(p, BuddyMalloc(p, BitsFor(n)), BitsFor(n), L, U)
    BY <1>1, BuddyMallocTakes
  <2>3. /\ Answer(p, "kIOReturnNoMemory", OURNULL).pool = p
        /\ Answer(p, "kIOReturnNoMemory", OURNULL).ret \in Refusals
    BY DEF Answer, Refusals
  <2> QED  BY <2>1, <2>2, <2>3
<1> QED  BY <1>2, <1>3

\* Only words of the blocks of B differ between p and q.
Wrote(p, q, B) ==
  /\ q \in PoolType /\ q.map = p.map /\ q.free = p.free /\ q.list = p.list
  /\ \A b \in Block \ B : /\ q.magic[b] = p.magic[b] /\ q.prev[b] = p.prev[b]
                          /\ q.next[b] = p.next[b] /\ q.trailer[b] = p.trailer[b]

\* What is written into a chunk in use is nothing to the allocator.
LEMMA WroteSound ==
  ASSUME NEW p, NEW L, NEW F, NEW U, Sound(p, L, F, U), NEW c \in L,
         NEW q, NEW B, Wrote(p, q, B), B \subseteq Span(c[1], c[2])
  PROVE  Sound(q, L, F, U)
<1>1. /\ F \subseteq Aligned /\ L \cap F = {} /\ Apart(L \cup F) /\ Listed(p, F)
  BY DEF Sound, Split
<1>2. ASSUME NEW b \in Covered(F) PROVE b \in Block \ B
  <2>1. PICK d \in F : b \in Span(d[1], d[2])
    BY CoveredBy
  <2>2. Span(c[1], c[2]) \cap Span(d[1], d[2]) = {}
    BY <1>1, <2>1 DEF Apart
  <2> QED  BY <1>1, <1>2, <2>1, <2>2, CoveredInPool
<1>3. SameFree(p, q, Covered(F))
  BY <1>2 DEF SameFree, Wrote
<1>4. Listed(q, F)
  BY <1>1, <1>3, FrameListed
<1> QED  BY <1>4 DEF Sound, Wrote

\* The pool with other words.
Rewritten(p, mg, pf, nf, tr) ==
  [p EXCEPT !.magic = mg, !.prev = pf, !.next = nf, !.trailer = tr]

\* Its members.
LEMMA OtherWords ==
  ASSUME NEW p \in PoolType, NEW mg \in [Block -> BOOLEAN], NEW pf \in [Block -> Int],
         NEW nf \in [Block -> Int], NEW tr \in [Block -> Int]
  PROVE  LET q == Rewritten(p, mg, pf, nf, tr)
         IN  /\ q \in PoolType /\ q.map = p.map /\ q.free = p.free /\ q.list = p.list
             /\ q.magic = mg /\ q.prev = pf /\ q.next = nf /\ q.trailer = tr
<1>0. PICK q : q = Rewritten(p, mg, pf, nf, tr)
  OBVIOUS
<1>1. /\ p.map \in SUBSET Block /\ p.list \in [Sizes -> Block \cup {OURNULL}]
      /\ p.free \in Int
      /\ p = [map |-> p.map, list |-> p.list, magic |-> p.magic, prev |-> p.prev,
              next |-> p.next, trailer |-> p.trailer, free |-> p.free]
  BY PoolFields
<1>2. q = [map |-> p.map, list |-> p.list, magic |-> mg, prev |-> pf,
           next |-> nf, trailer |-> tr, free |-> p.free]
  BY <1>0, <1>1 DEF Rewritten
<1>3. q \in PoolType
  BY <1>1, <1>2 DEF PoolType
<1> QED  BY <1>0, <1>2, <1>3

\* The owner's data goes into the owner's chunk.
LEMMA WrittenSound ==
  ASSUME NEW p, NEW L, NEW F, NEW U, Sound(p, L, F, U), NEW x, NEW k, << x, k >> \in L
  PROVE  Sound(Written(p, x, k), L, F, U)
<1> DEFINE look == userData = "lookalike"
           Put(f, v) == [b \in Block |-> IF b \in Span(x, k) THEN v ELSE f[b]]
           mg == Put(p.magic, look)
           pf == Put(p.prev, IF look THEN OURNULL ELSE Garbage)
           nf == Put(p.next, IF look THEN OURNULL ELSE Garbage)
           tr == Put(p.trailer, IF look THEN 0 ELSE Garbage)
           q == Written(p, x, k)
<1>1. CASE userData = "untouched"
  BY <1>1 DEF Written
<1>2. CASE userData # "untouched"
  <2>1. p \in PoolType
    BY DEF Sound
  <2>2. /\ p.magic \in [Block -> BOOLEAN] /\ p.prev \in [Block -> Int]
        /\ p.next \in [Block -> Int] /\ p.trailer \in [Block -> Int]
    BY <2>1, PoolFields
  <2>3. q = Rewritten(p, mg, pf, nf, tr)
    BY <1>2 DEF Written, Rewritten
  <2>4. mg \in [Block -> BOOLEAN] /\ \A b \in Block \ Span(x, k) : mg[b] = p.magic[b]
    BY <2>2, Zenon
  <2>5. /\ pf \in [Block -> Int] /\ nf \in [Block -> Int] /\ tr \in [Block -> Int]
        /\ \A b \in Block \ Span(x, k) :
             pf[b] = p.prev[b] /\ nf[b] = p.next[b] /\ tr[b] = p.trailer[b]
    BY <2>2, Constants
  <2> HIDE DEF mg, pf, nf, tr, q
  <2>6. /\ q \in PoolType /\ q.map = p.map /\ q.free = p.free /\ q.list = p.list
        /\ q.magic = mg /\ q.prev = pf /\ q.next = nf /\ q.trailer = tr
    BY <2>1, <2>3, <2>4, <2>5, OtherWords
  <2>7. Wrote(p, q, Span(x, k))
    BY <2>4, <2>5, <2>6 DEF Wrote
  <2>8. PICK c \in L : c[1] = x /\ c[2] = k
    OBVIOUS
  <2>9. Span(x, k) \subseteq Span(c[1], c[2])
    BY <2>8
  <2>10. Sound(q, L, F, U)
    BY <2>7, <2>9, WroteSound
  <2> QED  BY <2>10 DEF q
<1> QED  BY <1>1, <1>2

\* Realloc's copy goes into the new chunk.
LEMMA CopySound ==
  ASSUME NEW p, NEW L, NEW F, NEW U, Sound(p, L, F, U), NEW c \in L, NEW d \in L,
         c[2] <= d[2]
  PROVE  LET q == Copy(p, c[1], d[1], 2^c[2])
         IN  /\ Sound(q, L, F, U) /\ Same(p, q, Covered(L \ {d}))
             /\ Moved(p, q, c[1], d[1], 2^c[2])
<1> DEFINE x == c[1]
           y == d[1]
           n == 2^c[2]
           B == y..(y + n - 1)
           Src(f) == [b \in Block |-> IF b \in B THEN f[b - y + x] ELSE f[b]]
           q == Copy(p, x, y, n)
<1>1. p \in PoolType /\ L \subseteq Aligned
  BY DEF Sound, Split
<1>2. /\ p.magic \in [Block -> BOOLEAN] /\ p.prev \in [Block -> Int]
      /\ p.next \in [Block -> Int] /\ p.trailer \in [Block -> Int]
  BY <1>1, PoolFields
<1>3. /\ x \in Nat /\ y \in Nat /\ c[2] \in Nat /\ d[2] \in Nat
      /\ x + n <= PoolBlocks
  BY <1>1, ChunkPair
<1>4. n \in Nat /\ 2^d[2] \in Nat /\ n <= 2^d[2]
  BY <1>3, PowType, PowGrows
<1>5. q = [p EXCEPT !.magic = Src(@), !.prev = Src(@), !.next = Src(@), !.trailer = Src(@)]
  BY DEF Copy
<1>6. B \subseteq Span(y, d[2])
  <2>1. \A z : z \in Span(y, d[2]) <=> z \in Nat /\ y <= z /\ z < y + 2^d[2]
    BY <1>3, SpanFacts
  <2> HIDE DEF x, y, n
  <2> QED  BY <1>3, <1>4, <2>1
<1>7. ASSUME NEW b \in B PROVE b - y + x \in Block
  <2>1. b - y + x \in Nat /\ b - y + x < PoolBlocks
    <3> HIDE DEF x, y, n
    <3> QED  BY <1>3, <1>4, <1>7, Constants
  <2> QED  BY <2>1, Constants
<1> HIDE DEF x, y, n, B
<1>8. ASSUME NEW S, NEW f \in [Block -> S]
      PROVE  /\ Src(f) \in [Block -> S] /\ \A b \in Block \ B : Src(f)[b] = f[b]
             /\ \A b \in Block \cap B : Src(f)[b] = f[b - y + x]
  BY <1>7
<1> HIDE DEF q
<1>9. PICK mg, pf, nf, tr : /\ mg = Src(p.magic) /\ pf = Src(p.prev)
                            /\ nf = Src(p.next) /\ tr = Src(p.trailer)
  OBVIOUS
<1>10. q = Rewritten(p, mg, pf, nf, tr)
  BY <1>5, <1>9 DEF Rewritten
<1> HIDE DEF Src
<1>11. /\ mg \in [Block -> BOOLEAN] /\ \A b \in Block \ B : mg[b] = p.magic[b]
       /\ \A b \in Block \cap B : mg[b] = p.magic[b - y + x]
  BY <1>2, <1>8, <1>9
<1>12. /\ pf \in [Block -> Int] /\ nf \in [Block -> Int] /\ tr \in [Block -> Int]
       /\ \A b \in Block \ B :
            pf[b] = p.prev[b] /\ nf[b] = p.next[b] /\ tr[b] = p.trailer[b]
       /\ \A b \in Block \cap B :
            /\ pf[b] = p.prev[b - y + x] /\ nf[b] = p.next[b - y + x]
            /\ tr[b] = p.trailer[b - y + x]
  BY <1>2, <1>8, <1>9
<1>13. /\ q \in PoolType /\ q.map = p.map /\ q.free = p.free /\ q.list = p.list
       /\ q.magic = mg /\ q.prev = pf /\ q.next = nf /\ q.trailer = tr
  BY <1>1, <1>10, <1>11, <1>12, OtherWords
<1>14. Wrote(p, q, B)
  BY <1>11, <1>12, <1>13 DEF Wrote
<1>15. Sound(q, L, F, U)
  BY <1>6, <1>14, WroteSound DEF y
<1>16. Same(p, q, Covered(L \ {d}))
  <2> SUFFICES ASSUME NEW b \in Covered(L \ {d}) PROVE b \in Block \ B
    BY <1>14 DEF Same, Wrote
  <2>1. PICK f \in L \ {d} : b \in Span(f[1], f[2])
    BY CoveredBy
  <2>2. Apart(L)
    BY ApartSubset DEF Sound, Split
  <2>3. Span(f[1], f[2]) \cap Span(d[1], d[2]) = {}
    BY <2>1, <2>2 DEF Apart
  <2>4. Span(f[1], f[2]) \subseteq Block
    BY <1>1, <2>1, ChunkPair
  <2> QED  BY <1>6, <2>1, <2>3, <2>4 DEF y
<1>17. Moved(p, q, x, y, n)
  <2> SUFFICES ASSUME NEW i \in 0..(n - 1)
               PROVE  /\ q.magic[y + i] = p.magic[x + i] /\ q.prev[y + i] = p.prev[x + i]
                      /\ q.next[y + i] = p.next[x + i] /\ q.trailer[y + i] = p.trailer[x + i]
    BY DEF Moved
  <2>1. PICK b : b = y + i
    OBVIOUS
  <2>2. b \in B /\ b - y + x = x + i
    BY <1>3, <1>4, <2>1 DEF B
  <2>3. b \in Block
    <3>1. Span(d[1], d[2]) \subseteq Block
      BY <1>1, ChunkPair
    <3> QED  BY <1>6, <2>2, <3>1 DEF y
  <2>4. mg[b] = p.magic[x + i]
    BY <1>11, <2>2, <2>3
  <2>5. pf[b] = p.prev[x + i] /\ nf[b] = p.next[x + i] /\ tr[b] = p.trailer[x + i]
    BY <1>12, <2>2, <2>3
  <2> QED  BY <1>13, <2>1, <2>4, <2>5
<1> QED  BY <1>15, <1>16, <1>17 DEF q, x, y, n

\* The end of a further chunk.
LEMMA EndsOneMore ==
  ASSUME NEW L, NEW x, NEW k
  PROVE  Ends(L \cup {<< x, k >>}) = Ends(L) \cup {x + 2^k - 1}
<1>1. PICK c : c = << x, k >>
  OBVIOUS
<1>2. c[1] = x /\ c[2] = k
  BY <1>1
<1>3. Ends(L \cup {c}) = Ends(L) \cup {c[1] + 2^c[2] - 1}
  BY DEF Ends
<1> QED  BY <1>1, <1>2, <1>3

\* A chunk in use made smaller: its rest is freed.
LEMMA ShrinkSound ==
  ASSUME NEW p, NEW L, NEW F, NEW U, Sound(p, L, F, U), NEW c \in L,
         NEW can \in Nat, can < c[2]
  PROVE  LET q == ToFree(Shrunk(p, c[1], can, c[2]), c[1] + 2^can, c[1] + 2^c[2])
             M == (L \ {c}) \cup {<< c[1], can >>}
         IN  Same(p, q, Covered(M)) /\ \E G : Sound(q, M, G, U)
<1>0. PICK x, k, M, e, d : /\ x = c[1] /\ k = c[2] /\ M = L \ {c}
                           /\ e = c[1] + 2^c[2] - 1 /\ d = x + 2^can - 1
  OBVIOUS
<1>1. /\ p \in PoolType /\ F \subseteq Aligned /\ L \subseteq Aligned /\ Listed(p, F)
      /\ p.map \subseteq Block /\ p.free = Cardinality(Covered(F))
  BY PoolFields DEF Sound, Split
<1>2. x \in Nat /\ k \in Nat /\ can \in Nat /\ can < k /\ x + 2^k <= PoolBlocks
  BY <1>0, <1>1, ChunkPair
<1>3. 2^can \in Nat /\ 2^can >= 1 /\ 2^k \in Nat /\ 2^can + 2^can <= 2^k
  BY <1>2, PowType, PowGrows
<1>4. d \in Block /\ d # e
  <2>1. d \in Nat /\ d < PoolBlocks /\ d # e
    BY <1>0, <1>2, <1>3, Constants
  <2> QED  BY <2>1, Constants
<1>5. PICK m, n : m = p.map \ {e} /\ n = (p.map \cup {d}) \ {e}
  OBVIOUS
<1>6. m \subseteq Block /\ n \subseteq Block /\ n = m \cup {d}
  BY <1>1, <1>4, <1>5
<1>7. PICK q : q = [p EXCEPT !.map = m]
  OBVIOUS
<1>8. PICK r : r = [p EXCEPT !.map = n]
  OBVIOUS
<1>9. q \in PoolType /\ q.map = m /\ Listed(q, F)
  BY <1>1, <1>6, <1>7, Remapped
<1>10. /\ r \in PoolType /\ r.map = n /\ r.free = p.free /\ Listed(r, F)
       /\ \A S : Same(p, r, S)
  BY <1>1, <1>6, <1>8, Remapped
<1>11. Shrunk(p, x, can, k) = r
  BY <1>0, <1>5, <1>8 DEF Shrunk
<1>12. Hole(q, M, F, U, x, k) /\ q.map = U \cup Ends(M)
  <2>1. Cleared(p, q, F, c)
    BY <1>0, <1>5, <1>9 DEF Cleared
  <2>2. Hole(q, L \ {c}, F, U, c[1], c[2]) /\ Marks(q, L \ {c}, U)
    BY <2>1, FreeHole, Zenon
  <2> QED  BY <1>0, <2>2 DEF Marks
<1>13. Hole(r, M, F, U, x, k)
  BY <1>10, <1>12 DEF Hole
<1>14. r.map = U \cup Ends(M \cup {<< x, can >>})
  <2>1. Ends(M \cup {<< x, can >>}) = Ends(M) \cup {d}
    BY <1>0, EndsOneMore
  <2> QED  BY <1>6, <1>9, <1>10, <1>12, <2>1
<1>15. LET t == ToFree(r, x + 2^can, x + 2^k)
       IN  /\ Same(r, t, Covered(M \cup {<< x, can >>}))
           /\ \E G : Sound(t, M \cup {<< x, can >>}, G, U)
  <2>1. can \in Nat /\ can <= k /\ r.free = Cardinality(Covered(F))
    BY <1>1, <1>2, <1>10
  <2> QED  BY <1>13, <1>14, <2>1, Carve
<1>16. PICK t, S : /\ t = ToFree(r, x + 2^can, x + 2^k)
                   /\ S = Covered(M \cup {<< x, can >>})
  OBVIOUS
<1>17. Same(p, t, S)
  BY <1>10, <1>15, <1>16, SameTwice
<1> QED  BY <1>0, <1>11, <1>15, <1>16, <1>17

\* The lesser of two numbers.
LEMMA MinOf ==
  ASSUME NEW a \in Nat, NEW b \in Nat, a <= b
  PROVE  Min({a, b}) = a /\ Min({b, a}) = a
<1>1. {a, b} = {b, a} /\ {a, b} \subseteq Nat /\ {a, b} # {}
  OBVIOUS
<1>2. Min({a, b}) \in {a, b} /\ \A y \in {a, b} : Min({a, b}) <= y
  BY <1>1, MinFacts
<1> QED  BY <1>1, <1>2

\* Data that stays where it is.
LEMMA InPlace ==
  ASSUME NEW p, NEW q, NEW x \in Nat, NEW k \in Nat, Same(p, q, Span(x, k))
  PROVE  Moved(p, q, x, x, 2^k)
<1>1. 2^k \in Nat
  BY PowType
<1>2. ASSUME NEW i \in 0..(2^k - 1) PROVE x + i \in Span(x, k)
  <2>1. i \in Nat /\ x + i \in Nat /\ x <= x + i /\ x + i < x + 2^k
    BY <1>1
  <2> QED  BY <2>1, SpanFacts
<1> QED  BY <1>2 DEF Same, Moved

\* Data that is copied later.
LEMMA MovedFrom ==
  ASSUME NEW p, NEW q, NEW r, NEW x \in Nat, NEW k \in Nat, Same(p, q, Span(x, k)),
         NEW y, Moved(q, r, x, y, 2^k)
  PROVE  Moved(p, r, x, y, 2^k)
<1>1. 2^k \in Nat
  BY PowType
<1>2. ASSUME NEW i \in 0..(2^k - 1) PROVE x + i \in Span(x, k)
  <2>1. i \in Nat /\ x + i \in Nat /\ x <= x + i /\ x + i < x + 2^k
    BY <1>1
  <2> QED  BY <2>1, SpanFacts
<1> QED  BY <1>2 DEF Same, Moved

\* Data that stays where it was copied.
LEMMA MovedTo ==
  ASSUME NEW p, NEW q, NEW r, NEW x, NEW k \in Nat, NEW y \in Nat, NEW m \in Nat, k <= m,
         Moved(p, q, x, y, 2^k), Same(q, r, Span(y, m))
  PROVE  Moved(p, r, x, y, 2^k)
<1>1. 2^k \in Nat /\ 2^m \in Nat /\ 2^k <= 2^m
  BY PowType, PowGrows
<1>2. ASSUME NEW i \in 0..(2^k - 1) PROVE y + i \in Span(y, m)
  <2>1. i \in Nat /\ y + i \in Nat /\ y <= y + i /\ y + i < y + 2^m
    BY <1>1
  <2> QED  BY <2>1, SpanFacts
<1> QED  BY <1>2 DEF Same, Moved

\* Realloc of a chunk in use puts a chunk of the new size class in its place, or leaves
\* the pool as it is.
LEMMA ReallocMoves ==
  ASSUME NEW p, NEW L, NEW F, NEW U, Sound(p, L, F, U), NEW c \in L, NEW n \in Nat \ {0}
  PROVE  LET a == Realloc(p, c[1], n)
         IN  \/ a.pool = p /\ a.ret \in Refusals
             \/ /\ a.ret = "kIOReturnSuccess" /\ Same(p, a.pool, Covered(L \ {c}))
                /\ Moved(p, a.pool, c[1], a.off, 2^Min({c[2], BitsFor(n)}))
                /\ \E G : Sound(a.pool, (L \ {c}) \cup {<< a.off, BitsFor(n) >>}, G, U)
<1> DEFINE x == c[1]
           k == c[2]
           can == BitsFor(n)
           grown == Malloc(p, n)
           copied == Copy(grown.pool, x, grown.off, 2^k)
           freed == Free(copied, x)
           shrunk == ToFree(Shrunk(p, x, can, k), x + 2^can, x + 2^k)
<1>1. AllocSizes(p, x) = {k} /\ Min({k}) = k
  BY AllocSizesOne
<1>2. Realloc(p, x, n) =
        IF 2^k >= n
        THEN IF can >= k THEN Answer(p, "kIOReturnSuccess", x)
             ELSE Answer(shrunk, "kIOReturnSuccess", x)
        ELSE IF grown.ret # "kIOReturnSuccess" THEN grown
        ELSE IF freed.ret # "kIOReturnSuccess"
             THEN Answer(Free(freed.pool, grown.off).pool, freed.ret, grown.off)
             ELSE Answer(freed.pool, "kIOReturnSuccess", grown.off)
  BY <1>1 DEF Realloc
<1>3. c \in Aligned /\ c = << x, k >> /\ k \in Nat /\ x \in Nat
  <2>1. c \in Aligned
    BY DEF Sound, Split
  <2> QED  BY <2>1, ChunkPair
<1>4. can \in Nat /\ 2^can >= n /\ \A j \in Nat : 2^j >= n => can <= j
  BY BitsForFacts
<1> HIDE DEF can
<1>5. CASE 2^k >= n /\ can >= k
  <2>1. can = k
    BY <1>3, <1>4, <1>5
  <2>2. Realloc(p, x, n) = Answer(p, "kIOReturnSuccess", x)
    BY <1>2, <1>5
  <2>3. (L \ {c}) \cup {<< x, can >>} = L
    BY <1>3, <2>1
  <2>4. Sound(p, (L \ {c}) \cup {<< x, can >>}, F, U)
    BY <2>3
  <2>5. Same(p, p, Covered(L \ {c})) /\ \A i : Moved(p, p, x, x, i)
    BY DEF Same, Moved
  <2> QED  BY <2>2, <2>4, <2>5 DEF Answer, can
<1>6. CASE 2^k >= n /\ ~(can >= k)
  <2>1. Realloc(p, x, n) = Answer(shrunk, "kIOReturnSuccess", x)
    BY <1>2, <1>6
  <2>2. can < k
    BY <1>3, <1>4, <1>6
  <2>3. PICK M : M = (L \ {c}) \cup {<< x, can >>}
    OBVIOUS
  <2>4. Same(p, shrunk, Covered(M)) /\ \E G : Sound(shrunk, M, G, U)
    BY <1>4, <2>2, <2>3, ShrinkSound
  <2>5. Covered(M) = Covered(L \ {c}) \cup Span(x, can)
    BY <2>3, CoveredMore
  <2> HIDE DEF shrunk, x, k
  <2>6. Same(p, shrunk, Covered(L \ {c})) /\ Same(p, shrunk, Span(x, can))
    BY <2>4, <2>5 DEF Same
  <2>7. Moved(p, shrunk, x, x, 2^can)
    BY <1>3, <1>4, <2>6, InPlace
  <2>8. Min({k, can}) = can
    BY <1>3, <1>4, <2>2, MinOf
  <2> QED  BY <2>1, <2>3, <2>4, <2>6, <2>7, <2>8 DEF Answer, can, x, k
<1>7. CASE ~(2^k >= n) /\ grown.ret # "kIOReturnSuccess"
  <2>1. Realloc(p, x, n) = grown
    BY <1>2, <1>7
  <2>2. \/ grown.pool = p /\ grown.ret \in Refusals
        \/ Got(p, grown, BitsFor(n), L, U)
    BY MallocTakes
  <2>3. grown.pool = p /\ grown.ret \in Refusals
    BY <1>7, <2>2 DEF Got
  <2> QED  BY <2>1, <2>3
<1>8. CASE ~(2^k >= n) /\ grown.ret = "kIOReturnSuccess"
  <2>1. \/ grown.pool = p /\ grown.ret \in Refusals
        \/ Got(p, grown, BitsFor(n), L, U)
    BY MallocTakes
  <2> HIDE DEF grown
  <2>2. PICK d, K : d = << grown.off, can >> /\ K = L \cup {d}
    OBVIOUS
  <2>3. /\ d \notin L /\ Same(p, grown.pool, Covered(L))
        /\ \E G : Sound(grown.pool, K, G, U)
    BY <1>8, <2>1, <2>2 DEF Got, can, Refusals
  <2>4. PICK G : Sound(grown.pool, K, G, U)
    BY <2>3
  <2>5. c \in K /\ d \in K /\ d[1] = grown.off /\ d[2] = can
    BY <2>2
  <2>6. k <= can
    <3> SUFFICES ASSUME can < k PROVE FALSE
      BY <1>3, <1>4
    <3>1. 2^can \in Nat /\ 2^k \in Nat /\ 2^can + 2^can <= 2^k
      BY <1>3, <1>4, PowGrows, PowType
    <3> HIDE DEF k
    <3> QED  BY <1>4, <1>8, <3>1
  <2>7. LET q == Copy(grown.pool, c[1], d[1], 2^c[2])
        IN  /\ Sound(q, K, G, U) /\ Same(grown.pool, q, Covered(K \ {d}))
            /\ Moved(grown.pool, q, c[1], d[1], 2^c[2])
    BY <2>4, <2>5, <2>6, CopySound
  <2>8. /\ Sound(copied, K, G, U) /\ Same(grown.pool, copied, Covered(L))
        /\ Moved(grown.pool, copied, x, d[1], 2^k)
    <3>1. K \ {d} = L
      BY <2>2, <2>3
    <3> QED  BY <2>5, <2>7, <3>1
  <2> HIDE DEF copied
  <2>9. /\ freed.ret = "kIOReturnSuccess" /\ Same(copied, freed.pool, Covered(K \ {c}))
        /\ \E H : Sound(freed.pool, K \ {c}, H, U)
    BY <2>5, <2>8, FreeSucceeds
  <2> HIDE DEF freed
  <2>10. K \ {c} = (L \ {c}) \cup {<< grown.off, can >>}
    BY <2>2, <2>3
  <2>11. Realloc(p, x, n) = Answer(freed.pool, "kIOReturnSuccess", grown.off)
    BY <1>2, <1>8, <2>9
  <2>12. Covered(K \ {c}) = Covered(L \ {c}) \cup Span(d[1], can)
    <3>1. PICK M : M = L \ {c}
      OBVIOUS
    <3>2. K \ {c} = M \cup {<< d[1], can >>}
      BY <2>5, <2>10, <3>1
    <3>3. Covered(K \ {c}) = Covered(M) \cup Span(d[1], can)
      BY <3>2, CoveredMore
    <3> QED  BY <3>1, <3>3
  <2>13. Same(p, freed.pool, Covered(L \ {c}))
    <3>1. PICK S, T, V : S = Covered(L) /\ T = Covered(K \ {c}) /\ V = Covered(L \ {c})
      OBVIOUS
    <3>2. V \subseteq S /\ V \subseteq T
      BY <2>12, <3>1, CoveredBy
    <3>3. Same(p, copied, S)
      BY <2>3, <2>8, <3>1, SameTwice
    <3> QED  BY <2>9, <3>1, <3>2, <3>3, SameTwice
  <2>14. Same(copied, freed.pool, Span(d[1], can))
    BY <2>9, <2>12 DEF Same
  <2>15. Moved(p, freed.pool, x, d[1], 2^k)
    <3>1. d \in Aligned
      BY <2>4, <2>5 DEF Sound, Split
    <3>2. d[1] \in Nat
      BY <3>1, ChunkPair
    <3>3. Span(x, k) \subseteq Covered(L)
      BY CoveredBy
    <3> HIDE DEF x, k
    <3>4. Same(p, grown.pool, Span(x, k))
      BY <2>3, <3>3 DEF Same
    <3>5. Moved(p, copied, x, d[1], 2^k)
      BY <1>3, <2>8, <3>4, MovedFrom
    <3> QED  BY <1>3, <1>4, <2>6, <2>14, <3>2, <3>5, MovedTo
  <2>16. Min({k, can}) = k
    <3> HIDE DEF k
    <3> QED  BY <1>3, <1>4, <2>6, MinOf
  <2>17. PICK a : a = Realloc(p, x, n)
    OBVIOUS
  <2>18. a.ret = "kIOReturnSuccess" /\ a.pool = freed.pool /\ a.off = d[1]
    BY <2>5, <2>11, <2>17 DEF Answer
  <2>19. \E G1 : Sound(a.pool, (L \ {c}) \cup {<< a.off, can >>}, G1, U)
    BY <2>5, <2>9, <2>10, <2>18
  <2>20. Same(p, a.pool, Covered(L \ {c})) /\ Moved(p, a.pool, x, a.off, 2^Min({k, can}))
    BY <2>13, <2>15, <2>16, <2>18
  <2> QED  BY <2>17, <2>18, <2>19, <2>20 DEF can
<1> QED  BY <1>5, <1>6, <1>7, <1>8

-----------------------------------------------------------------------------
(* setupAllocator. *)

\* Nothing is free after Init.
LEMMA EmptySound == Sound(EmptyPool, {}, {}, Block)
<1>1. EmptyPool \in PoolType
  BY Constants DEF EmptyPool, PoolType
<1>2. Covered({}) = {} /\ Apart({}) /\ Ends({}) = {} /\ {} \cup {} = {}
  BY DEF Covered, Apart, Ends
<1>3. Split({}, {}, Block) /\ Block \cup Covered({} \cup {}) = Block
  BY <1>2 DEF Split
<1>4. Cardinality({}) = 0
  BY FS_EmptySet
<1>5. Listed(EmptyPool, {})
  <2>1. \A k \in Sizes : EmptyPool.list[k] = OURNULL /\ OfSize({}, k) = {}
    BY DEF EmptyPool, OfSize
  <2> QED  BY <2>1 DEF Listed, ListOf, Linked
<1>6. NoBuddies({})
  BY DEF NoBuddies
<1>7. EmptyPool.map = Block /\ EmptyPool.free = 0
  BY DEF EmptyPool
<1> QED  BY <1>1, <1>2, <1>3, <1>4, <1>5, <1>6, <1>7 DEF Sound

\* What Release counts on: the blocks of run, which are not the allocator's and leave W,
\* are released first, or they are the lowest part of the pool, which is aligned for the
\* largest size.
Releasable(p, F, V, first, past, run, W) ==
  /\ Sound(p, {}, F, V) /\ run = first..(past - 1) /\ run \subseteq V /\ W = V \ run
  /\ first \in Nat /\ past \in Nat /\ first <= past /\ past <= PoolBlocks
  /\ F = {} \/ (past <= Reserve /\ \A z \in Covered(F) : z >= Reserve)

\* Release frees the run.
LEMMA ReleaseSound ==
  ASSUME NEW p, NEW F, NEW V, NEW first, NEW past, NEW run, NEW W,
         Releasable(p, F, V, first, past, run, W)
  PROVE  \E G : /\ Sound(Release(p, first, past), {}, G, W)
                /\ Covered(G) = Covered(F) \cup run
<1> USE DEF Releasable
<1>0. PICK q : q = [p EXCEPT !.map = W]
  OBVIOUS
<1> DEFINE r == ToFree(q, first, past)
<1>1. /\ p \in PoolType /\ F \subseteq Aligned /\ Apart(F) /\ V \subseteq Block
      /\ V \cap Covered(F) = {} /\ V \cup Covered(F) = Block /\ p.map = V
      /\ p.free = Cardinality(Covered(F)) /\ Listed(p, F) /\ NoBuddies(F)
  <2>1. {} \cup F = F /\ Ends({}) = {}
    BY DEF Ends
  <2> QED  BY <2>1 DEF Sound, Split
<1>2. Release(p, first, past) = r
  BY <1>0, <1>1 DEF Release
<1>3. q \in PoolType /\ q.map = W /\ q.free = p.free /\ Listed(q, F)
  <2>1. W \subseteq Block
    BY <1>0, <1>1
  <2> HIDE DEF Releasable
  <2> QED  BY <1>0, <1>1, <2>1, Remapped
<1>4. Covered(F) \cap (first..(past - 1)) = {}
  BY <1>1
<1>5. Freeable(q, F, first, past)
  BY <1>1, <1>3, <1>4 DEF Freeable
<1>6. PICK N \in SUBSET Aligned :
        /\ r \in PoolType /\ r.map = q.map /\ r.free = q.free + (past - first)
        /\ Cut(N, first, past, past) /\ Listed(r, F \cup N)
  BY <1>5, ToFreeFrees
<1> HIDE DEF r
<1>7. N \subseteq Aligned /\ Apart(N) /\ Covered(N) = first..(past - 1) /\ NoBuddies(N)
  <2>1. N \subseteq Aligned /\ Apart(N) /\ Covered(N) = first..(past - 1)
    BY <1>6 DEF Cut
  <2>2. NoBuddies(N)
    BY <1>6, CutNoBuddies DEF NoBuddies
  <2> QED  BY <2>1, <2>2
<1>8. Covered(F) \cap Covered(N) = {} /\ Covered(F \cup N) = Covered(F) \cup Covered(N)
  BY <1>4, <1>7, CoveredUnion
<1>9. r.free = Cardinality(Covered(F \cup N))
  BY <1>1, <1>3, <1>6, <1>7, <1>8, CutSize
<1>10. NoBuddies(F \cup N)
  <2>1. ASSUME NEW c \in N, NEW d \in F, c[2] < NumSizes - 1,
               d[2] = c[2], d[1] = Buddy(c[1], c[2])
        PROVE  FALSE
    <3> DEFINE top == NumSizes - 1
    <3>1. top \in Nat /\ 2^top \in Nat /\ Reserve = 2^top /\ 2^top >= 1
      BY Constants, PoolAssumption, PowType
    <3>2. /\ c[1] \in Nat /\ c[2] \in Nat /\ c[1] % 2^c[2] = 0
          /\ c[1] \in Span(c[1], c[2])
      BY <1>7, ChunkPair, SpanFacts
    <3>3. past <= Reserve /\ \A z \in Covered(F) : z >= Reserve
      BY <2>1
    <3>4. c[1] \in first..(past - 1)
      BY <1>7, <3>2, CoveredBy
    <3> HIDE DEF top
    <3>5. 0 % 2^top = 0
      BY <3>1, ModZero
    <3>6. c[1] \in Span(0, top)
      <4>1. c[1] < 0 + 2^top /\ 0 <= c[1]
        BY <3>1, <3>2, <3>3, <3>4
      <4> QED  BY <3>1, <3>2, <4>1, SpanFacts
    <3>7. c[2] < top
      BY <2>1 DEF top
    <3>8. Span(Buddy(c[1], c[2]), c[2]) \subseteq Span(0, top)
      <4>1. Span(c[1], c[2]) \cap Span(0, top) # {}
        BY <3>2, <3>6
      <4> QED  BY <3>1, <3>2, <3>5, <3>7, <4>1, BuddyInside
    <3>9. d[1] \in Span(d[1], d[2])
      BY <1>1, ChunkPair, SpanFacts
    <3>10. d[1] \in Covered(F) /\ d[1] \in Span(0, top)
      BY <2>1, <3>8, <3>9, CoveredBy
    <3>11. d[1] < 0 + 2^top /\ d[1] \in Nat
      BY <3>1, <3>10, SpanFacts
    <3> QED  BY <3>1, <3>3, <3>10, <3>11
  <2> QED  BY <1>1, <1>7, <2>1, BuddiesApart
<1>11. Split({}, F \cup N, W) /\ W \cup Covered({} \cup (F \cup N)) = Block
  <2>1. {} \cup (F \cup N) = F \cup N /\ F \cup N \subseteq Aligned
    BY <1>1, <1>7
  <2>2. Apart(F \cup N)
    BY <1>1, <1>7, <1>8, ApartUnion
  <2>3. /\ W \subseteq Block /\ W \cap Covered(F \cup N) = {}
        /\ W \cup Covered(F \cup N) = Block
    BY <1>0, <1>1, <1>7, <1>8
  <2> QED  BY <2>1, <2>2, <2>3 DEF Split
<1>12. r.map = W \cup Ends({})
  BY <1>3, <1>6 DEF Ends
<1>13. Sound(r, {}, F \cup N, W)
  BY <1>6, <1>9, <1>10, <1>11, <1>12 DEF Sound
<1> QED  BY <1>0, <1>2, <1>7, <1>8, <1>13

\* The memory that setupAllocator never releases.
Kept == {{}, 0..(Reserve - 1), Block}

\* setupAllocator leaves a sound pool with nothing in use.
LEMMA SetupSound ==
  ASSUME NEW h \in BOOLEAN
  PROVE  \E U \in Kept : \E G : Sound(SetupAllocator(h), {}, G, U)
<1>1. Reserve \in Nat /\ Reserve >= 1 /\ PoolBlocks \in Nat
  BY Constants, PoolAssumption, PowType
<1>2. Covered({}) = {}
  BY DEF Covered
<1> DEFINE upper == Release(EmptyPool, Reserve, PoolBlocks)
           p == IF Reserve < PoolBlocks THEN upper ELSE EmptyPool
           least == Min({Reserve, PoolBlocks})
<1>3. Block = 0..(PoolBlocks - 1)
  BY DEF Block
<1>4. ASSUME Reserve < PoolBlocks
      PROVE  \E G : /\ Sound(upper, {}, G, 0..(Reserve - 1))
                    /\ Covered(G) = Reserve..(PoolBlocks - 1)
  <2>2. PICK run, W : run = Reserve..(PoolBlocks - 1) /\ W = 0..(Reserve - 1)
    OBVIOUS
  <2>3. run \subseteq Block /\ W = Block \ run
    BY <1>1, <1>3, <1>4, <2>2
  <2>4. run = Reserve..(PoolBlocks - 1)
    BY <2>2
  <2>5. PICK G : Sound(upper, {}, G, W) /\ Covered(G) = Covered({}) \cup run
    <3>1. Releasable(EmptyPool, {}, Block, Reserve, PoolBlocks, run, W)
      BY <1>1, <1>4, <2>3, <2>4, EmptySound DEF Releasable
    <3> QED  BY <3>1, ReleaseSound DEF upper
  <2> HIDE DEF upper
  <2> QED  BY <1>2, <2>2, <2>5
<1>5. least = IF Reserve < PoolBlocks THEN Reserve ELSE PoolBlocks
  <2>1. {Reserve, PoolBlocks} \subseteq Nat /\ {Reserve, PoolBlocks} # {}
    BY <1>1
  <2>2. least \in {Reserve, PoolBlocks} /\ \A y \in {Reserve, PoolBlocks} : least <= y
    BY <2>1, MinFacts
  <2> HIDE DEF least
  <2> QED  BY <1>1, <2>2
<1>6. SetupAllocator(h) = IF h THEN Release(p, 0, least) ELSE p
  BY DEF SetupAllocator
<1> HIDE DEF upper, least
<1>7. CASE Reserve < PoolBlocks
  <2>1. p = upper /\ least = Reserve
    BY <1>5, <1>7
  <2>2. PICK G : /\ Sound(upper, {}, G, 0..(Reserve - 1))
                 /\ Covered(G) = Reserve..(PoolBlocks - 1)
    BY <1>4, <1>7
  <2>3. CASE ~h
    BY <1>6, <2>1, <2>2, <2>3 DEF Kept
  <2>4. CASE h
    <3>1. \A z \in Covered(G) : z >= Reserve
      BY <1>1, <2>2
    <3>2. PICK run, W : run = 0..(Reserve - 1) /\ W = {}
      OBVIOUS
    <3>3. run \subseteq run /\ W = run \ run /\ run = 0..(Reserve - 1)
      BY <3>2
    <3>4. Sound(upper, {}, G, run)
      BY <2>2, <3>2
    <3>5. PICK H : Sound(Release(upper, 0, Reserve), {}, H, W)
      <4>1. Releasable(upper, G, run, 0, Reserve, run, W)
        BY <1>1, <1>7, <3>1, <3>3, <3>4 DEF Releasable
      <4> QED  BY <4>1, ReleaseSound
    <3> QED  BY <1>6, <2>1, <2>4, <3>2, <3>5 DEF Kept
  <2> QED  BY <2>3, <2>4
<1>8. CASE ~(Reserve < PoolBlocks)
  <2>1. p = EmptyPool /\ least = PoolBlocks
    BY <1>5, <1>8
  <2>2. CASE ~h
    BY <1>6, <2>1, <2>2, EmptySound DEF Kept
  <2>3. CASE h
    <3>1. PICK run, W : run = 0..(PoolBlocks - 1) /\ W = {}
      OBVIOUS
    <3>2. run \subseteq Block /\ W = Block \ run /\ run = 0..(PoolBlocks - 1)
      BY <1>3, <3>1
    <3>3. PICK H : Sound(Release(EmptyPool, 0, PoolBlocks), {}, H, W)
      <4>1. Releasable(EmptyPool, {}, Block, 0, PoolBlocks, run, W)
        BY <1>1, <3>2, EmptySound DEF Releasable
      <4> QED  BY <4>1, ReleaseSound
    <3> QED  BY <1>6, <2>1, <2>3, <3>1, <3>3 DEF Kept
  <2> QED  BY <2>2, <2>3
<1> QED  BY <1>7, <1>8

-----------------------------------------------------------------------------
(* The invariant. *)

\* The inductive invariant: chunks in use, free chunks and the memory that was never
\* released make up the pool, and the bit map and the free lists say so.
IInv == \E U \in Kept : Sound(pool, live, FreeChunks, U)

\* The free chunks of a sound pool are those on its lists.
LEMMA SoundFree ==
  ASSUME NEW p, NEW L, NEW G, NEW U, Sound(p, L, G, U)
  PROVE  Sound(p, L, FreeOf(p), U)
<1>1. FreeOf(p) = G
  BY FreeOfIs DEF Sound, Split
<1> QED  BY <1>1

\* setupAllocator establishes the invariant.
LEMMA InitIInv == Init => IInv
<1> SUFFICES ASSUME Init PROVE IInv
  OBVIOUS
<1>1. PICK h \in BOOLEAN : pool = SetupAllocator(h)
  BY DEF Init
<1>2. PICK U \in Kept : \E G : Sound(SetupAllocator(h), {}, G, U)
  BY SetupSound
<1>3. Sound(pool, {}, FreeOf(pool), U)
  BY <1>1, <1>2, SoundFree
<1>4. live = {} /\ FreeOf(pool) = FreeChunks
  BY DEF Init, FreeOf, FreeChunks
<1> QED  BY <1>3, <1>4 DEF IInv

\* A step to a sound pool.
LEMMA StepIInv ==
  ASSUME NEW U \in Kept, NEW G, Sound(pool', live', G, U)
  PROVE  IInv'
<1>1. Sound(pool', live', FreeOf(pool'), U)
  BY SoundFree
<1>2. FreeOf(pool') = FreeChunks'
  BY DEF FreeOf, FreeChunks
<1>3. Sound(pool', live', FreeChunks', U)
  BY <1>1, <1>2
<1> QED  BY <1>3 DEF IInv, Kept, Block

\* VRAMMalloc keeps it.
LEMMA MallocIInv ==
  ASSUME IInv, NEW n \in Requests, VRAMMalloc(n)
  PROVE  IInv'
<1> DEFINE a == Malloc(pool, n)
           k == BitsFor(n)
<1>1. PICK U \in Kept : Sound(pool, live, FreeChunks, U)
  BY DEF IInv
<1>2. n \in Nat \ {0}
  BY PoolAssumption
<1>3. \/ a.pool = pool /\ a.ret \in Refusals
      \/ Got(pool, a, k, live, U)
  BY <1>1, <1>2, MallocTakes
<1>4. /\ pool' = IF a.ret = "kIOReturnSuccess" THEN Written(a.pool, a.off, k) ELSE a.pool
      /\ live' = IF a.ret = "kIOReturnSuccess" THEN live \cup {<< a.off, k >>} ELSE live
  BY DEF VRAMMalloc
<1> HIDE DEF a, k
<1>5. CASE a.pool = pool /\ a.ret \in Refusals
  <2>1. pool' = pool /\ live' = live
    BY <1>4, <1>5 DEF Refusals
  <2>2. Sound(pool', live', FreeChunks, U)
    BY <1>1, <2>1
  <2> QED  BY <2>2, StepIInv
<1>6. CASE Got(pool, a, k, live, U)
  <2>1. PICK G : Sound(a.pool, live \cup {<< a.off, k >>}, G, U)
    BY <1>6 DEF Got
  <2>2. << a.off, k >> \in live \cup {<< a.off, k >>}
    OBVIOUS
  <2>3. Sound(Written(a.pool, a.off, k), live \cup {<< a.off, k >>}, G, U)
    BY <2>1, <2>2, WrittenSound
  <2>4. Sound(pool', live', G, U)
    BY <1>4, <1>6, <2>3 DEF Got
  <2> QED  BY <2>4, StepIInv
<1> QED  BY <1>3, <1>5, <1>6

\* VRAMFree keeps it.
LEMMA FreeIInv ==
  ASSUME IInv, NEW c \in live, VRAMFree(c)
  PROVE  IInv'
<1>1. PICK U \in Kept : Sound(pool, live, FreeChunks, U)
  BY DEF IInv
<1>2. PICK G : Sound(Free(pool, c[1]).pool, live \ {c}, G, U)
  BY <1>1, FreeSucceeds
<1>3. Sound(pool', live', G, U)
  BY <1>2 DEF VRAMFree
<1> QED  BY <1>3, StepIInv

\* VRAMRealloc keeps it.
LEMMA ReallocIInv ==
  ASSUME IInv, NEW c \in live, NEW n \in Requests, VRAMRealloc(c, n)
  PROVE  IInv'
<1> DEFINE a == Realloc(pool, c[1], n)
           k == BitsFor(n)
<1>1. PICK U \in Kept : Sound(pool, live, FreeChunks, U)
  BY DEF IInv
<1>2. n \in Nat \ {0}
  BY PoolAssumption
<1>3. PICK L : L = (live \ {c}) \cup {<< a.off, k >>}
  OBVIOUS
<1>4. \/ a.pool = pool /\ a.ret \in Refusals
      \/ a.ret = "kIOReturnSuccess" /\ \E G : Sound(a.pool, L, G, U)
  BY <1>1, <1>2, <1>3, ReallocMoves
<1>5. /\ pool' = IF a.ret = "kIOReturnSuccess" THEN Written(a.pool, a.off, k) ELSE a.pool
      /\ live' = IF a.ret = "kIOReturnSuccess" THEN L ELSE live
  BY <1>3 DEF VRAMRealloc
<1> HIDE DEF a, k
<1>6. CASE a.pool = pool /\ a.ret \in Refusals
  <2>1. pool' = pool /\ live' = live
    BY <1>5, <1>6 DEF Refusals
  <2>2. Sound(pool', live', FreeChunks, U)
    BY <1>1, <2>1
  <2> QED  BY <2>2, StepIInv
<1>7. CASE a.ret = "kIOReturnSuccess" /\ \E G : Sound(a.pool, L, G, U)
  <2>1. PICK G : Sound(a.pool, L, G, U)
    BY <1>7
  <2>2. << a.off, k >> \in L
    BY <1>3
  <2>3. Sound(Written(a.pool, a.off, k), L, G, U)
    BY <2>1, <2>2, WrittenSound
  <2>4. Sound(pool', live', G, U)
    BY <1>5, <1>7, <2>3
  <2> QED  BY <2>4, StepIInv
<1> QED  BY <1>4, <1>6, <1>7

\* Every sequence of VRAMMalloc, VRAMRealloc and VRAMFree keeps the pool sound.
THEOREM Inductive == Spec => []IInv
<1>1. IInv /\ [Next]_vars => IInv'
  <2> SUFFICES ASSUME IInv, [Next]_vars PROVE IInv'
    OBVIOUS
  <2>1. ASSUME NEW n \in Requests, VRAMMalloc(n) PROVE IInv'
    BY <2>1, MallocIInv
  <2>2. ASSUME NEW c \in live, VRAMFree(c) PROVE IInv'
    BY <2>2, FreeIInv
  <2>3. ASSUME NEW c \in live, NEW n \in Requests, VRAMRealloc(c, n) PROVE IInv'
    BY <2>3, ReallocIInv
  <2>4. CASE UNCHANGED vars
    <3>1. PICK U \in Kept : Sound(pool, live, FreeChunks, U)
      BY DEF IInv
    <3>2. Sound(pool', live', FreeChunks, U)
      BY <2>4, <3>1 DEF vars
    <3> QED  BY <3>2, StepIInv
  <2> QED  BY <2>1, <2>2, <2>3, <2>4 DEF Next
<1> QED  BY <1>1, InitIInv, PTL DEF Spec

-----------------------------------------------------------------------------
(* What the invariant shows. *)

\* The ends of chunks in use, and what was never released, are not free.
LEMMA FreeUnmarked ==
  ASSUME NEW p, NEW L, NEW F, NEW U, Sound(p, L, F, U), NEW c \in F
  PROVE  Span(c[1], c[2]) \cap p.map = {}
<1>1. /\ L \subseteq Aligned /\ L \cap F = {} /\ Apart(L \cup F)
      /\ U \cap Covered(L \cup F) = {} /\ p.map = U \cup Ends(L)
  BY DEF Sound, Split
<1> SUFFICES ASSUME NEW z \in Span(c[1], c[2]), z \in p.map PROVE FALSE
  OBVIOUS
<1>2. z \notin U
  BY <1>1, CoveredBy
<1>3. PICK d \in L : z = d[1] + 2^d[2] - 1
  BY <1>1, <1>2 DEF Ends
<1>4. z \in Span(d[1], d[2])
  BY <1>1, <1>3, ChunkPair, SpanFacts
<1>5. Span(d[1], d[2]) \cap Span(c[1], c[2]) = {}
  BY <1>1 DEF Apart
<1> QED  BY <1>4, <1>5

\* The free lists of a sound pool pass Check().
LEMMA IInvCheck == IInv => CheckSucceeds
<1> SUFFICES ASSUME IInv PROVE CheckSucceeds
  OBVIOUS
<1>1. PICK U \in Kept : Sound(pool, live, FreeChunks, U)
  BY DEF IInv
<1>2. PICK F : F = FreeChunks
  OBVIOUS
<1>3. Sound(pool, live, F, U)
  BY <1>1, <1>2
<1>4. F \subseteq Aligned /\ Listed(pool, F) /\ pool.free = Cardinality(Covered(F))
  BY <1>3 DEF Sound, Split
<1>5. F \subseteq Chunk
  BY <1>4 DEF Aligned
<1>6. \A k \in Sizes : pool.list[k] # OURNULL => pool.prev[pool.list[k]] = OURNULL
  BY <1>4, HeadListed
<1>7. ASSUME NEW c \in F
      PROVE  /\ Span(c[1], c[2]) \cap pool.map = {}
             /\ pool.magic[c[1]] /\ pool.trailer[c[1] + 2^c[2] - 1] = c[2]
             /\ pool.next[c[1]] # OURNULL => pool.prev[pool.next[c[1]]] = c[1]
  <2>1. Span(c[1], c[2]) \cap pool.map = {}
    BY <1>3, FreeUnmarked
  <2>2. << c[1], c[2] >> \in F
    BY <1>4, ChunkPair
  <2>3. /\ pool.magic[c[1]] /\ pool.trailer[c[1] + 2^c[2] - 1] = c[2]
        /\ pool.next[c[1]] # OURNULL => pool.prev[pool.next[c[1]]] = c[1]
    BY <1>4, <2>2, ListedWords
  <2> QED  BY <2>1, <2>3
<1> QED  BY <1>2, <1>4, <1>5, <1>6, <1>7 DEF CheckSucceeds

\* A sound pool is divided into the chunks in use, the free chunks and the rest.
LEMMA IInvPartition == IInv => ChunksPartitionPool
<1> SUFFICES ASSUME IInv PROVE ChunksPartitionPool
  OBVIOUS
<1>1. PICK U \in Kept : Sound(pool, live, FreeChunks, U)
  BY DEF IInv
<1>2. PICK F, A : F = FreeChunks /\ A = live \cup F
  OBVIOUS
<1>3. Sound(pool, live, F, U)
  BY <1>1, <1>2
<1>4. /\ live \cap F = {} /\ A \subseteq Aligned /\ Apart(A) /\ U \subseteq Block
      /\ U \cap Covered(A) = {} /\ U \cup Covered(A) = Block
  BY <1>2, <1>3 DEF Sound, Split
<1>5. \A c \in A : c[1] % 2^c[2] = 0
  BY <1>4, ChunkPair
<1>6. Covered(A) \in {Block, Reserve..(PoolBlocks - 1), {}}
  <2>1. Covered(A) = Block \ U
    BY <1>4
  <2>2. Reserve \in Nat /\ PoolBlocks \in Nat
    BY Constants, PoolAssumption, PowType
  <2>3. Block \ (0..(Reserve - 1)) = Reserve..(PoolBlocks - 1)
    BY <2>2 DEF Block
  <2>4. U = {} \/ U = 0..(Reserve - 1) \/ U = Block
    BY DEF Kept
  <2>5. CASE U = {}
    BY <2>1, <2>5
  <2>6. CASE U = 0..(Reserve - 1)
    BY <2>1, <2>3, <2>6
  <2>7. CASE U = Block
    BY <2>1, <2>7
  <2> QED  BY <2>4, <2>5, <2>6, <2>7
<1>7. \A c \in live : AllocSizes(pool, c[1]) = {c[2]}
  BY <1>3, AllocSizesOne
<1>8. \A c, d \in A : c # d => Span(c[1], c[2]) \cap Span(d[1], d[2]) = {}
  BY <1>4 DEF Apart
<1> QED  BY <1>2, <1>4, <1>5, <1>6, <1>7, <1>8 DEF ChunksPartitionPool

\* A sound pool has no two free buddies.
LEMMA IInvMerged == IInv => BuddiesMerged
  BY DEF IInv, Sound, NoBuddies, BuddiesMerged

\* The members of a sound pool have their types.
LEMMA IInvTypeOK == IInv => TypeOK
<1> SUFFICES ASSUME IInv PROVE TypeOK
  OBVIOUS
<1>1. PICK U \in Kept : Sound(pool, live, FreeChunks, U)
  BY DEF IInv
<1>2. /\ pool \in PoolType /\ live \subseteq Aligned /\ FreeChunks \subseteq Aligned
      /\ pool.free = Cardinality(Covered(FreeChunks))
  BY <1>1 DEF Sound, Split
<1>3. pool.map \subseteq Block /\ pool.list \in [Sizes -> Block \cup {OURNULL}]
  BY <1>2, PoolFields
<1>4. Covered(FreeChunks) \subseteq Block
  BY <1>2, CoveredInPool
<1>5. pool.free \in 0..PoolBlocks
  BY <1>2, <1>4, BlocksFinite, Constants
<1> QED  BY <1>2, <1>3, <1>5 DEF TypeOK, Aligned

\* Free memory that makes up an aligned run of 2^b blocks has a chunk that is at least
\* as large: the smallest chunk in the run would have a free buddy.
LEMMA RunHasChunk ==
  ASSUME NEW F, F \subseteq Aligned, Apart(F), NoBuddies(F),
         NEW x \in Nat, NEW b \in Sizes, x % 2^b = 0, Span(x, b) \subseteq Covered(F)
  PROVE  \E c \in F : c[2] >= b
<1> SUFFICES ASSUME \A c \in F : ~(c[2] >= b) PROVE FALSE
  OBVIOUS
<1> DEFINE In == {c \in F : Span(c[1], c[2]) \cap Span(x, b) # {}}
           T == {c[2] : c \in In}
<1>1. b \in Nat /\ b < NumSizes /\ NumSizes \in Nat
  BY Constants
<1>2. ASSUME NEW c \in F
      PROVE  /\ c \in Aligned /\ c[1] \in Nat /\ c[2] \in Nat /\ c[2] < b
             /\ c[1] % 2^c[2] = 0 /\ c[1] \in Span(c[1], c[2])
    <2>1. /\ c[1] \in Nat /\ c[2] \in Nat /\ c[1] % 2^c[2] = 0 /\ c \in Aligned
      BY ChunkPair
    <2>2. c[1] \in Span(c[1], c[2])
      BY <2>1, SpanFacts
    <2> QED  BY <1>1, <2>1, <2>2
<1>3. ASSUME NEW z \in Span(x, b) PROVE \E c \in In : z \in Span(c[1], c[2])
  <2>1. PICK c \in F : z \in Span(c[1], c[2])
    BY CoveredBy
  <2> QED  BY <2>1
<1>4. PICK c \in In : \A d \in In : c[2] <= d[2]
  <2>1. x \in Span(x, b)
    BY <1>1, SpanFacts
  <2>2. T # {}
    BY <1>3, <2>1
  <2>3. T \subseteq Nat
    BY <1>2
  <2>4. PICK j \in T : \A y \in T : j <= y
    <3> HIDE DEF T
    <3> QED  BY <2>2, <2>3, NatLeast
  <2> QED  BY <2>4
<1>5. /\ c \in F /\ c[1] \in Nat /\ c[2] \in Nat /\ c[2] < b /\ c[1] % 2^c[2] = 0
      /\ Span(c[1], c[2]) \cap Span(x, b) # {}
  BY <1>2
<1>6. PICK y : y = Buddy(c[1], c[2])
  OBVIOUS
<1>7. y \in Nat /\ y % 2^c[2] = 0 /\ Buddy(y, c[2]) = c[1]
      /\ Span(c[1], c[2]) \cap Span(y, c[2]) = {}
  BY <1>5, <1>6, BuddySpans
<1>8. Span(y, c[2]) \subseteq Span(x, b)
  BY <1>1, <1>5, <1>6, BuddyInside
<1>9. y \in Span(y, c[2])
  BY <1>5, <1>7, SpanFacts
<1>10. PICK d \in In : y \in Span(d[1], d[2])
  BY <1>3, <1>8, <1>9
<1>11. /\ d \in F /\ d[1] \in Nat /\ d[2] \in Nat /\ d[1] % 2^d[2] = 0 /\ c[2] <= d[2]
       /\ d = << d[1], d[2] >> /\ d[1] \in Span(d[1], d[2])
  BY <1>2, <1>4, ChunkPair
<1>12. Span(y, c[2]) \cap Span(d[1], d[2]) # {}
  BY <1>9, <1>10
<1>13. ~(c[2] < d[2])
  <2> SUFFICES ASSUME c[2] < d[2] PROVE FALSE
    OBVIOUS
  <2>1. Span(Buddy(y, c[2]), c[2]) \subseteq Span(d[1], d[2])
    BY <1>5, <1>7, <1>11, <1>12, BuddyInside
  <2>2. c # d /\ c[1] \in Span(d[1], d[2]) /\ c[1] \in Span(c[1], c[2])
    BY <1>2, <1>5, <1>7, <2>1
  <2> QED  BY <1>5, <1>11, <2>2 DEF Apart
<1>14. d[2] = c[2]
  BY <1>5, <1>11, <1>13
<1>15. d[1] = y
  <2>1. Span(d[1], d[2]) \subseteq Span(y, c[2])
    BY <1>5, <1>7, <1>11, <1>12, <1>14, ChunksNested
  <2>2. d[1] \in Span(y, c[2])
    BY <1>11, <2>1
  <2>3. y <= d[1]
    BY <1>5, <1>7, <2>2, SpanFacts
  <2>4. d[1] <= y
    BY <1>10, <1>11, SpanFacts
  <2> QED  BY <1>7, <1>11, <2>3, <2>4
<1>16. c[2] < NumSizes - 1
  BY <1>1, <1>5
<1> QED  BY <1>5, <1>6, <1>11, <1>14, <1>15, <1>16 DEF NoBuddies

\* A sound pool refuses only what it has no aligned run for.
LEMMA IInvRefused == IInv => RefusedOnlyWhenFull
<1> SUFFICES ASSUME IInv, NEW n \in Requests, Malloc(pool, n).ret = "kIOReturnNoMemory",
                    BitsFor(n) \in Sizes, NEW x \in Block, x % 2^BitsFor(n) = 0,
                    Span(x, BitsFor(n)) \subseteq Covered(FreeChunks)
             PROVE  FALSE
  BY DEF RefusedOnlyWhenFull
<1>1. PICK U \in Kept : Sound(pool, live, FreeChunks, U)
  BY DEF IInv
<1>2. PICK F, b : F = FreeChunks /\ b = BitsFor(n)
  OBVIOUS
<1>3. /\ F \subseteq Aligned /\ Apart(F) /\ NoBuddies(F) /\ Listed(pool, F)
      /\ pool.free = Cardinality(Covered(F)) /\ pool \in PoolType
  <2>1. Apart(live \cup F) /\ F \subseteq live \cup F
    BY <1>1, <1>2 DEF Sound, Split
  <2> QED  BY <1>1, <1>2, <2>1, ApartSubset DEF Sound, Split
<1>4. /\ b \in Sizes /\ b \in Nat /\ b < NumSizes /\ NumSizes \in Nat /\ x \in Nat
      /\ x % 2^b = 0 /\ Span(x, b) \subseteq Covered(F)
  BY <1>2, Constants
<1>5. PICK c \in F : c[2] >= b
  BY <1>3, <1>4, RunHasChunk
<1>6. c[2] \in Sizes /\ c[2] \in Nat /\ c[2] < NumSizes
  BY <1>3, ChunkPair
<1>7. pool.list[c[2]] # OURNULL
  BY <1>3, <1>6, NoListed
<1>8. {k \in b..(NumSizes - 1) : pool.list[k] # OURNULL} # {}
  <2>1. c[2] \in b..(NumSizes - 1)
    BY <1>4, <1>5, <1>6
  <2> QED  BY <1>7, <2>1
<1>9. ~(pool.free < 2^b)
  <2>1. Covered(F) \subseteq Block
    BY <1>3, CoveredInPool
  <2>2. IsFiniteSet(Covered(F)) /\ Cardinality(Covered(F)) \in Nat
    BY <2>1, BlocksFinite
  <2>3. Cardinality(Span(x, b)) <= Cardinality(Covered(F))
    BY <1>4, <2>2, FS_Subset
  <2>4. Cardinality(Span(x, b)) = 2^b /\ 2^b \in Nat
    BY <1>4, SpanSize, PowType
  <2> QED  BY <1>3, <2>2, <2>3, <2>4
<1>10. Malloc(pool, n) = BuddyMalloc(pool, b)
  BY <1>2, <1>4 DEF Malloc
<1>11. BuddyMalloc(pool, b).ret # "kIOReturnNoMemory"
  <2> DEFINE found == {k \in b..(NumSizes - 1) : pool.list[k] # OURNULL}
  <2>1. ~(pool.free < 2^b \/ found = {})
    BY <1>8, <1>9
  <2>2. \E q, o : \/ BuddyMalloc(pool, b) = Answer(q, "kIOReturnInternalError", o)
                  \/ BuddyMalloc(pool, b) = Answer(q, "kIOReturnSuccess", o)
    BY <2>1, Zenon DEF BuddyMalloc
  <2> QED  BY <2>2 DEF Answer
<1> QED  BY <1>10, <1>11

\* No call finds the free memory or the bit map damaged: a chunk in use can always be
\* freed, and a request is met or refused for lack of memory.
NoInternalError ==
  /\ \A c \in live : Free(pool, c[1]).ret = "kIOReturnSuccess"
  /\ \A n \in Requests :
       /\ Malloc(pool, n).ret \in Refusals \cup {"kIOReturnSuccess"}
       /\ \A c \in live :
            Realloc(pool, c[1], n).ret \in Refusals \cup {"kIOReturnSuccess"}

\* The tests of a sound pool do not fail.
LEMMA IInvNoError == IInv => NoInternalError
<1> SUFFICES ASSUME IInv PROVE NoInternalError
  OBVIOUS
<1>1. PICK U \in Kept : Sound(pool, live, FreeChunks, U)
  BY DEF IInv
<1>2. ASSUME NEW c \in live PROVE Free(pool, c[1]).ret = "kIOReturnSuccess"
  BY <1>1, FreeSucceeds
<1>3. ASSUME NEW n \in Requests
      PROVE  Malloc(pool, n).ret \in Refusals \cup {"kIOReturnSuccess"}
  <2>1. n \in Nat \ {0}
    BY PoolAssumption
  <2> QED  BY <1>1, <2>1, MallocTakes DEF Got
<1>4. ASSUME NEW n \in Requests, NEW c \in live
      PROVE  Realloc(pool, c[1], n).ret \in Refusals \cup {"kIOReturnSuccess"}
  <2>1. n \in Nat \ {0}
    BY PoolAssumption
  <2>2. PICK a : a = Realloc(pool, c[1], n)
    OBVIOUS
  <2>3. a.ret \in Refusals \/ a.ret = "kIOReturnSuccess"
    BY <1>1, <2>1, <2>2, ReallocMoves
  <2> QED  BY <2>2, <2>3
<1> QED  BY <1>2, <1>3, <1>4 DEF NoInternalError

\* The calls on a sound pool keep the data of the chunks in use.
LEMMA IInvDataKept == IInv => DataKept
<1> SUFFICES ASSUME IInv PROVE DataKept
  OBVIOUS
<1>1. PICK U \in Kept : Sound(pool, live, FreeChunks, U)
  BY DEF IInv
<1>2. \A S : Same(pool, pool, S)
  BY DEF Same
<1>3. ASSUME NEW n \in Requests PROVE Same(pool, Malloc(pool, n).pool, Covered(live))
  <2>1. n \in Nat \ {0}
    BY PoolAssumption
  <2>2. PICK a : a = Malloc(pool, n)
    OBVIOUS
  <2>3. a.pool = pool \/ Got(pool, a, BitsFor(n), live, U)
    BY <1>1, <2>1, <2>2, MallocTakes
  <2> QED  BY <1>2, <2>2, <2>3 DEF Got
<1>4. ASSUME NEW c \in live
      PROVE  Same(pool, Free(pool, c[1]).pool, Covered(live \ {c}))
  BY <1>1, FreeSucceeds
<1>5. ASSUME NEW c \in live, NEW n \in Requests, NEW a, a = Realloc(pool, c[1], n)
      PROVE  /\ Same(pool, a.pool, Covered(live \ {c}))
             /\ IF a.ret = "kIOReturnSuccess"
                THEN Moved(pool, a.pool, c[1], a.off, 2^Min({c[2], BitsFor(n)}))
                ELSE Same(pool, a.pool, Span(c[1], c[2]))
  <2>1. n \in Nat \ {0}
    BY PoolAssumption
  <2>2. \/ a.pool = pool /\ a.ret \in Refusals
        \/ /\ a.ret = "kIOReturnSuccess" /\ Same(pool, a.pool, Covered(live \ {c}))
           /\ Moved(pool, a.pool, c[1], a.off, 2^Min({c[2], BitsFor(n)}))
    BY <1>1, <1>5, <2>1, ReallocMoves
  <2>3. CASE a.pool = pool /\ a.ret \in Refusals
    <3>1. a.ret # "kIOReturnSuccess"
      BY <2>3 DEF Refusals
    <3> QED  BY <1>2, <2>3, <3>1
  <2> QED  BY <2>2, <2>3
<1> QED  BY <1>3, <1>4, <1>5 DEF DataKept

-----------------------------------------------------------------------------
(* The theorems. *)

\* The allocator's members keep their types.
THEOREM AllocatorTypes == Spec => []TypeOK
  BY Inductive, IInvTypeOK, PTL

\* After any sequence of calls the allocator's own Check() succeeds: the free lists
\* hold marked, linked chunks of their size that add up to freeBytes.
THEOREM CheckAlwaysSucceeds == Spec => []CheckSucceeds
  BY Inductive, IInvCheck, PTL

\* No block is ever in two chunks, and none is lost: chunks in use and free chunks are
\* all the memory that setupAllocator released, and the bit map alone tells Free the
\* size of a chunk.
THEOREM PoolAlwaysPartitioned == Spec => []ChunksPartitionPool
  BY Inductive, IInvPartition, PTL

\* Free merges with every free buddy, and toFree makes none: two free chunks are never
\* buddies.
THEOREM BuddiesAlwaysMerged == Spec => []BuddiesMerged
  BY Inductive, IInvMerged, PTL

\* Malloc answers kIOReturnNoMemory only when no aligned run of free blocks is large
\* enough.
THEOREM RefusesOnlyWhenFull == Spec => []RefusedOnlyWhenFull
  BY Inductive, IInvRefused, PTL

\* The tests of headers, trailers, links and bit map that BuddyMalloc, Free and Realloc
\* make on the way never fail, whatever the owners write into their chunks.
THEOREM TestsNeverFail == Spec => []NoInternalError
  BY Inductive, IInvNoError, PTL

\* The allocator never writes into a chunk in use, and Realloc brings the data of a
\* chunk along.
THEOREM DataAlwaysKept == Spec => []DataKept
  BY Inductive, IInvDataKept, PTL
=============================================================================
