------------------------ MODULE GmrDescriptorsProofs ------------------------
(***************************************************************************)
(* The table that createGMR writes describes exactly the memory, for every *)
(* memory descriptor, size of a helper page, physical layout of the helper *)
(* and limit of the device.                                                *)
(*                                                                         *)
(* The argument: while the table is filled, segment k * DPP + s + 1 is in  *)
(* slot s of helper page k, and the last slot of a page that is full has   *)
(* the physical page of the next helper page (TableIs); helper_ppn and     *)
(* helper_length follow the contiguous run in which the next helper page   *)
(* lies (Links).  The device at slot s of page k has taken k * DPP + s     *)
(* segments and followed k links, so what it has is the pages of these     *)
(* segments (Taken).                                                       *)
(*                                                                         *)
(* The provers have no induction over natural numbers; SetInduction gives  *)
(* it for sets, from the least element of a set (NatLeast).                *)
(***************************************************************************)
EXTENDS GmrDescriptors, FiniteSetTheorems, TLAPS

-----------------------------------------------------------------------------
\* A set of natural numbers has a least element.
LEMMA NatLeast ==
  ASSUME NEW T, T \subseteq Nat, T # {}
  PROVE  \E x \in T : \A y \in T : x <= y
<1> DEFINE R == OpToRel(<, Nat)
<1>1. IsWellFoundedOn(R, Nat)
  BY NatLessThanWellFounded
<1>2. R = {ss \in Nat \X Nat : ss[1] < ss[2]}
  BY Zenon DEF OpToRel
<1> HIDE DEF R
<1>3. \E x \in T : \A y \in T : ~(<< y, x >> \in R)
  BY <1>1, WFMin
<1>4. \A x \in T, y \in T : ~(<< y, x >> \in R) => x <= y
  BY <1>2
<1> QED  BY <1>3, <1>4

\* Induction over a set of natural numbers.
LEMMA SetInduction ==
  ASSUME NEW T, T \subseteq Nat, 0 \in T, \A n \in T : n + 1 \in T
  PROVE  T = Nat
<1> SUFFICES ASSUME Nat \ T # {} PROVE FALSE
  OBVIOUS
<1>1. PICK x \in Nat \ T : \A y \in Nat \ T : x <= y
  BY NatLeast
<1> QED  BY <1>1

\* Division: the quotient and what is left.
LEMMA DivFacts ==
  ASSUME NEW a \in Nat, NEW d \in Nat \ {0}
  PROVE  a \div d \in Nat /\ (a \div d) * d <= a /\ a < (a \div d) * d + d
OBVIOUS

\* One page more is one in the quotient.
LEMMA DivNext ==
  ASSUME NEW a \in Nat, NEW d \in Nat \ {0}
  PROVE  (a + d) \div d = (a \div d) + 1
OBVIOUS

\* The products of a helper page's number and its slots grow with the number.
LEMMA RowsApart ==
  ASSUME NEW a \in Nat, NEW b \in Nat, NEW d \in Nat \ {0}, a < b
  PROVE  a * d + d <= b * d
OBVIOUS

-----------------------------------------------------------------------------
\* PpnOf and ContiguousFrom for breaks B of a helper of n pages.
PpnAt(B, k) == Base + k + Gap * Cardinality({b \in B : b <= k})

RunFrom(B, n, k) ==
  CHOOSE r \in 1..n :
    /\ k + r = n \/ k + r \in B
    /\ \A m \in 1..(r - 1) : k + m # n /\ k + m \notin B

\* The r pages from page k on are in the helper and physically contiguous.
IsRun(B, n, k, r) ==
  /\ r \in Nat \ {0} /\ k + r <= n
  /\ \A m \in 0..(r - 1) : PpnAt(B, k + m) = PpnAt(B, k) + m

\* A physical page of the helper is a number other than 0.
LEMMA PpnType ==
  ASSUME NEW B, IsFiniteSet(B), NEW k \in Nat
  PROVE  PpnAt(B, k) \in Nat \ {0}
<1>1. IsFiniteSet({b \in B : b <= k})
  BY FS_Subset
<1>2. Cardinality({b \in B : b <= k}) \in Nat
  BY <1>1, FS_CardinalityType
<1> HIDE DEF PpnAt
<1>3. \A c \in Nat : Base + k + Gap * c \in Nat \ {0}
  BY TableAssumption
<1> QED  BY <1>2, <1>3 DEF PpnAt

\* Later helper pages are physically later: two pages never have the same number.
LEMMA PpnGrows ==
  ASSUME NEW B, B \subseteq Nat, IsFiniteSet(B), NEW k \in Nat, NEW l \in Nat, k < l
  PROVE  PpnAt(B, k) < PpnAt(B, l)
<1> DEFINE K == {b \in B : b <= k}
           L == {b \in B : b <= l}
<1>1. K \subseteq L
  <2>1. \A b \in Nat : b <= k => b <= l
    OBVIOUS
  <2> QED  BY <2>1
<1>2. IsFiniteSet(K) /\ IsFiniteSet(L)
  BY FS_Subset
<1>3. PpnAt(B, k) = Base + k + Gap * Cardinality(K)
      /\ PpnAt(B, l) = Base + l + Gap * Cardinality(L)
  BY DEF PpnAt
<1> HIDE DEF K, L
<1>4. /\ Cardinality(K) \in Nat /\ Cardinality(L) \in Nat
      /\ Cardinality(K) <= Cardinality(L)
  BY <1>1, <1>2, FS_CardinalityType, FS_Subset
<1>5. \A c, d \in Nat : c <= d => Base + k + Gap * c < Base + l + Gap * d
  BY TableAssumption
<1> QED  BY <1>3, <1>4, <1>5

\* getPhysicalSegment: from page k on there is a run of pages, at least one, inside
\* the helper, and it is physically contiguous.
LEMMA RunContiguous ==
  ASSUME NEW n \in Nat \ {0}, NEW B, B \subseteq 1..(n - 1), NEW k \in 0..(n - 1)
  PROVE  IsRun(B, n, k, RunFrom(B, n, k))
<1> DEFINE E == {r \in 1..n : k + r = n \/ k + r \in B}
           r == RunFrom(B, n, k)
<1>1. n - k \in E
  OBVIOUS
<1>2. PICK x \in E : \A y \in E : x <= y
  <2>1. E \subseteq 1..n
    OBVIOUS
  <2> HIDE DEF E
  <2>2. E \subseteq Nat /\ E # {}
    BY <1>1, <2>1
  <2> QED  BY <2>2, NatLeast
<1>3. \A m \in 1..(x - 1) : k + m # n /\ k + m \notin B
  BY <1>2
<1>4. \E y \in 1..n : /\ k + y = n \/ k + y \in B
                      /\ \A m \in 1..(y - 1) : k + m # n /\ k + m \notin B
  BY <1>3
<1>5. /\ r \in 1..n /\ (k + r = n \/ k + r \in B)
      /\ \A m \in 1..(r - 1) : k + m # n /\ k + m \notin B
  BY <1>4, Zenon DEF RunFrom
<1> HIDE DEF r, E
<1>6. k + r <= n
  BY <1>5
<1>7. ASSUME NEW m \in 0..(r - 1) PROVE PpnAt(B, k + m) = PpnAt(B, k) + m
  <2>1. {b \in B : b <= k + m} = {b \in B : b <= k}
    <3>1. ASSUME NEW b \in B, b <= k + m PROVE b <= k
      <4> SUFFICES ASSUME b > k PROVE FALSE
        OBVIOUS
      <4>1. b - k \in 1..(r - 1) /\ k + (b - k) = b
        BY <1>5, <3>1
      <4> QED  BY <1>5, <4>1
    <3>2. \A b \in B : b <= k => b <= k + m
      BY <1>5
    <3> QED  BY <3>1, <3>2
  <2>2. IsFiniteSet({b \in B : b <= k})
    <3>1. IsFiniteSet(1..(n - 1))
      BY FS_Interval
    <3>2. IsFiniteSet(B)
      BY <3>1, FS_Subset
    <3> QED  BY <3>2, FS_Subset
  <2>3. Cardinality({b \in B : b <= k}) \in Nat
    BY <2>2, FS_CardinalityType
  <2>4. \A c \in Nat : Base + (k + m) + Gap * c = (Base + k + Gap * c) + m
    BY <1>5, TableAssumption
  <2> QED  BY <2>1, <2>3, <2>4 DEF PpnAt
<1> QED  BY <1>5, <1>6, <1>7 DEF r, IsRun

-----------------------------------------------------------------------------
\* The pages of each segment of a memory m, and those of its first j segments.
PiecesOf(m) ==
  [i \in DOMAIN m |->
    [k \in 1..((m[i].off + m[i].len - 1) \div PageSize + 1) |-> m[i].page + k - 1]]

Joins(P, f) == f = [i \in 1..Len(P) |-> IF i = 1 THEN P[i] ELSE f[i - 1] \o P[i]]

PagesOfFirst(m, j) ==
  LET joined[i \in 1..Len(PiecesOf(m))] ==
        IF i = 1 THEN PiecesOf(m)[i] ELSE joined[i - 1] \o PiecesOf(m)[i]
  IN  IF j = 0 THEN << >> ELSE joined[j]

\* The function by which FlattenSeq joins sequences exists.
LEMMA JoinExists ==
  ASSUME NEW S, NEW P \in Seq(Seq(S))
  PROVE  \E f : Joins(P, f)
<1> DEFINE G(n, f) ==
             \A i \in 1..n : f[i] = IF i = 1 THEN P[i] ELSE f[i - 1] \o P[i]
           T == {n \in Nat : n <= Len(P) => \E f \in [1..n -> Seq(S)] : G(n, f)}
<1>1. 0 \in T
  <2>1. [i \in 1..0 |-> << >>] \in [1..0 -> Seq(S)]
    OBVIOUS
  <2>2. \A f : G(0, f)
    OBVIOUS
  <2> QED  BY <2>1, <2>2
<1>2. \A n \in T : n + 1 \in T
  <2> SUFFICES ASSUME NEW n \in Nat, n + 1 <= Len(P),
                      n <= Len(P) => \E f \in [1..n -> Seq(S)] : G(n, f)
               PROVE  \E g \in [1..(n + 1) -> Seq(S)] : G(n + 1, g)
    <3> HIDE DEF G
    <3> QED  OBVIOUS
  <2>1. PICK f \in [1..n -> Seq(S)] : G(n, f)
    <3>1. \E f \in [1..n -> Seq(S)] : G(n, f)
      <4> HIDE DEF G
      <4> QED  OBVIOUS
    <3> QED  BY <3>1
  <2> DEFINE new == IF n = 0 THEN P[n + 1] ELSE f[n] \o P[n + 1]
             g == [i \in 1..(n + 1) |-> IF i = n + 1 THEN new ELSE f[i]]
  <2>2. P[n + 1] \in Seq(S)
    OBVIOUS
  <2>3. new \in Seq(S)
    BY <2>2
  <2> HIDE DEF new
  <2>4. g \in [1..(n + 1) -> Seq(S)]
    BY <2>3
  <2>5. (\A i \in 1..n : g[i] = f[i]) /\ g[n + 1] = new
    OBVIOUS
  <2> HIDE DEF g
  <2>6. ASSUME NEW i \in 1..(n + 1)
        PROVE  g[i] = IF i = 1 THEN P[i] ELSE g[i - 1] \o P[i]
    <3>1. CASE i = n + 1
      BY <3>1, <2>5 DEF new
    <3>2. CASE i \in 1..n
      <4>1. f[i] = IF i = 1 THEN P[i] ELSE f[i - 1] \o P[i]
        BY <2>1, <3>2
      <4>2. g[i] = f[i] /\ (i # 1 => g[i - 1] = f[i - 1])
        BY <2>5, <3>2
      <4> QED  BY <4>1, <4>2
    <3> QED  BY <3>1, <3>2
  <2> QED  BY <2>4, <2>6
<1>3. Len(P) \in T
  <2> HIDE DEF T
  <2>1. T \subseteq Nat
    BY DEF T
  <2>2. T = Nat
    BY <1>1, <1>2, <2>1, SetInduction
  <2> QED  BY <2>2
<1>4. PICK f \in [1..Len(P) -> Seq(S)] : G(Len(P), f)
  <2>1. \E f \in [1..Len(P) -> Seq(S)] : G(Len(P), f)
    BY <1>3
  <2> QED  BY <2>1
<1>5. f = [i \in 1..Len(P) |-> f[i]]
  OBVIOUS
<1>6. Joins(P, f)
  BY <1>4, <1>5 DEF Joins
<1> QED  BY <1>6

\* One more segment adds its pages, and all of them make FlattenSeq.
LEMMA PagesOfNext ==
  ASSUME NEW m \in Seq(Segment)
  PROVE  /\ \A j \in 0..(Len(m) - 1) :
              PagesOfFirst(m, j + 1) = PagesOfFirst(m, j) \o PiecesOf(m)[j + 1]
         /\ m # << >> => PagesOfFirst(m, Len(m)) = FlattenSeq(PiecesOf(m))
<1> DEFINE P == PiecesOf(m)
           F == CHOOSE f : Joins(P, f)
<1>1. P \in Seq(Seq(Nat)) /\ Len(P) = Len(m)
  <2>1. ASSUME NEW i \in DOMAIN m
        PROVE  [k \in 1..((m[i].off + m[i].len - 1) \div PageSize + 1) |->
                  m[i].page + k - 1] \in Seq(Nat)
    <3>1. /\ m[i] \in Segment /\ m[i].page \in Nat /\ m[i].off \in Nat
          /\ m[i].len \in Nat \ {0}
      <4>1. m[i] \in Segment
        OBVIOUS
      <4>2. PageSize \in Nat \ {0}
        BY TableAssumption
      <4> QED  BY <4>1, <4>2 DEF Segment
    <3> DEFINE c == (m[i].off + m[i].len - 1) \div PageSize + 1
    <3>2. c \in Nat
      <4>1. m[i].off + m[i].len - 1 \in Nat
        BY <3>1
      <4>2. (m[i].off + m[i].len - 1) \div PageSize \in Nat
        BY <4>1, DivFacts, TableAssumption
      <4> QED  BY <4>2
    <3> HIDE DEF c
    <3>3. \A k \in 1..c : m[i].page + k - 1 \in Nat
      <4>1. \A p \in Nat, k \in 1..c : p + k - 1 \in Nat
        BY <3>2
      <4> QED  BY <3>1, <4>1
    <3>4. [k \in 1..c |-> m[i].page + k - 1] \in Seq(Nat)
      BY <3>2, <3>3
    <3> QED  BY <3>4 DEF c
  <2>2. DOMAIN m = 1..Len(m) /\ Len(m) \in Nat
    OBVIOUS
  <2>3. P \in [1..Len(m) -> Seq(Nat)]
    BY <2>1, <2>2 DEF PiecesOf
  <2> HIDE DEF P
  <2> QED  BY <2>2, <2>3
<1>2. Joins(P, F)
  <2> HIDE DEF P
  <2>1. \E f : Joins(P, f)
    BY <1>1, JoinExists
  <2> QED  BY <2>1, Zenon
<1>3. m # << >> => FlattenSeq(P) = F[Len(P)]
  <2>1. m # << >> => Len(P) # 0
    BY <1>1
  <2> HIDE DEF P
  <2> QED  BY <2>1, Zenon DEF FlattenSeq, Joins
<1>4. \A j \in Nat : PagesOfFirst(m, j) = IF j = 0 THEN << >> ELSE F[j]
  BY Zenon DEF PagesOfFirst, Joins
<1> HIDE DEF P, F
<1>5. \A i \in 1..Len(m) : F[i] = IF i = 1 THEN P[i] ELSE F[i - 1] \o P[i]
  BY <1>1, <1>2 DEF Joins
<1>6. ASSUME NEW j \in 0..(Len(m) - 1)
      PROVE  PagesOfFirst(m, j + 1) = PagesOfFirst(m, j) \o P[j + 1]
  <2>1. P[j + 1] \in Seq(Nat)
    BY <1>1
  <2>2. << >> \o P[j + 1] = P[j + 1]
    BY <2>1
  <2>3. F[j + 1] = IF j = 0 THEN P[j + 1] ELSE F[j] \o P[j + 1]
    <3>1. j + 1 \in 1..Len(m) /\ (j + 1) - 1 = j /\ (j + 1 = 1 <=> j = 0)
      OBVIOUS
    <3> QED  BY <1>5, <3>1
  <2>4. PagesOfFirst(m, j + 1) = F[j + 1]
    BY <1>4
  <2>5. PagesOfFirst(m, j) = IF j = 0 THEN << >> ELSE F[j]
    BY <1>4
  <2> QED  BY <2>2, <2>3, <2>4, <2>5
<1>7. m # << >> => Len(m) \in Nat \ {0}
  OBVIOUS
<1>8. m # << >> => PagesOfFirst(m, Len(m)) = FlattenSeq(P)
  BY <1>1, <1>3, <1>4, <1>7
<1>9. \A j \in 0..(Len(m) - 1) :
        PagesOfFirst(m, j + 1) = PagesOfFirst(m, j) \o P[j + 1]
  BY <1>6
<1> QED  BY <1>8, <1>9, Zenon DEF P

-----------------------------------------------------------------------------
\* The helper is allocated.
Allocated == pc \in {"fill", "define", "device", "done"}

EntryOf(i) == [ppn |-> md[i].page, numPages |-> PagesOf(md[i])]

LinkTo(k) == [ppn |-> PpnAt(breaks, k), numPages |-> 0]

\* As many helper pages as the segments need, and the device allows the table.
Sized ==
  /\ Allocated => /\ md # << >> /\ num_pages = PagesNeeded
                  /\ Len(md) + num_pages <= MaxLength
  /\ ~Allocated => offset = 0 /\ page = 0 /\ slot = 0

\* Where the next segment goes.
Place ==
  /\ Allocated => page < num_pages
  /\ pc = "fill" => slot < DPP /\ next_page = page + 1 /\ offset = page * DPP + slot
  /\ pc \in {"define", "device", "done"} => offset = Len(md) /\ page + 1 = num_pages

\* The run of physical pages in which the next helper page lies.
Links ==
  pc = "fill" =>
    /\ helper_length \in Nat /\ next_page + helper_length <= num_pages
    /\ \A m \in 0..(helper_length - 1) :
         PpnAt(breaks, next_page + m) = helper_ppn + m

\* What is in the table.
TableIs ==
  Allocated =>
    \A k \in HelperPages :
      /\ \A s \in 0..(DPP - 1) :
           table[k][s] = IF k * DPP + s < offset THEN EntryOf(k * DPP + s + 1)
                         ELSE Empty
      /\ table[k][DPP] = IF k < page THEN LinkTo(k + 1) ELSE Empty

\* What the device has taken when it is at slot s of page k.
Taken ==
  /\ pc \notin {"device", "done"} => at = << 0, 0 >> /\ reads = 0 /\ region = << >>
  /\ pc \in {"device", "done"} =>
       \E k \in HelperPages, s \in 0..DPP :
         /\ at = << k, s >> /\ k * DPP + s <= Len(md)
         /\ region = PagesOfFirst(md, k * DPP + s)
         /\ pc = "device" => reads = k * DPP + s + k
         /\ pc = "done" => k * DPP + s = Len(md)

IInv == TypeOK /\ Sized /\ Place /\ Links /\ TableIs /\ Taken

\* The helper pages that PagesNeeded counts hold the segments, and no page is left
\* over.
LEMMA Rows ==
  ASSUME md \in Seq(Segment), md # << >>
  PROVE  /\ PagesNeeded \in Nat \ {0} /\ Len(md) \in Nat \ {0}
         /\ (PagesNeeded - 1) * DPP < Len(md) /\ Len(md) <= PagesNeeded * DPP
<1>1. Len(md) \in Nat \ {0}
  OBVIOUS
<1>2. DPP \in Nat \ {0}
  BY TableAssumption
<1> DEFINE a == Len(md) + (DPP - 1)
<1>3. a \in Nat
  BY <1>1, <1>2
<1>4. PagesNeeded = a \div DPP
  BY DEF PagesNeeded
<1> HIDE DEF a
<1>5. /\ PagesNeeded \in Nat /\ PagesNeeded * DPP <= a
      /\ a < PagesNeeded * DPP + DPP
  BY <1>2, <1>3, <1>4, DivFacts
<1>6. PagesNeeded # 0
  BY <1>1, <1>2, <1>5 DEF a
<1>7. (PagesNeeded - 1) * DPP = PagesNeeded * DPP - DPP
  BY <1>2, <1>5
<1> QED  BY <1>1, <1>2, <1>5, <1>6, <1>7 DEF a

\* Before createGMR starts.
LEMMA InitInv == Init => IInv
<1> SUFFICES ASSUME Init PROVE IInv
  OBVIOUS
<1>1. TypeOK
  BY TableAssumption DEF Init, TypeOK
<1>2. Sized /\ Place /\ Links /\ TableIs /\ Taken
  BY DEF Init, Sized, Place, Links, TableIs, Taken, Allocated
<1> QED  BY <1>1, <1>2 DEF IInv

\* The steps that change only what createGMR does next.
LEMMA PlainInv ==
  ASSUME IInv, Refuse \/ FillEnds \/ DefineGMR
  PROVE  IInv'
<1> USE DEF IInv, driver, device
<1>1. UNCHANGED << md, breaks, table, offset, page, slot, num_pages, next_page,
                   helper_ppn, helper_length, at, reads, region >>
  BY DEF Refuse, FillEnds, DefineGMR
<1>2. \/ pc = "count" /\ pc' = "failed"
      \/ pc = "fill" /\ pc' = "define" /\ offset = Len(md)
      \/ pc = "define" /\ pc' = "device"
  BY DEF Refuse, FillEnds, DefineGMR
<1>3. TypeOK' /\ Sized' /\ Links'
  BY <1>1, <1>2 DEF TypeOK, Sized, Links, Allocated, HelperPages, PagesNeeded
<1>4. Place'
  <2>1. CASE pc = "fill"
    <3>1. /\ md # << >> /\ md \in Seq(Segment) /\ num_pages = PagesNeeded
          /\ page \in Nat /\ slot \in Nat /\ DPP \in Nat \ {0}
          /\ page < num_pages /\ slot < DPP /\ offset = page * DPP + slot
      BY <2>1, TableAssumption DEF TypeOK, Sized, Place, Allocated
    <3>2. num_pages \in Nat \ {0} /\ (num_pages - 1) * DPP < Len(md)
      BY <3>1, Rows
    <3>3. page < num_pages - 1 => page * DPP + DPP <= (num_pages - 1) * DPP
      BY <3>1, <3>2, RowsApart
    <3>4. page * DPP \in Nat /\ (num_pages - 1) * DPP \in Nat
      BY <3>1, <3>2
    <3>5. ~(page < num_pages - 1)
      BY <1>2, <2>1, <3>1, <3>2, <3>3, <3>4
    <3>6. page + 1 = num_pages
      BY <3>1, <3>2, <3>5
    <3> QED  BY <1>1, <1>2, <2>1, <3>6 DEF Place, Allocated
  <2>2. CASE pc # "fill"
    BY <1>1, <1>2, <2>2 DEF Place, Allocated
  <2> QED  BY <2>1, <2>2
<1>5. TableIs'
  BY <1>1, <1>2 DEF TableIs, Allocated, HelperPages, EntryOf, LinkTo
<1>6. Taken'
  <2>1. CASE pc = "define"
    <3>1. 0 \in HelperPages /\ 0 \in 0..DPP /\ DPP \in Nat /\ Len(md) \in Nat
      BY <2>1, TableAssumption DEF TypeOK, Place, Allocated, HelperPages
    <3>2. at = << 0, 0 >> /\ reads = 0 /\ region = << >>
      BY <2>1 DEF Taken
    <3>3. PagesOfFirst(md, 0) = << >>
      BY DEF PagesOfFirst
    <3>4. 0 * DPP + 0 = 0 /\ 0 <= Len(md)
      BY <3>1
    <3>5. HelperPages' = HelperPages
      BY <1>1 DEF HelperPages
    <3> QED
      BY <1>1, <1>2, <2>1, <3>1, <3>2, <3>3, <3>4, <3>5 DEF Taken
  <2>2. CASE pc # "define"
    BY <1>1, <1>2, <2>2 DEF Taken
  <2> QED  BY <2>1, <2>2
<1> QED  BY <1>3, <1>4, <1>5, <1>6

\* The breaks of the helper are finitely many natural numbers.
LEMMA BreaksFinite ==
  ASSUME NEW n \in Nat, NEW B, B \subseteq 1..(n - 1)
  PROVE  B \subseteq Nat /\ IsFiniteSet(B)
<1>1. IsFiniteSet(1..(n - 1))
  BY FS_Interval
<1>2. IsFiniteSet(B)
  BY <1>1, FS_Subset
<1> QED  BY <1>2

\* The helper is allocated: the second page is the next physical one, if the first
\* run is that long.
LEMMA AllocateInv == ASSUME IInv, AllocateHelper PROVE IInv'
<1> USE DEF IInv, device
<1>1. /\ md \in Seq(Segment) /\ md # << >> /\ md' = md
      /\ Len(md) + PagesNeeded <= MaxLength
      /\ num_pages' = PagesNeeded /\ breaks' \subseteq 1..(num_pages' - 1)
      /\ pc = "count" /\ pc' = "fill" /\ next_page' = 1
      /\ UNCHANGED << offset, page, slot, at, reads, region >>
  BY DEF AllocateHelper, Accepted, TypeOK
<1>2. num_pages' \in Nat \ {0}
  BY <1>1, Rows
<1>3. offset = 0 /\ page = 0 /\ slot = 0 /\ at = << 0, 0 >> /\ reads = 0
      /\ region = << >>
  BY <1>1 DEF Sized, Taken, Allocated
<1>4. DPP \in Nat \ {0} /\ Base \in Nat \ {0}
  BY TableAssumption
<1>5. /\ table' = [k \in 0..(num_pages' - 1) |-> [s \in 0..DPP |-> Empty]]
      /\ helper_ppn' = Base + 1
  BY DEF AllocateHelper
<1> DEFINE r == RunFrom(breaks', num_pages', 0)
<1>6. helper_length' = r - 1
  BY DEF AllocateHelper, ContiguousFrom, RunFrom
<1>7. /\ r \in Nat \ {0} /\ 0 + r <= num_pages'
      /\ \A m \in 0..(r - 1) : PpnAt(breaks', 0 + m) = PpnAt(breaks', 0) + m
  <2>1. \A n \in Nat \ {0} : 0 \in 0..(n - 1)
    OBVIOUS
  <2>2. 0 \in 0..(num_pages' - 1)
    BY <1>2, <2>1
  <2>3. breaks' \subseteq 1..(num_pages' - 1)
    BY <1>1
  <2>4. IsRun(breaks', num_pages', 0, r)
    BY <1>2, <2>2, <2>3, RunContiguous
  <2> HIDE DEF r
  <2> QED  BY <2>4 DEF IsRun
<1> HIDE DEF r
<1>8. PpnAt(breaks', 0) = Base
  <2>0. \A n \in Nat \ {0} : \A b \in 1..(n - 1) : ~(b <= 0)
    OBVIOUS
  <2>1. {b \in breaks' : b <= 0} = {}
    BY <1>1, <1>2, <2>0
  <2>2. Cardinality({b \in breaks' : b <= 0}) = 0
    BY <2>1, FS_EmptySet, Zenon
  <2>3. Base + 0 + Gap * 0 = Base
    BY TableAssumption
  <2> QED  BY <2>2, <2>3, Zenon DEF PpnAt
<1>9. TypeOK'
  <2>1. table' \in [HelperPages' -> [0..DPP -> Entry]]
    <3>1. Empty \in Entry
      BY DEF Entry, Empty
    <3> QED  BY <1>5, <3>1 DEF HelperPages
  <2>2. at' \in Int \X (0..(DPP + 1)) /\ region' \in Seq(Nat \ {0})
    BY <1>1 DEF TypeOK
  <2>3. helper_length' \in Int /\ helper_ppn' \in Nat
    BY <1>4, <1>5, <1>6, <1>7
  <2> QED
    BY <1>1, <1>2, <1>3, <1>4, <2>1, <2>2, <2>3 DEF TypeOK
<1>10. Sized' /\ Place'
  BY <1>1, <1>2, <1>3, <1>4 DEF Sized, Place, Allocated, PagesNeeded
<1>11. Links'
  <2>1. ASSUME NEW m \in 0..(r - 2) PROVE PpnAt(breaks', 1 + m) = (Base + 1) + m
    <3>1. m + 1 \in 0..(r - 1) /\ 0 + (m + 1) = 1 + m
      BY <1>7
    <3> QED  BY <1>4, <1>7, <1>8, <3>1
  <2> QED  BY <1>1, <1>2, <1>5, <1>6, <1>7, <2>1 DEF Links
<1>12. TableIs'
  <2>1. ASSUME NEW k \in 0..(num_pages' - 1)
        PROVE  /\ \A s \in 0..DPP : table'[k][s] = Empty
               /\ \A s \in 0..(DPP - 1) : ~(k * DPP + s < 0)
               /\ ~(k < 0)
    BY <1>2, <1>4, <1>5
  <2>2. offset' = 0 /\ page' = 0 /\ DPP \in 0..DPP
    BY <1>1, <1>3, <1>4
  <2> QED  BY <1>4, <2>1, <2>2 DEF TableIs, HelperPages
<1>13. Taken'
  BY <1>1, <1>3 DEF Taken
<1> QED  BY <1>9, <1>10, <1>11, <1>12, <1>13

\* A segment's number tells its helper page and its slot.
LEMMA SlotUnique ==
  ASSUME NEW d \in Nat \ {0}, NEW k \in Nat, NEW l \in Nat,
         NEW s \in 0..(d - 1), NEW t \in 0..(d - 1), k * d + s = l * d + t
  PROVE  k = l /\ s = t
<1>1. k * d \in Nat /\ l * d \in Nat
  OBVIOUS
<1>2. k < l => k * d + d <= l * d
  BY RowsApart
<1>3. l < k => l * d + d <= k * d
  BY RowsApart
<1>4. k = l
  BY <1>1, <1>2, <1>3
<1> QED  BY <1>1, <1>4

\* What holds while there is a segment to write.
LEMMA Filling ==
  ASSUME IInv, pc = "fill", offset < Len(md)
  PROVE  /\ md \in Seq(Segment) /\ md # << >> /\ DPP \in Nat \ {0}
         /\ Len(md) \in Nat /\ num_pages \in Nat \ {0} /\ num_pages = PagesNeeded
         /\ page \in 0..(num_pages - 1) /\ slot \in 0..(DPP - 1)
         /\ offset \in Nat /\ offset = page * DPP + slot /\ next_page = page + 1
         /\ breaks \subseteq 1..(num_pages - 1)
         /\ table \in [0..(num_pages - 1) -> [0..DPP -> Entry]]
         /\ Len(md) <= num_pages * DPP
         /\ Described = EntryOf(offset + 1) /\ Described \in Entry
<1>1. md \in Seq(Segment) /\ md # << >> /\ num_pages = PagesNeeded
  BY DEF IInv, TypeOK, Sized, Allocated
<1>2. /\ num_pages \in Nat \ {0} /\ Len(md) \in Nat /\ Len(md) <= num_pages * DPP
      /\ DPP \in Nat \ {0} /\ PageSize \in Nat \ {0}
  BY <1>1, Rows, TableAssumption
<1>3. /\ slot < DPP /\ next_page = page + 1 /\ offset = page * DPP + slot
      /\ page < num_pages
  BY DEF IInv, Place, Allocated
<1>4. page \in Nat /\ slot \in Nat /\ offset \in Nat /\ breaks \subseteq 1..(num_pages - 1)
  BY DEF IInv, TypeOK
<1>5. table \in [0..(num_pages - 1) -> [0..DPP -> Entry]]
  BY DEF IInv, TypeOK, HelperPages
<1>6. Described \in Entry
  <2> DEFINE g == md[offset + 1]
  <2>1. g \in Segment
    BY <1>1, <1>2, <1>4
  <2> HIDE DEF g
  <2>2. g.page \in Nat /\ g.off \in Nat /\ g.len \in Nat \ {0}
    BY <1>2, <2>1 DEF Segment
  <2>3. PagesOf(g) \in Nat
    <3>1. g.off + g.len + PageSize - 1 \in Nat
      BY <1>2, <2>2
    <3> QED  BY <1>2, <3>1, DivFacts DEF PagesOf
  <2> QED  BY <2>2, <2>3 DEF Described, Entry, g
<1>7. page \in 0..(num_pages - 1) /\ slot \in 0..(DPP - 1)
  BY <1>2, <1>3, <1>4
<1> QED
  BY <1>1, <1>2, <1>3, <1>4, <1>5, <1>6, <1>7 DEF Described, EntryOf

\* After a segment has been written there is one more in the table.
LEMMA EntryWritten ==
  ASSUME IInv, pc = "fill", offset < Len(md), offset' = offset + 1, md' = md,
         NEW k \in 0..(num_pages - 1), NEW s \in 0..(DPP - 1), NEW e,
         e = IF k = page /\ s = slot THEN Described ELSE table[k][s]
  PROVE  e = IF k * DPP + s < offset' THEN EntryOf(k * DPP + s + 1)' ELSE Empty
<1>0. /\ DPP \in Nat \ {0} /\ num_pages \in Nat \ {0}
      /\ page \in 0..(num_pages - 1) /\ slot \in 0..(DPP - 1)
      /\ offset \in Nat /\ offset = page * DPP + slot
      /\ Described = EntryOf(offset + 1)
  BY Filling
<1>1. table[k][s] = IF k * DPP + s < offset THEN EntryOf(k * DPP + s + 1) ELSE Empty
  BY DEF IInv, TableIs, Allocated, HelperPages
<1>2. k * DPP + s = offset <=> k = page /\ s = slot
  <2>1. k \in Nat /\ page \in Nat
    BY <1>0
  <2> QED  BY <1>0, <2>1, SlotUnique
<1>3. k * DPP + s \in Nat
  BY <1>0
<1>4. \A i : EntryOf(i)' = EntryOf(i)
  BY DEF EntryOf
<1> DEFINE i == k * DPP + s
<1> HIDE DEF i
<1>5. i < offset + 1 <=> i < offset \/ i = offset
  BY <1>0, <1>3 DEF i
<1>6. e = IF i < offset + 1 THEN EntryOf(i + 1) ELSE Empty
  <2>1. CASE i = offset
    BY <1>0, <1>2, <1>3, <1>5, <2>1 DEF i
  <2>2. CASE i # offset
    BY <1>1, <1>2, <1>5, <2>2 DEF i
  <2> QED  BY <2>1, <2>2
<1> QED  BY <1>4, <1>6 DEF i

\* A segment, and there is another slot.
LEMMA WriteEntryInv == ASSUME IInv, WriteEntry PROVE IInv'
<1>1. /\ pc = "fill" /\ offset < Len(md) /\ slot + 1 < DPP
      /\ table' = [table EXCEPT ![page][slot] = Described]
      /\ offset' = offset + 1 /\ slot' = slot + 1
      /\ UNCHANGED << md, breaks, page, num_pages, next_page, helper_ppn,
                      helper_length, pc, at, reads, region >>
  BY DEF WriteEntry, device
<1>2. /\ md \in Seq(Segment) /\ DPP \in Nat \ {0} /\ Len(md) \in Nat
      /\ num_pages \in Nat \ {0}
      /\ page \in 0..(num_pages - 1) /\ slot \in 0..(DPP - 1)
      /\ offset \in Nat /\ offset = page * DPP + slot /\ next_page = page + 1
      /\ table \in [0..(num_pages - 1) -> [0..DPP -> Entry]] /\ Described \in Entry
  BY <1>1, Filling
<1>3. table' \in [0..(num_pages - 1) -> [0..DPP -> Entry]]
  BY <1>1, <1>2
<1>4. TypeOK'
  <2>1. slot' \in 0..DPP /\ offset' \in 0..Len(md')
    BY <1>1, <1>2
  <2> QED  BY <1>1, <1>3, <2>1 DEF IInv, TypeOK, HelperPages
<1>5. Sized' /\ Links' /\ Taken'
  BY <1>1 DEF IInv, Sized, Links, Taken, Allocated, PagesNeeded
<1>6. Place'
  BY <1>1, <1>2 DEF IInv, Place, Allocated
<1>7. TableIs'
  <2> SUFFICES ASSUME NEW k \in 0..(num_pages - 1)
               PROVE  /\ \A s \in 0..(DPP - 1) :
                           table'[k][s] = IF k * DPP + s < offset'
                                          THEN EntryOf(k * DPP + s + 1)' ELSE Empty
                      /\ table'[k][DPP] = IF k < page THEN LinkTo(k + 1) ELSE Empty
    BY <1>1 DEF TableIs, HelperPages, LinkTo
  <2>1. \A s \in 0..DPP :
          table'[k][s] = IF k = page /\ s = slot THEN Described ELSE table[k][s]
    BY <1>1, <1>2
  <2>2. table'[k][DPP] = table[k][DPP]
    BY <1>2, <2>1
  <2>3. table[k][DPP] = IF k < page THEN LinkTo(k + 1) ELSE Empty
    BY <1>1 DEF IInv, TableIs, Allocated, HelperPages
  <2> QED  BY <1>1, <1>2, <2>1, <2>2, <2>3, EntryWritten
<1> QED  BY <1>4, <1>5, <1>6, <1>7 DEF IInv

\* A segment that fills the last helper page is the last one.
LEMMA WriteLastEntryInv == ASSUME IInv, WriteLastEntry PROVE IInv'
<1>1. /\ pc = "fill" /\ offset < Len(md) /\ slot + 1 = DPP /\ next_page >= num_pages
      /\ table' = [table EXCEPT ![page][slot] = Described]
      /\ offset' = offset + 1 /\ slot' = slot + 1 /\ pc' = "define"
      /\ UNCHANGED << md, breaks, page, num_pages, next_page, helper_ppn,
                      helper_length, at, reads, region >>
  BY DEF WriteLastEntry, device
<1>2. /\ md \in Seq(Segment) /\ DPP \in Nat \ {0} /\ Len(md) \in Nat
      /\ num_pages \in Nat \ {0}
      /\ page \in 0..(num_pages - 1) /\ slot \in 0..(DPP - 1)
      /\ offset \in Nat /\ offset = page * DPP + slot /\ next_page = page + 1
      /\ table \in [0..(num_pages - 1) -> [0..DPP -> Entry]] /\ Described \in Entry
      /\ Len(md) <= num_pages * DPP
  BY <1>1, Filling
<1>3. table' \in [0..(num_pages - 1) -> [0..DPP -> Entry]]
  BY <1>1, <1>2
<1>4. page + 1 = num_pages /\ offset' = Len(md)
  <2>1. page + 1 = num_pages
    BY <1>1, <1>2
  <2>2. num_pages * DPP = page * DPP + DPP
    BY <1>2, <2>1
  <2>3. \A r \in Nat : offset = r + slot /\ Len(md) <= r + DPP => offset + 1 = Len(md)
    BY <1>1, <1>2
  <2>4. page * DPP \in Nat
    BY <1>2
  <2> QED  BY <1>1, <1>2, <2>1, <2>2, <2>3, <2>4
<1>5. TypeOK'
  <2>1. slot' \in 0..DPP /\ offset' \in 0..Len(md')
    BY <1>1, <1>2
  <2> QED  BY <1>1, <1>3, <2>1 DEF IInv, TypeOK, HelperPages
<1>6. Sized' /\ Links' /\ Taken'
  BY <1>1 DEF IInv, Sized, Links, Taken, Allocated, PagesNeeded
<1>7. Place'
  BY <1>1, <1>2, <1>4 DEF Place, Allocated
<1>8. TableIs'
  <2> SUFFICES ASSUME NEW k \in 0..(num_pages - 1)
               PROVE  /\ \A s \in 0..(DPP - 1) :
                           table'[k][s] = IF k * DPP + s < offset'
                                          THEN EntryOf(k * DPP + s + 1)' ELSE Empty
                      /\ table'[k][DPP] = IF k < page THEN LinkTo(k + 1) ELSE Empty
    BY <1>1 DEF TableIs, HelperPages, LinkTo
  <2>1. \A s \in 0..DPP :
          table'[k][s] = IF k = page /\ s = slot THEN Described ELSE table[k][s]
    BY <1>1, <1>2
  <2>2. table'[k][DPP] = table[k][DPP]
    <3>1. DPP \in 0..DPP /\ DPP # slot
      BY <1>2
    <3> QED  BY <2>1, <3>1
  <2>3. table[k][DPP] = IF k < page THEN LinkTo(k + 1) ELSE Empty
    BY <1>1 DEF IInv, TableIs, Allocated, HelperPages
  <2> QED  BY <1>1, <1>2, <2>1, <2>2, <2>3, EntryWritten
<1> QED  BY <1>5, <1>6, <1>7, <1>8 DEF IInv

\* A segment that fills a helper page, and the link to the next one, which is its
\* physical page whether the run goes on or a new one starts.
LEMMA WriteLinkInv == ASSUME IInv, WriteEntryAndLink PROVE IInv'
<1>1. /\ pc = "fill" /\ offset < Len(md) /\ slot + 1 = DPP
      /\ helper_length > 0 \/ next_page < num_pages
      /\ table' = [table EXCEPT ![page][slot] = Described,
                                ![page][DPP] = [ppn |-> LinkPpn, numPages |-> 0]]
      /\ offset' = offset + 1 /\ helper_ppn' = LinkPpn + 1
      /\ page' = next_page /\ slot' = 0 /\ next_page' = next_page + 1
      /\ UNCHANGED << md, breaks, num_pages, pc, at, reads, region >>
  BY DEF WriteEntryAndLink, device
<1>2. /\ md \in Seq(Segment) /\ DPP \in Nat \ {0} /\ Len(md) \in Nat
      /\ num_pages \in Nat \ {0}
      /\ page \in 0..(num_pages - 1) /\ slot \in 0..(DPP - 1)
      /\ offset \in Nat /\ offset = page * DPP + slot /\ next_page = page + 1
      /\ table \in [0..(num_pages - 1) -> [0..DPP -> Entry]] /\ Described \in Entry
      /\ breaks \subseteq 1..(num_pages - 1)
  BY <1>1, Filling
<1>3. /\ helper_length \in Nat /\ next_page + helper_length <= num_pages
      /\ \A m \in 0..(helper_length - 1) :
           PpnAt(breaks, next_page + m) = helper_ppn + m
  BY <1>1 DEF IInv, Links
<1>4. helper_ppn \in Nat
  BY DEF IInv, TypeOK
<1>5. next_page \in 0..(num_pages - 1)
  BY <1>1, <1>2, <1>3
<1>6. LinkPpn = PpnAt(breaks, next_page) /\ LinkPpn \in Nat
  <2>1. PpnAt(breaks, next_page) \in Nat
    <3>1. next_page \in Nat /\ num_pages \in Nat
      BY <1>2, <1>5
    <3>2. breaks \subseteq Nat /\ IsFiniteSet(breaks)
      BY <1>2, <3>1, BreaksFinite
    <3> QED  BY <3>1, <3>2, PpnType
  <2>2. CASE helper_length > 0
    <3>1. 0 \in 0..(helper_length - 1) /\ next_page + 0 = next_page
      BY <1>3, <1>5, <2>2
    <3>2. PpnAt(breaks, next_page) = helper_ppn + 0
      BY <1>3, <3>1
    <3> QED  BY <1>4, <2>1, <2>2, <3>2 DEF LinkPpn
  <2>3. CASE ~(helper_length > 0)
    BY <2>1, <2>3 DEF LinkPpn, PpnOf, PpnAt
  <2> QED  BY <2>2, <2>3
<1>7. /\ helper_length' \in Nat /\ next_page' + helper_length' <= num_pages'
      /\ \A m \in 0..(helper_length' - 1) :
           PpnAt(breaks', next_page' + m) = helper_ppn' + m
  <2>1. CASE helper_length > 0
    <3>1. helper_length' = helper_length - 1
      BY <2>1 DEF WriteEntryAndLink
    <3>2. helper_ppn' = helper_ppn + 1
      BY <1>1, <2>1 DEF LinkPpn
    <3>3. ASSUME NEW m \in 0..(helper_length - 2)
          PROVE  PpnAt(breaks, (next_page + 1) + m) = (helper_ppn + 1) + m
      <4>1. m + 1 \in 0..(helper_length - 1)
            /\ next_page + (m + 1) = (next_page + 1) + m
        BY <1>3, <1>5, <2>1
      <4>2. PpnAt(breaks, next_page + (m + 1)) = helper_ppn + (m + 1)
        BY <1>3, <4>1
      <4> QED  BY <1>4, <4>1, <4>2
    <3> QED  BY <1>1, <1>3, <1>5, <2>1, <3>1, <3>2, <3>3
  <2>2. CASE ~(helper_length > 0)
    <3> DEFINE r == RunFrom(breaks, num_pages, next_page)
    <3>1. helper_length' = r - 1
      BY <2>2 DEF WriteEntryAndLink, ContiguousFrom, RunFrom
    <3>2. IsRun(breaks, num_pages, next_page, r)
      BY <1>2, <1>5, RunContiguous
    <3> HIDE DEF r
    <3>3. /\ r \in Nat \ {0} /\ next_page + r <= num_pages
          /\ \A m \in 0..(r - 1) :
               PpnAt(breaks, next_page + m) = PpnAt(breaks, next_page) + m
      BY <3>2 DEF IsRun
    <3>4. ASSUME NEW m \in 0..(r - 2)
          PROVE  PpnAt(breaks, (next_page + 1) + m) = (LinkPpn + 1) + m
      <4>1. m + 1 \in 0..(r - 1) /\ next_page + (m + 1) = (next_page + 1) + m
        BY <1>5, <3>3
      <4>2. PpnAt(breaks, next_page + (m + 1)) = LinkPpn + (m + 1)
        BY <1>6, <3>3, <4>1
      <4> QED  BY <1>6, <4>1, <4>2
    <3> QED  BY <1>1, <1>5, <3>1, <3>3, <3>4
  <2> QED  BY <2>1, <2>2
<1>8. table' \in [0..(num_pages - 1) -> [0..DPP -> Entry]]
  <2>1. [ppn |-> LinkPpn, numPages |-> 0] \in Entry
    BY <1>6 DEF Entry
  <2> QED  BY <1>1, <1>2, <2>1
<1>9. TypeOK'
  <2>1. slot' \in 0..DPP /\ offset' \in 0..Len(md') /\ page' \in Nat
        /\ next_page' \in Nat /\ helper_ppn' \in Nat /\ helper_length' \in Int
    BY <1>1, <1>2, <1>5, <1>6, <1>7
  <2> QED  BY <1>1, <1>8, <2>1 DEF IInv, TypeOK, HelperPages
<1>10. Sized' /\ Links' /\ Taken'
  BY <1>1, <1>7 DEF IInv, Sized, Links, Taken, Allocated, PagesNeeded
<1>11. Place'
  <2>1. (page + 1) * DPP = page * DPP + DPP
    BY <1>2
  <2>2. offset' = page' * DPP + slot'
    BY <1>1, <1>2, <2>1
  <2> QED  BY <1>1, <1>2, <1>5, <2>2 DEF Place, Allocated
<1>12. TableIs'
  <2> SUFFICES ASSUME NEW k \in 0..(num_pages - 1)
               PROVE  /\ \A s \in 0..(DPP - 1) :
                           table'[k][s] = IF k * DPP + s < offset'
                                          THEN EntryOf(k * DPP + s + 1)' ELSE Empty
                      /\ table'[k][DPP] = IF k < page' THEN LinkTo(k + 1) ELSE Empty
    BY <1>1 DEF TableIs, HelperPages, LinkTo
  <2>1. \A s \in 0..(DPP - 1) :
          table'[k][s] = IF k = page /\ s = slot THEN Described ELSE table[k][s]
    BY <1>1, <1>2
  <2>2. table'[k][DPP] = IF k = page THEN LinkTo(next_page) ELSE table[k][DPP]
    BY <1>1, <1>2, <1>6 DEF LinkTo
  <2>3. table[k][DPP] = IF k < page THEN LinkTo(k + 1) ELSE Empty
    BY <1>1 DEF IInv, TableIs, Allocated, HelperPages
  <2>4. table'[k][DPP] = IF k < page' THEN LinkTo(k + 1) ELSE Empty
    BY <1>1, <1>2, <2>2, <2>3
  <2> QED  BY <1>1, <1>2, <2>1, <2>4, EntryWritten
<1> QED  BY <1>9, <1>10, <1>11, <1>12 DEF IInv

-----------------------------------------------------------------------------
\* What the device reads at slot s of helper page k after j segments.
AtSlot(k, s, j) ==
  /\ at = << k, s >> /\ j = k * DPP + s /\ j <= Len(md)
  /\ region = PagesOfFirst(md, j) /\ reads = j + k
  /\ s < DPP => Current = IF j < Len(md) THEN EntryOf(j + 1) ELSE Empty
  /\ s = DPP => Current = IF k < page THEN LinkTo(k + 1) ELSE Empty

\* The device reads what createGMR wrote.
LEMMA Reading ==
  ASSUME IInv, pc = "device"
  PROVE  /\ md \in Seq(Segment) /\ md # << >> /\ Len(md) \in Nat \ {0}
         /\ DPP \in Nat \ {0} /\ num_pages \in Nat \ {0} /\ page \in Nat
         /\ page + 1 = num_pages /\ Len(md) <= num_pages * DPP
         /\ breaks \subseteq 1..(num_pages - 1)
         /\ Len(md) + num_pages <= MaxLength /\ MaxLength \in Nat
         /\ \E k \in 0..(num_pages - 1), s \in 0..DPP, j \in Nat : AtSlot(k, s, j)
<1>1. /\ md \in Seq(Segment) /\ md # << >> /\ num_pages = PagesNeeded
      /\ page \in Nat /\ breaks \subseteq 1..(num_pages - 1)
      /\ Len(md) + num_pages <= MaxLength
  BY DEF IInv, TypeOK, Sized, Allocated
<1>2. /\ Len(md) \in Nat \ {0} /\ num_pages \in Nat \ {0}
      /\ Len(md) <= num_pages * DPP /\ DPP \in Nat \ {0} /\ MaxLength \in Nat
  BY <1>1, Rows, TableAssumption
<1>3. page + 1 = num_pages /\ offset = Len(md)
  BY DEF IInv, Place
<1>4. PICK k \in HelperPages, s \in 0..DPP :
        /\ at = << k, s >> /\ k * DPP + s <= Len(md)
        /\ region = PagesOfFirst(md, k * DPP + s) /\ reads = k * DPP + s + k
  BY DEF IInv, Taken
<1>5. k \in 0..(num_pages - 1) /\ k * DPP + s \in Nat
  BY <1>2 DEF HelperPages
<1>6. Current = table[k][s]
  BY <1>4 DEF Current
<1>7. s < DPP => table[k][s] = IF k * DPP + s < Len(md)
                               THEN EntryOf(k * DPP + s + 1) ELSE Empty
  <2>1. s < DPP => s \in 0..(DPP - 1)
    BY <1>2
  <2> QED  BY <1>3, <2>1 DEF IInv, TableIs, Allocated
<1>8. table[k][DPP] = IF k < page THEN LinkTo(k + 1) ELSE Empty
  BY DEF IInv, TableIs, Allocated
<1>9. AtSlot(k, s, k * DPP + s)
  BY <1>4, <1>6, <1>7, <1>8 DEF AtSlot
<1> QED  BY <1>1, <1>2, <1>3, <1>5, <1>9

\* The entry of a segment names the pages that hold its bytes.
LEMMA EntryPages ==
  ASSUME IInv, NEW j \in Nat, j < Len(md), NEW e, e = EntryOf(j + 1)
  PROVE  /\ [i \in 1..e.numPages |-> e.ppn + i - 1] = PiecesOf(md)[j + 1]
         /\ [i \in 1..e.numPages |-> e.ppn + i - 1] \in Seq(Nat \ {0})
<1> DEFINE g == md[j + 1]
<1>1. md \in Seq(Segment)
  BY DEF IInv, TypeOK
<1>2. j + 1 \in DOMAIN md /\ g \in Segment
  BY <1>1
<1>3. PageSize \in Nat \ {0}
  BY TableAssumption
<1>4. e.ppn = g.page /\ e.numPages = PagesOf(g)
  BY DEF EntryOf
<1>5. PiecesOf(md)[j + 1] =
        [i \in 1..((g.off + g.len - 1) \div PageSize + 1) |-> g.page + i - 1]
  BY <1>2 DEF PiecesOf
<1> HIDE DEF g
<1>6. g.page \in Nat \ {0} /\ g.off \in Nat /\ g.len \in Nat \ {0}
  BY <1>2, <1>3 DEF Segment
<1> DEFINE a == g.off + g.len - 1
<1>7. a \in Nat /\ g.off + g.len + PageSize - 1 = a + PageSize
  BY <1>3, <1>6
<1>8. PagesOf(g) = (a + PageSize) \div PageSize
  BY <1>7 DEF PagesOf
<1> DEFINE c == a \div PageSize + 1
<1>9. PagesOf(g) = c /\ c \in Nat
  <2>0. a \in Nat
    BY <1>7
  <2> HIDE DEF a
  <2>1. a \div PageSize \in Nat
    BY <1>3, <2>0, DivFacts
  <2>2. (a + PageSize) \div PageSize = (a \div PageSize) + 1
    BY <1>3, <2>0, DivNext
  <2> QED  BY <1>8, <2>1, <2>2
<1>10. PiecesOf(md)[j + 1] = [i \in 1..c |-> g.page + i - 1]
  BY <1>5
<1> HIDE DEF a, c
<1>11. [i \in 1..c |-> g.page + i - 1] \in Seq(Nat \ {0})
  <2> DEFINE p == g.page
  <2>1. p \in Nat \ {0}
    BY <1>6
  <2> HIDE DEF p
  <2>2. \A i \in 1..c : p + i - 1 \in Nat \ {0}
    BY <1>9, <2>1
  <2>3. [i \in 1..c |-> p + i - 1] \in Seq(Nat \ {0})
    BY <1>9, <2>2
  <2> QED  BY <2>3 DEF p
<1> QED  BY <1>4, <1>9, <1>10, <1>11

\* A step of the device that leaves the table alone and reads on.
LEMMA StillReading ==
  ASSUME IInv, pc = "device", pc' = "device", UNCHANGED driver,
         NEW k \in 0..(num_pages - 1), NEW s \in 0..DPP,
         at' = << k, s >>, k * DPP + s <= Len(md),
         region' = PagesOfFirst(md, k * DPP + s), reads' = k * DPP + s + k,
         region' \in Seq(Nat \ {0})
  PROVE  IInv'
<1> USE DEF driver
<1>1. DPP \in Nat /\ num_pages \in Nat
  BY Reading
<1>2. TypeOK'
  <2>1. k \in Nat /\ k \in Int /\ s \in 0..(DPP + 1)
    BY <1>1
  <2>2. k * DPP + s + k \in Nat
    BY <1>1, <2>1
  <2>3. at' \in Int \X (0..(DPP + 1)) /\ reads' \in Nat
    BY <2>1, <2>2
  <2> QED  BY <2>3 DEF IInv, TypeOK, HelperPages
<1>3. Sized' /\ Place' /\ Links' /\ TableIs'
  BY DEF IInv, Sized, Place, Links, TableIs, Allocated, PagesNeeded, HelperPages,
         EntryOf, LinkTo
<1>4. Taken'
  BY DEF Taken, HelperPages
<1> QED  BY <1>2, <1>3, <1>4 DEF IInv

\* The entry of a segment adds its pages.
LEMMA TakesRangeInv == ASSUME IInv, DeviceTakesRange PROVE IInv'
<1>1. /\ pc = "device" /\ pc' = pc /\ UNCHANGED driver /\ Current.numPages # 0
      /\ region' = region \o [i \in 1..Current.numPages |-> Current.ppn + i - 1]
      /\ at' = << at[1], at[2] + 1 >> /\ reads' = reads + 1
  BY DEF DeviceTakesRange, CanRead
<1>2. /\ md \in Seq(Segment) /\ Len(md) \in Nat /\ DPP \in Nat \ {0}
      /\ num_pages \in Nat \ {0}
  BY <1>1, Reading
<1>3. PICK k \in 0..(num_pages - 1), s \in 0..DPP, j \in Nat : AtSlot(k, s, j)
  BY <1>1, Reading
<1>4. s < DPP /\ j < Len(md) /\ Current = EntryOf(j + 1)
  <2>1. Empty.numPages = 0 /\ LinkTo(k + 1).numPages = 0
    BY DEF Empty, LinkTo
  <2>2. Current # Empty /\ Current # LinkTo(k + 1)
    BY <1>1, <2>1
  <2>3. s < DPP
    BY <1>2, <1>3, <2>2 DEF AtSlot
  <2> QED  BY <1>3, <2>2, <2>3 DEF AtSlot
<1>5. at' = << k, s + 1 >> /\ s + 1 \in 0..DPP
  BY <1>1, <1>2, <1>3, <1>4 DEF AtSlot
<1>6. k * DPP + (s + 1) = j + 1 /\ j + 1 <= Len(md) /\ reads' = j + 1 + k
  <2>1. k \in Nat /\ k * DPP \in Nat /\ j = k * DPP + s /\ reads = j + k
    BY <1>2, <1>3 DEF AtSlot
  <2> QED  BY <1>1, <1>2, <1>4, <2>1
<1>7. region' = PagesOfFirst(md, j + 1)
  <2>1. j \in 0..(Len(md) - 1)
    BY <1>2, <1>4
  <2>2. PagesOfFirst(md, j + 1) = PagesOfFirst(md, j) \o PiecesOf(md)[j + 1]
    BY <1>2, <2>1, PagesOfNext
  <2>3. [i \in 1..Current.numPages |-> Current.ppn + i - 1] = PiecesOf(md)[j + 1]
    BY <1>4, EntryPages
  <2>4. region = PagesOfFirst(md, j)
    BY <1>3 DEF AtSlot
  <2> QED  BY <1>1, <2>2, <2>3, <2>4
<1>8. region' \in Seq(Nat \ {0})
  <2> DEFINE new == [i \in 1..Current.numPages |-> Current.ppn + i - 1]
  <2>1. new \in Seq(Nat \ {0})
    BY <1>4, EntryPages
  <2>2. region \in Seq(Nat \ {0})
    BY DEF IInv, TypeOK
  <2>3. region' = region \o new
    BY <1>1
  <2> HIDE DEF new
  <2> QED  BY <2>1, <2>2, <2>3
<1>9. /\ k * DPP + (s + 1) <= Len(md) /\ region' = PagesOfFirst(md, k * DPP + (s + 1))
      /\ reads' = k * DPP + (s + 1) + k
  BY <1>6, <1>7
<1> QED  BY <1>1, <1>5, <1>8, <1>9, StillReading

\* A link leads to the next helper page, and to no other.
LEMMA FollowsLinkInv == ASSUME IInv, DeviceFollowsLink PROVE IInv'
<1>1. /\ pc = "device" /\ pc' = pc /\ UNCHANGED driver /\ region' = region
      /\ Current.ppn # 0 /\ Current.numPages = 0 /\ reads' = reads + 1
      /\ at' = << IF \E k \in HelperPages : PpnOf(k) = Current.ppn
                  THEN CHOOSE k \in HelperPages : PpnOf(k) = Current.ppn
                  ELSE -1, 0 >>
  BY DEF DeviceFollowsLink, CanRead
<1>2. /\ md \in Seq(Segment) /\ Len(md) \in Nat /\ DPP \in Nat \ {0}
      /\ num_pages \in Nat \ {0} /\ page \in Nat /\ page + 1 = num_pages
      /\ breaks \subseteq 1..(num_pages - 1)
  BY <1>1, Reading
<1>3. PICK k \in 0..(num_pages - 1), s \in 0..DPP, j \in Nat : AtSlot(k, s, j)
  BY <1>1, Reading
<1>4. s = DPP /\ k < page /\ Current = LinkTo(k + 1)
  <2>1. Current # Empty
    BY <1>1 DEF Empty
  <2>2. ASSUME s < DPP PROVE FALSE
    <3>1. j < Len(md) /\ Current = EntryOf(j + 1)
      BY <1>3, <2>1, <2>2 DEF AtSlot
    <3> DEFINE g == md[j + 1]
    <3>2. g \in Segment /\ Current.numPages = PagesOf(g)
      BY <1>2, <3>1 DEF EntryOf
    <3> HIDE DEF g
    <3>3. PageSize \in Nat \ {0}
      BY TableAssumption
    <3>4. g.off \in Nat /\ g.len \in Nat \ {0}
      BY <3>2, <3>3 DEF Segment
    <3> DEFINE a == g.off + g.len - 1
    <3>5. a \in Nat /\ PagesOf(g) = (a + PageSize) \div PageSize
      <4>1. a \in Nat /\ g.off + g.len + PageSize - 1 = a + PageSize
        BY <3>3, <3>4
      <4> QED  BY <4>1 DEF PagesOf
    <3> HIDE DEF a
    <3>6. PagesOf(g) = (a \div PageSize) + 1 /\ a \div PageSize \in Nat
      BY <3>3, <3>5, DivFacts, DivNext
    <3> QED  BY <1>1, <3>2, <3>6
  <2>3. s = DPP
    BY <1>2, <2>2
  <2> QED  BY <1>3, <2>1, <2>3 DEF AtSlot
<1>5. breaks \subseteq Nat /\ IsFiniteSet(breaks)
  <2>1. num_pages \in Nat
    BY <1>2
  <2> QED  BY <1>2, <2>1, BreaksFinite
<1>6. k + 1 \in HelperPages /\ k + 1 \in Nat /\ HelperPages \subseteq Nat
  BY <1>2, <1>4 DEF HelperPages
<1>7. Current.ppn = PpnAt(breaks, k + 1) /\ \A l : PpnOf(l) = PpnAt(breaks, l)
  BY <1>4 DEF LinkTo, PpnOf, PpnAt
<1>8. ASSUME NEW l \in HelperPages, PpnOf(l) = Current.ppn PROVE l = k + 1
  <2>1. l \in Nat /\ PpnAt(breaks, l) = PpnAt(breaks, k + 1)
    BY <1>6, <1>7, <1>8
  <2>2. PpnAt(breaks, l) \in Nat
    BY <1>5, <2>1, PpnType
  <2> DEFINE n == k + 1
  <2>3. n \in Nat /\ PpnAt(breaks, l) = PpnAt(breaks, n)
    BY <1>6, <2>1
  <2> HIDE DEF n
  <2>4. l < n => PpnAt(breaks, l) < PpnAt(breaks, n)
    BY <1>5, <2>1, <2>3, PpnGrows
  <2>5. n < l => PpnAt(breaks, n) < PpnAt(breaks, l)
    BY <1>5, <2>1, <2>3, PpnGrows
  <2>6. l = n
    BY <2>1, <2>2, <2>3, <2>4, <2>5
  <2> QED  BY <2>6 DEF n
<1>9. at' = << k + 1, 0 >>
  <2>1. \E l \in HelperPages : PpnOf(l) = Current.ppn
    BY <1>6, <1>7
  <2>2. (CHOOSE l \in HelperPages : PpnOf(l) = Current.ppn) = k + 1
    BY <1>8, <2>1, Zenon
  <2> QED  BY <1>1, <2>1, <2>2
<1>10. (k + 1) * DPP + 0 = j /\ reads' = j + (k + 1)
  <2>1. k \in Nat /\ j = k * DPP + DPP /\ reads = j + k
    BY <1>2, <1>3, <1>4 DEF AtSlot
  <2>2. (k + 1) * DPP = k * DPP + DPP /\ k * DPP \in Nat
    BY <1>2, <2>1
  <2> QED  BY <1>1, <1>2, <2>1, <2>2
<1>11. region' \in Seq(Nat \ {0}) /\ region' = PagesOfFirst(md, j) /\ j <= Len(md)
  BY <1>1, <1>3 DEF IInv, TypeOK, AtSlot
<1>12. k + 1 \in 0..(num_pages - 1) /\ 0 \in 0..DPP
  BY <1>2, <1>6 DEF HelperPages
<1> QED  BY <1>1, <1>9, <1>10, <1>11, <1>12, StillReading

\* The device meets the empty entry only after the last segment.
LEMMA EndsInv == ASSUME IInv, DeviceEnds PROVE IInv'
<1>1. /\ pc = "device" /\ pc' = "done" /\ UNCHANGED driver
      /\ UNCHANGED << at, region >> /\ reads' = reads + 1 /\ Current = Empty
  BY DEF DeviceEnds, CanRead
<1>2. /\ md \in Seq(Segment) /\ Len(md) \in Nat /\ DPP \in Nat \ {0}
      /\ num_pages \in Nat \ {0} /\ page \in Nat /\ page + 1 = num_pages
      /\ breaks \subseteq 1..(num_pages - 1) /\ Len(md) <= num_pages * DPP
  BY <1>1, Reading
<1>3. PICK k \in 0..(num_pages - 1), s \in 0..DPP, j \in Nat : AtSlot(k, s, j)
  BY <1>1, Reading
<1>4. j = k * DPP + s /\ j <= Len(md) /\ k \in Nat
  BY <1>2, <1>3 DEF AtSlot
<1>5. j = Len(md)
  <2>1. CASE s < DPP
    <3>1. j < Len(md) => FALSE
      <4> SUFFICES ASSUME j < Len(md) PROVE FALSE
        OBVIOUS
      <4>1. EntryOf(j + 1) = Empty
        BY <1>1, <1>3, <2>1 DEF AtSlot
      <4> DEFINE g == md[j + 1]
      <4>2. g \in Segment
        BY <1>2
      <4>3. g.page = 0
        BY <4>1 DEF EntryOf, Empty
      <4> HIDE DEF g
      <4> QED  BY <4>2, <4>3 DEF Segment
    <3> QED  BY <1>2, <1>4, <3>1
  <2>2. CASE s = DPP
    <3>1. ~(k < page)
      <4> SUFFICES ASSUME k < page PROVE FALSE
        OBVIOUS
      <4>1. LinkTo(k + 1) = Empty
        BY <1>1, <1>3, <2>2 DEF AtSlot
      <4>2. PpnAt(breaks, k + 1) = 0
        BY <4>1 DEF LinkTo, Empty
      <4>3. IsFiniteSet(breaks) /\ k + 1 \in Nat
        <5>1. num_pages \in Nat
          BY <1>2
        <5>2. IsFiniteSet(breaks)
          BY <1>2, <5>1, BreaksFinite
        <5> QED  BY <1>4, <5>2
      <4> QED  BY <4>2, <4>3, PpnType
    <3>2. k = page
      BY <1>2, <1>4, <3>1
    <3>3. num_pages * DPP = k * DPP + DPP
      <4>1. num_pages = k + 1
        BY <1>2, <3>2
      <4> QED  BY <1>2, <1>4, <4>1
    <3>4. k * DPP \in Nat
      BY <1>2, <1>4
    <3> QED  BY <1>2, <1>4, <2>2, <3>3, <3>4
  <2> QED  BY <1>2, <2>1, <2>2
<1> USE DEF driver
<1>6. TypeOK'
  <2>1. reads' \in Nat
    BY <1>1 DEF IInv, TypeOK
  <2> QED  BY <1>1, <2>1 DEF IInv, TypeOK, HelperPages
<1>7. Sized' /\ Place' /\ Links' /\ TableIs'
  BY <1>1 DEF IInv, Sized, Place, Links, TableIs, Allocated, PagesNeeded,
              HelperPages, EntryOf, LinkTo
<1>8. Taken'
  BY <1>1, <1>3, <1>4, <1>5 DEF Taken, HelperPages, AtSlot
<1> QED  BY <1>6, <1>7, <1>8 DEF IInv

-----------------------------------------------------------------------------
LEMMA Inductive == IInv /\ [Next]_vars => IInv'
<1> SUFFICES ASSUME IInv, [Next]_vars PROVE IInv'
  OBVIOUS
<1>1. CASE Refuse \/ FillEnds \/ DefineGMR
  BY <1>1, PlainInv
<1>2. CASE AllocateHelper
  BY <1>2, AllocateInv
<1>3. CASE WriteEntry
  BY <1>3, WriteEntryInv
<1>4. CASE WriteEntryAndLink
  BY <1>4, WriteLinkInv
<1>5. CASE WriteLastEntry
  BY <1>5, WriteLastEntryInv
<1>6. CASE DeviceTakesRange
  BY <1>6, TakesRangeInv
<1>7. CASE DeviceFollowsLink
  BY <1>7, FollowsLinkInv
<1>8. CASE DeviceEnds
  BY <1>8, EndsInv
<1>9. CASE UNCHANGED vars
  BY <1>9 DEF vars, driver, device, IInv, TypeOK, Sized, Place, Links, TableIs, Taken,
              Allocated, PagesNeeded, HelperPages, EntryOf, LinkTo
<1> QED
  BY <1>1, <1>2, <1>3, <1>4, <1>5, <1>6, <1>7, <1>8, <1>9 DEF Next

LEMMA InvHolds == Spec => []IInv
BY InitInv, Inductive, PTL DEF Spec

\* createGMR and the device keep their types, so the table has its size whatever is
\* in it.
THEOREM GmrTypes == Spec => []TypeOK
<1>1. IInv => TypeOK
  BY DEF IInv
<1> QED  BY <1>1, InvHolds, PTL

\* createGMR writes inside the helper, the device stays in it, and its limit on
\* entries never stops it before the end of the table.
THEOREM GmrTableWithinLimits == Spec => []TableWithinLimits
<1>1. IInv => TableWithinLimits
  <2> SUFFICES ASSUME IInv PROVE TableWithinLimits
    OBVIOUS
  <2>1. pc = "fill" /\ offset < Len(md) => page \in HelperPages /\ slot < DPP
    <3> SUFFICES ASSUME pc = "fill", offset < Len(md)
                 PROVE  page \in HelperPages /\ slot < DPP
      OBVIOUS
    <3>1. page \in 0..(num_pages - 1) /\ slot \in 0..(DPP - 1) /\ DPP \in Nat \ {0}
      BY Filling
    <3> QED  BY <3>1 DEF HelperPages
  <2>2. pc \in {"device", "done"} => at[1] \in HelperPages /\ at[2] <= DPP
    BY TableAssumption DEF IInv, Taken
  <2>3. pc = "device" => reads < MaxLength
    <3> SUFFICES ASSUME pc = "device" PROVE reads < MaxLength
      OBVIOUS
    <3>1. /\ Len(md) \in Nat /\ num_pages \in Nat \ {0} /\ MaxLength \in Nat
          /\ Len(md) + num_pages <= MaxLength
      BY Reading
    <3>2. PICK k \in 0..(num_pages - 1), s \in 0..DPP, j \in Nat : AtSlot(k, s, j)
      BY Reading
    <3>3. reads = j + k /\ j <= Len(md)
      BY <3>2 DEF AtSlot
    <3> QED  BY <3>1, <3>3
  <2> QED  BY <2>1, <2>2, <2>3 DEF TableWithinLimits
<1> QED  BY <1>1, InvHolds, PTL

\* The region that the device ends up with is the memory, page for page and in order.
THEOREM GmrRegionIsMemory == Spec => []RegionIsMemory
<1>1. IInv => RegionIsMemory
  <2> SUFFICES ASSUME IInv, pc = "done" PROVE region = MemoryPages
    BY DEF RegionIsMemory
  <2>1. md \in Seq(Segment) /\ md # << >>
    BY DEF IInv, TypeOK, Sized, Allocated
  <2>2. region = PagesOfFirst(md, Len(md))
    BY DEF IInv, Taken
  <2>3. MemoryPages = FlattenSeq(PiecesOf(md))
    BY Zenon DEF MemoryPages, PiecesOf
  <2> QED  BY <2>1, <2>2, <2>3, PagesOfNext
<1> QED  BY <1>1, InvHolds, PTL
=============================================================================
