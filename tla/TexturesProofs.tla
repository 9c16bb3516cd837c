--------------------------- MODULE TexturesProofs ---------------------------
(***************************************************************************)
(* Proofs about Textures, for every number of handles, contexts and slots: *)
(* the counts are exact, what is in use is not deleted, and what is not in *)
(* use is deleted by exactly one.                                          *)
(***************************************************************************)
EXTENDS Textures, FiniteSetTheorems, TLAPS

Table == [Handles -> TextureRecord \cup {None}]

(***************************************************************************)
(* The account of a table T: R gives the references to each handle other   *)
(* than links, K those who are about to delete it, and the textures D are  *)
(* to be deleted in the same step.                                         *)
(***************************************************************************)
\* A handle that is free is not used.
DeadInv(T, R, K) ==
  \A h \in Handles : T[h] = None => R[h] = 0 /\ K[h] = {} /\ Links(T, h) = {}

ExactInv(T, R) ==
  \A h \in Live(T) : T[h].count = R[h] + Cardinality(Links(T, h))

\* Who deletes a texture.
OneInv(T, K, D) ==
  \A h \in Live(T) :
    IF h \in D THEN T[h].count = 0 /\ K[h] = {}
    ELSE IF T[h].count = 0 THEN \E k \in Contexts \cup {None} : K[h] = {k}
    ELSE K[h] = {}

\* AGP textures are only linked to.
AgpInv(T, R, K) ==
  \A h \in Live(T) : T[h].type = "AGP" => R[h] = 0 /\ K[h] = {} /\ T[h].agp = None

LinkInv(T) ==
  \A h \in Live(T) : T[h].agp # None => T[T[h].agp].type = "AGP"

Account(T, R, K, D) ==
  /\ DeadInv(T, R, K) /\ ExactInv(T, R) /\ OneInv(T, K, D)
  /\ AgpInv(T, R, K) /\ LinkInv(T)

-----------------------------------------------------------------------------
\* The handles are finitely many, and so are the links to a texture.
LEMMA HandlesFinite ==
  /\ IsFiniteSet(Handles)
  /\ \A T, h : IsFiniteSet(Links(T, h)) /\ Cardinality(Links(T, h)) \in Nat
<1>1. IsFiniteSet(Handles)
  BY FS_Interval, TexturesAssumption DEF Handles
<1>2. ASSUME NEW T, NEW h
      PROVE  IsFiniteSet(Links(T, h)) /\ Cardinality(Links(T, h)) \in Nat
  <2>1. Links(T, h) \in SUBSET Handles
    BY DEF Links, Live
  <2>2. IsFiniteSet(Links(T, h))
    BY <1>1, <2>1, FS_Subset
  <2> QED  BY <2>2, FS_CardinalityType
<1> QED  BY <1>1, <1>2

\* No texture is None.
LEMMA RecordNotNone ==
  /\ None \notin TextureRecord /\ None \notin Handles /\ None \notin Contexts
  /\ \A T \in Table : \A h \in Live(T) : T[h] \in TextureRecord /\ h \in Handles
<1>1. None \notin TextureRecord /\ None \notin Handles /\ None \notin Contexts
  BY TexturesAssumption
<1> QED  BY <1>1 DEF Table, Live

\* The fields of a texture.
LEMMA Fields ==
  ASSUME NEW r \in TextureRecord
  PROVE  /\ r.agp \in Handles \cup {None} /\ r.count \in Int
         /\ r.mem_changed \in BOOLEAN /\ r.stale \in BOOLEAN
         /\ \A n \in Int :
              /\ [r EXCEPT !.count = n] \in TextureRecord
              /\ [r EXCEPT !.count = n].count = n
              /\ [r EXCEPT !.count = n].agp = r.agp
              /\ [r EXCEPT !.count = n].type = r.type
              /\ [r EXCEPT !.count = n].stale = r.stale
  BY DEF TextureRecord, Ids

-----------------------------------------------------------------------------
\* Deleting the textures D leaves an account without a deletion: the AGP textures
\* that lose their last link go, and no other texture comes to a count of 0.
LEMMA Deleted ==
  ASSUME NEW T \in Table, NEW R \in [Handles -> Nat], NEW K,
         NEW D \in SUBSET Live(T), Account(T, R, K, D)
  PROVE  /\ delete_texture(T, D) \in Table
         /\ Account(delete_texture(T, D), R, K, {})
         /\ \A h \in Handles : T[h] = None => delete_texture(T, D)[h] = None
<1> DEFINE off(a)  == {d \in D : T[d].agp = a}
           n(a)    == Cardinality(off(a))
           gone(a) == n(a) > 0 /\ T[a].count = n(a)
           U       == delete_texture(T, D)
<1>1. U = [h \in Handles |-> IF h \in D \/ T[h] = None \/ gone(h) THEN None
                             ELSE [T[h] EXCEPT !.count = @ - n(h)]]
  BY DEF delete_texture
<1>2. ASSUME NEW h \in Handles
      PROVE  /\ n(h) \in Nat /\ Cardinality(Links(T, h)) \in Nat
             /\ n(h) <= Cardinality(Links(T, h))
             /\ n(h) > 0 => \E d \in D : T[d].agp = h
             /\ n(h) = Cardinality(Links(T, h)) => Links(T, h) \subseteq D
             /\ Cardinality(Links(T, h) \ D) = Cardinality(Links(T, h)) - n(h)
  <2>1. off(h) \in SUBSET Links(T, h) /\ off(h) = Links(T, h) \cap D
    BY DEF Links
  <2>2. IsFiniteSet(Links(T, h)) /\ Cardinality(Links(T, h)) \in Nat
    BY HandlesFinite
  <2>3. off(h) # {} => \E d \in D : T[d].agp = h
    OBVIOUS
  <2> HIDE DEF off
  <2>4. IsFiniteSet(off(h)) /\ n(h) <= Cardinality(Links(T, h))
        /\ (Cardinality(Links(T, h)) = n(h) => Links(T, h) = off(h))
    BY <2>1, <2>2, FS_Subset
  <2>5. n(h) \in Nat
    BY <2>4, FS_CardinalityType
  <2>6. n(h) > 0 => off(h) # {}
    BY FS_EmptySet
  <2>7. Cardinality(Links(T, h) \ D)
          = Cardinality(Links(T, h)) - Cardinality(Links(T, h) \cap D)
    BY <2>2, FS_Difference
  <2>8. Cardinality(Links(T, h) \ D) = Cardinality(Links(T, h)) - n(h)
    BY <2>1, <2>7
  <2> QED  BY <2>1, <2>2, <2>3, <2>4, <2>5, <2>6, <2>8
<1> HIDE DEF off, n, U
<1>3. \A h \in Live(T) : T[h] \in TextureRecord /\ h \in Handles /\ T[h] # None
  BY RecordNotNone DEF Live
<1>4. ASSUME NEW h \in Live(T), gone(h)
      PROVE  /\ T[h].agp = None /\ R[h] = 0 /\ K[h] = {} /\ Links(T, h) \subseteq D
  <2>1. h \in Handles
    BY <1>3
  <2>2. PICK d \in D : T[d].agp = h
    BY <1>2, <1>4, <2>1
  <2>3. T[h].type = "AGP"
    BY <2>1, <2>2, RecordNotNone DEF Account, LinkInv
  <2>4. T[h].count = R[h] + Cardinality(Links(T, h)) /\ R[h] \in Nat
    BY <2>1 DEF Account, ExactInv
  <2>5. n(h) \in Nat /\ n(h) <= Cardinality(Links(T, h)) /\ Cardinality(Links(T, h)) \in Nat
    BY <1>2, <2>1
  <2>6. n(h) = Cardinality(Links(T, h))
    BY <1>4, <2>4, <2>5
  <2>7. Links(T, h) \subseteq D
    BY <1>2, <2>1, <2>6
  <2> QED  BY <2>3, <2>7 DEF Account, AgpInv
<1>5. \A h \in Handles : U[h] = IF h \in D \/ T[h] = None \/ gone(h) THEN None
                                ELSE [T[h] EXCEPT !.count = T[h].count - n(h)]
  BY <1>1
<1> HIDE DEF gone
<1>6. ASSUME NEW h \in Live(T)
      PROVE  /\ T[h].count - n(h) \in Int
             /\ [T[h] EXCEPT !.count = T[h].count - n(h)] \in TextureRecord
  <2>1. T[h] \in TextureRecord /\ n(h) \in Nat
    BY <1>2, <1>3
  <2>2. T[h].count - n(h) \in Int
    BY <2>1, Fields
  <2> QED  BY <2>1, <2>2, Fields
<1>7. U \in Table
  <2>1. \A h \in Handles : U[h] \in TextureRecord \cup {None}
    BY <1>5, <1>6 DEF Live
  <2> QED  BY <1>1, <2>1 DEF Table
<1>8. ASSUME NEW h \in Live(U)
      PROVE  /\ h \in Live(T) /\ h \notin D /\ ~gone(h)
             /\ U[h].count = T[h].count - n(h) /\ U[h].agp = T[h].agp
             /\ U[h].type = T[h].type
  <2>1. h \in Live(T) /\ h \notin D /\ ~gone(h)
        /\ U[h] = [T[h] EXCEPT !.count = T[h].count - n(h)]
    BY <1>5 DEF Live
  <2>2. T[h] \in TextureRecord /\ T[h].count - n(h) \in Int
    BY <1>3, <1>6, <2>1
  <2> QED  BY <2>1, <2>2, Fields
<1>9. ASSUME NEW h \in Live(T), h \notin D, ~gone(h)
      PROVE  h \in Live(U)
  <2>1. U[h] \in TextureRecord
    BY <1>3, <1>5, <1>6, <1>9
  <2> QED  BY <1>3, <2>1, RecordNotNone DEF Live
<1>10. ASSUME NEW a \in Handles PROVE Links(U, a) = Links(T, a) \ D
  <2>1. ASSUME NEW d \in Links(T, a), d \notin D PROVE d \in Links(U, a)
    <3>1. d \in Live(T) /\ T[d].agp = a
      BY DEF Links
    <3>2. ~gone(d)
      BY <1>4, <3>1, RecordNotNone
    <3>3. d \in Live(U)
      BY <1>9, <2>1, <3>1, <3>2
    <3> QED  BY <1>8, <3>1, <3>3 DEF Links
  <2>2. ASSUME NEW d \in Links(U, a) PROVE d \in Links(T, a) \ D
    BY <1>8 DEF Links
  <2> QED  BY <2>1, <2>2
<1>11. DeadInv(U, R, K)
  <2> SUFFICES ASSUME NEW h \in Handles, U[h] = None
               PROVE  R[h] = 0 /\ K[h] = {} /\ Links(T, h) \subseteq D
    BY <1>10 DEF DeadInv
  <2>1. CASE T[h] = None
    BY <2>1 DEF Account, DeadInv
  <2>2. CASE T[h] # None /\ h \in D
    <3>1. h \in Live(T) /\ T[h].count = 0 /\ K[h] = {}
      BY <2>2 DEF Live, Account, OneInv
    <3>2. T[h].count = R[h] + Cardinality(Links(T, h)) /\ R[h] \in Nat
      BY <3>1 DEF Account, ExactInv
    <3>3. R[h] = 0 /\ Cardinality(Links(T, h)) = 0
      BY <3>1, <3>2, HandlesFinite
    <3> QED  BY <3>1, <3>3, HandlesFinite, FS_EmptySet
  <2>3. CASE T[h] # None /\ h \notin D
    <3>1. h \in Live(T)
      BY <2>3 DEF Live
    <3>2. gone(h)
      BY <1>9, <2>3, <3>1 DEF Live
    <3> QED  BY <1>4, <3>1, <3>2
  <2> QED  BY <2>1, <2>2, <2>3
<1>12. ExactInv(U, R)
  <2> SUFFICES ASSUME NEW h \in Live(U)
               PROVE  U[h].count = R[h] + Cardinality(Links(U, h))
    BY DEF ExactInv
  <2>1. T[h].count = R[h] + Cardinality(Links(T, h)) /\ h \in Handles
    BY <1>3, <1>8 DEF Account, ExactInv
  <2>2. Cardinality(Links(U, h)) = Cardinality(Links(T, h)) - n(h)
    BY <1>2, <1>10, <2>1
  <2>3. U[h].count = T[h].count - n(h)
    BY <1>8
  <2>4. n(h) \in Nat /\ Cardinality(Links(T, h)) \in Nat /\ R[h] \in Nat
    BY <1>2, <2>1
  <2> QED  BY <2>1, <2>2, <2>3, <2>4
<1>13. OneInv(U, K, {})
  <2> SUFFICES ASSUME NEW h \in Live(U)
               PROVE  IF U[h].count = 0 THEN \E k \in Contexts \cup {None} : K[h] = {k}
                      ELSE K[h] = {}
    BY DEF OneInv
  <2>1. h \in Live(T) /\ h \notin D /\ ~gone(h) /\ h \in Handles
        /\ U[h].count = T[h].count - n(h) /\ n(h) \in Nat
    BY <1>2, <1>3, <1>8
  <2>2. IF T[h].count = 0 THEN \E k \in Contexts \cup {None} : K[h] = {k} ELSE K[h] = {}
    BY <2>1 DEF Account, OneInv
  <2>3. T[h].count = R[h] + Cardinality(Links(T, h)) /\ R[h] \in Nat
    BY <2>1 DEF Account, ExactInv
  <2>4. n(h) <= Cardinality(Links(T, h)) /\ Cardinality(Links(T, h)) \in Nat
    BY <1>2, <2>1
  <2>5. T[h].count = 0 => n(h) = 0
    BY <2>1, <2>3, <2>4
  <2>6. U[h].count = 0 => T[h].count = 0
    <3>1. n(h) > 0 => T[h].count # n(h)
      BY <2>1 DEF gone
    <3> QED  BY <2>1, <2>3, <3>1, HandlesFinite
  <2>7. T[h].count = 0 => U[h].count = 0
    BY <2>1, <2>5
  <2> QED  BY <2>2, <2>6, <2>7
<1>14. AgpInv(U, R, K)
  BY <1>8 DEF AgpInv, Account
<1>15. LinkInv(U)
  <2> SUFFICES ASSUME NEW h \in Live(U), U[h].agp # None
               PROVE  U[U[h].agp].type = "AGP"
    BY DEF LinkInv
  <2>1. h \in Live(T) /\ T[h].agp = U[h].agp /\ T[h].agp \in Handles
        /\ T[T[h].agp].type = "AGP"
    BY <1>3, <1>8, Fields DEF Account, LinkInv
  <2>2. h \in Links(U, T[h].agp)
    BY <2>1 DEF Links
  <2>3. T[h].agp \in Live(U)
    BY <1>10, <1>11, <2>1, <2>2 DEF DeadInv, Live
  <2> QED  BY <1>8, <2>1, <2>3
<1>16. \A h \in Handles : T[h] = None => U[h] = None
  BY <1>5
<1> QED  BY <1>7, <1>11, <1>12, <1>13, <1>14, <1>15, <1>16 DEF Account, U

\* References are counted on or off where there were some; those that come to 0 are
\* in the hands of J or to be deleted.
Recount(T, U, R, S, K, J, D) ==
  /\ T \in Table /\ U \in Table /\ R \in [Handles -> Nat] /\ S \in [Handles -> Nat]
  /\ D \in SUBSET Handles
  /\ \A h \in Handles : U[h] = None <=> T[h] = None
  /\ \A h \in Live(T) : /\ U[h].agp = T[h].agp /\ U[h].type = T[h].type
                        /\ U[h].count = T[h].count + (S[h] - R[h])
  /\ \A h \in Handles :
       \/ S[h] = R[h] /\ J[h] = K[h] /\ h \notin D
       \/ /\ R[h] > 0 \/ K[h] # {}
          /\ IF h \in D THEN U[h].count = 0 /\ J[h] = {}
             ELSE IF U[h].count = 0 THEN \E k \in Contexts \cup {None} : J[h] = {k}
             ELSE J[h] = {}

\* The account stays after such a recount.
LEMMA Recounted ==
  ASSUME NEW T, NEW U, NEW R, NEW S, NEW K, NEW J, NEW D,
         Account(T, R, K, {}), Recount(T, U, R, S, K, J, D)
  PROVE  Account(U, S, J, D) /\ D \subseteq Live(U)
<1> USE DEF Recount
<1>1. Live(U) = Live(T) /\ \A h \in Live(T) : h \in Handles
  BY DEF Live
<1>2. ASSUME NEW h PROVE Links(U, h) = Links(T, h)
  BY <1>1 DEF Links
<1>3. ASSUME NEW h \in Handles, T[h] = None
      PROVE  R[h] = 0 /\ K[h] = {} /\ Links(T, h) = {} /\ S[h] = R[h] /\ J[h] = {}
             /\ h \notin D
  <2>1. R[h] = 0 /\ K[h] = {} /\ Links(T, h) = {}
    BY <1>3 DEF Account, DeadInv
  <2> QED  BY <2>1
<1>4. DeadInv(U, S, J)
  BY <1>2, <1>3 DEF DeadInv
<1>5. ExactInv(U, S)
  <2> SUFFICES ASSUME NEW h \in Live(T)
               PROVE  U[h].count = S[h] + Cardinality(Links(T, h))
    BY <1>1, <1>2 DEF ExactInv
  <2>1. T[h].count = R[h] + Cardinality(Links(T, h)) /\ h \in Handles
    BY <1>1 DEF Account, ExactInv
  <2>2. Cardinality(Links(T, h)) \in Nat /\ S[h] \in Nat /\ R[h] \in Nat
    BY <2>1, HandlesFinite
  <2>3. U[h].count = T[h].count + (S[h] - R[h])
    OBVIOUS
  <2> QED  BY <2>1, <2>2, <2>3
<1>6. OneInv(U, J, D)
  <2> SUFFICES ASSUME NEW h \in Live(T)
               PROVE  IF h \in D THEN U[h].count = 0 /\ J[h] = {}
                      ELSE IF U[h].count = 0 THEN \E k \in Contexts \cup {None} : J[h] = {k}
                      ELSE J[h] = {}
    BY <1>1 DEF OneInv
  <2>1. CASE S[h] = R[h] /\ J[h] = K[h] /\ h \notin D
    <3>1. IF T[h].count = 0 THEN \E k \in Contexts \cup {None} : K[h] = {k} ELSE K[h] = {}
      BY DEF Account, OneInv
    <3>2. U[h].count = T[h].count
      <4>1. T[h].count \in Int /\ S[h] \in Nat /\ S[h] - R[h] = 0
        BY <1>1, <2>1, RecordNotNone, Fields
      <4> QED  BY <4>1
    <3> QED  BY <2>1, <3>1, <3>2
  <2>2. CASE ~(S[h] = R[h] /\ J[h] = K[h] /\ h \notin D)
    BY <1>1, <2>2
  <2> QED  BY <2>1, <2>2
<1>7. AgpInv(U, S, J)
  <2> SUFFICES ASSUME NEW h \in Live(T), T[h].type = "AGP"
               PROVE  S[h] = 0 /\ J[h] = {} /\ T[h].agp = None
    BY <1>1 DEF AgpInv
  <2>1. R[h] = 0 /\ K[h] = {} /\ T[h].agp = None /\ h \in Handles
    BY <1>1 DEF Account, AgpInv
  <2> QED  BY <2>1
<1>8. LinkInv(U)
  <2> SUFFICES ASSUME NEW h \in Live(T), T[h].agp # None
               PROVE  U[T[h].agp].type = "AGP"
    BY <1>1 DEF LinkInv
  <2>1. T[T[h].agp].type = "AGP" /\ T[h].agp \in Handles
    BY RecordNotNone, Fields DEF Account, LinkInv
  <2>2. h \in Links(T, T[h].agp)
    BY DEF Links
  <2>3. T[h].agp \in Live(T)
    BY <1>3, <2>1, <2>2 DEF Live
  <2> QED  BY <2>1, <2>3
<1>9. D \subseteq Live(U)
  BY <1>1, <1>3 DEF Live
<1> QED  BY <1>4, <1>5, <1>6, <1>7, <1>8, <1>9 DEF Account

-----------------------------------------------------------------------------
Put(T, h, r) == [T EXCEPT ![h] = r]

\* A new texture that links to nothing: an AGP texture is nobody's, and is to be
\* deleted unless a link is made; any other is in the hands of the call.
Making(T, R, K, J, D, h, r) ==
  /\ T \in Table /\ R \in [Handles -> Nat] /\ Account(T, R, K, {})
  /\ h \in Handles /\ T[h] = None /\ r \in TextureRecord /\ r.count = 0 /\ r.agp = None
  /\ \A x \in Handles \ {h} : J[x] = K[x]
  /\ \/ r.type = "AGP" /\ D = {h} /\ J[h] = {}
     \/ r.type # "AGP" /\ D = {} /\ J[h] = {None}

\* The account stays when the texture r is put at the free handle h.
LEMMA Created ==
  ASSUME NEW T, NEW R, NEW K, NEW J, NEW D, NEW h, NEW r, Making(T, R, K, J, D, h, r)
  PROVE  /\ Put(T, h, r) \in Table
         /\ Account(Put(T, h, r), R, J, D)
<1> USE DEF Making
<1> DEFINE U == Put(T, h, r)
<1>1. /\ U \in Table /\ U[h] = r /\ \A x \in Handles \ {h} : U[x] = T[x]
  BY DEF Table, Put
<1> HIDE DEF U
<1>2. Live(U) = Live(T) \cup {h} /\ h \notin Live(T) /\ \A x \in Live(T) : x \in Handles
  BY <1>1, RecordNotNone DEF Live
<1>3. ASSUME NEW x \in Handles PROVE Links(U, x) = Links(T, x)
  BY <1>1, <1>2, RecordNotNone DEF Links
<1>4. R[h] = 0 /\ Links(T, h) = {}
  BY DEF Account, DeadInv
<1>5. DeadInv(U, R, J)
  <2> SUFFICES ASSUME NEW x \in Handles, U[x] = None
               PROVE  R[x] = 0 /\ J[x] = {} /\ Links(T, x) = {}
    BY <1>3 DEF DeadInv
  <2>1. x # h
    BY <1>1, RecordNotNone
  <2> QED  BY <1>1, <2>1 DEF Account, DeadInv
<1>6. ExactInv(U, R)
  <2>1. U[h].count = R[h] + Cardinality(Links(U, h))
    <3>1. Links(U, h) = {} /\ U[h].count = 0
      BY <1>1, <1>3, <1>4
    <3>2. Cardinality(Links(U, h)) = 0
      BY <3>1, FS_EmptySet
    <3> QED  BY <1>4, <3>1, <3>2
  <2>2. ASSUME NEW x \in Live(T) PROVE U[x].count = R[x] + Cardinality(Links(U, x))
    BY <1>1, <1>2, <1>3 DEF Account, ExactInv
  <2> QED  BY <1>2, <2>1, <2>2 DEF ExactInv
<1>7. OneInv(U, J, D)
  BY <1>1, <1>2 DEF Account, OneInv
<1>8. AgpInv(U, R, J)
  BY <1>1, <1>2, <1>4 DEF Account, AgpInv
<1>9. LinkInv(U)
  <2> SUFFICES ASSUME NEW x \in Live(U), U[x].agp # None
               PROVE  U[U[x].agp].type = "AGP"
    BY DEF LinkInv
  <2>1. x \in Live(T) /\ U[x] = T[x] /\ T[x] \in TextureRecord
    BY <1>1, <1>2, RecordNotNone
  <2>2. T[x].agp \in Handles /\ T[T[x].agp].type = "AGP"
    BY <2>1, Fields DEF Account, LinkInv
  <2>3. x \in Links(T, T[x].agp)
    BY <2>1 DEF Links
  <2>4. T[x].agp # h
    BY <1>4, <2>3
  <2> QED  BY <1>1, <2>1, <2>2, <2>4
<1> QED  BY <1>1, <1>5, <1>6, <1>7, <1>8, <1>9 DEF Account, U

\* A new texture with a link to an AGP texture, which may just have been made.
Linking(T, R, K, J, D, a, h, r) ==
  /\ T \in Table /\ R \in [Handles -> Nat] /\ Account(T, R, K, D) /\ D \subseteq {a}
  /\ a \in Live(T) /\ T[a].type = "AGP" /\ h \in Handles /\ T[h] = None
  /\ r \in TextureRecord /\ r.count = 0 /\ r.agp = a /\ r.type # "AGP"
  /\ J[h] = {None} /\ \A x \in Handles \ {h} : J[x] = K[x]

\* The account stays when r is put at h and counted at the AGP texture a.
LEMMA CreatedLinked ==
  ASSUME NEW T, NEW R, NEW K, NEW J, NEW D, NEW a, NEW h, NEW r,
         Linking(T, R, K, J, D, a, h, r)
  PROVE  /\ Add(Put(T, h, r), a, 1) \in Table
         /\ Account(Add(Put(T, h, r), a, 1), R, J, {})
         /\ \A x \in Handles : T[x] = None /\ x # h => Add(Put(T, h, r), a, 1)[x] = None
         /\ Add(Put(T, h, r), a, 1)[a].stale = T[a].stale
         /\ Add(Put(T, h, r), a, 1)[a].type = "AGP"
         /\ Add(Put(T, h, r), a, 1)[a] \in TextureRecord
         /\ Add(Put(T, h, r), a, 1)[h].agp = a
<1> USE DEF Linking
<1> DEFINE U == Add(Put(T, h, r), a, 1)
<1>1. T[a] \in TextureRecord /\ a \in Handles /\ T[a] # None /\ a # h
  BY RecordNotNone DEF Live
<1>2. T[a].count \in Int /\ T[a].count + 1 \in Int
  BY <1>1, Fields
<1>3. /\ U[h] = r /\ U[a] = [T[a] EXCEPT !.count = T[a].count + 1]
      /\ \A x \in Handles \ {h, a} : U[x] = T[x]
      /\ U = [x \in Handles |-> U[x]]
  BY <1>1 DEF Add, Table, Put
<1> HIDE DEF U
<1>4. /\ U[a] \in TextureRecord /\ U[a].count = T[a].count + 1 /\ U[a].agp = T[a].agp
      /\ U[a].type = "AGP" /\ U[a].stale = T[a].stale
  BY <1>1, <1>2, <1>3, Fields
<1>5. U \in Table
  <2>1. \A x \in Handles : U[x] \in TextureRecord \cup {None}
    BY <1>3, <1>4 DEF Table
  <2> QED  BY <1>3, <2>1 DEF Table
<1>6. Live(U) = Live(T) \cup {h} /\ h \notin Live(T) /\ \A x \in Live(T) : x \in Handles
  BY <1>1, <1>3, <1>4, RecordNotNone DEF Live
<1>7. R[h] = 0 /\ Links(T, h) = {} /\ R[a] = 0 /\ K[a] = {}
  BY <1>1 DEF Account, DeadInv, AgpInv
<1>8. U[h].agp = a /\ \A x \in Live(T) : U[x].agp = T[x].agp
  <2>1. ASSUME NEW x \in Live(T) PROVE U[x].agp = T[x].agp
    <3>1. x \in Handles /\ x # h
      BY <1>6
    <3>2. CASE x = a
      BY <1>4, <3>2
    <3>3. CASE x # a
      BY <1>3, <3>1, <3>3
    <3> QED  BY <3>2, <3>3
  <2> QED  BY <1>3, <2>1
<1>9. ASSUME NEW x \in Handles \ {a} PROVE Links(U, x) = Links(T, x)
  BY <1>6, <1>8 DEF Links
<1>10. Links(U, a) = Links(T, a) \cup {h}
  BY <1>6, <1>8 DEF Links
<1>11. Cardinality(Links(U, a)) = Cardinality(Links(T, a)) + 1
  <2>1. h \notin Links(T, a)
    BY <1>6 DEF Links
  <2>2. IsFiniteSet(Links(T, a))
    BY HandlesFinite
  <2>3. Cardinality(Links(T, a) \cup {h})
          = IF h \in Links(T, a) THEN Cardinality(Links(T, a))
            ELSE Cardinality(Links(T, a)) + 1
    BY <2>2, FS_AddElement
  <2> QED  BY <1>10, <2>1, <2>3
<1>12. DeadInv(U, R, J)
  <2> SUFFICES ASSUME NEW x \in Handles, U[x] = None
               PROVE  R[x] = 0 /\ J[x] = {} /\ Links(U, x) = {}
    BY DEF DeadInv
  <2>1. x # h /\ x # a
    BY <1>3, <1>4, RecordNotNone
  <2> QED  BY <1>3, <1>9, <2>1 DEF Account, DeadInv
<1>13. ASSUME NEW x \in Live(T) PROVE T[x].count = R[x] + Cardinality(Links(T, x))
  BY DEF Account, ExactInv
<1>14. ExactInv(U, R)
  <2>1. U[h].count = R[h] + Cardinality(Links(U, h))
    <3>1. Links(U, h) = {} /\ U[h].count = 0
      BY <1>1, <1>3, <1>7, <1>9
    <3>2. Cardinality(Links(U, h)) = 0
      BY <3>1, FS_EmptySet
    <3> QED  BY <1>7, <3>1, <3>2
  <2>2. U[a].count = R[a] + Cardinality(Links(U, a))
    BY <1>4, <1>7, <1>11, <1>13, HandlesFinite
  <2>3. ASSUME NEW x \in Live(T), x # a PROVE U[x].count = R[x] + Cardinality(Links(U, x))
    BY <1>3, <1>6, <1>9, <1>13, <2>3
  <2> QED  BY <1>6, <2>1, <2>2, <2>3 DEF ExactInv
<1>15. OneInv(U, J, {})
  <2>1. U[a].count # 0
    <3>1. T[a].count = Cardinality(Links(T, a)) /\ Cardinality(Links(T, a)) \in Nat
      BY <1>7, <1>13, HandlesFinite
    <3> QED  BY <1>4, <3>1
  <2>2. ASSUME NEW x \in Live(T), x # a
        PROVE  IF U[x].count = 0 THEN \E k \in Contexts \cup {None} : J[x] = {k}
               ELSE J[x] = {}
    <3>1. x \in Handles /\ x \notin D /\ x # h /\ U[x] = T[x] /\ J[x] = K[x]
      BY <1>3, <1>6, <2>2
    <3> QED  BY <3>1 DEF Account, OneInv
  <2>3. J[a] = {} /\ J[h] = {None}
    BY <1>1, <1>7
  <2>4. U[h].count = 0
    BY <1>3
  <2>5. ASSUME NEW x \in Live(U)
        PROVE  IF U[x].count = 0 THEN \E k \in Contexts \cup {None} : J[x] = {k}
               ELSE J[x] = {}
    <3>1. CASE x = h
      BY <2>3, <2>4, <3>1
    <3>2. CASE x = a
      BY <2>1, <2>3, <3>2
    <3>3. CASE x # h /\ x # a
      BY <1>6, <2>2, <3>3
    <3> QED  BY <3>1, <3>2, <3>3
  <2> QED  BY <2>5 DEF OneInv
<1>16. AgpInv(U, R, J)
  <2> SUFFICES ASSUME NEW x \in Live(U), U[x].type = "AGP"
               PROVE  R[x] = 0 /\ J[x] = {} /\ U[x].agp = None
    BY DEF AgpInv
  <2>1. x \in Live(T) /\ x # h /\ x \in Handles
    BY <1>3, <1>6
  <2>2. U[x].agp = T[x].agp /\ T[x].type = "AGP"
    BY <1>3, <1>4, <2>1
  <2> QED  BY <2>1, <2>2 DEF Account, AgpInv
<1>17. LinkInv(U)
  <2> SUFFICES ASSUME NEW x \in Live(U), U[x].agp # None
               PROVE  U[U[x].agp].type = "AGP"
    BY DEF LinkInv
  <2>1. CASE x = h
    BY <1>3, <1>4, <2>1
  <2>2. CASE x # h
    <3>1. x \in Live(T) /\ U[x].agp = T[x].agp /\ T[x] \in TextureRecord
      BY <1>3, <1>4, <1>6, <2>2, RecordNotNone
    <3>2. T[x].agp \in Handles /\ T[T[x].agp].type = "AGP"
      BY <3>1, Fields DEF Account, LinkInv
    <3>3. x \in Links(T, T[x].agp)
      BY <3>1 DEF Links
    <3>4. T[x].agp # h
      BY <1>7, <3>3
    <3>5. CASE T[x].agp = a
      BY <1>4, <3>1, <3>5
    <3>6. CASE T[x].agp # a
      BY <1>3, <3>1, <3>2, <3>4, <3>6
    <3> QED  BY <3>5, <3>6
  <2> QED  BY <2>1, <2>2
<1>18. \A x \in Handles : T[x] = None /\ x # h => U[x] = None
  BY <1>1, <1>3
<1> QED  BY <1>3, <1>4, <1>5, <1>12, <1>14, <1>15, <1>16, <1>17, <1>18 DEF Account, U

-----------------------------------------------------------------------------
(***************************************************************************)
(* Tokens that wait and slots that are bound.                              *)
(***************************************************************************)
LEMMA PlacesFinite ==
  ASSUME NEW t \in Tokens, NEW h
  PROVE  IsFiniteSet(Places(t, h)) /\ Uses(t, h) \in Nat
<1>1. Places(t, h) \subseteq Units \/ Places(t, h) \subseteq {h}
  BY DEF Places, Tokens
<1>2. IsFiniteSet(Units) /\ IsFiniteSet({h})
  BY TexturesAssumption, FS_Singleton
<1>3. IsFiniteSet(Places(t, h))
  BY <1>1, <1>2, FS_Subset
<1> QED  BY <1>3, FS_CardinalityType DEF Uses

\* What a member of InBuffers is.
LEMMA BufferMember ==
  ASSUME NEW B, NEW h, NEW z
  PROVE  z \in InBuffers(B, h) <=>
           \E c \in Contexts : \E i \in DOMAIN B[c] :
             \E p \in Places(B[c][i], h) : z = << << c, i >>, p >>
<1>1. z \in InBuffers(B, h) <=>
        \E c \in Contexts : \E i \in DOMAIN B[c] : z \in {<< c, i >>} \X Places(B[c][i], h)
  BY DEF InBuffers
<1>2. \A x, P : z \in {x} \X P <=> \E p \in P : z = << x, p >>
  OBVIOUS
<1> QED  BY <1>1, <1>2

\* A set of pairs with one first component has the size of the second ones.
LEMMA PairWith ==
  ASSUME NEW x, NEW P, IsFiniteSet(P)
  PROVE  IsFiniteSet({x} \X P) /\ Cardinality({x} \X P) = Cardinality(P)
<1>1. IsFiniteSet({x}) /\ Cardinality({x}) = 1
  BY FS_Singleton
<1>2. IsFiniteSet({x} \X P) /\ Cardinality({x} \X P) = Cardinality({x}) * Cardinality(P)
  BY <1>1, FS_Product
<1>3. Cardinality(P) \in Nat
  BY FS_CardinalityType
<1> QED  BY <1>1, <1>2, <1>3

\* Cardinalities of disjoint sets add up.
LEMMA DisjointUnion ==
  ASSUME NEW A, NEW P, IsFiniteSet(A), IsFiniteSet(P), A \cap P = {}
  PROVE  /\ IsFiniteSet(A \cup P)
         /\ Cardinality(A \cup P) = Cardinality(A) + Cardinality(P)
<1>1. IsFiniteSet(A \cup P)
      /\ Cardinality(A \cup P) = Cardinality(A) + Cardinality(P) - Cardinality(A \cap P)
  BY FS_Union
<1>2. Cardinality(A \cap P) = 0 /\ Cardinality(A) \in Nat /\ Cardinality(P) \in Nat
  BY FS_EmptySet, FS_CardinalityType
<1> QED  BY <1>1, <1>2

\* A token that is added counts for the textures it names.
LEMMA TokenAdded ==
  ASSUME NEW B \in [Contexts -> Seq(Tokens)], NEW c \in Contexts, NEW t \in Tokens, NEW h,
         IsFiniteSet(InBuffers(B, h))
  PROVE  LET C == [B EXCEPT ![c] = Append(@, t)]
         IN  /\ IsFiniteSet(InBuffers(C, h))
             /\ Cardinality(InBuffers(C, h)) = Cardinality(InBuffers(B, h)) + Uses(t, h)
<1> DEFINE C == [B EXCEPT ![c] = Append(@, t)]
           n == Len(B[c]) + 1
           N == {<< c, n >>} \X Places(t, h)
<1>1. B[c] \in Seq(Tokens) /\ n \in Nat
  OBVIOUS
<1>2. /\ C[c] = Append(B[c], t) /\ DOMAIN C[c] = 1..n /\ DOMAIN B[c] = 1..(n - 1)
      /\ C[c][n] = t /\ \A i \in 1..(n - 1) : C[c][i] = B[c][i]
      /\ \A d \in Contexts \ {c} : C[d] = B[d]
  BY <1>1
<1>3. 1..n = 1..(n - 1) \cup {n} /\ n \notin 1..(n - 1)
  BY <1>1
<1> HIDE DEF C, n
<1>4. InBuffers(C, h) = InBuffers(B, h) \cup N
  <2>1. ASSUME NEW z \in InBuffers(C, h) PROVE z \in InBuffers(B, h) \cup N
    <3>1. PICK d, i, p :
            /\ d \in Contexts /\ i \in DOMAIN C[d] /\ p \in Places(C[d][i], h)
            /\ z = << << d, i >>, p >>
      BY BufferMember
    <3>2. CASE d = c /\ i = n
      BY <1>2, <3>1, <3>2
    <3>3. CASE ~(d = c /\ i = n)
      <4>1. i \in DOMAIN B[d] /\ C[d][i] = B[d][i]
        BY <1>2, <3>1, <1>3, <3>3
      <4> QED  BY <3>1, <4>1, BufferMember
    <3> QED  BY <3>2, <3>3
  <2>2. ASSUME NEW z \in InBuffers(B, h) PROVE z \in InBuffers(C, h)
    <3>1. PICK d, i, p :
            /\ d \in Contexts /\ i \in DOMAIN B[d] /\ p \in Places(B[d][i], h)
            /\ z = << << d, i >>, p >>
      BY BufferMember
    <3>2. i \in DOMAIN C[d] /\ C[d][i] = B[d][i]
      BY <1>2, <3>1, <1>3
    <3> QED  BY <3>1, <3>2, BufferMember
  <2>3. ASSUME NEW z \in N PROVE z \in InBuffers(C, h)
    <3>1. PICK p \in Places(t, h) : z = << << c, n >>, p >>
      OBVIOUS
    <3>2. n \in DOMAIN C[c] /\ C[c][n] = t
      BY <1>2, <1>3
    <3> QED  BY <3>1, <3>2, BufferMember
  <2> QED  BY <2>1, <2>2, <2>3
<1>5. InBuffers(B, h) \cap N = {}
  <2> SUFFICES ASSUME NEW z \in InBuffers(B, h), z \in N PROVE FALSE
    OBVIOUS
  <2>1. PICK d, i, p :
          /\ d \in Contexts /\ i \in DOMAIN B[d] /\ p \in Places(B[d][i], h)
          /\ z = << << d, i >>, p >>
    BY BufferMember
  <2>2. PICK q \in Places(t, h) : z = << << c, n >>, q >>
    OBVIOUS
  <2>3. d = c /\ i = n
    BY <2>1, <2>2
  <2> QED  BY <1>2, <2>1, <1>3, <2>3
<1>6. IsFiniteSet(N) /\ Cardinality(N) = Uses(t, h)
  BY PlacesFinite, PairWith DEF Uses
<1> HIDE DEF N
<1>7. IsFiniteSet(InBuffers(B, h) \cup N)
      /\ Cardinality(InBuffers(B, h) \cup N) = Cardinality(InBuffers(B, h)) + Cardinality(N)
  BY <1>5, <1>6, DisjointUnion
<1>8. IsFiniteSet(InBuffers(C, h))
      /\ Cardinality(InBuffers(C, h)) = Cardinality(InBuffers(B, h)) + Uses(t, h)
  BY <1>4, <1>6, <1>7
<1> QED  BY <1>8 DEF C

\* A token that is taken no longer does.
LEMMA TokenTaken ==
  ASSUME NEW B \in [Contexts -> Seq(Tokens)], NEW c \in Contexts, B[c] # << >>, NEW h,
         IsFiniteSet(InBuffers(B, h))
  PROVE  LET C == [B EXCEPT ![c] = Tail(@)]
         IN  /\ IsFiniteSet(InBuffers(C, h))
             /\ Cardinality(InBuffers(B, h))
                  = Cardinality(InBuffers(C, h)) + Uses(Head(B[c]), h)
<1> DEFINE C == [B EXCEPT ![c] = Tail(@)]
           t == Head(B[c])
           N == {<< c, 1 >>} \X Places(t, h)
           n == Len(B[c])
           A == InBuffers(B, h) \ N
<1>1. B[c] \in Seq(Tokens) /\ n \in Nat /\ n >= 1 /\ t \in Tokens
  OBVIOUS
<1>2. /\ DOMAIN B[c] = 1..n /\ DOMAIN C[c] = 1..(n - 1) /\ B[c][1] = t
      /\ \A i \in 1..(n - 1) : C[c][i] = B[c][i + 1]
      /\ \A d \in Contexts \ {c} : C[d] = B[d]
      /\ \A d \in Contexts : DOMAIN C[d] \subseteq Nat /\ DOMAIN B[d] \subseteq Nat
  <2>1. C[c] = Tail(B[c]) /\ \A d \in Contexts \ {c} : C[d] = B[d]
    OBVIOUS
  <2>2. \A d \in Contexts : C[d] \in Seq(Tokens)
    BY <1>1
  <2>3. Len(C[c]) = n - 1 /\ \A i \in 1..(n - 1) : C[c][i] = B[c][i + 1]
    BY <1>1, <2>1
  <2>4. DOMAIN C[c] = 1..(n - 1)
    BY <2>2, <2>3
  <2> QED  BY <1>1, <2>1, <2>2, <2>3, <2>4
<1> HIDE DEF C, t, n
<1>3. N \subseteq InBuffers(B, h)
  <2> SUFFICES ASSUME NEW z \in N PROVE z \in InBuffers(B, h)
    OBVIOUS
  <2>1. PICK p \in Places(t, h) : z = << << c, 1 >>, p >>
    OBVIOUS
  <2>2. 1 \in DOMAIN B[c] /\ B[c][1] = t
    BY <1>1, <1>2
  <2> QED  BY <2>1, <2>2, BufferMember
<1> DEFINE F == [z \in InBuffers(C, h) |->
                   IF z[1][1] = c THEN << << c, z[1][2] + 1 >>, z[2] >> ELSE z]
<1>4. ASSUME NEW d \in Contexts, NEW i \in DOMAIN C[d], NEW p \in Places(C[d][i], h)
      PROVE  /\ << << d, i >>, p >> \in InBuffers(C, h)
             /\ F[<< << d, i >>, p >>] = << << d, IF d = c THEN i + 1 ELSE i >>, p >>
  <2>1. << << d, i >>, p >> \in InBuffers(C, h)
    BY BufferMember
  <2> QED  BY <2>1
<1>5. ASSUME NEW z \in InBuffers(C, h)
      PROVE  \E d \in Contexts : \E i \in DOMAIN C[d] : \E p \in Places(C[d][i], h) :
               z = << << d, i >>, p >>
                 /\ F[z] = << << d, IF d = c THEN i + 1 ELSE i >>, p >>
  <2>1. PICK d, i, p :
          /\ d \in Contexts /\ i \in DOMAIN C[d] /\ p \in Places(C[d][i], h)
          /\ z = << << d, i >>, p >>
    BY BufferMember
  <2>2. F[z] = << << d, IF d = c THEN i + 1 ELSE i >>, p >>
    BY <1>4, <2>1
  <2> QED  BY <2>1, <2>2
<1>6. F \in [InBuffers(C, h) -> A]
  <2> SUFFICES ASSUME NEW z \in InBuffers(C, h) PROVE F[z] \in A
    OBVIOUS
  <2> HIDE DEF F
  <2>1. PICK d, i, p :
          /\ d \in Contexts /\ i \in DOMAIN C[d] /\ p \in Places(C[d][i], h)
          /\ z = << << d, i >>, p >>
            /\ F[z] = << << d, IF d = c THEN i + 1 ELSE i >>, p >>
    BY <1>5
  <2>2. CASE d = c
    <3>1. i \in 1..(n - 1) /\ i + 1 \in 1..n /\ C[c][i] = B[c][i + 1] /\ i + 1 # 1
      BY <1>1, <1>2, <2>1, <2>2
    <3>2. F[z] = << << c, i + 1 >>, p >> /\ i + 1 \in DOMAIN B[c] /\ p \in Places(B[c][i + 1], h)
      BY <1>2, <2>1, <2>2, <3>1
    <3>3. F[z] \in InBuffers(B, h)
      BY <3>2, BufferMember
    <3>4. F[z] \notin N
      BY <3>1, <3>2
    <3> QED  BY <3>3, <3>4
  <2>3. CASE d # c
    <3>1. F[z] = << << d, i >>, p >> /\ i \in DOMAIN B[d] /\ p \in Places(B[d][i], h)
      BY <1>2, <2>1, <2>3
    <3>2. F[z] \in InBuffers(B, h)
      BY <2>1, <3>1, BufferMember
    <3>3. F[z] \notin N
      BY <2>3, <3>1
    <3> QED  BY <3>2, <3>3
  <2> QED  BY <2>2, <2>3
<1> HIDE DEF F
<1>7. ASSUME NEW y \in InBuffers(C, h), NEW z \in InBuffers(C, h), F[y] = F[z]
      PROVE  y = z
  <2>1. PICK d, i, p :
          /\ d \in Contexts /\ i \in DOMAIN C[d] /\ p \in Places(C[d][i], h)
          /\ y = << << d, i >>, p >>
            /\ F[y] = << << d, IF d = c THEN i + 1 ELSE i >>, p >>
    BY <1>5
  <2>2. PICK e, j, q :
          /\ e \in Contexts /\ j \in DOMAIN C[e] /\ q \in Places(C[e][j], h)
          /\ z = << << e, j >>, q >>
            /\ F[z] = << << e, IF e = c THEN j + 1 ELSE j >>, q >>
    BY <1>5
  <2>3. d = e /\ p = q /\ (IF d = c THEN i + 1 ELSE i) = (IF e = c THEN j + 1 ELSE j)
    BY <1>7, <2>1, <2>2
  <2>4. i \in Nat /\ j \in Nat
    BY <1>2, <2>1, <2>2
  <2>5. i = j
    BY <2>3, <2>4
  <2> QED  BY <2>1, <2>2, <2>3, <2>5
<1>8. ASSUME NEW y \in A PROVE \E z \in InBuffers(C, h) : F[z] = y
  <2>1. PICK d, i, p :
          /\ d \in Contexts /\ i \in DOMAIN B[d] /\ p \in Places(B[d][i], h)
          /\ y = << << d, i >>, p >>
    BY BufferMember
  <2>2. CASE d = c
    <3>1. i # 1
      <4>1. i = 1 => y \in N
        BY <1>2, <2>1, <2>2
      <4> QED  BY <4>1
    <3>2. PICK j \in 1..(n - 1) : i = j + 1
      <4>1. i \in 1..n /\ i - 1 \in 1..(n - 1) /\ i = (i - 1) + 1
        BY <1>1, <1>2, <2>1, <2>2, <3>1
      <4> QED  BY <4>1
    <3>3. j \in DOMAIN C[c] /\ p \in Places(C[c][j], h)
      BY <1>2, <2>1, <2>2, <3>2
    <3>4. /\ << << c, j >>, p >> \in InBuffers(C, h)
          /\ F[<< << c, j >>, p >>] = << << c, j + 1 >>, p >>
      BY <1>4, <3>3
    <3> QED  BY <2>1, <2>2, <3>2, <3>4
  <2>3. CASE d # c
    <3>1. i \in DOMAIN C[d] /\ p \in Places(C[d][i], h)
      BY <1>2, <2>1, <2>3
    <3>2. y \in InBuffers(C, h) /\ F[y] = y
      BY <1>4, <2>1, <2>3, <3>1
    <3> QED  BY <3>2
  <2> QED  BY <2>2, <2>3
<1>9. F \in Bijection(InBuffers(C, h), A)
  BY <1>6, <1>7, <1>8 DEF Bijection, Injection, Surjection, IsInjective
<1>10. IsFiniteSet(N) /\ Cardinality(N) = Uses(t, h)
  BY <1>1, PlacesFinite, PairWith DEF Uses
<1> HIDE DEF N, A
<1>11. IsFiniteSet(A)
  BY FS_Difference DEF A
<1>12. IsFiniteSet(InBuffers(C, h)) /\ Cardinality(InBuffers(C, h)) = Cardinality(A)
  <2>1. F \in Injection(InBuffers(C, h), A) /\ F \in Surjection(InBuffers(C, h), A)
    BY <1>9 DEF Bijection
  <2> QED  BY <1>11, <2>1, FS_Injection
<1>13. A \cap N = {} /\ A \cup N = InBuffers(B, h)
  BY <1>3 DEF A
<1>14. Cardinality(InBuffers(B, h)) = Cardinality(A) + Cardinality(N)
  BY <1>10, <1>11, <1>13, DisjointUnion
<1> QED  BY <1>10, <1>12, <1>14 DEF C, t

\* The slots are finitely many.
LEMMA SlotsFinite ==
  /\ IsFiniteSet(Slots) /\ IsFiniteSet(Contexts \X Slots)
  /\ \A X, h : IsFiniteSet(InSlots(X, h)) /\ Cardinality(InSlots(X, h)) \in Nat
  /\ \A S \in SUBSET Slots : IsFiniteSet(S) /\ Cardinality(S) \in Nat
<1>1. IsFiniteSet({"tex"}) /\ IsFiniteSet(Fbos) /\ IsFiniteSet(Units) /\ IsFiniteSet(Contexts)
  BY TexturesAssumption, FS_Singleton
<1>2. IsFiniteSet(Groups)
  BY <1>1, FS_Union DEF Groups
<1>3. IsFiniteSet(Slots)
  BY <1>1, <1>2, FS_Product DEF Slots
<1>4. IsFiniteSet(Contexts \X Slots)
  BY <1>1, <1>3, FS_Product
<1>5. ASSUME NEW X, NEW h
      PROVE  IsFiniteSet(InSlots(X, h)) /\ Cardinality(InSlots(X, h)) \in Nat
  <2>1. InSlots(X, h) \in SUBSET (Contexts \X Slots)
    BY DEF InSlots
  <2>2. IsFiniteSet(InSlots(X, h))
    BY <1>4, <2>1, FS_Subset
  <2> QED  BY <2>2, FS_CardinalityType
<1>6. ASSUME NEW S \in SUBSET Slots
      PROVE  IsFiniteSet(S) /\ Cardinality(S) \in Nat
  <2>1. IsFiniteSet(S)
    BY <1>3, FS_Subset
  <2> QED  BY <2>1, FS_CardinalityType
<1> QED  BY <1>3, <1>4, <1>5, <1>6

\* The slots of S that hold a texture.
Held(X, c, S, h) == {s \in S : X[c][s] = h}

\* What changes when the slots S of a context do.
ChangedIn(X, Y, c, S) ==
  /\ c \in Contexts /\ S \in SUBSET Slots
  /\ \A d \in Contexts \ {c} : Y[d] = X[d]
  /\ \A s \in Slots \ S : Y[c][s] = X[c][s]

\* Only what the changed slots hold makes a difference.
LEMMA SlotsChanged ==
  ASSUME NEW X, NEW Y, NEW c, NEW S, NEW h, ChangedIn(X, Y, c, S)
  PROVE  Cardinality(InSlots(Y, h)) = Cardinality(InSlots(X, h))
           - Cardinality(Held(X, c, S, h)) + Cardinality(Held(Y, c, S, h))
<1> USE DEF ChangedIn
<1> DEFINE Rest == {x \in Contexts \X Slots : X[x[1]][x[2]] = h /\ ~(x[1] = c /\ x[2] \in S)}
           P == {s \in S : X[c][s] = h}
           Q == {s \in S : Y[c][s] = h}
<1>1. InSlots(X, h) = Rest \cup ({c} \X P) /\ Rest \cap ({c} \X P) = {}
  BY DEF InSlots
<1>2. InSlots(Y, h) = Rest \cup ({c} \X Q) /\ Rest \cap ({c} \X Q) = {}
  <2>1. ASSUME NEW x \in Contexts \X Slots
        PROVE  x \in InSlots(Y, h) <=> x \in Rest \cup ({c} \X Q)
    <3>1. CASE x[1] = c /\ x[2] \in S
      BY <3>1 DEF InSlots
    <3>2. CASE ~(x[1] = c /\ x[2] \in S)
      <4>1. Y[x[1]][x[2]] = X[x[1]][x[2]]
        BY <3>2
      <4>2. x \notin {c} \X Q
        BY <3>2
      <4> QED  BY <3>2, <4>1, <4>2 DEF InSlots
    <3> QED  BY <3>1, <3>2
  <2>2. /\ InSlots(Y, h) \subseteq Contexts \X Slots
        /\ Rest \cup ({c} \X Q) \subseteq Contexts \X Slots
    BY DEF InSlots
  <2>3. Rest \cap ({c} \X Q) = {}
    OBVIOUS
  <2> QED  BY <2>1, <2>2, <2>3
<1>3. IsFiniteSet(P) /\ IsFiniteSet(Q) /\ Cardinality(P) \in Nat /\ Cardinality(Q) \in Nat
  <2>1. P \in SUBSET Slots /\ Q \in SUBSET Slots
    OBVIOUS
  <2> HIDE DEF P, Q
  <2> QED  BY <2>1, SlotsFinite
<1>4. IsFiniteSet(Rest)
  <2>1. Rest \in SUBSET (Contexts \X Slots)
    OBVIOUS
  <2> QED  BY <2>1, SlotsFinite, FS_Subset
<1> HIDE DEF Rest, P, Q
<1>5. /\ IsFiniteSet({c} \X P) /\ Cardinality({c} \X P) = Cardinality(P)
      /\ IsFiniteSet({c} \X Q) /\ Cardinality({c} \X Q) = Cardinality(Q)
  BY <1>3, PairWith
<1>6. Cardinality(InSlots(X, h)) = Cardinality(Rest) + Cardinality(P)
  BY <1>1, <1>4, <1>5, DisjointUnion
<1>7. Cardinality(InSlots(Y, h)) = Cardinality(Rest) + Cardinality(Q)
  <2>1. Cardinality(Rest \cup ({c} \X Q)) = Cardinality(Rest) + Cardinality({c} \X Q)
    BY <1>2, <1>4, <1>5, DisjointUnion
  <2> QED  BY <1>2, <1>5, <2>1
<1>8. Cardinality(Rest) \in Nat
  BY <1>4, FS_CardinalityType
<1>9. Cardinality(InSlots(Y, h))
        = Cardinality(InSlots(X, h)) - Cardinality(P) + Cardinality(Q)
  BY <1>3, <1>6, <1>7, <1>8
<1> QED  BY <1>9 DEF P, Q, Held

-----------------------------------------------------------------------------
(***************************************************************************)
(* The invariant.                                                          *)
(***************************************************************************)
Outside(C, B, X) ==
  [h \in Handles |-> UNIT * ((IF C[h] = "owned" THEN 1 ELSE 0) + Cardinality(InBuffers(B, h)))
                       + Cardinality(InSlots(X, h))]
Keeping == [h \in Handles |-> Keepers(h)]

BuffersFinite(B) == \A h \in Handles : IsFiniteSet(InBuffers(B, h))

IInv ==
  /\ TypeOK /\ BuffersFinite(buffer)
  /\ SharedAlive => Account(tex, Outside(client, buffer, txs), Keeping, {})
  /\ ~SharedAlive => Live(tex) = {}

\* What LinkCurrent says of a step.
LinkStep ==
  \A h \in Live(tex') : (tex[h] = None /\ tex'[h].agp # None) => ~tex'[tex'[h].agp].stale

\* The unit of a reference is a positive number.
LEMMA UnitNat == UNIT \in Nat /\ UNIT >= 1
<1>1. IsFiniteSet(Contexts) /\ IsFiniteSet(Slots)
  BY TexturesAssumption, SlotsFinite
<1>2. UNIT \in Nat /\ NumHandles \in Nat /\ NumHandles >= 1
  BY TexturesAssumption
<1>3. Cardinality(Contexts) \in Nat /\ Cardinality(Slots) \in Nat
  BY <1>1, FS_CardinalityType
<1>4. Cardinality(Contexts) * Cardinality(Slots) \in Nat
  BY <1>3
<1>5. UNIT > NumHandles + Cardinality(Contexts) * Cardinality(Slots)
  BY TexturesAssumption
<1> QED  BY <1>2, <1>4, <1>5

\* The references to a handle that are not links, as a number.
LEMMA OutsideNat ==
  ASSUME NEW C, NEW B, NEW X, BuffersFinite(B)
  PROVE  /\ Outside(C, B, X) \in [Handles -> Nat]
         /\ \A h \in Handles :
              /\ Outside(C, B, X)[h]
                   = UNIT * (IF C[h] = "owned" THEN 1 ELSE 0)
                       + UNIT * Cardinality(InBuffers(B, h)) + Cardinality(InSlots(X, h))
              /\ Cardinality(InBuffers(B, h)) \in Nat /\ Cardinality(InSlots(X, h)) \in Nat
              /\ UNIT * Cardinality(InBuffers(B, h)) \in Nat
<1>1. ASSUME NEW h \in Handles
      PROVE  /\ Outside(C, B, X)[h] \in Nat
             /\ Outside(C, B, X)[h]
                  = UNIT * (IF C[h] = "owned" THEN 1 ELSE 0)
                      + UNIT * Cardinality(InBuffers(B, h)) + Cardinality(InSlots(X, h))
             /\ Cardinality(InBuffers(B, h)) \in Nat /\ Cardinality(InSlots(X, h)) \in Nat
             /\ UNIT * Cardinality(InBuffers(B, h)) \in Nat
  <2> DEFINE o == IF C[h] = "owned" THEN 1 ELSE 0
             b == Cardinality(InBuffers(B, h))
             n == Cardinality(InSlots(X, h))
  <2>1. o \in Nat /\ b \in Nat /\ n \in Nat
    BY FS_CardinalityType, SlotsFinite DEF BuffersFinite
  <2>2. Outside(C, B, X)[h] = UNIT * (o + b) + n
    BY DEF Outside
  <2> HIDE DEF o, b, n
  <2>3. UNIT * o \in Nat /\ UNIT * b \in Nat /\ UNIT * (o + b) = UNIT * o + UNIT * b
    BY <2>1, UnitNat
  <2> QED  BY <2>1, <2>2, <2>3 DEF o, b, n
<1> QED  BY <1>1 DEF Outside

\* CountOff deletes what it takes to 0, and the account stays.
LEMMA CountedOff ==
  ASSUME tex \in Table, NEW R \in [Handles -> Nat], NEW S \in [Handles -> Nat], NEW K,
         Account(tex, R, K, {}), NEW by \in [Handles -> Nat],
         \A h \in Handles : S[h] = R[h] - by[h]
  PROVE  /\ CountOff(by) \in Table /\ Account(CountOff(by), S, K, {})
         /\ \A h \in Handles : tex[h] = None => CountOff(by)[h] = None
<1> DEFINE T == [h \in Handles |-> IF by[h] = 0 THEN tex[h]
                                   ELSE [tex[h] EXCEPT !.count = @ - by[h]]]
           D == {h \in Handles : by[h] > 0 /\ T[h].count = 0}
<1>1. CountOff(by) = delete_texture(T, D)
  BY DEF CountOff
<1>2. ASSUME NEW h \in Handles
      PROVE  /\ T[h] = None <=> tex[h] = None
             /\ h \in Live(tex) => /\ T[h] \in TextureRecord
                                   /\ T[h].agp = tex[h].agp /\ T[h].type = tex[h].type
                                   /\ T[h].count = tex[h].count + (S[h] - R[h])
             /\ by[h] > 0 => h \in Live(tex) /\ R[h] > 0 /\ K[h] = {}
  <2>1. by[h] \in Nat /\ R[h] \in Nat /\ S[h] \in Nat /\ S[h] = R[h] - by[h]
    OBVIOUS
  <2>2. by[h] > 0 => h \in Live(tex) /\ R[h] > 0 /\ K[h] = {}
    <3> SUFFICES ASSUME by[h] > 0 PROVE h \in Live(tex) /\ R[h] > 0 /\ K[h] = {}
      OBVIOUS
    <3>1. R[h] > 0
      BY <2>1
    <3>2. h \in Live(tex)
      BY <3>1 DEF Account, DeadInv, Live
    <3>3. tex[h].count = R[h] + Cardinality(Links(tex, h))
      BY <3>2 DEF Account, ExactInv
    <3>4. tex[h].count # 0
      BY <2>1, <3>1, <3>3, HandlesFinite
    <3> QED  BY <3>1, <3>2, <3>4 DEF Account, OneInv
  <2>3. CASE by[h] = 0
    <3>1. T[h] = tex[h] /\ S[h] - R[h] = 0
      BY <2>1, <2>3
    <3>2. h \in Live(tex) => tex[h] \in TextureRecord /\ tex[h].count \in Int
      BY RecordNotNone, Fields
    <3>3. \A n \in Int : \A z : z = 0 => n = n + z
      OBVIOUS
    <3>4. h \in Live(tex) => tex[h].count = tex[h].count + (S[h] - R[h])
      BY <3>1, <3>2, <3>3
    <3> QED  BY <2>2, <3>1, <3>2, <3>4
  <2>4. CASE by[h] # 0
    <3>1. by[h] > 0
      BY <2>1, <2>4
    <3>2. tex[h] \in TextureRecord /\ tex[h] # None /\ tex[h].count \in Int
      BY <2>2, <3>1, RecordNotNone, Fields DEF Live
    <3>3. T[h] = [tex[h] EXCEPT !.count = tex[h].count - by[h]]
      BY <2>4
    <3>4. tex[h].count - by[h] \in Int
      BY <2>1, <3>2
    <3>5. /\ T[h] \in TextureRecord /\ T[h].agp = tex[h].agp /\ T[h].type = tex[h].type
          /\ T[h].count = tex[h].count - by[h]
      BY <3>2, <3>3, <3>4, Fields
    <3>6. T[h].count = tex[h].count + (S[h] - R[h])
      BY <2>1, <3>2, <3>5
    <3> QED  BY <2>2, <3>1, <3>2, <3>5, <3>6, RecordNotNone
  <2> QED  BY <2>3, <2>4
<1>3. T \in Table
  <2>1. \A h \in Handles : T[h] \in TextureRecord \cup {None}
    BY <1>2 DEF Live
  <2> QED  BY <2>1 DEF Table
<1> HIDE DEF T
<1>4. ASSUME NEW h \in Handles
      PROVE  \/ S[h] = R[h] /\ K[h] = K[h] /\ h \notin D
             \/ /\ R[h] > 0 \/ K[h] # {}
                /\ IF h \in D THEN T[h].count = 0 /\ K[h] = {}
                   ELSE IF T[h].count = 0 THEN \E k \in Contexts \cup {None} : K[h] = {k}
                   ELSE K[h] = {}
  <2>1. by[h] \in Nat /\ R[h] \in Nat /\ S[h] = R[h] - by[h]
    OBVIOUS
  <2>2. CASE by[h] = 0
    BY <2>1, <2>2
  <2>3. CASE by[h] > 0
    BY <1>2, <2>3
  <2> QED  BY <2>1, <2>2, <2>3
<1>5. \A h \in Live(tex) : h \in Handles
  BY DEF Live
<1>6. D \in SUBSET Handles
  OBVIOUS
<1> HIDE DEF D
<1>7. Account(T, S, K, D) /\ D \subseteq Live(T)
  <2>1. \A h \in Handles : T[h] = None <=> tex[h] = None
    BY <1>2
  <2>2. \A h \in Live(tex) : /\ T[h].agp = tex[h].agp /\ T[h].type = tex[h].type
                            /\ T[h].count = tex[h].count + (S[h] - R[h])
    BY <1>2, <1>5
  <2>3. \A h \in Handles :
           \/ S[h] = R[h] /\ K[h] = K[h] /\ h \notin D
           \/ /\ R[h] > 0 \/ K[h] # {}
              /\ IF h \in D THEN T[h].count = 0 /\ K[h] = {}
                 ELSE IF T[h].count = 0 THEN \E k \in Contexts \cup {None} : K[h] = {k}
                 ELSE K[h] = {}
    BY <1>4
  <2>4. Recount(tex, T, R, S, K, K, D)
    BY <1>3, <1>6, <2>1, <2>2, <2>3 DEF Recount
  <2> QED  BY <2>4, Recounted
<1>8. /\ delete_texture(T, D) \in Table /\ Account(delete_texture(T, D), S, K, {})
      /\ \A h \in Handles : T[h] = None => delete_texture(T, D)[h] = None
  BY <1>3, <1>7, Deleted
<1> QED  BY <1>1, <1>2, <1>8

-----------------------------------------------------------------------------
(***************************************************************************)
(* Steps.  An action that leaves the textures and the references as they   *)
(* are keeps the account.                                                  *)
(***************************************************************************)
LEMMA InitInv == Init => IInv
<1> SUFFICES ASSUME Init PROVE IInv
  OBVIOUS
<1> USE DEF Init
<1>1. \A h \in Handles : InBuffers(buffer, h) = {} /\ InSlots(txs, h) = {} /\ Keepers(h) = {}
  <2> SUFFICES ASSUME NEW h \in Handles
               PROVE  InBuffers(buffer, h) = {} /\ InSlots(txs, h) = {} /\ Keepers(h) = {}
    OBVIOUS
  <2>1. \A c \in Contexts : DOMAIN buffer[c] = {}
    OBVIOUS
  <2>2. InBuffers(buffer, h) = {}
    BY <2>1, BufferMember
  <2>3. InSlots(txs, h) = {}
    BY RecordNotNone DEF InSlots
  <2>4. Keepers(h) = {}
    BY DEF Keepers
  <2> QED  BY <2>2, <2>3, <2>4
<1>2. TypeOK
  <2>1. << >> \in Seq(Tokens)
    OBVIOUS
  <2> HIDE DEF Tokens, Slots, TextureRecord
  <2> QED  BY <2>1 DEF TypeOK, Ids
<1>3. BuffersFinite(buffer)
  BY <1>1, FS_EmptySet DEF BuffersFinite
<1>4. Live(tex) = {}
  BY DEF Live
<1>5. \A h \in Handles : Outside(client, buffer, txs)[h] = 0 /\ Keeping[h] = {}
                         /\ Links(tex, h) = {}
  <2> SUFFICES ASSUME NEW h \in Handles
               PROVE  Outside(client, buffer, txs)[h] = 0 /\ Keeping[h] = {}
                      /\ Links(tex, h) = {}
    OBVIOUS
  <2>1. Cardinality(InBuffers(buffer, h)) = 0 /\ Cardinality(InSlots(txs, h)) = 0
    BY <1>1, FS_EmptySet
  <2>2. UNIT * 0 = 0 /\ UNIT * (0 + 0) = 0
    BY UnitNat
  <2>3. Outside(client, buffer, txs)[h] = 0
    BY <2>1, <2>2 DEF Outside
  <2> QED  BY <1>1, <1>4, <2>3 DEF Keeping, Links
<1>6. Account(tex, Outside(client, buffer, txs), Keeping, {})
  BY <1>4, <1>5 DEF Account, DeadInv, ExactInv, OneInv, AgpInv, LinkInv
<1> QED  BY <1>2, <1>3, <1>4, <1>6 DEF IInv

\* The account is kept as it is.
LEMMA Untouched ==
  ASSUME TypeOK, UNCHANGED << client, buffer, txs, dels >>
  PROVE  /\ Outside(client, buffer, txs)' = Outside(client, buffer, txs)
         /\ Keeping' = Keeping
         /\ BuffersFinite(buffer) => BuffersFinite(buffer)'
<1>1. \A h \in Handles : Keepers(h)' = Keepers(h)
  BY DEF Keepers
<1> QED  BY <1>1 DEF Outside, Keeping, BuffersFinite

\* A step that leaves the textures alone.
LEMMA StepUntouched ==
  ASSUME IInv, UNCHANGED << tex, client, buffer, txs, dels, open >>, TypeOK',
         SharedAlive, SharedAlive'
  PROVE  IInv' /\ LinkStep
<1>1. /\ Outside(client, buffer, txs)' = Outside(client, buffer, txs)
      /\ Keeping' = Keeping /\ BuffersFinite(buffer)'
  BY Untouched DEF IInv
<1>2. Account(tex, Outside(client, buffer, txs), Keeping, {})'
  BY <1>1 DEF IInv
<1>3. LinkStep
  BY DEF LinkStep, Live
<1> QED  BY <1>1, <1>2, <1>3 DEF IInv

\* Taking the lock to process a buffer.
LEMMA StepSubmit ==
  ASSUME IInv, NEW c \in Contexts, submit_command_buffer(c)
  PROVE  IInv' /\ LinkStep
<1>1. TypeOK'
  BY DEF IInv, TypeOK, submit_command_buffer
<1>2. SharedAlive /\ SharedAlive'
  BY DEF IInv, TypeOK, submit_command_buffer, SharedAlive, Closed
<1> QED  BY <1>1, <1>2, StepUntouched DEF submit_command_buffer

\* A buffer that is given up keeps its tokens, and so their references.
LEMMA StepFailure ==
  ASSUME IInv, NEW c \in Contexts, process_failure(c)
  PROVE  IInv' /\ LinkStep
<1>1. TypeOK'
  BY DEF IInv, TypeOK, process_failure
<1>2. SharedAlive /\ SharedAlive'
  BY DEF IInv, TypeOK, process_failure, SharedAlive, Closed
<1> QED  BY <1>1, <1>2, StepUntouched DEF process_failure

\* The end of a buffer.
LEMMA StepEnd ==
  ASSUME IInv, NEW c \in Contexts, process_end(c)
  PROVE  IInv' /\ LinkStep
<1>1. TypeOK'
  BY DEF IInv, TypeOK, process_end
<1>2. SharedAlive /\ SharedAlive'
  BY DEF IInv, TypeOK, process_end, SharedAlive, Closed
<1> QED  BY <1>1, <1>2, StepUntouched DEF process_end

\* The frame buffers go before the slots are dropped.
LEMMA StepCleanup ==
  ASSUME IInv, NEW c \in Contexts, CleanupApp(c)
  PROVE  IInv' /\ LinkStep
<1>1. TypeOK'
  BY DEF IInv, TypeOK, CleanupApp
<1>2. SharedAlive /\ SharedAlive'
  BY DEF IInv, TypeOK, CleanupApp, SharedAlive, Closed
<1> QED  BY <1>1, <1>2, StepUntouched DEF CleanupApp

-----------------------------------------------------------------------------
\* The account of the state, in the terms the steps need.
LEMMA StateAccount ==
  ASSUME IInv, SharedAlive
  PROVE  /\ tex \in Table /\ Outside(client, buffer, txs) \in [Handles -> Nat]
         /\ Account(tex, Outside(client, buffer, txs), Keeping, {})
         /\ \A h \in Handles :
              /\ Keeping[h] = {c \in Contexts : h \in dels[c]}
                   \cup (IF client[h] \in {"returned", "deleting"} THEN {None} ELSE {})
              /\ client[h] = "owned" => Outside(client, buffer, txs)[h] > 0
              /\ (\E c \in Contexts, s \in Slots : txs[c][s] = h)
                    => Outside(client, buffer, txs)[h] > 0
              /\ Outside(client, buffer, txs)[h] > 0 \/ Keeping[h] # {}
                   => h \in Live(tex) /\ tex[h] \in TextureRecord
              /\ Outside(client, buffer, txs)[h] > 0
                   => tex[h].count > 0 /\ Keeping[h] = {}
              /\ Keeping[h] # {} =>
                   /\ Outside(client, buffer, txs)[h] = 0 /\ tex[h].count = 0
                   /\ \E k \in Contexts \cup {None} : Keeping[h] = {k}
<1> DEFINE R == Outside(client, buffer, txs)
<1>1. tex \in Table /\ Account(tex, R, Keeping, {}) /\ BuffersFinite(buffer)
  BY DEF IInv, TypeOK, Table
<1>2. R \in [Handles -> Nat]
  BY <1>1, OutsideNat
<1>3. ASSUME NEW h \in Handles
      PROVE  /\ client[h] = "owned" => R[h] > 0
             /\ (\E c \in Contexts, s \in Slots : txs[c][s] = h) => R[h] > 0
  <2>1. /\ R[h] = UNIT * (IF client[h] = "owned" THEN 1 ELSE 0)
                    + UNIT * Cardinality(InBuffers(buffer, h)) + Cardinality(InSlots(txs, h))
        /\ UNIT * Cardinality(InBuffers(buffer, h)) \in Nat
        /\ Cardinality(InSlots(txs, h)) \in Nat
    BY <1>1, OutsideNat
  <2>2. UNIT * 1 = UNIT /\ UNIT * 0 = 0 /\ UNIT \in Nat /\ UNIT >= 1
    BY UnitNat
  <2>3. (\E c \in Contexts, s \in Slots : txs[c][s] = h) => Cardinality(InSlots(txs, h)) > 0
    <3> SUFFICES ASSUME NEW c \in Contexts, NEW s \in Slots, txs[c][s] = h
                 PROVE  Cardinality(InSlots(txs, h)) # 0
      BY <2>1
    <3>1. << c, s >> \in InSlots(txs, h)
      BY DEF InSlots
    <3>2. IsFiniteSet(InSlots(txs, h))
      BY SlotsFinite
    <3> QED  BY <3>1, <3>2, FS_EmptySet
  <2> HIDE DEF R
  <2> QED  BY <2>1, <2>2, <2>3
<1> HIDE DEF R
<1>4. ASSUME NEW h \in Handles, R[h] > 0 \/ Keeping[h] # {}
      PROVE  h \in Live(tex) /\ tex[h] \in TextureRecord
  <2>1. h \in Live(tex)
    BY <1>1, <1>2, <1>4 DEF Account, DeadInv, Live
  <2> QED  BY <1>1, <2>1, RecordNotNone
<1>5. ASSUME NEW h \in Handles, R[h] > 0
      PROVE  tex[h].count > 0 /\ Keeping[h] = {}
  <2>1. h \in Live(tex)
    BY <1>4, <1>5
  <2>2. tex[h].count = R[h] + Cardinality(Links(tex, h))
    BY <1>1, <2>1 DEF Account, ExactInv
  <2>3. tex[h].count > 0
    BY <1>2, <1>5, <2>2, HandlesFinite
  <2> QED  BY <1>1, <2>1, <2>3 DEF Account, OneInv
<1>6. ASSUME NEW h \in Handles, Keeping[h] # {}
      PROVE  R[h] = 0 /\ tex[h].count = 0 /\ \E k \in Contexts \cup {None} : Keeping[h] = {k}
  <2>1. R[h] = 0
    BY <1>2, <1>5, <1>6
  <2>2. h \in Live(tex)
    BY <1>4, <1>6
  <2> QED  BY <1>1, <1>6, <2>1, <2>2 DEF Account, OneInv
<1>7. \A h \in Handles : Keeping[h] = {c \in Contexts : h \in dels[c]}
                   \cup (IF client[h] \in {"returned", "deleting"} THEN {None} ELSE {})
  BY DEF Keeping, Keepers
<1> QED  BY <1>1, <1>2, <1>3, <1>4, <1>5, <1>6, <1>7 DEF R

\* A step that makes no texture.
LEMMA StepKept ==
  ASSUME IInv, TypeOK', SharedAlive', BuffersFinite(buffer)',
         Account(tex, Outside(client, buffer, txs), Keeping, {})',
         \A h \in Handles : tex[h] = None => tex'[h] = None
  PROVE  IInv' /\ LinkStep
<1>1. LinkStep
  BY DEF LinkStep, Live
<1> QED  BY <1>1 DEF IInv

\* Who keeps a texture after the step.
LEMMA KeepingNext ==
  \A h \in Handles :
    Keeping'[h] = {c \in Contexts : h \in dels'[c]}
                    \cup (IF client'[h] \in {"returned", "deleting"} THEN {None} ELSE {})
  BY DEF Keeping, Keepers

\* References after a step of the driver.
LEMMA OutsideDriver ==
  ASSUME IInv, UNCHANGED << buffer, txs >>
  PROVE  /\ BuffersFinite(buffer)'
         /\ Outside(client, buffer, txs)' \in [Handles -> Nat]
         /\ \A h \in Handles :
              Outside(client, buffer, txs)'[h] = Outside(client, buffer, txs)[h]
                + UNIT * (IF client'[h] = "owned" THEN 1 ELSE 0)
                - UNIT * (IF client[h] = "owned" THEN 1 ELSE 0)
<1>1. BuffersFinite(buffer) /\ BuffersFinite(buffer')
  BY DEF IInv
<1>2. Outside(client', buffer', txs') \in [Handles -> Nat]
  BY <1>1, OutsideNat
<1>3. ASSUME NEW h \in Handles
      PROVE  Outside(client', buffer', txs')[h] = Outside(client, buffer, txs)[h]
                + UNIT * (IF client'[h] = "owned" THEN 1 ELSE 0)
                - UNIT * (IF client[h] = "owned" THEN 1 ELSE 0)
  <2> DEFINE o(C) == UNIT * (IF C[h] = "owned" THEN 1 ELSE 0)
             b == UNIT * Cardinality(InBuffers(buffer, h))
             n == Cardinality(InSlots(txs, h))
  <2>1. /\ Outside(client, buffer, txs)[h] = o(client) + b + n
        /\ Outside(client', buffer, txs)[h] = o(client') + b + n
        /\ b \in Nat /\ n \in Nat
    BY <1>1, OutsideNat
  <2>2. o(client) \in Nat /\ o(client') \in Nat
    BY UnitNat
  <2>3. Outside(client', buffer', txs') = Outside(client', buffer, txs)
    OBVIOUS
  <2> HIDE DEF o, b, n
  <2>4. Outside(client', buffer', txs')[h]
          = Outside(client, buffer, txs)[h] + o(client') - o(client)
    BY <2>1, <2>2, <2>3
  <2> QED  BY <2>4 DEF o
<1> QED  BY <1>1, <1>2, <1>3

\* Adding to the count of one texture.
LEMMA Added ==
  ASSUME NEW T \in Table, NEW h \in Live(T), NEW n \in Int
  PROVE  /\ Add(T, h, n) \in Table /\ h \in Handles
         /\ \A x \in Handles : Add(T, h, n)[x] = None <=> T[x] = None
         /\ \A x \in Handles \ {h} : Add(T, h, n)[x] = T[x]
         /\ Add(T, h, n)[h].agp = T[h].agp /\ Add(T, h, n)[h].type = T[h].type
         /\ Add(T, h, n)[h].count = T[h].count + n
<1>1. T[h] \in TextureRecord /\ h \in Handles /\ T[h] # None
  BY RecordNotNone DEF Live
<1>2. T[h].count \in Int /\ T[h].count + n \in Int
  BY <1>1, Fields
<1>3. /\ Add(T, h, n)[h] = [T[h] EXCEPT !.count = T[h].count + n]
      /\ \A x \in Handles \ {h} : Add(T, h, n)[x] = T[x]
      /\ Add(T, h, n) = [x \in Handles |-> Add(T, h, n)[x]]
  BY <1>1 DEF Add, Table
<1>4. /\ Add(T, h, n)[h] \in TextureRecord
      /\ Add(T, h, n)[h].agp = T[h].agp /\ Add(T, h, n)[h].type = T[h].type
      /\ Add(T, h, n)[h].count = T[h].count + n
  BY <1>1, <1>2, <1>3, Fields
<1>5. \A x \in Handles : Add(T, h, n)[x] \in TextureRecord \cup {None}
  BY <1>3, <1>4 DEF Table
<1>6. Add(T, h, n) \in Table
  BY <1>3, <1>5 DEF Table
<1> QED  BY <1>1, <1>3, <1>4, <1>6, RecordNotNone

-----------------------------------------------------------------------------
(***************************************************************************)
(* The driver and the device user client.                                  *)
(***************************************************************************)
LEMMA StepKeep ==
  ASSUME IInv, NEW h \in Handles, Keep(h)
  PROVE  IInv' /\ LinkStep
<1> DEFINE R == Outside(client, buffer, txs)
           S == Outside(client', buffer', txs')
<1>1. SharedAlive /\ SharedAlive'
  BY DEF Keep, SharedAlive
<1>2. /\ tex \in Table /\ R \in [Handles -> Nat] /\ Account(tex, R, Keeping, {})
      /\ Keeping[h] # {} /\ h \in Live(tex) /\ R[h] = 0 /\ tex[h].count = 0
  BY <1>1, StateAccount DEF Keep
<1>3. Keeping[h] = {None} /\ {c \in Contexts : h \in dels[c]} = {}
  <2>1. Keeping[h] = {c \in Contexts : h \in dels[c]} \cup {None}
    BY <1>1, StateAccount DEF Keep
  <2>2. \E k : Keeping[h] = {k}
    BY <1>1, <1>2, StateAccount
  <2> QED  BY <2>1, <2>2, RecordNotNone
<1>4. /\ BuffersFinite(buffer)' /\ S \in [Handles -> Nat]
      /\ \A x \in Handles : S[x] = R[x] + UNIT * (IF client'[x] = "owned" THEN 1 ELSE 0)
                                        - UNIT * (IF client[x] = "owned" THEN 1 ELSE 0)
  <2>1. UNCHANGED << buffer, txs >>
    BY DEF Keep, contextVars
  <2>2. /\ BuffersFinite(buffer') /\ S \in [Handles -> Nat]
        /\ \A x \in Handles : S[x] = R[x] + UNIT * (IF client'[x] = "owned" THEN 1 ELSE 0)
                                          - UNIT * (IF client[x] = "owned" THEN 1 ELSE 0)
    BY <2>1, OutsideDriver
  <2> QED  BY <2>2
<1>5. client' = [client EXCEPT ![h] = "owned"] /\ client[h] = "returned"
      /\ client \in [Handles -> {"none", "returned", "owned", "deleting"}]
      /\ dels' = dels /\ tex' = Add(tex, h, UNIT)
  BY DEF Keep, IInv, TypeOK, contextVars
<1>6. S[h] = R[h] + UNIT /\ \A x \in Handles \ {h} : S[x] = R[x]
  <2>1. UNIT * 1 = UNIT /\ UNIT * 0 = 0 /\ UNIT \in Nat
    BY UnitNat
  <2>2. S[h] = R[h] + UNIT
    <3>1. (client'[h] = "owned") = TRUE /\ (client[h] = "owned") = FALSE /\ R[h] \in Nat
      BY <1>2, <1>5
    <3>2. S[h] = R[h] + UNIT * (IF client'[h] = "owned" THEN 1 ELSE 0)
                      - UNIT * (IF client[h] = "owned" THEN 1 ELSE 0)
      BY <1>4
    <3> QED  BY <2>1, <3>1, <3>2
  <2>3. ASSUME NEW x \in Handles \ {h} PROVE S[x] = R[x]
    <3>1. client'[x] = client[x] /\ R[x] \in Nat
      BY <1>2, <1>5
    <3> QED  BY <1>4, <2>1, <3>1
  <2> QED  BY <2>2, <2>3
<1> HIDE DEF R, S
<1>7. Keeping'[h] = {} /\ \A x \in Handles \ {h} : Keeping'[x] = Keeping[x]
  <2>1. \A x \in Handles :
          /\ Keeping[x] = {c \in Contexts : x \in dels[c]}
               \cup (IF client[x] \in {"returned", "deleting"} THEN {None} ELSE {})
          /\ Keeping'[x] = {c \in Contexts : x \in dels[c]}
               \cup (IF client'[x] \in {"returned", "deleting"} THEN {None} ELSE {})
    BY <1>1, <1>5, KeepingNext, StateAccount
  <2>2. \A x \in Handles \ {h} : client'[x] = client[x]
    BY <1>5
  <2> QED  BY <1>3, <1>5, <2>1, <2>2
<1>8. /\ tex' \in Table /\ \A x \in Handles : tex'[x] = None <=> tex[x] = None
      /\ \A x \in Handles \ {h} : tex'[x] = tex[x]
      /\ tex'[h].agp = tex[h].agp /\ tex'[h].type = tex[h].type
      /\ tex'[h].count = tex[h].count + UNIT
  BY <1>2, <1>5, UnitNat, Added
<1>9. Recount(tex, tex', R, S, Keeping, Keeping', {})
  <2>1. ASSUME NEW x \in Live(tex)
        PROVE  /\ tex'[x].agp = tex[x].agp /\ tex'[x].type = tex[x].type
               /\ tex'[x].count = tex[x].count + (S[x] - R[x])
    <3>1. x \in Handles /\ tex[x].count \in Int /\ R[x] \in Nat /\ S[x] \in Nat
      BY <1>2, <1>4, RecordNotNone, Fields
    <3>2. CASE x = h
      BY <1>2, <1>6, <1>8, <3>1, <3>2, UnitNat
    <3>3. CASE x # h
      <4>1. S[x] - R[x] = 0
        BY <1>6, <3>1, <3>3
      <4> QED  BY <1>8, <3>1, <3>3, <4>1
    <3> QED  BY <3>2, <3>3
  <2>2. tex'[h].count # 0
    BY <1>2, <1>8, UnitNat
  <2> QED  BY <1>2, <1>4, <1>6, <1>7, <1>8, <2>1, <2>2 DEF Recount
<1>10. Account(tex', S, Keeping', {})
  BY <1>2, <1>9, Recounted
<1>11. TypeOK'
  BY <1>5, <1>8 DEF IInv, TypeOK, Table, Keep, contextVars
<1> QED  BY <1>1, <1>4, <1>8, <1>10, <1>11, StepKept DEF S

\* The driver drops its pointer and, if that was the last, takes on the deletion.
LEMMA StepGiveUp ==
  ASSUME IInv, NEW h \in Handles, GiveUp(h)
  PROVE  IInv' /\ LinkStep
<1> DEFINE R == Outside(client, buffer, txs)
           S == Outside(client', buffer', txs')
<1>1. SharedAlive /\ SharedAlive'
  BY DEF GiveUp, SharedAlive
<1>2. /\ tex \in Table /\ R \in [Handles -> Nat] /\ Account(tex, R, Keeping, {})
      /\ R[h] > 0 /\ h \in Live(tex) /\ Keeping[h] = {}
  BY <1>1, StateAccount DEF GiveUp
<1>3. {c \in Contexts : h \in dels[c]} = {}
  BY <1>1, <1>2, StateAccount
<1>4. /\ BuffersFinite(buffer)' /\ S \in [Handles -> Nat]
      /\ \A x \in Handles : S[x] = R[x] + UNIT * (IF client'[x] = "owned" THEN 1 ELSE 0)
                                        - UNIT * (IF client[x] = "owned" THEN 1 ELSE 0)
  <2>1. UNCHANGED << buffer, txs >>
    BY DEF GiveUp, contextVars
  <2>2. /\ BuffersFinite(buffer') /\ S \in [Handles -> Nat]
        /\ \A x \in Handles : S[x] = R[x] + UNIT * (IF client'[x] = "owned" THEN 1 ELSE 0)
                                          - UNIT * (IF client[x] = "owned" THEN 1 ELSE 0)
    BY <2>1, OutsideDriver
  <2> QED  BY <2>2
<1>5. /\ client' = [client EXCEPT ![h] = IF tex[h].count = UNIT THEN "deleting" ELSE "none"]
      /\ client[h] = "owned" /\ client \in [Handles -> {"none", "returned", "owned", "deleting"}]
      /\ dels' = dels /\ tex' = Add(tex, h, -UNIT)
  BY DEF GiveUp, IInv, TypeOK, contextVars
<1>6. S[h] = R[h] - UNIT /\ \A x \in Handles \ {h} : S[x] = R[x]
  <2>1. UNIT * 1 = UNIT /\ UNIT * 0 = 0 /\ UNIT \in Nat
    BY UnitNat
  <2>2. S[h] = R[h] - UNIT
    <3>1. (client'[h] = "owned") = FALSE /\ (client[h] = "owned") = TRUE /\ R[h] \in Nat
      BY <1>2, <1>5
    <3>2. S[h] = R[h] + UNIT * (IF client'[h] = "owned" THEN 1 ELSE 0)
                      - UNIT * (IF client[h] = "owned" THEN 1 ELSE 0)
      BY <1>4
    <3> QED  BY <2>1, <3>1, <3>2
  <2>3. ASSUME NEW x \in Handles \ {h} PROVE S[x] = R[x]
    <3>1. client'[x] = client[x] /\ R[x] \in Nat
      BY <1>2, <1>5
    <3> QED  BY <1>4, <2>1, <3>1
  <2> QED  BY <2>2, <2>3
<1> HIDE DEF R, S
<1>7. /\ Keeping'[h] = IF tex[h].count = UNIT THEN {None} ELSE {}
      /\ \A x \in Handles \ {h} : Keeping'[x] = Keeping[x]
  <2>1. \A x \in Handles :
          /\ Keeping[x] = {c \in Contexts : x \in dels[c]}
               \cup (IF client[x] \in {"returned", "deleting"} THEN {None} ELSE {})
          /\ Keeping'[x] = {c \in Contexts : x \in dels[c]}
               \cup (IF client'[x] \in {"returned", "deleting"} THEN {None} ELSE {})
    BY <1>1, <1>5, KeepingNext, StateAccount
  <2>2. \A x \in Handles \ {h} : client'[x] = client[x]
    BY <1>5
  <2> QED  BY <1>3, <1>5, <2>1, <2>2
<1>8. /\ tex' \in Table /\ \A x \in Handles : tex'[x] = None <=> tex[x] = None
      /\ \A x \in Handles \ {h} : tex'[x] = tex[x]
      /\ tex'[h].agp = tex[h].agp /\ tex'[h].type = tex[h].type
      /\ tex'[h].count = tex[h].count + (-UNIT)
  <2>1. -UNIT \in Int
    BY UnitNat
  <2> QED  BY <1>2, <1>5, <2>1, Added
<1>9. Recount(tex, tex', R, S, Keeping, Keeping', {})
  <2>1. ASSUME NEW x \in Live(tex)
        PROVE  /\ tex'[x].agp = tex[x].agp /\ tex'[x].type = tex[x].type
               /\ tex'[x].count = tex[x].count + (S[x] - R[x])
    <3>1. x \in Handles /\ tex[x].count \in Int /\ R[x] \in Nat /\ S[x] \in Nat
      BY <1>2, <1>4, RecordNotNone, Fields
    <3>2. CASE x = h
      BY <1>2, <1>6, <1>8, <3>1, <3>2, UnitNat
    <3>3. CASE x # h
      <4>1. S[x] - R[x] = 0
        BY <1>6, <3>1, <3>3
      <4> QED  BY <1>8, <3>1, <3>3, <4>1
    <3> QED  BY <3>2, <3>3
  <2>2. tex'[h].count = 0 <=> tex[h].count = UNIT
    <3>1. tex[h].count \in Int
      BY <1>2, RecordNotNone, Fields
    <3> QED  BY <1>8, <3>1, UnitNat
  <2>3. IF tex'[h].count = 0 THEN \E k \in Contexts \cup {None} : Keeping'[h] = {k}
        ELSE Keeping'[h] = {}
    BY <1>7, <2>2
  <2> QED  BY <1>2, <1>4, <1>6, <1>7, <1>8, <2>1, <2>3 DEF Recount
<1>10. Account(tex', S, Keeping', {})
  BY <1>2, <1>9, Recounted
<1>11. TypeOK'
  BY <1>5, <1>8 DEF IInv, TypeOK, Table, GiveUp, contextVars
<1> QED  BY <1>1, <1>4, <1>8, <1>10, <1>11, StepKept DEF S

\* The deletion that the driver took on is the only one, so it may be done.
LEMMA StepDelete ==
  ASSUME IInv, NEW h \in Handles, device_delete_texture(h)
  PROVE  IInv' /\ LinkStep
<1> DEFINE R == Outside(client, buffer, txs)
           S == Outside(client', buffer', txs')
<1>1. SharedAlive /\ SharedAlive'
  BY DEF device_delete_texture, SharedAlive
<1>2. /\ tex \in Table /\ R \in [Handles -> Nat] /\ Account(tex, R, Keeping, {})
      /\ Keeping[h] # {} /\ h \in Live(tex) /\ R[h] = 0 /\ tex[h].count = 0
  BY <1>1, StateAccount DEF device_delete_texture
<1>3. {c \in Contexts : h \in dels[c]} = {}
  <2>1. Keeping[h] = {c \in Contexts : h \in dels[c]} \cup {None}
    BY <1>1, StateAccount DEF device_delete_texture
  <2>2. \E k : Keeping[h] = {k}
    BY <1>1, <1>2, StateAccount
  <2> QED  BY <2>1, <2>2, RecordNotNone
<1>4. /\ BuffersFinite(buffer)' /\ S \in [Handles -> Nat]
      /\ \A x \in Handles : S[x] = R[x] + UNIT * (IF client'[x] = "owned" THEN 1 ELSE 0)
                                        - UNIT * (IF client[x] = "owned" THEN 1 ELSE 0)
  <2>1. UNCHANGED << buffer, txs >>
    BY DEF device_delete_texture, contextVars
  <2>2. /\ BuffersFinite(buffer') /\ S \in [Handles -> Nat]
        /\ \A x \in Handles : S[x] = R[x] + UNIT * (IF client'[x] = "owned" THEN 1 ELSE 0)
                                          - UNIT * (IF client[x] = "owned" THEN 1 ELSE 0)
    BY <2>1, OutsideDriver
  <2> QED  BY <2>2
<1>5. /\ client' = [client EXCEPT ![h] = "none"] /\ client[h] = "deleting"
      /\ client \in [Handles -> {"none", "returned", "owned", "deleting"}]
      /\ dels' = dels /\ tex' = delete_texture(tex, {h})
  BY DEF device_delete_texture, IInv, TypeOK, contextVars
<1>6. \A x \in Handles : S[x] = R[x]
  <2>1. UNIT * 1 = UNIT /\ UNIT * 0 = 0 /\ UNIT \in Nat
    BY UnitNat
  <2>2. ASSUME NEW x \in Handles PROVE S[x] = R[x]
    <3>1. (client'[x] = "owned" <=> client[x] = "owned") /\ R[x] \in Nat
      BY <1>2, <1>5
    <3> QED  BY <1>4, <2>1, <3>1
  <2> QED  BY <2>2
<1> HIDE DEF R, S
<1>7. Keeping'[h] = {} /\ \A x \in Handles \ {h} : Keeping'[x] = Keeping[x]
  <2>1. \A x \in Handles :
          /\ Keeping[x] = {c \in Contexts : x \in dels[c]}
               \cup (IF client[x] \in {"returned", "deleting"} THEN {None} ELSE {})
          /\ Keeping'[x] = {c \in Contexts : x \in dels[c]}
               \cup (IF client'[x] \in {"returned", "deleting"} THEN {None} ELSE {})
    BY <1>1, <1>5, KeepingNext, StateAccount
  <2>2. \A x \in Handles \ {h} : client'[x] = client[x]
    BY <1>5
  <2> QED  BY <1>3, <1>5, <2>1, <2>2
<1>8. Recount(tex, tex, R, S, Keeping, Keeping', {h})
  <2>1. ASSUME NEW x \in Live(tex) PROVE tex[x].count = tex[x].count + (S[x] - R[x])
    <3>1. x \in Handles /\ tex[x].count \in Int /\ R[x] \in Nat /\ S[x] - R[x] = 0
      BY <1>2, <1>6, RecordNotNone, Fields
    <3> QED  BY <3>1
  <2> QED  BY <1>2, <1>4, <1>6, <1>7, <2>1 DEF Recount
<1>9. Account(tex, S, Keeping', {h}) /\ {h} \in SUBSET Live(tex)
  BY <1>2, <1>8, Recounted
<1>10. /\ tex' \in Table /\ Account(tex', S, Keeping', {})
       /\ \A x \in Handles : tex[x] = None => tex'[x] = None
  <2>1. /\ delete_texture(tex, {h}) \in Table
        /\ Account(delete_texture(tex, {h}), S, Keeping', {})
        /\ \A x \in Handles : tex[x] = None => delete_texture(tex, {h})[x] = None
    BY <1>2, <1>4, <1>9, Deleted
  <2> QED  BY <1>5, <2>1
<1>11. TypeOK'
  BY <1>5, <1>10 DEF IInv, TypeOK, Table, device_delete_texture, contextVars
<1> QED  BY <1>1, <1>4, <1>10, <1>11, StepKept DEF S

\* Changing a flag of some textures.
LEMMA Flagged ==
  ASSUME NEW T \in Table, NEW U \in Table, NEW R \in [Handles -> Nat], NEW K,
         Account(T, R, K, {}),
         \A h \in Handles : U[h] = None <=> T[h] = None,
         \A h \in Live(T) : U[h].agp = T[h].agp /\ U[h].type = T[h].type
                            /\ U[h].count = T[h].count
  PROVE  Account(U, R, K, {})
<1>1. ASSUME NEW h \in Live(T) PROVE U[h].count = T[h].count + (R[h] - R[h])
  <2>1. h \in Handles /\ T[h].count \in Int /\ R[h] \in Nat /\ R[h] - R[h] = 0
    BY RecordNotNone, Fields
  <2> QED  BY <2>1
<1>2. Recount(T, U, R, R, K, K, {})
  BY <1>1 DEF Recount
<1> QED  BY <1>2, Recounted

\* Replacing memory makes textures stale and counts nothing.
LEMMA StepRemap ==
  ASSUME IInv, NEW addr \in Addrs, Remap(addr)
  PROVE  IInv' /\ LinkStep
<1> DEFINE P(h) == h \in Agp(tex) /\ tex[h].addr = addr
<1>1. SharedAlive /\ SharedAlive'
  BY DEF Remap, SharedAlive
<1>2. /\ tex \in Table /\ Outside(client, buffer, txs) \in [Handles -> Nat]
      /\ Account(tex, Outside(client, buffer, txs), Keeping, {})
  BY <1>1, StateAccount
<1>3. /\ Outside(client, buffer, txs)' = Outside(client, buffer, txs)
      /\ Keeping' = Keeping /\ BuffersFinite(buffer)'
  BY Untouched DEF IInv, Remap, contextVars
<1>4. tex' = [h \in Handles |-> IF P(h) THEN [tex[h] EXCEPT !.stale = TRUE] ELSE tex[h]]
  BY DEF Remap
<1>5. \A h \in Handles : P(h) => h \in Live(tex)
  BY DEF Agp
<1> HIDE DEF P
<1>6. ASSUME NEW h \in Live(tex)
      PROVE  /\ tex'[h] \in TextureRecord /\ tex'[h].agp = tex[h].agp
             /\ tex'[h].type = tex[h].type /\ tex'[h].count = tex[h].count
  <2>1. h \in Handles /\ tex[h] \in TextureRecord
    BY <1>2, RecordNotNone
  <2>2. tex'[h] = [tex[h] EXCEPT !.stale = TRUE] \/ tex'[h] = tex[h]
    BY <1>4, <2>1
  <2> QED  BY <2>1, <2>2 DEF TextureRecord
<1>7. \A h \in Handles : h \notin Live(tex) => tex'[h] = None /\ tex[h] = None
  BY <1>4, <1>5 DEF Live
<1>8. tex' \in Table /\ \A h \in Handles : tex'[h] = None <=> tex[h] = None
  <2>1. \A h \in Handles : tex'[h] \in TextureRecord \cup {None}
    BY <1>6, <1>7
  <2>2. tex' \in Table
    BY <1>4, <2>1 DEF Table
  <2>3. ASSUME NEW h \in Handles PROVE tex'[h] = None <=> tex[h] = None
    BY <1>6, <1>7, RecordNotNone DEF Live
  <2> QED  BY <2>2, <2>3
<1>9. Account(tex', Outside(client, buffer, txs), Keeping, {})
  BY <1>2, <1>6, <1>8, Flagged
<1>10. TypeOK'
  BY <1>8 DEF IInv, TypeOK, Table, Remap, contextVars
<1>11. Account(tex, Outside(client, buffer, txs), Keeping, {})'
  BY <1>3, <1>9
<1> QED  BY <1>1, <1>3, <1>8, <1>10, <1>11, StepKept

\* Closing the device frees the textures only if every context is closed.
LEMMA StepClose ==
  ASSUME IInv, CloseDevice
  PROVE  IInv' /\ LinkStep
<1>1. SharedAlive /\ open
  BY DEF CloseDevice, SharedAlive
<1>2. /\ tex \in Table /\ Account(tex, Outside(client, buffer, txs), Keeping, {})
  BY <1>1, StateAccount
<1>3. /\ Outside(client, buffer, txs)' = Outside(client, buffer, txs)
      /\ Keeping' = Keeping /\ BuffersFinite(buffer)'
  BY Untouched DEF IInv, CloseDevice, contextVars
<1>4. open' = FALSE /\ pc' = pc
  BY DEF CloseDevice, contextVars
<1>5. CASE \A c \in Contexts : Closed(c)
  <2>1. tex' = [h \in Handles |-> None]
    BY <1>5 DEF CloseDevice
  <2>2. Live(tex') = {} /\ tex' \in Table
    BY <2>1 DEF Live, Table
  <2>3. ~SharedAlive'
    BY <1>4, <1>5 DEF SharedAlive, Closed
  <2>4. TypeOK'
    BY <2>2 DEF IInv, TypeOK, Table, CloseDevice, contextVars
  <2> QED  BY <1>3, <2>2, <2>3, <2>4 DEF IInv, LinkStep
<1>6. CASE ~\A c \in Contexts : Closed(c)
  <2>1. tex' = tex
    BY <1>6 DEF CloseDevice
  <2>2. SharedAlive'
    BY <1>4, <1>6 DEF SharedAlive, Closed
  <2>3. TypeOK'
    BY <2>1 DEF IInv, TypeOK, CloseDevice, contextVars
  <2>4. Account(tex, Outside(client, buffer, txs), Keeping, {})'
    BY <1>2, <1>3, <2>1
  <2> QED  BY <1>3, <2>1, <2>2, <2>3, <2>4, StepKept
<1> QED  BY <1>5, <1>6

\* A context deletes what it collected: nobody else has it.
LEMMA StepDropped ==
  ASSUME IInv, NEW c \in Contexts, DeleteDropped(c)
  PROVE  IInv' /\ LinkStep
<1> DEFINE R == Outside(client, buffer, txs)
<1>1. SharedAlive
  BY DEF DeleteDropped, SharedAlive, Closed
<1>2. /\ tex \in Table /\ R \in [Handles -> Nat] /\ Account(tex, R, Keeping, {})
  BY <1>1, StateAccount
<1>3. UNCHANGED << client, buffer, txs, open >> /\ pc' = [pc EXCEPT ![c] = "closed"]
      /\ dels' = [dels EXCEPT ![c] = {}] /\ dels \in [Contexts -> SUBSET Handles]
      /\ pc \in [Contexts -> {"idle", "process", "cleanup", "closed"}]
  BY DEF DeleteDropped, IInv, TypeOK
<1>4. Outside(client, buffer, txs)' = R /\ BuffersFinite(buffer)'
  <2>1. BuffersFinite(buffer)
    BY DEF IInv
  <2> QED  BY <1>3, <2>1 DEF Outside, BuffersFinite
<1> HIDE DEF R
<1>5. CASE ~open /\ \A d \in Contexts \ {c} : Closed(d)
  <2>1. tex' = [h \in Handles |-> None]
    BY <1>5 DEF DeleteDropped
  <2>2. Live(tex') = {} /\ tex' \in Table
    BY <2>1 DEF Live, Table
  <2>3. ~SharedAlive'
    BY <1>3, <1>5 DEF SharedAlive, Closed
  <2>4. TypeOK'
    BY <1>3, <2>2 DEF IInv, TypeOK, Table, DeleteDropped
  <2> QED  BY <1>4, <2>2, <2>3, <2>4 DEF IInv, LinkStep
<1>6. CASE ~(~open /\ \A d \in Contexts \ {c} : Closed(d))
  <2>1. tex' = delete_texture(tex, dels[c])
    BY <1>6 DEF DeleteDropped
  <2>2. SharedAlive'
    BY <1>3, <1>6 DEF SharedAlive, Closed
  <2>3. ASSUME NEW h \in Handles, h \notin dels[c] PROVE Keeping'[h] = Keeping[h]
    <3>1. {d \in Contexts : h \in dels'[d]} = {d \in Contexts : h \in dels[d]}
      BY <1>3, <2>3
    <3>2. /\ Keeping[h] = {d \in Contexts : h \in dels[d]}
               \cup (IF client[h] \in {"returned", "deleting"} THEN {None} ELSE {})
          /\ Keeping'[h] = {d \in Contexts : h \in dels'[d]}
               \cup (IF client'[h] \in {"returned", "deleting"} THEN {None} ELSE {})
      BY <1>1, StateAccount, KeepingNext
    <3> QED  BY <1>3, <3>1, <3>2
  <2>4. ASSUME NEW h \in dels[c]
        PROVE  h \in Handles /\ Keeping[h] # {} /\ tex[h].count = 0 /\ Keeping'[h] = {}
    <3>1. h \in Handles
      BY <1>3
    <3>2. /\ Keeping[h] = {d \in Contexts : h \in dels[d]}
               \cup (IF client[h] \in {"returned", "deleting"} THEN {None} ELSE {})
          /\ Keeping'[h] = {d \in Contexts : h \in dels'[d]}
               \cup (IF client'[h] \in {"returned", "deleting"} THEN {None} ELSE {})
      BY <1>1, <3>1, StateAccount, KeepingNext
    <3>3. c \in Keeping[h]
      BY <3>2
    <3>4. tex[h].count = 0 /\ \E k : Keeping[h] = {k}
      BY <1>1, <3>1, <3>3, StateAccount
    <3>5. Keeping[h] = {c}
      BY <3>3, <3>4
    <3>6. Keeping'[h] = {}
      <4>1. client[h] \notin {"returned", "deleting"}
        BY <3>2, <3>5, RecordNotNone
      <4>2. \A d \in Contexts : h \in dels[d] => d = c
        BY <3>2, <3>5
      <4>3. \A d \in Contexts : h \notin dels'[d]
        BY <1>3, <4>2
      <4> QED  BY <1>3, <3>2, <4>1, <4>3
    <3> QED  BY <3>1, <3>3, <3>4, <3>6
  <2>5. Recount(tex, tex, R, R, Keeping, Keeping', dels[c])
    <3>1. ASSUME NEW x \in Live(tex) PROVE tex[x].count = tex[x].count + (R[x] - R[x])
      <4>1. x \in Handles /\ tex[x].count \in Int /\ R[x] \in Nat /\ R[x] - R[x] = 0
        BY <1>2, RecordNotNone, Fields
      <4> QED  BY <4>1
    <3> QED  BY <1>2, <1>3, <2>3, <2>4, <3>1 DEF Recount
  <2>6. Account(tex, R, Keeping', dels[c]) /\ dels[c] \in SUBSET Live(tex)
    BY <1>2, <2>5, Recounted
  <2>7. /\ delete_texture(tex, dels[c]) \in Table
        /\ Account(delete_texture(tex, dels[c]), R, Keeping', {})
        /\ \A x \in Handles : tex[x] = None => delete_texture(tex, dels[c])[x] = None
    BY <1>2, <2>6, Deleted
  <2>8. TypeOK'
    BY <1>3, <2>1, <2>7 DEF IInv, TypeOK, Table, DeleteDropped
  <2>9. Account(tex, Outside(client, buffer, txs), Keeping, {})'
    BY <1>4, <2>1, <2>7
  <2> QED  BY <1>4, <2>1, <2>2, <2>7, <2>8, <2>9, StepKept
<1> QED  BY <1>5, <1>6

-----------------------------------------------------------------------------
(***************************************************************************)
(* Tokens and slots.                                                       *)
(***************************************************************************)
\* Emptying one slot.
Emptied(X, c, s) == [X EXCEPT ![c][s] = None]

\* Its texture has one binding less.
LEMMA SlotEmptied ==
  ASSUME NEW X \in [Contexts -> [Slots -> Ids]], NEW c \in Contexts, NEW s \in Slots,
         NEW h \in Handles
  PROVE  /\ Emptied(X, c, s) \in [Contexts -> [Slots -> Ids]]
         /\ Cardinality(InSlots(Emptied(X, c, s), h))
              = Cardinality(InSlots(X, h)) - Cardinality(Held(X, c, {s}, h))
         /\ Cardinality(Held(X, c, {s}, h)) = IF X[c][s] = h THEN 1 ELSE 0
<1> DEFINE Y == Emptied(X, c, s)
           P == Held(X, c, {s}, h)
           Q == Held(Y, c, {s}, h)
<1>1. Y \in [Contexts -> [Slots -> Ids]]
  BY DEF Ids, Emptied
<1>2. /\ Y[c][s] = None
      /\ \A d \in Contexts \ {c} : Y[d] = X[d]
      /\ \A t \in Slots \ {s} : Y[c][t] = X[c][t]
  BY DEF Emptied
<1> HIDE DEF Y
<1>3. Cardinality(InSlots(Y, h)) = Cardinality(InSlots(X, h)) - Cardinality(P) + Cardinality(Q)
  <2>1. ChangedIn(X, Y, c, {s})
    <3>1. {s} \in SUBSET Slots
      OBVIOUS
    <3> QED  BY <1>2, <3>1 DEF ChangedIn
  <2> QED  BY <2>1, SlotsChanged
<1>4. Q = {} /\ (X[c][s] = h => P = {s}) /\ (X[c][s] # h => P = {})
  BY <1>2, RecordNotNone DEF Held
<1>5. Cardinality(Q) = 0 /\ Cardinality(P) = IF X[c][s] = h THEN 1 ELSE 0
  BY <1>4, FS_EmptySet, FS_Singleton
<1>6. Cardinality(InSlots(X, h)) \in Nat
  BY SlotsFinite
<1> HIDE DEF P, Q
<1>7. Cardinality(InSlots(Y, h)) = Cardinality(InSlots(X, h)) - Cardinality(P)
  BY <1>3, <1>5, <1>6
<1> QED  BY <1>1, <1>5, <1>7 DEF P, Y

\* Where a group is given the textures ids, and which of its slots get texture h.
Regrouped(X, c, g, ids) ==
  [X EXCEPT ![c] = [s \in Slots |-> IF s[1] = g THEN ids[s[2]] ELSE X[c][s]]]
Naming(ids, h) == {u \in Units : ids[u] = h}
OfGroup(g) == {g} \X Units

\* Binding the slots of a group.
LEMMA GroupBound ==
  ASSUME NEW X \in [Contexts -> [Slots -> Ids]], NEW c \in Contexts, NEW g \in Groups,
         NEW ids \in [Units -> Ids], NEW h
  PROVE  /\ Regrouped(X, c, g, ids) \in [Contexts -> [Slots -> Ids]]
         /\ Cardinality(InSlots(Regrouped(X, c, g, ids), h)) = Cardinality(InSlots(X, h))
              - Cardinality(Held(X, c, OfGroup(g), h)) + Cardinality(Naming(ids, h))
         /\ Cardinality(Held(X, c, OfGroup(g), h)) \in Nat
         /\ Cardinality(Naming(ids, h)) \in Nat
<1> DEFINE Y == Regrouped(X, c, g, ids)
<1> DEFINE S == {g} \X Units
           P == Held(X, c, S, h)
           Q == Held(Y, c, S, h)
           V == {u \in Units : ids[u] = h}
<1>1. Y[c] = [s \in Slots |-> IF s[1] = g THEN ids[s[2]] ELSE X[c][s]]
      /\ \A d \in Contexts \ {c} : Y[d] = X[d]
  BY DEF Regrouped
<1>2. Y \in [Contexts -> [Slots -> Ids]]
  <2>1. \A s \in Slots : s[2] \in Units
    BY DEF Slots
  <2>2. [s \in Slots |-> IF s[1] = g THEN ids[s[2]] ELSE X[c][s]] \in [Slots -> Ids]
    BY <2>1
  <2> QED  BY <2>2 DEF Regrouped
<1>3. S \in SUBSET Slots /\ \A s \in Slots \ S : s[1] # g
  BY DEF Slots
<1>4. \A s \in Slots \ S : Y[c][s] = X[c][s]
  BY <1>1, <1>3
<1>5. Cardinality(InSlots(Y, h)) = Cardinality(InSlots(X, h)) - Cardinality(P) + Cardinality(Q)
  <2> HIDE DEF S
  <2>1. ChangedIn(X, Y, c, S)
    BY <1>1, <1>3, <1>4 DEF ChangedIn
  <2> QED  BY <2>1, SlotsChanged
<1>6. Q = {g} \X V
  <2>1. \A u \in Units : << g, u >> \in Slots /\ Y[c][<< g, u >>] = ids[u]
    BY <1>1, <1>3
  <2> QED  BY <2>1 DEF Held
<1>7. IsFiniteSet(V)
  <2>1. V \in SUBSET Units
    OBVIOUS
  <2> QED  BY <2>1, TexturesAssumption, FS_Subset
<1>8. P \in SUBSET Slots
  BY <1>3 DEF Held
<1> HIDE DEF P, Q, V, Y
<1>9. Cardinality(Q) = Cardinality(V)
  BY <1>6, <1>7, PairWith
<1>10. Cardinality(P) \in Nat /\ Cardinality(V) \in Nat
  BY <1>7, <1>8, SlotsFinite, FS_CardinalityType
<1> QED  BY <1>2, <1>5, <1>9, <1>10 DEF P, V, Y, Naming, OfGroup

\* The references that are not links, again.
LEMMA OutsideIs ==
  \A C, B, X, h : BuffersFinite(B) /\ h \in Handles =>
    /\ Outside(C, B, X)[h]
         = UNIT * (IF C[h] = "owned" THEN 1 ELSE 0)
             + UNIT * Cardinality(InBuffers(B, h)) + Cardinality(InSlots(X, h))
    /\ Cardinality(InBuffers(B, h)) \in Nat /\ Cardinality(InSlots(X, h)) \in Nat
  BY OutsideNat

\* References after a step that moves k tokens and m slots.
LEMMA OutsideStep ==
  ASSUME IInv, UNCHANGED client, BuffersFinite(buffer'), NEW h \in Handles,
         NEW k \in Int, NEW m \in Int,
         Cardinality(InBuffers(buffer, h)) = Cardinality(InBuffers(buffer', h)) + k,
         Cardinality(InSlots(txs', h)) = Cardinality(InSlots(txs, h)) + m
  PROVE  Outside(client', buffer', txs')[h] = Outside(client, buffer, txs)[h] - UNIT * k + m
<1> DEFINE o == UNIT * (IF client[h] = "owned" THEN 1 ELSE 0)
           b == Cardinality(InBuffers(buffer, h))
           d == Cardinality(InBuffers(buffer', h))
           n == Cardinality(InSlots(txs, h))
           p == Cardinality(InSlots(txs', h))
<1>1. BuffersFinite(buffer)
  BY DEF IInv
<1>2. /\ Outside(client, buffer, txs)[h] = o + UNIT * b + n /\ b \in Nat /\ n \in Nat
  BY <1>1, OutsideNat
<1>3. /\ Outside(client, buffer', txs')[h] = o + UNIT * d + p /\ d \in Nat /\ p \in Nat
  <2>1. BuffersFinite(buffer')
    OBVIOUS
  <2>2. /\ Outside(client, buffer', txs')[h]
             = UNIT * (IF client[h] = "owned" THEN 1 ELSE 0)
                 + UNIT * Cardinality(InBuffers(buffer', h)) + Cardinality(InSlots(txs', h))
        /\ Cardinality(InBuffers(buffer', h)) \in Nat /\ Cardinality(InSlots(txs', h)) \in Nat
    BY <2>1, OutsideIs
  <2> QED  BY <2>2
<1>4. o \in Nat
  BY UnitNat
<1>5. b = d + k /\ p = n + m
  OBVIOUS
<1>6. Outside(client', buffer', txs') = Outside(client, buffer', txs')
  OBVIOUS
<1> HIDE DEF o, b, d, n, p
<1>7. UNIT * b = UNIT * d + UNIT * k /\ UNIT * d \in Int /\ UNIT * k \in Int
  BY <1>3, <1>5, UnitNat
<1> QED  BY <1>2, <1>3, <1>4, <1>5, <1>6, <1>7

\* A closing context drops a slot without the lock, and collects the texture exactly
\* if that was its last reference.
LEMMA StepDropSlot ==
  ASSUME IInv, NEW c \in Contexts, NEW s \in Slots, DropSlot(c, s)
  PROVE  IInv' /\ LinkStep
<1> DEFINE R == Outside(client, buffer, txs)
           S == Outside(client', buffer', txs')
           h == txs[c][s]
<1>1. SharedAlive /\ SharedAlive'
  BY DEF DropSlot, SharedAlive, Closed
<1>2. /\ txs \in [Contexts -> [Slots -> Ids]] /\ txs' = [txs EXCEPT ![c][s] = None]
      /\ h \in Handles /\ UNCHANGED << client, buffer, open, pc >>
      /\ tex' = Add(tex, h, -1)
      /\ dels' = IF tex[h].count = 1 THEN [dels EXCEPT ![c] = @ \cup {h}] ELSE dels
      /\ dels \in [Contexts -> SUBSET Handles]
  BY DEF DropSlot, IInv, TypeOK, Ids, Collect
<1> HIDE DEF h
<1>3. /\ tex \in Table /\ R \in [Handles -> Nat] /\ Account(tex, R, Keeping, {})
      /\ R[h] > 0 /\ h \in Live(tex) /\ Keeping[h] = {}
  BY <1>1, <1>2, StateAccount DEF h
<1>4. BuffersFinite(buffer) /\ BuffersFinite(buffer') /\ S \in [Handles -> Nat]
  BY <1>2, OutsideNat DEF IInv
<1>5. ASSUME NEW x \in Handles PROVE S[x] = R[x] - (IF x = h THEN 1 ELSE 0)
  <2> DEFINE e == Cardinality(Held(txs, c, {s}, x))
             z == 0
  <2>1. e = (IF txs[c][s] = x THEN 1 ELSE 0)
        /\ Cardinality(InSlots(Emptied(txs, c, s), x)) = Cardinality(InSlots(txs, x)) - e
    BY <1>2, SlotEmptied
  <2>2. e = (IF x = h THEN 1 ELSE 0) /\ e \in Int
        /\ Cardinality(InSlots(txs', x)) = Cardinality(InSlots(txs, x)) - e
    BY <1>2, <2>1 DEF h, Emptied
  <2>3. /\ Cardinality(InSlots(txs, x)) \in Nat /\ Cardinality(InBuffers(buffer, x)) \in Nat
        /\ R[x] \in Nat
    BY <1>3, <1>4, SlotsFinite, OutsideNat
  <2> HIDE DEF e
  <2>4. /\ Cardinality(InSlots(txs', x)) = Cardinality(InSlots(txs, x)) + (-e) /\ -e \in Int
        /\ Cardinality(InBuffers(buffer, x)) = Cardinality(InBuffers(buffer', x)) + z
        /\ z \in Int
    BY <1>2, <2>3, <2>2
  <2> HIDE DEF z
  <2>5. S[x] = R[x] - UNIT * z + (-e)
    BY <1>2, <1>4, <2>4, OutsideStep
  <2>6. UNIT * z = 0
    BY UnitNat DEF z
  <2> HIDE DEF R, S
  <2> QED  BY <2>3, <2>5, <2>6, <2>2
<1> HIDE DEF R, S
<1>6. /\ Keeping'[h] = IF tex[h].count = 1 THEN {c} ELSE {}
      /\ \A x \in Handles \ {h} : Keeping'[x] = Keeping[x]
  <2>1. \A x \in Handles :
          /\ Keeping[x] = {d \in Contexts : x \in dels[d]}
               \cup (IF client[x] \in {"returned", "deleting"} THEN {None} ELSE {})
          /\ Keeping'[x] = {d \in Contexts : x \in dels'[d]}
               \cup (IF client[x] \in {"returned", "deleting"} THEN {None} ELSE {})
    BY <1>1, <1>2, KeepingNext, StateAccount
  <2>2. \A x \in Handles \ {h} :
          {d \in Contexts : x \in dels'[d]} = {d \in Contexts : x \in dels[d]}
    BY <1>2
  <2>3. {d \in Contexts : h \in dels[d]} = {} /\ client[h] \notin {"returned", "deleting"}
    BY <1>2, <1>3, <2>1
  <2>4. {d \in Contexts : h \in dels'[d]} = IF tex[h].count = 1 THEN {c} ELSE {}
    BY <1>2, <2>3
  <2>5. Keeping'[h] = IF tex[h].count = 1 THEN {c} ELSE {}
    BY <1>2, <2>1, <2>3, <2>4
  <2>6. \A x \in Handles \ {h} : Keeping'[x] = Keeping[x]
    BY <2>1, <2>2
  <2> QED  BY <2>5, <2>6
<1>7. /\ tex' \in Table /\ \A x \in Handles : tex'[x] = None <=> tex[x] = None
      /\ \A x \in Handles \ {h} : tex'[x] = tex[x]
      /\ tex'[h].agp = tex[h].agp /\ tex'[h].type = tex[h].type
      /\ tex'[h].count = tex[h].count + (-1)
  <2>1. -1 \in Int
    OBVIOUS
  <2> QED  BY <1>2, <1>3, <2>1, Added
<1>8. Recount(tex, tex', R, S, Keeping, Keeping', {})
  <2>1. ASSUME NEW x \in Live(tex)
        PROVE  /\ tex'[x].agp = tex[x].agp /\ tex'[x].type = tex[x].type
               /\ tex'[x].count = tex[x].count + (S[x] - R[x])
    <3>1. x \in Handles /\ tex[x].count \in Int /\ R[x] \in Nat /\ S[x] \in Nat
      BY <1>3, <1>4, RecordNotNone, Fields
    <3>2. CASE x = h
      BY <1>5, <1>7, <3>1, <3>2
    <3>3. CASE x # h
      <4>1. S[x] - R[x] = 0
        BY <1>5, <3>1, <3>3
      <4> QED  BY <1>7, <3>1, <3>3, <4>1
    <3> QED  BY <3>2, <3>3
  <2>2. tex'[h].count = 0 <=> tex[h].count = 1
    <3>1. tex[h].count \in Int
      BY <1>3, RecordNotNone, Fields
    <3> QED  BY <1>7, <3>1
  <2>3. IF tex'[h].count = 0 THEN \E k \in Contexts \cup {None} : Keeping'[h] = {k}
        ELSE Keeping'[h] = {}
    BY <1>6, <2>2
  <2>4. \A x \in Handles \ {h} : S[x] = R[x]
    BY <1>3, <1>5
  <2> QED  BY <1>2, <1>3, <1>4, <1>6, <1>7, <2>1, <2>3, <2>4 DEF Recount
<1>9. Account(tex', S, Keeping', {})
  BY <1>3, <1>8, Recounted
<1>10. TypeOK'
  <2>1. txs' \in [Contexts -> [Slots -> Ids]]
    BY <1>2, SlotEmptied DEF Emptied
  <2>2. dels' \in [Contexts -> SUBSET Handles]
    BY <1>2
  <2> QED  BY <1>7, <2>1, <2>2 DEF IInv, TypeOK, Table, DropSlot
<1> QED  BY <1>1, <1>4, <1>7, <1>9, <1>10, StepKept DEF S

\* Those who keep a texture depend on the driver's state and on dels.
LEMMA SameKeepers ==
  ASSUME UNCHANGED << client, dels >> PROVE Keeping' = Keeping
<1>1. \A h \in Handles : Keepers(h)' = Keepers(h)
  BY DEF Keepers
<1> QED  BY <1>1 DEF Keeping

\* A token counts UNIT for each place that names a texture, which the driver owns.
LEMMA StepPutToken ==
  ASSUME IInv, NEW c \in Contexts, NEW token \in Tokens, PutToken(c, token)
  PROVE  IInv' /\ LinkStep
<1> DEFINE R == Outside(client, buffer, txs)
           S == Outside(client', buffer', txs')
           n(h) == Uses(token, h)
<1>1. SharedAlive /\ SharedAlive'
  BY DEF PutToken, SharedAlive
<1>2. /\ tex \in Table /\ R \in [Handles -> Nat] /\ Account(tex, R, Keeping, {})
      /\ \A h \in Handles : client[h] = "owned" => R[h] > 0
      /\ \A h \in Handles : R[h] > 0 => h \in Live(tex) /\ tex[h].count > 0 /\ Keeping[h] = {}
  BY <1>1, StateAccount
<1>3. /\ buffer' = [buffer EXCEPT ![c] = Append(@, token)]
      /\ buffer \in [Contexts -> Seq(Tokens)] /\ UNCHANGED << client, txs, dels >>
      /\ \A h \in Handles : n(h) > 0 => client[h] = "owned"
      /\ tex' = [h \in Handles |-> IF n(h) = 0 THEN tex[h]
                                   ELSE [tex[h] EXCEPT !.count = @ + n(h) * UNIT]]
  BY DEF PutToken, IInv, TypeOK
<1>4. \A h \in Handles : n(h) \in Nat
  BY PlacesFinite
<1>5. ASSUME NEW h \in Handles
      PROVE  /\ IsFiniteSet(InBuffers(buffer', h))
             /\ Cardinality(InBuffers(buffer', h)) = Cardinality(InBuffers(buffer, h)) + n(h)
             /\ Cardinality(InBuffers(buffer, h)) \in Nat
  <2>1. IsFiniteSet(InBuffers(buffer, h))
    BY DEF IInv, BuffersFinite
  <2>2. Cardinality(InBuffers(buffer, h)) \in Nat
    BY <2>1, FS_CardinalityType
  <2> QED  BY <1>3, <2>1, <2>2, TokenAdded
<1>6. BuffersFinite(buffer') /\ S \in [Handles -> Nat]
  <2>1. BuffersFinite(buffer')
    BY <1>5 DEF BuffersFinite
  <2> QED  BY <2>1, OutsideNat
<1> HIDE DEF n
<1>7. ASSUME NEW h \in Handles
      PROVE  S[h] = R[h] + UNIT * n(h) /\ UNIT * n(h) \in Nat /\ n(h) * UNIT = UNIT * n(h)
             /\ (n(h) > 0 => UNIT * n(h) > 0)
  <2> DEFINE k == -n(h)
             z == 0
  <2>1. /\ k \in Int /\ z \in Int
        /\ Cardinality(InBuffers(buffer, h)) = Cardinality(InBuffers(buffer', h)) + k
    BY <1>4, <1>5
  <2>2. Cardinality(InSlots(txs', h)) = Cardinality(InSlots(txs, h)) + z
    BY <1>3, SlotsFinite
  <2>3. UNIT * k = -(UNIT * n(h)) /\ UNIT * n(h) \in Nat /\ n(h) * UNIT = UNIT * n(h)
        /\ (n(h) > 0 => UNIT * n(h) > 0)
    BY <1>4, UnitNat
  <2> HIDE DEF k, z
  <2>4. S[h] = R[h] - UNIT * k + z
    BY <1>3, <1>6, <2>1, <2>2, OutsideStep
  <2>5. R[h] \in Nat
    BY <1>2
  <2> HIDE DEF R, S
  <2> QED  BY <2>3, <2>4, <2>5 DEF z
<1> HIDE DEF R, S
<1>8. Keeping' = Keeping
  BY <1>3, SameKeepers
<1>9. ASSUME NEW h \in Handles
      PROVE  /\ tex'[h] = None <=> tex[h] = None
             /\ tex'[h] \in TextureRecord \cup {None}
             /\ h \in Live(tex) => /\ tex'[h].agp = tex[h].agp /\ tex'[h].type = tex[h].type
                                   /\ tex'[h].count = tex[h].count + (S[h] - R[h])
             /\ n(h) > 0 => R[h] > 0 /\ Keeping[h] = {} /\ tex'[h].count # 0
  <2>1. n(h) \in Nat /\ R[h] \in Nat /\ S[h] \in Nat
    BY <1>2, <1>4, <1>6
  <2>2. CASE n(h) = 0
    <3>1. tex'[h] = tex[h]
      BY <1>3, <2>2
    <3>2. tex[h] \in TextureRecord \cup {None}
      BY <1>2 DEF Table
    <3>3. UNIT * 0 = 0
      BY UnitNat
    <3>4. S[h] - R[h] = 0
      BY <1>7, <2>1, <2>2, <3>3
    <3>5. h \in Live(tex) => tex[h].count \in Int
      BY <1>2, RecordNotNone, Fields
    <3> QED  BY <2>2, <3>1, <3>2, <3>4, <3>5
  <2>3. CASE n(h) # 0
    <3>1. n(h) > 0
      BY <2>1, <2>3
    <3>2. R[h] > 0 /\ h \in Live(tex) /\ tex[h].count > 0 /\ Keeping[h] = {}
      BY <1>2, <1>3, <3>1
    <3>3. tex[h] \in TextureRecord /\ tex[h] # None /\ tex[h].count \in Int
      BY <1>2, <3>2, RecordNotNone, Fields DEF Live
    <3>4. tex'[h] = [tex[h] EXCEPT !.count = tex[h].count + n(h) * UNIT]
      BY <1>3, <2>3
    <3>5. tex[h].count + n(h) * UNIT \in Int
      BY <1>7, <3>3
    <3>6. /\ tex'[h] \in TextureRecord /\ tex'[h].agp = tex[h].agp
          /\ tex'[h].type = tex[h].type /\ tex'[h].count = tex[h].count + n(h) * UNIT
      BY <3>3, <3>4, <3>5, Fields
    <3>7. S[h] = R[h] + UNIT * n(h) /\ UNIT * n(h) \in Nat /\ n(h) * UNIT = UNIT * n(h)
      BY <1>7
    <3>8. tex'[h].count = tex[h].count + (S[h] - R[h]) /\ tex'[h].count # 0
      BY <2>1, <3>2, <3>3, <3>6, <3>7
    <3> QED  BY <3>2, <3>3, <3>6, <3>8, RecordNotNone
  <2> QED  BY <2>2, <2>3
<1>10. tex' \in Table
  BY <1>3, <1>9 DEF Table
<1>11. Recount(tex, tex', R, S, Keeping, Keeping, {})
  <2>1. \A h \in Live(tex) : h \in Handles
    BY DEF Live
  <2>2. ASSUME NEW h \in Handles, n(h) = 0 PROVE S[h] = R[h]
    <3>1. UNIT * 0 = 0
      BY UnitNat
    <3> QED  BY <1>2, <1>7, <2>2, <3>1
  <2>3. ASSUME NEW h \in Handles
        PROVE  \/ S[h] = R[h] /\ Keeping[h] = Keeping[h] /\ h \notin {}
               \/ /\ R[h] > 0 \/ Keeping[h] # {}
                  /\ IF h \in {} THEN tex'[h].count = 0 /\ Keeping[h] = {}
                     ELSE IF tex'[h].count = 0
                          THEN \E k \in Contexts \cup {None} : Keeping[h] = {k}
                     ELSE Keeping[h] = {}
    <3>1. CASE n(h) = 0
      BY <2>2, <3>1
    <3>2. CASE n(h) > 0
      BY <1>9, <3>2
    <3> QED  BY <1>4, <3>1, <3>2
  <2> QED  BY <1>2, <1>6, <1>9, <1>10, <2>1, <2>3 DEF Recount
<1>12. Account(tex', S, Keeping', {})
  BY <1>2, <1>8, <1>11, Recounted
<1>13. TypeOK'
  <2>1. buffer' \in [Contexts -> Seq(Tokens)]
    BY <1>3
  <2> QED  BY <1>10, <2>1 DEF IInv, TypeOK, Table, PutToken
<1>14. \A h \in Handles : tex[h] = None => tex'[h] = None
  BY <1>9
<1> QED  BY <1>1, <1>6, <1>12, <1>13, <1>14, StepKept DEF S

\* A token is taken, and what it and the slots gave up is counted off.
LEMMA StepCountOff ==
  ASSUME IInv, SharedAlive, SharedAlive', UNCHANGED << client, dels >>,
         BuffersFinite(buffer'), NEW by \in [Handles -> Nat],
         \A h \in Handles : Outside(client', buffer', txs')[h]
                              = Outside(client, buffer, txs)[h] - by[h],
         tex' = CountOff(by), tex' \in Table => TypeOK'
  PROVE  IInv' /\ LinkStep
<1> DEFINE R == Outside(client, buffer, txs)
           S == Outside(client', buffer', txs')
<1>1. tex \in Table /\ R \in [Handles -> Nat] /\ Account(tex, R, Keeping, {})
  BY StateAccount
<1>2. S \in [Handles -> Nat]
  BY OutsideNat
<1>3. \A h \in Handles : S[h] = R[h] - by[h]
  OBVIOUS
<1> HIDE DEF R, S
<1>4. /\ CountOff(by) \in Table /\ Account(CountOff(by), S, Keeping, {})
      /\ \A h \in Handles : tex[h] = None => CountOff(by)[h] = None
  BY <1>1, <1>2, <1>3, CountedOff
<1>5. Keeping' = Keeping
  BY SameKeepers
<1>6. tex' \in Table /\ Account(tex', S, Keeping', {})
      /\ \A h \in Handles : tex[h] = None => tex'[h] = None
  BY <1>4, <1>5
<1> QED  BY <1>6, StepKept DEF S

\* What a token is.
LEMMA TokenIs ==
  ASSUME NEW t \in Tokens
  PROVE  /\ t.op = "bind" => /\ t.group \in Groups /\ t.ids \in [Units -> Ids]
                             /\ \A h : Places(t, h) = {u \in Units : t.ids[u] = h}
         /\ t.op = "release" => /\ t.id \in Handles
                                /\ \A h : Uses(t, h) = IF h = t.id THEN 1 ELSE 0
         /\ t.op = "noTex" => t.slot \in Slots /\ \A h : Uses(t, h) = 0
         /\ t.op = "unbind" => t.group \in Fbos /\ \A h : Uses(t, h) = 0
<1>1. ASSUME t.op = "bind"
      PROVE  /\ t.group \in Groups /\ t.ids \in [Units -> Ids]
             /\ \A h : Places(t, h) = {u \in Units : t.ids[u] = h}
  BY <1>1 DEF Tokens, Places
<1>2. ASSUME t.op = "release"
      PROVE  t.id \in Handles /\ \A h : Uses(t, h) = IF h = t.id THEN 1 ELSE 0
  <2>1. t.id \in Handles /\ \A h : Places(t, h) = {h} \cap {t.id}
    BY <1>2 DEF Tokens, Places
  <2>2. ASSUME NEW h PROVE Places(t, h) = IF h = t.id THEN {h} ELSE {}
    <3>1. Places(t, h) = {h} \cap {t.id}
      BY <2>1
    <3>2. {h} \cap {t.id} = IF h = t.id THEN {h} ELSE {}
      OBVIOUS
    <3> QED  BY <3>1, <3>2
  <2>3. Cardinality({}) = 0 /\ \A h : Cardinality({h}) = 1
    BY FS_EmptySet, FS_Singleton
  <2> QED  BY <2>1, <2>2, <2>3 DEF Uses
<1>3. ASSUME t.op = "noTex"
      PROVE  t.slot \in Slots /\ \A h : Uses(t, h) = 0
  <2>1. t.slot \in Slots /\ \A h : Places(t, h) = {}
    BY <1>3 DEF Tokens, Places, Slots, Groups
  <2> QED  BY <2>1, FS_EmptySet DEF Uses
<1>4. ASSUME t.op = "unbind"
      PROVE  t.group \in Fbos /\ \A h : Uses(t, h) = 0
  <2>1. t.group \in Fbos /\ \A h : Places(t, h) = {}
    BY <1>4 DEF Tokens, Places
  <2> QED  BY <2>1, FS_EmptySet DEF Uses
<1> QED  BY <1>1, <1>2, <1>3, <1>4

\* Taking a token from a buffer.
LEMMA TokenStep ==
  ASSUME IInv, NEW c \in Contexts, process_token(c)
  PROVE  /\ Head(buffer[c]) \in Tokens /\ SharedAlive /\ SharedAlive'
         /\ UNCHANGED << client, error, pc, dels, open, lock >>
         /\ buffer' \in [Contexts -> Seq(Tokens)] /\ BuffersFinite(buffer')
         /\ \A h \in Handles :
              /\ Uses(Head(buffer[c]), h) \in Nat
              /\ Cardinality(InBuffers(buffer, h))
                   = Cardinality(InBuffers(buffer', h)) + Uses(Head(buffer[c]), h)
<1>1. /\ buffer' = [buffer EXCEPT ![c] = Tail(@)] /\ buffer[c] # << >> /\ pc[c] = "process"
      /\ buffer \in [Contexts -> Seq(Tokens)]
      /\ UNCHANGED << client, error, pc, dels, open, lock >>
  BY DEF process_token, IInv, TypeOK
<1>2. Head(buffer[c]) \in Tokens /\ Tail(buffer[c]) \in Seq(Tokens)
  <2>1. buffer[c] \in Seq(Tokens)
    BY <1>1
  <2> HIDE DEF Tokens
  <2> QED  BY <1>1, <2>1
<1>3. SharedAlive /\ SharedAlive'
  BY <1>1 DEF SharedAlive, Closed
<1>4. buffer' \in [Contexts -> Seq(Tokens)]
  BY <1>1, <1>2
<1>5. ASSUME NEW h \in Handles
      PROVE  /\ IsFiniteSet(InBuffers(buffer', h)) /\ Uses(Head(buffer[c]), h) \in Nat
             /\ Cardinality(InBuffers(buffer, h))
                  = Cardinality(InBuffers(buffer', h)) + Uses(Head(buffer[c]), h)
  <2>1. IsFiniteSet(InBuffers(buffer, h))
    BY DEF IInv, BuffersFinite
  <2>2. Uses(Head(buffer[c]), h) \in Nat
    BY <1>2, PlacesFinite
  <2> QED  BY <1>1, <2>1, <2>2, TokenTaken
<1>6. BuffersFinite(buffer')
  BY <1>5 DEF BuffersFinite
<1> QED  BY <1>1, <1>2, <1>3, <1>4, <1>5, <1>6

\* The slots of a group change hands while a token that counts k(h) is taken.
LEMMA StepSetSlots ==
  ASSUME IInv, NEW c \in Contexts, process_token(c), NEW g \in Groups,
         NEW ids \in [Units -> Ids], SetSlots(c, g, ids),
         fbo' \in [Contexts -> SUBSET Fbos],
         \A h \in Handles : Uses(Head(buffer[c]), h) = Cardinality(Naming(ids, h))
  PROVE  IInv' /\ LinkStep
<1> DEFINE R == Outside(client, buffer, txs)
           S == Outside(client', buffer', txs')
           k(h) == Uses(Head(buffer[c]), h)
           b(h) == Cardinality(Held(txs, c, OfGroup(g), h))
           by == [h \in Handles |-> b(h) + (UNIT - 1) * k(h)]
<1>1. /\ UNCHANGED << client, dels >> /\ BuffersFinite(buffer') /\ SharedAlive /\ SharedAlive'
      /\ \A h \in Handles : k(h) \in Nat
      /\ \A h \in Handles : Cardinality(InBuffers(buffer, h))
                              = Cardinality(InBuffers(buffer', h)) + k(h)
  BY TokenStep
<1>2. tex' = CountOff(by)
  <2>1. tex' = CountOff([h \in Handles |->
                  Bound(c, {g} \X Units, h)
                    + (UNIT - 1) * Cardinality(Naming(ids, h))])
    BY DEF SetSlots, Naming
  <2>2. \A h \in Handles : Bound(c, {g} \X Units, h) = b(h)
    BY DEF Bound, Held, OfGroup
  <2>3. \A h \in Handles : Cardinality(Naming(ids, h)) = k(h)
    OBVIOUS
  <2> HIDE DEF b, k
  <2>4. [h \in Handles |-> Bound(c, {g} \X Units, h)
           + (UNIT - 1) * Cardinality(Naming(ids, h))] = by
    BY <2>2, <2>3
  <2> QED  BY <2>1, <2>4
<1>3. /\ txs \in [Contexts -> [Slots -> Ids]]
      /\ txs' = Regrouped(txs, c, g, ids)
  BY DEF SetSlots, IInv, TypeOK, Regrouped
<1>4. ASSUME NEW h \in Handles
      PROVE  /\ Cardinality(InSlots(txs', h)) = Cardinality(InSlots(txs, h)) - b(h) + k(h)
             /\ b(h) \in Nat /\ txs' \in [Contexts -> [Slots -> Ids]]
  <2>1. /\ Cardinality(InSlots(Regrouped(txs, c, g, ids), h)) = Cardinality(InSlots(txs, h))
             - Cardinality(Held(txs, c, OfGroup(g), h)) + Cardinality(Naming(ids, h))
        /\ Cardinality(Held(txs, c, OfGroup(g), h)) \in Nat
        /\ Regrouped(txs, c, g, ids) \in [Contexts -> [Slots -> Ids]]
    BY <1>3, GroupBound
  <2>2. Cardinality(Naming(ids, h)) = k(h)
    OBVIOUS
  <2> QED  BY <1>3, <2>1, <2>2
<1> HIDE DEF k, b
<1>5. ASSUME NEW h \in Handles
      PROVE  (UNIT - 1) * k(h) \in Nat /\ (UNIT - 1) * k(h) = UNIT * k(h) - k(h)
             /\ UNIT * k(h) \in Nat
  BY <1>1, UnitNat
<1>6. by \in [Handles -> Nat]
  BY <1>4, <1>5
<1>7. ASSUME NEW h \in Handles PROVE S[h] = R[h] - by[h]
  <2> DEFINE m == k(h) - b(h)
  <2>1. k(h) \in Nat /\ b(h) \in Nat /\ Cardinality(InSlots(txs, h)) \in Nat
    BY <1>1, <1>4, SlotsFinite
  <2>2. m \in Int /\ k(h) \in Int
        /\ Cardinality(InSlots(txs', h)) = Cardinality(InSlots(txs, h)) + m
    BY <1>4, <2>1
  <2>3. by[h] = b(h) + (UNIT - 1) * k(h)
    OBVIOUS
  <2>4. R[h] \in Nat
    BY <1>1, StateAccount
  <2> HIDE DEF m, by
  <2>5. Cardinality(InBuffers(buffer, h)) = Cardinality(InBuffers(buffer', h)) + k(h)
    BY <1>1
  <2>6. S[h] = R[h] - UNIT * k(h) + m
    BY <1>1, <2>2, <2>5, OutsideStep
  <2> HIDE DEF R, S
  <2>7. m = k(h) - b(h)
    BY DEF m
  <2> QED  BY <1>5, <2>1, <2>3, <2>6, <2>4, <2>7
<1>8. txs' \in [Contexts -> [Slots -> Ids]]
  <2>1. 1 \in Handles
    BY TexturesAssumption DEF Handles
  <2> QED  BY <1>4, <2>1
<1>9. tex' \in Table => TypeOK'
  BY <1>8, TokenStep DEF IInv, TypeOK, Table
<1> HIDE DEF by
<1>10. \A h \in Handles : Outside(client', buffer', txs')[h]
                           = Outside(client, buffer, txs)[h] - by[h]
  BY <1>7
<1> QED  BY <1>1, <1>2, <1>6, <1>9, <1>10, StepCountOff

\* A bind token: the references of the token become those of the slots.
LEMMA StepBind ==
  ASSUME IInv, NEW c \in Contexts, process_token(c), process_bind(c, Head(buffer[c]))
  PROVE  IInv' /\ LinkStep
<1> DEFINE t == Head(buffer[c])
<1>1. t \in Tokens /\ t.op = "bind"
  BY TokenStep DEF process_bind
<1>2. /\ t.group \in Groups /\ t.ids \in [Units -> Ids]
      /\ \A h : Places(t, h) = {u \in Units : t.ids[u] = h}
  BY <1>1, TokenIs
<1>3. \A h \in Handles : Uses(t, h) = Cardinality(Naming(t.ids, h))
  BY <1>2 DEF Uses, Naming
<1>4. SetSlots(c, t.group, t.ids)
  BY DEF process_bind
<1>5. fbo' \in [Contexts -> SUBSET Fbos]
  BY DEF process_bind, IInv, TypeOK
<1> HIDE DEF t
<1>6. \A h \in Handles : Uses(Head(buffer[c]), h) = Cardinality(Naming(t.ids, h))
  BY <1>3 DEF t
<1> QED  BY <1>2, <1>4, <1>5, <1>6, StepSetSlots

\* An unbind token: the slots are emptied, unless there is no frame buffer.
LEMMA StepUnbind ==
  ASSUME IInv, NEW c \in Contexts, process_token(c), process_unbind(c, Head(buffer[c]))
  PROVE  IInv' /\ LinkStep
<1> DEFINE t == Head(buffer[c])
<1>1. t \in Tokens /\ t.op = "unbind"
  BY TokenStep DEF process_unbind
<1>2. t.group \in Groups /\ \A h \in Handles : Uses(t, h) = 0
  BY <1>1, TokenIs DEF Groups
<1>3. fbo' \in [Contexts -> SUBSET Fbos]
  BY DEF process_unbind, IInv, TypeOK
<1>4. CASE t.group \in fbo[c]
  <2>1. SetSlots(c, t.group, NoIds)
    BY <1>4 DEF process_unbind
  <2>2. NoIds \in [Units -> Ids]
    BY DEF NoIds, Ids
  <2>3. ASSUME NEW h \in Handles
        PROVE  Uses(Head(buffer[c]), h) = Cardinality(Naming(NoIds, h))
    <3>1. Naming(NoIds, h) = {}
      BY RecordNotNone DEF NoIds, Naming
    <3> QED  BY <1>2, <3>1, FS_EmptySet
  <2> HIDE DEF t
  <2> QED  BY <1>2, <1>3, <2>1, <2>2, <2>3, StepSetSlots
<1>5. CASE t.group \notin fbo[c]
  <2>1. UNCHANGED << tex, txs >>
    BY <1>5 DEF process_unbind
  <2>2. /\ UNCHANGED << client, dels >> /\ BuffersFinite(buffer') /\ SharedAlive /\ SharedAlive'
        /\ \A h \in Handles : Cardinality(InBuffers(buffer, h))
                                = Cardinality(InBuffers(buffer', h)) + Uses(t, h)
    BY TokenStep
  <2>3. ASSUME NEW h \in Handles
        PROVE  Cardinality(InBuffers(buffer, h)) = Cardinality(InBuffers(buffer', h))
    <3>1. Cardinality(InBuffers(buffer', h)) \in Nat
      BY <2>2, FS_CardinalityType DEF BuffersFinite
    <3> QED  BY <1>2, <2>2, <3>1
  <2>4. Outside(client', buffer', txs') = Outside(client, buffer, txs)
    <3>1. Outside(client', buffer', txs') = Outside(client, buffer', txs)
      BY <2>1, <2>2
    <3> QED  BY <2>3, <3>1 DEF Outside
  <2>5. Keeping' = Keeping
    BY <2>2, SameKeepers
  <2>6. TypeOK'
    BY <1>3, <2>1, TokenStep DEF IInv, TypeOK
  <2>7. Account(tex', Outside(client', buffer', txs'), Keeping', {})
    BY <2>1, <2>2, <2>4, <2>5, StateAccount
  <2> QED  BY <2>1, <2>2, <2>6, <2>7, StepKept
<1> QED  BY <1>4, <1>5

\* A release token gives up its own reference.
LEMMA StepRelease ==
  ASSUME IInv, NEW c \in Contexts, process_token(c), process_release(c, Head(buffer[c]))
  PROVE  IInv' /\ LinkStep
<1> DEFINE t == Head(buffer[c])
           by == [h \in Handles |-> IF h = t.id THEN UNIT ELSE 0]
<1>1. t \in Tokens /\ t.op = "release"
  BY TokenStep DEF process_release
<1>2. t.id \in Handles /\ \A h : Uses(t, h) = IF h = t.id THEN 1 ELSE 0
  BY <1>1, TokenIs
<1>3. tex' = CountOff(by) /\ UNCHANGED << txs, fbo >>
  BY DEF process_release
<1>4. by \in [Handles -> Nat]
  BY UnitNat
<1>5. /\ UNCHANGED << client, dels >> /\ BuffersFinite(buffer') /\ SharedAlive /\ SharedAlive'
      /\ \A h \in Handles : Cardinality(InBuffers(buffer, h))
                              = Cardinality(InBuffers(buffer', h)) + Uses(t, h)
  BY TokenStep
<1> HIDE DEF t
<1>6. ASSUME NEW h \in Handles
      PROVE  Outside(client', buffer', txs')[h] = Outside(client, buffer, txs)[h] - by[h]
  <2> DEFINE k == Uses(t, h)
             z == 0
             R == Outside(client, buffer, txs)[h]
             S == Outside(client', buffer', txs')[h]
  <2>1. k = (IF h = t.id THEN 1 ELSE 0) /\ by[h] = IF h = t.id THEN UNIT ELSE 0
    BY <1>2
  <2>2. UNIT * k = by[h] /\ k \in Int /\ by[h] \in Int
    <3>1. UNIT * 1 = UNIT /\ UNIT * 0 = 0 /\ UNIT \in Int
      BY UnitNat
    <3> HIDE DEF k, by
    <3> QED  BY <2>1, <3>1
  <2>3. Cardinality(InSlots(txs', h)) = Cardinality(InSlots(txs, h)) + z /\ z \in Int
    BY <1>3, SlotsFinite
  <2>4. Cardinality(InBuffers(buffer, h)) = Cardinality(InBuffers(buffer', h)) + k
    BY <1>5
  <2>5. R \in Nat
    BY <1>5, StateAccount
  <2> HIDE DEF k, z, by
  <2>6. S = R - UNIT * k + z
    BY <1>5, <2>2, <2>3, <2>4, OutsideStep
  <2> HIDE DEF R, S
  <2>7. S = R - by[h]
    BY <2>2, <2>5, <2>6 DEF z
  <2> QED  BY <2>7 DEF R, S
<1>7. tex' \in Table => TypeOK'
  BY <1>3, TokenStep DEF IInv, TypeOK, Table
<1> HIDE DEF by
<1> QED  BY <1>3, <1>4, <1>5, <1>6, <1>7, StepCountOff

\* A token that clears one slot.
LEMMA StepNoTex ==
  ASSUME IInv, NEW c \in Contexts, process_token(c), process_NoTex(c, Head(buffer[c]))
  PROVE  IInv' /\ LinkStep
<1> DEFINE t == Head(buffer[c])
           e == t.slot
           b(h) == Cardinality(Held(txs, c, {e}, h))
           by == [h \in Handles |-> b(h)]
<1>1. t \in Tokens /\ t.op = "noTex"
  BY TokenStep DEF process_NoTex
<1>2. e \in Slots /\ \A h : Uses(t, h) = 0
  BY <1>1, TokenIs
<1>3. /\ tex' = CountOff(by) /\ txs' = Emptied(txs, c, e) /\ UNCHANGED fbo
      /\ txs \in [Contexts -> [Slots -> Ids]]
  <2>1. tex' = CountOff([h \in Handles |-> Bound(c, {t.slot}, h)])
    BY DEF process_NoTex
  <2>2. \A h \in Handles : Bound(c, {t.slot}, h) = b(h)
    BY DEF Bound, Held
  <2>3. [h \in Handles |-> Bound(c, {t.slot}, h)] = by
    BY <2>2
  <2> QED  BY <2>1, <2>3 DEF process_NoTex, Emptied, IInv, TypeOK
<1>4. /\ UNCHANGED << client, dels >> /\ BuffersFinite(buffer') /\ SharedAlive /\ SharedAlive'
      /\ \A h \in Handles : Cardinality(InBuffers(buffer, h))
                              = Cardinality(InBuffers(buffer', h)) + Uses(t, h)
  BY TokenStep
<1> HIDE DEF t, e
<1>5. ASSUME NEW h \in Handles
      PROVE  /\ b(h) \in Nat
             /\ Cardinality(InSlots(txs', h)) = Cardinality(InSlots(txs, h)) - b(h)
             /\ txs' \in [Contexts -> [Slots -> Ids]]
  <2>1. /\ Cardinality(Held(txs, c, {e}, h)) = (IF txs[c][e] = h THEN 1 ELSE 0)
        /\ Cardinality(InSlots(Emptied(txs, c, e), h))
             = Cardinality(InSlots(txs, h)) - Cardinality(Held(txs, c, {e}, h))
        /\ Emptied(txs, c, e) \in [Contexts -> [Slots -> Ids]]
    BY <1>2, <1>3, SlotEmptied
  <2> QED  BY <1>3, <2>1
<1> HIDE DEF b
<1>6. by \in [Handles -> Nat]
  BY <1>5
<1>7. ASSUME NEW h \in Handles
      PROVE  Outside(client', buffer', txs')[h] = Outside(client, buffer, txs)[h] - by[h]
  <2> DEFINE m == -b(h)
             z == 0
             R == Outside(client, buffer, txs)[h]
             S == Outside(client', buffer', txs')[h]
  <2>1. Cardinality(InSlots(txs, h)) \in Nat
    BY SlotsFinite
  <2>2. m \in Int /\ Cardinality(InSlots(txs', h)) = Cardinality(InSlots(txs, h)) + m
    BY <1>5, <2>1
  <2>3. Cardinality(InBuffers(buffer, h)) = Cardinality(InBuffers(buffer', h)) + z /\ z \in Int
    BY <1>2, <1>4
  <2>4. R \in Nat
    BY <1>4, StateAccount
  <2>5. UNIT * z = 0 /\ by[h] = b(h) /\ b(h) \in Int /\ m = -b(h)
    BY <1>5, UnitNat
  <2> HIDE DEF m, z, by
  <2>6. S = R - UNIT * z + m
    BY <1>4, <2>2, <2>3, OutsideStep
  <2> HIDE DEF R, S
  <2>7. S = R - by[h]
    BY <2>4, <2>5, <2>6
  <2> QED  BY <2>7 DEF R, S
<1>8. txs' \in [Contexts -> [Slots -> Ids]]
  <2>1. 1 \in Handles
    BY TexturesAssumption DEF Handles
  <2> QED  BY <1>5, <2>1
<1>9. tex' \in Table => TypeOK'
  BY <1>3, <1>8, TokenStep DEF IInv, TypeOK, Table
<1> HIDE DEF by
<1> QED  BY <1>3, <1>4, <1>6, <1>7, <1>9, StepCountOff

\* A token of any kind.
LEMMA StepToken ==
  ASSUME IInv, NEW c \in Contexts, process_token(c)
  PROVE  IInv' /\ LinkStep
<1>1. \/ process_bind(c, Head(buffer[c])) \/ process_release(c, Head(buffer[c]))
      \/ process_NoTex(c, Head(buffer[c])) \/ process_unbind(c, Head(buffer[c]))
  BY DEF process_token
<1> QED  BY <1>1, StepBind, StepRelease, StepNoTex, StepUnbind

-----------------------------------------------------------------------------
(***************************************************************************)
(* Making textures.                                                        *)
(***************************************************************************)
\* A set of natural numbers has a least element.
LEMMA NatLeast ==
  ASSUME NEW T, T \subseteq Nat, T # {}
  PROVE  \E x \in T : \A y \in T : x <= y
<1> DEFINE R == OpToRel(<, Nat)
<1>1. IsWellFoundedOn(R, Nat)
  BY NatLessThanWellFounded
<1>2. R = {ss \in Nat \X Nat : ss[1] < ss[2]}
  BY Zenon DEF OpToRel
<1> HIDE DEF R
<1>3. \E x \in T : \A y \in T : ~(<< y, x >> \in R)
  BY <1>1, WFMin
<1>4. \A x \in T, y \in T : ~(<< y, x >> \in R) => x <= y
  BY <1>2
<1> QED  BY <1>3, <1>4

\* The handle of a new texture is a free one.
LEMMA FreeHandle ==
  ASSUME NEW T, NEW r, NEW U \in common_texture_init(T, r)
  PROVE  /\ Min(Free(T)) \in Handles /\ T[Min(Free(T))] = None
         /\ U = Put(T, Min(Free(T)), r)
<1>1. Free(T) # {} /\ U = [T EXCEPT ![Min(Free(T))] = r]
  <2>1. U \in IF Free(T) = {} THEN {} ELSE {[T EXCEPT ![Min(Free(T))] = r]}
    BY DEF common_texture_init
  <2> HIDE DEF Free, Min
  <2> QED  BY <2>1
<1>2. Free(T) \subseteq Nat
  BY TexturesAssumption DEF Free, Handles
<1>3. \E x \in Free(T) : \A y \in Free(T) : x <= y
  BY <1>1, <1>2, NatLeast
<1>4. Min(Free(T)) \in Free(T)
  <2> HIDE DEF Free
  <2> QED  BY <1>3 DEF Min
<1> QED  BY <1>1, <1>4 DEF Free, Live, Put

\* The driver has the texture that a call made.
LEMMA AnsweredStep ==
  ASSUME IInv, SharedAlive, NEW h \in Handles, tex[h] = None, Answered(h),
         UNCHANGED << buffer, txs, dels >>
  PROVE  /\ BuffersFinite(buffer')
         /\ Outside(client', buffer', txs') = Outside(client, buffer, txs)
         /\ Keeping'[h] = {None} /\ \A x \in Handles \ {h} : Keeping'[x] = Keeping[x]
         /\ client' \in [Handles -> {"none", "returned", "owned", "deleting"}]
<1>1. /\ client' = [client EXCEPT ![h] = "returned"]
      /\ client \in [Handles -> {"none", "returned", "owned", "deleting"}]
  BY DEF Answered, IInv, TypeOK
<1>2. h \notin Live(tex)
  BY DEF Live
<1>3. client[h] # "owned" /\ Keeping[h] = {}
  BY <1>2, StateAccount
<1>4. \A x \in Handles :
        /\ Keeping[x] = {c \in Contexts : x \in dels[c]}
             \cup (IF client[x] \in {"returned", "deleting"} THEN {None} ELSE {})
        /\ Keeping'[x] = {c \in Contexts : x \in dels[c]}
             \cup (IF client'[x] \in {"returned", "deleting"} THEN {None} ELSE {})
  BY KeepingNext, StateAccount
<1>5. Keeping'[h] = {None}
  <2>1. {c \in Contexts : h \in dels[c]} = {}
    BY <1>3, <1>4
  <2>2. client'[h] = "returned"
    BY <1>1
  <2> QED  BY <1>4, <2>1, <2>2
<1>6. \A x \in Handles \ {h} : Keeping'[x] = Keeping[x]
  <2>1. \A x \in Handles \ {h} : client'[x] = client[x]
    BY <1>1
  <2> QED  BY <1>4, <2>1
<1>7. Outside(client', buffer', txs') = Outside(client, buffer, txs)
  <2>1. \A x \in Handles : client'[x] = "owned" <=> client[x] = "owned"
    BY <1>1, <1>3
  <2>2. Outside(client', buffer', txs') = Outside(client', buffer, txs)
    OBVIOUS
  <2>3. Outside(client', buffer, txs) = Outside(client, buffer, txs)
    BY <2>1 DEF Outside
  <2> QED  BY <2>2, <2>3
<1>8. BuffersFinite(buffer')
  BY DEF IInv
<1>9. client' \in [Handles -> {"none", "returned", "owned", "deleting"}]
  BY <1>1
<1> QED  BY <1>5, <1>6, <1>7, <1>8, <1>9

\* What is new in a texture.
LEMMA NewRecord ==
  ASSUME NEW type \in Unlinked \cup Linked \cup {"AGP"}, NEW agp \in Ids,
         NEW addr \in Addrs \cup {None}
  PROVE  /\ Texture(type, agp, addr) \in TextureRecord
         /\ Texture(type, agp, addr).type = type /\ Texture(type, agp, addr).agp = agp
         /\ Texture(type, agp, addr).count = 0 /\ ~Texture(type, agp, addr).stale
  BY DEF Texture, TextureRecord

\* new_texture for a type without a link: the call has the only hold on the texture.
LEMMA StepNewTexture ==
  ASSUME IInv, NEW type \in Unlinked, new_texture(type)
  PROVE  IInv' /\ LinkStep
<1> DEFINE R == Outside(client, buffer, txs)
           h == Min(Free(tex))
           r == Texture(type, None, None)
<1>1. SharedAlive /\ SharedAlive'
  BY DEF new_texture, SharedAlive
<1>2. /\ tex \in Table /\ R \in [Handles -> Nat] /\ Account(tex, R, Keeping, {})
  BY <1>1, StateAccount
<1>3. PICK T \in common_texture_init(tex, r) : tex' = T /\ Answered(h)
  BY DEF new_texture
<1>4. h \in Handles /\ tex[h] = None /\ tex' = Put(tex, h, r)
  BY <1>3, FreeHandle
<1>5. r \in TextureRecord /\ r.type # "AGP" /\ r.agp = None /\ r.count = 0
  <2>1. type \in Unlinked \cup Linked \cup {"AGP"} /\ None \in Ids /\ None \in Addrs \cup {None}
    BY DEF Ids
  <2>2. r \in TextureRecord /\ r.type = type /\ r.agp = None /\ r.count = 0
    BY <2>1, NewRecord
  <2>3. type # "AGP"
    BY TexturesAssumption
  <2> HIDE DEF r
  <2> QED  BY <2>2, <2>3
<1> HIDE DEF h, r
<1>6. UNCHANGED << buffer, txs, dels >>
  BY DEF new_texture, contextVars
<1>7. /\ BuffersFinite(buffer') /\ Outside(client', buffer', txs') = R
      /\ Keeping'[h] = {None} /\ \A x \in Handles \ {h} : Keeping'[x] = Keeping[x]
      /\ client' \in [Handles -> {"none", "returned", "owned", "deleting"}]
  BY <1>1, <1>3, <1>4, <1>6, AnsweredStep
<1> HIDE DEF R
<1>8. tex' \in Table /\ Account(tex', R, Keeping', {})
  <2> DEFINE J == Keeping'
             D == {}
  <2>1. J[h] = {None} /\ \A x \in Handles \ {h} : J[x] = Keeping[x]
    BY <1>7
  <2>2. D = {} /\ Account(tex, R, Keeping, {})
    BY <1>2
  <2> HIDE DEF J, D
  <2>3. /\ Put(tex, h, r) \in Table
        /\ Account(Put(tex, h, r), R, J, D)
    <3>1. Making(tex, R, Keeping, J, D, h, r)
      BY <1>2, <1>4, <1>5, <2>1, <2>2 DEF Making
    <3> QED  BY <3>1, Created
  <2> QED  BY <1>4, <2>3 DEF J, D
<1>9. TypeOK'
  BY <1>7, <1>8 DEF IInv, TypeOK, Table, new_texture, contextVars
<1>10. LinkStep
  <2> SUFFICES ASSUME NEW x \in Handles, tex[x] = None, tex'[x] # None, tex'[x].agp # None
               PROVE  FALSE
    BY DEF LinkStep, Live
  <2>1. x = h /\ tex'[h] = r
    BY <1>2, <1>4 DEF Table, Put
  <2> QED  BY <1>5, <2>1
<1>11. Account(tex', Outside(client', buffer', txs'), Keeping', {})
  BY <1>7, <1>8
<1> QED  BY <1>1, <1>7, <1>9, <1>10, <1>11 DEF IInv

\* Marking what was found and is no longer the memory.
LEMMA Marked ==
  ASSUME tex \in Table, NEW R \in [Handles -> Nat], NEW K, Account(tex, R, K, {}), NEW addr
  PROVE  /\ Mark(addr) \in Table /\ Account(Mark(addr), R, K, {})
         /\ \A h \in Handles : Mark(addr)[h] = None <=> tex[h] = None
<1> DEFINE P(h) == h \in Found(addr) /\ ~SameMemory(h)
           M == Mark(addr)
<1>1. M = [h \in Handles |-> IF P(h) THEN [tex[h] EXCEPT !.mem_changed = TRUE] ELSE tex[h]]
  BY DEF Mark
<1>2. \A h \in Handles : P(h) => h \in Live(tex)
  BY DEF Found, Agp
<1> HIDE DEF P, M
<1>3. ASSUME NEW h \in Live(tex)
      PROVE  /\ M[h] \in TextureRecord /\ M[h].agp = tex[h].agp
             /\ M[h].type = tex[h].type /\ M[h].count = tex[h].count
  <2>1. h \in Handles /\ tex[h] \in TextureRecord
    BY RecordNotNone
  <2>2. M[h] = [tex[h] EXCEPT !.mem_changed = TRUE] \/ M[h] = tex[h]
    BY <1>1, <2>1
  <2> QED  BY <2>1, <2>2 DEF TextureRecord
<1>4. \A h \in Handles : h \notin Live(tex) => M[h] = None /\ tex[h] = None
  BY <1>1, <1>2 DEF Live
<1>5. \A h \in Handles : M[h] = None <=> tex[h] = None
  <2>1. ASSUME NEW h \in Handles PROVE M[h] = None <=> tex[h] = None
    BY <1>3, <1>4, RecordNotNone DEF Live
  <2> QED  BY <2>1
<1>6. M \in Table
  <2>1. \A h \in Handles : M[h] \in TextureRecord \cup {None}
    BY <1>3, <1>4
  <2> QED  BY <1>1, <2>1 DEF Table
<1>7. Account(M, R, K, {})
  BY <1>3, <1>5, <1>6, Flagged
<1> QED  BY <1>5, <1>6, <1>7 DEF M

\* What new_agp_texture answers: no texture, or an AGP texture a of the table T that
\* is current.  It is new exactly if its count is 0.
AgpAnswer(T, a, R, K) ==
  /\ T \in Table
  /\ \A x \in Handles : (T[x] = None => tex[x] = None) /\ (tex[x] = None /\ x # a => T[x] = None)
  /\ a = None => Account(T, R, K, {})
  /\ a # None =>
       /\ a \in Live(T) /\ T[a].type = "AGP" /\ ~T[a].stale
       /\ Account(T, R, K, IF T[a].count = 0 THEN {a} ELSE {})
       /\ tex[a] = None => T[a].count = 0

\* An AGP texture that was there is linked to.
LEMMA FoundLinked ==
  ASSUME NEW T, NEW R, NEW K, Account(T, R, K, {}), NEW a \in Live(T), T[a].type = "AGP"
  PROVE  T[a].count # 0
<1>1. K[a] = {}
  BY DEF Account, AgpInv
<1>2. T[a].count = 0 => \E k \in Contexts \cup {None} : K[a] = {k}
  BY DEF Account, OneInv
<1> QED  BY <1>1, <1>2

\* What new_agp_texture answers is such an answer, whichever way it took.
LEMMA NewAgp ==
  ASSUME tex \in Table, NEW R \in [Handles -> Nat], NEW K, Account(tex, R, K, {}),
         NEW addr \in Addrs \cup {None}, NEW r \in new_agp_texture(addr)
  PROVE  AgpAnswer(r.T, r.agp, R, K)
<1> DEFINE T == IF addr = None THEN tex ELSE Mark(addr)
           n == Texture("AGP", None, addr)
<1>1. \/ \E a \in Found(addr) : SameMemory(a) /\ r = [T |-> tex, agp |-> a]
      \/ r = [T |-> T, agp |-> None]
      \/ \E U \in common_texture_init(T, n) : r = [T |-> U, agp |-> Min(Free(T))]
  <2> HIDE DEF n
  <2>1. CASE addr # None /\ \E a \in Found(addr) : SameMemory(a)
    BY <2>1 DEF new_agp_texture
  <2>2. CASE ~(addr # None /\ \E a \in Found(addr) : SameMemory(a))
    BY <2>2 DEF new_agp_texture, n
  <2> QED  BY <2>1, <2>2
<1>2. /\ T \in Table /\ Account(T, R, K, {})
      /\ \A h \in Handles : T[h] = None <=> tex[h] = None
  BY Marked
<1> HIDE DEF T
<1>3. ASSUME NEW a \in Found(addr), SameMemory(a), r = [T |-> tex, agp |-> a]
      PROVE  AgpAnswer(r.T, r.agp, R, K)
  <2>1. r.T = tex /\ r.agp = a
    BY <1>3
  <2>2. a \in Live(tex) /\ tex[a].type = "AGP" /\ ~tex[a].stale
    BY <1>3 DEF Found, Agp, SameMemory
  <2>3. tex[a].count # 0
    BY <2>2, FoundLinked
  <2>4. a # None /\ tex[a] # None
    BY <2>2, RecordNotNone DEF Live
  <2> QED  BY <2>1, <2>2, <2>3, <2>4 DEF AgpAnswer
<1>4. ASSUME r = [T |-> T, agp |-> None]
      PROVE  AgpAnswer(r.T, r.agp, R, K)
  <2>1. r.T = T /\ r.agp = None
    BY <1>4
  <2> QED  BY <1>2, <2>1 DEF AgpAnswer
<1>5. ASSUME NEW U \in common_texture_init(T, n), r = [T |-> U, agp |-> Min(Free(T))]
      PROVE  AgpAnswer(r.T, r.agp, R, K)
  <2> DEFINE a == Min(Free(T))
             D == {a}
  <2>1. a \in Handles /\ T[a] = None /\ U = Put(T, a, n)
    BY FreeHandle
  <2>2. r.T = U /\ r.agp = a
    BY <1>5
  <2> HIDE DEF a
  <2>3. /\ n \in TextureRecord /\ n.type = "AGP" /\ n.agp = None /\ n.count = 0
        /\ ~n.stale
    <3>1. "AGP" \in Unlinked \cup Linked \cup {"AGP"} /\ None \in Ids
      BY DEF Ids
    <3> QED  BY <3>1, NewRecord
  <2> HIDE DEF n
  <2>4. K[a] = {}
    BY <1>2, <2>1 DEF Account, DeadInv
  <2>5. U \in Table /\ Account(U, R, K, D)
    <3>1. Making(T, R, K, K, D, a, n)
      BY <1>2, <2>1, <2>3, <2>4 DEF Making
    <3> HIDE DEF D
    <3>2. Put(T, a, n) \in Table /\ Account(Put(T, a, n), R, K, D)
      BY <3>1, Created
    <3> QED  BY <2>1, <3>2
  <2>6. U[a] = n /\ \A x \in Handles \ {a} : U[x] = T[x]
    BY <1>2, <2>1 DEF Put, Table
  <2>7. a \in Live(U) /\ a # None
    BY <2>1, <2>3, <2>6, RecordNotNone DEF Live
  <2>8. \A x \in Handles : (U[x] = None => tex[x] = None) /\ (tex[x] = None /\ x # a => U[x] = None)
    BY <1>2, <2>1, <2>6
  <2>9. Account(U, R, K, IF U[a].count = 0 THEN {a} ELSE {})
    BY <2>3, <2>5, <2>6
  <2> QED  BY <2>2, <2>3, <2>5, <2>6, <2>7, <2>8, <2>9 DEF AgpAnswer
<1> QED  BY <1>1, <1>3, <1>4, <1>5

\* No texture is linked: the answer is none, or it is dropped if it is new.
LEMMA StepUnlinked ==
  ASSUME IInv, SharedAlive, SharedAlive', UNCHANGED << client, buffer, txs, dels >>,
         NEW T, NEW a,
         AgpAnswer(T, a, Outside(client, buffer, txs), Keeping),
         \/ a = None /\ tex' = T
         \/ a # None /\ tex' = DropUnused(T, a),
         tex' \in Table => TypeOK'
  PROVE  IInv' /\ LinkStep
<1> DEFINE R == Outside(client, buffer, txs)
           D == IF T[a].count = 0 THEN {a} ELSE {}
<1>1. R \in [Handles -> Nat]
  BY StateAccount
<1>2. /\ R' = R /\ Keeping' = Keeping /\ BuffersFinite(buffer)'
  BY Untouched DEF IInv
<1>3. ASSUME a = None, tex' = T
      PROVE  /\ tex' \in Table /\ Account(tex', R, Keeping, {})
             /\ \A x \in Handles : tex[x] = None => tex'[x] = None
  BY <1>3, RecordNotNone DEF AgpAnswer
<1>4. ASSUME a # None, tex' = DropUnused(T, a)
      PROVE  /\ tex' \in Table /\ Account(tex', R, Keeping, {})
             /\ \A x \in Handles : tex[x] = None => tex'[x] = None
  <2>1. /\ T \in Table /\ a \in Live(T) /\ Account(T, R, Keeping, D)
        /\ \A x \in Handles : tex[x] = None /\ x # a => T[x] = None
        /\ tex[a] = None => T[a].count = 0
    BY <1>4 DEF AgpAnswer
  <2>2. a \in Handles
    BY <2>1 DEF Live
  <2>3. CASE T[a].count = 0
    <3>1. tex' = delete_texture(T, {a}) /\ D = {a}
      BY <1>4, <2>3 DEF DropUnused
    <3> HIDE DEF R, D
    <3>2. {a} \in SUBSET Live(T) /\ Account(T, R, Keeping, {a})
      BY <2>1, <3>1
    <3>3. /\ delete_texture(T, {a}) \in Table
          /\ Account(delete_texture(T, {a}), R, Keeping, {})
          /\ \A x \in Handles : T[x] = None => delete_texture(T, {a})[x] = None
      BY <1>1, <2>1, <3>2, Deleted
    <3>4. delete_texture(T, {a})[a] = None
      BY <2>2 DEF delete_texture
    <3> QED  BY <2>1, <3>1, <3>3, <3>4
  <2>4. CASE T[a].count # 0
    <3>1. tex' = T /\ D = {} /\ tex[a] # None
      BY <1>4, <2>1, <2>4 DEF DropUnused
    <3> HIDE DEF D
    <3> QED  BY <2>1, <3>1
  <2> QED  BY <2>3, <2>4
<1>5. /\ tex' \in Table /\ Account(tex', R, Keeping, {})
      /\ \A x \in Handles : tex[x] = None => tex'[x] = None
  BY <1>3, <1>4
<1>6. Account(tex, Outside(client, buffer, txs), Keeping, {})'
  BY <1>2, <1>5
<1> QED  BY <1>2, <1>5, <1>6, StepKept

\* A texture is made and linked.
LEMMA StepLinked ==
  ASSUME IInv, SharedAlive, SharedAlive', UNCHANGED << buffer, txs, dels >>,
         NEW T, NEW a, a # None, NEW type \in Linked,
         AgpAnswer(T, a, Outside(client, buffer, txs), Keeping),
         NEW U \in common_texture_init(T, Texture(type, a, None)),
         tex' = Add(U, a, 1), Answered(Min(Free(T))),
         tex' \in Table /\ client' \in [Handles -> {"none", "returned", "owned", "deleting"}]
           => TypeOK'
  PROVE  IInv' /\ LinkStep
<1> DEFINE R == Outside(client, buffer, txs)
           h == Min(Free(T))
           r == Texture(type, a, None)
           D == IF T[a].count = 0 THEN {a} ELSE {}
           J == Keeping'
<1>1. R \in [Handles -> Nat]
  BY StateAccount
<1>2. /\ T \in Table /\ a \in Live(T) /\ T[a].type = "AGP" /\ ~T[a].stale
      /\ Account(T, R, Keeping, D)
      /\ \A x \in Handles : (T[x] = None => tex[x] = None)
                            /\ (tex[x] = None /\ x # a => T[x] = None)
  BY DEF AgpAnswer
<1>3. h \in Handles /\ T[h] = None /\ U = Put(T, h, r)
  BY FreeHandle
<1>4. r \in TextureRecord /\ r.type # "AGP" /\ r.agp = a /\ r.count = 0
  <2>1. a \in Ids /\ type \in Unlinked \cup Linked \cup {"AGP"} /\ None \in Addrs \cup {None}
    BY <1>2 DEF Ids, Live
  <2>2. r \in TextureRecord /\ r.type = type /\ r.agp = a /\ r.count = 0
    BY <2>1, NewRecord
  <2>3. type # "AGP"
    BY TexturesAssumption
  <2> HIDE DEF r
  <2> QED  BY <2>2, <2>3
<1>5. Answered(h) /\ tex' = Add(U, a, 1)
  OBVIOUS
<1> HIDE DEF h, r
<1>6. /\ BuffersFinite(buffer') /\ Outside(client', buffer', txs') = R
      /\ J[h] = {None} /\ \A x \in Handles \ {h} : J[x] = Keeping[x]
      /\ client' \in [Handles -> {"none", "returned", "owned", "deleting"}]
  BY <1>2, <1>3, <1>5, AnsweredStep
<1>7. D \subseteq {a}
  OBVIOUS
<1> HIDE DEF R, D, J
<1>8. /\ tex' \in Table /\ Account(tex', R, J, {})
      /\ \A x \in Handles : T[x] = None /\ x # h => tex'[x] = None
      /\ ~tex'[a].stale /\ tex'[a].type = "AGP" /\ tex'[a] \in TextureRecord
      /\ tex'[h].agp = a
  <2>1. Linking(T, R, Keeping, J, D, a, h, r)
    BY <1>1, <1>2, <1>3, <1>4, <1>6, <1>7 DEF Linking
  <2>2. /\ Add(Put(T, h, r), a, 1) \in Table
        /\ Account(Add(Put(T, h, r), a, 1), R, J, {})
        /\ \A x \in Handles : T[x] = None /\ x # h => Add(Put(T, h, r), a, 1)[x] = None
        /\ Add(Put(T, h, r), a, 1)[a].stale = T[a].stale
        /\ Add(Put(T, h, r), a, 1)[a].type = "AGP"
        /\ Add(Put(T, h, r), a, 1)[a] \in TextureRecord
        /\ Add(Put(T, h, r), a, 1)[h].agp = a
    BY <2>1, CreatedLinked
  <2>3. tex' = Add(Put(T, h, r), a, 1)
    BY <1>3, <1>5
  <2> QED  BY <1>2, <2>2, <2>3
<1>9. LinkStep
  <2> SUFFICES ASSUME NEW x \in Handles, tex'[x] # None, tex[x] = None, tex'[x].agp # None
               PROVE  ~tex'[tex'[x].agp].stale
    BY DEF LinkStep, Live
  <2>1. a \in Live(tex')
    BY <1>2, <1>8, RecordNotNone DEF Live
  <2>2. tex'[a].agp = None
    BY <1>8, <2>1 DEF Account, AgpInv
  <2>3. x = h
    BY <1>2, <1>8, <2>2
  <2> QED  BY <1>8, <2>3
<1>10. Account(tex', Outside(client', buffer', txs'), Keeping', {})
  BY <1>6, <1>8 DEF J
<1>11. TypeOK'
  BY <1>6, <1>8
<1> QED  BY <1>6, <1>9, <1>10, <1>11 DEF IInv

\* new_texture for a type with a link.
LEMMA StepNewLinked ==
  ASSUME IInv, NEW type \in Linked, NEW addr \in Addrs \cup {None},
         new_linked_texture(type, addr)
  PROVE  IInv' /\ LinkStep
<1> DEFINE R == Outside(client, buffer, txs)
<1>1. SharedAlive /\ SharedAlive' /\ UNCHANGED << buffer, txs, dels >>
  BY DEF new_linked_texture, SharedAlive, contextVars
<1>2. /\ tex \in Table /\ R \in [Handles -> Nat] /\ Account(tex, R, Keeping, {})
  BY <1>1, StateAccount
<1>3. tex' \in Table /\ client' \in [Handles -> {"none", "returned", "owned", "deleting"}]
        => TypeOK'
  BY DEF IInv, TypeOK, Table, new_linked_texture, contextVars
<1>4. client \in [Handles -> {"none", "returned", "owned", "deleting"}]
  BY DEF IInv, TypeOK
<1>5. PICK r \in new_agp_texture(addr) :
        \/ r.agp = None /\ tex' = r.T /\ UNCHANGED client
        \/ r.agp # None /\ tex' = DropUnused(r.T, r.agp) /\ UNCHANGED client
        \/ /\ r.agp # None
           /\ \E U \in common_texture_init(r.T, Texture(type, r.agp, None)) :
                tex' = Add(U, r.agp, 1) /\ Answered(Min(Free(r.T)))
  BY DEF new_linked_texture
<1> DEFINE T == r.T
           a == r.agp
<1> HIDE DEF R
<1>6. AgpAnswer(T, a, R, Keeping)
  BY <1>2, <1>5, NewAgp
<1> HIDE DEF T, a
<1>7. AgpAnswer(T, a, Outside(client, buffer, txs), Keeping)
  BY <1>6 DEF R
<1>8. CASE /\ UNCHANGED client
           /\ (a = None /\ tex' = T) \/ (a # None /\ tex' = DropUnused(T, a))
  <2>1. tex' \in Table => TypeOK'
    BY <1>3, <1>4, <1>8
  <2> QED  BY <1>1, <1>7, <1>8, <2>1, StepUnlinked
<1>9. ASSUME a # None, NEW U \in common_texture_init(T, Texture(type, a, None)),
             tex' = Add(U, a, 1), Answered(Min(Free(T)))
      PROVE  IInv' /\ LinkStep
  BY <1>1, <1>3, <1>7, <1>9, StepLinked
<1>10. \/ /\ UNCHANGED client
          /\ (a = None /\ tex' = T) \/ (a # None /\ tex' = DropUnused(T, a))
       \/ /\ a # None
          /\ \E U \in common_texture_init(T, Texture(type, a, None)) :
               tex' = Add(U, a, 1) /\ Answered(Min(Free(T)))
  BY <1>5 DEF T, a
<1> QED  BY <1>8, <1>9, <1>10, Zenon

-----------------------------------------------------------------------------
(***************************************************************************)
(* The invariant holds, and what it says.                                  *)
(***************************************************************************)
LEMMA Inductive ==
  ASSUME IInv, [Next]_vars
  PROVE  IInv' /\ LinkStep
<1>1. CASE UNCHANGED vars
  <2>1. UNCHANGED << tex, client, buffer, txs, dels, open, pc >>
    BY <1>1 DEF vars
  <2>2. TypeOK'
    BY <1>1 DEF IInv, TypeOK, vars
  <2>3. SharedAlive' = SharedAlive
    BY <2>1 DEF SharedAlive, Closed
  <2>4. CASE SharedAlive
    BY <2>1, <2>2, <2>3, <2>4, StepUntouched
  <2>5. CASE ~SharedAlive
    BY <2>1, <2>2, <2>3, <2>5 DEF IInv, Live, LinkStep, BuffersFinite
  <2> QED  BY <2>4, <2>5
<1>2. ASSUME NEW type \in Unlinked, new_texture(type) PROVE IInv' /\ LinkStep
  BY <1>2, StepNewTexture
<1>3. ASSUME NEW type \in Linked, NEW addr \in Addrs \cup {None},
             new_linked_texture(type, addr)
      PROVE  IInv' /\ LinkStep
  BY <1>3, StepNewLinked
<1>4. ASSUME NEW h \in Handles, device_delete_texture(h) \/ Keep(h) \/ GiveUp(h)
      PROVE  IInv' /\ LinkStep
  BY <1>4, StepDelete, StepKeep, StepGiveUp
<1>5. ASSUME NEW addr \in Addrs, Remap(addr) PROVE IInv' /\ LinkStep
  BY <1>5, StepRemap
<1>6. ASSUME NEW c \in Contexts, NEW token \in Tokens, PutToken(c, token)
      PROVE  IInv' /\ LinkStep
  BY <1>6, StepPutToken
<1>7. ASSUME NEW c \in Contexts,
             \/ submit_command_buffer(c) \/ process_token(c) \/ process_failure(c)
             \/ process_end(c) \/ CleanupApp(c) \/ DeleteDropped(c)
      PROVE  IInv' /\ LinkStep
  BY <1>7, StepSubmit, StepToken, StepFailure, StepEnd, StepCleanup, StepDropped
<1>8. ASSUME NEW c \in Contexts, NEW s \in Slots, DropSlot(c, s) PROVE IInv' /\ LinkStep
  BY <1>8, StepDropSlot
<1>9. CASE CloseDevice
  BY <1>9, StepClose
<1> HIDE DEF IInv, LinkStep
<1> QED  BY <1>1, <1>2, <1>3, <1>4, <1>5, <1>6, <1>7, <1>8, <1>9 DEF Next

\* The invariant holds in every state.
LEMMA InvHolds == Spec => []IInv
  BY InitInv, Inductive, PTL DEF Spec

\* Every variable keeps its type: in particular a slot, a token and a link name a
\* handle of m_handle_table or nothing, whatever the table went through.
THEOREM TexturesTypes == Spec => []TypeOK
<1>1. IInv => TypeOK
  BY DEF IInv
<1> QED  BY <1>1, InvHolds, PTL

\* The references to a texture are those that are not links, and the links.
LEMMA ReferencesAre ==
  ASSUME IInv, SharedAlive, NEW h \in Handles
  PROVE  /\ References(h) = Outside(client, buffer, txs)[h] + Cardinality(Links(tex, h))
         /\ Outside(client, buffer, txs)[h] \in Nat /\ Cardinality(Links(tex, h)) \in Nat
         /\ Keepers(h) = Keeping[h]
<1>1. /\ Outside(client, buffer, txs)[h] \in Nat /\ Cardinality(Links(tex, h)) \in Nat
  BY StateAccount, HandlesFinite
<1>2. References(h) = Outside(client, buffer, txs)[h] + Cardinality(Links(tex, h))
  BY DEF References, Outside
<1> QED  BY <1>1, <1>2 DEF Keeping

\* CountsExact: the word of references that the task and the kernel share is the sum
\* of what the driver, the command buffers, the contexts and the links hold, for any
\* number of handles, contexts and slots, and tokens that wait.
THEOREM TexturesCountsExact == Spec => []CountsExact
<1>1. IInv => CountsExact
  <2> SUFFICES ASSUME IInv, NEW h \in Live(tex)
               PROVE  tex[h].count = References(h)
    BY DEF CountsExact
  <2>1. SharedAlive /\ h \in Handles
    BY DEF IInv, Live
  <2>2. tex[h].count = Outside(client, buffer, txs)[h] + Cardinality(Links(tex, h))
    BY <2>1 DEF IInv, Account, ExactInv
  <2> QED  BY <2>1, <2>2, ReferencesAre
<1> QED  BY <1>1, InvHolds, PTL

\* InUseIsLive: while the shared object is there, what a token, a slot, a link, a
\* pointer of the driver or a deletion under way names was not deleted.
THEOREM TexturesInUseIsLive == Spec => []InUseIsLive
<1>1. IInv => InUseIsLive
  <2> SUFFICES ASSUME IInv, SharedAlive, NEW h \in Handles, tex[h] = None
               PROVE  ~(References(h) > 0) /\ Keepers(h) = {}
    <3> HIDE DEF References
    <3> QED  BY DEF InUseIsLive
  <2>1. Outside(client, buffer, txs)[h] = 0 /\ Keeping[h] = {} /\ Links(tex, h) = {}
    BY DEF IInv, Account, DeadInv
  <2>2. Cardinality(Links(tex, h)) = 0
    BY <2>1, FS_EmptySet
  <2>3. References(h) = 0 + 0 /\ Keepers(h) = {}
    BY <2>1, <2>2, ReferencesAre
  <2> QED  BY <2>3
<1> QED  BY <1>1, InvHolds, PTL

\* OneDeletes: a texture whose count came to 0 is in the hands of exactly one of the
\* driver, the call that made it and the contexts that close; any other is in nobody's.
THEOREM TexturesOneDeletes == Spec => []OneDeletes
<1>1. IInv => OneDeletes
  <2> SUFFICES ASSUME IInv, NEW h \in Live(tex)
               PROVE  IF References(h) = 0 THEN Cardinality(Keepers(h)) = 1
                                           ELSE Keepers(h) = {}
    BY DEF OneDeletes
  <2>1. SharedAlive /\ h \in Handles
    BY DEF IInv, Live
  <2>2. tex[h].count = References(h) /\ Keepers(h) = Keeping[h]
    <3>1. tex[h].count = Outside(client, buffer, txs)[h] + Cardinality(Links(tex, h))
      BY <2>1 DEF IInv, Account, ExactInv
    <3> QED  BY <2>1, <3>1, ReferencesAre
  <2>3. IF tex[h].count = 0 THEN \E k \in Contexts \cup {None} : Keeping[h] = {k}
        ELSE Keeping[h] = {}
    BY <2>1 DEF IInv, Account, OneInv
  <2>4. \A k : Cardinality({k}) = 1
    BY FS_Singleton
  <2> QED  BY <2>2, <2>3, <2>4
<1> QED  BY <1>1, InvHolds, PTL

\* LinkCurrent: new_texture never links a texture to an AGP texture whose memory was
\* replaced, for any number of textures of the same range.
THEOREM TexturesLinkCurrent == Spec => LinkCurrent
<1>1. IInv /\ [Next]_vars
        => [\A h \in Live(tex') : (tex[h] = None /\ tex'[h].agp # None)
              => ~tex'[tex'[h].agp].stale]_vars
  BY Inductive DEF LinkStep
<1> QED  BY <1>1, InvHolds, PTL DEF Spec, LinkCurrent
=============================================================================
