---------------------------- MODULE IdPoolProofs ----------------------------
(***************************************************************************)
(* The identifier maps hand out no identifier twice and overlook none, for *)
(* every number of words and bits, every set of masked regions and every   *)
(* bound on the unmanaged identifiers.                                     *)
(***************************************************************************)
EXTENDS IdPool, TLAPS

IndInv == TypeOK /\ NoSharedId /\ MaskMatchesHeld /\ CursorInv

USE PoolAssumption DEF Kinds

\* Unmanaged identifiers lie beyond the map.
LEMMA UnmanagedApart ==
  ASSUME NEW k \in Kinds
  PROVE  Managed(k) \cap Unmanaged(k) = {}
  BY DEF Managed, Unmanaged

\* The cursor and the number of words are numbers.
LEMMA Numbers ==
  ASSUME TypeOK
  PROVE  Words[kind] \in Nat \ {0} /\ idx \in Nat /\ idx <= Words[kind]
  BY DEF TypeOK

\* A range below a smaller bound.
LEMMA Below ==
  ASSUME NEW a \in Nat, NEW b \in Nat, b <= a, NEW v \in 0..(b - 1)
  PROVE  v \in 0..(a - 1) /\ v < b
  OBVIOUS

\* The invariant holds when the driver starts.
LEMMA InitInv == Init => IndInv
  BY DEF Init, IndInv, TypeOK, NoSharedId, MaskMatchesHeld, CursorInv,
         MaskedOf, Managed

\* Handing out a bit that is clear keeps the invariant, if the cursor moves no
\* further than the words that the search found full.
LEMMA TakeInv ==
  ASSUME IndInv,
         NEW w \in 0..(Words[kind] - 1), NEW b \in Bit,
         << w, b >> \notin mask, Take(w, b),
         idx' \in 0..Words[kind],
         kind \in {"context", "stream"} => idx' = 0,
         \A v \in 0..(idx' - 1), c \in Bit : << v, c >> \in mask
  PROVE  IndInv'
<1> DEFINE id == << w, b >>
<1>1. /\ id \in Managed(kind) /\ id \notin held
      /\ id \notin MaskedOf(kind) /\ w # Words[kind]
  BY DEF IndInv, TypeOK, MaskMatchesHeld, Managed
<1>2. /\ kind' = kind /\ unmanaged' = unmanaged
      /\ held' = held \cup {id} /\ shared' = shared \cup ({id} \cap held)
      /\ mask' = mask \cup {id}
  BY DEF Take, Give
<1>3. TypeOK'
  BY <1>1, <1>2 DEF IndInv, TypeOK, Managed, Unmanaged
<1>4. NoSharedId'
  BY <1>1, <1>2 DEF IndInv, NoSharedId
<1>5. MaskMatchesHeld'
  BY <1>1, <1>2 DEF IndInv, MaskMatchesHeld, Managed, MaskedOf
<1>6. CursorInv'
  <2>1. \A v \in 0..(idx' - 1), c \in Bit : << v, c >> \in mask'
    BY <1>2
  <2>2. \A i \in held' : i[1] = Words[kind] => i[2] < unmanaged
    BY <1>1, <1>2 DEF IndInv, CursorInv
  <2> QED BY <2>1, <2>2, <1>2 DEF CursorInv
<1> QED BY <1>3, <1>4, <1>5, <1>6 DEF IndInv

\* Going beyond the map keeps it: the counter is above every unmanaged
\* identifier that is held.
LEMMA UnmanagedInv ==
  ASSUME IndInv, GiveUnmanaged,
         idx' \in 0..Words[kind],
         kind \in {"context", "stream"} => idx' = 0,
         \A v \in 0..(idx' - 1), c \in Bit : << v, c >> \in mask
  PROVE  IndInv'
<1> DEFINE id == << Words[kind], unmanaged >>
<1>1. /\ id \in Unmanaged(kind) /\ id \notin Managed(kind) /\ id \notin held
  BY DEF IndInv, TypeOK, CursorInv, Unmanaged, Managed
<1>2. /\ kind' = kind /\ unmanaged < MaxUnmanaged /\ unmanaged' = unmanaged + 1
      /\ held' = held \cup {id} /\ shared' = shared \cup ({id} \cap held)
      /\ mask' = mask
  BY DEF GiveUnmanaged, Give
<1>3. TypeOK'
  BY <1>1, <1>2 DEF IndInv, TypeOK
<1>4. NoSharedId'
  BY <1>1, <1>2 DEF IndInv, NoSharedId
<1>5. MaskMatchesHeld'
  BY <1>1, <1>2 DEF IndInv, TypeOK, MaskMatchesHeld, Managed, MaskedOf
<1>6. CursorInv'
  <2>1. \A i \in held' : i[1] = Words[kind] => i[2] < unmanaged + 1
    <3>1. \A i \in held : i[1] = Words[kind] => i[2] < unmanaged + 1
      BY DEF IndInv, TypeOK, CursorInv, Unmanaged, Managed
    <3> QED BY <3>1, <1>2 DEF IndInv, TypeOK
  <2> QED BY <2>1, <1>2 DEF CursorInv
<1> QED BY <1>3, <1>4, <1>5, <1>6 DEF IndInv

\* Giving an identifier back keeps it, if the cursor does not stay behind the
\* word that got a clear bit.
LEMMA ReturnInv ==
  ASSUME IndInv, NEW id \in held, Return(id),
         idx' \in 0..Words[kind], idx' <= idx,
         kind \in {"context", "stream"} => idx' = 0,
         id \in Managed(kind) => idx' <= id[1]
  PROVE  IndInv'
<1>1. /\ kind' = kind /\ unmanaged' = unmanaged /\ shared' = shared
      /\ held' = held \ {id}
      /\ mask' = IF id \in Managed(kind) THEN mask \ {id} ELSE mask
  BY DEF Return
<1>2. TypeOK'
  BY <1>1 DEF IndInv, TypeOK
<1>3. NoSharedId'
  BY <1>1 DEF IndInv, NoSharedId
<1>4. MaskMatchesHeld'
  BY <1>1 DEF IndInv, MaskMatchesHeld, MaskedOf, Managed
<1>5. CursorInv'
  <2>1. \A v \in 0..(idx' - 1), c \in Bit : << v, c >> \in mask'
    <3> SUFFICES ASSUME NEW v \in 0..(idx' - 1), NEW c \in Bit
                 PROVE  << v, c >> \in mask'
      OBVIOUS
    <3>0. v \in 0..(idx - 1) /\ v < idx'
      <4>1. idx \in Nat /\ Words[kind] \in Nat
        BY Numbers DEF IndInv
      <4>2. idx' \in Nat
        BY <4>1
      <4> QED BY <4>1, <4>2, Below, Zenon
    <3>1. << v, c >> \in mask
      BY <3>0 DEF IndInv, CursorInv
    <3>2. CASE id \in Managed(kind)
      <4>1. id[1] \in Nat /\ idx' <= id[1]
        BY <3>2 DEF Managed
      <4>2. << v, c >> # id
        BY <3>0, <4>1, Numbers DEF IndInv
      <4> QED BY <3>1, <3>2, <4>2, <1>1
    <3>3. CASE id \notin Managed(kind)
      BY <3>1, <3>3, <1>1
    <3> QED BY <3>2, <3>3
  <2> QED BY <2>1, <1>1 DEF IndInv, CursorInv
<1> QED BY <1>2, <1>3, <1>4, <1>5 DEF IndInv

\* A search from the cursor that finds a clear bit.
LEMMA SearchInv ==
  ASSUME IndInv,
         NEW w \in idx..(Words[kind] - 1), NEW b \in Bit,
         FirstClear(idx, w, b), Take(w, b), idx' = w,
         kind \notin {"context", "stream"}
  PROVE  IndInv'
<1>1. w \in 0..(Words[kind] - 1) /\ idx' \in 0..Words[kind] /\ idx' = w
  BY Numbers DEF IndInv
<1>2. \A v \in 0..(idx' - 1), c \in Bit : << v, c >> \in mask
  <2> SUFFICES ASSUME NEW v \in 0..(w - 1), NEW c \in Bit
               PROVE  << v, c >> \in mask
    OBVIOUS
  <2>1. CASE v < idx
    <3>1. v \in 0..(idx - 1)
      BY <2>1, Numbers DEF IndInv
    <3> QED BY <3>1 DEF IndInv, CursorInv
  <2>2. CASE v >= idx
    <3>1. v \in idx..(w - 1)
      BY <2>2, Numbers DEF IndInv
    <3> QED BY <3>1 DEF FirstClear
  <2> QED BY <2>1, <2>2, Numbers DEF IndInv
<1>3. << w, b >> \notin mask
  BY DEF FirstClear
<1> QED BY <1>1, <1>2, <1>3, TakeInv

\* A search from the cursor that finds nothing means that every word is full.
LEMMA FullInv ==
  ASSUME IndInv, NoneClear(idx)
  PROVE  \A v \in 0..(Words[kind] - 1), c \in Bit : << v, c >> \in mask
<1> SUFFICES ASSUME NEW v \in 0..(Words[kind] - 1), NEW c \in Bit
             PROVE  << v, c >> \in mask
  OBVIOUS
<1>1. CASE v < idx
  <2>1. v \in 0..(idx - 1)
    BY <1>1, Numbers DEF IndInv
  <2> QED BY <2>1 DEF IndInv, CursorInv
<1>2. CASE v >= idx
  <2>1. v \in idx..(Words[kind] - 1)
    BY <1>2, Numbers DEF IndInv
  <2> QED BY <2>1 DEF NoneClear
<1> QED BY <1>1, <1>2, Numbers DEF IndInv

\* Giving an identifier back to a map with a cursor.
LEMMA FreeCursorInv ==
  ASSUME IndInv, NEW id \in held, Return(id), CursorBack(id),
         kind \notin {"context", "stream"}
  PROVE  IndInv'
<1>1. idx' \in 0..Words[kind] /\ idx' <= idx
  BY Numbers DEF IndInv, CursorBack, Managed
<1>2. id \in Managed(kind) => idx' <= id[1]
  BY Numbers DEF IndInv, CursorBack, Managed
<1> QED BY <1>1, <1>2, ReturnInv

\* The same without a cursor.
LEMMA FreeWordInv ==
  ASSUME IndInv, NEW id \in held, Return(id), UNCHANGED idx,
         kind \in {"context", "stream"}
  PROVE  IndInv'
<1>1. idx' = 0 /\ idx' <= idx /\ idx' \in 0..Words[kind]
  BY Numbers DEF IndInv, CursorInv
<1>2. id \in Managed(kind) => idx' <= id[1]
  BY <1>1 DEF Managed
<1> QED BY <1>1, <1>2, ReturnInv

\* Taking a bit of a map of one word.
LEMMA WordInv ==
  ASSUME IndInv, NEW b \in Bit, FirstClear(0, 0, b), Take(0, b), UNCHANGED idx,
         kind \in {"context", "stream"}
  PROVE  IndInv'
<1>1. idx' = 0 /\ idx' \in 0..Words[kind] /\ 0 \in 0..(Words[kind] - 1)
  BY Numbers DEF IndInv, CursorInv
<1>2. \A v \in 0..(idx' - 1), c \in Bit : << v, c >> \in mask
  BY <1>1
<1>3. << 0, b >> \notin mask
  BY DEF FirstClear
<1> QED BY <1>1, <1>2, <1>3, TakeInv

\* The inductive step, call by call.
THEOREM Inductive == IndInv /\ [Next]_vars => IndInv'
<1> SUFFICES ASSUME IndInv, [Next]_vars
             PROVE  IndInv'
  OBVIOUS
<1>1. CASE AllocSurfaceID
  <2>0. kind \notin {"context", "stream"}
    BY <1>1 DEF AllocSurfaceID
  <2>1. CASE \E w \in idx..(Words[kind] - 1), b \in Bit :
               FirstClear(idx, w, b) /\ Take(w, b) /\ idx' = w
    BY <2>0, <2>1, SearchInv
  <2>2. CASE NoneClear(idx) /\ GiveUnmanaged /\ idx' = Words[kind]
    <3>1. idx' \in 0..Words[kind]
      BY <2>2, Numbers DEF IndInv
    <3> QED BY <2>0, <2>2, <3>1, FullInv, UnmanagedInv
  <2> QED BY <1>1, <2>1, <2>2 DEF AllocSurfaceID
<1>2. CASE AllocContextID
  <2>0. kind \in {"context", "stream"} /\ UNCHANGED idx
    BY <1>2 DEF AllocContextID
  <2>1. CASE \E b \in Bit : FirstClear(0, 0, b) /\ Take(0, b)
    BY <2>0, <2>1, WordInv
  <2>2. CASE NoneClear(0) /\ GiveUnmanaged
    <3>1. idx' = 0 /\ idx' \in 0..Words[kind]
      BY <2>0, Numbers DEF IndInv, CursorInv
    <3>2. \A v \in 0..(idx' - 1), c \in Bit : << v, c >> \in mask
      BY <3>1
    <3> QED BY <2>2, <3>1, <3>2, UnmanagedInv
  <2> QED BY <1>2, <2>1, <2>2 DEF AllocContextID
<1>3. CASE AllocStreamID
  <2>0. kind \in {"context", "stream"} /\ UNCHANGED idx
    BY <1>3 DEF AllocStreamID
  <2>1. CASE \E b \in Bit : FirstClear(0, 0, b) /\ Take(0, b)
    BY <2>0, <2>1, WordInv
  <2>2. CASE UNCHANGED << kind, mask, unmanaged, held, shared >>
    BY <2>0, <2>2 DEF IndInv, TypeOK, NoSharedId, MaskMatchesHeld, CursorInv
  <2> QED BY <1>3, <2>1, <2>2 DEF AllocStreamID
<1>4. CASE AllocGMRID
  <2>0. kind \notin {"context", "stream"}
    BY <1>4 DEF AllocGMRID
  <2>1. CASE \E w \in idx..(Words[kind] - 1), b \in Bit :
               FirstClear(idx, w, b) /\ Take(w, b) /\ idx' = w
    BY <2>0, <2>1, SearchInv
  <2>2. CASE /\ NoneClear(idx) /\ idx' = Words[kind]
             /\ UNCHANGED << kind, mask, unmanaged, held, shared >>
    <3>1. idx' \in 0..Words[kind]
      BY <2>2, Numbers DEF IndInv
    <3>2. TypeOK' /\ NoSharedId' /\ MaskMatchesHeld'
      BY <2>2, <3>1 DEF IndInv, TypeOK, NoSharedId, MaskMatchesHeld
    <3>3. CursorInv'
      BY <2>0, <2>2, FullInv DEF IndInv, CursorInv
    <3> QED BY <3>2, <3>3 DEF IndInv
  <2> QED BY <1>4, <2>1, <2>2 DEF AllocGMRID
<1>5. ASSUME NEW id \in held, FreeSurfaceID(id)
      PROVE  IndInv'
  BY <1>5, FreeCursorInv DEF FreeSurfaceID
<1>6. ASSUME NEW id \in held, FreeContextID(id)
      PROVE  IndInv'
  BY <1>6, FreeWordInv DEF FreeContextID
<1>7. ASSUME NEW id \in held, FreeStreamID(id)
      PROVE  IndInv'
  BY <1>7, FreeWordInv DEF FreeStreamID
<1>8. ASSUME NEW id \in held, FreeGMRID(id)
      PROVE  IndInv'
  BY <1>8, FreeCursorInv DEF FreeGMRID
<1>9. CASE UNCHANGED vars
  BY <1>9 DEF vars, IndInv, TypeOK, NoSharedId, MaskMatchesHeld, CursorInv
<1> QED BY <1>1, <1>2, <1>3, <1>4, <1>5, <1>6, <1>7, <1>8, <1>9 DEF Next

\* The map, the cursor and the counter keep their types, whatever is allocated
\* and freed.
THEOREM TypeCorrect == Spec => []TypeOK
<1>1. IndInv => TypeOK
  BY DEF IndInv
<1> QED BY <1>1, InitInv, Inductive, PTL DEF Spec

\* AllocSurfaceID, AllocContextID, AllocStreamID and AllocGMRID never hand out
\* an identifier that somebody holds.
THEOREM NoIdTwice == Spec => []NoSharedId
<1>1. IndInv => NoSharedId
  BY DEF IndInv
<1> QED BY <1>1, InitInv, Inductive, PTL DEF Spec

\* The map of every pool, masked as the device's GMR identifiers are, is exactly
\* what is held: AllocGMRID never gives an identifier that the device does not have,
\* and FreeGMRID never returns one to it.
THEOREM MaskIsHeld == Spec => []MaskMatchesHeld
<1>1. IndInv => MaskMatchesHeld
  BY DEF IndInv
<1> QED BY <1>1, InitInv, Inductive, PTL DEF Spec

\* A search from the cursor that fails has overlooked no identifier that was
\* freed: the map really is full.
THEOREM NoneOverlooked == Spec => []NoIdOverlooked
<1>1. IndInv => NoIdOverlooked
  <2> SUFFICES ASSUME IndInv, NoneClear(idx), NEW id \in Managed(kind),
                      id \notin MaskedOf(kind)
               PROVE  id \in held
    BY DEF NoIdOverlooked
  <2>1. PICK v \in 0..(Words[kind] - 1), c \in Bit : id = << v, c >>
    BY DEF Managed
  <2>2. id \in mask
    BY <2>1, FullInv
  <2> QED BY <2>2 DEF IndInv, MaskMatchesHeld
<1> QED BY <1>1, InitInv, Inductive, PTL DEF Spec
=============================================================================
