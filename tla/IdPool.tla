------------------------------- MODULE IdPool -------------------------------
(***************************************************************************)
(* The identifiers of the accelerator (AC/CEsvga2Accel.cpp): surfaces and  *)
(* contexts of the 3D device, video streams, and guest memory regions.     *)
(* Each kind has a bit map of the identifiers in use, and every call holds *)
(* the accelerator lock, so that one call is one step.  The kinds share no *)
(* state: a behaviour is about one of them.                                *)
(*                                                                         *)
(* The maps of surfaces and regions have several words and a cursor, the   *)
(* word from which the next search starts.  When the map is full, surfaces *)
(* and contexts get "unmanaged" identifiers beyond it, which are never     *)
(* used again; streams and regions are refused.                            *)
(*                                                                         *)
(* An identifier is << word, bit >>; the unmanaged ones have the number of *)
(* words as their word.                                                    *)
(***************************************************************************)
EXTENDS Integers

CONSTANTS Words,        \* the words of each kind's map
          Width,        \* bits of a word
          Masked,       \* regions the device does not have, set in start()
          MaxUnmanaged  \* bound: unmanaged identifiers handed out

Kinds == {"surface", "context", "stream", "gmr"}
Bit   == 0..(Width - 1)

ASSUME PoolAssumption ==
  /\ Words \in [Kinds -> Nat \ {0}]
  /\ Words["context"] = 1 /\ Words["stream"] = 1
  /\ Width \in Nat \ {0}
  /\ Masked \subseteq (0..(Words["gmr"] - 1)) \X Bit
  /\ MaxUnmanaged \in Nat

VARIABLES kind,         \* the kind of identifier this behaviour is about
          mask,         \* the bits set in its map
          idx,          \* its cursor: m_surface_id_idx, m_gmr_id_idx
          unmanaged,    \* m_surface_ids_unmanaged, m_context_ids_unmanaged
          held,         \* identifiers handed out and not given back
          shared        \* identifiers handed out while they were held

vars == << kind, mask, idx, unmanaged, held, shared >>

Managed(k)   == (0..(Words[k] - 1)) \X Bit
Unmanaged(k) == {Words[k]} \X Nat
MaskedOf(k)  == IF k = "gmr" THEN Masked ELSE {}

Init ==
  /\ kind \in Kinds
  /\ mask = MaskedOf(kind)
  /\ idx = 0 /\ unmanaged = 0
  /\ held = {} /\ shared = {}

\* The search of find_bit_in_array64 from word first on ends at this bit.
FirstClear(first, w, b) ==
  /\ << w, b >> \notin mask
  /\ \A c \in Bit : c < b => << w, c >> \in mask
  /\ \A v \in first..(w - 1), c \in Bit : << v, c >> \in mask

NoneClear(first) ==
  \A v \in first..(Words[kind] - 1), c \in Bit : << v, c >> \in mask

Give(id) ==
  /\ held' = held \cup {id}
  /\ shared' = shared \cup ({id} \cap held)
  /\ UNCHANGED kind

\* Mutant: the bit is not set.
TakeUnmarked(w, b) == Give(<< w, b >>) /\ UNCHANGED << mask, unmanaged >>

Take(w, b) ==
  /\ mask' = mask \cup {<< w, b >>}
  /\ Give(<< w, b >>)
  /\ UNCHANGED unmanaged

GiveUnmanaged ==
  /\ unmanaged < MaxUnmanaged
  /\ unmanaged' = unmanaged + 1
  /\ Give(<< Words[kind], unmanaged >>)
  /\ UNCHANGED mask

AllocSurfaceID ==
  /\ kind = "surface"
  /\ \/ \E w \in idx..(Words[kind] - 1), b \in Bit :
          FirstClear(idx, w, b) /\ Take(w, b) /\ idx' = w
     \/ NoneClear(idx) /\ GiveUnmanaged /\ idx' = Words[kind]

AllocContextID ==
  /\ kind = "context"
  /\ \/ \E b \in Bit : FirstClear(0, 0, b) /\ Take(0, b)
     \/ NoneClear(0) /\ GiveUnmanaged
  /\ UNCHANGED idx

\* The answer is -1 when no bit is clear.
AllocStreamID ==
  /\ kind = "stream"
  /\ \/ \E b \in Bit : FirstClear(0, 0, b) /\ Take(0, b)
     \/ NoneClear(0) /\ UNCHANGED << kind, mask, unmanaged, held, shared >>
  /\ UNCHANGED idx

AllocGMRID ==
  /\ kind = "gmr"
  /\ \/ \E w \in idx..(Words[kind] - 1), b \in Bit :
          FirstClear(idx, w, b) /\ Take(w, b) /\ idx' = w
     \/ /\ NoneClear(idx) /\ idx' = Words[kind]
        /\ UNCHANGED << kind, mask, unmanaged, held, shared >>

\* Unmanaged identifiers return early and leave the map alone.
Return(id) ==
  /\ id \in held
  /\ held' = held \ {id}
  /\ mask' = IF id \in Managed(kind) THEN mask \ {id} ELSE mask
  /\ UNCHANGED << kind, unmanaged, shared >>

\* Mutant: the cursor stays where it is.
CursorForgotten(id) == UNCHANGED idx

CursorBack(id) ==
  idx' = IF id \in Managed(kind) /\ id[1] < idx THEN id[1] ELSE idx

FreeSurfaceID(id) == kind = "surface" /\ Return(id) /\ CursorBack(id)
FreeContextID(id) == kind = "context" /\ Return(id) /\ UNCHANGED idx
FreeStreamID(id)  == kind = "stream" /\ Return(id) /\ UNCHANGED idx

\* Mutant: the whole word is cleared.
FreeGMRIDWord(id) ==
  /\ kind = "gmr" /\ id \in held
  /\ held' = held \ {id}
  /\ mask' = {m \in mask : m[1] # id[1]}
  /\ CursorBack(id)
  /\ UNCHANGED << kind, unmanaged, shared >>

FreeGMRID(id) == kind = "gmr" /\ Return(id) /\ CursorBack(id)

Next ==
  \/ AllocSurfaceID \/ AllocContextID \/ AllocStreamID \/ AllocGMRID
  \/ \E id \in held : \/ FreeSurfaceID(id) \/ FreeContextID(id)
                      \/ FreeStreamID(id) \/ FreeGMRID(id)

Spec == Init /\ [][Next]_vars

(***************************************************************************)
(* Properties.                                                             *)
(***************************************************************************)
\* The types of the map, the cursor and the counter.
TypeOK ==
  /\ kind \in Kinds
  /\ mask \subseteq Managed(kind)
  /\ idx \in 0..Words[kind]
  /\ unmanaged \in 0..MaxUnmanaged
  /\ held \subseteq Managed(kind) \cup Unmanaged(kind)
  /\ shared \subseteq Managed(kind) \cup Unmanaged(kind)

\* No identifier ever has two owners: what AllocSurfaceID and its siblings hand
\* out is held by nobody, whatever was freed before.
NoSharedId == shared = {}

\* The map says exactly which identifiers are held: none is lost when it is
\* freed, and a region the device does not have is never handed out.
MaskMatchesHeld ==
  /\ mask = MaskedOf(kind) \cup (held \cap Managed(kind))
  /\ held \cap MaskedOf(kind) = {}

\* A search from the cursor that finds nothing has overlooked nothing: a region
\* is refused, and an identifier that will never be used again is spent, only
\* when every identifier of the map is held.
NoIdOverlooked ==
  NoneClear(idx) => Managed(kind) \ MaskedOf(kind) \subseteq held

\* What makes these inductive: the words before the cursor are full, maps of one
\* word have no cursor, and the unmanaged identifiers held are below the counter.
CursorInv ==
  /\ kind \in {"context", "stream"} => idx = 0
  /\ \A w \in 0..(idx - 1), b \in Bit : << w, b >> \in mask
  /\ \A id \in held : id[1] = Words[kind] => id[2] < unmanaged
=============================================================================
