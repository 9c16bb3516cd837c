------------------------------ MODULE Textures ------------------------------
(***************************************************************************)
(* The textures that the OpenGL contexts of one task share                 *)
(* (AC/GL/CEsvga2Shared.cpp), made and deleted through its device user     *)
(* client (AC/UC/CEsvga2Device.cpp), bound and released by the tokens in   *)
(* the command buffers of its contexts (AC/UC/CEsvga2GLContext.cpp and     *)
(* CEsvga2GLContext2.cpp).                                                 *)
(*                                                                         *)
(* A texture is known by its handle, the first free index of               *)
(* m_handle_table.  Its references are counted in one word that the task   *)
(* and the kernel share: a pointer of the OpenGL driver and a token in a   *)
(* command buffer count UNIT (0x10000), a binding of a context and the     *)
(* link from an OOB or AGPREF texture to its AGP texture count 1.  Who     *)
(* takes the word to 0 deletes the texture.  The word only changes by      *)
(* fetch-and-add; all else is done under m_shared_lock, except that the    *)
(* driver counts outside of the kernel and a context that is closed drops  *)
(* its bindings before it takes the lock.                                  *)
(*                                                                         *)
(* Memory can run out in every allocation.  What the driver does is        *)
(* modelled from the parts of it that GLD/ has; it makes one call of a     *)
(* context at a time.                                                      *)
(***************************************************************************)
EXTENDS Integers, Sequences, FiniteSets, FiniteSetsExt

CONSTANTS NumHandles,   \* entries of m_handle_table
          UNIT,         \* 0x10000
          Unlinked,     \* types without an AGP texture: STD, VB, SURFACE
          Linked,       \* types with one: OOB, AGPREF
          Addrs,        \* ranges of the task's memory given as pixels
          Contexts,
          Fbos,         \* the frame buffers of m_fbo: "draw", "read"
          Units,        \* slots of each group
          MaxTokens,    \* bound: tokens that wait in command buffers
          MaxBound,     \* bound: slots in use when a token that binds is added
          None

Handles == 1..NumHandles
Groups  == {"tex"} \cup Fbos             \* m_txs[0..15], [17..18], [19..20]
Slots   == Groups \X Units
Ids     == Handles \cup {None}

\* A texture, as the kernel and the task see it.
TextureRecord ==
  [type : Unlinked \cup Linked \cup {"AGP"}, agp : Ids, addr : Addrs \cup {None},
   count : Int, mem_changed : BOOLEAN, stale : BOOLEAN]

ASSUME TexturesAssumption ==
  /\ NumHandles \in Nat \ {0}
  /\ IsFiniteSet(Contexts) /\ IsFiniteSet(Fbos) /\ IsFiniteSet(Units)
  /\ UNIT \in Nat /\ UNIT > NumHandles + Cardinality(Contexts) * Cardinality(Slots)
  /\ None \notin Handles \cup Addrs \cup Contexts \cup TextureRecord
  /\ "AGP" \notin Unlinked \cup Linked

VARIABLES tex,          \* per handle: None, or the texture
          client,       \* what the driver has: a pointer, a deletion to call
          txs,          \* m_txs of each context
          fbo,          \* those of m_fbo that are allocated
          buffer,       \* tokens of each command buffer
          error,        \* m_stream_error
          pc,           \* what each context is doing
          dels,         \* del_txs of CleanupApp
          open,         \* the device user client is open
          lock          \* m_shared_lock: None, or a context

vars == << tex, client, txs, fbo, buffer, error, pc, dels, open, lock >>
contextVars == << txs, fbo, buffer, error, pc, dels >>

Live(T) == {h \in Handles : T[h] # None}
Agp(T)  == {h \in Live(T) : T[h].type = "AGP"}
Free(T) == Handles \ Live(T)

Init ==
  /\ tex = [h \in Handles |-> None]
  /\ client = [h \in Handles |-> "none"]
  /\ txs = [c \in Contexts |-> [s \in Slots |-> None]]
  /\ fbo = [c \in Contexts |-> {}]
  /\ buffer = [c \in Contexts |-> << >>]
  /\ error = [c \in Contexts |-> FALSE]
  /\ pc = [c \in Contexts |-> "idle"]
  /\ dels = [c \in Contexts |-> {}]
  /\ open = TRUE /\ lock = None

(***************************************************************************)
(* Counts and deletion, on a table of textures T.                          *)
(***************************************************************************)
Add(T, h, n) == [T EXCEPT ![h].count = @ + n]

\* delete_texture_internal for the textures D.  Each gives up its link, and an
\* AGP texture goes with its last link.
delete_texture(T, D) ==
  LET links(a) == Cardinality({d \in D : T[d].agp = a})
      gone(a)  == links(a) > 0 /\ T[a].count = links(a)
  IN  [h \in Handles |-> IF h \in D \/ T[h] = None \/ gone(h) THEN None
                         ELSE [T[h] EXCEPT !.count = @ - links(h)]]

(***************************************************************************)
(* The device user client.                                                 *)
(***************************************************************************)
Texture(type, agp, addr) ==
  [type |-> type, agp |-> agp, addr |-> addr, count |-> 0,
   mem_changed |-> FALSE, stale |-> FALSE]

\* common_texture_init: the table with one more texture, or nothing.
common_texture_init(T, texture) ==
  IF Free(T) = {} THEN {} ELSE {[T EXCEPT ![Min(Free(T))] = texture]}

\* Mutant: a descriptor whose memory was replaced is still taken for the memory.
SameMemoryAlways(a) == TRUE

\* withPersistentMemoryDescriptor returns the descriptor itself.
SameMemory(a) == ~tex[a].stale

\* The AGP textures that the search of m_texture_list can stop at.
Found(addr) == {a \in Agp(tex) : tex[a].addr = addr /\ ~tex[a].mem_changed}

\* Mark what was found and is no longer the memory.
Mark(addr) ==
  [h \in Handles |-> IF h \in Found(addr) /\ ~SameMemory(h)
                     THEN [tex[h] EXCEPT !.mem_changed = TRUE] ELSE tex[h]]

\* new_agp_texture: the table afterwards and the texture, None if it failed.
\* Without an address it makes the memory itself.
new_agp_texture(addr) ==
  IF addr # None /\ \E a \in Found(addr) : SameMemory(a)
  THEN {[T |-> tex, agp |-> a] : a \in {b \in Found(addr) : SameMemory(b)}}
  ELSE LET T == IF addr = None THEN tex ELSE Mark(addr)
       IN  {[T |-> T, agp |-> None]} \cup
           {[T |-> U, agp |-> Min(Free(T))] :
              U \in common_texture_init(T, Texture("AGP", None, addr))}

\* Mutant: the AGP texture that was made is forgotten.
DropUnusedKept(T, a) == T

\* After a failure, an AGP texture that nothing links to is deleted.
DropUnused(T, a) == IF T[a].count = 0 THEN delete_texture(T, {a}) ELSE T

Answered(h) == client' = [client EXCEPT ![h] = "returned"]

new_texture(type) ==
  /\ open /\ lock = None
  /\ \E T \in common_texture_init(tex, Texture(type, None, None)) :
       tex' = T /\ Answered(Min(Free(tex)))
  /\ UNCHANGED << contextVars, open, lock >>

\* An OOB texture without pixels would be a STD one.
new_linked_texture(type, addr) ==
  /\ open /\ lock = None
  /\ type = "OOB" => addr # None
  /\ \E r \in new_agp_texture(addr) :
       \/ r.agp = None /\ tex' = r.T /\ UNCHANGED client
       \/ /\ r.agp # None
          /\ tex' = DropUnused(r.T, r.agp)
          /\ UNCHANGED client
       \/ /\ r.agp # None
          /\ \E T \in common_texture_init(r.T, Texture(type, r.agp, None)) :
               tex' = Add(T, r.agp, 1) /\ Answered(Min(Free(r.T)))
  /\ UNCHANGED << contextVars, open, lock >>

\* CEsvga2Device::delete_texture, called by the driver.
device_delete_texture(h) ==
  /\ open /\ lock = None
  /\ client[h] = "deleting"
  /\ tex' = delete_texture(tex, {h})
  /\ client' = [client EXCEPT ![h] = "none"]
  /\ UNCHANGED << contextVars, open, lock >>

(***************************************************************************)
(* The OpenGL driver, in the task.                                         *)
(***************************************************************************)
\* The texture that new_texture answered is counted.
Keep(h) ==
  /\ open /\ client[h] = "returned"
  /\ tex' = Add(tex, h, UNIT)
  /\ client' = [client EXCEPT ![h] = "owned"]
  /\ UNCHANGED << contextVars, open, lock >>

\* gldModifyTexture: who drops the last reference calls delete_texture.
GiveUp(h) ==
  /\ open /\ client[h] = "owned"
  /\ tex' = Add(tex, h, -UNIT)
  /\ client' = [client EXCEPT ![h] = IF tex[h].count = UNIT THEN "deleting"
                                     ELSE "none"]
  /\ UNCHANGED << contextVars, open, lock >>

\* The memory behind an address is replaced.
Remap(addr) ==
  /\ open
  /\ \E a \in Agp(tex) : tex[a].addr = addr /\ ~tex[a].stale
  /\ tex' = [h \in Handles |-> IF h \in Agp(tex) /\ tex[h].addr = addr
                               THEN [tex[h] EXCEPT !.stale = TRUE] ELSE tex[h]]
  /\ UNCHANGED << client, contextVars, open, lock >>

Tokens ==
  [op : {"bind"}, group : Groups, ids : [Units -> Ids]]
    \cup [op : {"release"}, id : Handles]
    \cup [op : {"noTex"}, slot : {"tex"} \X Units]
    \cup [op : {"unbind"}, group : Fbos]

\* Where a token names a texture, and how often it counts for it.
Places(token, h) ==
  CASE token.op = "bind"    -> {u \in Units : token.ids[u] = h}
    [] token.op = "release" -> {h} \cap {token.id}
    [] OTHER                -> {}

Uses(token, h) == Cardinality(Places(token, h))

Waiting  == MapThenSumSet(LAMBDA c : Len(buffer[c]), Contexts)
InUse    == Cardinality({x \in Contexts \X Slots : txs[x[1]][x[2]] # None})

\* The driver adds a token, with a reference to each texture that it names.
PutToken(c, token) ==
  /\ open /\ pc[c] = "idle" /\ ~error[c] /\ Waiting < MaxTokens
  /\ token.op = "bind" => InUse < MaxBound
  /\ \A h \in Handles : Uses(token, h) > 0 => client[h] = "owned"
  /\ buffer' = [buffer EXCEPT ![c] = Append(@, token)]
  /\ tex' = [h \in Handles |-> IF Uses(token, h) = 0 THEN tex[h]
               ELSE [tex[h] EXCEPT !.count = @ + Uses(token, h) * UNIT]]
  /\ UNCHANGED << client, txs, fbo, error, pc, dels, open, lock >>

(***************************************************************************)
(* A context processes its command buffer.                                 *)
(***************************************************************************)
\* clientMemoryForType(0): an error of an earlier buffer is answered at once.
submit_command_buffer(c) ==
  /\ pc[c] = "idle" /\ ~error[c] /\ buffer[c] # << >>
  /\ lock = None /\ lock' = c
  /\ pc' = [pc EXCEPT ![c] = "process"]
  /\ UNCHANGED << tex, client, txs, fbo, buffer, error, dels, open >>

\* Count by[h] off each texture and delete those that it takes to 0.
CountOff(by) ==
  LET T == [h \in Handles |-> IF by[h] = 0 THEN tex[h]
                              ELSE [tex[h] EXCEPT !.count = @ - by[h]]]
  IN  delete_texture(T, {h \in Handles : by[h] > 0 /\ T[h].count = 0})

Bound(c, S, h) == Cardinality({s \in S : txs[c][s] = h})

\* Mutant: the slots are overwritten.
OverwriteSlots(c, group, ids) ==
  /\ tex' = CountOff([h \in Handles |->
                        (UNIT - 1) * Cardinality({u \in Units : ids[u] = h})])
  /\ txs' = [txs EXCEPT ![c] = [s \in Slots |->
               IF s[1] = group THEN ids[s[2]] ELSE @[s]]]

\* The slots of a group give up their textures and get the named ones; a
\* reference of the token, UNIT, becomes one of the binding, 1.
SetSlots(c, group, ids) ==
  /\ tex' = CountOff([h \in Handles |->
                        Bound(c, {group} \X Units, h)
                          + (UNIT - 1) * Cardinality({u \in Units : ids[u] = h})])
  /\ txs' = [txs EXCEPT ![c] = [s \in Slots |->
               IF s[1] = group THEN ids[s[2]] ELSE @[s]]]

NoIds == [u \in Units |-> None]

\* process_token_Texture, process_token_BindDrawFBO, process_token_BindReadFBO
process_bind(c, token) ==
  /\ token.op = "bind"
  /\ SetSlots(c, token.group, token.ids)
  /\ fbo' = [fbo EXCEPT ![c] = @ \cup ({token.group} \cap Fbos)]

\* process_token_NoTex with an identifier, TextureVolatile, TextureNonVolatile,
\* TexSubImage2D, CopyPixelsDst, CopyPixelsSrcFBO, AsyncReadDrawBuffer
process_release(c, token) ==
  /\ token.op = "release"
  /\ tex' = CountOff([h \in Handles |-> IF h = token.id THEN UNIT ELSE 0])
  /\ UNCHANGED << txs, fbo >>

\* process_token_NoTex without one
process_NoTex(c, token) ==
  /\ token.op = "noTex"
  /\ tex' = CountOff([h \in Handles |-> Bound(c, {token.slot}, h)])
  /\ txs' = [txs EXCEPT ![c][token.slot] = None]
  /\ UNCHANGED fbo

\* process_token_UnbindDrawFBO, process_token_UnbindReadFBO
process_unbind(c, token) ==
  /\ token.op = "unbind"
  /\ IF token.group \in fbo[c] THEN SetSlots(c, token.group, NoIds)
                               ELSE UNCHANGED << tex, txs >>
  /\ fbo' = [fbo EXCEPT ![c] = @ \ {token.group}]

process_token(c) ==
  /\ pc[c] = "process" /\ buffer[c] # << >>
  /\ LET token == Head(buffer[c])
     IN  \/ process_bind(c, token) \/ process_release(c, token)
         \/ process_NoTex(c, token) \/ process_unbind(c, token)
  /\ buffer' = [buffer EXCEPT ![c] = Tail(@)]
  /\ UNCHANGED << client, error, pc, dels, open, lock >>

\* No memory for the descriptor of a frame buffer: the buffer stays as it is,
\* discardCommandBuffer is not called, and the context takes no other buffer.
process_failure(c) ==
  /\ pc[c] = "process" /\ buffer[c] # << >>
  /\ LET token == Head(buffer[c])
     IN  token.op = "bind" /\ token.group \in Fbos \ fbo[c]
  /\ error' = [error EXCEPT ![c] = TRUE]
  /\ pc' = [pc EXCEPT ![c] = "idle"]
  /\ lock' = None
  /\ UNCHANGED << tex, client, txs, fbo, buffer, dels, open >>

process_end(c) ==
  /\ pc[c] = "process" /\ buffer[c] = << >>
  /\ pc' = [pc EXCEPT ![c] = "idle"]
  /\ lock' = None
  /\ UNCHANGED << tex, client, txs, fbo, buffer, error, dels, open >>

(***************************************************************************)
(* Closing.  The last user client to go frees the shared object and what   *)
(* is left of its textures.                                                *)
(***************************************************************************)
\* CleanupApp: the frame buffers first.
CleanupApp(c) ==
  /\ pc[c] = "idle"
  /\ pc' = [pc EXCEPT ![c] = "cleanup"]
  /\ fbo' = [fbo EXCEPT ![c] = {}]
  /\ UNCHANGED << tex, client, txs, buffer, error, dels, open, lock >>

\* Mutant: the texture is deleted whatever is left of its count.
CollectAlways(c, h) == dels' = [dels EXCEPT ![c] = @ \cup {h}]

Collect(c, h) ==
  dels' = IF tex[h].count = 1 THEN [dels EXCEPT ![c] = @ \cup {h}] ELSE dels

\* CleanupApp: a slot is dropped, without the lock.
DropSlot(c, s) ==
  /\ pc[c] = "cleanup" /\ txs[c][s] # None
  /\ tex' = Add(tex, txs[c][s], -1)
  /\ Collect(c, txs[c][s])
  /\ txs' = [txs EXCEPT ![c][s] = None]
  /\ UNCHANGED << client, fbo, buffer, error, pc, open, lock >>

Closed(c) == pc[c] = "closed"

\* The rest of CleanupApp, under the lock if there is something to delete, and the
\* reference to the shared object.
DeleteDropped(c) ==
  /\ pc[c] = "cleanup" /\ \A s \in Slots : txs[c][s] = None
  /\ dels[c] # {} => lock = None
  /\ tex' = IF ~open /\ \A d \in Contexts \ {c} : Closed(d)
            THEN [h \in Handles |-> None]
            ELSE delete_texture(tex, dels[c])
  /\ dels' = [dels EXCEPT ![c] = {}]
  /\ pc' = [pc EXCEPT ![c] = "closed"]
  /\ UNCHANGED << client, txs, fbo, buffer, error, open, lock >>

CloseDevice ==
  /\ open /\ open' = FALSE
  /\ tex' = IF \A c \in Contexts : Closed(c) THEN [h \in Handles |-> None] ELSE tex
  /\ UNCHANGED << client, contextVars, lock >>

Next ==
  \/ \E type \in Unlinked : new_texture(type)
  \/ \E type \in Linked, addr \in Addrs \cup {None} : new_linked_texture(type, addr)
  \/ \E h \in Handles : device_delete_texture(h) \/ Keep(h) \/ GiveUp(h)
  \/ \E addr \in Addrs : Remap(addr)
  \/ \E c \in Contexts :
       \/ \E token \in Tokens : PutToken(c, token)
       \/ submit_command_buffer(c) \/ process_token(c) \/ process_failure(c)
       \/ process_end(c)
       \/ CleanupApp(c) \/ DeleteDropped(c)
       \/ \E s \in Slots : DropSlot(c, s)
  \/ CloseDevice

Spec == Init /\ [][Next]_vars

(***************************************************************************)
(* Properties.                                                             *)
(***************************************************************************)
\* The shared object is there until the last user client has released it.
SharedAlive == open \/ \E c \in Contexts : ~Closed(c)

\* Who refers to a texture: tokens that wait, slots that are bound, links.
InBuffers(B, h) ==
  UNION {UNION {{<< c, i >>} \X Places(B[c][i], h) : i \in DOMAIN B[c]} : c \in Contexts}
InSlots(X, h) == {x \in Contexts \X Slots : X[x[1]][x[2]] = h}
Links(T, h)   == {d \in Live(T) : T[d].agp = h}

References(h) ==
  UNIT * ((IF client[h] = "owned" THEN 1 ELSE 0) + Cardinality(InBuffers(buffer, h)))
    + Cardinality(InSlots(txs, h)) + Cardinality(Links(tex, h))

\* Those who are about to delete a texture, and the call that just made it.
Keepers(h) ==
  {c \in Contexts : h \in dels[c]}
    \cup (IF client[h] \in {"returned", "deleting"} THEN {None} ELSE {})

TypeOK ==
  /\ tex \in [Handles -> TextureRecord \cup {None}]
  /\ client \in [Handles -> {"none", "returned", "owned", "deleting"}]
  /\ txs \in [Contexts -> [Slots -> Ids]] /\ fbo \in [Contexts -> SUBSET Fbos]
  /\ buffer \in [Contexts -> Seq(Tokens)] /\ error \in [Contexts -> BOOLEAN]
  /\ pc \in [Contexts -> {"idle", "process", "cleanup", "closed"}]
  /\ dels \in [Contexts -> SUBSET Handles]
  /\ open \in BOOLEAN /\ lock \in Contexts \cup {None}

\* A token, a binding, a link, a pointer of the driver, and a deletion under way
\* always find their texture: it was not deleted, and its handle was not given to
\* another one, for then its count would be wrong.
InUseIsLive ==
  SharedAlive => \A h \in Handles : References(h) > 0 \/ Keepers(h) # {} => tex[h] # None

\* The word of references is the sum of what the driver, the command buffers, the
\* contexts and the links hold, whoever of them counted last.
CountsExact == \A h \in Live(tex) : tex[h].count = References(h)

\* A texture that nothing refers to is deleted by exactly one of those who could
\* have dropped the last reference, and one that something refers to by none.
OneDeletes ==
  \A h \in Live(tex) : IF References(h) = 0 THEN Cardinality(Keepers(h)) = 1
                                            ELSE Keepers(h) = {}

\* A new texture is never linked to memory that has been replaced since its AGP
\* texture was made.
LinkCurrent ==
  [][\A h \in Live(tex') : (tex[h] = None /\ tex'[h].agp # None)
       => ~tex'[tex'[h].agp].stale]_vars
=============================================================================
