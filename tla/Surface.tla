------------------------------ MODULE Surface ------------------------------
(***************************************************************************)
(* The backing of a surface (AC/UC/CEsvga2Surface.cpp): the memory in      *)
(* which the WindowServer draws and from which a flush transfers to the    *)
(* screen.  It is a chunk of video memory, a kernel buffer when there is   *)
(* no such chunk, or memory of the client.  The surface grows it when the  *)
(* source grows, maps it into two tasks and hands out three locks.         *)
(*                                                                         *)
(* A call is one step, or two when it waits for a transfer of its own.     *)
(* Nothing in the code keeps two calls on one surface apart: the model     *)
(* assumes that the clients do.  The device runs on during and between the *)
(* calls and does the transfers in order (module CommandStream); a wait on *)
(* a fence is the guard of the step.  Identifiers and regions are those of *)
(* module TransferBuffer: prepare() has an outcome here.                   *)
(*                                                                         *)
(* A video surface shows the WindowServer a black buffer in place of the   *)
(* backing; its overlay puts commands with fences into the FIFO.           *)
(*                                                                         *)
(* Left out: what an enabled overlay reads, which is the memory its        *)
(* registers were given first, and the single write lock that goes through *)
(* (module WindowGrab: it never does).                                     *)
(***************************************************************************)
EXTENDS Integers, FiniteSets

CONSTANTS Chunks,       \* chunks of video memory
          Kernel,       \* kernel buffers
          Clients,      \* client memories
          Contexts,     \* OpenGL contexts that draw into the surface
          MaxSize,      \* bound: pages of a source
          MaxTransfers, \* bound: transfers and overlay commands put into the FIFO
          Trick,        \* the black buffer of a video surface
          None

ASSUME SurfaceAssumption ==
  /\ MaxSize \in Nat /\ MaxTransfers \in Nat
  /\ None \notin Chunks \cup Kernel \cup Clients
  /\ Trick \notin Chunks \cup Kernel \cup Clients \cup {None}

VARIABLES haveID,       \* bHaveID
          size,         \* m_scale.reserved[0]: pages of the source, 0: no source
          offset,       \* m_scale.reserved[2]: the buffer starts inside the source
          region,       \* m_last_region is set
          client,       \* m_client_backing.addr, or None
          bk,           \* m_backing
          locked,       \* bIsLocked
          videoMode,    \* bVideoMode
          overlay,      \* m_video.unit.enabled
          wasVideo,     \* history: it has been a video surface
          glMode,       \* bGLMode
          attach_count, dirty,
          waiting,      \* the transfer a call waits for, 0: no call in progress
          pending, submitted, executed,   \* the transfers of this surface
          fitted,       \* allocBacking has succeeded since the scale changed
          closed,       \* clientClose has been called
          attached      \* contexts between attachGL and detachGL

scale  == << size, offset >>
video  == << videoMode, overlay, wasVideo >>
shape  == << haveID, scale, region, client, video >>
gl     == << glMode, attach_count, dirty, attached >>
fifo   == << pending, submitted, executed >>
vars   == << shape, bk, locked, gl, waiting, fifo, fitted, closed >>

Memory == Chunks \cup Kernel \cup Clients

\* m_backing; gart_ptr is 0 for a kernel descriptor, 1 for a client descriptor, 2
\* for one whose client memory has changed.
Backing ==
  [self : Chunks \cup {None}, md : Kernel \cup Clients \cup {None},
   gart_ptr : 0..2, region : BOOLEAN, fence : Nat, size : Nat,
   map0 : Memory \cup {None, Trick}, map1 : Memory \cup {None}]

NoBacking ==
  [self |-> None, md |-> None, gart_ptr |-> 0, region |-> FALSE, fence |-> 0,
   size |-> 0, map0 |-> None, map1 |-> None]

Init ==
  /\ haveID = FALSE /\ size = 0 /\ offset = FALSE /\ region = FALSE
  /\ client = None /\ bk = NoBacking /\ locked = {}
  /\ videoMode = FALSE /\ overlay = FALSE /\ wasVideo = FALSE
  /\ glMode = FALSE /\ attach_count = 0 /\ dirty = FALSE
  /\ waiting = 0 /\ pending = {} /\ submitted = 0 /\ executed = 0
  /\ fitted = FALSE /\ attached = {} /\ closed = FALSE

-----------------------------------------------------------------------------
isBackingValid(b) == b.self # None \/ b.md # None

BackingMemory(b) == IF b.self # None THEN b.self ELSE b.md

classifyBacking(b) ==
  IF b.self # None THEN 1
  ELSE IF b.md = None THEN 0 ELSE IF b.gart_ptr # 0 THEN 2 ELSE 1

\* Mutant: the size is compared with the source the wrong way around.
hasSourceGrownShrunk(b) == size < b.size

hasSourceGrown(b) == size > b.size

Passed(f) == f <= executed

\* An operation on the backing is the set of its outcomes, [ok, bk]; none while
\* it waits for a transfer.
Outcome(ok, b) == [ok |-> ok, bk |-> b]

\* VendorTransferBuffer::prepare of a new descriptor: the region is defined, or
\* the descriptor is released again.
Prepare(b, m, gart) ==
  {Outcome(TRUE, [b EXCEPT !.md = m, !.gart_ptr = gart, !.region = TRUE,
                           !.fence = 0]),
   Outcome(FALSE, b)}

\* The descriptor of the client's memory is kept as long as the client has not
\* given another memory.
Wrapped(b) == b.gart_ptr = 1

wrapClientBacking(b) ==
  IF classifyBacking(b) = 2 /\ Wrapped(b) THEN {Outcome(TRUE, b)}
  ELSE IF ~Passed(b.fence) THEN {}
  ELSE Prepare([NoBacking EXCEPT !.size = size], client, 1)

\* A kernel buffer when video memory has no chunk; there may be no buffer either.
allocGMRBacking(b) ==
  {Outcome(FALSE, b)} \cup UNION {Prepare(b, m, 0) : m \in Kernel}

\* Mutant: the maps of the old memory are kept.
EmptiedKeepsMaps(b) == [b EXCEPT !.md = None, !.region = FALSE, !.fence = 0]

\* The maps are released, and complete() waits for the last transfer.
Emptied(b) ==
  [b EXCEPT !.map0 = None, !.map1 = None, !.md = None, !.region = FALSE,
            !.fence = 0]

\* VRAMRealloc: the chunk is kept or replaced.  When there is no room the answer
\* is NULL, and the old chunk is lost to the surface.
Reallocated(b) ==
  {Outcome(TRUE, [b EXCEPT !.self = c, !.fence = 0]) : c \in Chunks}
    \cup allocGMRBacking([b EXCEPT !.self = None])

allocBacking(b) ==
  IF client # None THEN wrapClientBacking(b)
  ELSE IF classifyBacking(b) = 1 /\ ~hasSourceGrown(b) THEN {Outcome(TRUE, b)}
  ELSE IF ~Passed(b.fence) THEN {}
  ELSE Reallocated([(IF classifyBacking(b) = 1 THEN Emptied(b) ELSE NoBacking)
                      EXCEPT !.size = size])

\* mapBacking: a map that is there is used again; a new one may fail.
mapBacking0(b) ==
  IF b.map0 # None THEN {Outcome(TRUE, b)}
  ELSE {Outcome(TRUE, [b EXCEPT !.map0 = BackingMemory(b)]), Outcome(FALSE, b)}

mapBacking1(b) ==
  IF b.map1 # None THEN {Outcome(TRUE, b)}
  ELSE {Outcome(TRUE, [b EXCEPT !.map1 = BackingMemory(b)]), Outcome(FALSE, b)}

\* The WindowServer's map is replaced by one of the black buffer, whoever draws
\* through it; without memory for the buffer, or on a device that needs no overlay,
\* it stays, and when the new map fails there is none.
setup_trick_buffer(b) == {b, [b EXCEPT !.map0 = Trick], [b EXCEPT !.map0 = None]}

\* allocBacking, then the map.
AllocAndMap0(b) ==
  UNION {IF o.ok THEN mapBacking0(o.bk) ELSE {o} : o \in allocBacking(b)}

AllocAndMap1(b) ==
  UNION {IF o.ok THEN mapBacking1(o.bk) ELSE {o} : o \in allocBacking(b)}

-----------------------------------------------------------------------------
\* No call is in progress.
Called == waiting = 0 /\ ~closed

Ready == haveID /\ size # 0

\* A transfer between the screen and the backing, with its number.
NewTransfer(b) == [n |-> submitted + 1, mem |-> BackingMemory(b)]

Submit(b) ==
  /\ submitted < MaxTransfers
  /\ pending' = pending \cup {NewTransfer(b)}
  /\ submitted' = submitted + 1
  /\ UNCHANGED executed

\* Mutant: a flush does not note the fence of its transfer.
FencedNot(b) == b

\* The fence of a transfer is noted in the backing.
Fenced(b) == [b EXCEPT !.fence = submitted + 1]

\* VideoSetRegsInRange: a command of the overlay, with its fence.
OverlayCommand(b) ==
  /\ submitted < MaxTransfers
  /\ submitted' = submitted + 1
  /\ bk' = Fenced(b)
  /\ UNCHANGED << pending, executed >>

\* The device does the next transfer or command.
Execute ==
  /\ executed < submitted
  /\ executed' = executed + 1
  /\ pending' = {t \in pending : t.n > executed'}
  /\ UNCHANGED << closed, shape, bk, locked, gl, waiting, submitted, fitted >>

set_id_mode ==
  /\ Called /\ haveID' = TRUE
  /\ UNCHANGED << closed, scale, region, client, video, bk, locked, gl, waiting, fifo,
                  fitted >>

\* set_scale, context_scale_surface and calculateScaleParameters.
set_scale ==
  /\ Called
  /\ size' \in 0..MaxSize /\ offset' \in BOOLEAN
  /\ fitted' = FALSE
  /\ UNCHANGED << closed, haveID, region, client, video, bk, locked, gl, waiting,
                  fifo >>

\* set_shape and set_shape_backing that end early: the options or the client's
\* row bytes are refused, or there is no memory to copy the region.
set_shape_refused ==
  /\ Called
  /\ region' = FALSE /\ client' = None /\ fitted' = FALSE
  /\ \/ UNCHANGED bk
     \/ haveID /\ bk.gart_ptr # 0 /\ bk' = [bk EXCEPT !.gart_ptr = 2]
  /\ UNCHANGED << closed, haveID, scale, video, locked, gl, waiting, fifo >>

\* An empty region only sets the scale, and not that of the WindowServer's own
\* surface; for a video surface it is a region like others.
set_shape_empty ==
  /\ Called /\ ~videoMode
  /\ region' = FALSE /\ client' = None /\ fitted' = FALSE
  /\ \/ size' \in 0..MaxSize /\ offset' = FALSE
     \/ UNCHANGED scale
  /\ UNCHANGED << closed, haveID, video, bk, locked, gl, waiting, fifo >>

\* Mutant: the descriptor of the client's memory is not marked as changed.
MarkChangedNot(b, c) == b

\* A client memory that was wrapped before has to be wrapped again.
MarkChanged(b, c) ==
  IF c # None /\ b.gart_ptr # 0 THEN [b EXCEPT !.gart_ptr = 2] ELSE b

\* An enabled overlay gets the new region.
videoReshape(b) ==
  IF videoMode /\ overlay THEN OverlayCommand(b) ELSE bk' = b /\ UNCHANGED fifo

set_shape_backing ==
  /\ Called /\ haveID
  /\ client' \in Clients \cup {None}
  /\ videoReshape(MarkChanged(bk, client'))
  /\ region' = TRUE
  /\ size' \in 0..MaxSize /\ offset' \in BOOLEAN
  /\ fitted' = FALSE
  /\ UNCHANGED << closed, haveID, video, locked, gl, waiting >>

\* A context makes the surface a video surface or an ordinary one again.  The maps
\* stay as they are, that of the black buffer too.
context_set_surface ==
  /\ Called
  /\ overlay' = FALSE
  /\ videoMode' \in BOOLEAN
  /\ wasVideo' = (wasVideo \/ videoMode')
  /\ UNCHANGED << closed, haveID, scale, region, client, bk, locked, gl, waiting,
                  fifo, fitted >>

-----------------------------------------------------------------------------
\* A client with its own memory draws there; only for OpenGL the surface needs
\* its backing.  In OpenGL mode the drawing is copied to the backing: nothing to
\* do when it has not changed, and the render target is given up when no context
\* draws any more.
surface_read_lock ==
  /\ Called /\ Ready /\ "read" \notin locked
  /\ \E o \in (IF client = None THEN AllocAndMap0(bk)
               ELSE IF glMode THEN allocBacking(bk) ELSE {Outcome(TRUE, bk)}) :
       /\ bk' = o.bk
       /\ fitted' = (fitted \/ (o.ok /\ client = None))
       /\ IF ~o.ok \/ ~glMode \/ (~dirty /\ attach_count > 0)
          THEN /\ locked' = IF o.ok THEN locked \cup {"read"} ELSE locked
               /\ UNCHANGED << waiting, fifo, dirty >>
          ELSE /\ Submit(o.bk) /\ waiting' = submitted' /\ dirty' = FALSE
               /\ locked' = locked \cup {"read"}
  /\ UNCHANGED << closed, shape, glMode, attach_count, attached >>

\* copyGLSurfaceToBacking goes on after its transfer.
copyGLDone ==
  /\ waiting # 0 /\ Passed(waiting) /\ glMode
  /\ waiting' = 0
  /\ glMode' = (attach_count > 0)
  /\ UNCHANGED << closed, shape, bk, locked, attach_count, dirty, fifo, fitted,
                  attached >>

surface_read_unlock ==
  /\ Called /\ "read" \in locked
  /\ locked' = locked \ {"read"}
  /\ UNCHANGED << closed, shape, bk, gl, waiting, fifo, fitted >>

\* Mutant: the lock does not wait for a transfer.
SyncedNot(b) == {b}

\* The lock waits for the last transfer, unless the buffer is inside the source
\* (the WindowServer's shadow framebuffer).
Synced(b) ==
  IF offset \/ b.fence = 0 THEN {b}
  ELSE IF Passed(b.fence) THEN {[b EXCEPT !.fence = 0]} ELSE {}

LockForWriting ==
  \E o \in (IF client = None THEN AllocAndMap0(bk) ELSE {Outcome(TRUE, bk)}) :
    /\ \/ o.ok /\ bk' \in Synced(o.bk) /\ locked' = locked \cup {"write"}
       \/ ~o.ok /\ bk' = o.bk /\ locked' = locked \ {"write"}
    /\ fitted' = (fitted \/ (o.ok /\ client = None))

surface_write_lock ==
  /\ Called /\ Ready /\ "write" \notin locked
  /\ LockForWriting
  /\ UNCHANGED << closed, shape, gl, waiting, fifo >>

surface_write_unlock ==
  /\ Called /\ "write" \in locked
  /\ locked' = locked \ {"write"}
  /\ UNCHANGED << closed, shape, bk, gl, waiting, fifo, fitted >>

\* The locks of the WindowServer do not keep a video surface's map.
context_lock_memory ==
  /\ Called /\ Ready /\ "context" \notin locked
  /\ \E o \in AllocAndMap1(bk) :
       /\ bk' \in IF o.ok /\ videoMode THEN setup_trick_buffer(o.bk) ELSE {o.bk}
       /\ locked' = IF o.ok THEN locked \cup {"context"} ELSE locked
       /\ fitted' = (fitted \/ o.ok)
  /\ UNCHANGED << closed, shape, gl, waiting, fifo >>

context_unlock_memory ==
  /\ Called
  /\ locked' = locked \ {"context"}
  /\ bk' = [bk EXCEPT !.map1 = None]
  /\ UNCHANGED << closed, shape, gl, waiting, fifo, fitted >>

-----------------------------------------------------------------------------
\* The ways to the screen that transfer from the backing: directly or by way of
\* other surfaces of the device, to the master surface or to a screen object.
\* Whatever fails after the transfer, its fence is noted.  A render target is shown
\* without the backing, and without 3D the processor copies (no step).
surface_flush ==
  /\ Called /\ haveID /\ region /\ isBackingValid(bk) /\ ~videoMode /\ ~glMode
  /\ Submit(bk)
  /\ bk' = Fenced(bk)
  /\ UNCHANGED << closed, shape, locked, gl, waiting, fitted >>

\* The first flush enables the overlay, if there is a stream.
surface_flush_video ==
  /\ Called /\ haveID /\ region /\ isBackingValid(bk) /\ videoMode
  /\ overlay' = TRUE
  /\ OverlayCommand(bk)
  /\ UNCHANGED << closed, haveID, scale, region, client, videoMode, wasVideo, locked,
                  gl, waiting, fitted >>

\* The transfer from the screen is waited for; the backing may be a new one, which
\* is why a client that grows the source must not hold a lock.  Without 3D and screen
\* objects the processor copies.
copy_framebuffer_region_to_self ==
  /\ Called /\ Ready /\ ~videoMode /\ ~glMode
  /\ \E o \in allocBacking(bk) :
       \/ ~o.ok /\ bk' = o.bk /\ UNCHANGED << waiting, fifo, fitted >>
       \/ o.ok /\ bk' = o.bk /\ fitted' = TRUE /\ UNCHANGED << waiting, fifo >>
       \/ /\ o.ok /\ Submit(o.bk) /\ bk' = Fenced(o.bk) /\ waiting' = submitted'
          /\ fitted' = TRUE
  /\ UNCHANGED << closed, shape, locked, gl >>

copy_framebuffer_done ==
  /\ waiting # 0 /\ Passed(waiting) /\ ~glMode
  /\ waiting' = 0
  /\ bk' = [bk EXCEPT !.fence = 0]
  /\ UNCHANGED << closed, shape, locked, gl, fifo, fitted >>

\* Between two surfaces the processor copies, after the backing has grown.
copy_surface_region_to_self ==
  /\ Called /\ Ready /\ ~glMode
  /\ \E o \in allocBacking(bk) :
       /\ bk' = o.bk
       /\ fitted' = (fitted \/ o.ok)
  /\ UNCHANGED << closed, shape, locked, gl, waiting, fifo >>

-----------------------------------------------------------------------------
\* Mutant: every context starts to count anew.
attachGLResets(c) ==
  /\ Called /\ c \notin attached /\ (glMode \/ size # 0)
  /\ attached' = attached \cup {c}
  /\ attach_count' = 1
  /\ dirty' = (dirty \/ ~glMode)
  /\ glMode' = TRUE
  /\ UNCHANGED << closed, shape, bk, locked, waiting, fifo, fitted >>

\* The first context makes the render target, which only fails without a 3D device.
attachGL(c) ==
  /\ Called /\ c \notin attached /\ (glMode \/ size # 0)
  /\ attached' = attached \cup {c}
  /\ attach_count' = IF glMode THEN attach_count + 1 ELSE 1
  /\ dirty' = (dirty \/ ~glMode)
  /\ glMode' = TRUE
  /\ UNCHANGED << closed, shape, bk, locked, waiting, fifo, fitted >>

Detached == IF attach_count <= 0 THEN 0 ELSE attach_count - 1

detachGL(c) ==
  /\ Called /\ c \in attached
  /\ attached' = attached \ {c}
  /\ attach_count' = IF glMode THEN Detached ELSE attach_count
  /\ UNCHANGED << closed, shape, bk, locked, glMode, dirty, waiting, fifo, fitted >>

\* A context has drawn, or resizeGL has made the render target anew for it.
touchRenderTarget(c) ==
  /\ Called /\ c \in attached
  /\ dirty' = TRUE
  /\ UNCHANGED << closed, shape, bk, locked, glMode, attach_count, attached,
                  waiting, fifo, fitted >>

\* Cleanup.  The WindowServer is gone; contexts may still hold the surface, which
\* then has no render target and no provider.
clientClose ==
  /\ Called /\ Passed(bk.fence)
  /\ closed' = TRUE
  /\ glMode' = FALSE /\ overlay' = FALSE /\ bk' = NoBacking /\ region' = FALSE
  /\ UNCHANGED << haveID, scale, client, videoMode, wasVideo, locked, attach_count,
                  dirty, attached, waiting, fifo, fitted >>

Next ==
  \/ Execute
  \/ set_id_mode \/ set_scale \/ context_set_surface
  \/ set_shape_refused \/ set_shape_empty \/ set_shape_backing
  \/ surface_read_lock \/ copyGLDone \/ surface_read_unlock
  \/ surface_write_lock \/ surface_write_unlock
  \/ context_lock_memory \/ context_unlock_memory
  \/ surface_flush \/ surface_flush_video
  \/ copy_framebuffer_region_to_self \/ copy_framebuffer_done
  \/ copy_surface_region_to_self
  \/ \E c \in Contexts : attachGL(c) \/ detachGL(c) \/ touchRenderTarget(c)
  \/ clientClose

Spec == Init /\ [][Next]_vars

-----------------------------------------------------------------------------
TypeOK ==
  /\ haveID \in BOOLEAN /\ size \in 0..MaxSize /\ offset \in BOOLEAN
  /\ region \in BOOLEAN /\ client \in Clients \cup {None}
  /\ bk \in Backing
  /\ videoMode \in BOOLEAN /\ overlay \in BOOLEAN /\ wasVideo \in BOOLEAN
  /\ locked \subseteq {"read", "write", "context"}
  /\ glMode \in BOOLEAN /\ attach_count \in Nat /\ dirty \in BOOLEAN
  /\ waiting \in Nat /\ submitted \in Nat /\ executed \in Nat
  /\ pending \subseteq [n : Nat, mem : Memory]
  /\ fitted \in BOOLEAN /\ attached \subseteq Contexts /\ closed \in BOOLEAN

\* The device never transfers to or from memory that the surface has given up:
\* growing, wrapping, falling back and closing all wait for the last fence, which
\* therefore has to cover every transfer of the surface.  What an enabled overlay
\* reads is not one of these transfers.
TransferSafe == \A t \in pending : t.mem = BackingMemory(bk)

\* Whoever grows, wraps or replaces the backing, also while others hold a lock, a
\* map is gone or is one of the memory the backing has now, never of memory the
\* surface gave up.  The only other memory the WindowServer may see is the black
\* buffer that context_lock_memory gives it, on a surface that has been a video
\* surface.
MapsMatchBacking ==
  /\ bk.map0 # None => bk.map0 = BackingMemory(bk) \/ (bk.map0 = Trick /\ wasVideo)
  /\ bk.map1 # None => bk.map1 = BackingMemory(bk)

\* After a lock has provided the backing, and as long as the scale stays, the
\* backing is there and holds the whole source: however often the source grew,
\* shrank or moved between client and kernel before, a flush reads inside it.
BackingHoldsSource ==
  fitted /\ client = None /\ ~closed => isBackingValid(bk) /\ bk.size >= size

\* A descriptor of client memory that is taken as current describes the memory
\* that the client has given last.
ClientWrapCurrent ==
  bk.gart_ptr = 1 /\ client # None => bk.md = client

\* A write lock on a surface whose buffer starts at its source is granted only
\* when no transfer of the surface is left: the client does not draw into what the
\* device is reading.
WriterWaits ==
  []["write" \in locked' \ locked /\ ~offset => pending' = {}]_vars

\* The render target is there as long as a context draws into it, and the count
\* that decides about it is the number of these contexts.
TargetKept ==
  /\ attached # {} /\ ~closed => glMode
  /\ glMode => attach_count = Cardinality(attached)
=============================================================================
