--------------------------- MODULE SurfaceProofs ---------------------------
(***************************************************************************)
(* What module Surface promises, for any number of chunks, buffers, client *)
(* memories and contexts, and any size of the source.                      *)
(*                                                                         *)
(* The argument has two parts.  The operations on a backing keep it well   *)
(* formed, and they either keep its memory and its fence or have waited    *)
(* for the fence (lemmas AllocOutcome and MapOutcome).  And between two    *)
(* calls the fence of the backing covers every transfer the device has not *)
(* done (Covered); while a call waits for its own transfer, that one is    *)
(* the last of all and covers them.                                        *)
(***************************************************************************)
EXTENDS Surface, FiniteSetTheorems, TLAPS

\* A backing has one memory; only a descriptor of client memory has a gart_ptr, and
\* what is mapped is that memory, or the black buffer.
WellFormed(b) ==
  /\ b \in Backing
  /\ b.self # None => b.md = None
  /\ b.gart_ptr # 0 => b.md # None
  /\ b.map0 \notin {None, Trick} => b.map0 = BackingMemory(b)
  /\ b.map1 # None => b.map1 = BackingMemory(b)

\* The black buffer is mapped only on a surface that has been a video surface.
Tricked ==
  /\ bk.map0 = Trick => wasVideo
  /\ videoMode => wasVideo

\* The memory is the surface's own and large enough for the source.
Fits(b) == classifyBacking(b) = 1 /\ size <= b.size

\* Every transfer that is not done is one of this memory, and its fence is noted
\* unless a call is waiting for it.
Covered ==
  /\ \A t \in pending :
       /\ executed < t.n /\ t.n <= submitted
       /\ t.mem = BackingMemory(bk)
       /\ waiting = 0 => t.n <= bk.fence
  /\ waiting # 0 => waiting = submitted
  /\ executed <= submitted

IInv ==
  /\ TypeOK
  /\ WellFormed(bk)
  /\ Tricked
  /\ Covered
  /\ fitted /\ client = None /\ ~closed => Fits(bk)
  /\ ClientWrapCurrent
  /\ IsFiniteSet(attached)
  /\ TargetKept

-----------------------------------------------------------------------------
\* NoBacking, the backing that Cleanup leaves, is empty and well formed.
LEMMA NoBackingEmpty ==
  /\ NoBacking \in Backing /\ WellFormed(NoBacking)
  /\ NoBacking.self = None /\ NoBacking.md = None /\ NoBacking.gart_ptr = 0
  /\ NoBacking.map0 = None /\ NoBacking.map1 = None /\ NoBacking.fence = 0
  /\ Trick # None
BY SurfaceAssumption DEF WellFormed, NoBacking, Backing, BackingMemory

\* prepare() of a new descriptor for an empty backing without maps.
LEMMA PrepareOutcome ==
  ASSUME NEW b, WellFormed(b), b.self = None, b.map0 = None, b.map1 = None,
         NEW m \in Kernel \cup Clients, NEW gart \in 0..2,
         NEW o \in Prepare(b, m, gart)
  PROVE  /\ o.ok \in BOOLEAN /\ WellFormed(o.bk) /\ o.bk.size = b.size
         /\ o.bk.self = None /\ o.bk.map0 = None
         /\ o.ok => o.bk.md = m /\ o.bk.gart_ptr = gart
         /\ ~o.ok => o.bk = b
<1> DEFINE n == [b EXCEPT !.md = m, !.gart_ptr = gart, !.region = TRUE, !.fence = 0]
<1>1. o = [ok |-> TRUE, bk |-> n] \/ o = [ok |-> FALSE, bk |-> b]
  BY DEF Prepare, Outcome
<1>2. n \in Backing
  BY DEF WellFormed, Backing
<1>3. /\ n.self = None /\ n.md = m /\ n.gart_ptr = gart /\ n.size = b.size
      /\ n.map0 = None /\ n.map1 = None
  BY DEF WellFormed, Backing
<1>4. m # None
  BY SurfaceAssumption
<1> HIDE DEF n
<1>5. WellFormed(n)
  BY <1>2, <1>3, <1>4 DEF WellFormed
<1>6. CASE o = [ok |-> TRUE, bk |-> n]
  BY <1>3, <1>5, <1>6
<1>7. CASE o = [ok |-> FALSE, bk |-> b]
  BY <1>7
<1> QED  BY <1>1, <1>6, <1>7

\* VRAMRealloc and the fallback: whatever chunk or buffer there is, or none, the
\* backing stays well formed, and after a success it is there.
LEMMA ReallocatedOutcome ==
  ASSUME NEW b, WellFormed(b), b.md = None, b.gart_ptr = 0,
         b.map0 = None, b.map1 = None, NEW o \in Reallocated(b)
  PROVE  /\ o.ok \in BOOLEAN /\ WellFormed(o.bk) /\ o.bk.map0 = None
         /\ o.ok => classifyBacking(o.bk) = 1 /\ o.bk.size = b.size
<1>1. CASE \E c \in Chunks : o = Outcome(TRUE, [b EXCEPT !.self = c, !.fence = 0])
  <2> PICK c \in Chunks : o = Outcome(TRUE, [b EXCEPT !.self = c, !.fence = 0])
    BY <1>1
  <2> DEFINE n == [b EXCEPT !.self = c, !.fence = 0]
  <2>1. o.ok = TRUE /\ o.bk = n
    BY DEF Outcome
  <2>2. n \in Backing
    BY DEF WellFormed, Backing
  <2>3. /\ n.self = c /\ n.md = None /\ n.gart_ptr = 0 /\ n.size = b.size
        /\ n.map0 = None /\ n.map1 = None
    BY DEF WellFormed, Backing
  <2>4. c # None
    BY SurfaceAssumption
  <2> HIDE DEF n
  <2> QED  BY <2>1, <2>2, <2>3, <2>4 DEF WellFormed, classifyBacking
<1> DEFINE lost == [b EXCEPT !.self = None]
<1>2. /\ lost \in Backing /\ lost.self = None /\ lost.md = None
      /\ lost.gart_ptr = 0 /\ lost.size = b.size
      /\ lost.map0 = None /\ lost.map1 = None
  BY DEF WellFormed, Backing
<1>3. o \in {Outcome(FALSE, lost)} \cup UNION {Prepare(lost, m, 0) : m \in Kernel}
      \/ \E c \in Chunks : o = Outcome(TRUE, [b EXCEPT !.self = c, !.fence = 0])
  BY DEF Reallocated, allocGMRBacking
<1> HIDE DEF lost
<1>4. WellFormed(lost)
  BY <1>2 DEF WellFormed
<1>5. CASE o = Outcome(FALSE, lost)
  BY <1>2, <1>4, <1>5 DEF Outcome
<1>6. CASE \E m \in Kernel : o \in Prepare(lost, m, 0)
  <2> PICK m \in Kernel : o \in Prepare(lost, m, 0)  BY <1>6
  <2>0. m \in Kernel \cup Clients /\ 0 \in 0..2
    OBVIOUS
  <2>1. /\ o.ok \in BOOLEAN /\ WellFormed(o.bk) /\ o.bk.size = lost.size
        /\ o.bk.self = None /\ o.bk.map0 = None
        /\ o.ok => o.bk.md = m /\ o.bk.gart_ptr = 0
    BY <1>2, <1>4, <2>0, PrepareOutcome
  <2>2. m # None
    BY SurfaceAssumption
  <2> QED  BY <1>2, <1>4, <2>1, <2>2 DEF classifyBacking
<1> QED  BY <1>1, <1>3, <1>5, <1>6

\* What every operation on a backing b answers: the backing stays well formed;
\* unless its last transfer has been waited for, its memory and its fence stay;
\* after a success there is a memory, the surface's own if no client has given one,
\* and it holds the source; one that did so already still does; a descriptor that is
\* taken as current is one of the memory the client gave; and the black buffer is
\* not mapped anew.
Sound(b, o) ==
  /\ o.ok \in BOOLEAN /\ WellFormed(o.bk)
  /\ o.ok => isBackingValid(o.bk)
  /\ \/ Passed(b.fence)
     \/ BackingMemory(o.bk) = BackingMemory(b) /\ o.bk.fence = b.fence
  /\ client = None /\ (o.ok \/ Fits(b)) => Fits(o.bk)
  /\ o.bk.map0 = Trick => b.map0 = Trick
  /\ client # None /\ o.bk.gart_ptr = 1 /\ (b.gart_ptr = 1 => b.md = client)
       => o.bk.md = client

\* allocBacking is sound in every outcome.
LEMMA AllocOutcome ==
  ASSUME NEW b, WellFormed(b), size \in Nat, client \in Clients \cup {None},
         NEW o \in allocBacking(b)
  PROVE  Sound(b, o)
<1> USE DEF Outcome, Sound
<1>0. b.size \in Nat
  BY DEF WellFormed, Backing
<1>1. CASE o = Outcome(TRUE, b) /\ client # None /\ classifyBacking(b) = 2
  BY <1>1 DEF isBackingValid, classifyBacking
<1>2. CASE client # None /\ Passed(b.fence)
           /\ o \in Prepare([NoBacking EXCEPT !.size = size], client, 1)
  <2> DEFINE e == [NoBacking EXCEPT !.size = size]
  <2>1. /\ e \in Backing /\ e.self = None /\ e.map0 = None /\ e.map1 = None
        /\ e.gart_ptr = 0
    BY NoBackingEmpty DEF Backing
  <2>2. o \in Prepare(e, client, 1)
    BY <1>2
  <2> HIDE DEF e
  <2>3. WellFormed(e)
    BY <2>1 DEF WellFormed
  <2>4. /\ o.ok \in BOOLEAN /\ WellFormed(o.bk)
        /\ o.ok => o.bk.md = client /\ o.bk.gart_ptr = 1
        /\ ~o.ok => o.bk = e
        /\ o.bk.map0 = None
    <3>1. client \in Kernel \cup Clients /\ 1 \in 0..2
      BY <1>2
    <3> QED  BY <2>1, <2>2, <2>3, <3>1, PrepareOutcome
  <2>5. o.bk.gart_ptr = 1 => o.bk.md = client
    BY <2>1, <2>4
  <2>6. o.ok \in BOOLEAN /\ WellFormed(o.bk) /\ (o.ok => isBackingValid(o.bk))
    BY <1>2, <2>3, <2>4 DEF isBackingValid
  <2> QED  BY <1>2, <2>4, <2>5, <2>6, NoBackingEmpty
<1>3. CASE o = Outcome(TRUE, b) /\ client = None /\ classifyBacking(b) = 1
           /\ ~hasSourceGrown(b)
  BY <1>0, <1>3 DEF isBackingValid, classifyBacking, hasSourceGrown, Fits
<1> DEFINE e == [(IF classifyBacking(b) = 1 THEN Emptied(b) ELSE NoBacking)
                    EXCEPT !.size = size]
<1>4. CASE /\ client = None /\ ~(classifyBacking(b) = 1 /\ ~hasSourceGrown(b))
           /\ Passed(b.fence) /\ o \in Reallocated(e)
  <2>1. /\ e \in Backing /\ e.md = None /\ e.gart_ptr = 0 /\ e.map0 = None
        /\ e.map1 = None /\ e.size = size
    <3>1. CASE classifyBacking(b) = 1
      <4>1. b.gart_ptr = 0
        BY <3>1 DEF WellFormed, classifyBacking
      <4> QED  BY <3>1, <4>1 DEF WellFormed, Emptied, Backing
    <3>2. CASE classifyBacking(b) # 1
      BY <3>2, NoBackingEmpty DEF Backing
    <3> QED  BY <3>1, <3>2
  <2> HIDE DEF e
  <2>2. WellFormed(e)
    BY <2>1 DEF WellFormed
  <2>3. /\ o.ok \in BOOLEAN /\ WellFormed(o.bk) /\ o.bk.map0 = None
        /\ o.ok => classifyBacking(o.bk) = 1 /\ o.bk.size = size
    BY <1>4, <2>1, <2>2, ReallocatedOutcome
  <2>4. ~Fits(b)
    BY <1>0, <1>4 DEF Fits, hasSourceGrown
  <2> QED
    BY <1>4, <2>3, <2>4, NoBackingEmpty DEF Fits, isBackingValid, classifyBacking
<1> QED  BY <1>1, <1>2, <1>3, <1>4 DEF allocBacking, wrapClientBacking

\* The backing n is b, but for its fence and its maps.
SameMemory(n, b) ==
  n.self = b.self /\ n.md = b.md /\ n.gart_ptr = b.gart_ptr /\ n.size = b.size

\* The assignments to one field of the backing: gart_ptr when the client memory has
\* changed, the fence, and the second map.
LEMMA FieldSet ==
  ASSUME NEW b, WellFormed(b), NEW f \in Nat, NEW n,
         \/ n = [b EXCEPT !.gart_ptr = 2] /\ b.gart_ptr # 0
         \/ n = [b EXCEPT !.fence = f] \/ n = [b EXCEPT !.map1 = None]
  PROVE  /\ WellFormed(n) /\ BackingMemory(n) = BackingMemory(b)
         /\ n.md = b.md /\ n.size = b.size /\ n.map0 = b.map0
         /\ (b.gart_ptr = 0 \/ n.gart_ptr # 2 => n.gart_ptr = b.gart_ptr)
         /\ (n.gart_ptr = b.gart_ptr => classifyBacking(n) = classifyBacking(b))
<1> b \in Backing
  BY DEF WellFormed
<1>1. CASE n = [b EXCEPT !.gart_ptr = 2] /\ b.gart_ptr # 0
  <2>1. /\ n \in Backing /\ n.self = b.self /\ n.md = b.md /\ n.size = b.size
        /\ n.gart_ptr = 2 /\ n.map0 = b.map0 /\ n.map1 = b.map1
    BY <1>1 DEF Backing
  <2> QED  BY <1>1, <2>1 DEF WellFormed, BackingMemory, classifyBacking
<1>2. CASE n = [b EXCEPT !.fence = f]
  <2>1. /\ n \in Backing /\ n.self = b.self /\ n.md = b.md /\ n.size = b.size
        /\ n.gart_ptr = b.gart_ptr /\ n.map0 = b.map0 /\ n.map1 = b.map1
    BY <1>2 DEF Backing
  <2> QED  BY <2>1 DEF WellFormed, BackingMemory, classifyBacking
<1>3. CASE n = [b EXCEPT !.map1 = None]
  <2>1. /\ n \in Backing /\ n.self = b.self /\ n.md = b.md /\ n.size = b.size
        /\ n.gart_ptr = b.gart_ptr /\ n.map0 = b.map0 /\ n.map1 = None
    BY <1>3 DEF Backing
  <2> QED  BY <2>1 DEF WellFormed, BackingMemory, classifyBacking
<1> QED  BY <1>1, <1>2, <1>3

\* mapBacking after allocBacking.
LEMMA MapOutcome ==
  ASSUME NEW b, NEW o, Sound(b, o), o.ok,
         NEW r \in mapBacking0(o.bk) \cup mapBacking1(o.bk)
  PROVE  Sound(b, r)
<1> DEFINE n0 == [o.bk EXCEPT !.map0 = BackingMemory(o.bk)]
           n1 == [o.bk EXCEPT !.map1 = BackingMemory(o.bk)]
<1>1. CASE r.bk = o.bk /\ r.ok \in BOOLEAN
  BY <1>1 DEF Sound
<1>2. CASE r = Outcome(TRUE, n0) /\ o.bk.map0 = None
  <2>1. r.ok = TRUE /\ r.bk = n0
    BY <1>2 DEF Outcome
  <2>2. o.bk \in Backing /\ isBackingValid(o.bk)
    BY DEF Sound, WellFormed
  <2>3. n0 \in Backing /\ BackingMemory(o.bk) # Trick
    BY <2>2, SurfaceAssumption DEF Backing, Memory, BackingMemory, isBackingValid
  <2>4. /\ n0.self = o.bk.self /\ n0.md = o.bk.md /\ n0.gart_ptr = o.bk.gart_ptr
        /\ n0.fence = o.bk.fence /\ n0.size = o.bk.size
        /\ n0.map0 = BackingMemory(o.bk) /\ n0.map1 = o.bk.map1
    BY <2>2 DEF Backing
  <2> HIDE DEF n0
  <2>5. BackingMemory(n0) = BackingMemory(o.bk)
        /\ classifyBacking(n0) = classifyBacking(o.bk)
    BY <2>4 DEF BackingMemory, classifyBacking
  <2>6. WellFormed(n0)
    BY <2>3, <2>4, <2>5 DEF WellFormed, Sound
  <2> QED
    BY <1>2, <2>1, <2>3, <2>4, <2>5, <2>6 DEF Sound, isBackingValid, Fits
<1>3. CASE r = Outcome(TRUE, n1) /\ o.bk.map1 = None
  <2>1. r.ok = TRUE /\ r.bk = n1
    BY <1>3 DEF Outcome
  <2>2. o.bk \in Backing /\ isBackingValid(o.bk)
    BY DEF Sound, WellFormed
  <2>3. n1 \in Backing
    BY <2>2 DEF Backing, Memory, BackingMemory, isBackingValid
  <2>4. /\ n1.self = o.bk.self /\ n1.md = o.bk.md /\ n1.gart_ptr = o.bk.gart_ptr
        /\ n1.fence = o.bk.fence /\ n1.size = o.bk.size
        /\ n1.map1 = BackingMemory(o.bk) /\ n1.map0 = o.bk.map0
    BY <2>2 DEF Backing
  <2> HIDE DEF n1
  <2>5. BackingMemory(n1) = BackingMemory(o.bk)
        /\ classifyBacking(n1) = classifyBacking(o.bk)
    BY <2>4 DEF BackingMemory, classifyBacking
  <2>6. WellFormed(n1)
    BY <2>3, <2>4, <2>5 DEF WellFormed, Sound
  <2> QED
    BY <1>3, <2>1, <2>4, <2>5, <2>6 DEF Sound, isBackingValid, Fits
<1> QED
  <2>1. \/ r = Outcome(TRUE, o.bk) \/ r = Outcome(FALSE, o.bk)
        \/ r = Outcome(TRUE, n0) /\ o.bk.map0 = None
        \/ r = Outcome(TRUE, n1) /\ o.bk.map1 = None
    BY DEF mapBacking0, mapBacking1
  <2> HIDE DEF n0, n1
  <2>2. CASE r = Outcome(TRUE, o.bk)
    BY <1>1, <2>2 DEF Outcome
  <2>3. CASE r = Outcome(FALSE, o.bk)
    BY <1>1, <2>3 DEF Outcome
  <2> QED  BY <1>2, <1>3, <2>1, <2>2, <2>3

\* The two sequences of the locks.
LEMMA AllocAndMapOutcome ==
  ASSUME NEW b, WellFormed(b), size \in Nat, client \in Clients \cup {None},
         NEW r \in AllocAndMap0(b) \cup AllocAndMap1(b)
  PROVE  Sound(b, r)
<1>1. PICK o \in allocBacking(b) :
        IF o.ok THEN r \in mapBacking0(o.bk) \cup mapBacking1(o.bk) ELSE r = o
  BY DEF AllocAndMap0, AllocAndMap1
<1>2. Sound(b, o)
  BY AllocOutcome
<1> QED  BY <1>1, <1>2, MapOutcome

-----------------------------------------------------------------------------
\* Whatever an operation did to the backing before a call goes on: the transfers
\* that are not done are transfers of its memory, and its fence covers them.
LEMMA StillCovered ==
  ASSUME IInv, waiting = 0, NEW o, Sound(bk, o)
  PROVE  \A t \in pending :
           /\ executed < t.n /\ t.n <= submitted
           /\ t.mem = BackingMemory(o.bk) /\ t.n <= o.bk.fence
<1>1. CASE Passed(bk.fence)
  <2>1. \A t \in pending : executed < t.n /\ t.n <= bk.fence
    BY DEF IInv, Covered
  <2>2. executed \in Nat /\ bk.fence \in Nat /\ \A t \in pending : t.n \in Nat
    BY DEF IInv, TypeOK, Backing
  <2> QED  BY <1>1, <2>1, <2>2 DEF Passed
<1>2. CASE BackingMemory(o.bk) = BackingMemory(bk) /\ o.bk.fence = bk.fence
  BY <1>2 DEF IInv, Covered
<1> QED  BY <1>1, <1>2 DEF Sound

-----------------------------------------------------------------------------
\* Before the first call there is no backing and no transfer.
LEMMA InitInv == Init => IInv
<1> SUFFICES ASSUME Init PROVE IInv
  OBVIOUS
<1> USE DEF Init
<1>1. TypeOK
  <2>1. size \in 0..MaxSize
    BY SurfaceAssumption
  <2>2. bk \in Backing
    BY NoBackingEmpty
  <2> QED  BY <2>1, <2>2 DEF TypeOK
<1>2. WellFormed(bk)
  BY NoBackingEmpty
<1>3. Covered
  BY DEF Covered
<1>4. ClientWrapCurrent
  BY NoBackingEmpty DEF ClientWrapCurrent
<1>5. IsFiniteSet(attached) /\ TargetKept /\ Tricked
  BY FS_EmptySet, NoBackingEmpty DEF TargetKept, Tricked
<1> QED  BY <1>1, <1>2, <1>3, <1>4, <1>5 DEF IInv

\* The device does a transfer: what it has done, nobody waits for any more.
LEMMA ExecuteInv == ASSUME IInv, Execute PROVE IInv'
<1> USE DEF IInv, Execute, shape, scale, video, gl, Tricked
<1>1. TypeOK'
  BY DEF TypeOK
<1>2. Covered'
  BY DEF Covered, TypeOK, BackingMemory
<1>3. WellFormed(bk)' /\ ClientWrapCurrent' /\ TargetKept'
  BY DEF WellFormed, ClientWrapCurrent, TargetKept, BackingMemory
<1>4. (fitted /\ client = None /\ ~closed => Fits(bk))'
  BY DEF Fits, classifyBacking
<1> QED  BY <1>1, <1>2, <1>3, <1>4

\* The calls that only set the surface's own description.
LEMMA ShapeInv ==
  ASSUME IInv, set_id_mode \/ set_scale \/ set_shape_empty
               \/ surface_read_unlock \/ surface_write_unlock
  PROVE  IInv'
<1> USE DEF IInv, Called, set_id_mode, set_scale, set_shape_empty, shape, scale, video,
        gl, fifo, surface_read_unlock, surface_write_unlock, Tricked
<1>1. TypeOK'
  BY DEF TypeOK
<1>2. Covered'
  BY DEF Covered, BackingMemory
<1>3. WellFormed(bk)' /\ ClientWrapCurrent' /\ TargetKept'
  BY DEF WellFormed, ClientWrapCurrent, TargetKept, BackingMemory
<1>4. (fitted /\ client = None /\ ~closed => Fits(bk))'
  BY DEF Fits, classifyBacking
<1> QED  BY <1>1, <1>2, <1>3, <1>4

\* The fence of a transfer or command that has just been put into the FIFO.
LEMMA FencedOutcome ==
  ASSUME NEW b, WellFormed(b), submitted \in Nat
  PROVE  /\ WellFormed(Fenced(b)) /\ SameMemory(Fenced(b), b)
         /\ Fenced(b).fence = submitted + 1 /\ Fenced(b).map0 = b.map0
<1>1. b \in Backing
  BY DEF WellFormed
<1>2. /\ SameMemory(Fenced(b), b) /\ Fenced(b).fence = submitted + 1
      /\ Fenced(b).map0 = b.map0
  BY <1>1 DEF SameMemory, Backing, Fenced
<1>3. WellFormed(Fenced(b))
  <2>1. submitted + 1 \in Nat /\ Fenced(b) = [b EXCEPT !.fence = submitted + 1]
    BY DEF Fenced
  <2> QED  BY <2>1, FieldSet
<1> QED  BY <1>2, <1>3

\* A new shape: a client memory that was wrapped is marked as changed, and an
\* enabled overlay gets a command.
LEMMA SetShapeInv ==
  ASSUME IInv, set_shape_refused \/ set_shape_backing
  PROVE  IInv'
<1> USE DEF IInv, Called, shape, scale, video, gl, fifo
<1>0. WellFormed(bk) /\ submitted \in Nat /\ executed \in Nat
  BY DEF TypeOK
<1>1. PICK b : /\ b = bk \/ (b = [bk EXCEPT !.gart_ptr = 2] /\ bk.gart_ptr # 0)
               /\ client' = None \/ b.gart_ptr # 1
               /\ \/ bk' = b /\ UNCHANGED << pending, submitted, executed >>
                  \/ OverlayCommand(b)
  <2>1. CASE set_shape_refused
    BY <2>1 DEF set_shape_refused
  <2>2. CASE set_shape_backing
    <3> DEFINE b == MarkChanged(bk, client')
    <3>1. \/ bk' = b /\ UNCHANGED << pending, submitted, executed >>
          \/ OverlayCommand(b)
      BY <2>2 DEF set_shape_backing, videoReshape
    <3>2. b = bk \/ (b = [bk EXCEPT !.gart_ptr = 2] /\ bk.gart_ptr # 0)
      BY DEF MarkChanged
    <3>3. client' = None \/ b.gart_ptr # 1
      BY DEF MarkChanged, TypeOK, Backing
    <3> HIDE DEF b
    <3> QED  BY <3>1, <3>2, <3>3
  <2> QED  BY <2>1, <2>2
<1>2. /\ WellFormed(b) /\ BackingMemory(b) = BackingMemory(bk)
      /\ b.fence = bk.fence /\ b.map0 = bk.map0
  <2>1. CASE b = bk
    BY <1>0, <2>1
  <2>2. CASE b = [bk EXCEPT !.gart_ptr = 2] /\ bk.gart_ptr # 0
    <3>1. b.fence = bk.fence
      BY <2>2 DEF TypeOK, Backing
    <3> QED  BY <1>0, <2>2, <3>1, FieldSet, 0 \in Nat
  <2> QED  BY <1>1, <2>1, <2>2
<1>3. /\ WellFormed(bk') /\ BackingMemory(bk') = BackingMemory(bk)
      /\ bk'.map0 = bk.map0 /\ bk'.gart_ptr = b.gart_ptr
      /\ pending' = pending /\ executed' = executed
      /\ \/ submitted' = submitted /\ bk'.fence = bk.fence
         \/ submitted' = submitted + 1 /\ bk'.fence = submitted + 1
  <2>1. CASE bk' = b /\ UNCHANGED << pending, submitted, executed >>
    BY <1>2, <2>1
  <2>2. CASE OverlayCommand(b)
    <3>1. /\ bk' = Fenced(b) /\ pending' = pending /\ executed' = executed
          /\ submitted' = submitted + 1
      BY <2>2 DEF OverlayCommand
    <3>2. /\ WellFormed(bk') /\ SameMemory(bk', b) /\ bk'.fence = submitted + 1
          /\ bk'.map0 = b.map0
      BY <1>0, <1>2, <3>1, FencedOutcome
    <3>3. BackingMemory(bk') = BackingMemory(b)
      BY <3>2 DEF SameMemory, BackingMemory
    <3> QED  BY <1>2, <3>1, <3>2, <3>3 DEF SameMemory
  <2> QED  BY <1>1, <2>1, <2>2
<1>4. /\ waiting = 0 /\ waiting' = waiting /\ fitted' = FALSE
      /\ glMode' = glMode /\ attach_count' = attach_count /\ attached' = attached
      /\ closed' = closed /\ videoMode' = videoMode /\ wasVideo' = wasVideo
      /\ dirty' = dirty /\ overlay' = overlay /\ locked' = locked
      /\ haveID' = haveID
  BY DEF set_shape_refused, set_shape_backing
<1>5. TypeOK'
  <2>1. bk' \in Backing /\ submitted' \in Nat
    BY <1>0, <1>3 DEF WellFormed
  <2>2. /\ size' \in 0..MaxSize /\ offset' \in BOOLEAN /\ region' \in BOOLEAN
        /\ client' \in Clients \cup {None}
    BY DEF TypeOK, set_shape_refused, set_shape_backing
  <2> QED  BY <1>3, <1>4, <2>1, <2>2 DEF TypeOK
<1>6. WellFormed(bk)'
  BY <1>3 DEF WellFormed, Backing, BackingMemory
<1>7. Covered'
  <2>1. BackingMemory(bk)' = BackingMemory(bk)
    BY <1>3 DEF BackingMemory
  <2>2. \A t \in pending : t.n \in Nat /\ t.n <= submitted /\ t.n <= bk.fence
    BY <1>4 DEF TypeOK, Covered
  <2> QED  BY <1>0, <1>3, <1>4, <2>1, <2>2 DEF Covered
<1>8. ClientWrapCurrent' /\ TargetKept' /\ IsFiniteSet(attached)' /\ Tricked'
  BY <1>1, <1>3, <1>4 DEF ClientWrapCurrent, TargetKept, Tricked
<1> QED  BY <1>4, <1>5, <1>6, <1>7, <1>8

\* A context changes the kind of the surface.
LEMMA SetSurfaceInv == ASSUME IInv, context_set_surface PROVE IInv'
<1> USE DEF IInv, Called, context_set_surface, scale, gl, fifo
<1>1. /\ videoMode' \in BOOLEAN /\ overlay' \in BOOLEAN /\ wasVideo' \in BOOLEAN
      /\ (wasVideo \/ videoMode' => wasVideo')
  <2>1. videoMode' \in BOOLEAN /\ overlay' = FALSE /\ wasVideo' = (wasVideo \/ videoMode')
    OBVIOUS
  <2> QED  BY <2>1, Zenon
<1>2. TypeOK'
  BY <1>1 DEF TypeOK
<1>3. Covered'
  BY DEF Covered, BackingMemory
<1>4. WellFormed(bk)' /\ ClientWrapCurrent' /\ TargetKept'
  BY DEF WellFormed, ClientWrapCurrent, TargetKept, BackingMemory
<1>5. Tricked'
  BY <1>1 DEF Tricked
<1>6. (fitted /\ client = None /\ ~closed => Fits(bk))'
  BY DEF Fits, classifyBacking
<1> QED  BY <1>2, <1>3, <1>4, <1>5, <1>6

\* The contexts: the count that decides about the render target is their number.
LEMMA ContextInv ==
  ASSUME IInv, NEW c \in Contexts, attachGL(c) \/ detachGL(c) \/ touchRenderTarget(c)
  PROVE  IInv'
<1> USE DEF IInv, Called, shape, scale, video, fifo
<1>1. Cardinality(attached) \in Nat
  BY FS_CardinalityType
<1>2. TypeOK' /\ IsFiniteSet(attached)' /\ TargetKept'
  <2>1. CASE attachGL(c)
    <3>1. IsFiniteSet(attached') /\ Cardinality(attached') = Cardinality(attached) + 1
      BY <2>1, FS_AddElement DEF attachGL
    <3>2. ~glMode => Cardinality(attached) = 0
      BY <2>1, FS_EmptySet DEF attachGL, TargetKept
    <3>3. TypeOK'
      BY <2>1 DEF attachGL, TypeOK
    <3>4. TargetKept'
      BY <1>1, <2>1, <3>1, <3>2 DEF attachGL, TargetKept
    <3> QED  BY <3>1, <3>3, <3>4
  <2>2. CASE detachGL(c)
    <3>1. IsFiniteSet(attached') /\ Cardinality(attached') = Cardinality(attached) - 1
      BY <2>2, FS_RemoveElement DEF detachGL
    <3>2. glMode /\ attach_count = Cardinality(attached)
      BY <2>2 DEF detachGL, TargetKept
    <3>3. Cardinality(attached') \in Nat
      BY <3>1, FS_CardinalityType
    <3>4. attach_count' = Cardinality(attached')
      BY <1>1, <2>2, <3>1, <3>2, <3>3 DEF detachGL, Detached
    <3>5. TypeOK'
      BY <2>2, <3>3, <3>4 DEF detachGL, TypeOK
    <3> QED  BY <2>2, <3>1, <3>2, <3>4, <3>5 DEF detachGL, TargetKept
  <2>3. CASE touchRenderTarget(c)
    BY <2>3 DEF touchRenderTarget, TypeOK, TargetKept
  <2> QED  BY <2>1, <2>2, <2>3
<1>3. UNCHANGED << haveID, size, offset, region, client, videoMode, wasVideo, closed,
                   bk, waiting, pending, submitted, executed, fitted >>
  BY DEF attachGL, detachGL, touchRenderTarget
<1>4. Covered' /\ WellFormed(bk)' /\ ClientWrapCurrent' /\ Tricked'
  BY <1>3 DEF Covered, WellFormed, ClientWrapCurrent, Tricked, BackingMemory
<1>5. (fitted /\ client = None /\ ~closed => Fits(bk))'
  BY <1>3 DEF Fits, classifyBacking
<1> QED  BY <1>2, <1>4, <1>5

-----------------------------------------------------------------------------
\* The surface's own description stays, but for its overlay.
DescriptionKept ==
  /\ UNCHANGED << haveID, scale, region, client, videoMode, wasVideo >>
  /\ overlay' \in BOOLEAN

\* A call that makes no transfer: its fence stays, or there is no transfer left.
NoTransfer(b) ==
  /\ UNCHANGED << waiting, fifo >>
  /\ bk'.fence = b.fence \/ pending = {}

\* A call that makes one: it notes the fence or waits.
OneTransfer(b) ==
  /\ Submit(b) /\ isBackingValid(b)
  /\ \/ bk'.fence = submitted + 1 /\ waiting' \in {0, submitted'}
     \/ waiting' = submitted'

\* A call that gives the overlay a command.
OneCommand ==
  /\ UNCHANGED << waiting, pending, executed >>
  /\ submitted' = submitted + 1 /\ bk'.fence = submitted + 1

\* Every call that uses the backing: an operation on it, then at most one transfer
\* or command.
LEMMA UseInv ==
  ASSUME IInv, Called, NEW o, Sound(bk, o),
         WellFormed(bk'), SameMemory(bk', o.bk),
         bk'.map0 = Trick => bk.map0 = Trick \/ videoMode,
         DescriptionKept, UNCHANGED << closed, glMode, attach_count, attached >>,
         locked' \subseteq {"read", "write", "context"}, dirty' \in BOOLEAN,
         fitted' \in BOOLEAN, fitted' /\ client = None => fitted \/ o.ok,
         NoTransfer(o.bk) \/ OneTransfer(o.bk) \/ OneCommand
  PROVE  IInv'
<1> USE DEF DescriptionKept, scale, fifo, Called
<1>1. /\ BackingMemory(bk') = BackingMemory(o.bk)
      /\ classifyBacking(bk') = classifyBacking(o.bk)
  BY DEF SameMemory, BackingMemory, classifyBacking
<1>2. \A t \in pending : /\ executed < t.n /\ t.n <= submitted
                         /\ t.mem = BackingMemory(bk') /\ t.n <= o.bk.fence
  BY <1>1, StillCovered
<1>3. TypeOK /\ bk' \in Backing /\ o.bk \in Backing
  BY DEF IInv, WellFormed, Sound
<1>4. \A t \in pending : t.n \in Nat
  BY <1>3 DEF TypeOK
<1>5. TypeOK'
  <2>1. CASE NoTransfer(o.bk)
    BY <1>3, <2>1 DEF NoTransfer, TypeOK
  <2>2. CASE OneTransfer(o.bk)
    <3>1. NewTransfer(o.bk) \in [n : Nat, mem : Memory]
      <4>1. BackingMemory(o.bk) \in Memory
        BY <1>3, <2>2 DEF OneTransfer, isBackingValid, BackingMemory, Backing, Memory
      <4> QED  BY <1>3, <4>1 DEF NewTransfer, TypeOK
    <3>2. /\ pending' \subseteq [n : Nat, mem : Memory]
          /\ submitted' \in Nat /\ executed' \in Nat /\ waiting' \in Nat
      BY <1>3, <2>2, <3>1 DEF OneTransfer, Submit, TypeOK
    <3> QED  BY <1>3, <3>2 DEF TypeOK
  <2>3. CASE OneCommand
    BY <1>3, <2>3 DEF OneCommand, TypeOK
  <2> QED  BY <2>1, <2>2, <2>3
<1>6. Covered'
  <2>1. BackingMemory(bk)' = BackingMemory(bk')
    BY DEF BackingMemory
  <2>2. CASE NoTransfer(o.bk)
    BY <1>2, <2>1, <2>2 DEF NoTransfer, Covered, IInv
  <2>3. CASE OneTransfer(o.bk)
    <3>1. /\ NewTransfer(o.bk).n = submitted + 1
          /\ NewTransfer(o.bk).mem = BackingMemory(bk')
      BY <1>1 DEF NewTransfer
    <3>2. submitted \in Nat /\ executed \in Nat
      BY <1>3 DEF TypeOK
    <3>3. /\ pending' = pending \cup {NewTransfer(o.bk)}
          /\ submitted' = submitted + 1 /\ executed' = executed
          /\ submitted' # 0
      BY <2>3, <3>2 DEF OneTransfer, Submit
    <3>4. executed <= submitted
      BY DEF IInv, Covered
    <3>5. \A t \in pending' : /\ executed' < t.n /\ t.n <= submitted'
                              /\ t.mem = BackingMemory(bk')
      BY <1>2, <1>4, <3>1, <3>2, <3>3, <3>4
    <3>6. waiting' = 0 => \A t \in pending' : t.n <= bk'.fence
      BY <2>3, <3>3, <3>5 DEF OneTransfer
    <3>7. (waiting' # 0 => waiting' = submitted') /\ executed' <= submitted'
      BY <2>3, <3>2, <3>3, <3>4 DEF OneTransfer
    <3> QED  BY <2>1, <3>5, <3>6, <3>7 DEF Covered
  <2>4. CASE OneCommand
    <3>1. submitted \in Nat /\ executed \in Nat /\ executed <= submitted
      BY <1>3 DEF IInv, Covered, TypeOK
    <3> QED  BY <1>2, <1>4, <2>1, <2>4, <3>1 DEF OneCommand, Covered
  <2> QED  BY <2>2, <2>3, <2>4
<1>7. (fitted /\ client = None /\ ~closed => Fits(bk))'
  <2>1. SUFFICES ASSUME fitted', client = None PROVE Fits(bk)'
    OBVIOUS
  <2>2. Fits(o.bk)
    BY <2>1 DEF IInv, Sound
  <2>3. classifyBacking(bk)' = classifyBacking(bk')
    BY DEF classifyBacking
  <2> QED  BY <1>1, <2>2, <2>3 DEF Fits, SameMemory
<1>8. ClientWrapCurrent'
  BY DEF IInv, Sound, SameMemory, ClientWrapCurrent
<1>9. WellFormed(bk)' /\ IsFiniteSet(attached)' /\ TargetKept' /\ Tricked'
  BY DEF IInv, WellFormed, BackingMemory, TargetKept, Tricked
<1> QED  BY <1>5, <1>6, <1>7, <1>8, <1>9 DEF IInv

\* Doing nothing to the backing is sound.
LEMMA SameOutcome ==
  ASSUME IInv
  PROVE  Sound(bk, Outcome(FALSE, bk)) /\ Outcome(FALSE, bk).bk = bk
<1>1. Outcome(FALSE, bk).bk = bk /\ Outcome(FALSE, bk).ok = FALSE
  BY DEF Outcome
<1> QED  BY <1>1 DEF IInv, Sound, ClientWrapCurrent

\* The facts about the description that the operations on the backing need.
LEMMA Described ==
  ASSUME IInv
  PROVE  /\ WellFormed(bk) /\ (UNCHANGED shape => DescriptionKept)
         /\ size \in Nat /\ client \in Clients \cup {None}
         /\ submitted \in Nat /\ fitted \in BOOLEAN /\ dirty \in BOOLEAN
         /\ locked \subseteq {"read", "write", "context"}
BY DEF IInv, TypeOK, DescriptionKept, shape, video

\* The read lock, with the transfer it waits for in OpenGL mode.
LEMMA ReadLockInv == ASSUME IInv, surface_read_lock PROVE IInv'
<1> USE Described DEF surface_read_lock
<1>1. PICK o \in (IF client = None THEN AllocAndMap0(bk)
                  ELSE IF glMode THEN allocBacking(bk) ELSE {Outcome(TRUE, bk)}) :
        /\ bk' = o.bk
        /\ fitted' = (fitted \/ (o.ok /\ client = None))
        /\ IF ~o.ok \/ ~glMode \/ (~dirty /\ attach_count > 0)
           THEN /\ locked' = IF o.ok THEN locked \cup {"read"} ELSE locked
                /\ UNCHANGED << waiting, fifo, dirty >>
           ELSE /\ Submit(o.bk) /\ waiting' = submitted' /\ dirty' = FALSE
                /\ locked' = locked \cup {"read"}
  OBVIOUS
<1>2. locked' \subseteq {"read", "write", "context"} /\ dirty' \in BOOLEAN
  BY <1>1
<1>3. Called /\ UNCHANGED << shape, closed, glMode, attach_count, attached >>
  OBVIOUS
<1>4. CASE client # None /\ ~glMode
  <2>1. bk' = bk /\ fitted' = fitted /\ UNCHANGED << waiting, fifo >>
    BY <1>1, <1>4 DEF Outcome
  <2>2. /\ WellFormed(bk') /\ SameMemory(bk', Outcome(FALSE, bk).bk)
        /\ NoTransfer(Outcome(FALSE, bk).bk)
    BY <2>1, SameOutcome DEF SameMemory, NoTransfer
  <2> QED  BY <1>2, <1>3, <2>1, <2>2, SameOutcome, UseInv
<1>5. CASE client = None \/ glMode
  <2>1. Sound(bk, o)
    BY <1>1, <1>5, AllocOutcome, AllocAndMapOutcome
  <2>2. /\ WellFormed(bk') /\ SameMemory(bk', o.bk) /\ (o.ok => isBackingValid(o.bk))
        /\ o.ok \in BOOLEAN /\ (bk'.map0 = Trick => bk.map0 = Trick)
    BY <1>1, <2>1 DEF SameMemory, Sound
  <2>3. NoTransfer(o.bk) \/ OneTransfer(o.bk)
    BY <1>1, <2>2 DEF NoTransfer, OneTransfer
  <2>4. fitted' \in BOOLEAN /\ (fitted' /\ client = None => fitted \/ o.ok)
    BY <1>1, <2>2
  <2> QED  BY <1>2, <1>3, <2>1, <2>2, <2>3, <2>4, UseInv
<1> QED  BY <1>4, <1>5

\* What a write lock does to the backing: an operation on it, and the wait for its
\* fence unless the buffer is inside the source.
LEMMA WriteLockStep ==
  ASSUME IInv, surface_write_lock
  PROVE  \E o : /\ Sound(bk, o) /\ (fitted' /\ client = None => fitted \/ o.ok)
                /\ \/ bk' \in Synced(o.bk) /\ locked' = locked \cup {"write"}
                   \/ bk' = o.bk /\ locked' = locked \ {"write"}
                /\ client = None => o \in AllocAndMap0(bk)
                /\ client # None => o.bk = bk
<1> USE Described DEF surface_write_lock, LockForWriting
<1>1. PICK o \in (IF client = None THEN AllocAndMap0(bk) ELSE {Outcome(TRUE, bk)}) :
        /\ \/ o.ok /\ bk' \in Synced(o.bk) /\ locked' = locked \cup {"write"}
           \/ ~o.ok /\ bk' = o.bk /\ locked' = locked \ {"write"}
        /\ fitted' = (fitted \/ (o.ok /\ client = None))
  OBVIOUS
<1>2. CASE client = None
  <2>1. Sound(bk, o)
    BY <1>1, <1>2, AllocAndMapOutcome
  <2> QED  BY <1>1, <1>2, <2>1
<1>3. CASE client # None
  <2>1. o.bk = bk
    BY <1>1, <1>3 DEF Outcome
  <2> QED  BY <1>1, <1>3, <2>1, SameOutcome
<1> QED  BY <1>2, <1>3

\* The wait of the write lock: the fence stays, or there is no transfer left.
LEMMA SyncedOutcome ==
  ASSUME IInv, Called, NEW o, Sound(bk, o), NEW n \in Synced(o.bk)
  PROVE  /\ WellFormed(n) /\ SameMemory(n, o.bk)
         /\ n.map0 = o.bk.map0 /\ n.map1 = o.bk.map1
         /\ n.fence = o.bk.fence \/ pending = {}
         /\ ~offset => pending = {}
<1>1. \A t \in pending : executed < t.n /\ t.n <= o.bk.fence
  BY StillCovered DEF Called
<1>2. /\ executed \in Nat /\ o.bk \in Backing /\ o.bk.fence \in Nat
      /\ \A t \in pending : t.n \in Nat
  BY DEF IInv, TypeOK, Sound, WellFormed, Backing
<1>3. Passed(o.bk.fence) \/ o.bk.fence = 0 => pending = {}
  BY <1>1, <1>2 DEF Passed
<1>4. CASE n = o.bk /\ (offset \/ o.bk.fence = 0)
  BY <1>3, <1>4 DEF Sound, SameMemory
<1>5. CASE n = [o.bk EXCEPT !.fence = 0] /\ Passed(o.bk.fence)
  <2> DEFINE b == o.bk
  <2>1. b \in Backing /\ WellFormed(b) /\ n = [b EXCEPT !.fence = 0]
    BY <1>2, <1>5 DEF Sound
  <2> HIDE DEF b
  <2>2. SameMemory(n, b) /\ n.map0 = b.map0 /\ n.map1 = b.map1
    BY <2>1 DEF SameMemory, Backing
  <2>3. WellFormed(n)
    BY <2>1, FieldSet, 0 \in Nat
  <2> QED  BY <1>3, <1>5, <2>2, <2>3 DEF b
<1> QED  BY <1>4, <1>5 DEF Synced

\* The write lock.
LEMMA WriteLockInv == ASSUME IInv, surface_write_lock PROVE IInv'
<1> USE Described
<1>1. PICK o : /\ Sound(bk, o) /\ (fitted' /\ client = None => fitted \/ o.ok)
               /\ \/ bk' \in Synced(o.bk) /\ locked' = locked \cup {"write"}
                  \/ bk' = o.bk /\ locked' = locked \ {"write"}
  BY WriteLockStep
<1>2. /\ Called /\ UNCHANGED << shape, gl, closed, waiting, fifo >>
      /\ fitted' \in BOOLEAN
  BY DEF surface_write_lock, LockForWriting
<1>3. locked' \subseteq {"read", "write", "context"} /\ dirty' \in BOOLEAN
  BY <1>1, <1>2 DEF gl
<1>4. /\ WellFormed(bk') /\ SameMemory(bk', o.bk) /\ NoTransfer(o.bk)
      /\ bk'.map0 = Trick => bk.map0 = Trick
  <2>1. CASE bk' \in Synced(o.bk)
    BY <1>1, <1>2, <2>1, SyncedOutcome DEF NoTransfer, Sound
  <2>2. CASE bk' = o.bk
    BY <1>1, <1>2, <2>2 DEF NoTransfer, SameMemory, Sound
  <2> QED  BY <1>1, <2>1, <2>2
<1> QED  BY <1>1, <1>2, <1>3, <1>4, UseInv DEF gl

\* The lock of a context, which may give the WindowServer the black buffer.
LEMMA ContextLockInv == ASSUME IInv, context_lock_memory PROVE IInv'
<1> USE Described
<1>1. PICK o \in AllocAndMap1(bk) :
        /\ \/ bk' = o.bk
           \/ bk' = [o.bk EXCEPT !.map0 = Trick] /\ videoMode
           \/ bk' = [o.bk EXCEPT !.map0 = None]
        /\ locked' = IF o.ok THEN locked \cup {"context"} ELSE locked
        /\ fitted' = (fitted \/ o.ok)
  BY DEF context_lock_memory, setup_trick_buffer
<1>2. Called /\ UNCHANGED << shape, gl, closed, waiting, fifo >>
  BY DEF context_lock_memory
<1>3. Sound(bk, o)
  BY AllocAndMapOutcome
<1>4. /\ WellFormed(bk') /\ SameMemory(bk', o.bk) /\ bk'.fence = o.bk.fence
      /\ bk'.map0 = Trick => bk.map0 = Trick \/ videoMode
  <2> DEFINE b == o.bk
  <2>1. WellFormed(b) /\ b \in Backing /\ (b.map0 = Trick => bk.map0 = Trick)
    BY <1>3 DEF Sound, WellFormed
  <2> HIDE DEF b
  <2>2. CASE bk' = b
    BY <2>1, <2>2 DEF SameMemory, b
  <2>3. CASE bk' = [b EXCEPT !.map0 = Trick] /\ videoMode
    <3>1. /\ bk' \in Backing /\ SameMemory(bk', b) /\ bk'.fence = b.fence
          /\ bk'.map0 = Trick /\ bk'.map1 = b.map1
      BY <2>1, <2>3 DEF Backing, SameMemory
    <3>2. WellFormed(bk')
      BY <2>1, <3>1 DEF WellFormed, BackingMemory, SameMemory
    <3> QED  BY <2>3, <3>1, <3>2 DEF b
  <2>4. CASE bk' = [b EXCEPT !.map0 = None]
    <3>1. /\ bk' \in Backing /\ SameMemory(bk', b) /\ bk'.fence = b.fence
          /\ bk'.map0 = None /\ bk'.map1 = b.map1
      BY <2>1, <2>4 DEF Backing, SameMemory
    <3>2. WellFormed(bk')
      BY <2>1, <3>1 DEF WellFormed, BackingMemory, SameMemory
    <3> QED  BY <3>1, <3>2, NoBackingEmpty DEF b
  <2> QED  BY <1>1, <2>2, <2>3, <2>4 DEF b
<1>5. /\ o.ok \in BOOLEAN /\ NoTransfer(o.bk) /\ dirty' \in BOOLEAN
      /\ locked' \subseteq {"read", "write", "context"}
  BY <1>1, <1>2, <1>3, <1>4 DEF gl, NoTransfer, Sound
<1> QED  BY <1>1, <1>2, <1>3, <1>4, <1>5, UseInv DEF gl

\* A context gives its map up.
LEMMA ContextUnlockInv == ASSUME IInv, context_unlock_memory PROVE IInv'
<1> USE Described
<1>1. /\ Called /\ UNCHANGED << shape, gl, closed, waiting, fifo, fitted >>
      /\ bk' = [bk EXCEPT !.map1 = None] /\ locked' = locked \ {"context"}
  BY DEF context_unlock_memory
<1>2. WellFormed(bk')
  BY <1>1, FieldSet, 0 \in Nat
<1>3. bk \in Backing
  BY DEF WellFormed
<1>4. SameMemory(bk', bk) /\ bk'.fence = bk.fence /\ bk'.map0 = bk.map0
  BY <1>1, <1>3 DEF SameMemory, Backing
<1>5. locked' \subseteq {"read", "write", "context"} /\ dirty' \in BOOLEAN
  BY <1>1 DEF gl
<1>6. SameMemory(bk', Outcome(FALSE, bk).bk) /\ NoTransfer(Outcome(FALSE, bk).bk)
  BY <1>1, <1>4, SameOutcome DEF NoTransfer
<1> QED  BY <1>1, <1>2, <1>4, <1>5, <1>6, SameOutcome, UseInv DEF gl

\* A flush.
LEMMA FlushInv == ASSUME IInv, surface_flush PROVE IInv'
<1> USE Described
<1>1. /\ Called /\ UNCHANGED << shape, gl, closed, locked, waiting, fitted >>
      /\ isBackingValid(bk) /\ Submit(bk) /\ bk' = Fenced(bk)
  BY DEF surface_flush
<1>2. /\ WellFormed(bk') /\ SameMemory(bk', bk) /\ bk'.fence = submitted + 1
      /\ bk'.map0 = bk.map0
  BY <1>1, FencedOutcome
<1>3. SameMemory(bk', Outcome(FALSE, bk).bk) /\ OneTransfer(Outcome(FALSE, bk).bk)
  BY <1>1, <1>2, SameOutcome DEF OneTransfer, Called
<1> QED  BY <1>1, <1>2, <1>3, SameOutcome, UseInv DEF gl

\* A flush of a video surface.
LEMMA FlushVideoInv == ASSUME IInv, surface_flush_video PROVE IInv'
<1> USE Described
<1>1. /\ Called /\ UNCHANGED << gl, closed, locked, waiting, fitted >>
      /\ DescriptionKept /\ OverlayCommand(bk)
  BY DEF surface_flush_video, DescriptionKept
<1>2. /\ WellFormed(bk') /\ SameMemory(bk', bk) /\ bk'.fence = submitted + 1
      /\ bk'.map0 = bk.map0
  BY <1>1, FencedOutcome DEF OverlayCommand
<1>3. SameMemory(bk', Outcome(FALSE, bk).bk) /\ OneCommand
  BY <1>1, <1>2, SameOutcome DEF OneCommand, OverlayCommand
<1> QED  BY <1>1, <1>2, <1>3, SameOutcome, UseInv DEF gl

\* The copies into the backing: by the device, with the wait for its transfer, and
\* by the processor.
LEMMA CopyInv ==
  ASSUME IInv, copy_framebuffer_region_to_self \/ copy_surface_region_to_self
  PROVE  IInv'
<1> USE Described
<1>1. PICK o \in allocBacking(bk) :
        /\ \/ bk' = o.bk /\ UNCHANGED << waiting, fifo >>
           \/ o.ok /\ Submit(o.bk) /\ bk' = Fenced(o.bk) /\ waiting' = submitted'
        /\ fitted' \in BOOLEAN /\ (fitted' => fitted \/ o.ok)
  <2>1. \A o \in allocBacking(bk) : o.ok \in BOOLEAN
    BY AllocOutcome DEF Sound
  <2>2. CASE copy_framebuffer_region_to_self
    <3>1. PICK o \in allocBacking(bk) :
            /\ \/ bk' = o.bk /\ UNCHANGED << waiting, fifo >>
               \/ o.ok /\ Submit(o.bk) /\ bk' = Fenced(o.bk) /\ waiting' = submitted'
            /\ fitted' = fitted \/ (fitted' = TRUE /\ o.ok)
      BY <2>2 DEF copy_framebuffer_region_to_self
    <3>2. fitted' \in BOOLEAN /\ (fitted' => fitted \/ o.ok)
      <4>1. CASE fitted' = fitted
        BY <4>1
      <4>2. CASE fitted' = TRUE /\ o.ok
        BY <4>2
      <4> QED  BY <3>1, <4>1, <4>2
    <3> QED  BY <3>1, <3>2
  <2>3. CASE copy_surface_region_to_self
    <3>1. PICK o \in allocBacking(bk) : bk' = o.bk /\ fitted' = (fitted \/ o.ok)
      BY <2>3 DEF copy_surface_region_to_self
    <3>2. fitted' \in BOOLEAN /\ (fitted' => fitted \/ o.ok)
      BY <2>1, <3>1
    <3>3. UNCHANGED << waiting, fifo >>
      BY <2>3 DEF copy_surface_region_to_self
    <3> QED  BY <3>1, <3>2, <3>3
  <2> QED  BY <2>2, <2>3
<1>2. Called /\ UNCHANGED << shape, gl, closed, locked >>
  BY DEF copy_framebuffer_region_to_self, copy_surface_region_to_self
<1>3. Sound(bk, o)
  BY AllocOutcome
<1>4. /\ WellFormed(o.bk) /\ (o.ok => isBackingValid(o.bk))
      /\ o.bk.map0 = Trick => bk.map0 = Trick
  BY <1>3 DEF Sound
<1>5. /\ WellFormed(bk') /\ SameMemory(bk', o.bk)
      /\ bk'.map0 = Trick => bk.map0 = Trick
      /\ NoTransfer(o.bk) \/ OneTransfer(o.bk)
  <2>1. CASE bk' = o.bk /\ UNCHANGED << waiting, fifo >>
    BY <1>4, <2>1 DEF SameMemory, NoTransfer
  <2>2. CASE o.ok /\ Submit(o.bk) /\ bk' = Fenced(o.bk) /\ waiting' = submitted'
    BY <1>4, <2>2, FencedOutcome DEF OneTransfer
  <2> QED  BY <1>1, <2>1, <2>2
<1> QED  BY <1>1, <1>2, <1>3, <1>5, UseInv DEF gl

\* A call goes on after its transfer, which was the last one: nothing is left.
LEMMA DoneInv == ASSUME IInv, copyGLDone \/ copy_framebuffer_done PROVE IInv'
<1> USE Described DEF copyGLDone, copy_framebuffer_done
<1>1. waiting # 0 /\ waiting <= executed /\ waiting' = 0
  BY DEF Passed
<1>2. pending = {}
  BY <1>1 DEF IInv, TypeOK, Covered
<1>3. /\ UNCHANGED << shape, closed, locked, attach_count, dirty, fifo, fitted, attached >>
      /\ bk' = bk \/ bk' = [bk EXCEPT !.fence = 0]
      /\ glMode' \in BOOLEAN
      /\ (glMode' <=> glMode) \/ (glMode /\ (glMode' <=> attach_count > 0))
  <2>1. glMode \in BOOLEAN
    BY DEF IInv, TypeOK
  <2>2. CASE copyGLDone
    <3>1. glMode' = (attach_count > 0) /\ glMode
      BY <2>2
    <3>2. (attach_count > 0) \in BOOLEAN
      OBVIOUS
    <3>3. glMode' \in BOOLEAN /\ (glMode' <=> attach_count > 0)
      BY <3>1, <3>2, Zenon
    <3> QED  BY <2>2, <3>1, <3>3 DEF gl
  <2>3. CASE copy_framebuffer_done
    BY <2>1, <2>3 DEF gl
  <2> QED  BY <2>2, <2>3
<1>4. WellFormed(bk') /\ SameMemory(bk', bk) /\ bk'.map0 = bk.map0
  <2>1. CASE bk' = [bk EXCEPT !.fence = 0]
    <3>1. SameMemory(bk', bk) /\ bk'.map0 = bk.map0
      BY <2>1 DEF WellFormed, SameMemory, Backing
    <3> QED  BY <2>1, <3>1, FieldSet, 0 \in Nat
  <2> QED  BY <1>3, <2>1 DEF SameMemory
<1>5. WellFormed(bk)' /\ ClientWrapCurrent' /\ Tricked'
  BY <1>3, <1>4 DEF IInv, WellFormed, BackingMemory, ClientWrapCurrent, Tricked,
     SameMemory, shape, video
<1>6. (fitted /\ client = None /\ ~closed => Fits(bk))'
  BY <1>3, <1>4 DEF IInv, Fits, classifyBacking, SameMemory, shape, scale
<1>7. TypeOK'
  <2>1. bk' \in Backing
    BY <1>4 DEF WellFormed
  <2> QED  BY <1>1, <1>3, <2>1 DEF IInv, TypeOK, shape, scale, video, fifo
<1>8. Covered'
  BY <1>1, <1>2, <1>3 DEF IInv, Covered, fifo
<1>9. IsFiniteSet(attached)' /\ TargetKept'
  <2>1. Cardinality(attached) \in Nat /\ (Cardinality(attached) = 0 <=> attached = {})
    BY FS_CardinalityType, FS_EmptySet DEF IInv
  <2>2. glMode => attach_count = Cardinality(attached)
    BY DEF IInv, TargetKept
  <2> QED  BY <1>3, <2>1, <2>2 DEF IInv, TargetKept
<1> QED  BY <1>5, <1>6, <1>7, <1>8, <1>9 DEF IInv

\* Cleanup has waited for the last transfer.
LEMMA CloseInv == ASSUME IInv, clientClose PROVE IInv'
<1> USE NoBackingEmpty DEF clientClose
<1>1. pending = {}
  <2>1. \A t \in pending : executed < t.n /\ t.n <= bk.fence
    BY DEF IInv, Covered, Called
  <2>2. executed \in Nat /\ bk.fence \in Nat /\ \A t \in pending : t.n \in Nat
    BY DEF IInv, TypeOK, Backing
  <2> QED  BY <2>1, <2>2 DEF Passed
<1>2. TypeOK'
  BY DEF IInv, TypeOK, shape, scale, fifo
<1>3. Covered'
  BY <1>1 DEF IInv, Covered, fifo
<1>4. WellFormed(bk)'
  BY DEF WellFormed, BackingMemory, Backing
<1>5. ClientWrapCurrent' /\ TargetKept' /\ IsFiniteSet(attached)' /\ Tricked'
  BY DEF IInv, ClientWrapCurrent, TargetKept, Tricked
<1> QED  BY <1>2, <1>3, <1>4, <1>5 DEF IInv

\* Every step keeps the invariant.
LEMMA Inductive == IInv /\ [Next]_vars => IInv'
<1> SUFFICES ASSUME IInv, [Next]_vars PROVE IInv'
  OBVIOUS
<1>1. CASE UNCHANGED vars
  <2>1. /\ TypeOK' /\ WellFormed(bk)' /\ Covered' /\ ClientWrapCurrent' /\ TargetKept'
        /\ Tricked'
    BY <1>1 DEF IInv, TypeOK, WellFormed, Covered, ClientWrapCurrent, TargetKept,
       Tricked, BackingMemory, vars, shape, scale, video, gl, fifo
  <2>2. (fitted /\ client = None /\ ~closed => Fits(bk))' /\ IsFiniteSet(attached)'
    BY <1>1 DEF IInv, Fits, classifyBacking, vars, shape, scale, gl, fifo
  <2> QED  BY <2>1, <2>2 DEF IInv
<1> QED
  BY <1>1, ExecuteInv, ShapeInv, SetShapeInv, SetSurfaceInv, ContextInv, ReadLockInv,
     WriteLockInv, ContextLockInv, ContextUnlockInv, FlushInv, FlushVideoInv, CopyInv,
     DoneInv, CloseInv DEF Next

-----------------------------------------------------------------------------
\* The inductive invariant holds in every reachable state.
LEMMA InvHolds == Spec => []IInv
BY InitInv, Inductive, PTL DEF Spec

\* The variables of a surface have their types, m_backing among them.
THEOREM SurfaceTypes == Spec => []TypeOK
<1>1. IInv => TypeOK
  BY DEF IInv
<1> QED  BY <1>1, InvHolds, PTL

\* The device never transfers to or from memory that the surface has given up,
\* however the calls and the device's work mix: growing, wrapping, falling back
\* and closing all wait for a fence that covers every transfer.
THEOREM SurfaceTransferSafe == Spec => []TransferSafe
<1>1. IInv => TransferSafe
  BY DEF IInv, Covered, TransferSafe
<1> QED  BY <1>1, InvHolds, PTL

\* What is mapped into a client's task is the memory that the backing has now, or
\* the black buffer that context_lock_memory gives the WindowServer on a surface that
\* has been a video surface; never memory that the surface gave up.
THEOREM SurfaceMapsMatch == Spec => []MapsMatchBacking
<1>1. IInv => MapsMatchBacking
  BY DEF IInv, WellFormed, Tricked, MapsMatchBacking
<1> QED  BY <1>1, InvHolds, PTL

\* After a lock the backing holds the whole source until the scale changes.
THEOREM SurfaceHoldsSource == Spec => []BackingHoldsSource
<1>1. IInv => BackingHoldsSource
  <2> SUFFICES ASSUME IInv, fitted, client = None, ~closed
               PROVE  isBackingValid(bk) /\ bk.size >= size
    BY DEF BackingHoldsSource
  <2>1. Fits(bk) /\ bk.size \in Nat /\ size \in Nat
    BY DEF IInv, TypeOK, Backing
  <2> QED  BY <2>1 DEF Fits, classifyBacking, isBackingValid
<1> QED  BY <1>1, InvHolds, PTL

\* A descriptor taken as current describes the memory the client gave last.
THEOREM SurfaceWrapCurrent == Spec => []ClientWrapCurrent
<1>1. IInv => ClientWrapCurrent
  BY DEF IInv
<1> QED  BY <1>1, InvHolds, PTL

\* The render target is there as long as a context draws into it.
THEOREM SurfaceTargetKept == Spec => []TargetKept
<1>1. IInv => TargetKept
  BY DEF IInv
<1> QED  BY <1>1, InvHolds, PTL

\* A write lock is granted only when no transfer of the surface is left.
THEOREM SurfaceWriterWaits == Spec => WriterWaits
<1>1. IInv /\ [Next]_vars =>
        ["write" \in locked' \ locked /\ ~offset => pending' = {}]_vars
  <2> SUFFICES ASSUME IInv, Next, "write" \in locked' \ locked, ~offset
               PROVE  pending' = {}
    BY DEF vars, gl, shape, scale
  <2>1. CASE surface_write_lock
    <3>1. PICK o : /\ Sound(bk, o)
                   /\ \/ bk' \in Synced(o.bk) /\ locked' = locked \cup {"write"}
                      \/ bk' = o.bk /\ locked' = locked \ {"write"}
      BY <2>1, WriteLockStep
    <3>2. bk' \in Synced(o.bk)
      BY <3>1
    <3>3. Called /\ pending' = pending
      BY <2>1 DEF surface_write_lock, fifo
    <3> QED  BY <3>1, <3>2, <3>3, SyncedOutcome
  <2>2. CASE surface_read_lock
    <3>1. locked' = locked \/ locked' = locked \cup {"read"}
      BY <2>2 DEF surface_read_lock
    <3> QED  BY <3>1
  <2>3. CASE context_lock_memory
    <3>1. locked' = locked \/ locked' = locked \cup {"context"}
      BY <2>3 DEF context_lock_memory
    <3> QED  BY <3>1
  <2>4. CASE \E c \in Contexts : attachGL(c) \/ detachGL(c) \/ touchRenderTarget(c)
    BY <2>4 DEF attachGL, detachGL, touchRenderTarget
  <2>5. CASE Execute \/ set_id_mode \/ set_scale \/ set_shape_refused
             \/ set_shape_empty \/ set_shape_backing \/ context_set_surface
    BY <2>5 DEF Execute, set_id_mode, set_scale, set_shape_refused,
       set_shape_empty, set_shape_backing, context_set_surface
  <2>6. CASE copyGLDone \/ surface_flush \/ surface_flush_video
             \/ copy_framebuffer_region_to_self
             \/ copy_framebuffer_done \/ copy_surface_region_to_self \/ clientClose
             \/ surface_read_unlock \/ surface_write_unlock \/ context_unlock_memory
    BY <2>6 DEF copyGLDone, surface_flush, surface_flush_video,
       copy_framebuffer_region_to_self,
       copy_framebuffer_done, copy_surface_region_to_self, clientClose,
       surface_read_unlock, surface_write_unlock, context_unlock_memory
  <2> QED  BY <2>1, <2>2, <2>3, <2>4, <2>5, <2>6 DEF Next
<1> QED  BY <1>1, InvHolds, PTL DEF Spec, WriterWaits
============================================================================
