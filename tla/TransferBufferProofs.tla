------------------------ MODULE TransferBufferProofs ------------------------
(***************************************************************************)
(* Transfers are safe for every number of buffers, identifiers, memories   *)
(* and transfers.  The argument: a region belongs to one buffer from the   *)
(* end of prepare() to destroyGMR() (IdsInv, TableInv), and a transfer     *)
(* that is pending belongs to such a buffer and is not newer than its      *)
(* fence (PendingInv), so that after the wait of complete() none is left.  *)
(***************************************************************************)
EXTENDS TransferBuffer, TLAPS

USE BufferAssumption

\* The part of PendingInv about one transfer.
Covered(t) ==
  /\ executed < t.n /\ t.n <= submitted
  /\ t.id = gmr_id[t.buf] /\ t.mem = md[t.buf]
  /\ pc[t.buf] \in {"idle", "second", "sync"}
  /\ pc[t.buf] # "second" => t.n <= fence[t.buf]
  /\ gmr_id[t.buf] # None

\* At the start no buffer has a region.
LEMMA InitInv == Init => IInv
  BY DEF Init, IInv, TypeOK, IdsInv, TableInv, PendingInv, Defined, Steps

\* A buffer that gets memory has no region and no transfer.
LEMMA AttachInv ==
  ASSUME IInv, NEW b \in Buffers, Attach(b)
  PROVE  IInv'
<1> USE DEF IInv, Attach, Goto, buffers, fifo
<1>1. TypeOK'
  BY DEF TypeOK, IdsInv, Steps, Transfer
<1>2. IdsInv'
  BY DEF TypeOK, IdsInv
<1>3. TableInv'
  BY DEF TypeOK, IdsInv, TableInv, Defined, PendingInv
<1>4. PendingInv'
  BY DEF TypeOK, IdsInv, PendingInv, Transfer
<1> QED
  BY <1>1, <1>2, <1>3, <1>4

\* A buffer that loses its memory has no region and no transfer.
LEMMA discardInv ==
  ASSUME IInv, NEW b \in Buffers, discard(b)
  PROVE  IInv'
<1> USE DEF IInv, discard, Goto, buffers, fifo
<1>1. TypeOK'
  BY DEF TypeOK, IdsInv, Steps, Transfer
<1>2. IdsInv'
  BY DEF TypeOK, IdsInv
<1>3. TableInv'
  BY DEF TypeOK, IdsInv, TableInv, Defined, PendingInv
<1>4. PendingInv'
  BY DEF TypeOK, IdsInv, PendingInv, Transfer
<1> QED
  BY <1>1, <1>2, <1>3, <1>4

\* The identifier handed out belongs to no buffer, so no region is under it.
LEMMA AllocGMRIDInv ==
  ASSUME IInv, NEW b \in Buffers, AllocGMRID(b)
  PROVE  IInv'
<1> USE DEF IInv, AllocGMRID, Goto, buffers, fifo
<1>1. TypeOK'
  BY DEF TypeOK, IdsInv, Steps, Transfer
<1>2. IdsInv'
  BY DEF TypeOK, IdsInv
<1>3. TableInv'
  BY DEF TypeOK, IdsInv, TableInv, Defined, PendingInv
<1>4. PendingInv'
  BY DEF TypeOK, IdsInv, PendingInv, Transfer
<1> QED
  BY <1>1, <1>2, <1>3, <1>4

\* Wiring touches the buffer alone.
LEMMA WireInv ==
  ASSUME IInv, NEW b \in Buffers, Wire(b)
  PROVE  IInv'
<1> USE DEF IInv, Wire, Goto, buffers, fifo
<1>1. TypeOK'
  BY DEF TypeOK, IdsInv, Steps, Transfer
<1>2. IdsInv'
  BY DEF TypeOK, IdsInv
<1>3. TableInv'
  BY DEF TypeOK, IdsInv, TableInv, Defined, PendingInv
<1>4. PendingInv'
  BY DEF TypeOK, IdsInv, PendingInv, Transfer
<1> QED
  BY <1>1, <1>2, <1>3, <1>4

\* The region is defined under an identifier that belongs to the buffer alone.
LEMMA createGMRInv ==
  ASSUME IInv, NEW b \in Buffers, createGMR(b)
  PROVE  IInv'
<1> USE DEF IInv, createGMR, Goto, buffers, fifo
<1>1. TypeOK'
  BY DEF TypeOK, IdsInv, Steps, Transfer
<1>2. IdsInv'
  BY DEF TypeOK, IdsInv
<1>3. TableInv'
  BY DEF TypeOK, IdsInv, TableInv, Defined, PendingInv
<1>4. PendingInv'
  BY DEF TypeOK, IdsInv, PendingInv, Transfer
<1> QED
  BY <1>1, <1>2, <1>3, <1>4

\* The new transfer is covered by the new fence, which is later than the old one.
LEMMA surfaceDMAInv ==
  ASSUME IInv, NEW b \in Buffers, surfaceDMA(b)
  PROVE  IInv'
<1> USE DEF IInv, surfaceDMA, Goto, Submit, NewTransfer, buffers, fifo
<1>1. TypeOK'
  BY DEF TypeOK, IdsInv, Steps, Transfer
<1>2. IdsInv'
  BY DEF TypeOK, IdsInv
<1>3. TableInv'
  BY DEF TypeOK, IdsInv, TableInv, Defined, PendingInv
<1>4. PendingInv'
  <2>1. \A c \in Buffers : fence'[c] <= submitted'
    BY DEF TypeOK, PendingInv
  <2>2. ASSUME NEW t \in pending, t.buf # b PROVE Covered(t)'
    BY <2>2 DEF TypeOK, PendingInv, Transfer, Covered
  <2>3. ASSUME NEW t \in pending, t.buf = b PROVE Covered(t)'
    BY <2>3 DEF TypeOK, PendingInv, Transfer, Covered
  <2>4. ASSUME NEW t, t = NewTransfer(b) PROVE Covered(t)'
    BY <2>4 DEF TypeOK, IdsInv, PendingInv, Covered
  <2>5. \A t \in pending' : t \in pending \/ t = NewTransfer(b)
    OBVIOUS
  <2>6. executed' <= submitted'
    BY DEF TypeOK, PendingInv
  <2> QED
    BY <2>1, <2>2, <2>3, <2>4, <2>5, <2>6 DEF PendingInv, Covered
<1> QED
  BY <1>1, <1>2, <1>3, <1>4

\* The first of two transfers is not covered by a fence yet.
LEMMA surfaceDMAFirstInv ==
  ASSUME IInv, NEW b \in Buffers, surfaceDMAFirst(b)
  PROVE  IInv'
<1> USE DEF IInv, surfaceDMAFirst, Goto, Submit, NewTransfer, buffers, fifo
<1>1. TypeOK'
  BY DEF TypeOK, IdsInv, Steps, Transfer
<1>2. IdsInv'
  BY DEF TypeOK, IdsInv
<1>3. TableInv'
  BY DEF TypeOK, IdsInv, TableInv, Defined, PendingInv
<1>4. PendingInv'
  <2>1. \A c \in Buffers : fence'[c] <= submitted'
    BY DEF TypeOK, PendingInv
  <2>2. ASSUME NEW t \in pending, t.buf # b PROVE Covered(t)'
    BY <2>2 DEF TypeOK, PendingInv, Transfer, Covered
  <2>3. ASSUME NEW t \in pending, t.buf = b PROVE Covered(t)'
    BY <2>3 DEF TypeOK, PendingInv, Transfer, Covered
  <2>4. ASSUME NEW t, t = NewTransfer(b) PROVE Covered(t)'
    BY <2>4 DEF TypeOK, IdsInv, PendingInv, Covered
  <2>5. \A t \in pending' : t \in pending \/ t = NewTransfer(b)
    OBVIOUS
  <2>6. executed' <= submitted'
    BY DEF TypeOK, PendingInv
  <2> QED
    BY <2>1, <2>2, <2>3, <2>4, <2>5, <2>6 DEF PendingInv, Covered
<1> QED
  BY <1>1, <1>2, <1>3, <1>4

\* The fence of the second transfer covers the first.
LEMMA surfaceDMASecondInv ==
  ASSUME IInv, NEW b \in Buffers, surfaceDMASecond(b)
  PROVE  IInv'
<1> USE DEF IInv, surfaceDMASecond, Goto, NewTransfer, buffers, fifo
<1>1. TypeOK'
  BY DEF TypeOK, IdsInv, Steps, Transfer
<1>2. IdsInv'
  BY DEF TypeOK, IdsInv
<1>3. TableInv'
  BY DEF TypeOK, IdsInv, TableInv, Defined, PendingInv
<1>4. PendingInv'
  <2>1. \A c \in Buffers : fence'[c] <= submitted'
    BY DEF TypeOK, PendingInv
  <2>2. ASSUME NEW t \in pending, t.buf # b PROVE Covered(t)'
    BY <2>2 DEF TypeOK, PendingInv, Transfer, Covered
  <2>3. ASSUME NEW t \in pending, t.buf = b PROVE Covered(t)'
    BY <2>3 DEF TypeOK, PendingInv, Transfer, Covered
  <2>4. ASSUME NEW t, t = NewTransfer(b) PROVE Covered(t)'
    BY <2>4 DEF TypeOK, IdsInv, PendingInv, Covered
  <2>5. \A t \in pending' : t \in pending \/ t = NewTransfer(b)
    OBVIOUS
  <2>6. executed' <= submitted'
    BY DEF TypeOK, PendingInv
  <2> QED
    BY <2>1, <2>2, <2>3, <2>4, <2>5, <2>6 DEF PendingInv, Covered
<1> QED
  BY <1>1, <1>2, <1>3, <1>4

\* After the wait the buffer has no transfer.
LEMMA syncInv ==
  ASSUME IInv, NEW b \in Buffers, sync(b)
  PROVE  IInv'
<1> USE DEF IInv, sync, Goto, Passed, buffers, fifo
<1>1. TypeOK'
  BY DEF TypeOK, IdsInv, Steps, Transfer
<1>2. IdsInv'
  BY DEF TypeOK, IdsInv
<1>3. TableInv'
  BY DEF TypeOK, IdsInv, TableInv, Defined, PendingInv
<1>4. PendingInv'
  BY DEF TypeOK, IdsInv, PendingInv, Transfer
<1> QED
  BY <1>1, <1>2, <1>3, <1>4

\* The wait begins with every transfer covered.
LEMMA completeBeginInv ==
  ASSUME IInv, NEW b \in Buffers, completeBegin(b)
  PROVE  IInv'
<1> USE DEF IInv, completeBegin, Goto, buffers, fifo
<1>1. TypeOK'
  BY DEF TypeOK, IdsInv, Steps, Transfer
<1>2. IdsInv'
  BY DEF TypeOK, IdsInv
<1>3. TableInv'
  BY DEF TypeOK, IdsInv, TableInv, Defined, PendingInv
<1>4. PendingInv'
  BY DEF TypeOK, IdsInv, PendingInv, Transfer
<1> QED
  BY <1>1, <1>2, <1>3, <1>4

\* After the wait the buffer has no transfer.
LEMMA completeSyncInv ==
  ASSUME IInv, NEW b \in Buffers, completeSync(b)
  PROVE  IInv'
<1> USE DEF IInv, completeSync, Goto, Passed, buffers, fifo
<1>1. TypeOK'
  BY DEF TypeOK, IdsInv, Steps, Transfer
<1>2. IdsInv'
  BY DEF TypeOK, IdsInv
<1>3. TableInv'
  BY DEF TypeOK, IdsInv, TableInv, Defined, PendingInv
<1>4. PendingInv'
  BY DEF TypeOK, IdsInv, PendingInv, Transfer
<1> QED
  BY <1>1, <1>2, <1>3, <1>4

\* The region that goes away is the one of this buffer, which has no transfer.
LEMMA destroyGMRInv ==
  ASSUME IInv, NEW b \in Buffers, destroyGMR(b)
  PROVE  IInv'
<1> USE DEF IInv, destroyGMR, Goto, buffers, fifo
<1>1. TypeOK'
  BY DEF TypeOK, IdsInv, Steps, Transfer
<1>2. IdsInv'
  BY DEF TypeOK, IdsInv
<1>3. TableInv'
  BY DEF TypeOK, IdsInv, TableInv, Defined, PendingInv
<1>4. PendingInv'
  BY DEF TypeOK, IdsInv, PendingInv, Transfer
<1> QED
  BY <1>1, <1>2, <1>3, <1>4

\* The memory is unwired when the region is gone.
LEMMA UnwireInv ==
  ASSUME IInv, NEW b \in Buffers, Unwire(b)
  PROVE  IInv'
<1> USE DEF IInv, Unwire, Goto, buffers, fifo
<1>1. TypeOK'
  BY DEF TypeOK, IdsInv, Steps, Transfer
<1>2. IdsInv'
  BY DEF TypeOK, IdsInv
<1>3. TableInv'
  BY DEF TypeOK, IdsInv, TableInv, Defined, PendingInv
<1>4. PendingInv'
  BY DEF TypeOK, IdsInv, PendingInv, Transfer
<1> QED
  BY <1>1, <1>2, <1>3, <1>4

\* The identifier given back belongs to no other buffer.
LEMMA FreeGMRIDInv ==
  ASSUME IInv, NEW b \in Buffers, FreeGMRID(b)
  PROVE  IInv'
<1> USE DEF IInv, FreeGMRID, Goto, buffers, fifo
<1>1. TypeOK'
  BY DEF TypeOK, IdsInv, Steps, Transfer
<1>2. IdsInv'
  BY DEF TypeOK, IdsInv
<1>3. TableInv'
  BY DEF TypeOK, IdsInv, TableInv, Defined, PendingInv
<1>4. PendingInv'
  BY DEF TypeOK, IdsInv, PendingInv, Transfer
<1> QED
  BY <1>1, <1>2, <1>3, <1>4

\* The device does the oldest transfer.
LEMMA ExecuteInv == IInv /\ Execute => IInv'
  BY DEF IInv, Execute, TypeOK, IdsInv, TableInv, PendingInv, Defined, Transfer,
         buffers

\* A step that changes nothing.
LEMMA StutterInv == IInv /\ UNCHANGED vars => IInv'
  BY DEF IInv, TypeOK, IdsInv, TableInv, PendingInv, Defined, vars, buffers, fifo

\* Every step of every thread keeps the invariant.
LEMMA NextInv == IInv /\ [Next]_vars => IInv'
<1> SUFFICES ASSUME IInv, [Next]_vars PROVE IInv'
  OBVIOUS
<1>1. CASE Execute
  BY <1>1, ExecuteInv
<1>2. CASE UNCHANGED vars
  BY <1>2, StutterInv
<1>3. ASSUME NEW b \in Buffers, Owner(b) PROVE IInv'
  BY <1>3, AttachInv, discardInv, AllocGMRIDInv, surfaceDMAInv,
     surfaceDMAFirstInv, syncInv, completeBeginInv DEF Owner
<1>4. ASSUME NEW b \in Buffers, Continue(b) PROVE IInv'
  BY <1>4, WireInv, createGMRInv, surfaceDMASecondInv, completeSyncInv,
     destroyGMRInv, UnwireInv, FreeGMRIDInv DEF Continue
<1> QED
  BY <1>1, <1>2, <1>3, <1>4 DEF Next

\* The inductive invariant of the transfer buffers.
THEOREM Inductive == Spec => []IInv
  BY InitInv, NextInv, PTL DEF Spec

\* What the device still has to transfer goes through a region that is defined as
\* the buffer's memory, and the memory is wired.
THEOREM TransfersAreSafe == Spec => []TransferSafe
<1>1. IInv => TransferSafe
  BY DEF IInv, TypeOK, TableInv, PendingInv, Defined, TransferSafe, Transfer
<1> QED
  BY <1>1, Inductive, PTL

\* An identifier in use belongs to exactly one buffer, also after a failed
\* prepare().
THEOREM IdentifiersAccounted == Spec => []IdsAccounted
<1>1. IInv => IdsAccounted
  BY DEF IInv, IdsInv, IdsAccounted
<1> QED
  BY <1>1, Inductive, PTL

\* The device has no region under an identifier that prepare() could hand out,
\* and no memory stays wired without one.
THEOREM NothingLeft == Spec => [](NoRegionUnderFreeId /\ NothingLeftWired)
<1>1. IInv => NoRegionUnderFreeId /\ NothingLeftWired
  BY DEF IInv, TypeOK, IdsInv, TableInv, Defined, NoRegionUnderFreeId,
         NothingLeftWired
<1> QED
  BY <1>1, Inductive, PTL

\* A region is changed only by its own buffer: defined in a free place, destroyed
\* in complete().
LEMMA ApartStep ==
  ASSUME IInv, [Next]_vars, NEW i \in Ids, table'[i] # table[i]
  PROVE  \/ table[i] = None
         \/ /\ table'[i] = None
            /\ \E b \in Buffers : gmr_id[b] = i /\ pc[b] = "destroy"
<1>1. PICK b \in Buffers : createGMR(b) \/ destroyGMR(b)
  BY DEF Next, Owner, Continue, vars, buffers, fifo, Execute, Attach, discard,
         AllocGMRID, Wire, surfaceDMA, surfaceDMAFirst, surfaceDMASecond, sync,
         completeBegin, completeSync, Unwire, FreeGMRID
<1>2. CASE createGMR(b)
  <2>1. gmr_id[b] = i
    BY <1>2 DEF createGMR, IInv, TypeOK, IdsInv
  <2>2. ASSUME NEW c \in Buffers, gmr_id[c] = i, Defined(c) PROVE FALSE
    <3>1. c = b
      BY <2>1, <2>2 DEF IInv, IdsInv, TypeOK
    <3> QED
      BY <1>2, <2>2, <3>1 DEF createGMR, Defined
  <2> QED
    BY <2>2 DEF IInv, TableInv
<1>3. CASE destroyGMR(b)
  BY <1>3 DEF destroyGMR, IInv, TypeOK, IdsInv
<1> QED
  BY <1>1, <1>2, <1>3

\* No thread replaces or destroys the region of another.
THEOREM KeptApart == Spec => RegionsKeptApart
<1>1. IInv /\ [Next]_vars =>
        [\A i \in Ids : table'[i] # table[i] =>
           \/ table[i] = None
           \/ /\ table'[i] = None
              /\ \E b \in Buffers : gmr_id[b] = i /\ pc[b] = "destroy"]_vars
  BY ApartStep
<1> QED
  BY <1>1, Inductive, PTL DEF Spec, RegionsKeptApart
=============================================================================
