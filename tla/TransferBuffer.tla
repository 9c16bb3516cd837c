--------------------------- MODULE TransferBuffer ---------------------------
(***************************************************************************)
(* Transfer buffers (AC/VendorTransferBuffer.cpp): memory that the device  *)
(* reads and writes by itself.  prepare() takes an identifier, wires the   *)
(* memory and defines a guest memory region; complete() waits for the last *)
(* transfer and undoes all three.  Surfaces, textures, command buffers and *)
(* read_buffer use them.                                                   *)
(*                                                                         *)
(* One buffer is used by one thread at a time (under the lock of its       *)
(* owner, or it is local to a call), but the threads of different buffers  *)
(* run at once and share the identifiers, the device's table of regions    *)
(* and the command FIFO.  Each call that takes the lock of the accelerator *)
(* or of the device is one step; between two of them other threads run.    *)
(*                                                                         *)
(* Transfers are numbered in the order in which they are put into the      *)
(* FIFO, which the device executes in order (module CommandStream); a      *)
(* fence is the number of the transfer it follows.  Regions are defined    *)
(* and destroyed by register writes, which do not wait for the FIFO.       *)
(***************************************************************************)
EXTENDS Integers

CONSTANTS Buffers,      \* the transfer buffers
          Ids,          \* identifiers of guest memory regions
          Memory,       \* memory descriptors
          None,
          MaxTransfers  \* bound: transfers put into the FIFO

ASSUME BufferAssumption ==
  None \notin Ids /\ None \notin Memory /\ MaxTransfers \in Nat

VARIABLES md,           \* md of each buffer, or None
          gmr_id,       \* gmr_id of each buffer, or None (SVGA_ID_INVALID)
          fence,        \* fence of each buffer, 0 for none
          pc,           \* what the buffer's thread does next
          ids,          \* m_gmr_id_mask: identifiers in use
          wired,        \* buffers whose memory they have wired
          table,        \* the device's regions
          pending,      \* transfers in the FIFO
          submitted,    \* transfers put into the FIFO
          executed      \* transfers the device has done

buffers == << md, gmr_id, fence, pc >>
fifo    == << pending, submitted, executed >>
vars    == << buffers, ids, wired, table, fifo >>

Steps == {"idle", "wire", "define", "unwire", "giveback", "second", "sync",
          "destroy"}

Transfer == [n : Nat, buf : Buffers, id : Ids, mem : Memory]

Init ==
  /\ md = [b \in Buffers |-> None]
  /\ gmr_id = [b \in Buffers |-> None]
  /\ fence = [b \in Buffers |-> 0]
  /\ pc = [b \in Buffers |-> "idle"]
  /\ ids = {} /\ wired = {}
  /\ table = [i \in Ids |-> None]
  /\ pending = {} /\ submitted = 0 /\ executed = 0

Goto(b, s) == pc' = [pc EXCEPT ![b] = s]

-----------------------------------------------------------------------------
\* The owner gives the buffer its memory.
Attach(b) ==
  /\ pc[b] = "idle" /\ md[b] = None
  /\ \E m \in Memory : md' = [md EXCEPT ![b] = m]
  /\ UNCHANGED << gmr_id, fence, pc, ids, wired, table, fifo >>

\* The owners complete a buffer before they discard its memory.
discard(b) ==
  /\ pc[b] = "idle" /\ md[b] # None /\ gmr_id[b] = None
  /\ md' = [md EXCEPT ![b] = None]
  /\ UNCHANGED << gmr_id, fence, pc, ids, wired, table, fifo >>

\* Mutant: an identifier in use is handed out.
AllocGMRIDShared(b) ==
  /\ pc[b] = "idle" /\ md[b] # None /\ gmr_id[b] = None
  /\ \E i \in Ids :
       /\ gmr_id' = [gmr_id EXCEPT ![b] = i]
       /\ ids' = ids \cup {i}
  /\ Goto(b, "wire")
  /\ UNCHANGED << md, fence, wired, table, fifo >>

\* prepare(): a buffer with a region is ready, one without memory is refused,
\* and so is every buffer when no identifier is left.
AllocGMRID(b) ==
  /\ pc[b] = "idle" /\ md[b] # None /\ gmr_id[b] = None
  /\ \E i \in Ids \ ids :
       /\ gmr_id' = [gmr_id EXCEPT ![b] = i]
       /\ ids' = ids \cup {i}
  /\ Goto(b, "wire")
  /\ UNCHANGED << md, fence, wired, table, fifo >>

\* md->prepare(); clean1 when it fails.
Wire(b) ==
  /\ pc[b] = "wire"
  /\ \/ wired' = wired \cup {b} /\ Goto(b, "define")
     \/ wired' = wired /\ Goto(b, "giveback")
  /\ UNCHANGED << md, gmr_id, fence, ids, table, fifo >>

\* Mutant: when the region is refused, the memory stays wired.
createGMRKeepsWired(b) ==
  /\ pc[b] = "define"
  /\ \/ table' = [table EXCEPT ![gmr_id[b]] = md[b]] /\ Goto(b, "idle")
     \/ table' = table /\ Goto(b, "giveback")
  /\ UNCHANGED << md, gmr_id, fence, ids, wired, fifo >>

\* createGMR(), the end of prepare(); clean2 when it fails.
createGMR(b) ==
  /\ pc[b] = "define"
  /\ \/ table' = [table EXCEPT ![gmr_id[b]] = md[b]] /\ Goto(b, "idle")
     \/ table' = table /\ Goto(b, "unwire")
  /\ UNCHANGED << md, gmr_id, fence, ids, wired, fifo >>

-----------------------------------------------------------------------------
NewTransfer(b) ==
  [n |-> submitted + 1, buf |-> b, id |-> gmr_id[b], mem |-> md[b]]

Submit(b) ==
  /\ submitted < MaxTransfers
  /\ pending' = pending \cup {NewTransfer(b)}
  /\ submitted' = submitted + 1
  /\ UNCHANGED executed

\* Mutant: the transfer has no fence.
surfaceDMANoFence(b) ==
  /\ pc[b] = "idle" /\ gmr_id[b] # None
  /\ Submit(b)
  /\ UNCHANGED << buffers, ids, wired, table >>

\* A transfer and its fence, put into the FIFO under the device's lock.  One that
\* the FIFO has no room for is dropped and leaves the fence alone: no step.
surfaceDMA(b) ==
  /\ pc[b] = "idle" /\ gmr_id[b] # None
  /\ Submit(b)
  /\ fence' = [fence EXCEPT ![b] = submitted']
  /\ UNCHANGED << md, gmr_id, pc, ids, wired, table >>

\* A texture that ends at the end of its region goes in two transfers, and only
\* the second has a fence.  The FIFO takes both or none, by their size.
surfaceDMAFirst(b) ==
  /\ pc[b] = "idle" /\ gmr_id[b] # None
  /\ submitted + 1 < MaxTransfers
  /\ Submit(b)
  /\ Goto(b, "second")
  /\ UNCHANGED << md, gmr_id, fence, ids, wired, table >>

\* The second one must not be put off by the bound on transfers.
surfaceDMASecond(b) ==
  /\ pc[b] = "second"
  /\ pending' = pending \cup {NewTransfer(b)}
  /\ submitted' = submitted + 1 /\ UNCHANGED executed
  /\ fence' = [fence EXCEPT ![b] = submitted']
  /\ Goto(b, "idle")
  /\ UNCHANGED << md, gmr_id, ids, wired, table >>

\* Mutant: the wait is for a transfer after the fence.
PassedLate(f) == f < executed

\* SyncToFence() returns.
Passed(f) == f <= executed

\* sync(): when the owner only needs the transfers to be done.
sync(b) ==
  /\ pc[b] = "idle" /\ fence[b] # 0 /\ Passed(fence[b])
  /\ fence' = [fence EXCEPT ![b] = 0]
  /\ UNCHANGED << md, gmr_id, pc, ids, wired, table, fifo >>

\* complete() of a buffer with a region: first sync().
completeBegin(b) ==
  /\ pc[b] = "idle" /\ gmr_id[b] # None
  /\ Goto(b, "sync")
  /\ UNCHANGED << md, gmr_id, fence, ids, wired, table, fifo >>

completeSync(b) ==
  /\ pc[b] = "sync" /\ Passed(fence[b])
  /\ fence' = [fence EXCEPT ![b] = 0]
  /\ Goto(b, "destroy")
  /\ UNCHANGED << md, gmr_id, ids, wired, table, fifo >>

destroyGMR(b) ==
  /\ pc[b] = "destroy"
  /\ table' = [table EXCEPT ![gmr_id[b]] = None]
  /\ Goto(b, "unwire")
  /\ UNCHANGED << md, gmr_id, fence, ids, wired, fifo >>

\* md->complete(), in complete() and in clean2.
Unwire(b) ==
  /\ pc[b] = "unwire"
  /\ wired' = wired \ {b}
  /\ Goto(b, "giveback")
  /\ UNCHANGED << md, gmr_id, fence, ids, table, fifo >>

\* Mutant: the bit of the identifier is not cleared.
FreeGMRIDKept(b) ==
  /\ pc[b] = "giveback"
  /\ gmr_id' = [gmr_id EXCEPT ![b] = None]
  /\ Goto(b, "idle")
  /\ UNCHANGED << md, fence, ids, wired, table, fifo >>

\* FreeGMRID(), in complete() and in clean1.
FreeGMRID(b) ==
  /\ pc[b] = "giveback"
  /\ ids' = ids \ {gmr_id[b]}
  /\ gmr_id' = [gmr_id EXCEPT ![b] = None]
  /\ Goto(b, "idle")
  /\ UNCHANGED << md, fence, wired, table, fifo >>

\* The device does the next transfer.
Execute ==
  /\ executed < submitted
  /\ executed' = executed + 1
  /\ pending' = {t \in pending : t.n > executed'}
  /\ UNCHANGED << buffers, ids, wired, table, submitted >>

Owner(b) ==
  \/ Attach(b) \/ discard(b) \/ AllocGMRID(b)
  \/ surfaceDMA(b) \/ surfaceDMAFirst(b)
  \/ sync(b) \/ completeBegin(b)

\* What a thread does on its own once a call has begun.
Continue(b) ==
  \/ Wire(b) \/ createGMR(b) \/ surfaceDMASecond(b)
  \/ completeSync(b) \/ destroyGMR(b) \/ Unwire(b) \/ FreeGMRID(b)

Next == Execute \/ \E b \in Buffers : Owner(b) \/ Continue(b)

Spec == Init /\ [][Next]_vars

\* The device works off its FIFO and calls run on.
FairSpec ==
  Spec /\ WF_vars(Execute) /\ \A b \in Buffers : WF_vars(Continue(b))

-----------------------------------------------------------------------------
TypeOK ==
  /\ md \in [Buffers -> Memory \cup {None}]
  /\ gmr_id \in [Buffers -> Ids \cup {None}]
  /\ fence \in [Buffers -> Nat]
  /\ pc \in [Buffers -> Steps]
  /\ ids \subseteq Ids /\ wired \subseteq Buffers
  /\ table \in [Ids -> Memory \cup {None}]
  /\ pending \subseteq Transfer
  /\ submitted \in Nat /\ executed \in Nat

\* Whatever the device still has to transfer goes to the memory the buffer had
\* when the transfer was asked for: the region is still defined, as that memory,
\* and the memory is still wired.  The register writes of complete() overtake the
\* FIFO, so this is up to the fence alone.
TransferSafe ==
  \A t \in pending : table[t.id] = t.mem /\ t.buf \in wired

\* An identifier in use is the identifier of exactly one buffer: threads that
\* prepare, fail and complete at once neither share nor lose one.
IdsAccounted ==
  /\ \A i \in ids : \E b \in Buffers : gmr_id[b] = i
  /\ \A b, c \in Buffers : gmr_id[b] = gmr_id[c] /\ gmr_id[b] # None => b = c

\* The device has no region under an identifier that prepare() could hand out.
NoRegionUnderFreeId == \A i \in Ids : table[i] # None => i \in ids

\* A buffer without an identifier has its memory unwired, whichever step of
\* prepare() failed.
NothingLeftWired == \A b \in Buffers : gmr_id[b] = None => b \notin wired

\* No thread replaces or destroys the region of another: a region that is there
\* goes away only in its own buffer's complete(), and comes into a free place.
RegionsKeptApart ==
  [][\A i \in Ids : table'[i] # table[i] =>
       \/ table[i] = None
       \/ /\ table'[i] = None
          /\ \E b \in Buffers : gmr_id[b] = i /\ pc[b] = "destroy"]_vars

\* A call that has begun ends, however many transfers other buffers put into
\* the FIFO: complete() returns and prepare() too.
CallsEnd == \A b \in Buffers : pc[b] # "idle" ~> pc[b] = "idle"

-----------------------------------------------------------------------------
\* The region of a buffer is defined in these steps of its thread.
Defined(b) ==
  gmr_id[b] # None /\ pc[b] \in {"idle", "second", "sync", "destroy"}

IdsInv ==
  /\ \A b \in Buffers : gmr_id[b] # None => gmr_id[b] \in ids
  /\ \A b, c \in Buffers : gmr_id[b] = gmr_id[c] /\ gmr_id[b] # None => b = c
  /\ \A i \in ids : \E b \in Buffers : gmr_id[b] = i
  /\ \A b \in Buffers : pc[b] # "idle" => gmr_id[b] # None
  /\ \A b \in Buffers : gmr_id[b] # None => md[b] # None

TableInv ==
  /\ \A b \in Buffers : Defined(b) => table[gmr_id[b]] = md[b]
  /\ \A i \in Ids : table[i] # None => \E b \in Buffers : gmr_id[b] = i /\ Defined(b)
  /\ \A b \in Buffers : b \in wired <=> Defined(b) \/ pc[b] \in {"define", "unwire"}

PendingInv ==
  /\ executed <= submitted
  /\ \A b \in Buffers : fence[b] <= submitted
  /\ \A t \in pending :
       /\ executed < t.n /\ t.n <= submitted
       /\ t.id = gmr_id[t.buf] /\ t.mem = md[t.buf]
       /\ pc[t.buf] \in {"idle", "second", "sync"}
       /\ pc[t.buf] # "second" => t.n <= fence[t.buf]
       /\ gmr_id[t.buf] # None

\* The inductive invariant: every region belongs to one buffer between the end of
\* prepare() and destroyGMR(), and every transfer that is pending belongs to such
\* a buffer and is covered by its fence.
IInv == TypeOK /\ IdsInv /\ TableInv /\ PendingInv
=============================================================================
