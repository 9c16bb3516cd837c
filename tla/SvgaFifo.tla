------------------------------ MODULE SvgaFifo ------------------------------
(***************************************************************************)
(* The command FIFO of the SVGA device (FB/SVGADevice.cpp): the ring in    *)
(* BAR2 that every framebuffer and accelerator operation writes commands   *)
(* to, FIFOReserve and FIFOCommit with the bounce buffer for commands that *)
(* would cross the end of the ring, the fences, the doorbell and the waits *)
(* for the device.  Clients are the kernel threads that enter through the  *)
(* framebuffer and the accelerator; each one brackets its use of the       *)
(* device by lockDevice and unlockDevice.                                  *)
(*                                                                         *)
(* Sizes and offsets are counted in dwords, so the two tests for a length  *)
(* that is not 32-bit aligned are always satisfied.  FIFOInit refuses a    *)
(* device without SVGA_FIFO_CAP_RESERVE, so "reservable" is true in every  *)
(* state and the dword-at-a-time commit it guards is never taken.          *)
(***************************************************************************)
EXTENDS Integers, Sequences

CONSTANTS Client,       \* threads that use the device
          NoClient,     \* the device lock's owner when it is free
          Min, Max,     \* SVGA_FIFO_MIN and SVGA_FIFO_MAX, in dwords
          BounceSize,   \* BOUNCE_BUFFER_SIZE, in dwords
          Lens,         \* lengths of the commands the clients build
          FenceMod      \* number of fence values: 2^32 in the code

Size == Max - Min

SVGA_CMD_FENCE == "SVGA_CMD_FENCE"

\* The threads are named apart from the command that no thread builds.
ASSUME ClientAssumption == NoClient \notin Client /\ SVGA_CMD_FENCE \notin Client

ASSUME RingAssumption ==
  /\ Min \in Nat /\ Max \in Nat /\ BounceSize \in Nat
  /\ 2 <= BounceSize /\ BounceSize < Size
  /\ Lens \subseteq Nat \ {0}

\* The fences the device has not reached yet are all in the ring, so half of
\* the fence values is more than enough to order them.
ASSUME FenceAssumption ==
  /\ FenceMod \in Nat /\ FenceMod \div 2 > Size \div 2

VARIABLES
  ring,          \* the dwords of the ring
  nextCmd,       \* SVGA_FIFO_NEXT_CMD, written by the guest
  stop,          \* SVGA_FIFO_STOP, written by the device
  reservedReg,   \* SVGA_FIFO_RESERVED
  fenceReg,      \* SVGA_FIFO_FENCE
  fenceCap,      \* SVGA_FIFO_CAPABILITIES has SVGA_FIFO_CAP_FENCE
  busy,          \* SVGA_REG_BUSY
  fifoBusy,      \* SVGA_FIFO_BUSY
  partial,       \* dwords the device has read of the command it is executing
  reservedSize,  \* m_reserved_size
  usingBounce,   \* m_using_bounce_buffer
  bounce,        \* what m_bounce_buffer holds
  nextFence,     \* m_next_fence
  iolock,        \* owner of the framebuffer's m_iolock
  pc,            \* where each client is
  cmd,           \* the command each client is building
  fence,         \* the fence each client keeps for what it last submitted
  covered        \* no command of the client was committed after that fence

device  == << fenceReg, fenceCap, partial >>
members == << reservedSize, usingBounce, bounce, nextFence >>
vars    == << ring, nextCmd, stop, reservedReg, busy, fifoBusy, device,
              members, iolock, pc, cmd, fence, covered >>

(***************************************************************************)
(* Commands.  A dword is << op, len, pos, arg >>: the pos-th dword of a    *)
(* command of len dwords.  The first one is the header the device parses.  *)
(***************************************************************************)
ClientCommand(c, n) == [i \in 1..n |-> << c, n, i, 0 >>]
FenceCommand(f)     == [i \in 1..2 |-> << SVGA_CMD_FENCE, 2, i, f >>]

Command == {ClientCommand(c, n) : c \in Client, n \in Lens}
             \cup {FenceCommand(f) : f \in 1..(FenceMod - 1)}

Blank == << NoClient, 0, 0, 0 >>     \* a dword of the ring not yet written

First(w) == w[3] = 1
Last(w)  == w[3] = w[2]

(***************************************************************************)
(* The ring as the device sees it.                                         *)
(***************************************************************************)
Wrap(p) == IF p >= Max THEN p - Size ELSE p

Used == IF nextCmd >= stop THEN nextCmd - stop
                           ELSE (Max - stop) + (nextCmd - Min)

Pending == [i \in 1..Used |-> ring[Wrap(stop + (i - 1))]]

\* Write the dwords of s at offset p and, past the end of the ring, at Min.
Store(p, s) == [a \in DOMAIN ring |->
                  IF p <= a /\ a < p + Len(s) THEN s[a - p + 1]
                  ELSE IF a + Size < p + Len(s) THEN s[(a + Size) - p + 1]
                  ELSE ring[a]]

(***************************************************************************)
(* FIFOInit, after Init cleared the members.                               *)
(***************************************************************************)
Init ==
  /\ ring = [a \in Min..(Max - 1) |-> Blank]
  /\ nextCmd = Min /\ stop = Min
  /\ reservedReg = 0 /\ fenceReg = 0 /\ fenceCap \in BOOLEAN
  /\ busy = FALSE /\ fifoBusy = FALSE
  /\ partial = << >>
  /\ reservedSize = 0 /\ usingBounce = FALSE /\ bounce = << >>
  /\ nextFence = 1
  /\ iolock = NoClient
  /\ pc = [c \in Client |-> "idle"]
  /\ cmd = [c \in Client |-> << >>]
  /\ fence = [c \in Client |-> 0]
  /\ covered = [c \in Client |-> TRUE]

Goto(c, label) == pc' = [pc EXCEPT ![c] = label]

(***************************************************************************)
(* The device lock.                                                        *)
(***************************************************************************)
LockDevice(c) ==
  /\ pc[c] = "idle" /\ iolock = NoClient
  /\ iolock' = c /\ Goto(c, "ready")
  /\ UNCHANGED << ring, nextCmd, stop, reservedReg, busy, fifoBusy, device,
                  members, cmd, fence, covered >>

UnlockDevice(c) ==
  /\ pc[c] = "ready"
  /\ iolock' = NoClient /\ Goto(c, "idle")
  /\ UNCHANGED << ring, nextCmd, stop, reservedReg, busy, fifoBusy, device,
                  members, cmd, fence, covered >>

(***************************************************************************)
(* FIFOReserve: the tests it makes before it claims the reservation, and   *)
(* the loop that reads STOP until the command fits.                        *)
(***************************************************************************)
Refused(n) == n > BounceSize \/ n > Size \/ reservedSize # 0

FitsUpToStop(n) ==                                    \* mutant of FitsInPlace
  IF nextCmd >= stop
  THEN nextCmd + n < Max \/ (nextCmd + n = Max /\ stop > Min)
  ELSE nextCmd + n <= stop

FitsInPlace(n) ==
  IF nextCmd >= stop
  THEN nextCmd + n < Max \/ (nextCmd + n = Max /\ stop > Min)
  ELSE nextCmd + n < stop

BounceFillsRing(n) ==                                 \* mutant of NeedsBounce
  /\ nextCmd >= stop /\ ~FitsInPlace(n)
  /\ (Max - nextCmd) + (stop - Min) >= n

NeedsBounce(n) ==
  /\ nextCmd >= stop /\ ~FitsInPlace(n)
  /\ (Max - nextCmd) + (stop - Min) > n

\* The caller's command once a reservation of its length was granted.
Claim(c, s) ==
  /\ reservedSize' = Len(s)
  /\ cmd' = [cmd EXCEPT ![c] = s]
  /\ Goto(c, "reserve")

\* A command builder: FIFOReserveCmd or FIFOReserveEscape, the stores through
\* the pointer it returns, and FIFOCommitAll.  One that is refused returns.
BuildCommand(c, n) ==
  /\ pc[c] = "ready"
  /\ \/ ~Refused(n) /\ Claim(c, ClientCommand(c, n))
     \/ Refused(n) /\ UNCHANGED << reservedSize, cmd, pc >>
  /\ UNCHANGED << ring, nextCmd, stop, reservedReg, busy, fifoBusy, device,
                  usingBounce, bounce, nextFence, iolock, fence, covered >>

ReserveInPlace(c) ==
  /\ pc[c] = "reserve" /\ FitsInPlace(Len(cmd[c]))
  /\ usingBounce' = FALSE
  /\ reservedReg' = Len(cmd[c])
  /\ Goto(c, "fill")
  /\ UNCHANGED << ring, nextCmd, stop, busy, fifoBusy, device, reservedSize,
                  bounce, nextFence, iolock, cmd, fence, covered >>

ReserveBounce(c) ==
  /\ pc[c] = "reserve" /\ NeedsBounce(Len(cmd[c]))
  /\ usingBounce' = TRUE
  /\ Goto(c, "fill")
  /\ UNCHANGED << ring, nextCmd, stop, reservedReg, busy, fifoBusy, device,
                  reservedSize, bounce, nextFence, iolock, cmd, fence, covered >>

FIFOFullNoSync(c) ==                                  \* mutant of FIFOFull
  /\ pc[c] = "reserve"
  /\ ~FitsInPlace(Len(cmd[c])) /\ ~NeedsBounce(Len(cmd[c]))
  /\ UNCHANGED vars

FIFOFull(c) ==
  /\ pc[c] = "reserve"
  /\ ~FitsInPlace(Len(cmd[c])) /\ ~NeedsBounce(Len(cmd[c]))
  /\ busy' = TRUE
  /\ UNCHANGED << ring, nextCmd, stop, reservedReg, fifoBusy, device, members,
                  iolock, pc, cmd, fence, covered >>

\* The caller stores its command through the pointer FIFOReserve returned.
FillCommand(c) ==
  /\ pc[c] = "fill"
  /\ IF usingBounce THEN bounce' = cmd[c] /\ ring' = ring
                    ELSE ring' = Store(nextCmd, cmd[c]) /\ bounce' = bounce
  /\ Goto(c, "commit")
  /\ UNCHANGED << nextCmd, stop, reservedReg, busy, fifoBusy, device,
                  reservedSize, usingBounce, nextFence, iolock, cmd, fence,
                  covered >>

(***************************************************************************)
(* FIFOCommit, in the order of its stores to shared memory.                *)
(***************************************************************************)
CommitBeginUnreserved(c) ==                           \* mutant of CommitBegin
  /\ pc[c] = "commit"
  /\ reservedSize' = 0
  /\ IF usingBounce THEN Goto(c, "copy") ELSE Goto(c, "publish")
  /\ UNCHANGED << ring, nextCmd, stop, reservedReg, busy, fifoBusy, device,
                  usingBounce, bounce, nextFence, iolock, cmd, fence, covered >>

CommitBegin(c) ==
  /\ pc[c] = "commit"
  /\ reservedSize' = 0
  /\ IF usingBounce THEN reservedReg' = Len(cmd[c]) /\ Goto(c, "copy")
                    ELSE reservedReg' = reservedReg /\ Goto(c, "publish")
  /\ UNCHANGED << ring, nextCmd, stop, busy, fifoBusy, device, usingBounce,
                  bounce, nextFence, iolock, cmd, fence, covered >>

\* What the bounce buffer held is of no use afterwards: FillCommand stores the
\* next command over it before anything is copied from it again.
CommitCopy(c) ==
  /\ pc[c] = "copy"
  /\ ring' = Store(nextCmd, bounce)
  /\ bounce' = << >>
  /\ Goto(c, "publish")
  /\ UNCHANGED << nextCmd, stop, reservedReg, busy, fifoBusy, device,
                  reservedSize, usingBounce, nextFence, iolock, cmd, fence,
                  covered >>

CommitPublish(c) ==
  /\ pc[c] = "publish"
  /\ nextCmd' = Wrap(nextCmd + Len(cmd[c]))
  /\ covered' = [covered EXCEPT ![c] = cmd[c][1][1] = SVGA_CMD_FENCE]
  /\ Goto(c, "clear")
  /\ UNCHANGED << ring, stop, reservedReg, busy, fifoBusy, device, members,
                  iolock, cmd, fence >>

CommitEnd(c) ==
  /\ pc[c] = "clear"
  /\ reservedReg' = 0
  /\ cmd' = [cmd EXCEPT ![c] = << >>]
  /\ Goto(c, "ready")
  /\ UNCHANGED << ring, nextCmd, stop, busy, fifoBusy, device, members, iolock,
                  fence, covered >>

(***************************************************************************)
(* Fences.                                                                 *)
(***************************************************************************)
\* InsertFence, up to the reservation of its two dwords; the fence number is
\* used up even when the reservation is refused, and 0 is returned then.
InsertFence(c) ==
  LET f == IF nextFence = 0 THEN 1 ELSE nextFence IN
  /\ pc[c] = "ready"
  /\ \/ /\ ~fenceCap
        /\ fence' = [fence EXCEPT ![c] = 1]
        /\ covered' = [covered EXCEPT ![c] = TRUE]
        /\ UNCHANGED << nextFence, reservedSize, cmd, pc >>
     \/ /\ fenceCap
        /\ nextFence' = (f + 1) % FenceMod
        /\ fence' = [fence EXCEPT ![c] = IF Refused(2) THEN 0 ELSE f]
        /\ IF Refused(2) THEN UNCHANGED << reservedSize, cmd, pc >>
                         ELSE Claim(c, FenceCommand(f))
        /\ UNCHANGED covered
  /\ UNCHANGED << ring, nextCmd, stop, reservedReg, busy, fifoBusy, device,
                  usingBounce, bounce, iolock >>

HasFencePassedUnsigned(f) == fenceReg >= f   \* mutant of HasFencePassedUnguarded

HasFencePassedUnguarded(f) == (fenceReg - f) % FenceMod < FenceMod \div 2

\* SyncToFence up to the write of SVGA_REG_SYNC.
SyncToFence(c) ==
  /\ pc[c] = "ready"
  /\ \/ /\ fence[c] = 0 \/ (fenceCap /\ HasFencePassedUnguarded(fence[c]))
        /\ Goto(c, "synced") /\ UNCHANGED busy
     \/ /\ fence[c] # 0 /\ fenceCap /\ ~HasFencePassedUnguarded(fence[c])
        /\ busy' = TRUE /\ Goto(c, "fenceWait")
     \/ /\ fence[c] # 0 /\ ~fenceCap
        /\ busy' = TRUE /\ Goto(c, "drain")
  /\ UNCHANGED << ring, nextCmd, stop, reservedReg, fifoBusy, device, members,
                  iolock, cmd, fence, covered >>

\* The wait of SyncToFence ends when the fence has passed, or when the device
\* reports that it is no longer busy.
SyncToFenceDone(c) ==
  /\ pc[c] = "fenceWait"
  /\ HasFencePassedUnguarded(fence[c]) \/ ~busy
  /\ Goto(c, "synced")
  /\ UNCHANGED << ring, nextCmd, stop, reservedReg, busy, fifoBusy, device,
                  members, iolock, cmd, fence, covered >>

\* SyncFIFO: write SVGA_REG_SYNC and wait until the device is not busy.
SyncFIFO(c) ==
  /\ pc[c] = "ready"
  /\ busy' = TRUE /\ Goto(c, "drain")
  /\ UNCHANGED << ring, nextCmd, stop, reservedReg, fifoBusy, device, members,
                  iolock, cmd, fence, covered >>

SyncFIFODone(c) ==
  /\ pc[c] = "drain" /\ ~busy
  /\ Goto(c, "drained")
  /\ UNCHANGED << ring, nextCmd, stop, reservedReg, busy, fifoBusy, device,
                  members, iolock, cmd, fence, covered >>

\* The caller of SyncToFence or SyncFIFO goes on, its fence forgotten as
\* VendorTransferBuffer::sync does.
SyncReturn(c) ==
  /\ pc[c] \in {"synced", "drained"}
  /\ fence' = [fence EXCEPT ![c] = 0]
  /\ Goto(c, "ready")
  /\ UNCHANGED << ring, nextCmd, stop, reservedReg, busy, fifoBusy, device,
                  members, iolock, cmd, covered >>

RingDoorBellUnsynced(c) ==                            \* mutant of RingDoorBell
  /\ pc[c] = "ready"
  /\ fifoBusy' = TRUE
  /\ UNCHANGED << ring, nextCmd, stop, reservedReg, busy, device, members,
                  iolock, pc, cmd, fence, covered >>

\* RingDoorBell: the write of SVGA_REG_SYNC, an exit to the hypervisor, comes
\* after the store to SVGA_FIFO_BUSY.  FIFOInit puts MIN behind all registers, so
\* that register is valid and the other branch is never taken.
RingDoorBell(c) ==
  /\ pc[c] = "ready"
  /\ fifoBusy' = TRUE
  /\ IF fifoBusy THEN pc' = pc ELSE Goto(c, "wake")
  /\ UNCHANGED << ring, nextCmd, stop, reservedReg, busy, device, members,
                  iolock, cmd, fence, covered >>

RingDoorBellSync(c) ==
  /\ pc[c] = "wake"
  /\ busy' = TRUE /\ Goto(c, "ready")
  /\ UNCHANGED << ring, nextCmd, stop, reservedReg, fifoBusy, device, members,
                  iolock, cmd, fence, covered >>

(***************************************************************************)
(* The device, as the header documents its registers: it polls the FIFO    *)
(* when it likes, must drain it once SYNC was written, and reports that it *)
(* is not busy only when the FIFO is empty.                                *)
(***************************************************************************)
DeviceRead ==
  LET w == ring[stop] IN
  /\ stop # nextCmd
  /\ stop' = Wrap(stop + 1)
  /\ partial' = IF Last(w) THEN << >> ELSE Append(partial, w)
  /\ fenceReg' = IF w[1] = SVGA_CMD_FENCE /\ Last(w) THEN w[4] ELSE fenceReg
  /\ UNCHANGED << ring, nextCmd, reservedReg, fenceCap, busy, fifoBusy, members,
                  iolock, pc, cmd, fence, covered >>

DeviceIdle ==
  /\ busy /\ stop = nextCmd
  /\ busy' = FALSE /\ fifoBusy' = FALSE
  /\ UNCHANGED << ring, nextCmd, stop, reservedReg, device, members, iolock, pc,
                  cmd, fence, covered >>

ClientStep(c) ==
  \/ ReserveInPlace(c) \/ ReserveBounce(c) \/ FIFOFull(c) \/ FillCommand(c)
  \/ CommitBegin(c) \/ CommitCopy(c) \/ CommitPublish(c) \/ CommitEnd(c)
  \/ SyncToFenceDone(c) \/ SyncFIFODone(c) \/ SyncReturn(c)
  \/ RingDoorBellSync(c)

ClientCall(c) ==
  \/ LockDevice(c) \/ UnlockDevice(c)
  \/ \E n \in Lens : BuildCommand(c, n)
  \/ InsertFence(c) \/ SyncToFence(c) \/ SyncFIFO(c) \/ RingDoorBell(c)

Next == \/ \E c \in Client : ClientStep(c) \/ ClientCall(c)
        \/ DeviceRead \/ DeviceIdle

Spec == Init /\ [][Next]_vars

\* A thread that is inside one of the functions keeps running, and a device
\* that was woken by SYNC processes the FIFO.
Fairness == /\ \A c \in Client : WF_vars(ClientStep(c))
            /\ WF_vars(busy /\ (DeviceRead \/ DeviceIdle))

FairSpec == Spec /\ Fairness

(***************************************************************************)
(* Properties.                                                             *)
(***************************************************************************)
Word == (Client \cup {NoClient, SVGA_CMD_FENCE})
          \X Nat \X Nat \X (0..(FenceMod - 1))

Labels == {"idle", "ready", "reserve", "fill", "commit", "copy", "publish",
           "clear", "fenceWait", "drain", "synced", "drained", "wake"}

\* The types of the registers, the members and the clients' state.
TypeOK ==
  /\ ring \in [Min..(Max - 1) -> Word]
  /\ nextCmd \in Min..(Max - 1) /\ stop \in Min..(Max - 1)
  /\ reservedReg \in Nat /\ reservedSize \in Nat
  /\ fenceReg \in 0..(FenceMod - 1) /\ nextFence \in 0..(FenceMod - 1)
  /\ fenceCap \in BOOLEAN /\ busy \in BOOLEAN /\ fifoBusy \in BOOLEAN
  /\ usingBounce \in BOOLEAN
  /\ partial \in Seq(Word) /\ bounce \in Seq(Word)
  /\ iolock \in Client \cup {NoClient}
  /\ pc \in [Client -> Labels]
  /\ cmd \in [Client -> Seq(Word)]
  /\ fence \in [Client -> 0..(FenceMod - 1)]
  /\ covered \in [Client -> BOOLEAN]

\* What the device has read of a command and what lies between STOP and
\* NEXT_CMD is always a sequence of whole commands: whichever way FIFOReserve
\* placed a command and however often the ring wrapped, NEXT_CMD never exposes
\* a command in part, out of order or mixed with an older one.
DeviceSeesWholeCommands ==
  LET s == partial \o Pending IN
  s # << >> =>
    /\ First(s[1]) /\ Last(s[Len(s)])
    /\ \A i \in 1..(Len(s) - 1) :
         \/ Last(s[i]) /\ First(s[i + 1])
         \/ s[i + 1] = [s[i] EXCEPT ![3] = @ + 1]

\* SVGA_FIFO_RESERVED counts the "bytes past NEXT_CMD with real contents"
\* (ceinclude/svga_reg.h): from the first dword that is stored past NEXT_CMD
\* until NEXT_CMD moves, in place or through the bounce buffer, it covers the
\* command, so a host that saves the machine in between keeps it.
ReservedCoversContents ==
  \A c \in Client :
    (pc[c] = "publish" \/ (pc[c] = "commit" /\ ~usingBounce))
      => /\ reservedReg = Len(cmd[c])
         /\ \A i \in 1..Len(cmd[c]) : ring[Wrap(nextCmd + (i - 1))] = cmd[c][i]

\* When SyncToFence returns for the fence a client inserted after its commands,
\* the device has executed every one of them, and when SyncFIFO returns the
\* FIFO is empty: memory those commands use can be reused.  This covers fence
\* values that have wrapped and fences held so long that they look like future
\* ones.
SyncWaitsForCommands ==
  \A c \in Client :
    /\ pc[c] = "synced" /\ covered[c] =>
         \A i \in 1..Len(partial \o Pending) : (partial \o Pending)[i][1] # c
    /\ pc[c] = "drained" => partial \o Pending = << >>

\* The device reads the commands in the ring after a doorbell, whoever rang it.
DoorbellServed ==
  \A a \in Min..(Max - 1) :
    (fifoBusy /\ stop = a /\ nextCmd # a) ~> stop # a

\* A thread that waits inside FIFOReserve for the ring to drain, or inside
\* SyncToFence or SyncFIFO for the device, gets out with the lock it holds.
WaitsEnd ==
  \A c \in Client : pc[c] \in {"reserve", "fenceWait", "drain"} ~> pc[c] = "ready"

(***************************************************************************)
(* The inductive invariant behind the proofs.                              *)
(***************************************************************************)
\* Only the owner of the device lock is inside a call.
LockExcludes == \A c \in Client : pc[c] # "idle" <=> iolock = c

\* A client between FIFOReserve's claim and the end of FIFOCommit has one of
\* the commands in hand, of a size the bounce buffer holds.
CommandInHand ==
  \A c \in Client :
    pc[c] \in {"reserve", "fill", "commit", "copy", "publish"}
      => cmd[c] \in Command /\ Len(cmd[c]) <= BounceSize

\* From the moment FIFOReserve returns until NEXT_CMD moves, the command fits
\* behind NEXT_CMD with at least one dword to spare before STOP, whatever the
\* device has read meanwhile; without the bounce buffer it does not cross the
\* end of the ring either.
RoomForCommand ==
  \A c \in Client :
    pc[c] \in {"fill", "commit", "copy", "publish"}
      => /\ Used + Len(cmd[c]) < Size
         /\ usingBounce \/ nextCmd + Len(cmd[c]) <= Max

\* What FIFOCommit is about to publish is the client's own command, in the ring
\* or still in the bounce buffer.
ContentsInPlace ==
  \A c \in Client :
    /\ (pc[c] = "publish" \/ (pc[c] = "commit" /\ ~usingBounce))
         => \A i \in 1..Len(cmd[c]) : ring[Wrap(nextCmd + (i - 1))] = cmd[c][i]
    /\ (pc[c] = "copy" \/ (pc[c] = "commit" /\ usingBounce)) => bounce = cmd[c]
    /\ pc[c] = "copy" => usingBounce

\* The ring's inductive invariant: every reservation that FIFOReserve has
\* granted stays good until FIFOCommit has published it.
RingInv == /\ LockExcludes /\ CommandInHand
           /\ RoomForCommand /\ ContentsInPlace

\* The FIFO implements the stream of whole commands it promises.
Stream == INSTANCE CommandStream WITH queue <- Pending, Capacity <- Size - 1
ImplementsStream == Stream!Spec
=============================================================================
