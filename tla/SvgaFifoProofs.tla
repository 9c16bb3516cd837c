--------------------------- MODULE SvgaFifoProofs ---------------------------
(***************************************************************************)
(* Proofs about the command FIFO, for every ring size, bounce buffer size, *)
(* set of command lengths and set of threads.  The order is: operators and *)
(* types; the type invariant and the ring's invariant are inductive; what  *)
(* each kind of step does to the dwords between STOP and NEXT_CMD; and     *)
(* from those, that the FIFO implements the stream of whole commands.      *)
(***************************************************************************)
EXTENDS SvgaFifo, SequenceTheorems, TLAPS

USE ClientAssumption, RingAssumption DEF Size

\* The ring never counts as holding as many dwords as it has.
LEMMA UsedNat ==
  ASSUME TypeOK PROVE Used \in 0..(Size - 1)
BY DEF TypeOK, Used

\* A function on 1..n is a sequence of length n.
LEMMA WordSeq ==
  ASSUME NEW n \in Nat, NEW s \in [1..n -> Word]
  PROVE  s \in Seq(Word) /\ Len(s) = n
OBVIOUS

\* Offsets counted from STOP stay inside the ring.
LEMMA WindowIndex ==
  ASSUME NEW st \in Min..(Max - 1), NEW u \in Nat, u < Size
  PROVE  \A i \in 1..u : Wrap(st + (i - 1)) \in Min..(Max - 1)
BY DEF Wrap

\* The dwords between STOP and NEXT_CMD form a sequence.
LEMMA PendingSeq ==
  ASSUME TypeOK
  PROVE  /\ Pending \in Seq(Word)
         /\ Len(Pending) = Used
         /\ \A i \in 1..Used : Pending[i] = ring[Wrap(stop + (i - 1))]
<1>1. /\ ring \in [Min..(Max - 1) -> Word] /\ stop \in Min..(Max - 1)
      /\ Used \in Nat /\ Used < Size
  BY UsedNat DEF TypeOK
<1>2. Pending = [i \in 1..Used |-> ring[Wrap(stop + (i - 1))]]
  BY DEF Pending
<1>3. Pending \in [1..Used -> Word]
  BY <1>1, <1>2, WindowIndex
<1> QED BY <1>1, <1>2, <1>3, WordSeq

-----------------------------------------------------------------------------
\* There are fence values besides 0.
LEMMA FenceModBig == FenceMod \in Nat /\ FenceMod > 2
BY FenceAssumption

\* InsertFence's command is two dwords.
LEMMA FenceCommandType ==
  ASSUME NEW f \in 1..(FenceMod - 1)
  PROVE  FenceCommand(f) \in Seq(Word) /\ Len(FenceCommand(f)) = 2
<1>1. FenceCommand(f) \in [1..2 -> Word]
  BY FenceModBig DEF FenceCommand, Word
<1> QED BY <1>1, WordSeq

\* A command builder's command has the length it reserved.
LEMMA ClientCommandType ==
  ASSUME NEW c \in Client, NEW n \in Lens
  PROVE  /\ ClientCommand(c, n) \in Seq(Word)
         /\ Len(ClientCommand(c, n)) = n
         /\ n \in Nat \ {0}
<1>1. n \in Nat \ {0}
  BY RingAssumption
<1>2. ClientCommand(c, n) \in [1..n -> Word]
  BY <1>1, FenceModBig DEF ClientCommand, Word
<1> QED BY <1>1, <1>2, WordSeq

\* Commands are sequences of dwords and none is empty.
LEMMA CommandType ==
  ASSUME NEW s \in Command
  PROVE  s \in Seq(Word) /\ Len(s) \in Nat \ {0}
<1>1. ASSUME NEW c \in Client, NEW n \in Lens, s = ClientCommand(c, n)
      PROVE  s \in Seq(Word) /\ Len(s) = n /\ n \in Nat \ {0}
  BY <1>1, ClientCommandType
<1>2. ASSUME NEW f \in 1..(FenceMod - 1), s = FenceCommand(f)
      PROVE  s \in Seq(Word) /\ Len(s) = 2
  BY <1>2, FenceCommandType
<1>3. CASE s \in {ClientCommand(c, n) : c \in Client, n \in Lens}
  <2>1. PICK c \in Client, n \in Lens : s = ClientCommand(c, n)
    BY <1>3
  <2> QED BY <1>1, <2>1
<1>4. CASE s \in {FenceCommand(f) : f \in 1..(FenceMod - 1)}
  <2>1. PICK f \in 1..(FenceMod - 1) : s = FenceCommand(f)
    BY <1>4
  <2>2. s \in Seq(Word) /\ Len(s) = 2
    BY <1>2, <2>1
  <2> QED BY <2>2
<1> QED BY <1>3, <1>4 DEF Command

\* Storing a command in the ring keeps the ring a ring of dwords.
LEMMA StoreType ==
  ASSUME ring \in [Min..(Max - 1) -> Word],
         NEW p \in Min..(Max - 1), NEW s \in Seq(Word), Len(s) <= Size
  PROVE  Store(p, s) \in [Min..(Max - 1) -> Word]
BY DEF Store

\* TypeOK alone is not inductive: that NEXT_CMD stays in the ring depends on
\* the length of the command in hand, which RingInv bounds.
IInv == TypeOK /\ RingInv

\* Every step keeps the types.
LEMMA TypeStep ==
  ASSUME TypeOK, RingInv, [Next]_vars
  PROVE  TypeOK'
<1> USE DEF TypeOK, Labels, Goto, device, members
<1>a. \A c \in Client : Len(cmd[c]) \in Nat
  OBVIOUS
<1>1. ASSUME NEW c \in Client, ReserveInPlace(c) PROVE TypeOK'
  BY <1>1, <1>a DEF ReserveInPlace
<1>2. ASSUME NEW c \in Client, ReserveBounce(c) PROVE TypeOK'
  BY <1>2 DEF ReserveBounce
<1>3. ASSUME NEW c \in Client, FIFOFull(c) PROVE TypeOK'
  BY <1>3 DEF FIFOFull
<1>4. ASSUME NEW c \in Client, FillCommand(c) PROVE TypeOK'
  <2>1. Len(cmd[c]) <= Size
    BY <1>4 DEF FillCommand, RingInv, CommandInHand
  <2>2. Store(nextCmd, cmd[c]) \in [Min..(Max - 1) -> Word]
    BY <2>1, StoreType
  <2> QED BY <1>4, <2>2 DEF FillCommand
<1>5. ASSUME NEW c \in Client, CommitBegin(c) PROVE TypeOK'
  BY <1>5, <1>a DEF CommitBegin
<1>6. ASSUME NEW c \in Client, CommitCopy(c) PROVE TypeOK'
  <2>1. bounce = cmd[c] /\ Len(bounce) <= Size
    BY <1>6 DEF CommitCopy, RingInv, CommandInHand, ContentsInPlace
  <2>2. Store(nextCmd, bounce) \in [Min..(Max - 1) -> Word]
    BY <2>1, StoreType
  <2> QED BY <1>6, <2>2 DEF CommitCopy
<1>7. ASSUME NEW c \in Client, CommitPublish(c) PROVE TypeOK'
  <2>1. Len(cmd[c]) \in 0..Size
    BY <1>7, <1>a DEF CommitPublish, RingInv, CommandInHand
  <2>2. Wrap(nextCmd + Len(cmd[c])) \in Min..(Max - 1)
    BY <2>1 DEF Wrap
  <2> QED BY <1>7, <2>2 DEF CommitPublish
<1>8. ASSUME NEW c \in Client, CommitEnd(c) PROVE TypeOK'
  BY <1>8 DEF CommitEnd
<1>9. ASSUME NEW c \in Client, SyncToFenceDone(c) PROVE TypeOK'
  BY <1>9 DEF SyncToFenceDone
<1>10. ASSUME NEW c \in Client, SyncFIFODone(c) PROVE TypeOK'
  BY <1>10 DEF SyncFIFODone
<1>11. ASSUME NEW c \in Client, SyncReturn(c) PROVE TypeOK'
  BY <1>11, FenceModBig DEF SyncReturn
<1>12. ASSUME NEW c \in Client, RingDoorBellSync(c) PROVE TypeOK'
  BY <1>12 DEF RingDoorBellSync
<1>13. ASSUME NEW c \in Client, LockDevice(c) PROVE TypeOK'
  BY <1>13 DEF LockDevice
<1>14. ASSUME NEW c \in Client, UnlockDevice(c) PROVE TypeOK'
  BY <1>14 DEF UnlockDevice
<1>15. ASSUME NEW c \in Client, InsertFence(c) PROVE TypeOK'
  <2> DEFINE f == IF nextFence = 0 THEN 1 ELSE nextFence
  <2>1. f \in 1..(FenceMod - 1) /\ (f + 1) % FenceMod \in 0..(FenceMod - 1)
    BY FenceModBig
  <2>2. FenceCommand(f) \in Seq(Word) /\ Len(FenceCommand(f)) = 2
    BY <2>1, FenceCommandType
  <2> HIDE DEF f
  <2>3. CASE fenceCap /\ ~Refused(2)
    <3>1. /\ nextFence' = (f + 1) % FenceMod
          /\ fence' = [fence EXCEPT ![c] = f]
          /\ Claim(c, FenceCommand(f))
      BY <1>15, <2>3 DEF InsertFence, f
    <3> QED BY <1>15, <2>1, <2>2, <2>3, <3>1 DEF InsertFence, Claim
  <2>4. CASE fenceCap /\ Refused(2)
    <3>1. /\ nextFence' = (f + 1) % FenceMod
          /\ fence' = [fence EXCEPT ![c] = 0]
          /\ UNCHANGED << reservedSize, cmd, pc >>
      BY <1>15, <2>4 DEF InsertFence, f
    <3> QED BY <1>15, <2>1, <2>4, <3>1, FenceModBig DEF InsertFence
  <2>5. CASE ~fenceCap
    <3>1. /\ fence' = [fence EXCEPT ![c] = 1]
          /\ covered' = [covered EXCEPT ![c] = TRUE]
          /\ UNCHANGED << nextFence, reservedSize, cmd, pc >>
      BY <1>15, <2>5 DEF InsertFence
    <3> QED BY <1>15, <2>5, <3>1, FenceModBig DEF InsertFence
  <2> QED BY <2>3, <2>4, <2>5
<1>16. ASSUME NEW c \in Client, SyncToFence(c) PROVE TypeOK'
  BY <1>16 DEF SyncToFence
<1>17. ASSUME NEW c \in Client, SyncFIFO(c) PROVE TypeOK'
  BY <1>17 DEF SyncFIFO
<1>18. ASSUME NEW c \in Client, RingDoorBell(c) PROVE TypeOK'
  BY <1>18 DEF RingDoorBell
<1>19. ASSUME NEW c \in Client, NEW n \in Lens, BuildCommand(c, n) PROVE TypeOK'
  <2>1. ClientCommand(c, n) \in Seq(Word) /\ Len(ClientCommand(c, n)) \in Nat
    BY CommandType DEF Command
  <2> QED BY <1>19, <2>1 DEF BuildCommand, Claim
<1>20. ASSUME DeviceRead PROVE TypeOK'
  <2>1. ring[stop] \in Word
    OBVIOUS
  <2>2. Wrap(stop + 1) \in Min..(Max - 1)
    BY DEF Wrap
  <2>3. Append(partial, ring[stop]) \in Seq(Word)
    BY <2>1
  <2>4. ring[stop][4] \in 0..(FenceMod - 1)
    BY <2>1 DEF Word
  <2> QED BY <1>20, <2>2, <2>3, <2>4 DEF DeviceRead
<1>21. ASSUME DeviceIdle PROVE TypeOK'
  BY <1>21 DEF DeviceIdle
<1>22. ASSUME UNCHANGED vars PROVE TypeOK'
  BY <1>22 DEF vars
<1> QED BY <1>1, <1>2, <1>3, <1>4, <1>5, <1>6, <1>7, <1>8, <1>9, <1>10, <1>11, <1>12, <1>13, <1>14, <1>15, <1>16, <1>17, <1>18, <1>19, <1>20, <1>21, <1>22 DEF Next, ClientStep, ClientCall

-----------------------------------------------------------------------------
\* All threads but the owner of the device lock are idle.
LEMMA Alone ==
  ASSUME LockExcludes, NEW c \in Client, pc[c] # "idle"
  PROVE  iolock = c /\ \A d \in Client : d # c => pc[d] = "idle"
BY DEF LockExcludes

\* What Store wrote at an offset is read back from there.
LEMMA StoreStores ==
  ASSUME ring \in [Min..(Max - 1) -> Word],
         NEW p \in Min..(Max - 1), NEW s \in Seq(Word), Len(s) <= Size
  PROVE  \A i \in 1..Len(s) : Store(p, s)[Wrap(p + (i - 1))] = s[i]
BY DEF Store, Wrap

\* The test for a reservation in place leaves a dword free before STOP.
LEMMA InPlaceRoom ==
  ASSUME TypeOK, NEW n \in Nat, FitsInPlace(n)
  PROVE  Used + n < Size /\ nextCmd + n <= Max
<1>1. /\ nextCmd \in Int /\ Min <= nextCmd /\ nextCmd <= Max - 1
      /\ stop \in Int /\ Min <= stop /\ stop <= Max - 1
  BY DEF TypeOK
<1>2. CASE nextCmd >= stop
  BY <1>1, <1>2 DEF FitsInPlace, Used
<1>3. CASE stop > nextCmd
  BY <1>1, <1>3 DEF FitsInPlace, Used
<1> QED BY <1>1, <1>2, <1>3

\* Every step keeps the ring's invariant.
LEMMA RingStep ==
  ASSUME TypeOK, RingInv, [Next]_vars
  PROVE  RingInv'
<1> USE DEF RingInv, Goto, members
<1>a. \A c \in Client : cmd[c] \in Seq(Word) /\ Len(cmd[c]) \in Nat
  BY DEF TypeOK
<1>b. nextCmd \in Min..(Max - 1) /\ stop \in Min..(Max - 1)
  BY DEF TypeOK
<1>1. ASSUME NEW c \in Client, ReserveInPlace(c) PROVE RingInv'
  <2>1. Used + Len(cmd[c]) < Size /\ nextCmd + Len(cmd[c]) <= Max
    BY <1>1, <1>a, InPlaceRoom DEF ReserveInPlace
  <2> QED BY <1>1, <2>1, Alone DEF ReserveInPlace, TypeOK, Used, LockExcludes, CommandInHand, RoomForCommand, ContentsInPlace
<1>2. ASSUME NEW c \in Client, ReserveBounce(c) PROVE RingInv'
  <2>1. Used + Len(cmd[c]) < Size
    BY <1>2, <1>a, <1>b DEF ReserveBounce, NeedsBounce, Used
  <2> QED BY <1>2, <2>1, Alone DEF ReserveBounce, TypeOK, Used, LockExcludes, CommandInHand, RoomForCommand, ContentsInPlace
<1>3. ASSUME NEW c \in Client, FIFOFull(c) PROVE RingInv'
  BY <1>3, Alone DEF FIFOFull, TypeOK, Used, LockExcludes, CommandInHand, RoomForCommand, ContentsInPlace
<1>4. ASSUME NEW c \in Client, FillCommand(c) PROVE RingInv'
  <2>1. Len(cmd[c]) <= Size
    BY <1>4 DEF FillCommand, CommandInHand, TypeOK
  <2>2. \A i \in 1..Len(cmd[c]) :
          Store(nextCmd, cmd[c])[Wrap(nextCmd + (i - 1))] = cmd[c][i]
    BY <2>1, <1>a, <1>b, StoreStores DEF TypeOK
  <2> QED BY <1>4, <2>2, Alone DEF FillCommand, TypeOK, Used, LockExcludes, CommandInHand, RoomForCommand, ContentsInPlace
<1>5. ASSUME NEW c \in Client, CommitBegin(c) PROVE RingInv'
  <2>1. /\ pc[c] = "commit" /\ pc'[c] = IF usingBounce THEN "copy" ELSE "publish"
        /\ \A d \in Client : d # c => pc[d] = "idle" /\ pc'[d] = "idle"
        /\ UNCHANGED << ring, nextCmd, stop, usingBounce, bounce, iolock, cmd >>
    BY <1>5, Alone DEF CommitBegin, TypeOK
  <2>2. LockExcludes' /\ CommandInHand'
    BY <2>1 DEF LockExcludes, CommandInHand
  <2>3. RoomForCommand' /\ ContentsInPlace'
    BY <2>1 DEF RoomForCommand, ContentsInPlace, Used
  <2> QED BY <2>2, <2>3
<1>6. ASSUME NEW c \in Client, CommitCopy(c) PROVE RingInv'
  <2>1. bounce = cmd[c] /\ Len(bounce) <= Size
    BY <1>6 DEF CommitCopy, LockExcludes, CommandInHand, RoomForCommand, ContentsInPlace
  <2>2. \A i \in 1..Len(cmd[c]) :
          Store(nextCmd, bounce)[Wrap(nextCmd + (i - 1))] = cmd[c][i]
    BY <2>1, <1>a, <1>b, StoreStores DEF TypeOK
  <2> QED BY <1>6, <2>2, Alone DEF CommitCopy, TypeOK, Used, LockExcludes, CommandInHand, RoomForCommand, ContentsInPlace
<1>7. ASSUME NEW c \in Client, CommitPublish(c) PROVE RingInv'
  BY <1>7, Alone DEF CommitPublish, TypeOK, Used, LockExcludes, CommandInHand, RoomForCommand, ContentsInPlace
<1>8. ASSUME NEW c \in Client, CommitEnd(c) PROVE RingInv'
  BY <1>8, Alone DEF CommitEnd, TypeOK, Used, LockExcludes, CommandInHand, RoomForCommand, ContentsInPlace
<1>9. ASSUME NEW c \in Client, SyncToFenceDone(c) PROVE RingInv'
  BY <1>9, Alone DEF SyncToFenceDone, TypeOK, Used, LockExcludes, CommandInHand, RoomForCommand, ContentsInPlace
<1>10. ASSUME NEW c \in Client, SyncFIFODone(c) PROVE RingInv'
  BY <1>10, Alone DEF SyncFIFODone, TypeOK, Used, LockExcludes, CommandInHand, RoomForCommand, ContentsInPlace
<1>11. ASSUME NEW c \in Client, SyncReturn(c) PROVE RingInv'
  BY <1>11, Alone DEF SyncReturn, TypeOK, Used, LockExcludes, CommandInHand, RoomForCommand, ContentsInPlace
<1>12. ASSUME NEW c \in Client, RingDoorBellSync(c) PROVE RingInv'
  BY <1>12, Alone DEF RingDoorBellSync, TypeOK, Used, LockExcludes, CommandInHand, RoomForCommand, ContentsInPlace
<1>13. ASSUME NEW c \in Client, LockDevice(c) PROVE RingInv'
  BY <1>13, Alone DEF LockDevice, TypeOK, Used, LockExcludes, CommandInHand, RoomForCommand, ContentsInPlace
<1>14. ASSUME NEW c \in Client, UnlockDevice(c) PROVE RingInv'
  BY <1>14, Alone DEF UnlockDevice, TypeOK, Used, LockExcludes, CommandInHand, RoomForCommand, ContentsInPlace
<1>15. ASSUME NEW c \in Client, InsertFence(c) PROVE RingInv'
  <2> DEFINE f == IF nextFence = 0 THEN 1 ELSE nextFence
  <2>1. f \in 1..(FenceMod - 1)
    BY FenceModBig DEF TypeOK
  <2>2. FenceCommand(f) \in Command /\ Len(FenceCommand(f)) = 2
    BY <2>1, FenceCommandType DEF Command
  <2> HIDE DEF f
  <2>3. CASE fenceCap /\ ~Refused(2)
    <3>1. Claim(c, FenceCommand(f))
      BY <1>15, <2>3 DEF InsertFence, f
    <3>2. pc[c] = "ready" /\ pc' = [pc EXCEPT ![c] = "reserve"]
           /\ cmd' = [cmd EXCEPT ![c] = FenceCommand(f)] /\ iolock' = iolock
      BY <1>15, <3>1 DEF InsertFence, Claim
    <3>3. \A d \in Client : d # c => pc'[d] = "idle"
      BY <3>2, Alone DEF TypeOK
    <3>4. pc'[c] = "reserve" /\ cmd'[c] = FenceCommand(f)
      BY <3>2 DEF TypeOK
    <3>5. LockExcludes'
      BY <3>2, <3>3, <3>4 DEF LockExcludes
    <3>6. CommandInHand'
      BY <2>2, <3>3, <3>4 DEF CommandInHand
    <3>7. RoomForCommand' /\ ContentsInPlace'
      BY <3>3, <3>4 DEF RoomForCommand, ContentsInPlace
    <3> QED BY <3>5, <3>6, <3>7
  <2>4. CASE ~(fenceCap /\ ~Refused(2))
    <3>1. UNCHANGED << cmd, pc >>
      BY <1>15, <2>4 DEF InsertFence
    <3> QED BY <1>15, <3>1 DEF InsertFence, TypeOK, Used, LockExcludes, CommandInHand, RoomForCommand, ContentsInPlace
  <2> QED BY <2>3, <2>4
<1>16. ASSUME NEW c \in Client, SyncToFence(c) PROVE RingInv'
  BY <1>16, Alone DEF SyncToFence, TypeOK, Used, LockExcludes, CommandInHand, RoomForCommand, ContentsInPlace
<1>17. ASSUME NEW c \in Client, SyncFIFO(c) PROVE RingInv'
  BY <1>17, Alone DEF SyncFIFO, TypeOK, Used, LockExcludes, CommandInHand, RoomForCommand, ContentsInPlace
<1>18. ASSUME NEW c \in Client, RingDoorBell(c) PROVE RingInv'
  BY <1>18, Alone DEF RingDoorBell, TypeOK, Used, LockExcludes, CommandInHand, RoomForCommand, ContentsInPlace
<1>19. ASSUME NEW c \in Client, NEW n \in Lens, BuildCommand(c, n) PROVE RingInv'
  <2>1. ClientCommand(c, n) \in Command
    BY DEF Command
  <2>2. Len(ClientCommand(c, n)) = n
    BY <2>1, ClientCommandType
  <2>3. CASE ~Refused(n) /\ Claim(c, ClientCommand(c, n))
    <3>1. n <= BounceSize
      BY <2>3, RingAssumption DEF Refused
    <3> QED BY <1>19, <2>1, <2>2, <2>3, <3>1, Alone
            DEF BuildCommand, Claim, TypeOK, LockExcludes, CommandInHand, RoomForCommand, ContentsInPlace
  <2>4. CASE UNCHANGED << reservedSize, cmd, pc >>
    BY <1>19, <2>4 DEF BuildCommand, Used, LockExcludes, CommandInHand, RoomForCommand, ContentsInPlace
  <2> QED BY <1>19, <2>3, <2>4 DEF BuildCommand
<1>20. ASSUME DeviceRead PROVE RingInv'
  <2>1. Used' = Used - 1
    BY <1>20 DEF DeviceRead, TypeOK, Used, Wrap
  <2>2. Used \in Nat /\ \A c \in Client : Len(cmd[c]) \in Nat
    BY UsedNat DEF TypeOK
  <2> QED BY <1>20, <2>1, <2>2 DEF DeviceRead, Wrap, LockExcludes, CommandInHand, RoomForCommand, ContentsInPlace
<1>21. ASSUME DeviceIdle PROVE RingInv'
  BY <1>21 DEF DeviceIdle, TypeOK, Used, LockExcludes, CommandInHand, RoomForCommand, ContentsInPlace
<1>22. ASSUME UNCHANGED vars PROVE RingInv'
  BY <1>22 DEF vars, Used, LockExcludes, CommandInHand, RoomForCommand, ContentsInPlace
<1> QED BY <1>1, <1>2, <1>3, <1>4, <1>5, <1>6, <1>7, <1>8, <1>9, <1>10, <1>11, <1>12, <1>13, <1>14, <1>15, <1>16, <1>17, <1>18, <1>19, <1>20, <1>21, <1>22 DEF Next, ClientStep, ClientCall

\* Every state satisfies the type invariant and the ring's invariant.
THEOREM Inductive == Spec => []IInv
<1>1. Init => IInv
  <2>1. ASSUME Init PROVE TypeOK
    <3>1. Blank \in Word
      BY FenceModBig DEF Blank, Word
    <3>2. ring \in [Min..(Max - 1) -> Word]
      BY <2>1, <3>1 DEF Init
    <3>3. nextCmd \in Min..(Max - 1) /\ stop \in Min..(Max - 1)
      BY <2>1 DEF Init
    <3>4. fenceReg \in 0..(FenceMod - 1) /\ nextFence \in 0..(FenceMod - 1)
      BY <2>1, FenceModBig DEF Init
    <3>5. fence \in [Client -> 0..(FenceMod - 1)]
      BY <2>1, FenceModBig DEF Init
    <3>6. partial \in Seq(Word) /\ bounce \in Seq(Word)
      BY <2>1 DEF Init
    <3> QED BY <2>1, <3>2, <3>3, <3>4, <3>5, <3>6 DEF Init, TypeOK, Labels
  <2>2. Init => RingInv
    BY DEF Init, RingInv, LockExcludes, CommandInHand, RoomForCommand,
           ContentsInPlace
  <2> QED BY <2>1, <2>2 DEF IInv
<1>2. IInv /\ [Next]_vars => IInv'
  BY TypeStep, RingStep DEF IInv
<1> QED BY <1>1, <1>2, PTL DEF Spec

\* The registers and members keep their types: in particular NEXT_CMD never
\* leaves the ring, however commands wrap around its end.
THEOREM TypeCorrect == Spec => []TypeOK
<1>1. IInv => TypeOK
  BY DEF IInv
<1> QED BY <1>1, Inductive, PTL

\* A reservation granted by FIFOReserve stays good until FIFOCommit publishes
\* it: the lock excludes other threads and what the device reads only adds room.
THEOREM RingSafe == Spec => []RingInv
<1>1. IInv => RingInv
  BY DEF IInv
<1> QED BY <1>1, Inductive, PTL

-----------------------------------------------------------------------------
\* Sequences with the same dwords are equal.
LEMMA SameSeq ==
  ASSUME NEW s \in Seq(Word), NEW t \in Seq(Word), Len(s) = Len(t),
         \A i \in 1..Len(s) : s[i] = t[i]
  PROVE  s = t
OBVIOUS

\* A store that fits leaves what the device has not read alone.
LEMMA StoreKeeps ==
  ASSUME TypeOK, NEW s \in Seq(Word), Used + Len(s) < Size,
         NEW i \in 1..Used
  PROVE  Store(nextCmd, s)[Wrap(stop + (i - 1))] = ring[Wrap(stop + (i - 1))]
<1>1. /\ nextCmd \in Int /\ Min <= nextCmd /\ nextCmd <= Max - 1
      /\ stop \in Int /\ Min <= stop /\ stop <= Max - 1
      /\ Len(s) \in Nat
      /\ ring \in [Min..(Max - 1) -> Word]
  BY DEF TypeOK
<1>2. Wrap(stop + (i - 1)) \in Min..(Max - 1)
  BY <1>1, UsedNat DEF Wrap
<1>3. CASE nextCmd >= stop
  BY <1>1, <1>2, <1>3 DEF Used, Wrap, Store
<1>4. CASE stop > nextCmd
  BY <1>1, <1>2, <1>4 DEF Used, Wrap, Store
<1> QED BY <1>1, <1>3, <1>4

\* Moving NEXT_CMD over a command appends it to the stream.
LEMMA PendingPublished ==
  ASSUME TypeOK, TypeOK', NEW s \in Seq(Word), Used + Len(s) < Size,
         \A i \in 1..Len(s) : ring[Wrap(nextCmd + (i - 1))] = s[i],
         nextCmd' = Wrap(nextCmd + Len(s)), UNCHANGED << ring, stop >>
  PROVE  Pending' = Pending \o s
<1>1. /\ nextCmd \in Int /\ Min <= nextCmd /\ nextCmd <= Max - 1
      /\ stop \in Int /\ Min <= stop /\ stop <= Max - 1
      /\ Len(s) \in Nat
  BY DEF TypeOK
<1>u. Used \in Nat
  BY UsedNat
<1>2. Used' = Used + Len(s)
  BY <1>1, <1>u DEF Used, Wrap
<1>3. ASSUME NEW i \in 1..Len(s)
      PROVE  Wrap(stop + ((Used + i) - 1)) = Wrap(nextCmd + (i - 1))
  BY <1>1, <1>u DEF Used, Wrap
<1> DEFINE P == Pending
           Q == Pending'
<1>4. /\ P \in Seq(Word) /\ Len(P) = Used
      /\ \A i \in 1..Used : P[i] = ring[Wrap(stop + (i - 1))]
  BY PendingSeq
<1>5. /\ Q \in Seq(Word) /\ Len(Q) = Used + Len(s)
      /\ \A i \in 1..(Used + Len(s)) : Q[i] = ring[Wrap(stop + (i - 1))]
  <2>1. /\ ring \in [Min..(Max - 1) -> Word] /\ stop \in Min..(Max - 1)
    BY DEF TypeOK
  <2>2. Q = [i \in 1..(Used + Len(s)) |-> ring[Wrap(stop + (i - 1))]]
    BY <1>2 DEF Pending, Wrap
  <2> HIDE DEF Q
  <2>3. Used + Len(s) \in Nat /\ Used + Len(s) < Size
    BY <1>1, <1>u
  <2>4. Q \in [1..(Used + Len(s)) -> Word]
    BY <2>1, <2>2, <2>3, WindowIndex
  <2> QED BY <2>2, <2>3, <2>4, WordSeq
<1> HIDE DEF P, Q
<1>6. P \o s \in Seq(Word) /\ Len(P \o s) = Used + Len(s)
  BY <1>4, ConcatProperties
<1>7. ASSUME NEW i \in 1..(Used + Len(s)) PROVE Q[i] = (P \o s)[i]
  <2>1. CASE i <= Used
    <3>1. i \in 1..Used
      BY <1>1, <1>u, <2>1
    <3>2. (P \o s)[i] = P[i]
      BY <1>1, <1>u, <1>4, <3>1
    <3> QED BY <1>1, <1>u, <1>4, <1>5, <3>1, <3>2
  <2>2. CASE i > Used
    <3> DEFINE j == i - Used
    <3>1. j \in 1..Len(s) /\ i = Used + j
      BY <1>1, <1>u, <2>2
    <3>2. (P \o s)[i] = s[j]
      BY <1>1, <1>u, <1>4, <2>2, <3>1
    <3> HIDE DEF j
    <3>3. Q[i] = ring[Wrap(nextCmd + (j - 1))]
      BY <1>5, <1>3, <3>1
    <3> QED BY <3>1, <3>2, <3>3
  <2>3. i <= Used \/ i > Used
    BY <1>1, <1>u
  <2> QED BY <2>1, <2>2, <2>3
<1>8. Q = P \o s
  BY <1>5, <1>6, <1>7, SameSeq
<1> QED BY <1>8 DEF P, Q

\* Storing a command past NEXT_CMD does not change the stream.
LEMMA PendingStored ==
  ASSUME TypeOK, NEW s \in Seq(Word), Used + Len(s) < Size,
         ring' = Store(nextCmd, s), UNCHANGED << nextCmd, stop >>
  PROVE  Pending' = Pending
<1>1. Used' = Used
  BY DEF Used
<1>2. \A i \in 1..Used : ring'[Wrap(stop + (i - 1))] = ring[Wrap(stop + (i - 1))]
  BY StoreKeeps
<1> QED BY <1>1, <1>2 DEF Pending, Wrap

\* Moving STOP removes the first dword of the stream.
LEMMA PendingRead ==
  ASSUME TypeOK, stop # nextCmd, stop' = Wrap(stop + 1),
         UNCHANGED << ring, nextCmd >>
  PROVE  Pending # << >> /\ Pending' = Tail(Pending)
<1>1. /\ nextCmd \in Int /\ Min <= nextCmd /\ nextCmd <= Max - 1
      /\ stop \in Int /\ Min <= stop /\ stop <= Max - 1
      /\ ring \in [Min..(Max - 1) -> Word]
  BY DEF TypeOK
<1>2. Used \in Nat /\ Used > 0 /\ Used < Size /\ Used' = Used - 1
  BY <1>1 DEF Used, Wrap
<1>3. Pending \in Seq(Word) /\ Len(Pending) = Used
      /\ \A i \in 1..Used : Pending[i] = ring[Wrap(stop + (i - 1))]
  BY PendingSeq
<1>4. Pending # << >>
  BY <1>2, <1>3
<1>5. /\ Tail(Pending) \in Seq(Word) /\ Len(Tail(Pending)) = Used - 1
      /\ \A i \in 1..(Used - 1) : Tail(Pending)[i] = Pending[i + 1]
  BY <1>2, <1>3, <1>4, HeadTailProperties
<1>6. ASSUME NEW i \in 1..(Used - 1)
      PROVE  Wrap(Wrap(stop + 1) + (i - 1)) = Wrap(stop + ((i + 1) - 1))
  BY <1>1, <1>2 DEF Wrap
<1> DEFINE Q == Pending'
<1>7. Q = [i \in 1..(Used - 1) |-> ring[Wrap(Wrap(stop + 1) + (i - 1))]]
  BY <1>2 DEF Pending, Wrap
<1> HIDE DEF Q
<1>8. Q \in Seq(Word) /\ Len(Q) = Used - 1
  <2>1. Wrap(stop + 1) \in Min..(Max - 1) /\ Used - 1 \in Nat
    BY <1>1, <1>2 DEF Wrap
  <2>2. \A i \in 1..(Used - 1) :
          Wrap(Wrap(stop + 1) + (i - 1)) \in Min..(Max - 1)
    BY <1>1, <1>2 DEF Wrap
  <2>3. Q \in [1..(Used - 1) -> Word]
    BY <1>1, <1>7, <2>2
  <2> QED BY <2>1, <2>3, WordSeq
<1>9. ASSUME NEW i \in 1..(Used - 1) PROVE Q[i] = Tail(Pending)[i]
  <2>1. i + 1 \in 1..Used
    BY <1>2
  <2> QED BY <2>1, <1>3, <1>5, <1>6, <1>7
<1>10. Q = Tail(Pending)
  BY <1>5, <1>8, <1>9, SameSeq
<1> QED BY <1>4, <1>10 DEF Q

\* The steps of a thread other than the one that moves NEXT_CMD.
Quiet(c) ==
  \/ ReserveInPlace(c) \/ ReserveBounce(c) \/ FIFOFull(c) \/ FillCommand(c)
  \/ CommitBegin(c) \/ CommitCopy(c) \/ CommitEnd(c)
  \/ SyncToFenceDone(c) \/ SyncFIFODone(c) \/ SyncReturn(c)
  \/ RingDoorBellSync(c) \/ ClientCall(c)

\* They do not change the stream.
LEMMA PendingKept ==
  ASSUME IInv, \/ \E c \in Client : Quiet(c)
               \/ DeviceIdle \/ UNCHANGED vars
  PROVE  Pending' = Pending
<1> USE DEF IInv
<1>1. ASSUME NEW c \in Client, FillCommand(c) PROVE Pending' = Pending
  <2>1. cmd[c] \in Seq(Word) /\ Used + Len(cmd[c]) < Size
    BY <1>1 DEF FillCommand, RingInv, RoomForCommand, TypeOK
  <2>2. CASE usingBounce
    BY <1>1, <2>2 DEF FillCommand, Pending, Used
  <2>3. CASE ~usingBounce
    BY <1>1, <2>1, <2>3, PendingStored DEF FillCommand
  <2> QED BY <2>2, <2>3
<1>2. ASSUME NEW c \in Client, CommitCopy(c) PROVE Pending' = Pending
  <2>1. bounce \in Seq(Word) /\ Used + Len(bounce) < Size
    BY <1>2 DEF CommitCopy, RingInv, RoomForCommand, ContentsInPlace, TypeOK
  <2> QED BY <1>2, <2>1, PendingStored DEF CommitCopy
<1>3. ASSUME NEW c \in Client,
             \/ ReserveInPlace(c) \/ ReserveBounce(c) \/ FIFOFull(c)
             \/ CommitBegin(c) \/ CommitEnd(c)
             \/ SyncToFenceDone(c) \/ SyncFIFODone(c) \/ SyncReturn(c)
             \/ RingDoorBellSync(c) \/ ClientCall(c)
      PROVE  UNCHANGED << ring, nextCmd, stop >>
  BY <1>3 DEF ReserveInPlace, ReserveBounce, FIFOFull, CommitBegin, CommitEnd,
     SyncToFenceDone, SyncFIFODone, SyncReturn, RingDoorBellSync, ClientCall,
     LockDevice, UnlockDevice, BuildCommand, InsertFence, SyncToFence,
     SyncFIFO, RingDoorBell
<1>4. ASSUME DeviceIdle \/ UNCHANGED vars
      PROVE  UNCHANGED << ring, nextCmd, stop >>
  BY <1>4 DEF DeviceIdle, vars
<1>5. ASSUME UNCHANGED << ring, nextCmd, stop >> PROVE Pending' = Pending
  BY <1>5 DEF Pending, Used
<1> QED BY <1>1, <1>2, <1>3, <1>4, <1>5 DEF Quiet

\* The step that moves NEXT_CMD appends the command in hand.
LEMMA PendingGrows ==
  ASSUME IInv, IInv', NEW c \in Client, CommitPublish(c)
  PROVE  /\ cmd[c] \in Seq(Word) /\ cmd[c] \in Command /\ Used + Len(cmd[c]) < Size
         /\ Pending' = Pending \o cmd[c]
<1>1. cmd[c] \in Seq(Word) /\ cmd[c] \in Command /\ Used + Len(cmd[c]) < Size
  BY DEF IInv, CommitPublish, RingInv, RoomForCommand, CommandInHand, TypeOK
<1>2. \A i \in 1..Len(cmd[c]) : ring[Wrap(nextCmd + (i - 1))] = cmd[c][i]
  BY DEF IInv, CommitPublish, RingInv, ContentsInPlace
<1>3. Pending' = Pending \o cmd[c]
  BY <1>1, <1>2, PendingPublished DEF IInv, CommitPublish
<1> QED BY <1>1, <1>3

\* The FIFO implements the stream of whole commands: a step of the threads or
\* of the device appends one whole command, removes the first dword, or leaves
\* the stream as it is.
THEOREM Refinement == Spec => ImplementsStream
<1>1. Init => Stream!Init
  <2> SUFFICES ASSUME Init PROVE Pending = << >>
    BY DEF Stream!Init
  <2>1. Used = 0
    BY DEF Init, Used
  <2> QED BY <2>1 DEF Pending
<1>2. IInv /\ IInv' /\ [Next]_vars => [Stream!Next]_Pending
  <2> SUFFICES ASSUME IInv, IInv', [Next]_vars PROVE [Stream!Next]_Pending
    OBVIOUS
  <2>1. ASSUME NEW c \in Client, CommitPublish(c) PROVE Stream!Submit
    <3>1. /\ cmd[c] \in Command /\ Used + Len(cmd[c]) < Size
          /\ Pending' = Pending \o cmd[c] /\ cmd[c] \in Seq(Word)
      BY <2>1, PendingGrows
    <3>2. Len(Pending) + Len(cmd[c]) <= Size - 1
      BY <3>1, PendingSeq, UsedNat DEF IInv
    <3> QED BY <3>1, <3>2 DEF Stream!Submit
  <2>2. ASSUME DeviceRead PROVE Stream!Consume
    BY <2>2, PendingRead DEF IInv, DeviceRead, Stream!Consume
  <2>3. ASSUME \/ \E c \in Client : Quiet(c)
               \/ DeviceIdle \/ UNCHANGED vars
        PROVE  Pending' = Pending
    BY <2>3, PendingKept
  <2> QED BY <2>1, <2>2, <2>3 DEF Next, ClientStep, Quiet, Stream!Next
<1> QED BY <1>1, <1>2, Inductive, PTL DEF Spec, ImplementsStream, Stream!Spec

-----------------------------------------------------------------------------
(***************************************************************************)
(* What the device has not executed, the reservation register and fences.  *)
(***************************************************************************)
Building == {"reserve", "fill", "commit", "copy", "publish"}

\* Whole(s) is what DeviceSeesWholeCommands says of partial \o Pending.
Whole(s) ==
  s # << >> =>
    /\ First(s[1]) /\ Last(s[Len(s)])
    /\ \A i \in 1..(Len(s) - 1) :
         \/ Last(s[i]) /\ First(s[i + 1])
         \/ s[i + 1] = [s[i] EXCEPT ![3] = @ + 1]

\* A dword of a command: its position is one of the command's, and a fence has a
\* value that InsertFence gives out.
Dword(w) ==
  /\ w \in Word /\ 1 <= w[3] /\ w[3] <= w[2]
  /\ w[1] = SVGA_CMD_FENCE => w[4] # 0

\* Between STOP and NEXT_CMD there are commands, and the device keeps only what
\* it has read of the command it is reading.
StreamInv ==
  /\ Whole(partial \o Pending)
  /\ \A i \in 1..Len(partial \o Pending) : Dword((partial \o Pending)[i])
  /\ \A i \in 1..Len(partial) : ~Last(partial[i])

\* The register names the command's length while its dwords are past NEXT_CMD.
ReservedInv ==
  \A c \in Client :
    pc[c] \in {"copy", "publish"} \/ (pc[c] \in {"fill", "commit"} /\ ~usingBounce)
      => reservedReg = Len(cmd[c])

\* m_reserved_size is 0 outside FIFOReserve and FIFOCommit.
ClaimInv ==
  (\A c \in Client : pc[c] \notin {"reserve", "fill", "commit"}) => reservedSize = 0

\* The device reports that it is not busy only when it has drained the ring, and
\* nobody adds to it while a thread waits with the lock.
DrainInv ==
  \A c \in Client :
    (pc[c] \in {"drain", "fenceWait"} /\ ~busy) \/ pc[c] = "drained" => stop = nextCmd

\* The fence value that comes next, how far a value is ahead of another, not
\* counting 0, and where fences end in a sequence of dwords.
NextValue == IF nextFence = 0 THEN 1 ELSE nextFence

Succ(v) == IF v = FenceMod - 1 THEN 1 ELSE v + 1

Ahead(v, f) == IF v > f THEN v - f ELSE v - f + (FenceMod - 1)

Reached == IF fenceReg = 0 THEN FenceMod - 1 ELSE fenceReg

FencesIn(P) == {i \in 1..Len(P) : P[i][1] = SVGA_CMD_FENCE /\ Last(P[i])}

\* n fences are in P, those that follow f, in their order; each of them takes two
\* dwords.
Ordered(P, f, n) ==
  /\ n \in Nat
  /\ \A i \in FencesIn(P) : /\ Ahead(P[i][4], f) <= n
                            /\ 2 * (n - Ahead(P[i][4], f)) <= Len(P) - i
  /\ \A d \in 1..n : \E i \in FencesIn(P) : Ahead(P[i][4], f) = d
  /\ \A i, j \in FencesIn(P) : i < j => Ahead(P[i][4], f) < Ahead(P[j][4], f)

\* A thread has a fence in hand that is not published yet.
HoldsFence(c) == pc[c] \in Building /\ cmd[c][1][1] = SVGA_CMD_FENCE

\* The next fence to be published follows the n that are in the ring.
FollowedBy(n) ==
  /\ \A c \in Client : HoldsFence(c) =>
       /\ fenceCap /\ cmd[c] = FenceCommand(fence[c]) /\ fence[c] \in 1..(FenceMod - 1)
       /\ Ahead(fence[c], Reached) = n + 1 /\ NextValue = Succ(fence[c])
  /\ (\A c \in Client : ~HoldsFence(c)) => Ahead(NextValue, Reached) = n + 1

FenceInv == \E n \in Nat : Ordered(Pending, Reached, n) /\ FollowedBy(n)

\* No dword of c's commands is unread, or all of them come before c's fence.
NoneOf(c, s) == \A i \in 1..Len(s) : s[i][1] # c

BeforeFence(c, f, P) ==
  \E k \in FencesIn(P) : P[k][4] = f /\ \A i \in (k + 1)..Len(P) : P[i][1] # c

\* The fence that c keeps for its commands is there, or the commands are done.
Settled(c) ==
  \/ NoneOf(c, partial \o Pending)
  \/ fence[c] # 0 /\ BeforeFence(c, fence[c], Pending)

CoverInv ==
  \A c \in Client :
    /\ covered[c] /\ pc[c] \notin Building /\ (fenceCap \/ fence[c] = 0) => Settled(c)
    /\ pc[c] = "synced" /\ covered[c] => NoneOf(c, partial \o Pending)
    /\ pc[c] = "fenceWait" => fenceCap /\ fence[c] # 0

\* The command in hand is the thread's own one or a fence.
OwnCommand ==
  \A c \in Client :
    pc[c] \in Building => \A i \in 1..Len(cmd[c]) : cmd[c][i][1] \in {c, SVGA_CMD_FENCE}

SyncInv == /\ StreamInv /\ ReservedInv /\ ClaimInv /\ DrainInv
           /\ FenceInv /\ CoverInv /\ OwnCommand

\* The next dword of a command.
LEMMA NextDword ==
  ASSUME NEW o, NEW n \in Nat, NEW i \in Nat, NEW a
  PROVE  << o, n, i + 1, a >> = [<< o, n, i, a >> EXCEPT ![3] = @ + 1]
OBVIOUS

\* The next dword of a command has the same length and the next position.
LEMMA NextDwordParts ==
  ASSUME NEW w \in Word, NEW v, v = [w EXCEPT ![3] = @ + 1]
  PROVE  v[2] = w[2] /\ v[3] = w[3] + 1
BY DEF Word

\* A command is whole, and it is a thread's own one or a fence.
LEMMA CommandDwords ==
  ASSUME NEW s \in Command
  PROVE  /\ Whole(s) /\ \A i \in 1..Len(s) : Dword(s[i])
         /\ \/ \E c \in Client : \A i \in 1..Len(s) : s[i][1] = c
            \/ \E f \in 1..(FenceMod - 1) : s = FenceCommand(f)
<1>1. ASSUME NEW c \in Client, NEW n \in Lens, s = ClientCommand(c, n)
      PROVE  /\ Whole(s) /\ \A i \in 1..Len(s) : Dword(s[i])
             /\ \A i \in 1..Len(s) : s[i][1] = c
  <2>1. Len(s) = n /\ n \in Nat \ {0} /\ \A i \in 1..n : s[i] = << c, n, i, 0 >>
    BY <1>1, ClientCommandType DEF ClientCommand
  <2>2. s # << >>
    BY <2>1
  <2>3. First(s[1]) /\ Last(s[n])
    BY <2>1 DEF First, Last
  <2>4. ASSUME NEW i \in 1..(n - 1) PROVE s[i + 1] = [s[i] EXCEPT ![3] = @ + 1]
    <3>1. i \in 1..n /\ i + 1 \in 1..n /\ i \in Nat /\ n \in Nat
      BY <2>1
    <3>2. s[i] = << c, n, i, 0 >> /\ s[i + 1] = << c, n, i + 1, 0 >>
      BY <2>1, <3>1
    <3> QED  BY <3>1, <3>2, NextDword
  <2>5. Whole(s)
    BY <2>1, <2>3, <2>4 DEF Whole
  <2>6. ASSUME NEW i \in 1..n PROVE Dword(s[i])
    <3>1. c # SVGA_CMD_FENCE
      BY ClientAssumption, Zenon
    <3>2. << c, n, i, 0 >> \in Word
      BY <2>1, FenceModBig DEF Word
    <3>3. s[i] = << c, n, i, 0 >> /\ 1 <= i /\ i <= n
      BY <2>1
    <3> QED  BY <3>1, <3>2, <3>3 DEF Dword
  <2> QED  BY <2>1, <2>5, <2>6
<1>2. ASSUME NEW f \in 1..(FenceMod - 1), s = FenceCommand(f)
      PROVE  Whole(s) /\ \A i \in 1..Len(s) : Dword(s[i])
  <2>1. /\ Len(s) = 2 /\ s[1] = << SVGA_CMD_FENCE, 2, 1, f >>
        /\ s[2] = << SVGA_CMD_FENCE, 2, 2, f >>
    BY <1>2, FenceCommandType DEF FenceCommand
  <2>2. s[1 + 1] = [s[1] EXCEPT ![3] = @ + 1]
    BY <2>1, NextDword
  <2>3. First(s[1]) /\ Last(s[2])
    BY <2>1 DEF First, Last
  <2>4. \A i \in 1..(2 - 1) : i = 1
    OBVIOUS
  <2>5. Whole(s)
    BY <2>1, <2>2, <2>3, <2>4 DEF Whole
  <2>6. Dword(s[1]) /\ Dword(s[2])
    BY <2>1, FenceModBig DEF Dword, Word
  <2>7. \A i \in 1..2 : i = 1 \/ i = 2
    OBVIOUS
  <2> QED  BY <2>1, <2>5, <2>6, <2>7
<1>3. CASE s \in {ClientCommand(c, n) : c \in Client, n \in Lens}
  <2>1. PICK c \in Client, n \in Lens : s = ClientCommand(c, n)
    BY <1>3
  <2> QED  BY <1>1, <2>1
<1>4. CASE s \in {FenceCommand(f) : f \in 1..(FenceMod - 1)}
  <2>1. PICK f \in 1..(FenceMod - 1) : s = FenceCommand(f)
    BY <1>4
  <2> QED  BY <1>2, <2>1
<1> QED  BY <1>3, <1>4 DEF Command

\* Commands after commands are commands.
LEMMA WholeAppend ==
  ASSUME NEW s \in Seq(Word), NEW t \in Seq(Word), Whole(s), Whole(t), t # << >>
  PROVE  Whole(s \o t)
<1>1. Len(s) \in Nat /\ Len(t) \in Nat \ {0}
  OBVIOUS
<1> DEFINE u == s \o t
           m == Len(s)
           n == Len(t)
<1>2. /\ u \in Seq(Word) /\ Len(u) = m + n
      /\ \A i \in 1..m : u[i] = s[i]
      /\ \A i \in 1..n : u[m + i] = t[i]
  BY <1>1, ConcatProperties
<1>3. s # << >> <=> m # 0
  OBVIOUS
<1>4. /\ First(t[1]) /\ Last(t[n])
      /\ \A i \in 1..(n - 1) : \/ Last(t[i]) /\ First(t[i + 1])
                               \/ t[i + 1] = [t[i] EXCEPT ![3] = @ + 1]
  BY DEF Whole
<1>5. m # 0 => /\ First(s[1]) /\ Last(s[m])
               /\ \A i \in 1..(m - 1) : \/ Last(s[i]) /\ First(s[i + 1])
                                        \/ s[i + 1] = [s[i] EXCEPT ![3] = @ + 1]
  BY <1>3 DEF Whole
<1>6. m \in Nat /\ n \in Nat \ {0}
  BY <1>1
<1> HIDE DEF u, m, n
<1>7. First(u[1])
  <2>1. CASE m = 0
    BY <1>2, <1>4, <1>6, <2>1
  <2>2. CASE m # 0
    BY <1>2, <1>5, <1>6, <2>2
  <2> QED  BY <2>1, <2>2
<1>8. Last(u[m + n])
  BY <1>2, <1>4, <1>6
<1>9. ASSUME NEW i \in 1..((m + n) - 1)
      PROVE  \/ Last(u[i]) /\ First(u[i + 1])
             \/ u[i + 1] = [u[i] EXCEPT ![3] = @ + 1]
  <2>1. CASE i < m
    <3>1. i \in 1..m /\ i + 1 \in 1..m /\ i \in 1..(m - 1) /\ m # 0
      BY <1>6, <2>1
    <3>2. u[i] = s[i] /\ u[i + 1] = s[i + 1]
      BY <1>2, <3>1
    <3>3. \/ Last(s[i]) /\ First(s[i + 1])
          \/ s[i + 1] = [s[i] EXCEPT ![3] = @ + 1]
      BY <1>5, <3>1
    <3> QED  BY <3>2, <3>3
  <2>2. CASE i = m
    <3>1. m # 0 /\ m \in 1..m /\ 1 \in 1..n
      BY <1>6, <2>2
    <3>2. u[m] = s[m] /\ u[m + 1] = t[1]
      BY <1>2, <3>1
    <3> QED  BY <1>4, <1>5, <2>2, <3>1, <3>2
  <2>3. CASE i > m
    <3> DEFINE j == i - m
    <3>1. j \in 1..n /\ j + 1 \in 1..n /\ j \in 1..(n - 1) /\ i = m + j
          /\ i + 1 = m + (j + 1)
      BY <1>6, <2>3
    <3> HIDE DEF j
    <3>2. u[i] = t[j] /\ u[i + 1] = t[j + 1]
      BY <1>2, <3>1
    <3>3. \/ Last(t[j]) /\ First(t[j + 1])
          \/ t[j + 1] = [t[j] EXCEPT ![3] = @ + 1]
      BY <1>4, <3>1
    <3> QED  BY <3>2, <3>3
  <2> QED  BY <1>6, <2>1, <2>2, <2>3
<1>10. Whole(u)
  BY <1>2, <1>7, <1>8, <1>9 DEF Whole
<1> QED  BY <1>10 DEF u

\* After the last dword of a command the rest is commands again.
LEMMA WholeRest ==
  ASSUME NEW p \in Seq(Word), NEW q \in Seq(Word), q # << >>, Last(q[1]),
         Whole(p \o q), \A i \in 1..Len(p \o q) : Dword((p \o q)[i])
  PROVE  Whole(Tail(q)) /\ \A i \in 1..Len(Tail(q)) : Dword(Tail(q)[i])
<1> DEFINE u == p \o q
           m == Len(p)
           n == Len(q)
           r == Tail(q)
<1>1. m \in Nat /\ n \in Nat \ {0}
  OBVIOUS
<1>2. u \in Seq(Word) /\ Len(u) = m + n /\ \A i \in 1..n : u[m + i] = q[i]
  BY <1>1, ConcatProperties
<1>3. r \in Seq(Word) /\ Len(r) = n - 1 /\ \A i \in 1..(n - 1) : r[i] = q[i + 1]
  BY <1>1, HeadTailProperties
<1>4. \A i \in 1..Len(u) : Dword(u[i])
  OBVIOUS
<1>5. u # << >>
  BY <1>1, <1>2
<1>6. /\ Last(u[Len(u)])
      /\ \A i \in 1..(Len(u) - 1) : \/ Last(u[i]) /\ First(u[i + 1])
                                    \/ u[i + 1] = [u[i] EXCEPT ![3] = @ + 1]
  BY <1>5 DEF Whole
<1>7. r # << >> <=> n # 1
  BY <1>1, <1>3
<1> HIDE DEF u, m, n, r
<1>8. ASSUME NEW i \in 1..(n - 1)
      PROVE  r[i] = u[m + i + 1] /\ m + i + 1 \in 1..Len(u)
  <2>1. i + 1 \in 1..n /\ m + (i + 1) = m + i + 1
    BY <1>1
  <2> QED  BY <1>1, <1>2, <1>3, <2>1
<1>9. \A i \in 1..(n - 1) : Dword(r[i])
  BY <1>4, <1>8
<1>10. ASSUME n # 1 PROVE First(r[1])
  <2>1. 1 \in 1..(n - 1) /\ 1 \in 1..n /\ m + 1 + 1 = (m + 1) + 1
        /\ m + 1 \in 1..(Len(u) - 1) /\ m + 1 \in 1..Len(u)
    BY <1>1, <1>2, <1>10
  <2>2. Last(u[m + 1])
    BY <1>2, <2>1
  <2>3. r[1] = u[(m + 1) + 1] /\ (m + 1) + 1 \in 1..Len(u)
    BY <1>8, <2>1
  <2>4. ASSUME u[(m + 1) + 1] = [u[m + 1] EXCEPT ![3] = @ + 1] PROVE FALSE
    <3> DEFINE w == u[m + 1]
               v == u[(m + 1) + 1]
    <3>1. Dword(w) /\ Dword(v) /\ w[3] = w[2] /\ v = [w EXCEPT ![3] = @ + 1]
      BY <1>4, <2>1, <2>2, <2>3, <2>4 DEF Last
    <3> HIDE DEF w, v
    <3>2. w \in Word /\ v[3] <= v[2]
      BY <3>1 DEF Dword
    <3>3. v[2] = w[2] /\ v[3] = w[3] + 1 /\ w[2] \in Nat
      BY <3>1, <3>2, NextDwordParts DEF Word
    <3> QED  BY <3>1, <3>2, <3>3
  <2> QED  BY <1>6, <2>1, <2>3, <2>4
<1>11. ASSUME n # 1 PROVE Last(r[n - 1])
  <2>1. n - 1 \in 1..(n - 1) /\ m + (n - 1) + 1 = Len(u)
    BY <1>1, <1>2, <1>11
  <2> QED  BY <1>6, <1>8, <2>1
<1>12. ASSUME NEW i \in 1..((n - 1) - 1)
       PROVE  \/ Last(r[i]) /\ First(r[i + 1])
              \/ r[i + 1] = [r[i] EXCEPT ![3] = @ + 1]
  <2> DEFINE k == m + i + 1
  <2>1. i \in 1..(n - 1) /\ i + 1 \in 1..(n - 1) /\ k \in 1..(Len(u) - 1)
        /\ m + (i + 1) + 1 = k + 1
    BY <1>1, <1>2
  <2>2. r[i] = u[k] /\ r[i + 1] = u[k + 1]
    BY <1>8, <2>1
  <2> HIDE DEF k
  <2> QED  BY <1>6, <2>1, <2>2
<1>13. Whole(r)
  BY <1>3, <1>7, <1>10, <1>11, <1>12 DEF Whole
<1> QED  BY <1>3, <1>9, <1>13 DEF r

-----------------------------------------------------------------------------
\* Fence values between the two ends of their range.
Values == 1..(FenceMod - 1)

LEMMA AheadType ==
  ASSUME NEW v \in Values, NEW f \in Values
  PROVE  Ahead(v, f) \in 1..(FenceMod - 1)
BY FenceModBig DEF Ahead, Values

\* The value after one that is not the farthest is one farther.
LEMMA AheadSucc ==
  ASSUME NEW v \in Values, NEW f \in Values, Ahead(v, f) < FenceMod - 1
  PROVE  Succ(v) \in Values /\ Ahead(Succ(v), f) = Ahead(v, f) + 1
BY FenceModBig DEF Ahead, Succ, Values

\* When the device has reached the next value, all others are one nearer.
LEMMA AheadReached ==
  ASSUME NEW v \in Values, NEW f \in Values, NEW g \in Values,
         Ahead(g, f) = 1, Ahead(v, f) >= 2
  PROVE  Ahead(v, g) = Ahead(v, f) - 1
BY FenceModBig DEF Ahead, Values

\* The dwords of P that end a fence have a value.
Valued(P) == \A i \in FencesIn(P) : P[i][4] \in Values

\* As many fences as Ordered counts fit in half a ring, fewer than half the values.
LEMMA OrderedBound ==
  ASSUME NEW P \in Seq(Word), Len(P) < Size, NEW f \in Values, NEW n \in Nat,
         Ordered(P, f, n), Valued(P)
  PROVE  n <= Size \div 2 /\ n + 1 <= FenceMod \div 2 /\ n + 1 < FenceMod - 1
<1>1. /\ FenceMod \in Nat /\ FenceMod \div 2 > Size \div 2 /\ Size \in Nat /\ Size > 2
  BY FenceAssumption
<1>2. n <= Size \div 2
  <2>1. CASE n = 0
    BY <1>1, <2>1
  <2>2. CASE n # 0
    <3>1. 1 \in 1..n
      BY <2>2
    <3>2. PICK i \in FencesIn(P) : Ahead(P[i][4], f) = 1
      BY <3>1 DEF Ordered
    <3>3. 2 * (n - 1) <= Len(P) - i
      BY <3>2 DEF Ordered
    <3>4. i \in 1..Len(P) /\ Len(P) \in Nat
      BY <3>2 DEF FencesIn
    <3>5. 2 * n <= Size
      BY <1>1, <3>3, <3>4
    <3> QED  BY <1>1, <3>5
  <2> QED  BY <2>1, <2>2
<1>3. Size \div 2 >= 1
  BY <1>1
<1> QED  BY <1>1, <1>2, <1>3

\* A command of a thread after P adds no fence.
LEMMA OrderedOther ==
  ASSUME NEW P \in Seq(Word), NEW t \in Seq(Word), NEW f \in Values, NEW n \in Nat,
         \A i \in 1..Len(t) : t[i][1] # SVGA_CMD_FENCE, Ordered(P, f, n), Valued(P)
  PROVE  /\ Ordered(P \o t, f, n) /\ FencesIn(P \o t) = FencesIn(P)
         /\ \A i \in FencesIn(P) : (P \o t)[i] = P[i]
<1> DEFINE u == P \o t
           m == Len(P)
           k == Len(t)
<1>1. m \in Nat /\ k \in Nat
  OBVIOUS
<1>2. /\ Len(u) = m + k /\ \A i \in 1..m : u[i] = P[i]
      /\ \A i \in 1..k : u[m + i] = t[i]
  BY <1>1, ConcatProperties
<1> HIDE DEF u, m, k
<1>3. FencesIn(u) \subseteq 1..m
  <2> SUFFICES ASSUME NEW i \in FencesIn(u), i > m PROVE FALSE
    BY <1>1, <1>2 DEF FencesIn
  <2> DEFINE j == i - m
  <2>1. j \in 1..k /\ i = m + j
    BY <1>1, <1>2 DEF FencesIn
  <2> HIDE DEF j
  <2>2. u[i] = t[j]
    BY <1>2, <2>1
  <2> QED  BY <2>1, <2>2 DEF FencesIn, k
<1>4. FencesIn(u) = FencesIn(P)
  BY <1>1, <1>2, <1>3 DEF FencesIn, m
<1>5. \A i \in FencesIn(P) : u[i] = P[i] /\ i \in 1..m
  BY <1>2 DEF FencesIn, m
<1> DEFINE A(i) == Ahead(u[i][4], f)
<1>6. \A i \in FencesIn(P) : A(i) = Ahead(P[i][4], f) /\ A(i) \in Int
  BY <1>5, AheadType DEF Valued
<1>7. (\A i \in FencesIn(P) : A(i) <= n /\ 2 * (n - A(i)) <= m - i)
      /\ (\A d \in 1..n : \E i \in FencesIn(P) : A(i) = d)
      /\ \A i, j \in FencesIn(P) : i < j => A(i) < A(j)
  BY <1>6 DEF Ordered, m
<1> HIDE DEF A
<1>8. ASSUME NEW i \in FencesIn(P) PROVE A(i) <= n /\ 2 * (n - A(i)) <= Len(u) - i
  <2>1. A(i) \in Int /\ A(i) <= n /\ 2 * (n - A(i)) <= m - i /\ i \in 1..m
    BY <1>5, <1>6, <1>7
  <2> QED  BY <1>1, <1>2, <2>1
<1>9. Ordered(u, f, n)
  BY <1>4, <1>7, <1>8 DEF Ordered, A
<1> QED  BY <1>4, <1>5, <1>9 DEF u

\* What a sequence after another one holds.
LEMMA Joined ==
  ASSUME NEW P \in Seq(Word), NEW t \in Seq(Word)
  PROVE  /\ P \o t \in Seq(Word) /\ Len(P \o t) = Len(P) + Len(t)
         /\ \A i \in 1..Len(P) : (P \o t)[i] = P[i]
         /\ \A i \in 1..Len(t) : (P \o t)[Len(P) + i] = t[i]
<1> DEFINE m == Len(P)
           k == Len(t)
<1>1. m \in Nat /\ k \in Nat
  OBVIOUS
<1>2. /\ P \o t \in Seq(Word) /\ Len(P \o t) = m + k
      /\ \A i \in 1..m : (P \o t)[i] = P[i]
      /\ \A i \in 1..k : (P \o t)[m + i] = t[i]
  BY <1>1, ConcatProperties
<1> QED  BY <1>2

\* A fence after P that follows those in P.
LEMMA OrderedFence ==
  ASSUME NEW P \in Seq(Word), NEW f \in Values, NEW g \in Values, NEW n \in Nat,
         Valued(P), Ordered(P, f, n), Ahead(g, f) = n + 1
  PROVE  /\ Ordered(P \o FenceCommand(g), f, n + 1)
         /\ FencesIn(P \o FenceCommand(g)) = FencesIn(P) \cup {Len(P) + 2}
         /\ (P \o FenceCommand(g))[Len(P) + 2][4] = g
         /\ \A i \in FencesIn(P) : (P \o FenceCommand(g))[i] = P[i]
<1> DEFINE t == FenceCommand(g)
           u == P \o t
           m == Len(P)
<1>1. m \in Nat /\ t \in Seq(Word) /\ Len(t) = 2
  BY FenceCommandType DEF Values
<1>2. t[1] = << SVGA_CMD_FENCE, 2, 1, g >> /\ t[2] = << SVGA_CMD_FENCE, 2, 2, g >>
  BY DEF FenceCommand
<1> HIDE DEF t
<1>3. /\ u \in Seq(Word) /\ Len(u) = m + 2 /\ \A i \in 1..m : u[i] = P[i]
      /\ \A i \in 1..Len(t) : u[m + i] = t[i]
  <2>1. /\ P \o t \in Seq(Word) /\ Len(P \o t) = Len(P) + Len(t)
        /\ \A i \in 1..Len(P) : (P \o t)[i] = P[i]
        /\ \A i \in 1..Len(t) : (P \o t)[Len(P) + i] = t[i]
    BY <1>1, Joined
  <2> QED  BY <1>1, <2>1
<1> HIDE DEF u, m
<1>4. ~Last(t[1]) /\ Last(t[2])
  BY <1>2 DEF Last
<1>5. u[m + 1] = t[1] /\ u[m + 2] = t[2]
  BY <1>1, <1>3
<1>6. FencesIn(u) = FencesIn(P) \cup {m + 2}
  <2>1. \A i \in 1..(m + 2) : i \in 1..m \/ i = m + 1 \/ i = m + 2
    BY <1>1
  <2>2. m + 1 \notin FencesIn(u)
    <3>1. ~Last(u[m + 1])
      BY <1>4, <1>5
    <3> QED  BY <1>1, <1>3, <3>1 DEF FencesIn
  <2>3. m + 2 \in FencesIn(u)
    <3>1. u[m + 2][1] = SVGA_CMD_FENCE /\ Last(u[m + 2])
      BY <1>2, <1>4, <1>5
    <3>2. m + 2 \in 1..Len(u)
      BY <1>1, <1>3
    <3> QED  BY <3>1, <3>2 DEF FencesIn
  <2>4. \A i \in 1..m : i \in FencesIn(u) <=> i \in FencesIn(P)
    BY <1>1, <1>3 DEF FencesIn, m
  <2>5. FencesIn(u) \subseteq 1..(m + 2) /\ FencesIn(P) \subseteq 1..m
    BY <1>3 DEF FencesIn, m
  <2> QED  BY <2>1, <2>2, <2>3, <2>4, <2>5
<1>7. \A i \in FencesIn(P) : u[i] = P[i] /\ i \in 1..m
  BY <1>3 DEF FencesIn, m
<1>8. u[m + 2][4] = g
  BY <1>2, <1>5
<1> DEFINE A(i) == Ahead(u[i][4], f)
<1>9. A(m + 2) = n + 1
  BY <1>8
<1>10. \A i \in FencesIn(P) : A(i) = Ahead(P[i][4], f) /\ A(i) \in Int
  BY <1>7, AheadType DEF Valued
<1>11. \A i \in FencesIn(P) : A(i) <= n /\ 2 * (n - A(i)) <= m - i
  BY <1>10 DEF Ordered, m
<1>12. (\A d \in 1..n : \E i \in FencesIn(P) : A(i) = d)
       /\ \A i, j \in FencesIn(P) : i < j => A(i) < A(j)
  BY <1>10 DEF Ordered
<1> HIDE DEF A
<1>13. \A i \in FencesIn(u) : A(i) <= n + 1 /\ 2 * ((n + 1) - A(i)) <= (m + 2) - i
  <2>1. ASSUME NEW i \in FencesIn(P)
        PROVE  A(i) <= n + 1 /\ 2 * ((n + 1) - A(i)) <= (m + 2) - i
    <3>1. A(i) \in Int /\ A(i) <= n /\ 2 * (n - A(i)) <= m - i /\ i \in 1..m
      BY <1>7, <1>10, <1>11
    <3> QED  BY <1>1, <3>1
  <2>2. A(m + 2) <= n + 1 /\ 2 * ((n + 1) - A(m + 2)) <= (m + 2) - (m + 2)
    BY <1>1, <1>9
  <2> QED  BY <1>6, <2>1, <2>2
<1>14. \A d \in 1..(n + 1) : \E i \in FencesIn(u) : A(i) = d
  <2>1. \A d \in 1..(n + 1) : d \in 1..n \/ d = n + 1
    OBVIOUS
  <2> QED  BY <1>6, <1>9, <1>12, <2>1
<1>15. ASSUME NEW i \in FencesIn(u), NEW j \in FencesIn(u), i < j
       PROVE  A(i) < A(j)
  <2>1. CASE j = m + 2
    <3>1. i \in FencesIn(P)
      BY <1>1, <1>6, <1>15, <2>1
    <3>2. A(i) \in Int /\ A(i) <= n
      BY <1>10, <1>11, <3>1
    <3> QED  BY <1>9, <2>1, <3>2
  <2>2. CASE j \in FencesIn(P)
    <3>1. i \in FencesIn(P)
      <4>1. j \in 1..m
        BY <1>7, <2>2
      <4>2. i # m + 2
        BY <1>1, <1>15, <4>1
      <4> QED  BY <1>6, <4>2
    <3> QED  BY <1>12, <1>15, <2>2, <3>1
  <2> QED  BY <1>6, <2>1, <2>2
<1>16. Ordered(u, f, n + 1)
  BY <1>3, <1>13, <1>14, <1>15 DEF Ordered, A
<1> QED  BY <1>6, <1>7, <1>8, <1>16 DEF u, t, m

\* Reading a dword of P: when it ends a fence, the device has reached the first of
\* those in P.
LEMMA OrderedRead ==
  ASSUME NEW P \in Seq(Word), P # << >>, NEW f \in Values, NEW n \in Nat,
         Valued(P), Ordered(P, f, n)
  PROVE  /\ \A i \in 1..Len(Tail(P)) : i \in FencesIn(Tail(P)) <=> i + 1 \in FencesIn(P)
         /\ Valued(Tail(P))
         /\ 1 \in FencesIn(P) => /\ n >= 1 /\ Ahead(P[1][4], f) = 1
                                 /\ Ordered(Tail(P), P[1][4], n - 1)
         /\ 1 \notin FencesIn(P) => Ordered(Tail(P), f, n)
<1> DEFINE r == Tail(P)
           m == Len(P)
<1>1. m \in Nat \ {0} /\ r \in Seq(Word) /\ Len(r) = m - 1
      /\ \A i \in 1..(m - 1) : r[i] = P[i + 1]
  BY HeadTailProperties
<1>2. FencesIn(P) \subseteq 1..m
  BY DEF FencesIn
<1> HIDE DEF r, m
<1>3. ASSUME NEW i \in 1..(m - 1) PROVE i \in FencesIn(r) <=> i + 1 \in FencesIn(P)
  <2>1. i + 1 \in 1..m /\ r[i] = P[i + 1]
    BY <1>1
  <2> QED  BY <1>1, <2>1 DEF FencesIn, m
<1>4. ASSUME NEW i \in FencesIn(r)
      PROVE  i \in 1..(m - 1) /\ i + 1 \in FencesIn(P) /\ r[i] = P[i + 1]
  <2>1. i \in 1..(m - 1)
    BY <1>1, <1>4 DEF FencesIn
  <2> QED  BY <1>1, <1>3, <1>4, <2>1
<1>5. Valued(r)
  BY <1>4 DEF Valued
<1> DEFINE A(i) == Ahead(P[i][4], f)
<1>6. \A i \in FencesIn(P) : A(i) \in 1..(FenceMod - 1) /\ P[i][4] \in Values
  BY AheadType DEF Valued
<1>7. (\A i \in FencesIn(P) : A(i) <= n /\ 2 * (n - A(i)) <= m - i)
      /\ (\A d \in 1..n : \E i \in FencesIn(P) : A(i) = d)
      /\ \A i, j \in FencesIn(P) : i < j => A(i) < A(j)
  BY DEF Ordered, m
<1>8. \A i \in FencesIn(P) : i \in 1..m /\ (i # 1 => i - 1 \in FencesIn(r)
                                                    /\ r[i - 1] = P[i])
  <2> SUFFICES ASSUME NEW i \in FencesIn(P)
               PROVE  i \in 1..m /\ (i # 1 => i - 1 \in FencesIn(r) /\ r[i - 1] = P[i])
    OBVIOUS
  <2>1. i \in 1..m
    BY <1>2
  <2>2. i # 1 => i - 1 \in 1..(m - 1) /\ (i - 1) + 1 = i
    BY <1>1, <2>1
  <2> QED  BY <1>1, <1>3, <2>1, <2>2
<1>9. ASSUME 1 \in FencesIn(P)
      PROVE  n >= 1 /\ A(1) = 1 /\ Ordered(r, P[1][4], n - 1)
  <2> HIDE DEF A
  <2>1. n >= 1
    BY <1>6, <1>7, <1>9
  <2>2. A(1) = 1
    <3>1. PICK i \in FencesIn(P) : A(i) = 1
      BY <1>7, <2>1
    <3>2. i = 1 \/ 1 < i
      BY <1>1, <1>2, <3>1
    <3>3. 1 < i => A(1) < 1
      BY <1>7, <1>9, <3>1
    <3> QED  BY <1>6, <1>9, <3>1, <3>2, <3>3
  <2> DEFINE g == P[1][4]
             B(i) == Ahead(r[i][4], g)
  <2>3. ASSUME NEW i \in FencesIn(r) PROVE B(i) = A(i + 1) - 1 /\ A(i + 1) >= 2
    <3>1. i + 1 \in FencesIn(P) /\ r[i] = P[i + 1] /\ 1 < i + 1 /\ i \in 1..(m - 1)
      BY <1>1, <1>4
    <3>2. A(1) < A(i + 1)
      BY <1>7, <1>9, <3>1
    <3>3. A(i + 1) >= 2
      BY <1>6, <2>2, <3>1, <3>2
    <3>4. P[i + 1][4] \in Values /\ g \in Values
      BY <1>6, <1>9, <3>1
    <3>5. Ahead(g, f) = 1 /\ Ahead(P[i + 1][4], f) >= 2
      BY <2>2, <3>3 DEF A
    <3>6. Ahead(P[i + 1][4], g) = Ahead(P[i + 1][4], f) - 1
      BY <3>4, <3>5, AheadReached
    <3> QED  BY <3>1, <3>3, <3>6 DEF A
  <2> HIDE DEF B, g
  <2>4. ASSUME NEW i \in FencesIn(r)
        PROVE  B(i) <= n - 1 /\ 2 * ((n - 1) - B(i)) <= Len(r) - i
    <3>1. /\ i + 1 \in FencesIn(P) /\ i \in 1..(m - 1) /\ B(i) = A(i + 1) - 1
      BY <1>4, <2>3
    <3>2. A(i + 1) \in Int /\ A(i + 1) <= n /\ 2 * (n - A(i + 1)) <= m - (i + 1)
      BY <1>6, <1>7, <3>1
    <3> QED  BY <1>1, <3>1, <3>2
  <2>5. ASSUME NEW d \in 1..(n - 1) PROVE \E i \in FencesIn(r) : B(i) = d
    <3>1. d + 1 \in 1..n
      BY <2>1
    <3>2. PICK j \in FencesIn(P) : A(j) = d + 1
      BY <1>7, <3>1
    <3>3. j # 1
      BY <2>2, <3>1, <3>2
    <3>4. j - 1 \in FencesIn(r) /\ j \in 1..m
      BY <1>8, <3>3
    <3>5. (j - 1) + 1 = j
      BY <1>1, <3>4
    <3>6. B(j - 1) = A(j) - 1
      BY <2>3, <3>4, <3>5
    <3> QED  BY <3>2, <3>4, <3>6
  <2>6. ASSUME NEW i \in FencesIn(r), NEW j \in FencesIn(r), i < j PROVE B(i) < B(j)
    <3>1. /\ i + 1 \in FencesIn(P) /\ j + 1 \in FencesIn(P) /\ i + 1 < j + 1
          /\ B(i) = A(i + 1) - 1 /\ B(j) = A(j + 1) - 1
      BY <1>1, <1>4, <2>3, <2>6
    <3>2. A(i + 1) \in Int /\ A(j + 1) \in Int /\ A(i + 1) < A(j + 1)
      BY <1>6, <1>7, <3>1
    <3> QED  BY <3>1, <3>2
  <2>7. n - 1 \in Nat
    BY <2>1
  <2> QED  BY <2>1, <2>2, <2>4, <2>5, <2>6, <2>7 DEF Ordered, B, g
<1>10. ASSUME 1 \notin FencesIn(P) PROVE Ordered(r, f, n)
  <2> DEFINE B(i) == Ahead(r[i][4], f)
  <2>1. ASSUME NEW i \in FencesIn(r) PROVE B(i) = A(i + 1)
    BY <1>4
  <2> HIDE DEF A, B
  <2>2. ASSUME NEW i \in FencesIn(r)
        PROVE  B(i) <= n /\ 2 * (n - B(i)) <= Len(r) - i
    <3>1. /\ i + 1 \in FencesIn(P) /\ i \in 1..(m - 1) /\ B(i) = A(i + 1)
      BY <1>4, <2>1
    <3>2. A(i + 1) \in Int /\ A(i + 1) <= n /\ 2 * (n - A(i + 1)) <= m - (i + 1)
      BY <1>6, <1>7, <3>1
    <3> QED  BY <1>1, <3>1, <3>2
  <2>3. ASSUME NEW d \in 1..n PROVE \E i \in FencesIn(r) : B(i) = d
    <3>1. PICK j \in FencesIn(P) : A(j) = d
      BY <1>7
    <3>2. j - 1 \in FencesIn(r) /\ j \in 1..m
      BY <1>8, <1>10
    <3>3. (j - 1) + 1 = j
      BY <1>1, <3>2
    <3>4. B(j - 1) = A(j)
      BY <2>1, <3>2, <3>3
    <3> QED  BY <3>1, <3>2, <3>4
  <2>4. ASSUME NEW i \in FencesIn(r), NEW j \in FencesIn(r), i < j PROVE B(i) < B(j)
    <3>1. /\ i + 1 \in FencesIn(P) /\ j + 1 \in FencesIn(P) /\ i + 1 < j + 1
          /\ B(i) = A(i + 1) /\ B(j) = A(j + 1)
      BY <1>1, <1>4, <2>1, <2>4
    <3> QED  BY <1>7, <3>1
  <2> QED  BY <2>2, <2>3, <2>4 DEF Ordered, B
<1>11. \A i \in 1..Len(r) : i \in FencesIn(r) <=> i + 1 \in FencesIn(P)
  BY <1>1, <1>3
<1>12. 1 \in FencesIn(P) => /\ n >= 1 /\ Ahead(P[1][4], f) = 1
                            /\ Ordered(r, P[1][4], n - 1)
  BY <1>9
<1> QED  BY <1>5, <1>10, <1>11, <1>12 DEF r

\* Numbers modulo the number of fence values.
LEMMA ModFacts ==
  ASSUME NEW m \in Nat \ {0}, NEW x \in Int
  PROVE  /\ x \in 0..(m - 1) => x % m = x
         /\ x \in (-m)..(-1) => x % m = x + m
OBVIOUS

\* HasFencePassedUnguarded does not take a fence that lies less than half the values
\* ahead for one that has passed, wherever the values wrap.
LEMMA NotPassed ==
  ASSUME fenceReg \in 0..(FenceMod - 1), NEW f \in Values,
         Ahead(f, Reached) + 1 <= FenceMod \div 2
  PROVE  ~HasFencePassedUnguarded(f)
<1> DEFINE h == FenceMod \div 2
           x == fenceReg - f
<1>1. FenceMod \in Nat \ {0} /\ h \in Nat /\ 2 * h <= FenceMod
  BY FenceModBig
<1>2. f \in Nat /\ 1 <= f /\ f <= FenceMod - 1
  BY <1>1 DEF Values
<1>3. Ahead(f, Reached) + 1 <= h
  OBVIOUS
<1>4. x \in 0..(FenceMod - 1) => x % FenceMod = x
  BY <1>1, <1>2, ModFacts
<1>5. x \in (-FenceMod)..(-1) => x % FenceMod = x + FenceMod
  BY <1>1, <1>2, ModFacts
<1> HIDE DEF h
<1>6. \/ x \in (-FenceMod)..(-1) /\ x + FenceMod >= h
      \/ x \in 0..(FenceMod - 1) /\ x >= h
  <2>1. CASE fenceReg = 0
    BY <1>1, <1>2, <1>3, <2>1 DEF Ahead, Reached
  <2>2. CASE fenceReg # 0
    BY <1>1, <1>2, <1>3, <2>2 DEF Ahead, Reached
  <2> QED  BY <2>1, <2>2
<1>7. x % FenceMod >= h /\ x % FenceMod \in Int
  BY <1>1, <1>2, <1>4, <1>5, <1>6
<1> QED  BY <1>1, <1>7 DEF HasFencePassedUnguarded, h

-----------------------------------------------------------------------------
\* What the device has read and what is in the ring stays a sequence of commands.
LEMMA StreamStep ==
  ASSUME IInv, IInv', StreamInv, [Next]_vars
  PROVE  StreamInv'
<1>1. /\ partial \in Seq(Word) /\ Pending \in Seq(Word)
      /\ partial \o Pending \in Seq(Word)
  BY PendingSeq, Joined DEF IInv, TypeOK
<1>2. ASSUME UNCHANGED << partial, Pending >> PROVE StreamInv'
  BY <1>2 DEF StreamInv
<1>3. ASSUME NEW c \in Client, CommitPublish(c) PROVE StreamInv'
  <2>1. /\ cmd[c] \in Seq(Word) /\ cmd[c] \in Command
        /\ Pending' = Pending \o cmd[c] /\ partial' = partial
    BY <1>3, PendingGrows DEF CommitPublish, device
  <2> DEFINE t == cmd[c]
             s == partial \o Pending
             u == s \o t
  <2>2. t \in Seq(Word) /\ Whole(t) /\ (\A i \in 1..Len(t) : Dword(t[i])) /\ t # << >>
    <3>1. t \in Command
      BY <2>1
    <3> HIDE DEF t
    <3> QED  BY <3>1, CommandDwords, CommandType
  <2>3. (partial \o Pending)' = u
    <3>1. partial \o (Pending \o t) = (partial \o Pending) \o t
      <4> HIDE DEF t
      <4> QED  BY <1>1, <2>2, ConcatAssociative
    <3> QED  BY <2>1, <3>1
  <2> HIDE DEF t
  <2>4. s \in Seq(Word) /\ Whole(s) /\ (\A i \in 1..Len(s) : Dword(s[i]))
    BY <1>1 DEF StreamInv
  <2> HIDE DEF s
  <2>5. Whole(u)
    BY <2>2, <2>4, WholeAppend
  <2>6. /\ Len(u) = Len(s) + Len(t) /\ \A i \in 1..Len(s) : u[i] = s[i]
        /\ \A i \in 1..Len(t) : u[Len(s) + i] = t[i]
    BY <2>2, <2>4, Joined
  <2> HIDE DEF u
  <2>7. ASSUME NEW i \in 1..Len(u) PROVE Dword(u[i])
    <3> DEFINE m == Len(s)
    <3>0. m \in Nat /\ Len(t) \in Nat
      BY <2>2, <2>4
    <3>1. CASE i <= m
      BY <2>4, <2>6, <3>0, <3>1
    <3>2. CASE i > m
      <4> DEFINE j == i - m
      <4>1. j \in 1..Len(t) /\ i = m + j
        BY <2>6, <3>0, <3>2
      <4> HIDE DEF j
      <4> QED  BY <2>2, <2>6, <4>1
    <3> QED  BY <3>0, <3>1, <3>2
  <2>8. \A i \in 1..Len(partial') : ~Last(partial'[i])
    BY <2>1 DEF StreamInv
  <2> QED  BY <2>3, <2>5, <2>7, <2>8 DEF StreamInv
<1>4. ASSUME DeviceRead PROVE StreamInv'
  <2> DEFINE w == ring[stop]
             p == partial
             q == Pending
  <2>1. /\ q # << >> /\ Pending' = Tail(q)
        /\ partial' = IF Last(w) THEN << >> ELSE Append(partial, w)
    BY <1>4, PendingRead DEF DeviceRead, IInv
  <2>2. q[1] = w /\ q \in Seq(Word) /\ p \in Seq(Word)
    <3>1. stop \in Min..(Max - 1) /\ Used \in Nat /\ Len(q) = Used
          /\ \A i \in 1..Used : q[i] = ring[Wrap(stop + (i - 1))]
      <4>1. TypeOK /\ stop \in Min..(Max - 1)
        BY DEF IInv, TypeOK
      <4>2. Used \in 0..(Size - 1)
        BY <4>1, UsedNat
      <4> QED  BY <4>1, <4>2, PendingSeq
    <3>2. 1 \in 1..Used /\ Wrap(stop + (1 - 1)) = stop
      <4>1. Used # 0
        BY <1>1, <2>1, <3>1
      <4> QED  BY <3>1, <4>1 DEF Wrap
    <3> QED  BY <1>1, <3>1, <3>2
  <2>3. /\ Whole(p \o q) /\ (\A i \in 1..Len(p \o q) : Dword((p \o q)[i]))
        /\ \A i \in 1..Len(p) : ~Last(p[i])
    BY DEF StreamInv
  <2> HIDE DEF p, q, w
  <2>4. Tail(q) \in Seq(Word)
    BY <2>1, <2>2
  <2>5. CASE Last(w)
    <3>1. (partial \o Pending)' = Tail(q) /\ partial' = << >>
      <4>1. << >> \o Tail(q) = Tail(q)
        BY <2>4, ConcatEmptySeq
      <4> QED  BY <2>1, <2>5, <4>1
    <3>2. Whole(Tail(q)) /\ \A i \in 1..Len(Tail(q)) : Dword(Tail(q)[i])
      BY <2>1, <2>2, <2>3, <2>5, WholeRest
    <3> QED  BY <3>1, <3>2 DEF StreamInv
  <2>6. CASE ~Last(w)
    <3>1. (partial \o Pending)' = p \o q
      <4>1. Append(p, w) \o Tail(q) = p \o q
        BY <2>1, <2>2
      <4> QED  BY <2>1, <2>6, <4>1 DEF p
    <3>2. partial' = Append(p, w)
      BY <2>1, <2>6 DEF p
    <3>3. \A i \in 1..Len(Append(p, w)) : ~Last(Append(p, w)[i])
      BY <2>2, <2>3, <2>6
    <3> QED  BY <2>3, <3>1, <3>2, <3>3 DEF StreamInv
  <2> QED  BY <2>5, <2>6
<1>5. ASSUME \/ \E c \in Client : Quiet(c)
             \/ DeviceIdle \/ UNCHANGED vars
      PROVE  UNCHANGED << partial, Pending >>
  <2>1. Pending' = Pending
    BY <1>5, PendingKept
  <2>2. partial' = partial
    BY <1>5 DEF Quiet, ReserveInPlace, ReserveBounce, FIFOFull, FillCommand,
       CommitBegin, CommitCopy, CommitEnd, SyncToFenceDone, SyncFIFODone, SyncReturn,
       RingDoorBellSync, ClientCall, LockDevice, UnlockDevice, BuildCommand,
       InsertFence, SyncToFence, SyncFIFO, RingDoorBell, DeviceIdle, vars, device
  <2> QED  BY <2>1, <2>2
<1> QED  BY <1>2, <1>3, <1>4, <1>5 DEF Next, ClientStep, Quiet

-----------------------------------------------------------------------------
\* The reservation register, m_reserved_size and the waits for an idle device.
Books == ReservedInv /\ ClaimInv /\ DrainInv

LEMMA BookStep ==
  ASSUME IInv, IInv', Books, [Next]_vars
  PROVE  Books'
<1> USE DEF Books, Goto, members
<1>a. /\ pc \in [Client -> Labels] /\ cmd \in [Client -> Seq(Word)] /\ LockExcludes
  BY DEF IInv, TypeOK, RingInv
<1>1. ASSUME NEW c \in Client, ReserveInPlace(c) PROVE Books'
  BY <1>1, <1>a, Alone DEF ReserveInPlace, ReservedInv, ClaimInv, DrainInv
<1>2. ASSUME NEW c \in Client, ReserveBounce(c) PROVE Books'
  BY <1>2, <1>a, Alone DEF ReserveBounce, ReservedInv, ClaimInv, DrainInv
<1>3. ASSUME NEW c \in Client, FIFOFull(c) PROVE Books'
  BY <1>3, <1>a, Alone DEF FIFOFull, ReservedInv, ClaimInv, DrainInv
<1>4. ASSUME NEW c \in Client, FillCommand(c) PROVE Books'
  BY <1>4, <1>a, Alone DEF FillCommand, ReservedInv, ClaimInv, DrainInv
<1>5. ASSUME NEW c \in Client, CommitBegin(c) PROVE Books'
  BY <1>5, <1>a, Alone DEF CommitBegin, ReservedInv, ClaimInv, DrainInv
<1>6. ASSUME NEW c \in Client, CommitCopy(c) PROVE Books'
  BY <1>6, <1>a, Alone DEF CommitCopy, ReservedInv, ClaimInv, DrainInv
<1>7. ASSUME NEW c \in Client, CommitPublish(c) PROVE Books'
  BY <1>7, <1>a, Alone DEF CommitPublish, ReservedInv, ClaimInv, DrainInv
<1>8. ASSUME NEW c \in Client, CommitEnd(c) PROVE Books'
  BY <1>8, <1>a, Alone DEF CommitEnd, ReservedInv, ClaimInv, DrainInv
<1>9. ASSUME NEW c \in Client, SyncToFenceDone(c) PROVE Books'
  BY <1>9, <1>a, Alone DEF SyncToFenceDone, ReservedInv, ClaimInv, DrainInv
<1>10. ASSUME NEW c \in Client, SyncFIFODone(c) PROVE Books'
  BY <1>10, <1>a, Alone DEF SyncFIFODone, ReservedInv, ClaimInv, DrainInv
<1>11. ASSUME NEW c \in Client, SyncReturn(c) PROVE Books'
  BY <1>11, <1>a, Alone DEF SyncReturn, ReservedInv, ClaimInv, DrainInv
<1>12. ASSUME NEW c \in Client, RingDoorBellSync(c) PROVE Books'
  BY <1>12, <1>a, Alone DEF RingDoorBellSync, ReservedInv, ClaimInv, DrainInv
<1>13. ASSUME NEW c \in Client, LockDevice(c) PROVE Books'
  BY <1>13, <1>a, Alone DEF LockDevice, ReservedInv, ClaimInv, DrainInv
<1>14. ASSUME NEW c \in Client, UnlockDevice(c) PROVE Books'
  BY <1>14, <1>a, Alone DEF UnlockDevice, ReservedInv, ClaimInv, DrainInv
<1>15. ASSUME NEW c \in Client, SyncToFence(c) PROVE Books'
  BY <1>15, <1>a, Alone DEF SyncToFence, ReservedInv, ClaimInv, DrainInv
<1>16. ASSUME NEW c \in Client, SyncFIFO(c) PROVE Books'
  BY <1>16, <1>a, Alone DEF SyncFIFO, ReservedInv, ClaimInv, DrainInv
<1>17. ASSUME NEW c \in Client, RingDoorBell(c) PROVE Books'
  BY <1>17, <1>a, Alone DEF RingDoorBell, ReservedInv, ClaimInv, DrainInv
<1>18. ASSUME NEW c \in Client, InsertFence(c) PROVE Books'
  BY <1>18, <1>a, Alone DEF InsertFence, Claim, ReservedInv, ClaimInv, DrainInv
<1>19. ASSUME NEW c \in Client, NEW n \in Lens, BuildCommand(c, n) PROVE Books'
  BY <1>19, <1>a, Alone DEF BuildCommand, Claim, ReservedInv, ClaimInv, DrainInv
<1>20. ASSUME DeviceRead PROVE Books'
  BY <1>20 DEF DeviceRead, ReservedInv, ClaimInv, DrainInv
<1>21. ASSUME DeviceIdle PROVE Books'
  BY <1>21 DEF DeviceIdle, ReservedInv, ClaimInv, DrainInv
<1>22. ASSUME UNCHANGED vars PROVE Books'
  BY <1>22 DEF vars, ReservedInv, ClaimInv, DrainInv
<1> QED
  BY <1>1, <1>2, <1>3, <1>4, <1>5, <1>6, <1>7, <1>8, <1>9, <1>10, <1>11, <1>12, <1>13, <1>14, <1>15, <1>16, <1>17, <1>18, <1>19, <1>20, <1>21, <1>22
  DEF Next, ClientStep, ClientCall

-----------------------------------------------------------------------------
\* The fences in the ring have values that InsertFence gives out, and so has the
\* register, where 0 stands for the last one before 1.
LEMMA FenceTypes ==
  ASSUME IInv, StreamInv
  PROVE  /\ Pending \in Seq(Word) /\ Len(Pending) = Used /\ Len(Pending) < Size
         /\ Valued(Pending) /\ Reached \in Values /\ NextValue \in Values
<1>1. TypeOK /\ partial \in Seq(Word)
  BY DEF IInv, TypeOK
<1>2. Pending \in Seq(Word) /\ Len(Pending) = Used
  BY <1>1, PendingSeq
<1>3. Used \in 0..(Size - 1)
  BY <1>1, UsedNat
<1>4. Reached \in Values /\ NextValue \in Values
  BY <1>1, FenceModBig DEF TypeOK, Reached, NextValue, Values
<1>5. ASSUME NEW i \in FencesIn(Pending) PROVE Pending[i][4] \in Values
  <2> DEFINE s == partial \o Pending
             w == Pending[i]
             m == Len(partial)
  <2>1. m \in Nat /\ i \in 1..Len(Pending) /\ w[1] = SVGA_CMD_FENCE
    BY <1>1 DEF FencesIn
  <2>2. Len(s) = m + Len(Pending) /\ s[m + i] = w
    BY <1>1, <1>2, <2>1, Joined
  <2>3. \A j \in 1..Len(s) : Dword(s[j])
    BY DEF StreamInv
  <2> HIDE DEF s, m
  <2>4. m + i \in 1..Len(s)
    BY <1>2, <1>3, <2>1, <2>2
  <2>5. Dword(w)
    BY <2>2, <2>3, <2>4
  <2> HIDE DEF w
  <2>6. w \in Word /\ w[4] # 0
    BY <2>1, <2>5 DEF Dword
  <2>7. w[4] \in 0..(FenceMod - 1)
    BY <2>6 DEF Word
  <2>8. w[4] \in Values
    BY <2>6, <2>7, FenceModBig DEF Values
  <2> QED  BY <2>8 DEF w
<1> QED  BY <1>2, <1>3, <1>4, <1>5 DEF Valued

\* Who holds a fence stays the same, and so do the fences.
HoldSame ==
  \A c \in Client :
    /\ HoldsFence(c)' <=> HoldsFence(c)
    /\ HoldsFence(c) => cmd'[c] = cmd[c] /\ fence'[c] = fence[c]

LEMMA FenceKept ==
  ASSUME FenceInv, Pending' = Pending, UNCHANGED << fenceReg, fenceCap, nextFence >>,
         HoldSame
  PROVE  FenceInv'
<1>1. PICK n \in Nat : Ordered(Pending, Reached, n) /\ FollowedBy(n)
  BY DEF FenceInv
<1>2. Reached' = Reached /\ NextValue' = NextValue
  BY DEF Reached, NextValue
<1>3. Ordered(Pending', Reached', n)
  BY <1>1, <1>2
<1>4. FollowedBy(n)'
  BY <1>1, <1>2 DEF FollowedBy, HoldSame
<1> QED  BY <1>3, <1>4 DEF FenceInv

\* The steps that only move a thread from one place to another.
Moves(c) ==
  \/ ReserveInPlace(c) \/ ReserveBounce(c) \/ FIFOFull(c) \/ FillCommand(c)
  \/ CommitBegin(c) \/ CommitCopy(c) \/ CommitEnd(c) \/ SyncFIFODone(c)
  \/ RingDoorBellSync(c) \/ LockDevice(c) \/ UnlockDevice(c) \/ SyncFIFO(c)
  \/ RingDoorBell(c) \/ \E n \in Lens : BuildCommand(c, n)

PlaceSame ==
  \A d \in Client :
    /\ pc'[d] \notin Building => pc[d] \notin Building
    /\ pc'[d] = "synced" => pc[d] = "synced"
    /\ pc'[d] = "fenceWait" => pc[d] = "fenceWait"

LEMMA MovesPlain ==
  ASSUME IInv, NEW c \in Client, Moves(c)
  PROVE  /\ UNCHANGED << partial, fenceReg, fenceCap, nextFence, fence, covered >>
         /\ HoldSame /\ PlaceSame
<1>a. pc \in [Client -> Labels] /\ cmd \in [Client -> Seq(Word)]
  BY DEF IInv, TypeOK
<1>1. UNCHANGED << partial, fenceReg, fenceCap, nextFence, fence, covered >>
  BY DEF Moves, ReserveInPlace, ReserveBounce, FIFOFull, FillCommand,
       CommitBegin, CommitCopy, CommitEnd, SyncFIFODone, RingDoorBellSync, LockDevice,
       UnlockDevice, BuildCommand, SyncFIFO, RingDoorBell, device, members
<1>2. CASE \E n \in Lens : BuildCommand(c, n)
  <2>1. PICK n \in Lens : BuildCommand(c, n)
    BY <1>2
  <2>2. CASE UNCHANGED << reservedSize, cmd, pc >>
    BY <1>1, <2>2 DEF HoldSame, PlaceSame, HoldsFence
  <2>3. CASE Claim(c, ClientCommand(c, n))
    <3>1. n \in Nat \ {0} /\ ClientCommand(c, n)[1] = << c, n, 1, 0 >>
      BY RingAssumption DEF ClientCommand
    <3>2. c # SVGA_CMD_FENCE
      BY ClientAssumption, Zenon
    <3>3. /\ pc[c] = "ready" /\ pc' = [pc EXCEPT ![c] = "reserve"]
          /\ cmd' = [cmd EXCEPT ![c] = ClientCommand(c, n)]
      BY <2>1, <2>3 DEF BuildCommand, Claim, Goto
    <3>4. ~HoldsFence(c) /\ ~HoldsFence(c)'
      BY <1>a, <3>1, <3>2, <3>3 DEF HoldsFence, Building
    <3>5. \A d \in Client : d # c => pc'[d] = pc[d] /\ cmd'[d] = cmd[d]
      BY <1>a, <3>3
    <3>6. pc'[c] = "reserve"
      BY <1>a, <3>3
    <3> QED  BY <1>1, <3>4, <3>5, <3>6 DEF HoldSame, PlaceSame, HoldsFence, Building
  <2> QED  BY <2>1, <2>2, <2>3 DEF BuildCommand
<1>3. CASE CommitEnd(c)
  <2>1. /\ pc[c] = "clear" /\ pc' = [pc EXCEPT ![c] = "ready"]
        /\ cmd' = [cmd EXCEPT ![c] = << >>]
    BY <1>3 DEF CommitEnd, Goto
  <2>2. /\ pc'[c] = "ready"
        /\ \A d \in Client : d # c => pc'[d] = pc[d] /\ cmd'[d] = cmd[d]
    BY <1>a, <2>1
  <2> QED  BY <1>1, <2>1, <2>2 DEF HoldSame, PlaceSame, HoldsFence, Building
<1>4. CASE \/ ReserveInPlace(c) \/ ReserveBounce(c) \/ FIFOFull(c) \/ FillCommand(c)
           \/ CommitBegin(c) \/ CommitCopy(c)
  <2>1. cmd' = cmd /\ pc[c] \in Building /\ pc'[c] \in Building
        /\ \A d \in Client : d # c => pc'[d] = pc[d]
    BY <1>a, <1>4 DEF ReserveInPlace, ReserveBounce, FIFOFull, FillCommand,
                      CommitBegin, CommitCopy, Goto, Building
  <2> QED  BY <1>1, <2>1 DEF HoldSame, PlaceSame, HoldsFence, Building
<1>5. CASE \/ SyncFIFODone(c) \/ RingDoorBellSync(c) \/ LockDevice(c)
           \/ UnlockDevice(c) \/ SyncFIFO(c) \/ RingDoorBell(c)
  <2>1. /\ cmd' = cmd /\ pc[c] \notin Building
        /\ pc'[c] \notin Building /\ pc'[c] # "synced" /\ pc'[c] # "fenceWait"
        /\ \A d \in Client : d # c => pc'[d] = pc[d]
    BY <1>a, <1>5 DEF SyncFIFODone, RingDoorBellSync, LockDevice, UnlockDevice,
                      SyncFIFO, RingDoorBell, Goto, Building
  <2> QED  BY <1>1, <2>1 DEF HoldSame, PlaceSame, HoldsFence
<1> QED  BY <1>1, <1>2, <1>3, <1>4, <1>5 DEF Moves

\* InsertFence always gets its two dwords: no reservation is open when a thread with
\* the lock starts one.
LEMMA FenceGranted ==
  ASSUME IInv, StreamInv, Books, NEW c \in Client, InsertFence(c), fenceCap
  PROVE  /\ pc[c] = "ready" /\ pc' = [pc EXCEPT ![c] = "reserve"]
         /\ cmd' = [cmd EXCEPT ![c] = FenceCommand(NextValue)]
         /\ fence' = [fence EXCEPT ![c] = NextValue]
         /\ nextFence' = (NextValue + 1) % FenceMod /\ NextValue' = Succ(NextValue)
         /\ UNCHANGED << ring, nextCmd, stop, partial, fenceReg, fenceCap, covered >>
         /\ \A d \in Client : pc[d] \notin Building
<1>1. pc[c] = "ready" /\ LockExcludes
  BY DEF InsertFence, IInv, RingInv
<1>2. \A d \in Client : d # c => pc[d] = "idle"
  BY <1>1, Alone
<1>3. reservedSize = 0
  BY <1>1, <1>2 DEF Books, ClaimInv
<1>4. ~Refused(2)
  BY <1>3 DEF Refused
<1>5. /\ nextFence' = (NextValue + 1) % FenceMod
      /\ fence' = [fence EXCEPT ![c] = NextValue] /\ Claim(c, FenceCommand(NextValue))
      /\ UNCHANGED << ring, nextCmd, stop, partial, fenceReg, fenceCap, covered >>
  BY <1>4 DEF InsertFence, NextValue, device
<1>6. NextValue' = Succ(NextValue)
  <2> DEFINE v == NextValue
  <2>1. v \in Values
    BY FenceTypes
  <2>2. NextValue' = IF (v + 1) % FenceMod = 0 THEN 1 ELSE (v + 1) % FenceMod
    BY <1>5 DEF NextValue
  <2> HIDE DEF v
  <2>3. v < FenceMod - 1 => (v + 1) % FenceMod = v + 1
    BY <2>1, FenceModBig, ModFacts DEF Values
  <2>4. v = FenceMod - 1 => (v + 1) % FenceMod = 0
    BY <2>1, FenceModBig DEF Values
  <2>5. v \in Nat /\ 1 <= v /\ v <= FenceMod - 1 /\ FenceMod \in Nat
    BY <2>1, FenceModBig DEF Values
  <2>6. NextValue' = Succ(v)
    BY <2>2, <2>3, <2>4, <2>5 DEF Succ
  <2> QED  BY <2>6 DEF v
<1>7. \A d \in Client : pc[d] \notin Building
  BY <1>1, <1>2 DEF Building
<1> QED  BY <1>1, <1>5, <1>6, <1>7 DEF Claim, Goto

\* The fences in the ring and the one in hand stay in their order.
LEMMA FenceStep ==
  ASSUME IInv, IInv', StreamInv, Books, FenceInv, [Next]_vars
  PROVE  FenceInv'
<1>a. pc \in [Client -> Labels] /\ cmd \in [Client -> Seq(Word)]
      /\ fence \in [Client -> 0..(FenceMod - 1)] /\ fenceReg \in 0..(FenceMod - 1)
  BY DEF IInv, TypeOK
<1>b. /\ Pending \in Seq(Word) /\ Len(Pending) = Used /\ Len(Pending) < Size
      /\ Valued(Pending) /\ Reached \in Values /\ NextValue \in Values
  BY FenceTypes
<1>c. PICK n \in Nat : Ordered(Pending, Reached, n) /\ FollowedBy(n)
  BY DEF FenceInv
<1>d. n + 1 <= FenceMod \div 2 /\ n + 1 < FenceMod - 1
  BY <1>b, <1>c, OrderedBound
<1>1. ASSUME NEW c \in Client, Moves(c) PROVE FenceInv'
  <2>1. Pending' = Pending
    BY <1>1, PendingKept DEF Moves, Quiet, ClientCall
  <2> QED  BY <1>1, <2>1, MovesPlain, FenceKept
<1>2. ASSUME NEW c \in Client, SyncToFence(c) \/ SyncToFenceDone(c) \/ SyncReturn(c)
      PROVE  FenceInv'
  <2>1. Pending' = Pending
    BY <1>2, PendingKept DEF Quiet, ClientCall
  <2>2. UNCHANGED << fenceReg, fenceCap, nextFence, cmd >>
    BY <1>2 DEF SyncToFence, SyncToFenceDone, SyncReturn, device, members
  <2>3. /\ pc[c] \notin Building /\ pc'[c] \notin Building
        /\ \A d \in Client : d # c => pc'[d] = pc[d] /\ fence'[d] = fence[d]
    BY <1>2, <1>a DEF SyncToFence, SyncToFenceDone, SyncReturn, Goto, Building
  <2>4. HoldSame
    BY <2>2, <2>3 DEF HoldSame, HoldsFence
  <2> QED  BY <2>1, <2>2, <2>4, FenceKept
<1>3. ASSUME NEW c \in Client, InsertFence(c) PROVE FenceInv'
  <2>1. Pending' = Pending
    BY <1>3, PendingKept DEF Quiet, ClientCall
  <2>2. CASE ~fenceCap
    <3>1. /\ UNCHANGED << fenceReg, fenceCap, nextFence, cmd, pc >> /\ pc[c] = "ready"
          /\ fence' = [fence EXCEPT ![c] = 1]
      BY <1>3, <2>2 DEF InsertFence, device
    <3>2. HoldSame
      BY <1>a, <3>1 DEF HoldSame, HoldsFence, Building
    <3> QED  BY <2>1, <3>1, <3>2, FenceKept
  <2>3. CASE fenceCap
    <3> DEFINE f == NextValue
    <3>1. /\ pc' = [pc EXCEPT ![c] = "reserve"]
          /\ cmd' = [cmd EXCEPT ![c] = FenceCommand(f)]
          /\ fence' = [fence EXCEPT ![c] = f] /\ NextValue' = Succ(f)
          /\ UNCHANGED << fenceReg, fenceCap >>
          /\ \A d \in Client : pc[d] \notin Building
      BY <1>3, <2>3, FenceGranted
    <3>2. \A d \in Client : ~HoldsFence(d)
      BY <3>1 DEF HoldsFence
    <3>3. Ahead(f, Reached) = n + 1 /\ f \in Values
      BY <1>b, <1>c, <3>2 DEF FollowedBy
    <3>4. Reached' = Reached
      BY <3>1 DEF Reached
    <3> HIDE DEF f
    <3>5. ASSUME NEW d \in Client, d # c PROVE ~HoldsFence(d)'
      <4>1. pc'[d] \notin Building
        BY <1>a, <3>1, <3>5
      <4> QED  BY <4>1 DEF HoldsFence
    <3>6. HoldsFence(c)' /\ cmd'[c] = FenceCommand(f) /\ fence'[c] = f
      <4>1. pc'[c] = "reserve" /\ cmd'[c] = FenceCommand(f) /\ fence'[c] = f
        BY <1>a, <3>1
      <4>2. FenceCommand(f)[1][1] = SVGA_CMD_FENCE
        BY DEF FenceCommand
      <4> QED  BY <4>1, <4>2 DEF HoldsFence, Building
    <3>7. FollowedBy(n)'
      BY <2>3, <3>1, <3>3, <3>4, <3>5, <3>6 DEF FollowedBy, Values
    <3>8. Ordered(Pending', Reached', n)
      BY <1>c, <2>1, <3>4
    <3> QED  BY <3>7, <3>8 DEF FenceInv
  <2> QED  BY <2>2, <2>3
<1>4. ASSUME NEW c \in Client, CommitPublish(c) PROVE FenceInv'
  <2>1. /\ cmd[c] \in Seq(Word) /\ cmd[c] \in Command
        /\ Pending' = Pending \o cmd[c]
    BY <1>4, PendingGrows
  <2>2. /\ pc[c] = "publish" /\ pc' = [pc EXCEPT ![c] = "clear"]
        /\ UNCHANGED << fenceReg, fenceCap, nextFence, cmd, fence >>
    BY <1>4 DEF CommitPublish, Goto, device, members
  <2>3. \A d \in Client : d # c => pc[d] = "idle"
    BY <2>2, Alone DEF IInv, RingInv
  <2>4. ASSUME NEW d \in Client PROVE ~HoldsFence(d)' /\ (d # c => ~HoldsFence(d))
    BY <1>a, <2>2, <2>3 DEF HoldsFence, Building
  <2>5. Reached' = Reached /\ NextValue' = NextValue
    BY <2>2 DEF Reached, NextValue
  <2>6. CASE HoldsFence(c)
    <3> DEFINE f == fence[c]
    <3>1. /\ cmd[c] = FenceCommand(f) /\ f \in Values /\ Ahead(f, Reached) = n + 1
          /\ NextValue = Succ(f)
      BY <1>c, <2>6 DEF FollowedBy, Values
    <3> HIDE DEF f
    <3>2. Ordered(Pending \o FenceCommand(f), Reached, n + 1)
      BY <1>b, <1>c, <3>1, OrderedFence
    <3>3. Ahead(Succ(f), Reached) = (n + 1) + 1
      BY <1>b, <1>d, <3>1, AheadSucc
    <3>4. FollowedBy(n + 1)'
      BY <2>4, <2>5, <3>1, <3>3 DEF FollowedBy
    <3>5. Ordered(Pending', Reached', n + 1)
      BY <2>1, <2>5, <3>1, <3>2
    <3> QED  BY <3>4, <3>5 DEF FenceInv
  <2>7. CASE ~HoldsFence(c)
    <3> DEFINE t == cmd[c]
    <3>1. t[1][1] # SVGA_CMD_FENCE /\ t \in Command /\ t \in Seq(Word)
      BY <2>1, <2>2, <2>7 DEF HoldsFence, Building
    <3> HIDE DEF t
    <3>2. \A i \in 1..Len(t) : t[i][1] # SVGA_CMD_FENCE
      <4>1. \A f : FenceCommand(f)[1][1] = SVGA_CMD_FENCE
        BY DEF FenceCommand
      <4>2. PICK d \in Client : \A i \in 1..Len(t) : t[i][1] = d
        BY <3>1, <4>1, CommandDwords
      <4>3. d # SVGA_CMD_FENCE
        BY ClientAssumption, Zenon
      <4> QED  BY <4>2, <4>3
    <3>3. Ordered(Pending \o t, Reached, n)
      BY <1>b, <1>c, <3>1, <3>2, OrderedOther
    <3>4. Ordered(Pending', Reached', n)
      BY <2>1, <2>5, <3>3 DEF t
    <3>5. FollowedBy(n)'
      <4>1. \A d \in Client : ~HoldsFence(d)
        BY <2>4, <2>7
      <4>2. Ahead(NextValue, Reached) = n + 1
        BY <1>c, <4>1 DEF FollowedBy
      <4> QED  BY <2>4, <2>5, <4>2 DEF FollowedBy
    <3> QED  BY <3>4, <3>5 DEF FenceInv
  <2> QED  BY <2>6, <2>7
<1>5. ASSUME DeviceRead PROVE FenceInv'
  <2> DEFINE P == Pending
             w == ring[stop]
  <2>1. P # << >> /\ Pending' = Tail(P)
    BY <1>5, PendingRead DEF DeviceRead, IInv
  <2>2. P[1] = w /\ 1 \in 1..Len(P)
    <3>1. TypeOK /\ stop \in Min..(Max - 1)
      BY DEF IInv, TypeOK
    <3>2. \A i \in 1..Used : P[i] = ring[Wrap(stop + (i - 1))]
      BY <3>1, PendingSeq
    <3>3. Used # 0 /\ Used \in Nat
      <4>1. Used \in 0..(Size - 1)
        BY <3>1, UsedNat
      <4> QED  BY <1>b, <2>1, <4>1
    <3>4. 1 \in 1..Used /\ Wrap(stop + (1 - 1)) = stop
      BY <3>1, <3>3 DEF Wrap
    <3> QED  BY <1>b, <3>2, <3>4
  <2>3. /\ fenceReg' = IF w[1] = SVGA_CMD_FENCE /\ Last(w) THEN w[4] ELSE fenceReg
        /\ UNCHANGED << fenceCap, nextFence, pc, cmd, fence >>
    BY <1>5 DEF DeviceRead, members
  <2>4. NextValue' = NextValue /\ \A d \in Client : HoldsFence(d)' <=> HoldsFence(d)
    BY <2>3 DEF NextValue, HoldsFence
  <2>5. 1 \in FencesIn(P) <=> P[1][1] = SVGA_CMD_FENCE /\ Last(P[1])
    BY <2>2 DEF FencesIn
  <2>6. P \in Seq(Word) /\ Valued(P) /\ Ordered(P, Reached, n)
    BY <1>b, <1>c
  <2> HIDE DEF P, w
  <2>7. CASE 1 \in FencesIn(P)
    <3> DEFINE g == P[1][4]
    <3>1. n >= 1 /\ Ahead(g, Reached) = 1 /\ Ordered(Tail(P), g, n - 1) /\ g \in Values
      BY <1>b, <2>1, <2>6, <2>7, OrderedRead DEF Valued
    <3>2. fenceReg' = g
      BY <2>2, <2>3, <2>5, <2>7
    <3> HIDE DEF g
    <3>3. Reached' = g
      BY <3>1, <3>2 DEF Reached, Values
    <3>4. \A v \in Values : Ahead(v, Reached) = n + 1 => Ahead(v, g) = (n - 1) + 1
      <4> SUFFICES ASSUME NEW v \in Values, Ahead(v, Reached) = n + 1
                   PROVE  Ahead(v, g) = (n - 1) + 1
        OBVIOUS
      <4>1. Ahead(v, Reached) >= 2
        BY <3>1
      <4>2. Ahead(v, g) = Ahead(v, Reached) - 1
        BY <1>b, <3>1, <4>1, AheadReached
      <4> QED  BY <4>2
    <3>5. FollowedBy(n - 1)'
      BY <1>b, <1>c, <2>3, <2>4, <3>3, <3>4 DEF FollowedBy, Values
    <3>6. n - 1 \in Nat /\ Ordered(Pending', Reached', n - 1)
      BY <2>1, <3>1, <3>3
    <3> QED  BY <3>5, <3>6 DEF FenceInv
  <2>8. CASE 1 \notin FencesIn(P)
    <3>1. Ordered(Tail(P), Reached, n)
      BY <1>b, <2>1, <2>6, <2>8, OrderedRead
    <3>2. fenceReg' = fenceReg
      BY <2>2, <2>3, <2>5, <2>8
    <3>3. Reached' = Reached
      BY <3>2 DEF Reached
    <3>4. FollowedBy(n)'
      BY <1>c, <2>3, <2>4, <3>3 DEF FollowedBy
    <3>5. Ordered(Pending', Reached', n)
      BY <2>1, <3>1, <3>3
    <3> QED  BY <3>4, <3>5 DEF FenceInv
  <2> QED  BY <2>7, <2>8
<1>6. ASSUME DeviceIdle \/ UNCHANGED vars PROVE FenceInv'
  <2>1. Pending' = Pending
    BY <1>6, PendingKept
  <2>2. UNCHANGED << fenceReg, fenceCap, nextFence, cmd, pc, fence >>
    BY <1>6 DEF DeviceIdle, vars, device, members
  <2>3. HoldSame
    BY <2>2 DEF HoldSame, HoldsFence
  <2> QED  BY <2>1, <2>2, <2>3, FenceKept
<1> QED  BY <1>1, <1>2, <1>3, <1>4, <1>5, <1>6 DEF Next, ClientStep, ClientCall, Moves

\* The command in hand stays the thread's own.
LEMMA OwnStep ==
  ASSUME IInv, StreamInv, Books, OwnCommand, [Next]_vars
  PROVE  OwnCommand'
<1>a. pc \in [Client -> Labels] /\ cmd \in [Client -> Seq(Word)]
  BY DEF IInv, TypeOK
<1>1. ASSUME \A d \in Client : pc'[d] \in Building => pc[d] \in Building /\ cmd'[d] = cmd[d]
      PROVE  OwnCommand'
  BY <1>1 DEF OwnCommand
<1>2. ASSUME NEW c \in Client, NEW t, Claim(c, t),
             \A i \in 1..Len(t) : t[i][1] \in {c, SVGA_CMD_FENCE}
      PROVE  OwnCommand'
  <2>1. cmd'[c] = t /\ \A d \in Client : d # c => pc'[d] = pc[d] /\ cmd'[d] = cmd[d]
    BY <1>a, <1>2 DEF Claim, Goto
  <2> QED  BY <1>2, <2>1 DEF OwnCommand
<1>3. ASSUME NEW c \in Client, NEW n \in Lens, BuildCommand(c, n) PROVE OwnCommand'
  <2>1. Len(ClientCommand(c, n)) = n /\ n \in Nat
    BY ClientCommandType
  <2>2. \A i \in 1..n : ClientCommand(c, n)[i][1] = c
    BY DEF ClientCommand
  <2>3. CASE UNCHANGED << reservedSize, cmd, pc >>
    BY <1>1, <2>3
  <2>4. CASE Claim(c, ClientCommand(c, n))
    BY <1>2, <2>1, <2>2, <2>4
  <2> QED  BY <1>3, <2>3, <2>4 DEF BuildCommand
<1>4. ASSUME NEW c \in Client, InsertFence(c) PROVE OwnCommand'
  <2>1. CASE ~fenceCap
    BY <1>1, <1>4, <2>1 DEF InsertFence
  <2>2. CASE fenceCap
    <3> DEFINE t == FenceCommand(NextValue)
    <3>1. cmd'[c] = t /\ \A d \in Client : d # c => pc'[d] = pc[d] /\ cmd'[d] = cmd[d]
      BY <1>a, <1>4, <2>2, FenceGranted
    <3>2. \A i \in 1..Len(t) : t[i][1] = SVGA_CMD_FENCE
      <4>1. NextValue \in 1..(FenceMod - 1)
        BY FenceTypes DEF Values
      <4>2. Len(t) = 2
        BY <4>1, FenceCommandType
      <4>3. \A i \in 1..2 : t[i][1] = SVGA_CMD_FENCE
        BY DEF FenceCommand
      <4> QED  BY <4>2, <4>3
    <3> HIDE DEF t
    <3> QED  BY <3>1, <3>2 DEF OwnCommand
  <2> QED  BY <2>1, <2>2
<1>5. ASSUME NEW c \in Client, CommitEnd(c) PROVE OwnCommand'
  <2>1. /\ pc'[c] = "ready"
        /\ \A d \in Client : d # c => pc'[d] = pc[d] /\ cmd'[d] = cmd[d]
    BY <1>a, <1>5 DEF CommitEnd, Goto
  <2> QED  BY <1>1, <2>1 DEF Building
<1>6. ASSUME NEW c \in Client,
             \/ ReserveInPlace(c) \/ ReserveBounce(c) \/ FIFOFull(c) \/ FillCommand(c)
             \/ CommitBegin(c) \/ CommitCopy(c) \/ CommitPublish(c)
             \/ SyncToFenceDone(c) \/ SyncFIFODone(c) \/ SyncReturn(c)
             \/ RingDoorBellSync(c) \/ LockDevice(c) \/ UnlockDevice(c)
             \/ SyncToFence(c) \/ SyncFIFO(c) \/ RingDoorBell(c)
      PROVE  OwnCommand'
  <2>1. /\ cmd' = cmd /\ \A d \in Client : d # c => pc'[d] = pc[d]
        /\ pc'[c] \in Building => pc[c] \in Building
    BY <1>a, <1>6 DEF ReserveInPlace, ReserveBounce, FIFOFull, FillCommand,
       CommitBegin, CommitCopy, CommitPublish, SyncToFenceDone, SyncFIFODone,
       SyncReturn, RingDoorBellSync, LockDevice, UnlockDevice, SyncToFence, SyncFIFO,
       RingDoorBell, Goto, Building
  <2> QED  BY <1>1, <2>1
<1>7. ASSUME DeviceRead \/ DeviceIdle \/ UNCHANGED vars PROVE OwnCommand'
  <2>1. UNCHANGED << cmd, pc >>
    BY <1>7 DEF DeviceRead, DeviceIdle, vars
  <2> QED  BY <1>1, <2>1
<1> QED
  BY <1>3, <1>4, <1>5, <1>6, <1>7 DEF Next, ClientStep, ClientCall

\* When STOP has reached NEXT_CMD the device has executed everything.
LEMMA Drained ==
  ASSUME IInv, StreamInv, stop = nextCmd
  PROVE  partial \o Pending = << >>
<1>1. partial \in Seq(Word) /\ TypeOK /\ stop \in Min..(Max - 1)
  BY DEF IInv, TypeOK
<1>2. Used = 0
  BY <1>1 DEF Used
<1>3. Pending = << >>
  BY <1>1, <1>2, PendingSeq
<1>4. partial \o Pending = partial
  BY <1>1, <1>3, ConcatEmptySeq
<1>5. ASSUME partial # << >> PROVE FALSE
  <2>1. Len(partial) \in 1..Len(partial)
    BY <1>1, <1>5
  <2>2. Last(partial[Len(partial)])
    BY <1>4, <1>5 DEF StreamInv, Whole
  <2> QED  BY <2>1, <2>2 DEF StreamInv
<1> QED  BY <1>4, <1>5

\* A fence that has passed is not in the ring.
LEMMA PassedGone ==
  ASSUME IInv, StreamInv, FenceInv, NEW f, HasFencePassedUnguarded(f)
  PROVE  \A c : ~BeforeFence(c, f, Pending)
<1> SUFFICES ASSUME NEW k \in FencesIn(Pending), Pending[k][4] = f PROVE FALSE
  BY DEF BeforeFence
<1>1. /\ Pending \in Seq(Word) /\ Len(Pending) < Size
      /\ Valued(Pending) /\ Reached \in Values
  BY FenceTypes
<1>2. PICK n \in Nat : Ordered(Pending, Reached, n)
  BY DEF FenceInv
<1>3. n + 1 <= FenceMod \div 2
  BY <1>1, <1>2, OrderedBound
<1>4. f \in Values /\ Ahead(f, Reached) <= n
  BY <1>1, <1>2 DEF Valued, Ordered
<1>5. Ahead(f, Reached) \in Int /\ FenceMod \div 2 \in Int
  BY <1>1, <1>4, AheadType, FenceModBig
<1>6. Ahead(f, Reached) + 1 <= FenceMod \div 2
  BY <1>3, <1>4, <1>5
<1>7. fenceReg \in 0..(FenceMod - 1)
  BY DEF IInv, TypeOK
<1> QED  BY <1>4, <1>6, <1>7, NotPassed

\* What a command of others leaves of what is before a fence.
LEMMA NoneAppend ==
  ASSUME NEW c, NEW s \in Seq(Word), NEW t \in Seq(Word), NoneOf(c, s), NoneOf(c, t)
  PROVE  NoneOf(c, s \o t)
<1> DEFINE u == s \o t
           m == Len(s)
<1>1. /\ Len(u) = m + Len(t) /\ \A i \in 1..m : u[i] = s[i]
      /\ \A i \in 1..Len(t) : u[m + i] = t[i]
  BY Joined
<1>2. m \in Nat /\ Len(t) \in Nat
  OBVIOUS
<1> HIDE DEF u
<1>3. ASSUME NEW i \in 1..Len(u) PROVE u[i][1] # c
  <2>1. CASE i <= m
    BY <1>1, <1>2, <2>1 DEF NoneOf
  <2>2. CASE i > m
    <3> DEFINE j == i - m
    <3>1. j \in 1..Len(t) /\ i = m + j
      BY <1>1, <1>2, <2>2
    <3> HIDE DEF j
    <3> QED  BY <1>1, <3>1 DEF NoneOf
  <2> QED  BY <1>2, <2>1, <2>2
<1> QED  BY <1>3 DEF NoneOf, u

LEMMA BeforeAppend ==
  ASSUME NEW c, NEW f, NEW P \in Seq(Word), NEW t \in Seq(Word),
         BeforeFence(c, f, P), NoneOf(c, t)
  PROVE  BeforeFence(c, f, P \o t)
<1> DEFINE u == P \o t
           m == Len(P)
<1>1. /\ Len(u) = m + Len(t) /\ \A i \in 1..m : u[i] = P[i]
      /\ \A i \in 1..Len(t) : u[m + i] = t[i]
  BY Joined
<1>2. m \in Nat /\ Len(t) \in Nat
  OBVIOUS
<1>3. PICK k \in FencesIn(P) : P[k][4] = f /\ \A i \in (k + 1)..m : P[i][1] # c
  BY DEF BeforeFence
<1>4. k \in 1..m /\ P[k][1] = SVGA_CMD_FENCE /\ Last(P[k])
  BY DEF FencesIn
<1> HIDE DEF u, m
<1>5. k \in FencesIn(u) /\ u[k][4] = f
  <2>1. u[k] = P[k] /\ k \in 1..Len(u)
    BY <1>1, <1>2, <1>4
  <2> QED  BY <1>3, <1>4, <2>1 DEF FencesIn
<1>6. ASSUME NEW i \in (k + 1)..Len(u) PROVE u[i][1] # c
  <2>1. CASE i <= m
    <3>1. i \in (k + 1)..m /\ i \in 1..m
      BY <1>1, <1>2, <1>4, <2>1
    <3> QED  BY <1>1, <1>3, <3>1
  <2>2. CASE i > m
    <3> DEFINE j == i - m
    <3>1. j \in 1..Len(t) /\ i = m + j
      BY <1>1, <1>2, <1>4, <2>2
    <3> HIDE DEF j
    <3> QED  BY <1>1, <3>1 DEF NoneOf
  <2> QED  BY <1>2, <1>4, <2>1, <2>2
<1> QED  BY <1>5, <1>6 DEF BeforeFence, u

\* A thread's fence comes after all of its commands.
LEMMA BeforeNew ==
  ASSUME NEW c, NEW g \in Values, NEW P \in Seq(Word)
  PROVE  BeforeFence(c, g, P \o FenceCommand(g))
<1> DEFINE t == FenceCommand(g)
           u == P \o t
           k == Len(P) + 2
<1>1. t \in Seq(Word) /\ Len(t) = 2 /\ t[2] = << SVGA_CMD_FENCE, 2, 2, g >>
  BY FenceCommandType DEF FenceCommand, Values
<1> HIDE DEF t
<1>2. Len(u) = k /\ u[k] = t[2] /\ k \in 1..k /\ k \in Nat
  <2>1. /\ Len(P \o t) = Len(P) + Len(t)
        /\ \A i \in 1..Len(t) : (P \o t)[Len(P) + i] = t[i]
    BY <1>1, Joined
  <2>2. 2 \in 1..Len(t) /\ Len(P) \in Nat
    BY <1>1
  <2> QED  BY <1>1, <2>1, <2>2
<1> HIDE DEF u, k
<1>3. k \in FencesIn(u) /\ u[k][4] = g
  BY <1>1, <1>2 DEF FencesIn, Last
<1>4. \A i \in (k + 1)..Len(u) : FALSE
  BY <1>2
<1>5. BeforeFence(c, g, u)
  BY <1>3, <1>4 DEF BeforeFence
<1> QED  BY <1>5 DEF u, t

\* Reading a dword leaves the fence in the ring, or nothing of c is behind it.
LEMMA BeforeRead ==
  ASSUME NEW c, NEW f, NEW P \in Seq(Word), P # << >>, BeforeFence(c, f, P)
  PROVE  BeforeFence(c, f, Tail(P)) \/ (Last(P[1]) /\ NoneOf(c, Tail(P)))
<1> DEFINE r == Tail(P)
           m == Len(P)
<1>1. m \in Nat \ {0} /\ r \in Seq(Word) /\ Len(r) = m - 1
      /\ \A i \in 1..(m - 1) : r[i] = P[i + 1]
  BY HeadTailProperties
<1>2. PICK k \in FencesIn(P) : P[k][4] = f /\ \A i \in (k + 1)..m : P[i][1] # c
  BY DEF BeforeFence
<1>3. k \in 1..m /\ P[k][1] = SVGA_CMD_FENCE /\ Last(P[k])
  BY DEF FencesIn
<1> HIDE DEF r, m
<1>4. ASSUME NEW i \in 1..(m - 1), i + 1 > k PROVE r[i][1] # c
  <2>1. i + 1 \in (k + 1)..m /\ r[i] = P[i + 1]
    BY <1>1, <1>3, <1>4
  <2> QED  BY <1>2, <2>1
<1>5. CASE k = 1
  <2>1. \A i \in 1..(m - 1) : i + 1 > k
    BY <1>1, <1>5
  <2> QED  BY <1>1, <1>3, <1>4, <1>5, <2>1 DEF NoneOf, r
<1>6. CASE k # 1
  <2> DEFINE j == k - 1
  <2>1. j \in 1..(m - 1) /\ j + 1 = k
    BY <1>1, <1>3, <1>6
  <2> HIDE DEF j
  <2>2. j \in FencesIn(r) /\ r[j][4] = f
    BY <1>1, <1>2, <1>3, <2>1 DEF FencesIn
  <2>3. \A i \in (j + 1)..Len(r) : i \in 1..(m - 1) /\ i + 1 > k
    BY <1>1, <1>3, <2>1
  <2>4. BeforeFence(c, f, r)
    BY <1>4, <2>2, <2>3 DEF BeforeFence
  <2> QED  BY <2>4 DEF r
<1> QED  BY <1>5, <1>6

\* A thread's commands stay before its fence, and are gone when it has waited.
LEMMA CoverStep ==
  ASSUME IInv, IInv', StreamInv, Books, FenceInv, CoverInv, OwnCommand, [Next]_vars
  PROVE  CoverInv'
<1>a. /\ pc \in [Client -> Labels] /\ covered \in [Client -> BOOLEAN]
      /\ fence \in [Client -> 0..(FenceMod - 1)] /\ partial \in Seq(Word)
  BY DEF IInv, TypeOK
<1>b. Pending \in Seq(Word) /\ Valued(Pending) /\ Reached \in Values
  BY FenceTypes
<1>1. ASSUME NEW c \in Client, Moves(c) PROVE CoverInv'
  <2>1. Pending' = Pending
    BY <1>1, PendingKept DEF Moves, Quiet, ClientCall
  <2>2. UNCHANGED << partial, fenceCap, fence, covered >> /\ PlaceSame
    BY <1>1, MovesPlain
  <2> QED  BY <2>1, <2>2 DEF CoverInv, Settled, PlaceSame
<1>2. ASSUME NEW c \in Client, SyncToFence(c) PROVE CoverInv'
  <2>1. Pending' = Pending
    BY <1>2, PendingKept DEF Quiet, ClientCall
  <2>2. /\ UNCHANGED << partial, fenceCap, fence, covered >> /\ pc[c] = "ready"
        /\ \A d \in Client : d # c => pc'[d] = pc[d]
    BY <1>a, <1>2 DEF SyncToFence, Goto, device
  <2>3. \/ /\ pc'[c] = "synced"
           /\ fence[c] = 0 \/ (fenceCap /\ HasFencePassedUnguarded(fence[c]))
        \/ pc'[c] = "fenceWait" /\ fenceCap /\ fence[c] # 0
        \/ pc'[c] = "drain"
    BY <1>a, <1>2 DEF SyncToFence, Goto
  <2>4. ASSUME pc'[c] = "synced", covered[c] PROVE NoneOf(c, partial \o Pending)
    <3>1. fence[c] = 0 \/ (fenceCap /\ HasFencePassedUnguarded(fence[c]))
      BY <2>3, <2>4
    <3>2. Settled(c)
      BY <2>2, <2>4, <3>1 DEF CoverInv, Building
    <3>3. fence[c] # 0 => ~BeforeFence(c, fence[c], Pending)
      BY <3>1, PassedGone
    <3> QED  BY <3>2, <3>3 DEF Settled
  <2>5. Settled(c)' <=> Settled(c)
    BY <2>1, <2>2 DEF Settled
  <2>6. \A d \in Client : Settled(d)' <=> Settled(d)
    BY <2>1, <2>2 DEF Settled
  <2>7. pc'[c] = "synced" /\ covered'[c] => NoneOf(c, (partial \o Pending)')
    BY <2>1, <2>2, <2>4
  <2>8. pc'[c] = "fenceWait" => fenceCap' /\ fence'[c] # 0
    BY <2>2, <2>3
  <2>9. ASSUME NEW d \in Client
        PROVE  /\ covered'[d] /\ pc'[d] \notin Building /\ (fenceCap' \/ fence'[d] = 0)
                    => Settled(d)'
               /\ pc'[d] = "synced" /\ covered'[d] => NoneOf(d, (partial \o Pending)')
               /\ pc'[d] = "fenceWait" => fenceCap' /\ fence'[d] # 0
    <3>1. CASE d = c
      <4>1. pc[c] \notin Building
        BY <2>2 DEF Building
      <4> QED  BY <2>2, <2>5, <2>7, <2>8, <3>1, <4>1 DEF CoverInv
    <3>2. CASE d # c
      BY <2>1, <2>2, <2>6, <3>2 DEF CoverInv
    <3> QED  BY <3>1, <3>2
  <2> QED  BY <2>9 DEF CoverInv
<1>3. ASSUME NEW c \in Client, SyncToFenceDone(c) PROVE CoverInv'
  <2>1. Pending' = Pending
    BY <1>3, PendingKept DEF Quiet
  <2>2. /\ UNCHANGED << partial, fenceCap, fence, covered >>
        /\ pc[c] = "fenceWait" /\ pc'[c] = "synced"
        /\ \A d \in Client : d # c => pc'[d] = pc[d]
    BY <1>a, <1>3 DEF SyncToFenceDone, Goto, device
  <2>3. ASSUME covered[c] PROVE NoneOf(c, partial \o Pending)
    <3>1. fenceCap /\ fence[c] # 0 /\ Settled(c)
      BY <2>2, <2>3 DEF CoverInv, Building
    <3>2. CASE HasFencePassedUnguarded(fence[c])
      BY <3>1, <3>2, PassedGone DEF Settled
    <3>3. CASE ~busy
      <4>1. stop = nextCmd
        BY <2>2, <3>3 DEF Books, DrainInv
      <4>2. partial \o Pending = << >>
        BY <4>1, Drained
      <4> QED  BY <4>2 DEF NoneOf
    <3> QED  BY <1>3, <3>2, <3>3 DEF SyncToFenceDone
  <2>4. \A d \in Client : Settled(d)' <=> Settled(d)
    BY <2>1, <2>2 DEF Settled
  <2>5. ASSUME NEW d \in Client
        PROVE  /\ covered'[d] /\ pc'[d] \notin Building /\ (fenceCap' \/ fence'[d] = 0)
                    => Settled(d)'
               /\ pc'[d] = "synced" /\ covered'[d] => NoneOf(d, (partial \o Pending)')
               /\ pc'[d] = "fenceWait" => fenceCap' /\ fence'[d] # 0
    <3>1. CASE d = c
      <4>1. pc[c] \notin Building
        BY <2>2 DEF Building
      <4> QED  BY <2>1, <2>2, <2>3, <2>4, <3>1, <4>1 DEF CoverInv
    <3>2. CASE d # c
      BY <2>1, <2>2, <2>4, <3>2 DEF CoverInv
    <3> QED  BY <3>1, <3>2
  <2> QED  BY <2>5 DEF CoverInv
<1>4. ASSUME NEW c \in Client, SyncReturn(c) PROVE CoverInv'
  <2>1. Pending' = Pending
    BY <1>4, PendingKept DEF Quiet
  <2>2. /\ UNCHANGED << partial, fenceCap, covered >>
        /\ pc[c] \in {"synced", "drained"} /\ pc'[c] = "ready" /\ fence'[c] = 0
        /\ \A d \in Client : d # c => pc'[d] = pc[d] /\ fence'[d] = fence[d]
    BY <1>a, <1>4 DEF SyncReturn, Goto, device
  <2>3. ASSUME covered[c] PROVE NoneOf(c, partial \o Pending)
    <3>1. CASE pc[c] = "synced"
      BY <2>3, <3>1 DEF CoverInv
    <3>2. CASE pc[c] = "drained"
      <4>1. stop = nextCmd
        BY <3>2 DEF Books, DrainInv
      <4>2. partial \o Pending = << >>
        BY <4>1, Drained
      <4> QED  BY <4>2 DEF NoneOf
    <3> QED  BY <2>2, <3>1, <3>2
  <2>4. \A d \in Client : d # c => (Settled(d)' <=> Settled(d))
    BY <2>1, <2>2 DEF Settled
  <2>5. ASSUME NEW d \in Client
        PROVE  /\ covered'[d] /\ pc'[d] \notin Building /\ (fenceCap' \/ fence'[d] = 0)
                    => Settled(d)'
               /\ pc'[d] = "synced" /\ covered'[d] => NoneOf(d, (partial \o Pending)')
               /\ pc'[d] = "fenceWait" => fenceCap' /\ fence'[d] # 0
    <3>1. CASE d = c
      BY <2>1, <2>2, <2>3, <3>1 DEF Settled
    <3>2. CASE d # c
      BY <2>1, <2>2, <2>4, <3>2 DEF CoverInv
    <3> QED  BY <3>1, <3>2
  <2> QED  BY <2>5 DEF CoverInv
<1>5. ASSUME NEW c \in Client, InsertFence(c) PROVE CoverInv'
  <2>1. Pending' = Pending
    BY <1>5, PendingKept DEF Quiet, ClientCall
  <2>2. /\ UNCHANGED << partial, fenceCap >>
        /\ \A d \in Client : d # c => /\ pc'[d] = pc[d] /\ fence'[d] = fence[d]
                                      /\ covered'[d] = covered[d]
    <3>1. CASE ~fenceCap
      BY <1>a, <1>5, <3>1 DEF InsertFence, device
    <3>2. CASE fenceCap
      BY <1>a, <1>5, <3>2, FenceGranted
    <3> QED  BY <3>1, <3>2
  <2>3. \/ ~fenceCap /\ pc'[c] = "ready" /\ fence'[c] = 1
        \/ pc'[c] = "reserve"
    <3>1. CASE ~fenceCap
      BY <1>a, <1>5, <3>1 DEF InsertFence
    <3>2. CASE fenceCap
      BY <1>a, <1>5, <3>2, FenceGranted
    <3> QED  BY <3>1, <3>2
  <2>4. \A d \in Client : d # c => (Settled(d)' <=> Settled(d))
    BY <2>1, <2>2 DEF Settled
  <2>5. ASSUME NEW d \in Client
        PROVE  /\ covered'[d] /\ pc'[d] \notin Building /\ (fenceCap' \/ fence'[d] = 0)
                    => Settled(d)'
               /\ pc'[d] = "synced" /\ covered'[d] => NoneOf(d, (partial \o Pending)')
               /\ pc'[d] = "fenceWait" => fenceCap' /\ fence'[d] # 0
    <3>1. CASE d = c
      BY <2>2, <2>3, <3>1 DEF Building
    <3>2. CASE d # c
      BY <2>1, <2>2, <2>4, <3>2 DEF CoverInv
    <3> QED  BY <3>1, <3>2
  <2> QED  BY <2>5 DEF CoverInv
<1>6. ASSUME DeviceIdle \/ UNCHANGED vars PROVE CoverInv'
  <2>1. Pending' = Pending
    BY <1>6, PendingKept
  <2>2. UNCHANGED << partial, fenceCap, fence, covered, pc >>
    BY <1>6 DEF DeviceIdle, vars, device
  <2> QED  BY <2>1, <2>2 DEF CoverInv, Settled
<1>7. ASSUME NEW c \in Client, CommitPublish(c) PROVE CoverInv'
  <2> DEFINE t == cmd[c]
             s == partial \o Pending
  <2>1. t \in Seq(Word) /\ t \in Command /\ Pending' = Pending \o t
    BY <1>7, PendingGrows
  <2>2. /\ UNCHANGED << partial, fenceCap, fence, cmd >>
        /\ pc[c] = "publish" /\ pc'[c] = "clear"
        /\ covered'[c] = (t[1][1] = SVGA_CMD_FENCE)
        /\ \A d \in Client : d # c => pc'[d] = pc[d] /\ covered'[d] = covered[d]
    BY <1>a, <1>7 DEF CommitPublish, Goto, device
  <2>3. s \in Seq(Word) /\ (partial \o Pending)' = s \o t
    <3>1. partial \o (Pending \o t) = (partial \o Pending) \o t
      <4> HIDE DEF t
      <4> QED  BY <1>a, <1>b, <2>1, ConcatAssociative
    <3> QED  BY <1>a, <1>b, <2>1, <2>2, <3>1, Joined
  <2>4. \A i \in 1..Len(t) : t[i][1] \in {c, SVGA_CMD_FENCE}
    BY <2>2 DEF OwnCommand, Building
  <2> HIDE DEF t, s
  <2>5. ASSUME NEW d \in Client, d # c
        PROVE  /\ NoneOf(d, s) => NoneOf(d, s \o t)
               /\ BeforeFence(d, fence[d], Pending) => BeforeFence(d, fence[d], Pending')
    <3>1. d # SVGA_CMD_FENCE
      BY ClientAssumption, Zenon
    <3>2. NoneOf(d, t)
      BY <2>4, <2>5, <3>1 DEF NoneOf
    <3> QED  BY <1>b, <2>1, <2>3, <3>2, NoneAppend, BeforeAppend
  <2>6. covered'[c] => Settled(c)'
    <3> SUFFICES ASSUME covered'[c] PROVE Settled(c)'
      OBVIOUS
    <3>1. HoldsFence(c)
      BY <2>2 DEF HoldsFence, Building, t
    <3>2. t = FenceCommand(fence[c]) /\ fence[c] \in Values
      BY <3>1 DEF FenceInv, FollowedBy, Values, t
    <3>3. BeforeFence(c, fence[c], Pending')
      BY <1>b, <2>1, <3>2, BeforeNew
    <3>4. fence[c] # 0
      BY <3>2 DEF Values
    <3> QED  BY <2>2, <3>3, <3>4 DEF Settled
  <2>7. ASSUME NEW d \in Client
        PROVE  /\ covered'[d] /\ pc'[d] \notin Building /\ (fenceCap' \/ fence'[d] = 0)
                    => Settled(d)'
               /\ pc'[d] = "synced" /\ covered'[d] => NoneOf(d, (partial \o Pending)')
               /\ pc'[d] = "fenceWait" => fenceCap' /\ fence'[d] # 0
    <3>1. CASE d = c
      BY <2>2, <2>6, <3>1
    <3>2. CASE d # c
      <4>1. Settled(d) => Settled(d)'
        BY <2>2, <2>3, <2>5, <3>2 DEF Settled, s
      <4>2. NoneOf(d, partial \o Pending) => NoneOf(d, (partial \o Pending)')
        BY <2>3, <2>5, <3>2 DEF s
      <4> QED  BY <2>2, <3>2, <4>1, <4>2 DEF CoverInv
    <3> QED  BY <3>1, <3>2
  <2> QED  BY <2>7 DEF CoverInv
<1>8. ASSUME DeviceRead PROVE CoverInv'
  <2> DEFINE w == ring[stop]
             p == partial
             q == Pending
             s == p \o q
  <2>1. /\ q # << >> /\ Pending' = Tail(q)
        /\ partial' = IF Last(w) THEN << >> ELSE Append(p, w)
        /\ UNCHANGED << fenceCap, fence, covered, pc >>
    BY <1>8, PendingRead DEF DeviceRead, IInv
  <2>2. q[1] = w /\ q \in Seq(Word) /\ p \in Seq(Word)
    <3>1. TypeOK /\ stop \in Min..(Max - 1)
      BY DEF IInv, TypeOK
    <3>2. \A i \in 1..Used : q[i] = ring[Wrap(stop + (i - 1))]
      BY <3>1, PendingSeq
    <3>3. Used # 0 /\ Used \in Nat
      <4>1. Used \in 0..(Size - 1)
        BY <3>1, UsedNat
      <4>2. Len(q) = Used
        BY <3>1, PendingSeq
      <4> QED  BY <1>b, <2>1, <4>1, <4>2
    <3>4. 1 \in 1..Used /\ Wrap(stop + (1 - 1)) = stop
      BY <3>1, <3>3 DEF Wrap
    <3> QED  BY <1>a, <1>b, <3>2, <3>4
  <2> DEFINE r == Tail(q)
  <2> HIDE DEF w
  <2>3. r \in Seq(Word) /\ Len(r) = Len(q) - 1 /\ \A i \in 1..Len(r) : r[i] = q[i + 1]
    <3> HIDE DEF q
    <3> QED  BY <2>1, <2>2, HeadTailProperties
  <2>4. (partial \o Pending)' = IF Last(w) THEN r ELSE s
    <3> HIDE DEF p, q
    <3>1. << >> \o r = r
      BY <2>3, ConcatEmptySeq
    <3>2. Append(p, w) \o r = p \o q
      BY <2>1, <2>2
    <3> QED  BY <2>1, <3>1, <3>2
  <2>5. ASSUME NEW d, NoneOf(d, s) PROVE NoneOf(d, r)
    <3> DEFINE m == Len(p)
    <3> HIDE DEF p, q, r
    <3>1. Len(s) = m + Len(q) /\ \A i \in 1..Len(q) : s[m + i] = q[i]
      BY <2>2, Joined
    <3>2. m \in Nat /\ Len(q) \in Nat
      BY <2>2
    <3> HIDE DEF s, m
    <3>3. ASSUME NEW i \in 1..Len(r) PROVE r[i][1] # d
      <4>1. i + 1 \in 1..Len(q) /\ r[i] = q[i + 1] /\ m + (i + 1) \in 1..Len(s)
        BY <2>3, <3>1, <3>2
      <4> QED  BY <2>5, <3>1, <4>1 DEF NoneOf
    <3> QED  BY <3>3 DEF NoneOf
  <2>6. ASSUME NEW d \in Client PROVE NoneOf(d, partial \o Pending)
                                        => NoneOf(d, (partial \o Pending)')
    BY <2>4, <2>5
  <2>7. ASSUME NEW d \in Client, BeforeFence(d, fence[d], q)
        PROVE  BeforeFence(d, fence[d], Pending') \/ NoneOf(d, (partial \o Pending)')
    <3>1. BeforeFence(d, fence[d], r) \/ (Last(q[1]) /\ NoneOf(d, r))
      <4> HIDE DEF q
      <4> QED  BY <2>1, <2>2, <2>7, BeforeRead
    <3> QED  BY <2>1, <2>2, <2>4, <3>1
  <2>8. ASSUME NEW d \in Client PROVE Settled(d) => Settled(d)'
    BY <2>1, <2>6, <2>7 DEF Settled
  <2> QED  BY <2>1, <2>6, <2>8 DEF CoverInv
<1> QED  BY <1>1, <1>2, <1>3, <1>4, <1>5, <1>7, <1>8, <1>6
         DEF Next, ClientStep, ClientCall, Moves

-----------------------------------------------------------------------------
FullInv == IInv /\ SyncInv

LEMMA FullInductive == Spec => []FullInv
<1>1. Init => SyncInv
  <2> SUFFICES ASSUME Init PROVE SyncInv
    OBVIOUS
  <2>1. Used = 0 /\ partial = << >> /\ nextFence = 1 /\ fenceReg = 0
    BY DEF Init, Used
  <2>2. Pending = << >>
    BY <2>1 DEF Pending
  <2>3. partial \o Pending = << >>
    BY <2>1, <2>2
  <2>4. StreamInv
    BY <2>1, <2>3 DEF StreamInv, Whole
  <2>5. ReservedInv /\ ClaimInv /\ DrainInv /\ OwnCommand
    BY DEF Init, ReservedInv, ClaimInv, DrainInv, OwnCommand, Building
  <2>6. FenceInv
    <3>1. Ordered(Pending, Reached, 0)
      BY <2>2 DEF Ordered, FencesIn
    <3>2. \A c \in Client : ~HoldsFence(c)
      BY DEF Init, HoldsFence, Building
    <3>3. Ahead(NextValue, Reached) = 0 + 1
      BY <2>1, FenceModBig DEF Ahead, NextValue, Reached
    <3> QED  BY <3>1, <3>2, <3>3 DEF FenceInv, FollowedBy
  <2>7. CoverInv
    <3>1. \A c : NoneOf(c, partial \o Pending)
      BY <2>3 DEF NoneOf
    <3> QED  BY <3>1 DEF Init, CoverInv, Settled
  <2> QED  BY <2>4, <2>5, <2>6, <2>7 DEF SyncInv
<1>2. IInv /\ IInv' /\ SyncInv /\ [Next]_vars => SyncInv'
  BY StreamStep, BookStep, FenceStep, OwnStep, CoverStep DEF SyncInv, Books
<1> QED  BY <1>1, <1>2, Inductive, PTL DEF Spec, FullInv

\* However a command was placed and however often the ring wrapped, NEXT_CMD never
\* exposes a command in part, out of order or mixed with an older one.
THEOREM WholeCommands == Spec => []DeviceSeesWholeCommands
<1>1. FullInv => DeviceSeesWholeCommands
  BY DEF FullInv, SyncInv, StreamInv, Whole, DeviceSeesWholeCommands
<1> QED  BY <1>1, FullInductive, PTL

\* SVGA_FIFO_RESERVED covers what is stored past NEXT_CMD until NEXT_CMD moves.
THEOREM ReservedCovers == Spec => []ReservedCoversContents
<1>1. FullInv => ReservedCoversContents
  BY DEF FullInv, SyncInv, ReservedInv, IInv, RingInv, ContentsInPlace,
         ReservedCoversContents
<1> QED  BY <1>1, FullInductive, PTL

\* SyncToFence and SyncFIFO return only when the device has executed the caller's
\* commands, for every number of fence values that is large enough for the ring, also
\* where the values wrap.
THEOREM SyncWaits == Spec => []SyncWaitsForCommands
<1>1. FullInv => SyncWaitsForCommands
  <2> SUFFICES ASSUME FullInv, NEW c \in Client
               PROVE  /\ pc[c] = "synced" /\ covered[c] =>
                           \A i \in 1..Len(partial \o Pending) :
                             (partial \o Pending)[i][1] # c
                      /\ pc[c] = "drained" => partial \o Pending = << >>
    BY DEF SyncWaitsForCommands
  <2>1. pc[c] = "synced" /\ covered[c] => NoneOf(c, partial \o Pending)
    BY DEF FullInv, SyncInv, CoverInv
  <2>2. pc[c] = "drained" => stop = nextCmd
    BY DEF FullInv, SyncInv, DrainInv
  <2>3. stop = nextCmd => partial \o Pending = << >>
    BY Drained DEF FullInv, SyncInv
  <2> QED  BY <2>1, <2>2, <2>3 DEF NoneOf
<1> QED  BY <1>1, FullInductive, PTL
=============================================================================
