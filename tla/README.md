# A TLA+ verification of CEsvga2

CEsvga2 is a set of macOS drivers for the VMware SVGA II virtual display
device: a framebuffer kext (`FB/`), an accelerator kext (`AC/`), and two plug-ins
that run in user programs (`GA/` for 2D, `GLD/` for OpenGL).  It has no tests and
no documentation besides its comments.  Much of what makes it hard is invisible
in one function: a ring shared with a device, memory the device reads and writes
by itself, fences that tell when it has finished, identifiers and video memory
handed to many clients, and flags that several kernel threads read and write
without a lock.

This directory models those parts in TLA+, checks them with TLC on small
instances, and proves the most important results with TLAPS for all sizes.
`PROJECT.json` lists the components, the runs, the source lines of every
definition, the hazards, the findings and the theorems.

    tlc -workers 2 -config MCSvgaFifo.cfg MCSvgaFifo     # one run
    tlapm SvgaFifoProofs.tla                             # one module of proofs


## 1. Inventory

### 1.1 The parts and how they interact

```
   user programs    GA/ (2D plug-in)      GLD/ (OpenGL plug-in)     tools
                        |                      |                      |
   AC/UC  user clients  Surface, 2DContext, GLContext, Device         | FB client
                        |          AC/GL  textures, tokens            |
   AC     Accel --- Allocator  IdPool  GMR tables  TransferBuffer     |
            |                                                         |
   FB     CEsvga2 (framebuffer: modes, refresh timer, cursor) --------+
            |
          SVGADevice (registers, command FIFO, fences, doorbell)
            |
          the virtual device: reads the FIFO in order, reads and writes memory
```

| Component | State | Operations | Interacts with |
|---|---|---|---|
| **Command FIFO** `FB/SVGADevice.cpp` | ring, `NEXT_CMD`, `STOP`, `RESERVED`, `FENCE`, bounce buffer, `m_next_fence` | `FIFOInit`, `FIFOReserve`, `FIFOCommit`, `InsertFence`, `SyncToFence`, `SyncFIFO`, `RingDoorBell`, `HasFencePassed` | every other part, under the framebuffer's `m_iolock`; the device, without one |
| **VRAM allocator** `AC/CEsvga2Allocator.cpp` | bit map, free lists inside the free memory | `Init`, `Release`, `Malloc`, `Realloc`, `Free`, `Check` | the accelerator, under its lock |
| **Bit maps** `AC/CEsvga2Allocator.cpp`, `AC/CEsvga2Accel.cpp` | arrays of bytes or words | `testAll`, `testAny`, `clearAll`, `clearCheck`, `find_bit_in_array32/64`, `mask_array64` | allocator, identifiers |
| **Identifiers** `AC/CEsvga2Accel.cpp` | four bit maps, two cursors, counters of unmanaged identifiers | `Alloc...ID`, `Free...ID` of surfaces, contexts, streams, memory regions | surfaces, contexts, transfer buffers |
| **Memory region tables** `AC/CEsvga2Accel.cpp` | helper pages with chained descriptors | `createGMR`, `destroyGMR` | the device, which reads the table |
| **Transfer buffers** `AC/VendorTransferBuffer.cpp` | `md`, `gmr_id`, `fence` | `prepare`, `sync`, `complete`, `discard` | surfaces, textures, command buffers |
| **Surfaces** `AC/UC/CEsvga2Surface.cpp` | backing, maps, locks, shape, scale, client memory, render target | locks, `surface_flush`, `set_shape...`, `set_scale`, copies, `attachGL`, `detachGL`, video | WindowServer, 2D and OpenGL contexts, allocator, FIFO |
| **Custom modes** `FB/CEsvga2.cpp` | `m_custom_switch`, `customMode`, the current mode, `m_intr`, `m_intr_enabled` | `CustomMode`, `setDisplayMode`, `setAttribute`, `RestoreAllModes`, the calls on the handler of connect changes | tools (through the FB client), WindowServer, IOFramebuffer |
| **Screen refresh** `FB/CEsvga2.cpp` | `m_accel_updates`, the refresh timer, traces | `useAccelUpdates`, `refreshTimerAction`, `setDisplayMode` | accelerator, framebuffer, timer thread |
| **Accelerator core** `AC/CEsvga2Accel.cpp` | master surface, auxiliary host surfaces, present tracker, lock counts | start, stop, flush commands, blits, `retainMasterSurface`, overlays | everything in `AC/` |
| **Textures** `AC/GL/CEsvga2Shared.cpp`, `AC/UC/CEsvga2Device.cpp` | handle table, texture list, the counts in memory shared with the task, links to AGP textures | `new_texture`, `new_agp_texture`, `new_agpref_texture`, `delete_texture`, page on and off | the OpenGL driver and the contexts of the task, under `m_shared_lock` or by atomic counting |
| **OpenGL contexts** `AC/UC/CEsvga2GLContext*.cpp`, `AC/GL/CEsvga2IPP.cpp` | command buffer, 21 bound textures, frame buffer descriptors, stream error | submit, bind, unbind, release, `CleanupApp`, token translation | textures, surfaces, FIFO |
| **2D context** `AC/UC/CEsvga22DContext.cpp` | the surface it holds, framebuffer lock count | set surface, lock and unlock memory, copies, swap | surfaces, `useAccelUpdates` |
| **Encoders** `AC/SVGA3D.cpp`, `AC/SVGAScreen.cpp` | none | one reserve, fill and commit per command | FIFO |
| **Plug-ins** `GA/`, `GLD/` | per-process surfaces | pack arguments, call the user clients | user clients |
| **Rest** | tables (modes, capabilities, shaders), stubs (DVD, OpenCL), logging, headers | | |

`AppleHeaders/` is third-party and `kmod/` holds binaries.

### 1.2 What is hard

* **The device runs concurrently.**  It reads the ring while a thread stores
  behind `NEXT_CMD`; it may go idle while a thread decides not to ring.
* **Register writes overtake the FIFO.**  `destroyGMR` takes effect at once,
  transfers that use the region may still be in the FIFO: only fences order them.
* **Failure in the middle.**  `prepare` takes an identifier, wires memory and
  defines a region, and each step may fail; `allocBacking` falls back from
  video memory to a kernel buffer.
* **State inside what was given away.**  The allocator's lists live in the free
  memory, so what an owner leaves in a chunk comes back to the allocator.
* **Boundaries.**  Ranges of bits inside a byte or on its edge, the end of the
  ring, fence numbers that wrap, the last entry of a helper page, full maps.
* **Flags without a lock.**  `m_custom_switch` and `m_accel_updates`.
* **Counts shared with user space.**  The driver, the tokens it has put into
  command buffers, the bindings of the contexts and the links between textures
  count in one word, mostly without a common lock; who takes it to 0 must delete
  the texture, and nobody else.
* **Long histories.**  A surface's shape, scale, backing, maps and attachments
  change in any order through calls of several clients.

`PROJECT.json` lists these as hazards, each at its line, with the properties
that catch it or the reason why none does.


## 2. Plan

| Step | Modules | State |
|---|---|---|
| 1 | `CommandStream` (abstract), `SvgaFifo`, proofs | done |
| 2 | `BitArray`, `BuddyAllocator`, proofs of the latter | done |
| 3 | `IdPool`, `IdMaps` (the pool over the bit maps), proofs of the pool | done |
| 4 | `GmrDescriptors`, `TransferBuffer`, proofs of both | done |
| 5 | `Surface`, `WindowGrab`, proofs of the former | done |
| 6 | `CustomMode`, `RefreshTimer`, proofs of both | done |
| 7 | `Textures`: textures, device user client, command buffers and bindings of the contexts, proofs | done |
| 8 | Page-off and page-on of textures; the host surfaces behind a flush and the master surface | |

Abstract specifications: `CommandStream` (done) is what the models of transfers
rely on; an abstract pool (a set of identifiers) for `IdPool` and an abstract
heap for the allocator are worth stating when another module uses them.


## 3. The models

Every definition that models code is listed in `PROJECT.json` under `map` with
its lines.  Definitions keep the names of the source where TLA+ allows it.
Definitions whose comment begins with "Mutant" are plausible mistakes; replacing
the definition that follows by one of them must break the property named in
`mutants`, which shows that the property depends on that code.

### 3.1 `SvgaFifo` and `CommandStream`

*State.*  The ring as a function from offsets to dwords, the FIFO registers,
`m_reserved_size`, `m_using_bounce_buffer`, the bounce buffer, `m_next_fence`,
the owner of `m_iolock`, and for each thread its place in the code, the command
it builds and the fence it keeps.  A dword is the thread that wrote it, the
length of its command, its place in it and a fence value: enough to tell a
whole command from parts of two.

*Actions.*  One per access that the device can see: claim and wait in
`FIFOReserve`, the fill, the three ways of `FIFOCommit` (in place; bounce buffer
copied, then published; the registers reset afterwards), `InsertFence`,
`SyncToFence` with its first test, `RingDoorBell` and the polling of
`SVGA_REG_BUSY`, `SyncFIFO`.  The device reads one dword at a time, executes
a command when it has all of it, and goes idle.  It is external code, modelled
from `ceinclude/svga_reg.h`.

*Abstractions.*  Sizes are in dwords.  `FIFOInit` refuses a device without
`SVGA_FIFO_CAP_RESERVE`, so `reservable` is always true.  Whether the device has
fences is chosen in the initial state.

`CommandStream` is what the FIFO promises: a bounded queue to which whole
commands are appended and from which the device takes dwords in order.
`SvgaFifo` implements it, with the dwords between `STOP` and `NEXT_CMD` for the
queue.

### 3.2 `BitArray` and `BuddyAllocator`

`BitArray` has the range operations as operators on arrays of words: leading
bits, whole words, trailing bits.  `memAll` is modelled by what `repe scasb`
and the count it leaves really say.  It has no state of its own: each operation
is compared with what it should do to the set of bits, on the arrays that
`IdMaps` reaches (section 3.3).

`BuddyAllocator` has the allocator with the words it keeps inside free memory.
What an owner does with a chunk is one of three: leave everything as it was,
overwrite it, or store what looks like a free chunk.  The allocator must work
in all three, and the build (`FRAGILE`) clears nothing.  Its bit map is a set
here, since `BitArray` covers the byte operations.  The loops of `toFree` and of
`Free` are one operator for a turn (`ToFreeTurn`, `MergeTurn`) and a function
from the number of turns to what they have done; both stop changing it when
the code leaves the loop, within the number of turns at which it is read.

### 3.3 `IdPool` and `IdMaps`

The four maps, with their cursors and the identifiers beyond the map.  All
calls hold the accelerator lock, so a call is a step.  The kinds share nothing,
so that a behaviour is about one of them, chosen in the initial state.

`IdMaps` is the pool with its map as the array of words it is: for every
state the pool can be in, the bit operations on that array are exact, so that
what `IdPool` says of a set holds of the words.

### 3.4 `GmrDescriptors`

Both passes of `createGMR` over the physical segments, the helper that need not
be physically contiguous, the link entries, the refusals, and the device that
follows the table.  An entry is a step.

### 3.5 `TransferBuffer`

`prepare`, `complete`, `sync`, `discard` and the transfers of the owners
(`surfaceDMA2D` and the like, some of which put two commands in the FIFO before
they take a fence).  A call under a lock is a step; between two of them other
threads run.  Transfers are numbered in FIFO order, which `CommandStream`
justifies.  The region table of the device changes at once.

### 3.6 `Surface` and `WindowGrab`

The life of a surface's backing: video memory, kernel buffer or client memory,
the two maps, the three locks, the shape with its early returns, the scale,
flush and copies, the attachment of OpenGL contexts, and closing.  A call is a
step, or two if it waits for a transfer of its own, while the device runs on.
Sizes are pages; rectangles and clipping are data and left out.

*Video surfaces.*  `context_set_surface` makes a surface a video surface or an
ordinary one.  On a video surface `context_lock_memory` ends with
`setup_trick_buffer`: the WindowServer's map, `map0`, is released and replaced by
one of a black buffer (`Trick`), or by none when the mapping fails, whether or not
the WindowServer holds a lock.  The two tasks see different memory on purpose, as
the comment above `setup_trick_buffer` explains, and nothing takes the black buffer
away when the surface leaves video mode.  So `MapsMatchBacking` does not say that
`map0` is the backing: it says that a map is never one of memory the surface gave
up, and that the black buffer is seen only on a surface that has been a video
surface (`wasVideo`).  Nor does the holder of a lock keep its map: on a video surface
the black buffer replaces it, and on every surface a growth of the source drops it,
which the comment in `copy_framebuffer_region_to_self` takes for the client's fault.
`surface_flush_video` and `videoReshape` put commands of the overlay into the FIFO and
note their fences in the backing.

*Flush without a lock.*  `surface_flush` never grows the backing, and a flush between
a growing `set_shape` and the next lock may read beyond its end.
`BackingHoldsSource` starts with a lock and ends with the next change of the scale
(`fitted`); the case outside is a hazard without a property.

`WindowGrab` is the one flag that should let a second write lock through; it
has the options as sets of bits, and the guard of
`set_shape_backing_length_ext` before the flag.

### 3.7 `CustomMode` and `RefreshTimer`

`CustomMode` takes every access to `m_custom_switch` and every operation on the
kernel's wait queue as a step: two tools, the WindowServer, and any program that
may release the display.  The mode table has one entry, and
`TryDetectCurrentDisplayMode` answers with a mode that is not in it; both are in
the model, since they decide which branches are ever taken.  The version of the
system decides which value ends a request and is chosen in the initial state.

`EmitConnectChangedEvent` first sleeps until there is a handler
(`WaitForHandler`), then sends the event if the handler is enabled at that moment
and drops it otherwise.  The handler is IOFramebuffer's, which may register,
enable, disable and unregister it at any time (`registerForInterruptType`,
`setInterruptState`, `unregisterInterrupt`).  `lost` notes that the last event was
dropped.  A tool whose event was dropped waits for ever unless another tool's event
goes through; the comment on the wait (`FB/CEsvga2.cpp:855`) says itself that it
"should be time-bounded".  `RequestEnds` and `ScreenSettles` say that nothing else makes
a tool wait for ever or leaves the screen with an old size.

`RefreshTimer` takes every read of `m_accel_updates` and every call that
schedules, cancels or fires the timer as a step of one of three threads.

### 3.8 `Textures`

The textures of one task.  A texture is its type, the AGP texture it links to,
the address of its pixels and its count; `client` is what the driver has of it (a
pointer, or the call of `delete_texture` it is about to make), `txs` the bound
textures of each context, `buffer` the tokens the driver has put into its command
buffer.  The word of references counts `UNIT` (0x10000) for the driver and
for a token and 1 for a binding and a link, as in the code.  Nothing in the model
adds up references: `References` counts the places that name a texture
(tokens in `InBuffers`, slots in `InSlots`, textures in `Links`), and
`CountsExact` compares it with the word.

*Actions.*  `new_texture`, `new_linked_texture` (OOB and AGPREF) with the search
for an AGP texture of the same memory, every failure and what is taken back after
it, and `device_delete_texture`; the driver's `Keep`, `GiveUp` and `PutToken`; a
context's `submit_command_buffer`, one step for each token, the failure that ends
a buffer, and `CleanupApp`, of which each binding is dropped by a step of its own
since the lock is only taken afterwards; closing the device.  A token is one of
four kinds by what it does to counts and bindings: bind a group of slots, release,
clear a slot, unbind a frame buffer.

*External.*  What Apple's part of the driver puts into a command buffer is not in
the repository: `PutToken` adds a token with a reference to each texture it names,
which is what `process_token_...` takes it for.  `Remap` is the task's
memory, as `withPersistentMemoryDescriptor` sees it.

*Abstractions.*  Pixels, formats, host surfaces and page bits are data.  The
token `VertexBuffer` binds without a reference; the comment at
`AC/UC/CEsvga2GLContext2.cpp:1775` says that the driver never sends it, and it is
left out.


## 4. The runs

| Run | What it asks | Bounds |
|---|---|---|
| `fifo` | Is every command read whole and in order (`DeviceSeesWholeCommands`, `ImplementsStream`)?  Does `RESERVED` cover what is stored past `NEXT_CMD` (`ReservedCoversContents`)?  Has the device executed what a sync waits for (`SyncWaitsForCommands`)? | two threads; a ring of 5 dwords; commands of 3 dwords, and of 5, which the bounce buffer of 4 refuses; 6 fence values |
| `fifo_waits` | Do waits end, and is the doorbell served (`WaitsEnd`, `DoorbellServed`)? | one thread; a ring of 4 dwords; commands of 1 and 3 |
| `allocator` | Do the lists stay sound whatever owners write (`CheckSucceeds`)?  Do chunks partition the pool (`ChunksPartitionPool`), are buddies merged (`BuddiesMerged`), is memory refused only when there is none (`RefusedOnlyWhenFull`)?  Do owners keep their data, also through a `Realloc` that moves a chunk or is refused (`DataKept`)? | 5 blocks, 3 sizes, requests of 1, 2, 3 and 5 blocks |
| `test_all_last_byte` | Is `testAll` exact?  **No**, see the findings | as `identifiers` |
| `identifiers` | Is no identifier held twice (`NoSharedId`), lost (`MaskMatchesHeld`) or overlooked (`NoIdOverlooked`)?  Is the first clear bit of the map found (`SearchExact`), and do the operations on ranges of bits touch exactly their range and raise no false alarm (`RangesExact`)? | maps of 3 words of 4 bits for surfaces and regions and of 1 word for contexts and streams, up to 2 unmanaged identifiers, a device with half of the regions |
| `gmr_table` | Does the device read exactly the pages of the memory (`RegionIsMemory`), from a table inside the helper and within the limit of the device (`TableWithinLimits`)? | up to 7 segments, up to 3 helper pages of 2 entries and a link, every break between them |
| `transfers` | Do transfers find their region and wired memory (`TransferSafe`)?  Are identifiers and wired memory accounted for when steps fail (`IdsAccounted`, `NothingLeftWired`)?  Does no thread touch another's region (`RegionsKeptApart`)?  Do calls end (`CallsEnd`)? | three buffers, two identifiers, two memories, five transfers |
| `surface` | Does the device stay out of memory the surface gave up (`TransferSafe`)?  Do maps, sizes, client memory and render target stay consistent with the backing (`MapsMatchBacking`, `BackingHoldsSource`, `ClientWrapCurrent`, `TargetKept`)?  Is a writer let in only when the device has done its transfers (`WriterWaits`)? | two video chunks, one kernel buffer, two client memories, two contexts, sources of up to 2 pages, two transfers or overlay commands |
| `window_grab` | Does Window Grab get its second lock?  **No**, see the findings | two surfaces |
| `custom_mode` | Is no wakeup lost (`NoLostWakeup`), does every request end (`RequestEnds`) and the screen get the size asked for last (`ScreenSettles`), unless the last event stays dropped or the handler stays missing? | two tools, two sizes, three requests, two changes that disable, enable or unregister the handler |
| `refresh_timer` | Is the timer never lost (`TimerAlive`), is drawing shown (`DrawingShown`), does the timer stop (`TimerStops`)? | four switches, three mode changes |
| `textures` | Is a texture there as long as anything refers to it (`InUseIsLive`), is its count the sum of these references (`CountsExact`), is it deleted by exactly one of those who may have dropped the last (`OneDeletes`)?  Is a new texture never linked to memory that was replaced (`LinkCurrent`)? | three handles, types STD and AGPREF, one address, two contexts with two slots each, one waiting token, two bindings |

### Why these bounds are enough to be interesting

* A ring of 5 dwords with commands of 2 (fences) and 3 dwords puts a command on
  every offset, crosses the end in every way, and fills the ring; 6 fence values
  wrap within a few fences.  The ratio `FenceMod / 2 > Size / 2` is the one
  thing the code needs of 2^32.
* 5 blocks leave a pool that is not a power of two, and three sizes merge twice.
* 3 words have a first, an inner and a last one; ranges start and end in each.
* 3 buffers for 2 identifiers make a `prepare` fail while another completes.
* 7 segments over pages of 2 entries need 4 helper pages, one more than
  the device's limit of 9 entries allows, so the refusal happens too.
* 2 chunks and 1 kernel buffer let reallocation move, fail and fall back.
* 3 handles hold an AGP texture, its reference and one more, or two references to
  one AGP texture; two contexts make a drop race a token, and a slot of each
  group is enough for a texture bound twice.  One token waits at a time, but the
  next is added while the first is processed, and a failed buffer keeps its own.
* 3 requests of 2 tools let a value be overwritten before its reader looks, and 2
  changes of the handler drop an event before, between and after events that are
  sent.
* 2 transfers let a flush follow one that is not done, so that the second fence has to
  cover the first; with three, which takes four minutes, the run passes as well.

The proofs of section 6 remove the bounds for nine of the modules.

### Findings

1. **`testAll` overlooks the last whole byte** (`AC/CEsvga2Allocator.cpp:111`).
   `memAll` decides by the count that `repe scasb` leaves; the count is 0 also
   when only the last byte differs.  The comments promise "Checks if all bits in
   a range are 1".  `clearCheck` and `Release` use it as a sanity check;
   the other direction holds (`NoFalseAlarm`, a part of `RangesExact`), so nothing valid is refused.
2. **The flag for Window Grab is never set** (`AC/UC/CEsvga2Surface.cpp:1736`).
   The options 0x5 lack `FrameSync`, so the call returns before the test for
   0x5 at line 1813.  The comment says that the code is there "to prevent a
   deadlock in the WindowServer during Window Grab".


## 5. Fairness

* `SvgaFifo`: weak fairness of a thread inside a function (a kernel thread that
  polls is scheduled), and of the device while `SVGA_REG_BUSY` is set, which a
  write to `SVGA_REG_SYNC` sets.  A thread need not enter a function, and the
  device need not read without having been woken.
* `TransferBuffer`: weak fairness of calls that have begun and of the device.
  That the device goes on is what `fifo_waits` shows of the FIFO below, since a
  wait rings the doorbell.  Buffers need not transfer or be completed.
* `CustomMode`: weak fairness of the tool inside a call and of the WindowServer,
  which handles the events it gets; nothing obliges a tool to ask, nor IOFramebuffer
  to register or enable its handler.  The two liveness properties therefore have the
  premise that the driver's last event is, again and again, not a dropped one.
* `RefreshTimer`: weak fairness of the timer thread, and of a thread inside
  `setDisplayMode` or `useAccelUpdates`.
* `GmrDescriptors`: `createGMR` and the device's read run on; only safety is
  checked.
* `BuddyAllocator`, `IdPool`, `IdMaps`, `Surface`, `WindowGrab`, `Textures`: no
  fairness, safety only.

Deadlock is checked except in `gmr_table` (a behaviour ends with the table), in
`transfers` (the bound on transfers), in `surface` (a closed surface) and in
`textures` (everything is closed).


## 6. Proofs

All are checked by `tlapm`; nothing is assumed besides the named `ASSUME`s,
which TLC evaluates on every run.

### `SvgaFifoProofs`, for every ring, bounce buffer, set of lengths and threads

Assumptions: the ring is larger than the bounce buffer and the bounce buffer
holds a fence (`RingAssumption`); half of the fence values exceeds the fences
that fit in the ring (`FenceAssumption`).

`TypeOK` is not inductive: that `NEXT_CMD` stays in the ring depends on the
length of the command in hand.  The invariant is `TypeOK /\ RingInv`: only the
owner of the lock is in a call (`LockExcludes`); it has a command of a length
that was granted (`CommandInHand`); between `FIFOReserve` and the publication
the command fits with a dword to spare, whatever the device has read meanwhile
(`RoomForCommand`); and what is about to be published is in the ring or in the
bounce buffer (`ContentsInPlace`).

* `TypeCorrect`, `RingSafe`: the two parts of the invariant.
* `Refinement`: `Spec => ImplementsStream`.  A store past `NEXT_CMD` does not
  change the dwords between `STOP` and `NEXT_CMD` (`PendingStored`, from
  `RoomForCommand`); moving `NEXT_CMD` appends the command
  (`PendingPublished`, from `ContentsInPlace`); a read removes the first dword
  (`PendingRead`).

What a thread waits for needs a second invariant, `SyncInv`, on top of the first.
It says of the dwords that the device has not read that they are whole commands
(`StreamInv`); of `SVGA_FIFO_RESERVED` that it is the length of the command in
hand (`ReservedInv`); of a fence that a thread waits for that its value was
given out (`ClaimInv`); of the fences in the ring that they carry, in order, exactly the values
that follow the one in the register up to the last one given out (`FenceInv`);
and of a thread that has a fence that its unread commands come before it
(`CoverInv`).  `FenceInv` is where wrap-around is settled: every unread fence
takes two dwords of the ring, so there are fewer of them than half of the
values (`FenceAssumption`), and the signed difference that `HasFencePassed`
computes tells a passed fence from an unread one, however long a thread was
held up.  It also shows that a fence is never refused (`FenceGranted`).

* `WholeCommands`, `ReservedCovers`, `SyncWaits`.  The last one needs that no
  thread is taken for the mark of a fence (`ClientAssumption`).

### `IdPoolProofs`, for every number of words and bits

The invariant adds `CursorInv`: the words before the cursor are full, and the
unmanaged identifiers that are held are below the counter.  Without it a
search that starts at the cursor might overlook a bit.

* `NoIdTwice`: no identifier is handed out while it is held.
* `NoneOverlooked`: if the search fails, every identifier is in use.
* `MaskIsHeld`: the map is exactly what is held, and what the device does not have
  is never held.
* `TypeCorrect`.

### `TransferBufferProofs`, for every number of buffers, identifiers, transfers

The invariant `IInv` ties a buffer's identifier to the region table between the
end of `prepare` and `destroyGMR` (`IdsInv`, `TableInv`), and every pending
transfer to a buffer whose fence covers it, or which is about to take the fence
(`PendingInv`).  One lemma per step.

* `TransfersAreSafe`, `IdentifiersAccounted`, `NothingLeft`, `KeptApart`, the
  last of which is an action property.

### `FramebufferProofs`: the refresh timer, for any number of switches and mode changes

`TimerAlive` needs `CancelsWhenOn`: the thread that is about to cancel the
timer has set the flag.  Then every cancel with the flag clear is followed by
a schedule in the same thread.

* `RefreshInductive`, `TimerNeverLost`.

### `FramebufferProofs`: custom modes, for any number of tools, sizes, requests and changes of the handler

`NoLostWakeup` is inductive with `TypeOK`: every write of the answer is
followed, in the thread that wrote, by a wake-up, and a thread that queues
itself after the write looks again before it blocks.

* `CustomModeTypes`, `CustomModeNoLostWakeup`.

### `BuddyAllocatorProofs`, for every pool, number of sizes, requests and content

Assumptions: the reserved part at the start of the pool is one chunk of the
largest size (`PoolAssumption`), which is what `setupAllocator` computes; the pool
itself need not be a power of two.

None of the properties is inductive alone: that `Free` merges depends on trailers
and links that it reads from the memory, these are right because the chunks do not
overlap, and that depends on what was merged.  The invariant is
`IInv == \E U \in Kept : Sound(pool, live, FreeChunks, U)`, where `Sound` says that

* chunks in use, free chunks and the part `U` that was never released are disjoint,
  lie on boundaries of their size and are the whole pool (`Split`);
* in the released memory the bit map has exactly the last blocks of the chunks in
  use, so the walk of `BuddyAllocSize` finds the size of a chunk;
* each list is a doubly linked list of exactly the free chunks of its size, with
  headers and trailers in place (`Listed`);
* no two free chunks are buddies (`NoBuddies`), and `freeBytes` is their size.

TLC checked `IInv` on the instance of the run before it was proved.  Inside a call
the pool has a chunk that is neither in use nor free (`Hole`): `Malloc` makes it
from the head of a list, `Free` from a chunk in use, each turn of the merging
loop doubles it (`MergeTurn`), and `toFree` or `makeFree` fill it.  What decides whether
the buddy may be merged is the word at its end.  The proof shows that if the bit
there is clear, a free chunk inside the buddy ends there, so that the word is its
trailer: data of an owner is never taken for one, and the chunk is the buddy itself
just when the trailer has its size.  A list is the least set that its head and
the links generate, which is what `OnList` is; powers of two are numbers of
subsets, which gives their sums without an induction over exponents.

`DataKept` is about what a call writes, and follows from `IInv` with a frame
argument beside the proof that `IInv` is kept: `toFree` writes only into free
chunks and the run it frees, taking a chunk off its list writes only into free
chunks, and each turn of a loop keeps this.  `Realloc` to a larger chunk copies
while both chunks are in use, so `Free` of the old one leaves the copy alone.

* `Inductive`, `AllocatorTypes`.
* `CheckAlwaysSucceeds`, `PoolAlwaysPartitioned`, `BuddiesAlwaysMerged`,
  `RefusesOnlyWhenFull`, `DataAlwaysKept`: the five invariants of the run.
* `TestsNeverFail`: the tests that answer `kIOReturnInternalError` are never taken:
  `Free` of a chunk in use succeeds, and `Malloc` and `Realloc` succeed or are refused for
  lack of room.

### `SurfaceProofs`, for every set of sizes, memories, locks and contexts

The invariant has `TypeOK` and seven parts.  `WellFormed`: the backing has one kind
of memory at a time, and its maps are maps of it, or of the black buffer.  `Tricked`:
the latter only on a surface that has been a video surface.  `Covered`: every
transfer that the device has not executed goes to the memory of the backing, and
the fence of the backing, or the one that the thread is waiting for, comes after it.
This carries `TransferSafe`: memory is given back only after a wait for that
fence, and after the wait nothing is pending.  The others are `Fits` after a lock
has provided the backing, `ClientWrapCurrent`, `TargetKept`, and that finitely many contexts are
attached, without which the count would mean nothing.  The calls that change the
backing are operators on a record, so there is one lemma per
operator (what it does to `WellFormed`, to the memory, to the maps) and then one
per action.

* `SurfaceTransferSafe`, `SurfaceMapsMatch`, `SurfaceHoldsSource`,
  `SurfaceWrapCurrent`, `SurfaceTargetKept`, `SurfaceTypes`.
* `SurfaceWriterWaits`, an action property.

### `GmrDescriptorsProofs`, for every page size, helper and memory

The invariant follows `createGMR` and then the device through the table.  `Place`:
slot and page are the quotient and the remainder of the number of segments
written.  `Links`: the rest of the physical run of helper pages that
is being used is contiguous.  `TableIs`: each slot holds the descriptor of its
segment, each last slot the link to the next page or nothing.  `Taken`: where
the device is in the table, it has taken the pages of just the segments before.

* `GmrTableWithinLimits`: the count of reads is the number of segments plus
  links, which the check of `MAX_DESCRIPTOR_LENGTH` has bounded.
* `GmrRegionIsMemory`: at the end the pages are those of the memory, in order.
* `GmrTypes`.

The last one needs what flattening a sequence gives for every length, and that a run without
breaks has consecutive page numbers.  The induction theorems of the library take an
operator, which the provers cannot instantiate; `SetInduction`, derived from the
least-element theorem, states the same for a set of numbers, and a property becomes the set of
those that have it.

### `TexturesProofs`, for every number of handles, contexts, slots and waiting tokens

No property of the module is inductive alone: a count can only be taken down if the
texture is there, it is there because nobody deleted it, and nobody did because
the count was exact.  The invariant `IInv` is therefore one account of the table
of textures (`Account`), kept while the shared object is there: a free handle is not used
(`DeadInv`); a count is the references plus the links (`ExactInv`); a texture
of count 0 is in the hands of one deleter and any other of none (`OneInv`);
AGP textures are only linked to (`AgpInv`), and links go to AGP textures
(`LinkInv`).  The last two make an AGP texture go exactly with its last link.
`Account` also takes the set of textures that are to be deleted within the step, so that
each action is a few operations on tables, with a lemma for each: counting
(`Recounted`), deleting (`Deleted`), making (`Created`) and linking (`CreatedLinked`).
The rest is what an action does to the sets that are counted: taking
a token is a bijection that moves the others up (`TokenTaken`), and that the sets
are finite is carried by the invariant, since the buffers have no bound.

* `TexturesCountsExact`, `TexturesInUseIsLive`, `TexturesOneDeletes`, `TexturesTypes`.
* `TexturesLinkCurrent`, an action property.

Of `UNIT` the proofs need only that it is positive; that it exceeds the number of
bindings and links (`TexturesAssumption`) keeps the two halves of the word apart.

### Only model-checked

* Liveness (`WaitsEnd`, `DoorbellServed`, `CallsEnd`, `RequestEnds`,
  `ScreenSettles`, `DrawingShown`, `TimerStops`): out of the prover's reach.
* `SearchExact` and `RangesExact`: `IdMaps` reaches `BitArray`, which uses
  recursive operators and the module `Bitwise`, for which there are no proofs.
* The two runs that expect a violation, where a counterexample is the result.


## 7. Assumptions, and what is not modelled

* Calls on one surface do not overlap, nor do calls of `useAccelUpdates`.  No
  lock in the code enforces this; overlapping calls race on many members.  The code
  itself expects some overlap: `attachGL` and `detachGL` count atomically because
  contexts run at once.  `TargetKept` is about whole calls in any order, not about
  two of them at once.
* There is a WindowServer that handles the events it gets.  That the driver sends
  them is not assumed.
* The test of `m_intr_enabled` and the call of the handler are one step; an
  `unregisterInterrupt` in between makes the driver call through a null pointer.
* The ring is larger than the bounce buffer.  `FIFOReserve` accepts a command of
  the length of the ring, which could never be placed.
* The device follows `ceinclude/svga_reg.h`.
* A counter of unmanaged identifiers does not wrap (2^32 surfaces).
* `VRAMRealloc` may answer NULL, after which the surface has lost its old chunk:
  the model has this outcome, and no property forbids the loss.

* The driver makes one call of a context at a time, and its tokens carry the
  references that the kernel takes back.

Not modelled:

* `start` and `stop` of the drivers, power management, cursor images, EDID and
  gamma (I/O and copies), `createGMR2` and `remapGMR2` (no caller), the DVD and
  OpenCL stubs, constant tables, logging.
* The layout of 3D and screen commands, the translation of tokens to them
  (`AC/GL/CEsvga2IPP.cpp`), vertex arrays and clipping: data, one command out for
  one in.
* What an enabled overlay reads, and its stream.  The overlay is only flushed, so its
  registers go on naming a backing that may have been replaced; with these reads
  `TransferSafe` would hold only while no overlay is enabled, and no comment says what
  should happen.  `MapsMatchBacking` does not depend on them.
* The master surface.  Its count is atomic but making and destroying it are not: a
  retain between the last release and its `destroyMasterSurface` loses the new
  surface.  No useful property holds, and no comment says who may call at once.
* Page-off and page-on of textures.  Which images have pixels in the client is
  decided by the driver's part that is not in the repository.
* The surface a 2D or OpenGL context holds: one surface is modelled, with the
  contexts that attach to it.
