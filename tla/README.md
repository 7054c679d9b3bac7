# Verification of the WinCE emulator

The emulator runs one Windows CE process: a MIPS CPU (Unicorn) executes the
guest's code, and a synthetic kernel answers its calls into `coredll.dll` and
the other system libraries. This directory holds TLA+ models of the kernel's
stateful parts, TLC configurations that check them on small instances, and
proofs, checked by TLAPS, of what matters most.

Paths below are relative to the repository's `src/` directory.

- [The system](#the-system)
- [Inventory](#inventory)
- [The models](#the-models)
- [What is checked](#what-is-checked)
- [Fairness](#fairness)
- [What is proved](#what-is-proved)
- [Disagreements with the documents](#disagreements-with-the-documents)
- [What is not modelled](#what-is-not-modelled)
- [Plan](#plan)
- [Running the checks](#running-the-checks)

## The system

**One host thread runs the guest.** Guest threads are cooperative: there is one
set of CPU registers, and a guest thread that is not running is a saved set of
registers in its `GuestThreadState`. The guest's main thread has no such record;
it is pseudo-handle `0xfffffffe`, it runs when `activeGuestThread` is 0, and its
registers are saved in `mainThreadContext`.

**A call is a hook.** Each export is a stub `jr ra; nop` at `0x70000000` and up.
Unicorn calls `SyntheticDllRuntime::dispatch` before the stub runs; the handler
reads the argument registers, changes the kernel's state, writes the result to
`v0` and lets the stub return, or it changes the program counter: to a window
procedure, to another thread, or to stopping the slice. A handler is atomic for
the guest. What follows from it is not: a window procedure is guest code, and
the handler that called it goes on in a *continuation stub*, which takes what it
needs from the end of a list (`pendingMessageTransfers`, `pendingCreateWindows`,
`pendingBlockingApis`, ...) shared by all threads.

**The guest runs in slices.** `runHostMessageLoopUntilClosed`
(`src/coredll_window_runtime.cpp:2507`) runs the guest for a bounded number of
instructions, with a watchdog for time; between slices it takes host and remote
input, fires timers, looks for waits that are over, and chooses who runs next.

**Others act at the same time**: the threads of the remote server (a mutex
guards its queues), the audio backend's thread (a mutex guards its streams), and
other emulator processes, which share windows, messages and named mappings
through files.

So the hard behaviours are not data races, apart from those two mutexes. They are
*interleavings of calls*: a thread is switched away in the middle of a window
procedure, a window is destroyed while messages for it are queued, an event is
set between a wait's test and its parking, a clock runs out while the object it
bounds is signalled, and one list serves threads that are in the middle of
different things.

## Inventory

For each component: its state, what changes it, whom it talks to, what is hard,
and what makes it correct.

| Component | State | Operations | Interacts with | Hard | Correct when |
|---|---|---|---|---|---|
| Guest heap (`ce_memory.h`, `coredll_memory*.cpp`) | live and free blocks, bump pointer, heap handles | `Local*`, `Heap*`, `Virtual*`, `malloc`, `new`, `realloc` | everything that hands out guest memory | long mixes of split, reuse, double free; the heap's end | blocks are disjoint, on the grid, fit their request; no byte is lost |
| Kernel objects and waits (`ce_kernel.*`, `coredll_thread*.cpp`) | handles, threads, events, parked waits, the main thread's wait | create, resume, end; set, reset, pulse; wait for one, any, all; sleep; the refresh loop | scheduler (whom to run), queues (message waits), clock | set/pulse/close against parking; deadlines left over; four places that consume an event | one runner; one set ends one wait; no lost wake-up; waits end |
| Windows and messages (`ce_gwe.h`, `coredll_window_runtime.cpp`, `coredll_named_dispatch.cpp`) | the queue and its per-owner lanes, windows, z-order, timers, pointer state | create, destroy, show, invalidate, post, send, timers, host input, `GetMessage` | kernel (wake-ups), scheduler (whose message is oldest) | two representations of one queue; windows that die with messages queued; insertion out of order | lanes mirror the queue; a touch stays behind its window's creation; repaints are single |
| Scheduler and continuations (`coredll_thread_runtime.cpp`, `synthetic_dll.cpp`, host loop) | CPU registers, saved contexts, run states, continuation lists | switch, yield, park, finish; enter and return from window procedures; slices | all calls that park or call the guest | who the registers belong to; whose entry is last | contexts are kept apart; procedures return to their caller; a sender waits exactly while its message is on its way |
| Shared mappings (`coredll_mapping.cpp`, `ce_ipc.h`) | mappings, views with a shadow copy and a version; backing and version files | create, map, flush, unmap, synchronise after calls | other processes through files | read-modify-write of the version; whole views written back | no update is lost; views converge |
| Serial devices (`ce_device.*`, `coredll_comm.cpp`) | ports, modes, time-outs, pending reads | open, configure, read, purge, close | remote server (bytes), waits | time-out against late bytes; close against a pending read | the port is a line with waiting readers; a read with a time-out ends |
| Audio (`ce_audio.*`, `coredll_host_audio.cpp`) | streams of buffers on a timeline, header flags, the callback event, backend chunks, cached host devices; the audio tap | open, write, unprepare, reset, close, complete; cut a slice | backend thread, waits (events), audio clients | reset, close and unreadable buffers against completion; a shared cursor | flags, event and devices fit the buffers; the tap's slices are continuous |
| Remote endpoint (`remote_server.cpp`, `ce_remote.h`) | queues of touches, keys, serial bytes, audio chunks; clients; pause | HTTP requests; drained by the host loop | queues, serial, audio | server threads against the host loop; bounded queues | nothing is lost or duplicated but what a bound drops |
| Cross-process broker (`cross_process_broker.*`) | imported windows, message file position | publish, import, poll | other processes through files | polling by size and time stamp | each message is delivered once |
| Critical sections, TLS, interlocked (`coredll_sync.cpp`) | depth of each section | enter, leave | scheduler | a switch inside a section | mutual exclusion |
| Registry, filesystem | keys; file handles | API calls, persistence | host files | partial saves | - |
| Graphics (`ce_mgdi.h`, `coredll_bitmap.cpp`, `coredll_paint.cpp`, window stacking) | framebuffer, backings of popups, published regions; two tables of device contexts, bitmaps, tools, regions | show, hide, raise, destroy, draw, repaint; create, select, delete, close | windows (stacking, clips), heap (bits) | one framebuffer for all windows; pictures put back later; objects kept twice | repainting gives the stacked picture; a popup leaves no trace; the two tables agree |
| C runtime, strings, math, resources, rectangles | none | pure functions on guest memory | - | boundaries | - |
| Winsock, OLE, common controls, loader, diagnostics | little | shims, start-up, logging | host | - | - |

`PROJECT.json` lists every component with its status, and under `hazards` the
places, by line, where the hard behaviours bite.

## The models

### GuestHeap

`heap.live` and `heap.free` are `CeMemory`'s metadata, `heap.next` the bump
pointer. `Allocate` and `Release` are `SyntheticDllRuntime::allocate` and
`releaseAllocation`: round up to 16, reuse the best fit (of blocks of that size
any; the code takes the one released first), split when 32 bytes or more are left
over, or bump. The actions are the exports. Contents are left out. A request may
have any 32-bit size, as the code refuses none: the two sums of `allocate`,
`size + 0x0f` and `nextHeap + capacity`, wrap at `WordSize`. `wrapped` is history:
whether an allocation has *succeeded* through a sum that wrapped. From then on the
code's blocks do overlap, which `BlocksDisjoint` and `NoByteLost` except; they say
that nothing else can bring it about.

### CeKernel

Threads, events, waits and the main thread's wait, at the grain of one kernel
call. `refreshSignaledWaits` is a loop over the threads in handle order, each turn
of which sees what the turn before changed; each turn is a step
(`RefreshThread`), `scan` holds where the loop is and what its caller does
afterwards, and no other handler runs in between, as in the code. A deadline is
"none", "ahead" or "past"; the clock (`TimePasses`) moves it at any time. Which
runnable thread gets the CPU is left open here and modelled in GuestScheduler;
of message queues only "has a message" is kept.

History variables: `lastWait` (how a thread parked) and `granted` (waits that an
event has ended since it was set).

### GweQueue and CeGwe

GweQueue is `CeGwe`'s queue as a data type, without state: the flat list, the
lane per owner and kind, and the owner recorded for each message, with every way
of inserting and erasing. CeGwe extends it and models the calls around it: a
window is none, live or destroyed, plain, a child, an owned popup or one that
covers the screen. A call whose handler runs window procedures is split where the
guest runs: `CreateWindow`/`CreateComplete`/`CreateFails`,
`DestroyWindow`/`DestroyComplete`.

Left out of CeGwe: `SetWindowPos`, `MoveWindow`, `EnableWindow`, `SetCapture`, and
rectangles (what a hit test can find is any window that is visible as last
published and not covered); popups have no `WS_POPUP` bit of their own;
`UpdateWindow`, which paints synchronously; destroying a window again within its
own `WM_DESTROY`. The parked sender of a sent message is followed until its
message is retrieved, GuestScheduler has the rest. The host pump inside
`GetMessage` is folded into the timers that may fire there (`due`).

### GuestScheduler

The CPU's registers are a *context*: whose stack it runs on (`sp`), whether it is
about to enter the stub that re-examines the main thread's wait (`at`), and
whether it is the latest state of its stack (`latest`, a history bit: restoring a
context makes every other copy of that stack old). `sched` holds the registers,
`activeGuestThread`, the saved contexts and run states. `SwitchToRunnable` makes the choice of
`switchToRunnableGuestThread` exactly: the owner of the oldest message, the
preferred thread, then round robin. The guest's steps are its calls: post, get,
dispatch and send messages, return from a procedure, wait, end. The host's steps
are the end of a slice and the branches of the host loop.

A guest thread that finds itself on another thread's registers does unpredictable
things; the model records that state and follows it no further (`Guest`).

`Calls` names calls the guest may or may not make (`mainWait`, `waitInside`,
`sendToWorker`, `destroyWindow`), and `made` whether it made any of the first three.
Without those contexts and returns are kept apart; with any one of them they are
not, see below. Destroying a window (and closing its handle) disturbs neither, but it
loses sent messages: what is queued for the window is erased, what is already
taken for it while the main thread waits is dropped, and nobody wakes the
sender. `unheard` is history: the senders to whom that happened.

Windows are not told apart: `DestroyWindow(o)` is that of some window of `o`, and
takes any of the messages queued for `o` with it. A window may have no procedure
(then `DispatchMessage` returns at once). Two guards are the guest's own: a thread
gets the next message after it dispatched or forgot the last (`got`), and ends
outside its procedures.

Left out: the continuations of `CreateWindowExW` and `UpdateWindow`, and of
`DestroyWindow` with the procedure it calls for `WM_DESTROY`; presentation and
slice budgets; unreadable program counters; the repair of orphaned continuations;
`CreateThread`'s and `CreateProcess`'s yield; the main thread's `Sleep`;
the burst of worker slices for messages without an owner; and
`PostQuitMessage`, which CeGwe has.

### SharedMapping and Broker: several processes

Emulator processes share three kinds of files, and no memory. **SharedMapping**
is a named mapping: a backing file, a version file, and in each process the
view's bytes, the *shadow* last exchanged and the version seen. Each access to
either file is a step (`SyncNamedMappedViews`, `WriteBytes`, `BumpVersion`,
`TruncateVersion`, `StoreVersion`, `CloseBytes`, `RereadVersion`, `SyncCheck`,
`SyncRead`), `job` holds where a process is in its call. **Broker** extends it with
the window registry and the message file, the two named mutexes around them, and
the death of a process between any two steps. A mutex wait gives up only in a
circle (`GiveUp`): no owner keeps a mutex for five seconds otherwise. A message
carries what the sender's views showed when it was posted (`sent`), and in an inbox
also what the receiver's views showed when it was taken (`Arrival`), so that
`PostedDataSeen` relates the two files the processes communicate by. A write of the
message file gets a new time stamp or, in the scenes `"tick"`, that of the write
before it; `sizes` and `alike` are history: the sizes the file has had under its
stamp, and whether a write ever gave it a stamp and size it had had before.

Left out: mappings of ordinary files, failing file operations, malformed files,
and what a sent `WM_COPYDATA` carries.

### RemoteEndpoint, SerialDevice, WaveOut, RemoteAudio and Devices

Each extends the one before. **RemoteEndpoint** is what server threads share with
the emulator under `CeRemote`'s mutex: touches (taps, and the down, move and up of a
finger that is followed), keys, serial bytes, the flag that
stops a slice, the pause switch. **SerialDevice** adds the emulator thread (a
guest call, or a turn of the host loop) and ports: `ReadFile` looks at the queue,
parks or goes on to `HandleReadFile`, which looks again; a refresh answers a
*copy* of the pending reads, one at a time, while bytes arrive. **WaveOut** is the
buffers on the virtual time line, the flags in the guest's headers, the callback
event, the backend's chunks and its cache of host devices (**Selection** has the
erasing of entries where they are and the loop over a list, GweQueue uses them too). **RemoteAudio** is the
tap from which audio clients get slices at one shared cursor. **Devices** puts
them together and states fairness.

**SerialLine** is the abstract specification of a port: a bounded line of bytes and
readers that wait, with a deadline or for ever. `Devices!LineRefined` is its
`Spec` under the refinement mapping `line <- serial`, `got <- received`,
`wait <- reads`, `clock <- now`; a thread parked on a port that was closed maps to a forgotten
reader.

Left out: `SetCommState`, `SetCommMask`, `SetupComm`, `PurgeComm`,
`ClearCommError` (they store what the emulator never reads), HTTP and websocket
framing, `waveIn` beyond its immediate answers, volume, sample conversion. The
queue filled by `publishRemoteAudioChunk` is dead code.

### Layers, GdiObjects and Graphics

**Layers**: the screen is a line of `Width` pixels, and a pixel's value is the
window that painted it last. A window has a style (plain, child, owned popup,
popup without owner, and *secondary*: with a parent, but neither `WS_CHILD` nor
`WS_POPUP`, which the code counts as an owned popup in some places and not in
others), a place, and its *backing*: what was under it before its
first paint. Every fill decides anew, as `fillFramebufferRect` and
`writeFramebufferTargetPixel` do, which pixels reach the screen, which go to the
backings of popups above, and which are dropped because a full-screen popup
covers the drawer. Hiding and destroying put backings back
(`EraseWindowArea`, `Restore`); a full-screen popup retires older ones (`Retire`).
The table of windows, the order and the framebuffer are passed as values, so that
the properties can ask what a sequence of calls *would* show.

**GdiObjects**: each object's handle, the copy that drawing uses (`copies`) and
`CeMgdi`'s mirror (`mirrors`), as three tables, because the calls look at different
ones: `DeleteObject` clears all, `CloseHandle` leaves the mirror, `SelectObject`
takes a bitmap from the mirror, `EndPaint` erases whatever handle it is given (`DropHandle`),
`LoadImage` makes a handle with an entry in neither table, and `GetWindowRgn` writes
the region and not its mirror. `taken` and `orphans` are history: the regions so
written, and the blocks of bitmaps erased by `EndPaint`. A bitmap's pixels are a block of the heap;
palettes have two entries; a region is a set of points of a line and its mirror
the bounding interval. Handles are not reused (`makeGuestHandle` only counts).
`dcCount` is left out: nothing reads it. Regions are made with left at most right;
otherwise the host's region swaps the two and the mirror does not.

**Graphics** lets windows and device contexts meet: the clip a device context gets
from the window's published region, its selected clip, and `FillRect` through it.

Left out: colours and raster operations, text, lines' rasterising, polygons,
stretched, transparent and overlapping copies, `SetDIBitsToDevice`, and the
presentation on the host.

### How they fit together

CeKernel leaves the choice of thread open, so its properties hold for
GuestScheduler's choice as well. GuestScheduler leaves open when a wait is over,
so its properties hold for CeKernel's answer. Both see of CeGwe's queue what they
need: whether a thread has a message, and whose the oldest is. Broker puts
messages in an inbox, CeGwe takes them from there as posted ones. Devices leaves
open which thread calls, Graphics which messages bring windows to show, draw or
go: the order of CeGwe's messages is one of those it covers.

## What is checked

| Run | Expected | Properties | Bounds | States |
|---|---|---|---|---|
| `guest_heap` | pass | `TypeOK`, `BlocksDisjoint`, `NoByteLost`, `LiveBlocksFit` | a heap of five grains in a word of 256 bytes; requests of 0, 16, 17 and 48 bytes, and of 240 and 250, which wrap; three blocks after a wrap | 67,654 |
| `kernel_events` | pass | `TypeOK`, `NoLostWakeup`, `OneRunner`, `AutoResetGrantsOnce`, `ResultFitsCall` | one thread and the main thread, an auto-reset and a manual-reset event; waits for one, any and all, the thread's handle among them; messages for both | 1,070,571 |
| `kernel_live` | pass | `FiniteWaitEnds`, `JoinEnds` | two threads and the main thread, no events; fair | 126,896 |
| `kernel_messages` | violation | `MessageWakesItsOwner` | one thread; fair | - |
| `gwe` | pass | `TypeOK`, `LanesMirrorQueue`, `WakeTestAgrees`, `InputAfterLifecycle`, `TouchesDoNotOverlap`, `PostedInOrder`, `Coalesced` | four scenes: two owners of two windows, a timer and keys; a window and its child; a window and a full-screen popup; a window and two popups. Three to six messages | 307,913 |
| `gwe_lanes` | violation | `EveryMessageHasALane` | one window and a timer | - |
| `sched` | pass | `TypeOK`, `EveryContextKept`, `SendersAwaited`, `ReturnsToCaller` | the main thread and two workers, two queued messages, two procedures in progress; all optional calls; after a loss two messages and procedures together, of destroyed windows one at a time | 4,249,361 |
| `sched_main` | violation | `MainContextIsMains` | the same, with the main thread's wait | - |
| `processes` | pass | `TypeOK`, `SeenIsCurrent`, `PostedDataSeen`, `NoMessageLost`, `TakenOnceInOrder`, `NotOverlooked` | two processes with a view each, a byte, three stores, versions up to 4, two messages; seven scenes | 1,794,626 |
| `processes_undo` | violation | `OnlyChangedBytes` | two processes that store, two bytes | - |
| `devices` | pass | `TypeOK`, `TapsWhole`, `LineRefined`, `TimedReadEnds`, `InQueueIsQueued`, `EventTellsOfBuffers`, `ChunkHasItsDevice`, `TapContinuous` | two server threads, two workers, a line of two bytes, three ticks; two streams with two headers and one cached device; two audio clients, slices of two milliseconds; a format of four bytes in three milliseconds; six scenes | 352,542 |
| `graphics` | pass | `RepaintConverges`, `PopupLeavesNoTrace`, `CopiesAgree`, `BitsOwned` | a screen of two pixels, three windows, up to seven handles, two blocks; 26 scenes | 528,356 |

A behaviour of `gwe`, `processes`, `devices` and `graphics` belongs to a *scene*,
a set of calls (and windows) it is limited to. Each scene holds the calls that act
on the same state; the product of all calls would be out of reach, and most of it
is calls that do not touch each other's state. A scene excludes nothing within
its calls: every order and every argument within the bounds occurs.

Why the bounds suffice.

- Heap: five grains hold the largest request and a remainder, two blocks whose
  release leaves a hole, and the end of the heap; each branch of `allocate`
  is taken, and each of its sums wraps. After a wrap blocks overlap and can be split
  for ever, so states with more than three blocks then are not explored further
  (`Explored`). The proofs do not need the bound.
- Kernel: the refresh loop's hazards involve the thread being examined and one
  examined before it, or the main thread; a thread and the main thread, and in
  `kernel_live` two threads, give each such pair. The safety proofs do not need
  the bound.
- Messages: disorder shows in pairs of messages of one window and a third that
  moves; lanes go wrong by one insertion and one erasure. A behaviour's messages
  are bounded, not only those queued at a time, because message numbers grow.
- Scheduler: a switch involves the thread left, the thread entered and one that
  is parked: three threads. A list that loses its order does so with two entries.
  `MaxQueued`, `MaxTransfers` and `MaxBlocking` bound the lists. `Explored` bounds what
  is followed after a loss: a sender that waits in vain does nothing any more, and the
  messages of destroyed windows are passed over, or handled for no owner.
- Processes: the races are between one that writes and one that reads; two
  stores tell an old value from a new one, and with the third a view that was
  read beside an empty version file can meet an empty one again. Two messages tell
  order and repetition. `MaxVersion` leaves room for all stores. The safety proofs
  do not need the bounds.
- Devices: two server threads can interleave, a queue of two bytes overflows at
  the third, two workers can wait for one byte, three ticks hold a deadline and
  the time after it. Two streams and one cached device make the cache evict. A
  format of four bytes in three milliseconds has all the roundings that 11025 Hz has; one
  with a whole number of bytes in a millisecond has none.
- Graphics: a full-screen and a partial popup over a main window, alike popups,
  a child on a popup, two main windows. Two pixels are one inside and one
  outside a partial window. Secondary windows alone and under a popup. Handles: the three stock tools, a device context and
  one or two objects to select, delete or close.

Every property of a passing run is paired in `PROJECT.json` with a mutant: a
change to one mapped definition, of the kind a slip in that code would be (a reset
forgotten, a remainder at the wrong address, a capture skipped, an owner looked up
too late), under which TLC finds the property violated. The mutated forms stand
before the definitions they change, marked "Mutant".

### What the scenes leave out

Some call sequences break the properties. Where no document of the repository
promises otherwise they are not disagreements; the scenes leave them out and
the list says so.

- Shared mappings: more than one process that stores (`"writers"`: a version
  number is given twice, and a third process never reads the second's bytes);
  mapping a view while another process writes (`"mapRace"`); creating the mapping
  while another uses it (`"createRace"`, with three processes); views smaller
  than a stream's buffer with a second process (`"small"` without `"solo"`: the
  bytes reach the file after the version).
- `PostedDataSeen` is about messages from or to the process that stores, taken
  with no *torn* view, one that was last read while the version file was empty. The
  file is emptied before the version is written, so such a view keeps version 0,
  and the next time the file is empty it passes for current with old bytes. A
  third process can get a message about bytes whose version is still to be
  stored: the second saw them in the file and passed the news on.
- `NotOverlooked` excepts a message file that was written with the time stamp and
  size it had had before: two such writes in one tick hide a message until the next
  change. Writes that share a tick and differ in size are in the scenes.
- Requests above `0xfffffff0` get a block of capacity 0, and one near 2^32 takes the bump
  pointer under the heap; nothing refuses them. `BlocksDisjoint` and `NoByteLost` are
  about heaps where no such request has succeeded, `LiveBlocksFit` about all other requests.
- `SendersAwaited` excepts the senders that do wait in vain (`unheard`): their message
  was queued for a window that was then destroyed, or for one already destroyed; was
  taken for a window whose handle is closed (`src/synthetic_dll.cpp:1359`); or
  was retrieved by a guest that does not dispatch it.
- `CopiesAgree` excepts the bitmaps of `LoadImageW`, which are in neither table
  (`src/coredll_res.cpp:463`), and a region that `GetWindowRgn` has written
  (`src/coredll_named_dispatch.cpp:3770`), until `SetRectRgn` or `CombineRgn` tracks it
  again. `BitsOwned` excepts the pixels of a bitmap whose handle is given to `EndPaint`:
  no handle owns them any more.
- After a mutex wait gave up in a circle (a broadcast against a poll that imports
  a window) messages may be lost or repeated; `NoMessageLost` and
  `TakenOnceInOrder` except those behaviours.
- Graphics: `MoveWindow` leaves a popup's backing at its old place, so only plain
  windows move. Raising a window leaves its children and popups at their old
  z-order, which alone decides what covers what: parents of children and of
  popups are not raised over another main window. An owned popup of a popup, and
  a child raised after a full-screen popup of the same owner, are left out for
  the same reason. `PopupLeavesNoTrace` speaks of popups that retire no other.
  A secondary window's parent is not a popup: with no plain window visible and the popup
  raised above it, the popup's inferred owner would be the secondary window, whose
  parent is the popup, and `isWindowInGweStack` (`src/coredll_window_runtime.cpp:1441`)
  follows such a circle without end, where `rootWindowForStack` stops. Windows of
  the scenes belong to one guest thread.
- Sound of less than 250 ms after silence may never reach an audio client: the
  cursor lies before it and jumps past it. Two audio clients share the slices between them.
- Windows: hit testing reads the state as last published, so a window under
  destruction still receives touches; `SetFocus` posts its messages at the end
  where a touch puts them in front; `pendingSyntheticChildButtonUpWindow_`
  remembers one child.
- Kernel: a wait for several objects that is satisfied when called resets no
  event; a guest mutex is a host mutex of the one host thread, so it excludes
  nobody; `CreateThread` keeps a handle when its TLS block cannot be had.
- Threads: two workers that send to each other wait for ever; threads without
  messages may never be chosen; a critical section only counts.

## Fairness

`CeKernel!FairSpec`, for `FiniteWaitEnds`, `JoinEnds` and `MessageWakesItsOwner`:

- `SF` of `TimePasses(t)`: the host's clock runs, whatever the guest does. It is
  strong because the step is disabled while the refresh loop is under way.
- `WF` of `HostRefresh`: the host loop comes round again, because every slice has
  an instruction budget and a watchdog. A remote pause, which stops the loop, is
  assumed to end.
- `WF` of `RefreshStep`: a loop in a handler goes on until it is done.

`Devices!FairSpec`, for `TimedReadEnds`:

- `SF` of `EmulatorStep` (the end of a slice, the turns of the host loop and of a
  refresh): guest calls disable the end of a slice again and again, but
  `resumeGuestSlice` gives a slice an instruction and a wall-clock budget
  (`src/coredll_window_runtime.cpp:2181`, `:2269`), so it ends.
- `WF` of `HandleReadFile`: a handler that runs is finished.
- `WF` of `Tick`: the clock runs. A paused emulator refreshes nothing; the
  property excepts it.

Nothing is assumed of the guest: no thread is assumed to post, set, end or yield,
nor of server threads, the backend or other processes. No fairness among guest
threads is assumed, and the code promises none.

## What is proved

For every value of the constants that satisfies the assumptions, from nothing but
those assumptions. They type the constants, and say a little more where the code
does: `HeapAssumption` that the heap lies within a word; `KernelAssumption` that a
wait names at most `MaxWaitObjects` handles (`readGuestWaitHandles` refuses more);
`SchedulerAssumption` that there are finitely many workers; `GweAssumption` that
there are finitely many windows; `WaveAssumption` that
there is a format to open; `MappingAssumption` that there are finitely many views
and that each has its process and its bytes; `BrokerAssumption` that nobody is not
a process.

| Property | Theorem | Module |
|---|---|---|
| `GuestHeap!TypeOK`, `BlocksDisjoint`, `NoByteLost`, `LiveBlocksFit`, with wrapped requests as above | `TypeCorrect`, `AllocationsDisjoint`, `HeapIsTiled`, `AllocationsFit` | GuestHeapProofs |
| `CeKernel!TypeOK`, `OneRunner`, `AutoResetGrantsOnce`, `NoLostWakeup`, `ResultFitsCall` | `KernelTypeCorrect`, `OneThreadRuns`, `OneGrantPerSet`, `NoWakeupLost`, `ResultsFitCalls` | CeKernelProofs |
| `CeGwe!TypeOK`, `LanesMirrorQueue`, `WakeTestAgrees`, `PostedInOrder` | `QueueTyped`, `LanesTrue`, `WakesTrue`, `PostsInOrder` | CeGweProofs |
| `CeGwe!InputAfterLifecycle`, `Coalesced`, `TouchesDoNotOverlap` | `LifecycleFirst`, `PaintsCoalesce`, `TouchesApart` | CeGweProofs |
| `GuestScheduler!TypeOK`, `EveryContextKept`, `SendersAwaited`, `ReturnsToCaller` | `SchedulerType`, `ContextsKept`, `SendersAreAwaited`, `CallersReturnedTo` | GuestSchedulerProofs |
| `Broker!TypeOK`, `NoMessageLost`, `TakenOnceInOrder`, `NotOverlooked` (see below) | `BrokerType`, `MessagesKept`, `MessagesInOrder`, `NothingOverlooked` | BrokerProofs |
| `Broker!SeenIsCurrent`, `PostedDataSeen`, both without the races | `VersionsAgree`, `PostedBytesSeen` | BrokerProofs |
| `Devices!TypeOK`, `LineRefined`, `TapsWhole`, `InQueueIsQueued`, `EventTellsOfBuffers`, `ChunkHasItsDevice` | `DevicesTyped`, `PortsAreALine`, `TapsStayWhole`, `InQueueTrue`, `EventTells`, `ChunksHaveDevices` | DevicesProofs |
| `GdiObjects!BitsOwned`, `CopiesAgree` | `BlocksHaveOneBitmap`, `MirrorsAgree` | GdiProofs |

**GuestHeapProofs.** The inductive invariant `IInv` is the types, `Sound(heap)`, which
holds whatever wraps (the grid, the limit, that live blocks fit), and, as long as
nothing has wrapped, `Tiled(heap)`: blocks are disjoint, lie in the heap,
cover everything under the bump pointer, and hold what was asked for. `BlocksDisjoint` is not inductive by itself: a
reused block is disjoint from the others only because free blocks lie on the grid
under the bump pointer and are disjoint from live ones, and a split is sound only
because the remainder is inside the block taken. One lemma for each allocator
operator says that it keeps `Sound` (`TakeFreeSound`, `BumpSound`,
`ReleaseSound`), and one that without a wrap it keeps `Tiled` (`TakeFreeTiled` and its like);
the exports are compositions of these. Theorems: `TypeCorrect`,
`AllocationsDisjoint`, `HeapIsTiled`, `AllocationsFit`.

**CeKernelProofs.** `IInv` is the type invariant with four parts. `RunnerInv`
adds to `OneRunner` what holds while a switch is under way. `GrantInv` adds to
`AutoResetGrantsOnce` that an event that is still signalled has ended no wait, the
fact that makes the next grant the first. `WakeInv` generalises `NoLostWakeup` to
the middle of the refresh loop: no thread that the loop has passed is overdue.
`MadeInv` says that what was not made has no state and that waits are for handles
that were made; without it, creating an event could satisfy a wait. `FitInv` says
what a parked thread's record holds that its result will be made from: a wait
without limit has no deadline, and a sleeping thread waits for nothing. A wait's
success is an index of a handle, which is no time-out only because there are at
most `MaxWaitObjects` handles. Theorems: `KernelTypeCorrect`, `OneThreadRuns`,
`OneGrantPerSet`, `NoWakeupLost`, `ResultsFitCalls`.

**CeGweProofs.** For every finite set of windows, any threads and any scenes.
`GweInvariant` is the tables of windows (`Tables`), what timers and the pointer
remember (`Watches`) and the queue (`Books`); the last is `Good`, of six parts.
`Numbered`: ids come from the counter and none is queued twice. `Mirror`: an id is
in the lane of a thread and a kind exactly if a message of that kind is queued
under it and the thread is remembered as its owner. `Settled`: a message nobody is
remembered for has a window nobody owns. `Known`: its window was made. `Orderly`
and `Single` generalise the properties about order and about paints and presses.
`WakeTestAgrees` needs all the first four: the recorded owner and the present one
agree because a window gets its owner when it is made, before any message can name
it, and one that lost its owner gets no other. Two arguments carry the operations.
What erases messages, or moves all messages of a window to the front, keeps the
order within every window (`Thins`, `ThinGood`); what queues one message puts it
where it breaks no order (`Fits`, `InsertGood`): posted messages at the end, input
behind the last `size` or `show` of its window. Each helper of the code is a
composition of the two, and a loop over windows is one step after the other from
front to back (`PaintInOrderGood` and its like). Handlers change windows only in ways after which
the queue is still good (`Alike`).

**SequenceLemmas.** Facts about the community modules' sequence operators that the
other modules cite: `RemoveAt` and `InsertAt`, the first of a set of numbers, what
is left when entries are erased where they are (`Selection!Keep`), how a count over
a sequence changes with one entry, and that a finite set can be listed
(`ListExists`), one of numbers in increasing order. Induction over numbers is by the least counterexample
(`LeastNat`).

**GuestSchedulerProofs.** Two invariants. `Sound` is for every guest: the types,
that the active worker is Running, and `Counted`, that the list of transfers has
one entry for each procedure in progress; with it `SendersAwaited`, whose three
counts and the list `unheard` of those who wait in vain change together or not at all,
is inductive. `SendersAreAwaited` therefore is about any guest, one that destroys
windows and closes their handles too; what it says of a sender whose message was
lost with a window is that this is the only way to wait in vain. The counts are over sequences,
so each call is shown to add or remove one entry (`CountWithout`). `Orderly` is for
a guest that makes none of the optional calls but those on windows: every thread's latest state is in
its place (`Placed`), the main thread's procedures are the last entries of the list
(`MainOnTop`), since it is never switched away within one, and a message in hand is
the holder's own. A switch is shown to be a capture followed by a load, whoever it
picks. `ReturnsToCaller` follows from `Orderly` when one worker at most has windows:
every entry below the main thread's is that worker's, so whoever returns finds an
entry of its own at the end of the list.

**BrokerProofs.** For any number of processes, views and posts and any set of
calls, the races included. `BInv` has four parts. `MInv`: the shapes of mappings
and views, and that what a live process is to synchronise, map or unmap is its own
and mapped, so that nobody else touches it. `BrokerTypes`. `Locked`: a mutex is held
only where its owner will release it. `QueueInv`, unless a wait gave up: the owner
of the queue's mutex is the only process in the middle of a post or a poll; the copy
a post holds is the file, and the copy a poll holds has every message of the file
that was not dealt with (`Copied`), so that replacing the file loses nothing;
messages are numbered upwards in the file, in every copy and in every inbox; and
what is in the file for a process is later than all it took. A process that dies
leaves the file as it was. `Phase` tells where a process is in its call whatever
synchronisation it is in the middle of, which keeps the mapping's steps out of the
broker's part. `NothingOverlooked` assumes nothing of time stamps: what a process remembers
of the file is older than the file, or one of the sizes that the file has had under its
present stamp (`Past`), and a write that gives it another size therefore shows. It has
`NotOverlooked` *unless a wait gave up*: for the two processes of the run TLC finds
`NotOverlooked` true even then, for three, one of which dies, it is not.

`VersionsAgree` is `Spec => [](NoRace => SeenIsCurrent)`. `NoRace` leaves out what the
code does nothing against, the first list under "What the scenes leave out"; with those
calls the property does not hold, and every scene of `processes` satisfies it. The invariant
`VInv` looks into the synchronisations: unless the storing process died between its
bytes and its version (`Stuck`, after which the files stay out of step), everything
is in step (`InStep`). Other processes have stored nothing (`Readers`); who creates
or maps does so with nobody writing (`Apart`), and a file without a version has no
views (`Creation`); no view has seen a version after the last whose bytes are all in
the file (`Top`, `Versions`); the bytes are there before their version (`Written`);
and a view that has seen the file's version has its bytes (`Current`), except while
`Writer` is between the two.

`PostedBytesSeen` is `Spec => [](Plain /\ Separate => PostedDataSeen)`. `Plain` is
`NoRace` without views smaller than a stream's buffer. `Separate` says that no two
views of the storing process share a byte: a view is written whole, so an older one
would set back what the other stored. The invariant `DInv` adds to `VInv` what the
bytes are. They only grow, first in the views of `Writer`, then in the file, then in
other views (`Growth`); what a message is about is in the file before the message
is (`Stored`), since a sender puts its views in the file before it posts (`Ready`);
a view of another process lacks something only if its version will show it
(`Noticed`, `Fresh`); and who takes messages has synchronised its views since it read
the messages (`Synced`). Torn views are what `Fresh` excepts. After `Stuck` nothing
is stored any more, but messages sent before still arrive: `Growth` to `Synced` hold
there too, without `InStep`.

**DevicesProofs.** `PortsAreALine`: the composition `Devices` implements
`SerialLine`, so `LineRefined` holds for every capacity of the line, any number of
threads and handles, and all time-outs. The invariant `SInv` is types, `ReadsInv`
(only a parked thread has a pending read) and `EmuInv`, which says what the emulator
thread may rely on between two accesses to the queue: the reads of the refresh's
copy are still pending, a line it found not empty stays so (server threads only
add, and never empty it), and a read it found timed out stays so because the clock
only grows. One lemma for each action says that it keeps `SInv` and is one step of
the line or none: an injection is `Arrive`, a read at once `Read`, parking `Wait`, an
answer `Serve` or `Expire`, closing `Abandon`. `NewestBytes` is the fact about
sequences under `Arrive`: cutting a queue with new bytes behind it to the newest
`MaxSerialBytes` loses the oldest only.

`TapInv`: the queues and what was delivered are each whole, so that their
concatenation is; one server thread adds a tap's press and its release in one step, whatever fingers and
keys come before and after, and the drain moves whole queues. `WInv`: streams that are open have different open
devices, cached devices are in no stream's hands (`DeviceInv`), a chunk belongs to a
stream that is open with the chunk's device (`ChunkInv`), a stream that is shut has
no buffers (`ShutInv`), and a header is queued at one place of one stream exactly
while it says so (`HeaderInv`), which is what completing, resetting and closing
must keep among them. `SingleInv` and `PlayerInv` relate the callback event to the
buffers. Theorems: `TapsStayWhole`, `InQueueTrue`, `EventTells`,
`ChunksHaveDevices`. `DevicesTyped` adds the ranges these leave open and the audio
tap: a slice is cut from a buffer that sounds at the cursor, so that no offset or
duration in it is negative, for all formats (`SliceType`).

**GdiProofs.** `BlocksHaveOneBitmap`: `BitsOwned` in the whole of `Graphics`.
`BitsOwned` counts owners, which no single call can be shown to keep; `BInv` has the
handle table know each block's owner: the runtime's copy of a bitmap has its pixels
where the handle says, a clip is never a bitmap's, every block in use is exactly one
bitmap's or an orphan of `EndPaint`, and handles were made, so that the next is fresh. Three lemmas say that a
call that changes no bitmap (`Kept`), makes an object (`MadeOwned`) or removes one
(`GoneOwned`) keeps it; each call is a composition of these.

`MirrorsAgree`: `CopiesAgree`, from `CInv`, which is `BInv` and `AlikeInv`. `Alike(g, h)`
says what each copy of the object with handle `h` is made of, and that the bitmap
remembered for a device context, like each stock object, is of the kind it is taken
for as long as its handle exists (`Names`): a call that writes through one handle into
another object's copies writes into both or neither. `LoadImage` and `GetWindowRgn`
are the calls that do not, and the objects they touch are excepted by name: bitmaps
of kind `image`, and the regions in `taken`. Regions agree in their bounds
only; that the stretch the mirror keeps has the same bounds as the region it was
taken from (`BoxOfBounds`) needs least and greatest elements (`MaxMin`), which
`LastInOrder` gives for any finite total order.

**Only model-checked.**

- Liveness (`FiniteWaitEnds`, `JoinEnds`, `TimedReadEnds`): fairness and `ENABLED`
  are out of the prover's reach.
- `TapContinuous`, which needs more about the time line than the types of `DevicesTyped`.
- `RepaintConverges` and `PopupLeavesNoTrace` are about sequences of calls on a
  screen, computed by recursion. Facts about recursive functions for all inputs need
  induction over data.
- `PostedDataSeen` in the scene with small views, which `PostedBytesSeen` leaves out.

## Disagreements with the documents

Found while modelling; `PROJECT.json` quotes the lines.

- `kernel_messages`: a thread parked in `GetMessageW` is not woken by a timer,
  input or paint message. `PLAN.md` ticks owner-aware wake-up as done.
- `gwe_lanes`: `WM_QUIT`, timers without a window and messages to destroyed windows
  enter no lane and are not retrieved. `KNOWN_BUGS.md` says all kinds are mirrored.
- `sched_main`: a worker that parks while the main thread waits leaves
  `activeGuestThread` 0 and its own registers in the CPU; the next switch stores
  them as the main thread's context. `KNOWN_BUGS.md` describes this hand-over as
  the repair of an earlier fault of the same kind.
- `processes_undo`: a view that differs from its shadow is written whole, so bytes
  another process changed meanwhile are set back. `PROGRESS.md` says only changed
  bytes are written.

`TODO.md:34` and `PROGRESS.md:418` describe the audio tap as continuous across adjacent
slices. A slice's offset is rounded down to bytes and its length to milliseconds, by
which the tap's cursor advances: at 11025 Hz and 8 bits a slice of 20 ms is 220 bytes,
counts as 19 ms, and the next one starts at byte 209. The converter's state is
continuous, its input is not, and `remote_server.cpp:483` takes the overlap for
adjacent. `TapContinuous` states what does hold: nothing is left out between adjacent
slices, and no more than a millisecond's bytes are sent again. A property that no byte
is sent twice fails in the `devices` run after two slices.

`PLAN.md:260` ticks a purge of queued touches for a destroyed window's stack;
`DestroyWindow` (`src/synthetic_dll.cpp:1966`) erases the messages of the window
itself only, and those of its children stay. Two more facts have no document that says otherwise, and are listed as hazards:
with two workers that own windows a procedure can return into the other's call,
because the scheduler prefers the owner of the oldest message to the owner of the
procedure in progress; and a worker that ends while the main thread waits and
nobody else can run ends the program.

## What is not modelled

See `components` in `PROJECT.json`. In short:

- pure functions on guest memory (C runtime, strings, mathematics, resources,
  rectangles) and rasterising: sequential, with nothing to interleave;
- shims over the host (winsock, OLE, common controls, file system, time),
  start-up, export tables and diagnostics;
- the registry (a tree changed by one thread), critical sections (which never
  make a thread wait, so mutual exclusion fails by construction) and the slot
  table (no other source uses it);
- the operations named under "Left out" of each model above.

## Plan

Done: GuestHeap and CeKernel with proofs, GweQueue, CeGwe, GuestScheduler,
SharedMapping, Broker, RemoteEndpoint, SerialDevice with the proved refinement of
SerialLine, WaveOut, RemoteAudio, Layers, GdiObjects with a proof; proofs for
CeGwe, GuestScheduler, Broker and SharedMapping, the touches and waveOut.

What remains worth doing, most valuable first:

1. `SetWindowPos`, `EnableWindow`, `SetCapture` and hit testing with rectangles in
   CeGwe, on Layers' geometry; the window continuations in GuestScheduler.
2. Proofs: `PostedDataSeen` for small views of a process that is alone.
3. Mutexes, `CreateProcess` and priorities in CeKernel; allocation failures there.
4. A refinement of CeKernel's waits to a monitor of waiters and events.
5. Stretched and overlapping copies, `ScrollDC` and polygons in Layers.

## Running the checks

`tlc -config X.cfg M` with the module and configuration of a run in `PROJECT.json`;
`tlapm M.tla` for the modules of proofs (SequenceLemmas, GuestHeapProofs,
CeKernelProofs, CeGweProofs, GuestSchedulerProofs, BrokerProofs, DevicesProofs, GdiProofs).
The longest run takes about three minutes on two cores, the longest proof
(BrokerProofs) twelve.
