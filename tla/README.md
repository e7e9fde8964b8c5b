# Electric_OS in TLA+

Electric_OS is a small x86-64 kernel with a window system. One loop, entered last by
`KernelMain` and never left, serves the requests of a list of processes; three interrupt
handlers (timer, keyboard, mouse) call into the same list, the same heap and the same
program variables without any lock. This directory models it in TLA+, checks the models
with TLC on small instances and proves theorems about them with TLAPS.

All paths below are relative to the repository; the kernel is under `src/`.

## 1. Inventory

| Component | State it keeps | Operations | Talks to | Hard behaviour, and what makes it correct |
|---|---|---|---|---|
| Process handler (`ProcessHandler/ProcessHandler.cpp`, `Process.cpp`) | `Processes` (an `STL::List` of pointers), `FocusedProcess`, `LastMessagedProcess`, `MovingWindow`; per process ID, type, depth, a stack of 16 requests | `Loop`, `StartProcess`, `KillProcess`, `KillAllProcesses`, `SetFocusedProcess`, `KeyBoardInterupt`, `MouseInterupt`, `PITInterupt` | programs (messages and answers), compositor, heap, interrupts | interrupts run whole commands between any two accesses of the loop. The list must hold every process once, no pointer may dangle, no program may run twice |
| Compositor (`ProcessHandler/Compositor.cpp`) | front and back buffer, `RedrawRequest`, `BufferSwapRequest`, `DrawMouse` | `Update(i)`, `Update()`, `SwapBuffers`, `RedrawMouse` | process list, mouse | flags that main code and interrupts both write |
| Programs (`Programs/*`) | text, animations, the topbar's menu IDs, the game, the calculator's registers | one `Procedure(Message, Input)` each | `STL::System` commands | handlers run in the loop (DRAW, CLEAR, KILL) and in interrupts (TICK, KEYPRESS, MOUSE) over the same statics |
| System commands (`System/System.cpp`) | `CommandOutput`, the command table | `start`, `kill`, `suicide`, `set`, `heapvis`, ... | process handler, heap, compositor | act at once, in the middle of the caller's handler |
| Heap (`Memory/Heap.cpp`) | a linked list of segments, `LastSegment` | `Allocate`, `Free`, `Split`, `Reserve` | page allocator, page tables | segments must tile the heap; not reentrant, yet interrupts allocate |
| Page allocator (`Memory/Paging/PageAllocator.cpp`) | a bit per page, `FirstFreePage` | `Init`, `RequestPage`, `LockPage`, `FreePage` | page tables, heap | no page twice, the hint never passes a free page |
| Page tables (`PageTable.cpp`, `PageIndexer.cpp`) | four levels of tables | `MapAddress` | page allocator | a mapping stays once made |
| Keyboard, mouse (`Input/*`, `Interrupts/Handlers.cpp`) | `KeyCache`, `CurrentKey`, caps lock; packet phase, position, buttons | `HandleScanCode`, `HandleMousePacket` | process handler | bytes that get lost, keys released under another shift state |
| PIT, RTC | `Ticks`; date and time | `Tick`, `Sleep`, `Update` | programs | registers read while the clock moves |
| PCI, AHCI | static cursors of the enumeration | `Enumerate` | page tables | a search that resumes |
| STL (`STL/*`) | lists, strings, buttons | `List::Push/Erase/Reserve`, `HashWord`, `ToString`, `IsToggled` | heap | growth, off-by-one, static buffers |
| STL graphics, Renderer (`STL/Graphics/*`, `Renderer/*`) | pixels | `PutPixel`, `DrawRect`, `Print`, `ScrollUp`, ... | programs, compositor | nothing may be drawn outside of a frame buffer |
| Interrupt tables and boot order (`Interrupts/IDT.cpp`, `Core/kernel.cpp`, `Input/Mouse.cpp`) | the gates, the mask and service registers of the two 8259, the 8042 with its one byte | `KernelMain`, `SetupInterrupts`, `InitPS2` | devices | interrupts are on before everything is initialised; one byte is shared by two devices |
| Debug, exception handlers, shutdown, restart | what the screen shows when the kernel stops | `Error`, `CommandShutdown`, `CommandRestart` | Renderer | one stop cuts another short |
| Boot loader (`src/gnu-efi/bootloader/main.c`) | the files, the kernel's segments, the memory map and its key | `efi_main` | firmware, kernel | the firmware uses memory between any two calls, any call may fail |
| GDT, UEFI, ACPI, IO | tables written or read once | | | sequential, straight-line |

`PROJECT.json` lists them with what is modelled of each, and every hazard at its line.

## 2. Modules and how they fit

| Part | Modules | Abstract promise | Run | Proofs |
|---|---|---|---|---|
| 3 process handler | `Programs`, `ProcessTable`, `ProcessHandler` | | `ph_desktop`, `ph_windows`, `ph_menus`, `ph_live` | `ProcessHandlerProofs`, `ProcessTableProofs` |
| 4 page allocator | `PageAllocator` | | `memory` | `MemoryProofs` |
| 5 heap | `Heap`, `HeapInterrupts` | `Blocks` | `memory`, `heapvis` | `MemoryProofs` |
| 6 compositor | `Compositor` | | `screen`, `drawmouse` | `CompositorProofs` |
| 7 request stack | `RequestStack` | `Requests` | `programs` | `ProgramProofs` |
| 8 windows and pixels | `Windows`, `Framebuffer` | `Canvas` | `windows`, `screen` | `WindowsProofs`, `CompositorProofs` |
| 9 devices | `KeyBoard` | | `commands` | `DriverProofs` |
| | `Mouse`, `Clock`, `PCI`, `Interrupts` | `Devices` | `drivers` | `DriverProofs` |
| 10 programs and commands | `CommandLine`, `Tetris` | | `programs` | `ProgramProofs` |
| | `Calculator`, `Shell`, `CommandOutput`, `CString` | | `commands` | `ProgramProofs` (`Calculator`), `CommandProofs` |
| 11 STL | `ProcessList`, `GrowingString` | `Items` | `memory`, `programs` | `MemoryProofs`, `ProgramProofs` |
| 12 page tables, boot, stopping | `PageTable`, `BootLoader`, `Panic` | `AddressSpace` | `memory`, `drivers` | `MemoryProofs`, `DriverProofs` (`Panic`) |

The modules are composed where components interact. `ProcessHandler` is the composition of
loop, interrupts, programs and the process list; it takes the request stack for atomic, which
`RequestStack` implements until a race (section 7), and the list for large enough, which
`ProcessList` shows for the eight programs there are. `Windows` puts the geometry of processes,
the mouse interrupt and the compositor's two updates together; `Interrupts` the kernel's boot,
both interrupt controllers, the keyboard controller and the three handlers. `HeapInterrupts`
repeats the heap of `Heap` at the level of its memory accesses, with small sizes.

### 2.1 Benches

Where components share no state their interleavings add nothing, so that one run checks
several: `MCMemory`, `MCScreen`, `MCDrivers`, `MCPrograms` and `MCCommands` extend the modules of
their components and add the variable `part`, which says to which of them a behaviour belongs;
`PartInit` chooses it, `PartNext` takes the steps of that component and leaves the variables of
all others as they began. The properties of a run are the components' own definitions, which the
theorems are about as well; on the behaviours of another part they hold of the initial state
that is kept. The one instance is `Narrow` in `MCDrivers`, a second mouse that makes fewer
movements.

The properties of one module that a run asks for together are one definition at the module's end
(`PagesSafe`, `TableSafe`, `TimeRight`, ...), the conjunction of named parts, its type invariant
among them; the sections below go through the parts. What must come about in the end is in the
two definitions `GoesOn` (`MCDrivers`) and `WorkEnds` (`MCPrograms`); the fairness for it is stated in
the bench's `PartSpec`, each condition under its part. The assumptions on constants of a
component are plain definitions in it, hypotheses of its theorems, which the bench asserts with
`ASSUME`. `MCWindows` gives `Windows` its instance and has no parts.

### 2.2 Order

The theorems, in the order in which they were worth it: that the process list stays intact and
the kernel faults for named reasons only (section 3.7), the hint of the page allocator, the
compositor's cursor, the request stack and its refinement, the keyboard's shift state, the
clock's torn readings, the order of the boot and its interrupts (section 9), the picture of the
windows and the way clicks take (section 8), the page tables and their refinement (section 12),
the list and its refinement (section 11), the mouse and the enumeration of PCI (section 9), the
game (section 10), the text that interrupts append to (section 11), the frame buffer and its
refinement (section 8), what the kernel receives of its loader (section 12), the heap and its
refinement (section 5), the tty's line and output (section 10), the kernel's stop (section 12),
the heap under interrupts (section 5.4), the calculator (section 10), the text of the message the
kernel stops with (section 12), and last the shell and its tables (section 10). All of the runs'
properties that the prover can state are theorems now; section 15 lists what stays with TLC, and
why.

A module of proofs extends several components, so the components that share one have no name
in common: that is why the action of `Heap` that is `Allocate`'s counterpart is `FreeSegment`,
and the specification of `PCI` is `PCISpec`. Assumptions on the constants of a component are
hypotheses of its theorems where a bench extends several.

## 3. The process handler

### 3.1 Modules

* `Programs` says what each program answers: one record per `Procedure` (`Tty`, `Desktop`,
  ...), with the type and depth of its INIT, the set of answers to TICK, KEYPRESS, MOUSE and
  DRAW, and how long its opening animation is. *Guests* are programs written against
  `STL/Process/Process.h` that may give any answer of `GuestRequests`; they stand for what
  the interface allows and the shipped programs do not use (CLEAR, KILL).
* `ProcessTable` holds the state that loop and interrupts share as one record (`Table`) and
  the functions of `ProcessHandler.cpp`, `Process.cpp` and `List.h` as operators on it.
* `ProcessHandler` has three variables: `ph`, that record; `m`, the position and the locals
  of the loop; `race`, a history variable that notes whether an interrupt changed the list
  inside a change of it by the loop ("write"), deleted a process while the loop held an
  index or pointer ("kill"), or came between the loop and the process that it was killing
  ("victim"). Each action of `Loop` is the code between two accesses of the
  loop to shared state; each interrupt is one action, because the interrupt gates set up in
  `IDT.cpp` clear IF.

| Code | Model |
|---|---|
| `Loop`, lines 231-232 | `Start`, `Check` ... `UpdateDepth`, `Focus` |
| the `for` of `Loop` and its switch | `For`, `Pop`, `Act`, `Answer`, `Compose`, `KillAllProcesses` |
| `KillProcess` run by the loop for a KILL request, lines 167-192 | `Kill` (its search), `ForgetFocused`, `ForgetLast`, `ForgetMoving`, `Tell` and `Told` (`Process::Kill`), `DeleteVictim`, `EraseSlot` |
| `StartProcess` run by the loop | `Check`, `IncrementID`, `Construct`, `PushGrow`, `PushStore`, `UpdateDepth` |
| `Compositor::Update()` | `Update`, `PaintFor`, `Paint`, `Unflag` |
| the restart of the tty, `HLT` | `Empty`, label `"hlt"` |
| `KeyBoardInterupt`, `PITInterupt` | actions of the same name |
| `MouseInterupt` | `DragWindow`, `CloseWindow`, `MinimizeWindow`, `GrabWindow`, `ClickWindow`, `PowerOff`, `ClickNothing`: its branches |
| commands typed or sent by buttons | `Commands`, `Starts`, `Kills`, `Toggles` |

### 3.2 What a fault is

Following a pointer to a deleted process is undefined. The model stops there: `ph.stop`
becomes the name of the function. The runs do not ask that this never happens (it does, the
code has no locking) but show *when* it can: `FaultOrigin` names the ways and excludes
all others. A theorem says so for every instance (3.7).

One of the ways leads through `KillProcess` of the loop, which resets three pointers, tells the
process, deletes it and erases its slot with interrupts on. A click between two of these gives
the focus or the drag back to the process, which is then deleted all the same; and one that
moves another process into the slot has the loop kill that one, since every line reads
`Processes[i]` anew. The history variable `race` then has "victim" (`Slipped`, `Regained`), and
`PointersLive`, `FaultOrigin` and `OrphanedOnlyByReset` name it as an exception: TLC finds each of
the three violated without.

### 3.3 Abstractions

* A search through the list, the element moves of `Erase`, `PushRequest` and `PopRequest`
  are one step each.
* Slots of the list past its length keep their old content, since `SetDepth` can reach slot
  `Length`. The array is taken to be large enough, and to keep this content when `Reserve`
  moves it.
* Window geometry is free: a click may reach any window, frame or button that is not behind
  a fault in the scan; two windows may or may not overlap.
* A timer tick sends TICK once to a process that a torn list names twice.
* What a program's handler writes into its own process after it has deleted it (a freed
  block) is not seen.
* A RESET calls `Loop` recursively; the model jumps, it has no stack.
* The command line is free: any program of the instance may be started, any ID killed.

### 3.4 Bounds

`Addr` bounds the processes that exist at once, `RequestCapacity` the request stack (16 in
the source), `MaxStarts` the IDs given before commands stop (`Budget`); the loop's own
restarts of the tty go on, and an interrupt leaves `Spare` addresses for the topbar that the
desktop starts from the loop. Three addresses are the smallest list in which a kill moves
one process over another while a third is created, a swap of `SetDepth` has a bystander and
a stale slot lies past the end; capacity 1 and 2 make the stack full and dropped requests
happen. Addresses are a symmetry set in the safety runs and not in the liveness run.

### 3.5 Runs

| Run | Instance | Shows |
|---|---|---|
| `ph_desktop` | tty, desktop, topbar; 3 addresses, 2 requests | `NoTwins`, `FullscreenAtBottom` |
| `ph_windows` | tty, terminal, a guest that answers RESET and KILL; 3 addresses | `TableIntact`, with `TypeOK`; `PointersLive`, `FaultOrigin`, `OrphanedOnlyByReset` |
| `ph_menus` | tty, topbar, systemmenu; 3 addresses | `MenuOwner` |
| `ph_live` | tty and a guest that answers KILL and CLEAR; 2 addresses | `TtyComesBack`, `LoopComesRound` |

`TableIntact`, `NoTwins`, `FullscreenAtBottom`, `PointersLive` and `MenuOwner` are stated for
executions in which no interrupt has changed the list inside a change of it by the loop, nor
come between the loop and the process it was killing (`Undisturbed`); that leaves all interrupts at all other points, and all their effects.
Deadlock is not checked: a powered-off or faulted machine stops.

### 3.6 Fairness

`FairSpec` adds weak fairness of `Loop` (the processor executes) and of `PITInterupt` (the
timer is programmed to 100 Hz and wakes a halted processor). No fairness of the user: no
property depends on a key or the mouse.

### 3.7 Proof

`ProcessHandlerProofs` proves `TypeCorrect == Spec => []TypeOK` for every set of addresses,
programs and guests and every capacity. The argument: each operator of `ProcessTable` maps a
`Table` to a `Table` (one lemma each, with the bound on the list's length it keeps); hence
every state an interrupt may leave is one; hence each action of the loop keeps `TypeOK`. The
clause `IndexOK` is what makes it inductive: the index a step relies on was compared with the
length of the list, and an interrupt never lengthens the list past its capacity. Assumed of
the constants: `ProgramsAssumption`, `TableAssumption`, `HandlerAssumption`.

`ProcessTableProofs` proves `TableIntact`, `NoTwins`, `MenuOwner`, `FullscreenAtBottom` and
`PointersLive` in the same generality. The invariant is `OrderInv`: `TypeOK`, `Spared` (what
`KillProcess` of the loop has made sure of, unless an interrupt came in between), and for
`Undisturbed` executions `Ordered`. Wherever the loop is not inside a change of the list the
table is `Sound`: the list names every live process once and no other (`Lists`), programs and
IDs are those of one process each, no ID is above the last one given, a topbar's ID is its
menu's or nobody's (`Known`), and a FULLSCREEN process is at the bottom (`Bottom`). Inside a
change `Ordered` says, label by label, what its next step finds: which process is not listed
yet (`AtGrow`), which slot is not stored yet (`AtStored`), whose slot is to go (`AtErase`),
which part of the list is deleted already (`AtKillAll`), and that between its check and its
push a start has a free ID and a program that does not run (`AtCount`). An interrupt that
changes the list in such a state sets `race`, which ends `Undisturbed`; anywhere else it is a
composition of whole operators, each of which keeps a `Sound` table so (a lemma each).

`FaultCorrect` (`FaultOrigin`) and `OrphanedCorrect` (`OrphanedOnlyByReset`) are about all
executions, the disturbed ones too. The invariant is `HoldInv`, which TLC checked on
`ph_desktop` and `ph_windows` before it was proved: `OrderInv`, `FaultOrigin` itself, and `Held`:
until an interrupt has raced, the loop that holds an index has one below `ph.size`, and the
loop that holds a pointer has one to a live process whose ID it knows. So a step of the loop
that follows a pointer, outside of the labels `Torn` and of a fresh RESET, finds it live or finds
`race` set. `OrphanedCorrect` needs beside `TypeOK` that, unless an interrupt came in
between, the process `KillProcess` is about to delete is no longer the one that is dragged
(`Spared`); every other operator that deletes a process either clears `moving` or is
`KillAllProcesses`.

What stays with TLC: `TtyComesBack` and `LoopComesRound` (liveness under fairness is beyond
this prover).

## 4. The page allocator

### 4.1 Module

`PageAllocator` models `PageAllocator.cpp`. A page is its index; `locked` is the set of set
bits of `PageStatusMap`, `hint` is `FirstFreePage`. `Init` builds them from a memory map: it
chooses where the status map lies, clears all but the last `PageAmount % 8` bits (whole bytes
only, so those bits start with any value), and locks in turn the map, what is not
conventional memory, the kernel and the frame buffer. `RequestPage` of main code is three
actions, `Search`, `Take` (line 103) and `Lock` (line 104), and `FreePage` two, `Free` and
`LowerHint`; `InterruptRequest` is a whole `RequestPage` inside an interrupt, where a handler
allocates and `Heap::Reserve` grows the heap. A bit is set by one instruction in the
optimised build, so that a set or clear is not torn.

`held`, `twice` and `raced` are history variables: the pages handed out, those handed out
while held, and whether an interrupt requested a page after main code had found one and
before it had moved the hint.

Nothing in the kernel calls `FreePage` yet; the model includes it because the hint exists for
its sake. The holder frees what it holds, from main code. The memory map may have holes, as
real ones have: pages in a hole have a bit and are handed out, pages beyond `PageAmount` have
none and `LockPage` ignores them. That callers map page `nullptr` when memory runs out is left
to the heap's model.

### 4.2 Run

The allocator's part of run `memory` has twelve pages: a byte and a half of the map, so that
four bits are garbage; a descriptor beyond a hole and partly beyond `PageAmount`; a kernel in
the middle of the largest free descriptor and a frame buffer in the hole. Twelve is enough to
exhaust memory in every order and to free on both sides of the hint. It checks `PagesSafe`:
`TypeOK`, `HintSound`, `NoPageTwice` and `ReservedKept`.

### 4.3 Proof

`MemoryProofs` proves the four, and `PagesSafe` (`PagesAreSafe`), for every memory map, from the
assumption that `PageAmount` is a natural number. `HintSound` is not inductive: `Take` moves the
hint past a page chosen earlier, so `Inv` adds `InFlight` (all pages below the one found are
locked, and the hint is past the one about to be locked). `NoPageTwice` needs `HeldSafe` (held
pages are locked and main code has not found one of them), `ReservedKept` needs `Reserved
\subseteq locked`. `FoundIsFirst` says what the search returns; it rests on `MinIsLeast`, the
least element of a set of numbers, which is the well-ordering of the naturals from the library.

## 5. The heap

### 5.1 Modules

`Blocks` says what callers rely on: live blocks do not overlap. `Heap` models `Heap.cpp`:
`segments` is the list in the order of its `Next` pointers, with the offsets from `HEAP_START`
and the sizes in bytes that the code computes; `last` is `LastSegment`. `Allocate`, `Reserve`
(an `Allocate` that finds nothing, extends the heap and starts over) and `Free` are the
operations, each whole: interrupts that allocate in the middle of a call are in `HeapInterrupts`
(5.4). `Malloc(0)`, which returns `nullptr`, changes nothing and is left out; pages are taken to
be available.

The code's arithmetic is kept because the faults lie in it: `Split` takes the header off the
first half twice, a size that is a multiple of 64 grows by 64, a rest that is negative wraps
around (`Word`), and `Reserve` maps the page that the heap ends in again, so that bytes of the
last block there are lost (`lost`; the processor may go on using the old page until the
translation is evicted). When the list itself is destroyed the model stops: `stop` is
`"wrapped"`, `"endless"` (LastSegment is no longer on the list, so that `Allocate` reserves
for ever) or `"clobbered"` (a live segment cut off, a header's page mapped anew, a header
written into a block).

### 5.2 Runs

The part "heap" of run `memory` uses the kernel's constants and three sizes: one that splits, one
that the first segment only just holds, and one that needs `Reserve` and fills its segment as far
as possible; up to four live blocks (`MaxBlocks`) and six calls (`MaxAllocations`) in any order
with frees. All three stops and lost bytes are reached. It checks (`HeapSafe`) that segments tile
the heap (`Tiled`), that blocks and used segments correspond (`BlocksInSegments`), that merging
pairs is enough to keep at most two free segments together (`AtMostTwoFree`), that `Reserve`
harms at most the last segment's own block while `LastSegment` is the last of the list
(`ReserveAtEnd`), and that the heap is `Blocks`; the last two are `ImplementsBlocks`. Deadlock is
not checked: a destroyed heap stops and the calls are bounded.

`heapvis` (expected violation): two small blocks and a large one. The first allocation splits
the first segment and leaves `LastSegment` on its first half; `Reserve` links the new segment
there and cuts off the rest, the second block included, from the list that `heapvis` shows
as "all the segments in the heap" (`System.cpp:341`).

### 5.3 Proof

`MemoryProofs` proves `HeapSafe` (`HeapIsSafe`) and `ImplementsBlocks` (`HeapImplementsBlocks`, of
`HeapKeepsBlocks` and `HeapReservesAtEnd`) for all sizes of requests, headers, pages and the quantum,
from `HeapAssumption`: a page is a number of quanta, the first segment a number of pages, a
header fits into a quantum and `Split` leaves no less than a page.

`HeapInv` says of an intact list (`ListRight`) that its segments are in order, that each block
lies in the used segment that starts at it, before the next header (`Holds`), that free segments
meet in *one* place at most (`OnePair`), and that the last segment is a page or longer. `OnePair`
is why one pass of pairs is enough, and stronger than `AtMostTwoFree`: `Allocate` may take one
half of the only pair or cut a segment whose rest meets a free one, and never makes a second
(`TakeKeeps`); `Free` may make three or four free segments in a row, and its pass merges them
until one such place is left (`FreeKeeps`). The length of the last segment is what
`ReserveAtEnd` needs: the first page that `Reserve` maps begins less than a page before that
segment's end.

What the pass has done after `i` segments is stated without the recursion (`SweptRight`): the
merged list holds the segments visited so far, each alone or with the one before it, its last is
the end of what was visited, and free segments still meet in it only where the pass could not
merge. The least number of segments for which it fails would be the contradiction
(`SweepIsRight`); that the recursive function exists at all is shown in the same way
(`PassedIs`). Two facts about remainders carry `Reserve`: a size that `Allocate` has rounded
fits, rounded once more, into the new segment, either exactly or with room for a header
(`NewFits`), and so `Split` never wraps there.

### 5.4 The heap under interrupts

`HeapInterrupts` is `Heap.cpp` access by access: headers lie in memory at their addresses,
`Allocate` and `Free` of the main code are a pass of a loop or one or two stores each, and an
interrupt makes a whole `Allocate` or `Free` between any two of them (a TICK that sets a
label's text, a click that starts or kills a program). Nothing locks the heap. `disturbed` notes
that an interrupt changed a header that the main code had read and still used. Until such a race
(`BlocksSafe`, an invariant of run `memory`) the headers are in order, no two callers share a byte
and no header lies in a block, and every live block is the block of a used segment that `Free` will
find. Sizes are small (a header of 1, a granule of 2, pages of 4) and two
initial sizes make `Split`, the merge and `Reserve` all happen; four blocks, six calls. `Reserve`'s
`LastSegment` faults are those of `Heap`, where they are looked into.

`MemoryProofs` proves `BlocksSafe` (`HeapBlocksSafe`) for all sizes of headers, pages, requests and
first segments that `InterAssumption` allows. The list is not a variable here: it is what one finds
by following `next` in memory, so that the first half of the argument is about chains. Any
sequence that begins at the first header, goes on with each header's `next` and ends with none
*is* the list (`ChainIs`). From that, each kind of store is one lemma about which list is found
afterwards: an address written into a size or the used flag (`WrittenKeeps`, `MarkKeeps`), a header
linked behind another (`ShortenedKeeps`), one appended (`LengthenedKeeps`), one taken out by a
merge (`JoinedKeep`, `JoiningIs`, and for an interrupt's whole pass `SweptKeeps`, `MergeKeeps`).
The second half is the invariant, which TLC checked on two sets of constants before it was proved:

    InterInv == HeadersGood /\ CallTypes /\ (~disturbed => CallHolds)

`HeadersGood` says that there is a sound list, that its used segments and the live blocks are the
same (`KeptIn`), and that each has its bounds; it holds after the race too, where the model stops:
the harm is done by main code's next store. `CallHolds` says, step by step of `Allocate`,
`Split`, `Reserve` and `Free`, what main code has read and relies on: that the segment it stands at is
on the list, free and large enough (`"link"`, `"mark"`), that nothing was behind the tail it extends
(`"append"`), that the two it joins are neighbours and free (`"merge"`). There is one lemma for each
of main code's steps, and one for the interrupts (`InterruptKeeps`): a whole call either
leaves all of that as it is or sets `disturbed`. That live blocks are apart is a consequence
(`BlocksApart`).

## 6. The compositor

### 6.1 Module

`Compositor` models `Compositor.cpp` between the loop (`Draw`, `Look`, `Render` are a DRAW
request and `Update(i)`; `Update`, `RenderAll`, `Reset` are `Update()`; `Test`, `Hide`,
`Copy`, `Restore` are `SwapBuffers`) and interrupts (`Change`: a window moved, minimized,
raised or killed; `MoveMouse`: `RedrawMouse` at the end of `MouseInterupt`; `SetDrawMouse`).
A buffer is abstracted to the processes that it does not show as they are (`staleBack`,
`staleFront`) and the places where it has a cursor. `CopyMemory` goes from place to place in
any order, with interrupts in between. Where no interrupt can tell the difference two writes
are one step (the request after `Render`, the flag at the end of `Restore`). The processes are
a fixed list; what `Update` does while it changes is part of `ProcessHandler`.

History variables: `overtaken` (a change during a redraw, forgotten when its request is reset
with the redraw's; cleared by the next redraw), `wish` (what drawmouse was set to), `meddled`
(drawmouse was set inside `SwapBuffers`).

### 6.2 Runs

Run `screen`, part "buffers": two processes, so that one is rendered when the other changes,
and three cursor places: (0, 0), which `OldMousePos` is at first, and two more, so that the
mouse can move on from the place that `SwapBuffers` has saved. The two are a symmetry set.
`drawmouse` (expected violation): a `set drawmouse 0`, as the system menu's TTY button runs in
a mouse interrupt, inside `SwapBuffers` is undone by its last line, against the manual of `set`
(`System.cpp:288`).

### 6.3 Proof

The run checks `NothingForgotten` (what the screen does not show as it is has a redraw pending,
but for a change made during one) and `CursorClean`: `TypeOK`, `SwapBuffers` leaves no cursor in
Backbuffer (`BackHasNoCursor`), the screen has one at `OldMousePos` only (`OneCursor`), and
`DrawMouse` is what it was set to (`DrawMouseKept`). `CompositorProofs` proves all five, and
`CursorClean` as a whole (`CursorIsRight`), for any number of processes and places, from
`CompositorAssumption`. `Inv` adds `Served` (a redraw that nothing has overtaken has rendered the
processes it has passed, and both buffers are current once it has copied), `CursorSaved` (the
cursor in Backbuffer is where `SwapBuffers` remembers it) and `InSwap` (while `SwapBuffers` runs,
`DrawMouse` is cleared and the screen has a cursor only at `OldMousePos` or where the copy has
still to come). The proof splits it into the picture and the cursor, each kept by every action
separately.

## 7. The request stack

`RequestStack` is `PushRequest` and `PopRequest` of one process, one memory access of the main
code at a time; `access`, `loaded` and `hand` are its position, the amount it loaded and the
request it moves. Interrupts push whole requests, or minimize the process, between any two
accesses. The slot and `RequestAmount` may be accessed in either order, as a compiler may choose.
A request is the number of its push. `risky` is a history variable: the requests on which an
interrupt's push and the main code's push or pop worked at once.

In `MCPrograms` the instance has three slots and five requests, so that the stack fills up,
empties and is pushed to in every intermediate state. `StackSafe` is `TypeOK`, `InBounds` and
`ExactlyOnce`: `InBounds` says that no access leaves the
array or takes a slot never filled; `ExactlyOnce` that a request that is not in a race is
refused, waits or is served, exactly once; `ImplementsRequests` that until the first race the
two functions are the atomic stack `Requests`, which is what `ProcessHandler` takes them for;
`Drained`, a part of `WorkEnds`, that a window that stays open has its requests served, older ones
too, when no more are pushed. While they are, nothing is promised of the older ones, rightly so: the
stack is last in first out and a RESET or KILL below a DRAW with every tick is starved in the
code (`Process.cpp:81`). `Drained` needs weak fairness of the main code: the processor goes on.

`ProgramProofs` proves `StackSafe` (`StackIsSafe`) and the refinement (`ImplementsTheStack`) for every
capacity. The invariant says of each `access` which slots are filled and how `RequestAmount` relates
to `loaded` (an interrupt only ever raises it above), and that a request is in one place only.

## 8. Windows and pixels

`Windows` holds, of each process, type and position, and of the screen which process painted
each pixel last (`shown`). `SetPos`, `GetSize`, the hit tests, `Minimize`, `SetDepth`, `Close`
and `Render` are translated with their coordinates; `MouseInterupt` is one action for each of
its branches, `Draw` and `Update` are the compositor's two redraws. Run `windows` has a desktop,
a menu and a window on a screen of 12 by 9 points, five spots for the mouse and an edge, bar and
button of one or two points, so that every part of a frame can be covered, cut off or clicked.

* `PictureRight` is `TypeOK`, `FrameInside` (a window that is shown as one is inside the screen)
  and `NoGhost` (nothing remains of a window that moved or went).
* `ClickMeetsPicture`: a click on a process' title bar or content reaches the process whose
  picture is there, when the picture is up to date. A minimized window that reaches beyond the
  right edge is excepted.
* `StaysInReach` is `Reachable` (a window can always be dragged and closed) and `OnePast`: what
  `Render` writes past `Backbuffer` is at most the one pixel that its rectangles put behind their
  end, with one exception, which it names: the title of a minimized window that hangs over the
  right edge (`Hangs`) is broken into a second line of text, which near the lower edge lies
  below the screen. With the source's sizes (a bar of 30, glyphs of 8 by 16) this
  needs a minimized window dragged into the corner, and the instance reaches it.

That the higher of two processes in the list is on top where they meet is no property:
`SetFocusedProcess` (`ProcessHandler.cpp:38`) reorders the list and asks for a redraw only for
windows.

`WindowsProofs` proves `PictureCorrect`, `ClickCorrect` and `ReachCorrect`, the run's three
properties, for every screen, every set of processes and every length of title that
`WindowsAssumption`, `PlacesAssumption` and `ReachAssumption` allow: the desktop fills the
screen and a window begins on it with its frame; buttons and title fit into a bar, and the
margins that the mouse keeps do not hide the close button. The constants of the source satisfy
them (1920 by 1080; a bar of 30 and an edge of 4, glyphs of 8 by 16).

`Inv` is `TypeOK`, `NoGhost`, `Desk` (a FULLSCREEN process runs) and `Home(p)` for every process,
listed or not: where `SetPos`, dragging and minimizing may have taken it. `NoGhost` rests on
`Desk`, since the desktop covers every pixel (`DeskCovers`). For `ClickCorrect` the picture is
compared with the hit tests: what is over the title bar or the content of a process is rendered
by it (`TitleSeen`, `ContentSeen`), so that the last one to render a pixel is the first
one that the scan from the top finds. `ReachCorrect` needs `InReach`, which TLC checked first: a
window being dragged is held to the right of its left edge (`delta[1] < 0`), and so the left
edge of a minimized one is never in the margin that the mouse keeps. What `Render` writes past
the end is bounded rectangle by rectangle and glyph by glyph, each by the last line it touches.
The x and y of a glyph are a recursive function of its number; the proof exhibits the solution
of its equation, and takes the first glyph that would leave its line for the contradiction.

`Framebuffer` is every operation of `Framebuffer.cpp` over the memory of a process' frame
buffer, and `Canvas` the picture a program means to draw. Two operations of any kind, with
corners inside, on and across each edge, from memory in which all pixels differ, refine the
picture; a character is on one line (`TextInLine`); nothing is written outside of the memory
(`BufferTypeOK`). `ImplementsCanvas` is all three: `[]InsidePicture`, which are the last two, and the
refinement. Two operations are enough for one to work on what another
has drawn, and the first is unrestricted.

`CompositorProofs` proves the last two (`BufferIsSafe`) and the refinement
(`BufferImplementsCanvas`) for every width, height, pitch of memory, edge and font of
`FramebufferAssumption`. A point that is not outside of the picture has an index inside of the
memory (`IndexInside`), and two such points have two (`IndexOnce`), so that a store at a set of
indices is the painting of a set of points (`StoresAll`). Each operation then has a lemma: which
points its loops reach, and that all that would be outside were sorted out before
(`DrawRectEdgePaints`, `PutCharPaints`, `ScrollUpPaints`).

## 9. Devices

* `KeyBoard`: one step is one scan code and what its handler does with it. The keys are one of
  each kind of row of the two tables. `ShiftNeverSticks`, `WaitingKeyIsDown` and
  `DeliveredIsDown` bind the driver's state to the keys that are down, over every order of
  presses, releases, repeats and changes of focus; with `KeyTypeOK` they are `KeysReleased`.
  `KeyCache` is weaker: an entry other than shift's may stay set when shift or caps lock changed
  between press and release (`KeyBoard.cpp:145`); no property claims otherwise. `DriverProofs`
  proves `KeysReleased` for every set of keys; `DeliveredIsDown` is an action property, proved
  step by step from the invariant of the other three.
* `Mouse` (`MouseRight`): bytes on the wire get lost (`MaxLost`) or come late. `AlignedUntilLoss`
  and `HandledAsSent` hold before the first loss, `OnScreen` always. `BackInStep` holds if
  movements keep bit 3 clear, which is the second instance (`Narrow`); with others the driver may
  stay out of step, which is why the first instance does not check it. It is a part of `GoesOn`
  and assumes that the mouse goes on moving and that its bytes raise interrupts (weak fairness of
  `Send` and `Interrupt`). `DriverProofs` proves `MouseRight` (`MouseIsRight`, of `MouseIsSafe`
  and `MouseHandlesAsSent`) for every screen and set of movements: until a byte is lost or a
  spurious one comes, what is on the wire and in `MousePacket` is one movement, divided at
  `MouseCycle` (`InPacket`).
* `Clock`: `RTC::Update` reads six registers in the timer's interrupt while the clock runs on;
  main code prints the time with interrupts on. A clock with short registers and both codes
  carries over in every position. `Torn` is the exact bound: each field is that of the second
  before or after; `QuietIsExact`, `NeverBehind`, `Fresh` and `PrintedWasShown` say when more
  holds. `TimeRight` is all of them, and `DriverProofs` proves it for every radix and period. A
  clock in 12-hour mode is left out (`RTC.cpp:82` would take the PM bit into the hour).
* `PCI` (`EnumeratesAll`): one step is one pass through one of the four loops of `Enumerate`,
  whose counters are static. Every machine out of ten functions in two segments: the enumeration
  implements `Devices`, a list that is given out one by one, however earlier ones were broken
  off; the bus `EndBus` of a segment is not visible to it (`PCI.cpp:41`). `FirstController`
  includes that `AHCI::Init` reads BAR5 through a null pointer if there is no controller.
  `AlwaysEnds`, a part of `GoesOn`, assumes only that the call goes on. `DriverProofs` proves
  `EnumeratesAll` (`EnumerationIsRight`, of `EnumerationIsSafe` and `EnumerateGivesDevices`) for
  every table MCFG and machine. The invariant: the four counters stand where the code can have
  left them, in a bus and a device that have answered (`Standing`), and what was given out is
  what is visible below them in the order of the counters, so that the next function found is the
  next of the list.
* `Interrupts`: the steps of `KernelMain` in their order, `SetupInterrupts` as the 8259
  controllers see it, `InitPS2` as the 8042 does, and the handlers up to which byte each reads
  and which controller it acknowledges. The controllers, the devices and the processor's
  acceptance of an interrupt are external. `BootOrderly` is `TypeOK`,
  `GatedOnly`, `NothingEarly` and `Acknowledged`, which are about order; `SharedByte` is
  `StaysInStep` and `OnlyCompaqBit`, and `BytesTaken` a part of `GoesOn`, about the one byte that
  keyboard and mouse share.
  Fairness: the kernel and a handler go on, the controller answers, and an interrupt that is
  requested again and again is taken in the end (strong fairness of `Deliver`); `BytesTaken`
  assumes in addition that the timer's interrupt does not take all of the processor.
  `OnlyCompaqBit` says that `InitPS2` changes the controller's configuration only where it means
  to, with one exception. Keys may be hit at any time, since nothing in `IDT.cpp` or `Mouse.cpp`
  disables the keyboard, and `InitPS2` takes the byte that lies there at `Mouse.cpp:89` for the
  controller's answer: the scan code of a key is then written back as the configuration
  (`Misread`). `BytesTaken` has the same exception, since a configuration made of a scan code may
  have the interrupt of either device off; TLC finds both violated without it. `DriverProofs`
  proves `BootOrderly` (`BootIsOrderly`), `StaysInStep` (`HandlersStayInStep`), `OnlyCompaqBit`
  (`CompaqBitOnly`) and so `SharedByte` (`SharedByteHandled`) for every configuration the firmware
  leaves and keys hit at any time. TLC checked the invariant first: a handler runs only with interrupts on
  and is in service exactly where it was raised (`InService`); the mouse is silent until it is
  spoken to, so that the byte `InitPS2` takes for the answer reads as a configuration (`Polled`),
  the controller's own unless it is a key's (`Unasked`). `StaysInStep` then follows for each action
  from the fact that a byte raises one line (`Raises`).

## 10. Programs and commands

* `CommandLine` is the tty and the terminal: keys and ENTER are whole interrupts, DRAW is the
  main code's, step by step. `OutputSafe` has these parts: `OutputKept`, `PrintedOnce`,
  `LineAsTyped` except what the history variables `racing` and `eaten` name: an ENTER, or a key,
  inside of a DRAW. The tty tests `RedrawText` before it scrolls and the terminal behind that, so
  that one DRAW of the terminal may scroll and an ENTER make it print (`TestText`); both measure
  `Text` twice (`Measure`, `TakeAmount`). Print also begins lines at the buffer's width, which
  `LineAmount` does not count (`wraps`): the prompt may end below the screen by as many lines as
  the last print took so, and does, until the next scrolling takes them up. `PromptVisible` says
  that, and `ScrollInside` that the frame buffer is not scrolled by more than its height, with
  the exceptions that the Text of a DRAW has more lines than the screen or an ENTER came between
  its measuring and its printing (`upset`, and `astray` for the DRAW before), and for
  `ScrollInside` two lines or more that were wrapped. `OutputAppears`, a part of `WorkEnds`,
  assumes that the loop goes on. A command line of two characters, outputs of one and four line
  feeds that wrap not at all or twice, on a screen of four lines and a bit, two commands after
  the welcome. All terminals, of which there may be one, and the tty have their own variables, so
  that one of the two is modelled at a time (`windowed`). `ProgramProofs` proves `OutputSafe` (`OutputIsSafe`)
  for every length of the line, height of the screen, set of outputs and number of commands.
  `TtyInv` says what holds at each step of DRAW while keys come between: the line and what was
  typed are the same behind the reset and `typed` is empty before it (`LineKept`); from the
  printing on, all that waits in `Text` was printed or came in during the DRAW (`TextPrinted`);
  and, without the exceptions, all of `Text` fits below the prompt between the scrolling and the
  printing, and the prompt is at most as far below the screen as the last print wrapped
  (`LineInside`). That the lines of `Text` are a number at all is an induction over its outputs,
  which is done from the least one for which it fails (`TotalIs`, `TotalInNat`).
* `Tetris` (`GameSafe`): pieces, rotation and collision on a grid of four by four with a square
  and a piece of four rotations, six pieces; `Left` counts down in a byte of few values so that
  it wraps. The exceptions are in `odd`: a key that moves the piece during an animation, ENTER
  that cuts an animation short, and a full line cleared with blocks in line 0, which stay and are
  copied (`Tetris.cpp:392`). `ClearEnds`, a part of `WorkEnds`, assumes that the loop goes on
  drawing. `ProgramProofs` proves `GameSafe` (`GameIsSafe`) for every grid, set of pieces, speed
  and width of `Left`. The invariant is about what DRAW finds at each of its steps while keys and
  ticks come between: no line above the one it looks at is full unless it has found one
  (`Searched`), lines are cleared only above a fresh piece or an empty grid (`Fair`), which is
  what keeps the lines that come down from the piece. That no block gets lost is a count: what a
  shift leaves is in bijection with the blocks off the full line.
* `Calculator` (`ArithmeticRight`): buttons over a word of five bits and a long of thirteen, two
  digits, four operators. `SumRight` holds always, `ProductRight` for two numbers. For `-` there
  is no such property: the first press subtracts the label from `PreviousNum`, which is 0
  (`Calculator.cpp:247`). `ProgramProofs` proves both (`CalculatorIsRight`) for every width of a
  word and a long and every length of the label, if the long holds the largest number that fits
  the label (`CalcAssumption`). `CalcInv`: while digits are typed the label is below the power of
  ten of their number, so nothing wraps; before the first operator `PreviousNum` is 0; behind one
  it is the value of what was typed, as long as nothing but `+` was pressed or the operator is
  the first and is `*` or `/`.
* `CString` has the functions on strings that the commands are made of, character by character
  because hashes and numbers are: `HashWord`, `NextWord`, `ToInt`, `ToString`, `CopyString`.
* `Shell` (`ShellRight`): the command table, `start`, `kill` and `set` with the loop's own starts and
  kills, and the font that main code uses while a command sets it. `NamedRuns` compares every name
  with every other; `AnswerNamesIt` and `NoneTwice` bind the ID that `start` answers to the processes
  there are; `GoneWasKilled` says which process a line may remove, and includes that `kill` alone is
  a `kill` of the ID 60; `FontExists` is about the two reads of `GetFont`.
  The loop's own `StartProcess`, of the topbar when the desktop's animation ends and of a tty when
  nothing is left, is main code with interrupts on: `Search`, `IncrementID`, `ReadID`,
  `RaiseSize`, `Store`. A command in between makes two of the topbar, one ID for two processes, or
  spoils the list inside `Push`. The history variable `mixed` says which ("twin", "id", "lost"), and
  `NoneTwice`, `AnswerNamesIt` and `GoneWasKilled` name it as their exception; TLC finds each
  violated without. What a slot holds that a `Push` left as it was is the process handler's
  matter (section 3). IDs from 58 to 62; processes and fonts, which do not meet but in the
  commands that one interrupt runs, are two parts of the run ("shell", "fonts").
* `CommandOutput` (`TablesRight`): what `list`, `heapvis` and `sysfetch` write into arrays of
  fixed size. `TableFits` and `HeapvisFits` give the exact number of rows that fit, `ShownRight`
  which older digits a shorter number leaves visible: for `Segments` and `Ticks`, which end
  without a unit, all of them (`System.cpp:655`). `list` and `sysfetch` are two parts of the run.

`CommandProofs` proves both. `ShellRight` (`ShellIsRight`) is for any arguments of up to nine
characters, any IDs below 10^9 and any number of fonts that fit a byte (`ShellAssumption`; a
number of 20 digits would wrap around in `ToInt`, whose arithmetic the model leaves unbounded).
Its first half is about strings. `ToInt` of a string whose value is known is that value
(`ToIntOfString`) and `ToInt(ToString(n)) = n` (`ToIntOfDigits`), by the least length for which
it fails, since an induction cannot be cited; a number with zeroes in front is read as that
number (`NumberTyped`); a line joined of a word, a space and a rest has that word and that rest
(`Joined`, `WordIs`); and three nibbles of a hash tell all names of each of the three tables
apart (`CommandsAre`, `StartableProcessesAre`, `SettableVarsAre`). The second half is the
invariant

    ShellInv == LineInv /\ ProcessesInv /\ FontInv /\ LoopTypeOK /\ LoopInv /\ opening \in BOOLEAN

`LineInv` says what `ran`, `started` and `killed` are for the line that ran last, `ProcessesInv` that
no program runs twice and that an answer names a process, `LoopInv` that, unless a command came
into it, what the loop starts does not run yet and nobody has the ID that it took, `FontInv` that
a font that was tested and not set since exists. `GoneWasKilled` is an action property, from the same invariant.

`TablesRight` (`TablesAreRight`) is for any set of IDs below 10^9, of segments' sizes from 64 bytes
on, of numbers, and any bound of rows (`OutputAssumption`). `OutInv` is arithmetic: a table whose
lines did not fill their column is 208 characters and 70 for each row, and 69 at its end; a
segment of heapvis takes between 29 and 34. `FetchInv` says of the field which of its characters
are the last number's and which may be older: it is the number and its unit, and behind them
what the longest number left.

## 11. The STL

`ProcessList` is `STL::List` with the bytes `Reserve` asks for, `Items` the sequence it should
be. `Reserve` asks for as many bytes as it means elements; `FitsOneQuantum` says that exactly the
heap's rounding to 64 makes room for eight pointers, and there are eight programs; until then it
implements `Items`. `MemoryProofs` proves the refinement (`ListIsSequence`) and, for any width of
elements and length, that no function touches what is outside of its block while twice the
longest list fits into a quantum (`ListStaysInBlock`). `ImplementsItems` (`ListImplementsItems`)
is the refinement and `ListFits` (`ListTypeOK` and `FitsOneQuantum`). The instance has a quantum
of 32 and up to six elements, so that both sides of the limit are reached.

`GrowingString` is `STL::String` as a text that interrupts append to while main code prints it,
with blocks that still hold what was in them before. `TextRight` has three parts beside the
types: the string owns one block (`OwnsOne`) and is printed with nothing behind it (`PrintsText`);
`FreedByAppend` says which interrupt frees the block that main code reads. `PrintEnds`, a part of
`WorkEnds`, assumes that main code goes on. `ProgramProofs` proves `TextRight` (`TextIsRight`, of
`TextIsSafe` and `OnlyAppendsFree`) for any heap, texts and lengths: `StringInv` says where
the first 0 of the block lies at each step of an append and of the printing, and that main code's
pointer is the string's until an append `torn` it.

## 12. Page tables, booting, stopping

`PageTable` is `MapAddress` access by access: the entry is read (`Read`), a page for a new table
found (`FindPage`) and locked (`TakePage`), cleared (`ClearPage`) and stored in the entry
(`Install`). Between any two of these an interrupt may grow the heap, which requests a page and
maps it with a walk of its own (`InterruptMap`); main code does so too (`LaterMap`), and the drivers
map registers. What the heap writes into the pages it was lent is in the model (`Use`), as a
page may be lent to it and be a table as well. A request that fails yields page 0.

Three history variables say what may go wrong: `crossed`, an interrupt mapped between the main
code's reading of an absent entry and its storing of a table there; `shared`, an interrupt was
given the page that main code had found for a table and not yet locked, which is a crossing as
well; `exhausted`, pages ran out. Until pages are crossed or out (`Clean`) it implements
`AddressSpace`. `TableSafe` is the type invariant; `MappedAsAsked`: until then the processor finds
what `MapAddress` was last told; `NeverElsewhere`: after a crossing an address may be absent but
leads nowhere else; `BootKept`: what `PageTable::Init` mapped stays mapped, crossings or not. These
two except `shared`: through a table that the heap was lent too an address may lead anywhere, and
TLC finds each of them violated without that exception. A page that both were lent for the heap
is the matter of `PageAllocator` and no exception here. Three addresses share tables at three
levels.

`MemoryProofs` proves `TableSafe` (`TableIsSafe`) and the refinement (`TableImplementsMap`) for
any number of pages, entries per table and addresses, from `PageAssumption`, `VirtualAssumption`
and `BootAssumption`. TLC checked the invariant first: while pages last and none is shared, the tables are a tree in
which no table is on two ways or free (`Tree`), main code holds the table and the new page its
walk has led to (`MainGood`), no page of the heap is a table (`HeapApart`), a place where it
installs a table has none yet unless `crossed`, and what `Init` has mapped is not below it
(`Installing`), and the walk of every address ends in the page last asked for, or nowhere after a
crossing (`Answers`). A store at one entry changes the walks
that agree with the address down to that level and no others (`Linked`); with `Tree` that gives
each of the three properties for every action. An interrupt's whole `MapAddress` is at most three
such links and a leaf. The refinement maps to the address space the walks while `Clean` and what
was asked for after it, so that an unserved step of main code is a stutter.

`BootLoader` is `efi_main` and what it calls; the firmware, external, may refuse an allocation
and use memory between any two calls. Machines of five pages, kernels of one and two segments,
the volume that the Makefile builds, one without directories and two broken ones, up to two
configuration tables, one use of memory by the firmware (`MaxEvents`). `KernelReceives` is
`EntersOnlyWithFiles`, `KernelIntact`, `MapWhole` and `RSDPFound`, which say under which
conditions the kernel gets what it expects. The status of `AllocatePool` is nowhere looked at:
where the header of a font, its glyphs or the kernel's program headers are refused
(`main.c:119`, `141`, `193`) the loader reads the file through a pointer that was never set
(`ReadIntoPool`). The bytes then land in any page of memory, whoever holds it, and the loader may
go on or stop; `denied` records it, and nothing is promised from there on. The pool for
`FileInfo` (`main.c:176`) is never read or written through its pointer, of which `GetInfo` is
given the address. That the loader does not try `ExitBootServices`
again, and hands over the table of a wrong index, is in the model; the four properties name what
then still holds.

`MemoryProofs` proves `KernelReceives` (`KernelReceivesRight`) for every volume, kernel, machine
and number of tables. `LoaderInv` keeps, stage by stage, what the loader has done: each file read
is the one the volume has (`FilesRead`), the segments loaded so far lie, unless an allocation was
denied, in memory that is no longer free and so is given to nobody else (`SegmentsKept`), the buffer is long enough while
nothing was added to the map (`MapFits`), and the table found is the last that is an ACPI one
(`TableTaken`). A segment of one byte is excluded by `LoaderAssumption`: the loader
would ask for no page at all for it.

`Panic` is what is on the screen when `Error`, `shutdown` or `restart` stop the kernel, one
cutting another short. Four sizes of screen, the shortest and longest of the messages. `StopsReadably`
says that the kernel, once halted, stays so (`StaysHalted`), and shows the message of the error
that stopped it and no other, or the word that it may be turned off, with nothing drawn over it
(`NothingLeft`, `MessageReadable`, `SafeReadable`). `Halts`, that it gets there, is a part of `GoesOn`
and assumes that the processor goes on. `shutdown` draws, disables interrupts and waits; the call
that would turn the power off is commented out (`System.cpp:466`), and the model has none.

`DriverProofs` proves `StopsReadably` (`StopsForAllToSee`) for all messages, jokes, numbers and
screens of `PanicAssumption`. It names the lengths of the texts that the code centres, since the
provers do not know the length of a string; that messages differ from jokes, numbers and
captions, as they do in the source; and it leaves out screens from 864 to 959 points wide, where
the 40 characters of the last word begin left of the screen by less than two characters, and are
then not moved to the next line. `HaltedForGood`: interrupts are open in a call that stops the
kernel only until its first step, `CLI` (`Closed`). `NoOtherMessage`: an error's steps clear the
screen before they write, so that behind the clearing all that is shown is the error's own
(`Writes`). What is drawn *beside* the message rests on `DrawInv`: the next step of an error is
known from how many are left (`Turn`), the cursor of the message's line is one line below the
caption's however many lines the joke has filled, and all that is drawn later begins below the
message's last line; of `shutdown` and `restart` it says what the last three steps are.

## 13. Findings

Two runs expect a violation, each of a sentence of the repository: `drawmouse` (section 6.2)
and `heapvis` (section 5.2). `PROJECT.json` quotes them.

## 14. Not modelled

* The vendored `gnu-efi` (`src/gnu-efi` but for `bootloader/main.c`): about 27,000 of the
  35,000 lines of C in the repository, third-party headers, start-up code and wrappers of
  firmware calls for several processors, of which the boot loader uses a handful. They hold no
  behaviour of this kernel. That is also why the share of all C lines that `map` covers stays
  low: of the kernel's own code, some 8,000 lines, the map covers about five of eight.
* Painting: what desktop, topbar, menus, calculator and Tetris draw inside of their frame
  buffers, `Label::Draw`, `Button::Draw`, the texts of `help`, `manual` and `date`. They are
  sequences of calls that `Framebuffer` models, and decide nothing.
* Tables of constants: the font glyphs, `DeviceHeader.cpp`'s names, the scan code rows that
  differ from another row only in their character, the GDT.
* `ACPI::FindTable`, `HBAPort` and the AHCI registers: one walk over firmware tables at boot;
  no operation of the disk exists yet.
* What `GetInfo` writes over the pointer `FileInfo` and behind it on the loader's stack
  (`main.c:177`), whose length was never set: the file information is not used.
* Two terminals at once, which `StartProcess` excludes but for the races of section 3: both would
  share the variables of one program.
* `IO`, `STL::CopyMemory`, `STL::SetMemory`: single instructions, or steps of those who call.
* `PIT::Sleep` and `ARGB`'s gradient have no caller.
* The processor's caches and the TLB beyond what `Heap` says of a page mapped anew, and the
  kernel stack, which a RESET lets grow.

## 15. What stays with TLC

Of the 40 properties that the runs check 36 are stated by a listed theorem, all but these:

* `TtyComesBack`, `LoopComesRound`, `GoesOn` (`BackInStep`, `BytesTaken`, `AlwaysEnds`, `Halts`) and
  `WorkEnds` (`Drained`, `OutputAppears`, `ClearEnds`, `PrintEnds`) are liveness under fairness, which
  the prover cannot do.

The theorems are about the components, each with its own `Spec`. That a bench's behaviour is one
of a component's, and stays where it began for the others, is how `PartNext` is written, and no
theorem says so. Where a function over data is recursive (the pass of `Free`, the digits of a
number, the lines of an output) the proofs work from the least argument for which a claim
fails, since an induction rule cannot be cited; each such claim is a lemma of its own. The operator
definitions that a `CHOOSE` makes (`WordEnd`, `GetDigitAmount`) are proved to have the value that
their text describes.
