# A TLA+ model of fallout-emu

fallout-emu runs a 32-bit Windows game on a Mac. It maps the sections of a PE file into
an address space of its own, interprets the x86 code there one instruction at a time and
answers the calls of imported WinAPI functions in Objective-C. This directory holds TLA+
modules for the parts of it whose correctness depends on order, on history or on limits,
TLC configurations that check them on small instances, and TLAPS proofs of the results
that do not depend on the size of the instance. `PROJECT.json` maps each definition to the
lines it stands for; all paths below are relative to `src/fallout-emu/` unless they start
with another directory.

## 1. The system

### Components

| Component | State | Operations | Hard because | Correct when | Module |
|---|---|---|---|---|---|
| Memory map (`FEMemoryMap.c`, `FEMemoryMapBlock.c`) | sorted array of blocks; per page: the block, the rights | mapAddress, malloc (first fit), free, setAccessMode, blockFromVirtualAddress | three structures that must agree; free touches one entry of one of them; 32-bit sums wrap | what the guest holds stays its own and resolves to its own memory; the search never meets its own assertion | `MemoryMap`, `AddressSpace` |
| VirtualAlloc, VirtualFree, VirtualProtect (`FEKernel32DLL.m`) | a static `calls` flag that outlives a process | allocate, release, re-protect | first call of the host process differs from all others; a second protect aborts | as above | `MemoryMap` |
| Decoded instruction cache (`beaengine_utils.m:20-99`) | per block: index array, decoded instructions, lengths | fetch (miss, hit, uncached, unknown), drop on changed rights | the guest rewrites its code; instructions straddle pages; invalidation is by block | the interpreter is given what memory holds, with its length | `DisasmCache` |
| Interpreter (`FEProcess.m`, about 3300 lines) | registers, flags, eip | some 250 opcodes, a jump table in one method | state passes between instructions in flags and ecx; three widths | pieces of code written for the processor come out as written | `Interpreter`, `Idioms` |
| Registers, flags, alu (`FEThreadContext.c`, `FECPUFlags.c`) | the register file, nine flags | add to rcr on the host's own alu; products and quotients in C | partial registers; carry chains; range assertions | as above | `Alu` |
| Calls and the stack (`FEProcess.m:2900-2970`, `FEStack.c`) | stack words, esp, ebp | call, ret, leave, import call | a proxy may rewrite the stack below its own return address | the caller finds its words and its answer | `GuestCalls` |
| Windows (`FEUser32DLL.m`) | handles, message blocks, structs | CreateWindowExA, UpdateWindow, DispatchMessageA, the machine code of handle_messages | calls nest to any depth; a loop in guest memory drives them | every message delivered once, in order; every call returns | `GuestCalls`, `WindowCalls` |
| DirectDraw (`FEDDrawDLL.m`), the window (`fallout-emu-mac/.../AppDelegate.m`, `GameScene.m`) | contexts, mode, surfaces; frame buffer, texture | Create, SetDisplayMode, CreateSurface, Lock, Unlock, Blt; convert, update | two threads share a surface's memory without a lock | the window shows whole pictures; Blt returns | `Display`, `Screen` |
| Kernel objects and files (`FEKernel32DLL.m`) | handle table and its static counter, C streams, the disk, last error | CreateFileA, SetFilePointer, ReadFile, CloseHandle, DeleteFileA, CreateDirectoryA, objects of other proxies | 64-bit seek from 32-bit distance; numbers come back; a stream is opened before the path is looked at | a handle leads to its object until closed; streams stand where the guest expects; no stream is lost | `Kernel32` |
| Imports (`FEImportsProxy.m`) | links, link blocks, proxies | link, LoadLibraryA, GetProcAddress, dispatch | a library loaded twice; blocks found again by tag | an address runs the function the guest asked for, whatever is loaded later | `ImportsProxy`, composed into `Kernel32` |
| FEArray (`FEArray.c`) | elements, size, capacity | append with growth, merge sort | integer growth; a sort that must be stable | in order, nothing lost, room for every append | `FEArray`, `BlockArray` |
| FPU (`FEFPU.c`, `FEProcess.m:1927-2900`) | ring of eight registers, top, condition bits, rounding | every floating point instruction of the interpreter | a stack that wraps; operands taken from the wrong argument of the decoder; conversions | each instruction does to the guest's stack what its compiler expects | `FPU`, `RegisterStack` |
| DirectSound (`FEDSoundDLL.m`) | buffers, locks | Lock, Unlock, Release | blocks per lock | a lock is a malloc, an unlock a free | (`MemoryMap`) |
| GDI (`FEGDI32DLL.m`) | none of its own | GetStockObject | its handle comes from kernel32's table, but it does not touch the last error | as for kernel32 | `Kernel32` |
| LDT, DirectInput, winmm, msvcrt, exceptions, logging, test driver | little or none | - | - | - | not modelled |

### How they interact

* The run loop (`FEProcess.m:278`) fetches through the cache, which asks the memory map
  for block and rights; it executes one instruction; the instruction reads and writes
  memory through the map.
* `VirtualProtect` changes rights in the map, which calls back `memoryMapAccessModeChange`
  of the process, which drops the cache of one block.
* `call [import]` runs a proxy on the host. A proxy reads its arguments from the guest's
  stack and returns how many bytes to drop. Three proxies of user32 need guest code to run
  before they are finished: they push a frame and let their `ret` land in `handle_messages`.
* All proxies of objects take handle numbers from one table of kernel32. Kernel32 and user32 clear
  its last error before each of their functions (but GetLastError); the other libraries, gdi32
  among them, leave it as it was.
* A call to an address inside a link block runs a proxy; `LoadLibraryA` allocates such a block
  from the memory map and `GetProcAddress` hands out addresses in it.
* `Blt` posts a block to the main queue with `dispatch_sync` and waits; the main thread
  reads the surface's memory directly.

The guest is the environment: code that keeps the calling convention and touches only
memory it holds. It is modelled by what such code may do next, never by a particular program,
except in `Idioms`, whose programs are short sequences that compilers and libraries emit.

## 2. The modules

### Memory: `AddressSpace`, `MemoryMap`

`MemoryMap` has an action per operation and outcome: `Load` (sections), `Malloc`,
`MallocOccupied` and `MallocExhausted` (its two assertions), `MallocHandler` (the block of the
message loop, which `handleMessages` asks for with all rights and then sets to read and execute),
`VirtualAllocFirst`, `VirtualAllocOccupied`, `Release`, `VirtualProtect`, `VirtualProtectUnknown`.
A range given to `VirtualProtect` may cross from one section of the image to the next.
`MallocOutOfShadow` and `VirtualAllocOutOfShadow` are for requests whose pages lie behind the end of
the shadow table: the loop of append reads and overwrites what happens to be there, so the emulator
stops, or goes on as append does.
The array of blocks is a set here: it is sorted after every append, and the set and the order
`Before` determine it, which `BlockArray` checks. `shadow` and `rights` are the two page arrays. `Modulus` is
the wrap of `uint32_t`: `Plus` and `Last` are the code's sums. `Covered` and `Protected` are
the pages the two loops touch; they differ by the last page, as in the code.

`AddressSpace` says what the guest is promised: regions that never overlap, granted where
nothing it holds lies. `ImplementsAddressSpace` is the refinement, with the blocks that were
not given back as the regions.

With `FirstProcess` TRUE a behaviour begins in the host's first process or in a later one, whose
first `VirtualAlloc` searches like the others; with FALSE only in a later one.

`released` and `serial` are not in the code: the first records what the guest gave back, the
second stands for the identity of a block (its pointer).

### The sorted array: `FEArray`, `BlockArray`

`FEArray` has append with its growth and the merge sort: one function for the rounds of a merge and
one over the sections `[l, r]` of the array. `BlockArray`
keeps the real array beside `MemoryMap`'s set of blocks: whatever action adds a block also appends
it and sorts again. `ArrayInOrder` relates the two: the array is the set in the order that
`MemoryMap` takes for granted. It is the order among equal addresses, which
empty blocks cause, that could go wrong, and with it the first fit search.

### Decoded instructions: `DisasmCache`

Extends `MemoryMap` with what memory holds (`bytes`, the encoding that starts at each unit),
the context of each block (`indexes`, `disasmed`, `lens`, as in the code three parallel
structures) and the fetch cases of `beu_update_disasm_from_context`. `DropContext` is the
callback, and is part of every action that changes rights.

`StaleOnlyAtEdges` says exactly which instructions can be out of date. They are those with a
byte in the last page of a protected range (`Protected` is one page short), or across the end
of a read-only page. Everything else the interpreter runs is what memory holds.

### Calls: `WindowCalls`, `GuestCalls`

`GuestCalls` keeps the stack as a sequence of words, its top last, and models the sequence of
pushes and pops of `instruction_ff`, of the three functions and of the machine code of
`handle_messages` instruction group by instruction group. `WindowCalls` has no stack: a list of
activations and of calls in progress.

`Frames` follows the saved frame pointers down from ebp, as a debugger would: a sequence of positions
that belong to guest code and to handlers in turn. `FramesLinked` says what must lie at them: each
frame points to the one below, a handler has its arguments where `handleMessages` pushed them and its
return address is a place in guest code, a window procedure was called by the handler below it for a
message that is not counted yet, and the messages a handler has left are messages that were written.
The refinement mapping reads activations and calls off these frames.

### Display: `Screen`, `Display`

One guest thread, one main thread, a block on the main queue. A picture is a function from
columns to values, converted one column per step so that a store by the guest could fall between.
`Screen` shows whole pictures only. `BltUnknown` keeps the undefined behaviour of the code: an
uninitialised local is either what an earlier call left or an address that is not mapped.

### Instructions: `Alu`, `Interpreter`, `Idioms`

`Alu` is a module of operators: sums, differences, logic, shifts and rotates with every flag they
set (the ones Intel leaves undefined come out either way), products and quotients with the range
assertions, the decimal instructions. `Interpreter` has an action per group of opcodes over
`regs`, `flags`, `mem` and `pc`. A string instruction with a prefix is one step per element, as in
the run loop. `Idioms` holds the programs and what each is for. No definition of what a program
should leave mentions the operators of `Alu`: sums are sums of integers, orders are orders, copies
are functions.

`BitsAssumption` lets the widths vary. A byte has its 8 bits, because parity and decimal digits
depend on them; word and dword are shortened.

### Floating point: `RegisterStack`, `FPU`

`RegisterStack` is the promise: a sequence with ST(0) first, one operator per instruction, as the
guest's compiler sees it. `FPU` is the ring of `FEFPU.c` and the instructions as `FEProcess.m` writes
them, with their shared pieces (`Push`, `ReplaceAndPop`, `Compares`...). Both take arithmetic as tables,
so that a proof speaks of any arithmetic, and TLC's tables only have to tell operands and
operations apart. `depth` is not in the code: the unit knows no empty and no full stack, so it is the
guest's own count, and `Stack`, the refinement mapping, is the `depth` registers from `top` on.
`fe_fpu_create` clears nothing of what `malloc` returns, so every start in the ring is an initial
state.

`ImplementsStack` is stated per instruction, because several instructions are what a compiler
expects only for some operands. Its hypotheses list these exceptions (section 3).

### Kernel objects: `ImportsProxy`, `Kernel32`

`ImportsProxy` has the links, the blocks they lie in, and dispatch. One unit of address is one
four-byte link. A new block lies above every earlier one, which is what the first fit search gives
while no block can be reused (`MemoryMap`'s `Disjoint`). A dictionary decides which link is which,
so every order is an initial state.

`Kernel32` extends it with the handle table, streams, disk and last error. `held`, `failed` and `procs`
are not in the code: what the guest believes it holds and where each file should stand, whether the
latest call of kernel32 or user32 told it of a failure, and which addresses it was given. `CreateObject` is for the
objects of kernel32 and user32, which clear the last error; `GetStockObject` for the brush of gdi32,
whose call leaves it as it was. The disk and the C
library are external. A stream's position is a number of the 64-bit host; only what the
guest passes and is told is taken modulo 2^32 (`Modulus`). A second close of a handle stops
the emulator: an entry that is not there has the type 0, which is that of a file.

## 3. The runs

| Run | Question | Bounds, and why they suffice |
|---|---|---|
| `map_search` | Any order of loads, allocations, releases and protections, later host process. | 8 pages of 2 units and 6 blocks in an array created for one, two of them the image with three free pages between: gaps before, between and after blocks, sizes 0, of part of a page and of two pages; a freed block between live ones, a map that fills up. |
| `map_first_process` | First `VirtualAlloc` at the fixed address, for requests that fit the map. | 5 blocks; sizes of part of a page, of a page and a half and of two pages, so that a block at the fixed address can be given back, whose second page stays in the shadow, and the fixed block mapped over its first. |
| `map_wrapping` | Can a size up to 2^32 - 1 bring a block to address 0? | 5 blocks; Modulus 64, where 62 and 63 wrap the sums of the search or of append, and 52 runs past the shadow table from the fixed address. |
| `map_protect_tail` | Does VirtualProtect reach all it was asked for? **Violated.** | One block of several pages. |
| `cache_edges` | Which cached instructions can be stale? | Code sections of one page and of two, so that a range of three pages begins in one section, makes a page of the other writable without dropping its context and ends in its last page; an allocation by the search or at the fixed address; encodings of 0 (unknown), 1 and 2 units over pages of 2, so instructions straddle pages; one rewrite, because staleness is about one instruction. |
| `calls_nested` | Frames, messages, answers and words over nested calls. | Two sending calls, one inside the other's procedure; an import that drops its arguments and QueryPerformanceCounter, which leaves its own on the stack; a stack of 35 words, so that both completion and overflow at every push happen. |
| `calls_position` | Is WM_WINDOWPOSCHANGED given its struct? **Violated.** | One call. |
| `display_handoff` | Whole pictures, returning Blts, over two surfaces. | Width 3 with one column not converted: a step before, between and after columns. Two sizes: the window's and another. |
| `guest_idioms` | Thirty-six programs on boundary operands. | Bytes of 8 bits, words of 10, dwords of 12; 0, 1, 3, both sides of the sign bit, all ones; every shift count to twice the widest; memory of 5 bytes, so every overlap of two buffers and every position of a match. |
| `sign_extension` | Does CBW keep a negative value? **Violated.** | The same operands. |
| `fpu_stack` | Does each floating point instruction do what its compiler expects, wherever the stack lies? | A ring of 3, so every sequence wraps and two operands and a bystander fit; values -1, 0, 1 and a NaN, of which 1 stands for what single precision and truncation change; programs of any length. |
| `kernel_files` | Any order of kernel calls over handles, files and libraries. | 3 handle numbers, 2 streams, 2 loads of one library (the second copy exists), 1 answer of GetProcAddress kept; a file of one unit, a directory, both possibly missing; Modulus 4 and Reach 8, so a distance has both signs and a drift is below the bound. |

Every configuration has `CHECK_DEADLOCK FALSE`: the emulator stops at assertions, the
bounds end behaviours, and programs end.

`Terminates`, `SendsReturn` and `BltReturns` are checked under fairness:

* `Idioms` `FairSpec`: `WF_vars(Next)`. The run loop takes the next instruction as long as
  there is one.
* `GuestCalls` `FairSpec`: weak fairness of `Interpreter` (the same loop) and of `Return`. The
  latter is an assumption about the guest: a window procedure that is able to return does so in
  the end. Nothing is assumed of anything else it does.
* `Display` `FairSpec`: `WF_vars(Main)`. The main thread's run loop serves its queue. Nothing is
  assumed of the guest.

### Where the code departs from its documentation

1. `VirtualProtect` leaves the last page of its range as it was (`FEMemoryMap.c:177`), and a range
   within one page changes nothing, though it answers TRUE.
2. `CreateWindowExA` copies the position struct over the wrong block (`FEUser32DLL.m:309`);
   WM_WINDOWPOSCHANGED is handed memory nothing was written to.
3. CBW and CWDE make 0 of every negative value (`FEProcess.m:1276`, `1284`).

Others are described by the properties of passing runs, which say exactly how far the code goes:

* `ImplementsWindowCalls`: `QueryPerformanceCounter` leaves its argument on the guest's stack
  (`FEKernel32DLL.m:152`, `169`), one of the words an activation may find above its own; it is lost with the
  frame, and no caller's word, count or return address moves.
* `OnlyWordDivisionAborts`: a quotient that fits stops the emulator in one case only, a 16-bit DIV of
  a dividend with its top bit set, which the code sign-extends in spite of its comment
  `//div, no sign extend` (`FEProcess.m:3282`, `3300`).
* `OnlyLogarithmDrifts`: fyl2x does not pop (`FEProcess.m:2769`); nothing else moves the guest's stack to
  other registers.
* `ImplementsStack` excludes: fxch, fmulp and fsubp of a register other than ST(1); fld and `fsub ST(0)`
  of one other than ST(0); fild of a negative integer; fistp and frndint of values that are negative
  or where the rounding mode does not truncate; add, sub and div with ST(0) or a result that single (for
  `fsub m64fp`: double) precision cannot hold; comparisons of unordered values; fyl2x.
* `OnlyBackwardMovesDrift`: the LONG distance of `SetFilePointer` is read as a `uint32_t`
  (`FEKernel32DLL.m:625`), and a move backwards ends 2^32 further on. `ReportsExpected` says why nobody
  notices: the position reported is the right one.
* `OnlyDirectoriesLeak`: `CreateFileA` opens a stream on a directory and does not close it.
* `ProcsReach`: a library loaded again has its new links in a block the dispatcher does not know
  (`FEImportsProxy.m:162` finds the first block of that tag again).

Seen but not checked: the assertion against a second DirectDraw context reads a property nothing
assigns (`FEDDrawDLL.m:67`), and `DeleteFileA` does not convert its path (`FEKernel32DLL.m:722`).

## 4. The proofs

All theorems hold for every value of the constants that satisfies the named assumptions of
the module, and those TLC evaluates in every run.

| Theorem | States | Argument |
|---|---|---|
| `MemoryMapProofs!TypeCorrect` | `[]TypeOK` | One step per action. |
| `MemoryMapProofs!LiveReachable` | `[]LiveOwned` | Induction over `LiveInv`. |
| `MemoryMapProofs!BlocksDisjoint`, `SearchNeverAsserts` | `[]Disjoint`, `[]SearchSound`, in every process of a host but its first | Induction over `SearchInv`. |
| `MemoryMapProofs!SearchAssertsOnlyOverFreed`, `WritablePagesStay` | `[]AssertsOnlyOverFreed`, `WritableStays`, in the first process, too | Induction over `SearchInv` (later processes) and `SolidInv` (the first one, no empty requests). |
| `MemoryMapProofs!MapImplementsAddressSpace` | `ImplementsAddressSpace`, in the first process, too | Every step under either invariant is a step of `AddressSpace` or a stutter. |
| `DisplayProofs!DisplayTypeCorrect`, `ConversionSound` | `[]TypeOK`, `[]Converting` | Induction over their conjunction. |
| `DisplayProofs!DisplayImplementsScreen` | `ImplementsScreen` | Every step under that invariant is a step of `Screen` or a stutter. |
| `FPUProofs!FPUTypeCorrect`, `FPUOnlyLogarithmDrifts` | `[]TypeOK`, `OnlyLogarithmDrifts` | One step per instruction; arithmetic modulo the number of registers. |
| `FPUProofs!FPUImplementsStack` | `ImplementsStack` | Every instruction under `TypeOK`, but the exceptions, is that of `RegisterStack`. |
| `Kernel32Proofs!KernelTypeCorrect`, `HandlesKeepTheirObjects`, `StreamsAreClosed` | `[]TypeOK`, `[]HandlesNameTheirOwn`, `[]OnlyDirectoriesLeak` | Induction over their conjunction. |
| `Kernel32Proofs!LastErrorIsCurrent` | `[]ErrorIsCurrent` | One step per function. |
| `Kernel32Proofs!PositionsReported`, `OnlyBackwardMoves` | `[]ReportsExpected`, `OnlyBackwardMovesDrift` | What each function does to the position of one handle, and arithmetic modulo `Modulus`. |
| `Kernel32Proofs!ProcAddressesReach` | `[]ProcsReach` | Induction over `LinkInv`. |
| `IdiomsProofs!TypeCorrect` | `[]TypeOK` of `Idioms` | What each instruction leaves, and that each idiom's code is well formed. |
| `IdiomsResults!WideArithmeticHolds`, `ProductsAndQuotientsHolds`, `DecimalDigitsHolds` | `[]WideArithmetic`, `[]ProductsAndQuotients`, `[]DecimalDigits` | Induction over `Traced`, then the arithmetic of each idiom. |
| `IdiomsResults!ComparisonsAgreeHolds` | `[]ComparisonsAgree` | `Traced` with its jumps, and what the flags of a difference say of its operands. |
| `IdiomsResults!OnlyWordDivisionAbortsHolds` | `[]OnlyWordDivisionAborts` | `Traced`, and that code without a division cannot stop (`Undivided`). |
| `MemoryMapProofs!NothingAtZero` | `[]NeverAtZero` | Induction over `ZeroInv`. |
| `MemoryMapProofs!ArrayStaysInOrder`, `ArrayAlwaysFits` | `[]ArrayInOrder`, `[]ArrayFits` | That the merge sort sorts, then induction over `ArrayInv`. |
| `MemoryMapProofs!CacheTypeCorrect`, `ContextsStayAligned`, `RewritesAreSeen` | `[]CacheTypeOK`, `[]ContextAligned`, `[]StaleOnlyAtEdges` | Induction over `CacheInv`. |
| `GuestCallsProofs!CallsTypeCorrect`, `FramesStayLinked` | `[]TypeOK`, `[]FramesLinked` | Induction over `CallsInv`. |
| `GuestCallsProofs!WindowCallsImplemented` | `ImplementsWindowCalls` | Every step under `CallsInv` is a step of `WindowCalls` or a stutter. |

* `LiveOwned` is not inductive: that a page leads to a block says nothing until ids are unique
  (`Identified`) and blocks are placed inside the map (`Placed`). `LiveInv` is the conjunction.
  It needs `SizesFit`: every request, from the fixed address, ends within the shadow table, and wraps no
  32-bit sum. It is false for requests that wrap: one of 2^32 - 1 bytes is appended without a single page
  in the table, because `address + size - 1` lies below `address` (`FEMemoryMap.c:119`, `300-303`). Of
  such requests only `NeverAtZero` is claimed (run `map_wrapping`). Everything below about the search
  assumes `SizesFit`, too.
* `SearchSound` looks at `status` only. That the chosen gap is free follows from the order of
  the array, from which page belongs to which block (`Owner`), from what the image has yet to
  load (`LoadPhase`) and from what a release leaves behind (`GivenBack`): `BaseInv` is their
  conjunction with `LiveInv` and the fact that a page is writable only because a block was mapped there
  (`WriteHeld`). `SearchInv` adds that no block begins before the one below it in the array ends (`Ascending`).
* The first process of a host is the only one the Mac application runs (`fallout-emu-mac/fallout-emu-mac/AppDelegate.m:71-84`), and in it
  `SearchSound` and `Disjoint` are false: give back a block of two pages at the fixed address, ask
  `VirtualAlloc` for one page, which is mapped there without a search, and the next search may settle on the second page,
  which `free` left in the shadow table. `AssertsOnlyOverFreed` says that this is the only way. Its invariant
  `SolidInv` has `Ascending` and `SearchSound` only until a block was mapped over a freed one, and for
  ever that what can be mapped over is all but first pages still in the table (`TailsMapped`), which is enough for
  `WritableStays` and the refinement: the assertion stops the emulator before anything overlaps what the
  guest holds. `Ordinary` excludes empty requests in a first process: an empty block has no page in
  the table, so another may be mapped around it.
* The message loop's block is set to read and execute, and `WritableStays` holds all the same because that
  block lies in one page (`HandlerAssumption`) and the loop over rights stops one page short.
* `FPUImplementsStack` has one lemma per shape of instruction (a push, a replacement, a pop, a
  comparison) that says what the shape does to the mapped stack; they rest on two facts about the ring: reading
  after writing at an offset, and that popping shifts every offset by one. It needs
  `CommutativeAssumption`: the code multiplies the operands of fmulp the other way round.
* Kernel32's invariant is `TypeOK /\ HandlesNameTheirOwn /\ OnlyDirectoriesLeak`. Types carry that every
  stream is numbered at most `opened`, so that a new one is new; without it two handles could share a stream. That a number
  is free when it is given out is the loop of `createHandleType` (`Takes`).
* The refinement of `Screen` needs that the part of the frame behind the converter equals the
  surface as it is now (`Converting`), which holds because the guest waits.

* `NeverAtZero` holds for sizes that wrap, too. It needs two facts about the program and the
  processor: the image has a section at address 0 (`ZeroMapped`; `zeroBlock`, `FEProcess.m:141`) and
  2^32 is a multiple of the page size (`WholePages`). Then a search that wraps comes back to a page
  boundary (`Aligned`), and at 0 it meets the image (`ZeroTaken`) and stops at its assertion.
* Recursive functions of TLA+ are choices: that functions with the equations of `Merged` and of
  `MergeSorted` exist is proved first, from the well-foundedness of `<` on the naturals, and then, by an
  induction of the same kind, that a section comes out sorted, with the elements that went in. The sort
  must be stable: the newest block goes behind its equals because the left half goes first among equals
  (`InAge`). With `TakesLeftStrict` this fails, as its mutant shows.
* `StaleOnlyAtEdges` needs to know more than which pages are writable now. `GrantedWritable` says that a
  page the guest was granted for writing is writable, unless it is the last of a range; `GrantedMapped`
  that no section of the image is mapped over it later, which would set its rights anew. `Current` says of every
  instruction kept, not only of the one being run, that it is what memory holds but for the edges. No
  hypothesis on sizes or on the first process: the cache only relies on `blocks` being added to.
* Of the idioms everything without a repeat is proved for all widths, not for the shortened ones
  of the run, and for all operands (`BitsAssumption` asks only for a byte of 8 bits and for word and dword that
  are longer, one more than the other). `AluProofs` says what each operator of `Alu` leaves in values and flags as
  an equation of integers (`SumLeaves`, `DifferenceLeaves`, `ProductLeaves`, `DecimalLeaves`...); bits enter only
  with logic, shifts and rotates, whose lemmas are about digits base 2. `IdiomsResults` says of each instruction what it makes of one
  state of registers and flags (`Does`). The invariant is `Traced`: the registers are where a path of such
  steps leads from the ones the idiom began with, one step per instruction passed. When the idiom is done, the
  path has a step for each instruction of its code, and the lemma of the idiom (`AddResult`, `MulDivResult`, `DaaResult`...)
  joins them. That a division was passed says its operands were acceptable; that one stopped
  the emulator says they were not, and `Legal` says of which dividends the guest's author made sure.
* `LinkInv` of Kernel32 says that every link lies in a block of its own DLL, or in that of the executable,
  and that the first block of each DLL is one the dispatcher knows. A DLL that was loaded once has one block;
  the new links of a later one lie above all others, so that no address changes its function.
* `CallsInv` is `TypeOK`, `FramesLinked` and `windows <= sent`. `TypeOK` is not inductive by itself: a
  return loads ebp and eip from the stack, so that they have their types is what the frames say. `Frames` is computed
  from the top down, while a step adds or takes a frame; so each action is proved to leave the frames it
  finds, one less or one more (`Leads`), and a sequence of linked frames is proved to be the one the walk finds
  (`FramesAre`). The hypothesis `KeepsCallers` says that no imported function drops more words than
  its prototype declares, which is so of every proxy of the repository. QueryPerformanceCounter, which
  drops fewer, is covered: the word it leaves lies above ebp and goes with `leave`.
* The refinement of `WindowCalls` reads activations and calls in progress off the stack, with the frames
  `CallsInv` provides. Below the place where a step changes the stack, both are as they were (`Below`): a
  guest activation ends where the arguments of the handler above it start, so that the handler's own count
  and cursor lie in none. What then remains is the last activation and the last call: an entry or a
  return takes one or adds one; the handler's call takes the head of what is left (`LeftTail`) while the
  count in memory still includes it; counting it afterwards changes nothing that is seen, which needs
  that count and cursor move together (`BegunIs`, `CallIs`). `Load` yields what handleMessages wrote, and
  not memory behind it, because the handlers' messages lie in the first `Len(memory)` (`Held`). Besides `KeepsCallers`
  it assumes `LeavesOneWord`, that an import leaves at most one word behind, as `Work` of
  `WindowCalls` allows and QueryPerformanceCounter does.

Only model-checked:

* liveness (`SendsReturn`, `BltReturns`, `Terminates`): it needs ENABLED, which the prover does not handle;
* `StringIdioms`, whose code repeats;
* the three departures of section 3, which are violated.

## 5. What is left out, and why

* Memory: the copy helpers, and what memory holds except where `DisasmCache` needs it.
* Display: rows, colour channels and palettes; 16-bit modes, of which Blt shows the first
  `width*height` bytes; SpriteKit's own update of the texture, taken to be synchronous; the label
  with the frame rate, whose counters the main thread reads without a lock. The three columns at the
  right edge are never converted: the property speaks of the others.
* Instructions: words and dwords are shorter than 16 and 32 bits, AX and DX are separate from AL and
  AH within one program; effective addresses, segment registers, pushf, popf, enter
  and loop; byte shifts by 1 and by CL (opcodes D0 and D2), CLC and STC, which the interpreter does not have; string instructions on words, whose pointers differ by a factor.
* Floating point: the tag word (`fe_fpu_tag` has no caller and no instruction reads it), exceptions and
  the precision field, which the code does not have.
* Arrays: insert, remove, swap and index_of, which nothing calls.
* Kernel32: paths and their conversion; a file that exists but cannot be opened (assertion) and a
  directory whose parent is missing (exception); functions that change no state (versions, times, environment,
  `FindFirstFileA`, `GetFileAttributesA`, `GetLastError` itself). Reading the import descriptors of an image.
* DirectSound: `Lock` is a malloc and `Unlock` a free, which `MemoryMap` has; nothing is played.
* DirectInput, winmm and msvcrt answer with constants or call the host's library.
  BeaEngine, libpe and tcc are third-party
  code, and most of the repository's lines: the project's own code is the directory `fallout-emu` and
  the window's two files.

## 6. Plan

What is left, in this order:

1. Theorems: what repeated string instructions compute (`StringIdioms`), which needs an invariant over
   the elements passed, and that a step of one decreases its count.
2. The 16-bit forms of the stack (`FEStack.c`), pushf, popf and enter in `GuestCalls`.
3. `ImportsProxy` over `MemoryMap` itself, so that the place of a second copy follows from the search.
4. DirectSound: Lock and Unlock over `MemoryMap`, and what their blocks leave for other calls.
