------------------------------- MODULE MemoryMap -------------------------------
(***************************************************************************)
(* The guest's virtual memory: FEMemoryMap.c and FEMemoryMapBlock.c, driven *)
(* the way FEProcess.m loads an image and the WinAPI proxies allocate,      *)
(* free and re-protect memory.                                              *)
(*                                                                         *)
(* Addresses are numbers of an abstract unit; PageSize stands for          *)
(* SHADOW_BLOCK_SIZE (4096), MapSize for the 1 GB of the map and Modulus   *)
(* for 2^32, at which uint32_t arithmetic wraps.                           *)
(*                                                                         *)
(* The code keeps the blocks in an array that is re-sorted by a stable     *)
(* merge sort after every append.  Such an array is the set of the blocks  *)
(* in the order Before, so the set is all the model keeps.  Blocks are     *)
(* never removed from it: fe_memoryMap_free clears one shadow entry only.  *)
(***************************************************************************)
EXTENDS Integers

CONSTANTS
  PageSize,     \* units per page
  MapPages,     \* pages of the map
  Modulus,      \* number of addresses a uint32_t can hold, in units
  Image,        \* what the process maps while loading: [va, size, mode] records
  Fixed,        \* the address the first VirtualAlloc of a host process uses
  FirstProcess, \* TRUE: perhaps nothing called VirtualAlloc in this host process before
  Sizes,        \* sizes the guest and the proxies ask for
  HandlerSize,  \* sizeof(handle_messages), the loop over window messages
  MaxBlocks     \* bound: blocks a behaviour allocates

VARIABLES
  blocks,   \* the memoryMapBlocks array, as a set of [id, va, size]
  shadow,   \* memoryMapBlocksShadow: page -> id of a block, or None
  rights,   \* memoryMapRightsShadow: page -> access mode
  serial,   \* id of the next block: allocation order, the pointer's identity
  released, \* ids of the blocks the guest gave back (not kept by the code)
  fixedNext,\* the static `calls` of fe_VirtualAlloc is still 0
  handler,  \* fe_memoryMap_blockWithTag finds the block of handle_messages
  status    \* "running", or the assertion that stopped the emulator

vars == <<blocks, shadow, rights, serial, released, fixedNext, handler, status>>

MapSize == MapPages * PageSize
Pages == 0..MapPages            \* the shadow arrays have one entry to spare
ShadowSize == (MapPages + 1) * PageSize
None == 0
Start == PageSize

Mode == SUBSET {"Read", "Write", "Execute"}
NoAccess == {}
RW == {"Read", "Write"}
RX == {"Read", "Execute"}
RWX == {"Read", "Write", "Execute"}

PageOf(a) == a \div PageSize
AlignDown(a) == PageOf(a) * PageSize     \* a slip for the next definition
AlignUp(a) == IF a % PageSize = 0 THEN a ELSE (PageOf(a) + 1) * PageSize

ASSUME PageAssumption == PageSize \in Nat \ {0} /\ MapPages \in Nat \ {0}
ASSUME ModulusAssumption == Modulus \in Nat /\ ShadowSize < Modulus
ASSUME SizesAssumption == Sizes \subseteq 0..(Modulus - 1)
ASSUME HandlerAssumption == HandlerSize \in 1..PageSize
ASSUME ImageAssumption ==
  /\ Image \subseteq [va : Nat, size : Nat \ {0}, mode : Mode]
  /\ \A r \in Image : r.va % PageSize = 0 /\ r.va + r.size <= MapSize
  /\ \A r, q \in Image : r # q => AlignUp(r.va + r.size) <= q.va \/ AlignUp(q.va + q.size) <= r.va
ASSUME FixedAssumption ==
  Fixed \in Nat \ {0} /\ Fixed % PageSize = 0 /\ Fixed < MapSize /\ FirstProcess \in BOOLEAN
ASSUME BoundAssumption == MaxBlocks \in Nat

--------------------------------------------------------------------------------
(* Address arithmetic *)

Plus(a, n) == (a + n) % Modulus
Last(a, n) == (a + n - 1) % Modulus

End(b) == Plus(b.va, b.size)

\* The rights entries that setting the mode of [va, va + size) changes: the
\* loop stops before the page of the last byte.
ProtectedShort(va, size) == {p \in Pages : PageOf(va) <= p /\ p < PageOf(Last(va, size)) - 1}
ProtectedLong(va, size) == {p \in Pages : PageOf(va) <= p /\ p <= PageOf(Last(va, size)) + 1}
Protected(va, size) == {p \in Pages : PageOf(va) <= p /\ p < PageOf(Last(va, size))}

\* The shadow entries that appending [va, va + size) fills.
CoveredShort(va, size) == Protected(va, size)
Covered(va, size) == {p \in Pages : PageOf(va) <= p /\ p <= PageOf(Last(va, size))}

\* The loop over the shadow entries goes on past the end of the array.
OutOfShadow(va, size) == PageOf(va) <= PageOf(Last(va, size)) /\ MapPages < PageOf(Last(va, size))

\* Guest code that dereferences an address of b reaches b's own local memory.
Resolves(b, p) == shadow[p] = b.id

--------------------------------------------------------------------------------
(* First fit *)

\* The order of the sorted array: by address, and by age among equals.
Before(b, c) == b.va < c.va \/ (b.va = c.va /\ b.id < c.id)
IsFirst(b) == \A c \in blocks \ {b} : Before(b, c)
IsLast(b) == \A c \in blocks \ {b} : Before(c, b)
Adjacent(b, c) == Before(b, c) /\ ~ \E d \in blocks : Before(b, d) /\ Before(d, c)

AboveBlock(b) == AlignUp(End(b)) % Modulus

\* The gap between neighbours takes `size` units and at least one to spare.
Gap(b, c, size) == Adjacent(b, c) /\ Plus(AboveBlock(b), size) < c.va
HasGap(b, size) == \E c \in blocks : Gap(b, c, size)

BelowFirst(size) ==
  \E b \in blocks : IsFirst(b) /\ b.va > Start /\ size < b.va - Start
FirstGapAfter(b, size) ==
  /\ HasGap(b, size)
  /\ \A d \in blocks : HasGap(d, size) => d = b \/ Before(b, d)
NoGap(size) == \A b \in blocks : ~ HasGap(b, size)

AfterLastUnbounded(a, size) == \E b \in blocks : IsLast(b) /\ a = AboveBlock(b)
AfterLast(a, size) ==
  \E b \in blocks : IsLast(b) /\ a = AboveBlock(b) /\ Plus(a, size) < MapSize

\* a is the address the search of fe_memoryMap_malloc settles on.
Chosen(a, size) ==
  \/ a = Start /\ blocks = {} /\ size <= MapSize - Start
  \/ a = Start /\ BelowFirst(size)
  \/ /\ ~ BelowFirst(size)
     /\ \E b \in blocks : FirstGapAfter(b, size) /\ a = AboveBlock(b)
  \/ ~ BelowFirst(size) /\ NoGap(size) /\ AfterLast(a, size)

Candidates == {Start} \cup {AboveBlock(b) : b \in blocks}

--------------------------------------------------------------------------------
(* Operations *)

Abort(why) ==
  /\ status' = why
  /\ UNCHANGED <<blocks, shadow, rights, serial, released, fixedNext, handler>>

SetAccessModeOnly(va, size, mode) == rights' = [p \in Protected(va, size) |-> mode]
SetAccessMode(va, size, mode) ==
  rights' = [p \in Pages |-> IF p \in Protected(va, size) THEN mode ELSE rights[p]]

\* assert(currentBlock == 0) for every page the block covers
FreeUnchecked(va, size) == TRUE
Free(va, size) == \A p \in Covered(va, size) : shadow[p] = None

AppendMemoryBlock(va, size, mode) ==
  /\ Free(va, size)
  /\ blocks' = blocks \cup {[id |-> serial, va |-> va, size |-> size]}
  /\ shadow' = [p \in Pages |-> IF p \in Covered(va, size) THEN serial ELSE shadow[p]]
  /\ SetAccessMode(va, size, mode)
  /\ serial' = serial + 1
  /\ UNCHANGED <<released, status>>

\* Mapping the zero page and the sections of the executable.
Mapped(r) == \E b \in blocks : b.va = r.va /\ b.size = r.size
Loaded == \A r \in Image : Mapped(r)
Ready == status = "running" /\ Loaded
CanAllocate == Ready /\ serial <= MaxBlocks

Load(r) ==
  /\ status = "running" /\ ~ Mapped(r)
  /\ AppendMemoryBlock(r.va, r.size, r.mode)
  /\ UNCHANGED <<fixedNext, handler>>

Search(size, mode) ==
  /\ CanAllocate
  /\ \E a \in Candidates : Chosen(a, size) /\ AppendMemoryBlock(a, size, mode)
  /\ UNCHANGED fixedNext

\* The modes the stack, the guest and the proxies ask for; the links of imports
\* ask for none, a locked sound buffer for writing only.
AllocModes == {NoAccess, {"Write"}, RW}

Malloc(size, mode) == Search(size, mode) /\ UNCHANGED handler

\* The first handleMessages of a process puts its loop into a block of its own:
\* malloc sets the mode of a range to RWX, setAccessModeAtAddress that of the
\* same range to RX, which is therefore the mode that stays.
MallocHandler ==
  /\ ~ handler
  /\ Search(HandlerSize, RX)
  /\ handler' = TRUE

Requests == Sizes \cup {size \in {HandlerSize} : ~ handler}

MallocOccupied(size) ==
  /\ CanAllocate
  /\ \E a \in Candidates : Chosen(a, size) /\ ~ Free(a, size)
  /\ Abort("malloc hit a block")

\* What lies behind the shadow array is taken for entries and overwritten.  The
\* emulator stops there, when it is not mapped or not zero, or goes on as append
\* does; that something else was overwritten is not modelled.
MallocOutOfShadow(size) ==
  /\ CanAllocate
  /\ \E a \in Candidates : Chosen(a, size) /\ Free(a, size) /\ OutOfShadow(a, size)
  /\ Abort("past the shadow")

MallocExhausted(size) ==
  /\ CanAllocate
  /\ \A a \in Candidates : ~ Chosen(a, size)
  /\ Abort("out of address space")

\* fe_VirtualAlloc maps its first block of the host process at a fixed
\* address, without a search; later calls go through Malloc.
VirtualAllocFirst(size) ==
  /\ CanAllocate /\ fixedNext /\ size # 0
  /\ fixedNext' = FALSE
  /\ AppendMemoryBlock(Fixed, size, RW)
  /\ UNCHANGED handler

VirtualAllocOccupied(size) ==
  /\ CanAllocate /\ fixedNext /\ size # 0
  /\ ~ Free(Fixed, size)
  /\ Abort("fixed address taken")

VirtualAllocOutOfShadow(size) ==
  /\ CanAllocate /\ fixedNext /\ size # 0
  /\ Free(Fixed, size) /\ OutOfShadow(Fixed, size)
  /\ Abort("past the shadow")

\* VirtualFree, IDirectSoundBuffer::Unlock and ::Release: the guest gives back,
\* once, a block it was handed.
Release(b) ==
  /\ Ready
  /\ b.id \notin released
  /\ \A r \in Image : b.va # r.va
  /\ shadow' = [shadow EXCEPT ![PageOf(b.va)] = None]
  /\ released' = released \cup {b.id}
  /\ UNCHANGED <<blocks, rights, serial, fixedNext, handler, status>>

\* fe_VirtualProtect: only the old modes of its switch are accepted.
OldModes == {{"Read"}, {"Write"}, {"Execute"}, RW, RX, {"Write", "Execute"}}

\* Block b has a unit in page p.
Holds(b, p) == b.va < (p + 1) * PageSize /\ p * PageSize < b.va + b.size

\* The ranges a guest may re-protect: all their pages hold memory that it has not
\* given back.  A range may cross from one section of the image to the next.
Range(a, size) ==
  /\ size # 0 /\ a + size <= MapSize
  /\ \A p \in Covered(a, size) :
       \E b \in blocks : b.id \notin released /\ b.va # 0 /\ Holds(b, p)

VirtualProtect(a, size) ==
  /\ Ready /\ Range(a, size)
  /\ rights[PageOf(a)] \in OldModes
  /\ SetAccessMode(a, size, RWX)
  /\ UNCHANGED <<blocks, shadow, serial, released, fixedNext, handler, status>>

VirtualProtectUnknown(a, size) ==
  /\ Ready /\ Range(a, size)
  /\ rights[PageOf(a)] \notin OldModes
  /\ Abort("unknown old protection")

--------------------------------------------------------------------------------
Init ==
  /\ blocks = {}
  /\ shadow = [p \in Pages |-> None]
  /\ rights = [p \in Pages |-> NoAccess]
  /\ serial = 1
  /\ released = {}
  /\ fixedNext \in {FALSE, FirstProcess}
  /\ handler = FALSE
  /\ status = "running"

Next ==
  \/ \E r \in Image : Load(r)
  \/ \E size \in Sizes :
       \/ \E mode \in AllocModes : Malloc(size, mode)
       \/ VirtualAllocFirst(size)
       \/ VirtualAllocOccupied(size)
       \/ VirtualAllocOutOfShadow(size)
  \/ MallocHandler
  \/ \E size \in Requests :
       MallocOccupied(size) \/ MallocOutOfShadow(size) \/ MallocExhausted(size)
  \/ \E b \in blocks : Release(b)
  \/ \E a \in 0..(MapSize - 1), size \in Sizes :
       VirtualProtect(a, size) \/ VirtualProtectUnknown(a, size)

Spec == Init /\ [][Next]_vars

--------------------------------------------------------------------------------
(* Properties *)

Block == [id : Nat \ {0}, va : 0..(Modulus - 1), size : 0..(Modulus - 1)]
Outcome == {"running", "malloc hit a block", "out of address space",
            "fixed address taken", "past the shadow", "unknown old protection"}

\* Type invariant; shadow entries are ids of blocks that exist.
TypeOK ==
  /\ blocks \subseteq Block
  /\ shadow \in [Pages -> Nat]
  /\ \A p \in Pages : shadow[p] # None => \E b \in blocks : b.id = shadow[p]
  /\ rights \in [Pages -> Mode]
  /\ serial \in Nat \ {0}
  /\ \A b \in blocks : b.id < serial
  /\ released \subseteq Nat
  /\ fixedNext \in BOOLEAN /\ handler \in BOOLEAN
  /\ status \in Outcome

Live(b) == b.id \notin released

\* An empty block owns no page, so its address is handed out again; giving the
\* empty block back unmaps the page it shares.
LostToEmpty(p) == \E z \in blocks : z.size = 0 /\ z.id \in released /\ PageOf(z.va) = p

\* fe_memoryMap_blockFromVirtualAddress returns b for every page of a block b
\* that was not given back, whatever was allocated or freed since.
LiveOwned ==
  \A b \in blocks : Live(b) => \A p \in Pages :
    Holds(b, p) => Resolves(b, p) \/ LostToEmpty(p)

\* "malloc will never allocate at 0" (FEMemoryMap.c:84): only what the image
\* maps is below the second page, even when a huge size wraps the 32-bit search.
NeverAtZero ==
  \A b \in blocks : b.va < Start => \E r \in Image : r.va = b.va /\ r.size = b.size

\* No two blocks of the array ever share a unit, those given back included:
\* the address space of a freed block is not handed out again.
Overlap(b, c) == c.va < b.va + b.size /\ b.va < c.va + c.size
Disjoint == \A b, c \in blocks : b # c => ~ Overlap(b, c)

\* The first fit search never settles on a page that is still mapped, so the
\* assertion in _fe_memory_map_appendMemoryBlock does not fire in malloc.
SearchSound == status # "malloc hit a block"

\* In the first process of a host the assertion can fire, but only after
\* fe_VirtualAlloc mapped its block at Fixed over one that had been given back:
\* free left the later pages of that block in the shadow, where the search, which
\* looks at the ends of blocks in array order, does not see them.
LaidOver(b, c) == ~ Live(b) /\ c.va = Fixed /\ Overlap(b, c)
AssertsOnlyOverFreed ==
  SearchSound \/ \E b, c \in blocks : b # c /\ LaidOver(b, c)

\* Pages only become writable: memory that may hold code the guest patches
\* never turns back into memory whose decoded instructions are kept.
WritableStays ==
  [][\A p \in Pages : "Write" \in rights[p] => "Write" \in rights'[p]]_vars

\* fe_VirtualProtect is asked for PAGE_EXECUTE_READWRITE (FEKernel32DLL.m:977)
\* and answers TRUE: every page of the range can then be written and run.
ProtectReachesAll ==
  [][\A a \in 0..(MapSize - 1), size \in Sizes :
       VirtualProtect(a, size) => \A p \in Covered(a, size) : rights'[p] = RWX]_vars

--------------------------------------------------------------------------------
(* Refinement: the regions the guest holds are the live blocks. *)

RegionOf(b) == [id |-> b.id, lo |-> b.va, hi |-> b.va + b.size]

Space == INSTANCE AddressSpace WITH
  Limit <- ShadowSize,
  regions <- {RegionOf(b) : b \in {c \in blocks : Live(c)}},
  issued <- 1..(serial - 1),
  halted <- status # "running"

\* Every step of the memory map is a grant, a return, a halt or no step at all
\* of the address space the guest sees.
ImplementsAddressSpace == Space!SpaceSpec
================================================================================
