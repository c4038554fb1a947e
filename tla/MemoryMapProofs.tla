----------------------------- MODULE MemoryMapProofs -----------------------------
(***************************************************************************)
(* What holds of the memory map, of its sorted array of blocks and of the    *)
(* cache of instructions decoded from it, for every page size, map size,      *)
(* image, set of sizes and number of allocations.                            *)
(***************************************************************************)
EXTENDS BlockArray, DisasmCache, WellFoundedInduction, TLAPS

--------------------------------------------------------------------------------
(* Arithmetic of pages *)

LEMMA ModSmall ==
  ASSUME NEW a \in Nat, NEW m \in Nat, a < m
  PROVE  a % m = a
  BY Z3

LEMMA PageBounds ==
  ASSUME NEW a \in Int
  PROVE  /\ PageOf(a) \in Int
         /\ PageOf(a) * PageSize <= a
         /\ a < PageOf(a) * PageSize + PageSize
         /\ a = PageOf(a) * PageSize + (a % PageSize)
         /\ a \in Nat => PageOf(a) \in Nat
  BY PageAssumption, Z3 DEF PageAssumption, PageOf

LEMMA PageUnique ==
  ASSUME NEW a \in Int, NEW k \in Int, k * PageSize <= a, a < k * PageSize + PageSize
  PROVE  PageOf(a) = k
  BY PageAssumption, Z3 DEF PageAssumption, PageOf

LEMMA PageMono ==
  ASSUME NEW p \in Int, NEW a \in Int
  PROVE  p <= PageOf(a) <=> p * PageSize <= a
  BY PageAssumption, Z3 DEF PageAssumption, PageOf

LEMMA MultipleAligned ==
  ASSUME NEW k \in Int
  PROVE  (k * PageSize) % PageSize = 0 /\ PageOf(k * PageSize) = k
  BY PageAssumption, Z3 DEF PageAssumption, PageOf

LEMMA AlignUpFacts ==
  ASSUME NEW a \in Nat
  PROVE  /\ AlignUp(a) \in Nat
         /\ a <= AlignUp(a)
         /\ AlignUp(a) < a + PageSize
         /\ AlignUp(a) % PageSize = 0
         /\ a <= ShadowSize => AlignUp(a) <= ShadowSize
<1> DEFINE k == PageOf(a) + 1
           m == MapPages + 1
<1>1. PageSize \in Nat \ {0} /\ m \in Nat /\ ShadowSize = m * PageSize
  BY PageAssumption DEF PageAssumption, ShadowSize
<1> HIDE DEF m
<1>2. /\ PageOf(a) \in Nat
      /\ PageOf(a) * PageSize <= a
      /\ a < PageOf(a) * PageSize + PageSize
      /\ a = PageOf(a) * PageSize + (a % PageSize)
  BY PageBounds
<1>3. CASE a % PageSize = 0
  BY <1>1, <1>3 DEF AlignUp
<1>4. CASE a % PageSize # 0
  <2>1. AlignUp(a) = k * PageSize /\ k \in Nat
    BY <1>2, <1>4 DEF AlignUp
  <2>2. k * PageSize = PageOf(a) * PageSize + PageSize
    BY <1>1, <1>2, Z3
  <2>3. k * PageSize \in Nat /\ (k * PageSize) % PageSize = 0
    <3>1. k \in Int /\ k \in Nat
      BY <2>1
    <3> HIDE DEF k
    <3>2. (k * PageSize) % PageSize = 0
      BY <3>1, MultipleAligned, Zenon
    <3>3. k * PageSize \in Nat
      BY <1>1, <3>1, Z3
    <3> QED
      BY <3>2, <3>3
  <2>4. a # PageOf(a) * PageSize
    BY <1>1, <1>2, <1>4, <2>1, MultipleAligned
  <2>5. ASSUME a <= ShadowSize PROVE k * PageSize <= ShadowSize
    <3>1. (m * PageSize) % PageSize = 0
      <4>1. m \in Int
        BY <1>1
      <4> QED
        BY <4>1, MultipleAligned, Zenon
    <3>2. a # ShadowSize
      BY <1>1, <1>4, <3>1
    <3>3. ~ m <= PageOf(a)
      BY <1>1, <2>5, <3>2, PageMono
    <3>4. k <= m
      BY <1>1, <1>2, <3>3
    <3> HIDE DEF k
    <3> QED
      BY <1>1, <2>1, <3>4, Z3
  <2> HIDE DEF k
  <2> QED
    BY <1>1, <1>2, <2>1, <2>2, <2>3, <2>4, <2>5
<1> QED
  BY <1>3, <1>4

--------------------------------------------------------------------------------
(* Type correctness *)

LEMMA AddressTypes ==
  /\ PageSize \in Nat \ {0} /\ MapPages \in Nat \ {0}
  /\ MapSize \in Nat \ {0} /\ Modulus \in Nat \ {0} /\ MapSize < Modulus
  /\ Start \in Nat \ {0} /\ Start <= MapSize
  /\ ShadowSize \in Nat \ {0} /\ ShadowSize = MapSize + PageSize /\ ShadowSize < Modulus
<1>1. PageSize \in Nat \ {0} /\ MapPages \in Nat \ {0} /\ Start = PageSize
  BY PageAssumption DEF PageAssumption, Start
<1>2. MapPages * PageSize \in Nat \ {0} /\ PageSize <= MapPages * PageSize
  BY <1>1, Z3
<1>3. MapSize \in Nat \ {0} /\ PageSize <= MapSize
  BY <1>2 DEF MapSize
<1>4. (MapPages + 1) * PageSize = MapPages * PageSize + PageSize
  BY <1>1, Z3
<1>5. ShadowSize = MapSize + PageSize
  BY <1>4 DEF ShadowSize, MapSize
<1> QED
  BY <1>1, <1>3, <1>5, ModulusAssumption DEF ModulusAssumption

LEMMA PlusType ==
  ASSUME NEW a \in Nat, NEW n \in Nat
  PROVE  Plus(a, n) \in 0..(Modulus - 1)
  BY AddressTypes, Z3 DEF Plus

LEMMA AboveType ==
  ASSUME NEW b \in Block
  PROVE  AboveBlock(b) \in 0..(Modulus - 1)
<1>1. b.va \in Nat /\ b.size \in Nat
  BY AddressTypes DEF Block
<1>2. End(b) \in Nat
  <2>1. Plus(b.va, b.size) \in 0..(Modulus - 1)
    BY <1>1, PlusType, Zenon
  <2> QED
    BY <2>1, AddressTypes DEF End
<1>3. AlignUp(End(b)) \in Nat
  BY <1>2, AlignUpFacts
<1> QED
  BY <1>3, AddressTypes, Z3 DEF AboveBlock

LEMMA CandidateType ==
  ASSUME blocks \subseteq Block, NEW a \in Candidates
  PROVE  a \in 0..(Modulus - 1)
  BY AboveType, AddressTypes DEF Candidates

LEMMA ProtectedPages ==
  ASSUME NEW va, NEW size
  PROVE  Protected(va, size) \subseteq Pages
  BY DEF Protected

LEMMA AppendType ==
  ASSUME TypeOK, fixedNext' \in BOOLEAN, handler' \in BOOLEAN,
         NEW va \in 0..(Modulus - 1), NEW size \in 0..(Modulus - 1), NEW mode \in Mode,
         AppendMemoryBlock(va, size, mode)
  PROVE  TypeOK'
<1> DEFINE nb == [id |-> serial, va |-> va, size |-> size]
<1>1. /\ blocks' = blocks \cup {nb}
      /\ shadow' = [p \in Pages |-> IF p \in Covered(va, size) THEN serial ELSE shadow[p]]
      /\ serial' = serial + 1
      /\ released' = released /\ status' = status
  BY DEF AppendMemoryBlock
<1>2. nb \in Block /\ nb.id = serial
  BY DEF Block, TypeOK
<1>3. serial' \in Nat \ {0}
  BY <1>1 DEF TypeOK
<1>4. blocks' \subseteq Block /\ \A b \in blocks' : b.id < serial'
  BY <1>1, <1>2 DEF TypeOK, Block
<1>5. shadow' \in [Pages -> Nat]
  BY <1>1 DEF TypeOK
<1>6. \A p \in Pages : shadow'[p] # None => \E b \in blocks' : b.id = shadow'[p]
  BY <1>1, <1>2 DEF TypeOK
<1>7. rights' \in [Pages -> Mode]
  BY DEF AppendMemoryBlock, SetAccessMode, TypeOK
<1> QED
  BY <1>1, <1>3, <1>4, <1>5, <1>6, <1>7 DEF TypeOK

LEMMA AbortType ==
  ASSUME TypeOK, NEW why \in Outcome, Abort(why)
  PROVE  TypeOK'
  BY DEF TypeOK, Abort

\* The steps that end in an assertion or behind the shadow array.
Stops ==
  \/ \E size \in Requests :
       MallocOccupied(size) \/ MallocOutOfShadow(size) \/ MallocExhausted(size)
  \/ \E size \in Sizes : VirtualAllocOccupied(size) \/ VirtualAllocOutOfShadow(size)
  \/ \E a \in 0..(MapSize - 1), size \in Sizes : VirtualProtectUnknown(a, size)

LEMMA StopsAbort ==
  ASSUME Stops
  PROVE  /\ status = "running"
         /\ \E why \in Outcome \ {"running"} :
              /\ Abort(why)
              /\ why = "malloc hit a block" => \E size \in Requests : MallocOccupied(size)
<1>1. status = "running"
  BY DEF Stops, MallocOccupied, MallocOutOfShadow, MallocExhausted, VirtualAllocOccupied,
         VirtualAllocOutOfShadow, VirtualProtectUnknown, CanAllocate, Ready
<1>2. \/ (\E size \in Requests : MallocOccupied(size)) /\ Abort("malloc hit a block")
      \/ Abort("past the shadow") \/ Abort("out of address space")
      \/ Abort("fixed address taken") \/ Abort("unknown old protection")
  BY Zenon DEF Stops, MallocOccupied, MallocOutOfShadow, MallocExhausted, VirtualAllocOccupied,
               VirtualAllocOutOfShadow, VirtualProtectUnknown
<1>3. /\ {"malloc hit a block", "past the shadow", "out of address space",
          "fixed address taken", "unknown old protection"} \subseteq Outcome \ {"running"}
      /\ "malloc hit a block" \notin {"past the shadow", "out of address space",
                                     "fixed address taken", "unknown old protection"}
  BY DEF Outcome
<1> QED
  BY <1>1, <1>2, <1>3

\* Every step loads, searches, takes the fixed address, releases, re-protects or
\* stops.
LEMMA NextKinds ==
  ASSUME Next
  PROVE  \/ \E r \in Image : Load(r)
         \/ \E size \in Sizes, mode \in AllocModes : Malloc(size, mode)
         \/ MallocHandler
         \/ \E size \in Sizes : VirtualAllocFirst(size)
         \/ \E b \in blocks : Release(b)
         \/ \E a \in 0..(MapSize - 1), size \in Sizes : VirtualProtect(a, size)
         \/ Stops
  BY Zenon DEF Next, Stops

LEMMA Searches ==
  ASSUME \/ \E size \in Sizes, mode \in AllocModes : Malloc(size, mode)
         \/ MallocHandler
  PROVE  \E size \in Sizes \cup {HandlerSize}, mode \in Mode : Search(size, mode)
<1>1. AllocModes \subseteq Mode /\ RX \in Mode
  BY DEF AllocModes, Mode, NoAccess, RW, RX
<1> QED
  BY <1>1 DEF Malloc, MallocHandler

LEMMA SearchType ==
  ASSUME TypeOK, NEW size \in Sizes \cup {HandlerSize}, NEW mode \in Mode,
         Search(size, mode), handler' \in BOOLEAN
  PROVE  TypeOK'
<1>1. PICK a \in Candidates : AppendMemoryBlock(a, size, mode)
  BY DEF Search
<1>2. a \in 0..(Modulus - 1)
  BY CandidateType DEF TypeOK
<1>3. size \in 0..(Modulus - 1)
  BY SizesAssumption, HandlerAssumption, AddressTypes DEF SizesAssumption, HandlerAssumption
<1>4. fixedNext' \in BOOLEAN
  BY DEF Search, TypeOK
<1> QED
  BY <1>1, <1>2, <1>3, <1>4, AppendType

LEMMA TypeStep ==
  ASSUME TypeOK, [Next]_vars
  PROVE  TypeOK'
<1>1. ASSUME NEW r \in Image, Load(r) PROVE TypeOK'
  <2>1. r.va \in 0..(Modulus - 1) /\ r.size \in 0..(Modulus - 1) /\ r.mode \in Mode
    BY ImageAssumption, AddressTypes DEF ImageAssumption
  <2> QED
    BY <1>1, <2>1, AppendType DEF Load, TypeOK
<1>2. ASSUME NEW size \in Sizes, NEW mode \in AllocModes, Malloc(size, mode) PROVE TypeOK'
  <2>1. mode \in Mode /\ handler' \in BOOLEAN
    BY <1>2 DEF AllocModes, NoAccess, RW, Mode, Malloc, TypeOK
  <2> QED
    BY <1>2, <2>1, SearchType DEF Malloc
<1>h. ASSUME MallocHandler PROVE TypeOK'
  <2>1. RX \in Mode /\ handler' \in BOOLEAN
    BY <1>h DEF RX, Mode, MallocHandler
  <2> QED
    BY <1>h, <2>1, SearchType DEF MallocHandler
<1>3. ASSUME NEW size \in Sizes, VirtualAllocFirst(size) PROVE TypeOK'
  <2>1. Fixed \in 0..(Modulus - 1)
    BY FixedAssumption, AddressTypes DEF FixedAssumption
  <2>2. size \in 0..(Modulus - 1) /\ RW \in Mode
    BY SizesAssumption DEF SizesAssumption, RW, Mode
  <2> QED
    BY <1>3, <2>1, <2>2, AppendType DEF VirtualAllocFirst, TypeOK
<1>4. ASSUME NEW b \in blocks, Release(b) PROVE TypeOK'
  <2>1. shadow' = [shadow EXCEPT ![PageOf(b.va)] = None] /\ released' = released \cup {b.id}
    BY <1>4 DEF Release
  <2>2. shadow' \in [Pages -> Nat] /\ \A p \in Pages : shadow'[p] # None => shadow'[p] = shadow[p]
    BY <2>1 DEF TypeOK, None
  <2>3. released' \subseteq Nat
    BY <2>1 DEF TypeOK, Block
  <2> QED
    BY <1>4, <2>2, <2>3 DEF TypeOK, Release
<1>5. ASSUME NEW a \in 0..(MapSize - 1), NEW size \in Sizes, VirtualProtect(a, size) PROVE TypeOK'
  BY <1>5 DEF VirtualProtect, SetAccessMode, TypeOK, RWX, Mode
<1>6. ASSUME Stops PROVE TypeOK'
  BY <1>6, StopsAbort, AbortType
<1>7. CASE UNCHANGED vars
  BY <1>7 DEF TypeOK, vars
<1> QED
  BY <1>1, <1>2, <1>h, <1>3, <1>4, <1>5, <1>6, <1>7, NextKinds, Zenon

LEMMA TypeInit == Init => TypeOK
<1>1. Init => fixedNext \in BOOLEAN
  BY FixedAssumption DEF FixedAssumption, Init
<1>2. Init => shadow \in [Pages -> Nat] /\ rights \in [Pages -> Mode]
  BY DEF Init, None, NoAccess, Mode
<1>3. Init => \A q \in Pages : shadow[q] = None
  BY DEF Init
<1>4. Init => blocks = {} /\ serial = 1 /\ released = {}
              /\ status \in Outcome /\ handler \in BOOLEAN
  BY DEF Init, Outcome
<1>5. blocks = {} => blocks \subseteq Block /\ \A b \in blocks : b.id < serial
  OBVIOUS
<1> QED
  BY <1>1, <1>2, <1>3, <1>4, <1>5 DEF TypeOK

\* The memory map keeps its types whatever is mapped, allocated and freed: every
\* shadow entry names a block that was appended, for every parameter.
THEOREM TypeCorrect == Spec => []TypeOK
<1>1. Init => TypeOK
  BY TypeInit
<1>2. TypeOK /\ [Next]_vars => TypeOK'
  BY TypeStep
<1> QED
  BY <1>1, <1>2, PTL DEF Spec

--------------------------------------------------------------------------------
(* Every live block stays reachable *)

\* No request reaches from the fixed address past the end of the shadow, and none
\* is so large that a sum of the search wraps: 1 GB less 4 MB in the code.
SizesFit ==
  \A s \in Sizes \cup {HandlerSize} : Fixed + s <= ShadowSize /\ s + ShadowSize < Modulus

\* Ids are the identities of blocks.
Identified == \A b, c \in blocks : b.id = c.id => b = c

\* A range that starts on a page, fits the shadow, and is not an empty one at 0.
Fits(va, size) == va % PageSize = 0 /\ va + size <= ShadowSize /\ (va = 0 => size # 0)

Placed == \A b \in blocks : Fits(b.va, b.size)

LiveInv == TypeOK /\ Identified /\ Placed /\ LiveOwned

\* The shadow entries a block fills are the pages it has a unit in.
LEMMA CoveredPages ==
  ASSUME NEW va \in Nat, NEW size \in Nat, Fits(va, size), NEW p \in Pages
  PROVE  p \in Covered(va, size) <=> va < (p + 1) * PageSize /\ p * PageSize < va + size
<1>1. p \in Nat
  BY AddressTypes DEF Pages
<1>2. /\ va % PageSize = 0 /\ va + size <= ShadowSize /\ (va = 0 => size # 0)
      /\ va + size - 1 \in Nat /\ va + size - 1 < Modulus
  BY AddressTypes DEF Fits
<1>3. Last(va, size) = va + size - 1
  BY <1>2, AddressTypes, ModSmall DEF Last
<1>4. p <= PageOf(va + size - 1) <=> p * PageSize <= va + size - 1
  BY <1>1, <1>2, PageMono
<1>5. p * PageSize \in Nat /\ (p + 1) * PageSize = p * PageSize + PageSize
  BY <1>1, AddressTypes, Z3
<1>6. PageOf(va) <= p <=> va < (p + 1) * PageSize
  <2>1. p + 1 <= PageOf(va) <=> (p + 1) * PageSize <= va
    BY <1>1, PageMono
  <2>2. PageOf(va) \in Nat
    BY PageBounds
  <2> QED
    BY <1>1, <1>5, <2>1, <2>2, AddressTypes
<1> QED
  BY <1>2, <1>3, <1>4, <1>5, <1>6 DEF Covered

LEMMA AboveBlockIs ==
  ASSUME NEW b \in Block, Fits(b.va, b.size)
  PROVE  /\ End(b) = b.va + b.size
         /\ AboveBlock(b) \in Nat \ {0}
         /\ AboveBlock(b) % PageSize = 0
         /\ b.va + b.size <= AboveBlock(b)
         /\ AboveBlock(b) < b.va + b.size + PageSize
         /\ AboveBlock(b) <= ShadowSize
<1> DEFINE e == b.va + b.size
<1>1. b.va \in Nat /\ b.size \in Nat
  BY AddressTypes DEF Block
<1>2. e \in Nat \ {0} /\ e <= ShadowSize /\ e < Modulus
  BY <1>1, AddressTypes DEF Fits
<1>3. End(b) = e
  BY <1>1, <1>2, AddressTypes, ModSmall DEF End, Plus
<1> HIDE DEF e
<1>4. /\ AlignUp(e) \in Nat /\ e <= AlignUp(e) /\ AlignUp(e) < e + PageSize
      /\ AlignUp(e) % PageSize = 0 /\ AlignUp(e) <= ShadowSize
  BY <1>2, AlignUpFacts
<1>5. AboveBlock(b) = AlignUp(e)
  BY <1>3, <1>4, AddressTypes, ModSmall DEF AboveBlock
<1> QED
  BY <1>2, <1>3, <1>4, <1>5, AddressTypes DEF e

\* Where the search settles, the new block fits.
LEMMA ChosenFits ==
  ASSUME SizesFit, TypeOK, Placed, NEW size \in Sizes \cup {HandlerSize}, NEW a \in Candidates, Chosen(a, size)
  PROVE  a \in Nat /\ size \in Nat /\ Fits(a, size) /\ a # 0
<1>1. size \in Nat /\ size + ShadowSize < Modulus
  BY SizesAssumption, HandlerAssumption, AddressTypes DEF SizesAssumption, HandlerAssumption, SizesFit
<1>2. Start \in Nat \ {0} /\ Start % PageSize = 0
  BY AddressTypes, Z3 DEF Start
<1>3. \A b \in blocks : /\ b \in Block /\ b.va \in Nat /\ b.size \in Nat /\ b.va + b.size <= ShadowSize
                        /\ AboveBlock(b) \in Nat \ {0} /\ AboveBlock(b) % PageSize = 0
                        /\ AboveBlock(b) <= ShadowSize
  BY AddressTypes, AboveBlockIs DEF TypeOK, Placed, Block, Fits
<1>4. a \in Nat \ {0} /\ a % PageSize = 0 /\ a <= ShadowSize
  BY <1>2, <1>3, AddressTypes DEF Candidates
<1>5. Plus(a, size) = a + size
  BY <1>1, <1>4, AddressTypes, ModSmall DEF Plus
<1>6. a + size <= ShadowSize
  <2>1. CASE a = Start /\ blocks = {} /\ size <= MapSize - Start
    BY <2>1, <1>1, <1>2, AddressTypes
  <2>2. CASE a = Start /\ BelowFirst(size)
    BY <2>2, <1>1, <1>2, <1>3, AddressTypes DEF BelowFirst
  <2>3. CASE \E b \in blocks : FirstGapAfter(b, size) /\ a = AboveBlock(b)
    BY <2>3, <1>1, <1>3, <1>5, AddressTypes DEF FirstGapAfter, HasGap, Gap
  <2>4. CASE AfterLast(a, size)
    BY <2>4, <1>1, <1>4, <1>5, AddressTypes DEF AfterLast
  <2> QED
    BY <2>1, <2>2, <2>3, <2>4 DEF Chosen
<1> QED
  BY <1>1, <1>4, <1>6 DEF Fits

LEMMA AppendLive ==
  ASSUME LiveInv, TypeOK',
         NEW va \in Nat, NEW size \in Nat, Fits(va, size), NEW mode,
         AppendMemoryBlock(va, size, mode)
  PROVE  LiveInv'
<1> DEFINE nb == [id |-> serial, va |-> va, size |-> size]
<1>1. /\ blocks' = blocks \cup {nb}
      /\ shadow' = [p \in Pages |-> IF p \in Covered(va, size) THEN serial ELSE shadow[p]]
      /\ released' = released
      /\ \A p \in Covered(va, size) : shadow[p] = None
  BY DEF AppendMemoryBlock, Free
<1>2. \A b \in blocks : b.id < serial /\ b.id \in Nat \ {0} /\ b.id # None
  BY DEF LiveInv, TypeOK, Block, None
<1>3. Identified'
  BY <1>1, <1>2 DEF LiveInv, Identified, TypeOK
<1>4. Placed'
  BY <1>1 DEF LiveInv, Placed
<1>5. LiveOwned'
  <2> SUFFICES ASSUME NEW b \in blocks', Live(b)', NEW p \in Pages, Holds(b, p)
               PROVE  Resolves(b, p)' \/ LostToEmpty(p)'
    BY DEF LiveOwned, Holds
  <2>1. CASE b = nb
    <3>1. p \in Covered(va, size)
      BY <2>1, CoveredPages DEF Holds
    <3> QED
      BY <1>1, <2>1, <3>1 DEF Resolves
  <2>2. CASE b \in blocks
    <3>1. Resolves(b, p) \/ LostToEmpty(p)
      BY <1>1, <2>2 DEF LiveInv, LiveOwned, Live
    <3>2. LostToEmpty(p) => LostToEmpty(p)'
      BY <1>1 DEF LostToEmpty
    <3>3. Resolves(b, p) => Resolves(b, p)'
      BY <1>1, <1>2, <2>2 DEF Resolves
    <3> QED
      BY <3>1, <3>2, <3>3
  <2> QED
    BY <1>1, <2>1, <2>2
<1> QED
  BY <1>3, <1>4, <1>5 DEF LiveInv

LEMMA ReleaseLive ==
  ASSUME LiveInv, TypeOK', NEW b \in blocks, Release(b)
  PROVE  LiveInv'
<1>1. /\ blocks' = blocks /\ released' = released \cup {b.id}
      /\ shadow' = [shadow EXCEPT ![PageOf(b.va)] = None]
  BY DEF Release
<1>2. Identified' /\ Placed'
  BY <1>1 DEF LiveInv, Identified, Placed
<1>3. LiveOwned'
  <2> SUFFICES ASSUME NEW c \in blocks, Live(c)', NEW p \in Pages, Holds(c, p)
               PROVE  Resolves(c, p)' \/ LostToEmpty(p)'
    BY <1>1 DEF LiveOwned, Holds
  <2>1. Live(c) /\ c # b
    BY <1>1 DEF Live
  <2>2. Resolves(c, p) \/ LostToEmpty(p)
    BY <2>1 DEF LiveInv, LiveOwned
  <2>3. LostToEmpty(p) => LostToEmpty(p)'
    BY <1>1 DEF LostToEmpty
  <2>4. p # PageOf(b.va) => (Resolves(c, p) => Resolves(c, p)')
    BY <1>1 DEF Resolves, LiveInv, TypeOK
  <2>5. CASE p = PageOf(b.va) /\ b.size = 0
    BY <1>1, <2>5 DEF LostToEmpty
  <2>6. CASE p = PageOf(b.va) /\ b.size # 0
    <3>1. b.va \in Nat /\ b.size \in Nat
      BY AddressTypes DEF LiveInv, TypeOK, Block
    <3>2. p \in Nat /\ p * PageSize <= b.va /\ b.va < p * PageSize + PageSize
      BY <2>6, <3>1, PageBounds
    <3>3. (p + 1) * PageSize = p * PageSize + PageSize /\ p * PageSize \in Nat
      BY <3>2, AddressTypes, Z3
    <3>4. Holds(b, p)
      BY <2>6, <3>1, <3>2, <3>3, AddressTypes DEF Holds
    <3>5. Resolves(b, p) \/ LostToEmpty(p)
      BY <3>4 DEF LiveInv, LiveOwned, Live, Release
    <3>6. ~ (Resolves(b, p) /\ Resolves(c, p))
      BY <2>1 DEF Resolves, LiveInv, Identified
    <3> QED
      BY <2>2, <2>3, <3>5, <3>6
  <2> QED
    BY <2>2, <2>3, <2>4, <2>5, <2>6
<1> QED
  BY <1>2, <1>3 DEF LiveInv

LEMMA OtherLive ==
  ASSUME LiveInv, TypeOK', UNCHANGED <<blocks, shadow, released>>
  PROVE  LiveInv'
  BY DEF LiveInv, Identified, Placed, LiveOwned, Live, Resolves, LostToEmpty

LEMMA LiveStep ==
  ASSUME SizesFit, LiveInv, [Next]_vars
  PROVE  LiveInv'
<1>0. TypeOK'
  BY TypeStep DEF LiveInv
<1>1. ASSUME NEW r \in Image, Load(r) PROVE LiveInv'
  <2>1. /\ r.va \in Nat /\ r.size \in Nat \ {0}
        /\ r.va % PageSize = 0 /\ r.va + r.size <= MapSize
    BY ImageAssumption DEF ImageAssumption
  <2>2. Fits(r.va, r.size)
    BY <2>1, AddressTypes DEF Fits
  <2> QED
    BY <1>0, <1>1, <2>1, <2>2, AppendLive DEF Load
<1>2. ASSUME NEW size \in Sizes \cup {HandlerSize}, NEW mode \in Mode, Search(size, mode) PROVE LiveInv'
  <2>1. PICK a \in Candidates : Chosen(a, size) /\ AppendMemoryBlock(a, size, mode)
    BY <1>2 DEF Search
  <2>2. a \in Nat /\ size \in Nat /\ Fits(a, size)
    BY <2>1, ChosenFits DEF LiveInv
  <2> QED
    BY <1>0, <2>1, <2>2, AppendLive
<1>3. ASSUME NEW size \in Sizes, VirtualAllocFirst(size) PROVE LiveInv'
  <2>1. Fixed \in Nat /\ size \in Nat /\ Fixed % PageSize = 0
    BY FixedAssumption, SizesAssumption, AddressTypes DEF FixedAssumption, SizesAssumption
  <2>2. Fits(Fixed, size)
    BY <1>3, <2>1 DEF Fits, SizesFit, VirtualAllocFirst
  <2> QED
    BY <1>0, <1>3, <2>1, <2>2, AppendLive DEF VirtualAllocFirst
<1>4. ASSUME NEW b \in blocks, Release(b) PROVE LiveInv'
  BY <1>0, <1>4, ReleaseLive
<1>5. ASSUME NEW a \in 0..(MapSize - 1), NEW size \in Sizes, VirtualProtect(a, size) PROVE LiveInv'
  BY <1>0, <1>5, OtherLive DEF VirtualProtect
<1>6. ASSUME Stops PROVE LiveInv'
  BY <1>0, <1>6, StopsAbort, OtherLive DEF Abort
<1>7. CASE UNCHANGED vars
  BY <1>0, <1>7, OtherLive DEF vars
<1> QED
  BY <1>1, <1>2, <1>3, <1>4, <1>5, <1>6, <1>7, NextKinds, Searches, Zenon

\* As long as every request fits (SizesFit), the code that dereferences an
\* address of a live block reaches that block, in the first process of the host
\* or a later one, whatever was allocated and freed around it.
THEOREM LiveReachable ==
  ASSUME SizesFit
  PROVE  Spec => []LiveOwned
<1>1. Init => LiveInv
  <2>1. Init => TypeOK
    BY TypeInit
  <2> QED
    BY <2>1 DEF Init, LiveInv, Identified, Placed, LiveOwned
<1>2. LiveInv /\ [Next]_vars => LiveInv'
  BY LiveStep
<1>3. LiveInv => LiveOwned
  BY DEF LiveInv
<1> QED
  BY <1>1, <1>2, <1>3, PTL DEF Spec

--------------------------------------------------------------------------------
(* Nothing is allocated at zero *)

\* The process maps the page at zero, and 2^32 is a number of whole pages.
ZeroMapped == \E r \in Image : r.va = 0
WholePages == Modulus % PageSize = 0

Aligned == \A b \in blocks : b.va % PageSize = 0

\* What is mapped at zero stays mapped.
ZeroTaken == (\E b \in blocks : b.va = 0) => shadow[0] # None

ZeroInv == TypeOK /\ Aligned /\ NeverAtZero /\ ZeroTaken

LEMMA ZeroPage ==
  /\ 0 \in Pages /\ PageOf(0) = 0
  /\ \A a \in Nat : PageOf(a) = 0 => a < Start
  /\ \A a \in Nat : a % PageSize = 0 /\ a < Start => a = 0
<1>1. 0 \in Pages
  BY AddressTypes DEF Pages
<1>2. PageOf(0) = 0
  BY PageUnique, AddressTypes
<1>3. ASSUME NEW a \in Nat, PageOf(a) = 0 PROVE a < Start
  BY <1>3, PageBounds, AddressTypes DEF Start
<1>4. ASSUME NEW a \in Nat, a % PageSize = 0, a < Start PROVE a = 0
  BY <1>4, ModSmall, AddressTypes DEF Start
<1> QED
  BY <1>1, <1>2, <1>3, <1>4

\* The sum that is aligned may wrap, to zero or to any other multiple of a page.
LEMMA AboveAligned ==
  ASSUME WholePages, NEW b \in Block
  PROVE  AboveBlock(b) \in Nat /\ AboveBlock(b) % PageSize = 0
<1>1. b.va \in Nat /\ b.size \in Nat
  BY AddressTypes DEF Block
<1>2. PICK e \in 0..(Modulus - 1) : End(b) = e
  BY <1>1, PlusType DEF End
<1>3. e \in Nat /\ e < Modulus /\ Modulus \in Nat
  BY AddressTypes
<1>4. PICK x \in Nat : x = AlignUp(e) /\ x < e + PageSize /\ x % PageSize = 0
  BY <1>3, AlignUpFacts
<1>5. x <= Modulus
  <2>b. /\ PageOf(x) \in Nat /\ PageOf(Modulus) \in Nat
        /\ x = PageOf(x) * PageSize + (x % PageSize)
        /\ Modulus = PageOf(Modulus) * PageSize + (Modulus % PageSize)
    BY <1>3, <1>4, PageBounds
  <2>1. /\ PageOf(x) \in Nat /\ PageOf(Modulus) \in Nat
        /\ x = PageOf(x) * PageSize /\ Modulus = PageOf(Modulus) * PageSize
    BY <1>4, <2>b, AddressTypes, Z3 DEF WholePages
  <2>2. PageOf(Modulus) + 1 <= PageOf(x) => (PageOf(Modulus) + 1) * PageSize <= x
    BY <2>1, <1>4, PageMono
  <2>3. (PageOf(Modulus) + 1) * PageSize = Modulus + PageSize
    BY <2>1, AddressTypes, Z3
  <2>4. PageOf(x) <= PageOf(Modulus)
    BY <1>3, <1>4, <2>1, <2>2, <2>3, AddressTypes
  <2>5. PageOf(x) * PageSize <= PageOf(Modulus) * PageSize
    BY <2>1, <2>4, AddressTypes, Z3
  <2> QED
    BY <2>1, <2>5
<1>6. AboveBlock(b) = x % Modulus
  BY <1>2, <1>4 DEF AboveBlock
<1>7. CASE x < Modulus
  BY <1>3, <1>4, <1>6, <1>7, ModSmall
<1>8. CASE x = Modulus
  <2>1. x % Modulus = 0
    BY <1>3, <1>8, AddressTypes, Z3
  <2>2. 0 % PageSize = 0
    BY AddressTypes, ModSmall
  <2> QED
    BY <1>6, <2>1, <2>2
<1> QED
  BY <1>3, <1>4, <1>5, <1>7, <1>8

\* A block at zero covers the page at zero, whatever its size.
LEMMA CoversZero ==
  ASSUME NEW size \in Nat
  PROVE  0 \in Covered(0, size)
<1>1. Last(0, size) \in Nat
  BY AddressTypes, Z3 DEF Last
<1>2. PICK q \in Nat : q = PageOf(Last(0, size))
  BY <1>1, PageBounds
<1> QED
  BY <1>2, ZeroPage DEF Covered

LEMMA AppendZero ==
  ASSUME ZeroMapped, ZeroInv, TypeOK', NEW va \in Nat, NEW size \in Nat, NEW mode,
         AppendMemoryBlock(va, size, mode), va % PageSize = 0,
         Loaded \/ \E r \in Image : r.va = va /\ r.size = size
  PROVE  ZeroInv'
<1> DEFINE nb == [id |-> serial, va |-> va, size |-> size]
<1>1. /\ blocks' = blocks \cup {nb} /\ nb.va = va /\ nb.size = size
      /\ \A p \in Covered(va, size) : shadow[p] = None
      /\ \A p \in Pages : shadow'[p] = IF p \in Covered(va, size) THEN serial ELSE shadow[p]
      /\ serial # None
  BY DEF AppendMemoryBlock, Free, ZeroInv, TypeOK, None
<1> HIDE DEF nb
<1>2. Aligned'
  BY <1>1 DEF ZeroInv, Aligned
<1>3. NeverAtZero'
  <2> SUFFICES ASSUME NEW b \in blocks', b.va < Start
               PROVE  \E r \in Image : r.va = b.va /\ r.size = b.size
    BY DEF NeverAtZero
  <2>1. CASE b \in blocks
    BY <2>1 DEF ZeroInv, NeverAtZero
  <2>2. CASE b = nb /\ Loaded
    <3>1. va = 0
      BY <1>1, <2>2, ZeroPage
    <3>2. shadow[0] = None
      BY <1>1, <3>1, CoversZero
    <3>3. \E c \in blocks : c.va = 0
      BY <2>2 DEF ZeroMapped, Loaded, Mapped
    <3> QED
      BY <3>2, <3>3 DEF ZeroInv, ZeroTaken
  <2>3. CASE b = nb /\ ~ Loaded
    BY <1>1, <2>3
  <2> QED
    BY <1>1, <2>1, <2>2, <2>3
<1>4. ZeroTaken'
  <2>1. CASE va = 0
    BY <1>1, <2>1, CoversZero, ZeroPage DEF ZeroTaken
  <2>2. CASE va # 0
    BY <1>1, <2>2, ZeroPage DEF ZeroInv, ZeroTaken
  <2> QED
    BY <2>1, <2>2
<1> QED
  BY <1>2, <1>3, <1>4 DEF ZeroInv

LEMMA ZeroStep ==
  ASSUME ZeroMapped, WholePages, ZeroInv, [Next]_vars
  PROVE  ZeroInv'
<1>0. TypeOK'
  BY TypeStep DEF ZeroInv
<1>1. ASSUME NEW r \in Image, Load(r) PROVE ZeroInv'
  <2>1. r.va \in Nat /\ r.size \in Nat /\ r.va % PageSize = 0
    BY ImageAssumption DEF ImageAssumption
  <2> QED
    BY <1>0, <1>1, <2>1, AppendZero DEF Load
<1>s. Sizes \cup {HandlerSize} \subseteq Nat
  BY SizesAssumption, HandlerAssumption, AddressTypes DEF SizesAssumption, HandlerAssumption
<1>2. ASSUME NEW size \in Sizes \cup {HandlerSize}, NEW mode \in Mode, Search(size, mode) PROVE ZeroInv'
  <2>1. PICK a \in Candidates : AppendMemoryBlock(a, size, mode)
    BY <1>2 DEF Search
  <2>2. Start \in Nat /\ Start % PageSize = 0
    BY AddressTypes, Z3 DEF Start
  <2>3. a \in Nat /\ a % PageSize = 0
    BY <2>2, AboveAligned DEF Candidates, ZeroInv, TypeOK
  <2>4. Loaded
    BY <1>2 DEF Search, CanAllocate, Ready
  <2> QED
    BY <1>0, <1>s, <2>1, <2>3, <2>4, AppendZero
<1>3. ASSUME NEW size \in Sizes, VirtualAllocFirst(size) PROVE ZeroInv'
  <2>1. Fixed \in Nat /\ Fixed % PageSize = 0
    BY FixedAssumption DEF FixedAssumption
  <2>2. Loaded /\ AppendMemoryBlock(Fixed, size, RW)
    BY <1>3 DEF VirtualAllocFirst, CanAllocate, Ready
  <2> QED
    BY <1>0, <1>s, <2>1, <2>2, AppendZero
<1>4. ASSUME NEW b \in blocks, Release(b) PROVE ZeroInv'
  <2>1. /\ blocks' = blocks /\ \A r \in Image : b.va # r.va
        /\ shadow' = [shadow EXCEPT ![PageOf(b.va)] = None]
    BY <1>4 DEF Release
  <2>2. b.va \in Nat /\ ~ b.va < Start
    BY <2>1, AddressTypes DEF ZeroInv, NeverAtZero, TypeOK, Block
  <2>3. shadow'[0] = shadow[0]
    BY <2>1, <2>2, ZeroPage DEF ZeroInv, TypeOK
  <2> QED
    BY <1>0, <2>1, <2>3 DEF ZeroInv, Aligned, NeverAtZero, ZeroTaken
<1>5. ASSUME UNCHANGED <<blocks, shadow>> PROVE ZeroInv'
  BY <1>0, <1>5 DEF ZeroInv, Aligned, NeverAtZero, ZeroTaken
<1>6. ASSUME NEW a \in 0..(MapSize - 1), NEW size \in Sizes, VirtualProtect(a, size) PROVE ZeroInv'
  BY <1>5, <1>6 DEF VirtualProtect
<1>7. ASSUME Stops PROVE ZeroInv'
  BY <1>5, <1>7, StopsAbort DEF Abort
<1>8. CASE UNCHANGED vars
  BY <1>5, <1>8 DEF vars
<1> QED
  BY <1>1, <1>2, <1>3, <1>4, <1>6, <1>7, <1>8, NextKinds, Searches, Zenon

\* "malloc will never allocate at 0": for sizes of any kind, those that wrap the
\* 32-bit sums of the search included, only the image is mapped below Start.  A
\* search that wraps to zero stops at the assertion of the page mapped there.
THEOREM NothingAtZero ==
  ASSUME ZeroMapped, WholePages
  PROVE  Spec => []NeverAtZero
<1>1. Init => ZeroInv
  <2>1. Init => TypeOK
    BY TypeInit
  <2> QED
    BY <2>1 DEF Init, ZeroInv, Aligned, NeverAtZero, ZeroTaken
<1>2. ZeroInv /\ [Next]_vars => ZeroInv'
  BY ZeroStep
<1>3. ZeroInv => NeverAtZero
  BY DEF ZeroInv
<1> QED
  BY <1>1, <1>2, <1>3, PTL DEF Spec

--------------------------------------------------------------------------------
(* The first fit search of fe_memoryMap_malloc.  What it relies on depends on the *)
(* host process.  In every process but the first, where all blocks come out of    *)
(* the search, the array stays free of overlaps.  In the first one the fixed      *)
(* block of fe_VirtualAlloc can be laid over what was given back; what holds then  *)
(* follows from the shadow instead, as long as no block is empty.                 *)

\* The array is sorted and no block reaches into the next one.
Ascending == \A b, c \in blocks : Before(b, c) => b.va + b.size <= c.va

\* A shadow entry names a block that has a unit in the page.
Owner ==
  \A p \in Pages : shadow[p] # None => \E b \in blocks : b.id = shadow[p] /\ Holds(b, p)

\* Before the image is complete there is nothing else in the map.
LoadPhase == Loaded \/ \A b \in blocks : \E r \in Image : b.va = r.va /\ b.size = r.size

\* A page is writable only because a block was mapped there.
WriteHeld == \A p \in Pages : "Write" \in rights[p] => \E b \in blocks : Holds(b, p)

\* Only blocks that were allocated were given back.
GivenBack == \A i \in released : i < serial

\* What every process keeps, its first VirtualAlloc included.
BaseInv == LiveInv /\ Owner /\ LoadPhase /\ WriteHeld /\ GivenBack

\* [va, va + size) lies above or strictly below every block of the array.
Clear(va, size) ==
  \A d \in blocks : d.va + d.size <= va \/ (va + size <= d.va /\ va < d.va)

LEMMA PageBelow ==
  ASSUME NEW x \in Nat, x % PageSize = 0, NEW p \in Nat, p * PageSize < x
  PROVE  (p + 1) * PageSize <= x
<1>1. PageOf(x) \in Nat /\ x = PageOf(x) * PageSize + (x % PageSize)
  BY PageBounds
<1>2. x = PageOf(x) * PageSize
  BY <1>1, AddressTypes, Z3
<1>3. ~ PageOf(x) <= p
  <2> SUFFICES ASSUME PageOf(x) <= p PROVE FALSE
    OBVIOUS
  <2>1. PageOf(x) * PageSize <= p * PageSize
    BY <1>1, AddressTypes, Z3
  <2> QED
    BY <1>2, <2>1, <1>1, AddressTypes
<1>4. p + 1 \in Int /\ p + 1 <= PageOf(x)
  BY <1>1, <1>3
<1> QED
  BY <1>4, PageMono

LEMMA BlockFacts ==
  ASSUME LiveInv, NEW b \in blocks
  PROVE  /\ b \in Block /\ b.id \in Nat \ {0} /\ b.va \in Nat /\ b.size \in Nat
         /\ Fits(b.va, b.size) /\ b.va % PageSize = 0 /\ b.va + b.size <= ShadowSize
         /\ b.id < serial /\ serial \in Nat \ {0}
  BY AddressTypes DEF LiveInv, TypeOK, Block, Placed, Fits

\* The array order is total: blocks have distinct ids.
LEMMA BeforeTotal ==
  ASSUME LiveInv, NEW b \in blocks, NEW c \in blocks
  PROVE  b = c \/ Before(b, c) \/ Before(c, b)
  BY BlockFacts DEF Before, LiveInv, Identified

\* What is clear of a block shares no page with it.
LEMMA ClearPages ==
  ASSUME LiveInv, NEW va \in Nat, NEW size \in Nat, Fits(va, size), Clear(va, size),
         NEW b \in blocks, NEW p \in Pages, Holds(b, p)
  PROVE  p \notin Covered(va, size)
<1>1. p \in Nat
  BY AddressTypes DEF Pages
<1>2. p * PageSize \in Nat /\ (p + 1) * PageSize \in Nat
  BY <1>1, AddressTypes, Z3
<1>3. SUFFICES ASSUME va < (p + 1) * PageSize, p * PageSize < va + size PROVE FALSE
  BY CoveredPages
<1>4. b.va < (p + 1) * PageSize /\ p * PageSize < b.va + b.size
  BY DEF Holds
<1>5. CASE b.va + b.size <= va
  <2>1. p * PageSize < va
    BY <1>2, <1>4, <1>5, BlockFacts
  <2>2. (p + 1) * PageSize <= va
    BY <1>1, <2>1, PageBelow DEF Fits
  <2> QED
    BY <1>2, <1>3, <2>2
<1>6. CASE va + size <= b.va
  <2>1. p * PageSize < b.va
    BY <1>2, <1>3, <1>6, BlockFacts
  <2>2. (p + 1) * PageSize <= b.va
    BY <1>1, <2>1, PageBelow, BlockFacts
  <2> QED
    BY <1>2, <1>4, <2>2, BlockFacts
<1> QED
  BY <1>5, <1>6 DEF Clear

\* The search settles on a range that is clear of every block.
LEMMA ChosenClear ==
  ASSUME SizesFit, LiveInv, Ascending, NEW size \in Sizes \cup {HandlerSize}, NEW a \in Candidates, Chosen(a, size)
  PROVE  a \in Nat /\ size \in Nat /\ Fits(a, size) /\ Clear(a, size)
<1>1. a \in Nat /\ size \in Nat /\ Fits(a, size) /\ a + size <= ShadowSize
  BY ChosenFits DEF LiveInv, Fits
<1>2. Plus(a, size) = a + size
  BY <1>1, AddressTypes, ModSmall DEF Plus
<1>3. \A b \in blocks : b.va + b.size <= AboveBlock(b) /\ AboveBlock(b) \in Nat
  BY BlockFacts, AboveBlockIs
<1>4. CASE blocks = {}
  BY <1>1, <1>4 DEF Clear
<1>5. CASE a = Start /\ BelowFirst(size)
  <2>1. PICK b \in blocks : IsFirst(b) /\ b.va > Start /\ size < b.va - Start
    BY <1>5 DEF BelowFirst
  <2>2. \A d \in blocks : b.va <= d.va
    BY <2>1, BlockFacts DEF IsFirst, Before
  <2>3. \A d \in blocks : a + size <= d.va /\ a < d.va
    BY <1>1, <1>5, <2>1, <2>2, BlockFacts, AddressTypes
  <2> QED
    BY <1>1, <2>3 DEF Clear
<1>6. CASE \E b \in blocks : FirstGapAfter(b, size) /\ a = AboveBlock(b)
  <2>1. PICK b \in blocks, c \in blocks : Adjacent(b, c) /\ a = AboveBlock(b) /\ a + size < c.va
    BY <1>2, <1>6 DEF FirstGapAfter, HasGap, Gap
  <2> SUFFICES ASSUME NEW d \in blocks
               PROVE  d.va + d.size <= a \/ (a + size <= d.va /\ a < d.va)
    BY <1>1 DEF Clear
  <2>2. CASE d = b
    BY <1>3, <2>1, <2>2
  <2>3. CASE Before(d, b)
    <3>1. d.va + d.size <= b.va
      BY <2>3 DEF Ascending
    <3> QED
      BY <1>1, <1>3, <2>1, <3>1, BlockFacts
  <2>4. CASE Before(b, d)
    <3>1. ~ Before(d, c)
      BY <2>1, <2>4 DEF Adjacent
    <3>2. d = c \/ Before(c, d)
      BY <3>1, BeforeTotal
    <3>3. c.va <= d.va
      BY <3>2, BlockFacts DEF Before
    <3> QED
      BY <1>1, <2>1, <3>3, BlockFacts
  <2> QED
    BY <2>2, <2>3, <2>4, BeforeTotal
<1>7. CASE AfterLast(a, size)
  <2>1. PICK b \in blocks : IsLast(b) /\ a = AboveBlock(b)
    BY <1>7 DEF AfterLast
  <2> SUFFICES ASSUME NEW d \in blocks PROVE d.va + d.size <= a
    BY <1>1 DEF Clear
  <2>2. d # b => d.va + d.size <= b.va
    BY <2>1 DEF IsLast, Ascending
  <2> QED
    BY <1>1, <1>3, <2>1, <2>2, BlockFacts
<1> QED
  BY <1>1, <1>4, <1>5, <1>6, <1>7 DEF Chosen

--------------------------------------------------------------------------------
(* Steps every process may take *)

\* The rights that are set are those of pages the block covers.
LEMMA ProtectedCovered ==
  ASSUME NEW va \in Nat, NEW size \in Nat
  PROVE  \A p \in Protected(va, size) : p \in Covered(va, size)
<1>1. Last(va, size) \in Int
  BY AddressTypes, Z3 DEF Last
<1>2. PICK q \in Int : q = PageOf(Last(va, size))
  BY <1>1, PageBounds
<1> QED
  BY <1>2, AddressTypes DEF Protected, Covered, Pages

\* Appending, over whatever was given back or not.
LEMMA AppendBase ==
  ASSUME BaseInv, LiveInv', LoadPhase',
         NEW va \in Nat, NEW size \in Nat, Fits(va, size), NEW mode \in Mode,
         AppendMemoryBlock(va, size, mode)
  PROVE  BaseInv'
<1> DEFINE nb == [id |-> serial, va |-> va, size |-> size]
<1>1. /\ blocks' = blocks \cup {nb}
      /\ shadow' = [p \in Pages |-> IF p \in Covered(va, size) THEN serial ELSE shadow[p]]
      /\ rights' = [p \in Pages |-> IF p \in Protected(va, size) THEN mode ELSE rights[p]]
      /\ serial' = serial + 1 /\ released' = released /\ status' = status
  BY DEF AppendMemoryBlock, SetAccessMode
<1>2. \A p \in Pages : p \in Covered(va, size) => Holds(nb, p)
  BY CoveredPages DEF Holds
<1>4. \A p \in Protected(va, size) : p \in Covered(va, size)
  BY ProtectedCovered
<1>6. Owner'
  <2> SUFFICES ASSUME NEW p \in Pages, shadow'[p] # None
               PROVE  \E b \in blocks' : b.id = shadow'[p] /\ Holds(b, p)
    BY DEF Owner, Holds
  <2>1. CASE p \in Covered(va, size)
    BY <1>1, <1>2, <2>1
  <2>2. CASE p \notin Covered(va, size)
    BY <1>1, <2>2 DEF BaseInv, Owner
  <2> QED
    BY <2>1, <2>2
<1>7. WriteHeld'
  <2> SUFFICES ASSUME NEW p \in Pages, "Write" \in rights'[p]
               PROVE  \E b \in blocks' : Holds(b, p)
    BY DEF WriteHeld, Holds
  <2>1. CASE p \in Protected(va, size)
    BY <1>1, <1>2, <1>4, <2>1
  <2>2. CASE p \notin Protected(va, size)
    BY <1>1, <2>2 DEF BaseInv, WriteHeld
  <2> QED
    BY <2>1, <2>2
<1>8. GivenBack'
  <2>1. \A i \in released : i \in Nat /\ serial \in Nat /\ i < serial
    BY DEF BaseInv, GivenBack, LiveInv, TypeOK
  <2> QED
    BY <1>1, <2>1 DEF GivenBack
<1> QED
  BY <1>6, <1>7, <1>8 DEF BaseInv

\* An image record that is not mapped yet is clear of everything that is.
LEMMA LoadClear ==
  ASSUME BaseInv, NEW r \in Image, ~ Mapped(r)
  PROVE  r.va \in Nat /\ r.size \in Nat \ {0} /\ r.mode \in Mode /\ Fits(r.va, r.size)
         /\ Clear(r.va, r.size)
<1>1. /\ r.va \in Nat /\ r.size \in Nat \ {0} /\ r.mode \in Mode
      /\ r.va % PageSize = 0 /\ r.va + r.size <= MapSize
  BY ImageAssumption DEF ImageAssumption
<1>2. ASSUME NEW d \in blocks
      PROVE  d.va + d.size <= r.va \/ (r.va + r.size <= d.va /\ r.va < d.va)
  <2>1. PICK q \in Image : d.va = q.va /\ d.size = q.size
    BY DEF BaseInv, LoadPhase, Loaded
  <2>2. q # r
    BY <2>1 DEF Mapped
  <2>3. q.va \in Nat /\ q.size \in Nat \ {0}
    BY ImageAssumption DEF ImageAssumption
  <2>4. AlignUp(r.va + r.size) <= q.va \/ AlignUp(q.va + q.size) <= r.va
    BY <2>2, ImageAssumption DEF ImageAssumption
  <2>5. /\ r.va + r.size <= AlignUp(r.va + r.size) /\ AlignUp(r.va + r.size) \in Nat
        /\ q.va + q.size <= AlignUp(q.va + q.size) /\ AlignUp(q.va + q.size) \in Nat
    BY <1>1, <2>3, AlignUpFacts
  <2> QED
    BY <1>1, <2>1, <2>3, <2>4, <2>5
<1> QED
  BY <1>1, <1>2, AddressTypes DEF Fits, Clear

LEMMA ReleaseBase ==
  ASSUME BaseInv, LiveInv', NEW b \in blocks, Release(b)
  PROVE  BaseInv' /\ rights' = rights
<1>1. /\ blocks' = blocks /\ serial' = serial /\ rights' = rights
      /\ released' = released \cup {b.id}
      /\ shadow' = [shadow EXCEPT ![PageOf(b.va)] = None]
  BY DEF Release
<1>2. \A p \in Pages : shadow'[p] # None => shadow'[p] = shadow[p]
  BY <1>1 DEF BaseInv, LiveInv, TypeOK
<1>3. Owner' /\ WriteHeld'
  BY <1>1, <1>2 DEF BaseInv, Owner, Holds, WriteHeld
<1>4. LoadPhase'
  BY <1>1 DEF BaseInv, LoadPhase, Loaded, Mapped
<1>5. GivenBack'
  BY <1>1, BlockFacts DEF BaseInv, GivenBack
<1> QED
  BY <1>1, <1>3, <1>4, <1>5 DEF BaseInv

LEMMA ProtectBase ==
  ASSUME BaseInv, LiveInv', NEW a \in 0..(MapSize - 1), NEW size \in Sizes,
         VirtualProtect(a, size)
  PROVE  BaseInv' /\ \A p \in Pages : "Write" \in rights[p] => "Write" \in rights'[p]
<1>1. /\ blocks' = blocks /\ serial' = serial /\ shadow' = shadow
      /\ released' = released
      /\ rights' = [p \in Pages |-> IF p \in Protected(a, size) THEN RWX ELSE rights[p]]
  BY DEF VirtualProtect, SetAccessMode
<1>2. a \in Nat /\ size \in Nat /\ size # 0 /\ a + size <= MapSize /\ a + size - 1 \in Nat
  BY AddressTypes, SizesAssumption DEF SizesAssumption, VirtualProtect, Range
<1>3. Last(a, size) = a + size - 1
  BY <1>2, AddressTypes, ModSmall DEF Last
<1>4. ASSUME NEW p \in Protected(a, size) PROVE \E b \in blocks : Holds(b, p)
  <2>1. p \in Int /\ PageOf(a + size - 1) \in Int
    BY <1>2, AddressTypes, PageBounds DEF Protected, Pages
  <2>2. p \in Covered(a, size)
    BY <1>3, <2>1 DEF Protected, Covered
  <2> QED
    BY <2>2 DEF VirtualProtect, Range
<1>5. WriteHeld'
  BY <1>1, <1>4 DEF BaseInv, WriteHeld, Holds
<1>6. Owner' /\ GivenBack'
  BY <1>1 DEF BaseInv, Owner, Holds, GivenBack
<1>7. LoadPhase'
  BY <1>1 DEF BaseInv, LoadPhase, Loaded, Mapped
<1>8. \A p \in Pages : "Write" \in rights[p] => "Write" \in rights'[p]
  BY <1>1 DEF RWX
<1> QED
  BY <1>1, <1>5, <1>6, <1>7, <1>8 DEF BaseInv

LEMMA OtherBase ==
  ASSUME BaseInv, LiveInv', UNCHANGED <<blocks, shadow, rights, serial, released>>
  PROVE  BaseInv'
  BY DEF BaseInv, Owner, Holds, WriteHeld, LoadPhase, Loaded, Mapped, GivenBack

\* Where the blocks of a step that appends come from.
Appends(va, size, mode) ==
  /\ status = "running" /\ AppendMemoryBlock(va, size, mode)
  /\ Fits(va, size) /\ LoadPhase'

LEMMA LoadAppends ==
  ASSUME BaseInv, NEW r \in Image, Load(r)
  PROVE  /\ r.va \in Nat /\ r.size \in Nat \ {0} /\ r.mode \in Mode
         /\ Appends(r.va, r.size, r.mode) /\ Clear(r.va, r.size)
<1>1. /\ r.va \in Nat /\ r.size \in Nat \ {0} /\ r.mode \in Mode
      /\ Fits(r.va, r.size) /\ Clear(r.va, r.size)
  BY LoadClear DEF Load
<1>2. AppendMemoryBlock(r.va, r.size, r.mode) /\ status = "running"
  BY DEF Load
<1>3. \A b \in blocks : \E q \in Image : b.va = q.va /\ b.size = q.size
  BY DEF Load, BaseInv, LoadPhase, Loaded
<1>4. LoadPhase'
  BY <1>2, <1>3 DEF LoadPhase, AppendMemoryBlock
<1> QED
  BY <1>1, <1>2, <1>4 DEF Appends

LEMMA StaysLoaded ==
  ASSUME CanAllocate, NEW va, NEW size, NEW mode, AppendMemoryBlock(va, size, mode)
  PROVE  LoadPhase'
  BY DEF CanAllocate, Ready, LoadPhase, Loaded, Mapped, AppendMemoryBlock

LEMMA SearchAppends ==
  ASSUME SizesFit, BaseInv, NEW size \in Sizes \cup {HandlerSize}, NEW mode, Search(size, mode)
  PROVE  size \in Nat /\ \E a \in Candidates : a \in Nat /\ Chosen(a, size) /\ Appends(a, size, mode)
<1>1. PICK a \in Candidates : Chosen(a, size) /\ AppendMemoryBlock(a, size, mode)
  BY DEF Search
<1>2. a \in Nat /\ size \in Nat /\ Fits(a, size)
  BY <1>1, ChosenFits DEF BaseInv, LiveInv
<1>3. CanAllocate
  BY DEF Search
<1>4. LoadPhase' /\ status = "running"
  BY <1>1, <1>3, StaysLoaded DEF CanAllocate, Ready
<1> QED
  BY <1>1, <1>2, <1>4 DEF Appends

LEMMA FixedAppends ==
  ASSUME SizesFit, BaseInv, NEW size \in Sizes, VirtualAllocFirst(size)
  PROVE  Fixed \in Nat /\ size \in Nat \ {0} /\ Appends(Fixed, size, RW)
<1>1. Fixed \in Nat /\ size \in Nat /\ Fixed % PageSize = 0
  BY FixedAssumption, SizesAssumption, AddressTypes DEF FixedAssumption, SizesAssumption
<1>2. Fits(Fixed, size) /\ size # 0
  BY <1>1 DEF Fits, SizesFit, VirtualAllocFirst
<1>3. CanAllocate /\ AppendMemoryBlock(Fixed, size, RW)
  BY DEF VirtualAllocFirst
<1>4. LoadPhase' /\ status = "running"
  BY <1>3, StaysLoaded DEF CanAllocate, Ready
<1> QED
  BY <1>1, <1>2, <1>3, <1>4 DEF Appends

LEMMA BaseStep ==
  ASSUME SizesFit, BaseInv, [Next]_vars
  PROVE  BaseInv'
<1>0. LiveInv'
  BY LiveStep DEF BaseInv
<1>1. ASSUME NEW r \in Image, Load(r) PROVE BaseInv'
  BY <1>0, <1>1, LoadAppends, AppendBase DEF Appends
<1>2. ASSUME NEW size \in Sizes \cup {HandlerSize}, NEW mode \in Mode, Search(size, mode) PROVE BaseInv'
  BY <1>0, <1>2, SearchAppends, AppendBase DEF Appends
<1>3. ASSUME NEW size \in Sizes, VirtualAllocFirst(size) PROVE BaseInv'
  <2>1. RW \in Mode
    BY DEF RW, Mode
  <2> QED
    BY <1>0, <1>3, <2>1, FixedAppends, AppendBase DEF Appends
<1>4. ASSUME NEW b \in blocks, Release(b) PROVE BaseInv'
  BY <1>0, <1>4, ReleaseBase
<1>5. ASSUME NEW a \in 0..(MapSize - 1), NEW size \in Sizes, VirtualProtect(a, size) PROVE BaseInv'
  BY <1>0, <1>5, ProtectBase
<1>6. ASSUME Stops PROVE BaseInv'
  BY <1>0, <1>6, StopsAbort, OtherBase DEF Abort
<1>7. CASE UNCHANGED vars
  BY <1>0, <1>7, OtherBase DEF vars
<1> QED
  BY <1>1, <1>2, <1>3, <1>4, <1>5, <1>6, <1>7, NextKinds, Searches, Zenon

LEMMA BaseInit ==
  ASSUME Init
  PROVE  BaseInv
<1>1. TypeOK
  BY TypeInit
<1>2. LiveInv
  BY <1>1 DEF Init, LiveInv, Identified, Placed, LiveOwned
<1> QED
  BY <1>2 DEF Init, BaseInv, Owner, LoadPhase, WriteHeld, GivenBack, NoAccess

\* A clear block keeps the array free of overlaps.
LEMMA AppendAscending ==
  ASSUME LiveInv, Ascending, NEW va \in Nat, NEW size \in Nat, Clear(va, size), NEW mode,
         AppendMemoryBlock(va, size, mode)
  PROVE  Ascending'
<1> DEFINE nb == [id |-> serial, va |-> va, size |-> size]
<1>1. blocks' = blocks \cup {nb}
  BY DEF AppendMemoryBlock
<1> SUFFICES ASSUME NEW b \in blocks', NEW c \in blocks', Before(b, c)
             PROVE  b.va + b.size <= c.va
  BY DEF Ascending, Before
<1>2. CASE b \in blocks /\ c \in blocks
  BY <1>2 DEF Ascending
<1>3. CASE b \in blocks /\ c = nb
  BY <1>3, BlockFacts DEF Before, Clear
<1>4. CASE b = nb /\ c \in blocks
  BY <1>4, BlockFacts DEF Before, Clear
<1>5. CASE b = nb /\ c = nb
  BY <1>5 DEF Before, LiveInv, TypeOK
<1> QED
  BY <1>1, <1>2, <1>3, <1>4, <1>5

\* Where no block overlaps the next the assertion in malloc cannot fire.
LEMMA NeverOccupied ==
  ASSUME SizesFit, BaseInv, Ascending, NEW size \in Requests
  PROVE  ~ MallocOccupied(size)
<1>0. size \in Sizes \cup {HandlerSize}
  BY DEF Requests
<1> SUFFICES ASSUME NEW a \in Candidates, Chosen(a, size), NEW p \in Covered(a, size),
                    shadow[p] # None
             PROVE  FALSE
  BY DEF MallocOccupied, Free
<1>1. p \in Pages
  BY DEF Covered
<1>2. PICK b \in blocks : Holds(b, p)
  BY <1>1 DEF BaseInv, Owner
<1>3. a \in Nat /\ size \in Nat /\ Fits(a, size) /\ Clear(a, size)
  BY <1>0, ChosenClear DEF BaseInv
<1> QED
  BY <1>1, <1>2, <1>3, ClearPages DEF BaseInv

--------------------------------------------------------------------------------
(* What a step must not do, whatever the process *)

WriteKept == \A p \in Pages : "Write" \in rights[p] => "Write" \in rights'[p]

\* Appending over pages no block holds takes no write right.
LEMMA AppendKeepsWrite ==
  ASSUME BaseInv, NEW va \in Nat, NEW size \in Nat, NEW mode,
         AppendMemoryBlock(va, size, mode),
         \/ "Write" \in mode
         \/ \A b \in blocks, p \in Pages : Holds(b, p) => p \notin Covered(va, size)
  PROVE  WriteKept
<1>1. rights' = [p \in Pages |-> IF p \in Protected(va, size) THEN mode ELSE rights[p]]
  BY DEF AppendMemoryBlock, SetAccessMode
<1>2. \A p \in Protected(va, size) : p \in Covered(va, size)
  BY ProtectedCovered
<1> QED
  BY <1>1, <1>2 DEF BaseInv, WriteHeld, WriteKept

Regions == {RegionOf(b) : b \in {c \in blocks : Live(c)}}

\* Appending apart from what the guest holds is a grant.
LEMMA AppendGrants ==
  ASSUME BaseInv, NEW va \in Nat, NEW size \in Nat, Fits(va, size), NEW mode,
         \A d \in blocks : Live(d) => d.va + d.size <= va \/ va + size <= d.va,
         status = "running", AppendMemoryBlock(va, size, mode)
  PROVE  \E r \in Regions' \ Regions : Space!Grant(r)
<1> DEFINE nb == [id |-> serial, va |-> va, size |-> size]
           r == RegionOf(nb)
<1>1. /\ blocks' = blocks \cup {nb} /\ serial' = serial + 1
      /\ released' = released /\ status' = status
  BY DEF AppendMemoryBlock
<1>2. serial \in Nat \ {0} /\ serial \notin released /\ \A b \in blocks : b.id < serial /\ b.id \in Nat
  BY BlockFacts DEF BaseInv, GivenBack, LiveInv, TypeOK
<1>3. Regions' = Regions \cup {r}
  BY <1>1, <1>2 DEF Regions, Live
<1>4. \A s \in Regions : s.id # serial
  BY <1>2 DEF Regions, RegionOf
<1>5. r \in Regions' \ Regions
  BY <1>3, <1>4 DEF RegionOf
<1>6. r.lo <= r.hi /\ r.hi <= ShadowSize
  BY DEF RegionOf, Fits
<1>7. r.id \notin 1..(serial - 1)
  BY <1>2 DEF RegionOf
<1>8. \A s \in Regions : Space!Apart(r, s)
  BY DEF Regions, RegionOf, Space!Apart
<1>9. 1..(serial' - 1) = (1..(serial - 1)) \cup {serial}
  BY <1>1, <1>2
<1>10. ~ (status # "running") /\ (status' # "running") = (status # "running")
  BY <1>1
<1> QED
  BY <1>1, <1>3, <1>5, <1>6, <1>7, <1>8, <1>9, <1>10 DEF Space!Grant, RegionOf, Regions

LEMMA GrantIsStep ==
  ASSUME \E r \in Regions' \ Regions : Space!Grant(r)
  PROVE  Space!SpaceNext
  BY DEF Space!SpaceNext, Regions

LEMMA ReleaseGivesBack ==
  ASSUME BaseInv, NEW b \in blocks, Release(b)
  PROVE  Space!SpaceNext
<1>1. /\ blocks' = blocks /\ serial' = serial /\ status' = status /\ status = "running"
      /\ released' = released \cup {b.id} /\ b.id \notin released
  BY DEF Release, Ready
<1>2. RegionOf(b) \in Regions
  BY <1>1 DEF Regions, Live
<1>3. \A c \in blocks : RegionOf(c) = RegionOf(b) => c = b
  BY DEF RegionOf, BaseInv, LiveInv, Identified
<1>4. Regions' = Regions \ {RegionOf(b)}
  BY <1>1, <1>3 DEF Regions, Live, RegionOf, BaseInv, LiveInv, Identified
<1>5. Space!GiveBack(RegionOf(b))
  BY <1>1, <1>2, <1>4 DEF Space!GiveBack, Regions
<1> QED
  BY <1>2, <1>5 DEF Space!SpaceNext, Regions

\* The steps that append nothing: what they do to the rights and to the regions.
LEMMA QuietStep ==
  ASSUME BaseInv, BaseInv',
         \/ \E b \in blocks : Release(b)
         \/ \E a \in 0..(MapSize - 1), size \in Sizes : VirtualProtect(a, size)
         \/ Stops
         \/ UNCHANGED vars
  PROVE  WriteKept /\ [Space!SpaceNext]_(Space!spaceVars)
<1>1. ASSUME NEW b \in blocks, Release(b) PROVE WriteKept /\ Space!SpaceNext
  BY <1>1, ReleaseGivesBack DEF Release, WriteKept
<1>2. ASSUME UNCHANGED <<blocks, serial, released, status>>
      PROVE  UNCHANGED Space!spaceVars
  BY <1>2 DEF Space!spaceVars, Live
<1>3. ASSUME NEW a \in 0..(MapSize - 1), NEW size \in Sizes, VirtualProtect(a, size)
      PROVE  WriteKept /\ UNCHANGED Space!spaceVars
  <2>1. WriteKept
    BY <1>3, ProtectBase DEF BaseInv, WriteKept
  <2> QED
    BY <1>2, <1>3, <2>1 DEF VirtualProtect
<1>4. ASSUME Stops PROVE WriteKept /\ Space!SpaceNext
  <2>1. PICK why \in Outcome \ {"running"} : Abort(why) /\ status = "running"
    BY <1>4, StopsAbort
  <2>2. Space!Halt
    BY <2>1 DEF Abort, Space!Halt, Live
  <2> QED
    BY <2>1, <2>2 DEF Space!SpaceNext, Abort, WriteKept
<1>5. CASE UNCHANGED vars
  BY <1>2, <1>5 DEF vars, WriteKept
<1> QED
  BY <1>1, <1>3, <1>4, <1>5

--------------------------------------------------------------------------------
(* Every process of the host but the first *)

SearchInv == BaseInv /\ Ascending /\ fixedNext = FALSE /\ SearchSound

LEMMA ClearStep ==
  ASSUME SearchInv, BaseInv', fixedNext' = FALSE,
         NEW va \in Nat, NEW size \in Nat, Clear(va, size), NEW mode, Appends(va, size, mode)
  PROVE  SearchInv' /\ WriteKept /\ Space!SpaceNext
<1>1. AppendMemoryBlock(va, size, mode) /\ Fits(va, size) /\ status = "running" /\ BaseInv
  BY DEF Appends, SearchInv
<1>2. Ascending'
  BY <1>1, AppendAscending DEF SearchInv, BaseInv
<1>3. SearchSound'
  BY <1>1 DEF AppendMemoryBlock, SearchInv, SearchSound
<1>4. \A b \in blocks, p \in Pages : Holds(b, p) => p \notin Covered(va, size)
  BY <1>1, ClearPages DEF BaseInv
<1>5. WriteKept
  BY <1>1, <1>4, AppendKeepsWrite
<1>6. \A d \in blocks : Live(d) => d.va + d.size <= va \/ va + size <= d.va
  BY DEF Clear
<1>7. Space!SpaceNext
  BY <1>1, <1>6, AppendGrants, GrantIsStep
<1> QED
  BY <1>2, <1>3, <1>5, <1>7 DEF SearchInv

LEMMA SearchStep ==
  ASSUME SizesFit, SearchInv, [Next]_vars
  PROVE  SearchInv' /\ WriteKept /\ [Space!SpaceNext]_(Space!spaceVars)
<1>0. BaseInv /\ BaseInv' /\ LiveInv /\ Ascending
  BY BaseStep DEF SearchInv, BaseInv
<1>1. ASSUME NEW r \in Image, Load(r) PROVE SearchInv' /\ WriteKept /\ Space!SpaceNext
  <2>1. /\ r.va \in Nat /\ r.size \in Nat
        /\ Appends(r.va, r.size, r.mode) /\ Clear(r.va, r.size)
    BY <1>0, <1>1, LoadAppends
  <2>2. fixedNext' = FALSE
    BY <1>1 DEF Load, SearchInv
  <2> QED
    BY <1>0, <2>1, <2>2, ClearStep
<1>2. ASSUME NEW size \in Sizes \cup {HandlerSize}, NEW mode \in Mode, Search(size, mode)
      PROVE  SearchInv' /\ WriteKept /\ Space!SpaceNext
  <2>1. PICK a \in Candidates : size \in Nat /\ a \in Nat /\ Chosen(a, size) /\ Appends(a, size, mode)
    BY <1>0, <1>2, SearchAppends
  <2>2. Clear(a, size)
    BY <1>0, <2>1, ChosenClear
  <2>3. fixedNext' = FALSE
    BY <1>2 DEF Search, SearchInv
  <2> QED
    BY <1>0, <2>1, <2>2, <2>3, ClearStep
<1>3. ASSUME NEW size \in Sizes PROVE ~ VirtualAllocFirst(size)
  BY DEF VirtualAllocFirst, SearchInv
<1>4. ASSUME blocks' = blocks, fixedNext' = fixedNext, SearchSound' PROVE SearchInv'
  BY <1>0, <1>4 DEF SearchInv, Ascending, Before
<1>5. ASSUME \/ \E b \in blocks : Release(b)
             \/ \E a \in 0..(MapSize - 1), size \in Sizes : VirtualProtect(a, size)
             \/ UNCHANGED vars
      PROVE  SearchInv'
  BY <1>4, <1>5 DEF Release, VirtualProtect, vars, SearchSound, SearchInv
<1>6. ASSUME Stops PROVE SearchInv'
  <2>1. PICK why \in Outcome \ {"running"} :
          Abort(why) /\ (why = "malloc hit a block" => \E size \in Requests : MallocOccupied(size))
    BY <1>6, StopsAbort
  <2>2. why # "malloc hit a block"
    BY <1>0, <2>1, NeverOccupied
  <2> QED
    BY <1>4, <2>1, <2>2 DEF Abort, SearchSound
<1> QED
  BY <1>0, <1>1, <1>2, <1>3, <1>5, <1>6, NextKinds, Searches, QuietStep, Zenon

LEMMA SearchInvariant ==
  ASSUME SizesFit, FirstProcess = FALSE
  PROVE  Spec => []SearchInv
<1>1. Init => SearchInv
  BY BaseInit DEF Init, SearchInv, Ascending, SearchSound
<1>2. SearchInv /\ [Next]_vars => SearchInv'
  BY SearchStep
<1> QED
  BY <1>1, <1>2, PTL DEF Spec

--------------------------------------------------------------------------------
(* Any process that asks for no empty block, the first of its host included *)

NonEmpty == \A b \in blocks : b.size # 0

\* free clears the first page of a block only: the others stay in the shadow.
TailsMapped ==
  \A b \in blocks, p \in Pages : Holds(b, p) /\ p # PageOf(b.va) => shadow[p] # None

\* A page of a block the guest holds can only be the first page of another.
OnTop ==
  \A b, c \in blocks, p \in Pages :
    b # c /\ Live(b) /\ Holds(b, p) /\ Holds(c, p) => p = PageOf(c.va)

Laid == \E b, c \in blocks : b # c /\ LaidOver(b, c)

SolidInv ==
  /\ BaseInv /\ NonEmpty /\ TailsMapped /\ OnTop
  /\ ~ Laid => Ascending /\ SearchSound

\* A block the guest holds is in the shadow, page by page.
LEMMA LiveResolves ==
  ASSUME LiveInv, NonEmpty, NEW b \in blocks, Live(b), NEW p \in Pages, Holds(b, p)
  PROVE  shadow[p] = b.id /\ shadow[p] # None
<1>1. Resolves(b, p)
  BY DEF LiveInv, LiveOwned, LostToEmpty, NonEmpty
<1> QED
  BY <1>1, BlockFacts DEF Resolves, None

\* Where a block and a range on pages overlap they have a page in common.
LEMMA OverlapPage ==
  ASSUME LiveInv, NonEmpty, NEW d \in blocks,
         NEW va \in Nat, NEW size \in Nat \ {0}, Fits(va, size),
         d.va < va + size, va < d.va + d.size
  PROVE  \E p \in Pages : Holds(d, p) /\ p \in Covered(va, size)
<1> DEFINE x == IF d.va <= va THEN va ELSE d.va
<1>1. /\ d.va \in Nat /\ d.size \in Nat /\ d.va % PageSize = 0 /\ d.va + d.size <= ShadowSize
      /\ va % PageSize = 0 /\ va + size <= ShadowSize
  BY BlockFacts DEF Fits
<1>2. /\ x \in Nat /\ x % PageSize = 0 /\ x < ShadowSize
      /\ d.va <= x /\ x < d.va + d.size /\ va <= x /\ x < va + size
  <2>1. CASE d.va <= va
    <3>1. x = va
      BY <2>1
    <3> QED
      BY <1>1, <2>1, <3>1, AddressTypes
  <2>2. CASE ~ d.va <= va
    <3>1. x = d.va
      BY <2>2
    <3> QED
      BY <1>1, <2>2, <3>1, AddressTypes DEF NonEmpty
  <2> QED
    BY <2>1, <2>2
<1> HIDE DEF x
<1>3. PICK q \in Nat : q = PageOf(x)
  BY <1>2, PageBounds
<1>4. q * PageSize = x
  <2>1. x = PageOf(x) * PageSize + (x % PageSize)
    BY <1>2, PageBounds
  <2>2. q * PageSize \in Int
    BY <1>3, AddressTypes, Z3
  <2> QED
    BY <1>2, <1>3, <2>1, <2>2
<1>5. (q + 1) * PageSize = x + PageSize
  BY <1>3, <1>4, AddressTypes, Z3
<1>6. q \in Pages
  <2>1. MapPages \in Nat /\ (MapPages + 1) * PageSize = ShadowSize
    BY AddressTypes DEF ShadowSize
  <2>2. ~ MapPages + 1 <= PageOf(x)
    BY <1>2, <2>1, AddressTypes, PageMono
  <2> QED
    BY <1>3, <2>1, <2>2 DEF Pages
<1>7. Holds(d, q)
  BY <1>1, <1>2, <1>4, <1>5, AddressTypes DEF Holds
<1>8. q \in Covered(va, size)
  BY <1>1, <1>2, <1>4, <1>5, <1>6, AddressTypes, CoveredPages
<1> QED
  BY <1>6, <1>7, <1>8

\* A range that is free is apart from what the guest holds.
LEMMA FreeApart ==
  ASSUME LiveInv, NonEmpty, NEW va \in Nat, NEW size \in Nat \ {0}, Fits(va, size), Free(va, size),
         NEW d \in blocks, Live(d)
  PROVE  d.va + d.size <= va \/ va + size <= d.va
<1> SUFFICES ASSUME d.va < va + size, va < d.va + d.size PROVE FALSE
  BY BlockFacts
<1>1. PICK p \in Pages : Holds(d, p) /\ p \in Covered(va, size)
  BY OverlapPage
<1> QED
  BY <1>1, LiveResolves DEF Free

\* The search steps over the first unit of every block of the array.
LEMMA ChosenSkips ==
  ASSUME SizesFit, LiveInv, NonEmpty, NEW size \in Sizes \cup {HandlerSize},
         NEW a \in Candidates, Chosen(a, size), NEW b \in blocks
  PROVE  b.va < a \/ a + size <= b.va
<1>1. a \in Nat /\ size \in Nat /\ a + size <= ShadowSize
  BY ChosenFits DEF LiveInv, Fits
<1>2. Plus(a, size) = a + size
  BY <1>1, AddressTypes, ModSmall DEF Plus
<1>3. \A d \in blocks : /\ d.va \in Nat /\ d.size \in Nat /\ d.id \in Nat
                        /\ d.va < AboveBlock(d) /\ AboveBlock(d) \in Nat
  BY BlockFacts, AboveBlockIs DEF NonEmpty
<1>4. CASE a = Start /\ BelowFirst(size)
  <2>1. PICK d \in blocks : IsFirst(d) /\ d.va > Start /\ size < d.va - Start
    BY <1>4 DEF BelowFirst
  <2>2. d.va <= b.va
    BY <1>3, <2>1 DEF IsFirst, Before
  <2> QED
    BY <1>1, <1>3, <1>4, <2>1, <2>2, AddressTypes
<1>5. CASE \E d \in blocks : FirstGapAfter(d, size) /\ a = AboveBlock(d)
  <2>1. PICK d \in blocks, c \in blocks : Adjacent(d, c) /\ a = AboveBlock(d) /\ a + size < c.va
    BY <1>2, <1>5 DEF FirstGapAfter, HasGap, Gap
  <2> SUFFICES ASSUME a <= b.va, b.va < a + size PROVE FALSE
    BY <1>1, <1>3
  <2>2. Before(d, b) /\ Before(b, c)
    BY <1>1, <1>3, <2>1 DEF Before
  <2> QED
    BY <2>1, <2>2 DEF Adjacent
<1>6. CASE AfterLast(a, size)
  <2>1. PICK d \in blocks : IsLast(d) /\ a = AboveBlock(d)
    BY <1>6 DEF AfterLast
  <2>2. b.va <= d.va
    BY <1>3, <2>1 DEF IsLast, Before
  <2> QED
    BY <1>1, <1>3, <2>1, <2>2
<1> QED
  BY <1>4, <1>5, <1>6 DEF Chosen

\* So what it settles on, if it is free, is held by no block at all: of a block
\* given back all pages but the first are still in the shadow.
LEMMA ChosenUnheld ==
  ASSUME SizesFit, LiveInv, NonEmpty, TailsMapped, NEW size \in Sizes \cup {HandlerSize},
         NEW a \in Candidates, Chosen(a, size), Free(a, size),
         NEW b \in blocks, NEW p \in Pages, Holds(b, p)
  PROVE  p \notin Covered(a, size)
<1> SUFFICES ASSUME p \in Covered(a, size) PROVE FALSE
  OBVIOUS
<1>1. a \in Nat /\ size \in Nat /\ Fits(a, size)
  BY ChosenFits DEF LiveInv
<1>2. p = PageOf(b.va)
  BY DEF Free, TailsMapped
<1>3. b.va \in Nat /\ b.va % PageSize = 0 /\ a % PageSize = 0
  BY <1>1, BlockFacts DEF Fits
<1>4. b.va = p * PageSize + (b.va % PageSize) /\ p \in Nat
  BY <1>2, <1>3, PageBounds
<1>5. p * PageSize \in Int
  BY <1>4, AddressTypes, Z3
<1>6. b.va = p * PageSize
  BY <1>3, <1>4, <1>5
<1>7. a < (p + 1) * PageSize /\ p * PageSize < a + size
  BY <1>1, CoveredPages
<1>8. ~ b.va < a
  <2> SUFFICES ASSUME p * PageSize < a PROVE FALSE
    BY <1>6
  <2>1. (p + 1) * PageSize <= a
    BY <1>1, <1>3, <1>4, PageBelow
  <2>2. (p + 1) * PageSize \in Int
    BY <1>4, AddressTypes, Z3
  <2> QED
    BY <1>1, <1>7, <2>1, <2>2
<1>9. ~ a + size <= b.va
  BY <1>1, <1>3, <1>6, <1>7
<1> QED
  BY <1>8, <1>9, ChosenSkips

--------------------------------------------------------------------------------
(* Its steps *)

LEMMA AppendSolid ==
  ASSUME SolidInv, NEW va \in Nat, NEW size \in Nat \ {0}, NEW mode, Appends(va, size, mode)
  PROVE  NonEmpty' /\ TailsMapped' /\ OnTop'
<1> DEFINE nb == [id |-> serial, va |-> va, size |-> size]
<1>1. /\ blocks' = blocks \cup {nb} /\ released' = released /\ nb.id = serial /\ nb.size = size
      /\ \A p \in Pages : shadow'[p] = IF p \in Covered(va, size) THEN serial ELSE shadow[p]
      /\ \A p \in Covered(va, size) : shadow[p] = None
      /\ Fits(va, size)
  BY DEF Appends, AppendMemoryBlock, Free
<1>2. \A p \in Pages : Holds(nb, p) <=> p \in Covered(va, size)
  BY <1>1, CoveredPages DEF Holds
<1>3. serial # None
  BY DEF SolidInv, BaseInv, LiveInv, TypeOK, None
<1> HIDE DEF nb
<1>4. NonEmpty'
  BY <1>1 DEF SolidInv, NonEmpty
<1>5. TailsMapped'
  <2> SUFFICES ASSUME NEW b \in blocks', NEW p \in Pages, Holds(b, p), p # PageOf(b.va)
               PROVE  shadow'[p] # None
    BY DEF TailsMapped, Holds
  <2>1. CASE b = nb
    BY <1>1, <1>2, <1>3, <2>1
  <2>2. CASE b \in blocks
    BY <1>1, <1>3, <2>2 DEF SolidInv, TailsMapped
  <2> QED
    BY <1>1, <2>1, <2>2
<1>6. OnTop'
  <2> SUFFICES ASSUME NEW b \in blocks', NEW c \in blocks', NEW p \in Pages,
                      b # c, Live(b)', Holds(b, p), Holds(c, p)
               PROVE  p = PageOf(c.va)
    BY DEF OnTop, Holds
  <2>1. Live(b)
    BY <1>1 DEF Live
  <2>2. CASE b \in blocks /\ c \in blocks
    BY <2>1, <2>2 DEF SolidInv, OnTop
  <2>3. CASE b = nb /\ c \in blocks
    <3>1. shadow[p] = None
      BY <1>1, <1>2, <2>3
    <3> QED
      BY <2>3, <3>1 DEF SolidInv, TailsMapped
  <2>4. CASE b \in blocks /\ c = nb
    <3>1. shadow[p] = None
      BY <1>1, <1>2, <2>4
    <3> QED
      BY <2>1, <2>4, <3>1, LiveResolves DEF SolidInv, BaseInv
  <2> QED
    BY <1>1, <2>2, <2>3, <2>4
<1> QED
  BY <1>4, <1>5, <1>6

\* The sorted array stays free of overlaps as long as nothing was laid over a
\* block that had been given back.
LEMMA AppendKeepsOrder ==
  ASSUME SolidInv, NEW va \in Nat, NEW size \in Nat, NEW mode, Appends(va, size, mode),
         ~ Laid' => Clear(va, size)
  PROVE  ~ Laid' => Ascending' /\ SearchSound'
<1>1. /\ blocks \subseteq blocks' /\ released' = released /\ status' = status
      /\ AppendMemoryBlock(va, size, mode)
  BY DEF Appends, AppendMemoryBlock
<1>2. Laid => Laid'
  BY <1>1 DEF Laid, LaidOver, Live, Overlap
<1>3. SearchSound => SearchSound'
  BY <1>1 DEF SearchSound
<1> QED
  BY <1>1, <1>2, <1>3, AppendAscending DEF SolidInv, BaseInv

LEMMA SolidAppend ==
  ASSUME SolidInv, BaseInv', NEW va \in Nat, NEW size \in Nat \ {0}, NEW mode, Appends(va, size, mode),
         ~ Laid' => Clear(va, size),
         \/ "Write" \in mode
         \/ \A b \in blocks, p \in Pages : Holds(b, p) => p \notin Covered(va, size)
  PROVE  SolidInv' /\ WriteKept /\ Space!SpaceNext
<1>1. AppendMemoryBlock(va, size, mode) /\ Fits(va, size) /\ status = "running" /\ BaseInv
  BY DEF Appends, SolidInv
<1>2. SolidInv'
  BY AppendSolid, AppendKeepsOrder DEF SolidInv
<1>3. WriteKept
  BY <1>1, AppendKeepsWrite
<1>4. \A d \in blocks : Live(d) => d.va + d.size <= va \/ va + size <= d.va
  BY <1>1, FreeApart DEF SolidInv, BaseInv, AppendMemoryBlock
<1>5. Space!SpaceNext
  BY <1>1, <1>4, AppendGrants, GrantIsStep
<1> QED
  BY <1>2, <1>3, <1>5

\* Where fe_VirtualAlloc takes the fixed address, it meets only what was given
\* back, and then lies over it.
LEMMA FixedClear ==
  ASSUME SolidInv, NEW size \in Nat \ {0}, NEW mode, Fixed \in Nat, Appends(Fixed, size, mode), ~ Laid'
  PROVE  Clear(Fixed, size)
<1> DEFINE nb == [id |-> serial, va |-> Fixed, size |-> size]
<1>1. /\ nb \in blocks' /\ blocks \subseteq blocks' /\ released' = released
      /\ nb.va = Fixed /\ nb.size = size /\ nb.id = serial
      /\ Fits(Fixed, size) /\ Free(Fixed, size)
  BY DEF Appends, AppendMemoryBlock
<1> HIDE DEF nb
<1> SUFFICES ASSUME NEW d \in blocks
             PROVE  d.va + d.size <= Fixed \/ (Fixed + size <= d.va /\ Fixed < d.va)
  BY DEF Clear
<1>2. d.va \in Nat /\ d.size \in Nat /\ d # nb
  BY <1>1, BlockFacts DEF SolidInv, BaseInv
<1>3. CASE Live(d)
  <2>1. d.va + d.size <= Fixed \/ Fixed + size <= d.va
    BY <1>1, <1>3, FreeApart DEF SolidInv, BaseInv
  <2> QED
    BY <1>2, <2>1
<1>4. CASE ~ Live(d)
  <2>1. ~ (~ d.id \notin released /\ Overlap(d, nb))
    BY <1>1, <1>2 DEF Laid, LaidOver, Live, Overlap
  <2>2. ~ Overlap(d, nb)
    BY <1>4, <2>1 DEF Live
  <2> QED
    BY <1>1, <1>2, <2>2 DEF Overlap
<1> QED
  BY <1>3, <1>4

LEMMA ReleaseSolid ==
  ASSUME SolidInv, NEW b \in blocks, Release(b)
  PROVE  NonEmpty' /\ TailsMapped' /\ OnTop'
<1>1. /\ blocks' = blocks /\ released' = released \cup {b.id} /\ Live(b)
      /\ shadow' = [shadow EXCEPT ![PageOf(b.va)] = None]
  BY DEF Release, Live
<1>2. NonEmpty' /\ OnTop'
  BY <1>1 DEF SolidInv, NonEmpty, OnTop, Live, Holds
<1>3. TailsMapped'
  <2> SUFFICES ASSUME NEW c \in blocks, NEW p \in Pages, Holds(c, p), p # PageOf(c.va)
               PROVE  shadow'[p] # None
    BY <1>1 DEF TailsMapped, Holds
  <2>1. CASE p # PageOf(b.va)
    BY <1>1, <2>1 DEF SolidInv, TailsMapped, BaseInv, LiveInv, TypeOK
  <2>2. CASE p = PageOf(b.va)
    <3>1. b.va \in Nat /\ b.size \in Nat \ {0}
      BY BlockFacts DEF SolidInv, BaseInv, NonEmpty
    <3>2. p \in Nat /\ p * PageSize <= b.va /\ b.va < p * PageSize + PageSize
      BY <2>2, <3>1, PageBounds
    <3>3. (p + 1) * PageSize = p * PageSize + PageSize /\ p * PageSize \in Nat
      BY <3>2, AddressTypes, Z3
    <3>4. Holds(b, p)
      BY <3>1, <3>2, <3>3, AddressTypes DEF Holds
    <3>5. b # c
      BY <2>2
    <3> QED
      BY <1>1, <3>4, <3>5 DEF SolidInv, OnTop
  <2> QED
    BY <2>1, <2>2
<1> QED
  BY <1>2, <1>3

LEMMA SolidStep ==
  ASSUME SizesFit, 0 \notin Sizes, SolidInv, [Next]_vars
  PROVE  SolidInv' /\ WriteKept /\ [Space!SpaceNext]_(Space!spaceVars)
<1>0. BaseInv /\ BaseInv' /\ LiveInv /\ NonEmpty /\ TailsMapped
  BY BaseStep DEF SolidInv, BaseInv
<1>s. Sizes \cup {HandlerSize} \subseteq Nat \ {0}
  BY SizesAssumption, HandlerAssumption, AddressTypes DEF SizesAssumption, HandlerAssumption
<1>1. ASSUME NEW r \in Image, Load(r) PROVE SolidInv' /\ WriteKept /\ Space!SpaceNext
  <2>1. /\ r.va \in Nat /\ r.size \in Nat \ {0}
        /\ Appends(r.va, r.size, r.mode) /\ Clear(r.va, r.size)
    BY <1>0, <1>1, LoadAppends
  <2>2. \A b \in blocks, p \in Pages : Holds(b, p) => p \notin Covered(r.va, r.size)
    BY <1>0, <2>1, ClearPages DEF Appends
  <2> QED
    BY <1>0, <2>1, <2>2, SolidAppend
<1>2. ASSUME NEW size \in Sizes \cup {HandlerSize}, NEW mode \in Mode, Search(size, mode)
      PROVE  SolidInv' /\ WriteKept /\ Space!SpaceNext
  <2>1. PICK a \in Candidates : a \in Nat /\ Chosen(a, size) /\ Appends(a, size, mode)
    BY <1>0, <1>2, SearchAppends
  <2>2. Free(a, size) /\ size \in Nat \ {0}
    BY <1>s, <2>1 DEF Appends, AppendMemoryBlock
  <2>3. \A b \in blocks, p \in Pages : Holds(b, p) => p \notin Covered(a, size)
    BY <1>0, <2>1, <2>2, ChosenUnheld
  <2>4. ~ Laid' => Clear(a, size)
    <3>1. Laid => Laid'
      BY <2>1 DEF Appends, AppendMemoryBlock, Laid, LaidOver, Live, Overlap
    <3> QED
      BY <1>0, <2>1, <3>1, ChosenClear DEF SolidInv
  <2> QED
    BY <1>0, <2>1, <2>2, <2>3, <2>4, SolidAppend
<1>3. ASSUME NEW size \in Sizes, VirtualAllocFirst(size)
      PROVE  SolidInv' /\ WriteKept /\ Space!SpaceNext
  <2>1. Fixed \in Nat /\ size \in Nat \ {0} /\ Appends(Fixed, size, RW)
    BY <1>0, <1>3, FixedAppends
  <2>2. ~ Laid' => Clear(Fixed, size)
    BY <2>1, FixedClear
  <2>3. "Write" \in RW
    BY DEF RW
  <2> QED
    BY <1>0, <2>1, <2>2, <2>3, SolidAppend
<1>4. ASSUME blocks' = blocks, released \subseteq released', SearchSound => SearchSound'
      PROVE  ~ Laid' => Ascending' /\ SearchSound'
  <2>1. Laid => Laid'
    BY <1>4 DEF Laid, LaidOver, Live, Overlap
  <2>2. Ascending => Ascending'
    BY <1>4 DEF Ascending, Before
  <2> QED
    BY <1>4, <2>1, <2>2 DEF SolidInv
<1>5. ASSUME NEW b \in blocks, Release(b) PROVE SolidInv'
  <2>1. blocks' = blocks /\ released \subseteq released' /\ (SearchSound => SearchSound')
    BY <1>5 DEF Release, SearchSound
  <2> QED
    BY <1>0, <1>4, <1>5, <2>1, ReleaseSolid DEF SolidInv
<1>6. ASSUME UNCHANGED <<blocks, shadow, released>>, ~ Laid' => Ascending' /\ SearchSound'
      PROVE  SolidInv'
  BY <1>0, <1>6 DEF SolidInv, NonEmpty, TailsMapped, OnTop, Live, Holds
<1>7. ASSUME \/ \E a \in 0..(MapSize - 1), size \in Sizes : VirtualProtect(a, size)
             \/ UNCHANGED vars
      PROVE  SolidInv'
  <2>1. UNCHANGED <<blocks, shadow, released, status>>
    BY <1>7 DEF VirtualProtect, vars
  <2> QED
    BY <1>4, <1>6, <2>1 DEF SearchSound
<1>8. ASSUME Stops PROVE SolidInv'
  <2>1. PICK why \in Outcome \ {"running"} :
          Abort(why) /\ (why = "malloc hit a block" => \E size \in Requests : MallocOccupied(size))
    BY <1>8, StopsAbort
  <2>2. UNCHANGED <<blocks, shadow, released>> /\ status' = why
    BY <2>1 DEF Abort
  <2>3. Ascending => why # "malloc hit a block"
    BY <1>0, <2>1, NeverOccupied
  <2>4. (Laid' <=> Laid) /\ (Ascending' <=> Ascending)
    BY <2>2 DEF Laid, LaidOver, Live, Overlap, Ascending, Before
  <2>5. ~ Laid' => Ascending' /\ SearchSound'
    BY <2>2, <2>3, <2>4 DEF SolidInv, SearchSound
  <2> QED
    BY <1>6, <2>2, <2>5
<1> QED
  BY <1>0, <1>1, <1>2, <1>3, <1>5, <1>7, <1>8, NextKinds, Searches, QuietStep, Zenon

LEMMA SolidInvariant ==
  ASSUME SizesFit, 0 \notin Sizes
  PROVE  Spec => []SolidInv
<1>1. Init => SolidInv
  BY BaseInit DEF Init, SolidInv, NonEmpty, TailsMapped, OnTop, Ascending, SearchSound
<1>2. SolidInv /\ [Next]_vars => SolidInv'
  BY SolidStep
<1> QED
  BY <1>1, <1>2, PTL DEF Spec

--------------------------------------------------------------------------------
(* Theorems *)

\* A process after the first of its host, or a first one, such as the only one the
\* Mac application runs, that asks for no empty block.
Ordinary == FirstProcess = FALSE \/ 0 \notin Sizes

\* Once some process of the host has called VirtualAlloc, blocks never overlap:
\* not even the address space of freed blocks is handed out twice.
THEOREM BlocksDisjoint ==
  ASSUME SizesFit, FirstProcess = FALSE
  PROVE  Spec => []Disjoint
<1>1. SearchInv => Disjoint
  <2> SUFFICES ASSUME SearchInv, NEW b \in blocks, NEW c \in blocks, b # c, Overlap(b, c)
               PROVE  FALSE
    BY DEF Disjoint
  <2>1. b.va + b.size <= c.va \/ c.va + c.size <= b.va
    BY BeforeTotal DEF SearchInv, BaseInv, Ascending
  <2> QED
    BY <2>1, BlockFacts DEF SearchInv, BaseInv, Overlap
<1> QED
  BY <1>1, SearchInvariant, PTL

\* In such a process the first fit search only settles on unmapped pages: the
\* assertion of _fe_memory_map_appendMemoryBlock cannot fire in malloc.
THEOREM SearchNeverAsserts ==
  ASSUME SizesFit, FirstProcess = FALSE
  PROVE  Spec => []SearchSound
<1>1. SearchInv => SearchSound
  BY DEF SearchInv
<1> QED
  BY <1>1, SearchInvariant, PTL

\* In the first process of a host the assertion fires in malloc only where the
\* fixed block of fe_VirtualAlloc was mapped over one that had been given back.
THEOREM SearchAssertsOnlyOverFreed ==
  ASSUME SizesFit, Ordinary
  PROVE  Spec => []AssertsOnlyOverFreed
<1>1. SearchInv => AssertsOnlyOverFreed
  BY DEF SearchInv, AssertsOnlyOverFreed
<1>2. SolidInv => AssertsOnlyOverFreed
  BY DEF SolidInv, AssertsOnlyOverFreed, Laid
<1>3. CASE FirstProcess = FALSE
  BY <1>1, <1>3, SearchInvariant, PTL
<1>4. CASE 0 \notin Sizes
  BY <1>2, <1>4, SolidInvariant, PTL
<1> QED
  BY <1>3, <1>4 DEF Ordinary

\* No step takes the write right from a page, whether it loads, allocates, puts
\* the message loop into read-only memory, releases or re-protects, so no page the
\* guest may have patched starts keeping decoded instructions.
THEOREM WritablePagesStay ==
  ASSUME SizesFit, Ordinary
  PROVE  Spec => WritableStays
<1>1. SearchInv /\ [Next]_vars
        => [\A p \in Pages : "Write" \in rights[p] => "Write" \in rights'[p]]_vars
  BY SearchStep DEF WriteKept
<1>2. 0 \notin Sizes /\ SolidInv /\ [Next]_vars
        => [\A p \in Pages : "Write" \in rights[p] => "Write" \in rights'[p]]_vars
  BY SolidStep DEF WriteKept
<1>3. CASE FirstProcess = FALSE
  BY <1>1, <1>3, SearchInvariant, PTL DEF Spec, WritableStays
<1>4. CASE 0 \notin Sizes
  BY <1>2, <1>4, SolidInvariant, PTL DEF Spec, WritableStays
<1> QED
  BY <1>3, <1>4 DEF Ordinary

\* Refinement: in the first process of a host or a later one the guest's live
\* blocks behave like the regions of AddressSpace.
THEOREM MapImplementsAddressSpace ==
  ASSUME SizesFit, Ordinary
  PROVE  Spec => ImplementsAddressSpace
<1>1. Init => Space!SpaceInit
  BY DEF Init, Space!SpaceInit
<1>2. SearchInv /\ [Next]_vars => [Space!SpaceNext]_(Space!spaceVars)
  BY SearchStep
<1>3. 0 \notin Sizes /\ SolidInv /\ [Next]_vars => [Space!SpaceNext]_(Space!spaceVars)
  BY SolidStep
<1>4. CASE FirstProcess = FALSE
  BY <1>1, <1>2, <1>4, SearchInvariant, PTL DEF Spec, ImplementsAddressSpace, Space!SpaceSpec
<1>5. CASE 0 \notin Sizes
  BY <1>1, <1>3, <1>5, SolidInvariant, PTL DEF Spec, ImplementsAddressSpace, Space!SpaceSpec
<1> QED
  BY <1>4, <1>5 DEF Ordinary

--------------------------------------------------------------------------------
(* Induction *)

LEMMA LeastNumber ==
  ASSUME NEW T, T \subseteq Nat, T # {}
  PROVE  \E x \in T : \A y \in T : x <= y
<1> DEFINE R == OpToRel(<, Nat)
<1>1. IsWellFoundedOn(R, Nat)
  BY NatLessThanWellFounded
<1>2. \A x, y \in Nat : x < y => <<x, y>> \in R
  BY DEF OpToRel
<1> HIDE DEF R
<1>3. PICK x \in T : \A y \in T : ~ (<<y, x>> \in R)
  BY <1>1, WFMin
<1>4. ASSUME NEW y \in T PROVE x <= y
  <2>1. x \in Nat /\ y \in Nat
    OBVIOUS
  <2>2. ~ (y < x)
    BY <1>2, <1>3, <2>1
  <2> QED
    BY <2>1, <2>2
<1> QED
  BY <1>4

LEMMA Induction ==
  ASSUME NEW S, 0 \in S, \A n \in Nat : n \in S => n + 1 \in S
  PROVE  Nat \subseteq S
<1> DEFINE T == Nat \ S
<1> SUFFICES ASSUME T # {} PROVE FALSE
  OBVIOUS
<1>1. PICK x \in T : \A y \in T : x <= y
  BY LeastNumber
<1>2. x \in Nat /\ x # 0 /\ x \notin S
  BY <1>1
<1>3. x - 1 \in Nat /\ x - 1 \notin T
  BY <1>1, <1>2
<1>4. (x - 1) + 1 \in S
  BY <1>3
<1> QED
  BY <1>2, <1>3, <1>4

--------------------------------------------------------------------------------
(* The merge *)

Sorted(s) == \A i, j \in DOMAIN s : i < j => Before(s[i], s[j])
Elements(s) == {s[i] : i \in DOMAIN s}

\* What _merge may count on: both halves are sorted, and of two blocks with one
\* address the older is in the left half.
Halves(L, R) ==
  /\ L \in Seq(Block) /\ R \in Seq(Block)
  /\ Sorted(L) /\ Sorted(R)
  /\ \A x \in Elements(L), y \in Elements(R) : x.va = y.va => x.id < y.id

\* After k rounds: k blocks are merged, those before the heads, and all that is
\* left comes after them.
Merging(L, R, k, s) ==
  /\ s.i \in 1..(Len(L) + 1) /\ s.j \in 1..(Len(R) + 1) /\ s.i + s.j = k + 2
  /\ s.out \in Seq(Block) /\ Len(s.out) = k /\ Sorted(s.out)
  /\ Elements(s.out) = {L[a] : a \in 1..(s.i - 1)} \cup {R[b] : b \in 1..(s.j - 1)}
  /\ \A x \in Elements(s.out) : /\ \A a \in s.i..Len(L) : Before(x, L[a])
                                /\ \A b \in s.j..Len(R) : Before(x, R[b])

LEMMA BlockTypes ==
  ASSUME NEW b \in Block
  PROVE  b.va \in Nat /\ b.id \in Nat
  BY AddressTypes DEF Block

LEMMA BeforeTransitive ==
  ASSUME NEW x \in Block, NEW y \in Block, NEW z \in Block, Before(x, y), Before(y, z)
  PROVE  Before(x, z)
  BY BlockTypes DEF Before

\* The comparison of the sort, on the two halves, is the order of the blocks.
LEMMA TakesLeftIsBefore ==
  ASSUME NEW L, NEW R, Halves(L, R), NEW x \in Elements(L), NEW y \in Elements(R)
  PROVE  /\ TakesLeft(x, y) => Before(x, y)
         /\ ~ TakesLeft(x, y) => Before(y, x)
<1>1. x \in Block /\ y \in Block
  BY DEF Halves, Elements
<1> QED
  BY <1>1, BlockTypes DEF Halves, TakesLeft, Compare, Before

LEMMA AppendSorted ==
  ASSUME NEW s \in Seq(Block), Sorted(s), NEW x \in Block, \A y \in Elements(s) : Before(y, x)
  PROVE  /\ Append(s, x) \in Seq(Block) /\ Len(Append(s, x)) = Len(s) + 1
         /\ Sorted(Append(s, x))
         /\ Elements(Append(s, x)) = Elements(s) \cup {x}
<1> DEFINE t == Append(s, x)
<1>1. t \in Seq(Block) /\ Len(t) = Len(s) + 1 /\ DOMAIN t = 1..(Len(s) + 1) /\ DOMAIN s = 1..Len(s)
  OBVIOUS
<1>2. /\ Len(s) \in Nat
      /\ \A i \in 1..Len(s) : t[i] = s[i]
      /\ t[Len(s) + 1] = x
  OBVIOUS
<1> HIDE DEF t
<1>3. Elements(t) = Elements(s) \cup {x}
  BY <1>1, <1>2 DEF Elements
<1>4. Sorted(t)
  <2> SUFFICES ASSUME NEW i \in DOMAIN t, NEW j \in DOMAIN t, i < j PROVE Before(t[i], t[j])
    BY DEF Sorted
  <2>1. i \in 1..Len(s)
    BY <1>1, <1>2
  <2>2. CASE j = Len(s) + 1
    BY <1>1, <1>2, <2>1, <2>2 DEF Elements
  <2>3. CASE j \in 1..Len(s)
    BY <1>1, <1>2, <2>1, <2>3 DEF Sorted
  <2> QED
    BY <1>1, <1>2, <2>2, <2>3
<1> QED
  BY <1>1, <1>3, <1>4 DEF t

\* The left half's head is taken.
LEMMA MergeLeft ==
  ASSUME NEW L, NEW R, Halves(L, R), NEW k \in Nat, NEW s, Merging(L, R, k, s),
         s.i <= Len(L), s.j > Len(R) \/ TakesLeft(L[s.i], R[s.j])
  PROVE  Merging(L, R, k + 1, [out |-> Append(s.out, L[s.i]), i |-> s.i + 1, j |-> s.j])
<1> DEFINE x == L[s.i]
           t == [out |-> Append(s.out, x), i |-> s.i + 1, j |-> s.j]
<1>1. /\ s.i \in 1..Len(L) /\ s.j \in 1..(Len(R) + 1) /\ s.i + s.j = k + 2
      /\ Len(L) \in Nat /\ Len(R) \in Nat
      /\ DOMAIN L = 1..Len(L) /\ DOMAIN R = 1..Len(R)
  BY DEF Merging, Halves
<1>2. x \in Block /\ x \in Elements(L)
  BY <1>1 DEF Halves, Elements
<1>3. \A y \in Elements(s.out) : /\ \A a \in s.i..Len(L) : Before(y, L[a])
                                 /\ \A b \in s.j..Len(R) : Before(y, R[b])
  BY Zenon DEF Merging
<1>4. \A y \in Elements(s.out) : Before(y, x)
  <2>1. s.i \in s.i..Len(L)
    BY <1>1
  <2> QED
    BY <1>3, <2>1, Zenon
<1>5. /\ t.out \in Seq(Block) /\ Len(t.out) = k + 1 /\ Sorted(t.out)
      /\ Elements(t.out) = Elements(s.out) \cup {x}
  BY <1>2, <1>4, AppendSorted DEF Merging
<1>6. \A a \in t.i..Len(L) : Before(x, L[a])
  BY <1>1 DEF Halves, Sorted
<1>7. ASSUME NEW b \in s.j..Len(R) PROVE Before(x, R[b])
  <2>1. s.j \in 1..Len(R) /\ b \in 1..Len(R)
    BY <1>1
  <2>2. R[s.j] \in Block /\ R[b] \in Block /\ R[s.j] \in Elements(R)
    BY <1>1, <2>1 DEF Halves, Elements
  <2>3. Before(x, R[s.j])
    BY <1>1, <1>2, <2>1, <2>2, TakesLeftIsBefore
  <2>4. b # s.j => Before(R[s.j], R[b])
    BY <1>1, <2>1 DEF Halves, Sorted
  <2> QED
    BY <1>2, <2>2, <2>3, <2>4, BeforeTransitive
<1>8. {L[a] : a \in 1..(t.i - 1)} = {L[a] : a \in 1..(s.i - 1)} \cup {x}
  <2>1. 1..(t.i - 1) = 1..(s.i - 1) \cup {s.i}
    BY <1>1
  <2> QED
    BY <2>1
<1>9. Elements(t.out) = {L[a] : a \in 1..(t.i - 1)} \cup {R[b] : b \in 1..(t.j - 1)}
  BY <1>5, <1>8 DEF Merging
<1>10. \A y \in Elements(t.out) : /\ \A a \in t.i..Len(L) : Before(y, L[a])
                                  /\ \A b \in t.j..Len(R) : Before(y, R[b])
  <2>1. t.i..Len(L) \subseteq s.i..Len(L) /\ t.j..Len(R) \subseteq s.j..Len(R)
    BY <1>1
  <2>2. \A y \in Elements(s.out) : /\ \A a \in t.i..Len(L) : Before(y, L[a])
                                   /\ \A b \in t.j..Len(R) : Before(y, R[b])
    BY <1>3, <2>1
  <2> QED
    BY <1>5, <1>6, <1>7, <2>2
<1>11. t.i \in 1..(Len(L) + 1) /\ t.j \in 1..(Len(R) + 1) /\ t.i + t.j = (k + 1) + 2
  BY <1>1
<1> QED
  BY <1>5, <1>9, <1>10, <1>11 DEF Merging

\* The right half's head is taken.
LEMMA MergeRight ==
  ASSUME NEW L, NEW R, Halves(L, R), NEW k \in Nat, NEW s, Merging(L, R, k, s),
         s.j <= Len(R), s.i > Len(L) \/ ~ TakesLeft(L[s.i], R[s.j])
  PROVE  Merging(L, R, k + 1, [out |-> Append(s.out, R[s.j]), i |-> s.i, j |-> s.j + 1])
<1> DEFINE x == R[s.j]
           t == [out |-> Append(s.out, x), i |-> s.i, j |-> s.j + 1]
<1>1. /\ s.j \in 1..Len(R) /\ s.i \in 1..(Len(L) + 1) /\ s.i + s.j = k + 2
      /\ Len(L) \in Nat /\ Len(R) \in Nat
      /\ DOMAIN L = 1..Len(L) /\ DOMAIN R = 1..Len(R)
  BY DEF Merging, Halves
<1>2. x \in Block /\ x \in Elements(R)
  BY <1>1 DEF Halves, Elements
<1>3. \A y \in Elements(s.out) : /\ \A a \in s.i..Len(L) : Before(y, L[a])
                                 /\ \A b \in s.j..Len(R) : Before(y, R[b])
  BY Zenon DEF Merging
<1>4. \A y \in Elements(s.out) : Before(y, x)
  <2>1. s.j \in s.j..Len(R)
    BY <1>1
  <2> QED
    BY <1>3, <2>1, Zenon
<1>5. /\ t.out \in Seq(Block) /\ Len(t.out) = k + 1 /\ Sorted(t.out)
      /\ Elements(t.out) = Elements(s.out) \cup {x}
  BY <1>2, <1>4, AppendSorted DEF Merging
<1>6. \A b \in t.j..Len(R) : Before(x, R[b])
  BY <1>1 DEF Halves, Sorted
<1>7. ASSUME NEW a \in s.i..Len(L) PROVE Before(x, L[a])
  <2>1. s.i \in 1..Len(L) /\ a \in 1..Len(L)
    BY <1>1
  <2>2. L[s.i] \in Block /\ L[a] \in Block /\ L[s.i] \in Elements(L)
    BY <1>1, <2>1 DEF Halves, Elements
  <2>3. Before(x, L[s.i])
    BY <1>1, <1>2, <2>1, <2>2, TakesLeftIsBefore
  <2>4. a # s.i => Before(L[s.i], L[a])
    BY <1>1, <2>1 DEF Halves, Sorted
  <2> QED
    BY <1>2, <2>2, <2>3, <2>4, BeforeTransitive
<1>8. {R[b] : b \in 1..(t.j - 1)} = {R[b] : b \in 1..(s.j - 1)} \cup {x}
  <2>1. 1..(t.j - 1) = 1..(s.j - 1) \cup {s.j}
    BY <1>1
  <2> QED
    BY <2>1
<1>9. Elements(t.out) = {L[a] : a \in 1..(t.i - 1)} \cup {R[b] : b \in 1..(t.j - 1)}
  BY <1>5, <1>8 DEF Merging
<1>10. \A y \in Elements(t.out) : /\ \A a \in t.i..Len(L) : Before(y, L[a])
                                  /\ \A b \in t.j..Len(R) : Before(y, R[b])
  <2>1. t.i..Len(L) \subseteq s.i..Len(L) /\ t.j..Len(R) \subseteq s.j..Len(R)
    BY <1>1
  <2>2. \A y \in Elements(s.out) : /\ \A a \in t.i..Len(L) : Before(y, L[a])
                                   /\ \A b \in t.j..Len(R) : Before(y, R[b])
    BY <1>3, <2>1
  <2> QED
    BY <1>5, <1>6, <1>7, <2>2
<1>11. t.i \in 1..(Len(L) + 1) /\ t.j \in 1..(Len(R) + 1) /\ t.i + t.j = (k + 1) + 2
  BY <1>1
<1> QED
  BY <1>5, <1>9, <1>10, <1>11 DEF Merging

LEMMA MergeRound ==
  ASSUME NEW L, NEW R, Halves(L, R), NEW k \in Nat, k < Len(L) + Len(R),
         NEW s, Merging(L, R, k, s)
  PROVE  Merging(L, R, k + 1, Array!Merge(L, R, s))
<1>1. /\ s.i \in 1..(Len(L) + 1) /\ s.j \in 1..(Len(R) + 1) /\ s.i + s.j = k + 2
      /\ Len(L) \in Nat /\ Len(R) \in Nat
  BY DEF Merging, Halves
<1>2. CASE s.i > Len(L) \/ (s.j <= Len(R) /\ ~ TakesLeft(L[s.i], R[s.j]))
  <2>1. s.j <= Len(R) /\ (s.i > Len(L) \/ ~ TakesLeft(L[s.i], R[s.j]))
    BY <1>1, <1>2
  <2> QED
    BY <1>2, <2>1, MergeRight DEF Array!Merge
<1>3. CASE ~ (s.i > Len(L) \/ (s.j <= Len(R) /\ ~ TakesLeft(L[s.i], R[s.j])))
  <2>1. s.i <= Len(L) /\ (s.j > Len(R) \/ TakesLeft(L[s.i], R[s.j]))
    BY <1>1, <1>3
  <2> QED
    BY <1>3, <2>1, MergeLeft DEF Array!Merge
<1> QED
  BY <1>2, <1>3
NothingMerged == [out |-> <<>>, i |-> 1, j |-> 1]

\* g holds what the first k rounds leave.
Rounds(L, R, n, k, g) ==
  /\ DOMAIN g = 0..n
  /\ g[0] = NothingMerged
  /\ \A i \in 1..k : i \in 0..n => g[i] = Array!Merge(L, R, g[i - 1])

\* The function Merged computes with exists.
LEMMA RoundsExist ==
  ASSUME NEW L, NEW R, NEW n \in Nat
  PROVE  \E g : g = [k \in 0..n |-> IF k = 0 THEN NothingMerged ELSE Array!Merge(L, R, g[k - 1])]
<1> DEFINE S == {k \in Nat : \E g : Rounds(L, R, n, k, g) /\ g = [i \in 0..n |-> g[i]]}
<1>1. 0 \in S
  <2> DEFINE g == [i \in 0..n |-> NothingMerged]
  <2>1. Rounds(L, R, n, 0, g) /\ g = [i \in 0..n |-> g[i]]
    BY DEF Rounds
  <2> HIDE DEF g
  <2> QED
    BY <2>1
<1>2. ASSUME NEW k \in Nat, k \in S PROVE k + 1 \in S
  <2>1. PICK g : Rounds(L, R, n, k, g) /\ g = [i \in 0..n |-> g[i]]
    BY <1>2
  <2> DEFINE h == [i \in 0..n |-> IF i = k + 1 THEN Array!Merge(L, R, g[k]) ELSE g[i]]
  <2>2. DOMAIN h = 0..n /\ h = [i \in 0..n |-> h[i]]
    OBVIOUS
  <2>3. h[0] = NothingMerged
    BY <2>1 DEF Rounds
  <2>4. ASSUME NEW i \in 1..(k + 1), i \in 0..n PROVE h[i] = Array!Merge(L, R, h[i - 1])
    <3>1. i - 1 \in 0..n /\ i - 1 # k + 1
      BY <2>4
    <3>2. h[i - 1] = g[i - 1]
      BY <3>1
    <3>3. CASE i = k + 1
      BY <2>4, <3>2, <3>3
    <3>4. CASE i # k + 1
      <4>1. i \in 1..k
        BY <3>4
      <4>2. h[i] = g[i]
        BY <2>4, <3>4
      <4> QED
        BY <2>1, <2>4, <3>2, <4>1, <4>2 DEF Rounds
    <3> QED
      BY <3>3, <3>4
  <2> HIDE DEF h
  <2>5. Rounds(L, R, n, k + 1, h)
    BY <2>2, <2>3, <2>4 DEF Rounds
  <2> QED
    BY <2>2, <2>5
<1>3. n \in S
  <2> HIDE DEF S
  <2> QED
    BY <1>1, <1>2, Induction
<1>4. PICK g : Rounds(L, R, n, n, g) /\ g = [i \in 0..n |-> g[i]]
  BY <1>3
<1> DEFINE h == [k \in 0..n |-> IF k = 0 THEN NothingMerged ELSE Array!Merge(L, R, g[k - 1])]
<1>5. ASSUME NEW k \in 0..n PROVE g[k] = h[k]
  <2>1. CASE k = 0
    BY <1>4, <2>1 DEF Rounds
  <2>2. CASE k # 0
    <3>1. k \in 1..n /\ k \in 0..n
      BY <2>2
    <3> QED
      BY <1>4, <2>2, <3>1 DEF Rounds
  <2> QED
    BY <2>1, <2>2
<1>6. g = h
  <2>1. DOMAIN g = 0..n /\ DOMAIN h = 0..n
    BY <1>4 DEF Rounds
  <2> HIDE DEF h
  <2>2. h = [i \in 0..n |-> h[i]]
    BY DEF h
  <2> QED
    BY <1>4, <1>5, <2>2
<1> QED
  BY <1>6

\* Merged joins two sorted halves into one sorted sequence of the same blocks.
LEMMA MergedSorted ==
  ASSUME NEW L, NEW R, Halves(L, R)
  PROVE  /\ Array!Merged(L, R) \in Seq(Block)
         /\ Len(Array!Merged(L, R)) = Len(L) + Len(R)
         /\ Sorted(Array!Merged(L, R))
         /\ Elements(Array!Merged(L, R)) = Elements(L) \cup Elements(R)
<1> DEFINE n == Len(L) + Len(R)
           after == CHOOSE after :
             after = [k \in 0..(Len(L) + Len(R)) |->
                        IF k = 0 THEN [out |-> <<>>, i |-> 1, j |-> 1]
                        ELSE Array!Merge(L, R, after[k - 1])]
           S == {k \in Nat : k <= n => Merging(L, R, k, after[k])}
<1>1. Len(L) \in Nat /\ Len(R) \in Nat /\ n \in Nat
  BY DEF Halves
<1>2. after = [k \in 0..n |-> IF k = 0 THEN NothingMerged ELSE Array!Merge(L, R, after[k - 1])]
  BY <1>1, RoundsExist DEF NothingMerged
<1>3. Array!Merged(L, R) = after[n].out
  BY DEF Array!Merged
<1> HIDE DEF after
<1>4. 0 \in S
  <2>1. after[0] = NothingMerged
    BY <1>1, <1>2
  <2>2. Merging(L, R, 0, NothingMerged)
    BY <1>1 DEF Merging, NothingMerged, Sorted, Elements
  <2> QED
    BY <2>1, <2>2
<1>5. ASSUME NEW k \in Nat, k \in S PROVE k + 1 \in S
  <2> SUFFICES ASSUME k + 1 <= n PROVE Merging(L, R, k + 1, after[k + 1])
    OBVIOUS
  <2>1. Merging(L, R, k, after[k]) /\ k < Len(L) + Len(R)
    BY <1>1, <1>5
  <2>2. after[k + 1] = Array!Merge(L, R, after[k])
    <3>1. k + 1 \in 0..n /\ k + 1 # 0 /\ (k + 1) - 1 = k
      BY <1>1
    <3> HIDE DEF n
    <3> QED
      BY <1>2, <3>1
  <2> QED
    BY <2>1, <2>2, MergeRound
<1>6. n \in S
  <2> HIDE DEF S
  <2> QED
    BY <1>1, <1>4, <1>5, Induction
<1>7. Merging(L, R, n, after[n])
  BY <1>1, <1>6
<1>8. after[n].i = Len(L) + 1 /\ after[n].j = Len(R) + 1
  BY <1>1, <1>7 DEF Merging
<1>9. Elements(after[n].out) = Elements(L) \cup Elements(R)
  <2>1. DOMAIN L = 1..Len(L) /\ DOMAIN R = 1..Len(R)
    BY DEF Halves
  <2>2. after[n].i - 1 = Len(L) /\ after[n].j - 1 = Len(R)
    BY <1>1, <1>8
  <2>3. Elements(after[n].out)
          = {L[a] : a \in 1..(after[n].i - 1)} \cup {R[b] : b \in 1..(after[n].j - 1)}
    BY <1>7, Zenon DEF Merging
  <2> QED
    BY <2>1, <2>2, <2>3 DEF Elements
<1> QED
  BY <1>3, <1>7, <1>9 DEF Merging
--------------------------------------------------------------------------------
(* The sort *)

Intervals(n) == (1..(n + 1)) \X (0..n)
LeftOf(p) == <<p[1], Array!Middle(p)>>
RightOf(p) == <<Array!Middle(p) + 1, p[2]>>

\* What the sort makes of the interval p when g is what it makes of shorter ones.
Halved(items, g, p) ==
  IF p[1] < p[2] THEN Array!Merged(g[LeftOf(p)], g[RightOf(p)])
                 ELSE SubSeq(items, p[1], p[2])

LEMMA HalvesShorter ==
  ASSUME NEW n \in Nat, NEW p \in Intervals(n), p[1] < p[2]
  PROVE  /\ p[1] \in Nat /\ p[2] \in Nat /\ Array!Middle(p) \in Nat
         /\ p[1] <= Array!Middle(p) /\ Array!Middle(p) < p[2]
         /\ LeftOf(p) \in Intervals(n) /\ RightOf(p) \in Intervals(n)
         /\ LeftOf(p)[1] = p[1] /\ LeftOf(p)[2] = Array!Middle(p)
         /\ RightOf(p)[1] = Array!Middle(p) + 1 /\ RightOf(p)[2] = p[2]
<1>1. p[1] \in 1..(n + 1) /\ p[2] \in 0..n
  BY DEF Intervals
<1>2. /\ Array!Middle(p) \in Nat
      /\ p[1] <= Array!Middle(p) /\ Array!Middle(p) < p[2]
  BY <1>1, Z3 DEF Array!Middle
<1>3. Array!Middle(p) \in 0..n /\ Array!Middle(p) + 1 \in 1..(n + 1)
  BY <1>1, <1>2
<1> QED
  BY <1>1, <1>2, <1>3 DEF LeftOf, RightOf, Intervals

\* g is right for the intervals of at most d blocks.
Sorts(items, n, d, g) ==
  \A p \in Intervals(n) : p[2] - p[1] < d => g[p] = Halved(items, g, p)

\* The function MergeSorted computes with exists.
LEMMA SortsExist ==
  ASSUME NEW items, NEW n \in Nat
  PROVE  \E g : g = [p \in Intervals(n) |-> Halved(items, g, p)]
<1> DEFINE S == {d \in Nat : \E g : Sorts(items, n, d, g) /\ g = [p \in Intervals(n) |-> g[p]]}
<1>1. 0 \in S
  <2> DEFINE g == [p \in Intervals(n) |-> SubSeq(items, p[1], p[2])]
  <2>1. ASSUME NEW p \in Intervals(n), p[2] - p[1] < 0 PROVE g[p] = Halved(items, g, p)
    <3>1. p[1] \in 1..(n + 1) /\ p[2] \in 0..n
      BY DEF Intervals
    <3>2. ~ (p[1] < p[2])
      BY <2>1, <3>1
    <3> QED
      BY <3>2 DEF Halved
  <2>2. g = [p \in Intervals(n) |-> g[p]]
    OBVIOUS
  <2> HIDE DEF g
  <2> QED
    BY <2>1, <2>2 DEF Sorts
<1>2. ASSUME NEW d \in Nat, d \in S PROVE d + 1 \in S
  <2>1. PICK g : Sorts(items, n, d, g) /\ g = [p \in Intervals(n) |-> g[p]]
    BY <1>2
  <2> DEFINE h == [p \in Intervals(n) |-> Halved(items, g, p)]
  <2>2. \A p \in Intervals(n) : h[p] = Halved(items, g, p)
    OBVIOUS
  <2>3. h = [p \in Intervals(n) |-> h[p]]
    OBVIOUS
  <2> HIDE DEF h
  <2>4. \A p \in Intervals(n) : p[2] - p[1] < d => h[p] = g[p]
    BY <2>1, <2>2 DEF Sorts
  <2>5. ASSUME NEW p \in Intervals(n), p[2] - p[1] < d + 1 PROVE h[p] = Halved(items, h, p)
    <3>1. CASE p[1] < p[2]
      <4>1. /\ p[1] \in Nat /\ p[2] \in Nat /\ Array!Middle(p) \in Nat
            /\ p[1] <= Array!Middle(p) /\ Array!Middle(p) < p[2]
            /\ LeftOf(p) \in Intervals(n) /\ RightOf(p) \in Intervals(n)
            /\ LeftOf(p)[1] = p[1] /\ LeftOf(p)[2] = Array!Middle(p)
            /\ RightOf(p)[1] = Array!Middle(p) + 1 /\ RightOf(p)[2] = p[2]
        BY <3>1, HalvesShorter
      <4>2. LeftOf(p)[2] - LeftOf(p)[1] < d /\ RightOf(p)[2] - RightOf(p)[1] < d
        BY <2>5, <4>1
      <4>3. h[LeftOf(p)] = g[LeftOf(p)] /\ h[RightOf(p)] = g[RightOf(p)]
        BY <2>4, <4>1, <4>2
      <4> QED
        BY <2>2, <3>1, <4>3 DEF Halved
    <3>2. CASE ~ (p[1] < p[2])
      BY <2>2, <3>2 DEF Halved
    <3> QED
      BY <3>1, <3>2
  <2> QED
    BY <2>3, <2>5 DEF Sorts
<1>3. n + 1 \in S
  <2> HIDE DEF S
  <2> QED
    BY <1>1, <1>2, Induction
<1>4. PICK g : Sorts(items, n, n + 1, g) /\ g = [p \in Intervals(n) |-> g[p]]
  BY <1>3
<1>5. ASSUME NEW p \in Intervals(n) PROVE g[p] = Halved(items, g, p)
  <2>1. p[2] - p[1] < n + 1
    BY DEF Intervals
  <2> QED
    BY <1>4, <2>1 DEF Sorts
<1>6. [p \in Intervals(n) |-> g[p]] = [p \in Intervals(n) |-> Halved(items, g, p)]
  BY <1>5
<1> QED
  BY <1>4, <1>6

\* What the array holds when it is sorted: blocks, the older of two with one
\* address before the younger.
InAge(items) ==
  /\ items \in Seq(Block)
  /\ \A i, j \in DOMAIN items : i < j /\ items[i].va = items[j].va => items[i].id < items[j].id

\* s is the interval p of items, sorted.
SortOf(items, p, s) ==
  /\ s \in Seq(Block) /\ Len(s) = p[2] - p[1] + 1 /\ Sorted(s)
  /\ Elements(s) = {items[i] : i \in p[1]..p[2]}

LEMMA SingleSorted ==
  ASSUME NEW items, InAge(items), NEW i \in 1..Len(items)
  PROVE  SortOf(items, <<i, i>>, SubSeq(items, i, i))
<1>1. /\ items \in Seq(Block) /\ Len(items) \in Nat /\ DOMAIN items = 1..Len(items)
      /\ items[i] \in Block
  BY DEF InAge
<1>2. SubSeq(items, i, i) = <<items[i]>>
  <2>1. /\ SubSeq(items, i, i) \in Seq(Block) /\ Len(SubSeq(items, i, i)) = 1
        /\ SubSeq(items, i, i)[1] = items[i]
    BY <1>1
  <2>2. ASSUME NEW s \in Seq(Block), Len(s) = 1, NEW x \in Block, s[1] = x PROVE s = <<x>>
    <3>1. DOMAIN s = 1..1 /\ DOMAIN <<x>> = 1..1 /\ <<x>>[1] = x
      BY <2>2
    <3>2. s = [k \in 1..1 |-> s[k]] /\ <<x>> = [k \in 1..1 |-> <<x>>[k]]
      BY <2>2, <3>1
    <3>3. [k \in 1..1 |-> s[k]] = [k \in 1..1 |-> <<x>>[k]]
      BY <2>2, <3>1
    <3> QED
      BY <3>2, <3>3, Zenon
  <2> QED
    BY <1>1, <2>1, <2>2
<1>3. /\ <<items[i]>> \in Seq(Block) /\ Len(<<items[i]>>) = 1
      /\ Elements(<<items[i]>>) = {items[i]} /\ Sorted(<<items[i]>>)
  BY <1>1 DEF Elements, Sorted
<1>4. {items[k] : k \in i..i} = {items[i]} /\ i - i + 1 = 1
  OBVIOUS
<1> QED
  BY <1>2, <1>3, <1>4 DEF SortOf

LEMMA HalvesSorted ==
  ASSUME NEW items, InAge(items), NEW p \in Intervals(Len(items)), p[1] < p[2],
         NEW L, NEW R, SortOf(items, LeftOf(p), L), SortOf(items, RightOf(p), R)
  PROVE  SortOf(items, p, Array!Merged(L, R))
<1> DEFINE m == Array!Middle(p)
<1>1. /\ items \in Seq(Block) /\ Len(items) \in Nat /\ DOMAIN items = 1..Len(items)
      /\ p[1] \in 1..(Len(items) + 1) /\ p[2] \in 0..Len(items)
  BY DEF InAge, Intervals
<1>2. /\ m \in Nat /\ p[1] <= m /\ m < p[2]
      /\ LeftOf(p)[1] = p[1] /\ LeftOf(p)[2] = m
      /\ RightOf(p)[1] = m + 1 /\ RightOf(p)[2] = p[2]
  BY <1>1, HalvesShorter
<1> HIDE DEF m
<1>3. /\ Elements(L) = {items[i] : i \in p[1]..m} /\ Len(L) = m - p[1] + 1
      /\ Elements(R) = {items[i] : i \in (m + 1)..p[2]} /\ Len(R) = p[2] - (m + 1) + 1
  BY <1>2 DEF SortOf
<1>4. ASSUME NEW x \in Elements(L), NEW y \in Elements(R), x.va = y.va PROVE x.id < y.id
  <2>1. PICK i \in p[1]..m : x = items[i]
    BY <1>3
  <2>2. PICK j \in (m + 1)..p[2] : y = items[j]
    BY <1>3
  <2>3. i \in DOMAIN items /\ j \in DOMAIN items /\ i < j
    BY <1>1, <1>2
  <2> QED
    BY <1>4, <2>1, <2>2, <2>3 DEF InAge
<1>5. Halves(L, R)
  BY <1>4 DEF Halves, SortOf
<1>6. Len(L) + Len(R) = p[2] - p[1] + 1
  <2>1. p[1] \in Int /\ p[2] \in Int /\ m \in Int
    BY <1>1, <1>2
  <2>2. Len(L) = m - p[1] + 1 /\ Len(R) = p[2] - (m + 1) + 1
    BY <1>3, Zenon
  <2>3. (m - p[1] + 1) + (p[2] - (m + 1) + 1) = p[2] - p[1] + 1
    BY <2>1
  <2> QED
    BY <2>2, <2>3, Zenon
<1>7. {items[i] : i \in p[1]..p[2]} = Elements(L) \cup Elements(R)
  <2>1. p[1]..p[2] = (p[1]..m) \cup ((m + 1)..p[2])
    BY <1>1, <1>2
  <2> QED
    BY <1>3, <2>1
<1> QED
  BY <1>5, <1>6, <1>7, MergedSorted DEF SortOf

\* MergeSorted sorts an array that is not empty.
LEMMA MergeSortedSorts ==
  ASSUME NEW items, InAge(items), items # <<>>
  PROVE  SortOf(items, <<1, Len(items)>>, Array!MergeSorted(items))
<1> DEFINE n == Len(items)
           sorted == CHOOSE sorted :
             sorted = [p \in (1..(Len(items) + 1)) \X (0..Len(items)) |->
                         IF p[1] < p[2]
                         THEN Array!Merged(sorted[<<p[1], Array!Middle(p)>>],
                                           sorted[<<Array!Middle(p) + 1, p[2]>>])
                         ELSE SubSeq(items, p[1], p[2])]
           S == {d \in Nat : \A p \in Intervals(n) :
                               p[1] <= p[2] /\ p[2] - p[1] < d => SortOf(items, p, sorted[p])}
<1>1. items \in Seq(Block) /\ n \in Nat \ {0}
  BY DEF InAge
<1>2. sorted = [p \in Intervals(n) |-> Halved(items, sorted, p)]
  <2>1. \E g : g = [p \in Intervals(n) |-> Halved(items, g, p)]
    BY <1>1, SortsExist
  <2> QED
    BY <2>1 DEF Halved, LeftOf, RightOf, Intervals
<1>3. Array!MergeSorted(items) = sorted[<<1, n>>]
  BY DEF Array!MergeSorted
<1> HIDE DEF sorted
<1>4. \A p \in Intervals(n) : sorted[p] = Halved(items, sorted, p)
  BY <1>2
<1>5. 0 \in S
  BY DEF Intervals
<1>6. ASSUME NEW d \in Nat, d \in S PROVE d + 1 \in S
  <2> SUFFICES ASSUME NEW p \in Intervals(n), p[1] <= p[2], p[2] - p[1] < d + 1
               PROVE  SortOf(items, p, sorted[p])
    OBVIOUS
  <2>1. p[1] \in 1..(n + 1) /\ p[2] \in 0..n /\ p = <<p[1], p[2]>>
    BY DEF Intervals
  <2>2. CASE p[1] < p[2]
    <3>1. /\ p[1] \in Nat /\ p[2] \in Nat /\ Array!Middle(p) \in Nat
          /\ p[1] <= Array!Middle(p) /\ Array!Middle(p) < p[2]
          /\ LeftOf(p) \in Intervals(n) /\ RightOf(p) \in Intervals(n)
          /\ LeftOf(p)[1] = p[1] /\ LeftOf(p)[2] = Array!Middle(p)
          /\ RightOf(p)[1] = Array!Middle(p) + 1 /\ RightOf(p)[2] = p[2]
      BY <1>1, <2>2, HalvesShorter
    <3>2. /\ LeftOf(p)[1] <= LeftOf(p)[2] /\ LeftOf(p)[2] - LeftOf(p)[1] < d
          /\ RightOf(p)[1] <= RightOf(p)[2] /\ RightOf(p)[2] - RightOf(p)[1] < d
      BY <3>1
    <3>3. SortOf(items, LeftOf(p), sorted[LeftOf(p)]) /\ SortOf(items, RightOf(p), sorted[RightOf(p)])
      BY <1>6, <3>1, <3>2
    <3> QED
      BY <1>4, <2>2, <3>3, HalvesSorted DEF Halved
  <2>3. CASE ~ (p[1] < p[2])
    <3>1. p = <<p[1], p[1]>> /\ p[1] = p[2] /\ p[1] \in 1..Len(items)
      BY <2>1, <2>3
    <3>2. sorted[p] = SubSeq(items, p[1], p[1])
      BY <1>4, <2>3, <3>1 DEF Halved
    <3> QED
      BY <3>1, <3>2, SingleSorted
  <2> QED
    BY <2>2, <2>3
<1>7. n \in S
  <2> HIDE DEF S
  <2> QED
    BY <1>1, <1>5, <1>6, Induction
<1>8. <<1, n>> \in Intervals(n) /\ <<1, n>>[1] = 1 /\ <<1, n>>[2] = n /\ 1 <= n /\ n - 1 < n
  BY <1>1 DEF Intervals
<1> QED
  BY <1>3, <1>7, <1>8
--------------------------------------------------------------------------------
(* The array of blocks *)

Room == array.capacity \in Nat /\ Len(array.items) <= array.capacity

\* The inductive invariant: sorting again needs the array sorted before, and
\* needs the new block to be younger than all the others.
ArrayInv ==
  /\ TypeOK
  /\ array.items \in Seq(Block) /\ Sorted(array.items) /\ Elements(array.items) = blocks
  /\ Room

\* A step of the map adds at most one block, the youngest.
LEMMA OneBlock ==
  ASSUME Next, blocks' # blocks
  PROVE  \E b : blocks' = blocks \cup {b} /\ b.id = serial
<1>1. ASSUME NEW va, NEW size, NEW mode, AppendMemoryBlock(va, size, mode)
      PROVE  \E b : blocks' = blocks \cup {b} /\ b.id = serial
  <2>1. blocks' = blocks \cup {[id |-> serial, va |-> va, size |-> size]}
    BY <1>1, Zenon DEF AppendMemoryBlock
  <2>2. [id |-> serial, va |-> va, size |-> size].id = serial
    OBVIOUS
  <2> QED
    BY <2>1, <2>2, Zenon
<1>2. ASSUME NEW r \in Image, Load(r) PROVE \E va, size, mode : AppendMemoryBlock(va, size, mode)
  BY <1>2, Zenon DEF Load
<1>3. ASSUME NEW size, NEW mode, Search(size, mode)
      PROVE  \E va, length, m : AppendMemoryBlock(va, length, m)
  BY <1>3, Zenon DEF Search
<1>4. ASSUME NEW size \in Sizes, VirtualAllocFirst(size)
      PROVE  \E va, length, m : AppendMemoryBlock(va, length, m)
  BY <1>4, Zenon DEF VirtualAllocFirst
<1>5. \E va, size, mode : AppendMemoryBlock(va, size, mode)
  <2>1. ASSUME NEW b, Release(b) PROVE blocks' = blocks
    BY <2>1, Zenon DEF Release
  <2>2. ASSUME NEW a, NEW size, VirtualProtect(a, size) PROVE blocks' = blocks
    BY <2>2, Zenon DEF VirtualProtect
  <2>3. ASSUME Stops PROVE blocks' = blocks
    BY <2>3, StopsAbort, Zenon DEF Abort
  <2> QED
    BY NextKinds, Searches, <1>2, <1>3, <1>4, <2>1, <2>2, <2>3, Zenon
<1> QED
  BY <1>1, <1>5, Zenon

LEMMA GrownHasRoom ==
  ASSUME NEW capacity \in Nat, NEW n \in Nat, n <= capacity
  PROVE  Array!Grown(capacity) \in Nat /\ n + 1 <= Array!Grown(capacity)
  BY Z3 DEF Array!Grown

LEMMA AppendArray ==
  ASSUME ArrayInv, NEW b \in Block, \A c \in blocks : c.id < b.id,
         AppendAndSort(b), blocks' = blocks \cup {b}
  PROVE  /\ array'.items \in Seq(Block) /\ Sorted(array'.items)
         /\ Elements(array'.items) = blocks'
         /\ Room'
<1> DEFINE old == array.items
           new == Append(old, b)
           sorted == Array!MergeSorted(new)
<1>1. /\ old \in Seq(Block) /\ Sorted(old) /\ Elements(old) = blocks
      /\ Len(old) \in Nat /\ array.capacity \in Nat /\ Len(old) <= array.capacity
  BY DEF ArrayInv, Room
<1>2. /\ array'.items = sorted
      /\ array'.capacity = IF Len(old) >= array.capacity THEN Array!Grown(array.capacity)
                                                         ELSE array.capacity
  BY DEF AppendAndSort, Array!Appended
<1>3. /\ new \in Seq(Block) /\ Len(new) = Len(old) + 1 /\ new # <<>>
      /\ DOMAIN old = 1..Len(old) /\ DOMAIN new = 1..(Len(old) + 1)
      /\ \A i \in 1..Len(old) : new[i] = old[i]
      /\ new[Len(old) + 1] = b
  BY <1>1
<1> HIDE DEF new, old
<1>4. Elements(new) = Elements(old) \cup {b}
  BY <1>1, <1>3 DEF Elements
<1>5. InAge(new)
  <2> SUFFICES ASSUME NEW i \in DOMAIN new, NEW j \in DOMAIN new, i < j, new[i].va = new[j].va
               PROVE  new[i].id < new[j].id
    BY <1>3 DEF InAge
  <2>1. i \in 1..Len(old) /\ i \in DOMAIN old /\ new[i] = old[i]
    BY <1>1, <1>3
  <2>2. CASE j = Len(old) + 1
    <3>1. old[i] \in blocks
      BY <1>1, <2>1 DEF Elements
    <3> QED
      BY <1>3, <2>1, <2>2, <3>1
  <2>3. CASE j # Len(old) + 1
    <3>1. j \in DOMAIN old /\ new[j] = old[j]
      BY <1>1, <1>3, <2>3
    <3>2. Before(old[i], old[j])
      BY <1>1, <2>1, <3>1 DEF Sorted
    <3>3. old[i] \in Block /\ old[j] \in Block
      BY <1>1, <2>1, <3>1
    <3> QED
      BY <2>1, <3>1, <3>2, <3>3, BlockTypes DEF Before
  <2> QED
    BY <2>2, <2>3
<1>6. SortOf(new, <<1, Len(new)>>, sorted)
  BY <1>3, <1>5, MergeSortedSorts
<1>7. DOMAIN new = 1..Len(new) /\ Len(new) \in Nat
  BY <1>1, <1>3
<1>8. sorted \in Seq(Block) /\ Sorted(sorted) /\ Len(sorted) = Len(old) + 1
  BY <1>1, <1>3, <1>6 DEF SortOf
<1>9. Elements(sorted) = Elements(new)
  BY <1>6, <1>7 DEF SortOf, Elements
<1>10. Len(old) + 1 <= array'.capacity /\ array'.capacity \in Nat
  <2>1. CASE Len(old) >= array.capacity
    BY <1>1, <1>2, <2>1, GrownHasRoom
  <2>2. CASE ~ (Len(old) >= array.capacity)
    BY <1>1, <1>2, <2>2
  <2> QED
    BY <2>1, <2>2
<1> QED
  BY <1>1, <1>2, <1>4, <1>8, <1>9, <1>10 DEF Room

LEMMA ArrayStep ==
  ASSUME ArrayInv, [ArrayNext]_arrayVars
  PROVE  ArrayInv'
<1>1. TypeOK'
  <2>1. [Next]_vars
    BY DEF ArrayNext, arrayVars
  <2> QED
    BY <2>1, TypeStep DEF ArrayInv
<1>2. CASE blocks' = blocks
  <2>1. array' = array
    BY <1>2, Zenon DEF ArrayNext, arrayVars
  <2> QED
    BY <1>1, <1>2, <2>1 DEF ArrayInv, Room
<1>3. CASE blocks' # blocks
  <2>1. Next /\ \E b \in blocks' \ blocks : AppendAndSort(b)
    BY <1>3, Zenon DEF ArrayNext, arrayVars, vars
  <2>2. PICK b \in blocks' \ blocks : AppendAndSort(b)
    BY <2>1
  <2>3. blocks' = blocks \cup {b} /\ b.id = serial
    BY <1>3, <2>1, <2>2, OneBlock
  <2>4. b \in Block
    BY <1>1, <2>2 DEF TypeOK
  <2>5. \A c \in blocks : c.id < b.id
    BY <2>3 DEF ArrayInv, TypeOK
  <2> QED
    BY <1>1, <2>2, <2>3, <2>4, <2>5, AppendArray DEF ArrayInv
<1> QED
  BY <1>2, <1>3

LEMMA ArrayStart == ArrayInit => ArrayInv
<1> SUFFICES ASSUME ArrayInit PROVE ArrayInv
  OBVIOUS
<1>1. TypeOK
  BY TypeInit DEF ArrayInit
<1>2. array.items = <<>> /\ array.capacity = InitialCapacity /\ blocks = {}
  BY DEF ArrayInit, Array!CreateArray, Init
<1> QED
  BY <1>1, <1>2, CapacityAssumption DEF ArrayInv, Room, Sorted, Elements, CapacityAssumption

LEMMA ArrayInvariant == ArraySpec => []ArrayInv
  BY ArrayStart, ArrayStep, PTL DEF ArraySpec

\* fe_array_last and the neighbours the loop of fe_memoryMap_malloc meets are
\* those the map works with: the array lists every block once, by address and by
\* age among equal addresses, whatever was appended to it.
THEOREM ArrayStaysInOrder == ArraySpec => []ArrayInOrder
<1>1. ArrayInv => ArrayInOrder
  BY DEF ArrayInv, ArrayInOrder, Sorted, Elements
<1> QED
  BY <1>1, ArrayInvariant, PTL

\* fe_array_append never writes past its buffer, from any initial capacity.
THEOREM ArrayAlwaysFits == ArraySpec => []ArrayFits
<1>1. ArrayInv => ArrayFits
  BY DEF ArrayInv, ArrayFits, Room
<1> QED
  BY <1>1, ArrayInvariant, PTL

--------------------------------------------------------------------------------
(* The inductive invariant *)

\* The types of the memory map; the outcomes of the cache are outcomes too.
MapTypes ==
  /\ blocks \subseteq Block
  /\ shadow \in [Pages -> Nat]
  /\ \A p \in Pages : shadow[p] # None => \E b \in blocks : b.id = shadow[p]
  /\ rights \in [Pages -> Mode]
  /\ serial \in Nat \ {0}
  /\ \A b \in blocks : b.id < serial
  /\ released \subseteq Nat
  /\ fixedNext \in BOOLEAN /\ handler \in BOOLEAN

\* A context of block b: three arrays that grow together.
Context(b, c) ==
  /\ c.indexes \in [0..(b.size - 1) -> Nat \cup {Absent}]
  /\ \E S : c.disasmed \in Seq(S)
  /\ c.lens \in Seq(Nat)
  /\ Len(c.disasmed) = Len(c.lens)
  /\ \A n \in 1..Len(c.disasmed) : c.disasmed[n].at \in Units
  /\ \A o \in 0..(b.size - 1) : c.indexes[o] # Absent =>
       /\ c.indexes[o] + 1 \in 1..Len(c.disasmed)
       /\ c.disasmed[c.indexes[o] + 1].at = b.va + o
       /\ DOMAIN c.disasmed[c.indexes[o] + 1].units = 0..(c.lens[c.indexes[o] + 1] - 1)

Contexts ==
  /\ DOMAIN cache \subseteq {b.id : b \in blocks}
  /\ \A b \in blocks : b.id \in DOMAIN cache => Context(b, cache[b.id])

\* Instruction i, kept by block b, is the one memory holds, but for the edges.
Current(b, i) ==
  Resolves(b, PageOf(i.at)) /\ NotWritable(i.at) =>
    \A o \in DOMAIN i.units :
      Outdated(i, o) => PageOf(i.at + o) \in tails \/ PageOf(i.at + o) # PageOf(i.at)

AllCurrent ==
  \A b \in blocks : b.id \in DOMAIN cache =>
    \A n \in 1..Len(cache[b.id].disasmed) : Current(b, cache[b.id].disasmed[n])

\* Of the pages of a range the guest made writable, only the last is not.
GrantedWritable == \A p \in granted \ tails : "Write" \in rights[p]

\* While the image is being mapped, nothing is given back: a section without
\* the right to write never lands on a page that was granted.
GrantedMapped == Loaded \/ \A p \in granted : shadow[p] # None

Scalars ==
  /\ bytes \in [Units -> Encoding]
  /\ op.at \in Units \cup {Absent} /\ op.len \in Nat
  /\ granted \subseteq Pages /\ tails \subseteq granted
  /\ writes \in 0..MaxWrites

CacheInv ==
  MapTypes /\ Identified /\ Scalars /\ Contexts /\ AllCurrent /\ GrantedWritable /\ GrantedMapped

LEMMA UnitPage ==
  ASSUME NEW u \in Units
  PROVE  u \in Nat /\ PageOf(u) \in Pages
<1>1. u \in Nat /\ u < MapSize /\ PageOf(u) \in Nat
  BY AddressTypes, PageBounds DEF Units
<1>2. ~ MapPages <= PageOf(u)
  BY <1>1, AddressTypes, PageMono DEF MapSize
<1> QED
  BY <1>1, <1>2, AddressTypes DEF Pages

LEMMA InvSays == CacheInv => CacheTypeOK /\ ContextAligned /\ StaleOnlyAtEdges
<1> SUFFICES ASSUME CacheInv PROVE CacheTypeOK /\ ContextAligned /\ StaleOnlyAtEdges
  OBVIOUS
<1>1. ASSUME NEW b \in blocks, b.id \in DOMAIN cache
      PROVE  /\ Context(b, cache[b.id])
             /\ DOMAIN cache[b.id].indexes = 0..(b.size - 1)
             /\ DOMAIN cache[b.id].disasmed = 1..Len(cache[b.id].disasmed)
  BY <1>1 DEF CacheInv, Contexts, Context
<1>2. CacheTypeOK
  BY <1>1 DEF CacheTypeOK, CacheInv, Scalars, Contexts, Context
<1>3. ContextAligned
  BY <1>1 DEF ContextAligned, Context
<1>4. StaleOnlyAtEdges
  BY <1>1 DEF StaleOnlyAtEdges, CacheInv, AllCurrent, Current
<1> QED
  BY <1>2, <1>3, <1>4

LEMMA CacheInitInv == CacheInit => CacheInv
<1> SUFFICES ASSUME CacheInit PROVE CacheInv
  OBVIOUS
<1>1. Init /\ TypeOK
  BY TypeInit DEF CacheInit
<1>2. MapTypes /\ Identified /\ blocks = {}
  BY <1>1 DEF TypeOK, MapTypes, Identified, Init
<1>3. Scalars
  BY LengthAssumption, WritesAssumption DEF CacheInit, LengthAssumption, WritesAssumption, Scalars
<1>4. DOMAIN cache = {}
  BY DEF CacheInit
<1> QED
  BY <1>2, <1>3, <1>4
     DEF CacheInit, CacheInv, Contexts, AllCurrent, GrantedWritable, GrantedMapped

--------------------------------------------------------------------------------
(* Fetching *)

LEMMA AppendGrows ==
  ASSUME NEW S, NEW s \in Seq(S), NEW e
  PROVE  /\ \E T : Append(s, e) \in Seq(T)
         /\ e \in S => Append(s, e) \in Seq(S)
         /\ Len(s) \in Nat /\ Len(Append(s, e)) = Len(s) + 1
         /\ \A n \in 1..Len(s) : Append(s, e)[n] = s[n]
         /\ Append(s, e)[Len(s) + 1] = e
<1>1. s \in Seq(S \cup {e})
  OBVIOUS
<1> QED
  BY <1>1

LEMMA DecodedIs ==
  ASSUME NEW eip
  PROVE  /\ Decoded(eip).at = eip
         /\ DOMAIN Decoded(eip).units = 0..(Length[bytes[eip]] - 1)
         /\ \A o \in DOMAIN Decoded(eip).units : Decoded(eip).units[o] = bytes[eip + o]
  BY DEF Decoded

LEMMA EmptyContextIs ==
  ASSUME NEW b \in Block
  PROVE  Context(b, EmptyContext(b)) /\ Len(EmptyContext(b).disasmed) = 0
<1> DEFINE c == EmptyContext(b)
<1>1. /\ c.indexes = [o \in 0..(b.size - 1) |-> Absent]
      /\ c.disasmed = <<>> /\ c.lens = <<>>
  BY DEF EmptyContext
<1>2. <<>> \in Seq({}) /\ <<>> \in Seq(Nat) /\ Len(<<>>) = 0
  OBVIOUS
<1> HIDE DEF c
<1> QED
  BY <1>1, <1>2 DEF Context, c

\* The context c of b with the instruction at eip added to it.
Extended(b, c, eip) ==
  [indexes |-> [c.indexes EXCEPT ![eip - b.va] = Position(c)],
   disasmed |-> Append(c.disasmed, Decoded(eip)),
   lens |-> Append(c.lens, Length[bytes[eip]])]

LEMMA ExtendedIs ==
  ASSUME NEW b \in Block, NEW c, Context(b, c), NEW eip \in Units,
         b.va <= eip, eip < b.va + b.size, Length[bytes[eip]] \in Nat
  PROVE  LET d == Extended(b, c, eip) IN
         /\ Context(b, d)
         /\ Len(c.disasmed) \in Nat /\ Len(d.disasmed) = Len(c.disasmed) + 1
         /\ \A n \in 1..Len(c.disasmed) : d.disasmed[n] = c.disasmed[n]
         /\ d.disasmed[Len(c.disasmed) + 1] = Decoded(eip)
<1> DEFINE d == Extended(b, c, eip)
           l == Len(c.disasmed)
           at == eip - b.va
<1>1. /\ d.indexes = [c.indexes EXCEPT ![at] = l]
      /\ d.disasmed = Append(c.disasmed, Decoded(eip))
      /\ d.lens = Append(c.lens, Length[bytes[eip]])
  BY DEF Extended, Position
<1>2. PICK S : c.disasmed \in Seq(S)
  BY DEF Context
<1>3. /\ \E T : d.disasmed \in Seq(T)
      /\ l \in Nat /\ Len(d.disasmed) = l + 1
      /\ \A n \in 1..l : d.disasmed[n] = c.disasmed[n]
      /\ d.disasmed[l + 1] = Decoded(eip)
  BY <1>1, <1>2, AppendGrows
<1>4. /\ d.lens \in Seq(Nat) /\ Len(d.lens) = l + 1
      /\ \A n \in 1..l : d.lens[n] = c.lens[n]
      /\ d.lens[l + 1] = Length[bytes[eip]]
  BY <1>1, AppendGrows DEF Context
<1>5. at \in 0..(b.size - 1) /\ b.va + at = eip
  BY AddressTypes, UnitPage DEF Block
<1>6. /\ d.indexes \in [0..(b.size - 1) -> Nat \cup {Absent}]
      /\ \A o \in 0..(b.size - 1) : d.indexes[o] = IF o = at THEN l ELSE c.indexes[o]
  BY <1>1, <1>3, <1>5 DEF Context
<1>7. \A n \in 1..(l + 1) : d.disasmed[n].at \in Units
  <2> SUFFICES ASSUME NEW n \in 1..(l + 1) PROVE d.disasmed[n].at \in Units
    OBVIOUS
  <2>1. CASE n = l + 1
    BY <1>3, <2>1, DecodedIs
  <2>2. CASE n \in 1..l
    BY <1>3, <2>2 DEF Context
  <2> QED
    BY <1>3, <2>1, <2>2
<1>8. ASSUME NEW o \in 0..(b.size - 1), d.indexes[o] # Absent
      PROVE  /\ d.indexes[o] + 1 \in 1..(l + 1)
             /\ d.disasmed[d.indexes[o] + 1].at = b.va + o
             /\ DOMAIN d.disasmed[d.indexes[o] + 1].units = 0..(d.lens[d.indexes[o] + 1] - 1)
  <2>1. CASE o = at
    <3>1. d.indexes[o] = l
      BY <1>6, <2>1
    <3>2. /\ d.disasmed[l + 1].at = b.va + at
          /\ DOMAIN d.disasmed[l + 1].units = 0..(d.lens[l + 1] - 1)
      BY <1>3, <1>4, <1>5, DecodedIs
    <3> HIDE DEF d
    <3> QED
      BY <1>3, <2>1, <3>1, <3>2
  <2>2. CASE o # at
    <3>1. d.indexes[o] = c.indexes[o]
      BY <1>6, <2>2
    <3>2. /\ c.indexes[o] + 1 \in 1..l
          /\ c.disasmed[c.indexes[o] + 1].at = b.va + o
          /\ DOMAIN c.disasmed[c.indexes[o] + 1].units = 0..(c.lens[c.indexes[o] + 1] - 1)
      BY <1>8, <3>1 DEF Context
    <3>3. c.indexes[o] + 1 \in 1..(l + 1)
      BY <1>3, <3>2
    <3>4. /\ d.disasmed[c.indexes[o] + 1] = c.disasmed[c.indexes[o] + 1]
          /\ d.lens[c.indexes[o] + 1] = c.lens[c.indexes[o] + 1]
      BY <1>3, <1>4, <3>2
    <3> HIDE DEF d
    <3> QED
      BY <3>1, <3>2, <3>3, <3>4
  <2> QED
    BY <2>1, <2>2
<1> HIDE DEF d, at
<1>9. Context(b, d)
  BY <1>3, <1>4, <1>6, <1>7, <1>8 DEF Context
<1> QED
  BY <1>3, <1>9 DEF d

\* What a fetch, which changes no memory, has to show.
LEMMA FetchKeeps ==
  ASSUME CacheInv, UNCHANGED <<vars, bytes, granted, tails, writes>>,
         Contexts', AllCurrent', op'.at \in Units, op'.len \in Nat
  PROVE  CacheInv'
<1>1. MapTypes' /\ Identified'
  BY DEF CacheInv, MapTypes, Identified, vars
<1>2. GrantedWritable' /\ GrantedMapped'
  BY DEF CacheInv, GrantedWritable, GrantedMapped, Loaded, Mapped, vars
<1>3. Scalars'
  BY DEF CacheInv, Scalars
<1> QED
  BY <1>1, <1>2, <1>3 DEF CacheInv

LEMMA FetchMissKeeps ==
  ASSUME CacheInv, NEW b \in blocks, NEW eip \in Units, FetchMiss(b, eip)
  PROVE  CacheInv'
<1> DEFINE c == ContextOf(b)
           d == Extended(b, c, eip)
<1>1. /\ b \in Block /\ b.va <= eip /\ eip < b.va + b.size
      /\ UNCHANGED <<vars, bytes, granted, tails, writes>>
      /\ SetContext(b, d) /\ Given(Decoded(eip), Length[bytes[eip]])
  BY DEF FetchMiss, Executes, Extended, CacheInv, MapTypes
<1>2. Length[bytes[eip]] \in Nat
  BY LengthAssumption DEF LengthAssumption, CacheInv, Scalars
<1>3. Context(b, c) /\ (b.id \in DOMAIN cache => c = cache[b.id])
                    /\ (b.id \notin DOMAIN cache => Len(c.disasmed) = 0)
  BY <1>1, EmptyContextIs DEF ContextOf, CacheInv, Contexts
<1>4. /\ Context(b, d)
      /\ Len(c.disasmed) \in Nat /\ Len(d.disasmed) = Len(c.disasmed) + 1
      /\ \A n \in 1..Len(c.disasmed) : d.disasmed[n] = c.disasmed[n]
      /\ d.disasmed[Len(c.disasmed) + 1] = Decoded(eip)
  BY <1>1, <1>2, <1>3, ExtendedIs, Zenon
<1> HIDE DEF c, d
<1>5. /\ DOMAIN cache' = DOMAIN cache \cup {b.id}
      /\ cache'[b.id] = d
      /\ \A i \in DOMAIN cache : i # b.id => cache'[i] = cache[i]
  BY <1>1 DEF SetContext
<1>6. blocks' = blocks /\ \A e \in blocks : e.id = b.id => e = b
  BY <1>1 DEF CacheInv, Identified, vars
<1>7. Contexts'
  <2>1. ASSUME NEW e \in blocks, e.id \in DOMAIN cache'
        PROVE  Context(e, cache'[e.id])
    BY <1>4, <1>5, <1>6, <2>1 DEF CacheInv, Contexts
  <2>2. DOMAIN cache' \subseteq {e.id : e \in blocks}
    BY <1>5 DEF CacheInv, Contexts
  <2> QED
    BY <1>6, <2>1, <2>2 DEF Contexts, Context
<1>8. AllCurrent'
  <2>1. \A i : Current(b, i)' <=> Current(b, i)
    BY <1>1 DEF Current, Resolves, NotWritable, Outdated, vars
  <2>2. \A i : \A e \in blocks : Current(e, i)' <=> Current(e, i)
    BY <1>1 DEF Current, Resolves, NotWritable, Outdated, vars
  <2>3. Current(b, Decoded(eip))
    BY DecodedIs DEF Current, Outdated
  <2>4. \A n \in 1..Len(c.disasmed) : Current(b, c.disasmed[n])
    BY <1>3 DEF CacheInv, AllCurrent
  <2>5. ASSUME NEW e \in blocks, e.id \in DOMAIN cache', NEW n \in 1..Len(cache'[e.id].disasmed)
        PROVE  Current(e, cache'[e.id].disasmed[n])
    <3>1. CASE e = b
      <4>1. n \in 1..Len(c.disasmed) \/ n = Len(c.disasmed) + 1
        BY <1>4, <1>5, <2>5, <3>1
      <4> QED
        BY <1>4, <1>5, <2>3, <2>4, <3>1, <4>1
    <3>2. CASE e # b
      BY <1>5, <1>6, <2>5, <3>2 DEF CacheInv, AllCurrent
    <3> QED
      BY <3>1, <3>2
  <2> QED
    BY <1>6, <2>2, <2>5 DEF AllCurrent
<1>9. op'.at \in Units /\ op'.len \in Nat
  BY <1>1, <1>2, DecodedIs DEF Given
<1> QED
  BY <1>1, <1>7, <1>8, <1>9, FetchKeeps

\* The cache and the memory it depends on stay.
LEMMA SameCacheKeeps ==
  ASSUME CacheInv, UNCHANGED <<blocks, shadow, rights, bytes, cache, tails>>
  PROVE  Contexts' /\ AllCurrent'
<1>1. Contexts'
  BY DEF CacheInv, Contexts, Context
<1>2. AllCurrent'
  BY DEF CacheInv, AllCurrent, Current, Resolves, NotWritable, Outdated
<1> QED
  BY <1>1, <1>2

LEMMA FetchHitKeeps ==
  ASSUME CacheInv, NEW b \in blocks, NEW eip \in Units, FetchHit(b, eip)
  PROVE  CacheInv'
<1> DEFINE c == ContextOf(b)
           i == IndexOf(b, eip) + 1
<1>1. /\ b \in Block /\ b.va <= eip /\ eip < b.va + b.size
      /\ UNCHANGED <<vars, bytes, cache, granted, tails, writes>>
      /\ c.indexes[eip - b.va] # Absent /\ i = c.indexes[eip - b.va] + 1
      /\ Given(c.disasmed[i], c.lens[i])
  BY DEF FetchHit, Executes, CacheInv, MapTypes, IndexOf
<1>2. Context(b, c)
  BY <1>1, EmptyContextIs DEF ContextOf, CacheInv, Contexts
<1>3. eip - b.va \in 0..(b.size - 1)
  BY <1>1, AddressTypes, UnitPage DEF Block
<1> HIDE DEF c
<1>4. i \in 1..Len(c.disasmed) /\ c.disasmed[i].at \in Units
  BY <1>1, <1>2, <1>3 DEF Context
<1>5. c.lens[i] \in Nat
  BY <1>2, <1>4 DEF Context
<1>6. op'.at \in Units /\ op'.len \in Nat
  BY <1>1, <1>4, <1>5 DEF Given
<1>7. Contexts' /\ AllCurrent'
  BY <1>1, SameCacheKeeps DEF vars
<1> QED
  BY <1>1, <1>6, <1>7, FetchKeeps

LEMMA FetchUncachedKeeps ==
  ASSUME CacheInv, NEW b \in blocks, NEW eip \in Units, FetchUncached(b, eip)
  PROVE  CacheInv'
<1>1. Length[bytes[eip]] \in Nat
  BY LengthAssumption DEF LengthAssumption, CacheInv, Scalars
<1>2. op'.at \in Units /\ op'.len \in Nat
  BY <1>1, DecodedIs DEF Given, FetchUncached
<1>3. UNCHANGED <<vars, bytes, cache, granted, tails, writes>>
  BY DEF FetchUncached
<1>4. Contexts' /\ AllCurrent'
  BY <1>3, SameCacheKeeps DEF vars
<1> QED
  BY <1>2, <1>3, <1>4, FetchKeeps

--------------------------------------------------------------------------------
(* Stores and changes of the memory map *)

\* A store changes one unit of a page that was granted: unless the page is the
\* last one of its range, its rights say so, and nothing kept there is current.
LEMMA StoreKeeps ==
  ASSUME CacheInv, NEW b \in blocks, NEW u \in Units, NEW e \in Encoding, Store(b, u, e)
  PROVE  CacheInv'
<1>1. /\ UNCHANGED <<vars, cache, op, granted, tails>>
      /\ bytes' = [bytes EXCEPT ![u] = e]
      /\ PageOf(u) \in granted /\ writes' = writes + 1 /\ writes < MaxWrites
  BY DEF Store
<1>2. MapTypes' /\ Identified' /\ GrantedWritable' /\ GrantedMapped'
  BY <1>1 DEF CacheInv, MapTypes, Identified, GrantedWritable, GrantedMapped, Loaded, Mapped, vars
<1>3. /\ bytes' \in [Units -> Encoding]
      /\ \A x : x # u => bytes'[x] = bytes[x]
  BY <1>1 DEF CacheInv, Scalars
<1>4. Scalars'
  BY <1>1, <1>3, WritesAssumption DEF WritesAssumption, CacheInv, Scalars
<1>5. Contexts'
  BY <1>1 DEF CacheInv, Contexts, Context, vars
<1>6. AllCurrent'
  <2> SUFFICES ASSUME NEW d \in blocks, d.id \in DOMAIN cache,
                      NEW n \in 1..Len(cache[d.id].disasmed)
               PROVE  Current(d, cache[d.id].disasmed[n])'
    BY <1>1 DEF AllCurrent, vars
  <2> PICK i : i = cache[d.id].disasmed[n]
    OBVIOUS
  <2>1. Current(d, i)
    BY DEF CacheInv, AllCurrent
  <2> SUFFICES ASSUME Resolves(d, PageOf(i.at)), NotWritable(i.at), NEW o \in DOMAIN i.units,
                      Outdated(i, o)', PageOf(i.at + o) \notin tails
               PROVE  PageOf(i.at + o) # PageOf(i.at)
    BY <1>1 DEF Current, Resolves, NotWritable, vars
  <2>2. CASE i.at + o = u
    BY <1>1, <2>2 DEF CacheInv, GrantedWritable, NotWritable
  <2>3. CASE i.at + o # u
    BY <1>3, <2>1, <2>3 DEF Current, Outdated
  <2> QED
    BY <2>2, <2>3
<1> QED
  BY <1>2, <1>4, <1>5, <1>6 DEF CacheInv

\* A step of the memory map that keeps its own types and takes nothing the
\* cache holds out of the array of blocks.
LEMMA ContextsKept ==
  ASSUME CacheInv, blocks \subseteq blocks', \A b \in blocks' \ blocks : b.id = serial,
         DOMAIN cache' \subseteq DOMAIN cache, \A i \in DOMAIN cache' : cache'[i] = cache[i]
  PROVE  /\ Contexts'
         /\ \A b \in blocks' : b.id \in DOMAIN cache' => b \in blocks /\ b.id \in DOMAIN cache
<1>1. \A i \in DOMAIN cache : i # serial
  BY DEF CacheInv, Contexts, MapTypes, Block
<1>2. \A b \in blocks' : b.id \in DOMAIN cache' => b \in blocks /\ b.id \in DOMAIN cache
  BY <1>1
<1>3. Contexts'
  <2>1. DOMAIN cache' \subseteq {b.id : b \in blocks'}
    BY DEF CacheInv, Contexts
  <2>2. ASSUME NEW b \in blocks', b.id \in DOMAIN cache' PROVE Context(b, cache'[b.id])
    BY <1>2, <2>2 DEF CacheInv, Contexts
  <2> QED
    BY <2>1, <2>2 DEF Contexts, Context
<1> QED
  BY <1>2, <1>3

\* An instruction goes on being current when no page gains a block that is kept
\* or loses the right to write, and no unit changes.
LEMMA CurrentKept ==
  ASSUME CacheInv, bytes' = bytes, tails \subseteq tails',
         DOMAIN cache' \subseteq DOMAIN cache, \A i \in DOMAIN cache' : cache'[i] = cache[i],
         \A b \in blocks' : b.id \in DOMAIN cache' => b \in blocks /\ b.id \in DOMAIN cache,
         \A p \in Pages : shadow'[p] \in DOMAIN cache' =>
           /\ shadow'[p] = shadow[p]
           /\ "Write" \in rights[p] => "Write" \in rights'[p]
  PROVE  AllCurrent'
<1> SUFFICES ASSUME NEW b \in blocks, b.id \in DOMAIN cache', b.id \in DOMAIN cache,
                    NEW n \in 1..Len(cache[b.id].disasmed)
             PROVE  Current(b, cache[b.id].disasmed[n])'
  BY DEF AllCurrent
<1> PICK i : i = cache[b.id].disasmed[n]
  OBVIOUS
<1>1. Current(b, i) /\ i.at \in Units
  BY DEF CacheInv, AllCurrent, Contexts, Context
<1>2. cache'[b.id].disasmed[n] = i
  OBVIOUS
<1>3. PageOf(i.at) \in Pages
  BY <1>1, UnitPage
<1>4. Resolves(b, PageOf(i.at))' /\ NotWritable(i.at)'
      => Resolves(b, PageOf(i.at)) /\ NotWritable(i.at)
  BY <1>3 DEF Resolves, NotWritable
<1>5. \A o : Outdated(i, o)' <=> Outdated(i, o)
  BY DEF Outdated
<1> QED
  BY <1>1, <1>2, <1>4, <1>5 DEF Current

\* Pages that are granted, and the ones that cannot be relied on, after a Grant.
LEMMA GrantIs ==
  ASSUME Scalars, NEW va, NEW size, Grant(va, size), UNCHANGED <<bytes, op, writes>>
  PROVE  Scalars' /\ tails \subseteq tails'
  BY DEF Grant, Scalars, Covered

\* The rights that are set are those of the pages of the range but the last.
LEMMA GrantedRange ==
  ASSUME NEW va \in Nat, NEW size \in Nat
  PROVE  /\ \A p \in Protected(va, size) : p \in Covered(va, size)
         /\ \A p \in Covered(va, size) : p = PageOf(Last(va, size)) \/ p \in Protected(va, size)
<1>1. Last(va, size) \in Int
  BY AddressTypes, Z3 DEF Last
<1>2. PICK q \in Int : q = PageOf(Last(va, size))
  BY <1>1, PageBounds
<1> QED
  BY <1>2, AddressTypes DEF Protected, Covered, Pages

\* A block the image, the guest or a proxy was given: the guest may write it
\* when its mode says so; a mode without that right is the image's.
LEMMA AppendKeeps ==
  ASSUME CacheInv, MapTypes',
         NEW va \in Nat, NEW size \in Nat, NEW mode \in Mode, AppendMemoryBlock(va, size, mode),
         IF "Write" \in mode THEN Grant(va, size) ELSE ~ Loaded /\ UNCHANGED <<granted, tails>>,
         DOMAIN cache' \subseteq DOMAIN cache, \A i \in DOMAIN cache' : cache'[i] = cache[i],
         UNCHANGED <<bytes, op, writes>>
  PROVE  CacheInv'
<1> DEFINE nb == [id |-> serial, va |-> va, size |-> size]
<1>1. /\ blocks' = blocks \cup {nb} /\ nb.id = serial
      /\ \A p \in Covered(va, size) : shadow[p] = None
      /\ \A p \in Pages : shadow'[p] = IF p \in Covered(va, size) THEN serial ELSE shadow[p]
      /\ \A p \in Pages : rights'[p] = IF p \in Protected(va, size) THEN mode ELSE rights[p]
  BY DEF AppendMemoryBlock, Free, SetAccessMode
<1>2. /\ \A p \in Protected(va, size) : p \in Covered(va, size)
      /\ \A p \in Covered(va, size) : p = PageOf(Last(va, size)) \/ p \in Protected(va, size)
  BY GrantedRange
<1> HIDE DEF nb
<1>3. serial \in Nat \ {0} /\ serial \notin DOMAIN cache /\ \A b \in blocks : b.id # serial
  BY DEF CacheInv, MapTypes, Contexts, Block
<1>4. Identified'
  BY <1>1, <1>3 DEF CacheInv, Identified
<1>5. Scalars' /\ tails \subseteq tails'
  BY GrantIs DEF CacheInv, Scalars
<1>6. /\ Contexts'
      /\ \A b \in blocks' : b.id \in DOMAIN cache' => b \in blocks /\ b.id \in DOMAIN cache
  BY <1>1, ContextsKept
<1>7. ~ Loaded => \A p \in granted : shadow[p] # None
  BY DEF CacheInv, GrantedMapped
<1>8. AllCurrent'
  <2>1. ASSUME NEW p \in Pages, shadow'[p] \in DOMAIN cache'
        PROVE  shadow'[p] = shadow[p] /\ rights'[p] = rights[p]
    BY <1>1, <1>2, <1>3, <2>1
  <2> QED
    BY <1>5, <1>6, <2>1, CurrentKept
<1>9. GrantedWritable'
  <2> SUFFICES ASSUME NEW p \in granted', p \notin tails' PROVE "Write" \in rights'[p]
    BY DEF GrantedWritable
  <2>1. p \in Pages /\ (p \in granted => p \notin tails /\ "Write" \in rights[p])
    BY <1>5 DEF CacheInv, GrantedWritable, Scalars
  <2>2. CASE "Write" \in mode
    <3>1. p \in granted \/ p \in Covered(va, size) \ {PageOf(Last(va, size))}
      BY <2>2 DEF Grant
    <3>2. CASE p \in Covered(va, size) \ {PageOf(Last(va, size))}
      <4>1. p \in Protected(va, size)
        BY <1>2, <3>2
      <4> QED
        BY <1>1, <2>1, <2>2, <4>1
    <3>3. CASE p \in granted
      BY <1>1, <2>1, <2>2, <3>3
    <3> QED
      BY <3>1, <3>2, <3>3
  <2>3. CASE "Write" \notin mode
    <3>1. p \in granted /\ shadow[p] # None
      BY <1>7, <2>3
    <3>2. p \notin Protected(va, size)
      BY <1>1, <1>2, <3>1
    <3> QED
      BY <1>1, <2>1, <3>1, <3>2
  <2> QED
    BY <2>2, <2>3
<1>10. GrantedMapped'
  <2>1. Loaded => Loaded'
    BY <1>1 DEF Loaded, Mapped
  <2>2. ASSUME ~ Loaded, NEW p \in granted' PROVE shadow'[p] # None
    <3>1. p \in Pages /\ (p \in granted \/ p \in Covered(va, size))
      BY <1>5 DEF Grant, Scalars
    <3> QED
      BY <1>1, <1>3, <1>7, <2>2, <3>1 DEF None
  <2> QED
    BY <2>1, <2>2 DEF GrantedMapped
<1> QED
  BY <1>4, <1>5, <1>6, <1>8, <1>9, <1>10 DEF CacheInv

LEMMA ReleaseKeeps ==
  ASSUME CacheInv, MapTypes', NEW b \in blocks, Unmap(b)
  PROVE  CacheInv'
<1>1. /\ UNCHANGED <<blocks, rights, cacheVars>> /\ Ready
      /\ \A p \in Pages : shadow'[p] \in {None, shadow[p]}
  BY DEF Unmap, Release, CacheInv, MapTypes
<1>2. Identified' /\ Scalars' /\ GrantedWritable' /\ GrantedMapped'
  BY <1>1 DEF CacheInv, Identified, Scalars, GrantedWritable, GrantedMapped,
              Ready, Loaded, Mapped, cacheVars
<1>3. Contexts'
  BY <1>1 DEF CacheInv, Contexts, Context, cacheVars
<1>4. AllCurrent'
  <2>1. None \notin DOMAIN cache
    BY DEF CacheInv, MapTypes, Contexts, Block, None
  <2> QED
    BY <1>1, <2>1, CurrentKept DEF cacheVars
<1> QED
  BY <1>2, <1>3, <1>4 DEF CacheInv

LEMMA MakeWritableKeeps ==
  ASSUME CacheInv, MapTypes', NEW a \in Units, NEW size \in Nat, MakeWritable(a, size)
  PROVE  CacheInv'
<1>1. /\ UNCHANGED <<blocks, shadow, bytes, op, writes>> /\ Ready
      /\ \A p \in Pages : rights'[p] = IF p \in Protected(a, size) THEN RWX ELSE rights[p]
      /\ Grant(a, size)
      /\ DOMAIN cache' \subseteq DOMAIN cache /\ \A i \in DOMAIN cache' : cache'[i] = cache[i]
  BY DEF MakeWritable, VirtualProtect, SetAccessMode, DropContext
<1>2. /\ \A p \in Pages : "Write" \in rights[p] => "Write" \in rights'[p]
      /\ \A p \in Protected(a, size) : "Write" \in rights'[p]
  BY <1>1 DEF RWX, Protected
<1>3. Scalars' /\ tails \subseteq tails'
  BY <1>1, GrantIs DEF CacheInv
<1>4. Identified' /\ GrantedMapped'
  BY <1>1 DEF CacheInv, Identified, GrantedMapped, Ready, Loaded, Mapped
<1>5. /\ Contexts'
      /\ \A b \in blocks' : b.id \in DOMAIN cache' => b \in blocks /\ b.id \in DOMAIN cache
  BY <1>1, ContextsKept
<1>6. AllCurrent'
  BY <1>1, <1>2, <1>3, <1>5, CurrentKept
<1>7. GrantedWritable'
  <2>1. \A p \in Covered(a, size) : p = PageOf(Last(a, size)) \/ p \in Protected(a, size)
    BY UnitPage, GrantedRange
  <2> SUFFICES ASSUME NEW p \in granted', p \notin tails' PROVE "Write" \in rights'[p]
    BY DEF GrantedWritable
  <2>2. p \in Pages /\ (p \in granted \/ p \in Protected(a, size))
    BY <1>1, <1>3, <2>1 DEF Grant, Scalars
  <2>3. p \in granted => "Write" \in rights[p]
    BY <1>3 DEF CacheInv, GrantedWritable
  <2> QED
    BY <1>2, <2>2, <2>3
<1> QED
  BY <1>3, <1>4, <1>5, <1>6, <1>7 DEF CacheInv

LEMMA AbortKeeps ==
  ASSUME CacheInv, NEW why, Abort(why), UNCHANGED cacheVars
  PROVE  CacheInv'
<1>1. MapTypes' /\ Identified' /\ Scalars' /\ GrantedWritable' /\ GrantedMapped'
  BY DEF Abort, CacheInv, MapTypes, Identified, Scalars, GrantedWritable, GrantedMapped,
         Loaded, Mapped, cacheVars
<1>2. Contexts' /\ AllCurrent'
  BY SameCacheKeeps DEF Abort, cacheVars
<1> QED
  BY <1>1, <1>2 DEF CacheInv

\* The steps the cache shares with the memory map keep its types.
LEMMA MapTypesStep ==
  ASSUME MapTypes, status = "running", Next
  PROVE  MapTypes'
<1>1. TypeOK
  BY DEF MapTypes, TypeOK, Outcome
<1> QED
  BY <1>1, TypeStep DEF MapTypes, TypeOK

LEMMA CacheStep == CacheInv /\ [CacheNext]_allVars => CacheInv'
<1> SUFFICES ASSUME CacheInv, [CacheNext]_allVars PROVE CacheInv'
  OBVIOUS
<1>m. MapTypes
  BY DEF CacheInv
<1>1. ASSUME NEW r \in Image, MapSection(r) PROVE CacheInv'
  <2>1. r.va \in Nat /\ r.size \in Nat /\ r.mode \in Mode
    BY ImageAssumption DEF ImageAssumption
  <2>2. MapTypes'
    BY <1>1, <1>m, MapTypesStep DEF MapSection, Load, Next
  <2>3. ~ Loaded /\ AppendMemoryBlock(r.va, r.size, r.mode) /\ UNCHANGED cache
    BY <1>1 DEF MapSection, Load, Loaded
  <2>4. /\ IF "Write" \in r.mode THEN Grant(r.va, r.size) ELSE UNCHANGED <<granted, tails>>
        /\ UNCHANGED <<bytes, op, writes>>
    BY <1>1 DEF MapSection
  <2> QED
    BY <2>1, <2>2, <2>3, <2>4, AppendKeeps
<1>s. Sizes \subseteq Nat /\ RW \in Mode /\ "Write" \in RW
  BY SizesAssumption, AddressTypes DEF SizesAssumption, RW, Mode
<1>2. ASSUME NEW size \in Sizes, Allocate(size) PROVE CacheInv'
  <2>1. PICK a \in Candidates : AppendMemoryBlock(a, size, RW)
    BY <1>2 DEF Allocate, Malloc, Search
  <2>2. a \in Nat
    BY <1>m, CandidateType, AddressTypes DEF MapTypes
  <2>3. MapTypes'
    BY <1>2, <1>m, MapTypesStep DEF Allocate, Malloc, Search, CanAllocate, Ready, AllocModes, Next
  <2>4. PICK b \in blocks' \ blocks : DropContext(b.va) /\ Grant(b.va, size)
    BY <1>2 DEF Allocate
  <2>5. b.va = a
    BY <2>1, <2>4 DEF AppendMemoryBlock
  <2>6. /\ DOMAIN cache' \subseteq DOMAIN cache /\ \A i \in DOMAIN cache' : cache'[i] = cache[i]
        /\ UNCHANGED <<bytes, op, writes>>
    BY <1>2, <2>4 DEF Allocate, DropContext
  <2> QED
    BY <1>s, <2>1, <2>2, <2>3, <2>4, <2>5, <2>6, AppendKeeps
<1>3. ASSUME NEW size \in Sizes, AllocateFixed(size) PROVE CacheInv'
  <2>1. AppendMemoryBlock(Fixed, size, RW) /\ Grant(Fixed, size)
    BY <1>3 DEF AllocateFixed, VirtualAllocFirst
  <2>2. Fixed \in Nat
    BY FixedAssumption DEF FixedAssumption
  <2>3. MapTypes'
    BY <1>3, <1>m, MapTypesStep DEF AllocateFixed, VirtualAllocFirst, CanAllocate, Ready, Next
  <2>4. /\ DOMAIN cache' \subseteq DOMAIN cache /\ \A i \in DOMAIN cache' : cache'[i] = cache[i]
        /\ UNCHANGED <<bytes, op, writes>>
    BY <1>3 DEF AllocateFixed, DropContext
  <2> QED
    BY <1>s, <2>1, <2>2, <2>3, <2>4, AppendKeeps
<1>4. ASSUME NEW b \in blocks, Unmap(b) PROVE CacheInv'
  <2>1. MapTypes'
    BY <1>4, <1>m, MapTypesStep DEF Unmap, Release, Ready, Next
  <2> QED
    BY <1>4, <2>1, ReleaseKeeps
<1>5. ASSUME NEW a \in Units, NEW size \in Sizes, MakeWritable(a, size) PROVE CacheInv'
  <2>1. MapTypes'
    BY <1>5, <1>m, MapTypesStep DEF MakeWritable, VirtualProtect, Ready, Next, Units
  <2> QED
    BY <1>5, <1>s, <2>1, MakeWritableKeeps
<1>6. ASSUME NEW b \in blocks, NEW u \in Units,
             \/ FetchMiss(b, u)
             \/ FetchHit(b, u)
             \/ FetchUncached(b, u)
             \/ FetchUnknown(b, u)
             \/ \E e \in Encoding : Store(b, u, e)
      PROVE  CacheInv'
  BY <1>6, FetchMissKeeps, FetchHitKeeps, FetchUncachedKeeps, AbortKeeps, StoreKeeps
     DEF FetchUnknown
<1>7. ASSUME NEW u \in Units, FetchUnmapped(u) PROVE CacheInv'
  BY <1>7, AbortKeeps DEF FetchUnmapped
<1>8. CASE UNCHANGED allVars
  <2>1. UNCHANGED <<vars, cacheVars>>
    BY <1>8 DEF allVars
  <2>2. MapTypes' /\ Identified' /\ Scalars' /\ GrantedWritable' /\ GrantedMapped'
    BY <2>1 DEF CacheInv, MapTypes, Identified, Scalars, GrantedWritable, GrantedMapped,
                Loaded, Mapped, vars, cacheVars
  <2>3. Contexts' /\ AllCurrent'
    BY <2>1, SameCacheKeeps DEF vars, cacheVars
  <2> QED
    BY <2>2, <2>3 DEF CacheInv
<1> QED
  BY <1>1, <1>2, <1>3, <1>4, <1>5, <1>6, <1>7, <1>8 DEF CacheNext

LEMMA CacheInvHolds == CacheSpec => []CacheInv
  BY CacheInitInv, CacheStep, PTL DEF CacheSpec

--------------------------------------------------------------------------------
(* Theorems *)

\* The contexts keep their types: every block that has one exists, and what the
\* interpreter is given was decoded at an address of the map.
THEOREM CacheTypeCorrect == CacheSpec => []CacheTypeOK
  BY CacheInvHolds, InvSays, PTL

\* beu_update_disasm_from_context never hands out the instruction of another
\* address, nor the length of another instruction, however often a context
\* grows, is dropped with a change of access and is begun again.
THEOREM ContextsStayAligned == CacheSpec => []ContextAligned
  BY CacheInvHolds, InvSays, PTL

\* Rewritten code is decoded anew, whatever is mapped, granted and stored in
\* between, but in the last page of a granted range and past the end of a page.
THEOREM RewritesAreSeen == CacheSpec => []StaleOnlyAtEdges
  BY CacheInvHolds, InvSays, PTL
================================================================================
