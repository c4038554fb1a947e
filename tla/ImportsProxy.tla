----------------------------- MODULE ImportsProxy ------------------------------
(***************************************************************************)
(* How a guest reaches the proxies: FEImportsProxy.m links the import      *)
(* table of the executable and, for LoadLibraryA, all functions of a DLL,  *)
(* to addresses in blocks of their own; a call to such an address runs the *)
(* proxy function instead of guest code.                                   *)
(*                                                                         *)
(* One address unit is one four-byte link.  Blocks come from               *)
(* fe_memoryMap_malloc: the first fit search never reuses an address, so a *)
(* DLL loaded again lies above its first copy (MemoryMap, Disjoint).       *)
(***************************************************************************)
EXTENDS Integers, Sequences, FiniteSets

CONSTANTS
  Proxies,    \* DLL name -> the functions its registered proxy implements
  Imports,    \* the <<dll, function>> pairs the executable imports
  BlockSpan,  \* address units from one block to the next
  MaxLoads,   \* bound: libraries a behaviour loads
  MaxProcs    \* bound: answers of GetProcAddress the guest keeps

VARIABLES
  links,    \* _addrToFunction: address -> <<dll, function>>
  blocks,   \* the link blocks of the memory map, lowest first: [tag, lo, hi]
  imported, \* _dynamicImportMemoryBlocks and the static one, as a set of blocks
  procs,    \* what GetProcAddress told the guest: [addr, link, loads]
  status    \* "running", or what stopped the emulator

importVars == <<links, blocks, imported, procs>>

Static == "static imports"

ASSUME ImportsAssumption ==
  /\ IsFiniteSet(Imports) /\ Cardinality(Imports) < BlockSpan
  /\ BlockSpan \in Nat \ {0} /\ MaxLoads \in Nat /\ MaxProcs \in Nat
  /\ \A d \in DOMAIN Proxies :
       Proxies[d] # {} /\ IsFiniteSet(Proxies[d]) /\ Cardinality(Proxies[d]) < BlockSpan

\* A new block of n links: above every block there is.
NewBlock(tag, n) ==
  LET lo == BlockSpan * (Len(blocks) + 1) IN [tag |-> tag, lo |-> lo, hi |-> lo + n]

\* fe_memoryMap_blockWithTag: the first block of the array with that tag.
BlockWithTag(bs, tag) ==
  bs[CHOOSE i \in DOMAIN bs :
       bs[i].tag = tag /\ \A j \in DOMAIN bs : bs[j].tag = tag => i <= j]

ContainsVirtualAddressInside(b, a) == b.lo < a /\ a < b.hi     \* a slip for the next definition
ContainsVirtualAddress(b, a) == b.lo <= a /\ a < b.hi
IsAddressWithinLoadedImports(a) == \E b \in imported : ContainsVirtualAddress(b, a)

Loads(dll) == Cardinality({i \in DOMAIN blocks : blocks[i].tag = dll})

\* Which function has which link is up to the enumeration of a dictionary.
LinksOf(lo, targets) ==
  {f \in [lo..(lo + Cardinality(targets) - 1) -> targets] :
     \A t \in targets : \E a \in DOMAIN f : f[a] = t}

ImportsInit ==
  LET static == [tag |-> Static, lo |-> BlockSpan, hi |-> BlockSpan + Cardinality(Imports)] IN
  /\ blocks = <<static>>
  /\ imported = {static}
  /\ links \in LinksOf(BlockSpan, Imports)
  /\ procs = {}
  /\ status = "running"

Stops(why) == status' = why /\ UNCHANGED importVars

LoadUnknown(dll) == dll \notin DOMAIN Proxies /\ Stops("no proxy")

LoadLibraryNamed(dll) ==
  /\ dll \in DOMAIN Proxies
  /\ LET targets == {<<dll, f>> : f \in Proxies[dll]}
         b == NewBlock(dll, Cardinality(targets)) IN
     /\ blocks' = Append(blocks, b)
     /\ imported' = imported \cup {BlockWithTag(blocks', dll)}
     /\ \E new \in LinksOf(b.lo, targets) :
          links' = [a \in DOMAIN links \cup DOMAIN new |->
                      IF a \in DOMAIN new THEN new[a] ELSE links[a]]
  /\ UNCHANGED <<procs, status>>

\* The DLLs and functions anything names.
Libraries == DOMAIN Proxies \cup {t[1] : t \in Imports}
Functions == UNION {Proxies[d] : d \in DOMAIN Proxies} \cup {t[2] : t \in Imports}

\* The addresses that addressOfFunction may return, in any order.
AddressesOf(dll, f) == {a \in DOMAIN links : links[a] = <<dll, f>>}

AddressOfFunction(dll, f) ==
  /\ \E a \in AddressesOf(dll, f) :
       procs' = procs \cup {[addr |-> a, link |-> <<dll, f>>, loads |-> Loads(dll)]}
  /\ UNCHANGED <<links, blocks, imported, status>>

AddressOfUnknown(dll, f) == AddressesOf(dll, f) = {} /\ Stops("not imported")

\* What guest code can call: the links in its import table, and those it asked for.
Callable == blocks[1].lo..(blocks[1].hi - 1) \cup {p.addr : p \in procs}

\* instruction_ff: a call to an address outside the link blocks runs whatever
\* is there as guest code; no instruction is.
ExecuteFunctionAtAddress(a) ==
  IF ~ IsAddressWithinLoadedImports(a) THEN Stops("ran a link as code")
  ELSE LET target == links[a] IN
       IF target[1] \in DOMAIN Proxies /\ target[2] \in Proxies[target[1]] THEN UNCHANGED <<importVars, status>>
       ELSE Stops("no implementation")

--------------------------------------------------------------------------------
(* Properties *)

Reaches(p) == IsAddressWithinLoadedImports(p.addr) /\ links[p.addr] = p.link

\* Every address GetProcAddress told the guest goes on running the function it
\* asked for, whatever is loaded later.  One exception: a DLL that was already
\* loaded twice when the guest asked.  blockWithTag then found its first block
\* again, and the links of the second are taken for guest code.
ProcsReach == \A p \in procs : p.loads <= 1 => Reaches(p)
================================================================================
