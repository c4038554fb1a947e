------------------------------ MODULE DisasmCache ------------------------------
(***************************************************************************)
(* The cache of decoded instructions: beu_update_disasm_from_context of     *)
(* beaengine_utils.m, its invalidation in memoryMapAccessModeChange of      *)
(* FEProcess.m, and the guest code that runs and is rewritten over the      *)
(* memory of MemoryMap.                                                     *)
(*                                                                         *)
(* A unit of memory holds an encoding, which decides how long the           *)
(* instruction starting there is.  Every block gets a context (indexes,     *)
(* disasmed, lens) at the first fetch from a page that is not writable and  *)
(* keeps it until an access mode change drops it.                           *)
(***************************************************************************)
EXTENDS MemoryMap, Sequences

CONSTANTS
  Length,     \* encoding -> units of its instruction; 0: the decoder knows none
  Blank,      \* the encoding fresh memory holds
  MaxWrites   \* bound: stores into memory that may hold code

VARIABLES
  bytes,     \* unit -> the encoding it holds
  cache,     \* block id -> its context, for the blocks that have one
  op,        \* the instruction the interpreter was given: its address, its len
  granted,   \* pages Windows lets the guest write (not kept by the code)
  tails,     \* last pages of the ranges that were granted (not kept by the code)
  writes     \* number of stores so far

cacheVars == <<bytes, cache, op, granted, tails, writes>>
allVars == <<vars, cacheVars>>

Units == 0..(MapSize - 1)
Encoding == DOMAIN Length
Absent == -1

ASSUME LengthAssumption == Length \in [Encoding -> Nat] /\ Blank \in Encoding
ASSUME WritesAssumption == MaxWrites \in Nat

--------------------------------------------------------------------------------
(* Fetching *)

\* memset(context->indexes, -1, size_of_indexes), no instruction yet
EmptyContextLong(b) ==
  [indexes |-> [o \in 0..b.size |-> Absent], disasmed |-> <<>>, lens |-> <<>>]
EmptyContext(b) ==
  [indexes |-> [o \in 0..(b.size - 1) |-> Absent], disasmed |-> <<>>, lens |-> <<>>]
ContextOf(b) == IF b.id \in DOMAIN cache THEN cache[b.id] ELSE EmptyContext(b)
SetContext(b, context) ==
  cache' = [i \in DOMAIN cache \cup {b.id} |-> IF i = b.id THEN context ELSE cache[i]]

\* What the decoder makes of the units at eip.
Decoded(eip) ==
  [at |-> eip, units |-> [o \in 0..(Length[bytes[eip]] - 1) |-> bytes[eip + o]]]
Given(instruction, len) == op' = [at |-> instruction.at, len |-> len]

\* The guest runs instructions that lie in one block it holds.
Executes(b, eip) ==
  /\ Ready
  /\ b.va # 0 /\ b.id \notin released
  /\ Resolves(b, PageOf(eip))
  /\ b.va <= eip /\ eip + Length[bytes[eip]] <= b.va + b.size /\ eip < b.va + b.size

Executable(eip) == "Execute" \in rights[PageOf(eip)]
NotWritable(eip) == "Write" \notin rights[PageOf(eip)]
IndexOf(b, eip) == ContextOf(b).indexes[eip - b.va]

\* The position of a new instruction is the size of disasmed before it grows.
PositionAfter(context) == Len(context.disasmed) + 1
Position(context) == Len(context.disasmed)

FetchMiss(b, eip) ==
  LET context == ContextOf(b) IN
  /\ Executes(b, eip) /\ Length[bytes[eip]] # 0
  /\ NotWritable(eip) /\ IndexOf(b, eip) = Absent
  /\ SetContext(b, [indexes |-> [context.indexes EXCEPT ![eip - b.va] = Position(context)],
                    disasmed |-> Append(context.disasmed, Decoded(eip)),
                    lens |-> Append(context.lens, Length[bytes[eip]])])
  /\ Given(Decoded(eip), Length[bytes[eip]])
  /\ UNCHANGED <<vars, bytes, granted, tails, writes>>

FetchHit(b, eip) ==
  LET context == ContextOf(b)
      i == IndexOf(b, eip) + 1
  IN
  /\ Executes(b, eip)
  /\ NotWritable(eip) /\ IndexOf(b, eip) # Absent
  /\ Given(context.disasmed[i], context.lens[i])
  /\ UNCHANGED <<vars, bytes, cache, granted, tails, writes>>

\* Pages that are writable are decoded anew into the static dummyOp.
FetchUncached(b, eip) ==
  /\ Executes(b, eip) /\ Length[bytes[eip]] # 0
  /\ ~ NotWritable(eip)
  /\ Given(Decoded(eip), Length[bytes[eip]])
  /\ UNCHANGED <<vars, bytes, cache, granted, tails, writes>>

\* UNKNOWN_OPCODE ends the emulator, unless a decoded instruction is cached.
FetchUnknown(b, eip) ==
  /\ Executes(b, eip) /\ Length[bytes[eip]] = 0
  /\ NotWritable(eip) => IndexOf(b, eip) = Absent
  /\ Abort("unknown opcode")
  /\ UNCHANGED cacheVars

\* assert(memoryMapBlock)
FetchUnmapped(eip) ==
  /\ Ready
  /\ shadow[PageOf(eip)] = None
  /\ Abort("no block at eip")
  /\ UNCHANGED cacheVars

--------------------------------------------------------------------------------
(* Memory changes; the ones that stop the emulator are in MemoryMap only *)

\* memoryMapAccessModeChange: the context of the block at the first address of
\* the range is freed.
DropContext(address) ==
  cache' = [i \in DOMAIN cache \ {shadow'[PageOf(address)]} |-> cache[i]]

Grant(va, size) ==
  /\ granted' = granted \cup Covered(va, size)
  /\ tails' = tails \cup {p \in Covered(va, size) : p = PageOf(Last(va, size))}

\* The callback is installed once the image is mapped.
MapSection(r) ==
  /\ Load(r)
  /\ IF "Write" \in r.mode THEN Grant(r.va, r.size) ELSE UNCHANGED <<granted, tails>>
  /\ UNCHANGED <<bytes, cache, op, writes>>

\* VirtualAlloc after the first: memory is asked for as PAGE_EXECUTE_READWRITE.
Allocate(size) ==
  /\ size # 0 /\ ~ fixedNext
  /\ Malloc(size, RW)
  /\ \E b \in blocks' \ blocks : DropContext(b.va) /\ Grant(b.va, size)
  /\ UNCHANGED <<bytes, op, writes>>

AllocateFixed(size) ==
  /\ VirtualAllocFirst(size)
  /\ DropContext(Fixed) /\ Grant(Fixed, size)
  /\ UNCHANGED <<bytes, op, writes>>

Unmap(b) ==
  /\ Release(b)
  /\ UNCHANGED cacheVars

MakeWritable(a, size) ==
  /\ VirtualProtect(a, size)
  /\ DropContext(a) /\ Grant(a, size)
  /\ UNCHANGED <<bytes, op, writes>>

\* The setValue and memcpy functions do not look at the rights: what keeps the
\* guest off read-only pages is that it was written for Windows.
Store(b, u, e) ==
  /\ Ready /\ writes < MaxWrites
  /\ b.id \notin released /\ Resolves(b, PageOf(u)) /\ b.va <= u /\ u < b.va + b.size
  /\ PageOf(u) \in granted
  /\ e # bytes[u]
  /\ bytes' = [bytes EXCEPT ![u] = e]
  /\ writes' = writes + 1
  /\ UNCHANGED <<vars, cache, op, granted, tails>>

--------------------------------------------------------------------------------
CacheInit ==
  /\ Init
  /\ bytes = [u \in Units |-> Blank]
  /\ cache = <<>>
  /\ op = [at |-> Absent, len |-> 0]
  /\ granted = {} /\ tails = {}
  /\ writes = 0

CacheNext ==
  \/ \E r \in Image : MapSection(r)
  \/ \E size \in Sizes : Allocate(size) \/ AllocateFixed(size)
  \/ \E b \in blocks : Unmap(b)
  \/ \E a \in Units, size \in Sizes : MakeWritable(a, size)
  \/ \E b \in blocks, u \in Units :
       \/ FetchMiss(b, u) \/ FetchHit(b, u) \/ FetchUncached(b, u) \/ FetchUnknown(b, u)
       \/ \E e \in Encoding : Store(b, u, e)
  \/ \E u \in Units : FetchUnmapped(u)

CacheSpec == CacheInit /\ [][CacheNext]_allVars

--------------------------------------------------------------------------------
(* Properties *)

\* Type invariant.
CacheTypeOK ==
  /\ bytes \in [Units -> Encoding]
  /\ DOMAIN cache \subseteq {b.id : b \in blocks}
  /\ \A b \in blocks : b.id \in DOMAIN cache =>
       /\ cache[b.id].indexes \in [0..(b.size - 1) -> Nat \cup {Absent}]
       /\ \A i \in DOMAIN cache[b.id].disasmed : cache[b.id].disasmed[i].at \in Units
       /\ cache[b.id].lens \in Seq(Nat)
  /\ op.at \in Units \cup {Absent} /\ op.len \in Nat
  /\ granted \subseteq Pages /\ tails \subseteq granted
  /\ writes \in 0..MaxWrites

\* The three arrays of a context agree: an index that is set leads to an
\* instruction decoded at that very address, and to its own length.
ContextAligned ==
  \A b \in blocks : b.id \in DOMAIN cache =>
    LET c == cache[b.id] IN
    /\ Len(c.disasmed) = Len(c.lens)
    /\ \A o \in DOMAIN c.indexes : c.indexes[o] # Absent =>
         /\ c.indexes[o] + 1 \in DOMAIN c.disasmed
         /\ c.disasmed[c.indexes[o] + 1].at = b.va + o
         /\ DOMAIN c.disasmed[c.indexes[o] + 1].units = 0..(c.lens[c.indexes[o] + 1] - 1)

\* The unit at offset o of a cached instruction changed since it was decoded.
Outdated(i, o) == bytes[i.at + o] # i.units[o]

\* Rewriting code is seen by the next fetch, except in the last page of a range
\* the guest made writable (its rights never say so) and in the part of an
\* instruction that reaches out of the page it starts in.
StaleOnlyAtEdges ==
  \A b \in blocks : b.id \in DOMAIN cache =>
    \A n \in DOMAIN cache[b.id].disasmed : LET i == cache[b.id].disasmed[n] IN
      Resolves(b, PageOf(i.at)) /\ NotWritable(i.at) =>
        \A o \in DOMAIN i.units :
          Outdated(i, o) => PageOf(i.at + o) \in tails \/ PageOf(i.at + o) # PageOf(i.at)
================================================================================
