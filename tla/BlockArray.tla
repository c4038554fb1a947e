------------------------------ MODULE BlockArray -------------------------------
(***************************************************************************)
(* The memoryMapBlocks array of FEMemoryMap.c, kept beside the set of      *)
(* blocks that MemoryMap works with: every block is appended and the whole *)
(* array is sorted again.  An empty block is handed out at an address that *)
(* a later block gets too, so the order of equal addresses is decided by   *)
(* the sort and not by the comparison.                                     *)
(***************************************************************************)
EXTENDS MemoryMap, Sequences

CONSTANT InitialCapacity   \* elements the array has room for when it is created
ASSUME CapacityAssumption == InitialCapacity \in Nat

VARIABLE array

arrayVars == <<vars, array>>

Compare(b, c) ==
  IF b.va < c.va THEN "Ascendent" ELSE IF b.va > c.va THEN "Descendent" ELSE "Same"

TakesLeftStrict(b, c) == Compare(b, c) = "Ascendent"
TakesLeft(b, c) == Compare(b, c) \in {"Ascendent", "Same"}

Array == INSTANCE FEArray

AppendAndSort(b) ==
  array' = [Array!Appended(array, b) EXCEPT !.items = Array!MergeSorted(@)]

ArrayInit == Init /\ array = Array!CreateArray(InitialCapacity)

\* fe_array_append is reached only from _fe_memory_map_appendMemoryBlock.
ArrayNext ==
  /\ Next
  /\ IF blocks' = blocks THEN UNCHANGED array
     ELSE \E b \in blocks' \ blocks : AppendAndSort(b)

ArraySpec == ArrayInit /\ [][ArrayNext]_arrayVars

--------------------------------------------------------------------------------
(* Properties *)

\* The array lists every block once, by address and by age among equals: the
\* loop of fe_memoryMap_malloc meets neighbours, and fe_array_last is the block
\* IsLast describes, whichever way equal addresses arose.
ArrayInOrder ==
  /\ {array.items[i] : i \in DOMAIN array.items} = blocks
  /\ \A i, j \in DOMAIN array.items : i < j => Before(array.items[i], array.items[j])

\* Growing by half and one always leaves room for the element that is stored
\* next, from any initial capacity: fe_array_append never writes past its buffer.
ArrayFits ==
  /\ Len(array.items) <= array.capacity
  /\ array.capacity \in Nat
================================================================================
