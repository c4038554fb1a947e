-------------------------------- MODULE FEArray --------------------------------
(***************************************************************************)
(* The growing array of FEArray.c: append and the merge sort.              *)
(*                                                                         *)
(* An array is a record of its elements, in index order, and of the number *)
(* of elements its buffer has room for.  The halves the sort copies out    *)
(* and back in are sub-sequences here; positions count from 1.             *)
(***************************************************************************)
EXTENDS Integers, Sequences

CONSTANT TakesLeft(_, _)  \* the sort's test: the head of the left half goes first

CreateArray(capacity) == [items |-> <<>>, capacity |-> capacity]

GrownTight(capacity) == (capacity * 3) \div 2   \* a slip for the next definition
Grown(capacity) == (capacity * 3) \div 2 + 1

\* A full buffer is copied into a larger one before the element is stored.
Appended(array, element) ==
  [items |-> Append(array.items, element),
   capacity |-> IF Len(array.items) >= array.capacity THEN Grown(array.capacity)
                                                      ELSE array.capacity]

\* One round of the merge: the heads are L[s.i] and R[s.j], and a half that is
\* used up leaves the turn to the other.
Merge(L, R, s) ==
  IF s.i > Len(L) \/ (s.j <= Len(R) /\ ~ TakesLeft(L[s.i], R[s.j]))
  THEN [out |-> Append(s.out, R[s.j]), i |-> s.i, j |-> s.j + 1]
  ELSE [out |-> Append(s.out, L[s.i]), i |-> s.i + 1, j |-> s.j]

Merged(L, R) ==
  LET after[k \in 0..(Len(L) + Len(R))] ==
        IF k = 0 THEN [out |-> <<>>, i |-> 1, j |-> 1] ELSE Merge(L, R, after[k - 1])
  IN  after[Len(L) + Len(R)].out

\* The two calls of _mergeSort for [l, r], and the merge of what they leave.
Middle(p) == p[1] + (p[2] - p[1]) \div 2

MergeSorted(items) ==
  LET sorted[p \in (1..(Len(items) + 1)) \X (0..Len(items))] ==
        IF p[1] < p[2]
        THEN Merged(sorted[<<p[1], Middle(p)>>], sorted[<<Middle(p) + 1, p[2]>>])
        ELSE SubSeq(items, p[1], p[2])
  IN  sorted[<<1, Len(items)>>]
================================================================================
