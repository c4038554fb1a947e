------------------------------ MODULE MCMemoryMap ------------------------------
(* Small instances of MemoryMap, with its sorted array, for TLC. *)
EXTENDS BlockArray

\* The zero page and one two-page section; three pages lie between them.
ImageLow == {[va |-> 0, size |-> 2, mode |-> NoAccess], [va |-> 8, size |-> 3, mode |-> RX]}
================================================================================
