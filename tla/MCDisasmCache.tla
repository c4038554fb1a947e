----------------------------- MODULE MCDisasmCache -----------------------------
(* Small instances of DisasmCache for TLC. *)
EXTENDS DisasmCache

\* The zero page, a section of one page and a section of two at the bottom of the
\* map: the range of a VirtualProtect can begin in the first section, cover the
\* second's first page and end in its last.
ImageTwo == {[va |-> 0, size |-> 2, mode |-> NoAccess],
             [va |-> 2, size |-> 2, mode |-> RX], [va |-> 4, size |-> 3, mode |-> RX]}

\* Encodings 1 and 2 are instructions of as many units; 0 is no instruction.
LengthOf == [e \in 0..2 |-> e]
================================================================================
