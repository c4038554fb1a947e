------------------------------ MODULE AddressSpace ------------------------------
(***************************************************************************)
(* What the guest is promised of its memory, without blocks, shadows or a  *)
(* search: it holds regions [lo, hi) that never share an address, it gets  *)
(* a new region only where none of the regions it still holds lies, and    *)
(* giving one region back leaves the others alone.  The emulator may stop  *)
(* at any time (an assertion, no room), after which nothing changes.       *)
(***************************************************************************)
EXTENDS Integers

CONSTANT Limit   \* regions lie below Limit

VARIABLES
  regions,   \* the regions the guest holds: [id, lo, hi] records
  issued,    \* ids handed out so far
  halted

spaceVars == <<regions, issued, halted>>

Region == [id : Nat, lo : Nat, hi : Nat]

Apart(r, s) == r.hi <= s.lo \/ s.hi <= r.lo

SpaceInit ==
  /\ regions = {}
  /\ issued = {}
  /\ halted = FALSE

Grant(r) ==
  /\ ~ halted
  /\ r.lo <= r.hi /\ r.hi <= Limit
  /\ r.id \notin issued
  /\ \A s \in regions : Apart(r, s)
  /\ regions' = regions \cup {r}
  /\ issued' = issued \cup {r.id}
  /\ UNCHANGED halted

GiveBack(r) ==
  /\ ~ halted
  /\ r \in regions
  /\ regions' = regions \ {r}
  /\ UNCHANGED <<issued, halted>>

Halt ==
  /\ ~ halted
  /\ halted' = TRUE
  /\ UNCHANGED <<regions, issued>>

SpaceNext ==
  \/ \E r \in regions' \ regions : Grant(r)
  \/ \E r \in regions : GiveBack(r)
  \/ Halt

SpaceSpec == SpaceInit /\ [][SpaceNext]_spaceVars

\* The promise in one line: two regions the guest holds never share an address.
HeldApart == \A r, s \in regions : r # s => Apart(r, s)
================================================================================
