----------------------------- MODULE DisplayProofs -----------------------------
(***************************************************************************)
(* Proofs about Display: lending the surface's memory to the main thread   *)
(* shows whole pictures only, whatever the size of the window, the number  *)
(* of surfaces and what the guest draws.                                   *)
(***************************************************************************)
EXTENDS Display, SequenceTheorems, TLAPS

USE DEF Columns, Converted, Picture, SurfaceRecord

\* The invariant of the handoff: types, and what main has converted so far.
DisplayInv == TypeOK /\ Converting

LEMMA InitEstablishes == Init => DisplayInv
  BY WidthAssumption, ValuesAssumption, BoundsAssumption
     DEF Init, DisplayInv, TypeOK, Converting

\* A surface of the table is a record; replacing one keeps the table one.
LEMMA SurfaceKnown ==
  ASSUME NEW q \in Seq(SurfaceRecord), NEW s \in DOMAIN q
  PROVE  s \in 1..Len(q) /\ q[s] \in SurfaceRecord
<1>1. s \in 1..Len(q)
  BY LenProperties
<1> HIDE DEF SurfaceRecord
<1> QED
  BY <1>1, ElementOfSeq

LEMMA SurfaceReplaced ==
  ASSUME NEW q \in Seq(SurfaceRecord), NEW s \in DOMAIN q, NEW r \in SurfaceRecord
  PROVE  [q EXCEPT ![s] = r] \in Seq(SurfaceRecord) /\ Len([q EXCEPT ![s] = r]) = Len(q)
<1>1. s \in 1..Len(q)
  BY LenProperties
<1> HIDE DEF SurfaceRecord
<1> QED
  BY <1>1, ExceptSeq

LEMMA SourceKnown ==
  ASSUME TypeOK, source # 0
  PROVE  source \in DOMAIN surfaces /\ surfaces[source] \in SurfaceRecord
<1> HIDE DEF SurfaceRecord
<1>1. surfaces \in Seq(SurfaceRecord)
  BY DEF TypeOK
<1>2. Len(surfaces) \in Nat /\ DOMAIN surfaces = 1..Len(surfaces)
  BY <1>1, LenProperties
<1>3. source \in 0..Len(surfaces)
  BY DEF TypeOK
<1>4. source \in 1..Len(surfaces)
  BY <1>2, <1>3
<1> QED
  BY <1>1, <1>2, <1>4, ElementOfSeq

LEMMA GuestPreserves ==
  ASSUME DisplayInv, Guest
  PROVE  DisplayInv'
<1> USE WidthAssumption, ValuesAssumption, SizesAssumption, BoundsAssumption
    DEF DisplayInv, TypeOK, Converting, Running, Window, DrawingState
<1>1. CASE DirectDrawCreate
  BY <1>1 DEF DirectDrawCreate
<1>2. CASE LockUnknown
  BY <1>2 DEF LockUnknown
<1>3. CASE BltUnknown
  <2>1. ASSUME NEW s \in DOMAIN surfaces, source' = s, guest' = Dispatch, UNCHANGED status
        PROVE  DisplayInv'
    BY <1>3, <2>1 DEF BltUnknown, Dispatch
  <2>2. CASE status' = "bad access" /\ UNCHANGED <<source, guest>>
    BY <1>3, <2>2 DEF BltUnknown
  <2> QED
    BY <1>3, <2>1, <2>2 DEF BltUnknown
<1>4. ASSUME NEW size \in Sizes, SetDisplayMode(size) PROVE DisplayInv'
  BY <1>4 DEF SetDisplayMode
<1>5. ASSUME NEW content \in Picture, CreateSurface(content) PROVE DisplayInv'
  <2>1. source = 0 /\ main = "idle" /\ guest = "running"
    BY <1>5 DEF CreateSurface
  <2> QED
    BY <1>5, <2>1 DEF CreateSurface
<1>6. ASSUME NEW s \in DOMAIN surfaces, Lock(s) PROVE DisplayInv'
  <2>1. source = 0 /\ main = "idle" /\ guest = "running"
    BY <1>6 DEF Lock
  <2>2. surfaces[s] \in SurfaceRecord
    BY SurfaceKnown
  <2>3. [surfaces[s] EXCEPT !.locked = TRUE] \in SurfaceRecord
    BY <2>2
  <2>4. surfaces' = [surfaces EXCEPT ![s] = [surfaces[s] EXCEPT !.locked = TRUE]]
    BY <1>6 DEF Lock
  <2>5. surfaces' \in Seq(SurfaceRecord) /\ Len(surfaces') = Len(surfaces)
    <3> HIDE DEF SurfaceRecord
    <3> QED
      BY <2>3, <2>4, SurfaceReplaced
  <2> QED
    BY <1>6, <2>1, <2>5 DEF Lock
<1>7. ASSUME NEW s \in DOMAIN surfaces, Blt(s) PROVE DisplayInv'
  BY <1>7 DEF Blt, Dispatch
<1>8. ASSUME NEW s \in DOMAIN surfaces, NEW c \in Columns, NEW v \in Values, Store(s, c, v)
      PROVE  DisplayInv'
  <2>1. source = 0 /\ main = "idle" /\ guest = "running"
    BY <1>8 DEF Store
  <2>2. surfaces[s] \in SurfaceRecord
    BY SurfaceKnown
  <2>3. [surfaces[s] EXCEPT !.pixels[c] = v] \in SurfaceRecord
    BY <2>2
  <2>4. surfaces' = [surfaces EXCEPT ![s] = [surfaces[s] EXCEPT !.pixels[c] = v]]
    BY <1>8 DEF Store
  <2>5. surfaces' \in Seq(SurfaceRecord) /\ Len(surfaces') = Len(surfaces)
    <3> HIDE DEF SurfaceRecord
    <3> QED
      BY <2>3, <2>4, SurfaceReplaced
  <2> QED
    BY <1>8, <2>1, <2>5 DEF Store
<1> QED
  BY <1>1, <1>2, <1>3, <1>4, <1>5, <1>6, <1>7, <1>8 DEF Guest

LEMMA MainPreserves ==
  ASSUME DisplayInv, Main
  PROVE  DisplayInv'
<1> USE WidthAssumption, ValuesAssumption, SizesAssumption, BoundsAssumption
    DEF DisplayInv, TypeOK, Converting, Running, Window, DrawingState
<1>1. CASE TakeBlock
  <2>1. CASE surfaces[source].size = ScreenSize
    BY <1>1, <2>1 DEF TakeBlock
  <2>2. CASE surfaces[source].size # ScreenSize
    BY <1>1, <2>2 DEF TakeBlock
  <2> QED
    BY <2>1, <2>2
<1>2. CASE ConvertColumn
  <2>1. source \in DOMAIN surfaces /\ surfaces[source].pixels \in Picture
    <3>1. source # 0
      BY <1>2 DEF ConvertColumn
    <3> QED
      BY <3>1, SourceKnown
  <2>2. frame' \in Picture
    BY <1>2, <2>1 DEF ConvertColumn
  <2>3. \A c \in Converted : c < x' => frame'[c] = surfaces'[source'].pixels[c]
    <3> SUFFICES ASSUME NEW c \in Converted, c < x'
                 PROVE  frame'[c] = surfaces[source].pixels[c]
      BY <1>2 DEF ConvertColumn
    <3>1. frame' = [frame EXCEPT ![x] = surfaces[source].pixels[x]] /\ x' = x + 1
      BY <1>2 DEF ConvertColumn, NextColumn
    <3>2. CASE c = x
      BY <1>2, <3>1, <3>2 DEF ConvertColumn
    <3>3. CASE c < x
      BY <1>2, <3>1, <3>3 DEF ConvertColumn
    <3> QED
      BY <1>2, <3>1, <3>2, <3>3 DEF ConvertColumn
  <2> QED
    BY <1>2, <2>2, <2>3 DEF ConvertColumn, NextColumn
<1>3. CASE UpdateTexture
  BY <1>3 DEF UpdateTexture
<1>4. CASE BlockReturns
  BY <1>4 DEF BlockReturns
<1> QED
  BY <1>1, <1>2, <1>3, <1>4 DEF Main

LEMMA StutterPreserves ==
  ASSUME DisplayInv, UNCHANGED vars
  PROVE  DisplayInv'
  BY DEF DisplayInv, TypeOK, Converting, vars

LEMMA Inductive == Spec => []DisplayInv
<1>1. DisplayInv /\ [Next]_vars => DisplayInv'
  BY GuestPreserves, MainPreserves, StutterPreserves DEF Next
<1> QED
  BY <1>1, InitEstablishes, PTL DEF Spec

\* The variables of the handoff keep their types; the block on the main queue
\* always names a surface that exists.
THEOREM DisplayTypeCorrect == Spec => []TypeOK
<1>1. DisplayInv => TypeOK
  BY DEF DisplayInv
<1> QED
  BY <1>1, Inductive, PTL

\* What main has converted is the surface as it is now, and the guest's thread
\* waits for as long as a block holds its memory.
THEOREM ConversionSound == Spec => []Converting
<1>1. DisplayInv => Converting
  BY DEF DisplayInv
<1> QED
  BY <1>1, Inductive, PTL
--------------------------------------------------------------------------------
(* The handoff implements the promise *)

Shows == [s \in DOMAIN surfaces |-> Visible(surfaces[s].pixels)]

\* A new surface is a new picture.
LEMMA NewPicture ==
  ASSUME TypeOK, NEW r \in SurfaceRecord, surfaces' = Append(surfaces, r)
  PROVE  Shows' = Append(Shows, Visible(r.pixels))
<1> HIDE DEF SurfaceRecord
<1>1. surfaces \in Seq(SurfaceRecord) /\ Len(surfaces) \in Nat
  BY LenProperties DEF TypeOK
<1>2. DOMAIN surfaces = 1..Len(surfaces) /\ DOMAIN surfaces' = 1..(Len(surfaces) + 1)
  BY <1>1
<1>3. Shows = [s \in 1..Len(surfaces) |-> Visible(surfaces[s].pixels)]
  BY <1>2 DEF Shows
<1>4. Shows' = [s \in 1..(Len(surfaces) + 1) |-> Visible(surfaces'[s].pixels)]
  BY <1>2 DEF Shows, Visible
<1>5. \A s \in 1..(Len(surfaces) + 1) :
        surfaces'[s] = IF s <= Len(surfaces) THEN surfaces[s] ELSE r
  BY <1>1
<1> QED
  BY <1>1, <1>3, <1>4, <1>5

\* Drawing on a surface changes its picture only.
LEMMA ChangedPicture ==
  ASSUME TypeOK, NEW s \in DOMAIN surfaces, NEW r \in SurfaceRecord,
         surfaces' = [surfaces EXCEPT ![s] = r]
  PROVE  Shows' = [Shows EXCEPT ![s] = Visible(r.pixels)]
<1> HIDE DEF SurfaceRecord
<1>1. surfaces \in Seq(SurfaceRecord)
  BY DEF TypeOK
<1>2. DOMAIN surfaces' = DOMAIN surfaces
  OBVIOUS
<1>3. \A t \in DOMAIN surfaces : surfaces'[t] = IF t = s THEN r ELSE surfaces[t]
  OBVIOUS
<1> QED
  BY <1>2, <1>3 DEF Shows, Visible

LEMMA VisiblePicture ==
  ASSUME NEW r \in SurfaceRecord
  PROVE  Visible(r.pixels) \in Shown!Picture
  BY WidthAssumption DEF Visible, Shown!Picture

LEMMA StepShows ==
  ASSUME DisplayInv, [Next]_vars
  PROVE  [Shown!ScreenNext]_(Shown!screenVars)
<1> SUFFICES ASSUME Next PROVE Shown!ScreenNext \/ UNCHANGED Shown!screenVars
  BY DEF vars, Shown!screenVars, Visible
<1> USE DEF Running, Window, DrawingState
<1>1. CASE DirectDrawCreate \/ \E size \in Sizes : SetDisplayMode(size)
  BY <1>1 DEF DirectDrawCreate, SetDisplayMode, Shown!screenVars, Visible
<1>2. CASE LockUnknown
  BY <1>2 DEF LockUnknown, Shown!ScreenNext, Shown!Halt, Visible
<1>3. ASSUME NEW s \in DOMAIN surfaces, Running, source' = s,
             UNCHANGED <<surfaces, texture, status>>
      PROVE  Shown!ScreenNext
  <2>1. source = 0
    BY <1>3 DEF DisplayInv, Converting
  <2> QED
    BY <1>3, <2>1 DEF Shown!ScreenNext, Shown!Ask, Visible
<1>4. CASE BltUnknown
  <2>1. CASE status' = "bad access" /\ UNCHANGED <<source, guest>>
    BY <1>4, <2>1 DEF BltUnknown, Shown!ScreenNext, Shown!Halt, Visible
  <2> QED
    BY <1>3, <1>4, <2>1 DEF BltUnknown
<1>5. ASSUME NEW content \in Picture, CreateSurface(content) PROVE Shown!ScreenNext
  <2> DEFINE r == [size |-> mode, pixels |-> content, locked |-> FALSE]
  <2>1. r \in SurfaceRecord /\ surfaces' = Append(surfaces, r)
    BY <1>5 DEF CreateSurface, DisplayInv, TypeOK
  <2>2. Shows' = Append(Shows, Visible(r.pixels)) /\ Visible(r.pixels) \in Shown!Picture
    BY <2>1, NewPicture, VisiblePicture DEF DisplayInv
  <2>3. source = 0 /\ status = "running" /\ UNCHANGED <<source, texture, status>>
    BY <1>5 DEF CreateSurface, DisplayInv, Converting
  <2> QED
    BY <2>2, <2>3 DEF Shows, Shown!ScreenNext, Shown!Draw, Visible
<1>6. ASSUME NEW s \in DOMAIN surfaces, NEW r \in SurfaceRecord, Running,
             surfaces' = [surfaces EXCEPT ![s] = r], UNCHANGED <<source, texture, status>>
      PROVE  Shown!ScreenNext
  <2>1. Shows' = [Shows EXCEPT ![s] = Visible(r.pixels)] /\ Visible(r.pixels) \in Shown!Picture
    BY <1>6, ChangedPicture, VisiblePicture DEF DisplayInv
  <2>2. source = 0 /\ status = "running" /\ s \in DOMAIN Shows
    BY <1>6 DEF DisplayInv, Converting, Shows
  <2> QED
    BY <1>6, <2>1, <2>2 DEF Shows, Shown!ScreenNext, Shown!Draw, Visible
<1>7. ASSUME NEW s \in DOMAIN surfaces, Lock(s) PROVE Shown!ScreenNext
  <2>1. surfaces[s] \in SurfaceRecord
    BY SurfaceKnown DEF DisplayInv, TypeOK
  <2>2. [surfaces[s] EXCEPT !.locked = TRUE] \in SurfaceRecord
    BY <2>1
  <2> QED
    BY <1>6, <1>7, <2>2 DEF Lock
<1>8. ASSUME NEW s \in DOMAIN surfaces, NEW c \in Columns, NEW v \in Values, Store(s, c, v)
      PROVE  Shown!ScreenNext
  <2>1. surfaces[s] \in SurfaceRecord
    BY SurfaceKnown DEF DisplayInv, TypeOK
  <2>2. [surfaces[s] EXCEPT !.pixels[c] = v] \in SurfaceRecord
    BY <2>1
  <2> QED
    BY <1>6, <1>8, <2>2 DEF Store
<1>9. ASSUME NEW s \in DOMAIN surfaces, Blt(s) PROVE Shown!ScreenNext
  BY <1>3, <1>9 DEF Blt
<1>10. CASE TakeBlock
  BY <1>10 DEF TakeBlock, Shown!ScreenNext, Shown!Halt, Shown!screenVars, Visible
<1>11. CASE ConvertColumn
  BY <1>11 DEF ConvertColumn, Shown!screenVars, Visible
<1>12. CASE UpdateTexture
  <2>1. source # 0 /\ source \in DOMAIN surfaces /\ x = Width - Uncopied
    BY <1>12, WidthAssumption, SourceKnown DEF UpdateTexture, DisplayInv, TypeOK, Converting
  <2>2. \A c \in Converted : texture'[c] = surfaces[source].pixels[c]
    BY <1>12, <2>1, WidthAssumption DEF UpdateTexture, DisplayInv, Converting
  <2> QED
    BY <1>12, <2>1, <2>2 DEF UpdateTexture, Shown!ScreenNext, Shown!Show, Visible
<1>13. CASE BlockReturns
  <2>1. source # 0 /\ source \in DOMAIN surfaces
    BY <1>13, SourceKnown DEF BlockReturns, DisplayInv, Converting
  <2>2. \A c \in Converted : texture[c] = surfaces[source].pixels[c]
    BY <1>13 DEF BlockReturns, DisplayInv, Converting
  <2> QED
    BY <1>13, <2>1, <2>2 DEF BlockReturns, Shown!ScreenNext, Shown!Answer, Visible
<1> QED
  BY <1>1, <1>2, <1>4, <1>5, <1>7, <1>8, <1>9, <1>10, <1>11, <1>12, <1>13
     DEF Next, Guest, Main

LEMMA InitShows == Init => Shown!ScreenInit
  BY WidthAssumption DEF Init, Shown!ScreenInit, Visible

\* The window shows whole pictures only, and when Blt returns the one the
\* surface held when Blt was called: FEDDrawDLL.m, AppDelegate.m and GameScene.m
\* together do what the guest is promised.
THEOREM DisplayImplementsScreen == Spec => ImplementsScreen
<1>1. Spec => Shown!ScreenInit /\ [][Shown!ScreenNext]_(Shown!screenVars)
  BY InitShows, StepShows, Inductive, PTL DEF Spec
<1> QED
  BY <1>1 DEF ImplementsScreen, Shown!ScreenSpec
================================================================================
