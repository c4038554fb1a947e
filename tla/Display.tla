-------------------------------- MODULE Display --------------------------------
(***************************************************************************)
(* From a DirectDraw surface to the window: the ddraw proxy of FEDDrawDLL.m *)
(* on the guest's thread, AppDelegate.m and GameScene.m on the main thread. *)
(*                                                                         *)
(* Blt lends the delegate the surface's memory without copying it; the     *)
(* delegate converts it column by column on the main thread, while         *)
(* dispatch_sync keeps the guest's thread waiting.  Rows, the channels of  *)
(* a pixel, palettes and virtual addresses are left out: a picture is a    *)
(* function from columns to values, a surface its number.                  *)
(***************************************************************************)
EXTENDS Integers, Sequences

CONSTANTS
  Width,        \* 640
  Uncopied,     \* the columns at the right edge that are not converted, 3
  Values,       \* contents of a column
  White,        \* what didMoveToView fills the texture with
  Sizes,        \* values of width * height the guest may set
  ScreenSize,   \* 640 * 480
  MaxSurfaces,  \* bound
  MaxContexts   \* bound

VARIABLES
  contexts,  \* number of IDirectDraw objects created
  mode,      \* width * height of the display mode
  surfaces,  \* number -> [size, pixels, locked]: description and memory
  guest,     \* "running", or "waiting" in dispatch_sync
  source,    \* the surface whose memory the block on the main queue holds, or 0
  main,      \* what the main thread does with the block
  x,         \* the next column it converts
  frame,     \* the static buffer of feddrawdllNewData
  texture,
  status     \* "running", or how the program stopped

vars == <<contexts, mode, surfaces, guest, source, main, x, frame, texture, status>>

ASSUME WidthAssumption == Width \in Nat /\ Uncopied \in 0..Width
ASSUME ValuesAssumption == White \in Values
ASSUME SizesAssumption == Sizes \subseteq Nat \ {0} /\ ScreenSize \in Sizes
ASSUME BoundsAssumption == MaxSurfaces \in Nat /\ MaxContexts \in Nat

Columns == 0..(Width - 1)
\* for(int x = 0; x < 640-3; x++), and with <=
OneMore == 0..(Width - Uncopied)
Converted == 0..(Width - Uncopied - 1)
Picture == [Columns -> Values]

Running == status = "running" /\ guest = "running"
DrawingState == <<contexts, mode, surfaces>>
Window == <<main, x, frame, texture>>

--------------------------------------------------------------------------------
(* The guest's thread *)

\* The assertion that there is no context yet reads a property nothing assigns.
DirectDrawCreate ==
  /\ Running /\ contexts < MaxContexts
  /\ contexts' = contexts + 1
  /\ UNCHANGED <<mode, surfaces, guest, source, Window, status>>

SetDisplayMode(size) ==
  /\ Running /\ contexts > 0
  /\ mode' = size
  /\ UNCHANGED <<contexts, surfaces, guest, source, Window, status>>

\* A surface has the size of the current mode for good; its memory comes from
\* malloc and is not initialised.
CreateSurface(content) ==
  /\ Running /\ contexts > 0 /\ Len(surfaces) < MaxSurfaces
  /\ surfaces' = Append(surfaces, [size |-> mode, pixels |-> content, locked |-> FALSE])
  /\ UNCHANGED <<contexts, mode, guest, source, Window, status>>

\* Lock tells the guest where the memory is; Unlock takes nothing back.
Lock(s) ==
  /\ Running
  /\ surfaces' = [surfaces EXCEPT ![s].locked = TRUE]
  /\ UNCHANGED <<contexts, mode, guest, source, Window, status>>

\* assert(surfaceDesc)
LockUnknown ==
  /\ Running /\ contexts > 0
  /\ status' = "assertion"
  /\ UNCHANGED <<DrawingState, guest, source, Window>>

\* The guest stores to a surface's memory, as often as it likes once it knows
\* the address; only surfaces of the window's size are drawn on.
Store(s, c, v) ==
  /\ Running /\ surfaces[s].locked /\ surfaces[s].size = ScreenSize
  /\ surfaces' = [surfaces EXCEPT ![s].pixels[c] = v]
  /\ UNCHANGED <<contexts, mode, guest, source, Window, status>>

\* What becomes of the caller of dispatch_async, and of dispatch_sync.
Async == "running"
Dispatch == "waiting"

Blt(s) ==
  /\ Running
  /\ source' = s
  /\ guest' = Dispatch
  /\ UNCHANGED <<DrawingState, Window, status>>

\* The description of a surface that is not known is an uninitialised local:
\* what an earlier Blt left there, or an address that no block holds.
BltUnknown ==
  /\ Running /\ contexts > 0
  /\ \/ \E s \in DOMAIN surfaces : source' = s /\ guest' = Dispatch /\ UNCHANGED status
     \/ status' = "bad access" /\ UNCHANGED <<source, guest>>
  /\ UNCHANGED <<DrawingState, Window>>

--------------------------------------------------------------------------------
(* The main thread *)

\* NSCAssert(data.length == 640*480*1)
TakeBlock ==
  /\ status = "running" /\ main = "idle" /\ source # 0
  /\ IF surfaces[source].size = ScreenSize
       THEN main' = "converting" /\ x' = 0 /\ UNCHANGED status
       ELSE status' = "assertion" /\ UNCHANGED <<main, x>>
  /\ UNCHANGED <<DrawingState, guest, source, frame, texture>>

\* The column converted next; the first two do not advance, or too far.
SameColumn(c) == c
SkipColumn(c) == c + 2
NextColumn(c) == c + 1

ConvertColumn ==
  /\ status = "running" /\ main = "converting" /\ x \in Converted
  /\ frame' = [frame EXCEPT ![x] = surfaces[source].pixels[x]]
  /\ x' = NextColumn(x)
  /\ UNCHANGED <<DrawingState, guest, source, main, texture, status>>

\* updateWithData
UpdateTexture ==
  /\ status = "running" /\ main = "converting" /\ x \notin Converted
  /\ texture' = frame
  /\ main' = "updated"
  /\ UNCHANGED <<DrawingState, guest, source, x, frame, status>>

\* The block ends, dispatch_sync returns, and Blt with it.
BlockReturns ==
  /\ status = "running" /\ main = "updated"
  /\ main' = "idle" /\ guest' = "running" /\ source' = 0
  /\ UNCHANGED <<DrawingState, x, frame, texture, status>>

--------------------------------------------------------------------------------
Init ==
  /\ contexts = 0 /\ mode = 0
  /\ surfaces = <<>>
  /\ guest = "running" /\ source = 0
  /\ main = "idle" /\ x = 0
  /\ frame \in Picture   \* malloc
  /\ texture = [c \in Columns |-> White]
  /\ status = "running"

Guest ==
  \/ DirectDrawCreate \/ LockUnknown \/ BltUnknown
  \/ \E size \in Sizes : SetDisplayMode(size)
  \/ \E content \in Picture : CreateSurface(content)
  \/ \E s \in DOMAIN surfaces :
       Lock(s) \/ Blt(s) \/ \E c \in Columns, v \in Values : Store(s, c, v)

Main == TakeBlock \/ ConvertColumn \/ UpdateTexture \/ BlockReturns

Next == Guest \/ Main

Spec == Init /\ [][Next]_vars

\* The main thread's run loop serves its queue; nothing is assumed of the guest.
FairSpec == Spec /\ WF_vars(Main)

--------------------------------------------------------------------------------
(* Properties *)

SurfaceRecord == [size : Sizes \cup {0}, pixels : Picture, locked : BOOLEAN]

\* Type invariant; a block on the main queue holds a surface that exists.
TypeOK ==
  /\ contexts \in 0..MaxContexts /\ mode \in Sizes \cup {0}
  /\ surfaces \in Seq(SurfaceRecord) /\ Len(surfaces) <= MaxSurfaces
  /\ guest \in {"running", "waiting"}
  /\ source \in 0..Len(surfaces)
  /\ main \in {"idle", "converting", "updated"}
  /\ x \in 0..(Width - Uncopied)
  /\ frame \in Picture /\ texture \in Picture
  /\ status \in {"running", "assertion", "bad access"}

\* While main converts, the part of the frame behind it is the surface as it is
\* now, and the guest's thread is the one that waits.
Converting ==
  /\ main # "idle" => source # 0
  /\ guest = "waiting" <=> source # 0
  /\ main = "converting" => \A c \in Converted : c < x => frame[c] = surfaces[source].pixels[c]
  /\ main = "updated" => \A c \in Converted : texture[c] = surfaces[source].pixels[c]

Visible(p) == [c \in Converted |-> p[c]]

Shown == INSTANCE Screen WITH
  Columns <- Converted,
  Blank <- White,
  pictures <- [s \in DOMAIN surfaces |-> Visible(surfaces[s].pixels)],
  asked <- source,
  shown <- Visible(texture),
  halted <- status # "running"

\* In the columns that are converted, the window shows whole pictures only, and
\* when Blt returns the one the surface held when Blt was called: lending the
\* surface's memory to another thread is safe.
ImplementsScreen == Shown!ScreenSpec

\* Every Blt returns to the guest, or stops the program.
BltReturns == guest = "waiting" ~> (guest = "running" \/ status # "running")
================================================================================
