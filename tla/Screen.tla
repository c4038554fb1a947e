--------------------------------- MODULE Screen ---------------------------------
(***************************************************************************)
(* What the guest is promised of DirectDraw: it draws on surfaces, and when *)
(* a Blt returns the window shows the picture the surface held when Blt was *)
(* called, all of it; the window never shows a mixture of two pictures.     *)
(***************************************************************************)
EXTENDS Naturals, Sequences

CONSTANTS Columns, Values, Blank

VARIABLES
  pictures,  \* the surfaces, each a function from columns to values
  asked,     \* the surface of the Blt that has not returned, 0 when there is none
  shown,
  halted

screenVars == <<pictures, asked, shown, halted>>

Picture == [Columns -> Values]

ScreenInit ==
  /\ pictures = <<>> /\ asked = 0
  /\ shown = [c \in Columns |-> Blank]
  /\ halted = FALSE

\* The guest draws on a surface or makes a new one; never during a Blt.
Draw ==
  /\ ~ halted /\ asked = 0
  /\ \/ \E s \in DOMAIN pictures, p \in Picture : pictures' = [pictures EXCEPT ![s] = p]
     \/ \E p \in Picture : pictures' = Append(pictures, p)
  /\ UNCHANGED <<asked, shown, halted>>

Ask ==
  /\ ~ halted /\ asked = 0
  /\ asked' \in DOMAIN pictures
  /\ UNCHANGED <<pictures, shown, halted>>

Show ==
  /\ ~ halted /\ asked # 0
  /\ shown' = pictures[asked]
  /\ UNCHANGED <<pictures, asked, halted>>

Answer ==
  /\ ~ halted /\ asked # 0 /\ shown = pictures[asked]
  /\ asked' = 0
  /\ UNCHANGED <<pictures, shown, halted>>

Halt ==
  /\ ~ halted /\ halted' = TRUE
  /\ UNCHANGED <<pictures, asked, shown>>

ScreenNext == Draw \/ Ask \/ Show \/ Answer \/ Halt

ScreenSpec == ScreenInit /\ [][ScreenNext]_screenVars
================================================================================
