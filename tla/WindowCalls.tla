------------------------------ MODULE WindowCalls ------------------------------
(***************************************************************************)
(* What the guest is promised of the user32 calls that send messages       *)
(* (CreateWindowExA, UpdateWindow, DispatchMessageA), without a stack:     *)
(* a call sends a list of messages to a window, the window procedure is    *)
(* activated once for each of them, in order, and the call then returns    *)
(* its answer to the place it was made from.  Procedures may make such     *)
(* calls themselves.  An activation's local words are its own: nothing     *)
(* that happens above it changes them.                                     *)
(***************************************************************************)
EXTENDS Sequences, SequencesExt

CONSTANTS
  Places,    \* places of guest code from which a call can be made
  Entry,     \* the start of the window procedure
  Waiting    \* not guest code: the emulator is between two messages

VARIABLES
  acts,      \* activations of guest code, the running one last: [asked, locals]
  sends,     \* calls that have not returned: [window, left, answer, place]
  at,        \* where guest code is
  value,     \* eax, while guest code runs
  halted

callVars == <<acts, sends, at, value, halted>>

Runs == ~ halted /\ at \in Places
Top == Last(acts)

CallsInit ==
  /\ acts = <<[asked |-> <<>>, locals |-> <<>>]>>
  /\ sends = <<>>
  /\ at \in Places
  /\ halted = FALSE

\* The running activation pushes a word, pops one, or makes a call that sends
\* nothing; its asked message stays, and so does everything below it.
Work ==
  /\ Runs /\ at' \in Places
  /\ Front(acts') = Front(acts)
  /\ Last(acts').asked = Top.asked
  /\ \/ Last(acts').locals = Top.locals
     \/ Top.locals # <<>> /\ Last(acts').locals = Front(Top.locals)
     \/ Last(acts').locals # <<>> /\ Front(Last(acts').locals) = Top.locals
  /\ UNCHANGED <<sends, halted>>

Send ==
  /\ Runs /\ at' = Waiting
  /\ sends' # <<>> /\ Front(sends') = sends
  /\ Last(sends').left # <<>> /\ Last(sends').place \in Places
  /\ UNCHANGED <<acts, halted>>

\* The procedure is told the window and the next message of the innermost call.
Deliver ==
  /\ ~ halted /\ at = Waiting
  /\ Last(sends).left # <<>>
  /\ acts' = Append(acts, [asked |-> <<Last(sends).window, Head(Last(sends).left)>>,
                           locals |-> <<>>])
  /\ sends' = Append(Front(sends), [Last(sends) EXCEPT !.left = Tail(@)])
  /\ at' = Entry
  /\ UNCHANGED halted

Begin ==
  /\ ~ halted /\ at = Entry /\ at' \in Places
  /\ UNCHANGED <<acts, sends, halted>>

Handled ==
  /\ Runs /\ Len(acts) > 1
  /\ acts' = Front(acts)
  /\ at' = Waiting
  /\ UNCHANGED <<sends, halted>>

Finish ==
  /\ ~ halted /\ at = Waiting
  /\ Last(sends).left = <<>>
  /\ at' = Last(sends).place
  /\ value' = Last(sends).answer
  /\ sends' = Front(sends)
  /\ UNCHANGED <<acts, halted>>

Halt ==
  /\ ~ halted /\ halted' = TRUE
  /\ UNCHANGED <<acts, sends, at, value>>

CallsNext == Work \/ Send \/ Deliver \/ Begin \/ Handled \/ Finish \/ Halt

CallsSpec == CallsInit /\ [][CallsNext]_callVars
================================================================================
