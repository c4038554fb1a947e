------------------------------- MODULE GuestCalls -------------------------------
(***************************************************************************)
(* Calls between guest code and the WinAPI proxies on the guest's stack.   *)
(*                                                                         *)
(* instruction_ff of FEProcess.m runs an imported function in place, pops  *)
(* the return address and drops the arguments.  The three functions of     *)
(* FEUser32DLL.m that send window messages cannot call the guest's window  *)
(* procedure themselves: they rewrite the stack so that the return from    *)
(* the import lands in handle_messages, a machine code routine that calls  *)
(* the procedure once for each message and then returns to the caller.     *)
(*                                                                         *)
(* The stack is a sequence of words, its top last; esp is its length and   *)
(* an address inside the stack is a position.  Strings, styles and sizes   *)
(* of windows are left out.  Guest code is external: any code that follows *)
(* the calling convention with frames linked by ebp.                       *)
(***************************************************************************)
EXTENDS Integers, Sequences

CONSTANTS
  StackWords,  \* stack->size in words
  Sites,       \* places in guest code: where it is, where its calls return to
  Procedure,   \* lpfnWndProc
  Handler,     \* the first instruction of handle_messages
  Loop,        \* its test of count
  AfterCall,   \* the instruction after its call of the procedure
  Scratch,     \* words guest code pushes, passes and returns
  Junk,        \* what uninitialised memory holds
  Brush,       \* hbrBackground of the window class
  Imports,     \* other imported functions: [declared, returned], in words
  MaxLocals,   \* bound: words a guest activation pushes
  MaxSends     \* bound: message-sending calls of a behaviour

VARIABLES
  stack, ebp, eip, eax,
  memory,    \* the "Windows Messages" blocks, one after the other
  structs,   \* contents of the blocks CreateWindowExA allocates
  windows,   \* number of window handles created
  sent,      \* number of message-sending calls
  status     \* "running", or the assertion that stopped the emulator

vars == <<stack, ebp, eip, eax, memory, structs, windows, sent, status>>

ASSUME StackAssumption == StackWords \in Nat \ {0}
ASSUME CodeAssumption ==
  /\ Procedure \notin Sites /\ {Handler, Loop, AfterCall} \cap (Sites \cup {Procedure}) = {}
  /\ Handler # Loop /\ Loop # AfterCall /\ Handler # AfterCall
ASSUME ImportsAssumption == Imports \subseteq [declared : Nat, returned : Nat]
ASSUME BoundsAssumption == MaxLocals \in Nat /\ MaxSends \in Nat

--------------------------------------------------------------------------------
(* The stack *)

\* fe_stack_push32 asserts that the word stays above stack->start, so the last
\* word of the block is never used.
RoomAbove(s, n) == Len(s) + n < StackWords
Room(n) == RoomAbove(stack, n)

Dropped(s, n) == SubSeq(s, 1, Len(s) - n)
FromTop(s, n) == s[Len(s) - n]

\* n arguments of a call and its return address
Pushed(n, w, site) == stack \o [i \in 1..n |-> w] \o <<site>>

Frozen == <<memory, structs, windows, sent>>

Overflow ==
  /\ status' = "stack overflow"
  /\ UNCHANGED <<stack, ebp, eip, eax, Frozen>>

GuestRuns == status = "running" /\ eip \in Sites

--------------------------------------------------------------------------------
(* Guest code *)

GuestPush(w) ==
  /\ GuestRuns /\ Len(stack) - ebp < MaxLocals /\ Room(1)
  /\ stack' = Append(stack, w)
  /\ eip' \in Sites
  /\ UNCHANGED <<ebp, eax, Frozen, status>>

GuestPushOverflow ==
  /\ GuestRuns /\ ~ Room(1)
  /\ Overflow

GuestPop ==
  /\ GuestRuns /\ Len(stack) > ebp
  /\ eax' = FromTop(stack, 0)
  /\ stack' = Dropped(stack, 1)
  /\ eip' \in Sites
  /\ UNCHANGED <<ebp, Frozen, status>>

\* push ebp; mov ebp, esp
Prologue(s) == stack' = Append(s, ebp) /\ ebp' = Len(s) + 1

ProcedureEnter ==
  /\ status = "running" /\ eip = Procedure /\ Room(1)
  /\ Prologue(stack)
  /\ eip' \in Sites
  /\ UNCHANGED <<eax, Frozen, status>>

ProcedureOverflow ==
  /\ status = "running" /\ eip \in {Procedure, Handler} /\ ~ Room(1)
  /\ Overflow

\* mov eax, w; leave; ret n: esp returns to ebp, ebp and eip are popped, the n
\* words of the arguments are dropped.
LeaveAndReturn(n) ==
  /\ stack' = SubSeq(stack, 1, ebp - 2 - n)
  /\ ebp' = stack[ebp]
  /\ eip' = stack[ebp - 1]

ProcedureReturn(w) ==
  /\ GuestRuns /\ ebp # 0
  /\ LeaveAndReturn(4)
  /\ eax' = w
  /\ UNCHANGED <<Frozen, status>>

--------------------------------------------------------------------------------
(* Imported functions that send no message *)

ImportCall(i, w, site) ==
  LET called == Pushed(i.declared, w, site) IN
  /\ GuestRuns /\ Room(i.declared + 1)
  /\ eip' = FromTop(called, 0)
  /\ stack' = Dropped(called, 1 + i.returned)
  /\ eax' = w
  /\ UNCHANGED <<ebp, Frozen, status>>

ImportOverflow(i) ==
  /\ GuestRuns /\ ~ Room(i.declared + 1)
  /\ Overflow

--------------------------------------------------------------------------------
(* Imported functions that send messages *)

Message(code, wParam, lParam) == [message |-> code, wParam |-> wParam, lParam |-> lParam]
NullMessage == Message(Junk, Junk, Junk)

WM_PAINT == 15
WM_WINDOWPOSCHANGED == 71

\* The messages of CreateWindowExA; p is the number of structs before the call.
CreateMessages(p) ==
  LET create == p + 1  rect == p + 2  pos == p + 3  posChanged == p + 4 IN
  << Message(129, 0, create), Message(131, 0, rect), Message(1, 0, create),
     Message(5, 0, 0), Message(3, 0, 0), Message(24, 1, 0), Message(70, 0, pos),
     Message(28, 1, 0), Message(134, 0, 0), Message(6, 1, 0), Message(7, 0, 0),
     Message(133, 1, 0), Message(20, Brush, 0), Message(71, 0, posChanged) >>

UpdateMessages(wnd) == <<Message(15, 0, 0), Message(133, wnd, 0), Message(20, Brush, 0)>>

\* What the last memcpy leaves in the four blocks: posStruct is written to vPos
\* twice, with its second value at the end.
CreateStructs == <<"create", "rect", "pos changed", "uninitialised">>

CreateArguments == 12
UpdateArguments == 1
DispatchArguments == 1

\* handleMessages pushes the arguments of the handler; the caller then pushes
\* its return address and the handler, which instruction_ff pops as eip.
ReturnTooEarly(result, count, messages, wnd, return) ==
  <<result, Procedure, count, messages, return, wnd>>
HandlerFrame(result, count, messages, wnd, return) ==
  <<result, Procedure, count, messages, wnd, return>>

Send(n, cleaned, w, site, list, wnd, result) ==
  LET called == Pushed(n, w, site)
      return == FromTop(called, 0)
      below == Dropped(called, 1 + cleaned)
  IN
  /\ GuestRuns /\ sent < MaxSends
  /\ Room(n + 1) /\ RoomAbove(below, 7)
  /\ stack' = below \o HandlerFrame(result, Len(list), Len(memory) + 1, wnd, return)
  /\ eip' = Handler
  /\ memory' = memory \o list
  /\ sent' = sent + 1
  /\ UNCHANGED <<ebp, eax, status>>

CreateWindowExA(w, site) ==
  LET handle == windows + 1 IN
  /\ Send(CreateArguments, CreateArguments, w, site, CreateMessages(Len(structs)), handle, handle)
  /\ windows' = handle
  /\ structs' = structs \o CreateStructs

UpdateWindow(wnd, w, site) ==
  /\ wnd \in 1..windows
  /\ Send(UpdateArguments, UpdateArguments, w, site, UpdateMessages(wnd), wnd, 1)
  /\ UNCHANGED <<windows, structs>>

\* Only WM_PAINT can be dispatched.
DispatchMessageA(wnd, w, site) ==
  /\ wnd \in 1..windows
  /\ Send(DispatchArguments, DispatchArguments, w, site, <<Message(WM_PAINT, w, w)>>, wnd, 0)
  /\ UNCHANGED <<windows, structs>>

\* assert(windowHandleDetails), assert(msg.message == 0xf)
SendAsserts ==
  /\ GuestRuns /\ sent < MaxSends /\ Room(2)
  /\ status' = "not a window or not WM_PAINT"
  /\ UNCHANGED <<stack, ebp, eip, eax, Frozen>>

SendOverflow(n) ==
  /\ GuestRuns /\ sent < MaxSends
  /\ ~ Room(n + 1) \/ ~ Room(7)
  /\ Overflow

--------------------------------------------------------------------------------
(* handle_messages, the machine code *)

\* push ebp; mov ebp, esp; sub esp, 12: the subtraction checks nothing.
HandlerEnter ==
  /\ status = "running" /\ eip = Handler /\ Room(1)
  /\ stack' = stack \o <<ebp, Junk, Junk, Junk>>
  /\ ebp' = Len(stack) + 1
  /\ eip' = Loop
  /\ UNCHANGED <<eax, Frozen, status>>

\* The arguments of the handler, from its frame.
Window == stack[ebp - 2]
Messages == stack[ebp - 3]
Count == stack[ebp - 4]
Result == stack[ebp - 6]

\* What follows a block of messages in memory is not initialised.
Load(m, p) == IF p \in DOMAIN m THEN m[p] ELSE NullMessage

\* The arguments of the procedure, the last one pushed first.
ProcedureArguments(wnd, m) == <<m.lParam, m.wParam, m.message, wnd>>

HandlerCall ==
  LET m == Load(memory, Messages)
      locals == <<m.lParam, m.wParam, m.message>>
  IN
  /\ status = "running" /\ eip = Loop /\ Count # 0 /\ Room(5)
  /\ stack' = SubSeq(stack, 1, ebp) \o locals \o ProcedureArguments(Window, m) \o <<AfterCall>>
  /\ eax' = Procedure
  /\ eip' = Procedure
  /\ UNCHANGED <<ebp, Frozen, status>>

HandlerCallOverflow ==
  /\ status = "running" /\ eip = Loop /\ Count # 0 /\ ~ Room(5)
  /\ Overflow

\* count--, messages += 12; the first three forget to store one or both.
SameMessage(frame) == [frame EXCEPT ![ebp - 4] = @ - 1]
SameCount(frame) == [frame EXCEPT ![ebp - 3] = @ + 1]
NothingStored(frame) == frame
CountDown(frame) == [frame EXCEPT ![ebp - 4] = @ - 1, ![ebp - 3] = @ + 1]

HandlerNext ==
  /\ status = "running" /\ eip = AfterCall
  /\ stack' = CountDown(stack)
  /\ eax' = Messages + 1
  /\ eip' = Loop
  /\ UNCHANGED <<ebp, Frozen, status>>

\* mov eax, result; leave; ret 0x14
HandlerExit ==
  /\ status = "running" /\ eip = Loop /\ Count = 0
  /\ LeaveAndReturn(5)
  /\ eax' = Result
  /\ UNCHANGED <<Frozen, status>>

--------------------------------------------------------------------------------
Init ==
  /\ stack = <<>> /\ ebp = 0
  /\ eip \in Sites
  /\ eax = Junk
  /\ memory = <<>> /\ structs = <<>>
  /\ windows = 0 /\ sent = 0
  /\ status = "running"

Guest ==
  \/ \E w \in Scratch : GuestPush(w)
  \/ GuestPop
  \/ GuestPushOverflow
  \/ \E w \in Scratch, site \in Sites :
       \/ \E i \in Imports : ImportCall(i, w, site)
       \/ CreateWindowExA(w, site)
       \/ \E wnd \in 1..windows : UpdateWindow(wnd, w, site) \/ DispatchMessageA(wnd, w, site)
  \/ \E i \in Imports : ImportOverflow(i)
  \/ \E n \in {CreateArguments, UpdateArguments} : SendOverflow(n)
  \/ SendAsserts

Return == \E w \in Scratch : ProcedureReturn(w)
Interpreter ==
  ProcedureEnter \/ ProcedureOverflow \/ HandlerEnter \/ HandlerCall \/ HandlerCallOverflow
    \/ HandlerNext \/ HandlerExit

Next == Guest \/ Return \/ Interpreter

Spec == Init /\ [][Next]_vars

\* The run loop executes one instruction after the other; that every activation
\* of the window procedure returns is assumed of the guest.
FairSpec == Spec /\ WF_vars(Interpreter) /\ WF_vars(Return)

--------------------------------------------------------------------------------
(* Properties *)

Word == Nat \cup Sites \cup Scratch \cup {Procedure, AfterCall, Junk, Brush}
Struct == {"create", "rect", "pos changed", "uninitialised"}
MessageRecord == [message : Nat \cup Scratch \cup {Junk}, wParam : Word, lParam : Word]

\* Type invariant; ebp lies on the stack, at most three unchecked words above
\* what the stack has room for.
TypeOK ==
  /\ stack \in Seq(Word) /\ Len(stack) < StackWords + 3
  /\ ebp \in 0..Len(stack)
  /\ eip \in Sites \cup {Procedure, Handler, Loop, AfterCall}
  /\ eax \in Word
  /\ memory \in Seq(MessageRecord)
  /\ structs \in Seq(Struct)
  /\ windows \in 0..MaxSends /\ sent \in 0..MaxSends
  /\ status \in {"running", "stack overflow", "not a window or not WM_PAINT"}

(* The frames, read off the stack as a debugger would. *)

\* Frame pointers of stack s up to f, outermost first: guest code and handlers in
\* turn.  A word that does not point down the stack links no frame.
FramesIn(s, f) ==
  LET frames[x \in 0..Len(s)] ==
        IF x # 0 /\ s[x] \in 0..(x - 1) THEN Append(frames[s[x]], x) ELSE <<x>>
  IN  frames[f]

\* The frames with stack s, ebp e and eip i.  At an entry point the prologue, which
\* pushes ebp, is as good as run.
AtEntry(i) == i \in {Procedure, Handler}
FramesOf(s, e, i) ==
  IF AtEntry(i) THEN Append(FramesIn(s, e), Len(s) + 1) ELSE FramesIn(s, e)
Frames == FramesOf(stack, ebp, eip)

ChainOf(s, e, i) == IF AtEntry(i) THEN Append(s, e) ELSE s
InnermostOf(s, e, i) == IF AtEntry(i) THEN Len(s) + 1 ELSE e

\* The frame of a handler at f, of guest code whose frame is g: the six words of
\* its arguments lie above g.
HandlerFrameAt(c, g, f) ==
  /\ g + 7 <= f
  /\ c[f - 1] \in Sites /\ c[f - 3] \in Nat \ {0} /\ c[f - 4] \in Nat

\* The frame of a window procedure at f, called by the handler whose frame is h
\* for a message it has not counted yet.
ProcedureFrameAt(c, h, f) ==
  /\ f = h + 9
  /\ c[f - 1] = AfterCall /\ c[h - 4] # 0

\* The k-th frame, at f, is linked to the one before it, at g.
Link(c, k, g, f) ==
  /\ c[f] = g
  /\ k % 2 = 0 => HandlerFrameAt(c, g, f)
  /\ k % 2 # 0 => ProcedureFrameAt(c, g, f)

Linked(c, fs) ==
  /\ fs \in Seq(Nat) /\ Len(fs) >= 1 /\ fs[1] = 0
  /\ \A j, k \in 1..Len(fs) : j < k => fs[j] < fs[k]
  /\ \A k \in 2..Len(fs) : Link(c, k, fs[k - 1], fs[k])

\* With stack s, ebp e and eip i, the frames are fs: the last belongs to guest
\* code or to a handler, as eip says, and nothing but a handler's locals lies
\* above its frame pointer.
Framed(s, e, i, fs) ==
  /\ Linked(ChainOf(s, e, i), fs)
  /\ fs[Len(fs)] = InnermostOf(s, e, i)
  /\ e <= Len(s)
  /\ Len(fs) % 2 = 1 <=> i \in Sites \cup {Procedure}
  /\ i \in {Loop, AfterCall} => Len(s) = e + 3
  /\ i = AfterCall => s[e - 4] # 0

\* The messages the handlers have left lie in the first n that were written.
Held(s, n, fs) ==
  \A k \in 1..Len(fs) : k % 2 = 0 => s[fs[k] - 3] + s[fs[k] - 4] <= n + 1

\* However deep window procedures call back into user32, guest code and handlers
\* alternate on the stack, every frame is linked to the one below it, and a
\* handler finds its count, its messages and its return address where
\* handleMessages pushed them; no handler reads past the messages it was given.
FramesLinked ==
  Framed(stack, ebp, eip, Frames) /\ Held(stack, Len(memory), Frames)

Asked(s, f) ==
  <<s[f - 2], [message |-> s[f - 3], wParam |-> s[f - 4], lParam |-> s[f - 5]]>>

\* The words of a guest frame end where the arguments of the handler start.
Activation(s, fs, k) ==
  LET f == fs[2 * k - 1]
      end == IF 2 * k <= Len(fs) THEN fs[2 * k] - 7 ELSE Len(s)
  IN  [asked |-> IF f = 0 THEN <<>> ELSE Asked(s, f), locals |-> SubSeq(s, f + 1, end)]
Activations(s, fs) == [k \in 1..((Len(fs) + 1) \div 2) |-> Activation(s, fs, k)]

\* A handler counts a message only when its procedure has returned.
Pending(s, i, m, fs, k) ==
  LET f == fs[2 * k]
      begun == IF 2 * k < Len(fs) \/ i = AfterCall THEN 1 ELSE 0
  IN  [window |-> s[f - 2],
       left |-> [j \in 1..(s[f - 4] - begun) |-> Load(m, s[f - 3] + begun + j - 1)],
       answer |-> s[f - 6],
       place |-> s[f - 1]]
PendingSends(s, i, m, fs) == [k \in 1..(Len(fs) \div 2) |-> Pending(s, i, m, fs, k)]

Calls == INSTANCE WindowCalls WITH
  Places <- Sites, Entry <- Procedure, Waiting <- Handler,
  acts <- Activations(stack, Frames),
  sends <- PendingSends(stack, eip, memory, Frames),
  at <- IF eip \in {Loop, AfterCall} THEN Handler ELSE eip,
  value <- IF eip \in Sites THEN eax ELSE Junk,
  halted <- status # "running"

\* Through any nesting of calls and window procedures, the stack the proxies and
\* handle_messages leave is one on which every message is delivered once and in
\* order, every call returns its own answer to its own place, and no activation
\* loses a word.
ImplementsWindowCalls == Calls!CallsSpec

\* Whoever is told WM_WINDOWPOSCHANGED is told a position: line 334 of
\* FEUser32DLL.m names the message, and lines 290-293 the bytes Windows passes.
PosChangedFilled ==
  LET acts == Activations(stack, Frames) IN
  \A k \in DOMAIN acts :
    LET asked == acts[k].asked IN
    asked # <<>> /\ asked[2].message = WM_WINDOWPOSCHANGED =>
      structs[asked[2].lParam] = "pos changed"

\* A call that sends messages returns: handle_messages comes to its end.
SendsReturn ==
  \A n \in 1..MaxSends :
    (status = "running" /\ Len(Frames) \div 2 = n)
      ~> (status # "running" \/ Len(Frames) \div 2 < n)
================================================================================
