---------------------------- MODULE GuestCallsProofs ----------------------------
(***************************************************************************)
(* What holds of GuestCalls for every stack, every set of places, words and *)
(* imported functions, and every depth of nested calls.                     *)
(*                                                                         *)
(* The stack is read as a debugger reads it: as a list of frame positions,  *)
(* guest code and handle_messages in turn, each linked to the one below.    *)
(* With the frames known, what WindowCalls sees of the stack is known, and   *)
(* every step of GuestCalls is a step of WindowCalls or changes none of it.  *)
(***************************************************************************)
EXTENDS GuestCalls, WellFoundedInduction, TLAPS

\* The C side never drops more words than the prototype declares.  (Fewer it
\* does drop: QueryPerformanceCounter.)
KeepsCallers == \A i \in Imports : i.returned <= i.declared

--------------------------------------------------------------------------------
(* Linked frames *)

\* Frame pointers above the bottom of the stack have room for a handler's words
\* below them, and none lies above the last.
LEMMA LinkedPositions ==
  ASSUME NEW c, NEW fs, Linked(c, fs)
  PROVE  /\ Len(fs) \in Nat /\ fs[Len(fs)] \in Nat
         /\ \A k \in 1..Len(fs) : fs[k] \in Nat /\ fs[k] <= fs[Len(fs)]
         /\ \A k \in 2..Len(fs) : fs[k] >= 7 /\ fs[k - 1] \in Nat
<1>1. Len(fs) \in Nat /\ Len(fs) >= 1 /\ \A k \in 1..Len(fs) : fs[k] \in Nat
  BY DEF Linked
<1>2. \A k \in 1..Len(fs) : fs[k] <= fs[Len(fs)]
  <2> SUFFICES ASSUME NEW k \in 1..Len(fs) PROVE fs[k] <= fs[Len(fs)]
    OBVIOUS
  <2>1. k < Len(fs) => fs[k] < fs[Len(fs)]
    BY <1>1 DEF Linked
  <2> QED
    BY <1>1, <2>1
<1>3. ASSUME NEW k \in 2..Len(fs) PROVE fs[k] >= 7 /\ fs[k - 1] \in Nat
  <2>1. Link(c, k, fs[k - 1], fs[k]) /\ fs[k - 1] \in Nat /\ fs[k] \in Nat
    BY <1>1, <1>3 DEF Linked
  <2> QED
    BY <2>1 DEF Link, HandlerFrameAt, ProcedureFrameAt
<1> QED
  BY <1>1, <1>2, <1>3

\* Nothing above the last frame pointer matters to the frames.
LEMMA LinkedSame ==
  ASSUME NEW c, NEW d, NEW fs, Linked(c, fs), \A i \in 1..fs[Len(fs)] : d[i] = c[i]
  PROVE  Linked(d, fs)
<1> SUFFICES ASSUME NEW k \in 2..Len(fs) PROVE Link(d, k, fs[k - 1], fs[k])
  BY DEF Linked
<1>1. /\ fs[k] \in Nat /\ fs[k] <= fs[Len(fs)] /\ fs[k] >= 7
      /\ fs[k - 1] \in Nat /\ fs[k - 1] <= fs[Len(fs)] /\ fs[Len(fs)] \in Nat
      /\ Len(fs) \in Nat
  BY LinkedPositions
<1>2. Link(c, k, fs[k - 1], fs[k])
  BY DEF Linked
<1> DEFINE f == fs[k]  g == fs[k - 1]  top == fs[Len(fs)]
<1>3. d[f] = c[f] /\ d[f - 1] = c[f - 1] /\ d[f - 3] = c[f - 3] /\ d[f - 4] = c[f - 4]
  <2>1. f \in 1..top /\ f - 1 \in 1..top /\ f - 3 \in 1..top /\ f - 4 \in 1..top
    BY <1>1
  <2> QED
    BY <2>1
<1>4. k % 2 # 0 => d[g - 4] = c[g - 4]
  <2> SUFFICES ASSUME k % 2 # 0 PROVE d[g - 4] = c[g - 4]
    OBVIOUS
  <2>1. k - 1 \in 2..Len(fs)
    BY <1>1
  <2>2. g >= 7
    BY <2>1, LinkedPositions
  <2>3. g - 4 \in 1..top
    BY <1>1, <2>2
  <2> QED
    BY <2>3
<1> QED
  BY <1>2, <1>3, <1>4 DEF Link, HandlerFrameAt, ProcedureFrameAt

AllButLast(c, fs, es) ==
  /\ Linked(c, es) /\ Len(es) = Len(fs) - 1
  /\ \A k \in 1..(Len(fs) - 1) : es[k] = fs[k]

\* A return takes the last frame away.
LEMMA LinkedPop ==
  ASSUME NEW c, NEW fs, Linked(c, fs), Len(fs) > 1
  PROVE  AllButLast(c, fs, SubSeq(fs, 1, Len(fs) - 1))
<1> DEFINE es == SubSeq(fs, 1, Len(fs) - 1)
<1>1. fs \in Seq(Nat) /\ Len(fs) \in Nat
  BY DEF Linked
<1>2. /\ es \in Seq(Nat) /\ Len(es) = Len(fs) - 1
      /\ \A k \in 1..(Len(fs) - 1) : es[k] = fs[k]
  BY <1>1
<1> HIDE DEF es
<1>3. ASSUME NEW j \in 1..Len(es), NEW k \in 1..Len(es), j < k PROVE es[j] < es[k]
  <2>1. j \in 1..(Len(fs) - 1) /\ k \in 1..(Len(fs) - 1)
    BY <1>2
  <2>2. j \in 1..Len(fs) /\ k \in 1..Len(fs)
    BY <1>1, <2>1
  <2> QED
    BY <1>2, <1>3, <2>1, <2>2 DEF Linked
<1>4. ASSUME NEW k \in 2..Len(es) PROVE Link(c, k, es[k - 1], es[k])
  <2>1. k \in 2..(Len(fs) - 1)
    BY <1>2
  <2>2. k \in 2..Len(fs) /\ k \in 1..(Len(fs) - 1) /\ k - 1 \in 1..(Len(fs) - 1)
    BY <1>1, <2>1
  <2>3. es[k] = fs[k] /\ es[k - 1] = fs[k - 1]
    BY <1>2, <2>2
  <2> QED
    BY <2>2, <2>3 DEF Linked
<1>5. Linked(c, es)
  BY <1>1, <1>2, <1>3, <1>4 DEF Linked
<1> QED
  BY <1>2, <1>5 DEF es, AllButLast

\* A call or a send puts one on.
LEMMA LinkedPush ==
  ASSUME NEW c, NEW fs, Linked(c, fs), NEW f \in Nat, fs[Len(fs)] < f,
         Link(c, Len(fs) + 1, fs[Len(fs)], f)
  PROVE  /\ Linked(c, Append(fs, f))
         /\ Len(Append(fs, f)) = Len(fs) + 1 /\ Append(fs, f)[Len(fs) + 1] = f
         /\ \A k \in 1..Len(fs) : Append(fs, f)[k] = fs[k]
<1> DEFINE gs == Append(fs, f)
<1>1. fs \in Seq(Nat) /\ Len(fs) \in Nat /\ Len(fs) >= 1
  BY DEF Linked
<1>2. /\ gs \in Seq(Nat) /\ Len(gs) = Len(fs) + 1 /\ gs[Len(fs) + 1] = f
      /\ \A k \in 1..Len(fs) : gs[k] = fs[k]
  BY <1>1
<1> HIDE DEF gs
<1>3. ASSUME NEW j \in 1..Len(gs), NEW k \in 1..Len(gs), j < k PROVE gs[j] < gs[k]
  <2>1. j \in 1..Len(fs) /\ gs[j] = fs[j] /\ fs[j] \in Nat /\ fs[j] <= fs[Len(fs)]
    BY <1>1, <1>2, <1>3, LinkedPositions
  <2>2. CASE k = Len(fs) + 1
    BY <1>1, <1>2, <2>1, <2>2, LinkedPositions
  <2>3. CASE k # Len(fs) + 1
    <3>1. k \in 1..(Len(fs) + 1)
      BY <1>2
    <3>2. k \in 1..Len(fs)
      BY <1>1, <2>3, <3>1
    <3> QED
      BY <1>2, <1>3, <2>1, <3>2 DEF Linked
  <2> QED
    BY <2>2, <2>3
<1>4. ASSUME NEW k \in 2..Len(gs) PROVE Link(c, k, gs[k - 1], gs[k])
  <2>1. CASE k = Len(fs) + 1
    BY <1>1, <1>2, <2>1
  <2>2. CASE k # Len(fs) + 1
    <3>1. k \in 2..(Len(fs) + 1)
      BY <1>2
    <3>2. k \in 2..Len(fs) /\ k \in 1..Len(fs) /\ k - 1 \in 1..Len(fs)
      BY <1>1, <2>2, <3>1
    <3>3. gs[k] = fs[k] /\ gs[k - 1] = fs[k - 1]
      BY <1>2, <3>2
    <3> QED
      BY <3>2, <3>3 DEF Linked
  <2> QED
    BY <2>1, <2>2
<1>5. Linked(c, gs)
  BY <1>1, <1>2, <1>3, <1>4 DEF Linked
<1> QED
  BY <1>2, <1>5 DEF gs

--------------------------------------------------------------------------------
(* The frames of a state *)

LEMMA PlacesDiffer ==
  /\ \A i \in Sites : i \notin {Procedure, Handler, Loop, AfterCall}
  /\ {Loop, AfterCall} \cap {Procedure, Handler} = {}
  /\ Handler \notin Sites \cup {Procedure} /\ Procedure \notin Sites /\ Loop # AfterCall
  /\ {Loop, AfterCall} \cap (Sites \cup {Procedure}) = {}
  BY CodeAssumption DEF CodeAssumption

LEMMA StackTypes ==
  ASSUME TypeOK
  PROVE  /\ stack \in Seq(Word) /\ Len(stack) \in Nat /\ ebp \in Nat
         /\ \A k \in 1..Len(stack) : stack[k] \in Word
<1>1. stack \in Seq(Word) /\ ebp \in 0..Len(stack)
  BY DEF TypeOK
<1>2. Len(stack) \in Nat
  BY <1>1
<1>3. \A k \in 1..Len(stack) : stack[k] \in Word
  BY <1>1
<1> QED
  BY <1>1, <1>2, <1>3

LEMMA ShorterStack ==
  ASSUME NEW S, NEW s \in Seq(S), NEW n \in Nat, n <= Len(s)
  PROVE  /\ SubSeq(s, 1, n) \in Seq(S) /\ Len(SubSeq(s, 1, n)) = n
         /\ \A i \in 1..n : SubSeq(s, 1, n)[i] = s[i]
  OBVIOUS

\* Guest code works above its frame pointer.
LEMMA WorkFrames ==
  ASSUME TypeOK, NEW fs, Framed(stack, ebp, eip, fs), eip \in Sites,
         NEW s, Len(s) \in Nat, ebp <= Len(s), \A i \in 1..ebp : s[i] = stack[i],
         NEW p \in Sites
  PROVE  Framed(s, ebp, p, fs)
<1>1. /\ Linked(stack, fs) /\ fs[Len(fs)] = ebp /\ Len(fs) % 2 = 1
  BY PlacesDiffer DEF Framed, ChainOf, InnermostOf, AtEntry
<1>2. Linked(s, fs)
  BY <1>1, LinkedSame
<1> QED
  BY <1>1, <1>2, PlacesDiffer DEF Framed, ChainOf, InnermostOf, AtEntry

\* The prologue makes a frame of what was already counted as one.
LEMMA EnterFrames ==
  ASSUME TypeOK, NEW fs, Framed(stack, ebp, eip, fs), eip = Procedure, NEW p \in Sites
  PROVE  Framed(Append(stack, ebp), Len(stack) + 1, p, fs)
<1>1. /\ Linked(Append(stack, ebp), fs) /\ fs[Len(fs)] = Len(stack) + 1 /\ Len(fs) % 2 = 1
  BY DEF Framed, ChainOf, InnermostOf, AtEntry
<1>2. Len(Append(stack, ebp)) = Len(stack) + 1 /\ Len(stack) \in Nat
  BY StackTypes
<1> QED
  BY <1>1, <1>2, PlacesDiffer DEF Framed, ChainOf, InnermostOf, AtEntry

\* A frame of guest code that is not the first was called by a handler.
LEMMA CalledByHandler ==
  ASSUME TypeOK, NEW fs, Framed(stack, ebp, eip, fs), eip \in Sites, ebp # 0
  PROVE  /\ Len(fs) \in Nat /\ Len(fs) > 2 /\ fs[Len(fs) - 1] \in Nat /\ fs[Len(fs) - 1] >= 7
         /\ Linked(stack, fs) /\ fs[Len(fs)] = ebp /\ Len(fs) % 2 = 1
         /\ stack[ebp] = fs[Len(fs) - 1] /\ ebp = fs[Len(fs) - 1] + 9
         /\ stack[ebp - 1] = AfterCall /\ stack[fs[Len(fs) - 1] - 4] # 0
<1>1. /\ Linked(stack, fs) /\ fs[Len(fs)] = ebp /\ Len(fs) % 2 = 1
  BY PlacesDiffer DEF Framed, ChainOf, InnermostOf, AtEntry
<1>2. Len(fs) \in Nat /\ Len(fs) > 1
  BY <1>1 DEF Linked
<1>3. Len(fs) > 2
  BY <1>1, <1>2
<1>4. Len(fs) \in 2..Len(fs) /\ Len(fs) - 1 \in 2..Len(fs) /\ Len(fs) % 2 # 0
  BY <1>1, <1>2, <1>3
<1>5. Link(stack, Len(fs), fs[Len(fs) - 1], ebp)
  BY <1>1, <1>4 DEF Linked
<1>6. fs[Len(fs) - 1] \in Nat /\ fs[Len(fs) - 1] >= 7
  BY <1>1, <1>4, LinkedPositions
<1> QED
  BY <1>1, <1>2, <1>3, <1>4, <1>5, <1>6 DEF Link, ProcedureFrameAt

LEMMA ReturnFrames ==
  ASSUME TypeOK, NEW fs, Framed(stack, ebp, eip, fs), eip \in Sites, ebp # 0,
         NEW s, s = SubSeq(stack, 1, ebp - 2 - 4)
  PROVE  Framed(s, stack[ebp], AfterCall, SubSeq(fs, 1, Len(fs) - 1))
<1> DEFINE h == fs[Len(fs) - 1]
           es == SubSeq(fs, 1, Len(fs) - 1)
<1>1. /\ Len(fs) \in Nat /\ Len(fs) > 2 /\ h \in Nat /\ h >= 7
      /\ Linked(stack, fs) /\ Len(fs) % 2 = 1
      /\ stack[ebp] = h /\ ebp = h + 9 /\ stack[h - 4] # 0
  BY CalledByHandler
<1>2. Linked(stack, es) /\ Len(es) = Len(fs) - 1 /\ es[Len(es)] = h
  <2>1. Len(fs) > 1 /\ Len(fs) - 1 \in 1..(Len(fs) - 1)
    BY <1>1
  <2>2. AllButLast(stack, fs, es)
    BY <1>1, <2>1, LinkedPop, Zenon
  <2> HIDE DEF es
  <2> QED
    BY <2>1, <2>2, Zenon DEF AllButLast
<1> HIDE DEF h, es
<1>3. ebp <= Len(stack) /\ Len(stack) \in Nat /\ stack \in Seq(Word)
  BY StackTypes DEF Framed
<1>4. ebp - 2 - 4 = h + 3
  BY <1>1
<1>5. Len(s) = h + 3 /\ \A i \in 1..(h + 3) : s[i] = stack[i]
  <2>1. h + 3 \in Nat /\ h + 3 <= Len(stack)
    BY <1>1, <1>3
  <2> QED
    BY <1>3, <1>4, <2>1, ShorterStack
<1>6. \A i \in 1..es[Len(es)] : s[i] = stack[i]
  <2>1. 1..h \subseteq 1..(h + 3)
    BY <1>1
  <2> QED
    BY <1>2, <1>5, <2>1
<1>7. Linked(s, es)
  BY <1>2, <1>6, LinkedSame
<1>8. s[h - 4] # 0
  <2>1. h - 4 \in 1..(h + 3)
    BY <1>1
  <2> QED
    BY <1>1, <1>5, <2>1
<1>9. Len(es) % 2 # 1
  BY <1>1, <1>2
<1>10. h <= Len(s)
  BY <1>1, <1>5
<1> QED
  BY <1>1, <1>2, <1>5, <1>7, <1>8, <1>9, <1>10, PlacesDiffer DEF Framed, ChainOf, InnermostOf, AtEntry, es

JoinOf(S, u, s, t) ==
  /\ u \in Seq(S) /\ Len(u) = Len(s) + Len(t)
  /\ \A i \in 1..Len(s) : u[i] = s[i]
  /\ \A i \in 1..Len(t) : u[Len(s) + i] = t[i]

LEMMA Joined ==
  ASSUME NEW S, NEW s \in Seq(S), NEW t \in Seq(S)
  PROVE  JoinOf(S, s \o t, s, t)
  BY DEF JoinOf

AppendOf(S, u, s, x) ==
  /\ u \in Seq(S) /\ Len(u) = Len(s) + 1
  /\ u[Len(s) + 1] = x
  /\ \A i \in 1..Len(s) : u[i] = s[i]

LEMMA Appended ==
  ASSUME NEW S, NEW s \in Seq(S), NEW x \in S
  PROVE  AppendOf(S, Append(s, x), s, x)
  BY DEF AppendOf

\* The six words handleMessages pushes are the arguments of a handler.
LEMMA SendFrames ==
  ASSUME TypeOK, NEW fs, Framed(stack, ebp, eip, fs), eip \in Sites,
         NEW result \in Word, NEW count \in Nat, NEW messages \in Nat \ {0}, NEW wnd \in Word,
         NEW return \in Sites,
         NEW s, s = stack \o HandlerFrame(result, count, messages, wnd, return)
  PROVE  Framed(s, ebp, Handler, Append(fs, Len(stack) + 7))
<1> DEFINE words == HandlerFrame(result, count, messages, wnd, return)
           c == Append(s, ebp)
           n == Len(stack)
           f == n + 7
           gs == Append(fs, f)
<1>1. /\ Linked(stack, fs) /\ fs[Len(fs)] = ebp /\ Len(fs) % 2 = 1 /\ Len(fs) \in Nat
      /\ ebp <= n
  BY PlacesDiffer, LinkedPositions DEF Framed, ChainOf, InnermostOf, AtEntry
<1>2. stack \in Seq(Word) /\ n \in Nat /\ ebp \in Nat
  BY StackTypes
<1>3. words \in Seq(Word) /\ Len(words) = 6
  <2>1. /\ result \in Word /\ Procedure \in Word /\ count \in Word
        /\ messages \in Word /\ wnd \in Word /\ return \in Word
    BY DEF Word
  <2> QED
    BY <2>1 DEF HandlerFrame
<1>4. words[3] = count /\ words[4] = messages /\ words[6] = return
  BY DEF HandlerFrame
<1>5. /\ s \in Seq(Word) /\ Len(s) = n + 6
      /\ \A i \in 1..n : s[i] = stack[i]
      /\ \A i \in 1..6 : s[n + i] = words[i]
  <2>1. s = stack \o words /\ Len(stack) = n
    OBVIOUS
  <2> HIDE DEF words, n
  <2>2. /\ stack \o words \in Seq(Word) /\ Len(stack \o words) = n + 6
        /\ \A i \in 1..n : (stack \o words)[i] = stack[i]
        /\ \A i \in 1..6 : (stack \o words)[n + i] = words[i]
    <3>1. JoinOf(Word, stack \o words, stack, words)
      BY <1>2, <1>3, Joined, Zenon
    <3> QED
      BY <1>2, <1>3, <2>1, <3>1 DEF JoinOf
  <2> QED
    BY <2>1, <2>2
<1> HIDE DEF words, n
<1>6. /\ Len(c) = n + 7 /\ c[n + 7] = ebp
      /\ \A i \in 1..(n + 6) : c[i] = s[i]
  <2>1. ebp \in Word
    BY <1>2 DEF Word
  <2>2. AppendOf(Word, c, s, ebp)
    BY <1>5, <2>1, Appended, Zenon
  <2> HIDE DEF c
  <2>3. Len(s) + 1 = n + 7 /\ 1..Len(s) = 1..(n + 6)
    BY <1>2, <1>5
  <2>4. /\ Len(c) = Len(s) + 1 /\ c[Len(s) + 1] = ebp
        /\ \A i \in 1..Len(s) : c[i] = s[i]
    BY <2>2, Zenon DEF AppendOf
  <2> QED
    BY <2>3, <2>4, Zenon
<1> HIDE DEF c
<1>7. \A i \in 1..fs[Len(fs)] : c[i] = stack[i]
  <2>1. 1..ebp \subseteq 1..n /\ 1..n \subseteq 1..(n + 6)
    BY <1>1, <1>2
  <2> QED
    BY <1>1, <1>5, <1>6, <2>1
<1>8. Linked(c, fs)
  BY <1>1, <1>7, LinkedSame
<1>9. s[n + 3] = count /\ s[n + 4] = messages /\ s[n + 6] = return
  <2>1. 3 \in 1..6 /\ 4 \in 1..6 /\ 6 \in 1..6
    OBVIOUS
  <2> QED
    BY <1>4, <1>5, <2>1
<1>10. c[n + 3] = count /\ c[n + 4] = messages /\ c[n + 6] = return
  <2>1. n + 3 \in 1..(n + 6) /\ n + 4 \in 1..(n + 6) /\ n + 6 \in 1..(n + 6)
    BY <1>2
  <2> QED
    BY <1>6, <1>9, <2>1
<1>11. f \in Nat /\ ebp + 7 <= f /\ f - 1 = n + 6 /\ f - 3 = n + 4 /\ f - 4 = n + 3
  BY <1>1, <1>2
<1>12. (Len(fs) + 1) % 2 = 0
  BY <1>1
<1>13. Link(c, Len(fs) + 1, fs[Len(fs)], f)
  BY <1>1, <1>6, <1>10, <1>11, <1>12 DEF Link, HandlerFrameAt
<1>14. Linked(c, gs) /\ Len(gs) = Len(fs) + 1 /\ gs[Len(gs)] = f
  <2>1. fs[Len(fs)] < f
    BY <1>1, <1>2, <1>11
  <2> HIDE DEF f
  <2> QED
    BY <1>8, <1>11, <1>13, <2>1, LinkedPush
<1>15. ebp <= Len(s) /\ Len(s) + 1 = f /\ Len(gs) % 2 # 1
  BY <1>1, <1>2, <1>5, <1>12, <1>14
<1> QED
  BY <1>14, <1>15, PlacesDiffer DEF Framed, ChainOf, InnermostOf, AtEntry, c, n

\* A handler's locals lie above its frame.
LEMMA HandlerEnterFrames ==
  ASSUME TypeOK, NEW fs, Framed(stack, ebp, eip, fs), eip = Handler,
         NEW s, s = stack \o <<ebp, Junk, Junk, Junk>>
  PROVE  Framed(s, Len(stack) + 1, Loop, fs)
<1> DEFINE n == Len(stack)
           words == <<ebp, Junk, Junk, Junk>>
<1>1. /\ Linked(Append(stack, ebp), fs) /\ fs[Len(fs)] = n + 1 /\ Len(fs) % 2 # 1
  BY PlacesDiffer DEF Framed, ChainOf, InnermostOf, AtEntry
<1>2. stack \in Seq(Word) /\ n \in Nat /\ ebp \in Nat
  BY StackTypes
<1>3. words \in Seq(Word) /\ Len(words) = 4 /\ words[1] = ebp
  BY <1>2 DEF Word
<1> HIDE DEF words
<1>4. /\ s \in Seq(Word) /\ Len(s) = n + 4
      /\ \A i \in 1..n : s[i] = stack[i]
      /\ \A i \in 1..4 : s[n + i] = words[i]
  <2>1. s = stack \o words
    BY DEF words
  <2>2. JoinOf(Word, stack \o words, stack, words)
    BY <1>2, <1>3, Joined, Zenon
  <2> QED
    BY <1>2, <1>3, <2>1, <2>2 DEF JoinOf
<1>5. s[n + 1] = ebp
  BY <1>3, <1>4
<1>6. \A i \in 1..(n + 1) : s[i] = Append(stack, ebp)[i]
  BY <1>2, <1>4, <1>5
<1>7. Linked(s, fs)
  BY <1>1, <1>6, LinkedSame
<1>8. n + 1 <= Len(s) /\ Len(s) = (n + 1) + 3
  BY <1>2, <1>4
<1> QED
  BY <1>1, <1>7, <1>8, PlacesDiffer DEF Framed, ChainOf, InnermostOf, AtEntry

\* What a handler finds in its own frame.
LEMMA InHandler ==
  ASSUME TypeOK, NEW fs, Framed(stack, ebp, eip, fs), eip \in {Loop, AfterCall}
  PROVE  /\ Len(fs) \in Nat /\ Len(fs) >= 2 /\ Len(fs) % 2 = 0
         /\ Linked(stack, fs) /\ fs[Len(fs)] = ebp /\ Len(stack) = ebp + 3
         /\ fs[Len(fs) - 1] \in Nat /\ stack[ebp] = fs[Len(fs) - 1]
         /\ ebp \in Nat /\ fs[Len(fs) - 1] + 7 <= ebp
         /\ stack[ebp - 1] \in Sites /\ Messages \in Nat \ {0} /\ Count \in Nat
<1>1. /\ Linked(stack, fs) /\ fs[Len(fs)] = ebp /\ Len(fs) % 2 # 1 /\ Len(stack) = ebp + 3
  BY PlacesDiffer DEF Framed, ChainOf, InnermostOf, AtEntry
<1>2. Len(fs) \in Nat /\ Len(fs) >= 1
  BY <1>1 DEF Linked
<1>3. Len(fs) >= 2 /\ Len(fs) % 2 = 0
  BY <1>1, <1>2
<1>4. Len(fs) \in 2..Len(fs)
  BY <1>2, <1>3
<1>5. Link(stack, Len(fs), fs[Len(fs) - 1], ebp)
  BY <1>1, <1>4 DEF Linked
<1>6. fs[Len(fs) - 1] \in Nat /\ ebp \in Nat
  BY <1>1, <1>4, LinkedPositions
<1> QED
  BY <1>1, <1>2, <1>3, <1>5, <1>6 DEF Link, HandlerFrameAt, Messages, Count

\* What the handler pushes for a call of the procedure.
CallOf(s, b, wnd, code, wParam, lParam) ==
  LET n == Len(b) IN
  /\ s \in Seq(Word) /\ Len(s) = n + 8
  /\ \A i \in 1..n : s[i] = b[i]
  /\ s[n + 8] = AfterCall
  /\ s[n + 7] = wnd /\ s[n + 6] = code /\ s[n + 5] = wParam /\ s[n + 4] = lParam

LEMMA CallWords ==
  ASSUME NEW b \in Seq(Word),
         NEW code \in Word, NEW wParam \in Word, NEW lParam \in Word, NEW wnd \in Word,
         NEW s, s = b \o <<lParam, wParam, code>> \o <<lParam, wParam, code, wnd>> \o <<AfterCall>>
  PROVE  CallOf(s, b, wnd, code, wParam, lParam)
<1> DEFINE n == Len(b)
<1>0. n \in Nat
  OBVIOUS
<1> DEFINE locals == <<lParam, wParam, code>>
           arguments == <<lParam, wParam, code, wnd>>
           return == <<AfterCall>>
           s1 == b \o locals
           s2 == s1 \o arguments
           s3 == s2 \o return
<1>1. /\ locals \in Seq(Word) /\ Len(locals) = 3
      /\ arguments \in Seq(Word) /\ Len(arguments) = 4
      /\ arguments[1] = lParam /\ arguments[2] = wParam /\ arguments[3] = code /\ arguments[4] = wnd
      /\ return \in Seq(Word) /\ Len(return) = 1 /\ return[1] = AfterCall
  BY DEF Word
<1>2. s = s3
  OBVIOUS
<1>a. Len(b) = n
  OBVIOUS
<1> HIDE DEF locals, arguments, return, n
<1>3. s1 \in Seq(Word) /\ Len(s1) = n + 3 /\ \A i \in 1..n : s1[i] = b[i]
  <2>1. JoinOf(Word, s1, b, locals)
    BY <1>1, Joined, Zenon
  <2> QED
    BY <1>0, <1>a, <1>1, <2>1 DEF JoinOf
<1> HIDE DEF s1
<1>4. /\ s2 \in Seq(Word) /\ Len(s2) = n + 7 /\ \A i \in 1..n : s2[i] = b[i]
      /\ s2[n + 4] = lParam /\ s2[n + 5] = wParam /\ s2[n + 6] = code /\ s2[n + 7] = wnd
  <2>1. JoinOf(Word, s2, s1, arguments)
    BY <1>1, <1>3, Joined, Zenon
  <2> HIDE DEF s2
  <2>2. /\ s2 \in Seq(Word) /\ Len(s2) = (n + 3) + 4
        /\ \A i \in 1..(n + 3) : s2[i] = s1[i]
        /\ \A i \in 1..4 : s2[(n + 3) + i] = arguments[i]
    BY <1>0, <1>1, <1>3, <2>1 DEF JoinOf
  <2>3. \A i \in 1..n : s2[i] = b[i]
    BY <1>0, <1>3, <2>2
  <2>4. /\ s2[(n + 3) + 1] = lParam /\ s2[(n + 3) + 2] = wParam
        /\ s2[(n + 3) + 3] = code /\ s2[(n + 3) + 4] = wnd
    BY <1>0, <1>1, <2>2
  <2> QED
    BY <1>0, <2>2, <2>3, <2>4
<1> HIDE DEF s2
<1>5. /\ s3 \in Seq(Word) /\ Len(s3) = n + 8
      /\ \A i \in 1..(n + 7) : s3[i] = s2[i]
      /\ s3[n + 8] = AfterCall
  <2>1. JoinOf(Word, s3, s2, return)
    BY <1>1, <1>4, Joined, Zenon
  <2> HIDE DEF s3
  <2>2. /\ s3 \in Seq(Word) /\ Len(s3) = (n + 7) + 1
        /\ \A i \in 1..(n + 7) : s3[i] = s2[i]
        /\ \A i \in 1..1 : s3[(n + 7) + i] = return[i]
    BY <1>0, <1>1, <1>4, <2>1 DEF JoinOf
  <2>3. s3[(n + 7) + 1] = AfterCall
    BY <1>0, <1>1, <2>2
  <2> QED
    BY <1>0, <2>2, <2>3
<1> HIDE DEF s3
<1>6. \A i \in 1..n : s3[i] = b[i]
  BY <1>0, <1>4, <1>5
<1>7. /\ s3[n + 4] = s2[n + 4] /\ s3[n + 5] = s2[n + 5]
      /\ s3[n + 6] = s2[n + 6] /\ s3[n + 7] = s2[n + 7]
  <2>1. {n + 4, n + 5, n + 6, n + 7} \subseteq 1..(n + 7)
    BY <1>0
  <2> QED
    BY <1>5, <2>1
<1> QED
  BY <1>2, <1>4, <1>5, <1>6, <1>7 DEF CallOf, n

CalledFor(s, wnd, code, wParam, lParam) ==
  /\ s \in Seq(Word) /\ Len(s) = ebp + 8 /\ \A i \in 1..ebp : s[i] = stack[i]
  /\ s[ebp + 7] = wnd /\ s[ebp + 6] = code /\ s[ebp + 5] = wParam /\ s[ebp + 4] = lParam

LEMMA HandlerCallFrames ==
  ASSUME TypeOK, NEW fs, Framed(stack, ebp, eip, fs), eip = Loop, Count # 0,
         NEW code \in Word, NEW wParam \in Word, NEW lParam \in Word, NEW wnd \in Word,
         NEW s, s = SubSeq(stack, 1, ebp) \o <<lParam, wParam, code>>
                      \o <<lParam, wParam, code, wnd>> \o <<AfterCall>>
  PROVE  /\ Framed(s, ebp, Procedure, Append(fs, ebp + 9))
         /\ CalledFor(s, wnd, code, wParam, lParam)
<1> DEFINE b == SubSeq(stack, 1, ebp)
           c == Append(s, ebp)
           f == ebp + 9
           gs == Append(fs, f)
<1>1. /\ Len(fs) \in Nat /\ Len(fs) >= 2 /\ Len(fs) % 2 = 0
      /\ Linked(stack, fs) /\ fs[Len(fs)] = ebp /\ Len(stack) = ebp + 3
      /\ ebp \in Nat /\ ebp >= 7
  <2>1. /\ Len(fs) \in Nat /\ Len(fs) >= 2 /\ Len(fs) % 2 = 0
        /\ Linked(stack, fs) /\ fs[Len(fs)] = ebp /\ Len(stack) = ebp + 3
        /\ fs[Len(fs) - 1] \in Nat /\ ebp \in Nat /\ fs[Len(fs) - 1] + 7 <= ebp
    BY InHandler
  <2> QED
    BY <2>1
<1>2. b \in Seq(Word) /\ Len(b) = ebp /\ \A i \in 1..ebp : b[i] = stack[i]
  BY <1>1, StackTypes, ShorterStack
<1> HIDE DEF b
<1>3. s = b \o <<lParam, wParam, code>> \o <<lParam, wParam, code, wnd>> \o <<AfterCall>>
  BY DEF b
<1>4. /\ s \in Seq(Word) /\ Len(s) = ebp + 8
      /\ \A i \in 1..ebp : s[i] = b[i]
      /\ s[ebp + 8] = AfterCall
      /\ s[ebp + 7] = wnd /\ s[ebp + 6] = code /\ s[ebp + 5] = wParam /\ s[ebp + 4] = lParam
  <2>1. CallOf(s, b, wnd, code, wParam, lParam)
    BY <1>2, <1>3, CallWords, Zenon
  <2> QED
    BY <1>1, <1>2, <2>1 DEF CallOf
<1>5. /\ Len(c) = ebp + 9 /\ c[ebp + 9] = ebp
      /\ \A i \in 1..(ebp + 8) : c[i] = s[i]
  <2>1. ebp \in Word
    BY <1>1 DEF Word
  <2>2. AppendOf(Word, c, s, ebp)
    BY <1>4, <2>1, Appended, Zenon
  <2> HIDE DEF c
  <2>3. Len(s) + 1 = ebp + 9 /\ 1..Len(s) = 1..(ebp + 8)
    BY <1>1, <1>4
  <2>4. /\ Len(c) = Len(s) + 1 /\ c[Len(s) + 1] = ebp
        /\ \A i \in 1..Len(s) : c[i] = s[i]
    BY <2>2, Zenon DEF AppendOf
  <2> QED
    BY <2>3, <2>4, Zenon
<1> HIDE DEF c
<1>6. \A i \in 1..fs[Len(fs)] : c[i] = stack[i]
  BY <1>1, <1>2, <1>4, <1>5
<1>7. Linked(c, fs)
  BY <1>1, <1>6, LinkedSame
<1>8. c[ebp + 8] = AfterCall /\ c[ebp - 4] # 0
  <2>1. ebp + 8 \in 1..(ebp + 8) /\ ebp - 4 \in 1..ebp
    BY <1>1
  <2> QED
    BY <1>1, <1>4, <1>5, <1>6, <2>1 DEF Count
<1>9. f \in Nat /\ ebp < f /\ f - 1 = ebp + 8 /\ (Len(fs) + 1) % 2 = 1
  BY <1>1
<1>10. Link(c, Len(fs) + 1, fs[Len(fs)], f)
  BY <1>1, <1>5, <1>8, <1>9 DEF Link, ProcedureFrameAt
<1>11. Linked(c, gs) /\ Len(gs) = Len(fs) + 1 /\ gs[Len(gs)] = f
  <2>1. fs[Len(fs)] < f /\ f \in Nat
    BY <1>1, <1>9
  <2> HIDE DEF f
  <2> QED
    BY <1>7, <1>10, <2>1, LinkedPush
<1>12. ebp <= Len(s) /\ Len(s) + 1 = f /\ Len(gs) % 2 = 1
  BY <1>1, <1>4, <1>9, <1>11
<1>13. Framed(s, ebp, Procedure, gs)
  BY <1>11, <1>12, PlacesDiffer DEF Framed, ChainOf, InnermostOf, AtEntry, c
<1> QED
  BY <1>2, <1>4, <1>13 DEF CalledFor

\* The last frame may change within its own words.
LEMMA LinkedTop ==
  ASSUME NEW c, NEW d, NEW fs, Linked(c, fs), Len(fs) >= 2,
         \A i \in 1..fs[Len(fs) - 1] : d[i] = c[i],
         Link(d, Len(fs), fs[Len(fs) - 1], fs[Len(fs)])
  PROVE  Linked(d, fs)
<1> DEFINE es == SubSeq(fs, 1, Len(fs) - 1)
<1>1. Len(fs) \in Nat
  BY DEF Linked
<1>2. /\ Linked(c, es) /\ Len(es) = Len(fs) - 1
      /\ \A k \in 1..(Len(fs) - 1) : es[k] = fs[k]
  <2>1. Len(fs) > 1
    BY <1>1
  <2> QED
    BY <2>1, LinkedPop, Zenon DEF AllButLast
<1> HIDE DEF es
<1>3. es[Len(es)] = fs[Len(fs) - 1]
  <2>1. Len(fs) - 1 \in 1..(Len(fs) - 1)
    BY <1>1
  <2> QED
    BY <1>2, <2>1
<1>4. Linked(d, es)
  BY <1>2, <1>3, LinkedSame
<1>5. ASSUME NEW k \in 2..Len(fs) PROVE Link(d, k, fs[k - 1], fs[k])
  <2>1. CASE k = Len(fs)
    BY <2>1
  <2>2. CASE k # Len(fs)
    <3>1. k \in 2..(Len(fs) - 1) /\ k \in 1..(Len(fs) - 1) /\ k - 1 \in 1..(Len(fs) - 1)
      BY <1>1, <2>2
    <3>2. k \in 2..Len(es) /\ es[k] = fs[k] /\ es[k - 1] = fs[k - 1]
      BY <1>2, <3>1
    <3> QED
      BY <1>4, <3>2 DEF Linked
  <2> QED
    BY <2>1, <2>2
<1> QED
  BY <1>5 DEF Linked

\* The count and the message pointer are two words of the handler's own frame.
LEMMA HandlerNextFrames ==
  ASSUME TypeOK, NEW fs, Framed(stack, ebp, eip, fs), eip = AfterCall,
         NEW s, s = CountDown(stack)
  PROVE  /\ Framed(s, ebp, Loop, fs)
         /\ s \in Seq(Word) /\ Len(s) = Len(stack)
         /\ Count \in Nat \ {0} /\ Messages \in Nat
         /\ s[ebp - 4] = Count - 1 /\ s[ebp - 3] = Messages + 1
         /\ \A i \in 1..Len(stack) : i # ebp - 4 /\ i # ebp - 3 => s[i] = stack[i]
<1>1. /\ Len(fs) \in Nat /\ Len(fs) >= 2 /\ Len(fs) % 2 = 0
      /\ Linked(stack, fs) /\ fs[Len(fs)] = ebp /\ Len(stack) = ebp + 3
      /\ fs[Len(fs) - 1] \in Nat /\ stack[ebp] = fs[Len(fs) - 1]
      /\ ebp \in Nat /\ fs[Len(fs) - 1] + 7 <= ebp
      /\ stack[ebp - 1] \in Sites /\ Messages \in Nat /\ Count \in Nat
  BY InHandler
<1>2. Count # 0
  BY DEF Framed, Count
<1>3. /\ ebp - 4 \in 1..Len(stack) /\ ebp - 3 \in 1..Len(stack) /\ ebp - 4 # ebp - 3
      /\ stack \in Seq(Word) /\ Len(stack) \in Nat
  BY <1>1, StackTypes
<1>4. Count - 1 \in Word /\ Messages + 1 \in Word /\ Count - 1 \in Nat /\ Messages + 1 \in Nat
  BY <1>1, <1>2 DEF Word
<1>5. s = [[stack EXCEPT ![ebp - 4] = Count - 1] EXCEPT ![ebp - 3] = Messages + 1]
  BY <1>3 DEF CountDown, Count, Messages
<1>6. /\ s \in Seq(Word) /\ Len(s) = Len(stack)
      /\ s[ebp - 4] = Count - 1 /\ s[ebp - 3] = Messages + 1
      /\ \A i \in 1..Len(stack) : i # ebp - 4 /\ i # ebp - 3 => s[i] = stack[i]
  BY <1>3, <1>4, <1>5
<1> DEFINE g == fs[Len(fs) - 1]
<1>7. \A i \in 1..g : s[i] = stack[i]
  <2>1. \A i \in 1..g : i \in 1..Len(stack) /\ i # ebp - 4 /\ i # ebp - 3
    BY <1>1
  <2> QED
    BY <1>6, <2>1
<1>8. s[ebp] = g /\ s[ebp - 1] \in Sites
  <2>1. /\ ebp \in 1..Len(stack) /\ ebp # ebp - 4 /\ ebp # ebp - 3
        /\ ebp - 1 \in 1..Len(stack) /\ ebp - 1 # ebp - 4 /\ ebp - 1 # ebp - 3
    BY <1>1
  <2> QED
    BY <1>1, <1>6, <2>1
<1>9. Link(s, Len(fs), g, fs[Len(fs)])
  BY <1>1, <1>4, <1>6, <1>8 DEF Link, HandlerFrameAt
<1>10. Linked(s, fs)
  BY <1>1, <1>7, <1>9, LinkedTop
<1>11. ebp <= Len(s) /\ Len(s) = ebp + 3 /\ Len(fs) % 2 # 1
  BY <1>1, <1>6
<1>12. Framed(s, ebp, Loop, fs)
  BY <1>1, <1>10, <1>11, PlacesDiffer DEF Framed, ChainOf, InnermostOf, AtEntry
<1> QED
  BY <1>1, <1>2, <1>6, <1>12

\* A handler returns to the place its call was made from.
LEMMA HandlerExitFrames ==
  ASSUME TypeOK, NEW fs, Framed(stack, ebp, eip, fs), eip = Loop,
         NEW s, s = SubSeq(stack, 1, ebp - 2 - 5)
  PROVE  /\ Framed(s, stack[ebp], stack[ebp - 1], SubSeq(fs, 1, Len(fs) - 1))
         /\ stack[ebp - 1] \in Sites /\ stack[ebp] = fs[Len(fs) - 1] /\ stack[ebp] \in Nat
         /\ s \in Seq(Word) /\ Len(s) = ebp - 7 /\ stack[ebp] <= ebp - 7
         /\ \A i \in 1..(ebp - 7) : s[i] = stack[i]
<1> DEFINE g == fs[Len(fs) - 1]
           es == SubSeq(fs, 1, Len(fs) - 1)
<1>1. /\ Len(fs) \in Nat /\ Len(fs) >= 2 /\ Len(fs) % 2 = 0
      /\ Linked(stack, fs) /\ Len(stack) = ebp + 3
      /\ g \in Nat /\ stack[ebp] = g
      /\ ebp \in Nat /\ g + 7 <= ebp
      /\ stack[ebp - 1] \in Sites
  BY InHandler
<1>2. Linked(stack, es) /\ Len(es) = Len(fs) - 1 /\ es[Len(es)] = g
  <2>1. Len(fs) > 1 /\ Len(fs) - 1 \in 1..(Len(fs) - 1)
    BY <1>1
  <2>2. AllButLast(stack, fs, es)
    BY <1>1, <2>1, LinkedPop, Zenon
  <2> HIDE DEF es
  <2> QED
    BY <2>1, <2>2, Zenon DEF AllButLast
<1> HIDE DEF g, es
<1>3. ebp - 7 \in Nat /\ ebp - 7 <= Len(stack) /\ ebp - 2 - 5 = ebp - 7 /\ g <= ebp - 7
  BY <1>1
<1>4. s \in Seq(Word) /\ Len(s) = ebp - 7 /\ \A i \in 1..(ebp - 7) : s[i] = stack[i]
  BY <1>3, StackTypes, ShorterStack
<1>5. \A i \in 1..es[Len(es)] : s[i] = stack[i]
  BY <1>1, <1>2, <1>3, <1>4
<1>6. Linked(s, es)
  BY <1>2, <1>5, LinkedSame
<1>7. g <= Len(s) /\ Len(es) % 2 = 1
  BY <1>1, <1>2, <1>3, <1>4
<1>8. Framed(s, g, stack[ebp - 1], es)
  BY <1>1, <1>2, <1>6, <1>7, PlacesDiffer DEF Framed, ChainOf, InnermostOf, AtEntry
<1> QED
  BY <1>1, <1>3, <1>4, <1>8 DEF g, es

--------------------------------------------------------------------------------
(* The messages the handlers hold *)

\* A handler's count and message pointer lie below its frame pointer.
LEMMA HeldSame ==
  ASSUME NEW c, NEW fs, Linked(c, fs), NEW s, NEW t, NEW n, Held(s, n, fs),
         \A i \in 1..(fs[Len(fs)] - 1) : t[i] = s[i]
  PROVE  Held(t, n, fs)
<1> SUFFICES ASSUME NEW k \in 1..Len(fs), k % 2 = 0
             PROVE  t[fs[k] - 3] + t[fs[k] - 4] <= n + 1
  BY DEF Held
<1>1. Len(fs) \in Nat /\ k \in 2..Len(fs)
  <2>1. Len(fs) \in Nat
    BY LinkedPositions
  <2>2. k # 1
    OBVIOUS
  <2> QED
    BY <2>1, <2>2
<1>2. fs[k] \in Nat /\ fs[k] >= 7 /\ fs[k] <= fs[Len(fs)] /\ fs[Len(fs)] \in Nat
  BY <1>1, LinkedPositions
<1>3. fs[k] - 3 \in 1..(fs[Len(fs)] - 1) /\ fs[k] - 4 \in 1..(fs[Len(fs)] - 1)
  BY <1>2
<1>4. t[fs[k] - 3] = s[fs[k] - 3] /\ t[fs[k] - 4] = s[fs[k] - 4]
  BY <1>3
<1>5. s[fs[k] - 3] + s[fs[k] - 4] <= n + 1
  BY DEF Held
<1> QED
  BY <1>4, <1>5, Zenon

LEMMA HeldPop ==
  ASSUME NEW c, NEW fs, NEW es, Len(fs) \in Nat, AllButLast(c, fs, es), NEW s, NEW n, Held(s, n, fs)
  PROVE  Held(s, n, es)
<1> SUFFICES ASSUME NEW k \in 1..Len(es), k % 2 = 0
             PROVE  s[es[k] - 3] + s[es[k] - 4] <= n + 1
  BY DEF Held
<1>1. k \in 1..(Len(fs) - 1) /\ k \in 1..Len(fs)
  BY DEF AllButLast
<1>2. es[k] = fs[k]
  BY <1>1 DEF AllButLast
<1>3. s[fs[k] - 3] + s[fs[k] - 4] <= n + 1
  BY <1>1 DEF Held
<1> QED
  BY <1>2, <1>3, Zenon

LEMMA HeldPush ==
  ASSUME NEW c, NEW fs, Linked(c, fs), NEW s, NEW n, Held(s, n, fs), NEW f \in Nat,
         (Len(fs) + 1) % 2 = 0 => s[f - 3] + s[f - 4] <= n + 1
  PROVE  Held(s, n, Append(fs, f))
<1> DEFINE gs == Append(fs, f)
<1>1. fs \in Seq(Nat) /\ Len(fs) \in Nat
  BY DEF Linked
<1>2. Len(gs) = Len(fs) + 1 /\ gs[Len(fs) + 1] = f /\ \A k \in 1..Len(fs) : gs[k] = fs[k]
  BY <1>1
<1> HIDE DEF gs
<1>3. ASSUME NEW k \in 1..Len(gs), k % 2 = 0
      PROVE  s[gs[k] - 3] + s[gs[k] - 4] <= n + 1
  <2>1. CASE k = Len(fs) + 1
    BY <1>2, <1>3, <2>1, Zenon
  <2>2. CASE k # Len(fs) + 1
    <3>1. k \in 1..Len(fs)
      BY <1>1, <1>2, <2>2
    <3>2. gs[k] = fs[k] /\ s[fs[k] - 3] + s[fs[k] - 4] <= n + 1
      BY <1>2, <1>3, <3>1 DEF Held
    <3> QED
      BY <3>2, Zenon
  <2> QED
    BY <2>1, <2>2
<1>4. Held(s, n, gs)
  BY <1>3, Zenon DEF Held
<1> QED
  BY <1>4 DEF gs

\* More messages may be written.
LEMMA HeldGrow ==
  ASSUME NEW s, NEW fs, Linked(s, fs), NEW n \in Nat, NEW m \in Nat, n <= m, Held(s, n, fs)
  PROVE  Held(s, m, fs)
<1> SUFFICES ASSUME NEW k \in 1..Len(fs), k % 2 = 0
             PROVE  s[fs[k] - 3] + s[fs[k] - 4] <= m + 1
  BY DEF Held
<1>1. Len(fs) \in Nat /\ k \in 2..Len(fs)
  <2>1. Len(fs) \in Nat
    BY LinkedPositions
  <2>2. k # 1
    OBVIOUS
  <2> QED
    BY <2>1, <2>2
<1>2. s[fs[k] - 3] \in Nat /\ s[fs[k] - 4] \in Nat
  BY <1>1 DEF Linked, Link, HandlerFrameAt
<1>3. s[fs[k] - 3] + s[fs[k] - 4] <= n + 1
  BY DEF Held
<1> QED
  BY <1>2, <1>3

--------------------------------------------------------------------------------
(* The frames read off the stack are the linked ones *)

LEMMA LeastNumber ==
  ASSUME NEW T, T \subseteq Nat, T # {}
  PROVE  \E x \in T : \A y \in T : x <= y
<1> DEFINE R == OpToRel(<, Nat)
<1>1. IsWellFoundedOn(R, Nat)
  BY NatLessThanWellFounded
<1>2. \A x, y \in Nat : x < y => <<x, y>> \in R
  BY DEF OpToRel
<1> HIDE DEF R
<1>3. PICK x \in T : \A y \in T : ~ (<<y, x>> \in R)
  BY <1>1, WFMin
<1>4. ASSUME NEW y \in T PROVE x <= y
  <2>1. x \in Nat /\ y \in Nat
    OBVIOUS
  <2>2. ~ (y < x)
    BY <1>2, <1>3, <2>1
  <2> QED
    BY <2>1, <2>2
<1> QED
  BY <1>4

LEMMA Induction ==
  ASSUME NEW S, 0 \in S, \A n \in Nat : n \in S => n + 1 \in S
  PROVE  Nat \subseteq S
<1> DEFINE T == Nat \ S
<1> SUFFICES ASSUME T # {} PROVE FALSE
  OBVIOUS
<1>1. PICK x \in T : \A y \in T : x <= y
  BY LeastNumber
<1>2. x \in Nat /\ x # 0 /\ x \notin S
  BY <1>1
<1>3. x - 1 \in Nat /\ x - 1 \notin T
  BY <1>1, <1>2
<1>4. (x - 1) + 1 \in S
  BY <1>3
<1> QED
  BY <1>2, <1>3, <1>4

\* What the walk finds at f, when g says what it finds below.
Walk(c, g, f) == IF f # 0 /\ c[f] \in 0..(f - 1) THEN Append(g[c[f]], f) ELSE <<f>>

Walks(c, g, n, k) ==
  /\ g = [f \in 0..n |-> g[f]]
  /\ \A f \in 0..n : f < k => g[f] = Walk(c, g, f)

IsWalk(c, g, n) == g = [f \in 0..n |-> Walk(c, g, f)]

\* The function Frames computes with exists.
LEMMA WalkExists ==
  ASSUME NEW c, NEW n \in Nat
  PROVE  \E g : g = [f \in 0..n |-> Walk(c, g, f)]
<1> DEFINE S == {k \in Nat : \E g : Walks(c, g, n, k)}
<1>1. 0 \in S
  <2> DEFINE g == [f \in 0..n |-> <<>>]
  <2>1. Walks(c, g, n, 0)
    BY DEF Walks
  <2> HIDE DEF g
  <2> QED
    BY <2>1
<1>2. ASSUME NEW k \in Nat, k \in S PROVE k + 1 \in S
  <2>1. PICK g : Walks(c, g, n, k)
    BY <1>2
  <2> DEFINE h == [f \in 0..n |-> IF f = k THEN Walk(c, g, k) ELSE g[f]]
  <2>2. h = [f \in 0..n |-> h[f]]
    OBVIOUS
  <2>3. \A f \in 0..n : f # k => h[f] = g[f]
    OBVIOUS
  <2>4. k \in 0..n => h[k] = Walk(c, g, k)
    OBVIOUS
  <2> HIDE DEF h
  <2>5. ASSUME NEW f \in 0..n, f < k + 1 PROVE h[f] = Walk(c, h, f)
    <3>1. Walk(c, h, f) = Walk(c, g, f)
      <4>1. CASE f # 0 /\ c[f] \in 0..(f - 1)
        <5>1. c[f] \in 0..n /\ c[f] # k
          BY <2>5, <4>1
        <5>2. h[c[f]] = g[c[f]]
          BY <2>3, <5>1
        <5> QED
          BY <4>1, <5>2 DEF Walk
      <4>2. CASE ~ (f # 0 /\ c[f] \in 0..(f - 1))
        BY <4>2, Zenon DEF Walk
      <4> QED
        BY <4>1, <4>2, Zenon
    <3>2. CASE f = k
      BY <2>4, <3>1, <3>2
    <3>3. CASE f # k
      <4>1. f < k
        BY <2>5, <3>3
      <4> QED
        BY <2>1, <2>3, <3>1, <3>3, <4>1 DEF Walks
    <3> QED
      BY <3>2, <3>3
  <2>6. Walks(c, h, n, k + 1)
    BY <2>2, <2>5 DEF Walks
  <2> QED
    BY <2>6
<1>3. n + 1 \in S
  <2> HIDE DEF S
  <2> QED
    BY <1>1, <1>2, Induction
<1>4. PICK g : Walks(c, g, n, n + 1)
  BY <1>3
<1>5. \A f \in 0..n : g[f] = Walk(c, g, f)
  BY <1>4 DEF Walks
<1>6. g = [f \in 0..n |-> g[f]]
  BY <1>4, Zenon DEF Walks
<1>7. g = [f \in 0..n |-> Walk(c, g, f)]
  BY <1>5, <1>6, Zenon
<1> QED
  BY <1>7

LEMMA Prefixes ==
  ASSUME NEW S, NEW s \in Seq(S), Len(s) >= 1
  PROVE  /\ SubSeq(s, 1, 1) = <<s[1]>>
         /\ SubSeq(s, 1, Len(s)) = s
<1>1. SubSeq(s, 1, 1) = <<s[1]>>
  <2> DEFINE t == SubSeq(s, 1, 1)
  <2>1. t \in Seq(S) /\ Len(t) = 1 /\ t[1] = s[1]
    OBVIOUS
  <2> HIDE DEF t
  <2>2. t = <<t[1]>>
    BY <2>1
  <2> QED
    BY <2>1, <2>2 DEF t
<1>2. SubSeq(s, 1, Len(s)) = s
  OBVIOUS
<1> QED
  BY <1>1, <1>2

\* Walking the links finds them all: after k links, the first k frames.
LEMMA WalkFinds ==
  ASSUME NEW c, NEW n \in Nat, NEW fs, Linked(c, fs), fs[Len(fs)] <= n,
         NEW g, IsWalk(c, g, n)
  PROVE  g[fs[Len(fs)]] = fs
<1> DEFINE Found(k) == k + 1 <= Len(fs) => g[fs[k + 1]] = SubSeq(fs, 1, k + 1)
           S == {k \in Nat : Found(k)}
<1>1. fs \in Seq(Nat) /\ Len(fs) \in Nat /\ Len(fs) >= 1 /\ fs[1] = 0
  BY DEF Linked
<1>2. \A f \in 0..n : g[f] = Walk(c, g, f)
  <2> DEFINE h == [f \in 0..n |-> Walk(c, g, f)]
  <2>1. \A f \in 0..n : h[f] = Walk(c, g, f)
    OBVIOUS
  <2> QED
    BY <2>1, Zenon DEF IsWalk
<1>3. 0 \in S
  <2>1. g[0] = <<0>>
    <3>1. 0 \in 0..n
      OBVIOUS
    <3> QED
      BY <1>2, <3>1, Zenon DEF Walk
  <2>2. SubSeq(fs, 1, 1) = <<fs[1]>>
    BY <1>1, Prefixes
  <2> QED
    BY <1>1, <2>1, <2>2
<1>4. ASSUME NEW k \in Nat, Found(k) PROVE Found(k + 1)
  <2> SUFFICES ASSUME (k + 1) + 1 <= Len(fs) PROVE g[fs[(k + 1) + 1]] = SubSeq(fs, 1, (k + 1) + 1)
    OBVIOUS
  <2> DEFINE f == fs[k + 2]  below == fs[k + 1]
  <2>1. k + 2 \in 2..Len(fs) /\ k + 1 \in 1..Len(fs) /\ k + 2 \in 1..Len(fs) /\ (k + 2) - 1 = k + 1
    BY <1>1
  <2>2. Link(c, k + 2, below, f) /\ below < f
    BY <2>1 DEF Linked
  <2>3. f \in 0..n /\ f # 0 /\ below \in 0..(f - 1) /\ f \in Nat
    <3>1. f \in Nat /\ below \in Nat /\ f <= fs[Len(fs)] /\ fs[Len(fs)] \in Nat
      BY <2>1, LinkedPositions
    <3> QED
      BY <2>2, <3>1
  <2>4. g[f] = Append(g[below], f)
    BY <1>2, <2>2, <2>3 DEF Walk, Link
  <2>5. g[below] = SubSeq(fs, 1, k + 1)
    BY <1>4, <2>1
  <2> HIDE DEF f, below
  <2>6. SubSeq(fs, 1, k + 2) = Append(SubSeq(fs, 1, k + 1), fs[k + 2])
    BY <1>1, <2>1
  <2>7. (k + 1) + 1 = k + 2
    OBVIOUS
  <2> QED
    BY <2>4, <2>5, <2>6, <2>7 DEF f
<1> HIDE DEF Found
<1>5. Found(Len(fs) - 1)
  <2>1. Len(fs) - 1 \in Nat
    BY <1>1
  <2>2. \A k \in Nat : k \in S => k + 1 \in S
    <3> SUFFICES ASSUME NEW k \in Nat, Found(k) PROVE k + 1 \in S
      OBVIOUS
    <3>1. Found(k + 1) /\ k + 1 \in Nat
      BY <1>4
    <3> QED
      BY <3>1
  <2>3. Nat \subseteq S
    <3> HIDE DEF S
    <3> QED
      BY <1>3, <2>2, Induction
  <2> QED
    BY <2>1, <2>3
<1>6. (Len(fs) - 1) + 1 = Len(fs) /\ Len(fs) <= Len(fs)
  BY <1>1
<1>7. SubSeq(fs, 1, Len(fs)) = fs
  BY <1>1
<1> QED
  BY <1>5, <1>6, <1>7, Zenon DEF Found

LEMMA FramesInIs ==
  ASSUME NEW s, Len(s) \in Nat, NEW fs, Linked(s, fs), fs[Len(fs)] <= Len(s)
  PROVE  FramesIn(s, fs[Len(fs)]) = fs
<1> DEFINE n == Len(s)
           W(g) == [f \in 0..n |-> Walk(s, g, f)]
           walked == CHOOSE g : g = W(g)
<1> HIDE DEF n
<1>1. n \in Nat /\ n = Len(s)
  BY DEF n
<1>2. IsWalk(s, walked, n)
  BY <1>1, WalkExists, Zenon DEF IsWalk
<1>3. FramesIn(s, fs[Len(fs)]) = walked[fs[Len(fs)]]
  BY Zenon DEF FramesIn, Walk, n
<1> HIDE DEF walked
<1>4. walked[fs[Len(fs)]] = fs
  BY <1>1, <1>2, WalkFinds, Zenon
<1> QED
  BY <1>3, <1>4

\* What Frames reads off the stack is what links the frames.
LEMMA FramesAre ==
  ASSUME NEW s \in Seq(Word), NEW e \in Nat, NEW i, NEW fs, Framed(s, e, i, fs)
  PROVE  FramesOf(s, e, i) = fs
<1>1. Len(s) \in Nat /\ fs \in Seq(Nat) /\ e <= Len(s)
  BY DEF Framed, Linked
<1>2. CASE ~ AtEntry(i)
  <2>1. Linked(s, fs) /\ fs[Len(fs)] = e
    BY <1>2 DEF Framed, ChainOf, InnermostOf
  <2>2. FramesIn(s, fs[Len(fs)]) = fs
    BY <1>1, <2>1, FramesInIs
  <2> QED
    BY <1>2, <2>1, <2>2 DEF FramesOf
<1>3. CASE AtEntry(i)
  <2> DEFINE c == Append(s, e)
             es == SubSeq(fs, 1, Len(fs) - 1)
             n == Len(s)
  <2>1. Linked(c, fs) /\ fs[Len(fs)] = n + 1
    BY <1>3 DEF Framed, ChainOf, InnermostOf
  <2>2. AppendOf(Word, c, s, e)
    <3>1. e \in Word
      BY DEF Word
    <3> QED
      BY <3>1, Appended, Zenon
  <2> HIDE DEF c, n
  <2>3. n \in Nat /\ c[n + 1] = e /\ \A j \in 1..n : c[j] = s[j]
    BY <1>1, <2>2 DEF AppendOf, n
  <2>4. Len(fs) \in Nat /\ Len(fs) > 1
    BY <1>1, <2>1, <2>3 DEF Linked
  <2>5. fs[Len(fs) - 1] = e
    <3>1. Len(fs) \in 2..Len(fs)
      BY <2>4
    <3> QED
      BY <2>1, <2>3, <3>1 DEF Linked, Link
  <2>6. AllButLast(c, fs, es)
    BY <2>1, <2>4, LinkedPop, Zenon
  <2>7. fs = Append(es, n + 1)
    BY <1>1, <2>1, <2>4
  <2> HIDE DEF es
  <2>8. Linked(c, es) /\ Len(es) = Len(fs) - 1 /\ es[Len(es)] = e
    <3>1. Len(fs) - 1 \in 1..(Len(fs) - 1)
      BY <2>4
    <3> QED
      BY <2>5, <2>6, <3>1 DEF AllButLast
  <2>9. Linked(s, es)
    <3>1. \A j \in 1..es[Len(es)] : s[j] = c[j]
      BY <1>1, <2>3, <2>8 DEF n
    <3> QED
      BY <2>8, <3>1, LinkedSame
  <2>10. FramesIn(s, e) = es
    BY <1>1, <2>8, <2>9, FramesInIs
  <2> QED
    BY <1>3, <2>7, <2>10 DEF FramesOf, n
<1> QED
  BY <1>2, <1>3

--------------------------------------------------------------------------------
(* Type correctness *)

\* The inductive invariant: that ebp and eip have their types after a return
\* rests on what the frames hold.
CallsInv == TypeOK /\ windows <= sent /\ FramesLinked

\* The same, of a state whose frames are fs, and of the next state.
With(fs) ==
  /\ TypeOK /\ windows <= sent
  /\ Framed(stack, ebp, eip, fs) /\ Held(stack, Len(memory), fs)
Leads(gs) ==
  /\ TypeOK' /\ windows' <= sent'
  /\ Framed(stack', ebp', eip', gs) /\ Held(stack', Len(memory'), gs)

LEMMA LeadsOn ==
  ASSUME NEW gs, Leads(gs)
  PROVE  CallsInv' /\ Frames' = gs
<1>1. stack' \in Seq(Word) /\ ebp' \in Nat
  <2>1. stack' \in Seq(Word) /\ ebp' \in 0..Len(stack')
    BY Zenon DEF Leads, TypeOK
  <2> QED
    BY <2>1
<1>2. Framed(stack', ebp', eip', gs) /\ Held(stack', Len(memory'), gs)
  BY DEF Leads
<1>3. FramesOf(stack', ebp', eip') = gs
  BY <1>1, <1>2, FramesAre
<1>4. Frames' = gs
  BY <1>3, Zenon DEF Frames
<1>5. FramesLinked'
  BY <1>2, <1>4, Zenon DEF FramesLinked
<1> QED
  BY <1>4, <1>5, Zenon DEF Leads, CallsInv

\* The words below n stay.
Kept(n) ==
  /\ stack' \in Seq(Word) /\ n \in Nat /\ n <= Len(stack) /\ n <= Len(stack')
  /\ \A i \in 1..n : stack'[i] = stack[i]

Stacked(s, e) ==
  /\ s \in Seq(Word) /\ Len(s) < StackWords + 3 /\ e \in 0..Len(s)

\* A step of guest code or machine code that sends nothing.
LEMMA RunStep ==
  ASSUME NEW fs, With(fs), NEW gs, UNCHANGED Frozen, UNCHANGED status,
         Stacked(stack', ebp'), eax' \in Word,
         eip' \in Sites \cup {Procedure, Handler, Loop, AfterCall},
         Framed(stack', ebp', eip', gs), Held(stack', Len(memory), gs)
  PROVE  Leads(gs)
<1>1. TypeOK' /\ windows' <= sent'
  BY DEF With, TypeOK, Stacked, Frozen
<1>2. memory' = memory
  BY DEF Frozen
<1> QED
  BY <1>1, <1>2, Zenon DEF Leads

\* A step that ends with an assertion.
LEMMA StopStep ==
  ASSUME NEW fs, With(fs), UNCHANGED <<stack, ebp, eip, eax, Frozen>>,
         status' \in {"stack overflow", "not a window or not WM_PAINT"}
  PROVE  Leads(fs)
<1>1. TypeOK' /\ windows' <= sent'
  BY DEF With, TypeOK, Frozen
<1>2. stack' = stack /\ ebp' = ebp /\ eip' = eip /\ memory' = memory
  BY DEF Frozen
<1> QED
  BY <1>1, <1>2, Zenon DEF Leads, With

\* After n arguments and a return address are pushed and k arguments dropped with
\* the address, the words of the caller are as they were.
CalledWith(called, n, k, site) ==
  LET d == Dropped(called, 1 + k) IN
  /\ FromTop(called, 0) = site
  /\ d \in Seq(Word) /\ Len(d) = Len(stack) + n - k
  /\ \A i \in 1..Len(stack) : d[i] = stack[i]

LEMMA PushedIs ==
  ASSUME TypeOK, NEW n \in Nat, NEW k \in Nat, k <= n, NEW w \in Word, NEW site \in Word
  PROVE  CalledWith(Pushed(n, w, site), n, k, site)
<1> DEFINE arguments == [i \in 1..n |-> w]
           s1 == stack \o arguments
           s2 == s1 \o <<site>>
           m == Len(stack)
<1>1. stack \in Seq(Word) /\ m \in Nat
  BY StackTypes
<1>2. arguments \in Seq(Word) /\ Len(arguments) = n
  OBVIOUS
<1>3. <<site>> \in Seq(Word) /\ Len(<<site>>) = 1 /\ <<site>>[1] = site
  OBVIOUS
<1> HIDE DEF arguments
<1>4. s1 \in Seq(Word) /\ Len(s1) = m + n /\ \A i \in 1..m : s1[i] = stack[i]
  <2>1. JoinOf(Word, s1, stack, arguments)
    BY <1>1, <1>2, Joined, Zenon
  <2> HIDE DEF s1
  <2> QED
    BY <1>1, <1>2, <2>1 DEF JoinOf
<1> HIDE DEF s1, m
<1>5. s2 \in Seq(Word) /\ Len(s2) = m + n + 1 /\ s2[m + n + 1] = site /\ \A i \in 1..m : s2[i] = stack[i]
  <2>1. JoinOf(Word, s2, s1, <<site>>)
    BY <1>3, <1>4, Joined, Zenon
  <2> HIDE DEF s2
  <2>2. /\ s2 \in Seq(Word) /\ Len(s2) = (m + n) + 1
        /\ \A i \in 1..(m + n) : s2[i] = s1[i]
        /\ \A i \in 1..1 : s2[(m + n) + i] = <<site>>[i]
    BY <1>1, <1>3, <1>4, <2>1 DEF JoinOf
  <2>3. \A i \in 1..m : s2[i] = stack[i]
    BY <1>1, <1>4, <2>2
  <2>4. s2[(m + n) + 1] = site
    BY <1>1, <1>3, <2>2
  <2> QED
    BY <1>1, <2>2, <2>3, <2>4
<1>6. Pushed(n, w, site) = s2
  BY DEF Pushed, s1, arguments
<1> HIDE DEF s2
<1>7. FromTop(s2, 0) = site
  BY <1>1, <1>5 DEF FromTop
<1>8. /\ Dropped(s2, 1 + k) \in Seq(Word) /\ Len(Dropped(s2, 1 + k)) = m + n - k
      /\ \A i \in 1..m : Dropped(s2, 1 + k)[i] = stack[i]
  <2>1. /\ Len(s2) - (1 + k) = m + n - k /\ m + n - k \in Nat /\ m + n - k <= Len(s2)
        /\ m <= m + n - k
    BY <1>1, <1>5
  <2>2. Dropped(s2, 1 + k) = SubSeq(s2, 1, m + n - k)
    BY <2>1, Zenon DEF Dropped
  <2>3. /\ SubSeq(s2, 1, m + n - k) \in Seq(Word) /\ Len(SubSeq(s2, 1, m + n - k)) = m + n - k
        /\ \A i \in 1..(m + n - k) : SubSeq(s2, 1, m + n - k)[i] = s2[i]
    BY <1>5, <2>1, ShorterStack
  <2>4. \A i \in 1..m : i \in 1..(m + n - k)
    BY <1>1, <2>1
  <2> QED
    BY <1>5, <2>2, <2>3, <2>4
<1> QED
  BY <1>6, <1>7, <1>8 DEF CalledWith, m

\* What may be used of a state at every step.
LEMMA WithTypes ==
  ASSUME NEW fs, With(fs)
  PROVE  /\ TypeOK /\ stack \in Seq(Word) /\ Len(stack) \in Nat /\ Len(stack) < StackWords + 3
         /\ ebp \in Nat /\ ebp <= Len(stack) /\ StackWords \in Nat /\ StackWords # 0
         /\ Framed(stack, ebp, eip, fs) /\ Held(stack, Len(memory), fs)
         /\ eax \in Word /\ fs \in Seq(Nat) /\ Len(fs) \in Nat
         /\ \A w \in Scratch : w \in Word
<1>1. TypeOK /\ Framed(stack, ebp, eip, fs) /\ Held(stack, Len(memory), fs)
  BY DEF With
<1>2. /\ stack \in Seq(Word) /\ Len(stack) \in Nat /\ ebp \in Nat
  BY <1>1, StackTypes
<1>3. Len(stack) < StackWords + 3 /\ StackWords \in Nat /\ StackWords # 0 /\ eax \in Word
  BY <1>1, StackAssumption DEF TypeOK, StackAssumption
<1>4. ebp <= Len(stack)
  BY <1>1 DEF Framed
<1>5. fs \in Seq(Nat) /\ Len(fs) \in Nat
  BY <1>1 DEF Framed, Linked
<1>6. \A w \in Scratch : w \in Word
  BY DEF Word
<1> QED
  BY <1>1, <1>2, <1>3, <1>4, <1>5, <1>6

\* Guest code changes nothing below its frame pointer.
LEMMA WorkStep ==
  ASSUME NEW fs, With(fs), eip \in Sites, eip' \in Sites, ebp' = ebp,
         UNCHANGED Frozen, UNCHANGED status, eax' \in Word,
         stack' \in Seq(Word), Len(stack') < StackWords + 3, ebp <= Len(stack'),
         \A k \in 1..ebp : stack'[k] = stack[k]
  PROVE  Leads(fs)
<1>1. /\ TypeOK /\ ebp \in Nat /\ Framed(stack, ebp, eip, fs) /\ Held(stack, Len(memory), fs)
  BY WithTypes
<1>2. Len(stack') \in Nat
  OBVIOUS
<1>3. Framed(stack', ebp', eip', fs)
  BY <1>1, <1>2, WorkFrames
<1>4. Held(stack', Len(memory), fs)
  <2>1. Linked(stack, fs) /\ fs[Len(fs)] = ebp
    BY <1>1, PlacesDiffer DEF Framed, ChainOf, InnermostOf, AtEntry
  <2>2. \A k \in 1..(ebp - 1) : stack'[k] = stack[k]
    BY <1>1
  <2> QED
    BY <1>1, <2>1, <2>2, HeldSame
<1>5. Stacked(stack', ebp')
  BY <1>1, <1>2 DEF Stacked
<1> QED
  BY <1>3, <1>4, <1>5, RunStep

LEMMA GuestPushStep ==
  ASSUME NEW fs, With(fs), NEW w \in Scratch, GuestPush(w)
  PROVE  Leads(fs) /\ Kept(Len(stack)) /\ Len(stack') = Len(stack) + 1
<1>1. /\ stack \in Seq(Word) /\ Len(stack) \in Nat /\ ebp \in Nat /\ ebp <= Len(stack)
      /\ eax \in Word /\ w \in Word /\ StackWords \in Nat
  BY WithTypes
<1>2. /\ stack' = Append(stack, w) /\ ebp' = ebp /\ eip' \in Sites /\ eip \in Sites
      /\ eax' = eax /\ status' = status /\ UNCHANGED Frozen /\ Len(stack) + 1 < StackWords
  BY DEF GuestPush, GuestRuns, Room, RoomAbove
<1>3. /\ stack' \in Seq(Word) /\ Len(stack') = Len(stack) + 1
      /\ \A i \in 1..Len(stack) : stack'[i] = stack[i]
  BY <1>1, <1>2
<1>4. Len(stack') < StackWords + 3 /\ ebp <= Len(stack') /\ \A i \in 1..ebp : stack'[i] = stack[i]
  BY <1>1, <1>2, <1>3
<1>5. Leads(fs)
  BY <1>1, <1>2, <1>3, <1>4, WorkStep
<1>6. Kept(Len(stack))
  BY <1>1, <1>3 DEF Kept
<1> QED
  BY <1>3, <1>5, <1>6

LEMMA GuestPopStep ==
  ASSUME NEW fs, With(fs), GuestPop
  PROVE  Leads(fs) /\ Kept(Len(stack) - 1) /\ Len(stack') = Len(stack) - 1
<1>1. /\ stack \in Seq(Word) /\ Len(stack) \in Nat /\ ebp \in Nat /\ ebp <= Len(stack)
      /\ Len(stack) < StackWords + 3 /\ StackWords \in Nat
  BY WithTypes
<1>2. /\ stack' = SubSeq(stack, 1, Len(stack) - 1) /\ ebp' = ebp /\ eip' \in Sites /\ eip \in Sites
      /\ eax' = stack[Len(stack) - 0] /\ status' = status /\ UNCHANGED Frozen /\ Len(stack) > ebp
  BY DEF GuestPop, GuestRuns, Dropped, FromTop
<1>3. Len(stack) - 1 \in Nat /\ Len(stack) - 1 <= Len(stack) /\ ebp <= Len(stack) - 1
      /\ Len(stack) - 0 \in 1..Len(stack)
  BY <1>1, <1>2
<1>4. /\ stack' \in Seq(Word) /\ Len(stack') = Len(stack) - 1
      /\ \A i \in 1..(Len(stack) - 1) : stack'[i] = stack[i]
  BY <1>1, <1>2, <1>3, ShorterStack
<1>5. Len(stack') < StackWords + 3 /\ ebp <= Len(stack') /\ \A i \in 1..ebp : stack'[i] = stack[i]
  BY <1>1, <1>3, <1>4
<1>6. eax' \in Word
  BY <1>1, <1>2, <1>3
<1>7. Leads(fs)
  BY <1>2, <1>4, <1>5, <1>6, WorkStep
<1>8. Kept(Len(stack) - 1)
  BY <1>3, <1>4 DEF Kept
<1> QED
  BY <1>4, <1>7, <1>8

LEMMA ProcedureEnterStep ==
  ASSUME NEW fs, With(fs), ProcedureEnter
  PROVE  Leads(fs) /\ Kept(Len(stack)) /\ Len(stack') = Len(stack) + 1
<1>1. /\ TypeOK /\ stack \in Seq(Word) /\ Len(stack) \in Nat /\ ebp \in Nat /\ ebp \in Word
      /\ Framed(stack, ebp, eip, fs) /\ Held(stack, Len(memory), fs) /\ eax \in Word
      /\ StackWords \in Nat
  BY WithTypes DEF Word
<1>2. /\ stack' = Append(stack, ebp) /\ ebp' = Len(stack) + 1 /\ eip = Procedure /\ eip' \in Sites
      /\ eax' = eax /\ status' = status /\ UNCHANGED Frozen /\ Len(stack) + 1 < StackWords
  BY DEF ProcedureEnter, Prologue, Room, RoomAbove
<1>3. /\ stack' \in Seq(Word) /\ Len(stack') = Len(stack) + 1
      /\ \A i \in 1..Len(stack) : stack'[i] = stack[i]
  BY <1>1, <1>2
<1>4. Framed(stack', ebp', eip', fs)
  BY <1>1, <1>2, EnterFrames
<1>5. Held(stack', Len(memory), fs)
  <2>1. Linked(Append(stack, ebp), fs) /\ fs[Len(fs)] = Len(stack) + 1
    BY <1>1, <1>2 DEF Framed, ChainOf, InnermostOf, AtEntry
  <2>2. \A k \in 1..((Len(stack) + 1) - 1) : stack'[k] = stack[k]
    BY <1>1, <1>3
  <2> QED
    BY <1>1, <2>1, <2>2, HeldSame
<1>6. Stacked(stack', ebp')
  BY <1>1, <1>2, <1>3 DEF Stacked
<1>7. Leads(fs)
  BY <1>1, <1>2, <1>4, <1>5, <1>6, RunStep
<1>8. Kept(Len(stack))
  BY <1>1, <1>3 DEF Kept
<1> QED
  BY <1>3, <1>7, <1>8

LEMMA ProcedureReturnStep ==
  ASSUME NEW fs, With(fs), NEW w \in Scratch, ProcedureReturn(w)
  PROVE  Leads(SubSeq(fs, 1, Len(fs) - 1)) /\ Kept(ebp - 6)
<1>1. /\ TypeOK /\ stack \in Seq(Word) /\ Len(stack) \in Nat /\ Len(stack) < StackWords + 3
      /\ Framed(stack, ebp, eip, fs) /\ Held(stack, Len(memory), fs) /\ ebp <= Len(stack)
      /\ w \in Word /\ StackWords \in Nat
  BY WithTypes
<1>2. /\ stack' = SubSeq(stack, 1, ebp - 2 - 4) /\ ebp' = stack[ebp] /\ eip' = stack[ebp - 1]
      /\ eip \in Sites /\ ebp # 0
      /\ eax' = w /\ status' = status /\ UNCHANGED Frozen
  BY DEF ProcedureReturn, LeaveAndReturn, GuestRuns
<1> DEFINE h == fs[Len(fs) - 1]
           es == SubSeq(fs, 1, Len(fs) - 1)
<1>3. /\ Len(fs) \in Nat /\ Len(fs) > 2 /\ Linked(stack, fs) /\ fs[Len(fs)] = ebp
      /\ h \in Nat /\ stack[ebp] = h /\ ebp = h + 9 /\ stack[ebp - 1] = AfterCall
  BY <1>1, <1>2, CalledByHandler
<1>4. Framed(stack', ebp', eip', es)
  BY <1>1, <1>2, <1>3, ReturnFrames
<1>5. AllButLast(stack, fs, es)
  <2>1. Len(fs) > 1
    BY <1>3
  <2> QED
    BY <1>3, <2>1, LinkedPop, Zenon
<1> HIDE DEF h
<1>6. /\ h + 3 \in Nat /\ h + 3 <= Len(stack) /\ ebp - 2 - 4 = h + 3 /\ ebp - 6 = h + 3
  BY <1>1, <1>3
<1>7. stack' \in Seq(Word) /\ Len(stack') = h + 3 /\ \A i \in 1..(h + 3) : stack'[i] = stack[i]
  BY <1>1, <1>2, <1>6, ShorterStack
<1>8. Held(stack', Len(memory), es)
  <2> HIDE DEF es
  <2>1. Held(stack, Len(memory), es)
    BY <1>1, <1>3, <1>5, HeldPop
  <2>2. Linked(stack, es) /\ es[Len(es)] = h
    <3>1. Len(fs) - 1 \in 1..(Len(fs) - 1)
      BY <1>3
    <3> QED
      BY <1>5, <3>1 DEF AllButLast, h
  <2>3. \A k \in 1..(h - 1) : stack'[k] = stack[k]
    BY <1>3, <1>7
  <2> QED
    BY <2>1, <2>2, <2>3, HeldSame
<1>9. Stacked(stack', ebp')
  BY <1>1, <1>2, <1>3, <1>6, <1>7 DEF Stacked
<1>10. Leads(es)
  BY <1>1, <1>2, <1>3, <1>4, <1>8, <1>9, RunStep
<1>11. Kept(ebp - 6)
  BY <1>6, <1>7 DEF Kept
<1> QED
  BY <1>10, <1>11

\* An imported function may leave words on the stack that its caller pushed.
LEMMA ImportCallStep ==
  ASSUME KeepsCallers, NEW fs, With(fs), NEW i \in Imports, NEW w \in Scratch, NEW site \in Sites,
         ImportCall(i, w, site)
  PROVE  /\ Leads(fs) /\ Kept(Len(stack))
         /\ i.declared \in Nat /\ i.returned \in Nat
         /\ Len(stack') = Len(stack) + i.declared - i.returned
<1>1. /\ i.declared \in Nat /\ i.returned \in Nat /\ i.returned <= i.declared
      /\ w \in Word /\ site \in Word
  BY ImportsAssumption DEF ImportsAssumption, KeepsCallers, Word
<1>2. /\ TypeOK /\ stack \in Seq(Word) /\ Len(stack) \in Nat /\ ebp \in Nat /\ ebp <= Len(stack)
      /\ StackWords \in Nat
  BY WithTypes
<1> DEFINE called == Pushed(i.declared, w, site)
<1>3. /\ stack' = Dropped(called, 1 + i.returned) /\ eip' = FromTop(called, 0)
      /\ ebp' = ebp /\ eip \in Sites /\ Len(stack) + (i.declared + 1) < StackWords
      /\ eax' = w /\ status' = status /\ UNCHANGED Frozen
  BY DEF ImportCall, GuestRuns, Room, RoomAbove
<1>4. CalledWith(called, i.declared, i.returned, site)
  BY <1>1, <1>2, PushedIs, Zenon
<1> HIDE DEF called
<1>5. /\ FromTop(called, 0) = site
      /\ stack' \in Seq(Word) /\ Len(stack') = Len(stack) + i.declared - i.returned
      /\ \A k \in 1..Len(stack) : stack'[k] = stack[k]
  BY <1>3, <1>4, Zenon DEF CalledWith
<1>6. /\ Len(stack) <= Len(stack') /\ Len(stack') < StackWords + 3
      /\ ebp <= Len(stack') /\ \A k \in 1..ebp : stack'[k] = stack[k]
  <2> DEFINE n == Len(stack)  m == Len(stack')
  <2>1. n \in Nat /\ n + (i.declared + 1) < StackWords /\ ebp <= n
    BY <1>2, <1>3
  <2>2. m = n + i.declared - i.returned /\ \A k \in 1..n : stack'[k] = stack[k]
    BY <1>5, Zenon
  <2> HIDE DEF n, m
  <2>3. n <= m /\ m < StackWords + 3 /\ ebp <= m /\ \A k \in 1..ebp : stack'[k] = stack[k]
    BY <1>1, <1>2, <2>1, <2>2
  <2> QED
    BY <2>3, Zenon DEF n, m
<1>7. Leads(fs)
  BY <1>1, <1>3, <1>5, <1>6, WorkStep
<1>8. Kept(Len(stack))
  BY <1>2, <1>5, <1>6 DEF Kept
<1> QED
  BY <1>1, <1>5, <1>7, <1>8

\* The messages of the three calls.
LEMMA MessageType ==
  ASSUME NEW code \in Nat \cup Scratch \cup {Junk}, NEW wParam \in Word, NEW lParam \in Word
  PROVE  Message(code, wParam, lParam) \in MessageRecord
  BY DEF Message, MessageRecord

LEMMA CreateMessagesType ==
  ASSUME NEW p \in Nat
  PROVE  CreateMessages(p) \in Seq(MessageRecord) /\ Len(CreateMessages(p)) = 14
<1>1. /\ 0 \in Word /\ 1 \in Word /\ p + 1 \in Word /\ p + 2 \in Word /\ p + 3 \in Word
      /\ p + 4 \in Word /\ Brush \in Word
  BY DEF Word
<1>2. /\ Message(129, 0, p + 1) \in MessageRecord /\ Message(131, 0, p + 2) \in MessageRecord
      /\ Message(1, 0, p + 1) \in MessageRecord /\ Message(5, 0, 0) \in MessageRecord
      /\ Message(3, 0, 0) \in MessageRecord /\ Message(24, 1, 0) \in MessageRecord
      /\ Message(70, 0, p + 3) \in MessageRecord /\ Message(28, 1, 0) \in MessageRecord
      /\ Message(134, 0, 0) \in MessageRecord /\ Message(6, 1, 0) \in MessageRecord
      /\ Message(7, 0, 0) \in MessageRecord /\ Message(133, 1, 0) \in MessageRecord
      /\ Message(20, Brush, 0) \in MessageRecord /\ Message(71, 0, p + 4) \in MessageRecord
  BY <1>1, MessageType
<1> QED
  BY <1>2 DEF CreateMessages

LEMMA UpdateMessagesType ==
  ASSUME NEW wnd \in Nat
  PROVE  UpdateMessages(wnd) \in Seq(MessageRecord) /\ Len(UpdateMessages(wnd)) = 3
<1>1. wnd \in Word /\ 0 \in Word /\ Brush \in Word
  BY DEF Word
<1>2. /\ Message(15, 0, 0) \in MessageRecord /\ Message(133, wnd, 0) \in MessageRecord
      /\ Message(20, Brush, 0) \in MessageRecord
  BY <1>1, MessageType
<1> QED
  BY <1>2 DEF UpdateMessages

\* What every message-sending call leaves on the stack.
SentOn(n, result, count, messages, wnd, site) ==
  /\ Kept(n) /\ Len(stack') = n + 6
  /\ stack'[n + 6] = site /\ stack'[n + 5] = wnd /\ stack'[n + 4] = messages
  /\ stack'[n + 3] = count /\ stack'[n + 1] = result

LEMMA SendIs ==
  ASSUME NEW fs, With(fs), NEW n \in Nat, NEW w \in Word, NEW site \in Sites,
         NEW list \in Seq(MessageRecord), NEW wnd \in Nat, NEW result \in Nat,
         Send(n, n, w, site, list, wnd, result)
  PROVE  /\ eip \in Sites /\ eip' = Handler /\ ebp' = ebp /\ Len(list) \in Nat
         /\ Len(stack) + 7 < StackWords
         /\ Framed(stack', ebp', eip', Append(fs, Len(stack) + 7))
         /\ SentOn(Len(stack), result, Len(list), Len(memory) + 1, wnd, site)
<1>1. /\ TypeOK /\ stack \in Seq(Word) /\ Len(stack) \in Nat /\ ebp \in Nat /\ ebp <= Len(stack)
      /\ Framed(stack, ebp, eip, fs) /\ site \in Word
  BY WithTypes DEF Word
<1> DEFINE called == Pushed(n, w, site)
           words == HandlerFrame(result, Len(list), Len(memory) + 1, wnd, site)
<1>2. /\ Dropped(called, 1 + n) \in Seq(Word) /\ Len(Dropped(called, 1 + n)) = Len(stack) + n - n
      /\ \A i \in 1..Len(stack) : Dropped(called, 1 + n)[i] = stack[i]
      /\ FromTop(called, 0) = site
  <2>1. n <= n
    OBVIOUS
  <2>2. CalledWith(called, n, n, site)
    BY <1>1, <2>1, PushedIs, Zenon
  <2> QED
    BY <2>2, Zenon DEF CalledWith
<1> HIDE DEF called
<1>3. Dropped(called, 1 + n) = stack
  <2> DEFINE d == Dropped(called, 1 + n)
  <2>1. /\ d = [i \in 1..Len(stack) |-> d[i]]
        /\ stack = [i \in 1..Len(stack) |-> stack[i]]
    BY <1>1, <1>2
  <2>2. [i \in 1..Len(stack) |-> d[i]] = [i \in 1..Len(stack) |-> stack[i]]
    BY <1>2
  <2> HIDE DEF d
  <2>3. d = stack
    BY <2>1, <2>2, Zenon
  <2> QED
    BY <2>3 DEF d
<1>4. /\ eip \in Sites /\ stack' = stack \o words /\ eip' = Handler /\ ebp' = ebp
      /\ Len(stack) + 7 < StackWords
  BY <1>2, <1>3 DEF Send, GuestRuns, RoomAbove, called
<1>5. Len(list) \in Nat /\ Len(memory) + 1 \in Nat \ {0}
  <2>1. memory \in Seq(MessageRecord)
    BY <1>1 DEF TypeOK
  <2> QED
    BY <2>1
<1>6. Framed(stack', ebp', eip', Append(fs, Len(stack) + 7))
  <2>1. wnd \in Word /\ result \in Word
    BY DEF Word
  <2> QED
    BY <1>1, <1>4, <1>5, <2>1, SendFrames
<1>7. /\ words \in Seq(Word) /\ Len(words) = 6
      /\ words[1] = result /\ words[3] = Len(list) /\ words[4] = Len(memory) + 1
      /\ words[5] = wnd /\ words[6] = site
  BY <1>1, <1>5 DEF HandlerFrame, Word
<1> HIDE DEF words
<1>8. /\ stack' \in Seq(Word) /\ Len(stack') = Len(stack) + 6
      /\ \A i \in 1..Len(stack) : stack'[i] = stack[i]
      /\ \A i \in 1..6 : stack'[Len(stack) + i] = words[i]
  <2>1. JoinOf(Word, stack', stack, words)
    BY <1>1, <1>4, <1>7, Joined, Zenon
  <2> QED
    BY <1>1, <1>7, <2>1 DEF JoinOf
<1>9. Kept(Len(stack))
  BY <1>1, <1>8 DEF Kept
<1>10. SentOn(Len(stack), result, Len(list), Len(memory) + 1, wnd, site)
  <2>1. 1 \in 1..6 /\ 3 \in 1..6 /\ 4 \in 1..6 /\ 5 \in 1..6 /\ 6 \in 1..6
    OBVIOUS
  <2> QED
    BY <1>7, <1>8, <1>9, <2>1, Zenon DEF SentOn
<1> QED
  BY <1>4, <1>5, <1>6, <1>10

LEMMA RecordTypes ==
  ASSUME NEW fs, With(fs)
  PROVE  /\ TypeOK /\ windows \in Nat /\ sent \in Nat /\ windows <= sent /\ MaxSends \in Nat
         /\ structs \in Seq(Struct) /\ Len(structs) \in Nat
         /\ memory \in Seq(MessageRecord) /\ Len(memory) \in Nat
<1>1. TypeOK /\ windows <= sent
  BY DEF With
<1>2. windows \in Nat /\ sent \in Nat /\ MaxSends \in Nat
  <2>1. windows \in 0..MaxSends /\ sent \in 0..MaxSends /\ MaxSends \in Nat
    BY <1>1, BoundsAssumption DEF TypeOK, BoundsAssumption
  <2> QED
    BY <2>1
<1>3. structs \in Seq(Struct) /\ memory \in Seq(MessageRecord)
  BY <1>1, Zenon DEF TypeOK
<1>4. Len(structs) \in Nat
  BY <1>3
<1>5. Len(memory) \in Nat
  BY <1>3
<1> QED
  BY <1>1, <1>2, <1>3, <1>4, <1>5

LEMMA SendStep ==
  ASSUME NEW fs, With(fs), NEW n \in Nat, NEW w \in Word, NEW site \in Sites,
         NEW list \in Seq(MessageRecord), NEW wnd \in Nat, NEW result \in Nat,
         Send(n, n, w, site, list, wnd, result),
         windows' \in {windows, windows + 1}, structs' \in Seq(Struct)
  PROVE  Leads(Append(fs, Len(stack) + 7))
<1>1. /\ eip \in Sites /\ ebp' = ebp /\ Len(list) \in Nat
      /\ Len(stack) + 7 < StackWords
      /\ Framed(stack', ebp', eip', Append(fs, Len(stack) + 7))
      /\ SentOn(Len(stack), result, Len(list), Len(memory) + 1, wnd, site)
  BY SendIs
<1>2. eip' = Handler /\ memory' = memory \o list /\ sent' = sent + 1 /\ sent < MaxSends
      /\ eax' = eax /\ status' = status
  BY DEF Send
<1>3. /\ TypeOK /\ windows \in Nat /\ sent \in Nat /\ windows <= sent /\ MaxSends \in Nat
      /\ memory \in Seq(MessageRecord) /\ Len(memory) \in Nat
  BY RecordTypes
<1>4. /\ stack \in Seq(Word) /\ Len(stack) \in Nat /\ ebp \in Nat /\ ebp <= Len(stack)
      /\ Framed(stack, ebp, eip, fs) /\ Held(stack, Len(memory), fs) /\ eax \in Word
      /\ StackWords \in Nat /\ Len(fs) \in Nat
  BY WithTypes
<1>5. memory' \in Seq(MessageRecord) /\ Len(memory') = Len(memory) + Len(list)
  <2>1. JoinOf(MessageRecord, memory', memory, list)
    BY <1>2, <1>3, Joined, Zenon
  <2> QED
    BY <2>1, Zenon DEF JoinOf
<1>6. windows' \in 0..MaxSends /\ sent' \in 0..MaxSends /\ windows' <= sent'
  <2>1. windows' = windows \/ windows' = windows + 1
    OBVIOUS
  <2> QED
    BY <1>2, <1>3, <2>1
<1>7. stack' \in Seq(Word) /\ Len(stack') < StackWords + 3 /\ ebp' \in 0..Len(stack')
  <2>1. stack' \in Seq(Word) /\ Len(stack') = Len(stack) + 6
    BY <1>1, Zenon DEF SentOn, Kept
  <2> QED
    BY <1>1, <1>4, <2>1
<1>8. TypeOK'
  BY <1>2, <1>3, <1>4, <1>5, <1>6, <1>7 DEF TypeOK
<1>9. Linked(stack, fs) /\ fs[Len(fs)] = ebp
  BY <1>1, <1>4, PlacesDiffer DEF Framed, ChainOf, InnermostOf, AtEntry
<1>10. Held(stack', Len(memory'), Append(fs, Len(stack) + 7))
  <2>1. Held(stack, Len(memory'), fs)
    <3>1. Len(memory') \in Nat /\ Len(memory) <= Len(memory')
      BY <1>1, <1>3, <1>5
    <3> QED
      BY <1>3, <1>4, <1>9, <3>1, HeldGrow
  <2>2. \A i \in 1..Len(stack) : stack'[i] = stack[i]
    BY <1>1, Zenon DEF SentOn, Kept
  <2>3. \A i \in 1..(ebp - 1) : stack'[i] = stack[i]
    <3>1. 1..(ebp - 1) \subseteq 1..Len(stack)
      BY <1>4
    <3> QED
      BY <2>2, <3>1
  <2>4. Held(stack', Len(memory'), fs)
    BY <1>9, <2>1, <2>3, HeldSame
  <2>5. stack'[(Len(stack) + 7) - 3] + stack'[(Len(stack) + 7) - 4] <= Len(memory') + 1
    <3>1. stack'[Len(stack) + 4] = Len(memory) + 1 /\ stack'[Len(stack) + 3] = Len(list)
      BY <1>1, Zenon DEF SentOn
    <3>2. (Len(stack) + 7) - 3 = Len(stack) + 4 /\ (Len(stack) + 7) - 4 = Len(stack) + 3
      BY <1>4
    <3>3. (Len(memory) + 1) + Len(list) <= Len(memory') + 1
      BY <1>1, <1>3, <1>5
    <3> QED
      BY <3>1, <3>2, <3>3
  <2>6. Linked(stack', fs)
    <3>1. \A i \in 1..fs[Len(fs)] : stack'[i] = stack[i]
      BY <1>4, <1>9, <2>2
    <3> QED
      BY <1>9, <3>1, LinkedSame
  <2>7. Len(stack) + 7 \in Nat
    BY <1>4
  <2> QED
    BY <2>4, <2>5, <2>6, <2>7, HeldPush, Zenon
<1> QED
  BY <1>1, <1>6, <1>8, <1>10, Zenon DEF Leads

\* The three calls are sends of a list that is not empty.
Sends(n, result, count, wnd, site) ==
  /\ \E w \in Word, list \in Seq(MessageRecord) :
       count = Len(list) /\ Send(n, n, w, site, list, wnd, result)
  /\ n \in Nat /\ result \in Nat /\ count \in Nat \ {0} /\ wnd \in Nat
  /\ windows' \in {windows, windows + 1} /\ structs' \in Seq(Struct)

LEMMA CreateWindowExAIs ==
  ASSUME NEW fs, With(fs), NEW w \in Scratch, NEW site \in Sites, CreateWindowExA(w, site)
  PROVE  Sends(12, windows + 1, 14, windows + 1, site)
<1> DEFINE list == CreateMessages(Len(structs))
           handle == windows + 1
<1>1. windows \in Nat /\ structs \in Seq(Struct) /\ Len(structs) \in Nat
  BY RecordTypes
<1>2. list \in Seq(MessageRecord) /\ 14 = Len(list)
  BY <1>1, CreateMessagesType
<1>3. /\ Send(12, 12, w, site, list, handle, handle)
      /\ windows' = windows + 1 /\ structs' = structs \o CreateStructs
  BY DEF CreateWindowExA, CreateArguments
<1> HIDE DEF list
<1>4. structs' \in Seq(Struct)
  <2>1. CreateStructs \in Seq(Struct)
    BY DEF CreateStructs, Struct
  <2>2. JoinOf(Struct, structs', structs, CreateStructs)
    BY <1>1, <1>3, <2>1, Joined, Zenon
  <2> QED
    BY <2>2, Zenon DEF JoinOf
<1>5. handle \in Nat /\ 12 \in Nat /\ 14 \in Nat \ {0}
  BY <1>1
<1>6. windows' \in {windows, windows + 1}
  BY <1>3
<1>7. w \in Word
  BY DEF Word
<1> QED
  BY <1>2, <1>3, <1>4, <1>5, <1>6, <1>7, Zenon DEF Sends

LEMMA UpdateWindowIs ==
  ASSUME NEW fs, With(fs), NEW wnd, NEW w \in Scratch, NEW site \in Sites,
         UpdateWindow(wnd, w, site)
  PROVE  Sends(1, 1, 3, wnd, site)
<1>1. windows \in Nat /\ structs \in Seq(Struct)
  BY RecordTypes
<1>2. wnd \in 1..windows /\ Send(1, 1, w, site, UpdateMessages(wnd), wnd, 1)
      /\ windows' = windows /\ structs' = structs
  BY Zenon DEF UpdateWindow, UpdateArguments
<1>3. wnd \in Nat
  BY <1>1, <1>2
<1>4. UpdateMessages(wnd) \in Seq(MessageRecord) /\ 3 = Len(UpdateMessages(wnd))
  BY <1>3, UpdateMessagesType
<1>5. structs' \in Seq(Struct) /\ 1 \in Nat /\ 3 \in Nat \ {0}
  BY <1>1, <1>2
<1>6. windows' \in {windows, windows + 1}
  BY <1>2
<1>7. w \in Word
  BY DEF Word
<1> QED
  BY <1>2, <1>3, <1>4, <1>5, <1>6, <1>7, Zenon DEF Sends

LEMMA DispatchMessageAIs ==
  ASSUME NEW fs, With(fs), NEW wnd, NEW w \in Scratch, NEW site \in Sites,
         DispatchMessageA(wnd, w, site)
  PROVE  Sends(1, 0, 1, wnd, site)
<1> DEFINE list == <<Message(WM_PAINT, w, w)>>
<1>1. windows \in Nat /\ structs \in Seq(Struct)
  BY RecordTypes
<1>2. wnd \in 1..windows /\ Send(1, 1, w, site, list, wnd, 0)
      /\ windows' = windows /\ structs' = structs
  BY Zenon DEF DispatchMessageA, DispatchArguments
<1>3. w \in Word
  BY DEF Word
<1>4. list \in Seq(MessageRecord) /\ 1 = Len(list)
  <2>1. WM_PAINT \in Nat \cup Scratch \cup {Junk}
    BY DEF WM_PAINT
  <2>2. Message(WM_PAINT, w, w) \in MessageRecord
    BY <1>3, <2>1, MessageType
  <2> QED
    BY <2>2
<1> HIDE DEF list
<1>5. structs' \in Seq(Struct) /\ 1 \in Nat /\ 0 \in Nat /\ 1 \in Nat \ {0}
  BY <1>1, <1>2
<1>6. windows' \in {windows, windows + 1}
  BY <1>2
<1>7. wnd \in Nat
  BY <1>1, <1>2
<1> QED
  BY <1>2, <1>3, <1>4, <1>5, <1>6, <1>7, Zenon DEF Sends

LEMMA SendsStep ==
  ASSUME NEW fs, With(fs), NEW n, NEW result, NEW count, NEW wnd, NEW site \in Sites,
         Sends(n, result, count, wnd, site)
  PROVE  /\ Leads(Append(fs, Len(stack) + 7))
         /\ eip \in Sites /\ eip' = Handler /\ status = "running" /\ status' = status
         /\ SentOn(Len(stack), result, count, Len(memory) + 1, wnd, site)
<1>1. PICK w \in Word, list \in Seq(MessageRecord) :
        count = Len(list) /\ Send(n, n, w, site, list, wnd, result)
  BY Zenon DEF Sends
<1>2. /\ n \in Nat /\ result \in Nat /\ wnd \in Nat
      /\ windows' \in {windows, windows + 1} /\ structs' \in Seq(Struct)
  BY Zenon DEF Sends
<1>3. Leads(Append(fs, Len(stack) + 7))
  BY <1>1, <1>2, SendStep
<1>4. /\ eip \in Sites /\ eip' = Handler
      /\ SentOn(Len(stack), result, Len(list), Len(memory) + 1, wnd, site)
  BY <1>1, <1>2, SendIs
<1>5. status = "running" /\ status' = status
  BY <1>1, Zenon DEF Send, GuestRuns
<1> QED
  BY <1>1, <1>3, <1>4, <1>5, Zenon


LEMMA HandlerEnterStep ==
  ASSUME NEW fs, With(fs), HandlerEnter
  PROVE  Leads(fs) /\ Kept(Len(stack)) /\ Len(stack') = Len(stack) + 4
<1>1. /\ TypeOK /\ stack \in Seq(Word) /\ Len(stack) \in Nat /\ ebp \in Nat
      /\ Framed(stack, ebp, eip, fs) /\ Held(stack, Len(memory), fs) /\ eax \in Word
      /\ StackWords \in Nat
  BY WithTypes
<1> DEFINE words == <<ebp, Junk, Junk, Junk>>
<1>2. /\ stack' = stack \o words /\ ebp' = Len(stack) + 1 /\ eip = Handler /\ eip' = Loop
      /\ eax' = eax /\ status' = status /\ UNCHANGED Frozen /\ Len(stack) + 1 < StackWords
  BY DEF HandlerEnter, Room, RoomAbove
<1>3. Framed(stack', ebp', eip', fs)
  BY <1>1, <1>2, HandlerEnterFrames
<1>4. words \in Seq(Word) /\ Len(words) = 4
  BY <1>1 DEF Word
<1> HIDE DEF words
<1>5. /\ stack' \in Seq(Word) /\ Len(stack') = Len(stack) + 4
      /\ \A i \in 1..Len(stack) : stack'[i] = stack[i]
  <2>1. JoinOf(Word, stack', stack, words)
    BY <1>1, <1>2, <1>4, Joined, Zenon
  <2> QED
    BY <1>1, <1>4, <2>1 DEF JoinOf
<1>6. Held(stack', Len(memory), fs)
  <2>1. Linked(Append(stack, ebp), fs) /\ fs[Len(fs)] = Len(stack) + 1
    BY <1>1, <1>2 DEF Framed, ChainOf, InnermostOf, AtEntry
  <2>2. \A k \in 1..((Len(stack) + 1) - 1) : stack'[k] = stack[k]
    BY <1>1, <1>5
  <2> QED
    BY <1>1, <2>1, <2>2, HeldSame
<1>7. Stacked(stack', ebp')
  BY <1>1, <1>2, <1>5 DEF Stacked
<1>8. Leads(fs)
  BY <1>1, <1>2, <1>3, <1>6, <1>7, RunStep
<1>9. Kept(Len(stack))
  BY <1>1, <1>5 DEF Kept
<1> QED
  BY <1>5, <1>8, <1>9

\* Whatever the handler reads as a message has the types of one: past the end of
\* a block it reads junk.
LEMMA LoadType ==
  ASSUME TypeOK, NEW p
  PROVE  /\ Load(memory, p).message \in Word /\ Load(memory, p).wParam \in Word
         /\ Load(memory, p).lParam \in Word /\ Load(memory, p) \in MessageRecord
<1>1. memory \in Seq(MessageRecord)
  BY DEF TypeOK
<1>2. CASE p \in DOMAIN memory
  <2>1. memory[p] \in MessageRecord
    BY <1>1, <1>2
  <2> QED
    BY <1>2, <2>1 DEF Load, MessageRecord, Word
<1>3. CASE p \notin DOMAIN memory
  <2>1. Junk \in Word
    BY DEF Word
  <2> QED
    BY <1>3, <2>1, MessageType DEF Load, NullMessage, Message, MessageRecord, Word
<1> QED
  BY <1>2, <1>3

LEMMA HandlerCallStep ==
  ASSUME NEW fs, With(fs), HandlerCall, NEW m, m = Load(memory, Messages)
  PROVE  /\ Leads(Append(fs, ebp + 9))
         /\ CalledFor(stack', Window, m.message, m.wParam, m.lParam)
<1>1. /\ TypeOK /\ stack \in Seq(Word) /\ Len(stack) \in Nat /\ ebp \in Nat
      /\ Framed(stack, ebp, eip, fs) /\ Held(stack, Len(memory), fs) /\ Len(fs) \in Nat
      /\ StackWords \in Nat
  BY WithTypes
<1> DEFINE code == m.message
           wParam == m.wParam
           lParam == m.lParam
<1>2. /\ stack' = SubSeq(stack, 1, ebp) \o <<lParam, wParam, code>>
                    \o <<lParam, wParam, code, Window>> \o <<AfterCall>>
      /\ ebp' = ebp /\ eip = Loop /\ eip' = Procedure /\ eax' = Procedure
      /\ status' = status /\ UNCHANGED Frozen /\ Count # 0 /\ Len(stack) + 5 < StackWords
  BY DEF HandlerCall, ProcedureArguments, Room, RoomAbove
<1>3. /\ ebp >= 7 /\ Len(stack) = ebp + 3 /\ Linked(stack, fs) /\ fs[Len(fs)] = ebp
      /\ Len(fs) % 2 = 0
  <2>1. /\ fs[Len(fs) - 1] \in Nat /\ fs[Len(fs) - 1] + 7 <= ebp /\ Len(stack) = ebp + 3
        /\ Linked(stack, fs) /\ fs[Len(fs)] = ebp /\ Len(fs) % 2 = 0
    BY <1>1, <1>2, InHandler
  <2> QED
    BY <1>1, <2>1
<1>4. Window \in Word
  <2>1. ebp - 2 \in 1..Len(stack)
    BY <1>1, <1>3
  <2> QED
    BY <1>1, <2>1 DEF Window
<1>5. code \in Word /\ wParam \in Word /\ lParam \in Word
  BY <1>1, LoadType
<1> HIDE DEF code, wParam, lParam
<1>6. /\ Framed(stack', ebp, Procedure, Append(fs, ebp + 9))
      /\ CalledFor(stack', Window, code, wParam, lParam)
  BY <1>1, <1>2, <1>4, <1>5, HandlerCallFrames, Zenon
<1>7. stack' \in Seq(Word) /\ Len(stack') = ebp + 8 /\ \A i \in 1..ebp : stack'[i] = stack[i]
  BY <1>6, Zenon DEF CalledFor
<1>8. Stacked(stack', ebp')
  <2>1. ebp + 8 < StackWords + 3 /\ ebp' \in 0..(ebp + 8)
    BY <1>1, <1>2, <1>3
  <2> QED
    BY <1>7, <2>1, Zenon DEF Stacked
<1>9. Held(stack', Len(memory), Append(fs, ebp + 9))
  <2>1. Linked(stack', fs)
    BY <1>3, <1>7, LinkedSame
  <2>2. Held(stack', Len(memory), fs)
    <3>1. \A i \in 1..(ebp - 1) : stack'[i] = stack[i]
      BY <1>1, <1>7
    <3> QED
      BY <1>1, <1>3, <3>1, HeldSame
  <2>3. ebp + 9 \in Nat /\ ~ ((Len(fs) + 1) % 2 = 0)
    BY <1>1, <1>3
  <2> QED
    BY <2>1, <2>2, <2>3, HeldPush, Zenon
<1>10. eax' \in Word
  BY <1>2 DEF Word
<1>11. Leads(Append(fs, ebp + 9))
  BY <1>2, <1>6, <1>8, <1>9, <1>10, RunStep
<1> QED
  BY <1>6, <1>11 DEF code, wParam, lParam

LEMMA EvenBelow ==
  ASSUME NEW n \in Nat, n % 2 = 0, n >= 2, NEW k \in 1..n, k % 2 = 0, k # n
  PROVE  k < n - 1 /\ k \in 2..n /\ n - 1 \in 1..n
<1>1. k # 1 /\ k # n - 1
  OBVIOUS
<1> QED
  BY <1>1

LEMMA HandlerNextStep ==
  ASSUME NEW fs, With(fs), HandlerNext
  PROVE  /\ Leads(fs)
         /\ stack' \in Seq(Word) /\ Len(stack') = Len(stack)
         /\ Count \in Nat \ {0} /\ Messages \in Nat
         /\ stack'[ebp - 4] = Count - 1 /\ stack'[ebp - 3] = Messages + 1
         /\ \A i \in 1..Len(stack) : i # ebp - 4 /\ i # ebp - 3 => stack'[i] = stack[i]
<1>1. /\ TypeOK /\ stack \in Seq(Word) /\ Len(stack) \in Nat /\ ebp \in Nat /\ ebp <= Len(stack)
      /\ Framed(stack, ebp, eip, fs) /\ Held(stack, Len(memory), fs) /\ Len(fs) \in Nat
      /\ Len(stack) < StackWords + 3
  BY WithTypes
<1>2. /\ stack' = CountDown(stack) /\ ebp' = ebp /\ eip = AfterCall /\ eip' = Loop
      /\ eax' = Messages + 1 /\ status' = status /\ UNCHANGED Frozen
  BY DEF HandlerNext
<1>3. /\ Framed(stack', ebp', Loop, fs) /\ stack' \in Seq(Word) /\ Len(stack') = Len(stack)
      /\ Count \in Nat \ {0} /\ Messages \in Nat
      /\ stack'[ebp - 4] = Count - 1 /\ stack'[ebp - 3] = Messages + 1
      /\ \A i \in 1..Len(stack) : i # ebp - 4 /\ i # ebp - 3 => stack'[i] = stack[i]
  BY <1>1, <1>2, HandlerNextFrames
<1>4. Stacked(stack', ebp')
  BY <1>1, <1>2, <1>3 DEF Stacked
<1>5. eax' \in Word
  BY <1>2, <1>3 DEF Word
<1>6. Held(stack', Len(memory), fs)
  <2>1. /\ Len(fs) >= 2 /\ Len(fs) % 2 = 0 /\ Linked(stack, fs) /\ fs[Len(fs)] = ebp
        /\ fs[Len(fs) - 1] \in Nat /\ fs[Len(fs) - 1] + 7 <= ebp
    BY <1>1, <1>2, InHandler
  <2> SUFFICES ASSUME NEW k \in 1..Len(fs), k % 2 = 0
               PROVE  stack'[fs[k] - 3] + stack'[fs[k] - 4] <= Len(memory) + 1
    BY DEF Held
  <2>2. stack[fs[k] - 3] + stack[fs[k] - 4] <= Len(memory) + 1
    BY <1>1 DEF Held
  <2>3. CASE k = Len(fs)
    <3>1. stack[ebp - 3] = Messages /\ stack[ebp - 4] = Count
      BY DEF Messages, Count
    <3>2. Messages + Count <= Len(memory) + 1
      BY <2>1, <2>2, <2>3, <3>1
    <3>3. (Messages + 1) + (Count - 1) = Messages + Count
      BY <1>3
    <3> QED
      BY <1>3, <2>1, <2>3, <3>2, <3>3
  <2>4. CASE k # Len(fs)
    <3>1. k < Len(fs) - 1 /\ k \in 2..Len(fs) /\ Len(fs) - 1 \in 1..Len(fs)
      BY <1>1, <2>1, <2>4, EvenBelow, Zenon
    <3>2. fs[k] \in Nat /\ fs[k] >= 7
      BY <2>1, <3>1, LinkedPositions
    <3>3. fs[k] < fs[Len(fs) - 1]
      BY <2>1, <3>1 DEF Linked
    <3>4. fs[k] - 3 \in 1..Len(stack) /\ fs[k] - 3 # ebp - 4 /\ fs[k] - 3 # ebp - 3
          /\ fs[k] - 4 \in 1..Len(stack) /\ fs[k] - 4 # ebp - 4 /\ fs[k] - 4 # ebp - 3
      <4> DEFINE x == fs[k]  y == fs[Len(fs) - 1]  n == Len(stack)
      <4>1. x \in Nat /\ y \in Nat /\ n \in Nat /\ x >= 7 /\ x < y /\ y + 7 <= ebp /\ ebp <= n
        BY <1>1, <2>1, <3>2, <3>3
      <4> HIDE DEF x, y, n
      <4>2. /\ x - 3 \in 1..n /\ x - 3 # ebp - 4 /\ x - 3 # ebp - 3
            /\ x - 4 \in 1..n /\ x - 4 # ebp - 4 /\ x - 4 # ebp - 3
        BY <1>1, <4>1
      <4> QED
        BY <4>2 DEF x, n
    <3>5. stack'[fs[k] - 3] = stack[fs[k] - 3] /\ stack'[fs[k] - 4] = stack[fs[k] - 4]
      BY <1>3, <3>4
    <3> QED
      BY <2>2, <3>5, Zenon
  <2> QED
    BY <2>3, <2>4
<1>7. Leads(fs)
  BY <1>2, <1>3, <1>4, <1>5, <1>6, RunStep
<1> QED
  BY <1>3, <1>7

LEMMA HandlerExitStep ==
  ASSUME NEW fs, With(fs), HandlerExit
  PROVE  Leads(SubSeq(fs, 1, Len(fs) - 1)) /\ Kept(ebp - 7) /\ Len(stack') = ebp - 7
<1>1. /\ TypeOK /\ stack \in Seq(Word) /\ Len(stack) \in Nat /\ ebp \in Nat /\ ebp <= Len(stack)
      /\ Framed(stack, ebp, eip, fs) /\ Held(stack, Len(memory), fs) /\ Len(fs) \in Nat
      /\ Len(stack) < StackWords + 3 /\ StackWords \in Nat
  BY WithTypes
<1> DEFINE es == SubSeq(fs, 1, Len(fs) - 1)
           g == fs[Len(fs) - 1]
<1>2. /\ stack' = SubSeq(stack, 1, ebp - 2 - 5) /\ ebp' = stack[ebp] /\ eip' = stack[ebp - 1]
      /\ eip = Loop /\ eax' = stack[ebp - 6] /\ status' = status /\ UNCHANGED Frozen
  BY DEF HandlerExit, LeaveAndReturn, Result
<1>3. /\ Framed(stack', stack[ebp], stack[ebp - 1], es)
      /\ stack[ebp - 1] \in Sites /\ stack[ebp] = g /\ g \in Nat
      /\ stack' \in Seq(Word) /\ Len(stack') = ebp - 7 /\ g <= ebp - 7
      /\ \A i \in 1..(ebp - 7) : stack'[i] = stack[i]
  BY <1>1, <1>2, HandlerExitFrames
<1>4. Len(fs) >= 2 /\ Linked(stack, fs) /\ Len(stack) = ebp + 3
  BY <1>1, <1>2, InHandler
<1>5. AllButLast(stack, fs, es)
  <2>1. Len(fs) > 1
    BY <1>1, <1>4
  <2> QED
    BY <1>4, <2>1, LinkedPop, Zenon
<1> HIDE DEF es, g
<1>6. Stacked(stack', ebp')
  BY <1>1, <1>2, <1>3 DEF Stacked
<1>7. eax' \in Word
  <2>1. ebp - 6 \in 1..Len(stack)
    BY <1>1, <1>3, <1>4
  <2> QED
    BY <1>1, <1>2, <2>1
<1>8. Held(stack', Len(memory), es)
  <2>1. Held(stack, Len(memory), es)
    BY <1>1, <1>5, HeldPop
  <2>2. Linked(stack, es) /\ es[Len(es)] = g
    <3>1. Len(fs) - 1 \in 1..(Len(fs) - 1)
      BY <1>1, <1>4
    <3> QED
      BY <1>5, <3>1 DEF AllButLast, g
  <2>3. \A k \in 1..(g - 1) : stack'[k] = stack[k]
    BY <1>1, <1>3
  <2> QED
    BY <2>1, <2>2, <2>3, HeldSame
<1>9. Leads(es)
  BY <1>2, <1>3, <1>6, <1>7, <1>8, RunStep
<1>10. Kept(ebp - 7)
  <2>1. ebp - 7 \in Nat /\ ebp - 7 <= Len(stack) /\ ebp - 7 <= Len(stack')
    BY <1>1, <1>3
  <2> QED
    BY <1>3, <2>1 DEF Kept
<1> QED
  BY <1>3, <1>9, <1>10 DEF es

LEMMA StopSteps ==
  ASSUME NEW fs, With(fs),
         \/ GuestPushOverflow \/ SendAsserts \/ ProcedureOverflow \/ HandlerCallOverflow
         \/ \E i \in Imports : ImportOverflow(i)
         \/ \E n \in {CreateArguments, UpdateArguments} : SendOverflow(n)
  PROVE  /\ Leads(fs) /\ UNCHANGED <<stack, ebp, eip, eax, Frozen>>
         /\ status = "running" /\ status' # "running"
<1>1. /\ status = "running"
      /\ \/ Overflow
         \/ status' = "not a window or not WM_PAINT" /\ UNCHANGED <<stack, ebp, eip, eax, Frozen>>
  BY Zenon DEF GuestPushOverflow, SendAsserts, ProcedureOverflow, HandlerCallOverflow, ImportOverflow,
               SendOverflow, GuestRuns
<1>2. UNCHANGED <<stack, ebp, eip, eax, Frozen>>
      /\ status' \in {"stack overflow", "not a window or not WM_PAINT"}
  BY <1>1 DEF Overflow
<1>3. Leads(fs)
  BY <1>2, StopStep
<1> QED
  BY <1>1, <1>2, <1>3

\* Before the program starts there is one frame, at the bottom of the stack.
LEMMA FirstFrame ==
  ASSUME Init
  PROVE  With(<<0>>)
<1>1. TypeOK /\ windows <= sent
  BY StackAssumption, BoundsAssumption
     DEF Init, TypeOK, StackAssumption, BoundsAssumption, Word
<1>2. stack = <<>> /\ ebp = 0 /\ eip \in Sites
  BY DEF Init
<1>3. <<0>> \in Seq(Nat) /\ Len(<<0>>) = 1 /\ <<0>>[1] = 0
  OBVIOUS
<1>4. Framed(stack, ebp, eip, <<0>>)
  <2>1. ChainOf(stack, ebp, eip) = stack /\ InnermostOf(stack, ebp, eip) = ebp
    BY <1>2, PlacesDiffer DEF ChainOf, InnermostOf, AtEntry
  <2>2. Linked(stack, <<0>>)
    BY <1>3 DEF Linked
  <2>3. Len(stack) = 0
    BY <1>2
  <2> QED
    BY <1>2, <1>3, <2>1, <2>2, <2>3, PlacesDiffer DEF Framed
<1>5. Held(stack, Len(memory), <<0>>)
  BY <1>3 DEF Held
<1> QED
  BY <1>1, <1>4, <1>5 DEF With

LEMMA GuestStep ==
  ASSUME KeepsCallers, NEW fs, With(fs), Guest
  PROVE  \E gs : Leads(gs)
<1>1. ASSUME NEW w \in Scratch, GuestPush(w) PROVE Leads(fs)
  BY <1>1, GuestPushStep
<1>2. CASE GuestPop
  BY <1>2, GuestPopStep
<1>3. ASSUME NEW i \in Imports, NEW w \in Scratch, NEW site \in Sites, ImportCall(i, w, site)
      PROVE  Leads(fs)
  BY <1>3, ImportCallStep
<1>4. ASSUME NEW w \in Scratch, NEW site \in Sites,
             \/ CreateWindowExA(w, site)
             \/ \E wnd \in 1..windows : UpdateWindow(wnd, w, site) \/ DispatchMessageA(wnd, w, site)
      PROVE  \E gs : Leads(gs)
  <2>1. \E n, result, count, wnd : Sends(n, result, count, wnd, site)
    BY <1>4, CreateWindowExAIs, UpdateWindowIs, DispatchMessageAIs, Zenon
  <2> QED
    BY <2>1, SendsStep, Zenon
<1>5. CASE \/ GuestPushOverflow \/ SendAsserts
           \/ \E i \in Imports : ImportOverflow(i)
           \/ \E n \in {CreateArguments, UpdateArguments} : SendOverflow(n)
  BY <1>5, StopSteps, Zenon
<1> QED
  BY <1>1, <1>2, <1>3, <1>4, <1>5, Zenon DEF Guest

LEMMA InterpreterStep ==
  ASSUME NEW fs, With(fs), Interpreter
  PROVE  \E gs : Leads(gs)
<1>1. CASE ProcedureEnter
  BY <1>1, ProcedureEnterStep, Zenon
<1>2. CASE HandlerEnter
  BY <1>2, HandlerEnterStep, Zenon
<1>3. CASE HandlerCall
  BY <1>3, HandlerCallStep, Zenon
<1>4. CASE HandlerNext
  BY <1>4, HandlerNextStep, Zenon
<1>5. CASE HandlerExit
  BY <1>5, HandlerExitStep, Zenon
<1>6. CASE ProcedureOverflow \/ HandlerCallOverflow
  BY <1>6, StopSteps, Zenon
<1> QED
  BY <1>1, <1>2, <1>3, <1>4, <1>5, <1>6, Zenon DEF Interpreter

LEMMA CallsStep ==
  ASSUME KeepsCallers, CallsInv, [Next]_vars
  PROVE  CallsInv'
<1>1. With(Frames)
  BY Zenon DEF CallsInv, FramesLinked, With
<1>2. CASE UNCHANGED vars
  <2>1. CallsInv' <=> CallsInv
    BY <1>2 DEF vars, CallsInv, TypeOK, FramesLinked, Frames
  <2> QED
    BY <2>1
<1>3. CASE Next
  <2>1. \E gs : Leads(gs)
    <3>1. CASE Guest
      BY <1>1, <3>1, GuestStep, Zenon
    <3>2. CASE Return
      BY <1>1, <3>2, ProcedureReturnStep, Zenon DEF Return
    <3>3. CASE Interpreter
      BY <1>1, <3>3, InterpreterStep, Zenon
    <3> QED
      BY <1>3, <3>1, <3>2, <3>3, Zenon DEF Next
  <2> QED
    BY <2>1, LeadsOn, Zenon
<1> QED
  BY <1>2, <1>3

LEMMA CallsInit ==
  ASSUME Init
  PROVE  CallsInv /\ Frames = <<0>>
<1>1. With(<<0>>)
  BY FirstFrame
<1>2. stack \in Seq(Word) /\ ebp \in Nat /\ Framed(stack, ebp, eip, <<0>>)
  BY <1>1, StackTypes DEF With
<1>3. Frames = <<0>>
  BY <1>2, FramesAre DEF Frames
<1> QED
  BY <1>1, <1>3 DEF With, CallsInv, FramesLinked

\* The inductive invariant holds of every behaviour.
THEOREM CallsInvariant ==
  ASSUME KeepsCallers
  PROVE  Spec => []CallsInv
<1>1. Init => CallsInv
  BY CallsInit
<1>2. CallsInv /\ [Next]_vars => CallsInv'
  BY CallsStep
<1> QED
  BY <1>1, <1>2, PTL DEF Spec

\* ebp always points into the stack and eip at code: no return takes an argument
\* or a local for a frame pointer or an address, provided no imported function
\* drops more words than its caller pushed.
THEOREM CallsTypeCorrect ==
  ASSUME KeepsCallers
  PROVE  Spec => []TypeOK
<1>1. CallsInv => TypeOK
  BY DEF CallsInv
<1> QED
  BY <1>1, CallsInvariant, PTL

\* The frames stay linked whatever guest code, the proxies and handle_messages do
\* to the stack, however deep window procedures call back into user32: guest code
\* and handlers alternate, every handler finds its count, its messages and its
\* return address where handleMessages put them, and none reads past the messages
\* it was given.
THEOREM FramesStayLinked ==
  ASSUME KeepsCallers
  PROVE  Spec => []FramesLinked
<1>1. CallsInv => FramesLinked
  BY DEF CallsInv
<1> QED
  BY <1>1, CallsInvariant, PTL
--------------------------------------------------------------------------------
(* Lists *)

\* a lists its values at 1..n: what activations and calls in progress are.
Lists(a, n) == n \in Nat /\ a = [k \in 1..n |-> a[k]]

LEMMA ListIs ==
  ASSUME NEW a, NEW n, Lists(a, n)
  PROVE  /\ Len(a) = n /\ \E S : a \in Seq(S)
         /\ n > 0 => a # <<>> /\ Calls!Last(a) = a[n] /\ Lists(Calls!Front(a), n - 1)
                     /\ \A k \in 1..(n - 1) : Calls!Front(a)[k] = a[k]
<1> DEFINE S == {a[k] : k \in 1..n}
<1>1. n \in Nat /\ a \in [1..n -> S]
  BY Zenon DEF Lists
<1>2. a \in Seq(S)
  BY <1>1
<1> HIDE DEF S
<1>3. Len(a) = n
  BY <1>1, <1>2
<1>4. ASSUME n > 0
      PROVE  a # <<>> /\ Calls!Last(a) = a[n] /\ Lists(Calls!Front(a), n - 1)
             /\ \A k \in 1..(n - 1) : Calls!Front(a)[k] = a[k]
  <2>1. a # <<>> /\ Calls!Last(a) = a[n]
    BY <1>1, <1>2, <1>3, <1>4 DEF Calls!Last
  <2>2. Calls!Front(a) = SubSeq(a, 1, n - 1) /\ n - 1 \in Nat
    BY <1>1, <1>3, <1>4 DEF Calls!Front
  <2>3. Calls!Front(a) \in [1..(n - 1) -> S] /\ \A k \in 1..(n - 1) : Calls!Front(a)[k] = a[k]
    <3>1. n - 1 <= Len(a)
      BY <1>1, <1>3
    <3>2. /\ Calls!Front(a) \in Seq(S) /\ Len(Calls!Front(a)) = n - 1
          /\ \A k \in 1..(n - 1) : Calls!Front(a)[k] = a[k]
      BY <1>2, <2>2, <3>1, ShorterStack
    <3> HIDE DEF S
    <3> QED
      BY <3>2
  <2>4. Calls!Front(a) = [k \in 1..(n - 1) |-> Calls!Front(a)[k]]
    BY <2>3, Zenon
  <2> QED
    BY <2>1, <2>2, <2>3, <2>4 DEF Lists
<1> QED
  BY <1>2, <1>3, <1>4

LEMMA ListsSame ==
  ASSUME NEW a, NEW b, NEW n, Lists(a, n), Lists(b, n), \A k \in 1..n : a[k] = b[k]
  PROVE  a = b
  BY Zenon DEF Lists

\* b is a but for its last value.
LEMMA ListsChange ==
  ASSUME NEW a, NEW b, NEW n, Lists(a, n), Lists(b, n), n > 0,
         \A k \in 1..(n - 1) : a[k] = b[k]
  PROVE  /\ a # <<>> /\ b # <<>> /\ Calls!Last(a) = a[n] /\ Calls!Last(b) = b[n] /\ Calls!Front(a) = Calls!Front(b)
<1>1. /\ a # <<>> /\ Calls!Last(a) = a[n] /\ Lists(Calls!Front(a), n - 1)
      /\ \A k \in 1..(n - 1) : Calls!Front(a)[k] = a[k]
  BY ListIs
<1>2. /\ b # <<>> /\ Calls!Last(b) = b[n] /\ Lists(Calls!Front(b), n - 1)
      /\ \A k \in 1..(n - 1) : Calls!Front(b)[k] = b[k]
  BY ListIs
<1>3. \A k \in 1..(n - 1) : Calls!Front(a)[k] = Calls!Front(b)[k]
  BY <1>1, <1>2
<1>4. Calls!Front(a) = Calls!Front(b)
  BY <1>1, <1>2, <1>3, ListsSame, Zenon
<1> QED
  BY <1>1, <1>2, <1>4

\* b is a and one more.
LEMMA ListsGrow ==
  ASSUME NEW a, NEW b, NEW n, Lists(a, n), Lists(b, n + 1), \A k \in 1..n : a[k] = b[k]
  PROVE  b # <<>> /\ Calls!Last(b) = b[n + 1] /\ Calls!Front(b) = a /\ b = Append(a, b[n + 1]) /\ Len(b) = n + 1
<1>1. n \in Nat /\ n + 1 > 0 /\ (n + 1) - 1 = n
  BY DEF Lists
<1>2. /\ b # <<>> /\ Calls!Last(b) = b[n + 1] /\ Lists(Calls!Front(b), n) /\ Len(b) = n + 1
      /\ \A k \in 1..n : Calls!Front(b)[k] = b[k]
  <2>1. /\ b # <<>> /\ Calls!Last(b) = b[n + 1] /\ Len(b) = n + 1
        /\ Lists(Calls!Front(b), (n + 1) - 1)
        /\ \A k \in 1..((n + 1) - 1) : Calls!Front(b)[k] = b[k]
    BY <1>1, ListIs
  <2> QED
    BY <1>1, <2>1
<1>3. Calls!Front(b) = a
  <2>1. \A k \in 1..n : Calls!Front(b)[k] = a[k]
    BY <1>2
  <2> QED
    BY <1>2, <2>1, ListsSame, Zenon
<1>4. b = Append(a, b[n + 1])
  <2> DEFINE c == Append(a, b[n + 1])  S == {b[k] : k \in 1..(n + 1)}
  <2>1. Len(a) = n
    BY ListIs
  <2>2. a \in Seq(S) /\ b[n + 1] \in S
    <3>1. \A k \in 1..n : a[k] \in S
      BY <1>1
    <3>2. b[n + 1] \in S
      BY <1>1
    <3> HIDE DEF S
    <3>3. a \in [1..n -> S]
      BY <3>1 DEF Lists
    <3> QED
      BY <1>1, <3>2, <3>3
  <2> HIDE DEF S
  <2>3. AppendOf(S, c, a, b[n + 1])
    BY <2>2, Appended, Zenon
  <2> HIDE DEF c
  <2>4. /\ c \in [1..(n + 1) -> S] /\ c[n + 1] = b[n + 1]
        /\ \A k \in 1..n : c[k] = a[k]
    BY <1>1, <2>1, <2>3 DEF AppendOf
  <2>5. c = [k \in 1..(n + 1) |-> c[k]]
    BY <2>4, Zenon
  <2>6. \A k \in 1..(n + 1) : c[k] = b[k]
    BY <1>1, <2>4
  <2>7. Lists(c, n + 1)
    BY <1>1, <2>5 DEF Lists
  <2> QED
    BY <2>6, <2>7, ListsSame, Zenon DEF c
<1> QED
  BY <1>2, <1>3, <1>4

--------------------------------------------------------------------------------
(* Where frames lie *)

LEMMA Halves ==
  ASSUME NEW n \in Nat
  PROVE  /\ n % 2 = 1 => \E h \in Nat : n = 2 * h + 1 /\ (n + 1) \div 2 = h + 1 /\ n \div 2 = h
         /\ n % 2 = 0 => \E h \in Nat : n = 2 * h /\ (n + 1) \div 2 = h /\ n \div 2 = h
<1>1. n \div 2 \in Nat
  OBVIOUS
<1>2. ASSUME n % 2 = 1 PROVE n = 2 * (n \div 2) + 1 /\ (n + 1) \div 2 = n \div 2 + 1
  BY <1>2
<1>3. ASSUME n % 2 = 0 PROVE n = 2 * (n \div 2) /\ (n + 1) \div 2 = n \div 2
  BY <1>3
<1> QED
  BY <1>1, <1>2, <1>3, Zenon

\* Frames leave room for a handler's arguments below it, and for a message told.
Spaced(fs) ==
  /\ Len(fs) \in Nat \ {0} /\ fs[1] = 0
  /\ \A k \in 1..Len(fs) : fs[k] \in Nat
  /\ \A j, k \in 1..Len(fs) : j <= k => fs[j] <= fs[k]
  /\ \A k \in 2..Len(fs) : fs[k] >= 7
  /\ \A k \in 1..(Len(fs) - 1) : k % 2 = 1 => fs[k] + 7 <= fs[k + 1]

LEMMA LinkedSpaced ==
  ASSUME NEW c, NEW fs, Linked(c, fs)
  PROVE  Spaced(fs)
<1>1. /\ Len(fs) \in Nat /\ Len(fs) >= 1 /\ fs[1] = 0
      /\ \A k \in 1..Len(fs) : fs[k] \in Nat
      /\ \A k \in 2..Len(fs) : fs[k] >= 7
  BY LinkedPositions DEF Linked
<1>2. ASSUME NEW k \in 1..(Len(fs) - 1), k % 2 = 1 PROVE fs[k] + 7 <= fs[k + 1]
  <2>1. k + 1 \in 2..Len(fs) /\ (k + 1) - 1 = k /\ (k + 1) % 2 = 0
    BY <1>1, <1>2
  <2>2. Link(c, k + 1, fs[k], fs[k + 1])
    BY <2>1 DEF Linked
  <2> QED
    BY <2>1, <2>2 DEF Link, HandlerFrameAt
<1>3. ASSUME NEW j \in 1..Len(fs), NEW k \in 1..Len(fs), j <= k PROVE fs[j] <= fs[k]
  <2>1. j < k => fs[j] < fs[k]
    BY DEF Linked
  <2> QED
    BY <1>1, <1>3, <2>1
<1> QED
  BY <1>1, <1>2, <1>3 DEF Spaced

\* A handler at f of stack s has messages left among the first n.
Waits(s, n, f) ==
  /\ f >= 7 /\ f - 1 <= Len(s)
  /\ s[f - 3] \in Nat \ {0} /\ s[f - 4] \in Nat /\ s[f - 3] + s[f - 4] <= n + 1
  /\ s[f - 1] \in Sites

LEMMA Placed ==
  ASSUME NEW fs, With(fs)
  PROVE  /\ Spaced(fs) /\ fs[Len(fs)] <= Len(stack) + 1
         /\ ebp # fs[Len(fs)] => fs[Len(fs)] = Len(stack) + 1
         /\ AtEntry(eip) => fs[Len(fs)] = Len(stack) + 1
         /\ ~ AtEntry(eip) => fs[Len(fs)] = ebp
         /\ Len(fs) % 2 = 1 <=> eip \in Sites \cup {Procedure}
<1>1. Framed(stack, ebp, eip, fs) /\ Len(stack) \in Nat /\ ebp \in Nat /\ ebp <= Len(stack)
  BY WithTypes
<1>2. Linked(ChainOf(stack, ebp, eip), fs) /\ fs[Len(fs)] = InnermostOf(stack, ebp, eip)
      /\ (Len(fs) % 2 = 1 <=> eip \in Sites \cup {Procedure})
  BY <1>1, Zenon DEF Framed
<1>3. Spaced(fs)
  BY <1>2, LinkedSpaced
<1> QED
  BY <1>1, <1>2, <1>3 DEF InnermostOf

LEMMA HandlersWait ==
  ASSUME NEW fs, With(fs), NEW k \in 1..Len(fs), k % 2 = 0
  PROVE  Waits(stack, Len(memory), fs[k])
<1> DEFINE c == ChainOf(stack, ebp, eip)
           f == fs[k]
<1>1. /\ stack \in Seq(Word) /\ Len(stack) \in Nat /\ ebp \in Nat /\ ebp <= Len(stack)
      /\ Framed(stack, ebp, eip, fs) /\ Held(stack, Len(memory), fs) /\ Len(fs) \in Nat
  BY WithTypes
<1>2. Spaced(fs) /\ fs[Len(fs)] <= Len(stack) + 1
  BY Placed
<1>3. k \in 2..Len(fs) /\ k - 1 \in 1..Len(fs)
  BY <1>1
<1>4. f >= 7 /\ f \in Nat /\ fs[k - 1] \in Nat /\ f <= Len(stack) + 1
  BY <1>1, <1>2, <1>3 DEF Spaced
<1>5. Link(c, k, fs[k - 1], f)
  BY <1>1, <1>3 DEF Framed, Linked
<1>6. HandlerFrameAt(c, fs[k - 1], f)
  BY <1>5 DEF Link
<1>7. \A i \in 1..Len(stack) : c[i] = stack[i]
  <2>1. \A i \in 1..Len(stack) : Append(stack, ebp)[i] = stack[i]
    BY <1>1
  <2> QED
    BY <2>1 DEF ChainOf
<1>8. stack[f - 3] + stack[f - 4] <= Len(memory) + 1
  BY <1>1 DEF Held
<1> HIDE DEF c, f
<1>9. f - 1 \in 1..Len(stack) /\ f - 3 \in 1..Len(stack) /\ f - 4 \in 1..Len(stack)
  BY <1>1, <1>4
<1>10. c[f - 1] = stack[f - 1] /\ c[f - 3] = stack[f - 3] /\ c[f - 4] = stack[f - 4]
  BY <1>7, <1>9
<1>11. stack[f - 1] \in Sites /\ stack[f - 3] \in Nat \ {0} /\ stack[f - 4] \in Nat
  BY <1>6, <1>10 DEF HandlerFrameAt
<1>12. f - 1 <= Len(stack)
  BY <1>1, <1>4
<1> QED
  BY <1>4, <1>8, <1>11, <1>12, Zenon DEF Waits, f

--------------------------------------------------------------------------------
(* What WindowCalls sees *)

\* Stacks s and t hold the same n words at the bottom.
Agree(s, t, n) ==
  /\ s \in Seq(Word) /\ t \in Seq(Word) /\ n \in Nat /\ n <= Len(s) /\ n <= Len(t)
  /\ \A i \in 1..n : t[i] = s[i]

Alike(s, t, a, e) == SubSeq(t, a, e) = SubSeq(s, a, e)

LEMMA SameWords ==
  ASSUME NEW s, NEW t, NEW n, Agree(s, t, n), NEW a \in Nat, a > 0, NEW e \in Int, e <= n
  PROVE  Alike(s, t, a, e)
<1>a. s \in Seq(Word) /\ t \in Seq(Word) /\ n \in Nat /\ \A i \in 1..n : t[i] = s[i]
  BY DEF Agree
<1>1. \A i \in 1..(1 + e - a) : t[i + a - 1] = s[i + a - 1]
  <2> SUFFICES ASSUME NEW i \in 1..(1 + e - a) PROVE t[i + a - 1] = s[i + a - 1]
    OBVIOUS
  <2>1. i + a - 1 \in 1..n
    BY <1>a
  <2> QED
    BY <1>a, <2>1
<1> QED
  BY <1>a, <1>1 DEF Alike

LEMMA SameAsked ==
  ASSUME NEW s, NEW t, NEW n, Agree(s, t, n), NEW f \in Nat, f >= 7, f - 2 <= n
  PROVE  Asked(t, f) = Asked(s, f)
<1>1. f - 2 \in 1..n /\ f - 3 \in 1..n /\ f - 4 \in 1..n /\ f - 5 \in 1..n
  BY DEF Agree
<1>2. t[f - 2] = s[f - 2] /\ t[f - 3] = s[f - 3] /\ t[f - 4] = s[f - 4] /\ t[f - 5] = s[f - 5]
  BY <1>1 DEF Agree
<1> QED
  BY <1>2 DEF Asked

\* An activation below a handler stays as it is while the stack is kept to the end
\* of its words.
LEMMA SameActivation ==
  ASSUME NEW s, NEW t, NEW n \in Nat, Agree(s, t, n),
         NEW fs, NEW gs, Spaced(fs), NEW k \in Nat \ {0}, 2 * k <= Len(fs), 2 * k <= Len(gs),
         gs[2 * k - 1] = fs[2 * k - 1], gs[2 * k] = fs[2 * k], fs[2 * k] - 7 <= n
  PROVE  Activation(t, gs, k) = Activation(s, fs, k)
<1> DEFINE f == fs[2 * k - 1]
           end == fs[2 * k] - 7
<1>1. f \in Nat /\ fs[2 * k] \in Nat /\ f <= end /\ (f = 0 \/ f >= 7)
  <2>1. Len(fs) \in Nat /\ 2 * k - 1 \in 1..(Len(fs) - 1) /\ 2 * k \in 1..Len(fs) /\ 2 * k - 1 \in 1..Len(fs)
        /\ (2 * k - 1) + 1 = 2 * k /\ (2 * k - 1) % 2 = 1
    BY DEF Spaced
  <2>2. f \in Nat /\ fs[2 * k] \in Nat /\ f + 7 <= fs[2 * k]
    BY <2>1 DEF Spaced
  <2>3. CASE k = 1
    BY <2>3 DEF Spaced
  <2>4. CASE k # 1
    <3>1. 2 * k - 1 \in 2..Len(fs)
      <4> DEFINE j == 2 * k - 1
      <4>1. j \in 1..(Len(fs) - 1) /\ Len(fs) \in Nat /\ j # 1
        BY <2>1, <2>4
      <4> HIDE DEF j
      <4>2. j \in 2..Len(fs)
        BY <4>1
      <4> QED
        BY <4>2 DEF j
    <3> QED
      BY <3>1 DEF Spaced
  <2> QED
    BY <2>2, <2>3, <2>4
<1> HIDE DEF f
<1>2. end \in Int /\ end <= n /\ f + 1 \in Nat /\ f + 1 > 0
  BY <1>1
<1> HIDE DEF end
<1>3. SubSeq(t, f + 1, end) = SubSeq(s, f + 1, end)
  <2>1. Alike(s, t, f + 1, end)
    BY <1>2, SameWords, Zenon
  <2> QED
    BY <2>1 DEF Alike
<1>4. ASSUME f # 0 PROVE Asked(t, f) = Asked(s, f)
  <2>1. f <= n
    BY <1>1, <1>2
  <2>2. f - 2 <= n
    BY <1>1, <2>1
  <2> QED
    BY <1>1, <1>4, <2>2, SameAsked, Zenon
<1> QED
  BY <1>3, <1>4 DEF Activation, f, end

\* A call in progress stays as it is while the stack is kept to its place and its
\* handler neither starts nor ends a call of the procedure, whatever messages are
\* written behind those there are.
LEMMA SameSend ==
  ASSUME NEW s, NEW t, NEW n \in Nat, Agree(s, t, n),
         NEW fs, NEW gs, NEW k \in Nat \ {0}, gs[2 * k] = fs[2 * k], fs[2 * k] \in Nat,
         fs[2 * k] - 1 <= n,
         NEW i, NEW j, (2 * k < Len(fs) \/ i = AfterCall) <=> (2 * k < Len(gs) \/ j = AfterCall),
         NEW m \in Seq(MessageRecord), NEW l \in Seq(MessageRecord), Waits(s, Len(m), fs[2 * k]),
         Len(m) <= Len(l), \A p \in 1..Len(m) : l[p] = m[p]
  PROVE  Pending(t, j, l, gs, k) = Pending(s, i, m, fs, k)
<1> DEFINE f == fs[2 * k]
           begun == IF 2 * k < Len(fs) \/ i = AfterCall THEN 1 ELSE 0
           p == s[f - 3]
           c == s[f - 4]
<1>1. f \in Nat /\ f >= 7 /\ p \in Nat \ {0} /\ c \in Nat /\ p + c <= Len(m) + 1 /\ begun \in {0, 1}
  BY DEF Waits
<1>2. f - 1 <= n
  OBVIOUS
<1> HIDE DEF f
<1>3. /\ t[f - 1] = s[f - 1] /\ t[f - 2] = s[f - 2] /\ t[f - 3] = p /\ t[f - 4] = c
      /\ t[f - 6] = s[f - 6]
  <2>1. f - 1 \in 1..n /\ f - 2 \in 1..n /\ f - 3 \in 1..n /\ f - 4 \in 1..n /\ f - 6 \in 1..n
    BY <1>1, <1>2
  <2> QED
    BY <2>1 DEF Agree
<1>4. begun = IF 2 * k < Len(gs) \/ j = AfterCall THEN 1 ELSE 0
  BY Zenon
<1> HIDE DEF begun, p, c
<1>5. \A x \in 1..(c - begun) : Load(l, p + begun + x - 1) = Load(m, p + begun + x - 1)
  <2> SUFFICES ASSUME NEW x \in 1..(c - begun)
               PROVE  Load(l, p + begun + x - 1) = Load(m, p + begun + x - 1)
    OBVIOUS
  <2>1. Len(m) \in Nat /\ Len(l) \in Nat
    OBVIOUS
  <2>2. p + begun + x - 1 \in 1..Len(m) /\ p + begun + x - 1 \in 1..Len(l)
    BY <1>1, <2>1
  <2> QED
    BY <2>2 DEF Load
<1>6. [x \in 1..(c - begun) |-> Load(l, p + begun + x - 1)]
        = [x \in 1..(c - begun) |-> Load(m, p + begun + x - 1)]
  BY <1>5, Zenon
<1>7. Pending(t, j, l, gs, k) =
        [window |-> t[f - 2],
         left |-> [x \in 1..(t[f - 4] - begun) |-> Load(l, t[f - 3] + begun + x - 1)],
         answer |-> t[f - 6], place |-> t[f - 1]]
  BY <1>4, Zenon DEF Pending, f
<1>8. Pending(s, i, m, fs, k) =
        [window |-> s[f - 2], left |-> [x \in 1..(c - begun) |-> Load(m, p + begun + x - 1)],
         answer |-> s[f - 6], place |-> s[f - 1]]
  BY Zenon DEF Pending, begun, p, c, f
<1> QED
  BY <1>3, <1>6, <1>7, <1>8, Zenon

\* na activations and ns calls in progress are seen.
Sees(s, i, m, fs, na, ns) ==
  /\ Lists(Activations(s, fs), na) /\ Lists(PendingSends(s, i, m, fs), ns)
  /\ \A k \in 1..na : Activations(s, fs)[k] = Activation(s, fs, k)
  /\ \A k \in 1..ns : PendingSends(s, i, m, fs)[k] = Pending(s, i, m, fs, k)

LEMMA SeenAs ==
  ASSUME NEW s, NEW i, NEW m, NEW fs, NEW na \in Nat, NEW ns \in Nat,
         (Len(fs) + 1) \div 2 = na, Len(fs) \div 2 = ns
  PROVE  Sees(s, i, m, fs, na, ns)
<1>1. Activations(s, fs) = [k \in 1..na |-> Activation(s, fs, k)]
  BY Zenon DEF Activations
<1>2. PendingSends(s, i, m, fs) = [k \in 1..ns |-> Pending(s, i, m, fs, k)]
  BY Zenon DEF PendingSends
<1> QED
  BY <1>1, <1>2, Zenon DEF Sees, Lists

LEMMA GuestSees ==
  ASSUME NEW s, NEW i, NEW m, NEW fs, NEW h \in Nat, Len(fs) = 2 * h + 1
  PROVE  Sees(s, i, m, fs, h + 1, h)
<1>1. (Len(fs) + 1) \div 2 = h + 1 /\ Len(fs) \div 2 = h /\ h + 1 \in Nat
  OBVIOUS
<1> QED
  BY <1>1, SeenAs, Zenon

LEMMA HandlerSees ==
  ASSUME NEW s, NEW i, NEW m, NEW fs, NEW h \in Nat, Len(fs) = 2 * h
  PROVE  Sees(s, i, m, fs, h, h)
<1>1. (Len(fs) + 1) \div 2 = h /\ Len(fs) \div 2 = h
  OBVIOUS
<1> QED
  BY <1>1, SeenAs, Zenon

\* The first frames of the next state are those of this one.
Shares(fs, gs, h) ==
  2 * h <= Len(fs) /\ 2 * h <= Len(gs) /\ \A k \in 1..(2 * h) : gs[k] = fs[k]

LEMMA PairOf ==
  ASSUME NEW fs, NEW gs, NEW h \in Nat, Spaced(fs), Shares(fs, gs, h), NEW k \in 1..h
  PROVE  /\ k \in Nat \ {0} /\ 2 * k <= Len(fs) /\ 2 * k <= Len(gs)
         /\ gs[2 * k - 1] = fs[2 * k - 1] /\ gs[2 * k] = fs[2 * k]
         /\ fs[2 * k] \in Nat /\ fs[2 * h] \in Nat /\ fs[2 * k] <= fs[2 * h]
<1>1. /\ Len(fs) \in Nat /\ 2 * h <= Len(fs) /\ 2 * h <= Len(gs)
      /\ 2 * k \in 1..(2 * h) /\ 2 * k - 1 \in 1..(2 * h) /\ k \in Nat \ {0}
  BY DEF Spaced, Shares
<1>2. gs[2 * k - 1] = fs[2 * k - 1] /\ gs[2 * k] = fs[2 * k]
  BY <1>1 DEF Shares
<1> DEFINE j == 2 * k  e == 2 * h  n == Len(fs)
<1>3. j \in 1..n /\ e \in 1..n /\ j <= e
  BY <1>1
<1>4. 2 * k <= Len(gs)
  <2>1. gs = gs
    OBVIOUS
  <2> QED
    BY <1>1 DEF Shares
<1> HIDE DEF j, e
<1>5. fs[j] \in Nat /\ fs[e] \in Nat /\ fs[j] <= fs[e]
  BY <1>3 DEF Spaced
<1> QED
  BY <1>1, <1>2, <1>3, <1>4, <1>5 DEF j, e

LEMMA LowActivations ==
  ASSUME NEW fs, NEW gs, NEW h \in Nat, NEW n \in Nat, Spaced(fs), Shares(fs, gs, h),
         Agree(stack, stack', n), h # 0 => fs[2 * h] - 7 <= n
  PROVE  \A k \in 1..h : Activation(stack', gs, k) = Activation(stack, fs, k)
<1> SUFFICES ASSUME NEW k \in 1..h PROVE Activation(stack', gs, k) = Activation(stack, fs, k)
  OBVIOUS
<1>1. /\ k \in Nat \ {0} /\ 2 * k <= Len(fs) /\ 2 * k <= Len(gs)
      /\ gs[2 * k - 1] = fs[2 * k - 1] /\ gs[2 * k] = fs[2 * k]
      /\ fs[2 * k] \in Nat /\ fs[2 * h] \in Nat /\ fs[2 * k] <= fs[2 * h]
  BY PairOf
<1>2. fs[2 * k] - 7 <= n
  <2> DEFINE x == fs[2 * k]  y == fs[2 * h]
  <2>1. x \in Nat /\ y \in Nat /\ x <= y /\ y - 7 <= n
    BY <1>1
  <2> HIDE DEF x, y
  <2>2. x - 7 <= n
    BY <2>1
  <2> QED
    BY <2>2 DEF x
<1> QED
  BY <1>1, <1>2, SameActivation

MemoryGrows ==
  /\ memory \in Seq(MessageRecord) /\ memory' \in Seq(MessageRecord)
  /\ Len(memory) <= Len(memory') /\ \A p \in 1..Len(memory) : memory'[p] = memory[p]

LEMMA LowSends ==
  ASSUME NEW fs, With(fs), NEW gs, NEW h \in Nat, NEW n \in Nat, Shares(fs, gs, h),
         Agree(stack, stack', n), h # 0 => fs[2 * h] - 1 <= n, MemoryGrows,
         (2 * h < Len(fs) \/ eip = AfterCall) <=> (2 * h < Len(gs) \/ eip' = AfterCall)
  PROVE  \A k \in 1..h : Pending(stack', eip', memory', gs, k) = Pending(stack, eip, memory, fs, k)
<1> SUFFICES ASSUME NEW k \in 1..h
             PROVE  Pending(stack', eip', memory', gs, k) = Pending(stack, eip, memory, fs, k)
  OBVIOUS
<1>a. Spaced(fs)
  BY Placed
<1>1. /\ k \in Nat \ {0} /\ 2 * k <= Len(fs) /\ 2 * k <= Len(gs)
      /\ gs[2 * k - 1] = fs[2 * k - 1] /\ gs[2 * k] = fs[2 * k]
      /\ fs[2 * k] \in Nat /\ fs[2 * h] \in Nat /\ fs[2 * k] <= fs[2 * h]
  BY <1>a, PairOf
<1>2. fs[2 * k] - 1 <= n
  <2> DEFINE x == fs[2 * k]  y == fs[2 * h]
  <2>1. x \in Nat /\ y \in Nat /\ x <= y /\ y - 1 <= n
    BY <1>1
  <2> HIDE DEF x, y
  <2>2. x - 1 <= n
    BY <2>1
  <2> QED
    BY <2>2 DEF x
<1>3. Waits(stack, Len(memory), fs[2 * k])
  <2>1. 2 * k \in 1..Len(fs) /\ (2 * k) % 2 = 0
    BY <1>a, <1>1 DEF Spaced
  <2> QED
    BY <2>1, HandlersWait
<1>4. (2 * k < Len(fs) \/ eip = AfterCall) <=> (2 * k < Len(gs) \/ eip' = AfterCall)
  <2>1. CASE k = h
    BY <2>1
  <2>2. CASE k # h
    <3>1. 2 * k < 2 * h /\ 2 * h <= Len(fs) /\ 2 * h <= Len(gs)
      BY <2>2 DEF Shares
    <3>2. 2 * k < Len(fs)
      BY <3>1, <1>a DEF Spaced
    <3>3. 2 * k < Len(gs)
      BY <3>1
    <3> QED
      BY <3>2, <3>3
  <2> QED
    BY <2>1, <2>2
<1>5. /\ memory \in Seq(MessageRecord) /\ memory' \in Seq(MessageRecord)
      /\ Len(memory) <= Len(memory') /\ \A p \in 1..Len(memory) : memory'[p] = memory[p]
  BY DEF MemoryGrows
<1> QED
  BY <1>1, <1>2, <1>3, <1>4, <1>5, SameSend

--------------------------------------------------------------------------------
(* Guest code works *)

TopOff(t, a, e) ==
  SubSeq(t, a, e + 1) # <<>> /\ Calls!Front(SubSeq(t, a, e + 1)) = SubSeq(t, a, e)

LEMMA SubTop ==
  ASSUME NEW t \in Seq(Word), NEW a \in Nat, NEW e \in Nat, a > 0, a <= e + 1, e + 1 <= Len(t)
  PROVE  TopOff(t, a, e)
<1> DEFINE u == SubSeq(t, a, e + 1)
<1>1. u \in Seq(Word) /\ Len(u) = e + 2 - a /\ \A i \in 1..(e + 2 - a) : u[i] = t[i + a - 1]
  OBVIOUS
<1>2. u # <<>>
  BY <1>1
<1> DEFINE v == SubSeq(t, a, e)
<1>3. v \in Seq(Word) /\ Len(v) = e + 1 - a /\ \A i \in 1..(e + 1 - a) : v[i] = t[i + a - 1]
  OBVIOUS
<1> HIDE DEF u, v
<1>4. SubSeq(u, 1, Len(u) - 1) = v
  <2> DEFINE w == SubSeq(u, 1, Len(u) - 1)
  <2>1. w \in Seq(Word) /\ Len(w) = e + 1 - a /\ \A i \in 1..(e + 1 - a) : w[i] = u[i]
    BY <1>1
  <2> HIDE DEF w
  <2>2. ASSUME NEW i \in 1..(e + 1 - a) PROVE w[i] = v[i]
    <3>1. i \in 1..(e + 2 - a)
      OBVIOUS
    <3> QED
      BY <1>1, <1>3, <2>1, <3>1
  <2>3. w = v
    <3> DEFINE l == e + 1 - a
    <3>1. w = [i \in 1..l |-> w[i]] /\ v = [i \in 1..l |-> v[i]]
      BY <1>3, <2>1
    <3>2. \A i \in 1..l : w[i] = v[i]
      BY <2>2
    <3> HIDE DEF l
    <3> QED
      BY <3>1, <3>2, Zenon
  <2> QED
    BY <2>3 DEF w
<1> QED
  BY <1>2, <1>4 DEF u, v, Calls!Front, TopOff

\* The running activation's words: s has the words of t, or one more, or one less.
OneWord(s, t) ==
  \/ Len(t) = Len(s) /\ Agree(s, t, Len(s))
  \/ Len(t) = Len(s) + 1 /\ Agree(s, t, Len(s))
  \/ Len(s) = Len(t) + 1 /\ Agree(s, t, Len(t))

ByOneWord(l, r) ==
  \/ r = l
  \/ l # <<>> /\ r = Calls!Front(l)
  \/ r # <<>> /\ Calls!Front(r) = l

LEMMA OneWordOfLocals ==
  ASSUME NEW s \in Seq(Word), NEW t \in Seq(Word), OneWord(s, t), NEW f \in Nat, f <= Len(s), f <= Len(t),
         NEW l, NEW r, l = SubSeq(s, f + 1, Len(s)), r = SubSeq(t, f + 1, Len(t))
  PROVE  ByOneWord(l, r)
<1>1. Len(s) \in Nat /\ Len(t) \in Nat /\ f + 1 \in Nat /\ f + 1 > 0
  OBVIOUS
<1>2. CASE Len(t) = Len(s) /\ Agree(s, t, Len(s))
  <2>1. Alike(s, t, f + 1, Len(s))
    BY <1>1, <1>2, SameWords
  <2> QED
    BY <1>2, <2>1 DEF Alike, ByOneWord
<1>3. CASE Len(t) = Len(s) + 1 /\ Agree(s, t, Len(s))
  <2>1. Alike(s, t, f + 1, Len(s))
    BY <1>1, <1>3, SameWords
  <2>2. TopOff(t, f + 1, Len(s))
    <3>1. f + 1 <= Len(s) + 1 /\ Len(s) + 1 <= Len(t)
      BY <1>1, <1>3
    <3> QED
      BY <1>1, <3>1, SubTop
  <2> QED
    BY <1>3, <2>1, <2>2, Zenon DEF Alike, TopOff, ByOneWord
<1>4. CASE Len(s) = Len(t) + 1 /\ Agree(s, t, Len(t))
  <2>1. Alike(s, t, f + 1, Len(t))
    BY <1>1, <1>4, SameWords
  <2>2. TopOff(s, f + 1, Len(t))
    <3>1. f + 1 <= Len(t) + 1 /\ Len(t) + 1 <= Len(s)
      BY <1>1, <1>4
    <3> QED
      BY <1>1, <3>1, SubTop
  <2> QED
    BY <1>4, <2>1, <2>2, Zenon DEF Alike, TopOff, ByOneWord
<1> QED
  BY <1>2, <1>3, <1>4, Zenon DEF OneWord, ByOneWord

\* The frames of two states are fs and gs.
LEMMA FramesKnown ==
  ASSUME NEW fs, With(fs), NEW gs, Leads(gs)
  PROVE  Frames = fs /\ Frames' = gs
<1>1. stack \in Seq(Word) /\ ebp \in Nat /\ Framed(stack, ebp, eip, fs)
  BY WithTypes
<1>2. Frames = fs
  BY <1>1, FramesAre, Zenon DEF Frames
<1> QED
  BY <1>2, LeadsOn

LEMMA OddLength ==
  ASSUME NEW fs, With(fs), eip \in Sites \cup {Procedure}
  PROVE  \E h \in Nat : Len(fs) = 2 * h + 1
<1>1. Len(fs) % 2 = 1 /\ Len(fs) \in Nat
  BY Placed DEF Spaced
<1> QED
  BY <1>1, Halves

LEMMA EvenLength ==
  ASSUME NEW fs, With(fs), eip \in {Handler, Loop, AfterCall}
  PROVE  \E h \in Nat \ {0} : Len(fs) = 2 * h
<1>1. Len(fs) % 2 # 1 /\ Len(fs) \in Nat /\ Len(fs) # 0
  BY Placed, PlacesDiffer DEF Spaced
<1>2. Len(fs) % 2 = 0
  BY <1>1
<1>3. PICK h \in Nat : Len(fs) = 2 * h
  BY <1>1, <1>2, Halves
<1> QED
  BY <1>1, <1>3

\* The activation whose frame is at f, its words up to e.
GuestAt(s, f, e) ==
  [asked |-> IF f = 0 THEN <<>> ELSE Asked(s, f), locals |-> SubSeq(s, f + 1, e)]

\* The running activation has the words above its frame pointer.
LEMMA RunningIs ==
  ASSUME NEW s, NEW fs, NEW h \in Nat, Len(fs) = 2 * h + 1
  PROVE  Activation(s, fs, h + 1) = GuestAt(s, fs[2 * h + 1], Len(s))
<1>1. 2 * (h + 1) - 1 = 2 * h + 1 /\ ~ (2 * (h + 1) <= Len(fs))
  OBVIOUS
<1> QED
  BY <1>1, Zenon DEF Activation, GuestAt

\* An activation below the handler at e.
LEMMA ClosedIs ==
  ASSUME NEW s, NEW fs, NEW h \in Nat, 2 * h + 2 <= Len(fs)
  PROVE  Activation(s, fs, h + 1) = GuestAt(s, fs[2 * h + 1], fs[2 * h + 2] - 7)
<1>1. 2 * (h + 1) - 1 = 2 * h + 1 /\ 2 * (h + 1) = 2 * h + 2
  OBVIOUS
<1> QED
  BY <1>1, Zenon DEF Activation, GuestAt

LEMMA SameGuest ==
  ASSUME NEW s, NEW t, NEW n, Agree(s, t, n), NEW f \in Nat, f = 0 \/ f >= 7, f <= n,
         NEW e \in Int, e <= n
  PROVE  GuestAt(t, f, e) = GuestAt(s, f, e)
<1>1. n \in Nat /\ f + 1 \in Nat /\ f + 1 > 0 /\ f - 2 <= n
  BY DEF Agree
<1>2. Alike(s, t, f + 1, e)
  BY <1>1, SameWords
<1>3. f # 0 => Asked(t, f) = Asked(s, f)
  BY <1>1, SameAsked
<1> QED
  BY <1>2, <1>3, Zenon DEF GuestAt, Alike

LEMMA WorkIs ==
  ASSUME NEW fs, With(fs), Leads(fs), eip \in Sites, eip' \in Sites, ebp' = ebp,
         status = "running", status' = status, UNCHANGED memory, OneWord(stack, stack')
  PROVE  Calls!Work
<1>1. PICK h \in Nat : Len(fs) = 2 * h + 1
  BY OddLength
<1>2. Sees(stack, eip, memory, fs, h + 1, h) /\ Sees(stack', eip', memory', fs, h + 1, h)
  BY <1>1, GuestSees, Zenon
<1>3. Spaced(fs) /\ fs[2 * h + 1] = ebp
  BY <1>1, Placed, PlacesDiffer DEF AtEntry
<1> DEFINE acts == Activations(stack, fs)   nextActs == Activations(stack', fs)
           sends == PendingSends(stack, eip, memory, fs)
           nextSends == PendingSends(stack', eip', memory', fs)
<1>4. PICK n \in Nat : Agree(stack, stack', n) /\ ebp <= n
  <2>1. ebp <= Len(stack) /\ ebp' <= Len(stack') /\ Len(stack) \in Nat /\ Len(stack') \in Nat
    BY WithTypes DEF Leads, TypeOK
  <2> QED
    BY <2>1 DEF OneWord
<1>5. Shares(fs, fs, h) /\ (h # 0 => fs[2 * h] - 7 <= n /\ fs[2 * h] - 1 <= n)
  <2>1. Shares(fs, fs, h)
    BY <1>1, <1>3 DEF Shares, Spaced
  <2>2. ASSUME h # 0 PROVE fs[2 * h] - 7 <= n /\ fs[2 * h] - 1 <= n
    <3>1. 2 * h \in 1..Len(fs) /\ 2 * h + 1 \in 1..Len(fs)
      BY <1>1, <2>2
    <3>2. fs[2 * h] \in Nat /\ fs[2 * h] <= ebp
      BY <1>3, <3>1 DEF Spaced
    <3> DEFINE x == fs[2 * h]
    <3>3. x \in Nat /\ x <= ebp /\ ebp \in Nat
      BY <3>2, WithTypes
    <3> HIDE DEF x
    <3>4. x - 7 <= n /\ x - 1 <= n
      BY <1>4, <3>3
    <3> QED
      BY <3>4 DEF x
  <2> QED
    BY <2>1, <2>2
<1>6. \A k \in 1..h : nextActs[k] = acts[k]
  <2>1. \A k \in 1..h : Activation(stack', fs, k) = Activation(stack, fs, k)
    BY <1>3, <1>4, <1>5, LowActivations
  <2> QED
    BY <1>2, <2>1 DEF Sees
<1>7. nextSends = sends
  <2>1. MemoryGrows
    BY DEF MemoryGrows, With, TypeOK
  <2>2. eip # AfterCall /\ eip' # AfterCall
    BY PlacesDiffer
  <2>3. \A k \in 1..h : Pending(stack', eip', memory', fs, k) = Pending(stack, eip, memory, fs, k)
    BY <1>4, <1>5, <2>1, <2>2, LowSends
  <2>4. \A k \in 1..h : nextSends[k] = sends[k]
    BY <1>2, <2>3 DEF Sees
  <2> QED
    BY <1>2, <2>4, ListsSame, Zenon DEF Sees
<1> HIDE DEF sends, nextSends
<1>8. /\ acts # <<>> /\ nextActs # <<>> /\ Calls!Front(nextActs) = Calls!Front(acts)
      /\ Calls!Last(acts) = acts[h + 1] /\ Calls!Last(nextActs) = nextActs[h + 1]
  <2>1. Lists(acts, h + 1) /\ Lists(nextActs, h + 1) /\ h + 1 > 0 /\ (h + 1) - 1 = h
    BY <1>2 DEF Sees
  <2> HIDE DEF acts, nextActs
  <2>2. \A k \in 1..((h + 1) - 1) : acts[k] = nextActs[k]
    BY <1>6, <2>1
  <2> QED
    BY <2>1, <2>2, ListsChange
<1> DEFINE asked == IF ebp = 0 THEN <<>> ELSE Asked(stack, ebp)
           words == SubSeq(stack, ebp + 1, Len(stack))
           nextWords == SubSeq(stack', ebp + 1, Len(stack'))
<1>9. acts[h + 1] = [asked |-> asked, locals |-> words]
  <2>1. h + 1 \in 1..(h + 1)
    OBVIOUS
  <2>2. acts[h + 1] = Activation(stack, fs, h + 1)
    BY <1>2, <2>1, Zenon DEF Sees
  <2>3. Activation(stack, fs, h + 1) = GuestAt(stack, fs[2 * h + 1], Len(stack))
    BY <1>1, RunningIs, Zenon
  <2> HIDE DEF acts
  <2> QED
    BY <1>3, <2>2, <2>3 DEF GuestAt
<1>10. nextActs[h + 1] = [asked |-> asked, locals |-> nextWords]
  <2>1. h + 1 \in 1..(h + 1)
    OBVIOUS
  <2>2. nextActs[h + 1] = Activation(stack', fs, h + 1)
    BY <1>2, <2>1, Zenon DEF Sees
  <2>3. ebp # 0 => Asked(stack', ebp) = Asked(stack, ebp)
    <3>1. ebp \in Nat /\ (ebp # 0 => ebp >= 7)
      <4>1. h = 0 => ebp = 0
        BY <1>3 DEF Spaced
      <4>2. h # 0 => 2 * h + 1 \in 2..Len(fs)
        BY <1>1
      <4> QED
        BY <1>3, <4>1, <4>2, WithTypes DEF Spaced
    <3>2. ebp - 2 <= n
      BY <1>4, <3>1
    <3> QED
      BY <1>4, <3>1, <3>2, SameAsked
  <2>4. Activation(stack', fs, h + 1) = GuestAt(stack', fs[2 * h + 1], Len(stack'))
    BY <1>1, RunningIs, Zenon
  <2> HIDE DEF nextActs
  <2> QED
    BY <1>3, <2>2, <2>3, <2>4 DEF GuestAt
<1>11. ByOneWord(words, nextWords)
  <2>1. stack \in Seq(Word) /\ stack' \in Seq(Word) /\ ebp \in Nat /\ ebp <= Len(stack) /\ ebp <= Len(stack')
    BY WithTypes DEF Leads, TypeOK
  <2> QED
    BY <2>1, OneWordOfLocals
<1>12. Frames = fs /\ Frames' = fs
  BY FramesKnown
<1> HIDE DEF acts, nextActs, words, nextWords, asked
<1>13. /\ Calls!Last(nextActs).asked = Calls!Last(acts).asked
       /\ Calls!Last(acts).locals = words /\ Calls!Last(nextActs).locals = nextWords
  BY <1>8, <1>9, <1>10
<1>14. Calls!Runs /\ (IF eip' \in {Loop, AfterCall} THEN Handler ELSE eip') \in Sites
  BY PlacesDiffer DEF Calls!Runs
<1>15. Activations(stack, Frames) = acts /\ Activations(stack', Frames') = nextActs
  BY <1>12, Zenon DEF acts, nextActs
<1>16. PendingSends(stack, eip, memory, Frames) = sends
       /\ PendingSends(stack', eip', memory', Frames') = sends
  BY <1>7, <1>12, Zenon DEF sends, nextSends
<1> QED
  BY <1>7, <1>8, <1>11, <1>13, <1>14, <1>15, <1>16, Zenon DEF Calls!Work, Calls!Top, ByOneWord

--------------------------------------------------------------------------------
(* Steps that add or take a frame *)

LEMMA FrameBelow ==
  ASSUME NEW fs, Spaced(fs), NEW h \in Nat, h # 0, NEW j \in 1..Len(fs), 2 * h <= j,
         NEW n \in Nat, fs[j] <= n + 1
  PROVE  fs[2 * h] \in Nat /\ fs[2 * h] - 1 <= n /\ fs[2 * h] - 7 <= n
<1> DEFINE e == 2 * h
<1>1. Len(fs) \in Nat /\ e \in 1..Len(fs) /\ e <= j
  <2>1. Len(fs) \in Nat /\ e \in Nat /\ e >= 1
    BY DEF Spaced
  <2> HIDE DEF e
  <2> QED
    BY <2>1 DEF e
<1> HIDE DEF e
<1>2. fs[e] \in Nat /\ fs[j] \in Nat /\ fs[e] <= fs[j]
  BY <1>1 DEF Spaced
<1> DEFINE x == fs[e]  y == fs[j]
<1>3. x \in Nat /\ y \in Nat /\ x <= y /\ y <= n + 1
  BY <1>2
<1> HIDE DEF x, y
<1>4. x - 1 <= n /\ x - 7 <= n
  BY <1>3
<1> QED
  BY <1>3, <1>4 DEF x, e

LEMMA SharesSame ==
  ASSUME NEW fs, NEW h \in Nat, 2 * h <= Len(fs)
  PROVE  Shares(fs, fs, h)
  BY DEF Shares

LEMMA SharesPush ==
  ASSUME NEW fs \in Seq(Nat), NEW x \in Nat, NEW h \in Nat, 2 * h <= Len(fs)
  PROVE  /\ Shares(fs, Append(fs, x), h) /\ Len(Append(fs, x)) = Len(fs) + 1
         /\ Append(fs, x)[Len(fs) + 1] = x /\ \A k \in 1..Len(fs) : Append(fs, x)[k] = fs[k]
<1> DEFINE gs == Append(fs, x)
<1>1. AppendOf(Nat, gs, fs, x)
  BY Appended, Zenon
<1> HIDE DEF gs
<1>2. Len(fs) \in Nat /\ Len(gs) = Len(fs) + 1 /\ \A k \in 1..Len(fs) : gs[k] = fs[k]
  BY <1>1 DEF AppendOf
<1>3. Shares(fs, gs, h)
  BY <1>2 DEF Shares
<1> QED
  BY <1>1, <1>2, <1>3 DEF AppendOf, gs

LEMMA SharesPop ==
  ASSUME NEW fs \in Seq(Nat), NEW h \in Nat, 2 * h <= Len(fs) - 1
  PROVE  /\ Shares(fs, SubSeq(fs, 1, Len(fs) - 1), h)
         /\ Len(SubSeq(fs, 1, Len(fs) - 1)) = Len(fs) - 1
         /\ \A k \in 1..(Len(fs) - 1) : SubSeq(fs, 1, Len(fs) - 1)[k] = fs[k]
<1> DEFINE gs == SubSeq(fs, 1, Len(fs) - 1)
<1>1. Len(fs) \in Nat /\ Len(fs) - 1 \in Nat /\ Len(fs) - 1 <= Len(fs)
  <2>1. Len(fs) \in Nat /\ 2 * h \in Nat
    OBVIOUS
  <2> QED
    BY <2>1
<1>2. Len(gs) = Len(fs) - 1 /\ \A k \in 1..(Len(fs) - 1) : gs[k] = fs[k]
  BY <1>1, ShorterStack
<1> HIDE DEF gs
<1>3. Shares(fs, gs, h)
  BY <1>1, <1>2 DEF Shares
<1> QED
  BY <1>2, <1>3 DEF gs

\* The first h activations and calls in progress are as they were.
SameBelow(fs, gs, h) ==
  \A k \in 1..h :
    /\ Activation(stack', gs, k) = Activation(stack, fs, k)
    /\ Pending(stack', eip', memory', gs, k) = Pending(stack, eip, memory, fs, k)

LEMMA Below ==
  ASSUME NEW fs, With(fs), NEW gs, NEW h \in Nat, NEW n \in Nat, Shares(fs, gs, h),
         Agree(stack, stack', n), MemoryGrows,
         NEW j \in 1..Len(fs), 2 * h <= j, fs[j] <= n + 1,
         (2 * h < Len(fs) \/ eip = AfterCall) <=> (2 * h < Len(gs) \/ eip' = AfterCall)
  PROVE  SameBelow(fs, gs, h)
<1>1. Spaced(fs)
  BY Placed
<1>2. h # 0 => fs[2 * h] - 1 <= n /\ fs[2 * h] - 7 <= n
  BY <1>1, FrameBelow
<1>3. \A k \in 1..h : Activation(stack', gs, k) = Activation(stack, fs, k)
  BY <1>1, <1>2, LowActivations
<1>4. \A k \in 1..h : Pending(stack', eip', memory', gs, k) = Pending(stack, eip, memory, fs, k)
  BY <1>2, LowSends
<1> QED
  BY <1>3, <1>4, Zenon DEF SameBelow

LEMMA TailIs ==
  ASSUME NEW S, NEW s \in Seq(S), s # <<>>
  PROVE  /\ Tail(s) \in Seq(S) /\ Len(Tail(s)) = Len(s) - 1
         /\ \A j \in 1..(Len(s) - 1) : Tail(s)[j] = s[j + 1]
  OBVIOUS

\* What a handler has left to deliver: c messages from the p-th on.
Left(m, p, c) == [j \in 1..c |-> Load(m, p + j - 1)]

LeftIs(a, first, rest) == a # <<>> /\ Head(a) = first /\ Tail(a) = rest

LEMMA LeftTail ==
  ASSUME NEW m, NEW p \in Nat, NEW c \in Nat, c # 0
  PROVE  LeftIs(Left(m, p, c), Load(m, p), Left(m, p + 1, c - 1))
<1> DEFINE a == Left(m, p, c)
           b == Left(m, p + 1, c - 1)
           S == {Load(m, p + j - 1) : j \in 1..c}
<1>1. /\ a \in [1..c -> S] /\ \A j \in 1..c : a[j] = Load(m, p + j - 1)
  BY DEF Left
<1>2. /\ b = [j \in 1..(c - 1) |-> b[j]]
      /\ \A j \in 1..(c - 1) : b[j] = Load(m, (p + 1) + j - 1)
  BY DEF Left
<1> HIDE DEF a, b, S
<1>3. a \in Seq(S) /\ Len(a) = c /\ a # <<>> /\ 1 \in 1..c
  BY <1>1
<1>4. Head(a) = Load(m, p)
  <2>1. Head(a) = a[1] /\ p + 1 - 1 = p
    BY <1>3
  <2> QED
    BY <1>1, <1>3, <2>1
<1>5. Tail(a) = b
  <2> DEFINE t == Tail(a)
  <2>1. t \in [1..(c - 1) -> S] /\ \A j \in 1..(c - 1) : t[j] = a[j + 1]
    <3>1. /\ t \in Seq(S) /\ Len(t) = Len(a) - 1
          /\ \A j \in 1..(Len(a) - 1) : t[j] = a[j + 1]
      BY <1>3, TailIs
    <3> HIDE DEF t
    <3> QED
      BY <1>3, <3>1
  <2> HIDE DEF t
  <2>2. t = [j \in 1..(c - 1) |-> t[j]]
    BY <2>1, Zenon
  <2>3. ASSUME NEW j \in 1..(c - 1) PROVE t[j] = b[j]
    <3>1. j + 1 \in 1..c /\ p + (j + 1) - 1 = (p + 1) + j - 1
      OBVIOUS
    <3> QED
      BY <1>1, <1>2, <2>1, <3>1
  <2> QED
    BY <1>2, <2>2, <2>3, Zenon DEF t
<1> QED
  BY <1>3, <1>4, <1>5, Zenon DEF a, b, LeftIs

\* The call whose handler is at f, with c messages left, from the p-th on.
CallAt(s, m, f, p, c) ==
  [window |-> s[f - 2], left |-> Left(m, p, c), answer |-> s[f - 6], place |-> s[f - 1]]

\* The handler of the h-th call is between two messages.
Idle(s, i, fs, h) ==
  /\ h \in Nat /\ s[fs[2 * h] - 4] \in Nat /\ s[fs[2 * h] - 3] \in Nat
  /\ ~ (2 * h < Len(fs) \/ i = AfterCall)

IsCall(s, i, m, fs, h, f) ==
  Pending(s, i, m, fs, h) = CallAt(s, m, f, s[f - 3], s[f - 4])

LEMMA CallIs ==
  ASSUME NEW s, NEW i, NEW m, NEW fs, NEW h, Idle(s, i, fs, h)
  PROVE  IsCall(s, i, m, fs, h, fs[2 * h])
<1> DEFINE f == fs[2 * h]  p == s[f - 3]  c == s[f - 4]
<1>1. Pending(s, i, m, fs, h) =
        [window |-> s[f - 2], left |-> [j \in 1..(c - 0) |-> Load(m, p + 0 + j - 1)],
         answer |-> s[f - 6], place |-> s[f - 1]]
  BY Zenon DEF Pending, Idle
<1>2. c - 0 = c /\ p + 0 = p
  <2>1. c \in Nat /\ p \in Nat
    BY Zenon DEF Idle
  <2> HIDE DEF c, p
  <2> QED
    BY <2>1
<1> QED
  BY <1>1, <1>2, Zenon DEF CallAt, Left, IsCall

\* The call whose handler is waiting for the procedure.
Begun(i, fs, h) == 2 * h < Len(fs) \/ i = AfterCall
IsBegun(s, i, m, fs, h, f) ==
  Pending(s, i, m, fs, h) = CallAt(s, m, f, s[f - 3] + 1, s[f - 4] - 1)

LEMMA BegunIs ==
  ASSUME NEW s, NEW i, NEW m, NEW fs, NEW h, Begun(i, fs, h)
  PROVE  IsBegun(s, i, m, fs, h, fs[2 * h])
<1> QED
  BY Zenon DEF Pending, CallAt, Left, Begun, IsBegun

\* ebp of guest code is 0 or has room for a message below it.
LEMMA GuestFrame ==
  ASSUME NEW fs, With(fs), NEW h \in Nat, Len(fs) = 2 * h + 1
  PROVE  fs[2 * h + 1] \in Nat /\ (fs[2 * h + 1] = 0 \/ fs[2 * h + 1] >= 7)
<1>1. Spaced(fs)
  BY Placed
<1>2. CASE h = 0
  BY <1>1, <1>2 DEF Spaced
<1>3. CASE h # 0
  <2>1. 2 * h + 1 \in 2..Len(fs) /\ 2 * h + 1 \in 1..Len(fs)
    BY <1>3
  <2> QED
    BY <1>1, <2>1 DEF Spaced
<1> QED
  BY <1>2, <1>3

LEMMA SendsGrow ==
  ASSUME NEW fs, With(fs), NEW n, NEW result, NEW count, NEW wnd, NEW site \in Sites,
         Sends(n, result, count, wnd, site)
  PROVE  MemoryGrows
<1>1. PICK list \in Seq(MessageRecord) : memory' = memory \o list
  BY Zenon DEF Sends, Send
<1>2. memory \in Seq(MessageRecord)
  BY DEF With, TypeOK
<1>3. JoinOf(MessageRecord, memory', memory, list)
  BY <1>1, <1>2, Joined, Zenon
<1>4. Len(memory) \in Nat /\ Len(list) \in Nat
  BY <1>2
<1> QED
  BY <1>2, <1>3, <1>4 DEF JoinOf, MemoryGrows

LEMMA SendIsSend ==
  ASSUME NEW fs, With(fs), NEW gs, Leads(gs), gs = Append(fs, Len(stack) + 7),
         eip \in Sites, eip' = Handler, status = "running", status' = status, MemoryGrows,
         NEW result, NEW count \in Nat \ {0}, NEW wnd, NEW site \in Sites,
         SentOn(Len(stack), result, count, Len(memory) + 1, wnd, site)
  PROVE  Calls!Send
<1> DEFINE n == Len(stack)
           acts == Activations(stack, fs)   nextActs == Activations(stack', gs)
           sends == PendingSends(stack, eip, memory, fs)
           nextSends == PendingSends(stack', eip', memory', gs)
<1>1. PICK h \in Nat : Len(fs) = 2 * h + 1
  BY OddLength
<1>2. /\ n \in Nat /\ ebp <= n /\ ebp \in Nat /\ fs \in Seq(Nat) /\ stack \in Seq(Word)
      /\ Spaced(fs) /\ fs[2 * h + 1] = ebp
  BY <1>1, WithTypes, Placed, PlacesDiffer DEF AtEntry
<1>3. /\ Shares(fs, gs, h) /\ Len(gs) = 2 * h + 2 /\ gs[2 * h + 2] = n + 7 /\ gs[2 * h + 1] = ebp
  <2>1. 2 * h <= Len(fs) /\ n + 7 \in Nat /\ Len(fs) + 1 = 2 * h + 2 /\ 2 * h + 1 \in 1..Len(fs)
    BY <1>1, <1>2
  <2>2. /\ Shares(fs, gs, h) /\ Len(gs) = Len(fs) + 1
        /\ gs[Len(fs) + 1] = n + 7 /\ \A k \in 1..Len(fs) : gs[k] = fs[k]
    BY <1>2, <2>1, SharesPush
  <2> QED
    BY <1>2, <2>1, <2>2
<1>4. Agree(stack, stack', n)
  BY <1>2, Zenon DEF SentOn, Kept, Agree
<1>5. Sees(stack, eip, memory, fs, h + 1, h) /\ Sees(stack', eip', memory', gs, h + 1, h + 1)
  <2>1. Len(gs) = 2 * (h + 1) /\ h + 1 \in Nat
    BY <1>3
  <2> QED
    BY <1>1, <2>1, GuestSees, HandlerSees, Zenon
<1>6. SameBelow(fs, gs, h)
  <2>1. 2 * h + 1 \in 1..Len(fs) /\ 2 * h <= 2 * h + 1 /\ fs[2 * h + 1] <= n + 1
    BY <1>1, <1>2
  <2>2. 2 * h < Len(fs) /\ 2 * h < Len(gs)
    BY <1>1, <1>3
  <2> HIDE DEF n
  <2> QED
    BY <1>2, <1>3, <1>4, <2>1, <2>2, Below
<1>7. nextActs = acts
  <2>1. Activation(stack, fs, h + 1) = GuestAt(stack, fs[2 * h + 1], n)
    BY <1>1, RunningIs, Zenon
  <2>2. Activation(stack', gs, h + 1) = GuestAt(stack', gs[2 * h + 1], gs[2 * h + 2] - 7)
    <3>1. 2 * h + 2 <= Len(gs)
      BY <1>3
    <3> QED
      BY <3>1, ClosedIs, Zenon
  <2>3. n <= n /\ n \in Int /\ gs[2 * h + 2] - 7 = n
    BY <1>2, <1>3
  <2>4. ebp = 0 \/ ebp >= 7
    BY <1>1, <1>2, GuestFrame
  <2> HIDE DEF n
  <2>5. GuestAt(stack', ebp, n) = GuestAt(stack, ebp, n)
    <3>1. ebp \in Nat /\ ebp <= n /\ n \in Int /\ n <= n /\ Agree(stack, stack', n)
      BY <1>2, <1>4, <2>3, Zenon
    <3> QED
      BY <2>4, <3>1, SameGuest
  <2>6. Activation(stack', gs, h + 1) = Activation(stack, fs, h + 1)
    BY <1>2, <1>3, <2>1, <2>2, <2>3, <2>5, Zenon
  <2>7. \A k \in 1..(h + 1) : nextActs[k] = acts[k]
    <3> SUFFICES ASSUME NEW k \in 1..(h + 1) PROVE Activation(stack', gs, k) = Activation(stack, fs, k)
      BY <1>5, Zenon DEF Sees
    <3>1. k \in 1..h \/ k = h + 1
      OBVIOUS
    <3> QED
      BY <1>6, <2>6, <3>1, Zenon DEF SameBelow
  <2> QED
    BY <1>5, <2>7, ListsSame, Zenon DEF Sees
<1>8. /\ nextSends # <<>> /\ Calls!Front(nextSends) = sends
      /\ Calls!Last(nextSends) = Pending(stack', eip', memory', gs, h + 1)
  <2>1. \A k \in 1..h : nextSends[k] = sends[k]
    <3> SUFFICES ASSUME NEW k \in 1..h PROVE nextSends[k] = sends[k]
      OBVIOUS
    <3>1. k \in 1..(h + 1)
      OBVIOUS
    <3> QED
      BY <1>5, <1>6, <3>1, Zenon DEF Sees, SameBelow
  <2>2. h + 1 \in 1..(h + 1)
    OBVIOUS
  <2>3. nextSends # <<>> /\ Calls!Last(nextSends) = nextSends[h + 1] /\ Calls!Front(nextSends) = sends
    <3>1. Lists(sends, h) /\ Lists(nextSends, h + 1)
      BY <1>5, Zenon DEF Sees
    <3> HIDE DEF sends, nextSends
    <3>2. \A k \in 1..h : sends[k] = nextSends[k]
      BY <2>1, Zenon
    <3> QED
      BY <3>1, <3>2, ListsGrow
  <2> QED
    BY <1>5, <2>2, <2>3, Zenon DEF Sees
<1>9. Pending(stack', eip', memory', gs, h + 1) = CallAt(stack', memory', n + 7, Len(memory) + 1, count)
  <2> DEFINE g == h + 1  e == gs[2 * g]
  <2>1. /\ g \in Nat /\ e = n + 7 /\ ~ (2 * g < Len(gs))
        /\ e - 3 = n + 4 /\ e - 4 = n + 3
    BY <1>2, <1>3
  <2>2. eip' # AfterCall
    BY PlacesDiffer
  <2> HIDE DEF n
  <2>3. Len(memory) + 1 \in Nat
    BY DEF MemoryGrows
  <2>4. stack'[n + 4] = Len(memory) + 1 /\ stack'[n + 3] = count
    BY Zenon DEF SentOn, n
  <2>5. stack'[e - 3] = Len(memory) + 1 /\ stack'[e - 4] = count
    BY <2>1, <2>4, Zenon
  <2>6. Pending(stack', eip', memory', gs, g) = CallAt(stack', memory', e, stack'[e - 3], stack'[e - 4])
    <3> HIDE DEF g
    <3>1. Idle(stack', eip', gs, g)
      BY <2>1, <2>2, <2>3, <2>5, Zenon DEF Idle
    <3>2. IsCall(stack', eip', memory', gs, g, gs[2 * g])
      BY <3>1, CallIs, Zenon
    <3> QED
      BY <3>2, Zenon DEF IsCall
  <2> QED
    BY <2>1, <2>5, <2>6, Zenon
<1>10. /\ Calls!Last(nextSends).left # <<>> /\ Calls!Last(nextSends).place \in Sites
  <2>1. Left(memory', Len(memory) + 1, count) # <<>>
    <3>1. Len(memory) + 1 \in Nat /\ count # 0
      BY DEF MemoryGrows
    <3> QED
      BY <3>1, LeftTail, Zenon DEF LeftIs
  <2>2. (n + 7) - 1 = n + 6
    BY <1>2
  <2>3. stack'[(n + 7) - 1] = site
    BY <2>2, Zenon DEF SentOn
  <2> QED
    BY <1>8, <1>9, <2>1, <2>3 DEF CallAt
<1>11. Frames = fs /\ Frames' = gs
  BY FramesKnown
<1>12. Activations(stack, Frames) = acts /\ Activations(stack', Frames') = acts
  BY <1>7, <1>11, Zenon
<1>13. PendingSends(stack, eip, memory, Frames) = sends
       /\ PendingSends(stack', eip', memory', Frames') = nextSends
  BY <1>11, Zenon
<1> HIDE DEF acts, nextActs, sends, nextSends, n
<1>14. Calls!Runs /\ (IF eip' \in {Loop, AfterCall} THEN Handler ELSE eip') = Handler
  BY PlacesDiffer DEF Calls!Runs
<1> QED
  BY <1>8, <1>10, <1>12, <1>13, <1>14, Zenon DEF Calls!Send
--------------------------------------------------------------------------------
(* Handlers begin, count and return; procedures begin and return *)

SameActs(fs, gs, n) == \A k \in 1..n : Activation(stack', gs, k) = Activation(stack, fs, k)
SameSends(fs, gs, n) ==
  \A k \in 1..n : Pending(stack', eip', memory', gs, k) = Pending(stack, eip, memory, fs, k)

LEMMA OneMoreAct ==
  ASSUME NEW fs, NEW gs, NEW h \in Nat, SameActs(fs, gs, h),
         Activation(stack', gs, h + 1) = Activation(stack, fs, h + 1)
  PROVE  SameActs(fs, gs, h + 1)
<1>1. \A k \in 1..(h + 1) : k \in 1..h \/ k = h + 1
  OBVIOUS
<1> QED
  BY <1>1, Zenon DEF SameActs

LEMMA OneMoreSend ==
  ASSUME NEW fs, NEW gs, NEW h \in Nat, SameSends(fs, gs, h),
         Pending(stack', eip', memory', gs, h + 1) = Pending(stack, eip, memory, fs, h + 1)
  PROVE  SameSends(fs, gs, h + 1)
<1>1. \A k \in 1..(h + 1) : k \in 1..h \/ k = h + 1
  OBVIOUS
<1> QED
  BY <1>1, Zenon DEF SameSends

\* n activations, or calls in progress, are seen before and after, and are the same.
LEMMA ActsSame ==
  ASSUME NEW fs, NEW gs, NEW n, NEW a, NEW b, Sees(stack, eip, memory, fs, n, a),
         Sees(stack', eip', memory', gs, n, b), SameActs(fs, gs, n)
  PROVE  Activations(stack', gs) = Activations(stack, fs)
<1> DEFINE acts == Activations(stack, fs)  nextActs == Activations(stack', gs)
<1>1. \A k \in 1..n : acts[k] = nextActs[k]
  BY Zenon DEF Sees, SameActs
<1>2. Lists(acts, n) /\ Lists(nextActs, n)
  BY Zenon DEF Sees
<1> HIDE DEF acts, nextActs
<1>3. acts = nextActs
  BY <1>1, <1>2, ListsSame, Zenon
<1> QED
  BY <1>3, Zenon DEF acts, nextActs

LEMMA SendsSame ==
  ASSUME NEW fs, NEW gs, NEW n, NEW a, NEW b, Sees(stack, eip, memory, fs, a, n),
         Sees(stack', eip', memory', gs, b, n), SameSends(fs, gs, n)
  PROVE  PendingSends(stack', eip', memory', gs) = PendingSends(stack, eip, memory, fs)
<1> DEFINE sends == PendingSends(stack, eip, memory, fs)
           nextSends == PendingSends(stack', eip', memory', gs)
<1>1. \A k \in 1..n : sends[k] = nextSends[k]
  BY Zenon DEF Sees, SameSends
<1>2. Lists(sends, n) /\ Lists(nextSends, n)
  BY Zenon DEF Sees
<1> HIDE DEF sends, nextSends
<1>3. sends = nextSends
  BY <1>1, <1>2, ListsSame, Zenon
<1> QED
  BY <1>3, Zenon DEF sends, nextSends

\* Nothing that WindowCalls sees happens inside handle_messages.
LEMMA Unseen ==
  ASSUME NEW fs, With(fs), NEW gs, Leads(gs), NEW n, Sees(stack, eip, memory, fs, n, n),
         Sees(stack', eip', memory', gs, n, n), SameActs(fs, gs, n), SameSends(fs, gs, n),
         eip \in {Handler, Loop, AfterCall}, eip' \in {Handler, Loop, AfterCall}, status' = status
  PROVE  UNCHANGED Calls!callVars
<1>1. Frames = fs /\ Frames' = gs
  BY FramesKnown
<1>2. Activations(stack', Frames') = Activations(stack, Frames)
  BY <1>1, ActsSame, Zenon
<1>3. PendingSends(stack', eip', memory', Frames') = PendingSends(stack, eip, memory, Frames)
  BY <1>1, SendsSame, Zenon
<1>4. /\ (IF eip' \in {Loop, AfterCall} THEN Handler ELSE eip')
           = IF eip \in {Loop, AfterCall} THEN Handler ELSE eip
      /\ eip \notin Sites /\ eip' \notin Sites
  BY PlacesDiffer
<1> QED
  BY <1>2, <1>3, <1>4, Zenon DEF Calls!callVars

LEMMA HandlerEnterIs ==
  ASSUME NEW fs, With(fs), HandlerEnter
  PROVE  UNCHANGED Calls!callVars
<1> DEFINE n == Len(stack)
<1>1. /\ eip = Handler /\ eip' = Loop /\ status' = status /\ UNCHANGED memory
      /\ Leads(fs) /\ Kept(n)
  BY HandlerEnterStep DEF HandlerEnter, Frozen
<1>2. PICK h \in Nat \ {0} : Len(fs) = 2 * h
  BY <1>1, EvenLength
<1>3. n \in Nat /\ stack \in Seq(Word) /\ fs[Len(fs)] <= n + 1
  BY WithTypes, Placed
<1>4. SameBelow(fs, fs, h)
  <2>1. Shares(fs, fs, h)
    BY <1>2, SharesSame
  <2>2. Agree(stack, stack', n)
    BY <1>1, <1>3 DEF Kept, Agree
  <2>3. MemoryGrows
    BY <1>1, RecordTypes DEF MemoryGrows
  <2>4. Len(fs) \in 1..Len(fs) /\ 2 * h <= Len(fs) /\ h \in Nat
    BY <1>2
  <2>5. eip # AfterCall /\ eip' # AfterCall
    BY <1>1, PlacesDiffer
  <2> HIDE DEF n
  <2> QED
    BY <1>3, <2>1, <2>2, <2>3, <2>4, <2>5, Below
<1>5. Sees(stack, eip, memory, fs, h, h) /\ Sees(stack', eip', memory', fs, h, h)
  BY <1>2, HandlerSees
<1>6. SameActs(fs, fs, h) /\ SameSends(fs, fs, h)
  BY <1>4, Zenon DEF SameBelow, SameActs, SameSends
<1>7. eip \in {Handler, Loop, AfterCall} /\ eip' \in {Handler, Loop, AfterCall}
  BY <1>1
<1> QED
  BY <1>1, <1>5, <1>6, <1>7, Unseen, Zenon
LEMMA NoWords ==
  ASSUME NEW s \in Seq(Word), NEW n \in Nat
  PROVE  SubSeq(s, n + 2, n + 1) = <<>> /\ SubSeq(s, n + 2, n) = <<>>
  OBVIOUS

LEMMA BeginIs ==
  ASSUME NEW fs, With(fs), ProcedureEnter
  PROVE  Calls!Begin
<1> DEFINE n == Len(stack)
<1>1. /\ eip = Procedure /\ eip' \in Sites /\ status = "running" /\ status' = status
      /\ UNCHANGED memory /\ Leads(fs) /\ Kept(n) /\ Len(stack') = n + 1
  BY ProcedureEnterStep DEF ProcedureEnter, Frozen
<1>2. PICK h \in Nat : Len(fs) = 2 * h + 1
  BY <1>1, OddLength
<1>3. n \in Nat /\ stack \in Seq(Word) /\ stack' \in Seq(Word) /\ fs[Len(fs)] = n + 1
  BY <1>1, WithTypes, Placed DEF AtEntry, Kept
<1>4. Agree(stack, stack', n)
  BY <1>1, <1>3 DEF Kept, Agree
<1>5. fs[2 * h + 1] = n + 1 /\ n + 1 >= 7
  <2>1. fs[2 * h + 1] = n + 1 /\ n + 1 # 0
    BY <1>2, <1>3
  <2>2. fs[2 * h + 1] = 0 \/ fs[2 * h + 1] >= 7
    BY <1>2, GuestFrame
  <2> QED
    BY <2>1, <2>2
<1>6. SameBelow(fs, fs, h)
  <2>1. Shares(fs, fs, h)
    BY <1>2, SharesSame
  <2>2. MemoryGrows
    BY <1>1, RecordTypes DEF MemoryGrows
  <2>3. Len(fs) \in 1..Len(fs) /\ 2 * h <= Len(fs) /\ 2 * h < Len(fs) /\ fs[Len(fs)] <= n + 1
    BY <1>2, <1>3
  <2> HIDE DEF n
  <2> QED
    BY <1>3, <1>4, <2>1, <2>2, <2>3, Below
<1>7. Activation(stack', fs, h + 1) = Activation(stack, fs, h + 1)
  <2>1. /\ Activation(stack, fs, h + 1) = GuestAt(stack, fs[2 * h + 1], n)
        /\ Activation(stack', fs, h + 1) = GuestAt(stack', fs[2 * h + 1], Len(stack'))
    BY <1>2, RunningIs, Zenon
  <2>2. Asked(stack', n + 1) = Asked(stack, n + 1)
    <3>1. n + 1 \in Nat /\ (n + 1) - 2 <= n
      BY <1>3
    <3> HIDE DEF n
    <3> QED
      BY <1>4, <1>5, <3>1, SameAsked
  <2>3. SubSeq(stack', n + 2, n + 1) = <<>> /\ SubSeq(stack, n + 2, n) = <<>> /\ (n + 1) + 1 = n + 2
    BY <1>3, NoWords
  <2>4. n + 1 # 0
    BY <1>3
  <2> HIDE DEF n
  <2>5. GuestAt(stack, n + 1, n) = [asked |-> Asked(stack, n + 1), locals |-> <<>>]
    BY <2>3, <2>4, Zenon DEF GuestAt
  <2>6. GuestAt(stack', n + 1, n + 1) = [asked |-> Asked(stack', n + 1), locals |-> <<>>]
    BY <2>3, <2>4, Zenon DEF GuestAt
  <2> QED
    BY <1>1, <1>5, <2>1, <2>2, <2>5, <2>6, Zenon
<1>8. SameActs(fs, fs, h + 1) /\ SameSends(fs, fs, h)
  <2>1. SameActs(fs, fs, h) /\ SameSends(fs, fs, h)
    BY <1>6, Zenon DEF SameBelow, SameActs, SameSends
  <2> QED
    BY <1>7, <2>1, OneMoreAct
<1>9. Sees(stack, eip, memory, fs, h + 1, h) /\ Sees(stack', eip', memory', fs, h + 1, h)
  BY <1>2, GuestSees
<1>10. Frames = fs /\ Frames' = fs
  BY <1>1, FramesKnown
<1>11. Activations(stack', Frames') = Activations(stack, Frames)
  BY <1>8, <1>9, <1>10, ActsSame, Zenon
<1>12. PendingSends(stack', eip', memory', Frames') = PendingSends(stack, eip, memory, Frames)
  BY <1>8, <1>9, <1>10, SendsSame, Zenon
<1>13. /\ (IF eip' \in {Loop, AfterCall} THEN Handler ELSE eip') \in Sites
       /\ (IF eip \in {Loop, AfterCall} THEN Handler ELSE eip) = Procedure
  BY <1>1, PlacesDiffer
<1> QED
  BY <1>1, <1>11, <1>12, <1>13, Zenon DEF Calls!Begin

\* b is a without its last value.
LEMMA ListsShrink ==
  ASSUME NEW a, NEW b, NEW n, Lists(a, n + 1), Lists(b, n), \A k \in 1..n : b[k] = a[k]
  PROVE  a # <<>> /\ Calls!Last(a) = a[n + 1] /\ Calls!Front(a) = b /\ Len(a) = n + 1
<1>1. \A k \in 1..n : b[k] = a[k]
  OBVIOUS
<1> QED
  BY <1>1, ListsGrow

LEMMA HandledIs ==
  ASSUME NEW fs, With(fs), NEW w \in Scratch, ProcedureReturn(w)
  PROVE  Calls!Handled
<1> DEFINE n == ebp - 6
           gs == SubSeq(fs, 1, Len(fs) - 1)
<1>1. /\ eip \in Sites /\ ebp # 0 /\ status = "running" /\ status' = status
      /\ UNCHANGED memory /\ Leads(gs) /\ Kept(n)
  BY ProcedureReturnStep DEF ProcedureReturn, GuestRuns, Frozen
<1>2. PICK h \in Nat : Len(fs) = 2 * h + 1
  BY <1>1, OddLength
<1>3. /\ fs \in Seq(Nat) /\ Len(fs) > 2 /\ fs[Len(fs) - 1] \in Nat /\ ebp = fs[Len(fs) - 1] + 9
      /\ eip' = AfterCall /\ stack \in Seq(Word)
  <2>1. eip' = stack[ebp - 1]
    BY DEF ProcedureReturn, LeaveAndReturn
  <2> QED
    BY <1>1, <2>1, WithTypes, CalledByHandler
<1>4. h # 0 /\ fs[2 * h] \in Nat /\ fs[2 * h] + 9 = ebp /\ 2 * h <= Len(fs) - 1
  BY <1>2, <1>3
<1>5. Shares(fs, gs, h) /\ Len(gs) = 2 * h
  <2>1. Shares(fs, gs, h) /\ Len(gs) = Len(fs) - 1
    BY <1>3, <1>4, SharesPop
  <2> QED
    BY <1>2, <2>1
<1> HIDE DEF gs
<1>6. n \in Nat /\ fs[2 * h] <= n + 1 /\ Agree(stack, stack', n) /\ MemoryGrows
  <2>1. Agree(stack, stack', n) /\ n \in Nat
    BY <1>1, <1>3 DEF Kept, Agree
  <2>2. fs[2 * h] <= n + 1
    <3> DEFINE x == fs[2 * h]
    <3>1. x \in Nat /\ x + 9 = ebp
      BY <1>4
    <3> HIDE DEF x
    <3>2. x <= n + 1
      BY <3>1
    <3> QED
      BY <3>2 DEF x
  <2>3. MemoryGrows
    BY <1>1, RecordTypes DEF MemoryGrows
  <2> QED
    BY <2>1, <2>2, <2>3
<1>7. SameBelow(fs, gs, h)
  <2>1. 2 * h \in 1..Len(fs) /\ 2 * h <= 2 * h /\ 2 * h < Len(fs)
    BY <1>2, <1>4
  <2> HIDE DEF n
  <2> QED
    BY <1>3, <1>5, <1>6, <2>1, Below
<1>8. Sees(stack, eip, memory, fs, h + 1, h) /\ Sees(stack', eip', memory', gs, h, h)
  BY <1>2, <1>5, GuestSees, HandlerSees
<1>9. Frames = fs /\ Frames' = gs
  BY <1>1, FramesKnown
<1> DEFINE acts == Activations(stack, fs)   nextActs == Activations(stack', gs)
<1>10. Calls!Front(acts) = nextActs /\ Len(acts) > 1
  <2>1. Lists(acts, h + 1) /\ Lists(nextActs, h)
    BY <1>8, Zenon DEF Sees
  <2>2. \A k \in 1..h : nextActs[k] = acts[k]
    <3> SUFFICES ASSUME NEW k \in 1..h PROVE nextActs[k] = acts[k]
      OBVIOUS
    <3>1. k \in 1..(h + 1)
      OBVIOUS
    <3> QED
      BY <1>7, <1>8, <3>1, Zenon DEF Sees, SameBelow
  <2> HIDE DEF acts, nextActs
  <2>3. Calls!Front(acts) = nextActs /\ Len(acts) = h + 1
    BY <2>1, <2>2, ListsShrink
  <2> QED
    BY <1>4, <2>3
<1>11. PendingSends(stack', eip', memory', gs) = PendingSends(stack, eip, memory, fs)
  <2>1. SameSends(fs, gs, h)
    BY <1>7, Zenon DEF SameBelow, SameSends
  <2> QED
    BY <1>8, <2>1, SendsSame, Zenon
<1>12. /\ (IF eip' \in {Loop, AfterCall} THEN Handler ELSE eip') = Handler
       /\ Calls!Runs
  BY <1>1, <1>3, PlacesDiffer DEF Calls!Runs
<1>13. Activations(stack', Frames') = Calls!Front(Activations(stack, Frames))
       /\ Len(Activations(stack, Frames)) > 1
  BY <1>9, <1>10, Zenon
<1>14. PendingSends(stack', eip', memory', Frames') = PendingSends(stack, eip, memory, Frames)
  BY <1>9, <1>11, Zenon
<1> QED
  BY <1>1, <1>12, <1>13, <1>14, Zenon DEF Calls!Handled
\* The frames while a handler runs.
HandlerRuns(fs, g) ==
  /\ Spaced(fs) /\ fs \in Seq(Nat) /\ g \in Nat /\ g + 1 \in Nat /\ Len(fs) = 2 * g + 2
  /\ 2 * (g + 1) = 2 * g + 2
  /\ fs[2 * g + 2] = ebp /\ ebp \in Nat /\ ebp >= 7 /\ Len(stack) = ebp + 3 /\ stack \in Seq(Word)
  /\ fs[2 * g + 1] \in Nat /\ (fs[2 * g + 1] = 0 \/ fs[2 * g + 1] >= 7) /\ fs[2 * g + 1] + 7 <= ebp
  /\ stack[ebp - 1] \in Sites /\ stack[ebp - 3] \in Nat \ {0} /\ stack[ebp - 4] \in Nat

LEMMA HandlerHas ==
  ASSUME NEW fs, With(fs), eip \in {Loop, AfterCall}
  PROVE  \E g : HandlerRuns(fs, g)
<1>1. PICK h \in Nat \ {0} : Len(fs) = 2 * h
  BY EvenLength
<1> DEFINE g == h - 1
<1>2. g \in Nat /\ g + 1 \in Nat /\ Len(fs) = 2 * g + 2 /\ 2 * (g + 1) = 2 * g + 2
  BY <1>1
<1> HIDE DEF g
<1>3. /\ TypeOK /\ Framed(stack, ebp, eip, fs) /\ Spaced(fs) /\ fs \in Seq(Nat) /\ stack \in Seq(Word)
  BY WithTypes, Placed
<1>4. /\ fs[Len(fs)] = ebp /\ Len(stack) = ebp + 3 /\ fs[Len(fs) - 1] \in Nat
      /\ ebp \in Nat /\ fs[Len(fs) - 1] + 7 <= ebp
      /\ stack[ebp - 1] \in Sites /\ stack[ebp - 3] \in Nat \ {0} /\ stack[ebp - 4] \in Nat
  BY <1>3, InHandler DEF Messages, Count
<1>5. Len(fs) - 1 = 2 * g + 1
  BY <1>2
<1>6. fs[2 * g + 1] = 0 \/ fs[2 * g + 1] >= 7
  <2>1. CASE g = 0
    BY <1>3, <2>1 DEF Spaced
  <2>2. CASE g # 0
    <3>1. 2 * g + 1 \in 2..Len(fs)
      BY <1>2, <2>2
    <3> QED
      BY <1>3, <3>1 DEF Spaced
  <2> QED
    BY <2>1, <2>2
<1>7. ebp >= 7
  <2> DEFINE x == fs[2 * g + 1]
  <2>1. x \in Nat /\ x + 7 <= ebp
    BY <1>4, <1>5
  <2> HIDE DEF x
  <2> QED
    BY <1>4, <2>1
<1> QED
  BY <1>2, <1>3, <1>4, <1>5, <1>6, <1>7, Zenon DEF HandlerRuns

\* The activation that waits for the handler.
LEMMA WaitingIs ==
  ASSUME NEW fs, NEW g, HandlerRuns(fs, g)
  PROVE  Activation(stack, fs, g + 1) = GuestAt(stack, fs[2 * g + 1], ebp - 7)
<1>1. g \in Nat /\ 2 * g + 2 <= Len(fs) /\ fs[2 * g + 2] = ebp
  BY DEF HandlerRuns
<1>2. Activation(stack, fs, g + 1) = GuestAt(stack, fs[2 * g + 1], fs[2 * g + 2] - 7)
  BY <1>1, ClosedIs, Zenon
<1> QED
  BY <1>1, <1>2, Zenon

\* It keeps its words while the handler runs, and when it returns.
LEMMA WaitingKept ==
  ASSUME NEW fs, NEW g, HandlerRuns(fs, g), NEW n, Agree(stack, stack', n), ebp - 7 <= n
  PROVE  GuestAt(stack', fs[2 * g + 1], ebp - 7) = GuestAt(stack, fs[2 * g + 1], ebp - 7)
<1> DEFINE f == fs[2 * g + 1]
<1>1. f \in Nat /\ (f = 0 \/ f >= 7) /\ f + 7 <= ebp /\ ebp \in Nat /\ n \in Nat /\ ebp - 7 \in Int
  BY DEF HandlerRuns, Agree
<1> HIDE DEF f
<1>2. f <= n
  BY <1>1
<1>3. GuestAt(stack', f, ebp - 7) = GuestAt(stack, f, ebp - 7)
  BY <1>1, <1>2, SameGuest
<1> QED
  BY <1>3 DEF f

\* Frames, activations and calls below the handler's own.
LEMMA HandlerBelow ==
  ASSUME NEW fs, With(fs), NEW g, HandlerRuns(fs, g), NEW gs, Shares(fs, gs, g),
         2 * g < Len(gs), NEW n, Agree(stack, stack', n), ebp - 7 <= n, MemoryGrows
  PROVE  SameBelow(fs, gs, g)
<1>1. n \in Nat
  BY DEF Agree
<1>2. g \in Nat /\ 2 * g + 1 \in 1..Len(fs) /\ 2 * g <= 2 * g + 1 /\ 2 * g < Len(fs)
  BY DEF HandlerRuns
<1>3. fs[2 * g + 1] <= n + 1
  <2> DEFINE f == fs[2 * g + 1]
  <2>1. f \in Nat /\ f + 7 <= ebp /\ ebp \in Nat
    BY DEF HandlerRuns
  <2> HIDE DEF f
  <2>2. f <= n + 1
    BY <1>1, <2>1
  <2> QED
    BY <2>2 DEF f
<1> QED
  BY <1>1, <1>2, <1>3, Below

\* The handler's own call.
LEMMA IdleIs ==
  ASSUME NEW fs, NEW g, HandlerRuns(fs, g), eip = Loop
  PROVE  Pending(stack, eip, memory, fs, g + 1) = CallAt(stack, memory, ebp, Messages, Count)
<1>1. Idle(stack, eip, fs, g + 1)
  <2>1. ~ (2 * (g + 1) < Len(fs)) /\ eip # AfterCall
    BY PlacesDiffer DEF HandlerRuns
  <2>2. /\ g + 1 \in Nat /\ fs[2 * (g + 1)] = ebp
        /\ stack[ebp - 3] \in Nat /\ stack[ebp - 4] \in Nat
    BY DEF HandlerRuns
  <2> QED
    BY <2>1, <2>2, Zenon DEF Idle
<1>2. IsCall(stack, eip, memory, fs, g + 1, fs[2 * (g + 1)])
  BY <1>1, CallIs, Zenon
<1>3. fs[2 * (g + 1)] = ebp
  BY DEF HandlerRuns
<1> QED
  BY <1>2, <1>3, Zenon DEF IsCall, Messages, Count

LEMMA HandlerNextIs ==
  ASSUME NEW fs, With(fs), HandlerNext
  PROVE  UNCHANGED Calls!callVars
<1> DEFINE n == ebp - 5
<1>1. /\ eip = AfterCall /\ eip' = Loop /\ status' = status /\ UNCHANGED <<memory, ebp>>
      /\ Leads(fs) /\ stack' \in Seq(Word) /\ Len(stack') = Len(stack)
      /\ stack'[ebp - 4] = stack[ebp - 4] - 1 /\ stack'[ebp - 3] = stack[ebp - 3] + 1
      /\ stack[ebp - 4] \in Nat \ {0} /\ stack[ebp - 3] \in Nat
      /\ \A i \in 1..Len(stack) : i # ebp - 4 /\ i # ebp - 3 => stack'[i] = stack[i]
  BY HandlerNextStep DEF HandlerNext, Frozen, Count, Messages
<1>2. PICK g : HandlerRuns(fs, g)
  BY <1>1, HandlerHas
<1>3. ebp \in Nat /\ ebp >= 7 /\ Len(stack) = ebp + 3 /\ stack \in Seq(Word)
  BY <1>2 DEF HandlerRuns
<1>4. Agree(stack, stack', n)
  <2>1. n \in Nat /\ n <= Len(stack) /\ n <= Len(stack')
    BY <1>1, <1>3
  <2>2. \A i \in 1..n : stack'[i] = stack[i]
    <3> SUFFICES ASSUME NEW i \in 1..n PROVE stack'[i] = stack[i]
      OBVIOUS
    <3>1. i \in 1..Len(stack) /\ i # ebp - 4 /\ i # ebp - 3
      BY <1>3
    <3> QED
      BY <1>1, <3>1
  <2> QED
    BY <1>1, <1>3, <2>1, <2>2, Zenon DEF Agree
<1>5. MemoryGrows
  BY <1>1, RecordTypes DEF MemoryGrows
<1>6. ebp - 7 <= n
  BY <1>3
<1>7. SameActs(fs, fs, g) /\ SameSends(fs, fs, g)
  <2>1. Shares(fs, fs, g) /\ 2 * g < Len(fs)
    BY <1>2, SharesSame DEF HandlerRuns
  <2> HIDE DEF n
  <2>2. SameBelow(fs, fs, g)
    BY <1>2, <1>4, <1>5, <1>6, <2>1, HandlerBelow
  <2> QED
    BY <2>2, Zenon DEF SameBelow, SameActs, SameSends
<1>8. Activation(stack', fs, g + 1) = Activation(stack, fs, g + 1)
  <2>1. Activation(stack, fs, g + 1) = GuestAt(stack, fs[2 * g + 1], ebp - 7)
    BY <1>2, WaitingIs
  <2>2. Activation(stack', fs, g + 1) = GuestAt(stack', fs[2 * g + 1], ebp - 7)
    <3>1. g \in Nat /\ 2 * g + 2 <= Len(fs) /\ fs[2 * g + 2] = ebp
      BY <1>2 DEF HandlerRuns
    <3>2. Activation(stack', fs, g + 1) = GuestAt(stack', fs[2 * g + 1], fs[2 * g + 2] - 7)
      BY <3>1, ClosedIs, Zenon
    <3> QED
      BY <3>1, <3>2, Zenon
  <2> HIDE DEF n
  <2> QED
    BY <1>2, <1>4, <1>6, <2>1, <2>2, WaitingKept, Zenon
<1>9. Pending(stack', eip', memory', fs, g + 1) = Pending(stack, eip, memory, fs, g + 1)
  <2>1. g + 1 \in Nat /\ fs[2 * (g + 1)] = ebp /\ ~ (2 * (g + 1) < Len(fs))
    BY <1>2 DEF HandlerRuns
  <2>2. IsBegun(stack, eip, memory, fs, g + 1, ebp)
    <3>1. Begun(eip, fs, g + 1)
      BY <1>1 DEF Begun
    <3>2. IsBegun(stack, eip, memory, fs, g + 1, fs[2 * (g + 1)])
      BY <3>1, BegunIs, Zenon
    <3> QED
      BY <2>1, <3>2, Zenon
  <2>3. IsCall(stack', eip', memory', fs, g + 1, ebp)
    <3>1. stack'[ebp - 4] \in Nat /\ stack'[ebp - 3] \in Nat /\ eip' # AfterCall
      BY <1>1, PlacesDiffer
    <3>2. Idle(stack', eip', fs, g + 1)
      BY <2>1, <3>1, Zenon DEF Idle
    <3>3. IsCall(stack', eip', memory', fs, g + 1, fs[2 * (g + 1)])
      BY <3>2, CallIs, Zenon
    <3> QED
      BY <2>1, <3>3, Zenon
  <2>4. stack'[ebp - 1] = stack[ebp - 1] /\ stack'[ebp - 2] = stack[ebp - 2] /\ stack'[ebp - 6] = stack[ebp - 6]
    <3>1. /\ ebp - 1 \in 1..Len(stack) /\ ebp - 2 \in 1..Len(stack) /\ ebp - 6 \in 1..Len(stack)
          /\ ebp - 1 # ebp - 4 /\ ebp - 1 # ebp - 3 /\ ebp - 2 # ebp - 4 /\ ebp - 2 # ebp - 3
          /\ ebp - 6 # ebp - 4 /\ ebp - 6 # ebp - 3
      BY <1>3
    <3> QED
      BY <1>1, <3>1
  <2> QED
    BY <1>1, <2>2, <2>3, <2>4, Zenon DEF IsBegun, IsCall, CallAt
<1>10. SameActs(fs, fs, g + 1) /\ SameSends(fs, fs, g + 1)
  BY <1>2, <1>7, <1>8, <1>9, OneMoreAct, OneMoreSend DEF HandlerRuns
<1>11. Sees(stack, eip, memory, fs, g + 1, g + 1) /\ Sees(stack', eip', memory', fs, g + 1, g + 1)
  <2>1. g + 1 \in Nat /\ Len(fs) = 2 * (g + 1)
    BY <1>2 DEF HandlerRuns
  <2> QED
    BY <2>1, HandlerSees, Zenon
<1>12. eip \in {Handler, Loop, AfterCall} /\ eip' \in {Handler, Loop, AfterCall}
  BY <1>1
<1> QED
  BY <1>1, <1>10, <1>11, <1>12, Unseen, Zenon
LEMMA FinishIs ==
  ASSUME NEW fs, With(fs), HandlerExit
  PROVE  Calls!Finish
<1> DEFINE n == ebp - 7
           gs == SubSeq(fs, 1, Len(fs) - 1)
<1>1. /\ eip = Loop /\ status = "running" /\ status' = status /\ UNCHANGED memory
      /\ Count = 0 /\ eax' = Result /\ eip' = stack[ebp - 1]
      /\ Leads(gs) /\ Kept(n) /\ Len(stack') = n
  BY HandlerExitStep DEF HandlerExit, LeaveAndReturn, Frozen
<1>2. PICK g : HandlerRuns(fs, g)
  BY <1>1, HandlerHas
<1>3. /\ ebp \in Nat /\ ebp >= 7 /\ stack \in Seq(Word) /\ eip' \in Sites
      /\ g \in Nat /\ g + 1 \in Nat /\ Len(fs) = 2 * g + 2
  BY <1>1, <1>2 DEF HandlerRuns
<1>4. Agree(stack, stack', n) /\ n <= n /\ MemoryGrows
  <2>1. MemoryGrows
    BY <1>1, RecordTypes DEF MemoryGrows
  <2>2. n <= n
    BY <1>3
  <2> QED
    BY <1>1, <1>3, <2>1, <2>2, Zenon DEF Kept, Agree
<1>5. Shares(fs, gs, g) /\ Len(gs) = 2 * g + 1 /\ gs[2 * g + 1] = fs[2 * g + 1] /\ 2 * g < Len(gs)
  <2>1. 2 * g <= Len(fs) - 1 /\ fs \in Seq(Nat) /\ Len(fs) - 1 = 2 * g + 1 /\ 2 * g + 1 \in 1..(Len(fs) - 1)
    BY <1>2, <1>3 DEF HandlerRuns
  <2>2. /\ Shares(fs, gs, g) /\ Len(gs) = Len(fs) - 1
        /\ \A k \in 1..(Len(fs) - 1) : gs[k] = fs[k]
    BY <1>3, <2>1, SharesPop
  <2> HIDE DEF gs
  <2> QED
    BY <1>3, <2>1, <2>2
<1> HIDE DEF gs
<1>6. SameBelow(fs, gs, g)
  <2> HIDE DEF n
  <2>1. ebp - 7 <= n
    BY <1>4 DEF n
  <2> QED
    BY <1>2, <1>4, <1>5, <2>1, HandlerBelow
<1>7. Activation(stack', gs, g + 1) = Activation(stack, fs, g + 1)
  <2>1. Activation(stack, fs, g + 1) = GuestAt(stack, fs[2 * g + 1], ebp - 7)
    BY <1>2, WaitingIs
  <2>2. Activation(stack', gs, g + 1) = GuestAt(stack', gs[2 * g + 1], Len(stack'))
    BY <1>3, <1>5, RunningIs, Zenon
  <2>3. GuestAt(stack', fs[2 * g + 1], ebp - 7) = GuestAt(stack, fs[2 * g + 1], ebp - 7)
    BY <1>2, <1>4, WaitingKept, Zenon
  <2> QED
    BY <1>1, <1>5, <2>1, <2>2, <2>3, Zenon
<1>8. Sees(stack, eip, memory, fs, g + 1, g + 1) /\ Sees(stack', eip', memory', gs, g + 1, g)
  <2>1. Len(fs) = 2 * (g + 1)
    BY <1>3
  <2> QED
    BY <1>3, <1>5, <2>1, HandlerSees, GuestSees, Zenon
<1>9. Frames = fs /\ Frames' = gs
  BY <1>1, FramesKnown
<1>10. Activations(stack', Frames') = Activations(stack, Frames)
  <2>1. SameActs(fs, gs, g)
    BY <1>6, Zenon DEF SameBelow, SameActs
  <2>2. SameActs(fs, gs, g + 1)
    BY <1>3, <1>7, <2>1, OneMoreAct
  <2> QED
    BY <1>8, <1>9, <2>2, ActsSame, Zenon
<1> DEFINE sends == PendingSends(stack, eip, memory, fs)
           nextSends == PendingSends(stack', eip', memory', gs)
<1>11. Calls!Front(sends) = nextSends /\ Calls!Last(sends) = sends[g + 1]
  <2>1. Lists(sends, g + 1) /\ Lists(nextSends, g)
    BY <1>8, Zenon DEF Sees
  <2>2. \A k \in 1..g : nextSends[k] = sends[k]
    <3> SUFFICES ASSUME NEW k \in 1..g PROVE nextSends[k] = sends[k]
      OBVIOUS
    <3>1. k \in 1..(g + 1)
      BY <1>3
    <3> QED
      BY <1>6, <1>8, <3>1, Zenon DEF Sees, SameBelow
  <2> HIDE DEF sends, nextSends
  <2> QED
    BY <2>1, <2>2, ListsShrink
<1>12. sends[g + 1] = CallAt(stack, memory, ebp, Messages, 0)
  <2>1. g + 1 \in 1..(g + 1)
    BY <1>3
  <2>2. sends[g + 1] = Pending(stack, eip, memory, fs, g + 1)
    BY <1>8, <2>1, Zenon DEF Sees
  <2>3. Pending(stack, eip, memory, fs, g + 1) = CallAt(stack, memory, ebp, Messages, Count)
    BY <1>1, <1>2, IdleIs
  <2> QED
    BY <1>1, <2>2, <2>3, Zenon
<1> HIDE DEF sends, nextSends
<1>13. /\ Calls!Last(sends).left = <<>> /\ Calls!Last(sends).place = eip'
       /\ Calls!Last(sends).answer = eax'
  <2>1. Left(memory, Messages, 0) = <<>>
    BY DEF Left
  <2>2. /\ CallAt(stack, memory, ebp, Messages, 0).left = Left(memory, Messages, 0)
        /\ CallAt(stack, memory, ebp, Messages, 0).place = stack[ebp - 1]
        /\ CallAt(stack, memory, ebp, Messages, 0).answer = stack[ebp - 6]
    BY DEF CallAt
  <2> QED
    BY <1>1, <1>11, <1>12, <2>1, <2>2, Zenon DEF Result
<1>14. /\ PendingSends(stack, eip, memory, Frames) = sends
       /\ PendingSends(stack', eip', memory', Frames') = nextSends
  BY <1>9, Zenon DEF sends, nextSends
<1>15. /\ (IF eip' \in {Loop, AfterCall} THEN Handler ELSE eip') = eip'
       /\ (IF eip \in {Loop, AfterCall} THEN Handler ELSE eip) = Handler
       /\ (IF eip' \in Sites THEN eax' ELSE Junk) = eax'
  BY <1>1, <1>3, PlacesDiffer
<1> QED
  BY <1>1, <1>10, <1>11, <1>13, <1>14, <1>15, Zenon DEF Calls!Finish

LEMMA DeliverIs ==
  ASSUME NEW fs, With(fs), HandlerCall
  PROVE  Calls!Deliver
<1> DEFINE n == ebp
           gs == Append(fs, ebp + 9)
           m == Load(memory, Messages)
<1>1. /\ eip = Loop /\ eip' = Procedure /\ status = "running" /\ status' = status
      /\ UNCHANGED memory /\ Count # 0
      /\ Leads(gs) /\ CalledFor(stack', Window, m.message, m.wParam, m.lParam)
  BY HandlerCallStep DEF HandlerCall, Frozen
<1>2. PICK g : HandlerRuns(fs, g)
  BY <1>1, HandlerHas
<1>3. /\ ebp \in Nat /\ ebp >= 7 /\ stack \in Seq(Word) /\ Len(stack) = ebp + 3 /\ fs \in Seq(Nat)
      /\ g \in Nat /\ g + 1 \in Nat /\ Len(fs) = 2 * g + 2 /\ 2 * (g + 1) = 2 * g + 2
      /\ Count \in Nat /\ Messages \in Nat /\ fs[2 * (g + 1)] = ebp
  BY <1>2 DEF HandlerRuns, Count, Messages
<1>4. /\ stack' \in Seq(Word) /\ Len(stack') = ebp + 8 /\ \A i \in 1..ebp : stack'[i] = stack[i]
      /\ stack'[ebp + 7] = Window /\ stack'[ebp + 6] = m.message
      /\ stack'[ebp + 5] = m.wParam /\ stack'[ebp + 4] = m.lParam
  BY <1>1, Zenon DEF CalledFor
<1> HIDE DEF m
<1>5. Agree(stack, stack', ebp) /\ MemoryGrows
  <2>1. MemoryGrows
    BY <1>1, RecordTypes DEF MemoryGrows
  <2>2. ebp <= Len(stack) /\ ebp <= Len(stack')
    BY <1>3, <1>4
  <2> QED
    BY <1>3, <1>4, <2>1, <2>2, Zenon DEF Agree
<1>6. /\ Shares(fs, gs, g) /\ Shares(fs, gs, g + 1) /\ Len(gs) = 2 * (g + 1) + 1
      /\ gs[2 * (g + 1) + 1] = ebp + 9 /\ gs[2 * (g + 1)] = ebp
  <2>1. 2 * g <= Len(fs) /\ 2 * (g + 1) <= Len(fs) /\ ebp + 9 \in Nat /\ Len(fs) + 1 = 2 * (g + 1) + 1
        /\ 2 * (g + 1) \in 1..Len(fs)
    BY <1>3
  <2>2. /\ Shares(fs, gs, g) /\ Len(gs) = Len(fs) + 1
        /\ gs[Len(fs) + 1] = ebp + 9 /\ \A k \in 1..Len(fs) : gs[k] = fs[k]
    BY <1>3, <2>1, SharesPush
  <2>3. Shares(fs, gs, g + 1)
    BY <1>3, <2>1, SharesPush
  <2> HIDE DEF gs
  <2> QED
    BY <1>3, <2>1, <2>2, <2>3
<1> HIDE DEF gs
<1>7. SameActs(fs, gs, g + 1)
  <2>1. fs[2 * (g + 1)] - 7 <= ebp
    BY <1>3
  <2>2. Spaced(fs)
    BY <1>2 DEF HandlerRuns
  <2>3. \A k \in 1..(g + 1) : Activation(stack', gs, k) = Activation(stack, fs, k)
    BY <1>3, <1>5, <1>6, <2>1, <2>2, LowActivations
  <2> QED
    BY <2>3, Zenon DEF SameActs
<1>8. SameSends(fs, gs, g)
  <2>1. 2 * g < Len(gs) /\ ebp - 7 <= ebp
    BY <1>3, <1>6
  <2>2. SameBelow(fs, gs, g)
    BY <1>2, <1>5, <1>6, <2>1, HandlerBelow
  <2> QED
    BY <2>2, Zenon DEF SameBelow, SameSends
<1>9. Sees(stack, eip, memory, fs, g + 1, g + 1) /\ Sees(stack', eip', memory', gs, (g + 1) + 1, g + 1)
  <2>1. Len(fs) = 2 * (g + 1)
    BY <1>3
  <2> QED
    BY <1>3, <1>6, <2>1, HandlerSees, GuestSees, Zenon
<1> DEFINE acts == Activations(stack, fs)   nextActs == Activations(stack', gs)
           told == [asked |-> <<Window, m>>, locals |-> <<>>]
<1>10. Activation(stack', gs, (g + 1) + 1) = told
  <2>1. Activation(stack', gs, (g + 1) + 1) = GuestAt(stack', gs[2 * (g + 1) + 1], Len(stack'))
    BY <1>3, <1>6, RunningIs, Zenon
  <2>2. Asked(stack', ebp + 9) = <<Window, m>>
    <3>1. (ebp + 9) - 2 = ebp + 7 /\ (ebp + 9) - 3 = ebp + 6 /\ (ebp + 9) - 4 = ebp + 5
          /\ (ebp + 9) - 5 = ebp + 4
      BY <1>3
    <3>2. Asked(stack', ebp + 9) =
            <<Window, [message |-> m.message, wParam |-> m.wParam, lParam |-> m.lParam]>>
      BY <1>4, <3>1, Zenon DEF Asked
    <3>3. m = [message |-> m.message, wParam |-> m.wParam, lParam |-> m.lParam]
      <4>1. m \in MessageRecord
        BY LoadType, WithTypes DEF m
      <4> QED
        BY <4>1 DEF MessageRecord
    <3> QED
      BY <3>2, <3>3, Zenon
  <2>3. SubSeq(stack', (ebp + 9) + 1, ebp + 8) = <<>>
    <3>1. (ebp + 9) + 1 = (ebp + 8) + 2 /\ ebp + 8 \in Nat
      BY <1>3
    <3> QED
      BY <1>4, <3>1, NoWords, Zenon
  <2>4. ebp + 9 # 0
    BY <1>3
  <2>5. GuestAt(stack', ebp + 9, ebp + 8) = told
    BY <2>2, <2>3, <2>4, Zenon DEF GuestAt
  <2> QED
    BY <1>4, <1>6, <2>1, <2>5, Zenon
<1>11. nextActs = Append(acts, told)
  <2>1. Lists(acts, g + 1) /\ Lists(nextActs, (g + 1) + 1)
    BY <1>9, Zenon DEF Sees
  <2>2. \A k \in 1..(g + 1) : acts[k] = nextActs[k]
    <3> SUFFICES ASSUME NEW k \in 1..(g + 1) PROVE acts[k] = nextActs[k]
      OBVIOUS
    <3>1. k \in 1..((g + 1) + 1)
      BY <1>3
    <3> QED
      BY <1>7, <1>9, <3>1, Zenon DEF Sees, SameActs
  <2>3. nextActs[(g + 1) + 1] = told
    <3>1. (g + 1) + 1 \in 1..((g + 1) + 1)
      BY <1>3
    <3> QED
      BY <1>9, <1>10, <3>1, Zenon DEF Sees
  <2> HIDE DEF acts, nextActs, told
  <2>4. nextActs = Append(acts, nextActs[(g + 1) + 1])
    BY <2>1, <2>2, ListsGrow
  <2> QED
    BY <2>3, <2>4, Zenon
<1> DEFINE sends == PendingSends(stack, eip, memory, fs)
           nextSends == PendingSends(stack', eip', memory', gs)
           call == CallAt(stack, memory, ebp, Messages, Count)
           next == CallAt(stack, memory, ebp, Messages + 1, Count - 1)
<1>12. sends[g + 1] = call
  <2>1. g + 1 \in 1..(g + 1)
    BY <1>3
  <2>2. sends[g + 1] = Pending(stack, eip, memory, fs, g + 1)
    BY <1>9, <2>1, Zenon DEF Sees
  <2>3. Pending(stack, eip, memory, fs, g + 1) = call
    BY <1>1, <1>2, IdleIs
  <2> QED
    BY <2>2, <2>3, Zenon
<1>13. nextSends[g + 1] = next
  <2>1. g + 1 \in 1..(g + 1)
    BY <1>3
  <2>2. nextSends[g + 1] = Pending(stack', eip', memory', gs, g + 1)
    BY <1>9, <2>1, Zenon DEF Sees
  <2>3. IsBegun(stack', eip', memory', gs, g + 1, ebp)
    <3>1. Begun(eip', gs, g + 1)
      BY <1>3, <1>6 DEF Begun
    <3>2. IsBegun(stack', eip', memory', gs, g + 1, gs[2 * (g + 1)])
      BY <3>1, BegunIs, Zenon
    <3> QED
      BY <1>6, <3>2, Zenon
  <2>4. /\ stack'[ebp - 1] = stack[ebp - 1] /\ stack'[ebp - 2] = stack[ebp - 2]
        /\ stack'[ebp - 3] = stack[ebp - 3] /\ stack'[ebp - 4] = stack[ebp - 4]
        /\ stack'[ebp - 6] = stack[ebp - 6]
    <3>1. /\ ebp - 1 \in 1..ebp /\ ebp - 2 \in 1..ebp /\ ebp - 3 \in 1..ebp /\ ebp - 4 \in 1..ebp
          /\ ebp - 6 \in 1..ebp
      BY <1>3
    <3> QED
      BY <1>4, <3>1
  <2> QED
    BY <1>1, <2>2, <2>3, <2>4, Zenon DEF IsBegun, CallAt, Messages, Count
<1>14. call.left # <<>> /\ call.window = Window /\ Head(call.left) = m
       /\ next = [call EXCEPT !.left = Tail(@)]
  <2>1. /\ Left(memory, Messages, Count) # <<>> /\ Head(Left(memory, Messages, Count)) = m
        /\ Tail(Left(memory, Messages, Count)) = Left(memory, Messages + 1, Count - 1)
    <3>1. LeftIs(Left(memory, Messages, Count), Load(memory, Messages), Left(memory, Messages + 1, Count - 1))
      BY <1>1, <1>3, LeftTail, Zenon
    <3> QED
      BY <3>1, Zenon DEF LeftIs, m
  <2>2. call = [window |-> Window, left |-> Left(memory, Messages, Count),
                answer |-> stack[ebp - 6], place |-> stack[ebp - 1]]
    BY Zenon DEF CallAt, Window
  <2>3. next = [window |-> Window, left |-> Left(memory, Messages + 1, Count - 1),
                answer |-> stack[ebp - 6], place |-> stack[ebp - 1]]
    BY Zenon DEF CallAt, Window
  <2> DEFINE left == Left(memory, Messages, Count)  tail == Left(memory, Messages + 1, Count - 1)
             wnd == Window  answer == stack[ebp - 6]  place == stack[ebp - 1]
  <2> HIDE DEF call, next, left, tail, wnd, answer, place
  <2>4. call = [window |-> wnd, left |-> left, answer |-> answer, place |-> place]
    BY <2>2, Zenon DEF left, wnd, answer, place
  <2>5. next = [window |-> wnd, left |-> tail, answer |-> answer, place |-> place]
    BY <2>3, Zenon DEF tail, wnd, answer, place
  <2>6. left # <<>> /\ Head(left) = m /\ Tail(left) = tail
    BY <2>1, Zenon DEF left, tail
  <2>7. next = [call EXCEPT !.left = Tail(@)]
    BY <2>4, <2>5, <2>6
  <2>8. call.left = left /\ call.window = wnd
    BY <2>4
  <2> QED
    BY <2>6, <2>7, <2>8, Zenon DEF wnd
<1> HIDE DEF call, next, told
<1>15. /\ Calls!Last(sends) = call
       /\ nextSends = Append(Calls!Front(sends), next)
  <2>1. Lists(sends, g + 1) /\ Lists(nextSends, g + 1) /\ g + 1 > 0 /\ (g + 1) - 1 = g
    BY <1>3, <1>9 DEF Sees
  <2>2. \A k \in 1..g : sends[k] = nextSends[k]
    <3> SUFFICES ASSUME NEW k \in 1..g PROVE sends[k] = nextSends[k]
      OBVIOUS
    <3>1. k \in 1..(g + 1)
      BY <1>3
    <3> QED
      BY <1>8, <1>9, <3>1, Zenon DEF Sees, SameSends
  <2> HIDE DEF sends, nextSends
  <2> DEFINE front == Calls!Front(sends)
  <2>3. Calls!Last(sends) = sends[g + 1] /\ Lists(front, g) /\ \A k \in 1..g : front[k] = sends[k]
    <3>1. /\ Calls!Last(sends) = sends[g + 1] /\ Lists(front, (g + 1) - 1)
          /\ \A k \in 1..((g + 1) - 1) : front[k] = sends[k]
      BY <2>1, ListIs
    <3> QED
      BY <2>1, <3>1, Zenon
  <2> HIDE DEF front
  <2>4. \A k \in 1..g : front[k] = nextSends[k]
    BY <2>2, <2>3
  <2>5. nextSends = Append(front, nextSends[g + 1])
    BY <2>1, <2>3, <2>4, ListsGrow
  <2> QED
    BY <1>12, <1>13, <2>3, <2>5, Zenon DEF front, sends, nextSends
<1>16. Frames = fs /\ Frames' = gs
  BY <1>1, FramesKnown
<1>17. /\ Activations(stack, Frames) = acts /\ Activations(stack', Frames') = nextActs
       /\ PendingSends(stack, eip, memory, Frames) = sends
       /\ PendingSends(stack', eip', memory', Frames') = nextSends
  BY <1>16, Zenon
<1> HIDE DEF acts, nextActs, sends, nextSends
<1>18. /\ (IF eip' \in {Loop, AfterCall} THEN Handler ELSE eip') = Procedure
       /\ (IF eip \in {Loop, AfterCall} THEN Handler ELSE eip) = Handler
  BY <1>1, PlacesDiffer
<1> QED
  BY <1>1, <1>11, <1>14, <1>15, <1>17, <1>18, Zenon DEF Calls!Deliver, told
--------------------------------------------------------------------------------
(* GuestCalls implements WindowCalls *)

\* An import leaves at most one word behind.
LeavesOneWord == \A i \in Imports : i.declared <= i.returned + 1

LEMMA GuestWorks ==
  ASSUME NEW fs, With(fs),
         \/ GuestPop
         \/ \E w \in Scratch : GuestPush(w)
         \/ /\ KeepsCallers /\ LeavesOneWord
            /\ \E i \in Imports, w \in Scratch, site \in Sites : ImportCall(i, w, site)
  PROVE  Calls!Work
<1> DEFINE n == Len(stack)  m == Len(stack')
<1>1. stack \in Seq(Word) /\ n \in Nat
  BY WithTypes
<1>2. ASSUME NEW k \in Nat, Kept(k), k \in {n, m}, m = n \/ m = n + 1 \/ n = m + 1, k <= n, k <= m
      PROVE  OneWord(stack, stack')
  <2>1. Agree(stack, stack', k)
    BY <1>1, <1>2, Zenon DEF Kept, Agree
  <2>2. m \in Nat
    <3>1. stack' \in Seq(Word)
      BY <1>2, Zenon DEF Kept
    <3> QED
      BY <3>1
  <2> HIDE DEF n, m
  <2>3. (m = n /\ k = n) \/ (m = n + 1 /\ k = n) \/ (n = m + 1 /\ k = m)
    BY <1>1, <1>2, <2>2
  <2> QED
    BY <2>1, <2>3, Zenon DEF OneWord, n, m
<1>3. CASE GuestPop
  <2>1. /\ eip \in Sites /\ eip' \in Sites /\ ebp' = ebp /\ status = "running" /\ status' = status
        /\ UNCHANGED memory /\ Leads(fs) /\ Kept(n - 1) /\ m = n - 1 /\ n > ebp
    BY <1>3, GuestPopStep DEF GuestPop, GuestRuns, Frozen
  <2>2. m \in Nat /\ n = m + 1 /\ m \in {n, m} /\ m <= n /\ m <= m /\ Kept(m)
    BY <1>1, <2>1, WithTypes
  <2> HIDE DEF n, m
  <2>3. OneWord(stack, stack')
    BY <1>2, <2>2
  <2> QED
    BY <2>1, <2>3, WorkIs
<1>4. ASSUME NEW w \in Scratch, GuestPush(w) PROVE Calls!Work
  <2>1. /\ eip \in Sites /\ eip' \in Sites /\ ebp' = ebp /\ status = "running" /\ status' = status
        /\ UNCHANGED memory /\ Leads(fs) /\ Kept(n) /\ m = n + 1
    BY <1>4, GuestPushStep DEF GuestPush, GuestRuns, Frozen
  <2>2. n \in {n, m} /\ n <= n /\ n <= m
    BY <1>1, <2>1
  <2> HIDE DEF n, m
  <2>3. OneWord(stack, stack')
    BY <1>1, <1>2, <2>1, <2>2
  <2> QED
    BY <2>1, <2>3, WorkIs
<1>5. ASSUME KeepsCallers, LeavesOneWord, NEW i \in Imports, NEW w \in Scratch, NEW site \in Sites,
             ImportCall(i, w, site)
      PROVE  Calls!Work
  <2>1. /\ eip \in Sites /\ ebp' = ebp /\ status = "running" /\ status' = status
        /\ UNCHANGED memory /\ eip' = FromTop(Pushed(i.declared, w, site), 0)
    BY <1>5 DEF ImportCall, GuestRuns, Frozen
  <2>2. /\ Leads(fs) /\ Kept(n) /\ i.declared \in Nat /\ i.returned \in Nat
        /\ m = n + i.declared - i.returned
        /\ i.returned <= i.declared /\ i.declared <= i.returned + 1
    BY <1>5, ImportCallStep DEF KeepsCallers, LeavesOneWord
  <2>3. eip' \in Sites
    <3>1. CalledWith(Pushed(i.declared, w, site), i.declared, i.returned, site)
      BY <2>2, WithTypes, PushedIs DEF Word
    <3> QED
      BY <2>1, <3>1, Zenon DEF CalledWith
  <2>4. n \in {n, m} /\ n <= n /\ n <= m /\ (m = n \/ m = n + 1)
    <3> HIDE DEF n, m
    <3> QED
      BY <1>1, <2>2
  <2> HIDE DEF n, m
  <2>5. OneWord(stack, stack')
    BY <1>1, <1>2, <2>2, <2>4
  <2> QED
    BY <2>1, <2>2, <2>3, <2>5, WorkIs
<1> QED
  BY <1>3, <1>4, <1>5, Zenon

LEMMA SendsAreSend ==
  ASSUME NEW fs, With(fs), NEW w \in Scratch, NEW site \in Sites,
         \/ CreateWindowExA(w, site)
         \/ \E wnd \in 1..windows : UpdateWindow(wnd, w, site) \/ DispatchMessageA(wnd, w, site)
  PROVE  Calls!Send
<1>1. PICK n, result, count, wnd : Sends(n, result, count, wnd, site)
  BY CreateWindowExAIs, UpdateWindowIs, DispatchMessageAIs, Zenon
<1>2. /\ Leads(Append(fs, Len(stack) + 7)) /\ eip \in Sites /\ eip' = Handler
      /\ status = "running" /\ status' = status
      /\ SentOn(Len(stack), result, count, Len(memory) + 1, wnd, site)
  BY <1>1, SendsStep, Zenon
<1>3. count \in Nat \ {0}
  BY <1>1, Zenon DEF Sends
<1>4. MemoryGrows
  BY <1>1, SendsGrow, Zenon
<1> QED
  BY <1>2, <1>3, <1>4, SendIsSend, Zenon

LEMMA StopIsHalt ==
  ASSUME NEW fs, With(fs),
         \/ GuestPushOverflow \/ SendAsserts \/ ProcedureOverflow \/ HandlerCallOverflow
         \/ \E i \in Imports : ImportOverflow(i)
         \/ \E n \in {CreateArguments, UpdateArguments} : SendOverflow(n)
  PROVE  Calls!Halt
<1>1. /\ UNCHANGED <<stack, ebp, eip, eax, memory>> /\ status = "running" /\ status' # "running"
  BY StopSteps DEF Frozen
<1>2. Frames' = Frames
  BY <1>1 DEF Frames
<1> QED
  BY <1>1, <1>2, Zenon DEF Calls!Halt

LEMMA EveryStepIs ==
  ASSUME KeepsCallers, LeavesOneWord, NEW fs, With(fs), Next
  PROVE  Calls!CallsNext \/ UNCHANGED Calls!callVars
<1>1. CASE Guest
  <2>1. \/ \/ GuestPop
           \/ \E w \in Scratch : GuestPush(w)
           \/ \E i \in Imports, w \in Scratch, site \in Sites : ImportCall(i, w, site)
        \/ \E w \in Scratch, site \in Sites :
             \/ CreateWindowExA(w, site)
             \/ \E wnd \in 1..windows : UpdateWindow(wnd, w, site) \/ DispatchMessageA(wnd, w, site)
        \/ \/ GuestPushOverflow \/ SendAsserts
           \/ \E i \in Imports : ImportOverflow(i)
           \/ \E n \in {CreateArguments, UpdateArguments} : SendOverflow(n)
    BY <1>1, Zenon DEF Guest
  <2> QED
    BY <2>1, GuestWorks, SendsAreSend, StopIsHalt, Zenon DEF Calls!CallsNext
<1>2. CASE Return
  BY <1>2, HandledIs, Zenon DEF Return, Calls!CallsNext
<1>3. CASE Interpreter
  <2>1. CASE ProcedureEnter
    BY <2>1, BeginIs, Zenon DEF Calls!CallsNext
  <2>2. CASE HandlerEnter
    BY <2>2, HandlerEnterIs, Zenon
  <2>3. CASE HandlerCall
    BY <2>3, DeliverIs, Zenon DEF Calls!CallsNext
  <2>4. CASE HandlerNext
    BY <2>4, HandlerNextIs, Zenon
  <2>5. CASE HandlerExit
    BY <2>5, FinishIs, Zenon DEF Calls!CallsNext
  <2>6. CASE ProcedureOverflow \/ HandlerCallOverflow
    BY <2>6, StopIsHalt, Zenon DEF Calls!CallsNext
  <2> QED
    BY <1>3, <2>1, <2>2, <2>3, <2>4, <2>5, <2>6, Zenon DEF Interpreter
<1> QED
  BY <1>1, <1>2, <1>3, Zenon DEF Next

LEMMA StutterIs ==
  ASSUME UNCHANGED vars
  PROVE  UNCHANGED Calls!callVars
<1>1. UNCHANGED <<stack, ebp, eip, eax, memory, status>>
  BY DEF vars
<1>2. Frames' = Frames
  BY <1>1 DEF Frames
<1> QED
  BY <1>1, <1>2, Zenon DEF Calls!callVars

LEMMA StartIs ==
  ASSUME Init
  PROVE  Calls!CallsInit
<1>1. /\ Frames = <<0>> /\ stack = <<>> /\ eip \in Sites /\ status = "running"
  BY CallsInit DEF Init
<1>2. Len(<<0>>) = 2 * 0 + 1 /\ 0 \in Nat /\ <<0>>[1] = 0 /\ 0 + 1 = 1 /\ 2 * 0 + 1 = 1
  OBVIOUS
<1>3. Sees(stack, eip, memory, <<0>>, 1, 0)
  <2>1. Sees(stack, eip, memory, <<0>>, 0 + 1, 0)
    BY <1>2, GuestSees, Zenon
  <2> QED
    BY <1>2, <2>1, Zenon
<1> DEFINE acts == Activations(stack, <<0>>)  first == [asked |-> <<>>, locals |-> <<>>]
           sends == PendingSends(stack, eip, memory, <<0>>)
<1>4. acts[1] = first
  <2>1. Activation(stack, <<0>>, 0 + 1) = GuestAt(stack, <<0>>[2 * 0 + 1], Len(stack))
    BY <1>2, RunningIs, Zenon
  <2>2. SubSeq(stack, 0 + 1, Len(stack)) = <<>>
    BY <1>1
  <2>3. Activation(stack, <<0>>, 1) = first
    BY <1>2, <2>1, <2>2, Zenon DEF GuestAt
  <2>4. 1 \in 1..1
    OBVIOUS
  <2> QED
    BY <1>3, <2>3, <2>4, Zenon DEF Sees
<1>5. acts = <<first>>
  <2>1. acts = [k \in 1..1 |-> acts[k]]
    BY <1>3, Zenon DEF Sees, Lists
  <2> HIDE DEF acts, first
  <2> QED
    BY <1>4, <2>1
<1>6. sends = <<>>
  <2>1. sends = [k \in 1..0 |-> sends[k]]
    BY <1>3, Zenon DEF Sees, Lists
  <2> HIDE DEF sends
  <2> QED
    BY <2>1
<1>7. (IF eip \in {Loop, AfterCall} THEN Handler ELSE eip) \in Sites
  BY <1>1, PlacesDiffer
<1> HIDE DEF acts, sends
<1>8. Activations(stack, Frames) = acts /\ PendingSends(stack, eip, memory, Frames) = sends
  BY <1>1, Zenon DEF acts, sends
<1> QED
  BY <1>1, <1>5, <1>6, <1>7, <1>8, Zenon DEF Calls!CallsInit

\* The stack the proxies and handle_messages leave implements calls without one:
\* every message of CreateWindowExA, UpdateWindow and DispatchMessageA is told to
\* the window procedure once and in order, every call returns its own answer to
\* its own place, and no activation loses a word to what happens above it.
THEOREM WindowCallsImplemented ==
  ASSUME KeepsCallers, LeavesOneWord
  PROVE  Spec => ImplementsWindowCalls
<1>1. Init => Calls!CallsInit
  BY StartIs
<1>2. CallsInv /\ [Next]_vars => [Calls!CallsNext]_(Calls!callVars)
  <2>1. ASSUME CallsInv, Next PROVE Calls!CallsNext \/ UNCHANGED Calls!callVars
    <3>1. With(Frames)
      BY <2>1, Zenon DEF CallsInv, FramesLinked, With
    <3> QED
      BY <2>1, <3>1, EveryStepIs, Zenon
  <2> QED
    BY <2>1, StutterIs, Zenon
<1> QED
  BY <1>1, <1>2, CallsInvariant, PTL DEF Spec, ImplementsWindowCalls, Calls!CallsSpec
================================================================================
