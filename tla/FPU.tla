---------------------------------- MODULE FPU ----------------------------------
(***************************************************************************)
(* The floating point unit of one guest thread (FEFPU.c) and the           *)
(* instructions FEProcess.m implements on it: a ring of registers, the     *)
(* field of the status word that says which of them is ST(0), and the      *)
(* condition bits.  The unit knows nothing of an empty or a full stack, so *)
(* depth is kept here: what the guest's compiler believes is on the stack. *)
(* The tag word is left out: no instruction that reads it is implemented   *)
(* and fe_fpu_tag has no caller.                                           *)
(***************************************************************************)
EXTENDS Integers, Sequences

CONSTANTS Registers, Value, Zero, Word, Binary, Unary, Compare, Round, Narrow, Signed, ToWord,
  Operand,     \* the numbers the guest keeps in memory
  Garbage,     \* the condition bits that memory from malloc may hold
  Constants,   \* 1.0, 0.0, the logarithm of e to base 2 and of 2 to base e
  Unsigned,    \* the value of a word read as an unsigned integer
  Convertible  \* the values C may convert to an unsigned integer: not negative, not too large

VARIABLES top, data, flags, control, out, depth

fpuVars == <<top, data, flags, control, out, depth>>

Flags == [c0 : {0, 1}, c1 : {0, 1}, c2 : {0, 1}, c3 : {0, 1}]
Index == 0..(Registers - 1)
Mode == {"nearest", "truncate"}
Order == {"greater", "less", "equal", "unordered"}
Arithmetic == {"add", "sub", "mul", "div"}

ASSUME RegistersAssumption == Registers \in Nat /\ Registers > 1
ASSUME ValueAssumption == Zero \in Value /\ Constants \subseteq Value /\ Operand \subseteq Value /\ Convertible \subseteq Value
ASSUME GarbageAssumption == Garbage \subseteq Flags
ASSUME TablesAssumption ==
  /\ Binary \in [Arithmetic \cup {"scale", "yl2x"} -> [Value \X Value -> Value]]
  /\ Unary \in [{"chs", "abs", "2xm1"} -> [Value -> Value]]
  /\ Compare \in [Value \X Value -> Order]
  /\ Round \in [Mode -> [Value -> Value]]
  /\ Narrow \in [{32, 64} -> [Value -> Value]]
  /\ Signed \in [Word -> Value] /\ Unsigned \in [Word -> Value]
  /\ ToWord \in [Value -> Word]
ASSUME CommutativeAssumption ==
  \A f \in {"add", "mul"}, x \in Value, y \in Value : Binary[f][<<x, y>>] = Binary[f][<<y, x>>]

--------------------------------------------------------------------------------
(* FEFPU.c *)

Offset(t, i) == IF i + t > Registers - 1 THEN i + t - Registers ELSE i + t
Register(i) == data[Offset(top, i)]
SetRegister(t, i, v) == [data EXCEPT ![Offset(t, i)] = v]
DecrementFromLast(t) == IF t = 0 THEN Registers - 2 ELSE t - 1
DecrementTop(t) == IF t = 0 THEN Registers - 1 ELSE t - 1
IncrementNoWrap(t) == t + 1
IncrementTop(t) == IF t + 1 > Registers - 1 THEN t + 1 - Registers ELSE t + 1

\* The promise: the registers from top on, as many as the guest believes in.
StackAt(t, d, n) == [k \in 1..n |-> d[Offset(t, k - 1)]]
Stack == StackAt(top, data, depth)
S == INSTANCE RegisterStack WITH stack <- Stack, condition <- <<flags.c3, flags.c2, flags.c0>>

\* fe_fpu_create clears nothing: every field starts with what malloc returned.
Init ==
  /\ top \in Index
  /\ data \in [Index -> Value]
  /\ flags \in Garbage
  /\ control \in Mode
  /\ out = [none |-> 0]
  /\ depth = 0

--------------------------------------------------------------------------------
(* What the instructions have in common. *)

\* The guest's compiler names only what it pushed.
Has(n) == n <= depth

Push(v) ==
  /\ depth < Registers
  /\ depth' = depth + 1
  /\ top' = DecrementTop(top)
  /\ UNCHANGED <<flags, control>>
  /\ out' = [none |-> 0]
  /\ data' = SetRegister(DecrementTop(top), 0, v)

Replace(i, v) ==
  /\ UNCHANGED <<top, flags, control, depth>>
  /\ out' = [none |-> 0]
  /\ data' = SetRegister(top, i, v)

ReplaceAndPop(i, v) ==
  /\ depth' = depth - 1
  /\ top' = IncrementTop(top)
  /\ UNCHANGED <<flags, control>>
  /\ out' = [none |-> 0]
  /\ data' = SetRegister(top, i, v)

Store(x) == UNCHANGED <<depth, top, flags, control>> /\ out' = x /\ UNCHANGED data

StoreAndPop(x) ==
  /\ depth' = depth - 1
  /\ top' = IncrementTop(top)
  /\ UNCHANGED <<flags, control>>
  /\ out' = x
  /\ UNCHANGED data

\* Neither > nor < holds of values that are unordered.
Compared(x, y) ==
  CASE Compare[<<x, y>>] = "greater" -> [c0 |-> 0, c1 |-> 0, c2 |-> 0, c3 |-> 0]
    [] Compare[<<x, y>>] = "less"    -> [c0 |-> 1, c1 |-> 0, c2 |-> 0, c3 |-> 0]
    [] OTHER                         -> [c0 |-> 0, c1 |-> 0, c2 |-> 0, c3 |-> 1]

Compares(x, y) == flags' = Compared(x, y) /\ out' = [none |-> 0] /\ UNCHANGED <<data, control>>

Keep == UNCHANGED <<top, depth>>
PopOne == top' = IncrementTop(top) /\ depth' = depth - 1
PopOnlyOne == top' = IncrementTop(top) /\ depth' = depth - 2
PopTwo == top' = IncrementTop(IncrementTop(top)) /\ depth' = depth - 2

\* The C conversion of a value to an unsigned integer; undefined for the others.
Integers(v) == IF v \in Convertible THEN {Round["truncate"][v]} ELSE Value
Words(v) == IF v \in Convertible THEN {ToWord[Round["truncate"][v]]} ELSE Word

Single(v) == Narrow[32][v]
Double(v) == Narrow[64][v]

--------------------------------------------------------------------------------
(* Loads and stores. *)

FldMemory(v) == Push(v)
FldConstant(v) == Push(v)
Fild(w) == Push(Unsigned[w])

\* D9 C0+i: the decoder's first argument is ST(0) whatever i is.
FldRegister(i) == Has(i + 1) /\ Push(Register(0))

FstMemory(bits) == Has(1) /\ Store([value |-> Narrow[bits][Register(0)]])
FstpMemory == Has(1) /\ StoreAndPop([value |-> Double(Register(0))])
FstpRegister(i) == Has(i + 1) /\ ReplaceAndPop(i, Register(0))
Fistp == Has(1) /\ \E w \in Words(Register(0)) : StoreAndPop([word |-> w])

--------------------------------------------------------------------------------
(* Arithmetic. *)

\* D8 /0, /1, /4 and /6: all but fmul compute in single precision.
ArithSingle(f, v) ==
  /\ Has(1)
  /\ Replace(0, IF f = "mul" THEN Binary[f][<<Register(0), v>>]
                ELSE Single(Binary[f][<<Single(Register(0)), v>>]))

\* DC /0, /1, /4 and /6: fsub narrows ST(0) and computes in double precision.
ArithDouble(f, v) ==
  /\ Has(1)
  /\ Replace(0, IF f = "sub" THEN Double(Binary[f][<<Single(Register(0)), v>>])
                ELSE Binary[f][<<Register(0), v>>])

FdivrMemory(v) == Has(1) /\ Replace(0, Binary["div"][<<v, Register(0)>>])

FmulTop(i) == Has(i + 1) /\ Replace(0, Binary["mul"][<<Register(0), Register(i)>>])
FdivTop(i) == Has(i + 1) /\ Replace(0, Binary["div"][<<Register(0), Register(i)>>])

\* D8 E0+i takes the decoder's first argument, which is ST(0), for ST(i).
FsubTop(i) == Has(i + 1) /\ Replace(0, Binary["sub"][<<Register(0), Register(0)>>])

FsubRegister(i) == Has(i + 1) /\ Replace(i, Binary["sub"][<<Register(i), Register(0)>>])

Faddp(i) == Has(i + 1) /\ ReplaceAndPop(i, Binary["add"][<<Register(i), Register(0)>>])
Fdivp(i) == Has(i + 1) /\ ReplaceAndPop(i, Binary["div"][<<Register(i), Register(0)>>])

\* DE C8+i and DE E8+i: ST(1), whatever i is.
Fmulp(i) == Has(i + 1) /\ ReplaceAndPop(1, Binary["mul"][<<Register(0), Register(1)>>])
Fsubp(i) == Has(i + 1) /\ ReplaceAndPop(1, Binary["sub"][<<Register(1), Register(0)>>])

UnaryTop(f) == Has(1) /\ Replace(0, Unary[f][Register(0)])
Frndint == Has(1) /\ \E v \in Integers(Register(0)) : Replace(0, v)
Fscale == Has(2) /\ Replace(0, Binary["scale"][<<Register(0), Register(1)>>])

\* The guest believes that ST(0) is popped; the code does not pop it.
Fyl2x ==
  /\ Has(2)
  /\ depth' = depth - 1
  /\ UNCHANGED <<top, flags, control>>
  /\ out' = [none |-> 0]
  /\ data' = SetRegister(top, 1, Binary["yl2x"][<<Register(1), Register(0)>>])

\* D9 C8+i: ST(1), whatever i is.
Fxch(i) ==
  /\ Has(i + 1)
  /\ UNCHANGED <<top, flags, control, depth>>
  /\ out' = [none |-> 0]
  /\ data' = [data EXCEPT ![Offset(top, 0)] = Register(1), ![Offset(top, 1)] = Register(0)]

--------------------------------------------------------------------------------
(* Comparisons and control. *)

FcomMemory(v) == Has(1) /\ Keep /\ Compares(Register(0), v)
FcompMemory(v) == Has(1) /\ PopOne /\ Compares(Register(0), v)
FcompRegister(i) == Has(i + 1) /\ PopOne /\ Compares(Register(0), Register(i))
Fcompp == Has(2) /\ PopTwo /\ Compares(Register(0), Register(1))
Ftst == Has(1) /\ Keep /\ Compares(Register(0), Zero)

Fnstsw == Store([condition |-> <<flags.c3, flags.c2, flags.c0>>])
Fnstcw == Store([mode |-> control])
Fldcw(m) == control' = m /\ out' = [none |-> 0] /\ UNCHANGED <<top, data, flags, depth>>

Fninit ==
  /\ top' = 0 /\ control' = "nearest"
  /\ flags' = [c0 |-> 0, c1 |-> 0, c2 |-> 0, c3 |-> 0]
  /\ depth' = 0
  /\ out' = [none |-> 0]
  /\ UNCHANGED data

--------------------------------------------------------------------------------
Singles == {Single(v) : v \in Operand}
Doubles == {Double(v) : v \in Operand}

OnRegister(i) ==
  \/ FldRegister(i) \/ FstpRegister(i) \/ Fxch(i)
  \/ FmulTop(i) \/ FdivTop(i) \/ FsubTop(i) \/ FsubRegister(i)
  \/ Faddp(i) \/ Fmulp(i) \/ Fsubp(i) \/ Fdivp(i)
  \/ FcompRegister(i)

OnMemory ==
  \/ \E v \in Singles \cup Doubles : FldMemory(v)
  \/ \E w \in Word : Fild(w)
  \/ \E bits \in {32, 64} : FstMemory(bits)
  \/ FstpMemory \/ Fistp
  \/ \E f \in Arithmetic : \/ \E v \in Singles : ArithSingle(f, v)
                           \/ \E v \in Doubles : ArithDouble(f, v)
  \/ \E v \in Doubles : FdivrMemory(v) \/ FcomMemory(v) \/ FcompMemory(v)

OnTop ==
  \/ \E v \in Constants : FldConstant(v)
  \/ \E f \in DOMAIN Unary : UnaryTop(f)
  \/ Frndint \/ Fscale \/ Fyl2x \/ Fcompp \/ Ftst

OnControl == Fnstsw \/ Fnstcw \/ Fninit \/ \E m \in Mode : Fldcw(m)

Next == (\E i \in Index : OnRegister(i)) \/ OnMemory \/ OnTop \/ OnControl

Spec == Init /\ [][Next]_fpuVars

--------------------------------------------------------------------------------
TypeOK ==
  /\ top \in Index /\ data \in [Index -> Value]
  /\ flags \in Flags
  /\ control \in Mode
  /\ depth \in 0..Registers

\* Where the C conversion and the rounding mode agree on an integer.
Exact(v) == v \in Convertible /\ Round[control][v] = Round["truncate"][v]
Ordered(x, y) == Compare[<<x, y>>] # "unordered"
SingleResult(f, v) ==
  LET r == Binary[f][<<Register(0), v>>] IN Single(Register(0)) = Register(0) /\ Single(r) = r
DoubleResult(f, v) ==
  LET r == Binary[f][<<Register(0), v>>] IN Single(Register(0)) = Register(0) /\ Double(r) = r

RegisterSteps(i) ==
  /\ FldRegister(i) /\ i = 0 => S!FldRegister(i)
  /\ FstpRegister(i) => S!FstpRegister(i)
  /\ Fxch(i) /\ i = 1 => S!Fxch(i)
  /\ FmulTop(i) => S!ArithTop("mul", i)
  /\ FdivTop(i) => S!ArithTop("div", i)
  /\ FsubTop(i) /\ i = 0 => S!ArithTop("sub", i)
  /\ FsubRegister(i) => S!FsubRegister(i)
  /\ Faddp(i) => S!ArithPop("add", i)
  /\ Fmulp(i) /\ i = 1 => S!ArithPop("mul", i)
  /\ Fsubp(i) /\ i = 1 => S!ArithPop("sub", i)
  /\ Fdivp(i) => S!ArithPop("div", i)
  /\ FcompRegister(i) /\ Ordered(Register(0), Register(i)) => S!FcompRegister(i)

MemorySteps ==
  /\ \A v \in Singles \cup Doubles : FldMemory(v) => S!FldMemory(v)
  /\ \A w \in Word : Fild(w) /\ Unsigned[w] = Signed[w] => S!Fild(w)
  /\ \A bits \in {32, 64} : FstMemory(bits) => S!FstMemory(bits)
  /\ FstpMemory => S!FstpMemory
  /\ Fistp /\ Exact(Register(0)) => S!Fistp
  /\ \A f \in Arithmetic :
       /\ \A v \in Singles : ArithSingle(f, v) /\ (f = "mul" \/ SingleResult(f, v)) => S!ArithMemory(f, v)
       /\ \A v \in Doubles : ArithDouble(f, v) /\ (f # "sub" \/ DoubleResult(f, v)) => S!ArithMemory(f, v)
  /\ \A v \in Doubles :
       /\ FdivrMemory(v) => S!FdivrMemory(v)
       /\ FcomMemory(v) /\ Ordered(Register(0), v) => S!FcomMemory(v)
       /\ FcompMemory(v) /\ Ordered(Register(0), v) => S!FcompMemory(v)

TopSteps ==
  /\ \A v \in Constants : FldConstant(v) => S!FldConstant(v)
  /\ \A f \in DOMAIN Unary : UnaryTop(f) => S!UnaryTop(f)
  /\ Frndint /\ Exact(Register(0)) => S!Frndint
  /\ Fscale => S!Fscale
  /\ Fcompp /\ Ordered(Register(0), Register(1)) => S!Fcompp
  /\ Ftst /\ Ordered(Register(0), Zero) => S!Ftst

ControlSteps ==
  /\ Fnstsw => S!Fnstsw
  /\ Fnstcw => S!Fnstcw
  /\ \A m \in Mode : Fldcw(m) => S!Fldcw(m)
  /\ Fninit => S!Fninit

\* Wherever the stack starts in the ring and however often it wraps, each
\* instruction does to the guest's stack what its compiler expects, with these
\* exceptions: a named register other than the one the code always takes, an
\* integer with its sign bit set, a conversion that does not truncate a positive
\* number, ST(0) or a result that single precision cannot hold, values that are
\* unordered, and fyl2x.
ImplementsStack ==
  [][(\A i \in Index : RegisterSteps(i)) /\ MemorySteps /\ TopSteps /\ ControlSteps]_fpuVars

\* Only fyl2x moves the guest's bottom of the stack to another register: the
\* exceptions above compute wrong values but leave every other value in its place.
OnlyLogarithmDrifts ==
  [][Fyl2x \/ Fninit \/ (top' + depth') % Registers = (top + depth) % Registers]_fpuVars
================================================================================
