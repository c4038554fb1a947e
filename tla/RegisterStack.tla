------------------------------ MODULE RegisterStack ------------------------------
(***************************************************************************)
(* What the guest's compiler expects of the floating point instructions    *)
(* that the emulator implements: a stack of values with ST(0) on top, the  *)
(* condition of the last comparison and a rounding mode.  The compiler     *)
(* never pops what it did not push and never pushes more than fits.        *)
(* Arithmetic is given by tables, so that only its operands matter here.   *)
(***************************************************************************)
EXTENDS Integers, Sequences

CONSTANTS
  Registers,  \* how many values fit
  Value,      \* what a register can hold
  Zero,
  Word,       \* the integers in memory
  Binary,     \* the operations of two operands, first operand first
  Unary,
  Compare,    \* how two values are ordered
  Round,      \* for each rounding mode
  Narrow,     \* to 32 and 64 bits
  Signed,     \* the value of a word
  ToWord      \* the word of a value that Round left an integer

Mode == {"nearest", "truncate"}
Order == {"greater", "less", "equal", "unordered"}

\* C3, C2 and C0
Condition == [greater |-> <<0, 0, 0>>, less |-> <<0, 0, 1>>, equal |-> <<1, 0, 0>>, unordered |-> <<1, 1, 1>>]

VARIABLES
  stack,
  condition,
  control,
  out         \* what the last instruction stored in memory or in AX

stackVars == <<stack, condition, control, out>>

Nothing == [none |-> 0]

ST(i) == stack[i + 1]
Has(n) == n <= Len(stack)
HasRoom == Len(stack) < Registers
Put(i, v) == [stack EXCEPT ![i + 1] = v]

\* The four ways an instruction leaves the stack.
Push(v) == HasRoom /\ stack' = <<v>> \o stack /\ out' = Nothing /\ UNCHANGED <<condition, control>>
Replace(i, v) == stack' = Put(i, v) /\ out' = Nothing /\ UNCHANGED <<condition, control>>
ReplaceAndPop(i, v) == stack' = Tail(Put(i, v)) /\ out' = Nothing /\ UNCHANGED <<condition, control>>
Store(x) == out' = x /\ UNCHANGED <<stack, condition, control>>
StoreAndPop(x) == stack' = Tail(stack) /\ out' = x /\ UNCHANGED <<condition, control>>

Compares(x, y) ==
  /\ condition' = Condition[Compare[<<x, y>>]]
  /\ out' = Nothing
  /\ UNCHANGED control

StackInit ==
  /\ stack = <<>>
  /\ condition \in {0, 1} \X {0, 1} \X {0, 1}
  /\ control \in Mode
  /\ out = Nothing

\* Loads and stores.
FldMemory(v) == Push(v)
FldConstant(v) == Push(v)
Fild(w) == Push(Signed[w])
FldRegister(i) == Has(i + 1) /\ Push(ST(i))
FstMemory(bits) == Has(1) /\ Store([value |-> Narrow[bits][ST(0)]])
FstpMemory == Has(1) /\ StoreAndPop([value |-> Narrow[64][ST(0)]])
FstpRegister(i) == Has(i + 1) /\ ReplaceAndPop(i, ST(0))
Fistp == Has(1) /\ StoreAndPop([word |-> ToWord[Round[control][ST(0)]]])

\* Arithmetic: f applied to ST(0) and an operand from memory, ...
ArithMemory(f, v) == Has(1) /\ Replace(0, Binary[f][<<ST(0), v>>])
FdivrMemory(v) == Has(1) /\ Replace(0, Binary["div"][<<v, ST(0)>>])
\* ... with the result in ST(0), ...
ArithTop(f, i) == Has(i + 1) /\ Replace(0, Binary[f][<<ST(0), ST(i)>>])
\* ... with the result in ST(i), ...
FsubRegister(i) == Has(i + 1) /\ Replace(i, Binary["sub"][<<ST(i), ST(0)>>])
\* ... and with ST(0) popped.
ArithPop(f, i) == Has(i + 1) /\ ReplaceAndPop(i, Binary[f][<<ST(i), ST(0)>>])
UnaryTop(f) == Has(1) /\ Replace(0, Unary[f][ST(0)])
Frndint == Has(1) /\ Replace(0, Round[control][ST(0)])
Fscale == Has(2) /\ Replace(0, Binary["scale"][<<ST(0), ST(1)>>])
Fyl2x == Has(2) /\ ReplaceAndPop(1, Binary["yl2x"][<<ST(1), ST(0)>>])
Fxch(i) ==
  /\ Has(i + 1)
  /\ stack' = [stack EXCEPT ![1] = ST(i), ![i + 1] = ST(0)]
  /\ out' = Nothing /\ UNCHANGED <<condition, control>>

\* Comparisons that pop no value, one or two.
FcomMemory(v) == Has(1) /\ Compares(ST(0), v) /\ UNCHANGED stack
FcompMemory(v) == Has(1) /\ Compares(ST(0), v) /\ stack' = Tail(stack)
FcompRegister(i) == Has(i + 1) /\ Compares(ST(0), ST(i)) /\ stack' = Tail(stack)
Fcompp == Has(2) /\ Compares(ST(0), ST(1)) /\ stack' = Tail(Tail(stack))
Ftst == Has(1) /\ Compares(ST(0), Zero) /\ UNCHANGED stack

\* Control.
Fnstsw == Store([condition |-> condition])
Fnstcw == Store([mode |-> control])
Fldcw(m) == control' = m /\ out' = Nothing /\ UNCHANGED <<stack, condition>>
Fninit ==
  /\ stack' = <<>> /\ control' = "nearest" /\ condition' = <<0, 0, 0>>
  /\ out' = Nothing
================================================================================
