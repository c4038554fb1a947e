--------------------------------- MODULE Idioms ---------------------------------
(***************************************************************************)
(* Guest code as compilers write it, run by the Interpreter: sums and shifts *)
(* wider than a register, comparisons and what consumes them, products,      *)
(* quotients, decimal digits and the string loops.  Every idiom chains       *)
(* instructions through the flags or through ecx, so that it comes out right  *)
(* only when each leaves to the next what the processor would.               *)
(***************************************************************************)
EXTENDS Interpreter

CONSTANTS
  Tasks,     \* the idioms to run
  Samples,   \* width -> operands to try: 0, 1, the largest, both sides of the sign
  Digits,    \* bytes of two decimal digits to try
  MemSize    \* bound: bytes of memory the string loops work in

VARIABLE start   \* the task and the state it began in

vars == <<machine, start>>

\* a byte of two decimal digits, and the number they write
IsPacked(byte) == byte \div 16 <= 9 /\ byte % 16 <= 9
Packed(byte) == 10 * (byte \div 16) + (byte % 16)

Idiom == {"add", "sub", "neg", "double", "halve", "halveUnsigned", "rotate", "rotateCarry", "bool", "blend",
          "decrement", "align", "full", "positive", "reduce", "square",
          "compare", "mul", "mulDiv", "imulIdiv", "scale", "idiv", "quarter", "abs", "extend",
          "daa", "das", "aaa", "aas", "aam", "aad", "strlen", "memset", "memcmp", "memmove", "strcpy"}

ASSUME TasksAssumption == Tasks \subseteq Idiom
ASSUME SamplesAssumption == \A w \in DOMAIN Bits : Samples[w] \subseteq 0..(2^Bits[w] - 1)
ASSUME DigitsAssumption == Digits \subseteq {byte \in 0..255 : IsPacked(byte)}
ASSUME MemAssumption == MemSize \in Nat \ {0} /\ MemSize < 2^Bits["dword"]

--------------------------------------------------------------------------------
(* The code *)

R(name) == [reg |-> name]
Imm(value) == [imm |-> value]
ax == R("ax")
dx == R("dx")
bx == R("bx")
bp == R("bp")
ecx == R("ecx")
esi == R("esi")
edi == R("edi")
I(op, w, dst, src) == [op |-> op, w |-> w, dst |-> dst, src |-> src]
Digit81(digit, w, dst, value) == [op |-> "81", w |-> w, digit |-> digit, dst |-> dst, src |-> Imm(value)]
Digit83(digit, w, dst, value) == [op |-> "83", w |-> w, digit |-> digit, dst |-> dst, src |-> Imm(value)]
J(cc, to) == [op |-> "j", cc |-> cc, to |-> to]
Str(op, rep) == [op |-> op, w |-> "byte", rep |-> rep]
Do(op) == [op |-> op, w |-> "byte"]

Set(cc, dst) == [op |-> "set", w |-> "byte", cc |-> cc, dst |-> dst]
Cmov(cc, dst, src) == [op |-> "cmov", w |-> "dword", cc |-> cc, dst |-> dst, src |-> src]
Al(op) == I(op, "byte", ax, ax)

Code(task, w, cc) ==
  LET op(name, dst, src) == I(name, w, dst, src)
      wide(name, dst, src) == I(name, "dword", dst, src)
      byte(name, dst, src) == I(name, "byte", dst, src)
  IN
  CASE \* a loop counter between the halves must not disturb the carry
       task = "add" -> <<op("add", ax, bx), wide("dec", ecx, ecx), op("adc", dx, bp)>>
    [] task = "sub" -> <<op("sub", ax, bx), wide("inc", ecx, ecx), op("sbb", dx, bp)>>
    [] task = "neg" -> <<op("neg", ax, ax), Digit81(2, w, dx, 0), op("neg", dx, dx)>>
    [] task = "double" -> <<op("shl", ax, Imm(1)), op("rcl", dx, Imm(1))>>
    [] task = "halve" -> <<op("sar", dx, Imm(1)), op("rcr", ax, Imm(1))>>
    [] task = "halveUnsigned" -> <<op("shr", dx, Imm(1)), op("rcr", ax, Imm(1))>>
    [] task = "rotate" -> <<op("rol", ax, ecx), op("ror", ax, ecx)>>
    [] task = "rotateCarry" -> <<Do("cmc"), op("rcl", ax, ecx), op("rcr", ax, ecx)>>
    [] task = "bool" -> <<op("neg", ax, ax), op("sbb", ax, ax), op("neg", ax, ax)>>
    [] task = "blend" -> <<op("and", ax, bx), op("not", bx, bx), op("and", dx, bx), op("or", ax, dx)>>
       \* immediates: a small negative one is a byte, a large one is not
    [] task = "decrement" -> <<Digit83(0, w, ax, -1), Digit83(2, w, dx, -1)>>
    [] task = "align" -> <<Digit83(0, w, ax, 3), Digit83(4, w, ax, -4)>>
    [] task = "full" -> <<Digit83(7, w, ax, -1), Set("z", bx)>>
    [] task = "positive" -> <<Digit81(1, w, ax, 2^(Bits[w] - 1)), Digit81(6, w, ax, 2^(Bits[w] - 1))>>
    [] task = "reduce" -> <<Digit81(5, w, ax, 2^(Bits[w] - 1)), Digit81(3, w, dx, 1)>>
       \* comparisons
    [] task = "compare" -> <<op("cmp", ax, bx), Set(cc, bp),
                             Cmov(cc, dx, bx), J(cc, 6),
                             wide("mov", ecx, Imm(7)), wide("movzx", esi, bp)>>
       \* products and quotients
    [] task = "mul" -> <<op("mul", ax, bx)>>
    [] task = "mulDiv" -> <<op("mul", ax, bx), op("div", ax, bp)>>
    [] task = "imulIdiv" -> <<op("imul", ax, bx), op("idiv", ax, bp)>>
    [] task = "scale" -> <<op("movsx", ax, ax), op("imul", ax, bx)>>
    [] task = "square" -> <<[op |-> "imulTo", w |-> w, left |-> bx, dst |-> ax, src |-> bx]>>
    [] task = "idiv" -> <<op("cwd", ax, ax), op("idiv", ax, bx)>>
    [] task = "quarter" -> <<op("cwd", ax, ax), Digit83(4, w, dx, 3), op("add", ax, dx), op("sar", ax, Imm(2))>>
    [] task = "abs" -> <<op("cwd", ax, ax), op("xor", ax, dx), op("sub", ax, dx)>>
    [] task = "extend" -> <<op("cbw", ax, ax)>>
       \* decimal digits
    [] task = "daa" -> <<op("add", ax, bx), Al("daa"), op("xchg", ax, dx), op("adc", ax, bp), Al("daa")>>
    [] task = "das" -> <<op("sub", ax, bx), Al("das"), op("xchg", ax, dx), op("sbb", ax, bp), Al("das")>>
    [] task = "aaa" -> <<op("add", ax, bx), Al("aaa")>>
    [] task = "aas" -> <<op("sub", ax, bx), Al("aas")>>
    [] task = "aam" -> <<op("mul", ax, bx), Al("aam")>>
    [] task = "aad" -> <<Al("aad"), op("div", ax, bx)>>
       \* string loops
    [] task = "strlen" -> <<Str("scas", "repne"), wide("not", ecx, ecx), wide("dec", ecx, ecx)>>
    [] task = "memset" -> <<Str("stos", "rep")>>
    [] task = "memcmp" -> <<wide("xor", ax, ax), Str("cmps", "rep"),
                            Set("b", ax), Set("nz", dx)>>
    [] task = "memmove" -> <<wide("cmp", esi, edi), J("nb", 8),
                             wide("add", esi, ecx), wide("add", edi, ecx), wide("dec", esi, esi), wide("dec", edi, edi),
                             Do("std"), Str("movs", "rep"), Do("cld")>>
    [] task = "strcpy" -> <<Str("lods", "none"), Str("stos", "none"), byte("test", ax, ax), J("nz", 1)>>

--------------------------------------------------------------------------------
(* What they are given *)

WidthsOf(task) ==
  CASE task \in {"rotate", "rotateCarry", "decrement", "align", "full", "square", "idiv", "scale", "quarter", "abs"} -> {"word", "dword"}
    [] task = "extend" -> {"byte", "word"}
    [] task \in {"daa", "das", "aaa", "aas", "aam", "aad",
                 "strlen", "memset", "memcmp", "memmove", "strcpy"} -> {"byte"}
    [] OTHER -> DOMAIN Bits

ConditionsOf(task) == IF task = "compare" THEN Condition ELSE {"z"}

Address == 0..(MemSize - 1)
Cleared == [r \in Register |-> 0]
Operands(A, D, B, P) ==
  {[Cleared EXCEPT !["ax"] = a, !["dx"] = d, !["bx"] = b, !["bp"] = p] : a \in A, d \in D, b \in B, p \in P}
Pointers(E, F, C) ==
  {[Cleared EXCEPT !["esi"] = e, !["edi"] = f, !["ecx"] = c] : e \in E, f \in F, c \in C}

Inputs(task, w) ==
  LET S == Samples[w]
      Z == {0}
      digit == 0..9
  IN
  CASE task \in {"add", "sub"} -> Operands(S, S, S, S)
    [] task \in {"neg", "double", "halve", "halveUnsigned", "decrement", "reduce"} -> Operands(S, S, Z, Z)
    [] task \in {"rotate", "rotateCarry"} ->
         {[Cleared EXCEPT !["ax"] = a, !["ecx"] = c] : a \in S, c \in 0..(2 * Bits["dword"])}
    [] task \in {"bool", "align", "full", "positive", "quarter", "abs", "extend"} -> Operands(S, Z, Z, Z)
    [] task = "blend" -> Operands(S, S, S, Z)
    [] task = "compare" -> Operands(S, {2}, S, S)
    [] task \in {"mul", "scale", "square"} -> Operands(S, Z, S, Z)
    [] task \in {"mulDiv", "imulIdiv"} -> Operands(S, Z, S, S \ {0})
    [] task = "idiv" -> Operands(S, Z, S \ {0}, Z)
    [] task \in {"daa", "das"} -> Operands(Digits, Digits, Digits, Digits)
    [] task = "aaa" -> Operands(digit, 0..8, digit, Z)
    [] task = "aas" -> Operands(digit, 1..9, digit, Z)
    [] task = "aam" -> Operands(digit, Z, digit, Z)
    [] task = "aad" -> Operands(digit, digit, 1..9, Z)
    [] task = "strlen" -> Pointers(Z, Address, {2^Bits["dword"] - 1})
    [] task = "memset" -> Pointers(Z, Address, 0..MemSize)
    [] task = "strcpy" -> Pointers(Address, Address, Z)
    [] task \in {"memcmp", "memmove"} -> Pointers(Address, Address, 0..MemSize)

Memories(task) ==
  CASE task = "strlen" -> {m \in [Address -> {0, 1}] : m[MemSize - 1] = 0}
    [] task = "strcpy" -> [Address -> {0, 1}]
    [] task = "memcmp" -> [Address -> {1, 200}]
    [] OTHER -> {[a \in Address |-> (a + 1) % 256]}

Length(m, from) == (CHOOSE k \in Address : /\ m[from + k] = 0
                                          /\ \A j \in 0..(k - 1) : m[from + j] # 0)

\* What the guest's author promised: quotients fit, strings end and stay in the
\* memory, and strcpy does not overwrite what it has yet to read.
Legal(task, n, file, m) ==
  CASE task = "mulDiv" -> (file["ax"] * file["bx"]) \div file["bp"] < 2^n
    [] task = "imulIdiv" ->
         Idiv32Accepts(n, Signed(n, file["ax"]) * Signed(n, file["bx"]), Signed(n, file["bp"]))
    [] task = "idiv" -> Idiv32Accepts(n, Signed(n, file["ax"]), Signed(n, file["bx"]))
    [] task = "memset" -> file["edi"] + file["ecx"] <= MemSize
    [] task \in {"memcmp", "memmove"} ->
         file["esi"] + file["ecx"] <= MemSize /\ file["edi"] + file["ecx"] <= MemSize
    [] task = "strcpy" ->
         /\ \E a \in Address : a >= file["esi"] /\ m[a] = 0
         /\ file["edi"] < file["esi"] \/ file["edi"] > file["esi"] + Length(m, file["esi"])
         /\ file["edi"] + Length(m, file["esi"]) < MemSize
    [] OTHER -> TRUE

\* The calling convention promises DF = 0 and nothing of the other flags.
FlagsBefore == {[[f \in Flag |-> v] EXCEPT !.DF = 0] : v \in {0, 1}}

Init ==
  \E task \in Tasks : \E w \in WidthsOf(task), cc \in ConditionsOf(task), m \in Memories(task) :
    \E file \in Inputs(task, w), f \in FlagsBefore :
      /\ Legal(task, Bits[w], file, m)
      /\ start = [task |-> task, w |-> w, cc |-> cc, regs |-> file, flags |-> f, mem |-> m]
      /\ code = Code(task, w, cc)
      /\ pc = 1
      /\ regs = file /\ flags = f /\ mem = m
      /\ outcome = "running"

Next == Execute /\ UNCHANGED start
Spec == Init /\ [][Next]_vars

\* The run loop goes on as long as there is an instruction.
FairSpec == Spec /\ WF_vars(Next)

--------------------------------------------------------------------------------
(* What the processor would have left *)

n == Bits[start.w]
s == start.regs
Done == pc > Len(code)
Before == Pair(n, s["dx"], s["ax"])
Operand == Pair(n, s["bp"], s["bx"])
After == Pair(n, regs["dx"], regs["ax"])

TypeOK ==
  /\ start.task \in Tasks /\ start.w \in WidthsOf(start.task)
  /\ code = Code(start.task, start.w, start.cc)
  /\ pc \in 1..(Len(code) + 1)
  /\ regs \in [Register -> 0..(2^Bits["dword"] - 1)]
  /\ flags \in [Flag -> {0, 1}]
  /\ mem \in [Address -> 0..255]
  /\ outcome \in {"running", "aborted"}

\* Sums, differences, negations and shifts of two registers pass their carry from
\* one half to the other, past an inc or a dec between them; a short immediate is
\* signed; rotating back restores a value and the carry (ALU_IMP_2arg_op, _cl_based_op, _1arg_op,
\* instruction_80_81, instruction_83).
WideArithmetic ==
  LET whole == 2^(2 * n)
      carry == flags.CF
  IN
  Done =>
    CASE start.task = "add" -> After + whole * carry = Before + Operand
      [] start.task = "sub" -> After - whole * carry = Before - Operand
      [] start.task = "neg" -> After = Wrap(2 * n, -Before)
      [] start.task = "double" -> After + whole * carry = 2 * Before
      [] start.task = "halve" -> 2 * Signed(2 * n, After) + carry = Signed(2 * n, Before)
      [] start.task = "halveUnsigned" -> 2 * After + carry = Before
      [] start.task = "decrement" -> After = Wrap(2 * n, Before - 1)
      [] start.task = "reduce" -> After - whole * carry = Before - 2^n - 2^(n - 1)
      [] start.task = "align" -> regs["ax"] = Wrap(n, 4 * ((s["ax"] + 3) \div 4))
      [] start.task = "full" -> regs["bx"] = Bit(s["ax"] = 2^n - 1) /\ regs["ax"] = s["ax"]
      [] start.task = "positive" -> regs["ax"] = s["ax"] - TopBit(n, s["ax"]) * 2^(n - 1)
      [] start.task = "rotate" -> regs["ax"] = s["ax"]
      [] start.task = "rotateCarry" -> regs["ax"] = s["ax"] /\ carry = 1 - start.flags.CF
      [] start.task = "bool" -> regs["ax"] = Bit(s["ax"] # 0)
      [] start.task = "blend" ->
           \A i \in 0..(n - 1) :
             BitAt(regs["ax"], i) = BitAt(IF BitAt(s["bx"], i) = 1 THEN s["ax"] ELSE s["dx"], i)
      [] OTHER -> TRUE

\* The relation of a and b that each condition stands for after cmp a, b.
Relation(cc, a, b) ==
  CASE cc = "b" -> a < b
    [] cc = "z" -> a = b
    [] cc = "be" -> a <= b
    [] cc = "l" -> Signed(n, a) < Signed(n, b)
    [] cc = "le" -> Signed(n, a) <= Signed(n, b)
    [] cc = "s" -> Wrap(n, a - b) >= 2^(n - 1)
    [] cc = "o" -> Signed(n, a) - Signed(n, b) \notin (-2^(n - 1))..(2^(n - 1) - 1)
    [] cc = "p" -> Cardinality({i \in 0..7 : BitAt(Wrap(n, a - b), i) = 1}) % 2 = 0
Opposite == [no |-> "o", nb |-> "b", nz |-> "z", nbe |-> "be", ns |-> "s", np |-> "p", nl |-> "l", nle |-> "le"]
Related(cc, a, b) ==
  IF cc \in DOMAIN Opposite THEN ~ Relation(Opposite[cc], a, b) ELSE Relation(cc, a, b)

\* After cmp, a jump, a cmov and a setcc of one condition agree with each other
\* and with the signed or unsigned order of the operands, and the setcc writes
\* one byte of its register only (FEProcess.m, jcc, cmovcc, setcc).
ComparisonsAgree ==
  LET holds == Related(start.cc, s["ax"], s["bx"]) IN
  Done /\ start.task = "compare" =>
    /\ regs["esi"] = Bit(holds)
    /\ regs["bp"] = s["bp"] - (s["bp"] % 256) + Bit(holds)
    /\ regs["dx"] = IF holds THEN s["bx"] ELSE s["dx"]
    /\ regs["ecx"] = IF holds THEN 0 ELSE 7
    /\ regs["ax"] = s["ax"] /\ regs["bx"] = s["bx"]

\* quotient and remainder of x by y, rounded towards zero
Divided(quotient, remainder, x, y) ==
  /\ quotient * y + remainder = x
  /\ Magnitude(remainder) < Magnitude(y)
  /\ remainder # 0 => Sign(remainder) = Sign(x)

\* A product fills both registers, says in CF whether it needed the upper one, and
\* is what a division then takes apart; a dividend made by cwd or cdq keeps its
\* sign, so does one that cbw or cwde makes of a value without the sign bit
\* (fe_threadContext_mul32 to div32, instruction_f6, instruction_f7).
ProductsAndQuotients ==
  LET signed(r) == Signed(n, r)
      quotient == signed(regs["ax"])
      remainder == signed(regs["dx"])
  IN
  Done =>
    CASE start.task = "mul" -> /\ After = s["ax"] * s["bx"]
                               /\ flags.CF = Bit(regs["dx"] # 0) /\ flags.OF = flags.CF
      [] start.task = "mulDiv" ->
           Divided(regs["ax"], regs["dx"], s["ax"] * s["bx"], s["bp"])
      [] start.task = "imulIdiv" ->
           Divided(quotient, remainder, signed(s["ax"]) * signed(s["bx"]), signed(s["bp"]))
      [] start.task = "idiv" -> Divided(quotient, remainder, signed(s["ax"]), signed(s["bx"]))
      [] start.task = "scale" ->
           LET product == Signed(8, s["ax"] % 256) * signed(s["bx"]) IN
           /\ Signed(2 * n, After) = product
           /\ flags.CF = Bit(product \notin (-2^(n - 1))..(2^(n - 1) - 1))
      [] start.task = "square" ->
           LET product == signed(s["bx"]) * signed(s["bx"]) IN
           /\ regs["ax"] = Wrap(n, product)
           /\ flags.OF = Bit(product >= 2^(n - 1))
      [] start.task = "quarter" -> quotient = Quotient(signed(s["ax"]), 4)
      [] start.task = "abs" -> regs["ax"] = Magnitude(signed(s["ax"]))
      [] start.task = "extend" -> TopBit(n, s["ax"]) = 0 => After = s["ax"]
      [] OTHER -> TRUE

\* Sums and differences of four packed digits carry from byte to byte and stay
\* digits, and so do the results of the one-digit instructions, whose second
\* digit is in AH (FEProcess.m, DAA, DAS, AAA, AAS, AAM, AAD).
DecimalDigits ==
  LET number(high, low) == 100 * Packed(high) + Packed(low)
      before == number(s["dx"], s["ax"])
      operand == number(s["bp"], s["bx"])
      after == number(regs["ax"], regs["dx"])
      packed == IsPacked(regs["ax"]) /\ IsPacked(regs["dx"])
      digits == regs["ax"] <= 9 /\ regs["dx"] <= 9
      left == 10 * regs["dx"] + regs["ax"]
      given == 10 * s["dx"] + s["ax"]
  IN
  Done =>
    CASE start.task = "daa" -> packed /\ after + 10000 * flags.CF = before + operand
      [] start.task = "das" -> packed /\ after - 10000 * flags.CF = before - operand
      [] start.task = "aaa" -> digits /\ left = given + s["bx"]
      [] start.task = "aas" -> digits /\ left = given - s["bx"]
      [] start.task = "aam" -> digits /\ left = s["ax"] * s["bx"]
      [] start.task = "aad" -> Divided(regs["ax"], regs["dx"], given, s["bx"])
      [] OTHER -> TRUE

\* A loop with a repeat prefix does what the library function it stands for does:
\* it stops at the first match, mismatch or the end of the count and not before,
\* copies between overlapping buffers in either direction, writes nothing else
\* and leaves its pointers and ecx there (repxx_prefix, repxx_postfix, movs to scas).
StringIdioms ==
  LET from == s["esi"]
      to == s["edi"]
      count == s["ecx"]
      copied(length) == [a \in Address |->
        IF a \in to..(to + length - 1) THEN start.mem[from + a - to] ELSE start.mem[a]]
      differs(i) == start.mem[from + i] # start.mem[to + i]
      first(i) == differs(i) /\ \A j \in 0..(i - 1) : ~ differs(j)
      compared == 0..(count - 1)
  IN
  Done =>
    CASE start.task = "strlen" ->
           /\ regs["ecx"] = Length(start.mem, to)
           /\ regs["edi"] = to + regs["ecx"] + 1
           /\ mem = start.mem
      [] start.task = "memset" ->
           /\ mem = [a \in Address |-> IF a \in to..(to + count - 1) THEN s["ax"] ELSE start.mem[a]]
           /\ regs["ecx"] = 0 /\ regs["edi"] = to + count
      [] start.task = "memcmp" ->
           /\ regs["dx"] = Bit(\E i \in compared : differs(i))
           /\ regs["ax"] = Bit(\E i \in compared : first(i) /\ start.mem[from + i] < start.mem[to + i])
           /\ \A i \in compared : first(i) => regs["ecx"] = count - 1 - i
           /\ mem = start.mem
      [] start.task = "memmove" -> mem = copied(count) /\ flags.DF = 0 /\ regs["ecx"] = 0
      [] start.task = "strcpy" -> mem = copied(Length(start.mem, from) + 1)
      [] OTHER -> TRUE

\* A quotient that fits never stops the emulator, but for one kind of dividend: a
\* doubleword in DX:AX with the upper bit set, which div takes for a negative
\* number (instruction_f7, the assertions of fe_threadContext_div32 and idiv32).
OnlyWordDivisionAborts ==
  outcome = "aborted" =>
    start.task = "mulDiv" /\ start.w = "word" /\ s["ax"] * s["bx"] >= 2^(2 * n - 1)

\* Every such piece of code comes to its end: no repeated instruction outlives ecx.
Terminates == <>(Done \/ outcome = "aborted")

\* cbw and cwde keep the value of a negative number: "AX <- SignExtend(AL);"
\* (FEProcess.m:1264).  They do not.
SignsExtended ==
  Done /\ start.task = "extend" => Signed(2 * n, After) = Signed(n, s["ax"])
================================================================================
