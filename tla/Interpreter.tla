------------------------------ MODULE Interpreter ------------------------------
(***************************************************************************)
(* The run loop of FEProcess.m over one guest thread: registers, flags, a    *)
(* memory of bytes, and the instructions that compute, compare and repeat.   *)
(* Calls, the stack and the decoding of instructions are in GuestCalls and   *)
(* DisasmCache; here the code is a sequence of decoded instructions.         *)
(*                                                                         *)
(* "ax" is AL, AX or EAX and "dx" the register the wide instructions pair    *)
(* with it: AH above AL, DX above AX, EDX above EAX.                         *)
(***************************************************************************)
EXTENDS Alu, Sequences

VARIABLES
  code,     \* the decoded instructions
  pc,       \* position of the instruction at eip
  regs,     \* register -> value
  flags,    \* cpuFlags
  mem,      \* address -> byte
  outcome   \* "running", or the emulator stopped at an assertion

machine == <<code, pc, regs, flags, mem, outcome>>

Register == {"ax", "dx", "bx", "bp", "ecx", "esi", "edi"}

--------------------------------------------------------------------------------
(* Operands *)

Instruction == code[pc]
Runs(ops) == outcome = "running" /\ pc <= Len(code) /\ Instruction.op \in ops
Width == Bits[Instruction.w]

\* beu_load_arg_value: a register of the width asked for, or an immediate,
\* which is sign-extended first.
Load(n, arg) == IF "imm" \in DOMAIN arg THEN Wrap(n, arg.imm) ELSE Wrap(n, regs[arg.reg])

\* beu_store_value_in_arg: the bits of the register above the width stay.
StoredOver(file, n, arg, value) ==   \* mutant: the old bits are not cleared first
  [file EXCEPT ![arg.reg] = @ + value]
Stored(file, n, arg, value) ==
  [file EXCEPT ![arg.reg] = @ - Wrap(n, @) + value]

\* jump_to_next_instr
NextInstruction == pc' = pc + 1

--------------------------------------------------------------------------------
(* Arithmetic and moves *)

\* The host's instruction on two values: the flags it leaves, and its result in dst.
Computes(op, a, b) ==
  \E r \in TwoOperands(op, Width, a, b, flags) :
    /\ flags' = r.flags
    /\ regs' = IF op \in {"cmp", "test"} THEN regs ELSE Stored(regs, Width, Instruction.dst, r.value)

TwoOperandInstruction ==
  /\ Runs({"add", "adc", "sub", "sbb", "and", "or", "xor"})
  /\ Computes(Instruction.op, Load(Width, Instruction.dst), Load(Width, Instruction.src))
  /\ NextInstruction
  /\ UNCHANGED <<code, mem, outcome>>

\* cmp and test keep the flags only.
CompareInstruction ==
  /\ Runs({"cmp", "test"})
  /\ Computes(Instruction.op, Load(Width, Instruction.dst), Load(Width, Instruction.src))
  /\ NextInstruction
  /\ UNCHANGED <<code, mem, outcome>>

\* 80, 81 and 83: a digit of the encoding says what is done with the immediate.
Digit == <<"add", "or", "adc", "sbb", "and", "sub", "xor", "cmp">>

ImmediateInstruction ==
  /\ Runs({"81"})
  /\ Computes(Digit[Instruction.digit + 1], Load(Width, Instruction.dst), Load(Width, Instruction.src))
  /\ NextInstruction
  /\ UNCHANGED <<code, mem, outcome>>

\* The immediate of 83 is a byte, and signed.
ShortImmediateInstruction ==
  LET b == Wrap(Width, Signed(Bits["byte"], Load(Bits["byte"], Instruction.src))) IN
  /\ Runs({"83"})
  /\ Computes(Digit[Instruction.digit + 1], Load(Width, Instruction.dst), b)
  /\ NextInstruction
  /\ UNCHANGED <<code, mem, outcome>>

OneOperandInstruction ==
  LET r == OneOperand(Instruction.op, Width, Load(Width, Instruction.dst), flags) IN
  /\ Runs({"inc", "dec", "not", "neg"})
  /\ flags' = r.flags
  /\ regs' = Stored(regs, Width, Instruction.dst, r.value)
  /\ NextInstruction
  /\ UNCHANGED <<code, mem, outcome>>

\* The count is a byte: an immediate, 1 or CL.
ShiftInstruction ==
  /\ Runs({"shl", "shr", "sar", "rol", "ror", "rcl", "rcr"})
  /\ \E r \in Shift(Instruction.op, Width, Load(Width, Instruction.dst),
                    Load(Bits["byte"], Instruction.src), flags) :
       /\ flags' = r.flags
       /\ regs' = Stored(regs, Width, Instruction.dst, r.value)
  /\ NextInstruction
  /\ UNCHANGED <<code, mem, outcome>>

\* mov; movzx and movsx read a byte.
Moved(op, n) ==
  CASE op = "mov" -> Load(n, Instruction.src)
    [] op = "movzx" -> Load(Bits["byte"], Instruction.src)
    [] op = "movsx" -> Wrap(n, Signed(Bits["byte"], Load(Bits["byte"], Instruction.src)))

MoveInstruction ==
  /\ Runs({"mov", "movzx", "movsx"})
  /\ regs' = Stored(regs, Width, Instruction.dst, Moved(Instruction.op, Width))
  /\ NextInstruction
  /\ UNCHANGED <<code, flags, mem, outcome>>

ExchangeInstruction ==
  LET first == Load(Width, Instruction.dst)
      second == Load(Width, Instruction.src)
  IN
  /\ Runs({"xchg"})
  /\ regs' = Stored(Stored(regs, Width, Instruction.dst, second), Width, Instruction.src, first)
  /\ NextInstruction
  /\ UNCHANGED <<code, flags, mem, outcome>>

--------------------------------------------------------------------------------
(* Products, quotients and signs: what is paired is ax and dx *)

Low == Wrap(Width, regs["ax"])
High == Wrap(Width, regs["dx"])
SetPair(file, high, low) ==
  Stored(Stored(file, Width, [reg |-> "ax"], low), Width, [reg |-> "dx"], high)

MultiplyInstruction ==
  LET b == Load(Width, Instruction.src)
      r == IF Instruction.op = "mul" THEN Mul32(Width, Low, b, flags)
           ELSE Imul32(Width, Low, b, flags)
  IN
  /\ Runs({"mul", "imul"})
  /\ flags' = r.flags
  /\ regs' = SetPair(regs, r.value \div 2^Width, Wrap(Width, r.value))
  /\ NextInstruction
  /\ UNCHANGED <<code, mem, outcome>>

\* The imul of two or three operands keeps the lower half only.
MultiplyToRegister ==
  LET r == Imul32(Width, Load(Width, Instruction.left), Load(Width, Instruction.src), flags) IN
  /\ Runs({"imulTo"})
  /\ flags' = r.flags
  /\ regs' = Stored(regs, Width, Instruction.dst, Wrap(Width, r.value))
  /\ NextInstruction
  /\ UNCHANGED <<code, mem, outcome>>

\* The dividend of div: a word's DX:AX is sign-extended on its way to uint64_t.
UnsignedDividend ==
  LET whole == Pair(Width, High, Low) IN
  IF Instruction.w = "word" THEN Wrap(2 * Bits["dword"], Signed(2 * Width, whole)) ELSE whole
SignedDividend == Signed(2 * Width, Pair(Width, High, Low))

Divides(accepted, x, y) ==
  LET r == QuotientAndRemainder(Width, x, y) IN
  /\ IF accepted
     THEN /\ regs' = SetPair(regs, r.remainder, r.quotient)
          /\ NextInstruction
          /\ UNCHANGED outcome
     ELSE outcome' = "aborted" /\ UNCHANGED <<pc, regs>>
  /\ UNCHANGED <<code, flags, mem>>

DivideInstruction ==
  LET y == Load(Width, Instruction.src) IN
  /\ Runs({"div"})
  /\ Divides(Div32Accepts(Width, UnsignedDividend, y), UnsignedDividend, y)

SignedDivideInstruction ==
  LET y == Signed(Width, Load(Width, Instruction.src)) IN
  /\ Runs({"idiv"})
  /\ Divides(Idiv32Accepts(Width, SignedDividend, y), SignedDividend, y)

\* cbw and cwde; the pair is the halves of AX or of EAX.
ExtendInstruction ==
  LET v == SignExtended(Width, Low) IN
  /\ Runs({"cbw"})
  /\ regs' = SetPair(regs, v \div 2^Width, Wrap(Width, v))
  /\ NextInstruction
  /\ UNCHANGED <<code, flags, mem, outcome>>

\* cwd and cdq
SpreadInstruction ==
  /\ Runs({"cwd"})
  /\ regs' = SetPair(regs, SignSpread(Width, Low), Low)
  /\ NextInstruction
  /\ UNCHANGED <<code, flags, mem, outcome>>

DecimalResult(op, ah, al, f) ==
  CASE op = "daa" -> Daa(ah, al, f) [] op = "das" -> Das(ah, al, f)
    [] op = "aaa" -> Aaa(ah, al, f) [] op = "aas" -> Aas(ah, al, f)
    [] op = "aam" -> Aam(ah, al, f) [] op = "aad" -> Aad(ah, al, f)

DecimalInstruction ==
  LET r == DecimalResult(Instruction.op, High, Low, flags) IN
  /\ Runs({"daa", "das", "aaa", "aas", "aam", "aad"})
  /\ regs' = SetPair(regs, r.ah, r.al)
  /\ flags' = r.flags
  /\ NextInstruction
  /\ UNCHANGED <<code, mem, outcome>>

--------------------------------------------------------------------------------
(* Conditions: the same sixteen after j, cmov and set *)

Condition == {"o", "no", "b", "nb", "z", "nz", "be", "nbe", "s", "ns", "p", "np", "l", "nl", "le", "nle"}

Holds(cc, f) ==
  CASE cc = "o" -> f.OF = 1                    [] cc = "no" -> f.OF = 0
    [] cc = "b" -> f.CF = 1                    [] cc = "nb" -> f.CF = 0
    [] cc = "z" -> f.ZF = 1                    [] cc = "nz" -> f.ZF = 0
    [] cc = "be" -> f.CF = 1 \/ f.ZF = 1       [] cc = "nbe" -> f.CF = 0 /\ f.ZF = 0
    [] cc = "s" -> f.SF = 1                    [] cc = "ns" -> f.SF = 0
    [] cc = "p" -> f.PF = 1                    [] cc = "np" -> f.PF = 0
    [] cc = "l" -> f.SF # f.OF                 [] cc = "nl" -> f.SF = f.OF
    [] cc = "le" -> f.ZF = 1 \/ f.SF # f.OF    [] cc = "nle" -> f.ZF = 0 /\ f.SF = f.OF

\* jcc
JumpIf ==
  /\ Runs({"j"})
  /\ pc' = IF Holds(Instruction.cc, flags) THEN Instruction.to ELSE pc + 1
  /\ UNCHANGED <<code, regs, flags, mem, outcome>>

\* cmovcc
MoveIf ==
  /\ Runs({"cmov"})
  /\ regs' = IF Holds(Instruction.cc, flags)
             THEN Stored(regs, Width, Instruction.dst, Load(Width, Instruction.src)) ELSE regs
  /\ NextInstruction
  /\ UNCHANGED <<code, flags, mem, outcome>>

\* setcc: a byte
SetIf ==
  /\ Runs({"set"})
  /\ regs' = Stored(regs, Bits["byte"], Instruction.dst, Bit(Holds(Instruction.cc, flags)))
  /\ NextInstruction
  /\ UNCHANGED <<code, flags, mem, outcome>>

\* cld, std and cmc
FlagInstruction ==
  /\ Runs({"cld", "std", "cmc"})
  /\ flags' = CASE Instruction.op = "cld" -> [flags EXCEPT !.DF = 0]
                [] Instruction.op = "std" -> [flags EXCEPT !.DF = 1]
                [] Instruction.op = "cmc" -> [flags EXCEPT !.CF = 1 - @]
  /\ NextInstruction
  /\ UNCHANGED <<code, regs, mem, outcome>>

--------------------------------------------------------------------------------
(* String instructions, on bytes; an address outside mem is never reached *)

Repeats == Instruction.rep # "none"
Exhausted == Repeats /\ regs["ecx"] = 0
StringRuns(op, pointers) ==
  /\ Runs({op}) /\ ~ Exhausted
  /\ \A p \in pointers : regs[p] \in DOMAIN mem

\* repxx_prefix
SkipRepeat ==
  /\ Runs({"movs", "stos", "lods", "scas", "cmps"})
  /\ Exhausted
  /\ NextInstruction
  /\ UNCHANGED <<code, regs, flags, mem, outcome>>

\* The pointers move by one element, up or down as DF says.
Step(f) == IF f.DF = 0 THEN 1 ELSE -1
Moving(pointers) ==
  [r \in Register |-> IF r \in pointers THEN Wrap(Bits["dword"], regs[r] + Step(flags)) ELSE regs[r]]

\* repxx_postfix: repne looks at ZF after every instruction, rep only after the
\* two that compare.
LeavesAlways(f) ==   \* mutant: rep looks at ZF after every instruction
  \/ ~ Repeats
  \/ Instruction.rep = "repne" /\ f.ZF = 1
  \/ Instruction.rep = "rep" /\ f.ZF = 0
Leaves(f) ==
  \/ ~ Repeats
  \/ Instruction.rep = "repne" /\ f.ZF = 1
  \/ Instruction.rep = "rep" /\ Instruction.op \in {"cmps", "scas"} /\ f.ZF = 0
RepeatUncounted(file, f) ==   \* mutant: ecx is not decremented
  /\ regs' = file
  /\ flags' = f
  /\ pc' = IF Leaves(f) THEN pc + 1 ELSE pc
Repeat(file, f) ==
  /\ regs' = IF Repeats THEN [file EXCEPT !["ecx"] = Wrap(Bits["dword"], @ - 1)] ELSE file
  /\ flags' = f
  /\ pc' = IF Leaves(f) THEN pc + 1 ELSE pc

Source == mem[regs["esi"]]
Target == mem[regs["edi"]]
AL == Wrap(Bits["byte"], regs["ax"])

Movs ==
  /\ StringRuns("movs", {"esi", "edi"})
  /\ mem' = [mem EXCEPT ![regs["edi"]] = Source]
  /\ Repeat(Moving({"esi", "edi"}), flags)
  /\ UNCHANGED <<code, outcome>>

Stos ==
  /\ StringRuns("stos", {"edi"})
  /\ mem' = [mem EXCEPT ![regs["edi"]] = AL]
  /\ Repeat(Moving({"edi"}), flags)
  /\ UNCHANGED <<code, outcome>>

Lods ==
  /\ StringRuns("lods", {"esi"})
  /\ Repeat(Stored(Moving({"esi"}), Bits["byte"], [reg |-> "ax"], Source), flags)
  /\ UNCHANGED <<code, mem, outcome>>

Scas ==
  /\ StringRuns("scas", {"edi"})
  /\ Repeat(Moving({"edi"}), Difference(Bits["byte"], AL, Target, 0, flags).flags)
  /\ UNCHANGED <<code, mem, outcome>>

\* The second argument of the decoder is [esi], the first [edi].
Cmps ==
  /\ StringRuns("cmps", {"esi", "edi"})
  /\ Repeat(Moving({"esi", "edi"}), Difference(Bits["byte"], Source, Target, 0, flags).flags)
  /\ UNCHANGED <<code, mem, outcome>>

--------------------------------------------------------------------------------
Execute ==
  \/ TwoOperandInstruction \/ CompareInstruction
  \/ ImmediateInstruction \/ ShortImmediateInstruction
  \/ OneOperandInstruction \/ ShiftInstruction
  \/ MoveInstruction \/ ExchangeInstruction
  \/ MultiplyInstruction \/ MultiplyToRegister \/ DivideInstruction \/ SignedDivideInstruction
  \/ ExtendInstruction \/ SpreadInstruction \/ DecimalInstruction
  \/ JumpIf \/ MoveIf \/ SetIf \/ FlagInstruction
  \/ SkipRepeat \/ Movs \/ Stos \/ Lods \/ Scas \/ Cmps
================================================================================
