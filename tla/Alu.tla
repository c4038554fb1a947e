---------------------------------- MODULE Alu ----------------------------------
(***************************************************************************)
(* Arithmetic of the interpreter: the alu of FEThreadContext.c, which runs   *)
(* the host's own instruction between a popf and a pushf, the products and   *)
(* quotients it computes itself, and the decimal instructions of the run     *)
(* loop of FEProcess.m.                                                     *)
(*                                                                         *)
(* Operands are n-bit numbers; a result is a number with the flags after it. *)
(* Flags Intel leaves undefined may come out either way, so the operators    *)
(* that have some return the set of possible results.                       *)
(***************************************************************************)
EXTENDS Integers, FiniteSets

CONSTANT Bits   \* "byte", "word", "dword" -> bits of a k8bit, k16bit, k32bit value

ASSUME BitsAssumption ==
  /\ Bits \in [{"byte", "word", "dword"} -> Nat \ {0}]
  /\ Bits["byte"] = 8 /\ 8 < Bits["word"] /\ Bits["word"] < Bits["dword"]

--------------------------------------------------------------------------------
(* Numbers and flags *)

Flag == {"CF", "PF", "AF", "ZF", "SF", "OF", "DF"}

Bit(condition) == IF condition THEN 1 ELSE 0
BitAt(v, i) == (v \div 2^i) % 2
TopBit(n, v) == BitAt(v, n - 1)
Wrap(n, v) == v % 2^n
Signed(n, v) == v - TopBit(n, v) * 2^n
Pair(n, high, low) == high * 2^n + low

FillParityFromByte(byte) == Bit(Cardinality({i \in 0..7 : BitAt(byte, i) = 1}) % 2 = 0)
SignAndParity(n, v, f) == [f EXCEPT !.SF = TopBit(n, v), !.PF = FillParityFromByte(Wrap(8, v))]
ByResult(n, v, f) == [SignAndParity(n, v, f) EXCEPT !.ZF = Bit(v = 0)]

--------------------------------------------------------------------------------
(* ALU_IMP_2arg_op, ALU_IMP_1arg_op *)

Sum(n, a, b, carry, f) ==
  LET v == Wrap(n, a + b + carry) IN
  [value |-> v,
   flags |-> [ByResult(n, v, f) EXCEPT
                !.CF = Bit(a + b + carry >= 2^n),
                !.AF = Bit((a % 16) + (b % 16) + carry >= 16),
                !.OF = Bit(Signed(n, a) + Signed(n, b) + carry # Signed(n, v))]]

\* mutant: a comparison made by adding the negated operand
NegatedSum(n, a, b, borrow, f) == Sum(n, a, 2^n - b - borrow, 0, f)

Difference(n, a, b, borrow, f) ==
  LET v == Wrap(n, a - b - borrow) IN
  [value |-> v,
   flags |-> [ByResult(n, v, f) EXCEPT
                !.CF = Bit(a < b + borrow),
                !.AF = Bit(a % 16 < (b % 16) + borrow),
                !.OF = Bit(Signed(n, a) - Signed(n, b) - borrow # Signed(n, v))]]

\* The number whose bits, from the lowest, are digits[0] to digits[n - 1].
FromBits(n, digits) ==
  LET upTo[i \in 0..n] == IF i = 0 THEN 0 ELSE upTo[i - 1] + digits[i - 1] * 2^(i - 1)
  IN upTo[n]
Bitwise(n, Chosen(_, _), a, b) ==
  FromBits(n, [i \in 0..(n - 1) |-> Bit(Chosen(BitAt(a, i), BitAt(b, i)))])
Logic(n, v, f) ==
  {[value |-> v, flags |-> [ByResult(n, v, f) EXCEPT !.CF = 0, !.OF = 0, !.AF = af]] : af \in {0, 1}}

\* The carry flag the host starts from is the guest's, for adc and sbb.
TwoOperands(op, n, a, b, f) ==
  CASE op = "add" -> {Sum(n, a, b, 0, f)}
    [] op = "adc" -> {Sum(n, a, b, f.CF, f)}
    [] op \in {"sub", "cmp"} -> {Difference(n, a, b, 0, f)}
    [] op = "sbb" -> {Difference(n, a, b, f.CF, f)}
    [] op \in {"and", "test"} -> Logic(n, Bitwise(n, LAMBDA x, y : x + y = 2, a, b), f)
    [] op = "or" -> Logic(n, Bitwise(n, LAMBDA x, y : x + y >= 1, a, b), f)
    [] op = "xor" -> Logic(n, Bitwise(n, LAMBDA x, y : x # y, a, b), f)

\* inc and dec leave the carry flag alone, not leaves them all.
LosingCarry(result, f) == result   \* mutant: inc and dec as add and sub of 1
KeepingCarry(result, f) == [result EXCEPT !.flags.CF = f.CF]
OneOperand(op, n, a, f) ==
  CASE op = "inc" -> KeepingCarry(Sum(n, a, 1, 0, f), f)
    [] op = "dec" -> KeepingCarry(Difference(n, a, 1, 0, f), f)
    [] op = "not" -> [value |-> 2^n - 1 - a, flags |-> f]
    [] op = "neg" -> Difference(n, 0, a, 0, f)

--------------------------------------------------------------------------------
(* ALU_IMP_2arg_cl_based_op: the host masks the count to 5 bits, less than a *)
(* dword has but more than a byte or a word                                 *)

Count(b) == b % Bits["dword"]

\* The result of a shift by c, and its carry where it is defined.
Shifted(op, n, a, c) ==
  CASE op = "shl" -> [value |-> IF c >= n THEN 0 ELSE Wrap(n, a * 2^c),
                      carry |-> IF c >= n THEN {0, 1} ELSE {BitAt(a, n - c)}]
    [] op = "shr" -> [value |-> a \div 2^c,
                      carry |-> IF c >= n THEN {0, 1} ELSE {BitAt(a, c - 1)}]
    [] op = "sar" -> [value |-> Wrap(n, Signed(n, a) \div 2^c),
                      carry |-> {(Signed(n, a) \div 2^(c - 1)) % 2}]

RotateLeft(n, a, r) == Wrap(n, a * 2^r) + a \div 2^(n - r)
Rotated(op, n, a, c, f) ==
  LET through(by) == RotateLeft(n + 1, Pair(n, f.CF, a), by)
      r == CASE op = "rol" -> RotateLeft(n, a, c % n)
             [] op = "ror" -> RotateLeft(n, a, (n - (c % n)) % n)
             [] op = "rcl" -> through(c % (n + 1))
             [] op = "rcr" -> through((n + 1 - (c % (n + 1))) % (n + 1))
  IN [value |-> Wrap(n, r),
      carry |-> CASE op = "rol" -> r % 2
                  [] op = "ror" -> TopBit(n, r)
                  [] op \in {"rcl", "rcr"} -> r \div 2^n]

\* OF, which only a count of 1 defines: the sign changed (sar never changes it).
OverflowOf(n, a, v, c) == IF c = 1 THEN {Bit(TopBit(n, a) # TopBit(n, v))} ELSE {0, 1}

\* A rotation leaves the flags that tell of the result alone.
ShiftResult(n, v, f, cf, of, af) ==
  [value |-> v, flags |-> [ByResult(n, v, f) EXCEPT !.CF = cf, !.OF = of, !.AF = af]]
RotateResult(v, f, cf, of) == [value |-> v, flags |-> [f EXCEPT !.CF = cf, !.OF = of]]

Shift(op, n, a, b, f) ==
  LET c == Count(b) IN
  IF c = 0 THEN {[value |-> a, flags |-> f]}
  ELSE IF op \in {"shl", "shr", "sar"} THEN
    LET s == Shifted(op, n, a, c) IN
    {ShiftResult(n, s.value, f, cf, of, af) :
       cf \in s.carry, of \in OverflowOf(n, a, s.value, c), af \in {0, 1}}
  ELSE
    LET s == Rotated(op, n, a, c, f) IN
    {RotateResult(s.value, f, s.carry, of) : of \in OverflowOf(n, a, s.value, c)}

--------------------------------------------------------------------------------
(* Products and quotients: ZF and AF are left alone, the quotients set no flag *)

Product(n, r, overflow, f) ==
  [value |-> Wrap(2 * n, r),
   flags |-> [SignAndParity(n, Wrap(n, r), f) EXCEPT !.CF = Bit(overflow), !.OF = Bit(overflow)]]
Mul32(n, a, b, f) == Product(n, a * b, a * b >= 2^n, f)
Imul32(n, a, b, f) ==
  LET r == Signed(n, a) * Signed(n, b) IN Product(n, r, Signed(n, Wrap(n, r)) # r, f)

\* Division in C rounds towards zero.
Sign(x) == IF x < 0 THEN -1 ELSE 1
Magnitude(x) == Sign(x) * x
Quotient(x, y) == Sign(x) * Sign(y) * (Magnitude(x) \div Magnitude(y))
Remainder(x, y) == x - y * Quotient(x, y)

\* The quotient and the remainder; the assertions reject 0 and what is too large.
Div32AcceptsLess(n, x, y) == y # 0 /\ x \div y < 2^n - 1   \* mutant: >= 0xff for > 0xff
Div32Accepts(n, x, y) == y # 0 /\ x \div y < 2^n
Idiv32Accepts(n, x, y) == y # 0 /\ Quotient(x, y) \in (-2^(n - 1))..(2^(n - 1) - 1)
QuotientAndRemainder(n, x, y) ==
  [quotient |-> Wrap(n, Quotient(x, y)), remainder |-> Wrap(n, Remainder(x, y))]

\* cbw and cwde: the lower half of a register made as wide as the register.
\* The upper bits are joined to a negative value with &, which clears them all.
SignExtended(n, v) ==
  IF TopBit(n, v) = 0 THEN v
  ELSE Bitwise(2 * n, LAMBDA x, y : x + y = 2, Pair(n, 2^n - 1, 0), v)

\* cwd and cdq: the register above the accumulator.
SignSpread(n, v) == IF TopBit(n, v) = 0 THEN 0 ELSE 2^n - 1

--------------------------------------------------------------------------------
(* Decimal instructions, on the byte AL and AH above it *)

Decimal(ah, al, tested, f) == [ah |-> ah, al |-> al, flags |-> ByResult(8, tested, f)]
Adjusts(al, f) == al % 16 > 9 \/ f.AF = 1
AdjustsHighFrom99(al, f) == al >= 153 \/ f.CF = 1   \* mutant: >= 99H for > 99H
AdjustsHigh(al, f) == al > 153 \/ f.CF = 1

Daa(ah, al, f) ==
  LET low == IF Adjusts(al, f) THEN al + 6 ELSE al
      sum == Wrap(8, IF AdjustsHigh(al, f) THEN low + 96 ELSE low)
  IN Decimal(ah, sum, sum, [f EXCEPT !.AF = Bit(Adjusts(al, f)), !.CF = Bit(AdjustsHigh(al, f))])

Das(ah, al, f) ==
  LET low == IF Adjusts(al, f) THEN al - 6 ELSE al
      rest == Wrap(8, IF AdjustsHigh(al, f) THEN low - 96 ELSE low)
      borrow == AdjustsHigh(al, f) \/ (Adjusts(al, f) /\ al < 6)
  IN Decimal(ah, rest, rest, [f EXCEPT !.AF = Bit(Adjusts(al, f)), !.CF = Bit(borrow)])

\* aaa adds 106H to AX, and looks at AL before its upper digit is cleared.
Aaa(ah, al, f) ==
  LET ax == Wrap(16, Pair(8, ah, al) + (IF Adjusts(al, f) THEN 262 ELSE 0))
      carry == Bit(Adjusts(al, f))
  IN Decimal(ax \div 256, ax % 16, ax % 256, [f EXCEPT !.AF = carry, !.CF = carry])

Aas(ah, al, f) ==
  LET ax == Wrap(16, Pair(8, ah, al) - (IF Adjusts(al, f) THEN 6 ELSE 0))
      carry == Bit(Adjusts(al, f))
  IN Decimal(Wrap(8, ax \div 256 - carry), ax % 16, ax % 16, [f EXCEPT !.AF = carry, !.CF = carry])

Aam(ah, al, f) == Decimal(al \div 10, al % 10, al % 10, f)
Aad(ah, al, f) == LET v == Wrap(8, al + ah * 10) IN Decimal(0, v, v, f)
================================================================================
