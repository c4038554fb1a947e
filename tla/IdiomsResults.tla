----------------------------- MODULE IdiomsResults -----------------------------
(***************************************************************************)
(* What the idioms of Idioms compute, for registers of any width.  A lemma  *)
(* per idiom without jumps and repeats joins what its instructions make of the*)
(* registers (Traced); a comparison, which jumps, keeps an invariant of its *)
(* own from one instruction to the next (Compared).                         *)
(***************************************************************************)
EXTENDS IdiomsProofs

--------------------------------------------------------------------------------
(* Sums and differences with what they carry *)

LEMMA SumMeans ==
  ASSUME NEW k \in Nat, NEW a \in Number(k), NEW b \in Number(k), NEW carry \in {0, 1}, NEW f, NEW r,
         SumLeaves(k, a, b, carry, f, r)
  PROVE  /\ r.value \in Number(k) /\ r.flags.CF \in {0, 1}
         /\ r.value + r.flags.CF * 2^k = (a + b) + carry
         /\ r.value \in Int /\ a \in Int /\ b \in Int
<1> DEFINE p == 2^k
           v == r.value
           c == r.flags.CF
<1>1. v \in 0..(p - 1) /\ c \in {0, 1} /\ v = a + b + carry - c * p /\ p \in Int /\ a \in Int /\ b \in Int
  BY PowerType DEF SumLeaves, Results, FlagFile, Flag, Number
<1> HIDE DEF p, v, c
<1>2. v + c * p = (a + b) + carry /\ v \in Int
  BY <1>1
<1> QED
  BY <1>1, <1>2 DEF p, v, c, Number

LEMMA DifferenceMeans ==
  ASSUME NEW k \in Nat, NEW a \in Number(k), NEW b \in Number(k), NEW carry \in {0, 1}, NEW f, NEW r,
         DifferenceLeaves(k, a, b, carry, f, r)
  PROVE  /\ r.value \in Number(k) /\ r.flags.CF \in {0, 1}
         /\ r.value - r.flags.CF * 2^k = (a - b) - carry
         /\ r.value \in Int /\ a \in Int /\ b \in Int
<1> DEFINE p == 2^k
           v == r.value
           c == r.flags.CF
           d == a - b - carry
<1>1. v \in 0..(p - 1) /\ c \in {0, 1} /\ v = d + c * p /\ p \in Int /\ a \in Int /\ b \in Int
  BY PowerType DEF DifferenceLeaves, Results, FlagFile, Flag, Number
<1>2. d = (a - b) - carry
  BY <1>1
<1> HIDE DEF p, v, c, d
<1>3. v - c * p = d /\ v \in Int
  <2>1. d \in Int
    BY <1>1, <1>2
  <2> QED
    BY <1>1, <2>1
<1> QED
  BY <1>1, <1>2, <1>3 DEF p, v, c, Number

Adds(a, b, k, d, y, carry) ==
  /\ b.regs[d] \in Number(k) /\ b.flags.CF \in {0, 1} /\ Kept(a, b, d)
  /\ b.regs[d] + b.flags.CF * 2^k = (a.regs[d] + y) + carry
Takes(a, b, k, d, y, borrow) ==
  /\ b.regs[d] \in Number(k) /\ b.flags.CF \in {0, 1} /\ Kept(a, b, d)
  /\ b.regs[d] - b.flags.CF * 2^k = (a.regs[d] - y) - borrow

LEMMA CarryIs ==
  ASSUME NEW a \in State
  PROVE  a.flags.CF \in {0, 1} /\ a.flags \in FlagFile /\ a.regs \in RegFile
BY DEF State, FlagFile, Flag

\* What the four of them make of register d and y, whatever y came from.
LEMMA SumsMean ==
  ASSUME NEW a \in State, NEW b, NEW k \in Nat, NEW d, Narrow(a, k, d), NEW y \in Number(k), NEW op,
         NEW r, TwoOperandsLeave(op, k, a.regs[d], y, a.flags, r), Becomes(a, b, d, r.value), b.flags = r.flags
  PROVE  /\ op = "add" => Adds(a, b, k, d, y, 0)
         /\ op = "adc" => Adds(a, b, k, d, y, a.flags.CF)
         /\ op = "sub" => Takes(a, b, k, d, y, 0)
         /\ op = "sbb" => Takes(a, b, k, d, y, a.flags.CF)
<1>1. a.flags.CF \in {0, 1} /\ 0 \in {0, 1} /\ a.regs[d] \in Number(k)
  BY CarryIs DEF Narrow
<1>2. ASSUME NEW c \in {0, 1}, SumLeaves(k, a.regs[d], y, c, a.flags, r)
      PROVE  Adds(a, b, k, d, y, c)
  BY <1>1, <1>2, SumMeans DEF Adds, Becomes
<1>3. ASSUME NEW c \in {0, 1}, DifferenceLeaves(k, a.regs[d], y, c, a.flags, r)
      PROVE  Takes(a, b, k, d, y, c)
  BY <1>1, <1>3, DifferenceMeans DEF Takes, Becomes
<1>4. /\ op = "add" => SumLeaves(k, a.regs[d], y, 0, a.flags, r)
      /\ op = "adc" => SumLeaves(k, a.regs[d], y, a.flags.CF, a.flags, r)
      /\ op = "sub" => DifferenceLeaves(k, a.regs[d], y, 0, a.flags, r)
      /\ op = "sbb" => DifferenceLeaves(k, a.regs[d], y, a.flags.CF, a.flags, r)
  BY DEF TwoOperandsLeave
<1> QED
  BY <1>1, <1>2, <1>3, <1>4

LEMMA SumOfRegisters ==
  ASSUME NEW a \in State, NEW b \in State, NEW w \in Widths, NEW d, Narrow(a, Bits[w], d), NEW e, Narrow(a, Bits[w], e),
         NEW op \in {"add", "adc", "sub", "sbb"}, Does(I(op, w, R(d), R(e)), a, b)
  PROVE  /\ op = "add" => Adds(a, b, Bits[w], d, a.regs[e], 0)
         /\ op = "adc" => Adds(a, b, Bits[w], d, a.regs[e], a.flags.CF)
         /\ op = "sub" => Takes(a, b, Bits[w], d, a.regs[e], 0)
         /\ op = "sbb" => Takes(a, b, Bits[w], d, a.regs[e], a.flags.CF)
<1>1. op \in TwoNames /\ Bits[w] \in Nat /\ a.regs[e] \in Number(Bits[w])
  BY WidthFacts DEF TwoNames, Narrow
<1>2. PICK r \in Results(Bits[w]) : /\ TwoOperandsLeave(op, Bits[w], a.regs[d], a.regs[e], a.flags, r)
                                     /\ Becomes(a, b, d, r.value) /\ b.flags = r.flags
  BY <1>1, TwoRegisters
<1> QED
  BY <1>1, <1>2, SumsMean, Zenon

LEMMA SumKeeps ==
  ASSUME NEW a, NEW b, NEW k, NEW d, NEW y, NEW c, Adds(a, b, k, d, y, c) \/ Takes(a, b, k, d, y, c), Halves(a, k), d \in Register
  PROVE  Halves(b, k) /\ \A e \in Register : e # d => b.regs[e] = a.regs[e]
BY DEF Halves, Narrow, Kept, Adds, Takes

LEMMA CountsKeepCarry ==
  ASSUME NEW a \in State, NEW b \in State, NEW op \in {"inc", "dec"}, Does(I(op, "dword", R("ecx"), R("ecx")), a, b)
  PROVE  Kept(a, b, "ecx") /\ b.flags.CF = a.flags.CF
<1>1. "dword" \in Widths /\ Narrow(a, Bits["dword"], "ecx")
  BY Registers DEF Widths, Narrow, State, RegFile
<1>2. PICK r \in Results(Bits["dword"]) : /\ OneOperandLeaves(op, Bits["dword"], a.regs["ecx"], a.flags, r)
                                          /\ Becomes(a, b, "ecx", r.value) /\ b.flags = r.flags
  BY <1>1, OneRegister
<1>3. r.flags.CF = a.flags.CF
  BY <1>2 DEF OneOperandLeaves
<1> QED
  BY <1>2, <1>3 DEF Becomes

--------------------------------------------------------------------------------
(* Wide arithmetic, idiom by idiom *)

LEMMA HalfFacts ==
  ASSUME NEW w \in Widths, NEW a, Halves(a, Bits[w])
  PROVE  /\ Bits[w] \in Nat /\ Bits[w] > 1 /\ 2^Bits[w] \in Int /\ 2^Bits[w] > 0
         /\ 2^(2 * Bits[w]) = 2^Bits[w] * 2^Bits[w]
         /\ a.regs["ax"] \in 0..(2^Bits[w] - 1) /\ a.regs["dx"] \in 0..(2^Bits[w] - 1)
         /\ a.regs["bx"] \in 0..(2^Bits[w] - 1) /\ a.regs["bp"] \in 0..(2^Bits[w] - 1)
         /\ a.regs["ax"] \in Int /\ a.regs["dx"] \in Int /\ a.regs["bx"] \in Int /\ a.regs["bp"] \in Int
<1> DEFINE k == Bits[w]
           p == 2^k
<1>1. k \in Nat /\ k > 1
  BY WidthFacts
<1>2. p \in Int /\ p > 0 /\ 2^(2 * k) = p * p
  BY <1>1, PowerType, DoubleWidth
<1>3. a.regs["ax"] \in 0..(p - 1) /\ a.regs["dx"] \in 0..(p - 1) /\ a.regs["bx"] \in 0..(p - 1) /\ a.regs["bp"] \in 0..(p - 1)
  BY DEF Halves, Narrow, Number
<1> HIDE DEF p
<1>4. a.regs["ax"] \in Int /\ a.regs["dx"] \in Int /\ a.regs["bx"] \in Int /\ a.regs["bp"] \in Int
  BY <1>2, <1>3
<1> QED
  BY <1>1, <1>2, <1>3, <1>4 DEF p, k

LEMMA CountStep ==
  ASSUME NEW w \in Widths, NEW a \in State, NEW b \in State, Halves(a, Bits[w]), NEW op \in {"inc", "dec"},
         Does(I(op, "dword", R("ecx"), R("ecx")), a, b)
  PROVE  /\ Halves(b, Bits[w]) /\ b.flags.CF = a.flags.CF
         /\ b.regs["ax"] = a.regs["ax"] /\ b.regs["dx"] = a.regs["dx"]
         /\ b.regs["bx"] = a.regs["bx"] /\ b.regs["bp"] = a.regs["bp"]
<1>1. Kept(a, b, "ecx") /\ b.flags.CF = a.flags.CF
  BY CountsKeepCarry
<1> QED
  BY <1>1, Registers DEF Kept, Halves, Narrow

LEMMA AddResult ==
  ASSUME NEW w \in Widths, NEW a \in State, NEW b \in State, NEW c \in State, NEW d \in State, Halves(a, Bits[w]),
         Does(I("add", w, R("ax"), R("bx")), a, b), Does(I("dec", "dword", R("ecx"), R("ecx")), b, c),
         Does(I("adc", w, R("dx"), R("bp")), c, d)
  PROVE  Pair(Bits[w], d.regs["dx"], d.regs["ax"]) + 2^(2 * Bits[w]) * d.flags.CF
           = Pair(Bits[w], a.regs["dx"], a.regs["ax"]) + Pair(Bits[w], a.regs["bp"], a.regs["bx"])
<1> DEFINE k == Bits[w]
           p == 2^k
<1>1. Adds(a, b, k, "ax", a.regs["bx"], 0)
  BY SumOfRegisters DEF Halves
<1>2. Halves(b, k) /\ b.regs["dx"] = a.regs["dx"] /\ b.regs["bp"] = a.regs["bp"]
  BY <1>1, SumKeeps, Registers
<1>3. /\ Halves(c, k) /\ c.flags.CF = b.flags.CF /\ c.regs["ax"] = b.regs["ax"] /\ c.regs["dx"] = b.regs["dx"]
      /\ c.regs["bp"] = b.regs["bp"]
  BY <1>2, CountStep
<1>4. Adds(c, d, k, "dx", c.regs["bp"], c.flags.CF)
  BY <1>3, SumOfRegisters DEF Halves
<1>5. Halves(d, k) /\ d.regs["ax"] = c.regs["ax"]
  BY <1>3, <1>4, SumKeeps, Registers
<1>6. p \in Int /\ 2^(2 * k) = p * p
  BY HalfFacts
<1>7. /\ b.regs["ax"] + b.flags.CF * p = (a.regs["ax"] + a.regs["bx"]) + 0 /\ b.flags.CF \in {0, 1}
      /\ d.regs["dx"] + d.flags.CF * p = (c.regs["dx"] + c.regs["bp"]) + c.flags.CF /\ d.flags.CF \in {0, 1}
  BY <1>1, <1>4 DEF Adds
<1>8. /\ a.regs["ax"] \in Int /\ a.regs["dx"] \in Int /\ a.regs["bx"] \in Int /\ a.regs["bp"] \in Int
      /\ d.regs["ax"] \in Int /\ d.regs["dx"] \in Int
  BY <1>5, HalfFacts
<1> DEFINE ax0 == a.regs["ax"]
           dx0 == a.regs["dx"]
           bx0 == a.regs["bx"]
           bp0 == a.regs["bp"]
           low == d.regs["ax"]
           high == d.regs["dx"]
           half == b.flags.CF
           carry == d.flags.CF
<1>9. /\ low + half * p = (ax0 + bx0) + 0 /\ high + carry * p = (dx0 + bp0) + half
      /\ low \in Int /\ high \in Int /\ ax0 \in Int /\ bx0 \in Int /\ dx0 \in Int /\ bp0 \in Int
      /\ half \in {0, 1} /\ carry \in {0, 1}
  BY <1>2, <1>3, <1>5, <1>7, <1>8
<1> HIDE DEF p, k, low, high, half, carry, ax0, dx0, bx0, bp0
<1>10. (high * p + low) + (p * p) * carry = (dx0 * p + ax0) + (bp0 * p + bx0)
  <2>1. low = (ax0 + bx0) - half * p /\ high = (dx0 + bp0 + half) - carry * p
    BY <1>6, <1>9
  <2> QED
    BY <1>6, <1>9, <2>1
<1> QED
  BY <1>6, <1>10 DEF Pair, p, k, low, high, carry, ax0, dx0, bx0, bp0

\* An immediate of a wide instruction, when it is small or a power of two.
LEMMA SmallImmediates ==
  ASSUME NEW w \in Widths
  PROVE  LET k == Bits[w] IN
         /\ Wrap(k, 0) = 0 /\ Wrap(k, 1) = 1 /\ Wrap(k, 3) = 3
         /\ Wrap(k, -1) = 2^k - 1 /\ Wrap(k, -4) = 2^k - 4
         /\ Wrap(k, 2^(k - 1)) = 2^(k - 1)
         /\ 0 \in Number(k) /\ 1 \in Number(k) /\ 3 \in Number(k) /\ 2^k - 1 \in Number(k) /\ 2^k - 4 \in Number(k)
         /\ 2^(k - 1) \in Number(k) /\ 2^k = 2 * 2^(k - 1) /\ 2^(k - 1) \in Int /\ 2^(k - 1) > 2
<1> DEFINE k == Bits[w]
           p == 2^k
           h == 2^(k - 1)
<1>1. k \in Nat /\ k >= 8 /\ k > 0
  BY WidthFacts
<1>2. p \in Int /\ h \in Int /\ p = 2 * h
  BY <1>1, PowerType, PowerHalf
<1>3. h >= 128
  <2>1. 7 \in Nat /\ k - 1 \in Nat /\ 7 <= k - 1
    BY <1>1
  <2>2. 2^7 <= 2^(k - 1)
    BY <2>1, PowerOrder
  <2>3. 2^7 = 128
    OBVIOUS
  <2> QED
    BY <2>2, <2>3
<1>4. ASSUME NEW v \in 0..(p - 1)
      PROVE  Wrap(k, v) = v /\ v \in Number(k)
  BY <1>1, <1>4, WrapSmall DEF Number
<1>5. ASSUME NEW u \in {1, 4}
      PROVE  Wrap(k, -u) = p - u
  <2> DEFINE q == -1
             v == p - u
  <2>1. q \in Int /\ v \in Number(k) /\ -u = q * p + v
    BY <1>2, <1>3, <1>4
  <2> HIDE DEF q, v
  <2>2. Wrap(k, q * 2^k + v) = v
    BY <1>1, <2>1, WrapIs
  <2> QED
    BY <2>1, <2>2 DEF v
<1>6. /\ 0 \in 0..(p - 1) /\ 1 \in 0..(p - 1) /\ 3 \in 0..(p - 1) /\ p - 1 \in 0..(p - 1) /\ p - 4 \in 0..(p - 1)
      /\ h \in 0..(p - 1) /\ h > 2
  BY <1>2, <1>3
<1>7. Wrap(k, -1) = p - 1 /\ Wrap(k, -4) = p - 4
  BY <1>5
<1> HIDE DEF p, h
<1>8. /\ Wrap(k, 0) = 0 /\ Wrap(k, 1) = 1 /\ Wrap(k, 3) = 3 /\ Wrap(k, h) = h
      /\ 0 \in Number(k) /\ 1 \in Number(k) /\ 3 \in Number(k) /\ p - 1 \in Number(k) /\ p - 4 \in Number(k) /\ h \in Number(k)
  BY <1>4, <1>6
<1> QED
  BY <1>2, <1>6, <1>7, <1>8 DEF p, h, k

LEMMA SubResult ==
  ASSUME NEW w \in Widths, NEW a \in State, NEW b \in State, NEW c \in State, NEW d \in State, Halves(a, Bits[w]),
         Does(I("sub", w, R("ax"), R("bx")), a, b), Does(I("inc", "dword", R("ecx"), R("ecx")), b, c),
         Does(I("sbb", w, R("dx"), R("bp")), c, d)
  PROVE  Pair(Bits[w], d.regs["dx"], d.regs["ax"]) - 2^(2 * Bits[w]) * d.flags.CF
           = Pair(Bits[w], a.regs["dx"], a.regs["ax"]) - Pair(Bits[w], a.regs["bp"], a.regs["bx"])
<1> DEFINE k == Bits[w]
           p == 2^k
<1>1. Takes(a, b, k, "ax", a.regs["bx"], 0)
  BY SumOfRegisters DEF Halves
<1>2. Halves(b, k) /\ b.regs["dx"] = a.regs["dx"] /\ b.regs["bp"] = a.regs["bp"]
  BY <1>1, SumKeeps, Registers
<1>3. /\ Halves(c, k) /\ c.flags.CF = b.flags.CF /\ c.regs["ax"] = b.regs["ax"] /\ c.regs["dx"] = b.regs["dx"]
      /\ c.regs["bp"] = b.regs["bp"]
  BY <1>2, CountStep
<1>4. Takes(c, d, k, "dx", c.regs["bp"], c.flags.CF)
  BY <1>3, SumOfRegisters DEF Halves
<1>5. Halves(d, k) /\ d.regs["ax"] = c.regs["ax"]
  BY <1>3, <1>4, SumKeeps, Registers
<1>6. p \in Int /\ 2^(2 * k) = p * p
  BY HalfFacts
<1>7. /\ b.regs["ax"] - b.flags.CF * p = (a.regs["ax"] - a.regs["bx"]) - 0 /\ b.flags.CF \in {0, 1}
      /\ d.regs["dx"] - d.flags.CF * p = (c.regs["dx"] - c.regs["bp"]) - c.flags.CF /\ d.flags.CF \in {0, 1}
  BY <1>1, <1>4 DEF Takes
<1>8. /\ a.regs["ax"] \in Int /\ a.regs["dx"] \in Int /\ a.regs["bx"] \in Int /\ a.regs["bp"] \in Int
      /\ d.regs["ax"] \in Int /\ d.regs["dx"] \in Int
  BY <1>5, HalfFacts
<1> DEFINE ax0 == a.regs["ax"]
           dx0 == a.regs["dx"]
           bx0 == a.regs["bx"]
           bp0 == a.regs["bp"]
           low == d.regs["ax"]
           high == d.regs["dx"]
           half == b.flags.CF
           carry == d.flags.CF
<1>9. /\ low - half * p = (ax0 - bx0) - 0 /\ high - carry * p = (dx0 - bp0) - half
      /\ low \in Int /\ high \in Int /\ ax0 \in Int /\ bx0 \in Int /\ dx0 \in Int /\ bp0 \in Int
      /\ half \in {0, 1} /\ carry \in {0, 1}
  BY <1>2, <1>3, <1>5, <1>7, <1>8
<1> HIDE DEF p, k, low, high, half, carry, ax0, dx0, bx0, bp0
<1>10. (high * p + low) - (p * p) * carry = (dx0 * p + ax0) - (bp0 * p + bx0)
  <2>1. low = (ax0 - bx0) + half * p /\ high = (dx0 - bp0 - half) + carry * p
    BY <1>6, <1>9
  <2> QED
    BY <1>6, <1>9, <2>1
<1> QED
  BY <1>6, <1>10 DEF Pair, p, k, low, high, carry, ax0, dx0, bx0, bp0

\* add, adc, sub and sbb of an immediate
LEMMA SumWithImmediate ==
  ASSUME NEW w \in Widths, NEW a \in State, NEW b \in State, NEW d, Narrow(a, Bits[w], d), NEW v \in Int,
         NEW digit \in {0, 2, 3, 5},
         \/ Does(Digit81(digit, w, R(d), v), a, b)
         \/ Does(Digit83(digit, w, R(d), v), a, b) /\ -128 <= v /\ v < 128
  PROVE  LET y == Wrap(Bits[w], v) IN
         /\ digit = 0 => Adds(a, b, Bits[w], d, y, 0)
         /\ digit = 2 => Adds(a, b, Bits[w], d, y, a.flags.CF)
         /\ digit = 5 => Takes(a, b, Bits[w], d, y, 0)
         /\ digit = 3 => Takes(a, b, Bits[w], d, y, a.flags.CF)
<1> DEFINE k == Bits[w]
           y == Wrap(k, v)
<1>1. k \in Nat /\ y \in Number(k) /\ digit \in 0..6 /\ digit \in 0..7 /\ digit # 7
  BY WidthFacts, WrapType
<1>2. PICK r \in Results(k) : TwoOperandsLeave(Digit[digit + 1], k, a.regs[d], y, a.flags, r)
                              /\ Becomes(a, b, d, r.value) /\ b.flags = r.flags
  BY <1>1, WithImmediate, WithShortImmediate
<1> DEFINE op == Digit[digit + 1]
<1>3. /\ digit = 0 => op = "add"
      /\ digit = 2 => op = "adc"
      /\ digit = 5 => op = "sub"
      /\ digit = 3 => op = "sbb"
  BY DEF Digit
<1> HIDE DEF op, k, y
<1>4. /\ op = "add" => Adds(a, b, k, d, y, 0)
      /\ op = "adc" => Adds(a, b, k, d, y, a.flags.CF)
      /\ op = "sub" => Takes(a, b, k, d, y, 0)
      /\ op = "sbb" => Takes(a, b, k, d, y, a.flags.CF)
  BY <1>1, <1>2, SumsMean DEF op, k
<1> QED
  BY <1>3, <1>4 DEF k, y

LEMMA DecrementResult ==
  ASSUME NEW w \in Widths, NEW a \in State, NEW b \in State, NEW c \in State, Halves(a, Bits[w]),
         Does(Digit83(0, w, R("ax"), -1), a, b), Does(Digit83(2, w, R("dx"), -1), b, c)
  PROVE  Pair(Bits[w], c.regs["dx"], c.regs["ax"]) = Wrap(2 * Bits[w], Pair(Bits[w], a.regs["dx"], a.regs["ax"]) - 1)
<1> DEFINE k == Bits[w]
           p == 2^k
<1>0. Wrap(k, -1) = p - 1 /\ -1 \in Int /\ -128 <= -1 /\ -1 < 128
  BY SmallImmediates
<1>1. Adds(a, b, k, "ax", p - 1, 0)
  <2>1. Adds(a, b, k, "ax", Wrap(k, -1), 0)
    BY <1>0, SumWithImmediate DEF Halves
  <2> QED
    BY <1>0, <2>1, Zenon
<1>2. Halves(b, k) /\ b.regs["dx"] = a.regs["dx"]
  BY <1>1, SumKeeps, Registers
<1>3. Adds(b, c, k, "dx", p - 1, b.flags.CF)
  <2>1. Adds(b, c, k, "dx", Wrap(k, -1), b.flags.CF)
    BY <1>0, <1>2, SumWithImmediate DEF Halves
  <2> QED
    BY <1>0, <2>1, Zenon
<1>4. Halves(c, k) /\ c.regs["ax"] = b.regs["ax"]
  BY <1>2, <1>3, SumKeeps, Registers
<1>5. p \in Int /\ 2^(2 * k) = p * p /\ k \in Nat /\ k > 0
  BY HalfFacts
<1>6. /\ b.regs["ax"] + b.flags.CF * p = (a.regs["ax"] + (p - 1)) + 0 /\ b.flags.CF \in {0, 1}
      /\ c.regs["dx"] + c.flags.CF * p = (b.regs["dx"] + (p - 1)) + b.flags.CF /\ c.flags.CF \in {0, 1}
  BY <1>1, <1>3, Zenon DEF Adds
<1>7. /\ a.regs["ax"] \in Int /\ a.regs["dx"] \in Int
      /\ c.regs["ax"] \in Int /\ c.regs["dx"] \in Int
  BY <1>4, HalfFacts
<1>8. Pair(k, c.regs["dx"], c.regs["ax"]) \in Number(2 * k)
  <2>1. c.regs["dx"] \in Number(k) /\ c.regs["ax"] \in Number(k)
    BY <1>4 DEF Halves, Narrow
  <2> HIDE DEF k
  <2> QED
    BY <1>5, <2>1, SignedPair
<1> DEFINE ax0 == a.regs["ax"]
           dx0 == a.regs["dx"]
           low == c.regs["ax"]
           high == c.regs["dx"]
           half == b.flags.CF
           carry == c.flags.CF
           q == carry - 1
           v == high * p + low
           x == (dx0 * p + ax0) - 1
<1>9. /\ low + half * p = (ax0 + (p - 1)) + 0 /\ high + carry * p = (dx0 + (p - 1)) + half
      /\ low \in Int /\ high \in Int /\ ax0 \in Int /\ dx0 \in Int
      /\ half \in {0, 1} /\ carry \in {0, 1}
  BY <1>2, <1>4, <1>6, <1>7
<1>10. v \in Number(2 * k)
  BY <1>8 DEF Pair
<1> HIDE DEF p, k, low, high, half, carry, ax0, dx0
<1>11. x = q * (p * p) + v /\ q \in Int
  <2>1. low = (ax0 + p - 1) - half * p /\ high = (dx0 + p - 1 + half) - carry * p
    BY <1>5, <1>9
  <2> QED
    BY <1>5, <1>9, <2>1
<1> DEFINE e == 2 * k
<1>12. e \in Nat /\ 2^e = p * p /\ v \in Number(e)
  BY <1>5, <1>10
<1> HIDE DEF e, q, v, x
<1>13. Wrap(e, q * 2^e + v) = v
  BY <1>11, <1>12, WrapIs
<1>14. Wrap(e, x) = v
  BY <1>11, <1>12, <1>13
<1> QED
  BY <1>14 DEF Pair, p, k, low, high, ax0, dx0, x, v, e

LEMMA ReduceResult ==
  ASSUME NEW w \in Widths, NEW a \in State, NEW b \in State, NEW c \in State, Halves(a, Bits[w]),
         Does(Digit81(5, w, R("ax"), 2^(Bits[w] - 1)), a, b), Does(Digit81(3, w, R("dx"), 1), b, c)
  PROVE  Pair(Bits[w], c.regs["dx"], c.regs["ax"]) - 2^(2 * Bits[w]) * c.flags.CF
           = Pair(Bits[w], a.regs["dx"], a.regs["ax"]) - 2^Bits[w] - 2^(Bits[w] - 1)
<1> DEFINE k == Bits[w]
           p == 2^k
           h == 2^(k - 1)
<1>0. Wrap(k, h) = h /\ Wrap(k, 1) = 1 /\ h \in Int /\ 1 \in Int
  BY SmallImmediates
<1>1. Takes(a, b, k, "ax", h, 0)
  <2>1. Takes(a, b, k, "ax", Wrap(k, h), 0)
    <3> HIDE DEF h
    <3> QED
      BY <1>0, SumWithImmediate DEF Halves, h
  <2> QED
    BY <1>0, <2>1, Zenon
<1>2. Halves(b, k) /\ b.regs["dx"] = a.regs["dx"]
  BY <1>1, SumKeeps, Registers
<1>3. Takes(b, c, k, "dx", 1, b.flags.CF)
  <2>1. Takes(b, c, k, "dx", Wrap(k, 1), b.flags.CF)
    BY <1>0, <1>2, SumWithImmediate DEF Halves
  <2> QED
    BY <1>0, <2>1, Zenon
<1>4. Halves(c, k) /\ c.regs["ax"] = b.regs["ax"]
  BY <1>2, <1>3, SumKeeps, Registers
<1>5. p \in Int /\ 2^(2 * k) = p * p /\ k \in Nat /\ k > 0
  BY HalfFacts
<1>6. /\ b.regs["ax"] - b.flags.CF * p = (a.regs["ax"] - h) - 0 /\ b.flags.CF \in {0, 1}
      /\ c.regs["dx"] - c.flags.CF * p = (b.regs["dx"] - 1) - b.flags.CF /\ c.flags.CF \in {0, 1}
  BY <1>1, <1>3, Zenon DEF Takes
<1>7. /\ a.regs["ax"] \in Int /\ a.regs["dx"] \in Int
      /\ c.regs["ax"] \in Int /\ c.regs["dx"] \in Int
  BY <1>4, HalfFacts
<1> DEFINE ax0 == a.regs["ax"]
           dx0 == a.regs["dx"]
           low == c.regs["ax"]
           high == c.regs["dx"]
           half == b.flags.CF
           carry == c.flags.CF
<1>9. /\ low - half * p = (ax0 - h) - 0 /\ high - carry * p = (dx0 - 1) - half
      /\ low \in Int /\ high \in Int /\ ax0 \in Int /\ dx0 \in Int
      /\ half \in {0, 1} /\ carry \in {0, 1}
  BY <1>2, <1>4, <1>6, <1>7
<1> HIDE DEF p, h, k, low, high, half, carry, ax0, dx0
<1>10. (high * p + low) - (p * p) * carry = (dx0 * p + ax0) - p - h
  <2>1. low = (ax0 - h) + half * p /\ high = (dx0 - 1 - half) + carry * p
    BY <1>0, <1>5, <1>9
  <2> QED
    BY <1>0, <1>5, <1>9, <2>1
<1> QED
  BY <1>5, <1>10 DEF Pair, p, h, k, low, high, carry, ax0, dx0

\* one operand, of a register of the idiom
LEMMA Negated ==
  ASSUME NEW w \in Widths, NEW a \in State, NEW b \in State, NEW d, Narrow(a, Bits[w], d),
         Does(I("neg", w, R(d), R(d)), a, b)
  PROVE  \E e \in {0, 1} : /\ b.regs[d] = e * 2^Bits[w] - a.regs[d] /\ b.flags.CF = e /\ Kept(a, b, d)
                           /\ b.regs[d] \in Number(Bits[w]) /\ (e = 0 <=> a.regs[d] = 0)
<1> DEFINE k == Bits[w]
           p == 2^k
           x == a.regs[d]
<1>1. PICK r \in Results(k) : OneOperandLeaves("neg", k, x, a.flags, r) /\ Becomes(a, b, d, r.value) /\ b.flags = r.flags
  BY OneRegister
<1>2. r.value = (IF x = 0 THEN 0 ELSE p - x) /\ r.flags.CF = Bit(x # 0) /\ r.value \in Number(k)
  BY <1>1 DEF OneOperandLeaves, Results
<1>3. b.regs[d] = r.value /\ b.flags.CF = Bit(x # 0) /\ Kept(a, b, d)
  BY <1>1, <1>2 DEF Becomes
<1>4. p \in Int /\ x \in Int
  BY WidthFacts, PowerType DEF Narrow, Number
<1> HIDE DEF p, x, k
<1>5. CASE x = 0
  <2>1. b.regs[d] = 0 * p - x /\ b.flags.CF = 0
    BY <1>2, <1>3, <1>4, <1>5 DEF Bit
  <2> QED
    BY <1>2, <1>3, <1>5, <2>1 DEF p, x, k
<1>6. CASE x # 0
  <2>1. b.regs[d] = 1 * p - x /\ b.flags.CF = 1
    BY <1>2, <1>3, <1>4, <1>6 DEF Bit
  <2> QED
    BY <1>2, <1>3, <1>6, <2>1 DEF p, x, k
<1> QED
  BY <1>5, <1>6

LEMMA NegResult ==
  ASSUME NEW w \in Widths, NEW a \in State, NEW b \in State, NEW c \in State, NEW d \in State, Halves(a, Bits[w]),
         Does(I("neg", w, R("ax"), R("ax")), a, b), Does(Digit81(2, w, R("dx"), 0), b, c),
         Does(I("neg", w, R("dx"), R("dx")), c, d)
  PROVE  Pair(Bits[w], d.regs["dx"], d.regs["ax"]) = Wrap(2 * Bits[w], -Pair(Bits[w], a.regs["dx"], a.regs["ax"]))
<1> DEFINE k == Bits[w]
           p == 2^k
<1>0. Wrap(k, 0) = 0 /\ 0 \in Int
  BY SmallImmediates
<1>1. PICK e \in {0, 1} : /\ b.regs["ax"] = e * p - a.regs["ax"] /\ b.flags.CF = e /\ Kept(a, b, "ax")
                          /\ b.regs["ax"] \in Number(k)
  BY Negated DEF Halves
<1>2. Halves(b, k) /\ b.regs["dx"] = a.regs["dx"]
  BY <1>1, Registers DEF Kept, Halves, Narrow
<1>3. Adds(b, c, k, "dx", 0, b.flags.CF)
  <2>1. Adds(b, c, k, "dx", Wrap(k, 0), b.flags.CF)
    BY <1>0, <1>2, SumWithImmediate DEF Halves
  <2> QED
    BY <1>0, <2>1, Zenon
<1>4. Halves(c, k) /\ c.regs["ax"] = b.regs["ax"]
  BY <1>2, <1>3, SumKeeps, Registers
<1>5. PICK f \in {0, 1} : /\ d.regs["dx"] = f * p - c.regs["dx"] /\ Kept(c, d, "dx")
                          /\ d.regs["dx"] \in Number(k)
  BY <1>4, Negated DEF Halves
<1>6. Halves(d, k) /\ d.regs["ax"] = c.regs["ax"]
  BY <1>4, <1>5, Registers DEF Kept, Halves, Narrow
<1>7. p \in Int /\ 2^(2 * k) = p * p /\ k \in Nat /\ k > 0
  BY HalfFacts
<1>8. c.regs["dx"] + c.flags.CF * p = (b.regs["dx"] + 0) + b.flags.CF /\ c.flags.CF \in {0, 1}
  BY <1>3, Zenon DEF Adds
<1>9. /\ a.regs["ax"] \in Int /\ a.regs["dx"] \in Int
      /\ c.regs["ax"] \in Int /\ c.regs["dx"] \in Int /\ d.regs["ax"] \in Int /\ d.regs["dx"] \in Int
  BY <1>4, <1>6, HalfFacts
<1>10. Pair(k, d.regs["dx"], d.regs["ax"]) \in Number(2 * k)
  <2>1. d.regs["dx"] \in Number(k) /\ d.regs["ax"] \in Number(k)
    BY <1>6 DEF Halves, Narrow
  <2> HIDE DEF k
  <2> QED
    BY <1>7, <2>1, SignedPair
<1> DEFINE ax0 == a.regs["ax"]
           dx0 == a.regs["dx"]
           low == d.regs["ax"]
           high == d.regs["dx"]
           mid == c.regs["dx"]
           carry == c.flags.CF
           q == -(f + carry)
           v == high * p + low
           x == -(dx0 * p + ax0)
<1>11. /\ low = e * p - ax0 /\ mid + carry * p = (dx0 + 0) + e /\ high = f * p - mid
       /\ low \in Int /\ high \in Int /\ ax0 \in Int /\ dx0 \in Int /\ mid \in Int
       /\ carry \in {0, 1} /\ e \in {0, 1} /\ f \in {0, 1}
  BY <1>1, <1>2, <1>4, <1>5, <1>6, <1>8, <1>9
<1>12. v \in Number(2 * k)
  BY <1>10 DEF Pair
<1> HIDE DEF p, k, low, high, mid, carry, ax0, dx0
<1>13. x = q * (p * p) + v /\ q \in Int
  <2>1. high = f * p - ((dx0 + e) - carry * p)
    BY <1>7, <1>11
  <2>2. high * p = (f * p) * p - (dx0 * p + e * p) + (carry * p) * p
    BY <1>7, <1>11, <2>1
  <2>3. (f * p) * p = f * (p * p) /\ (carry * p) * p = carry * (p * p)
    BY <1>7, <1>11
  <2>4. q * (p * p) = -(f * (p * p)) - carry * (p * p)
    BY <1>7, <1>11
  <2>5. p * p \in Int /\ f * (p * p) \in Int /\ carry * (p * p) \in Int /\ dx0 * p \in Int /\ e * p \in Int /\ q \in Int
        /\ high * p \in Int /\ q * (p * p) \in Int
    BY <1>7, <1>11
  <2> QED
    BY <1>11, <2>2, <2>3, <2>4, <2>5
<1> DEFINE m == 2 * k
<1>14. m \in Nat /\ 2^m = p * p /\ v \in Number(m)
  BY <1>7, <1>12
<1> HIDE DEF m, q, v, x
<1>15. Wrap(m, q * 2^m + v) = v
  BY <1>13, <1>14, WrapIs
<1>16. Wrap(m, x) = v
  BY <1>13, <1>14, <1>15
<1> QED
  BY <1>16 DEF Pair, p, k, low, high, ax0, dx0, x, v, m

\* A shift or a rotation by an immediate 1.
LEMMA ShiftedOnce ==
  ASSUME NEW w \in Widths, NEW a \in State, NEW b \in State, NEW d, Narrow(a, Bits[w], d),
         NEW op \in Shiftings, Does(I(op, w, R(d), Imm(1)), a, b)
  PROVE  /\ b.regs[d] \in Number(Bits[w]) /\ Kept(a, b, d) /\ b.flags.CF \in {0, 1} /\ a.flags.CF \in {0, 1}
         /\ op = "shl" => 2 * a.regs[d] = b.regs[d] + b.flags.CF * 2^Bits[w]
         /\ op = "shr" => a.regs[d] = 2 * b.regs[d] + b.flags.CF
         /\ op = "sar" => Signed(Bits[w], a.regs[d]) = 2 * Signed(Bits[w], b.regs[d]) + b.flags.CF
         /\ op = "rcl" => b.regs[d] + b.flags.CF * 2^Bits[w] = 2 * a.regs[d] + a.flags.CF
         /\ op = "rcr" => 2 * b.regs[d] + b.flags.CF = a.regs[d] + a.flags.CF * 2^Bits[w]
<1> DEFINE k == Bits[w]
           x == a.regs[d]
           one == In(a.regs, 8, Imm(1))
           v == b.regs[d]
           cf == b.flags.CF
<1>1. k \in Nat /\ k > 1 /\ x \in Number(k) /\ a.flags \in FlagFile /\ a.flags.CF \in {0, 1}
  BY WidthFacts, CarryIs DEF Narrow
<1>2. one = 1
  <2>1. one = Wrap(8, 1)
    BY ImmIs
  <2>2. 2^8 = 256 /\ 1 % 256 = 1
    OBVIOUS
  <2> QED
    BY <2>1, <2>2 DEF Wrap
<1>3. Count(one) = 1
  <2>1. Bits["dword"] \in Nat /\ Bits["dword"] > 1
    BY BitsAssumption
  <2> QED
    BY <1>2, <2>1 DEF Count
<1>4. PICK r \in Results(k) : ShiftLeaves(op, k, x, one, a.flags, r) /\ Becomes(a, b, d, r.value) /\ b.flags = r.flags
  BY ShiftedRegister
<1>5. v = r.value /\ cf = r.flags.CF /\ Kept(a, b, d) /\ v \in Number(k) /\ cf \in {0, 1}
  BY <1>4 DEF Becomes, Results, FlagFile, Flag
<1> DEFINE shifted == [value |-> r.value, carry |-> {r.flags.CF}]
           rotated == [value |-> r.value, carry |-> r.flags.CF]
<1>6. /\ op \in ShiftNames => ShiftMakes(op, k, x, 1, shifted)
      /\ op \in RotateNames => RotationMakes(op, k, x, 1, a.flags, rotated)
  BY <1>3, <1>4 DEF ShiftLeaves
<1>7. shifted.value = v /\ shifted.carry = {cf} /\ rotated.value = v /\ rotated.carry = cf
  BY <1>5
<1> HIDE DEF k, x, one, v, cf, shifted, rotated
<1>8. op = "shl" => 2 * x = v + cf * 2^k
  BY <1>6, <1>7 DEF ShiftMakes, ShiftNames
<1>9. op = "shr" => x = 2 * v + cf
  BY <1>6, <1>7 DEF ShiftMakes, ShiftNames
<1>10. op = "sar" => Signed(k, x) = 2 * Signed(k, v) + cf
  <2> SUFFICES ASSUME op = "sar" PROVE Signed(k, x) = 2 * Signed(k, v) + cf
    OBVIOUS
  <2> DEFINE u == Signed(k, x)
             half == u \div 2
             h == 2^(k - 1)
  <2>1. v = Wrap(k, u \div 2^1) /\ {cf} = {(u \div 2^(1 - 1)) % 2}
    BY <1>6, <1>7 DEF ShiftMakes, ShiftNames
  <2>2. 2^1 = 2 /\ 2^(1 - 1) = 1
    OBVIOUS
  <2>3. u \in Int /\ -h <= u /\ u < h /\ h \in Int
    BY <1>1, SignedIs, PowerHalf DEF SignedTo
  <2> HIDE DEF u, h
  <2>4. u \div 1 = u
    BY <2>3
  <2>5. v = Wrap(k, half) /\ cf = u % 2
    BY <2>1, <2>2, <2>4
  <2>6. u = 2 * half + (u % 2) /\ half \in Int /\ u % 2 \in 0..1
    BY <2>3, DivMod
  <2> HIDE DEF half
  <2>7. -h <= half /\ half < h
    BY <2>3, <2>6
  <2>8. Signed(k, Wrap(k, half)) = half
    BY <1>1, <2>6, <2>7, SignedWrap DEF h
  <2> QED
    BY <2>5, <2>6, <2>8 DEF u
<1>11. op = "rcl" => v + cf * 2^k = 2 * x + a.flags.CF
  BY <1>1, <1>6, <1>7, RotatedLeftOnce DEF RotateNames
<1>12. op = "rcr" => 2 * v + cf = x + a.flags.CF * 2^k
  BY <1>1, <1>6, <1>7, RotatedRightOnce DEF RotateNames
<1> QED
  BY <1>1, <1>5, <1>8, <1>9, <1>10, <1>11, <1>12 DEF k, x, v, cf

LEMMA DoubleResult ==
  ASSUME NEW w \in Widths, NEW a \in State, NEW b \in State, NEW c \in State, Halves(a, Bits[w]),
         Does(I("shl", w, R("ax"), Imm(1)), a, b), Does(I("rcl", w, R("dx"), Imm(1)), b, c)
  PROVE  Pair(Bits[w], c.regs["dx"], c.regs["ax"]) + 2^(2 * Bits[w]) * c.flags.CF
           = 2 * Pair(Bits[w], a.regs["dx"], a.regs["ax"])
<1> DEFINE k == Bits[w]
           p == 2^k
           ax0 == a.regs["ax"]
           dx0 == a.regs["dx"]
           low == c.regs["ax"]
           high == c.regs["dx"]
           half == b.flags.CF
           carry == c.flags.CF
<1>0. "shl" \in Shiftings /\ "rcl" \in Shiftings
  BY DEF Shiftings, ShiftNames, RotateNames
<1>1. b.regs["ax"] \in Number(k) /\ Kept(a, b, "ax") /\ half \in {0, 1} /\ 2 * ax0 = b.regs["ax"] + half * p
  BY <1>0, ShiftedOnce DEF Halves
<1>2. Halves(b, k) /\ b.regs["dx"] = dx0
  BY <1>1, Registers DEF Kept, Halves, Narrow
<1>3. high \in Number(k) /\ Kept(b, c, "dx") /\ carry \in {0, 1} /\ high + carry * p = 2 * b.regs["dx"] + half
  BY <1>0, <1>2, ShiftedOnce DEF Halves
<1>4. Halves(c, k) /\ low = b.regs["ax"]
  BY <1>2, <1>3, Registers DEF Kept, Halves, Narrow
<1>5. p \in Int /\ 2^(2 * k) = p * p
  BY HalfFacts
<1>6. ax0 \in Int /\ dx0 \in Int /\ low \in Int /\ high \in Int
  BY <1>4, HalfFacts
<1>7. 2 * ax0 = low + half * p /\ high + carry * p = 2 * dx0 + half
  BY <1>1, <1>2, <1>3, <1>4
<1> HIDE DEF p, k, low, high, half, carry, ax0, dx0
<1>8. (high * p + low) + (p * p) * carry = 2 * (dx0 * p + ax0)
  <2>1. low = 2 * ax0 - half * p /\ high = (2 * dx0 + half) - carry * p
    BY <1>1, <1>3, <1>5, <1>6, <1>7
  <2> QED
    BY <1>1, <1>3, <1>5, <1>6, <2>1
<1> QED
  BY <1>5, <1>8 DEF Pair, p, k, low, high, carry, ax0, dx0

LEMMA HalveUnsignedResult ==
  ASSUME NEW w \in Widths, NEW a \in State, NEW b \in State, NEW c \in State, Halves(a, Bits[w]),
         Does(I("shr", w, R("dx"), Imm(1)), a, b), Does(I("rcr", w, R("ax"), Imm(1)), b, c)
  PROVE  2 * Pair(Bits[w], c.regs["dx"], c.regs["ax"]) + c.flags.CF = Pair(Bits[w], a.regs["dx"], a.regs["ax"])
<1> DEFINE k == Bits[w]
           p == 2^k
           ax0 == a.regs["ax"]
           dx0 == a.regs["dx"]
           low == c.regs["ax"]
           high == c.regs["dx"]
           half == b.flags.CF
           carry == c.flags.CF
<1>0. "shr" \in Shiftings /\ "rcr" \in Shiftings
  BY DEF Shiftings, ShiftNames, RotateNames
<1>1. b.regs["dx"] \in Number(k) /\ Kept(a, b, "dx") /\ half \in {0, 1} /\ dx0 = 2 * b.regs["dx"] + half
  BY <1>0, ShiftedOnce DEF Halves
<1>2. Halves(b, k) /\ b.regs["ax"] = ax0
  BY <1>1, Registers DEF Kept, Halves, Narrow
<1>3. low \in Number(k) /\ Kept(b, c, "ax") /\ carry \in {0, 1} /\ 2 * low + carry = b.regs["ax"] + half * p
  BY <1>0, <1>2, ShiftedOnce DEF Halves
<1>4. Halves(c, k) /\ high = b.regs["dx"]
  BY <1>2, <1>3, Registers DEF Kept, Halves, Narrow
<1>5. p \in Int
  BY HalfFacts
<1>6. ax0 \in Int /\ dx0 \in Int /\ low \in Int /\ high \in Int
  BY <1>4, HalfFacts
<1>7. dx0 = 2 * high + half /\ 2 * low + carry = ax0 + half * p
  BY <1>1, <1>2, <1>3, <1>4
<1> HIDE DEF p, k, low, high, half, carry, ax0, dx0
<1>8. 2 * (high * p + low) + carry = dx0 * p + ax0
  <2>1. dx0 * p = 2 * (high * p) + half * p /\ high * p \in Int /\ half * p \in Int /\ dx0 * p \in Int
    BY <1>1, <1>3, <1>5, <1>6, <1>7
  <2> DEFINE hp == high * p
             mp == half * p
             xp == dx0 * p
  <2>2. /\ 2 * low + carry = ax0 + mp /\ xp = 2 * hp + mp /\ hp \in Int /\ mp \in Int /\ xp \in Int
        /\ low \in Int /\ ax0 \in Int /\ carry \in Int
    BY <1>3, <1>6, <1>7, <2>1
  <2> HIDE DEF hp, mp, xp
  <2>3. 2 * (hp + low) + carry = xp + ax0
    BY <2>2
  <2> QED
    BY <2>3 DEF hp, xp
<1> QED
  BY <1>8 DEF Pair, p, k, low, high, carry, ax0, dx0

LEMMA HalveResult ==
  ASSUME NEW w \in Widths, NEW a \in State, NEW b \in State, NEW c \in State, Halves(a, Bits[w]),
         Does(I("sar", w, R("dx"), Imm(1)), a, b), Does(I("rcr", w, R("ax"), Imm(1)), b, c)
  PROVE  2 * Signed(2 * Bits[w], Pair(Bits[w], c.regs["dx"], c.regs["ax"])) + c.flags.CF
           = Signed(2 * Bits[w], Pair(Bits[w], a.regs["dx"], a.regs["ax"]))
<1> DEFINE k == Bits[w]
           p == 2^k
           ax0 == a.regs["ax"]
           dx0 == Signed(k, a.regs["dx"])
           low == c.regs["ax"]
           high == Signed(k, c.regs["dx"])
           half == b.flags.CF
           carry == c.flags.CF
           mid == Signed(k, b.regs["dx"])
<1>0. "sar" \in Shiftings /\ "rcr" \in Shiftings
  BY DEF Shiftings, ShiftNames, RotateNames
<1>1. b.regs["dx"] \in Number(k) /\ Kept(a, b, "dx") /\ half \in {0, 1} /\ dx0 = 2 * mid + half
  BY <1>0, ShiftedOnce DEF Halves
<1>2. Halves(b, k) /\ b.regs["ax"] = ax0
  BY <1>1, Registers DEF Kept, Halves, Narrow
<1>3. low \in Number(k) /\ Kept(b, c, "ax") /\ carry \in {0, 1} /\ 2 * low + carry = b.regs["ax"] + half * p
  BY <1>0, <1>2, ShiftedOnce DEF Halves
<1>4. Halves(c, k) /\ c.regs["dx"] = b.regs["dx"]
  BY <1>2, <1>3, Registers DEF Kept, Halves, Narrow
<1>5. p \in Int /\ k \in Nat /\ k > 0
  BY HalfFacts
<1>6. ax0 \in Int /\ low \in Int /\ dx0 \in Int /\ high \in Int
  <2>1. ax0 \in Int /\ low \in Int
    BY <1>4, HalfFacts
  <2>2. a.regs["dx"] \in Number(k) /\ c.regs["dx"] \in Number(k)
    BY <1>4 DEF Halves, Narrow
  <2> QED
    BY <1>5, <2>1, <2>2, SignedIs DEF SignedTo
<1>7. dx0 = 2 * high + half /\ 2 * low + carry = ax0 + half * p
  BY <1>1, <1>2, <1>3, <1>4
<1>8. /\ Signed(2 * k, Pair(k, c.regs["dx"], low)) = high * p + low
      /\ Signed(2 * k, Pair(k, a.regs["dx"], ax0)) = dx0 * p + ax0
  <2> DEFINE x == a.regs["dx"]
             y == c.regs["dx"]
  <2>1. x \in Number(k) /\ y \in Number(k) /\ low \in Number(k) /\ ax0 \in Number(k)
    BY <1>4 DEF Halves, Narrow
  <2> HIDE DEF k, low, ax0, x, y
  <2>2. /\ Signed(2 * k, Pair(k, y, low)) = Signed(k, y) * 2^k + low
        /\ Signed(2 * k, Pair(k, x, ax0)) = Signed(k, x) * 2^k + ax0
    BY <1>5, <2>1, SignedPair
  <2> QED
    BY <2>2 DEF x, y
<1> HIDE DEF p, low, high, half, carry, ax0, dx0
<1>9. 2 * (high * p + low) + carry = dx0 * p + ax0
  <2>1. dx0 * p = 2 * (high * p) + half * p /\ high * p \in Int /\ half * p \in Int /\ dx0 * p \in Int
    BY <1>1, <1>3, <1>5, <1>6, <1>7
  <2> DEFINE hp == high * p
             mp == half * p
             xp == dx0 * p
  <2>2. /\ 2 * low + carry = ax0 + mp /\ xp = 2 * hp + mp /\ hp \in Int /\ mp \in Int /\ xp \in Int
        /\ low \in Int /\ ax0 \in Int /\ carry \in Int
    BY <1>3, <1>6, <1>7, <2>1
  <2> HIDE DEF hp, mp, xp
  <2>3. 2 * (hp + low) + carry = xp + ax0
    BY <2>2
  <2> QED
    BY <2>3 DEF hp, xp
<1> HIDE DEF k
<1>10. 2 * Signed(2 * k, Pair(k, c.regs["dx"], low)) + carry = Signed(2 * k, Pair(k, a.regs["dx"], ax0))
  BY <1>8, <1>9, Zenon
<1> QED
  BY <1>10 DEF k, low, carry, ax0

--------------------------------------------------------------------------------
(* Bits of one register *)

\* What the three of them make of register d and y, whatever y came from.
Mixes(op, k, x, y) ==
  CASE op = "and" -> FromBits(k, AndDigits(k, x, y))
    [] op = "or" -> FromBits(k, OrDigits(k, x, y))
    [] op = "xor" -> FromBits(k, XorDigits(k, x, y))
Mixed(a, b, k, op, d, y) == b.regs[d] = Mixes(op, k, a.regs[d], y) /\ b.regs[d] \in Number(k) /\ Kept(a, b, d)

LEMMA LogicMeans ==
  ASSUME NEW a \in State, NEW b, NEW k \in Nat, NEW d, NEW y, NEW op \in {"and", "or", "xor"},
         NEW r \in Results(k), TwoOperandsLeave(op, k, a.regs[d], y, a.flags, r), Becomes(a, b, d, r.value)
  PROVE  Mixed(a, b, k, op, d, y)
<1>1. r.value = Mixes(op, k, a.regs[d], y) /\ r.value \in Number(k)
  BY DEF TwoOperandsLeave, LogicLeaves, Mixes, Results
<1> QED
  BY <1>1 DEF Mixed, Becomes

LEMMA LogicOfRegisters ==
  ASSUME NEW a \in State, NEW b \in State, NEW w \in Widths, NEW d, Narrow(a, Bits[w], d), NEW e, Narrow(a, Bits[w], e),
         NEW op \in {"and", "or", "xor"}, Does(I(op, w, R(d), R(e)), a, b)
  PROVE  Mixed(a, b, Bits[w], op, d, a.regs[e])
<1>1. op \in TwoNames /\ Bits[w] \in Nat
  BY WidthFacts DEF TwoNames
<1>2. PICK r \in Results(Bits[w]) : /\ TwoOperandsLeave(op, Bits[w], a.regs[d], a.regs[e], a.flags, r)
                                     /\ Becomes(a, b, d, r.value) /\ b.flags = r.flags
  BY <1>1, TwoRegisters
<1> QED
  BY <1>1, <1>2, LogicMeans

LEMMA LogicWithImmediate ==
  ASSUME NEW w \in Widths, NEW a \in State, NEW b \in State, NEW d, Narrow(a, Bits[w], d), NEW v \in Int,
         NEW digit \in {1, 4, 6},
         \/ Does(Digit81(digit, w, R(d), v), a, b)
         \/ Does(Digit83(digit, w, R(d), v), a, b) /\ -128 <= v /\ v < 128
  PROVE  /\ digit = 1 => Mixed(a, b, Bits[w], "or", d, Wrap(Bits[w], v))
         /\ digit = 4 => Mixed(a, b, Bits[w], "and", d, Wrap(Bits[w], v))
         /\ digit = 6 => Mixed(a, b, Bits[w], "xor", d, Wrap(Bits[w], v))
<1> DEFINE k == Bits[w]
           y == Wrap(k, v)
           op == Digit[digit + 1]
<1>1. k \in Nat /\ digit \in 0..6 /\ digit \in 0..7 /\ digit # 7
  BY WidthFacts
<1>2. PICK r \in Results(k) : TwoOperandsLeave(op, k, a.regs[d], y, a.flags, r)
                              /\ Becomes(a, b, d, r.value) /\ b.flags = r.flags
  BY <1>1, WithImmediate, WithShortImmediate
<1>3. /\ digit = 1 => op = "or"
      /\ digit = 4 => op = "and"
      /\ digit = 6 => op = "xor"
      /\ op \in {"and", "or", "xor"}
  BY DEF Digit
<1> HIDE DEF op, k, y
<1>4. Mixed(a, b, k, op, d, y)
  BY <1>1, <1>2, <1>3, LogicMeans
<1> QED
  BY <1>3, <1>4 DEF k, y

LEMMA AlignResult ==
  ASSUME NEW w \in Widths, NEW a \in State, NEW b \in State, NEW c \in State, Halves(a, Bits[w]),
         Does(Digit83(0, w, R("ax"), 3), a, b), Does(Digit83(4, w, R("ax"), -4), b, c)
  PROVE  c.regs["ax"] = Wrap(Bits[w], 4 * ((a.regs["ax"] + 3) \div 4))
<1> DEFINE k == Bits[w]
           p == 2^k
           x == a.regs["ax"]
           y == b.regs["ax"]
           z == c.regs["ax"]
           half == b.flags.CF
<1>0. Wrap(k, 3) = 3 /\ 3 \in Int /\ -128 <= 3 /\ 3 < 128 /\ Wrap(k, -4) = p - 4 /\ -4 \in Int /\ -128 <= -4 /\ -4 < 128
  BY SmallImmediates
<1>1. Adds(a, b, k, "ax", 3, 0)
  <2>1. Adds(a, b, k, "ax", Wrap(k, 3), 0)
    BY <1>0, SumWithImmediate DEF Halves
  <2> QED
    BY <1>0, <2>1, Zenon
<1>2. y \in Number(k) /\ half \in {0, 1} /\ y + half * p = (x + 3) + 0
  BY <1>1, Zenon DEF Adds
<1>3. Halves(b, k)
  BY <1>1, SumKeeps, Registers
<1>4. Mixed(b, c, k, "and", "ax", p - 4)
  <2>1. Mixed(b, c, k, "and", "ax", Wrap(k, -4))
    BY <1>0, <1>3, LogicWithImmediate DEF Halves
  <2> QED
    BY <1>0, <2>1, Zenon
<1>5. z = FromBits(k, AndDigits(k, y, p - 4)) /\ z \in Number(k)
  BY <1>4 DEF Mixed, Mixes
<1>6. k \in Nat /\ k > 0 /\ k >= 8 /\ x \in Int
  BY WidthFacts, HalfFacts
<1>7. p \in Int /\ p > 0 /\ y \in 0..(p - 1) /\ z \in 0..(p - 1)
  BY <1>2, <1>5, <1>6, PowerType DEF Number
<1>8. z = y - (y % 4)
  <2>1. 2 \in 0..k /\ 2^2 = 4
    BY <1>6
  <2>2. FromBits(k, AndDigits(k, y, 2^k - 2^2)) = y - (y % 2^2)
    <3> HIDE DEF y, k
    <3> QED
      BY <1>2, <1>6, <2>1, AndMask
  <2> QED
    BY <1>5, <2>1, <2>2
<1> DEFINE m == 2^(k - 2)
<1>9. p = 4 * m /\ m \in Int
  <2>1. 2 \in Nat /\ k - 2 \in Nat /\ 2 <= k
    BY <1>6
  <2>2. 2^k = 2^2 * 2^(k - 2) /\ 2^(k - 2) \in Nat
    BY <1>6, <2>1, PowerOrder
  <2> QED
    BY <2>2
<1> HIDE DEF p, x, y, z, half, m
<1> DEFINE t == 4 * ((x + 3) \div 4)
<1>10. t = half * p + z
  <2> DEFINE q == y \div 4
             e == y % 4
             f == half * m + q
  <2>1. y = 4 * q + e /\ q \in Int /\ e \in 0..3 /\ y \in Int
    <3>1. y \in Int
      BY <1>7
    <3> QED
      BY <3>1, DivMod
  <2>2. z = y - e
    BY <1>8
  <2> HIDE DEF q, e
  <2>3. f \in Int /\ x + 3 = f * 4 + e
    BY <1>2, <1>6, <1>7, <1>9, <2>1
  <2> HIDE DEF f
  <2>4. (f * 4 + e) \div 4 = f
    BY <2>1, <2>3, DivModUnique
  <2>5. t = 4 * f
    BY <2>3, <2>4
  <2>6. 4 * f = half * p + z
    <3>1. 4 * f = 4 * (half * m) + 4 * q /\ 4 * (half * m) = half * p
      BY <1>2, <1>9, <2>1 DEF f
    <3>2. half * p \in Int /\ 4 * f \in Int
      BY <1>2, <1>7, <2>3
    <3> QED
      BY <1>7, <2>1, <2>2, <3>1, <3>2
  <2> QED
    BY <2>5, <2>6
<1>11. half \in Int /\ z \in Number(k) /\ k \in Nat
  BY <1>2, <1>5, <1>6 DEF z
<1> HIDE DEF k
<1>12. Wrap(k, half * 2^k + z) = z
  BY <1>11, WrapIs
<1> QED
  BY <1>10, <1>12 DEF p, x, z, t, k

LEMMA FullResult ==
  ASSUME NEW w \in Widths, NEW a \in State, NEW b \in State, NEW c \in State, Halves(a, Bits[w]),
         a.regs["bx"] = 0, Does(Digit83(7, w, R("ax"), -1), a, b), Does(Set("z", R("bx")), b, c)
  PROVE  c.regs["bx"] = Bit(a.regs["ax"] = 2^Bits[w] - 1) /\ c.regs["ax"] = a.regs["ax"]
<1> DEFINE k == Bits[w]
           p == 2^k
           x == a.regs["ax"]
<1>0. Wrap(k, -1) = p - 1 /\ -1 \in Int /\ -128 <= -1 /\ -1 < 128 /\ 7 \in 0..7 /\ k \in Nat
  BY SmallImmediates, WidthFacts
<1>1. PICK r \in Results(k) : /\ DifferenceLeaves(k, x, Wrap(k, -1), 0, a.flags, r)
                              /\ b.regs = a.regs /\ b.flags = r.flags
  BY <1>0, WithShortImmediate DEF Halves
<1>2. /\ r.flags.ZF = Bit(r.value = 0) /\ r.flags.CF = Bit(x < (p - 1) + 0)
      /\ r.value = (x - (p - 1) - 0) + r.flags.CF * p
  BY <1>0, <1>1 DEF DifferenceLeaves
<1>3. p \in Int /\ x \in 0..(p - 1) /\ p > 0
  BY HalfFacts
<1> HIDE DEF p, x, k
<1>4. b.flags.ZF = Bit(x = p - 1)
  <2>1. CASE x = p - 1
    <3>1. r.flags.CF = 0
      BY <1>2, <1>3, <2>1 DEF Bit
    <3>2. r.value = (x - (p - 1) - 0) + 0 * p
      BY <1>2, <3>1
    <3>3. (x - (p - 1) - 0) + 0 * p = 0
      BY <1>3, <2>1
    <3>4. r.value = 0
      BY <3>2, <3>3
    <3> QED
      BY <1>1, <1>2, <2>1, <3>4
  <2>2. CASE x # p - 1
    <3>1. r.flags.CF = 1
      BY <1>2, <1>3, <2>2 DEF Bit
    <3>2. r.value = x + 1
      BY <1>2, <1>3, <3>1
    <3>3. r.value # 0
      BY <1>3, <3>2
    <3> QED
      BY <1>1, <1>2, <2>2, <3>3 DEF Bit
  <2> QED
    BY <2>1, <2>2
<1>5. Narrow(b, 8, "bx")
  <2>1. 0 \in Number(8) /\ "bx" \in Register
    BY Registers, PowerType DEF Number
  <2> QED
    BY <1>1, <2>1 DEF Narrow
<1>6. Becomes(b, c, "bx", Bit(Holds("z", b.flags)))
  BY <1>5, SetRegister
<1>7. Holds("z", b.flags) = (b.flags.ZF = 1)
  BY DEF Holds
<1>8. c.regs["ax"] = b.regs["ax"] /\ c.regs["bx"] = Bit(b.flags.ZF = 1)
  BY <1>6, <1>7, Registers DEF Becomes, Kept
<1>9. Bit(b.flags.ZF = 1) = Bit(x = p - 1)
  BY <1>4 DEF Bit
<1> QED
  BY <1>1, <1>8, <1>9 DEF x, p, k

LEMMA PositiveResult ==
  ASSUME NEW w \in Widths, NEW a \in State, NEW b \in State, NEW c \in State, Halves(a, Bits[w]),
         Does(Digit81(1, w, R("ax"), 2^(Bits[w] - 1)), a, b), Does(Digit81(6, w, R("ax"), 2^(Bits[w] - 1)), b, c)
  PROVE  c.regs["ax"] = a.regs["ax"] - TopBit(Bits[w], a.regs["ax"]) * 2^(Bits[w] - 1)
<1> DEFINE k == Bits[w]
           h == 2^(k - 1)
           x == a.regs["ax"]
<1>0. Wrap(k, h) = h /\ h \in Int
  BY SmallImmediates
<1>1. Mixed(a, b, k, "or", "ax", h)
  <2>1. Mixed(a, b, k, "or", "ax", Wrap(k, h))
    <3> HIDE DEF h
    <3> QED
      BY <1>0, LogicWithImmediate DEF Halves, h
  <2> QED
    BY <1>0, <2>1, Zenon
<1>2. b.regs["ax"] = FromBits(k, OrDigits(k, x, h)) /\ Narrow(b, k, "ax")
  BY <1>1, Registers DEF Mixed, Mixes, Narrow
<1>3. Mixed(b, c, k, "xor", "ax", h)
  <2>1. Mixed(b, c, k, "xor", "ax", Wrap(k, h))
    <3> HIDE DEF h
    <3> QED
      BY <1>0, <1>2, LogicWithImmediate DEF h
  <2> QED
    BY <1>0, <2>1, Zenon
<1>4. c.regs["ax"] = FromBits(k, XorDigits(k, FromBits(k, OrDigits(k, x, h)), h))
  BY <1>2, <1>3 DEF Mixed, Mixes
<1>5. k \in Nat /\ k > 0 /\ x \in Number(k)
  BY WidthFacts DEF Halves, Narrow
<1> HIDE DEF k, x
<1>6. FromBits(k, XorDigits(k, FromBits(k, OrDigits(k, x, h)), h)) = x - TopBit(k, x) * h
  BY <1>5, SignCleared
<1> QED
  BY <1>4, <1>6 DEF k, x

LEMMA BlendResult ==
  ASSUME NEW w \in Widths, NEW a \in State, NEW b \in State, NEW c \in State, NEW d \in State, NEW e \in State,
         Halves(a, Bits[w]),
         Does(I("and", w, R("ax"), R("bx")), a, b), Does(I("not", w, R("bx"), R("bx")), b, c),
         Does(I("and", w, R("dx"), R("bx")), c, d), Does(I("or", w, R("ax"), R("dx")), d, e),
         NEW i \in 0..(Bits[w] - 1)
  PROVE  BitAt(e.regs["ax"], i) = BitAt(IF BitAt(a.regs["bx"], i) = 1 THEN a.regs["ax"] ELSE a.regs["dx"], i)
<1> DEFINE k == Bits[w]
           x == a.regs["ax"]
           y == a.regs["dx"]
           m == a.regs["bx"]
           u == b.regs["ax"]
           v == d.regs["dx"]
           z == e.regs["ax"]
           o == 2^k - 1 - m
<1>1. Mixed(a, b, k, "and", "ax", m)
  BY LogicOfRegisters DEF Halves
<1>2. Halves(b, k) /\ b.regs["bx"] = m /\ b.regs["dx"] = y
  BY <1>1, Registers DEF Mixed, Halves, Narrow, Kept
<1>3. PICK r \in Results(k) : OneOperandLeaves("not", k, m, b.flags, r) /\ Becomes(b, c, "bx", r.value)
  BY <1>2, OneRegister DEF Halves
<1>4. c.regs["bx"] = o /\ c.regs["bx"] \in Number(k) /\ Kept(b, c, "bx")
  BY <1>3 DEF OneOperandLeaves, Results, Becomes
<1>5. Halves(c, k) /\ c.regs["ax"] = u /\ c.regs["dx"] = y
  BY <1>2, <1>4, Registers DEF Halves, Narrow, Kept
<1>6. Mixed(c, d, k, "and", "dx", o)
  <2>1. Mixed(c, d, k, "and", "dx", c.regs["bx"])
    BY <1>5, LogicOfRegisters DEF Halves
  <2> QED
    BY <1>4, <2>1, Zenon
<1>7. Halves(d, k) /\ d.regs["ax"] = u
  BY <1>5, <1>6, Registers DEF Mixed, Halves, Narrow, Kept
<1>8. Mixed(d, e, k, "or", "ax", v)
  BY <1>7, LogicOfRegisters DEF Halves
<1>9. u = FromBits(k, AndDigits(k, x, m)) /\ v = FromBits(k, AndDigits(k, y, o)) /\ z = FromBits(k, OrDigits(k, u, v))
  BY <1>1, <1>5, <1>6, <1>7, <1>8 DEF Mixed, Mixes
<1>10. k \in Nat /\ m \in Number(k) /\ o \in Number(k) /\ x \in Int /\ y \in Int /\ u \in Int /\ v \in Int
  <2>1. x \in Int /\ y \in Int /\ u \in Int /\ v \in Int
    BY <1>7, HalfFacts
  <2> QED
    BY <1>4, <2>1, WidthFacts DEF Halves, Narrow
<1>11. m \in Int /\ o \in Int
  BY <1>10 DEF Number
<1>12. BitAt(o, i) = 1 - BitAt(m, i)
  <2> HIDE DEF m, k
  <2> QED
    BY <1>10, NotBits DEF k
<1> HIDE DEF x, y, m, u, v, z, o
<1>13. i \in 0..(k - 1)
  OBVIOUS
<1> HIDE DEF k
<1>14. /\ BitAt(u, i) = Bit(BitAt(x, i) + BitAt(m, i) = 2) /\ BitAt(x, i) \in {0, 1} /\ BitAt(m, i) \in {0, 1}
       /\ BitAt(v, i) = Bit(BitAt(y, i) + BitAt(o, i) = 2) /\ BitAt(y, i) \in {0, 1}
       /\ BitAt(z, i) = Bit(BitAt(u, i) + BitAt(v, i) >= 1)
  BY <1>9, <1>10, <1>11, <1>13, LogicBits, SMTT(20)
<1>15. BitAt(z, i) = BitAt(IF BitAt(m, i) = 1 THEN x ELSE y, i)
  <2>1. CASE BitAt(m, i) = 1
    BY <1>12, <1>14, <2>1 DEF Bit
  <2>2. CASE BitAt(m, i) = 0
    BY <1>12, <1>14, <2>2 DEF Bit
  <2> QED
    BY <1>14, <2>1, <2>2
<1> QED
  BY <1>15 DEF x, y, m, z, k

LEMMA BoolResult ==
  ASSUME NEW w \in Widths, NEW a \in State, NEW b \in State, NEW c \in State, NEW d \in State, Halves(a, Bits[w]),
         Does(I("neg", w, R("ax"), R("ax")), a, b), Does(I("sbb", w, R("ax"), R("ax")), b, c),
         Does(I("neg", w, R("ax"), R("ax")), c, d)
  PROVE  d.regs["ax"] = Bit(a.regs["ax"] # 0)
<1> DEFINE k == Bits[w]
           p == 2^k
           x == a.regs["ax"]
           y == b.regs["ax"]
           z == c.regs["ax"]
           v == d.regs["ax"]
           cf == c.flags.CF
<1>1. PICK e \in {0, 1} : b.flags.CF = e /\ Kept(a, b, "ax") /\ y \in Number(k) /\ (e = 0 <=> x = 0)
  BY Negated DEF Halves
<1>2. Narrow(b, k, "ax")
  BY <1>1, Registers DEF Narrow
<1>3. Takes(b, c, k, "ax", y, b.flags.CF)
  BY <1>2, SumOfRegisters
<1>4. z \in Number(k) /\ cf \in {0, 1} /\ z - cf * p = (y - y) - e
  BY <1>1, <1>3 DEF Takes
<1>5. PICK f \in {0, 1} : v = f * p - z /\ (f = 0 <=> z = 0)
  <2>1. Narrow(c, k, "ax")
    BY <1>4, Registers DEF Narrow
  <2> QED
    BY <2>1, Negated
<1>6. p \in Int /\ p > 2
  <2>1. p = 2 * 2^(k - 1) /\ 2^(k - 1) \in Int /\ 2^(k - 1) > 2
    BY SmallImmediates
  <2> QED
    BY <2>1
<1>7. y \in 0..(p - 1) /\ z \in 0..(p - 1)
  BY <1>1, <1>4 DEF Number
<1> HIDE DEF p, x, y, z, v, cf, k
<1>8. v = e
  <2>1. z = cf * p - e
    BY <1>1, <1>4, <1>6, <1>7
  <2>2. CASE e = 0
    <3>1. z = 0
      BY <1>4, <1>6, <1>7, <2>1, <2>2
    <3> QED
      BY <1>5, <1>6, <2>2, <3>1
  <2>3. CASE e = 1
    <3>1. z = p - 1
      BY <1>4, <1>6, <1>7, <2>1, <2>3
    <3>2. f = 1
      BY <1>5, <1>6, <3>1
    <3> QED
      BY <1>5, <1>6, <2>3, <3>1, <3>2
  <2> QED
    BY <1>1, <2>2, <2>3
<1> QED
  BY <1>1, <1>8 DEF Bit, x, v

\* The count in cl does not change while ax is rotated.
LEMMA RotatedTwice ==
  ASSUME NEW w \in Widths, NEW a \in State, NEW b \in State, NEW c \in State, Narrow(a, Bits[w], "ax"),
         NEW there \in RotateNames, NEW back \in RotateNames,
         Does(I(there, w, R("ax"), R("ecx")), a, b), Does(I(back, w, R("ax"), R("ecx")), b, c)
  PROVE  \E t \in Nat : /\ RotationMakes(there, Bits[w], a.regs["ax"], t, a.flags,
                                         [value |-> b.regs["ax"], carry |-> b.flags.CF])
                        /\ RotationMakes(back, Bits[w], b.regs["ax"], t, b.flags,
                                         [value |-> c.regs["ax"], carry |-> c.flags.CF])
                        /\ b.regs["ax"] \in Number(Bits[w])
<1> DEFINE k == Bits[w]
           x == In(a.regs, 8, R("ecx"))
           y == In(b.regs, 8, R("ecx"))
<1>1. there \in Shiftings /\ back \in Shiftings
  BY DEF Shiftings
<1>2. PICK r \in Results(k) : /\ ShiftLeaves(there, k, a.regs["ax"], x, a.flags, r)
                              /\ Becomes(a, b, "ax", r.value) /\ b.flags = r.flags
  BY <1>1, ShiftedRegister
<1>3. Narrow(b, k, "ax") /\ b.regs["ecx"] = a.regs["ecx"] /\ b.regs["ax"] = r.value
  BY <1>2, Registers DEF Becomes, Kept, Narrow, Results
<1>4. PICK q \in Results(k) : /\ ShiftLeaves(back, k, b.regs["ax"], y, b.flags, q)
                              /\ Becomes(b, c, "ax", q.value) /\ c.flags = q.flags
  BY <1>1, <1>3, ShiftedRegister
<1>5. y = x
  BY <1>3, Zenon DEF In, R
<1>6. x \in Nat
  <2>1. a.regs["ecx"] \in Int
    BY Registers, WidthFacts, PowerType DEF State, RegFile, Number
  <2>2. 8 \in Nat
    OBVIOUS
  <2>3. x = Wrap(8, a.regs["ecx"])
    BY DEF In, R
  <2>4. x \in Number(8)
    BY <2>1, <2>2, <2>3, WrapType
  <2> QED
    BY <2>4 DEF Number
<1>7. Count(x) \in Nat
  BY <1>6, CountType
<1>8. c.regs["ax"] = q.value
  BY <1>4 DEF Becomes
<1> HIDE DEF x, y
<1>9. /\ RotationMakes(there, k, a.regs["ax"], Count(x), a.flags, [value |-> r.value, carry |-> r.flags.CF])
      /\ RotationMakes(back, k, b.regs["ax"], Count(x), b.flags, [value |-> q.value, carry |-> q.flags.CF])
  BY <1>2, <1>4, <1>5, Zenon DEF ShiftLeaves
<1>10. b.flags.CF = r.flags.CF /\ c.flags.CF = q.flags.CF
  BY <1>2, <1>4
<1> QED
  BY <1>3, <1>7, <1>8, <1>9, <1>10 DEF Narrow

\* Two rotations of k bits undo one another.
LEMMA RotatedBack ==
  ASSUME NEW k \in Nat, k > 0, NEW x \in Number(k), NEW t \in Nat, NEW y, NEW z,
         y = RotateLeft(k, x, t % k), z = RotateLeft(k, y, (k - (t % k)) % k)
  PROVE  z = x
<1> DEFINE j == t % k
<1>1. j \in 0..(k - 1) /\ j \in 0..k /\ 0 \in 0..k
  BY DivMod
<1> HIDE DEF j
<1>2. CASE j = 0
  <2>1. (k - j) % k = 0
    BY <1>2
  <2>2. y = x /\ z = RotateLeft(k, y, 0)
    BY <1>2, <2>1, RotateNone DEF j
  <2> QED
    BY <2>2, RotateNone
<1>3. CASE j # 0
  <2>1. (k - j) % k = k - j
    BY <1>1, <1>3
  <2>2. RotateLeft(k, RotateLeft(k, x, j), k - j) = x
    BY <1>1, RotateType
  <2> QED
    BY <2>1, <2>2 DEF j
<1> QED
  BY <1>2, <1>3

LEMMA RotateBackResult ==
  ASSUME NEW w \in Widths, NEW a \in State, NEW b \in State, NEW c \in State, Narrow(a, Bits[w], "ax"),
         Does(I("rol", w, R("ax"), R("ecx")), a, b), Does(I("ror", w, R("ax"), R("ecx")), b, c)
  PROVE  c.regs["ax"] = a.regs["ax"]
<1> DEFINE k == Bits[w]
           x == a.regs["ax"]
           y == b.regs["ax"]
           z == c.regs["ax"]
<1>1. PICK t \in Nat : /\ RotationMakes("rol", k, x, t, a.flags, [value |-> y, carry |-> b.flags.CF])
                       /\ RotationMakes("ror", k, y, t, b.flags, [value |-> z, carry |-> c.flags.CF])
  BY RotatedTwice DEF RotateNames
<1>2. y = RotateLeft(k, x, t % k) /\ z = RotateLeft(k, y, (k - (t % k)) % k)
  BY <1>1 DEF RotationMakes
<1>3. k \in Nat /\ k > 0 /\ x \in Number(k)
  BY WidthFacts DEF Narrow
<1> HIDE DEF k, x, y, z
<1>4. z = x
  BY <1>2, <1>3, RotatedBack
<1> QED
  BY <1>4 DEF x, z

LEMMA ThroughCarry ==
  ASSUME NEW op \in {"rcl", "rcr"}, NEW k, NEW x, NEW t, NEW f, NEW v, NEW c,
         RotationMakes(op, k, x, t, f, [value |-> v, carry |-> c])
  PROVE  /\ v \in Number(k) /\ c \in {0, 1}
         /\ op = "rcl" => Pair(k, c, v) = RotateLeft(k + 1, Pair(k, f.CF, x), t % (k + 1))
         /\ op = "rcr" => Pair(k, c, v) = RotateLeft(k + 1, Pair(k, f.CF, x), (k + 1 - (t % (k + 1))) % (k + 1))
<1> DEFINE made == [value |-> v, carry |-> c]
<1>1. made.value = v /\ made.carry = c /\ RotationMakes(op, k, x, t, f, made)
  OBVIOUS
<1> HIDE DEF made
<1> QED
  BY <1>1, Zenon DEF RotationMakes

LEMMA RotateCarryResult ==
  ASSUME NEW w \in Widths, NEW a \in State, NEW b \in State, NEW c \in State, NEW d \in State, Narrow(a, Bits[w], "ax"),
         Does(Do("cmc"), a, b), Does(I("rcl", w, R("ax"), R("ecx")), b, c), Does(I("rcr", w, R("ax"), R("ecx")), c, d)
  PROVE  d.regs["ax"] = a.regs["ax"] /\ d.flags.CF = 1 - a.flags.CF
<1> DEFINE k == Bits[w]
           x == b.regs["ax"]
           y == c.regs["ax"]
           z == d.regs["ax"]
           cx == b.flags.CF
           cy == c.flags.CF
           cz == d.flags.CF
<1>1. b.regs = a.regs /\ cx = 1 - a.flags.CF
  BY ComplementedCarry
<1>2. Narrow(b, k, "ax")
  BY <1>1 DEF Narrow
<1>3. PICK t \in Nat : /\ RotationMakes("rcl", k, x, t, b.flags, [value |-> y, carry |-> cy])
                       /\ RotationMakes("rcr", k, y, t, c.flags, [value |-> z, carry |-> cz])
  BY <1>2, RotatedTwice DEF RotateNames
<1> DEFINE e == k + 1
           px == Pair(k, cx, x)
           py == Pair(k, cy, y)
           pz == Pair(k, cz, z)
<1>5. k \in Nat /\ e \in Nat /\ e > 0 /\ x \in Number(k) /\ cx \in {0, 1}
  BY <1>2, WidthFacts, CarryIs DEF Narrow
<1>4. /\ py = RotateLeft(e, px, t % e) /\ pz = RotateLeft(e, py, (e - (t % e)) % e)
      /\ z \in Number(k) /\ cz \in {0, 1}
  <2> HIDE DEF k, x, y, z, cx, cy, cz
  <2>1. Pair(k, cy, y) = RotateLeft(k + 1, Pair(k, b.flags.CF, x), t % (k + 1))
    BY <1>3, ThroughCarry
  <2>2. /\ Pair(k, cz, z) = RotateLeft(k + 1, Pair(k, c.flags.CF, y), (k + 1 - (t % (k + 1))) % (k + 1))
        /\ z \in Number(k) /\ cz \in {0, 1}
    BY <1>3, ThroughCarry
  <2>3. b.flags.CF = cx /\ c.flags.CF = cy
    BY DEF cx, cy
  <2>4. py = RotateLeft(e, px, t % e)
    BY <2>1, <2>3, Zenon
  <2>5. pz = RotateLeft(e, py, (e - (t % e)) % e)
    <3> DEFINE j == t % (k + 1)
    <3>1. j \in Int
      BY <1>5, DivMod
    <3> HIDE DEF j
    <3>2. (k + 1 - j) = (k + 1) - j
      BY <1>5, <3>1
    <3>3. pz = RotateLeft(k + 1, Pair(k, cy, y), (k + 1 - j) % (k + 1))
      BY <2>2, <2>3, Zenon DEF j
    <3> QED
      BY <3>2, <3>3, Zenon DEF j
  <2> QED
    BY <2>2, <2>4, <2>5, Zenon
<1> HIDE DEF k, x, y, z, cx, cy, cz
<1>6. px \in Number(e) /\ px \div 2^k = cx /\ Wrap(k, px) = x /\ pz \div 2^k = cz /\ Wrap(k, pz) = z
  BY <1>4, <1>5, CarryOnTop
<1> HIDE DEF px, py, pz, e
<1>7. pz = px
  BY <1>4, <1>5, <1>6, RotatedBack
<1>8. z = x /\ cz = cx
  BY <1>6, <1>7, Zenon
<1> QED
  BY <1>1, <1>8 DEF x, z, cx, cz

LEMMA RanOne ==
  ASSUME Running, Traced, start.task \in StraightTasks, Done, Len(code) = 1
  PROVE  Now \in State /\ Does(code[1], Began, Now)
<1>1. PICK p \in [1..(1 + 1) -> State] :
        p[1] = Began /\ p[1 + 1] = Now /\ \A j \in 1..1 : Does(code[j], p[j], p[j + 1])
  BY Ran
<1>2. 1 \in 1..(1 + 1) /\ 2 \in 1..(1 + 1) /\ 1 \in 1..1 /\ 1 + 1 = 2
  OBVIOUS
<1> QED
  BY <1>1, <1>2

LEMMA RanTwo ==
  ASSUME Running, Traced, start.task \in StraightTasks, Done, Len(code) = 2
  PROVE  Now \in State /\ \E b \in State : Does(code[1], Began, b) /\ Does(code[2], b, Now)
<1>1. PICK p \in [1..(2 + 1) -> State] :
        p[1] = Began /\ p[2 + 1] = Now /\ \A j \in 1..2 : Does(code[j], p[j], p[j + 1])
  BY Ran
<1>2. 2 \in 1..(2 + 1) /\ 3 \in 1..(2 + 1) /\ 1 \in 1..2 /\ 2 \in 1..2 /\ 1 + 1 = 2 /\ 2 + 1 = 3
  OBVIOUS
<1>3. p[2] \in State /\ p[3] \in State /\ Does(code[1], p[1], p[2]) /\ Does(code[2], p[2], p[3])
  BY <1>1, <1>2
<1> QED
  BY <1>1, <1>2, <1>3

LEMMA RanThree ==
  ASSUME Running, Traced, start.task \in StraightTasks, Done, Len(code) = 3
  PROVE  Now \in State /\ \E b, c \in State : Does(code[1], Began, b) /\ Does(code[2], b, c) /\ Does(code[3], c, Now)
<1>1. PICK p \in [1..(3 + 1) -> State] :
        p[1] = Began /\ p[3 + 1] = Now /\ \A j \in 1..3 : Does(code[j], p[j], p[j + 1])
  BY Ran
<1>2. /\ 2 \in 1..(3 + 1) /\ 3 \in 1..(3 + 1) /\ 4 \in 1..(3 + 1) /\ 1 \in 1..3 /\ 2 \in 1..3 /\ 3 \in 1..3
      /\ 1 + 1 = 2 /\ 2 + 1 = 3 /\ 3 + 1 = 4
  OBVIOUS
<1>3. /\ p[2] \in State /\ p[3] \in State /\ p[4] \in State
      /\ Does(code[1], p[1], p[2]) /\ Does(code[2], p[2], p[3]) /\ Does(code[3], p[3], p[4])
  BY <1>1, <1>2
<1> QED
  BY <1>1, <1>2, <1>3

LEMMA RanFour ==
  ASSUME Running, Traced, start.task \in StraightTasks, Done, Len(code) = 4
  PROVE  Now \in State /\ \E b, c, d \in State : /\ Does(code[1], Began, b) /\ Does(code[2], b, c)
                                                 /\ Does(code[3], c, d) /\ Does(code[4], d, Now)
<1>1. PICK p \in [1..(4 + 1) -> State] :
        p[1] = Began /\ p[4 + 1] = Now /\ \A j \in 1..4 : Does(code[j], p[j], p[j + 1])
  BY Ran
<1>2. /\ 2 \in 1..(4 + 1) /\ 3 \in 1..(4 + 1) /\ 4 \in 1..(4 + 1) /\ 5 \in 1..(4 + 1)
      /\ 1 \in 1..4 /\ 2 \in 1..4 /\ 3 \in 1..4 /\ 4 \in 1..4
      /\ 1 + 1 = 2 /\ 2 + 1 = 3 /\ 3 + 1 = 4 /\ 4 + 1 = 5
  OBVIOUS
<1>3. /\ p[2] \in State /\ p[3] \in State /\ p[4] \in State /\ p[5] \in State
      /\ Does(code[1], p[1], p[2]) /\ Does(code[2], p[2], p[3]) /\ Does(code[3], p[3], p[4])
      /\ Does(code[4], p[4], p[5])
  BY <1>1, <1>2
<1> QED
  BY <1>1, <1>2, <1>3

LEMMA RanFive ==
  ASSUME Running, Traced, start.task \in StraightTasks, Done, Len(code) = 5
  PROVE  Now \in State /\ \E b, c, d, e \in State : /\ Does(code[1], Began, b) /\ Does(code[2], b, c)
                                                    /\ Does(code[3], c, d) /\ Does(code[4], d, e) /\ Does(code[5], e, Now)
<1>1. PICK p \in [1..(5 + 1) -> State] :
        p[1] = Began /\ p[5 + 1] = Now /\ \A j \in 1..5 : Does(code[j], p[j], p[j + 1])
  BY Ran
<1>2. /\ 2 \in 1..(5 + 1) /\ 3 \in 1..(5 + 1) /\ 4 \in 1..(5 + 1) /\ 5 \in 1..(5 + 1) /\ 6 \in 1..(5 + 1)
      /\ 1 \in 1..5 /\ 2 \in 1..5 /\ 3 \in 1..5 /\ 4 \in 1..5 /\ 5 \in 1..5
      /\ 1 + 1 = 2 /\ 2 + 1 = 3 /\ 3 + 1 = 4 /\ 4 + 1 = 5 /\ 5 + 1 = 6
  OBVIOUS
<1>3. /\ p[2] \in State /\ p[3] \in State /\ p[4] \in State /\ p[5] \in State /\ p[6] \in State
      /\ Does(code[1], p[1], p[2]) /\ Does(code[2], p[2], p[3]) /\ Does(code[3], p[3], p[4])
      /\ Does(code[4], p[4], p[5]) /\ Does(code[5], p[5], p[6])
  BY <1>1, <1>2
<1> QED
  BY <1>1, <1>2, <1>3

LEMMA AddHolds ==
  ASSUME Running, Traced, Done, start.task = "add"
  PROVE  After + 2^(2 * n) * flags.CF = Before + Operand
<1>1. start.task \in StraightTasks /\ start.w \in Widths /\ code = Code("add", start.w, start.cc)
  BY BeganIs DEF StraightTasks, Idiom
<1>2. /\ Len(code) = 3 /\ code[1] = I("add", start.w, R("ax"), R("bx")) /\ code[2] = I("dec", "dword", R("ecx"), R("ecx"))
      /\ code[3] = I("adc", start.w, R("dx"), R("bp"))
  BY <1>1, AddCode, Zenon
<1>3. PICK b, c \in State : Does(code[1], Began, b) /\ Does(code[2], b, c) /\ Does(code[3], c, Now)
  BY <1>1, <1>2, RanThree, Zenon
<1>4. Now \in State /\ Began \in State /\ Halves(Began, Bits[start.w])
  BY <1>1, <1>2, RanThree, BeganIs, Zenon
<1>5. Pair(Bits[start.w], Now.regs["dx"], Now.regs["ax"]) + 2^(2 * Bits[start.w]) * Now.flags.CF
        = Pair(Bits[start.w], Began.regs["dx"], Began.regs["ax"]) + Pair(Bits[start.w], Began.regs["bp"], Began.regs["bx"])
  BY <1>1, <1>2, <1>3, <1>4, AddResult
<1> QED
  BY <1>5, BeganIs, NowIs, Zenon DEF After, Before, Operand, n

\* What the tasks are given, where more than its width matters.
LEMMA GivenOperands ==
  ASSUME NEW task, NEW w, NEW file \in Inputs(task, w)
  PROVE  /\ task \in {"full", "quarter", "abs", "extend"} => file["dx"] = 0 /\ file["bx"] = 0
         /\ task \in {"mulDiv", "imulIdiv"} => file["bp"] # 0
         /\ task = "idiv" => file["bx"] # 0
         /\ task \in {"daa", "das"} =>
              file["ax"] \in Digits /\ file["dx"] \in Digits /\ file["bx"] \in Digits /\ file["bp"] \in Digits
         /\ task = "aaa" => file["ax"] \in 0..9 /\ file["dx"] \in 0..8 /\ file["bx"] \in 0..9
         /\ task = "aas" => file["ax"] \in 0..9 /\ file["dx"] \in 1..9 /\ file["bx"] \in 0..9
         /\ task = "aam" => file["ax"] \in 0..9 /\ file["bx"] \in 0..9
         /\ task = "aad" => file["ax"] \in 0..9 /\ file["dx"] \in 0..9 /\ file["bx"] \in 1..9
<1> DEFINE S == Samples[w]
           Z == {0}
           N == 0..9
<1> HIDE DEF S
<1>1. CASE task \in {"full", "quarter", "abs", "extend"}
  <2>1. file \in Operands(S, Z, Z, Z)
    BY <1>1 DEF Inputs, S
  <2>2. file["dx"] \in Z /\ file["bx"] \in Z
    BY <2>1, OperandsAre, Zenon
  <2> QED
    BY <1>1, <2>2
<1>2. CASE task \in {"mulDiv", "imulIdiv"}
  <2> DEFINE P == S \ {0}
  <2>1. file \in Operands(S, Z, S, P)
    BY <1>2 DEF Inputs, S
  <2> HIDE DEF P
  <2>2. file["bp"] \in P
    BY <2>1, OperandsAre, Zenon
  <2> QED
    BY <1>2, <2>2 DEF P
<1>3. CASE task = "idiv"
  <2> DEFINE P == S \ {0}
  <2>1. file \in Operands(S, Z, P, Z)
    BY <1>3 DEF Inputs, S
  <2> HIDE DEF P
  <2>2. file["bx"] \in P
    BY <2>1, OperandsAre, Zenon
  <2> QED
    BY <1>3, <2>2 DEF P
<1>4. CASE task \in {"daa", "das"}
  <2>1. file \in Operands(Digits, Digits, Digits, Digits)
    BY <1>4 DEF Inputs
  <2> QED
    BY <1>4, <2>1, OperandsAre
<1>5. CASE task = "aaa"
  <2> DEFINE H == 0..8
  <2>1. file \in Operands(N, H, N, Z)
    BY <1>5 DEF Inputs
  <2>2. file["ax"] \in N /\ file["dx"] \in H /\ file["bx"] \in N
    BY <2>1, OperandsAre, Zenon
  <2> QED
    BY <1>5, <2>2
<1>6. CASE task = "aas"
  <2> DEFINE H == 1..9
  <2>1. file \in Operands(N, H, N, Z)
    BY <1>6 DEF Inputs
  <2>2. file["ax"] \in N /\ file["dx"] \in H /\ file["bx"] \in N
    BY <2>1, OperandsAre, Zenon
  <2> QED
    BY <1>6, <2>2
<1>7. CASE task = "aam"
  <2>1. file \in Operands(N, Z, N, Z)
    BY <1>7 DEF Inputs
  <2>2. file["ax"] \in N /\ file["bx"] \in N
    BY <2>1, OperandsAre, Zenon
  <2> QED
    BY <1>7, <2>2
<1>8. CASE task = "aad"
  <2> DEFINE P == 1..9
  <2>1. file \in Operands(N, N, P, Z)
    BY <1>8 DEF Inputs
  <2>2. file["ax"] \in N /\ file["dx"] \in N /\ file["bx"] \in P
    BY <2>1, OperandsAre, Zenon
  <2> QED
    BY <1>8, <2>2
<1> QED
  BY <1>1, <1>2, <1>3, <1>4, <1>5, <1>6, <1>7, <1>8

LEMMA SubHolds ==
  ASSUME Running, Traced, Done, start.task = "sub"
  PROVE  After - 2^(2 * n) * flags.CF = Before - Operand
<1>1. start.task \in StraightTasks /\ start.w \in Widths /\ code = Code("sub", start.w, start.cc)
  BY BeganIs DEF StraightTasks, Idiom
<1>2. /\ Len(code) = 3
      /\ code[1] = I("sub", start.w, R("ax"), R("bx"))
      /\ code[2] = I("inc", "dword", R("ecx"), R("ecx"))
      /\ code[3] = I("sbb", start.w, R("dx"), R("bp"))
  BY <1>1, SubCode, Zenon
<1>3. PICK b, c \in State : Does(code[1], Began, b) /\ Does(code[2], b, c) /\ Does(code[3], c, Now)
  BY <1>1, <1>2, RanThree, Zenon
<1>4. Now \in State /\ Began \in State /\ Halves(Began, Bits[start.w])
  BY <1>1, <1>2, RanThree, BeganIs, Zenon
<1>5. Pair(Bits[start.w], Now.regs["dx"], Now.regs["ax"]) - 2^(2 * Bits[start.w]) * Now.flags.CF = Pair(Bits[start.w], Began.regs["dx"], Began.regs["ax"]) - Pair(Bits[start.w], Began.regs["bp"], Began.regs["bx"])
  BY <1>1, <1>2, <1>3, <1>4, SubResult
<1> QED
  BY <1>5, BeganIs, NowIs, Zenon DEF After, Before, Operand, n

LEMMA NegHolds ==
  ASSUME Running, Traced, Done, start.task = "neg"
  PROVE  After = Wrap(2 * n, -Before)
<1>1. start.task \in StraightTasks /\ start.w \in Widths /\ code = Code("neg", start.w, start.cc)
  BY BeganIs DEF StraightTasks, Idiom
<1>2. /\ Len(code) = 3
      /\ code[1] = I("neg", start.w, R("ax"), R("ax"))
      /\ code[2] = Digit81(2, start.w, R("dx"), 0)
      /\ code[3] = I("neg", start.w, R("dx"), R("dx"))
  BY <1>1, NegCode, Zenon
<1>3. PICK b, c \in State : Does(code[1], Began, b) /\ Does(code[2], b, c) /\ Does(code[3], c, Now)
  BY <1>1, <1>2, RanThree, Zenon
<1>4. Now \in State /\ Began \in State /\ Halves(Began, Bits[start.w])
  BY <1>1, <1>2, RanThree, BeganIs, Zenon
<1>5. Pair(Bits[start.w], Now.regs["dx"], Now.regs["ax"]) = Wrap(2 * Bits[start.w], -Pair(Bits[start.w], Began.regs["dx"], Began.regs["ax"]))
  BY <1>1, <1>2, <1>3, <1>4, NegResult
<1> QED
  BY <1>5, BeganIs, NowIs, Zenon DEF After, Before, Operand, n

LEMMA DoubleHolds ==
  ASSUME Running, Traced, Done, start.task = "double"
  PROVE  After + 2^(2 * n) * flags.CF = 2 * Before
<1>1. start.task \in StraightTasks /\ start.w \in Widths /\ code = Code("double", start.w, start.cc)
  BY BeganIs DEF StraightTasks, Idiom
<1>2. /\ Len(code) = 2
      /\ code[1] = I("shl", start.w, R("ax"), Imm(1))
      /\ code[2] = I("rcl", start.w, R("dx"), Imm(1))
  BY <1>1, DoubleCode, Zenon
<1>3. PICK b \in State : Does(code[1], Began, b) /\ Does(code[2], b, Now)
  BY <1>1, <1>2, RanTwo, Zenon
<1>4. Now \in State /\ Began \in State /\ Halves(Began, Bits[start.w])
  BY <1>1, <1>2, RanTwo, BeganIs, Zenon
<1>5. Pair(Bits[start.w], Now.regs["dx"], Now.regs["ax"]) + 2^(2 * Bits[start.w]) * Now.flags.CF = 2 * Pair(Bits[start.w], Began.regs["dx"], Began.regs["ax"])
  BY <1>1, <1>2, <1>3, <1>4, DoubleResult
<1> QED
  BY <1>5, BeganIs, NowIs, Zenon DEF After, Before, Operand, n

LEMMA HalveHolds ==
  ASSUME Running, Traced, Done, start.task = "halve"
  PROVE  2 * Signed(2 * n, After) + flags.CF = Signed(2 * n, Before)
<1>1. start.task \in StraightTasks /\ start.w \in Widths /\ code = Code("halve", start.w, start.cc)
  BY BeganIs DEF StraightTasks, Idiom
<1>2. /\ Len(code) = 2
      /\ code[1] = I("sar", start.w, R("dx"), Imm(1))
      /\ code[2] = I("rcr", start.w, R("ax"), Imm(1))
  BY <1>1, HalveCode, Zenon
<1>3. PICK b \in State : Does(code[1], Began, b) /\ Does(code[2], b, Now)
  BY <1>1, <1>2, RanTwo, Zenon
<1>4. Now \in State /\ Began \in State /\ Halves(Began, Bits[start.w])
  BY <1>1, <1>2, RanTwo, BeganIs, Zenon
<1>5. 2 * Signed(2 * Bits[start.w], Pair(Bits[start.w], Now.regs["dx"], Now.regs["ax"])) + Now.flags.CF = Signed(2 * Bits[start.w], Pair(Bits[start.w], Began.regs["dx"], Began.regs["ax"]))
  BY <1>1, <1>2, <1>3, <1>4, HalveResult
<1> QED
  BY <1>5, BeganIs, NowIs, Zenon DEF After, Before, Operand, n

LEMMA HalveUnsignedHolds ==
  ASSUME Running, Traced, Done, start.task = "halveUnsigned"
  PROVE  2 * After + flags.CF = Before
<1>1. start.task \in StraightTasks /\ start.w \in Widths /\ code = Code("halveUnsigned", start.w, start.cc)
  BY BeganIs DEF StraightTasks, Idiom
<1>2. /\ Len(code) = 2
      /\ code[1] = I("shr", start.w, R("dx"), Imm(1))
      /\ code[2] = I("rcr", start.w, R("ax"), Imm(1))
  BY <1>1, HalveUnsignedCode, Zenon
<1>3. PICK b \in State : Does(code[1], Began, b) /\ Does(code[2], b, Now)
  BY <1>1, <1>2, RanTwo, Zenon
<1>4. Now \in State /\ Began \in State /\ Halves(Began, Bits[start.w])
  BY <1>1, <1>2, RanTwo, BeganIs, Zenon
<1>5. 2 * Pair(Bits[start.w], Now.regs["dx"], Now.regs["ax"]) + Now.flags.CF = Pair(Bits[start.w], Began.regs["dx"], Began.regs["ax"])
  BY <1>1, <1>2, <1>3, <1>4, HalveUnsignedResult
<1> QED
  BY <1>5, BeganIs, NowIs, Zenon DEF After, Before, Operand, n

LEMMA DecrementHolds ==
  ASSUME Running, Traced, Done, start.task = "decrement"
  PROVE  After = Wrap(2 * n, Before - 1)
<1>1. start.task \in StraightTasks /\ start.w \in Widths /\ code = Code("decrement", start.w, start.cc)
  BY BeganIs DEF StraightTasks, Idiom
<1>2. /\ Len(code) = 2
      /\ code[1] = Digit83(0, start.w, R("ax"), -1)
      /\ code[2] = Digit83(2, start.w, R("dx"), -1)
  BY <1>1, DecrementCode, Zenon
<1>3. PICK b \in State : Does(code[1], Began, b) /\ Does(code[2], b, Now)
  BY <1>1, <1>2, RanTwo, Zenon
<1>4. Now \in State /\ Began \in State /\ Halves(Began, Bits[start.w])
  BY <1>1, <1>2, RanTwo, BeganIs, Zenon
<1>5. Pair(Bits[start.w], Now.regs["dx"], Now.regs["ax"]) = Wrap(2 * Bits[start.w], Pair(Bits[start.w], Began.regs["dx"], Began.regs["ax"]) - 1)
  BY <1>1, <1>2, <1>3, <1>4, DecrementResult
<1> QED
  BY <1>5, BeganIs, NowIs, Zenon DEF After, Before, Operand, n

LEMMA ReduceHolds ==
  ASSUME Running, Traced, Done, start.task = "reduce"
  PROVE  After - 2^(2 * n) * flags.CF = Before - 2^n - 2^(n - 1)
<1>1. start.task \in StraightTasks /\ start.w \in Widths /\ code = Code("reduce", start.w, start.cc)
  BY BeganIs DEF StraightTasks, Idiom
<1>2. /\ Len(code) = 2
      /\ code[1] = Digit81(5, start.w, R("ax"), 2^(Bits[start.w] - 1))
      /\ code[2] = Digit81(3, start.w, R("dx"), 1)
  BY <1>1, ReduceCode, Zenon
<1>3. PICK b \in State : Does(code[1], Began, b) /\ Does(code[2], b, Now)
  BY <1>1, <1>2, RanTwo, Zenon
<1>4. Now \in State /\ Began \in State /\ Halves(Began, Bits[start.w])
  BY <1>1, <1>2, RanTwo, BeganIs, Zenon
<1>5. Pair(Bits[start.w], Now.regs["dx"], Now.regs["ax"]) - 2^(2 * Bits[start.w]) * Now.flags.CF = Pair(Bits[start.w], Began.regs["dx"], Began.regs["ax"]) - 2^Bits[start.w] - 2^(Bits[start.w] - 1)
  BY <1>1, <1>2, <1>3, <1>4, ReduceResult
<1> QED
  BY <1>5, BeganIs, NowIs, Zenon DEF After, Before, Operand, n

LEMMA AlignHolds ==
  ASSUME Running, Traced, Done, start.task = "align"
  PROVE  regs["ax"] = Wrap(n, 4 * ((s["ax"] + 3) \div 4))
<1>1. start.task \in StraightTasks /\ start.w \in Widths /\ code = Code("align", start.w, start.cc)
  BY BeganIs DEF StraightTasks, Idiom
<1>2. /\ Len(code) = 2
      /\ code[1] = Digit83(0, start.w, R("ax"), 3)
      /\ code[2] = Digit83(4, start.w, R("ax"), -4)
  BY <1>1, AlignCode, Zenon
<1>3. PICK b \in State : Does(code[1], Began, b) /\ Does(code[2], b, Now)
  BY <1>1, <1>2, RanTwo, Zenon
<1>4. Now \in State /\ Began \in State /\ Halves(Began, Bits[start.w])
  BY <1>1, <1>2, RanTwo, BeganIs, Zenon
<1>5. Now.regs["ax"] = Wrap(Bits[start.w], 4 * ((Began.regs["ax"] + 3) \div 4))
  BY <1>1, <1>2, <1>3, <1>4, AlignResult
<1> QED
  BY <1>5, BeganIs, NowIs, Zenon DEF After, Before, Operand, n

LEMMA FullHolds ==
  ASSUME Running, Traced, Done, start.task = "full"
  PROVE  regs["bx"] = Bit(s["ax"] = 2^n - 1) /\ regs["ax"] = s["ax"]
<1>1. start.task \in StraightTasks /\ start.w \in Widths /\ code = Code("full", start.w, start.cc)
  BY BeganIs DEF StraightTasks, Idiom
<1>2. /\ Len(code) = 2
      /\ code[1] = Digit83(7, start.w, R("ax"), -1)
      /\ code[2] = Set("z", R("bx"))
  BY <1>1, FullCode, Zenon
<1>3. PICK b \in State : Does(code[1], Began, b) /\ Does(code[2], b, Now)
  BY <1>1, <1>2, RanTwo, Zenon
<1>4. Now \in State /\ Began \in State /\ Halves(Began, Bits[start.w])
  BY <1>1, <1>2, RanTwo, BeganIs, Zenon
<1>5. Began.regs["bx"] = 0
  BY GivenOperands, BeganIs
<1>6. Now.regs["bx"] = Bit(Began.regs["ax"] = 2^Bits[start.w] - 1) /\ Now.regs["ax"] = Began.regs["ax"]
  BY <1>1, <1>2, <1>3, <1>4, <1>5, FullResult
<1> QED
  BY <1>6, BeganIs, NowIs, Zenon DEF After, Before, Operand, n

LEMMA PositiveHolds ==
  ASSUME Running, Traced, Done, start.task = "positive"
  PROVE  regs["ax"] = s["ax"] - TopBit(n, s["ax"]) * 2^(n - 1)
<1>1. start.task \in StraightTasks /\ start.w \in Widths /\ code = Code("positive", start.w, start.cc)
  BY BeganIs DEF StraightTasks, Idiom
<1>2. /\ Len(code) = 2
      /\ code[1] = Digit81(1, start.w, R("ax"), 2^(Bits[start.w] - 1))
      /\ code[2] = Digit81(6, start.w, R("ax"), 2^(Bits[start.w] - 1))
  BY <1>1, PositiveCode, Zenon
<1>3. PICK b \in State : Does(code[1], Began, b) /\ Does(code[2], b, Now)
  BY <1>1, <1>2, RanTwo, Zenon
<1>4. Now \in State /\ Began \in State /\ Halves(Began, Bits[start.w])
  BY <1>1, <1>2, RanTwo, BeganIs, Zenon
<1>5. Now.regs["ax"] = Began.regs["ax"] - TopBit(Bits[start.w], Began.regs["ax"]) * 2^(Bits[start.w] - 1)
  BY <1>1, <1>2, <1>3, <1>4, PositiveResult
<1> QED
  BY <1>5, BeganIs, NowIs, Zenon DEF After, Before, Operand, n

LEMMA RotateHolds ==
  ASSUME Running, Traced, Done, start.task = "rotate"
  PROVE  regs["ax"] = s["ax"]
<1>1. start.task \in StraightTasks /\ start.w \in Widths /\ code = Code("rotate", start.w, start.cc)
  BY BeganIs DEF StraightTasks, Idiom
<1>2. /\ Len(code) = 2
      /\ code[1] = I("rol", start.w, R("ax"), R("ecx"))
      /\ code[2] = I("ror", start.w, R("ax"), R("ecx"))
  BY <1>1, RotateCode, Zenon
<1>3. PICK b \in State : Does(code[1], Began, b) /\ Does(code[2], b, Now)
  BY <1>1, <1>2, RanTwo, Zenon
<1>4. Now \in State /\ Began \in State /\ Halves(Began, Bits[start.w])
  BY <1>1, <1>2, RanTwo, BeganIs, Zenon
<1>5. Narrow(Began, Bits[start.w], "ax")
  BY <1>4, Zenon DEF Halves
<1>6. Now.regs["ax"] = Began.regs["ax"]
  BY <1>1, <1>2, <1>3, <1>4, <1>5, RotateBackResult
<1> QED
  BY <1>6, BeganIs, NowIs, Zenon DEF After, Before, Operand, n

LEMMA RotateCarryHolds ==
  ASSUME Running, Traced, Done, start.task = "rotateCarry"
  PROVE  regs["ax"] = s["ax"] /\ flags.CF = 1 - start.flags.CF
<1>1. start.task \in StraightTasks /\ start.w \in Widths /\ code = Code("rotateCarry", start.w, start.cc)
  BY BeganIs DEF StraightTasks, Idiom
<1>2. /\ Len(code) = 3
      /\ code[1] = Do("cmc")
      /\ code[2] = I("rcl", start.w, R("ax"), R("ecx"))
      /\ code[3] = I("rcr", start.w, R("ax"), R("ecx"))
  BY <1>1, RotateCarryCode, Zenon
<1>3. PICK b, c \in State : Does(code[1], Began, b) /\ Does(code[2], b, c) /\ Does(code[3], c, Now)
  BY <1>1, <1>2, RanThree, Zenon
<1>4. Now \in State /\ Began \in State /\ Halves(Began, Bits[start.w])
  BY <1>1, <1>2, RanThree, BeganIs, Zenon
<1>5. Narrow(Began, Bits[start.w], "ax")
  BY <1>4, Zenon DEF Halves
<1>6. Now.regs["ax"] = Began.regs["ax"] /\ Now.flags.CF = 1 - Began.flags.CF
  BY <1>1, <1>2, <1>3, <1>4, <1>5, RotateCarryResult
<1> QED
  BY <1>6, BeganIs, NowIs, Zenon DEF After, Before, Operand, n

LEMMA BoolHolds ==
  ASSUME Running, Traced, Done, start.task = "bool"
  PROVE  regs["ax"] = Bit(s["ax"] # 0)
<1>1. start.task \in StraightTasks /\ start.w \in Widths /\ code = Code("bool", start.w, start.cc)
  BY BeganIs DEF StraightTasks, Idiom
<1>2. /\ Len(code) = 3
      /\ code[1] = I("neg", start.w, R("ax"), R("ax"))
      /\ code[2] = I("sbb", start.w, R("ax"), R("ax"))
      /\ code[3] = I("neg", start.w, R("ax"), R("ax"))
  BY <1>1, BoolCode, Zenon
<1>3. PICK b, c \in State : Does(code[1], Began, b) /\ Does(code[2], b, c) /\ Does(code[3], c, Now)
  BY <1>1, <1>2, RanThree, Zenon
<1>4. Now \in State /\ Began \in State /\ Halves(Began, Bits[start.w])
  BY <1>1, <1>2, RanThree, BeganIs, Zenon
<1>5. Now.regs["ax"] = Bit(Began.regs["ax"] # 0)
  BY <1>1, <1>2, <1>3, <1>4, BoolResult
<1> QED
  BY <1>5, BeganIs, NowIs, Zenon DEF After, Before, Operand, n

LEMMA BlendHolds ==
  ASSUME Running, Traced, Done, start.task = "blend"
  PROVE  \A i \in 0..(n - 1) :
           BitAt(regs["ax"], i) = BitAt(IF BitAt(s["bx"], i) = 1 THEN s["ax"] ELSE s["dx"], i)
<1>1. start.task \in StraightTasks /\ start.w \in Widths /\ code = Code("blend", start.w, start.cc)
  BY BeganIs DEF StraightTasks, Idiom
<1>2. /\ Len(code) = 4
      /\ code[1] = I("and", start.w, R("ax"), R("bx"))
      /\ code[2] = I("not", start.w, R("bx"), R("bx"))
      /\ code[3] = I("and", start.w, R("dx"), R("bx"))
      /\ code[4] = I("or", start.w, R("ax"), R("dx"))
  BY <1>1, BlendCode, Zenon
<1>3. PICK b, c, d \in State : Does(code[1], Began, b) /\ Does(code[2], b, c) /\ Does(code[3], c, d) /\ Does(code[4], d, Now)
  BY <1>1, <1>2, RanFour, Zenon
<1>4. Now \in State /\ Began \in State /\ Halves(Began, Bits[start.w])
  BY <1>1, <1>2, RanFour, BeganIs, Zenon
<1>5. \A i \in 0..(Bits[start.w] - 1) :
           BitAt(Now.regs["ax"], i) = BitAt(IF BitAt(Began.regs["bx"], i) = 1 THEN Began.regs["ax"] ELSE Began.regs["dx"], i)
  BY <1>1, <1>2, <1>3, <1>4, BlendResult
<1> QED
  BY <1>5, BeganIs, NowIs, Zenon DEF After, Before, Operand, n


\* Sums, differences, negations, shifts and masks wider than a register come out
\* right for every width and every operand of that width: each instruction leaves to
\* the next the carry the processor would (ALU_IMP_2arg_op, _cl_based_op, _1arg_op,
\* instruction_80_81, instruction_83).
THEOREM WideArithmeticHolds == Spec => []WideArithmetic
<1>1. ASSUME Running, Traced PROVE WideArithmetic
  <2> SUFFICES ASSUME Done PROVE WideArithmetic
    BY DEF WideArithmetic
  <2>1. CASE start.task = "add"
    <3>1. After + 2^(2 * n) * flags.CF = Before + Operand
      BY <1>1, <2>1, AddHolds, Zenon
    <3> QED
      BY <2>1, <3>1 DEF WideArithmetic
  <2>2. CASE start.task = "sub"
    <3>1. After - 2^(2 * n) * flags.CF = Before - Operand
      BY <1>1, <2>2, SubHolds, Zenon
    <3> QED
      BY <2>2, <3>1 DEF WideArithmetic
  <2>3. CASE start.task = "neg"
    <3>1. After = Wrap(2 * n, -Before)
      BY <1>1, <2>3, NegHolds, Zenon
    <3> QED
      BY <2>3, <3>1 DEF WideArithmetic
  <2>4. CASE start.task = "double"
    <3>1. After + 2^(2 * n) * flags.CF = 2 * Before
      BY <1>1, <2>4, DoubleHolds, Zenon
    <3> QED
      BY <2>4, <3>1 DEF WideArithmetic
  <2>5. CASE start.task = "halve"
    <3>1. 2 * Signed(2 * n, After) + flags.CF = Signed(2 * n, Before)
      BY <1>1, <2>5, HalveHolds, Zenon
    <3> QED
      BY <2>5, <3>1 DEF WideArithmetic
  <2>6. CASE start.task = "halveUnsigned"
    <3>1. 2 * After + flags.CF = Before
      BY <1>1, <2>6, HalveUnsignedHolds, Zenon
    <3> QED
      BY <2>6, <3>1 DEF WideArithmetic
  <2>7. CASE start.task = "decrement"
    <3>1. After = Wrap(2 * n, Before - 1)
      BY <1>1, <2>7, DecrementHolds, Zenon
    <3> QED
      BY <2>7, <3>1 DEF WideArithmetic
  <2>8. CASE start.task = "reduce"
    <3>1. After - 2^(2 * n) * flags.CF = Before - 2^n - 2^(n - 1)
      BY <1>1, <2>8, ReduceHolds, Zenon
    <3> QED
      BY <2>8, <3>1 DEF WideArithmetic
  <2>9. CASE start.task = "align"
    <3>1. regs["ax"] = Wrap(n, 4 * ((s["ax"] + 3) \div 4))
      BY <1>1, <2>9, AlignHolds, Zenon
    <3> QED
      BY <2>9, <3>1 DEF WideArithmetic
  <2>10. CASE start.task = "full"
    <3>1. regs["bx"] = Bit(s["ax"] = 2^n - 1) /\ regs["ax"] = s["ax"]
      BY <1>1, <2>10, FullHolds, Zenon
    <3> QED
      BY <2>10, <3>1 DEF WideArithmetic
  <2>11. CASE start.task = "positive"
    <3>1. regs["ax"] = s["ax"] - TopBit(n, s["ax"]) * 2^(n - 1)
      BY <1>1, <2>11, PositiveHolds, Zenon
    <3> QED
      BY <2>11, <3>1 DEF WideArithmetic
  <2>12. CASE start.task = "rotate"
    <3>1. regs["ax"] = s["ax"]
      BY <1>1, <2>12, RotateHolds, Zenon
    <3> QED
      BY <2>12, <3>1 DEF WideArithmetic
  <2>13. CASE start.task = "rotateCarry"
    <3>1. regs["ax"] = s["ax"] /\ flags.CF = 1 - start.flags.CF
      BY <1>1, <2>13, RotateCarryHolds, Zenon
    <3> QED
      BY <2>13, <3>1 DEF WideArithmetic
  <2>14. CASE start.task = "bool"
    <3>1. regs["ax"] = Bit(s["ax"] # 0)
      BY <1>1, <2>14, BoolHolds, Zenon
    <3> QED
      BY <2>14, <3>1 DEF WideArithmetic
  <2>15. CASE start.task = "blend"
    <3>1. \A i \in 0..(n - 1) :
            BitAt(regs["ax"], i) = BitAt(IF BitAt(s["bx"], i) = 1 THEN s["ax"] ELSE s["dx"], i)
      BY <1>1, <2>15, BlendHolds, Zenon
    <3> QED
      BY <2>15, <3>1 DEF WideArithmetic
  <2>16. CASE start.task \notin {"add", "sub", "neg", "double", "halve", "halveUnsigned", "decrement", "reduce", "align", "full", "positive", "rotate", "rotateCarry", "bool", "blend"}
    BY <2>16 DEF WideArithmetic
  <2> QED
    BY <2>1, <2>2, <2>3, <2>4, <2>5, <2>6, <2>7, <2>8, <2>9, <2>10, <2>11, <2>12, <2>13, <2>14, <2>15, <2>16
<1> QED
  BY <1>1, RunningAlways, TracedAlways, PTL

--------------------------------------------------------------------------------
(* Products and quotients, idiom by idiom *)

\* Division as C does it.
LEMMA QuotientIs ==
  ASSUME NEW x \in Int, NEW y \in Int, y # 0
  PROVE  /\ Divided(Quotient(x, y), Remainder(x, y), x, y)
         /\ Quotient(x, y) \in Int /\ Remainder(x, y) \in Int
<1> DEFINE m == Magnitude(x)
           d == Magnitude(y)
           t == m \div d
           q == Quotient(x, y)
           r == Remainder(x, y)
<1>1. m \in Int /\ m >= 0 /\ d \in Int /\ d > 0
  BY DEF Magnitude, Sign
<1>2. /\ x >= 0 => m = x /\ Sign(x) = 1
      /\ x < 0 => m = -x /\ Sign(x) = -1
      /\ y >= 0 => d = y /\ Sign(y) = 1
      /\ y < 0 => d = -y /\ Sign(y) = -1
  BY DEF Magnitude, Sign
<1>3. q = (Sign(x) * Sign(y)) * t /\ r = x - y * q
  BY DEF Quotient, Remainder
<1> DEFINE e == m % d
           dt == d * t
<1> HIDE DEF m, d
<1>4. m = dt + e /\ t \in Int /\ e \in 0..(d - 1) /\ dt \in Int
  BY <1>1, DivMod
<1> HIDE DEF q, r, t, e
<1>5. /\ x >= 0 /\ y >= 0 => q = t /\ y * q = dt
      /\ x >= 0 /\ y < 0 => q = -t /\ y * q = dt
      /\ x < 0 /\ y >= 0 => q = -t /\ y * q = -dt
      /\ x < 0 /\ y < 0 => q = t /\ y * q = -dt
  BY <1>2, <1>3, <1>4
<1>6. q \in Int /\ q * y = y * q
  BY <1>4, <1>5
<1> DEFINE u == y * q
<1>7. u \in Int /\ r = x - u /\ u = q * y
  BY <1>3, <1>6
<1> HIDE DEF u, dt
<1>8. /\ x >= 0 => r = e
      /\ x < 0 => r = -e
  BY <1>2, <1>4, <1>5, <1>7 DEF u
<1>9. Magnitude(r) = e /\ r \in Int /\ (r # 0 => Sign(r) = Sign(x))
  BY <1>4, <1>8 DEF Magnitude, Sign
<1>10. q * y + r = x /\ e < d
  BY <1>1, <1>4, <1>7
<1> QED
  BY <1>6, <1>9, <1>10 DEF Divided, q, r, d

LEMMA NaturalQuotient ==
  ASSUME NEW x \in Nat, NEW y \in Nat, y # 0
  PROVE  Quotient(x, y) = x \div y /\ Remainder(x, y) = x % y
<1>1. Sign(x) = 1 /\ Sign(y) = 1 /\ Magnitude(x) = x /\ Magnitude(y) = y
  BY DEF Sign, Magnitude
<1> DEFINE t == x \div y
           e == x % y
<1>2. x = y * t + e /\ t \in Int /\ e \in Int
  BY DivMod
<1>3. Quotient(x, y) = t
  BY <1>1, <1>2 DEF Quotient
<1>4. Remainder(x, y) = x - y * t
  BY <1>3 DEF Remainder
<1> HIDE DEF t, e
<1> DEFINE yt == y * t
<1>5. yt \in Int /\ x = yt + e
  BY <1>2
<1> HIDE DEF yt
<1>6. x - yt = e
  BY <1>2, <1>5
<1> QED
  BY <1>3, <1>4, <1>6 DEF yt, t, e

\* The pair of a narrow state, and what a division takes it for.
Whole(a, k) == Pair(k, a.regs["dx"], a.regs["ax"])

LEMMA WholeIs ==
  ASSUME NEW a \in State, NEW w \in Widths, Narrow(a, Bits[w], "ax"), Narrow(a, Bits[w], "dx")
  PROVE  /\ Whole(a, Bits[w]) \in Number(2 * Bits[w]) /\ Whole(a, Bits[w]) \in Nat
         /\ SignedIn(a.regs, w) = Signed(2 * Bits[w], Whole(a, Bits[w]))
         /\ Signed(2 * Bits[w], Whole(a, Bits[w])) = Signed(Bits[w], a.regs["dx"]) * 2^Bits[w] + a.regs["ax"]
         /\ w # "word" => UnsignedIn(a.regs, w) = Whole(a, Bits[w])
         /\ w = "word" => UnsignedIn(a.regs, w) = Wrap(2 * Bits["dword"], Signed(2 * Bits[w], Whole(a, Bits[w])))
<1> DEFINE k == Bits[w]
<1>1. k \in Nat /\ k > 0
  BY WidthFacts
<1>2. In(a.regs, k, R("ax")) = a.regs["ax"] /\ In(a.regs, k, R("dx")) = a.regs["dx"]
  BY <1>1, InIs
<1>3. /\ a.regs["ax"] \in Number(k) /\ a.regs["dx"] \in Number(k)
  BY DEF Narrow
<1>4. Whole(a, k) \in Number(2 * k) /\ Signed(2 * k, Whole(a, k)) = Signed(k, a.regs["dx"]) * 2^k + a.regs["ax"]
  BY <1>1, <1>3, SignedPair DEF Whole
<1>5. Whole(a, k) \in Nat
  <2>1. 2 * k \in Nat
    BY <1>1
  <2>2. 2^(2 * k) \in Nat
    BY <2>1, PowerType
  <2> QED
    BY <1>4, <2>2 DEF Number
<1>6. SignedIn(a.regs, w) = Signed(2 * k, Whole(a, k))
  BY <1>2, Zenon DEF SignedIn, Whole
<1>7. /\ w # "word" => UnsignedIn(a.regs, w) = Whole(a, k)
      /\ w = "word" => UnsignedIn(a.regs, w) = Wrap(2 * Bits["dword"], Signed(2 * k, Whole(a, k)))
  BY <1>2, Zenon DEF UnsignedIn, Whole
<1> QED
  BY <1>4, <1>5, <1>6, <1>7

\* Where div takes the pair for what it holds, and that it is refused elsewhere.
LEMMA UnsignedInIs ==
  ASSUME NEW a \in State, NEW w \in Widths, Narrow(a, Bits[w], "ax"), Narrow(a, Bits[w], "dx"),
         NEW y \in Number(Bits[w])
  PROVE  IF w = "word" /\ Whole(a, Bits[w]) >= 2^(2 * Bits[w] - 1)
         THEN ~ Div32Accepts(Bits[w], UnsignedIn(a.regs, w), y)
         ELSE UnsignedIn(a.regs, w) = Whole(a, Bits[w])
<1> DEFINE k == Bits[w]
           m == 2 * k
           x == Whole(a, k)
           z == UnsignedIn(a.regs, w)
           l == 2 * Bits["dword"]
<1>1. k \in Nat /\ k > 0 /\ m \in Nat /\ m > 0 /\ x \in Number(m) /\ x \in Nat
  BY WidthFacts, WholeIs
<1> SUFFICES ASSUME w = "word"
             PROVE  IF x >= 2^(m - 1) THEN ~ Div32Accepts(k, z, y) ELSE z = x
  BY WholeIs, Zenon
<1>2. l \in Nat /\ l > m + 1 /\ z = Wrap(l, Signed(m, x))
  BY WholeIs, BitsAssumption
<1> DEFINE h == 2^(m - 1)
           p == 2^m
           q == 2^l
<1>3. h \in Int /\ h > 0 /\ p = 2 * h
  <2> HIDE DEF m
  <2> QED
    BY <1>1, PowerHalf
<1>4. q \in Int /\ 4 * p <= q
  <2>1. m + 2 \in Nat /\ m + 2 <= l /\ m + 2 = (m + 1) + 1
    BY <1>1, <1>2
  <2>2. 2^(m + 1) = 2 * p /\ 2^((m + 1) + 1) = 2 * 2^(m + 1)
    BY <1>1, PowerNext
  <2>3. 2^(m + 2) <= q /\ q \in Nat /\ p \in Nat
    BY <1>1, <1>2, <2>1, PowerOrder, PowerType
  <2> QED
    BY <2>1, <2>2, <2>3
<1>5. SignedTo(m, x, Signed(m, x))
  BY <1>1, SignedIs
<1> HIDE DEF k, x, z, m
<1>6. CASE x >= h
  <2>1. Signed(m, x) = x - p /\ x < p /\ x \in Int
    BY <1>1, <1>5, <1>6 DEF SignedTo, Number
  <2>2. x - p + q \in Number(l) /\ x - p + q \in Int
    BY <1>3, <1>4, <1>6, <2>1 DEF Number
  <2>3. z = x - p + q
    <3> DEFINE v == x - p + q
    <3>1. v \in Number(l) /\ v \in Int /\ q \in Int /\ -1 \in Int
      BY <1>4, <2>2
    <3>2. Signed(m, x) = (-1) * q + v
      BY <1>3, <1>4, <2>1
    <3> HIDE DEF v
    <3>3. Wrap(l, (-1) * 2^l + v) = v
      BY <1>2, <3>1, WrapIs
    <3> QED
      BY <1>2, <3>2, <3>3 DEF v
  <2>4. ASSUME y # 0, z \div y < 2^k PROVE FALSE
    <3> DEFINE g == 2^k
               t == z \div y
               yt == y * t
    <3>1. g \in Int /\ g > 0 /\ p = g * g /\ y \in 1..(g - 1)
      <4>1. g \in Nat /\ g > 0 /\ 2^(2 * k) = g * g /\ p = 2^(2 * k)
        BY <1>1, PowerType, DoubleWidth DEF m
      <4>2. y \in 0..(g - 1)
        BY DEF Number, k
      <4> HIDE DEF g, p
      <4> QED
        BY <4>1, <4>2, <2>4
    <3>2. z \in Int /\ z = yt + (z % y) /\ z % y \in 0..(y - 1) /\ t \in Int /\ t < g
      <4>1. z \in Int
        BY <2>2, <2>3
      <4>2. y \in Int /\ y > 0
        BY <3>1
      <4> QED
        BY <4>1, <4>2, <2>4, DivMod
    <3>3. z >= 3 * p
      BY <1>3, <1>4, <1>6, <2>1, <2>3
    <3> HIDE DEF g, t
    <3>4. yt \in Int /\ yt <= g * g
      <4>1. t <= g /\ y <= g /\ y > 0 /\ y \in Int
        BY <3>1, <3>2
      <4>2. y * t <= y * g
        BY <4>1, <3>1, <3>2
      <4>3. y * g <= g * g
        BY <4>1, <3>1
      <4>4. y * t \in Int /\ y * g \in Int /\ g * g \in Int
        BY <3>1, <3>2
      <4> QED
        BY <4>2, <4>3, <4>4
    <3>5. z < p + p
      <4>1. y <= p
        <5>1. g <= g * g
          BY <3>1
        <5> QED
          BY <3>1, <5>1
      <4>2. yt <= p /\ z % y < y /\ z % y \in Int
        BY <3>1, <3>2, <3>4
      <4> HIDE DEF yt, p
      <4>3. p \in Int /\ y \in Int
        BY <1>3, <3>1
      <4> QED
        BY <4>1, <4>2, <4>3, <3>2, <3>4
    <3> QED
      BY <1>3, <3>3, <3>5, <3>2
  <2> QED
    BY <1>6, <2>4 DEF Div32Accepts
<1>7. CASE ~ (x >= h)
  <2>1. Signed(m, x) = x
    BY <1>1, <1>5, <1>7 DEF SignedTo, Number
  <2>2. x \in Number(l)
    BY <1>1, <1>3, <1>4 DEF Number
  <2>3. z = x
    BY <1>2, <2>1, <2>2, WrapSmall
  <2> QED
    BY <1>7, <2>3
<1> QED
  BY <1>6, <1>7

LEMMA UnsignedDivision ==
  ASSUME NEW a \in State, NEW b \in State, NEW w \in Widths, Narrow(a, Bits[w], "ax"), Narrow(a, Bits[w], "dx"),
         NEW e, Narrow(a, Bits[w], e), Does(I("div", w, R("ax"), R(e)), a, b)
  PROVE  Divided(b.regs["ax"], b.regs["dx"], Whole(a, Bits[w]), a.regs[e])
<1> DEFINE k == Bits[w]
           x == Whole(a, k)
           z == UnsignedIn(a.regs, w)
           y == a.regs[e]
           q == z \div y
           r == z % y
<1>1. Div32Accepts(k, z, y) /\ (z \in Int /\ y \in Int => BecomesPair(a, b, Wrap(k, Remainder(z, y)), Wrap(k, Quotient(z, y))))
  <2> DEFINE op == "div"
  <2>1. op \in {"div", "idiv"} /\ op = "div"
    OBVIOUS
  <2> HIDE DEF op
  <2> QED
    BY <2>1, DividedPair, Zenon
<1>2. x \in Nat /\ z = x
  BY <1>1, WholeIs, UnsignedInIs DEF Narrow
<1>3. k \in Nat /\ 2^k \in Nat /\ y \in Number(k) /\ y \in Nat
  <2>1. k \in Nat
    BY WidthFacts
  <2>2. 2^k \in Nat /\ y \in Number(k)
    BY <2>1, PowerType DEF Narrow
  <2> QED
    BY <2>1, <2>2 DEF Number
<1> HIDE DEF z, y, x
<1>4. y # 0 /\ q < 2^k
  BY <1>1 DEF Div32Accepts
<1>5. q \in Nat /\ r \in Nat /\ r < y
  BY <1>2, <1>3, <1>4
<1>6. q \in Number(k) /\ r \in Number(k)
  BY <1>3, <1>4, <1>5 DEF Number
<1>7. Quotient(z, y) = q /\ Remainder(z, y) = r /\ Divided(q, r, z, y)
  <2>1. z \in Nat /\ z \in Int /\ y \in Int
    BY <1>2, <1>3
  <2>2. Quotient(z, y) = q /\ Remainder(z, y) = r
    BY <1>3, <1>4, <2>1, NaturalQuotient
  <2>3. Divided(Quotient(z, y), Remainder(z, y), z, y)
    BY <1>4, <2>1, QuotientIs
  <2> QED
    BY <2>2, <2>3, Zenon
<1> HIDE DEF q, r
<1>8. BecomesPair(a, b, r, q)
  <2>1. Wrap(k, q) = q /\ Wrap(k, r) = r
    BY <1>3, <1>6, WrapSmall
  <2>2. z \in Int /\ y \in Int
    BY <1>2, <1>3
  <2> QED
    BY <1>1, <1>7, <2>1, <2>2
<1>9. b.regs["ax"] = q /\ b.regs["dx"] = r
  BY <1>8 DEF BecomesPair
<1>10. Divided(b.regs["ax"], b.regs["dx"], x, y)
  BY <1>2, <1>7, <1>9, Zenon
<1> QED
  BY <1>10 DEF x, y

LEMMA SignedDivision ==
  ASSUME NEW a \in State, NEW b \in State, NEW w \in Widths, Narrow(a, Bits[w], "ax"), Narrow(a, Bits[w], "dx"),
         NEW e, Narrow(a, Bits[w], e), Does(I("idiv", w, R("ax"), R(e)), a, b)
  PROVE  Divided(Signed(Bits[w], b.regs["ax"]), Signed(Bits[w], b.regs["dx"]),
                 Signed(2 * Bits[w], Whole(a, Bits[w])), Signed(Bits[w], a.regs[e]))
<1> DEFINE k == Bits[w]
           z == SignedIn(a.regs, w)
           y == Signed(k, a.regs[e])
           q == Quotient(z, y)
           r == Remainder(z, y)
           h == 2^(k - 1)
<1>1. Idiv32Accepts(k, z, y) /\ (z \in Int /\ y \in Int => BecomesPair(a, b, Wrap(k, r), Wrap(k, q)))
  <2> DEFINE op == "idiv"
  <2>1. op \in {"div", "idiv"} /\ op = "idiv" /\ op # "div"
    OBVIOUS
  <2> HIDE DEF op
  <2> QED
    BY <2>1, DividedPair, Zenon
<1>2. k \in Nat /\ k > 0 /\ a.regs[e] \in Number(k) /\ h \in Int /\ h > 0
  <2>1. k \in Nat /\ k > 0
    BY WidthFacts
  <2> QED
    BY <2>1, PowerHalf DEF Narrow
<1>3. SignedTo(k, a.regs[e], y)
  BY <1>2, SignedIs
<1>4. y \in Int /\ -h <= y /\ y < h
  BY <1>3 DEF SignedTo
<1>5. z = Signed(2 * k, Whole(a, k)) /\ z \in Int
  <2>1. z = Signed(2 * k, Whole(a, k)) /\ Whole(a, k) \in Number(2 * k) /\ 2 * k \in Nat /\ 2 * k > 0
    BY <1>2, WholeIs
  <2>2. SignedTo(2 * k, Whole(a, k), z)
    BY <2>1, SignedIs
  <2> QED
    BY <2>1, <2>2 DEF SignedTo
<1> HIDE DEF z, y
<1>6. y # 0 /\ q \in (-h)..(h - 1)
  BY <1>1 DEF Idiv32Accepts
<1>7. Divided(q, r, z, y) /\ q \in Int /\ r \in Int
  BY <1>4, <1>5, <1>6, QuotientIs
<1> HIDE DEF q, r, h
<1>8. -h <= r /\ r < h
  <2>1. Magnitude(r) < Magnitude(y)
    BY <1>7 DEF Divided
  <2> QED
    BY <1>2, <1>4, <1>7, <2>1 DEF Magnitude, Sign
<1>9. Signed(k, Wrap(k, q)) = q /\ Signed(k, Wrap(k, r)) = r
  <2>1. -h <= q /\ q < h
    BY <1>2, <1>6
  <2> QED
    BY <1>2, <1>7, <1>8, <2>1, SignedWrap DEF h
<1>10. b.regs["ax"] = Wrap(k, q) /\ b.regs["dx"] = Wrap(k, r)
  BY <1>1, <1>4, <1>5 DEF BecomesPair
<1>11. Divided(Signed(k, b.regs["ax"]), Signed(k, b.regs["dx"]), Signed(2 * k, Whole(a, k)), y)
  BY <1>5, <1>7, <1>9, <1>10, Zenon
<1> QED
  BY <1>11 DEF y

LEMMA MulResult ==
  ASSUME NEW w \in Widths, NEW a \in State, NEW b \in State, Halves(a, Bits[w]),
         Does(I("mul", w, R("ax"), R("bx")), a, b)
  PROVE  /\ Pair(Bits[w], b.regs["dx"], b.regs["ax"]) = a.regs["ax"] * a.regs["bx"] /\ Halves(b, Bits[w])
         /\ b.regs["bx"] = a.regs["bx"] /\ b.regs["bp"] = a.regs["bp"]
         /\ b.flags.CF = Bit(b.regs["dx"] # 0) /\ b.flags.OF = b.flags.CF
<1> DEFINE k == Bits[w]
           x == a.regs["ax"] * a.regs["bx"]
<1>1. PICK high, low \in Number(k) :
        /\ BecomesPair(a, b, high, low) /\ Pair(k, high, low) = x
        /\ b.flags.CF = Bit(x >= 2^k) /\ b.flags.OF = Bit(x >= 2^k)
  <2> DEFINE op == "mul"
             e == "bx"
  <2>1. op \in {"mul", "imul"} /\ op = "mul" /\ Narrow(a, k, "ax") /\ Narrow(a, k, "dx") /\ Narrow(a, k, e)
    BY DEF Halves
  <2>2. Does(I(op, w, R("ax"), R(e)), a, b)
    OBVIOUS
  <2> HIDE DEF op, e
  <2>3. Multiplied(a, b, k, e)
    BY <2>1, <2>2, MultipliedRegister, Zenon
  <2> QED
    BY <2>3, Zenon DEF Multiplied, e
<1>2. k \in Nat /\ 2^k \in Int /\ 2^k > 0
  BY WidthFacts, PowerType
<1>3. x >= 2^k <=> high # 0
  <2> DEFINE p == 2^k
  <2>1. high \in 0..(p - 1) /\ low \in 0..(p - 1) /\ x = high * p + low
    BY <1>1 DEF Number, Pair
  <2> HIDE DEF p, x
  <2>2. CASE high = 0
    BY <2>1, <2>2, <1>2 DEF p
  <2>3. CASE high # 0
    <3>1. high * p >= p /\ high * p \in Int
      BY <2>1, <2>3, <1>2 DEF p
    <3> QED
      BY <2>1, <2>3, <3>1, <1>2 DEF p
  <2> QED
    BY <2>2, <2>3 DEF p, x
<1>4. Halves(b, k) /\ b.regs["bx"] = a.regs["bx"] /\ b.regs["bp"] = a.regs["bp"] /\ b.regs["ax"] = low /\ b.regs["dx"] = high
  BY <1>1, PairKept
<1> HIDE DEF x, k
<1>5. Bit(x >= 2^k) = Bit(high # 0)
  BY <1>3 DEF Bit
<1>6. /\ Pair(k, b.regs["dx"], b.regs["ax"]) = x
      /\ b.flags.CF = Bit(b.regs["dx"] # 0) /\ b.flags.OF = b.flags.CF
  BY <1>1, <1>4, <1>5
<1> QED
  BY <1>4, <1>6 DEF x, k

LEMMA MulDivResult ==
  ASSUME NEW w \in Widths, NEW a \in State, NEW b \in State, NEW c \in State, Halves(a, Bits[w]),
         Does(I("mul", w, R("ax"), R("bx")), a, b), Does(I("div", w, R("ax"), R("bp")), b, c)
  PROVE  Divided(c.regs["ax"], c.regs["dx"], a.regs["ax"] * a.regs["bx"], a.regs["bp"])
<1>1. /\ Pair(Bits[w], b.regs["dx"], b.regs["ax"]) = a.regs["ax"] * a.regs["bx"] /\ Halves(b, Bits[w])
      /\ b.regs["bp"] = a.regs["bp"]
  BY MulResult
<1>2. Divided(c.regs["ax"], c.regs["dx"], Whole(b, Bits[w]), b.regs["bp"])
  BY <1>1, UnsignedDivision DEF Halves
<1> QED
  BY <1>1, <1>2, Zenon DEF Whole

OutOfRange(k, x) == x \notin (-2^(k - 1))..(2^(k - 1) - 1)

\* The pair that imul leaves is the signed product.
LEMMA ImulResult ==
  ASSUME NEW w \in Widths, NEW a \in State, NEW b \in State, Halves(a, Bits[w]),
         Does(I("imul", w, R("ax"), R("bx")), a, b)
  PROVE  LET x == Signed(Bits[w], a.regs["ax"]) * Signed(Bits[w], a.regs["bx"]) IN
         /\ Signed(2 * Bits[w], Whole(b, Bits[w])) = x /\ Halves(b, Bits[w])
         /\ b.regs["bx"] = a.regs["bx"] /\ b.regs["bp"] = a.regs["bp"]
         /\ b.flags.CF = Bit(OutOfRange(Bits[w], x))
<1> DEFINE k == Bits[w]
           y == Signed(k, a.regs["ax"])
           z == Signed(k, a.regs["bx"])
           x == y * z
           h == 2^(k - 1)
<1>1. PICK high, low \in Number(k) :
        /\ BecomesPair(a, b, high, low) /\ Pair(k, high, low) = Wrap(2 * k, x)
        /\ b.flags.CF = Bit(Overflows(k, x)) /\ b.flags.OF = Bit(Overflows(k, x))
  <2> DEFINE op == "imul"
             e == "bx"
  <2>1. op \in {"mul", "imul"} /\ op = "imul" /\ Narrow(a, k, "ax") /\ Narrow(a, k, "dx") /\ Narrow(a, k, e)
    BY DEF Halves
  <2>2. Does(I(op, w, R("ax"), R(e)), a, b)
    OBVIOUS
  <2> HIDE DEF op, e
  <2>3. SignedMultiplied(a, b, k, e)
    BY <2>1, <2>2, MultipliedRegister, Zenon
  <2> QED
    BY <2>3, Zenon DEF SignedMultiplied, e
<1>2. Halves(b, k) /\ b.regs["bx"] = a.regs["bx"] /\ b.regs["bp"] = a.regs["bp"] /\ b.regs["ax"] = low /\ b.regs["dx"] = high
  BY <1>1, PairKept
<1>3. k \in Nat /\ k > 0 /\ h \in Nat /\ h > 0
  <2>1. k \in Nat /\ k > 0
    BY WidthFacts
  <2> QED
    BY <2>1, PowerHalf
<1>4. SignedTo(k, a.regs["ax"], y) /\ SignedTo(k, a.regs["bx"], z)
  BY <1>3, SignedIs DEF Halves, Narrow
<1>5. y \in Int /\ -h <= y /\ y < h /\ z \in Int /\ -h <= z /\ z < h
  BY <1>4 DEF SignedTo
<1> HIDE DEF y, z
<1>6. x \in Int /\ -(h * h) <= x /\ x <= h * h
  <2>1. -h <= y /\ y <= h /\ -h <= z /\ z <= h
    BY <1>5, <1>3
  <2> HIDE DEF h
  <2> QED
    BY <1>3, <1>5, <2>1, SignedProductBound
<1>7. 2 * k \in Nat /\ 2 * k > 0 /\ 2^(2 * k - 1) = 2 * (h * h)
  BY <1>3, DoubleWidth
<1>8. Signed(2 * k, Wrap(2 * k, x)) = x
  <2> DEFINE m == 2 * k
             g == h * h
             o == 2^(m - 1)
  <2>1. g \in Int /\ g > 0 /\ o = 2 * g /\ -g <= x /\ x <= g /\ x \in Int
    BY <1>3, <1>6, <1>7
  <2> HIDE DEF g, x, o
  <2>2. -o <= x /\ x < o
    BY <2>1
  <2>3. m \in Nat /\ m > 0
    BY <1>7
  <2> HIDE DEF m
  <2>4. -2^(m - 1) <= x /\ x < 2^(m - 1) /\ x \in Int
    BY <2>1, <2>2 DEF o
  <2>5. Signed(m, Wrap(m, x)) = x
    BY <2>3, <2>4, SignedWrap
  <2> QED
    BY <2>5 DEF m
<1>9. Signed(k, Wrap(k, x)) # x <=> x \notin (-h)..(h - 1)
  <2> DEFINE v == Wrap(k, x)
  <2>1. SignedTo(k, v, Signed(k, v))
    BY <1>3, <1>6, WrapType, SignedIs
  <2>2. Signed(k, v) \in Int /\ -h <= Signed(k, v) /\ Signed(k, v) < h
    BY <2>1 DEF SignedTo
  <2> HIDE DEF x
  <2>3. -h <= x /\ x < h => Signed(k, v) = x
    BY <1>3, <1>6, SignedWrap
  <2> HIDE DEF h
  <2>4. x \in (-h)..(h - 1) <=> -h <= x /\ x < h
    BY <1>3, <1>6
  <2>5. Signed(k, v) = x => -h <= x /\ x < h
    BY <2>2
  <2> HIDE DEF v
  <2>6. Signed(k, v) # x <=> x \notin (-h)..(h - 1)
    BY <2>3, <2>4, <2>5
  <2> QED
    BY <2>6 DEF v
<1> HIDE DEF x, h
<1>10. Bit(Overflows(k, x)) = Bit(OutOfRange(k, x))
  BY <1>9, Zenon DEF Bit, Overflows, OutOfRange, h
<1>11. Signed(2 * k, Whole(b, k)) = x
  BY <1>1, <1>2, <1>8, Zenon DEF Whole
<1>12. b.flags.CF = Bit(OutOfRange(k, x))
  BY <1>1, <1>10, Zenon
<1> QED
  BY <1>2, <1>11, <1>12, Zenon DEF x, y, z, h

LEMMA ImulIdivResult ==
  ASSUME NEW w \in Widths, NEW a \in State, NEW b \in State, NEW c \in State, Halves(a, Bits[w]),
         Does(I("imul", w, R("ax"), R("bx")), a, b), Does(I("idiv", w, R("ax"), R("bp")), b, c)
  PROVE  Divided(Signed(Bits[w], c.regs["ax"]), Signed(Bits[w], c.regs["dx"]),
                 Signed(Bits[w], a.regs["ax"]) * Signed(Bits[w], a.regs["bx"]), Signed(Bits[w], a.regs["bp"]))
<1>1. /\ Signed(2 * Bits[w], Whole(b, Bits[w])) = Signed(Bits[w], a.regs["ax"]) * Signed(Bits[w], a.regs["bx"])
      /\ Halves(b, Bits[w]) /\ b.regs["bp"] = a.regs["bp"]
  BY ImulResult
<1>2. Divided(Signed(Bits[w], c.regs["ax"]), Signed(Bits[w], c.regs["dx"]),
              Signed(2 * Bits[w], Whole(b, Bits[w])), Signed(Bits[w], b.regs["bp"]))
  BY <1>1, SignedDivision DEF Halves
<1> QED
  BY <1>1, <1>2, Zenon

LEMMA ScaleResult ==
  ASSUME NEW w \in Widths, NEW a \in State, NEW b \in State, NEW c \in State, Halves(a, Bits[w]),
         Does(I("movsx", w, R("ax"), R("ax")), a, b), Does(I("imul", w, R("ax"), R("bx")), b, c)
  PROVE  LET x == Signed(8, a.regs["ax"] % 256) * Signed(Bits[w], a.regs["bx"]) IN
         /\ Signed(2 * Bits[w], Pair(Bits[w], c.regs["dx"], c.regs["ax"])) = x
         /\ c.flags.CF = Bit(OutOfRange(Bits[w], x))
<1> DEFINE k == Bits[w]
           y == Signed(8, a.regs["ax"] % 256)
<1>1. k \in Nat /\ k > 0 /\ 8 <= k
  BY WidthFacts
<1>2. a.regs["ax"] % 256 \in Number(8)
  <2>1. a.regs["ax"] \in Int /\ 2^8 = 256
    BY NarrowNumbers DEF Halves, Narrow
  <2> QED
    BY <2>1, DivMod DEF Number
<1>3. SignedTo(8, a.regs["ax"] % 256, y)
  BY <1>2, SignedIs
<1>4. y \in Int /\ -128 <= y /\ y < 128
  <2>1. 2^(8 - 1) = 128
    OBVIOUS
  <2> QED
    BY <1>3, <2>1 DEF SignedTo
<1> HIDE DEF y
<1>5. Signed(k, Wrap(k, y)) = y
  <2>1. 2^7 <= 2^(k - 1) /\ 2^(k - 1) \in Int /\ 2^7 = 128
    BY <1>1, PowerOrder, PowerHalf
  <2>2. -2^(k - 1) <= y /\ y < 2^(k - 1)
    BY <1>4, <2>1
  <2> QED
    BY <1>1, <1>4, <2>2, SignedWrap
<1>6. Becomes(a, b, "ax", Wrap(k, y))
  BY MovedByte, ZenonT(40) DEF y, Halves
<1>7. Halves(b, k) /\ b.regs["ax"] = Wrap(k, y) /\ b.regs["bx"] = a.regs["bx"]
  <2>1. Wrap(k, y) \in Number(k) /\ "ax" \in Register
    BY <1>1, <1>4, WrapType, Registers
  <2>2. Halves(b, k)
    BY <1>6, <2>1, HalvesKept
  <2> QED
    BY <1>6, <2>2, Registers DEF Becomes, Kept
<1> DEFINE x == Signed(k, b.regs["ax"]) * Signed(k, b.regs["bx"])
<1>8. Signed(2 * k, Whole(c, k)) = x /\ c.flags.CF = Bit(OutOfRange(k, x))
  BY <1>7, ImulResult
<1>9. x = y * Signed(k, a.regs["bx"])
  BY <1>5, <1>7, Zenon
<1> HIDE DEF x
<1>10. /\ Signed(2 * k, Pair(k, c.regs["dx"], c.regs["ax"])) = y * Signed(k, a.regs["bx"])
       /\ c.flags.CF = Bit(OutOfRange(k, y * Signed(k, a.regs["bx"])))
  BY <1>8, <1>9, Zenon DEF Whole
<1> QED
  BY <1>10, Zenon DEF y

LEMMA SquareResult ==
  ASSUME NEW w \in Widths, NEW a \in State, NEW b \in State, Halves(a, Bits[w]),
         Does([op |-> "imulTo", w |-> w, left |-> R("bx"), dst |-> R("ax"), src |-> R("bx")], a, b)
  PROVE  LET x == Signed(Bits[w], a.regs["bx"]) * Signed(Bits[w], a.regs["bx"]) IN
         /\ b.regs["ax"] = Wrap(Bits[w], x)
         /\ b.flags.OF = Bit(x >= 2^(Bits[w] - 1))
<1> DEFINE k == Bits[w]
           y == Signed(k, a.regs["bx"])
           x == y * y
           h == 2^(k - 1)
<1>1. Becomes(a, b, "ax", Wrap(k, Wrap(2 * k, x))) /\ b.flags.OF = Bit(Overflows(k, x))
  <2>1. Narrow(a, k, "ax") /\ Narrow(a, k, "bx")
    BY DEF Halves
  <2> QED
    BY <2>1, MultipliedTo
<1>2. k \in Nat /\ k > 0 /\ h \in Nat /\ h > 0 /\ 2 * k \in Nat
  <2>1. k \in Nat /\ k > 0
    BY WidthFacts
  <2> QED
    BY <2>1, PowerHalf
<1>3. SignedTo(k, a.regs["bx"], y)
  BY <1>2, SignedIs DEF Halves, Narrow
<1>4. y \in Int
  BY <1>3 DEF SignedTo
<1> HIDE DEF y
<1>5. x \in Int /\ x >= 0
  BY <1>4
<1> HIDE DEF x
<1>6. Wrap(k, Wrap(2 * k, x)) = Wrap(k, x)
  <2> DEFINE p == 2^k
  <2>1. p \in Int /\ p > 0 /\ 2^(2 * k) = p * p
    BY <1>2, PowerType, DoubleWidth
  <2> DEFINE v == x % p
             t == x \div (p * p)
             u == x % (p * p)
  <2>2. p * p \in Int /\ p * p > 0
    BY <2>1
  <2>3. x = (p * p) * t + u /\ t \in Int /\ u \in Int
    BY <1>5, <2>2, DivMod
  <2>4. u = p * (u \div p) + (u % p) /\ u \div p \in Int /\ u % p \in 0..(p - 1)
    BY <2>1, <2>3, DivMod
  <2> DEFINE d == u \div p
             m == u % p
             z == p * t + d
  <2> HIDE DEF p, t, u
  <2>5. d \in Int /\ m \in 0..(p - 1) /\ u = p * d + m /\ x = (p * p) * t + u
    BY <2>3, <2>4
  <2> HIDE DEF d, m
  <2>6. z \in Int /\ x = z * p + m
    BY <2>1, <2>3, <2>5
  <2> HIDE DEF z
  <2>7. (z * p + m) % p = m
    BY <2>1, <2>5, <2>6, DivModUnique
  <2>8. x % p = u % p
    BY <2>6, <2>7 DEF m
  <2> QED
    BY <2>8, <2>1 DEF Wrap, u, p
<1>7. Signed(k, Wrap(k, x)) # x <=> x >= h
  <2> DEFINE v == Wrap(k, x)
  <2>1. SignedTo(k, v, Signed(k, v))
    BY <1>2, <1>5, WrapType, SignedIs
  <2>2. Signed(k, v) \in Int /\ -h <= Signed(k, v) /\ Signed(k, v) < h
    BY <2>1 DEF SignedTo
  <2>3. -h <= x /\ x < h => Signed(k, v) = x
    BY <1>2, <1>5, SignedWrap
  <2> HIDE DEF v, h
  <2>4. Signed(k, v) # x <=> x >= h
    BY <1>2, <1>5, <2>2, <2>3
  <2> QED
    BY <2>4 DEF v
<1> HIDE DEF h
<1>8. b.regs["ax"] = Wrap(k, x) /\ b.flags.OF = Bit(x >= h)
  <2>1. Bit(Overflows(k, x)) = Bit(x >= h)
    BY <1>7, Zenon DEF Bit, Overflows
  <2> QED
    BY <1>1, <1>6, <2>1, Zenon DEF Becomes
<1> QED
  BY <1>8, Zenon DEF x, y, h

\* cwd and cdq make a pair of the same signed value.
LEMMA SpreadResult ==
  ASSUME NEW w \in Widths, NEW a \in State, NEW b \in State, Halves(a, Bits[w]),
         Does(I("cwd", w, R("ax"), R("ax")), a, b)
  PROVE  /\ Halves(b, Bits[w]) /\ b.regs["ax"] = a.regs["ax"] /\ b.regs["bx"] = a.regs["bx"]
         /\ b.regs["dx"] = IF a.regs["ax"] >= 2^(Bits[w] - 1) THEN 2^Bits[w] - 1 ELSE 0
         /\ Signed(2 * Bits[w], Whole(b, Bits[w])) = Signed(Bits[w], a.regs["ax"])
<1> DEFINE k == Bits[w]
           x == a.regs["ax"]
           z == SignSpread(k, x)
           h == 2^(k - 1)
           p == 2^k
<1>1. BecomesPair(a, b, z, x)
  BY SpreadPair, Zenon DEF Halves
<1>2. k \in Nat /\ k > 0 /\ x \in Number(k) /\ h \in Int /\ h > 0 /\ p = 2 * h
  <2>1. k \in Nat /\ k > 0
    BY WidthFacts
  <2> QED
    BY <2>1, PowerHalf DEF Halves, Narrow
<1>3. z \in Number(k) /\ (x < h => z = 0) /\ (~ (x < h) => z = p - 1)
  BY <1>2, ExtendedType
<1>4. Halves(b, k) /\ b.regs["bx"] = a.regs["bx"] /\ b.regs["ax"] = x /\ b.regs["dx"] = z
  <2>1. z \in Number(k) /\ x \in Number(k) /\ Halves(a, k)
    BY <1>2, <1>3
  <2> HIDE DEF x, z, k
  <2> QED
    BY <1>1, <2>1, Registers DEF Halves, Narrow, BecomesPair
<1>5. x \in Int /\ x >= 0 /\ x < p
  BY <1>2 DEF Number
<1>6. z = IF x >= h THEN p - 1 ELSE 0
  <2> HIDE DEF x, h, p, z
  <2> QED
    BY <1>2, <1>3, <1>5
<1>7. SignedTo(k, x, Signed(k, x)) /\ SignedTo(k, z, Signed(k, z))
  BY <1>2, <1>3, SignedIs
<1>8. Signed(2 * k, Whole(b, k)) = Signed(k, z) * p + x
  BY <1>2, <1>3, <1>4, SignedPair, Zenon DEF Whole
<1>9. Signed(k, z) * p + x = Signed(k, x)
  <2>1. CASE x < h
    <3>1. Signed(k, z) = 0
      BY <1>2, <1>3, <1>7, <2>1 DEF SignedTo
    <3>2. Signed(k, x) = x
      BY <1>2, <1>5, <1>7, <2>1 DEF SignedTo
    <3> HIDE DEF x, p
    <3> QED
      BY <1>2, <1>5, <3>1, <3>2
  <2>2. CASE ~ (x < h)
    <3> HIDE DEF h, p, x, z
    <3>1. Signed(k, z) = -1
      BY <1>2, <1>3, <1>7, <2>2 DEF SignedTo, h, p
    <3>2. Signed(k, x) = x - p
      BY <1>2, <1>5, <1>7, <2>2 DEF SignedTo, h, p
    <3> QED
      BY <1>2, <1>5, <3>1, <3>2
  <2> QED
    BY <2>1, <2>2
<1> QED
  BY <1>4, <1>6, <1>8, <1>9

LEMMA IdivResult ==
  ASSUME NEW w \in Widths, NEW a \in State, NEW b \in State, NEW c \in State, Halves(a, Bits[w]),
         Does(I("cwd", w, R("ax"), R("ax")), a, b), Does(I("idiv", w, R("ax"), R("bx")), b, c)
  PROVE  Divided(Signed(Bits[w], c.regs["ax"]), Signed(Bits[w], c.regs["dx"]),
                 Signed(Bits[w], a.regs["ax"]), Signed(Bits[w], a.regs["bx"]))
<1>1. /\ Halves(b, Bits[w]) /\ b.regs["bx"] = a.regs["bx"]
      /\ Signed(2 * Bits[w], Whole(b, Bits[w])) = Signed(Bits[w], a.regs["ax"])
  BY SpreadResult
<1>2. Divided(Signed(Bits[w], c.regs["ax"]), Signed(Bits[w], c.regs["dx"]),
              Signed(2 * Bits[w], Whole(b, Bits[w])), Signed(Bits[w], b.regs["bx"]))
  BY <1>1, SignedDivision DEF Halves
<1> QED
  BY <1>1, <1>2, Zenon

LEMMA AbsResult ==
  ASSUME NEW w \in Widths, NEW a \in State, NEW b \in State, NEW c \in State, NEW d \in State, Halves(a, Bits[w]),
         Does(I("cwd", w, R("ax"), R("ax")), a, b), Does(I("xor", w, R("ax"), R("dx")), b, c),
         Does(I("sub", w, R("ax"), R("dx")), c, d)
  PROVE  d.regs["ax"] = Magnitude(Signed(Bits[w], a.regs["ax"]))
<1> DEFINE k == Bits[w]
           p == 2^k
           h == 2^(k - 1)
           x == a.regs["ax"]
           y == c.regs["ax"]
           z == d.regs["ax"]
           e == b.regs["dx"]
           cf == d.flags.CF
<1>1. Halves(b, k) /\ b.regs["ax"] = x /\ e = IF x >= h THEN p - 1 ELSE 0
  BY SpreadResult
<1>2. k \in Nat /\ k > 0 /\ p \in Int /\ h \in Int /\ h > 0 /\ p = 2 * h /\ x \in Number(k) /\ x \in 0..(p - 1)
  <2>1. k \in Nat /\ k > 0
    BY WidthFacts
  <2>2. h \in Int /\ h > 0 /\ p = 2 * h
    BY <2>1, PowerHalf
  <2> QED
    BY <2>1, <2>2 DEF Halves, Narrow, Number
<1>3. Mixed(b, c, k, "xor", "ax", e)
  BY <1>1, LogicOfRegisters DEF Halves
<1>4. y = FromBits(k, XorDigits(k, x, e)) /\ y \in Number(k) /\ Kept(b, c, "ax")
  BY <1>1, <1>3 DEF Mixed, Mixes
<1>5. y = IF x >= h THEN p - 1 - x ELSE x
  <2> HIDE DEF x, k, y
  <2> QED
    BY <1>1, <1>2, <1>4, AndNothing, AndEverything
<1>6. Halves(c, k) /\ c.regs["dx"] = e
  BY <1>1, <1>4, Registers DEF Kept, Halves, Narrow
<1>7. Takes(c, d, k, "ax", e, 0)
  BY <1>6, SumOfRegisters DEF Halves
<1>8. z \in 0..(p - 1) /\ cf \in {0, 1} /\ z - cf * p = (y - e) - 0
  BY <1>7 DEF Takes, Number
<1>9. SignedTo(k, x, Signed(k, x))
  BY <1>2, SignedIs
<1> DEFINE v == Signed(k, x)
<1>10. v = IF x >= h THEN x - p ELSE x
  BY <1>9 DEF SignedTo
<1> HIDE DEF k, p, h, x, y, z, e, cf, v
<1>11. CASE x >= h
  <2>1. z - cf * p = -x /\ v = x - p /\ v < 0
    BY <1>1, <1>2, <1>5, <1>8, <1>10, <1>11
  <2>2. cf = 1 /\ z = p - x
    BY <1>2, <1>8, <1>11, <2>1
  <2> QED
    BY <1>2, <2>1, <2>2 DEF Magnitude, Sign, z, v, k, x
<1>12. CASE ~ (x >= h)
  <2>1. z - cf * p = x /\ v = x /\ v >= 0
    BY <1>1, <1>2, <1>5, <1>8, <1>10, <1>12
  <2>2. cf = 0 /\ z = x
    BY <1>2, <1>8, <1>12, <2>1
  <2> QED
    BY <1>2, <2>1, <2>2 DEF Magnitude, Sign, z, v, k, x
<1> QED
  BY <1>11, <1>12

LEMMA ExtendResult ==
  ASSUME NEW w \in Widths, NEW a \in State, NEW b \in State, Halves(a, Bits[w]),
         Does(I("cbw", w, R("ax"), R("ax")), a, b), TopBit(Bits[w], a.regs["ax"]) = 0
  PROVE  Pair(Bits[w], b.regs["dx"], b.regs["ax"]) = a.regs["ax"]
BY ExtendedPair DEF Halves

LEMMA QuarteredIs ==
  ASSUME NEW x \in Int
  PROVE  Quotient(x, 4) = (IF x < 0 THEN x + 3 ELSE x) \div 4
<1>1. Sign(4) = 1 /\ Magnitude(4) = 4
  BY DEF Sign, Magnitude
<1>2. CASE x < 0
  <2>1. Sign(x) = -1 /\ Magnitude(x) = -x
    BY <1>2 DEF Sign, Magnitude
  <2>2. Quotient(x, 4) = -((-x) \div 4)
    BY <1>1, <2>1 DEF Quotient
  <2> QED
    BY <1>2, <2>2
<1>3. CASE x >= 0
  <2>1. Sign(x) = 1 /\ Magnitude(x) = x
    BY <1>3 DEF Sign, Magnitude
  <2>2. Quotient(x, 4) = x \div 4
    BY <1>1, <2>1 DEF Quotient
  <2> QED
    BY <1>3, <2>2
<1> QED
  BY <1>2, <1>3

LEMMA ShiftedTwice ==
  ASSUME NEW a \in State, NEW b \in State, NEW w \in Widths, Narrow(a, Bits[w], "ax"),
         Does(I("sar", w, R("ax"), Imm(2)), a, b)
  PROVE  b.regs["ax"] = Wrap(Bits[w], Signed(Bits[w], a.regs["ax"]) \div 4)
<1> DEFINE k == Bits[w]
           x == a.regs["ax"]
           two == In(a.regs, 8, Imm(2))
           op == "sar"
<1>1. two = 2
  <2>1. two = Wrap(8, 2)
    BY ImmIs
  <2>2. 2^8 = 256 /\ 2 % 256 = 2
    OBVIOUS
  <2> QED
    BY <2>1, <2>2 DEF Wrap
<1>2. Count(two) = 2
  <2>1. Bits["dword"] \in Int /\ Bits["dword"] > 2
    BY BitsAssumption
  <2> QED
    BY <1>1, <2>1 DEF Count
<1>3. op \in Shiftings /\ op \in ShiftNames /\ op = "sar"
  BY DEF Shiftings, ShiftNames
<1> HIDE DEF op, two
<1>4. PICK r \in Results(k) : ShiftLeaves(op, k, x, two, a.flags, r) /\ Becomes(a, b, "ax", r.value)
  BY <1>3, ShiftedRegister DEF two
<1>5. ShiftMakes(op, k, x, 2, [value |-> r.value, carry |-> {r.flags.CF}])
  BY <1>2, <1>3, <1>4 DEF ShiftLeaves
<1>6. r.value = Wrap(k, Signed(k, x) \div 2^2)
  <2> DEFINE made == [value |-> r.value, carry |-> {r.flags.CF}]
  <2>1. made.value = r.value
    OBVIOUS
  <2> HIDE DEF made
  <2>2. made.value = Wrap(k, Signed(k, x) \div 2^2)
    BY <1>3, <1>5, Zenon DEF ShiftMakes, made
  <2> QED
    BY <2>1, <2>2
<1>7. 2^2 = 4
  OBVIOUS
<1> QED
  BY <1>4, <1>6, <1>7 DEF Becomes

LEMMA QuarterResult ==
  ASSUME NEW w \in Widths, NEW a \in State, NEW b \in State, NEW c \in State, NEW d \in State, NEW e \in State,
         Halves(a, Bits[w]),
         Does(I("cwd", w, R("ax"), R("ax")), a, b), Does(Digit83(4, w, R("dx"), 3), b, c),
         Does(I("add", w, R("ax"), R("dx")), c, d), Does(I("sar", w, R("ax"), Imm(2)), d, e)
  PROVE  Signed(Bits[w], e.regs["ax"]) = Quotient(Signed(Bits[w], a.regs["ax"]), 4)
<1> DEFINE k == Bits[w]
           p == 2^k
           h == 2^(k - 1)
           x == a.regs["ax"]
           y == b.regs["dx"]
           z == c.regs["dx"]
           u == d.regs["ax"]
           cf == d.flags.CF
           v == Signed(k, x)
           t == Signed(k, u)
<1>1. Halves(b, k) /\ b.regs["ax"] = x /\ y = IF x >= h THEN p - 1 ELSE 0
  BY SpreadResult
<1>2. k \in Nat /\ k > 0 /\ p \in Int /\ h \in Int /\ h > 2 /\ p = 2 * h /\ x \in Number(k) /\ x \in 0..(p - 1)
      /\ 3 \in Number(k) /\ Wrap(k, 3) = 3
  <2>1. k \in Nat /\ k > 0
    BY WidthFacts
  <2>2. h \in Int /\ h > 2 /\ p = 2 * h /\ 3 \in Number(k) /\ Wrap(k, 3) = 3
    BY SmallImmediates
  <2> QED
    BY <2>1, <2>2 DEF Halves, Narrow, Number
<1>3. Mixed(b, c, k, "and", "dx", 3)
  <2>1. Mixed(b, c, k, "and", "dx", Wrap(k, 3))
    <3>1. 3 \in Int /\ -128 <= 3 /\ 3 < 128
      OBVIOUS
    <3> QED
      BY <1>1, <3>1, LogicWithImmediate DEF Halves
  <2> QED
    BY <1>2, <2>1, Zenon
<1>4. z = FromBits(k, AndDigits(k, y, 3)) /\ z \in Number(k) /\ Kept(b, c, "dx")
  BY <1>3 DEF Mixed, Mixes
<1>5. z = IF x >= h THEN 3 ELSE 0
  <2> DEFINE three == 3
  <2>1. three \in Number(k) /\ three = 3 /\ z = FromBits(k, AndDigits(k, y, three))
    BY <1>2, <1>4
  <2> HIDE DEF x, k, y, z, three
  <2>2. CASE x >= h
    BY <1>1, <1>2, <2>1, <2>2, AndEverything
  <2>3. CASE ~ (x >= h)
    <3>1. y = 0
      BY <1>1, <2>3
    <3>2. FromBits(k, AndDigits(k, 0, three)) = 0
      BY <1>2, <2>1, AndNothing
    <3> QED
      BY <2>1, <2>3, <3>1, <3>2, Zenon
  <2> QED
    BY <2>2, <2>3
<1>6. Halves(c, k) /\ c.regs["ax"] = x
  BY <1>1, <1>4, Registers DEF Kept, Halves, Narrow
<1>7. Adds(c, d, k, "ax", z, 0)
  BY <1>6, SumOfRegisters DEF Halves
<1>8. u \in 0..(p - 1) /\ cf \in {0, 1} /\ u + cf * p = (x + z) + 0 /\ u \in Number(k)
  BY <1>6, <1>7 DEF Adds, Number
<1>9. SignedTo(k, x, v) /\ SignedTo(k, u, t)
  BY <1>2, <1>8, SignedIs
<1>10. /\ v = IF x >= h THEN x - p ELSE x
       /\ t = IF u >= h THEN u - p ELSE u
  BY <1>9 DEF SignedTo
<1>11. Narrow(d, k, "ax")
  BY <1>8, Registers DEF Narrow
<1>12. e.regs["ax"] = Wrap(k, t \div 4)
  BY <1>11, ShiftedTwice, Zenon
<1> HIDE DEF k, p, h, x, y, z, u, cf, v, t
<1>13. v \in Int /\ t \in Int /\ t = (IF v < 0 THEN v + 3 ELSE v) /\ -h <= t /\ t < h
  <2>1. CASE x >= h
    <3>1. u + cf * p = x + 3 /\ v = x - p
      BY <1>2, <1>5, <1>8, <1>10, <2>1
    <3>2. CASE cf = 0
      BY <1>2, <1>8, <1>10, <2>1, <3>1, <3>2
    <3>3. CASE cf = 1
      BY <1>2, <1>8, <1>10, <2>1, <3>1, <3>3
    <3> QED
      BY <1>8, <3>2, <3>3
  <2>2. CASE ~ (x >= h)
    <3>1. u + cf * p = x /\ v = x
      BY <1>2, <1>5, <1>8, <1>10, <2>2
    <3>2. cf = 0
      BY <1>2, <1>8, <2>2, <3>1
    <3> QED
      BY <1>2, <1>8, <1>10, <2>2, <3>1, <3>2
  <2> QED
    BY <2>1, <2>2
<1>14. Quotient(v, 4) = t \div 4
  BY <1>13, QuarteredIs
<1>15. t \div 4 \in Int /\ -h <= t \div 4 /\ t \div 4 < h
  BY <1>2, <1>13
<1>16. Signed(k, Wrap(k, t \div 4)) = t \div 4
  <2> DEFINE g == t \div 4
  <2>1. g \in Int /\ -2^(k - 1) <= g /\ g < 2^(k - 1)
    BY <1>15 DEF h
  <2> HIDE DEF g
  <2>2. Signed(k, Wrap(k, g)) = g
    BY <1>2, <2>1, SignedWrap
  <2> QED
    BY <2>2 DEF g
<1> QED
  BY <1>12, <1>14, <1>16, Zenon DEF k, v, x

LEMMA MulHolds ==
  ASSUME Running, Traced, Done, start.task = "mul"
  PROVE  /\ After = s["ax"] * s["bx"]
         /\ flags.CF = Bit(regs["dx"] # 0) /\ flags.OF = flags.CF
<1>1. start.task \in StraightTasks /\ start.w \in Widths /\ code = Code("mul", start.w, start.cc)
  BY BeganIs DEF StraightTasks, Idiom
<1>2. /\ Len(code) = 1
      /\ code[1] = I("mul", start.w, R("ax"), R("bx"))
  BY <1>1, MulCode, Zenon
<1>3. Does(code[1], Began, Now)
  BY <1>1, <1>2, RanOne, Zenon
<1>4. Now \in State /\ Began \in State /\ Halves(Began, Bits[start.w])
  BY <1>1, <1>2, RanOne, BeganIs, Zenon
<1>5. /\ Pair(Bits[start.w], Now.regs["dx"], Now.regs["ax"]) = Began.regs["ax"] * Began.regs["bx"]
         /\ Now.flags.CF = Bit(Now.regs["dx"] # 0) /\ Now.flags.OF = Now.flags.CF
  BY <1>1, <1>2, <1>3, <1>4, MulResult
<1> QED
  BY <1>5, BeganIs, NowIs, Zenon DEF After, Before, Operand, n

LEMMA MulDivHolds ==
  ASSUME Running, Traced, Done, start.task = "mulDiv"
  PROVE  Divided(regs["ax"], regs["dx"], s["ax"] * s["bx"], s["bp"])
<1>1. start.task \in StraightTasks /\ start.w \in Widths /\ code = Code("mulDiv", start.w, start.cc)
  BY BeganIs DEF StraightTasks, Idiom
<1>2. /\ Len(code) = 2
      /\ code[1] = I("mul", start.w, R("ax"), R("bx"))
      /\ code[2] = I("div", start.w, R("ax"), R("bp"))
  BY <1>1, MulDivCode, Zenon
<1>3. PICK b \in State : Does(code[1], Began, b) /\ Does(code[2], b, Now)
  BY <1>1, <1>2, RanTwo, Zenon
<1>4. Now \in State /\ Began \in State /\ Halves(Began, Bits[start.w])
  BY <1>1, <1>2, RanTwo, BeganIs, Zenon
<1>5. Divided(Now.regs["ax"], Now.regs["dx"], Began.regs["ax"] * Began.regs["bx"], Began.regs["bp"])
  BY <1>1, <1>2, <1>3, <1>4, MulDivResult
<1> QED
  BY <1>5, BeganIs, NowIs, Zenon DEF After, Before, Operand, n

LEMMA ImulIdivHolds ==
  ASSUME Running, Traced, Done, start.task = "imulIdiv"
  PROVE  Divided(Signed(n, regs["ax"]), Signed(n, regs["dx"]), Signed(n, s["ax"]) * Signed(n, s["bx"]), Signed(n, s["bp"]))
<1>1. start.task \in StraightTasks /\ start.w \in Widths /\ code = Code("imulIdiv", start.w, start.cc)
  BY BeganIs DEF StraightTasks, Idiom
<1>2. /\ Len(code) = 2
      /\ code[1] = I("imul", start.w, R("ax"), R("bx"))
      /\ code[2] = I("idiv", start.w, R("ax"), R("bp"))
  BY <1>1, ImulIdivCode, Zenon
<1>3. PICK b \in State : Does(code[1], Began, b) /\ Does(code[2], b, Now)
  BY <1>1, <1>2, RanTwo, Zenon
<1>4. Now \in State /\ Began \in State /\ Halves(Began, Bits[start.w])
  BY <1>1, <1>2, RanTwo, BeganIs, Zenon
<1>5. Divided(Signed(Bits[start.w], Now.regs["ax"]), Signed(Bits[start.w], Now.regs["dx"]), Signed(Bits[start.w], Began.regs["ax"]) * Signed(Bits[start.w], Began.regs["bx"]), Signed(Bits[start.w], Began.regs["bp"]))
  BY <1>1, <1>2, <1>3, <1>4, ImulIdivResult
<1> QED
  BY <1>5, BeganIs, NowIs, Zenon DEF After, Before, Operand, n

LEMMA ScaleHolds ==
  ASSUME Running, Traced, Done, start.task = "scale"
  PROVE  /\ Signed(2 * n, After) = Signed(8, s["ax"] % 256) * Signed(n, s["bx"])
         /\ flags.CF = Bit(OutOfRange(n, Signed(8, s["ax"] % 256) * Signed(n, s["bx"])))
<1>1. start.task \in StraightTasks /\ start.w \in Widths /\ code = Code("scale", start.w, start.cc)
  BY BeganIs DEF StraightTasks, Idiom
<1>2. /\ Len(code) = 2
      /\ code[1] = I("movsx", start.w, R("ax"), R("ax"))
      /\ code[2] = I("imul", start.w, R("ax"), R("bx"))
  BY <1>1, ScaleCode, Zenon
<1>3. PICK b \in State : Does(code[1], Began, b) /\ Does(code[2], b, Now)
  BY <1>1, <1>2, RanTwo, Zenon
<1>4. Now \in State /\ Began \in State /\ Halves(Began, Bits[start.w])
  BY <1>1, <1>2, RanTwo, BeganIs, Zenon
<1>5. /\ Signed(2 * Bits[start.w], Pair(Bits[start.w], Now.regs["dx"], Now.regs["ax"])) = Signed(8, Began.regs["ax"] % 256) * Signed(Bits[start.w], Began.regs["bx"])
         /\ Now.flags.CF = Bit(OutOfRange(Bits[start.w], Signed(8, Began.regs["ax"] % 256) * Signed(Bits[start.w], Began.regs["bx"])))
  BY <1>1, <1>2, <1>3, <1>4, ScaleResult
<1> QED
  BY <1>5, BeganIs, NowIs, Zenon DEF After, Before, Operand, n

LEMMA SquareHolds ==
  ASSUME Running, Traced, Done, start.task = "square"
  PROVE  /\ regs["ax"] = Wrap(n, Signed(n, s["bx"]) * Signed(n, s["bx"]))
         /\ flags.OF = Bit(Signed(n, s["bx"]) * Signed(n, s["bx"]) >= 2^(n - 1))
<1>1. start.task \in StraightTasks /\ start.w \in Widths /\ code = Code("square", start.w, start.cc)
  BY BeganIs DEF StraightTasks, Idiom
<1>2. /\ Len(code) = 1
      /\ code[1] = [op |-> "imulTo", w |-> start.w, left |-> R("bx"), dst |-> R("ax"), src |-> R("bx")]
  BY <1>1, SquareCode, Zenon
<1>3. Does(code[1], Began, Now)
  BY <1>1, <1>2, RanOne, Zenon
<1>4. Now \in State /\ Began \in State /\ Halves(Began, Bits[start.w])
  BY <1>1, <1>2, RanOne, BeganIs, Zenon
<1>5. /\ Now.regs["ax"] = Wrap(Bits[start.w], Signed(Bits[start.w], Began.regs["bx"]) * Signed(Bits[start.w], Began.regs["bx"]))
         /\ Now.flags.OF = Bit(Signed(Bits[start.w], Began.regs["bx"]) * Signed(Bits[start.w], Began.regs["bx"]) >= 2^(Bits[start.w] - 1))
  BY <1>1, <1>2, <1>3, <1>4, SquareResult
<1> QED
  BY <1>5, BeganIs, NowIs, Zenon DEF After, Before, Operand, n

LEMMA IdivHolds ==
  ASSUME Running, Traced, Done, start.task = "idiv"
  PROVE  Divided(Signed(n, regs["ax"]), Signed(n, regs["dx"]), Signed(n, s["ax"]), Signed(n, s["bx"]))
<1>1. start.task \in StraightTasks /\ start.w \in Widths /\ code = Code("idiv", start.w, start.cc)
  BY BeganIs DEF StraightTasks, Idiom
<1>2. /\ Len(code) = 2
      /\ code[1] = I("cwd", start.w, R("ax"), R("ax"))
      /\ code[2] = I("idiv", start.w, R("ax"), R("bx"))
  BY <1>1, IdivCode, Zenon
<1>3. PICK b \in State : Does(code[1], Began, b) /\ Does(code[2], b, Now)
  BY <1>1, <1>2, RanTwo, Zenon
<1>4. Now \in State /\ Began \in State /\ Halves(Began, Bits[start.w])
  BY <1>1, <1>2, RanTwo, BeganIs, Zenon
<1>5. Divided(Signed(Bits[start.w], Now.regs["ax"]), Signed(Bits[start.w], Now.regs["dx"]), Signed(Bits[start.w], Began.regs["ax"]), Signed(Bits[start.w], Began.regs["bx"]))
  BY <1>1, <1>2, <1>3, <1>4, IdivResult
<1> QED
  BY <1>5, BeganIs, NowIs, Zenon DEF After, Before, Operand, n

LEMMA QuarterHolds ==
  ASSUME Running, Traced, Done, start.task = "quarter"
  PROVE  Signed(n, regs["ax"]) = Quotient(Signed(n, s["ax"]), 4)
<1>1. start.task \in StraightTasks /\ start.w \in Widths /\ code = Code("quarter", start.w, start.cc)
  BY BeganIs DEF StraightTasks, Idiom
<1>2. /\ Len(code) = 4
      /\ code[1] = I("cwd", start.w, R("ax"), R("ax"))
      /\ code[2] = Digit83(4, start.w, R("dx"), 3)
      /\ code[3] = I("add", start.w, R("ax"), R("dx"))
      /\ code[4] = I("sar", start.w, R("ax"), Imm(2))
  BY <1>1, QuarterCode, Zenon
<1>3. PICK b, c, d \in State : Does(code[1], Began, b) /\ Does(code[2], b, c) /\ Does(code[3], c, d) /\ Does(code[4], d, Now)
  BY <1>1, <1>2, RanFour, Zenon
<1>4. Now \in State /\ Began \in State /\ Halves(Began, Bits[start.w])
  BY <1>1, <1>2, RanFour, BeganIs, Zenon
<1>5. Signed(Bits[start.w], Now.regs["ax"]) = Quotient(Signed(Bits[start.w], Began.regs["ax"]), 4)
  BY <1>1, <1>2, <1>3, <1>4, QuarterResult
<1> QED
  BY <1>5, BeganIs, NowIs, Zenon DEF After, Before, Operand, n

LEMMA AbsHolds ==
  ASSUME Running, Traced, Done, start.task = "abs"
  PROVE  regs["ax"] = Magnitude(Signed(n, s["ax"]))
<1>1. start.task \in StraightTasks /\ start.w \in Widths /\ code = Code("abs", start.w, start.cc)
  BY BeganIs DEF StraightTasks, Idiom
<1>2. /\ Len(code) = 3
      /\ code[1] = I("cwd", start.w, R("ax"), R("ax"))
      /\ code[2] = I("xor", start.w, R("ax"), R("dx"))
      /\ code[3] = I("sub", start.w, R("ax"), R("dx"))
  BY <1>1, AbsCode, Zenon
<1>3. PICK b, c \in State : Does(code[1], Began, b) /\ Does(code[2], b, c) /\ Does(code[3], c, Now)
  BY <1>1, <1>2, RanThree, Zenon
<1>4. Now \in State /\ Began \in State /\ Halves(Began, Bits[start.w])
  BY <1>1, <1>2, RanThree, BeganIs, Zenon
<1>5. Now.regs["ax"] = Magnitude(Signed(Bits[start.w], Began.regs["ax"]))
  BY <1>1, <1>2, <1>3, <1>4, AbsResult
<1> QED
  BY <1>5, BeganIs, NowIs, Zenon DEF After, Before, Operand, n

LEMMA ExtendHolds ==
  ASSUME Running, Traced, Done, start.task = "extend"
  PROVE  TopBit(n, s["ax"]) = 0 => After = s["ax"]
<1>1. start.task \in StraightTasks /\ start.w \in Widths /\ code = Code("extend", start.w, start.cc)
  BY BeganIs DEF StraightTasks, Idiom
<1>2. /\ Len(code) = 1
      /\ code[1] = I("cbw", start.w, R("ax"), R("ax"))
  BY <1>1, ExtendCode, Zenon
<1>3. Does(code[1], Began, Now)
  BY <1>1, <1>2, RanOne, Zenon
<1>4. Now \in State /\ Began \in State /\ Halves(Began, Bits[start.w])
  BY <1>1, <1>2, RanOne, BeganIs, Zenon
<1>5. TopBit(Bits[start.w], Began.regs["ax"]) = 0 => Pair(Bits[start.w], Now.regs["dx"], Now.regs["ax"]) = Began.regs["ax"]
  BY <1>1, <1>2, <1>3, <1>4, ExtendResult
<1> QED
  BY <1>5, BeganIs, NowIs, Zenon DEF After, Before, Operand, n

\* A product of any two operands fills both registers and says in CF whether it
\* needed the upper one, a quotient and remainder add up to the dividend and a
\* dividend made by cwd keeps its sign (fe_threadContext_mul32 to div32,
\* instruction_f6, instruction_f7).
THEOREM ProductsAndQuotientsHolds == Spec => []ProductsAndQuotients
<1>1. ASSUME Running, Traced PROVE ProductsAndQuotients
  <2> SUFFICES ASSUME Done PROVE ProductsAndQuotients
    BY DEF ProductsAndQuotients
  <2>1. CASE start.task = "mul"
    <3>1. /\ After = s["ax"] * s["bx"]
          /\ flags.CF = Bit(regs["dx"] # 0) /\ flags.OF = flags.CF
      BY <1>1, <2>1, MulHolds, Zenon
    <3> QED
      BY <2>1, <3>1 DEF ProductsAndQuotients
  <2>2. CASE start.task = "mulDiv"
    <3>1. Divided(regs["ax"], regs["dx"], s["ax"] * s["bx"], s["bp"])
      BY <1>1, <2>2, MulDivHolds, Zenon
    <3> QED
      BY <2>2, <3>1 DEF ProductsAndQuotients
  <2>3. CASE start.task = "imulIdiv"
    <3>1. Divided(Signed(n, regs["ax"]), Signed(n, regs["dx"]), Signed(n, s["ax"]) * Signed(n, s["bx"]), Signed(n, s["bp"]))
      BY <1>1, <2>3, ImulIdivHolds, Zenon
    <3> QED
      BY <2>3, <3>1 DEF ProductsAndQuotients
  <2>4. CASE start.task = "scale"
    <3>1. /\ Signed(2 * n, After) = Signed(8, s["ax"] % 256) * Signed(n, s["bx"])
          /\ flags.CF = Bit(OutOfRange(n, Signed(8, s["ax"] % 256) * Signed(n, s["bx"])))
      BY <1>1, <2>4, ScaleHolds, Zenon
    <3> QED
      BY <2>4, <3>1 DEF ProductsAndQuotients, OutOfRange
  <2>5. CASE start.task = "square"
    <3>1. /\ regs["ax"] = Wrap(n, Signed(n, s["bx"]) * Signed(n, s["bx"]))
          /\ flags.OF = Bit(Signed(n, s["bx"]) * Signed(n, s["bx"]) >= 2^(n - 1))
      BY <1>1, <2>5, SquareHolds, Zenon
    <3> QED
      BY <2>5, <3>1 DEF ProductsAndQuotients
  <2>6. CASE start.task = "idiv"
    <3>1. Divided(Signed(n, regs["ax"]), Signed(n, regs["dx"]), Signed(n, s["ax"]), Signed(n, s["bx"]))
      BY <1>1, <2>6, IdivHolds, Zenon
    <3> QED
      BY <2>6, <3>1 DEF ProductsAndQuotients
  <2>7. CASE start.task = "quarter"
    <3>1. Signed(n, regs["ax"]) = Quotient(Signed(n, s["ax"]), 4)
      BY <1>1, <2>7, QuarterHolds, Zenon
    <3> QED
      BY <2>7, <3>1 DEF ProductsAndQuotients
  <2>8. CASE start.task = "abs"
    <3>1. regs["ax"] = Magnitude(Signed(n, s["ax"]))
      BY <1>1, <2>8, AbsHolds, Zenon
    <3> QED
      BY <2>8, <3>1 DEF ProductsAndQuotients
  <2>9. CASE start.task = "extend"
    <3>1. TopBit(n, s["ax"]) = 0 => After = s["ax"]
      BY <1>1, <2>9, ExtendHolds, Zenon
    <3> QED
      BY <2>9, <3>1 DEF ProductsAndQuotients
  <2>10. CASE start.task \notin {"mul", "mulDiv", "imulIdiv", "scale", "square", "idiv", "quarter", "abs", "extend"}
    BY <2>10 DEF ProductsAndQuotients
  <2> QED
    BY <2>1, <2>2, <2>3, <2>4, <2>5, <2>6, <2>7, <2>8, <2>9, <2>10
<1> QED
  BY <1>1, RunningAlways, TracedAlways, PTL

Dividing == {"mulDiv", "imulIdiv", "idiv", "aad"}
DivisionFree(whole) == \A i \in 1..Len(whole) : whole[i].op \notin {"div", "idiv"}

LEMMA OthersDoNotDivide ==
  ASSUME NEW task \in Idiom \ Dividing, NEW w \in Widths, NEW cc
  PROVE  DivisionFree(Code(task, w, cc))
<1>1. CASE task = "add"
  <2> DEFINE c == Code("add", w, cc)
  <2>0. Len(c) = 3
         /\ c[1] = I("add", w, R("ax"), R("bx"))
         /\ c[2] = I("dec", "dword", R("ecx"), R("ecx"))
         /\ c[3] = I("adc", w, R("dx"), R("bp"))
    BY AddCode, Zenon
  <2> HIDE DEF c
  <2>1. c[1].op = "add" /\ c[2].op = "dec" /\ c[3].op = "adc"
    BY <2>0 DEF I
  <2>2. DivisionFree(c)
    BY <2>0, <2>1 DEF DivisionFree
  <2> QED
    BY <1>1, <2>2 DEF c
<1>2. CASE task = "sub"
  <2> DEFINE c == Code("sub", w, cc)
  <2>0. Len(c) = 3
         /\ c[1] = I("sub", w, R("ax"), R("bx"))
         /\ c[2] = I("inc", "dword", R("ecx"), R("ecx"))
         /\ c[3] = I("sbb", w, R("dx"), R("bp"))
    BY SubCode, Zenon
  <2> HIDE DEF c
  <2>1. c[1].op = "sub" /\ c[2].op = "inc" /\ c[3].op = "sbb"
    BY <2>0 DEF I
  <2>2. DivisionFree(c)
    BY <2>0, <2>1 DEF DivisionFree
  <2> QED
    BY <1>2, <2>2 DEF c
<1>3. CASE task = "neg"
  <2> DEFINE c == Code("neg", w, cc)
  <2>0. Len(c) = 3
         /\ c[1] = I("neg", w, R("ax"), R("ax"))
         /\ c[2] = Digit81(2, w, R("dx"), 0)
         /\ c[3] = I("neg", w, R("dx"), R("dx"))
    BY NegCode, Zenon
  <2> HIDE DEF c
  <2>1. c[1].op = "neg" /\ c[2].op = "81" /\ c[3].op = "neg"
    BY <2>0 DEF Digit81, I
  <2>2. DivisionFree(c)
    BY <2>0, <2>1 DEF DivisionFree
  <2> QED
    BY <1>3, <2>2 DEF c
<1>4. CASE task = "double"
  <2> DEFINE c == Code("double", w, cc)
  <2>0. Len(c) = 2
         /\ c[1] = I("shl", w, R("ax"), Imm(1))
         /\ c[2] = I("rcl", w, R("dx"), Imm(1))
    BY DoubleCode, Zenon
  <2> HIDE DEF c
  <2>1. c[1].op = "shl" /\ c[2].op = "rcl"
    BY <2>0 DEF I
  <2>2. DivisionFree(c)
    BY <2>0, <2>1 DEF DivisionFree
  <2> QED
    BY <1>4, <2>2 DEF c
<1>5. CASE task = "halve"
  <2> DEFINE c == Code("halve", w, cc)
  <2>0. Len(c) = 2
         /\ c[1] = I("sar", w, R("dx"), Imm(1))
         /\ c[2] = I("rcr", w, R("ax"), Imm(1))
    BY HalveCode, Zenon
  <2> HIDE DEF c
  <2>1. c[1].op = "sar" /\ c[2].op = "rcr"
    BY <2>0 DEF I
  <2>2. DivisionFree(c)
    BY <2>0, <2>1 DEF DivisionFree
  <2> QED
    BY <1>5, <2>2 DEF c
<1>6. CASE task = "halveUnsigned"
  <2> DEFINE c == Code("halveUnsigned", w, cc)
  <2>0. Len(c) = 2
         /\ c[1] = I("shr", w, R("dx"), Imm(1))
         /\ c[2] = I("rcr", w, R("ax"), Imm(1))
    BY HalveUnsignedCode, Zenon
  <2> HIDE DEF c
  <2>1. c[1].op = "shr" /\ c[2].op = "rcr"
    BY <2>0 DEF I
  <2>2. DivisionFree(c)
    BY <2>0, <2>1 DEF DivisionFree
  <2> QED
    BY <1>6, <2>2 DEF c
<1>7. CASE task = "rotate"
  <2> DEFINE c == Code("rotate", w, cc)
  <2>0. Len(c) = 2
         /\ c[1] = I("rol", w, R("ax"), R("ecx"))
         /\ c[2] = I("ror", w, R("ax"), R("ecx"))
    BY RotateCode, Zenon
  <2> HIDE DEF c
  <2>1. c[1].op = "rol" /\ c[2].op = "ror"
    BY <2>0 DEF I
  <2>2. DivisionFree(c)
    BY <2>0, <2>1 DEF DivisionFree
  <2> QED
    BY <1>7, <2>2 DEF c
<1>8. CASE task = "rotateCarry"
  <2> DEFINE c == Code("rotateCarry", w, cc)
  <2>0. Len(c) = 3
         /\ c[1] = Do("cmc")
         /\ c[2] = I("rcl", w, R("ax"), R("ecx"))
         /\ c[3] = I("rcr", w, R("ax"), R("ecx"))
    BY RotateCarryCode, Zenon
  <2> HIDE DEF c
  <2>1. c[1].op = "cmc" /\ c[2].op = "rcl" /\ c[3].op = "rcr"
    BY <2>0 DEF Do, I
  <2>2. DivisionFree(c)
    BY <2>0, <2>1 DEF DivisionFree
  <2> QED
    BY <1>8, <2>2 DEF c
<1>9. CASE task = "bool"
  <2> DEFINE c == Code("bool", w, cc)
  <2>0. Len(c) = 3
         /\ c[1] = I("neg", w, R("ax"), R("ax"))
         /\ c[2] = I("sbb", w, R("ax"), R("ax"))
         /\ c[3] = I("neg", w, R("ax"), R("ax"))
    BY BoolCode, Zenon
  <2> HIDE DEF c
  <2>1. c[1].op = "neg" /\ c[2].op = "sbb" /\ c[3].op = "neg"
    BY <2>0 DEF I
  <2>2. DivisionFree(c)
    BY <2>0, <2>1 DEF DivisionFree
  <2> QED
    BY <1>9, <2>2 DEF c
<1>10. CASE task = "blend"
  <2> DEFINE c == Code("blend", w, cc)
  <2>0. Len(c) = 4
         /\ c[1] = I("and", w, R("ax"), R("bx"))
         /\ c[2] = I("not", w, R("bx"), R("bx"))
         /\ c[3] = I("and", w, R("dx"), R("bx"))
         /\ c[4] = I("or", w, R("ax"), R("dx"))
    BY BlendCode, Zenon
  <2> HIDE DEF c
  <2>1. c[1].op = "and" /\ c[2].op = "not" /\ c[3].op = "and" /\ c[4].op = "or"
    BY <2>0 DEF I
  <2>2. DivisionFree(c)
    BY <2>0, <2>1 DEF DivisionFree
  <2> QED
    BY <1>10, <2>2 DEF c
<1>11. CASE task = "decrement"
  <2> DEFINE c == Code("decrement", w, cc)
  <2>0. Len(c) = 2
         /\ c[1] = Digit83(0, w, R("ax"), -1)
         /\ c[2] = Digit83(2, w, R("dx"), -1)
    BY DecrementCode, Zenon
  <2> HIDE DEF c
  <2>1. c[1].op = "83" /\ c[2].op = "83"
    BY <2>0 DEF Digit83
  <2>2. DivisionFree(c)
    BY <2>0, <2>1 DEF DivisionFree
  <2> QED
    BY <1>11, <2>2 DEF c
<1>12. CASE task = "align"
  <2> DEFINE c == Code("align", w, cc)
  <2>0. Len(c) = 2
         /\ c[1] = Digit83(0, w, R("ax"), 3)
         /\ c[2] = Digit83(4, w, R("ax"), -4)
    BY AlignCode, Zenon
  <2> HIDE DEF c
  <2>1. c[1].op = "83" /\ c[2].op = "83"
    BY <2>0 DEF Digit83
  <2>2. DivisionFree(c)
    BY <2>0, <2>1 DEF DivisionFree
  <2> QED
    BY <1>12, <2>2 DEF c
<1>13. CASE task = "full"
  <2> DEFINE c == Code("full", w, cc)
  <2>0. Len(c) = 2
         /\ c[1] = Digit83(7, w, R("ax"), -1)
         /\ c[2] = Set("z", R("bx"))
    BY FullCode, Zenon
  <2> HIDE DEF c
  <2>1. c[1].op = "83" /\ c[2].op = "set"
    BY <2>0 DEF Digit83, Set
  <2>2. DivisionFree(c)
    BY <2>0, <2>1 DEF DivisionFree
  <2> QED
    BY <1>13, <2>2 DEF c
<1>14. CASE task = "positive"
  <2> DEFINE c == Code("positive", w, cc)
  <2>0. Len(c) = 2
         /\ c[1] = Digit81(1, w, R("ax"), 2^(Bits[w] - 1))
         /\ c[2] = Digit81(6, w, R("ax"), 2^(Bits[w] - 1))
    BY PositiveCode, Zenon
  <2> HIDE DEF c
  <2>1. c[1].op = "81" /\ c[2].op = "81"
    BY <2>0 DEF Digit81
  <2>2. DivisionFree(c)
    BY <2>0, <2>1 DEF DivisionFree
  <2> QED
    BY <1>14, <2>2 DEF c
<1>15. CASE task = "reduce"
  <2> DEFINE c == Code("reduce", w, cc)
  <2>0. Len(c) = 2
         /\ c[1] = Digit81(5, w, R("ax"), 2^(Bits[w] - 1))
         /\ c[2] = Digit81(3, w, R("dx"), 1)
    BY ReduceCode, Zenon
  <2> HIDE DEF c
  <2>1. c[1].op = "81" /\ c[2].op = "81"
    BY <2>0 DEF Digit81
  <2>2. DivisionFree(c)
    BY <2>0, <2>1 DEF DivisionFree
  <2> QED
    BY <1>15, <2>2 DEF c
<1>16. CASE task = "compare"
  <2> DEFINE c == Code("compare", w, cc)
  <2>0. Len(c) = 6
         /\ c[1] = I("cmp", w, R("ax"), R("bx"))
         /\ c[2] = Set(cc, R("bp"))
         /\ c[3] = Cmov(cc, R("dx"), R("bx"))
         /\ c[4] = J(cc, 6)
         /\ c[5] = I("mov", "dword", R("ecx"), Imm(7))
         /\ c[6] = I("movzx", "dword", R("esi"), R("bp"))
    BY CompareCode, Zenon
  <2> HIDE DEF c
  <2>1. c[1].op = "cmp" /\ c[2].op = "set" /\ c[3].op = "cmov" /\ c[4].op = "j" /\ c[5].op = "mov" /\ c[6].op = "movzx"
    BY <2>0 DEF Cmov, I, J, Set
  <2>2. DivisionFree(c)
    BY <2>0, <2>1 DEF DivisionFree
  <2> QED
    BY <1>16, <2>2 DEF c
<1>17. CASE task = "mul"
  <2> DEFINE c == Code("mul", w, cc)
  <2>0. Len(c) = 1
         /\ c[1] = I("mul", w, R("ax"), R("bx"))
    BY MulCode, Zenon
  <2> HIDE DEF c
  <2>1. c[1].op = "mul"
    BY <2>0 DEF I
  <2>2. DivisionFree(c)
    BY <2>0, <2>1 DEF DivisionFree
  <2> QED
    BY <1>17, <2>2 DEF c
<1>18. CASE task = "scale"
  <2> DEFINE c == Code("scale", w, cc)
  <2>0. Len(c) = 2
         /\ c[1] = I("movsx", w, R("ax"), R("ax"))
         /\ c[2] = I("imul", w, R("ax"), R("bx"))
    BY ScaleCode, Zenon
  <2> HIDE DEF c
  <2>1. c[1].op = "movsx" /\ c[2].op = "imul"
    BY <2>0 DEF I
  <2>2. DivisionFree(c)
    BY <2>0, <2>1 DEF DivisionFree
  <2> QED
    BY <1>18, <2>2 DEF c
<1>19. CASE task = "square"
  <2> DEFINE c == Code("square", w, cc)
  <2>0. Len(c) = 1
         /\ c[1] = [op |-> "imulTo", w |-> w, left |-> R("bx"), dst |-> R("ax"), src |-> R("bx")]
    BY SquareCode, Zenon
  <2> HIDE DEF c
  <2>1. c[1].op = "imulTo"
    BY <2>0
  <2>2. DivisionFree(c)
    BY <2>0, <2>1 DEF DivisionFree
  <2> QED
    BY <1>19, <2>2 DEF c
<1>20. CASE task = "quarter"
  <2> DEFINE c == Code("quarter", w, cc)
  <2>0. Len(c) = 4
         /\ c[1] = I("cwd", w, R("ax"), R("ax"))
         /\ c[2] = Digit83(4, w, R("dx"), 3)
         /\ c[3] = I("add", w, R("ax"), R("dx"))
         /\ c[4] = I("sar", w, R("ax"), Imm(2))
    BY QuarterCode, Zenon
  <2> HIDE DEF c
  <2>1. c[1].op = "cwd" /\ c[2].op = "83" /\ c[3].op = "add" /\ c[4].op = "sar"
    BY <2>0 DEF Digit83, I
  <2>2. DivisionFree(c)
    BY <2>0, <2>1 DEF DivisionFree
  <2> QED
    BY <1>20, <2>2 DEF c
<1>21. CASE task = "abs"
  <2> DEFINE c == Code("abs", w, cc)
  <2>0. Len(c) = 3
         /\ c[1] = I("cwd", w, R("ax"), R("ax"))
         /\ c[2] = I("xor", w, R("ax"), R("dx"))
         /\ c[3] = I("sub", w, R("ax"), R("dx"))
    BY AbsCode, Zenon
  <2> HIDE DEF c
  <2>1. c[1].op = "cwd" /\ c[2].op = "xor" /\ c[3].op = "sub"
    BY <2>0 DEF I
  <2>2. DivisionFree(c)
    BY <2>0, <2>1 DEF DivisionFree
  <2> QED
    BY <1>21, <2>2 DEF c
<1>22. CASE task = "extend"
  <2> DEFINE c == Code("extend", w, cc)
  <2>0. Len(c) = 1
         /\ c[1] = I("cbw", w, R("ax"), R("ax"))
    BY ExtendCode, Zenon
  <2> HIDE DEF c
  <2>1. c[1].op = "cbw"
    BY <2>0 DEF I
  <2>2. DivisionFree(c)
    BY <2>0, <2>1 DEF DivisionFree
  <2> QED
    BY <1>22, <2>2 DEF c
<1>23. CASE task = "daa"
  <2> DEFINE c == Code("daa", w, cc)
  <2>0. Len(c) = 5
         /\ c[1] = I("add", w, R("ax"), R("bx"))
         /\ c[2] = I("daa", "byte", R("ax"), R("ax"))
         /\ c[3] = I("xchg", w, R("ax"), R("dx"))
         /\ c[4] = I("adc", w, R("ax"), R("bp"))
         /\ c[5] = I("daa", "byte", R("ax"), R("ax"))
    BY DaaCode, Zenon
  <2> HIDE DEF c
  <2>1. c[1].op = "add" /\ c[2].op = "daa" /\ c[3].op = "xchg" /\ c[4].op = "adc" /\ c[5].op = "daa"
    BY <2>0 DEF I
  <2>2. DivisionFree(c)
    BY <2>0, <2>1 DEF DivisionFree
  <2> QED
    BY <1>23, <2>2 DEF c
<1>24. CASE task = "das"
  <2> DEFINE c == Code("das", w, cc)
  <2>0. Len(c) = 5
         /\ c[1] = I("sub", w, R("ax"), R("bx"))
         /\ c[2] = I("das", "byte", R("ax"), R("ax"))
         /\ c[3] = I("xchg", w, R("ax"), R("dx"))
         /\ c[4] = I("sbb", w, R("ax"), R("bp"))
         /\ c[5] = I("das", "byte", R("ax"), R("ax"))
    BY DasCode, Zenon
  <2> HIDE DEF c
  <2>1. c[1].op = "sub" /\ c[2].op = "das" /\ c[3].op = "xchg" /\ c[4].op = "sbb" /\ c[5].op = "das"
    BY <2>0 DEF I
  <2>2. DivisionFree(c)
    BY <2>0, <2>1 DEF DivisionFree
  <2> QED
    BY <1>24, <2>2 DEF c
<1>25. CASE task = "aaa"
  <2> DEFINE c == Code("aaa", w, cc)
  <2>0. Len(c) = 2
         /\ c[1] = I("add", w, R("ax"), R("bx"))
         /\ c[2] = I("aaa", "byte", R("ax"), R("ax"))
    BY AaaCode, Zenon
  <2> HIDE DEF c
  <2>1. c[1].op = "add" /\ c[2].op = "aaa"
    BY <2>0 DEF I
  <2>2. DivisionFree(c)
    BY <2>0, <2>1 DEF DivisionFree
  <2> QED
    BY <1>25, <2>2 DEF c
<1>26. CASE task = "aas"
  <2> DEFINE c == Code("aas", w, cc)
  <2>0. Len(c) = 2
         /\ c[1] = I("sub", w, R("ax"), R("bx"))
         /\ c[2] = I("aas", "byte", R("ax"), R("ax"))
    BY AasCode, Zenon
  <2> HIDE DEF c
  <2>1. c[1].op = "sub" /\ c[2].op = "aas"
    BY <2>0 DEF I
  <2>2. DivisionFree(c)
    BY <2>0, <2>1 DEF DivisionFree
  <2> QED
    BY <1>26, <2>2 DEF c
<1>27. CASE task = "aam"
  <2> DEFINE c == Code("aam", w, cc)
  <2>0. Len(c) = 2
         /\ c[1] = I("mul", w, R("ax"), R("bx"))
         /\ c[2] = I("aam", "byte", R("ax"), R("ax"))
    BY AamCode, Zenon
  <2> HIDE DEF c
  <2>1. c[1].op = "mul" /\ c[2].op = "aam"
    BY <2>0 DEF I
  <2>2. DivisionFree(c)
    BY <2>0, <2>1 DEF DivisionFree
  <2> QED
    BY <1>27, <2>2 DEF c
<1>28. CASE task = "strlen"
  <2> DEFINE c == Code("strlen", w, cc)
  <2>0. Len(c) = 3
         /\ c[1] = Str("scas", "repne")
         /\ c[2] = I("not", "dword", R("ecx"), R("ecx"))
         /\ c[3] = I("dec", "dword", R("ecx"), R("ecx"))
    BY StrlenCode, Zenon
  <2> HIDE DEF c
  <2>1. c[1].op = "scas" /\ c[2].op = "not" /\ c[3].op = "dec"
    BY <2>0 DEF I, Str
  <2>2. DivisionFree(c)
    BY <2>0, <2>1 DEF DivisionFree
  <2> QED
    BY <1>28, <2>2 DEF c
<1>29. CASE task = "memset"
  <2> DEFINE c == Code("memset", w, cc)
  <2>0. Len(c) = 1
         /\ c[1] = Str("stos", "rep")
    BY MemsetCode, Zenon
  <2> HIDE DEF c
  <2>1. c[1].op = "stos"
    BY <2>0 DEF Str
  <2>2. DivisionFree(c)
    BY <2>0, <2>1 DEF DivisionFree
  <2> QED
    BY <1>29, <2>2 DEF c
<1>30. CASE task = "memcmp"
  <2> DEFINE c == Code("memcmp", w, cc)
  <2>0. Len(c) = 4
         /\ c[1] = I("xor", "dword", R("ax"), R("ax"))
         /\ c[2] = Str("cmps", "rep")
         /\ c[3] = Set("b", R("ax"))
         /\ c[4] = Set("nz", R("dx"))
    BY MemcmpCode, Zenon
  <2> HIDE DEF c
  <2>1. c[1].op = "xor" /\ c[2].op = "cmps" /\ c[3].op = "set" /\ c[4].op = "set"
    BY <2>0 DEF I, Set, Str
  <2>2. DivisionFree(c)
    BY <2>0, <2>1 DEF DivisionFree
  <2> QED
    BY <1>30, <2>2 DEF c
<1>31. CASE task = "memmove"
  <2> DEFINE c == Code("memmove", w, cc)
  <2>0. Len(c) = 9
         /\ c[1] = I("cmp", "dword", R("esi"), R("edi"))
         /\ c[2] = J("nb", 8)
         /\ c[3] = I("add", "dword", R("esi"), R("ecx"))
         /\ c[4] = I("add", "dword", R("edi"), R("ecx"))
         /\ c[5] = I("dec", "dword", R("esi"), R("esi"))
         /\ c[6] = I("dec", "dword", R("edi"), R("edi"))
         /\ c[7] = Do("std")
         /\ c[8] = Str("movs", "rep")
         /\ c[9] = Do("cld")
    BY MemmoveCode, Zenon
  <2> HIDE DEF c
  <2>1. c[1].op = "cmp" /\ c[2].op = "j" /\ c[3].op = "add" /\ c[4].op = "add" /\ c[5].op = "dec" /\ c[6].op = "dec" /\ c[7].op = "std" /\ c[8].op = "movs" /\ c[9].op = "cld"
    BY <2>0 DEF Do, I, J, Str
  <2>2. DivisionFree(c)
    BY <2>0, <2>1 DEF DivisionFree
  <2> QED
    BY <1>31, <2>2 DEF c
<1>32. CASE task = "strcpy"
  <2> DEFINE c == Code("strcpy", w, cc)
  <2>0. Len(c) = 4
         /\ c[1] = Str("lods", "none")
         /\ c[2] = Str("stos", "none")
         /\ c[3] = I("test", "byte", R("ax"), R("ax"))
         /\ c[4] = J("nz", 1)
    BY StrcpyCode, Zenon
  <2> HIDE DEF c
  <2>1. c[1].op = "lods" /\ c[2].op = "stos" /\ c[3].op = "test" /\ c[4].op = "j"
    BY <2>0 DEF I, J, Str
  <2>2. DivisionFree(c)
    BY <2>0, <2>1 DEF DivisionFree
  <2> QED
    BY <1>32, <2>2 DEF c
<1> QED
  BY <1>1, <1>2, <1>3, <1>4, <1>5, <1>6, <1>7, <1>8, <1>9, <1>10, <1>11, <1>12, <1>13, <1>14, <1>15, <1>16, <1>17, <1>18, <1>19, <1>20, <1>21, <1>22, <1>23, <1>24, <1>25, <1>26, <1>27, <1>28, <1>29, <1>30, <1>31, <1>32 DEF Idiom, Dividing


\* Code without a division never stops the emulator.
Undivided == start.task \notin Dividing => outcome = "running"

LEMMA UndividedAlways == Spec => []Undivided
<1>1. Init => Undivided
  BY DEF Init, Undivided
<1>2. Running /\ Undivided /\ [Next]_vars => Undivided'
  <2>1. CASE UNCHANGED vars
    BY <2>1 DEF vars, machine, Undivided
  <2>2. ASSUME Running, Undivided, Next PROVE Undivided'
    <3>1. /\ start' = start /\ code = Code(start.task, start.w, start.cc) /\ pc \in 1..Len(code)
          /\ start.w \in Widths /\ start.task \in Idiom
      BY <2>2, Stepping DEF StartFits
    <3> SUFFICES ASSUME start.task \notin Dividing PROVE outcome' = "running"
      BY <3>1 DEF Undivided
    <3>2. DivisionFree(code)
      BY <3>1, OthersDoNotDivide
    <3>3. code[pc].op \notin {"div", "idiv"}
      BY <3>1, <3>2 DEF DivisionFree
    <3> QED
      BY <2>2, <3>3, OnlyDivisionsQuit DEF Instruction
  <2> QED
    BY <2>1, <2>2
<1> QED
  BY <1>1, <1>2, RunningAlways, PTL DEF Spec

\* Two instructions, stopped: it was the second, after the first has run.
LEMMA StoppedAtSecond ==
  ASSUME Running, Traced, start.task \in StraightTasks, outcome = "aborted", Len(code) = 2,
         code[1].op \notin {"div", "idiv"}
  PROVE  Now \in State /\ Does(code[1], Began, Now) /\ ~ Accepted(code[2], regs)
<1>1. pc = 2 /\ ~ Accepted(code[2], regs)
  <2>1. pc \in 1..2 /\ code[pc].op \in {"div", "idiv"} /\ ~ Accepted(code[pc], regs)
    BY DEF Traced, Stopped
  <2> QED
    BY <2>1
<1>2. PICK p : Path(code, 2, p) /\ p[1] = Began /\ p[2] = Now
  BY <1>1 DEF Traced, Passed
<1>3. p \in [1..2 -> State] /\ \A j \in 1..(2 - 1) : Does(code[j], p[j], p[j + 1])
  BY <1>2 DEF Path
<1>4. 1 \in 1..(2 - 1) /\ 2 \in 1..2 /\ 1 + 1 = 2
  OBVIOUS
<1>5. Does(code[1], p[1], p[2]) /\ p[2] \in State
  BY <1>3, <1>4
<1> QED
  BY <1>1, <1>2, <1>5

\* What a division of straight code is asked, in registers of its width.
LEMMA AskedOf ==
  ASSUME NEW a, NEW w \in Widths, NEW e, Narrow(a, Bits[w], e)
  PROVE  /\ Accepted(I("div", w, R("ax"), R(e)), a.regs) = Div32Accepts(Bits[w], UnsignedIn(a.regs, w), a.regs[e])
         /\ Accepted(I("idiv", w, R("ax"), R(e)), a.regs)
              = Idiv32Accepts(Bits[w], SignedIn(a.regs, w), Signed(Bits[w], a.regs[e]))
<1>1. Bits[w] \in Nat
  BY WidthFacts
<1>2. In(a.regs, Bits[w], R(e)) = a.regs[e]
  BY <1>1, InIs
<1> DEFINE c == I("div", w, R("ax"), R(e))
           d == I("idiv", w, R("ax"), R(e))
<1>3. c.op = "div" /\ c.w = w /\ c.src = R(e) /\ d.op = "idiv" /\ d.op # "div" /\ d.w = w /\ d.src = R(e)
  BY DEF I
<1> HIDE DEF c, d
<1>4. Divisor(c, a.regs) = a.regs[e] /\ Divisor(d, a.regs) = Signed(Bits[w], a.regs[e])
  BY <1>2, <1>3, Zenon DEF Divisor
<1>5. /\ Accepted(c, a.regs) = Div32Accepts(Bits[w], UnsignedIn(a.regs, w), a.regs[e])
      /\ Accepted(d, a.regs) = Idiv32Accepts(Bits[w], SignedIn(a.regs, w), Signed(Bits[w], a.regs[e]))
  BY <1>3, <1>4, Zenon DEF Accepted
<1> QED
  BY <1>5 DEF c, d

LEMMA IdivNeverStops ==
  ASSUME Running, Traced, start.task = "idiv"
  PROVE  outcome # "aborted"
<1> SUFFICES ASSUME outcome = "aborted" PROVE FALSE
  OBVIOUS
<1> DEFINE w == start.w
           k == Bits[w]
<1>1. start.task \in StraightTasks /\ w \in Widths /\ code = Code("idiv", w, start.cc)
  BY BeganIs DEF StraightTasks, Idiom
<1>2. Len(code) = 2 /\ code[1] = I("cwd", w, R("ax"), R("ax")) /\ code[2] = I("idiv", w, R("ax"), R("bx"))
  BY <1>1, IdivCode, Zenon
<1>3. code[1].op \notin {"div", "idiv"}
  BY <1>2 DEF I
<1>4. Now \in State /\ Does(code[1], Began, Now) /\ ~ Accepted(code[2], regs) /\ Began \in State /\ Halves(Began, k)
  BY <1>1, <1>2, <1>3, StoppedAtSecond, BeganIs, Zenon
<1>5. /\ Halves(Now, k) /\ Now.regs["bx"] = Began.regs["bx"]
      /\ Signed(2 * k, Whole(Now, k)) = Signed(k, Began.regs["ax"])
  BY <1>1, <1>2, <1>4, SpreadResult
<1>6. SignedIn(Now.regs, w) = Signed(2 * k, Whole(Now, k))
  BY <1>1, <1>4, <1>5, WholeIs DEF Halves
<1>7. Accepted(I("idiv", w, R("ax"), R("bx")), Now.regs) = Idiv32Accepts(k, SignedIn(Now.regs, w), Signed(k, Now.regs["bx"]))
  BY <1>1, <1>5, AskedOf, Zenon DEF Halves
<1>8. ~ Idiv32Accepts(k, Signed(k, s["ax"]), Signed(k, s["bx"]))
  BY <1>2, <1>4, <1>5, <1>6, <1>7, BeganIs, NowIs, Zenon
<1>9. Idiv32Accepts(n, Signed(n, s["ax"]), Signed(n, s["bx"]))
  BY DEF Running, StartOK, Legal
<1> QED
  BY <1>8, <1>9, Zenon DEF n

LEMMA ImulIdivNeverStops ==
  ASSUME Running, Traced, start.task = "imulIdiv"
  PROVE  outcome # "aborted"
<1> SUFFICES ASSUME outcome = "aborted" PROVE FALSE
  OBVIOUS
<1> DEFINE w == start.w
           k == Bits[w]
<1>1. start.task \in StraightTasks /\ w \in Widths /\ code = Code("imulIdiv", w, start.cc)
  BY BeganIs DEF StraightTasks, Idiom
<1>2. Len(code) = 2 /\ code[1] = I("imul", w, R("ax"), R("bx")) /\ code[2] = I("idiv", w, R("ax"), R("bp"))
  BY <1>1, ImulIdivCode, Zenon
<1>3. code[1].op \notin {"div", "idiv"}
  BY <1>2 DEF I
<1>4. Now \in State /\ Does(code[1], Began, Now) /\ ~ Accepted(code[2], regs) /\ Began \in State /\ Halves(Began, k)
  BY <1>1, <1>2, <1>3, StoppedAtSecond, BeganIs, Zenon
<1>5. /\ Halves(Now, k) /\ Now.regs["bp"] = Began.regs["bp"]
      /\ Signed(2 * k, Whole(Now, k)) = Signed(k, Began.regs["ax"]) * Signed(k, Began.regs["bx"])
  BY <1>1, <1>2, <1>4, ImulResult
<1>6. SignedIn(Now.regs, w) = Signed(2 * k, Whole(Now, k))
  BY <1>1, <1>4, <1>5, WholeIs DEF Halves
<1>7. Accepted(I("idiv", w, R("ax"), R("bp")), Now.regs) = Idiv32Accepts(k, SignedIn(Now.regs, w), Signed(k, Now.regs["bp"]))
  BY <1>1, <1>5, AskedOf, Zenon DEF Halves
<1>8. ~ Idiv32Accepts(k, Signed(k, s["ax"]) * Signed(k, s["bx"]), Signed(k, s["bp"]))
  BY <1>2, <1>4, <1>5, <1>6, <1>7, BeganIs, NowIs, Zenon
<1>9. Idiv32Accepts(n, Signed(n, s["ax"]) * Signed(n, s["bx"]), Signed(n, s["bp"]))
  BY DEF Running, StartOK, Legal
<1> QED
  BY <1>8, <1>9, Zenon DEF n

LEMMA MulDivStops ==
  ASSUME Running, Traced, start.task = "mulDiv", outcome = "aborted"
  PROVE  start.w = "word" /\ s["ax"] * s["bx"] >= 2^(2 * n - 1)
<1> DEFINE w == start.w
           k == Bits[w]
           x == s["ax"] * s["bx"]
           y == s["bp"]
<1>1. start.task \in StraightTasks /\ w \in Widths /\ code = Code("mulDiv", w, start.cc)
  BY BeganIs DEF StraightTasks, Idiom
<1>2. Len(code) = 2 /\ code[1] = I("mul", w, R("ax"), R("bx")) /\ code[2] = I("div", w, R("ax"), R("bp"))
  BY <1>1, MulDivCode, Zenon
<1>3. code[1].op \notin {"div", "idiv"}
  BY <1>2 DEF I
<1>4. Now \in State /\ Does(code[1], Began, Now) /\ ~ Accepted(code[2], regs) /\ Began \in State /\ Halves(Began, k)
  BY <1>1, <1>2, <1>3, StoppedAtSecond, BeganIs, Zenon
<1>5. /\ Halves(Now, k) /\ Now.regs["bp"] = Began.regs["bp"]
      /\ Pair(k, Now.regs["dx"], Now.regs["ax"]) = Began.regs["ax"] * Began.regs["bx"]
  BY <1>1, <1>2, <1>4, MulResult
<1>6. Whole(Now, k) = x /\ Now.regs["bp"] = y /\ y \in Number(k)
  BY <1>4, <1>5, BeganIs, Zenon DEF Whole, Halves, Narrow
<1>7. Accepted(I("div", w, R("ax"), R("bp")), Now.regs) = Div32Accepts(k, UnsignedIn(Now.regs, w), Now.regs["bp"])
  BY <1>1, <1>5, AskedOf, Zenon DEF Halves
<1>8. ~ Div32Accepts(k, UnsignedIn(Now.regs, w), y)
  BY <1>2, <1>4, <1>6, <1>7, NowIs, Zenon
<1>9. IF w = "word" /\ Whole(Now, k) >= 2^(2 * k - 1)
      THEN ~ Div32Accepts(k, UnsignedIn(Now.regs, w), y)
      ELSE UnsignedIn(Now.regs, w) = Whole(Now, k)
  BY <1>1, <1>4, <1>5, <1>6, UnsignedInIs DEF Halves
<1>10. Div32Accepts(k, x, y)
  <2>1. x \div y < 2^n
    BY DEF Running, StartOK, Legal
  <2>2. y # 0
    BY GivenOperands, BeganIs
  <2> QED
    BY <2>1, <2>2, Zenon DEF Div32Accepts, n
<1>11. w = "word" /\ Whole(Now, k) >= 2^(2 * k - 1)
  BY <1>6, <1>8, <1>9, <1>10, Zenon
<1> QED
  BY <1>6, <1>11, Zenon DEF n

LEMMA AadNeverStops ==
  ASSUME Running, Traced, start.task = "aad"
  PROVE  outcome # "aborted"
<1> SUFFICES ASSUME outcome = "aborted" PROVE FALSE
  OBVIOUS
<1> DEFINE w == start.w
           k == Bits[w]
           y == s["bx"]
<1>1. start.task \in StraightTasks /\ w \in Widths /\ code = Code("aad", w, start.cc) /\ w = "byte" /\ k = 8
  <2>1. w \in WidthsOf("aad")
    BY BeganIs
  <2>2. w = "byte"
    BY <2>1 DEF WidthsOf
  <2>3. w \in Widths
    BY BeganIs
  <2>4. k = 8
    BY <2>2, <2>3, WidthFacts
  <2> QED
    BY <2>2, <2>4, BeganIs DEF StraightTasks, Idiom
<1>2. Len(code) = 2 /\ code[1] = I("aad", "byte", R("ax"), R("ax")) /\ code[2] = I("div", w, R("ax"), R("bx"))
  BY <1>1, AadCode, Zenon
<1>3. code[1].op \notin {"div", "idiv"}
  BY <1>2 DEF I
<1>4. Now \in State /\ Does(code[1], Began, Now) /\ ~ Accepted(code[2], regs) /\ Began \in State /\ Halves(Began, k)
  BY <1>1, <1>2, <1>3, StoppedAtSecond, BeganIs, Zenon
<1>5. PICK r : /\ DecimalLeaves("aad", Began.regs["dx"], Began.regs["ax"], Began.flags, r)
               /\ BecomesPair(Began, Now, r.ah, r.al)
  <2>1. Narrow(Began, 8, "ax") /\ Narrow(Began, 8, "dx")
    BY <1>1, <1>4 DEF Halves
  <2>2. "aad" \in DecimalNames /\ Does(I("aad", "byte", R("ax"), R("ax")), Began, Now)
    BY <1>2, <1>4 DEF DecimalNames
  <2> QED
    BY <1>4, <2>1, <2>2, DecimalPair, Zenon
<1>6. r.ah = 0 /\ r.al \in 0..255
  BY <1>5 DEF DecimalLeaves, Byte
<1>7. /\ Halves(Now, k) /\ Now.regs["bx"] = Began.regs["bx"] /\ Now.regs["ax"] = r.al /\ Now.regs["dx"] = 0
  <2>1. r.ah \in Number(k) /\ r.al \in Number(k)
    BY <1>1, <1>6, NarrowNumbers
  <2> QED
    BY <1>4, <1>5, <1>6, <2>1, PairKept
<1>8. y \in 1..9 /\ Now.regs["bx"] = y /\ y \in Number(k)
  BY <1>4, <1>7, GivenOperands, BeganIs DEF Halves, Narrow
<1>9. Whole(Now, k) = r.al
  <2>1. 0 * 2^k + r.al = r.al
    <3>1. 2^8 = 256
      OBVIOUS
    <3> QED
      BY <1>1, <1>6, <3>1
  <2> QED
    BY <1>7, <2>1 DEF Whole, Pair
<1>10. UnsignedIn(Now.regs, w) = r.al
  <2>1. w # "word"
    BY <1>1
  <2> QED
    BY <1>1, <1>4, <1>7, <1>9, <2>1, WholeIs DEF Halves
<1>11. Accepted(I("div", w, R("ax"), R("bx")), Now.regs) = Div32Accepts(k, UnsignedIn(Now.regs, w), Now.regs["bx"])
  BY <1>1, <1>7, AskedOf, Zenon DEF Halves
<1>12. Div32Accepts(k, r.al, y)
  <2> DEFINE v == r.al
  <2>1. v \in 0..255
    BY <1>6
  <2> HIDE DEF v, y
  <2>2. v \div y < 256 /\ y # 0 /\ 2^8 = 256
    BY <2>1, <1>8
  <2> QED
    BY <1>1, <2>2 DEF Div32Accepts, v
<1> QED
  BY <1>2, <1>4, <1>8, <1>10, <1>11, <1>12, NowIs, Zenon

\* A quotient that fits stops the emulator for one dividend only: DX:AX with its
\* upper bit set, which div takes for a negative number (instruction_f7, the
\* assertions of fe_threadContext_div32 and idiv32).  Only code with a division can
\* stop, and what the other three divide was made by the instruction before.
THEOREM OnlyWordDivisionAbortsHolds == Spec => []OnlyWordDivisionAborts
<1>1. ASSUME Running, Traced, Undivided PROVE OnlyWordDivisionAborts
  <2> SUFFICES ASSUME outcome = "aborted"
               PROVE  start.task = "mulDiv" /\ start.w = "word" /\ s["ax"] * s["bx"] >= 2^(2 * n - 1)
    BY DEF OnlyWordDivisionAborts
  <2>1. start.task \in Dividing
    BY <1>1 DEF Undivided
  <2>2. start.task # "aad"
    BY <1>1, AadNeverStops
  <2>3. start.task # "imulIdiv"
    BY <1>1, ImulIdivNeverStops
  <2>4. start.task # "idiv"
    BY <1>1, IdivNeverStops
  <2>5. start.task = "mulDiv"
    BY <2>1, <2>2, <2>3, <2>4 DEF Dividing
  <2>6. start.w = "word" /\ s["ax"] * s["bx"] >= 2^(2 * n - 1)
    BY <1>1, <2>5, MulDivStops, Zenon
  <2> QED
    BY <2>5, <2>6, Zenon
<1> QED
  BY <1>1, RunningAlways, TracedAlways, UndividedAlways, PTL

--------------------------------------------------------------------------------
(* Decimal digits *)

LEMMA Nibbles ==
  ASSUME NEW high \in Int, NEW low \in 0..15
  PROVE  (16 * high + low) \div 16 = high /\ (16 * high + low) % 16 = low
OBVIOUS

LEMMA PackedIs ==
  ASSUME NEW high \in 0..9, NEW low \in 0..9
  PROVE  /\ IsPacked(16 * high + low) /\ Packed(16 * high + low) = 10 * high + low
         /\ (16 * high + low) % 256 = 16 * high + low
<1> DEFINE v == 16 * high + low
<1>1. v \div 16 = high /\ v % 16 = low
  BY Nibbles
<1>2. v \in 0..153
  OBVIOUS
<1> HIDE DEF v
<1>3. v % 256 = v
  BY <1>2
<1> QED
  BY <1>1, <1>3 DEF IsPacked, Packed, v

\* The two digits of a packed byte.
LEMMA DigitsOf ==
  ASSUME NEW v \in 0..255, IsPacked(v)
  PROVE  /\ v = 16 * (v \div 16) + (v % 16) /\ v \div 16 \in 0..9 /\ v % 16 \in 0..9
         /\ Packed(v) = 10 * (v \div 16) + (v % 16)
<1>1. v = 16 * (v \div 16) + (v % 16) /\ v \div 16 \in Int /\ v \div 16 >= 0 /\ v % 16 \in 0..15
  OBVIOUS
<1> QED
  BY <1>1 DEF IsPacked, Packed

DaaOf(al, f) ==
  (IF AdjustsHigh(al, f) THEN (IF Adjusts(al, f) THEN al + 6 ELSE al) + 96
   ELSE IF Adjusts(al, f) THEN al + 6 ELSE al) % 256
DasOf(al, f) ==
  (IF AdjustsHigh(al, f) THEN (IF Adjusts(al, f) THEN al - 6 ELSE al) - 96
   ELSE IF Adjusts(al, f) THEN al - 6 ELSE al) % 256

LEMMA PackedType ==
  ASSUME NEW v \in Byte
  PROVE  Packed(v) \in Int
BY DEF Packed, Byte

\* What a byte sum or difference leaves in al and in CF and AF.
SumTells(x, y, carry, al, f) ==
  /\ f.CF = Bit((x + y) + carry >= 256) /\ al = ((x + y) + carry) - f.CF * 256
  /\ f.AF = Bit(((x % 16) + (y % 16)) + carry >= 16)
DifferenceTells(x, y, carry, al, f) ==
  /\ f.CF = Bit(x < y + carry) /\ al = ((x - y) - carry) + f.CF * 256
  /\ f.AF = Bit(x % 16 < (y % 16) + carry)

DigitsSum(v, c, x, y, carry) == Packed(v) + 100 * c = (Packed(x) + Packed(y)) + carry
DigitsDifference(v, c, x, y, carry) == Packed(v) - 100 * c = (Packed(x) - Packed(y)) - carry
DaaCarry(al, f) == Bit(AdjustsHigh(al, f))
DasBorrow(al, f) == Bit(AdjustsHigh(al, f) \/ (Adjusts(al, f) /\ al < 6))

\* daa after the sum of two packed bytes
LEMMA PackedSum ==
  ASSUME NEW x \in Byte, IsPacked(x), NEW y \in Byte, IsPacked(y), NEW carry \in {0, 1}, NEW f, NEW al \in Int,
         SumTells(x, y, carry, al, f)
  PROVE  /\ IsPacked(DaaOf(al, f)) /\ DaaOf(al, f) \in Byte
         /\ DigitsSum(DaaOf(al, f), DaaCarry(al, f), x, y, carry)
<1> DEFINE xh == x \div 16
           xl == x % 16
           yh == y \div 16
           yl == y % 16
           h == xh + yh
           l == (xl + yl) + carry
           cf == f.CF
           af == f.AF
           c == IF l > 9 THEN 1 ELSE 0
           g == IF h + c > 9 THEN 1 ELSE 0
           high == h + c - 10 * g
           low == l - 10 * c
<1>1. /\ x = 16 * xh + xl /\ xh \in 0..9 /\ xl \in 0..9 /\ Packed(x) = 10 * xh + xl
      /\ y = 16 * yh + yl /\ yh \in 0..9 /\ yl \in 0..9 /\ Packed(y) = 10 * yh + yl
  BY DigitsOf DEF Byte
<1>2. cf = Bit((x + y) + carry >= 256) /\ al = ((x + y) + carry) - cf * 256 /\ af = Bit(l >= 16)
  BY DEF SumTells
<1> HIDE DEF xh, xl, yh, yl, cf, af
<1>3. (x + y) + carry = 16 * h + l /\ h \in 0..18 /\ l \in 0..19
  BY <1>1
<1>4. Packed(x) + Packed(y) + carry = 10 * h + l
  BY <1>1
<1> HIDE DEF h, l
<1>5. /\ cf = (IF 16 * h + l >= 256 THEN 1 ELSE 0) /\ al = 16 * h + l - cf * 256
      /\ af = (IF l >= 16 THEN 1 ELSE 0)
  BY <1>2, <1>3 DEF Bit
<1>6. Adjusts(al, f) <=> c = 1
  <2>1. CASE l <= 15
    <3>1. al = 16 * (h - 16 * cf) + l /\ h - 16 * cf \in Int
      BY <1>3, <1>5
    <3>2. al % 16 = l
      <4> DEFINE q == h - 16 * cf
      <4> HIDE DEF q
      <4>1. al = 16 * q + l /\ q \in Int
        BY <3>1, Zenon DEF q
      <4>2. l \in 0..15
        BY <1>3, <2>1
      <4>3. (16 * q + l) % 16 = l
        BY <4>1, <4>2, Nibbles
      <4> QED
        BY <4>1, <4>3, Zenon
    <3> QED
      BY <1>3, <1>5, <2>1, <3>2 DEF Adjusts, af
  <2>2. CASE l > 15
    BY <1>3, <1>5, <2>2 DEF Adjusts, af
  <2> QED
    BY <1>3, <2>1, <2>2
<1>7. AdjustsHigh(al, f) <=> g = 1
  <2>1. AdjustsHigh(al, f) <=> 16 * h + l > 153
    BY <1>3, <1>5 DEF AdjustsHigh, cf
  <2>2. 16 * h + l > 153 <=> g = 1
    BY <1>3
  <2> QED
    BY <2>1, <2>2
<1>8. c \in {0, 1} /\ g \in {0, 1} /\ high \in 0..9 /\ low \in 0..9
  BY <1>3
<1>9. DaaOf(al, f) = 16 * high + low
  <2>1. DaaOf(al, f) = ((al + 6 * c) + 96 * g) % 256
    BY <1>5, <1>6, <1>7, <1>8 DEF DaaOf
  <2>2. (al + 6 * c) + 96 * g = 16 * high + low + 256 * (g - cf)
    BY <1>3, <1>5, <1>8
  <2>3. 16 * high + low \in 0..153 /\ g - cf \in Int
    BY <1>3, <1>5, <1>8
  <2> DEFINE v == 16 * high + low
             q == g - cf
  <2> HIDE DEF v, q
  <2>4. (v + 256 * q) % 256 = v
    BY <2>3 DEF v, q
  <2> QED
    BY <2>1, <2>2, <2>4 DEF v, q
<1>10. /\ IsPacked(DaaOf(al, f)) /\ DaaOf(al, f) \in 0..255 /\ Packed(DaaOf(al, f)) = 10 * high + low
  <2> HIDE DEF high, low
  <2> QED
    BY <1>8, <1>9, PackedIs
<1>11. DaaCarry(al, f) = g
  BY <1>7, <1>8 DEF Bit, DaaCarry
<1>12. 10 * high + low + 100 * g = 10 * h + l
  BY <1>3, <1>8
<1> QED
  BY <1>1, <1>4, <1>8, <1>10, <1>11, <1>12 DEF Byte, DigitsSum

\* das after their difference
LEMMA PackedDifference ==
  ASSUME NEW x \in Byte, IsPacked(x), NEW y \in Byte, IsPacked(y), NEW carry \in {0, 1}, NEW f, NEW al \in Int,
         DifferenceTells(x, y, carry, al, f)
  PROVE  /\ IsPacked(DasOf(al, f)) /\ DasOf(al, f) \in Byte
         /\ DigitsDifference(DasOf(al, f), DasBorrow(al, f), x, y, carry)
<1> DEFINE xh == x \div 16
           xl == x % 16
           yh == y \div 16
           yl == y % 16
           h == xh - yh
           l == (xl - yl) - carry
           cf == f.CF
           af == f.AF
           c == IF l < 0 THEN 1 ELSE 0
           g == IF h - c < 0 THEN 1 ELSE 0
           high == (h - c) + 10 * g
           low == l + 10 * c
           borrow == DasBorrow(al, f)
<1>1. /\ x = 16 * xh + xl /\ xh \in 0..9 /\ xl \in 0..9 /\ Packed(x) = 10 * xh + xl
      /\ y = 16 * yh + yl /\ yh \in 0..9 /\ yl \in 0..9 /\ Packed(y) = 10 * yh + yl
  BY DigitsOf DEF Byte
<1>2. cf = Bit(x < y + carry) /\ al = ((x - y) - carry) + cf * 256 /\ af = Bit(xl < yl + carry)
  BY DEF DifferenceTells
<1> HIDE DEF xh, xl, yh, yl, cf, af
<1>3. (x - y) - carry = 16 * h + l /\ h \in -9..9 /\ l \in -10..9
  BY <1>1
<1>4. (Packed(x) - Packed(y)) - carry = 10 * h + l
  BY <1>1
<1>5. /\ cf = (IF 16 * h + l < 0 THEN 1 ELSE 0) /\ al = (16 * h + l) + cf * 256
      /\ af = (IF l < 0 THEN 1 ELSE 0)
  BY <1>1, <1>2, <1>3 DEF Bit
<1> HIDE DEF h, l
<1>6. Adjusts(al, f) <=> c = 1
  <2>1. CASE l >= 0
    <3>1. al = 16 * (h + 16 * cf) + l /\ h + 16 * cf \in Int
      BY <1>3, <1>5
    <3>2. al % 16 = l
      <4> DEFINE q == h + 16 * cf
      <4> HIDE DEF q
      <4>1. al = 16 * q + l /\ q \in Int
        BY <3>1, Zenon DEF q
      <4>2. l \in 0..15
        BY <1>3, <2>1
      <4>3. (16 * q + l) % 16 = l
        BY <4>1, <4>2, Nibbles
      <4> QED
        BY <4>1, <4>3, Zenon
    <3>3. af = 0 /\ c = 0 /\ l <= 9
      BY <1>3, <1>5, <2>1
    <3> QED
      BY <3>2, <3>3 DEF Adjusts, af
  <2>2. CASE l < 0
    BY <1>3, <1>5, <2>2 DEF Adjusts, af
  <2> QED
    BY <1>3, <2>1, <2>2
<1>7. AdjustsHigh(al, f) <=> g = 1
  <2>1. AdjustsHigh(al, f) <=> 16 * h + l < 0
    BY <1>3, <1>5 DEF AdjustsHigh, cf
  <2>2. 16 * h + l < 0 <=> g = 1
    BY <1>3
  <2> QED
    BY <2>1, <2>2
<1>8. c \in {0, 1} /\ g \in {0, 1} /\ high \in 0..9 /\ low \in 0..9 /\ cf = g
  BY <1>3, <1>5
<1>9. DasOf(al, f) = 16 * high + low
  <2>1. DasOf(al, f) = ((al - 6 * c) - 96 * g) % 256
    BY <1>5, <1>6, <1>7, <1>8 DEF DasOf
  <2>2. (al - 6 * c) - 96 * g = 16 * high + low
    BY <1>3, <1>5, <1>8
  <2> HIDE DEF high, low
  <2>3. (16 * high + low) % 256 = 16 * high + low
    BY <1>8, PackedIs
  <2> QED
    BY <2>1, <2>2, <2>3
<1>10. /\ IsPacked(DasOf(al, f)) /\ DasOf(al, f) \in 0..255 /\ Packed(DasOf(al, f)) = 10 * high + low
  <2> HIDE DEF high, low
  <2> QED
    BY <1>8, <1>9, PackedIs
<1>11. borrow = g
  <2>1. c = 1 /\ al < 6 => g = 1
    BY <1>3, <1>5
  <2> QED
    BY <1>6, <1>7, <1>8, <2>1 DEF Bit, DasBorrow
<1>12. 10 * high + low - 100 * g = 10 * h + l
  BY <1>3, <1>8
<1>13. Packed(DasOf(al, f)) - 100 * borrow = (Packed(x) - Packed(y)) - carry
  <2> HIDE DEF high, low, g, borrow
  <2> QED
    BY <1>4, <1>8, <1>10, <1>11, <1>12
<1> QED
  BY <1>10, <1>13 DEF Byte, DigitsDifference

\* A byte register added to al or taken from it, and the adjustment after it.
LEMMA ByteFacts ==
  /\ "byte" \in Widths /\ Bits["byte"] = 8 /\ 2^8 = 256 /\ Number(8) = 0..255
<1>1. "byte" \in Widths
  BY DEF Widths
<1>2. 2^8 = 256
  OBVIOUS
<1>3. Number(8) = 0..255
  BY <1>2 DEF Number
<1> QED
  BY <1>1, <1>2, <1>3, WidthFacts

LEMMA ByteSum ==
  ASSUME NEW a \in State, NEW b \in State, Halves(a, 8), NEW d, Narrow(a, 8, d), NEW op \in {"add", "adc"},
         Does(I(op, "byte", R("ax"), R(d)), a, b)
  PROVE  LET carry == IF op = "add" THEN 0 ELSE a.flags.CF IN
         /\ SumTells(a.regs["ax"], a.regs[d], carry, b.regs["ax"], b.flags)
         /\ Kept(a, b, "ax") /\ Halves(b, 8)
<1> DEFINE w == "byte"
           target == "ax"
           carry == IF op = "add" THEN 0 ELSE a.flags.CF
           x == a.regs[target]
           y == a.regs[d]
<1>1. /\ w \in Widths /\ Bits[w] = 8 /\ Narrow(a, Bits[w], target) /\ Narrow(a, Bits[w], d) /\ op \in TwoNames
      /\ Does(I(op, w, R(target), R(d)), a, b)
  BY ByteFacts DEF Halves, TwoNames
<1> HIDE DEF w, target
<1>2. PICK r \in Results(8) : TwoOperandsLeave(op, 8, x, y, a.flags, r) /\ Becomes(a, b, target, r.value) /\ b.flags = r.flags
  BY <1>1, TwoRegisters
<1>3. SumLeaves(8, x, y, carry, a.flags, r)
  BY <1>2 DEF TwoOperandsLeave
<1>4. x \in 0..255 /\ y \in 0..255 /\ carry \in {0, 1}
  BY <1>1, ByteFacts, CarryIs DEF Narrow
<1> HIDE DEF carry, x, y
<1>5. /\ b.flags.CF = Bit((x + y) + carry >= 256)
      /\ b.flags.AF = Bit(((x % 16) + (y % 16)) + carry >= 16)
      /\ b.regs[target] = ((x + y) + carry) - b.flags.CF * 256
      /\ r.value \in Number(8)
  <2>1. /\ r.flags.CF = Bit(x + y + carry >= 256) /\ r.value = x + y + carry - r.flags.CF * 256
        /\ r.flags.AF = Bit((x % 16) + (y % 16) + carry >= 16)
    BY <1>3, ByteFacts DEF SumLeaves
  <2>2. r.value \in Number(8) /\ b.regs[target] = r.value
    BY <1>2 DEF Results, Becomes
  <2>3. x + y + carry = (x + y) + carry /\ (x % 16) + (y % 16) + carry = ((x % 16) + (y % 16)) + carry
    BY <1>4
  <2>4. r.flags.CF \in {0, 1}
    BY <2>1 DEF Bit
  <2>5. x + y + carry - r.flags.CF * 256 = ((x + y) + carry) - r.flags.CF * 256
    BY <1>4, <2>4
  <2> QED
    BY <1>2, <2>1, <2>2, <2>3, <2>5, ZenonT(40)
<1>6. Kept(a, b, target) /\ Halves(b, 8)
  <2>1. target \in Register
    BY <1>1 DEF Narrow
  <2> QED
    BY <1>2, <1>5, <2>1, HalvesKept DEF Becomes
<1> QED
  BY <1>5, <1>6, Zenon DEF SumTells, x, y, target, carry

LEMMA ByteDifference ==
  ASSUME NEW a \in State, NEW b \in State, Halves(a, 8), NEW d, Narrow(a, 8, d), NEW op \in {"sub", "sbb"},
         Does(I(op, "byte", R("ax"), R(d)), a, b)
  PROVE  LET carry == IF op = "sub" THEN 0 ELSE a.flags.CF IN
         /\ DifferenceTells(a.regs["ax"], a.regs[d], carry, b.regs["ax"], b.flags)
         /\ Kept(a, b, "ax") /\ Halves(b, 8)
<1> DEFINE w == "byte"
           target == "ax"
           carry == IF op = "sub" THEN 0 ELSE a.flags.CF
           x == a.regs[target]
           y == a.regs[d]
<1>1. /\ w \in Widths /\ Bits[w] = 8 /\ Narrow(a, Bits[w], target) /\ Narrow(a, Bits[w], d) /\ op \in TwoNames
      /\ Does(I(op, w, R(target), R(d)), a, b)
  BY ByteFacts DEF Halves, TwoNames
<1> HIDE DEF w, target
<1>2. PICK r \in Results(8) : TwoOperandsLeave(op, 8, x, y, a.flags, r) /\ Becomes(a, b, target, r.value) /\ b.flags = r.flags
  BY <1>1, TwoRegisters
<1>3. DifferenceLeaves(8, x, y, carry, a.flags, r)
  BY <1>2 DEF TwoOperandsLeave
<1>4. x \in 0..255 /\ y \in 0..255 /\ carry \in {0, 1}
  BY <1>1, ByteFacts, CarryIs DEF Narrow
<1> HIDE DEF carry, x, y
<1>5. /\ b.flags.CF = Bit(x < y + carry)
      /\ b.flags.AF = Bit(x % 16 < (y % 16) + carry)
      /\ b.regs[target] = ((x - y) - carry) + b.flags.CF * 256
      /\ r.value \in Number(8)
  <2>1. /\ r.flags.CF = Bit(x < y + carry) /\ r.value = x - y - carry + r.flags.CF * 256
        /\ r.flags.AF = Bit(x % 16 < (y % 16) + carry)
    BY <1>3, ByteFacts DEF DifferenceLeaves
  <2>2. r.value \in Number(8) /\ b.regs[target] = r.value
    BY <1>2 DEF Results, Becomes
  <2>4. r.flags.CF \in {0, 1}
    BY <2>1 DEF Bit
  <2>5. x - y - carry + r.flags.CF * 256 = ((x - y) - carry) + r.flags.CF * 256
    BY <1>4, <2>4
  <2> QED
    BY <1>2, <2>1, <2>2, <2>5, Zenon
<1>6. Kept(a, b, target) /\ Halves(b, 8)
  <2>1. target \in Register
    BY <1>1 DEF Narrow
  <2> QED
    BY <1>2, <1>5, <2>1, HalvesKept DEF Becomes
<1> QED
  BY <1>5, <1>6, Zenon DEF DifferenceTells, x, y, target, carry

LEMMA DigitsAdd ==
  ASSUME NEW a \in State, NEW b \in State, NEW c \in State, Halves(a, 8), NEW d, Narrow(a, 8, d), NEW op \in {"add", "adc"},
         Does(I(op, "byte", R("ax"), R(d)), a, b), Does(I("daa", "byte", R("ax"), R("ax")), b, c),
         IsPacked(a.regs["ax"]), IsPacked(a.regs[d])
  PROVE  LET carry == IF op = "add" THEN 0 ELSE a.flags.CF IN
         /\ DigitsSum(c.regs["ax"], c.flags.CF, a.regs["ax"], a.regs[d], carry)
         /\ IsPacked(c.regs["ax"]) /\ c.flags.CF \in {0, 1} /\ Kept(a, c, "ax") /\ Halves(c, 8)
<1> DEFINE carry == IF op = "add" THEN 0 ELSE a.flags.CF
           x == a.regs["ax"]
           y == a.regs[d]
           al == b.regs["ax"]
           f == b.flags
           v == DaaOf(al, f)
           high == b.regs["dx"]
           cf == DaaCarry(al, f)
<1>1. /\ SumTells(x, y, carry, al, f)
      /\ Kept(a, b, "ax") /\ Halves(b, 8)
  BY ByteSum
<1>2. PICK r : /\ DecimalLeaves("daa", high, al, f, r)
               /\ BecomesPair(b, c, r.ah, r.al) /\ c.flags = r.flags
  <2>1. "daa" \in DecimalNames /\ Narrow(b, 8, "ax") /\ Narrow(b, 8, "dx")
    BY <1>1 DEF DecimalNames, Halves
  <2> QED
    BY <2>1, DecimalPair, Zenon
<1>3. r.ah = high /\ r.al = v /\ r.flags.CF = cf
  BY <1>2, SMTT(20) DEF DecimalLeaves, DaaOf, DaaCarry
<1>4. x \in Byte /\ y \in Byte /\ al \in Byte /\ high \in Number(8) /\ carry \in {0, 1}
  BY <1>1, ByteFacts, CarryIs DEF Halves, Narrow, Byte
<1>5. /\ IsPacked(v) /\ v \in Byte
      /\ DigitsSum(v, cf, x, y, carry)
  <2> HIDE DEF carry, x, y, al, f
  <2>1. al \in Int /\ IsPacked(x) /\ IsPacked(y)
    BY <1>4 DEF x, y, Byte
  <2> HIDE DEF high
  <2>2. SumTells(x, y, carry, al, f) /\ x \in Byte /\ y \in Byte /\ carry \in {0, 1}
    BY <1>1, <1>4, Zenon
  <2>3. IsPacked(DaaOf(al, f))
    BY <2>1, <2>2, PackedSum, Zenon
  <2>4. DaaOf(al, f) \in Byte
    BY <2>1, <2>2, PackedSum, Zenon
  <2>5. DigitsSum(DaaOf(al, f), cf, x, y, carry)
    BY <2>1, <2>2, PackedSum, Zenon
  <2> QED
    BY <2>3, <2>4, <2>5, Zenon
<1>6. c.regs["ax"] = v /\ c.regs["dx"] = high /\ \A e \in Register : e # "ax" /\ e # "dx" => c.regs[e] = b.regs[e]
  BY <1>2, <1>3, Zenon DEF BecomesPair
<1>7. Kept(a, c, "ax")
  BY <1>1, <1>6 DEF Kept
<1>8. Halves(c, 8)
  <2>1. r.ah \in Number(8) /\ r.al \in Number(8)
    BY <1>3, <1>4, <1>5, ByteFacts DEF Byte
  <2> QED
    BY <1>1, <1>2, <2>1, Registers, SMTT(20) DEF Halves, Narrow, BecomesPair
<1>9. c.flags.CF = cf
  BY <1>2, <1>3, Zenon
<1>10. c.flags.CF \in {0, 1}
  BY CarryIs
<1> HIDE DEF v, cf
<1> QED
  BY <1>5, <1>6, <1>7, <1>8, <1>9, <1>10, Zenon

LEMMA DigitsTake ==
  ASSUME NEW a \in State, NEW b \in State, NEW c \in State, Halves(a, 8), NEW d, Narrow(a, 8, d), NEW op \in {"sub", "sbb"},
         Does(I(op, "byte", R("ax"), R(d)), a, b), Does(I("das", "byte", R("ax"), R("ax")), b, c),
         IsPacked(a.regs["ax"]), IsPacked(a.regs[d])
  PROVE  LET carry == IF op = "sub" THEN 0 ELSE a.flags.CF IN
         /\ DigitsDifference(c.regs["ax"], c.flags.CF, a.regs["ax"], a.regs[d], carry)
         /\ IsPacked(c.regs["ax"]) /\ c.flags.CF \in {0, 1} /\ Kept(a, c, "ax") /\ Halves(c, 8)
<1> DEFINE carry == IF op = "sub" THEN 0 ELSE a.flags.CF
           x == a.regs["ax"]
           y == a.regs[d]
           al == b.regs["ax"]
           f == b.flags
           v == DasOf(al, f)
           high == b.regs["dx"]
           cf == DasBorrow(al, f)
<1>1. /\ DifferenceTells(x, y, carry, al, f)
      /\ Kept(a, b, "ax") /\ Halves(b, 8)
  BY ByteDifference
<1>2. PICK r : /\ DecimalLeaves("das", high, al, f, r)
               /\ BecomesPair(b, c, r.ah, r.al) /\ c.flags = r.flags
  <2>1. "das" \in DecimalNames /\ Narrow(b, 8, "ax") /\ Narrow(b, 8, "dx")
    BY <1>1 DEF DecimalNames, Halves
  <2> QED
    BY <2>1, DecimalPair, Zenon
<1>3. r.ah = high /\ r.al = v /\ r.flags.CF = cf
  BY <1>2, SMTT(20) DEF DecimalLeaves, DasOf, DasBorrow
<1>4. x \in Byte /\ y \in Byte /\ al \in Byte /\ high \in Number(8) /\ carry \in {0, 1}
  BY <1>1, ByteFacts, CarryIs DEF Halves, Narrow, Byte
<1>5. /\ IsPacked(v) /\ v \in Byte
      /\ DigitsDifference(v, cf, x, y, carry)
  <2> HIDE DEF carry, x, y, al, f
  <2>1. al \in Int /\ IsPacked(x) /\ IsPacked(y)
    BY <1>4 DEF x, y, Byte
  <2> HIDE DEF high
  <2>2. DifferenceTells(x, y, carry, al, f) /\ x \in Byte /\ y \in Byte /\ carry \in {0, 1}
    BY <1>1, <1>4, Zenon
  <2>3. IsPacked(DasOf(al, f))
    BY <2>1, <2>2, PackedDifference, Zenon
  <2>4. DasOf(al, f) \in Byte
    BY <2>1, <2>2, PackedDifference, Zenon
  <2>5. DigitsDifference(DasOf(al, f), cf, x, y, carry)
    BY <2>1, <2>2, PackedDifference, Zenon
  <2> QED
    BY <2>3, <2>4, <2>5, Zenon
<1>6. c.regs["ax"] = v /\ c.regs["dx"] = high /\ \A e \in Register : e # "ax" /\ e # "dx" => c.regs[e] = b.regs[e]
  BY <1>2, <1>3, Zenon DEF BecomesPair
<1>7. Kept(a, c, "ax")
  BY <1>1, <1>6 DEF Kept
<1>8. Halves(c, 8)
  <2>1. r.ah \in Number(8) /\ r.al \in Number(8)
    BY <1>3, <1>4, <1>5, ByteFacts DEF Byte
  <2> QED
    BY <1>1, <1>2, <2>1, Registers, SMTT(20) DEF Halves, Narrow, BecomesPair
<1>9. c.flags.CF = cf
  BY <1>2, <1>3, Zenon
<1>10. c.flags.CF \in {0, 1}
  BY CarryIs
<1> HIDE DEF v, cf
<1> QED
  BY <1>5, <1>6, <1>7, <1>8, <1>9, <1>10, Zenon

FourDigits(high, low) == 100 * Packed(high) + Packed(low)

LEMMA DaaResult ==
  ASSUME NEW w \in Widths, w = "byte", NEW a \in State, NEW b \in State, NEW c \in State, NEW d \in State, NEW e \in State,
         NEW g \in State, Halves(a, Bits[w]),
         Does(I("add", w, R("ax"), R("bx")), a, b), Does(I("daa", "byte", R("ax"), R("ax")), b, c),
         Does(I("xchg", w, R("ax"), R("dx")), c, d), Does(I("adc", w, R("ax"), R("bp")), d, e),
         Does(I("daa", "byte", R("ax"), R("ax")), e, g),
         IsPacked(a.regs["ax"]), IsPacked(a.regs["dx"]), IsPacked(a.regs["bx"]), IsPacked(a.regs["bp"])
  PROVE  /\ IsPacked(g.regs["ax"]) /\ IsPacked(g.regs["dx"])
         /\ FourDigits(g.regs["ax"], g.regs["dx"]) + 10000 * g.flags.CF
              = FourDigits(a.regs["dx"], a.regs["ax"]) + FourDigits(a.regs["bp"], a.regs["bx"])
<1>1. Halves(a, 8) /\ Bits[w] = 8
  BY ByteFacts
<1>2. /\ DigitsSum(c.regs["ax"], c.flags.CF, a.regs["ax"], a.regs["bx"], 0)
      /\ IsPacked(c.regs["ax"]) /\ c.flags.CF \in {0, 1} /\ Kept(a, c, "ax") /\ Halves(c, 8)
  <2> DEFINE op == "add"
             q == "bx"
  <2>1. op \in {"add", "adc"} /\ op = "add" /\ q = "bx"
    OBVIOUS
  <2> HIDE DEF op, q
  <2>2. Does(I(op, "byte", R("ax"), R(q)), a, b) /\ Narrow(a, 8, q) /\ IsPacked(a.regs[q])
    BY <1>1, <2>1 DEF Halves
  <2>3. LET carry == IF op = "add" THEN 0 ELSE a.flags.CF IN
        /\ DigitsSum(c.regs["ax"], c.flags.CF, a.regs["ax"], a.regs[q], carry)
        /\ IsPacked(c.regs["ax"]) /\ c.flags.CF \in {0, 1} /\ Kept(a, c, "ax") /\ Halves(c, 8)
    BY <1>1, <2>1, <2>2, DigitsAdd, Zenon
  <2> QED
    BY <2>1, <2>3
<1>3. /\ d.regs["ax"] = c.regs["dx"] /\ d.regs["dx"] = c.regs["ax"] /\ d.flags = c.flags
      /\ d.regs["bx"] = c.regs["bx"] /\ d.regs["bp"] = c.regs["bp"] /\ Halves(d, 8)
  <2> DEFINE x == "ax"
             y == "dx"
  <2>1. x # y /\ Narrow(c, Bits[w], x) /\ Narrow(c, Bits[w], y) /\ Does(I("xchg", w, R(x), R(y)), c, d)
    BY <1>1, <1>2 DEF Halves
  <2> HIDE DEF x, y
  <2>2. /\ d.regs[x] = c.regs[y] /\ d.regs[y] = c.regs[x] /\ d.flags = c.flags
        /\ \A q \in Register : q # x /\ q # y => d.regs[q] = c.regs[q]
    BY <2>1, ExchangedRegisters
  <2>3. /\ d.regs["ax"] = c.regs["dx"] /\ d.regs["dx"] = c.regs["ax"] /\ d.flags = c.flags
        /\ d.regs["bx"] = c.regs["bx"] /\ d.regs["bp"] = c.regs["bp"]
    BY <2>2, Registers DEF x, y
  <2> QED
    BY <1>2, <2>3 DEF Halves, Narrow
<1>4. c.regs["dx"] = a.regs["dx"] /\ c.regs["bp"] = a.regs["bp"]
  BY <1>2, Registers DEF Kept
<1>5. IsPacked(d.regs["ax"]) /\ IsPacked(d.regs["bp"])
  BY <1>3, <1>4
<1>6. /\ DigitsSum(g.regs["ax"], g.flags.CF, d.regs["ax"], d.regs["bp"], d.flags.CF)
      /\ IsPacked(g.regs["ax"]) /\ g.flags.CF \in {0, 1} /\ Kept(d, g, "ax") /\ Halves(g, 8)
  <2> DEFINE op == "adc"
             q == "bp"
  <2>1. op \in {"add", "adc"} /\ op = "adc" /\ q = "bp"
    OBVIOUS
  <2> HIDE DEF op, q
  <2>2. Does(I(op, "byte", R("ax"), R(q)), d, e) /\ Narrow(d, 8, q) /\ IsPacked(d.regs[q])
    BY <1>1, <1>3, <1>5, <2>1 DEF Halves
  <2>3. LET carry == IF op = "add" THEN 0 ELSE d.flags.CF IN
        /\ DigitsSum(g.regs["ax"], g.flags.CF, d.regs["ax"], d.regs[q], carry)
        /\ IsPacked(g.regs["ax"]) /\ g.flags.CF \in {0, 1} /\ Kept(d, g, "ax") /\ Halves(g, 8)
    BY <1>1, <1>3, <1>5, <2>1, <2>2, DigitsAdd, Zenon
  <2> QED
    BY <2>1, <2>3
<1>7. g.regs["dx"] = c.regs["ax"]
  BY <1>3, <1>6, Registers DEF Kept
<1>8. IsPacked(g.regs["dx"])
  BY <1>2, <1>7
<1> DEFINE lowA == Packed(a.regs["ax"])
           lowB == Packed(a.regs["bx"])
           highA == Packed(a.regs["dx"])
           highB == Packed(a.regs["bp"])
           low == Packed(g.regs["dx"])
           high == Packed(g.regs["ax"])
           half == c.flags.CF
           whole == g.flags.CF
<1>9. low + 100 * half = (lowA + lowB) + 0 /\ high + 100 * whole = (highA + highB) + half
  BY <1>2, <1>3, <1>4, <1>6, <1>7, ZenonT(40) DEF DigitsSum
<1>10. /\ lowA \in Int /\ lowB \in Int /\ highA \in Int /\ highB \in Int /\ low \in Int /\ high \in Int
       /\ half \in {0, 1} /\ whole \in {0, 1}
  <2>1. /\ a.regs["ax"] \in Byte /\ a.regs["bx"] \in Byte /\ a.regs["dx"] \in Byte /\ a.regs["bp"] \in Byte
        /\ g.regs["ax"] \in Byte /\ g.regs["dx"] \in Byte
    BY <1>1, <1>6, ByteFacts DEF Halves, Narrow, Byte
  <2> QED
    BY <1>2, <1>6, <2>1, PackedType, ZenonT(40)
<1> HIDE DEF lowA, lowB, highA, highB, low, high, half, whole
<1>11. (100 * high + low) + 10000 * whole = (100 * highA + lowA) + (100 * highB + lowB)
  BY <1>9, <1>10
<1>12. /\ FourDigits(g.regs["ax"], g.regs["dx"]) = 100 * high + low
       /\ FourDigits(a.regs["dx"], a.regs["ax"]) = 100 * highA + lowA
       /\ FourDigits(a.regs["bp"], a.regs["bx"]) = 100 * highB + lowB
  BY Zenon DEF FourDigits, lowA, lowB, highA, highB, low, high
<1>13. /\ IsPacked(g.regs["ax"]) /\ IsPacked(g.regs["dx"])
       /\ FourDigits(g.regs["ax"], g.regs["dx"]) + 10000 * whole
            = FourDigits(a.regs["dx"], a.regs["ax"]) + FourDigits(a.regs["bp"], a.regs["bx"])
  BY <1>6, <1>8, <1>11, <1>12
<1> QED
  BY <1>13 DEF whole

LEMMA DasResult ==
  ASSUME NEW w \in Widths, w = "byte", NEW a \in State, NEW b \in State, NEW c \in State, NEW d \in State, NEW e \in State,
         NEW g \in State, Halves(a, Bits[w]),
         Does(I("sub", w, R("ax"), R("bx")), a, b), Does(I("das", "byte", R("ax"), R("ax")), b, c),
         Does(I("xchg", w, R("ax"), R("dx")), c, d), Does(I("sbb", w, R("ax"), R("bp")), d, e),
         Does(I("das", "byte", R("ax"), R("ax")), e, g),
         IsPacked(a.regs["ax"]), IsPacked(a.regs["dx"]), IsPacked(a.regs["bx"]), IsPacked(a.regs["bp"])
  PROVE  /\ IsPacked(g.regs["ax"]) /\ IsPacked(g.regs["dx"])
         /\ FourDigits(g.regs["ax"], g.regs["dx"]) - 10000 * g.flags.CF
              = FourDigits(a.regs["dx"], a.regs["ax"]) - FourDigits(a.regs["bp"], a.regs["bx"])
<1>1. Halves(a, 8) /\ Bits[w] = 8
  BY ByteFacts
<1>2. /\ DigitsDifference(c.regs["ax"], c.flags.CF, a.regs["ax"], a.regs["bx"], 0)
      /\ IsPacked(c.regs["ax"]) /\ c.flags.CF \in {0, 1} /\ Kept(a, c, "ax") /\ Halves(c, 8)
  <2> DEFINE op == "sub"
             q == "bx"
  <2>1. op \in {"sub", "sbb"} /\ op = "sub" /\ q = "bx"
    OBVIOUS
  <2> HIDE DEF op, q
  <2>2. Does(I(op, "byte", R("ax"), R(q)), a, b) /\ Narrow(a, 8, q) /\ IsPacked(a.regs[q])
    BY <1>1, <2>1 DEF Halves
  <2>3. LET carry == IF op = "sub" THEN 0 ELSE a.flags.CF IN
        /\ DigitsDifference(c.regs["ax"], c.flags.CF, a.regs["ax"], a.regs[q], carry)
        /\ IsPacked(c.regs["ax"]) /\ c.flags.CF \in {0, 1} /\ Kept(a, c, "ax") /\ Halves(c, 8)
    BY <1>1, <2>1, <2>2, DigitsTake, Zenon
  <2> QED
    BY <2>1, <2>3
<1>3. /\ d.regs["ax"] = c.regs["dx"] /\ d.regs["dx"] = c.regs["ax"] /\ d.flags = c.flags
      /\ d.regs["bx"] = c.regs["bx"] /\ d.regs["bp"] = c.regs["bp"] /\ Halves(d, 8)
  <2> DEFINE x == "ax"
             y == "dx"
  <2>1. x # y /\ Narrow(c, Bits[w], x) /\ Narrow(c, Bits[w], y) /\ Does(I("xchg", w, R(x), R(y)), c, d)
    BY <1>1, <1>2 DEF Halves
  <2> HIDE DEF x, y
  <2>2. /\ d.regs[x] = c.regs[y] /\ d.regs[y] = c.regs[x] /\ d.flags = c.flags
        /\ \A q \in Register : q # x /\ q # y => d.regs[q] = c.regs[q]
    BY <2>1, ExchangedRegisters
  <2>3. /\ d.regs["ax"] = c.regs["dx"] /\ d.regs["dx"] = c.regs["ax"] /\ d.flags = c.flags
        /\ d.regs["bx"] = c.regs["bx"] /\ d.regs["bp"] = c.regs["bp"]
    BY <2>2, Registers DEF x, y
  <2> QED
    BY <1>2, <2>3 DEF Halves, Narrow
<1>4. c.regs["dx"] = a.regs["dx"] /\ c.regs["bp"] = a.regs["bp"]
  BY <1>2, Registers DEF Kept
<1>5. IsPacked(d.regs["ax"]) /\ IsPacked(d.regs["bp"])
  BY <1>3, <1>4
<1>6. /\ DigitsDifference(g.regs["ax"], g.flags.CF, d.regs["ax"], d.regs["bp"], d.flags.CF)
      /\ IsPacked(g.regs["ax"]) /\ g.flags.CF \in {0, 1} /\ Kept(d, g, "ax") /\ Halves(g, 8)
  <2> DEFINE op == "sbb"
             q == "bp"
  <2>1. op \in {"sub", "sbb"} /\ op = "sbb" /\ q = "bp"
    OBVIOUS
  <2> HIDE DEF op, q
  <2>2. Does(I(op, "byte", R("ax"), R(q)), d, e) /\ Narrow(d, 8, q) /\ IsPacked(d.regs[q])
    BY <1>1, <1>3, <1>5, <2>1 DEF Halves
  <2>3. LET carry == IF op = "sub" THEN 0 ELSE d.flags.CF IN
        /\ DigitsDifference(g.regs["ax"], g.flags.CF, d.regs["ax"], d.regs[q], carry)
        /\ IsPacked(g.regs["ax"]) /\ g.flags.CF \in {0, 1} /\ Kept(d, g, "ax") /\ Halves(g, 8)
    BY <1>1, <1>3, <1>5, <2>1, <2>2, DigitsTake, Zenon
  <2> QED
    BY <2>1, <2>3
<1>7. g.regs["dx"] = c.regs["ax"]
  BY <1>3, <1>6, Registers DEF Kept
<1>8. IsPacked(g.regs["dx"])
  BY <1>2, <1>7
<1> DEFINE lowA == Packed(a.regs["ax"])
           lowB == Packed(a.regs["bx"])
           highA == Packed(a.regs["dx"])
           highB == Packed(a.regs["bp"])
           low == Packed(g.regs["dx"])
           high == Packed(g.regs["ax"])
           half == c.flags.CF
           whole == g.flags.CF
<1>9. low - 100 * half = (lowA - lowB) - 0 /\ high - 100 * whole = (highA - highB) - half
  BY <1>2, <1>3, <1>4, <1>6, <1>7, ZenonT(40) DEF DigitsDifference
<1>10. /\ lowA \in Int /\ lowB \in Int /\ highA \in Int /\ highB \in Int /\ low \in Int /\ high \in Int
       /\ half \in {0, 1} /\ whole \in {0, 1}
  <2>1. /\ a.regs["ax"] \in Byte /\ a.regs["bx"] \in Byte /\ a.regs["dx"] \in Byte /\ a.regs["bp"] \in Byte
        /\ g.regs["ax"] \in Byte /\ g.regs["dx"] \in Byte
    BY <1>1, <1>6, ByteFacts DEF Halves, Narrow, Byte
  <2> QED
    BY <1>2, <1>6, <2>1, PackedType, ZenonT(40)
<1> HIDE DEF lowA, lowB, highA, highB, low, high, half, whole
<1>11. (100 * high + low) - 10000 * whole = (100 * highA + lowA) - (100 * highB + lowB)
  BY <1>9, <1>10
<1>12. /\ FourDigits(g.regs["ax"], g.regs["dx"]) = 100 * high + low
       /\ FourDigits(a.regs["dx"], a.regs["ax"]) = 100 * highA + lowA
       /\ FourDigits(a.regs["bp"], a.regs["bx"]) = 100 * highB + lowB
  BY Zenon DEF FourDigits, lowA, lowB, highA, highB, low, high
<1>13. /\ IsPacked(g.regs["ax"]) /\ IsPacked(g.regs["dx"])
       /\ FourDigits(g.regs["ax"], g.regs["dx"]) - 10000 * whole
            = FourDigits(a.regs["dx"], a.regs["ax"]) - FourDigits(a.regs["bp"], a.regs["bx"])
  BY <1>6, <1>8, <1>11, <1>12
<1> QED
  BY <1>13 DEF whole

\* one digit in a byte, and what the adjustments of one digit leave
Figure == 0..9
OneDigitSum(r, ah, x, y) == r.al \in Figure /\ r.ah \in Figure /\ 10 * r.ah + r.al = (10 * ah + x) + y
OneDigitDifference(r, ah, x, y) == r.al \in Figure /\ r.ah \in Figure /\ 10 * r.ah + r.al = (10 * ah + x) - y

LEMMA DigitSum ==
  ASSUME NEW x \in Figure, NEW y \in Figure, NEW ah \in Figure, ah # 9, NEW al \in Byte, NEW f, NEW r,
         SumTells(x, y, 0, al, f), DecimalLeaves("aaa", ah, al, f, r)
  PROVE  OneDigitSum(r, ah, x, y)
<1> DEFINE c == IF x + y > 9 THEN 1 ELSE 0
           v == ah * 256 + al + (IF Adjusts(al, f) THEN 262 ELSE 0)
           p == 65536
<1>1. al = x + y /\ f.AF = Bit(al >= 16)
  <2>1. f.CF = 0
    BY DEF SumTells, Figure, Bit
  <2>2. x % 16 = x /\ y % 16 = y
    BY DEF Figure
  <2> QED
    BY <2>1, <2>2 DEF SumTells, Figure
<1>2. Adjusts(al, f) <=> c = 1
  <2>1. al \in 0..18
    BY <1>1 DEF Figure
  <2>2. al % 16 = (IF al >= 16 THEN al - 16 ELSE al)
    BY <2>1
  <2>3. f.AF = 1 <=> al >= 16
    BY <1>1, <2>1 DEF Bit
  <2> QED
    BY <1>1, <2>1, <2>2, <2>3 DEF Adjusts
<1>3. v = 256 * (ah + c) + (al + 6 * c) /\ ah + c \in 0..9 /\ al + 6 * c \in 0..24 /\ c \in {0, 1}
  BY <1>1, <1>2 DEF Figure
<1>4. r.ah = (v % p) \div 256 /\ r.al = (v % p) % 16
  BY DEF DecimalLeaves
<1>5. v % p = v /\ v \in Nat
  BY <1>3
<1> HIDE DEF v, p
<1>6. r.ah = ah + c
  BY <1>3, <1>4, <1>5
<1>7. r.al = al - 10 * c
  <2>1. r.al = v % 16
    BY <1>4, <1>5
  <2>2. v = 16 * (16 * (ah + c)) + (al + 6 * c)
    BY <1>3
  <2>3. CASE c = 1
    <3> DEFINE q == 16 * (ah + c) + 1
               m == al - 10
    <3>1. v = 16 * q + m /\ q \in Int /\ m \in 0..15
      BY <1>1, <1>3, <2>2, <2>3 DEF Figure
    <3> HIDE DEF q, m
    <3>2. (16 * q + m) % 16 = m
      BY <3>1, Nibbles
    <3> QED
      BY <2>1, <2>3, <3>1, <3>2 DEF m
  <2>4. CASE c = 0
    <3> DEFINE q == 16 * (ah + c)
    <3>1. v = 16 * q + al /\ q \in Int /\ al \in 0..15
      BY <1>1, <1>3, <2>2, <2>4 DEF Figure
    <3> HIDE DEF q
    <3>2. (16 * q + al) % 16 = al
      BY <3>1, Nibbles
    <3> QED
      BY <1>3, <2>1, <2>4, <3>1, <3>2
  <2> QED
    BY <1>3, <2>3, <2>4
<1> QED
  BY <1>1, <1>3, <1>6, <1>7 DEF OneDigitSum, Figure

LEMMA DigitDifference ==
  ASSUME NEW x \in Figure, NEW y \in Figure, NEW ah \in Figure, ah # 0, NEW al \in Byte, NEW f, NEW r,
         DifferenceTells(x, y, 0, al, f), DecimalLeaves("aas", ah, al, f, r)
  PROVE  OneDigitDifference(r, ah, x, y)
<1> DEFINE c == IF x < y THEN 1 ELSE 0
           v == (ah * 256 + al) - (IF Adjusts(al, f) THEN 6 ELSE 0)
           p == 65536
<1>1. al = (x - y) + 256 * c /\ f.AF = c /\ c \in {0, 1}
  <2>1. x % 16 = x /\ y % 16 = y
    BY DEF Figure
  <2>2. x < y + 0 <=> x < y
    BY DEF Figure
  <2>3. f.CF = c /\ f.AF = c
    BY <2>1, <2>2 DEF DifferenceTells, Figure, Bit
  <2> QED
    BY <2>3 DEF DifferenceTells, Figure
<1>2. Adjusts(al, f) <=> c = 1
  <2>1. CASE c = 1
    BY <1>1, <2>1 DEF Adjusts
  <2>2. CASE c = 0
    <3>1. al \in 0..9
      BY <1>1, <2>2 DEF Figure
    <3>2. al % 16 <= 9
      BY <3>1
    <3> QED
      BY <1>1, <2>2, <3>1, <3>2 DEF Adjusts
  <2> QED
    BY <1>1, <2>1, <2>2
<1>3. v = 256 * ah + ((x - y) + 250 * c) /\ (x - y) + 250 * c \in 0..255
  BY <1>1, <1>2 DEF Figure
<1>4. r.ah = ((v % p) \div 256 - Bit(Adjusts(al, f))) % 256 /\ r.al = (v % p) % 16
  BY DEF DecimalLeaves
<1>5. v % p = v /\ v \in Nat
  BY <1>3 DEF Figure
<1>6. Bit(Adjusts(al, f)) = c
  BY <1>1, <1>2 DEF Bit
<1> HIDE DEF v, p
<1>7. r.ah = ah - c
  <2>1. v \div 256 = ah
    BY <1>3 DEF Figure
  <2>2. r.ah = (ah - c) % 256
    BY <1>4, <1>5, <1>6, <2>1
  <2> QED
    BY <1>1, <2>2 DEF Figure
<1>8. r.al = (x - y) + 10 * c
  <2>1. r.al = v % 16
    BY <1>4, <1>5
  <2> DEFINE q == 16 * ah + 15 * c
             m == (x - y) + 10 * c
  <2>2. v = 16 * q + m /\ q \in Int /\ m \in 0..15
    BY <1>1, <1>3 DEF Figure
  <2> HIDE DEF q, m
  <2>3. (16 * q + m) % 16 = m
    BY <2>2, Nibbles
  <2> QED
    BY <2>1, <2>2, <2>3 DEF m
<1> QED
  BY <1>1, <1>7, <1>8 DEF OneDigitDifference, Figure

LEMMA AaaResult ==
  ASSUME NEW w \in Widths, w = "byte", NEW a \in State, NEW b \in State, NEW c \in State, Halves(a, Bits[w]),
         Does(I("add", w, R("ax"), R("bx")), a, b), Does(I("aaa", "byte", R("ax"), R("ax")), b, c),
         a.regs["ax"] \in Figure, a.regs["bx"] \in Figure, a.regs["dx"] \in Figure, a.regs["dx"] # 9
  PROVE  /\ c.regs["ax"] \in Figure /\ c.regs["dx"] \in Figure
         /\ 10 * c.regs["dx"] + c.regs["ax"] = (10 * a.regs["dx"] + a.regs["ax"]) + a.regs["bx"]
<1> DEFINE x == a.regs["ax"]
           y == a.regs["bx"]
           ah == a.regs["dx"]
           al == b.regs["ax"]
           f == b.flags
<1>1. Halves(a, 8) /\ Bits[w] = 8
  BY ByteFacts
<1>2. SumTells(x, y, 0, al, f) /\ Kept(a, b, "ax") /\ Halves(b, 8)
  <2> DEFINE op == "add"
             q == "bx"
  <2>1. op \in {"add", "adc"} /\ op = "add" /\ q = "bx"
    OBVIOUS
  <2> HIDE DEF op, q
  <2>2. Does(I(op, "byte", R("ax"), R(q)), a, b) /\ Narrow(a, 8, q)
    BY <1>1, <2>1 DEF Halves
  <2>3. LET carry == IF op = "add" THEN 0 ELSE a.flags.CF IN
        SumTells(a.regs["ax"], a.regs[q], carry, b.regs["ax"], b.flags) /\ Kept(a, b, "ax") /\ Halves(b, 8)
    BY <1>1, <2>1, <2>2, ByteSum, Zenon
  <2> QED
    BY <2>1, <2>3
<1>3. b.regs["dx"] = ah
  BY <1>2, Registers DEF Kept
<1>4. PICK r : DecimalLeaves("aaa", ah, al, f, r) /\ BecomesPair(b, c, r.ah, r.al)
  <2>1. "aaa" \in DecimalNames /\ Narrow(b, 8, "ax") /\ Narrow(b, 8, "dx")
    BY <1>2 DEF DecimalNames, Halves
  <2>2. \E r : DecimalLeaves("aaa", b.regs["dx"], al, f, r) /\ BecomesPair(b, c, r.ah, r.al)
    BY <2>1, DecimalPair, Zenon
  <2> QED
    BY <1>3, <2>2
<1>5. al \in Byte
  BY <1>2, ByteFacts DEF Halves, Narrow, Byte
<1>6. OneDigitSum(r, ah, x, y)
  <2> HIDE DEF x, y, ah, al, f
  <2>1. x \in Figure /\ y \in Figure /\ ah \in Figure /\ ah # 9
    BY DEF x, y, ah
  <2> QED
    BY <1>2, <1>4, <1>5, <2>1, DigitSum
<1>7. c.regs["ax"] = r.al /\ c.regs["dx"] = r.ah
  BY <1>4 DEF BecomesPair
<1> QED
  BY <1>6, <1>7 DEF OneDigitSum

LEMMA AasResult ==
  ASSUME NEW w \in Widths, w = "byte", NEW a \in State, NEW b \in State, NEW c \in State, Halves(a, Bits[w]),
         Does(I("sub", w, R("ax"), R("bx")), a, b), Does(I("aas", "byte", R("ax"), R("ax")), b, c),
         a.regs["ax"] \in Figure, a.regs["bx"] \in Figure, a.regs["dx"] \in Figure, a.regs["dx"] # 0
  PROVE  /\ c.regs["ax"] \in Figure /\ c.regs["dx"] \in Figure
         /\ 10 * c.regs["dx"] + c.regs["ax"] = (10 * a.regs["dx"] + a.regs["ax"]) - a.regs["bx"]
<1> DEFINE x == a.regs["ax"]
           y == a.regs["bx"]
           ah == a.regs["dx"]
           al == b.regs["ax"]
           f == b.flags
<1>1. Halves(a, 8) /\ Bits[w] = 8
  BY ByteFacts
<1>2. DifferenceTells(x, y, 0, al, f) /\ Kept(a, b, "ax") /\ Halves(b, 8)
  <2> DEFINE op == "sub"
             q == "bx"
  <2>1. op \in {"sub", "sbb"} /\ op = "sub" /\ q = "bx"
    OBVIOUS
  <2> HIDE DEF op, q
  <2>2. Does(I(op, "byte", R("ax"), R(q)), a, b) /\ Narrow(a, 8, q)
    BY <1>1, <2>1 DEF Halves
  <2>3. LET carry == IF op = "sub" THEN 0 ELSE a.flags.CF IN
        DifferenceTells(a.regs["ax"], a.regs[q], carry, b.regs["ax"], b.flags) /\ Kept(a, b, "ax") /\ Halves(b, 8)
    BY <1>1, <2>1, <2>2, ByteDifference, Zenon
  <2> QED
    BY <2>1, <2>3
<1>3. b.regs["dx"] = ah
  BY <1>2, Registers DEF Kept
<1>4. PICK r : DecimalLeaves("aas", ah, al, f, r) /\ BecomesPair(b, c, r.ah, r.al)
  <2>1. "aas" \in DecimalNames /\ Narrow(b, 8, "ax") /\ Narrow(b, 8, "dx")
    BY <1>2 DEF DecimalNames, Halves
  <2>2. \E r : DecimalLeaves("aas", b.regs["dx"], al, f, r) /\ BecomesPair(b, c, r.ah, r.al)
    BY <2>1, DecimalPair, Zenon
  <2> QED
    BY <1>3, <2>2
<1>5. al \in Byte
  BY <1>2, ByteFacts DEF Halves, Narrow, Byte
<1>6. OneDigitDifference(r, ah, x, y)
  <2> HIDE DEF x, y, ah, al, f
  <2>1. x \in Figure /\ y \in Figure /\ ah \in Figure /\ ah # 0
    BY DEF x, y, ah
  <2> QED
    BY <1>2, <1>4, <1>5, <2>1, DigitDifference
<1>7. c.regs["ax"] = r.al /\ c.regs["dx"] = r.ah
  BY <1>4 DEF BecomesPair
<1> QED
  BY <1>6, <1>7 DEF OneDigitDifference

LEMMA AamResult ==
  ASSUME NEW w \in Widths, w = "byte", NEW a \in State, NEW b \in State, NEW c \in State, Halves(a, Bits[w]),
         Does(I("mul", w, R("ax"), R("bx")), a, b), Does(I("aam", "byte", R("ax"), R("ax")), b, c),
         a.regs["ax"] \in Figure, a.regs["bx"] \in Figure
  PROVE  /\ c.regs["ax"] \in Figure /\ c.regs["dx"] \in Figure
         /\ 10 * c.regs["dx"] + c.regs["ax"] = a.regs["ax"] * a.regs["bx"]
<1> DEFINE x == a.regs["ax"] * a.regs["bx"]
           high == b.regs["dx"]
           low == b.regs["ax"]
<1>1. Bits[w] = 8
  BY ByteFacts
<1>2. Pair(8, high, low) = x /\ Halves(b, 8)
  BY <1>1, MulResult
<1>3. x \in 0..81
  <2> DEFINE u == a.regs["ax"]
             v == a.regs["bx"]
  <2>1. u \in 0..9 /\ v \in 0..9
    BY DEF Figure
  <2> HIDE DEF u, v
  <2>2. u * v \in 0..81
    BY <2>1
  <2> QED
    BY <2>2 DEF u, v
<1> HIDE DEF x
<1>4. high \in 0..255 /\ low \in 0..255
  BY <1>2, ByteFacts DEF Halves, Narrow
<1>5. low = x
  <2> HIDE DEF high, low
  <2>1. high * 2^8 + low = x
    BY <1>2, Zenon DEF Pair
  <2>2. high * 256 + low = x
    BY <2>1, ByteFacts
  <2> QED
    BY <1>3, <1>4, <2>2
<1>6. PICK r : DecimalLeaves("aam", high, low, b.flags, r) /\ BecomesPair(b, c, r.ah, r.al)
  <2>1. "aam" \in DecimalNames /\ Narrow(b, 8, "ax") /\ Narrow(b, 8, "dx")
    BY <1>2 DEF DecimalNames, Halves
  <2> QED
    BY <2>1, DecimalPair, Zenon
<1>7. r.ah = x \div 10 /\ r.al = x % 10
  BY <1>5, <1>6 DEF DecimalLeaves
<1>8. c.regs["ax"] = r.al /\ c.regs["dx"] = r.ah
  BY <1>6 DEF BecomesPair
<1>9. x \div 10 \in Figure /\ x % 10 \in Figure /\ 10 * (x \div 10) + (x % 10) = x
  BY <1>3 DEF Figure
<1> QED
  BY <1>7, <1>8, <1>9 DEF x

LEMMA AadResult ==
  ASSUME NEW w \in Widths, w = "byte", NEW a \in State, NEW b \in State, NEW c \in State, Halves(a, Bits[w]),
         Does(I("aad", "byte", R("ax"), R("ax")), a, b), Does(I("div", w, R("ax"), R("bx")), b, c),
         a.regs["ax"] \in Figure, a.regs["dx"] \in Figure
  PROVE  Divided(c.regs["ax"], c.regs["dx"], 10 * a.regs["dx"] + a.regs["ax"], a.regs["bx"])
<1>1. Bits[w] = 8 /\ Halves(a, 8)
  BY ByteFacts
<1>2. PICK r : DecimalLeaves("aad", a.regs["dx"], a.regs["ax"], a.flags, r) /\ BecomesPair(a, b, r.ah, r.al)
  <2>1. "aad" \in DecimalNames /\ Narrow(a, 8, "ax") /\ Narrow(a, 8, "dx")
    BY <1>1 DEF DecimalNames, Halves
  <2> QED
    BY <2>1, DecimalPair, Zenon
<1>3. r.ah = 0 /\ r.al = 10 * a.regs["dx"] + a.regs["ax"] /\ r.al \in 0..255
  BY <1>2 DEF DecimalLeaves, Figure, Byte
<1>4. Halves(b, 8) /\ b.regs["bx"] = a.regs["bx"] /\ b.regs["ax"] = r.al /\ b.regs["dx"] = 0
  <2>1. r.ah \in Number(8) /\ r.al \in Number(8)
    BY <1>3, ByteFacts
  <2> QED
    BY <1>1, <1>2, <1>3, <2>1, PairKept
<1>5. Whole(b, 8) = r.al
  BY <1>3, <1>4, ByteFacts DEF Whole, Pair
<1>6. Divided(c.regs["ax"], c.regs["dx"], Whole(b, 8), b.regs["bx"])
  <2> DEFINE q == "bx"
  <2>1. Narrow(b, Bits[w], q) /\ Narrow(b, Bits[w], "ax") /\ Narrow(b, Bits[w], "dx") /\ Does(I("div", w, R("ax"), R(q)), b, c)
    BY <1>1, <1>4 DEF Halves
  <2> HIDE DEF q
  <2>2. Divided(c.regs["ax"], c.regs["dx"], Whole(b, Bits[w]), b.regs[q])
    BY <2>1, UnsignedDivision
  <2> QED
    BY <1>1, <2>2 DEF q
<1> QED
  BY <1>3, <1>4, <1>5, <1>6, Zenon

LEMMA DaaHolds ==
  ASSUME Running, Traced, Done, start.task = "daa"
  PROVE  /\ IsPacked(regs["ax"]) /\ IsPacked(regs["dx"])
         /\ FourDigits(regs["ax"], regs["dx"]) + 10000 * flags.CF = FourDigits(s["dx"], s["ax"]) + FourDigits(s["bp"], s["bx"])
<1>1. start.task \in StraightTasks /\ start.w \in Widths /\ code = Code("daa", start.w, start.cc)
  BY BeganIs DEF StraightTasks, Idiom
<1>2. /\ Len(code) = 5
      /\ code[1] = I("add", start.w, R("ax"), R("bx"))
      /\ code[2] = I("daa", "byte", R("ax"), R("ax"))
      /\ code[3] = I("xchg", start.w, R("ax"), R("dx"))
      /\ code[4] = I("adc", start.w, R("ax"), R("bp"))
      /\ code[5] = I("daa", "byte", R("ax"), R("ax"))
  BY <1>1, DaaCode, Zenon
<1>3. PICK b, c, d, e \in State : Does(code[1], Began, b) /\ Does(code[2], b, c) /\ Does(code[3], c, d) /\ Does(code[4], d, e) /\ Does(code[5], e, Now)
  BY <1>1, <1>2, RanFive, Zenon
<1>4. Now \in State /\ Began \in State /\ Halves(Began, Bits[start.w])
  BY <1>1, <1>2, RanFive, BeganIs, Zenon
<1>5. /\ start.w = "byte" /\ IsPacked(Began.regs["ax"]) /\ IsPacked(Began.regs["dx"])
      /\ IsPacked(Began.regs["bx"]) /\ IsPacked(Began.regs["bp"])
  <2>1. s["ax"] \in Digits /\ s["dx"] \in Digits /\ s["bx"] \in Digits /\ s["bp"] \in Digits
    BY BeganIs, GivenOperands
  <2>2. \A byte \in Digits : IsPacked(byte)
    BY DigitsAssumption
  <2>3. start.w = "byte"
    BY BeganIs DEF WidthsOf
  <2> QED
    BY <2>1, <2>2, <2>3, BeganIs
<1>6. /\ IsPacked(Now.regs["ax"]) /\ IsPacked(Now.regs["dx"])
         /\ FourDigits(Now.regs["ax"], Now.regs["dx"]) + 10000 * Now.flags.CF = FourDigits(Began.regs["dx"], Began.regs["ax"]) + FourDigits(Began.regs["bp"], Began.regs["bx"])
  BY <1>1, <1>2, <1>3, <1>4, <1>5, DaaResult, SMTT(20)
<1> QED
  BY <1>6, BeganIs, NowIs

LEMMA DasHolds ==
  ASSUME Running, Traced, Done, start.task = "das"
  PROVE  /\ IsPacked(regs["ax"]) /\ IsPacked(regs["dx"])
         /\ FourDigits(regs["ax"], regs["dx"]) - 10000 * flags.CF = FourDigits(s["dx"], s["ax"]) - FourDigits(s["bp"], s["bx"])
<1>1. start.task \in StraightTasks /\ start.w \in Widths /\ code = Code("das", start.w, start.cc)
  BY BeganIs DEF StraightTasks, Idiom
<1>2. /\ Len(code) = 5
      /\ code[1] = I("sub", start.w, R("ax"), R("bx"))
      /\ code[2] = I("das", "byte", R("ax"), R("ax"))
      /\ code[3] = I("xchg", start.w, R("ax"), R("dx"))
      /\ code[4] = I("sbb", start.w, R("ax"), R("bp"))
      /\ code[5] = I("das", "byte", R("ax"), R("ax"))
  BY <1>1, DasCode, Zenon
<1>3. PICK b, c, d, e \in State : Does(code[1], Began, b) /\ Does(code[2], b, c) /\ Does(code[3], c, d) /\ Does(code[4], d, e) /\ Does(code[5], e, Now)
  BY <1>1, <1>2, RanFive, Zenon
<1>4. Now \in State /\ Began \in State /\ Halves(Began, Bits[start.w])
  BY <1>1, <1>2, RanFive, BeganIs, Zenon
<1>5. /\ start.w = "byte" /\ IsPacked(Began.regs["ax"]) /\ IsPacked(Began.regs["dx"])
      /\ IsPacked(Began.regs["bx"]) /\ IsPacked(Began.regs["bp"])
  <2>1. s["ax"] \in Digits /\ s["dx"] \in Digits /\ s["bx"] \in Digits /\ s["bp"] \in Digits
    BY BeganIs, GivenOperands
  <2>2. \A byte \in Digits : IsPacked(byte)
    BY DigitsAssumption
  <2>3. start.w = "byte"
    BY BeganIs DEF WidthsOf
  <2> QED
    BY <2>1, <2>2, <2>3, BeganIs
<1>6. /\ IsPacked(Now.regs["ax"]) /\ IsPacked(Now.regs["dx"])
         /\ FourDigits(Now.regs["ax"], Now.regs["dx"]) - 10000 * Now.flags.CF = FourDigits(Began.regs["dx"], Began.regs["ax"]) - FourDigits(Began.regs["bp"], Began.regs["bx"])
  BY <1>1, <1>2, <1>3, <1>4, <1>5, DasResult, SMTT(20)
<1> QED
  BY <1>6, BeganIs, NowIs

LEMMA AaaHolds ==
  ASSUME Running, Traced, Done, start.task = "aaa"
  PROVE  /\ regs["ax"] \in Figure /\ regs["dx"] \in Figure
         /\ 10 * regs["dx"] + regs["ax"] = (10 * s["dx"] + s["ax"]) + s["bx"]
<1>1. start.task \in StraightTasks /\ start.w \in Widths /\ code = Code("aaa", start.w, start.cc)
  BY BeganIs DEF StraightTasks, Idiom
<1>2. /\ Len(code) = 2
      /\ code[1] = I("add", start.w, R("ax"), R("bx"))
      /\ code[2] = I("aaa", "byte", R("ax"), R("ax"))
  BY <1>1, AaaCode, Zenon
<1>3. PICK b \in State : Does(code[1], Began, b) /\ Does(code[2], b, Now)
  BY <1>1, <1>2, RanTwo, Zenon
<1>4. Now \in State /\ Began \in State /\ Halves(Began, Bits[start.w])
  BY <1>1, <1>2, RanTwo, BeganIs, Zenon
<1>5. start.w = "byte" /\ Began.regs["ax"] \in Figure /\ Began.regs["bx"] \in Figure /\ Began.regs["dx"] \in Figure /\ Began.regs["dx"] # 9
  <2>1. s["ax"] \in Figure /\ s["bx"] \in Figure /\ s["dx"] \in Figure /\ s["dx"] # 9
    BY BeganIs, GivenOperands DEF Figure
  <2>2. start.w = "byte"
    BY BeganIs DEF WidthsOf
  <2> QED
    BY <2>1, <2>2, BeganIs
<1>6. /\ Now.regs["ax"] \in Figure /\ Now.regs["dx"] \in Figure
         /\ 10 * Now.regs["dx"] + Now.regs["ax"] = (10 * Began.regs["dx"] + Began.regs["ax"]) + Began.regs["bx"]
  BY <1>1, <1>2, <1>3, <1>4, <1>5, AaaResult
<1> QED
  BY <1>6, BeganIs, NowIs, Zenon DEF After, Before, Operand, n

LEMMA AasHolds ==
  ASSUME Running, Traced, Done, start.task = "aas"
  PROVE  /\ regs["ax"] \in Figure /\ regs["dx"] \in Figure
         /\ 10 * regs["dx"] + regs["ax"] = (10 * s["dx"] + s["ax"]) - s["bx"]
<1>1. start.task \in StraightTasks /\ start.w \in Widths /\ code = Code("aas", start.w, start.cc)
  BY BeganIs DEF StraightTasks, Idiom
<1>2. /\ Len(code) = 2
      /\ code[1] = I("sub", start.w, R("ax"), R("bx"))
      /\ code[2] = I("aas", "byte", R("ax"), R("ax"))
  BY <1>1, AasCode, Zenon
<1>3. PICK b \in State : Does(code[1], Began, b) /\ Does(code[2], b, Now)
  BY <1>1, <1>2, RanTwo, Zenon
<1>4. Now \in State /\ Began \in State /\ Halves(Began, Bits[start.w])
  BY <1>1, <1>2, RanTwo, BeganIs, Zenon
<1>5. start.w = "byte" /\ Began.regs["ax"] \in Figure /\ Began.regs["bx"] \in Figure /\ Began.regs["dx"] \in Figure /\ Began.regs["dx"] # 0
  <2>1. s["ax"] \in Figure /\ s["bx"] \in Figure /\ s["dx"] \in Figure /\ s["dx"] # 0
    BY BeganIs, GivenOperands DEF Figure
  <2>2. start.w = "byte"
    BY BeganIs DEF WidthsOf
  <2> QED
    BY <2>1, <2>2, BeganIs
<1>6. /\ Now.regs["ax"] \in Figure /\ Now.regs["dx"] \in Figure
         /\ 10 * Now.regs["dx"] + Now.regs["ax"] = (10 * Began.regs["dx"] + Began.regs["ax"]) - Began.regs["bx"]
  BY <1>1, <1>2, <1>3, <1>4, <1>5, AasResult
<1> QED
  BY <1>6, BeganIs, NowIs, Zenon DEF After, Before, Operand, n

LEMMA AamHolds ==
  ASSUME Running, Traced, Done, start.task = "aam"
  PROVE  /\ regs["ax"] \in Figure /\ regs["dx"] \in Figure
         /\ 10 * regs["dx"] + regs["ax"] = s["ax"] * s["bx"]
<1>1. start.task \in StraightTasks /\ start.w \in Widths /\ code = Code("aam", start.w, start.cc)
  BY BeganIs DEF StraightTasks, Idiom
<1>2. /\ Len(code) = 2
      /\ code[1] = I("mul", start.w, R("ax"), R("bx"))
      /\ code[2] = I("aam", "byte", R("ax"), R("ax"))
  BY <1>1, AamCode, Zenon
<1>3. PICK b \in State : Does(code[1], Began, b) /\ Does(code[2], b, Now)
  BY <1>1, <1>2, RanTwo, Zenon
<1>4. Now \in State /\ Began \in State /\ Halves(Began, Bits[start.w])
  BY <1>1, <1>2, RanTwo, BeganIs, Zenon
<1>5. start.w = "byte" /\ Began.regs["ax"] \in Figure /\ Began.regs["bx"] \in Figure
  <2>1. s["ax"] \in Figure /\ s["bx"] \in Figure
    BY BeganIs, GivenOperands DEF Figure
  <2>2. start.w = "byte"
    BY BeganIs DEF WidthsOf
  <2> QED
    BY <2>1, <2>2, BeganIs
<1>6. /\ Now.regs["ax"] \in Figure /\ Now.regs["dx"] \in Figure
         /\ 10 * Now.regs["dx"] + Now.regs["ax"] = Began.regs["ax"] * Began.regs["bx"]
  BY <1>1, <1>2, <1>3, <1>4, <1>5, AamResult
<1> QED
  BY <1>6, BeganIs, NowIs, Zenon DEF After, Before, Operand, n

LEMMA AadHolds ==
  ASSUME Running, Traced, Done, start.task = "aad"
  PROVE  Divided(regs["ax"], regs["dx"], 10 * s["dx"] + s["ax"], s["bx"])
<1>1. start.task \in StraightTasks /\ start.w \in Widths /\ code = Code("aad", start.w, start.cc)
  BY BeganIs DEF StraightTasks, Idiom
<1>2. /\ Len(code) = 2
      /\ code[1] = I("aad", "byte", R("ax"), R("ax"))
      /\ code[2] = I("div", start.w, R("ax"), R("bx"))
  BY <1>1, AadCode, Zenon
<1>3. PICK b \in State : Does(code[1], Began, b) /\ Does(code[2], b, Now)
  BY <1>1, <1>2, RanTwo, Zenon
<1>4. Now \in State /\ Began \in State /\ Halves(Began, Bits[start.w])
  BY <1>1, <1>2, RanTwo, BeganIs, Zenon
<1>5. start.w = "byte" /\ Began.regs["ax"] \in Figure /\ Began.regs["dx"] \in Figure
  <2>1. s["ax"] \in Figure /\ s["dx"] \in Figure
    BY BeganIs, GivenOperands DEF Figure
  <2>2. start.w = "byte"
    BY BeganIs DEF WidthsOf
  <2> QED
    BY <2>1, <2>2, BeganIs
<1>6. Divided(Now.regs["ax"], Now.regs["dx"], 10 * Began.regs["dx"] + Began.regs["ax"], Began.regs["bx"])
  BY <1>1, <1>2, <1>3, <1>4, <1>5, AadResult
<1> QED
  BY <1>6, BeganIs, NowIs, Zenon DEF After, Before, Operand, n

\* Sums and differences of four packed digits carry from byte to byte and stay
\* digits, and so do the results of the one-digit instructions, whose second digit
\* is in AH (FEProcess.m, DAA, DAS, AAA, AAS, AAM, AAD).
THEOREM DecimalDigitsHolds == Spec => []DecimalDigits
<1>1. ASSUME Running, Traced PROVE DecimalDigits
  <2> SUFFICES ASSUME Done PROVE DecimalDigits
    BY DEF DecimalDigits
  <2>1. CASE start.task = "daa"
    <3>1. /\ IsPacked(regs["ax"]) /\ IsPacked(regs["dx"])
          /\ FourDigits(regs["ax"], regs["dx"]) + 10000 * flags.CF = FourDigits(s["dx"], s["ax"]) + FourDigits(s["bp"], s["bx"])
      BY <1>1, <2>1, DaaHolds
    <3> QED
      BY <2>1, <3>1 DEF DecimalDigits, FourDigits
  <2>2. CASE start.task = "das"
    <3>1. /\ IsPacked(regs["ax"]) /\ IsPacked(regs["dx"])
          /\ FourDigits(regs["ax"], regs["dx"]) - 10000 * flags.CF = FourDigits(s["dx"], s["ax"]) - FourDigits(s["bp"], s["bx"])
      BY <1>1, <2>2, DasHolds
    <3> QED
      BY <2>2, <3>1 DEF DecimalDigits, FourDigits
  <2>3. CASE start.task = "aaa"
    <3>1. /\ regs["ax"] \in Figure /\ regs["dx"] \in Figure
          /\ 10 * regs["dx"] + regs["ax"] = (10 * s["dx"] + s["ax"]) + s["bx"]
      BY <1>1, <2>3, AaaHolds, Zenon
    <3> QED
      BY <2>3, <3>1 DEF DecimalDigits, Figure
  <2>4. CASE start.task = "aas"
    <3>1. /\ regs["ax"] \in Figure /\ regs["dx"] \in Figure
          /\ 10 * regs["dx"] + regs["ax"] = (10 * s["dx"] + s["ax"]) - s["bx"]
      BY <1>1, <2>4, AasHolds, Zenon
    <3> QED
      BY <2>4, <3>1 DEF DecimalDigits, Figure
  <2>5. CASE start.task = "aam"
    <3>1. /\ regs["ax"] \in Figure /\ regs["dx"] \in Figure
          /\ 10 * regs["dx"] + regs["ax"] = s["ax"] * s["bx"]
      BY <1>1, <2>5, AamHolds, Zenon
    <3> QED
      BY <2>5, <3>1 DEF DecimalDigits, Figure
  <2>6. CASE start.task = "aad"
    <3>1. Divided(regs["ax"], regs["dx"], 10 * s["dx"] + s["ax"], s["bx"])
      BY <1>1, <2>6, AadHolds, Zenon
    <3> QED
      BY <2>6, <3>1 DEF DecimalDigits
  <2>7. CASE start.task \notin {"daa", "das", "aaa", "aas", "aam", "aad"}
    BY <2>7 DEF DecimalDigits
  <2> QED
    BY <2>1, <2>2, <2>3, <2>4, <2>5, <2>6, <2>7
<1> QED
  BY <1>1, RunningAlways, TracedAlways, PTL

--------------------------------------------------------------------------------
(* Conditions *)

\* The lower eight bits are the lower eight bits of a byte.
LEMMA LowBits ==
  ASSUME NEW v \in Int, NEW i \in 0..7
  PROVE  BitAt(Wrap(8, v), i) = BitAt(v, i)
<1> DEFINE p == 256
           q == v \div p
           u == v % p
           eight == 8
<1>1. 2^eight = p /\ p \in Int /\ p > 0 /\ eight \in Nat /\ i \in Nat /\ i < eight
  OBVIOUS
<1>2. q \in Int /\ u \in Int /\ v = q * p + u
  <2> HIDE DEF p
  <2> QED
    BY <1>1
<1>3. Wrap(8, v) = u
  BY <1>1 DEF Wrap
<1> HIDE DEF p, q, u, eight
<1>4. BitAt(q * 2^eight + u, i) = BitAt(u, i)
  BY <1>1, <1>2, LowerBits
<1> QED
  BY <1>1, <1>2, <1>3, <1>4

\* even parity of the lower byte
EvenParity(v) == Cardinality({i \in 0..7 : BitAt(v, i) = 1}) % 2 = 0

LEMMA ParityIs ==
  ASSUME NEW v \in Int
  PROVE  FillParityFromByte(Wrap(8, v)) = Bit(EvenParity(v))
<1>1. {i \in 0..7 : BitAt(Wrap(8, v), i) = 1} = {i \in 0..7 : BitAt(v, i) = 1}
  BY LowBits
<1> QED
  BY <1>1, Zenon DEF FillParityFromByte, EvenParity

\* What the flags of cmp a, b say of a and b.
FlagsTell(k, a, b, f) ==
  /\ f \in FlagFile
  /\ f.CF = 1 <=> a < b
  /\ f.ZF = 1 <=> a = b
  /\ f.SF = 1 <=> Wrap(k, a - b) >= 2^(k - 1)
  /\ f.OF = 1 <=> OutOfRange(k, Signed(k, a) - Signed(k, b))
  /\ f.SF # f.OF <=> Signed(k, a) < Signed(k, b)
  /\ f.PF = 1 <=> EvenParity(Wrap(k, a - b))

LEMMA DifferenceTellsOrder ==
  ASSUME NEW k \in Nat, k > 0, NEW a \in Number(k), NEW b \in Number(k), NEW f, NEW r, DifferenceLeaves(k, a, b, 0, f, r)
  PROVE  FlagsTell(k, a, b, r.flags)
<1> DEFINE p == 2^k
           h == 2^(k - 1)
           v == r.value
           g == r.flags
           sa == Signed(k, a)
           sb == Signed(k, b)
           sv == Signed(k, v)
<1>1. p = 2 * h /\ h \in Int /\ h > 0 /\ a \in 0..(p - 1) /\ b \in 0..(p - 1) /\ v \in 0..(p - 1) /\ v \in Number(k)
  BY PowerHalf DEF Number, DifferenceLeaves, Results
<1>2. g \in FlagFile /\ g.CF \in {0, 1} /\ g.ZF \in {0, 1} /\ g.SF \in {0, 1} /\ g.OF \in {0, 1} /\ g.PF \in {0, 1}
  BY DEF DifferenceLeaves, Results, FlagFile, Flag
<1>3. g.CF = Bit(a < b + 0) /\ v = a - b - 0 + g.CF * p /\ g.ZF = Bit(v = 0) /\ g.SF = TopBit(k, v)
  BY DEF DifferenceLeaves
<1>4. g.OF = Bit(sa - sb - 0 # sv) /\ g.PF = FillParityFromByte(Wrap(8, v))
  BY DEF DifferenceLeaves
<1>5. SignedTo(k, a, sa) /\ SignedTo(k, b, sb) /\ SignedTo(k, v, sv) /\ TopBit(k, v) = Bit(v >= h)
  BY <1>1, SignedIs, TopBitIs
<1>6. PICK c \in {0, 1} : c = g.CF
  BY <1>2
<1> HIDE DEF p, h, v, g, sa, sb, sv
<1>7. (c = 1 <=> a < b) /\ v = (a - b) + c * p
  <2>1. a < b + 0 <=> a < b
    BY <1>1
  <2>2. v = a - b - 0 + c * p
    BY <1>3, <1>6
  <2>3. c = Bit(a < b + 0)
    BY <1>3, <1>6
  <2> QED
    BY <1>1, <2>1, <2>2, <2>3 DEF Bit
<1>8. Wrap(k, a - b) = v
  <2> DEFINE q == -c
  <2>1. q \in Int /\ q * p + v = a - b
    BY <1>1, <1>7
  <2> HIDE DEF q
  <2>2. Wrap(k, q * 2^k + v) = v
    BY <1>1, <2>1, WrapIs
  <2> QED
    BY <2>1, <2>2 DEF p
<1>9. g.ZF = 1 <=> a = b
  BY <1>1, <1>3, <1>7 DEF Bit
<1>10. g.SF = 1 <=> v >= h
  BY <1>3, <1>5 DEF Bit
<1>11. g.PF = 1 <=> EvenParity(v)
  <2>1. v \in Int
    BY <1>1
  <2>2. g.PF = Bit(EvenParity(v))
    BY <1>4, <2>1, ParityIs, Zenon
  <2>3. CASE EvenParity(v)
    BY <2>2, <2>3 DEF Bit
  <2>4. CASE ~ EvenParity(v)
    BY <2>2, <2>4 DEF Bit
  <2> QED
    BY <2>3, <2>4
<1>12. /\ sa = (IF a >= h THEN a - p ELSE a) /\ sb = (IF b >= h THEN b - p ELSE b)
       /\ sv = (IF v >= h THEN v - p ELSE v)
  BY <1>1, <1>5 DEF SignedTo, h, p
<1>13. g.OF = 1 <=> sa - sb # sv
  <2>1. sa \in Int /\ sb \in Int
    BY <1>1, <1>12
  <2>2. sa - sb - 0 = sa - sb
    BY <2>1
  <2> QED
    BY <1>4, <2>2 DEF Bit
<1>14. g.OF = 1 <=> sa - sb \notin (-h)..(h - 1)
  BY <1>1, <1>7, <1>12, <1>13
<1>15. g.SF # g.OF <=> sa < sb
  BY <1>1, <1>2, <1>7, <1>10, <1>12, <1>13
<1>16. g.CF = 1 <=> a < b
  BY <1>6, <1>7
<1> QED
  BY <1>2, <1>8, <1>9, <1>10, <1>11, <1>14, <1>15, <1>16 DEF FlagsTell, OutOfRange, g, h, sa, sb

\* Numbers are equal when they are as signed numbers.
LEMMA SameSigned ==
  ASSUME NEW k \in Nat, k > 0, NEW a \in Number(k), NEW b \in Number(k)
  PROVE  Signed(k, a) = Signed(k, b) <=> a = b
<1> DEFINE p == 2^k
           h == 2^(k - 1)
           sa == Signed(k, a)
           sb == Signed(k, b)
<1>1. p = 2 * h /\ h \in Int /\ h > 0 /\ a \in 0..(p - 1) /\ b \in 0..(p - 1)
  BY PowerHalf DEF Number
<1>2. SignedTo(k, a, sa) /\ SignedTo(k, b, sb)
  BY SignedIs
<1> HIDE DEF p, h, sa, sb
<1>3. sa = (IF a >= h THEN a - p ELSE a) /\ sb = (IF b >= h THEN b - p ELSE b)
  BY <1>1, <1>2 DEF SignedTo, h, p
<1>4. sa = sb <=> a = b
  BY <1>1, <1>3
<1> QED
  BY <1>4 DEF sa, sb

\* The relation a condition stands for, and what the flags of cmp say of it.
LEMMA ConditionHolds ==
  ASSUME NEW a \in Number(n), NEW b \in Number(n), n \in Nat, n > 0, NEW f, FlagsTell(n, a, b, f), NEW cc \in Condition
  PROVE  Holds(cc, f) <=> Related(cc, a, b)
<1>1. f.CF \in {0, 1} /\ f.ZF \in {0, 1} /\ f.SF \in {0, 1} /\ f.OF \in {0, 1} /\ f.PF \in {0, 1}
  BY DEF FlagsTell, FlagFile, Flag
<1>2. a \in Int /\ b \in Int /\ Signed(n, a) \in Int /\ Signed(n, b) \in Int
  <2>1. a \in Int /\ b \in Int
    BY PowerType DEF Number
  <2> QED
    BY <2>1, SignedIs DEF SignedTo
<1>20. (Signed(n, a) <= Signed(n, b)) <=> f.ZF = 1 \/ f.SF # f.OF
  <2> DEFINE x == Signed(n, a)
             y == Signed(n, b)
  <2>1. x \in Int /\ y \in Int
    BY <1>2
  <2>2. (f.SF # f.OF <=> x < y) /\ (f.ZF = 1 <=> a = b)
    BY DEF FlagsTell
  <2>3. x = y <=> a = b
    BY SameSigned
  <2> HIDE DEF x, y
  <2>4. x <= y <=> (x < y \/ x = y)
    BY <2>1
  <2>5. x <= y <=> f.ZF = 1 \/ f.SF # f.OF
    BY <2>2, <2>3, <2>4, Zenon
  <2> QED
    BY <2>5 DEF x, y
<1>3. CASE cc = "b"
  <2>1. Holds(cc, f) <=> f.CF = 1
    BY <1>3 DEF Holds
  <2>2. Relation("b", a, b) <=> a < b
    BY DEF Relation
  <2>3. Related(cc, a, b) <=> Relation("b", a, b)
    BY <1>3 DEF Related, Opposite
  <2>4. (a < b) <=> f.CF = 1
    BY <1>1, <1>2 DEF FlagsTell
  <2> QED
    BY <2>1, <2>2, <2>3, <2>4, Zenon
<1>4. CASE cc = "nb"
  <2>1. Holds(cc, f) <=> f.CF = 0
    BY <1>4 DEF Holds
  <2>2. Relation("b", a, b) <=> a < b
    BY DEF Relation
  <2>3. Related(cc, a, b) <=> ~ Relation("b", a, b)
    BY <1>4 DEF Related, Opposite
  <2>4. ~ (a < b) <=> f.CF = 0
    BY <1>1, <1>2 DEF FlagsTell
  <2> QED
    BY <2>1, <2>2, <2>3, <2>4, Zenon
<1>5. CASE cc = "z"
  <2>1. Holds(cc, f) <=> f.ZF = 1
    BY <1>5 DEF Holds
  <2>2. Relation("z", a, b) <=> a = b
    BY DEF Relation
  <2>3. Related(cc, a, b) <=> Relation("z", a, b)
    BY <1>5 DEF Related, Opposite
  <2>4. (a = b) <=> f.ZF = 1
    BY <1>1, <1>2 DEF FlagsTell
  <2> QED
    BY <2>1, <2>2, <2>3, <2>4, Zenon
<1>6. CASE cc = "nz"
  <2>1. Holds(cc, f) <=> f.ZF = 0
    BY <1>6 DEF Holds
  <2>2. Relation("z", a, b) <=> a = b
    BY DEF Relation
  <2>3. Related(cc, a, b) <=> ~ Relation("z", a, b)
    BY <1>6 DEF Related, Opposite
  <2>4. ~ (a = b) <=> f.ZF = 0
    BY <1>1, <1>2 DEF FlagsTell
  <2> QED
    BY <2>1, <2>2, <2>3, <2>4, Zenon
<1>7. CASE cc = "be"
  <2>1. Holds(cc, f) <=> f.CF = 1 \/ f.ZF = 1
    BY <1>7 DEF Holds
  <2>2. Relation("be", a, b) <=> a <= b
    BY DEF Relation
  <2>3. Related(cc, a, b) <=> Relation("be", a, b)
    BY <1>7 DEF Related, Opposite
  <2>4. (a <= b) <=> f.CF = 1 \/ f.ZF = 1
    BY <1>1, <1>2 DEF FlagsTell
  <2> QED
    BY <2>1, <2>2, <2>3, <2>4, Zenon
<1>8. CASE cc = "nbe"
  <2>1. Holds(cc, f) <=> f.CF = 0 /\ f.ZF = 0
    BY <1>8 DEF Holds
  <2>2. Relation("be", a, b) <=> a <= b
    BY DEF Relation
  <2>3. Related(cc, a, b) <=> ~ Relation("be", a, b)
    BY <1>8 DEF Related, Opposite
  <2>4. ~ (a <= b) <=> f.CF = 0 /\ f.ZF = 0
    BY <1>1, <1>2 DEF FlagsTell
  <2> QED
    BY <2>1, <2>2, <2>3, <2>4, Zenon
<1>9. CASE cc = "l"
  <2>1. Holds(cc, f) <=> f.SF # f.OF
    BY <1>9 DEF Holds
  <2>2. Relation("l", a, b) <=> Signed(n, a) < Signed(n, b)
    BY DEF Relation
  <2>3. Related(cc, a, b) <=> Relation("l", a, b)
    BY <1>9 DEF Related, Opposite
  <2>4. (Signed(n, a) < Signed(n, b)) <=> f.SF # f.OF
    BY <1>1, <1>2 DEF FlagsTell
  <2> QED
    BY <2>1, <2>2, <2>3, <2>4, Zenon
<1>10. CASE cc = "nl"
  <2>1. Holds(cc, f) <=> f.SF = f.OF
    BY <1>10 DEF Holds
  <2>2. Relation("l", a, b) <=> Signed(n, a) < Signed(n, b)
    BY DEF Relation
  <2>3. Related(cc, a, b) <=> ~ Relation("l", a, b)
    BY <1>10 DEF Related, Opposite
  <2>4. ~ (Signed(n, a) < Signed(n, b)) <=> f.SF = f.OF
    BY <1>1, <1>2 DEF FlagsTell
  <2> QED
    BY <2>1, <2>2, <2>3, <2>4, Zenon
<1>11. CASE cc = "le"
  <2>1. Holds(cc, f) <=> f.ZF = 1 \/ f.SF # f.OF
    BY <1>11 DEF Holds
  <2>2. Relation("le", a, b) <=> Signed(n, a) <= Signed(n, b)
    BY DEF Relation
  <2>3. Related(cc, a, b) <=> Relation("le", a, b)
    BY <1>11 DEF Related, Opposite
  <2>4. (Signed(n, a) <= Signed(n, b)) <=> f.ZF = 1 \/ f.SF # f.OF
    BY <1>20
  <2> QED
    BY <2>1, <2>2, <2>3, <2>4, Zenon
<1>12. CASE cc = "nle"
  <2>1. Holds(cc, f) <=> f.ZF = 0 /\ f.SF = f.OF
    BY <1>12 DEF Holds
  <2>2. Relation("le", a, b) <=> Signed(n, a) <= Signed(n, b)
    BY DEF Relation
  <2>3. Related(cc, a, b) <=> ~ Relation("le", a, b)
    BY <1>12 DEF Related, Opposite
  <2>4. ~ (Signed(n, a) <= Signed(n, b)) <=> f.ZF = 0 /\ f.SF = f.OF
    BY <1>1, <1>20
  <2> QED
    BY <2>1, <2>2, <2>3, <2>4, Zenon
<1>13. CASE cc = "s"
  <2>1. Holds(cc, f) <=> f.SF = 1
    BY <1>13 DEF Holds
  <2>2. Relation("s", a, b) <=> Wrap(n, a - b) >= 2^(n - 1)
    BY DEF Relation
  <2>3. Related(cc, a, b) <=> Relation("s", a, b)
    BY <1>13 DEF Related, Opposite
  <2>4. (Wrap(n, a - b) >= 2^(n - 1)) <=> f.SF = 1
    BY <1>1, <1>2 DEF FlagsTell
  <2> QED
    BY <2>1, <2>2, <2>3, <2>4, Zenon
<1>14. CASE cc = "ns"
  <2>1. Holds(cc, f) <=> f.SF = 0
    BY <1>14 DEF Holds
  <2>2. Relation("s", a, b) <=> Wrap(n, a - b) >= 2^(n - 1)
    BY DEF Relation
  <2>3. Related(cc, a, b) <=> ~ Relation("s", a, b)
    BY <1>14 DEF Related, Opposite
  <2>4. ~ (Wrap(n, a - b) >= 2^(n - 1)) <=> f.SF = 0
    BY <1>1, <1>2 DEF FlagsTell
  <2> QED
    BY <2>1, <2>2, <2>3, <2>4, Zenon
<1>15. CASE cc = "o"
  <2>1. Holds(cc, f) <=> f.OF = 1
    BY <1>15 DEF Holds
  <2>2. Relation("o", a, b) <=> OutOfRange(n, Signed(n, a) - Signed(n, b))
    BY DEF Relation, OutOfRange
  <2>3. Related(cc, a, b) <=> Relation("o", a, b)
    BY <1>15 DEF Related, Opposite
  <2>4. (OutOfRange(n, Signed(n, a) - Signed(n, b))) <=> f.OF = 1
    BY <1>1, <1>2 DEF FlagsTell
  <2> QED
    BY <2>1, <2>2, <2>3, <2>4, Zenon
<1>16. CASE cc = "no"
  <2>1. Holds(cc, f) <=> f.OF = 0
    BY <1>16 DEF Holds
  <2>2. Relation("o", a, b) <=> OutOfRange(n, Signed(n, a) - Signed(n, b))
    BY DEF Relation, OutOfRange
  <2>3. Related(cc, a, b) <=> ~ Relation("o", a, b)
    BY <1>16 DEF Related, Opposite
  <2>4. ~ (OutOfRange(n, Signed(n, a) - Signed(n, b))) <=> f.OF = 0
    BY <1>1, <1>2 DEF FlagsTell
  <2> QED
    BY <2>1, <2>2, <2>3, <2>4, Zenon
<1>17. CASE cc = "p"
  <2>1. Holds(cc, f) <=> f.PF = 1
    BY <1>17 DEF Holds
  <2>2. Relation("p", a, b) <=> EvenParity(Wrap(n, a - b))
    BY DEF Relation, EvenParity
  <2>3. Related(cc, a, b) <=> Relation("p", a, b)
    BY <1>17 DEF Related, Opposite
  <2>4. (EvenParity(Wrap(n, a - b))) <=> f.PF = 1
    BY <1>1, <1>2 DEF FlagsTell
  <2> QED
    BY <2>1, <2>2, <2>3, <2>4, Zenon
<1>18. CASE cc = "np"
  <2>1. Holds(cc, f) <=> f.PF = 0
    BY <1>18 DEF Holds
  <2>2. Relation("p", a, b) <=> EvenParity(Wrap(n, a - b))
    BY DEF Relation, EvenParity
  <2>3. Related(cc, a, b) <=> ~ Relation("p", a, b)
    BY <1>18 DEF Related, Opposite
  <2>4. ~ (EvenParity(Wrap(n, a - b))) <=> f.PF = 0
    BY <1>1, <1>2 DEF FlagsTell
  <2> QED
    BY <2>1, <2>2, <2>3, <2>4, Zenon
<1> QED
  BY <1>3, <1>4, <1>5, <1>6, <1>7, <1>8, <1>9, <1>10, <1>11, <1>12, <1>13, <1>14, <1>15, <1>16, <1>17, <1>18 DEF Condition

--------------------------------------------------------------------------------
(* The registers between the comparison and the end *)

Mark == Bit(Holds(start.cc, flags))
SetTo(v) == With(s, "bp", (s["bp"] - (s["bp"] % 256)) + v)
MovedIf(v) == IF v = 1 THEN With(SetTo(v), "dx", s["bx"]) ELSE SetTo(v)
Skipped(v) == IF v = 1 THEN MovedIf(v) ELSE With(MovedIf(v), "ecx", 7)
Widened(v) == With(Skipped(v), "esi", v)

Compared ==
  start.task = "compare" =>
    /\ pc > 1 => FlagsTell(n, s["ax"], s["bx"], flags)
    /\ pc \in {1, 2} => regs = s
    /\ pc = 3 => regs = SetTo(Mark)
    /\ pc = 4 => regs = MovedIf(Mark)
    /\ pc = 5 => regs = MovedIf(Mark) /\ Mark = 0
    /\ pc = 6 => regs = Skipped(Mark)
    /\ pc = 7 => regs = Widened(Mark)

LEMMA MarkIs == Mark \in {0, 1} /\ (Mark = 1 <=> Holds(start.cc, flags))
BY DEF Mark, Bit

LEMMA CompareWritten ==
  ASSUME Running, start.task = "compare"
  PROVE  /\ Len(code) = 6 /\ code[1] = I("cmp", start.w, R("ax"), R("bx")) /\ code[2] = Set(start.cc, R("bp"))
         /\ code[3] = Cmov(start.cc, R("dx"), R("bx")) /\ code[4] = J(start.cc, 6)
         /\ code[5] = I("mov", "dword", R("ecx"), Imm(7)) /\ code[6] = I("movzx", "dword", R("esi"), R("bp"))
         /\ start.cc \in Condition
<1>1. start.w \in Widths /\ code = Code("compare", start.w, start.cc)
  BY BeganIs
<1>2. start.cc \in Condition
  BY DEF Running, StartOK, ConditionsOf
<1> QED
  BY <1>1, <1>2, CompareCode, Zenon

\* What a byte in the low end of a register is, and the upper end it leaves.
LEMMA LowByte ==
  ASSUME NEW x \in Nat, NEW v \in {0, 1}
  PROVE  ((x - (x % 256)) + v) % 256 = v
<1> DEFINE q == x \div 256
           u == x % 256
           p == 256
<1>1. q \in Int /\ u \in Int /\ x = q * p + u /\ p = 2^8 /\ p \in Int
  OBVIOUS
<1>2. x - u = q * 256
  BY <1>1
<1> QED
  BY <1>1, <1>2

\* a register holds v, and g is the file with v in d
Holder(v) == v \in Number(Bits["dword"])
Replaced(file, d, v, g) == g \in RegFile /\ g[d] = v /\ \A e \in Register : e # d => g[e] = file[e]

LEMMA WithReplaces ==
  ASSUME NEW file \in RegFile, NEW d \in Register, NEW v, Holder(v)
  PROVE  Replaced(file, d, v, With(file, d, v))
BY DEF Holder, Replaced, With, RegFile

LEMMA FilesAre ==
  ASSUME Running, start.task = "compare", NEW v \in {0, 1}
  PROVE  /\ s \in RegFile /\ SetTo(v) \in RegFile /\ MovedIf(v) \in RegFile /\ Skipped(v) \in RegFile
         /\ SetTo(v)["bx"] = s["bx"] /\ Skipped(v)["bp"] % 256 = v
         /\ Widened(v)["ax"] = s["ax"] /\ Widened(v)["bx"] = s["bx"]
         /\ Widened(v)["bp"] = (s["bp"] - (s["bp"] % 256)) + v
         /\ Widened(v)["dx"] = (IF v = 1 THEN s["bx"] ELSE s["dx"])
         /\ Widened(v)["ecx"] = (IF v = 1 THEN 0 ELSE 7)
         /\ Widened(v)["esi"] = v
<1> DEFINE d == Bits["dword"]
           y == (s["bp"] - (s["bp"] % 256)) + v
           seven == 7
<1>1. s \in RegFile /\ StartOK
  BY StartIs DEF Running, StartFits, Fits
<1>2. s["ecx"] = 0
  <2> DEFINE A == Samples[start.w]
             D == {2}
  <2>1. s \in Operands(A, D, A, A)
    BY <1>1 DEF StartOK, Inputs
  <2> HIDE DEF A, D
  <2> QED
    BY <2>1, OperandsAre
<1>3. 0..255 \subseteq Number(d) /\ Number(d) \subseteq Nat
  BY NarrowNumbers DEF Widths
<1>4. v \in Number(d) /\ seven \in Number(d)
  BY <1>3
<1>5. s["bp"] \in Number(d) /\ s["bx"] \in Number(d) /\ s["bp"] \in Nat
  BY <1>1, <1>3, Registers DEF RegFile
<1>6. y % 256 = v
  BY <1>5, LowByte
<1>7. y \in Number(d)
  <2> DEFINE byte == "byte"
  <2>1. byte \in Widths /\ Bits[byte] = 8 /\ v \in Number(Bits[byte])
    BY WidthFacts, NarrowNumbers DEF Widths
  <2>2. Stored(s, 8, R("bp"), v) = With(s, "bp", y)
    <3> DEFINE z == (s["bp"] - Wrap(8, s["bp"])) + v
    <3>1. Stored(s, 8, R("bp"), v) = [s EXCEPT !["bp"] = z]
      BY DEF Stored, R
    <3> DEFINE x == s["bp"]
    <3>2. Wrap(8, x) = x % 256
      BY DEF Wrap
    <3>3. z = y
      BY <3>2
    <3> HIDE DEF z, y
    <3> QED
      BY <3>1, <3>3 DEF With
  <2> HIDE DEF byte
  <2>3. R("bp").reg \in Register
    BY Registers DEF R
  <2>4. Stored(s, Bits[byte], R("bp"), v) \in RegFile
    BY <1>1, <2>1, <2>3, StoredIs
  <2>5. With(s, "bp", y) \in RegFile
    BY <2>1, <2>2, <2>4
  <2>6. With(s, "bp", y)["bp"] = y
    BY <1>1, Registers DEF With, RegFile
  <2> QED
    BY <2>5, <2>6, Registers DEF RegFile
<1> HIDE DEF d, y, seven
<1>8. /\ SetTo(v) = With(s, "bp", y) /\ MovedIf(v) = (IF v = 1 THEN With(SetTo(v), "dx", s["bx"]) ELSE SetTo(v))
      /\ Skipped(v) = (IF v = 1 THEN MovedIf(v) ELSE With(MovedIf(v), "ecx", seven))
      /\ Widened(v) = With(Skipped(v), "esi", v)
  BY ZenonT(40) DEF SetTo, MovedIf, Skipped, Widened, y, seven
<1> DEFINE b == "bp"
           e == "dx"
           c == "ecx"
           f == "esi"
<1>20. b \in Register /\ e \in Register /\ c \in Register /\ f \in Register
  BY Registers
<1>21. Holder(v) /\ Holder(y) /\ Holder(seven) /\ Holder(s["bx"])
  BY <1>4, <1>5, <1>7 DEF Holder, d
<1> HIDE DEF b, e, c, f
<1>9. Replaced(s, b, y, SetTo(v))
  BY <1>1, <1>8, <1>20, <1>21, WithReplaces DEF b
<1>10. IF v = 1 THEN Replaced(SetTo(v), e, s["bx"], MovedIf(v)) ELSE MovedIf(v) = SetTo(v)
  <2>1. SetTo(v) \in RegFile
    BY <1>9 DEF Replaced
  <2> QED
    BY <1>8, <1>20, <1>21, <2>1, WithReplaces DEF e
<1>11. IF v = 1 THEN Skipped(v) = MovedIf(v) ELSE Replaced(MovedIf(v), c, seven, Skipped(v))
  <2>1. MovedIf(v) \in RegFile
    BY <1>9, <1>10 DEF Replaced
  <2> QED
    BY <1>8, <1>20, <1>21, <2>1, WithReplaces DEF c
<1>12. Replaced(Skipped(v), f, v, Widened(v))
  <2>1. Skipped(v) \in RegFile
    BY <1>9, <1>10, <1>11 DEF Replaced
  <2> QED
    BY <1>8, <1>20, <1>21, <2>1, WithReplaces DEF f
<1>13. /\ SetTo(v) \in RegFile /\ SetTo(v)["bp"] = y
       /\ \A r \in Register : r # "bp" => SetTo(v)[r] = s[r]
  BY <1>9 DEF Replaced, b
<1>14. /\ MovedIf(v) \in RegFile /\ MovedIf(v)["dx"] = (IF v = 1 THEN s["bx"] ELSE s["dx"]) /\ MovedIf(v)["bp"] = y
       /\ \A r \in Register : r # "bp" /\ r # "dx" => MovedIf(v)[r] = s[r]
  BY <1>10, <1>13, Registers DEF Replaced, e
<1>15. /\ Skipped(v) \in RegFile /\ Skipped(v)["dx"] = (IF v = 1 THEN s["bx"] ELSE s["dx"]) /\ Skipped(v)["bp"] = y
       /\ Skipped(v)["ecx"] = (IF v = 1 THEN 0 ELSE seven) /\ Skipped(v)["ax"] = s["ax"] /\ Skipped(v)["bx"] = s["bx"]
  BY <1>2, <1>11, <1>14, Registers DEF Replaced, c
<1>16. /\ Widened(v)["esi"] = v
       /\ \A r \in Register : r # "esi" => Widened(v)[r] = Skipped(v)[r]
  BY <1>12 DEF Replaced, f
<1> QED
  BY <1>1, <1>6, <1>13, <1>14, <1>15, <1>16, Registers DEF y, seven

\* The condition that was marked stays as long as the flags do.
LEMMA MarkStays ==
  ASSUME start' = start, flags' = flags
  PROVE  Mark' = Mark
BY DEF Mark

LEMMA CmpLeads ==
  ASSUME Running, Next, start.task = "compare", pc = 1, regs = s
  PROVE  pc' = 2 /\ regs' = regs /\ FlagsTell(n, s["ax"], s["bx"], flags')
<1> DEFINE w == start.w
<1>1. /\ Instruction = I("cmp", w, R("ax"), R("bx")) /\ w \in Widths /\ Acts(Instruction.op) /\ Typed
      /\ Halves(Began, n) /\ Began.regs = s /\ n = Bits[w] /\ n \in Nat /\ n > 0
  BY CompareWritten, Reads, BeganIs DEF Instruction
<1> HIDE DEF w
<1>2. Instruction.op = "cmp" /\ Instruction.w = w /\ Instruction.dst = R("ax") /\ Instruction.src = R("bx")
  BY <1>1 DEF I
<1>3. CompareInstruction
  BY <1>1, <1>2 DEF Acts
<1>4. RegArg(R("ax")) /\ Arg(R("bx"))
  BY Registers DEF RegArg, Arg, R
<1>5. Load(n, R("ax")) = s["ax"] /\ Load(n, R("bx")) = s["bx"] /\ s["ax"] \in Number(n) /\ s["bx"] \in Number(n)
  <2> DEFINE a == "ax"
             b == "bx"
  <2>1. Narrow(Began, n, a) /\ Narrow(Began, n, b)
    BY <1>1 DEF Halves
  <2> HIDE DEF a, b
  <2>2. In(regs, n, R(a)) = s[a] /\ In(regs, n, R(b)) = s[b]
    BY <1>1, <2>1, InIs
  <2>3. s[a] \in Number(n) /\ s[b] \in Number(n)
    BY <1>1, <2>1 DEF Narrow
  <2> QED
    BY <2>2, <2>3, InIsLoad, Zenon DEF a, b
<1>6. Operates(Instruction.op, Bits[w], Instruction.dst, Load(Bits[w], Instruction.dst), Load(Bits[w], Instruction.src))
  BY <1>1, <1>2, <1>3, <1>4, TwoOperandDoes
<1>7. Operates("cmp", n, R("ax"), s["ax"], s["bx"])
  BY <1>1, <1>2, <1>5, <1>6
<1>8. PICK r \in Results(n) : TwoOperandsLeave("cmp", n, s["ax"], s["bx"], flags, r) /\ Passes(regs, r.flags)
  BY <1>7 DEF Operates
<1>9. DifferenceLeaves(n, s["ax"], s["bx"], 0, flags, r)
  BY <1>8 DEF TwoOperandsLeave
<1>10. FlagsTell(n, s["ax"], s["bx"], r.flags)
  <2> DEFINE a == s["ax"]
             b == s["bx"]
  <2>1. a \in Number(n) /\ b \in Number(n) /\ DifferenceLeaves(n, a, b, 0, flags, r)
    BY <1>5, <1>9
  <2> HIDE DEF a, b
  <2>2. FlagsTell(n, a, b, r.flags)
    BY <1>1, <2>1, DifferenceTellsOrder
  <2> QED
    BY <2>2 DEF a, b
<1> QED
  BY <1>8, <1>10 DEF Passes

LEMMA SetLeads ==
  ASSUME Running, Next, start.task = "compare", pc = 2, regs = s
  PROVE  pc' = 3 /\ flags' = flags /\ regs' = SetTo(Mark)
<1>1. Instruction = Set(start.cc, R("bp"))
  BY CompareWritten DEF Instruction
<1>2. Instruction.op = "set" /\ Instruction.dst = R("bp") /\ Instruction.cc = start.cc
  BY <1>1 DEF Set
<1>3. Writes(Now, Now', 8, R("bp"), Mark, flags) /\ pc' = 3
  BY <1>2, SetStep DEF Mark
<1>4. regs' = Stored(s, 8, R("bp"), Mark) /\ flags' = flags
  BY <1>3, NowIs, Zenon DEF Writes
<1> DEFINE v == Mark
           x == s["bp"]
<1>5. Stored(s, 8, R("bp"), v) = SetTo(v)
  <2> HIDE DEF v
  <2>1. Stored(s, 8, R("bp"), v) = [s EXCEPT !["bp"] = (x - Wrap(8, x)) + v]
    BY DEF Stored, R
  <2>2. Wrap(8, x) = x % 256
    BY DEF Wrap
  <2> QED
    BY <2>1, <2>2 DEF SetTo, With
<1> QED
  BY <1>3, <1>4, <1>5

LEMMA JumpLeads ==
  ASSUME Running, Next, start.task = "compare", pc = 4
  PROVE  pc' = (IF Mark = 1 THEN 6 ELSE 5) /\ flags' = flags /\ regs' = regs
<1>1. Instruction = J(start.cc, 6) /\ Acts(Instruction.op)
  BY CompareWritten, Reads DEF Instruction
<1>2. Instruction.op = "j" /\ Instruction.to = 6 /\ Instruction.cc = start.cc
  BY <1>1 DEF J
<1>3. JumpIf
  BY <1>1, <1>2 DEF Acts
<1>4. pc' = (IF Holds(start.cc, flags) THEN 6 ELSE 5) /\ flags' = flags /\ regs' = regs
  BY <1>2, <1>3, ConditionsDo
<1> QED
  BY <1>4, MarkIs

\* A dword replaces what a register held.
LEMMA DwordReplaces ==
  ASSUME NEW file \in RegFile, NEW d \in Register, NEW v, Holder(v)
  PROVE  Stored(file, Bits["dword"], R(d), v) = With(file, d, v)
<1> DEFINE w == "dword"
<1>1. w \in Widths /\ file[d] \in Number(Bits[w]) /\ v \in Number(Bits[w])
  BY DEF Holder, RegFile, Widths
<1> HIDE DEF w
<1>2. Stored(file, Bits[w], R(d), v) = With(file, d, v)
  BY <1>1, StoredNarrow
<1> QED
  BY <1>2 DEF w

LEMMA DwordLoads ==
  ASSUME Typed, NEW d \in Register
  PROVE  Load(Bits["dword"], R(d)) = regs[d] /\ Holder(regs[d]) /\ RegArg(R(d)) /\ Arg(R(d))
<1> DEFINE k == Bits["dword"]
<1>1. regs[d] \in Number(k) /\ k \in Nat
  BY WidthFacts DEF Typed, RegFile, Widths
<1>2. Load(k, R(d)) = Wrap(k, regs[d]) /\ RegArg(R(d))
  BY DEF Load, R, RegArg
<1>3. Holder(regs[d])
  BY <1>1 DEF Holder
<1> HIDE DEF k
<1>4. Load(k, R(d)) = regs[d]
  BY <1>1, <1>2, WrapSmall
<1> QED
  BY <1>2, <1>3, <1>4 DEF k, Arg

LEMMA MoveIfLeads ==
  ASSUME Running, Next, start.task = "compare", pc = 3, regs = SetTo(Mark)
  PROVE  pc' = 4 /\ flags' = flags /\ regs' = MovedIf(Mark)
<1> DEFINE w == "dword"
           d == "dx"
           b == "bx"
           v == Mark
<1>1. Instruction = Cmov(start.cc, R("dx"), R("bx")) /\ Acts(Instruction.op) /\ Typed
  BY CompareWritten, Reads DEF Instruction
<1>2. /\ Instruction.op = "cmov" /\ Instruction.w = w /\ Instruction.cc = start.cc
      /\ Instruction.dst = R("dx") /\ Instruction.src = R("bx")
  BY <1>1 DEF Cmov
<1>3. MoveIf
  BY <1>1, <1>2 DEF Acts
<1>4. v \in {0, 1} /\ (v = 1 <=> Holds(start.cc, flags))
  BY MarkIs
<1>5. SetTo(v) \in RegFile /\ SetTo(v)["bx"] = s["bx"]
  BY <1>4, FilesAre
<1>6. IF Holds(Instruction.cc, flags)
      THEN Puts(Bits[w], Instruction.dst, Load(Bits[w], Instruction.src), flags) ELSE Passes(regs, flags)
  BY <1>2, <1>3, ConditionsDo
<1>7. d \in Register /\ b \in Register
  BY Registers
<1>8. Load(Bits["dword"], R("bx")) = s["bx"] /\ Holder(s["bx"])
  <2> HIDE DEF b
  <2>1. Load(Bits["dword"], R(b)) = regs[b] /\ Holder(regs[b])
    BY <1>1, <1>7, DwordLoads
  <2> QED
    BY <1>5, <2>1 DEF b
<1>9. Stored(SetTo(v), Bits["dword"], R("dx"), s["bx"]) = With(SetTo(v), "dx", s["bx"])
  <2> HIDE DEF d, v
  <2>1. Stored(SetTo(v), Bits["dword"], R(d), s["bx"]) = With(SetTo(v), d, s["bx"])
    BY <1>5, <1>7, <1>8, DwordReplaces
  <2> QED
    BY <2>1 DEF d
<1>10. CASE v = 1
  <2>1. Puts(Bits[w], Instruction.dst, Load(Bits[w], Instruction.src), flags)
    BY <1>2, <1>4, <1>6, <1>10
  <2>2. regs' = Stored(SetTo(v), Bits["dword"], R("dx"), s["bx"]) /\ flags' = flags /\ pc' = 4
    BY <1>2, <1>8, <2>1 DEF Puts, Passes
  <2> QED
    BY <1>9, <1>10, <2>2 DEF MovedIf
<1>11. CASE v # 1
  <2>1. Passes(regs, flags)
    BY <1>2, <1>4, <1>6, <1>11
  <2> QED
    BY <1>11, <2>1 DEF MovedIf, Passes
<1> QED
  BY <1>10, <1>11

\* the two moves of the idiom
LEMMA MovesLead ==
  ASSUME Running, Next, start.task = "compare", pc \in {5, 6}, NEW d \in Register, Instruction.dst = R(d),
         Instruction.op \in {"mov", "movzx"}, Instruction.w = "dword", Arg(Instruction.src)
  PROVE  /\ pc' = pc + 1 /\ flags' = flags
         /\ \E v : /\ Holder(v) /\ regs' = With(regs, d, v)
                   /\ Instruction.op = "mov" => v = Load(Bits["dword"], Instruction.src)
                   /\ Instruction.op = "movzx" => v = Load(8, Instruction.src)
<1> DEFINE w == "dword"
<1>1. Typed /\ Acts(Instruction.op) /\ w \in Widths /\ RegArg(Instruction.dst) /\ regs \in RegFile
  BY Reads DEF Widths, R, RegArg, Typed
<1>2. MoveInstruction
  BY <1>1 DEF Acts
<1> HIDE DEF w
<1>3. Instruction.w = w
  BY DEF w
<1>4. PICK v : MoveLeaves(Instruction.op, Bits[w], Instruction.src, v) /\ Puts(Bits[w], Instruction.dst, v, flags)
  BY <1>1, <1>2, <1>3, MoveDoes
<1>5. /\ v \in Number(Bits["dword"])
      /\ Instruction.op = "mov" => v = Load(Bits["dword"], Instruction.src)
      /\ Instruction.op = "movzx" => v = Load(8, Instruction.src)
  BY <1>4 DEF MoveLeaves, w
<1>6. regs' = Stored(regs, Bits["dword"], R(d), v) /\ flags' = flags /\ pc' = pc + 1
  BY <1>4 DEF Puts, Passes, w
<1>7. Holder(v)
  BY <1>5 DEF Holder
<1>8. regs' = With(regs, d, v)
  BY <1>1, <1>6, <1>7, DwordReplaces
<1> QED
  BY <1>5, <1>6, <1>7, <1>8

LEMMA MoveLeads ==
  ASSUME Running, Next, start.task = "compare", pc = 5, regs = MovedIf(Mark), Mark = 0
  PROVE  pc' = 6 /\ flags' = flags /\ regs' = Skipped(Mark)
<1> DEFINE d == "ecx"
           k == Bits["dword"]
           seven == 7
<1>1. Instruction = I("mov", "dword", R("ecx"), Imm(7))
  BY CompareWritten DEF Instruction
<1>2. Instruction.op = "mov" /\ Instruction.w = "dword" /\ Instruction.dst = R(d) /\ Instruction.src = Imm(7)
  BY <1>1 DEF I
<1>3. Arg(Imm(7)) /\ Load(k, Imm(7)) = Wrap(k, 7) /\ d \in Register
  BY Registers DEF Arg, Imm, Load
<1> HIDE DEF d
<1>4. PICK v : Holder(v) /\ regs' = With(regs, d, v) /\ v = Load(Bits["dword"], Instruction.src)
  BY <1>2, <1>3, MovesLead
<1>5. pc' = 6 /\ flags' = flags
  BY <1>2, <1>3, MovesLead
<1>6. k \in Nat /\ seven \in Number(k)
  BY WidthFacts, NarrowNumbers DEF Widths
<1> HIDE DEF k, seven
<1>7. Wrap(k, seven) = seven
  BY <1>6, WrapSmall
<1>8. v = 7
  BY <1>2, <1>3, <1>4, <1>7 DEF k, seven
<1> QED
  BY <1>4, <1>5, <1>8 DEF Skipped, d

LEMMA WidenLeads ==
  ASSUME Running, Next, start.task = "compare", pc = 6, regs = Skipped(Mark)
  PROVE  pc' = 7 /\ flags' = flags /\ regs' = Widened(Mark)
<1> DEFINE d == "esi"
           b == "bp"
           v == Mark
<1>1. Instruction = I("movzx", "dword", R("esi"), R("bp"))
  BY CompareWritten DEF Instruction
<1>2. Instruction.op = "movzx" /\ Instruction.w = "dword" /\ Instruction.dst = R(d) /\ Instruction.src = R("bp")
  BY <1>1 DEF I
<1>3. Arg(R("bp")) /\ Load(8, R("bp")) = Wrap(8, regs["bp"]) /\ d \in Register /\ v \in {0, 1}
  BY Registers, MarkIs DEF Arg, RegArg, R, Load
<1> HIDE DEF d
<1>4. PICK u : Holder(u) /\ regs' = With(regs, d, u) /\ u = Load(8, Instruction.src)
  BY <1>2, <1>3, MovesLead
<1>5. pc' = 7 /\ flags' = flags
  BY <1>2, <1>3, MovesLead
<1>6. Skipped(v)["bp"] % 256 = v
  BY <1>3, FilesAre
<1>7. u = v
  <2> DEFINE x == regs["bp"]
  <2>1. Wrap(8, x) = x % 256
    BY DEF Wrap
  <2>2. x % 256 = v
    BY <1>6
  <2> QED
    BY <1>2, <1>3, <1>4, <2>1, <2>2
<1> QED
  BY <1>4, <1>5, <1>7 DEF Widened, d

LEMMA ComparedInit ==
  ASSUME Init
  PROVE  Compared
<1>1. PICK task \in Tasks : \E w \in WidthsOf(task), cc \in ConditionsOf(task), m \in Memories(task) :
        \E file \in Inputs(task, w), f \in FlagsBefore :
          /\ start = [task |-> task, w |-> w, cc |-> cc, regs |-> file, flags |-> f, mem |-> m]
          /\ pc = 1
          /\ regs = file
  BY DEF Init
<1>2. pc = 1 /\ regs = s
  BY <1>1 DEF s
<1> QED
  BY <1>2 DEF Compared

LEMMA FilesStay ==
  ASSUME s' = s, Mark' = Mark
  PROVE  /\ SetTo(Mark)' = SetTo(Mark) /\ MovedIf(Mark)' = MovedIf(Mark)
         /\ Skipped(Mark)' = Skipped(Mark) /\ Widened(Mark)' = Widened(Mark)
BY ZenonT(40) DEF SetTo, MovedIf, Skipped, Widened

LEMMA ComparedStep ==
  ASSUME Running, Compared, Next
  PROVE  Compared'
<1>1. /\ start' = start /\ n' = n /\ s' = s /\ pc \in 1..Len(code) /\ Running
  BY Stepping
<1> SUFFICES ASSUME start.task = "compare"
             PROVE  Compared'
  BY <1>1 DEF Compared
<1>2. pc \in 1..6
  BY <1>1, CompareWritten
<1>3. CASE pc = 1
  <2>1. pc' = 2 /\ regs' = s /\ FlagsTell(n, s["ax"], s["bx"], flags')
    BY <1>3, CmpLeads DEF Compared
  <2> QED
    BY <1>1, <2>1 DEF Compared
<1>4. ASSUME pc # 1, flags' = flags
      PROVE  Mark' = Mark /\ FlagsTell(n', s'["ax"], s'["bx"], flags')
  <2>1. FlagsTell(n, s["ax"], s["bx"], flags)
    BY <1>2, <1>4 DEF Compared
  <2> QED
    BY <1>1, <1>4, <2>1, MarkStays
<1>5. ASSUME pc # 1, flags' = flags
      PROVE  /\ SetTo(Mark)' = SetTo(Mark) /\ MovedIf(Mark)' = MovedIf(Mark)
             /\ Skipped(Mark)' = Skipped(Mark) /\ Widened(Mark)' = Widened(Mark)
  BY <1>1, <1>4, <1>5, FilesStay
<1>6. CASE pc = 2
  <2>1. pc' = 3 /\ flags' = flags /\ regs' = SetTo(Mark)
    BY <1>6, SetLeads DEF Compared
  <2>2. /\ Mark' = Mark /\ FlagsTell(n', s'["ax"], s'["bx"], flags')
        /\ SetTo(Mark)' = SetTo(Mark) /\ MovedIf(Mark)' = MovedIf(Mark)
        /\ Skipped(Mark)' = Skipped(Mark) /\ Widened(Mark)' = Widened(Mark)
    BY <1>4, <1>5, <1>6, <2>1
  <2> QED
    BY <2>1, <2>2 DEF Compared
<1>7. CASE pc = 3
  <2>1. pc' = 4 /\ flags' = flags /\ regs' = MovedIf(Mark)
    BY <1>7, MoveIfLeads DEF Compared
  <2>2. /\ Mark' = Mark /\ FlagsTell(n', s'["ax"], s'["bx"], flags')
        /\ SetTo(Mark)' = SetTo(Mark) /\ MovedIf(Mark)' = MovedIf(Mark)
        /\ Skipped(Mark)' = Skipped(Mark) /\ Widened(Mark)' = Widened(Mark)
    BY <1>4, <1>5, <1>7, <2>1
  <2> QED
    BY <2>1, <2>2 DEF Compared
<1>8. CASE pc = 4
  <2>1. /\ pc' = (IF Mark = 1 THEN 6 ELSE 5) /\ flags' = flags
        /\ regs' = MovedIf(Mark)
    BY <1>8, JumpLeads DEF Compared
  <2>3. Mark \in {0, 1} /\ (Mark = 1 => Skipped(Mark) = MovedIf(Mark))
    BY MarkIs DEF Skipped
  <2>2. /\ Mark' = Mark /\ FlagsTell(n', s'["ax"], s'["bx"], flags')
        /\ SetTo(Mark)' = SetTo(Mark) /\ MovedIf(Mark)' = MovedIf(Mark)
        /\ Skipped(Mark)' = Skipped(Mark) /\ Widened(Mark)' = Widened(Mark)
    BY <1>4, <1>5, <1>8, <2>1
  <2> QED
    BY <2>1, <2>2, <2>3 DEF Compared
<1>9. CASE pc = 5
  <2>1. pc' = 6 /\ flags' = flags /\ regs' = Skipped(Mark)
    BY <1>9, MoveLeads DEF Compared
  <2>2. /\ Mark' = Mark /\ FlagsTell(n', s'["ax"], s'["bx"], flags')
        /\ SetTo(Mark)' = SetTo(Mark) /\ MovedIf(Mark)' = MovedIf(Mark)
        /\ Skipped(Mark)' = Skipped(Mark) /\ Widened(Mark)' = Widened(Mark)
    BY <1>4, <1>5, <1>9, <2>1
  <2> QED
    BY <2>1, <2>2 DEF Compared
<1>10. CASE pc = 6
  <2>1. pc' = 7 /\ flags' = flags /\ regs' = Widened(Mark)
    BY <1>10, WidenLeads DEF Compared
  <2>2. /\ Mark' = Mark /\ FlagsTell(n', s'["ax"], s'["bx"], flags')
        /\ SetTo(Mark)' = SetTo(Mark) /\ MovedIf(Mark)' = MovedIf(Mark)
        /\ Skipped(Mark)' = Skipped(Mark) /\ Widened(Mark)' = Widened(Mark)
    BY <1>4, <1>5, <1>10, <2>1
  <2> QED
    BY <2>1, <2>2 DEF Compared
<1> QED
  BY <1>2, <1>3, <1>6, <1>7, <1>8, <1>9, <1>10

LEMMA ComparedAlways == Spec => []Compared
<1>1. Init => Compared
  BY ComparedInit
<1>2. Running /\ Compared /\ [Next]_vars => Compared'
  <2> SUFFICES ASSUME Compared, UNCHANGED vars PROVE Compared'
    BY ComparedStep
  <2>1. start' = start /\ pc' = pc /\ regs' = regs /\ flags' = flags /\ n' = n /\ s' = s
    BY DEF vars, machine, n, s
  <2>2. Mark' = Mark
    BY <2>1, MarkStays
  <2>3. /\ SetTo(Mark)' = SetTo(Mark) /\ MovedIf(Mark)' = MovedIf(Mark)
        /\ Skipped(Mark)' = Skipped(Mark) /\ Widened(Mark)' = Widened(Mark)
    BY <2>1, <2>2, FilesStay
  <2> QED
    BY <2>1, <2>2, <2>3 DEF Compared
<1> QED
  BY <1>1, <1>2, RunningAlways, PTL DEF Spec

\* After a comparison of two numbers of any width, a jump, a conditional move and a
\* conditional set of each of the sixteen conditions agree with each other and with
\* the signed or unsigned order of the numbers, and the set writes one byte of its
\* register only (FEProcess.m, jcc, cmovcc, setcc).
THEOREM ComparisonsAgreeHolds == Spec => []ComparisonsAgree
<1>1. ASSUME Running, Compared PROVE ComparisonsAgree
  <2> SUFFICES ASSUME Done, start.task = "compare"
               PROVE  LET holds == Related(start.cc, s["ax"], s["bx"]) IN
                      /\ regs["esi"] = Bit(holds)
                      /\ regs["bp"] = s["bp"] - (s["bp"] % 256) + Bit(holds)
                      /\ regs["dx"] = IF holds THEN s["bx"] ELSE s["dx"]
                      /\ regs["ecx"] = IF holds THEN 0 ELSE 7
                      /\ regs["ax"] = s["ax"] /\ regs["bx"] = s["bx"]
    BY DEF ComparisonsAgree
  <2> DEFINE cc == start.cc
             a == s["ax"]
             b == s["bx"]
             v == Mark
             holds == Related(cc, a, b)
  <2>1. pc = 7 /\ cc \in Condition
    <3>1. Len(code) = 6 /\ cc \in Condition
      BY <1>1, CompareWritten
    <3>2. pc \in 1..(Len(code) + 1) /\ pc > Len(code)
      BY <1>1, Zenon DEF Running, Done
    <3> QED
      BY <3>1, <3>2
  <2>2. FlagsTell(n, a, b, flags) /\ regs = Widened(v)
    BY <1>1, <2>1 DEF Compared
  <2>3. a \in Number(n) /\ b \in Number(n) /\ n \in Nat /\ n > 0
    BY <1>1, BeganIs DEF Halves, Narrow
  <2>4. Holds(cc, flags) <=> holds
    <3> HIDE DEF cc, a, b
    <3> QED
      BY <2>1, <2>2, <2>3, ConditionHolds
  <2>5. v \in {0, 1} /\ (v = 1 <=> holds) /\ v = Bit(holds)
    BY <2>4, MarkIs DEF Bit
  <2> HIDE DEF v, holds
  <2>6. /\ Widened(v)["ax"] = s["ax"] /\ Widened(v)["bx"] = s["bx"]
        /\ Widened(v)["bp"] = (s["bp"] - (s["bp"] % 256)) + v
        /\ Widened(v)["dx"] = (IF v = 1 THEN s["bx"] ELSE s["dx"])
        /\ Widened(v)["ecx"] = (IF v = 1 THEN 0 ELSE 7)
        /\ Widened(v)["esi"] = v
    BY <1>1, <2>5, FilesAre
  <2>7. /\ regs["esi"] = Bit(holds)
        /\ regs["bp"] = s["bp"] - (s["bp"] % 256) + Bit(holds)
        /\ regs["dx"] = IF holds THEN s["bx"] ELSE s["dx"]
        /\ regs["ecx"] = IF holds THEN 0 ELSE 7
        /\ regs["ax"] = s["ax"] /\ regs["bx"] = s["bx"]
    BY <2>2, <2>5, <2>6
  <2> QED
    BY <2>7 DEF holds
<1> QED
  BY <1>1, RunningAlways, ComparedAlways, PTL
================================================================================
