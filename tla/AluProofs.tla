------------------------------- MODULE AluProofs -------------------------------
(***************************************************************************)
(* The arithmetic and logic unit against its arithmetic meaning, for every    *)
(* width: what a sum, a difference, a shift, a product, a quotient and a       *)
(* decimal adjustment leave in the result and in the flags.                   *)
(***************************************************************************)
EXTENDS Alu, FiniteSetTheorems, WellFoundedInduction, TLAPS

--------------------------------------------------------------------------------
(* Powers of two *)

\* A non-empty set of natural numbers has a least one.
LEMMA LeastNumber ==
  ASSUME NEW T, T \subseteq Nat, T # {}
  PROVE  \E x \in T : \A y \in T : x <= y
<1> DEFINE Below == OpToRel(<, Nat)
<1>1. IsWellFoundedOn(Below, Nat)
  BY NatLessThanWellFounded
<1>2. \A x, y \in Nat : x < y => <<x, y>> \in Below
  BY DEF OpToRel
<1> HIDE DEF Below
<1>3. PICK x \in T : \A y \in T : ~ (<<y, x>> \in Below)
  BY <1>1, WFMin
<1>4. ASSUME NEW y \in T PROVE x <= y
  <2>1. x \in Nat /\ y \in Nat
    OBVIOUS
  <2>2. ~ (y < x)
    BY <1>2, <1>3, <2>1
  <2> QED
    BY <2>1, <2>2
<1> QED
  BY <1>4

\* A set with 0 and with the successor of each natural number it has holds them all.
LEMMA Induction ==
  ASSUME NEW T, 0 \in T, \A j \in Nat : j \in T => j + 1 \in T
  PROVE  Nat \subseteq T
<1> DEFINE U == Nat \ T
<1> SUFFICES ASSUME U # {} PROVE FALSE
  OBVIOUS
<1>1. PICK x \in U : \A y \in U : x <= y
  BY LeastNumber
<1>2. x \in Nat /\ x # 0 /\ x \notin T
  BY <1>1
<1>3. x - 1 \in Nat /\ x - 1 \notin U
  BY <1>1, <1>2
<1>4. (x - 1) + 1 \in T
  BY <1>3
<1> QED
  BY <1>2, <1>3, <1>4

LEMMA PowerType ==
  ASSUME NEW k \in Nat
  PROVE  2^k \in Nat /\ 2^k > 0
<1>1. IsFiniteSet(1..k) /\ Cardinality(1..k) = k
  BY FS_Interval
<1>2. IsFiniteSet(SUBSET (1..k)) /\ Cardinality(SUBSET (1..k)) = 2^k
  BY <1>1, FS_SUBSET
<1>3. Cardinality(SUBSET (1..k)) # 0
  BY <1>2, FS_EmptySet
<1> QED
  BY <1>2, <1>3, FS_CardinalityType

\* One more bit, twice the numbers: a set with one more element has for each of
\* the subsets another one with that element.
LEMMA PowerNext ==
  ASSUME NEW k \in Nat
  PROVE  2^(k + 1) = 2 * 2^k
<1> DEFINE A == SUBSET (1..k)
           B == {x \in SUBSET (1..(k + 1)) : k + 1 \in x}
           f == [x \in A |-> x \cup {k + 1}]
<1>1. IsFiniteSet(1..k) /\ Cardinality(1..k) = k /\ IsFiniteSet(1..(k + 1)) /\ Cardinality(1..(k + 1)) = k + 1
  BY FS_Interval
<1>2. IsFiniteSet(A) /\ Cardinality(A) = 2^k
  BY <1>1, FS_SUBSET
<1>3. Cardinality(SUBSET (1..(k + 1))) = 2^(k + 1)
  BY <1>1, FS_SUBSET
<1>4. f \in Bijection(A, B)
  <2>1. \A x \in A : x \cup {k + 1} \in B
    OBVIOUS
  <2>2. \A x, y \in A : x \cup {k + 1} = y \cup {k + 1} => x = y
    OBVIOUS
  <2>3. \A y \in B : \E x \in A : x \cup {k + 1} = y
    <3> TAKE y \in B
    <3>1. y \ {k + 1} \in A /\ (y \ {k + 1}) \cup {k + 1} = y
      OBVIOUS
    <3> QED
      BY <3>1
  <2>4. /\ f \in [A -> B] /\ \A x, y \in A : f[x] = f[y] => x = y
        /\ \A y \in B : \E x \in A : f[x] = y
    BY <2>1, <2>2, <2>3
  <2> HIDE DEF A, B, f
  <2> QED
    BY <2>4 DEF Bijection, Injection, Surjection, IsInjective
<1>5. IsFiniteSet(B) /\ Cardinality(B) = 2^k
  BY <1>2, <1>4, FS_Bijection DEF ExistsBijection
<1>6. A \cup B = SUBSET (1..(k + 1)) /\ A \cap B = {}
  OBVIOUS
<1> HIDE DEF A, B, f
<1>7. Cardinality(A \cup B) = Cardinality(A) + Cardinality(B) - Cardinality({})
  BY <1>2, <1>5, <1>6, FS_Union
<1>8. Cardinality({}) = 0
  BY FS_EmptySet
<1> DEFINE p == 2^k
           q == 2^(k + 1)
<1>9. p \in Int /\ Cardinality(A) = p /\ Cardinality(B) = p /\ Cardinality(A \cup B) = q
  <2>1. p \in Int
    BY PowerType
  <2>2. Cardinality(A \cup B) = q
    BY <1>3, <1>6, Zenon
  <2> QED
    BY <1>2, <1>5, <2>1, <2>2, Zenon
<1> HIDE DEF p, q
<1>10. q = 2 * p
  BY <1>7, <1>8, <1>9
<1> QED
  BY <1>10 DEF p, q

LEMMA PowerSum ==
  ASSUME NEW j \in Nat, NEW k \in Nat
  PROVE  2^(j + k) = 2^j * 2^k
<1> DEFINE T == {i \in Nat : 2^(j + i) = 2^j * 2^i}
<1>1. 0 \in T
  BY PowerType
<1>2. \A i \in Nat : i \in T => i + 1 \in T
  <2> SUFFICES ASSUME NEW i \in Nat, i \in T PROVE 2^(j + (i + 1)) = 2^j * 2^(i + 1)
    OBVIOUS
  <2>1. 2^(i + 1) = 2 * 2^i /\ 2^((j + i) + 1) = 2 * 2^(j + i) /\ j + (i + 1) = (j + i) + 1
    BY PowerNext
  <2>2. 2^j \in Nat /\ 2^i \in Nat /\ 2^(j + i) = 2^j * 2^i
    BY PowerType
  <2> QED
    BY <2>1, <2>2
<1> HIDE DEF T
<1>3. k \in T
  BY <1>1, <1>2, Induction
<1> QED
  BY <1>3 DEF T

LEMMA PowerOrder ==
  ASSUME NEW j \in Nat, NEW k \in Nat, j <= k
  PROVE  2^j <= 2^k /\ 2^k = 2^j * 2^(k - j) /\ 2^(k - j) \in Nat /\ 2^(k - j) > 0
<1>1. k - j \in Nat /\ j + (k - j) = k
  OBVIOUS
<1>2. 2^k = 2^j * 2^(k - j)
  BY <1>1, PowerSum
<1>3. 2^j \in Nat /\ 2^j > 0 /\ 2^(k - j) \in Nat /\ 2^(k - j) > 0
  BY <1>1, PowerType
<1> QED
  BY <1>2, <1>3

\* An odd number of bits: the highest counts half of what the number can be.
LEMMA PowerHalf ==
  ASSUME NEW k \in Nat, k > 0
  PROVE  2^k = 2 * 2^(k - 1) /\ 2^(k - 1) \in Nat /\ 2^(k - 1) > 0
BY PowerNext, PowerType, k - 1 \in Nat, (k - 1) + 1 = k

--------------------------------------------------------------------------------
(* Numbers of k bits *)

Number(k) == 0..(2^k - 1)

LEMMA DivMod ==
  ASSUME NEW v \in Int, NEW p \in Int, p > 0
  PROVE  v = p * (v \div p) + (v % p) /\ v \div p \in Int /\ v % p \in 0..(p - 1)
OBVIOUS

LEMMA DivModUnique ==
  ASSUME NEW p \in Int, NEW q \in Int, NEW r \in 0..(p - 1)
  PROVE  (q * p + r) % p = r /\ (q * p + r) \div p = q
OBVIOUS

LEMMA WrapType ==
  ASSUME NEW k \in Nat, NEW v \in Int
  PROVE  Wrap(k, v) \in Number(k)
<1> DEFINE p == 2^k
<1>1. p \in Int /\ p > 0
  BY PowerType
<1> HIDE DEF p
<1>2. v % p \in 0..(p - 1)
  BY <1>1, DivMod
<1> QED
  BY <1>2 DEF Wrap, Number, p

LEMMA WrapIs ==
  ASSUME NEW k \in Nat, NEW q \in Int, NEW v \in Number(k)
  PROVE  Wrap(k, q * 2^k + v) = v
<1> DEFINE p == 2^k
<1>1. p \in Int /\ v \in 0..(p - 1)
  BY PowerType DEF Number
<1> HIDE DEF p
<1>2. (q * p + v) % p = v
  BY <1>1, DivModUnique
<1> QED
  BY <1>2 DEF Wrap, p

LEMMA WrapSmall ==
  ASSUME NEW k \in Nat, NEW v \in Number(k)
  PROVE  Wrap(k, v) = v
<1> DEFINE p == 2^k
<1>1. p \in Int /\ v \in 0..(p - 1)
  BY PowerType DEF Number
<1> HIDE DEF p
<1>2. v % p = v
  BY <1>1
<1> QED
  BY <1>2 DEF Wrap, p

LEMMA BitType ==
  ASSUME NEW i \in Nat, NEW v \in Int
  PROVE  BitAt(v, i) \in {0, 1}
<1>1. v \div 2^i \in Int
  BY PowerType, DivMod
<1>2. (v \div 2^i) % 2 \in 0..1
  BY <1>1, DivMod
<1> QED
  BY <1>2 DEF BitAt

LEMMA TopBitIs ==
  ASSUME NEW k \in Nat, k > 0, NEW v \in Number(k)
  PROVE  TopBit(k, v) = Bit(v >= 2^(k - 1))
<1> DEFINE h == 2^(k - 1)
<1>1. 2^k = 2 * h /\ h \in Int /\ h > 0
  BY PowerHalf
<1>2. v \in 0..(2 * h - 1)
  BY <1>1 DEF Number
<1> HIDE DEF h
<1>3. CASE v >= h
  <2>1. v = 1 * h + (v - h) /\ v - h \in 0..(h - 1)
    BY <1>1, <1>2, <1>3
  <2>2. (1 * h + (v - h)) \div h = 1
    <3>1. h \in Int /\ 1 \in Int /\ v - h \in 0..(h - 1)
      BY <1>1, <2>1
    <3> QED
      BY <3>1, DivModUnique, Zenon
  <2>3. v \div h = 1
    BY <2>1, <2>2
  <2> QED
    BY <1>3, <2>3 DEF TopBit, BitAt, Bit, h
<1>4. CASE ~ (v >= h)
  <2>1. v \div h = 0
    BY <1>1, <1>2, <1>4
  <2> QED
    BY <1>4, <2>1 DEF TopBit, BitAt, Bit, h
<1> QED
  BY <1>3, <1>4

\* A number and the signed number of the same bits.
SignedTo(k, v, x) ==
  /\ x \in Int /\ -2^(k - 1) <= x /\ x < 2^(k - 1)
  /\ x = IF v >= 2^(k - 1) THEN v - 2^k ELSE v

LEMMA SignedIs ==
  ASSUME NEW k \in Nat, k > 0, NEW v \in Number(k)
  PROVE  SignedTo(k, v, Signed(k, v))
<1> DEFINE h == 2^(k - 1)
           p == 2^k
<1>1. p = 2 * h /\ h \in Int /\ h > 0 /\ v \in 0..(p - 1) /\ TopBit(k, v) = Bit(v >= h)
  BY PowerHalf, TopBitIs DEF Number
<1>2. Signed(k, v) = v - TopBit(k, v) * p
  BY DEF Signed
<1>3. SignedTo(k, v, Signed(k, v)) <=>
        /\ Signed(k, v) \in Int /\ -h <= Signed(k, v) /\ Signed(k, v) < h
        /\ Signed(k, v) = IF v >= h THEN v - p ELSE v
  BY DEF SignedTo
<1> HIDE DEF h, p
<1> QED
  BY <1>1, <1>2, <1>3 DEF Bit

LEMMA WrapSigned ==
  ASSUME NEW k \in Nat, k > 0, NEW v \in Number(k)
  PROVE  Wrap(k, Signed(k, v)) = v
<1> DEFINE p == 2^k
<1>1. p \in Int /\ v \in 0..(p - 1)
  BY PowerType DEF Number
<1>2. Signed(k, v) = v \/ Signed(k, v) = v - p
  BY SignedIs DEF SignedTo
<1> HIDE DEF p
<1>3. Signed(k, v) = 0 * p + v \/ Signed(k, v) = (-1) * p + v
  BY <1>1, <1>2
<1>4. \A q \in Int : Wrap(k, q * p + v) = v
  BY WrapIs DEF p
<1> QED
  BY <1>3, <1>4

LEMMA SignedWrap ==
  ASSUME NEW k \in Nat, k > 0, NEW x \in Int, -2^(k - 1) <= x, x < 2^(k - 1)
  PROVE  Signed(k, Wrap(k, x)) = x
<1> DEFINE h == 2^(k - 1)
           p == 2^k
           v == Wrap(k, x)
<1>1. p = 2 * h /\ h \in Int /\ h > 0 /\ -h <= x /\ x < h
  BY PowerHalf
<1>2. v \in Number(k)
  BY WrapType
<1>3. v = IF x < 0 THEN x + p ELSE x
  <2>1. CASE x < 0
    <3>1. x = (-1) * p + (x + p) /\ x + p \in 0..(p - 1)
      BY <1>1, <2>1
    <3>2. x + p \in Number(k)
      BY <3>1 DEF Number
    <3> HIDE DEF p
    <3>3. Wrap(k, (-1) * 2^k + (x + p)) = x + p
      BY <3>2, WrapIs
    <3> QED
      BY <2>1, <3>1, <3>3 DEF p
  <2>2. CASE ~ (x < 0)
    BY <1>1, <2>2, WrapSmall DEF Number
  <2> QED
    BY <2>1, <2>2
<1>4. Signed(k, v) = IF v >= h THEN v - p ELSE v
  BY <1>2, SignedIs DEF SignedTo
<1> HIDE DEF h, p, v
<1>5. Signed(k, v) = x
  BY <1>1, <1>3, <1>4
<1> QED
  BY <1>5 DEF v

--------------------------------------------------------------------------------
(* Bits *)

\* A number added at a higher place leaves the lower bits as they are.
LEMMA LowerBits ==
  ASSUME NEW k \in Nat, NEW i \in Nat, i < k, NEW q \in Int, NEW v \in Int
  PROVE  BitAt(q * 2^k + v, i) = BitAt(v, i)
<1> DEFINE a == 2^i
           m == 2^(k - i - 1)
<1>1. k - i - 1 \in Nat /\ (k - i - 1) + 1 = k - i /\ i + (k - i) = k /\ k - i \in Nat
  OBVIOUS
<1>2. a \in Int /\ a > 0 /\ m \in Int
  BY <1>1, PowerType
<1>3. 2^(k - i) = 2 * m
  BY <1>1, PowerNext
<1>4. 2^k = a * (2 * m)
  BY <1>1, <1>3, PowerSum
<1>5. PICK c \in Int, r \in 0..(a - 1) : v = c * a + r
  <2>1. v = a * (v \div a) + (v % a) /\ v \div a \in Int /\ v % a \in 0..(a - 1)
    BY <1>2, DivMod
  <2> DEFINE c == v \div a
             r == v % a
  <2>2. v = a * c + r /\ c \in Int /\ r \in 0..(a - 1)
    BY <2>1
  <2> HIDE DEF c, r, a
  <2>3. v = c * a + r
    BY <1>2, <2>2
  <2> QED
    BY <2>2, <2>3
<1> HIDE DEF a, m
<1>6. v \div a = c
  BY <1>2, <1>5, DivModUnique
<1>7. q * 2^k + v = (2 * (q * m) + c) * a + r
  BY <1>2, <1>4, <1>5
<1>8. 2 * (q * m) + c \in Int
  BY <1>2
<1>9. (q * 2^k + v) \div a = 2 * (q * m) + c
  BY <1>2, <1>5, <1>7, <1>8, DivModUnique
<1> DEFINE e == q * m
<1>10. e \in Int
  BY <1>2
<1> HIDE DEF e
<1>11. (2 * e + c) % 2 = c % 2
  BY <1>10
<1> QED
  BY <1>6, <1>9, <1>11 DEF BitAt, a, e

\* What the walk over the digits has made of the first i of them.
BitDigits(k) == [0..(k - 1) -> {0, 1}]
Walk(k, digits, f) ==
  /\ f \in [0..k -> Int] /\ f[0] = 0
  /\ \A i \in 0..(k - 1) : f[i + 1] = f[i] + digits[i] * 2^i

LEMMA WalkExists ==
  ASSUME NEW k \in Nat, NEW digits \in BitDigits(k)
  PROVE  \E f : Walk(k, digits, f)
<1> DEFINE T == {j \in Nat : j <= k => \E f : Walk(j, digits, f)}
<1>1. 0 \in T
  <2>1. Walk(0, digits, [i \in 0..0 |-> 0])
    BY DEF Walk
  <2> QED
    BY <2>1
<1>2. \A j \in Nat : j \in T => j + 1 \in T
  <2> SUFFICES ASSUME NEW j \in Nat, j \in T, j + 1 <= k PROVE \E f : Walk(j + 1, digits, f)
    OBVIOUS
  <2>1. PICK f : Walk(j, digits, f)
    OBVIOUS
  <2> DEFINE g == [i \in 0..(j + 1) |-> IF i = j + 1 THEN f[j] + digits[j] * 2^j ELSE f[i]]
  <2>2. digits[j] \in Int /\ 2^j \in Int /\ f[j] \in Int
    BY <2>1, PowerType DEF Walk, BitDigits
  <2>3. f[j] + digits[j] * 2^j \in Int
    BY <2>2
  <2>4. g \in [0..(j + 1) -> Int] /\ g[0] = 0
    BY <2>1, <2>3 DEF Walk
  <2>5. ASSUME NEW i \in 0..j PROVE g[i + 1] = g[i] + digits[i] * 2^i
    <3>1. CASE i = j
      BY <3>1
    <3>2. CASE i # j
      <4>1. i \in 0..(j - 1) /\ i + 1 # j + 1 /\ i # j + 1 /\ i + 1 \in 0..(j + 1) /\ i \in 0..(j + 1)
        BY <3>2
      <4>2. f[i + 1] = f[i] + digits[i] * 2^i
        BY <2>1, <4>1 DEF Walk
      <4> QED
        BY <4>1, <4>2
    <3> QED
      BY <3>1, <3>2
  <2> HIDE DEF g
  <2>6. Walk(j + 1, digits, g)
    BY <2>4, <2>5, (j + 1) - 1 = j DEF Walk
  <2> QED
    BY <2>6
<1> HIDE DEF T
<1>3. k \in T
  BY <1>1, <1>2, Induction
<1> QED
  BY <1>3 DEF T

LEMMA FromBitsWalks ==
  ASSUME NEW k \in Nat, NEW digits \in BitDigits(k)
  PROVE  \E f : Walk(k, digits, f) /\ FromBits(k, digits) = f[k]
<1> DEFINE Rec(f) == f = [i \in 0..k |-> IF i = 0 THEN 0 ELSE f[i - 1] + digits[i - 1] * 2^(i - 1)]
           u == CHOOSE f : Rec(f)
<1>1. PICK g : Walk(k, digits, g)
  BY WalkExists
<1>2. Rec(g)
  <2>1. ASSUME NEW i \in 0..k, i # 0 PROVE g[i] = g[i - 1] + digits[i - 1] * 2^(i - 1)
    <3>1. i - 1 \in 0..(k - 1) /\ (i - 1) + 1 = i
      BY <2>1
    <3> QED
      BY <1>1, <3>1 DEF Walk
  <2>2. g \in [0..k -> Int] /\ g[0] = 0
    BY <1>1 DEF Walk
  <2> QED
    BY <2>1, <2>2
<1>3. Rec(u)
  BY <1>2
<1>4. FromBits(k, digits) = u[k]
  BY DEF FromBits
<1> HIDE DEF u
<1>5. u[0] = 0 /\ DOMAIN u = 0..k
  BY <1>3
<1>6. \A i \in 0..(k - 1) : u[i + 1] = u[i] + digits[i] * 2^i
  <2> TAKE i \in 0..(k - 1)
  <2>1. i + 1 \in 0..k /\ i + 1 # 0 /\ (i + 1) - 1 = i
    OBVIOUS
  <2> QED
    BY <1>3, <2>1
<1>7. \A j \in Nat : j <= k => u[j] \in Int
  <2> DEFINE T == {j \in Nat : j <= k => u[j] \in Int}
  <2>1. 0 \in T
    BY <1>5
  <2>2. \A j \in Nat : j \in T => j + 1 \in T
    <3> SUFFICES ASSUME NEW j \in Nat, j \in T, j + 1 <= k PROVE u[j + 1] \in Int
      OBVIOUS
    <3>1. j \in 0..(k - 1) /\ u[j] \in Int
      OBVIOUS
    <3>2. digits[j] \in Int /\ 2^j \in Int
      BY <3>1, PowerType DEF BitDigits
    <3>3. u[j] + digits[j] * 2^j \in Int
      BY <3>1, <3>2
    <3> QED
      BY <1>6, <3>1, <3>3
  <2> HIDE DEF T
  <2>3. Nat \subseteq T
    BY <2>1, <2>2, Induction
  <2> QED
    BY <2>3 DEF T
<1>8. u \in [0..k -> Int]
  BY <1>3, <1>5, <1>7
<1>9. Walk(k, digits, u)
  BY <1>5, <1>6, <1>8 DEF Walk
<1> QED
  BY <1>4, <1>9

\* Walking over digits makes a number of as many bits, and those bits are the digits.
LEMMA WalkedBits ==
  ASSUME NEW k \in Nat, NEW digits \in BitDigits(k), NEW f, Walk(k, digits, f)
  PROVE  \A j \in 0..k : f[j] \in Number(j) /\ \A i \in 0..(j - 1) : BitAt(f[j], i) = digits[i]
<1> DEFINE Good(j) == f[j] \in Number(j) /\ \A i \in 0..(j - 1) : BitAt(f[j], i) = digits[i]
           T == {j \in Nat : j <= k => Good(j)}
<1>1. 0 \in T
  BY PowerType DEF Walk, Number
<1>2. \A j \in Nat : j \in T => j + 1 \in T
  <2> SUFFICES ASSUME NEW j \in Nat, j \in T, j + 1 <= k PROVE Good(j + 1)
    OBVIOUS
  <2> DEFINE p == 2^j
             d == digits[j]
             v == f[j]
  <2>1. j \in 0..(k - 1) /\ Good(j)
    OBVIOUS
  <2>2. f[j + 1] = v + d * p /\ d \in {0, 1}
    BY <2>1 DEF Walk, BitDigits
  <2>3. p \in Int /\ p > 0 /\ 2^(j + 1) = 2 * p /\ v \in 0..(p - 1)
    BY <2>1, PowerType, PowerNext DEF Number
  <2>4. f[j + 1] \in 0..(2 * p - 1)
    <3> HIDE DEF p, d, v
    <3> QED
      BY <2>2, <2>3
  <2>5. f[j + 1] \in Number(j + 1)
    BY <2>3, <2>4 DEF Number
  <2>6. ASSUME NEW i \in 0..j PROVE BitAt(f[j + 1], i) = digits[i]
    <3>0. f[j + 1] = d * p + v /\ d \in Int /\ v \in Int
      <4> HIDE DEF p, d, v
      <4> QED
        BY <2>2, <2>3
    <3>1. CASE i = j
      <4> HIDE DEF d, v
      <4>1. f[j + 1] \div 2^i = d
        BY <2>3, <3>0, <3>1, DivModUnique
      <4> QED
        BY <2>2, <3>1, <4>1 DEF BitAt, d
    <3>2. CASE i # j
      <4>1. i \in Nat /\ i < j /\ i \in 0..(j - 1)
        BY <3>2
      <4> HIDE DEF d, v
      <4>2. BitAt(d * 2^j + v, i) = BitAt(v, i)
        BY <3>0, <4>1, LowerBits
      <4> QED
        BY <2>1, <3>0, <4>1, <4>2 DEF v
    <3> QED
      BY <3>1, <3>2
  <2> QED
    BY <2>5, <2>6, (j + 1) - 1 = j
<1> HIDE DEF T
<1>3. Nat \subseteq T
  BY <1>1, <1>2, Induction
<1> QED
  BY <1>3 DEF T

LEMMA FromBitsType ==
  ASSUME NEW k \in Nat, NEW digits \in BitDigits(k)
  PROVE  FromBits(k, digits) \in Number(k)
<1>1. PICK f : Walk(k, digits, f) /\ FromBits(k, digits) = f[k]
  BY FromBitsWalks
<1> QED
  BY <1>1, WalkedBits

\* the bits of v below bit k
HasBits(v, k, digits) == \A i \in 0..(k - 1) : BitAt(v, i) = digits[i]

LEMMA FromBitsBits ==
  ASSUME NEW k \in Nat, NEW digits \in BitDigits(k)
  PROVE  HasBits(FromBits(k, digits), k, digits)
<1>1. PICK f : Walk(k, digits, f) /\ FromBits(k, digits) = f[k]
  BY FromBitsWalks
<1> QED
  BY <1>1, WalkedBits DEF HasBits

\* Two numbers of k bits with the same bits are the same.
LEMMA BitsDetermine ==
  ASSUME NEW k \in Nat, NEW x \in Number(k), NEW y \in Number(k),
         \A i \in 0..(k - 1) : BitAt(x, i) = BitAt(y, i)
  PROVE  x = y
<1> DEFINE Same(j, a, b) == \A i \in 0..(j - 1) : BitAt(a, i) = BitAt(b, i)
           T == {j \in Nat : \A a, b \in Number(j) : Same(j, a, b) => a = b}
<1>1. 0 \in T
  BY PowerType DEF Number
<1>2. \A j \in Nat : j \in T => j + 1 \in T
  <2> SUFFICES ASSUME NEW j \in Nat, j \in T, NEW a \in Number(j + 1), NEW b \in Number(j + 1),
                      Same(j + 1, a, b)
               PROVE  a = b
    OBVIOUS
  <2> DEFINE p == 2^j
             c == a \div p
             r == a % p
             d == b \div p
             q == b % p
  <2>1. p \in Int /\ p > 0 /\ a \in 0..(2 * p - 1) /\ b \in 0..(2 * p - 1)
    BY PowerType, PowerNext DEF Number
  <2>2. /\ a = p * c + r /\ c \in Int /\ r \in 0..(p - 1)
        /\ b = p * d + q /\ d \in Int /\ q \in 0..(p - 1)
    <3> HIDE DEF p
    <3> QED
      BY <2>1, DivMod
  <2>3. BitAt(a, j) = c % 2 /\ BitAt(b, j) = d % 2
    BY DEF BitAt
  <2> HIDE DEF c, d, r, q, p
  <2>4. c \in 0..1 /\ d \in 0..1
    <3>1. p * c >= 0 - p + 1 /\ p * c <= 2 * p - 1 /\ p * d >= 0 - p + 1 /\ p * d <= 2 * p - 1
      BY <2>1, <2>2
    <3>2. c > -1 /\ c < 2 /\ d > -1 /\ d < 2
      BY <2>1, <2>2, <3>1
    <3> QED
      BY <2>2, <3>2
  <2>5. j \in 0..((j + 1) - 1) /\ (j + 1) - 1 = j
    OBVIOUS
  <2>6. c = d
    BY <2>3, <2>4, <2>5
  <2>7. r \in Number(j) /\ q \in Number(j)
    BY <2>2 DEF Number, p
  <2>8. a = c * 2^j + r /\ b = d * 2^j + q
    BY <2>1, <2>2 DEF p
  <2>9. Same(j, r, q)
    <3> SUFFICES ASSUME NEW i \in 0..(j - 1) PROVE BitAt(r, i) = BitAt(q, i)
      OBVIOUS
    <3>1. i \in Nat /\ i < j /\ i \in 0..((j + 1) - 1)
      OBVIOUS
    <3>2. \A e, v \in Int : BitAt(e * 2^j + v, i) = BitAt(v, i)
      BY <3>1, LowerBits
    <3>3. BitAt(a, i) = BitAt(b, i)
      BY <3>1
    <3>4. c \in Int /\ d \in Int /\ r \in Int /\ q \in Int
      BY <2>2
    <3>5. BitAt(c * 2^j + r, i) = BitAt(r, i) /\ BitAt(d * 2^j + q, i) = BitAt(q, i)
      BY <3>2, <3>4, Zenon
    <3> QED
      BY <2>8, <3>3, <3>5, Zenon
  <2>10. r = q
    BY <2>7, <2>9
  <2> QED
    BY <2>2, <2>6, <2>10
<1> HIDE DEF T
<1>3. k \in T
  BY <1>1, <1>2, Induction
<1> QED
  BY <1>3 DEF T

--------------------------------------------------------------------------------
(* Flags and results *)

FlagFile == [Flag -> {0, 1}]
Results(k) == [value : Number(k), flags : FlagFile]

LEMMA BitIs ==
  ASSUME NEW condition
  PROVE  Bit(condition) \in {0, 1} /\ (Bit(condition) = 1 <=> condition) /\ (Bit(condition) = 0 <=> ~ condition)
BY DEF Bit

\* g is f with the flags that tell of the result v
TellsOf(k, v, f, g) ==
  /\ g \in FlagFile
  /\ g.ZF = Bit(v = 0) /\ g.SF = TopBit(k, v) /\ g.PF = FillParityFromByte(Wrap(8, v))
  /\ g.CF = f.CF /\ g.AF = f.AF /\ g.OF = f.OF /\ g.DF = f.DF

LEMMA ByResultTells ==
  ASSUME NEW k \in Nat, k > 0, NEW v \in Int, NEW f \in FlagFile
  PROVE  TellsOf(k, v, f, ByResult(k, v, f))
<1> DEFINE sf == TopBit(k, v)
           pf == FillParityFromByte(Wrap(8, v))
           zf == Bit(v = 0)
<1>1. sf \in {0, 1}
  BY BitType, k - 1 \in Nat DEF TopBit
<1>2. pf \in {0, 1} /\ zf \in {0, 1}
  BY DEF FillParityFromByte, Bit
<1>3. ByResult(k, v, f) = [[f EXCEPT !.SF = sf, !.PF = pf] EXCEPT !.ZF = zf]
  BY DEF ByResult, SignAndParity
<1> HIDE DEF sf, pf, zf
<1> DEFINE g == [[f EXCEPT !.SF = sf, !.PF = pf] EXCEPT !.ZF = zf]
<1>4. g \in FlagFile /\ g.ZF = zf /\ g.SF = sf /\ g.PF = pf
      /\ g.CF = f.CF /\ g.AF = f.AF /\ g.OF = f.OF /\ g.DF = f.DF
  BY <1>1, <1>2 DEF FlagFile, Flag
<1> HIDE DEF g
<1>5. TellsOf(k, v, f, g)
  BY <1>4 DEF TellsOf, sf, pf, zf
<1> QED
  BY <1>3, <1>5 DEF g

\* What Sum and Difference leave: the carry makes up for what was wrapped, and
\* the overflow says whether the signed result is the signed sum.
SumLeaves(k, a, b, carry, f, r) ==
  /\ r \in Results(k)
  /\ r.value = a + b + carry - r.flags.CF * 2^k
  /\ r.flags.CF = Bit(a + b + carry >= 2^k)
  /\ r.flags.AF = Bit((a % 16) + (b % 16) + carry >= 16)
  /\ r.flags.ZF = Bit(r.value = 0) /\ r.flags.SF = TopBit(k, r.value)
  /\ r.flags.DF = f.DF

DifferenceLeaves(k, a, b, borrow, f, r) ==
  /\ r \in Results(k)
  /\ r.value = a - b - borrow + r.flags.CF * 2^k
  /\ r.flags.CF = Bit(a < b + borrow)
  /\ r.flags.AF = Bit(a % 16 < (b % 16) + borrow)
  /\ r.flags.OF = Bit(Signed(k, a) - Signed(k, b) - borrow # Signed(k, r.value))
  /\ r.flags.PF = FillParityFromByte(Wrap(8, r.value))
  /\ r.flags.ZF = Bit(r.value = 0) /\ r.flags.SF = TopBit(k, r.value)
  /\ r.flags.DF = f.DF

LEMMA SumIs ==
  ASSUME NEW k \in Nat, k > 0, NEW a \in Number(k), NEW b \in Number(k), NEW carry \in {0, 1},
         NEW f \in FlagFile
  PROVE  SumLeaves(k, a, b, carry, f, Sum(k, a, b, carry, f))
<1> DEFINE p == 2^k
           v == Wrap(k, a + b + carry)
           g == ByResult(k, v, f)
           cf == Bit(a + b + carry >= p)
           af == Bit((a % 16) + (b % 16) + carry >= 16)
           of == Bit(Signed(k, a) + Signed(k, b) + carry # Signed(k, v))
           r == [value |-> v, flags |-> [g EXCEPT !.CF = cf, !.AF = af, !.OF = of]]
<1>1. p \in Int /\ p > 0 /\ a \in 0..(p - 1) /\ b \in 0..(p - 1)
  BY PowerType DEF Number
<1>2. v \in Number(k) /\ v \in Int
  BY <1>1, WrapType DEF Number
<1>3. TellsOf(k, v, f, g)
  BY <1>2, ByResultTells
<1>4. cf \in {0, 1} /\ af \in {0, 1} /\ of \in {0, 1}
  BY DEF Bit
<1>5. v = a + b + carry - cf * p
  <2>1. CASE a + b + carry >= p
    <3>1. a + b + carry = 1 * p + (a + b + carry - p) /\ a + b + carry - p \in 0..(p - 1)
      BY <1>1, <2>1
    <3>2. \A q \in Int, w \in Number(k) : Wrap(k, q * p + w) = w
      BY WrapIs
    <3>3. a + b + carry - p \in Number(k)
      BY <3>1 DEF Number
    <3> HIDE DEF p
    <3>4. Wrap(k, 1 * p + (a + b + carry - p)) = a + b + carry - p
      BY <3>2, <3>3
    <3> QED
      BY <1>1, <2>1, <3>1, <3>4 DEF Bit
  <2>2. CASE ~ (a + b + carry >= p)
    <3>1. a + b + carry \in Number(k)
      BY <1>1, <2>2 DEF Number
    <3>2. v = a + b + carry /\ cf = 0
      BY <2>2, <3>1, WrapSmall DEF Bit
    <3> HIDE DEF p, v, cf
    <3> QED
      BY <1>1, <3>2
  <2> QED
    BY <2>1, <2>2
<1>6. Sum(k, a, b, carry, f) = r
  BY DEF Sum
<1> HIDE DEF cf, af, of, v, g, p
<1>7. r.value = v /\ r.flags.CF = cf /\ r.flags.AF = af /\ r.flags.ZF = g.ZF /\ r.flags.SF = g.SF
      /\ r.flags.DF = g.DF /\ r \in Results(k)
  BY <1>2, <1>3, <1>4 DEF TellsOf, FlagFile, Flag, Results
<1> HIDE DEF r
<1>8. SumLeaves(k, a, b, carry, f, r)
  BY <1>3, <1>5, <1>7 DEF SumLeaves, TellsOf, cf, af, p
<1> QED
  BY <1>6, <1>8

LEMMA DifferenceIs ==
  ASSUME NEW k \in Nat, k > 0, NEW a \in Number(k), NEW b \in Number(k), NEW borrow \in {0, 1},
         NEW f \in FlagFile
  PROVE  DifferenceLeaves(k, a, b, borrow, f, Difference(k, a, b, borrow, f))
<1> DEFINE p == 2^k
           v == Wrap(k, a - b - borrow)
           g == ByResult(k, v, f)
           cf == Bit(a < b + borrow)
           af == Bit(a % 16 < (b % 16) + borrow)
           of == Bit(Signed(k, a) - Signed(k, b) - borrow # Signed(k, v))
           r == [value |-> v, flags |-> [g EXCEPT !.CF = cf, !.AF = af, !.OF = of]]
<1>1. p \in Int /\ p > 0 /\ a \in 0..(p - 1) /\ b \in 0..(p - 1)
  BY PowerType DEF Number
<1>2. v \in Number(k) /\ v \in Int
  BY <1>1, WrapType DEF Number
<1>3. TellsOf(k, v, f, g)
  BY <1>2, ByResultTells
<1>4. cf \in {0, 1} /\ af \in {0, 1} /\ of \in {0, 1}
  BY DEF Bit
<1>5. v = a - b - borrow + cf * p
  <2>1. CASE a < b + borrow
    <3>1. a - b - borrow = (-1) * p + (a - b - borrow + p) /\ a - b - borrow + p \in 0..(p - 1)
      BY <1>1, <2>1
    <3>2. \A q \in Int, w \in Number(k) : Wrap(k, q * p + w) = w
      BY WrapIs
    <3>3. a - b - borrow + p \in Number(k)
      BY <3>1 DEF Number
    <3> HIDE DEF p
    <3>4. Wrap(k, (-1) * p + (a - b - borrow + p)) = a - b - borrow + p
      BY <3>2, <3>3
    <3> QED
      BY <1>1, <2>1, <3>1, <3>4 DEF Bit
  <2>2. CASE ~ (a < b + borrow)
    <3>1. a - b - borrow \in Number(k)
      BY <1>1, <2>2 DEF Number
    <3>2. v = a - b - borrow /\ cf = 0
      BY <2>2, <3>1, WrapSmall DEF Bit
    <3> HIDE DEF p, v, cf
    <3> QED
      BY <1>1, <3>2
  <2> QED
    BY <2>1, <2>2
<1>6. Difference(k, a, b, borrow, f) = r
  BY DEF Difference
<1> HIDE DEF cf, af, of, v, g, p
<1>7. r.value = v /\ r.flags.CF = cf /\ r.flags.AF = af /\ r.flags.OF = of /\ r.flags.ZF = g.ZF
      /\ r.flags.SF = g.SF /\ r.flags.PF = g.PF /\ r.flags.DF = g.DF /\ r \in Results(k)
  BY <1>2, <1>3, <1>4 DEF TellsOf, FlagFile, Flag, Results
<1> HIDE DEF r
<1>8. DifferenceLeaves(k, a, b, borrow, f, r)
  BY <1>3, <1>5, <1>7 DEF DifferenceLeaves, TellsOf, cf, af, of, p
<1> QED
  BY <1>6, <1>8

\* What and, or, xor and test leave.
LogicLeaves(k, v, f, r) ==
  /\ r \in Results(k)
  /\ r.value = v /\ r.flags.CF = 0 /\ r.flags.OF = 0
  /\ r.flags.ZF = Bit(v = 0) /\ r.flags.SF = TopBit(k, v) /\ r.flags.DF = f.DF

LEMMA LogicIs ==
  ASSUME NEW k \in Nat, k > 0, NEW v \in Number(k), NEW f \in FlagFile, NEW r \in Logic(k, v, f)
  PROVE  LogicLeaves(k, v, f, r)
<1> DEFINE g == ByResult(k, v, f)
<1>1. TellsOf(k, v, f, g)
  BY v \in Int, ByResultTells DEF Number
<1>2. PICK af \in {0, 1} : r = [value |-> v, flags |-> [g EXCEPT !.CF = 0, !.OF = 0, !.AF = af]]
  BY DEF Logic
<1> HIDE DEF g
<1>3. r.value = v /\ r.flags.CF = 0 /\ r.flags.OF = 0 /\ r.flags.ZF = g.ZF /\ r.flags.SF = g.SF
      /\ r.flags.DF = g.DF /\ r \in Results(k)
  BY <1>1, <1>2 DEF TellsOf, FlagFile, Flag, Results
<1> QED
  BY <1>1, <1>3 DEF LogicLeaves, TellsOf

AndDigits(k, a, b) == [i \in 0..(k - 1) |-> Bit(BitAt(a, i) + BitAt(b, i) = 2)]
OrDigits(k, a, b) == [i \in 0..(k - 1) |-> Bit(BitAt(a, i) + BitAt(b, i) >= 1)]
XorDigits(k, a, b) == [i \in 0..(k - 1) |-> Bit(BitAt(a, i) # BitAt(b, i))]

LEMMA DigitsType ==
  ASSUME NEW k \in Nat, NEW a, NEW b
  PROVE  /\ AndDigits(k, a, b) \in BitDigits(k)
         /\ OrDigits(k, a, b) \in BitDigits(k)
         /\ XorDigits(k, a, b) \in BitDigits(k)
BY DEF AndDigits, OrDigits, XorDigits, BitDigits, Bit

\* What the two-operand instructions leave, by the instruction.
TwoOperandsLeave(op, k, a, b, f, r) ==
  /\ op = "add" => SumLeaves(k, a, b, 0, f, r)
  /\ op = "adc" => SumLeaves(k, a, b, f.CF, f, r)
  /\ op \in {"sub", "cmp"} => DifferenceLeaves(k, a, b, 0, f, r)
  /\ op = "sbb" => DifferenceLeaves(k, a, b, f.CF, f, r)
  /\ op \in {"and", "test"} => LogicLeaves(k, FromBits(k, AndDigits(k, a, b)), f, r)
  /\ op = "or" => LogicLeaves(k, FromBits(k, OrDigits(k, a, b)), f, r)
  /\ op = "xor" => LogicLeaves(k, FromBits(k, XorDigits(k, a, b)), f, r)

TwoOperandNames == {"add", "adc", "sub", "cmp", "sbb", "and", "test", "or", "xor"}

LEMMA TwoOperandsIs ==
  ASSUME NEW op \in TwoOperandNames, NEW k \in Nat, k > 0, NEW a \in Number(k), NEW b \in Number(k),
         NEW f \in FlagFile, NEW r \in TwoOperands(op, k, a, b, f)
  PROVE  TwoOperandsLeave(op, k, a, b, f, r) /\ r \in Results(k)
<1>0. f.CF \in {0, 1}
  BY DEF FlagFile, Flag
<1>1. CASE op = "add"
  <2>1. r = Sum(k, a, b, 0, f)
    BY <1>1 DEF TwoOperands
  <2>2. SumLeaves(k, a, b, 0, f, r)
    BY <2>1, SumIs
  <2> QED
    BY <1>1, <2>2 DEF TwoOperandsLeave, SumLeaves
<1>2. CASE op = "adc"
  <2>1. r = Sum(k, a, b, f.CF, f)
    BY <1>2 DEF TwoOperands
  <2>2. SumLeaves(k, a, b, f.CF, f, r)
    BY <1>0, <2>1, SumIs
  <2> QED
    BY <1>2, <2>2 DEF TwoOperandsLeave, SumLeaves
<1>3. CASE op \in {"sub", "cmp"}
  <2>1. r = Difference(k, a, b, 0, f)
    BY <1>3 DEF TwoOperands
  <2>2. DifferenceLeaves(k, a, b, 0, f, r)
    BY <2>1, DifferenceIs
  <2> QED
    BY <1>3, <2>2 DEF TwoOperandsLeave, DifferenceLeaves
<1>4. CASE op = "sbb"
  <2>1. r = Difference(k, a, b, f.CF, f)
    BY <1>4 DEF TwoOperands
  <2>2. DifferenceLeaves(k, a, b, f.CF, f, r)
    BY <1>0, <2>1, DifferenceIs
  <2> QED
    BY <1>4, <2>2 DEF TwoOperandsLeave, DifferenceLeaves
<1>5. CASE op \in {"and", "test"}
  <2>1. r \in Logic(k, FromBits(k, AndDigits(k, a, b)), f)
    BY <1>5 DEF TwoOperands, Bitwise, AndDigits
  <2>2. LogicLeaves(k, FromBits(k, AndDigits(k, a, b)), f, r)
    BY <2>1, FromBitsType, DigitsType, LogicIs
  <2> QED
    BY <1>5, <2>2 DEF TwoOperandsLeave, LogicLeaves
<1>6. CASE op = "or"
  <2>1. r \in Logic(k, FromBits(k, OrDigits(k, a, b)), f)
    BY <1>6 DEF TwoOperands, Bitwise, OrDigits
  <2>2. LogicLeaves(k, FromBits(k, OrDigits(k, a, b)), f, r)
    BY <2>1, FromBitsType, DigitsType, LogicIs
  <2> QED
    BY <1>6, <2>2 DEF TwoOperandsLeave, LogicLeaves
<1>7. CASE op = "xor"
  <2>1. r \in Logic(k, FromBits(k, XorDigits(k, a, b)), f)
    BY <1>7 DEF TwoOperands, Bitwise, XorDigits
  <2>2. LogicLeaves(k, FromBits(k, XorDigits(k, a, b)), f, r)
    BY <2>1, FromBitsType, DigitsType, LogicIs
  <2> QED
    BY <1>7, <2>2 DEF TwoOperandsLeave, LogicLeaves
<1> QED
  BY <1>1, <1>2, <1>3, <1>4, <1>5, <1>6, <1>7 DEF TwoOperandNames

\* What inc, dec, not and neg leave.
OneOperandLeaves(op, k, a, f, r) ==
  /\ r \in Results(k)
  /\ op = "inc" => /\ r.value = IF a = 2^k - 1 THEN 0 ELSE a + 1
                   /\ r.flags.CF = f.CF
  /\ op = "dec" => /\ r.value = IF a = 0 THEN 2^k - 1 ELSE a - 1
                   /\ r.flags.CF = f.CF
  /\ op = "not" => r.value = 2^k - 1 - a /\ r.flags = f
  /\ op = "neg" => /\ r.value = IF a = 0 THEN 0 ELSE 2^k - a
                   /\ r.flags.CF = Bit(a # 0)
  /\ r.flags.DF = f.DF

LEMMA OneOperandIs ==
  ASSUME NEW op \in {"inc", "dec", "not", "neg"}, NEW k \in Nat, k > 0, NEW a \in Number(k), NEW f \in FlagFile
  PROVE  OneOperandLeaves(op, k, a, f, OneOperand(op, k, a, f))
<1> DEFINE p == 2^k
           r == OneOperand(op, k, a, f)
<1>1. p \in Int /\ p > 1 /\ a \in 0..(p - 1)
  <2>1. p = 2 * 2^(k - 1) /\ 2^(k - 1) > 0 /\ 2^(k - 1) \in Nat
    BY PowerHalf
  <2> QED
    BY <2>1 DEF Number
<1>2. 0 \in Number(k) /\ 1 \in Number(k)
  BY <1>1 DEF Number
<1>3. f.CF \in {0, 1}
  BY DEF FlagFile, Flag
<1>4. CASE op = "inc"
  <2> DEFINE t == Sum(k, a, 1, 0, f)
  <2>1. SumLeaves(k, a, 1, 0, f, t)
    BY <1>2, SumIs
  <2>2. r = [t EXCEPT !.flags.CF = f.CF]
    BY <1>4 DEF OneOperand, KeepingCarry
  <2>3. t \in Results(k) /\ t.value = a + 1 + 0 - t.flags.CF * p /\ t.flags.CF = Bit(a + 1 + 0 >= p) /\ t.flags.DF = f.DF
    BY <2>1 DEF SumLeaves
  <2> HIDE DEF t, r
  <2>4. r \in Results(k) /\ r.value = t.value /\ r.flags.CF = f.CF /\ r.flags.DF = t.flags.DF
    BY <1>3, <2>2, <2>3 DEF Results, FlagFile, Flag
  <2> HIDE DEF p
  <2>5. t.value = IF a = p - 1 THEN 0 ELSE a + 1
    BY <1>1, <2>3 DEF Bit
  <2> QED
    BY <1>4, <2>3, <2>4, <2>5 DEF OneOperandLeaves, p, r
<1>5. CASE op = "dec"
  <2> DEFINE t == Difference(k, a, 1, 0, f)
  <2>1. DifferenceLeaves(k, a, 1, 0, f, t)
    BY <1>2, DifferenceIs
  <2>2. r = [t EXCEPT !.flags.CF = f.CF]
    BY <1>5 DEF OneOperand, KeepingCarry
  <2>3. t \in Results(k) /\ t.value = a - 1 - 0 + t.flags.CF * p /\ t.flags.CF = Bit(a < 1 + 0) /\ t.flags.DF = f.DF
    BY <2>1 DEF DifferenceLeaves
  <2> HIDE DEF t, r
  <2>4. r \in Results(k) /\ r.value = t.value /\ r.flags.CF = f.CF /\ r.flags.DF = t.flags.DF
    BY <1>3, <2>2, <2>3 DEF Results, FlagFile, Flag
  <2> HIDE DEF p
  <2>5. t.value = IF a = 0 THEN p - 1 ELSE a - 1
    BY <1>1, <2>3 DEF Bit
  <2> QED
    BY <1>5, <2>3, <2>4, <2>5 DEF OneOperandLeaves, p, r
<1>6. CASE op = "not"
  <2>1. r = [value |-> p - 1 - a, flags |-> f]
    BY <1>6 DEF OneOperand
  <2> HIDE DEF r
  <2>2. p - 1 - a \in Number(k)
    <3>1. p - 1 - a \in 0..(p - 1)
      <4> HIDE DEF p
      <4> QED
        BY <1>1
    <3> QED
      BY <3>1 DEF Number
  <2> QED
    BY <1>6, <2>1, <2>2 DEF OneOperandLeaves, Results, r
<1>7. CASE op = "neg"
  <2>1. r = Difference(k, 0, a, 0, f)
    BY <1>7 DEF OneOperand
  <2>2. DifferenceLeaves(k, 0, a, 0, f, r)
    BY <1>2, <2>1, DifferenceIs
  <2> HIDE DEF r
  <2>3. r \in Results(k) /\ r.value = 0 - a - 0 + r.flags.CF * p /\ r.flags.CF = Bit(0 < a + 0) /\ r.flags.DF = f.DF
    BY <2>2 DEF DifferenceLeaves
  <2> HIDE DEF p
  <2>4. r.value = (IF a = 0 THEN 0 ELSE p - a) /\ r.flags.CF = Bit(a # 0)
    BY <1>1, <2>3 DEF Bit
  <2> QED
    BY <1>7, <2>3, <2>4 DEF OneOperandLeaves, p, r
<1> QED
  BY <1>4, <1>5, <1>6, <1>7

--------------------------------------------------------------------------------
(* Shifts *)

\* a number cut at a place: the bits above it and those below
CutAt(a, j, m, high, low) ==
  /\ high \in 0..(2^j - 1) /\ low \in 0..(2^m - 1)
  /\ a = high * 2^m + low /\ a \div 2^m = high /\ a % 2^m = low

LEMMA Cuts ==
  ASSUME NEW j \in Nat, NEW m \in Nat, NEW a \in Number(j + m)
  PROVE  CutAt(a, j, m, a \div 2^m, a % 2^m)
<1> DEFINE p == 2^j
           q == 2^m
           h == a \div q
           l == a % q
<1>1. p \in Int /\ p > 0 /\ q \in Int /\ q > 0
  BY PowerType
<1>2. a \in 0..(p * q - 1)
  BY PowerSum DEF Number
<1> HIDE DEF p, q
<1>3. a = q * h + l /\ h \in Int /\ l \in 0..(q - 1)
  BY <1>1, <1>2, DivMod
<1> HIDE DEF h, l
<1>4. h >= 0
  <2>1. q * h > -q
    BY <1>1, <1>2, <1>3
  <2>2. CASE h < 0
    <3>1. q * h <= -q
      BY <1>1, <1>3, <2>2
    <3> QED
      BY <1>1, <1>3, <2>1, <3>1
  <2> QED
    BY <1>3, <2>2
<1>5. h <= p - 1
  <2>1. q * h < p * q
    BY <1>1, <1>2, <1>3
  <2>2. CASE h >= p
    <3>1. q * h >= q * p
      BY <1>1, <1>3, <2>2
    <3> QED
      BY <1>1, <1>3, <2>1, <3>1
  <2> QED
    BY <1>1, <1>3, <2>2
<1>6. a = h * q + l
  BY <1>1, <1>3
<1> QED
  BY <1>1, <1>3, <1>4, <1>5, <1>6 DEF CutAt, p, q, h, l

\* The other way round: two parts put together.
LEMMA Joins ==
  ASSUME NEW j \in Nat, NEW m \in Nat, NEW high \in Number(j), NEW low \in Number(m)
  PROVE  CutAt(high * 2^m + low, j, m, high, low) /\ high * 2^m + low \in Number(j + m)
<1> DEFINE p == 2^j
           q == 2^m
           a == high * q + low
<1>1. p \in Int /\ p > 0 /\ q \in Int /\ q > 0 /\ high \in 0..(p - 1) /\ low \in 0..(q - 1)
  BY PowerType DEF Number
<1>2. 2^(j + m) = p * q
  BY PowerSum
<1> HIDE DEF p, q
<1>3. a \div q = high /\ a % q = low
  BY <1>1, high \in Int, DivModUnique
<1>4. high * q >= 0 /\ high * q <= (p - 1) * q
  BY <1>1
<1>5. high * q \in Int /\ (p - 1) * q = p * q - q /\ p * q \in Int
  BY <1>1
<1>6. a \in 0..(p * q - 1)
  BY <1>1, <1>4, <1>5
<1>7. a \in Number(j + m)
  BY <1>2, <1>6 DEF Number
<1> QED
  BY <1>1, <1>3, <1>7 DEF CutAt, p, q, a

\* Rotating by j puts the upper j bits below the others.
LEMMA RotateIs ==
  ASSUME NEW j \in Nat, NEW m \in Nat, NEW high \in Number(j), NEW low \in Number(m)
  PROVE  RotateLeft(j + m, high * 2^m + low, j) = low * 2^j + high
<1> DEFINE p == 2^j
           q == 2^m
           a == high * q + low
<1>1. p \in Int /\ p > 0 /\ q \in Int /\ q > 0 /\ high \in 0..(p - 1) /\ low \in 0..(q - 1)
  BY PowerType DEF Number
<1>2. 2^(j + m) = p * q /\ (j + m) - j = m /\ j + m \in Nat
  BY PowerSum
<1>3. a \div q = high
  BY Joins DEF CutAt
<1>4. 0 \in Number(j)
  BY PowerType DEF Number
<1>5. low * p + 0 \in Number(m + j)
  BY <1>4, Joins
<1>6. m + j = j + m /\ low * p + 0 = low * p
  <2> HIDE DEF p, q
  <2> QED
    BY <1>1
<1>7. \A c \in Int, w \in Number(j + m) : Wrap(j + m, c * (p * q) + w) = w
  BY <1>2, WrapIs
<1>8. high \in Int /\ low * p \in Number(j + m)
  BY <1>1, <1>5, <1>6
<1>9. Wrap(j + m, high * (p * q) + low * p) = low * p
  BY <1>7, <1>8
<1>10. a * p = high * (p * q) + low * p
  <2> HIDE DEF p, q
  <2> QED
    BY <1>1
<1>11. RotateLeft(j + m, a, j) = Wrap(j + m, a * p) + a \div q
  BY <1>2 DEF RotateLeft
<1> QED
  BY <1>3, <1>9, <1>10, <1>11

LEMMA RotateType ==
  ASSUME NEW k \in Nat, NEW a \in Number(k), NEW j \in 0..k
  PROVE  /\ RotateLeft(k, a, j) \in Number(k)
         /\ RotateLeft(k, RotateLeft(k, a, j), k - j) = a
<1> DEFINE m == k - j
           h == a \div 2^m
           l == a % 2^m
<1>1. j \in Nat /\ m \in Nat /\ j + m = k /\ m + j = k
  OBVIOUS
<1> HIDE DEF m
<1>2. CutAt(a, j, m, h, l)
  BY <1>1, Cuts
<1> HIDE DEF h, l
<1>3. h \in Number(j) /\ l \in Number(m) /\ a = h * 2^m + l
  BY <1>2 DEF CutAt, Number
<1>4. RotateLeft(j + m, h * 2^m + l, j) = l * 2^j + h
  BY <1>1, <1>3, RotateIs
<1>5. l * 2^j + h \in Number(m + j)
  BY <1>1, <1>3, Joins
<1>6. RotateLeft(m + j, l * 2^j + h, m) = h * 2^m + l
  BY <1>1, <1>3, RotateIs
<1> QED
  BY <1>1, <1>3, <1>4, <1>5, <1>6 DEF m

LEMMA RotateNone ==
  ASSUME NEW k \in Nat, NEW a \in Number(k)
  PROVE  RotateLeft(k, a, 0) = a
<1> DEFINE p == 2^k
<1>1. p \in Int /\ p > 0 /\ a \in 0..(p - 1) /\ 2^0 = 1
  BY PowerType DEF Number
<1>2. RotateLeft(k, a, 0) = Wrap(k, a * 1) + a \div p
  BY <1>1 DEF RotateLeft
<1>3. Wrap(k, a * 1) = a
  BY <1>1, WrapSmall
<1> HIDE DEF p
<1>4. a \div p = 0
  BY <1>1
<1> QED
  BY <1>1, <1>2, <1>3, <1>4

ShiftNames == {"shl", "shr", "sar"}
RotateNames == {"rol", "ror", "rcl", "rcr"}
Shiftings == ShiftNames \cup RotateNames

LEMMA CountType ==
  ASSUME NEW b \in Nat
  PROVE  Count(b) \in Nat
<1>1. Bits["dword"] \in Int /\ Bits["dword"] > 0
  BY BitsAssumption
<1>2. b % Bits["dword"] \in 0..(Bits["dword"] - 1)
  BY <1>1, DivMod
<1> QED
  BY <1>2 DEF Count

\* What a shift by c bits makes, and the carries it may leave.
ShiftMakes(op, k, a, c, made) ==
  /\ made.value \in Number(k) /\ made.carry \subseteq {0, 1}
  /\ op = "shl" /\ c = 1 => \A cf \in made.carry : 2 * a = made.value + cf * 2^k
  /\ op = "shr" /\ c = 1 => \A cf \in made.carry : a = 2 * made.value + cf
  /\ op = "sar" => /\ made.value = Wrap(k, Signed(k, a) \div 2^c)
                   /\ made.carry = {(Signed(k, a) \div 2^(c - 1)) % 2}

LEMMA ShiftedIs ==
  ASSUME NEW op \in ShiftNames, NEW k \in Nat, k > 1, NEW a \in Number(k), NEW c \in Nat, c > 0
  PROVE  ShiftMakes(op, k, a, c, Shifted(op, k, a, c))
<1> DEFINE made == Shifted(op, k, a, c)
           p == 2^k
<1>1. p \in Int /\ p > 0 /\ a \in 0..(p - 1) /\ 2^c \in Int /\ 2^c > 0 /\ c - 1 \in Nat
  BY PowerType DEF Number
<1>2. CASE op = "shl"
  <2>1. made = [value |-> IF c >= k THEN 0 ELSE Wrap(k, a * 2^c),
             carry |-> IF c >= k THEN {0, 1} ELSE {BitAt(a, k - c)}]
    BY <1>2 DEF Shifted
  <2>2. a * 2^c \in Int
    <3> HIDE DEF p
    <3> QED
      BY <1>1
  <2>3. 0 \in Number(k) /\ Wrap(k, a * 2^c) \in Number(k)
    BY <1>1, <2>2, WrapType DEF Number
  <2>4. ~ (c >= k) => BitAt(a, k - c) \in {0, 1}
    <3>1. ~ (c >= k) => k - c \in Nat
      OBVIOUS
    <3>2. a \in Int
      BY <1>1
    <3> QED
      BY <3>1, <3>2, BitType
  <2>5. ASSUME c = 1 PROVE 2 * a = Wrap(k, a * 2^c) + BitAt(a, k - c) * p
    <3> DEFINE h == 2^(k - 1)
               t == a \div h
               l == a % h
    <3>1. p = 2 * h /\ h \in Int /\ h > 0 /\ 2^1 = 2
      BY PowerHalf
    <3>2. t \in 0..1 /\ l \in 0..(h - 1) /\ a = t * h + l
      <4>1. 1 \in Nat /\ k - 1 \in Nat /\ 1 + (k - 1) = k
        OBVIOUS
      <4>2. CutAt(a, 1, k - 1, t, l)
        BY <4>1, Cuts
      <4> QED
        BY <3>1, <4>2 DEF CutAt
    <3>3. BitAt(a, k - c) = t
      <4>1. BitAt(a, k - 1) = t % 2
        BY DEF BitAt
      <4> HIDE DEF t
      <4>2. t % 2 = t
        BY <3>2
      <4> QED
        BY <2>5, <4>1, <4>2
    <3> HIDE DEF t, l, h
    <3>4. a * 2 = t * p + 2 * l /\ 2 * l \in 0..(p - 1)
      BY <3>1, <3>2
    <3>5. 2 * l \in Number(k)
      BY <3>4 DEF Number
    <3>6. Wrap(k, t * p + 2 * l) = 2 * l
      <4>1. \A q \in Int, w \in Number(k) : Wrap(k, q * p + w) = w
        BY WrapIs
      <4>2. t \in Int
        BY <3>2
      <4> QED
        BY <3>5, <4>1, <4>2, Zenon
    <3>7. a * 2^c = t * p + 2 * l
      BY <2>5, <3>1, <3>4
    <3> HIDE DEF p
    <3>8. 2 * a = 2 * l + t * p
      BY <1>1, <3>1, <3>2, <3>4
    <3> QED
      BY <3>3, <3>6, <3>7, <3>8
  <2>6. made.value \in Number(k) /\ made.carry \subseteq {0, 1}
    <3> HIDE DEF made
    <3> QED
      BY <2>1, <2>3, <2>4
  <2>7. c = 1 => made.value = Wrap(k, a * 2^c) /\ made.carry = {BitAt(a, k - c)}
    <3> HIDE DEF made
    <3> QED
      BY <2>1
  <2> HIDE DEF made
  <2> QED
    BY <1>2, <2>5, <2>6, <2>7 DEF ShiftMakes, made
<1>3. CASE op = "shr"
  <2>1. made = [value |-> a \div 2^c, carry |-> IF c >= k THEN {0, 1} ELSE {BitAt(a, c - 1)}]
    BY <1>3 DEF Shifted
  <2>2. a \div 2^c \in 0..(p - 1)
    <3> DEFINE q == 2^c
               d == a \div q
    <3>1. q \in Int /\ q > 0
      BY <1>1
    <3> HIDE DEF q, p
    <3>2. a = q * d + (a % q) /\ d \in Int /\ a % q \in 0..(q - 1)
      BY <1>1, <3>1, DivMod
    <3> HIDE DEF d
    <3>3. d >= 0
      <4>1. CASE d < 0
        <5>1. q * d <= -q
          BY <3>1, <3>2, <4>1
        <5> QED
          BY <1>1, <3>1, <3>2, <5>1
      <4> QED
        BY <3>2, <4>1
    <3>4. d <= q * d
      BY <3>1, <3>2, <3>3
    <3>5. d <= a
      BY <1>1, <3>1, <3>2, <3>4
    <3> QED
      BY <1>1, <3>2, <3>3, <3>5 DEF d, q
  <2>3. BitAt(a, c - 1) \in {0, 1}
    BY <1>1, a \in Int, BitType
  <2>4. ASSUME c = 1 PROVE a = 2 * (a \div 2^c) + BitAt(a, c - 1)
    <3>1. 2^c = 2 /\ 2^(c - 1) = 1
      BY <2>4
    <3>2. BitAt(a, c - 1) = a % 2
      BY <1>1, <3>1 DEF BitAt
    <3> HIDE DEF p
    <3>3. a \in Int
      BY <1>1
    <3>4. a = 2 * (a \div 2) + (a % 2)
      BY <3>3, DivMod
    <3> QED
      BY <3>1, <3>2, <3>4
  <2>5. made.value \in Number(k) /\ made.carry \subseteq {0, 1}
    <3> HIDE DEF made
    <3> QED
      BY <2>1, <2>2, <2>3 DEF Number
  <2>6. c = 1 => made.value = a \div 2^c /\ made.carry = {BitAt(a, c - 1)}
    <3> HIDE DEF made
    <3> QED
      BY <2>1
  <2> HIDE DEF made
  <2> QED
    BY <1>3, <2>4, <2>5, <2>6 DEF ShiftMakes, made
<1>4. CASE op = "sar"
  <2>1. made = [value |-> Wrap(k, Signed(k, a) \div 2^c), carry |-> {(Signed(k, a) \div 2^(c - 1)) % 2}]
    BY <1>4 DEF Shifted
  <2>2. Signed(k, a) \in Int
    BY SignedIs DEF SignedTo
  <2>3. Signed(k, a) \div 2^c \in Int /\ Signed(k, a) \div 2^(c - 1) \in Int
    BY <1>1, <2>2, DivMod, PowerType
  <2>4. Wrap(k, Signed(k, a) \div 2^c) \in Number(k) /\ (Signed(k, a) \div 2^(c - 1)) % 2 \in {0, 1}
    <3>1. (Signed(k, a) \div 2^(c - 1)) % 2 \in 0..1
      BY <2>3, DivMod
    <3> QED
      BY <2>3, <3>1, WrapType
  <2>5. made.value \in Number(k) /\ made.carry \subseteq {0, 1}
        /\ made.value = Wrap(k, Signed(k, a) \div 2^c) /\ made.carry = {(Signed(k, a) \div 2^(c - 1)) % 2}
    <3> HIDE DEF made
    <3> QED
      BY <2>1, <2>4
  <2> HIDE DEF made
  <2> QED
    BY <1>4, <2>5 DEF ShiftMakes, made
<1> QED
  BY <1>2, <1>3, <1>4 DEF ShiftNames

\* What a rotation by c bits makes: of the number, or of the number below the carry.
RotationMakes(op, k, a, c, f, made) ==
  /\ made.value \in Number(k) /\ made.carry \in {0, 1}
  /\ op = "rol" => made.value = RotateLeft(k, a, c % k)
  /\ op = "ror" => made.value = RotateLeft(k, a, (k - (c % k)) % k)
  /\ op = "rcl" => Pair(k, made.carry, made.value) = RotateLeft(k + 1, Pair(k, f.CF, a), c % (k + 1))
  /\ op = "rcr" => Pair(k, made.carry, made.value)
                     = RotateLeft(k + 1, Pair(k, f.CF, a), (k + 1 - (c % (k + 1))) % (k + 1))

\* The carry on top of a number, and back.
LEMMA CarryOnTop ==
  ASSUME NEW k \in Nat, NEW a \in Number(k), NEW cf \in {0, 1}
  PROVE  /\ Pair(k, cf, a) \in Number(k + 1)
         /\ Pair(k, cf, a) \div 2^k = cf /\ Wrap(k, Pair(k, cf, a)) = a
<1>1. cf \in Number(1) /\ 1 \in Nat /\ 1 + k = k + 1
  BY 2^1 = 2 DEF Number
<1>2. CutAt(cf * 2^k + a, 1, k, cf, a) /\ cf * 2^k + a \in Number(1 + k)
  BY <1>1, Joins
<1> QED
  BY <1>1, <1>2 DEF CutAt, Pair, Wrap

LEMMA CarryTaken ==
  ASSUME NEW k \in Nat, NEW r \in Number(k + 1)
  PROVE  /\ r \div 2^k \in {0, 1} /\ Wrap(k, r) \in Number(k)
         /\ Pair(k, r \div 2^k, Wrap(k, r)) = r
<1>1. 1 \in Nat /\ 1 + k = k + 1 /\ 2^1 = 2
  OBVIOUS
<1>2. CutAt(r, 1, k, r \div 2^k, r % 2^k)
  BY <1>1, Cuts
<1> QED
  BY <1>1, <1>2 DEF CutAt, Pair, Wrap, Number

LEMMA RotatedIs ==
  ASSUME NEW op \in RotateNames, NEW k \in Nat, k > 0, NEW a \in Number(k), NEW c \in Nat, NEW f \in FlagFile
  PROVE  RotationMakes(op, k, a, c, f, Rotated(op, k, a, c, f))
<1> DEFINE made == Rotated(op, k, a, c, f)
           up == c % k
           down == (k - (c % k)) % k
           over == c % (k + 1)
           under == (k + 1 - (c % (k + 1))) % (k + 1)
           with == Pair(k, f.CF, a)
<1>1. up \in 0..k /\ down \in 0..k /\ over \in 0..(k + 1) /\ under \in 0..(k + 1)
  <2>1. up \in 0..(k - 1) /\ over \in 0..k
    BY DivMod, k + 1 > 0
  <2>2. k - up \in Int /\ k + 1 - over \in Int
    BY <2>1
  <2>3. down \in 0..(k - 1) /\ under \in 0..k
    BY <2>2, DivMod, k + 1 > 0
  <2> QED
    BY <2>1, <2>3
<1>2. with \in Number(k + 1)
  BY CarryOnTop DEF FlagFile, Flag
<1> DEFINE r == CASE op = "rol" -> RotateLeft(k, a, up)
                  [] op = "ror" -> RotateLeft(k, a, down)
                  [] op = "rcl" -> RotateLeft(k + 1, with, over)
                  [] op = "rcr" -> RotateLeft(k + 1, with, under)
<1>3. made = [value |-> Wrap(k, r),
           carry |-> CASE op = "rol" -> r % 2
                       [] op = "ror" -> TopBit(k, r)
                       [] op \in {"rcl", "rcr"} -> r \div 2^k]
  BY DEF Rotated
<1>4. op \in {"rol", "ror"} => r \in Number(k)
  <2>1. RotateLeft(k, a, up) \in Number(k) /\ RotateLeft(k, a, down) \in Number(k)
    BY <1>1, RotateType
  <2> HIDE DEF up, down, over, under
  <2> QED
    BY <2>1
<1>5. op \in {"rcl", "rcr"} => r \in Number(k + 1)
  <2>1. RotateLeft(k + 1, with, over) \in Number(k + 1) /\ RotateLeft(k + 1, with, under) \in Number(k + 1)
    BY <1>1, <1>2, RotateType
  <2> HIDE DEF up, down, over, under, with
  <2> QED
    BY <2>1
<1>6. /\ op = "rol" => r = RotateLeft(k, a, up)
      /\ op = "ror" => r = RotateLeft(k, a, down)
      /\ op = "rcl" => r = RotateLeft(k + 1, with, over)
      /\ op = "rcr" => r = RotateLeft(k + 1, with, under)
  <2> HIDE DEF up, down, over, under, with
  <2> QED
    OBVIOUS
<1> HIDE DEF r, made
<1>7. CASE op \in {"rol", "ror"}
  <2>1. r \in Int /\ r \in Number(k)
    BY <1>4, <1>7, PowerType DEF Number
  <2>2. Wrap(k, r) = r /\ r % 2 \in {0, 1} /\ TopBit(k, r) \in {0, 1}
    <3>1. r % 2 \in 0..1
      BY <2>1, DivMod
    <3>2. TopBit(k, r) \in {0, 1}
      BY <2>1, k - 1 \in Nat, BitType DEF TopBit
    <3> QED
      BY <2>1, <3>1, <3>2, WrapSmall
  <2>3. made.value = r /\ made.carry \in {0, 1}
    BY <1>3, <1>7, <2>2
  <2> QED
    BY <1>6, <1>7, <2>1, <2>3 DEF RotationMakes, made, up, down
<1>8. CASE op \in {"rcl", "rcr"}
  <2>1. made.value = Wrap(k, r) /\ made.carry = r \div 2^k
    BY <1>3, <1>8
  <2>2. made.value \in Number(k) /\ made.carry \in {0, 1} /\ Pair(k, made.carry, made.value) = r
    BY <1>5, <1>8, <2>1, CarryTaken
  <2> QED
    BY <1>6, <1>8, <2>2 DEF RotationMakes, made, over, under, with
<1> QED
  BY <1>7, <1>8 DEF RotateNames

\* What a shift or a rotation leaves.
ShiftLeaves(op, k, a, b, f, r) ==
  /\ r \in Results(k) /\ r.flags.DF = f.DF
  /\ op \in ShiftNames /\ Count(b) # 0 =>
       ShiftMakes(op, k, a, Count(b), [value |-> r.value, carry |-> {r.flags.CF}])
  /\ op \in RotateNames => RotationMakes(op, k, a, Count(b), f, [value |-> r.value, carry |-> r.flags.CF])

LEMMA ShiftIs ==
  ASSUME NEW op \in Shiftings, NEW k \in Nat, k > 1, NEW a \in Number(k), NEW b \in Nat,
         NEW f \in FlagFile, NEW r \in Shift(op, k, a, b, f)
  PROVE  ShiftLeaves(op, k, a, b, f, r)
<1> DEFINE c == Count(b)
<1>1. c \in Nat
  BY CountType
<1> HIDE DEF c
<1>2. CASE c = 0
  <2>1. r = [value |-> a, flags |-> f]
    BY <1>2 DEF Shift, c
  <2>2. r \in Results(k) /\ r.value = a /\ r.flags = f
    BY <2>1 DEF Results
  <2>3. f.CF \in {0, 1}
    BY DEF FlagFile, Flag
  <2>4. 0 % k = 0 /\ k % k = 0 /\ k - 0 = k
    BY k > 0
  <2>5. 0 % (k + 1) = 0 /\ (k + 1) % (k + 1) = 0 /\ k + 1 - 0 = k + 1
    BY k + 1 > 0
  <2>6. RotateLeft(k, a, 0) = a /\ RotateLeft(k + 1, Pair(k, f.CF, a), 0) = Pair(k, f.CF, a)
    BY <2>3, RotateNone, CarryOnTop
  <2>7. RotationMakes(op, k, a, c, f, [value |-> r.value, carry |-> r.flags.CF])
    BY <1>2, <2>2, <2>3, <2>4, <2>5, <2>6 DEF RotationMakes
  <2> QED
    BY <1>2, <2>2, <2>7 DEF ShiftLeaves, c
<1>3. CASE c # 0 /\ op \in ShiftNames
  <2> DEFINE made == Shifted(op, k, a, c)
             g == ByResult(k, made.value, f)
  <2>1. ShiftMakes(op, k, a, c, made)
    BY <1>1, <1>3, ShiftedIs
  <2>2. op \in {"shl", "shr", "sar"} /\ op \notin RotateNames
    BY <1>3 DEF ShiftNames, RotateNames
  <2>3. Shift(op, k, a, b, f) =
          {ShiftResult(k, made.value, f, cf, of, af) :
             cf \in made.carry, of \in OverflowOf(k, a, made.value, c), af \in {0, 1}}
    BY <1>3, <2>2 DEF Shift, c
  <2>4. made.value \in Number(k) /\ made.carry \subseteq {0, 1} /\ made.value \in Int
    BY <2>1 DEF ShiftMakes, Number
  <2>5. TellsOf(k, made.value, f, g)
    BY <2>4, ByResultTells
  <2>6. OverflowOf(k, a, made.value, c) \subseteq {0, 1}
    BY DEF OverflowOf, Bit
  <2> HIDE DEF made, g
  <2>7. PICK cf \in made.carry, of \in OverflowOf(k, a, made.value, c), af \in {0, 1} :
          r = ShiftResult(k, made.value, f, cf, of, af)
    BY <2>3
  <2>8. of \in {0, 1} /\ cf \in {0, 1}
    BY <2>4, <2>6
  <2>9. r \in Results(k) /\ r.value = made.value /\ r.flags.CF = cf /\ r.flags.DF = f.DF
    BY <2>4, <2>5, <2>7, <2>8 DEF ShiftResult, Results, TellsOf, FlagFile, Flag, g
  <2> DEFINE t == [value |-> r.value, carry |-> {r.flags.CF}]
  <2>10. t.value = made.value /\ t.carry = {cf}
    BY <2>9
  <2> HIDE DEF t
  <2>11. ShiftMakes(op, k, a, c, t)
    BY <2>1, <2>7, <2>8, <2>10 DEF ShiftMakes
  <2> QED
    BY <2>2, <2>9, <2>11 DEF ShiftLeaves, c, t
<1>4. CASE c # 0 /\ op \in RotateNames
  <2> DEFINE made == Rotated(op, k, a, c, f)
  <2>1. RotationMakes(op, k, a, c, f, made)
    BY <1>1, <1>4, k > 0, RotatedIs
  <2>2. op \notin {"shl", "shr", "sar"} /\ op \notin ShiftNames
    BY <1>4 DEF ShiftNames, RotateNames
  <2>3. Shift(op, k, a, b, f) =
          {RotateResult(made.value, f, made.carry, of) : of \in OverflowOf(k, a, made.value, c)}
    BY <1>4, <2>2 DEF Shift, c
  <2>4. made.value \in Number(k) /\ made.carry \in {0, 1}
    BY <2>1 DEF RotationMakes
  <2>5. OverflowOf(k, a, made.value, c) \subseteq {0, 1}
    BY DEF OverflowOf, Bit
  <2> HIDE DEF made
  <2>6. PICK of \in OverflowOf(k, a, made.value, c) :
          r = RotateResult(made.value, f, made.carry, of)
    BY <2>3
  <2>7. of \in {0, 1}
    BY <2>5
  <2>8. r \in Results(k) /\ r.value = made.value /\ r.flags.CF = made.carry /\ r.flags.DF = f.DF
    BY <2>4, <2>6, <2>7 DEF RotateResult, Results, FlagFile, Flag
  <2> DEFINE t == [value |-> r.value, carry |-> r.flags.CF]
  <2>9. t.value = made.value /\ t.carry = made.carry
    BY <2>8
  <2> HIDE DEF t
  <2>10. RotationMakes(op, k, a, c, f, t)
    BY <2>1, <2>9 DEF RotationMakes
  <2> QED
    BY <2>2, <2>8, <2>10 DEF ShiftLeaves, c, t
<1> QED
  BY <1>2, <1>3, <1>4 DEF Shiftings

--------------------------------------------------------------------------------
(* Products and quotients *)

LEMMA DoubleWidth ==
  ASSUME NEW k \in Nat, k > 0
  PROVE  /\ 2^(2 * k) = 2^k * 2^k /\ 2 * k \in Nat /\ 2 * k > 0
         /\ 2^(2 * k - 1) = 2 * (2^(k - 1) * 2^(k - 1))
<1> DEFINE p == 2^k
           h == 2^(k - 1)
<1>1. k + k = 2 * k /\ k - 1 \in Nat /\ k + (k - 1) = 2 * k - 1
  OBVIOUS
<1>2. 2^(k + k) = p * p /\ 2^(k + (k - 1)) = p * h /\ p = 2 * h /\ h \in Int
  BY <1>1, PowerSum, PowerHalf
<1>3. p * h = 2 * (h * h)
  <2> HIDE DEF p, h
  <2> QED
    BY <1>2
<1> QED
  BY <1>1, <1>2, <1>3

LEMMA ProductBound ==
  ASSUME NEW x \in Nat, NEW y \in Nat, NEW c \in Nat, x <= c, y <= c
  PROVE  x * y \in Nat /\ x * y <= c * c
<1>1. x * y <= c * y
  OBVIOUS
<1>2. c * y <= c * c
  OBVIOUS
<1> QED
  BY <1>1, <1>2

\* The signed product of numbers within c is within c * c.
LEMMA SignedProductBound ==
  ASSUME NEW x \in Int, NEW y \in Int, NEW c \in Nat, -c <= x, x <= c, -c <= y, y <= c
  PROVE  x * y \in Int /\ -(c * c) <= x * y /\ x * y <= c * c
<1> DEFINE a == IF x < 0 THEN -x ELSE x
           b == IF y < 0 THEN -y ELSE y
<1>1. a \in Nat /\ b \in Nat /\ a <= c /\ b <= c
  OBVIOUS
<1>2. a * b \in Nat /\ a * b <= c * c
  BY <1>1, ProductBound
<1>3. x * y = a * b \/ x * y = -(a * b)
  OBVIOUS
<1> HIDE DEF a, b
<1> DEFINE d == a * b
           e == c * c
           z == x * y
<1>4. d \in Nat /\ d <= e /\ e \in Int /\ (z = d \/ z = -d)
  BY <1>2, <1>3
<1> HIDE DEF d, e, z
<1>5. z \in Int /\ -e <= z /\ z <= e
  BY <1>4
<1> QED
  BY <1>5 DEF z, e

\* What mul and imul leave.
ProductLeaves(k, product, overflow, f, r) ==
  /\ r.value \in Number(2 * k) /\ r.value = Wrap(2 * k, product)
  /\ r.flags \in FlagFile /\ r.flags.DF = f.DF
  /\ r.flags.CF = Bit(overflow) /\ r.flags.OF = Bit(overflow)

LEMMA ProductIs ==
  ASSUME NEW k \in Nat, k > 0, NEW product \in Int, NEW overflow, NEW f \in FlagFile
  PROVE  ProductLeaves(k, product, overflow, f, Product(k, product, overflow, f))
<1> DEFINE v == Wrap(k, product)
           sf == TopBit(k, v)
           pf == FillParityFromByte(Wrap(8, v))
           of == Bit(overflow)
           g == [[f EXCEPT !.SF = sf, !.PF = pf] EXCEPT !.CF = of, !.OF = of]
           r == Product(k, product, overflow, f)
<1>1. v \in Int
  BY WrapType, PowerType DEF Number
<1>2. sf \in {0, 1}
  BY <1>1, BitType, k - 1 \in Nat DEF TopBit
<1>3. pf \in {0, 1} /\ of \in {0, 1}
  BY DEF FillParityFromByte, Bit
<1>4. r = [value |-> Wrap(2 * k, product), flags |-> g]
  BY DEF Product, SignAndParity
<1>5. Wrap(2 * k, product) \in Number(2 * k)
  BY 2 * k \in Nat, WrapType
<1> HIDE DEF sf, pf, of, v, r
<1>6. g \in FlagFile /\ g.CF = of /\ g.OF = of /\ g.DF = f.DF
  BY <1>2, <1>3 DEF FlagFile, Flag
<1> HIDE DEF g
<1>7. r.value = Wrap(2 * k, product) /\ r.flags = g
  BY <1>4
<1> QED
  BY <1>5, <1>6, <1>7 DEF ProductLeaves, of, r

LEMMA Mul32Is ==
  ASSUME NEW k \in Nat, k > 0, NEW a \in Number(k), NEW b \in Number(k), NEW f \in FlagFile
  PROVE  ProductLeaves(k, a * b, a * b >= 2^k, f, Mul32(k, a, b, f)) /\ a * b \in Number(2 * k)
<1> DEFINE p == 2^k
           c == p - 1
<1>1. p \in Int /\ p > 0 /\ a \in Nat /\ b \in Nat /\ a <= c /\ b <= c /\ c \in Nat
  <2>1. p \in Int /\ p > 0 /\ a \in 0..(p - 1) /\ b \in 0..(p - 1)
    BY PowerType DEF Number
  <2> HIDE DEF p
  <2> QED
    BY <2>1
<1>2. a * b \in Nat /\ a * b <= c * c
  BY <1>1, ProductBound
<1>3. c * c < p * p
  <2> HIDE DEF p
  <2> QED
    BY <1>1
<1>4. 2^(2 * k) = p * p
  BY DoubleWidth
<1>5. a * b \in Number(2 * k)
  <2> HIDE DEF p
  <2>1. a * b \in 0..(p * p - 1)
    BY <1>1, <1>2, <1>3
  <2> QED
    BY <1>4, <2>1 DEF Number
<1>6. Mul32(k, a, b, f) = Product(k, a * b, a * b >= 2^k, f)
  BY DEF Mul32
<1>7. a * b \in Int
  BY <1>2
<1>8. ProductLeaves(k, a * b, a * b >= 2^k, f, Product(k, a * b, a * b >= 2^k, f))
  BY <1>7, ProductIs
<1> QED
  BY <1>5, <1>6, <1>8

LEMMA Imul32Is ==
  ASSUME NEW k \in Nat, k > 0, NEW a \in Number(k), NEW b \in Number(k), NEW f \in FlagFile
  PROVE  LET x == Signed(k, a) * Signed(k, b) IN
         ProductLeaves(k, x, Signed(k, Wrap(k, x)) # x, f, Imul32(k, a, b, f))
<1> DEFINE x == Signed(k, a) * Signed(k, b)
<1>1. Signed(k, a) \in Int /\ Signed(k, b) \in Int
  BY SignedIs DEF SignedTo
<1>2. x \in Int
  BY <1>1
<1>3. Imul32(k, a, b, f) = Product(k, x, Signed(k, Wrap(k, x)) # x, f)
  BY DEF Imul32
<1> HIDE DEF x
<1>4. ProductLeaves(k, x, Signed(k, Wrap(k, x)) # x, f, Product(k, x, Signed(k, Wrap(k, x)) # x, f))
  BY <1>2, ProductIs
<1> QED
  BY <1>3, <1>4 DEF x

LEMMA QuotientType ==
  ASSUME NEW x \in Int, NEW y \in Int, y # 0
  PROVE  Quotient(x, y) \in Int /\ Remainder(x, y) \in Int
<1> DEFINE a == Magnitude(x)
           b == Magnitude(y)
<1>1. a \in Int /\ b \in Int /\ b > 0
  BY DEF Magnitude, Sign
<1> HIDE DEF a, b
<1>2. a \div b \in Int
  BY <1>1, DivMod
<1>3. Sign(x) \in Int /\ Sign(y) \in Int
  BY DEF Sign
<1> DEFINE c == a \div b
           d == Sign(x)
           e == Sign(y)
<1>4. Quotient(x, y) = d * e * c
  BY DEF Quotient, a, b
<1> HIDE DEF c, d, e
<1>5. Quotient(x, y) \in Int
  BY <1>2, <1>3, <1>4 DEF c, d, e
<1>6. Remainder(x, y) = x - y * Quotient(x, y)
  BY DEF Remainder
<1> QED
  BY <1>5, <1>6

\* A number made twice as wide, and the register above a number.
LEMMA ExtendedType ==
  ASSUME NEW k \in Nat, k > 0, NEW v \in Number(k)
  PROVE  /\ SignExtended(k, v) \in Number(2 * k)
         /\ SignSpread(k, v) \in Number(k)
         /\ v < 2^(k - 1) => SignExtended(k, v) = v /\ SignSpread(k, v) = 0
         /\ ~ (v < 2^(k - 1)) => SignSpread(k, v) = 2^k - 1
<1> DEFINE p == 2^k
           h == 2^(k - 1)
<1>1. p = 2 * h /\ h \in Int /\ h > 0 /\ p \in Int /\ p > 0 /\ v \in 0..(p - 1) /\ 2^(2 * k) = p * p
  BY PowerHalf, PowerType, DoubleWidth DEF Number
<1>2. TopBit(k, v) = Bit(v >= h)
  BY TopBitIs
<1>3. v \in Number(2 * k)
  <2> HIDE DEF p
  <2>1. p <= p * p
    BY <1>1
  <2>2. v \in 0..(p * p - 1)
    BY <1>1, <2>1
  <2> QED
    BY <1>1, <2>2 DEF Number
<1> DEFINE a == Pair(k, 2^k - 1, 0)
           w == Bitwise(2 * k, LAMBDA x, y : x + y = 2, a, v)
<1>4. w \in Number(2 * k)
  <2> HIDE DEF a
  <2>1. w = FromBits(2 * k, AndDigits(2 * k, a, v))
    BY DEF Bitwise, AndDigits
  <2>2. 2 * k \in Nat
    OBVIOUS
  <2>3. AndDigits(2 * k, a, v) \in BitDigits(2 * k)
    BY <2>2, DigitsType
  <2> QED
    BY <2>1, <2>2, <2>3, FromBitsType
<1>5. SignExtended(k, v) = IF TopBit(k, v) = 0 THEN v ELSE w
  BY DEF SignExtended
<1>6. SignSpread(k, v) = IF TopBit(k, v) = 0 THEN 0 ELSE p - 1
  BY DEF SignSpread
<1>7. v < h <=> ~ (v >= h)
  <2> HIDE DEF p, h
  <2> QED
    BY <1>1
<1>8. 0 \in Number(k) /\ p - 1 \in Number(k)
  BY <1>1 DEF Number
<1>9. TopBit(k, v) = 0 <=> v < h
  BY <1>2, <1>7 DEF Bit
<1> HIDE DEF w
<1>10. SignExtended(k, v) = (IF v < h THEN v ELSE w) /\ SignSpread(k, v) = (IF v < h THEN 0 ELSE p - 1)
  BY <1>5, <1>6, <1>9
<1> QED
  BY <1>3, <1>4, <1>8, <1>10

--------------------------------------------------------------------------------
(* Decimal instructions *)

Byte == 0..255

\* What the decimal instructions leave in the halves of AX, and in CF.
DecimalLeaves(op, ah, al, f, r) ==
  /\ r.ah \in Byte /\ r.al \in Byte /\ r.flags \in FlagFile /\ r.flags.DF = f.DF
  /\ op = "daa" => /\ r.ah = ah
                   /\ r.al = (IF AdjustsHigh(al, f) THEN (IF Adjusts(al, f) THEN al + 6 ELSE al) + 96
                              ELSE IF Adjusts(al, f) THEN al + 6 ELSE al) % 256
                   /\ r.flags.CF = Bit(AdjustsHigh(al, f))
  /\ op = "das" => /\ r.ah = ah
                   /\ r.al = (IF AdjustsHigh(al, f) THEN (IF Adjusts(al, f) THEN al - 6 ELSE al) - 96
                              ELSE IF Adjusts(al, f) THEN al - 6 ELSE al) % 256
                   /\ r.flags.CF = Bit(AdjustsHigh(al, f) \/ (Adjusts(al, f) /\ al < 6))
  /\ op = "aaa" => LET whole == (ah * 256 + al + (IF Adjusts(al, f) THEN 262 ELSE 0)) % 65536 IN
                   r.ah = whole \div 256 /\ r.al = whole % 16
  /\ op = "aas" => LET whole == ((ah * 256 + al) - (IF Adjusts(al, f) THEN 6 ELSE 0)) % 65536 IN
                   r.ah = (whole \div 256 - Bit(Adjusts(al, f))) % 256 /\ r.al = whole % 16
  /\ op = "aam" => r.ah = al \div 10 /\ r.al = al % 10
  /\ op = "aad" => r.ah = 0 /\ r.al = (al + ah * 10) % 256

DecimalGives(ah, al, cf, f, r) ==
  r.ah = ah /\ r.al = al /\ r.flags \in FlagFile /\ r.flags.CF = cf /\ r.flags.DF = f.DF

LEMMA DecimalKeeps ==
  ASSUME NEW ah, NEW al, NEW tested \in Int, NEW f \in FlagFile
  PROVE  DecimalGives(ah, al, f.CF, f, Decimal(ah, al, tested, f))
BY ByResultTells DEF DecimalGives, Decimal, TellsOf

LEMMA DaaIs ==
  ASSUME NEW ah \in Byte, NEW al \in Byte, NEW f \in FlagFile
  PROVE  DecimalLeaves("daa", ah, al, f, Daa(ah, al, f))
<1> DEFINE low == IF Adjusts(al, f) THEN al + 6 ELSE al
           v == IF AdjustsHigh(al, f) THEN low + 96 ELSE low
           r == Daa(ah, al, f)
<1>1. v \in Int
  BY DEF Byte
<1>2. 2^8 = 256
  OBVIOUS
<1>3. Daa(ah, al, f) = Decimal(ah, v % 256, v % 256,
                               [f EXCEPT !.AF = Bit(Adjusts(al, f)), !.CF = Bit(AdjustsHigh(al, f))])
  BY <1>2 DEF Daa, Wrap
<1> HIDE DEF v, r
<1>4. v % 256 \in 0..255 /\ v % 256 \in Int
  BY <1>1
<1> DEFINE cf == Bit(AdjustsHigh(al, f))
           af == Bit(Adjusts(al, f))
           g == [f EXCEPT !.AF = af, !.CF = cf]
<1>5. cf \in {0, 1} /\ af \in {0, 1} /\ r = Decimal(ah, v % 256, v % 256, g)
  BY <1>3 DEF Bit, r
<1> HIDE DEF cf, af
<1>6. g \in FlagFile /\ g.CF = cf /\ g.DF = f.DF
  BY <1>5 DEF FlagFile, Flag
<1> HIDE DEF g
<1>7. DecimalGives(ah, v % 256, g.CF, g, r)
  BY <1>4, <1>5, <1>6, DecimalKeeps
<1> QED
  BY <1>4, <1>6, <1>7 DEF DecimalLeaves, DecimalGives, Byte, r, v, cf

LEMMA DasIs ==
  ASSUME NEW ah \in Byte, NEW al \in Byte, NEW f \in FlagFile
  PROVE  DecimalLeaves("das", ah, al, f, Das(ah, al, f))
<1> DEFINE low == IF Adjusts(al, f) THEN al - 6 ELSE al
           v == IF AdjustsHigh(al, f) THEN low - 96 ELSE low
           borrow == AdjustsHigh(al, f) \/ (Adjusts(al, f) /\ al < 6)
           r == Das(ah, al, f)
<1>1. v \in Int
  BY DEF Byte
<1>2. 2^8 = 256
  OBVIOUS
<1>3. Das(ah, al, f) = Decimal(ah, v % 256, v % 256,
                               [f EXCEPT !.AF = Bit(Adjusts(al, f)), !.CF = Bit(borrow)])
  BY <1>2 DEF Das, Wrap
<1> HIDE DEF v, r
<1>4. v % 256 \in 0..255 /\ v % 256 \in Int
  BY <1>1
<1> DEFINE cf == Bit(borrow)
           af == Bit(Adjusts(al, f))
           g == [f EXCEPT !.AF = af, !.CF = cf]
<1>5. cf \in {0, 1} /\ af \in {0, 1} /\ r = Decimal(ah, v % 256, v % 256, g)
  BY <1>3 DEF Bit, r
<1> HIDE DEF cf, af
<1>6. g \in FlagFile /\ g.CF = cf /\ g.DF = f.DF
  BY <1>5 DEF FlagFile, Flag
<1> HIDE DEF g
<1>7. DecimalGives(ah, v % 256, g.CF, g, r)
  BY <1>4, <1>5, <1>6, DecimalKeeps
<1> QED
  BY <1>4, <1>6, <1>7 DEF DecimalLeaves, DecimalGives, Byte, r, v, cf

LEMMA AaaIs ==
  ASSUME NEW ah \in Byte, NEW al \in Byte, NEW f \in FlagFile
  PROVE  DecimalLeaves("aaa", ah, al, f, Aaa(ah, al, f))
<1> DEFINE x == ah * 256 + al + (IF Adjusts(al, f) THEN 262 ELSE 0)
           p == 65536
           w == x % p
           carry == Bit(Adjusts(al, f))
           r == Aaa(ah, al, f)
<1>1. 2^8 = 256 /\ 2^16 = p /\ p = 256 * 256 /\ p \in Int
  OBVIOUS
<1> HIDE DEF p
<1>2. r = Decimal(w \div 256, w % 16, w % 256, [f EXCEPT !.AF = carry, !.CF = carry])
  BY <1>1 DEF Aaa, Wrap, Pair
<1>3. x \in Int /\ carry \in {0, 1}
  BY DEF Byte, Bit
<1> HIDE DEF x, carry, r
<1>4. w \in Int /\ w \div 256 \in 0..255
  BY <1>1, <1>3
<1> HIDE DEF w
<1>5. w \div 256 \in 0..255 /\ w % 16 \in 0..255 /\ w % 256 \in Int
  <2>2. w % 16 \in 0..15
    BY <1>4
  <2>3. w % 256 \in 0..255
    BY <1>4
  <2> QED
    BY <1>4, <2>2, <2>3
<1> DEFINE g == [f EXCEPT !.AF = carry, !.CF = carry]
<1>6. g \in FlagFile /\ g.CF = carry /\ g.DF = f.DF
  BY <1>3 DEF FlagFile, Flag
<1>7. r = Decimal(w \div 256, w % 16, w % 256, g)
  BY <1>2
<1> HIDE DEF g
<1>8. DecimalGives(w \div 256, w % 16, g.CF, g, r)
  BY <1>5, <1>6, <1>7, DecimalKeeps
<1> QED
  BY <1>5, <1>6, <1>8 DEF DecimalLeaves, DecimalGives, Byte, r, w, x, p

LEMMA AasIs ==
  ASSUME NEW ah \in Byte, NEW al \in Byte, NEW f \in FlagFile
  PROVE  DecimalLeaves("aas", ah, al, f, Aas(ah, al, f))
<1> DEFINE x == (ah * 256 + al) - (IF Adjusts(al, f) THEN 6 ELSE 0)
           p == 65536
           w == x % p
           carry == Bit(Adjusts(al, f))
           r == Aas(ah, al, f)
           u == (w \div 256 - carry) % 256
<1>1. 2^8 = 256 /\ 2^16 = p /\ p = 256 * 256 /\ p \in Int
  OBVIOUS
<1> HIDE DEF p
<1>3. x \in Int /\ carry \in {0, 1}
  BY DEF Byte, Bit
<1> HIDE DEF x, carry, r
<1>2. r = Decimal(u, w % 16, w % 16, [f EXCEPT !.AF = carry, !.CF = carry])
  <2>1. Wrap(16, x) = w /\ Wrap(8, w \div 256 - carry) = u
    BY <1>1 DEF Wrap
  <2>2. x = Pair(8, ah, al) - (IF Adjusts(al, f) THEN 6 ELSE 0)
    <3>1. Pair(8, ah, al) = ah * 256 + al
      BY <1>1 DEF Pair
    <3> QED
      BY <3>1, Zenon DEF x
  <2>3. r = Decimal(Wrap(8, Wrap(16, x) \div 256 - carry), Wrap(16, x) % 16, Wrap(16, x) % 16,
                    [f EXCEPT !.AF = carry, !.CF = carry])
    BY <2>2, ZenonT(60) DEF Aas, carry, r
  <2> HIDE DEF w, u
  <2> QED
    BY <2>1, <2>3, Zenon
<1>4. w \in Int /\ w \div 256 \in 0..255
  BY <1>1, <1>3
<1> HIDE DEF w
<1>5. u \in 0..255 /\ w % 16 \in 0..255 /\ w % 16 \in Int
  <2>1. w \div 256 - carry \in Int
    BY <1>3, <1>4
  <2>2. w % 16 \in 0..15
    BY <1>4
  <2> DEFINE y == w \div 256 - carry
  <2> HIDE DEF y
  <2>3. y % 256 \in 0..255
    BY <2>1 DEF y
  <2> QED
    BY <2>2, <2>3 DEF y
<1> HIDE DEF u
<1> DEFINE g == [f EXCEPT !.AF = carry, !.CF = carry]
<1>6. g \in FlagFile /\ g.CF = carry /\ g.DF = f.DF
  BY <1>3 DEF FlagFile, Flag
<1>7. r = Decimal(u, w % 16, w % 16, g)
  BY <1>2
<1> HIDE DEF g
<1>8. DecimalGives(u, w % 16, g.CF, g, r)
  BY <1>5, <1>6, <1>7, DecimalKeeps
<1> QED
  BY <1>5, <1>6, <1>8 DEF DecimalLeaves, DecimalGives, Byte, r, w, x, p, u, carry

LEMMA AamIs ==
  ASSUME NEW ah \in Byte, NEW al \in Byte, NEW f \in FlagFile
  PROVE  DecimalLeaves("aam", ah, al, f, Aam(ah, al, f))
<1> DEFINE r == Aam(ah, al, f)
<1>1. r = Decimal(al \div 10, al % 10, al % 10, f)
  BY DEF Aam
<1>2. al \div 10 \in Byte /\ al % 10 \in Byte /\ al % 10 \in Int
  BY DEF Byte
<1> HIDE DEF r
<1>3. DecimalGives(al \div 10, al % 10, f.CF, f, r)
  BY <1>1, <1>2, DecimalKeeps
<1> QED
  BY <1>2, <1>3 DEF DecimalLeaves, DecimalGives, r

LEMMA AadIs ==
  ASSUME NEW ah \in Byte, NEW al \in Byte, NEW f \in FlagFile
  PROVE  DecimalLeaves("aad", ah, al, f, Aad(ah, al, f))
<1> DEFINE v == (al + ah * 10) % 256
           r == Aad(ah, al, f)
<1>1. 2^8 = 256
  OBVIOUS
<1>2. r = Decimal(0, v, v, f)
  BY <1>1 DEF Aad, Wrap
<1>3. v \in 0..255 /\ v \in Int
  BY DEF Byte
<1> HIDE DEF r, v
<1>4. DecimalGives(0, v, f.CF, f, r)
  BY <1>2, <1>3, DecimalKeeps
<1> QED
  BY <1>3, <1>4 DEF DecimalLeaves, DecimalGives, Byte, r, v

--------------------------------------------------------------------------------
(* Bits of numbers made from one another *)

LEMMA DivTwice ==
  ASSUME NEW v \in Int, NEW p \in Int, p > 0, NEW q \in Int, q > 0
  PROVE  (v \div p) \div q = v \div (p * q)
<1> DEFINE c == v \div p
           r == v % p
           d == c \div q
           e == c % q
<1>1. v = p * c + r /\ c \in Int /\ r \in 0..(p - 1)
  BY DivMod
<1>2. c = q * d + e /\ d \in Int /\ e \in 0..(q - 1)
  BY <1>1, DivMod
<1> HIDE DEF c, r, d, e
<1> DEFINE m == p * q
           f == e * p + r
<1>3. m \in Int /\ f \in Int /\ v = d * m + f
  BY <1>1, <1>2
<1>4. f \in 0..(m - 1)
  <2>1. e * p >= 0 /\ e * p <= (q - 1) * p
    BY <1>2
  <2>2. (q - 1) * p = m - p /\ e * p \in Int
    BY <1>2
  <2> QED
    BY <1>1, <1>3, <2>1, <2>2
<1> HIDE DEF m, f
<1>5. (d * m + f) \div m = d
  BY <1>2, <1>3, <1>4, DivModUnique
<1> QED
  BY <1>3, <1>5 DEF m, d, c

\* The bits of a number above its lower j bits are those of the rest.
LEMMA UpperBits ==
  ASSUME NEW j \in Nat, NEW i \in Nat, NEW v \in Int
  PROVE  BitAt(v, j + i) = BitAt(v \div 2^j, i)
<1>1. 2^j \in Int /\ 2^j > 0 /\ 2^i \in Int /\ 2^i > 0 /\ 2^(j + i) = 2^j * 2^i
  BY PowerType, PowerSum
<1>2. (v \div 2^j) \div 2^i = v \div (2^j * 2^i)
  BY <1>1, DivTwice
<1> QED
  BY <1>1, <1>2 DEF BitAt

LEMMA NoBits ==
  ASSUME NEW i \in Nat
  PROVE  BitAt(0, i) = 0
<1> DEFINE p == 2^i
<1>1. p \in Int /\ p > 0
  BY PowerType
<1> HIDE DEF p
<1>2. (0 \div p) % 2 = 0
  <2>1. 0 \div p = 0
    BY <1>1
  <2>2. 0 % 2 = 0
    OBVIOUS
  <2> QED
    BY <2>1, <2>2
<1> QED
  BY <1>2 DEF BitAt, p

LEMMA NotBits ==
  ASSUME NEW k \in Nat, NEW v \in Number(k), NEW i \in 0..(k - 1)
  PROVE  BitAt(2^k - 1 - v, i) = 1 - BitAt(v, i)
<1> DEFINE p == 2^i
           c == v \div p
           r == v % p
           m == 2^(k - i)
<1>1. i \in Nat /\ k - i \in Nat /\ i + (k - i) = k /\ k - i > 0 /\ (k - i) - 1 \in Nat
  OBVIOUS
<1>2. p \in Int /\ p > 0 /\ m \in Int /\ 2^k = p * m /\ v \in Int
  BY <1>1, PowerType, PowerSum DEF Number
<1>3. m = 2 * 2^((k - i) - 1) /\ 2^((k - i) - 1) \in Int
  BY <1>1, PowerHalf, PowerType
<1> DEFINE h == 2^((k - i) - 1)
<1> HIDE DEF m, p, h
<1>4. v = p * c + r /\ c \in Int /\ r \in 0..(p - 1)
  BY <1>2, DivMod
<1> HIDE DEF c, r
<1>5. p * m - 1 - v = (m - 1 - c) * p + (p - 1 - r)
  BY <1>2, <1>4
<1>6. (p * m - 1 - v) \div p = m - 1 - c
  <2> DEFINE q == m - 1 - c
             e == p - 1 - r
  <2>1. q \in Int /\ e \in 0..(p - 1) /\ p * m - 1 - v = q * p + e
    BY <1>2, <1>4, <1>5
  <2> HIDE DEF q, e
  <2>2. (q * p + e) \div p = q
    BY <1>2, <2>1, DivModUnique
  <2> QED
    BY <2>1, <2>2 DEF q
<1>7. (m - 1 - c) % 2 = 1 - (c % 2)
  <2>1. m = 2 * h /\ h \in Int
    BY <1>3 DEF h
  <2> QED
    BY <1>4, <2>1
<1> QED
  BY <1>2, <1>6, <1>7 DEF BitAt, c, p

LEMMA AllBits ==
  ASSUME NEW k \in Nat, NEW i \in 0..(k - 1)
  PROVE  BitAt(2^k - 1, i) = 1
<1>1. 0 \in Number(k) /\ 2^k \in Int
  BY PowerType DEF Number
<1>2. BitAt(2^k - 1 - 0, i) = 1 - BitAt(0, i)
  BY <1>1, NotBits
<1> QED
  BY <1>1, <1>2, NoBits

LEMMA ScaledBits ==
  ASSUME NEW j \in Nat, NEW i \in Nat, NEW q \in Int
  PROVE  /\ i < j => BitAt(q * 2^j, i) = 0
         /\ BitAt(q * 2^j, j + i) = BitAt(q, i)
<1> DEFINE p == 2^j
           v == q * p
<1>1. p \in Int /\ p > 0 /\ v \in Int
  BY PowerType
<1> HIDE DEF p
<1>2. v = q * p + 0 /\ 0 \in 0..(p - 1)
  BY <1>1
<1>3. v \div p = q
  BY <1>1, <1>2, DivModUnique
<1>4. BitAt(v, j + i) = BitAt(v \div 2^j, i)
  BY <1>1, UpperBits
<1>5. i < j => BitAt(q * 2^j + 0, i) = BitAt(0, i)
  <2>1. ASSUME i < j, NEW z \in Int
        PROVE  BitAt(q * 2^j + z, i) = BitAt(z, i)
    BY <2>1, LowerBits
  <2>2. 0 \in Int
    OBVIOUS
  <2> QED
    BY <2>1, <2>2, Zenon
<1>6. BitAt(0, i) = 0
  BY NoBits
<1>7. q * 2^j + 0 = v
  BY <1>2 DEF p
<1> QED
  BY <1>3, <1>4, <1>5, <1>6, <1>7 DEF p

--------------------------------------------------------------------------------
(* What the logical instructions make of numbers they are given as masks *)

LEMMA LogicBits ==
  ASSUME NEW k \in Nat, NEW a \in Int, NEW b \in Int, NEW i \in 0..(k - 1)
  PROVE  /\ BitAt(FromBits(k, AndDigits(k, a, b)), i) = Bit(BitAt(a, i) + BitAt(b, i) = 2)
         /\ BitAt(FromBits(k, OrDigits(k, a, b)), i) = Bit(BitAt(a, i) + BitAt(b, i) >= 1)
         /\ BitAt(FromBits(k, XorDigits(k, a, b)), i) = Bit(BitAt(a, i) # BitAt(b, i))
         /\ BitAt(a, i) \in {0, 1} /\ BitAt(b, i) \in {0, 1}
<1>1. ASSUME NEW digits \in BitDigits(k)
      PROVE  BitAt(FromBits(k, digits), i) = digits[i]
  BY <1>1, FromBitsBits DEF HasBits
<1>2. i \in Nat
  OBVIOUS
<1>3. BitAt(a, i) \in {0, 1} /\ BitAt(b, i) \in {0, 1}
  BY <1>2, BitType
<1>4. /\ AndDigits(k, a, b)[i] = Bit(BitAt(a, i) + BitAt(b, i) = 2)
      /\ OrDigits(k, a, b)[i] = Bit(BitAt(a, i) + BitAt(b, i) >= 1)
      /\ XorDigits(k, a, b)[i] = Bit(BitAt(a, i) # BitAt(b, i))
  BY DEF AndDigits, OrDigits, XorDigits
<1> QED
  BY <1>1, <1>3, <1>4, DigitsType

LEMMA LogicType ==
  ASSUME NEW k \in Nat, NEW a, NEW b
  PROVE  /\ FromBits(k, AndDigits(k, a, b)) \in Number(k)
         /\ FromBits(k, OrDigits(k, a, b)) \in Number(k)
         /\ FromBits(k, XorDigits(k, a, b)) \in Number(k)
BY DigitsType, FromBitsType

\* A number with no bit is 0, a register with every bit 2^k - 1.
LEMMA AndNothing ==
  ASSUME NEW k \in Nat, NEW v \in Number(k)
  PROVE  /\ FromBits(k, AndDigits(k, 0, v)) = 0
         /\ FromBits(k, XorDigits(k, v, 0)) = v
<1>1. 0 \in Number(k) /\ v \in Int
  BY PowerType DEF Number
<1>2. ASSUME NEW i \in 0..(k - 1)
      PROVE  /\ BitAt(FromBits(k, AndDigits(k, 0, v)), i) = BitAt(0, i)
             /\ BitAt(FromBits(k, XorDigits(k, v, 0)), i) = BitAt(v, i)
  <2>1. BitAt(0, i) = 0
    BY NoBits
  <2> QED
    BY <1>1, <2>1, LogicBits DEF Bit
<1>3. FromBits(k, AndDigits(k, 0, v)) \in Number(k) /\ FromBits(k, XorDigits(k, v, 0)) \in Number(k)
  BY LogicType
<1> QED
  BY <1>1, <1>2, <1>3, BitsDetermine

LEMMA AndEverything ==
  ASSUME NEW k \in Nat, NEW v \in Number(k)
  PROVE  /\ FromBits(k, AndDigits(k, 2^k - 1, v)) = v
         /\ FromBits(k, XorDigits(k, v, 2^k - 1)) = 2^k - 1 - v
<1> DEFINE p == 2^k
           m == p - 1
           c == p - 1 - v
<1>1. m \in Int /\ v \in Int /\ c \in Number(k)
  <2>1. p \in Int /\ v \in 0..(p - 1)
    BY PowerType DEF Number
  <2> HIDE DEF p
  <2>2. m \in Int /\ v \in Int /\ c \in 0..(p - 1)
    BY <2>1
  <2> QED
    BY <2>2 DEF Number, p
<1>2. ASSUME NEW i \in 0..(k - 1)
      PROVE  BitAt(m, i) = 1 /\ BitAt(c, i) = 1 - BitAt(v, i)
  BY <1>2, AllBits, NotBits
<1> HIDE DEF p, m, c
<1>3. ASSUME NEW i \in 0..(k - 1)
      PROVE  /\ BitAt(FromBits(k, AndDigits(k, m, v)), i) = BitAt(v, i)
             /\ BitAt(FromBits(k, XorDigits(k, v, m)), i) = BitAt(c, i)
  BY <1>1, <1>2, <1>3, LogicBits DEF Bit
<1>4. FromBits(k, AndDigits(k, m, v)) \in Number(k) /\ FromBits(k, XorDigits(k, v, m)) \in Number(k)
  BY LogicType
<1>5. FromBits(k, AndDigits(k, m, v)) = v /\ FromBits(k, XorDigits(k, v, m)) = c
  BY <1>1, <1>3, <1>4, BitsDetermine
<1> QED
  BY <1>5 DEF p, m, c

\* A mask of all bits but the lower j rounds down.
LEMMA AndMask ==
  ASSUME NEW k \in Nat, NEW j \in 0..k, NEW v \in Number(k)
  PROVE  FromBits(k, AndDigits(k, v, 2^k - 2^j)) = v - (v % 2^j)
<1> DEFINE p == 2^j
           u == 2^(k - j)
           q == v \div p
           mask == 2^k - p
           rest == v - (v % p)
<1>1. j \in Nat /\ k - j \in Nat /\ j + (k - j) = k
  OBVIOUS
<1>2. p \in Int /\ p > 0 /\ u \in Int /\ u > 0 /\ 2^k = p * u /\ v \in 0..(2^k - 1) /\ v \in Int
  BY <1>1, PowerType, PowerSum DEF Number
<1>3. v = p * q + (v % p) /\ q \in Int /\ v % p \in 0..(p - 1)
  BY <1>2, DivMod
<1> DEFINE r == v % p
<1> HIDE DEF q, r, p, u
<1>4. mask = (u - 1) * p /\ rest = q * p /\ mask \in Int /\ rest \in Int
  BY <1>2, <1>3 DEF r
<1>5. rest \in 0..(2^k - 1)
  <2>1. q >= 0
    <3>1. p * q > -p
      BY <1>2, <1>3 DEF r
    <3>2. q < 0 => p * q <= -p
      BY <1>2, <1>3
    <3> QED
      BY <1>2, <1>3, <3>1, <3>2
  <2>2. q * p >= 0
    BY <1>2, <1>3, <2>1
  <2> QED
    BY <1>2, <1>3, <1>4, <2>2 DEF r
<1> HIDE DEF mask, rest
<1>6. ASSUME NEW i \in 0..(k - 1)
      PROVE  BitAt(FromBits(k, AndDigits(k, v, mask)), i) = BitAt(rest, i)
  <2>1. i \in Nat
    OBVIOUS
  <2>2. BitAt(FromBits(k, AndDigits(k, v, mask)), i) = Bit(BitAt(v, i) + BitAt(mask, i) = 2) /\ BitAt(v, i) \in {0, 1}
    BY <1>2, <1>4, LogicBits
  <2>3. CASE i < j
    <3>0. ASSUME NEW z \in Int
          PROVE  BitAt(z * 2^j, i) = 0
      BY <1>1, <2>1, <2>3, <3>0, ScaledBits
    <3>1. BitAt((u - 1) * 2^j, i) = 0 /\ BitAt(q * 2^j, i) = 0
      <4>1. u - 1 \in Int /\ q \in Int
        BY <1>2, <1>3
      <4> QED
        BY <3>0, <4>1, Zenon
    <3>2. BitAt(mask, i) = 0 /\ BitAt(rest, i) = 0
      BY <1>4, <3>1 DEF p
    <3> QED
      BY <2>2, <3>2 DEF Bit
  <2>4. CASE ~ (i < j)
    <3> DEFINE h == i - j
    <3>1. h \in Nat /\ j + h = i /\ h \in 0..((k - j) - 1)
      BY <1>1, <2>1, <2>4
    <3> HIDE DEF h
    <3>2. BitAt((u - 1) * 2^j, j + h) = BitAt(u - 1, h) /\ BitAt(q * 2^j, j + h) = BitAt(q, h)
      BY <1>1, <1>2, <1>3, <3>1, ScaledBits
    <3>3. BitAt(u - 1, h) = 1
      BY <1>1, <3>1, AllBits DEF u
    <3>4. BitAt(v, j + h) = BitAt(v \div 2^j, h)
      BY <1>1, <1>2, <3>1, UpperBits
    <3>5. BitAt(mask, i) = 1 /\ BitAt(rest, i) = BitAt(v, i)
      BY <1>4, <3>1, <3>2, <3>3, <3>4 DEF p, q
    <3> QED
      BY <2>2, <3>5 DEF Bit
  <2> QED
    BY <2>3, <2>4
<1>7. FromBits(k, AndDigits(k, v, mask)) \in Number(k) /\ rest \in Number(k)
  BY <1>5, LogicType DEF Number
<1>8. FromBits(k, AndDigits(k, v, mask)) = rest
  BY <1>6, <1>7, BitsDetermine
<1> QED
  BY <1>8 DEF mask, rest, p

\* Setting the sign bit and flipping it clears it.
LEMMA SignCleared ==
  ASSUME NEW k \in Nat, k > 0, NEW v \in Number(k)
  PROVE  FromBits(k, XorDigits(k, FromBits(k, OrDigits(k, v, 2^(k - 1))), 2^(k - 1))) = v - TopBit(k, v) * 2^(k - 1)
<1> DEFINE j == k - 1
           h == 2^j
           set == FromBits(k, OrDigits(k, v, h))
           cleared == FromBits(k, XorDigits(k, set, h))
           t == TopBit(k, v)
           rest == v - t * h
<1>1. j \in Nat /\ j < k /\ h \in Int /\ h > 0 /\ 2^k = 2 * h /\ v \in 0..(2 * h - 1) /\ v \in Int
  BY PowerType, PowerHalf DEF Number
<1>2. set \in Int /\ cleared \in Number(k)
  BY LogicType DEF Number
<1>3. t = Bit(v >= h)
  BY TopBitIs
<1> HIDE DEF set, cleared, t
<1>4. t \in {0, 1} /\ rest \in 0..(h - 1) /\ v = t * h + rest /\ rest \in Int
  BY <1>1, <1>3 DEF Bit
<1>5. rest \in Number(k)
  BY <1>1, <1>4 DEF Number
<1>6. h = 1 * 2^j
  BY <1>1
<1>7. ASSUME NEW i \in 0..(k - 1)
      PROVE  BitAt(cleared, i) = BitAt(rest, i)
  <2>1. i \in Nat /\ (i < j \/ i = j)
    BY <1>1
  <2>2. /\ BitAt(set, i) = Bit(BitAt(v, i) + BitAt(h, i) >= 1) /\ BitAt(v, i) \in {0, 1}
        /\ BitAt(cleared, i) = Bit(BitAt(set, i) # BitAt(h, i)) /\ BitAt(h, i) \in {0, 1}
    BY <1>1, <1>2, LogicBits DEF set, cleared
  <2>3. CASE i < j
    <3>0. ASSUME NEW z \in Int
          PROVE  BitAt(z * 2^j, i) = 0
      BY <1>1, <2>1, <2>3, <3>0, ScaledBits
    <3>1. BitAt(1 * 2^j, i) = 0
      <4>1. 1 \in Int
        OBVIOUS
      <4> QED
        BY <3>0, <4>1, Zenon
    <3>2. BitAt(t * 2^j + rest, i) = BitAt(rest, i)
      BY <1>1, <1>4, <2>1, <2>3, LowerBits
    <3>3. BitAt(h, i) = 0 /\ BitAt(v, i) = BitAt(rest, i)
      BY <1>4, <1>6, <3>1, <3>2, Zenon
    <3> QED
      BY <2>2, <3>3 DEF Bit
  <2>4. CASE i = j
    <3>1. TopBit(k, h) = Bit(h >= h) /\ TopBit(k, rest) = Bit(rest >= h)
      <4>1. h \in Number(k)
        BY <1>1 DEF Number
      <4> QED
        BY <1>5, <4>1, TopBitIs
    <3>2. BitAt(h, i) = 1 /\ BitAt(rest, i) = 0
      BY <1>1, <1>4, <2>4, <3>1 DEF TopBit, Bit
    <3> QED
      BY <2>2, <3>2 DEF Bit
  <2> QED
    BY <2>1, <2>3, <2>4
<1>8. cleared = rest
  BY <1>2, <1>5, <1>7, BitsDetermine
<1> QED
  BY <1>8 DEF cleared, set, rest, t, h, j

--------------------------------------------------------------------------------
(* What passes from one register of a pair to the other *)

LEMMA SignedPair ==
  ASSUME NEW k \in Nat, k > 0, NEW high \in Number(k), NEW low \in Number(k)
  PROVE  /\ Pair(k, high, low) \in Number(2 * k)
         /\ Signed(2 * k, Pair(k, high, low)) = Signed(k, high) * 2^k + low
<1> DEFINE p == 2^k
           h == 2^(k - 1)
           u == Signed(k, high)
           x == u * p + low
           v == high * p + low
<1>1. p \in Int /\ h \in Int /\ h > 0 /\ p = 2 * h /\ high \in 0..(p - 1) /\ low \in 0..(p - 1)
  BY PowerHalf DEF Number
<1>2. 2^(2 * k) = p * p /\ 2 * k \in Nat /\ 2 * k > 0 /\ 2^(2 * k - 1) = 2 * (h * h)
  BY DoubleWidth
<1>3. u \in Int /\ -h <= u /\ u < h /\ (u = high \/ u = high - p)
  BY SignedIs DEF SignedTo
<1> HIDE DEF p, h, u
<1>4. /\ p * p \in Int /\ u * p \in Int /\ high * p \in Int /\ p * p = 2 * (h * p) /\ p * h = h * p
      /\ 2 * (h * h) = h * p /\ h * p \in Int /\ p > 0
  BY <1>1, <1>3
<1>5. 0 <= high * p /\ high * p <= (p - 1) * p /\ -h * p <= u * p /\ u * p <= (h - 1) * p
  BY <1>1, <1>3
<1>6. v \in 0..(p * p - 1)
  <2>1. (p - 1) * p = p * p - p
    BY <1>1
  <2> QED
    BY <1>1, <1>4, <1>5, <2>1
<1>7. x \in Int /\ -(h * p) <= x /\ x < h * p
  <2>1. (h - 1) * p = h * p - p /\ -h * p = -(h * p)
    BY <1>1
  <2> QED
    BY <1>1, <1>4, <1>5, <2>1
<1>8. \E q \in Int : x = q * (p * p) + v
  <2>1. CASE u = high
    <3>1. x = 0 * (p * p) + v
      BY <1>1, <1>4, <2>1
    <3> QED
      BY <3>1
  <2>2. CASE u = high - p
    <3>1. u * p = high * p - p * p
      BY <1>1, <2>2
    <3>2. x = (-1) * (p * p) + v
      BY <1>1, <1>4, <3>1
    <3> QED
      BY <3>2
  <2> QED
    BY <1>3, <2>1, <2>2
<1> HIDE DEF x, v
<1>9. v \in Number(2 * k)
  BY <1>2, <1>6 DEF Number
<1>10. Wrap(2 * k, x) = v
  <2>1. PICK q \in Int : x = q * (p * p) + v
    BY <1>8
  <2> DEFINE e == 2 * k
  <2>2. e \in Nat /\ v \in Number(e) /\ 2^e = p * p
    BY <1>2, <1>9
  <2> HIDE DEF e
  <2>3. Wrap(e, q * 2^e + v) = v
    BY <2>2, WrapIs
  <2> QED
    BY <2>1, <2>2, <2>3 DEF e
<1>11. Signed(2 * k, Wrap(2 * k, x)) = x
  <2> DEFINE e == 2 * k
             m == 2^(e - 1)
  <2>1. e \in Nat /\ e > 0 /\ m = h * p
    BY <1>2, <1>4
  <2>2. -m <= x /\ x < m
    BY <1>7, <2>1
  <2> HIDE DEF e
  <2> QED
    BY <1>7, <2>1, <2>2, SignedWrap DEF e
<1> QED
  BY <1>9, <1>10, <1>11 DEF Pair, p, u, x, v

LEMMA RotatedLeftOnce ==
  ASSUME NEW k \in Nat, k > 1, NEW a \in Number(k), NEW f \in FlagFile, NEW made,
         RotationMakes("rcl", k, a, 1, f, made)
  PROVE  made.value + made.carry * 2^k = 2 * a + f.CF
<1>1. f.CF \in {0, 1} /\ 1 \in Nat /\ 2^1 = 2 /\ 1 % (k + 1) = 1 /\ 1 + k = k + 1
  BY DEF FlagFile, Flag
<1>2. f.CF \in Number(1)
  BY <1>1 DEF Number
<1>3. RotateLeft(1 + k, f.CF * 2^k + a, 1) = a * 2^1 + f.CF
  BY <1>1, <1>2, RotateIs
<1>4. Pair(k, made.carry, made.value) = RotateLeft(k + 1, Pair(k, f.CF, a), 1)
  BY <1>1 DEF RotationMakes
<1>5. made.carry * 2^k + made.value = a * 2 + f.CF
  BY <1>1, <1>3, <1>4 DEF Pair
<1>6. made.value \in Int /\ made.carry \in Int /\ a \in Int
  BY DEF RotationMakes, Number
<1> DEFINE p == 2^k
           v == made.value
           c == made.carry
<1>7. p \in Int
  BY PowerType
<1> HIDE DEF p, v, c
<1>8. v + c * p = 2 * a + f.CF
  BY <1>1, <1>5, <1>6, <1>7 DEF p, v, c
<1> QED
  BY <1>8 DEF p, v, c

LEMMA RotatedRightOnce ==
  ASSUME NEW k \in Nat, k > 1, NEW a \in Number(k), NEW f \in FlagFile, NEW made,
         RotationMakes("rcr", k, a, 1, f, made)
  PROVE  2 * made.value + made.carry = a + f.CF * 2^k
<1> DEFINE p == 2^k
           h == 2^(k - 1)
           x == a \div 2
           y == a % 2
           top == f.CF * h + x
           v == made.value
           c == made.carry
<1>1. /\ f.CF \in {0, 1} /\ 1 \in Nat /\ 2^1 = 2 /\ 1 % (k + 1) = 1 /\ (k + 1) - 1 = k
      /\ k % (k + 1) = k /\ k + 1 - 1 = k /\ k - 1 \in Nat
  BY DEF FlagFile, Flag
<1>2. p \in Int /\ h \in Int /\ h > 0 /\ p = 2 * h /\ a \in 0..(p - 1) /\ a \in Int
  BY PowerHalf DEF Number
<1>3. v \in 0..(p - 1) /\ c \in {0, 1}
  BY DEF RotationMakes, Number
<1> HIDE DEF p, h, v, c
<1>4. a = 2 * x + y /\ x \in Int /\ y \in 0..1
  BY <1>2, DivMod
<1> HIDE DEF x, y
<1>5. x \in 0..(h - 1)
  BY <1>2, <1>4
<1>6. top \in 0..(p - 1) /\ f.CF * p + a = top * 2 + y /\ top \in Int
  BY <1>1, <1>2, <1>4, <1>5
<1> HIDE DEF top
<1>7. top \in Number(k) /\ y \in Number(1)
  BY <1>1, <1>4, <1>6 DEF Number, p
<1>8. RotateLeft(k + 1, top * 2^1 + y, k) = y * 2^k + top
  BY <1>1, <1>7, RotateIs
<1>9. Pair(k, made.carry, made.value) = RotateLeft(k + 1, Pair(k, f.CF, a), k)
  <2>1. Pair(k, made.carry, made.value)
          = RotateLeft(k + 1, Pair(k, f.CF, a), (k + 1 - (1 % (k + 1))) % (k + 1))
    BY DEF RotationMakes
  <2>2. (k + 1 - (1 % (k + 1))) % (k + 1) = k
    BY <1>1
  <2> QED
    BY <2>1, <2>2
<1>10. c * p + v = y * p + top
  BY <1>1, <1>6, <1>8, <1>9 DEF Pair, p, v, c
<1>11. c = y /\ v = top
  BY <1>2, <1>3, <1>4, <1>6, <1>10
<1>12. 2 * v + c = a + f.CF * p
  BY <1>1, <1>2, <1>4, <1>6, <1>11
<1> QED
  BY <1>12 DEF v, c, p
================================================================================
